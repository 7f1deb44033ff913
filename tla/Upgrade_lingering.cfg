\* The upgrade may leave no server running: the system then rests.
SPECIFICATION Spec
CONSTANTS
  Apps = {a1, a2, a3}
  First = a1
  NoApp = none
  Helpers = {h1, h2}
  Lingering = TRUE
  Manual = TRUE
CHECK_DEADLOCK FALSE
INVARIANTS TypeOK NoticeIsTrue 
PROPERTIES UpgradeEnds ServesAgain
