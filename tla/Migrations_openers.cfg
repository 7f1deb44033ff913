SPECIFICATION Spec
CONSTANTS
  Script <- StoreSteps
  Openers = {o1, o2}
  Sources = {s1, s2}
  Releases = {0, 1, 2, 3, 4, 5, 6, 7}
  MaxCrashes = 2
INVARIANTS TypeOK VersionBacked OpenIsMigrated UndisturbedOpens
