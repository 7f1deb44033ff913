----------------------------- MODULE RunLedger -----------------------------
(***************************************************************************)
(* What the run history of an engagement promises, whatever threads,       *)
(* files and renames do: it is a ledger.  An entry is added once, under an *)
(* id no entry had before, and its content never changes and never goes;   *)
(* only the control that an entry is filed under may change, and then for  *)
(* all entries of that control at once (repo.rename_control_id).           *)
(* ControlRuns is shown to implement it.                                   *)
(***************************************************************************)
CONSTANTS Owners,    \* control ids
          RunIds,    \* identifiers of runs
          Contents   \* what a run found

VARIABLE ledger      \* the entries

Entry == [id : RunIds, owner : Owners, items : Contents]

LedgerTypeOK == ledger \subseteq Entry

LedgerInit == ledger = {}

Record(e) ==
  /\ e \in Entry
  /\ \A f \in ledger : f.id # e.id
  /\ ledger' = ledger \cup {e}

Refile(c, d) ==
  ledger' = {IF e.owner = c THEN [e EXCEPT !.owner = d] ELSE e : e \in ledger}

LedgerNext ==
  \/ \E e \in ledger' \ ledger : Record(e)
  \/ \E c, d \in Owners : Refile(c, d)

LedgerSpec == LedgerInit /\ [][LedgerNext]_ledger
============================================================================
