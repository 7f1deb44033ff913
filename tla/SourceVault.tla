---------------------------- MODULE SourceVault ----------------------------
(***************************************************************************)
(* What the versioned data files of a source promise, with no steps,       *)
(* paths or rows: the byte contents that can be recovered for a source     *)
(* only ever grow, one uploaded content at a time.  This is the comment    *)
(* over the versioning helpers of plane/routes/sources.py ("Refreshing a   *)
(* source's data never destroys the old file") as a specification;         *)
(* SourceFiles is shown to implement it.                                   *)
(***************************************************************************)
CONSTANTS Sources,   \* ids of the data sources of the engagement
          Bytes      \* the contents an uploaded file may have

VARIABLE kept        \* kept[s]: contents that can still be read back for s

VaultTypeOK == kept \in [Sources -> SUBSET Bytes]

VaultInit == kept = [s \in Sources |-> {}]

Publish(s, c) == kept' = [kept EXCEPT ![s] = @ \cup {c}]

VaultNext == \E s \in Sources, c \in Bytes : Publish(s, c)

VaultSpec == VaultInit /\ [][VaultNext]_kept
============================================================================
