----------------------------- MODULE SnapshotLog -----------------------------
(***************************************************************************)
(* What tre_snapshot, tre_revert and tre_dropSnapshot promise, every call  *)
(* being one indivisible step: the semantics Hardhat gives evm_snapshot    *)
(* and evm_revert.  TreSnapshots is what TreJsonRpcImpl does instead.      *)
(***************************************************************************)
EXTENDS Integers

CONSTANT States     \* contents the four captured stores can have together

VARIABLES
    state,      \* the contents now
    log,        \* the live snapshots: [id, saved]
    last        \* the last id given out

logVars == <<state, log, last>>

Entry == [id : Nat \ {0}, saved : States]

Init == state \in States /\ log = {} /\ last = 0

Write == state' \in States /\ UNCHANGED <<log, last>>

\* Save the contents under a fresh id, higher than any before.
Snapshot ==
    /\ last' = last + 1
    /\ log' = log \cup {[id |-> last + 1, saved |-> state]}
    /\ UNCHANGED state

\* Restore a snapshot; it and every newer id are invalid from then on.
RevertTo(e) ==
    /\ state' = e.saved
    /\ log' = {f \in log : f.id < e.id}
    /\ UNCHANGED last

DropEntry(e) == log' = log \ {e} /\ UNCHANGED <<state, last>>

Revert == \E e \in log : RevertTo(e)
Drop == \E e \in log : DropEntry(e)

Next == Write \/ Snapshot \/ Revert \/ Drop

Spec == Init /\ [][Next]_logVars
=============================================================================
