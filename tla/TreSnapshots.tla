---------------------------- MODULE TreSnapshots ----------------------------
(***************************************************************************)
(* snapshot(), revert() and dropSnapshot() of TreJsonRpcImpl.java, run by  *)
(* the threads of the node's JSON-RPC server.                              *)
(*                                                                         *)
(* The stores are guarded by the monitor of dbManager, the map SNAPSHOTS   *)
(* by its own, the counter is an AtomicLong: a call is atomic only between *)
(* two monitors, and those are the actions here.  The four captured stores *)
(* are dumped and restored under one dbManager monitor, which every other  *)
(* writer takes too, so their contents are one value.                      *)
(***************************************************************************)
EXTENDS Integers, FiniteSets

CONSTANTS
    Threads,    \* server threads: how many calls may overlap
    States,     \* contents of the four captured stores
    MaxSnapshots \* bound on the ids given out

ASSUME ConstantsAssumption == MaxSnapshots \in Nat

VARIABLES
    exclusive,  \* callers of snapshots wait for each other: none is made while one runs
    store,      \* contents of accountStore, codeStore, contractStore, storageRowStore
    snapshots,  \* SNAPSHOTS: [id, pos, saved], pos the place in insertion order
    counter,    \* SNAPSHOT_COUNTER
    puts,       \* insertions into SNAPSHOTS so far
    at,         \* at[t]: what thread t does next
    arg,        \* arg[t]: the id given, or the one its snapshot got
    saved,      \* saved[t]: the dump taken, or the entry to restore
    ok,         \* ok[t]: the outcome of the finished call
    dead,       \* history: ids removed from SNAPSHOTS
    superseded  \* history: ids given out by the time a revert took an older one

callVars == <<at, arg, saved, ok>>
vars == <<exclusive, store, snapshots, counter, puts, callVars, dead, superseded>>

Steps == {"idle", "write", "dump", "number", "put", "take", "restore", "drop", "done"}
FirstStep == [write |-> "write", snapshot |-> "dump", revert |-> "take", drop |-> "drop"]
Ids == 0..MaxSnapshots
Entries == [id : Nat, pos : Nat, saved : States]
LiveIds == {e.id : e \in snapshots}

Init ==
    /\ exclusive \in BOOLEAN
    /\ store \in States
    /\ snapshots = {} /\ counter = 0 /\ puts = 0 /\ dead = {} /\ superseded = {}
    /\ at = [t \in Threads |-> "idle"]
    /\ arg = [t \in Threads |-> 0]
    /\ saved = [t \in Threads |-> store]
    /\ ok = [t \in Threads |-> FALSE]

Running(t) == at[t] \notin {"idle", "done"}
Snapping(t) == Running(t) /\ at[t] # "write"
Goto(t, step) == at' = [at EXCEPT ![t] = step]
Finish(t, outcome) == Goto(t, "done") /\ ok' = [ok EXCEPT ![t] = outcome]

\* A request reaches a free thread.
Receive(t, op, id) ==
    /\ ~Running(t)
    /\ exclusive /\ op # "write" => \A u \in Threads : ~Snapping(u)
    /\ op = "snapshot" => counter + Cardinality({u \in Threads : at[u] \in {"dump", "number"}})
                            < MaxSnapshots
    /\ Goto(t, FirstStep[op])
    /\ arg' = [arg EXCEPT ![t] = id]
    /\ UNCHANGED <<store, snapshots, counter, puts, saved, ok, dead, superseded>>

\* Any other call that writes the stores: a write of it, which may be its last.
WriteStore(t) ==
    /\ at[t] = "write"
    /\ store' \in States
    /\ UNCHANGED <<at, ok>> \/ \E outcome \in BOOLEAN : Finish(t, outcome)
    /\ UNCHANGED <<snapshots, counter, puts, arg, saved, dead, superseded>>

\* The node pushes a block, whoever waits for whom.
PushBlock ==
    /\ store' \in States
    /\ UNCHANGED <<snapshots, counter, puts, callVars, dead, superseded>>

\* snapshot(): dumpStore of all four, under dbManager; it may throw ...
Dump(t) ==
    /\ at[t] = "dump"
    /\ \/ /\ saved' = [saved EXCEPT ![t] = store]
          /\ Goto(t, "number") /\ UNCHANGED ok
       \/ Finish(t, FALSE) /\ UNCHANGED saved
    /\ UNCHANGED <<store, snapshots, counter, puts, arg, dead, superseded>>

NumberBySize(t) ==
    /\ at[t] = "number"
    /\ counter' = counter + 1
    /\ arg' = [arg EXCEPT ![t] = Cardinality(snapshots) + 1]
    /\ Goto(t, "put")
    /\ UNCHANGED <<store, snapshots, puts, saved, ok, dead, superseded>>

\* ... incrementAndGet ...
Number(t) ==
    /\ at[t] = "number"
    /\ counter' = counter + 1
    /\ arg' = [arg EXCEPT ![t] = counter + 1]
    /\ Goto(t, "put")
    /\ UNCHANGED <<store, snapshots, puts, saved, ok, dead, superseded>>

\* ... and SNAPSHOTS.put, under SNAPSHOTS.
Put(t) ==
    /\ at[t] = "put"
    /\ puts' = puts + 1
    /\ snapshots' = snapshots \cup {[id |-> arg[t], pos |-> puts + 1, saved |-> saved[t]]}
    /\ Finish(t, TRUE)
    /\ UNCHANGED <<store, counter, arg, saved, dead, superseded>>

\* What revert() removes with entry e: e and all inserted after it.
InvalidatedNewerOnly(e) == {f \in snapshots : f.pos > e.pos}
InvalidatedTargetOnly(e) == {e}
Invalidated(e) == {f \in snapshots : f.pos >= e.pos}

\* Thread t's id is live: its entry is remembered, the tail removed ...
Taken(t, e) ==
    /\ e.id = arg[t]
    /\ snapshots' = snapshots \ Invalidated(e)
    /\ dead' = dead \cup {f.id : f \in Invalidated(e)}
    /\ superseded' = superseded \cup e.id..counter
    /\ saved' = [saved EXCEPT ![t] = e.saved]
    /\ Goto(t, "restore") /\ UNCHANGED ok

\* ... or it is not and the call throws "unknown snapshot id".
Refused(t) ==
    /\ arg[t] \notin LiveIds
    /\ Finish(t, FALSE)
    /\ UNCHANGED <<snapshots, dead, superseded, saved>>

\* revert(): look the id up and remove its tail, under SNAPSHOTS ...
Take(t) ==
    /\ at[t] = "take"
    /\ (\E e \in snapshots : Taken(t, e)) \/ Refused(t)
    /\ UNCHANGED <<store, counter, puts, arg>>

\* ... and restoreStore of all four, under dbManager; when it throws half way
\* the entry stays removed and the contents are a mixture.
Restore(t) ==
    /\ at[t] = "restore"
    /\ \/ store' = saved[t] /\ Finish(t, TRUE)
       \/ store' \in States /\ Finish(t, FALSE)
    /\ UNCHANGED <<snapshots, counter, puts, arg, saved, dead, superseded>>

\* dropSnapshot(): SNAPSHOTS.remove(id) != null.
DropSnapshot(t) ==
    /\ at[t] = "drop"
    /\ snapshots' = {e \in snapshots : e.id # arg[t]}
    /\ dead' = dead \cup ({arg[t]} \cap LiveIds)
    /\ Finish(t, arg[t] \in LiveIds)
    /\ UNCHANGED <<store, counter, puts, arg, saved, superseded>>

Step(t) ==
    \/ WriteStore(t)
    \/ Dump(t) \/ Number(t) \/ Put(t)
    \/ Take(t) \/ Restore(t)
    \/ DropSnapshot(t)

\* Whether they wait for each other is a habit of the callers, not of the node.
Next == /\ \/ \E t \in Threads :
              \/ \E op \in DOMAIN FirstStep, id \in Ids : Receive(t, op, id)
              \/ Step(t)
           \/ PushBlock
        /\ UNCHANGED exclusive

Spec == Init /\ [][Next]_vars

-----------------------------------------------------------------------------
(* Properties                                                              *)

\* Every variable ranges over its type.
TypeOK ==
    /\ exclusive \in BOOLEAN
    /\ store \in States
    /\ snapshots \subseteq Entries
    /\ counter \in Nat /\ puts \in Nat
    /\ at \in [Threads -> Steps]
    /\ arg \in [Threads -> Nat]
    /\ saved \in [Threads -> States]
    /\ ok \in [Threads -> BOOLEAN]
    /\ dead \subseteq Nat /\ superseded \subseteq Nat

\* An id names one snapshot, and once reverted to, dropped or invalidated it is
\* never live again, whatever calls overlap: a client that kept it gets "unknown
\* snapshot id" and never somebody else's state.
IdsNeverReused ==
    /\ \A e, f \in snapshots : e.id = f.id => e = f
    /\ LiveIds \cap dead = {}

\* Of overlapping reverts to one id at most one goes on to restore it: its retry
\* is refused, it does not restore the state a second time.
OneRestorePerId ==
    \A t, u \in Threads :
        at[t] = "restore" /\ at[u] = "restore" /\ arg[t] = arg[u] => t = u

\* So an id stands for one snapshot, restored once.
IdsNameOneSnapshot == IdsNeverReused /\ OneRestorePerId

\* The abstract log, as snapshots whose callers wait for each other realise it,
\* whatever else writes the stores meanwhile: a revert takes effect when it takes
\* the entry, a snapshot when it dumps the stores, and its id is then the counter's
\* next.  Of callers that do not wait nothing is claimed: their log stays empty.
Restoring == {t \in Threads : at[t] = "restore"}
Dumped == {t \in Threads : at[t] \in {"number", "put"}}
IdOf(t) == IF at[t] = "number" THEN counter + 1 ELSE arg[t]
Contents == IF Restoring = {} THEN store ELSE saved[CHOOSE t \in Restoring : TRUE]
GivenOut == IF \E t \in Threads : at[t] = "number" THEN counter + 1 ELSE counter
Saved == {[id |-> e.id, saved |-> e.saved] : e \in snapshots}
         \cup {[id |-> IdOf(t), saved |-> saved[t]] : t \in Dumped}
AbstractState == IF exclusive THEN Contents ELSE CHOOSE s \in States : TRUE
AbstractLog == IF exclusive THEN Saved ELSE {}
Last == IF exclusive THEN GivenOut ELSE 0
Log == INSTANCE SnapshotLog WITH state <- AbstractState, log <- AbstractLog, last <- Last

\* Snapshots, reverts and drops that do not overlap each other behave as Hardhat's do.
ImplementsLog == Log!Spec

\* revert()'s comment: "drop snapshotId and everything taken after it (Hardhat
\* semantics: revert(N) invalidates any newer snapshot ids)".  It needs callers
\* that wait for each other: a snapshot that is numbered before a revert and put
\* after it stays live.
NewerIdsInvalid == exclusive => LiveIds \cap superseded = {}
=============================================================================
