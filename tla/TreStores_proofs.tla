--------------------------- MODULE TreStores_proofs ---------------------------
(***************************************************************************)
(* The node's stores, for any number of overlapping calls and any          *)
(* contents.  First TreSnapshots alone: snapshot ids are never reused, an  *)
(* id is restored once, and snapshots whose callers wait for each other    *)
(* implement SnapshotLog.  Then the setters and blocks of TreStores: the   *)
(* node with them is a node of TreSnapshots, whose theorems it therefore   *)
(* inherits; and what they leave behind of an account.                     *)
(***************************************************************************)
EXTENDS TreStores, TLAPS

-----------------------------------------------------------------------------
(* Snapshot ids                                                            *)

\* Ids are handed out in increasing order: those live, dead or about to be put
\* are at most the counter.
IdsBounded ==
    /\ \A i \in LiveIds \cup dead : i <= counter
    /\ \A t \in Threads : at[t] = "put" => arg[t] <= counter

\* A snapshot about to be put holds an id nobody else has or had.
PendingFresh ==
    \A t \in Threads : at[t] = "put" =>
        /\ arg[t] \notin LiveIds \cup dead
        /\ \A u \in Threads : at[u] = "put" /\ arg[u] = arg[t] => u = t

\* A revert that goes on to restore has removed its id.
RestoringDead == \A t \in Threads : at[t] = "restore" => arg[t] \in dead

IInv ==
    /\ TypeOK
    /\ IdsBounded
    /\ PendingFresh
    /\ RestoringDead
    /\ IdsNeverReused
    /\ OneRestorePerId

\* Nothing is running and nothing was given out at first.
LEMMA InitIInv == Init => IInv
  <1> SUFFICES ASSUME Init PROVE IInv
    OBVIOUS
  <1>1. TypeOK
    BY DEF Init, TypeOK, Steps, Entries
  <1>2. LiveIds = {}
    BY DEF Init, LiveIds
  <1>3. QED
    BY <1>1, <1>2 DEF IInv, Init, IdsBounded, PendingFresh, RestoringDead,
                      IdsNeverReused, OneRestorePerId

\* Every step keeps the variables in their types.
LEMMA TypeStep == IInv /\ [Next]_vars => TypeOK'
  <1> SUFFICES ASSUME TypeOK, [Next]_vars PROVE TypeOK'
    BY DEF IInv
  <1>0. exclusive' \in BOOLEAN
    BY DEF TypeOK, Next, vars
  <1> USE <1>0
  <1>1. ASSUME NEW t \in Threads, NEW op \in DOMAIN FirstStep, NEW id \in Ids,
               Receive(t, op, id)
        PROVE  TypeOK'
    BY <1>1, ConstantsAssumption DEF TypeOK, Receive, Goto, FirstStep, Steps, Ids
  <1>2. ASSUME NEW t \in Threads, WriteStore(t) PROVE TypeOK'
    BY <1>2 DEF TypeOK, WriteStore, Finish, Goto, Steps
  <1>11. CASE PushBlock
    BY <1>11 DEF TypeOK, PushBlock, callVars
  <1>3. ASSUME NEW t \in Threads, Dump(t) PROVE TypeOK'
    <2>1. saved' \in [Threads -> States] /\ ok' \in [Threads -> BOOLEAN]
      BY <1>3 DEF TypeOK, Dump, Finish
    <2>2. at' \in [Threads -> Steps]
      BY <1>3 DEF TypeOK, Dump, Finish, Goto, Steps
    <2>3. QED
      BY <1>3, <2>1, <2>2 DEF TypeOK, Dump
  <1>4. ASSUME NEW t \in Threads, Number(t) PROVE TypeOK'
    BY <1>4 DEF TypeOK, Number, Goto, Steps
  <1>5. ASSUME NEW t \in Threads, Put(t) PROVE TypeOK'
    BY <1>5 DEF TypeOK, Put, Finish, Goto, Steps, Entries
  <1>6. ASSUME NEW t \in Threads, Take(t) PROVE TypeOK'
    <2>1. CASE \E e \in snapshots : Taken(t, e)
      <3> PICK e \in snapshots : Taken(t, e)
        BY <2>1
      <3>1. e.id \in Nat /\ e.saved \in States
        BY DEF TypeOK, Entries
      <3>2. e.id..counter \subseteq Nat /\ {f.id : f \in Invalidated(e)} \subseteq Nat
        BY <3>1 DEF TypeOK, Entries, Invalidated
      <3>3. QED
        BY <1>6, <3>1, <3>2 DEF TypeOK, Take, Taken, Goto, Steps, Invalidated
    <2>2. CASE Refused(t)
      BY <1>6, <2>2 DEF TypeOK, Take, Refused, Finish, Goto, Steps
    <2>3. QED
      BY <1>6, <2>1, <2>2 DEF Take
  <1>7. ASSUME NEW t \in Threads, Restore(t) PROVE TypeOK'
    <2>1. store' \in States /\ ok' \in [Threads -> BOOLEAN]
      BY <1>7 DEF TypeOK, Restore, Finish
    <2>2. at' \in [Threads -> Steps]
      BY <1>7 DEF TypeOK, Restore, Finish, Goto, Steps
    <2>3. QED
      BY <1>7, <2>1, <2>2 DEF TypeOK, Restore
  <1>8. ASSUME NEW t \in Threads, DropSnapshot(t) PROVE TypeOK'
    <2>1. snapshots' \subseteq Entries /\ dead' \subseteq Nat
      BY <1>8 DEF TypeOK, DropSnapshot
    <2>2. ok' \in [Threads -> BOOLEAN]
      <3> DEFINE live == arg[t] \in LiveIds
      <3>1. live \in BOOLEAN
        OBVIOUS
      <3>2. ok' = [ok EXCEPT ![t] = live]
        BY <1>8, Zenon DEF DropSnapshot, Finish
      <3>3. QED
        <4> HIDE DEF live
        <4> QED BY <3>1, <3>2 DEF TypeOK
    <2>3. QED
      BY <1>8, <2>1, <2>2 DEF TypeOK, DropSnapshot, Finish, Goto, Steps
  <1>9. CASE UNCHANGED vars
    BY <1>9 DEF TypeOK, vars, callVars
  <1>10. QED
    BY <1>1, <1>2, <1>3, <1>4, <1>5, <1>6, <1>7, <1>8, <1>9, <1>11 DEF Next, Step

\* Every step keeps the bound on ids.
LEMMA BoundStep == IInv /\ [Next]_vars => IdsBounded'
  <1> SUFFICES ASSUME TypeOK, IdsBounded, [Next]_vars PROVE IdsBounded'
    BY DEF IInv
  <1>1. ASSUME NEW t \in Threads, NEW op \in DOMAIN FirstStep, NEW id \in Ids,
               Receive(t, op, id)
        PROVE  IdsBounded'
    BY <1>1 DEF TypeOK, IdsBounded, LiveIds, Receive, Goto, FirstStep
  <1>2. ASSUME NEW t \in Threads, WriteStore(t) \/ Dump(t) \/ Restore(t) PROVE IdsBounded'
    BY <1>2 DEF TypeOK, IdsBounded, LiveIds, WriteStore, Dump, Restore, Finish, Goto
  <1>3. ASSUME NEW t \in Threads, Number(t) PROVE IdsBounded'
    <2>1. LiveIds' \cup dead' = LiveIds \cup dead
      BY <1>3 DEF Number, LiveIds
    <2>2. LiveIds \cup dead \subseteq Nat
      BY DEF TypeOK, LiveIds, Entries
    <2>3. \A i \in LiveIds' \cup dead' : i <= counter'
      BY <1>3, <2>1, <2>2 DEF TypeOK, IdsBounded, Number
    <2>4. \A u \in Threads : at'[u] = "put" => arg'[u] <= counter'
      BY <1>3 DEF TypeOK, IdsBounded, Number, Goto
    <2>5. QED
      BY <2>3, <2>4 DEF IdsBounded
  <1>4. ASSUME NEW t \in Threads, Put(t) PROVE IdsBounded'
    BY <1>4 DEF TypeOK, IdsBounded, LiveIds, Put, Finish, Goto
  <1>5. ASSUME NEW t \in Threads, Take(t) PROVE IdsBounded'
    <2>1. LiveIds' \cup dead' = LiveIds \cup dead
      BY <1>5 DEF Take, Taken, Refused, Invalidated, LiveIds
    <2>2. \A u \in Threads : at'[u] = "put" => at[u] = "put"
      BY <1>5 DEF TypeOK, Take, Taken, Refused, Finish, Goto
    <2>3. counter' = counter /\ arg' = arg
      BY <1>5 DEF Take
    <2>4. QED
      BY <2>1, <2>2, <2>3 DEF IdsBounded
  <1>6. ASSUME NEW t \in Threads, DropSnapshot(t) PROVE IdsBounded'
    BY <1>6 DEF TypeOK, IdsBounded, LiveIds, DropSnapshot, Finish, Goto
  <1>7. CASE PushBlock \/ UNCHANGED vars
    BY <1>7 DEF IdsBounded, LiveIds, PushBlock, vars, callVars
  <1>8. QED
    BY <1>1, <1>2, <1>3, <1>4, <1>5, <1>6, <1>7 DEF Next, Step

\* Every step keeps pending ids fresh and the log free of reuse.
LEMMA FreshStep == IInv /\ [Next]_vars => PendingFresh' /\ IdsNeverReused'
  <1> SUFFICES ASSUME TypeOK, IdsBounded, PendingFresh, IdsNeverReused, [Next]_vars
               PROVE  PendingFresh' /\ IdsNeverReused'
    BY DEF IInv
  <1>1. ASSUME NEW t \in Threads, NEW op \in DOMAIN FirstStep, NEW id \in Ids,
               Receive(t, op, id)
        PROVE  PendingFresh' /\ IdsNeverReused'
    BY <1>1 DEF TypeOK, PendingFresh, IdsNeverReused, LiveIds, Receive, Running, Goto, FirstStep
  <1>2. ASSUME NEW t \in Threads, WriteStore(t) \/ Dump(t) \/ Restore(t)
        PROVE  PendingFresh' /\ IdsNeverReused'
    BY <1>2 DEF TypeOK, PendingFresh, IdsNeverReused, LiveIds, WriteStore, Dump, Restore,
                Finish, Goto
  <1>3. ASSUME NEW t \in Threads, Number(t) PROVE PendingFresh' /\ IdsNeverReused'
    <2>1. LiveIds' = LiveIds /\ dead' = dead /\ snapshots' = snapshots
      BY <1>3 DEF Number, LiveIds
    <2>2. counter + 1 \notin LiveIds \cup dead
      BY DEF TypeOK, IdsBounded
    <2>3. QED
      BY <1>3, <2>1, <2>2 DEF TypeOK, PendingFresh, IdsNeverReused, IdsBounded, Number, Goto
  <1>4. ASSUME NEW t \in Threads, Put(t) PROVE PendingFresh' /\ IdsNeverReused'
    <2>1. LiveIds' = LiveIds \cup {arg[t]}
      <3> DEFINE new == [id |-> arg[t], pos |-> puts + 1, saved |-> saved[t]]
      <3>1. snapshots' = snapshots \cup {new} /\ new.id = arg[t]
        BY <1>4 DEF Put
      <3>2. QED
        <4> HIDE DEF new
        <4> QED BY <3>1 DEF LiveIds
    <2>2. arg[t] \notin LiveIds \cup dead
      BY <1>4 DEF Put, PendingFresh
    <2>3. PendingFresh'
      BY <1>4, <2>1 DEF TypeOK, PendingFresh, Put, Finish, Goto
    <2>4. IdsNeverReused'
      <3> DEFINE new == [id |-> arg[t], pos |-> puts + 1, saved |-> saved[t]]
      <3>1. snapshots' = snapshots \cup {new} /\ dead' = dead
        BY <1>4 DEF Put
      <3>2. \A e \in snapshots : e.id \in LiveIds
        BY DEF LiveIds
      <3>3. \A e \in snapshots : e.id # new.id
        BY <2>2, <3>2
      <3>4. QED
        BY <2>1, <2>2, <3>1, <3>3 DEF IdsNeverReused
    <2>5. QED
      BY <2>3, <2>4
  <1>5. ASSUME NEW t \in Threads, Take(t) PROVE PendingFresh' /\ IdsNeverReused'
    <2>1. CASE \E e \in snapshots : Taken(t, e)
      <3> PICK e \in snapshots : Taken(t, e)
        BY <2>1
      <3>1. LiveIds' \cup dead' = LiveIds \cup dead
        BY DEF Taken, LiveIds, Invalidated
      <3>2. LiveIds' \cap dead' = {}
        BY DEF Taken, LiveIds, Invalidated, IdsNeverReused
      <3>3. QED
        BY <1>5, <3>1, <3>2 DEF TypeOK, PendingFresh, IdsNeverReused, Take, Taken, Goto
    <2>2. CASE Refused(t)
      BY <1>5, <2>2 DEF TypeOK, PendingFresh, IdsNeverReused, LiveIds, Take, Refused, Finish, Goto
    <2>3. QED
      BY <1>5, <2>1, <2>2 DEF Take
  <1>6. ASSUME NEW t \in Threads, DropSnapshot(t) PROVE PendingFresh' /\ IdsNeverReused'
    <2>1. LiveIds' = LiveIds \ {arg[t]}
      BY <1>6 DEF DropSnapshot, LiveIds
    <2>2. dead' \subseteq dead \cup {arg[t]} /\ dead' \subseteq dead \cup LiveIds
      BY <1>6 DEF DropSnapshot
    <2>3. QED
      BY <1>6, <2>1, <2>2 DEF TypeOK, PendingFresh, IdsNeverReused, DropSnapshot, Finish, Goto
  <1>7. CASE PushBlock \/ UNCHANGED vars
    BY <1>7 DEF PendingFresh, IdsNeverReused, LiveIds, PushBlock, vars, callVars
  <1>8. QED
    BY <1>1, <1>2, <1>3, <1>4, <1>5, <1>6, <1>7 DEF Next, Step

\* Every step keeps the ids being restored dead, so that a second revert of
\* one cannot get as far.
LEMMA RestoreStep == IInv /\ [Next]_vars => RestoringDead' /\ OneRestorePerId'
  <1> SUFFICES ASSUME TypeOK, IdsNeverReused, RestoringDead, OneRestorePerId, [Next]_vars
               PROVE  RestoringDead' /\ OneRestorePerId'
    BY DEF IInv
  <1>1. ASSUME NEW t \in Threads, NEW op \in DOMAIN FirstStep, NEW id \in Ids,
               Receive(t, op, id)
        PROVE  RestoringDead' /\ OneRestorePerId'
    BY <1>1 DEF TypeOK, RestoringDead, OneRestorePerId, Receive, Goto, FirstStep
  <1>2. ASSUME NEW t \in Threads, WriteStore(t) \/ Dump(t) \/ Number(t) \/ Put(t) \/ Restore(t)
        PROVE  RestoringDead' /\ OneRestorePerId'
    BY <1>2 DEF TypeOK, RestoringDead, OneRestorePerId, WriteStore, Dump, Number, Put, Restore,
                Finish, Goto
  <1>3. ASSUME NEW t \in Threads, Take(t) PROVE RestoringDead' /\ OneRestorePerId'
    <2>1. CASE \E e \in snapshots : Taken(t, e)
      <3> PICK e \in snapshots : Taken(t, e)
        BY <2>1
      <3>1. arg[t] \in LiveIds /\ arg[t] \notin dead
        BY DEF Taken, LiveIds, IdsNeverReused
      <3>2. arg[t] \in dead' /\ dead \subseteq dead'
        BY DEF Taken, Invalidated, TypeOK, Entries
      <3>3. QED
        BY <1>3, <3>1, <3>2 DEF TypeOK, RestoringDead, OneRestorePerId, Take, Taken, Goto
    <2>2. CASE Refused(t)
      BY <1>3, <2>2 DEF TypeOK, RestoringDead, OneRestorePerId, Take, Refused, Finish, Goto
    <2>3. QED
      BY <1>3, <2>1, <2>2 DEF Take
  <1>4. ASSUME NEW t \in Threads, DropSnapshot(t) PROVE RestoringDead' /\ OneRestorePerId'
    BY <1>4 DEF TypeOK, RestoringDead, OneRestorePerId, DropSnapshot, Finish, Goto
  <1>5. CASE PushBlock \/ UNCHANGED vars
    BY <1>5 DEF RestoringDead, OneRestorePerId, PushBlock, vars, callVars
  <1>6. QED
    BY <1>1, <1>2, <1>3, <1>4, <1>5 DEF Next, Step

\* The strengthened invariant holds in every reachable state.
THEOREM Invariance == Spec => []IInv
  <1>1. IInv /\ [Next]_vars => IInv'
    BY TypeStep, BoundStep, FreshStep, RestoreStep DEF IInv
  <1>2. QED
    BY InitIInv, <1>1, PTL DEF Spec

\* Every variable of snapshot(), revert() and dropSnapshot() keeps its type.
THEOREM TypeCorrect == Spec => []TypeOK
  <1>1. IInv => TypeOK
    BY DEF IInv
  <1>2. QED
    BY Invariance, <1>1, PTL

\* However calls overlap, an id names one snapshot and never comes back to life.
THEOREM IdsAreNeverReused == Spec => []IdsNeverReused
  <1>1. IInv => IdsNeverReused
    BY DEF IInv
  <1>2. QED
    BY Invariance, <1>1, PTL

\* Of overlapping reverts to one id at most one restores it.
THEOREM RestoredOnce == Spec => []OneRestorePerId
  <1>1. IInv => OneRestorePerId
    BY DEF IInv
  <1>2. QED
    BY Invariance, <1>1, PTL

\* However calls overlap, an id names one snapshot, which is restored once.
THEOREM OneSnapshotPerId == Spec => []IdsNameOneSnapshot
  BY IdsAreNeverReused, RestoredOnce, PTL DEF IdsNameOneSnapshot

-----------------------------------------------------------------------------
(* Snapshots that do not overlap implement SnapshotLog                     *)

OneRunning == \A t, u \in Threads : Snapping(t) /\ Snapping(u) => t = u

\* Insertion order is id order, and the last id is the counter.
PutOrder ==
    /\ \A e, f \in snapshots : e.pos >= f.pos <=> e.id >= f.id
    /\ \A e \in snapshots : e.pos <= puts /\ e.id <= counter /\ e.id > 0
    /\ \A t \in Threads : at[t] = "put" =>
            arg[t] = counter /\ counter > 0 /\ \A e \in snapshots : e.id < counter

SerialInv == IInv /\ OneRunning /\ PutOrder

\* A snapshot's thread that takes a step is the one running, and the others stay.
LEMMA StepperRuns ==
    ASSUME IInv, OneRunning, NEW t \in Threads, Step(t), ~WriteStore(t)
    PROVE  /\ Snapping(t)
           /\ \A u \in Threads \ {t} : at'[u] = at[u] /\ ~Snapping(u) /\ arg'[u] = arg[u]
           /\ at' \in [Threads -> Steps] /\ at \in [Threads -> Steps]
  <1>1. at \in [Threads -> Steps] /\ arg \in [Threads -> Nat]
    BY DEF IInv, TypeOK
  <1>2. Snapping(t)
    BY DEF Step, Snapping, Running, Dump, Number, Put, Take, Restore, DropSnapshot
  <1>3. \A u \in Threads \ {t} : at'[u] = at[u] /\ arg'[u] = arg[u]
    BY <1>1 DEF Step, Dump, Number, Put, Take, Taken, Refused, Restore, DropSnapshot, Goto, Finish
  <1>4. at' \in [Threads -> Steps]
    BY <1>1 DEF Step, Dump, Number, Put, Take, Taken, Refused, Restore, DropSnapshot, Goto, Finish, Steps
  <1>5. \A u \in Threads \ {t} : ~Snapping(u)
    BY <1>2 DEF OneRunning
  <1>6. QED
    BY <1>1, <1>2, <1>3, <1>4, <1>5

\* A call that writes, as it comes and at each write, leaves the snapshots under way
\* and those made alone.
Aside == {"idle", "done", "write"}
Beside(t) == WriteStore(t) \/ \E id \in Ids : Receive(t, "write", id)

LEMMA WritersAside ==
    ASSUME IInv, NEW t \in Threads, Beside(t)
    PROVE  /\ at[t] \in Aside /\ at'[t] \in Aside
           /\ \A u \in Threads \ {t} : at'[u] = at[u] /\ arg'[u] = arg[u]
           /\ UNCHANGED <<snapshots, counter, puts, saved, dead, superseded>>
  <1>1. at \in [Threads -> Steps] /\ arg \in [Threads -> Nat]
    BY DEF IInv, TypeOK
  <1>2. CASE WriteStore(t)
    BY <1>1, <1>2 DEF WriteStore, Finish, Goto, Aside
  <1>3. ASSUME NEW id \in Ids, Receive(t, "write", id)
        PROVE  /\ at[t] \in Aside /\ at'[t] \in Aside
               /\ \A u \in Threads \ {t} : at'[u] = at[u] /\ arg'[u] = arg[u]
               /\ UNCHANGED <<snapshots, counter, puts, saved, dead, superseded>>
    <2>1. FirstStep["write"] = "write"
      BY DEF FirstStep
    <2>2. QED
      BY <1>1, <1>3, <2>1 DEF Receive, Running, Goto, Aside
  <1>4. QED
    BY <1>2, <1>3 DEF Beside

\* Nor does a snapshot's call come while another is under way.
LEMMA ComesAlone ==
    ASSUME IInv, exclusive, NEW t \in Threads, NEW op \in DOMAIN FirstStep, NEW id \in Ids, Receive(t, op, id)
    PROVE  \/ Beside(t)
           \/ /\ \A u \in Threads : at[u] \in Aside
              /\ at'[t] \in {"dump", "take", "drop"} /\ \A u \in Threads \ {t} : at'[u] = at[u]
  <1>1. CASE op = "write"
    BY <1>1 DEF Beside
  <1>2. CASE op # "write"
    <2>1. \A u \in Threads : at[u] \in Aside
      BY <1>2 DEF Receive, Snapping, Running, Aside
    <2>2. FirstStep[op] \in {"dump", "take", "drop"}
      BY <1>2 DEF FirstStep
    <2>3. QED
      BY <2>1, <2>2 DEF Receive, Goto, IInv, TypeOK
  <1>3. QED
    BY <1>1, <1>2

\* Without overlap, one snapshot's call runs at a time.
LEMMA OneRunningStep ==
    ASSUME exclusive, IInv, OneRunning, [Next]_vars PROVE OneRunning'
  <1>1. ASSUME NEW t \in Threads, NEW op \in DOMAIN FirstStep, NEW id \in Ids,
               Receive(t, op, id)
        PROVE  OneRunning'
    <2>1. CASE Beside(t)
      BY <2>1, WritersAside DEF OneRunning, Snapping, Running, Aside
    <2>2. CASE /\ \A u \in Threads : at[u] \in Aside
               /\ \A u \in Threads \ {t} : at'[u] = at[u]
      BY <2>2 DEF OneRunning, Snapping, Running, Aside
    <2>3. QED
      BY <1>1, <2>1, <2>2, ComesAlone
  <1>2. ASSUME NEW t \in Threads, Step(t) PROVE OneRunning'
    <2>1. CASE WriteStore(t)
      BY <2>1, WritersAside DEF Beside, OneRunning, Snapping, Running, Aside
    <2>2. CASE ~WriteStore(t)
      BY <1>2, <2>2, StepperRuns DEF OneRunning, Snapping, Running
    <2>3. QED
      BY <2>1, <2>2
  <1>3. CASE PushBlock \/ UNCHANGED vars
    BY <1>3 DEF OneRunning, Snapping, Running, PushBlock, vars, callVars
  <1>4. QED
    BY <1>1, <1>2, <1>3 DEF Next

\* Without overlap, the log stays ordered.
LEMMA PutOrderStep ==
    ASSUME exclusive, IInv, OneRunning, PutOrder, [Next]_vars PROVE PutOrder'
  <1>1. ASSUME NEW t \in Threads, NEW op \in DOMAIN FirstStep, NEW id \in Ids,
               Receive(t, op, id)
        PROVE  PutOrder'
    <2>1. \A u \in Threads : at'[u] = "put" => at[u] = "put" /\ arg'[u] = arg[u]
      BY <1>1, ComesAlone, WritersAside DEF Aside
    <2>2. QED
      BY <1>1, <2>1 DEF PutOrder, Receive
  <1>2. ASSUME NEW t \in Threads, Step(t) PROVE PutOrder'
    <2>0. CASE WriteStore(t)
      <3>1. \A u \in Threads : at'[u] = "put" => at[u] = "put" /\ arg'[u] = arg[u]
        BY <2>0, WritersAside DEF Beside, Aside
      <3>2. QED
        BY <2>0, <3>1 DEF PutOrder, WriteStore
    <2> SUFFICES ASSUME ~WriteStore(t) PROVE PutOrder'
      BY <2>0
    <2>1. /\ at[t] \notin Aside
          /\ \A u \in Threads \ {t} : at'[u] \in Aside
      BY <1>2, StepperRuns DEF Snapping, Running, Aside
    <2>2. CASE Dump(t) \/ Restore(t)
      BY <2>1, <2>2 DEF PutOrder, Dump, Restore, Goto, Finish, IInv, TypeOK, Aside
    <2>3. CASE Number(t)
      <3>1. \A e \in snapshots : e.id \in Nat /\ e.pos \in Nat
        BY DEF IInv, TypeOK, Entries
      <3>2. snapshots' = snapshots /\ puts' = puts /\ counter' = counter + 1 /\ counter \in Nat
        BY <2>3 DEF Number, IInv, TypeOK
      <3>3. \A u \in Threads : at'[u] = "put" => u = t /\ arg'[u] = counter + 1
        BY <2>1, <2>3 DEF Number, IInv, TypeOK, Aside
      <3>4. QED
        BY <3>1, <3>2, <3>3 DEF PutOrder
    <2>4. CASE Put(t)
      <3> DEFINE new == [id |-> arg[t], pos |-> puts + 1, saved |-> saved[t]]
      <3>1. \A e \in snapshots : e.id \in Nat /\ e.pos \in Nat
        BY DEF IInv, TypeOK, Entries
      <3>2. snapshots' = snapshots \cup {new} /\ puts' = puts + 1 /\ counter' = counter
        BY <2>4 DEF Put
      <3>3. new.id = counter /\ new.pos = puts + 1 /\ counter \in Nat /\ puts \in Nat /\ counter > 0
        BY <2>4 DEF Put, PutOrder, IInv, TypeOK
      <3>4. \A e \in snapshots : e.id < counter /\ e.pos <= puts
        BY <2>4 DEF Put, PutOrder
      <3>5. \A u \in Threads : at'[u] # "put"
        BY <2>1, <2>4 DEF Put, Finish, Goto, IInv, TypeOK, Aside
      <3>6. QED
        <4> HIDE DEF new
        <4>1. \A e, f \in snapshots' : e.pos >= f.pos <=> e.id >= f.id
          BY <3>1, <3>2, <3>3, <3>4 DEF PutOrder
        <4>2. \A e \in snapshots' : e.pos <= puts' /\ e.id <= counter' /\ e.id > 0
          BY <3>1, <3>2, <3>3, <3>4 DEF PutOrder
        <4>3. QED
          BY <4>1, <4>2, <3>5 DEF PutOrder
    <2>5. CASE Take(t) \/ DropSnapshot(t)
      <3>1. snapshots' \subseteq snapshots /\ puts' = puts /\ counter' = counter
        BY <2>5 DEF Take, Taken, Refused, DropSnapshot
      <3>2. \A u \in Threads : at'[u] # "put"
        BY <2>1, <2>5 DEF Take, Taken, Refused, DropSnapshot, Finish, Goto, IInv, TypeOK, Aside
      <3>3. QED
        BY <3>1, <3>2 DEF PutOrder
    <2>6. QED
      BY <1>2, <2>2, <2>3, <2>4, <2>5 DEF Step
  <1>3. CASE PushBlock \/ UNCHANGED vars
    BY <1>3 DEF PutOrder, PushBlock, vars, callVars
  <1>4. QED
    BY <1>1, <1>2, <1>3 DEF Next

\* What the mapping hides: nothing is restored or pending at first.
LEMMA InitMaps == Init => IInv /\ (exclusive => SerialInv) /\ Log!Init
  <1> SUFFICES ASSUME Init PROVE IInv /\ SerialInv /\ Log!Init
    OBVIOUS
  <1>1. \A t \in Threads : at[t] = "idle"
    BY DEF Init
  <1>2. OneRunning /\ PutOrder
    BY <1>1 DEF Init, OneRunning, PutOrder, Snapping, Running
  <1>3. Contents = store /\ Saved = {} /\ GivenOut = 0
    BY <1>1 DEF Init, Contents, Restoring, Saved, Dumped, GivenOut
  <1>4. AbstractState \in States /\ AbstractLog = {} /\ Last = 0
    BY <1>3 DEF Init, AbstractState, AbstractLog, Last
  <1>5. QED
    BY <1>2, <1>4, InitIInv DEF SerialInv, Log!Init

\* The log entries of the entries put.
Kept == {[id |-> e.id, saved |-> e.saved] : e \in snapshots}

\* Every step is a step of the log, or invisible to it.
LEMMA StepMaps ==
    ASSUME exclusive, SerialInv, [Next]_vars PROVE [Log!Next]_(Log!logVars)
  <1>m. /\ AbstractState = Contents /\ AbstractLog = Saved /\ Last = GivenOut
        /\ AbstractState' = Contents' /\ AbstractLog' = Saved' /\ Last' = GivenOut'
    BY DEF AbstractState, AbstractLog, Last, Next, vars
  <1>0. /\ at \in [Threads -> Steps] /\ arg \in [Threads -> Nat] /\ saved \in [Threads -> States]
        /\ store \in States /\ counter \in Nat
    BY DEF SerialInv, IInv, TypeOK
  <1>1. ASSUME NEW t \in Threads, NEW op \in DOMAIN FirstStep, NEW id \in Ids,
               Receive(t, op, id)
        PROVE  UNCHANGED <<Contents, Saved, GivenOut>>
    <2>1. CASE Beside(t)
      <3>1. Dumped' = Dumped /\ Restoring' = Restoring /\ \A u \in Dumped : IdOf(u)' = IdOf(u)
        BY <2>1, WritersAside DEF SerialInv, Dumped, Restoring, IdOf, Aside
      <3>2. GivenOut' = GivenOut
        BY <2>1, WritersAside DEF SerialInv, GivenOut, Aside
      <3>3. UNCHANGED <<snapshots, saved, store>>
        BY <1>1 DEF Receive
      <3>4. QED
        BY <3>1, <3>2, <3>3 DEF Contents, Saved
    <2>2. CASE /\ \A u \in Threads : at[u] \in Aside
               /\ at'[t] \in {"dump", "take", "drop"} /\ \A u \in Threads \ {t} : at'[u] = at[u]
      <3>1. \A u \in Threads : at'[u] \notin {"restore", "number", "put"} /\ at[u] \notin {"restore", "number", "put"}
        BY <2>2 DEF Aside
      <3>2. Dumped = {} /\ Dumped' = {} /\ Restoring = {} /\ Restoring' = {}
        BY <3>1 DEF Dumped, Restoring
      <3>3. QED
        BY <1>1, <3>1, <3>2 DEF Receive, Contents, Saved, GivenOut
    <2>3. QED
      BY <1>1, <2>1, <2>2, ComesAlone DEF SerialInv
  <1>2. ASSUME NEW t \in Threads, Step(t), ~WriteStore(t) PROVE [Log!Next]_(Log!logVars)
    <2>1. /\ \A u \in Threads \ {t} : at[u] \in Aside /\ at'[u] \in Aside
          /\ at' \in [Threads -> Steps]
      BY <1>2, StepperRuns DEF SerialInv, Snapping, Running, Aside
    <2>2. Restoring = (IF at[t] = "restore" THEN {t} ELSE {})
      BY <2>1 DEF Restoring, Aside
    <2>3. Restoring' = (IF at'[t] = "restore" THEN {t} ELSE {})
      BY <2>1 DEF Restoring, Aside
    <2>4. Contents = IF at[t] = "restore" THEN saved[t] ELSE store
      BY <2>2 DEF Contents
    <2>5. Contents' = IF at'[t] = "restore" THEN saved'[t] ELSE store'
      BY <2>3 DEF Contents
    <2>6. GivenOut = IF at[t] = "number" THEN counter + 1 ELSE counter
      BY <2>1 DEF GivenOut, Aside
    <2>7. GivenOut' = IF at'[t] = "number" THEN counter' + 1 ELSE counter'
      BY <2>1 DEF GivenOut, Aside
    <2>8. /\ at[t] \in {"number", "put"} => Saved = Kept \cup {[id |-> IdOf(t), saved |-> saved[t]]}
          /\ at[t] \notin {"number", "put"} => Saved = Kept
      <3>1. Dumped = (IF at[t] \in {"number", "put"} THEN {t} ELSE {})
        BY <2>1 DEF Dumped, Aside
      <3>2. QED
        BY <3>1 DEF Saved, Kept
    <2>9. /\ at'[t] \in {"number", "put"} => Saved' = Kept' \cup {[id |-> IdOf(t)', saved |-> saved'[t]]}
          /\ at'[t] \notin {"number", "put"} => Saved' = Kept'
      <3>1. Dumped' = (IF at'[t] \in {"number", "put"} THEN {t} ELSE {})
        BY <2>1 DEF Dumped, Aside
      <3>2. QED
        BY <3>1 DEF Saved, Kept
    <2>11. CASE Dump(t)
      <3>1. Kept' = Kept /\ counter' = counter /\ Contents' = Contents
        BY <1>0, <2>4, <2>5, <2>11 DEF Dump, Kept, Finish, Goto
      <3>2. CASE at'[t] = "number"
        <4>1. saved'[t] = store /\ IdOf(t)' = counter + 1
          BY <1>0, <2>11, <3>1, <3>2 DEF Dump, Finish, Goto, IdOf
        <4>2. Contents = store /\ GivenOut = counter /\ GivenOut' = counter + 1 /\ Saved = Kept
          BY <2>4, <2>6, <2>7, <2>8, <2>11, <3>1, <3>2 DEF Dump
        <4>3. Saved' = Saved \cup {[id |-> GivenOut + 1, saved |-> Contents]}
          BY <2>9, <3>1, <3>2, <4>1, <4>2
        <4>4. QED
          BY <1>m, <3>1, <4>2, <4>3 DEF Log!Next, Log!Snapshot
      <3>3. CASE at'[t] # "number"
        <4>1. at'[t] = "done"
          BY <1>0, <2>11, <3>3 DEF Dump, Finish, Goto
        <4>2. Saved' = Saved /\ GivenOut' = GivenOut
          BY <2>6, <2>7, <2>8, <2>9, <2>11, <3>1, <4>1 DEF Dump
        <4>3. QED
          BY <1>m, <3>1, <4>2 DEF Log!logVars
      <3>4. QED
        BY <3>2, <3>3
    <2>12. CASE Number(t)
      <3>1. at[t] = "number" /\ at'[t] = "put" /\ counter' = counter + 1 /\ arg'[t] = counter + 1
        BY <1>0, <2>12 DEF Number, Goto
      <3>2. IdOf(t)' = IdOf(t) /\ Kept' = Kept
        BY <2>12, <3>1 DEF Number, IdOf, Kept
      <3>3. Contents' = Contents /\ Saved' = Saved /\ GivenOut' = GivenOut
        BY <2>4, <2>5, <2>6, <2>7, <2>8, <2>9, <2>12, <3>1, <3>2 DEF Number
      <3>4. QED
        BY <1>m, <3>3 DEF Log!logVars
    <2>13. CASE Put(t)
      <3>1. at[t] = "put" /\ at'[t] = "done"
        BY <1>0, <2>13 DEF Put, Finish, Goto
      <3>2. Kept' = Kept \cup {[id |-> IdOf(t), saved |-> saved[t]]}
        <4> DEFINE new == [id |-> arg[t], pos |-> puts + 1, saved |-> saved[t]]
        <4>1. snapshots' = snapshots \cup {new}
          BY <2>13 DEF Put
        <4>2. new.id = IdOf(t) /\ new.saved = saved[t]
          BY <3>1 DEF IdOf
        <4> HIDE DEF new
        <4>3. QED
          BY <4>1, <4>2 DEF Kept
      <3>3. Contents' = Contents /\ Saved' = Saved /\ GivenOut' = GivenOut
        BY <2>4, <2>5, <2>6, <2>7, <2>8, <2>9, <2>13, <3>1, <3>2 DEF Put
      <3>4. QED
        BY <1>m, <3>3 DEF Log!logVars
    <2>14. CASE Take(t)
      <3>1. at[t] = "take" /\ at'[t] \in {"restore", "done"}
        BY <1>0, <2>14 DEF Take, Taken, Refused, Finish, Goto
      <3>2. Saved = Kept /\ Saved' = Kept' /\ GivenOut' = GivenOut
        BY <2>6, <2>7, <2>8, <2>9, <2>14, <3>1 DEF Take
      <3>3. CASE \E e \in snapshots : Taken(t, e)
        <4> PICK e \in snapshots : Taken(t, e)
          BY <3>3
        <4> DEFINE kept == [id |-> e.id, saved |-> e.saved]
        <4>1. kept \in Kept /\ kept.id = e.id /\ kept.saved = e.saved
          BY DEF Kept
        <4>2. Contents' = e.saved
          BY <1>0, <2>5 DEF Taken, Goto
        <4>3. snapshots' = {f \in snapshots : f.id < e.id}
          <5>1. \A f \in snapshots : f.pos >= e.pos <=> f.id >= e.id
            BY DEF SerialInv, PutOrder
          <5>2. \A f \in snapshots : f.id \in Nat /\ f.pos \in Nat
            BY DEF SerialInv, IInv, TypeOK, Entries
          <5>3. QED
            BY <5>1, <5>2 DEF Taken, Invalidated
        <4>4. Kept' = {f \in Kept : f.id < e.id}
          BY <4>3 DEF Kept
        <4> HIDE DEF kept
        <4>5. QED
          BY <1>m, <3>2, <4>1, <4>2, <4>4 DEF Log!Next, Log!Revert, Log!RevertTo
      <3>4. CASE Refused(t)
        <4>1. Kept' = Kept
          BY <3>4 DEF Refused, Kept
        <4>2. Contents' = Contents
          BY <1>0, <2>4, <2>5, <2>14, <3>4 DEF Take, Refused, Finish, Goto
        <4>3. QED
          BY <1>m, <3>2, <4>1, <4>2 DEF Log!logVars
      <3>5. QED
        BY <2>14, <3>3, <3>4 DEF Take
    <2>15. CASE Restore(t)
      <3>1. at[t] = "restore" /\ at'[t] = "done"
        BY <1>0, <2>15 DEF Restore, Finish, Goto
      <3>2. Saved' = Saved
        BY <2>8, <2>9, <2>15, <3>1 DEF Restore, Kept
      <3>3. Contents' \in States /\ GivenOut' = GivenOut
        BY <1>0, <2>5, <2>6, <2>7, <2>15, <3>1 DEF Restore
      <3>4. QED
        BY <1>m, <3>2, <3>3 DEF Log!Next, Log!Write
    <2>16. CASE DropSnapshot(t)
      <3>1. at[t] = "drop" /\ at'[t] = "done"
        BY <1>0, <2>16 DEF DropSnapshot, Finish, Goto
      <3>2. Saved = Kept /\ Saved' = Kept' /\ Contents' = Contents /\ GivenOut' = GivenOut
        BY <2>4, <2>5, <2>6, <2>7, <2>8, <2>9, <2>16, <3>1 DEF DropSnapshot
      <3>3. CASE arg[t] \in LiveIds
        <4> PICK e \in snapshots : e.id = arg[t]
          BY <3>3 DEF LiveIds
        <4> DEFINE kept == [id |-> e.id, saved |-> e.saved]
        <4>1. kept \in Kept
          BY DEF Kept
        <4>2. snapshots' = snapshots \ {e}
          BY <2>16 DEF DropSnapshot, SerialInv, IInv, IdsNeverReused
        <4>3. Kept' = Kept \ {kept}
          BY <4>2 DEF Kept, SerialInv, IInv, IdsNeverReused
        <4> HIDE DEF kept
        <4>4. QED
          BY <1>m, <3>2, <4>1, <4>3 DEF Log!Next, Log!Drop, Log!DropEntry
      <3>4. CASE arg[t] \notin LiveIds
        <4>1. snapshots' = snapshots
          BY <2>16, <3>4 DEF DropSnapshot, LiveIds
        <4>2. QED
          BY <1>m, <3>2, <4>1 DEF Kept, Log!logVars
      <3>5. QED
        BY <3>3, <3>4
    <2>17. QED
      BY <1>2, <2>11, <2>12, <2>13, <2>14, <2>15, <2>16 DEF Step
  <1>7. ASSUME NEW t \in Threads, WriteStore(t) PROVE [Log!Next]_(Log!logVars)
    <2>1. /\ Dumped' = Dumped /\ Restoring' = Restoring /\ \A u \in Dumped : IdOf(u)' = IdOf(u)
          /\ UNCHANGED <<saved, snapshots>>
      BY <1>7, WritersAside DEF SerialInv, Beside, Dumped, Restoring, IdOf, Aside
    <2>2. GivenOut' = GivenOut
      BY <1>7, WritersAside DEF SerialInv, Beside, GivenOut, Aside
    <2>3. Saved' = Saved
      BY <2>1 DEF Saved
    <2>4. Contents' \in States \/ Contents' = Contents
      BY <1>7, <2>1 DEF Contents, WriteStore
    <2>5. QED
      BY <1>m, <2>2, <2>3, <2>4 DEF Log!Next, Log!Write, Log!logVars
  <1>3. CASE PushBlock
    <2>1. UNCHANGED <<Saved, GivenOut>>
      BY <1>3 DEF PushBlock, callVars, Saved, Dumped, IdOf, GivenOut
    <2>2. CASE Restoring = {}
      <3>1. Contents' \in States
        BY <1>3, <2>2 DEF PushBlock, callVars, Contents, Restoring
      <3>2. QED
        BY <1>m, <2>1, <3>1 DEF Log!Next, Log!Write
    <2>3. CASE Restoring # {}
      <3>1. Contents' = Contents
        BY <1>3, <2>3 DEF PushBlock, callVars, Contents, Restoring
      <3>2. QED
        BY <1>m, <2>1, <3>1 DEF Log!logVars
    <2>4. QED
      BY <2>2, <2>3
  <1>4. ASSUME UNCHANGED vars PROVE UNCHANGED <<Contents, Saved, GivenOut>>
    BY <1>4 DEF vars, callVars, Contents, Restoring, Saved, Dumped, IdOf, GivenOut
  <1>5. ASSUME UNCHANGED <<Contents, Saved, GivenOut>> PROVE UNCHANGED Log!logVars
    BY <1>m, <1>5 DEF Log!logVars
  <1>6. QED
    BY <1>1, <1>2, <1>7, <1>3, <1>4, <1>5 DEF Next

\* Nothing of callers that do not wait is mapped.
LEMMA OverlapHidden ==
    ASSUME ~exclusive, [Next]_vars PROVE [Log!Next]_(Log!logVars)
  <1>1. ~exclusive'
    BY DEF Next, vars
  <1>2. QED
    BY <1>1 DEF Log!logVars, AbstractState, AbstractLog, Last

\* What holds whoever waits for whom, and what holds if the callers do.
Serial == IInv /\ (exclusive => SerialInv)

LEMMA SerialInvariance == Spec => []Serial
  <1>1. Serial /\ [Next]_vars => Serial'
    <2> SUFFICES ASSUME Serial, [Next]_vars PROVE Serial'
      OBVIOUS
    <2>1. IInv'
      BY TypeStep, BoundStep, FreshStep, RestoreStep DEF IInv, Serial
    <2>2. exclusive' = exclusive
      BY DEF Next, vars
    <2>3. QED
      BY <2>1, <2>2, OneRunningStep, PutOrderStep DEF SerialInv, Serial
  <1>2. Init => Serial
    BY InitMaps DEF Serial
  <1>3. QED
    BY <1>1, <1>2, PTL DEF Spec

\* Snapshots that do not overlap each other behave as Hardhat promises, whatever
\* other calls and blocks write the stores meanwhile.
THEOREM Refinement == Spec => ImplementsLog
  <1>1. Serial /\ [Next]_vars => [Log!Next]_(Log!logVars)
    BY StepMaps, OverlapHidden DEF Serial
  <1>2. Init => Log!Init
    BY InitMaps
  <1>3. QED
    BY <1>1, <1>2, SerialInvariance, PTL DEF Spec, ImplementsLog, Log!Spec

-----------------------------------------------------------------------------
(* What a revert supersedes                                                *)

\* An id a revert has superseded was given out, and nobody is about to put it.
Superseded ==
    exclusive =>
        /\ LiveIds \cap superseded = {}
        /\ \A i \in superseded : i <= counter
        /\ \A t \in Threads : at[t] = "put" => arg[t] \notin superseded

LEMMA SupersededStep ==
    ASSUME Serial, Superseded, [Next]_vars PROVE Superseded'
  <1> SUFFICES ASSUME exclusive PROVE Superseded'
    BY DEF Next, vars, Superseded
  <1>1. /\ LiveIds \cap superseded = {}
        /\ \A i \in superseded : i <= counter
        /\ \A t \in Threads : at[t] = "put" => arg[t] \notin superseded
    BY DEF Superseded
  <1>2. /\ at \in [Threads -> Steps] /\ arg \in [Threads -> Nat] /\ counter \in Nat
        /\ superseded \subseteq Nat /\ \A e \in snapshots : e.id \in Nat /\ e.pos \in Nat
    BY DEF Serial, IInv, TypeOK, Entries
  <1>3. ASSUME NEW t \in Threads, NEW op \in DOMAIN FirstStep, NEW id \in Ids, Receive(t, op, id)
        PROVE  Superseded'
    <2>1. \A u \in Threads : at'[u] = "put" => at[u] = "put" /\ arg'[u] = arg[u]
      BY <1>3, ComesAlone, WritersAside DEF Serial, Aside
    <2>2. QED
      BY <1>1, <1>3, <2>1 DEF Superseded, Receive, LiveIds
  <1>4. ASSUME NEW t \in Threads, Step(t) PROVE Superseded'
    <2>0. CASE WriteStore(t)
      <3>1. \A u \in Threads : at'[u] = "put" => at[u] = "put" /\ arg'[u] = arg[u]
        BY <2>0, WritersAside DEF Beside, Serial, Aside
      <3>2. QED
        BY <1>1, <2>0, <3>1 DEF Superseded, LiveIds, WriteStore
    <2> SUFFICES ASSUME ~WriteStore(t) PROVE Superseded'
      BY <2>0
    <2>1. \A u \in Threads \ {t} : at'[u] \in {"idle", "done", "write"}
      BY <1>4, StepperRuns DEF Snapping, Running, Serial, SerialInv
    <2>2. CASE Dump(t) \/ Restore(t)
      <3>1. \A u \in Threads : at'[u] # "put"
        BY <1>2, <2>1, <2>2 DEF Dump, Restore, Goto, Finish
      <3>2. QED
        BY <1>1, <2>2, <3>1 DEF Superseded, LiveIds, Dump, Restore
    <2>3. CASE Number(t)
      <3>1. counter' = counter + 1 /\ UNCHANGED <<snapshots, superseded>> /\ arg'[t] = counter + 1
        BY <1>2, <2>3 DEF Number
      <3>2. counter + 1 \notin superseded
        BY <1>1, <1>2
      <3>3. \A i \in superseded : i <= counter + 1
        BY <1>1, <1>2
      <3>4. \A u \in Threads : at'[u] = "put" => u = t
        BY <2>1
      <3>5. LiveIds' = LiveIds
        BY <3>1 DEF LiveIds
      <3>6. QED
        BY <1>1, <3>1, <3>2, <3>3, <3>4, <3>5 DEF Superseded
    <2>4. CASE Put(t)
      <3> DEFINE new == [id |-> arg[t], pos |-> puts + 1, saved |-> saved[t]]
      <3>1. snapshots' = snapshots \cup {new} /\ new.id = arg[t] /\ UNCHANGED <<superseded, counter>>
        BY <2>4 DEF Put
      <3>2. arg[t] \notin superseded
        BY <1>1, <2>4 DEF Put
      <3>3. \A u \in Threads : at'[u] # "put"
        BY <1>2, <2>1, <2>4 DEF Put, Finish, Goto
      <3> HIDE DEF new
      <3>4. LiveIds' = LiveIds \cup {arg[t]}
        BY <3>1 DEF LiveIds
      <3>5. QED
        BY <1>1, <3>1, <3>2, <3>3, <3>4 DEF Superseded
    <2>5. CASE Take(t)
      <3>1. counter' = counter /\ \A u \in Threads : at'[u] # "put"
        BY <1>2, <2>1, <2>5 DEF Take, Taken, Refused, Finish, Goto
      <3>2. CASE \E e \in snapshots : Taken(t, e)
        <4> PICK e \in snapshots : Taken(t, e)
          BY <3>2
        <4>1. superseded' = superseded \cup e.id..counter
          BY DEF Taken
        <4>2. \A f \in snapshots' : f \in snapshots /\ ~(f.id >= e.id)
          BY DEF Taken, Invalidated, Serial, SerialInv, PutOrder
        <4>3. LiveIds' \cap superseded' = {}
          <5>1. ASSUME NEW f \in snapshots', f.id \in superseded' PROVE FALSE
            <6>1. f \in snapshots /\ ~(f.id >= e.id) /\ f.id \in Nat /\ e.id \in Nat
              BY <1>2, <4>2, <5>1
            <6>2. f.id \notin superseded
              BY <1>1, <6>1 DEF LiveIds
            <6>3. QED
              BY <1>2, <4>1, <5>1, <6>1, <6>2
          <5>2. QED
            BY <5>1 DEF LiveIds
        <4>4. \A i \in superseded' : i <= counter'
          <5>1. e.id \in Nat /\ counter \in Nat
            BY <1>2
          <5>2. \A i \in e.id..counter : i <= counter
            BY <5>1
          <5>3. QED
            BY <1>1, <3>1, <4>1, <5>2
        <4>5. QED
          BY <3>1, <4>3, <4>4 DEF Superseded
      <3>3. CASE Refused(t)
        BY <1>1, <3>1, <3>3 DEF Refused, Superseded, LiveIds
      <3>4. QED
        BY <2>5, <3>2, <3>3 DEF Take
    <2>6. CASE DropSnapshot(t)
      <3>1. \A u \in Threads : at'[u] # "put"
        BY <1>2, <2>1, <2>6 DEF DropSnapshot, Finish, Goto
      <3>2. LiveIds' \subseteq LiveIds /\ UNCHANGED <<superseded, counter>>
        BY <2>6 DEF DropSnapshot, LiveIds
      <3>3. QED
        BY <1>1, <3>1, <3>2 DEF Superseded
    <2>7. QED
      BY <1>4, <2>2, <2>3, <2>4, <2>5, <2>6 DEF Step
  <1>5. CASE PushBlock \/ UNCHANGED vars
    BY <1>1, <1>5 DEF Superseded, LiveIds, PushBlock, vars, callVars
  <1>6. QED
    BY <1>3, <1>4, <1>5 DEF Next

\* revert()'s comment, for any number of threads whose calls do not overlap: no
\* id given out by the time an older one is reverted to is live afterwards.
THEOREM NewerIdsAreInvalid == Spec => []NewerIdsInvalid
  <1>1. Init => Superseded
    BY DEF Init, Superseded, LiveIds
  <1>2. Superseded => NewerIdsInvalid
    BY DEF Superseded, NewerIdsInvalid
  <1>3. QED
    BY <1>1, <1>2, SerialInvariance, SupersededStep, PTL DEF Spec

-----------------------------------------------------------------------------
(* Setters and blocks beside the snapshots                                 *)

Reads == {Missing, Unhashed, "Normal", "Contract"} \cup Codes
NextSteps == {"none", "readAccount", "writeAccount", "makeAccount", "readContract", "makeContract",
              "setRow", "setCode", "readForHash", "setHash"}

\* A thread that runs a setter is at a write, and what it has read, and was
\* given, is what it is about to write.
SettersSound ==
    /\ setter \in [Threads -> [kind : {"none"} \cup Kinds, next : NextSteps,
                               code : {Missing} \cup Codes, read : Reads]]
    /\ \A t \in Threads : UnderWay(t) =>
         /\ at[t] = "write"
         /\ setter[t].next = "writeAccount" => setter[t].read \in {Missing, "Normal", "Contract"}
         /\ setter[t].next = "makeContract" => setter[t].read \in {Missing, Unhashed} \cup Codes
         /\ setter[t].kind = "code" => setter[t].code \in Codes
         /\ setter[t].next \in {"setCode", "readForHash", "setHash"} => setter[t].kind = "code"

\* One field of the stores written is contents again.
LEMMA StoreFields ==
    ASSUME NEW s \in Stores
    PROVE  /\ s.account \in {Missing, "Normal", "Contract"}
           /\ s.code \in {Missing} \cup Codes
           /\ s.contract \in {Missing, Unhashed} \cup Codes
           /\ \A a \in {Missing, "Normal", "Contract"} : [s EXCEPT !.account = a] \in Stores
           /\ \A c \in {Missing} \cup Codes : [s EXCEPT !.code = c] \in Stores
           /\ \A h \in {Missing, Unhashed} \cup Codes : [s EXCEPT !.contract = h] \in Stores
  BY DEF Stores

\* The stores hold nothing at first.
LEMMA StoresStart == StoresInit => Init /\ SettersSound
  BY DEF StoresInit, SettersSound, NoSetter, UnderWay, Reads, NextSteps, Kinds

\* A setter's call is a request to write.
LEMMA CallMaps ==
    ASSUME TypeOK, SettersSound, NEW t \in Threads, NEW kind \in Kinds, NEW code \in {Missing} \cup Codes,
           kind = "code" => code \in Codes, Call(t, kind, code), UNCHANGED exclusive
    PROVE  [Next]_vars /\ SettersSound'
  <1>1. "write" \in DOMAIN FirstStep /\ FirstStep["write"] = "write"
    BY DEF FirstStep
  <1>2. 0 \in Ids
    BY ConstantsAssumption DEF Ids
  <1>3. Receive(t, "write", 0)
    BY DEF Call
  <1>4. Next
    BY <1>1, <1>2, <1>3 DEF Next
  <1>5. at' = [at EXCEPT ![t] = "write"]
    BY <1>1, <1>3 DEF Receive, Goto
  <1>6. SettersSound'
    BY <1>5 DEF Call, SettersSound, UnderWay, TypeOK, Reads, NextSteps, Kinds
  <1>7. QED
    BY <1>4, <1>6

\* A setter's step is a write, its last one included, or changes none of it.
LEMMA SetterMaps ==
    ASSUME TypeOK, SettersSound, NEW t \in Threads, SetterStep(t), UNCHANGED exclusive
    PROVE  [Next]_vars /\ SettersSound'
  <1>0. store \in Stores /\ at \in [Threads -> Steps] /\ ok \in [Threads -> BOOLEAN] /\ States = Stores
    BY StoresAssumption DEF TypeOK
  <1>1. /\ store.account \in {Missing, "Normal", "Contract"}
        /\ store.code \in {Missing} \cup Codes
        /\ store.contract \in {Missing, Unhashed} \cup Codes
        /\ \A a \in {Missing, "Normal", "Contract"} : [store EXCEPT !.account = a] \in Stores
        /\ \A c \in {Missing} \cup Codes : [store EXCEPT !.code = c] \in Stores
        /\ \A h \in {Missing, Unhashed} \cup Codes : [store EXCEPT !.contract = h] \in Stores
    BY <1>0, StoreFields
  <1>2. ASSUME NEW what \in Reads, NEW next \in NextSteps, Read(t, what, next), UnderWay(t),
               next = "writeAccount" => what \in {Missing, "Normal", "Contract"},
               next = "makeContract" => what \in {Missing, Unhashed} \cup Codes,
               next \in {"setCode", "readForHash", "setHash"} => setter[t].kind = "code"
        PROVE  [Next]_vars /\ SettersSound'
    <2>1. UNCHANGED vars
      BY <1>2 DEF Read, SetterStep, vars, callVars
    <2>2. /\ setter' = [setter EXCEPT ![t].read = what, ![t].next = next]
          /\ at' = at
      BY <1>2 DEF Read
    <2>3. setter \in [Threads -> [kind : {"none"} \cup Kinds, next : NextSteps,
                                 code : {Missing} \cup Codes, read : Reads]]
      BY DEF SettersSound
    <2>4. /\ \A u \in Threads \ {t} : setter'[u] = setter[u]
          /\ setter'[t] = [setter[t] EXCEPT !.read = what, !.next = next]
          /\ setter' = [u \in Threads |-> setter'[u]]
      BY <2>2, <2>3
    <2>5. setter' \in [Threads -> [kind : {"none"} \cup Kinds, next : NextSteps,
                                  code : {Missing} \cup Codes, read : Reads]]
      <3> DEFINE R == [kind : {"none"} \cup Kinds, next : NextSteps, code : {Missing} \cup Codes, read : Reads]
      <3>1. \A r \in R : [r EXCEPT !.read = what, !.next = next] \in R
        OBVIOUS
      <3>2. setter \in [Threads -> R]
        BY <2>3
      <3> HIDE DEF R
      <3>3. \A u \in Threads : setter'[u] \in R
        BY <2>4, <3>1, <3>2
      <3>4. setter' \in [Threads -> R]
        BY <2>4, <3>3
      <3>5. QED
        BY <3>4 DEF R
    <2>6. /\ setter'[t].kind = setter[t].kind /\ setter'[t].code = setter[t].code
           /\ setter'[t].read = what /\ setter'[t].next = next
      BY <2>3, <2>4
    <2> DEFINE Sound(u) == UnderWay(u) =>
                 /\ at[u] = "write"
                 /\ setter[u].next = "writeAccount" => setter[u].read \in {Missing, "Normal", "Contract"}
                 /\ setter[u].next = "makeContract" => setter[u].read \in {Missing, Unhashed} \cup Codes
                 /\ setter[u].kind = "code" => setter[u].code \in Codes
                 /\ setter[u].next \in {"setCode", "readForHash", "setHash"} => setter[u].kind = "code"
    <2>7. \A u \in Threads : Sound(u)
      BY DEF SettersSound
    <2>8. Sound(t)'
      BY <1>2, <2>2, <2>6, <2>7 DEF UnderWay
    <2>9. ASSUME NEW u \in Threads \ {t} PROVE Sound(u)'
      BY <2>2, <2>4, <2>7 DEF UnderWay
    <2>10. SettersSound'
      BY <2>5, <2>8, <2>9 DEF SettersSound
    <2>11. QED
      BY <2>1, <2>10
  <1>3. ASSUME NEW new \in Stores, NEW next \in NextSteps \ {"writeAccount", "makeContract", "setHash"},
               Write(t, new, next), UnderWay(t),
               next \in {"setCode", "readForHash"} => setter[t].kind = "code"
        PROVE  [Next]_vars /\ SettersSound'
    <2>1. WriteStore(t)
      BY <1>0, <1>3 DEF Write, WriteStore, SetterStep, SettersSound
    <2> DEFINE R == [kind : {"none"} \cup Kinds, next : NextSteps, code : {Missing} \cup Codes, read : Reads]
    <2>2. setter \in [Threads -> R] /\ setter' = [setter EXCEPT ![t].next = next, ![t].read = Missing] /\ at' = at
      BY <1>3 DEF SettersSound, Write
    <2>3. /\ \A u \in Threads \ {t} : setter'[u] = setter[u]
          /\ setter'[t] = [setter[t] EXCEPT !.next = next, !.read = Missing]
      BY <2>2
    <2>4. setter'[t] \in R
      BY <2>2, <2>3, <1>3 DEF Reads
    <2>5. setter' \in [Threads -> R]
      BY <2>2, <2>3, <2>4
    <2>6. /\ setter'[t].kind = setter[t].kind /\ setter'[t].code = setter[t].code /\ setter'[t].next = next
      BY <2>2, <2>3
    <2> DEFINE Sound(u) == UnderWay(u) =>
                 /\ at[u] = "write"
                 /\ setter[u].next = "writeAccount" => setter[u].read \in {Missing, "Normal", "Contract"}
                 /\ setter[u].next = "makeContract" => setter[u].read \in {Missing, Unhashed} \cup Codes
                 /\ setter[u].kind = "code" => setter[u].code \in Codes
                 /\ setter[u].next \in {"setCode", "readForHash", "setHash"} => setter[u].kind = "code"
    <2>7. \A u \in Threads : Sound(u)
      BY DEF SettersSound
    <2>8. Sound(t)'
      BY <1>3, <2>2, <2>6, <2>7 DEF UnderWay
    <2>9. ASSUME NEW u \in Threads \ {t} PROVE Sound(u)'
      BY <2>2, <2>3, <2>7 DEF UnderWay
    <2>10. SettersSound'
      BY <2>5, <2>8, <2>9 DEF SettersSound
    <2>11. QED
      BY <2>1, <2>10 DEF Next, Step
  <1>4. ASSUME NEW new \in Stores, WriteLast(t, new), UnderWay(t)
        PROVE  [Next]_vars /\ SettersSound'
    <2>1. WriteStore(t)
      BY <1>0, <1>4 DEF WriteLast, WriteStore, SetterStep, SettersSound
    <2>2. SettersSound'
      BY <1>0, <1>4 DEF WriteLast, SettersSound, UnderWay, NoSetter, Reads, NextSteps, Kinds, Finish, Goto
    <2>3. QED
      BY <2>1, <2>2 DEF Next, Step
  <1>5. CASE ReadAccount(t)
    BY <1>1, <1>2, <1>5 DEF ReadAccount, At, Reads, NextSteps
  <1>6. CASE WriteAccount(t)
    BY <1>1, <1>4, <1>6 DEF WriteAccount, At, SettersSound
  <1>7. CASE MakeAccount(t)
    BY <1>1, <1>3, <1>7 DEF MakeAccount, At, NextSteps
  <1>8. CASE ReadContract(t)
    BY <1>1, <1>2, <1>8 DEF ReadContract, At, Reads, NextSteps
  <1>9. CASE MakeContract(t)
    BY <1>1, <1>3, <1>9 DEF MakeContract, At, NextSteps, SettersSound
  <1>10. CASE SetRow(t)
    BY <1>0, <1>4, <1>10 DEF SetRow, At
  <1>11. CASE SetCode(t)
    <2>1. [store EXCEPT !.code = setter[t].code] \in Stores
      BY <1>1 DEF SettersSound
    <2>2. QED
      BY <2>1, <1>3, <1>11 DEF SetCode, At, NextSteps, SettersSound
  <1>12. CASE ReadForHash(t)
    <2>0. setter[t].kind = "code"
      BY <1>12 DEF ReadForHash, At, SettersSound
    <2>1. CASE store.contract # Missing
      BY <2>0, <2>1, <1>1, <1>2, <1>12 DEF ReadForHash, At, Reads, NextSteps
    <2>2. CASE store.contract = Missing
      <3>1. Finish(t, FALSE) /\ store' = store /\ setter' = [setter EXCEPT ![t] = NoSetter]
        BY <2>2, <1>12 DEF ReadForHash
      <3>2. WriteStore(t)
        BY <1>0, <1>12, <3>1 DEF WriteStore, SetterStep, SettersSound, ReadForHash, At
      <3>3. SettersSound'
        BY <1>0, <3>1 DEF SettersSound, UnderWay, NoSetter, Reads, NextSteps, Kinds, Finish, Goto
      <3>4. QED
        BY <3>2, <3>3 DEF Next, Step
    <2>3. QED
      BY <2>1, <2>2
  <1>13. CASE SetHash(t)
    <2>1. [store EXCEPT !.contract = setter[t].code] \in Stores
      BY <1>1, <1>13 DEF SetHash, At, SettersSound
    <2>2. QED
      BY <2>1, <1>4, <1>13 DEF SetHash, At
  <1>14. QED
    BY <1>5, <1>6, <1>7, <1>8, <1>9, <1>10, <1>11, <1>12, <1>13 DEF SetterStep

\* So is a block.
LEMMA BlockMaps ==
    ASSUME TypeOK, SettersSound, Block, UNCHANGED exclusive
    PROVE  [Next]_vars /\ SettersSound'
  <1>0. store \in Stores /\ States = Stores
    BY StoresAssumption DEF TypeOK
  <1>1. \A c \in Codes : [account |-> "Contract", code |-> c, contract |-> c] \in Stores
    BY DEF Stores
  <1>2. store' \in States
    <2>1. Untouched \in Stores
      BY DEF Untouched, Stores
    <2>2. [store EXCEPT !.account = "Normal"] \in Stores
      BY <1>0 DEF Stores
    <2>3. \A c \in Codes : [store EXCEPT !.account = "Contract", !.code = c] \in Stores
      BY <1>0 DEF Stores
    <2>4. \/ store' = [store EXCEPT !.account = "Normal"]
          \/ \E c \in Codes : store' = [account |-> "Contract", code |-> c, contract |-> c]
          \/ \E c \in Codes : store' = [store EXCEPT !.account = "Contract", !.code = c]
          \/ store' = Untouched
      BY DEF Block
    <2>5. store' \in Stores
      BY <1>1, <2>1, <2>2, <2>3, <2>4
    <2>6. QED
      BY <1>0, <2>5
  <1>3. PushBlock
    BY <1>2 DEF Block, PushBlock
  <1>4. SettersSound'
    BY DEF Block, callVars, SettersSound, UnderWay
  <1>5. QED
    BY <1>3, <1>4 DEF Next

\* Snapshot calls and their steps are TreSnapshots' own.
LEMMA SnapshotMaps ==
    ASSUME TypeOK, SettersSound, NEW t \in Threads, UNCHANGED <<exclusive, setter>>,
           \/ SnapshotStep(t)
           \/ \E op \in {"snapshot", "revert", "drop"}, id \in Ids : SnapshotCall(t, op, id)
    PROVE  [Next]_vars /\ SettersSound'
  <1>0. at \in [Threads -> Steps] /\ ok \in [Threads -> BOOLEAN]
    BY DEF TypeOK
  <1>1. CASE SnapshotStep(t)
    <2>1. Dump(t) \/ Number(t) \/ Put(t) \/ Take(t) \/ Restore(t) \/ DropSnapshot(t)
      BY <1>1 DEF SnapshotStep, RestoreStores
    <2>2. Next
      BY <2>1 DEF Next, Step
    <2>3. at[t] # "write" /\ \A u \in Threads \ {t} : at'[u] = at[u]
      BY <1>0, <2>1 DEF Dump, Number, Put, Take, Taken, Refused, Restore, DropSnapshot, Finish, Goto
    <2>4. SettersSound'
      BY <2>3 DEF SettersSound, UnderWay
    <2>5. QED
      BY <2>2, <2>4
  <1>2. CASE \E op \in {"snapshot", "revert", "drop"}, id \in Ids : SnapshotCall(t, op, id)
    <2>1. PICK op \in {"snapshot", "revert", "drop"}, id \in Ids : Receive(t, op, id)
      BY <1>2 DEF SnapshotCall
    <2>2. Next
      BY <2>1 DEF Next, FirstStep
    <2>3. at[t] # "write" /\ \A u \in Threads \ {t} : at'[u] = at[u]
      BY <1>0, <2>1 DEF Receive, Running, Goto
    <2>4. SettersSound'
      BY <2>3 DEF SettersSound, UnderWay
    <2>5. QED
      BY <2>2, <2>4
  <1>3. QED
    BY <1>1, <1>2

\* Every step of the node with setters is one of the node without, or none.
LEMMA StoresStep ==
    ASSUME TypeOK, IInv, SettersSound, [StoresNext]_storesVars
    PROVE  [Next]_vars /\ TypeOK' /\ IInv' /\ SettersSound'
  <1>1. [Next]_vars /\ SettersSound'
    <2>1. CASE UNCHANGED storesVars
      BY <2>1 DEF storesVars, vars, callVars, SettersSound, UnderWay
    <2>2. ASSUME StoresNext PROVE [Next]_vars /\ SettersSound'
      <3>1. 0 \in Ids /\ UNCHANGED exclusive /\ "balance" \in Kinds /\ "storage" \in Kinds /\ "code" \in Kinds
        BY <2>2, ConstantsAssumption DEF Ids, StoresNext, Kinds
      <3>2. CASE \E t \in Threads, kind \in {"balance", "storage"} : Call(t, kind, Missing)
        BY <3>1, <3>2, CallMaps
      <3>3. CASE \E t \in Threads, c \in Codes : Call(t, "code", c)
        BY <3>1, <3>3, CallMaps
      <3>4. CASE \E t \in Threads : SetterStep(t)
        BY <3>1, <3>4, SetterMaps
      <3>5. CASE Block
        BY <3>1, <3>5, BlockMaps
      <3>6. CASE \E t \in Threads : SnapshotCall(t, "snapshot", 0) /\ UNCHANGED setter
        BY <3>1, <3>6, SnapshotMaps
      <3>7. CASE \E t \in Threads, op \in {"revert", "drop"}, id \in Ids \ {0} :
                    SnapshotCall(t, op, id) /\ UNCHANGED setter
        BY <3>1, <3>7, SnapshotMaps
      <3>8. CASE \E t \in Threads : SnapshotStep(t) /\ UNCHANGED <<setter, work>>
        BY <3>1, <3>8, SnapshotMaps
      <3>9. QED
        BY <2>2, <3>2, <3>3, <3>4, <3>5, <3>6, <3>7, <3>8 DEF StoresNext
    <2>3. QED
      BY <2>1, <2>2
  <1>2. IInv'
    BY <1>1, TypeStep, BoundStep, FreshStep, RestoreStep DEF IInv
  <1>3. QED
    BY <1>1, <1>2 DEF IInv

\* So the setters' own invariant holds with those of TreSnapshots.
LEMMA SettersSoundness == StoresSpec => [](TypeOK /\ IInv /\ SettersSound)
  <1> DEFINE Inv == TypeOK /\ IInv /\ SettersSound
  <1>1. StoresInit => Inv
    BY StoresStart, InitIInv DEF IInv
  <1>2. Inv /\ [StoresNext]_storesVars => Inv'
    BY StoresStep
  <1> HIDE DEF Inv
  <1>3. StoresSpec => []Inv
    BY <1>1, <1>2, PTL DEF StoresSpec
  <1>4. QED
    BY <1>3 DEF Inv

\* Setters and blocks write the stores and do nothing else TreSnapshots could
\* tell: what is proved of it holds beside them.
THEOREM SettersWriteStores == StoresSpec => WritesStores
  <1> DEFINE Inv == TypeOK /\ IInv /\ SettersSound
  <1>1. StoresInit => Init
    BY StoresStart
  <1>2. Inv /\ [StoresNext]_storesVars => [Next]_vars
    BY StoresStep
  <1>3. StoresSpec => []Inv
    BY SettersSoundness DEF Inv
  <1> HIDE DEF Inv
  <1>4. QED
    BY <1>1, <1>2, <1>3, PTL DEF StoresSpec, WritesStores, Spec

\* Beside setters and blocks too, an id names one snapshot, restored once.
THEOREM OneSnapshotPerIdBesideSetters == StoresSpec => []IdsNameOneSnapshot
  BY SettersWriteStores, OneSnapshotPerId, PTL DEF WritesStores

\* So does what revert()'s comment says of newer ids ...
THEOREM NewerIdsInvalidBesideSetters == StoresSpec => []NewerIdsInvalid
  BY SettersWriteStores, NewerIdsAreInvalid, PTL DEF WritesStores

\* ... and snapshots whose callers wait for each other are SnapshotLog's still,
\* every write of a setter or a block being one of the log's.
THEOREM RefinementBesideSetters == StoresSpec => ImplementsLog
  BY SettersWriteStores, Refinement, PTL DEF WritesStores

-----------------------------------------------------------------------------
(* The contract setAccountCode relies on                                   *)

\* Once makeContract has made it, the contract is there, unless undone.
ContractMade ==
    \A t \in Threads :
        UnderWay(t) /\ setter[t].next \in {"setCode", "readForHash", "setHash"} =>
            store.contract # Missing \/ overlaps \cap Undone # {}

\* What was undone stays so.
LEMMA UndoneStays == StoresNext => overlaps \subseteq overlaps'
  <1>1. ASSUME NEW t \in Threads, SetterStep(t) PROVE overlaps \subseteq overlaps'
    BY <1>1 DEF SetterStep, ReadAccount, WriteAccount, MakeAccount, ReadContract, MakeContract,
                SetRow, SetCode, ReadForHash, SetHash, Read, Write, WriteLast, Meanwhile
  <1>2. ASSUME NEW t \in Threads, SnapshotStep(t) PROVE overlaps \subseteq overlaps'
    BY <1>2 DEF SnapshotStep, RestoreStores, Meanwhile
  <1>3. Block => overlaps \subseteq overlaps'
    BY DEF Block, Meanwhile
  <1>4. QED
    BY <1>1, <1>2, <1>3 DEF StoresNext, Call, SnapshotCall

\* No step of a setter removes a contract, and makeContract leaves one.
LEMMA ContractStays ==
    ASSUME TypeOK, SettersSound, NEW t \in Threads, SetterStep(t)
    PROVE  store.contract # Missing \/ MakeContract(t) => store'.contract # Missing
  <1>0. store \in Stores
    BY StoresAssumption DEF TypeOK
  <1>1. CASE MakeContract(t)
    <2>1. store' = [store EXCEPT !.contract = IF setter[t].read = Missing THEN Unhashed ELSE setter[t].read]
      BY <1>1 DEF MakeContract, Write
    <2>2. store'.contract = IF setter[t].read = Missing THEN Unhashed ELSE setter[t].read
      BY <1>0, <2>1 DEF Stores
    <2>3. Unhashed # Missing
      BY DEF Unhashed, Missing
    <2>4. QED
      BY <2>2, <2>3
  <1>2. CASE SetHash(t)
    <2>1. store' = [store EXCEPT !.contract = setter[t].code]
      BY <1>2 DEF SetHash, WriteLast
    <2>2. store'.contract = setter[t].code
      BY <1>0, <2>1 DEF Stores
    <2>3. setter[t].code \in Codes
      BY <1>2 DEF SetHash, At, SettersSound
    <2>4. QED
      BY <2>2, <2>3, StoresAssumption
  <1>3. CASE ~MakeContract(t) /\ ~SetHash(t)
    BY <1>0, <1>3 DEF SetterStep, ReadAccount, WriteAccount, MakeAccount, ReadContract, SetRow, SetCode,
                      ReadForHash, Read, Write, WriteLast, Stores
  <1>4. QED
    BY <1>1, <1>2, <1>3

\* A restore in the middle of setAccountCode is noted.
LEMMA RestoreNoted ==
    ASSUME TypeOK, SettersSound, NEW t \in Threads, NEW u \in Threads, RestoreStores(u),
           UnderWay(t), setter[t].kind = "code"
    PROVE  overlaps' \cap Undone # {}
  <1>1. u # t
    BY DEF RestoreStores, SettersSound
  <1>2. CASE Meanwhile("restore", Threads \ {u})
    <2>1. <<"code", "restore">> \in overlaps'
      BY <1>1, <1>2 DEF Meanwhile
    <2>2. QED
      BY <2>1 DEF Undone
  <1>3. CASE overlaps' = overlaps \cup {<<"none", "threw">>}
    BY <1>3 DEF Undone
  <1>4. QED
    BY <1>2, <1>3 DEF RestoreStores

\* No step removes the contract of a setter that goes on, unless it is noted.
LEMMA MadeStep ==
    ASSUME TypeOK, SettersSound, ContractMade, StoresNext
    PROVE  ContractMade'
  <1> SUFFICES ASSUME NEW t \in Threads, UnderWay(t)', setter'[t].next \in {"setCode", "readForHash", "setHash"}
               PROVE  store'.contract # Missing \/ overlaps' \cap Undone # {}
    BY DEF ContractMade
  <1>0. store \in Stores /\ setter[t].kind \in {"none"} \cup Kinds
    BY StoresAssumption DEF TypeOK, SettersSound
  <1>1. overlaps \subseteq overlaps'
    BY UndoneStays
  <1> DEFINE Held == UnderWay(t) /\ setter[t].next \in {"setCode", "readForHash", "setHash"}
  <1>2. Held => store.contract # Missing \/ overlaps' \cap Undone # {}
    BY <1>1 DEF ContractMade
  <1>3. ASSUME NEW u \in Threads, SetterStep(u) PROVE store'.contract # Missing \/ overlaps' \cap Undone # {}
    <2>1. Held \/ MakeContract(u)
      <3>1. CASE u # t
        <4>1. setter'[t] = setter[t]
          BY <1>3, <3>1 DEF SetterStep, ReadAccount, WriteAccount, MakeAccount, ReadContract, MakeContract,
                            SetRow, SetCode, ReadForHash, SetHash, Read, Write, WriteLast, SettersSound
        <4>2. QED
          BY <4>1 DEF UnderWay
      <3>2. CASE u = t
        <4>0. setter \in [Threads -> [kind : {"none"} \cup Kinds, next : NextSteps,
                                      code : {Missing} \cup Codes, read : Reads]]
          BY DEF SettersSound
        <4>1. CASE ReadAccount(t)
          BY <4>0, <4>1 DEF ReadAccount, Read
        <4>2. CASE WriteAccount(t) \/ SetRow(t) \/ SetHash(t)
          <5>1. setter'[t] = NoSetter
            BY <4>0, <4>2 DEF WriteAccount, SetRow, SetHash, WriteLast
          <5>2. QED
            BY <5>1 DEF UnderWay, NoSetter
        <4>3. CASE MakeAccount(t)
          <5>1. setter'[t].next = "readContract"
            BY <4>0, <4>3 DEF MakeAccount, Write
          <5>2. QED
            BY <5>1
        <4>4. CASE ReadContract(t)
          BY <4>0, <4>4 DEF ReadContract, Read
        <4>5. CASE SetCode(t) \/ ReadForHash(t)
          BY <4>5 DEF SetCode, ReadForHash, At
        <4>6. QED
          BY <1>3, <3>2, <4>1, <4>2, <4>3, <4>4, <4>5 DEF SetterStep
      <3>3. QED
        BY <3>1, <3>2
    <2>2. QED
      BY <2>1, <1>2, <1>3, ContractStays
  <1>4. ASSUME UNCHANGED setter PROVE Held /\ setter[t].kind = "code"
    BY <1>4 DEF SettersSound, UnderWay
  <1>5. CASE Block
    <2>1. store.contract # Missing => store'.contract # Missing \/ overlaps' \cap Undone # {}
      <3>1. CASE store' = [store EXCEPT !.account = "Normal"]
        BY <1>0, <3>1 DEF Stores
      <3>2. CASE store = Untouched
        BY <3>2 DEF Untouched
      <3>3. CASE store.contract = Missing
        BY <3>3
      <3>4. CASE Meanwhile("destroy", Threads)
        <4>1. Held /\ setter[t].kind = "code"
          BY <1>4, <1>5 DEF Block
        <4>2. <<"code", "destroy">> \in overlaps'
          BY <3>4, <4>1 DEF Meanwhile
        <4>3. QED
          BY <4>2 DEF Undone
      <3>5. QED
        BY <1>5, <3>1, <3>2, <3>3, <3>4 DEF Block
    <2>2. QED
      BY <1>5, <2>1, <1>2, <1>4 DEF Block
  <1>6. ASSUME NEW u \in Threads, NEW kind \in Kinds, NEW code \in {Missing} \cup Codes, Call(u, kind, code)
        PROVE  store'.contract # Missing \/ overlaps' \cap Undone # {}
    <2>1. Held /\ store' = store
      BY <1>6 DEF Call, SettersSound, UnderWay, Receive
    <2>2. QED
      BY <2>1, <1>2
  <1>7. ASSUME NEW u \in Threads, NEW op \in {"snapshot", "revert", "drop"}, NEW id \in Ids,
               SnapshotCall(u, op, id), UNCHANGED setter
        PROVE  store'.contract # Missing \/ overlaps' \cap Undone # {}
    BY <1>7, <1>2, <1>4 DEF SnapshotCall, Receive
  <1>8. ASSUME NEW u \in Threads, SnapshotStep(u), UNCHANGED setter
        PROVE  store'.contract # Missing \/ overlaps' \cap Undone # {}
    <2>1. CASE RestoreStores(u)
      BY <2>1, <1>8, <1>4, RestoreNoted
    <2>2. CASE ~RestoreStores(u)
      BY <2>2, <1>8, <1>2, <1>4 DEF SnapshotStep, Dump, Number, Put, Take, DropSnapshot
    <2>3. QED
      BY <2>1, <2>2
  <1> HIDE DEF Held
  <1>9. "balance" \in Kinds /\ "storage" \in Kinds /\ "code" \in Kinds /\ 0 \in Ids
    BY ConstantsAssumption DEF Kinds, Ids
  <1>10. QED
    BY <1>3, <1>5, <1>6, <1>7, <1>8, <1>9 DEF StoresNext

\* A setAccountCode at readForHash ends there for want of a contract, and nothing
\* else ends it.
LEMMA OnlyItselfEnds ==
    ASSUME TypeOK, SettersSound, StoresNext, NEW t \in Threads, At(t, "readForHash"), at'[t] = "done"
    PROVE  store.contract = Missing
  <1>0. at \in [Threads -> Steps] /\ at[t] = "write"
    BY DEF TypeOK, SettersSound, At
  <1>1. ASSUME NEW u \in Threads, SetterStep(u) PROVE store.contract = Missing
    <2>1. CASE u # t
      <3>1. at'[t] = at[t]
        BY <1>0, <1>1, <2>1 DEF SetterStep, ReadAccount, WriteAccount, MakeAccount, ReadContract, MakeContract,
                                SetRow, SetCode, ReadForHash, SetHash, Read, Write, WriteLast, Finish, Goto
      <3>2. QED
        BY <1>0, <3>1
    <2>2. CASE u = t
      <3>1. ReadForHash(t)
        BY <1>1, <2>2 DEF SetterStep, ReadAccount, WriteAccount, MakeAccount, ReadContract, MakeContract,
                          SetRow, SetCode, SetHash, At
      <3>2. QED
        BY <1>0, <3>1 DEF ReadForHash, Read
    <2>3. QED
      BY <2>1, <2>2
  <1>2. ASSUME NEW u \in Threads, SnapshotStep(u) PROVE FALSE
    BY <1>0, <1>2 DEF SnapshotStep, RestoreStores, Dump, Number, Put, Take, Taken, Refused, Restore,
                      DropSnapshot, Finish, Goto
  <1>3. ASSUME NEW u \in Threads, NEW op \in DOMAIN FirstStep, NEW id \in Ids, Receive(u, op, id) PROVE FALSE
    BY <1>0, <1>3 DEF Receive, Running, Goto, FirstStep
  <1>4. ASSUME Block PROVE FALSE
    BY <1>0, <1>4 DEF Block, callVars
  <1>5. 0 \in Ids /\ DOMAIN FirstStep = {"write", "snapshot", "revert", "drop"}
    BY ConstantsAssumption DEF Ids, FirstStep
  <1>6. QED
    BY <1>1, <1>2, <1>3, <1>4, <1>5 DEF StoresNext, Call, SnapshotCall

\* The contract setAccountCode does not ask for is there, for any number of
\* overlapping setters, blocks and snapshots, unless a restore has undone it.
THEOREM CodeHasItsContract == StoresSpec => CodeFindsItsContract
  <1> DEFINE Inv == TypeOK /\ IInv /\ SettersSound
             Found == \A t \in Threads : At(t, "readForHash") /\ at'[t] = "done" => overlaps \cap Undone # {}
  <1>1. StoresInit => ContractMade
    BY DEF StoresInit, ContractMade, NoSetter, UnderWay
  <1>2. Inv /\ ContractMade /\ [StoresNext]_storesVars => ContractMade'
    <2>1. UNCHANGED storesVars => (ContractMade => ContractMade')
      BY DEF storesVars, vars, ContractMade, UnderWay
    <2>2. QED
      BY <2>1, MadeStep
  <1>3. Inv /\ ContractMade /\ [StoresNext]_storesVars => [Found]_storesVars
    <2> SUFFICES ASSUME Inv, ContractMade, StoresNext PROVE Found
      OBVIOUS
    <2>1. ASSUME NEW t \in Threads, At(t, "readForHash"), at'[t] = "done" PROVE overlaps \cap Undone # {}
      BY <2>1, OnlyItselfEnds DEF ContractMade, At
    <2>2. QED
      BY <2>1
  <1> HIDE DEF Inv, Found
  <1>4. StoresSpec => []Inv
    BY SettersSoundness DEF Inv
  <1>5. StoresSpec => [][Found]_storesVars
    BY <1>1, <1>2, <1>3, <1>4, PTL DEF StoresSpec
  <1>6. QED
    BY <1>5 DEF CodeFindsItsContract, Found

-----------------------------------------------------------------------------
(* What setters leave of an account: types                                 *)

\* A balance is read and written; the others make a contract first.
StepsOfKind ==
    \A t \in Threads : UnderWay(t) =>
        (setter[t].kind = "balance" <=> setter[t].next \in {"readAccount", "writeAccount"})

\* A setter that has made the account a contract's.
Typing(t) == UnderWay(t) /\ setter[t].kind # "balance" /\ setter[t].next # "makeAccount"

TypesUnspoilt == overlaps \cap (Undone \cup {"balance"} \X {"code", "storage", "block", "restore"}) = {}
InOrder(s) == s.code # Missing \/ s.contract # Missing => s.account = "Contract"

\* The account has to be a contract's: there is one, or one is being made.
Needed == store.code # Missing \/ store.contract # Missing \/ \E t \in Threads : Typing(t)

\* Unless spoilt, the stores and every copy of them are in order, in the middle of
\* a setter too: its first write makes the account a contract's, and it stays
\* one.  Where that matters it is what setAccountBalance is about to write back.
TypesInv ==
    TypesUnspoilt =>
        /\ Needed => store.account = "Contract"
        /\ \A e \in snapshots : InOrder(e.saved)
        /\ \A t \in Threads : InOrder(saved[t])
        /\ \A t \in Threads : UnderWay(t) /\ setter[t].next = "writeAccount" =>
               (Needed => setter[t].read = "Contract")

-----------------------------------------------------------------------------
(* What setters leave of an account: hashes                                *)

\* The code is written, its hash is not yet.
Pending(t) == UnderWay(t) /\ setter[t].kind = "code" /\ setter[t].next \in {"readForHash", "setHash"}
SomePending == \E t \in Threads : Pending(t)

HashesUnspoilt == overlaps \cap (Undone \cup {<<"code", "code">>, <<"storage", "code">>, <<"code", "dump">>}) = {}
Hashed(s) == s.contract \in {Missing, Unhashed, s.code}

\* Unless spoilt, the stores are hashed except while a setAccountCode is between
\* its code and the hash, and so is what the others are about to write back; it
\* is never that half of one that is saved.
HashesInv ==
    HashesUnspoilt =>
        /\ Hashed(store) \/ SomePending
        /\ \A e \in snapshots : Hashed(e.saved)
        /\ \A t \in Threads : Hashed(saved[t])
        /\ \A t \in Threads : Pending(t) => setter[t].code = store.code
        /\ \A t \in Threads : UnderWay(t) /\ setter[t].next = "makeContract" =>
               setter[t].read \in {Missing, Unhashed, store.code} \/ SomePending
        /\ \A t \in Threads : Typing(t) => store.account # Missing

-----------------------------------------------------------------------------
(* What the steps of setters do                                            *)

\* What setter[t] may be.
SetterRecords == [kind : {"none"} \cup Kinds, next : NextSteps, code : {Missing} \cup Codes, read : Reads]

LEMMA ReadEffect ==
    ASSUME SettersSound, NEW t \in Threads, NEW what, NEW next, Read(t, what, next)
    PROVE  /\ \A u \in Threads \ {t} : setter'[u] = setter[u]
           /\ setter'[t].kind = setter[t].kind /\ setter'[t].code = setter[t].code
           /\ setter'[t].next = next /\ setter'[t].read = what
           /\ store' = store /\ overlaps' = overlaps
  <1>1. setter \in [Threads -> SetterRecords] /\ setter' = [setter EXCEPT ![t].read = what, ![t].next = next]
    BY DEF SettersSound, SetterRecords, Read
  <1>2. (\A u \in Threads \ {t} : setter'[u] = setter[u]) /\ setter'[t] = [setter[t] EXCEPT !.read = what, !.next = next]
    BY <1>1
  <1>3. setter[t] \in SetterRecords
    BY <1>1
  <1>4. DOMAIN setter[t] = {"kind", "next", "code", "read"}
    BY <1>3 DEF SetterRecords
  <1>5. store' = store /\ overlaps' = overlaps
    BY DEF Read
  <1>6. QED
    BY <1>2, <1>4, <1>5

LEMMA WriteEffect ==
    ASSUME SettersSound, NEW t \in Threads, NEW new, NEW next, Write(t, new, next)
    PROVE  /\ \A u \in Threads \ {t} : setter'[u] = setter[u]
           /\ setter'[t].kind = setter[t].kind /\ setter'[t].code = setter[t].code
           /\ setter'[t].next = next
           /\ store' = new
           /\ \A u \in Threads \ {t} : UnderWay(u) => <<setter[u].kind, setter[t].kind>> \in overlaps'
  <1>1. setter \in [Threads -> SetterRecords] /\ setter' = [setter EXCEPT ![t].next = next, ![t].read = Missing]
    BY DEF SettersSound, SetterRecords, Write
  <1>2. (\A u \in Threads \ {t} : setter'[u] = setter[u]) /\ setter'[t] = [setter[t] EXCEPT !.next = next, !.read = Missing]
    BY <1>1
  <1>3. setter[t] \in SetterRecords
    BY <1>1
  <1>4. DOMAIN setter[t] = {"kind", "next", "code", "read"}
    BY <1>3 DEF SetterRecords
  <1>5. \A u \in Threads \ {t} : UnderWay(u) => <<setter[u].kind, setter[t].kind>> \in overlaps'
    BY DEF Write, Meanwhile
  <1>6. store' = new
    BY DEF Write
  <1>7. setter'[t].kind = setter[t].kind /\ setter'[t].code = setter[t].code /\ setter'[t].next = next
    BY <1>2, <1>4
  <1>8. QED
    BY <1>2, <1>5, <1>6, <1>7

LEMMA LastEffect ==
    ASSUME SettersSound, NEW t \in Threads, NEW new, WriteLast(t, new)
    PROVE  /\ \A u \in Threads \ {t} : setter'[u] = setter[u]
           /\ ~UnderWay(t)'
           /\ store' = new
           /\ \A u \in Threads \ {t} : UnderWay(u) => <<setter[u].kind, setter[t].kind>> \in overlaps'
  <1>1. \A u \in Threads \ {t} : UnderWay(u) => <<setter[u].kind, setter[t].kind>> \in overlaps'
    BY DEF WriteLast, Meanwhile
  <1>2. setter' = [setter EXCEPT ![t] = NoSetter] /\ setter \in [Threads -> SetterRecords]
    BY DEF WriteLast, SettersSound, SetterRecords
  <1>3. setter'[t] = NoSetter /\ \A u \in Threads \ {t} : setter'[u] = setter[u]
    BY <1>2
  <1>4. QED
    BY <1>1, <1>3 DEF WriteLast, UnderWay, NoSetter

\* A setter that ends without a write has found no contract.
LEMMA FailEffect ==
    ASSUME SettersSound, NEW t \in Threads, ReadForHash(t), store.contract = Missing
    PROVE  /\ \A u \in Threads \ {t} : setter'[u] = setter[u]
           /\ ~UnderWay(t)'
           /\ store' = store /\ overlaps' = overlaps
  <1>1. setter' = [setter EXCEPT ![t] = NoSetter] /\ setter \in [Threads -> SetterRecords]
    BY DEF ReadForHash, SettersSound, SetterRecords
  <1>2. setter'[t] = NoSetter /\ \A u \in Threads \ {t} : setter'[u] = setter[u]
    BY <1>1
  <1>3. QED
    BY <1>2 DEF ReadForHash, UnderWay, NoSetter

LEMMA CallEffect ==
    ASSUME SettersSound, NEW t \in Threads, NEW kind \in Kinds, NEW code, Call(t, kind, code)
    PROVE  /\ ~UnderWay(t) /\ \A u \in Threads \ {t} : setter'[u] = setter[u]
           /\ setter'[t].kind = kind
           /\ setter'[t].next = IF kind = "balance" THEN "readAccount" ELSE "makeAccount"
           /\ UNCHANGED <<store, overlaps, snapshots, saved>>
  <1>1. ~UnderWay(t)
    BY DEF Call, Receive, Running, SettersSound
  <1>2. setter \in [Threads -> SetterRecords]
    BY DEF SettersSound, SetterRecords
  <1>3. QED
    BY <1>1, <1>2 DEF Call, Receive

\* What snapshot calls do to the stores and the copies.
LEMMA SnapshotEffect ==
    ASSUME TypeOK, SettersSound, NEW t \in Threads, SnapshotStep(t), UNCHANGED setter
    PROVE  \/ \* a Take, or nothing of it
              /\ UNCHANGED <<store, overlaps>> /\ snapshots' \subseteq snapshots
              /\ \/ saved' = saved
                 \/ \E e \in snapshots : saved' = [saved EXCEPT ![t] = e.saved]
           \/ \* a Dump
              /\ UNCHANGED <<store, snapshots>>
              /\ saved' = [saved EXCEPT ![t] = store] \/ saved' = saved
              /\ \A u \in Threads : UnderWay(u) => <<setter[u].kind, "dump">> \in overlaps'
           \/ \* a Put
              /\ UNCHANGED <<store, saved, overlaps>>
              /\ snapshots' = snapshots \cup {[id |-> arg[t], pos |-> puts + 1, saved |-> saved[t]]}
           \/ \* a Restore ...
              /\ UNCHANGED <<saved, snapshots>> /\ store' = Restored(saved[t], 3)
              /\ \A u \in Threads : UnderWay(u) => <<setter[u].kind, "restore">> \in overlaps'
           \/ \* ... that throws
              /\ UNCHANGED <<saved, snapshots>> /\ <<"none", "threw">> \in overlaps'
  <1>0. saved \in [Threads -> States] /\ \A u \in Threads : UnderWay(u) => at[u] = "write"
    BY DEF TypeOK, SettersSound
  <1>1. CASE at[t] = "dump" /\ Meanwhile("dump", Threads \ {t}) /\ Dump(t)
    <2>1. ~UnderWay(t)
      BY <1>0, <1>1
    <2>2. \A u \in Threads : UnderWay(u) => <<setter[u].kind, "dump">> \in overlaps'
      BY <1>1, <2>1 DEF Meanwhile
    <2>3. QED
      BY <1>1, <2>2 DEF Dump
  <1>2. CASE RestoreStores(t)
    <2>1. ~UnderWay(t) /\ UNCHANGED <<saved, snapshots>>
      BY <1>0, <1>2 DEF RestoreStores, Restore
    <2>2. CASE store' = Restored(saved[t], 3) /\ Meanwhile("restore", Threads \ {t})
      <3>1. \A u \in Threads : UnderWay(u) => <<setter[u].kind, "restore">> \in overlaps'
        BY <2>1, <2>2 DEF Meanwhile
      <3>2. QED
        BY <2>1, <2>2, <3>1
    <2>3. CASE overlaps' = overlaps \cup {<<"none", "threw">>}
      BY <2>1, <2>3
    <2>4. QED
      BY <1>2, <2>2, <2>3 DEF RestoreStores
  <1>3. CASE Number(t) /\ UNCHANGED overlaps
    BY <1>3 DEF Number
  <1>4. CASE Put(t) /\ UNCHANGED overlaps
    BY <1>4 DEF Put
  <1>5. CASE Take(t) /\ UNCHANGED overlaps
    <2>1. store' = store
      BY <1>5 DEF Take
    <2>2. CASE \E e \in snapshots : Taken(t, e)
      <3>1. PICK e \in snapshots : Taken(t, e)
        BY <2>2
      <3>2. saved' = [saved EXCEPT ![t] = e.saved] /\ snapshots' \subseteq snapshots
        BY <3>1 DEF Taken
      <3>3. QED
        BY <1>0, <1>5, <2>1, <3>2
    <2>3. CASE Refused(t)
      BY <1>5, <2>1, <2>3 DEF Refused
    <2>4. QED
      BY <1>5, <2>2, <2>3 DEF Take
  <1>6. CASE DropSnapshot(t) /\ UNCHANGED overlaps
    BY <1>6 DEF DropSnapshot
  <1>7. QED
    BY <1>1, <1>2, <1>3, <1>4, <1>5, <1>6 DEF SnapshotStep

\* The contents of a store after a write of one field.
LEMMA FieldWritten ==
    ASSUME NEW s \in Stores
    PROVE  /\ \A v : /\ [s EXCEPT !.account = v].account = v
                     /\ [s EXCEPT !.account = v].code = s.code
                     /\ [s EXCEPT !.account = v].contract = s.contract
           /\ \A v : /\ [s EXCEPT !.code = v].account = s.account
                     /\ [s EXCEPT !.code = v].code = v
                     /\ [s EXCEPT !.code = v].contract = s.contract
           /\ \A v : /\ [s EXCEPT !.contract = v].account = s.account
                     /\ [s EXCEPT !.contract = v].code = s.code
                     /\ [s EXCEPT !.contract = v].contract = v
  BY DEF Stores

\* A restore that does not throw leaves the copy.
LEMMA RestoredWhole ==
    ASSUME NEW s
    PROVE  /\ Restored(s, 3).account = s.account
           /\ Restored(s, 3).code = s.code
           /\ Restored(s, 3).contract = s.contract
  BY DEF Restored

\* Setters leave the copies alone.
LEMMA CopiesStay ==
    ASSUME NEW t \in Threads, SetterStep(t)
    PROVE  UNCHANGED <<snapshots, saved>>
  BY DEF SetterStep

LEMMA StepsOfKindStep ==
    ASSUME TypeOK, SettersSound, StepsOfKind, [StoresNext]_storesVars
    PROVE  StepsOfKind'
  <1>1. CASE UNCHANGED setter
    BY <1>1 DEF StepsOfKind, UnderWay
  <1>2. ASSUME NEW t \in Threads, NEW kind \in Kinds, NEW code \in {Missing} \cup Codes, Call(t, kind, code)
        PROVE  StepsOfKind'
    BY <1>2, CallEffect DEF StepsOfKind, UnderWay, Kinds
  <1>3. ASSUME NEW t \in Threads, SetterStep(t)
        PROVE  StepsOfKind'
    <2>1. ReadAccount(t) \/ ReadContract(t) => StepsOfKind'
      BY ReadEffect DEF ReadAccount, ReadContract, At, StepsOfKind, UnderWay
    <2>2. WriteAccount(t) \/ SetRow(t) \/ SetHash(t) => StepsOfKind'
      BY LastEffect DEF WriteAccount, SetRow, SetHash, StepsOfKind, UnderWay
    <2>3. MakeAccount(t) \/ SetCode(t) => StepsOfKind'
      BY WriteEffect DEF MakeAccount, SetCode, At, StepsOfKind, UnderWay
    <2>4. MakeContract(t) => StepsOfKind'
      <3>1. SUFFICES ASSUME MakeContract(t) PROVE StepsOfKind'
        OBVIOUS
      <3>2. /\ \A u \in Threads \ {t} : setter'[u] = setter[u]
            /\ setter'[t].kind = setter[t].kind /\ setter'[t].next \in {"setCode", "setRow"}
        BY <3>1, WriteEffect DEF MakeContract
      <3>3. QED
        BY <3>1, <3>2 DEF MakeContract, At, StepsOfKind, UnderWay
    <2>5. ReadForHash(t) => StepsOfKind'
      <3>1. SUFFICES ASSUME ReadForHash(t) PROVE StepsOfKind'
        OBVIOUS
      <3>2. CASE store.contract = Missing
        BY <3>1, <3>2, FailEffect DEF StepsOfKind, UnderWay
      <3>3. CASE store.contract # Missing
        BY <3>1, <3>3, ReadEffect DEF ReadForHash, At, StepsOfKind, UnderWay
      <3>4. QED
        BY <3>2, <3>3
    <2>6. QED
      BY <1>3, <2>1, <2>2, <2>3, <2>4, <2>5 DEF SetterStep
  <1>4. "balance" \in Kinds /\ "storage" \in Kinds /\ "code" \in Kinds
    BY DEF Kinds
  <1>5. QED
    BY <1>1, <1>2, <1>3, <1>4 DEF StoresNext, storesVars, Block

\* A block that leaves something, or one that destroys all.
LEMMA OrDestroyed ==
    ASSUME Block, store \in Stores
    PROVE  (Meanwhile("block", Threads) /\ store' # Untouched) \/ (store' = Untouched /\ Meanwhile("destroy", Threads))
  <1>1. Untouched.account \notin {"Normal", "Contract"}
    BY DEF Untouched, Missing
  <1>2. \/ /\ Meanwhile("block", Threads)
           /\ \/ store' = [store EXCEPT !.account = "Normal"]
              \/ \E c \in Codes : store' = [account |-> "Contract", code |-> c, contract |-> c]
              \/ \E c \in Codes : store' = [store EXCEPT !.account = "Contract", !.code = c]
        \/ store' = Untouched /\ Meanwhile("destroy", Threads)
    BY DEF Block
  <1>3. [store EXCEPT !.account = "Normal"].account = "Normal"
    BY FieldWritten
  <1>4. \A c \in Codes : [store EXCEPT !.account = "Contract", !.code = c].account = "Contract"
    BY DEF Stores
  <1>5. CASE Meanwhile("block", Threads) /\ store' = [store EXCEPT !.account = "Normal"]
    BY <1>1, <1>3, <1>5
  <1>6. CASE Meanwhile("block", Threads) /\ \E c \in Codes : store' = [account |-> "Contract", code |-> c, contract |-> c]
    <2>1. store'.account = "Contract"
      BY <1>6
    <2>2. QED
      BY <1>1, <1>6, <2>1
  <1>7. CASE Meanwhile("block", Threads) /\ \E c \in Codes : store' = [store EXCEPT !.account = "Contract", !.code = c]
    <2>1. store'.account = "Contract"
      BY <1>4, <1>7
    <2>2. QED
      BY <1>1, <1>7, <2>1
  <1>8. QED
    BY <1>2, <1>5, <1>6, <1>7

LEMMA TypesStep ==
    ASSUME TypeOK, SettersSound, StepsOfKind, TypesInv, [StoresNext]_storesVars
    PROVE  TypesInv'
  <1> SUFFICES ASSUME TypesUnspoilt' PROVE TypesInv'
    BY DEF TypesInv
  <1>0. store \in Stores
    BY StoresAssumption DEF TypeOK
  <1>1. TypesUnspoilt
    BY UndoneStays DEF TypesUnspoilt, storesVars
  <1>2. /\ Needed => store.account = "Contract"
        /\ \A e \in snapshots : InOrder(e.saved)
        /\ \A t \in Threads : InOrder(saved[t])
        /\ \A t \in Threads : UnderWay(t) /\ setter[t].next = "writeAccount" =>
               (Needed => setter[t].read = "Contract")
    BY <1>1 DEF TypesInv
  \* nothing happens to a setAccountBalance but other balances
  <1>3. \A t \in Threads : setter[t].kind = "balance" =>
            \A w \in {"code", "storage", "block", "restore"} : <<setter[t].kind, w>> \notin overlaps'
    BY DEF TypesUnspoilt
  <1>4. <<"none", "threw">> \notin overlaps' /\ <<"code", "restore">> \notin overlaps'
        /\ <<"storage", "restore">> \notin overlaps' /\ <<"code", "destroy">> \notin overlaps'
        /\ <<"storage", "destroy">> \notin overlaps'
    BY DEF TypesUnspoilt, Undone
  <1>5. \A t \in Threads : setter[t].kind \in {"none"} \cup Kinds
    BY DEF SettersSound
  <1>6. CASE UNCHANGED storesVars
    BY <1>1, <1>2, <1>6 DEF TypesInv, Needed, Typing, UnderWay, storesVars, vars, callVars
  <1>7. ASSUME NEW t \in Threads, NEW kind \in Kinds, NEW code \in {Missing} \cup Codes, Call(t, kind, code)
        PROVE  TypesInv'
    <2>1. /\ \A u \in Threads \ {t} : setter'[u] = setter[u]
          /\ setter'[t].next \in {"readAccount", "makeAccount"} /\ setter'[t].kind = kind
          /\ kind = "balance" \/ setter'[t].next = "makeAccount"
          /\ UNCHANGED <<store, snapshots, saved>>
      BY <1>7, CallEffect
    <2>2. ~Typing(t)' /\ \A u \in Threads \ {t} : Typing(u)' = Typing(u) /\ UnderWay(u)' = UnderWay(u)
      BY <2>1 DEF Typing, UnderWay
    <2>3. Needed' => Needed
      BY <2>1, <2>2 DEF Needed
    <2>4. QED
      BY <1>2, <2>1, <2>2, <2>3 DEF TypesInv
  \* a write after which the account is a contract's if it was one and had to be
  <1>8. ASSUME NEW t \in Threads, SetterStep(t),
               Needed' => Needed /\ store'.account = "Contract",
               \A u \in Threads \ {t} : setter'[u] = setter[u],
               UnderWay(t)' /\ setter'[t].next = "writeAccount" => (Needed => setter'[t].read = "Contract")
        PROVE  TypesInv'
    <2>1. UNCHANGED <<snapshots, saved>>
      BY <1>8, CopiesStay
    <2>2. \A u \in Threads \ {t} : UnderWay(u)' = UnderWay(u)
      BY <1>8 DEF UnderWay
    <2>3. QED
      BY <1>2, <1>8, <2>1, <2>2 DEF TypesInv
  <1>9. ASSUME NEW t \in Threads, SetterStep(t)
        PROVE  TypesInv'
    <2>0. ASSUME \A u \in Threads \ {t} : setter'[u] = setter[u], Typing(t)' => Typing(t),
                 store'.code # Missing => store.code # Missing \/ Typing(t),
                 store'.contract # Missing => store.contract # Missing \/ Typing(t)
          PROVE  Needed' => Needed
      <3>1. \A u \in Threads : Typing(u)' => Typing(u)
        BY <2>0 DEF Typing, UnderWay
      <3>2. QED
        BY <2>0, <3>1 DEF Needed
    <2>1. CASE ReadAccount(t)
      <3>1. /\ store' = store /\ UnderWay(t) /\ setter[t].next = "readAccount"
            /\ setter'[t].kind = setter[t].kind /\ setter'[t].read = store.account
            /\ \A u \in Threads \ {t} : setter'[u] = setter[u]
        BY <2>1, ReadEffect DEF ReadAccount, At
      <3>2. ~Typing(t)'
        BY <3>1 DEF Typing, StepsOfKind
      <3>3. Needed' => Needed
        BY <2>0, <3>1, <3>2
      <3>4. QED
        BY <1>2, <1>8, <1>9, <3>1, <3>3
    <2>2. CASE WriteAccount(t)
      <3> DEFINE new == IF setter[t].read = Missing THEN "Normal" ELSE setter[t].read
      <3>1. /\ store' = [store EXCEPT !.account = new]
            /\ ~UnderWay(t)' /\ UnderWay(t) /\ setter[t].next = "writeAccount"
            /\ \A u \in Threads \ {t} : setter'[u] = setter[u]
        BY <2>2, LastEffect DEF WriteAccount, At
      <3>2. Needed => new = "Contract"
        BY <1>2, <3>1 DEF Missing
      <3>3. store'.account = new /\ store'.code = store.code /\ store'.contract = store.contract
        <4> HIDE DEF new
        <4> QED BY <1>0, <3>1, FieldWritten
      <3> HIDE DEF new
      <3>4. ~Typing(t)'
        BY <3>1 DEF Typing
      <3>5. Needed' => Needed
        BY <2>0, <3>1, <3>3, <3>4
      <3>6. QED
        BY <1>8, <1>9, <3>1, <3>2, <3>3, <3>5
    <2>3. CASE MakeAccount(t)
      <3>1. /\ store' = [store EXCEPT !.account = "Contract"]
            /\ UnderWay(t) /\ setter[t].next = "makeAccount"
            /\ setter'[t].next = "readContract"
            /\ \A u \in Threads \ {t} : setter'[u] = setter[u]
            /\ \A u \in Threads \ {t} : UnderWay(u) => <<setter[u].kind, setter[t].kind>> \in overlaps'
        BY <2>3, WriteEffect DEF MakeAccount, At
      <3>2. setter[t].kind \in {"code", "storage"}
        BY <1>5, <3>1 DEF StepsOfKind, UnderWay, Kinds
      <3>3. \A u \in Threads : UnderWay(u) => setter[u].kind # "balance"
        BY <1>3, <3>1, <3>2
      <3>4. store'.account = "Contract"
        BY <1>0, <3>1, FieldWritten
      <3>5. \A u \in Threads : ~(UnderWay(u)' /\ setter'[u].next = "writeAccount")
        BY <3>1, <3>3 DEF StepsOfKind, UnderWay
      <3>6. UNCHANGED <<snapshots, saved>>
        BY <1>9, CopiesStay
      <3>7. QED
        BY <1>2, <3>4, <3>5, <3>6 DEF TypesInv
    <2>4. CASE ReadContract(t)
      <3>1. /\ store' = store /\ UnderWay(t) /\ setter[t].next = "readContract"
            /\ setter'[t].kind = setter[t].kind /\ setter'[t].next = "makeContract"
            /\ \A u \in Threads \ {t} : setter'[u] = setter[u]
        BY <2>4, ReadEffect DEF ReadContract, At
      <3>2. Typing(t) /\ Needed
        BY <3>1 DEF Typing, Needed, StepsOfKind
      <3>3. Needed' => Needed
        BY <3>2
      <3>4. QED
        BY <1>2, <1>8, <1>9, <3>1, <3>2, <3>3
    <2>5. CASE MakeContract(t) \/ SetCode(t)
      <3>1. /\ \/ \E v : store' = [store EXCEPT !.contract = v]
               \/ \E v : store' = [store EXCEPT !.code = v]
            /\ UnderWay(t) /\ setter[t].next \in {"makeContract", "setCode"}
            /\ setter'[t].next \in {"setCode", "setRow", "readForHash"}
            /\ \A u \in Threads \ {t} : setter'[u] = setter[u]
        <4>1. CASE MakeContract(t)
          <5>1. /\ \A u \in Threads \ {t} : setter'[u] = setter[u]
                /\ setter'[t].next = IF setter[t].kind = "code" THEN "setCode" ELSE "setRow"
                /\ store' = [store EXCEPT !.contract = IF setter[t].read = Missing THEN Unhashed ELSE setter[t].read]
            BY <4>1, WriteEffect DEF MakeContract
          <5>2. QED
            BY <4>1, <5>1 DEF MakeContract, At
        <4>2. CASE SetCode(t)
          BY <4>2, WriteEffect DEF SetCode, At
        <4>3. QED
          BY <2>5, <4>1, <4>2
      <3>2. Typing(t) /\ Needed
        BY <3>1 DEF Typing, Needed, StepsOfKind
      <3>3. store'.account = store.account
        <4>1. \A v : [store EXCEPT !.contract = v].account = store.account
                     /\ [store EXCEPT !.code = v].account = store.account
          BY <1>0, FieldWritten
        <4>2. CASE \E v : store' = [store EXCEPT !.contract = v]
          BY <4>1, <4>2
        <4>3. CASE \E v : store' = [store EXCEPT !.code = v]
          BY <4>1, <4>3
        <4>4. QED
          BY <3>1, <4>2, <4>3
      <3>4. QED
        BY <1>2, <1>8, <1>9, <3>1, <3>2, <3>3
    <2>6. CASE SetRow(t) \/ SetHash(t)
      <3>1. /\ store' = store \/ \E v : store' = [store EXCEPT !.contract = v]
            /\ UnderWay(t) /\ setter[t].next \in {"setRow", "setHash"} /\ ~UnderWay(t)'
            /\ \A u \in Threads \ {t} : setter'[u] = setter[u]
        BY <2>6, LastEffect DEF SetRow, SetHash, At
      <3>2. Typing(t) /\ Needed
        BY <3>1 DEF Typing, Needed, StepsOfKind
      <3>3. store'.account = store.account
        <4>1. \A v : [store EXCEPT !.contract = v].account = store.account
                     /\ [store EXCEPT !.code = v].account = store.account
          BY <1>0, FieldWritten
        <4>2. QED
          BY <3>1, <4>1
      <3>4. QED
        BY <1>2, <1>8, <1>9, <3>1, <3>2, <3>3
    <2>7. CASE ReadForHash(t)
      <3>1. /\ store' = store /\ UnderWay(t) /\ setter[t].next = "readForHash"
            /\ ~UnderWay(t)' \/ setter'[t].next = "setHash"
            /\ \A u \in Threads \ {t} : setter'[u] = setter[u]
        <4>1. CASE store.contract = Missing
          BY <2>7, <4>1, FailEffect DEF ReadForHash, At
        <4>2. CASE store.contract # Missing
          BY <2>7, <4>2, ReadEffect DEF ReadForHash, At
        <4>3. QED
          BY <4>1, <4>2
      <3>2. Typing(t) /\ Needed
        BY <3>1 DEF Typing, Needed, StepsOfKind
      <3>3. Needed' => Needed
        BY <3>2
      <3>4. QED
        BY <1>2, <1>8, <1>9, <3>1, <3>2, <3>3
    <2>8. QED
      BY <1>9, <2>1, <2>2, <2>3, <2>4, <2>5, <2>6, <2>7 DEF SetterStep
  <1>10. CASE Block /\ store' = Untouched /\ Meanwhile("destroy", Threads)
    <2>1. UNCHANGED <<snapshots, saved, setter>> /\ store'.code = Missing /\ store'.contract = Missing
      BY <1>10 DEF Block, callVars, Untouched
    <2>2. \A u \in Threads : ~Typing(u)
      <3>1. \A u \in Threads : UnderWay(u) => <<setter[u].kind, "destroy">> \in overlaps'
        BY <1>10 DEF Meanwhile
      <3>2. \A u \in Threads : Typing(u) => setter[u].kind \in {"code", "storage"}
        BY <1>5 DEF Typing, StepsOfKind, UnderWay, Kinds
      <3>3. QED
        BY <1>4, <3>1, <3>2 DEF Typing
    <2>3. ~Needed'
      BY <2>1, <2>2 DEF Needed, Typing, UnderWay
    <2>4. QED
      BY <1>2, <2>1, <2>3 DEF TypesInv
  <1>11. CASE Block /\ Meanwhile("block", Threads) /\ store' # Untouched
    <2>1. UNCHANGED <<snapshots, saved, setter>> /\ \A u \in Threads : UnderWay(u) => setter[u].kind # "balance"
      BY <1>3, <1>11 DEF Block, callVars, Meanwhile
    <2>2. \A u \in Threads : ~(UnderWay(u)' /\ setter'[u].next = "writeAccount") /\ (Typing(u)' => Typing(u))
      BY <2>1 DEF StepsOfKind, UnderWay, Typing
    <2>3. Needed' => store'.account = "Contract"
      <3>1. CASE store.account = Missing /\ store' = [store EXCEPT !.account = "Normal"]
        <4>1. store'.code = store.code /\ store'.contract = store.contract
          BY <1>0, <3>1, FieldWritten
        <4>2. Needed' => Needed
          BY <2>2, <4>1 DEF Needed
        <4>3. QED
          BY <1>2, <3>1, <4>2 DEF Missing
      <3>2. CASE \E c \in Codes : store' = [account |-> "Contract", code |-> c, contract |-> c]
        BY <3>2
      <3>3. CASE \E c \in Codes : store' = [store EXCEPT !.account = "Contract", !.code = c]
        BY <1>0, <3>3 DEF Stores
      <3>4. QED
        BY <1>11, <3>1, <3>2, <3>3 DEF Block
    <2>4. QED
      BY <1>2, <2>1, <2>2, <2>3 DEF TypesInv
  <1>12. ASSUME NEW t \in Threads, NEW op, NEW id, SnapshotCall(t, op, id), UNCHANGED setter
         PROVE  TypesInv'
    BY <1>2, <1>12 DEF SnapshotCall, Receive, TypesInv, Needed, Typing, UnderWay
  <1>13. ASSUME NEW t \in Threads, SnapshotStep(t), UNCHANGED <<setter, work>>
         PROVE  TypesInv'
    <2>1. \A u \in Threads : (Typing(u)' <=> Typing(u)) /\ (UnderWay(u)' <=> UnderWay(u)) /\ setter'[u] = setter[u]
      BY <1>13 DEF Typing, UnderWay
    <2>2. CASE store' = store
      <3>0. InOrder(store)
        BY <1>2 DEF Needed, InOrder
      <3>1. \A e \in snapshots' : InOrder(e.saved)
        BY <1>2, <1>13, <2>2, SnapshotEffect
      <3>2. \A u \in Threads : InOrder(saved'[u])
        BY <1>2, <1>13, <2>2, <3>0, SnapshotEffect DEF TypeOK
      <3>3. Needed' <=> Needed
        BY <2>1, <2>2 DEF Needed
      <3>4. \A u \in Threads : UnderWay(u)' /\ setter'[u].next = "writeAccount" =>
                (Needed' => setter'[u].read = "Contract")
        BY <1>2, <2>1, <3>3
      <3>5. QED
        BY <1>2, <2>2, <3>1, <3>2, <3>3, <3>4 DEF TypesInv
    <2>3. CASE store' # store
      <3>1. /\ UNCHANGED <<saved, snapshots>> /\ store' = Restored(saved[t], 3)
            /\ \A u \in Threads : UnderWay(u) => <<setter[u].kind, "restore">> \in overlaps'
        BY <1>4, <1>13, <2>3, SnapshotEffect
      <3>2. \A u \in Threads : ~UnderWay(u)
        BY <1>3, <1>4, <1>5, <3>1 DEF Kinds, UnderWay
      <3>3. InOrder(store')
        BY <1>2, <3>1, RestoredWhole DEF InOrder
      <3>4. QED
        BY <1>2, <2>1, <3>1, <3>2, <3>3 DEF TypesInv, Needed, Typing, InOrder
    <2>4. QED
      BY <2>2, <2>3
  <1>14. "balance" \in Kinds /\ "storage" \in Kinds /\ "code" \in Kinds
    BY DEF Kinds
  <1>15. CASE Block
    BY <1>0, <1>11, <1>10, <1>15, OrDestroyed
  <1>16. QED
    BY <1>6, <1>7, <1>9, <1>12, <1>13, <1>14, <1>15 DEF StoresNext

\* Reads of it, or what a write back of it leaves.
Fine(hash) == hash \in {Missing, Unhashed, store.code}

LEMMA HashesStep ==
    ASSUME TypeOK, SettersSound, StepsOfKind, ContractMade, HashesInv, [StoresNext]_storesVars
    PROVE  HashesInv'
  <1> SUFFICES ASSUME HashesUnspoilt' PROVE HashesInv'
    BY DEF HashesInv
  <1>0. store \in Stores
    BY StoresAssumption DEF TypeOK
  <1>1. HashesUnspoilt
    BY UndoneStays DEF HashesUnspoilt, storesVars
  <1>2. /\ Hashed(store) \/ SomePending
        /\ \A e \in snapshots : Hashed(e.saved)
        /\ \A t \in Threads : Hashed(saved[t])
        /\ \A t \in Threads : Pending(t) => setter[t].code = store.code
        /\ \A t \in Threads : UnderWay(t) /\ setter[t].next = "makeContract" => Fine(setter[t].read) \/ SomePending
        /\ \A t \in Threads : Typing(t) => store.account # Missing
    BY <1>1 DEF HashesInv, Fine
  \* a setter with which a setAccountCode overlaps is not one to write a hash back
  <1>3. \A t \in Threads : setter[t].kind = "code" =>
            \A w \in {"code", "dump", "restore", "destroy"} : <<setter[t].kind, w>> \notin overlaps'
    BY DEF HashesUnspoilt, Undone
  <1>4. \A t \in Threads : setter[t].kind = "storage" =>
            \A w \in {"code", "restore", "destroy"} : <<setter[t].kind, w>> \notin overlaps'
    BY DEF HashesUnspoilt, Undone
  <1>5. \A t \in Threads : setter[t].kind \in {"none"} \cup Kinds
    BY DEF SettersSound
  <1>6. <<"none", "threw">> \notin overlaps'
    BY DEF HashesUnspoilt, Undone
  <1>7. \A t \in Threads : Pending(t) => store.contract # Missing
    BY <1>1 DEF ContractMade, Pending, HashesUnspoilt
  <1>8. CASE UNCHANGED storesVars
    BY <1>2, <1>8 DEF HashesInv, Fine, Typing, UnderWay, Pending, SomePending, storesVars, vars, callVars
  \* a step of t that leaves the code, and the account, alone and ends no Pending
  <1>9. ASSUME NEW t \in Threads, UNCHANGED <<snapshots, saved>>,
               store'.code = store.code,
               store'.account # Missing \/ store'.account = store.account,
               \A u \in Threads \ {t} : setter'[u] = setter[u],
               Pending(t) => Pending(t)',
               Pending(t)' => setter'[t].code = store.code,
               Hashed(store') \/ SomePending,
               UnderWay(t)' /\ setter'[t].next = "makeContract" => Fine(setter'[t].read) \/ SomePending,
               Typing(t)' => store'.account # Missing
        PROVE  HashesInv'
    <2>1. \A u \in Threads \ {t} : /\ Typing(u)' = Typing(u) /\ UnderWay(u)' = UnderWay(u)
                                   /\ Pending(u)' = Pending(u)
      BY <1>9 DEF Typing, UnderWay, Pending
    <2>2. SomePending => SomePending'
      BY <1>9, <2>1 DEF SomePending
    <2>3. \A hash : Fine(hash)' = Fine(hash)
      BY <1>9 DEF Fine
    <2>4. \A u \in Threads : UnderWay(u)' /\ setter'[u].next = "makeContract" => Fine(setter'[u].read) \/ SomePending
      BY <1>2, <1>9, <2>1
    <2>5. \A u \in Threads : setter'[u].read \in {Missing, Unhashed, store'.code} <=> Fine(setter'[u].read)
      BY <1>9 DEF Fine
    <2>6. \A u \in Threads : Typing(u)' => store'.account # Missing
      BY <1>2, <1>9, <2>1
    <2>7. \A u \in Threads : Pending(u)' => setter'[u].code = store'.code
      BY <1>2, <1>9, <2>1
    <2>8. (\A e \in snapshots' : Hashed(e.saved)) /\ \A u \in Threads : Hashed(saved'[u])
      BY <1>2, <1>9
    <2>9. QED
      BY <1>9, <2>2, <2>4, <2>5, <2>6, <2>7, <2>8 DEF HashesInv
  <1>10. ASSUME NEW t \in Threads, NEW kind \in Kinds, NEW code \in {Missing} \cup Codes, Call(t, kind, code)
         PROVE  HashesInv'
    <2>1. /\ ~UnderWay(t) /\ \A u \in Threads \ {t} : setter'[u] = setter[u]
          /\ setter'[t].next \in {"readAccount", "makeAccount"} /\ setter'[t].kind = kind
          /\ kind = "balance" \/ setter'[t].next = "makeAccount"
          /\ UNCHANGED <<store, snapshots, saved>>
      BY <1>10, CallEffect
    <2>2. ~Pending(t) /\ ~Pending(t)' /\ ~Typing(t)'
      BY <2>1 DEF Pending, Typing
    <2>3. QED
      BY <1>2, <1>9, <2>1, <2>2
  <1>11. ASSUME NEW t \in Threads, SetterStep(t)
         PROVE  HashesInv'
    <2>0. UNCHANGED <<snapshots, saved>>
      BY <1>11, CopiesStay
    <2>1. CASE ReadAccount(t)
      <3>1. /\ store' = store /\ UnderWay(t) /\ setter[t].next = "readAccount"
            /\ setter'[t].next = "writeAccount" /\ setter'[t].kind = setter[t].kind
            /\ \A u \in Threads \ {t} : setter'[u] = setter[u]
        BY <2>1, ReadEffect DEF ReadAccount, At
      <3>2. ~Pending(t) /\ ~Pending(t)' /\ ~Typing(t)'
        BY <3>1 DEF Pending, Typing, StepsOfKind
      <3>3. QED
        BY <1>2, <1>9, <2>0, <3>1, <3>2
    <2>2. CASE WriteAccount(t)
      <3> DEFINE new == IF setter[t].read = Missing THEN "Normal" ELSE setter[t].read
      <3>1. /\ store' = [store EXCEPT !.account = new]
            /\ ~UnderWay(t)' /\ UnderWay(t) /\ setter[t].next = "writeAccount"
            /\ \A u \in Threads \ {t} : setter'[u] = setter[u]
        BY <2>2, LastEffect DEF WriteAccount, At
      <3>2. new # Missing
        BY DEF Missing
      <3> HIDE DEF new
      <3>3. store'.account = new /\ store'.code = store.code /\ store'.contract = store.contract
        BY <1>0, <3>1, FieldWritten
      <3>4. ~Pending(t) /\ ~Pending(t)' /\ ~Typing(t)' /\ (Hashed(store') <=> Hashed(store))
        BY <3>1, <3>3 DEF Pending, Typing, Hashed
      <3>5. QED
        BY <1>2, <1>9, <2>0, <3>1, <3>2, <3>3, <3>4
    <2>3. CASE MakeAccount(t)
      <3>1. /\ store' = [store EXCEPT !.account = "Contract"]
            /\ UnderWay(t) /\ setter[t].next = "makeAccount"
            /\ setter'[t].next = "readContract"
            /\ \A u \in Threads \ {t} : setter'[u] = setter[u]
        BY <2>3, WriteEffect DEF MakeAccount, At
      <3>2. store'.account = "Contract" /\ store'.code = store.code /\ store'.contract = store.contract
        BY <1>0, <3>1, FieldWritten
      <3>3. ~Pending(t) /\ ~Pending(t)' /\ (Hashed(store') <=> Hashed(store)) /\ "Contract" # Missing
        BY <3>1, <3>2 DEF Pending, Hashed, Missing
      <3>4. QED
        BY <1>2, <1>9, <2>0, <3>1, <3>2, <3>3
    <2>4. CASE ReadContract(t)
      <3>1. /\ store' = store /\ UnderWay(t) /\ setter[t].next = "readContract"
            /\ setter'[t].kind = setter[t].kind /\ setter'[t].next = "makeContract"
            /\ setter'[t].read = store.contract
            /\ \A u \in Threads \ {t} : setter'[u] = setter[u]
        BY <2>4, ReadEffect DEF ReadContract, At
      <3>2. Typing(t) /\ ~Pending(t) /\ ~Pending(t)'
        BY <3>1 DEF Typing, StepsOfKind, Pending
      <3>3. Fine(setter'[t].read) \/ SomePending
        BY <1>2, <3>1 DEF Fine, Hashed
      <3>4. QED
        BY <1>2, <1>9, <2>0, <3>1, <3>2, <3>3
    <2>5. CASE MakeContract(t)
      <3> DEFINE new == IF setter[t].read = Missing THEN Unhashed ELSE setter[t].read
      <3>1. /\ store' = [store EXCEPT !.contract = new]
            /\ UnderWay(t) /\ setter[t].next = "makeContract"
            /\ setter'[t].next \in {"setCode", "setRow"}
            /\ \A u \in Threads \ {t} : setter'[u] = setter[u]
        BY <2>5, WriteEffect DEF MakeContract, At
      <3>2. Fine(new) \/ SomePending
        BY <1>2, <3>1 DEF Fine
      <3> HIDE DEF new
      <3>3. store'.account = store.account /\ store'.code = store.code /\ store'.contract = new
        BY <1>0, <3>1, FieldWritten
      <3>4. Typing(t) /\ ~Pending(t) /\ ~Pending(t)' /\ (Hashed(store') <=> Fine(new))
        BY <3>1, <3>3 DEF Typing, StepsOfKind, Pending, Hashed, Fine
      <3>5. QED
        BY <1>2, <1>9, <2>0, <3>1, <3>2, <3>3, <3>4
    <2>6. CASE SetRow(t)
      <3>1. /\ store' = store /\ UnderWay(t) /\ setter[t].next = "setRow" /\ ~UnderWay(t)'
            /\ \A u \in Threads \ {t} : setter'[u] = setter[u]
        BY <2>6, LastEffect DEF SetRow, At
      <3>2. ~Pending(t) /\ ~Pending(t)' /\ ~Typing(t)'
        BY <3>1 DEF Pending, Typing
      <3>3. QED
        BY <1>2, <1>9, <2>0, <3>1, <3>2
    <2>7. CASE ReadForHash(t)
      <3>1. UnderWay(t) /\ setter[t].next = "readForHash" /\ Pending(t)
        BY <2>7 DEF ReadForHash, At, Pending, SettersSound
      <3>2. store.contract # Missing
        BY <1>7, <3>1
      <3>3. /\ store' = store /\ setter'[t].next = "setHash"
            /\ setter'[t].kind = setter[t].kind /\ setter'[t].code = setter[t].code
            /\ \A u \in Threads \ {t} : setter'[u] = setter[u]
        BY <2>7, <3>2, ReadEffect DEF ReadForHash
      <3>4. Pending(t)' /\ Typing(t) /\ setter'[t].code = store.code
        BY <1>2, <3>1, <3>3 DEF Pending, Typing, UnderWay
      <3>5. QED
        BY <1>2, <1>9, <2>0, <3>1, <3>3, <3>4
    \* the writes of a code, and of its hash: no other setter but of a balance is under way
    <2>8. ASSUME SetCode(t) \/ SetHash(t)
          PROVE  /\ UnderWay(t) /\ setter[t].kind = "code" /\ Typing(t)
                 /\ \A u \in Threads \ {t} : UnderWay(u) => setter[u].kind = "balance"
                 /\ \A u \in Threads \ {t} : setter'[u] = setter[u]
      <3>1. UnderWay(t) /\ setter[t].kind = "code" /\ Typing(t)
        BY <2>8 DEF SetCode, SetHash, At, SettersSound, Typing
      <3>2. /\ \A u \in Threads \ {t} : UnderWay(u) => <<setter[u].kind, setter[t].kind>> \in overlaps'
            /\ \A u \in Threads \ {t} : setter'[u] = setter[u]
        BY <2>8, WriteEffect, LastEffect DEF SetCode, SetHash
      <3>3. QED
        BY <1>3, <1>4, <1>5, <3>1, <3>2 DEF Kinds, UnderWay
    <2>9. \A u \in Threads \ {t} : SetCode(t) \/ SetHash(t) =>
              /\ ~Pending(u)' /\ ~Typing(u)'
              /\ ~(UnderWay(u)' /\ setter'[u].next = "makeContract")
      BY <2>8 DEF Pending, Typing, UnderWay, StepsOfKind
    <2>10. CASE SetCode(t)
      <3>1. /\ store' = [store EXCEPT !.code = setter[t].code]
            /\ setter'[t].next = "readForHash" /\ setter'[t].kind = setter[t].kind /\ setter'[t].code = setter[t].code
        BY <2>10, WriteEffect DEF SetCode
      <3>2. store'.account = store.account /\ store'.code = setter[t].code /\ store'.contract = store.contract
        BY <1>0, <3>1, FieldWritten
      <3>3. Pending(t)'
        BY <2>8, <2>10, <3>1 DEF Pending, UnderWay
      <3>4. SomePending'
        BY <3>3 DEF SomePending
      <3>5. \A u \in Threads : Typing(u)' => store'.account # Missing
        BY <1>2, <2>8, <2>9, <2>10, <3>2
      <3>6. \A u \in Threads : Pending(u)' => setter'[u].code = store'.code
        BY <2>9, <2>10, <3>1, <3>2
      <3>7. QED
        BY <1>2, <2>0, <3>4, <3>5, <3>6 DEF HashesInv
    <2>11. CASE SetHash(t)
      <3>1. store' = [store EXCEPT !.contract = setter[t].code] /\ ~UnderWay(t)' /\ Pending(t)
        BY <2>8, <2>11, LastEffect DEF SetHash, At, Pending
      <3>2. store'.account = store.account /\ store'.code = store.code /\ store'.contract = setter[t].code
        BY <1>0, <3>1, FieldWritten
      <3>3. Hashed(store')
        BY <1>2, <3>1, <3>2 DEF Hashed
      <3>4. \A u \in Threads : ~Typing(u)' /\ ~Pending(u)' /\ ~(UnderWay(u)' /\ setter'[u].next = "makeContract")
        BY <2>9, <2>11, <3>1 DEF Typing, Pending
      <3>5. QED
        BY <1>2, <2>0, <3>3, <3>4 DEF HashesInv
    <2>12. QED
      BY <1>11, <2>1, <2>2, <2>3, <2>4, <2>5, <2>6, <2>7, <2>10, <2>11 DEF SetterStep
  <1>12. CASE Block
    <2>1. UNCHANGED <<snapshots, saved, setter>>
      BY <1>12 DEF Block, callVars
    <2>2. \A u \in Threads : Typing(u)' = Typing(u) /\ UnderWay(u)' = UnderWay(u) /\ Pending(u)' = Pending(u)
      BY <2>1 DEF Typing, UnderWay, Pending
    <2>3. CASE store.account = Missing /\ store' = [store EXCEPT !.account = "Normal"]
      <3>1. store'.account = "Normal" /\ store'.code = store.code /\ store'.contract = store.contract
        BY <1>0, <2>3, FieldWritten
      <3>2. (Hashed(store') <=> Hashed(store)) /\ store'.account # Missing
        BY <3>1 DEF Hashed, Missing
      <3>3. QED
        BY <1>2, <2>1, <2>2, <3>1, <3>2 DEF HashesInv, Fine, SomePending
    <2>4. CASE \E c \in Codes : /\ store = Untouched
                                /\ store' = [account |-> "Contract", code |-> c, contract |-> c]
      <3>1. store.account = Missing /\ Hashed(store') /\ store'.account # Missing
        BY <2>4 DEF Untouched, Hashed, Missing
      <3>2. \A u \in Threads : ~Typing(u) /\ ~Pending(u) /\ ~(UnderWay(u) /\ setter[u].next = "makeContract")
        BY <1>2, <3>1 DEF Pending, Typing, StepsOfKind
      <3>3. QED
        BY <1>2, <2>1, <2>2, <3>1, <3>2 DEF HashesInv
    <2>5. CASE \E c \in Codes : /\ store.code = Missing /\ store.contract = Missing
                                /\ store' = [store EXCEPT !.account = "Contract", !.code = c]
      <3>1. PICK c \in Codes : store' = [store EXCEPT !.account = "Contract", !.code = c]
        BY <2>5
      <3>2. store'.account = "Contract" /\ store'.code = c /\ store'.contract = store.contract
        BY <1>0, <3>1 DEF Stores
      <3>3. \A u \in Threads : ~Pending(u)
        BY <1>7, <2>5
      <3>4. \A u \in Threads : UnderWay(u) /\ setter[u].next = "makeContract" => setter[u].read \in {Missing, Unhashed}
        BY <1>2, <2>5, <3>3 DEF Fine, SomePending
      <3>5. Hashed(store') /\ store'.account # Missing
        BY <2>5, <3>2 DEF Hashed, Missing
      <3>6. QED
        BY <1>2, <2>1, <2>2, <3>3, <3>4, <3>5 DEF HashesInv
    <2>6. CASE store' = Untouched /\ Meanwhile("destroy", Threads)
      <3>1. \A u \in Threads : UnderWay(u) => <<setter[u].kind, "destroy">> \in overlaps'
        BY <2>6 DEF Meanwhile
      <3>2. \A u \in Threads : UnderWay(u) => setter[u].kind = "balance"
        BY <1>3, <1>4, <1>5, <3>1 DEF Kinds, UnderWay
      <3>3. \A u \in Threads : ~Typing(u) /\ ~Pending(u) /\ ~(UnderWay(u) /\ setter[u].next = "makeContract")
        BY <3>2 DEF Pending, Typing, StepsOfKind
      <3>4. Hashed(store')
        BY <2>6 DEF Hashed, Untouched
      <3>5. QED
        BY <1>2, <2>1, <2>2, <3>3, <3>4 DEF HashesInv
    <2>7. QED
      BY <1>12, <2>3, <2>4, <2>5, <2>6 DEF Block
  <1>13. ASSUME NEW t \in Threads, NEW op, NEW id, SnapshotCall(t, op, id), UNCHANGED setter
         PROVE  HashesInv'
    BY <1>2, <1>13 DEF SnapshotCall, Receive, HashesInv, Fine, Typing, UnderWay, Pending, SomePending
  <1>14. ASSUME NEW t \in Threads, SnapshotStep(t), UNCHANGED <<setter, work>>
         PROVE  HashesInv'
    <2>1. /\ \A u \in Threads : /\ Typing(u)' = Typing(u) /\ UnderWay(u)' = UnderWay(u)
                                /\ Pending(u)' = Pending(u) /\ setter'[u] = setter[u]
          /\ SomePending' = SomePending
      BY <1>14 DEF Typing, UnderWay, Pending, SomePending
    <2>2. CASE store' = store
      <3>1. ASSUME \A u \in Threads : UnderWay(u) => <<setter[u].kind, "dump">> \in overlaps'
            PROVE  Hashed(store)
        BY <1>2, <1>3, <3>1 DEF SomePending, Pending
      <3>2. \A e \in snapshots' : Hashed(e.saved)
        BY <1>2, <1>14, <2>2, SnapshotEffect
      <3>3. \A u \in Threads : Hashed(saved'[u])
        BY <1>2, <1>14, <2>2, <3>1, SnapshotEffect DEF TypeOK
      <3>4. QED
        BY <1>2, <2>1, <2>2, <3>2, <3>3 DEF HashesInv, Fine
    <2>3. CASE store' # store
      <3>1. /\ UNCHANGED <<saved, snapshots>> /\ store' = Restored(saved[t], 3)
            /\ \A u \in Threads : UnderWay(u) => <<setter[u].kind, "restore">> \in overlaps'
        BY <1>6, <1>14, <2>3, SnapshotEffect
      <3>2. \A u \in Threads : UnderWay(u) => setter[u].kind = "balance"
        BY <1>3, <1>4, <1>5, <3>1 DEF Kinds, UnderWay
      <3>3. \A u \in Threads : ~Typing(u) /\ ~Pending(u) /\ ~(UnderWay(u) /\ setter[u].next = "makeContract")
        BY <3>2 DEF Pending, Typing, StepsOfKind
      <3>4. Hashed(store')
        BY <1>2, <3>1, RestoredWhole DEF Hashed
      <3>5. QED
        BY <1>2, <2>1, <3>1, <3>3, <3>4 DEF HashesInv
    <2>4. QED
      BY <2>2, <2>3
  <1>15. "balance" \in Kinds /\ "storage" \in Kinds /\ "code" \in Kinds
    BY DEF Kinds
  <1>16. QED
    BY <1>8, <1>10, <1>11, <1>12, <1>13, <1>14, <1>15 DEF StoresNext

LEMMA AccountsInvariance == StoresSpec => [](TypesInv /\ HashesInv)
  <1> DEFINE Known == TypeOK /\ IInv /\ SettersSound
             Inv == StepsOfKind /\ ContractMade /\ TypesInv /\ HashesInv
  <1>1. StoresInit => Inv
    <2> SUFFICES ASSUME StoresInit PROVE Inv
      OBVIOUS
    <2>1. \A t \in Threads : ~UnderWay(t) /\ saved[t] = Untouched
      BY DEF StoresInit, Init, UnderWay, NoSetter
    <2>2. store = Untouched /\ snapshots = {} /\ InOrder(Untouched) /\ Hashed(Untouched)
      BY DEF StoresInit, Init, InOrder, Hashed, Untouched
    <2>3. QED
      BY <2>1, <2>2 DEF StepsOfKind, ContractMade, TypesInv, Needed, HashesInv, Typing, Pending, Untouched
  <1>2. Known /\ Inv /\ [StoresNext]_storesVars => Inv'
    <2> SUFFICES ASSUME Known, Inv, [StoresNext]_storesVars PROVE Inv'
      OBVIOUS
    <2>1. ContractMade'
      <3>1. CASE UNCHANGED storesVars
        BY <3>1 DEF storesVars, vars, ContractMade, UnderWay
      <3>2. QED
        BY <3>1, MadeStep
    <2>2. QED
      BY <2>1, StepsOfKindStep, TypesStep, HashesStep
  <1>3. StoresSpec => []Known
    BY SettersSoundness DEF Known
  <1>4. Inv => TypesInv /\ HashesInv
    OBVIOUS
  <1> HIDE DEF Known, Inv
  <1>5. QED
    BY <1>1, <1>2, <1>3, <1>4, PTL DEF StoresSpec

\* For any number of setters, blocks and snapshots in any order: between setters
\* an address with code or a contract has a contract's account, and the hash is
\* the code's, but for the overlaps the two properties name (setAccountBalance's
\* read and write, two setAccountCode, a snapshot, a restore or a block that
\* destroys the contract in the middle).
THEOREM AccountsStayInOrder == StoresSpec => []AccountsKept
  <1>1. TypesInv /\ HashesInv => AccountsKept
    <2> SUFFICES ASSUME TypesInv, HashesInv, Quiet PROVE AccountsKept
      BY DEF AccountsKept, TypesKept, HashesKept
    <2>1. ~SomePending
      BY DEF Quiet, SomePending, Pending
    <2>2. TypesKept
      BY DEF TypesInv, TypesUnspoilt, TypesKept, Needed
    <2>3. HashesKept
      BY <2>1 DEF HashesInv, HashesUnspoilt, HashesKept, Hashed
    <2>4. QED
      BY <2>2, <2>3 DEF AccountsKept
  <1>2. QED
    BY <1>1, AccountsInvariance, PTL
=============================================================================
