-------------------------- MODULE InstanceId_proofs --------------------------
(***************************************************************************)
(* Proofs about InstanceId, for any set of calls and any number of boots.  *)
(*                                                                         *)
(* The safety properties are not inductive.  What carries them is that     *)
(* `gone' moves only together with an eviction (Resolution: within its     *)
(* generation a resolution's `since' is still `gone'), that _inflight only *)
(* ever names a live resolution of the current generation (Slot), and that *)
(* a call that joined one began at the same `gone' (Joined).               *)
(***************************************************************************)
EXTENDS InstanceId, TLAPS

Active(c) == pc[c] \in {"probing", "genesis"}

\* What is gone stays apart from what is up, owned or being started.
Nodes ==
    /\ gone \subseteq 1..inst
    /\ up => inst \in Nat \ {0} /\ inst \notin gone
    /\ launched <= inst /\ launched \notin gone
    /\ starting <= inst /\ starting \notin gone
    /\ launched # 0 /\ starting # 0 => launched < starting

Cached ==
    cache.state # "absent" =>
        /\ cache.id.inst \notin gone
        /\ launched # 0 => cache.id.tier # "genesis"

\* What a running resolution has read so far is fit to be written or answered.
Resolution ==
    \A c \in Calls :
        /\ myGen[c] <= gen
        /\ Active(c) =>
            /\ since[c] \subseteq gone
            /\ probe[c].kind = "served" => probe[c].inst \notin since[c]
            /\ myCached[c].state # "absent" => myCached[c].id.inst \notin since[c]
            /\ ~Evicted(c) =>
                /\ since[c] = gone
                /\ launched # 0 =>
                    /\ pc[c] # "genesis"
                    /\ myCached[c].state # "absent" => myCached[c].id.tier # "genesis"

Joined ==
    \A c \in Calls : waitsFor[c] # NoCall =>
        /\ pc[c] = "joined"
        /\ Active(waitsFor[c])
        /\ since[c] = since[waitsFor[c]]

\* A call that has not begun has read nothing, and one not done has no result.
Answered ==
    \A c \in Calls :
        /\ pc[c] # "done" => result[c].kind = "none"
        /\ pc[c] = "idle" => probe[c].kind = "pending"

Slot ==
    /\ inflight # NoCall => Active(inflight) /\ ~Evicted(inflight)
    /\ ~strayed => \A c \in Live : inflight = c
    /\ ~strayed /\ cache.state = "committed" => inflight = NoCall

IInv == TypeOK /\ Nodes /\ Cached /\ Resolution /\ Joined /\ Answered /\ FreshAnswer /\ Slot

-----------------------------------------------------------------------------

\* The empty records are of their types.
LEMMA EmptyRecords ==
  /\ NoEntry \in Entries /\ NoEntry.state = "absent"
  /\ Pending \in Probes /\ Pending.kind = "pending"
  /\ NoResult \in Results /\ NoResult.kind = "none"
  /\ Failure \in Results /\ Failure.kind = "error"
  BY DEF Entries, NoEntry, Ids, NoId, Tiers, Probes, Pending, Results, NoResult, Failure

\* The initial state satisfies the invariant: nothing is gone, nothing runs.
LEMMA InitIInv == Init => IInv
  <1> SUFFICES ASSUME Init PROVE IInv
    OBVIOUS
  <1>1. TypeOK
    <2>1. /\ inst \in Nat /\ starting \in Nat /\ launched \in Nat
          /\ up \in BOOLEAN /\ patched \in BOOLEAN
          /\ cache \in Entries
      BY EmptyRecords DEF Init
    <2>2. /\ inflight \in Calls \cup {NoCall} /\ gen \in Nat
          /\ gone \subseteq Nat /\ strayed \in BOOLEAN /\ misses \in Nat
          /\ answers \subseteq {"served", "noId"}
      BY DEF Init
    <2>3. /\ reprobesLeft \in [Calls -> Int]
          /\ pc \in [Calls -> {"idle", "probing", "genesis", "joined", "done"}]
          /\ myGen \in [Calls -> Nat] /\ myCached \in [Calls -> Entries]
      BY EmptyRecords DEF Init
    <2>4. /\ probe \in [Calls -> Probes]
          /\ waitsFor \in [Calls -> Calls \cup {NoCall}]
          /\ result \in [Calls -> Results] /\ since \in [Calls -> SUBSET Nat]
      BY EmptyRecords DEF Init
    <2> QED
      BY ONLY <2>1, <2>2, <2>3, <2>4 DEF TypeOK
  <1>2. Nodes /\ Cached
    BY EmptyRecords DEF Init, Nodes, Cached
  <1>3. Resolution /\ Joined /\ Answered /\ FreshAnswer /\ Slot
    BY EmptyRecords DEF Init, Resolution, Joined, Answered, FreshAnswer, Slot, Live, Active
  <1> QED
    BY <1>1, <1>2, <1>3 DEF IInv

\* Evicting keeps the invariant whatever the node does, provided the nodes
\* are still told apart from those gone, of which there can only be more.
LEMMA EvictStep ==
  ASSUME IInv, Evict, UNCHANGED <<callVars, since>>,
         Nodes', gone \subseteq gone', gone' \subseteq Nat,
         inst' \in Nat, starting' \in Nat, launched' \in Nat,
         up' \in BOOLEAN, patched' \in BOOLEAN
  PROVE  IInv'
  <1> USE DEF IInv, Evict, callVars
  <1>1. TypeOK'
    <2>1. /\ cache' \in Entries /\ inflight' \in Calls \cup {NoCall} /\ gen' \in Nat
          /\ misses' \in Nat
      BY EmptyRecords DEF TypeOK
    <2>2. strayed' \in BOOLEAN /\ answers' \subseteq {"served", "noId"}
      OBVIOUS
    <2> QED
      BY <2>1, <2>2 DEF TypeOK
  <1>2. Cached'
    BY EmptyRecords DEF Cached
  <1>3. gen' = gen + 1 /\ \A c \in Calls : Evicted(c)'
    BY DEF Evicted, Resolution, TypeOK
  <1>4. Resolution'
    BY <1>3 DEF Resolution, TypeOK, Active
  <1>5. Joined'
    BY DEF Joined, Active
  <1>6. FreshAnswer' /\ Answered'
    BY DEF FreshAnswer, Answered
  <1>7. Slot'
    BY <1>3, EmptyRecords DEF Slot, Live
  <1> QED
    BY <1>1, <1>2, <1>4, <1>5, <1>6, <1>7

\* A settling resolution keeps the invariant if what it answers was not gone
\* when it began and it writes the cache only in its own generation.
LEMMA SettleStep ==
  ASSUME IInv, NEW c \in Calls, Active(c), NEW r \in Results, Settle(c, r),
         r.kind = "id" => r.id.inst \notin since[c],
         \/ cache' = cache
         \/ /\ ~Evicted(c)
            /\ cache' \in Entries /\ cache'.state # "absent"
            /\ cache'.id.inst \notin since[c]
            /\ launched # 0 => cache'.id.tier # "genesis",
         reprobesLeft' \in [Calls -> Int], misses' \in Nat,
         answers' \subseteq {"served", "noId"}
  PROVE  IInv'
  <1> USE DEF IInv, Settle, nodeVars
  <1>1. TypeOK'
    BY DEF TypeOK
  <1>2. Nodes'
    BY DEF Nodes
  <1>3. Cached'
    BY DEF Cached, Resolution
  <1>4. \A d \in Calls : /\ Active(d)' => Active(d) /\ d # c /\ pc'[d] = pc[d]
                         /\ Evicted(d)' = Evicted(d)
    BY DEF Active, Evicted, TypeOK
  <1>5. Resolution'
    BY <1>4 DEF Resolution
  <1>6. Joined'
    BY CallsAssumption DEF Joined, Active, TypeOK
  <1>7. FreshAnswer' /\ Answered'
    BY CallsAssumption DEF FreshAnswer, Answered, Joined, TypeOK
  <1>8. Slot'
    BY <1>4 DEF Slot, Live, Active
  <1> QED
    BY <1>1, <1>2, <1>3, <1>5, <1>6, <1>7, <1>8

\* What the generation has heard stays of its type.
LEMMA HeardStep ==
  ASSUME TypeOK, NEW c \in Calls, Heard(c)
  PROVE  misses' \in Nat /\ answers' \subseteq {"served", "noId"}
  <1>1. misses' \in Nat
    BY DEF Heard, TypeOK
  <1>2. Definitive(c) => probe[c].kind \in {"served", "noId"}
    BY DEF Definitive
  <1>3. answers' \subseteq {"served", "noId"}
    <2>1. CASE answers' = answers
      BY <2>1 DEF TypeOK
    <2>2. CASE answers' = answers \cup {probe[c].kind} /\ Definitive(c)
      BY <2>2, <1>2 DEF TypeOK
    <2> QED
      BY <2>1, <2>2 DEF Heard
  <1> QED
    BY <1>1, <1>3

\* The write at the end of a first resolution.
LEMMA WriteStep ==
  ASSUME IInv, NEW c \in Calls, Active(c), NEW id \in Ids, Write(c, id),
         id.inst \notin since[c],
         ~Evicted(c) /\ launched # 0 => id.tier # "genesis"
  PROVE  IInv'
  <1>1. Answer(id) \in Results /\ Answer(id).kind = "id" /\ Answer(id).id = id
    BY DEF Answer, Results
  <1>2. \/ cache' = cache
        \/ /\ ~Evicted(c)
           /\ cache' \in Entries /\ cache'.state # "absent"
           /\ cache'.id.inst \notin since[c]
           /\ launched # 0 => cache'.id.tier # "genesis"
    BY DEF Write, Committed, Provisional, Entries
  <1>3. reprobesLeft' \in [Calls -> Int]
    BY BoundsAssumption DEF Write, IInv, TypeOK
  <1>4. misses' \in Nat /\ answers' \subseteq {"served", "noId"}
    BY HeardStep DEF Write, IInv
  <1>5. Settle(c, Answer(id))
    BY DEF Write
  <1> QED
    BY <1>1, <1>2, <1>3, <1>4, <1>5, SettleStep

\* A resolution that throws settles its callers with the error and writes nothing.
LEMMA ThrowStep ==
  ASSUME IInv, NEW c \in Calls, Active(c), Throw(c)
  PROVE  IInv'
  <1>1. /\ Settle(c, Failure) /\ cache' = cache
        /\ reprobesLeft' \in [Calls -> Int] /\ misses' \in Nat
        /\ answers' \subseteq {"served", "noId"}
    BY DEF Throw, IInv, TypeOK
  <1> QED
    BY <1>1, EmptyRecords, SettleStep

\* Removing a container.
LEMMA RemoveStep ==
  ASSUME NEW i, up \in BOOLEAN, Remove(i)
  PROVE  /\ up' \in BOOLEAN /\ gone \subseteq gone' /\ gone' \subseteq gone \cup {i}
         /\ up' => up /\ (gone' = gone \/ inst # i)
  <1>1. CASE up' = (up /\ inst # i) /\ gone' = gone \cup {i}
    BY <1>1
  <1>2. CASE UNCHANGED <<up, gone>>
    BY <1>2
  <1> QED
    BY <1>1, <1>2 DEF Remove

\* Every step of the environment keeps the invariant.
LEMMA NodeStep ==
  ASSUME IInv, \/ SpawnContainer \/ SpawnSucceeds \/ SpawnFails
               \/ Teardown \/ NodeDies \/ ForeignBoot
  PROVE  IInv'
  <1> USE DEF nodeVars, cacheVars, callVars, genHistory
  <1>0. TypeOK /\ Nodes
    BY DEF IInv
  <1>1. ASSUME UNCHANGED <<cacheVars, callVars, gone, since, genHistory>>,
               Nodes', launched' = launched,
               inst' \in Nat, starting' \in Nat, up' \in BOOLEAN, patched' \in BOOLEAN
        PROVE  IInv'
    BY <1>1 DEF IInv, TypeOK, Cached, Resolution, Joined, Answered, FreshAnswer, Slot, Live, Active, Evicted
  <1>2. CASE SpawnContainer
    BY <1>0, <1>1, <1>2 DEF SpawnContainer, NewNode, Nodes, TypeOK
  <1>3. CASE ForeignBoot
    BY <1>0, <1>1, <1>3 DEF ForeignBoot, NewNode, Nodes, TypeOK
  <1>4. CASE NodeDies
    BY <1>0, <1>1, <1>4 DEF NodeDies, Nodes, TypeOK
  <1>5. CASE SpawnSucceeds
    BY <1>0, <1>5, EvictStep DEF SpawnSucceeds, Nodes, TypeOK
  <1>6. CASE Teardown
    <2>1. /\ up' \in BOOLEAN /\ gone \subseteq gone' /\ gone' \subseteq gone \cup {launched}
          /\ up' => up /\ (gone' = gone \/ inst # launched)
      BY <1>0, <1>6, RemoveStep DEF Teardown, TypeOK
    <2>2. launched \in 1..inst
      BY <1>0, <1>6 DEF Teardown, Nodes, TypeOK
    <2>3. gone' \subseteq 1..inst
      BY <1>0, <2>1, <2>2 DEF Nodes
    <2>4. Nodes'
      BY <1>0, <1>6, <2>1, <2>3 DEF Teardown, Nodes, TypeOK
    <2> QED
      BY <1>0, <1>6, <2>1, <2>3, <2>4, EvictStep DEF Teardown, TypeOK
  <1>7. CASE SpawnFails
    <2>1. CASE Evict /\ Remove(starting)
      <3>1. /\ up' \in BOOLEAN /\ gone \subseteq gone' /\ gone' \subseteq gone \cup {starting}
            /\ up' => up /\ (gone' = gone \/ inst # starting)
        BY <1>0, <2>1, RemoveStep DEF TypeOK
      <3>2. starting \in 1..inst
        BY <1>0, <1>7 DEF SpawnFails, Nodes, TypeOK
      <3>3. gone' \subseteq 1..inst
        BY <1>0, <3>1, <3>2 DEF Nodes
      <3>4. Nodes'
        BY <1>0, <1>7, <3>1, <3>3 DEF SpawnFails, Nodes, TypeOK
      <3> QED
        BY <1>0, <1>7, <2>1, <3>1, <3>3, <3>4, EvictStep DEF SpawnFails, TypeOK
    <2>2. CASE UNCHANGED <<up, gone, cacheVars, genHistory>>
      BY <1>0, <1>1, <1>7, <2>2 DEF SpawnFails, Nodes, TypeOK
    <2> QED
      BY <1>7, <2>1, <2>2 DEF SpawnFails
  <1> QED
    BY <1>2, <1>3, <1>4, <1>5, <1>6, <1>7

\* A call that begins keeps it, whether it hits, joins or resolves.
LEMMA BeginStep ==
  ASSUME IInv, NEW c \in Calls, CallHit(c) \/ CallJoins(c) \/ CallResolves(c)
  PROVE  IInv'
  <1> USE CallsAssumption DEF IInv, Begin, nodeVars, cacheVars, genHistory
  <1>1. CASE CallHit(c)
    <2>1. TypeOK'
      BY <1>1 DEF CallHit, TypeOK, Answer, Results, Entries
    <2>2. \A d \in Calls : Active(d)' = Active(d) /\ Evicted(d)' = Evicted(d)
      BY <1>1 DEF CallHit, Active, Evicted, TypeOK
    <2>3. Nodes' /\ Cached' /\ Resolution'
      BY <1>1, <2>2 DEF CallHit, Nodes, Cached, Resolution, TypeOK, Active
    <2>4. Joined' /\ Answered' /\ FreshAnswer'
      BY <1>1, <2>2 DEF CallHit, Joined, Answered, FreshAnswer, Cached, TypeOK, Active, Answer
    <2>5. Slot'
      BY <1>1, <2>2 DEF CallHit, Slot, Live, Active, TypeOK
    <2> QED
      BY <2>1, <2>3, <2>4, <2>5
  <1>2. CASE CallJoins(c)
    <2>1. TypeOK'
      BY <1>2 DEF CallJoins, TypeOK
    <2>2. \A d \in Calls : Active(d)' = Active(d) /\ Evicted(d)' = Evicted(d)
      BY <1>2 DEF CallJoins, Active, Evicted, TypeOK
    <2>3. Nodes' /\ Cached' /\ Resolution'
      BY <1>2, <2>2 DEF CallJoins, Nodes, Cached, Resolution, TypeOK, Active
    <2>4. since[inflight] = gone /\ Active(inflight) /\ inflight # c
      BY <1>2 DEF CallJoins, Slot, Resolution, TypeOK, Active
    <2>5. Joined' /\ Answered'
      BY <1>2, <2>2, <2>4 DEF CallJoins, Joined, Answered, TypeOK, Active
    <2>6. FreshAnswer'
      <3>1. result' = result /\ \A d \in Calls \ {c} : since'[d] = since[d]
        BY <1>2 DEF CallJoins, TypeOK
      <3>2. result[c].kind # "id"
        BY <1>2 DEF CallJoins, Answered
      <3> QED
        BY <3>1, <3>2 DEF FreshAnswer
    <2>7. Slot'
      BY <1>2, <2>2 DEF CallJoins, Slot, Live, Active, TypeOK
    <2> QED
      BY <2>1, <2>3, <2>5, <2>6, <2>7
  <1>3. CASE CallResolves(c)
    <2>1. TypeOK'
      BY <1>3 DEF CallResolves, TypeOK
    <2>2. /\ \A d \in Calls \ {c} : Active(d)' = Active(d) /\ Evicted(d)' = Evicted(d)
          /\ Active(c)' /\ ~Evicted(c)'
      BY <1>3 DEF CallResolves, Active, Evicted, TypeOK
    <2>3. Nodes' /\ Cached'
      BY <1>3 DEF CallResolves, Nodes, Cached
    <2>4. Resolution'
      BY <1>3, <2>2 DEF CallResolves, Resolution, Cached, Answered, TypeOK, Active
    <2>5. Joined' /\ Answered'
      BY <1>3, <2>2 DEF CallResolves, Joined, Answered, TypeOK, Active
    <2>6. FreshAnswer'
      <3>1. result' = result /\ \A d \in Calls \ {c} : since'[d] = since[d]
        BY <1>3 DEF CallResolves, TypeOK
      <3>2. result[c].kind # "id"
        BY <1>3 DEF CallResolves, Answered
      <3> QED
        BY <3>1, <3>2 DEF FreshAnswer
    <2>7. Slot'
      BY <1>3, <2>2 DEF CallResolves, Slot, Live, Active, TypeOK
    <2> QED
      BY <2>1, <2>3, <2>4, <2>5, <2>6, <2>7
  <1> QED
    BY <1>1, <1>2, <1>3

\* A step of a running resolution keeps it.
LEMMA ResolutionStep ==
  ASSUME IInv, NEW c \in Calls,
         \/ ProbeAnswered(c) \/ ProbeLost(c) \/ Reprobed(c)
         \/ Resolve(c) \/ GenesisArrives(c)
  PROVE  IInv'
  <1>0. TypeOK /\ Nodes /\ Resolution
    BY DEF IInv
  <1>1. ASSUME NEW reply \in Probes, ProbeReply(c, reply),
               reply.kind = "served" => reply.inst \notin gone
        PROVE  IInv'
    BY <1>1 DEF ProbeReply, IInv, TypeOK, Nodes, Cached, Resolution, Joined, Answered,
                FreshAnswer, Slot, Live, Active, Evicted,
                nodeVars, cacheVars, genHistory
  <1>2. CASE ProbeAnswered(c)
    BY <1>0, <1>1, <1>2 DEF ProbeAnswered, Nodes, TypeOK, Probes
  <1>3. CASE ProbeLost(c)
    BY <1>1, <1>3 DEF ProbeLost, Probes
  <1>4. CASE Reprobed(c)
    <2> DEFINE old == myCached[c]
               id == IF probe[c].kind = "served" THEN ServedId(c) ELSE old.id
    <2>1. /\ pc[c] = "probing" /\ old.state = "provisional"
          /\ Settle(c, Answer(id)) /\ Heard(c)
      BY <1>4 DEF Reprobed
    <2>2. Active(c) /\ old \in Entries
      BY <1>0, <2>1 DEF Active, TypeOK
    <2>3. id \in Ids /\ old.id \in Ids
      BY <1>0, <2>2 DEF ServedId, Ids, Tiers, Entries, TypeOK, Probes
    <2>4. /\ id.inst \notin since[c] /\ old.id.inst \notin since[c]
          /\ ~Evicted(c) /\ launched # 0 => id.tier # "genesis" /\ old.id.tier # "genesis"
      BY <1>0, <2>1, <2>2 DEF Resolution, ServedId
    <2>5. Answer(id) \in Results /\ Answer(id).id = id
      BY <2>3 DEF Answer, Results
    <2>6. /\ Committed(id) \in Entries /\ Committed(id).state # "absent" /\ Committed(id).id = id
          /\ Committed(old.id) \in Entries /\ Committed(old.id).state # "absent"
          /\ Committed(old.id).id = old.id
      BY <2>3 DEF Committed, Entries
    <2>7. \/ cache' = cache
          \/ ~Evicted(c) /\ (cache' = Committed(id) \/ cache' = Committed(old.id))
      BY <1>4 DEF Reprobed
    <2>8. reprobesLeft' \in [Calls -> Int]
      <3>1. CASE reprobesLeft' = reprobesLeft
        BY <1>0, <3>1 DEF TypeOK
      <3>2. CASE reprobesLeft' = [reprobesLeft EXCEPT ![old.owner] = reprobesLeft[old.owner] - 1]
        <4>1. CASE old.owner \in Calls
          BY <1>0, <3>2, <4>1 DEF TypeOK
        <4>2. CASE old.owner \notin Calls
          BY <1>0, <3>2, <4>2 DEF TypeOK
        <4> QED
          BY <4>1, <4>2
      <3> QED
        BY <1>4, <3>1, <3>2 DEF Reprobed
    <2>9. misses' \in Nat /\ answers' \subseteq {"served", "noId"}
      BY <1>0, <2>1, HeardStep
    <2> HIDE DEF old, id
    <2>10. \/ cache' = cache
           \/ /\ ~Evicted(c)
              /\ cache' \in Entries /\ cache'.state # "absent"
              /\ cache'.id.inst \notin since[c]
              /\ launched # 0 => cache'.id.tier # "genesis"
      BY <2>4, <2>6, <2>7
    <2> QED
      BY <2>1, <2>2, <2>4, <2>5, <2>8, <2>9, <2>10, SettleStep
  <1>5. ASSUME Active(c), up, NEW t \in Tiers, Write(c, [inst |-> inst, tier |-> t]),
               ~Evicted(c) /\ launched # 0 => t # "genesis"
        PROVE  IInv'
    <2>1. [inst |-> inst, tier |-> t] \in Ids /\ inst \notin since[c]
      BY <1>0, <1>5 DEF Nodes, Resolution, TypeOK, Ids
    <2> QED
      BY <1>5, <2>1, WriteStep
  <1>6. CASE ResolvedServed(c)
    <2>1. Active(c) /\ probe[c].kind = "served" /\ Write(c, ServedId(c))
      BY <1>6 DEF ResolvedServed, FirstProbe, Active
    <2>2. ServedId(c) \in Ids /\ ServedId(c).inst \notin since[c] /\ ServedId(c).tier = "served"
      BY <1>0, <2>1 DEF ServedId, Ids, Tiers, TypeOK, Probes, Resolution
    <2> QED
      BY <2>1, <2>2, WriteStep
  <1>7. CASE ResolvedOwned(c)
    <2>1. Active(c)
      BY <1>7 DEF ResolvedOwned, FirstProbe, Active
    <2>2. CASE Write(c, [inst |-> launched, tier |-> "docker"])
      <3>1. [inst |-> launched, tier |-> "docker"] \in Ids /\ launched \notin since[c]
        BY <1>0, <2>1 DEF Nodes, Resolution, TypeOK, Ids, Tiers
      <3> QED
        BY <2>1, <2>2, <3>1, WriteStep
    <2> QED
      BY <1>7, <2>1, <2>2, ThrowStep DEF ResolvedOwned
  <1>8. CASE ResolvedDiscovered(c)
    BY <1>5, <1>8, ThrowStep DEF ResolvedDiscovered, FirstProbe, Active, Tiers
  <1>9. CASE FallThrough(c)
    BY <1>9, CallsAssumption
       DEF FallThrough, FirstProbe, IInv, TypeOK, Nodes, Cached, Resolution, Joined, Answered,
           FreshAnswer, Slot, Live, Active, Evicted, nodeVars, cacheVars, genHistory
  <1>10. CASE GenesisArrives(c)
    <2>1. Active(c) /\ (~Evicted(c) => launched = 0)
      BY <1>0, <1>10 DEF GenesisArrives, Active, Resolution
    <2> QED
      BY <1>5, <1>10, <2>1, ThrowStep DEF GenesisArrives, Tiers
  <1> QED
    BY <1>2, <1>3, <1>4, <1>6, <1>7, <1>8, <1>9, <1>10 DEF Resolve

\* IInv is inductive.
LEMMA NextIInv == IInv /\ [Next]_vars => IInv'
  <1> SUFFICES ASSUME IInv, [Next]_vars PROVE IInv'
    OBVIOUS
  <1>1. CASE UNCHANGED vars
    BY <1>1 DEF vars, nodeVars, cacheVars, callVars, genHistory, IInv, TypeOK, Nodes, Cached,
                Resolution, Joined, Answered, FreshAnswer, Slot, Live, Active, Evicted
  <1>2. CASE Next
    BY <1>2, NodeStep, BeginStep, ResolutionStep DEF Next
  <1> QED
    BY <1>1, <1>2

\* The invariant holds of every behaviour.
THEOREM Invariance == Spec => []IInv
  BY InitIInv, NextIInv, PTL DEF Spec

-----------------------------------------------------------------------------

\* Every variable of the identity cache keeps its type.
THEOREM TypeCorrect == Spec => []TypeOK
  BY Invariance, PTL DEF IInv

\* No id of a removed or superseded node is ever in the cache, however long a
\* probe of it was in flight.
THEOREM CacheNeverResurrects == Spec => []NoResurrection
  <1>1. IInv => NoResurrection
    BY DEF IInv, Cached, NoResurrection
  <1> QED
    BY Invariance, <1>1, PTL

\* No call is answered with a node that was gone when it was made.
THEOREM AnswersAreFresh == Spec => []FreshAnswer
  <1>1. IInv => FreshAnswer
    BY DEF IInv
  <1> QED
    BY Invariance, <1>1, PTL

\* Neither the cache nor an answer names a node that is gone.
THEOREM NothingGoesStale == Spec => []NothingStale
  BY CacheNeverResurrects, AnswersAreFresh, PTL DEF NothingStale

\* The genesis hash never stands for a container this process owns.
THEOREM OwnedIsNeverGenesis == Spec => []OwnedNeverGenesis
  <1>1. IInv => OwnedNeverGenesis
    BY DEF IInv, Cached, OwnedNeverGenesis
  <1> QED
    BY Invariance, <1>1, PTL

\* Unless an evicted resolution has strayed into this generation, the url has
\* one resolution.
THEOREM OneResolution == Spec => []SingleUnlessStrayed
  <1>1. IInv => SingleUnlessStrayed
    BY DEF IInv, Slot, SingleUnlessStrayed
  <1> QED
    BY Invariance, <1>1, PTL

\* With no stray, nothing but an eviction replaces a committed id: the slot is
\* empty, so no resolution of this generation is left to write.
LEMMA CommittedStep ==
  ASSUME IInv, Next, cache.state = "committed", ~strayed
  PROVE  cache' = cache \/ gen' # gen
  <1>1. \A c \in Calls : Active(c) => Evicted(c)
    BY CallsAssumption DEF IInv, Slot, Live, Active
  <1>2. \A c \in Calls : \A id : Active(c) /\ Write(c, id) => cache' = cache
    BY <1>1 DEF Write
  <1>3. \A c \in Calls : Throw(c) => cache' = cache
    BY DEF Throw
  <1>4. ASSUME Evict PROVE gen' # gen
    BY <1>4 DEF Evict, IInv, TypeOK
  <1>5. CASE \/ SpawnContainer \/ SpawnSucceeds \/ SpawnFails
            \/ Teardown \/ NodeDies \/ ForeignBoot
    BY <1>4, <1>5 DEF SpawnContainer, SpawnSucceeds, SpawnFails, Teardown, NodeDies,
                      ForeignBoot, cacheVars
  <1>6. ASSUME NEW c \in Calls, CallHit(c) \/ CallJoins(c) \/ CallResolves(c)
        PROVE  cache' = cache
    BY <1>6 DEF CallHit, CallJoins, CallResolves, cacheVars
  <1>7. ASSUME NEW c \in Calls, ProbeAnswered(c) \/ ProbeLost(c) \/ FallThrough(c)
        PROVE  cache' = cache
    BY <1>7 DEF ProbeAnswered, ProbeLost, ProbeReply, FallThrough, cacheVars
  <1>8. ASSUME NEW c \in Calls, Reprobed(c)
        PROVE  cache' = cache
    <2>1. Evicted(c)
      BY <1>1, <1>8 DEF Reprobed, Active
    <2> QED
      BY <1>8, <2>1 DEF Reprobed
  <1>9. ASSUME NEW c \in Calls, ResolvedServed(c) \/ ResolvedOwned(c)
                                \/ ResolvedDiscovered(c) \/ GenesisArrives(c)
        PROVE  cache' = cache
    BY <1>2, <1>3, <1>9
       DEF ResolvedServed, ResolvedOwned, ResolvedDiscovered, GenesisArrives, FirstProbe, Active
  <1> QED
    BY <1>5, <1>6, <1>7, <1>8, <1>9 DEF Next, Resolve

\* A committed id is stable until evicted, but for strays.
THEOREM CommittedStays == Spec => CommittedIsStable
  <1>1. IInv /\ [Next]_vars =>
          [cache.state = "committed" /\ ~strayed => cache' = cache \/ gen' # gen]_vars
    BY CommittedStep
  <1> QED
    BY Invariance, <1>1, PTL DEF Spec, CommittedIsStable

-----------------------------------------------------------------------------
(* Counting the re-probes                                                  *)

\* In a generation no evicted resolution has strayed into, the entry a resolution
\* goes by is the one in the cache, so each unanswered probe counts once: the
\* misses and what is left to a provisional entry add up, and its fallback is
\* committed when nothing is left.
Counted ==
    /\ \A c \in Calls : pc[c] = "genesis" =>
           probe[c].kind \in {"noId", "noAnswer"} /\ myCached[c].state = "absent"
    /\ ~strayed =>
        /\ \A c \in Live : myCached[c] = cache
        /\ cache.state = "absent" => misses = 0
        /\ cache.state = "provisional" =>
              /\ cache.owner \in Calls /\ reprobesLeft[cache.owner] > 0
              /\ misses + reprobesLeft[cache.owner] = Reprobes + 1
        /\ cache.state = "committed" /\ cache.id.tier # "served" => "noId" \in answers \/ misses > Reprobes

\* A resolution that settles in its generation, and strays into none, leaves none
\* running; in the cache it found, it leaves what the code makes of its probe.
LEMMA SettleCounts ==
  ASSUME IInv, Counted, NEW c \in Calls, Active(c), NEW r, Settle(c, r),
         \/ /\ UNCHANGED <<cache, reprobesLeft>> /\ (misses' = misses /\ answers' = answers)
         \/ /\ ~Evicted(c)
            /\ ~strayed /\ myCached[c] = cache =>
                  /\ cache'.state # "absent"
                  /\ cache'.state = "provisional" =>
                        /\ cache'.owner \in Calls /\ reprobesLeft'[cache'.owner] > 0
                        /\ misses' + reprobesLeft'[cache'.owner] = Reprobes + 1
                  /\ cache'.state = "committed" /\ cache'.id.tier # "served" => "noId" \in answers' \/ misses' > Reprobes
  PROVE  Counted'
  <1>1. ASSUME NEW d \in Calls, pc'[d] = "genesis"
        PROVE  pc[d] = "genesis" /\ probe'[d] = probe[d] /\ myCached'[d] = myCached[d]
    BY <1>1 DEF Settle, IInv, TypeOK
  <1>2. ASSUME ~strayed' PROVE ~strayed /\ Live' = {}
    <2>1. ~strayed /\ inflight \in {NoCall, c}
      BY <1>2 DEF Settle
    <2>2. \A d \in Live : d = c
      BY <2>1, CallsAssumption DEF IInv, Slot, Live
    <2>3. \A d \in Calls : Active(d)' => Active(d) /\ d # c /\ Evicted(d)' = Evicted(d)
      BY DEF Settle, Active, Evicted, IInv, TypeOK
    <2>4. QED
      BY <2>1, <2>2, <2>3 DEF Live, Active
  <1>3. ~strayed /\ ~Evicted(c) => myCached[c] = cache
    BY DEF Counted, Live, Active
  <1>4. ASSUME ~strayed'
        PROVE  /\ cache'.state = "absent" => misses' = 0
               /\ cache'.state = "provisional" =>
                     /\ cache'.owner \in Calls /\ reprobesLeft'[cache'.owner] > 0
                     /\ misses' + reprobesLeft'[cache'.owner] = Reprobes + 1
               /\ cache'.state = "committed" /\ cache'.id.tier # "served" => "noId" \in answers' \/ misses' > Reprobes
    BY <1>2, <1>3, <1>4 DEF Counted
  <1>5. QED
    BY <1>1, <1>2, <1>4 DEF Counted

\* The write at the end of a first resolution.
LEMMA WriteCounts ==
  ASSUME IInv, Counted, NEW c \in Calls, Active(c), NEW id \in Ids, Write(c, id),
         myCached[c].state = "absent", Definitive(c) /\ id.tier # "served" => probe[c].kind = "noId"
  PROVE  Counted'
  <1>1. Settle(c, Answer(id)) /\ Heard(c)
    BY DEF Write
  <1>2. CASE Evicted(c)
    BY <1>1, <1>2, SettleCounts DEF Write, Heard
  <1>3. CASE ~Evicted(c) /\ Definitive(c)
    <2>1. cache' = Committed(id) /\ answers' = answers \cup {probe[c].kind}
      BY <1>1, <1>3 DEF Write, Heard
    <2>2. cache'.state = "committed" /\ cache'.id = id
      BY <2>1 DEF Committed
    <2>3. QED
      BY <1>1, <1>3, <2>1, <2>2, SettleCounts
  <1>4. CASE ~Evicted(c) /\ ~Definitive(c)
    <2>1. /\ cache' = Provisional(id, c) /\ reprobesLeft' = [reprobesLeft EXCEPT ![c] = Reprobes]
          /\ misses' = misses + 1
      BY <1>1, <1>4 DEF Write, Heard
    <2>2. cache'.state = "provisional" /\ cache'.owner = c
      BY <2>1 DEF Provisional
    <2>3. reprobesLeft'[c] = Reprobes /\ Reprobes \in Nat \ {0}
      BY <2>1, BoundsAssumption DEF IInv, TypeOK
    <2>4. ~strayed /\ myCached[c] = cache => misses = 0
      BY DEF Counted
    <2>5. QED
      BY <1>1, <1>4, <2>1, <2>2, <2>3, <2>4, SettleCounts
  <1>5. QED
    BY <1>2, <1>3, <1>4

\* A re-probe.
LEMMA ReprobeCounts ==
  ASSUME IInv, Counted, NEW c \in Calls, Reprobed(c)
  PROVE  Counted'
  <1> DEFINE old == myCached[c]
             id == IF probe[c].kind = "served" THEN ServedId(c) ELSE old.id
             left == reprobesLeft[old.owner] - 1
  <1>1. /\ pc[c] = "probing" /\ probe[c].kind # "pending" /\ old.state = "provisional"
        /\ Settle(c, Answer(id)) /\ Heard(c) /\ Active(c)
    BY DEF Reprobed, Active
  <1>2. CASE Evicted(c)
    BY <1>1, <1>2, SettleCounts DEF Reprobed, Heard
  <1>3. CASE ~Evicted(c) /\ Definitive(c)
    <2>1. cache' = Committed(id) /\ answers' = answers \cup {probe[c].kind}
      BY <1>1, <1>3 DEF Reprobed, Heard
    <2>2. cache'.state = "committed" /\ cache'.id = id
      BY <2>1 DEF Committed
    <2>3. id.tier # "served" => probe[c].kind = "noId"
      BY <1>3 DEF Definitive, ServedId
    <2> HIDE DEF id
    <2>4. QED
      BY <1>1, <1>3, <2>1, <2>2, <2>3, SettleCounts
  <1>4. CASE ~Evicted(c) /\ ~Definitive(c)
    <2>1. /\ reprobesLeft' = [reprobesLeft EXCEPT ![old.owner] = left]
          /\ cache' = IF left > 0 THEN cache ELSE Committed(old.id)
          /\ misses' = misses + 1
      BY <1>1, <1>4 DEF Reprobed, Heard
    <2>2. Committed(old.id).state = "committed"
      BY DEF Committed
    <2>3. reprobesLeft \in [Calls -> Int] /\ misses \in Nat /\ Reprobes \in Nat
      BY BoundsAssumption DEF IInv, TypeOK
    <2>4. ASSUME ~strayed, old = cache
          PROVE  /\ cache'.state # "absent"
                 /\ cache'.state = "provisional" =>
                        /\ cache'.owner \in Calls /\ reprobesLeft'[cache'.owner] > 0
                        /\ misses' + reprobesLeft'[cache'.owner] = Reprobes + 1
                 /\ cache'.state = "committed" => misses' > Reprobes
      <3>1. /\ old.owner \in Calls /\ reprobesLeft[old.owner] > 0
            /\ misses + reprobesLeft[old.owner] = Reprobes + 1
        BY <1>1, <2>4 DEF Counted
      <3>2. reprobesLeft'[old.owner] = left /\ left \in Int
        BY <2>1, <2>3, <3>1
      <3>3. misses' + left = Reprobes + 1
        BY <2>1, <2>3, <3>1
      <3>4. CASE left > 0
        BY <1>1, <2>1, <2>4, <3>1, <3>2, <3>3, <3>4
      <3>5. CASE ~(left > 0)
        BY <2>1, <2>2, <2>3, <3>2, <3>3, <3>5
      <3>6. QED
        BY <3>4, <3>5
    <2> HIDE DEF left, id, old
    <2>5. QED
      BY <1>1, <1>4, <2>4, SettleCounts DEF old
  <1>5. QED
    BY <1>2, <1>3, <1>4

\* An eviction starts the count again.
LEMMA EvictCounts ==
  ASSUME IInv, Counted, Evict, UNCHANGED callVars
  PROVE  Counted'
  <1>1. cache'.state = "absent" /\ misses' = 0 /\ gen' = gen + 1
    BY EmptyRecords DEF Evict
  <1>2. Live' = {}
    BY <1>1 DEF Live, Evicted, IInv, TypeOK, Resolution, callVars
  <1>3. QED
    BY <1>1, <1>2 DEF Counted, callVars

\* The count is kept by every step.
LEMMA CountedStep ==
  ASSUME IInv, Counted, [Next]_vars
  PROVE  Counted'
  <1>1. CASE UNCHANGED <<cacheVars, callVars, genHistory>>
    BY <1>1 DEF cacheVars, callVars, genHistory, Counted, Live, Evicted
  <1>2. CASE \/ SpawnContainer \/ SpawnSucceeds \/ SpawnFails \/ Teardown \/ NodeDies \/ ForeignBoot
    BY <1>1, <1>2, EvictCounts
       DEF SpawnContainer, SpawnSucceeds, SpawnFails, Teardown, NodeDies, ForeignBoot
  <1>3. ASSUME NEW c \in Calls, CallHit(c) \/ CallJoins(c) PROVE Counted'
    <2>1. /\ UNCHANGED <<cacheVars, myGen, myCached, probe, genHistory>>
          /\ \A d \in Calls : pc'[d] \in {"probing", "genesis"} => pc'[d] = pc[d]
      BY <1>3 DEF CallHit, CallJoins, IInv, TypeOK
    <2>2. Live' \subseteq Live
      BY <2>1 DEF Live, Evicted, cacheVars
    <2>3. QED
      BY <2>1, <2>2 DEF Counted, cacheVars, genHistory
  <1>4. ASSUME NEW c \in Calls, CallResolves(c) PROVE Counted'
    <2>1. /\ UNCHANGED <<cache, reprobesLeft, gen, probe, genHistory>> /\ inflight = NoCall
          /\ pc' = [pc EXCEPT ![c] = "probing"] /\ myCached' = [myCached EXCEPT ![c] = cache]
          /\ myGen' = [myGen EXCEPT ![c] = gen] /\ pc[c] = "idle"
      BY <1>4 DEF CallResolves, Begin
    <2>2. ~strayed => Live = {}
      BY <2>1, CallsAssumption DEF IInv, Slot, Live
    <2>3. ~strayed => Live' \subseteq {c}
      BY <2>1, <2>2 DEF Live, Evicted, IInv, TypeOK
    <2>4. \A d \in Calls : pc'[d] = "genesis" => pc[d] = "genesis" /\ myCached'[d] = myCached[d]
      BY <2>1 DEF IInv, TypeOK
    <2>5. myCached'[c] = cache
      BY <2>1 DEF IInv, TypeOK
    <2>6. QED
      BY <2>1, <2>3, <2>4, <2>5 DEF Counted, genHistory
  <1>5. ASSUME NEW c \in Calls, ProbeAnswered(c) \/ ProbeLost(c) PROVE Counted'
    <2>1. /\ UNCHANGED <<cacheVars, pc, myGen, myCached, genHistory>> /\ pc[c] = "probing"
          /\ \A d \in Calls \ {c} : probe'[d] = probe[d]
      BY <1>5 DEF ProbeAnswered, ProbeLost, ProbeReply, IInv, TypeOK
    <2>2. Live' = Live
      BY <2>1 DEF Live, Evicted, cacheVars
    <2>3. QED
      BY <2>1, <2>2 DEF Counted, cacheVars, genHistory
  <1>6. ASSUME NEW c \in Calls, FallThrough(c) PROVE Counted'
    <2>1. /\ UNCHANGED <<cacheVars, myGen, myCached, probe, genHistory>>
          /\ pc[c] = "probing" /\ pc' = [pc EXCEPT ![c] = "genesis"]
          /\ myCached[c].state = "absent" /\ probe[c].kind \notin {"pending", "served"}
      BY <1>6 DEF FallThrough, FirstProbe
    <2>2. probe[c].kind \in {"noId", "noAnswer"}
      BY <2>1 DEF IInv, TypeOK, Probes
    <2>3. Live' = Live
      BY <2>1 DEF Live, Evicted, cacheVars, IInv, TypeOK
    <2>4. \A d \in Calls : pc'[d] = "genesis" => d = c \/ pc[d] = "genesis"
      BY <2>1 DEF IInv, TypeOK
    <2>5. QED
      BY <2>1, <2>2, <2>3, <2>4 DEF Counted, cacheVars, genHistory
  <1>7. ASSUME NEW c \in Calls, Active(c), Throw(c) PROVE Counted'
    BY <1>7, SettleCounts DEF Throw
  <1>8. ASSUME NEW c \in Calls, ResolvedServed(c) PROVE Counted'
    <2>1. /\ Active(c) /\ myCached[c].state = "absent" /\ probe[c].kind = "served"
          /\ Write(c, ServedId(c))
      BY <1>8 DEF ResolvedServed, FirstProbe, Active
    <2>2. ServedId(c) \in Ids /\ ServedId(c).tier = "served"
      BY DEF ServedId, Ids, Tiers, IInv, TypeOK, Probes
    <2>3. QED
      BY <2>1, <2>2, WriteCounts
  <1>9. ASSUME NEW c \in Calls, ResolvedOwned(c) \/ ResolvedDiscovered(c) \/ GenesisArrives(c) PROVE Counted'
    <2>1. /\ Active(c) /\ myCached[c].state = "absent" /\ probe[c].kind # "served"
      BY <1>9 DEF ResolvedOwned, ResolvedDiscovered, GenesisArrives, FirstProbe, Active, Counted
    <2>2. Definitive(c) => probe[c].kind = "noId"
      BY <2>1 DEF Definitive
    <2>3. /\ [inst |-> launched, tier |-> "docker"] \in Ids /\ [inst |-> inst, tier |-> "docker"] \in Ids
          /\ [inst |-> inst, tier |-> "genesis"] \in Ids
      BY DEF Ids, Tiers, IInv, TypeOK
    <2>4. QED
      BY <1>7, <1>9, <2>1, <2>2, <2>3, WriteCounts DEF ResolvedOwned, ResolvedDiscovered, GenesisArrives
  <1>10. QED
    BY <1>1, <1>2, <1>3, <1>4, <1>5, <1>6, <1>8, <1>9, ReprobeCounts
       DEF Next, Resolve, vars

\* A fallback id is settled on after the first resolution and MAX_PROVISIONAL_REPROBES
\* re-probes went unanswered, or the node said it serves none, and no later
\* (resolveInstanceId's `--cached.reprobesLeft > 0'), unless a stray has settled
\* in the generation.
THEOREM ReprobesAreCounted == Spec => []ReprobesCounted
  <1>1. Init => Counted
    BY EmptyRecords DEF Init, Counted, Live
  <1>2. IInv /\ Counted /\ [Next]_vars => Counted'
    BY CountedStep
  <1>3. IInv /\ Counted => ReprobesCounted
    <2> SUFFICES ASSUME IInv, Counted PROVE ReprobesCounted
      OBVIOUS
    <2>1. FallbackIsLastResort
      BY DEF Counted, FallbackIsLastResort
    <2>2. SettlesAfterReprobes
      <3> SUFFICES ASSUME misses > Reprobes, ~strayed PROVE cache.state = "committed"
        BY DEF SettlesAfterReprobes
      <3>1. cache.state \in {"absent", "provisional", "committed"} /\ reprobesLeft \in [Calls -> Int] /\ misses \in Nat
        BY DEF IInv, TypeOK, Entries
      <3>2. QED
        BY <3>1, BoundsAssumption DEF Counted
    <2>3. QED
      BY <2>1, <2>2 DEF ReprobesCounted
  <1>4. QED
    BY Invariance, <1>1, <1>2, <1>3, PTL DEF Spec
=============================================================================
