--------------------------- MODULE Fixtures_proofs ---------------------------
(***************************************************************************)
(* For any number of fixtures, writes, snapshots and broken exchanges:     *)
(* loads restore, fixtures start funded, and while the node answers the    *)
(* table of fixtures and the node's log stay in step.                      *)
(***************************************************************************)
EXTENDS Fixtures, TLAPS

\* Ids are given out in increasing order, whoever keeps them.
Ids ==
    /\ last <= MaxIds
    /\ \A e \in log : e.id <= last
    /\ \A d, e \in log : d.id = e.id => d = e
    /\ \A f \in FixtureFns : table[f] <= last
    /\ \A f, g \in FixtureFns : table[f] = table[g] /\ table[f] # 0 => f = g
    /\ \A i \in own : i <= last
    /\ \A r \in Strayable : strays[r] > 0 => r.id <= last

\* Where loadFixture is, and what it has asked for.
HasId == pc \in {"take", "retake"} /\ request = NoRequest
Control ==
    /\ pc # "idle" => loading \in FixtureFns
    /\ request # NoRequest => Awaiting /\ request = Asked
    /\ pc \in {"refund", "fn", "take"} => supported = "yes" /\ table[loading] = 0
    /\ pc \in {"revert", "retake"} => supported = "yes" /\ table[loading] # 0
    /\ pc = "bare" => supported = "no"
    /\ HasId => answer <= last /\ \A f \in FixtureFns : table[f] < answer

\* s is what f's data describes, but for balances a late funding has filled up.
Fits(s, f) == s.ver = captured[f].ver /\ (late = {} => s = captured[f])

\* Unless a late revert has changed the state, a live entry holds what its
\* fixture's data describes, and so does the chain while a load that has taken
\* effect is finished.
Fitting ==
    "revert" \notin late =>
        /\ \A f \in FixtureFns, e \in log : e.id = table[f] => Fits(e.saved, f)
        /\ pc \in {"take", "retake"} => Fits(state, loading)
        /\ pc = "revert" /\ request = NoRequest /\ answer = 1 => Fits(state, loading)
        /\ pc = "returned" /\ supported = "yes" => Fits(state, loading)
        /\ HasId => \A e \in log : e.id = answer => Fits(e.saved, loading)

\* The refund is there when fn starts.
Funded ==
    "revert" \notin late /\ (pc = "fn" \/ (pc = "refund" /\ request = NoRequest)) => state.signers = "full"

\* The revert of a load has been answered, and what it invalidated is still in the table.
Undoing == (pc = "revert" /\ request = NoRequest) \/ pc = "retake"
\* While the node answers, nothing is served late but drops of what is gone, and
\* the entries it invalidated excepted, table and log agree.
Agreeing ==
    faults = 0 =>
        /\ late = {}
        /\ \A r \in Strayable : strays[r] > 0 => r.op = "drop" /\ ~Live(r.id)
        /\ \A f \in FixtureFns : table[f] # 0 /\ ~(Undoing /\ table[f] >= table[loading]) =>
               [id |-> table[f], saved |-> captured[f]] \in log
        /\ Undoing => \A e \in log : e.id < table[loading] \/ (HasId /\ e.id = answer)
        /\ pc = "revert" /\ request = NoRequest => answer = 1
        /\ HasId => [id |-> answer, saved |-> captured[loading]] \in log
        /\ \A e \in log : \/ e.id \in own
                          \/ \E f \in FixtureFns : table[f] = e.id
                          \/ HasId /\ e.id = answer

IInv == TypeOK /\ Ids /\ Control /\ Fitting /\ Funded /\ Agreeing

-----------------------------------------------------------------------------
(* What the steps do                                                       *)

tableAndLog == <<serverVars, table, captured, own, writes, faultVars>>

\* Where a load goes with nothing changed but what the client knows.
Ahead(f) ==
    /\ attempt' = 1 /\ answer' = 0
    /\ \/ pc' = "signers" /\ request' = Req("fund", 0)
       \/ pc' = "probe" /\ request' = Req("version", 0)
       \/ supported' = "no" /\ pc' = "bare" /\ request' = NoRequest
       \/ supported' = "yes" /\ table[f] = 0 /\ pc' = "refund" /\ request' = Req("fund", 0)
       \/ supported' = "yes" /\ table[f] # 0 /\ pc' = "revert" /\ request' = Req("revert", table[f])

\* Branch, and what is asked first, lead there.
LEMMA BranchAhead ==
    ASSUME NEW f \in FixtureFns, NEW s \in {"yes", "no"}, Branch(f, s), supported' = s
    PROVE  Ahead(f)
  <1>1. CASE s = "no"
    BY <1>1 DEF Branch, Ahead, Rest, Call
  <1>2. CASE s = "yes"
    BY <1>2 DEF Branch, Ahead, Call
  <1>3. QED
    BY <1>1, <1>2

LEMMA SignersAhead ==
    ASSUME NEW f \in FixtureFns, TypeOK, AfterSigners(f), supported' = supported
    PROVE  Ahead(f)
  <1>1. CASE supported = "unknown"
    BY <1>1 DEF AfterSigners, Ahead, Call
  <1>2. CASE supported # "unknown"
    BY <1>2, BranchAhead DEF AfterSigners, TypeOK
  <1>3. QED
    BY <1>1, <1>2

\* The steps up to the branch.
LEMMA LoadAhead ==
    ASSUME TypeOK, Control, (\E f \in FixtureFns : Load(f)) \/ SignersFunded \/ Probed
    PROVE  /\ loading' \in FixtureFns /\ Ahead(loading')
           /\ supported' \in {"unknown", "yes", "no"} /\ signersBuilt' \in BOOLEAN
           /\ UNCHANGED <<tableAndLog, patched, strays>>
  <1>1. ASSUME NEW f \in FixtureFns, Load(f)
        PROVE  /\ loading' = f /\ Ahead(f)
               /\ UNCHANGED <<tableAndLog, patched, strays, supported, signersBuilt>>
    <2>1. CASE signersBuilt
      BY <1>1, <2>1, SignersAhead DEF Load, tableVars, tableAndLog
    <2>2. CASE ~signersBuilt
      BY <1>1, <2>2 DEF Load, Ahead, Call, tableVars, tableAndLog
    <2>3. QED
      BY <2>1, <2>2
  <1>2. CASE SignersFunded
    <2>1. loading \in FixtureFns /\ loading' = loading
      BY <1>2 DEF SignersFunded, Answered, Control
    <2>2. QED
      BY <1>2, <2>1, SignersAhead DEF SignersFunded, TypeOK, tableAndLog
  <1>3. CASE Probed
    <2>1. loading \in FixtureFns /\ loading' = loading
      BY <1>3 DEF Probed, Answered, Control
    <2>2. supported' \in {"yes", "no"} /\ Branch(loading, supported')
      BY <1>3 DEF Probed
    <2>3. QED
      BY <1>3, <2>1, <2>2, BranchAhead DEF Probed, TypeOK, tableAndLog
  <1>4. QED
    BY <1>1, <1>2, <1>3 DEF TypeOK

\* What the node does with a request.
LEMMA ServeEffect ==
    ASSUME TypeOK, Ids, NEW r \in Strayable, Serve(r)
    PROVE  \/ log' = log /\ last' = last /\ state' = state
           \/ /\ r.op = "fund" /\ log' = log /\ last' = last
              /\ state' = [state EXCEPT !.signers = "full"]
           \/ /\ r.op = "snapshot" /\ state' = state /\ last < MaxIds /\ last' = last + 1
              /\ log' = log \cup {[id |-> last + 1, saved |-> state]}
           \/ /\ r.op = "revert" /\ last' = last
              /\ \E e \in log : e.id = r.id /\ state' = e.saved /\ log' = {d \in log : d.id < e.id}
           \/ /\ r.op = "drop" /\ state' = state /\ last' = last
              /\ \E e \in log : e.id = r.id /\ log' = log \ {e}
  BY DEF Serve, Server!Snapshot, Server!RevertTo, Server!DropEntry, Req, serverVars

\* A request that loadFixture may have made is one that may stray.
LEMMA AskedStrays ==
    ASSUME TypeOK, Ids, Control, Awaiting
    PROVE  /\ Asked \in Strayable /\ Asked # NoRequest
           /\ Asked.id <= last
  <1>1. loading \in FixtureFns /\ last \in Nat /\ MaxIds \in Nat
    BY BoundsAssumption DEF Control, Awaiting, TypeOK
  <1>2. CASE pc = "revert"
    <2>1. table[loading] \in 1..MaxIds /\ table[loading] <= last
      BY <1>1, <1>2 DEF Control, Ids, TypeOK
    <2>2. Asked = Req("revert", table[loading])
      BY <1>2 DEF Asked
    <2>3. QED
      BY <2>1, <2>2 DEF Strayable, Req, NoRequest
  <1>3. CASE pc # "revert"
    <2>1. Asked \in {Req("fund", 0), Req("version", 0), Req("snapshot", 0)}
      BY <1>3 DEF Asked, Awaiting
    <2>2. QED
      BY <1>1, <2>1 DEF Strayable, Req, NoRequest
  <1>4. QED
    BY <1>2, <1>3

\* What a write may leave.
LEMMA WriteEffect ==
    ASSUME TypeOK, WriteChain
    PROVE  /\ state' \in States /\ writes' \in Nat
           /\ log' = log /\ last' = last
  <1>1. PICK left \in {state.signers} \cup {"spent"} : state' = [ver |-> writes + 1, signers |-> left]
    BY DEF WriteChain
  <1>2. left \in {"none", "spent", "full"} /\ writes + 1 \in Nat
    BY <1>1 DEF TypeOK, States
  <1>3. QED
    BY <1>1, <1>2 DEF WriteChain, States, TypeOK

\* What a broken exchange changes.
LEMMA BreakEffect ==
    ASSUME TypeOK, Ids, Control, Retry \/ GiveUp
    PROVE  /\ UNCHANGED <<serverVars, patched, signersBuilt, table, captured, loading, own, writes, late>>
           /\ Awaiting /\ faults' = faults + 1 /\ answer' = 0 /\ attempt' \in {1, 2}
           /\ \/ strays' = strays
              \/ \E r \in Strayable : r = Asked /\ strays' = [strays EXCEPT ![r] = @ + 1]
           /\ \/ supported' = supported /\ pc' = pc /\ request' = Asked
              \/ pc = "probe" /\ supported' = "no" /\ pc' = "bare" /\ request' = NoRequest
              \/ supported' = supported /\ pc' = "threw" /\ request' = NoRequest
  <1>1. Break
    BY DEF Retry, GiveUp
  <1>2. \/ strays' = strays
        \/ \E r \in Strayable : r = Asked /\ strays' = [strays EXCEPT ![r] = @ + 1]
    BY <1>1, AskedStrays DEF Break, Forsake, Control
  <1>3. CASE Retry
    BY <1>1, <1>2, <1>3 DEF Retry, Break
  <1>4. CASE GiveUp /\ pc = "probe"
    BY <1>1, <1>2, <1>4 DEF GiveUp, Break, Branch, Rest, Call
  <1>5. CASE GiveUp /\ pc # "probe"
    BY <1>1, <1>2, <1>5 DEF GiveUp, Break, Rest, Call
  <1>6. QED
    BY <1>3, <1>4, <1>5

\* The states a node can be in after it served a request.
LEMMA ServeType ==
    ASSUME TypeOK, Ids, NEW r \in Strayable, Serve(r)
    PROVE  state' \in States /\ log' \subseteq Server!Entry /\ last' \in Nat
  <1>1. log \subseteq Server!Entry /\ state \in States /\ last \in Nat
    BY DEF TypeOK
  <1>2. [state EXCEPT !.signers = "full"] \in States
    BY <1>1 DEF States
  <1>3. [id |-> last + 1, saved |-> state] \in Server!Entry
    BY <1>1 DEF Server!Entry
  <1>4. \A e \in log : e.saved \in States
    BY <1>1 DEF Server!Entry
  <1>5. QED
    BY <1>1, <1>2, <1>3, <1>4, ServeEffect

LEMMA ReplyType ==
    ASSUME TypeOK, NEW r \in Strayable
    PROVE  Reply(r) \in Nat
  BY DEF TypeOK, Reply

LEMMA RequestStrays ==
    ASSUME TypeOK, Served
    PROVE  request \in Strayable
  BY DEF TypeOK, Served

-----------------------------------------------------------------------------
(* Every step keeps the invariant                                          *)

LEMMA InitIInv == Init => IInv
  <1> SUFFICES ASSUME Init PROVE IInv
    OBVIOUS
  <1>1. state \in States
    BY DEF Init, States
  <1>2. TypeOK
    BY <1>1 DEF Init, TypeOK, Resting
  <1>3. Ids /\ Control
    <2>1. MaxIds \in Nat
      BY BoundsAssumption
    <2>2. QED
      BY <2>1 DEF Init, Ids, Control, HasId
  <1>4. Fitting /\ Funded /\ Agreeing
    BY DEF Init, Fitting, Funded, Agreeing, Undoing, HasId
  <1>5. QED
    BY <1>2, <1>3, <1>4 DEF IInv

LEMMA TypeStep ==
    ASSUME TypeOK, Ids, Control, [Next]_vars
    PROVE  TypeOK'
  <1> USE DEF TypeOK
  <1>1. CASE (\E f \in FixtureFns : Load(f)) \/ SignersFunded \/ Probed
    <2>1. /\ loading' \in FixtureFns /\ Ahead(loading')
          /\ supported' \in {"unknown", "yes", "no"} /\ signersBuilt' \in BOOLEAN
          /\ UNCHANGED <<tableAndLog, patched, strays>>
      BY <1>1, LoadAhead
    <2>2. request' \in Strayable \cup {NoRequest}
      <3>1. table[loading'] \in 0..MaxIds
        BY <2>1, BoundsAssumption DEF Ids
      <3>2. QED
        BY <2>1, <3>1 DEF Ahead, Strayable
    <2>3. attempt' \in {1, 2} /\ answer' \in Nat /\ (Awaiting \/ pc \in {"fn", "bare"})'
      BY <2>1 DEF Ahead, Awaiting
    <2>4. QED
      BY <2>1, <2>2, <2>3 DEF tableAndLog, serverVars, faultVars
  <1>2. CASE Refunded
    BY <1>2 DEF Refunded, Rest, Call, serverVars, tableVars, faultVars
  <1>3. CASE RunFixture
    <2>1. state' \in States /\ writes' \in Nat /\ log' = log /\ last' = last
      BY <1>3, WriteEffect DEF RunFixture
    <2>2. captured' \in [FixtureFns -> States]
      BY <1>3, <2>1 DEF RunFixture
    <2>3. /\ attempt' \in {1, 2} /\ answer' \in Nat /\ (Resting \/ Awaiting)'
          /\ request' \in Strayable \cup {NoRequest}
      BY <1>3 DEF RunFixture, Rest, Call, Resting, Awaiting, Strayable
    <2>4. QED
      BY <1>3, <2>1, <2>2, <2>3 DEF RunFixture, faultVars
  <1>4. CASE SnapshotTaken
    BY <1>4 DEF SnapshotTaken, Rest, Call, Resting, serverVars, faultVars
  <1>5. CASE Reverted
    BY <1>5 DEF Reverted, Rest, Call, Resting, Awaiting, Strayable, serverVars, tableVars, faultVars
  <1>6. CASE Retaken
    <2>1. table' \in [FixtureFns -> Nat] /\ strays' \in [Strayable -> Nat]
      BY <1>6 DEF Retaken
    <2>2. QED
      BY <1>6, <2>1 DEF Retaken, Rest, Call, Resting, serverVars, faultVars
  <1>7. CASE Retry \/ GiveUp
    <2>1. strays' \in [Strayable -> Nat]
      BY <1>7, BreakEffect
    <2>2. request' \in Strayable \cup {NoRequest}
      BY <1>7, BreakEffect, AskedStrays
    <2>3. (Resting \/ Awaiting \/ pc \in {"fn", "bare"})'
      BY <1>7, BreakEffect DEF Resting, Awaiting
    <2>4. /\ UNCHANGED <<state, log, last, patched, signersBuilt, table, captured, loading, own, writes, late>>
          /\ faults' = faults + 1 /\ answer' = 0 /\ attempt' \in {1, 2} /\ supported' \in {supported, "no"}
      BY <1>7, BreakEffect DEF serverVars
    <2>5. QED
      BY <2>1, <2>2, <2>3, <2>4
  <1>8. CASE Served
    <2>1. state' \in States /\ log' \subseteq Server!Entry /\ last' \in Nat /\ answer' \in Nat
      BY <1>8, RequestStrays, ServeType, ReplyType DEF Served
    <2>2. QED
      BY <1>8, <2>1 DEF Served, tableVars, faultVars, Resting, Awaiting
  <1>9. ASSUME NEW r \in Strayable, StrayServed(r)
        PROVE  TypeOK'
    <2>1. state' \in States /\ log' \subseteq Server!Entry /\ last' \in Nat
      BY <1>9, ServeType DEF StrayServed
    <2>2. strays' \in [Strayable -> Nat]
      BY <1>9 DEF StrayServed
    <2>3. late' \subseteq {"fund", "revert"}
      <3>1. state' # state => r.op \in {"fund", "revert"}
        BY <1>9, ServeEffect DEF StrayServed
      <3>2. QED
        BY <1>9, <3>1 DEF StrayServed
    <2>4. QED
      BY <1>9, <2>1, <2>2, <2>3 DEF StrayServed, tableVars, rpcVars, Resting, Awaiting
  <1>10. ASSUME NEW r \in Strayable, StrayLost(r)
         PROVE  TypeOK'
    <2>1. strays' \in [Strayable -> Nat]
      BY <1>10 DEF StrayLost
    <2>2. QED
      BY <1>10, <2>1 DEF StrayLost, serverVars, tableVars, rpcVars, faultVars, Resting, Awaiting
  <1>11. CASE TestWrites
    <2>1. state' \in States /\ writes' \in Nat /\ log' = log /\ last' = last
      BY <1>11, WriteEffect DEF TestWrites
    <2>2. QED
      BY <1>11, <2>1 DEF TestWrites, Rest, Call, Resting, tableVars, faultVars
  <1>12. CASE TestSnapshots
    <2>1. last' = last + 1 /\ log' = log \cup {[id |-> last + 1, saved |-> state]} /\ state' = state
      BY <1>12 DEF TestSnapshots, Server!Snapshot
    <2>2. [id |-> last + 1, saved |-> state] \in Server!Entry
      BY DEF Server!Entry
    <2>3. QED
      BY <1>12, <2>1, <2>2 DEF TestSnapshots, Rest, Call, Resting, tableVars, faultVars
  <1>13. CASE TestReverts
    <2>1. state' \in States /\ log' \subseteq log /\ last' = last /\ own' \subseteq Nat
      BY <1>13 DEF TestReverts, Server!RevertTo, Server!Entry
    <2>2. QED
      BY <1>13, <2>1 DEF TestReverts, Rest, Call, Resting, tableVars, faultVars
  <1>14. CASE UNCHANGED vars
    BY <1>14 DEF vars, serverVars, tableVars, rpcVars, faultVars, Resting, Awaiting
  <1>15. QED
    BY <1>1, <1>2, <1>3, <1>4, <1>5, <1>6, <1>7, <1>8, <1>9, <1>10, <1>11, <1>12, <1>13, <1>14
       DEF Next

\* Whatever the node serves, ids stay in order.
LEMMA ServeIds ==
    ASSUME TypeOK, Ids, NEW r \in Strayable, Serve(r)
    PROVE  /\ last <= last' /\ last' <= MaxIds
           /\ \A e \in log' : e.id <= last'
           /\ \A d, e \in log' : d.id = e.id => d = e
  <1>1. /\ last \in Nat /\ last <= MaxIds /\ MaxIds \in Nat
        /\ \A e \in log : e.id \in Nat /\ e.id <= last
        /\ \A d, e \in log : d.id = e.id => d = e
    BY BoundsAssumption DEF TypeOK, Ids, Server!Entry
  <1>2. CASE log' \subseteq log /\ last' = last
    BY <1>1, <1>2
  <1>3. CASE last < MaxIds /\ last' = last + 1 /\ log' = log \cup {[id |-> last + 1, saved |-> state]}
    <2> DEFINE new == [id |-> last + 1, saved |-> state]
    <2>1. new.id = last + 1 /\ \A e \in log' : e \in log \/ e = new
      BY <1>3
    <2> HIDE DEF new
    <2>2. QED
      BY <1>1, <1>3, <2>1
  <1>4. QED
    BY <1>2, <1>3, ServeEffect

LEMMA IdsStep ==
    ASSUME TypeOK, Ids, Control, [Next]_vars
    PROVE  Ids'
  <1>1. TypeOK'
    BY TypeStep
  <1>2. CASE (\E f \in FixtureFns : Load(f)) \/ SignersFunded \/ Probed
    BY <1>2, LoadAhead DEF Ids, tableAndLog, serverVars
  <1>3. CASE Refunded \/ Reverted \/ UNCHANGED vars
    BY <1>3 DEF Refunded, Reverted, vars, Ids, serverVars, tableVars
  <1>4. CASE RunFixture \/ TestWrites
    <2>1. log' = log /\ last' = last /\ UNCHANGED <<table, strays, own>>
      BY <1>4, WriteEffect DEF RunFixture, TestWrites, tableVars
    <2>2. QED
      BY <2>1 DEF Ids
  <1>5. CASE SnapshotTaken \/ Retaken
    <2>1. HasId /\ loading \in FixtureFns /\ answer \in Nat /\ last \in Nat
      BY <1>5 DEF SnapshotTaken, Retaken, Answered, HasId, Control, TypeOK
    <2>2. answer <= last /\ \A f \in FixtureFns : table[f] < answer
      BY <2>1 DEF Control
    <2>3. table' \in [FixtureFns -> Nat] /\ table'[loading] = answer
      BY <1>1, <1>5, <2>1 DEF SnapshotTaken, Retaken, TypeOK
    <2>4. \A f \in FixtureFns \ {loading} : table'[f] \in {0, table[f]}
      BY <1>5, <2>1 DEF SnapshotTaken, Retaken, TypeOK
    <2>5. \A f \in FixtureFns : table[f] \in Nat /\ table'[f] \in Nat /\ table[f] <= last
      BY <2>3 DEF TypeOK, Ids
    <2>6. /\ \A f \in FixtureFns : table'[f] <= last
          /\ \A f, g \in FixtureFns : table'[f] = table'[g] /\ table'[f] # 0 => f = g
      <3>1. ASSUME NEW f \in FixtureFns PROVE table'[f] <= last
        BY <2>1, <2>2, <2>3, <2>4, <2>5
      <3>2. ASSUME NEW f \in FixtureFns, NEW g \in FixtureFns, table'[f] = table'[g], table'[f] # 0
            PROVE  f = g
        <4>1. CASE f = loading /\ g # loading
          BY <2>1, <2>2, <2>3, <2>4, <2>5, <3>2, <4>1
        <4>2. CASE g = loading /\ f # loading
          BY <2>1, <2>2, <2>3, <2>4, <2>5, <3>2, <4>2
        <4>3. CASE f # loading /\ g # loading
          BY <2>4, <3>2, <4>3 DEF Ids
        <4>4. QED
          BY <4>1, <4>2, <4>3
      <3>3. QED
        BY <3>1, <3>2
    <2>7. \A r \in Strayable : strays'[r] > 0 => r.id <= last
      <3>1. ASSUME NEW r \in Strayable, strays'[r] > 0 PROVE r.id <= last
        <4>1. CASE strays'[r] = strays[r]
          BY <3>1, <4>1 DEF Ids
        <4>2. CASE strays'[r] # strays[r]
          <5>1. Retaken
            BY <1>5, <4>2 DEF SnapshotTaken
          <5>2. \E g \in FixtureFns : r = Req("drop", table[g])
            BY <4>2, <5>1 DEF Retaken, EvictedBy
          <5>3. QED
            BY <2>5, <5>2 DEF Req
        <4>3. QED
          BY <4>1, <4>2
      <3>2. QED
        BY <3>1
    <2>8. QED
      BY <1>5, <2>6, <2>7 DEF SnapshotTaken, Retaken, Ids, serverVars
  <1>6. CASE Retry \/ GiveUp
    <2>1. UNCHANGED <<log, last, table, own>> /\ Awaiting
      BY <1>6, BreakEffect DEF serverVars
    <2>2. \A r \in Strayable : strays'[r] > 0 => r.id <= last
      BY <1>6, <2>1, BreakEffect, AskedStrays DEF Ids, TypeOK
    <2>3. QED
      BY <2>1, <2>2 DEF Ids
  <1>7. ASSUME NEW r \in Strayable, Serve(r), UNCHANGED <<table, own>>,
               strays' = strays \/ strays' = [strays EXCEPT ![r] = @ - 1]
        PROVE  Ids'
    <2>1. /\ last <= last' /\ last' <= MaxIds
          /\ \A e \in log' : e.id <= last'
          /\ \A d, e \in log' : d.id = e.id => d = e
      BY <1>7, ServeIds
    <2>2. last \in Nat /\ last' \in Nat /\ \A q \in Strayable : strays[q] \in Nat /\ q.id \in Nat
      BY <1>1 DEF TypeOK, Strayable, Req
    <2>3. \A q \in Strayable : strays'[q] > 0 => strays[q] > 0
      BY <1>7, <2>2 DEF TypeOK
    <2>4. \A f \in FixtureFns : table[f] \in Nat
      BY DEF TypeOK
    <2>5. \A i \in own : i \in Nat
      BY DEF TypeOK
    <2>6. QED
      BY <1>7, <2>1, <2>2, <2>3, <2>4, <2>5 DEF Ids
  <1>8. CASE Served
    BY <1>7, <1>8, RequestStrays DEF Served, tableVars
  <1>9. ASSUME NEW r \in Strayable, StrayServed(r)
        PROVE  Ids'
    BY <1>7, <1>9 DEF StrayServed, tableVars
  <1>10. ASSUME NEW r \in Strayable, StrayLost(r)
         PROVE  Ids'
    <2>1. \A q \in Strayable : strays'[q] > 0 => strays[q] > 0
      BY <1>10 DEF StrayLost, TypeOK
    <2>2. QED
      BY <1>10, <2>1 DEF StrayLost, Ids, serverVars, tableVars
  <1>11. CASE TestSnapshots
    <2>1. last < MaxIds /\ UNCHANGED <<table, strays>> /\ own' = own \cup {last + 1} /\ Server!Snapshot
      BY <1>11 DEF TestSnapshots, tableVars
    <2>2. Serve(Req("snapshot", 0))
      BY <2>1 DEF Serve, Req
    <2>3. /\ last <= last' /\ last' <= MaxIds
          /\ \A e \in log' : e.id <= last'
          /\ \A d, e \in log' : d.id = e.id => d = e
      BY <2>2, ServeIds DEF Strayable
    <2>4. last' = last + 1 /\ last \in Nat /\ \A i \in own : i \in Nat
      BY <2>1 DEF Server!Snapshot, TypeOK
    <2>5. \A f \in FixtureFns : table[f] \in Nat
      BY DEF TypeOK
    <2>6. \A q \in Strayable : q.id \in Nat
      BY DEF Strayable, Req
    <2>7. QED
      BY <2>1, <2>3, <2>4, <2>5, <2>6 DEF Ids
  <1>12. CASE TestReverts
    BY <1>12 DEF TestReverts, Server!RevertTo, Ids, tableVars
  <1>13. QED
    BY <1>2, <1>3, <1>4, <1>5, <1>6, <1>8, <1>9, <1>10, <1>11, <1>12 DEF Next

\* What an answered request leaves a load with.
LEMMA AnswerEffect ==
    ASSUME TypeOK, Ids, Control, Served
    PROVE  /\ Awaiting /\ request = Asked /\ request \in Strayable /\ Serve(request)
           /\ request' = NoRequest /\ pc' = pc /\ loading' = loading
           /\ pc \in {"take", "retake"} =>
                 /\ answer' = last + 1 /\ last' = last + 1 /\ state' = state
                 /\ log' = log \cup {[id |-> last + 1, saved |-> state]}
           /\ pc \notin {"take", "retake"} => last' = last
  <1>1. /\ Awaiting /\ request = Asked /\ request \in Strayable /\ Serve(request)
        /\ request' = NoRequest /\ pc' = pc /\ loading' = loading
    BY RequestStrays DEF Served, Control
  <1>2. CASE pc \in {"take", "retake"}
    <2>1. request = Req("snapshot", 0)
      BY <1>1, <1>2 DEF Asked
    <2>2. request.op = "snapshot" /\ \A i : request # Req("revert", i) /\ request # Req("drop", i)
      BY <2>1 DEF Req
    <2>3. Server!Snapshot
      BY <1>1, <2>2 DEF Serve
    <2>4. answer' = last + 1
      <3>1. answer' = Reply(request)
        BY DEF Served
      <3>2. Reply(request) = last + 1
        BY <2>2 DEF Reply
      <3>3. QED
        BY <3>1, <3>2
    <2>5. QED
      BY <1>1, <1>2, <2>3, <2>4 DEF Server!Snapshot
  <1>3. CASE pc \notin {"take", "retake"}
    <2>1. request.op # "snapshot"
      BY <1>1, <1>3 DEF Asked, Awaiting, Req
    <2>2. QED
      BY <1>1, <1>3, <2>1, ServeEffect
  <1>4. QED
    BY <1>2, <1>3

\* Where loadFixture is, seen from the next state, when neither it nor the
\* table moves.
LEMMA ControlKept ==
    ASSUME TypeOK, TypeOK', Control, last' >= last, UNCHANGED <<supported, table, loading, pc, request, answer>>
    PROVE  Control'
  <1>1. last \in Nat /\ last' \in Nat /\ answer \in Nat
    BY DEF TypeOK
  <1>2. HasId' = HasId /\ Asked' = Asked /\ Awaiting' = Awaiting
    BY DEF HasId, Asked, Awaiting
  <1>3. QED
    BY <1>1, <1>2 DEF Control

LEMMA ControlStep ==
    ASSUME TypeOK, Ids, Control, [Next]_vars
    PROVE  Control'
  <1>1. TypeOK' /\ Ids'
    BY TypeStep, IdsStep
  <1>2. CASE (\E f \in FixtureFns : Load(f)) \/ SignersFunded \/ Probed
    <2>1. loading' \in FixtureFns /\ Ahead(loading') /\ table' = table
      BY <1>2, LoadAhead DEF tableAndLog
    <2>2. request' # NoRequest => Awaiting' /\ request' = Asked'
      BY <2>1 DEF Ahead, Awaiting, Asked, Req
    <2>3. pc' \notin {"take", "retake", "fn"}
      BY <2>1 DEF Ahead
    <2>4. /\ pc' = "refund" => supported' = "yes" /\ table[loading'] = 0
          /\ pc' = "revert" => supported' = "yes" /\ table[loading'] # 0
          /\ pc' = "bare" => supported' = "no"
      BY <2>1 DEF Ahead
    <2>5. QED
      BY <2>1, <2>2, <2>3, <2>4 DEF Control, HasId
  <1>3. CASE Refunded \/ RunFixture \/ Reverted
    <2>1. /\ pc \in {"refund", "fn", "bare", "revert"} /\ UNCHANGED <<supported, table, loading>>
          /\ \/ pc = "refund" /\ pc' = "fn" /\ request' = NoRequest
             \/ pc = "fn" /\ pc' = "take" /\ request' = Req("snapshot", 0)
             \/ pc = "revert" /\ pc' = "retake" /\ request' = Req("snapshot", 0)
             \/ pc' \in {"returned", "threw"} /\ request' = NoRequest
      BY <1>3 DEF Refunded, RunFixture, Reverted, Answered, Rest, Call, tableVars
    <2>2. request' # NoRequest => Awaiting' /\ request' = Asked'
      BY <2>1 DEF Awaiting, Asked
    <2>3. ~HasId'
      BY <2>1 DEF HasId, Req, NoRequest
    <2>4. QED
      BY <2>1, <2>2, <2>3 DEF Control
  <1>4. CASE SnapshotTaken \/ Retaken \/ TestWrites \/ TestSnapshots \/ TestReverts
    <2>1. /\ pc' \in {"idle", "returned"} /\ request' = NoRequest /\ loading' = loading
          /\ (pc' = "idle" \/ pc \in {"take", "retake"})
      BY <1>4 DEF SnapshotTaken, Retaken, TestWrites, TestSnapshots, TestReverts, Answered, Rest, Call
    <2>2. QED
      BY <2>1 DEF Control, HasId
  <1>5. CASE Retry \/ GiveUp
    <2>1. /\ Awaiting /\ UNCHANGED <<table, loading>> /\ Asked # NoRequest
          /\ \/ supported' = supported /\ pc' = pc /\ request' = Asked
             \/ pc = "probe" /\ supported' = "no" /\ pc' = "bare" /\ request' = NoRequest
             \/ supported' = supported /\ pc' = "threw" /\ request' = NoRequest
      BY <1>5, BreakEffect, AskedStrays
    <2>2. request' # NoRequest => Awaiting' /\ request' = Asked'
      BY <2>1 DEF Awaiting, Asked
    <2>3. ~HasId'
      BY <2>1 DEF HasId
    <2>4. QED
      BY <2>1, <2>2, <2>3 DEF Control, Awaiting
  <1>6. CASE Served
    <2>1. /\ Awaiting /\ request' = NoRequest /\ UNCHANGED <<supported, table, loading, pc>>
          /\ pc \in {"take", "retake"} => answer' = last + 1 /\ last' = last + 1
      BY <1>6, AnswerEffect DEF Served, tableVars
    <2>2. HasId' => answer' <= last' /\ \A f \in FixtureFns : table'[f] < answer'
      <3>1. last \in Nat /\ \A f \in FixtureFns : table[f] \in Nat /\ table[f] <= last
        BY DEF TypeOK, Ids
      <3>2. QED
        BY <2>1, <3>1 DEF HasId
    <2>3. QED
      BY <2>1, <2>2 DEF Control
  <1>7. ASSUME NEW r \in Strayable, StrayServed(r)
        PROVE  Control'
    <2>1. last' >= last
      BY <1>1, <1>7, ServeIds DEF StrayServed, TypeOK
    <2>2. QED
      BY <1>1, <1>7, <2>1, ControlKept DEF StrayServed, tableVars, rpcVars
  <1>8. ASSUME NEW r \in Strayable, StrayLost(r)
        PROVE  Control'
    <2>1. last' >= last
      BY <1>8 DEF StrayLost, TypeOK, serverVars
    <2>2. QED
      BY <1>1, <1>8, <2>1, ControlKept DEF StrayLost, tableVars, rpcVars
  <1>9. CASE UNCHANGED vars
    <2>1. last' >= last
      BY <1>9 DEF vars, TypeOK, serverVars
    <2>2. QED
      BY <1>1, <1>9, <2>1, ControlKept DEF vars, tableVars, rpcVars
  <1>10. QED
    BY <1>2, <1>3, <1>4, <1>5, <1>6, <1>7, <1>8, <1>9 DEF Next

-----------------------------------------------------------------------------
(* What a load leaves is what its fixture left                             *)

\* A step that moves neither the load nor the table, and changes the chain
\* only by a late funding, keeps Fitting.
LEMMA FittingKept ==
    ASSUME TypeOK, Ids, Control, Fitting,
           UNCHANGED <<supported, table, captured, loading, pc, request, answer>>,
           late \subseteq late',
           state' = state \/ (late' # {} /\ state'.ver = state.ver),
           \A e \in log' : e \in log \/ e.id = last + 1
    PROVE  Fitting'
  <1> SUFFICES ASSUME "revert" \notin late'
               PROVE  /\ \A f \in FixtureFns, e \in log' : e.id = table[f] => Fits(e.saved, f)'
                      /\ pc \in {"take", "retake"} => Fits(state, loading)'
                      /\ pc = "revert" /\ request = NoRequest /\ answer = 1 => Fits(state, loading)'
                      /\ pc = "returned" /\ supported = "yes" => Fits(state, loading)'
                      /\ HasId => \A e \in log' : e.id = answer => Fits(e.saved, loading)'
    BY DEF Fitting, HasId
  <1>1. "revert" \notin late
    OBVIOUS
  <1>2. \A f : Fits(state, f) => Fits(state, f)'
    BY DEF Fits
  <1>3. \A e, f : Fits(e.saved, f) => Fits(e.saved, f)'
    BY DEF Fits
  <1>4. /\ \A f \in FixtureFns, e \in log' : e.id = table[f] => e \in log
        /\ HasId => \A e \in log' : e.id = answer => e \in log
    <2>1. last \in Nat /\ answer \in Nat /\ \A f \in FixtureFns : table[f] \in Nat /\ table[f] <= last
      BY DEF TypeOK, Ids
    <2>2. HasId => answer <= last
      BY DEF Control
    <2>3. QED
      BY <2>1, <2>2
  <1>5. QED
    BY <1>1, <1>2, <1>3, <1>4 DEF Fitting

LEMMA FittingStep ==
    ASSUME TypeOK, Ids, Control, Fitting, [Next]_vars
    PROVE  Fitting'
  <1>1. \A f \in FixtureFns : table[f] \in Nat /\ table[f] <= last
    BY DEF TypeOK, Ids
  <1>2. \A e \in log : e.id \in Nat \ {0}
    BY DEF TypeOK, Server!Entry
  <1>3. last \in Nat
    BY DEF TypeOK
  <1>4. CASE (\E f \in FixtureFns : Load(f)) \/ SignersFunded \/ Probed
    <2>1. Ahead(loading') /\ UNCHANGED <<table, captured, log, late>>
      BY <1>4, LoadAhead DEF tableAndLog, serverVars, faultVars
    <2>2. pc' \notin {"take", "retake", "returned"} /\ ~(pc' = "revert" /\ request' = NoRequest)
      BY <2>1 DEF Ahead, Req, NoRequest
    <2>3. QED
      BY <2>1, <2>2 DEF Fitting, Fits, HasId
  <1>5. CASE Refunded
    BY <1>5 DEF Refunded, Rest, Call, Fitting, Fits, HasId, serverVars, tableVars, faultVars
  <1>6. CASE RunFixture
    <2>1. log' = log /\ UNCHANGED <<table, supported, late, loading>> /\ loading \in FixtureFns
      BY <1>6, WriteEffect DEF RunFixture, faultVars, Control
    <2>2. CASE pc = "fn" /\ pc' = "take"
      <3>1. captured' = [captured EXCEPT ![loading] = state'] /\ request' = Req("snapshot", 0)
        BY <1>6, <2>2 DEF RunFixture, Call, Rest
      <3>2. captured'[loading] = state' /\ \A f \in FixtureFns \ {loading} : captured'[f] = captured[f]
        BY <2>1, <3>1 DEF TypeOK
      <3>3. table[loading] = 0
        BY <2>2 DEF Control
      <3>4. ~HasId' /\ request' # NoRequest
        BY <3>1 DEF HasId, Req, NoRequest
      <3>5. QED
        BY <1>2, <2>1, <2>2, <3>2, <3>3, <3>4 DEF Fitting, Fits
    <2>3. CASE pc' # "take"
      <3>1. captured' = captured /\ (pc' = "threw" \/ (pc' = "returned" /\ supported = "no"))
        BY <1>6, <2>3 DEF RunFixture, Call, Rest, Control
      <3>2. QED
        BY <2>1, <3>1 DEF Fitting, Fits, HasId
    <2>4. QED
      BY <1>6, <2>2, <2>3 DEF RunFixture, Rest, Call
  <1>7. CASE SnapshotTaken \/ Retaken
    <2>1. /\ HasId /\ loading \in FixtureFns /\ pc' = "returned"
          /\ UNCHANGED <<log, state, late, captured, loading>>
      BY <1>7 DEF SnapshotTaken, Retaken, Answered, HasId, Control, Rest, Call, serverVars, faultVars
    <2>2. table'[loading] = answer /\ \A f \in FixtureFns \ {loading} : table'[f] \in {0, table[f]}
      BY <1>7, <2>1 DEF SnapshotTaken, Retaken, TypeOK
    <2>3. pc \in {"take", "retake"}
      BY <2>1 DEF HasId
    <2>4. QED
      BY <1>2, <2>1, <2>2, <2>3 DEF Fitting, Fits, HasId
  <1>8. CASE Reverted
    <2>1. UNCHANGED <<log, state, late, captured, loading, table>> /\ pc = "revert" /\ request = NoRequest
      BY <1>8 DEF Reverted, Answered, serverVars, tableVars, faultVars
    <2>2. /\ (answer = 1 /\ pc' = "retake") \/ pc' = "threw"
          /\ pc' = "retake" => request' # NoRequest
      BY <1>8 DEF Reverted, Rest, Call, Req, NoRequest
    <2>3. QED
      BY <2>1, <2>2 DEF Fitting, Fits, HasId
  <1>9. CASE Retry \/ GiveUp
    <2>1. UNCHANGED <<log, state, late, captured, loading, table>> /\ Awaiting /\ Asked # NoRequest
      BY <1>9, BreakEffect, AskedStrays DEF serverVars
    <2>2. (pc' = pc /\ request' # NoRequest) \/ pc' \in {"bare", "threw"}
      BY <1>9, <2>1, BreakEffect
    <2>3. QED
      BY <2>1, <2>2 DEF Fitting, Fits, HasId, Awaiting
  <1>10. CASE Served
    <2>1. /\ Awaiting /\ request = Asked /\ request \in Strayable /\ Serve(request)
          /\ request' = NoRequest /\ UNCHANGED <<pc, loading, table, captured, late, supported>>
      BY <1>10, AnswerEffect DEF Served, tableVars, faultVars
    <2>2. CASE pc \in {"take", "retake"}
      <3>1. /\ answer' = last + 1 /\ state' = state
            /\ log' = log \cup {[id |-> last + 1, saved |-> state]}
        BY <1>10, <2>2, AnswerEffect
      <3>2. \A e \in log' : e \in log \/ (e.id = last + 1 /\ e.saved = state)
        BY <3>1
      <3>3. \A e \in log : e.id # last + 1
        BY <1>2, <1>3 DEF Ids
      <3>4. QED
        BY <1>1, <1>3, <2>1, <2>2, <3>1, <3>2, <3>3 DEF Fitting, Fits
    <2>3. CASE pc = "revert"
      <3>1. request = Req("revert", table[loading]) /\ request.op = "revert" /\ request.id = table[loading]
        BY <2>1, <2>3 DEF Asked, Req
      <3>2. loading \in FixtureFns
        BY <2>3 DEF Control
      <3>3. answer' = 1 => Live(table[loading])
        <4>1. answer' = Reply(request)
          BY <1>10 DEF Served
        <4>2. Reply(request) = IF Live(request.id) THEN 1 ELSE 0
          BY <3>1 DEF Reply
        <4>3. QED
          BY <3>1, <4>1, <4>2
      <3>4. log' \subseteq log
        BY <2>1, <3>1, ServeEffect
      <3>5. Live(table[loading]) => \E e \in log : e.id = table[loading] /\ state' = e.saved
        <4>1. ~(request.op \in {"fund", "version", "snapshot"}) /\ \A i : request # Req("drop", i)
          BY <3>1 DEF Req
        <4>2. \A i : request = Req("revert", i) => i = table[loading]
          BY <3>1 DEF Req
        <4>3. Live(table[loading]) => \E e \in log : request = Req("revert", e.id) /\ Server!RevertTo(e)
          BY <2>1, <3>1, <4>1 DEF Serve
        <4>4. QED
          BY <4>2, <4>3 DEF Server!RevertTo
      <3>6. "revert" \notin late => \A e \in log' : \A f \in FixtureFns : e.id = table[f] => Fits(e.saved, f)
        BY <3>4 DEF Fitting
      <3>7. "revert" \notin late /\ answer' = 1 => Fits(state', loading)
        BY <3>2, <3>3, <3>5 DEF Fitting
      <3>8. QED
        BY <2>1, <2>3, <3>6, <3>7 DEF Fitting, Fits, HasId
    <2>4. CASE pc \in {"signers", "probe", "refund"}
      <3>1. request.op \in {"fund", "version"}
        BY <2>1, <2>4 DEF Asked, Req
      <3>2. log' = log
        BY <2>1, <3>1, ServeEffect
      <3>3. QED
        BY <2>1, <2>4, <3>2 DEF Fitting, Fits, HasId
    <2>5. QED
      BY <2>1, <2>2, <2>3, <2>4 DEF Awaiting
  <1>11. ASSUME NEW r \in Strayable, StrayServed(r)
         PROVE  Fitting'
    <2>1. /\ UNCHANGED <<supported, table, captured, loading, pc, request, answer>>
          /\ late' = IF state' = state THEN late ELSE late \cup {r.op}
      BY <1>11 DEF StrayServed, tableVars, rpcVars
    <2>2. CASE r.op = "revert" /\ state' # state
      BY <2>1, <2>2 DEF Fitting
    <2>3. CASE ~(r.op = "revert" /\ state' # state)
      <3>1. \A e \in log' : e \in log \/ e.id = last + 1
        BY <1>11, ServeEffect DEF StrayServed
      <3>2. [state EXCEPT !.signers = "full"].ver = state.ver
        BY DEF TypeOK, States
      <3>3. state' = state \/ (late' # {} /\ state'.ver = state.ver)
        BY <1>11, <2>1, <2>3, <3>2, ServeEffect DEF StrayServed
      <3>4. QED
        BY <2>1, <3>1, <3>3, FittingKept
    <2>4. QED
      BY <2>2, <2>3
  <1>12. ASSUME NEW r \in Strayable, StrayLost(r)
         PROVE  Fitting'
    BY <1>12, FittingKept DEF StrayLost, serverVars, tableVars, rpcVars, faultVars
  <1>13. CASE UNCHANGED vars
    BY <1>13, FittingKept DEF vars, serverVars, tableVars, rpcVars, faultVars
  <1>14. CASE TestWrites \/ TestSnapshots \/ TestReverts
    <2>1. UNCHANGED <<table, captured, late, loading>> /\ pc' = "idle"
      BY <1>14 DEF TestWrites, TestSnapshots, TestReverts, Rest, Call, tableVars, faultVars
    <2>2. \A e \in log' : e \in log \/ e.id = last + 1
      BY <1>14 DEF TestWrites, TestSnapshots, TestReverts, WriteChain, Server!Snapshot, Server!RevertTo
    <2>3. QED
      BY <1>1, <1>3, <2>1, <2>2 DEF Fitting, Fits, HasId
  <1>15. QED
    BY <1>4, <1>5, <1>6, <1>7, <1>8, <1>9, <1>10, <1>11, <1>12, <1>13, <1>14 DEF Next

LEMMA FundedStep ==
    ASSUME TypeOK, Ids, Control, Funded, [Next]_vars
    PROVE  Funded'
  <1>1. CASE (\E f \in FixtureFns : Load(f)) \/ SignersFunded \/ Probed
    <2>1. Ahead(loading')
      BY <1>1, LoadAhead
    <2>2. pc' # "fn" /\ ~(pc' = "refund" /\ request' = NoRequest)
      BY <2>1 DEF Ahead, Req, NoRequest
    <2>3. QED
      BY <2>2 DEF Funded
  <1>2. CASE Refunded
    BY <1>2 DEF Refunded, Answered, Funded, serverVars, faultVars
  <1>3. CASE \/ RunFixture \/ SnapshotTaken \/ Reverted \/ Retaken
             \/ TestWrites \/ TestSnapshots \/ TestReverts
    BY <1>3 DEF RunFixture, SnapshotTaken, Reverted, Retaken, TestWrites, TestSnapshots, TestReverts,
                Rest, Call, Funded
  <1>4. CASE Retry \/ GiveUp
    <2>1. Awaiting /\ Asked # NoRequest
      BY <1>4, BreakEffect, AskedStrays
    <2>2. (pc' = pc /\ request' # NoRequest) \/ pc' \in {"bare", "threw"}
      BY <1>4, <2>1, BreakEffect
    <2>3. QED
      BY <2>1, <2>2 DEF Funded, Awaiting
  <1>5. CASE Served
    <2>1. /\ Awaiting /\ request = Asked /\ Serve(request) /\ pc' = pc
      BY <1>5, AnswerEffect
    <2>2. CASE pc = "refund"
      <3>1. request.op = "fund"
        BY <2>1, <2>2 DEF Asked, Req
      <3>2. state' = [state EXCEPT !.signers = "full"]
        BY <2>1, <3>1 DEF Serve, Req
      <3>3. QED
        BY <3>2 DEF Funded, TypeOK, States
    <2>3. QED
      BY <2>1, <2>2 DEF Funded, Awaiting
  <1>6. ASSUME NEW r \in Strayable, StrayServed(r)
        PROVE  Funded'
    <2>1. late' = IF state' = state THEN late ELSE late \cup {r.op}
      BY <1>6 DEF StrayServed
    <2>2. state' = state \/ state' = [state EXCEPT !.signers = "full"] \/ r.op = "revert"
      BY <1>6, ServeEffect DEF StrayServed
    <2>3. [state EXCEPT !.signers = "full"].signers = "full"
      BY DEF TypeOK, States
    <2>4. QED
      BY <1>6, <2>1, <2>2, <2>3 DEF StrayServed, rpcVars, Funded
  <1>7. ASSUME NEW r \in Strayable, StrayLost(r)
        PROVE  Funded'
    BY <1>7 DEF StrayLost, Funded, serverVars, rpcVars, faultVars
  <1>8. CASE UNCHANGED vars
    BY <1>8 DEF vars, Funded, serverVars, rpcVars, faultVars
  <1>9. QED
    BY <1>1, <1>2, <1>3, <1>4, <1>5, <1>6, <1>7, <1>8 DEF Next

-----------------------------------------------------------------------------
(* While the node answers, table and log agree                             *)

\* A step that changes nothing of table, log and load, but for requests under
\* way that are lost, keeps Agreeing.
LEMMA AgreeingKept ==
    ASSUME TypeOK, TypeOK', Agreeing,
           UNCHANGED <<log, table, captured, own, late, faults, loading, pc, request, answer>>,
           \A r \in Strayable : strays'[r] > 0 => strays[r] > 0
    PROVE  Agreeing'
  <1>1. Undoing' = Undoing /\ HasId' = HasId /\ \A i : Live(i)' = Live(i)
    BY DEF Undoing, HasId, Live
  <1>2. QED
    BY <1>1 DEF Agreeing

\* So does a step between two places of a load where it neither undoes entries
\* nor holds an id.
LEMMA AgreeingMoved ==
    ASSUME Agreeing, UNCHANGED <<log, table, own, late, faults, strays>>,
           ~Undoing, ~HasId, ~Undoing', ~HasId',
           \A f \in FixtureFns : table[f] # 0 => captured'[f] = captured[f]
    PROVE  Agreeing'
  <1>1. \A i : Live(i)' = Live(i)
    BY DEF Live
  <1>2. ~(pc' = "revert" /\ request' = NoRequest)
    BY DEF Undoing
  <1>3. QED
    BY <1>1, <1>2 DEF Agreeing

LEMMA AgreeingStep ==
    ASSUME IInv, [Next]_vars
    PROVE  Agreeing'
  <1>a. TypeOK /\ Ids /\ Control /\ Fitting /\ Agreeing
    BY DEF IInv
  <1>b. TypeOK'
    BY <1>a, TypeStep
  <1>1. last \in Nat /\ \A f \in FixtureFns : table[f] \in Nat /\ table[f] <= last
    BY <1>a DEF TypeOK, Ids
  <1>2. \A e \in log : e.id \in Nat \ {0} /\ e.id <= last
    BY <1>a DEF TypeOK, Ids, Server!Entry
  <1>3. \A r \in Strayable : strays[r] > 0 => r.id <= last /\ r.id \in Nat
    BY <1>a DEF Ids, Strayable, Req
  <1>4. CASE (\E f \in FixtureFns : Load(f)) \/ SignersFunded \/ Probed
    <2>1. /\ Ahead(loading')
          /\ UNCHANGED <<log, table, own, late, faults, strays, captured>>
      BY <1>a, <1>4, LoadAhead DEF tableAndLog, serverVars, faultVars
    <2>2. ~Undoing' /\ ~HasId'
      BY <2>1 DEF Ahead, Undoing, HasId, Req, NoRequest
    <2>3. ~Undoing /\ ~HasId
      BY <1>4 DEF Load, SignersFunded, Probed, Resting, Answered, Undoing, HasId
    <2>4. QED
      BY <1>a, <2>1, <2>2, <2>3, AgreeingMoved
  <1>5. CASE Refunded
    BY <1>a, <1>5, AgreeingMoved
       DEF Refunded, Answered, Rest, Call, Undoing, HasId, serverVars, tableVars, faultVars
  <1>6. CASE RunFixture
    <2>1. /\ UNCHANGED <<log, table, own, late, faults, strays>> /\ pc \in {"fn", "bare"}
          /\ pc' \in {"take", "returned", "threw"} /\ (pc' = "take" => request' # NoRequest)
      BY <1>a, <1>6, WriteEffect DEF RunFixture, Rest, Call, Req, NoRequest, faultVars
    <2>2. ~Undoing /\ ~HasId /\ ~Undoing' /\ ~HasId'
      BY <2>1 DEF Undoing, HasId
    <2>3. \A f \in FixtureFns : table[f] # 0 => captured'[f] = captured[f]
      BY <1>a, <1>6 DEF RunFixture, Control, TypeOK
    <2>4. QED
      BY <1>a, <2>1, <2>2, <2>3, AgreeingMoved
  <1>7. CASE Retry \/ GiveUp
    <2>1. faults' # 0
      BY <1>a, <1>7, BreakEffect DEF TypeOK
    <2>2. QED
      BY <2>1 DEF Agreeing
  <1>8. ASSUME NEW r \in Strayable, StrayLost(r)
        PROVE  Agreeing'
    <2>1. \A q \in Strayable : strays'[q] > 0 => strays[q] > 0
      BY <1>a, <1>8 DEF StrayLost, TypeOK
    <2>2. QED
      BY <1>a, <1>b, <1>8, <2>1, AgreeingKept DEF StrayLost, serverVars, tableVars, rpcVars, faultVars
  <1>9. CASE UNCHANGED vars
    BY <1>a, <1>b, <1>9, AgreeingKept DEF vars, serverVars, tableVars, rpcVars, faultVars
  <1>10. ASSUME NEW r \in Strayable, StrayServed(r)
         PROVE  Agreeing'
    <2>1. SUFFICES ASSUME faults' = 0 PROVE Agreeing'
      BY DEF Agreeing
    <2>2. faults = 0 /\ strays[r] > 0
      BY <1>10, <2>1 DEF StrayServed
    <2>3. r.op = "drop" /\ ~Live(r.id)
      BY <1>a, <2>2 DEF Agreeing
    <2>4. log' = log /\ state' = state
      BY <1>a, <1>10, <2>3, ServeEffect DEF StrayServed, Live
    <2>5. \A q \in Strayable : strays'[q] > 0 => strays[q] > 0
      BY <1>a, <1>10 DEF StrayServed, TypeOK
    <2>6. QED
      BY <1>a, <1>b, <1>10, <2>4, <2>5, AgreeingKept DEF StrayServed, tableVars, rpcVars
  <1>11. CASE TestWrites
    <2>1. UNCHANGED <<log, table, captured, own, late, faults, strays>>
      BY <1>a, <1>11, WriteEffect DEF TestWrites, tableVars, faultVars
    <2>2. QED
      BY <1>a, <1>11, <2>1, AgreeingMoved DEF TestWrites, Resting, Rest, Call, Undoing, HasId
  <1>12. CASE TestSnapshots
    <2>1. /\ log' = log \cup {[id |-> last + 1, saved |-> state]} /\ own' = own \cup {last + 1}
          /\ UNCHANGED <<table, captured, late, faults, strays>> /\ Resting /\ pc' = "idle"
      BY <1>12 DEF TestSnapshots, Server!Snapshot, Rest, Call, tableVars, faultVars
    <2>2. ~Undoing /\ ~HasId /\ ~Undoing' /\ ~HasId' /\ ~(pc' = "revert" /\ request' = NoRequest)
      BY <2>1 DEF Resting, Undoing, HasId
    <2>3. \A e \in log' : e \in log \/ e.id = last + 1
      BY <2>1
    <2>4. \A r \in Strayable : strays[r] > 0 /\ ~Live(r.id) => ~Live(r.id)'
      BY <1>1, <1>3, <2>3 DEF Live
    <2>5. QED
      BY <1>a, <2>1, <2>2, <2>3, <2>4 DEF Agreeing
  <1>13. CASE TestReverts
    <2>1. PICK e \in log : /\ \A f \in FixtureFns : table[f] < e.id
                           /\ log' = {d \in log : d.id < e.id}
                           /\ own' = {i \in own : i < e.id}
      BY <1>13 DEF TestReverts, Server!RevertTo
    <2>2. UNCHANGED <<table, captured, late, faults, strays>> /\ Resting /\ pc' = "idle"
      BY <1>13 DEF TestReverts, Rest, Call, tableVars, faultVars
    <2>3. ~Undoing /\ ~HasId /\ ~Undoing' /\ ~HasId' /\ ~(pc' = "revert" /\ request' = NoRequest)
      BY <2>2 DEF Resting, Undoing, HasId
    <2>4. \A i : ~Live(i) => ~Live(i)'
      BY <2>1 DEF Live
    <2>5. \A f \in FixtureFns : [id |-> table[f], saved |-> captured[f]] \in log
              => [id |-> table[f], saved |-> captured[f]] \in log'
      BY <2>1
    <2>6. \A d \in log' : d \in log /\ (d.id \in own => d.id \in own')
      BY <2>1
    <2>7. QED
      BY <1>a, <2>2, <2>3, <2>4, <2>5, <2>6 DEF Agreeing
  <1>14. CASE SnapshotTaken
    <2>1. /\ HasId /\ ~Undoing /\ loading \in FixtureFns
          /\ UNCHANGED <<log, captured, own, late, faults, strays>>
      BY <1>a, <1>14 DEF SnapshotTaken, Answered, HasId, Undoing, Control, serverVars, faultVars
    <2>2. ~Undoing' /\ ~HasId' /\ ~(pc' = "revert" /\ request' = NoRequest)
      BY <1>14 DEF SnapshotTaken, Rest, Call, Undoing, HasId
    <2>3. table[loading] = 0 /\ table'[loading] = answer /\ \A f \in FixtureFns \ {loading} : table'[f] = table[f]
      BY <1>a, <1>14, <2>1 DEF SnapshotTaken, Answered, Control, TypeOK
    <2>4. \A i : Live(i)' = Live(i)
      BY <2>1 DEF Live
    <2>5. \A e \in log : (\E f \in FixtureFns : table[f] = e.id) => \E f \in FixtureFns : table'[f] = e.id
      BY <1>2, <2>3
    <2>6. SUFFICES ASSUME faults = 0 PROVE Agreeing'
      BY <2>1 DEF Agreeing
    <2>7. \A f \in FixtureFns : table'[f] # 0 => [id |-> table'[f], saved |-> captured[f]] \in log
      BY <1>a, <2>1, <2>3, <2>6 DEF Agreeing
    <2>8. \A e \in log : e.id \in own \/ \E f \in FixtureFns : table'[f] = e.id
      BY <1>a, <2>1, <2>3, <2>5, <2>6 DEF Agreeing
    <2>9. QED
      BY <1>a, <2>1, <2>2, <2>4, <2>6, <2>7, <2>8 DEF Agreeing
  <1>15. CASE Reverted
    <2>1. SUFFICES ASSUME faults = 0 PROVE Agreeing'
      BY <1>15 DEF Agreeing, Reverted, faultVars
    <2>2. /\ pc = "revert" /\ request = NoRequest
          /\ UNCHANGED <<log, table, captured, own, late, faults, strays, loading>>
      BY <1>15 DEF Reverted, Answered, serverVars, tableVars, faultVars
    <2>3. answer = 1
      BY <1>a, <2>1, <2>2 DEF Agreeing
    <2>4. pc' = "retake" /\ request' # NoRequest
      BY <1>15, <2>3 DEF Reverted, Call, Req, NoRequest
    <2>5. Undoing /\ Undoing' /\ ~HasId /\ ~HasId'
      BY <2>2, <2>4 DEF Undoing, HasId
    <2>6. \A i : Live(i)' = Live(i)
      BY <2>2 DEF Live
    <2>7. QED
      BY <1>a, <2>1, <2>2, <2>4, <2>5, <2>6 DEF Agreeing
  <1>16. CASE Retaken
    <2>1. SUFFICES ASSUME faults = 0 PROVE Agreeing'
      BY <1>16 DEF Agreeing, Retaken, faultVars
    <2>2. /\ HasId /\ Undoing /\ loading \in FixtureFns /\ answer \in Nat
          /\ UNCHANGED <<log, captured, own, late, faults>>
      BY <1>a, <1>16 DEF Retaken, Answered, HasId, Undoing, Control, TypeOK, serverVars, faultVars
    <2>3. ~Undoing' /\ ~HasId' /\ ~(pc' = "revert" /\ request' = NoRequest)
      BY <1>16 DEF Retaken, Rest, Call, Undoing, HasId
    <2>4. /\ table'[loading] = answer
          /\ \A f \in FixtureFns \ {loading} :
                table'[f] = IF table[f] > table[loading] THEN 0 ELSE table[f]
      BY <1>16, <2>2 DEF Retaken, EvictedBy
    <2>5. \A f \in FixtureFns \ {loading} : table[f] # 0 => table[f] # table[loading]
      BY <1>a, <2>2 DEF Ids
    <2>6. \A f \in FixtureFns : table'[f] # 0 => [id |-> table'[f], saved |-> captured[f]] \in log
      <3>1. [id |-> answer, saved |-> captured[loading]] \in log
        BY <1>a, <2>1, <2>2 DEF Agreeing
      <3>2. ASSUME NEW f \in FixtureFns \ {loading}, table'[f] # 0
            PROVE  [id |-> table'[f], saved |-> captured[f]] \in log
        <4>1. table'[f] = table[f] /\ table[f] # 0 /\ ~(table[f] >= table[loading])
          BY <1>1, <2>2, <2>4, <2>5, <3>2
        <4>2. QED
          BY <1>a, <2>1, <4>1 DEF Agreeing
      <3>3. QED
        BY <2>2, <2>4, <3>1, <3>2
    <2>7. \A e \in log : e.id \in own \/ \E f \in FixtureFns : table'[f] = e.id
      <3>1. SUFFICES ASSUME NEW e \in log, e.id \notin own, e.id # answer
                     PROVE  \E f \in FixtureFns : table'[f] = e.id
        BY <2>2, <2>4
      <3>2. e.id < table[loading] /\ \E f \in FixtureFns : table[f] = e.id
        BY <1>a, <2>1, <2>2, <3>1 DEF Agreeing
      <3>3. QED
        BY <1>1, <1>2, <2>2, <2>4, <3>2
    <2>8. \A r \in Strayable : strays'[r] > 0 => r.op = "drop" /\ ~Live(r.id)'
      <3>1. ASSUME NEW r \in Strayable, strays'[r] > 0
            PROVE  r.op = "drop" /\ ~Live(r.id)
        <4>1. CASE strays'[r] = strays[r]
          BY <1>a, <2>1, <3>1, <4>1 DEF Agreeing
        <4>2. CASE strays'[r] # strays[r]
          <5>1. PICK g \in FixtureFns : table[g] > table[loading] /\ r = Req("drop", table[g])
            BY <1>16, <4>2 DEF Retaken, EvictedBy
          <5>2. r.op = "drop" /\ r.id = table[g] /\ table[g] < answer
            BY <1>a, <2>2, <5>1 DEF Req, Control
          <5>3. \A e \in log : e.id < table[loading] \/ e.id = answer
            BY <1>a, <2>1, <2>2 DEF Agreeing
          <5>4. QED
            BY <1>1, <1>2, <2>2, <5>1, <5>2, <5>3 DEF Live
        <4>3. QED
          BY <4>1, <4>2
      <3>2. \A i : Live(i)' = Live(i)
        BY <2>2 DEF Live
      <3>3. QED
        BY <3>1, <3>2
    <2>9. QED
      BY <1>a, <2>1, <2>2, <2>3, <2>6, <2>7, <2>8 DEF Agreeing
  <1>17. CASE Served
    <2>1. SUFFICES ASSUME faults = 0 PROVE Agreeing'
      BY <1>17 DEF Agreeing, Served, faultVars
    <2>2. /\ Awaiting /\ request = Asked /\ request \in Strayable /\ Serve(request)
          /\ request' = NoRequest /\ pc' = pc /\ request # NoRequest
          /\ UNCHANGED <<table, captured, own, late, faults, strays, loading>>
      BY <1>a, <1>17, AnswerEffect DEF Served, tableVars, faultVars
    <2>3. ~HasId /\ (Undoing <=> pc = "retake") /\ loading \in FixtureFns /\ late = {}
      BY <1>a, <2>1, <2>2 DEF HasId, Undoing, Control, Awaiting, Agreeing
    <2>4. CASE pc \in {"take", "retake"}
      <3> DEFINE new == [id |-> last + 1, saved |-> captured[loading]]
      <3>1. state = captured[loading]
        BY <1>a, <2>3, <2>4 DEF Fitting, Fits
      <3>2. log' = log \cup {new} /\ answer' = last + 1
        BY <1>a, <1>17, <2>4, <3>1, AnswerEffect
      <3>3. new.id = last + 1 /\ new \in log' /\ log \subseteq log' /\ \A e \in log' : e \in log \/ e = new
        BY <3>2
      <3>4. HasId' /\ (Undoing' <=> Undoing) /\ ~(pc' = "revert" /\ request' = NoRequest)
        BY <2>2, <2>3, <2>4 DEF HasId, Undoing
      <3>5. \A r \in Strayable : strays[r] > 0 => r.op = "drop" /\ ~Live(r.id)'
        BY <1>a, <1>1, <1>3, <2>1, <3>3 DEF Live, Agreeing
      <3>6. [id |-> answer', saved |-> captured[loading]] \in log'
        BY <3>2
      <3>7. \A e \in log' : e \in log \/ e.id = answer'
        BY <3>2, <3>3
      <3> HIDE DEF new
      <3>8. /\ \A f \in FixtureFns : table[f] # 0 /\ ~(Undoing /\ table[f] >= table[loading])
                   => [id |-> table[f], saved |-> captured[f]] \in log'
            /\ Undoing => \A e \in log' : e.id < table[loading] \/ e.id = answer'
            /\ \A e \in log' : \/ e.id \in own
                               \/ \E f \in FixtureFns : table[f] = e.id
                               \/ e.id = answer'
        BY <1>a, <2>1, <2>3, <3>3, <3>7 DEF Agreeing
      <3>9. QED
        BY <2>2, <2>3, <3>4, <3>5, <3>6, <3>8 DEF Agreeing
    <2>5. CASE pc = "revert"
      <3>1. request = Req("revert", table[loading]) /\ table[loading] # 0 /\ ~Undoing
        BY <1>a, <2>2, <2>3, <2>5 DEF Asked, Control
      <3>2. [id |-> table[loading], saved |-> captured[loading]] \in log
        BY <1>a, <2>1, <2>3, <3>1 DEF Agreeing
      <3>3. Live(table[loading])
        BY <3>2 DEF Live
      <3>4. request.op = "revert" /\ request.id = table[loading] /\ \A i : request # Req("drop", i)
        BY <3>1 DEF Req
      <3>5. log' = {d \in log : d.id < table[loading]}
        <4>1. PICK e \in log : request = Req("revert", e.id) /\ Server!RevertTo(e)
          BY <2>2, <3>3, <3>4 DEF Serve
        <4>2. e.id = table[loading]
          BY <3>4, <4>1 DEF Req
        <4>3. QED
          BY <4>1, <4>2 DEF Server!RevertTo
      <3>6. answer' = 1
        <4>1. answer' = Reply(request)
          BY <1>17 DEF Served
        <4>2. Reply(request) = IF Live(request.id) THEN 1 ELSE 0
          BY <3>4 DEF Reply
        <4>3. QED
          BY <3>3, <3>4, <4>1, <4>2
      <3>7. Undoing' /\ ~HasId'
        BY <2>2, <2>5 DEF Undoing, HasId
      <3>8. \A i : ~Live(i) => ~Live(i)'
        BY <3>5 DEF Live
      <3>9. \A f \in FixtureFns : table[f] # 0 /\ ~(table[f] >= table[loading])
                => [id |-> table[f], saved |-> captured[f]] \in log'
        <4>1. ASSUME NEW f \in FixtureFns, table[f] # 0, ~(table[f] >= table[loading])
              PROVE  [id |-> table[f], saved |-> captured[f]] \in log'
          <5>1. [id |-> table[f], saved |-> captured[f]] \in log
            BY <1>a, <2>1, <3>1, <4>1 DEF Agreeing
          <5>2. table[f] < table[loading]
            BY <1>1, <2>3, <4>1
          <5>3. QED
            BY <3>5, <5>1, <5>2
        <4>2. QED
          BY <4>1
      <3>10. \A e \in log' : e \in log /\ e.id < table[loading]
        BY <3>5
      <3>11. \A e \in log' : e.id \in own \/ \E f \in FixtureFns : table[f] = e.id
        BY <1>a, <2>1, <2>3, <3>10 DEF Agreeing
      <3>12. \A r \in Strayable : strays[r] > 0 => r.op = "drop" /\ ~Live(r.id)'
        BY <1>a, <2>1, <3>8 DEF Agreeing
      <3>13. QED
        BY <2>2, <2>3, <3>6, <3>7, <3>9, <3>10, <3>11, <3>12 DEF Agreeing
    <2>6. CASE pc \in {"signers", "probe", "refund"}
      <3>1. request.op \in {"fund", "version"}
        BY <2>2, <2>6 DEF Asked, Req
      <3>2. log' = log
        BY <1>a, <2>2, <3>1, ServeEffect
      <3>3. ~Undoing /\ ~Undoing' /\ ~HasId'
        BY <2>2, <2>6 DEF Undoing, HasId
      <3>4. QED
        BY <1>a, <2>2, <2>3, <3>2, <3>3, AgreeingMoved
    <2>7. QED
      BY <2>2, <2>4, <2>5, <2>6 DEF Awaiting
  <1>18. QED
    BY <1>4, <1>5, <1>6, <1>7, <1>8, <1>9, <1>10, <1>11, <1>12, <1>13, <1>14, <1>15, <1>16, <1>17
       DEF Next

-----------------------------------------------------------------------------
(* The theorems                                                            *)

LEMMA Invariance == Spec => []IInv
  <1>1. Init => IInv
    BY InitIInv
  <1>2. IInv /\ [Next]_vars => IInv'
    <2> SUFFICES ASSUME IInv, [Next]_vars PROVE IInv'
      OBVIOUS
    <2>1. TypeOK /\ Ids /\ Control /\ Fitting /\ Funded
      BY DEF IInv
    <2>2. QED
      BY <2>1, TypeStep, IdsStep, ControlStep, FittingStep, FundedStep, AgreeingStep DEF IInv
  <1>3. QED
    BY <1>1, <1>2, PTL DEF Spec

\* Every variable of loadFixture, the node it calls and the test around it
\* ranges over its type, for any fixtures and bounds.
THEOREM TypeCorrect == Spec => []TypeOK
  <1>1. IInv => TypeOK
    BY DEF IInv
  <1>2. QED
    BY <1>1, Invariance, PTL

\* A load from the table that returns leaves the chain as the fixture's data
\* describes it (restore() of loadFixture), for any number of fixtures loaded
\* and exchanges broken: what a live entry holds is what its fixture's data
\* describes, and a load's revert can only have found such an entry.
THEOREM LoadsRestore == Spec => []LoadRestores
  <1>1. IInv => LoadRestores
    BY DEF IInv, Fitting, Fits, LoadRestores
  <1>2. QED
    BY <1>1, Invariance, PTL

\* fn starts with its signers at their full balance (the refund of loadFixture):
\* between the answer to the refund and fn, only a late revert changes the chain.
THEOREM FixturesStartFunded == Spec => []FixtureStartsFunded
  <1>1. IInv => FixtureStartsFunded
    BY DEF IInv, Funded, FixtureStartsFunded
  <1>2. QED
    BY <1>1, Invariance, PTL

\* While the node answers, between loads the table of fixtures and the node's
\* snapshots agree (the eviction after restore() of loadFixture): what a revert
\* to an older fixture has invalidated is evicted before the load returns.
THEOREM TableStaysInStep == Spec => []TableInStep
  <1>1. IInv => TableInStep
    <2> SUFFICES ASSUME IInv, Resting, faults = 0 PROVE TableInStep
      BY DEF TableInStep, EntriesLive, NoLeak
    <2>1. ~Undoing /\ ~HasId
      BY DEF Resting, Undoing, HasId
    <2>2. QED
      BY <2>1 DEF IInv, Agreeing, TableInStep, EntriesLive, NoLeak
  <1>2. QED
    BY <1>1, Invariance, PTL
=============================================================================
