------------------------------ MODULE Fixtures ------------------------------
(***************************************************************************)
(* loadFixture of runtime/ethers-bridge.js, with the restorers, the signer *)
(* funding of runtime/signers.js and the retrying rpcCall of               *)
(* runtime/cheatcodes.js, against a node that keeps SnapshotLog's promise. *)
(*                                                                         *)
(* A test process loads one fixture at a time and uses the chain between   *)
(* loads.  A request is served while its caller waits, or is given up on   *)
(* by the caller and then lost or served late.  The drops of evicted       *)
(* snapshots are not awaited, so they are such requests from the start.    *)
(***************************************************************************)
EXTENDS Integers

CONSTANTS
    FixtureFns, \* the fixture functions of the test files
    NoFixture,
    MaxWrites,  \* bound: writes of fixtures and tests
    MaxIds,     \* bound: snapshots taken
    MaxFaults   \* bound: exchanges that break

ASSUME FixturesAssumption == NoFixture \notin FixtureFns
ASSUME BoundsAssumption == MaxWrites \in Nat /\ MaxIds \in Nat /\ MaxFaults \in Nat

\* Contents of the stores: the last write in them, and the signers' accounts.
States == [ver : Nat, signers : {"none", "spent", "full"}]

VARIABLES
    state, log, last, \* the node: see SnapshotLog
    patched,    \* the node is the patched fork
    signersBuilt, \* _cachedSigners is set
    supported,  \* _snapshotSupported
    table,      \* table[f]: snapshotId of f's entry in _fixtureSnapshots; 0: no entry
    loading,    \* the fixture being loaded
    pc,         \* what loadFixture awaits
    attempt,    \* 1, or 2 for rpcCall's retry
    request,    \* the request awaited; NoRequest once it is answered
    answer,     \* the answer on its way to the caller
    strays,     \* strays[r]: requests r nobody waits for
    own,        \* ids of the snapshots the test itself took
    writes,     \* writes so far
    faults,     \* broken exchanges so far
    captured,   \* history: captured[f] is the state f's data describes
    late        \* history: the ops that changed the state after their caller gave up

serverVars == <<state, log, last>>
tableVars == <<signersBuilt, supported, table, captured>>
rpcVars == <<attempt, request, answer>>
faultVars == <<faults, late>>
vars == <<serverVars, patched, tableVars, loading, pc, rpcVars, strays, own, writes, faultVars>>

Server == INSTANCE SnapshotLog

NoRequest == [op |-> "none", id |-> 0]
Req(op, id) == [op |-> op, id |-> id]
Strayable == {Req("fund", 0), Req("version", 0), Req("snapshot", 0)}
                \cup {Req(op, i) : op \in {"revert", "drop"}, i \in 1..MaxIds}

Init ==
    /\ state = [ver |-> 0, signers |-> "none"] /\ log = {} /\ last = 0
    /\ patched \in BOOLEAN
    /\ signersBuilt = FALSE /\ supported = "unknown"
    /\ table = [f \in FixtureFns |-> 0]
    /\ captured = [f \in FixtureFns |-> state]
    /\ loading = NoFixture /\ pc = "idle"
    /\ attempt = 1 /\ request = NoRequest /\ answer = 0
    /\ strays = [r \in Strayable |-> 0]
    /\ own = {} /\ writes = 0 /\ faults = 0 /\ late = {}

-----------------------------------------------------------------------------
(* The node                                                                *)

Live(i) == \E e \in log : e.id = i

\* The node serves request r ...
Serve(r) ==
    \/ r.op = "fund" /\ state' = [state EXCEPT !.signers = "full"] /\ UNCHANGED <<log, last>>
    \/ r.op = "version" /\ UNCHANGED serverVars
    \/ r.op = "snapshot" /\ last < MaxIds /\ Server!Snapshot
    \/ \E e \in log : r = Req("revert", e.id) /\ Server!RevertTo(e)
    \/ \E e \in log : r = Req("drop", e.id) /\ Server!DropEntry(e)
    \/ r.op \in {"revert", "drop"} /\ ~Live(r.id) /\ UNCHANGED serverVars

\* ... and answers it: 0 is an error, or an unpatched fork's version.
Reply(r) ==
    CASE r.op = "snapshot" -> last + 1
      [] r.op = "version" -> IF patched THEN 1 ELSE 0
      [] r.op = "revert" -> IF Live(r.id) THEN 1 ELSE 0
      [] OTHER -> 1

Served ==
    /\ request # NoRequest
    /\ Serve(request)
    /\ answer' = Reply(request)
    /\ request' = NoRequest
    /\ UNCHANGED <<patched, tableVars, loading, pc, attempt, strays, own, writes, faultVars>>

StrayServed(r) ==
    /\ strays[r] > 0
    /\ Serve(r)
    /\ late' = IF state' = state THEN late ELSE late \cup {r.op}
    /\ strays' = [strays EXCEPT ![r] = @ - 1]
    /\ UNCHANGED <<patched, tableVars, loading, pc, rpcVars, own, writes, faults>>

\* The rejection of a fire-and-forget request is swallowed.
StrayLost(r) ==
    /\ strays[r] > 0
    /\ strays' = [strays EXCEPT ![r] = @ - 1]
    /\ UNCHANGED <<serverVars, patched, tableVars, loading, pc, rpcVars, own, writes, faultVars>>

-----------------------------------------------------------------------------
(* loadFixture(fn)                                                         *)

Resting == pc \in {"idle", "returned", "threw"}
Answered(step) == pc = step /\ request = NoRequest

\* rpcCall(r) is awaited at a step; or nothing is any more.
Call(step, r) == pc' = step /\ attempt' = 1 /\ request' = r /\ answer' = 0
Rest(outcome) == Call(outcome, NoRequest)

BranchWithoutRevert(f, support) ==
    CASE support = "no" -> Rest("bare")
      [] support = "yes" /\ table[f] = 0 -> Call("refund", Req("fund", 0))
      [] support = "yes" /\ table[f] # 0 -> Call("retake", Req("snapshot", 0))

BranchWithoutRefund(f, support) ==
    CASE support = "no" -> Rest("bare")
      [] support = "yes" /\ table[f] = 0 -> Rest("fn")
      [] support = "yes" /\ table[f] # 0 -> Call("revert", Req("revert", table[f]))

\* The branch on the table: restore f's snapshot, or refund and run f afresh;
\* without the fork's snapshots f simply runs.
Branch(f, support) ==
    CASE support = "no" -> Rest("bare")
      [] support = "yes" /\ table[f] = 0 -> Call("refund", Req("fund", 0))
      [] support = "yes" /\ table[f] # 0 -> Call("revert", Req("revert", table[f]))

AfterSigners(f) ==
    IF supported = "unknown" THEN Call("probe", Req("version", 0)) ELSE Branch(f, supported)

Load(f) ==
    /\ Resting
    /\ loading' = f
    /\ IF signersBuilt THEN AfterSigners(f) ELSE Call("signers", Req("fund", 0))
    /\ UNCHANGED <<serverVars, patched, tableVars, strays, own, writes, faultVars>>

SignersFunded ==
    /\ Answered("signers")
    /\ signersBuilt' = TRUE
    /\ AfterSigners(loading)
    /\ UNCHANGED <<serverVars, patched, supported, table, captured, loading, strays,
                   own, writes, faultVars>>

Probed ==
    /\ Answered("probe")
    /\ supported' = IF answer = 1 THEN "yes" ELSE "no"
    /\ Branch(loading, supported')
    /\ UNCHANGED <<serverVars, patched, signersBuilt, table, captured, loading, strays,
                   own, writes, faultVars>>

Refunded ==
    /\ Answered("refund")
    /\ Rest("fn")
    /\ UNCHANGED <<serverVars, patched, tableVars, loading, strays, own, writes, faultVars>>

\* The fixture, or a test, uses the chain; it may spend the signers' balances.
WriteChain ==
    /\ writes < MaxWrites
    /\ writes' = writes + 1
    /\ \E left \in {state.signers} \cup ({"spent"} \ {state.signers}) :
          /\ state.signers = "none" => left = "none"
          /\ state' = [ver |-> writes + 1, signers |-> left]
    /\ UNCHANGED <<log, last>>

\* fn(): it deploys, and its data describes the state it leaves ...
RunFixture ==
    /\ pc \in {"fn", "bare"}
    /\ WriteChain
    /\ \/ pc = "fn" /\ captured' = [captured EXCEPT ![loading] = state']
                    /\ Call("take", Req("snapshot", 0))
       \/ pc = "bare" /\ UNCHANGED captured /\ Rest("returned")
       \/ UNCHANGED captured /\ Rest("threw")
    /\ UNCHANGED <<patched, signersBuilt, supported, table, loading, strays, own, faultVars>>

\* ... _takeSnapshot and the push on the table.
SnapshotTaken ==
    /\ Answered("take")
    /\ table' = [table EXCEPT ![loading] = answer]
    /\ Rest("returned")
    /\ UNCHANGED <<serverVars, patched, signersBuilt, supported, captured, loading, strays,
                   own, writes, faultVars>>

RevertedOrNot ==
    /\ Answered("revert")
    /\ Call("retake", Req("snapshot", 0))
    /\ UNCHANGED <<serverVars, patched, tableVars, loading, strays, own, writes, faultVars>>

\* restore(): the revert is answered; take the snapshot that replaces it.
Reverted ==
    /\ Answered("revert")
    /\ IF answer = 1 THEN Call("retake", Req("snapshot", 0)) ELSE Rest("threw")
    /\ UNCHANGED <<serverVars, patched, tableVars, loading, strays, own, writes, faultVars>>

EvictedByNewId(oldId) == {g \in FixtureFns \ {loading} : table[g] > last}
\* restore() is over: drop every entry the revert invalidated.
EvictedBy(oldId) == {g \in FixtureFns \ {loading} : table[g] > oldId}

Retaken ==
    /\ Answered("retake")
    /\ LET evicted == EvictedBy(table[loading])
       IN /\ table' = [g \in FixtureFns |-> IF g = loading THEN answer
                                           ELSE IF g \in evicted THEN 0 ELSE table[g]]
          /\ strays' = [r \in Strayable |->
                          IF \E g \in evicted : r = Req("drop", table[g])
                          THEN strays[r] + 1 ELSE strays[r]]
    /\ Rest("returned")
    /\ UNCHANGED <<serverVars, patched, signersBuilt, supported, captured, loading, own,
                   writes, faultVars>>

-----------------------------------------------------------------------------
(* rpcCall when an exchange breaks                                         *)

Awaiting == pc \in {"signers", "probe", "refund", "take", "revert", "retake"}

\* What loadFixture is asking for.
Asked ==
    CASE pc \in {"signers", "refund"} -> Req("fund", 0)
      [] pc = "probe" -> Req("version", 0)
      [] pc \in {"take", "retake"} -> Req("snapshot", 0)
      [] pc = "revert" -> Req("revert", table[loading])

\* A request whose caller gives up before the node has served it is lost, or
\* still under way.
Forsake ==
    \/ UNCHANGED strays
    \/ request # NoRequest /\ strays' = [strays EXCEPT ![request] = @ + 1]

Break ==
    /\ Awaiting
    /\ faults < MaxFaults /\ faults' = faults + 1
    /\ Forsake
    /\ UNCHANGED <<serverVars, patched, signersBuilt, table, captured, loading, own, writes,
                   late>>

RetryAgain ==
    /\ Break
    /\ attempt' = attempt + 1 /\ request' = Asked /\ answer' = 0
    /\ UNCHANGED <<pc, supported>>

\* The connection fails under the first attempt: send the request once more.
Retry ==
    /\ Break
    /\ attempt = 1
    /\ attempt' = 2 /\ request' = Asked /\ answer' = 0
    /\ UNCHANGED <<pc, supported>>

\* It fails under the second, or under the body of either answer, which is read
\* outside the try: the call rejects.  The probe takes that for an unpatched
\* fork; every other step throws.
GiveUp ==
    /\ Break
    /\ attempt = 2 \/ request = NoRequest
    /\ IF pc = "probe" THEN supported' = "no" /\ Branch(loading, "no")
       ELSE UNCHANGED supported /\ Rest("threw")

-----------------------------------------------------------------------------
(* The tests between loads                                                 *)

TestWrites ==
    /\ Resting /\ WriteChain
    /\ Rest("idle")
    /\ UNCHANGED <<patched, tableVars, loading, strays, own, faultVars>>

\* evm_snapshot
TestSnapshots ==
    /\ Resting /\ patched /\ last < MaxIds
    /\ Server!Snapshot
    /\ own' = own \cup {last + 1}
    /\ Rest("idle")
    /\ UNCHANGED <<patched, tableVars, loading, strays, writes, faultVars>>

\* evm_revert, to a snapshot no fixture was loaded after: reverting further
\* would invalidate the fixture's, as it does in Hardhat.
TestReverts ==
    /\ Resting
    /\ \E e \in log :
          /\ e.id \in own /\ \A f \in FixtureFns : table[f] < e.id
          /\ Server!RevertTo(e)
          /\ own' = {i \in own : i < e.id}
    /\ Rest("idle")
    /\ UNCHANGED <<patched, tableVars, loading, strays, writes, faultVars>>

Next ==
    \/ \E f \in FixtureFns : Load(f)
    \/ SignersFunded \/ Probed \/ Refunded \/ RunFixture \/ SnapshotTaken
    \/ Reverted \/ Retaken
    \/ Retry \/ GiveUp
    \/ Served \/ \E r \in Strayable : StrayServed(r) \/ StrayLost(r)
    \/ TestWrites \/ TestSnapshots \/ TestReverts

Spec == Init /\ [][Next]_vars

-----------------------------------------------------------------------------
(* Properties                                                              *)

\* Every variable ranges over its type.
TypeOK ==
    /\ state \in States /\ last \in Nat /\ patched \in BOOLEAN
    /\ log \subseteq Server!Entry
    /\ signersBuilt \in BOOLEAN /\ supported \in {"unknown", "yes", "no"}
    /\ table \in [FixtureFns -> Nat]
    /\ captured \in [FixtureFns -> States]
    /\ loading \in FixtureFns \cup {NoFixture}
    /\ Resting \/ Awaiting \/ pc \in {"fn", "bare"}
    /\ attempt \in {1, 2} /\ answer \in Nat
    /\ request \in Strayable \cup {NoRequest}
    /\ strays \in [Strayable -> Nat]
    /\ own \subseteq Nat /\ writes \in Nat /\ faults \in Nat
    /\ late \subseteq {"fund", "revert"}

\* A load from the table that returns leaves the chain in the state the
\* fixture's data describes, whatever other fixtures and tests did since,
\* whichever exchanges broke on the way and however late the requests given up
\* on are served: a retry is refused or harmless, a late snapshot is one too
\* many, a late drop drops nothing.  A late funding may fill up balances; only
\* the late revert of a load that threw changes more behind the test's back.
LoadRestores ==
    pc = "returned" /\ supported = "yes" /\ "revert" \notin late
        => /\ state.ver = captured[loading].ver
           /\ late = {} => state = captured[loading]

\* A fixture starts with its signers at their full balance, whatever tests spent
\* and reverted before (the refund before fn, loadFixture).
FixtureStartsFunded == pc = "fn" /\ "revert" \notin late => state.signers = "full"

\* Between loads, as long as the node has answered, every entry of the table
\* names a live snapshot of its own fixture: no revert to another fixture's
\* snapshot leaves a stale id behind.  (One answer lost after the revert does:
\* the restorer is left with an id that is gone, and not "reusable" any more.)
EntriesLive ==
    Resting /\ faults = 0 => \A f \in FixtureFns : table[f] # 0 =>
                                [id |-> table[f], saved |-> captured[f]] \in log

\* Between loads, as long as the node has answered, it keeps no snapshot that
\* neither the table nor a test can name: each costs a copy of all stores.
NoLeak ==
    Resting /\ faults = 0 => \A e \in log : e.id \in own \/ \E f \in FixtureFns : table[f] = e.id

\* So the table and the node agree on which snapshots there are.
TableInStep == EntriesLive /\ NoLeak
=============================================================================
