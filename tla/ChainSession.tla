---------------------------- MODULE ChainSession ----------------------------
(***************************************************************************)
(* What a test does to the chain through the client: runtime/time.js,      *)
(* wait.js and deploy.js, the evm_ methods of ethers-bridge.js, and the    *)
(* sends and predicted deployments of signers.js, over a node in instamine *)
(* mode whose block production TreMining details.                          *)
(*                                                                         *)
(* Operations follow one another; each is a few requests, and the node is  *)
(* free to act between any two.  A request may break: served and its       *)
(* answer lost, or left on the wire to be served later, or never.  Mines   *)
(* keep each other out by a flag that the node's own production raises     *)
(* too.  Times are the chain's, Second units to the second.                *)
(***************************************************************************)
EXTENDS Integers, FiniteSets

CONSTANTS
    Second,     \* timestamp units in a second
    Expiry,     \* how long a signed transaction is valid
    RecoverAt,  \* recovery mine every 5 polls
    SolidAt,    \* the solidified view every 3
    Slots,      \* (deployer, name, args) triples
    Txs,        \* transactions, in the order they are made
    MaxOps,     \* bound: operations
    MaxBatch,   \* bound: blocks asked of one mine
    MaxBlocks,  \* bound: blocks the node makes by itself since an operation began
    MaxTime,    \* bound: seconds asked for
    MaxBreaks   \* bound: requests that break

ASSUME SessionAssumption ==
    /\ Second \in Nat \ {0} /\ Expiry \in Nat \ {0} /\ RecoverAt \in Nat \ {0} /\ SolidAt \in Nat \ {0}
    /\ Txs \subseteq Nat \ {0}
    /\ MaxOps \in Nat /\ MaxBatch \in Nat /\ MaxBlocks \in Nat /\ MaxTime \in Nat /\ MaxBreaks \in Nat

VARIABLES
    head,         \* the head block's timestamp
    override,     \* NEXT_BLOCK_TIMESTAMP_OVERRIDE; 0: none
    pool,         \* transactions waiting for a block
    mined,        \* transactions in blocks
    miner,        \* who holds DposTask.isManualMining, and the operation it mines for
    view,         \* view[t]: where t's receipt shows: nowhere, full or solid view
    expires,      \* expires[t]: the chain time t is valid up to; 0: not made
    prebuilt,     \* _prebuildCache: the transaction a slot was predicted with
    op,           \* the operation under way
    strays,       \* requests nobody waits for
    ops, breaks,  \* operations begun, requests broken
    result,       \* how the last operation ended
    since, sealed, refused \* history, since it began: the blocks, whether one has its
                           \* target's time, whether the flag kept a mine out

blockHistory == <<since, sealed, refused>>
chain == <<head, override, pool, mined, miner>>
node == <<chain, blockHistory>>
session == <<prebuilt, op, ops, result>>
sessionVars == <<node, view, expires, session, strays, breaks>>

Nothing == 0
Mine == [do |-> "mine"]
Set(time) == [do |-> "set", time |-> time]
BroadcastTx(t) == [do |-> "broadcast", tx |-> t]
Poll == [do |-> "poll"]
Miner(is, of) == [is |-> is, of |-> of]
Nobody == Miner("nobody", 0)

\* An operation: what it asks next and how often it asked; blocks left to mine,
\* the timestamp it warps to, its transaction, its polls; and as history the
\* blocks asked for, whether the override it found was
\* spent, and whether a request of its own broke or an earlier one's came late.
NoOp == [kind |-> "none", ask |-> Poll, tries |-> 0, left |-> 0, target |-> 0, tx |-> Nothing, iter |-> 0,
         asked |-> 0, spent |-> FALSE, broken |-> FALSE, late |-> FALSE]

SessionInit ==
    /\ head = 0 /\ override = 0 /\ pool = {} /\ mined = {}
    /\ miner = Nobody /\ since = 0 /\ sealed = FALSE /\ refused = FALSE
    /\ view = [t \in Txs |-> "none"] /\ expires = [t \in Txs |-> 0]
    /\ prebuilt = [s \in Slots |-> Nothing]
    /\ op = NoOp /\ strays = {} /\ ops = 0 /\ breaks = 0 /\ result = "none"

\* A broadcast's block keeps the override: it cannot serve another one.
Spent == override # 0 /\ override <= head

-----------------------------------------------------------------------------
(* The node                                                                *)

\* A block leaves out what has expired.
Block(time, taken) ==
    /\ time > head
    /\ head' = time
    /\ since' = since + 1 /\ sealed' = (sealed \/ time = op.target)
    /\ pool' = pool \ taken /\ mined' = mined \cup taken
    /\ UNCHANGED refused

Valid == {t \in pool : expires[t] > head}

\* A tre_mine that holds the flag, and whether it answers that it mined.  The
\* override goes whatever happened; one that is spent costs the block.
MineEnds(ok) ==
    /\ miner' = Nobody /\ override' = 0
    /\ IF Spent THEN UNCHANGED <<head, pool, mined, blockHistory>>
       ELSE ok /\ Block(IF override # 0 THEN override ELSE head + Second, Valid)

\* One that finds the flag raised ("node is already manual mining"): the
\* override goes all the same.
MineRefused(ok) ==
    /\ miner # Nobody /\ ~ok
    /\ override' = 0 /\ refused' = TRUE
    /\ UNCHANGED <<head, pool, mined, miner, since, sealed>>

\* tre_setNextBlockTimestamp refuses a target the head has reached.
ServeSet(time, ok) ==
    /\ ok = (time > head)
    /\ override' = IF ok THEN time ELSE override
    /\ UNCHANGED <<head, pool, mined, miner, blockHistory>>

\* A transaction that is expired, or known, is refused.
ServeBroadcast(t, ok) ==
    /\ ok = (expires[t] > head /\ t \notin pool \cup mined)
    /\ pool' = IF ok THEN pool \cup {t} ELSE pool
    /\ UNCHANGED <<head, override, mined, miner, blockHistory>>

\* The operation's mine has the flag once it is admitted.
Serve(request, ok) ==
    \/ request.do = "mine" /\ IF miner.is = "call" THEN MineEnds(ok) ELSE MineRefused(ok)
    \/ request.do = "set" /\ ServeSet(request.time, ok)
    \/ request.do = "broadcast" /\ ServeBroadcast(request.tx, ok)

\* The node makes a block for a broadcast with the flag raised, perhaps without
\* some of the waiting transactions, at the override if it is set - without
\* clearing it.
NodeBegins ==
    /\ miner = Nobody /\ pool # {} /\ since < MaxBlocks
    /\ miner' = Miner("node", 0)
    /\ UNCHANGED <<head, override, pool, mined, blockHistory, view, expires, session, strays, breaks>>

NodeProduces ==
    /\ miner.is = "node" /\ miner' = Nobody
    /\ \/ Spent /\ UNCHANGED <<head, pool, mined, blockHistory>>
       \/ \E taken \in SUBSET Valid, gap \in 1..Second :
             Block(IF override # 0 THEN override ELSE head + gap, taken)
    /\ UNCHANGED <<override, view, expires, session, strays, breaks>>

\* A receipt becomes visible, in the full view or in the solidified one first.
Index(t) ==
    /\ t \in mined /\ view[t] # "full"
    /\ \E where \in {"full", "solid"} : view' = [view EXCEPT ![t] = where]
    /\ UNCHANGED <<node, expires, session, strays, breaks>>

\* What comes late from an operation that is over marks the one under way.
Marks(of) == op' = [op EXCEPT !.late = op.kind # "none" /\ (@ \/ of # ops)]

\* One that was left on the wire is served, or is not; a mine begins, or is
\* refused ...
StrayServed(s) ==
    /\ s \in strays /\ strays' = strays \ {s}
    /\ \/ s.request = Mine /\ miner = Nobody /\ miner' = Miner("late", s.of)
          /\ UNCHANGED <<head, override, pool, mined, blockHistory>>
       \/ s.request = Mine /\ MineRefused(FALSE)
       \/ s.request # Mine /\ \E ok \in BOOLEAN : Serve(s.request, ok)
    /\ Marks(s.of)
    /\ UNCHANGED <<view, expires, prebuilt, ops, result, breaks>>

\* ... and ends.
LateMineEnds ==
    /\ miner.is = "late"
    /\ \E ok \in BOOLEAN : MineEnds(ok)
    /\ Marks(miner.of)
    /\ UNCHANGED <<view, expires, prebuilt, ops, result, strays, breaks>>

-----------------------------------------------------------------------------
(* Operations                                                              *)

SignedTxs == {t \in Txs : expires[t] # 0}
Fresh(t) == t \notin SignedTxs /\ \A u \in Txs : u < t => u \in SignedTxs

BeginOp(next) ==
    /\ op.kind = "none" /\ ops < MaxOps
    /\ op' = [next EXCEPT !.spent = Spent]
    /\ since' = 0 /\ sealed' = FALSE /\ refused' = FALSE
    /\ ops' = ops + 1
    /\ result' = "none"

\* time.mine and evm_mine, and mineUpTo, which asks for the height's distance.
CallMine(n) ==
    /\ BeginOp([NoOp EXCEPT !.kind = "mine", !.ask = Mine, !.left = n, !.asked = n])
    /\ UNCHANGED <<chain, view, expires, prebuilt, strays, breaks>>

Warp(kind, time) ==
    /\ BeginOp([NoOp EXCEPT !.kind = kind, !.ask = Set(time), !.target = time])
    /\ UNCHANGED <<chain, view, expires, prebuilt, strays, breaks>>

\* increase and evm_increaseTime, from the whole second of the head it has read;
\* increaseTo, which leaves the check to the node; setNextBlockTimestamp.
CallIncrease(seconds) == Warp("warp", (head \div Second + seconds) * Second)
CallIncreaseTo(time) == Warp("warp", time * Second)
CallSetNext(time) == time > head \div Second /\ Warp("setnext", time * Second)

\* prebuildDeploy: a transaction is built and signed, and valid for a while.
Prebuild(t) == Fresh(t) /\ expires' = [expires EXCEPT ![t] = head + Expiry]

Submit(kind, t) == BeginOp([NoOp EXCEPT !.kind = kind, !.ask = BroadcastTx(t), !.tx = t])

CallSend(t) ==
    /\ Prebuild(t) /\ Submit("send", t)
    /\ UNCHANGED <<chain, view, prebuilt, strays, breaks>>

\* predictAddress: the address is the transaction's.
Predict(s, t) ==
    /\ op.kind = "none" /\ ops < MaxOps
    /\ Prebuild(t)
    /\ prebuilt' = [prebuilt EXCEPT ![s] = t]
    /\ ops' = ops + 1 /\ result' = "none"
    /\ UNCHANGED <<node, view, op, strays, breaks>>

CallDeployKeeping(s) ==
    /\ IF prebuilt[s] # Nothing
       THEN Submit("deploy", prebuilt[s]) /\ UNCHANGED <<prebuilt, expires>>
       ELSE \E t \in Txs : Prebuild(t) /\ Submit("deploy", t) /\ UNCHANGED prebuilt
    /\ UNCHANGED <<chain, view, strays, breaks>>

\* deployViaFacade sends what was predicted, and forgets it first.
CallDeploy(s) ==
    /\ IF prebuilt[s] # Nothing
       THEN /\ Submit("deploy", prebuilt[s])
            /\ prebuilt' = [prebuilt EXCEPT ![s] = Nothing] /\ UNCHANGED expires
       ELSE \E t \in Txs : Prebuild(t) /\ Submit("deploy", t) /\ UNCHANGED prebuilt
    /\ UNCHANGED <<chain, view, strays, breaks>>

EndOp(how) == op' = NoOp /\ result' = how /\ UNCHANGED <<prebuilt, ops>>
Continue(next) == op' = [next EXCEPT !.tries = 0] /\ UNCHANGED <<prebuilt, ops, result>>

Waiting == op.kind \in {"send", "deploy"}
Recovering == Waiting /\ op.ask = Mine

AnsweredUnsealed(ok) ==
    IF Recovering THEN Continue([op EXCEPT !.ask = Poll, !.iter = @ + 1])
    ELSE IF ~ok THEN EndOp(IF Waiting THEN "refused" ELSE "threw")
    ELSE IF Waiting THEN Continue([op EXCEPT !.ask = Poll])
    ELSE IF op.left > 1 THEN Continue([op EXCEPT !.left = @ - 1])
    ELSE EndOp("ok")

AnsweredOneShort(ok) ==
    IF Recovering THEN Continue([op EXCEPT !.ask = Poll, !.iter = @ + 1])
    ELSE IF ~ok THEN EndOp(IF Waiting THEN "refused" ELSE "threw")
    ELSE IF Waiting THEN Continue([op EXCEPT !.ask = Poll])
    ELSE IF op.kind = "warp" /\ op.ask # Mine THEN Continue([op EXCEPT !.ask = Mine])
    ELSE IF op.left > 2 THEN Continue([op EXCEPT !.left = @ - 1])
    ELSE EndOp("ok")

\* What the operation does with the node's answer.
Answered(ok) ==
    IF Recovering THEN Continue([op EXCEPT !.ask = Poll, !.iter = @ + 1])
    ELSE IF ~ok THEN EndOp(IF Waiting THEN "refused" ELSE "threw")
    ELSE IF Waiting THEN Continue([op EXCEPT !.ask = Poll])
    ELSE IF op.kind = "warp" /\ op.ask # Mine THEN Continue([op EXCEPT !.ask = Mine])
    ELSE IF op.left > 1 THEN Continue([op EXCEPT !.left = @ - 1])
    ELSE EndOp("ok")

Asking == op.kind # "none" /\ op.ask # Poll

Admitted ==
    /\ Asking /\ op.ask = Mine
    /\ miner = Nobody /\ miner' = Miner("call", ops)
    /\ UNCHANGED <<head, override, pool, mined, blockHistory, view, expires, session, strays, breaks>>

Served ==
    /\ Asking
    /\ \E ok \in BOOLEAN : Serve(op.ask, ok) /\ Answered(ok)
    /\ UNCHANGED <<view, expires, strays, breaks>>

\* The exchange breaks: rpcCall asks once more, unless it is only the body of
\* the answer that is lost; TronWeb's broadcast does not.
GiveUp(lost) == lost \/ op.tries = 1 \/ op.ask.do = "broadcast"

BrokenStubborn(lost) ==
    IF op.ask.do # "broadcast"
    THEN op' = [op EXCEPT !.tries = @ + 1, !.broken = TRUE] /\ UNCHANGED <<prebuilt, ops, result>>
    ELSE EndOp("threw")

Broken(lost) ==
    IF ~GiveUp(lost) THEN op' = [op EXCEPT !.tries = 1, !.broken = TRUE] /\ UNCHANGED <<prebuilt, ops, result>>
    ELSE IF Recovering THEN Continue([op EXCEPT !.ask = Poll, !.iter = @ + 1, !.broken = TRUE])
    ELSE EndOp("threw")

\* A mine that holds the flag goes on without its caller.
Abandoned ==
    /\ UNCHANGED <<head, override, pool, mined, blockHistory>>
    /\ IF miner.is = "call" THEN miner' = Miner("late", ops) /\ UNCHANGED strays
       ELSE /\ UNCHANGED miner
            /\ \/ strays' = strays \cup {[request |-> op.ask, nr |-> breaks, of |-> ops]}
               \/ UNCHANGED strays

Break(served, lost) ==
    /\ Asking /\ breaks < MaxBreaks /\ breaks' = breaks + 1
    /\ IF served THEN (\E ok \in BOOLEAN : Serve(op.ask, ok)) /\ UNCHANGED strays
       ELSE ~lost /\ Abandoned
    /\ Broken(lost)
    /\ UNCHANGED <<view, expires>>

-----------------------------------------------------------------------------
(* Waiting for a receipt                                                   *)

Polling == Waiting /\ op.ask = Poll

Every(n) == op.iter > 0 /\ op.iter % n = 0

\* waitForReceipt also looks at the solidified view; pollDeployReceipt does not.
Found == view[op.tx] = "full" \/ (op.kind = "send" /\ view[op.tx] = "solid" /\ Every(SolidAt))

RecoverOnce ==
    /\ Polling
    /\ IF Found THEN EndOp("ok")
       ELSE Continue(IF op.iter = RecoverAt THEN [op EXCEPT !.ask = Mine] ELSE [op EXCEPT !.iter = @ + 1])
    /\ op.iter <= 2 * RecoverAt
    /\ UNCHANGED <<node, view, expires, strays, breaks>>

\* One turn of the loop; the bound is where the deadline has come by.
PollOnce ==
    /\ Polling
    /\ IF Found THEN EndOp("ok")
       ELSE Continue(IF Every(RecoverAt) THEN [op EXCEPT !.ask = Mine] ELSE [op EXCEPT !.iter = @ + 1])
    /\ op.iter <= 2 * RecoverAt
    /\ UNCHANGED <<node, view, expires, strays, breaks>>

\* A look at the receipt that fails ends the wait.
PollFails ==
    /\ Polling /\ breaks < MaxBreaks /\ breaks' = breaks + 1
    /\ EndOp("threw")
    /\ UNCHANGED <<node, view, expires, strays>>

\* The deadline: a last look at the solidified view.
Deadline ==
    /\ Polling
    /\ EndOp(IF view[op.tx] # "none" THEN "ok" ELSE "timeout")
    /\ UNCHANGED <<node, view, expires, strays, breaks>>

SessionNext ==
    \/ NodeBegins \/ NodeProduces
    \/ \E t \in Txs : Index(t)
    \/ \E s \in strays : StrayServed(s)
    \/ LateMineEnds
    \/ \E n \in 1..MaxBatch : CallMine(n)
    \/ \E seconds \in 1..MaxTime : CallIncrease(seconds) \/ CallIncreaseTo(seconds) \/ CallSetNext(seconds)
    \/ \E t \in Txs : CallSend(t) \/ \E s \in Slots : Predict(s, t)
    \/ \E s \in Slots : CallDeploy(s)
    \/ Admitted \/ Served
    \/ \E served, lost \in BOOLEAN : Break(served, lost)
    \/ PollOnce \/ PollFails \/ Deadline

SessionSpec == SessionInit /\ [][SessionNext]_sessionVars

-----------------------------------------------------------------------------
(* Properties                                                              *)

SessionTypeOK ==
    /\ head \in Nat /\ override \in Nat /\ since \in Nat /\ sealed \in BOOLEAN
    /\ pool \subseteq Txs /\ mined \subseteq Txs /\ refused \in BOOLEAN
    /\ miner \in [is : {"nobody", "node", "call", "late"}, of : 0..MaxOps]
    /\ view \in [Txs -> {"none", "full", "solid"}]
    /\ expires \in [Txs -> Nat] /\ prebuilt \in [Slots -> Txs \cup {Nothing}]
    /\ op.kind \in {"none", "mine", "warp", "setnext", "send", "deploy"} /\ op.tries \in {0, 1}
    /\ op.tx \in Txs \cup {Nothing}
    /\ ops \in 0..MaxOps /\ breaks \in 0..MaxBreaks

Ends(how) == op.kind # "none" /\ op'.kind = "none" /\ result' = how

\* When increase or increaseTo returns, a block has exactly the target's
\* timestamp and the head is not before it - whatever block the node made
\* meanwhile, and however often the mine was asked for - unless a request
\* an earlier operation gave up came in, or one of its mines was refused for
\* the flag: that one's "finally" takes the override from the mine that holds it.
WarpSeals ==
    [][op.kind = "warp" /\ Ends("ok") /\ ~op.late /\ ~refused =>
          sealed' /\ head' >= op.target]_sessionVars

\* A mine that returns has made the blocks asked for; one fewer if it found a
\* spent override, which the node refuses to use again and then clears.
MinesAsAsked ==
    [][op.kind = "mine" /\ Ends("ok") /\ ~op.late =>
          since' >= op.asked - (IF op.spent THEN 1 ELSE 0)]_sessionVars

\* A wait that has sent two recovery mines over a sound connection, neither kept
\* out by the node's own production, leaves behind in the pool only a transaction
\* that has expired, whatever override it began with: the first mine may be lost
\* to a spent one, the second cannot.
RecoveryLands ==
    [][Waiting /\ Ends("timeout") /\ op.iter > 2 * RecoverAt /\ ~op.broken /\ ~op.late /\ ~refused =>
          op.tx \in mined' \/ expires[op.tx] <= head]_sessionVars

\* The node refuses a deployment only because its prediction has expired (time
\* was warped, the chain ran on), never because it was sent before.
PredictionHolds ==
    [][op.kind = "deploy" /\ Ends("refused") => expires[op.tx] <= head]_sessionVars

=============================================================================
