----------------------------- MODULE TreMining -----------------------------
(***************************************************************************)
(* tre_mine, tre_setNextBlockTimestamp and tre_blockTime of                *)
(* TreJsonRpcImpl.java on the patched DposSlot.java, beside the node's own *)
(* block production.                                                       *)
(*                                                                         *)
(* Server threads share the one-shot override (a volatile static), the     *)
(* manual-mining flag (an atomic one) and BlockHandle's monitor and wait   *)
(* lock; a thread's step ends where another thread can see or change one   *)
(* of them.  Times count milliseconds from the genesis block.              *)
(***************************************************************************)
EXTENDS Integers

CONSTANTS
    Threads,    \* server threads: how many calls may overlap
    Nobody,     \* holder of the free monitor
    Second,     \* milliseconds in a second
    Ahead,      \* the 50 ms a mine looks ahead of the clock
    BlockTimes, \* seconds tre_blockTime is called with, 0 among them
    SkipSlots,  \* slots skipped after a maintenance block
    MaxBatch,   \* bound: blocks asked of one tre_mine
    MaxBlocks,  \* bound: height from which nothing more is asked for
    MaxClock    \* bound: the wall clock, and the timestamps asked for

ASSUME NobodyAssumption == Nobody \notin Threads
ASSUME TimeAssumption == Second \in Nat \ {0} /\ Ahead \in Nat /\ SkipSlots \in Nat
                         /\ BlockTimes \subseteq 0..60
ASSUME BoundsAssumption == MaxBatch \in 1..100 /\ MaxBlocks \in Nat /\ MaxClock \in Nat

VARIABLES
    now,        \* System.currentTimeMillis()
    lbht,       \* LatestBlockHeaderTimestamp
    height,     \* LatestBlockHeaderNumber
    skip,       \* slots to skip: SkipSlots when the head is a maintenance block
    autoMine,   \* DposSlot.autoMine
    interval,   \* BLOCK_PRODUCED_INTERVAL
    override,   \* NEXT_BLOCK_TIMESTAMP_OVERRIDE; 0: none
    manual,     \* DposTask.isManualMining
    native,     \* the node's own produceBatch is under way
    monitor,    \* who is in BlockHandle.getLock()
    waitLock,   \* BlockHandle's block wait lock
    at,         \* at[t]: what thread t does next
    left,       \* left[t]: blocks its mine has yet to produce
    slot, time, \* its locals; time[t] also holds the timestamp it is to set
    alone       \* history: alone[t]: t's mine began under an override that lay
                \* ahead, or under none, and no other call has changed it since

chainVars == <<lbht, height, skip>>
modeVars == <<autoMine, interval>>
threadVars == <<at, left, slot, time, alone>>
vars == <<now, native, chainVars, modeVars, override, manual, monitor, waitLock, threadVars>>

\* The steps of mineWithBudget inside the manual-mining flag, and of its loop.
Producing == {"slot", "time", "clamp", "produce", "consume", "unlock"}
Inside == {"lock", "exit"} \cup Producing
Steps == {"idle", "enter", "unwait", "return", "set"} \cup Inside

Init ==
    /\ now = 0 /\ lbht = 0 /\ height = 0 /\ skip = 0
    /\ autoMine = FALSE /\ interval = 1
    /\ override = 0 /\ manual = FALSE /\ native = FALSE /\ monitor = Nobody /\ waitLock = FALSE
    /\ at = [t \in Threads |-> "idle"]
    /\ left = [t \in Threads |-> 0]
    /\ slot = [t \in Threads |-> 0]
    /\ time = [t \in Threads |-> 0]
    /\ alone = [t \in Threads |-> FALSE]

Goto(t, step) == at' = [at EXCEPT ![t] = step]
Idle(t) == at[t] = "idle"

\* The calls still alone once this step has, or has not, changed the override.
Undisturbed == IF override' = override THEN alone ELSE [t \in Threads |-> FALSE]

-----------------------------------------------------------------------------
(* DposSlot                                                                *)

\* getTime(slot)
GetTime(s) ==
    IF override > 0 THEN override
    ELSE IF height = 0 THEN s * interval
    ELSE (lbht - (lbht % interval)) + interval * (s + skip)

\* getSlot(time); the stock code has 0 where the patched one has the second 1.
GetSlotStock(clock) ==
    IF override > 0 THEN 1
    ELSE IF clock < GetTime(0) THEN 0
    ELSE (clock - GetTime(0)) \div interval

GetSlot(clock) ==
    IF override > 0 THEN 1
    ELSE IF clock < GetTime(0) THEN 1
    ELSE (clock - GetTime(0)) \div interval

\* A block is pushed; one whose timestamp does not advance is refused.
Push(timestamp) ==
    /\ timestamp > lbht
    /\ lbht' = timestamp
    /\ height' = height + 1
    /\ skip' \in {0, SkipSlots}

-----------------------------------------------------------------------------
(* tre_mine                                                                *)

MineCalled(t, blocks) ==
    /\ Idle(t) /\ height < MaxBlocks
    /\ left' = [left EXCEPT ![t] = blocks]
    /\ Goto(t, "enter")
    /\ UNCHANGED <<now, native, chainVars, modeVars, override, manual, monitor, waitLock, slot, time, alone>>

\* tryEnterManualMining: one thread at a time, the others are turned away.
Enter(t) ==
    /\ at[t] = "enter"
    /\ manual' = TRUE
    /\ Goto(t, IF manual THEN "return" ELSE "lock")
    /\ UNCHANGED <<now, native, chainVars, modeVars, override, monitor, waitLock, left, slot, time, alone>>

\* setBlockWaitLock(true), then the monitor.
Lock(t) ==
    /\ at[t] = "lock" /\ monitor = Nobody
    /\ waitLock' = TRUE /\ monitor' = t
    /\ alone' = [alone EXCEPT ![t] = override = 0 \/ override > lbht]
    /\ Goto(t, "slot")
    /\ UNCHANGED <<now, native, chainVars, modeVars, override, manual, left, slot, time>>

\* The slot to produce in and its witness, who may have no miner.
ReadSlot(t) ==
    /\ at[t] = "slot"
    /\ slot' = [slot EXCEPT ![t] = GetSlot(now + Ahead)]
    /\ Goto(t, "time") \/ Goto(t, "unlock")
    /\ UNCHANGED <<now, native, chainVars, modeVars, override, manual, monitor, waitLock, left, time, alone>>

ReadTime(t) ==
    /\ at[t] = "time"
    /\ time' = [time EXCEPT ![t] = GetTime(slot[t])]
    /\ Goto(t, "clamp")
    /\ UNCHANGED <<now, native, chainVars, modeVars, override, manual, monitor, waitLock, left, slot, alone>>

ClampAlways(t) ==
    /\ at[t] = "clamp"
    /\ LET minimum == lbht + Second
       IN time' = IF time[t] < minimum THEN [time EXCEPT ![t] = minimum] ELSE time
    /\ Goto(t, "produce")
    /\ UNCHANGED <<now, native, chainVars, modeVars, override, manual, monitor, waitLock, left, slot, alone>>

\* Without an override, at least a second after the head.
Clamp(t) ==
    /\ at[t] = "clamp"
    /\ LET minimum == lbht + Second
       IN time' = IF override = 0 /\ time[t] < minimum THEN [time EXCEPT ![t] = minimum] ELSE time
    /\ Goto(t, "produce")
    /\ UNCHANGED <<now, native, chainVars, modeVars, override, manual, monitor, waitLock, left, slot, alone>>

\* BlockHandle.produce pushes the block, or throws.
Produce(t) ==
    /\ at[t] = "produce"
    /\ \/ Push(time[t]) /\ Goto(t, "consume")
       \/ time[t] <= lbht /\ Goto(t, "unlock") /\ UNCHANGED chainVars
    /\ UNCHANGED <<now, native, modeVars, override, manual, monitor, waitLock, left, slot, time, alone>>

ConsumeLater(t) ==
    /\ at[t] = "consume"
    /\ left' = [left EXCEPT ![t] = @ - 1]
    /\ Goto(t, IF left[t] = 1 THEN "unlock" ELSE "slot")
    /\ UNCHANGED <<now, native, chainVars, modeVars, override, manual, monitor, waitLock, slot, time, alone>>

\* The override is spent; the next block of the batch, or out of the loop.
Consume(t) ==
    /\ at[t] = "consume"
    /\ override' = 0
    /\ left' = [left EXCEPT ![t] = @ - 1]
    /\ Goto(t, IF left[t] = 1 THEN "unlock" ELSE "slot")
    /\ UNCHANGED <<now, native, chainVars, modeVars, manual, monitor, waitLock, slot, time, alone>>

Unlock(t) ==
    /\ at[t] = "unlock"
    /\ monitor' = Nobody
    /\ Goto(t, "exit")
    /\ UNCHANGED <<now, native, chainVars, modeVars, override, manual, waitLock, left, slot, time, alone>>

ExitOnSuccessOnly(t) ==
    /\ at[t] = "exit"
    /\ manual' = (left[t] # 0)
    /\ Goto(t, "unwait")
    /\ UNCHANGED <<now, native, chainVars, modeVars, override, monitor, waitLock, left, slot, time, alone>>

\* exitManualMining ...
Exit(t) ==
    /\ at[t] = "exit"
    /\ manual' = FALSE
    /\ Goto(t, "unwait")
    /\ UNCHANGED <<now, native, chainVars, modeVars, override, monitor, waitLock, left, slot, time, alone>>

\* ... then the wait lock.
Unwait(t) ==
    /\ at[t] = "unwait"
    /\ waitLock' = FALSE
    /\ Goto(t, "return")
    /\ UNCHANGED <<now, native, chainVars, modeVars, override, manual, monitor, left, slot, time, alone>>

\* mineInternal's finally clears the override, whatever became of the mine.
Return(t) ==
    /\ at[t] = "return"
    /\ override' = 0
    /\ alone' = [Undisturbed EXCEPT ![t] = FALSE]
    /\ left' = [left EXCEPT ![t] = 0]
    /\ slot' = [slot EXCEPT ![t] = 0]
    /\ time' = [time EXCEPT ![t] = 0]
    /\ Goto(t, "idle")
    /\ UNCHANGED <<now, native, chainVars, modeVars, manual, monitor, waitLock>>

-----------------------------------------------------------------------------
(* tre_setNextBlockTimestamp, tre_blockTime, the node and the clock        *)

\* A target not after the head is refused and changes nothing.
SetCalled(t, target) ==
    /\ Idle(t)
    /\ target > lbht
    /\ time' = [time EXCEPT ![t] = target]
    /\ Goto(t, "set")
    /\ UNCHANGED <<now, native, chainVars, modeVars, override, manual, monitor, waitLock, left, slot, alone>>

SetNextBlockTimestamp(t) ==
    /\ at[t] = "set"
    /\ override' = time[t]
    /\ alone' = Undisturbed
    /\ time' = [time EXCEPT ![t] = 0]
    /\ Goto(t, "idle")
    /\ UNCHANGED <<now, native, chainVars, modeVars, manual, monitor, waitLock, left, slot>>

BlockTime(t, seconds) ==
    /\ Idle(t)
    /\ autoMine' = (seconds # 0)
    /\ interval' = IF seconds = 0 THEN 1 ELSE seconds * Second
    /\ UNCHANGED <<now, native, chainVars, override, manual, monitor, waitLock, threadVars>>

\* The node's own produceBatch, for a broadcast transaction or a slot that is
\* due, raises the same flag, so that a tre_mine is turned away meanwhile ...
NodeEnters ==
    /\ height < MaxBlocks
    /\ ~manual /\ manual' = TRUE
    /\ native' = TRUE
    /\ UNCHANGED <<now, chainVars, modeVars, override, monitor, waitLock, threadVars>>

\* ... produces in the same monitor, if it is time (slot 0 means that it is not),
\* and knows nothing of the override but what DposSlot answers ...
NodeProduces ==
    /\ height < MaxBlocks
    /\ native /\ monitor = Nobody
    /\ GetSlot(now) # 0
    /\ Push(GetTime(GetSlot(now)))
    /\ UNCHANGED <<now, native, modeVars, override, manual, monitor, waitLock, threadVars>>

\* ... and lowers the flag.
NodeLeaves ==
    /\ native /\ native' = FALSE
    /\ manual' = FALSE
    /\ UNCHANGED <<now, chainVars, modeVars, override, monitor, waitLock, threadVars>>

Tick ==
    /\ now < MaxClock
    /\ now' = now + 1
    /\ UNCHANGED <<native, chainVars, modeVars, override, manual, monitor, waitLock, threadVars>>

Mine(t) ==
    \/ Enter(t) \/ Lock(t)
    \/ ReadSlot(t) \/ ReadTime(t) \/ Clamp(t) \/ Produce(t) \/ Consume(t)
    \/ Unlock(t) \/ Exit(t) \/ Unwait(t) \/ Return(t)

Next ==
    \/ \E t \in Threads :
          \/ \E blocks \in 1..MaxBatch : MineCalled(t, blocks)
          \/ Mine(t)
          \/ \E target \in 1..MaxClock : SetCalled(t, target)
          \/ SetNextBlockTimestamp(t)
          \/ \E seconds \in BlockTimes : BlockTime(t, seconds)
    \/ NodeEnters \/ NodeProduces \/ NodeLeaves
    \/ Tick

Spec == Init /\ [][Next]_vars

-----------------------------------------------------------------------------
(* Properties                                                              *)

\* Every variable ranges over its type.
TypeOK ==
    /\ now \in Nat /\ lbht \in Nat /\ height \in Nat /\ skip \in {0, SkipSlots}
    /\ autoMine \in BOOLEAN /\ interval \in Nat \ {0}
    /\ override \in Nat
    /\ manual \in BOOLEAN /\ native \in BOOLEAN /\ waitLock \in BOOLEAN
    /\ monitor \in Threads \cup {Nobody}
    /\ at \in [Threads -> Steps]
    /\ left \in [Threads -> Nat]
    /\ slot \in [Threads -> Nat] /\ time \in [Threads -> Nat]
    /\ alone \in [Threads -> BOOLEAN]

\* Of the calls and the node at most one mines at a time, and the flag that keeps
\* the others out is up exactly while one does: it is never left up by a mine that
\* failed, after which nothing could be mined again, nor lowered by one that was
\* turned away while the node or another call mines (tryEnterManualMining).
FlagIsSound ==
    /\ \A t, u \in Threads : at[t] \in Inside /\ at[u] \in Inside => t = u
    /\ native => \A t \in Threads : at[t] \notin Inside
    /\ manual <=> native \/ \E t \in Threads : at[t] \in Inside

\* Wherever a warp has left the head of the chain, before or after the clock, a
\* slot that is not "not time yet" lies after the head, and while the head is
\* an interval ahead of the clock there is such a slot: the node keeps producing
\* ("each successive mine ratchets time strictly forward", DposSlot.getSlot).
SlotsAdvance ==
    override = 0 =>
        /\ GetSlot(now) # 0 => GetTime(GetSlot(now)) > lbht
        /\ now + interval <= lbht => GetSlot(now) # 0

\* Unless another call changes the override under it, each block a tre_mine makes
\* has the timestamp asked for, if one was, and otherwise comes a second or more
\* after its parent (the clamp in mineWithBudget) ...
MinedOnTime ==
    [][\A t \in Threads : at[t] = "produce" /\ at'[t] = "consume" /\ alone[t] =>
          IF override # 0 THEN lbht' = override ELSE lbht' >= lbht + Second]_vars

\* ... and its timestamp is never refused, in whichever mode, after whatever warp,
\* for the later blocks of a batch too.
NeverRefused == \A t \in Threads : at[t] = "produce" /\ alone[t] => time[t] > lbht

\* A timestamp asked for is in force for one block: between calls it lies ahead.
\* TreJsonRpc says "One-shot: cleared after the next successful produce" of
\* tre_setNextBlockTimestamp; the blocks of broadcast transactions use it and
\* do not clear it.
OneShot == ~native /\ (\A t \in Threads : at[t] = "idle") => override = 0 \/ override > lbht
=============================================================================
