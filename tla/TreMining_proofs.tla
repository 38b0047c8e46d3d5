-------------------------- MODULE TreMining_proofs --------------------------
(***************************************************************************)
(* For any number of overlapping calls, and any lengths of a second, of a  *)
(* slot and of the clock's run: the manual-mining flag is sound, and every *)
(* slot to produce in lies after the head of the chain.                    *)
(***************************************************************************)
EXTENDS TreMining, TLAPS

\* A product with a positive integer is not smaller.
LEMMA TimesPositive ==
    ASSUME NEW a \in Nat, NEW b \in Nat \ {0} PROVE a * b \in Nat /\ a * b >= a
  OBVIOUS

\* The head's timestamp rounded down to a slot is within one interval of it.
LEMMA Rounded ==
    ASSUME NEW a \in Nat, NEW b \in Nat \ {0}
    PROVE  /\ a % b \in 0..(b - 1)
           /\ a - (a % b) \in Nat
           /\ a - (a % b) <= a
           /\ a < a - (a % b) + b
  OBVIOUS

\* getTime answers a time, and for a slot other than 0 one after the head: the
\* override lies after it by assumption, the slot's start by rounding.
LEMMA TimeOfSlot ==
    ASSUME TypeOK, NEW s \in Nat
    PROVE  /\ GetTime(s) \in Nat
           /\ override = 0 /\ s # 0 /\ (height = 0 => lbht = 0) => GetTime(s) > lbht
  <1>0. interval \in Nat \ {0} /\ lbht \in Nat /\ skip \in Nat /\ override \in Nat
    BY TimeAssumption DEF TypeOK
  <1>1. CASE override > 0
    BY <1>0, <1>1 DEF GetTime
  <1>2. CASE override = 0 /\ height = 0
    <2>1. s * interval \in Nat /\ (s # 0 => s * interval >= interval)
      BY <1>0
    <2>2. QED
      BY <1>0, <1>2, <2>1 DEF GetTime
  <1>3. CASE override = 0 /\ height # 0
    <2> DEFINE rounded == lbht - (lbht % interval)
               ahead == interval * (s + skip)
    <2>1. rounded \in Nat /\ lbht < rounded + interval
      BY <1>0, Rounded
    <2>2. ahead \in Nat /\ (s # 0 => ahead >= interval)
      BY <1>0
    <2>3. GetTime(s) = rounded + ahead
      BY <1>3 DEF GetTime
    <2> HIDE DEF rounded, ahead
    <2>4. QED
      BY <1>0, <2>1, <2>2, <2>3
  <1>4. QED
    BY <1>0, <1>1, <1>2, <1>3

\* getSlot answers a slot.
LEMMA SlotIsNat ==
    ASSUME TypeOK, NEW clock \in Nat PROVE GetSlot(clock) \in Nat
  <1>1. GetTime(0) \in Nat /\ interval \in Nat \ {0}
    BY TimeOfSlot DEF TypeOK
  <1>2. clock >= GetTime(0) => (clock - GetTime(0)) \div interval \in Nat
    <2> DEFINE past == clock - GetTime(0)
    <2>1. clock >= GetTime(0) => past \in Nat
      BY <1>1
    <2> HIDE DEF past
    <2>2. past \in Nat => past \div interval \in Nat
      BY <1>1
    <2>3. QED
      BY <2>1, <2>2 DEF past
  <1>3. QED
    BY <1>1, <1>2 DEF GetSlot

\* While the head is an interval ahead of the clock, getSlot answers 1.
LEMMA AheadOfClock ==
    ASSUME TypeOK, override = 0, height = 0 => lbht = 0, now + interval <= lbht
    PROVE  GetSlot(now) = 1
  <1>0. interval \in Nat \ {0} /\ lbht \in Nat /\ skip \in Nat /\ now \in Nat
    BY TimeAssumption DEF TypeOK
  <1>1. height # 0
    BY <1>0
  <1> DEFINE rounded == lbht - (lbht % interval)
             ahead == interval * (0 + skip)
  <1>2. rounded \in Nat /\ lbht < rounded + interval
    BY <1>0, Rounded
  <1>3. ahead \in Nat
    BY <1>0
  <1>4. GetTime(0) = rounded + ahead
    BY <1>1 DEF GetTime
  <1> HIDE DEF rounded, ahead
  <1>5. now < GetTime(0)
    BY <1>0, <1>2, <1>3, <1>4
  <1>6. QED
    BY <1>5 DEF GetSlot

\* A mine that has not left its loop has a block to produce.
InLoop == {"enter", "lock", "slot", "time", "clamp", "produce", "consume"}
BlocksLeft == \A t \in Threads : at[t] \in InLoop => left[t] > 0

\* What a mine that is alone knows of the block it is about to make: the override
\* lies ahead, if there is one, and is the time read; otherwise the clamp holds.
OnCourse ==
    \A t \in Threads : alone[t] =>
        /\ at[t] \in {"slot", "time", "clamp", "produce"} => override = 0 \/ override > lbht
        /\ at[t] \in {"clamp", "produce"} /\ override > 0 => time[t] = override
        /\ at[t] = "produce" /\ override = 0 => time[t] >= lbht + Second

IInv ==
    /\ TypeOK
    /\ FlagIsSound
    /\ OnCourse
    /\ height = 0 => lbht = 0
    /\ BlocksLeft

\* The initial state has the strengthened invariant.
LEMMA InitIInv == Init => IInv
  <1> SUFFICES ASSUME Init PROVE IInv
    OBVIOUS
  <1>1. TypeOK
    <2>1. 1 \in Nat \ {0} /\ "idle" \in Steps /\ SkipSlots \in Nat
      BY TimeAssumption DEF Steps
    <2>2. /\ at \in [Threads -> Steps] /\ left \in [Threads -> Nat]
          /\ slot \in [Threads -> Nat] /\ time \in [Threads -> Nat]
          /\ alone \in [Threads -> BOOLEAN]
      BY <2>1 DEF Init
    <2>3. QED
      BY <2>1, <2>2 DEF Init, TypeOK
  <1>2. QED
    BY <1>1 DEF Init, IInv, FlagIsSound, Inside, Producing, BlocksLeft, InLoop, OnCourse

\* Every step keeps the variables in their types.
LEMMA TypeStep == IInv /\ [Next]_vars => TypeOK'
  <1> SUFFICES ASSUME IInv, [Next]_vars PROVE TypeOK'
    OBVIOUS
  <1> USE DEF Goto, Steps, Inside, Producing, chainVars, modeVars, threadVars
  <1>0. TypeOK
    BY DEF IInv
  <1>1. ASSUME NEW t \in Threads, NEW blocks \in 1..MaxBatch, MineCalled(t, blocks) PROVE TypeOK'
    BY <1>0, <1>1, BoundsAssumption DEF TypeOK, MineCalled
  <1>2. ASSUME NEW t \in Threads, Enter(t) \/ Lock(t) \/ Unlock(t) \/ Exit(t) \/ Unwait(t) \/ Return(t)
        PROVE  TypeOK'
    <2>1. CASE Enter(t)
      BY <1>0, <2>1 DEF TypeOK, Enter
    <2>2. CASE Lock(t)
      <3>1. alone' \in [Threads -> BOOLEAN]
        <4> DEFINE ahead == override = 0 \/ override > lbht
        <4>1. ahead \in BOOLEAN
          OBVIOUS
        <4>2. alone' = [alone EXCEPT ![t] = ahead]
          BY <2>2, Zenon DEF Lock
        <4> HIDE DEF ahead
        <4>3. QED
          BY <1>0, <4>1, <4>2 DEF TypeOK
      <3>2. QED
        BY <1>0, <2>2, <3>1 DEF TypeOK, Lock
    <2>7. CASE Unlock(t)
      BY <1>0, <2>7 DEF TypeOK, Unlock
    <2>3. CASE Exit(t)
      BY <1>0, <2>3 DEF TypeOK, Exit
    <2>4. CASE Unwait(t)
      BY <1>0, <2>4 DEF TypeOK, Unwait
    <2>5. CASE Return(t)
      BY <1>0, <2>5 DEF TypeOK, Return, Undisturbed
    <2>6. QED
      BY <1>2, <2>1, <2>2, <2>3, <2>4, <2>5, <2>7
  <1>3. ASSUME NEW t \in Threads, ReadSlot(t) PROVE TypeOK'
    <2>1. GetSlot(now + Ahead) \in Nat
      BY <1>0, SlotIsNat, TimeAssumption DEF TypeOK
    <2>2. QED
      BY <1>0, <1>3, <2>1 DEF TypeOK, ReadSlot
  <1>4. ASSUME NEW t \in Threads, ReadTime(t) PROVE TypeOK'
    <2>1. GetTime(slot[t]) \in Nat
      BY <1>0, TimeOfSlot DEF TypeOK
    <2>2. QED
      BY <1>0, <1>4, <2>1 DEF TypeOK, ReadTime
  <1>5. ASSUME NEW t \in Threads, Clamp(t) PROVE TypeOK'
    <2>1. time' \in [Threads -> Nat]
      BY <1>0, <1>5, TimeAssumption DEF TypeOK, Clamp
    <2>2. QED
      BY <1>0, <1>5, <2>1 DEF TypeOK, Clamp
  <1>6. ASSUME NEW t \in Threads, Produce(t) PROVE TypeOK'
    <2>1. lbht' \in Nat /\ height' \in Nat /\ skip' \in {0, SkipSlots}
      BY <1>0, <1>6 DEF TypeOK, Produce, Push
    <2>2. QED
      BY <1>0, <1>6, <2>1 DEF TypeOK, Produce
  <1>7. ASSUME NEW t \in Threads, Consume(t) PROVE TypeOK'
    <2>1. left[t] > 0
      BY <1>7 DEF IInv, Consume, BlocksLeft, InLoop
    <2>2. QED
      BY <1>0, <1>7, <2>1 DEF TypeOK, Consume
  <1>8. ASSUME NEW t \in Threads, NEW target \in 1..MaxClock, SetCalled(t, target) PROVE TypeOK'
    BY <1>0, <1>8, BoundsAssumption DEF TypeOK, SetCalled
  <1>9. ASSUME NEW t \in Threads, SetNextBlockTimestamp(t) PROVE TypeOK'
    BY <1>0, <1>9 DEF TypeOK, SetNextBlockTimestamp, Undisturbed
  <1>10. ASSUME NEW t \in Threads, NEW seconds \in BlockTimes, BlockTime(t, seconds) PROVE TypeOK'
    <2>1. seconds \in 0..60 /\ Second \in Nat \ {0}
      BY TimeAssumption
    <2>2. interval' \in Nat \ {0}
      BY <1>10, <2>1 DEF BlockTime
    <2>3. autoMine' \in BOOLEAN
      BY <1>10, Zenon DEF BlockTime
    <2>4. QED
      BY <1>0, <1>10, <2>2, <2>3 DEF TypeOK, BlockTime
  <1>11. CASE NodeEnters \/ NodeProduces \/ NodeLeaves
    <2>0. CASE NodeEnters \/ NodeLeaves
      BY <1>0, <2>0 DEF TypeOK, NodeEnters, NodeLeaves
    <2> SUFFICES ASSUME NodeProduces PROVE TypeOK'
      BY <1>11, <2>0
    <2>1. GetTime(GetSlot(now)) \in Nat
      BY <1>0, SlotIsNat, TimeOfSlot DEF TypeOK
    <2>2. lbht' \in Nat /\ height' \in Nat /\ skip' \in {0, SkipSlots}
      BY <1>0, <2>1 DEF TypeOK, NodeProduces, Push
    <2>3. QED
      BY <1>0, <2>2 DEF TypeOK, NodeProduces
  <1>12. CASE Tick \/ UNCHANGED vars
    BY <1>0, <1>12 DEF TypeOK, Tick, vars
  <1>13. QED
    BY <1>1, <1>2, <1>3, <1>4, <1>5, <1>6, <1>7, <1>8, <1>9, <1>10, <1>11, <1>12 DEF Next, Mine

\* Every step keeps the flag sound: only Enter lets a thread in and NodeEnters the
\* node, with the flag down, and only Exit and NodeLeaves let them out.
LEMMA FlagStep == IInv /\ [Next]_vars => FlagIsSound'
  <1> SUFFICES ASSUME IInv, [Next]_vars PROVE FlagIsSound'
    OBVIOUS
  <1> USE DEF Goto, Inside, Producing
  <1>0. FlagIsSound /\ at \in [Threads -> Steps] /\ manual \in BOOLEAN /\ native \in BOOLEAN
    BY DEF IInv, TypeOK
  <1>1. ASSUME NEW t \in Threads, at[t] \notin Inside, at'[t] \notin Inside,
               \A u \in Threads \ {t} : at'[u] = at[u], manual' = manual, native' = native
        PROVE  FlagIsSound'
    BY <1>0, <1>1 DEF FlagIsSound
  <1>2. ASSUME NEW t \in Threads, at[t] \in Inside, at'[t] \in Inside,
               \A u \in Threads \ {t} : at'[u] = at[u], manual' = manual, native' = native
        PROVE  FlagIsSound'
    BY <1>0, <1>2 DEF FlagIsSound
  <1>3. ASSUME at' = at, manual' = manual, native' = native PROVE FlagIsSound'
    BY <1>0, <1>3 DEF FlagIsSound
  <1>4. ASSUME NEW t \in Threads, NEW blocks \in 1..MaxBatch, MineCalled(t, blocks)
        PROVE  FlagIsSound'
    BY <1>0, <1>1, <1>4 DEF MineCalled, Idle
  <1>5. ASSUME NEW t \in Threads, Enter(t) PROVE FlagIsSound'
    <2>1. CASE manual
      BY <1>0, <1>1, <1>5, <2>1 DEF Enter
    <2>2. CASE ~manual
      <3>1. ~native /\ \A u \in Threads : at[u] \notin Inside
        BY <1>0, <2>2 DEF FlagIsSound
      <3>2. at' = [at EXCEPT ![t] = "lock"] /\ manual' /\ native' = native
        BY <1>5, <2>2 DEF Enter
      <3>3. QED
        BY <1>0, <3>1, <3>2 DEF FlagIsSound
    <2>3. QED
      BY <2>1, <2>2
  <1>6. ASSUME NEW t \in Threads, Lock(t) \/ ReadSlot(t) \/ ReadTime(t) \/ Clamp(t) \/ Unlock(t)
        PROVE  FlagIsSound'
    BY <1>0, <1>2, <1>6 DEF Lock, ReadSlot, ReadTime, Clamp, Unlock
  <1>7. ASSUME NEW t \in Threads, Produce(t) \/ Consume(t) PROVE FlagIsSound'
    BY <1>0, <1>2, <1>7 DEF Produce, Consume
  <1>8. ASSUME NEW t \in Threads, Exit(t) PROVE FlagIsSound'
    <2>1. ~native /\ \A u \in Threads \ {t} : at[u] \notin Inside
      BY <1>0, <1>8 DEF Exit, FlagIsSound
    <2>2. at' = [at EXCEPT ![t] = "unwait"] /\ ~manual' /\ native' = native
      BY <1>8 DEF Exit
    <2>3. QED
      BY <1>0, <2>1, <2>2 DEF FlagIsSound
  <1>9. ASSUME NEW t \in Threads, Unwait(t) \/ Return(t) PROVE FlagIsSound'
    BY <1>0, <1>1, <1>9 DEF Unwait, Return
  <1>10. ASSUME NEW t \in Threads, NEW target \in 1..MaxClock, SetCalled(t, target)
         PROVE  FlagIsSound'
    BY <1>0, <1>1, <1>10 DEF SetCalled, Idle
  <1>11. ASSUME NEW t \in Threads, SetNextBlockTimestamp(t) PROVE FlagIsSound'
    BY <1>0, <1>1, <1>11 DEF SetNextBlockTimestamp
  <1>12. ASSUME NEW t \in Threads, NEW seconds \in BlockTimes, BlockTime(t, seconds)
         PROVE  FlagIsSound'
    BY <1>3, <1>12 DEF BlockTime, threadVars
  <1>13. CASE NodeProduces \/ Tick \/ UNCHANGED vars
    BY <1>3, <1>13 DEF NodeProduces, Tick, vars, threadVars
  <1>14. CASE NodeEnters \/ NodeLeaves
    BY <1>0, <1>14 DEF NodeEnters, NodeLeaves, threadVars, FlagIsSound
  <1>15. QED
    BY <1>4, <1>5, <1>6, <1>7, <1>8, <1>9, <1>10, <1>11, <1>12, <1>13, <1>14 DEF Next, Mine

\* A pushed block has a height above 0, and no other step moves the head.
LEMMA HeadStep == IInv /\ [Next]_vars => (height = 0 => lbht = 0)'
  <1> SUFFICES ASSUME IInv, [Next]_vars PROVE (height = 0 => lbht = 0)'
    OBVIOUS
  <1>1. height \in Nat /\ (height = 0 => lbht = 0)
    BY DEF IInv, TypeOK
  <1>2. height' = height + 1 \/ UNCHANGED <<height, lbht>>
    BY DEF Next, Mine, MineCalled, Enter, Lock, ReadSlot, ReadTime, Clamp, Produce, Push, Consume,
           Unlock, Exit, Unwait, Return, SetCalled, SetNextBlockTimestamp, BlockTime, NodeEnters,
           NodeProduces, NodeLeaves, Tick, vars, chainVars
  <1>3. QED
    BY <1>1, <1>2

\* Every step leaves a mine inside its loop a block to produce: it leaves the
\* loop with the last.
LEMMA LeftStep == IInv /\ [Next]_vars => BlocksLeft'
  <1> SUFFICES ASSUME TypeOK, BlocksLeft, [Next]_vars PROVE BlocksLeft'
    BY DEF IInv
  <1> USE DEF Goto, InLoop
  <1>0. at \in [Threads -> Steps] /\ left \in [Threads -> Nat]
    BY DEF TypeOK
  <1>1. ASSUME NEW t \in Threads, NEW blocks \in 1..MaxBatch, MineCalled(t, blocks)
        PROVE  BlocksLeft'
    BY <1>0, <1>1, BoundsAssumption DEF BlocksLeft, MineCalled
  <1>2. ASSUME NEW t \in Threads, Enter(t) \/ Lock(t) \/ ReadSlot(t) \/ ReadTime(t) \/ Clamp(t)
        PROVE  BlocksLeft'
    BY <1>0, <1>2 DEF BlocksLeft, Enter, Lock, ReadSlot, ReadTime, Clamp
  <1>3. ASSUME NEW t \in Threads, Produce(t) PROVE BlocksLeft'
    BY <1>0, <1>3 DEF BlocksLeft, Produce
  <1>4. ASSUME NEW t \in Threads, Consume(t) PROVE BlocksLeft'
    BY <1>0, <1>4 DEF BlocksLeft, Consume
  <1>5. ASSUME NEW t \in Threads, Unlock(t) \/ Exit(t) \/ Unwait(t) \/ Return(t)
        PROVE  BlocksLeft'
    BY <1>0, <1>5 DEF BlocksLeft, Unlock, Exit, Unwait, Return
  <1>6. ASSUME NEW t \in Threads, NEW target \in 1..MaxClock, SetCalled(t, target)
        PROVE  BlocksLeft'
    BY <1>0, <1>6 DEF BlocksLeft, SetCalled
  <1>7. ASSUME NEW t \in Threads, SetNextBlockTimestamp(t) PROVE BlocksLeft'
    BY <1>0, <1>7 DEF BlocksLeft, SetNextBlockTimestamp
  <1>8. ASSUME NEW t \in Threads, NEW seconds \in BlockTimes, BlockTime(t, seconds)
        PROVE  BlocksLeft'
    BY <1>8 DEF BlocksLeft, BlockTime, threadVars
  <1>9. CASE NodeEnters \/ NodeProduces \/ NodeLeaves \/ Tick \/ UNCHANGED vars
    BY <1>9 DEF BlocksLeft, NodeEnters, NodeProduces, NodeLeaves, Tick, vars, threadVars
  <1>10. QED
    BY <1>1, <1>2, <1>3, <1>4, <1>5, <1>6, <1>7, <1>8, <1>9 DEF Next, Mine

\* Every step keeps a mine that is alone on course: while it runs no other call
\* is inside the flag and the node does not produce, so nobody moves the head.
LEMMA CourseStep == IInv /\ [Next]_vars => OnCourse'
  <1> SUFFICES ASSUME IInv, [Next]_vars PROVE OnCourse'
    OBVIOUS
  <1> DEFINE Busy == {"slot", "time", "clamp", "produce"}
  <1> USE DEF Goto
  <1>0. /\ OnCourse /\ at \in [Threads -> Steps] /\ time \in [Threads -> Nat]
        /\ alone \in [Threads -> BOOLEAN] /\ lbht \in Nat /\ override \in Nat
    BY DEF IInv, TypeOK
  <1>1. \A t, u \in Threads : at[t] \in Inside /\ at[u] \in Busy => t = u
    BY DEF IInv, FlagIsSound, Inside, Producing
  <1>3. ASSUME UNCHANGED <<override, lbht, at, time, alone>> PROVE OnCourse'
    BY <1>0, <1>3 DEF OnCourse
  <1>4. ASSUME NEW t \in Threads, at'[t] \notin Busy,
               UNCHANGED <<override, lbht, alone>>,
               \A u \in Threads \ {t} : at'[u] = at[u] /\ time'[u] = time[u]
        PROVE  OnCourse'
    BY <1>0, <1>4 DEF OnCourse
  <1>5. ASSUME NEW t \in Threads, NEW blocks \in 1..MaxBatch, MineCalled(t, blocks)
        PROVE  OnCourse'
    BY <1>0, <1>4, <1>5 DEF MineCalled, chainVars
  <1>6. ASSUME NEW t \in Threads, Enter(t) \/ Unlock(t) \/ Exit(t) \/ Unwait(t) PROVE OnCourse'
    BY <1>0, <1>4, <1>6 DEF Enter, Unlock, Exit, Unwait, chainVars
  <1>7. ASSUME NEW t \in Threads, Lock(t) PROVE OnCourse'
    <2>1. \A u \in Threads \ {t} : at[u] \notin Busy /\ at'[u] = at[u]
      BY <1>0, <1>1, <1>7 DEF Lock, Inside
    <2>2. at'[t] = "slot" /\ (alone'[t] => override = 0 \/ override > lbht)
      BY <1>0, <1>7 DEF Lock
    <2>3. override' = override /\ lbht' = lbht
      BY <1>7 DEF Lock, chainVars
    <2>4. QED
      BY <2>1, <2>2, <2>3 DEF OnCourse
  <1>8. ASSUME NEW t \in Threads, ReadSlot(t) PROVE OnCourse'
    BY <1>0, <1>8 DEF OnCourse, ReadSlot, chainVars
  <1>9. ASSUME NEW t \in Threads, ReadTime(t) PROVE OnCourse'
    <2>1. override > 0 => time'[t] = override
      BY <1>0, <1>9 DEF ReadTime, GetTime
    <2>2. QED
      BY <1>0, <1>9, <2>1 DEF OnCourse, ReadTime, chainVars
  <1>10. ASSUME NEW t \in Threads, Clamp(t) PROVE OnCourse'
    <2>1. /\ override = 0 => time'[t] >= lbht + Second
          /\ override > 0 => time'[t] = time[t]
          /\ \A u \in Threads \ {t} : time'[u] = time[u]
      BY <1>0, <1>10, TimeAssumption DEF Clamp
    <2>2. at' = [at EXCEPT ![t] = "produce"] /\ at[t] = "clamp"
      BY <1>10 DEF Clamp
    <2>3. UNCHANGED <<override, lbht, alone>>
      BY <1>10 DEF Clamp, chainVars
    <2>4. QED
      BY <1>0, <2>1, <2>2, <2>3 DEF OnCourse
  <1>11. ASSUME NEW t \in Threads, Produce(t) PROVE OnCourse'
    <2>1. \A u \in Threads : at'[u] \notin Busy
      BY <1>0, <1>1, <1>11 DEF Produce, Inside, Producing
    <2>2. QED
      BY <2>1 DEF OnCourse
  <1>12. ASSUME NEW t \in Threads, Consume(t) PROVE OnCourse'
    <2>1. \A u \in Threads : at'[u] \in Busy => at'[u] = "slot"
      BY <1>0, <1>1, <1>12 DEF Consume, Inside, Producing
    <2>2. override' = 0
      BY <1>12 DEF Consume
    <2>3. QED
      BY <2>1, <2>2 DEF OnCourse
  <1>13. ASSUME NEW t \in Threads, Return(t) \/ SetNextBlockTimestamp(t) PROVE OnCourse'
    <2>1. /\ at' = [at EXCEPT ![t] = "idle"] /\ lbht' = lbht
          /\ \A u \in Threads \ {t} : time'[u] = time[u]
      BY <1>0, <1>13 DEF Return, SetNextBlockTimestamp, chainVars
    <2>2. \A u \in Threads \ {t} : alone'[u] => alone[u] /\ override' = override
      BY <1>0, <1>13 DEF Return, SetNextBlockTimestamp, Undisturbed
    <2>3. QED
      BY <1>0, <2>1, <2>2 DEF OnCourse
  <1>14. ASSUME NEW t \in Threads, NEW target \in 1..MaxClock, SetCalled(t, target)
         PROVE  OnCourse'
    BY <1>0, <1>4, <1>14 DEF SetCalled, chainVars
  <1>15. ASSUME NEW t \in Threads, NEW seconds \in BlockTimes, BlockTime(t, seconds)
         PROVE  OnCourse'
    BY <1>3, <1>15 DEF BlockTime, threadVars, chainVars
  <1>16. CASE NodeProduces
    <2>1. \A u \in Threads : at'[u] \notin Busy
      BY <1>16 DEF NodeProduces, threadVars, IInv, FlagIsSound, Inside, Producing
    <2>2. QED
      BY <2>1 DEF OnCourse
  <1>17. CASE NodeEnters \/ NodeLeaves \/ Tick \/ UNCHANGED vars
    BY <1>3, <1>17 DEF NodeEnters, NodeLeaves, Tick, vars, threadVars, chainVars
  <1>18. QED
    BY <1>5, <1>6, <1>7, <1>8, <1>9, <1>10, <1>11, <1>12, <1>13, <1>14, <1>15, <1>16, <1>17
       DEF Next, Mine

\* The strengthened invariant holds in every reachable state.
THEOREM Invariance == Spec => []IInv
  <1>1. IInv /\ [Next]_vars => IInv'
    BY TypeStep, FlagStep, HeadStep, LeftStep, CourseStep DEF IInv
  <1>2. QED
    BY InitIInv, <1>1, PTL DEF Spec

\* Every variable of the mining calls keeps its type: no batch counts below zero.
THEOREM TypeCorrect == Spec => []TypeOK
  <1>1. IInv => TypeOK
    BY DEF IInv
  <1>2. QED
    BY Invariance, <1>1, PTL

\* However calls overlap, among themselves and with the node's own production, and
\* fail, one mines at a time and the flag is never left up.
THEOREM FlagStaysSound == Spec => []FlagIsSound
  <1>1. IInv => FlagIsSound
    BY DEF IInv
  <1>2. QED
    BY Invariance, <1>1, PTL

\* Every slot to produce in lies after the head, whatever warps and block times
\* came before, and a head ahead of the clock does not stop the node.
THEOREM SlotsAlwaysAdvance == Spec => []SlotsAdvance
  <1>1. ASSUME IInv PROVE SlotsAdvance
    <2>1. TypeOK /\ (height = 0 => lbht = 0)
      BY <1>1 DEF IInv
    <2>2. GetSlot(now) \in Nat
      BY <2>1, SlotIsNat DEF TypeOK
    <2>3. override = 0 /\ GetSlot(now) # 0 => GetTime(GetSlot(now)) > lbht
      BY <2>1, <2>2, TimeOfSlot
    <2>4. override = 0 /\ now + interval <= lbht => GetSlot(now) # 0
      BY <2>1, AheadOfClock
    <2>5. QED
      BY <2>3, <2>4 DEF SlotsAdvance
  <1>2. QED
    BY Invariance, <1>1, PTL

\* A mine nobody disturbs is never refused, whichever mode and warp it follows:
\* not for any block of its batch.
THEOREM MinesAreNeverRefused == Spec => []NeverRefused
  <1>1. IInv => NeverRefused
    BY TimeAssumption DEF IInv, TypeOK, OnCourse, NeverRefused
  <1>2. QED
    BY Invariance, <1>1, PTL

\* Each block it makes has the timestamp asked for, or comes a second or more
\* after its parent.
THEOREM MinesOnTime == Spec => MinedOnTime
  <1> DEFINE OnTime(t) == at[t] = "produce" /\ at'[t] = "consume" /\ alone[t] =>
                             IF override # 0 THEN lbht' = override ELSE lbht' >= lbht + Second
  <1>1. ASSUME IInv, [Next]_vars, NEW t \in Threads, at[t] = "produce", at'[t] = "consume", alone[t]
        PROVE  IF override # 0 THEN lbht' = override ELSE lbht' >= lbht + Second
    <2>1. at \in [Threads -> Steps] /\ override \in Nat
      BY <1>1 DEF IInv, TypeOK
    <2>2. Produce(t)
      BY <1>1, <2>1 DEF Next, Mine, MineCalled, Enter, Lock, ReadSlot, ReadTime, Clamp, Produce,
             Consume, Unlock, Exit, Unwait, Return, SetCalled, SetNextBlockTimestamp, BlockTime,
             NodeEnters, NodeProduces, NodeLeaves, Tick, vars, threadVars, Goto
    <2>3. lbht' = time[t]
      BY <1>1, <2>1, <2>2 DEF Produce, Push, Goto
    <2>4. QED
      BY <1>1, <2>1, <2>3 DEF IInv, OnCourse
  <1>2. IInv /\ [Next]_vars => \A t \in Threads : OnTime(t)
    BY <1>1
  <1>3. QED
    BY Invariance, <1>2, PTL DEF Spec, MinedOnTime
=============================================================================
