---------------------------- MODULE Client_proofs ----------------------------
(***************************************************************************)
(* What is proved of the client.  ClientCalls, for any number of calls,    *)
(* factories and children: the impersonation the bridge believes in,       *)
(* contracts registered on demand, the types of its maps, and predictions  *)
(* paired with the children made.  Then ChainSession, for any times,       *)
(* batches and transactions: warps, mines, receipt waits and predicted     *)
(* deployments.                                                            *)
(***************************************************************************)
EXTENDS ClientCalls, ChainSession, FiniteSetTheorems, TLAPS

-----------------------------------------------------------------------------
(* Registration on demand                                                  *)

Steps == {"idle", "broadcast", "receipt", "reverted", "collided", "resimulate", "trigger", "code",
          "register", "grant", "granted", "stop", "stopped"}

Registering(a) == \E c \in Calls : step[c] = "register" /\ at[c] = a

\* What became of a child whose address counts as tried.
Accounted(a, k) == k \in stored \/ k \in undone \/ k \in failed \/ Registering(a)

\* Every address counted as tried is a child's that is registered, or was until a
\* revert, or is just being registered, or that the node did not register; a call
\* that triggers has no outcome yet.
TriedInv ==
    /\ step \in [Calls -> Steps]
    /\ at = [c \in Calls |-> at[c]] /\ outcome = [c \in Calls |-> outcome[c]]
    /\ \A c \in Calls : step[c] = "trigger" => outcome[c] = "none"
    /\ \A a \in tried : \E k : a = Real(k) /\ Accounted(a, k)

\* Nothing but call c moves, and not from register.
Moves(c) ==
    /\ step' \in [Calls -> Steps]
    /\ at' = [d \in Calls |-> at'[d]] /\ outcome' = [d \in Calls |-> outcome'[d]]
    /\ \A d \in Calls \ {c} : step'[d] = step[d] /\ at'[d] = at[d] /\ outcome'[d] = outcome[d]
    /\ step[c] # "register"

\* What ends moves one call.
LEMMA EndMoves ==
    ASSUME TriedInv, NEW c \in Calls, NEW how, End(c, how), step[c] # "register"
    PROVE  Moves(c) /\ step'[c] = "idle" /\ outcome'[c] = how
  BY DEF End, Goto, Moves, TriedInv, Steps

\* So does what goes on, at the same address or at another.
LEMMA GotoMoves ==
    ASSUME TriedInv, NEW c \in Calls, NEW s \in Steps, Goto(c, s), step[c] # "register",
           at' = at \/ (\E a : at' = [at EXCEPT ![c] = a]),
           outcome' = outcome \/ outcome' = [outcome EXCEPT ![c] = "none"]
    PROVE  Moves(c) /\ step'[c] = s /\ (outcome'[c] = outcome[c] \/ outcome'[c] = "none")
  BY DEF Goto, Moves, TriedInv

\* A call that moves leaves what is registered, and what is tried, alone.
LEMMA MovesKeep ==
    ASSUME TriedInv, NEW c \in Calls, Moves(c), step'[c] = "trigger" => outcome'[c] = "none",
           UNCHANGED <<stored, undone, failed, tried>>
    PROVE  TriedInv'
  <1>1. \A a : Registering(a) => Registering(a)'
    BY DEF Registering, Moves
  <1>2. \A d \in Calls : step'[d] = "trigger" => outcome'[d] = "none"
    BY DEF Moves, TriedInv
  <1>3. QED
    BY <1>1, <1>2 DEF TriedInv, Moves, Steps, Accounted

\* The calls that end as soon as they begin.
LEMMA ShortMoves ==
    ASSUME TriedInv, NEW c \in Calls,
           \/ \E f \in Factories : View(c, f)
           \/ \E f \in Factories, s \in Salts, payable \in BOOLEAN : StaticCall(c, f, s, payable)
           \/ \E a : SendBound(c, a) \/ SendImpersonated(c, a)
    PROVE  Moves(c) /\ step[c] = "idle" /\ step'[c] = "idle" /\ UNCHANGED <<stored, undone, failed, tried>>
  <1>1. ASSUME NEW f \in Factories, View(c, f)
        PROVE  step[c] = "idle" /\ End(c, "returned") /\ UNCHANGED <<stored, undone, failed, tried>>
    BY <1>1 DEF View, Begin, nodeVars
  <1>2. ASSUME NEW f \in Factories, NEW s \in Salts, NEW payable \in BOOLEAN, StaticCall(c, f, s, payable)
        PROVE  step[c] = "idle" /\ End(c, "returned") /\ UNCHANGED <<stored, undone, failed, tried>>
    BY <1>2 DEF StaticCall, Begin, nodeVars
  <1>3. ASSUME NEW a, SendBound(c, a) \/ SendImpersonated(c, a)
        PROVE  step[c] = "idle" /\ (\E how : End(c, how)) /\ UNCHANGED <<stored, undone, failed, tried>>
    BY <1>3 DEF SendBound, SendImpersonated, Begin, nodeVars, history
  <1>4. step[c] = "idle" /\ (\E how : End(c, how)) /\ UNCHANGED <<stored, undone, failed, tried>>
    BY <1>1, <1>2, <1>3
  <1>5. QED
    BY <1>4, EndMoves

\* A call that creates children, and what becomes of it.
LEMMA CreateMoves ==
    ASSUME TriedInv, NEW c \in Calls,
           \/ \E f \in Factories : \E salts : Create(c, f, salts)
           \/ Broadcast(c) \/ Receipt(c) \/ Resimulate(c)
    PROVE  /\ Moves(c) /\ UNCHANGED <<stored, undone, failed, tried>>
           /\ step[c] # "trigger" /\ step'[c] # "trigger"
  <1>1. ASSUME NEW f \in Factories, NEW salts, Create(c, f, salts)
        PROVE  /\ Moves(c) /\ UNCHANGED <<stored, undone, failed, tried>>
               /\ step[c] # "trigger" /\ step'[c] # "trigger"
    <2>1. /\ step[c] = "idle" /\ Goto(c, "broadcast") /\ (\E a : at' = [at EXCEPT ![c] = a])
          /\ outcome' = [outcome EXCEPT ![c] = "none"]
          /\ UNCHANGED <<stored, undone, failed, tried>>
      BY <1>1 DEF Create, Begin, nodeVars
    <2>2. Moves(c) /\ step'[c] = "broadcast"
      BY <2>1, GotoMoves DEF Steps
    <2>3. QED
      BY <2>1, <2>2
  <1>2. CASE Broadcast(c)
    <2>1. /\ step[c] = "broadcast" /\ (\E s \in {"receipt", "reverted", "collided"} : Goto(c, s))
          /\ UNCHANGED <<at, outcome, stored, undone, failed, tried>>
      BY <1>2 DEF Broadcast
    <2>2. PICK s \in {"receipt", "reverted", "collided"} : Goto(c, s)
      BY <2>1
    <2>3. Moves(c) /\ step'[c] = s
      BY <2>1, <2>2, GotoMoves DEF Steps
    <2>4. QED
      BY <2>1, <2>2, <2>3
  <1>3. CASE Receipt(c)
    <2>1. /\ step[c] \in {"receipt", "reverted", "collided"} /\ UNCHANGED <<stored, undone, failed, tried>>
          /\ \/ Goto(c, "resimulate") /\ UNCHANGED <<at, outcome>>
             \/ \E how : End(c, how)
      BY <1>3 DEF Receipt, nodeVars
    <2>2. CASE Goto(c, "resimulate") /\ UNCHANGED <<at, outcome>>
      BY <2>1, <2>2, GotoMoves DEF Steps
    <2>3. CASE \E how : End(c, how)
      BY <2>1, <2>3, EndMoves
    <2>4. QED
      BY <2>1, <2>2, <2>3
  <1>4. CASE Resimulate(c)
    <2>1. step[c] = "resimulate" /\ End(c, "reverted") /\ UNCHANGED <<stored, undone, failed, tried>>
      BY <1>4 DEF Resimulate, nodeVars
    <2>2. QED
      BY <2>1, EndMoves
  <1>5. QED
    BY <1>1, <1>2, <1>3, <1>4

\* A raw send before it asks for the code.
LEMMA SendMoves ==
    ASSUME TriedInv, NEW c \in Calls, (\E a : SendCallTx(c, a)) \/ Trigger(c)
    PROVE  /\ Moves(c) /\ UNCHANGED <<stored, undone, failed, tried>>
           /\ step'[c] = "trigger" => outcome'[c] = "none"
           /\ step[c] = "trigger" => Trigger(c)
  <1>1. ASSUME NEW a, SendCallTx(c, a)
        PROVE  /\ Moves(c) /\ UNCHANGED <<stored, undone, failed, tried>> /\ outcome'[c] = "none"
               /\ step[c] = "idle"
    <2>1. /\ step[c] = "idle" /\ Goto(c, "trigger") /\ (\E b : at' = [at EXCEPT ![c] = b])
          /\ outcome' = [outcome EXCEPT ![c] = "none"]
          /\ UNCHANGED <<stored, undone, failed, tried>>
      BY <1>1 DEF SendCallTx, Begin, nodeVars, history
    <2>2. Moves(c)
      BY <2>1, GotoMoves DEF Steps
    <2>3. outcome'[c] = "none"
      BY <2>1 DEF TriedInv
    <2>4. QED
      BY <2>1, <2>2, <2>3
  <1>2. CASE Trigger(c)
    <2>1. /\ step[c] = "trigger" /\ UNCHANGED <<stored, undone, failed, tried>>
          /\ \/ \E how : End(c, how)
             \/ Goto(c, "code") /\ UNCHANGED <<at, outcome>>
      BY <1>2 DEF Trigger, nodeVars, history
    <2>2. CASE \E how : End(c, how)
      BY <2>1, <2>2, <1>2, EndMoves
    <2>3. CASE Goto(c, "code") /\ UNCHANGED <<at, outcome>>
      BY <2>1, <2>3, <1>2, GotoMoves DEF Steps
    <2>4. QED
      BY <2>1, <2>2, <2>3
  <1>3. QED
    BY <1>1, <1>2

\* Asking for the code is what makes an address tried: then it has code, and the
\* call goes on to register it.
LEMMA GetCodeKeeps ==
    ASSUME TriedInv, NEW c \in Calls, GetCode(c)
    PROVE  Moves(c) /\ TriedInv'
  <1>0. /\ step[c] = "code" /\ UNCHANGED <<stored, undone, failed>>
        /\ \/ /\ HasCode(at[c]) /\ Goto(c, "register") /\ UNCHANGED <<at, outcome>>
              /\ tried' = tried \cup {at[c]}
           \/ End(c, "refused") /\ tried' = tried
    BY DEF GetCode, nodeVars, history
  <1>1. CASE /\ HasCode(at[c]) /\ Goto(c, "register") /\ UNCHANGED <<at, outcome>>
             /\ tried' = tried \cup {at[c]}
    <2>1. Moves(c) /\ step'[c] = "register"
      BY <1>0, <1>1, GotoMoves DEF Steps
    <2>2. Registering(at[c])' /\ \A a : Registering(a) => Registering(a)'
      BY <1>0, <1>1, <2>1 DEF Registering, Moves
    <2>3. PICK k : at[c] = Real(k)
      BY <1>1 DEF HasCode
    <2>4. \A a \in tried' : \E l : a = Real(l) /\ Accounted(a, l)'
      BY <1>0, <1>1, <2>2, <2>3 DEF TriedInv, Accounted
    <2>5. \A d \in Calls : step'[d] = "trigger" => outcome'[d] = "none"
      BY <1>0, <1>1, <2>1 DEF TriedInv, Moves, Steps
    <2>6. QED
      BY <2>1, <2>4, <2>5 DEF TriedInv, Moves, Steps
  <1>2. CASE End(c, "refused") /\ tried' = tried
    <2>1. Moves(c) /\ step'[c] = "idle"
      BY <1>0, <1>2, EndMoves
    <2>2. QED
      BY <1>0, <1>2, <2>1, MovesKeep
  <1>3. QED
    BY <1>0, <1>1, <1>2

\* What a call that grants or stops the impersonation does.
GrantSteps == {"grant", "granted", "stop", "stopped"}
Granting(c) == \/ Impersonate(c) \/ GrantServed(c) \/ GrantAnswered(c)
               \/ StopImpersonating(c) \/ StopServed(c) \/ StopAnswered(c) \/ ExchangeBreaks(c)

LEMMA GrantMoves ==
    ASSUME TriedInv, NEW c \in Calls, Granting(c)
    PROVE  /\ Moves(c) /\ UNCHANGED <<stored, undone, failed, tried>>
           /\ step[c] # "trigger" /\ step'[c] # "trigger"
  <1>1. /\ step[c] \in {"idle"} \cup GrantSteps /\ UNCHANGED <<stored, undone, failed, tried>>
        /\ \/ (\E s \in GrantSteps : Goto(c, s)) /\ UNCHANGED <<at, outcome>>
           \/ End(c, "returned")
    BY DEF Granting, GrantSteps, Impersonate, GrantServed, GrantAnswered, StopImpersonating, StopServed,
           StopAnswered, ExchangeBreaks, Wants, Begin, nodeVars, history
  <1>2. CASE (\E s \in GrantSteps : Goto(c, s)) /\ UNCHANGED <<at, outcome>>
    <2>1. PICK s \in GrantSteps : Goto(c, s)
      BY <1>2
    <2>2. Moves(c) /\ step'[c] = s
      BY <1>1, <1>2, <2>1, GotoMoves DEF GrantSteps, Steps
    <2>3. QED
      BY <1>1, <2>2 DEF GrantSteps
  <1>3. CASE End(c, "returned")
    <2>1. Moves(c) /\ step'[c] = "idle"
      BY <1>1, <1>3, EndMoves DEF GrantSteps
    <2>2. QED
      BY <1>1, <2>1 DEF GrantSteps
  <1>4. QED
    BY <1>1, <1>2, <1>3

\* Registration ends with the child in ContractStore, or in failed.
LEMMA AutoRegisterKeeps ==
    ASSUME TriedInv, NEW c \in Calls, AutoRegister(c)
    PROVE  TriedInv' /\ \A d \in Calls \ {c} : outcome'[d] = outcome[d]
  <1>1. /\ (\E how : End(c, how)) /\ UNCHANGED <<undone, tried>>
        /\ \/ stored' = stored \cup {at[c][2]} /\ failed' = failed
           \/ stored' = stored /\ failed' = failed \cup {at[c][2]}
    BY DEF AutoRegister
  <1>2. PICK how : /\ step' = [step EXCEPT ![c] = "idle"] /\ at' = [at EXCEPT ![c] = Nowhere]
                   /\ outcome' = [outcome EXCEPT ![c] = how]
    BY <1>1 DEF End, Goto
  <1>3. \A a : Registering(a) => Registering(a)' \/ a = at[c]
    BY <1>2 DEF Registering, TriedInv
  <1>4. stored \subseteq stored' /\ failed \subseteq failed'
        /\ \A k : at[c] = Real(k) => k \in stored' \/ k \in failed'
    BY <1>1 DEF Real
  <1>5. \A a \in tried' : \E k : a = Real(k) /\ Accounted(a, k)'
    <2>1. SUFFICES ASSUME NEW a \in tried PROVE \E k : a = Real(k) /\ Accounted(a, k)'
      BY <1>1
    <2>2. PICK k : a = Real(k) /\ Accounted(a, k)
      BY DEF TriedInv
    <2>3. Accounted(a, k)'
      BY <1>1, <1>3, <1>4, <2>2 DEF Accounted
    <2>4. QED
      BY <2>2, <2>3
  <1>6. QED
    BY <1>2, <1>5 DEF TriedInv, Steps

\* A revert takes registrations back, and remembers which.
LEMMA RevertKeeps ==
    ASSUME TriedInv, RevertFixture
    PROVE  TriedInv'
  <1>1. /\ stored' = fixture.stored /\ undone' = undone \cup (stored \ fixture.stored)
        /\ UNCHANGED <<tried, failed, step, at, outcome>>
    BY DEF RevertFixture, callVars
  <1>2. \A a, k : Accounted(a, k) => Accounted(a, k)'
    BY <1>1 DEF Accounted, Registering
  <1>3. QED
    BY <1>1, <1>2 DEF TriedInv

\* Every step keeps the invariant; what it says of each address is left as it is by
\* all steps but those of GetCode, AutoRegister and a revert.
LEMMA TriedStep ==
    ASSUME TriedInv, [Next]_vars
    PROVE  TriedInv'
  <1>1. CASE \E c \in Calls :
                \/ \E f \in Factories : View(c, f)
                \/ \E f \in Factories, s \in Salts, payable \in BOOLEAN : StaticCall(c, f, s, payable)
                \/ \E a : SendBound(c, a) \/ SendImpersonated(c, a)
    <2>1. PICK c \in Calls : /\ Moves(c) /\ step'[c] = "idle"
                             /\ UNCHANGED <<stored, undone, failed, tried>>
      BY <1>1, ShortMoves
    <2>2. QED
      BY <2>1, MovesKeep
  <1>2. CASE \E c \in Calls : \/ \E f \in Factories : \E salts : Create(c, f, salts)
                              \/ Broadcast(c) \/ Receipt(c) \/ Resimulate(c)
    BY <1>2, CreateMoves, MovesKeep
  <1>3. CASE \E c \in Calls : (\E a : SendCallTx(c, a)) \/ Trigger(c)
    BY <1>3, SendMoves, MovesKeep
  <1>4. CASE \E c \in Calls : GetCode(c)
    BY <1>4, GetCodeKeeps
  <1>5. CASE \E c \in Calls : AutoRegister(c)
    BY <1>5, AutoRegisterKeeps
  <1>6. CASE RevertFixture
    BY <1>6, RevertKeeps
  <1>7. CASE \E c \in Calls : Granting(c)
    BY <1>7, GrantMoves, MovesKeep
  <1>8. CASE (\E request \in {"grant", "stop"} : LateServed(request)) \/ TakeFixture \/ UNCHANGED vars
    <2>1. UNCHANGED <<step, at, outcome, tried, stored, undone, failed>>
      BY <1>8 DEF LateServed, TakeFixture, vars, nodeVars, callVars, history
    <2>2. QED
      BY <2>1 DEF TriedInv, Accounted, Registering
  <1>9. QED
    BY <1>1, <1>2, <1>3, <1>4, <1>5, <1>6, <1>7, <1>8 DEF Next, Granting

\* A step that leaves a triggering call refused is that call's trigger.
LEMMA OnlyTriggerRefuses ==
    ASSUME TriedInv, Next, NEW c \in Calls, step[c] = "trigger", outcome'[c] = "refused"
    PROVE  Trigger(c)
  <1>0. outcome[c] = "none"
    BY DEF TriedInv
  <1>1. ASSUME NEW d \in Calls, Moves(d), step[d] # "trigger" PROVE FALSE
    BY <1>0, <1>1 DEF Moves
  <1>2. CASE \E d \in Calls :
                \/ \E f \in Factories : View(d, f)
                \/ \E f \in Factories, s \in Salts, payable \in BOOLEAN : StaticCall(d, f, s, payable)
                \/ \E a : SendBound(d, a) \/ SendImpersonated(d, a)
    BY <1>1, <1>2, ShortMoves
  <1>3. CASE \E d \in Calls : \/ \E f \in Factories : \E salts : Create(d, f, salts)
                              \/ Broadcast(d) \/ Receipt(d) \/ Resimulate(d)
    BY <1>1, <1>3, CreateMoves
  <1>4. CASE \E d \in Calls : (\E a : SendCallTx(d, a)) \/ Trigger(d)
    <2>1. PICK d \in Calls : Moves(d) /\ (step[d] = "trigger" => Trigger(d))
      BY <1>4, SendMoves
    <2>2. d = c
      BY <1>0, <2>1 DEF Moves
    <2>3. QED
      BY <2>1, <2>2
  <1>5. CASE \E d \in Calls : GetCode(d)
    BY <1>1, <1>5, GetCodeKeeps DEF GetCode
  <1>6. CASE \E d \in Calls : AutoRegister(d)
    <2>1. PICK d \in Calls : AutoRegister(d)
      BY <1>6
    <2>2. d # c
      BY <2>1 DEF AutoRegister
    <2>3. QED
      BY <1>0, <2>1, <2>2, AutoRegisterKeeps
  <1>7. CASE \E d \in Calls : Granting(d)
    BY <1>1, <1>7, GrantMoves
  <1>8. CASE (\E request \in {"grant", "stop"} : LateServed(request)) \/ TakeFixture \/ RevertFixture
    BY <1>0, <1>8 DEF LateServed, TakeFixture, RevertFixture, callVars
  <1>9. QED
    BY <1>2, <1>3, <1>4, <1>5, <1>6, <1>7, <1>8 DEF Next, Granting

\* A raw send to a contract with code is refused unasked only beside a send that is
\* just registering the contract, after a registration the node did not make, or after
\* a revert has taken one back: that an address counts as tried costs nothing else.
THEOREM RefusalExplained == Spec => RefusedOnlyWhenTried
  <1> DEFINE Explained ==
        \A c \in Calls : step[c] = "trigger" /\ outcome'[c] = "refused" /\ HasCode(at[c]) =>
            \/ at[c][2] \in undone \cup failed
            \/ \E d \in Calls \ {c} : at[d] = at[c] /\ step[d] = "register"
  <1>1. Init => TriedInv
    BY DEF Init, TriedInv, Steps
  <1>2. TriedInv /\ [Next]_vars => TriedInv'
    BY TriedStep
  <1>3. TriedInv /\ [Next]_vars => [Explained]_vars
    <2> SUFFICES ASSUME TriedInv, Next, NEW c \in Calls,
                        step[c] = "trigger", outcome'[c] = "refused", HasCode(at[c])
                 PROVE  \/ at[c][2] \in undone \cup failed
                        \/ \E d \in Calls \ {c} : at[d] = at[c] /\ step[d] = "register"
      OBVIOUS
    <2>1. Trigger(c)
      BY OnlyTriggerRefuses
    <2>2. ~Callable(at[c]) /\ at[c] \in tried
      BY <2>1 DEF Trigger, End, TriedInv
    <2>3. PICK k : at[c] = Real(k) /\ Accounted(at[c], k)
      BY <2>2 DEF TriedInv
    <2>4. k \notin stored /\ at[c][2] = k
      BY <2>2, <2>3 DEF Callable, Real
    <2>5. QED
      BY <2>3, <2>4 DEF Accounted, Registering
  <1> HIDE DEF Explained
  <1>4. Spec => [][Explained]_vars
    BY <1>1, <1>2, <1>3, PTL DEF Spec
  <1>5. QED
    BY <1>4 DEF RefusedOnlyWhenTried, Explained

-----------------------------------------------------------------------------
(* Impersonation                                                           *)

\* While the node does not grant, and no stop has come late or beside, no grant is
\* being answered, and the bridge believes in one only beside a stop.
InStep ==
    /\ step \in [Calls -> Steps]
    /\ \/ listed \/ crossed
       \/ /\ \A c \in Calls : step[c] # "granted"
          /\ local => \E c \in Calls : step[c] \in {"stop", "stopped"}

\* The other calls neither grant nor stop anything.
Others(c) ==
    \/ \E f \in Factories : View(c, f)
    \/ \E f \in Factories, s \in Salts, payable \in BOOLEAN : StaticCall(c, f, s, payable)
    \/ \E f \in Factories : \E salts : Create(c, f, salts)
    \/ Broadcast(c) \/ Receipt(c) \/ Resimulate(c)
    \/ \E a : SendBound(c, a) \/ SendImpersonated(c, a) \/ SendCallTx(c, a)
    \/ Trigger(c) \/ GetCode(c) \/ AutoRegister(c)

LEMMA OthersAside ==
    ASSUME NEW c \in Calls, Others(c)
    PROVE  /\ step[c] \notin GrantSteps /\ (\E s \in Steps \ GrantSteps : Goto(c, s))
           /\ UNCHANGED <<listed, grantVars>>
  <1> USE DEF GrantSteps, Steps, End, nodeVars, grantVars
  <1>1. CASE \E f \in Factories : View(c, f)
    BY <1>1 DEF View, Begin
  <1>2. CASE \E f \in Factories, s \in Salts, payable \in BOOLEAN : StaticCall(c, f, s, payable)
    BY <1>2 DEF StaticCall, Begin
  <1>3. CASE \E f \in Factories : \E salts : Create(c, f, salts)
    BY <1>3 DEF Create, Begin
  <1>4. CASE Broadcast(c)
    BY <1>4 DEF Broadcast
  <1>5. CASE Receipt(c)
    BY <1>5 DEF Receipt
  <1>6. CASE Resimulate(c)
    BY <1>6 DEF Resimulate
  <1>7. CASE \E a : SendBound(c, a) \/ SendImpersonated(c, a) \/ SendCallTx(c, a)
    BY <1>7 DEF SendBound, SendImpersonated, SendCallTx, Begin
  <1>8. CASE Trigger(c)
    BY <1>8 DEF Trigger
  <1>9. CASE GetCode(c)
    BY <1>9 DEF GetCode
  <1>10. CASE AutoRegister(c)
    BY <1>10 DEF AutoRegister
  <1>11. QED
    BY <1>1, <1>2, <1>3, <1>4, <1>5, <1>6, <1>7, <1>8, <1>9, <1>10 DEF Others

LEMMA OthersInStep ==
    ASSUME InStep, NEW c \in Calls, step[c] \notin GrantSteps, NEW s \in Steps \ GrantSteps, Goto(c, s),
           UNCHANGED <<listed, grantVars>>
    PROVE  InStep'
  <1>1. step' = [step EXCEPT ![c] = s] /\ step' \in [Calls -> Steps]
    BY DEF Goto, InStep
  <1>2. \A d \in Calls : d = c \/ step'[d] = step[d]
    BY <1>1 DEF InStep
  <1>3. step'[c] \notin GrantSteps
    BY <1>1 DEF InStep
  <1>4. QED
    BY <1>1, <1>2, <1>3 DEF InStep, GrantSteps, grantVars

\* Call c goes to s, and no other moves.
Only(c, s) == /\ step' \in [Calls -> Steps] /\ step'[c] = s
              /\ \A d \in Calls \ {c} : step'[d] = step[d]

LEMMA OnlyGoes ==
    ASSUME InStep, NEW c \in Calls, NEW s \in Steps, Goto(c, s)
    PROVE  Only(c, s)
  BY DEF InStep, Goto, Only

\* A grant served lists the account; a stop served crosses the grants being answered.
LEMMA GrantInStep ==
    ASSUME InStep, NEW c \in Calls, Granting(c)
    PROVE  InStep'
  <1>1. CASE Impersonate(c)
    <2>1. step[c] = "idle" /\ Goto(c, "grant") /\ UNCHANGED <<listed, local, crossed>>
      BY <1>1 DEF Impersonate, Begin, nodeVars, grantVars
    <2>2. QED
      BY <2>1, OnlyGoes DEF InStep, Steps, Only
  <1>2. CASE GrantServed(c)
    <2>1. Goto(c, "granted") /\ listed' = TRUE
      BY <1>2 DEF GrantServed
    <2>2. QED
      BY <2>1, OnlyGoes DEF InStep, Steps, Only
  <1>3. CASE GrantAnswered(c)
    <2>1. step[c] = "granted" /\ Goto(c, "idle") /\ UNCHANGED <<listed, crossed>>
      BY <1>3 DEF GrantAnswered, End, nodeVars
    <2>2. QED
      BY <2>1, OnlyGoes DEF InStep, Steps, Only
  <1>4. CASE StopImpersonating(c)
    <2>1. step[c] = "idle" /\ Goto(c, "stop") /\ UNCHANGED <<listed, local, crossed>>
      BY <1>4 DEF StopImpersonating, Begin, nodeVars, grantVars
    <2>2. QED
      BY <2>1, OnlyGoes DEF InStep, Steps, Only
  <1>5. CASE StopServed(c)
    <2>1. /\ step[c] = "stop" /\ Goto(c, "stopped")
          /\ crossed' = (crossed \/ \E d \in Calls : step[d] = "granted")
      BY <1>5 DEF StopServed
    <2>2. QED
      BY <2>1, OnlyGoes DEF InStep, Steps, Only
  <1>6. CASE StopAnswered(c)
    <2>1. step[c] = "stopped" /\ Goto(c, "idle") /\ UNCHANGED <<listed, crossed>> /\ local' = FALSE
      BY <1>6 DEF StopAnswered, End, nodeVars
    <2>2. QED
      BY <2>1, OnlyGoes DEF InStep, Steps, Only
  <1>7. CASE ExchangeBreaks(c) /\ step[c] \in {"grant", "granted"}
    <2>1. (Goto(c, "grant") \/ Goto(c, "idle")) /\ UNCHANGED <<listed, crossed>>
      BY <1>7 DEF ExchangeBreaks, Wants, End, nodeVars
    <2>2. local' = local \/ local' = (local /\ Wants(c) = "grant")
      BY <1>7 DEF ExchangeBreaks
    <2>3. local' => local
      BY <2>2, Zenon
    <2>4. Only(c, "grant") \/ Only(c, "idle")
      BY <2>1, OnlyGoes DEF Steps
    <2>5. (\E d \in Calls : step[d] \in {"stop", "stopped"}) => \E d \in Calls : step'[d] \in {"stop", "stopped"}
      BY <1>7, <2>4 DEF Only
    <2>6. (\A d \in Calls : step[d] # "granted") => \A d \in Calls : step'[d] # "granted"
      BY <1>7, <2>4 DEF Only
    <2>7. QED
      BY <2>1, <2>3, <2>4, <2>5, <2>6 DEF InStep, Only
  <1>8. CASE ExchangeBreaks(c) /\ step[c] \in {"stop", "stopped"}
    <2>1. /\ UNCHANGED <<listed, crossed>>
          /\ (Goto(c, "stop") /\ local' = local) \/ (Goto(c, "idle") /\ ~local')
      BY <1>8 DEF ExchangeBreaks, Wants, End, nodeVars
    <2>2. QED
      BY <1>8, <2>1, OnlyGoes DEF InStep, Steps, Only
  <1>9. QED
    BY <1>1, <1>2, <1>3, <1>4, <1>5, <1>6, <1>7, <1>8 DEF Granting, ExchangeBreaks

LEMMA InStepAlways == Spec => []InStep
  <1>1. Init => InStep
    BY DEF Init, InStep, Steps
  <1>2. InStep /\ [Next]_vars => InStep'
    <2> SUFFICES ASSUME InStep, [Next]_vars PROVE InStep'
      OBVIOUS
    <2>1. CASE \E c \in Calls : Granting(c)
      BY <2>1, GrantInStep
    <2>2. CASE (\E request \in {"grant", "stop"} : LateServed(request))
      BY <2>2 DEF LateServed, InStep, callVars
    <2>3. CASE TakeFixture \/ RevertFixture \/ UNCHANGED vars
      BY <2>3 DEF TakeFixture, RevertFixture, vars, nodeVars, grantVars, callVars, InStep
    <2>4. CASE \E c \in Calls : Others(c)
      BY <2>4, OthersAside, OthersInStep
    <2>5. QED
      BY <2>1, <2>2, <2>3, <2>4 DEF Next, Granting, Others
  <1>3. QED
    BY <1>1, <1>2, PTL DEF Spec

\* The list, the local set and the requests on the wire keep their types.
GrantOK == listed \in BOOLEAN /\ local \in BOOLEAN /\ onWire \subseteq {"grant", "stop"}

LEMMA GrantTyped == Spec => []GrantOK
  <1>1. Init => GrantOK
    BY DEF Init, GrantOK
  <1>2. GrantOK /\ [Next]_vars => GrantOK'
    <2> SUFFICES ASSUME GrantOK, [Next]_vars PROVE GrantOK'
      OBVIOUS
    <2>1. ASSUME UNCHANGED <<listed, grantVars>> PROVE GrantOK'
      BY <2>1, Zenon DEF GrantOK, grantVars
    <2>2. ASSUME NEW c \in Calls, Granting(c) PROVE GrantOK'
      <3>1. listed' = listed \/ listed' = TRUE \/ listed' = FALSE
        BY <2>2 DEF Granting, Impersonate, GrantServed, GrantAnswered, StopImpersonating, StopServed,
                    StopAnswered, ExchangeBreaks, nodeVars
      <3>2. local' = local \/ local' = TRUE \/ local' = FALSE \/ local' = (local /\ Wants(c) = "grant")
        BY <2>2 DEF Granting, Impersonate, GrantServed, GrantAnswered, StopImpersonating, StopServed,
                    StopAnswered, ExchangeBreaks, grantVars
      <3>3. onWire' \in {onWire, onWire \cup {Wants(c)}} /\ Wants(c) \in {"grant", "stop"}
        BY <2>2 DEF Granting, Impersonate, GrantServed, GrantAnswered, StopImpersonating, StopServed,
                    StopAnswered, ExchangeBreaks, Wants, grantVars
      <3>4. listed' \in BOOLEAN
        BY <3>1, Zenon DEF GrantOK
      <3>5. local' \in BOOLEAN
        BY <3>2, Zenon DEF GrantOK
      <3>6. QED
        BY <3>3, <3>4, <3>5 DEF GrantOK
    <2>3. ASSUME NEW request \in {"grant", "stop"}, LateServed(request) PROVE GrantOK'
      <3>1. listed' = (request = "grant") /\ local' = local /\ onWire' \subseteq onWire
        BY <2>3 DEF LateServed
      <3>2. listed' \in BOOLEAN /\ local' \in BOOLEAN
        BY <3>1, Zenon DEF GrantOK
      <3>3. QED
        BY <3>1, <3>2 DEF GrantOK
    <2>4. CASE TakeFixture \/ RevertFixture \/ UNCHANGED vars
      BY <2>1, <2>4 DEF TakeFixture, RevertFixture, vars, nodeVars
    <2>5. CASE \E c \in Calls : Others(c)
      BY <2>1, <2>5, OthersAside
    <2>6. QED
      BY <2>2, <2>3, <2>4, <2>5 DEF Next, Granting, Others
  <1>3. QED
    BY <1>1, <1>2, PTL DEF Spec

\* The node grants whatever the bridge believes in, but beside a stop, after one that
\* came late, or after one served between a grant and its answer: no revert takes a
\* grant back, and a lost answer leaves only the node with one.
THEOREM ImpersonationInStep == Spec => []LocalIsListed
  <1>1. InStep => LocalIsListed
    BY DEF InStep, LocalIsListed
  <1>2. QED
    BY <1>1, InStepAlways, PTL

-----------------------------------------------------------------------------
(* Types and predictions                                                   *)

Making == {"broadcast", "receipt", "reverted", "collided", "resimulate"}
Sending == {"trigger", "code", "register"}
Lists == {<<s>> : s \in Salts} \cup {<<s, t>> : s, t \in Salts}
Single == {<<s>> : s \in Salts}
Entries == [nr : Nat \ {0}, caller : Factories, returned : Addresses]

\* The stores, and what is tried.
StoresOK ==
    /\ code \subseteq Children /\ stored \subseteq code
    /\ fixture.code \subseteq Children /\ fixture.stored \subseteq fixture.code
    /\ tried \subseteq Predictions \cup Actuals

\* The two maps.  Entries are in an order; each but a view's is its caller's child,
\* and is led to one of its caller's.
MapsOK ==
    /\ DOMAIN evmToTvm \subseteq Predictions \cup {Account}
    /\ \A a \in DOMAIN evmToTvm : evmToTvm[a] \in Actuals
    /\ pending \subseteq Entries /\ IsFiniteSet(pending) /\ Cardinality(pending) <= PendingLimit
    /\ \A e, d \in pending : e.nr = d.nr => e = d
    /\ \A e \in pending : e.returned = Account \/ \E s \in Salts : e.returned = Sim(<<e.caller, s>>)
    /\ NeverCrossesCallers

\* What call c is about, by its step.
Placed(c) ==
    /\ step[c] \in Making => makes[c] \in Lists /\ \E f \in Factories : at[c] = <<"factory", f>>
    /\ step[c] \in Sending => at[c] \in Predictions \cup Actuals
    /\ step[c] = "register" => HasCode(at[c])

CallsOK ==
    /\ step \in [Calls -> Steps]
    /\ at = [c \in Calls |-> at[c]] /\ outcome = [c \in Calls |-> outcome[c]]
    /\ makes \in [Calls -> {<<>>} \cup Lists]
    /\ asked \in [Factories -> {<<>>} \cup Single]
    /\ \A c \in Calls : Placed(c)

NewestOf(f) == {e \in PendingOf(f) : \A d \in PendingOf(f) : d.nr <= e.nr}
MadeOf(f) == {c \in Calls : at[c] = <<"factory", f>> /\ step[c] \in {"receipt", "reverted", "collided"}}

\* In turn, a factory has one call under way; until it is broadcast it is what was
\* asked for last, and what was asked for last is predicted by the newest entry.
InTurn ==
    /\ \A c, d \in Calls : step[c] \in Making /\ step[d] \in Making /\ at[c] = at[d] => c = d
    /\ \A c \in Calls, f \in Factories : step[c] = "broadcast" /\ at[c] = <<"factory", f>> =>
          asked[f] \in {<<>>, <<Head(makes[c])>>}
    /\ \A f \in Factories : MadeOf(f) # {} => asked[f] = <<>>
    /\ \A f \in Factories : \A e \in NewestOf(f) :
          \/ asked[f] # <<>> /\ e.returned = Sim(<<f, Head(asked[f])>>)
          \/ \E c \in MadeOf(f) : e.returned = Sim(<<f, Head(makes[c])>>)

Paired == InTurnMapsToTwin /\ (strayed = {} => InTurn)

\* Nobody but call c moves.
Shifts(c) ==
    /\ step' \in [Calls -> Steps]
    /\ at' = [d \in Calls |-> at'[d]] /\ outcome' = [d \in Calls |-> outcome'[d]]
    /\ makes' \in [Calls -> {<<>>} \cup Lists]
    /\ \A d \in Calls \ {c} : step'[d] = step[d] /\ at'[d] = at[d] /\ makes'[d] = makes[d]

\* What ends shifts one call, to idle.
LEMMA EndShifts ==
    ASSUME CallsOK, NEW c \in Calls, NEW how, End(c, how)
    PROVE  Shifts(c) /\ step'[c] = "idle" /\ Placed(c)'
  <1>1. Shifts(c) /\ step'[c] = "idle"
    BY DEF End, Goto, Shifts, CallsOK, Steps
  <1>2. QED
    BY <1>1 DEF Placed, Making, Sending

\* What goes on shifts one call, at the same address with the same children or not.
LEMMA GotoShifts ==
    ASSUME CallsOK, NEW c \in Calls, NEW s \in Steps, Goto(c, s),
           at' = at \/ (\E a : at' = [at EXCEPT ![c] = a]),
           makes' = makes \/ (\E l \in Lists : makes' = [makes EXCEPT ![c] = l]),
           outcome' = outcome \/ outcome' = [outcome EXCEPT ![c] = "none"]
    PROVE  Shifts(c) /\ step'[c] = s
  <1>1. step' \in [Calls -> Steps] /\ step'[c] = s /\ \A d \in Calls \ {c} : step'[d] = step[d]
    BY DEF Goto, CallsOK
  <1>2. at' = [d \in Calls |-> at'[d]] /\ \A d \in Calls \ {c} : at'[d] = at[d]
    BY DEF CallsOK
  <1>3. outcome' = [d \in Calls |-> outcome'[d]]
    BY DEF CallsOK
  <1>4. makes' \in [Calls -> {<<>>} \cup Lists] /\ \A d \in Calls \ {c} : makes'[d] = makes[d]
    BY DEF CallsOK
  <1>5. QED
    BY <1>1, <1>2, <1>3, <1>4 DEF Shifts

\* A shift keeps what the calls are about, code only growing.
LEMMA ShiftKeeps ==
    ASSUME CallsOK, NEW c \in Calls, Shifts(c), Placed(c)', code \subseteq code',
           asked' \in [Factories -> {<<>>} \cup Single]
    PROVE  CallsOK'
  <1>1. \A d \in Calls \ {c} : Placed(d)'
    BY DEF CallsOK, Placed, Shifts, HasCode
  <1>2. QED
    BY <1>1 DEF CallsOK, Shifts

-----------------------------------------------------------------------------
\* Recording an address makes it its caller's newest, and nobody else's entry newer.
LEMMA RecordKeeps ==
    ASSUME MapsOK, NEW f \in Factories, NEW a \in Addresses,
           a = Account \/ \E s \in Salts : a = Sim(<<f, s>>),
           Record(f, a), UNCHANGED evmToTvm
    PROVE  /\ MapsOK'
           /\ \A e \in NewestOf(f)' : e.returned = a
           /\ \A g \in Factories \ {f} : NewestOf(g)' \subseteq NewestOf(g)
  <1>1. PICK n \in Nat : /\ \A e \in pending : e.nr <= n
                         /\ LET longer == pending \cup {[nr |-> n + 1, caller |-> f, returned |-> a]}
                            IN IF Cardinality(longer) <= PendingLimit THEN pending' = longer
                               ELSE \E e \in longer : (\A d \in longer : e.nr <= d.nr) /\ pending' = longer \ {e}
    <2>1. PICK longer \in Longer(f, a) :
              IF Cardinality(longer) <= PendingLimit THEN pending' = longer
              ELSE \E e \in longer : (\A d \in longer : e.nr <= d.nr) /\ pending' = longer \ {e}
      BY DEF Record
    <2>2. PICK n \in {0} \cup {e.nr : e \in pending} :
              /\ \A l \in {e.nr : e \in pending} : l <= n
              /\ longer = pending \cup {[nr |-> n + 1, caller |-> f, returned |-> a]}
      BY DEF Longer
    <2>3. n \in Nat
      BY DEF MapsOK, Entries
    <2>4. QED
      BY <2>1, <2>2, <2>3
  <1> DEFINE new == [nr |-> n + 1, caller |-> f, returned |-> a]
             longer == pending \cup {new}
  <1>2. new \in Entries /\ new.nr = n + 1 /\ new.caller = f /\ new.returned = a
    BY DEF Entries
  <1> HIDE DEF new
  <1>3. longer \subseteq Entries /\ IsFiniteSet(longer) /\ Cardinality(longer) \in Nat
        /\ Cardinality(longer) <= PendingLimit + 1
    <2>1. /\ IsFiniteSet(longer)
          /\ Cardinality(longer) = IF new \in pending THEN Cardinality(pending) ELSE Cardinality(pending) + 1
      BY FS_AddElement DEF MapsOK
    <2>2. Cardinality(pending) \in Nat /\ PendingLimit \in Nat
      BY FS_CardinalityType, CallsAssumption DEF MapsOK
    <2>3. QED
      BY <1>2, <2>1, <2>2 DEF MapsOK
  <1>4. \A e \in pending : e.nr \in Nat /\ e.nr <= n
    BY <1>1 DEF MapsOK, Entries
  <1>5. \A e, d \in longer : e.nr = d.nr => e = d
    BY <1>2, <1>4 DEF MapsOK
  <1>6. \A e \in longer : e.returned = Account \/ \E s \in Salts : e.returned = Sim(<<e.caller, s>>)
    BY <1>2 DEF MapsOK
  <1> HIDE DEF longer
  <1>7. \/ Cardinality(longer) <= PendingLimit /\ pending' = longer
        \/ \E e \in longer : /\ \A d \in longer : e.nr <= d.nr
                             /\ pending' = longer \ {e}
    BY <1>1 DEF longer, new
  <1>8. pending' \subseteq longer /\ IsFiniteSet(pending') /\ Cardinality(pending') <= PendingLimit
    <2>1. CASE pending' = longer /\ Cardinality(longer) <= PendingLimit
      BY <1>3, <2>1
    <2>2. ASSUME NEW e \in longer, pending' = longer \ {e}
          PROVE  pending' \subseteq longer /\ IsFiniteSet(pending') /\ Cardinality(pending') <= PendingLimit
      <3>1. IsFiniteSet(longer \ {e}) /\ Cardinality(longer \ {e}) = Cardinality(longer) - 1
        BY <1>3, FS_RemoveElement
      <3>2. QED
        BY <1>3, <2>2, <3>1, CallsAssumption
    <2>3. QED
      BY <1>7, <2>1, <2>2
  <1>9. MapsOK'
    <2>1. NeverCrossesCallers'
      BY DEF MapsOK, NeverCrossesCallers
    <2>2. \A e, d \in pending' : e.nr = d.nr => e = d
      BY <1>5, <1>8
    <2>3. \A e \in pending' : e.returned = Account \/ \E s \in Salts : e.returned = Sim(<<e.caller, s>>)
      BY <1>6, <1>8
    <2>4. pending' \subseteq Entries
      BY <1>3, <1>8
    <2>5. QED
      BY <1>8, <2>1, <2>2, <2>3, <2>4 DEF MapsOK
  <1>10. ASSUME NEW e \in NewestOf(f)' PROVE e.returned = a
    <2>1. e \in pending' /\ e \in longer /\ \A d \in pending' : d.caller = f => d.nr <= e.nr
      BY <1>8 DEF NewestOf, PendingOf
    <2>2. e = new \/ e \in pending
      BY <2>1 DEF longer
    <2>3. new \notin pending' => longer = {new}
      <3>1. SUFFICES ASSUME new \notin pending' PROVE longer \subseteq {new}
        BY DEF longer
      <3>2. \A d \in longer : new.nr <= d.nr
        BY <1>7, <3>1 DEF longer
      <3>3. QED
        BY <1>2, <1>4, <3>2 DEF longer
    <2>4. new \in pending' => e = new
      BY <1>2, <1>4, <2>1, <2>2
    <2>5. QED
      BY <1>2, <2>1, <2>3, <2>4
  <1>11. ASSUME NEW g \in Factories \ {f}, NEW e \in NewestOf(g)' PROVE e \in NewestOf(g)
    <2>1. e \in pending' /\ e \in longer /\ e.caller = g /\ \A d \in pending' : d.caller = g => d.nr <= e.nr
      BY <1>8 DEF NewestOf, PendingOf
    <2>2. e \in pending
      BY <1>2, <2>1 DEF longer
    <2>3. ASSUME NEW d \in pending, d.caller = g PROVE d.nr <= e.nr
      BY <1>7, <2>1, <2>3 DEF longer
    <2>4. QED
      BY <2>1, <2>2, <2>3 DEF NewestOf, PendingOf
  <1>12. QED
    BY <1>9, <1>10, <1>11

\* A receipt leads its caller's newest address to the first contract created, and
\* leaves the entries of the others alone.
LEMMA RegisterKeeps ==
    ASSUME MapsOK, NEW f \in Factories, NEW created \in {<<>>} \cup Lists, Register(f, created)
    PROVE  /\ MapsOK'
           /\ \A g \in Factories \ {f} : PendingOf(g)' = PendingOf(g)
           /\ created # <<>> => PendingOf(f)' = {}
           /\ \A a \in DOMAIN evmToTvm' :
                 \/ a \in DOMAIN evmToTvm /\ evmToTvm'[a] = evmToTvm[a]
                 \/ \E e \in NewestOf(f) : a = e.returned /\ evmToTvm'[a] = Real(<<f, Head(created)>>)
  <1>1. CASE created = <<>> \/ PendingOf(f) = {}
    <2>1. UNCHANGED <<evmToTvm, pending>>
      BY <1>1 DEF Register, mapVars
    <2>2. QED
      BY <1>1, <2>1 DEF MapsOK, NeverCrossesCallers, PendingOf
  <1>2. CASE created # <<>> /\ PendingOf(f) # {}
    <2>1. PICK e \in PendingOf(f) : /\ \A d \in PendingOf(f) : d.nr <= e.nr
                                    /\ evmToTvm' = Leading(e.returned, <<f, Head(created)>>)
                                    /\ pending' = pending \ PendingOf(f)
      BY <1>2 DEF Register
    <2>2. e \in NewestOf(f) /\ e \in pending /\ e.caller = f
      BY <2>1 DEF NewestOf, PendingOf
    <2>3. /\ DOMAIN evmToTvm' = DOMAIN evmToTvm \cup {e.returned}
          /\ \A a \in DOMAIN evmToTvm' :
                evmToTvm'[a] = IF a = e.returned THEN Real(<<f, Head(created)>>) ELSE evmToTvm[a]
      BY <2>1 DEF Leading
    <2>4. Head(created) \in Salts
      BY <1>2 DEF Lists
    <2>5. Real(<<f, Head(created)>>) \in Actuals /\ Real(<<f, Head(created)>>)[2][1] = f
      BY <2>4 DEF Actuals, Real, Children
    <2>6. e.returned = Account \/ \E s \in Salts : e.returned = Sim(<<f, s>>)
      BY <2>2 DEF MapsOK
    <2>7. e.returned \in Predictions \cup {Account} /\ (e.returned # Account => e.returned[2][1] = f)
      BY <2>6 DEF Predictions, Sim, Children
    <2>8. DOMAIN evmToTvm' \subseteq Predictions \cup {Account} /\ \A a \in DOMAIN evmToTvm' : evmToTvm'[a] \in Actuals
      BY <2>3, <2>5, <2>7 DEF MapsOK
    <2>9. NeverCrossesCallers'
      BY <2>3, <2>5, <2>7 DEF MapsOK, NeverCrossesCallers
    <2>10. IsFiniteSet(pending') /\ Cardinality(pending') <= PendingLimit
      <3>1. IsFiniteSet(pending') /\ Cardinality(pending') <= Cardinality(pending)
        BY <2>1, FS_Subset DEF MapsOK
      <3>2. Cardinality(pending) \in Nat /\ Cardinality(pending') \in Nat /\ PendingLimit \in Nat
        BY <3>1, FS_CardinalityType, CallsAssumption DEF MapsOK
      <3>3. QED
        BY <3>1, <3>2 DEF MapsOK
    <2>11. MapsOK'
      <3>1. pending' \subseteq pending
        BY <2>1
      <3>2. QED
        BY <2>8, <2>9, <2>10, <3>1 DEF MapsOK
    <2>12. PendingOf(f)' = {} /\ \A g \in Factories \ {f} : PendingOf(g)' = PendingOf(g)
      BY <2>1 DEF PendingOf
    <2>13. QED
      BY <2>2, <2>3, <2>11, <2>12
  <1>3. QED
    BY <1>1, <1>2

-----------------------------------------------------------------------------
\* What each of a call's steps shifts.
LEMMA ShortShifts ==
    ASSUME CallsOK, NEW c \in Calls,
           \/ \E f \in Factories : View(c, f)
           \/ \E f \in Factories, s \in Salts, payable \in BOOLEAN : StaticCall(c, f, s, payable)
           \/ \E a : SendBound(c, a) \/ SendImpersonated(c, a)
    PROVE  /\ Shifts(c) /\ step[c] = "idle" /\ step'[c] = "idle" /\ Placed(c)'
           /\ UNCHANGED <<nodeVars, tried, evmToTvm>> /\ strayed \subseteq strayed'
           /\ asked' \in [Factories -> {<<>>} \cup Single]
  <1>1. step[c] = "idle" /\ (\E how : End(c, how)) /\ UNCHANGED <<nodeVars, tried, evmToTvm>>
        /\ strayed \subseteq strayed'
    <2>1. ASSUME NEW f \in Factories, View(c, f)
          PROVE  step[c] = "idle" /\ End(c, "returned") /\ UNCHANGED <<nodeVars, tried, evmToTvm>>
                 /\ strayed \subseteq strayed'
      BY <2>1 DEF View, Begin
    <2>2. ASSUME NEW f \in Factories, NEW s \in Salts, NEW payable \in BOOLEAN, StaticCall(c, f, s, payable)
          PROVE  step[c] = "idle" /\ End(c, "returned") /\ UNCHANGED <<nodeVars, tried, evmToTvm>>
                 /\ strayed \subseteq strayed'
      BY <2>2 DEF StaticCall, Begin
    <2>3. ASSUME NEW a, SendBound(c, a) \/ SendImpersonated(c, a)
          PROVE  step[c] = "idle" /\ (\E how : End(c, how)) /\ UNCHANGED <<nodeVars, tried, evmToTvm>>
                 /\ strayed \subseteq strayed'
      BY <2>3 DEF SendBound, SendImpersonated, Begin, mapVars, history
    <2>4. QED
      BY <2>1, <2>2, <2>3
  <1>2. asked' \in [Factories -> {<<>>} \cup Single]
    <2>1. ASSUME NEW f \in Factories, NEW s \in Salts, NEW payable \in BOOLEAN, StaticCall(c, f, s, payable)
          PROVE  asked' \in [Factories -> {<<>>} \cup Single]
      BY <2>1 DEF StaticCall, CallsOK, Single
    <2>2. ASSUME NEW a, SendBound(c, a) \/ SendImpersonated(c, a) PROVE asked' = asked
      BY <2>2 DEF SendBound, SendImpersonated, history
    <2>3. ASSUME NEW f \in Factories, View(c, f) PROVE asked' = asked
      BY <2>3 DEF View
    <2>4. QED
      BY <2>1, <2>2, <2>3 DEF CallsOK
  <1>3. QED
    BY <1>1, <1>2, EndShifts

LEMMA CreateShifts ==
    ASSUME CallsOK, NEW c \in Calls, NEW f \in Factories, NEW salts \in Lists, Create(c, f, salts)
    PROVE  /\ Shifts(c) /\ step[c] = "idle" /\ step'[c] = "broadcast" /\ Placed(c)'
           /\ at'[c] = <<"factory", f>> /\ makes'[c] = salts
  <1>1. /\ step[c] = "idle" /\ Goto(c, "broadcast") /\ at' = [at EXCEPT ![c] = <<"factory", f>>]
        /\ makes' = [makes EXCEPT ![c] = salts] /\ outcome' = [outcome EXCEPT ![c] = "none"]
    BY DEF Create, Begin
  <1>2. Shifts(c) /\ step'[c] = "broadcast"
    BY <1>1, GotoShifts DEF Steps
  <1>3. at'[c] = <<"factory", f>> /\ makes'[c] = salts
    BY <1>1 DEF CallsOK
  <1>4. QED
    BY <1>1, <1>2, <1>3 DEF Placed, Sending

LEMMA BroadcastShifts ==
    ASSUME CallsOK, NEW c \in Calls, Broadcast(c)
    PROVE  /\ Shifts(c) /\ step[c] = "broadcast" /\ step'[c] \in {"receipt", "reverted", "collided"}
           /\ Placed(c)' /\ UNCHANGED <<at, makes>>
           /\ \E f \in Factories : at[c] = <<"factory", f>> /\ asked' = [asked EXCEPT ![f] = <<>>]
           /\ makes[c] \in Lists /\ Made(c) \subseteq Children
  <1>1. /\ step[c] = "broadcast" /\ (\E s \in {"receipt", "reverted", "collided"} : Goto(c, s))
        /\ UNCHANGED <<at, makes, outcome>> /\ asked' = [asked EXCEPT ![Factory(c)] = <<>>]
    BY DEF Broadcast
  <1>2. PICK s \in {"receipt", "reverted", "collided"} : Goto(c, s)
    BY <1>1
  <1>3. Shifts(c) /\ step'[c] = s
    BY <1>1, <1>2, GotoShifts DEF Steps
  <1>4. makes[c] \in Lists /\ \E f \in Factories : at[c] = <<"factory", f>>
    BY <1>1 DEF CallsOK, Placed, Making
  <1>5. PICK f \in Factories : at[c] = <<"factory", f>>
    BY <1>4
  <1>6. Factory(c) = f
    BY <1>5 DEF Factory
  <1>7. Placed(c)'
    BY <1>1, <1>2, <1>3, <1>4 DEF Placed, Sending
  <1>8. Made(c) \subseteq Children
    <2>1. ToSet(makes[c]) \subseteq Salts
      <3>1. CASE \E t \in Salts : makes[c] = <<t>>
        BY <3>1 DEF ToSet
      <3>2. CASE \E t, u \in Salts : makes[c] = <<t, u>>
        BY <3>2 DEF ToSet
      <3>3. QED
        BY <1>4, <3>1, <3>2 DEF Lists
    <2>2. QED
      BY <1>6, <2>1 DEF Made, Children
  <1>9. QED
    BY <1>1, <1>2, <1>3, <1>4, <1>5, <1>6, <1>7, <1>8

LEMMA ReceiptShifts ==
    ASSUME CallsOK, NEW c \in Calls, Receipt(c)
    PROVE  /\ Shifts(c) /\ step[c] \in {"receipt", "reverted", "collided"}
           /\ step'[c] \in {"resimulate", "idle"} /\ Placed(c)'
           /\ \E f \in Factories : \E named \in {<<>>} \cup Lists :
                 /\ at[c] = <<"factory", f>> /\ Register(f, named)
                 /\ step[c] # "collided" => named = makes[c]
           /\ makes[c] \in Lists
           /\ UNCHANGED <<nodeVars, tried, asked>>
           /\ strayed' = {} => strayed = {} /\ step[c] = "receipt" /\ step'[c] = "idle"
  <1>1. /\ step[c] \in {"receipt", "reverted", "collided"} /\ UNCHANGED <<nodeVars, tried, asked>>
        /\ \E named \in {makes[c]} \cup (IF step[c] = "collided" THEN {<<>>} ELSE {}) : Register(Factory(c), named)
        /\ strayed' = IF step[c] = "receipt" THEN strayed ELSE strayed \cup {"reverted"}
        /\ IF step[c] = "collided" THEN Goto(c, "resimulate") /\ UNCHANGED <<at, makes, outcome>>
           ELSE End(c, step[c])
    BY DEF Receipt
  <1>2. makes[c] \in Lists /\ \E f \in Factories : at[c] = <<"factory", f>>
    BY <1>1 DEF CallsOK, Placed, Making
  <1>3. PICK f \in Factories : at[c] = <<"factory", f>>
    BY <1>2
  <1>4. Factory(c) = f
    BY <1>3 DEF Factory
  <1>5. \E named \in {<<>>} \cup Lists : Register(f, named) /\ (step[c] # "collided" => named = makes[c])
    BY <1>1, <1>2, <1>4
  <1>6. Shifts(c) /\ Placed(c)' /\ step'[c] = IF step[c] = "collided" THEN "resimulate" ELSE "idle"
    <2>1. CASE step[c] = "collided"
      <3>1. Shifts(c) /\ step'[c] = "resimulate" /\ UNCHANGED <<at, makes>>
        BY <1>1, <2>1, GotoShifts DEF Steps
      <3>2. QED
        BY <1>2, <2>1, <3>1 DEF Placed, Sending
    <2>2. CASE step[c] # "collided"
      BY <1>1, <2>2, EndShifts
    <2>3. QED
      BY <2>1, <2>2
  <1>7. strayed' = {} => strayed = {} /\ step[c] = "receipt"
    BY <1>1
  <1>8. QED
    BY <1>1, <1>2, <1>3, <1>5, <1>6, <1>7

LEMMA ResimulateShifts ==
    ASSUME CallsOK, NEW c \in Calls, Resimulate(c)
    PROVE  /\ Shifts(c) /\ step'[c] = "idle" /\ Placed(c)' /\ strayed' # {}
           /\ \E f \in Factories, s \in Salts : Record(f, Sim(<<f, s>>))
           /\ UNCHANGED <<nodeVars, evmToTvm, tried, asked>>
  <1>1. /\ step[c] = "resimulate" /\ Record(Factory(c), Sim(<<Factory(c), Head(makes[c])>>))
        /\ strayed' = strayed \cup {"reverted"} /\ End(c, "reverted")
        /\ UNCHANGED <<nodeVars, evmToTvm, tried, asked>>
    BY DEF Resimulate
  <1>2. PICK f \in Factories : at[c] = <<"factory", f>> /\ makes[c] \in Lists
    BY <1>1 DEF CallsOK, Placed, Making
  <1>3. Factory(c) = f
    BY <1>2 DEF Factory
  <1>4. Head(makes[c]) \in Salts
    BY <1>2 DEF Lists
  <1>5. \E s \in Salts : Record(f, Sim(<<f, s>>))
    BY <1>1, <1>3, <1>4
  <1>6. Shifts(c) /\ step'[c] = "idle" /\ Placed(c)'
    BY <1>1, EndShifts
  <1>7. QED
    BY <1>1, <1>5, <1>6

\* A raw send goes to a child's address, predicted or actual, and registers none
\* that has no code.
LEMMA SendShifts ==
    ASSUME StoresOK, MapsOK, CallsOK, NEW c \in Calls,
           \/ \E a \in Predictions \cup Actuals : SendCallTx(c, a)
           \/ Trigger(c) \/ GetCode(c) \/ AutoRegister(c)
    PROVE  /\ Shifts(c) /\ step[c] \notin Making /\ step'[c] \notin Making /\ Placed(c)' /\ StoresOK'
           /\ UNCHANGED <<code, mapVars, asked, strayed>>
  <1>1. ASSUME NEW a \in Predictions \cup Actuals, SendCallTx(c, a)
        PROVE  Shifts(c) /\ step[c] = "idle" /\ step'[c] = "trigger" /\ Placed(c)'
               /\ UNCHANGED <<nodeVars, mapVars, tried, history>>
    <2>1. /\ step[c] = "idle" /\ Goto(c, "trigger") /\ at' = [at EXCEPT ![c] = Rewritten(a)]
          /\ outcome' = [outcome EXCEPT ![c] = "none"] /\ makes' = makes
          /\ UNCHANGED <<nodeVars, mapVars, tried, history>>
      BY <1>1 DEF SendCallTx, Begin
    <2>2. Rewritten(a) \in Predictions \cup Actuals
      BY DEF Rewritten, MapsOK
    <2>3. Shifts(c) /\ step'[c] = "trigger"
      BY <2>1, GotoShifts DEF Steps
    <2>4. at'[c] = Rewritten(a)
      BY <2>1 DEF CallsOK
    <2>5. QED
      BY <2>1, <2>2, <2>3, <2>4 DEF Placed, Making
  <1>2. CASE Trigger(c)
    <2>1. /\ step[c] = "trigger" /\ UNCHANGED <<nodeVars, mapVars, tried, history>>
          /\ \/ \E how : End(c, how)
             \/ Goto(c, "code") /\ UNCHANGED <<at, makes, outcome>>
      BY <1>2 DEF Trigger
    <2>2. CASE \E how : End(c, how)
      BY <2>1, <2>2, EndShifts DEF Making, StoresOK, nodeVars, history
    <2>3. CASE Goto(c, "code") /\ UNCHANGED <<at, makes, outcome>>
      <3>1. Shifts(c) /\ step'[c] = "code"
        BY <2>3, GotoShifts DEF Steps
      <3>2. Placed(c)'
        BY <2>1, <2>3, <3>1 DEF Placed, CallsOK, Making, Sending
      <3>3. QED
        BY <2>1, <3>1, <3>2 DEF Making, StoresOK, nodeVars, history
    <2>4. QED
      BY <2>1, <2>2, <2>3
  <1>3. CASE GetCode(c)
    <2>1. /\ step[c] = "code" /\ UNCHANGED <<nodeVars, mapVars, history>>
          /\ \/ /\ HasCode(at[c]) /\ tried' = tried \cup {at[c]}
                /\ Goto(c, "register") /\ UNCHANGED <<at, makes, outcome>>
             \/ End(c, "refused") /\ tried' = tried
          /\ at[c] \in Predictions \cup Actuals
      BY <1>3 DEF GetCode, CallsOK, Placed, Sending
    <2>2. CASE /\ HasCode(at[c]) /\ tried' = tried \cup {at[c]}
               /\ Goto(c, "register") /\ UNCHANGED <<at, makes, outcome>>
      <3>1. Shifts(c) /\ step'[c] = "register"
        BY <2>2, GotoShifts DEF Steps
      <3>2. Placed(c)'
        BY <2>1, <2>2, <3>1 DEF Placed, Making, Sending, HasCode, nodeVars
      <3>3. QED
        BY <2>1, <2>2, <3>1, <3>2 DEF Making, StoresOK, nodeVars, history
    <2>3. CASE End(c, "refused") /\ tried' = tried
      BY <2>1, <2>3, EndShifts DEF Making, StoresOK, nodeVars, history
    <2>4. QED
      BY <2>1, <2>2, <2>3
  <1>4. CASE AutoRegister(c)
    <2>1. /\ step[c] = "register" /\ (\E how : End(c, how)) /\ stored' \subseteq stored \cup {at[c][2]}
          /\ UNCHANGED <<code, fixture, mapVars, tried, asked, strayed>>
      BY <1>4 DEF AutoRegister
    <2>2. PICK k \in code : at[c] = Real(k)
      BY <2>1 DEF CallsOK, Placed, HasCode
    <2>3. at[c][2] = k
      BY <2>2 DEF Real
    <2>4. StoresOK'
      BY <2>1, <2>2, <2>3 DEF StoresOK
    <2>5. QED
      BY <2>1, <2>4, EndShifts DEF Making
  <1>5. QED
    BY <1>1, <1>2, <1>3, <1>4 DEF Making, StoresOK, nodeVars, history

-----------------------------------------------------------------------------
\* Calls that create nothing leave the pairing alone.
LEMMA AsideKeeps ==
    ASSUME CallsOK, Paired, NEW c \in Calls, Shifts(c), step[c] \notin Making, step'[c] \notin Making,
           UNCHANGED <<evmToTvm, pending, asked>>, strayed \subseteq strayed'
    PROVE  Paired'
  <1>1. \A f \in Factories : MadeOf(f)' = MadeOf(f) /\ NewestOf(f)' = NewestOf(f)
    BY DEF MadeOf, NewestOf, PendingOf, Shifts, Making
  <1>2. \A d \in Calls : step'[d] \in Making \/ step[d] \in Making =>
            d # c /\ step'[d] = step[d] /\ at'[d] = at[d] /\ makes'[d] = makes[d]
    BY DEF Shifts
  <1>3. \A f \in Factories : \A d \in MadeOf(f) : makes'[d] = makes[d]
    BY <1>2 DEF MadeOf, Making
  <1>4. InTurnMapsToTwin'
    BY DEF Paired, InTurnMapsToTwin
  <1>5. InTurn => InTurn'
    <2> SUFFICES ASSUME InTurn PROVE InTurn'
      OBVIOUS
    <2>1. \A d, e \in Calls : step'[d] \in Making /\ step'[e] \in Making /\ at'[d] = at'[e] => d = e
      BY <1>2 DEF InTurn
    <2>2. \A d \in Calls, f \in Factories : step'[d] = "broadcast" /\ at'[d] = <<"factory", f>> =>
              asked'[f] \in {<<>>, <<Head(makes'[d])>>}
      BY <1>2 DEF InTurn, Making
    <2>3. ASSUME NEW f \in Factories, NEW e \in NewestOf(f)'
          PROVE  \/ asked'[f] # <<>> /\ e.returned = Sim(<<f, Head(asked'[f])>>)
                 \/ \E d \in MadeOf(f)' : e.returned = Sim(<<f, Head(makes'[d])>>)
      <3>1. e \in NewestOf(f) /\ asked'[f] = asked[f] /\ MadeOf(f)' = MadeOf(f)
        BY <1>1, <2>3
      <3>2. \/ asked[f] # <<>> /\ e.returned = Sim(<<f, Head(asked[f])>>)
            \/ \E d \in MadeOf(f) : e.returned = Sim(<<f, Head(makes[d])>>)
        BY <3>1 DEF InTurn
      <3>3. QED
        BY <1>3, <3>1, <3>2
    <2>4. QED
      BY <1>1, <2>1, <2>2, <2>3 DEF InTurn
  <1>6. QED
    BY <1>4, <1>5 DEF Paired

\* A simulation, which is in turn as long as its factory has no call under way.
LEMMA StaticCallKeeps ==
    ASSUME CallsOK, MapsOK, Paired, NEW c \in Calls, NEW f \in Factories, NEW s \in Salts,
           StaticCall(c, f, s, TRUE)
    PROVE  MapsOK' /\ Paired'
  <1>1. /\ step[c] = "idle" /\ Record(f, Sim(<<f, s>>)) /\ asked' = [asked EXCEPT ![f] = <<s>>]
        /\ strayed' = (IF Creating(f) THEN strayed \cup {"overlap"} ELSE strayed)
        /\ UNCHANGED evmToTvm /\ Shifts(c) /\ step'[c] = "idle"
    BY ShortShifts DEF StaticCall, Begin
  <1>2. Sim(<<f, s>>) \in Addresses
    BY DEF Addresses, Predictions, Children
  <1>3. /\ MapsOK'
        /\ \A e \in NewestOf(f)' : e.returned = Sim(<<f, s>>)
        /\ \A g \in Factories \ {f} : NewestOf(g)' \subseteq NewestOf(g)
    BY <1>1, <1>2, RecordKeeps
  <1>4. strayed' = {} => strayed = {} /\ ~Creating(f)
    BY <1>1
  <1>5. InTurnMapsToTwin'
    BY <1>1, <1>4 DEF Paired, InTurnMapsToTwin
  <1>6. ASSUME strayed' = {} PROVE InTurn'
    <2>1. InTurn /\ ~Creating(f)
      BY <1>4, <1>6 DEF Paired
    <2>2. \A d \in Calls : step'[d] \in Making \/ step[d] \in Making =>
              d # c /\ step'[d] = step[d] /\ at'[d] = at[d] /\ makes'[d] = makes[d] /\ at[d] # <<"factory", f>>
      BY <1>1, <2>1 DEF Shifts, Creating, Making
    <2>3. MadeOf(f)' = {} /\ \A g \in Factories : MadeOf(g)' = MadeOf(g)
      BY <2>2 DEF MadeOf, Making
    <2>4. asked'[f] = <<s>> /\ asked'[f] # <<>> /\ Head(asked'[f]) = s /\ \A g \in Factories \ {f} : asked'[g] = asked[g]
      BY <1>1 DEF CallsOK
    <2>5. \A d, e \in Calls : step'[d] \in Making /\ step'[e] \in Making /\ at'[d] = at'[e] => d = e
      BY <2>1, <2>2 DEF InTurn
    <2>6. \A d \in Calls, g \in Factories : step'[d] = "broadcast" /\ at'[d] = <<"factory", g>> =>
              asked'[g] \in {<<>>, <<Head(makes'[d])>>}
      BY <2>1, <2>2, <2>4 DEF InTurn, Making
    <2>7. \A g \in Factories : MadeOf(g)' # {} => asked'[g] = <<>>
      BY <2>1, <2>3, <2>4 DEF InTurn
    <2>8. ASSUME NEW g \in Factories, NEW e \in NewestOf(g)'
          PROVE  \/ asked'[g] # <<>> /\ e.returned = Sim(<<g, Head(asked'[g])>>)
                 \/ \E d \in MadeOf(g)' : e.returned = Sim(<<g, Head(makes'[d])>>)
      <3>1. CASE g = f
        BY <1>3, <2>4, <2>8, <3>1
      <3>2. CASE g # f
        <4>1. e \in NewestOf(g) /\ asked'[g] = asked[g] /\ MadeOf(g)' = MadeOf(g)
          BY <1>3, <2>3, <2>4, <2>8, <3>2
        <4>2. \A d \in MadeOf(g) : makes'[d] = makes[d]
          BY <2>2 DEF MadeOf, Making
        <4>3. \/ asked[g] # <<>> /\ e.returned = Sim(<<g, Head(asked[g])>>)
              \/ \E d \in MadeOf(g) : e.returned = Sim(<<g, Head(makes[d])>>)
          BY <2>1, <4>1 DEF InTurn
        <4>4. QED
          BY <4>1, <4>2, <4>3
      <3>3. QED
        BY <3>1, <3>2
    <2>9. QED
      BY <2>5, <2>6, <2>7, <2>8 DEF InTurn
  <1>7. QED
    BY <1>3, <1>5, <1>6 DEF Paired

\* A creation begins in turn when it makes what was asked for last, alone.
LEMMA CreateKeeps ==
    ASSUME CallsOK, Paired, NEW c \in Calls, NEW f \in Factories, NEW salts \in Lists, Create(c, f, salts)
    PROVE  Paired'
  <1>1. /\ UNCHANGED <<evmToTvm, pending, asked>>
        /\ strayed' = strayed \cup (IF Creating(f) THEN {"overlap"} ELSE {})
                              \cup (IF asked[f] \in {<<>>, <<Head(salts)>>} THEN {} ELSE {"other"})
    BY DEF Create, mapVars, nodeVars
  <1>2. /\ Shifts(c) /\ step[c] = "idle" /\ step'[c] = "broadcast"
        /\ at'[c] = <<"factory", f>> /\ makes'[c] = salts
    BY CreateShifts
  <1>3. strayed' = {} => strayed = {} /\ ~Creating(f) /\ asked[f] \in {<<>>, <<Head(salts)>>}
    BY <1>1
  <1>4. InTurnMapsToTwin'
    BY <1>1, <1>3 DEF Paired, InTurnMapsToTwin
  <1>5. ASSUME strayed' = {} PROVE InTurn'
    <2>1. InTurn /\ ~Creating(f) /\ asked[f] \in {<<>>, <<Head(salts)>>}
      BY <1>3, <1>5 DEF Paired
    <2>2. \A d \in Calls \ {c} : /\ step'[d] = step[d] /\ at'[d] = at[d] /\ makes'[d] = makes[d]
                                 /\ step[d] \in Making => at[d] # <<"factory", f>>
      BY <1>2, <2>1 DEF Shifts, Creating, Making
    <2>3. \A g \in Factories : MadeOf(g)' = MadeOf(g) /\ c \notin MadeOf(g) /\ NewestOf(g)' = NewestOf(g)
      BY <1>1, <1>2, <2>2 DEF MadeOf, NewestOf, PendingOf
    <2>4. \A d, e \in Calls : step'[d] \in Making /\ step'[e] \in Making /\ at'[d] = at'[e] => d = e
      BY <1>2, <2>1, <2>2 DEF InTurn
    <2>5. \A d \in Calls, g \in Factories : step'[d] = "broadcast" /\ at'[d] = <<"factory", g>> =>
              asked'[g] \in {<<>>, <<Head(makes'[d])>>}
      BY <1>1, <1>2, <2>1, <2>2 DEF InTurn
    <2>6. \A g \in Factories : \A d \in MadeOf(g) : makes'[d] = makes[d]
      BY <2>2, <2>3 DEF MadeOf
    <2>7. ASSUME NEW g \in Factories, NEW e \in NewestOf(g)'
          PROVE  \/ asked'[g] # <<>> /\ e.returned = Sim(<<g, Head(asked'[g])>>)
                 \/ \E d \in MadeOf(g)' : e.returned = Sim(<<g, Head(makes'[d])>>)
      <3>1. /\ e \in NewestOf(g) /\ asked'[g] = asked[g] /\ MadeOf(g)' = MadeOf(g)
            /\ \A d \in MadeOf(g) : makes'[d] = makes[d]
        BY <1>1, <2>3, <2>6, <2>7
      <3>2. \/ asked[g] # <<>> /\ e.returned = Sim(<<g, Head(asked[g])>>)
            \/ \E d \in MadeOf(g) : e.returned = Sim(<<g, Head(makes[d])>>)
        BY <2>1, <3>1 DEF InTurn
      <3>3. QED
        BY <3>1, <3>2
    <2>8. QED
      BY <1>1, <2>1, <2>3, <2>4, <2>5, <2>7 DEF InTurn
  <1>6. QED
    BY <1>4, <1>5 DEF Paired

\* What was asked for last passes to the call that is broadcast.
LEMMA BroadcastKeeps ==
    ASSUME CallsOK, Paired, NEW c \in Calls, Broadcast(c)
    PROVE  Paired'
  <1>1. UNCHANGED <<evmToTvm, pending, strayed>>
    BY DEF Broadcast, mapVars
  <1>2. /\ Shifts(c) /\ step[c] = "broadcast" /\ step'[c] \in {"receipt", "reverted", "collided"}
        /\ UNCHANGED <<at, makes>> /\ makes[c] \in Lists
    BY BroadcastShifts
  <1>3. PICK f \in Factories : at[c] = <<"factory", f>> /\ asked' = [asked EXCEPT ![f] = <<>>]
    BY BroadcastShifts
  <1>4. asked'[f] = <<>> /\ \A g \in Factories \ {f} : asked'[g] = asked[g]
    BY <1>3 DEF CallsOK
  <1>5. InTurnMapsToTwin'
    BY <1>1 DEF Paired, InTurnMapsToTwin
  <1>6. ASSUME strayed = {} PROVE InTurn'
    <2>1. InTurn
      BY <1>6 DEF Paired
    <2>2. \A d \in Calls \ {c} : step'[d] = step[d]
      BY <1>2 DEF Shifts
    <2>3. \A d, e \in Calls : step'[d] \in Making /\ step'[e] \in Making /\ at'[d] = at'[e] => d = e
      BY <1>2, <2>1, <2>2 DEF InTurn, Making
    <2>4. \A d \in Calls, g \in Factories : step'[d] = "broadcast" /\ at'[d] = <<"factory", g>> =>
              asked'[g] \in {<<>>, <<Head(makes'[d])>>}
      BY <1>2, <1>4, <2>1, <2>2 DEF InTurn
    <2>5. MadeOf(f)' = MadeOf(f) \cup {c} /\ \A g \in Factories \ {f} : MadeOf(g)' = MadeOf(g)
      BY <1>2, <1>3, <2>2 DEF MadeOf
    <2>6. \A g \in Factories : MadeOf(g)' # {} => asked'[g] = <<>>
      BY <1>4, <2>1, <2>5 DEF InTurn
    <2>7. \A g \in Factories : NewestOf(g)' = NewestOf(g)
      BY <1>1 DEF NewestOf, PendingOf
    <2>8. ASSUME NEW e \in NewestOf(f) PROVE e.returned = Sim(<<f, Head(makes[c])>>)
      <3>1. MadeOf(f) = {}
        BY <1>2, <1>3, <2>1 DEF InTurn, MadeOf, Making
      <3>2. asked[f] # <<>> /\ e.returned = Sim(<<f, Head(asked[f])>>)
        BY <2>1, <3>1 DEF InTurn
      <3>3. asked[f] = <<Head(makes[c])>>
        BY <1>2, <1>3, <2>1, <3>2 DEF InTurn
      <3>4. QED
        BY <3>2, <3>3
    <2>9. ASSUME NEW g \in Factories, NEW e \in NewestOf(g)'
          PROVE  \/ asked'[g] # <<>> /\ e.returned = Sim(<<g, Head(asked'[g])>>)
                 \/ \E d \in MadeOf(g)' : e.returned = Sim(<<g, Head(makes'[d])>>)
      <3>1. CASE g = f
        BY <1>2, <2>5, <2>7, <2>8, <2>9, <3>1
      <3>2. CASE g # f
        <4>1. e \in NewestOf(g) /\ asked'[g] = asked[g] /\ MadeOf(g)' = MadeOf(g) /\ makes' = makes
          BY <1>2, <1>4, <2>5, <2>7, <2>9, <3>2
        <4>2. QED
          BY <2>1, <4>1 DEF InTurn
      <3>3. QED
        BY <3>1, <3>2
    <2>10. QED
      BY <2>3, <2>4, <2>6, <2>9 DEF InTurn
  <1>7. QED
    BY <1>1, <1>5, <1>6 DEF Paired

\* A receipt in turn leads the prediction of its first child to that child.
LEMMA ReceiptKeeps ==
    ASSUME CallsOK, MapsOK, Paired, NEW c \in Calls, Receipt(c)
    PROVE  MapsOK' /\ Paired'
  <1>1. /\ Shifts(c) /\ step[c] \in {"receipt", "reverted", "collided"} /\ makes[c] \in Lists
        /\ UNCHANGED asked
        /\ strayed' = {} => strayed = {} /\ step[c] = "receipt" /\ step'[c] = "idle"
    BY ReceiptShifts
  <1>2. PICK f \in Factories, named \in {<<>>} \cup Lists :
            at[c] = <<"factory", f>> /\ Register(f, named) /\ (step[c] # "collided" => named = makes[c])
    BY ReceiptShifts
  <1>3. /\ MapsOK'
        /\ \A g \in Factories \ {f} : PendingOf(g)' = PendingOf(g)
        /\ named # <<>> => PendingOf(f)' = {}
        /\ \A a \in DOMAIN evmToTvm' :
              \/ a \in DOMAIN evmToTvm /\ evmToTvm'[a] = evmToTvm[a]
              \/ \E e \in NewestOf(f) : a = e.returned /\ evmToTvm'[a] = Real(<<f, Head(named)>>)
    BY <1>2, RegisterKeeps
  <1>4. CASE strayed' # {}
    BY <1>3, <1>4 DEF Paired, InTurnMapsToTwin
  <1>5. CASE strayed' = {}
    <2>1. /\ InTurn /\ InTurnMapsToTwin /\ strayed = {} /\ UNCHANGED asked
          /\ step[c] = "receipt" /\ step'[c] = "idle" /\ named = makes[c]
      BY <1>1, <1>2, <1>5 DEF Paired
    <2>2. makes[c] # <<>> /\ Head(makes[c]) \in Salts
      BY <1>1 DEF Lists
    <2>3. MadeOf(f) = {c} /\ asked[f] = <<>>
      <3>1. c \in MadeOf(f)
        BY <1>2, <2>1 DEF MadeOf
      <3>2. \A d \in MadeOf(f) : d = c
        BY <1>2, <2>1 DEF MadeOf, InTurn, Making
      <3>3. QED
        BY <2>1, <3>1, <3>2 DEF InTurn
    <2>4. ASSUME NEW e \in NewestOf(f) PROVE e.returned = Sim(<<f, Head(makes[c])>>)
      BY <2>1, <2>3 DEF InTurn
    <2>5. InTurnMapsToTwin'
      <3>1. SUFFICES ASSUME NEW a \in DOMAIN evmToTvm'
                     PROVE  \E k \in Children : a = Sim(k) /\ evmToTvm'[a] = Real(k)
        BY DEF InTurnMapsToTwin
      <3>2. CASE a \in DOMAIN evmToTvm /\ evmToTvm'[a] = evmToTvm[a]
        BY <2>1, <3>2 DEF InTurnMapsToTwin
      <3>3. CASE \E e \in NewestOf(f) : a = e.returned /\ evmToTvm'[a] = Real(<<f, Head(named)>>)
        <4>1. <<f, Head(makes[c])>> \in Children
          BY <2>2 DEF Children
        <4>2. QED
          BY <2>1, <2>4, <3>3, <4>1
      <3>4. QED
        BY <1>3, <3>2, <3>3
    <2>6. InTurn'
      <3>1. \A d \in Calls \ {c} : step'[d] = step[d] /\ at'[d] = at[d] /\ makes'[d] = makes[d]
        BY <1>1 DEF Shifts
      <3>2. \A d, e \in Calls : step'[d] \in Making /\ step'[e] \in Making /\ at'[d] = at'[e] => d = e
        BY <2>1, <3>1 DEF InTurn, Making
      <3>3. \A d \in Calls, g \in Factories : step'[d] = "broadcast" /\ at'[d] = <<"factory", g>> =>
                asked'[g] \in {<<>>, <<Head(makes'[d])>>}
        BY <2>1, <3>1 DEF InTurn
      <3>4. \A g \in Factories \ {f} : MadeOf(g)' = MadeOf(g) /\ NewestOf(g)' = NewestOf(g) /\ c \notin MadeOf(g)
        BY <1>2, <1>3, <2>1, <3>1 DEF MadeOf, NewestOf
      <3>5. \A g \in Factories : MadeOf(g)' \subseteq MadeOf(g)
        BY <2>1, <3>1 DEF MadeOf
      <3>6. NewestOf(f)' = {}
        BY <1>3, <2>1, <2>2 DEF NewestOf
      <3>7. \A g \in Factories \ {f} : \A d \in MadeOf(g) : makes'[d] = makes[d]
        BY <3>1, <3>4 DEF MadeOf
      <3>8. ASSUME NEW g \in Factories, NEW e \in NewestOf(g)'
            PROVE  \/ asked'[g] # <<>> /\ e.returned = Sim(<<g, Head(asked'[g])>>)
                   \/ \E d \in MadeOf(g)' : e.returned = Sim(<<g, Head(makes'[d])>>)
        <4>1. /\ g # f /\ e \in NewestOf(g) /\ asked'[g] = asked[g]
              /\ MadeOf(g)' = MadeOf(g) /\ \A d \in MadeOf(g) : makes'[d] = makes[d]
          BY <2>1, <3>4, <3>6, <3>7, <3>8
        <4>2. QED
          BY <2>1, <4>1 DEF InTurn
      <3>9. \A g \in Factories : MadeOf(g)' # {} => asked'[g] = <<>>
        BY <2>1, <3>5 DEF InTurn
      <3>10. QED
        BY <3>2, <3>3, <3>8, <3>9 DEF InTurn
    <2>7. QED
      BY <1>3, <2>5, <2>6 DEF Paired
  <1>6. QED
    BY <1>4, <1>5

-----------------------------------------------------------------------------
IInv == StoresOK /\ MapsOK /\ CallsOK /\ Paired

\* A call that begins and ends keeps the invariant.
LEMMA ShortKeeps ==
    ASSUME IInv, NEW c \in Calls,
           \/ \E f \in Factories : View(c, f)
           \/ \E f \in Factories, s \in Salts, payable \in BOOLEAN : StaticCall(c, f, s, payable)
           \/ \E a : SendBound(c, a) \/ SendImpersonated(c, a)
    PROVE  IInv'
  <1>1. /\ Shifts(c) /\ step[c] = "idle" /\ step'[c] = "idle" /\ Placed(c)'
        /\ UNCHANGED <<nodeVars, tried, evmToTvm>> /\ strayed \subseteq strayed'
        /\ asked' \in [Factories -> {<<>>} \cup Single]
    BY ShortShifts DEF IInv
  <1>2. StoresOK' /\ CallsOK'
    BY <1>1, ShiftKeeps DEF IInv, StoresOK, nodeVars
  <1>3. ASSUME UNCHANGED <<pending, asked>> PROVE MapsOK' /\ Paired'
    <2>1. MapsOK'
      BY <1>1, <1>3 DEF IInv, MapsOK, NeverCrossesCallers
    <2>2. step[c] \notin Making /\ step'[c] \notin Making
      BY <1>1 DEF Making
    <2>3. QED
      BY <1>1, <1>3, <2>1, <2>2, AsideKeeps DEF IInv
  <1>4. ASSUME NEW f \in Factories, View(c, f) PROVE MapsOK' /\ Paired'
    <2>1. Record(f, Account) /\ UNCHANGED evmToTvm /\ strayed' # {}
      BY <1>4 DEF View
    <2>2. Account \in Addresses
      BY DEF Addresses
    <2>3. MapsOK'
      BY <2>1, <2>2, RecordKeeps DEF IInv
    <2>4. QED
      BY <2>1, <2>3 DEF Paired, InTurnMapsToTwin
  <1>5. ASSUME NEW f \in Factories, NEW s \in Salts, StaticCall(c, f, s, TRUE) PROVE MapsOK' /\ Paired'
    BY <1>5, StaticCallKeeps DEF IInv
  <1>6. ASSUME NEW f \in Factories, NEW s \in Salts, StaticCall(c, f, s, FALSE) PROVE MapsOK' /\ Paired'
    BY <1>3, <1>6 DEF StaticCall
  <1>7. ASSUME NEW a, SendBound(c, a) \/ SendImpersonated(c, a) PROVE MapsOK' /\ Paired'
    BY <1>3, <1>7 DEF SendBound, SendImpersonated, mapVars, history
  <1>8. MapsOK' /\ Paired'
    <2>1. ASSUME NEW f \in Factories, NEW s \in Salts, NEW payable \in BOOLEAN, StaticCall(c, f, s, payable)
          PROVE  MapsOK' /\ Paired'
      <3>1. CASE payable = TRUE
        BY <1>5, <2>1, <3>1
      <3>2. CASE payable = FALSE
        BY <1>6, <2>1, <3>2
      <3>3. QED
        BY <3>1, <3>2
    <2>2. QED
      BY <1>4, <1>7, <2>1
  <1>9. QED
    BY <1>2, <1>8 DEF IInv

\* So does a call that creates children, at each of its steps.
LEMMA CreationKeeps ==
    ASSUME IInv, NEW c \in Calls,
           \/ \E f \in Factories, salts \in Lists : Create(c, f, salts)
           \/ Broadcast(c) \/ Receipt(c) \/ Resimulate(c)
    PROVE  IInv'
  <1>1. ASSUME NEW f \in Factories, NEW salts \in Lists, Create(c, f, salts) PROVE IInv'
    <2>1. UNCHANGED <<nodeVars, mapVars, tried, asked>>
      BY <1>1 DEF Create
    <2>2. Shifts(c) /\ Placed(c)'
      BY <1>1, CreateShifts DEF IInv
    <2>3. StoresOK' /\ MapsOK'
      BY <2>1 DEF IInv, StoresOK, MapsOK, NeverCrossesCallers, nodeVars, mapVars
    <2>4. code \subseteq code' /\ asked' \in [Factories -> {<<>>} \cup Single]
      BY <2>1 DEF IInv, CallsOK, nodeVars
    <2>5. CallsOK'
      BY <2>2, <2>4, ShiftKeeps DEF IInv
    <2>6. Paired'
      BY <1>1, CreateKeeps DEF IInv
    <2>7. QED
      BY <2>3, <2>5, <2>6 DEF IInv
  <1>2. CASE Broadcast(c)
    <2>1. /\ UNCHANGED <<stored, fixture, listed, mapVars, tried>>
          /\ code' = code \cup Made(c) \/ code' = code
      BY <1>2 DEF Broadcast
    <2>2. /\ Shifts(c) /\ Placed(c)' /\ Made(c) \subseteq Children
          /\ \E f \in Factories : asked' = [asked EXCEPT ![f] = <<>>]
      BY <1>2, BroadcastShifts DEF IInv
    <2>3. StoresOK' /\ MapsOK'
      BY <2>1, <2>2 DEF IInv, StoresOK, MapsOK, NeverCrossesCallers, mapVars
    <2>4. code \subseteq code' /\ asked' \in [Factories -> {<<>>} \cup Single]
      BY <2>1, <2>2 DEF IInv, CallsOK
    <2>5. CallsOK'
      BY <2>2, <2>4, ShiftKeeps DEF IInv
    <2>6. Paired'
      BY <1>2, BroadcastKeeps DEF IInv
    <2>7. QED
      BY <2>3, <2>5, <2>6 DEF IInv
  <1>3. CASE Receipt(c)
    <2>1. Shifts(c) /\ Placed(c)' /\ UNCHANGED <<nodeVars, tried, asked>>
      BY <1>3, ReceiptShifts DEF IInv
    <2>2. StoresOK' /\ code \subseteq code' /\ asked' \in [Factories -> {<<>>} \cup Single]
      BY <2>1 DEF IInv, StoresOK, CallsOK, nodeVars
    <2>3. CallsOK'
      BY <2>1, <2>2, ShiftKeeps DEF IInv
    <2>4. QED
      BY <1>3, <2>2, <2>3, ReceiptKeeps DEF IInv
  <1>4. CASE Resimulate(c)
    <2>1. /\ Shifts(c) /\ Placed(c)' /\ strayed' # {}
          /\ \E f \in Factories, s \in Salts : Record(f, Sim(<<f, s>>))
          /\ UNCHANGED <<nodeVars, evmToTvm, tried, asked>>
      BY <1>4, ResimulateShifts DEF IInv
    <2>2. StoresOK' /\ code \subseteq code' /\ asked' \in [Factories -> {<<>>} \cup Single]
      BY <2>1 DEF IInv, StoresOK, CallsOK, nodeVars
    <2>3. CallsOK'
      BY <2>1, <2>2, ShiftKeeps DEF IInv
    <2>4. PICK f \in Factories, s \in Salts : Record(f, Sim(<<f, s>>))
      BY <2>1
    <2>5. Sim(<<f, s>>) \in Addresses
      BY DEF Addresses, Predictions, Children
    <2>6. MapsOK'
      BY <2>1, <2>4, <2>5, RecordKeeps DEF IInv
    <2>7. QED
      BY <2>1, <2>2, <2>3, <2>6 DEF IInv, Paired, InTurnMapsToTwin
  <1>5. QED
    BY <1>1, <1>2, <1>3, <1>4

\* What grants or stops the impersonation shifts one call.
LEMMA GrantShifts ==
    ASSUME CallsOK, StoresOK, NEW c \in Calls, Granting(c)
    PROVE  /\ Shifts(c) /\ step[c] \notin Making /\ step'[c] \notin Making /\ Placed(c)' /\ StoresOK'
           /\ UNCHANGED <<code, mapVars, asked, strayed>>
  <1>1. /\ step[c] \in {"idle"} \cup GrantSteps
        /\ UNCHANGED <<code, stored, fixture, tried, mapVars, asked, strayed>>
        /\ \/ (\E s \in GrantSteps : Goto(c, s)) /\ UNCHANGED <<at, makes, outcome>>
           \/ End(c, "returned")
    BY DEF Granting, GrantSteps, Impersonate, GrantServed, GrantAnswered, StopImpersonating, StopServed,
           StopAnswered, ExchangeBreaks, Wants, Begin, nodeVars, history
  <1>2. Shifts(c) /\ step'[c] \in {"idle"} \cup GrantSteps
    <2>1. ASSUME NEW s \in GrantSteps, Goto(c, s), UNCHANGED <<at, makes, outcome>>
          PROVE  Shifts(c) /\ step'[c] = s
      BY <2>1, GotoShifts DEF GrantSteps, Steps
    <2>2. QED
      BY <1>1, <2>1, EndShifts
  <1>3. StoresOK'
    BY <1>1 DEF StoresOK
  <1>4. QED
    BY <1>1, <1>2, <1>3 DEF GrantSteps, Making, Sending, Placed

\* And a raw send, and what grants or stops the impersonation.
LEMMA SendKeeps ==
    ASSUME IInv, NEW c \in Calls,
           \/ \E a \in Predictions \cup Actuals : SendCallTx(c, a)
           \/ Trigger(c) \/ GetCode(c) \/ AutoRegister(c)
           \/ Granting(c)
    PROVE  IInv'
  <1>1. /\ Shifts(c) /\ step[c] \notin Making /\ step'[c] \notin Making /\ Placed(c)' /\ StoresOK'
        /\ UNCHANGED <<code, mapVars, asked, strayed>>
    BY SendShifts, GrantShifts DEF IInv
  <1>2. code \subseteq code' /\ asked' \in [Factories -> {<<>>} \cup Single]
    BY <1>1 DEF IInv, CallsOK
  <1>3. CallsOK'
    BY <1>1, <1>2, ShiftKeeps DEF IInv
  <1>4. MapsOK'
    BY <1>1 DEF IInv, MapsOK, NeverCrossesCallers, mapVars
  <1>5. UNCHANGED <<evmToTvm, pending, asked>> /\ strayed \subseteq strayed'
    BY <1>1 DEF mapVars
  <1>6. Paired'
    BY <1>1, <1>5, AsideKeeps DEF IInv
  <1>7. QED
    BY <1>1, <1>3, <1>4, <1>6 DEF IInv

\* Between calls a fixture is restored; a request comes late; no map moves.
LEMMA RestKeeps ==
    ASSUME IInv,
           \/ \E request \in {"grant", "stop"} : LateServed(request)
           \/ TakeFixture \/ RevertFixture
           \/ UNCHANGED vars
    PROVE  IInv'
  <1>1. UNCHANGED <<mapVars, tried, callVars, asked, strayed>>
    BY DEF LateServed, TakeFixture, RevertFixture, vars, history
  <1>2. MapsOK' /\ Paired'
    <2>1. MapsOK'
      BY <1>1 DEF IInv, MapsOK, NeverCrossesCallers, mapVars
    <2>2. InTurn' = InTurn
      BY <1>1 DEF InTurn, MadeOf, NewestOf, PendingOf, mapVars, callVars
    <2>3. QED
      BY <1>1, <2>1, <2>2 DEF IInv, Paired, InTurnMapsToTwin, mapVars
  <1>3. StoresOK' /\ (code' = code \/ RevertFixture)
    <2>1. CASE RevertFixture
      BY <1>1, <2>1 DEF RevertFixture, IInv, StoresOK
    <2>2. CASE TakeFixture
      BY <1>1, <2>2 DEF TakeFixture, IInv, StoresOK
    <2>3. CASE UNCHANGED <<code, stored, fixture>>
      BY <1>1, <2>3 DEF IInv, StoresOK
    <2>4. QED
      BY <2>1, <2>2, <2>3 DEF LateServed, vars, nodeVars
  <1>4. \A c \in Calls : Placed(c)'
    <2>1. CASE code' = code
      BY <1>1, <2>1 DEF IInv, CallsOK, Placed, HasCode, callVars
    <2>2. CASE RevertFixture
      BY <1>1, <2>2 DEF RevertFixture, Resting, Placed, Making, Sending, callVars
    <2>3. QED
      BY <1>3, <2>1, <2>2
  <1>5. CallsOK'
    BY <1>1, <1>4 DEF IInv, CallsOK, callVars
  <1>6. QED
    BY <1>2, <1>3, <1>5 DEF IInv

LEMMA Invariance == Spec => []IInv
  <1>1. Init => IInv
    <2> SUFFICES ASSUME Init PROVE IInv
      OBVIOUS
    <2>1. StoresOK
      BY DEF Init, NoStores, StoresOK
    <2>2. MapsOK
      BY FS_EmptySet, CallsAssumption DEF Init, MapsOK, NeverCrossesCallers
    <2>3. CallsOK
      BY DEF Init, CallsOK, Steps, Placed, Making, Sending
    <2>4. InTurn
      BY DEF Init, InTurn, MadeOf, NewestOf, PendingOf, Making
    <2>5. QED
      BY <2>1, <2>2, <2>3, <2>4 DEF Init, IInv, Paired, InTurnMapsToTwin
  <1>2. IInv /\ [Next]_vars => IInv'
    <2> SUFFICES ASSUME IInv, [Next]_vars PROVE IInv'
      OBVIOUS
    <2>1. ASSUME NEW c \in Calls, NEW f \in Factories, NEW s \in Salts, NEW t \in Salts,
                 Create(c, f, IF s = t THEN <<s>> ELSE <<s, t>>)
          PROVE  IInv'
      <3>1. (IF s = t THEN <<s>> ELSE <<s, t>>) \in Lists
        BY DEF Lists
      <3>2. QED
        BY <2>1, <3>1, CreationKeeps
    <2>2. QED
      BY <2>1, ShortKeeps, CreationKeeps, SendKeeps, RestKeeps DEF Next, Granting
  <1>3. QED
    BY <1>1, <1>2, PTL DEF Spec

\* The stores, the two maps of predictions and the calls keep their types, and no
\* more than _PENDING_LIMIT predictions are kept.
THEOREM TypeCorrect == Spec => []TypeOK
  <1>1. IInv /\ GrantOK => TypeOK
    BY DEF IInv, GrantOK, StoresOK, MapsOK, CallsOK, TypeOK, Steps, Entries
  <1>2. QED
    BY Invariance, GrantTyped, <1>1, PTL

\* registerCreateMappingsFromReceipt pairs a prediction with the child it was made
\* for, if the test broadcasts what it simulated last, however many simulations it
\* abandons and however many predictions are dropped; and out of turn too it never
\* leads an address to another factory's child.
THEOREM PredictionsArePaired == Spec => []PredictionsPair
  <1>1. IInv => PredictionsPair
    BY DEF IInv, MapsOK, Paired, PredictionsPair
  <1>2. QED
    BY Invariance, <1>1, PTL

-----------------------------------------------------------------------------
(* Sessions on a chain                                                     *)

Kinds == {"mine", "warp", "setnext", "send", "deploy"}
Requests == {Mine} \cup {Set(time) : time \in Nat} \cup {BroadcastTx(t) : t \in Txs}

Operation ==
    [kind : Kinds \cup {"none"}, ask : Requests \cup {Poll}, tries : {0, 1}, left : Nat, target : Nat,
     tx : Txs \cup {Nothing}, iter : Nat, asked : Nat, spent : BOOLEAN, broken : BOOLEAN, late : BOOLEAN]

\* The node, and what is on the wire to it.
NodeOK ==
    /\ head \in Nat /\ override \in Nat /\ since \in Nat /\ sealed \in BOOLEAN
    /\ pool \subseteq Txs /\ mined \subseteq Txs
    /\ view \in [Txs -> {"none", "full", "solid"}]
    /\ ops \in 0..MaxOps /\ breaks \in 0..MaxBreaks /\ refused \in BOOLEAN
    /\ miner \in [is : {"nobody", "node", "call", "late"}, of : Nat] /\ miner.of <= ops
    /\ \A s \in strays : s.request \in Requests /\ s.of \in 0..ops

SessionOK ==
    /\ op \in Operation
    /\ expires \in [Txs -> Nat] /\ prebuilt \in [Slots -> Txs \cup {Nothing}]

Submitting == Waiting /\ op.ask = BroadcastTx(op.tx)

\* What each kind of operation asks, and has left on the wire.
Asks ==
    /\ op.kind = "none" => op = NoOp
    /\ op.kind = "mine" => op.ask = Mine /\ op.left \in Nat \ {0}
    /\ op.kind = "warp" => op.ask \in {Set(op.target), Mine}
    /\ op.kind = "setnext" => op.ask = Set(op.target)
    /\ Waiting => op.tx \in Txs /\ op.ask \in {BroadcastTx(op.tx), Poll, Mine}
    /\ Submitting => op.iter = 0
    /\ \A s \in strays : s.of = ops =>
          /\ op.kind = "mine" => s.request = Mine
          /\ op.kind = "warp" => s.request \in {Set(op.target), Mine}
          /\ Waiting => op.broken
    /\ miner.is = "late" /\ miner.of = ops /\ Waiting => op.broken

\* Nothing of the operation's own is on the wire, or mining without it.
Clear == miner.of # ops /\ \A s \in strays : s.of # ops

\* The node or the wire has the transaction.
Sent(t) == t \in pool \cup mined \/ \E s \in strays : s.request = BroadcastTx(t)

\* A transaction that is not sent yet is known to its slot or its operation alone.
Signed ==
    /\ \A t \in Txs : Sent(t) => t \in SignedTxs
    /\ \A s \in Slots, t \in Txs : prebuilt[s] = t =>
          /\ t \in SignedTxs /\ ~Sent(t)
          /\ \A r \in Slots : prebuilt[r] = t => r = s
          /\ Waiting => op.tx # t
    /\ \A t \in Txs : Waiting /\ op.tx = t => t \in SignedTxs /\ (op.ask = BroadcastTx(t) => ~Sent(t))

\* A warp that mines is sealed or about to be.
Sealable ==
    \/ sealed /\ head >= op.target
    \/ override = op.target /\ head < op.target
Sealing == op.kind = "warp" /\ op.ask = Mine /\ ~op.late /\ ~refused => Sealable

\* Blocks made and blocks left add up; a spent override owes one more.
Debt(is) == IF is THEN 1 ELSE 0
AddUp == since + op.left >= op.asked - Debt(op.spent) + Debt(Spent)
Counting == op.kind = "mine" /\ ~op.late => AddUp

\* A wait whose first recovery is over finds its transaction mined or expired, or
\* no override.
Settled == op.tx \in mined \/ expires[op.tx] <= head
Landed ==
    /\ op.tx \in pool \cup mined
    /\ op.iter > RecoverAt => Settled \/ override = 0
    /\ op.iter > 2 * RecoverAt => Settled
Landing ==
    Waiting /\ op.ask # BroadcastTx(op.tx) =>
        /\ op.ask = Mine => op.iter <= 2 * RecoverAt
        /\ ~op.broken /\ ~op.late /\ ~refused => Landed

ChainInv == NodeOK /\ SessionOK /\ Asks /\ Signed /\ Sealing /\ Counting /\ Landing

LEMMA Apart ==
    /\ Poll \notin Requests /\ Mine # Poll
    /\ \A time : Set(time) # Mine /\ Set(time) # Poll /\ Set(time).time = time
    /\ \A t : BroadcastTx(t) # Mine /\ BroadcastTx(t) # Poll /\ BroadcastTx(t).tx = t
    /\ \A t, time : BroadcastTx(t) # Set(time)
    /\ Mine.do = "mine" /\ \A x : Set(x).do = "set" /\ BroadcastTx(x).do = "broadcast"
  BY DEF Requests, Mine, Set, BroadcastTx, Poll

LEMMA Multiples == \A n \in Nat \ {0} : n % n = 0 /\ (2 * n) % n = 0
  OBVIOUS

-----------------------------------------------------------------------------
\* What a block does.
LEMMA BlockMade ==
    ASSUME NodeOK, NEW time \in Nat, NEW taken \in SUBSET pool, Block(time, taken)
    PROVE  /\ head' = time /\ head' > head /\ since' = since + 1 /\ sealed' = (sealed \/ time = op.target)
           /\ head' \in Nat /\ since' \in Nat /\ sealed' \in BOOLEAN
           /\ pool' \subseteq Txs /\ mined' \subseteq Txs
           /\ pool' = pool \ taken /\ mined' = mined \cup taken
           /\ pool' \cup mined' = pool \cup mined /\ refused' = refused
  <1>1. /\ time > head /\ head' = time /\ since' = since + 1
        /\ pool' = pool \ taken /\ mined' = mined \cup taken /\ refused' = refused
    BY DEF Block
  <1>2. sealed' = (sealed \/ time = op.target)
    BY Zenon DEF Block
  <1>3. sealed' \in BOOLEAN
    BY <1>2
  <1>4. pool' \subseteq Txs /\ mined' \subseteq Txs /\ pool' \cup mined' = pool \cup mined
    BY <1>1 DEF NodeOK
  <1>5. QED
    BY <1>1, <1>2, <1>3, <1>4 DEF NodeOK

\* What has been done for a request, by whichever mine holds the flag.
Done(request, ok) ==
    IF request = Mine THEN MineEnds(ok) \/ MineRefused(ok) ELSE Serve(request, ok)

LEMMA ServeDone ==
    ASSUME NEW request \in Requests, NEW ok \in BOOLEAN, Serve(request, ok)
    PROVE  Done(request, ok)
  BY Apart DEF Serve, Done, Requests

\* What the node does for a mine.
LEMMA MineMade ==
    ASSUME NodeOK, NEW ok \in BOOLEAN, Done(Mine, ok)
    PROVE  /\ override' = 0 /\ pool' \subseteq Txs /\ mined' \subseteq Txs
           /\ head' \in Nat /\ since' \in Nat /\ sealed' \in BOOLEAN /\ refused' \in BOOLEAN
           /\ pool' \cup mined' = pool \cup mined
           /\ miner' = miner \/ miner' = Nobody
           /\ \/ /\ refused' /\ ~ok /\ UNCHANGED <<head, pool, mined, since, sealed>>
              \/ /\ Spent /\ refused' = refused /\ UNCHANGED <<head, pool, mined, since, sealed>>
              \/ /\ ~Spent /\ ok /\ since' = since + 1 /\ head' > head /\ refused' = refused
                 /\ head' = (IF override # 0 THEN override ELSE head + Second)
                 /\ sealed' = (sealed \/ head' = op.target)
                 /\ mined' = mined \cup Valid
  <1>1. MineEnds(ok) \/ MineRefused(ok)
    BY DEF Done
  <1>2. CASE MineRefused(ok)
    BY <1>2 DEF MineRefused, NodeOK
  <1>3. CASE MineEnds(ok) /\ Spent
    BY <1>3 DEF MineEnds, NodeOK, blockHistory
  <1>4. CASE MineEnds(ok) /\ ~Spent
    <2>1. Valid \in SUBSET pool
      BY DEF Valid
    <2>2. PICK time \in Nat : time = (IF override # 0 THEN override ELSE head + Second) /\ Block(time, Valid)
      BY <1>4, SessionAssumption DEF MineEnds, NodeOK
    <2>3. override' = 0 /\ miner' = Nobody /\ ok
      BY <1>4 DEF MineEnds
    <2>4. /\ head' = time /\ head' > head /\ since' = since + 1 /\ sealed' = (sealed \/ time = op.target)
          /\ head' \in Nat /\ since' \in Nat /\ sealed' \in BOOLEAN /\ refused' = refused
          /\ pool' \subseteq Txs /\ mined' \subseteq Txs
          /\ mined' = mined \cup Valid /\ pool' \cup mined' = pool \cup mined
      BY <2>1, <2>2, BlockMade
    <2>5. refused' \in BOOLEAN
      BY <2>4 DEF NodeOK
    <2>6. QED
      BY <1>4, <2>2, <2>3, <2>4, <2>5
  <1>5. QED
    BY <1>1, <1>2, <1>3, <1>4

LEMMA SetMade ==
    ASSUME NodeOK, NEW time \in Nat, NEW ok \in BOOLEAN, Done(Set(time), ok)
    PROVE  /\ ok = (time > head) /\ override' = (IF ok THEN time ELSE override) /\ override' \in Nat
           /\ UNCHANGED <<head, pool, mined, since, sealed, refused, miner>>
  <1>1. ServeSet(time, ok)
    BY Apart DEF Done, Serve
  <1>2. QED
    BY <1>1 DEF ServeSet, NodeOK, blockHistory

LEMMA BroadcastMade ==
    ASSUME NodeOK, NEW t \in Txs, NEW ok \in BOOLEAN, Done(BroadcastTx(t), ok)
    PROVE  /\ ok = (expires[t] > head /\ t \notin pool \cup mined)
           /\ pool' = IF ok THEN pool \cup {t} ELSE pool
           /\ pool' \subseteq Txs
           /\ UNCHANGED <<head, override, mined, since, sealed, refused, miner>>
  <1>1. ServeBroadcast(t, ok)
    BY Apart DEF Done, Serve
  <1>2. QED
    BY <1>1 DEF ServeBroadcast, NodeOK, blockHistory

\* What the node does for any request.
LEMMA ServeMade ==
    ASSUME NodeOK, NEW request \in Requests, NEW ok \in BOOLEAN, Done(request, ok)
    PROVE  /\ head' \in Nat /\ override' \in Nat /\ since' \in Nat /\ sealed' \in BOOLEAN
           /\ refused' \in BOOLEAN /\ (refused => refused') /\ (miner' = miner \/ miner' = Nobody)
           /\ pool' \subseteq Txs /\ mined' \subseteq Txs
           /\ pool \cup mined \subseteq pool' \cup mined'
           /\ \A t \in pool' \cup mined' : t \in pool \cup mined \/ request = BroadcastTx(t)
  <1>1. CASE request = Mine
    BY <1>1, MineMade
  <1>2. ASSUME NEW time \in Nat, request = Set(time)
        PROVE  /\ head' \in Nat /\ override' \in Nat /\ since' \in Nat /\ sealed' \in BOOLEAN
               /\ UNCHANGED <<pool, mined, refused, miner>>
    BY <1>2, SetMade DEF NodeOK
  <1>3. ASSUME NEW t \in Txs, request = BroadcastTx(t)
        PROVE  /\ head' \in Nat /\ override' \in Nat /\ since' \in Nat /\ sealed' \in BOOLEAN
               /\ mined' = mined /\ pool' \subseteq Txs /\ (pool' = pool \/ pool' = pool \cup {t})
               /\ UNCHANGED <<refused, miner>>
    BY <1>3, BroadcastMade DEF NodeOK
  <1>4. QED
    BY <1>1, <1>2, <1>3 DEF Requests, NodeOK

\* The flag's holder stays one.
LEMMA MinerKept ==
    ASSUME NodeOK, miner' = miner \/ miner' = Nobody
    PROVE  miner' \in [is : {"nobody", "node", "call", "late"}, of : Nat] /\ miner'.of <= ops
  BY SessionAssumption DEF NodeOK, Nobody, Miner

-----------------------------------------------------------------------------
\* What becomes of an operation.

\* It goes on.
Goes ==
    /\ op' \in Operation /\ op'.kind = op.kind /\ op'.target = op.target /\ op'.tx = op.tx
    /\ op'.asked = op.asked /\ op'.spent = op.spent
SameCount == op'.left = op.left /\ op'.iter = op.iter /\ op'.broken = op.broken /\ op'.late = op.late

\* The answer to a request ends it, or it goes on to what it asks next.
LEMMA AnswerGoes ==
    ASSUME NodeOK, SessionOK, Asks, Asking, NEW ok \in BOOLEAN, Answered(ok)
    PROVE  /\ UNCHANGED <<prebuilt, ops>>
           /\ \/ /\ Goes /\ Recovering /\ op'.ask = Poll /\ op'.iter = op.iter + 1
                 /\ op'.left = op.left /\ op'.broken = op.broken /\ op'.late = op.late
              \/ Goes /\ SameCount /\ ok /\ Waiting /\ op.ask # Mine /\ op'.ask = Poll
              \/ Goes /\ SameCount /\ ok /\ op.kind = "warp" /\ op.ask # Mine /\ op'.ask = Mine
              \/ /\ Goes /\ ok /\ ~Waiting /\ op.left > 1 /\ op'.left = op.left - 1 /\ op'.ask = op.ask
                 /\ (op.kind = "warp" => op.ask = Mine)
                 /\ op'.iter = op.iter /\ op'.broken = op.broken /\ op'.late = op.late
              \/ /\ op' = NoOp /\ result' = "ok" /\ ok /\ ~Waiting /\ op.left <= 1
                 /\ (op.kind = "warp" => op.ask = Mine)
              \/ /\ op' = NoOp /\ ~ok /\ ~Recovering /\ result' = (IF Waiting THEN "refused" ELSE "threw")
  <1>1. op \in Operation /\ Mine \in Requests /\ op.left \in Nat
    BY DEF SessionOK, Operation, Requests
  <1>2. CASE Recovering
    <2>1. op' = [op EXCEPT !.ask = Poll, !.iter = @ + 1, !.tries = 0] /\ UNCHANGED <<prebuilt, ops>>
      BY <1>1, <1>2 DEF Answered, Continue, Operation
    <2>2. op.iter + 1 \in Nat
      BY <1>1 DEF Operation
    <2>3. QED
      BY <1>1, <1>2, <2>1, <2>2 DEF Goes, Operation
  <1>3. CASE ~Recovering /\ ~ok
    BY <1>3 DEF Answered, EndOp
  <1>4. CASE ~Recovering /\ ok /\ Waiting
    <2>1. op' = [op EXCEPT !.ask = Poll, !.tries = 0] /\ UNCHANGED <<prebuilt, ops>>
      BY <1>1, <1>4 DEF Answered, Continue, Operation
    <2>2. op.ask # Mine
      BY <1>4 DEF Recovering
    <2>3. QED
      BY <1>1, <1>4, <2>1, <2>2 DEF Goes, SameCount, Operation
  <1>5. CASE ok /\ op.kind = "warp" /\ op.ask # Mine
    <2>1. ~Waiting
      BY <1>5 DEF Waiting
    <2>2. op' = [op EXCEPT !.ask = Mine, !.tries = 0] /\ UNCHANGED <<prebuilt, ops>>
      BY <1>1, <1>5, <2>1 DEF Answered, Continue, Recovering, Operation
    <2>3. QED
      BY <1>1, <1>5, <2>2 DEF Goes, SameCount, Operation
  <1>6. CASE ok /\ ~Waiting /\ ~(op.kind = "warp" /\ op.ask # Mine) /\ op.left > 1
    <2>1. op' = [op EXCEPT !.left = @ - 1, !.tries = 0] /\ UNCHANGED <<prebuilt, ops>>
      BY <1>1, <1>6 DEF Answered, Continue, Recovering, Operation
    <2>2. op.left - 1 \in Nat
      BY <1>1, <1>6
    <2>3. QED
      BY <1>1, <1>6, <2>1, <2>2 DEF Goes, Operation
  <1>7. CASE ok /\ ~Waiting /\ ~(op.kind = "warp" /\ op.ask # Mine) /\ ~(op.left > 1)
    BY <1>1, <1>7 DEF Answered, EndOp, Recovering
  <1>8. QED
    BY <1>2, <1>3, <1>4, <1>5, <1>6, <1>7

\* A break is retried, or gives the operation up, or its recovery.
LEMMA BreakGoes ==
    ASSUME NodeOK, SessionOK, Asks, Asking, NEW lost \in BOOLEAN, Broken(lost)
    PROVE  /\ UNCHANGED <<prebuilt, ops>>
           /\ \/ /\ Goes /\ op'.ask = op.ask /\ op'.left = op.left /\ op'.iter = op.iter /\ op'.late = op.late
                 /\ op'.broken = TRUE /\ op.ask.do # "broadcast"
              \/ /\ Goes /\ Recovering /\ op'.ask = Poll /\ op'.left = op.left /\ op'.iter = op.iter + 1
                 /\ op'.broken = TRUE /\ op'.late = op.late
              \/ op' = NoOp /\ result' = "threw"
  <1>1. op \in Operation
    BY DEF SessionOK
  <1>2. CASE ~GiveUp(lost)
    <2>1. op' = [op EXCEPT !.tries = 1, !.broken = TRUE] /\ op.ask.do # "broadcast" /\ UNCHANGED <<prebuilt, ops>>
      BY <1>2 DEF Broken, GiveUp
    <2>2. QED
      BY <1>1, <2>1 DEF Goes, Operation
  <1>3. CASE GiveUp(lost) /\ Recovering
    <2>1. op' = [op EXCEPT !.ask = Poll, !.iter = @ + 1, !.broken = TRUE, !.tries = 0] /\ UNCHANGED <<prebuilt, ops>>
      BY <1>1, <1>3 DEF Broken, Continue, Operation
    <2>2. op.iter + 1 \in Nat
      BY <1>1 DEF Operation
    <2>3. QED
      BY <1>1, <1>3, <2>1, <2>2 DEF Goes, Operation
  <1>4. CASE GiveUp(lost) /\ ~Recovering
    BY <1>4 DEF Broken, EndOp
  <1>5. QED
    BY <1>2, <1>3, <1>4

\* A poll finds the receipt, or goes on to the next or to a recovery.
LEMMA PollGoes ==
    ASSUME NodeOK, SessionOK, Asks, PollOnce \/ Deadline
    PROVE  /\ UNCHANGED <<prebuilt, ops>> /\ Waiting /\ op.ask = Poll
           /\ \/ /\ Goes /\ op'.ask = Mine /\ SameCount /\ op.iter <= 2 * RecoverAt
              \/ /\ Goes /\ op'.ask = Poll /\ op'.left = op.left /\ op'.broken = op.broken /\ op'.late = op.late
                 /\ op'.iter = op.iter + 1 /\ op.iter <= 2 * RecoverAt
                 /\ op.iter # RecoverAt /\ op.iter # 2 * RecoverAt
              \/ op' = NoOp /\ result' \in {"ok", "timeout"} /\ (result' = "timeout" => Deadline)
  <1>1. op \in Operation /\ Mine \in Requests /\ Waiting /\ op.ask = Poll
    BY DEF SessionOK, PollOnce, Deadline, Polling, Requests
  <1>2. CASE Deadline
    BY <1>1, <1>2 DEF Deadline, EndOp
  <1>3. CASE PollOnce /\ Found
    BY <1>1, <1>3 DEF PollOnce, EndOp
  <1>4. CASE PollOnce /\ ~Found /\ Every(RecoverAt)
    <2>1. op' = [op EXCEPT !.ask = Mine, !.tries = 0] /\ op.iter <= 2 * RecoverAt /\ UNCHANGED <<prebuilt, ops>>
      BY <1>1, <1>4 DEF PollOnce, Continue, Operation
    <2>2. QED
      BY <1>1, <2>1 DEF Goes, SameCount, Operation
  <1>5. CASE PollOnce /\ ~Found /\ ~Every(RecoverAt)
    <2>1. op' = [op EXCEPT !.iter = @ + 1, !.tries = 0] /\ op.iter <= 2 * RecoverAt /\ UNCHANGED <<prebuilt, ops>>
      BY <1>1, <1>5 DEF PollOnce, Continue, Operation
    <2>2. RecoverAt \in Nat \ {0}
      BY SessionAssumption DEF NodeOK
    <2>3. RecoverAt % RecoverAt = 0 /\ (2 * RecoverAt) % RecoverAt = 0
      BY <2>2, Multiples
    <2>4. op.iter # RecoverAt /\ op.iter # 2 * RecoverAt
      BY <1>5, <2>2, <2>3 DEF Every
    <2>5. op.iter + 1 \in Nat
      BY <1>1 DEF Operation
    <2>6. QED
      BY <1>1, <2>1, <2>4, <2>5 DEF Goes, Operation
  <1>6. QED
    BY <1>2, <1>3, <1>4, <1>5

\* What comes late marks the operation under way.
LEMMA MarkGoes ==
    ASSUME SessionOK, Asks, NEW of, Marks(of)
    PROVE  \/ op' = NoOp /\ op = NoOp
           \/ /\ Goes /\ op'.ask = op.ask /\ op'.left = op.left /\ op'.iter = op.iter /\ op'.broken = op.broken
              /\ op.kind # "none" /\ (~op'.late => ~op.late /\ of = ops)
  <1> DEFINE late == op.kind # "none" /\ (op.late \/ of # ops)
  <1>1. op' = [op EXCEPT !.late = late] /\ op \in Operation
    BY DEF Marks, SessionOK, Operation
  <1>2. late \in BOOLEAN /\ (op.kind # "none" /\ ~late => ~op.late /\ of = ops) /\ (op.kind = "none" => late = FALSE)
    OBVIOUS
  <1> HIDE DEF late
  <1>3. CASE op.kind = "none"
    <2>1. op = NoOp /\ op' = [NoOp EXCEPT !.late = FALSE]
      BY <1>1, <1>2, <1>3 DEF Asks
    <2>2. op' = NoOp
      BY <2>1 DEF NoOp
    <2>3. QED
      BY <2>1, <2>2
  <1>4. CASE op.kind # "none"
    <2>1. Goes /\ op'.ask = op.ask /\ op'.left = op.left /\ op'.iter = op.iter /\ op'.broken = op.broken /\ op'.late = late
      BY <1>1, <1>2 DEF Goes, Operation
    <2>2. QED
      BY <1>2, <1>4, <2>1
  <1>5. QED
    BY <1>3, <1>4

-----------------------------------------------------------------------------
\* What an operation begins with.
LEMMA Begun ==
    ASSUME NodeOK, NEW r \in Operation, BeginOp(r)
    PROVE  /\ op.kind = "none" /\ ops' = ops + 1 /\ ops' \in 0..MaxOps /\ since' = 0 /\ sealed' = FALSE /\ refused' = FALSE
           /\ op' \in Operation /\ Debt(op'.spent) = Debt(Spent)
           /\ op'.kind = r.kind /\ op'.ask = r.ask /\ op'.left = r.left /\ op'.target = r.target /\ op'.tx = r.tx
           /\ op'.iter = r.iter /\ op'.asked = r.asked /\ op'.broken = r.broken /\ op'.late = r.late
  <1> DEFINE spent == Spent
  <1>1. /\ op.kind = "none" /\ ops < MaxOps /\ op' = [r EXCEPT !.spent = spent]
        /\ ops' = ops + 1 /\ since' = 0 /\ sealed' = FALSE /\ refused' = FALSE
    BY DEF BeginOp
  <1>2. spent \in BOOLEAN
    BY DEF Spent
  <1>3. Debt(Spent) = Debt(spent)
    OBVIOUS
  <1>4. ops' \in 0..MaxOps
    BY <1>1, SessionAssumption DEF NodeOK
  <1> HIDE DEF spent
  <1>5. op' \in Operation /\ op'.spent = spent
    BY <1>1, <1>2 DEF Operation
  <1>6. QED
    BY <1>1, <1>3, <1>4, <1>5 DEF Operation

LEMMA NoOpIsOperation == NoOp \in Operation /\ NoOp.kind = "none" /\ NoOp.iter = 0 /\ ~NoOp.late
  BY DEF NoOp, Operation, Nothing, Requests

LEMMA MineBegun ==
    ASSUME NodeOK, NEW n \in 1..MaxBatch, CallMine(n)
    PROVE  /\ op.kind = "none" /\ ops' = ops + 1 /\ ops' \in 0..MaxOps /\ since' = 0 /\ sealed' = FALSE /\ refused' = FALSE
           /\ op' \in Operation /\ op'.kind = "mine" /\ op'.ask = Mine /\ op'.left = n /\ op'.asked = n
           /\ Debt(op'.spent) = Debt(Spent)
  <1> DEFINE r == [NoOp EXCEPT !.kind = "mine", !.ask = Mine, !.left = n, !.asked = n]
  <1>1. BeginOp(r)
    BY DEF CallMine
  <1>2. n \in Nat
    BY SessionAssumption DEF NodeOK
  <1>3. r \in Operation /\ r.kind = "mine" /\ r.ask = Mine /\ r.left = n /\ r.asked = n
    BY <1>2, NoOpIsOperation DEF Operation, Kinds, Requests
  <1> HIDE DEF r
  <1>4. QED
    BY <1>1, <1>3, Begun

LEMMA WarpBegun ==
    ASSUME NodeOK, NEW kind \in {"warp", "setnext"}, NEW time \in Nat, Warp(kind, time)
    PROVE  /\ op.kind = "none" /\ ops' = ops + 1 /\ ops' \in 0..MaxOps /\ since' = 0 /\ sealed' = FALSE /\ refused' = FALSE
           /\ op' \in Operation /\ op'.kind = kind /\ op'.ask = Set(op'.target)
           /\ UNCHANGED <<chain, view, expires, prebuilt, strays, breaks>>
  <1> DEFINE r == [NoOp EXCEPT !.kind = kind, !.ask = Set(time), !.target = time]
  <1>1. BeginOp(r) /\ UNCHANGED <<chain, view, expires, prebuilt, strays, breaks>>
    BY DEF Warp
  <1>2. r \in Operation /\ r.kind = kind /\ r.ask = Set(time) /\ r.target = time
    BY NoOpIsOperation DEF Operation, Kinds, Requests
  <1> HIDE DEF r
  <1>3. QED
    BY <1>1, <1>2, Begun

LEMMA SubmitBegun ==
    ASSUME NodeOK, NEW kind \in {"send", "deploy"}, NEW t \in Txs, Submit(kind, t)
    PROVE  /\ op.kind = "none" /\ ops' = ops + 1 /\ ops' \in 0..MaxOps /\ since' = 0 /\ sealed' = FALSE /\ refused' = FALSE
           /\ op' \in Operation /\ op'.kind = kind /\ op'.ask = BroadcastTx(t) /\ op'.tx = t /\ op'.iter = 0
  <1> DEFINE r == [NoOp EXCEPT !.kind = kind, !.ask = BroadcastTx(t), !.tx = t]
  <1>1. BeginOp(r)
    BY DEF Submit
  <1>2. r \in Operation /\ r.kind = kind /\ r.ask = BroadcastTx(t) /\ r.tx = t /\ r.iter = 0
    BY NoOpIsOperation DEF Operation, Kinds, Requests
  <1> HIDE DEF r
  <1>3. QED
    BY <1>1, <1>2, Begun

-----------------------------------------------------------------------------
\* What the node knows of transactions when it has served a request.
LEMMA ServeSends ==
    ASSUME NodeOK, NEW request \in Requests, NEW ok \in BOOLEAN, Done(request, ok), strays' \subseteq strays
    PROVE  \A t \in Txs : Sent(t)' => Sent(t) \/ request = BroadcastTx(t)
  BY ServeMade DEF Sent

\* Nothing but the operation's own transaction becomes known.
LEMMA SignedKept ==
    ASSUME ChainInv, UNCHANGED <<prebuilt, expires>>,
           \A t \in Txs : Sent(t)' => Sent(t) \/ (Submitting /\ t = op.tx),
           \/ op' = NoOp
           \/ /\ op'.kind = op.kind /\ op'.tx = op.tx
              /\ \/ op'.ask # BroadcastTx(op.tx)
                 \/ op'.ask = op.ask /\ \A t \in Txs : Sent(t)' => Sent(t)
    PROVE  Signed'
  <1>1. SignedTxs' = SignedTxs
    BY DEF SignedTxs
  <1>2. Waiting' => Waiting /\ op'.tx = op.tx /\ op' # NoOp
    BY NoOpIsOperation DEF Waiting
  <1>3. Signed /\ (Submitting => op.tx \in Txs /\ op.tx \in SignedTxs /\ ~Sent(op.tx))
    BY DEF ChainInv, Signed, Submitting, Asks
  <1>4. ASSUME NEW t \in Txs, Sent(t)' PROVE t \in SignedTxs
    BY <1>3, <1>4 DEF Signed
  <1>5. ASSUME NEW s \in Slots, NEW t \in Txs, prebuilt[s] = t
        PROVE  /\ t \in SignedTxs /\ ~Sent(t)'
               /\ \A r \in Slots : prebuilt[r] = t => r = s
               /\ Waiting' => op'.tx # t
    BY <1>2, <1>3, <1>5 DEF Signed, Submitting
  <1>6. ASSUME NEW t \in Txs, Waiting', op'.tx = t
        PROVE  t \in SignedTxs /\ (op'.ask = BroadcastTx(t) => ~Sent(t)')
    BY <1>2, <1>3, <1>6 DEF Signed
  <1>7. QED
    BY <1>1, <1>4, <1>5, <1>6 DEF Signed

\* What ends leaves little to keep.
LEMMA EndKept ==
    ASSUME ChainInv, NodeOK', op' = NoOp, UNCHANGED <<prebuilt, expires, ops>>,
           \A t \in Txs : Sent(t)' => Sent(t) \/ (Submitting /\ t = op.tx)
    PROVE  ChainInv'
  <1>1. op'.kind = "none" /\ op' \in Operation
    BY NoOpIsOperation
  <1>2. SessionOK' /\ Asks' /\ Sealing' /\ Counting' /\ Landing'
    BY <1>1 DEF ChainInv, SessionOK, Asks, Waiting, Submitting, Sealing, Counting, Landing
  <1>3. Signed'
    BY SignedKept
  <1>4. QED
    BY <1>2, <1>3 DEF ChainInv

\* A target set, and mined on by whoever holds the flag, is sealed.
LEMMA SealMade ==
    ASSUME NodeOK, SessionOK, Sealable, ~refused', NEW request \in {Mine, Set(op.target)}, NEW ok \in BOOLEAN,
           Done(request, ok)
    PROVE  /\ (sealed' /\ head' >= op.target) \/ (override' = op.target /\ head' < op.target)
           /\ request = Mine => sealed' /\ head' >= op.target
  <1>1. op.target \in Nat
    BY DEF SessionOK, Operation
  <1>2. CASE request = Mine
    <2>1. Done(Mine, ok)
      BY <1>2
    <2>2. CASE Spent
      BY <1>1, <2>1, <2>2, MineMade DEF NodeOK, Sealable, Spent
    <2>3. CASE ~Spent
      <3>1. /\ head' > head /\ head' \in Nat /\ head' = (IF override # 0 THEN override ELSE head + Second)
            /\ sealed' = (sealed \/ head' = op.target)
        BY <2>1, <2>3, MineMade
      <3>2. (sealed /\ head >= op.target) \/ (override = op.target /\ head < op.target)
        BY DEF Sealable
      <3>3. head' >= op.target /\ (sealed \/ head' = op.target)
        BY <1>1, <3>1, <3>2 DEF NodeOK
      <3>4. sealed'
        BY <3>1, <3>3, Zenon
      <3>5. QED
        BY <3>3, <3>4
    <2>4. QED
      BY <2>2, <2>3
  <1>3. CASE request = Set(op.target)
    <2>1. Done(Set(op.target), ok) /\ request # Mine
      BY <1>3, Apart
    <2>2. ok = (op.target > head) /\ override' = (IF ok THEN op.target ELSE override) /\ UNCHANGED <<head, sealed>>
      BY <1>1, <2>1, SetMade
    <2>3. QED
      BY <1>1, <2>1, <2>2 DEF NodeOK, Sealable
  <1>4. QED
    BY <1>2, <1>3

LEMMA SealKept ==
    ASSUME NodeOK, SessionOK, Sealable, ~refused', NEW request \in {Mine, Set(op.target)}, NEW ok \in BOOLEAN,
           Done(request, ok), op'.target = op.target
    PROVE  Sealable'
  BY SealMade DEF Sealable

\* A mine that answers that it mined makes up for a spent override or makes a block.
LEMMA CountKept ==
    ASSUME NodeOK, SessionOK, AddUp, NEW ok \in BOOLEAN, Done(Mine, ok)
    PROVE  since' + op.left >= op.asked - Debt(op.spent) + Debt(ok) /\ Debt(Spent)' = 0
  <1>1. override' = 0 /\ since' \in Nat
    BY MineMade
  <1>2. Debt(Spent)' = 0
    BY <1>1 DEF Spent, Debt
  <1>3. op.left \in Nat /\ op.asked \in Nat /\ Debt(op.spent) \in {0, 1} /\ Debt(ok) \in {0, 1} /\ since \in Nat
    BY DEF SessionOK, Operation, Debt, NodeOK
  <1>4. CASE Spent
    <2>1. since' = since /\ Debt(Spent) = 1
      BY <1>4, MineMade DEF Debt
    <2>2. QED
      BY <1>2, <1>3, <2>1 DEF AddUp
  <1>5. CASE ~Spent /\ ok
    <2>1. since' = since + 1 /\ Debt(Spent) = 0
      BY <1>5, MineMade DEF Debt
    <2>2. QED
      BY <1>2, <1>3, <2>1 DEF AddUp
  <1>6. CASE ~Spent /\ ~ok
    <2>1. since' = since /\ Debt(Spent) = 0 /\ Debt(ok) = 0
      BY <1>6, MineMade DEF Debt
    <2>2. QED
      BY <1>2, <1>3, <2>1 DEF AddUp
  <1>7. QED
    BY <1>4, <1>5, <1>6

\* What is settled stays so.
LEMMA SettledKept ==
    ASSUME NodeOK, SessionOK, Settled, op.tx \in Txs, op'.tx = op.tx, UNCHANGED expires,
           mined \subseteq mined', head' \in Nat, head' >= head
    PROVE  Settled'
  <1>1. expires[op.tx] \in Nat /\ head \in Nat
    BY DEF NodeOK, SessionOK
  <1>2. QED
    BY <1>1 DEF Settled

\* The second recovery mine of a wait finds no override, and takes what has not
\* expired.
LEMMA LandKept ==
    ASSUME NodeOK, SessionOK, Landed, op.iter <= 2 * RecoverAt, NEW ok \in BOOLEAN, Done(Mine, ok), ~refused',
           op.tx \in Txs, op'.tx = op.tx, op'.iter = op.iter + 1, UNCHANGED expires
    PROVE  Landed'
  <1>1. /\ override' = 0 /\ pool' \cup mined' = pool \cup mined
        /\ mined \subseteq mined' /\ (Spent \/ mined' = mined \cup Valid)
        /\ head' \in Nat /\ head' >= head
    BY MineMade DEF NodeOK
  <1>2. op.iter \in Nat /\ RecoverAt \in Nat \ {0}
    BY SessionAssumption DEF SessionOK, Operation, NodeOK
  <1>3. op.iter + 1 > 2 * RecoverAt => op.iter > RecoverAt
    BY <1>2
  <1>4. Settled => Settled'
    BY <1>1, SettledKept
  <1>5. ASSUME op.iter > RecoverAt PROVE Settled'
    <2>1. CASE Settled
      BY <1>4, <2>1
    <2>2. CASE override = 0
      <3>1. mined' = mined \cup Valid
        BY <1>1, <2>2 DEF Spent
      <3>2. expires[op.tx] \in Nat /\ head \in Nat
        BY DEF NodeOK, SessionOK
      <3>3. op.tx \in mined' \/ expires[op.tx] <= head
        BY <3>1, <3>2 DEF Landed, Valid
      <3>4. QED
        BY <1>1, <3>2, <3>3 DEF Settled
    <2>3. QED
      BY <1>5, <2>1, <2>2 DEF Landed
  <1>6. QED
    BY <1>1, <1>3, <1>5 DEF Landed

-----------------------------------------------------------------------------
(* The node by itself                                                      *)

\* Nothing the invariant speaks of changes but who holds the flag.
LEMMA QuietKeeps ==
    ASSUME ChainInv,
           UNCHANGED <<head, override, pool, mined, blockHistory, expires, prebuilt, op, ops, strays, breaks>>,
           view' \in [Txs -> {"none", "full", "solid"}],
           \/ UNCHANGED miner
           \/ \E is \in {"nobody", "node", "call"}, of \in 0..ops : miner' = Miner(is, of)
    PROVE  ChainInv'
  <1>1. UNCHANGED <<since, sealed, refused>>
    BY DEF blockHistory
  <1>2. /\ miner' \in [is : {"nobody", "node", "call", "late"}, of : Nat] /\ miner'.of <= ops
        /\ miner'.is = "late" => miner' = miner
    <2>1. ASSUME NEW is \in {"nobody", "node", "call"}, NEW of \in 0..ops, miner' = Miner(is, of)
          PROVE  /\ miner' \in [is : {"nobody", "node", "call", "late"}, of : Nat] /\ miner'.of <= ops
                 /\ miner'.is # "late"
      BY <2>1, SessionAssumption DEF Miner, ChainInv, NodeOK
    <2>2. CASE UNCHANGED miner
      BY <2>2 DEF ChainInv, NodeOK
    <2>3. QED
      BY <2>1, <2>2
  <1>3. NodeOK' /\ SessionOK' /\ Asks'
    BY <1>1, <1>2 DEF ChainInv, NodeOK, SessionOK, Asks, Waiting, Submitting
  <1>4. \A u \in Txs : Sent(u)' = Sent(u)
    BY DEF Sent
  <1>5. Signed'
    BY <1>4 DEF ChainInv, Signed, Waiting, SignedTxs
  <1>6. Sealing' /\ Counting'
    BY <1>1 DEF ChainInv, Sealing, Sealable, Counting, AddUp, Spent
  <1>7. Landing'
    BY <1>1 DEF ChainInv, Landing, Landed, Settled, Waiting
  <1>8. QED
    BY <1>3, <1>5, <1>6, <1>7 DEF ChainInv

LEMMA BlockKeeps ==
    ASSUME ChainInv, NEW taken \in SUBSET Valid, NEW time \in Nat, Block(time, taken),
           override # 0 => time = override, miner' = Nobody,
           UNCHANGED <<override, view, expires, session, strays, breaks>>
    PROVE  ChainInv'
  <1>1. taken \in SUBSET pool
    BY DEF Valid
  <1>2. /\ head' = time /\ head' > head /\ since' = since + 1 /\ refused' = refused
        /\ head' \in Nat /\ since' \in Nat /\ sealed' \in BOOLEAN /\ pool' \subseteq Txs /\ mined' \subseteq Txs
        /\ mined' = mined \cup taken /\ pool' \cup mined' = pool \cup mined
    BY <1>1, BlockMade DEF ChainInv
  <1>3. sealed' = (sealed \/ time = op.target)
    BY <1>1, BlockMade DEF ChainInv
  <1>4. UNCHANGED <<override, view, expires, prebuilt, op, ops, result, strays, breaks>>
    BY DEF session
  <1>5. miner' \in [is : {"nobody", "node", "call", "late"}, of : Nat] /\ miner'.of <= ops /\ miner'.is # "late"
    BY MinerKept DEF ChainInv, Nobody, Miner
  <1>6. NodeOK' /\ SessionOK'
    BY <1>2, <1>4, <1>5 DEF ChainInv, NodeOK, SessionOK
  <1>7. Asks'
    BY <1>4, <1>5 DEF ChainInv, Asks, Waiting, Submitting
  <1>8. \A t \in Txs : Sent(t)' = Sent(t)
    BY <1>2, <1>4 DEF Sent
  <1>9. Signed'
    BY <1>4, <1>8 DEF ChainInv, Signed, Waiting, SignedTxs
  <1>10. Sealing'
    <2>1. SUFFICES ASSUME Sealing' = FALSE PROVE FALSE
      BY DEF Sealing
    <2>2. Sealable
      BY <1>2, <1>4, <2>1 DEF ChainInv, Sealing
    <2>3. op.target \in Nat
      BY DEF ChainInv, SessionOK, Operation
    <2>4. head' >= op.target /\ (sealed \/ time = op.target)
      BY <1>2, <2>2, <2>3 DEF Sealable, ChainInv, NodeOK
    <2>5. sealed'
      BY <1>3, <2>4, Zenon
    <2>6. QED
      BY <1>4, <2>1, <2>4, <2>5 DEF Sealing, Sealable
  <1>11. Counting'
    BY <1>2, <1>4 DEF ChainInv, NodeOK, SessionOK, Operation, Counting, AddUp, Debt
  <1>12. Landing'
    <2>1. SUFFICES ASSUME Waiting, op.ask # BroadcastTx(op.tx)
                   PROVE  /\ op.ask = Mine => op.iter <= 2 * RecoverAt
                          /\ ~op.broken /\ ~op.late /\ ~refused => Landed'
      BY <1>2, <1>4 DEF Landing, Waiting
    <2>2. op.tx \in Txs /\ op'.tx = op.tx /\ head \in Nat
      BY <1>4, <2>1 DEF ChainInv, Asks, NodeOK
    <2>3. Settled => Settled'
      BY <1>2, <1>4, <2>2, SettledKept DEF ChainInv
    <2>4. Landed => Landed'
      BY <1>2, <1>4, <2>3 DEF Landed
    <2>5. QED
      BY <2>1, <2>4 DEF ChainInv, Landing
  <1>13. QED
    BY <1>6, <1>7, <1>9, <1>10, <1>11, <1>12 DEF ChainInv

LEMMA ProduceKeeps ==
    ASSUME ChainInv, NodeBegins \/ NodeProduces
    PROVE  ChainInv'
  <1>1. view \in [Txs -> {"none", "full", "solid"}] /\ 0 \in 0..ops
    BY SessionAssumption DEF ChainInv, NodeOK
  <1>2. CASE NodeBegins
    BY <1>1, <1>2, QuietKeeps DEF NodeBegins, session
  <1>3. CASE NodeProduces /\ UNCHANGED <<head, pool, mined, blockHistory>>
    BY <1>1, <1>3, QuietKeeps DEF NodeProduces, session, Nobody
  <1>4. CASE NodeProduces /\ ~UNCHANGED <<head, pool, mined, blockHistory>>
    <2>1. PICK taken \in SUBSET Valid, time \in Nat : Block(time, taken) /\ (override # 0 => time = override)
      BY <1>4, SessionAssumption DEF NodeProduces, ChainInv, NodeOK
    <2>2. QED
      BY <1>4, <2>1, BlockKeeps DEF NodeProduces
  <1>5. QED
    BY <1>2, <1>3, <1>4

\* Only the views of receipts change, or only the flag goes up.
LEMMA IndexKeeps ==
    ASSUME ChainInv, (\E t \in Txs : Index(t)) \/ Admitted
    PROVE  ChainInv'
  <1>1. CASE \E t \in Txs : Index(t)
    <2>1. PICK t \in Txs : Index(t)
      BY <1>1
    <2>2. view' \in [Txs -> {"none", "full", "solid"}]
      BY <2>1 DEF Index, ChainInv, NodeOK
    <2>3. QED
      BY <2>1, <2>2, QuietKeeps DEF Index, node, chain, session
  <1>2. CASE Admitted
    <2>1. view' \in [Txs -> {"none", "full", "solid"}] /\ ops \in 0..ops /\ miner' = Miner("call", ops)
      BY <1>2, SessionAssumption DEF Admitted, ChainInv, NodeOK
    <2>2. QED
      BY <1>2, <2>1, QuietKeeps DEF Admitted, session
  <1>3. QED
    BY <1>1, <1>2

-----------------------------------------------------------------------------
(* Operations begin                                                        *)

\* What was on the wire before, and who holds the flag, is nothing of a new operation's.
LEMMA StartKeeps ==
    ASSUME ChainInv, ops' = ops + 1, ops' \in 0..MaxOps, since' \in Nat, sealed' \in BOOLEAN,
           refused' \in BOOLEAN, UNCHANGED <<chain, view, strays, breaks>>
    PROVE  /\ NodeOK' /\ Clear'
           /\ \A t \in Txs : Sent(t)' = Sent(t)
  <1>1. UNCHANGED <<head, override, pool, mined, miner>>
    BY DEF chain
  <1>2. \A s \in strays' : s.of # ops' /\ s.request \in Requests /\ s.of \in 0..ops'
    BY DEF ChainInv, NodeOK
  <1>3. miner'.of # ops' /\ miner'.of <= ops'
    BY <1>1 DEF ChainInv, NodeOK
  <1>4. NodeOK'
    BY <1>1, <1>2, <1>3 DEF ChainInv, NodeOK
  <1>5. QED
    BY <1>1, <1>2, <1>3, <1>4 DEF Sent, Clear

LEMMA MineStartKeeps ==
    ASSUME ChainInv, NEW n \in 1..MaxBatch, CallMine(n)
    PROVE  ChainInv'
  <1>1. /\ ops' = ops + 1 /\ ops' \in 0..MaxOps /\ since' = 0 /\ sealed' = FALSE /\ refused' = FALSE
        /\ op' \in Operation /\ op'.kind = "mine" /\ op'.ask = Mine /\ op'.left = n /\ op'.asked = n
        /\ Debt(op'.spent) = Debt(Spent)
    BY MineBegun DEF ChainInv
  <1>2. UNCHANGED <<chain, view, expires, prebuilt, strays, breaks>>
    BY DEF CallMine
  <1>3. NodeOK' /\ Clear' /\ \A t \in Txs : Sent(t)' = Sent(t)
    BY <1>1, <1>2, StartKeeps
  <1>4. n \in Nat \ {0}
    BY SessionAssumption DEF ChainInv, NodeOK
  <1>5. SessionOK' /\ Asks'
    BY <1>1, <1>2, <1>3, <1>4 DEF ChainInv, SessionOK, Asks, Clear, Waiting, Submitting
  <1>6. Signed'
    BY <1>1, <1>2, <1>3 DEF ChainInv, Signed, Waiting, SignedTxs
  <1>7. Debt(Spent)' = Debt(Spent) /\ Debt(Spent) \in Nat
    BY <1>2 DEF Spent, Debt, chain
  <1>8. Counting'
    BY <1>1, <1>4, <1>7 DEF Counting, AddUp
  <1>9. Sealing' /\ Landing'
    BY <1>1 DEF Sealing, Landing, Waiting
  <1>10. QED
    BY <1>3, <1>5, <1>6, <1>8, <1>9 DEF ChainInv

LEMMA WarpStartKeeps ==
    ASSUME ChainInv, NEW kind \in {"warp", "setnext"}, NEW time \in Nat, Warp(kind, time)
    PROVE  ChainInv'
  <1>1. /\ ops' = ops + 1 /\ ops' \in 0..MaxOps /\ since' = 0 /\ sealed' = FALSE /\ refused' = FALSE
        /\ op' \in Operation /\ op'.kind = kind /\ op'.ask = Set(op'.target)
        /\ UNCHANGED <<chain, view, expires, prebuilt, strays, breaks>>
    BY WarpBegun DEF ChainInv
  <1>2. NodeOK' /\ Clear' /\ \A t \in Txs : Sent(t)' = Sent(t)
    BY <1>1, StartKeeps
  <1>3. SessionOK' /\ Asks'
    BY <1>1, <1>2 DEF ChainInv, SessionOK, Asks, Clear, Waiting, Submitting
  <1>4. Signed'
    BY <1>1, <1>2 DEF ChainInv, Signed, Waiting, SignedTxs
  <1>5. op'.ask # Mine
    BY <1>1, Apart
  <1>6. Sealing' /\ Counting' /\ Landing'
    BY <1>1, <1>5 DEF Sealing, Counting, Landing, Waiting
  <1>7. QED
    BY <1>2, <1>3, <1>4, <1>6 DEF ChainInv

\* The times a warp is asked for.
LEMMA Targets ==
    ASSUME ChainInv, NEW seconds \in 1..MaxTime,
           CallIncrease(seconds) \/ CallIncreaseTo(seconds) \/ CallSetNext(seconds)
    PROVE  \E kind \in {"warp", "setnext"}, time \in Nat : Warp(kind, time)
  <1>1. seconds \in Nat /\ head \in Nat /\ Second \in Nat \ {0}
    BY SessionAssumption DEF ChainInv, NodeOK
  <1>2. head \div Second \in Nat
    BY <1>1
  <1>3. (head \div Second + seconds) * Second \in Nat /\ seconds * Second \in Nat
    BY <1>1, <1>2
  <1>4. QED
    BY <1>3 DEF CallIncrease, CallIncreaseTo, CallSetNext

\* What signing a transaction changes.
LEMMA Prebuilds ==
    ASSUME ChainInv, NEW t \in Txs, Prebuild(t)
    PROVE  /\ expires' \in [Txs -> Nat] /\ t \notin SignedTxs /\ SignedTxs' = SignedTxs \cup {t}
           /\ ~Sent(t) /\ \A s \in Slots : prebuilt[s] # t
  <1>1. t \notin SignedTxs /\ expires' = [expires EXCEPT ![t] = head + Expiry]
    BY DEF Prebuild, Fresh
  <1>2. head + Expiry \in Nat \ {0}
    BY SessionAssumption DEF ChainInv, NodeOK
  <1>3. expires' \in [Txs -> Nat] /\ \A u \in Txs : expires'[u] = IF u = t THEN head + Expiry ELSE expires[u]
    BY <1>1, <1>2 DEF ChainInv, SessionOK
  <1>4. SignedTxs' = SignedTxs \cup {t}
    BY <1>2, <1>3 DEF SignedTxs
  <1>5. QED
    BY <1>1, <1>3, <1>4 DEF ChainInv, Signed

\* A transaction nobody else knows is submitted.
LEMMA SubmitKeeps ==
    ASSUME ChainInv, NEW kind \in {"send", "deploy"}, NEW t \in Txs, Submit(kind, t),
           UNCHANGED <<chain, view, strays, breaks>>,
           expires' \in [Txs -> Nat], SignedTxs' = SignedTxs \cup {t}, ~Sent(t),
           prebuilt' \in [Slots -> Txs \cup {Nothing}],
           \A s \in Slots : prebuilt'[s] # t /\ prebuilt'[s] \in {prebuilt[s], Nothing}
    PROVE  ChainInv'
  <1>1. /\ ops' = ops + 1 /\ ops' \in 0..MaxOps /\ since' = 0 /\ sealed' = FALSE /\ refused' = FALSE
        /\ op' \in Operation /\ op'.kind = kind /\ op'.ask = BroadcastTx(t) /\ op'.tx = t /\ op'.iter = 0
    BY SubmitBegun DEF ChainInv
  <1>2. NodeOK' /\ Clear' /\ \A u \in Txs : Sent(u)' = Sent(u)
    BY <1>1, StartKeeps
  <1>3. SessionOK' /\ Asks'
    BY <1>1, <1>2 DEF SessionOK, Asks, Clear, Waiting, Submitting
  <1>4. Nothing \notin Txs
    BY SessionAssumption DEF ChainInv, NodeOK, Nothing
  <1>5. ASSUME NEW s \in Slots, NEW u \in Txs, prebuilt'[s] = u
        PROVE  /\ u \in SignedTxs /\ ~Sent(u) /\ u # t
               /\ \A r \in Slots : prebuilt'[r] = u => r = s
    <2>1. prebuilt[s] = u
      BY <1>4, <1>5
    <2>2. ASSUME NEW r \in Slots, prebuilt'[r] = u PROVE r = s
      <3>1. prebuilt[r] = u
        BY <1>4, <2>2
      <3>2. QED
        BY <2>1, <3>1 DEF ChainInv, Signed
    <2>3. QED
      BY <1>5, <2>1, <2>2 DEF ChainInv, Signed
  <1>6. Signed'
    <2>1. \A u \in Txs : Sent(u)' => u \in SignedTxs'
      BY <1>2 DEF ChainInv, Signed
    <2>2. \A u \in Txs : op'.tx = u => u \in SignedTxs' /\ ~Sent(u)'
      BY <1>1, <1>2
    <2>3. QED
      BY <1>1, <1>2, <1>5, <2>1, <2>2 DEF Signed
  <1>7. Sealing' /\ Counting' /\ Landing'
    BY <1>1 DEF Sealing, Counting, Landing
  <1>8. QED
    BY <1>2, <1>3, <1>6, <1>7 DEF ChainInv

LEMMA SendStartKeeps ==
    ASSUME ChainInv, NEW t \in Txs, CallSend(t)
    PROVE  ChainInv'
  <1>1. Prebuild(t) /\ Submit("send", t) /\ UNCHANGED <<chain, view, prebuilt, strays, breaks>>
    BY DEF CallSend
  <1>2. expires' \in [Txs -> Nat] /\ SignedTxs' = SignedTxs \cup {t} /\ ~Sent(t) /\ \A s \in Slots : prebuilt[s] # t
    BY <1>1, Prebuilds
  <1>3. prebuilt' \in [Slots -> Txs \cup {Nothing}] /\ \A s \in Slots : prebuilt'[s] = prebuilt[s]
    BY <1>1 DEF ChainInv, SessionOK
  <1>4. QED
    BY <1>1, <1>2, <1>3, SubmitKeeps

LEMMA DeployKeeps ==
    ASSUME ChainInv, NEW s \in Slots, CallDeploy(s)
    PROVE  ChainInv'
  <1>1. UNCHANGED <<chain, view, strays, breaks>> /\ prebuilt \in [Slots -> Txs \cup {Nothing}]
    BY DEF CallDeploy, ChainInv, SessionOK
  <1>2. Nothing \notin Txs
    BY SessionAssumption DEF ChainInv, NodeOK, Nothing
  <1>3. CASE prebuilt[s] # Nothing
    <2>1. PICK t \in Txs : t = prebuilt[s]
      BY <1>1, <1>3
    <2>2. Submit("deploy", t) /\ prebuilt' = [prebuilt EXCEPT ![s] = Nothing] /\ UNCHANGED expires
      BY <1>3, <2>1 DEF CallDeploy
    <2>3. t \in SignedTxs /\ ~Sent(t) /\ \A r \in Slots : prebuilt[r] = t => r = s
      BY <2>1 DEF ChainInv, Signed
    <2>4. expires' \in [Txs -> Nat] /\ SignedTxs' = SignedTxs \cup {t}
      BY <2>2, <2>3 DEF SignedTxs, ChainInv, SessionOK
    <2>5. /\ prebuilt' \in [Slots -> Txs \cup {Nothing}]
          /\ \A r \in Slots : prebuilt'[r] # t /\ prebuilt'[r] \in {prebuilt[r], Nothing}
      BY <1>1, <1>2, <2>2, <2>3
    <2>6. QED
      BY <1>1, <2>2, <2>3, <2>4, <2>5, SubmitKeeps
  <1>4. CASE prebuilt[s] = Nothing
    <2>1. PICK t \in Txs : Prebuild(t) /\ Submit("deploy", t) /\ UNCHANGED prebuilt
      BY <1>4 DEF CallDeploy
    <2>2. expires' \in [Txs -> Nat] /\ SignedTxs' = SignedTxs \cup {t} /\ ~Sent(t) /\ \A r \in Slots : prebuilt[r] # t
      BY <2>1, Prebuilds
    <2>3. QED
      BY <1>1, <2>1, <2>2, SubmitKeeps
  <1>5. QED
    BY <1>3, <1>4

\* A prediction signs a transaction for its slot.
LEMMA PredictKeeps ==
    ASSUME ChainInv, NEW s \in Slots, NEW t \in Txs, Predict(s, t)
    PROVE  ChainInv'
  <1>1. /\ op.kind = "none" /\ ops < MaxOps /\ Prebuild(t) /\ ops' = ops + 1
        /\ prebuilt' = [prebuilt EXCEPT ![s] = t]
        /\ UNCHANGED <<chain, since, sealed, refused, view, op, strays, breaks>>
    BY DEF Predict, node, blockHistory
  <1>2. /\ expires' \in [Txs -> Nat] /\ t \notin SignedTxs /\ SignedTxs' = SignedTxs \cup {t}
        /\ ~Sent(t) /\ \A r \in Slots : prebuilt[r] # t
    BY <1>1, Prebuilds
  <1>3. /\ ops' \in 0..MaxOps /\ since' \in Nat /\ sealed' \in BOOLEAN /\ refused' \in BOOLEAN
        /\ UNCHANGED <<chain, view, strays, breaks>>
    BY <1>1, SessionAssumption DEF ChainInv, NodeOK
  <1>4. NodeOK' /\ Clear' /\ \A u \in Txs : Sent(u)' = Sent(u)
    BY <1>1, <1>3, StartKeeps
  <1>5. op' = NoOp /\ op'.kind = "none"
    BY <1>1, NoOpIsOperation DEF ChainInv, Asks
  <1>6. prebuilt' \in [Slots -> Txs \cup {Nothing}] /\ \A r \in Slots : prebuilt'[r] = IF r = s THEN t ELSE prebuilt[r]
    BY <1>1 DEF ChainInv, SessionOK
  <1>7. SessionOK' /\ Asks' /\ Sealing' /\ Counting' /\ Landing'
    BY <1>2, <1>5, <1>6, NoOpIsOperation
       DEF SessionOK, Asks, Clear, Waiting, Submitting, Sealing, Counting, Landing
  <1>8. ASSUME NEW q \in Slots, NEW u \in Txs, prebuilt'[q] = u
        PROVE  u \in SignedTxs' /\ ~Sent(u) /\ \A r \in Slots : prebuilt'[r] = u => r = q
    BY <1>2, <1>6, <1>8 DEF ChainInv, Signed
  <1>9. \A u \in Txs : Sent(u) => u \in SignedTxs'
    BY <1>2 DEF ChainInv, Signed
  <1>10. Signed'
    BY <1>4, <1>5, <1>8, <1>9 DEF Signed, Waiting
  <1>11. QED
    BY <1>4, <1>7, <1>10 DEF ChainInv

-----------------------------------------------------------------------------
(* Operations go on                                                        *)

\* What asks for a broadcast is an operation that submits its transaction.
LEMMA AskedSends ==
    ASSUME ChainInv, Asking
    PROVE  /\ op.ask \in Requests
           /\ \A t \in Txs : op.ask = BroadcastTx(t) => Submitting /\ t = op.tx
  <1>1. op.ask \in Requests
    BY DEF ChainInv, SessionOK, Operation, Asking
  <1>2. op.kind \in Kinds
    BY DEF ChainInv, SessionOK, Operation, Asking
  <1>3. ASSUME NEW t \in Txs, op.ask = BroadcastTx(t) PROVE Submitting /\ t = op.tx
    <2>1. op.kind \in {"send", "deploy"}
      BY <1>2, <1>3, Apart DEF ChainInv, Asks, Kinds
    <2>2. op.ask = BroadcastTx(op.tx)
      BY <1>3, <2>1, Apart DEF ChainInv, Asks, Waiting
    <2>3. op.tx = t
      <3>1. BroadcastTx(t).tx = t /\ BroadcastTx(op.tx).tx = op.tx
        BY DEF BroadcastTx
      <3>2. QED
        BY <1>3, <2>2, <3>1
    <2>4. QED
      BY <2>1, <2>2, <2>3 DEF Submitting, Waiting
  <1>4. QED
    BY <1>1, <1>3

\* The node stays well formed when it serves a request.
LEMMA ServedOK ==
    ASSUME ChainInv, NEW request \in Requests, NEW ok \in BOOLEAN, Done(request, ok),
           UNCHANGED <<view, ops>>, breaks' \in 0..MaxBreaks, strays' \subseteq strays
    PROVE  NodeOK'
  <1>1. miner' \in [is : {"nobody", "node", "call", "late"}, of : Nat] /\ miner'.of <= ops
    BY ServeMade, MinerKept DEF ChainInv
  <1>2. QED
    BY <1>1, ServeMade DEF ChainInv, NodeOK

\* An operation that goes on keeps its shape; what is new on the wire is its own.
LEMMA AsksKept ==
    ASSUME ChainInv, Goes, UNCHANGED ops, op.kind # "none",
           \/ op'.ask = op.ask /\ op'.left = op.left /\ op'.iter = op.iter
           \/ Waiting /\ op'.ask \in {Mine, Poll}
           \/ op.kind = "warp" /\ op'.ask = Mine
           \/ ~Waiting /\ op'.ask = op.ask /\ op'.left \in Nat \ {0},
           op.broken => op'.broken,
           miner' = miner \/ (miner'.is = "late" /\ miner'.of = ops /\ Waiting => op'.broken),
           \A s \in strays' : s \in strays \/ (s.request = op.ask /\ op'.broken)
    PROVE  Asks'
  <1>1. /\ op'.kind = op.kind /\ op'.target = op.target /\ op'.tx = op.tx /\ Waiting' = Waiting
        /\ op.kind \in Kinds
    BY DEF Goes, Waiting, ChainInv, SessionOK, Operation
  <1>2. Asks
    BY DEF ChainInv
  <1>3. ASSUME op.kind = "mine" PROVE op'.ask = Mine /\ op'.left \in Nat \ {0}
    BY <1>2, <1>3 DEF Asks, Waiting
  <1>4. ASSUME op.kind = "warp" PROVE op'.ask \in {Set(op.target), Mine}
    BY <1>2, <1>4 DEF Asks, Waiting
  <1>5. ASSUME op.kind = "setnext" PROVE op'.ask = Set(op.target)
    BY <1>2, <1>5 DEF Asks, Waiting
  <1>6. ASSUME Waiting PROVE op.tx \in Txs /\ op'.ask \in {BroadcastTx(op.tx), Poll, Mine}
    BY <1>2, <1>6 DEF Asks, Waiting
  <1>7. Submitting' => op'.iter = 0
    <2>1. ASSUME Submitting' PROVE op'.iter = 0
      <3>1. Waiting /\ op'.ask = BroadcastTx(op.tx) /\ op'.ask \notin {Mine, Poll}
        BY <1>1, <2>1, Apart DEF Submitting
      <3>2. op'.ask = op.ask /\ op'.iter = op.iter
        BY <3>1 DEF Waiting
      <3>3. QED
        BY <1>2, <3>1, <3>2 DEF Asks, Submitting
    <2>2. QED
      BY <2>1
  <1>8. ASSUME NEW s \in strays', s.of = ops
        PROVE  /\ op.kind = "mine" => s.request = Mine
               /\ op.kind = "warp" => s.request \in {Set(op.target), Mine}
               /\ Waiting => op'.broken
    BY <1>2, <1>8 DEF Asks
  <1>9. op'.kind # "none"
    BY <1>1
  <1>10. miner'.is = "late" /\ miner'.of = ops /\ Waiting => op'.broken
    BY <1>2 DEF Asks
  <1>11. QED
    BY <1>1, <1>3, <1>4, <1>5, <1>6, <1>7, <1>8, <1>9, <1>10 DEF Asks

\* What is left to show of an operation that goes on.
LEMMA GoesKept ==
    ASSUME ChainInv, NodeOK', Goes, Asks', Signed', UNCHANGED <<prebuilt, expires>>,
           Sealing', Counting', Landing'
    PROVE  ChainInv'
  BY DEF ChainInv, SessionOK, Goes

LEMMA ServedKeeps ==
    ASSUME ChainInv, Served
    PROVE  ChainInv'
  <1>0. PICK ok \in BOOLEAN : Serve(op.ask, ok) /\ Answered(ok)
    BY DEF Served
  <1>2. Asking /\ UNCHANGED <<view, expires, strays, breaks>> /\ op.kind # "none"
    BY DEF Served, Asking
  <1>3. /\ op.ask \in Requests /\ \A t \in Txs : op.ask = BroadcastTx(t) => Submitting /\ t = op.tx
    BY <1>2, AskedSends
  <1>1. Done(op.ask, ok) /\ Answered(ok)
    BY <1>0, <1>3, ServeDone
  <1>a. (refused => refused') /\ (miner' = miner \/ miner'.is # "late")
    BY <1>1, <1>3, ServeMade DEF ChainInv, Nobody, Miner
  <1>4. \A t \in Txs : Sent(t)' => Sent(t) \/ (Submitting /\ t = op.tx)
    BY <1>1, <1>2, <1>3, ServeSends DEF ChainInv
  <1>5. /\ UNCHANGED <<prebuilt, ops>>
        /\ \/ /\ Goes /\ Recovering /\ op'.ask = Poll /\ op'.iter = op.iter + 1
              /\ op'.left = op.left /\ op'.broken = op.broken /\ op'.late = op.late
           \/ Goes /\ SameCount /\ ok /\ Waiting /\ op.ask # Mine /\ op'.ask = Poll
           \/ Goes /\ SameCount /\ ok /\ op.kind = "warp" /\ op.ask # Mine /\ op'.ask = Mine
           \/ /\ Goes /\ ok /\ ~Waiting /\ op.left > 1 /\ op'.left = op.left - 1 /\ op'.ask = op.ask
              /\ (op.kind = "warp" => op.ask = Mine)
              /\ op'.iter = op.iter /\ op'.broken = op.broken /\ op'.late = op.late
           \/ op' = NoOp
    BY <1>1, <1>2, AnswerGoes DEF ChainInv
  <1>6. NodeOK'
    BY <1>1, <1>2, <1>3, <1>5, ServedOK DEF ChainInv, NodeOK
  <1>7. Asks /\ op.left \in Nat /\ op.iter \in Nat /\ op.target \in Nat
    BY DEF ChainInv, SessionOK, Operation
  <1>8. CASE /\ Goes /\ Recovering /\ op'.ask = Poll /\ op'.iter = op.iter + 1
             /\ op'.left = op.left /\ op'.broken = op.broken /\ op'.late = op.late
    <2>1. Waiting /\ op.ask = Mine /\ op'.kind = op.kind /\ op'.tx = op.tx
      BY <1>8 DEF Recovering, Goes
    <2>2. Asks'
      BY <1>2, <1>5, <1>8, <2>1, <1>a, AsksKept
    <2>3. Signed'
      BY <1>2, <1>4, <1>5, <1>8, <2>1, Apart, SignedKept
    <2>4. Sealing' /\ Counting'
      BY <2>1 DEF Sealing, Counting, Waiting
    <2>5. op.iter <= 2 * RecoverAt /\ op.tx \in Txs /\ (~op.broken /\ ~op.late /\ ~refused' => Landed)
      BY <1>7, <1>a, <2>1, Apart DEF ChainInv, Landing, Asks
    <2>6. ~op.broken /\ ~op.late /\ ~refused' => Landed'
      BY <1>1, <1>2, <1>8, <2>1, <2>5, LandKept DEF ChainInv
    <2>7. Landing'
      BY <1>8, <2>6, Apart DEF Landing
    <2>8. QED
      BY <1>2, <1>5, <1>6, <1>8, <2>2, <2>3, <2>4, <2>7, GoesKept
  <1>9. CASE Goes /\ SameCount /\ ok /\ Waiting /\ op.ask # Mine /\ op'.ask = Poll
    <2>1. op'.kind = op.kind /\ op'.tx = op.tx /\ op'.iter = op.iter /\ op'.broken = op.broken
      BY <1>9 DEF Goes, SameCount
    <2>2. Asks'
      BY <1>2, <1>5, <1>9, <2>1, <1>a, AsksKept
    <2>3. Signed'
      BY <1>2, <1>4, <1>5, <1>9, <2>1, Apart, SignedKept
    <2>4. Sealing' /\ Counting'
      BY <1>9, <2>1 DEF Sealing, Counting, Waiting
    <2>5. op.ask = BroadcastTx(op.tx) /\ op.tx \in Txs /\ op.iter = 0
      BY <1>2, <1>7, <1>9 DEF Asks, Asking, Submitting
    <2>6. op.tx \in pool'
      BY <1>1, <1>9, <2>5, BroadcastMade DEF ChainInv
    <2>7. RecoverAt \in Nat \ {0}
      BY SessionAssumption DEF ChainInv, NodeOK
    <2>8. Landing'
      BY <1>9, <2>1, <2>5, <2>6, <2>7, Apart DEF Landing, Landed
    <2>9. QED
      BY <1>2, <1>5, <1>6, <1>9, <2>2, <2>3, <2>4, <2>8, GoesKept
  <1>10. CASE Goes /\ SameCount /\ ok /\ op.kind = "warp" /\ op.ask # Mine /\ op'.ask = Mine
    <2>1. op'.kind = op.kind /\ op'.tx = op.tx /\ op'.broken = op.broken /\ op'.target = op.target
      BY <1>10 DEF Goes, SameCount
    <2>2. Asks'
      BY <1>2, <1>5, <1>10, <2>1, <1>a, AsksKept
    <2>3. Signed'
      BY <1>2, <1>4, <1>5, <1>10, <2>1, Apart, SignedKept
    <2>4. Counting' /\ Landing'
      BY <1>10, <2>1 DEF Counting, Landing, Waiting
    <2>5. op.ask = Set(op.target)
      BY <1>7, <1>10 DEF Asks
    <2>6. op.target > head /\ override' = op.target /\ head' = head
      BY <1>1, <1>7, <1>10, <2>5, SetMade DEF ChainInv
    <2>7. Sealing'
      BY <1>7, <2>1, <2>6 DEF Sealing, Sealable, ChainInv, NodeOK
    <2>8. QED
      BY <1>2, <1>5, <1>6, <1>10, <2>2, <2>3, <2>4, <2>7, GoesKept
  <1>11. CASE /\ Goes /\ ok /\ ~Waiting /\ op.left > 1 /\ op'.left = op.left - 1 /\ op'.ask = op.ask
              /\ (op.kind = "warp" => op.ask = Mine)
              /\ op'.iter = op.iter /\ op'.broken = op.broken /\ op'.late = op.late
    <2>1. /\ op'.kind = op.kind /\ op'.tx = op.tx /\ op'.target = op.target /\ op'.asked = op.asked
          /\ op'.spent = op.spent /\ op'.left \in Nat \ {0}
      BY <1>7, <1>11 DEF Goes
    <2>2. Asks'
      BY <1>2, <1>5, <1>11, <2>1, <1>a, AsksKept
    <2>3. \A t \in Txs : Sent(t)' => Sent(t)
      BY <1>4, <1>11 DEF Submitting
    <2>4. Signed'
      BY <1>2, <1>5, <1>11, <2>1, <2>3, SignedKept
    <2>5. Landing'
      BY <1>11, <2>1 DEF Landing, Waiting
    <2>6. Sealing'
      <3>1. ASSUME op.kind = "warp", ~op.late, ~refused' PROVE Sealable'
        <4>1. op.ask = Mine /\ Sealable
          BY <1>11, <1>a, <3>1 DEF ChainInv, Sealing
        <4>2. QED
          BY <1>1, <2>1, <3>1, <4>1, SealKept DEF ChainInv
      <3>2. QED
        BY <1>11, <2>1, <3>1 DEF Sealing
    <2>7. Counting'
      <3>1. ASSUME op.kind = "mine", ~op.late PROVE AddUp'
        <4>1. op.ask = Mine /\ AddUp
          BY <1>7, <3>1 DEF ChainInv, Counting, Asks
        <4>2. since' + op.left >= op.asked - Debt(op.spent) + 1 /\ Debt(Spent)' = 0
          BY <1>1, <1>11, <4>1, CountKept DEF ChainInv, Debt
        <4>3. op.asked \in Nat /\ Debt(op.spent) \in {0, 1} /\ since' \in Nat
          BY <1>6 DEF ChainInv, SessionOK, Operation, Debt, NodeOK
        <4>4. QED
          BY <1>7, <1>11, <2>1, <4>2, <4>3 DEF AddUp
      <3>2. QED
        BY <1>11, <2>1, <3>1 DEF Counting
    <2>8. QED
      BY <1>2, <1>5, <1>6, <1>11, <2>2, <2>4, <2>5, <2>6, <2>7, GoesKept
  <1>12. CASE op' = NoOp
    BY <1>2, <1>4, <1>5, <1>6, <1>12, EndKept
  <1>13. QED
    BY <1>5, <1>8, <1>9, <1>10, <1>11, <1>12

\* What a broken request has done, on the node and on the wire.
LEMMA BreakDoes ==
    ASSUME ChainInv, NEW served \in BOOLEAN, NEW lost \in BOOLEAN, Break(served, lost)
    PROVE  /\ Asking /\ Broken(lost) /\ UNCHANGED <<view, expires>> /\ breaks' \in 0..MaxBreaks
           /\ \/ UNCHANGED strays /\ \E ok \in BOOLEAN : Done(op.ask, ok)
              \/ /\ UNCHANGED <<head, override, pool, mined, since, sealed, refused>>
                 /\ miner' = miner \/ miner' = Miner("late", ops)
           /\ \A s \in strays' : s \in strays \/ (s.request = op.ask /\ s.of = ops)
  <1>1. Asking /\ Broken(lost) /\ UNCHANGED <<view, expires>> /\ breaks < MaxBreaks /\ breaks' = breaks + 1
    BY DEF Break
  <1>2. breaks' \in 0..MaxBreaks
    BY <1>1, SessionAssumption DEF ChainInv, NodeOK
  <1>3. CASE served
    <2>1. UNCHANGED strays /\ \E ok \in BOOLEAN : Serve(op.ask, ok)
      BY <1>3 DEF Break
    <2>2. op.ask \in Requests
      BY <1>1, AskedSends
    <2>3. \E ok \in BOOLEAN : Done(op.ask, ok)
      BY <2>1, <2>2, ServeDone
    <2>4. QED
      BY <1>1, <1>2, <2>1, <2>3
  <1>4. CASE ~served
    <2>0. Abandoned
      BY <1>4 DEF Break
    <2>1. UNCHANGED <<head, override, pool, mined, since, sealed, refused>>
      BY <2>0 DEF Abandoned, blockHistory
    <2>2. \A s \in strays' : s \in strays \/ (s.request = op.ask /\ s.of = ops)
      BY <2>0 DEF Abandoned
    <2>3. miner' = miner \/ miner' = Miner("late", ops)
      BY <2>0 DEF Abandoned
    <2>4. QED
      BY <1>1, <1>2, <2>1, <2>2, <2>3
  <1>5. QED
    BY <1>3, <1>4

LEMMA BreakKeeps ==
    ASSUME ChainInv, NEW served \in BOOLEAN, NEW lost \in BOOLEAN, Break(served, lost)
    PROVE  ChainInv'
  <1>1. /\ Asking /\ Broken(lost) /\ UNCHANGED <<view, expires>> /\ breaks' \in 0..MaxBreaks
        /\ \A s \in strays' : s \in strays \/ (s.request = op.ask /\ s.of = ops)
    BY BreakDoes
  <1>2. \/ UNCHANGED strays /\ \E ok \in BOOLEAN : Done(op.ask, ok)
        \/ /\ UNCHANGED <<head, override, pool, mined, since, sealed, refused>>
           /\ miner' = miner \/ miner' = Miner("late", ops)
    BY BreakDoes
  <1>3. /\ op.ask \in Requests /\ \A t \in Txs : op.ask = BroadcastTx(t) => Submitting /\ t = op.tx
    BY <1>1, AskedSends
  <1>4. /\ UNCHANGED <<prebuilt, ops>>
        /\ \/ /\ Goes /\ op'.ask = op.ask /\ op'.left = op.left /\ op'.iter = op.iter /\ op'.late = op.late
              /\ op'.broken = TRUE /\ op.ask.do # "broadcast"
           \/ /\ Goes /\ Recovering /\ op'.ask = Poll /\ op'.left = op.left /\ op'.iter = op.iter + 1
              /\ op'.broken = TRUE /\ op'.late = op.late
           \/ op' = NoOp
    BY <1>1, BreakGoes DEF ChainInv
  <1>5. \A t \in Txs : Sent(t)' => Sent(t) \/ (Submitting /\ t = op.tx)
    <2>1. CASE UNCHANGED strays /\ \E ok \in BOOLEAN : Done(op.ask, ok)
      BY <1>3, <2>1, ServeSends DEF ChainInv
    <2>2. CASE UNCHANGED <<head, override, pool, mined, since, sealed, refused>> /\ miner' \in {miner, Miner("late", ops)}
      BY <1>1, <1>3, <2>2 DEF Sent
    <2>3. QED
      BY <1>2, <2>1, <2>2
  <1>a. /\ refused => refused'
        /\ miner' = miner \/ (miner'.is = "late" => miner' = Miner("late", ops))
    <2>1. CASE \E ok \in BOOLEAN : Done(op.ask, ok)
      BY <1>3, <2>1, ServeMade DEF ChainInv, Nobody, Miner
    <2>2. CASE refused' = refused /\ (miner' = miner \/ miner' = Miner("late", ops))
      BY <2>2
    <2>3. QED
      BY <1>2, <2>1, <2>2
  <1>6. NodeOK'
    <2>1. CASE UNCHANGED strays /\ \E ok \in BOOLEAN : Done(op.ask, ok)
      BY <1>1, <1>3, <1>4, <2>1, ServedOK
    <2>2. CASE UNCHANGED <<head, override, pool, mined, since, sealed, refused>> /\ miner' \in {miner, Miner("late", ops)}
      <3>1. miner' \in [is : {"nobody", "node", "call", "late"}, of : Nat] /\ miner'.of <= ops
        BY <2>2, SessionAssumption DEF ChainInv, NodeOK, Miner
      <3>2. QED
        BY <1>1, <1>3, <1>4, <2>2, <3>1 DEF ChainInv, NodeOK
    <2>3. QED
      BY <1>2, <2>1, <2>2
  <1>7. Asks /\ op.kind # "none"
    BY <1>1 DEF ChainInv, Asking
  <1>8. CASE /\ Goes /\ op'.ask = op.ask /\ op'.left = op.left /\ op'.iter = op.iter /\ op'.late = op.late
             /\ op'.broken = TRUE /\ op.ask.do # "broadcast"
    <2>1. /\ op'.kind = op.kind /\ op'.tx = op.tx /\ op'.target = op.target /\ op'.asked = op.asked
          /\ op'.spent = op.spent /\ Waiting' = Waiting
      BY <1>8 DEF Goes, Waiting
    <2>2. Asks'
      BY <1>1, <1>4, <1>7, <1>8, <1>a, AsksKept
    <2>3. ~Submitting
      BY <1>8, Apart DEF Submitting
    <2>4. Signed'
      BY <1>1, <1>4, <1>5, <1>8, <2>1, <2>3, SignedKept
    <2>5. Sealing'
      <3>1. ASSUME op.kind = "warp", op.ask = Mine, ~op.late, ~refused' PROVE Sealable'
        <4>1. Sealable
          BY <1>a, <3>1 DEF ChainInv, Sealing
        <4>2. CASE \E ok \in BOOLEAN : Done(op.ask, ok)
          BY <2>1, <3>1, <4>1, <4>2, SealKept DEF ChainInv
        <4>3. CASE UNCHANGED <<head, override, pool, mined, since, sealed, refused>> /\ miner' \in {miner, Miner("late", ops)}
          BY <2>1, <4>1, <4>3 DEF Sealable
        <4>4. QED
          BY <1>2, <4>2, <4>3
      <3>2. QED
        BY <1>8, <2>1, <3>1 DEF Sealing
    <2>6. Counting'
      <3>1. ASSUME op.kind = "mine", ~op.late PROVE AddUp'
        <4>1. op.ask = Mine /\ AddUp
          BY <1>7, <3>1 DEF ChainInv, Counting, Asks
        <4>2. CASE \E ok \in BOOLEAN : Done(op.ask, ok)
          <5>1. PICK ok \in BOOLEAN : /\ since' + op.left >= op.asked - Debt(op.spent) + Debt(ok)
                                      /\ Debt(Spent)' = 0
            BY <4>1, <4>2, CountKept DEF ChainInv
          <5>2. Debt(ok) \in {0, 1} /\ op.asked \in Nat /\ op.left \in Nat /\ Debt(op.spent) \in {0, 1} /\ since' \in Nat
            BY <1>6 DEF ChainInv, SessionOK, Operation, Debt, NodeOK
          <5>3. QED
            BY <1>8, <2>1, <5>1, <5>2 DEF AddUp
        <4>3. CASE UNCHANGED <<head, override, pool, mined, since, sealed, refused>> /\ miner' \in {miner, Miner("late", ops)}
          BY <1>8, <2>1, <4>1, <4>3 DEF AddUp, Spent
        <4>4. QED
          BY <1>2, <4>2, <4>3
      <3>2. QED
        BY <1>8, <2>1, <3>1 DEF Counting
    <2>7. Landing'
      BY <1>8, <2>1 DEF ChainInv, Landing
    <2>8. QED
      BY <1>1, <1>4, <1>6, <1>8, <2>2, <2>4, <2>5, <2>6, <2>7, GoesKept
  <1>9. CASE /\ Goes /\ Recovering /\ op'.ask = Poll /\ op'.left = op.left /\ op'.iter = op.iter + 1
             /\ op'.broken = TRUE /\ op'.late = op.late
    <2>1. Waiting /\ op'.kind = op.kind /\ op'.tx = op.tx
      BY <1>9 DEF Recovering, Goes
    <2>2. Asks'
      BY <1>1, <1>4, <1>7, <1>9, <2>1, <1>a, AsksKept
    <2>3. Signed'
      BY <1>1, <1>4, <1>5, <1>9, <2>1, Apart, SignedKept
    <2>4. Sealing' /\ Counting' /\ Landing'
      BY <1>9, <2>1, Apart DEF Sealing, Counting, Landing, Waiting
    <2>5. QED
      BY <1>1, <1>4, <1>6, <1>9, <2>2, <2>3, <2>4, GoesKept
  <1>10. CASE op' = NoOp
    BY <1>1, <1>4, <1>5, <1>6, <1>10, EndKept
  <1>11. QED
    BY <1>4, <1>8, <1>9, <1>10

LEMMA PollKeeps ==
    ASSUME ChainInv, PollOnce \/ Deadline
    PROVE  ChainInv'
  <1>1. UNCHANGED <<head, override, pool, mined, miner, since, sealed, refused, view, expires, strays, breaks>>
    BY DEF PollOnce, Deadline, node, chain, blockHistory
  <1>2. /\ UNCHANGED <<prebuilt, ops>> /\ Waiting /\ op.ask = Poll
        /\ \/ /\ Goes /\ op'.ask = Mine /\ SameCount /\ op.iter <= 2 * RecoverAt
           \/ /\ Goes /\ op'.ask = Poll /\ op'.left = op.left /\ op'.broken = op.broken /\ op'.late = op.late
              /\ op'.iter = op.iter + 1 /\ op.iter <= 2 * RecoverAt
              /\ op.iter # RecoverAt /\ op.iter # 2 * RecoverAt
           \/ op' = NoOp
    BY PollGoes DEF ChainInv
  <1>3. NodeOK' /\ \A t \in Txs : Sent(t)' => Sent(t)
    BY <1>1, <1>2 DEF ChainInv, NodeOK, Sent
  <1>4. op.kind # "none" /\ (~op.broken /\ ~op.late /\ ~refused => Landed)
    BY <1>2, Apart DEF ChainInv, Landing, Waiting
  <1>5. CASE op' = NoOp
    BY <1>1, <1>2, <1>3, <1>5, EndKept
  <1>6. CASE /\ Goes /\ op'.ask \in {Mine, Poll}
             /\ op'.left = op.left /\ op'.broken = op.broken /\ op'.late = op.late
    <2>1. op'.kind = op.kind /\ op'.tx = op.tx
      BY <1>6 DEF Goes
    <2>2. Asks'
      BY <1>1, <1>2, <1>4, <1>6, AsksKept
    <2>3. Signed'
      BY <1>1, <1>2, <1>3, <1>6, <2>1, Apart, SignedKept
    <2>4. Sealing' /\ Counting'
      BY <1>2, <2>1 DEF Sealing, Counting, Waiting
    <2>5. op.iter \in Nat /\ RecoverAt \in Nat \ {0} /\ op' # NoOp
      BY <1>2, <2>1, NoOpIsOperation, SessionAssumption DEF ChainInv, SessionOK, Operation, NodeOK, Waiting
    <2>6. CASE op'.ask = Mine
      <3>1. op'.iter = op.iter /\ op.iter <= 2 * RecoverAt
        BY <1>2, <2>5, <2>6, Apart DEF SameCount
      <3>2. ~op.broken /\ ~op.late /\ ~refused => Landed'
        BY <1>1, <1>4, <2>1, <3>1 DEF Landed, Settled
      <3>3. QED
        BY <1>2, <1>3, <1>1, <1>6, <2>2, <2>3, <2>4, <3>1, <3>2, GoesKept DEF Landing
    <2>7. CASE op'.ask = Poll
      <3>1. op'.iter = op.iter + 1 /\ op.iter <= 2 * RecoverAt /\ op.iter # RecoverAt /\ op.iter # 2 * RecoverAt
        BY <1>2, <2>5, <2>7, Apart
      <3>2. op'.iter <= 2 * RecoverAt /\ (op'.iter > RecoverAt => op.iter > RecoverAt)
        BY <2>5, <3>1
      <3>3. ~op.broken /\ ~op.late /\ ~refused => Landed'
        BY <1>1, <1>4, <2>1, <2>5, <3>1, <3>2 DEF Landed, Settled
      <3>4. QED
        BY <1>2, <1>3, <1>1, <1>6, <2>2, <2>3, <2>4, <3>2, <3>3, GoesKept DEF Landing
    <2>8. QED
      BY <1>6, <2>6, <2>7
  <1>7. QED
    BY <1>2, <1>5, <1>6 DEF SameCount

\* A poll that fails ends its wait.
LEMMA PollFailKeeps ==
    ASSUME ChainInv, PollFails
    PROVE  ChainInv' /\ op' = NoOp /\ result' = "threw"
  <1>1. /\ UNCHANGED <<head, override, pool, mined, miner, since, sealed, refused, view, expires, prebuilt, ops, strays>>
        /\ breaks < MaxBreaks /\ breaks' = breaks + 1 /\ op' = NoOp /\ result' = "threw"
    BY DEF PollFails, EndOp, node, chain, blockHistory
  <1>2. breaks' \in 0..MaxBreaks
    BY <1>1, SessionAssumption DEF ChainInv, NodeOK
  <1>3. NodeOK' /\ \A t \in Txs : Sent(t)' => Sent(t)
    BY <1>1, <1>2 DEF ChainInv, NodeOK, Sent
  <1>4. QED
    BY <1>1, <1>3, EndKept

\* What comes late is the operation's own, or marks it.
LEMMA LateKeeps ==
    ASSUME ChainInv, NEW request \in Requests, NEW of \in 0..ops, Marks(of), strays' \subseteq strays,
           of = ops => /\ op.kind = "mine" => request = Mine
                       /\ op.kind = "warp" /\ op.ask = Mine => request \in {Set(op.target), Mine}
                       /\ Waiting => op.broken,
           \A t \in Txs : request = BroadcastTx(t) => Sent(t),
           UNCHANGED <<prebuilt, ops, expires, view, breaks>>,
           \/ \E ok \in BOOLEAN : Done(request, ok)
           \/ UNCHANGED <<head, override, pool, mined, blockHistory>> /\ miner' = Miner("late", of)
    PROVE  ChainInv'
  <1>1. \/ op' = NoOp
        \/ /\ Goes /\ op'.ask = op.ask /\ op'.left = op.left /\ op'.iter = op.iter /\ op'.broken = op.broken
           /\ (~op'.late => ~op.late /\ of = ops) /\ op.kind # "none"
    BY MarkGoes DEF ChainInv
  <1> DEFINE served == \E ok \in BOOLEAN : Done(request, ok)
             begins == UNCHANGED <<head, override, pool, mined, since, sealed, refused>> /\ miner' = Miner("late", of)
  <1>2. served \/ begins
    BY DEF blockHistory
  <1>3. NodeOK'
    <2>1. CASE served
      BY <2>1, ServedOK DEF ChainInv, NodeOK
    <2>2. CASE begins
      <3>1. miner' \in [is : {"nobody", "node", "call", "late"}, of : Nat] /\ miner'.of <= ops
        BY <2>2, SessionAssumption DEF ChainInv, NodeOK, Miner
      <3>2. QED
        BY <2>2, <3>1 DEF ChainInv, NodeOK
    <2>3. QED
      BY <1>2, <2>1, <2>2
  <1>4. \A t \in Txs : Sent(t)' => Sent(t)
    <2>1. CASE served
      BY <2>1, ServeSends DEF ChainInv
    <2>2. CASE begins
      BY <2>2 DEF Sent
    <2>3. QED
      BY <1>2, <2>1, <2>2
  <1>5. (refused => refused') /\ (miner' = miner \/ miner'.is # "late" \/ miner' = Miner("late", of))
    <2>1. CASE served
      BY <2>1, ServeMade DEF ChainInv, Nobody, Miner
    <2>2. CASE begins
      BY <2>2
    <2>3. QED
      BY <1>2, <2>1, <2>2
  <1>6. CASE op' = NoOp
    BY <1>3, <1>4, <1>6, EndKept
  <1>7. CASE /\ Goes /\ op'.ask = op.ask /\ op'.left = op.left /\ op'.iter = op.iter /\ op'.broken = op.broken
             /\ (~op'.late => ~op.late /\ of = ops) /\ op.kind # "none"
    <2>1. /\ op'.kind = op.kind /\ op'.tx = op.tx /\ op'.target = op.target /\ op'.asked = op.asked
          /\ op'.spent = op.spent /\ Waiting' = Waiting
      BY <1>7 DEF Goes, Waiting
    <2>2. miner' = miner \/ (miner'.is = "late" /\ miner'.of = ops /\ Waiting => op'.broken)
      BY <1>5, <1>7 DEF Miner
    <2>3. Asks'
      BY <1>7, <2>2, AsksKept
    <2>4. Signed'
      BY <1>4, <1>7, <2>1, SignedKept
    <2>5. Sealing'
      <3>1. ASSUME op.kind = "warp", op.ask = Mine, ~op'.late, ~refused' PROVE Sealable'
        <4>1. Sealable /\ request \in {Set(op.target), Mine}
          BY <1>5, <1>7, <3>1 DEF ChainInv, Sealing
        <4>2. CASE served
          BY <2>1, <3>1, <4>1, <4>2, SealKept DEF ChainInv
        <4>3. CASE begins
          BY <2>1, <4>1, <4>3 DEF Sealable
        <4>4. QED
          BY <1>2, <4>2, <4>3
      <3>2. QED
        BY <1>7, <2>1, <3>1 DEF Sealing
    <2>6. Counting'
      <3>1. ASSUME op.kind = "mine", ~op'.late PROVE AddUp'
        <4>1. request = Mine /\ AddUp
          BY <1>7, <3>1 DEF ChainInv, Counting
        <4>2. CASE served
          <5>1. PICK ok \in BOOLEAN : /\ since' + op.left >= op.asked - Debt(op.spent) + Debt(ok)
                                      /\ Debt(Spent)' = 0
            BY <4>1, <4>2, CountKept DEF ChainInv
          <5>2. /\ op.asked \in Nat /\ op.left \in Nat /\ Debt(op.spent) \in {0, 1} /\ Debt(ok) \in {0, 1}
                /\ since' \in Nat
            BY <1>3 DEF ChainInv, SessionOK, Operation, Debt, NodeOK
          <5>3. QED
            BY <1>7, <2>1, <5>1, <5>2 DEF AddUp
        <4>3. CASE begins
          BY <1>7, <2>1, <4>1, <4>3 DEF AddUp, Spent
        <4>4. QED
          BY <1>2, <4>2, <4>3
      <3>2. QED
        BY <2>1, <3>1 DEF Counting
    <2>7. Landing'
      <3>1. Waiting /\ ~op'.late => op.broken
        BY <1>7
      <3>2. QED
        BY <1>7, <2>1, <3>1 DEF ChainInv, Landing
    <2>8. QED
      BY <1>3, <1>7, <2>3, <2>4, <2>5, <2>6, <2>7, GoesKept
  <1>8. QED
    BY <1>1, <1>6, <1>7

\* A request left on the wire is served, or a mine begins.
LEMMA StrayKeeps ==
    ASSUME ChainInv, NEW s \in strays, StrayServed(s)
    PROVE  ChainInv'
  <1>1. /\ strays' \subseteq strays /\ Marks(s.of) /\ UNCHANGED <<view, expires, prebuilt, ops, breaks>>
        /\ s.request \in Requests /\ s.of \in 0..ops
    BY DEF StrayServed, ChainInv, NodeOK
  <1>2. /\ s.of = ops => /\ op.kind = "mine" => s.request = Mine
                         /\ op.kind = "warp" /\ op.ask = Mine => s.request \in {Set(op.target), Mine}
                         /\ Waiting => op.broken
        /\ \A t \in Txs : s.request = BroadcastTx(t) => Sent(t)
    BY DEF ChainInv, Asks, Sent
  <1>3. \/ \E ok \in BOOLEAN : Done(s.request, ok)
        \/ UNCHANGED <<head, override, pool, mined, blockHistory>> /\ miner' = Miner("late", s.of)
    BY DEF StrayServed, Done
  <1>4. QED
    BY <1>1, <1>2, <1>3, LateKeeps

\* A mine that goes on without its caller ends.
LEMMA LateMineKeeps ==
    ASSUME ChainInv, LateMineEnds
    PROVE  ChainInv'
  <1>1. /\ strays' \subseteq strays /\ Marks(miner.of) /\ UNCHANGED <<view, expires, prebuilt, ops, breaks>>
        /\ miner.is = "late" /\ Mine \in Requests
    BY DEF LateMineEnds, Requests
  <1>2. miner.of \in 0..ops
    BY SessionAssumption DEF ChainInv, NodeOK
  <1>3. /\ miner.of = ops /\ Waiting => op.broken
        /\ \A t \in Txs : Mine = BroadcastTx(t) => Sent(t)
    BY <1>1, Apart DEF ChainInv, Asks
  <1>4. \E ok \in BOOLEAN : Done(Mine, ok)
    BY DEF LateMineEnds, Done
  <1>5. QED
    BY <1>1, <1>2, <1>3, <1>4, LateKeeps

-----------------------------------------------------------------------------
(* Theorems                                                                *)

LEMMA ChainInit == SessionInit => ChainInv
  <1> SUFFICES ASSUME SessionInit PROVE ChainInv
    OBVIOUS
  <1>1. NodeOK
    <2>1. ops \in 0..MaxOps /\ breaks \in 0..MaxBreaks
      BY SessionAssumption DEF SessionInit
    <2>2. sealed \in BOOLEAN /\ refused \in BOOLEAN /\ view \in [Txs -> {"none", "full", "solid"}]
      BY DEF SessionInit
    <2>3. miner \in [is : {"nobody", "node", "call", "late"}, of : Nat] /\ miner.of <= ops /\ miner.is = "nobody"
      BY DEF SessionInit, Nobody, Miner
    <2>4. QED
      BY <2>1, <2>2, <2>3 DEF SessionInit, NodeOK
  <1>2. SessionOK /\ op.kind = "none" /\ op = NoOp
    BY NoOpIsOperation DEF SessionInit, SessionOK
  <1>3. Asks /\ Sealing /\ Counting /\ Landing
    BY <1>2 DEF SessionInit, Asks, Waiting, Submitting, Sealing, Counting, Landing
  <1>4. Nothing \notin Txs
    BY SessionAssumption DEF Nothing
  <1>5. Signed
    BY <1>2, <1>4 DEF SessionInit, Signed, Sent, Waiting
  <1>6. QED
    BY <1>1, <1>2, <1>3, <1>5 DEF ChainInv

LEMMA ChainStep == ChainInv /\ [SessionNext]_sessionVars => ChainInv'
  <1> SUFFICES ASSUME ChainInv, [SessionNext]_sessionVars PROVE ChainInv'
    OBVIOUS
  <1>1. CASE NodeBegins \/ NodeProduces
    BY <1>1, ProduceKeeps
  <1>2. CASE (\E t \in Txs : Index(t)) \/ Admitted
    BY <1>2, IndexKeeps
  <1>3. ASSUME LateMineEnds \/ \E s \in strays : StrayServed(s) PROVE ChainInv'
    BY <1>3, StrayKeeps, LateMineKeeps
  <1>4. ASSUME NEW n \in 1..MaxBatch, CallMine(n) PROVE ChainInv'
    BY <1>4, MineStartKeeps
  <1>5. ASSUME NEW seconds \in 1..MaxTime,
               CallIncrease(seconds) \/ CallIncreaseTo(seconds) \/ CallSetNext(seconds)
        PROVE  ChainInv'
    BY <1>5, Targets, WarpStartKeeps
  <1>6. ASSUME NEW t \in Txs, CallSend(t) PROVE ChainInv'
    BY <1>6, SendStartKeeps
  <1>7. ASSUME NEW t \in Txs, NEW s \in Slots, Predict(s, t) PROVE ChainInv'
    BY <1>7, PredictKeeps
  <1>8. ASSUME NEW s \in Slots, CallDeploy(s) PROVE ChainInv'
    BY <1>8, DeployKeeps
  <1>9. CASE Served
    BY <1>9, ServedKeeps
  <1>10. ASSUME NEW served \in BOOLEAN, NEW lost \in BOOLEAN, Break(served, lost) PROVE ChainInv'
    BY <1>10, BreakKeeps
  <1>11. CASE PollOnce \/ Deadline \/ PollFails
    BY <1>11, PollKeeps, PollFailKeeps
  <1>12. CASE UNCHANGED sessionVars
    <2>1. view' \in [Txs -> {"none", "full", "solid"}]
      BY <1>12 DEF sessionVars, ChainInv, NodeOK
    <2>2. QED
      BY <1>12, <2>1, QuietKeeps DEF sessionVars, node, chain, session
  <1>13. QED
    BY <1>1, <1>2, <1>3, <1>4, <1>5, <1>6, <1>7, <1>8, <1>9, <1>10, <1>11, <1>12 DEF SessionNext

\* The inductive invariant of a session holds.
LEMMA ChainInvariance == SessionSpec => []ChainInv
  <1>1. SessionInit => ChainInv
    BY ChainInit
  <1>2. ChainInv /\ [SessionNext]_sessionVars => ChainInv'
    BY ChainStep
  <1>3. QED
    BY <1>1, <1>2, PTL DEF SessionSpec

\* An operation ends with an answer, a break or its wait.
LEMMA EndsHow ==
    ASSUME ChainInv, [SessionNext]_sessionVars, NEW how, Ends(how)
    PROVE  \/ /\ how \in {"ok", "refused", "threw"} /\ Asking
              /\ \E ok \in BOOLEAN :
                    /\ Done(op.ask, ok)
                    /\ how = "ok" => /\ ok /\ ~Waiting /\ op.left <= 1
                                     /\ (op.kind = "warp" => op.ask = Mine)
                    /\ how = "refused" => Waiting /\ ~ok /\ op.ask # Mine
           \/ how = "threw"
           \/ /\ how \in {"ok", "timeout"} /\ Waiting /\ op.ask = Poll /\ UNCHANGED mined
  <1>1. op.kind # "none" /\ op'.kind = "none" /\ result' = how
    BY DEF Ends
  <1>2. ~Goes /\ op' # op
    BY <1>1 DEF Goes
  <1>3. CASE Served
    <2>0. PICK ok \in BOOLEAN : Serve(op.ask, ok) /\ Answered(ok)
      BY <1>3 DEF Served
    <2>2. Asking
      BY <1>3 DEF Served
    <2>1. Done(op.ask, ok) /\ Answered(ok)
      BY <2>0, <2>2, AskedSends, ServeDone
    <2>3. \/ result' = "ok" /\ ok /\ ~Waiting /\ op.left <= 1 /\ (op.kind = "warp" => op.ask = Mine)
          \/ ~ok /\ ~Recovering /\ result' = (IF Waiting THEN "refused" ELSE "threw")
      BY <1>2, <2>1, <2>2, AnswerGoes DEF ChainInv
    <2>4. QED
      BY <1>1, <2>1, <2>2, <2>3 DEF Recovering
  <1>4. ASSUME NEW served \in BOOLEAN, NEW lost \in BOOLEAN, Break(served, lost) PROVE how = "threw"
    <2>1. Asking /\ Broken(lost)
      BY <1>4, BreakDoes
    <2>2. QED
      BY <1>1, <1>2, <2>1, BreakGoes DEF ChainInv
  <1>5. CASE PollOnce \/ Deadline
    <2>1. UNCHANGED mined
      BY <1>5 DEF PollOnce, Deadline, node, chain
    <2>2. QED
      BY <1>1, <1>2, <1>5, <2>1, PollGoes DEF ChainInv
  <1>a. CASE PollFails
    BY <1>1, <1>a, PollFailKeeps
  <1>6. ASSUME LateMineEnds \/ \E s \in strays : StrayServed(s) PROVE FALSE
    <2>1. \E of : Marks(of)
      BY <1>6 DEF LateMineEnds, StrayServed
    <2>2. QED
      BY <1>1, <1>2, <2>1, MarkGoes, NoOpIsOperation DEF ChainInv
  <1>7. CASE NodeBegins \/ NodeProduces \/ Admitted \/ \E t \in Txs : Index(t)
    BY <1>2, <1>7 DEF NodeBegins, NodeProduces, Admitted, Index, session
  <1>8. CASE UNCHANGED sessionVars
    BY <1>2, <1>8 DEF sessionVars, session
  <1>9. ASSUME \/ \E n \in 1..MaxBatch : CallMine(n)
               \/ \E seconds \in 1..MaxTime :
                     CallIncrease(seconds) \/ CallIncreaseTo(seconds) \/ CallSetNext(seconds)
               \/ \E t \in Txs : CallSend(t) \/ \E s \in Slots : Predict(s, t)
               \/ \E s \in Slots : CallDeploy(s)
        PROVE  FALSE
    BY <1>1, <1>9 DEF CallMine, CallIncrease, CallIncreaseTo, CallSetNext, Warp, CallSend, Predict, CallDeploy,
                      Submit, BeginOp
  <1>10. QED
    BY <1>3, <1>4, <1>5, <1>a, <1>6, <1>7, <1>8, <1>9 DEF SessionNext

\* The state of a session is well typed: head and override are times, the pool
\* and the blocks hold transactions, an operation is of a known kind.
THEOREM SessionTypeCorrect == SessionSpec => []SessionTypeOK
  <1>1. ChainInv => SessionTypeOK
    <2>1. ChainInv => miner \in [is : {"nobody", "node", "call", "late"}, of : 0..MaxOps]
      BY SessionAssumption DEF ChainInv, NodeOK
    <2>2. QED
      BY <2>1 DEF ChainInv, NodeOK, SessionOK, Operation, Kinds, SessionTypeOK
  <1>2. QED
    BY <1>1, ChainInvariance, PTL

\* increase and increaseTo (runtime/time.js) seal a block at the timestamp they
\* were asked for, whatever breaks and whatever the node does in between, unless the
\* flag refused one of the mines that overlapped.
THEOREM WarpsSeal == SessionSpec => WarpSeals
  <1>1. ASSUME ChainInv, [SessionNext]_sessionVars, op.kind = "warp", Ends("ok"), ~op.late, ~refused
        PROVE  sealed' /\ head' >= op.target
    <2>1. ~Waiting
      BY <1>1 DEF Waiting
    <2>2. PICK ok \in BOOLEAN : Done(Mine, ok) /\ op.ask = Mine /\ ok
      BY <1>1, <2>1, EndsHow
    <2>3. Sealable
      BY <1>1, <2>2 DEF ChainInv, Sealing
    <2>4. ~refused'
      BY <1>1, <2>2, MineMade DEF ChainInv
    <2>5. QED
      BY <1>1, <2>2, <2>3, <2>4, SealMade DEF ChainInv
  <1>2. ChainInv /\ [SessionNext]_sessionVars =>
            [op.kind = "warp" /\ Ends("ok") /\ ~op.late /\ ~refused => sealed' /\ head' >= op.target]_sessionVars
    BY <1>1
  <1>3. QED
    BY <1>2, ChainInvariance, PTL DEF SessionSpec, WarpSeals

\* mine, evm_mine and mineUpTo make the blocks they were asked for, and one
\* fewer only when they found an override a block had spent.
THEOREM MinesMakeBlocks == SessionSpec => MinesAsAsked
  <1>1. ASSUME ChainInv, [SessionNext]_sessionVars, op.kind = "mine", Ends("ok"), ~op.late
        PROVE  since' >= op.asked - (IF op.spent THEN 1 ELSE 0)
    <2>1. ~Waiting /\ op.ask = Mine
      BY <1>1 DEF Waiting, ChainInv, Asks
    <2>2. PICK ok \in BOOLEAN : Done(Mine, ok) /\ ok /\ op.left <= 1
      BY <1>1, <2>1, EndsHow
    <2>3. AddUp
      BY <1>1 DEF ChainInv, Counting
    <2>4. since' + op.left >= op.asked - Debt(op.spent) + 1 /\ since' \in Nat
      BY <1>1, <2>2, <2>3, CountKept, MineMade DEF ChainInv, Debt
    <2>5. op.left \in Nat /\ op.asked \in Nat
      BY <1>1 DEF ChainInv, SessionOK, Operation
    <2>6. QED
      BY <2>2, <2>4, <2>5 DEF Debt
  <1>2. ChainInv /\ [SessionNext]_sessionVars =>
            [op.kind = "mine" /\ Ends("ok") /\ ~op.late =>
                since' >= op.asked - (IF op.spent THEN 1 ELSE 0)]_sessionVars
    BY <1>1
  <1>3. QED
    BY <1>2, ChainInvariance, PTL DEF SessionSpec, MinesAsAsked

\* A receipt wait (runtime/wait.js, deploy.js) that has sent two recovery mines
\* over a sound connection, neither of them refused for the flag, times out only on
\* a transaction that is mined or has expired.
THEOREM RecoveriesLand == SessionSpec => RecoveryLands
  <1>1. ASSUME ChainInv, [SessionNext]_sessionVars, Waiting, Ends("timeout"),
               op.iter > 2 * RecoverAt, ~op.broken, ~op.late, ~refused
        PROVE  op.tx \in mined' \/ expires[op.tx] <= head
    <2>1. op.ask = Poll /\ mined' = mined
      BY <1>1, EndsHow
    <2>2. Landed
      BY <1>1, <2>1, Apart DEF ChainInv, Landing
    <2>3. QED
      BY <1>1, <2>1, <2>2 DEF Landed, Settled
  <1>2. ChainInv /\ [SessionNext]_sessionVars =>
            [Waiting /\ Ends("timeout") /\ op.iter > 2 * RecoverAt /\ ~op.broken /\ ~op.late /\ ~refused =>
                op.tx \in mined' \/ expires[op.tx] <= head]_sessionVars
    BY <1>1
  <1>3. QED
    BY <1>2, ChainInvariance, PTL DEF SessionSpec, RecoveryLands

\* deployContract sends a predicted deployment at most once, so the node refuses
\* one only because its expiry has passed (ethers-bridge.js, _prebuildCache).
THEOREM PredictionsHold == SessionSpec => PredictionHolds
  <1>1. ASSUME ChainInv, [SessionNext]_sessionVars, op.kind = "deploy", Ends("refused")
        PROVE  expires[op.tx] <= head
    <2>1. Asking /\ Waiting
      BY <1>1, EndsHow DEF Waiting
    <2>2. PICK ok \in BOOLEAN : Done(op.ask, ok) /\ ~ok /\ op.ask # Mine
      BY <1>1, EndsHow
    <2>3. op.tx \in Txs /\ op.ask = BroadcastTx(op.tx) /\ ~Sent(op.tx)
      BY <1>1, <2>1, <2>2 DEF ChainInv, Asks, Asking, Signed
    <2>4. ~(expires[op.tx] > head /\ op.tx \notin pool \cup mined)
      BY <1>1, <2>2, <2>3, BroadcastMade DEF ChainInv
    <2>5. expires[op.tx] \in Nat /\ head \in Nat
      BY <1>1, <2>3 DEF ChainInv, SessionOK, NodeOK
    <2>6. QED
      BY <2>3, <2>4, <2>5 DEF Sent
  <1>2. ChainInv /\ [SessionNext]_sessionVars =>
            [op.kind = "deploy" /\ Ends("refused") => expires[op.tx] <= head]_sessionVars
    BY <1>1
  <1>3. QED
    BY <1>2, ChainInvariance, PTL DEF SessionSpec, PredictionHolds
=============================================================================
