----------------------------- MODULE ClientCalls -----------------------------
(***************************************************************************)
(* The calls a test makes through the ethers bridge, with the state that   *)
(* runtime/cheatcodes.js keeps beside the node: the addresses the node's   *)
(* simulator predicted for created contracts and the actual ones, the      *)
(* contracts registered by hand, the accounts impersonated.                *)
(*                                                                         *)
(* A factory's call creates children, each named by a salt; the simulator  *)
(* answers with an address of its own for a child (EVM rule), a broadcast  *)
(* creates it at another (TVM rule).  A child has code when created, and   *)
(* an entry in ContractStore only once tre_setAccountCode has put it       *)
(* there.  Calls overlap where the code awaits the node, and requests may  *)
(* fail; a loadFixture between calls takes the stores back, and none of    *)
(* the client's maps.                                                      *)
(***************************************************************************)
EXTENDS Integers, Sequences, SequencesExt, FiniteSets

CONSTANTS
    Calls,        \* calls a test may have under way at once
    Factories,    \* contracts whose methods create children
    Salts,        \* what tells a factory's children apart
    PendingLimit, \* _PENDING_LIMIT
    MaxCalls      \* bound: calls made

ASSUME CallsAssumption == PendingLimit \in Nat \ {0} /\ MaxCalls \in Nat

VARIABLES
    code,       \* CodeStore: the children that exist
    stored,     \* ContractStore: the children that may be called
    fixture,    \* the stores loadFixture goes back to
    listed,     \* TreImpersonationRegistry has the account
    evmToTvm,   \* _evmToTvm
    pending,    \* _pendingStaticReturns: its entries, numbered in order
    tried,      \* _autoRegisteredAddresses
    local,      \* _localImpersonations has the account
    step,       \* step[c]: what call c does next
    at,         \* at[c]: the address it goes to
    makes,      \* makes[c]: the children it is to create
    outcome,    \* outcome[c]: how it ended
    begun,      \* calls begun
    onWire,     \* requests to impersonate or to stop that nobody waits for
    undone,     \* history: the registrations a revert has taken back
    failed,     \* history: the registrations the node did not make
    crossed,    \* history: a stop came late or beside an impersonation, after the last grant
    asked,      \* history: asked[f]: the children f's last call simulated for the test
    strayed     \* history: what the test or the bridge did that pairs out of turn

nodeVars == <<code, stored, fixture, listed>>
grantVars == <<local, onWire, crossed>>
history == <<undone, failed, asked, strayed>>
mapVars == <<evmToTvm, pending>>
callVars == <<step, at, makes, outcome>>
vars == <<nodeVars, mapVars, tried, grantVars, callVars, begun, history>>

Children == Factories \X Salts
Sim(k) == <<"sim", k>>     \* where the simulator says child k will be
Real(k) == <<"real", k>>   \* where a broadcast creates it
Account == <<"account">>   \* what a view returns: an owner, an implementation
Nowhere == <<"nowhere">>
Predictions == {Sim(k) : k \in Children}
Actuals == {Real(k) : k \in Children}

NoStores == [code |-> {}, stored |-> {}, taken |-> FALSE]

Init ==
    /\ code = {} /\ stored = {} /\ fixture = NoStores /\ listed = FALSE
    /\ evmToTvm = [a \in {} |-> Nowhere] /\ pending = {}
    /\ tried = {} /\ local = FALSE
    /\ step = [c \in Calls |-> "idle"]
    /\ at = [c \in Calls |-> Nowhere]
    /\ makes = [c \in Calls |-> <<>>]
    /\ outcome = [c \in Calls |-> "none"]
    /\ begun = 0 /\ undone = {} /\ failed = {} /\ strayed = {}
    /\ onWire = {} /\ crossed = FALSE
    /\ asked = [f \in Factories |-> <<>>]

Begin(c) == step[c] = "idle" /\ begun < MaxCalls /\ begun' = begun + 1
Goto(c, s) == step' = [step EXCEPT ![c] = s]
End(c, how) ==
    /\ Goto(c, "idle")
    /\ outcome' = [outcome EXCEPT ![c] = how]
    /\ at' = [at EXCEPT ![c] = Nowhere]
    /\ makes' = [makes EXCEPT ![c] = <<>>]

-----------------------------------------------------------------------------
(* Predictions and the contracts created                                   *)

\* lookupTvmActualBase58, or the address itself.
Rewritten(a) == IF a \in DOMAIN evmToTvm THEN evmToTvm[a] ELSE a

\* The queue with an address of f's pushed behind the others.
Longer(f, a) ==
    LET numbers == {e.nr : e \in pending}
    IN {pending \cup {[nr |-> n + 1, caller |-> f, returned |-> a]} :
            n \in {m \in {0} \cup numbers : \A l \in numbers : l <= m}}

RecordUnbounded(f, a) == pending' \in Longer(f, a)

\* recordStaticReturnAddress: the oldest entry goes when there are too many.
Record(f, a) ==
    \E longer \in Longer(f, a) :
        IF Cardinality(longer) <= PendingLimit THEN pending' = longer
        ELSE \E e \in longer : (\A d \in longer : e.nr <= d.nr) /\ pending' = longer \ {e}

PendingOf(f) == {e \in pending : e.caller = f}

\* _evmToTvm.set
Leading(p, k) == [a \in DOMAIN evmToTvm \cup {p} |-> IF a = p THEN Real(k) ELSE evmToTvm[a]]

RegisterOldest(f, created) ==
    IF created = <<>> \/ PendingOf(f) = {} THEN UNCHANGED mapVars
    ELSE \E e \in PendingOf(f) :
            /\ \A d \in PendingOf(f) : e.nr <= d.nr
            /\ evmToTvm' = Leading(e.returned, <<f, Head(created)>>)
            /\ pending' = pending \ PendingOf(f)

\* registerCreateMappingsFromReceipt: the first contract created takes the
\* caller's newest pending address, and its older ones are swept.
Register(f, created) ==
    IF created = <<>> \/ PendingOf(f) = {} THEN UNCHANGED mapVars
    ELSE \E e \in PendingOf(f) :
            /\ \A d \in PendingOf(f) : d.nr <= e.nr
            /\ evmToTvm' = Leading(e.returned, <<f, Head(created)>>)
            /\ pending' = pending \ PendingOf(f)

-----------------------------------------------------------------------------
(* Simulations and creations                                               *)

\* A view's address is recorded like a prediction ...
View(c, f) ==
    /\ Begin(c)
    /\ Record(f, Account)
    /\ strayed' = strayed \cup {"view"}
    /\ End(c, "returned")
    /\ UNCHANGED <<nodeVars, evmToTvm, tried, grantVars, undone, failed, asked>>

Creating(f) == \E c \in Calls : at[c] = <<"factory", f>> /\ step[c] # "idle"

\* ... fn.staticCall's only for a payable fn: the others use TronWeb's .call().
StaticCall(c, f, s, payable) ==
    /\ Begin(c)
    /\ IF payable THEN Record(f, Sim(<<f, s>>)) ELSE UNCHANGED pending
    /\ asked' = IF payable THEN [asked EXCEPT ![f] = <<s>>] ELSE asked
    /\ strayed' = IF Creating(f) THEN strayed \cup {"overlap"} ELSE strayed
    /\ End(c, "returned")
    /\ UNCHANGED <<nodeVars, evmToTvm, tried, grantVars, undone, failed>>

\* A call that creates children, one or two of a factory's, in this order.
Create(c, f, salts) ==
    /\ Begin(c)
    /\ Goto(c, "broadcast")
    /\ at' = [at EXCEPT ![c] = <<"factory", f>>]
    /\ makes' = [makes EXCEPT ![c] = salts]
    /\ outcome' = [outcome EXCEPT ![c] = "none"]
    /\ strayed' = strayed \cup (IF Creating(f) THEN {"overlap"} ELSE {})
                          \cup (IF asked[f] \in {<<>>, <<Head(salts)>>} THEN {} ELSE {"other"})
    /\ UNCHANGED <<nodeVars, mapVars, tried, grantVars, undone, failed, asked>>

Factory(c) == at[c][2]
Made(c) == {<<Factory(c), s>> : s \in ToSet(makes[c])}

\* The node runs it: the children are created, or it reverts because one
\* exists already, or later on, its receipt still naming them.
Broadcast(c) ==
    /\ step[c] = "broadcast"
    /\ asked' = [asked EXCEPT ![Factory(c)] = <<>>]
    /\ \/ Made(c) \cap code = {} /\ code' = code \cup Made(c) /\ Goto(c, "receipt")
       \/ Made(c) \cap code = {} /\ Goto(c, "reverted") /\ UNCHANGED code
       \/ Made(c) \cap code # {} /\ Goto(c, "collided") /\ UNCHANGED code
    /\ UNCHANGED <<stored, fixture, listed, mapVars, tried, grantVars, at, makes, outcome, begun, undone, failed, strayed>>

\* The receipt is registered before its result is looked at.  A collision
\* leaves no revert data, and its receipt may name the children or not.
Receipt(c) ==
    /\ step[c] \in {"receipt", "reverted", "collided"}
    /\ \E named \in {makes[c]} \cup (IF step[c] = "collided" THEN {<<>>} ELSE {}) :
          Register(Factory(c), named)
    /\ strayed' = IF step[c] = "receipt" THEN strayed ELSE strayed \cup {"reverted"}
    /\ IF step[c] = "collided" THEN Goto(c, "resimulate") /\ UNCHANGED <<at, makes, outcome>>
       ELSE End(c, step[c])
    /\ UNCHANGED <<nodeVars, tried, grantVars, begun, undone, failed, asked>>

\* buildRevertErrorWithSim: without data the call is simulated for its
\* reason, and the simulator, by its own rule, finds no collision.
Resimulate(c) ==
    /\ step[c] = "resimulate"
    /\ Record(Factory(c), Sim(<<Factory(c), Head(makes[c])>>))
    /\ strayed' = strayed \cup {"reverted"}
    /\ End(c, "reverted")
    /\ UNCHANGED <<nodeVars, evmToTvm, tried, grantVars, begun, undone, failed, asked>>

-----------------------------------------------------------------------------
(* Sends to a child                                                        *)

Callable(a) == \E k \in stored : a = Real(k)

\* A method sent by TronWeb's contract proxy goes to the address it is bound to ...
SendBound(c, a) ==
    /\ Begin(c)
    /\ End(c, IF Callable(a) THEN "delivered" ELSE "refused")
    /\ UNCHANGED <<nodeVars, mapVars, tried, grantVars, history>>

\* ... an impersonated one (sendImpersonatedCall) to the rewritten address.
SendImpersonated(c, a) ==
    /\ Begin(c)
    /\ End(c, IF Callable(Rewritten(a)) /\ listed THEN "delivered" ELSE "refused")
    /\ UNCHANGED <<nodeVars, mapVars, tried, grantVars, history>>

\* sendCallTx rewrites the address and triggers ...
SendCallTx(c, a) ==
    /\ Begin(c)
    /\ Goto(c, "trigger")
    /\ at' = [at EXCEPT ![c] = Rewritten(a)]
    /\ outcome' = [outcome EXCEPT ![c] = "none"]
    /\ UNCHANGED <<nodeVars, mapVars, tried, grantVars, makes, history>>

\* ... once; and for a contract that is not in ContractStore, and was not
\* tried before, asks for its code (maybeAutoRegisterContract).
Trigger(c) ==
    /\ step[c] = "trigger"
    /\ IF Callable(at[c]) THEN End(c, "delivered")
       ELSE IF at[c] \in tried THEN End(c, "refused")
       ELSE Goto(c, "code") /\ UNCHANGED <<at, makes, outcome>>
    /\ UNCHANGED <<nodeVars, mapVars, tried, grantVars, begun, history>>

HasCode(a) == \E k \in code : a = Real(k)

GetCodeTriedFirst(c) ==
    /\ step[c] = "code"
    /\ tried' = tried \cup {at[c]}
    /\ IF HasCode(at[c])
       THEN Goto(c, "register") /\ UNCHANGED <<at, makes, outcome>>
       ELSE End(c, "refused")
    /\ UNCHANGED <<nodeVars, mapVars, grantVars, begun, history>>

\* The address counts as tried from here on.  eth_getCode may fail, which is
\* taken for no code.
GetCode(c) ==
    /\ step[c] = "code"
    /\ \/ /\ HasCode(at[c])
          /\ tried' = tried \cup {at[c]}
          /\ Goto(c, "register") /\ UNCHANGED <<at, makes, outcome>>
       \/ End(c, "refused") /\ UNCHANGED tried
    /\ UNCHANGED <<nodeVars, mapVars, grantVars, begun, history>>

\* tre_setAccountCode, and the trigger once more; or the request fails, the node
\* having served it or not, and the call with it.
AutoRegister(c) ==
    /\ step[c] = "register"
    /\ \/ stored' = stored \cup {at[c][2]} /\ UNCHANGED failed
          /\ \E how \in {"delivered", "refused"} : End(c, how)
       \/ failed' = failed \cup {at[c][2]} /\ UNCHANGED stored
          /\ End(c, "refused")
    /\ UNCHANGED <<code, fixture, listed, mapVars, tried, grantVars, begun, undone, asked, strayed>>

-----------------------------------------------------------------------------
(* Impersonation                                                           *)

\* impersonateAccount asks the node ...
Impersonate(c) ==
    /\ Begin(c) /\ Goto(c, "grant")
    /\ UNCHANGED <<nodeVars, mapVars, tried, grantVars, at, makes, outcome, history>>

GrantServed(c) ==
    /\ step[c] = "grant" /\ Goto(c, "granted")
    /\ listed' = TRUE /\ crossed' = FALSE
    /\ UNCHANGED <<code, stored, fixture, mapVars, tried, local, onWire, at, makes, outcome, begun, history>>

\* ... and registers the account here once the node has said so.
GrantAnswered(c) ==
    /\ step[c] = "granted" /\ End(c, "returned")
    /\ local' = TRUE
    /\ UNCHANGED <<nodeVars, mapVars, tried, onWire, crossed, begun, history>>

\* stopImpersonatingAccount asks the node ...
StopImpersonating(c) ==
    /\ Begin(c) /\ Goto(c, "stop")
    /\ UNCHANGED <<nodeVars, mapVars, tried, grantVars, at, makes, outcome, history>>

StopServed(c) ==
    /\ step[c] = "stop" /\ Goto(c, "stopped")
    /\ listed' = FALSE
    /\ crossed' = (crossed \/ \E d \in Calls : step[d] = "granted")
    /\ UNCHANGED <<code, stored, fixture, mapVars, tried, local, onWire, at, makes, outcome, begun, history>>

\* ... and does not look at the answer.
StopAnswered(c) ==
    /\ step[c] = "stopped" /\ End(c, "returned")
    /\ local' = FALSE
    /\ UNCHANGED <<nodeVars, mapVars, tried, onWire, crossed, begun, history>>

Wants(c) == IF step[c] \in {"grant", "granted"} THEN "grant" ELSE "stop"

ExchangeBreaksUnheard(c) ==
    /\ step[c] \in {"grant", "granted", "stop", "stopped"}
    /\ onWire' = onWire /\ End(c, "returned")
    /\ local' = (Wants(c) = "grant")
    /\ UNCHANGED <<nodeVars, mapVars, tried, crossed, begun, history>>

\* The exchange breaks: one the node has not served may reach it later.  It is
\* asked once more, or given up, which callOrFalse turns into an answer.
ExchangeBreaks(c) ==
    /\ step[c] \in {"grant", "granted", "stop", "stopped"}
    /\ onWire' \in {onWire} \cup (IF step[c] = Wants(c) THEN {onWire \cup {Wants(c)}} ELSE {})
    /\ \/ Goto(c, Wants(c)) /\ UNCHANGED <<at, makes, outcome, local>>
       \/ End(c, "returned") /\ local' = (local /\ Wants(c) = "grant")
    /\ UNCHANGED <<nodeVars, mapVars, tried, crossed, begun, history>>

LateServed(request) ==
    /\ request \in onWire /\ onWire' = onWire \ {request}
    /\ listed' = (request = "grant") /\ crossed' = (request = "stop")
    /\ UNCHANGED <<code, stored, fixture, mapVars, tried, local, callVars, begun, history>>

-----------------------------------------------------------------------------
(* Fixtures                                                                *)

Resting == \A c \in Calls : step[c] = "idle"

TakeFixture ==
    /\ Resting /\ ~fixture.taken
    /\ fixture' = [code |-> code, stored |-> stored, taken |-> TRUE]
    /\ UNCHANGED <<code, stored, listed, mapVars, tried, grantVars, callVars, begun, history>>

\* The stores go back; the registry and the client's maps do not.
RevertFixture ==
    /\ Resting /\ fixture.taken
    /\ code' = fixture.code /\ stored' = fixture.stored
    /\ undone' = undone \cup (stored \ fixture.stored)
    /\ UNCHANGED <<fixture, listed, mapVars, tried, grantVars, callVars, begun, failed, asked, strayed>>

Next ==
    \/ \E c \in Calls, f \in Factories : View(c, f)
    \/ \E c \in Calls, f \in Factories, s \in Salts, payable \in BOOLEAN : StaticCall(c, f, s, payable)
    \/ \E c \in Calls, f \in Factories, s, t \in Salts :
          Create(c, f, IF s = t THEN <<s>> ELSE <<s, t>>)
    \/ \E c \in Calls : Broadcast(c) \/ Receipt(c) \/ Resimulate(c)
    \/ \E c \in Calls, a \in Predictions \cup Actuals :
          SendBound(c, a) \/ SendImpersonated(c, a) \/ SendCallTx(c, a)
    \/ \E c \in Calls : Trigger(c) \/ GetCode(c) \/ AutoRegister(c)
    \/ \E c \in Calls : Impersonate(c) \/ GrantServed(c) \/ GrantAnswered(c)
    \/ \E c \in Calls : StopImpersonating(c) \/ StopServed(c) \/ StopAnswered(c)
    \/ \E c \in Calls : ExchangeBreaks(c)
    \/ \E request \in {"grant", "stop"} : LateServed(request)
    \/ TakeFixture \/ RevertFixture

Spec == Init /\ [][Next]_vars

-----------------------------------------------------------------------------
(* Properties                                                              *)

Addresses == Predictions \cup Actuals \cup {Account}

TypeOK ==
    /\ code \subseteq Children /\ stored \subseteq code
    /\ fixture.code \subseteq Children /\ fixture.stored \subseteq fixture.code
    /\ listed \in BOOLEAN /\ local \in BOOLEAN /\ onWire \subseteq {"grant", "stop"}
    /\ DOMAIN evmToTvm \subseteq Predictions \cup {Account}
    /\ \A a \in DOMAIN evmToTvm : evmToTvm[a] \in Actuals
    /\ pending \subseteq [nr : Nat \ {0}, caller : Factories, returned : Addresses] /\ Cardinality(pending) <= PendingLimit
    /\ tried \subseteq Predictions \cup Actuals
    /\ step \in [Calls -> {"idle", "broadcast", "receipt", "reverted", "collided", "resimulate",
                           "trigger", "code", "register", "grant", "granted", "stop", "stopped"}]

\* A test that broadcasts what it simulated last, one call of a factory at a
\* time, and whose calls neither view an address nor create and revert nor
\* collide, reaches each child at the address predicted for it - however many
\* simulations it abandons in between ("LIFO survives test failures").  Each of
\* those exceptions breaks it: a view's answer, say its owner, is led to the
\* contract's next child.
InTurnMapsToTwin == strayed = {} => \A a \in DOMAIN evmToTvm : \E k \in Children :
                                        a = Sim(k) /\ evmToTvm[a] = Real(k)

\* Even out of turn, an address is led to a child of the contract that
\* returned it: factories never take each other's predictions.
NeverCrossesCallers ==
    \A a \in DOMAIN evmToTvm \ {Account} : a[2][1] = evmToTvm[a][2][1]

\* Predictions are paired with the children created.
PredictionsPair == InTurnMapsToTwin /\ NeverCrossesCallers

\* A raw send to a child that has code is refused without asking for it only if
\* another send is registering the child, if the node did not make the registration
\* asked for, or if a revert has taken it back: the client tries once, whatever
\* became of it.
RefusedOnlyWhenTried ==
    [][\A c \in Calls : step[c] = "trigger" /\ outcome'[c] = "refused" /\ HasCode(at[c]) =>
          \/ at[c][2] \in undone \cup failed
          \/ \E d \in Calls \ {c} : at[d] = at[c] /\ step[d] = "register"]_vars

\* The client believes in an impersonation only while the node grants it or a stop is
\* under way, whatever breaks and whatever fixtures are restored ("they MUST stay in
\* sync") - unless a stop reached the node late, or between an impersonation's service
\* and its answer, and the account was not impersonated again.
LocalIsListed == local => listed \/ crossed \/ \E c \in Calls : step[c] \in {"stop", "stopped"}
=============================================================================
