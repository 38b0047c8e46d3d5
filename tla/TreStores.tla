------------------------------ MODULE TreStores ------------------------------
(***************************************************************************)
(* setAccountBalance, setAccountCode and setAccountStorageAt of            *)
(* TreJsonRpcImpl.java on one address, beside blocks and the snapshots of  *)
(* TreSnapshots.                                                           *)
(*                                                                         *)
(* A setter is a few reads and forceWrites, each of which takes the        *)
(* monitor of dbManager for itself: what it writes back is what it read    *)
(* some time ago.  The four stores have one entry per address, so setters  *)
(* of different addresses do not meet.                                     *)
(***************************************************************************)
EXTENDS TreSnapshots

CONSTANTS
    Codes,  \* bytecodes
    MaxWork \* bound: setters, blocks and snapshots together

VARIABLES
    setter,   \* setter[t]: the setter thread t runs
    work,     \* setters, blocks and snapshots so far
    overlaps  \* history: <<k, w>>: while a setter of kind k was under way, w happened

storesVars == <<vars, setter, work, overlaps>>

Missing == "missing"
Unhashed == "unhashed" \* a ContractStore entry without a code hash

\* The address's account type, its code, and the code hash of its contract.
Stores == [account : {Missing, "Normal", "Contract"},
           code : {Missing} \cup Codes,
           contract : {Missing, Unhashed} \cup Codes]
Untouched == [account |-> Missing, code |-> Missing, contract |-> Missing]

ASSUME StoresAssumption == States = Stores /\ MaxWork \in Nat /\ Codes \cap {Missing, Unhashed} = {}

NoSetter == [kind |-> "none", next |-> "none", code |-> Missing, read |-> Missing]
Kinds == {"balance", "code", "storage"}
UnderWay(t) == setter[t].kind # "none"

StoresInit ==
    /\ Init /\ store = Untouched
    /\ setter = [t \in Threads |-> NoSetter]
    /\ work = 0 /\ overlaps = {}

Worked == work < MaxWork /\ work' = work + 1

\* w happens, to the setters of the other threads.
Meanwhile(w, others) == overlaps' = overlaps \cup {<<setter[u].kind, w>> : u \in {v \in others : UnderWay(v)}}

-----------------------------------------------------------------------------
(* The setters                                                             *)

\* decodeAddress, decodeHex: the request is a good one.
Call(t, kind, code) ==
    /\ Worked
    /\ Receive(t, "write", 0)
    /\ setter' = [setter EXCEPT ![t] = [kind |-> kind, code |-> code, read |-> Missing,
                                        next |-> IF kind = "balance" THEN "readAccount" ELSE "makeAccount"]]
    /\ UNCHANGED overlaps

At(t, step) == UnderWay(t) /\ setter[t].next = step

Read(t, what, next) ==
    /\ setter' = [setter EXCEPT ![t].read = what, ![t].next = next]
    /\ UNCHANGED <<store, at, ok, overlaps>>

\* forceWrite, after which the call goes on ...
Write(t, new, next) ==
    /\ store' = new
    /\ setter' = [setter EXCEPT ![t].next = next, ![t].read = Missing]
    /\ Meanwhile(setter[t].kind, Threads \ {t})
    /\ UNCHANGED <<at, ok>>

\* ... or returns true.
WriteLast(t, new) ==
    /\ store' = new
    /\ setter' = [setter EXCEPT ![t] = NoSetter]
    /\ Meanwhile(setter[t].kind, Threads \ {t})
    /\ Finish(t, TRUE)

\* setAccountBalance writes the account it has read, or a new one.
ReadAccount(t) == At(t, "readAccount") /\ Read(t, store.account, "writeAccount")
WriteAccount(t) ==
    /\ At(t, "writeAccount")
    /\ WriteLast(t, [store EXCEPT !.account = IF setter[t].read = Missing THEN "Normal" ELSE setter[t].read])

\* createContractAccountIfNotExist makes the account a contract's, whatever it was ...
MakeAccountOnce(t) ==
    /\ At(t, "makeAccount")
    /\ Write(t, [store EXCEPT !.account = IF @ = Missing THEN "Contract" ELSE @], "readContract")

MakeAccountOnly(t) ==
    /\ At(t, "makeAccount")
    /\ Write(t, [store EXCEPT !.account = "Contract"],
             IF store.account = "Contract" /\ setter[t].kind = "code" THEN "setCode" ELSE "readContract")

MakeAccount(t) ==
    /\ At(t, "makeAccount")
    /\ Write(t, [store EXCEPT !.account = "Contract"], "readContract")

\* ... and writes back the contract it has read, or a new one.
ReadContract(t) == At(t, "readContract") /\ Read(t, store.contract, "makeContract")
MakeContract(t) ==
    /\ At(t, "makeContract")
    /\ Write(t, [store EXCEPT !.contract = IF setter[t].read = Missing THEN Unhashed ELSE setter[t].read],
             IF setter[t].kind = "code" THEN "setCode" ELSE "setRow")

\* setAccountStorageAt ends with a row, which is in a store of its own.
SetRow(t) == At(t, "setRow") /\ WriteLast(t, store)

\* setAccountCode: the code, and its hash in the contract; there may be none
\* to put it in.
SetCode(t) == At(t, "setCode") /\ Write(t, [store EXCEPT !.code = setter[t].code], "readForHash")

ReadForHash(t) ==
    /\ At(t, "readForHash")
    /\ IF store.contract # Missing THEN Read(t, store.contract, "setHash")
       ELSE setter' = [setter EXCEPT ![t] = NoSetter] /\ Finish(t, FALSE) /\ UNCHANGED <<store, overlaps>>

SetHash(t) == At(t, "setHash") /\ WriteLast(t, [store EXCEPT !.contract = setter[t].code])

SetterStep(t) ==
    /\ \/ ReadAccount(t) \/ WriteAccount(t)
       \/ MakeAccount(t) \/ ReadContract(t) \/ MakeContract(t)
       \/ SetRow(t)
       \/ SetCode(t) \/ ReadForHash(t) \/ SetHash(t)
    /\ UNCHANGED <<snapshots, counter, puts, arg, saved, dead, superseded, work>>

-----------------------------------------------------------------------------
(* The surroundings                                                        *)

\* pushBlock holds the monitor: a transfer makes an account, a deployment a
\* contract, and a creation by a contract a child without a contract entry; a
\* contract that destroys itself is deleted from all stores.
Block ==
    /\ Worked
    /\ \/ /\ Meanwhile("block", Threads)
          /\ \/ store.account = Missing /\ store' = [store EXCEPT !.account = "Normal"]
             \/ \E c \in Codes :
                   store = Untouched /\ store' = [account |-> "Contract", code |-> c, contract |-> c]
             \/ \E c \in Codes :
                   /\ store.code = Missing /\ store.contract = Missing
                   /\ store' = [store EXCEPT !.account = "Contract", !.code = c]
       \/ store.code # Missing /\ store' = Untouched /\ Meanwhile("destroy", Threads)
    /\ UNCHANGED <<snapshots, counter, puts, callVars, dead, superseded, setter>>

\* The stores are restored in this order; a restore that throws has done some.
Restored(s, n) == [account |-> IF n > 0 THEN s.account ELSE store.account,
                   code |-> IF n > 1 THEN s.code ELSE store.code,
                   contract |-> IF n > 2 THEN s.contract ELSE store.contract]

RestoreStores(t) ==
    /\ at[t] = "restore"
    /\ \/ store' = Restored(saved[t], 3) /\ Meanwhile("restore", Threads \ {t})
       \/ (\E n \in 0..2 : store' = Restored(saved[t], n)) /\ overlaps' = overlaps \cup {<<"none", "threw">>}
    /\ Restore(t)

SnapshotStep(t) ==
    \/ at[t] = "dump" /\ Meanwhile("dump", Threads \ {t}) /\ Dump(t)
    \/ RestoreStores(t)
    \/ (Number(t) \/ Put(t) \/ Take(t) \/ DropSnapshot(t)) /\ UNCHANGED overlaps

SnapshotCall(t, op, id) ==
    /\ IF op = "snapshot" THEN Worked ELSE UNCHANGED work
    /\ Receive(t, op, id)
    /\ UNCHANGED overlaps

StoresNext ==
    /\ \/ \E t \in Threads, kind \in {"balance", "storage"} : Call(t, kind, Missing)
       \/ \E t \in Threads, c \in Codes : Call(t, "code", c)
       \/ \E t \in Threads : SetterStep(t)
       \/ Block
       \/ \E t \in Threads : SnapshotCall(t, "snapshot", 0) /\ UNCHANGED setter
       \/ \E t \in Threads, op \in {"revert", "drop"}, id \in Ids \ {0} :
             SnapshotCall(t, op, id) /\ UNCHANGED setter
       \/ \E t \in Threads : SnapshotStep(t) /\ UNCHANGED <<setter, work>>
    /\ UNCHANGED exclusive

StoresSpec == StoresInit /\ [][StoresNext]_storesVars

-----------------------------------------------------------------------------
(* Properties                                                              *)

\* Of the stores TreSnapshots knows no more than that they are written.
WritesStores == Spec

Quiet == \A t \in Threads : ~UnderWay(t)

\* A restore that threw; or one, or a block that destroys the contract, in the
\* middle of a call that makes it.
Undone == {<<"none", "threw">>} \cup {"code", "storage"} \X {"restore", "destroy"}

\* An address with code or a contract has a contract's account, unless one of
\* those, or the account's type changed between setAccountBalance's read and its
\* write.  Other blocks may come in the middle of the other setters, and these of
\* each other.
TypesKept ==
    Quiet /\ overlaps \cap (Undone \cup {"balance"} \X {"code", "storage", "block", "restore"}) = {} =>
        (store.code # Missing \/ store.contract # Missing => store.account = "Contract")

\* A contract's hash, if it has one, is its code's, unless two setAccountCode
\* overlapped, or one the write of a contract setAccountStorageAt had read, or
\* was saved half done.
HashesKept ==
    Quiet /\ overlaps \cap (Undone \cup {<<"code", "code">>, <<"storage", "code">>, <<"code", "dump">>}) = {} =>
        store.contract \in {Missing, Unhashed, store.code}

\* So an account is left in order but for the overlaps the two name.
AccountsKept == TypesKept /\ HashesKept

\* setAccountCode, which does not ask whether there is a contract to put the hash
\* in, finds one unless a restore or a block has taken it away:
\* createContractAccountIfNotExist has made it, and nothing else removes one.
CodeFindsItsContract ==
    [][\A t \in Threads : At(t, "readForHash") /\ at'[t] = "done" => overlaps \cap Undone # {}]_storesVars
=============================================================================
