----------------------------- MODULE InstanceId -----------------------------
(***************************************************************************)
(* The per-url identity cache of runtime/instance-id.js together with the  *)
(* lifecycle steps that evict it (tre/lifecycle.js: ensureUp, teardown).   *)
(*                                                                         *)
(* All the maps of the code are keyed by url and no step relates two urls, *)
(* so the module is about one url.  `Calls' are invocations of             *)
(* instanceId(); one action runs from one await to the next, which is the  *)
(* grain at which Node.js interleaves them.  `spawnSync' blocks the event  *)
(* loop, so docker is consulted inside an action.                          *)
(*                                                                         *)
(* An id is abstracted to the node instance it was read from and the tier  *)
(* it came from; `inst' numbers the nodes that ever served the url.        *)
(***************************************************************************)
EXTENDS Integers

CONSTANTS
    Calls,      \* invocations of instanceId(), one each
    NoCall,     \* no invocation: an empty _inflight slot
    MaxBoots,   \* bound: how many nodes ever serve the url
    Reprobes    \* MAX_PROVISIONAL_REPROBES

ASSUME CallsAssumption == NoCall \notin Calls
ASSUME BoundsAssumption == MaxBoots \in Nat /\ Reprobes \in Nat \ {0}

VARIABLES
    \* the url's node and what the lifecycle of this process knows of it
    inst,       \* number of the latest node; 0 before the first
    up,         \* that node answers at the url
    patched,    \* ... and it serves tre_instanceId
    starting,   \* the instance ensureUp is waiting for; 0 when it is not
    launched,   \* _launched.get(url), as the instance of that container; 0: none
    \* the module state of instance-id.js
    cache,      \* _instanceIdCache.get(url)
    reprobesLeft, \* reprobesLeft of the provisional entry a call created
    inflight,   \* _inflight.get(url), as the call that started the resolution
    gen,        \* _evictGen.get(url)
    \* the locals of each call
    pc, myGen, myCached, probe, waitsFor, result,
    \* history, read by properties only
    gone,       \* instances the lifecycle removed or saw superseded
    since,      \* since[c] is `gone' when call c began
    strayed,    \* a resolution removed another's _inflight entry this generation
    misses,     \* resolutions of this generation whose probe got no answer
    answers     \* definitive answers the resolutions of this generation settled on

nodeVars == <<inst, up, patched, starting, launched>>
cacheVars == <<cache, reprobesLeft, inflight, gen>>
callVars == <<pc, myGen, myCached, probe, waitsFor, result>>
genHistory == <<strayed, misses, answers>>
vars == <<nodeVars, cacheVars, callVars, gone, since, genHistory>>

Tiers == {"served", "docker", "genesis"}
Ids == [inst : Nat, tier : Tiers]
NoId == [inst |-> 0, tier |-> "genesis"]

\* The owner of a provisional entry names the object the code decrements.
Entries == [state : {"absent", "provisional", "committed"},
            id : Ids, owner : Calls \cup {NoCall}]
NoEntry == [state |-> "absent", id |-> NoId, owner |-> NoCall]
Committed(id) == [state |-> "committed", id |-> id, owner |-> NoCall]
Provisional(id, c) == [state |-> "provisional", id |-> id, owner |-> c]

Probes == [kind : {"pending", "served", "noId", "noAnswer"}, inst : Nat]
Results == [kind : {"none", "id", "error"}, id : Ids]
Pending == [kind |-> "pending", inst |-> 0]
NoResult == [kind |-> "none", id |-> NoId]
Failure == [kind |-> "error", id |-> NoId]
Answer(id) == [kind |-> "id", id |-> id]

Init ==
    /\ inst = 0 /\ up = FALSE /\ patched = FALSE /\ starting = 0 /\ launched = 0
    /\ cache = NoEntry /\ inflight = NoCall /\ gen = 0
    /\ reprobesLeft = [c \in Calls |-> 0]
    /\ pc = [c \in Calls |-> "idle"]
    /\ myGen = [c \in Calls |-> 0]
    /\ myCached = [c \in Calls |-> NoEntry]
    /\ probe = [c \in Calls |-> Pending]
    /\ waitsFor = [c \in Calls |-> NoCall]
    /\ result = [c \in Calls |-> NoResult]
    /\ gone = {} /\ since = [c \in Calls |-> {}]
    /\ strayed = FALSE /\ misses = 0 /\ answers = {}

-----------------------------------------------------------------------------
(* The node and its lifecycle                                              *)

\* evictInstanceId(url)
EvictKeepingInflight ==
    /\ cache' = NoEntry
    /\ gen' = gen + 1
    /\ strayed' = FALSE /\ misses' = 0 /\ answers' = {}
    /\ UNCHANGED <<inflight, reprobesLeft>>

Evict ==
    /\ cache' = NoEntry
    /\ inflight' = NoCall
    /\ gen' = gen + 1
    /\ strayed' = FALSE /\ misses' = 0 /\ answers' = {}
    /\ UNCHANGED reprobesLeft

NewNode ==
    /\ ~up /\ inst < MaxBoots
    /\ inst' = inst + 1
    /\ up' = TRUE
    /\ patched' \in BOOLEAN

\* ensureUp: the url is unreachable, `docker run' succeeds, the wait begins.
SpawnContainer ==
    /\ starting = 0
    /\ NewNode
    /\ starting' = inst + 1
    /\ UNCHANGED <<launched, cacheVars, callVars, gone, since, genHistory>>

\* ensureUp: waitForReady saw the url answer; record the container, evict.
SpawnSucceedsNoEvict ==
    /\ starting # 0 /\ up
    /\ launched' = starting
    /\ starting' = 0
    /\ gone' = gone \cup 1..(starting - 1)
    /\ UNCHANGED <<inst, up, patched, cacheVars, callVars, since, genHistory>>

SpawnSucceeds ==
    /\ starting # 0 /\ up
    /\ launched' = starting
    /\ starting' = 0
    /\ gone' = gone \cup 1..(starting - 1)
    /\ Evict
    /\ UNCHANGED <<inst, up, patched, callVars, since>>

\* `docker rm -f' of instance i's container.  Its exit status is not looked at.
Remove(i) ==
    \/ up' = (up /\ inst # i) /\ gone' = gone \cup {i}
    \/ UNCHANGED <<up, gone>>

\* ensureUp's catch: not ready in time.  Without keepRunning the container is
\* evicted and force-removed; with it nothing but the wait ends.
SpawnFails ==
    /\ starting # 0
    /\ starting' = 0
    /\ \/ Evict /\ Remove(starting)
       \/ UNCHANGED <<up, gone, cacheVars, genHistory>>
    /\ UNCHANGED <<inst, patched, launched, callVars, since>>

\* teardown(name): forget, evict and `docker rm -f', all in one turn.
Teardown ==
    /\ launched # 0
    /\ launched' = 0
    /\ Evict
    /\ Remove(launched)
    /\ UNCHANGED <<inst, patched, starting, callVars, since>>

\* Outside this process: a node dies or is removed from another shell, or a
\* sibling process starts one on the url.  Neither evicts anything here.
NodeDies ==
    /\ up /\ up' = FALSE
    /\ UNCHANGED <<inst, patched, starting, launched, cacheVars, callVars,
                   gone, since, genHistory>>

ForeignBoot ==
    /\ NewNode
    /\ UNCHANGED <<starting, launched, cacheVars, callVars, gone, since, genHistory>>

-----------------------------------------------------------------------------
(* instanceId() and resolveInstanceId()                                    *)

Begin(c) == pc[c] = "idle" /\ since' = [since EXCEPT ![c] = gone]

\* instanceId: a committed entry answers at once.
CallHit(c) ==
    /\ Begin(c)
    /\ cache.state = "committed"
    /\ pc' = [pc EXCEPT ![c] = "done"]
    /\ result' = [result EXCEPT ![c] = Answer(cache.id)]
    /\ UNCHANGED <<nodeVars, cacheVars, myGen, myCached, probe, waitsFor, gone, genHistory>>

\* instanceId: join the resolution in flight.
CallJoins(c) ==
    /\ Begin(c)
    /\ cache.state # "committed" /\ inflight # NoCall
    /\ pc' = [pc EXCEPT ![c] = "joined"]
    /\ waitsFor' = [waitsFor EXCEPT ![c] = inflight]
    /\ UNCHANGED <<nodeVars, cacheVars, myGen, myCached, probe, result, gone, genHistory>>

CallResolvesWithoutJoining(c) ==
    /\ Begin(c)
    /\ cache.state # "committed"
    /\ inflight' = c
    /\ pc' = [pc EXCEPT ![c] = "probing"]
    /\ myGen' = [myGen EXCEPT ![c] = gen]
    /\ myCached' = [myCached EXCEPT ![c] = cache]
    /\ UNCHANGED <<nodeVars, cache, reprobesLeft, gen, probe, waitsFor, result, gone, genHistory>>

\* instanceId: start a resolution and install it; it runs up to its first await.
CallResolves(c) ==
    /\ Begin(c)
    /\ cache.state # "committed" /\ inflight = NoCall
    /\ inflight' = c
    /\ pc' = [pc EXCEPT ![c] = "probing"]
    /\ myGen' = [myGen EXCEPT ![c] = gen]
    /\ myCached' = [myCached EXCEPT ![c] = cache]
    /\ UNCHANGED <<nodeVars, cache, reprobesLeft, gen, probe, waitsFor, result, gone, genHistory>>

\* nodeServedInstanceId: the node answers an attempt, or neither attempt is.
ProbeReply(c, reply) ==
    /\ pc[c] = "probing" /\ probe[c].kind = "pending"
    /\ probe' = [probe EXCEPT ![c] = reply]
    /\ UNCHANGED <<nodeVars, cacheVars, pc, myGen, myCached, waitsFor, result,
                   gone, since, genHistory>>

ProbeAnswered(c) ==
    up /\ ProbeReply(c, [kind |-> IF patched THEN "served" ELSE "noId", inst |-> inst])

ProbeLost(c) == ProbeReply(c, [kind |-> "noAnswer", inst |-> 0])

Evicted(c) == gen # myGen[c]
Definitive(c) == probe[c].kind \in {"served", "noId"}
ServedId(c) == [inst |-> probe[c].inst, tier |-> "served"]

SettleAlone(c, r) ==
    /\ pc' = [pc EXCEPT ![c] = "done"]
    /\ result' = [result EXCEPT ![c] = r]
    /\ inflight' = NoCall
    /\ strayed' = (strayed \/ (inflight # NoCall /\ inflight # c))
    /\ UNCHANGED <<waitsFor, nodeVars, gen, myGen, myCached, probe, gone, since>>

\* The promise of resolution c settles: c and whoever joined it get r, and the
\* `finally' empties the slot without looking at whose promise is in it.
Settle(c, r) ==
    /\ pc' = [d \in Calls |-> IF d = c \/ waitsFor[d] = c THEN "done" ELSE pc[d]]
    /\ result' = [d \in Calls |-> IF d = c \/ waitsFor[d] = c THEN r ELSE result[d]]
    /\ waitsFor' = [d \in Calls |-> IF waitsFor[d] = c THEN NoCall ELSE waitsFor[d]]
    /\ inflight' = NoCall
    /\ strayed' = (strayed \/ (inflight # NoCall /\ inflight # c))
    /\ UNCHANGED <<nodeVars, gen, myGen, myCached, probe, gone, since>>

\* What the generation has heard, once c settles in it.
Heard(c) ==
    /\ misses' = IF Evicted(c) \/ Definitive(c) THEN misses ELSE misses + 1
    /\ answers' = IF Evicted(c) \/ ~Definitive(c) THEN answers ELSE answers \cup {probe[c].kind}

\* resolveInstanceId with a provisional entry: tier 0 only.
Reprobed(c) ==
    /\ pc[c] = "probing" /\ probe[c].kind # "pending"
    /\ myCached[c].state = "provisional"
    /\ LET old == myCached[c]
           id == IF probe[c].kind = "served" THEN ServedId(c) ELSE old.id
           left == reprobesLeft[old.owner] - 1
       IN /\ Settle(c, Answer(id))
          /\ Heard(c)
          /\ \/ /\ Evicted(c)
                /\ UNCHANGED <<cache, reprobesLeft>>
             \/ /\ ~Evicted(c) /\ Definitive(c)
                /\ cache' = Committed(id)
                /\ UNCHANGED reprobesLeft
             \/ /\ ~Evicted(c) /\ ~Definitive(c)
                /\ reprobesLeft' = [reprobesLeft EXCEPT ![old.owner] = left]
                /\ cache' = IF left > 0 THEN cache ELSE Committed(old.id)

\* The tail of a first resolution: write what was found, unless evicted.
WriteEvenIfEvicted(c, id) ==
    /\ Settle(c, Answer(id))
    /\ Heard(c)
    /\ \/ /\ Definitive(c)
          /\ cache' = Committed(id)
          /\ UNCHANGED reprobesLeft
       \/ /\ ~Definitive(c)
          /\ cache' = Provisional(id, c)
          /\ reprobesLeft' = [reprobesLeft EXCEPT ![c] = Reprobes]

WriteOneReprobeMore(c, id) ==
    /\ Settle(c, Answer(id))
    /\ Heard(c)
    /\ \/ /\ Evicted(c)
          /\ UNCHANGED <<cache, reprobesLeft>>
       \/ /\ ~Evicted(c) /\ Definitive(c)
          /\ cache' = Committed(id)
          /\ UNCHANGED reprobesLeft
       \/ /\ ~Evicted(c) /\ ~Definitive(c)
          /\ cache' = Provisional(id, c)
          /\ reprobesLeft' = [reprobesLeft EXCEPT ![c] = Reprobes + 1]

Write(c, id) ==
    /\ Settle(c, Answer(id))
    /\ Heard(c)
    /\ \/ /\ Evicted(c)
          /\ UNCHANGED <<cache, reprobesLeft>>
       \/ /\ ~Evicted(c) /\ Definitive(c)
          /\ cache' = Committed(id)
          /\ UNCHANGED reprobesLeft
       \/ /\ ~Evicted(c) /\ ~Definitive(c)
          /\ cache' = Provisional(id, c)
          /\ reprobesLeft' = [reprobesLeft EXCEPT ![c] = Reprobes]

Throw(c) ==
    /\ Settle(c, Failure)
    /\ UNCHANGED <<cache, reprobesLeft, misses, answers>>

FirstProbe(c, served) ==
    /\ pc[c] = "probing" /\ probe[c].kind # "pending"
    /\ myCached[c].state = "absent"
    /\ served = (probe[c].kind = "served")

\* Tier 0: the node served its id.
ResolvedServed(c) == FirstProbe(c, TRUE) /\ Write(c, ServedId(c))

\* Tier 1: we launched the container; docker names it or the call throws.
ResolvedOwned(c) ==
    /\ FirstProbe(c, FALSE) /\ launched # 0
    /\ \/ Write(c, [inst |-> launched, tier |-> "docker"])
       \/ Throw(c)

\* Tier 2: docker attributes the url to a running container, or the match is
\* ambiguous and containerServing throws.
ResolvedDiscovered(c) ==
    /\ FirstProbe(c, FALSE) /\ launched = 0
    /\ \/ up /\ Write(c, [inst |-> inst, tier |-> "docker"])
       \/ Throw(c)

\* Tier 3: nothing attributed; the genesis block is requested.
FallThroughUnowned(c) ==
    /\ FirstProbe(c, FALSE)
    /\ pc' = [pc EXCEPT ![c] = "genesis"]
    /\ UNCHANGED <<nodeVars, cacheVars, myGen, myCached, probe, waitsFor, result,
                   gone, since, genHistory>>

FallThrough(c) ==
    /\ FirstProbe(c, FALSE) /\ launched = 0
    /\ pc' = [pc EXCEPT ![c] = "genesis"]
    /\ UNCHANGED <<nodeVars, cacheVars, myGen, myCached, probe, waitsFor, result,
                   gone, since, genHistory>>

\* genesisInstanceId: the block's hash arrives, or the request fails.
GenesisArrives(c) ==
    /\ pc[c] = "genesis"
    /\ \/ up /\ Write(c, [inst |-> inst, tier |-> "genesis"])
       \/ Throw(c)

Resolve(c) == ResolvedServed(c) \/ ResolvedOwned(c) \/ ResolvedDiscovered(c) \/ FallThrough(c)

Next ==
    \/ SpawnContainer \/ SpawnSucceeds \/ SpawnFails \/ Teardown
    \/ NodeDies \/ ForeignBoot
    \/ \E c \in Calls :
          \/ CallHit(c) \/ CallJoins(c) \/ CallResolves(c)
          \/ ProbeAnswered(c) \/ ProbeLost(c) \/ Reprobed(c)
          \/ Resolve(c) \/ GenesisArrives(c)

Spec == Init /\ [][Next]_vars

\* Both probe attempts carry a timeout, docker is consulted synchronously and
\* the provider's request ends, so a call that has begun is never left hanging
\* by the environment; nothing obliges anybody to call, boot or tear down.
FairSpec ==
    /\ Spec
    /\ \A c \in Calls : WF_vars(ProbeLost(c)) /\ WF_vars(Reprobed(c) \/ Resolve(c))
                        /\ WF_vars(GenesisArrives(c))
-----------------------------------------------------------------------------
(* Properties                                                              *)

\* Every variable ranges over its type.
TypeOK ==
    /\ inst \in Nat /\ starting \in Nat /\ launched \in Nat
    /\ up \in BOOLEAN /\ patched \in BOOLEAN
    /\ cache \in Entries
    /\ reprobesLeft \in [Calls -> Int]
    /\ inflight \in Calls \cup {NoCall}
    /\ gen \in Nat
    /\ pc \in [Calls -> {"idle", "probing", "genesis", "joined", "done"}]
    /\ myGen \in [Calls -> Nat]
    /\ myCached \in [Calls -> Entries]
    /\ probe \in [Calls -> Probes]
    /\ waitsFor \in [Calls -> Calls \cup {NoCall}]
    /\ result \in [Calls -> Results]
    /\ gone \subseteq Nat
    /\ since \in [Calls -> SUBSET Nat]
    /\ strayed \in BOOLEAN
    /\ misses \in Nat
    /\ answers \subseteq {"served", "noId"}

\* The cache never holds an id read from a node that the lifecycle has removed,
\* or replaced on the url, however late the probe that read it is answered
\* ("A cache write is void if teardown evicted the url while a probe was in
\* flight", resolveInstanceId).
NoResurrection == cache.state # "absent" => cache.id.inst \notin gone

\* A call never answers with a node that was gone before the call was made,
\* whether it hit the cache, joined a resolution or ran its own ("a
\* post-eviction caller must start fresh", evictInstanceId).
FreshAnswer ==
    \A c \in Calls : result[c].kind = "id" => result[c].id.inst \notin since[c]

\* So no id outlives its node, in the cache or in an answer.
NothingStale == NoResurrection /\ FreshAnswer

\* While this process owns the container at the url, the cache never holds the
\* genesis hash, which repeats across restarts: tier 1 must succeed or throw,
\* and no genesis id found before the container was ours survives.
OwnedNeverGenesis ==
    launched # 0 /\ cache.state # "absent" => cache.id.tier # "genesis"

\* The calls whose resolution belongs to the current generation.
Live == {c \in Calls : pc[c] \in {"probing", "genesis"} /\ ~Evicted(c)}

\* Unless a resolution of an evicted generation has settled in this one and
\* emptied the slot under its owner, one resolution runs per url.
SingleUnlessStrayed ==
    ~strayed => \A c, d \in Live : c = d

\* Under the same condition a committed id stays what it is until it is evicted.
\* (Under the other one a third call resolves beside the second, and its fallback
\* can replace a served id - what sharing one resolution was to prevent.)
CommittedIsStable ==
    [][cache.state = "committed" /\ ~strayed => cache' = cache \/ gen' # gen]_vars

\* A fallback id is settled on only when the node said it serves none, or after
\* the first resolution and every re-probe went unanswered: otherwise other
\* processes would key the upgrades manifest by the id this one gave up on.
FallbackIsLastResort ==
    cache.state = "committed" /\ cache.id.tier # "served" /\ ~strayed
        => "noId" \in answers \/ misses > Reprobes

\* ... and settled on it is: the re-probing of a silent node is bounded.
SettlesAfterReprobes ==
    misses > Reprobes /\ ~strayed => cache.state = "committed"

\* Re-probing stops neither too early nor never.
ReprobesCounted == FallbackIsLastResort /\ SettlesAfterReprobes

\* A call that was made returns, also one that only joined another's resolution.
EveryCallReturns == \A c \in Calls : pc[c] # "idle" ~> pc[c] = "done"
=============================================================================
