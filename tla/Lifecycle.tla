------------------------------ MODULE Lifecycle ------------------------------
(***************************************************************************)
(* ensureUp and teardown of tre/lifecycle.js, as the processes of one      *)
(* machine run them from tasks/test.js against one docker daemon, one      *)
(* image and one url.                                                      *)
(*                                                                         *)
(* A process is alone in its event loop, but every docker command and      *)
(* every probe is a point where the others, the daemon and other shells    *)
(* get their turn.  Containers are numbered in the order they are created  *)
(* and kept after their removal, so that a process that remembers a name   *)
(* can be told from the container it ran under that name.                  *)
(***************************************************************************)
EXTENDS Integers

CONSTANTS
    Procs,      \* processes, one test task each
    SharedName, \* the containerName some of them have in their config
    Outside,    \* whoever else starts containers on this machine
    MaxRuns     \* bound: containers ever created

ASSUME NamesAssumption == SharedName \notin Procs /\ Outside \notin Procs
ASSUME RunsAssumption == MaxRuns \in Nat \ {0}

VARIABLES
    shares,     \* shares[p]: p's config sets containerName to SharedName
    keep,       \* keep[p]: p's config has keepRunning
    box,        \* box[i]: the i-th container, who ran it, and if it runs because
                \* another shell has started it
    runs,       \* containers created so far
    pc,         \* what each process does next
    reached,    \* reached[p]: the container p's last successful probe was answered by
    spawned,    \* spawned[p]: ensureUp's answer
    \* history, read by properties only
    died,       \* a container stopped or was removed without a process of ours asking
    botched,    \* botched[p]: docker has refused p's docker rm -f
    foreign     \* a process has removed a container that another ran

configVars == <<shares, keep>>
boxVars == <<box, runs>>
procVars == <<pc, reached, spawned>>
history == <<died, botched, foreign>>
vars == <<configVars, boxVars, procVars, history>>

Serials == 1..MaxRuns
Names == Procs \cup {SharedName}
States == {"none", "created", "booting", "ready", "doomed", "stopped", "removed"}
NoBox == [name |-> SharedName, owner |-> Outside, state |-> "none", primed |-> FALSE, again |-> FALSE]

Running(i) == box[i].state \in {"booting", "ready", "doomed"}
Ready(i) == box[i].state = "ready"
Name(p) == IF shares[p] THEN SharedName ELSE p
Named(n) == {i \in Serials : box[i].name = n /\ box[i].state \notin {"none", "removed"}}
PortTaken == \E i \in Serials : Running(i)

\* A configured name may have a leftover from an earlier run.
Init ==
    /\ shares \in [Procs -> BOOLEAN] /\ keep \in [Procs -> BOOLEAN]
    /\ \E leftover \in {"none", "stopped"} :
          /\ box = [i \in Serials |-> IF i = 1 THEN [NoBox EXCEPT !.state = leftover] ELSE NoBox]
          /\ runs = IF leftover = "none" THEN 0 ELSE 1
    /\ pc = [p \in Procs |-> "idle"]
    /\ reached = [p \in Procs |-> 1]
    /\ spawned = [p \in Procs |-> FALSE]
    /\ died = FALSE /\ botched = [p \in Procs |-> FALSE] /\ foreign = FALSE

Goto(p, step) == pc' = [pc EXCEPT ![p] = step]

\* A container stops or is removed, and with it what it ran.
Ends(i, s) == box' = [box EXCEPT ![i] = [@ EXCEPT !.state = s, !.primed = FALSE, !.again = FALSE]]

-----------------------------------------------------------------------------
(* The daemon, the nodes and other shells                                  *)

\* docker run creates a container.
NewBox(owner, name, state) ==
    /\ runs < MaxRuns
    /\ runs' = runs + 1
    /\ box' = [box EXCEPT ![runs + 1] =
                 [name |-> name, owner |-> owner, state |-> state, primed |-> FALSE, again |-> FALSE]]

NodeReady(i) ==
    /\ box[i].state = "booting"
    /\ box' = [box EXCEPT ![i].state = "ready"]
    /\ UNCHANGED <<configVars, runs, procVars, history>>

\* A node's process ends: --restart no, so its container stays stopped.
NodeDies(i) ==
    /\ Running(i)
    /\ Ends(i, "stopped")
    /\ died' = TRUE
    /\ UNCHANGED <<configVars, runs, procVars, botched, foreign>>

OutsideRuns(name) ==
    /\ Named(name) = {} /\ ~PortTaken
    /\ NewBox(Outside, name, "booting")
    /\ UNCHANGED <<configVars, procVars, history>>

\* docker start: a container that has run before runs until it has read the config
\* its entrypoint has broken (TRE containers are single-boot), one that was only
\* created boots.  It stays the container of the process that ran it.
OutsideStarts(i) ==
    /\ box[i].state \in {"stopped", "created"} /\ ~PortTaken
    /\ box' = [box EXCEPT ![i].state = IF @ = "stopped" THEN "doomed" ELSE "booting", ![i].again = TRUE]
    /\ UNCHANGED <<configVars, runs, procVars, history>>

-----------------------------------------------------------------------------
(* ensureUp                                                                *)

Step(p, from, to) == pc[p] = from /\ Goto(p, to) /\ UNCHANGED configVars

EnsureUp(p) ==
    /\ Step(p, "idle", "probe")
    /\ UNCHANGED <<boxVars, reached, spawned, history>>

Sees(p, i) == Ready(i) /\ reached' = [reached EXCEPT ![p] = i]

ReuseUnprimed(p, i) ==
    /\ Step(p, "probe", "test")
    /\ Sees(p, i)
    /\ UNCHANGED <<boxVars, spawned, history>>

\* Something answers at the url: reuse it, past its genesis block.
Reuse(p, i) ==
    /\ Step(p, "probe", "prime")
    /\ Sees(p, i)
    /\ UNCHANGED <<boxVars, spawned, history>>

\* Nothing does within two seconds, busy nodes included.
Unreachable(p) ==
    /\ Step(p, "probe", IF shares[p] THEN "inspect" ELSE "run")
    /\ UNCHANGED <<boxVars, reached, spawned, history>>

\* containerState(name) of a configured name
Inspect(p) ==
    /\ Step(p, "inspect",
            IF \E i \in Named(Name(p)) : ~Running(i) THEN "clean" ELSE "run")
    /\ UNCHANGED <<boxVars, reached, spawned, history>>

CleanForced(p) ==
    /\ Step(p, "clean", "run")
    /\ \/ \E i \in Named(Name(p)) :
            Ends(i, "removed") /\ foreign' = (foreign \/ (Running(i) /\ box[i].owner # p))
       \/ UNCHANGED <<box, foreign>>
    /\ UNCHANGED <<runs, reached, spawned, died, botched>>

\* docker rm of the leftover: refused if it has been started meanwhile.
Clean(p) ==
    /\ Step(p, "clean", "run")
    /\ \/ \E i \in Named(Name(p)) : ~Running(i) /\ Ends(i, "removed")
       \/ UNCHANGED box
    /\ UNCHANGED <<runs, reached, spawned, history>>

\* docker run -d exits 0: the container is starting.
RunStarts(p) ==
    /\ Step(p, "run", "wait")
    /\ Named(Name(p)) = {} /\ ~PortTaken
    /\ NewBox(p, Name(p), "booting")
    /\ UNCHANGED <<reached, spawned, history>>

RunFailsCaught(p) ==
    /\ Step(p, "run", "catch")
    /\ \/ UNCHANGED boxVars
       \/ Named(Name(p)) = {} /\ PortTaken /\ NewBox(p, Name(p), "created")
    /\ UNCHANGED <<reached, spawned, history>>

\* docker run exits non-zero, because the name is taken, or the port, which
\* leaves the container created and not started, or for reasons of its own:
\* ensureUp throws, outside its try.
RunFails(p) ==
    /\ Step(p, "run", "failed")
    /\ \/ UNCHANGED boxVars
       \/ Named(Name(p)) = {} /\ PortTaken /\ NewBox(p, Name(p), "created")
    /\ UNCHANGED <<reached, spawned, history>>

\* waitForReady asks the url, not the container.
WaitSees(p, i) ==
    /\ Step(p, "wait", "prime")
    /\ Sees(p, i)
    /\ spawned' = [spawned EXCEPT ![p] = TRUE]
    /\ UNCHANGED <<boxVars, history>>

TimesOutOnceUp(p) ==
    /\ \E i \in Serials : Ready(i)
    /\ Step(p, "wait", "catch")
    /\ UNCHANGED <<boxVars, reached, spawned, history>>

\* The deadline passes.
TimesOut(p) ==
    /\ Step(p, "wait", "catch")
    /\ UNCHANGED <<boxVars, reached, spawned, history>>

\* docker rm -f of p's name, whoever's container has it by now; its outcome is
\* not looked at.
ForceRemove(p) ==
    \/ /\ \E i \in Named(Name(p)) :
             /\ Ends(i, "removed")
             /\ foreign' = (foreign \/ box[i].owner # p)
       /\ UNCHANGED botched
    \/ Named(Name(p)) = {} /\ UNCHANGED <<box, foreign, botched>>
    \/ botched' = [botched EXCEPT ![p] = TRUE] /\ UNCHANGED <<box, foreign>>

CatchKeeping(p) ==
    /\ Step(p, "catch", "failed")
    /\ UNCHANGED <<boxVars, reached, spawned, history>>

\* ensureUp's catch: without keepRunning remove the container, then throw.
Catch(p) ==
    /\ Step(p, "catch", "failed")
    /\ IF keep[p] THEN UNCHANGED <<box, foreign, botched>> ELSE ForceRemove(p)
    /\ UNCHANGED <<runs, reached, spawned, died>>

\* primeGenesis: mine one block on whatever node answers now, or warn and go on.
Prime(p) ==
    /\ \/ /\ Step(p, "prime", "test")
          /\ \E i \in Serials : Ready(i) /\ box' = [box EXCEPT ![i].primed = TRUE]
       \/ Step(p, "prime", "warned") /\ UNCHANGED box
    /\ UNCHANGED <<runs, reached, spawned, history>>

-----------------------------------------------------------------------------
(* The test task                                                           *)

\* The finally of tasks/test.js: tear down what was spawned and not kept.
TestsEnd(p) ==
    /\ \E from \in {"test", "warned"} :
          Step(p, from, IF spawned[p] /\ ~keep[p] THEN "teardown" ELSE "done")
    /\ UNCHANGED <<boxVars, reached, spawned, history>>

Teardown(p) ==
    /\ Step(p, "teardown", "done")
    /\ ForceRemove(p)
    /\ UNCHANGED <<runs, reached, spawned, died>>

\* A signal ends the process wherever it is; nothing cleans up after it.
Killed(p) ==
    /\ pc[p] \notin {"idle", "done", "failed", "killed"}
    /\ Goto(p, "killed")
    /\ UNCHANGED <<configVars, boxVars, reached, spawned, history>>

Advance(p) ==
    \/ \E i \in Serials : Reuse(p, i) \/ WaitSees(p, i)
    \/ Unreachable(p) \/ Inspect(p) \/ Clean(p)
    \/ RunStarts(p) \/ RunFails(p)
    \/ TimesOut(p) \/ Catch(p) \/ Prime(p) \/ Teardown(p)

Next ==
    \/ \E p \in Procs : EnsureUp(p) \/ Advance(p) \/ TestsEnd(p) \/ Killed(p)
    \/ \E i \in Serials : NodeReady(i) \/ NodeDies(i) \/ OutsideStarts(i)
    \/ \E n \in {SharedName} : OutsideRuns(n)

Spec == Init /\ [][Next]_vars

\* Probes and waits have deadlines, docker commands are synchronous and fetch
\* ends; how long tests run is their own affair.
FairSpec == Spec /\ \A p \in Procs : WF_vars(Advance(p))

-----------------------------------------------------------------------------
(* Properties                                                              *)

\* Every variable ranges over its type.
TypeOK ==
    /\ shares \in [Procs -> BOOLEAN] /\ keep \in [Procs -> BOOLEAN]
    /\ box \in [Serials -> [name : Names, owner : Procs \cup {Outside}, state : States,
                            primed : BOOLEAN, again : BOOLEAN]]
    /\ runs \in 0..MaxRuns
    /\ pc \in [Procs -> {"idle", "probe", "inspect", "clean", "run", "wait", "catch", "prime",
                         "test", "warned", "teardown", "done", "failed", "killed"}]
    /\ reached \in [Procs -> Serials]
    /\ spawned \in [Procs -> BOOLEAN]
    /\ died \in BOOLEAN /\ foreign \in BOOLEAN
    /\ botched \in [Procs -> BOOLEAN]

\* A task that ends, either way, leaves no container it has started running,
\* unless it was told to or docker refused to remove it: not when it waited in
\* vain, nor when its prime failed, nor when another process has taken over its
\* name.  What another shell has started again is that shell's.
NoRunningLeak ==
    \A p \in Procs :
        pc[p] \in {"done", "failed"} /\ ~keep[p] /\ ~botched[p] =>
            \A i \in Serials : box[i].owner = p /\ Running(i) => box[i].again

\* As long as no container dies, no process removes one that another ran: not
\* one that booted too slowly to be seen, nor one that holds the shared name, nor
\* a leftover that is started between the look and the removal.
ForeignSpared == ~died => ~foreign

\* Tests start on a chain past its genesis block, spawned or reused, unless they
\* start with a warning that the prime failed ("the first CreateSmartContract deploy crashes", ensureUp).
PastGenesis ==
    \A p \in Procs :
        pc[p] = "test" /\ Ready(reached[p]) => box[reached[p]].primed

\* ensureUp ends, with a node or a failure, and so does the teardown.
EnsureUpEnds ==
    \A p \in Procs : pc[p] # "idle" ~> pc[p] \in {"test", "warned", "done", "failed", "killed"}

\* README: "the plugin never tears down a container it didn't spawn".  A process
\* whose container has died removes what another runs under the configured name.
NeverTearsDownForeign == ~foreign
=============================================================================
