---------------------------- MODULE Lifecycle_proofs ----------------------------
(***************************************************************************)
(* What Lifecycle promises, for any number of processes and containers:    *)
(* no task leaves its container running, none removes another's unless a   *)
(* container has died, and tests start past the genesis block.             *)
(***************************************************************************)
EXTENDS Lifecycle, TLAPS

Present(i) == box[i].state \notin {"none", "removed"}

\* Containers beyond the last one created are blank.
Fresh == \A i \in Serials : i > runs => box[i].state = "none" /\ box[i].owner = Outside

\* A process runs containers under its own name ...
Owned == \A p \in Procs : \A i \in Serials : box[i].owner = p => box[i].name = Name(p)

\* ... docker has one container of a name, and one that publishes the port.
Unique == \A i, j \in Serials : Present(i) /\ Present(j) /\ box[i].name = box[j].name => i = j
OnePort == \A i, j \in Serials : Running(i) /\ Running(j) => i = j

BoxInv == Fresh /\ Owned /\ Unique /\ OnePort

\* A process that has not got to docker run, or never will, has no container and
\* has not answered that it has.
Before(p) ==
    \/ pc[p] \in {"idle", "probe", "inspect", "clean", "run"}
    \/ pc[p] \in {"prime", "test", "warned", "teardown", "done"} /\ ~spawned[p]
NotRun == \A p \in Procs : Before(p) => ~spawned[p] /\ \A i \in Serials : box[i].owner # p

\* One that may yet remove its container has it running, as long as none died.
Minding(p) ==
    \/ pc[p] \in {"wait", "catch", "teardown"}
    \/ pc[p] \in {"prime", "test", "warned"} /\ spawned[p]
Held ==
    ~died => \A p \in Procs : Minding(p) => \E i \in Serials : box[i].owner = p /\ Running(i)

\* What answered a probe was ready then, and does not boot a second time.
Unbooted == {"none", "created", "booting"}
Seen == \A p \in Procs : pc[p] \in {"prime", "test"} => box[reached[p]].state \notin Unbooted

IInv ==
    /\ TypeOK /\ BoxInv
    /\ NotRun /\ NoRunningLeak
    /\ Held /\ ForeignSpared
    /\ Seen /\ PastGenesis

-----------------------------------------------------------------------------
(* What a step does to the containers                                      *)

Boxes == [name : Names, owner : Procs \cup {Outside}, state : States, primed : BOOLEAN, again : BOOLEAN]
Blank(name, owner, state) ==
    [name |-> name, owner |-> owner, state |-> state, primed |-> FALSE, again |-> FALSE]

\* What a process has started runs: NoRunningLeak is about these.
Serving(i) == Running(i) /\ ~box[i].again

\* A container boots, stops or is removed, or is started by another shell.
Boots(i) == box[i].state = "booting" /\ box' = [box EXCEPT ![i].state = "ready"] /\ runs' = runs
Leaves(i, s) == Present(i) /\ s \in {"stopped", "removed"} /\ Ends(i, s) /\ runs' = runs

Restarted(i) ==
    /\ box[i].state \in {"stopped", "created"} /\ ~PortTaken
    /\ box' = [box EXCEPT ![i].state = IF @ = "stopped" THEN "doomed" ELSE "booting", ![i].again = TRUE]
    /\ runs' = runs

Created(owner, name, state) ==
    /\ Named(name) = {}
    /\ state = "created" \/ (state = "booting" /\ ~PortTaken)
    /\ owner \in Procs =>
          /\ name = Name(owner)
          /\ \/ RunStarts(owner)
             \/ RunFails(owner) /\ state = "created"
    /\ NewBox(owner, name, state)

Primed(i) == Ready(i) /\ box' = [box EXCEPT ![i].primed = TRUE] /\ runs' = runs

\* All of these: only the state changes, and what it says of the run.
Changes(i, s) ==
    /\ runs' = runs /\ Present(i)
    /\ box' \in [Serials -> Boxes]
    /\ \A j \in Serials : box'[j].name = box[j].name /\ box'[j].owner = box[j].owner
    /\ \A j \in Serials \ {i} : box'[j] = box[j]
    /\ box'[i].state = s
    /\ \/ s \in {"stopped", "removed"}
       \/ s = "ready" /\ box[i].state = "booting" /\ box'[i].primed = box[i].primed /\ box'[i].again = box[i].again
       \/ /\ ~PortTaken /\ box'[i].again
          /\ s = "doomed" \/ (s = "booting" /\ box[i].state = "created")

BoxChange ==
    \/ box' = box /\ runs' = runs
    \/ \E i \in Serials : (\E s \in States : Changes(i, s)) \/ Primed(i)
    \/ \E o \in Procs \cup {Outside}, n \in Names, s \in States : Created(o, n, s)

LEMMA BootsChanges ==
    ASSUME TypeOK, NEW i \in Serials, Boots(i) PROVE Changes(i, "ready")
  <1>1. box \in [Serials -> Boxes] /\ "ready" \in States
    BY DEF TypeOK, Boxes, States
  <1>2. /\ [box[i] EXCEPT !.state = "ready"] \in Boxes
        /\ box'[i] = [box[i] EXCEPT !.state = "ready"]
        /\ \A j \in Serials \ {i} : box'[j] = box[j]
        /\ box' \in [Serials -> Boxes]
    BY <1>1 DEF Boots, Boxes
  <1>3. DOMAIN box[i] = {"name", "owner", "state", "primed", "again"}
    BY <1>1 DEF Boxes
  <1>4. /\ box'[i].name = box[i].name /\ box'[i].owner = box[i].owner /\ box'[i].state = "ready"
        /\ box'[i].primed = box[i].primed /\ box'[i].again = box[i].again
    BY <1>2, <1>3
  <1> QED
    BY <1>2, <1>4 DEF Boots, Changes, Present

LEMMA LeavesChanges ==
    ASSUME TypeOK, NEW i \in Serials, NEW s \in {"stopped", "removed"}, Leaves(i, s) PROVE Changes(i, s)
  <1> DEFINE new == [box[i] EXCEPT !.state = s, !.primed = FALSE, !.again = FALSE]
  <1>1. box \in [Serials -> Boxes] /\ s \in States
    BY DEF TypeOK, Boxes, States
  <1>2. box' = [box EXCEPT ![i] = new]
    BY DEF Leaves, Ends
  <1>3. new \in Boxes
    BY <1>1 DEF Boxes
  <1>4. DOMAIN box[i] = {"name", "owner", "state", "primed", "again"}
    BY <1>1 DEF Boxes
  <1>5. new.name = box[i].name /\ new.owner = box[i].owner /\ new.state = s
    BY <1>4
  <1> HIDE DEF new
  <1>6. box'[i] = new /\ box' \in [Serials -> Boxes] /\ \A j \in Serials \ {i} : box'[j] = box[j]
    BY <1>1, <1>2, <1>3
  <1>7. \A j \in Serials : box'[j].name = box[j].name /\ box'[j].owner = box[j].owner
    BY <1>5, <1>6
  <1> QED
    BY <1>5, <1>6, <1>7 DEF Leaves, Changes

LEMMA RestartedChanges ==
    ASSUME TypeOK, NEW i \in Serials, Restarted(i)
    PROVE  Changes(i, IF box[i].state = "stopped" THEN "doomed" ELSE "booting")
  <1> DEFINE s == IF box[i].state = "stopped" THEN "doomed" ELSE "booting"
             new == [box[i] EXCEPT !.state = s, !.again = TRUE]
  <1>1. box \in [Serials -> Boxes] /\ s \in States
    BY DEF TypeOK, Boxes, States
  <1>2. box' = [box EXCEPT ![i] = new]
    BY <1>1 DEF Restarted, Boxes
  <1>3. s = "doomed" \/ (s = "booting" /\ box[i].state = "created")
    BY DEF Restarted
  <1> HIDE DEF s
  <1>4. new \in Boxes
    BY <1>1 DEF Boxes
  <1>5. DOMAIN box[i] = {"name", "owner", "state", "primed", "again"}
    BY <1>1 DEF Boxes
  <1>6. new.name = box[i].name /\ new.owner = box[i].owner /\ new.state = s /\ new.again
    BY <1>5
  <1> HIDE DEF new
  <1>7. box'[i] = new /\ box' \in [Serials -> Boxes] /\ \A j \in Serials \ {i} : box'[j] = box[j]
    BY <1>1, <1>2, <1>4
  <1>8. \A j \in Serials : box'[j].name = box[j].name /\ box'[j].owner = box[j].owner
    BY <1>6, <1>7
  <1>9. Changes(i, s)
    BY <1>3, <1>6, <1>7, <1>8 DEF Restarted, Changes, Present
  <1> QED
    BY <1>9 DEF s

LEMMA PrimedBox ==
    ASSUME TypeOK, NEW i \in Serials, Primed(i)
    PROVE  /\ box' \in [Serials -> Boxes]
           /\ \A j \in Serials :
                 /\ box'[j].name = box[j].name /\ box'[j].owner = box[j].owner
                 /\ box'[j].state = box[j].state /\ box'[j].again = box[j].again
                 /\ box[j].primed => box'[j].primed
           /\ box'[i].primed
  <1>1. box \in [Serials -> Boxes] /\ box' = [box EXCEPT ![i].primed = TRUE]
    BY DEF TypeOK, Primed, Boxes
  <1>2. /\ [box[i] EXCEPT !.primed = TRUE] \in Boxes /\ box'[i] = [box[i] EXCEPT !.primed = TRUE]
        /\ \A j \in Serials \ {i} : box'[j] = box[j]
    BY <1>1 DEF Boxes
  <1>3. box' \in [Serials -> Boxes]
    BY <1>1, <1>2
  <1>4. DOMAIN box[i] = {"name", "owner", "state", "primed", "again"}
    BY <1>1 DEF Boxes
  <1>5. QED
    BY <1>2, <1>3, <1>4

LEMMA CreatedBox ==
    ASSUME TypeOK, NEW o \in Procs \cup {Outside}, NEW n \in Names, NEW s \in States,
           NewBox(o, n, s)
    PROVE  /\ box' \in [Serials -> Boxes]
           /\ runs' = runs + 1 /\ runs' \in Serials
           /\ box'[runs + 1] = Blank(n, o, s)
           /\ \A j \in Serials : j # runs + 1 => box'[j] = box[j]
  <1>1. runs + 1 \in Serials
    BY RunsAssumption DEF TypeOK, NewBox, Serials
  <1> QED
    BY <1>1 DEF TypeOK, NewBox, Boxes, Blank

\* docker rm -f changes the container of p's name, if any.
LEMMA Removal ==
    ASSUME TypeOK, NEW p \in Procs, ForceRemove(p), runs' = runs
    PROVE  box' = box \/ \E i \in Named(Name(p)) : Changes(i, "removed")
  <1>1. ASSUME NEW i \in Named(Name(p)), Ends(i, "removed") PROVE Changes(i, "removed")
    <2>1. i \in Serials /\ Leaves(i, "removed")
      BY <1>1 DEF Leaves, Named, Present
    <2> QED
      BY <2>1, LeavesChanges
  <1> QED
    BY <1>1 DEF ForceRemove

LEMMA NameIsName == ASSUME TypeOK, NEW p \in Procs PROVE Name(p) \in Names
  BY DEF Name, Names, TypeOK

LEMMA StepChanges ==
    ASSUME TypeOK, [Next]_vars PROVE BoxChange /\ UNCHANGED configVars
  <1> USE DEF boxVars, procVars, history, vars
  <1>0. {"booting", "created", "stopped", "doomed", "removed", "ready"} \subseteq States
    BY DEF States
  <1>1. CASE UNCHANGED vars
    BY <1>1 DEF BoxChange
  <1>2. ASSUME NEW i \in Serials, NodeReady(i) \/ NodeDies(i) \/ OutsideStarts(i)
        PROVE  BoxChange /\ UNCHANGED configVars
    <2>1. CASE NodeReady(i)
      <3>1. Changes(i, "ready")
        BY <2>1, BootsChanges DEF NodeReady, Boots
      <3> QED
        BY <1>0, <2>1, <3>1 DEF NodeReady, BoxChange
    <2>2. CASE NodeDies(i)
      <3>1. Leaves(i, "stopped")
        BY <2>2 DEF NodeDies, Leaves, Present, Running
      <3>2. Changes(i, "stopped")
        BY <3>1, LeavesChanges
      <3> QED
        BY <1>0, <2>2, <3>2 DEF NodeDies, BoxChange
    <2>3. CASE OutsideStarts(i)
      <3>1. Changes(i, IF box[i].state = "stopped" THEN "doomed" ELSE "booting")
        BY <2>3, RestartedChanges DEF OutsideStarts, Restarted
      <3>2. (IF box[i].state = "stopped" THEN "doomed" ELSE "booting") \in States
        BY <1>0
      <3> QED
        BY <2>3, <3>1, <3>2 DEF OutsideStarts, BoxChange
    <2> QED
      BY <1>2, <2>1, <2>2, <2>3
  <1>3. ASSUME OutsideRuns(SharedName) PROVE BoxChange /\ UNCHANGED configVars
    <2>1. Created(Outside, SharedName, "booting")
      BY <1>3, NamesAssumption DEF OutsideRuns, Created
    <2>2. SharedName \in Names
      BY DEF Names
    <2> QED
      BY <1>0, <1>3, <2>1, <2>2 DEF OutsideRuns, BoxChange
  <1> SUFFICES ASSUME NEW p \in Procs, EnsureUp(p) \/ Advance(p) \/ TestsEnd(p) \/ Killed(p)
               PROVE  BoxChange /\ UNCHANGED configVars
    BY <1>1, <1>2, <1>3 DEF Next
  <1> USE DEF Step
  <1>4. CASE EnsureUp(p) \/ TestsEnd(p) \/ Killed(p) \/ Unreachable(p) \/ Inspect(p) \/ TimesOut(p)
             \/ \E i \in Serials : Reuse(p, i) \/ WaitSees(p, i)
    BY <1>4 DEF EnsureUp, TestsEnd, Killed, Unreachable, Inspect, TimesOut, Reuse, WaitSees,
                BoxChange
  <1>5. CASE Clean(p)
    <2>1. ASSUME NEW i \in Named(Name(p)), Ends(i, "removed") PROVE Changes(i, "removed")
      <3>1. i \in Serials /\ Leaves(i, "removed")
        BY <1>5, <2>1 DEF Clean, Leaves, Named, Present
      <3> QED
        BY <3>1, LeavesChanges
    <2>2. box' = box \/ \E i \in Named(Name(p)) : Changes(i, "removed")
      BY <1>5, <2>1 DEF Clean
    <2> QED
      BY <1>0, <1>5, <2>2 DEF Clean, BoxChange, Named
  <1>6. CASE RunStarts(p) \/ RunFails(p)
    <2>1. \/ UNCHANGED boxVars
          \/ Created(p, Name(p), "booting") \/ Created(p, Name(p), "created")
      BY <1>6 DEF RunStarts, RunFails, Created
    <2> QED
      BY <1>0, <1>6, <2>1, NameIsName DEF RunStarts, RunFails, BoxChange
  <1>7. CASE Catch(p) \/ Teardown(p)
    <2>1. box' = box \/ \E i \in Named(Name(p)) : Changes(i, "removed")
      BY <1>7, Removal DEF Catch, Teardown
    <2> QED
      BY <1>0, <1>7, <2>1 DEF Catch, Teardown, BoxChange, Named
  <1>8. CASE Prime(p)
    BY <1>8 DEF Prime, BoxChange, Primed
  <1> QED
    BY <1>4, <1>5, <1>6, <1>7, <1>8 DEF Advance

LEMMA BoxStep ==
    ASSUME TypeOK, BoxInv, [Next]_vars
    PROVE  BoxInv' /\ box' \in [Serials -> Boxes] /\ runs' \in 0..MaxRuns
  <1>0. /\ BoxChange /\ \A p \in Procs : Name(p)' = Name(p)
        /\ runs \in 0..MaxRuns /\ runs \in Nat
    BY StepChanges, RunsAssumption DEF configVars, Name, TypeOK
  <1> USE DEF BoxInv, Fresh, Owned, Unique, OnePort, Present, Running
  <1>1. CASE box' = box /\ runs' = runs
    BY <1>0, <1>1 DEF TypeOK, Boxes
  <1>2. ASSUME NEW i \in Serials, NEW s \in States, Changes(i, s)
        PROVE  BoxInv' /\ box' \in [Serials -> Boxes] /\ runs' \in 0..MaxRuns
    <2>1. /\ box' \in [Serials -> Boxes] /\ runs' = runs
          /\ \A j \in Serials :
                /\ box'[j].name = box[j].name /\ box'[j].owner = box[j].owner
                /\ box'[j].state = IF j = i THEN s ELSE box[j].state
      BY <1>2 DEF Changes
    <2>2. Present(i) /\ i <= runs
      BY <1>0, <1>2 DEF Changes, Serials
    <2>3. \/ s \in {"stopped", "removed"} \/ (s = "ready" /\ Running(i)) \/ ~PortTaken
      BY <1>2 DEF Changes
    <2>4. Fresh' /\ Owned' /\ Unique'
      BY <1>0, <2>1, <2>2
    <2>5. OnePort'
      BY <2>1, <2>3 DEF PortTaken
    <2> QED
      BY <1>0, <2>1, <2>4, <2>5
  <1>3. ASSUME NEW i \in Serials, Primed(i)
        PROVE  BoxInv' /\ box' \in [Serials -> Boxes] /\ runs' \in 0..MaxRuns
    <2>1. /\ box' \in [Serials -> Boxes]
          /\ \A j \in Serials :
                /\ box'[j].name = box[j].name /\ box'[j].owner = box[j].owner
                /\ box'[j].state = box[j].state
      BY <1>3, PrimedBox
    <2> QED
      BY <1>0, <1>3, <2>1 DEF Primed
  <1>4. ASSUME NEW o \in Procs \cup {Outside}, NEW n \in Names, NEW s \in States, Created(o, n, s)
        PROVE  BoxInv' /\ box' \in [Serials -> Boxes] /\ runs' \in 0..MaxRuns
    <2>0. /\ box' \in [Serials -> Boxes]
          /\ runs' = runs + 1 /\ runs' \in Serials
          /\ box'[runs + 1] = Blank(n, o, s)
          /\ \A j \in Serials : j # runs + 1 => box'[j] = box[j]
      BY <1>4, CreatedBox DEF Created
    <2>1. Fresh'
      <3>1. \A j \in Serials : j > runs + 1 => j > runs /\ j # runs + 1
        BY <1>0 DEF Serials
      <3> QED
        BY <2>0, <3>1
    <2>2. box'[runs + 1].owner = o /\ box'[runs + 1].name = n /\ box'[runs + 1].state = s
      BY <2>0 DEF Blank
    <2>3. Owned'
      <3>1. o \in Procs => n = Name(o)
        BY <1>4 DEF Created
      <3> QED
        BY <1>0, <2>0, <2>2, <3>1
    <2>4. Unique'
      <3>1. \A j \in Serials : Present(j) => box[j].name # n
        BY <1>4 DEF Created, Named
      <3>2. \A j \in Serials : j # runs + 1 => box'[j] = box[j]
        BY <2>0
      <3> QED
        BY <2>2, <3>1, <3>2
    <2>5. OnePort'
      <3>1. CASE s = "created"
        BY <2>0, <2>2, <3>1
      <3>2. CASE ~PortTaken
        BY <2>0, <2>2, <3>2 DEF PortTaken
      <3> QED
        BY <1>4, <3>1, <3>2 DEF Created
    <2> QED
      BY <2>0, <2>1, <2>3, <2>4, <2>5 DEF Serials
  <1> QED
    BY <1>0, <1>1, <1>2, <1>3, <1>4 DEF BoxChange

-----------------------------------------------------------------------------
(* Initial states and types                                                *)

LEMMA InitIInv == Init => IInv
  <1> SUFFICES ASSUME Init PROVE IInv
    OBVIOUS
  <1>0. /\ SharedName \in Names /\ {"none", "stopped"} \subseteq States
        /\ runs \in 0..MaxRuns
    BY RunsAssumption DEF Init, Names, States
  <1>1. /\ box \in [Serials -> Boxes]
        /\ \A i \in Serials : /\ box[i].owner = Outside /\ box[i].name = SharedName
                              /\ box[i].state = "none" \/ (box[i].state = "stopped" /\ i = 1 /\ runs = 1)
    <2> PICK leftover \in {"none", "stopped"} :
               /\ box = [i \in Serials |-> IF i = 1 THEN [NoBox EXCEPT !.state = leftover] ELSE NoBox]
               /\ runs = IF leftover = "none" THEN 0 ELSE 1
      BY DEF Init
    <2> DEFINE First == [NoBox EXCEPT !.state = leftover]
    <2>1. /\ First \in Boxes /\ NoBox \in Boxes /\ NoBox.state = "none"
          /\ First.state = leftover
          /\ First.owner = Outside /\ First.name = SharedName
          /\ NoBox.owner = Outside /\ NoBox.name = SharedName
      BY <1>0 DEF NoBox, Boxes
    <2> HIDE DEF First
    <2>2. \A i \in Serials : box[i] = IF i = 1 THEN First ELSE NoBox
      BY DEF First
    <2> QED
      BY <2>1, <2>2 DEF First
  <1>2. /\ \A p \in Procs : pc[p] = "idle" /\ reached[p] = 1 /\ ~spawned[p]
        /\ ~died /\ ~foreign
    BY DEF Init
  <1>3. TypeOK
    <2>1. /\ shares \in [Procs -> BOOLEAN] /\ keep \in [Procs -> BOOLEAN]
          /\ spawned \in [Procs -> BOOLEAN] /\ botched \in [Procs -> BOOLEAN]
          /\ died \in BOOLEAN /\ foreign \in BOOLEAN
      BY DEF Init
    <2>3. reached \in [Procs -> Serials]
      BY RunsAssumption DEF Init, Serials
    <2>2. pc \in [Procs -> {"idle", "probe", "inspect", "clean", "run", "wait", "catch", "prime",
                            "test", "warned", "teardown", "done", "failed", "killed"}]
      BY DEF Init
    <2> QED
      BY <1>0, <1>1, <2>1, <2>2, <2>3 DEF TypeOK, Boxes
  <1>4. BoxInv
    BY <1>0, <1>1, NamesAssumption, RunsAssumption
       DEF BoxInv, Fresh, Owned, Unique, OnePort, Present, Running, Serials
  <1>5. NotRun /\ NoRunningLeak /\ Held /\ ForeignSpared /\ Seen /\ PastGenesis
    BY <1>1, <1>2, NamesAssumption
       DEF NotRun, NoRunningLeak, Held, Minding, ForeignSpared, Seen, PastGenesis, Running
  <1> QED
    BY <1>3, <1>4, <1>5 DEF IInv

LEMMA TypeStep ==
    ASSUME TypeOK, BoxInv, [Next]_vars PROVE TypeOK'
  <1> USE DEF configVars, boxVars, procVars, history, vars, Step, Goto
  <1>0. box' \in [Serials -> Boxes] /\ runs' \in 0..MaxRuns /\ UNCHANGED configVars
    BY BoxStep, StepChanges
  <1>1. CASE UNCHANGED vars
    BY <1>1 DEF TypeOK
  <1>2. CASE \/ \E i \in Serials : NodeReady(i) \/ NodeDies(i) \/ OutsideStarts(i)
             \/ OutsideRuns(SharedName)
    BY <1>0, <1>2 DEF NodeReady, NodeDies, OutsideStarts, OutsideRuns, TypeOK, Boxes
  <1> SUFFICES ASSUME NEW p \in Procs, EnsureUp(p) \/ Advance(p) \/ TestsEnd(p) \/ Killed(p)
               PROVE  TypeOK'
    BY <1>1, <1>2 DEF Next
  <1> DEFINE Pcs == {"idle", "probe", "inspect", "clean", "run", "wait", "catch", "prime",
                     "test", "warned", "teardown", "done", "failed", "killed"}
  <1>3. pc' \in [Procs -> Pcs]
    BY DEF TypeOK, Advance, EnsureUp, TestsEnd, Killed, Reuse, WaitSees, Unreachable, Inspect,
           Clean, RunStarts, RunFails, TimesOut, Catch, Prime, Teardown
  <1>4. spawned' \in [Procs -> BOOLEAN] /\ died' \in BOOLEAN
    BY DEF TypeOK, Advance, EnsureUp, TestsEnd, Killed, Reuse, WaitSees, Unreachable,
           Inspect, Clean, RunStarts, RunFails, TimesOut, Catch, Prime, Teardown
  <1>6. reached' \in [Procs -> Serials]
    BY DEF TypeOK, Advance, EnsureUp, TestsEnd, Killed, Reuse, WaitSees, Sees, Unreachable,
           Inspect, Clean, RunStarts, RunFails, TimesOut, Catch, Prime, Teardown
  <1>5. botched' \in [Procs -> BOOLEAN] /\ foreign' \in BOOLEAN
    BY DEF TypeOK, Advance, EnsureUp, TestsEnd, Killed, Reuse, WaitSees, Unreachable,
           Inspect, Clean, RunStarts, RunFails, TimesOut, Catch, Prime, Teardown, ForceRemove
  <1> QED
    BY <1>0, <1>3, <1>4, <1>5, <1>6 DEF TypeOK, Boxes

-----------------------------------------------------------------------------
(* Who owns, runs and sees what after a step                               *)

\* The step is p's.
Moves(p) == EnsureUp(p) \/ Advance(p) \/ TestsEnd(p) \/ Killed(p)

\* What one process does changes no other's locals.
LEMMA OthersKept ==
    ASSUME TypeOK, [Next]_vars, NEW p \in Procs, ~Moves(p)
    PROVE  /\ pc'[p] = pc[p] /\ reached'[p] = reached[p] /\ spawned'[p] = spawned[p]
           /\ botched'[p] = botched[p]
  <1> USE DEF configVars, boxVars, procVars, history, vars, Step, Goto
  <1>1. CASE UNCHANGED vars
    BY <1>1
  <1>2. CASE \/ \E i \in Serials : NodeReady(i) \/ NodeDies(i) \/ OutsideStarts(i)
             \/ OutsideRuns(SharedName)
    BY <1>2 DEF NodeReady, NodeDies, OutsideStarts, OutsideRuns
  <1>3. ASSUME NEW q \in Procs, Moves(q), q # p
        PROVE  /\ pc'[p] = pc[p] /\ reached'[p] = reached[p] /\ spawned'[p] = spawned[p]
               /\ botched'[p] = botched[p]
    BY <1>3 DEF TypeOK, Moves, Advance, EnsureUp, TestsEnd, Killed, Reuse, WaitSees, Sees,
                Unreachable, Inspect, Clean, RunStarts, RunFails, TimesOut, Catch, Prime,
                Teardown, ForceRemove
  <1> QED
    BY <1>1, <1>2, <1>3 DEF Next, Moves

\* A process comes to own a container, and to have one serve, by docker run only.
LEMMA OwnerStep ==
    ASSUME TypeOK, BoxInv, [Next]_vars, NEW p \in Procs, NEW i \in Serials, box'[i].owner = p
    PROVE  \/ RunStarts(p)
           \/ RunFails(p) /\ (~Serving(i)' \/ box[i].owner = p)
           \/ box[i].owner = p /\ (Serving(i)' => Serving(i))
  <1> USE DEF Running, Serving
  <1>1. BoxChange
    BY StepChanges
  <1>2. ASSUME NEW j \in Serials, NEW s \in States, Changes(j, s)
        PROVE  box[i].owner = p /\ (Serving(i)' => Serving(i))
    BY <1>2 DEF Changes
  <1>3. ASSUME NEW j \in Serials, Primed(j)
        PROVE  box[i].owner = p /\ (Serving(i)' => Serving(i))
    BY <1>3, PrimedBox
  <1>4. ASSUME NEW o \in Procs \cup {Outside}, NEW n \in Names, NEW s \in States, Created(o, n, s)
        PROVE  \/ RunStarts(p)
               \/ RunFails(p) /\ (~Serving(i)' \/ box[i].owner = p)
               \/ box[i].owner = p /\ (Serving(i)' => Serving(i))
    <2>1. CASE i = runs + 1
      <3>1. box'[runs + 1] = Blank(n, o, s)
        BY <1>4, CreatedBox DEF Created
      <3>2. box'[i].owner = o /\ box'[i].state = s
        BY <2>1, <3>1 DEF Blank
      <3>3. RunStarts(o) \/ (RunFails(o) /\ s = "created")
        BY <1>4, <3>2 DEF Created
      <3> QED
        BY <3>2, <3>3
    <2>2. CASE i # runs + 1
      BY <1>4, <2>2, CreatedBox DEF Created
    <2> QED
      BY <2>1, <2>2
  <1> QED
    BY <1>1, <1>2, <1>3, <1>4 DEF BoxChange

\* Nobody but p starts a container for p, and p asks for one once.
LEMMA NotRunStep ==
    ASSUME TypeOK, BoxInv, NotRun, [Next]_vars PROVE NotRun'
  <1> SUFFICES ASSUME NEW p \in Procs, Before(p)'
               PROVE  ~spawned'[p] /\ \A i \in Serials : box'[i].owner # p
    BY DEF NotRun
  <1> USE DEF Before
  <1>1. Before(p) /\ spawned'[p] = spawned[p] /\ ~RunStarts(p) /\ ~RunFails(p)
    <2>1. CASE ~Moves(p)
      BY <2>1, OthersKept DEF Moves, Advance
    <2>2. ASSUME NEW i \in Serials, WaitSees(p, i) PROVE FALSE
      BY <2>2 DEF WaitSees, Step, Goto, TypeOK
    <2>3. CASE \/ EnsureUp(p) \/ TestsEnd(p) \/ Killed(p) \/ Unreachable(p) \/ Inspect(p)
               \/ \E i \in Serials : Reuse(p, i)
      BY <2>3 DEF EnsureUp, TestsEnd, Killed, Reuse, Unreachable, Inspect, RunStarts, RunFails,
                  Step, Goto, TypeOK
    <2>4. CASE Clean(p) \/ RunStarts(p) \/ RunFails(p) \/ TimesOut(p) \/ Catch(p)
      BY <2>4 DEF Clean, RunStarts, RunFails, TimesOut, Catch, Step, Goto, TypeOK
    <2>5. CASE Prime(p) \/ Teardown(p)
      BY <2>5 DEF Prime, Teardown, RunStarts, RunFails, Step, Goto, TypeOK
    <2> QED
      BY <2>1, <2>2, <2>3, <2>4, <2>5 DEF Moves, Advance
  <1>2. ~spawned[p] /\ \A i \in Serials : box[i].owner # p
    BY <1>1 DEF NotRun
  <1>3. ASSUME NEW i \in Serials, box'[i].owner = p PROVE FALSE
    BY <1>1, <1>2, <1>3, OwnerStep
  <1> QED
    BY <1>1, <1>2, <1>3

\* A removal that docker does not refuse leaves p without a running container.
LEMMA RemovesOwn ==
    ASSUME TypeOK, BoxInv, NEW p \in Procs, ForceRemove(p), runs' = runs, ~botched'[p],
           NEW i \in Serials, box[i].owner = p, Serving(i)
    PROVE  ~Serving(i)'
  <1>1. i \in Named(Name(p)) /\ Present(i)
    BY DEF BoxInv, Owned, Named, Running, Serving, Present
  <1>2. ~(botched' = [botched EXCEPT ![p] = TRUE])
    BY DEF TypeOK
  <1>3. PICK j \in Named(Name(p)) : Ends(j, "removed")
    BY <1>1, <1>2 DEF ForceRemove
  <1>4. j = i /\ Leaves(i, "removed")
    BY <1>1, <1>3 DEF BoxInv, Unique, Named, Present, Leaves
  <1>5. Changes(i, "removed")
    BY <1>4, LeavesChanges
  <1> QED
    BY <1>5 DEF Changes, Running, Serving

LEMMA LeakStep ==
    ASSUME IInv, [Next]_vars PROVE NoRunningLeak'
  <1> USE DEF IInv
  <1>0. keep' = keep
    BY StepChanges DEF configVars
  <1> SUFFICES ASSUME NEW p \in Procs, pc'[p] \in {"done", "failed"}, ~keep[p], ~botched'[p],
                      NEW i \in Serials, box'[i].owner = p, Serving(i)'
               PROVE  FALSE
    BY <1>0 DEF NoRunningLeak, Serving
  <1>1. ~Before(p) => box[i].owner = p /\ Serving(i)
    <2>1. RunStarts(p) \/ RunFails(p) => Before(p)
      BY DEF RunStarts, RunFails, Step, Before
    <2> QED
      BY <2>1, OwnerStep
  <1>2. ~Before(p)
    <2>1. ~RunStarts(p)
      BY DEF RunStarts, Step, Goto, TypeOK
    <2> QED
      BY <2>1, OwnerStep DEF NotRun
  <1>3. CASE ~Moves(p)
    BY <1>1, <1>2, <1>3, OthersKept DEF NoRunningLeak, Serving
  <1>4. CASE Catch(p) \/ Teardown(p)
    BY <1>1, <1>2, <1>4, RemovesOwn DEF Catch, Teardown
  <1>5. CASE Moves(p) /\ ~Catch(p) /\ ~Teardown(p)
    BY <1>2, <1>5 DEF Before, Moves, Advance, EnsureUp, TestsEnd, Killed, Reuse, WaitSees,
                      Unreachable, Inspect, Clean, RunStarts, RunFails, TimesOut, Prime,
                      Step, Goto, TypeOK
  <1> QED
    BY <1>3, <1>4, <1>5

-----------------------------------------------------------------------------
(* Whose container is removed                                              *)

\* Once a container has died, died stays set.
LEMMA DiedStep ==
    ASSUME TypeOK, [Next]_vars, ~died' PROVE ~died /\ \A i \in Serials : ~NodeDies(i)
  BY DEF Next, TypeOK, NodeReady, NodeDies, OutsideStarts, OutsideRuns, Advance, EnsureUp,
         TestsEnd, Killed, Reuse, WaitSees, Unreachable, Inspect, Clean, RunStarts, RunFails,
         TimesOut, Catch, Prime, Teardown, history, vars

\* A process that removes by force removes its own container.
LEMMA MindsOwn ==
    ASSUME IInv, ~died, NEW p \in Procs, Minding(p), NEW i \in Named(Name(p))
    PROVE  box[i].owner = p /\ Running(i)
  <1>1. PICK k \in Serials : box[k].owner = p /\ Running(k)
    BY DEF IInv, Held
  <1>2. Present(i) /\ Present(k) /\ box[i].name = box[k].name
    BY <1>1 DEF IInv, BoxInv, Owned, Named, Running, Present
  <1> QED
    BY <1>1, <1>2 DEF IInv, BoxInv, Unique, Named

LEMMA SparedStep ==
    ASSUME IInv, [Next]_vars PROVE ForeignSpared'
  <1> SUFFICES ASSUME ~died' PROVE ~foreign'
    BY DEF ForeignSpared
  <1>1. ~died /\ ~foreign
    BY DiedStep DEF IInv, ForeignSpared
  <1>2. ASSUME NEW p \in Procs, Catch(p) \/ Teardown(p) PROVE ~foreign'
    <2>1. Minding(p)
      BY <1>2 DEF Catch, Teardown, Step, Minding
    <2>2. foreign' = foreign \/ \E i \in Named(Name(p)) : foreign' = (foreign \/ box[i].owner # p)
      BY <1>2 DEF Catch, Teardown, ForceRemove
    <2> QED
      BY <1>1, <2>1, <2>2, MindsOwn
  <1> QED
    BY <1>1, <1>2 DEF Next, NodeReady, NodeDies, OutsideStarts, OutsideRuns, Advance, EnsureUp,
         TestsEnd, Killed, Reuse, WaitSees, Unreachable, Inspect, Clean, RunStarts, RunFails,
         TimesOut, Prime, history, vars

\* What p runs keeps running until it dies or p removes it.
LEMMA KeepsRunning ==
    ASSUME IInv, [Next]_vars, ~died', NEW p \in Procs, ~Catch(p), ~Teardown(p),
           NEW i \in Serials, box[i].owner = p, Running(i)
    PROVE  box'[i].owner = p /\ Running(i)'
  <1>0. /\ TypeOK /\ runs \in Nat /\ ~died /\ \A j \in Serials : ~NodeDies(j)
        /\ i <= runs
    BY DiedStep, RunsAssumption DEF IInv, BoxInv, Fresh, Running, TypeOK, Serials
  <1>1. ASSUME NEW o \in Procs \cup {Outside}, NEW n \in Names, NEW s \in States, NewBox(o, n, s)
        PROVE  box'[i].owner = p /\ Running(i)'
    <2>1. \A j \in Serials : j # runs + 1 => box'[j] = box[j]
      BY <1>0, <1>1, CreatedBox
    <2>2. i # runs + 1
      BY <1>0 DEF Serials
    <2> QED
      BY <2>1, <2>2 DEF Running
  <1>2. ASSUME NEW j \in Serials, NEW s \in States, Changes(j, s), j # i \/ s = "ready"
        PROVE  box'[i].owner = p /\ Running(i)'
    BY <1>2 DEF Changes, Running
  <1>3. CASE UNCHANGED box
    BY <1>3 DEF Running
  <1>4. {"ready", "removed", "booting", "created"} \subseteq States
    BY DEF States
  <1>5. ASSUME NEW j \in Serials, NodeReady(j) \/ OutsideStarts(j)
        PROVE  box'[i].owner = p /\ Running(i)'
    <2>1. CASE NodeReady(j)
      BY <1>0, <1>2, <1>4, <2>1, BootsChanges DEF NodeReady, Boots
    <2>2. CASE OutsideStarts(j)
      BY <1>0, <2>2 DEF OutsideStarts, PortTaken
    <2> QED
      BY <1>5, <2>1, <2>2
  <1>6. CASE OutsideRuns(SharedName)
    BY <1>1, <1>4, <1>6 DEF OutsideRuns, Names
  <1> SUFFICES ASSUME NEW q \in Procs, Moves(q)
               PROVE  box'[i].owner = p /\ Running(i)'
    BY <1>0, <1>3, <1>5, <1>6 DEF Next, Moves, vars, boxVars
  <1>7. CASE Clean(q)
    <2>1. ASSUME NEW j \in Named(Name(q)), ~Running(j), Ends(j, "removed")
          PROVE  box'[i].owner = p /\ Running(i)'
      <3>1. j \in Serials /\ Leaves(j, "removed")
        BY <1>7, <2>1 DEF Clean, Named, Present, Leaves
      <3>2. Changes(j, "removed")
        BY <1>0, <3>1, LeavesChanges
      <3> QED
        BY <1>2, <1>4, <2>1, <3>1, <3>2
    <2> QED
      BY <1>3, <1>7, <2>1 DEF Clean
  <1>8. CASE RunStarts(q) \/ RunFails(q)
    <2>1. \/ UNCHANGED box
          \/ NewBox(q, Name(q), "booting") \/ NewBox(q, Name(q), "created")
      BY <1>8 DEF RunStarts, RunFails, boxVars
    <2> QED
      BY <1>0, <1>1, <1>3, <1>4, <2>1, NameIsName
  <1>9. CASE Catch(q) \/ Teardown(q)
    <2>1. Minding(q) /\ q # p
      BY <1>9 DEF Catch, Teardown, Step, Minding
    <2>2. \A j \in Named(Name(q)) : j # i
      BY <1>0, <2>1, MindsOwn
    <2>3. ASSUME NEW j \in Named(Name(q)), Ends(j, "removed")
          PROVE  box'[i].owner = p /\ Running(i)'
      <3>1. j \in Serials /\ Leaves(j, "removed")
        BY <1>9, <2>3 DEF Catch, Teardown, Named, Present, Leaves
      <3>2. Changes(j, "removed")
        BY <1>0, <3>1, LeavesChanges
      <3> QED
        BY <1>2, <1>4, <2>2, <3>1, <3>2
    <2> QED
      BY <1>3, <1>9, <2>3 DEF Catch, Teardown, ForceRemove
  <1>10. CASE Prime(q)
    <2>1. UNCHANGED box \/ \E j \in Serials : Primed(j)
      BY <1>10 DEF Prime, Primed
    <2> QED
      BY <1>0, <1>3, <2>1, PrimedBox DEF Running
  <1> QED
    BY <1>3, <1>7, <1>8, <1>9, <1>10 DEF Moves, Advance, EnsureUp, TestsEnd, Killed, Reuse,
       WaitSees, Unreachable, Inspect, TimesOut, boxVars

LEMMA HeldStep ==
    ASSUME IInv, [Next]_vars PROVE Held'
  <1> SUFFICES ASSUME ~died', NEW p \in Procs, Minding(p)'
               PROVE  \E i \in Serials : box'[i].owner = p /\ Running(i)'
    BY DEF Held
  <1>0. TypeOK /\ ~died
    BY DiedStep DEF IInv
  <1>1. CASE RunStarts(p)
    <2>1. /\ runs + 1 \in Serials
          /\ box'[runs + 1] = Blank(Name(p), p, "booting")
      BY <1>0, <1>1, CreatedBox, NameIsName DEF RunStarts, States
    <2>2. box'[runs + 1].owner = p /\ box'[runs + 1].state = "booting"
      BY <2>1 DEF Blank
    <2> QED
      BY <2>1, <2>2 DEF Running
  <1>2. ASSUME ~RunStarts(p) PROVE Minding(p) /\ ~Catch(p) /\ ~Teardown(p)
    <2>1. CASE ~Moves(p)
      BY <1>0, <2>1, OthersKept DEF Moves, Advance, Minding
    <2>2. CASE Moves(p)
      <3>1. Before(p) => ~spawned[p]
        BY DEF IInv, NotRun
      <3> QED
        BY <1>0, <1>2, <2>2, <3>1
           DEF Before, Minding, Moves, Advance, EnsureUp, TestsEnd, Killed, Reuse, WaitSees,
               Unreachable, Inspect, Clean, RunFails, TimesOut, Catch, Prime, Teardown,
               Step, Goto, TypeOK
    <2> QED
      BY <2>1, <2>2
  <1>3. CASE ~RunStarts(p)
    <2>1. PICK i \in Serials : box[i].owner = p /\ Running(i)
      BY <1>0, <1>2, <1>3 DEF IInv, Held
    <2> QED
      BY <1>2, <1>3, <2>1, KeepsRunning
  <1> QED
    BY <1>1, <1>3

-----------------------------------------------------------------------------
(* What a probe has seen                                                   *)

\* A container that has been ready is not booting again, nor ready again.
LEMMA ReadyOnce ==
    ASSUME TypeOK, BoxInv, [Next]_vars, NEW i \in Serials, box[i].state \notin Unbooted
    PROVE  /\ box'[i].state \notin Unbooted
           /\ Ready(i)' => Ready(i) /\ (box[i].primed => box'[i].primed)
  <1> USE DEF Ready, Unbooted
  <1>1. BoxChange
    BY StepChanges
  <1>2. ASSUME NEW j \in Serials, NEW s \in States, Changes(j, s)
        PROVE  /\ box'[i].state \notin Unbooted
               /\ Ready(i)' => Ready(i) /\ (box[i].primed => box'[i].primed)
    BY <1>2 DEF Changes
  <1>3. ASSUME NEW j \in Serials, Primed(j)
        PROVE  /\ box'[i].state \notin Unbooted
               /\ Ready(i)' => Ready(i) /\ (box[i].primed => box'[i].primed)
    BY <1>3, PrimedBox
  <1>4. ASSUME NEW o \in Procs \cup {Outside}, NEW n \in Names, NEW s \in States, Created(o, n, s)
        PROVE  box'[i] = box[i]
    <2>1. i # runs + 1
      BY RunsAssumption DEF BoxInv, Fresh, TypeOK, Serials
    <2>2. \A j \in Serials : j # runs + 1 => box'[j] = box[j]
      BY <1>4, CreatedBox DEF Created
    <2> QED
      BY <2>1, <2>2
  <1> QED
    BY <1>1, <1>2, <1>3, <1>4 DEF BoxChange

LEMMA SeenStep ==
    ASSUME IInv, [Next]_vars PROVE Seen'
  <1> SUFFICES ASSUME NEW p \in Procs, pc'[p] \in {"prime", "test"}
               PROVE  box'[reached'[p]].state \notin Unbooted
    BY DEF Seen
  <1>0. TypeOK /\ BoxInv /\ reached[p] \in Serials
    BY DEF IInv, TypeOK
  <1>1. ASSUME NEW i \in Serials, Reuse(p, i) \/ WaitSees(p, i)
        PROVE  box'[reached'[p]].state \notin Unbooted
    BY <1>0, <1>1 DEF Reuse, WaitSees, Sees, Ready, Unbooted, boxVars, TypeOK
  <1>2. CASE pc[p] \in {"prime", "test"} /\ reached'[p] = reached[p]
    BY <1>0, <1>2, ReadyOnce DEF IInv, Seen
  <1>3. CASE ~Moves(p)
    BY <1>0, <1>2, <1>3, OthersKept
  <1>4. CASE Moves(p)
    BY <1>0, <1>1, <1>2, <1>4
       DEF Moves, Advance, EnsureUp, TestsEnd, Killed, Unreachable, Inspect, Clean, RunStarts,
           RunFails, TimesOut, Catch, Prime, Teardown, Step, Goto, TypeOK
  <1> QED
    BY <1>3, <1>4

LEMMA GenesisStep ==
    ASSUME IInv, [Next]_vars PROVE PastGenesis'
  <1> SUFFICES ASSUME NEW p \in Procs, pc'[p] = "test", box'[reached'[p]].state = "ready"
               PROVE  box'[reached'[p]].primed
    BY DEF PastGenesis, Ready
  <1>0. TypeOK /\ BoxInv /\ reached[p] \in Serials
    BY DEF IInv, TypeOK
  <1>1. CASE ~Moves(p)
    <2>1. pc[p] = "test" /\ reached'[p] = reached[p]
      BY <1>0, <1>1, OthersKept
    <2>2. box[reached[p]].state \notin Unbooted
      BY <2>1 DEF IInv, Seen
    <2>3. Ready(reached[p]) /\ (box[reached[p]].primed => box'[reached[p]].primed)
      BY <1>0, <2>1, <2>2, ReadyOnce DEF Ready
    <2> QED
      BY <2>1, <2>3 DEF IInv, PastGenesis
  <1>2. CASE Prime(p)
    <2>1. pc[p] = "prime" /\ reached'[p] = reached[p]
      BY <1>2 DEF Prime, Step
    <2>2. pc'[p] # "warned"
      BY DEF TypeOK
    <2>3. PICK i \in Serials : Primed(i)
      BY <1>0, <1>2, <2>2 DEF Prime, Primed, Step, Goto, TypeOK
    <2>4. Ready(reached[p])
      BY <1>0, <2>1, <2>3, PrimedBox DEF Ready
    <2>5. i = reached[p]
      BY <1>0, <2>3, <2>4 DEF Primed, Ready, BoxInv, OnePort, Running
    <2> QED
      BY <1>0, <2>1, <2>3, <2>5, PrimedBox
  <1>3. CASE Moves(p) /\ ~Prime(p)
    BY <1>0, <1>3
       DEF Moves, Advance, EnsureUp, TestsEnd, Killed, Reuse, WaitSees, Unreachable, Inspect,
           Clean, RunStarts, RunFails, TimesOut, Catch, Teardown, Step, Goto, TypeOK
  <1> QED
    BY <1>1, <1>2, <1>3

-----------------------------------------------------------------------------
(* The theorems                                                            *)

LEMMA Invariance == Spec => []IInv
  <1>1. ASSUME IInv, [Next]_vars PROVE IInv'
    <2>1. TypeOK' /\ BoxInv'
      BY <1>1, TypeStep, BoxStep DEF IInv
    <2>2. NotRun' /\ NoRunningLeak'
      BY <1>1, NotRunStep, LeakStep DEF IInv
    <2>3. Held' /\ ForeignSpared' /\ Seen' /\ PastGenesis'
      BY <1>1, HeldStep, SparedStep, SeenStep, GenesisStep
    <2> QED
      BY <2>1, <2>2, <2>3 DEF IInv
  <1> QED
    BY <1>1, InitIInv, PTL DEF Spec

\* Every variable keeps to its type, through every interleaving of the processes,
\* the daemon and other shells.
THEOREM TypeCorrect == Spec => []TypeOK
  <1>1. IInv => TypeOK
    BY DEF IInv
  <1> QED
    BY <1>1, Invariance, PTL

\* ensureUp's catch and the task's teardown together leave nothing of an ended
\* task running, whether its node was seen, primed or neither, however many tasks
\* share a machine or a name, unless told to or docker refused the removal.
THEOREM TasksLeaveNothingRunning == Spec => []NoRunningLeak
  <1>1. IInv => NoRunningLeak
    BY DEF IInv
  <1> QED
    BY <1>1, Invariance, PTL

\* docker rm -f by name hits the remover's own container as long as none dies.
THEOREM ForeignAreSpared == Spec => []ForeignSpared
  <1>1. IInv => ForeignSpared
    BY DEF IInv
  <1> QED
    BY <1>1, Invariance, PTL

\* primeGenesis primes the node the tests then use, although it does not name it.
THEOREM TestsStartPastGenesis == Spec => []PastGenesis
  <1>1. IInv => PastGenesis
    BY DEF IInv
  <1> QED
    BY <1>1, Invariance, PTL
=============================================================================
