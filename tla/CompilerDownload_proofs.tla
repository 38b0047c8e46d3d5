------------------------ MODULE CompilerDownload_proofs ------------------------
(***************************************************************************)
(* What CompilerDownload promises, for any number of processes, files and  *)
(* faults: the final path is never partly written unless downloads         *)
(* overlap, and a call that runs alone repairs what it finds.              *)
(***************************************************************************)
EXTENDS CompilerDownload, TLAPS

\* The steps at which a process has begun to use the staging path.
Staging == Downloading \ {"clean"}

\* The two paths never name one file, nor a file yet to be created.
PathsApart ==
    /\ tmp <= files /\ final <= files
    /\ tmp # 0 => tmp # final

\* As long as no two downloads have overlapped, one process stages at a time,
\* writes to a file that is not the final one, and renames a whole one.
Staged ==
    ~overlapped =>
        /\ \A p, q \in Procs : pc[p] \in Staging /\ pc[q] \in Staging => p = q
        /\ \A p \in Procs : pc[p] = "stream" => fd[p] \notin {0, final}
        /\ \A p \in Procs : pc[p] = "rename" => In(tmp) # "part"
        /\ In(final) # "part"

\* What an undisturbed call knows at each of its steps.
OnTrack(p) ==
    /\ \A q \in Procs \ {p} : Resting(q)
    /\ pc[p] # "idle" /\ pc[p] # "discard"
    /\ pc[p] = "reload" => In(final) = "good"
    /\ pc[p] \in {"open", "stream"} => body[p] = "good"
    /\ pc[p] = "stream" => fd[p] = tmp /\ tmp # 0 /\ content[tmp] = "part" /\ writer[tmp] = p
    /\ pc[p] \in {"verify", "rename"} => tmp # 0 /\ content[tmp] = "good"
    /\ pc[p] = "load" => In(final) = "good"
    /\ pc[p] = "remove" => ~loads
    /\ pc[p] = "returned" => loads /\ In(final) = "good"
    /\ pc[p] = "threw" => ~loads /\ final = 0

Alone == \A p \in Procs : lone[p] => OnTrack(p)

IInv == TypeOK /\ PathsApart /\ Staged /\ Alone

-----------------------------------------------------------------------------
(* Initial states                                                          *)

LEMMA InitIInv == Init => IInv
  <1> SUFFICES ASSUME Init PROVE IInv
    OBVIOUS
  <1>0. 0 \in 0..MaxFiles /\ 0 \in 0..MaxFaults /\ "idle" \in Steps /\ "none" \in Contents
    BY BoundsAssumption DEF Steps, Contents
  <1>1. TypeOK
    BY <1>0 DEF Init, TypeOK
  <1>2. PathsApart
    BY DEF Init, PathsApart
  <1>3. Staged
    BY DEF Init, Staged, Staging, Downloading, In
  <1>4. Alone
    BY DEF Init, Alone
  <1> QED
    BY <1>1, <1>2, <1>3, <1>4 DEF IInv

-----------------------------------------------------------------------------
(* Types                                                                   *)

\* A step of a process keeps the types of what it does not write.
LEMMA GotoTyped ==
    ASSUME TypeOK, NEW p \in Procs, NEW step \in Steps, Goto(p, step)
    PROVE  pc' \in [Procs -> Steps]
  BY DEF Goto, TypeOK

\* A fault is counted, and no call is alone any more.
LEMMA FaultTyped ==
    ASSUME TypeOK, Fault
    PROVE  faults' \in 0..MaxFaults /\ lone' \in [Procs -> BOOLEAN] /\ overlapped' = overlapped
  BY BoundsAssumption DEF Fault, TypeOK

\* A stream leaves one of the known contents.
LEMMA WrittenTyped ==
    ASSUME TypeOK, NEW p \in Procs, fd[p] \in Files, NEW c \in Written(p)
    PROVE  c \in Contents
  BY DEF Written, TypeOK, Contents

LEMMA TypeStep == IInv /\ [Next]_vars => TypeOK'
  <1> SUFFICES ASSUME TypeOK, Staged, [Next]_vars PROVE TypeOK'
    BY DEF IInv
  <1> USE DEF pathVars, fileVars, procVars, history
  <1>1. ASSUME UNCHANGED vars PROVE TypeOK'
    BY <1>1 DEF TypeOK, vars
  <1> SUFFICES ASSUME UNCHANGED loads, Rot \/ \E p \in Procs : Call(p) \/ Download(p) \/ Crash(p)
               PROVE  TypeOK'
    BY <1>1 DEF Next
  <1>2. CASE Rot
    <2>1. content' \in [Files -> Contents]
      BY <1>2 DEF Rot, TypeOK, Contents
    <2> QED
      BY <1>2, <2>1, FaultTyped DEF Rot, TypeOK
  <1> SUFFICES ASSUME NEW p \in Procs, Call(p) \/ Download(p) \/ Crash(p) PROVE TypeOK'
    BY <1>2
  <1>3. CASE Call(p)
    <2>1. lone' \in [Procs -> BOOLEAN]
      <3>1. lone' = [q \in Procs |-> q = p /\ \A r \in Procs : Resting(r)]
        BY <1>3 DEF Call
      <3> QED
        BY <3>1, Zenon
    <2>2. pc' \in [Procs -> Steps]
      BY <1>3, GotoTyped DEF Call, Steps
    <2> QED
      BY <1>3, <2>1, <2>2 DEF Call, TypeOK
  <1>4. CASE Check(p) \/ Reload(p) \/ Drop(p) \/ Verify(p) \/ Discard(p) \/ Rename(p) \/ Load(p)
             \/ Remove(p)
    <2>1. pc' \in [Procs -> Steps]
      <3>1. \E step \in Steps : Goto(p, step)
        BY <1>4 DEF Check, Reload, Drop, Verify, Discard, Rename, Load, Remove, Step, Steps, Downloading
      <3> QED
        BY <3>1, GotoTyped
    <2>2. tmp' \in 0..MaxFiles /\ final' \in 0..MaxFiles
      BY <1>4, BoundsAssumption DEF Check, Reload, Drop, Verify, Discard, Rename, Load, Remove, TypeOK
    <2>3. UNCHANGED <<fileVars, fd, body, faults, history>>
      BY <1>4 DEF Check, Reload, Drop, Verify, Discard, Rename, Load, Remove
    <2> QED
      BY <2>1, <2>2, <2>3 DEF TypeOK
  <1>5. CASE Clean(p)
    <2>1. pc' \in [Procs -> Steps] /\ tmp' \in 0..MaxFiles /\ overlapped' \in BOOLEAN
      BY <1>5, BoundsAssumption, GotoTyped DEF Clean, Step, Steps, Downloading, TypeOK
    <2> QED
      BY <1>5, <2>1 DEF Clean, TypeOK
  <1>6. CASE Fetch(p)
    <2>1. pc' \in [Procs -> Steps]
      BY <1>6, GotoTyped DEF Fetch, Steps, Downloading
    <2>2. body' \in [Procs -> {"none", "good", "corrupt"}]
      BY <1>6 DEF Fetch, TypeOK
    <2>3. /\ faults' \in 0..MaxFaults /\ lone' \in [Procs -> BOOLEAN] /\ overlapped' = overlapped
      BY <1>6, FaultTyped DEF Fetch, TypeOK
    <2> QED
      BY <1>6, <2>1, <2>2, <2>3 DEF Fetch, TypeOK
  <1>7. CASE Open(p)
    <2>1. pc' \in [Procs -> Steps]
      BY <1>7, GotoTyped DEF Open, Step, Steps, Downloading
    <2>2. tmp' \in 0..MaxFiles /\ files' \in 0..MaxFiles /\ tmp' \in Files
      BY <1>7, BoundsAssumption DEF Open, TypeOK, Files
    <2>3. /\ fd' \in [Procs -> 0..MaxFiles]
          /\ content' \in [Files -> Contents] /\ writer' \in [Files -> Procs]
      BY <1>7, <2>2 DEF Open, TypeOK, Contents
    <2> QED
      BY <1>7, <2>1, <2>2, <2>3 DEF Open, TypeOK
  <1>8. CASE Stream(p)
    <2>1. pc' \in [Procs -> Steps] /\ fd' \in [Procs -> 0..MaxFiles]
      BY <1>8, GotoTyped, BoundsAssumption DEF Stream, Steps, Downloading, TypeOK
    <2>2. content' \in [Files -> Contents]
      <3>1. CASE fd[p] \in Files
        BY <1>8, <3>1, WrittenTyped DEF Stream, TypeOK
      <3>2. CASE fd[p] \notin Files
        BY <1>8, <3>2 DEF Stream, TypeOK
      <3> QED
        BY <3>1, <3>2
    <2>3. /\ faults' \in 0..MaxFaults /\ lone' \in [Procs -> BOOLEAN] /\ overlapped' = overlapped
      BY <1>8, FaultTyped DEF Stream, TypeOK
    <2> QED
      BY <1>8, <2>1, <2>2, <2>3 DEF Stream, TypeOK
  <1>9. CASE Crash(p)
    <2>1. pc' \in [Procs -> Steps] /\ fd' \in [Procs -> 0..MaxFiles]
      BY <1>9, GotoTyped, BoundsAssumption DEF Crash, Steps, TypeOK
    <2> QED
      BY <1>9, <2>1, FaultTyped DEF Crash, TypeOK
  <1> QED
    BY <1>3, <1>4, <1>5, <1>6, <1>7, <1>8, <1>9 DEF Download

-----------------------------------------------------------------------------
(* The paths                                                               *)

LEMMA PathsStep == IInv /\ [Next]_vars => PathsApart'
  <1> SUFFICES ASSUME TypeOK, PathsApart, [Next]_vars PROVE PathsApart'
    BY DEF IInv
  <1> USE DEF PathsApart, pathVars, fileVars, procVars, history
  <1>0. tmp \in Nat /\ final \in Nat /\ files \in Nat
    BY BoundsAssumption DEF TypeOK
  <1>1. CASE UNCHANGED <<tmp, final, files>>
    BY <1>1
  <1>2. ASSUME NEW p \in Procs, Drop(p) \/ Clean(p) \/ Discard(p) \/ Rename(p) \/ Remove(p)
        PROVE  PathsApart'
    BY <1>0, <1>2 DEF Drop, Clean, Discard, Rename, Remove
  <1>3. ASSUME NEW p \in Procs, Open(p) PROVE PathsApart'
    BY <1>0, <1>3 DEF Open
  <1> QED
    BY <1>1, <1>2, <1>3 DEF Next, vars, Rot, Call, Crash, Download, Check, Reload, Fetch, Stream,
                            Verify, Load

-----------------------------------------------------------------------------
(* Staging                                                                 *)

\* A step that writes no file and moves none keeps Staged, if the process does
\* not begin to stage, nor to stream or rename.
LEMMA QuietStep ==
    ASSUME TypeOK, Staged, NEW p \in Procs, NEW step \in Steps, Goto(p, step),
           step \in Staging => pc[p] \in Staging,
           step \notin {"stream", "rename"},
           overlapped' = overlapped, UNCHANGED <<pathVars, content, fd>>
    PROVE  Staged'
  BY DEF Staged, Goto, TypeOK, In, pathVars

LEMMA StagedStep == IInv /\ [Next]_vars => Staged'
  <1> SUFFICES ASSUME TypeOK, PathsApart, Staged, [Next]_vars PROVE Staged'
    BY DEF IInv
  <1> USE DEF pathVars, fileVars, procVars, history
  <1>0. /\ tmp \in Nat /\ final \in Nat /\ files \in Nat
        /\ pc \in [Procs -> Steps] /\ fd \in [Procs -> 0..MaxFiles]
        /\ content \in [Files -> Contents]
    BY BoundsAssumption DEF TypeOK
  <1>1. CASE UNCHANGED vars
    BY <1>1 DEF vars, Staged, In
  <1>2. CASE Rot
    <2>1. \A f \in Files : content'[f] = "part" => content[f] = "part"
      BY <1>0, <1>2 DEF Rot
    <2>2. In(tmp)' = "part" => In(tmp) = "part"
      BY <1>2, <2>1 DEF Rot, In, TypeOK, Files
    <2>3. In(final)' = "part" => In(final) = "part"
      BY <1>2, <2>1 DEF Rot, In, TypeOK, Files
    <2> QED
      BY <1>2, <2>2, <2>3 DEF Rot, Fault, Staged
  <1> SUFFICES ASSUME NEW p \in Procs, Call(p) \/ Download(p) \/ Crash(p) PROVE Staged'
    BY <1>1, <1>2 DEF Next
  <1> USE DEF Step
  <1>3. CASE Call(p) \/ Check(p) \/ Reload(p) \/ Load(p)
    <2>1. \E step \in Steps : /\ Goto(p, step) /\ step \notin {"stream", "rename"}
                              /\ step \in Staging => pc[p] \in Staging
      BY <1>3 DEF Call, Check, Reload, Load, Steps, Staging, Downloading
    <2>2. overlapped' = overlapped /\ UNCHANGED <<pathVars, content, fd>>
      BY <1>3 DEF Call, Check, Reload, Load
    <2> QED
      BY <2>1, <2>2, QuietStep
  <1>4. CASE Drop(p) \/ Remove(p)
    <2>1. /\ \A q \in Procs : pc'[q] \in Staging => pc'[q] = pc[q]
          /\ final' = 0 /\ UNCHANGED <<tmp, content, fd, overlapped>>
      BY <1>0, <1>4 DEF Drop, Remove, Goto, Staging, Downloading
    <2>2. "rename" \in Staging /\ "stream" \in Staging
      BY DEF Staging, Downloading
    <2>3. In(tmp)' = In(tmp) /\ In(final)' = "none"
      BY <2>1 DEF In
    <2> QED
      BY <2>1, <2>2, <2>3 DEF Staged
  <1>5. CASE Clean(p)
    <2>1. ASSUME ~overlapped' PROVE \A q \in Procs : pc'[q] \in Staging => q = p
      BY <1>0, <1>5, <2>1 DEF Clean, Goto, Staging
    <2>2. ASSUME ~overlapped'
          PROVE \A q \in Procs : pc'[q] \notin {"stream", "rename"}
      BY <1>0, <1>5, <2>1, <2>2 DEF Clean, Goto, Staging, Downloading
    <2>3. ~overlapped' => In(final)' # "part"
      BY <1>5 DEF Clean, Staged, In
    <2> QED
      BY <2>1, <2>2, <2>3 DEF Staged
  <1>6. CASE Fetch(p)
    <2>1. /\ overlapped' = overlapped
          /\ \E step \in {"open", "threw"} : Goto(p, step)
          /\ UNCHANGED <<pathVars, content, fd>> /\ pc[p] \in Staging
      BY <1>6 DEF Fetch, Fault, Staging, Downloading
    <2>2. {"open", "threw"} \subseteq Steps
      BY DEF Steps, Downloading
    <2> QED
      BY <2>1, <2>2, QuietStep
  <1>7. CASE Open(p)
    <2>1. /\ tmp' # 0 /\ tmp' # final /\ tmp' \in Nat /\ final' = final /\ overlapped' = overlapped
          /\ pc' = [pc EXCEPT ![p] = "stream"] /\ fd' = [fd EXCEPT ![p] = tmp']
          /\ content' = [content EXCEPT ![tmp'] = "part"] /\ pc[p] = "open"
      BY <1>0, <1>7 DEF Open, PathsApart, Goto
    <2>2. pc[p] \in Staging
      BY <2>1 DEF Staging, Downloading
    <2>3. ASSUME ~overlapped PROVE \A q \in Procs : pc'[q] \in Staging => q = p
      BY <1>0, <2>1, <2>2, <2>3 DEF Staged
    <2>4. "rename" \in Staging /\ "stream" \in Staging
      BY DEF Staging, Downloading
    <2>5. In(final)' = In(final)
      BY <1>0, <2>1 DEF In, TypeOK, Files
    <2> QED
      BY <1>0, <2>1, <2>3, <2>4, <2>5 DEF Staged
  <1>8. CASE Stream(p)
    <2>1. /\ pc[p] = "stream" /\ final' = final /\ tmp' = tmp /\ overlapped' = overlapped
          /\ \E step \in {"verify", "threw"} : pc' = [pc EXCEPT ![p] = step]
          /\ fd' = [fd EXCEPT ![p] = 0]
          /\ \A f \in Files : f # fd[p] => content'[f] = content[f]
      BY <1>0, <1>8 DEF Stream, Fault, Goto
    <2>2. pc[p] \in Staging /\ "rename" \in Staging /\ "stream" \in Staging
      BY <2>1 DEF Staging, Downloading
    <2>3. ASSUME ~overlapped PROVE \A q \in Procs : pc'[q] \in Staging => q = p
      BY <1>0, <2>1, <2>2, <2>3 DEF Staged
    <2>4. ASSUME ~overlapped PROVE \A q \in Procs : pc'[q] \notin {"stream", "rename"}
      BY <1>0, <2>1, <2>2, <2>3, <2>4
    <2>5. ~overlapped => In(final)' = In(final)
      BY <1>0, <2>1 DEF In, TypeOK, Files, Staged
    <2> QED
      BY <2>1, <2>3, <2>4, <2>5 DEF Staged
  <1>9. CASE Verify(p)
    <2>1. pc[p] \in Staging /\ UNCHANGED <<pathVars, content, fd, overlapped>>
      BY <1>0, <1>9 DEF Verify, Staging, Downloading
    <2>2. CASE Goto(p, "threw") \/ Goto(p, "discard")
      <3>1. {"threw", "discard"} \subseteq Steps
        BY DEF Steps, Downloading
      <3> QED
        BY <2>1, <2>2, <3>1, QuietStep
    <2>3. CASE Goto(p, "rename") /\ In(tmp) = "good"
      <3>1. ASSUME ~overlapped PROVE \A q \in Procs : pc'[q] \in Staging => q = p
        BY <1>0, <2>1, <2>3, <3>1 DEF Staged, Goto
      <3>2. In(tmp)' = "good" /\ In(final)' = In(final)
        BY <2>1, <2>3 DEF In
      <3>3. "rename" \in Staging /\ "stream" \in Staging
        BY DEF Staging, Downloading
      <3>4. ASSUME ~overlapped PROVE \A q \in Procs : pc'[q] # "stream"
        BY <1>0, <2>3, <3>1, <3>3, <3>4 DEF Goto
      <3> QED
        BY <2>1, <3>1, <3>2, <3>4 DEF Staged
    <2> QED
      BY <1>9, <2>2, <2>3 DEF Verify
  <1>10. CASE Discard(p)
    <2>1. /\ pc' = [pc EXCEPT ![p] = "threw"] /\ tmp' = 0
          /\ UNCHANGED <<final, content, fd, overlapped>>
      BY <1>10 DEF Discard, Goto
    <2> QED
      BY <1>0, <2>1 DEF Staged, Staging, Downloading, In
  <1>11. CASE Rename(p)
    <2>1. pc[p] = "rename" /\ pc[p] \in Staging /\ "stream" \in Staging /\ "rename" \in Staging
      BY <1>11 DEF Rename, Staging, Downloading
    <2>2. CASE tmp = 0
      BY <1>0, <1>11, <2>2 DEF Rename, Goto, Staged, Staging, Downloading, In
    <2>3. CASE tmp # 0
      <3>1. /\ pc' = [pc EXCEPT ![p] = "load"] /\ final' = tmp
            /\ UNCHANGED <<content, fd, overlapped>>
        BY <1>11, <2>3 DEF Rename, Goto
      <3>2. ASSUME ~overlapped PROVE \A q \in Procs : pc'[q] \in Staging => q = p
        BY <1>0, <2>1, <3>1, <3>2 DEF Staged
      <3>3. ~overlapped => In(final)' # "part"
        BY <2>1, <3>1 DEF In, Staged
      <3> QED
        BY <1>0, <2>1, <3>1, <3>2, <3>3 DEF Staged
    <2> QED
      BY <2>2, <2>3
  <1>12. CASE Crash(p)
    <2>1. /\ pc' = [pc EXCEPT ![p] = "idle"] /\ fd' = [fd EXCEPT ![p] = 0]
          /\ UNCHANGED <<tmp, final, content, overlapped>>
      BY <1>12 DEF Crash, Fault, Goto
    <2> QED
      BY <1>0, <2>1 DEF Staged, Staging, Downloading, In
  <1> QED
    BY <1>3, <1>4, <1>5, <1>6, <1>7, <1>8, <1>9, <1>10, <1>11, <1>12 DEF Download

-----------------------------------------------------------------------------
(* Calls that run alone                                                    *)

\* Another process's step, or a fault, leaves no other call alone.
LEMMA OthersStep ==
    ASSUME TypeOK, Alone, NEW p \in Procs, Call(p) \/ Download(p) \/ Crash(p),
           NEW q \in Procs \ {p}
    PROVE  ~lone'[q]
  <1>1. CASE Call(p)
    BY <1>1 DEF Call
  <1>2. CASE ~Call(p)
    <2>1. ~Resting(p)
      BY <1>2 DEF Download, Crash, Resting, Check, Reload, Drop, Clean, Fetch, Open, Stream,
                  Verify, Discard, Rename, Load, Remove, Step
    <2>2. ~lone[q]
      BY <2>1 DEF Alone, OnTrack
    <2>3. lone' = lone \/ lone' = [r \in Procs |-> FALSE]
      BY <1>2 DEF Download, Crash, Check, Reload, Drop, Clean, Fetch, Open, Stream,
                  Verify, Discard, Rename, Load, Remove, Fault, history
    <2> QED
      BY <2>2, <2>3
  <1> QED
    BY <1>1, <1>2

LEMMA AloneStep == IInv /\ [Next]_vars => Alone'
  <1> SUFFICES ASSUME TypeOK, PathsApart, Alone, [Next]_vars PROVE Alone'
    BY DEF IInv
  <1> USE DEF pathVars, fileVars, procVars, history
  <1>0. /\ tmp \in Nat /\ final \in Nat /\ files \in Nat
        /\ tmp \in 0..MaxFiles /\ final \in 0..MaxFiles
        /\ pc \in [Procs -> Steps] /\ fd \in [Procs -> 0..MaxFiles]
        /\ content \in [Files -> Contents] /\ writer \in [Files -> Procs]
        /\ body \in [Procs -> {"none", "good", "corrupt"}] /\ lone \in [Procs -> BOOLEAN]
        /\ loads \in BOOLEAN
    BY BoundsAssumption DEF TypeOK
  <1>1. CASE UNCHANGED vars
    BY <1>1 DEF vars, Alone, OnTrack, Resting, In
  <1>2. CASE Rot
    BY <1>2 DEF Rot, Fault, Alone
  <1> SUFFICES ASSUME loads' = loads, NEW p \in Procs, Call(p) \/ Download(p) \/ Crash(p)
               PROVE  Alone'
    BY <1>1, <1>2 DEF Next
  <1> SUFFICES ASSUME lone'[p] PROVE OnTrack(p)'
    BY OthersStep DEF Alone
  <1>3. CASE Call(p)
    <2>1. \A q \in Procs : Resting(q)
      BY <1>0, <1>3 DEF Call
    <2>2. \A q \in Procs \ {p} : pc'[q] = pc[q]
      BY <1>0, <1>3 DEF Call, Goto
    <2> QED
      BY <1>0, <1>3, <2>1, <2>2 DEF Call, Goto, OnTrack, Resting
  <1> SUFFICES ASSUME Download(p) \/ Crash(p), ~Call(p) PROVE OnTrack(p)'
    BY <1>3
  <1>4. ASSUME Fault PROVE FALSE
    BY <1>4 DEF Fault
  <1>5. lone' = lone /\ lone[p] /\ OnTrack(p)
    BY <1>4 DEF Alone, Download, Crash, Check, Reload, Drop, Clean, Fetch, Open, Stream,
                Verify, Discard, Rename, Load, Remove
  <1>6. \A q \in Procs \ {p} : Resting(q)'
    <2>1. \E step \in Steps : Goto(p, step)
      BY <1>4 DEF Download, Crash, Check, Reload, Drop, Clean, Fetch, Open, Stream, Verify,
                  Discard, Rename, Load, Remove, Step, Steps, Downloading
    <2> QED
      BY <1>0, <1>5, <2>1 DEF OnTrack, Resting, Goto
  <1> USE DEF Step, Goto
  <1>7. CASE Check(p) \/ Reload(p) \/ Drop(p)
    BY <1>0, <1>5, <1>6, <1>7 DEF Check, Reload, Drop, OnTrack, In, Outcomes
  <1>8. CASE Clean(p) \/ Fetch(p)
    BY <1>0, <1>4, <1>5, <1>6, <1>8 DEF Clean, Fetch, OnTrack, In
  <1>9. CASE Open(p)
    <2>1. /\ pc'[p] = "stream" /\ body' = body /\ body[p] = "good"
          /\ fd'[p] = tmp' /\ tmp' # 0 /\ tmp' \in Files
      <3>1. pc'[p] = "stream" /\ body' = body /\ fd'[p] = tmp' /\ pc[p] = "open"
        BY <1>0, <1>9 DEF Open
      <3>2. body[p] = "good"
        BY <1>5, <3>1 DEF OnTrack
      <3>3. tmp' # 0 /\ tmp' \in Files
        BY <1>0, <1>9, BoundsAssumption DEF Open, Files
      <3> QED
        BY <3>1, <3>2, <3>3
    <2>2. content'[tmp'] = "part" /\ writer'[tmp'] = p
      BY <1>0, <1>9, <2>1 DEF Open
    <2> QED
      BY <1>6, <2>1, <2>2 DEF OnTrack
  <1>10. CASE Stream(p)
    <2>1. pc[p] = "stream" /\ fd[p] = tmp /\ tmp \in Files /\ tmp # 0 /\ tmp' = tmp
      BY <1>0, <1>5, <1>10 DEF Stream, OnTrack, Files
    <2>2. Written(p) = {"good"}
      BY <1>5, <2>1 DEF OnTrack, Written
    <2>3. pc'[p] = "verify" /\ content' = [content EXCEPT ![fd[p]] = "good"]
      BY <1>0, <1>4, <1>10, <2>2 DEF Stream
    <2> QED
      BY <1>0, <1>6, <2>1, <2>3 DEF OnTrack
  <1>11. CASE Verify(p) \/ Discard(p) \/ Rename(p)
    BY <1>0, <1>5, <1>6, <1>11 DEF Verify, Discard, Rename, OnTrack, In
  <1>12. CASE Load(p) \/ Remove(p)
    BY <1>0, <1>5, <1>6, <1>12 DEF Load, Remove, OnTrack, In, Outcomes
  <1> QED
    BY <1>4, <1>7, <1>8, <1>9, <1>10, <1>11, <1>12 DEF Download, Crash

-----------------------------------------------------------------------------
(* The theorems                                                            *)

THEOREM Invariance == Spec => []IInv
  <1>1. IInv /\ [Next]_vars => IInv'
    BY TypeStep, PathsStep, StagedStep, AloneStep DEF IInv
  <1> QED
    BY InitIInv, <1>1, PTL DEF Spec

\* Every variable of the staging keeps its type, however processes interleave.
THEOREM TypeCorrect == Spec => []TypeOK
  <1>1. IInv => TypeOK
    BY DEF IInv
  <1> QED
    BY Invariance, <1>1, PTL

\* Wherever processes crash, the final path names no part as long as no two
\* downloads have overlapped (downloader.js, the staging of downloadInner).
THEOREM FinalStaysWhole == Spec => []FinalNeverPartial
  <1>1. IInv => FinalNeverPartial
    BY DEF IInv, Staged, FinalNeverPartial
  <1> QED
    BY Invariance, <1>1, PTL

\* Whatever it finds at either path, a call of getCompiler that runs alone and
\* meets no fault ends with the verified build, or clean if that does not load.
THEOREM LoneCallsHeal == Spec => []LoneCallHeals
  <1>1. IInv => LoneCallHeals
    BY DEF IInv, Alone, OnTrack, Resting, LoneCallHeals
  <1> QED
    BY Invariance, <1>1, PTL
=============================================================================
