--------------------------- MODULE CompilerDownload ---------------------------
(***************************************************************************)
(* getCompiler and downloadInner of compile/downloader.js: processes that  *)
(* share one cache directory stage one tron-solc build in it.              *)
(*                                                                         *)
(* Within a process the in-flight promise lets one download of a version   *)
(* run at a time, whatever the number of callers.  Processes interleave at *)
(* every file operation.  A path names a file, a file keeps its contents   *)
(* through a rename, and a stream writes to the file it has opened.        *)
(***************************************************************************)
EXTENDS Integers

CONSTANTS
    Procs,      \* processes sharing the cache directory
    MaxFiles,   \* bound: files ever created
    MaxFaults   \* bound: crashes, bad bodies, failed exchanges and disk errors

ASSUME BoundsAssumption == MaxFiles \in Nat \ {0} /\ MaxFaults \in Nat

VARIABLES
    loads,      \* the build of the manifest loads and reports its version
    tmp, final, \* the file at tmpPath and at finalPath; 0: none
    content,    \* content[f]: what is in file f
    writer,     \* writer[f]: who has truncated f last
    files,      \* files created so far
    pc,         \* what each process does next
    fd,         \* fd[p]: the file p's stream writes to
    body,       \* body[p]: what the mirror sends p
    faults,     \* faults so far
    \* history, read by properties only
    overlapped, \* two processes have been downloading at once
    lone        \* lone[p]: nobody else ran and nothing failed during p's call

pathVars == <<tmp, final>>
fileVars == <<content, writer, files>>
procVars == <<pc, fd, body>>
history == <<overlapped, lone>>
vars == <<loads, pathVars, fileVars, procVars, faults, history>>

Files == 1..MaxFiles
Contents == {"none", "part", "good", "corrupt"}
Downloading == {"clean", "fetch", "open", "stream", "verify", "discard", "rename", "load", "remove"}
Steps == {"idle", "check", "reload", "drop", "returned", "threw"} \cup Downloading

In(path) == IF path = 0 THEN "none" ELSE content[path]

\* The outcomes of loadAndCheckVersion: a corrupt file may still load and report
\* the version, a partial one does not.
Outcomes(path) ==
    CASE In(path) = "good" -> {loads}
      [] In(path) = "corrupt" -> BOOLEAN
      [] OTHER -> {FALSE}

Init ==
    /\ loads \in BOOLEAN
    /\ tmp = 0 /\ final = 0 /\ files = 0
    /\ content = [f \in Files |-> "none"]
    /\ writer \in [Files -> Procs] /\ \A f, g \in Files : writer[f] = writer[g]
    /\ pc = [p \in Procs |-> "idle"]
    /\ fd = [p \in Procs |-> 0]
    /\ body = [p \in Procs |-> "none"]
    /\ faults = 0 /\ overlapped = FALSE /\ lone = [p \in Procs |-> FALSE]

Resting(p) == pc[p] \in {"idle", "returned", "threw"}
Goto(p, step) == pc' = [pc EXCEPT ![p] = step]
Step(p, from, to) == pc[p] = from /\ Goto(p, to)

\* Something goes wrong, which no call running meanwhile has to survive.
Fault ==
    /\ faults < MaxFaults /\ faults' = faults + 1
    /\ lone' = [p \in Procs |-> FALSE]
    /\ UNCHANGED overlapped

-----------------------------------------------------------------------------
(* getCompiler: no download of this process is in flight                   *)

Call(p) ==
    /\ Resting(p)
    /\ Goto(p, "check")
    /\ lone' = [q \in Procs |-> q = p /\ \A r \in Procs : Resting(r)]
    /\ UNCHANGED <<pathVars, fileVars, fd, body, faults, overlapped>>

-----------------------------------------------------------------------------
(* downloadInner                                                           *)

CheckExistsOnly(p) ==
    /\ Step(p, "check", IF final = 0 THEN "clean" ELSE "reload")
    /\ UNCHANGED <<pathVars, fileVars, fd, body, faults, history>>

\* The file is there and has the manifest's digest, or not.
Check(p) ==
    /\ Step(p, "check", CASE In(final) = "none" -> "clean"
                          [] In(final) = "good" -> "reload"
                          [] OTHER -> "drop")
    /\ UNCHANGED <<pathVars, fileVars, fd, body, faults, history>>

\* loadAndCheckVersion of the cached file.
Reload(p) ==
    /\ \E ok \in Outcomes(final) : Step(p, "reload", IF ok THEN "returned" ELSE "drop")
    /\ UNCHANGED <<pathVars, fileVars, fd, body, faults, history>>

Drop(p) ==
    /\ Step(p, "drop", "clean")
    /\ final' = 0
    /\ UNCHANGED <<tmp, fileVars, fd, body, faults, history>>

\* Remove the leftover of an interrupted download.
Clean(p) ==
    /\ Step(p, "clean", "fetch")
    /\ tmp' = 0
    /\ overlapped' = (overlapped \/ \E q \in Procs \ {p} : pc[q] \in Downloading)
    /\ UNCHANGED <<final, fileVars, fd, body, faults, lone>>

\* The mirror answers with the build, with something else, or with an error.
Fetch(p) ==
    /\ pc[p] = "fetch"
    /\ \/ /\ Goto(p, "open") /\ body' = [body EXCEPT ![p] = "good"]
          /\ UNCHANGED <<faults, history>>
       \/ Fault /\ Goto(p, "open") /\ body' = [body EXCEPT ![p] = "corrupt"]
       \/ Fault /\ Goto(p, "threw") /\ UNCHANGED body
    /\ UNCHANGED <<pathVars, fileVars, fd>>

OpenFinal(p) ==
    /\ Step(p, "open", "stream")
    /\ files < MaxFiles
    /\ files' = files + 1 /\ tmp' = files' /\ final' = files'
    /\ fd' = [fd EXCEPT ![p] = files']
    /\ content' = [content EXCEPT ![files'] = "part"]
    /\ writer' = [writer EXCEPT ![files'] = p]
    /\ UNCHANGED <<body, faults, history>>

\* createWriteStream creates the file, or truncates the one that is there.
Open(p) ==
    /\ Step(p, "open", "stream")
    /\ \/ tmp # 0 /\ UNCHANGED <<tmp, files>>
       \/ tmp = 0 /\ files < MaxFiles /\ files' = files + 1 /\ tmp' = files'
    /\ fd' = [fd EXCEPT ![p] = tmp']
    /\ content' = [content EXCEPT ![tmp'] = "part"]
    /\ writer' = [writer EXCEPT ![tmp'] = p]
    /\ UNCHANGED <<final, body, faults, history>>

\* What may be in its file once p has written all of its body: the body, with
\* gaps if another has truncated the file since, or mixed with another's.
Written(p) ==
    LET f == fd[p]
    IN IF body[p] = "corrupt" THEN {"corrupt"}
       ELSE IF writer[f] = p THEN {"good"} \cup ({content[f]} \ {"part"})
       ELSE {content[f]}

\* pipeline resolves, or rejects and leaves a part behind.
Stream(p) ==
    /\ pc[p] = "stream"
    /\ fd' = [fd EXCEPT ![p] = 0]
    /\ \/ /\ Goto(p, "verify")
          /\ \E c \in Written(p) : content' = [content EXCEPT ![fd[p]] = c]
          /\ UNCHANGED <<faults, history>>
       \/ Fault /\ Goto(p, "threw") /\ UNCHANGED content
    /\ UNCHANGED <<pathVars, writer, files, body>>

\* The digest of what is at tmpPath now; reading a path with no file throws.
Verify(p) ==
    /\ Step(p, "verify", CASE In(tmp) = "none" -> "threw"
                           [] In(tmp) = "good" -> "rename"
                           [] OTHER -> "discard")
    /\ UNCHANGED <<pathVars, fileVars, fd, body, faults, history>>

Discard(p) ==
    /\ Step(p, "discard", "threw")
    /\ tmp' = 0
    /\ UNCHANGED <<final, fileVars, fd, body, faults, history>>

\* rename(2) takes along whatever file is at tmpPath now.
Rename(p) ==
    /\ pc[p] = "rename"
    /\ IF tmp = 0 THEN Goto(p, "threw") /\ UNCHANGED pathVars
       ELSE Goto(p, "load") /\ final' = tmp /\ tmp' = 0
    /\ UNCHANGED <<fileVars, fd, body, faults, history>>

\* loadAndCheckVersion of the new file.
Load(p) ==
    /\ \E ok \in Outcomes(final) : Step(p, "load", IF ok THEN "returned" ELSE "remove")
    /\ UNCHANGED <<pathVars, fileVars, fd, body, faults, history>>

Remove(p) ==
    /\ Step(p, "remove", "threw")
    /\ final' = 0
    /\ UNCHANGED <<tmp, fileVars, fd, body, faults, history>>

-----------------------------------------------------------------------------
(* Crashes and the disk                                                    *)

Crash(p) ==
    /\ ~Resting(p)
    /\ Fault
    /\ Goto(p, "idle") /\ fd' = [fd EXCEPT ![p] = 0]
    /\ UNCHANGED <<pathVars, fileVars, body>>

\* A file at finalPath goes bad.
Rot ==
    /\ In(final) = "good"
    /\ Fault
    /\ content' = [content EXCEPT ![final] = "corrupt"]
    /\ UNCHANGED <<pathVars, writer, files, procVars>>

Download(p) ==
    \/ Check(p) \/ Reload(p) \/ Drop(p)
    \/ Clean(p) \/ Fetch(p) \/ Open(p) \/ Stream(p)
    \/ Verify(p) \/ Discard(p) \/ Rename(p) \/ Load(p) \/ Remove(p)

Next ==
    /\ UNCHANGED loads
    /\ Rot \/ \E p \in Procs : Call(p) \/ Download(p) \/ Crash(p)

Spec == Init /\ [][Next]_vars

-----------------------------------------------------------------------------
(* Properties                                                              *)

\* Every variable ranges over its type.
TypeOK ==
    /\ loads \in BOOLEAN
    /\ tmp \in 0..MaxFiles /\ final \in 0..MaxFiles /\ files \in 0..MaxFiles
    /\ content \in [Files -> Contents]
    /\ writer \in [Files -> Procs]
    /\ pc \in [Procs -> Steps]
    /\ fd \in [Procs -> 0..MaxFiles]
    /\ body \in [Procs -> {"none", "good", "corrupt"}]
    /\ faults \in 0..MaxFaults
    /\ overlapped \in BOOLEAN /\ lone \in [Procs -> BOOLEAN]

\* As long as no two processes have downloaded at once, the final path never
\* names a file that is partly written, wherever a process crashes ("the final
\* path is never partially written", the header of downloader.js).
FinalNeverPartial == ~overlapped => In(final) # "part"

\* Whatever crashed processes, failed exchanges and the disk have left at either
\* path, one call that runs alone and without a fault repairs it: it returns with
\* the verified build at the final path, or throws and leaves nothing there if the
\* manifest's build does not load ("so a retry doesn't get stuck", line 138).
LoneCallHeals ==
    \A p \in Procs : lone[p] /\ Resting(p) =>
        IF loads THEN pc[p] = "returned" /\ In(final) = "good"
                 ELSE pc[p] = "threw" /\ final = 0
=============================================================================
