--------------------------- MODULE CompilerManifest ---------------------------
(***************************************************************************)
(* loadManifest and resolveBuild of compile/manifest.js: processes that    *)
(* share one cache directory look up tron-solc versions in the mirror's    *)
(* list.json, of which they keep a copy.                                   *)
(*                                                                         *)
(* Within a process a version is looked up by one call at a time           *)
(* (getCompiler coalesces them) and all of its calls share one fetch.      *)
(* Processes interleave at every file operation.  The mirror's list only   *)
(* grows: text n names the versions 1 to n, and is longer than the ones    *)
(* before it.  A path names a file, which keeps its contents when renamed. *)
(***************************************************************************)
EXTENDS Integers

CONSTANTS
    Procs,        \* processes sharing the cache directory
    MaxPublished, \* bound: texts the mirror comes to publish
    MaxCrashes    \* bound: processes killed

ASSUME ManifestAssumption == MaxPublished \in Nat \ {0} /\ MaxCrashes \in Nat

VARIABLES
    published,   \* the mirror's text
    tmp, list,   \* what is in list.json.tmp and in list.json
    young,       \* list.json was written less than ttlMs ago
    fetching,    \* fetching[p]: what the promise in _inFlight does next
    text,        \* what it has fetched
    fd,          \* where the file is that it has open: the path, gone, or none
    call,        \* call[p][v]: p's call for version v
    crashes,
    overlapped   \* history: two processes have been writing at once

fileVars == <<tmp, list, young>>
fetchVars == <<fetching, text, fd>>
manifestVars == <<published, fileVars, fetchVars, call, crashes, overlapped>>

Versions == 1..MaxPublished
None == -1               \* no file
Empty == 0               \* truncated
Mixed == MaxPublished + 1 \* a text over a longer one
Writing == {"write", "rename"}

\* What a call does next, whether it has asked for a refresh, the text it was
\* given; and as history the mirror's text and whether there was a readable copy
\* when it began, and whether its refresh joined a fetch already answered, or failed.
Call == [at : {"idle", "load", "wait", "find", "found", "invalid", "missing", "threw"}, forced : BOOLEAN,
         given : {0} \cup Versions, since : {0} \cup Versions, had : BOOLEAN, excused : BOOLEAN]
Idle == [at |-> "idle", forced |-> FALSE, given |-> 0, since |-> 0, had |-> FALSE, excused |-> FALSE]
Ended(c) == c.at \in {"idle", "found", "invalid", "missing", "threw"}

ManifestInit ==
    /\ published = 1
    /\ tmp = None /\ list = None /\ young = FALSE
    /\ fetching = [p \in Procs |-> "none"]
    /\ text = [p \in Procs |-> 0] /\ fd = [p \in Procs |-> "none"]
    /\ call = [p \in Procs |-> [v \in Versions |-> Idle]]
    /\ crashes = 0 /\ overlapped = FALSE

\* readCached: what does not parse counts as no copy.
Readable == list \in Versions

-----------------------------------------------------------------------------
(* A call                                                                  *)

\* p's call for v goes on as c.
Becomes(p, v, c) == call' = [call EXCEPT ![p][v] = IF Ended(c) THEN [Idle EXCEPT !.at = c.at] ELSE c]

\* resolveBuild begins, for each of some versions.
Resolve(p, wanted) ==
    /\ \A v \in wanted : Ended(call[p][v])
    /\ call' = [call EXCEPT ![p] = [v \in Versions |->
                   IF v \in wanted THEN [Idle EXCEPT !.at = "load", !.since = published, !.had = Readable]
                   ELSE @[v]]]
    /\ UNCHANGED <<published, fileVars, fetchVars, crashes, overlapped>>

\* The calls' answers have been taken.
Answered(p) == call' = [call EXCEPT ![p] = [v \in Versions |-> Idle]]

\* loadManifest: a young copy will do, unless a refresh is asked for ...
UseCopy(p, v) ==
    /\ call[p][v].at = "load"
    /\ ~call[p][v].forced /\ Readable /\ young
    /\ Becomes(p, v, [call[p][v] EXCEPT !.at = "find", !.given = list])
    /\ UNCHANGED <<published, fileVars, fetchVars, crashes, overlapped>>

AwaitUnstarted(p, v) ==
    /\ call[p][v].at = "load"
    /\ call[p][v].forced \/ ~Readable \/ ~young
    /\ Becomes(p, v, [call[p][v] EXCEPT !.at = "wait", !.excused = fetching[p] \notin {"none", "fetch"}])
    /\ fetching' = [fetching EXCEPT ![p] = IF @ = "none" /\ ~call[p][v].forced THEN "fetch" ELSE @]
    /\ UNCHANGED <<published, fileVars, text, fd, crashes, overlapped>>

\* ... or else the fetch under way, or a new one.
AwaitFetch(p, v) ==
    /\ call[p][v].at = "load"
    /\ call[p][v].forced \/ ~Readable \/ ~young
    /\ Becomes(p, v, [call[p][v] EXCEPT !.at = "wait", !.excused = fetching[p] \notin {"none", "fetch"}])
    /\ fetching' = [fetching EXCEPT ![p] = IF @ = "none" THEN "fetch" ELSE @]
    /\ UNCHANGED <<published, fileVars, text, fd, crashes, overlapped>>

FindOnce(p, v) ==
    /\ call[p][v].at = "find"
    /\ Becomes(p, v, [call[p][v] EXCEPT !.at = IF v <= call[p][v].given THEN "found" ELSE "missing"])
    /\ UNCHANGED <<published, fileVars, fetchVars, crashes, overlapped>>

FindStubborn(p, v) ==
    /\ call[p][v].at = "find"
    /\ Becomes(p, v, [call[p][v] EXCEPT !.at = IF v <= call[p][v].given THEN "found" ELSE "load", !.forced = TRUE])
    /\ UNCHANGED <<published, fileVars, fetchVars, crashes, overlapped>>

\* A version that is absent is looked for once more, in a refresh.  An entry
\* whose sha256 is none is refused.
Outcomes(c, v) ==
    IF v <= c.given THEN {"found", "invalid"} ELSE IF c.forced THEN {"missing"} ELSE {"load"}

Find(p, v) ==
    LET c == call[p][v] IN
    /\ c.at = "find"
    /\ \E how \in Outcomes(c, v) :
          Becomes(p, v, [c EXCEPT !.at = how, !.forced = @ \/ how = "load"])
    /\ UNCHANGED <<published, fileVars, fetchVars, crashes, overlapped>>

-----------------------------------------------------------------------------
(* The fetch                                                               *)

\* What the promise gives to everyone who awaits it; _inFlight is cleared.
Settle(p, c, open) ==
    /\ fetching' = [fetching EXCEPT ![p] = "none"]
    /\ fd' = [open EXCEPT ![p] = "none"] /\ text' = [text EXCEPT ![p] = 0]
    /\ call' = [call EXCEPT ![p] = [v \in Versions |-> IF @[v].at = "wait" THEN c[v] ELSE @[v]]]

Given(p, n) == [v \in Versions |-> [call[p][v] EXCEPT !.at = "find", !.given = n]]
Thrown == [v \in Versions |-> [Idle EXCEPT !.at = "threw"]]
Excused(c) == [v \in Versions |-> [c[v] EXCEPT !.excused = TRUE]]

FailBare(p) == Settle(p, Thrown, fd)

\* Any failure, of the exchange or of the files, is made up for by a copy of any age.
Fail(p) == Settle(p, IF Readable THEN Excused(Given(p, list)) ELSE Thrown, fd)

\* fetchUpstream.
Fetch(p) ==
    /\ fetching[p] = "fetch"
    /\ \/ /\ fetching' = [fetching EXCEPT ![p] = "open"]
          /\ text' = [text EXCEPT ![p] = published]
          /\ UNCHANGED <<fd, call>>
       \/ Fail(p)
    /\ UNCHANGED <<published, fileVars, crashes, overlapped>>

Truncate(p, path) ==
    /\ fetching[p] = "open"
    /\ fetching' = [fetching EXCEPT ![p] = "write"]
    /\ fd' = [fd EXCEPT ![p] = path]
    /\ overlapped' = (overlapped \/ \E q \in Procs \ {p} : fetching[q] \in Writing)
    /\ UNCHANGED <<published, text, call, crashes>>

OpenInPlace(p) == Truncate(p, "list") /\ list' = Empty /\ young' = TRUE /\ UNCHANGED tmp

\* writeCache: writeFileSync truncates the file at the staging path, if any ...
Open(p) == Truncate(p, "tmp") /\ tmp' = Empty /\ UNCHANGED <<list, young>>

\* ... and writes the text from the start, over what another process has
\* written since: a longer one leaves its tail behind.  It may fail for want of
\* space; a directory or a file that cannot be opened leaves what a failed
\* exchange does.
Over(p, written) == IF written > text[p] THEN Mixed ELSE text[p]

Write(p) ==
    /\ fetching[p] = "write"
    /\ \/ /\ fetching' = [fetching EXCEPT ![p] = "rename"]
          /\ tmp' = IF fd[p] = "tmp" THEN Over(p, tmp) ELSE tmp
          /\ list' = IF fd[p] = "list" THEN Over(p, list) ELSE list
          /\ young' = (young \/ fd[p] = "list")
          /\ UNCHANGED <<text, fd, call>>
       \/ UNCHANGED fileVars /\ Fail(p)
    /\ UNCHANGED <<published, crashes, overlapped>>

\* Who has the file open goes on writing to it under its new name, or none.
Moved(q) == CASE fd[q] = "tmp" -> "list" [] fd[q] = "list" -> "gone" [] OTHER -> fd[q]

\* The rename publishes the file at the staging path, whoever writes to it,
\* and fails when another process has renamed it.
Rename(p) ==
    /\ fetching[p] = "rename"
    /\ IF tmp # None
       THEN /\ list' = tmp /\ tmp' = None /\ young' = TRUE
            /\ Settle(p, Given(p, text[p]), [q \in Procs |-> Moved(q)])
       ELSE UNCHANGED fileVars /\ Fail(p)
    /\ UNCHANGED <<published, crashes, overlapped>>

-----------------------------------------------------------------------------
(* The surroundings                                                        *)

Publish ==
    /\ published < MaxPublished /\ published' = published + 1
    /\ UNCHANGED <<fileVars, fetchVars, call, crashes, overlapped>>

\* The ttl goes by.
Age ==
    /\ young /\ young' = FALSE
    /\ UNCHANGED <<published, tmp, list, fetchVars, call, crashes, overlapped>>

\* What a killed process leaves behind is its files.
Kill(p) ==
    /\ crashes < MaxCrashes /\ crashes' = crashes + 1
    /\ fetching' = [fetching EXCEPT ![p] = "none"]
    /\ fd' = [fd EXCEPT ![p] = "none"] /\ text' = [text EXCEPT ![p] = 0]
    /\ Answered(p)
    /\ UNCHANGED <<published, fileVars, overlapped>>

Progress(p) ==
    \/ \E v \in Versions : UseCopy(p, v) \/ AwaitFetch(p, v) \/ Find(p, v)
    \/ Fetch(p) \/ Open(p) \/ Write(p) \/ Rename(p)

-----------------------------------------------------------------------------
(* Properties                                                              *)

ManifestTypeOK ==
    /\ published \in Versions
    /\ {tmp, list} \subseteq Versions \cup {None, Empty, Mixed} /\ young \in BOOLEAN
    /\ fetching \in [Procs -> {"none", "fetch", "open"} \cup Writing]
    /\ text \in [Procs -> {0} \cup Versions] /\ fd \in [Procs -> {"none", "tmp", "list", "gone"}]
    /\ call \in [Procs -> [Versions -> Call]]
    /\ \A p \in Procs : fetching[p] = "none" <=> \A v \in Versions : call[p][v].at # "wait"

\* The copy is always a whole text, whatever is killed in the middle of writing
\* it, as long as two processes do not write at once.  When they do it may be
\* neither's, though writeCache says "we'd just end up with one process's copy".
LoneWriterKeepsCopy == ~overlapped => list = None \/ Readable

Turns(p, v, how) == call[p][v].at # how /\ call'[p][v].at = how

\* "Stale-on-network-failure": a call that finds a copy when it begins does not
\* throw, whatever fails and however old it is, but for two writers.
OfflineServes ==
    [][\A p \in Procs, v \in Versions :
          Turns(p, v, "threw") /\ call[p][v].had => overlapped]_manifestVars

\* A version published before the call began is not reported missing, unless its
\* refresh failed or was a fetch that had been answered already.
MissingIsUnpublished ==
    [][\A p \in Procs, v \in Versions :
          Turns(p, v, "missing") /\ ~call[p][v].excused => v > call[p][v].since]_manifestVars

=============================================================================
