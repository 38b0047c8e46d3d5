-------------------------- MODULE CompileTask_proofs --------------------------
(***************************************************************************)
(* The copy of the mirror's list, whatever calls of loadManifest and       *)
(* resolveBuild overlap, and the artifacts of the compile tasks that make  *)
(* them, for any number of processes, versions, files and tasks.           *)
(***************************************************************************)
EXTENDS CompileTask, WellFoundedInduction, TLAPS

Contents == Versions \cup {None, Empty, Mixed}
Phases == {"none", "fetch", "open", "write", "rename"}
Paths == {"none", "tmp", "list", "gone"}

\* Who is about to write, or is writing, has the text.  As long as no two
\* processes have written at once, one process at most has the file open, at
\* the staging path, and knows what is in it; and list.json was only renamed to.
Staged ==
    /\ \A p \in Procs : fetching[p] \in {"open"} \cup Writing => text[p] \in Versions
    /\ ~overlapped =>
          /\ list \in {None} \cup Versions
          /\ \A p, q \in Procs : {fetching[p], fetching[q]} \subseteq Writing => p = q
          /\ \A p \in Procs :
                /\ fetching[p] \in Writing => fd[p] = "tmp"
                /\ fetching[p] = "write" => tmp = Empty
                /\ fetching[p] = "rename" => tmp = text[p]

\* ... so a copy that a call found when it began stays readable.
CopyStays == ~overlapped => \A p \in Procs, v \in Versions : call[p][v].had => Readable

\* A call that has asked for a refresh is waiting for a fetch of a text no older
\* than the one published when it began, or has been given one.
RecentIn(c, f, t) ==
    /\ c.since <= published
    /\ c.at = "wait" /\ c.forced /\ ~c.excused => f = "fetch" \/ (f # "none" /\ c.since <= t)
    /\ c.at = "find" /\ c.forced /\ ~c.excused => c.since <= c.given

Refreshed == \A p \in Procs, v \in Versions : RecentIn(call[p][v], fetching[p], text[p])

MInv == ManifestTypeOK /\ Staged /\ CopyStays /\ Refreshed

-----------------------------------------------------------------------------
(* Calls                                                                   *)

After(c) == IF Ended(c) THEN [Idle EXCEPT !.at = c.at] ELSE c

LEMMA IdleCall ==
    /\ Idle \in Call /\ Idle.at = "idle" /\ ~Idle.forced /\ Idle.since = 0 /\ ~Idle.had
    /\ [Idle EXCEPT !.at = "threw"] \in Call
    /\ [Idle EXCEPT !.at = "threw"].at = "threw" /\ ~[Idle EXCEPT !.at = "threw"].had
    /\ [Idle EXCEPT !.at = "threw"].since = 0
  BY DEF Idle, Call

\* What is left of a call that has ended is how it ended.
LEMMA AfterCall ==
    ASSUME NEW c \in Call
    PROVE  /\ After(c) \in Call /\ After(c).at = c.at
           /\ Ended(c) => After(c).since = 0 /\ ~After(c).had
           /\ ~Ended(c) => After(c) = c
  BY DEF After, Ended, Idle, Call

\* A call that goes on leaves the others alone.
LEMMA BecomesCall ==
    ASSUME ManifestTypeOK, NEW p \in Procs, NEW v \in Versions, NEW c \in Call, Becomes(p, v, c)
    PROVE  /\ call' \in [Procs -> [Versions -> Call]]
           /\ call'[p][v] = After(c)
           /\ \A q \in Procs, w \in Versions : q # p \/ w # v => call'[q][w] = call[q][w]
  <1>1. call' = [call EXCEPT ![p] = [call[p] EXCEPT ![v] = After(c)]]
    BY DEF Becomes, After
  <1>2. After(c) \in Call /\ call \in [Procs -> [Versions -> Call]]
    BY AfterCall DEF ManifestTypeOK
  <1>3. QED
    BY <1>1, <1>2

\* A promise that settles gives every call that waits for it what it settles with.
LEMMA SettleCall ==
    ASSUME ManifestTypeOK, NEW p \in Procs, NEW c \in [Versions -> Call],
           NEW open \in [Procs -> Paths], Settle(p, c, open),
           \A v \in Versions : c[v].at # "wait"
    PROVE  /\ call' \in [Procs -> [Versions -> Call]]
           /\ \A v \in Versions : call'[p][v] = IF call[p][v].at = "wait" THEN c[v] ELSE call[p][v]
           /\ \A q \in Procs \ {p} : call'[q] = call[q]
           /\ fetching' \in [Procs -> Phases] /\ fetching'[p] = "none"
           /\ \A q \in Procs \ {p} : fetching'[q] = fetching[q] /\ text'[q] = text[q] /\ fd'[q] = open[q]
           /\ text' \in [Procs -> {0} \cup Versions]
           /\ fd' \in [Procs -> Paths]
           /\ \A q \in Procs : fetching'[q] = "none" <=> \A v \in Versions : call'[q][v].at # "wait"
  <1>0. /\ call \in [Procs -> [Versions -> Call]] /\ fetching \in [Procs -> Phases]
        /\ text \in [Procs -> {0} \cup Versions]
    BY DEF ManifestTypeOK, Phases, Writing
  <1>1. /\ fetching' = [fetching EXCEPT ![p] = "none"]
        /\ fd' = [open EXCEPT ![p] = "none"] /\ text' = [text EXCEPT ![p] = 0]
        /\ call' = [call EXCEPT ![p] = [v \in Versions |-> IF call[p][v].at = "wait" THEN c[v] ELSE call[p][v]]]
    BY DEF Settle
  <1>2. call'[p] = [v \in Versions |-> IF call[p][v].at = "wait" THEN c[v] ELSE call[p][v]]
    BY <1>0, <1>1
  <1>3. \A q \in Procs \ {p} : call'[q] = call[q]
    BY <1>0, <1>1
  <1>4. [v \in Versions |-> IF call[p][v].at = "wait" THEN c[v] ELSE call[p][v]] \in [Versions -> Call]
    BY <1>0
  <1>5. call' \in [Procs -> [Versions -> Call]]
    BY <1>0, <1>1, <1>4
  <1>6. /\ fetching' \in [Procs -> Phases] /\ fetching'[p] = "none"
        /\ \A q \in Procs \ {p} : fetching'[q] = fetching[q] /\ text'[q] = text[q] /\ fd'[q] = open[q]
        /\ text' \in [Procs -> {0} \cup Versions] /\ fd' \in [Procs -> Paths]
    BY <1>0, <1>1 DEF Phases, Paths
  <1>7. \A v \in Versions : call'[p][v].at # "wait"
    BY <1>2
  <1>8. \A q \in Procs \ {p} : fetching'[q] = "none" <=> \A v \in Versions : call'[q][v].at # "wait"
    BY <1>3, <1>6 DEF ManifestTypeOK
  <1>9. QED
    BY <1>2, <1>3, <1>5, <1>6, <1>7, <1>8

\* The invariant says of each call what its process's fetch is at: a step that
\* leaves the files and the fetches alone need only look at the calls it changes.
LEMMA CallsKeep ==
    ASSUME MInv, UNCHANGED <<published, fileVars, fetchVars, overlapped>>,
           call' \in [Procs -> [Versions -> Call]],
           \A q \in Procs : fetching[q] = "none" <=> \A v \in Versions : call'[q][v].at # "wait",
           \A q \in Procs, v \in Versions :
              \/ call'[q][v] = call[q][v]
              \/ /\ call'[q][v].had /\ ~overlapped => Readable
                 /\ RecentIn(call'[q][v], fetching[q], text[q])
    PROVE  MInv'
  <1>1. ManifestTypeOK'
    BY DEF MInv, ManifestTypeOK, fileVars, fetchVars
  <1>2. Staged'
    BY DEF MInv, Staged, fileVars, fetchVars
  <1>3. CopyStays'
    BY DEF MInv, CopyStays, Readable, fileVars
  <1>4. Refreshed'
    BY DEF MInv, Refreshed, RecentIn, fetchVars
  <1>5. QED
    BY <1>1, <1>2, <1>3, <1>4 DEF MInv

\* A call begins.
LEMMA ResolveKeeps ==
    ASSUME MInv, NEW p \in Procs, NEW wanted, Resolve(p, wanted)
    PROVE  MInv'
  <1> DEFINE fresh == [Idle EXCEPT !.at = "load", !.since = published, !.had = Readable]
  <1>0. published \in Versions /\ Readable \in BOOLEAN
    BY DEF MInv, ManifestTypeOK, Readable
  <1>1. /\ fresh \in Call /\ fresh.at = "load" /\ fresh.since = published /\ fresh.had = Readable
        /\ published \in Versions
    BY <1>0 DEF Idle, Call
  <1>2. \A v \in Versions : v \in wanted => Ended(call[p][v])
    BY DEF Resolve
  <1>3. call' = [call EXCEPT ![p] = [v \in Versions |-> IF v \in wanted THEN fresh ELSE call[p][v]]]
    BY DEF Resolve
  <1> HIDE DEF fresh
  <1>4. call \in [Procs -> [Versions -> Call]]
    BY DEF MInv, ManifestTypeOK
  <1>5. /\ call' \in [Procs -> [Versions -> Call]]
        /\ \A q \in Procs \ {p} : call'[q] = call[q]
        /\ \A v \in Versions : call'[p][v] = IF v \in wanted THEN fresh ELSE call[p][v]
    BY <1>1, <1>3, <1>4
  <1>6. \A v \in Versions : call'[p][v].at = "wait" <=> call[p][v].at = "wait"
    BY <1>1, <1>2, <1>5 DEF Ended
  <1>7. \A q \in Procs : fetching[q] = "none" <=> \A v \in Versions : call'[q][v].at # "wait"
    BY <1>5, <1>6 DEF MInv, ManifestTypeOK
  <1>8. RecentIn(fresh, fetching[p], text[p])
    BY <1>1 DEF RecentIn, Versions
  <1>9. \A q \in Procs, v \in Versions :
              \/ call'[q][v] = call[q][v]
              \/ /\ call'[q][v].had /\ ~overlapped => Readable
                 /\ RecentIn(call'[q][v], fetching[q], text[q])
    BY <1>1, <1>5, <1>8
  <1>10. UNCHANGED <<published, fileVars, fetchVars, overlapped>>
    BY DEF Resolve
  <1>11. QED
    BY <1>5, <1>7, <1>9, <1>10, CallsKeep

\* The calls are over, when none waits or with their fetch.
LEMMA AnsweredCall ==
    ASSUME ManifestTypeOK, NEW p \in Procs, Answered(p)
    PROVE  /\ call' \in [Procs -> [Versions -> Call]]
           /\ \A q \in Procs \ {p} : call'[q] = call[q]
           /\ \A v \in Versions : call'[p][v] = Idle
  <1>1. call \in [Procs -> [Versions -> Call]] /\ Idle \in Call
    BY IdleCall DEF ManifestTypeOK
  <1>2. QED
    BY <1>1 DEF Answered

LEMMA AnsweredKeeps ==
    ASSUME MInv, NEW p \in Procs, Answered(p), UNCHANGED <<published, fileVars, fetchVars, overlapped>>,
           \A v \in Versions : Ended(call[p][v])
    PROVE  MInv'
  <1>1. /\ call' \in [Procs -> [Versions -> Call]]
        /\ \A q \in Procs \ {p} : call'[q] = call[q]
        /\ \A v \in Versions : call'[p][v] = Idle
    BY AnsweredCall DEF MInv
  <1>2. \A v \in Versions : call[p][v].at # "wait" /\ call'[p][v].at # "wait"
    BY <1>1, IdleCall DEF Ended
  <1>3. \A q \in Procs : fetching[q] = "none" <=> \A v \in Versions : call'[q][v].at # "wait"
    <2>1. \A q \in Procs : fetching[q] = "none" <=> \A v \in Versions : call[q][v].at # "wait"
      BY DEF MInv, ManifestTypeOK
    <2>2. fetching[p] = "none" <=> \A v \in Versions : call'[p][v].at # "wait"
      BY <1>2, <2>1
    <2>3. QED
      BY <1>1, <2>1, <2>2
  <1>4. RecentIn(Idle, fetching[p], text[p]) /\ ~Idle.had
    BY IdleCall, ManifestAssumption DEF RecentIn, MInv, ManifestTypeOK, Versions
  <1>5. \A q \in Procs, v \in Versions :
              \/ call'[q][v] = call[q][v]
              \/ /\ call'[q][v].had /\ ~overlapped => Readable
                 /\ RecentIn(call'[q][v], fetching[q], text[q])
    BY <1>1, <1>4
  <1>6. QED
    BY <1>1, <1>3, <1>5, CallsKeep

\* A call takes a young copy.
LEMMA UseCopyKeeps ==
    ASSUME MInv, NEW p \in Procs, NEW v \in Versions, UseCopy(p, v)
    PROVE  MInv'
  <1> DEFINE c == call[p][v]
             d == [c EXCEPT !.at = "find", !.given = list]
  <1>1. c \in Call /\ c.at = "load" /\ ~c.forced /\ list \in Versions
    BY DEF UseCopy, MInv, ManifestTypeOK, Readable
  <1>2. /\ d \in Call /\ d.at = "find" /\ ~d.forced /\ d.since = c.since /\ d.had = c.had
    BY <1>1 DEF Call
  <1>3. Becomes(p, v, d) /\ UNCHANGED <<published, fileVars, fetchVars, overlapped>>
    BY DEF UseCopy
  <1> HIDE DEF d
  <1>4. After(d) = d
    BY <1>2, AfterCall DEF Ended
  <1>5. /\ call' \in [Procs -> [Versions -> Call]] /\ call'[p][v] = d
        /\ \A q \in Procs, w \in Versions : q # p \/ w # v => call'[q][w] = call[q][w]
    BY <1>2, <1>3, <1>4, BecomesCall DEF MInv
  <1>6. \A q \in Procs : fetching[q] = "none" <=> \A w \in Versions : call'[q][w].at # "wait"
    <2>1. \A q \in Procs, w \in Versions : call'[q][w].at = "wait" <=> call[q][w].at = "wait"
      BY <1>1, <1>2, <1>5
    <2>2. QED
      BY <2>1 DEF MInv, ManifestTypeOK
  <1>7. RecentIn(d, fetching[p], text[p]) /\ (d.had /\ ~overlapped => Readable)
    BY <1>1, <1>2 DEF RecentIn, Readable, MInv, Refreshed
  <1>8. QED
    BY <1>3, <1>5, <1>6, <1>7, CallsKeep

\* A call finds its version or not; only then does it ask for a refresh.
LEMMA FindKeeps ==
    ASSUME MInv, NEW p \in Procs, NEW v \in Versions, Find(p, v)
    PROVE  MInv'
  <1> DEFINE c == call[p][v]
  <1>1. c \in Call /\ c.at = "find"
    BY DEF Find, MInv, ManifestTypeOK
  <1>0. PICK how \in Outcomes(c, v) : Becomes(p, v, [c EXCEPT !.at = how, !.forced = c.forced \/ how = "load"])
    BY DEF Find
  <1>0a. how \in {"found", "invalid", "missing", "load"} /\ c.forced \in BOOLEAN
    BY <1>1 DEF Outcomes, Call
  <1> DEFINE d == [c EXCEPT !.at = how, !.forced = c.forced \/ how = "load"]
  <1>2. /\ d \in Call /\ d.at \in {"found", "invalid", "missing", "load"} /\ d.since = c.since /\ d.had = c.had
    BY <1>1, <1>0a DEF Call
  <1>3. Becomes(p, v, d) /\ UNCHANGED <<published, fileVars, fetchVars, overlapped>>
    BY <1>0 DEF Find
  <1> HIDE DEF d
  <1>4. /\ call' \in [Procs -> [Versions -> Call]] /\ call'[p][v] = After(d)
        /\ \A q \in Procs, w \in Versions : q # p \/ w # v => call'[q][w] = call[q][w]
    BY <1>2, <1>3, BecomesCall DEF MInv
  <1>5. /\ After(d).at \in {"found", "invalid", "missing", "load"}
        /\ After(d).since \in {0, c.since} /\ (After(d).had => c.had)
    BY <1>2, AfterCall
  <1>6. \A q \in Procs : fetching[q] = "none" <=> \A w \in Versions : call'[q][w].at # "wait"
    <2>1. \A q \in Procs, w \in Versions : call'[q][w].at = "wait" <=> call[q][w].at = "wait"
      BY <1>1, <1>4, <1>5
    <2>2. QED
      BY <2>1 DEF MInv, ManifestTypeOK
  <1>7. RecentIn(After(d), fetching[p], text[p])
    <2>1. c.since <= published /\ published \in Nat
      BY ManifestAssumption DEF MInv, Refreshed, RecentIn, ManifestTypeOK, Versions
    <2>2. QED
      BY <1>5, <2>1 DEF RecentIn
  <1>8. After(d).had /\ ~overlapped => Readable
    BY <1>5 DEF MInv, CopyStays
  <1>9. QED
    BY <1>3, <1>4, <1>6, <1>7, <1>8, CallsKeep

\* A call waits for the fetch under way, or for one it starts.
LEMMA AwaitFetchKeeps ==
    ASSUME MInv, NEW p \in Procs, NEW v \in Versions, AwaitFetch(p, v)
    PROVE  MInv'
  <1> DEFINE c == call[p][v]
             late == fetching[p] \notin {"none", "fetch"}
             d == [c EXCEPT !.at = "wait", !.excused = late]
  <1>1. c \in Call /\ c.at = "load" /\ late \in BOOLEAN
    BY DEF AwaitFetch, MInv, ManifestTypeOK
  <1>2. Becomes(p, v, d) /\ UNCHANGED <<published, fileVars, text, fd, overlapped>>
    BY DEF AwaitFetch
  <1>3. fetching' = [fetching EXCEPT ![p] = IF fetching[p] = "none" THEN "fetch" ELSE fetching[p]]
    BY DEF AwaitFetch
  <1>4. fetching \in [Procs -> Phases]
    BY DEF MInv, ManifestTypeOK, Phases, Writing
  <1>5. /\ fetching' \in [Procs -> Phases]
        /\ \A q \in Procs \ {p} : fetching'[q] = fetching[q]
        /\ fetching'[p] = IF fetching[p] = "none" THEN "fetch" ELSE fetching[p]
        /\ fetching'[p] = "fetch" \/ late
    BY <1>3, <1>4 DEF Phases
  <1> HIDE DEF late
  <1>6. d \in Call /\ d.at = "wait" /\ d.excused = late /\ d.since = c.since /\ d.had = c.had
    BY <1>1 DEF Call
  <1> HIDE DEF d
  <1>7. After(d) = d
    BY <1>6, AfterCall DEF Ended
  <1>8. /\ call' \in [Procs -> [Versions -> Call]] /\ call'[p][v] = d
        /\ \A q \in Procs, w \in Versions : q # p \/ w # v => call'[q][w] = call[q][w]
    BY <1>2, <1>6, <1>7, BecomesCall DEF MInv
  <1>9. ManifestTypeOK'
    <2>1. \A q \in Procs \ {p} : fetching'[q] = "none" <=> \A w \in Versions : call'[q][w].at # "wait"
      BY <1>5, <1>8 DEF MInv, ManifestTypeOK
    <2>1a. fetching'[p] # "none" /\ call'[p][v].at = "wait"
      BY <1>5, <1>6, <1>8
    <2>2. QED
      BY <1>2, <1>5, <1>8, <2>1, <2>1a DEF MInv, ManifestTypeOK, fileVars, Phases, Writing
  <1>10. Staged'
    <2>1. \A q \in Procs : fetching'[q] \in {"open", "write", "rename"} => fetching'[q] = fetching[q]
      BY <1>5
    <2>2. QED
      BY <1>2, <2>1 DEF MInv, Staged, Writing, fileVars
  <1>11. CopyStays'
    BY <1>2, <1>6, <1>8 DEF MInv, CopyStays, Readable, fileVars
  <1>12. Refreshed'
    <2>1. RecentIn(d, fetching'[p], text[p])
      BY <1>1, <1>5, <1>6 DEF MInv, Refreshed, RecentIn
    <2>2. ASSUME NEW q \in Procs, NEW w \in Versions PROVE RecentIn(call[q][w], fetching'[q], text[q])
      <3>0. RecentIn(call[q][w], fetching[q], text[q])
        BY DEF MInv, Refreshed
      <3>1. fetching'[q] = fetching[q] \/ fetching[q] = "none"
        BY <1>5
      <3>2. fetching[q] = "none" => call[q][w].at # "wait"
        BY DEF MInv, ManifestTypeOK
      <3>3. QED
        BY <3>0, <3>1, <3>2 DEF RecentIn
    <2>3. ASSUME NEW q \in Procs, NEW w \in Versions PROVE RecentIn(call'[q][w], fetching'[q], text[q])
      BY <1>8, <2>1, <2>2
    <2>4. QED
      BY <1>2, <2>3 DEF Refreshed, RecentIn
  <1>13. QED
    BY <1>9, <1>10, <1>11, <1>12 DEF MInv

-----------------------------------------------------------------------------
(* The fetch                                                               *)

\* A promise settles with a text, or all throw.
LEMMA GivenCalls ==
    ASSUME MInv, NEW p \in Procs, NEW n \in Versions
    PROVE  /\ Given(p, n) \in [Versions -> Call]
           /\ \A v \in Versions : LET g == Given(p, n)[v] IN
                 /\ g.at = "find" /\ g.given = n /\ g.since = call[p][v].since
                 /\ g.had = call[p][v].had /\ g.excused = call[p][v].excused
                 /\ g.forced = call[p][v].forced
  <1>1. \A v \in Versions : call[p][v] \in Call
    BY DEF MInv, ManifestTypeOK
  <1>2. ASSUME NEW c \in Call PROVE LET g == [c EXCEPT !.at = "find", !.given = n] IN
            /\ g \in Call /\ g.at = "find" /\ g.given = n /\ g.since = c.since
            /\ g.had = c.had /\ g.excused = c.excused /\ g.forced = c.forced
    BY DEF Call
  <1>3. Given(p, n) = [v \in Versions |-> [call[p][v] EXCEPT !.at = "find", !.given = n]]
    BY DEF Given
  <1>4. ASSUME NEW v \in Versions PROVE LET g == Given(p, n)[v] IN
            /\ g \in Call /\ g.at = "find" /\ g.given = n /\ g.since = call[p][v].since
            /\ g.had = call[p][v].had /\ g.excused = call[p][v].excused
            /\ g.forced = call[p][v].forced
    <2>1. call[p][v] \in Call
      BY <1>1
    <2>2. Given(p, n)[v] = [call[p][v] EXCEPT !.at = "find", !.given = n]
      BY <1>3
    <2>3. QED
      BY <1>2, <2>1, <2>2
  <1>5. QED
    BY <1>3, <1>4

LEMMA FailedCalls ==
    ASSUME MInv, NEW p \in Procs
    PROVE  LET c == IF Readable THEN Excused(Given(p, list)) ELSE Thrown IN
           /\ c \in [Versions -> Call]
           /\ \A v \in Versions :
                 /\ c[v].at \in {"find", "threw"} /\ c[v].since \in {0, call[p][v].since}
                 /\ c[v].at = "find" => Readable /\ c[v].excused /\ c[v].had = call[p][v].had
                 /\ c[v].at = "threw" => ~Readable /\ ~c[v].had
  <1>1. CASE Readable
    <2>1. list \in Versions
      BY <1>1 DEF Readable
    <2>2. ASSUME NEW c \in Call PROVE LET g == [c EXCEPT !.excused = TRUE] IN
            /\ g \in Call /\ g.at = c.at /\ g.excused /\ g.since = c.since /\ g.had = c.had
      BY DEF Call
    <2> DEFINE g == Given(p, list)
    <2>3. g \in [Versions -> Call]
          /\ \A v \in Versions : g[v].at = "find" /\ g[v].since = call[p][v].since /\ g[v].had = call[p][v].had
      BY <2>1, GivenCalls
    <2> HIDE DEF g
    <2>4. Excused(g) = [v \in Versions |-> [g[v] EXCEPT !.excused = TRUE]]
      BY DEF Excused
    <2>5. /\ Excused(g) \in [Versions -> Call]
          /\ \A v \in Versions :
                LET e == Excused(g)[v]
                IN e.at = "find" /\ e.excused /\ e.since = call[p][v].since /\ e.had = call[p][v].had
      <3>1. ASSUME NEW v \in Versions
            PROVE  /\ [g[v] EXCEPT !.excused = TRUE] \in Call
                   /\ LET e == Excused(g)[v]
                      IN e.at = "find" /\ e.excused /\ e.since = call[p][v].since /\ e.had = call[p][v].had
        <4>1. g[v] \in Call /\ Excused(g)[v] = [g[v] EXCEPT !.excused = TRUE]
          BY <2>3, <2>4
        <4>2. QED
          BY <2>2, <2>3, <4>1
      <3>2. QED
        BY <2>4, <3>1
    <2>6. QED
      BY <1>1, <2>5 DEF g
  <1>2. CASE ~Readable
    BY <1>2, IdleCall DEF Thrown
  <1>3. QED
    BY <1>1, <1>2

\* A promise that settles ends its fetch, which frees the staging path, and
\* leaves nobody waiting.
LEMMA SettleKeeps ==
    ASSUME MInv, NEW p \in Procs, NEW c \in [Versions -> Call], NEW open \in [Procs -> Paths],
           Settle(p, c, open), UNCHANGED <<published, overlapped>>,
           {tmp', list'} \subseteq Contents, young' \in BOOLEAN,
           \A v \in Versions :
              /\ c[v].at \in {"find", "threw"} /\ c[v].since <= published
              /\ call[p][v].at = "wait" /\ c[v].at = "find" /\ c[v].forced /\ ~c[v].excused => c[v].since <= c[v].given
              /\ call[p][v].at = "wait" /\ c[v].had /\ ~overlapped => Readable',
           ~overlapped =>
              /\ list' \in {None} \cup Versions /\ (Readable => Readable')
              /\ \A q \in Procs \ {p} : fetching[q] \in Writing => open[q] = fd[q] /\ tmp' = tmp
    PROVE  MInv'
  <1>1. \A v \in Versions : c[v].at # "wait"
    OBVIOUS
  <1>2. /\ call' \in [Procs -> [Versions -> Call]]
        /\ \A v \in Versions : call'[p][v] = IF call[p][v].at = "wait" THEN c[v] ELSE call[p][v]
        /\ \A q \in Procs \ {p} : call'[q] = call[q]
        /\ fetching' \in [Procs -> Phases] /\ fetching'[p] = "none"
        /\ \A q \in Procs \ {p} : fetching'[q] = fetching[q] /\ text'[q] = text[q] /\ fd'[q] = open[q]
        /\ text' \in [Procs -> {0} \cup Versions]
        /\ fd' \in [Procs -> Paths]
        /\ \A q \in Procs : fetching'[q] = "none" <=> \A v \in Versions : call'[q][v].at # "wait"
    BY <1>1, SettleCall DEF MInv
  <1>3. ManifestTypeOK'
    BY <1>2 DEF MInv, ManifestTypeOK, Contents, Phases, Paths, Writing
  <1>4. Staged'
    <2>1. \A q \in Procs : fetching'[q] \in {"open", "write", "rename"} =>
              q # p /\ fetching'[q] = fetching[q] /\ text'[q] = text[q] /\ fd'[q] = open[q]
      BY <1>2
    <2>2. \A q \in Procs : fetching'[q] \in {"open"} \cup Writing => text'[q] \in Versions
      BY <2>1 DEF MInv, Staged, Writing
    <2>3. ASSUME ~overlapped
          PROVE  /\ \A q, r \in Procs : {fetching'[q], fetching'[r]} \subseteq Writing => q = r
                 /\ \A q \in Procs :
                       /\ fetching'[q] \in Writing => fd'[q] = "tmp"
                       /\ fetching'[q] = "write" => tmp' = Empty
                       /\ fetching'[q] = "rename" => tmp' = text'[q]
      BY <2>1, <2>3 DEF MInv, Staged, Writing
    <2>4. QED
      BY <2>2, <2>3 DEF Staged
  <1>5. CopyStays'
    <2>1. ASSUME ~overlapped, NEW q \in Procs, NEW v \in Versions, call'[q][v].had PROVE Readable'
      BY <1>2, <2>1 DEF MInv, CopyStays
    <2>2. QED
      BY <2>1 DEF CopyStays
  <1>6. Refreshed'
    <2>1. ASSUME NEW q \in Procs, NEW v \in Versions PROVE RecentIn(call'[q][v], fetching'[q], text'[q])
      <3>0. RecentIn(call[q][v], fetching[q], text[q])
        BY DEF MInv, Refreshed
      <3>1. CASE q # p
        BY <1>2, <3>0, <3>1
      <3>2. CASE q = p /\ call[p][v].at = "wait"
        BY <1>2, <3>2 DEF RecentIn
      <3>3. CASE q = p /\ call[p][v].at # "wait"
        BY <1>2, <3>0, <3>3 DEF RecentIn
      <3>4. QED
        BY <3>1, <3>2, <3>3
    <2>2. QED
      BY <2>1 DEF Refreshed, RecentIn
  <1>7. QED
    BY <1>3, <1>4, <1>5, <1>6 DEF MInv

\* A fetch that fails hands out the copy there is.
LEMMA FailKeeps ==
    ASSUME MInv, NEW p \in Procs, Fail(p), UNCHANGED <<published, fileVars, overlapped>>
    PROVE  MInv'
  <1> DEFINE c == IF Readable THEN Excused(Given(p, list)) ELSE Thrown
  <1>1. /\ c \in [Versions -> Call]
        /\ \A v \in Versions :
              /\ c[v].at \in {"find", "threw"} /\ c[v].since \in {0, call[p][v].since}
              /\ c[v].at = "find" => Readable /\ c[v].excused /\ c[v].had = call[p][v].had
              /\ c[v].at = "threw" => ~Readable /\ ~c[v].had
    BY FailedCalls
  <1>2. Settle(p, c, fd)
    BY DEF Fail
  <1> HIDE DEF c
  <1>3. fd \in [Procs -> Paths] /\ {tmp', list'} \subseteq Contents /\ young' \in BOOLEAN /\ published \in Nat
    BY ManifestAssumption DEF MInv, ManifestTypeOK, Paths, Contents, fileVars, Versions
  <1>4. \A v \in Versions : c[v].since <= published
    BY <1>1, <1>3 DEF MInv, Refreshed, RecentIn
  <1>5. (Readable => Readable') /\ UNCHANGED <<published, overlapped, tmp, list>>
    BY DEF Readable, fileVars
  <1>6. ~overlapped => list' \in {None} \cup Versions
    BY <1>5 DEF MInv, Staged
  <1>7. QED
    BY <1>1, <1>2, <1>3, <1>4, <1>5, <1>6, SettleKeeps

\* The mirror's text arrives: the newest there is.
LEMMA FetchKeeps ==
    ASSUME MInv, NEW p \in Procs, Fetch(p)
    PROVE  MInv'
  <1>0. /\ fetching[p] = "fetch" /\ UNCHANGED <<published, fileVars, overlapped>>
        /\ fetching \in [Procs -> Phases] /\ text \in [Procs -> {0} \cup Versions] /\ fd \in [Procs -> Paths]
        /\ published \in Versions
    BY DEF Fetch, MInv, ManifestTypeOK, Phases, Paths, Writing
  <1>1. CASE fetching' = [fetching EXCEPT ![p] = "open"] /\ text' = [text EXCEPT ![p] = published]
             /\ UNCHANGED <<fd, call>>
    <2>1. /\ fetching' \in [Procs -> Phases] /\ text' \in [Procs -> {0} \cup Versions]
          /\ fetching'[p] = "open" /\ text'[p] = published
          /\ \A q \in Procs \ {p} : fetching'[q] = fetching[q] /\ text'[q] = text[q]
      BY <1>0, <1>1 DEF Phases
    <2>2. ManifestTypeOK'
      <3>1. \A q \in Procs : fetching'[q] = "none" <=> fetching[q] = "none"
        BY <1>0, <2>1
      <3>2. QED
        BY <1>0, <1>1, <2>1, <3>1 DEF MInv, ManifestTypeOK, fileVars, Phases, Writing
    <2>3. Staged'
      <3>1. \A q \in Procs : fetching'[q] \in Writing => q # p /\ fetching'[q] = fetching[q] /\ text'[q] = text[q]
        BY <2>1 DEF Writing
      <3>2. \A q \in Procs : fetching'[q] \in {"open"} \cup Writing => text'[q] \in Versions
        BY <1>0, <2>1 DEF MInv, Staged
      <3>3. QED
        BY <1>0, <1>1, <3>1, <3>2 DEF MInv, Staged, fileVars, Writing
    <2>4. CopyStays'
      BY <1>0, <1>1 DEF MInv, CopyStays, Readable, fileVars
    <2>5. Refreshed'
      <3>1. ASSUME NEW q \in Procs, NEW v \in Versions PROVE RecentIn(call[q][v], fetching'[q], text'[q])
        BY <2>1 DEF MInv, Refreshed, RecentIn
      <3>2. QED
        BY <1>0, <1>1, <3>1 DEF Refreshed, RecentIn
    <2>6. QED
      BY <2>2, <2>3, <2>4, <2>5 DEF MInv
  <1>2. CASE Fail(p)
    BY <1>0, <1>2, FailKeeps
  <1>3. QED
    BY <1>1, <1>2 DEF Fetch

\* writeCache opens the staging path.  If another process is writing, that is
\* where two begin to overlap.
LEMMA OpenKeeps ==
    ASSUME MInv, NEW p \in Procs, Open(p)
    PROVE  MInv'
  <1>1. /\ fetching[p] = "open" /\ tmp' = Empty /\ UNCHANGED <<published, list, young, text, call>>
        /\ fetching' = [fetching EXCEPT ![p] = "write"] /\ fd' = [fd EXCEPT ![p] = "tmp"]
        /\ overlapped' = (overlapped \/ \E q \in Procs \ {p} : fetching[q] \in Writing)
    BY DEF Open, Truncate
  <1>2. fetching \in [Procs -> Phases] /\ fd \in [Procs -> Paths]
    BY DEF MInv, ManifestTypeOK, Phases, Paths, Writing
  <1>3. /\ fetching' \in [Procs -> Phases] /\ fd' \in [Procs -> Paths]
        /\ fetching'[p] = "write" /\ fd'[p] = "tmp"
        /\ \A q \in Procs \ {p} : fetching'[q] = fetching[q] /\ fd'[q] = fd[q]
    BY <1>1, <1>2 DEF Phases, Paths
  <1>4. ManifestTypeOK'
    <2>1. \A q \in Procs : fetching'[q] = "none" <=> fetching[q] = "none"
      BY <1>1, <1>3
    <2>2. {tmp', list'} \subseteq Contents
      BY <1>1 DEF MInv, ManifestTypeOK, Contents
    <2>3. QED
      BY <1>1, <1>3, <2>1, <2>2 DEF MInv, ManifestTypeOK, Phases, Paths, Writing, Contents
  <1>5. Staged'
    <2>1. \A q \in Procs : fetching'[q] \in {"open"} \cup Writing => text'[q] \in Versions
      BY <1>1, <1>3 DEF MInv, Staged, Writing
    <2>2. ASSUME ~overlapped' PROVE ~overlapped /\ \A q \in Procs \ {p} : fetching'[q] \notin Writing
      BY <1>1, <1>3, <2>2
    <2>3. QED
      BY <1>1, <1>3, <2>1, <2>2 DEF MInv, Staged, Writing
  <1>6. CopyStays'
    BY <1>1 DEF MInv, CopyStays, Readable
  <1>7. Refreshed'
    <2>1. ASSUME NEW q \in Procs, NEW v \in Versions PROVE RecentIn(call[q][v], fetching'[q], text[q])
      BY <1>1, <1>3 DEF MInv, Refreshed, RecentIn
    <2>2. QED
      BY <1>1, <2>1 DEF Refreshed, RecentIn
  <1>8. QED
    BY <1>4, <1>5, <1>6, <1>7 DEF MInv

\* ... and writes it; alone, to a file it has just emptied.
LEMMA WrittenKeeps ==
    ASSUME MInv, NEW p \in Procs, Write(p), ~(UNCHANGED fileVars /\ Fail(p))
    PROVE  MInv'
  <1>1. /\ fetching[p] = "write" /\ UNCHANGED <<published, text, fd, call, overlapped>>
        /\ fetching' = [fetching EXCEPT ![p] = "rename"]
        /\ tmp' = (IF fd[p] = "tmp" THEN Over(p, tmp) ELSE tmp)
        /\ list' = (IF fd[p] = "list" THEN Over(p, list) ELSE list)
        /\ young' = (young \/ fd[p] = "list")
    BY DEF Write
  <1>2. fetching \in [Procs -> Phases] /\ text[p] \in Versions
    BY <1>1 DEF MInv, ManifestTypeOK, Phases, Writing, Staged
  <1>3. /\ fetching' \in [Procs -> Phases] /\ fetching'[p] = "rename"
        /\ \A q \in Procs \ {p} : fetching'[q] = fetching[q]
    BY <1>1, <1>2 DEF Phases
  <1>4. ManifestTypeOK'
    <2>1. \A q \in Procs : fetching'[q] = "none" <=> fetching[q] = "none"
      BY <1>1, <1>3
    <2>2. {tmp', list'} \subseteq Contents
      BY <1>1, <1>2 DEF MInv, ManifestTypeOK, Contents, Over
    <2>3. young' \in BOOLEAN
      BY <1>1 DEF MInv, ManifestTypeOK
    <2>4. QED
      BY <1>1, <1>3, <2>1, <2>2, <2>3 DEF MInv, ManifestTypeOK, Phases, Paths, Writing, Contents
  <1>5. ~overlapped => fd[p] = "tmp" /\ tmp = Empty /\ \A q \in Procs \ {p} : fetching[q] \notin Writing
    BY <1>1 DEF MInv, Staged, Writing
  <1>6. ~overlapped => tmp' = text[p] /\ list' = list
    BY <1>1, <1>2, <1>5, ManifestAssumption DEF Over, Empty, Versions
  <1>7. Staged'
    <2>1. \A q \in Procs : fetching'[q] \in {"open"} \cup Writing => text'[q] \in Versions
      BY <1>1, <1>2, <1>3 DEF MInv, Staged
    <2>2. QED
      BY <1>1, <1>3, <1>5, <1>6, <2>1 DEF MInv, Staged, Writing
  <1>8. CopyStays'
    BY <1>1, <1>6 DEF MInv, CopyStays, Readable
  <1>9. Refreshed'
    <2>1. ASSUME NEW q \in Procs, NEW v \in Versions PROVE RecentIn(call[q][v], fetching'[q], text[q])
      BY <1>1, <1>3 DEF MInv, Refreshed, RecentIn
    <2>2. QED
      BY <1>1, <2>1 DEF Refreshed, RecentIn
  <1>10. QED
    BY <1>4, <1>7, <1>8, <1>9 DEF MInv

LEMMA WriteKeeps ==
    ASSUME MInv, NEW p \in Procs, Write(p)
    PROVE  MInv'
  <1>1. CASE UNCHANGED fileVars /\ Fail(p)
    BY <1>1, FailKeeps DEF Write
  <1>2. QED
    BY <1>1, WrittenKeeps

\* The rename puts what is in the staging file in the copy's place: alone, the
\* text the process has written.
LEMMA RenameKeeps ==
    ASSUME MInv, NEW p \in Procs, Rename(p)
    PROVE  MInv'
  <1>1. fetching[p] = "rename" /\ UNCHANGED <<published, overlapped>>
    BY DEF Rename
  <1>2. CASE tmp # None
    <2> DEFINE open == [q \in Procs |-> Moved(q)]
               c == Given(p, text[p])
    <2>1. /\ list' = tmp /\ tmp' = None /\ young' = TRUE /\ Settle(p, c, open)
      BY <1>2 DEF Rename
    <2>2. text[p] \in Versions
      BY <1>1 DEF MInv, Staged, Writing
    <2>3. open \in [Procs -> Paths]
      BY DEF Moved, Paths, MInv, ManifestTypeOK
    <2>4. /\ c \in [Versions -> Call]
          /\ \A v \in Versions :
                /\ c[v].at = "find" /\ c[v].given = text[p] /\ c[v].since = call[p][v].since
                /\ c[v].had = call[p][v].had /\ c[v].excused = call[p][v].excused
                /\ c[v].forced = call[p][v].forced
      BY <2>2, GivenCalls
    <2> HIDE DEF c, open
    <2>5. {tmp', list'} \subseteq Contents
      BY <2>1 DEF MInv, ManifestTypeOK, Contents
    <2>6. ~overlapped => tmp = text[p] /\ \A q \in Procs \ {p} : fetching[q] \notin Writing
      BY <1>1 DEF MInv, Staged, Writing
    <2>7. ~overlapped => Readable' /\ list' \in {None} \cup Versions
      BY <2>1, <2>2, <2>6 DEF Readable
    <2>8. ASSUME NEW v \in Versions
          PROVE  /\ c[v].since <= published
                 /\ call[p][v].at = "wait" /\ c[v].forced /\ ~c[v].excused => c[v].since <= c[v].given
      <3>1. RecentIn(call[p][v], fetching[p], text[p])
        BY DEF MInv, Refreshed
      <3>2. QED
        BY <1>1, <2>4, <3>1 DEF RecentIn
    <2>9. QED
      BY <1>1, <2>1, <2>3, <2>4, <2>5, <2>6, <2>7, <2>8, SettleKeeps
  <1>3. CASE tmp = None
    BY <1>1, <1>3, FailKeeps DEF Rename
  <1>4. QED
    BY <1>2, <1>3

-----------------------------------------------------------------------------
(* The surroundings                                                        *)

LEMMA PublishKeeps ==
    ASSUME MInv, Publish
    PROVE  MInv'
  <1>1. /\ published < MaxPublished /\ published' = published + 1
        /\ UNCHANGED <<tmp, list, young, fetching, text, fd, call, overlapped>>
    BY DEF Publish, fileVars, fetchVars
  <1>2. published \in Versions /\ published' \in Versions
    BY <1>1, ManifestAssumption DEF MInv, ManifestTypeOK, Versions
  <1>3. ManifestTypeOK'
    BY <1>1, <1>2 DEF MInv, ManifestTypeOK
  <1>4. Staged' /\ CopyStays'
    BY <1>1 DEF MInv, Staged, CopyStays, Readable
  <1>5. Refreshed'
    <2>1. ASSUME NEW q \in Procs, NEW v \in Versions
          PROVE  RecentIn(call[q][v], fetching[q], text[q])'
      <3>1. RecentIn(call[q][v], fetching[q], text[q]) /\ call[q][v].since \in {0} \cup Versions
        BY DEF MInv, Refreshed, ManifestTypeOK, Call
      <3>2. call[q][v].since <= published'
        BY <1>1, <1>2, <3>1, ManifestAssumption DEF RecentIn, Versions
      <3>3. QED
        BY <1>1, <3>1, <3>2 DEF RecentIn
    <2>2. QED
      BY <2>1 DEF Refreshed
  <1>6. QED
    BY <1>3, <1>4, <1>5 DEF MInv

LEMMA AgeKeeps ==
    ASSUME MInv, Age
    PROVE  MInv'
  <1>1. young' \in BOOLEAN /\ UNCHANGED <<published, tmp, list, fetching, text, fd, call, overlapped>>
    BY DEF Age, fetchVars
  <1>2. ManifestTypeOK'
    BY <1>1 DEF MInv, ManifestTypeOK
  <1>3. Staged'
    BY <1>1 DEF MInv, Staged
  <1>4. CopyStays' /\ Refreshed'
    BY <1>1 DEF MInv, CopyStays, Readable, Refreshed, RecentIn
  <1>5. QED
    BY <1>2, <1>3, <1>4 DEF MInv

\* A process killed in the middle of writing leaves the staging path to the next,
\* who empties it first.
LEMMA KillKeeps ==
    ASSUME MInv, NEW p \in Procs, Kill(p)
    PROVE  MInv'
  <1>1. /\ UNCHANGED <<published, tmp, list, young, overlapped>> /\ Answered(p)
        /\ fetching' = [fetching EXCEPT ![p] = "none"]
        /\ fd' = [fd EXCEPT ![p] = "none"] /\ text' = [text EXCEPT ![p] = 0]
    BY DEF Kill, fileVars
  <1>2. /\ fetching \in [Procs -> Phases] /\ text \in [Procs -> {0} \cup Versions] /\ fd \in [Procs -> Paths]
    BY DEF MInv, ManifestTypeOK, Phases, Paths, Writing
  <1>3. /\ fetching' \in [Procs -> Phases] /\ text' \in [Procs -> {0} \cup Versions] /\ fd' \in [Procs -> Paths]
        /\ fetching'[p] = "none"
        /\ \A q \in Procs \ {p} : fetching'[q] = fetching[q] /\ text'[q] = text[q] /\ fd'[q] = fd[q]
    BY <1>1, <1>2 DEF Phases, Paths
  <1>4. /\ call' \in [Procs -> [Versions -> Call]]
        /\ \A q \in Procs \ {p} : call'[q] = call[q]
        /\ \A v \in Versions : call'[p][v] = Idle
    BY <1>1, AnsweredCall DEF MInv
  <1>5. ManifestTypeOK'
    <2>1. \A v \in Versions : call'[p][v].at # "wait"
      BY <1>4, IdleCall
    <2>2. ASSUME NEW q \in Procs PROVE fetching'[q] = "none" <=> \A v \in Versions : call'[q][v].at # "wait"
      <3>1. CASE q = p
        BY <1>3, <2>1, <3>1
      <3>2. CASE q # p
        BY <1>3, <1>4, <3>2 DEF MInv, ManifestTypeOK
      <3>3. QED
        BY <3>1, <3>2
    <2>3. QED
      BY <1>1, <1>3, <1>4, <2>2 DEF MInv, ManifestTypeOK, Phases, Paths, Writing
  <1>6. Staged'
    <2>1. \A q \in Procs : fetching'[q] \in {"open", "write", "rename"} =>
              q # p /\ fetching'[q] = fetching[q] /\ text'[q] = text[q] /\ fd'[q] = fd[q]
      BY <1>3
    <2>2. QED
      BY <1>1, <2>1 DEF MInv, Staged, Writing
  <1>7. CopyStays'
    <2>1. \A q \in Procs, v \in Versions : call'[q][v].had => call[q][v].had
      BY <1>4, IdleCall
    <2>2. QED
      BY <1>1, <2>1 DEF MInv, CopyStays, Readable
  <1>8. Refreshed'
    <2>1. RecentIn(Idle, fetching'[p], text'[p])
      BY IdleCall, ManifestAssumption DEF RecentIn, MInv, ManifestTypeOK, Versions
    <2>2. ASSUME NEW q \in Procs, NEW v \in Versions PROVE RecentIn(call'[q][v], fetching'[q], text'[q])
      <3>1. RecentIn(call[q][v], fetching[q], text[q])
        BY DEF MInv, Refreshed
      <3>2. QED
        BY <1>3, <1>4, <2>1, <3>1
    <2>3. QED
      BY <1>1, <2>2 DEF Refreshed, RecentIn
  <1>9. QED
    BY <1>5, <1>6, <1>7, <1>8 DEF MInv

\* A step that has nothing to do with the manifest.
LEMMA ManifestStays ==
    ASSUME MInv, UNCHANGED manifestVars
    PROVE  MInv'
  <1>1. UNCHANGED <<published, tmp, list, young, fetching, text, fd, call, overlapped>>
    BY DEF manifestVars, fileVars, fetchVars
  <1>2. ManifestTypeOK'
    BY <1>1 DEF MInv, ManifestTypeOK
  <1>3. Staged'
    BY <1>1 DEF MInv, Staged
  <1>4. CopyStays' /\ Refreshed'
    BY <1>1 DEF MInv, CopyStays, Readable, Refreshed, RecentIn
  <1>5. QED
    BY <1>2, <1>3, <1>4 DEF MInv

LEMMA ProgressKeeps ==
    ASSUME MInv, NEW p \in Procs, Progress(p)
    PROVE  MInv'
  BY UseCopyKeeps, AwaitFetchKeeps, FindKeeps, FetchKeeps, OpenKeeps, WriteKeeps, RenameKeeps DEF Progress

LEMMA ManifestBegins == ManifestInit => MInv
  <1> SUFFICES ASSUME ManifestInit PROVE MInv
    OBVIOUS
  <1>1. /\ published = 1 /\ tmp = None /\ list = None /\ young = FALSE /\ overlapped = FALSE
        /\ fetching = [p \in Procs |-> "none"] /\ text = [p \in Procs |-> 0] /\ fd = [p \in Procs |-> "none"]
        /\ call = [p \in Procs |-> [v \in Versions |-> Idle]]
    BY DEF ManifestInit
  <1>2. \A p \in Procs, v \in Versions : call[p][v] = Idle
    BY <1>1
  <1>3. ManifestTypeOK
    <2>1. published \in Versions
      BY <1>1, ManifestAssumption DEF Versions
    <2>2. call \in [Procs -> [Versions -> Call]]
      BY <1>1, IdleCall
    <2>3. \A p \in Procs : fetching[p] = "none" <=> \A v \in Versions : call[p][v].at # "wait"
      BY <1>1, <1>2, IdleCall
    <2>4. QED
      BY <1>1, <2>1, <2>2, <2>3 DEF ManifestTypeOK
  <1>4. Staged
    BY <1>1 DEF Staged, Writing
  <1>5. CopyStays /\ Refreshed
    BY <1>1, <1>2, IdleCall DEF CopyStays, Refreshed, RecentIn
  <1>6. QED
    BY <1>3, <1>4, <1>5 DEF MInv

-----------------------------------------------------------------------------
(* Tasks                                                                   *)

Dirs == {"artifacts", "artifacts-tron"}
Artifacts == [source : Sources, version : Versions, tool : {"tron-solc", "solc"}]
TaskSteps == {"none", "next", "sources", "build", "done", "failed"}

TaskTypes ==
    /\ config \in Configs /\ Accepted(config) /\ network \in [Procs -> BOOLEAN]
    /\ include \in [Procs -> SUBSET Sources]
    /\ todo \in [Procs -> Seq({config.batches[i] : i \in DOMAIN config.batches})]
    /\ task \in [Procs -> TaskSteps]
    /\ artifacts \in [Dirs -> SUBSET Artifacts]
    /\ asked \in [Procs -> SUBSET Sources] /\ wiped \in [Procs -> BOOLEAN]

\* A task that builds has a job for every file it looks at, whatever another
\* process does to its artifacts meanwhile.
Buildable ==
    \A p \in Procs : task[p] = "build" => \A s \in SourcePaths(p, include[p]) : JobVersion(p, s) \in Versions

\* What a task in the given state should have compiled of its files: not what it
\* looks at now or what the batches left name.
Owed(p, files, t, globs, left) ==
    files \ ((IF t \in {"sources", "build"} THEN SourcePaths(p, globs) ELSE {}) \cup FilesOf(p, left))

\* What a task should have compiled is there, until the task fails.
There(p, files) == \A s \in files : \E a \in artifacts[Dir(p)] : a.source = s
Working == {"next", "sources", "build", "done"}
Accumulated ==
    \A p \in Procs : ~wiped[p] /\ task[p] \in Working =>
        There(p, Owed(p, asked[p], task[p], include[p], todo[p]))

\* A task that has ended has left no batch behind for another.
Cleared == \A p \in Procs : Ready(p) => todo[p] = <<>>

IInv == MInv /\ TaskTypes /\ Buildable /\ Accumulated /\ Cleared

\* A set of numbers that has a bound has a greatest.
LEMMA MaxIsOne ==
    ASSUME NEW n \in Nat, NEW S \in SUBSET (0..n), S # {}
    PROVE  Max(S) \in S
  <1> DEFINE T == {n - x : x \in S}
             Less == OpToRel(<, Nat)
  <1>1. T \subseteq Nat /\ T # {}
    <2>1. \A x \in S : n - x \in Nat
      OBVIOUS
    <2>2. PICK x \in S : TRUE
      OBVIOUS
    <2>3. n - x \in T
      OBVIOUS
    <2>4. T \subseteq Nat
      BY <2>1
    <2>5. QED
      BY <2>3, <2>4
  <1>2. IsWellFoundedOn(Less, Nat)
    BY NatLessThanWellFounded
  <1> HIDE DEF Less, T
  <1>3. PICK m \in T : \A k \in T : ~(<<k, m>> \in Less)
    BY <1>1, <1>2, WFMin
  <1>4. \A k \in T : ~(k < m)
    BY <1>1, <1>3 DEF Less, OpToRel
  <1>5. PICK x \in S : m = n - x
    BY DEF T
  <1>6. \A y \in S : x >= y
    <2>1. SUFFICES ASSUME NEW y \in S PROVE x >= y
      OBVIOUS
    <2>2. n - y \in T
      BY DEF T
    <2>3. QED
      BY <1>4, <1>5, <2>2
  <1>7. QED
    BY <1>6 DEF Max

\* Hardhat's job for a file, or the override's, names a configured version.
LEMMA JobIsVersion ==
    ASSUME TaskTypes, NEW p \in Procs, NEW s \in Sources, JobVersion(p, s) # 0
    PROVE  JobVersion(p, s) \in Versions
  <1>1. config.compilers \in Seq(Versions) /\ s.pragma \subseteq Versions /\ MaxPublished \in Nat
    BY TaskAssumption, ManifestAssumption DEF TaskTypes
  <1> DEFINE S == {0} \cup (s.pragma \cap Compilers)
  <1>2. S \subseteq 0..MaxPublished /\ S # {}
    BY <1>1 DEF Versions
  <1>3. Max(S) \in S
    BY <1>1, <1>2, MaxIsOne
  <1>4. Job(s) = Max(S)
    BY DEF Job
  <1> HIDE DEF S
  <1>5. CASE Job(s) = 0
    BY <1>5 DEF JobVersion
  <1>6. CASE Job(s) # 0
    <2>1. Job(s) \in s.pragma \cap Compilers
      BY <1>3, <1>4, <1>6 DEF S
    <2>2. config.compilers # <<>>
      BY <2>1 DEF Compilers
    <2>3. config.compilers[1] \in Versions
      BY <1>1, <2>2
    <2>4. QED
      BY <1>1, <2>1, <2>3 DEF JobVersion
  <1>7. QED
    BY <1>5, <1>6

\* What the hooks make of the configuration does not change.
LEMMA HooksStay ==
    ASSUME UNCHANGED <<config, network>>
    PROVE  /\ \A p : Dir(p)' = Dir(p)
           /\ \A p : SourcePaths(p, include[p])' = SourcePaths(p, include'[p])
           /\ \A p, s : JobVersion(p, s)' = JobVersion(p, s)
           /\ \A p : Owed(p, asked[p], task[p], include[p], todo[p])' = Owed(p, asked'[p], task'[p], include'[p], todo'[p])
  <1>1. \A p : IsActive(p)' = IsActive(p)
    BY DEF IsActive
  <1>2. \A p : Dir(p)' = Dir(p)
    BY <1>1 DEF Dir
  <1>3. \A p : SourcePaths(p, include[p])' = SourcePaths(p, include'[p])
    BY <1>1 DEF SourcePaths
  <1>4. \A s : Job(s)' = Job(s)
    BY DEF Job, Compilers
  <1>5. \A p, s : JobVersion(p, s)' = JobVersion(p, s)
    BY <1>1, <1>4 DEF JobVersion
  <1>6. \A p : FilesOf(p, todo[p])' = FilesOf(p, todo'[p])
    BY <1>1 DEF FilesOf, SourcePaths, BatchGlobs
  <1>7. \A p : Owed(p, asked[p], task[p], include[p], todo[p])' = Owed(p, asked'[p], task'[p], include'[p], todo'[p])
    BY <1>3, <1>6 DEF Owed
  <1>8. QED
    BY <1>2, <1>3, <1>5, <1>7

LEMMA DirIsOne == ASSUME NEW p PROVE Dir(p) \in Dirs
  BY DEF Dir, Dirs

LEMMA SourcesAre == ASSUME NEW p, NEW globs PROVE SourcePaths(p, globs) \subseteq Sources
  BY DEF SourcePaths

\* A task that takes a step that is not the one to "build" leaves Buildable alone.
LEMMA BuildableStays ==
    ASSUME TaskTypes, Buildable, NEW p \in Procs, UNCHANGED <<config, network>>,
           task' \in [Procs -> TaskSteps], task'[p] # "build",
           \A q \in Procs \ {p} : task'[q] = task[q] /\ include'[q] = include[q]
    PROVE  Buildable'
  <1>1. ASSUME NEW q \in Procs, task'[q] = "build", NEW s \in SourcePaths(q, include'[q])
        PROVE  JobVersion(q, s) \in Versions
    <2>1. q # p
      BY <1>1
    <2>2. task[q] = "build" /\ s \in SourcePaths(q, include[q])
      BY <1>1, <2>1
    <2>3. QED
      BY <2>2 DEF Buildable
  <1>2. \A q \in Procs : task'[q] = "build" => \A s \in SourcePaths(q, include[q])' : JobVersion(q, s)' \in Versions
    BY <1>1, HooksStay
  <1>3. QED
    BY <1>2 DEF Buildable

\* Nor does a step that gives no task more to have compiled, and takes away no
\* artifacts of a task that is not told.
Undisturbed(q) ==
    ~wiped'[q] /\ task'[q] \in Working =>
        \/ Owed(q, asked'[q], task'[q], include'[q], todo'[q]) = {}
        \/ /\ ~wiped[q] /\ task[q] \in Working /\ artifacts'[Dir(q)] = artifacts[Dir(q)]
           /\ Owed(q, asked'[q], task'[q], include'[q], todo'[q]) \subseteq
                 Owed(q, asked[q], task[q], include[q], todo[q])

LEMMA AccumulatedStays ==
    ASSUME Accumulated, UNCHANGED <<config, network>>, \A q \in Procs : Undisturbed(q)
    PROVE  Accumulated'
  <1> DEFINE new(q) == Owed(q, asked'[q], task'[q], include'[q], todo'[q])
             old(q) == Owed(q, asked[q], task[q], include[q], todo[q])
  <1>1. ASSUME NEW q \in Procs, ~wiped'[q], task'[q] \in Working, NEW s \in new(q)
        PROVE  \E a \in artifacts'[Dir(q)] : a.source = s
    <2>1. ~wiped[q] /\ task[q] \in Working /\ artifacts'[Dir(q)] = artifacts[Dir(q)] /\ s \in old(q)
      BY <1>1 DEF Undisturbed
    <2>2. QED
      BY <2>1 DEF Accumulated, There
  <1>2. \A q \in Procs : Dir(q)' = Dir(q) /\ Owed(q, asked[q], task[q], include[q], todo[q])' = new(q)
    BY HooksStay
  <1>3. QED
    BY <1>1, <1>2 DEF Accumulated, There

\* A process whose task goes on as it is, and keeps its artifacts.
LEMMA OtherUndisturbed ==
    ASSUME NEW q \in Procs, task'[q] = task[q], include'[q] = include[q], todo'[q] = todo[q],
           asked'[q] = asked[q], wiped'[q] = wiped[q], artifacts'[Dir(q)] = artifacts[Dir(q)]
    PROVE  Undisturbed(q)
  BY DEF Undisturbed

\* A process that empties directories tells the others who use them.
LEMMA WipeTells ==
    ASSUME TaskTypes, NEW p \in Procs, NEW dirs, Wipe(p, dirs)
    PROVE  /\ artifacts' \in [Dirs -> SUBSET Artifacts] /\ wiped' \in [Procs -> BOOLEAN]
           /\ \A q \in Procs \ {p} : ~wiped'[q] => ~wiped[q] /\ artifacts'[Dir(q)] = artifacts[Dir(q)]
  <1>0. artifacts \in [Dirs -> SUBSET Artifacts] /\ wiped \in [Procs -> BOOLEAN]
    BY DEF TaskTypes
  <1>1. /\ artifacts' = [d \in Dirs |-> IF d \in dirs THEN {} ELSE artifacts[d]]
        /\ wiped' = [q \in Procs |-> IF q = p THEN FALSE ELSE wiped[q] \/ Dir(q) \in dirs]
    BY <1>0 DEF Wipe, Emptied
  <1>2. artifacts' \in [Dirs -> SUBSET Artifacts]
    BY <1>0, <1>1
  <1>3. wiped' \in [Procs -> BOOLEAN]
    BY <1>0, <1>1, Zenon
  <1>4. ASSUME NEW q \in Procs \ {p}, ~wiped'[q] PROVE ~wiped[q] /\ artifacts'[Dir(q)] = artifacts[Dir(q)]
    <2>1. ~(wiped[q] \/ Dir(q) \in dirs)
      BY <1>1, <1>4
    <2>2. QED
      BY <1>1, <2>1, DirIsOne
  <1>5. QED
    BY <1>2, <1>3, <1>4

\* The files a list of batches names are those of its first and of the others.
LEMMA FilesSplit ==
    ASSUME NEW p, NEW S, NEW batches \in Seq(S), batches # <<>>
    PROVE  FilesOf(p, batches) = SourcePaths(p, BatchGlobs(Head(batches))) \cup FilesOf(p, Tail(batches))
  <1> DEFINE F(b) == SourcePaths(p, BatchGlobs(b))
  <1> HIDE DEF F
  <1>1. \A s : s \in UNION {F(batches[i]) : i \in DOMAIN batches} <=>
              s \in F(Head(batches)) \/ s \in UNION {F(Tail(batches)[i]) : i \in DOMAIN Tail(batches)}
    <2>1. ASSUME NEW s, NEW i \in DOMAIN batches, s \in F(batches[i])
          PROVE  s \in F(Head(batches)) \/ \E k \in DOMAIN Tail(batches) : s \in F(Tail(batches)[k])
      <3>1. CASE i = 1
        BY <2>1, <3>1
      <3>2. CASE i # 1
        <4>1. i - 1 \in DOMAIN Tail(batches) /\ Tail(batches)[i - 1] = batches[i]
          BY <3>2
        <4>2. QED
          BY <2>1, <4>1
      <3>3. QED
        BY <3>1, <3>2
    <2>2. ASSUME NEW s, NEW k \in DOMAIN Tail(batches), s \in F(Tail(batches)[k])
          PROVE  \E i \in DOMAIN batches : s \in F(batches[i])
      <3>1. k + 1 \in DOMAIN batches /\ Tail(batches)[k] = batches[k + 1]
        OBVIOUS
      <3>2. QED
        BY <2>2, <3>1
    <2>3. 1 \in DOMAIN batches /\ Head(batches) = batches[1]
      OBVIOUS
    <2>4. QED
      BY <2>1, <2>2, <2>3
  <1>2. QED
    BY <1>1 DEF FilesOf, F

LEMMA NoFiles == ASSUME NEW p PROVE FilesOf(p, <<>>) = {}
  BY DEF FilesOf

-----------------------------------------------------------------------------
(* The steps of a task                                                     *)

\* hardhat clean, hardhat compile, and the batches' beginning.
LEMMA BeginKeeps ==
    ASSUME IInv, NEW p \in Procs, Clean(p) \/ Compile(p) \/ CompileBatches(p)
    PROVE  IInv'
  <1>0. MInv /\ TaskTypes /\ Buildable /\ Accumulated /\ Cleared
    BY DEF IInv
  <1>1. PICK t \in {"done", "sources", "next"}, files \in SUBSET Sources :
           /\ Begin(p, t, files)
           /\ Owed(p, files, t, include[p], todo'[p]) = {}
           /\ t = "done" => UNCHANGED todo
    <2>1. CASE Clean(p)
      <3>1. Owed(p, {}, "done", include[p], todo'[p]) = {}
        BY DEF Owed
      <3>2. QED
        BY <2>1, <3>1 DEF Clean
    <2>2. CASE Compile(p)
      <3>1. Owed(p, SourcePaths(p, include[p]), "sources", include[p], todo'[p]) = {}
        BY DEF Owed
      <3>2. QED
        BY <2>2, <3>1, SourcesAre DEF Compile
    <2>3. CASE CompileBatches(p)
      <3>1. todo'[p] = config.batches
        BY <1>0, <2>3 DEF CompileBatches, TaskTypes
      <3>2. Owed(p, FilesOf(p, config.batches), "next", include[p], todo'[p]) = {}
        BY <3>1 DEF Owed
      <3>3. FilesOf(p, config.batches) \subseteq Sources
        BY SourcesAre DEF FilesOf
      <3>4. QED
        BY <2>3, <3>2, <3>3 DEF CompileBatches
    <2>4. QED
      BY <2>1, <2>2, <2>3
  <1>2. /\ UNCHANGED <<manifestVars, config, network, include>> /\ Ready(p)
        /\ task' = [task EXCEPT ![p] = t] /\ asked' = [asked EXCEPT ![p] = files]
    BY <1>1 DEF Begin, Goto, Clean, Compile, CompileBatches
  <1>3. /\ task' \in [Procs -> TaskSteps] /\ task'[p] = t
        /\ \A q \in Procs \ {p} : task'[q] = task[q] /\ asked'[q] = asked[q]
        /\ asked' \in [Procs -> SUBSET Sources] /\ asked'[p] = files
    BY <1>0, <1>1, <1>2 DEF TaskTypes, TaskSteps
  <1>4. MInv'
    BY <1>0, <1>2, ManifestStays
  <1>5. Buildable'
    BY <1>0, <1>2, <1>3, BuildableStays
  <1>6. /\ todo' \in [Procs -> Seq({config.batches[i] : i \in DOMAIN config.batches})]
        /\ \A q \in Procs \ {p} : todo'[q] = todo[q]
    <2>1. CASE UNCHANGED todo
      BY <1>0, <2>1 DEF TaskTypes
    <2>2. CASE todo' = [todo EXCEPT ![p] = config.batches]
      <3>1. config.batches \in Seq({config.batches[i] : i \in DOMAIN config.batches})
        BY <1>0, TaskAssumption DEF TaskTypes
      <3>2. QED
        BY <1>0, <2>2, <3>1 DEF TaskTypes
    <2>3. QED
      BY <2>1, <2>2 DEF Clean, Compile, CompileBatches
  <1>7. /\ artifacts' \in [Dirs -> SUBSET Artifacts] /\ wiped' \in [Procs -> BOOLEAN]
        /\ \A q \in Procs \ {p} : ~wiped'[q] => ~wiped[q] /\ artifacts'[Dir(q)] = artifacts[Dir(q)]
    <2>1. CASE \E dirs : Wipe(p, dirs)
      BY <1>0, <2>1, WipeTells
    <2>2. CASE wiped' = [wiped EXCEPT ![p] = FALSE] /\ UNCHANGED artifacts
      BY <1>0, <2>2 DEF TaskTypes
    <2>3. QED
      BY <2>1, <2>2 DEF Clean, Compile, CompileBatches
  <1>8. Accumulated'
    <2>1. Undisturbed(p)
      BY <1>1, <1>2, <1>3 DEF Undisturbed
    <2>2. ASSUME NEW q \in Procs \ {p} PROVE Undisturbed(q)
      BY <1>2, <1>3, <1>6, <1>7 DEF Undisturbed
    <2>3. QED
      BY <1>0, <1>2, <2>1, <2>2, AccumulatedStays
  <1>9. Cleared'
    <2>1. ASSUME NEW q \in Procs, task'[q] \in {"none", "done", "failed"} PROVE todo'[q] = <<>>
      <3>1. CASE q = p
        BY <1>0, <1>1, <1>2, <1>3, <2>1, <3>1 DEF Cleared
      <3>2. CASE q # p
        BY <1>0, <1>3, <1>6, <2>1, <3>2 DEF Cleared, Ready
      <3>3. QED
        BY <3>1, <3>2
    <2>2. QED
      BY <2>1 DEF Cleared, Ready
  <1>10. TaskTypes'
    BY <1>0, <1>2, <1>3, <1>6, <1>7 DEF TaskTypes, Accepted
  <1>11. QED
    BY <1>4, <1>5, <1>8, <1>9, <1>10 DEF IInv

\* A batch's globs take the place of the include list.
LEMMA NextBatchKeeps ==
    ASSUME IInv, NEW p \in Procs, NextBatch(p)
    PROVE  IInv'
  <1>0. MInv /\ TaskTypes /\ Buildable /\ Accumulated /\ Cleared
    BY DEF IInv
  <1> DEFINE Named == {config.batches[i] : i \in DOMAIN config.batches}
             b == Head(todo[p])
  <1>1. /\ task[p] = "next" /\ todo[p] # <<>> /\ task' = [task EXCEPT ![p] = "sources"]
        /\ include' = [include EXCEPT ![p] = BatchGlobs(b)]
        /\ todo' = [todo EXCEPT ![p] = Tail(todo[p])]
        /\ UNCHANGED <<manifestVars, config, network, artifacts, asked, wiped>>
    BY DEF NextBatch, Goto
  <1>2. todo[p] \in Seq(Named) /\ \A c \in Named : c.include \subseteq Sources
    BY <1>0, TaskAssumption DEF TaskTypes
  <1> HIDE DEF Named
  <1>3. b \in Named /\ Tail(todo[p]) \in Seq(Named)
    BY <1>1, <1>2
  <1>4. BatchGlobs(b) \subseteq Sources
    BY <1>2, <1>3 DEF BatchGlobs
  <1>5. /\ todo' \in [Procs -> Seq(Named)] /\ todo'[p] = Tail(todo[p])
        /\ \A q \in Procs \ {p} : todo'[q] = todo[q]
    <2>1. todo \in [Procs -> Seq(Named)]
      BY <1>0 DEF TaskTypes, Named
    <2>2. QED
      BY <1>1, <1>3, <2>1
  <1>6. /\ task' \in [Procs -> TaskSteps] /\ task'[p] = "sources"
        /\ include' \in [Procs -> SUBSET Sources] /\ include'[p] = BatchGlobs(b)
        /\ \A q \in Procs \ {p} : task'[q] = task[q] /\ include'[q] = include[q]
    BY <1>0, <1>1, <1>4 DEF TaskTypes, TaskSteps
  <1>7. MInv'
    BY <1>0, <1>1, ManifestStays
  <1>8. Buildable'
    BY <1>0, <1>1, <1>6, BuildableStays
  <1>9. Accumulated'
    <2>1. FilesOf(p, todo[p]) = SourcePaths(p, BatchGlobs(b)) \cup FilesOf(p, Tail(todo[p]))
      BY <1>1, <1>2, FilesSplit
    <2>2. Owed(p, asked[p], "sources", BatchGlobs(b), Tail(todo[p])) = Owed(p, asked[p], "next", include[p], todo[p])
      BY <2>1 DEF Owed
    <2>3. Undisturbed(p)
      BY <1>1, <1>5, <1>6, <2>2 DEF Undisturbed, Working
    <2>4. ASSUME NEW q \in Procs \ {p} PROVE Undisturbed(q)
      BY <1>1, <1>5, <1>6, OtherUndisturbed
    <2>5. QED
      BY <1>0, <1>1, <2>3, <2>4, AccumulatedStays
  <1>10. TaskTypes'
    BY <1>0, <1>1, <1>5, <1>6 DEF TaskTypes, Accepted, Named
  <1>11. Cleared'
    BY <1>0, <1>5, <1>6 DEF Cleared, Ready
  <1>12. QED
    BY <1>7, <1>8, <1>9, <1>10, <1>11 DEF IInv

\* A pass that throws leaves no batch behind, and one that does not keeps them.
LEMMA ThrowOrKeep ==
    ASSUME TaskTypes, NEW p \in Procs, NEW t \in TaskSteps, Throw(p) \/ (Goto(p, t) /\ UNCHANGED todo)
    PROVE  /\ (task'[p] = t /\ todo'[p] = todo[p]) \/ (task'[p] = "failed" /\ todo'[p] = <<>>)
           /\ \A q \in Procs \ {p} : todo'[q] = todo[q]
           /\ todo' \in [Procs -> Seq({config.batches[i] : i \in DOMAIN config.batches})]
  <1>1. task \in [Procs -> TaskSteps] /\ todo \in [Procs -> Seq({config.batches[i] : i \in DOMAIN config.batches})]
    BY DEF TaskTypes
  <1>2. CASE Throw(p)
    BY <1>1, <1>2 DEF Throw, Goto
  <1>3. CASE Goto(p, t) /\ UNCHANGED todo
    BY <1>1, <1>3 DEF Goto
  <1>4. QED
    BY <1>2, <1>3

\* Hardhat finds a job for every file it looks at, or the task fails.
LEMMA JobsKeeps ==
    ASSUME IInv, NEW p \in Procs, Jobs(p)
    PROVE  IInv'
  <1>0. MInv /\ TaskTypes /\ Buildable /\ Accumulated /\ Cleared
    BY DEF IInv
  <1>1. task[p] = "sources" /\ UNCHANGED <<config, network, include, artifacts, asked, wiped>>
    BY DEF Jobs
  <1>2. MInv'
    <2>1. CASE UNCHANGED manifestVars
      BY <1>0, <2>1, ManifestStays
    <2>2. CASE Resolve(p, Needed(p))
      BY <1>0, <2>2, ResolveKeeps
    <2>3. QED
      BY <2>1, <2>2 DEF Jobs
  <1>3. /\ task' \in [Procs -> TaskSteps] /\ \A q \in Procs \ {p} : task'[q] = task[q]
        /\ task'[p] = "build" => 0 \notin Needed(p)
    BY <1>0 DEF TaskTypes, TaskSteps, Jobs, Goto, Throw
  <1>3a. /\ (task'[p] = "build" /\ todo'[p] = todo[p]) \/ (task'[p] = "failed" /\ todo'[p] = <<>>)
         /\ \A q \in Procs \ {p} : todo'[q] = todo[q]
         /\ todo' \in [Procs -> Seq({config.batches[i] : i \in DOMAIN config.batches})]
    BY <1>0, ThrowOrKeep DEF Jobs, TaskSteps
  <1>4. Accumulated'
    <2>1. Undisturbed(p)
      BY <1>1, <1>3a DEF Undisturbed, Owed, Working
    <2>2. ASSUME NEW q \in Procs \ {p} PROVE Undisturbed(q)
      BY <1>1, <1>3, <1>3a, OtherUndisturbed
    <2>3. QED
      BY <1>0, <1>1, <2>1, <2>2, AccumulatedStays
  <1>4a. Cleared'
    BY <1>0, <1>3, <1>3a DEF Cleared, Ready
  <1>5. Buildable'
    <2>1. CASE task'[p] # "build"
      BY <1>0, <1>1, <1>3, <2>1, BuildableStays
    <2>2. CASE task'[p] = "build"
      <3>1. ASSUME NEW s \in SourcePaths(p, include[p]) PROVE JobVersion(p, s) \in Versions
        <4>1. CASE s \in Stale(p)
          <5>1. JobVersion(p, s) # 0 /\ s \in Sources
            BY <1>3, <2>2, <4>1, SourcesAre DEF Needed
          <5>2. QED
            BY <1>0, <5>1, JobIsVersion
        <4>2. CASE s \notin Stale(p)
          <5>1. PICK a \in artifacts[Dir(p)] : a.version = JobVersion(p, s)
            BY <4>2 DEF Stale
          <5>2. a \in Artifacts
            BY <1>0, DirIsOne DEF TaskTypes
          <5>3. QED
            BY <5>1, <5>2 DEF Artifacts
        <4>3. QED
          BY <4>1, <4>2
      <3>2. ASSUME NEW q \in Procs, task'[q] = "build", NEW s \in SourcePaths(q, include[q])
            PROVE  JobVersion(q, s) \in Versions
        BY <1>0, <1>3, <3>1, <3>2 DEF Buildable
      <3>3. \A q \in Procs : SourcePaths(q, include[q])' = SourcePaths(q, include[q])
        BY <1>1, HooksStay
      <3>4. \A q \in Procs : task'[q] = "build" => \A s \in SourcePaths(q, include[q])' : JobVersion(q, s)' \in Versions
        BY <1>1, <3>2, <3>3, HooksStay
      <3>5. QED
        BY <3>4 DEF Buildable
    <2>3. QED
      BY <2>1, <2>2
  <1>6. TaskTypes'
    BY <1>0, <1>1, <1>3, <1>3a DEF TaskTypes, Accepted
  <1>7. QED
    BY <1>2, <1>4, <1>4a, <1>5, <1>6 DEF IInv

\* The compilers' output takes the place of what there was of the same files.
LEMMA MadeIsThere ==
    ASSUME NEW old, NEW made, NEW files,
           \A s \in files : \E a \in old : a.source = s
    PROVE  \A s \in files : \E a \in {a \in old : \A b \in made : a.source # b.source} \cup made : a.source = s
  <1> SUFFICES ASSUME NEW s \in files
               PROVE  \E a \in {a \in old : \A b \in made : a.source # b.source} \cup made : a.source = s
    OBVIOUS
  <1>1. PICK a \in old : a.source = s
    OBVIOUS
  <1>2. CASE \E b \in made : b.source = s
    BY <1>2
  <1>3. CASE ~\E b \in made : b.source = s
    BY <1>1, <1>3
  <1>4. QED
    BY <1>2, <1>3

LEMMA BuildKeeps ==
    ASSUME IInv, NEW p \in Procs, Build(p)
    PROVE  IInv'
  <1>0. MInv /\ TaskTypes /\ Buildable /\ Accumulated /\ Cleared
    BY DEF IInv
  <1>1. /\ task[p] = "build" /\ Answered(p) /\ \A v \in Versions : Ended(call[p][v])
        /\ UNCHANGED <<published, fileVars, fetchVars, overlapped, config, network, include, asked, wiped>>
    BY DEF Build
  <1> DEFINE t == IF todo[p] = <<>> THEN "done" ELSE "next"
  <1>2. MInv'
    BY <1>0, <1>1, AnsweredKeeps
  <1>3. /\ task' \in [Procs -> TaskSteps] /\ task'[p] # "build"
        /\ \A q \in Procs \ {p} : task'[q] = task[q]
    BY <1>0 DEF TaskTypes, TaskSteps, Build, Goto, Throw
  <1>4. /\ (task'[p] = t /\ todo'[p] = todo[p]) \/ (task'[p] = "failed" /\ todo'[p] = <<>>)
        /\ \A q \in Procs \ {p} : todo'[q] = todo[q]
        /\ todo' \in [Procs -> Seq({config.batches[i] : i \in DOMAIN config.batches})]
    BY <1>0, ThrowOrKeep DEF Build, TaskSteps
  <1>5. Buildable'
    BY <1>0, <1>1, <1>3, BuildableStays
  <1>6. Cleared'
    BY <1>0, <1>3, <1>4 DEF Cleared, Ready
  <1>7. artifacts' \in [Dirs -> SUBSET Artifacts] /\ Accumulated'
    <2>1. CASE UNCHANGED artifacts /\ Throw(p)
      <3>1. task'[p] = "failed"
        BY <1>0, <2>1 DEF Throw, Goto, TaskTypes
      <3>2. Undisturbed(p)
        BY <3>1 DEF Undisturbed, Working
      <3>3. ASSUME NEW q \in Procs \ {p} PROVE Undisturbed(q)
        BY <1>1, <1>3, <1>4, <2>1, OtherUndisturbed
      <3>4. QED
        BY <1>0, <1>1, <2>1, <3>2, <3>3, AccumulatedStays DEF TaskTypes
    <2>2. CASE ~(UNCHANGED artifacts /\ Throw(p))
      <3> DEFINE made == {[source |-> s, version |-> JobVersion(p, s),
                           tool |-> IF IsActive(p) THEN "tron-solc" ELSE "solc"] : s \in Stale(p)}
                 kept == {a \in artifacts[Dir(p)] : \A b \in made : a.source # b.source}
                 looked == SourcePaths(p, include[p])
      <3>1. artifacts' = [artifacts EXCEPT ![Dir(p)] = kept \cup made] /\ Goto(p, t) /\ UNCHANGED todo
        BY <2>2 DEF Build
      <3>2. looked \subseteq Sources /\ Stale(p) \subseteq looked
        BY SourcesAre DEF Stale
      <3>3. made \subseteq Artifacts
        BY <1>0, <1>1, <3>2 DEF Buildable, Artifacts
      <3>4. kept \cup made \subseteq Artifacts
        BY <1>0, <3>3, DirIsOne DEF TaskTypes
      <3>5. ASSUME NEW s \in Stale(p) PROVE \E a \in made : a.source = s
        <4> DEFINE r == [source |-> s, version |-> JobVersion(p, s),
                         tool |-> IF IsActive(p) THEN "tron-solc" ELSE "solc"]
        <4>1. r \in made /\ r.source = s
          OBVIOUS
        <4>2. QED
          BY <4>1
      <3>6. \A s \in looked \ Stale(p) : \E a \in artifacts[Dir(p)] : a.source = s
        BY DEF Stale
      <3> HIDE DEF made, looked
      <3>7. \A s \in looked : \E a \in kept \cup made : a.source = s
        <4>1. \A s \in looked \ Stale(p) : \E a \in kept \cup made : a.source = s
          BY <3>6, MadeIsThere
        <4>2. QED
          BY <3>5, <4>1
      <3>8. artifacts' \in [Dirs -> SUBSET Artifacts] /\ artifacts'[Dir(p)] = kept \cup made
        BY <1>0, <3>1, <3>4, DirIsOne DEF TaskTypes
      <3> DEFINE old(q) == Owed(q, asked[q], task[q], include[q], todo[q])
                 new(q) == Owed(q, asked'[q], task'[q], include'[q], todo'[q])
      <3>9. ASSUME NEW q \in Procs, ~wiped[q], task[q] \in Working, NEW s \in old(q)
            PROVE  \E a \in artifacts'[Dir(q)] : a.source = s
        <4>1. \A u \in old(q) : \E a \in artifacts[Dir(q)] : a.source = u
          BY <1>0, <3>9 DEF Accumulated, There
        <4> HIDE DEF old, kept
        <4>2. CASE Dir(q) = Dir(p)
          <5>1. \A u \in old(q) : \E a \in kept \cup made : a.source = u
            BY <4>1, <4>2, MadeIsThere DEF kept
          <5>2. QED
            BY <3>8, <3>9, <4>2, <5>1
        <4>3. CASE Dir(q) # Dir(p)
          <5>1. artifacts'[Dir(q)] = artifacts[Dir(q)]
            BY <1>0, <3>1, <4>3, DirIsOne DEF TaskTypes
          <5>2. QED
            BY <3>9, <4>1, <5>1
        <4>4. QED
          BY <4>2, <4>3
      <3>10. task'[p] = t /\ todo'[p] = todo[p] /\ t \in {"done", "next"}
        BY <1>0, <3>1 DEF Goto, TaskTypes
      <3>11. new(p) \subseteq old(p) \cup looked
        BY <1>1, <3>10 DEF Owed, looked
      <3>12. \A q \in Procs \ {p} : new(q) = old(q)
        BY <1>1, <1>3, <1>4
      <3>13. ASSUME NEW q \in Procs, ~wiped[q], task'[q] \in Working, NEW s \in new(q)
             PROVE  \E a \in artifacts'[Dir(q)] : a.source = s
        <4>1. task[q] \in Working
          BY <1>1, <1>3, <3>13 DEF Working
        <4>2. CASE s \in old(q)
          BY <3>9, <3>13, <4>1, <4>2
        <4>3. CASE s \notin old(q)
          <5>1. q = p /\ s \in looked
            BY <3>11, <3>12, <3>13, <4>3
          <5>2. QED
            BY <3>7, <3>8, <5>1
        <4>4. QED
          BY <4>2, <4>3
      <3>14. \A q \in Procs : Dir(q)' = Dir(q) /\ Owed(q, asked[q], task[q], include[q], todo[q])' = new(q)
        BY <1>1, HooksStay
      <3>15. Accumulated'
        BY <1>1, <3>13, <3>14 DEF Accumulated, There
      <3>16. QED
        BY <3>8, <3>15
    <2>3. QED
      BY <2>1, <2>2
  <1>8. TaskTypes'
    BY <1>0, <1>1, <1>3, <1>4, <1>7 DEF TaskTypes, Accepted
  <1>9. QED
    BY <1>2, <1>5, <1>6, <1>7, <1>8 DEF IInv

\* A killed process names no files any more.
LEMMA KilledKeeps ==
    ASSUME IInv, NEW p \in Procs, Killed(p)
    PROVE  IInv'
  <1>0. MInv /\ TaskTypes /\ Buildable /\ Accumulated /\ Cleared
    BY DEF IInv
  <1>1. /\ Kill(p) /\ UNCHANGED <<config, network, artifacts, wiped>>
        /\ task' = [task EXCEPT ![p] = "none"] /\ todo' = [todo EXCEPT ![p] = <<>>]
        /\ include' = [include EXCEPT ![p] = config.include]
        /\ asked' = [asked EXCEPT ![p] = {}]
    BY DEF Killed, Goto
  <1>2. config.include \subseteq Sources
    BY <1>0, TaskAssumption DEF TaskTypes
  <1>3. /\ task' \in [Procs -> TaskSteps] /\ task'[p] = "none"
        /\ include' \in [Procs -> SUBSET Sources] /\ asked' \in [Procs -> SUBSET Sources]
        /\ \A q \in Procs \ {p} : task'[q] = task[q] /\ include'[q] = include[q] /\ asked'[q] = asked[q]
    BY <1>0, <1>1, <1>2 DEF TaskTypes, TaskSteps
  <1>4. /\ todo' \in [Procs -> Seq({config.batches[i] : i \in DOMAIN config.batches})]
        /\ todo'[p] = <<>> /\ \A q \in Procs \ {p} : todo'[q] = todo[q]
    BY <1>0, <1>1 DEF TaskTypes
  <1>5. MInv'
    BY <1>0, <1>1, KillKeeps
  <1>6. Buildable'
    BY <1>0, <1>1, <1>3, BuildableStays
  <1>7. Accumulated'
    <2>1. Undisturbed(p)
      BY <1>3 DEF Undisturbed, Working
    <2>2. ASSUME NEW q \in Procs \ {p} PROVE Undisturbed(q)
      BY <1>1, <1>3, <1>4, OtherUndisturbed
    <2>3. QED
      BY <1>0, <1>1, <2>1, <2>2, AccumulatedStays
  <1>7a. Cleared'
    BY <1>0, <1>3, <1>4 DEF Cleared, Ready
  <1>8. TaskTypes'
    BY <1>0, <1>1, <1>3, <1>4 DEF TaskTypes, Accepted
  <1>9. QED
    BY <1>5, <1>6, <1>7, <1>7a, <1>8 DEF IInv

\* A step of the manifest alone.
LEMMA TasksStay ==
    ASSUME IInv, UNCHANGED taskVars, MInv'
    PROVE  IInv'
  <1>1. UNCHANGED <<config, network, include, todo, task, artifacts, asked, wiped>>
    BY DEF taskVars
  <1>2. TaskTypes'
    BY <1>1 DEF IInv, TaskTypes, Accepted
  <1>3. \A p \in Procs : SourcePaths(p, include[p])' = SourcePaths(p, include[p])
    BY <1>1, HooksStay
  <1>4. Buildable'
    BY <1>1, <1>3, HooksStay DEF IInv, Buildable
  <1>5. Accumulated'
    BY <1>1, HooksStay DEF IInv, Accumulated, There
  <1>6. Cleared'
    BY <1>1 DEF IInv, Cleared, Ready
  <1>7. QED
    BY <1>2, <1>4, <1>5, <1>6 DEF IInv

\* The invariant holds of every behaviour.
THEOREM Invariance == Spec => []IInv
  <1>1. Init => IInv
    <2> SUFFICES ASSUME Init PROVE IInv
      OBVIOUS
    <2>1. /\ config \in Configs /\ Accepted(config) /\ network \in [Procs -> BOOLEAN]
          /\ config.include \subseteq Sources
      BY TaskAssumption DEF Init
    <2>2. TaskTypes
      BY <2>1 DEF Init, TaskTypes, TaskSteps, Dirs
    <2>3. Buildable /\ Accumulated /\ Cleared
      BY DEF Init, Buildable, Accumulated, Cleared, Working
    <2>4. QED
      BY <2>2, <2>3, ManifestBegins DEF Init, IInv
  <1>2. IInv /\ [Next]_vars => IInv'
    <2> SUFFICES ASSUME IInv, [Next]_vars PROVE IInv'
      OBVIOUS
    <2>0. MInv
      BY DEF IInv
    <2>1. CASE (Publish \/ Age) /\ UNCHANGED taskVars
      BY <2>0, <2>1, PublishKeeps, AgeKeeps, TasksStay
    <2>2. ASSUME NEW p \in Procs, Clean(p) \/ Compile(p) \/ CompileBatches(p) PROVE IInv'
      BY <2>2, BeginKeeps
    <2>3. ASSUME NEW p \in Procs, Turn(p) PROVE IInv'
      BY <2>0, <2>3, NextBatchKeeps, JobsKeeps, BuildKeeps, ProgressKeeps, TasksStay DEF Turn
    <2>4. ASSUME NEW p \in Procs, Killed(p) PROVE IInv'
      BY <2>4, KilledKeeps
    <2>5. CASE UNCHANGED vars
      BY <2>0, <2>5, ManifestStays, TasksStay DEF vars
    <2>6. QED
      BY <2>1, <2>2, <2>3, <2>4, <2>5 DEF Next
  <1>3. QED
    BY <1>1, <1>2, PTL DEF Spec

-----------------------------------------------------------------------------
(* What a call is told                                                     *)

\* A step is honest to v's call of q: it does not throw if there was a copy, and
\* does not report missing what was published.
Honest(q, v) ==
    /\ Turns(q, v, "threw") /\ call[q][v].had => overlapped
    /\ Turns(q, v, "missing") /\ ~call[q][v].excused => v > call[q][v].since

\* A call that goes on is not told anything yet.
LEMMA GoingOnIsHonest ==
    ASSUME NEW q, NEW v, call'[q][v].at \notin {"threw", "missing"} \/ call'[q][v].at = call[q][v].at
    PROVE  Honest(q, v)
  BY DEF Honest, Turns

\* It is told by its search, and that it is missing only after a refresh.
LEMMA SearchIsHonest ==
    ASSUME MInv, NEW p \in Procs, NEW w \in Versions, UseCopy(p, w) \/ AwaitFetch(p, w) \/ Find(p, w),
           NEW q \in Procs, NEW v \in Versions
    PROVE  Honest(q, v)
  <1> DEFINE c == call[p][w]
  <1>1. c \in Call
    BY DEF MInv, ManifestTypeOK
  <1>2. PICK d \in Call : Becomes(p, w, d) /\ d.at \in {"find", "wait", "load", "found", "invalid", "missing"}
                         /\ (d.at = "missing" => c.at = "find" /\ c.forced /\ ~(w <= c.given))
    <2>1. CASE UseCopy(p, w)
      <3>1. [c EXCEPT !.at = "find", !.given = list] \in Call /\ [c EXCEPT !.at = "find", !.given = list].at = "find"
        BY <1>1, <2>1 DEF UseCopy, Call, Readable
      <3>2. QED
        BY <2>1, <3>1 DEF UseCopy
    <2>2. CASE AwaitFetch(p, w)
      <3> DEFINE late == fetching[p] \notin {"none", "fetch"}
      <3>1. late \in BOOLEAN /\ Becomes(p, w, [c EXCEPT !.at = "wait", !.excused = late])
        BY <2>2 DEF AwaitFetch
      <3> HIDE DEF late
      <3>2. [c EXCEPT !.at = "wait", !.excused = late] \in Call /\ [c EXCEPT !.at = "wait", !.excused = late].at = "wait"
        BY <1>1, <3>1 DEF Call
      <3>3. QED
        BY <3>1, <3>2
    <2>3. CASE Find(p, w)
      <3>0. PICK how \in Outcomes(c, w) : Becomes(p, w, [c EXCEPT !.at = how, !.forced = c.forced \/ how = "load"])
        BY <2>3 DEF Find
      <3> DEFINE d == [c EXCEPT !.at = how, !.forced = c.forced \/ how = "load"]
      <3>1. c.at = "find" /\ Becomes(p, w, d)
        BY <2>3, <3>0 DEF Find
      <3>2. /\ how \in {"found", "invalid", "missing", "load"} /\ c.forced \in BOOLEAN
            /\ how = "missing" => c.forced /\ ~(w <= c.given)
        BY <1>1, <3>0 DEF Outcomes, Call
      <3>3. d \in Call /\ d.at = how
        BY <1>1, <3>2 DEF Call
      <3> HIDE DEF d
      <3>4. QED
        BY <3>1, <3>2, <3>3
    <2>4. QED
      BY <2>1, <2>2, <2>3
  <1>3. /\ call'[p][w].at = d.at
        /\ \A r \in Procs, u \in Versions : r # p \/ u # w => call'[r][u] = call[r][u]
    BY <1>2, AfterCall, BecomesCall DEF MInv
  <1>4. CASE q = p /\ v = w /\ d.at = "missing"
    <2>1. RecentIn(c, fetching[p], text[p])
      BY DEF MInv, Refreshed
    <2>2. w \in Nat /\ c.given \in Nat /\ c.since \in Nat
      BY <1>1, ManifestAssumption DEF Call, Versions
    <2>3. ~c.excused => w > c.since
      BY <1>2, <1>4, <2>1, <2>2 DEF RecentIn
    <2>4. QED
      BY <1>3, <1>4, <2>3 DEF Honest, Turns
  <1>5. CASE ~(q = p /\ v = w /\ d.at = "missing")
    BY <1>2, <1>3, <1>5, GoingOnIsHonest
  <1>6. QED
    BY <1>4, <1>5

\* ... and by the fetch it waits for, which throws only if there is no copy.
LEMMA SettlingIsHonest ==
    ASSUME MInv, NEW p \in Procs, NEW c \in [Versions -> Call], NEW open \in [Procs -> Paths],
           Settle(p, c, open),
           \A v \in Versions : c[v].at \in {"find", "threw"} /\ (c[v].at = "threw" => ~Readable),
           NEW q \in Procs, NEW v \in Versions
    PROVE  Honest(q, v)
  <1>1. \A w \in Versions : c[w].at # "wait"
    OBVIOUS
  <1>2. /\ \A w \in Versions : call'[p][w] = IF call[p][w].at = "wait" THEN c[w] ELSE call[p][w]
        /\ \A r \in Procs \ {p} : call'[r] = call[r]
    BY <1>1, SettleCall DEF MInv
  <1>3. CASE q = p /\ c[v].at = "threw"
    <2>1. call[q][v].had => overlapped
      BY <1>3 DEF MInv, CopyStays
    <2>2. call'[q][v].at # "missing" \/ call'[q][v].at = call[q][v].at
      BY <1>2, <1>3
    <2>3. QED
      BY <2>1, <2>2 DEF Honest, Turns
  <1>4. CASE ~(q = p /\ c[v].at = "threw")
    BY <1>2, <1>4, GoingOnIsHonest
  <1>5. QED
    BY <1>3, <1>4

LEMMA FailureIsHonest ==
    ASSUME MInv, NEW p \in Procs, Fail(p), NEW q \in Procs, NEW v \in Versions
    PROVE  Honest(q, v)
  <1> DEFINE c == IF Readable THEN Excused(Given(p, list)) ELSE Thrown
  <1>1. /\ c \in [Versions -> Call]
        /\ \A w \in Versions : c[w].at \in {"find", "threw"} /\ (c[w].at = "threw" => ~Readable)
    BY FailedCalls
  <1>2. Settle(p, c, fd)
    BY DEF Fail
  <1> HIDE DEF c
  <1>3. fd \in [Procs -> Paths]
    BY DEF MInv, ManifestTypeOK, Paths
  <1>4. QED
    BY <1>1, <1>2, <1>3, SettlingIsHonest

\* Every step of a process's calls and of its fetch is honest.
LEMMA ProgressIsHonest ==
    ASSUME MInv, NEW p \in Procs, Progress(p), NEW q \in Procs, NEW v \in Versions
    PROVE  Honest(q, v)
  <1>1. ASSUME NEW w \in Versions, UseCopy(p, w) \/ AwaitFetch(p, w) \/ Find(p, w)
        PROVE  Honest(q, v)
    BY <1>1, SearchIsHonest
  <1>2. CASE Open(p) \/ Write(p)
    <2>1. CASE Fail(p)
      BY <2>1, FailureIsHonest
    <2>2. CASE UNCHANGED call
      BY <2>2, GoingOnIsHonest
    <2>3. QED
      BY <1>2, <2>1, <2>2 DEF Open, Truncate, Write
  <1>3. CASE Fetch(p)
    <2>1. CASE Fail(p)
      BY <2>1, FailureIsHonest
    <2>2. CASE UNCHANGED call
      BY <2>2, GoingOnIsHonest
    <2>3. QED
      BY <1>3, <2>1, <2>2 DEF Fetch
  <1>4. CASE Rename(p)
    <2>1. CASE tmp # None
      <3> DEFINE open == [r \in Procs |-> Moved(r)]
                 c == Given(p, text[p])
      <3>1. Settle(p, c, open) /\ text[p] \in Versions
        BY <1>4, <2>1 DEF Rename, MInv, Staged, Writing
      <3>2. open \in [Procs -> Paths]
        BY DEF Moved, Paths, MInv, ManifestTypeOK
      <3>3. c \in [Versions -> Call] /\ \A w \in Versions : c[w].at = "find"
        BY <3>1, GivenCalls
      <3> HIDE DEF c, open
      <3>4. QED
        BY <3>1, <3>2, <3>3, SettlingIsHonest
    <2>2. CASE tmp = None
      BY <1>4, <2>2, FailureIsHonest DEF Rename
    <2>3. QED
      BY <2>1, <2>2
  <1>5. QED
    BY <1>1, <1>2, <1>3, <1>4 DEF Progress

\* So is every step of a task.
LEMMA NextIsHonest ==
    ASSUME IInv, Next, NEW q \in Procs, NEW v \in Versions
    PROVE  Honest(q, v)
  <1>0. MInv
    BY DEF IInv
  <1>1. CASE UNCHANGED call
    BY <1>1, GoingOnIsHonest
  <1>2. ASSUME NEW p \in Procs, Answered(p) PROVE Honest(q, v)
    <2>1. call'[q][v] = call[q][v] \/ call'[q][v] = Idle
      BY <1>0, <1>2, AnsweredCall DEF MInv
    <2>2. QED
      BY <2>1, IdleCall, GoingOnIsHonest
  <1>3. ASSUME NEW p \in Procs, NEW wanted, Resolve(p, wanted) PROVE Honest(q, v)
    <2> DEFINE fresh == [Idle EXCEPT !.at = "load", !.since = published, !.had = Readable]
    <2>1. call' = [call EXCEPT ![p] = [w \in Versions |-> IF w \in wanted THEN fresh ELSE call[p][w]]]
      BY <1>3 DEF Resolve
    <2>2. fresh.at = "load"
      BY DEF Idle
    <2> HIDE DEF fresh
    <2>3. call \in [Procs -> [Versions -> Call]]
      BY <1>0 DEF MInv, ManifestTypeOK
    <2>4. call'[q][v] = call[q][v] \/ call'[q][v] = fresh
      BY <2>1, <2>3
    <2>5. QED
      BY <2>2, <2>4, GoingOnIsHonest
  <1>4. CASE (Publish \/ Age) /\ UNCHANGED taskVars
    BY <1>1, <1>4 DEF Publish, Age
  <1>5. ASSUME NEW p \in Procs, Clean(p) \/ Compile(p) \/ CompileBatches(p) PROVE Honest(q, v)
    BY <1>1, <1>5 DEF Clean, Compile, CompileBatches, Begin, manifestVars
  <1>6. ASSUME NEW p \in Procs, Turn(p) PROVE Honest(q, v)
    <2>1. CASE NextBatch(p)
      BY <1>1, <2>1 DEF NextBatch, manifestVars
    <2>2. CASE Jobs(p)
      BY <1>1, <1>3, <2>2 DEF Jobs, manifestVars
    <2>3. CASE Build(p)
      BY <1>2, <2>3 DEF Build
    <2>4. CASE Progress(p)
      BY <1>0, <2>4, ProgressIsHonest
    <2>5. QED
      BY <1>6, <2>1, <2>2, <2>3, <2>4 DEF Turn
  <1>7. ASSUME NEW p \in Procs, Killed(p) PROVE Honest(q, v)
    BY <1>2, <1>7 DEF Killed, Kill
  <1>8. QED
    BY <1>4, <1>5, <1>6, <1>7 DEF Next

-----------------------------------------------------------------------------

\* Every variable of the compile tasks and of the manifest ranges over its type,
\* and whoever waits, waits for a fetch (_inFlight of loadManifest).
THEOREM TypeCorrect == Spec => []TypeOK
  <1>1. IInv => TypeOK
    <2> SUFFICES ASSUME IInv PROVE TypeOK
      OBVIOUS
    <2>1. \A d \in DOMAIN artifacts : \A a \in artifacts[d] :
              a.source \in Sources /\ a.version \in Versions /\ a.tool \in {"tron-solc", "solc"}
      BY DEF IInv, TaskTypes, Artifacts
    <2>2. QED
      BY <2>1 DEF IInv, MInv, TaskTypes, TaskSteps, TypeOK
  <1>2. QED
    BY <1>1, Invariance, PTL

\* However processes that share the cache fetch, write, rename and are killed, the
\* copy of the list is a whole text until two have been writing at once
\* (writeCache's staging path, which all of them share).
THEOREM CopyStaysWhole == Spec => []LoneWriterKeepsCopy
  <1>1. IInv => LoneWriterKeepsCopy
    BY DEF IInv, MInv, Staged, LoneWriterKeepsCopy, Readable
  <1>2. QED
    BY <1>1, Invariance, PTL

\* A call that found a copy when it began does not throw (loadManifest's catch),
\* for any number of processes, fetches and failures.
THEOREM CopyServesOffline == Spec => OfflineServes
  <1> DEFINE Serves == \A p \in Procs, v \in Versions :
                          Turns(p, v, "threw") /\ call[p][v].had => overlapped
  <1>1. IInv /\ [Next]_vars => [Serves]_manifestVars
    <2>1. IInv /\ Next => Serves
      BY NextIsHonest DEF Honest
    <2>2. UNCHANGED vars => UNCHANGED manifestVars
      BY DEF vars
    <2> HIDE DEF Serves
    <2>3. QED
      BY <2>1, <2>2
  <1> HIDE DEF Serves
  <1>2. Spec => [][Serves]_manifestVars
    BY <1>1, Invariance, PTL DEF Spec
  <1>3. QED
    BY <1>2 DEF OfflineServes, Serves

\* resolveBuild reports missing only what came out after it began, unless its
\* refresh failed or joined a fetch that had been answered before.
THEOREM MissingAreUnpublished == Spec => MissingIsUnpublished
  <1> DEFINE Unpublished == \A p \in Procs, v \in Versions :
                               Turns(p, v, "missing") /\ ~call[p][v].excused => v > call[p][v].since
  <1>1. IInv /\ [Next]_vars => [Unpublished]_manifestVars
    <2>1. IInv /\ Next => Unpublished
      BY NextIsHonest DEF Honest
    <2>2. UNCHANGED vars => UNCHANGED manifestVars
      BY DEF vars
    <2> HIDE DEF Unpublished
    <2>3. QED
      BY <2>1, <2>2
  <1> HIDE DEF Unpublished
  <1>2. Spec => [][Unpublished]_manifestVars
    BY <1>1, Invariance, PTL DEF Spec
  <1>3. QED
    BY <1>2 DEF MissingIsUnpublished, Unpublished

\* A task that is done has left artifacts of every file that it was to compile
\* (tron:compile-batches empties the directories once, before the first batch, and
\* ends with the first pass that throws), unless another process has emptied them.
THEOREM BatchesAddUp == Spec => []BatchesAccumulate
  <1>1. IInv => BatchesAccumulate
    <2> SUFFICES ASSUME IInv, NEW p \in Procs, task[p] = "done", ~wiped[p]
                 PROVE  \A s \in asked[p] : \E a \in artifacts[Dir(p)] : a.source = s
      BY DEF BatchesAccumulate
    <2>1. Owed(p, asked[p], "done", include[p], <<>>) = asked[p]
      BY NoFiles DEF Owed
    <2>2. todo[p] = <<>>
      BY DEF IInv, Cleared, Ready
    <2>3. QED
      BY <2>1, <2>2 DEF IInv, Accumulated, There, Working
  <1>2. QED
    BY <1>1, Invariance, PTL
=============================================================================
