----------------------------- MODULE CompileTask -----------------------------
(***************************************************************************)
(* hardhat compile and tron:compile-batches under the plugin's hooks       *)
(* (compile/config.js, index.js, source-resolver.js, version-selector.js,  *)
(* tasks/tron-compile-batches.js), in processes that share a project and,  *)
(* through CompilerManifest, the compiler cache.                           *)
(*                                                                         *)
(* The processes run with networks of their own, and Hardhat, where the    *)
(* hooks leave things to it, does what its documentation says: it takes    *)
(* the newest configured compiler a file's pragma allows, compiles what    *)
(* its cache does not have at that version, and fails when there is none.  *)
(***************************************************************************)
EXTENDS CompilerManifest, Sequences, FiniteSetsExt

CONSTANTS
    Sources,  \* records: the dir, leaf and pragma of a file, and whether it is under contracts-exposed
    Configs,  \* the user configurations considered
    Networks, \* the processes' networks considered: whether each is tron-typed
    MaxTasks  \* bound: tasks run

ASSUME TaskAssumption ==
    /\ \A s \in Sources : s.pragma \subseteq Versions /\ s.exposed \in BOOLEAN
    /\ \A c \in Configs :
          LET Named == {c.batches[i] : i \in DOMAIN c.batches}
          IN /\ c.compilers \in Seq(Versions) /\ c.include \subseteq Sources
             /\ c.batches \in Seq(Named) /\ \A b \in Named : b.include \subseteq Sources
    /\ Networks \subseteq [Procs -> BOOLEAN]
    /\ MaxTasks \in Nat

VARIABLES
    config,    \* hre.config.tre.compiler, with solidity.compilers
    network,   \* network[p]: p's network is tron-typed
    include,   \* include[p]: tre.compiler.include as p has it
    todo,      \* todo[p]: the batches left
    task,      \* task[p]: what p's task does next
    artifacts, \* artifacts[d]: what is in artifacts/ or artifacts-tron/
    tasks,     \* tasks begun
    \* history, read by properties only
    asked,     \* asked[p]: the files p's task is to compile, in all its batches
    wiped      \* wiped[p]: another process has removed artifacts since the task began

taskVars == <<config, network, include, todo, task, artifacts, tasks, asked, wiped>>
vars == <<manifestVars, taskVars>>

\* extendCompileConfig throws for the others.  Only target tron is held to a
\* single version; under the other one several are let through.
Accepted(c) ==
    /\ c.target \in {"tron", "tron-when-network-tron"}
    /\ ~c.disabled /\ c.target = "tron" => Len(c.compilers) = 1

Init ==
    /\ ManifestInit
    /\ config \in {c \in Configs : Accepted(c)} /\ network \in Networks
    /\ include = [p \in Procs |-> config.include]
    /\ todo = [p \in Procs |-> <<>>] /\ task = [p \in Procs |-> "none"]
    /\ artifacts = [d \in {"artifacts", "artifacts-tron"} |-> {}]
    /\ tasks = 0
    /\ asked = [p \in Procs |-> {}] /\ wiped = [p \in Procs |-> FALSE]

-----------------------------------------------------------------------------
(* The hooks                                                               *)

IsActive(p) == ~config.disabled /\ (config.target = "tron" \/ network[p])

\* extendEnvironment: the suffix, for a process the hooks are active in.
Dir(p) == IF IsActive(p) /\ config.separate THEN "artifacts-tron" ELSE "artifacts"

\* resolveSourcePaths, for a process that has this include list.  Without globs
\* Hardhat looks for itself, and does not find contracts-exposed.
SourcePaths(p, globs) ==
    IF ~IsActive(p) \/ (globs = {} /\ config.exclude = {}) THEN {s \in Sources : ~s.exposed}
    ELSE {s \in Sources : (globs = {} \/ s \in globs) /\ s \notin config.exclude}

Compilers == {config.compilers[i] : i \in DOMAIN config.compilers}

\* Hardhat's job for a file, or none.
Job(s) == Max({0} \cup (s.pragma \cap Compilers))

\* selectCompilationJob: the first compiler instead, but not for a file that has
\* no job: the override does not help a pragma that rules the compiler out.
JobVersion(p, s) ==
    IF IsActive(p) /\ config.override /\ Job(s) # 0 THEN config.compilers[1] ELSE Job(s)

\* batchGlobs: a directory brings its wrappers along.  A batch that names nothing
\* restricts nothing: "a no-op (compiles nothing)" it is not.
BatchGlobs(b) ==
    IF b.include # {} THEN b.include
    ELSE {s \in Sources : s.dir \in b.dirs \/ s.leaf \in b.leaves}

-----------------------------------------------------------------------------
(* The tasks                                                               *)

Ready(p) == task[p] \in {"none", "done", "failed"}
Goto(p, t) == task' = [task EXCEPT ![p] = t]
Emptied(dirs) == artifacts' = [d \in DOMAIN artifacts |-> IF d \in dirs THEN {} ELSE artifacts[d]]
Wipe(p, dirs) == Emptied(dirs) /\ wiped' = [q \in Procs |-> IF q = p THEN FALSE ELSE wiped[q] \/ Dir(q) \in dirs]

Begin(p, t, files) ==
    /\ Ready(p) /\ tasks < MaxTasks /\ tasks' = tasks + 1
    /\ Goto(p, t)
    /\ asked' = [asked EXCEPT ![p] = files]
    /\ UNCHANGED <<manifestVars, config, network>>

\* hardhat clean: in suffix mode the stock directory goes too.
Clean(p) ==
    /\ Begin(p, "done", {})
    /\ Wipe(p, IF IsActive(p) /\ config.separate THEN DOMAIN artifacts ELSE {Dir(p)})
    /\ UNCHANGED <<include, todo>>

\* hardhat compile, with the include list as it is.
Compile(p) ==
    /\ Begin(p, "sources", SourcePaths(p, include[p]))
    /\ wiped' = [wiped EXCEPT ![p] = FALSE]
    /\ UNCHANGED <<include, todo, artifacts>>

\* The files the batches of a list name.
FilesOf(p, batches) == UNION {SourcePaths(p, BatchGlobs(batches[i])) : i \in DOMAIN batches}

\* tron:compile-batches starts from empty directories.
CompileBatches(p) ==
    /\ config.batches # <<>>
    /\ Begin(p, "next", FilesOf(p, config.batches))
    /\ todo' = [todo EXCEPT ![p] = config.batches]
    /\ Wipe(p, {Dir(p)})
    /\ UNCHANGED include

\* The next batch's globs take the place of the include list, and stay there.
NextBatch(p) ==
    /\ task[p] = "next" /\ todo[p] # <<>>
    /\ include' = [include EXCEPT ![p] = BatchGlobs(Head(todo[p]))]
    /\ todo' = [todo EXCEPT ![p] = Tail(@)]
    /\ Goto(p, "sources")
    /\ UNCHANGED <<manifestVars, config, network, artifacts, tasks, asked, wiped>>

\* What Hardhat's cache does not have at the version of its job.
Stale(p) ==
    {s \in SourcePaths(p, include[p]) :
        ~\E a \in artifacts[Dir(p)] : a.source = s /\ a.version = JobVersion(p, s)}

Needed(p) == {JobVersion(p, s) : s \in Stale(p)}

SkipBatch(p) == Goto(p, IF todo[p] = <<>> THEN "failed" ELSE "next") /\ UNCHANGED todo

\* What hre.run throws ends the loop: the batches left are not compiled.
Throw(p) == Goto(p, "failed") /\ todo' = [todo EXCEPT ![p] = <<>>]

\* One job per version; the tron hook looks each version up in the manifest.
Jobs(p) ==
    /\ task[p] = "sources"
    /\ IF 0 \in Needed(p) THEN Throw(p) /\ UNCHANGED manifestVars
       ELSE /\ Goto(p, "build") /\ UNCHANGED todo
            /\ IF IsActive(p) THEN Resolve(p, Needed(p)) ELSE UNCHANGED manifestVars
    /\ UNCHANGED <<config, network, include, artifacts, tasks, asked, wiped>>

\* The compilers run when all builds are there.
Build(p) ==
    /\ task[p] = "build"
    /\ \A v \in Versions : Ended(call[p][v])
    /\ IF IsActive(p) /\ \E v \in Needed(p) : call[p][v].at # "found"
       THEN Throw(p) /\ UNCHANGED artifacts
       ELSE LET made == {[source |-> s, version |-> JobVersion(p, s),
                          tool |-> IF IsActive(p) THEN "tron-solc" ELSE "solc"] : s \in Stale(p)}
            IN /\ artifacts' = [artifacts EXCEPT ![Dir(p)] =
                     {a \in @ : \A b \in made : a.source # b.source} \cup made]
               /\ Goto(p, IF todo[p] = <<>> THEN "done" ELSE "next") /\ UNCHANGED todo
    /\ Answered(p)
    /\ UNCHANGED <<published, fileVars, fetchVars, crashes, overlapped>>
    /\ UNCHANGED <<config, network, include, tasks, asked, wiped>>

\* A killed process starts over, with the configuration's include list.
Killed(p) ==
    /\ ~Ready(p) /\ Kill(p)
    /\ Goto(p, "none") /\ todo' = [todo EXCEPT ![p] = <<>>]
    /\ include' = [include EXCEPT ![p] = config.include]
    /\ asked' = [asked EXCEPT ![p] = {}]
    /\ UNCHANGED <<config, network, artifacts, tasks, wiped>>

Turn(p) == NextBatch(p) \/ Jobs(p) \/ Build(p) \/ (Progress(p) /\ UNCHANGED taskVars)

Next ==
    \/ (Publish \/ Age) /\ UNCHANGED taskVars
    \/ \E p \in Procs : Clean(p) \/ Compile(p) \/ CompileBatches(p)
    \/ \E p \in Procs : Turn(p) \/ Killed(p)

\* Every file operation returns and every fetch ends, if in an error.
Fairness == \A p \in Procs : WF_vars(Turn(p))

Spec == Init /\ [][Next]_vars /\ Fairness

-----------------------------------------------------------------------------
(* Properties                                                              *)

TypeOK ==
    /\ ManifestTypeOK
    /\ Accepted(config) /\ network \in [Procs -> BOOLEAN]
    /\ include \in [Procs -> SUBSET Sources]
    /\ task \in [Procs -> {"none", "next", "sources", "build", "done", "failed"}]
    /\ \A d \in DOMAIN artifacts : \A a \in artifacts[d] :
          a.source \in Sources /\ a.version \in Versions /\ a.tool \in {"tron-solc", "solc"}

\* "Artifacts accumulate across passes": a task that is done has left artifacts
\* of every file that it was to compile, in whichever batch, whatever was there
\* before and whatever task of its process a failed pass ended, unless another
\* process has removed them.
BatchesAccumulate ==
    \A p \in Procs : task[p] = "done" /\ ~wiped[p] =>
        \A s \in asked[p] : \E a \in artifacts[Dir(p)] : a.source = s

\* Every task ends, whatever the mirror publishes or withholds and whoever is
\* killed.
EveryTaskEnds == \A p \in Procs : ~Ready(p) ~> Ready(p)

=============================================================================
