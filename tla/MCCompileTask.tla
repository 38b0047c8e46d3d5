---------------------------- MODULE MCCompileTask ----------------------------
EXTENDS CompileTask

File(dir, pragma) == [dir |-> dir, leaf |-> dir, pragma |-> pragma, exposed |-> FALSE]
A == File("a", {1, 2})
B == File("b", {2})
C == File("c", {1})
Wrapper == [A EXCEPT !.exposed = TRUE]

MCSources == {A, B, C, Wrapper}

Batch(dirs) == [include |-> {}, dirs |-> dirs, leaves |-> {}]

\* Two processes that share the cache directory ...
Plain == [target |-> "tron", disabled |-> FALSE, override |-> FALSE, separate |-> FALSE,
          compilers |-> <<2>>, include |-> {}, exclude |-> {C}, batches |-> <<>>]

\* ... or only the artifacts, which one makes with solc, the other in two batches ...
Batched == [Plain EXCEPT !.target = "tron-when-network-tron", !.batches = <<Batch({"a"}), Batch({"b"})>>]

\* ... or nothing at all.
Dual == [Batched EXCEPT !.separate = TRUE, !.compilers = <<1, 2>>, !.exclude = {}, !.batches = <<>>]

\* Refused, like Plain with two versions; kept so that it matters.
Twofold == [Plain EXCEPT !.compilers = <<1, 2>>, !.exclude = {}]

MCConfigs == {Plain, Batched, Dual, [Dual EXCEPT !.override = TRUE], Twofold, [Plain EXCEPT !.disabled = TRUE]}
MCNetworks == {[p \in Procs |-> p = CHOOSE q \in Procs : TRUE]}
=============================================================================
