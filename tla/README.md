# hardhat-tron: a TLA+ verification of the plugin and its patched node

hardhat-tron is a Hardhat plugin that runs contract tests against TRE, a java-tron
full node in a docker container. The repository has two halves:

* the **plugin** (`src/src/`, Node.js): starts and stops the container, gives it an
  identity, translates Hardhat's and ethers' calls to TRON, emulates fixtures, warps
  time, downloads the TRON compiler;
* the **fork** (`src/docker/src/`, Java): a `tre_*` JSON-RPC namespace patched into
  java-tron, with snapshots, mining on demand, a settable clock and state cheatcodes.

This directory holds TLA+ modules for the parts whose correctness depends on the order
in which things happen, TLC configurations that check them on small instances, and
TLAPS proofs for the ones that matter most. Paths below are those of the repository
(`src/...`).

## Inventory

| Part | Source | State | Operations | Hard behaviour |
|---|---|---|---|---|
| instance identity | `runtime/instance-id.js` | per url: cached id (provisional or committed), in-flight resolution, eviction generation | `instanceId`, `evictInstanceId`; probes of `tre_instanceId`, docker, genesis hash | a probe that is answered after the node is gone; callers that join a resolution; bounded re-probing of a silent node |
| container lifecycle | `tre/lifecycle.js`, `tasks/test.js`, `tasks/node.js`, `tasks/compile.js` | containers of the docker daemon, by name; what this process launched | `ensureUp`, `teardown`, `isReachable`, `containerServing` | several processes and shells use one daemon and one url; names outlive containers; deadlines race boots |
| node snapshots | `TreJsonRpcImpl.java` 540-752 | four stores, `SNAPSHOTS`, a counter | `snapshot`, `revert`, `dropSnapshot` | server threads between two monitors; restores that throw half way |
| node mining and time | `TreJsonRpcImpl.java` 151-354, 470-489, `DposSlot.java` | timestamp override, manual-mining flag, slot length, head of the chain | `mine`, `setNextBlockTimestamp`, `blockTime`, the node's own production | a flag and a monitor shared by threads; the head ahead of the wall clock; one-shot state read twice |
| node cheatcodes | `TreJsonRpcImpl.java` 75-149 | account, code, contract and storage stores | `setAccountBalance`, `setAccountCode`, `setAccountStorageAt` | several writes per call, reads outside the monitor |
| node impersonation | `TreImpersonationRegistry.java`, `TransactionCapsule.java` | whitelist of addresses | add, remove, signature check | the whitelist and the client's idea of it |
| fixtures | `runtime/ethers-bridge.js` 2138-2258, `runtime/signers.js`, `runtime/cheatcodes.js` 12-59 | table of fixture snapshots, cached version probe, cached signers | `loadFixture`, restorers, refunds, `rpcCall` with its retry | retries of calls that are not idempotent; restoring one fixture invalidates others; late and lost answers |
| compiler download | `compile/downloader.js` | staging and final path of a build | `getCompiler` | processes share the directory; crashes; bad bodies and disks |
| compiler manifest | `compile/manifest.js` | cached list with an age | `loadManifest`, `resolveBuild` | fall back to a stale copy; one in-flight fetch for all |
| address prediction | `ethers-bridge.js` 1845-1998, `signers.js` 190-232, `deploy.js` | pre-signed deployments by (deployer, name, args) | `predictAddress`, `deployContract` | a prediction made twice; a slot consumed by a failed send |
| created-contract mappings | `cheatcodes.js` 313-496 | pending predictions, predicted to actual address, addresses registered | record, pair with a receipt, register on demand | which prediction a created contract takes; calls that overlap |
| client impersonation | `cheatcodes.js` 110-178, `ethers-bridge.js` | set of accounts impersonated | impersonate, stop | the set and the node's whitelist change in two steps |
| client time | `runtime/time.js` | cached support probe | `increase`, `increaseTo`, `mine`, `mineUpTo` | several requests per call, each with a retry |
| receipts | `runtime/wait.js`, `deploy.js`, `ethers-bridge.js` 65-86 | receipts by hash | `waitForReceipt`, `pollDeployReceipt` | a late receipt is answered by mining more |
| facades, matchers, shims | rest of `ethers-bridge.js`, `chai-matchers-tvm.js`, `tre-web.js`, `artifacts.js`, `http-agent.js`, `metadata-provider.js` | memo tables | encoding, dispatch, revert decoding | mostly data conversion |
| compile configuration, batches | rest of `compile/`, `tasks/tron-compile-batches.js` | configuration, include list, artifact directories | hooks on `compile` and `clean`, `tron:compile-batches` | processes share directories; a batch changes what the next tasks see |

How they interact: the tasks call the lifecycle, which evicts the instance identity
when a container goes or comes; the identity asks docker, through the lifecycle, which
container serves the url. Fixtures, time control and deployments are sequences of
JSON-RPC requests to the node; the node's threads share the stores, the snapshot table
and the block production state. Nothing on the node persists across a container, and
nothing of the plugin across a process, except containers, the compiler cache and the
manifest.

What makes each part correct is stated with the module below; the hazards that led to
the properties, one per source line, are in `PROJECT.json` under `hazards`, with those
no property covers yet and why.

## Modules

| Module | Models | Composes |
|---|---|---|
| `InstanceId` | identity cache of one url, its node, `ensureUp`/`teardown` as far as they evict | |
| `InstanceId_proofs` | its theorems | extends `InstanceId` |
| `Lifecycle` | test tasks, docker daemon, other shells | |
| `Lifecycle_proofs` | its theorems | extends `Lifecycle` |
| `SnapshotLog` | what snapshots promise: every call one step | |
| `TreSnapshots` | what `TreJsonRpcImpl` does, monitor by monitor | refines `SnapshotLog` |
| `Fixtures` | `loadFixture` and the test between loads | the node is an instance of `SnapshotLog` |
| `Fixtures_proofs` | its theorems | extends `Fixtures` |
| `TreMining` | mining, block time and slot arithmetic | |
| `TreMining_proofs` | its theorems | extends `TreMining` |
| `CompilerDownload` | processes that stage one compiler build | |
| `CompilerDownload_proofs` | its theorems | extends `CompilerDownload` |
| `TreStores` | the state setters, write by write, and blocks | extends `TreSnapshots` |
| `TreStores_proofs` | its theorems and those of `TreSnapshots` | extends `TreStores` |
| `ClientCalls` | calls through the bridge: address predictions, contracts registered on demand, impersonation | |
| `ChainSession` | client time, sends, predicted deployments, over a chain | its node is a coarser `TreMining` |
| `Client_proofs` | the theorems of both | extends `ClientCalls` and `ChainSession` |
| `CompilerManifest` | processes that look up compiler versions | |
| `CompileTask` | compile, batches and clean of several processes | extends `CompilerManifest` |
| `CompileTask_proofs` | its theorems and those of `CompilerManifest` | extends `CompileTask` |
| `MC*` | symmetry sets and small configurations for TLC | extend the module they are named after |

Definitions whose names say how they differ from another (`EvictKeepingInflight` beside
`Evict`, `GetSlotStock` beside `GetSlot`) are mutants: the same code with a plausible
bug. Each property is violated when one of them takes its original's place;
`PROJECT.json` pairs them.

### InstanceId

One url. `inst` numbers the nodes that ever served it; an id is the pair of the node it
was read from and the tier it came from (`served`, `docker`, `genesis`), so that "the id
of a node that is gone" is a statement about the id. A call of `instanceId()` is an
element of `Calls`; an action is what runs between two awaits, and docker, consulted
through `spawnSync`, is read inside an action. `cache`, `inflight`, `gen` are
`_instanceIdCache`, `_inflight`, `_evictGen`. A provisional entry remembers the call that
made it, because the code decrements a field of that object also after the object has
left the map (`reprobesLeft`). `CallHit`, `CallJoins`, `CallResolves` are the three ways
through lines 166-175, `ProbeAnswered`/`ProbeLost`, `Reprobed`, the four `Resolve`
disjuncts and `GenesisArrives` the continuation in lines 177-234.

* `NothingStale`: no id of a removed node is in the cache (`NoResurrection`), or answers a
  call made after the removal (`FreshAnswer`), however late its probe came back.
* `OwnedNeverGenesis`: a container this process owns is never identified by its genesis
  hash.
* `SingleUnlessStrayed`, `CommittedIsStable`: one resolution at a time and a stable
  committed id - except in the generation in which a resolution of an older one ends: its
  `finally` deletes the in-flight entry whoever it belongs to, so a third call resolves
  anew and may replace an id that was served. The comment claims this without exception.
* `ReprobesCounted`: re-probing stops neither too early (`FallbackIsLastResort`) nor never
  (`SettlesAfterReprobes`). `EveryCallReturns`: nobody waits for ever.

### Lifecycle

Processes run the test task (`EnsureUp` ... `TestsEnd`, `Teardown`); the compile task is
the same sequence. The node task, which has no `finally`, and the compile task that a test
task runs inside its own are not modelled yet. Containers are numbered in order of
creation and keep their record after removal, so that a name, which is all the code
remembers, can be told from the container it meant. `Sees` is
`isReachable`: the url answers, whichever container is behind it. The daemon publishes
one port (`PortTaken`). Outside shells run and start containers (`OutsideRuns`,
`OutsideStarts`), nodes die, processes are killed. A stopped container that is started again
is `doomed`, as the image's entrypoint has broken its config (lines 315-325); one that
`docker run` has only `created`, because the port was taken, boots. Whoever starts it, it
remains the container of the process that ran it, and `again` remembers that another
shell's `docker start` is why it runs.

* `NoRunningLeak`: a task that ends leaves no container it has started running, unless told
  to (`keepRunning`) or docker refused its `docker rm -f` (`botched`): neither the one that
  became ready just after the deadline, nor the one whose prime failed. What another shell
  has started again is that shell's.
* `ForeignSpared`: as long as no container dies nobody removes another's, nor a leftover
  that is started between the look and the removal. Once one dies that is no longer so
  (`life_foreign`).
* `PastGenesis`: tests do not meet a chain at its genesis block, unless they start with
  `primeGenesis`'s warning (`warned`). `EnsureUpEnds`: every wait has an end.

`life_foreign` is the other side of `ForeignSpared`: two tasks with one configured name; the
first waits for its container, which dies; the second finds it stopped, removes it and runs
its own; the first's deadline passes and its `docker rm -f` removes the second's.

### SnapshotLog and TreSnapshots

`SnapshotLog` is Hardhat's promise: fresh increasing ids; a revert restores and
invalidates its id and all newer ones. `TreSnapshots` has one action per monitor section:
`Dump`, `Number`, `Put` for `snapshot()`, `Take`, `Restore` for `revert()`,
`DropSnapshot`, `WriteStore` for a setter's `forceWrite` and `PushBlock` for a block, which
may come at any time. Dumps and restores may throw. The variable `exclusive`, chosen once,
says whether snapshots, reverts and drops wait for each other, as the plugin's do; setters
need not, and go on in the middle of them. Without it:

* `IdsNameOneSnapshot`: whatever calls overlap, an id names one snapshot and never comes
  back to life (`IdsNeverReused`), and one revert restores it (`OneRestorePerId`).

With it, `NewerIdsInvalid` holds, the comment in `revert()`: between overlapping callers, of
whom nothing is claimed, a snapshot numbered before a revert and put after it survives. And
`TreSnapshots` implements `SnapshotLog` (`ImplementsLog`), setters and blocks included: a revert takes effect when it takes the
entry, a snapshot when it dumps the stores. A restore that throws maps to a revert
followed by a write.

### TreStores

The stores' contents for one address: the account's type, its code, the code hash of its
contract entry. `setAccountCode`, `setAccountStorageAt` and `setAccountBalance` are
sequences of reads and `forceWrite`s, each of which takes the monitor for itself; a step of
`setter[t]` ends where it is free. Blocks make accounts and contracts, or let a contract
destroy itself, which deletes its account, code and contract entry; snapshots and reverts
are `TreSnapshots`' actions with the stores restored one after another. `overlaps` records
which kind of call was under way when what happened, so that each property names the
overlaps the code does not withstand.

* `AccountsKept`: an address with code has a contract's account (`TypesKept`) and its
  contract's hash is its code's (`HashesKept`), whatever calls, blocks, snapshots and
  reverts there were, but for those overlaps: a balance setter writes back a type read
  before another setter changed it; two `setAccountCode` interleave; a storage setter writes
  back a contract without the hash; a snapshot saves a half-made account; a restore, or a
  block in which the contract destroys itself, falls into the middle of a call that makes it;
  a restore throws half way.
* `CodeFindsItsContract`: `setAccountCode` calls a method of the contract it reads back
  without a null check (line 121); it is there unless a restore or such a block has come in
  between.

Left out: balances and storage rows, which no other step reads, and the contract version
that decides the key of a row.

### Fixtures

A test process loads fixtures and uses the chain in between. The node is `SnapshotLog`,
which by the refinement is what it is to a client that waits for its answers. A request is
`Served`, then its answer is read; `Retry` and `GiveUp` are `rpcCall` when the connection
breaks before or after the node has served the request; a request given up on may be
served later (`strays`), and the un-awaited drops of evicted snapshots are such requests
from the start. `table` is `_fixtureSnapshots`, `supported` `_snapshotSupported`.

* `LoadRestores`: a load from the table that returns leaves exactly the state the
  fixture's data describes, through broken exchanges, retries and late requests. The
  exception, the late revert of a load that threw, is stated in the property: the code
  does nothing against it.
* `FixtureStartsFunded`: a fixture runs with its signers funded.
* `TableInStep`: while the node answers, the table and the node agree on which snapshots
  exist (`EntriesLive`, `NoLeak`). A comment has it that a restorer can be used again and again; a lost
  answer to its revert or its snapshot leaves it with an id that is dead.

### TreMining

Threads call `tre_mine` (`MineCalled` ... `Return`), `tre_setNextBlockTimestamp` and
`tre_blockTime`, beside the node's own producer, which raises the manual-mining flag,
produces in the monitor and lowers the flag (`NodeEnters`, `NodeProduces`, `NodeLeaves`), and
the clock (`Tick`). A step ends where another thread can see or change the override, the flag, the monitor or
the chain. `GetTime` and `GetSlot` are `DposSlot`'s arithmetic in milliseconds since
genesis. Simplifications: the two reads of the override inside `getSlot` are one step, as
are the two writes of `blockTime`; the reflection errors that `tryEnterManualMining` and
`exitManualMining` log are left out; a witness without a miner is a nondeterministic
outcome of `ReadSlot`.

* `FlagIsSound`: one mine at a time, of the calls and the node, and the flag is up exactly
  while one runs, however it ends and whoever was turned away meanwhile.
* `SlotsAdvance`: after any warp the slot lies after the head, and there is one.
* `NeverRefused`, `MinedOnTime`: a mine whose override no other call changes
  (`alone`) makes blocks at the timestamp asked for, or a second after their parent, and
  none is refused. What becomes of a mine under which another call does change it, the
  overlaps of the two reads and of a refused mine's `finally`, is excepted. `OneShot`, the interface's doc, is refuted by a block the node produces
  for a broadcast transaction: it uses the override and leaves it set (`mine_oneshot`).

### CompilerDownload

Processes stage one build in one directory. Paths name files; a rename takes a file along,
a stream writes to the file it has opened, opening truncates the file another process may
be writing. Within a process the in-flight map admits one download, so a process is one
sequential client. Bodies may be bad, exchanges break, processes crash at every step, files
rot; `loads` says whether the manifest's build loads at all.

* `FinalNeverPartial`: the final path never names a part, unless two downloads have
  overlapped. The header (lines 17-21) claims it without that condition; all processes
  share one staging path, so a rename can publish what another has begun to write. It is
  listed as a hazard.
* `LoneCallHeals`: whatever was left at either path, a call that runs undisturbed ends
  with the verified build, or with nothing if the build does not load.

### ClientCalls

What a test's calls do to the state `runtime/cheatcodes.js` keeps beside the node. A child
a factory creates is named by its salt; the simulator predicts it at `Sim(k)`, a broadcast
creates it at `Real(k)`. `pending`, a set of entries numbered in order, and `evmToTvm` are
`_pendingStaticReturns` and `_evmToTvm`, `tried` `_autoRegisteredAddresses`, `local`
`_localImpersonations`. The paths whose steps another call can come between are in steps: a
creation (`Create`, `Broadcast`, `Receipt`, and `Resimulate` after a revert); the raw
`sendTransaction` that looks for code, marks the address tried and asks the node to register
the contract, each of which can fail (`SendCallTx`, `Trigger`, `GetCode`, `AutoRegister`);
an impersonation and its stop (`Impersonate`, `GrantServed`, `GrantAnswered` and the like,
with `rpcCall`'s retry and requests served late). The others are coarser than the code: a
view, a `staticCall`, a bound send and an impersonated one are one step each, though they
await the node too; of their own they change the client's maps at one place. The second
trigger of a raw send is one step with the registration. Two calls may overlap; a fixture may be taken and restored while none is under way.

* `PredictionsPair`: predictions are paired last in first out, and a list filled by
  abandoned simulations and bounded by `_PENDING_LIMIT` still leads each prediction to its
  own child (`InTurnMapsToTwin`), as long as nothing of what `strayed` names has happened;
  even then to a child of the contract that returned it (`NeverCrossesCallers`).
* `RefusedOnlyWhenTried`: a raw send to a child with code is not refused without asking for
  its code; the exceptions are a send that overlaps the registration, a child whose
  registration the node did not make, and one whose registration a fixture has undone, for
  the client remembers that it has tried.
* `LocalIsListed`: what the client impersonates is on the node's list ("they MUST stay in
  sync"), with lost answers, overlaps and fixtures - but while a stop is under way, which the
  node serves first, and after a stop that came late or between a grant and its answer.

### ChainSession

What a test does to the chain, one operation after another: `mine`/`mineUpTo`, `increase`
and `increaseTo`, `setNextBlockTimestamp`, a send that waits for its receipt, a predicted
deployment and the deployment that uses it. An operation (`op`) is a few requests; each is
`Served` or breaks before or after it is served, with `rpcCall`'s retry - which does not cover
the body of an answer, read outside its `try`; a request given up may be served later
(`strays`). The node makes blocks of its own for what is broadcast, without what has expired,
and shows receipts in the full or the solid view, late. Waits poll, and mine to recover; a
poll that fails ends the wait.

The node is `TreMining` made coarser, not refined: `miner` holds the manual-mining flag for
the operation, for a mine nobody waits for or for the node's own production, and a `tre_mine`
that meets it is refused and clears the override all the same (`MineRefused`); but a mine is
one block of `tre_mine(1)`, made in one step, in which the flag falls and the override goes
together, and blocks come at the override or a gap after their parent, without slots.
Support probes, gas, and which addresses a deployment gets are left out.

* `WarpSeals`: a warp that returns has sealed a block at exactly its target, with mines
  repeated and the node's blocks in between, unless one of its mines was refused for the
  flag. `MinesAsAsked`: a mine has made its blocks; one fewer when it begins at an override
  that a block has spent.
* `RecoveryLands`: a wait over a sound connection that sent two recovery mines, neither
  refused for the flag, leaves no transaction behind but one that has expired.
* `PredictionHolds`: a predicted deployment is refused only when it has expired.

The first three except an operation into which a request of an earlier one comes late.

### CompilerManifest and CompileTask

`CompilerManifest` is `loadManifest` and `resolveBuild` in processes that share the cache
directory: calls of a process share one fetch (`_inFlight`), which truncates, writes and
renames the one temporary path; a copy of any age makes up for a failure; a version that is
missing is looked for in one forced refresh. `CompileTask` runs it from `compile`, `clean`
and `tron:compile-batches` under the plugin's hooks: which configurations are accepted, in
which processes the hooks are active, which sources and which version they choose, where
artifacts go. Hardhat itself (its choice of a job, its cache) is external.

* `LoneWriterKeepsCopy`: the copy is a whole text whoever is killed, unless two processes
  write at once. `OfflineServes`: whoever has a copy never fails for want of the mirror.
  `MissingIsUnpublished`: no version is reported missing that was published before.
* `BatchesAccumulate`: a task that is done has left artifacts of every file it was to compile,
  in whichever batch. A pass that fails ends the task, and the batches it had not got to do
  not come back with the process's next task. `EveryTaskEnds`.

### Known divergences

Where the code does other than its comments say, or than one may expect. `life_foreign` and
`mine_oneshot` show two of them; the others were met while modelling and are exceptions of a
property or part of a module:

* Stores: `setAccountCode` dereferences a contract entry that a revert, or a block in which the
  contract destroys itself, may have removed meanwhile; setters that overlap can lose an account's type or leave a stale code hash.
* Predictions: `cheatcodes.js:302-305` pairs the K-th `staticCall`'s address with the K-th
  contract created, first in first out; the code pairs the newest, and sweeps the older ones,
  as the comment at `registerCreateMappingsFromReceipt` says. A view's address return is recorded like a prediction, and so is a
  resimulation's; a receipt is paired before its success is checked; a non-payable
  `staticCall` is not recorded; plain TronWeb sends are not rewritten. A raw send to a
  contract registered before a fixture was restored, or whose registration failed, is refused
  for the rest of the process.
* Impersonation: "they MUST stay in sync" (`cheatcodes.js:98-100`) is not so while a stop has
  been served and not answered, nor after one that came late or beside a new impersonation.
* Time: a `tre_mine` that is refused for the manual-mining flag clears the override of the mine
  that holds it (`TreJsonRpcImpl.java:194-201`); when `rpcCall` asks twice, `increase` can so
  return without a block at its target. An override spent by a broadcast's block costs the next mine its block.
* Manifest: "we'd just end up with one process's copy" is not so when two writers overlap.
  A forced refresh may join a fetch that has already been answered.
* Batches: a batch that names nothing, "a no-op (compiles nothing)", compiles everything;
  the include list stays that of the last batch. `versionPragmaOverride` does not help a file
  whose pragma rules out the compiler; the target `tron-when-network-tron` is not held to
  one version, and the override then takes the first.

## Runs

| Run | Instance | Shows |
|---|---|---|
| `id_safety` | 3 calls, 2 boots, 2 re-probes | all safety properties of `InstanceId` |
| `id_liveness` | 2 calls, 2 boots, 1 re-probe, fairness | `EveryCallReturns` |
| `snap_calls` | module `MCTreStores`: 2 threads, 2 bytecodes, 2 ids, 3 setters, blocks and snapshots, overlapping or not | `TreSnapshots`, the refinement, `TreStores` |
| `fix_loads` | 2 fixtures, 3 writes, 4 snapshots, 2 faults | `Fixtures` |
| `mine_calls` | 2 threads, batches of 2, 2 blocks, clock to 5 with 3 ms seconds | `TreMining` |
| `mine_oneshot` | 1 thread, 3 blocks, clock to 6 | violation of `OneShot` |
| `life_tasks` | 2 tasks, 5 containers, fairness | `Lifecycle` |
| `life_foreign` | 2 tasks, 3 containers | violation of `NeverTearsDownForeign` |
| `download_staging` | 2 processes, 4 files, 3 faults | `CompilerDownload` |
| `calls_sends` | 4 calls, 2 at once, 2 factories with 2 salts, 3 pending | `ClientCalls` |
| `session_ops` | 3 operations, 2 breaks or failed polls, 2 transactions, 1 slot, batches of 2 | `ChainSession` |
| `compile_batches` | 2 processes, 2 texts, 1 crash, 2 tasks, 6 configurations of which one is refused, fairness | `CompileTask` and `CompilerManifest` |

Why the bounds are enough. `InstanceId`: the properties speak of one resolution of an old
generation, one of the new and a call that joins either: three calls; a second boot is the
first that can be confused with another; two re-probes tell "every" from "one".
`TreStores`: each property needs two calls that overlap, and something before or after
them; two ids are an older and a newer, two bytecodes one that is replaced. `Fixtures`: two
fixtures, one evicting the other, loaded, spent and restored; two faults break both attempts of one call.
`TreMining`: two threads are a holder and a contender; three milliseconds to the second
keep the distinction between a slot of 1 ms, the clamp of a second and the look ahead of
1 ms; the arithmetic for real values is proved. `Lifecycle`: a leftover, a container of
each process, one of another shell under the shared name: five are more than the tasks get to
create, so that the bound is never met. `CompilerDownload`: two processes, one file each per attempt and two
attempts; three faults suffice for a crash, a rot and a bad body in one behaviour.
`ClientCalls`: two creations and two simulations, or a fixture between a registration and
a send; a limit of three is passed by four records. `ChainSession`: a prediction, a warp and
the deployment; two breaks use up a call's retry. `CompileTask`: a configuration for each
target, one of them with two batches, one with two compilers, with the override and without,
one disabled; the second text is the one a stale copy lacks.

All runs but `snap_calls` switch the deadlock check off because the system may stop there:
calls all made, files, boots or tasks used up.

Fairness. `InstanceId!FairSpec`: probes have a timeout, docker is synchronous, the
provider's request ends. `Lifecycle!FairSpec`: a process in `ensureUp` or `teardown` is
never stuck, as probes (2 s) and waits (`readinessTimeoutMs`) have deadlines, docker
commands are synchronous and `fetch` ends. `CompileTask!Spec`: a process's own next step
(`Turn`) is weakly fair, as file operations return and a fetch ends, if in an error; what the
mirror publishes and who is killed is not. Nothing else is fair: nobody need call, boot,
run tests to an end, or die.

## Proofs

For every value of the constants, from the assumptions stated in the modules. Every type
invariant and every safety property of the passing runs is a theorem.

* `InstanceId_proofs`: `TypeCorrect`, `NothingGoesStale`,
  `OwnedIsNeverGenesis`, `OneResolution`, `CommittedStays`. The properties are not
  inductive: that a late answer finds a void generation needs `Resolution`, what a
  resolution that is still current knows (its probe is of no node gone since its
  generation began), `Nodes`, which nodes can be gone, `Joined`, that whom one waits for
  began no earlier than oneself was evicted, and `Slot`, when the in-flight entry names
  the one current resolution. `IInv` is their conjunction; one lemma per group of actions.
  `ReprobesAreCounted` adds `Counted`: in a generation nothing strayed into, the entry a
  resolution goes by is the one in the cache, so that misses and what is left add up.
* `TreStores_proofs`, the node's snapshots first: `TypeCorrect`, `OneSnapshotPerId`, whose
  invariant adds that an id is used by one pending snapshot, one entry, or is dead, and that
  the thread which restores an id has made it dead. When callers exclude each other at most
  one is between two of its steps, and the order of insertion is the order of ids: from that
  `NewerIdsAreInvalid` and `Refinement == Spec => ImplementsLog`, initial states to initial
  states, each step to a step or a stutter. Then the stores: `SettersWriteStores`, that every
  step of a setter or a block is a step `TreSnapshots` allows, so that its theorems hold beside
  setters too (`OneSnapshotPerIdBesideSetters` and the like); `CodeHasItsContract`, by
  `ContractMade`: once `setAccountCode` has made the contract, an entry is there until a
  restore, or a block in which the contract destroys itself, falls into its middle; and `AccountsStayInOrder`: unless spoilt by an overlap the
  property names, the stores and every saved copy are in order (`TypesInv`, `HashesInv`), in
  the middle of a setter but for the hash it is about to write.
* `Fixtures_proofs`: `TypeCorrect`, `LoadsRestore`, `FixturesStartFunded`, `TableStaysInStep`.
  `Ids` says that ids are given out in increasing order, whoever keeps them, `Control` what
  each step of a load has found and asked for, `Fitting` that, late reverts apart, a live entry
  holds what its fixture's data describes, `Funded` that the refund has been made, and
  `Agreeing` that while the node answers nothing is late but drops of what is gone, and the
  table and the log agree but for what a load's revert has just invalidated.
* `CompileTask_proofs`. `MInv` is the manifest's part: `CopyStaysWhole` and `CopyServesOffline`
  by `Staged`, that a lone writer has the temporary path open and renames a whole text, and
  `CopyStays`, that a copy a call has found stays readable; `MissingAreUnpublished` by
  `Refreshed`, that a call which asked for a refresh waits for, or was given, a text no older
  than the one published when it began. The tasks' part is `TypeCorrect`, and `BatchesAddUp`
  by `Buildable`, that a task has a job for every file it looks at, `Accumulated`, that what it
  was asked to build, but for what it is looking at and what the batches left name (`Owed`),
  is among the artifacts, unless they were wiped, and `Cleared`, that a task which has ended,
  failed or not, has left no batches.
* `Client_proofs`, of `ClientCalls`: `TypeCorrect`, `ImpersonationInStep`, `RefusalExplained`,
  `PredictionsArePaired`. `TriedInv` says of each address the client believes registered that
  it is a child's whose entry is stored, was undone, was not made, or is being made by a call
  under way. `InStep` says that while the node does not grant, and no stop has come late or
  beside, no grant is being answered and the client believes in one only beside a stop.
  `Paired` says that while nothing has strayed a factory has one creation under way, and its
  newest prediction is of the child the test asked for last or of the one being created;
  `pending` numbers its entries so that "newest" needs no induction over a list.
* `Client_proofs`, of `ChainSession`, whose `SessionSpec` and the like have names of their own
  so that one module can extend both: `SessionTypeCorrect`, `WarpsSeal`, `MinesMakeBlocks`,
  `RecoveriesLand`, `PredictionsHold`. In `ChainInv`, `Asks` ties what an operation asks, and
  what it has left on the wire, to its kind; `Signed` says that a transaction not sent yet is
  known to its slot or its operation alone; `Sealing` that a warp that mines is sealed or has its target set and
  ahead, unless one of its mines was refused for the flag; `Counting` that blocks made and blocks left add up, a spent override owing one;
  `Landing` that a wait past its first recovery finds its transaction mined or expired, or no
  override.
* `TreMining_proofs`: `TypeCorrect`, `FlagStaysSound`, `SlotsAlwaysAdvance`,
  `MinesAreNeverRefused`, `MinesOnTime`. `FlagIsSound` is inductive with the steps' types. The slot theorems are arithmetic on `%` and
  `\div` (lemmas `Rounded`, `TimeOfSlot`, `SlotIsNat`, `AheadOfClock`); `OnCourse` carries
  what an undisturbed mine knows from `Lock` to `Produce`.
* `CompilerDownload_proofs`: `TypeCorrect`, `FinalStaysWhole`, `LoneCallsHeal`. `PathsApart`
  says that the two paths never name one file, `Staged` that one process stages and
  renames a whole file, and `OnTrack` what a lone call knows at each step.
* `Lifecycle_proofs`: `TypeCorrect`, `TasksLeaveNothingRunning`, `ForeignAreSpared`,
  `TestsStartPastGenesis`. `Unique` and `OnePort` are docker's part: one container of a
  name, one on the port. `NotRun` says that a process owns nothing before its one
  `docker run`, `Held` that until a container dies a process about to remove by name has
  its own running, which `Unique` then makes the one removed. `Seen` says that what
  answered a probe never boots again, so that while it is ready it is the node primed.

Left to TLC: `EveryCallReturns`, `EnsureUpEnds` and `EveryTaskEnds`, liveness under fairness,
which the prover cannot do, nor `ENABLED`; and the two violations, `OneShot` and
`NeverTearsDownForeign`. No module uses `RECURSIVE`, and nothing rests on induction over
data, which the installed provers cannot instantiate.

## Not modelled

* Balances, storage rows and receipts' contents: no property tells them apart.
* Container discovery by port bindings (`containerServing`): a read that either finds the
  url's container or not. The node task, which has no `finally`, and a compile task inside a
  test task: `Lifecycle` stays partly modelled.
* A node that restarts under `Fixtures`: the plugin does nothing about the snapshot ids that
  begin again (listed as a hazard without a property). Likewise the probe of `tre_version`,
  whose failure is remembered for the process's life.
* The chai matchers (sums and comparisons over one receipt), ABI and argument encoding,
  overloads, revert decoding, path and glob matching: data conversion without state.
* The metadata provider, the http agent, TronWeb's wiring, artifacts' re-exports, tracing and
  storage reads on the node: stateless. The image build and the release script.
* `BlockHandle` and the rest of java-tron, which are outside the repository: `Push`,
  `NodeProduces` and `Block` are what the fork's code relies on.

## Plan

1. `Lifecycle` with node tasks and nested compile tasks; `Fixtures` with a node that
   restarts; `getScheduledWitness` over witness counts.
2. `BalanceMatchers` and `CallArgs`, the matchers' sums and the argument normalisation, as
   pure modules checked against reference definitions.
