# TLA+ models and proofs of proc-mw

`proc-mw` is a Rust library of in-process middleware chains whose nodes can be
compiled, loaded and replaced while the program runs. This directory holds TLA+
models of its stateful parts, TLC configurations that check them on small
instances, and TLAPS proofs of the results that matter most. Paths below are
relative to the crate's `src/` directory unless they begin with `tests/`, `labs/`
or `docs/`.

## 1. Inventory of the system

| Component | State | Operations | What is hard | What makes it correct |
|---|---|---|---|---|
| Opaque chain (`opaque.rs`) | `Arc<Vec<OpaqueNode>>` per chain value | `add remove set clone drop exec` and the `exec_*` wrappers | a writer replaces the vector while threads execute it; function pointers into libraries | an execution sees one vector; chains behave as values |
| Plugins and registry (`runtime.rs`) | `Arc<Library>` in plugins and nodes; a map under a mutex | `load to_node register get_node`, drops, reading and writing a plugin's state | lifetime of a mapped library across every order of drops; moving state while executions go on | no call into a closed library, no leak, no count of an execution lost but on a version whose state has been moved on |
| Control-plane chain (`chain.rs`, `dispatch.rs`) | `Arc<Vec<Node>>` | the same, plus `exec_parallel` in a thread scope | early return of a scope, panics, retries | first error in input order; an answer that tells what ran |
| Circuit breaker (`circuit_breaker.rs`) | `failures`, `open_until` under a mutex | `call call_opaque reset` | the mutex is free while the chain runs; late results | cooldown honoured, bounded counter, cools down |
| Metrics, rate limiter (`metrics.rs`, `rate_limit.rs`, `opaque_gov.rs`) | two atomics; window start and count under a mutex | `enter exit errors reset` | two loads or stores that are not one; fixed windows; failures skip `exit` | balanced counts, bounded admissions |
| Compile pipeline (`compile.rs`) | static counter and lock; crate, target and cache directories | cached builds, two cleanups | check-then-act on the file system, partial copies, crashes, a panic under the lock, cleanups without locks | a key never names a wrong or partial plugin, an answer stays good |
| Asynchronous chain (`async_opaque.rs`) | the future, its timer, sleeping threads, the waker | `exec` and its timeout, rollback, retry, fallback wrappers | cancellation between polls, lost or stale wakeups | all or nothing, the core at most once, termination |
| Sandbox (`sandbox.rs`, `bin/mw_exec.rs`) | child process, two pipes, a mutex | `run run_bytes restart` | the child dies at any point; replies carry no number | answers belong to their requests |
| Second asynchronous chain (`async_mw.rs`), generic and precompiled chains (`generic.rs`, `async_generic.rs`, `precompiled.rs`) | none but the call's own context | `exec`, timeout, retry, catch | where `catch_unwind` sits, what a failing core skips, the order of exits | an answer that tells what ran; panics contained where `exec_catch` reaches |
| Services (`labs/scales/medium/src/bin/s02_concurrency_limit.rs`, `s05_load_shed.rs`) | an atomic count of calls in flight and a limit | take a slot, compare, run the chain and the inner service, give the slot back | the limit is loaded after the count; two places give slots back | exact count, limit honoured |
| Configuration (`config.rs`) | none | build a chain from names | the registry changes during a build | nothing older than the build |
| Migration tool (`migrate.rs`), other laboratories, generated crates | none | | | see section 6 |

Interactions: a breaker calls a chain and accounts for its answer; metrics and
limiters are nodes of a chain and are shared by every thread that executes it; the
registry and the compile cache hand plugins to writers, who put nodes into chains;
a service runs a chain before its inner service and may limit itself with a node
of that chain; the sandbox runs the same plugins in another process. Chains
themselves have no lock: `add`, `remove` and `set` need `&mut`, and the tests that
share one chain put it in an `RwLock`, executing under the read guard
(`tests/d3_snapshot.rs`) or on a clone taken under it (`tests/opaque.rs`).

`PROJECT.json` lists the hazards, each at its line, with the properties that
would catch it.

## 2. Modules

| Module | Models | State and actions |
|---|---|---|
| `HotSwap` | opaque chain, plugins, registry | `handle`: the snapshot of each chain value; `heap`: the vectors; `snapRefs`, `libRefs`: owners of each `Arc`; `exec`: where each thread is in `exec`. One action per operation (`AddNode`, `SetNode`, `Register`, ...) and one per `enter`, core, `exit` call |
| `ValueChain` | what a chain promises | the abstract specification: a chain is a sequence, cloning copies it |
| `Breaker` | `CircuitBreaker` | `Admit`/`HalfOpen` are the first critical section, `CallSucceeds`/`CallFails` the second, which `CallPanics` skips; `open` is the time left, so `now < until` reads `open > 0` |
| `Governance` | a chain with metrics and a limiter, or the chain of a service with a gate on the calls in flight | one action per atomic operation or critical section; `errors`, `reset` and the gate's decision (`EnterGate`, `Judge`) are two actions each |
| `Parallel` | `exec_parallel` of the three chains | spawning, joins in order, the implicit wait at the end of the scope |
| `CompileCache` | the pipeline on disk | one action per lock, build, start and end of a copy, rename, and file removed by a cleanup; `Build` includes the panic of `extract_diagnostics` under the lock; `Crash` keeps the disk and clears the statics |
| `Async` | one asynchronous call | the steps of a poll, the timer's poll, its sleeping threads, wakeups, attempts |
| `Onion` | one call through any synchronous channel, or one of `async_mw.rs` and `async_generic.rs`, under any wrapper | `chan` and `op` choose the function; one action per node entered, core, exit, and per beginning and end of an attempt |
| `Upgrade` | a host with plugins in its hands: state migration into a shared chain, registration, builds from the registry | one action per `get`/`set` of state (neither under a lock, each may find no symbol), `set` of the chain under the write lock, registration, item of a build, and step of an execution on a clone or under the read lock |
| `Sandbox` | host threads, pipes, child | one action per write, read, spawn and handshake step of the host and per message of the child; `Die` at any point |

`HotSwapProofs`, `BreakerProofs`, `GovernanceProofs`, `CompileCacheProofs`,
`AsyncProofs`, `SandboxProofs` and `UpgradeProofs` extend the module they are named
for and hold the theorems about it (section 5). `ChainProofs` extends `Onion` and
`Parallel`, the calls of a chain one by one and in a batch. A proof module or a
run that extends two specifications needs different names for them, so the usual
names have a prefix in some modules: `BatchInit`, `BatchNext`, `BatchSpec`,
`BatchTypeOK` in `Parallel`, `Circuit...` in `Breaker`, `Async...` in `Async`,
`Host...` in `Upgrade`.

`MC*.tla` give the constants their small sets. Definitions whose comment starts
with "Mutant of" (or that are introduced as mutants) are slips a programmer could
make at that place; each is the evidence that one property notices it. They are
not part of the specifications.

Abstractions common to all modules: requests, nodes, plugins and sources are
model values or numbers; return codes are reduced to continue, refuse or panic
where the code treats them alike; atomics are sequentially consistent (the
sources use `Relaxed` for the metrics, which could only reorder the two loads of
`errors`, and those already interleave freely here). A mutex is poisoned by a panic
inside its critical section. The only one whose section runs code that can panic
is `BUILD_LOCK` (`compile.rs:91` calls `extract_diagnostics`, which panics at line
176), and `CompileCache` models it (`Poisoned`); the sections of the breaker, the
limiters, the registry and the sandbox do not panic, short of an overflow of a
counter that the models bound.

History variables (`probe`, `sinceTrip`, `metered`, `failed`, `torn`, `recent`,
`peak`, `gone`, `cores`, `computed`, `cause`, `entered`, `pending`, `late`,
`latest`) are written by actions and read by properties only, but for `cause`,
which tells `Onion` where the panic came from that a wrapper catches or not.

## 3. Runs

| Run | Checks | Bounds |
|---|---|---|
| `hot_update` | `SnapRefsExact`, `LibRefsExact`, `CallsOpen`, `ExecPinned`, `ImplementsValueChain` of `HotSwap` | 2 chains, 3 snapshots, 2 readers, 2 writers, 2 libraries, 1 name, vectors up to 2 |
| | `StateContinues`, `BuiltFresh` of `Upgrade` | 2 callers, 3 versions, 2 names, a configuration that uses one name twice, 4 executions |
| `library_unload` | `NeverUnloaded` of `HotSwap` is violated | the same instance |
| `calls` | `AnswersTrue`, `RequestKept` of `Onion` | chains of 2 nodes, up to 3 tries; every channel and operation is an initial state |
| | `OpaqueAnswersAll`, `ChainAllOrFirstError`, `CallEnds` of `Parallel` | 3 inputs, both functions |
| | `ClosedBelowThreshold`, `FailuresBounded`, `CooldownHonoured`, `CoolsDown` of `Breaker` | 4 callers, threshold 3, cooldown 3 |
| `precompiled_order` | `ExitsInsideOut` of `Onion` is violated | chains of 2 nodes |
| `async_catch` | `CatchIsComplete` of `Onion` is violated | chains of 2 nodes |
| `parallel_panic` | `PanicBecomesError` of `Parallel` is violated | 2 inputs |
| `breaker_probe` | `SingleProbe` of `Breaker` is violated | threshold 1 |
| `governance` | `SlidingBound`, `Accounted`, `CountExact`, `LimitHonoured` | 2 callers, metrics before and after the limiter and before and after the gate, limit 2, window 2, a gate of 1 or 2, `MaxCalls` 3 between resets |
| `governance_errors` | `ErrorsNotNegative` is violated | metrics only |
| `compile_cache` | `CacheCorrect`, `AnswerStands` | 2 threads, 2 sources, a cache of 1 file, 1 crash, `MaxRequests` 3 and `MaxCount` 4 numbers per process life |
| `compile_leak` | `BuildCleansUp` is violated | the same without a crash |
| `waiting_calls` | `AllOrNothing`, `CoreAtMostOnce`, `EndsInTime` of `Async` | two async nodes and a sync one, 0 to 3 tries; the state space is finite without a bound |
| | `OwnAnswer`, `QuietWhenFree`, `NoAnswerLost`, `Answers` of `Sandbox` | 2 callers, 3 requests, 2 restarts, both protocols |

Every passing run also checks the type invariant of each of its modules.

Three runs check components side by side. Those components share no state, so
their interleavings would only multiply the state spaces and say nothing new. A
behaviour of such a run moves one component and leaves the others at rest, in
their initial state or in one where their call has ended (`CallOver`, `BatchOver`,
`TaskOver`); the states are the sum of those of the parts, every behaviour of
each part is one of the run, and each part keeps the fairness of its own
specification. A part at rest satisfies its properties, so a property of the run
fails exactly when it fails of its own component.

Why the bounds are enough. In `HotSwap` two chains can share a snapshot, diverge
and be read while the third snapshot is installed; two libraries suffice for a
node to outlive its plugin while another is swapped in; the proofs drop all of
these bounds. In `Upgrade` three versions let a clone be overtaken by two upgrades,
and a plugin be registered twice under one name during a build. In `Onion` two
nodes show the order of exits and let a call end between them, and three tries
fail, leave something behind and succeed. In `Breaker` four callers let a threshold
of 3 trip with a call still in flight, cool down and take that call's late result.
A window of 2 ticks lets a burst lie across two windows, and 2 callers interleave
every pair of atomic operations; with a gate of 1 they compete for its last slot
while the limit moves. In `CompileCache` two requests race for one key or use two
keys while a cleanup holds a stale listing, one builds while the other finds the
lock poisoned, and after the crash the numbers 0.. are used again on the files of
the first life; `Left`, the mark of a directory that a crash or the file system
left, is `None` in the passing run, since no step reads such a directory, and the
proofs hold for any value. In `Async` a retry can be woken by sleepers of two earlier
attempts. In `Sandbox` a restart can separate a request from the next in each
protocol.

Deadlock is checked in `governance`, `compile_cache`, and their violated
counterparts. It is not where the system may stop: every chain and plugin of
`HotSwap` may have been dropped, a call of `Onion`, `Parallel` or `Async` returns,
the threads of `Sandbox` stop asking, and the bound on executions and versions
ends `Upgrade`. That a call which has begun does end is the liveness of section 3,
not the absence of deadlock.

### Fairness

`Breaker`: time passes (`Tick`). `Parallel`: the caller and the workers run on;
cores are assumed to end, as a core that does not blocks the batch by design.
`Async`: the executor polls a task that has been woken, the deadline comes, a
sleeping thread wakes up; nothing makes an async node ready, so `EndsInTime`
covers nodes that hang. `Sandbox`: host threads run on and the child reads, works
or dies. A plugin that hangs in the child is outside this assumption: it keeps
`run` inside the mutex, and `restart` waits for that mutex. The other modules
have safety properties only.

## 4. What the violated runs show

* `SingleProbe`: `circuit_breaker.rs:54` speaks of one probe; the code closes the
  circuit before the probe runs, so all concurrent callers pass.
* `ErrorsNotNegative`: `errors()` may subtract more successes than it saw calls
  and underflows.
* `PanicBecomesError`: after an early error, a panic in a later worker of
  `Chain::exec_parallel` is raised by the thread scope instead of becoming
  `Rejected("worker panicked")`.
* `BuildCleansUp`: `compile.rs:92` says that a failed build removes its crate
  directory, so that nothing leaks. The diagnostics are collected before, under
  `BUILD_LOCK`, and `extract_diagnostics` panics over a line with `error[` and no
  `]` (`compile.rs:176`). The directory stays, the lock is poisoned, and every
  later build of the process leaves its directory and panics at line 67. The cache
  itself stays correct, which `compile_cache` and the proofs show with this panic
  in the model.
* `ExitsInsideOut`: `dispatch.rs:7` and 187 promise exits in reverse order and
  `examples/d2_precompiled.rs:62` that precompiled and dynamic chains agree;
  `precompiled.rs:36` runs the exits in the order of the enters. `AnswersTrue` asks
  of that channel only that each node is left once, and of all others the order.
* `CatchIsComplete`: `async_mw.rs:195` speaks of complete containment inside the
  chain. A `call` that panics before it returns its future (line 205) and an exit
  hook (line 219) are outside every `catch_unwind`, here and in `async_generic.rs`
  (lines 88 and 102).
* `NeverUnloaded`: `runtime.rs:10` and 22 and `opaque.rs:22` say that a library is
  never unloaded. Dropping the last owner of its `Arc` closes it, which is what
  `LibRefsExact` demands; `CallsOpen` shows that nobody can call into it by then.

Other places where the sources say more than the code does, shown by the models
without a run of their own:

* `circuit_breaker.rs:3` says that the probe closes or reopens the circuit. With a
  threshold of two or more its failure is the first of a new count.
* `runtime.rs:93` calls registering a name again a hot update. It reaches chains
  built later; and since `register` takes the plugin away from its owner, a
  registered plugin's state can no longer be read or written, so migration and
  registration exclude each other.
* `runtime.rs:207` says that a plugin's state goes on across hot updates. It is
  read and written without a lock, so executions that enter the old version
  between the read and `set`, or later on an older clone, are not carried over:
  `StateContinues` says that exactly those are missing.

## 5. Proofs

All for arbitrary constants, subject only to the named assumptions of the modules:

| Assumption | Says | Why the code justifies it |
|---|---|---|
| `HotSwap!ConstantsAssumption` | `Main` is a chain; `None` is no snapshot, library or vector; a natural bound on vectors | naming |
| `Breaker!SettingsAssumption`, `Governance!SettingsAssumption`, `Parallel!BatchAssumption`, `Upgrade!BoundsAssumption`, `CompileCache!BoundsAssumption` | thresholds, windows, quotas, batch sizes and the bounds of the model are natural, there is at least one version of a plugin, `Items` is a sequence of names | they are unsigned in the code; the host is built with a plugin |
| `Sandbox!ValuesAssumption` | `Sentinel` is one of the values, `None` is neither a value nor a caller; natural bounds | the sentinel is an `i64` that a plugin may also answer |
| `Onion!SizeAssumption` | natural numbers of nodes and of tries, both may be 0 | the length of a `Vec`; `n` of `exec_retry` is a `usize` |
| `Async!CallAssumption` | a chain is a sequence of synchronous and asynchronous nodes; a natural bound on `n`, which may be 0 | the two kinds of `OpaqueAsyncNode` that `exec` tells apart |
| `Breaker!CallersAssumption`, `Governance!CallersAssumption`, `CompileCache!ThreadsAssumption` | finitely many threads; `NoProbe` is none of them | as a process has |
| `Governance!ChainsAssumption` | a chain has each kind of node at most once and no limiter before a gate | metrics and limiter are one shared node each; behind another refusing node `s02_concurrency_limit.rs:89-92` would release a slot nobody took, and the program has no such chain |

Each theorem `Spec => []P` (or `CircuitSpec`, `BatchSpec`, `AsyncSpec`, `HostSpec`
in place of `Spec`) comes from an inductive invariant of its proof module
(`IInv`; in `ChainProofs` `CallInv` and `BatchInv`), which was checked by TLC on the
run's instance before it was proved.

`HotSwapProofs`. `LibRefsExact` is not inductive on its own: whether dropping a
chain frees a snapshot is decided by `snapRefs`, and what it then releases by
`heap`. The invariant `IInv` is `TypeOK`, `SnapRefsExact`, `LibRefsExact`,
`Borrowed` (an executing thread's chain is still there) and `FreedEmpty` (a freed
snapshot holds nothing, so a reused address brings no owners along). Two lemmas
carry the argument: `InstallInv` for everything that replaces a snapshot (`add`,
`set`, `remove`) and `DropChainInv`. `LocalInv` handles the actions that move a
library between local variables, names and nodes. From `IInv` follow
`TypeCorrect`, `SnapshotsExact`, `RefsExact`, `KeepaliveSafe` (the owners of a
node's library include its slot, so the library is open) and `SnapshotIsolation`
(`ExecPinned`, from `OthersKept`: a chain other than the changed one keeps its
vector, and `Exclusive`). `ChainsAreValues` is the refinement: `RefinesInit` and
`RefinesStep` map every step of `HotSwap` to one of `ValueChain` or to a stutter.
The lemma `OneValueChanges` is its heart: a change of one chain leaves the value of
every other chain, shared snapshots included, and every execution as it was.

`BreakerProofs`. The bound on the counter needs the calls in flight: while the
circuit is open no call is admitted, so `failures` plus the number of running
calls stays below `Limit + Cardinality(Callers)`. Together with the relation of
`open` to `sinceTrip` that makes the invariant inductive, and `TypeCorrect`,
`ClosedMeansHealthy`, `FailuresNeverRunAway` and `CooldownIsHonoured` follow.

`GovernanceProofs`. `Placed` ties each caller's position to the kinds of node on
its chain. `Metering` relates `metered` to the calls past the metrics node and
gives `CountersBalance`. `Limiting` relates `recent`, the admissions by age, to the
window: those of the running window are `count` and younger than its age, those
before it at most `Limit`, so a stretch of one window meets two windows at most
and `WindowsBound` follows; sums over ages are cardinalities of `Admissions`, so
that the prover needs no recursion. `Gating` makes `inflight` the number of slot
holders (`SlotsBalance`) and bounds those past the gate by the largest limit since
it was empty (`GateHonoursLimit`).

`ChainProofs`, one call. `Full` is all that a channel does, mark by mark in its own
order, and `Upto` its first `k` marks (`MarkAt`, `MarksWithin`, `Growing`; `WholeIs`
and `InwardsIs` say that the properties' own words mean the same, `Full` being the
onion of `Whole` for every channel but `compose_chain!`, and `AllLeft` that there it
leaves each node once). The answers alone are not inductive. `Position` says that
what an attempt has done to the request is such a beginning, and how long it is at
each node; `Judged` what the result of an attempt says of it: a success has all of
it, an error of a node at most the enters, an error of the core the exits in the
opaque chain and none elsewhere; `Kept` that the caller's request is the attempt's
in place and untouched otherwise, which is why a retry begins with a clean clone;
`Panics` ties `cause` to the attempt that unwound. `CoreStep`, `ExitStep` and
`EndStep` carry the case split over channels and wrappers; `AnswersAreTrue` and
`RequestsAreKept` follow.

`ChainProofs`, a batch. The results are, at every point of the joins, the answers of the
inputs joined so far, and the plain chain joins past successes only;
`OpaqueAnswers` and `ChainAnswers` are that at the end.

`CompileCacheProofs`. A number from `COUNTER` belongs to one request at a time,
also after a crash has set the counter back onto files of an earlier life
(`Apart`, which also carries the bookkeeping that a request admitted by the bound
never runs out of numbers). So only its owner writes a crate, an artefact or a
temporary file (`Crates`, `CopyOf`), and `rename` makes an entry only of a whole
copy of the right source (`Correct`); entries leave only when a cleanup names them
(`Stands`). The lemmas `Kept`, `Added` and `Renamed` say what the operations on
the directory, a sequence by age, do to its set of files. A build that panics makes
no artefact, so a poisoned lock only stops requests. From them `EntriesCorrect` and
`AnswersStand`.

`AsyncProofs`. At each point of an attempt the request it works on is a prefix
`Upto(k)` of the whole onion whose length the task's position tells (`Progress`);
what is not worked on stays empty (`Kept`); the core has not run wherever the
timer or a node can still stop the attempt (`Cored`). `Growing` says how a prefix
grows by one mark. From them `NothingHalf` and `CoreOnce`.

`SandboxProofs`. The thread that holds the mutex alone knows what is in the pipes:
`Pipes` describes, for each point of its operation, the messages between it and a
living child, at most one and of its own request. `Excluded` and `Numbered` say
that one thread is inside and that requests have different numbers. From them
`AnswersAreOwn`, `NothingLeftBetween`, and the action property `NoAnswerIsLost`.

`UpgradeProofs`. `StateContinues` needs what the running upgrade is going to lose:
`Counted` says that the state the host has read is what was counted but for the
executions that entered the old version since (`pending`), and that the new
version holds it once it is written; nothing is assumed to keep callers out, only
`set` of the chain waits for the read lock. `Hosting` says that the host works on
the last version loaded, which nobody runs yet. `BuiltFresh` needs that names hold
their latest plugin and that those of a build were not newer (`Registered`).

Only model-checked:

* the liveness properties (`CoolsDown`, `CallEnds`, `EndsInTime`, `Answers`): the
  prover does not handle fairness or `ENABLED`;
* that numbers bounded in the models (`MaxCount`, `MaxRuns`, ...) are large enough
  to show every behaviour: the theorems hold for every value of them.

## 6. Not modelled

* The migration tool (text to text, no state) and the parsing of configuration
  items.
* Most of the repository by lines: `labs/scales/large_multi/domains/domain_*/src/lib.rs`
  are ten files of 2995 lines each that `gen.sh` writes to measure compile times,
  5000 copies of one stateless wrapping formula. The library itself has about 3000
  lines. The other laboratories, benchmarks and examples call it in a fixed order
  and measure or print; two of them keep shared state of their own and are modelled
  in `Governance`.
* The statistics of the compile cache (two counters nothing reads back).
* A future that is dropped by the caller of a service: its slot would never be
  given back. The programs always await it. The limiter is their only node that
  refuses; behind another one, its `release` would give back what it never took.
* Loading one path twice: the loader returns the same library with the same state,
  where `Upgrade` counts versions that differ.
* A panic of the inner service or of its future (`s02_concurrency_limit.rs:86`,
  `s05_load_shed.rs:66`): the release after it is skipped, so that slot is lost for
  good. `CountExact` covers refusals, failures and successes.
* Requests of 4 GiB and more: `run_bytes` sends `input.len() as u32`
  (`sandbox.rs:115`), which truncates their length; the model sends every length
  as it is.
* A second `cache_cleanup` at the same time: `sweep` is one listing. It may be
  stale with respect to builds, answers and `Crash`, but not to another sweep.
* Contents of requests, arithmetic of the built-in nodes, diagnostics, the values
  of layout fingerprints, the hash of the cache key (two sources are assumed to have two
  keys).
* The file system beyond names, contents and order of age; reading a directory is
  one step. Two processes that share one output directory: the lock and the
  counter are per process. Errors of `remove_dir_all` are ignored by the code, and
  in the model too: the directory may stay (`RemoveCrate`).
* What plugins do: one that prints to the child's stdout, panics across the C
  boundary in the host, or keeps threads running after its library is closed.
* The old child of a restart: it reads end of file and leaves, or lingers without
  pipes.

## 7. Plan

1. Done: `ValueChain`, `HotSwap`, `Breaker`, `Governance`, `Parallel`,
   `CompileCache`, `Async`, `Sandbox`, `Onion`, `Upgrade`. Every invariant and every
   action property that a passing run checks is proved, and that `HotSwap`
   implements `ValueChain`.
2. Extend further: a breaker over a governed chain, where rejections of the limiter
   count as failures and retries use up its quota.
