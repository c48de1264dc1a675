# Verification of llvm-pm

TLA+ models of llvm-pm (Rust bindings of LLVM's new pass manager, with a C++
layer beneath them), the TLC configurations that check them on small instances,
and TLAPS proofs for every instance.  Paths below are those of the repository:
`src/lib.rs`, `src/plugin.rs`, `src/traits.rs`, `llvm-pm-sys/cpp/llvm_pm.cpp`.

    tlc -workers 2 -config reuse.cfg MCAnalysisManagers.tla     # one run
    tlapm OwnershipProofs.tla                                   # one proof module

## 1. Inventory

| Component | State it keeps | Operations | Status |
|---|---|---|---|
| CGSCC and loop analysis managers (`lib.rs` 351-800) | four process-wide maps keyed by C++ manager address (passes and results, for CGSCC and for loops), each with a mutex that a panic can poison | `add_analysis`, `get_result`, `get_cached_result`, `clear_analysis_state` | modelled: `AnalysisManagers`, abstractly `AnalysisTables` |
| Pass managers (`lib.rs` 942-1579, `llvm_pm.cpp` 345-720) | Rust handle and `_passes`; C++ bundle with `MPM`, `FPM` | three types with their constructors, `add_*`, `run`, drop; trampolines; C++ pass wrappers; error strings | modelled: `PassPipeline` |
| Pass instrumentation (`llvm_pm.cpp` 50-97, 193-342) | `PIC`, `SI`, `SICtx`, `RetiredPICs`, `RetiredSIs`, cached results of `PassInstrumentationAnalysis` | `createInfrastructure`, `reinitSI`, the bundle's destructor | modelled: `Instrumentation` |
| Plugin API (`plugin.rs`, `llvm_pm.cpp` 722-1063) | closures and passes given to a host by `Box::into_raw` and held there by `shared_ptr` | callback registration, the callback entrypoints, the raw `add_*` functions, owned pass wrappers | modelled: `Plugin`; the host's analysis managers: `Hosted` in `AnalysisManagers`; the level a callback is told: `Options` |
| Options and levels (`lib.rs` 166-349, `llvm_pm.cpp` 126-180, 229-283, 731-758) | an options handle with extension-point pipelines; `OptLevel` | setters, `mapOptLevel`, `withSizeAttrs`, `reverseMapOptLevel`, the extension-point lambdas, the constructors | modelled: `Options` |
| Traits and analysis-to-pass adapters (`traits.rs`) | none | `run_pass`, `run_analysis` | modelled: the contract of a callback in `PassPipeline`, and the adapters as its `Adapters`, which modify nothing and answer All |
| `llvm_plugin_harness.rs`, plugin macro, bindings, header, build script, examples | none | forwarding, code generation, declarations, compilation | not modelled: no behaviour of their own at run time |

How they interact.  A Rust manager owns the user's passes as boxes and the C++
bundle by pointer; the pipeline in the bundle refers to the boxes by raw
pointer.  `run` enters C++, LLVM walks modules, SCCs, functions and loops and
calls back through `extern "C"` trampolines, which build an analysis-manager
handle and catch panics.  A callback may call `get_result`, which runs a
registered analysis, which may call `get_result` again, all on one thread's
stack; other threads do the same with managers of their own through the same
four maps.  Dropping a manager clears those maps, then destroys the bundle,
then drops the boxes; when clearing unwinds, because the `Drop` of a cached result
panics, the boxes go and the bundle is left behind.  A plugin turns this around: LLVM owns everything and
calls closures and passes of the plugin, and those passes use the four maps under
the addresses of the host's managers, whose end llvm-pm is not told of.  The
options of a constructor become callbacks of a `PassBuilder`, which LLVM calls
while it builds a default pipeline and which parse their text into it.

What is hard to test: maps keyed by addresses that the allocator hands out
again; values copied out of a map and used after its mutex is released;
references lent out of a map that later inserts overwrite; nested and mutually
recursive requests; panics at every place where code of the user runs, some of
them under a mutex; the order in which a destructor takes down objects that
point to each other; objects retired rather than destroyed when the context
changes; boxes with an owner on either side of the language boundary; callbacks
that re-enter the builder that calls them; and what a number of LLVM versions make
of the same request.
`PROJECT.json` lists these hazards with the line each one bites at, and the
properties that would notice.

What makes each component correct:

* analysis managers: no one is served, or loses, an entry of another manager;
  a pass that runs stays registered; a lent result stays alive; no callback runs
  under a mutex; every call returns; a dropped manager leaves nothing behind;
* pass managers: no pass leaves a stale LLVM analysis for the next one, even
  when it panics half-way; no raw pointer that can still be followed outlives its
  box; failures leak nothing, but for the bundle of a drop that unwinds;
* instrumentation: nothing points to a freed PIC, SI or inner manager; runs in
  one context do not accumulate objects; passes report to the SI of their run;
* plugin: a box is used while alive, freed once, and freed in the end;
* options: what was asked for is built, where this LLVM has it, and nowhere else;
  a level means the same on every version, and on the way back.

## 2. Modules

| Module | Role |
|---|---|
| `AnalysisManagers`, `MCAnalysisManagers` | the core, and its instances for TLC |
| `AnalysisTables` | abstract: what the core promises, a table for each manager |
| `AnalysisManagersProofs`, `OwnershipProofs`, `CallbackProofs`, `TablesProofs` | proofs about the core: types, whose an entry is, what a callback may rely on, and that it implements `AnalysisTables` |
| `PassPipeline`, `MCPassPipeline`, `PipelineProofs` | one pass manager from constructor to drop |
| `Instrumentation`, `MCInstrumentation`, `InstrumentationProofs` | PIC and SI of one C++ bundle |
| `OwnedBoxes` | abstract: made once, used while alive, freed at most once |
| `Plugin`, `MCPlugin`, `PluginProofs` | the plugin API, which implements `OwnedBoxes` |
| `Options`, `MCOptions`, `OptionsProofs` | options handle, levels and extension points over the LLVM versions |

Definitions whose comment begins "Mutant of" are variants of the definition
below them with a plausible bug.  They are used nowhere; `PROJECT.json` pairs each
property with the variant that breaks it, as evidence that the property can fail.

### AnalysisManagers

Threads each have a stack of callbacks.  A frame holds the pass manager and kind
its handle is for, the analysis it computes (`from_analysis_id`; `None` in a
pass), the manager whose registered box is running, and the references it was
lent.  `passes[k][a][A]` and `cache[k][a][<<A, u>>]` are the Rust maps
(`*_analysis_passes`, `*_analysis_cache`); a `HashMap` entry that is absent is
`None`.  A stored result carries the identity of its box and the manager that
computed it, which the program does not store: ghosts to state ownership with.

| Action | Code |
|---|---|
| `Create` | `createInfrastructure`: the allocator picks any free addresses |
| `EnterPass`, `ReturnPass` | `cgscc_pass_trampoline`, `loop_pass_trampoline` |
| `AddAnalysis` | `add_analysis`: lock, assert not registered (a panic under the guard poisons), insert |
| `GetCachedResult` | `get_cached_result`; also the hit path of `get_result` |
| `GetResultMiss`, `LookupPass`, `Insert`, `DroppedOld`, `DropOldPanics` | `get_result`: self-request assertion and cache miss; copying pass pointer and entrypoint out of the registry, and the call; the insert, and the drop of a replaced result under the guard |
| `ReturnAnalysis` | `pass_entrypoint` returns the boxed result |
| `UserPanics`, `Unwind`, `UserCatches` | a panic runs up the frames to the trampoline's `catch_unwind`, or to one of the user's |
| `BeginDrop`, `ClearMap`, `Freed`, `FreePanics`, `Dispose` | the three `Drop`s: `clear_analysis_state` map by map, then `llvm_pm_dispose` |
| `HostFrees` | a host that has loaded a plugin frees its managers (external): nothing is cleared |

Critical sections in which only library code runs are single steps.  Where code
of the user runs under a guard (the `Drop` of a removed pass or result) the model
has two steps and `holder` shows the mutex taken.  Only the `Drop` of a result may
panic there: that of a pass runs inside an `extern "C"` deleter, where a panic ends
the process.

The managers in `Hosted` are those of a host whose pipelines contain passes of a
plugin.  Such passes come through the same trampolines and use the same maps, but
`HostFrees` is all that happens at the end, so the properties say what survives a
host: `ServedByOwner` and `NoStaleEntries` except what a host's manager has left.

`AnalysisTables` is what a user is promised, without addresses, mutexes, callbacks
or the steps of a drop: from creation to the start of its drop a manager has, for
either kind, a table of registrations and a table of results.  `Create` starts with
empty tables, or with what hosts have left; `Register` registers an analysis once;
`Store` stores what the registered analysis computed in a box no other result is in;
`Break` makes a sort and kind of table unavailable to all, after a panic.  The
refinement reads the tables of a live manager through its address now.  A comment,
`lib.rs` 34-46, promises less than this, and is out of date (section 3).

### PassPipeline

One manager of one of the three types.  `bundle` is the C++ object with its two
pipelines (`None` for a null `unique_ptr`), `boxes` is `_passes`, `strings` counts
malloc'd error messages.  LLVM's walk is external and written from what the code
passes to it: an entry of the pipeline has units (the module, SCCs, functions,
loops) and a unit has callbacks, one for each function of an SCC.  `results[f]` is
what LLVM keeps about `f`: absent, current, or stale once a pass modified `f`.
`LeaveCallback` is the trampoline together with the C++ wrapper: a panic counts
as the answer None, and `preservesAll` is the conjunction of the answers.  A pass
in `Adapters` is an analysis that `into_pass` turned into a pass (`traits.rs`): it
modifies nothing, since `run_analysis` gets its unit by shared reference, and answers
All, or panics.

`Cache` is a callback of a CGSCC or loop pass that has a result stored in the Rust
cache; here it only counts that there is one (`cached`), for its `Drop` may then panic in
`clear_analysis_state` and unwind out of the manager's drop before `llvm_pm_dispose`
(`DropUnwinds`; with `Dispose` the drop gets past it).  `DropBoxes` is the drop glue, which
follows either way: after `Dispose` it leaves nothing (`handle` is "dropped"), after an
unwind the bundle, whose pipeline points to the dropped boxes (`handle` is "leaked").
Nothing refers to that bundle any more, so `Followed`, the entries whose pointers can
still be used, leaves it out.

### Instrumentation

One bundle on one of five LLVM versions, chosen so that each `#if` of this code
that matters has a version on either side.  `registered` is the PIC with which
`PassInstrumentationAnalysis` was registered; `registerPass` ignores a second
registration (external), so `ReinitSI` leaves it alone.  `Query` stands for LLVM's
lookup before each pass.  `DestroyNext` resets one member at a time in the order
of the destructor.

### Plugin and OwnedBoxes

`Plugin` has `PassBuilder`s of the host with their callbacks, the host's pass
managers, and one call at a time (LLVM builds a pipeline on one thread).  The host
is external: it tries parsing callbacks oldest first until one answers Parsed,
also parses into a pipeline that it throws away to see whether a name is known
(`probe`), gives a pipeline up when no callback accepts, merges pipelines, runs
them any number of times, and destroys builders and pipelines in any order.  From
the code come: a name that is not UTF-8 is declined without a call
(`RejectName`); a closure may add passes and then decline; a panic of a closure
meets the `extern "C"` entrypoint and aborts (`ClosurePanics`), whereas one of a
pass is answered for by its trampoline (`Return`); a wrapper's `shared_ptr` is
moved with it, and the last owner calls the deleter.  The refinement maps `freed`
to the boxes whose deleter was called exactly once, so that a second call makes a
box leave `freed`, which no step of `OwnedBoxes` allows.

### Options

One handle and one manager at a time, on an LLVM version chosen at the start.
`EditOptions` are the setters; a manager takes its texts and flags with it
(`pm.asked`), as the lambdas of `createInfrastructure` copy their string.  A
constructor is a stack of calls, `todo`: LLVM on its way through a default pipeline,
the callbacks of a point, the parser in a text.  Which points a pipeline comes to, in what
order and how often is LLVM's (`reached`, any sequence of points: external); the
peephole callbacks, for one, are called after each instcombine.  So is what the parser does
with a text it refuses: elements of the outermost kind that precede the error have
been added, a text wrapped in another kind adds all of itself or nothing
(`Accepted`).  From the code come: which points have callbacks on which version
(`Since`), that a parse error is consumed (`CallBack`) in an extension point but fails
the constructor in its own text (`Finish`), that O0 before LLVM 12 is an empty
pipeline, `derefOpts`, the three level conversions, and the size attributes.  An
optimisation is an entry of the pipeline that has a level; `attrs` are the function
attributes it meets when it runs.  `Enter` gives up at `MaxNesting` calls: that is
where a native stack ends.  `NestingAssumption` gives it room for four: a text of the
caller, a pipeline in it, a point of that pipeline, and a text there, which is as deep
as calls nest when no text includes itself.

## 3. Runs

| Run | Question | States | Result |
|---|---|---|---|
| `reuse` | Three managers and one of a host share two addresses, on two threads, created, used and dropped in every order, with Drops that panic: is anyone served or robbed of another's entry, and do the maps implement a table for each? (`ServedByOwner`, `RunningPassRegistered`, `NoStaleEntries`, `KeptUntilDrop`, `TablesOfTheirOwn`) | 234 261 | holds |
| `nesting` | Requests nested four deep, mutual recursion, managers inside passes, caught and uncaught panics: do lent references live, are callbacks free of mutexes? (`RefsLive`, `CallbacksHoldNoLock`) | 218 527 | holds |
| `progress` | Does every call return or panic, whoever holds a mutex? (`CallsReturn`) | 365 497 | holds |
| `pipeline` | Every type, constructor, failure, level of pass, adapter, answer and panic, several runs, drop to its end or unwinding (`PassesInvalidate`, `BoxesOutlivePipeline`, `NothingLeaks`) | 1 745 132 | holds |
| `instrumentation` | Runs alternating between contexts, then the destructor (`PointersLive`, `CallbacksLive`, `RetiresOnSwitchOnly`) | 348 866 | holds |
| `plugin` | Two builders, two pipelines, probing and failed parses, merging, runs, any order of destruction (`BoxesOwned`, `NothingLeaks`) | 57 481 | holds |
| `options` | Five LLVM versions, two texts at four points, default and textual pipelines that come to a point never, once or twice, then a run: is what was asked for built, and at the size asked for? (`AskedIsBuilt`, `SizeHonoured`, `SelfInclusion`, `LevelTold`) | 1 251 015 | holds |
| `poisoned_drop` | Does a dropped manager leave nothing? (`DisposedLeavesNothing`) | | violated |
| `reentry` | Is an analysis never entered for what it is computing? (`NoReentry`) | | violated |
| `shared_manager` | `RefsLive` with two handles of one manager on two threads | | violated |
| `plugin_host` | Is a callback served by its own manager, with passes of a plugin in a host? (`ServedByOwnManager`) | | violated |
| `context_switch` | Do the passes of a run reach the run's SI? (`RunReachesItsSI`) | | violated |

Bounds.  Address reuse needs two managers that have an address one after the
other and a third that lives beside them: three managers, two addresses, and a
fourth, of a host, that leaves entries to any of them.  Mutual recursion needs
two analyses; depth 5 lets A request B, B request A and that A request once
more, with room for a pass that runs another manager.  Boxes are identities, as
many as can be in use at once.  In a pipeline of three entries a pass sees what
the previous one left and an adapter stands between two that modify; the
functions form an SCC of two, whose answers must be combined, and another of
one.  Three PICs are two changes of context, after which a retired object has
become an older retired object.  Two boxes of either kind, two builders and two
pipelines are what merging and separate deaths need.  The versions of `options`
lie on either side of every `#if` it looks at; of its four texts one parses, one
is refused half-way, one as a whole and one names a default pipeline, and two of
them are enough for an order at one point or for two points; of the two routes one
comes to the peephole point twice and has a point of each kind and version, the other lacks
the middle points; six calls in progress hold a default pipeline inside a text inside a default pipeline.  The
bounds on depth, entries, objects, texts and calls are guards (`MaxDepth`,
`MaxEntries`, `MaxObjects`, `MaxTexts`, `MaxNesting`).
Symmetry is used only in runs without liveness.

`CHECK_DEADLOCK FALSE` is set in every run, because programs end: managers have
been dropped, boxes given away, a process aborted.  `CallsReturn` states what
deadlock checking would be after.

Fairness.  Only `progress` needs any: weak fairness of `LibraryStep(t)` for each
thread `t`: its next step inside the library, the return or panic of a `Drop`
under a guard included.  That is what a scheduler gives a runnable thread, with
the assumption that a user's `Drop` ends.  No fairness is assumed of user code:
passes and analyses may run forever.

### What the violations show

* `poisoned_drop`: registering an analysis twice panics under the registry's
  guard; the trampoline swallows the panic; the mutex stays poisoned for the
  process, `clear_analysis_state` skips the map, and the dropped manager's pass is
  never freed, against `lib.rs` 780-786 and the test at `tests/audit_findings.rs` 269.
* `reentry`: the guard "Analysis cannot request its own result" knows only the
  innermost requester; A, B, A passes it.
* `shared_manager`: with two handles of one manager the second insert frees what the
  first caller still refers to; `SAFETY_AUDIT.md` 74 calls the window benign.  Under
  `Exclusive`, which the borrow checker enforces unless `from_raw` is used, `RefsLive`
  holds (`nesting`).
* `context_switch`: `reinitSI` runs after `PassBuilder` has registered
  `PassInstrumentationAnalysis`, and its own `registerPass` calls do nothing: after a
  change of `LLVMContext`, passes go on reporting to the retired SI of the old one.
* `plugin_host`: a plugin's pass registers an analysis with a manager of the host; the
  host frees the manager, which clears nothing; the next manager at the address,
  llvm-pm's own even, runs the dead manager's analysis and is served its results.
  `SAFETY_AUDIT.md` 66 calls these hazards eliminated.

### Comments the models contradict

These describe an earlier state of the code.  No run of their own refutes them: the
steps of the models that do otherwise are those of the code.

* `lib.rs` 34-46, on result caches: what `get_result` stores "is never freed", the reference
  is good "for the program's lifetime", and, as a "known limitation", a new manager at the
  address of a dropped one may be served stale results of the old one.  The drop of each
  manager calls `clear_analysis_state` (1239, 1410, 1567), which frees the results under its
  addresses before `llvm_pm_dispose` frees the addresses.  So a reference is good until
  the manager is dropped (`RefsLive`), and nothing of a dropped manager is served to the
  next: this is what `NoStaleEntries`, `ServedByOwner` and `TablesOfTheirOwn` state and
  what `reuse` and the proofs show, in the very case the comment is about.  Only what the
  managers of a plugin's host have left is found again (`plugin_host`).
* `lib.rs` 48-52 and 1241, on drop order: `llvm_pm_dispose` "before Rust drops `_passes`",
  "the C++ side is disposed first".  Not when the `Drop` of a cached result panics in
  `clear_analysis_state`: the unwind leaves out `llvm_pm_dispose` and drops `_passes` all the
  same, so that the bundle stays allocated with pointers to dropped boxes (`DropUnwinds`,
  `DropBoxes`).  `BoxesOutlivePipeline` and `NothingLeaks` say how far that goes: nothing can
  follow those pointers, and nothing but the bundle leaks.
* `lib.rs` 19-21, 818, 852, 886 and 919, on the trampolines: a panic aborts the process.  The
  `catch_unwind` they stand above makes it the answer None (`Trampoline`).

## 4. Proofs

TLAPS proves these for all values of the constants, under the named assumptions of
each module: `None` is none of the other values, bounds are natural numbers, `SCCs`
partitions `Functions`, closures are not passes, adapters are passes, hosts' managers are
managers; in `Options` a pipeline's route is a sequence of extension points, any one, and
the stack has room for four calls.  `LentRefsStay` alone has a hypothesis, `Exclusive`: what
`run(&mut self)` and `Send` without `Sync` enforce, and `shared_manager` shows it needed.

| Theorem | States | Module |
|---|---|---|
| `TypeCorrect` | `AnalysisManagers!TypeOK` | `AnalysisManagersProofs` |
| `EntriesFresh`, `OwnerServes`, `RunningPassStays`, `EntriesStay` | `NoStaleEntries`, `ServedByOwner`, `RunningPassRegistered`, `KeptUntilDrop` | `OwnershipProofs` |
| `NoLockInCallbacks`, `LentRefsStay` | `CallbacksHoldNoLock`, and, under `Exclusive`, `RefsLive` | `CallbackProofs` |
| `TablesImplemented` | `TablesOfTheirOwn` (a refinement) | `TablesProofs` |
| `PipelineTypeCorrect`, `NothingStale`, `BoxesKept`, `AllFreed` | `TypeOK`, `PassesInvalidate`, `BoxesOutlivePipeline`, `NothingLeaks` of `PassPipeline` | `PipelineProofs` |
| `TypeAlways`, `PointersAlwaysLive`, `CallbacksAlwaysLive`, `NothingRetiredInPlace` | `TypeOK`, `PointersLive`, `CallbacksLive`, `RetiresOnSwitchOnly` of `Instrumentation` | `InstrumentationProofs` |
| `TypeAlways`, `LevelsTold`, `SizeAlwaysHonoured`, `OnlySelfInclusionCrashes`, `AskedIsAlwaysBuilt` | `TypeOK`, `LevelTold`, `SizeHonoured`, `SelfInclusion`, `AskedIsBuilt` of `Options` | `OptionsProofs` |
| `PluginTypeCorrect`, `GivenBoxesOwned`, `GivenBoxesFreed` | `TypeOK`, `BoxesOwned` (a refinement), `NothingLeaks` of `Plugin` | `PluginProofs` |

The arguments.

* *TypeInv.*  `TypeOK` is not inductive: popping a frame needs to know that an
  analysis' frame lies on its requester's, with the same manager.  `TypeInv` adds that
  stacks are well formed, what each program counter implies about stack, request and
  victim, that one thread drops a manager, that managers whose callbacks run are
  live, and that allocated managers share no address.
* *OwnInv* adds how far a drop has come: the maps it has cleared hold nothing of its
  victim (unless poisoned), so that when `Dispose` frees the addresses no entry of it is
  left under them.  Then every entry belongs to the manager that has its address
  now, or to one of a host (`Serves`, in `PassesFresh` and `CacheFresh`), hence what is
  read through an address is the reader's or a host's (`FramesOwned`).  The order in
  `drop`, clear before dispose, is what the induction rests on; a panic inside `clear_analysis_state` leaves the manager
  allocated, so that its addresses are not reused.
* *TablesImplemented* rests on *OwnInv*.  Live managers share no address, so an insert
  changes the table of one manager only; a new one finds under its addresses only
  entries of hosts, which is the most `AnalysisTables!Create` allows; a drop empties
  maps when its manager is no longer live, so that all its steps after the first are
  stutters; the pass that runs is still the registered one, which is what `Store` asks.
* *LockInv*: a mutex is held exactly by a thread whose program counter is in a `Drop`
  under that guard; a callback's program counter is never there.
* *RefInv*, for `RefsLive`.  Only an insert overwrites a cell while its manager is in
  use, so the question is whether someone was lent what an insert replaces, which mutual
  recursion makes it do.  `OneUser` says that a manager is on the stack of one thread;
  `LentOnce`, that no callback below an analysis, nor the analysis, was lent the cell the
  analysis is computing, and that no analysis was requested by itself; `Unanswered`,
  the same of a request between its miss and the call.  They hold because a miss is a
  look at an empty cell (so what was lent from it would not be live), and because a
  callback that waits is lent nothing.  The check of `from_analysis_id` is needed: it
  keeps an answer from being lent to a requester that computes the same cell.  Address
  reuse and the drops of other managers are taken care of by `TypeInv`.
* *Inv* of `Instrumentation`.  A bundle's first PIC is the one its managers registered, and
  their results never have another, because a second `registerPass` does nothing; it
  is current or among the retired for as long as the members that hold either exist
  (`FirstPICKept`); the SIs that registered callbacks likewise (`SIsKept`).  What is left of
  a bundle is always a suffix of the destructor's order (`SuffixOK`): a manager that
  exists implies those destroyed after it, PIC and SI among them.
* *OptionsInv*.  Calls nest one way, from a pipeline to a point, a text and a pipeline again
  (`CallsOK`), and each has left what its caller's text or point gave it (`OriginOK`).  If
  a text at a point in force names a default pipeline, then a pipeline in progress still
  has that point, or a callback with that text, or the element itself `Ahead`
  (`PendingOK`): it never returns, so nothing that optimises is built (`LoopOK`).  If no
  text does, no pipeline starts inside a point, and four calls are as deep as it gets.
  `SizeOK` says that from LLVM 23 on the attribute pass is the first entry, and what it has
  left on the functions once it ran; below, each optimisation has the level itself
  (`LevelOK`).
* *AskedOK*, on top of it, for `AskedIsBuilt`.  The passes of a point that the manager has,
  followed by those that the calls in progress still add to it, innermost first, are
  at any moment those it is to have for the pipelines begun so far (`GatheredOK`):
  a call hands what it has left to the call it makes (`HandsOn`), an element
  goes from a text into the manager (`Adds`), and a call returns with nothing left.
  Where a pipeline includes itself there is always more to come, and `LoopOK` says that
  it is never built.  What a pipeline has left is a row of passes for each point ahead
  on its route (`Here`), be it the same point many times: reaching one takes the first
  row away (`LeftAtPoint`), and a pipeline that begins owes what `PerPipeline` says.
  When the constructor returns nothing is to come.  The lemmas below that are about
  `FlattenSeq`, a recursive function chosen by its equation: that such a function exists
  (`RowExists`, by a least counterexample) and is unique, so that it can be computed for
  one sequence more, in front or behind.
* *PipelineInv*: `StaleOK` says that a stale function was edited between runs or lies in
  the unit in progress, and then some callback of that unit has already not answered
  All (`preserved` is FALSE) or the one being made is modifying (`dirty`).  `BoxesOK` says
  that a bundle exists exactly while the handle is live or its drop has unwound, that the
  boxes of its entries and of the rest of the queue are there until the drop glue runs,
  that a leaked bundle is one of a manager with cached results, and that a failed call
  leaves at most the one error string about to be freed.
* *PluginInv*: what builders and pipelines hold is alive and disjoint, what is alive is
  held, and the host calls only what the builder or pipeline it works with holds.
  From it each step is shown to be a step or stutter of `OwnedBoxes`.

Model-checked only: `CallsReturn` and liveness in general (out of the prover's reach,
like `ENABLED`), and the violations; that `RefsLive` fails without `Exclusive` is one of
them.

## 5. Plan

Order: the maps, where threads, panics and addresses meet, first; then one
manager's life; then instrumentation; then the plugin side; then the options, the
host's managers and the abstract tables; then the proofs, until every invariant and
every refinement the runs check was a theorem.  All of this is done.  Left out of it:

1. `PassPipeline` as another implementation of `OwnedBoxes`.  Its boxes live in one vector
   that is emptied once, at the end of the one manager there is, so the refinement
   would need a history of the boxes and say no more than `BoxesOutlivePipeline` and
   `NothingLeaks` do.
2. `AnalysisManagers` and `PassPipeline` composed.  A drop clears the maps in the one and
   disposes of the bundle and the boxes in the other, and the panic that keeps the first
   from its end (`FreePanics`) is the one that leaves out the second (`DropUnwinds`).  Each
   module has its part of both, the panic included; a composition would multiply their
   states to say once more that they meet at one call.

## 6. Not modelled, and why

* What LLVM's passes compute, parse and print; the adaptors appear as the order of
  callbacks they make.
* The few standard analyses that LLVM's loop adaptor keeps whatever a loop pass
  answers.
* A Rust cache of results whose units a pass deletes or changes: nothing in the code
  invalidates it when a pass answers None, and nothing promises that it would.
* `verify_each` and `debug_logging` beyond their storage: what LLVM then prints or
  checks.
* `llvm_plugin_harness.rs` (each method forwards to the same method of another crate's
  trait), the macro's generated entry point beyond the registrar it calls
  (`Plugin!Load`), `build.rs`, the bindings, and the programs under `examples/`, whose
  passes are instances of the callbacks the models let do anything.
* A user's `Drop` that calls the library again under the guard (it would deadlock
  on a mutex that is not reentrant): `Drop` is a step that returns or panics.
* Out-of-memory, except for error strings, where the code treats it.
* Two threads inside one host's `PassBuilder`: LLVM does not do that.
* Which extension-point functions exist on which LLVM version: a matter of
  linking.  The methods documented as a no-op on older versions (`plugin.rs` 272, 282,
  292, 305) call functions that `llvm_pm.cpp` then does not define.
