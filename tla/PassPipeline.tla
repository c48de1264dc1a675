----------------------------- MODULE PassPipeline -----------------------------
(***************************************************************************)
(* One pass manager of llvm-pm from its constructor to its drop: the Rust  *)
(* type (ModulePassManager, CGSCCPassManager or FunctionPassManager) with  *)
(* the boxes of its user passes, the C++ bundle with the pipeline whose    *)
(* entries hold raw pointers to those boxes, and the run of the pipeline.  *)
(*                                                                         *)
(* LLVM walks the pipeline unit by unit: the module, an SCC, a function or *)
(* a loop.  The callbacks of a unit go through trampolines that turn a     *)
(* panic into an answer; from the answers the C++ wrapper makes one        *)
(* PreservedAnalyses, and LLVM drops the unit's analysis results unless    *)
(* that is `all'.  A result is `stale' once the function it describes has  *)
(* been modified after it was computed.  The few standard analyses that    *)
(* LLVM's loop adaptor keeps whatever a loop pass answers are left out.    *)
(***************************************************************************)
EXTENDS Naturals, FiniteSets, SequencesExt

CONSTANTS
    Functions,      \* functions of the module, each with one loop
    SCCs,           \* the partition of Functions that the call graph gives
    Passes,         \* boxes of user passes
    Adapters,       \* those of analyses that into_pass made passes of
    None,           \* absent value
    MaxEntries      \* bound: entries of a pipeline

ASSUME NoneAssumption == None \notin Passes
ASSUME PartitionAssumption ==
    /\ UNION SCCs = Functions
    /\ {} \notin SCCs
    /\ \A C, D \in SCCs : C = D \/ C \cap D = {}
ASSUME AdapterAssumption == Adapters \subseteq Passes
ASSUME BoundAssumption == MaxEntries \in Nat /\ IsFiniteSet(Functions)

Types == {"module", "cgscc", "function"}
Levels == {"module", "cgscc", "function", "loop"}

\* The levels of pass each type has a method to add.
LevelsOf(ty) ==
    CASE ty = "module" -> Levels
      [] ty = "cgscc" -> {"cgscc", "function", "loop"}
      [] ty = "function" -> {"function", "loop"}
\* The member of the C++ bundle that the type's passes are added to and run.
PipeOf(ty) == IF ty = "function" THEN "fpm" ELSE "mpm"

VARIABLES
    type,       \* the Rust type of the manager
    handle,     \* the Rust value: "none", "live", in its drop "disposed" or
                \* "unwound", after it "dropped" or "leaked"
    bundle,     \* the C++ object: its two pipelines, or None
    boxes,      \* _passes: the boxes alive
    strings,    \* error strings malloc'd by the C++ side and not yet freed
    cached,     \* whether get_result has stored a result for this manager
    pc,         \* "idle", "failed", "pipeline" or "callback"
    queue,      \* entries of the pipeline left to run, the current one first
    scope,      \* the functions of what run() was given
    units,      \* units the current entry has still to visit
    unit,       \* the unit being visited, as the set of its callbacks, or {}
    calls,      \* callbacks of the current unit still to be made
    now,        \* the functions of the callback being made
    preserved,  \* preservesAll of the current unit
    dirty,      \* whether the current callback has modified a function
    results,    \* results[f]: "absent", "current" or "stale"
    edited      \* functions modified between runs, with a stale result

vars == <<type, handle, bundle, boxes, strings, cached, pc, queue, scope, units,
          unit, calls, now, preserved, dirty, results, edited>>

manager == <<type, handle, bundle, boxes, strings, cached>>
walk == <<queue, scope, units, unit, calls, now, preserved, dirty>>
ir == <<results, edited>>

\* An entry: a user pass or, with None, one of LLVM's own.
PipelineEntry == [level : Levels, pass : Passes \cup {None}]
\* The C++ bundle: its module and its function pipeline, either may be missing.
Pipelines == [mpm : Seq(PipelineEntry) \cup {None}, fpm : Seq(PipelineEntry) \cup {None}]

ASSUME BundleAssumption == None \notin Pipelines

Init ==
    /\ type \in Types
    /\ handle = "none"
    /\ bundle = None
    /\ boxes = {}
    /\ strings = 0
    /\ cached = FALSE
    /\ pc = "idle"
    /\ queue = <<>> /\ scope = {} /\ units = {}
    /\ unit = {} /\ calls = {} /\ now = {}
    /\ preserved = TRUE /\ dirty = FALSE
    /\ results = [f \in Functions |-> "absent"]
    /\ edited = {}

-----------------------------------------------------------------------------
\* What the constructors leave in the type's pipeline.
Constructed(entries) ==
    [mpm |-> IF type = "function" THEN None ELSE entries,
     fpm |-> IF type = "function" THEN entries ELSE None]

\* What LLVM builds for a level or a text: passes of its own, taken as one.
Built == <<[level |-> type, pass |-> None]>>

\* new gives an empty pipeline; with_opt_level, with_pipeline and the LTO
\* constructors, which CGSCCPassManager has none of, one of LLVM's passes.
Construct ==
    /\ handle = "none" /\ pc = "idle"
    /\ handle' = "live"
    /\ \/ bundle' = Constructed(<<>>)
       \/ /\ type # "cgscc"
          /\ bundle' = Constructed(Built)
    /\ UNCHANGED <<type, boxes, strings, cached, pc, walk, ir>>

\* Mutant of Discarded: the half-built bundle is forgotten.
KeptOnError == Constructed(<<>>)

\* The bundle after a failed parse: deleted.
Discarded == None

\* A pipeline text that does not parse: err_msg is set, unless malloc fails,
\* and null returned.
ParseError ==
    /\ handle = "none" /\ pc = "idle" /\ type # "cgscc"
    /\ bundle' = Discarded
    /\ \E n \in {0, 1} : strings' = strings + n
    /\ pc' = "failed"
    /\ UNCHANGED <<type, handle, boxes, cached, walk, ir>>

\* Mutant of ConsumeError: the message is copied but not freed.
ConsumeErrorLeaks ==
    /\ pc = "failed"
    /\ pc' = "idle"
    /\ UNCHANGED <<manager, walk, ir>>

\* Mutant of ConsumeError: a null message is freed as well.
ConsumeErrorUnchecked ==
    /\ pc = "failed"
    /\ strings' = strings - 1
    /\ pc' = "idle"
    /\ UNCHANGED <<type, handle, bundle, boxes, cached, walk, ir>>

\* consume_c_error: a null message gives a generic error, any other is copied
\* and freed.
ConsumeError ==
    /\ pc = "failed"
    /\ strings' = IF strings = 0 THEN 0 ELSE strings - 1
    /\ pc' = "idle"
    /\ UNCHANGED <<type, handle, bundle, boxes, cached, walk, ir>>

-----------------------------------------------------------------------------
\* llvm_pm_add_*: the pipeline is made if it is missing, the entry appended.
Appended(b, pipe, entry) ==
    [b EXCEPT ![pipe] = IF @ = None THEN <<entry>> ELSE Append(@, entry)]

\* Mutant of Owned: the box is dropped at the end of add_pass.
NotOwned(pass) == boxes

\* _passes after the box of `pass' has been pushed.
Owned(pass) == boxes \cup {pass}

\* add_pass and its variants: the raw pointer goes into the pipeline, the box
\* into _passes.
AddPass(pass, level) ==
    LET pipe == PipeOf(type) IN
    /\ handle = "live" /\ pc = "idle"
    /\ level \in LevelsOf(type)
    /\ pass \notin boxes
    /\ Len(bundle[pipe]) < MaxEntries
    /\ bundle' = Appended(bundle, pipe, [level |-> level, pass |-> pass])
    /\ boxes' = Owned(pass)
    /\ UNCHANGED <<type, handle, strings, cached, pc, walk, ir>>

-----------------------------------------------------------------------------
\* The units an entry visits, each a set of callbacks, each the set of the
\* functions it may modify.  One of LLVM's own passes is one callback here.
UnitsOf(entry, fs) ==
    CASE entry.pass = None \/ entry.level = "module" -> {{fs}}
      [] entry.level = "cgscc" -> {{{f} : f \in C} : C \in SCCs}
      [] OTHER -> {{{f}} : f \in fs}

FirstUnits(q, fs) == IF q = <<>> THEN {} ELSE UnitsOf(Head(q), fs)

\* run: a bundle without the type's pipeline gives an error string; should
\* malloc fail on it, the null is taken for success.
Run(fs) ==
    LET pipe == bundle[PipeOf(type)] IN
    /\ handle = "live" /\ pc = "idle"
    /\ IF pipe = None
         THEN /\ \E n \in {0, 1} :
                   /\ strings' = strings + n
                   /\ pc' = IF n = 1 THEN "failed" ELSE "idle"
              /\ UNCHANGED <<queue, scope, units>>
         ELSE /\ pc' = "pipeline"
              /\ queue' = pipe
              /\ scope' = fs
              /\ units' = FirstUnits(pipe, fs)
              /\ UNCHANGED strings
    /\ UNCHANGED <<type, handle, bundle, boxes, cached, unit, calls, now,
                   preserved, dirty, ir>>

BeginUnit ==
    /\ pc = "pipeline" /\ unit = {}
    /\ \E U \in units :
        /\ unit' = U
        /\ calls' = U
        /\ units' = units \ {U}
    /\ preserved' = TRUE
    /\ UNCHANGED <<manager, pc, queue, scope, now, dirty, ir>>

\* A pass of LLVM's own: it drops the results about what it modifies, and
\* computes others.
BuiltinPass ==
    /\ pc = "pipeline" /\ unit # {} /\ Head(queue).pass = None
    /\ \E S \in SUBSET scope, T \in SUBSET scope :
        /\ results' = [f \in Functions |->
               IF f \in S THEN "absent"
               ELSE IF f \in T /\ results[f] = "absent" THEN "current"
               ELSE results[f]]
        /\ edited' = edited \ S
    /\ unit' = {}
    /\ calls' = {}
    /\ UNCHANGED <<manager, pc, queue, scope, units, now, preserved, dirty>>

\* The C++ wrapper of a user pass calls the trampoline.
EnterCallback ==
    /\ pc = "pipeline" /\ unit # {} /\ Head(queue).pass # None
    /\ \E c \in calls :
        /\ now' = c
        /\ calls' = calls \ {c}
    /\ pc' = "callback"
    /\ dirty' = FALSE
    /\ UNCHANGED <<manager, queue, scope, units, unit, preserved, ir>>

\* A module or function pass asks for an analysis result of LLVM.
Compute(f) ==
    /\ pc = "callback" /\ f \in now
    /\ Head(queue).level \in {"module", "function"}
    /\ results[f] = "absent"
    /\ results' = [results EXCEPT ![f] = "current"]
    /\ UNCHANGED <<manager, pc, walk, edited>>

\* A CGSCC or loop pass, whose handle is of an analysis manager of the Rust
\* side, has a result computed and stored (AnalysisManagers).
Cache ==
    /\ pc = "callback"
    /\ Head(queue).level \in {"cgscc", "loop"}
    /\ cached' = TRUE
    /\ UNCHANGED <<type, handle, bundle, boxes, strings, pc, walk, ir>>

\* A pass modifies a function it was given.  The methods of an analysis have
\* but a shared reference to the IR.
Modify(f) ==
    /\ pc = "callback" /\ f \in now
    /\ Head(queue).pass \notin Adapters
    /\ results' = [results EXCEPT ![f] = IF @ = "current" THEN "stale" ELSE @]
    /\ dirty' = TRUE
    /\ UNCHANGED <<manager, pc, queue, scope, units, unit, calls, now,
                   preserved, edited>>

\* The trampoline's answer: catch_unwind turns a panic into None.
Trampoline(outcome) == IF outcome = "panic" THEN "None" ELSE outcome

\* Mutant of StillPreserved: the unit's last callback decides.
LastAnswer(before, answer) == answer = "All"

\* preservesAll of the C++ wrapper after one more answer.
StillPreserved(before, answer) == before /\ answer = "All"

\* What run_pass may answer: that of an adapter runs its analysis, forgets the
\* result and answers All.
Answers(pass) == IF pass \in Adapters THEN {"All"} ELSE {"All", "None"}

\* A callback answers or panics.  A pass that has modified something does not
\* answer All: its part of the contract with LLVM.
LeaveCallback(outcome) ==
    /\ pc = "callback"
    /\ outcome \in Answers(Head(queue).pass) \cup {"panic"}
    /\ outcome = "All" => ~ dirty
    /\ preserved' = StillPreserved(preserved, Trampoline(outcome))
    /\ now' = {}
    /\ pc' = "pipeline"
    /\ UNCHANGED <<manager, queue, scope, units, unit, calls, dirty, ir>>

\* LLVM invalidates what a user pass did not preserve.
EndUnit ==
    /\ pc = "pipeline" /\ unit # {} /\ calls = {} /\ Head(queue).pass # None
    /\ results' = [f \in Functions |->
           IF f \in UNION unit /\ ~ preserved THEN "absent" ELSE results[f]]
    /\ edited' = IF preserved THEN edited ELSE edited \ UNION unit
    /\ unit' = {}
    /\ UNCHANGED <<manager, pc, queue, scope, units, calls, now, preserved,
                   dirty>>

EndEntry ==
    /\ pc = "pipeline" /\ unit = {} /\ units = {} /\ queue # <<>>
    /\ queue' = Tail(queue)
    /\ units' = FirstUnits(Tail(queue), scope)
    /\ UNCHANGED <<manager, pc, scope, unit, calls, now, preserved, dirty, ir>>

\* run returns Ok, whatever the passes did.
EndRun ==
    /\ pc = "pipeline" /\ unit = {} /\ queue = <<>>
    /\ pc' = "idle"
    /\ UNCHANGED <<manager, walk, ir>>

\* The program modifies the module between two runs.
EditBetweenRuns(f) ==
    /\ handle = "live" /\ pc = "idle"
    /\ results[f] = "current"
    /\ results' = [results EXCEPT ![f] = "stale"]
    /\ edited' = edited \cup {f}
    /\ UNCHANGED <<manager, pc, walk>>

-----------------------------------------------------------------------------
\* Drop: clear_analysis_state returns, and llvm_pm_dispose frees the bundle
\* with what LLVM keeps in it.
Dispose ==
    /\ handle = "live" /\ pc = "idle"
    /\ handle' = "disposed"
    /\ bundle' = None
    /\ results' = [f \in Functions |-> "absent"]
    /\ edited' = {}
    /\ UNCHANGED <<type, boxes, strings, cached, pc, walk>>

\* Drop: the Drop of a cached result panics in clear_analysis_state, and the
\* unwind leaves out llvm_pm_dispose.
DropUnwinds ==
    /\ handle = "live" /\ pc = "idle"
    /\ cached
    /\ handle' = "unwound"
    /\ UNCHANGED <<type, bundle, boxes, strings, cached, pc, walk, ir>>

\* The fields are dropped after Drop::drop, in an unwind as well: the boxes in
\* _passes go, and with `raw' the last way to the bundle.
DropBoxes ==
    /\ handle \in {"disposed", "unwound"}
    /\ handle' = IF handle = "disposed" THEN "dropped" ELSE "leaked"
    /\ boxes' = {}
    /\ UNCHANGED <<type, bundle, strings, cached, pc, walk, ir>>

Next ==
    \/ Construct
    \/ ParseError
    \/ ConsumeError
    \/ \E pass \in Passes, level \in Levels : AddPass(pass, level)
    \/ type # "function" /\ Run(Functions)
    \/ type = "function" /\ \E f \in Functions : Run({f})
    \/ BeginUnit
    \/ BuiltinPass
    \/ EnterCallback
    \/ \E f \in Functions : Compute(f) \/ Modify(f)
    \/ Cache
    \/ \E outcome \in {"All", "None", "panic"} : LeaveCallback(outcome)
    \/ EndUnit
    \/ EndEntry
    \/ EndRun
    \/ \E f \in Functions : EditBetweenRuns(f)
    \/ Dispose
    \/ DropUnwinds
    \/ DropBoxes

Spec == Init /\ [][Next]_vars

-----------------------------------------------------------------------------
\* Every variable keeps a value of its kind.
TypeOK ==
    /\ type \in Types
    /\ handle \in {"none", "live", "disposed", "unwound", "dropped", "leaked"}
    /\ bundle \in Pipelines \cup {None}
    /\ boxes \subseteq Passes
    /\ strings \in Nat
    /\ cached \in BOOLEAN
    /\ pc \in {"idle", "failed", "pipeline", "callback"}
    /\ queue \in Seq(PipelineEntry)
    /\ scope \subseteq Functions
    /\ units \subseteq SUBSET SUBSET Functions
    /\ unit \in SUBSET SUBSET Functions
    /\ calls \subseteq SUBSET Functions
    /\ now \in SUBSET Functions
    /\ preserved \in BOOLEAN
    /\ dirty \in BOOLEAN
    /\ results \in [Functions -> {"absent", "current", "stale"}]
    /\ edited \subseteq Functions

\* Between two units every analysis result LLVM keeps describes its function as
\* it is, except where the program edited the function between two runs: no
\* pass, by answering None for one function of an SCC and All for the next, or
\* by panicking after it has modified something, leaves a stale result for the
\* passes after it (trampolines, RustCGSCCPass::run).
PassesInvalidate ==
    pc = "pipeline" /\ unit = {} =>
        \A f \in Functions \ edited : results[f] # "stale"

EntriesOf(b) ==
    IF b = None THEN {}
    ELSE UNION {Range(b[pipe]) : pipe \in {q \in {"mpm", "fpm"} : b[q] # None}}

\* What a raw pointer of the pipeline may still be followed from: the queue of
\* a run, and a bundle that something refers to.  A leaked one is neither run
\* nor destroyed.
Followed == Range(queue) \cup (IF handle = "leaked" THEN {} ELSE EntriesOf(bundle))

\* A raw pointer that the C++ side can still follow, out of a bundle or in a
\* run, points to a box that is alive: add_pass keeps the box, and the drop lets
\* _passes go only when the bundle is disposed, or, where clear_analysis_state
\* unwound, together with the last way to the bundle, which no run is inside.
BoxesOutlivePipeline ==
    /\ \A entry \in Followed : entry.pass # None => entry.pass \in boxes
    /\ handle = "leaked" => pc = "idle"

\* When the program has no manager and no call is on its way, no pass box and
\* no error string is left, whatever constructors, runs and passes failed; nor
\* is a bundle, but for that of a manager with cached results whose drop
\* unwound.
NothingLeaks ==
    pc = "idle" /\ handle \in {"none", "dropped", "leaked"} =>
        /\ boxes = {} /\ strings = 0
        /\ bundle = None \/ (handle = "leaked" /\ cached)
=============================================================================
