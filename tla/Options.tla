------------------------------- MODULE Options -------------------------------
(***************************************************************************)
(* The options handle, the optimisation levels and the extension points of *)
(* llvm-pm, over the LLVM versions it builds against (llvm_pm.cpp).        *)
(*                                                                         *)
(* A pass manager is built in one call.  LLVM composes a default pipeline  *)
(* and calls back at its extension points (EPs), where the texts the       *)
(* options hold for that point are parsed INTO the pipeline being built; a *)
(* text that names a default pipeline makes LLVM start over, inside the    *)
(* callback.  What does not parse is dropped without a word.  From LLVM 23 *)
(* on there is no level for size: Os and Oz are O2 behind a pass that puts *)
(* attributes on the functions of the module that is run on.               *)
(*                                                                         *)
(* External: in which order and how often LLVM reaches the points, which   *)
(* of them a pipeline has, and how parsePassPipeline treats a text it      *)
(* cannot parse.                                                           *)
(***************************************************************************)
EXTENDS Naturals, FiniteSets, SequencesExt

CONSTANTS
    Versions,       \* the LLVM major versions the library may be built against
    Functions,      \* functions of the module that is run on
    Declarations,   \* those without a body
    None,           \* absent value
    UsedKinds,      \* bound: the kinds of default pipeline that are built
    UsedLevels,     \* bound: the levels managers are created with
    UsedEPs,        \* bound: the points the options are given texts for
    UsedRoutes,     \* bound: the points a default pipeline comes to, in order,
                    \* some of them again and again: Peephole with each instcombine
    UsedTexts,      \* bound: the texts
    MaxTexts,       \* bound: texts, and flags set, in one options handle
    MaxNesting      \* bound: pipelines and texts in progress when the native
                    \* stack is exhausted

OptLevels == {"O0", "O1", "O2", "O3", "Os", "Oz"}
EPs == {"PipelineStart", "PipelineEarlySimplification", "Peephole",
        "ScalarOptimizerLate", "OptimizerEarly", "VectorizerStart", "OptimizerLast"}
ModuleEPs == EPs \ {"Peephole", "ScalarOptimizerLate", "VectorizerStart"}
Kinds == {"default", "lto", "ltoPreLink", "thinLTOPreLink"}
Flags == {"DebugLogging", "VerifyEach"}

\* A pipeline text: `wrapped' says that its first element belongs to an inner
\* kind of manager, into which LLVM then puts all of it or nothing.
Text == [elems : Seq({"p", "q", "default", "unknown"}), wrapped : BOOLEAN]

Handle == [eps : [EPs -> Seq(Text)], flags : SUBSET Flags]
LLVMLevel == [speed : 0 .. 3, size : 0 .. 2]
Entry == [pass : {"optimise", "sizeattr", "p", "q"}, at : EPs \cup {"caller", None},
          level : LLVMLevel \cup {None}]
PassManager == [kind : Kinds \cup {"text", "function"}, level : OptLevels \cup {None},
                text : Text \cup {None}, reached : Seq(EPs), asked : Handle,
                entries : Seq(Entry)]

ASSUME NoneAssumption ==
    None \notin Text \cup Handle \cup PassManager \cup OptLevels \cup EPs \cup {"caller"}
\* The stack has room for what no text makes longer: a text of the caller, a
\* pipeline in it, a point of the pipeline and a text there.
ASSUME NestingAssumption == MaxNesting \in Nat /\ MaxNesting >= 4
ASSUME RouteAssumption == \A route \in UsedRoutes : route \in Seq(EPs)
ASSUME BoundAssumption ==
    /\ Versions \subseteq Nat
    /\ Declarations \subseteq Functions
    /\ UsedKinds \subseteq Kinds
    /\ UsedLevels \subseteq OptLevels
    /\ UsedEPs \subseteq EPs
    /\ UsedTexts \subseteq Text
    /\ MaxTexts \in Nat

VARIABLES
    version,    \* LLVM_VERSION_MAJOR of this build
    options,    \* the options handle: its texts by point, and its flags
    phase,      \* "idle", "building", "ready", "running" or "crashed"
    pm,         \* the pass manager
    todo,       \* the calls in progress that build it, innermost last
    pos,        \* the entry of the pass manager that runs next
    attrs       \* attributes of the functions of the module run on

vars == <<version, options, phase, pm, todo, pos, attrs>>

-----------------------------------------------------------------------------
\* Levels.

\* OptLevel::to_c and the values of LlvmPmOptLevel.
ToC == [O0 |-> 0, O1 |-> 1, O2 |-> 2, O3 |-> 3, Os |-> 4, Oz |-> 5]

\* opt_level_from_c.
OptLevelFromC(c) ==
    IF \E l \in OptLevels : ToC[l] = c THEN CHOOSE l \in OptLevels : ToC[l] = c ELSE "O2"

\* An LLVM level.  From version 23 on no level is for size.
Level(speed, size) == [speed |-> speed, size |-> size]

\* mapOptLevel.
MapOptLevel(c) ==
    IF c <= 3 THEN Level(c, 0)
    ELSE IF c = 4 /\ version < 23 THEN Level(2, 1)
    ELSE IF c = 5 /\ version < 23 THEN Level(2, 2)
    ELSE Level(2, 0)

\* Mutant of ReverseMapOptLevel: only the speed is looked at.
ReverseMapSpeedOnly(level) == level.speed

\* reverseMapOptLevel; below version 11 by comparison with the constants, the last of them Oz.
ReverseMapOptLevel(level) ==
    IF level.size = 0 /\ level.speed \in 0 .. 3 THEN level.speed
    ELSE IF level = Level(2, 1) THEN 4
    ELSE IF level = Level(2, 2) THEN 5
    ELSE IF version < 11 THEN 5
    ELSE 2

-----------------------------------------------------------------------------
\* Texts and extension points.

\* default<...> is an element of module pipelines only.
Unparsable(elem, module) == elem = "unknown" \/ (elem = "default" /\ ~ module)

\* The parser refuses a text with an element it does not know, and an empty one.
Refused(text, module) ==
    \/ text.elems = <<>>
    \/ \E i \in DOMAIN text.elems : Unparsable(text.elems[i], module)

\* What a text has added when its parser returns: elements are added as they
\* are parsed, and stay when a later one is refused.
Accepted(text, module) ==
    IF ~ Refused(text, module) THEN text.elems
    ELSE IF text.wrapped \/ text.elems = <<>> THEN <<>>
    ELSE LET n == CHOOSE n \in DOMAIN text.elems :
                    /\ Unparsable(text.elems[n], module)
                    /\ \A i \in 1 .. n - 1 : ~ Unparsable(text.elems[i], module)
         IN  SubSeq(text.elems, 1, n - 1)

\* The first version for which createInfrastructure registers callbacks.
Since == [PipelineStart |-> 12, PipelineEarlySimplification |-> 12, Peephole |-> 10,
          ScalarOptimizerLate |-> 10, OptimizerEarly |-> 15, VectorizerStart |-> 10,
          OptimizerLast |-> 11]

\* Mutant of Callbacks: the texts of every point are registered.
CallbacksAlways(eps, ep) == eps[ep]

\* Mutant of Callbacks: the module-level points share one registration.
CallbacksMixed(eps, ep) ==
    IF version < Since[ep] THEN <<>>
    ELSE IF ep \in ModuleEPs THEN eps["OptimizerLast"]
    ELSE eps[ep]

\* The texts whose callbacks LLVM calls at a point, in its order.
Callbacks(eps, ep) == IF version >= Since[ep] THEN eps[ep] ELSE <<>>

-----------------------------------------------------------------------------
NoTexts == [ep \in EPs |-> <<>>]
Default == [eps |-> NoTexts, flags |-> {}]
Size(o) == FoldFunction(LAMBDA texts, n : Len(texts) + n, Cardinality(o.flags), o.eps)

Init ==
    /\ version \in Versions
    /\ options = None
    /\ phase = "idle"
    /\ pm = None
    /\ todo = <<>>
    /\ pos = 0
    /\ attrs = [f \in Functions |-> {}]

\* The handle is written while no manager built from it exists: a manager has
\* copies of the texts and flags, and calls no callback once it is built.
EditOptions(o) ==
    /\ phase = "idle"
    /\ options' = o
    /\ UNCHANGED <<version, phase, pm, todo, pos, attrs>>

New == options = None /\ EditOptions(Default)

\* debug_logging, verify_each.
SetFlag(flag, val) ==
    /\ options # None
    /\ val => Size(options) < MaxTexts
    /\ EditOptions([options EXCEPT !.flags = IF val THEN @ \cup {flag} ELSE @ \ {flag}])

\* The add_*_ep methods.
AddEP(ep, text) ==
    /\ options # None
    /\ Size(options) < MaxTexts
    /\ EditOptions([options EXCEPT !.eps[ep] = Append(@, text)])

DropOptions == options # None /\ EditOptions(None)

-----------------------------------------------------------------------------
\* Building a pass manager.

\* The calls in progress: LLVM on its way through the points of a default
\* pipeline, the callbacks of a point, the parser in a text.
Pipeline(reached) == [in |-> "pipeline", at |-> None, rest |-> reached]
AtPoint(ep, texts) == [in |-> "callbacks", at |-> ep, rest |-> texts]
InText(at, elems) == [in |-> "text", at |-> at, rest |-> elems]

\* An entry of the built pipeline: the passes LLVM chose for a level, the
\* LlvmPmSizeAttrPass, or a pass a text named, with the point it came from.
Optimise(level) == [pass |-> "optimise", level |-> level, at |-> None]
SizeAttr == [pass |-> "sizeattr", level |-> None, at |-> None]
Named(name, at) == [pass |-> name, level |-> None, at |-> at]

\* Option<&Options>, derefOpts: no handle stands for the default options.
Deref(o) == IF o = None THEN Default ELSE o

\* createInfrastructure and a build*DefaultPipeline, of which `reached' are
\* the points.  Before LLVM 12 there is no O0 pipeline: the manager is empty.
Create(kind, level, reached) ==
    /\ phase = "idle"
    /\ LET lvl == MapOptLevel(ToC[level])
           empty == kind = "default" /\ lvl.speed = 0 /\ version < 12
       IN  /\ phase' = "building"
           /\ pm' = [kind |-> kind, level |-> level, text |-> None, reached |-> reached,
                     asked |-> Deref(options),
                     entries |-> IF empty THEN <<>> ELSE <<Optimise(lvl)>>]
           /\ todo' = IF empty THEN <<>> ELSE <<Pipeline(reached)>>
    /\ UNCHANGED <<version, options, pos, attrs>>

\* The constructors with_pipeline: of modules, and of functions, whose texts
\* can name no default pipeline.
CreateFromText(kind, text, reached) ==
    /\ phase = "idle"
    /\ phase' = "building"
    /\ pm' = [kind |-> kind, level |-> None, text |-> text, reached |-> reached,
              asked |-> Deref(options), entries |-> <<>>]
    /\ todo' = <<InText("caller", Accepted(text, kind = "text"))>>
    /\ UNCHANGED <<version, options, pos, attrs>>

Call == Last(todo)
\* The innermost call goes on to what is left of it, or calls `inner'.
Step == [todo EXCEPT ![Len(todo)].rest = Tail(@)]
Enter(inner) ==
    IF Len(todo) < MaxNesting
      THEN todo' = Append(Step, inner) /\ UNCHANGED phase
      ELSE phase' = "crashed" /\ UNCHANGED todo

\* LLVM reaches the next point and calls what is registered there.
ReachPoint ==
    /\ phase = "building" /\ todo # <<>>
    /\ Call.in = "pipeline" /\ Call.rest # <<>>
    /\ LET ep == Head(Call.rest) IN Enter(AtPoint(ep, Callbacks(pm.asked.eps, ep)))
    /\ UNCHANGED <<version, options, pm, pos, attrs>>

\* The next callback parses its text; an error is consumed.
CallBack ==
    /\ phase = "building" /\ todo # <<>>
    /\ Call.in = "callbacks" /\ Call.rest # <<>>
    /\ Enter(InText(Call.at, Accepted(Head(Call.rest), Call.at \in ModuleEPs)))
    /\ UNCHANGED <<version, options, pm, pos, attrs>>

\* The parser adds the next element: a pass, or a whole default pipeline.
AddElement ==
    /\ phase = "building" /\ todo # <<>>
    /\ Call.in = "text" /\ Call.rest # <<>>
    /\ IF Head(Call.rest) = "default"
         THEN /\ Enter(Pipeline(pm.reached))
              /\ pm' = [pm EXCEPT !.entries = Append(@, Optimise(Level(2, 0)))]
         ELSE /\ todo' = Step
              /\ pm' = [pm EXCEPT !.entries = Append(@, Named(Head(Call.rest), Call.at))]
              /\ UNCHANGED phase
    /\ UNCHANGED <<version, options, pos, attrs>>

Return ==
    /\ phase = "building" /\ todo # <<>>
    /\ Call.rest = <<>>
    /\ todo' = Front(todo)
    /\ UNCHANGED <<version, options, phase, pm, pos, attrs>>

\* Mutant of WithSizeAttrs: the attributes are added behind the pipeline.
WithSizeAttrsLast(entries, level) ==
    IF version >= 23 /\ level \in {"Os", "Oz"} THEN Append(entries, SizeAttr) ELSE entries

WithSizeAttrs(entries, level) ==
    IF version >= 23 /\ level \in {"Os", "Oz"} THEN <<SizeAttr>> \o entries ELSE entries

\* The constructor returns: a text of the caller that was refused leaves no
\* manager; Os and Oz get their attribute pass.
Finish ==
    /\ phase = "building"
    /\ todo = <<>>
    /\ IF pm.text # None /\ Refused(pm.text, pm.kind = "text")
         THEN phase' = "idle" /\ pm' = None
         ELSE /\ phase' = "ready"
              /\ pm' = [pm EXCEPT !.entries = WithSizeAttrs(@, pm.level)]
    /\ UNCHANGED <<version, options, todo, pos, attrs>>

-----------------------------------------------------------------------------
\* Running it.

\* The attributes a function may come with: the verifier refuses others.
FunctionAttrs == {{}, {"optnone"}, {"optsize"}, {"optsize", "minsize"}}

Run(given) ==
    /\ phase = "ready"
    /\ phase' = "running"
    /\ pos' = 1
    /\ attrs' = given
    /\ UNCHANGED <<version, options, pm, todo>>

\* Mutant of SizeAttrs: optnone is not looked at.
SizeAttrsForced(f) ==
    IF f \in Declarations THEN attrs[f]
    ELSE attrs[f] \cup (IF pm.level = "Oz" THEN {"optsize", "minsize"} ELSE {"optsize"})

\* What LlvmPmSizeAttrPass makes of the attributes of f.
SizeAttrs(f) ==
    IF f \in Declarations \/ "optnone" \in attrs[f] THEN attrs[f]
    ELSE attrs[f] \cup (IF pm.level = "Oz" THEN {"optsize", "minsize"} ELSE {"optsize"})

RunEntry ==
    /\ phase = "running"
    /\ pos <= Len(pm.entries)
    /\ pos' = pos + 1
    /\ attrs' = IF pm.entries[pos] = SizeAttr THEN [f \in Functions |-> SizeAttrs(f)] ELSE attrs
    /\ UNCHANGED <<version, options, phase, pm, todo>>

EndRun ==
    /\ phase = "running"
    /\ pos = Len(pm.entries) + 1
    /\ phase' = "ready"
    /\ pos' = 0
    /\ attrs' = [f \in Functions |-> {}]
    /\ UNCHANGED <<version, options, pm, todo>>

Drop ==
    /\ phase = "ready"
    /\ phase' = "idle"
    /\ pm' = None
    /\ UNCHANGED <<version, options, todo, pos, attrs>>

-----------------------------------------------------------------------------
Next ==
    \/ New \/ DropOptions
    \/ \E flag \in Flags, val \in BOOLEAN : SetFlag(flag, val)
    \/ \E ep \in UsedEPs, text \in UsedTexts : AddEP(ep, text)
    \/ \E reached \in UsedRoutes :
        \/ \E kind \in UsedKinds, level \in UsedLevels : Create(kind, level, reached)
        \/ \E kind \in {"text", "function"}, text \in UsedTexts :
            CreateFromText(kind, text, reached)
    \/ ReachPoint \/ CallBack \/ AddElement \/ Return \/ Finish
    \/ \E given \in [Functions -> FunctionAttrs] : Run(given)
    \/ RunEntry \/ EndRun \/ Drop

Spec == Init /\ [][Next]_vars

-----------------------------------------------------------------------------
\* Every variable holds a value of its kind, and the functions of the module
\* have attributes that LLVM's verifier accepts: LlvmPmSizeAttrPass never
\* meets an optnone function.
TypeOK ==
    /\ version \in Versions
    /\ options \in Handle \cup {None}
    /\ phase \in {"idle", "building", "ready", "running", "crashed"}
    /\ (pm = None) <=> (phase = "idle")
    /\ pm \in PassManager \cup {None}
    /\ pos \in Nat
    /\ attrs \in [Functions -> FunctionAttrs]

Built == phase = "ready"

\* Asked to optimise for size, by Os or Oz, every optimisation of a function
\* with a body is done for size, by the level of the pipeline or by the
\* attributes the function then has, whatever LLVM version is below.
SizeHonoured ==
    /\ phase = "running"
    /\ pos <= Len(pm.entries)
    /\ pm.entries[pos].pass = "optimise"
    /\ pm.level \in {"Os", "Oz"}
    => \A f \in Functions \ Declarations : "optnone" \notin attrs[f] =>
        /\ pm.entries[pos].level.size > 0 \/ "optsize" \in attrs[f]
        /\ pm.level = "Oz" => pm.entries[pos].level.size = 2 \/ "minsize" \in attrs[f]

\* What the texts of a point stand for, whether LLVM comes to it, and what they
\* add to one default pipeline: the same again each time LLVM comes to the point.
Passes(ep) == FlattenSeq([i \in DOMAIN pm.asked.eps[ep] |->
                             Accepted(pm.asked.eps[ep][i], ep \in ModuleEPs)])
InForce(ep) == ep \in Range(pm.reached) /\ version >= Since[ep]
PerPipeline(ep) == FlattenSeq([i \in DOMAIN pm.reached |->
                                  IF pm.reached[i] = ep THEN Passes(ep) ELSE <<>>])
BuiltFor(at) == FlattenSeq([i \in DOMAIN pm.entries |->
    IF pm.entries[i].at = at THEN <<pm.entries[i].pass>> ELSE <<>>])
Pipelines == Cardinality({i \in DOMAIN pm.entries : pm.entries[i].pass = "optimise"})
\* The elements of a text that are passes, not pipelines.
Kept(elems) == FlattenSeq([i \in DOMAIN elems |->
    IF elems[i] = "default" THEN <<>> ELSE <<elems[i]>>])

\* A manager has at each extension point the passes the options asked for
\* there, in the order they were added, once for each time a default pipeline
\* in it comes to the point, and at a point that this version or pipeline lacks
\* none of them; the text of a caller is there as a whole.
AskedIsBuilt ==
    Built =>
        /\ \A ep \in EPs :
            BuiltFor(ep) = IF version >= Since[ep]
                             THEN FlattenSeq([n \in 1 .. Pipelines |-> PerPipeline(ep)])
                             ELSE <<>>
        /\ pm.text # None =>
            BuiltFor("caller") = Kept(pm.text.elems)

\* A text of the options, at a point LLVM comes to, that names a default
\* pipeline: it is parsed again inside that pipeline.
IncludesItself ==
    \E ep \in ModuleEPs : InForce(ep) /\ \E i \in DOMAIN pm.asked.eps[ep] :
        "default" \in Range(Accepted(pm.asked.eps[ep][i], TRUE))

\* Building a manager exhausts the stack for no reason but an extension point
\* text that names a default pipeline and thereby includes itself, and no
\* manager with a default pipeline is ever built from such options.
SelfInclusion ==
    /\ phase = "crashed" => IncludesItself
    /\ Built /\ IncludesItself =>
        ~ \E i \in DOMAIN pm.entries : pm.entries[i].pass = "optimise"

\* The level an extension point callback of a plugin is told, by way of
\* LLVM's own levels and the C enum, is the level the host was asked for; only
\* Os and Oz are told as O2, from LLVM 23 on, where they are attributes.
LevelTold ==
    \A level \in OptLevels :
        OptLevelFromC(ReverseMapOptLevel(MapOptLevel(ToC[level]))) =
            IF version >= 23 /\ level \in {"Os", "Oz"} THEN "O2" ELSE level
=============================================================================
