---------------------------- MODULE PipelineProofs ----------------------------
(***************************************************************************)
(* Proofs about PassPipeline: type correctness, that no pass leaves a      *)
(* stale result behind (PassesInvalidate), and that the boxes of the user  *)
(* passes outlive the pipeline that points to them (BoxesOutlivePipeline). *)
(***************************************************************************)
EXTENDS PassPipeline, TLAPS

-----------------------------------------------------------------------------
\* The inductive invariant is TypeOK with two parts.

\* A stale result that no edit between two runs accounts for is about a
\* function of the current unit, and the unit is going to be invalidated: some
\* callback of it has not answered All, or the current one will not.
StaleOK ==
    /\ \A f \in Functions \ edited :
        results[f] = "stale" =>
            /\ pc \in {"pipeline", "callback"}
            /\ f \in UNION unit
            /\ ~ preserved \/ (pc = "callback" /\ dirty)
    /\ calls \subseteq unit
    /\ pc = "callback" => now \in unit /\ Head(queue).pass # None
    /\ unit # {} /\ ~ preserved => Head(queue).pass # None
    /\ pc \in {"idle", "failed"} => unit = {} /\ queue = <<>>

\* A bundle exists exactly while the Rust value is live or when its drop
\* unwound, which takes a cached result; a walk goes through entries of it,
\* every entry's box is kept, and a call that fails leaves at most the one
\* error string that is about to be freed.
BoxesOK ==
    /\ handle \in {"live", "unwound", "leaked"} <=> bundle # None
    /\ handle \in {"unwound", "leaked"} => cached
    /\ pc \in {"pipeline", "callback"} => handle = "live"
    /\ pc # "idle" => handle \in {"none", "live"}
    /\ handle \in {"none", "dropped", "leaked"} => boxes = {}
    /\ strings = 0 \/ (pc = "failed" /\ strings = 1)
    /\ BoxesOutlivePipeline

PipelineInv == TypeOK /\ StaleOK /\ BoxesOK

\* The initial states.
LEMMA PipelineInit == Init => PipelineInv
  <1> SUFFICES ASSUME Init PROVE PipelineInv
    OBVIOUS
  <1>1. TypeOK
    <2>1. preserved \in BOOLEAN /\ dirty \in BOOLEAN
      BY DEF Init
    <2>2. results \in [Functions -> {"absent", "current", "stale"}]
      BY DEF Init
    <2>3. queue \in Seq(PipelineEntry)
      BY DEF Init
    <2> QED
      BY <2>1, <2>2, <2>3 DEF Init, TypeOK
  <1>2. StaleOK
    BY DEF Init, StaleOK
  <1>3. BoxesOK
    BY DEF Init, BoxesOK, BoxesOutlivePipeline, Followed, EntriesOf, Range
  <1> QED
    BY <1>1, <1>2, <1>3 DEF PipelineInv

\* The levels a type has methods for are levels.
LEMMA LevelsOK ==
    ASSUME NEW ty \in Types
    PROVE  LevelsOf(ty) \subseteq Levels
  BY DEF LevelsOf, Types, Levels

\* The units of an entry are sets of callbacks on functions.
LEMMA UnitsOK ==
    ASSUME NEW entry \in PipelineEntry, NEW fs \in SUBSET Functions
    PROVE  UnitsOf(entry, fs) \subseteq SUBSET SUBSET Functions
  <1>1. {{fs}} \subseteq SUBSET SUBSET Functions
    OBVIOUS
  <1>2. {{{f} : f \in C} : C \in SCCs} \subseteq SUBSET SUBSET Functions
    BY PartitionAssumption
  <1>3. {{{f}} : f \in fs} \subseteq SUBSET SUBSET Functions
    OBVIOUS
  <1> QED
    BY <1>1, <1>2, <1>3 DEF UnitsOf

\* The units of an entry are sets of functions.
LEMMA FirstUnitsOK ==
    ASSUME NEW q \in Seq(PipelineEntry), NEW fs \in SUBSET Functions
    PROVE  FirstUnits(q, fs) \subseteq SUBSET SUBSET Functions
  <1>1. CASE q = <<>>
    BY <1>1 DEF FirstUnits
  <1>2. CASE q # <<>>
    <2>1. Head(q) \in PipelineEntry
      BY <1>2
    <2> QED
      BY <1>2, <2>1, UnitsOK DEF FirstUnits
  <1> QED
    BY <1>1, <1>2

\* Every step keeps the kinds of the variables.
LEMMA TypeStep == TypeOK /\ BoxesOK /\ [Next]_vars => TypeOK'
  <1> SUFFICES ASSUME TypeOK, BoxesOK, [Next]_vars PROVE TypeOK'
    OBVIOUS
  <1>b. handle = "live" => bundle \in Pipelines
    BY DEF TypeOK, BoxesOK
  <1> USE DEF manager, walk, ir
  <1>1. CASE Construct
    <2>1. Built \in Seq(PipelineEntry)
      BY DEF TypeOK, Built, PipelineEntry, Types, Levels
    <2>2. \A s \in Seq(PipelineEntry) :
              Constructed(s) \in Pipelines
      BY DEF Constructed, Pipelines
    <2>3. bundle' = Constructed(<<>>) \/ bundle' = Constructed(Built)
      BY <1>1 DEF Construct
    <2>4. <<>> \in Seq(PipelineEntry)
      OBVIOUS
    <2>5. bundle' \in Pipelines
      <3>1. CASE bundle' = Constructed(<<>>)
        BY <3>1, <2>2, <2>4
      <3>2. CASE bundle' = Constructed(Built)
        BY <3>2, <2>2, <2>1
      <3> QED
        BY <2>3, <3>1, <3>2
    <2> QED
      BY <1>1, <2>5 DEF TypeOK, Construct
  <1>2. CASE ParseError
    BY <1>2 DEF TypeOK, ParseError, Discarded
  <1>3. CASE ConsumeError
    BY <1>3 DEF TypeOK, ConsumeError
  <1>4. ASSUME NEW pass \in Passes, NEW level \in Levels, AddPass(pass, level)
        PROVE  TypeOK'
    <2> DEFINE entry == [level |-> level, pass |-> pass]
    <2>1. entry \in PipelineEntry
      BY DEF PipelineEntry
    <2>2. bundle' \in Pipelines \cup {None}
      <3> DEFINE pipe == PipeOf(type)
      <3>1. pipe \in {"mpm", "fpm"}
        BY DEF PipeOf
      <3>2. bundle' = [bundle EXCEPT ![pipe] =
                          IF @ = None THEN <<entry>> ELSE Append(@, entry)]
        BY <1>4 DEF AddPass, Appended
      <3>3. <<entry>> \in Seq(PipelineEntry)
        BY <2>1
      <3>4. \A s \in Seq(PipelineEntry) : Append(s, entry) \in Seq(PipelineEntry)
        BY <2>1
      <3> HIDE DEF entry, pipe
      <3>5. bundle \in Pipelines
        BY <1>b, <1>4 DEF AddPass
      <3> QED
        BY <3>1, <3>2, <3>3, <3>4, <3>5 DEF Pipelines
    <2> QED
      BY <1>4, <2>2 DEF TypeOK, AddPass, Owned
  <1>5. ASSUME NEW fs \in SUBSET Functions, Run(fs)
        PROVE  TypeOK'
    <2>1. CASE bundle[PipeOf(type)] = None
      <3>1. strings' \in Nat
        BY <1>5, <2>1 DEF TypeOK, Run
      <3> QED
        BY <1>5, <2>1, <3>1 DEF TypeOK, Run
    <2>2. CASE bundle[PipeOf(type)] # None
      <3>1. queue' \in Seq(PipelineEntry)
        BY <1>5, <2>2, <1>b DEF Run, PipeOf, Pipelines
      <3>2. units' \subseteq SUBSET SUBSET Functions
        BY <1>5, <2>2, <3>1, FirstUnitsOK DEF Run
      <3> QED
        BY <1>5, <2>2, <3>1, <3>2 DEF TypeOK, Run
    <2> QED
      BY <2>1, <2>2
  <1>6. CASE BeginUnit
    BY <1>6 DEF TypeOK, BeginUnit
  <1>7. CASE BuiltinPass
    BY <1>7 DEF TypeOK, BuiltinPass
  <1>8. CASE EnterCallback
    BY <1>8 DEF TypeOK, EnterCallback
  <1>9. ASSUME NEW f \in Functions, Compute(f) PROVE TypeOK'
    BY <1>9 DEF TypeOK, Compute
  <1>10. ASSUME NEW f \in Functions, Modify(f) PROVE TypeOK'
    BY <1>10 DEF TypeOK, Modify
  <1>11. ASSUME NEW outcome \in {"All", "None", "panic"}, LeaveCallback(outcome)
         PROVE  TypeOK'
    BY <1>11 DEF TypeOK, LeaveCallback, StillPreserved
  <1>12. CASE EndUnit
    BY <1>12 DEF TypeOK, EndUnit
  <1>13. CASE EndEntry
    <2>1. Tail(queue) \in Seq(PipelineEntry)
      BY <1>13 DEF TypeOK, EndEntry
    <2>2. units' \subseteq SUBSET SUBSET Functions
      BY <1>13, <2>1, FirstUnitsOK DEF TypeOK, EndEntry
    <2> QED
      BY <1>13, <2>1, <2>2 DEF TypeOK, EndEntry
  <1>14. CASE EndRun
    BY <1>14 DEF TypeOK, EndRun
  <1>15. ASSUME NEW f \in Functions, EditBetweenRuns(f) PROVE TypeOK'
    BY <1>15 DEF TypeOK, EditBetweenRuns
  <1>16. CASE Dispose
    BY <1>16 DEF TypeOK, Dispose
  <1>17. CASE DropBoxes
    BY <1>17 DEF TypeOK, DropBoxes
  <1>18. CASE UNCHANGED vars
    BY <1>18 DEF TypeOK, vars
  <1>19. CASE Cache
    BY <1>19 DEF TypeOK, Cache
  <1>20. CASE DropUnwinds
    BY <1>20 DEF TypeOK, DropUnwinds
  <1> QED
    BY <1>1, <1>2, <1>3, <1>4, <1>5, <1>6, <1>7, <1>8, <1>9, <1>10, <1>11,
       <1>12, <1>13, <1>14, <1>15, <1>16, <1>17, <1>18, <1>19, <1>20 DEF Next

\* A stale result stays accounted for.
LEMMA StaleStep == TypeOK /\ StaleOK /\ [Next]_vars => StaleOK'
  <1> SUFFICES ASSUME TypeOK, StaleOK, [Next]_vars PROVE StaleOK'
    OBVIOUS
  <1> USE DEF manager, walk, ir
  <1>1. CASE Construct
    BY <1>1 DEF StaleOK, Construct
  <1>2. CASE ParseError
    BY <1>2 DEF StaleOK, ParseError
  <1>3. CASE ConsumeError
    BY <1>3 DEF StaleOK, ConsumeError
  <1>4. ASSUME NEW pass \in Passes, NEW level \in Levels, AddPass(pass, level)
        PROVE  StaleOK'
    BY <1>4 DEF StaleOK, AddPass
  <1>5. ASSUME NEW fs \in SUBSET Functions, Run(fs)
        PROVE  StaleOK'
    BY <1>5 DEF StaleOK, Run
  <1>6. CASE BeginUnit
    BY <1>6 DEF StaleOK, BeginUnit
  <1>7. CASE BuiltinPass
    BY <1>7 DEF StaleOK, BuiltinPass
  <1>8. CASE EnterCallback
    BY <1>8 DEF StaleOK, EnterCallback
  <1>9. ASSUME NEW f \in Functions, Compute(f) PROVE StaleOK'
    BY <1>9 DEF TypeOK, StaleOK, Compute
  <1>10. ASSUME NEW f \in Functions, Modify(f) PROVE StaleOK'
    BY <1>10 DEF TypeOK, StaleOK, Modify
  <1>11. ASSUME NEW outcome \in {"All", "None", "panic"}, LeaveCallback(outcome)
         PROVE  StaleOK'
    <2>1. dirty => ~ preserved'
      BY <1>11 DEF LeaveCallback, StillPreserved, Trampoline
    <2>2. ~ preserved => ~ preserved'
      BY <1>11 DEF LeaveCallback, StillPreserved
    <2> QED
      BY <1>11, <2>1, <2>2 DEF StaleOK, LeaveCallback
  <1>12. CASE EndUnit
    BY <1>12 DEF StaleOK, EndUnit
  <1>13. CASE EndEntry
    BY <1>13 DEF StaleOK, EndEntry
  <1>14. CASE EndRun
    BY <1>14 DEF StaleOK, EndRun
  <1>15. ASSUME NEW f \in Functions, EditBetweenRuns(f) PROVE StaleOK'
    BY <1>15 DEF TypeOK, StaleOK, EditBetweenRuns
  <1>16. CASE Dispose
    BY <1>16 DEF StaleOK, Dispose
  <1>17. CASE DropBoxes
    BY <1>17 DEF StaleOK, DropBoxes
  <1>18. CASE UNCHANGED vars
    BY <1>18 DEF StaleOK, vars
  <1>19. CASE Cache
    BY <1>19 DEF StaleOK, Cache
  <1>20. CASE DropUnwinds
    BY <1>20 DEF StaleOK, DropUnwinds
  <1> QED
    BY <1>1, <1>2, <1>3, <1>4, <1>5, <1>6, <1>7, <1>8, <1>9, <1>10, <1>11,
       <1>12, <1>13, <1>14, <1>15, <1>16, <1>17, <1>18, <1>19, <1>20 DEF Next

-----------------------------------------------------------------------------
\* The entries of a bundle are those of its two pipelines.
LEMMA EntryOfPipe ==
    ASSUME NEW b \in Pipelines, b # None, NEW entry \in EntriesOf(b)
    PROVE  \E pipe \in {"mpm", "fpm"} :
               b[pipe] # None /\ \E i \in DOMAIN b[pipe] : entry = b[pipe][i]
  BY DEF EntriesOf, Range, Pipelines

\* The entries of either pipeline are entries of the bundle.
LEMMA PipeInEntries ==
    ASSUME NEW b \in Pipelines, b # None, NEW pipe \in {"mpm", "fpm"}, b[pipe] # None
    PROVE  Range(b[pipe]) \subseteq EntriesOf(b)
  BY DEF EntriesOf

\* What a run walks and what the pipelines hold keep their boxes as long as
\* neither gains an entry and no box goes.
LEMMA SameEntries ==
    ASSUME BoxesOutlivePipeline, EntriesOf(bundle') \subseteq EntriesOf(bundle),
           Range(queue') \subseteq Range(queue) \cup EntriesOf(bundle),
           boxes \subseteq boxes', handle # "leaked", handle' # "leaked"
    PROVE  BoxesOutlivePipeline'
  BY DEF BoxesOutlivePipeline, Followed

\* Every step keeps the boxes that the pipeline needs.
LEMMA BoxesStep == TypeOK /\ StaleOK /\ BoxesOK /\ [Next]_vars => BoxesOK'
  <1> SUFFICES ASSUME TypeOK, StaleOK, BoxesOK, [Next]_vars PROVE BoxesOK'
    OBVIOUS
  <1> USE DEF manager, walk, ir
  <1>b. handle = "live" => bundle \in Pipelines
    BY DEF TypeOK, BoxesOK
  <1>e. BoxesOutlivePipeline
    BY DEF BoxesOK
  <1>s. ASSUME UNCHANGED <<type, handle, bundle, boxes, strings, queue>>,
               handle = "live", strings = 0
        PROVE  BoxesOK'
    <2>1. BoxesOutlivePipeline'
      BY <1>s, <1>e, SameEntries
    <2> QED
      BY <1>s, <2>1 DEF BoxesOK
  <1>1. CASE Construct
    <2>1. \A entry \in EntriesOf(bundle') : entry.pass = None
      <3>1. ASSUME NEW s \in Seq(PipelineEntry), bundle' = Constructed(s),
                   \A i \in DOMAIN s : s[i].pass = None
            PROVE  \A entry \in EntriesOf(bundle') : entry.pass = None
        <4>1. Constructed(s) \in Pipelines
          BY DEF Constructed, Pipelines
        <4>2. Constructed(s) # None
          BY <4>1, BundleAssumption
        <4> QED
          BY <3>1, <4>1, <4>2, EntryOfPipe DEF Constructed
      <3>2. <<>> \in Seq(PipelineEntry) /\ \A i \in DOMAIN <<>> : <<>>[i].pass = None
        OBVIOUS
      <3>3. Built \in Seq(PipelineEntry) /\ \A i \in DOMAIN Built : Built[i].pass = None
        BY DEF TypeOK, Built, PipelineEntry, Types, Levels
      <3> QED
        BY <1>1, <3>1, <3>2, <3>3 DEF Construct
    <2>2. bundle' # None
      <3>1. <<>> \in Seq(PipelineEntry) /\ Built \in Seq(PipelineEntry)
        BY DEF TypeOK, Built, PipelineEntry, Types, Levels
      <3>2. \A s \in Seq(PipelineEntry) : Constructed(s) \in Pipelines
        BY DEF Constructed, Pipelines
      <3>3. CASE bundle' = Constructed(<<>>)
        BY <3>1, <3>2, <3>3, BundleAssumption
      <3>4. CASE bundle' = Constructed(Built)
        BY <3>1, <3>2, <3>4, BundleAssumption
      <3> QED
        BY <1>1, <3>3, <3>4 DEF Construct
    <2>3. BoxesOutlivePipeline'
      BY <1>1, <1>e, <2>1 DEF Construct, BoxesOutlivePipeline, Followed
    <2> QED
      BY <1>1, <2>2, <2>3 DEF Construct, BoxesOK
  <1>2. CASE ParseError
    <2>1. EntriesOf(bundle') = {}
      BY <1>2 DEF ParseError, Discarded, EntriesOf
    <2>2. BoxesOutlivePipeline'
      BY <1>2, <1>e, <2>1, SameEntries DEF ParseError
    <2> QED
      BY <1>2, <2>2 DEF ParseError, Discarded, BoxesOK
  <1>3. CASE ConsumeError
    <2>1. BoxesOutlivePipeline'
      BY <1>3, <1>e, SameEntries DEF ConsumeError, BoxesOK
    <2> QED
      BY <1>3, <2>1 DEF ConsumeError, BoxesOK
  <1>4. ASSUME NEW pass \in Passes, NEW level \in Levels, AddPass(pass, level)
        PROVE  BoxesOK'
    <2> DEFINE entry == [level |-> level, pass |-> pass]
               pipe == PipeOf(type)
    <2>1. pipe \in {"mpm", "fpm"}
      BY DEF PipeOf
    <2>2. entry.pass = pass /\ entry \in PipelineEntry
      BY DEF PipelineEntry
    <2>3. bundle \in Pipelines /\ bundle # None
      BY <1>4, <1>b DEF AddPass, BoxesOK
    <2>4. bundle' = [bundle EXCEPT ![pipe] =
                        IF @ = None THEN <<entry>> ELSE Append(@, entry)]
      BY <1>4 DEF AddPass, Appended
    <2>5. boxes' = boxes \cup {pass}
      BY <1>4 DEF AddPass, Owned
    <2> HIDE DEF entry, pipe
    <2>6. bundle' \in Pipelines
      <3>1. \A s \in Seq(PipelineEntry) : Append(s, entry) \in Seq(PipelineEntry)
        BY <2>2
      <3>2. <<entry>> \in Seq(PipelineEntry)
        BY <2>2
      <3> QED
        BY <2>1, <2>3, <2>4, <3>1, <3>2 DEF Pipelines
    <2>7. bundle' # None
      BY <2>6, BundleAssumption
    <2>8. ASSUME NEW e \in EntriesOf(bundle')
          PROVE  e = entry \/ e \in EntriesOf(bundle)
      <3>1. PICK q \in {"mpm", "fpm"} : bundle'[q] # None
                  /\ \E i \in DOMAIN bundle'[q] : e = bundle'[q][i]
        BY <2>6, <2>7, <2>8, EntryOfPipe
      <3>2. CASE bundle[q] = None
        <4>1. bundle'[q] = <<entry>>
          BY <2>3, <2>4, <3>1, <3>2 DEF Pipelines
        <4> QED
          BY <3>1, <4>1
      <3>3. CASE bundle[q] # None
        <4>1. bundle[q] \in Seq(PipelineEntry)
          BY <2>3, <3>3 DEF Pipelines
        <4>2. bundle'[q] = bundle[q] \/ bundle'[q] = Append(bundle[q], entry)
          BY <2>3, <2>4, <3>3 DEF Pipelines
        <4>3. e = entry \/ \E i \in DOMAIN bundle[q] : e = bundle[q][i]
          <5>1. CASE bundle'[q] = bundle[q]
            BY <3>1, <5>1
          <5>2. CASE bundle'[q] = Append(bundle[q], entry)
            BY <2>2, <3>1, <4>1, <5>2
          <5> QED
            BY <4>2, <5>1, <5>2
        <4>4. Range(bundle[q]) \subseteq EntriesOf(bundle)
          BY <2>3, <3>3, PipeInEntries
        <4> QED
          BY <4>3, <4>4 DEF Range
      <3> QED
        BY <3>2, <3>3
    <2>9. queue' = queue
      BY <1>4 DEF AddPass
    <2>10. BoxesOutlivePipeline'
      <3>1. handle = "live" /\ handle' = "live"
        BY <1>4 DEF AddPass
      <3> QED
        BY <1>e, <2>2, <2>5, <2>8, <2>9, <3>1 DEF BoxesOutlivePipeline, Followed
    <2> QED
      BY <1>4, <2>7, <2>10 DEF AddPass, BoxesOK
  <1>5. ASSUME NEW fs \in SUBSET Functions, Run(fs)
        PROVE  BoxesOK'
    <2>1. bundle \in Pipelines /\ bundle # None /\ PipeOf(type) \in {"mpm", "fpm"}
      BY <1>5, <1>b DEF Run, BoxesOK, PipeOf
    <2>2. CASE bundle[PipeOf(type)] = None
      <3>1. BoxesOutlivePipeline'
        BY <1>5, <1>e, <2>2, SameEntries DEF Run
      <3> QED
        BY <1>5, <2>2, <3>1 DEF Run, BoxesOK
    <2>3. CASE bundle[PipeOf(type)] # None
      <3>1. Range(queue') \subseteq EntriesOf(bundle)
        BY <1>5, <2>1, <2>3, PipeInEntries DEF Run
      <3>2. BoxesOutlivePipeline'
        BY <1>5, <1>e, <2>3, <3>1, SameEntries DEF Run
      <3> QED
        BY <1>5, <2>3, <3>2 DEF Run, BoxesOK
    <2> QED
      BY <2>2, <2>3
  <1>6. CASE BeginUnit
    BY <1>6, <1>s DEF BeginUnit, BoxesOK
  <1>7. CASE BuiltinPass
    BY <1>7, <1>s DEF BuiltinPass, BoxesOK
  <1>8. CASE EnterCallback
    BY <1>8, <1>s DEF EnterCallback, BoxesOK
  <1>9. ASSUME NEW f \in Functions, Compute(f) PROVE BoxesOK'
    BY <1>9, <1>s DEF Compute, BoxesOK
  <1>10. ASSUME NEW f \in Functions, Modify(f) PROVE BoxesOK'
    BY <1>10, <1>s DEF Modify, BoxesOK
  <1>11. ASSUME NEW outcome \in {"All", "None", "panic"}, LeaveCallback(outcome)
         PROVE  BoxesOK'
    BY <1>11, <1>s DEF LeaveCallback, BoxesOK
  <1>12. CASE EndUnit
    BY <1>12, <1>s DEF EndUnit, BoxesOK
  <1>13. CASE EndEntry
    <2>1. queue \in Seq(PipelineEntry) /\ queue # <<>>
      BY <1>13 DEF EndEntry, TypeOK
    <2>2. Range(queue') \subseteq Range(queue)
      BY <1>13, <2>1 DEF EndEntry, Range
    <2>3. BoxesOutlivePipeline'
      BY <1>13, <1>e, <2>2, SameEntries DEF EndEntry, BoxesOK
    <2> QED
      BY <1>13, <2>3 DEF EndEntry, BoxesOK
  <1>14. CASE EndRun
    BY <1>14, <1>s DEF EndRun, BoxesOK
  <1>15. ASSUME NEW f \in Functions, EditBetweenRuns(f) PROVE BoxesOK'
    BY <1>15, <1>s DEF EditBetweenRuns, BoxesOK
  <1>16. CASE Dispose
    <2>1. EntriesOf(bundle') = {}
      BY <1>16 DEF Dispose, EntriesOf
    <2>2. BoxesOutlivePipeline'
      BY <1>16, <1>e, <2>1, SameEntries DEF Dispose
    <2> QED
      BY <1>16, <2>2 DEF Dispose, BoxesOK
  <1>17. CASE DropBoxes
    <2>1. Range(queue') = {}
      BY <1>17 DEF DropBoxes, BoxesOK, StaleOK, Range
    <2>2. handle' # "leaked" => EntriesOf(bundle') = {}
      BY <1>17 DEF DropBoxes, EntriesOf, BoxesOK
    <2>3. pc' = "idle"
      BY <1>17 DEF DropBoxes, BoxesOK
    <2>4. BoxesOutlivePipeline'
      BY <2>1, <2>2, <2>3 DEF BoxesOutlivePipeline, Followed
    <2> QED
      BY <1>17, <2>4 DEF DropBoxes, BoxesOK
  <1>18. CASE UNCHANGED vars
    <2>1. BoxesOutlivePipeline'
      BY <1>18, <1>e DEF vars, BoxesOutlivePipeline, Followed
    <2> QED
      BY <1>18, <2>1 DEF vars, BoxesOK
  <1>19. CASE Cache
    BY <1>19, <1>s DEF Cache, BoxesOK
  <1>20. CASE DropUnwinds
    <2>1. BoxesOutlivePipeline'
      BY <1>20, <1>e, SameEntries DEF DropUnwinds
    <2> QED
      BY <1>20, <2>1 DEF DropUnwinds, BoxesOK
  <1> QED
    BY <1>1, <1>2, <1>3, <1>4, <1>5, <1>6, <1>7, <1>8, <1>9, <1>10, <1>11,
       <1>12, <1>13, <1>14, <1>15, <1>16, <1>17, <1>18, <1>19, <1>20 DEF Next

-----------------------------------------------------------------------------
\* PipelineInv holds in every reachable state.
LEMMA PipelineAlways == Spec => []PipelineInv
  <1>1. PipelineInv /\ [Next]_vars => PipelineInv'
    BY TypeStep, StaleStep, BoxesStep DEF PipelineInv
  <1> QED
    BY PipelineInit, <1>1, PTL DEF Spec

\* Every variable keeps a value of its kind.
THEOREM PipelineTypeCorrect == Spec => []TypeOK
  <1>1. PipelineInv => TypeOK
    BY DEF PipelineInv
  <1> QED
    BY PipelineAlways, <1>1, PTL

\* For any functions, call graph and passes: between two units of a run no
\* analysis result is stale unless the program edited its function between
\* runs, whatever the passes modified, answered or panicked with.
THEOREM NothingStale == Spec => []PassesInvalidate
  <1>1. PipelineInv => PassesInvalidate
    BY DEF PipelineInv, StaleOK, PassesInvalidate
  <1> QED
    BY PipelineAlways, <1>1, PTL

\* Every raw pointer of the pipeline that the C++ side can still follow points
\* to a box that is alive; the pointers of a bundle that an unwound drop leaked
\* are followed by nothing.
THEOREM BoxesKept == Spec => []BoxesOutlivePipeline
  <1>1. PipelineInv => BoxesOutlivePipeline
    BY DEF PipelineInv, BoxesOK
  <1> QED
    BY PipelineAlways, <1>1, PTL

\* Without a manager and a call under way no box and no string is left, and no
\* bundle but that of a manager whose drop unwound out of clear_analysis_state.
THEOREM AllFreed == Spec => []NothingLeaks
  <1>1. PipelineInv => NothingLeaks
    BY DEF PipelineInv, BoxesOK, NothingLeaks
  <1> QED
    BY PipelineAlways, <1>1, PTL

=============================================================================
