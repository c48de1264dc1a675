---------------------------- MODULE OptionsProofs ----------------------------
(***************************************************************************)
(* Proofs about Options, for every LLVM version, any texts and any points: *)
(* what becomes of a level on its way through LLVM's own levels and back;  *)
(* that a request to optimise for size is honoured; that building ends in  *)
(* exhaustion of the stack for no reason but a text that includes itself,  *)
(* from which nothing is ever built; and that what is built has exactly    *)
(* the passes that the texts asked for, at their points and in order.      *)
(***************************************************************************)
EXTENDS Options, WellFoundedInduction, SequenceTheorems, FiniteSetTheorems, TLAPS

\* opt_level_from_c undoes OptLevel::to_c.
LEMMA FromToC ==
    ASSUME NEW level \in OptLevels
    PROVE  OptLevelFromC(ToC[level]) = level
  <1>1. \A l, k \in OptLevels : ToC[l] = ToC[k] => l = k
    BY DEF OptLevels, ToC
  <1> QED
    BY <1>1 DEF OptLevelFromC

\* reverseMapOptLevel undoes mapOptLevel, but for Os and Oz from version 23 on.
LEMMA MapAndBack ==
    ASSUME version \in Nat, NEW level \in OptLevels
    PROVE  ReverseMapOptLevel(MapOptLevel(ToC[level])) =
             IF version >= 23 /\ level \in {"Os", "Oz"} THEN ToC["O2"] ELSE ToC[level]
  <1>1. CASE level \in {"O0", "O1", "O2", "O3"}
    <2>1. ToC[level] \in 0 .. 3
      BY <1>1 DEF ToC
    <2>2. MapOptLevel(ToC[level]) = Level(ToC[level], 0)
      BY <2>1 DEF MapOptLevel
    <2> QED
      BY <1>1, <2>1, <2>2 DEF ReverseMapOptLevel, Level
  <1>2. CASE level = "Os"
    <2>1. ToC[level] = 4 /\ ToC["O2"] = 2
      BY <1>2 DEF ToC
    <2>2. MapOptLevel(4) = IF version < 23 THEN Level(2, 1) ELSE Level(2, 0)
      BY DEF MapOptLevel
    <2> QED
      BY <1>2, <2>1, <2>2 DEF ReverseMapOptLevel, Level
  <1>3. CASE level = "Oz"
    <2>1. ToC[level] = 5 /\ ToC["O2"] = 2
      BY <1>3 DEF ToC
    <2>2. MapOptLevel(5) = IF version < 23 THEN Level(2, 2) ELSE Level(2, 0)
      BY DEF MapOptLevel
    <2> QED
      BY <1>3, <2>1, <2>2 DEF ReverseMapOptLevel, Level
  <1> QED
    BY <1>1, <1>2, <1>3 DEF OptLevels

\* The version of a build does not change.
LEMMA VersionStays == [Next]_vars => version' = version
  BY DEF Next, vars, New, DropOptions, SetFlag, AddEP, EditOptions, Create, CreateFromText,
         ReachPoint, CallBack, AddElement, Return, Finish, Run, RunEntry, EndRun, Drop

\* Whatever LLVM version llvm-pm is built against, the level that an extension
\* point callback of a plugin is told is the one the host was asked for, or O2
\* where from LLVM 23 on Os and Oz have become attributes.
THEOREM LevelsTold == Spec => []LevelTold
  <1>1. Init => version \in Nat
    BY BoundAssumption DEF Init
  <1>2. version \in Nat /\ [Next]_vars => (version \in Nat)'
    BY VersionStays
  <1>3. version \in Nat => LevelTold
    <2> SUFFICES ASSUME version \in Nat, NEW level \in OptLevels
                 PROVE  OptLevelFromC(ReverseMapOptLevel(MapOptLevel(ToC[level]))) =
                          IF version >= 23 /\ level \in {"Os", "Oz"} THEN "O2" ELSE level
      BY DEF LevelTold
    <2>1. "O2" \in OptLevels
      BY DEF OptLevels
    <2> QED
      BY <2>1, MapAndBack, FromToC
  <1> QED
    BY <1>1, <1>2, <1>3, PTL DEF Spec

-----------------------------------------------------------------------------
(***************************************************************************)
(* The inductive invariant.                                                *)
(***************************************************************************)
Elems == {"p", "q", "default"}
Frame == [in : {"pipeline", "callbacks", "text"}, at : EPs \cup {"caller", None},
          rest : Seq(EPs) \cup Seq(Text) \cup Seq(Elems)]

\* What each kind of call has left to do.
RestOK(c) ==
    \/ c.in = "pipeline" /\ c.rest \in Seq(EPs)
    \/ c.in = "callbacks" /\ c.at \in EPs /\ c.rest \in Seq(Text)
    \/ c.in = "text" /\ c.at \in EPs \cup {"caller"} /\ c.rest \in Seq(Elems)

\* Calls nest in one way only, from a pipeline or from the text of a caller.
Inner(in) == IF in = "pipeline" THEN "callbacks" ELSE IF in = "callbacks" THEN "text" ELSE "pipeline"
CallsOK ==
    /\ todo \in Seq(Frame)
    /\ \A i \in DOMAIN todo : RestOK(todo[i])
    /\ todo # <<>> =>
        /\ phase \in {"building", "crashed"}
        /\ todo[1].in = IF pm.text = None THEN "pipeline" ELSE "text"
    /\ \A i \in 1 .. Len(todo) - 1 : todo[i + 1].in = Inner(todo[i].in)
    /\ \A i \in DOMAIN todo : todo[i].in = "text" => (todo[i].at = "caller" <=> i = 1)

\* What a call has left comes from the pipeline and the options of the manager.
OriginAt(i) ==
    /\ todo[i].in = "pipeline" =>
          Range(todo[i].rest) \subseteq Range(pm.reached) /\ (i >= 3 => IncludesItself)
    /\ todo[i].in = "callbacks" /\ todo[i].rest # <<>> =>
          InForce(todo[i].at) /\ Range(todo[i].rest) \subseteq Range(pm.asked.eps[todo[i].at])
    /\ todo[i].in = "text" /\ todo[i].at # "caller" /\ "default" \in Range(todo[i].rest) =>
          IncludesItself
OriginOK == \A i \in DOMAIN todo : OriginAt(i)

\* A point in force with a text that names a default pipeline.
Loops(ep) ==
    /\ ep \in ModuleEPs /\ InForce(ep)
    /\ \E i \in DOMAIN pm.asked.eps[ep] :
        "default" \in Range(Accepted(pm.asked.eps[ep][i], TRUE))

\* A pipeline that includes itself always has a default pipeline ahead of it:
\* behind a point to come, in a callback to come, in the text being parsed or
\* in the making.
Ahead(k) ==
    \/ \E ep \in Range(todo[k].rest) : Loops(ep)
    \/ /\ k + 1 \in DOMAIN todo /\ todo[k + 1].at \in ModuleEPs
       /\ \E text \in Range(todo[k + 1].rest) : "default" \in Range(Accepted(text, TRUE))
    \/ k + 2 \in DOMAIN todo /\ "default" \in Range(todo[k + 2].rest)
    \/ k + 3 \in DOMAIN todo
PendingOK ==
    todo # <<>> /\ IncludesItself =>
        \A k \in DOMAIN todo : todo[k].in = "pipeline" => Ahead(k)

Optimises == \E i \in DOMAIN pm.entries : pm.entries[i].pass = "optimise"
LoopOK ==
    /\ phase = "crashed" => IncludesItself
    /\ phase = "building" /\ IncludesItself /\ Optimises =>
          \E k \in DOMAIN todo : todo[k].in = "pipeline"
    /\ phase \in {"ready", "running"} /\ IncludesItself => ~ Optimises

\* A manager made for a level has the passes of that level, or includes itself.
LevelOK ==
    pm # None =>
        /\ pm.level = None <=> pm.text # None
        /\ pm.text = None => IncludesItself \/
              \A i \in DOMAIN pm.entries : pm.entries[i].pass = "optimise" =>
                  pm.entries[i].level = MapOptLevel(ToC[pm.level])

\* From LLVM 23 on the attributes for size are given before anything else runs.
ForSize == phase \in {"ready", "running"} /\ version >= 23 /\ pm.level \in {"Os", "Oz"}
SizeOK ==
    /\ ForSize => pm.entries # <<>> /\ pm.entries[1] = SizeAttr
    /\ phase = "running" => pos >= 1
    /\ ForSize /\ phase = "running" /\ pos > 1 =>
          \A f \in Functions \ Declarations : "optnone" \notin attrs[f] =>
              "optsize" \in attrs[f] /\ (pm.level = "Oz" => "minsize" \in attrs[f])

OptionsInv == CallsOK /\ OriginOK /\ PendingOK /\ LoopOK /\ LevelOK /\ SizeOK

-----------------------------------------------------------------------------
(***************************************************************************)
(* Sequences and texts.                                                    *)
(***************************************************************************)

\* A set of naturals has a least element.
LEMMA Least ==
    ASSUME NEW T, T \subseteq Nat, T # {}
    PROVE  \E n \in T : \A i \in Nat : i < n => i \notin T
  <1> DEFINE R == OpToRel(<, Nat)
  <1>1. IsWellFoundedOn(R, Nat)
    BY NatLessThanWellFounded
  <1>2. PICK x \in T : \A y \in T : <<y, x>> \notin R
    <2> HIDE DEF R
    <2> QED BY <1>1, WFMin
  <1>3. ASSUME NEW i \in Nat, i < x PROVE i \notin T
    BY <1>2, <1>3 DEF OpToRel
  <1> QED BY <1>2, <1>3

\* The start of a sequence, all elements of which are in T.
LEMMA StartOfSeq ==
    ASSUME NEW S, NEW T, NEW s \in Seq(S), NEW n \in 0 .. Len(s),
           \A i \in 1 .. n : s[i] \in T
    PROVE  SubSeq(s, 1, n) \in Seq(T)
  BY SubSeqProperties

LEMMA HeadAndTail ==
    ASSUME NEW S, NEW s \in Seq(S), s # <<>>
    PROVE  /\ Head(s) \in S /\ Head(s) \in Range(s)
           /\ Tail(s) \in Seq(S) /\ Range(Tail(s)) \subseteq Range(s)
           /\ \A x \in Range(s) : x = Head(s) \/ x \in Range(Tail(s))
  <1>1. /\ Head(s) \in S /\ Tail(s) \in Seq(S) /\ Len(Tail(s)) = Len(s) - 1
        /\ \A i \in 1 .. Len(Tail(s)) : Tail(s)[i] = s[i + 1]
    BY HeadTailProperties
  <1>2. /\ Len(s) \in Nat /\ Len(s) # 0 /\ DOMAIN s = 1 .. Len(s)
        /\ DOMAIN Tail(s) = 1 .. Len(s) - 1
    BY <1>1, LenProperties, EmptySeq
  <1>3. Head(s) = s[1] /\ Head(s) \in Range(s)
    BY <1>2 DEF Range
  <1>4. ASSUME NEW x \in Range(Tail(s)) PROVE x \in Range(s)
    <2>1. PICK i \in 1 .. Len(s) - 1 : Tail(s)[i] = x
      BY <1>2, <1>4 DEF Range
    <2>2. i + 1 \in DOMAIN s /\ s[i + 1] = x
      BY <1>1, <1>2, <2>1
    <2> QED BY <2>2 DEF Range
  <1>5. ASSUME NEW x \in Range(s), x # Head(s) PROVE x \in Range(Tail(s))
    <2>1. PICK i \in 1 .. Len(s) : s[i] = x
      BY <1>2, <1>5 DEF Range
    <2>2. i # 1
      BY <1>3, <1>5, <2>1
    <2>3. i - 1 \in DOMAIN Tail(s) /\ Tail(s)[i - 1] = x
      BY <1>1, <1>2, <2>1, <2>2
    <2> QED BY <2>3 DEF Range
  <1> QED BY <1>1, <1>3, <1>4, <1>5

\* What a text adds are elements that can be parsed where it is.
LEMMA AcceptedElems ==
    ASSUME NEW text \in Text, NEW module \in BOOLEAN
    PROVE  /\ Accepted(text, module) \in Seq(Elems)
           /\ ~ module => "default" \notin Range(Accepted(text, module))
  <1> DEFINE All == {"p", "q", "default", "unknown"}
             T == {e \in All : ~ Unparsable(e, module)}
             s == text.elems
  <1>1. s \in Seq(All) /\ text.wrapped \in BOOLEAN
    BY DEF Text
  <1>2. /\ Len(s) \in Nat /\ DOMAIN s = 1 .. Len(s)
        /\ \A i \in 1 .. Len(s) : s[i] \in All
    BY <1>1, LenProperties
  <1>3. ASSUME NEW n \in 0 .. Len(s), \A i \in 1 .. n : ~ Unparsable(s[i], module)
        PROVE  SubSeq(s, 1, n) \in Seq(T)
    <2>1. \A i \in 1 .. n : s[i] \in T
      BY <1>2, <1>3
    <2> HIDE DEF s, T, All
    <2> QED BY <1>1, <1>2, <2>1, StartOfSeq
  <1>4. Accepted(text, module) \in Seq(T)
    <2>1. CASE ~ Refused(text, module)
      <3>1. Len(s) \in 0 .. Len(s) /\ \A i \in 1 .. Len(s) : ~ Unparsable(s[i], module)
        BY <1>2, <2>1 DEF Refused
      <3>2. SubSeq(s, 1, Len(s)) = s
        BY <1>1, SubSeqFull
      <3>3. Accepted(text, module) = s
        BY <2>1 DEF Accepted
      <3> QED BY <1>3, <3>1, <3>2, <3>3
    <2>2. CASE Refused(text, module) /\ (text.wrapped \/ s = <<>>)
      BY <2>2, EmptySeq DEF Accepted
    <2>3. CASE Refused(text, module) /\ ~ (text.wrapped \/ s = <<>>)
      <3> DEFINE Bad == {n \in DOMAIN s : Unparsable(s[n], module)}
                 First(n) == /\ Unparsable(s[n], module)
                             /\ \A i \in 1 .. n - 1 : ~ Unparsable(s[i], module)
      <3>1. Bad # {} /\ Bad \subseteq Nat
        BY <1>2, <2>3 DEF Refused
      <3>2. PICK m \in Bad : \A i \in Nat : i < m => i \notin Bad
        <4> HIDE DEF Bad
        <4> QED BY <3>1, Least
      <3>3. m \in DOMAIN s /\ First(m)
        BY <1>2, <3>2
      <3>4. PICK n : n = CHOOSE j \in DOMAIN s : First(j)
        OBVIOUS
      <3>5. n \in DOMAIN s /\ First(n)
        BY <3>3, <3>4
      <3>6. Accepted(text, module) = SubSeq(s, 1, n - 1)
        BY <2>3, <3>4 DEF Accepted
      <3>7. n - 1 \in 0 .. Len(s) /\ \A i \in 1 .. n - 1 : ~ Unparsable(s[i], module)
        BY <1>2, <3>5
      <3> QED BY <1>3, <3>6, <3>7
    <2> QED BY <2>1, <2>2, <2>3
  <1>5. T \subseteq Elems /\ (~ module => "default" \notin T)
    BY DEF Unparsable, Elems
  <1> HIDE DEF T
  <1>6. Accepted(text, module) \in Seq(Elems)
    BY <1>4, <1>5, SeqMonotonic
  <1>7. Range(Accepted(text, module)) \subseteq T
    <2>1. \A i \in DOMAIN Accepted(text, module) : Accepted(text, module)[i] \in T
      BY <1>4, LenProperties, ElementOfSeq
    <2> QED BY <2>1 DEF Range
  <1> QED BY <1>5, <1>6, <1>7

-----------------------------------------------------------------------------
(***************************************************************************)
(* The calls in progress, as one of them goes on, calls or returns.        *)
(***************************************************************************)

\* The innermost call, and what is below it.
LEMMA Innermost ==
    ASSUME CallsOK, todo # <<>>
    PROVE  /\ Len(todo) \in Nat \ {0} /\ DOMAIN todo = 1 .. Len(todo)
           /\ Call = todo[Len(todo)] /\ Call \in Frame /\ RestOK(Call)
           /\ \A i \in 1 .. Len(todo) : todo[i] \in Frame /\ RestOK(todo[i])
  <1>1. todo \in Seq(Frame)
    BY DEF CallsOK
  <1>2. Len(todo) \in Nat \ {0} /\ DOMAIN todo = 1 .. Len(todo)
    BY <1>1, LenProperties, EmptySeq
  <1>3. \A i \in 1 .. Len(todo) : todo[i] \in Frame
    BY <1>1, ElementOfSeq
  <1>4. Call = todo[Len(todo)]
    BY DEF Call, Last
  <1> QED BY <1>2, <1>3, <1>4 DEF CallsOK

LEMMA RestOfCall ==
    ASSUME NEW c, c \in Frame, RestOK(c), c.rest # <<>>
    PROVE  /\ Head(c.rest) \in Range(c.rest) /\ Range(Tail(c.rest)) \subseteq Range(c.rest)
           /\ \A x \in Range(c.rest) : x = Head(c.rest) \/ x \in Range(Tail(c.rest))
           /\ c.in = "pipeline" => Head(c.rest) \in EPs /\ Tail(c.rest) \in Seq(EPs)
           /\ c.in = "callbacks" => Head(c.rest) \in Text /\ Tail(c.rest) \in Seq(Text)
           /\ c.in = "text" => Head(c.rest) \in Elems /\ Tail(c.rest) \in Seq(Elems)
  <1>1. CASE c.in = "pipeline"
    <2>1. c.rest \in Seq(EPs)
      BY <1>1 DEF RestOK
    <2> QED BY <1>1, <2>1, HeadAndTail
  <1>2. CASE c.in = "callbacks"
    <2>1. c.rest \in Seq(Text)
      BY <1>2 DEF RestOK
    <2> QED BY <1>2, <2>1, HeadAndTail
  <1>3. CASE c.in = "text"
    <2>1. c.rest \in Seq(Elems)
      BY <1>3 DEF RestOK
    <2> QED BY <1>3, <2>1, HeadAndTail
  <1> QED BY <1>1, <1>2, <1>3 DEF RestOK

\* After the innermost call has gone on, only its rest is another.
LEMMA StepFacts ==
    ASSUME CallsOK, todo # <<>>, Call.rest # <<>>
    PROVE  /\ Step \in Seq(Frame) /\ Len(Step) = Len(todo)
           /\ \A i \in 1 .. Len(todo) - 1 : Step[i] = todo[i]
           /\ Step[Len(todo)].in = Call.in /\ Step[Len(todo)].at = Call.at
           /\ Step[Len(todo)].rest = Tail(Call.rest) /\ RestOK(Step[Len(todo)])
  <1> DEFINE n == Len(todo)
             c == [Call EXCEPT !.rest = Tail(Call.rest)]
  <1>1. /\ n \in Nat \ {0} /\ DOMAIN todo = 1 .. n /\ Call = todo[n]
        /\ Call \in Frame /\ RestOK(Call) /\ todo \in Seq(Frame)
    BY Innermost DEF CallsOK
  <1>2. c.in = Call.in /\ c.at = Call.at /\ c.rest = Tail(Call.rest)
    BY <1>1 DEF Frame
  <1>3. RestOK(c)
    BY <1>1, <1>2, RestOfCall DEF RestOK
  <1>4. c \in Frame
    <2>1. Tail(Call.rest) \in Seq(EPs) \cup Seq(Text) \cup Seq(Elems)
      BY <1>2, <1>3 DEF RestOK
    <2> QED BY <1>1, <2>1 DEF Frame
  <1>5. Step = [todo EXCEPT ![n] = c]
    BY <1>1 DEF Step
  <1> HIDE DEF c
  <1>6. /\ Step \in Seq(Frame) /\ Len(Step) = n
        /\ \A j \in 1 .. n : Step[j] = IF j = n THEN c ELSE todo[j]
    BY <1>1, <1>4, <1>5, ExceptSeq
  <1>n. n \in Nat \ {0}
    BY <1>1
  <1> HIDE DEF n
  <1>7. \A i \in 1 .. n - 1 : Step[i] = todo[i]
    BY <1>n, <1>6
  <1>8. Step[n] = c
    BY <1>n, <1>6
  <1> QED BY <1>2, <1>3, <1>6, <1>7, <1>8 DEF n

\* A call from the innermost one.
LEMMA PushFacts ==
    ASSUME CallsOK, todo # <<>>, Call.rest # <<>>, NEW inner \in Frame,
           todo' = Append(Step, inner)
    PROVE  /\ todo' \in Seq(Frame) /\ Len(todo') = Len(todo) + 1
           /\ \A i \in 1 .. Len(todo) - 1 : todo'[i] = todo[i]
           /\ todo'[Len(todo)] = Step[Len(todo)]
           /\ todo'[Len(todo) + 1] = inner
  <1>1. /\ Step \in Seq(Frame) /\ Len(Step) = Len(todo)
        /\ \A i \in 1 .. Len(todo) - 1 : Step[i] = todo[i]
        /\ Len(todo) \in Nat \ {0}
    BY StepFacts, Innermost
  <1>2. /\ todo' \in Seq(Frame) /\ Len(todo') = Len(Step) + 1
        /\ \A i \in 1 .. Len(Step) : todo'[i] = Step[i]
        /\ todo'[Len(Step) + 1] = inner
    BY <1>1, AppendProperties
  <1>3. \A i \in 1 .. Len(todo) - 1 : todo'[i] = todo[i]
    BY <1>1, <1>2
  <1>4. todo'[Len(todo)] = Step[Len(todo)]
    BY <1>1, <1>2
  <1> QED BY <1>1, <1>2, <1>3, <1>4

\* What the calls depend on beyond themselves.
SameManager ==
    /\ version' = version
    /\ pm'.reached = pm.reached /\ pm'.asked = pm.asked /\ pm'.text = pm.text

LEMMA SameLoops ==
    ASSUME SameManager
    PROVE  /\ IncludesItself' = IncludesItself
           /\ \A ep : InForce(ep)' = InForce(ep)
           /\ \A ep : Loops(ep)' = Loops(ep)
  BY DEF SameManager, IncludesItself, InForce, Loops, Accepted

\* A call keeps to the order of calls, and is justified by the one it came from.
LEMMA PushInv ==
    ASSUME CallsOK, OriginOK, PendingOK, SameManager,
           phase = "building", phase' = "building", todo # <<>>, Call.rest # <<>>,
           NEW inner \in Frame, todo' = Append(Step, inner),
           RestOK(inner), inner.in = Inner(Call.in),
           inner.in = "text" => inner.at # "caller",
           inner.in = "pipeline" =>
              /\ Range(inner.rest) \subseteq Range(pm.reached)
              /\ Len(todo) >= 2 => IncludesItself
              /\ IncludesItself => \E ep \in Range(inner.rest) : Loops(ep),
           inner.in = "callbacks" =>
              /\ inner.rest # <<>> =>
                    InForce(inner.at) /\ Range(inner.rest) \subseteq Range(pm.asked.eps[inner.at])
              /\ Loops(Head(Call.rest)) =>
                    /\ inner.at \in ModuleEPs
                    /\ \E text \in Range(inner.rest) : "default" \in Range(Accepted(text, TRUE)),
           inner.in = "text" =>
              /\ "default" \in Range(inner.rest) => IncludesItself
              /\ Call.at \in ModuleEPs /\ "default" \in Range(Accepted(Head(Call.rest), TRUE)) =>
                    "default" \in Range(inner.rest)
    PROVE  CallsOK' /\ OriginOK' /\ PendingOK'
  <1>n. PICK n : n = Len(todo)
    OBVIOUS
  <1>0. n \in Nat \ {0}
    BY <1>n, Innermost
  <1>1. DOMAIN todo = 1 .. n /\ Call = todo[n] /\ RestOK(Call) /\ Call \in Frame
    BY <1>n, Innermost
  <1>2. /\ todo' \in Seq(Frame) /\ Len(todo') = n + 1 /\ DOMAIN todo' = 1 .. n + 1
        /\ todo'[n + 1] = inner
    BY <1>n, PushFacts, LenProperties
  <1>3. \A i \in 1 .. n - 1 : todo'[i] = todo[i]
    BY <1>n, PushFacts
  <1>4. /\ todo'[n].in = Call.in /\ todo'[n].at = Call.at /\ todo'[n].rest = Tail(Call.rest)
        /\ RestOK(todo'[n])
    BY <1>n, PushFacts, StepFacts
  <1>5. /\ Range(Tail(Call.rest)) \subseteq Range(Call.rest)
        /\ \A x \in Range(Call.rest) : x = Head(Call.rest) \/ x \in Range(Tail(Call.rest))
    BY <1>1, RestOfCall
  <1>6. \A i \in 1 .. n : todo'[i].in = todo[i].in /\ todo'[i].at = todo[i].at
    <2>1. \A i \in 1 .. n : i \in 1 .. n - 1 \/ i = n
      BY <1>0
    <2> QED BY <1>1, <1>3, <1>4, <2>1
  <1>7. \A i \in 1 .. n : Range(todo'[i].rest) \subseteq Range(todo[i].rest)
    <2>1. \A i \in 1 .. n : i \in 1 .. n - 1 \/ i = n
      BY <1>0
    <2> QED BY <1>1, <1>3, <1>4, <1>5, <2>1
  <1>8. CallsOK'
    <2>1. \A i \in 1 .. n + 1 : RestOK(todo'[i])
      BY <1>0, <1>1, <1>2, <1>3, <1>4 DEF CallsOK
    <2>2. todo'[1].in = IF pm'.text = None THEN "pipeline" ELSE "text"
      BY <1>0, <1>1, <1>6 DEF CallsOK, SameManager
    <2>3. \A i \in 1 .. n : todo'[i + 1].in = Inner(todo'[i].in)
      <3>1. ASSUME NEW i \in 1 .. n PROVE todo'[i + 1].in = Inner(todo'[i].in)
        <4>1. CASE i = n
          BY <1>0, <1>1, <1>2, <1>6, <4>1
        <4>2. CASE i # n
          <5>1. i \in 1 .. n - 1 /\ i + 1 \in 1 .. n
            BY <1>0, <1>1, <4>2
          <5>2. todo[i + 1].in = Inner(todo[i].in)
            BY <1>n, <5>1 DEF CallsOK
          <5> QED BY <1>6, <5>1, <5>2
        <4> QED BY <4>1, <4>2
      <3> QED BY <3>1
    <2>4. \A i \in 1 .. n + 1 : todo'[i].in = "text" => (todo'[i].at = "caller" <=> i = 1)
      <3>1. ASSUME NEW i \in 1 .. n, todo'[i].in = "text" PROVE todo'[i].at = "caller" <=> i = 1
        BY <1>0, <1>1, <1>6, <3>1 DEF CallsOK
      <3>2. n + 1 # 1
        BY <1>0, <1>1
      <3>3. \A i \in 1 .. n + 1 : i \in 1 .. n \/ i = n + 1
        BY <1>0, <1>1
      <3> QED BY <1>2, <3>1, <3>2, <3>3
    <2> QED BY <1>0, <1>1, <1>2, <2>1, <2>2, <2>3, <2>4 DEF CallsOK, RestOK
  <1>9. OriginOK'
    <2>1. /\ IncludesItself' = IncludesItself
          /\ pm'.reached = pm.reached /\ pm'.asked = pm.asked /\ version' = version
      BY SameLoops DEF SameManager
    <2>2. OriginAt(n + 1)'
      <3>1. inner.in = "pipeline" =>
              Range(inner.rest) \subseteq Range(pm'.reached) /\ (n + 1 >= 3 => IncludesItself')
        BY <1>n, <1>0, <2>1
      <3>2. inner.in = "callbacks" /\ inner.rest # <<>> =>
              /\ inner.at \in Range(pm'.reached) /\ version' >= Since[inner.at]
              /\ Range(inner.rest) \subseteq Range(pm'.asked.eps[inner.at])
        BY <2>1 DEF InForce
      <3>3. inner.in = "text" /\ "default" \in Range(inner.rest) => IncludesItself'
        BY <2>1
      <3> QED BY <1>2, <3>1, <3>2, <3>3 DEF OriginAt, InForce
    <2>3. ASSUME NEW i \in 1 .. n PROVE OriginAt(i)'
      <3>1. OriginAt(i)
        BY <1>1 DEF OriginOK
      <3>2. todo'[i].rest # <<>> => todo[i].rest # <<>>
        <4>1. i \in 1 .. n - 1 \/ i = n
          BY <1>0
        <4> QED BY <1>1, <1>3, <4>1
      <3> QED BY <1>6, <1>7, <2>1, <3>1, <3>2 DEF OriginAt, InForce
    <2> QED BY <1>0, <1>2, <2>2, <2>3 DEF OriginOK
  <1>10. PendingOK'
    <2>1. /\ IncludesItself' = IncludesItself
          /\ \A ep : Loops(ep)' = Loops(ep)
      BY SameLoops
    <2> SUFFICES ASSUME IncludesItself PROVE PendingOK'
      BY <2>1 DEF PendingOK
    <2>2. ASSUME NEW k \in 1 .. n + 1, todo'[k].in = "pipeline" PROVE Ahead(k)'
      <3>1. CASE k = n + 1
        <4>1. \E ep \in Range(inner.rest) : Loops(ep)'
          BY <1>2, <2>1, <2>2, <3>1
        <4> QED BY <1>2, <3>1, <4>1 DEF Ahead
      <3>2. CASE k \in 1 .. n
        <4>1. todo[k].in = "pipeline" /\ Ahead(k)
          BY <1>1, <1>6, <2>2, <3>2 DEF PendingOK
        <4>2. CASE k = n
          <5>1. PICK ep \in Range(Call.rest) : Loops(ep)
            <6>1. k + 1 \notin DOMAIN todo /\ k + 2 \notin DOMAIN todo /\ k + 3 \notin DOMAIN todo
              BY <1>0, <1>1, <4>2
            <6>2. \E ep \in Range(todo[k].rest) : Loops(ep)
              BY <4>1, <6>1 DEF Ahead
            <6> QED BY <1>1, <4>2, <6>2
          <5>2. inner.in = "callbacks"
            BY <1>1, <4>1, <4>2 DEF Inner
          <5>3. CASE ep = Head(Call.rest)
            <6>1. /\ inner.at \in ModuleEPs
                  /\ \E text \in Range(inner.rest) : "default" \in Range(Accepted(text, TRUE))
              BY <5>1, <5>2, <5>3
            <6>2. k + 1 \in DOMAIN todo' /\ todo'[k + 1] = inner
              BY <1>0, <1>2, <4>2
            <6> QED BY <6>1, <6>2 DEF Ahead, Accepted
          <5>4. CASE ep # Head(Call.rest)
            <6>1. ep \in Range(todo'[k].rest)
              BY <1>4, <1>5, <4>2, <5>1, <5>4
            <6> QED BY <2>1, <5>1, <6>1 DEF Ahead
          <5> QED BY <5>3, <5>4
        <4>3. CASE k = n - 1
          <5>1. k \in 1 .. n - 1 /\ k + 1 = n /\ k + 2 = n + 1
            BY <1>0, <3>2, <4>3
          <5>2. Call.in = "callbacks" /\ inner.in = "text"
            BY <1>n, <1>1, <4>1, <5>1 DEF CallsOK, Inner
          <5>3. \/ \E ep \in Range(todo[k].rest) : Loops(ep)
                \/ /\ Call.at \in ModuleEPs
                   /\ \E text \in Range(Call.rest) : "default" \in Range(Accepted(text, TRUE))
            <6>1. k + 2 \notin DOMAIN todo /\ k + 3 \notin DOMAIN todo /\ todo[k + 1] = Call
              BY <1>0, <1>1, <5>1
            <6> QED BY <4>1, <6>1 DEF Ahead
          <5>4. CASE \E ep \in Range(todo[k].rest) : Loops(ep)
            BY <1>3, <2>1, <5>1, <5>4 DEF Ahead
          <5>5. CASE /\ Call.at \in ModuleEPs
                     /\ \E text \in Range(Call.rest) : "default" \in Range(Accepted(text, TRUE))
            <6>1. PICK text \in Range(Call.rest) : "default" \in Range(Accepted(text, TRUE))
              BY <5>5
            <6>2. CASE text = Head(Call.rest)
              <7>1. "default" \in Range(inner.rest)
                BY <5>2, <5>5, <6>1, <6>2
              <7>2. k + 2 \in DOMAIN todo' /\ todo'[k + 2] = inner
                BY <1>0, <1>2, <5>1
              <7> QED BY <7>1, <7>2 DEF Ahead
            <6>3. CASE text # Head(Call.rest)
              <7>1. text \in Range(todo'[k + 1].rest) /\ todo'[k + 1].at \in ModuleEPs
                BY <1>4, <1>5, <5>1, <5>5, <6>1, <6>3
              <7>2. k + 1 \in DOMAIN todo'
                BY <1>0, <1>2, <5>1
              <7> QED BY <6>1, <7>1, <7>2 DEF Ahead, Accepted
            <6> QED BY <6>2, <6>3
          <5> QED BY <5>3, <5>4, <5>5
        <4>4. CASE k \in 1 .. n - 2
          <5>1. k + 3 \in DOMAIN todo'
            BY <1>0, <1>2, <4>4
          <5> QED BY <5>1 DEF Ahead
        <4> QED BY <1>0, <3>2, <4>2, <4>3, <4>4
      <3> QED BY <1>0, <3>1, <3>2
    <2> QED BY <1>2, <2>2 DEF PendingOK
  <1> QED BY <1>8, <1>9, <1>10

\* The parser goes on in a text, behind a pass.
LEMMA GoOnInv ==
    ASSUME CallsOK, OriginOK, PendingOK, SameManager,
           phase = "building", phase' = "building", todo # <<>>, Call.rest # <<>>,
           Call.in = "text", Head(Call.rest) # "default", todo' = Step
    PROVE  CallsOK' /\ OriginOK' /\ PendingOK'
  <1>n. PICK n : n = Len(todo)
    OBVIOUS
  <1>0. n \in Nat \ {0}
    BY <1>n, Innermost
  <1>1. DOMAIN todo = 1 .. n /\ Call = todo[n] /\ RestOK(Call) /\ Call \in Frame
    BY <1>n, Innermost
  <1>2. todo' \in Seq(Frame) /\ Len(todo') = n /\ DOMAIN todo' = 1 .. n
    BY <1>n, StepFacts, LenProperties
  <1>3. \A i \in 1 .. n - 1 : todo'[i] = todo[i]
    BY <1>n, StepFacts
  <1>4. /\ todo'[n].in = Call.in /\ todo'[n].at = Call.at /\ todo'[n].rest = Tail(Call.rest)
        /\ RestOK(todo'[n])
    BY <1>n, StepFacts
  <1>5. /\ Range(Tail(Call.rest)) \subseteq Range(Call.rest)
        /\ \A x \in Range(Call.rest) : x = Head(Call.rest) \/ x \in Range(Tail(Call.rest))
    BY <1>1, RestOfCall
  <1>s. \A i \in 1 .. n : i \in 1 .. n - 1 \/ i = n
    BY <1>0
  <1>6. \A i \in 1 .. n : todo'[i].in = todo[i].in /\ todo'[i].at = todo[i].at
    BY <1>1, <1>3, <1>4, <1>s
  <1>7. \A i \in 1 .. n : Range(todo'[i].rest) \subseteq Range(todo[i].rest)
    BY <1>1, <1>3, <1>4, <1>5, <1>s
  <1>8. CallsOK'
    <2>1. \A i \in 1 .. n : RestOK(todo'[i])
      BY <1>0, <1>1, <1>3, <1>4, <1>s DEF CallsOK
    <2>2. todo'[1].in = IF pm'.text = None THEN "pipeline" ELSE "text"
      BY <1>0, <1>1, <1>6 DEF CallsOK, SameManager
    <2>3. \A i \in 1 .. n - 1 : todo'[i + 1].in = Inner(todo'[i].in)
      <3>1. \A i \in 1 .. n - 1 : i \in 1 .. n /\ i + 1 \in 1 .. n
        BY <1>0
      <3>2. \A i \in 1 .. n - 1 : todo[i + 1].in = Inner(todo[i].in)
        BY <1>n DEF CallsOK
      <3> QED BY <1>6, <3>1, <3>2
    <2>4. \A i \in 1 .. n : todo'[i].in = "text" => (todo'[i].at = "caller" <=> i = 1)
      BY <1>1, <1>6 DEF CallsOK
    <2> QED BY <1>0, <1>1, <1>2, <2>1, <2>2, <2>3, <2>4 DEF CallsOK, RestOK
  <1>9. OriginOK'
    <2>1. /\ IncludesItself' = IncludesItself
          /\ pm'.reached = pm.reached /\ pm'.asked = pm.asked /\ version' = version
      BY SameLoops DEF SameManager
    <2>2. ASSUME NEW i \in 1 .. n PROVE OriginAt(i)'
      <3>1. OriginAt(i)
        BY <1>1 DEF OriginOK
      <3>2. todo'[i].rest # <<>> => todo[i].rest # <<>>
        BY <1>1, <1>3, <1>s
      <3> QED BY <1>6, <1>7, <2>1, <3>1, <3>2 DEF OriginAt, InForce
    <2> QED BY <1>2, <2>2 DEF OriginOK
  <1>10. PendingOK'
    <2>1. /\ IncludesItself' = IncludesItself
          /\ \A ep : Loops(ep)' = Loops(ep)
      BY SameLoops
    <2> SUFFICES ASSUME IncludesItself PROVE PendingOK'
      BY <2>1 DEF PendingOK
    <2>2. ASSUME NEW k \in 1 .. n, todo'[k].in = "pipeline" PROVE Ahead(k)'
      <3>1. todo[k].in = "pipeline" /\ Ahead(k)
        BY <1>1, <1>6, <2>2 DEF PendingOK
      <3>2. k # n
        BY <1>1, <3>1
      <3>3. k \in 1 .. n - 1 /\ (k + 1 = n => Call.in = "callbacks")
        BY <1>n, <1>s, <1>1, <3>1, <3>2 DEF CallsOK, Inner
      <3>4. k \in 1 .. n - 2 /\ k + 1 \in 1 .. n - 1
        BY <1>0, <3>3
      <3>5. todo'[k] = todo[k] /\ todo'[k + 1] = todo[k + 1]
        BY <1>3, <3>3, <3>4
      <3>6. "default" \in Range(todo[k + 2].rest) => "default" \in Range(todo'[k + 2].rest)
        <4>1. k + 2 \in 1 .. n - 1 \/ k + 2 = n
          BY <1>0, <3>4
        <4> QED BY <1>1, <1>3, <1>4, <1>5, <4>1
      <3> QED BY <1>1, <1>2, <2>1, <3>1, <3>5, <3>6 DEF Ahead, Accepted
    <2> QED BY <1>2, <2>2 DEF PendingOK
  <1> QED BY <1>8, <1>9, <1>10

\* The innermost call returns.  A pipeline that includes itself never does.
LEMMA ReturnInv ==
    ASSUME CallsOK, OriginOK, PendingOK, SameManager,
           phase = "building", phase' = "building", todo # <<>>, Call.rest = <<>>,
           todo' = Front(todo)
    PROVE  /\ CallsOK' /\ OriginOK' /\ PendingOK'
           /\ IncludesItself /\ (\E k \in DOMAIN todo : todo[k].in = "pipeline") =>
                 \E k \in DOMAIN todo' : todo'[k].in = "pipeline"
  <1>n. PICK n : n = Len(todo)
    OBVIOUS
  <1>0. n \in Nat \ {0}
    BY <1>n, Innermost
  <1>1. DOMAIN todo = 1 .. n /\ Call = todo[n] /\ todo \in Seq(Frame)
    BY <1>n, Innermost DEF CallsOK
  <1>2. /\ todo' \in Seq(Frame) /\ Len(todo') = n - 1 /\ DOMAIN todo' = 1 .. n - 1
        /\ \A i \in 1 .. n - 1 : todo'[i] = todo[i]
    <2>1. todo' = SubSeq(todo, 1, n - 1)
      BY <1>n DEF Front
    <2>2. \A i \in 1 .. n - 1 : todo[i] \in Frame
      BY <1>n, <1>0, <1>1, ElementOfSeq
    <2>3. /\ todo' \in Seq(Frame) /\ Len(todo') = n - 1
          /\ \A i \in 1 .. n - 1 : todo'[i] = todo[1 + i - 1]
      BY <1>0, <2>1, <2>2, SubSeqProperties
    <2> QED BY <1>0, <2>3, LenProperties
  <1>s. \A i \in 1 .. n - 1 : i \in 1 .. n
    BY <1>0
  <1>3. CallsOK'
    <2>1. \A i \in 1 .. n - 1 : RestOK(todo'[i])
      BY <1>1, <1>2, <1>s DEF CallsOK
    <2>2. todo' # <<>> => 1 \in 1 .. n - 1
      BY <1>0, <1>2, EmptySeq
    <2>3. todo' # <<>> => todo'[1].in = IF pm'.text = None THEN "pipeline" ELSE "text"
      BY <1>2, <2>2 DEF CallsOK, SameManager
    <2>4. \A i \in 1 .. (n - 1) - 1 : todo'[i + 1].in = Inner(todo'[i].in)
      <3>1. \A i \in 1 .. (n - 1) - 1 : i \in 1 .. n - 1 /\ i + 1 \in 1 .. n - 1
        BY <1>0
      <3>2. \A i \in 1 .. n - 1 : todo[i + 1].in = Inner(todo[i].in)
        BY <1>n DEF CallsOK
      <3> QED BY <1>2, <3>1, <3>2
    <2>5. \A i \in 1 .. n - 1 : todo'[i].in = "text" => (todo'[i].at = "caller" <=> i = 1)
      BY <1>1, <1>2, <1>s DEF CallsOK
    <2> QED BY <1>2, <2>1, <2>3, <2>4, <2>5 DEF CallsOK, RestOK
  <1>4. OriginOK'
    <2>1. /\ IncludesItself' = IncludesItself
          /\ pm'.reached = pm.reached /\ pm'.asked = pm.asked /\ version' = version
      BY SameLoops DEF SameManager
    <2>2. ASSUME NEW i \in 1 .. n - 1 PROVE OriginAt(i)'
      <3>1. OriginAt(i) /\ todo'[i] = todo[i]
        BY <1>1, <1>2, <1>s DEF OriginOK
      <3> QED BY <2>1, <3>1 DEF OriginAt, InForce
    <2> QED BY <1>2, <2>2 DEF OriginOK
  <1>r. Range(Call.rest) = {}
    BY DEF Range
  <1>5. IncludesItself => Call.in # "pipeline"
    <2> SUFFICES ASSUME IncludesItself, Call.in = "pipeline" PROVE FALSE
      OBVIOUS
    <2>1. Ahead(n)
      BY <1>0, <1>1 DEF PendingOK
    <2>2. n + 1 \notin DOMAIN todo /\ n + 2 \notin DOMAIN todo /\ n + 3 \notin DOMAIN todo
      BY <1>0, <1>1
    <2> QED BY <1>1, <1>r, <2>1, <2>2 DEF Ahead
  <1>6. PendingOK'
    <2>1. /\ IncludesItself' = IncludesItself
          /\ \A ep : Loops(ep)' = Loops(ep)
      BY SameLoops
    <2> SUFFICES ASSUME IncludesItself PROVE PendingOK'
      BY <2>1 DEF PendingOK
    <2>2. ASSUME NEW k \in 1 .. n - 1, todo'[k].in = "pipeline" PROVE Ahead(k)'
      <3>1. todo[k].in = "pipeline" /\ Ahead(k) /\ todo'[k] = todo[k]
        BY <1>1, <1>2, <1>s, <2>2 DEF PendingOK
      <3>2. CASE \E ep \in Range(todo[k].rest) : Loops(ep)
        BY <2>1, <3>1, <3>2 DEF Ahead
      <3>3. CASE /\ k + 1 \in DOMAIN todo /\ todo[k + 1].at \in ModuleEPs
                 /\ \E text \in Range(todo[k + 1].rest) : "default" \in Range(Accepted(text, TRUE))
        <4>1. k + 1 # n
          BY <1>1, <1>r, <3>3
        <4>2. k + 1 \in 1 .. n - 1
          BY <1>0, <4>1
        <4> QED BY <1>2, <3>3, <4>2 DEF Ahead, Accepted
      <3>4. CASE k + 2 \in DOMAIN todo /\ "default" \in Range(todo[k + 2].rest)
        <4>1. k + 2 # n
          BY <1>1, <1>r, <3>4
        <4>2. k + 2 \in 1 .. n - 1
          BY <1>0, <1>1, <3>4, <4>1
        <4> QED BY <1>2, <3>4, <4>2 DEF Ahead
      <3>5. CASE k + 3 \in DOMAIN todo
        <4>1. /\ todo[k + 1].in = Inner(todo[k].in) /\ todo[k + 2].in = Inner(todo[k + 1].in)
              /\ todo[k + 3].in = Inner(todo[k + 2].in)
          <5>1. k \in 1 .. n - 1 /\ k + 1 \in 1 .. n - 1 /\ k + 2 \in 1 .. n - 1
            BY <1>0, <1>1, <3>5
          <5>2. \A i \in 1 .. n - 1 : todo[i + 1].in = Inner(todo[i].in)
            BY <1>n DEF CallsOK
          <5>3. (k + 1) + 1 = k + 2 /\ (k + 2) + 1 = k + 3
            BY <5>1
          <5> QED BY <5>1, <5>2, <5>3
        <4>2. todo[k + 3].in = "pipeline"
          BY <3>1, <4>1 DEF Inner
        <4>3. k + 3 # n
          BY <1>1, <1>5, <4>2
        <4>4. k + 3 \in 1 .. n - 1
          BY <1>0, <1>1, <3>5, <4>3
        <4> QED BY <1>2, <4>4 DEF Ahead
      <3> QED BY <3>1, <3>2, <3>3, <3>4, <3>5 DEF Ahead
    <2> QED BY <1>2, <2>2 DEF PendingOK
  <1>7. IncludesItself /\ (\E k \in DOMAIN todo : todo[k].in = "pipeline") =>
            \E k \in DOMAIN todo' : todo'[k].in = "pipeline"
    <2> SUFFICES ASSUME IncludesItself, NEW k \in 1 .. n, todo[k].in = "pipeline"
                 PROVE  \E i \in DOMAIN todo' : todo'[i].in = "pipeline"
      BY <1>1
    <2>1. k # n
      BY <1>1, <1>5
    <2>2. k \in 1 .. n - 1
      BY <1>0, <2>1
    <2> QED BY <1>2, <2>2
  <1> QED BY <1>3, <1>4, <1>6, <1>7

-----------------------------------------------------------------------------
(***************************************************************************)
(* Types of what the actions make.                                         *)
(***************************************************************************)
LEMMA EPFacts ==
    /\ "caller" \notin EPs /\ ModuleEPs \subseteq EPs
    /\ \A ep \in EPs : Since[ep] \in Nat
  BY DEF EPs, ModuleEPs, Since

LEMMA LevelType ==
    ASSUME NEW level \in OptLevels
    PROVE  MapOptLevel(ToC[level]) \in LLVMLevel
  <1>1. ToC[level] \in 0 .. 5
    BY DEF OptLevels, ToC
  <1> QED BY <1>1 DEF MapOptLevel, Level, LLVMLevel

LEMMA EntryTypes ==
    /\ \A level \in LLVMLevel : Optimise(level) \in Entry /\ Optimise(level).pass = "optimise"
    /\ SizeAttr \in Entry /\ SizeAttr.pass # "optimise"
    /\ \A name \in {"p", "q"}, at \in EPs \cup {"caller"} :
        Named(name, at) \in Entry /\ Named(name, at).pass # "optimise"
  BY DEF Optimise, SizeAttr, Named, Entry

LEMMA DefaultType == Default \in Handle
  <1>1. NoTexts \in [EPs -> Seq(Text)]
    BY EmptySeq DEF NoTexts
  <1> QED BY <1>1 DEF Default, Handle

\* A manager that another is made of by writing its entries.
LEMMA EntriesWritten ==
    ASSUME NEW m \in PassManager, NEW e \in Seq(Entry), NEW m2,
           m2 = [m EXCEPT !.entries = e]
    PROVE  /\ m2 \in PassManager /\ m2.entries = e /\ m2.kind = m.kind
           /\ m2.level = m.level /\ m2.text = m.text
           /\ m2.reached = m.reached /\ m2.asked = m.asked
  BY DEF PassManager

LEMMA ManagerFields ==
    ASSUME NEW m \in PassManager
    PROVE  /\ m.reached \in Seq(EPs) /\ m.asked \in Handle /\ m.entries \in Seq(Entry)
           /\ m.asked.eps \in [EPs -> Seq(Text)]
           /\ m.level \in OptLevels \cup {None} /\ m.text \in Text \cup {None}
  BY DEF PassManager, Handle

\* One entry more.
LEMMA EntryAppended ==
    ASSUME NEW s \in Seq(Entry), NEW e \in Entry
    PROVE  /\ Append(s, e) \in Seq(Entry)
           /\ \A i \in DOMAIN Append(s, e) :
                 Append(s, e)[i] = e \/ \E j \in DOMAIN s : Append(s, e)[i] = s[j]
  <1>1. /\ Append(s, e) \in Seq(Entry) /\ Len(Append(s, e)) = Len(s) + 1
        /\ \A i \in 1 .. Len(s) : Append(s, e)[i] = s[i]
        /\ Append(s, e)[Len(s) + 1] = e
    BY AppendProperties
  <1>2. /\ Len(s) \in Nat /\ DOMAIN s = 1 .. Len(s)
        /\ DOMAIN Append(s, e) = 1 .. Len(s) + 1
    BY <1>1, LenProperties
  <1>3. \A i \in 1 .. Len(s) + 1 : i \in 1 .. Len(s) \/ i = Len(s) + 1
    BY <1>2
  <1> QED BY <1>1, <1>2, <1>3

\* From LLVM 23 on Os and Oz put one entry in front of the others.
LEMMA SizeAttrsInFront ==
    ASSUME NEW s \in Seq(Entry), NEW level
    PROVE  /\ WithSizeAttrs(s, level) \in Seq(Entry)
           /\ \A i \in DOMAIN WithSizeAttrs(s, level) :
                 \/ WithSizeAttrs(s, level)[i] = SizeAttr
                 \/ \E j \in DOMAIN s : WithSizeAttrs(s, level)[i] = s[j]
           /\ version >= 23 /\ level \in {"Os", "Oz"} =>
                 WithSizeAttrs(s, level) # <<>> /\ WithSizeAttrs(s, level)[1] = SizeAttr
  <1> DEFINE one == <<SizeAttr>>
             w == one \o s
  <1>1. /\ one \in Seq(Entry) /\ Len(one) = 1 /\ one[1] = SizeAttr
        /\ Len(s) \in Nat /\ DOMAIN s = 1 .. Len(s)
    BY EntryTypes, LenProperties
  <1>2. /\ w \in Seq(Entry) /\ Len(w) = 1 + Len(s)
        /\ \A i \in 1 .. 1 + Len(s) : w[i] = IF i <= 1 THEN one[i] ELSE s[i - 1]
    BY <1>1, ConcatProperties
  <1>3. DOMAIN w = 1 .. 1 + Len(s)
    BY <1>2, LenProperties
  <1> HIDE DEF one, w
  <1>4. w[1] = SizeAttr /\ w # <<>>
    BY <1>1, <1>2, EmptySeq
  <1>5. \A i \in 1 .. 1 + Len(s) : w[i] = SizeAttr \/ \E j \in DOMAIN s : w[i] = s[j]
    <2> SUFFICES ASSUME NEW i \in 1 .. 1 + Len(s), i # 1 PROVE \E j \in DOMAIN s : w[i] = s[j]
      BY <1>4
    <2>1. i - 1 \in DOMAIN s /\ w[i] = s[i - 1]
      BY <1>1, <1>2
    <2> QED BY <2>1
  <1>6. WithSizeAttrs(s, level) = IF version >= 23 /\ level \in {"Os", "Oz"} THEN w ELSE s
    BY DEF WithSizeAttrs, w, one
  <1>7. CASE version >= 23 /\ level \in {"Os", "Oz"}
    BY <1>2, <1>3, <1>4, <1>5, <1>6, <1>7
  <1>8. CASE ~ (version >= 23 /\ level \in {"Os", "Oz"})
    BY <1>6, <1>8
  <1> QED BY <1>7, <1>8

-----------------------------------------------------------------------------
(***************************************************************************)
(* The invariant, action by action.                                        *)
(***************************************************************************)
LEMMA NoCalls ==
    ASSUME todo = <<>>
    PROVE  CallsOK /\ OriginOK /\ PendingOK
  <1>1. todo \in Seq(Frame) /\ Len(todo) = 0 /\ DOMAIN todo = {}
    BY EmptySeq
  <1> QED BY <1>1 DEF CallsOK, OriginOK, PendingOK

LEMMA NoCallsNext ==
    ASSUME todo' = <<>>
    PROVE  CallsOK' /\ OriginOK' /\ PendingOK'
  <1>1. todo' \in Seq(Frame) /\ Len(todo') = 0 /\ DOMAIN todo' = {}
    BY EmptySeq
  <1> QED BY <1>1 DEF CallsOK, OriginOK, PendingOK

LEMMA InitOptions == Init => TypeOK /\ OptionsInv
  <1> SUFFICES ASSUME Init PROVE TypeOK /\ OptionsInv
    OBVIOUS
  <1>1. TypeOK
    BY DEF Init, TypeOK, FunctionAttrs
  <1>2. LoopOK /\ LevelOK /\ SizeOK
    BY DEF Init, LoopOK, LevelOK, SizeOK, ForSize
  <1>3. CallsOK /\ OriginOK /\ PendingOK
    BY NoCalls DEF Init
  <1> QED BY <1>1, <1>2, <1>3 DEF OptionsInv

\* While nothing is being built, no call is in progress.
LEMMA IdleFacts ==
    ASSUME TypeOK, CallsOK
    PROVE  /\ phase \notin {"building", "crashed"} => todo = <<>>
           /\ phase = "idle" => pm = None
           /\ phase # "idle" => pm # None /\ pm \in PassManager
  BY DEF TypeOK, CallsOK

LEMMA EditInv ==
    ASSUME TypeOK, OptionsInv, NEW o \in Handle \cup {None}, EditOptions(o)
    PROVE  TypeOK' /\ OptionsInv'
  <1>1. todo' = <<>> /\ phase' = "idle" /\ pm' = None
    BY IdleFacts DEF EditOptions, OptionsInv
  <1>2. TypeOK'
    BY <1>1 DEF TypeOK, EditOptions
  <1>3. LoopOK' /\ LevelOK' /\ SizeOK'
    BY <1>1 DEF LoopOK, LevelOK, SizeOK, ForSize
  <1> QED BY <1>1, <1>2, <1>3, NoCallsNext DEF OptionsInv

LEMMA OptionsActions ==
    ASSUME TypeOK, OptionsInv,
           \/ New
           \/ DropOptions
           \/ \E flag \in Flags, val \in BOOLEAN : SetFlag(flag, val)
           \/ \E ep \in UsedEPs, text \in UsedTexts : AddEP(ep, text)
    PROVE  TypeOK' /\ OptionsInv'
  <1>1. CASE New
    BY <1>1, DefaultType, EditInv DEF New
  <1>2. CASE DropOptions
    BY <1>2, EditInv DEF DropOptions
  <1>3. ASSUME NEW flag \in Flags, NEW val \in BOOLEAN, SetFlag(flag, val)
        PROVE  TypeOK' /\ OptionsInv'
    <2>1. options \in Handle
      BY <1>3 DEF SetFlag, TypeOK
    <2>2. [options EXCEPT !.flags = IF val THEN @ \cup {flag} ELSE @ \ {flag}] \in Handle
      BY <2>1 DEF Handle
    <2> QED BY <1>3, <2>2, EditInv DEF SetFlag
  <1>4. ASSUME NEW ep \in UsedEPs, NEW text \in UsedTexts, AddEP(ep, text)
        PROVE  TypeOK' /\ OptionsInv'
    <2>1. options \in Handle /\ ep \in EPs /\ text \in Text
      BY <1>4, BoundAssumption DEF AddEP, TypeOK
    <2>2. options.eps \in [EPs -> Seq(Text)] /\ options.flags \in SUBSET Flags
      BY <2>1 DEF Handle
    <2>3. Append(options.eps[ep], text) \in Seq(Text)
      BY <2>1, <2>2, AppendProperties
    <2>4. [options EXCEPT !.eps[ep] = Append(@, text)] \in Handle
      BY <2>1, <2>2, <2>3 DEF Handle
    <2> QED BY <1>4, <2>4, EditInv DEF AddEP
  <1> QED BY <1>1, <1>2, <1>3, <1>4

\* A building that begins, with one call or none.
LEMMA CreateInv ==
    ASSUME TypeOK, OptionsInv, NEW kind \in UsedKinds, NEW level \in UsedLevels,
           NEW reached \in UsedRoutes, Create(kind, level, reached)
    PROVE  TypeOK' /\ OptionsInv'
  <1>1. /\ kind \in Kinds /\ level \in OptLevels /\ reached \in Seq(EPs)
        /\ level # None
    BY BoundAssumption, RouteAssumption, NoneAssumption
  <1>2. PICK lvl : lvl = MapOptLevel(ToC[level])
    OBVIOUS
  <1>3. PICK empty \in BOOLEAN : empty = (kind = "default" /\ lvl.speed = 0 /\ version < 12)
    OBVIOUS
  <1>4. PICK entries : entries = IF empty THEN <<>> ELSE <<Optimise(lvl)>>
    OBVIOUS
  <1>5. /\ phase = "idle" /\ phase' = "building"
        /\ pm' = [kind |-> kind, level |-> level, text |-> None, reached |-> reached,
                  asked |-> Deref(options), entries |-> entries]
        /\ todo' = IF empty THEN <<>> ELSE <<Pipeline(reached)>>
        /\ UNCHANGED <<version, options, pos, attrs>>
    BY <1>2, <1>3, <1>4 DEF Create
  <1>6. Optimise(lvl) \in Entry /\ Optimise(lvl).level = lvl
    BY <1>1, <1>2, LevelType, EntryTypes DEF Optimise
  <1>7. entries \in Seq(Entry) /\ (empty => DOMAIN entries = {})
    BY <1>4, <1>6, EmptySeq
  <1>8. \A i \in DOMAIN entries : entries[i] = Optimise(lvl)
    BY <1>4
  <1>9. Deref(options) \in Handle
    BY DefaultType DEF TypeOK, Deref
  <1>10. pm' \in PassManager /\ pm' # None
    <2>1. pm' \in PassManager
      BY <1>1, <1>5, <1>7, <1>9 DEF PassManager
    <2> QED BY <2>1, NoneAssumption
  <1>11. /\ pm'.text = None /\ pm'.reached = reached /\ pm'.level = level
         /\ pm'.entries = entries
    BY <1>5
  <1>12. TypeOK'
    BY <1>5, <1>10 DEF TypeOK
  <1>13. LevelOK' /\ SizeOK'
    <2>1. MapOptLevel(ToC[level])' = lvl
      BY <1>2, <1>5 DEF MapOptLevel, Level
    <2>2. LevelOK'
      BY <1>1, <1>2, <1>5, <1>6, <1>8, <1>11 DEF LevelOK, MapOptLevel, Level
    <2> QED BY <1>5, <2>2 DEF SizeOK, ForSize
  <1>14. CASE empty
    <2>1. LoopOK'
      BY <1>5, <1>7, <1>11, <1>14 DEF LoopOK, Optimises
    <2> QED BY <1>5, <1>12, <1>13, <1>14, <2>1, NoCallsNext DEF OptionsInv
  <1>15. CASE ~ empty
    <2> DEFINE c == Pipeline(reached)
    <2>1. /\ todo' = <<c>> /\ Len(todo') = 1 /\ DOMAIN todo' = {1} /\ todo'[1] = c
      BY <1>5, <1>15
    <2>2. c.in = "pipeline" /\ c.rest = reached /\ c \in Frame
      BY <1>1 DEF Pipeline, Frame
    <2> HIDE DEF c
    <2>3. CallsOK'
      <3>1. todo' \in Seq(Frame)
        BY <2>1, <2>2
      <3>2. RestOK(c)
        BY <1>1, <2>2 DEF RestOK
      <3> QED BY <1>5, <1>11, <2>1, <2>2, <3>1, <3>2 DEF CallsOK, RestOK
    <2>4. OriginOK'
      BY <1>11, <2>1, <2>2 DEF OriginOK, OriginAt
    <2>5. PendingOK'
      <3> SUFFICES ASSUME IncludesItself' PROVE Ahead(1)'
        BY <2>1 DEF PendingOK
      <3>1. PICK ep : Loops(ep)'
        BY DEF IncludesItself, Loops
      <3>2. ep \in Range(reached)
        BY <1>11, <3>1 DEF Loops, InForce
      <3> QED BY <2>1, <2>2, <3>1, <3>2 DEF Ahead
    <2>6. LoopOK'
      BY <1>5, <2>1, <2>2 DEF LoopOK
    <2> QED BY <1>12, <1>13, <2>3, <2>4, <2>5, <2>6 DEF OptionsInv
  <1> QED BY <1>14, <1>15

LEMMA CreateFromTextInv ==
    ASSUME TypeOK, OptionsInv, NEW kind \in {"text", "function"}, NEW text \in UsedTexts,
           NEW reached \in UsedRoutes, CreateFromText(kind, text, reached)
    PROVE  TypeOK' /\ OptionsInv'
  <1>1. /\ text \in Text /\ reached \in Seq(EPs) /\ text # None
    BY BoundAssumption, RouteAssumption, NoneAssumption
  <1>2. PICK elems : elems = Accepted(text, kind = "text")
    OBVIOUS
  <1>3. elems \in Seq(Elems)
    <2>1. (kind = "text") \in BOOLEAN
      OBVIOUS
    <2> QED BY <1>1, <1>2, <2>1, AcceptedElems
  <1>4. /\ phase = "idle" /\ phase' = "building"
        /\ pm' = [kind |-> kind, level |-> None, text |-> text, reached |-> reached,
                  asked |-> Deref(options), entries |-> <<>>]
        /\ todo' = <<InText("caller", elems)>>
        /\ UNCHANGED <<version, options, pos, attrs>>
    BY <1>2 DEF CreateFromText
  <1>5. Deref(options) \in Handle
    BY DefaultType DEF TypeOK, Deref
  <1>6. pm' \in PassManager /\ pm' # None
    <2>1. <<>> \in Seq(Entry)
      BY EmptySeq
    <2>2. pm' \in PassManager
      BY <1>1, <1>4, <1>5, <2>1 DEF PassManager
    <2> QED BY <2>2, NoneAssumption
  <1>7. pm'.text = text /\ pm'.level = None /\ pm'.entries = <<>>
    BY <1>4
  <1>8. TypeOK'
    BY <1>4, <1>6 DEF TypeOK
  <1>9. LevelOK' /\ SizeOK' /\ LoopOK'
    <2>1. DOMAIN pm'.entries = {}
      BY <1>7
    <2> QED BY <1>1, <1>4, <1>7, <2>1 DEF LevelOK, SizeOK, ForSize, LoopOK, Optimises
  <1> DEFINE c == InText("caller", elems)
  <1>10. todo' = <<c>> /\ Len(todo') = 1 /\ DOMAIN todo' = {1} /\ todo'[1] = c
    BY <1>4
  <1>11. c.in = "text" /\ c.at = "caller" /\ c.rest = elems /\ c \in Frame
    BY <1>3 DEF InText, Frame
  <1> HIDE DEF c
  <1>12. CallsOK'
    <2>1. todo' \in Seq(Frame)
      BY <1>10, <1>11
    <2>2. RestOK(c)
      BY <1>3, <1>11 DEF RestOK
    <2> QED BY <1>1, <1>4, <1>7, <1>10, <1>11, <2>1, <2>2 DEF CallsOK, RestOK
  <1>13. OriginOK' /\ PendingOK'
    BY <1>10, <1>11 DEF OriginOK, OriginAt, PendingOK
  <1> QED BY <1>8, <1>9, <1>12, <1>13 DEF OptionsInv

\* Where four calls are in progress, the manager includes itself, unless the
\* innermost is a text at the point of a pipeline in the text of a caller.
LEMMA DeepCalls ==
    ASSUME CallsOK, OriginOK, todo # <<>>, Len(todo) >= 4
    PROVE  IncludesItself \/ (Call.in = "text" /\ Call.at # "caller")
  <1>n. PICK n : n = Len(todo)
    OBVIOUS
  <1>0. n \in Nat /\ n >= 4 /\ DOMAIN todo = 1 .. n /\ Call = todo[n]
    BY <1>n, Innermost
  <1>1. /\ todo[2].in = Inner(todo[1].in) /\ todo[3].in = Inner(todo[2].in)
        /\ todo[4].in = Inner(todo[3].in) /\ (n > 4 => todo[5].in = Inner(todo[4].in))
    <2>1. \A i \in 1 .. n - 1 : todo[i + 1].in = Inner(todo[i].in)
      BY <1>n DEF CallsOK
    <2>2. todo[1 + 1].in = Inner(todo[1].in) /\ todo[2 + 1].in = Inner(todo[2].in)
          /\ todo[3 + 1].in = Inner(todo[3].in) /\ (n > 4 => todo[4 + 1].in = Inner(todo[4].in))
      BY <1>0, <2>1
    <2>3. 1 + 1 = 2 /\ 2 + 1 = 3 /\ 3 + 1 = 4 /\ 4 + 1 = 5
      OBVIOUS
    <2> QED BY <2>2, <2>3
  <1>2. \A i \in 1 .. n : i >= 3 /\ todo[i].in = "pipeline" => IncludesItself
    BY <1>0 DEF OriginOK, OriginAt
  <1>3. CASE todo[1].in = "pipeline"
    <2>1. todo[4].in = "pipeline" /\ 4 \in 1 .. n
      BY <1>0, <1>1, <1>3 DEF Inner
    <2> QED BY <1>2, <2>1
  <1>4. CASE todo[1].in = "text"
    <2>1. todo[4].in = "text" /\ (n > 4 => todo[5].in = "pipeline")
      BY <1>0, <1>1, <1>4 DEF Inner
    <2>2. CASE n > 4
      BY <1>0, <1>2, <2>1, <2>2
    <2>3. CASE n = 4
      <3>1. todo[4].at = "caller" <=> 4 = 1
        BY <1>0, <2>1 DEF CallsOK
      <3> QED BY <1>0, <2>1, <2>3, <3>1
    <2> QED BY <1>0, <2>2, <2>3
  <1> QED BY <1>3, <1>4 DEF CallsOK

\* A call exhausts the stack only where the manager includes itself.
LEMMA EnterFacts ==
    ASSUME CallsOK, OriginOK, phase = "building", todo # <<>>, Call.rest # <<>>,
           NEW inner, Enter(inner)
    PROVE  \/ phase' = "building" /\ todo' = Append(Step, inner)
           \/ /\ phase' = "crashed" /\ todo' = todo
              /\ IncludesItself \/ (Call.in = "text" /\ Call.at # "caller")
  <1>1. CASE Len(todo) < MaxNesting
    BY <1>1 DEF Enter
  <1>2. CASE ~ (Len(todo) < MaxNesting)
    <2>1. Len(todo) >= 4
      BY <1>2, NestingAssumption, Innermost
    <2> QED BY <1>2, <2>1, DeepCalls DEF Enter
  <1> QED BY <1>1, <1>2

\* What did not change in the calls holds of them still.
LEMMA SameCalls ==
    ASSUME CallsOK, OriginOK, PendingOK, SameManager, todo' = todo,
           phase' \in {"building", "crashed"}
    PROVE  CallsOK' /\ OriginOK' /\ PendingOK'
  <1>1. /\ IncludesItself' = IncludesItself
        /\ pm'.reached = pm.reached /\ pm'.asked = pm.asked /\ version' = version
        /\ pm'.text = pm.text
    BY SameLoops DEF SameManager
  <1>2. \A ep : Loops(ep)' = Loops(ep)
    BY SameLoops
  <1>3. CallsOK'
    BY <1>1 DEF CallsOK, RestOK
  <1>4. OriginOK'
    <2>1. ASSUME NEW i \in DOMAIN todo PROVE OriginAt(i)'
      <3>1. OriginAt(i)
        BY DEF OriginOK
      <3> QED BY <1>1, <3>1 DEF OriginAt, InForce
    <2> QED BY <2>1 DEF OriginOK
  <1>5. PendingOK'
    <2> SUFFICES ASSUME IncludesItself, todo # <<>>, NEW k \in DOMAIN todo,
                        todo[k].in = "pipeline"
                 PROVE  Ahead(k)'
      BY <1>1 DEF PendingOK
    <2>1. Ahead(k)
      BY DEF PendingOK
    <2> QED BY <1>2, <2>1 DEF Ahead, Accepted
  <1> QED BY <1>3, <1>4, <1>5

\* LLVM at a point: the callbacks registered there are of the options' texts.
LEMMA ReachPointInv == TypeOK /\ OptionsInv /\ ReachPoint => TypeOK' /\ OptionsInv'
  <1> SUFFICES ASSUME TypeOK, OptionsInv, ReachPoint PROVE TypeOK' /\ OptionsInv'
    OBVIOUS
  <1>1. /\ CallsOK /\ OriginOK /\ PendingOK /\ LoopOK /\ LevelOK /\ SizeOK
        /\ phase = "building" /\ todo # <<>> /\ Call.in = "pipeline" /\ Call.rest # <<>>
        /\ UNCHANGED <<version, options, pm, pos, attrs>>
    BY DEF OptionsInv, ReachPoint
  <1>2. pm # None /\ pm \in PassManager
    BY <1>1, IdleFacts
  <1>3. PICK ep : ep = Head(Call.rest)
    OBVIOUS
  <1>4. PICK texts : texts = Callbacks(pm.asked.eps, ep)
    OBVIOUS
  <1>5. PICK inner : inner = AtPoint(ep, texts)
    OBVIOUS
  <1>6. Enter(inner)
    BY <1>3, <1>4, <1>5 DEF ReachPoint
  <1>7. Call \in Frame /\ RestOK(Call) /\ Call = todo[Len(todo)] /\ Len(todo) \in DOMAIN todo
    BY <1>1, Innermost
  <1>8. ep \in EPs /\ ep \in Range(Call.rest)
    BY <1>1, <1>3, <1>7, RestOfCall
  <1>9. texts \in Seq(Text)
    BY <1>2, <1>4, <1>8, ManagerFields, EmptySeq DEF Callbacks
  <1>10. inner.in = "callbacks" /\ inner.at = ep /\ inner.rest = texts /\ inner \in Frame
    BY <1>5, <1>8, <1>9 DEF AtPoint, Frame
  <1>11. RestOK(inner) /\ inner.in = Inner(Call.in)
    BY <1>1, <1>8, <1>9, <1>10 DEF RestOK, Inner
  <1>12. SameManager
    BY <1>1 DEF SameManager
  <1>13. ep \in Range(pm.reached)
    <2>1. OriginAt(Len(todo))
      BY <1>1, <1>7 DEF OriginOK
    <2> QED BY <1>1, <1>7, <1>8, <2>1 DEF OriginAt
  <1>14. texts # <<>> => InForce(ep) /\ Range(texts) \subseteq Range(pm.asked.eps[ep])
    BY <1>4, <1>13 DEF Callbacks, InForce
  <1>15. Loops(ep) => /\ ep \in ModuleEPs
                      /\ \E text \in Range(texts) : "default" \in Range(Accepted(text, TRUE))
    BY <1>4 DEF Loops, InForce, Callbacks, Range
  <1>16. \/ phase' = "building" /\ todo' = Append(Step, inner)
         \/ phase' = "crashed" /\ todo' = todo /\ IncludesItself
    BY <1>1, <1>6, EnterFacts
  <1>17. CallsOK' /\ OriginOK' /\ PendingOK'
    <2>1. CASE phase' = "building" /\ todo' = Append(Step, inner)
      BY <1>1, <1>3, <1>10, <1>11, <1>12, <1>14, <1>15, <2>1, PushInv
    <2>2. CASE phase' = "crashed" /\ todo' = todo
      BY <1>1, <1>12, <2>2, SameCalls
    <2> QED BY <1>16, <2>1, <2>2
  <1>18. TypeOK'
    BY <1>1, <1>2, <1>16 DEF TypeOK
  <1>19. LevelOK' /\ SizeOK' /\ LoopOK'
    <2>1. IncludesItself' = IncludesItself /\ Optimises' = Optimises
      BY <1>1, <1>12, SameLoops DEF Optimises
    <2>2. LevelOK'
      BY <1>1, <2>1 DEF LevelOK, MapOptLevel, Level
    <2>3. SizeOK'
      BY <1>1, <1>16 DEF SizeOK, ForSize
    <2>4. CASE phase' = "building" /\ todo' = Append(Step, inner)
      <3>1. Len(todo) \in DOMAIN todo' /\ todo'[Len(todo)].in = "pipeline"
        BY <1>1, <1>10, <2>4, PushFacts, StepFacts, Innermost, LenProperties
      <3> QED BY <2>2, <2>3, <2>4, <3>1 DEF LoopOK
    <2>5. CASE phase' = "crashed" /\ todo' = todo /\ IncludesItself
      BY <2>1, <2>2, <2>3, <2>5 DEF LoopOK
    <2> QED BY <1>16, <2>4, <2>5
  <1> QED BY <1>17, <1>18, <1>19 DEF OptionsInv

\* A callback: what its text adds is what the options have there.
LEMMA CallBackInv == TypeOK /\ OptionsInv /\ CallBack => TypeOK' /\ OptionsInv'
  <1> SUFFICES ASSUME TypeOK, OptionsInv, CallBack PROVE TypeOK' /\ OptionsInv'
    OBVIOUS
  <1>1. /\ CallsOK /\ OriginOK /\ PendingOK /\ LoopOK /\ LevelOK /\ SizeOK
        /\ phase = "building" /\ todo # <<>> /\ Call.in = "callbacks" /\ Call.rest # <<>>
        /\ UNCHANGED <<version, options, pm, pos, attrs>>
    BY DEF OptionsInv, CallBack
  <1>2. pm # None /\ pm \in PassManager
    BY <1>1, IdleFacts
  <1>3. PICK text : text = Head(Call.rest)
    OBVIOUS
  <1>4. PICK elems : elems = Accepted(text, Call.at \in ModuleEPs)
    OBVIOUS
  <1>5. PICK inner : inner = InText(Call.at, elems)
    OBVIOUS
  <1>6. Enter(inner)
    BY <1>3, <1>4, <1>5 DEF CallBack
  <1>7. Call \in Frame /\ RestOK(Call) /\ Call = todo[Len(todo)] /\ Len(todo) \in DOMAIN todo
    BY <1>1, Innermost
  <1>8. text \in Text /\ text \in Range(Call.rest) /\ Call.at \in EPs
    BY <1>1, <1>3, <1>7, RestOfCall DEF RestOK
  <1>9. elems \in Seq(Elems) /\ ("default" \in Range(elems) => Call.at \in ModuleEPs)
    <2>1. (Call.at \in ModuleEPs) \in BOOLEAN
      OBVIOUS
    <2> QED BY <1>4, <1>8, <2>1, AcceptedElems
  <1>10. inner.in = "text" /\ inner.at = Call.at /\ inner.rest = elems /\ inner \in Frame
    BY <1>5, <1>8, <1>9 DEF InText, Frame
  <1>11. RestOK(inner) /\ inner.in = Inner(Call.in) /\ inner.at # "caller"
    BY <1>1, <1>8, <1>9, <1>10, EPFacts DEF RestOK, Inner
  <1>12. SameManager
    BY <1>1 DEF SameManager
  <1>13. InForce(Call.at) /\ text \in Range(pm.asked.eps[Call.at])
    <2>1. OriginAt(Len(todo))
      BY <1>1, <1>7 DEF OriginOK
    <2> QED BY <1>1, <1>7, <1>8, <2>1 DEF OriginAt
  <1>14. "default" \in Range(elems) => IncludesItself
    <2> SUFFICES ASSUME "default" \in Range(elems) PROVE IncludesItself
      OBVIOUS
    <2>1. Call.at \in ModuleEPs /\ elems = Accepted(text, TRUE)
      BY <1>4, <1>9
    <2>2. PICK i \in DOMAIN pm.asked.eps[Call.at] : pm.asked.eps[Call.at][i] = text
      BY <1>13 DEF Range
    <2> QED BY <1>13, <2>1, <2>2 DEF IncludesItself
  <1>15. Call.at \in ModuleEPs /\ "default" \in Range(Accepted(text, TRUE)) =>
            "default" \in Range(elems)
    BY <1>4
  <1>16. \/ phase' = "building" /\ todo' = Append(Step, inner)
         \/ phase' = "crashed" /\ todo' = todo /\ IncludesItself
    BY <1>1, <1>6, EnterFacts
  <1>17. CallsOK' /\ OriginOK' /\ PendingOK'
    <2>1. CASE phase' = "building" /\ todo' = Append(Step, inner)
      BY <1>1, <1>3, <1>10, <1>11, <1>12, <1>14, <1>15, <2>1, PushInv
    <2>2. CASE phase' = "crashed" /\ todo' = todo
      BY <1>1, <1>12, <2>2, SameCalls
    <2> QED BY <1>16, <2>1, <2>2
  <1>18. TypeOK'
    BY <1>1, <1>2, <1>16 DEF TypeOK
  <1>19. LevelOK' /\ SizeOK' /\ LoopOK'
    <2>1. IncludesItself' = IncludesItself /\ Optimises' = Optimises
      BY <1>1, <1>12, SameLoops DEF Optimises
    <2>2. LevelOK'
      BY <1>1, <2>1 DEF LevelOK, MapOptLevel, Level
    <2>3. SizeOK'
      BY <1>1, <1>16 DEF SizeOK, ForSize
    <2>4. CASE phase' = "building" /\ todo' = Append(Step, inner)
      <3>1. ASSUME NEW k \in DOMAIN todo, todo[k].in = "pipeline"
            PROVE  k \in DOMAIN todo' /\ todo'[k].in = "pipeline"
        <4>n. PICK n : n = Len(todo)
          OBVIOUS
        <4>1. n \in Nat \ {0} /\ k \in 1 .. n /\ k # n
          BY <1>1, <1>7, <3>1, <4>n, Innermost
        <4>2. DOMAIN todo' = 1 .. n + 1 /\ \A i \in 1 .. n - 1 : todo'[i] = todo[i]
          BY <1>1, <1>10, <2>4, <4>n, PushFacts, LenProperties
        <4> QED BY <3>1, <4>1, <4>2
      <3> QED BY <1>1, <2>1, <2>2, <2>3, <2>4, <3>1 DEF LoopOK
    <2>5. CASE phase' = "crashed" /\ todo' = todo /\ IncludesItself
      BY <2>1, <2>2, <2>3, <2>5 DEF LoopOK
    <2> QED BY <1>16, <2>4, <2>5
  <1> QED BY <1>17, <1>18, <1>19 DEF OptionsInv

\* One more entry: of a level only where the manager includes itself or was
\* made from a text.
LEMMA EntriesInv ==
    ASSUME LevelOK, pm # None, pm \in PassManager, NEW e \in Entry,
           pm' = [pm EXCEPT !.entries = Append(@, e)], version' = version,
           e.pass = "optimise" => IncludesItself \/ pm.text # None
    PROVE  /\ pm' \in PassManager /\ pm' # None /\ pm'.level = pm.level
           /\ SameManager /\ LevelOK'
           /\ e.pass # "optimise" => (Optimises' => Optimises)
  <1>1. pm.entries \in Seq(Entry)
    BY ManagerFields
  <1>2. PICK s : s = Append(pm.entries, e)
    OBVIOUS
  <1>3. /\ s \in Seq(Entry)
        /\ \A i \in DOMAIN s : s[i] = e \/ \E j \in DOMAIN pm.entries : s[i] = pm.entries[j]
    BY <1>1, <1>2, EntryAppended
  <1>4. pm' = [pm EXCEPT !.entries = s]
    BY <1>2
  <1>5. /\ pm' \in PassManager /\ pm'.entries = s /\ pm'.level = pm.level /\ pm'.text = pm.text
        /\ pm'.reached = pm.reached /\ pm'.asked = pm.asked
    <2>1. PICK m : m = pm
      OBVIOUS
    <2>2. PICK m2 : m2 = pm'
      OBVIOUS
    <2>3. m \in PassManager /\ s \in Seq(Entry) /\ m2 = [m EXCEPT !.entries = s]
      BY <1>3, <1>4, <2>1, <2>2
    <2>4. /\ m2 \in PassManager /\ m2.entries = s /\ m2.level = m.level /\ m2.text = m.text
          /\ m2.reached = m.reached /\ m2.asked = m.asked
      BY <2>3, EntriesWritten
    <2> QED BY <2>1, <2>2, <2>4
  <1>6. SameManager
    BY <1>5 DEF SameManager
  <1>7. IncludesItself' = IncludesItself
    BY <1>6, SameLoops
  <1>8. LevelOK'
    <2>1. /\ pm.level = None <=> pm.text # None
          /\ pm.text = None => IncludesItself \/
              \A i \in DOMAIN pm.entries : pm.entries[i].pass = "optimise" =>
                  pm.entries[i].level = MapOptLevel(ToC[pm.level])
      BY DEF LevelOK
    <2>2. pm.text = None => IncludesItself \/
              \A i \in DOMAIN s : s[i].pass = "optimise" =>
                  s[i].level = MapOptLevel(ToC[pm.level])
      BY <1>3, <2>1
    <2> QED BY <1>5, <1>7, <2>1, <2>2 DEF LevelOK, MapOptLevel, Level
  <1>9. e.pass # "optimise" => (Optimises' => Optimises)
    BY <1>3, <1>5 DEF Optimises
  <1>10. pm' # None
    BY <1>5, NoneAssumption
  <1> QED BY <1>5, <1>6, <1>8, <1>9, <1>10

\* An element of a text is added: a pass, or a pipeline that may include itself.
LEMMA AddElementInv == TypeOK /\ OptionsInv /\ AddElement => TypeOK' /\ OptionsInv'
  <1> SUFFICES ASSUME TypeOK, OptionsInv, AddElement PROVE TypeOK' /\ OptionsInv'
    OBVIOUS
  <1>1. /\ CallsOK /\ OriginOK /\ PendingOK /\ LoopOK /\ LevelOK /\ SizeOK
        /\ phase = "building" /\ todo # <<>> /\ Call.in = "text" /\ Call.rest # <<>>
        /\ UNCHANGED <<version, options, pos, attrs>>
    BY DEF OptionsInv, AddElement
  <1>2. pm # None /\ pm \in PassManager
    BY <1>1, IdleFacts
  <1>n. PICK n : n = Len(todo)
    OBVIOUS
  <1>3. /\ n \in Nat \ {0} /\ DOMAIN todo = 1 .. n
        /\ Call \in Frame /\ RestOK(Call) /\ Call = todo[n]
    BY <1>1, <1>n, Innermost
  <1>4. Head(Call.rest) \in Elems /\ Head(Call.rest) \in Range(Call.rest)
    BY <1>1, <1>3, RestOfCall
  <1>5. Call.at \in EPs \cup {"caller"} /\ (Call.at = "caller" <=> n = 1)
    BY <1>1, <1>3 DEF CallsOK, RestOK
  <1>6. CASE Head(Call.rest) # "default"
    <2>1. PICK e : e = Named(Head(Call.rest), Call.at)
      OBVIOUS
    <2>2. e \in Entry /\ e.pass # "optimise"
      BY <1>4, <1>5, <1>6, <2>1, EntryTypes DEF Elems
    <2>3. pm' = [pm EXCEPT !.entries = Append(@, e)] /\ todo' = Step /\ phase' = "building"
      BY <1>1, <1>6, <2>1 DEF AddElement
    <2>4. /\ pm' \in PassManager /\ pm' # None /\ SameManager /\ LevelOK'
          /\ Optimises' => Optimises
      BY <1>1, <1>2, <2>2, <2>3, EntriesInv
    <2>5. CallsOK' /\ OriginOK' /\ PendingOK'
      BY <1>1, <1>6, <2>3, <2>4, GoOnInv
    <2>6. TypeOK'
      BY <1>1, <2>3, <2>4 DEF TypeOK
    <2>7. SizeOK'
      BY <1>1, <2>3 DEF SizeOK, ForSize
    <2>8. LoopOK'
      <3>1. ASSUME NEW k \in 1 .. n, todo[k].in = "pipeline"
            PROVE  k \in DOMAIN todo' /\ todo'[k].in = "pipeline"
        <4>1. k # n
          BY <1>1, <1>3, <3>1
        <4>2. DOMAIN todo' = 1 .. n /\ \A i \in 1 .. n - 1 : todo'[i] = todo[i]
          BY <1>1, <1>n, <2>3, StepFacts, LenProperties
        <4> QED BY <1>3, <3>1, <4>1, <4>2
      <3>2. IncludesItself' = IncludesItself
        BY <2>4, SameLoops
      <3> QED BY <1>1, <1>3, <2>3, <2>4, <3>1, <3>2 DEF LoopOK
    <2> QED BY <2>4, <2>5, <2>6, <2>7, <2>8 DEF OptionsInv
  <1>7. CASE Head(Call.rest) = "default"
    <2>1. PICK inner : inner = Pipeline(pm.reached)
      OBVIOUS
    <2>2. PICK e : e = Optimise(Level(2, 0))
      OBVIOUS
    <2>3. e \in Entry
      BY <2>2, EntryTypes DEF Level, LLVMLevel
    <2>4. pm' = [pm EXCEPT !.entries = Append(@, e)] /\ Enter(inner)
      BY <1>7, <2>1, <2>2 DEF AddElement
    <2>5. n >= 2 => IncludesItself
      <3>1. OriginAt(n)
        BY <1>1, <1>3 DEF OriginOK
      <3> QED BY <1>1, <1>3, <1>4, <1>5, <1>7, <3>1 DEF OriginAt
    <2>6. IncludesItself \/ pm.text # None
      <3>1. n = 1 => pm.text # None
        BY <1>1, <1>3 DEF CallsOK
      <3> QED BY <1>3, <2>5, <3>1
    <2>7. pm' \in PassManager /\ pm' # None /\ SameManager /\ LevelOK'
      BY <1>1, <1>2, <2>3, <2>4, <2>6, EntriesInv
    <2>8. /\ inner.in = "pipeline" /\ inner.rest = pm.reached /\ inner \in Frame
          /\ RestOK(inner) /\ inner.in = Inner(Call.in)
      BY <1>1, <1>2, <2>1, ManagerFields DEF Pipeline, Frame, RestOK, Inner
    <2>9. IncludesItself => \E ep \in Range(inner.rest) : Loops(ep)
      BY <2>8 DEF IncludesItself, Loops, InForce
    <2>10. \/ phase' = "building" /\ todo' = Append(Step, inner)
           \/ phase' = "crashed" /\ todo' = todo /\ IncludesItself
      <3>1. Call.at # "caller" => IncludesItself
        BY <1>3, <1>5, <2>5
      <3> QED BY <1>1, <2>4, <3>1, EnterFacts
    <2>11. CallsOK' /\ OriginOK' /\ PendingOK'
      <3>1. CASE phase' = "building" /\ todo' = Append(Step, inner)
        BY <1>1, <1>n, <2>5, <2>7, <2>8, <2>9, <3>1, PushInv
      <3>2. CASE phase' = "crashed" /\ todo' = todo
        BY <1>1, <2>7, <3>2, SameCalls
      <3> QED BY <2>10, <3>1, <3>2
    <2>12. TypeOK'
      BY <1>1, <2>7, <2>10 DEF TypeOK
    <2>13. SizeOK'
      BY <1>1, <2>10 DEF SizeOK, ForSize
    <2>14. LoopOK'
      <3>1. IncludesItself' = IncludesItself
        BY <2>7, SameLoops
      <3>2. CASE phase' = "building" /\ todo' = Append(Step, inner)
        <4>1. DOMAIN todo' = 1 .. n + 1 /\ todo'[n + 1] = inner
          BY <1>1, <1>n, <2>8, <3>2, PushFacts, LenProperties
        <4>2. n + 1 \in DOMAIN todo'
          BY <1>3, <4>1
        <4> QED BY <2>8, <3>2, <4>1, <4>2 DEF LoopOK
      <3>3. CASE phase' = "crashed" /\ todo' = todo /\ IncludesItself
        BY <3>1, <3>3 DEF LoopOK
      <3> QED BY <2>10, <3>2, <3>3
    <2> QED BY <2>7, <2>11, <2>12, <2>13, <2>14 DEF OptionsInv
  <1> QED BY <1>6, <1>7

LEMMA ReturnsInv == TypeOK /\ OptionsInv /\ Return => TypeOK' /\ OptionsInv'
  <1> SUFFICES ASSUME TypeOK, OptionsInv, Return PROVE TypeOK' /\ OptionsInv'
    OBVIOUS
  <1>1. /\ CallsOK /\ OriginOK /\ PendingOK /\ LoopOK /\ LevelOK /\ SizeOK
        /\ phase = "building" /\ phase' = "building"
        /\ todo # <<>> /\ Call.rest = <<>> /\ todo' = Front(todo)
        /\ UNCHANGED <<version, options, pm, pos, attrs>>
    BY DEF OptionsInv, Return
  <1>2. SameManager
    BY <1>1 DEF SameManager
  <1>3. /\ CallsOK' /\ OriginOK' /\ PendingOK'
        /\ IncludesItself /\ (\E k \in DOMAIN todo : todo[k].in = "pipeline") =>
              \E k \in DOMAIN todo' : todo'[k].in = "pipeline"
    BY <1>1, <1>2, ReturnInv
  <1>4. TypeOK'
    BY <1>1 DEF TypeOK
  <1>5. IncludesItself' = IncludesItself /\ Optimises' = Optimises
    BY <1>1, <1>2, SameLoops DEF Optimises
  <1>6. LoopOK'
    BY <1>1, <1>3, <1>5 DEF LoopOK
  <1>7. LevelOK' /\ SizeOK'
    BY <1>1, <1>5 DEF LevelOK, SizeOK, ForSize, MapOptLevel, Level
  <1> QED BY <1>3, <1>4, <1>6, <1>7 DEF OptionsInv

\* The constructor returns.
LEMMA FinishInv == TypeOK /\ OptionsInv /\ Finish => TypeOK' /\ OptionsInv'
  <1> SUFFICES ASSUME TypeOK, OptionsInv, Finish PROVE TypeOK' /\ OptionsInv'
    OBVIOUS
  <1>1. /\ CallsOK /\ LoopOK /\ LevelOK /\ SizeOK
        /\ phase = "building" /\ todo = <<>> /\ todo' = <<>>
        /\ UNCHANGED <<version, options, pos, attrs>>
    BY DEF OptionsInv, Finish
  <1>2. pm # None /\ pm \in PassManager
    BY <1>1, IdleFacts
  <1>3. CallsOK' /\ OriginOK' /\ PendingOK'
    BY <1>1, NoCallsNext
  <1>4. CASE phase' = "idle" /\ pm' = None
    <2>1. TypeOK'
      BY <1>1, <1>4 DEF TypeOK
    <2>2. LoopOK' /\ LevelOK' /\ SizeOK'
      BY <1>4 DEF LoopOK, LevelOK, SizeOK, ForSize
    <2> QED BY <1>3, <2>1, <2>2 DEF OptionsInv
  <1>5. CASE phase' = "ready" /\ pm' = [pm EXCEPT !.entries = WithSizeAttrs(@, pm.level)]
    <2>1. PICK s : s = WithSizeAttrs(pm.entries, pm.level)
      OBVIOUS
    <2>2. pm.entries \in Seq(Entry)
      BY <1>2, ManagerFields
    <2>3. /\ s \in Seq(Entry)
          /\ \A i \in DOMAIN s : s[i] = SizeAttr \/ \E j \in DOMAIN pm.entries : s[i] = pm.entries[j]
          /\ version >= 23 /\ pm.level \in {"Os", "Oz"} => s # <<>> /\ s[1] = SizeAttr
      BY <2>1, <2>2, SizeAttrsInFront
    <2>4. pm' = [pm EXCEPT !.entries = s]
      BY <1>5, <2>1
    <2>5. /\ pm' \in PassManager /\ pm'.entries = s /\ pm'.level = pm.level /\ pm'.text = pm.text
          /\ pm'.reached = pm.reached /\ pm'.asked = pm.asked
      BY <1>2, <2>3, <2>4, EntriesWritten
    <2>6. pm' # None
      BY <2>5, NoneAssumption
    <2>7. TypeOK'
      BY <1>1, <1>5, <2>5, <2>6 DEF TypeOK
    <2>8. IncludesItself' = IncludesItself
      BY <1>1, <2>5, SameLoops DEF SameManager
    <2>9. SizeAttr.pass # "optimise"
      BY EntryTypes
    <2>10. LoopOK'
      <3>1. Optimises' => Optimises
        BY <2>3, <2>5, <2>9 DEF Optimises
      <3>2. IncludesItself => ~ Optimises
        <4>1. ~ \E k \in DOMAIN todo : todo[k].in = "pipeline"
          BY <1>1
        <4> QED BY <1>1, <4>1 DEF LoopOK
      <3> QED BY <1>5, <2>8, <3>1, <3>2 DEF LoopOK
    <2>11. LevelOK'
      <3>1. /\ pm.level = None <=> pm.text # None
            /\ pm.text = None => IncludesItself \/
                  \A i \in DOMAIN pm.entries : pm.entries[i].pass = "optimise" =>
                      pm.entries[i].level = MapOptLevel(ToC[pm.level])
        BY <1>1, <1>2 DEF LevelOK
      <3>2. pm.text = None => IncludesItself \/
                  \A i \in DOMAIN s : s[i].pass = "optimise" =>
                      s[i].level = MapOptLevel(ToC[pm.level])
        BY <2>3, <2>9, <3>1
      <3>3. version' = version
        BY <1>1
      <3> QED BY <2>5, <2>8, <3>1, <3>2, <3>3 DEF LevelOK, MapOptLevel, Level
    <2>12. SizeOK'
      BY <1>1, <1>5, <2>3, <2>5 DEF SizeOK, ForSize
    <2> QED BY <1>3, <2>7, <2>10, <2>11, <2>12 DEF OptionsInv
  <1> QED BY <1>4, <1>5 DEF Finish

\* What the actions behind the building leave of the invariant.
LEMMA SameBuilding ==
    ASSUME TypeOK, OptionsInv, phase \in {"ready", "running"}, phase' \in {"ready", "running"},
           UNCHANGED <<version, options, pm, todo>>
    PROVE  CallsOK' /\ OriginOK' /\ PendingOK' /\ LoopOK' /\ LevelOK'
  <1>1. todo' = <<>>
    BY IdleFacts DEF OptionsInv
  <1>2. IncludesItself' = IncludesItself /\ Optimises' = Optimises
    BY SameLoops DEF SameManager, Optimises
  <1>3. LoopOK'
    BY <1>2 DEF OptionsInv, LoopOK
  <1>4. LevelOK'
    BY <1>2 DEF OptionsInv, LevelOK, MapOptLevel, Level
  <1> QED BY <1>1, <1>3, <1>4, NoCallsNext

LEMMA RunInv ==
    ASSUME TypeOK, OptionsInv, NEW given \in [Functions -> FunctionAttrs], Run(given)
    PROVE  TypeOK' /\ OptionsInv'
  <1>1. /\ phase = "ready" /\ phase' = "running" /\ pos' = 1 /\ attrs' = given
        /\ UNCHANGED <<version, options, pm, todo>>
    BY DEF Run
  <1>2. CallsOK' /\ OriginOK' /\ PendingOK' /\ LoopOK' /\ LevelOK'
    BY <1>1, SameBuilding
  <1>3. TypeOK'
    BY <1>1 DEF TypeOK
  <1>4. SizeOK'
    BY <1>1 DEF OptionsInv, SizeOK, ForSize
  <1> QED BY <1>2, <1>3, <1>4 DEF OptionsInv

\* The attribute pass makes of attributes LLVM accepts others it accepts, and
\* gives those for size to every function with a body that is not optnone.
LEMMA AttrsGiven ==
    ASSUME NEW f \in Functions, attrs[f] \in FunctionAttrs
    PROVE  /\ SizeAttrs(f) \in FunctionAttrs
           /\ "optnone" \in attrs[f] => "optnone" \in SizeAttrs(f)
           /\ f \notin Declarations /\ "optnone" \notin SizeAttrs(f) =>
                 "optsize" \in SizeAttrs(f) /\ (pm.level = "Oz" => "minsize" \in SizeAttrs(f))
  BY DEF SizeAttrs, FunctionAttrs

LEMMA RunEntryInv == TypeOK /\ OptionsInv /\ RunEntry => TypeOK' /\ OptionsInv'
  <1> SUFFICES ASSUME TypeOK, OptionsInv, RunEntry PROVE TypeOK' /\ OptionsInv'
    OBVIOUS
  <1>1. /\ phase = "running" /\ phase' = "running" /\ pos <= Len(pm.entries) /\ pos' = pos + 1
        /\ attrs' = IF pm.entries[pos] = SizeAttr THEN [f \in Functions |-> SizeAttrs(f)] ELSE attrs
        /\ UNCHANGED <<version, options, phase, pm, todo>>
    BY DEF RunEntry
  <1>2. CallsOK' /\ OriginOK' /\ PendingOK' /\ LoopOK' /\ LevelOK'
    BY <1>1, SameBuilding
  <1>3. pos \in Nat /\ pos >= 1 /\ attrs \in [Functions -> FunctionAttrs]
    BY <1>1 DEF TypeOK, OptionsInv, SizeOK
  <1>4. \A f \in Functions : SizeAttrs(f) \in FunctionAttrs
    BY <1>3, AttrsGiven
  <1>5. TypeOK'
    <2>1. attrs' \in [Functions -> FunctionAttrs]
      BY <1>1, <1>3, <1>4
    <2>2. pos' \in Nat
      BY <1>1, <1>3
    <2> QED BY <1>1, <2>1, <2>2 DEF TypeOK
  <1>6. SizeOK'
    <2>1. ForSize' = ForSize /\ pm'.entries = pm.entries /\ pm'.level = pm.level
      BY <1>1 DEF ForSize
    <2>2. ForSize => pm.entries # <<>> /\ pm.entries[1] = SizeAttr
      BY DEF OptionsInv, SizeOK
    <2>3. ASSUME ForSize, NEW f \in Functions \ Declarations, "optnone" \notin attrs'[f]
          PROVE  "optsize" \in attrs'[f] /\ (pm.level = "Oz" => "minsize" \in attrs'[f])
      <3>1. CASE pm.entries[pos] = SizeAttr
        <4>1. attrs'[f] = SizeAttrs(f)
          BY <1>1, <3>1
        <4> QED BY <1>3, <2>3, <4>1, AttrsGiven
      <3>2. CASE pm.entries[pos] # SizeAttr
        <4>1. pos > 1
          BY <1>3, <2>2, <2>3, <3>2
        <4>2. attrs' = attrs
          BY <1>1, <3>2
        <4> QED BY <1>1, <2>3, <4>1, <4>2 DEF OptionsInv, SizeOK
      <3> QED BY <3>1, <3>2
    <2>4. pos' >= 1
      BY <1>1, <1>3
    <2> QED BY <2>1, <2>2, <2>3, <2>4 DEF SizeOK
  <1> QED BY <1>2, <1>5, <1>6 DEF OptionsInv

LEMMA EndRunInv == TypeOK /\ OptionsInv /\ EndRun => TypeOK' /\ OptionsInv'
  <1> SUFFICES ASSUME TypeOK, OptionsInv, EndRun PROVE TypeOK' /\ OptionsInv'
    OBVIOUS
  <1>1. /\ phase = "running" /\ phase' = "ready" /\ pos' = 0
        /\ attrs' = [f \in Functions |-> {}]
        /\ UNCHANGED <<version, options, pm, todo>>
    BY DEF EndRun
  <1>2. CallsOK' /\ OriginOK' /\ PendingOK' /\ LoopOK' /\ LevelOK'
    BY <1>1, SameBuilding
  <1>3. TypeOK'
    <2>1. attrs' \in [Functions -> FunctionAttrs]
      BY <1>1 DEF FunctionAttrs
    <2> QED BY <1>1, <2>1 DEF TypeOK
  <1>4. SizeOK'
    BY <1>1 DEF OptionsInv, SizeOK, ForSize
  <1> QED BY <1>2, <1>3, <1>4 DEF OptionsInv

LEMMA DropInv == TypeOK /\ OptionsInv /\ Drop => TypeOK' /\ OptionsInv'
  <1> SUFFICES ASSUME TypeOK, OptionsInv, Drop PROVE TypeOK' /\ OptionsInv'
    OBVIOUS
  <1>1. todo' = <<>> /\ phase' = "idle" /\ pm' = None
    BY IdleFacts DEF Drop, OptionsInv
  <1>2. TypeOK'
    BY <1>1 DEF TypeOK, Drop
  <1>3. LoopOK' /\ LevelOK' /\ SizeOK'
    BY <1>1 DEF LoopOK, LevelOK, SizeOK, ForSize
  <1> QED BY <1>1, <1>2, <1>3, NoCallsNext DEF OptionsInv

LEMMA StepOptions == TypeOK /\ OptionsInv /\ [Next]_vars => TypeOK' /\ OptionsInv'
  <1> SUFFICES ASSUME TypeOK, OptionsInv, [Next]_vars PROVE TypeOK' /\ OptionsInv'
    OBVIOUS
  <1>1. CASE UNCHANGED vars
    <2>1. /\ UNCHANGED <<version, options, phase, pm, todo, pos, attrs>>
          /\ CallsOK /\ OriginOK /\ PendingOK /\ LoopOK /\ LevelOK /\ SizeOK
      BY <1>1 DEF vars, OptionsInv
    <2>2. SameManager
      BY <2>1 DEF SameManager
    <2>3. CallsOK' /\ OriginOK' /\ PendingOK'
      <3>1. CASE phase \in {"building", "crashed"}
        BY <2>1, <2>2, <3>1, SameCalls
      <3>2. CASE phase \notin {"building", "crashed"}
        BY <2>1, <3>2, IdleFacts, NoCallsNext
      <3> QED BY <3>1, <3>2
    <2>4. IncludesItself' = IncludesItself /\ Optimises' = Optimises
      BY <2>1, <2>2, SameLoops DEF Optimises
    <2>5. LoopOK' /\ LevelOK' /\ SizeOK'
      BY <2>1, <2>4 DEF LoopOK, LevelOK, SizeOK, ForSize, MapOptLevel, Level
    <2>6. TypeOK'
      BY <2>1 DEF TypeOK
    <2> QED BY <2>3, <2>5, <2>6 DEF OptionsInv
  <1>2. CASE \/ New
             \/ DropOptions
             \/ \E flag \in Flags, val \in BOOLEAN : SetFlag(flag, val)
             \/ \E ep \in UsedEPs, text \in UsedTexts : AddEP(ep, text)
    BY <1>2, OptionsActions
  <1>3. ASSUME NEW reached \in UsedRoutes, NEW kind \in UsedKinds, NEW level \in UsedLevels,
               Create(kind, level, reached)
        PROVE  TypeOK' /\ OptionsInv'
    BY <1>3, CreateInv
  <1>4. ASSUME NEW reached \in UsedRoutes, NEW kind \in {"text", "function"},
               NEW text \in UsedTexts, CreateFromText(kind, text, reached)
        PROVE  TypeOK' /\ OptionsInv'
    BY <1>4, CreateFromTextInv
  <1>5. CASE ReachPoint \/ CallBack \/ AddElement \/ Return \/ Finish
    BY <1>5, ReachPointInv, CallBackInv, AddElementInv, ReturnsInv, FinishInv
  <1>6. ASSUME NEW given \in [Functions -> FunctionAttrs], Run(given)
        PROVE  TypeOK' /\ OptionsInv'
    BY <1>6, RunInv
  <1>7. CASE RunEntry \/ EndRun \/ Drop
    BY <1>7, RunEntryInv, EndRunInv, DropInv
  <1> QED BY <1>1, <1>2, <1>3, <1>4, <1>5, <1>6, <1>7 DEF Next

LEMMA OptionsAlways == Spec => [](TypeOK /\ OptionsInv)
  BY InitOptions, StepOptions, PTL DEF Spec

-----------------------------------------------------------------------------
(***************************************************************************)
(* Sequences put together by FlattenSeq, which chooses a recursive         *)
(* function by its equation: what it is of one sequence more.              *)
(***************************************************************************)
\* g holds, at i, the first i of the sequences in s in a row.
InARow(g, s, n) == \A i \in 1 .. n : g[i] = IF i = 1 THEN s[i] ELSE g[i - 1] \o s[i]

\* There is one such g.
LEMMA RowsAgree ==
    ASSUME NEW s, NEW n \in Nat, NEW g, NEW h, InARow(g, s, n), InARow(h, s, n)
    PROVE  \A i \in 1 .. n : g[i] = h[i]
  <1> DEFINE T == {i \in 1 .. n : g[i] # h[i]}
  <1>1. ASSUME T # {} PROVE FALSE
    <2>1. T \subseteq Nat
      OBVIOUS
    <2>2. PICK k \in T : \A i \in Nat : i < k => i \notin T
      <3> HIDE DEF T
      <3> QED BY <1>1, <2>1, Least
    <2>3. CASE k = 1
      BY <2>2, <2>3 DEF InARow
    <2>4. CASE k # 1
      <3>1. k - 1 \in 1 .. n /\ k - 1 < k /\ k - 1 \notin T /\ k \in 1 .. n
        BY <2>2, <2>4
      <3>2. g[k - 1] = h[k - 1]
        BY <3>1
      <3>3. g[k] = g[k - 1] \o s[k] /\ h[k] = h[k - 1] \o s[k]
        BY <2>4, <3>1 DEF InARow
      <3>4. g[k] = h[k]
        BY <3>2, <3>3
      <3> QED BY <2>2, <3>4
    <2> QED BY <2>3, <2>4
  <1> QED BY <1>1

\* Its values, from one to the next.
LEMMA RowSteps ==
    ASSUME NEW s, NEW n \in Nat, NEW g, InARow(g, s, n)
    PROVE  \A k \in 1 .. n - 1 : g[k + 1] = g[k] \o s[k + 1]
  <1>1. SUFFICES ASSUME NEW k \in 1 .. n - 1 PROVE g[k + 1] = g[k] \o s[k + 1]
    OBVIOUS
  <1>2. PICK m \in 1 .. n : m = k + 1 /\ m # 1
    BY <1>1
  <1>3. g[m] = g[m - 1] \o s[m]
    BY <1>2 DEF InARow
  <1>4. m - 1 = k
    BY <1>2
  <1> QED BY <1>2, <1>3, <1>4, Zenon

\* There is one, up to any element of s.
LEMMA RowExists ==
    ASSUME NEW S, NEW s \in Seq(Seq(S)), NEW n \in 1 .. Len(s)
    PROVE  \E g \in [1 .. n -> Seq(S)] : InARow(g, s, n)
  <1> DEFINE Row(m) == \E g \in [1 .. m -> Seq(S)] : InARow(g, s, m)
             T == {m \in 1 .. Len(s) : ~ Row(m)}
  <1>0. Len(s) \in Nat /\ \A i \in 1 .. Len(s) : s[i] \in Seq(S)
    BY LenProperties, ElementOfSeq
  <1>1. ASSUME T # {} PROVE FALSE
    <2>1. T \subseteq Nat
      BY <1>0
    <2>2. PICK k \in T : \A i \in Nat : i < k => i \notin T
      <3> HIDE DEF T
      <3> QED BY <1>1, <2>1, Least
    <2>3. k \in 1 .. Len(s) /\ ~ Row(k)
      BY <2>2
    <2>4. CASE k = 1
      <3> DEFINE g == [i \in 1 .. 1 |-> s[1]]
      <3>1. g \in [1 .. 1 -> Seq(S)] /\ InARow(g, s, 1)
        BY <1>0, <2>3, <2>4 DEF InARow
      <3>2. Row(1)
        BY <3>1
      <3> QED BY <2>3, <2>4, <3>2
    <2>5. CASE k # 1
      <3>1. k - 1 \in 1 .. Len(s) /\ k - 1 \in Nat /\ k - 1 < k
        BY <1>0, <2>3, <2>5
      <3>2. Row(k - 1)
        BY <2>2, <3>1
      <3>3. PICK g \in [1 .. k - 1 -> Seq(S)] : InARow(g, s, k - 1)
        BY <3>2
      <3> DEFINE h == [i \in 1 .. k |-> IF i = k THEN g[k - 1] \o s[k] ELSE g[i]]
      <3>4. g[k - 1] \in Seq(S) /\ s[k] \in Seq(S)
        BY <1>0, <2>3, <2>5, <3>1
      <3>5. g[k - 1] \o s[k] \in Seq(S)
        BY <3>4, ConcatProperties
      <3>6. h \in [1 .. k -> Seq(S)]
        BY <3>1, <3>5
      <3>7. ASSUME NEW i \in 1 .. k PROVE h[i] = IF i = 1 THEN s[i] ELSE h[i - 1] \o s[i]
        <4>1. CASE i = k
          <5>1. i - 1 \in 1 .. k /\ i - 1 # k /\ i # 1
            BY <2>5, <3>1, <4>1
          <5>2. h[i - 1] = g[i - 1] /\ h[i] = g[k - 1] \o s[k]
            BY <4>1, <5>1
          <5> QED BY <4>1, <5>1, <5>2
        <4>2. CASE i # k
          <5>1. i \in 1 .. k - 1 /\ h[i] = g[i] /\ (i # 1 => h[i - 1] = g[i - 1])
            BY <1>0, <2>3, <4>2
          <5>2. g[i] = IF i = 1 THEN s[i] ELSE g[i - 1] \o s[i]
            BY <3>3, <5>1 DEF InARow
          <5> QED BY <5>1, <5>2
        <4> QED BY <4>1, <4>2
      <3>8. Row(k)
        <4> HIDE DEF h
        <4>1. InARow(h, s, k)
          BY <3>7 DEF InARow
        <4> QED BY <3>6, <4>1
      <3> QED BY <2>3, <3>8
    <2> QED BY <2>4, <2>5
  <1>2. n \notin T
    BY <1>1
  <1> QED BY <1>2

\* FlattenSeq chooses it, and takes its last value.
LEMMA FlattenRow ==
    ASSUME NEW S, NEW s \in Seq(Seq(S)), s # <<>>
    PROVE  \E g : /\ \A i \in 1 .. Len(s) : g[i] \in Seq(S)
                  /\ InARow(g, s, Len(s)) /\ FlattenSeq(s) = g[Len(s)]
  <1> DEFINE n == Len(s)
             Def(f) == [i \in 1 .. n |-> IF i = 1 THEN s[i] ELSE f[i - 1] \o s[i]]
             flatten == CHOOSE f : f = Def(f)
  <1>1. n \in Nat /\ n # 0 /\ n \in 1 .. n
    BY LenProperties, EmptySeq
  <1>2. PICK g \in [1 .. n -> Seq(S)] : InARow(g, s, n)
    BY <1>1, RowExists
  <1>3. g = Def(g)
    BY <1>2 DEF InARow
  <1>4. flatten = Def(flatten)
    BY <1>3
  <1>5. InARow(flatten, s, n)
    <2>1. SUFFICES ASSUME NEW i \in 1 .. n
                   PROVE  flatten[i] = IF i = 1 THEN s[i] ELSE flatten[i - 1] \o s[i]
      BY DEF InARow
    <2>2. flatten[i] = Def(flatten)[i]
      BY <1>4
    <2> HIDE DEF flatten
    <2> QED BY <2>2
  <1>6. flatten[n] = g[n]
    <2> HIDE DEF flatten
    <2> QED BY <1>1, <1>2, <1>5, RowsAgree
  <1>7. FlattenSeq(s) = flatten[n]
    BY <1>1 DEF FlattenSeq
  <1> QED BY <1>2, <1>6, <1>7

\* What FlattenSeq is of a sequence of sequences: empty, followed by one more, preceded by one.
LEMMA FlattenEmpty == FlattenSeq(<<>>) = <<>>
  BY DEF FlattenSeq

\* What FlattenSeq makes of sequences of a set is a sequence of that set.
LEMMA FlattenType ==
    ASSUME NEW S, NEW s \in Seq(Seq(S))
    PROVE  FlattenSeq(s) \in Seq(S)
  <1>1. CASE s = <<>>
    BY <1>1, FlattenEmpty, EmptySeq
  <1>2. CASE s # <<>>
    <2>1. PICK g : (\A i \in 1 .. Len(s) : g[i] \in Seq(S)) /\ FlattenSeq(s) = g[Len(s)]
      BY <1>2, FlattenRow
    <2>2. Len(s) \in 1 .. Len(s)
      BY <1>2, LenProperties, EmptySeq
    <2> QED BY <2>1, <2>2
  <1> QED BY <1>1, <1>2

\* One sequence more, behind the others.
LEMMA FlattenAppend ==
    ASSUME NEW S, NEW s \in Seq(Seq(S)), NEW t \in Seq(S)
    PROVE  FlattenSeq(Append(s, t)) = FlattenSeq(s) \o t
  <1>0. PICK a, n : a = Append(s, t) /\ n = Len(s)
    OBVIOUS
  <1>1. /\ a \in Seq(Seq(S)) /\ a # <<>> /\ Len(a) = n + 1 /\ n \in Nat
        /\ a[n + 1] = t /\ \A i \in 1 .. n : a[i] = s[i]
    BY <1>0, AppendProperties, LenProperties
  <1>2. PICK g : InARow(g, a, n + 1) /\ FlattenSeq(a) = g[n + 1]
    BY <1>1, FlattenRow
  <1>3. CASE s = <<>>
    <2>1. n = 0
      BY <1>0, <1>3, EmptySeq
    <2>2. g[1] = a[1]
      BY <1>2, <2>1 DEF InARow
    <2>3. <<>> \o t = t
      BY ConcatEmptySeq
    <2> QED BY <1>0, <1>1, <1>2, <1>3, <2>1, <2>2, <2>3, FlattenEmpty
  <1>4. CASE s # <<>>
    <2>1. n # 0
      BY <1>0, <1>4, EmptySeq
    <2>2. PICK h : (\A i \in 1 .. n : h[i] \in Seq(S)) /\ InARow(h, s, n) /\ FlattenSeq(s) = h[n]
      BY <1>0, <1>4, FlattenRow
    <2>3. InARow(g, s, n)
      <3>1. ASSUME NEW i \in 1 .. n PROVE i \in 1 .. n + 1 /\ a[i] = s[i]
        BY <1>1
      <3> QED BY <1>2, <3>1 DEF InARow
    <2>4. g[n] = h[n]
      <3>1. n \in 1 .. n
        BY <1>1, <2>1
      <3>2. \A i \in 1 .. n : g[i] = h[i]
        <4>1. n \in Nat /\ InARow(g, s, n) /\ InARow(h, s, n)
          BY <1>1, <2>2, <2>3
        <4> QED BY ONLY <4>1, RowsAgree
      <3> QED BY <3>1, <3>2
    <2>5. g[n + 1] = g[n] \o a[n + 1]
      <3>1. PICK m \in Nat : m = n + 1
        BY <1>1
      <3>2. \A k \in 1 .. m - 1 : g[k + 1] = g[k] \o a[k + 1]
        BY <1>2, <3>1, RowSteps
      <3>3. n \in 1 .. m - 1
        BY <1>1, <2>1, <3>1
      <3> QED BY <3>2, <3>3, Zenon
    <2> QED BY <1>0, <1>1, <1>2, <2>2, <2>4, <2>5
  <1> QED BY <1>3, <1>4

\* One sequence more, in front of the others.
LEMMA FlattenPrepend ==
    ASSUME NEW S, NEW s \in Seq(Seq(S)), NEW t \in Seq(S)
    PROVE  FlattenSeq(<<t>> \o s) = t \o FlattenSeq(s)
  <1>0. PICK a, n, o : a = <<t>> \o s /\ n = Len(s) /\ o = <<t>>
    OBVIOUS
  <1>1. /\ a \in Seq(Seq(S)) /\ a # <<>> /\ Len(a) = n + 1 /\ n \in Nat
        /\ a[1] = t /\ \A i \in 1 .. n : a[i + 1] = s[i]
    <2>1. o \in Seq(Seq(S)) /\ Len(o) = 1 /\ o[1] = t
      BY <1>0
    <2>2. n \in Nat
      BY <1>0, LenProperties
    <2>3. a \in Seq(Seq(S)) /\ Len(a) = n + 1
      BY <1>0, <2>1, <2>2, ConcatProperties
    <2>4. \A i \in 1 .. n + 1 : a[i] = IF i <= 1 THEN o[i] ELSE s[i - 1]
      BY <1>0, <2>1, <2>2, ConcatProperties
    <2>5. a # <<>>
      BY <2>2, <2>3, EmptySeq
    <2>6. a[1] = t
      BY <2>1, <2>2, <2>4
    <2>7. ASSUME NEW i \in 1 .. n PROVE a[i + 1] = s[i]
      <3>1. i + 1 \in 1 .. n + 1 /\ ~ (i + 1 <= 1) /\ i + 1 - 1 = i
        BY <2>2
      <3> QED BY <2>4, <3>1
    <2> QED BY <2>2, <2>3, <2>5, <2>6, <2>7
  <1>2. PICK g : InARow(g, a, n + 1) /\ FlattenSeq(a) = g[n + 1]
    BY <1>1, FlattenRow
  <1>3. g[1] = t
    BY <1>1, <1>2 DEF InARow
  <1>4. CASE s = <<>>
    <2>1. n = 0 /\ t \o <<>> = t
      BY <1>0, <1>4, EmptySeq, ConcatEmptySeq
    <2> QED BY <1>0, <1>2, <1>3, <1>4, <2>1, FlattenEmpty
  <1>5. CASE s # <<>>
    <2>1. n # 0
      BY <1>0, <1>5, EmptySeq
    <2>2. PICK h : (\A i \in 1 .. n : h[i] \in Seq(S)) /\ InARow(h, s, n) /\ FlattenSeq(s) = h[n]
      BY <1>0, <1>5, FlattenRow
    <2>3. \A i \in 1 .. n : s[i] \in Seq(S)
      BY <1>0, ElementOfSeq
    <2> DEFINE T == {i \in 1 .. n : g[i + 1] # t \o h[i]}
    <2>4. ASSUME T # {} PROVE FALSE
      <3>1. T \subseteq Nat
        BY <1>1
      <3>2. PICK k \in T : \A i \in Nat : i < k => i \notin T
        <4> HIDE DEF T
        <4> QED BY <2>4, <3>1, Least
      <3>3. k \in 1 .. n /\ g[k + 1] # t \o h[k]
        BY <3>2
      <3>4. g[k + 1] = g[k] \o s[k]
        <4> HIDE DEF T
        <4>0. PICK m \in Nat : m = n + 1
          BY <1>1
        <4>1. k \in 1 .. m - 1
          BY <1>1, <3>3, <4>0
        <4>2. \A j \in 1 .. m - 1 : g[j + 1] = g[j] \o a[j + 1]
          BY <1>2, <4>0, RowSteps
        <4>3. a[k + 1] = s[k]
          BY <1>1, <3>3
        <4> QED BY <4>1, <4>2, <4>3, Zenon
      <3>5. CASE k = 1
        <4>1. h[1] = s[1]
          BY <2>2, <3>3, <3>5 DEF InARow
        <4> QED BY <1>3, <3>3, <3>4, <3>5, <4>1
      <3>6. CASE k # 1
        <4>1. k - 1 \in 1 .. n /\ k - 1 \in Nat /\ k - 1 < k /\ k - 1 + 1 = k
          BY <1>1, <3>3, <3>6
        <4>2. g[k] = t \o h[k - 1]
          <5>1. k - 1 \notin T
            BY <3>2, <4>1
          <5> QED BY <4>1, <5>1
        <4>3. h[k] = h[k - 1] \o s[k]
          BY <2>2, <3>3, <3>6 DEF InARow
        <4>4. (t \o h[k - 1]) \o s[k] = t \o (h[k - 1] \o s[k])
          <5>1. h[k - 1] \in Seq(S) /\ s[k] \in Seq(S)
            BY <2>2, <2>3, <3>3, <4>1
          <5>2. PICK u \in Seq(S), v \in Seq(S) : u = h[k - 1] /\ v = s[k]
            BY <5>1
          <5> HIDE DEF T
          <5>3. (t \o u) \o v = t \o (u \o v)
            BY ConcatAssociative
          <5> QED BY <5>2, <5>3
        <4> HIDE DEF T
        <4> QED BY <3>3, <3>4, <4>2, <4>3, <4>4
      <3> QED BY <3>5, <3>6
    <2>5. g[n + 1] = t \o h[n]
      <3>1. n \in 1 .. n
        BY <1>1, <2>1
      <3>2. n \notin T
        BY <2>4
      <3> QED BY <3>1, <3>2
    <2> QED BY <1>0, <1>2, <2>2, <2>5
  <1> QED BY <1>4, <1>5

\* What elements and entries are called, and the rows of passes they make up.
Names == Elems \cup {"unknown", "optimise", "sizeattr"}
Rows == Seq(Names)
\* What h makes of the elements of s, in their order and from the last to the first.
Map(h, s) == [i \in DOMAIN s |-> h[s[i]]]
MapBack(h, s) == [i \in DOMAIN s |-> h[s[Len(s) + 1 - i]]]

\* Its values.
LEMMA MapValues ==
    ASSUME NEW S, NEW s, NEW h, s \in Seq(S)
    PROVE  \A i \in 1 .. Len(s) : Map(h, s)[i] = h[s[i]]
  BY LenProperties DEF Map

\* Its values from the last to the first.
LEMMA MapBackValues ==
    ASSUME NEW S, NEW s, NEW h, s \in Seq(S)
    PROVE  \A i \in 1 .. Len(s) : MapBack(h, s)[i] = h[s[Len(s) + 1 - i]]
  BY LenProperties DEF MapBack

\* Neither order loses an element.
LEMMA MapLengths ==
    ASSUME NEW S, NEW s, NEW h, s \in Seq(S)
    PROVE  Len(Map(h, s)) = Len(s) /\ Len(MapBack(h, s)) = Len(s)
  <1>1. PICK n : n \in Nat /\ n = Len(s) /\ DOMAIN s = 1 .. n
    BY LenProperties
  <1>2. PICK m, b : m = [i \in 1 .. n |-> h[s[i]]] /\ b = [i \in 1 .. n |-> h[s[n + 1 - i]]]
    OBVIOUS
  <1>3. Len(m) = n /\ Len(b) = n
    BY <1>1, <1>2
  <1>4. Map(h, s) = m /\ MapBack(h, s) = b
    BY <1>1, <1>2 DEF Map, MapBack
  <1> QED BY <1>1, <1>3, <1>4

\* Both are sequences of values of h.
LEMMA MapIsSeq ==
    ASSUME NEW S, NEW V, NEW s, NEW h, s \in Seq(S), h \in [S -> V]
    PROVE  Map(h, s) \in Seq(V) /\ MapBack(h, s) \in Seq(V)
  <1>1. PICK n : n \in Nat /\ n = Len(s) /\ DOMAIN s = 1 .. n
    BY LenProperties
  <1>2. /\ \A i \in 1 .. n : s[i] \in S
        /\ \A i \in 1 .. n : n + 1 - i \in 1 .. n
    BY <1>1, ElementOfSeq
  <1>3. Map(h, s) \in [1 .. n -> V] /\ MapBack(h, s) \in [1 .. n -> V]
    BY <1>1, <1>2 DEF Map, MapBack
  <1> QED BY <1>1, <1>3, SeqDef

\* The sequence that is another with one element more behind it.
LEMMA IsAppend ==
    ASSUME NEW V, NEW m \in Seq(V), NEW p \in Seq(V), NEW x \in V, Len(p) = Len(m) + 1,
           p[Len(m) + 1] = x, \A i \in 1 .. Len(m) : p[i] = m[i]
    PROVE  p = Append(m, x)
  <1>1. PICK q \in Seq(V) : q = Append(m, x)
    BY AppendProperties
  <1>2. PICK n \in Nat : n = Len(m)
    BY LenProperties
  <1>3. Len(q) = n + 1 /\ q[n + 1] = x /\ \A i \in 1 .. n : q[i] = m[i]
    BY <1>1, <1>2, AppendProperties
  <1>4. ASSUME NEW i \in 1 .. n + 1 PROVE p[i] = q[i]
    <2>1. CASE i = n + 1
      BY <1>2, <1>3, <2>1
    <2>2. CASE i # n + 1
      BY <1>2, <1>3, <2>2
    <2> QED BY <2>1, <2>2
  <1>5. p = q
    BY <1>2, <1>3, <1>4, SeqEqual
  <1> QED BY <1>1, <1>5

\* The sequence that is another with one element in front.
LEMMA IsPrepend ==
    ASSUME NEW V, NEW m \in Seq(V), NEW p \in Seq(V), NEW x \in V, Len(p) = Len(m) + 1,
           p[1] = x, \A i \in 1 .. Len(m) : p[i + 1] = m[i]
    PROVE  p = <<x>> \o m
  <1>0. PICK o \in Seq(V) : o = <<x>> /\ Len(o) = 1 /\ o[1] = x
    <2>1. <<x>> \in Seq(V) /\ Len(<<x>>) = 1 /\ <<x>>[1] = x
      OBVIOUS
    <2> QED BY <2>1, Zenon
  <1>1. PICK q \in Seq(V) : q = o \o m
    BY ConcatProperties
  <1>2. PICK n \in Nat : n = Len(m)
    BY LenProperties
  <1>3. Len(q) = n + 1
    BY <1>0, <1>1, <1>2, ConcatProperties
  <1>4. \A i \in 1 .. n + 1 : q[i] = IF i <= 1 THEN o[i] ELSE m[i - 1]
    BY <1>0, <1>1, <1>2, <1>3, ConcatProperties
  <1>5. ASSUME NEW i \in 1 .. n + 1 PROVE p[i] = q[i]
    <2>1. CASE i = 1
      BY <1>0, <1>2, <1>4, <2>1
    <2>2. CASE i # 1
      <3>1. PICK j \in 1 .. n : j = i - 1 /\ i = j + 1 /\ ~ (i <= 1)
        BY <1>2, <2>2
      <3>2. q[i] = m[j] /\ p[i] = m[j]
        BY <1>2, <1>4, <3>1
      <3> QED BY <3>2
    <2> QED BY <2>1, <2>2
  <1>6. p = q
    BY <1>2, <1>3, <1>5, SeqEqual
  <1> QED BY <1>0, <1>1, <1>6

\* One element more is one value more,
LEMMA MapAppend ==
    ASSUME NEW S, NEW s, NEW h, NEW e, e \in S, s \in Seq(S), h \in [S -> Rows]
    PROVE  Map(h, Append(s, e)) = Append(Map(h, s), h[e])
  <1>0. PICK n : n \in Nat /\ Len(s) = n
    BY LenProperties
  <1>1. PICK a, k : a = Append(s, e) /\ k = n + 1
    OBVIOUS
  <1>2. /\ a \in Seq(S) /\ Len(a) = k /\ a[k] = e /\ k \in Nat
        /\ \A i \in 1 .. n : a[i] = s[i]
    BY <1>0, <1>1, AppendProperties
  <1>3. PICK m, m2 : m = Map(h, s) /\ m2 = Map(h, a)
    OBVIOUS
  <1>4. m \in Seq(Rows) /\ Len(m) = n /\ \A i \in 1 .. n : m[i] = h[s[i]]
    BY <1>0, <1>3, MapValues, MapLengths, MapIsSeq
  <1>5. m2 \in Seq(Rows) /\ Len(m2) = k /\ \A i \in 1 .. k : m2[i] = h[a[i]]
    <2>1. m2 \in Seq(Rows) /\ Len(m2) = k
      BY <1>2, <1>3, MapLengths, MapIsSeq
    <2>2. \A i \in 1 .. k : m2[i] = h[a[i]]
      BY <1>2, <1>3, MapValues
    <2> QED BY <2>1, <2>2
  <1>6. h[e] \in Rows
    OBVIOUS
  <1>7. k \in 1 .. k /\ \A i \in 1 .. n : i \in 1 .. k
    BY <1>0, <1>1
  <1>8. m2[k] = h[e]
    BY <1>2, <1>5, <1>7, Zenon
  <1>9. ASSUME NEW i \in 1 .. n PROVE m2[i] = m[i]
    <2>1. m2[i] = h[a[i]] /\ a[i] = s[i] /\ m[i] = h[s[i]]
      BY <1>2, <1>4, <1>5, <1>7
    <2> QED BY <2>1, Zenon
  <1>10. m2 = Append(m, h[e])
    BY <1>1, <1>4, <1>5, <1>6, <1>8, <1>9, IsAppend
  <1> QED BY <1>1, <1>3, <1>10

\* in front when they are taken backwards,
LEMMA MapBackAppend ==
    ASSUME NEW S, NEW s, NEW h, NEW e, e \in S, s \in Seq(S), h \in [S -> Rows]
    PROVE  MapBack(h, Append(s, e)) = <<h[e]>> \o MapBack(h, s)
  <1>0. PICK n : n \in Nat /\ Len(s) = n
    BY LenProperties
  <1>1. PICK a, k : a = Append(s, e) /\ k = n + 1
    OBVIOUS
  <1>2. /\ a \in Seq(S) /\ Len(a) = k /\ a[k] = e /\ k \in Nat
        /\ \A i \in 1 .. n : a[i] = s[i]
    BY <1>0, <1>1, AppendProperties
  <1>3. PICK b, b2 : b = MapBack(h, s) /\ b2 = MapBack(h, a)
    OBVIOUS
  <1>4. b \in Seq(Rows) /\ Len(b) = n /\ \A i \in 1 .. n : b[i] = h[s[n + 1 - i]]
    <2>1. b \in Seq(Rows) /\ Len(b) = n
      BY <1>0, <1>3, MapLengths, MapIsSeq
    <2>2. \A i \in 1 .. n : b[i] = h[s[n + 1 - i]]
      BY <1>0, <1>3, MapBackValues
    <2> QED BY <2>1, <2>2
  <1>5. b2 \in Seq(Rows) /\ Len(b2) = k /\ \A i \in 1 .. k : b2[i] = h[a[k + 1 - i]]
    <2>1. b2 \in Seq(Rows) /\ Len(b2) = k
      BY <1>2, <1>3, MapLengths, MapIsSeq
    <2>2. \A i \in 1 .. k : b2[i] = h[a[k + 1 - i]]
      BY <1>2, <1>3, MapBackValues
    <2> QED BY <2>1, <2>2
  <1>6. h[e] \in Rows
    OBVIOUS
  <1>7. /\ 1 \in 1 .. k /\ k + 1 - 1 = k
        /\ \A i \in 1 .. n : /\ i + 1 \in 1 .. k /\ k + 1 - (i + 1) = n + 1 - i
                             /\ n + 1 - i \in 1 .. n
    BY <1>0, <1>1
  <1>8. b2[1] = h[e]
    BY <1>2, <1>5, <1>7, Zenon
  <1>9. ASSUME NEW i \in 1 .. n PROVE b2[i + 1] = b[i]
    <2>1. b2[i + 1] = h[a[n + 1 - i]]
      <3>1. i + 1 \in 1 .. k /\ k + 1 - (i + 1) = n + 1 - i
        BY <1>7
      <3>2. b2[i + 1] = h[a[k + 1 - (i + 1)]]
        BY <1>5, <3>1
      <3> QED BY <3>1, <3>2, Zenon
    <2>2. a[n + 1 - i] = s[n + 1 - i]
      BY <1>2, <1>7, Zenon
    <2> QED BY <1>4, <2>1, <2>2, Zenon
  <1>10. b2 = <<h[e]>> \o b
    BY <1>1, <1>4, <1>5, <1>6, <1>8, <1>9, IsPrepend
  <1> QED BY <1>1, <1>3, <1>10

\* and in front when the element is.
LEMMA MapPrepend ==
    ASSUME NEW S, NEW s, NEW h, NEW e, e \in S, s \in Seq(S), h \in [S -> Rows]
    PROVE  Map(h, <<e>> \o s) = <<h[e]>> \o Map(h, s)
  <1>0. PICK n : n \in Nat /\ Len(s) = n
    BY LenProperties
  <1>1. PICK one, k : one = <<e>> /\ k = n + 1
    OBVIOUS
  <1>2. PICK a : a = one \o s
    OBVIOUS
  <1>3. one \in Seq(S) /\ Len(one) = 1 /\ one[1] = e
    BY <1>1
  <1>4. a \in Seq(S) /\ Len(a) = 1 + n /\ \A i \in 1 .. 1 + n : a[i] = IF i <= 1 THEN one[i] ELSE s[i - 1]
    <2>1. a \in Seq(S)
      BY <1>2, <1>3, ConcatProperties
    <2>2. Len(a) = 1 + n
      BY <1>0, <1>2, <1>3, ConcatProperties
    <2>3. \A i \in 1 .. 1 + n : a[i] = IF i <= 1 THEN one[i] ELSE s[i - 1]
      <3>1. \A i \in 1 .. Len(one) + Len(s) : (one \o s)[i] = IF i <= Len(one) THEN one[i] ELSE s[i - Len(one)]
        BY <1>3, ConcatProperties
      <3> QED BY <1>0, <1>2, <1>3, <3>1, Zenon
    <2> QED BY <2>1, <2>2, <2>3
  <1>5. /\ Len(a) = k /\ k \in Nat /\ a[1] = e /\ \A i \in 1 .. n : a[i + 1] = s[i]
        /\ 1 \in 1 .. k /\ \A i \in 1 .. n : i + 1 \in 1 .. k
    <2>1. /\ 1 \in 1 .. 1 + n /\ k \in Nat /\ k = 1 + n
          /\ \A i \in 1 .. n : i + 1 \in 1 .. 1 + n /\ ~ (i + 1 <= 1) /\ i + 1 - 1 = i
      BY <1>0, <1>1
    <2> QED BY <1>3, <1>4, <2>1
  <1>6. PICK m, m2 : m = Map(h, s) /\ m2 = Map(h, a)
    OBVIOUS
  <1>7. m \in Seq(Rows) /\ Len(m) = n /\ \A i \in 1 .. n : m[i] = h[s[i]]
    BY <1>0, <1>6, MapValues, MapLengths, MapIsSeq
  <1>8. m2 \in Seq(Rows) /\ Len(m2) = k /\ \A i \in 1 .. k : m2[i] = h[a[i]]
    BY <1>4, <1>5, <1>6, MapValues, MapLengths, MapIsSeq
  <1>9. m2[1] = h[e]
    BY <1>5, <1>8, Zenon
  <1>10. ASSUME NEW i \in 1 .. n PROVE m2[i + 1] = m[i]
    <2>1. m2[i + 1] = h[a[i + 1]] /\ a[i + 1] = s[i] /\ m[i] = h[s[i]]
      BY <1>5, <1>7, <1>8
    <2> QED BY <2>1, Zenon
  <1>11. h[e] \in Rows
    OBVIOUS
  <1>12. m2 = <<h[e]>> \o m
    BY <1>1, <1>7, <1>8, <1>9, <1>10, <1>11, IsPrepend
  <1> QED BY <1>1, <1>2, <1>6, <1>12

\* The rows that h makes of the elements of s, put together: in order, as the
\* entries of a manager are, and backwards, as the calls in progress come to
\* their end.
Along(h, s) == FlattenSeq(Map(h, s))
Backwards(h, s) == FlattenSeq(MapBack(h, s))

\* Nothing comes of nothing.
LEMMA AlongEmpty == ASSUME NEW h PROVE Along(h, <<>>) = <<>> /\ Backwards(h, <<>>) = <<>>
  <1>1. Map(h, <<>>) = <<>> /\ MapBack(h, <<>>) = <<>>
    BY DEF Map, MapBack
  <1> QED BY <1>1, FlattenEmpty DEF Along, Backwards

\* Rows put together are a row.
LEMMA AlongType ==
    ASSUME NEW S, NEW s, NEW h, s \in Seq(S), h \in [S -> Rows]
    PROVE  Along(h, s) \in Rows /\ Backwards(h, s) \in Rows
  <1>1. Map(h, s) \in Seq(Seq(Names)) /\ MapBack(h, s) \in Seq(Seq(Names))
    BY MapIsSeq DEF Rows
  <1> QED BY <1>1, FlattenType DEF Along, Backwards, Rows

\* One element more in order adds its row behind the others.
LEMMA AlongAppend ==
    ASSUME NEW S, NEW s, NEW h, NEW e, NEW t, e \in S, s \in Seq(S), h \in [S -> Rows], t = h[e]
    PROVE  Along(h, Append(s, e)) = Along(h, s) \o t
  <1>1. PICK m : m = Map(h, s)
    OBVIOUS
  <1>2. m \in Seq(Seq(Names)) /\ t \in Seq(Names)
    BY <1>1, MapIsSeq DEF Rows
  <1>3. Map(h, Append(s, e)) = Append(m, t)
    BY <1>1, MapAppend
  <1>4. FlattenSeq(Append(m, t)) = FlattenSeq(m) \o t
    BY <1>2, FlattenAppend
  <1> QED BY <1>1, <1>3, <1>4 DEF Along

\* The innermost call comes to its end first.
LEMMA BackwardsAppend ==
    ASSUME NEW S, NEW s, NEW h, NEW e, NEW t, e \in S, s \in Seq(S), h \in [S -> Rows], t = h[e]
    PROVE  Backwards(h, Append(s, e)) = t \o Backwards(h, s)
  <1>1. PICK b : b = MapBack(h, s)
    OBVIOUS
  <1>2. b \in Seq(Seq(Names)) /\ t \in Seq(Names)
    BY <1>1, MapIsSeq DEF Rows
  <1>3. MapBack(h, Append(s, e)) = <<t>> \o b
    BY <1>1, MapBackAppend
  <1>4. FlattenSeq(<<t>> \o b) = t \o FlattenSeq(b)
    BY <1>2, FlattenPrepend
  <1> QED BY <1>1, <1>3, <1>4 DEF Backwards

\* A sequence is its head in front of its tail.
LEMMA HeadOnTail ==
    ASSUME NEW S, NEW s, s \in Seq(S), s # <<>>
    PROVE  s = <<Head(s)>> \o Tail(s)
  <1>1. /\ Head(s) \in S /\ Tail(s) \in Seq(S) /\ Len(Tail(s)) = Len(s) - 1
        /\ \A i \in 1 .. Len(Tail(s)) : Tail(s)[i] = s[i + 1]
    BY HeadTailProperties
  <1>2. Len(s) \in Nat \ {0} /\ DOMAIN s = 1 .. Len(s) /\ s[1] \in S
    BY LenProperties, EmptySeq, ElementOfSeq
  <1>3. Head(s) = s[1]
    OBVIOUS
  <1>4. PICK x, t, n : x = Head(s) /\ t = Tail(s) /\ n = Len(t)
    OBVIOUS
  <1>5. n \in Nat /\ Len(s) = n + 1 /\ s[1] = x /\ \A i \in 1 .. n : s[i + 1] = t[i]
    BY <1>1, <1>2, <1>3, <1>4
  <1>6. x \in S /\ t \in Seq(S)
    BY <1>1, <1>4
  <1>7. s = <<x>> \o t
    BY <1>4, <1>5, <1>6, IsPrepend
  <1> QED BY <1>4, <1>7

\* The rows begin with that of the head.
LEMMA AlongHead ==
    ASSUME NEW S, NEW s, NEW h, NEW v, s \in Seq(S), s # <<>>, h \in [S -> Rows], v = h[Head(s)]
    PROVE  Along(h, s) = v \o Along(h, Tail(s))
  <1>1. PICK x, t, m : x = Head(s) /\ t = Tail(s) /\ m = Map(h, t)
    OBVIOUS
  <1>2. x \in S /\ t \in Seq(S)
    BY <1>1, HeadAndTail
  <1>3. s = <<x>> \o t
    BY <1>1, HeadOnTail
  <1>4. v = h[x] /\ v \in Seq(Names)
    BY <1>1, <1>2 DEF Rows
  <1>5. m \in Seq(Seq(Names))
    BY <1>1, <1>2, MapIsSeq DEF Rows
  <1>6. Map(h, s) = <<v>> \o m
    <2>1. Map(h, <<x>> \o t) = <<h[x]>> \o Map(h, t)
      BY <1>2, MapPrepend
    <2> QED BY <1>1, <1>3, <1>4, <2>1
  <1>7. FlattenSeq(<<v>> \o m) = v \o FlattenSeq(m)
    BY <1>4, <1>5, FlattenPrepend
  <1> QED BY <1>1, <1>6, <1>7 DEF Along

\* A row n times.
Times(n, s) == FlattenSeq([i \in 1 .. n |-> s])

\* Not once is nothing.
LEMMA TimesNone == ASSUME NEW s PROVE Times(0, s) = <<>>
  <1>1. [i \in 1 .. 0 |-> s] = <<>>
    OBVIOUS
  <1> QED BY <1>1, FlattenEmpty DEF Times

\* Once more adds it once.
LEMMA TimesFacts ==
    ASSUME NEW s, s \in Rows
    PROVE  \A n \in Nat : Times(n + 1, s) = Times(n, s) \o s
  <1> SUFFICES ASSUME NEW n \in Nat PROVE Times(n + 1, s) = Times(n, s) \o s
    OBVIOUS
  <1>1. PICK m, m2 : m = [i \in 1 .. n |-> s] /\ m2 = [i \in 1 .. n + 1 |-> s]
    OBVIOUS
  <1>2. m \in Seq(Rows) /\ Len(m) = n /\ m2 \in Seq(Rows) /\ Len(m2) = n + 1
    BY <1>1
  <1>3. m2[n + 1] = s /\ \A i \in 1 .. n : m2[i] = m[i]
    BY <1>1
  <1>4. m2 = Append(m, s)
    BY <1>2, <1>3, IsAppend
  <1>5. FlattenSeq(Append(m, s)) = FlattenSeq(m) \o s
    BY <1>2, FlattenAppend DEF Rows
  <1> QED BY <1>1, <1>4, <1>5 DEF Times

\* Rows in a row.
LEMMA RowConcat ==
    /\ \A u, v \in Rows : u \o v \in Rows
    /\ \A u, v, w \in Rows : (u \o v) \o w = u \o (v \o w)
    /\ \A u \in Rows : u \o <<>> = u /\ <<>> \o u = u
    /\ <<>> \in Rows
  BY ConcatProperties, ConcatAssociative, ConcatEmptySeq, EmptySeq DEF Rows

\* Once is the row.
LEMMA TimesOne == ASSUME NEW s, s \in Rows PROVE Times(1, s) = s
  <1>1. PICK n : n = 0
    OBVIOUS
  <1>2. Times(n + 1, s) = Times(n, s) \o s
    BY <1>1, TimesFacts
  <1>3. Times(n, s) = <<>> /\ n + 1 = 1
    BY <1>1, TimesNone
  <1> QED BY <1>2, <1>3, RowConcat

\* How many of the entries are optimisations.
Count(s) == Cardinality({i \in DOMAIN s : s[i].pass = "optimise"})

\* One entry more, an optimisation or not.
LEMMA CountAppend ==
    ASSUME NEW S, NEW s, NEW e, s \in Seq(S), e \in S
    PROVE  /\ Count(s) \in Nat
           /\ Count(Append(s, e)) = IF e.pass = "optimise" THEN Count(s) + 1 ELSE Count(s)
  <1>1. PICK n : n \in Nat /\ n = Len(s) /\ DOMAIN s = 1 .. n
    BY LenProperties
  <1>2. PICK a : a = Append(s, e)
    OBVIOUS
  <1>3. /\ a \in Seq(S) /\ Len(a) = n + 1 /\ a[n + 1] = e
        /\ \A i \in 1 .. n : a[i] = s[i]
    BY <1>1, <1>2, AppendProperties
  <1>4. DOMAIN a = 1 .. n + 1
    BY <1>3, LenProperties
  <1>5. PICK T : T = {i \in 1 .. n : s[i].pass = "optimise"}
    OBVIOUS
  <1>6. PICK T2 : T2 = {i \in 1 .. n + 1 : a[i].pass = "optimise"}
    OBVIOUS
  <1>7. T2 = IF e.pass = "optimise" THEN T \cup {n + 1} ELSE T
    BY <1>1, <1>3, <1>5, <1>6
  <1>8. IsFiniteSet(T) /\ n + 1 \notin T
    <2>1. IsFiniteSet(1 .. n)
      BY <1>1, FS_Interval
    <2> QED BY <1>1, <1>5, <2>1, FS_Subset
  <1>9. Cardinality(T) \in Nat
    BY <1>8, FS_CardinalityType
  <1>10. Cardinality(T \cup {n + 1}) = Cardinality(T) + 1
    BY <1>8, FS_AddElement
  <1>11. Count(s) = Cardinality(T) /\ Count(a) = Cardinality(T2)
    BY <1>1, <1>4, <1>5, <1>6 DEF Count
  <1> QED BY <1>2, <1>7, <1>9, <1>10, <1>11

\* An entry in front that optimises nothing is not counted.
LEMMA CountPrepend ==
    ASSUME NEW S, NEW s, NEW e, s \in Seq(S), e \in S, e.pass # "optimise"
    PROVE  Count(<<e>> \o s) = Count(s)
  <1>1. PICK n : n \in Nat /\ n = Len(s) /\ DOMAIN s = 1 .. n
    BY LenProperties
  <1>2. PICK one, a : one = <<e>> /\ a = one \o s
    OBVIOUS
  <1>3. one \in Seq(S) /\ Len(one) = 1 /\ one[1] = e
    BY <1>2
  <1>4. a \in Seq(S) /\ Len(a) = 1 + n
    BY <1>1, <1>2, <1>3, ConcatProperties
  <1>5. \A i \in 1 .. Len(one) + Len(s) : (one \o s)[i] = IF i <= Len(one) THEN one[i] ELSE s[i - Len(one)]
    BY <1>3, ConcatProperties
  <1>6. \A i \in 1 .. 1 + n : a[i] = IF i <= 1 THEN one[i] ELSE s[i - 1]
    BY <1>1, <1>2, <1>3, <1>5, Zenon
  <1>7. a[1] = e /\ \A i \in 1 .. n : a[i + 1] = s[i]
    <2>1. /\ 1 \in 1 .. 1 + n
          /\ \A i \in 1 .. n : i + 1 \in 1 .. 1 + n /\ ~ (i + 1 <= 1) /\ i + 1 - 1 = i
      BY <1>1
    <2> QED BY <1>3, <1>6, <2>1
  <1>8. DOMAIN a = 1 .. 1 + n
    BY <1>4, LenProperties
  <1>9. PICK T : T = {i \in 1 .. n : s[i].pass = "optimise"}
    OBVIOUS
  <1>10. PICK T2 : T2 = {i \in 1 .. 1 + n : a[i].pass = "optimise"}
    OBVIOUS
  <1> DEFINE f == [i \in T |-> i + 1]
  <1>11. \A i \in T : i + 1 \in T2
    BY <1>1, <1>7, <1>9, <1>10
  <1>12. ASSUME NEW j \in T2 PROVE j - 1 \in T /\ (j - 1) + 1 = j
    <2>1. j \in 1 .. 1 + n /\ a[j].pass = "optimise" /\ j # 1
      BY <1>7, <1>10
    <2>2. j - 1 \in 1 .. n /\ (j - 1) + 1 = j
      BY <1>1, <2>1
    <2>3. s[j - 1] = a[j]
      BY <1>7, <2>2
    <2> QED BY <1>9, <2>1, <2>2, <2>3
  <1>13. \A i, j \in T : i + 1 = j + 1 => i = j
    BY <1>1, <1>9
  <1>14. f \in Bijection(T, T2)
    <2>1. f \in [T -> T2]
      BY <1>11
    <2>2. \A i, j \in T : f[i] = f[j] => i = j
      BY <1>13
    <2>3. \A j \in T2 : \E i \in T : f[i] = j
      BY <1>12
    <2> HIDE DEF f
    <2> QED BY <2>1, <2>2, <2>3 DEF Bijection, Injection, Surjection, IsInjective
  <1>15. ExistsBijection(T, T2)
    BY <1>14 DEF ExistsBijection
  <1>16. IsFiniteSet(T)
    <2>1. IsFiniteSet(1 .. n)
      BY <1>1, FS_Interval
    <2> QED BY <1>1, <1>9, <2>1, FS_Subset
  <1>17. Cardinality(T2) = Cardinality(T)
    BY <1>15, <1>16, FS_Bijection
  <1>18. Count(s) = Cardinality(T) /\ Count(a) = Cardinality(T2)
    BY <1>1, <1>8, <1>9, <1>10 DEF Count
  <1> QED BY <1>2, <1>17, <1>18

-----------------------------------------------------------------------------
(***************************************************************************)
(* The passes that are asked for, there and still to come.                 *)
(***************************************************************************)
\* The pass of an entry, where it came from the point.
PassAt(at) == [e \in Entry |-> IF e.at = at THEN <<e.pass>> ELSE <<>>]
\* What the texts of a point have added when their parser returns.
OfText(ep) == [text \in Text |-> Accepted(text, ep \in ModuleEPs)]
\* The passes among the elements of a text.
Keep == [elem \in Names |-> IF elem = "default" THEN <<>> ELSE <<elem>>]
\* At the points of a pipeline, the row of one of them each time it comes.
Here(at, s) == [ep \in EPs |-> IF ep = at THEN s ELSE <<>>]
\* The version of LLVM has the point, and its callbacks are called.
Registered(at, v) == at # "caller" /\ v >= Since[at]
\* The calls that can be in progress.
CallOf == {c \in Frame : RestOK(c)}
\* The passes of a point, or of the caller, that a call still adds, without what
\* pipelines the caller's text names will add: the rest of a text, the texts of
\* callbacks to come, and all texts of a point each time it is still ahead.
Left(at, asked, v) == [c \in CallOf |->
    IF c.in = "text"
      THEN IF c.at # at THEN <<>> ELSE IF at = "caller" THEN Along(Keep, c.rest) ELSE c.rest
    ELSE IF c.in = "callbacks" THEN IF c.at = at THEN Along(OfText(at), c.rest) ELSE <<>>
    ELSE IF Registered(at, v) THEN Along(Here(at, Along(OfText(at), asked.eps[at])), c.rest)
    ELSE <<>>]
LeftAt(at) == Left(at, pm.asked, version)
\* Where a pass can be from.
Points == EPs \cup {"caller"}

\* Elements, and the texts made of them, are rows.
LEMMA NamesIn ==
    /\ \A x \in Names : <<x>> \in Rows
    /\ Elems \subseteq Names
    /\ \A s \in Seq(Elems) : s \in Rows
    /\ \A text \in Text : text.elems \in Rows
  <1>1. \A x \in Names : <<x>> \in Rows
    BY DEF Rows
  <1>2. Elems \subseteq Names /\ {"p", "q", "default", "unknown"} \subseteq Names
    BY DEF Names, Elems
  <1>3. \A s \in Seq(Elems) : s \in Rows
    BY <1>2, SeqMonotonic DEF Rows
  <1>4. \A text \in Text : text.elems \in Rows
    <2>1. \A text \in Text : text.elems \in Seq({"p", "q", "default", "unknown"})
      BY DEF Text
    <2>2. Seq({"p", "q", "default", "unknown"}) \subseteq Seq(Names)
      BY <1>2, SeqMonotonic
    <2> QED BY <2>1, <2>2 DEF Rows
  <1> QED BY <1>1, <1>2, <1>3, <1>4

\* An entry stands for a row of one pass or none.
LEMMA PassAtType == \A at : PassAt(at) \in [Entry -> Rows]
  <1>1. \A e \in Entry : e.pass \in Names
    BY DEF Entry, Names, Elems
  <1>2. \A at : \A e \in Entry : (IF e.at = at THEN <<e.pass>> ELSE <<>>) \in Rows
    <2>1. \A e \in Entry : <<e.pass>> \in Rows
      BY <1>1, NamesIn
    <2>2. <<>> \in Rows
      BY RowConcat
    <2> QED BY <2>1, <2>2
  <1> QED BY <1>2 DEF PassAt

\* A text stands for a row.
LEMMA OfTextType == \A ep : OfText(ep) \in [Text -> Rows]
  <1>1. ASSUME NEW ep, NEW text \in Text PROVE Accepted(text, ep \in ModuleEPs) \in Rows
    <2>1. (ep \in ModuleEPs) \in BOOLEAN
      OBVIOUS
    <2>2. Accepted(text, ep \in ModuleEPs) \in Seq(Elems)
      BY <2>1, AcceptedElems
    <2> QED BY <2>2, NamesIn
  <1> QED BY <1>1 DEF OfText

\* A point stands for a row.
LEMMA HereType == \A at : \A s \in Rows : Here(at, s) \in [EPs -> Rows]
  BY RowConcat DEF Here

\* An element stands for a row of one pass or none.
LEMMA KeepType == Keep \in [Names -> Rows]
  <1>1. \A e \in Names : (IF e = "default" THEN <<>> ELSE <<e>>) \in Rows
    BY NamesIn, RowConcat
  <1> QED BY <1>1 DEF Keep

\* The passes a manager has from a point, as rows put together,
LEMMA EntriesRow ==
    ASSUME NEW s, s \in Seq(Entry), NEW at
    PROVE  FlattenSeq([i \in DOMAIN s |-> IF s[i].at = at THEN <<s[i].pass>> ELSE <<>>]) =
             Along(PassAt(at), s)
  <1>1. \A i \in DOMAIN s : s[i] \in Entry
    BY LenProperties, ElementOfSeq
  <1>2. Map(PassAt(at), s) = [i \in DOMAIN s |-> IF s[i].at = at THEN <<s[i].pass>> ELSE <<>>]
    BY <1>1 DEF Map, PassAt
  <1> QED BY <1>2 DEF Along

\* those that the texts of a point stand for,
LEMMA TextsRow ==
    ASSUME NEW ep, NEW s, s \in Seq(Text)
    PROVE  FlattenSeq([i \in DOMAIN s |-> Accepted(s[i], ep \in ModuleEPs)]) = Along(OfText(ep), s)
  <1>1. \A i \in DOMAIN s : s[i] \in Text
    BY LenProperties, ElementOfSeq
  <1>2. Map(OfText(ep), s) = [i \in DOMAIN s |-> Accepted(s[i], ep \in ModuleEPs)]
    BY <1>1 DEF Map, OfText
  <1> QED BY <1>2 DEF Along

\* those of a point in one default pipeline,
LEMMA PointsRow ==
    ASSUME NEW at, NEW s, NEW r, r \in Seq(EPs)
    PROVE  FlattenSeq([i \in DOMAIN r |-> IF r[i] = at THEN s ELSE <<>>]) = Along(Here(at, s), r)
  <1>1. \A i \in DOMAIN r : r[i] \in EPs
    BY LenProperties, ElementOfSeq
  <1>2. Map(Here(at, s), r) = [i \in DOMAIN r |-> IF r[i] = at THEN s ELSE <<>>]
    BY <1>1 DEF Map, Here
  <1> QED BY <1>2 DEF Along

\* and those of the text of a caller.
LEMMA KeptIs ==
    ASSUME NEW elems, elems \in Rows
    PROVE  Kept(elems) = Along(Keep, elems)
  <1>1. \A i \in DOMAIN elems : elems[i] \in Names
    BY LenProperties, ElementOfSeq DEF Rows
  <1>2. Map(Keep, elems) = [i \in DOMAIN elems |-> IF elems[i] = "default" THEN <<>> ELSE <<elems[i]>>]
    BY <1>1 DEF Map, Keep
  <1> QED BY <1>2 DEF Along, Kept

\* What a call still adds is a row.
LEMMA LeftType ==
    ASSUME NEW asked, NEW v, NEW at \in Points, asked.eps \in [EPs -> Seq(Text)]
    PROVE  Left(at, asked, v) \in [CallOf -> Rows]
  <1>1. \A ep \in EPs : asked.eps[ep] \in Seq(Text)
    OBVIOUS
  <1>2. ASSUME NEW c \in CallOf
        PROVE  (IF c.in = "text"
                 THEN IF c.at # at THEN <<>> ELSE IF at = "caller" THEN Along(Keep, c.rest) ELSE c.rest
                ELSE IF c.in = "callbacks" THEN IF c.at = at THEN Along(OfText(at), c.rest) ELSE <<>>
                ELSE IF Registered(at, v)
                  THEN Along(Here(at, Along(OfText(at), asked.eps[at])), c.rest) ELSE <<>>) \in Rows
    <2>1. <<>> \in Rows
      BY RowConcat
    <2>2. RestOK(c)
      BY DEF CallOf
    <2>3. CASE c.in = "text"
      <3>1. c.rest \in Rows
        BY <2>2, <2>3, NamesIn DEF RestOK
      <3>2. Along(Keep, c.rest) \in Rows
        BY <3>1, KeepType, AlongType DEF Rows
      <3> QED BY <2>1, <2>3, <3>1, <3>2
    <2>4. CASE c.in = "callbacks"
      <3>1. c.rest \in Seq(Text)
        BY <2>2, <2>4 DEF RestOK
      <3>2. Along(OfText(at), c.rest) \in Rows
        BY <3>1, OfTextType, AlongType
      <3> QED BY <2>1, <2>4, <3>2
    <2>5. CASE c.in = "pipeline"
      <3>1. CASE Registered(at, v)
        <4>1. c.rest \in Seq(EPs)
          BY <2>2, <2>5 DEF RestOK
        <4>2. asked.eps[at] \in Seq(Text)
          BY <1>1, <3>1 DEF Points, Registered
        <4>3. PICK s : s = Along(OfText(at), asked.eps[at])
          OBVIOUS
        <4>4. s \in Rows
          BY <4>2, <4>3, OfTextType, AlongType
        <4>5. Along(Here(at, s), c.rest) \in Rows
          BY <4>1, <4>4, HereType, AlongType
        <4> QED BY <2>5, <3>1, <4>3, <4>5
      <3>2. CASE ~ Registered(at, v)
        BY <2>1, <2>5, <3>2
      <3> QED BY <3>1, <3>2
    <2> QED BY <2>2, <2>3, <2>4, <2>5 DEF RestOK
  <1> QED BY <1>2 DEF Left

\* It is, kind of call by kind of call.
LEMMA LeftIs ==
    ASSUME NEW asked, NEW v, NEW at \in Points, NEW c \in CallOf
    PROVE  /\ c.in = "text" /\ c.at # at => Left(at, asked, v)[c] = <<>>
           /\ c.in = "text" /\ c.at = at /\ at = "caller" => Left(at, asked, v)[c] = Along(Keep, c.rest)
           /\ c.in = "text" /\ c.at = at /\ at # "caller" => Left(at, asked, v)[c] = c.rest
           /\ c.in = "callbacks" /\ c.at = at => Left(at, asked, v)[c] = Along(OfText(at), c.rest)
           /\ c.in = "callbacks" /\ c.at # at => Left(at, asked, v)[c] = <<>>
           /\ c.in = "pipeline" /\ Registered(at, v) =>
                 Left(at, asked, v)[c] = Along(Here(at, Along(OfText(at), asked.eps[at])), c.rest)
           /\ c.in = "pipeline" /\ ~ Registered(at, v) => Left(at, asked, v)[c] = <<>>
  BY DEF Left

\* The calls in progress as the innermost behind those it is in.
LEMMA CallsSplit ==
    ASSUME CallsOK, todo # <<>>
    PROVE  /\ Front(todo) \in Seq(CallOf) /\ Len(Front(todo)) = Len(todo) - 1
           /\ \A i \in 1 .. Len(todo) - 1 : Front(todo)[i] = todo[i]
           /\ Call \in CallOf /\ todo \in Seq(CallOf)
  <1>1. PICK n : n = Len(todo) - 1
    OBVIOUS
  <1>2. /\ Len(todo) = n + 1 /\ n \in Nat /\ DOMAIN todo = 1 .. n + 1 /\ Call = todo[n + 1]
        /\ \A i \in 1 .. n + 1 : todo[i] \in CallOf
    BY <1>1, Innermost DEF CallOf
  <1>3. todo \in Seq(CallOf)
    <2>1. todo \in Seq(Frame)
      BY DEF CallsOK
    <2>2. todo \in [1 .. n + 1 -> CallOf]
      BY <1>2, <2>1, LenProperties
    <2> QED BY <1>2, <2>2, SeqDef
  <1>4. PICK f : f = Front(todo)
    OBVIOUS
  <1>5. f \in Seq(CallOf) /\ Len(f) = n /\ \A i \in 1 .. n : f[i] = todo[i]
    <2>1. f = SubSeq(todo, 1, n)
      BY <1>1, <1>4 DEF Front
    <2>2. \A i \in 1 .. n : todo[i] \in CallOf
      BY <1>2
    <2>3. /\ f \in Seq(CallOf) /\ Len(f) = n
          /\ \A i \in 1 .. n : f[i] = todo[1 + i - 1]
      BY <1>2, <1>3, <2>1, <2>2, SubSeqProperties
    <2> QED BY <1>2, <2>3
  <1>6. Call \in CallOf
    <2>1. n + 1 \in 1 .. n + 1
      BY <1>2
    <2> QED BY <1>2, <2>1
  <1> QED BY <1>1, <1>3, <1>4, <1>5, <1>6

\* Together they are the calls in progress.
LEMMA CallsAre ==
    ASSUME CallsOK, todo # <<>>
    PROVE  todo = Append(Front(todo), Call)
  <1>1. PICK n, f : n = Len(todo) - 1 /\ f = Front(todo)
    OBVIOUS
  <1>2. /\ f \in Seq(CallOf) /\ Len(f) = n /\ n \in Nat /\ todo \in Seq(CallOf) /\ Len(todo) = n + 1
        /\ todo[n + 1] = Call /\ Call \in CallOf
    BY <1>1, CallsSplit, Innermost
  <1>3. \A i \in 1 .. n : todo[i] = f[i]
    BY <1>1, CallsSplit
  <1>4. todo = Append(f, Call)
    BY <1>2, <1>3, IsAppend
  <1> QED BY <1>1, <1>4

\* When the innermost call goes on, those it is in stay as they are.
LEMMA StepIs ==
    ASSUME CallsOK, todo # <<>>, Call.rest # <<>>
    PROVE  /\ Step = Append(Front(todo), Step[Len(todo)])
           /\ Step[Len(todo)] \in CallOf
  <1>1. PICK n, f, c, s : n = Len(todo) - 1 /\ f = Front(todo) /\ c = Step[Len(todo)] /\ s = Step
    OBVIOUS
  <1>2. /\ f \in Seq(CallOf) /\ Len(f) = n /\ n \in Nat /\ todo \in Seq(CallOf) /\ Len(todo) = n + 1
    BY <1>1, CallsSplit, Innermost
  <1>3. \A i \in 1 .. n : todo[i] = f[i]
    BY <1>1, CallsSplit
  <1>4. /\ s \in Seq(Frame) /\ Len(s) = n + 1 /\ s[n + 1] = c /\ RestOK(c)
        /\ \A i \in 1 .. n : s[i] = todo[i]
    BY <1>1, <1>2, StepFacts
  <1>5. c \in CallOf
    <2>1. c \in Frame
      BY <1>2, <1>4, ElementOfSeq
    <2> QED BY <1>4, <2>1 DEF CallOf
  <1>6. f \in Seq(Frame) /\ c \in Frame
    <2>1. CallOf \subseteq Frame
      BY DEF CallOf
    <2> QED BY <1>2, <1>5, <2>1, SeqMonotonic
  <1>7. s = Append(f, c)
    BY <1>2, <1>3, <1>4, <1>6, IsAppend
  <1> QED BY <1>1, <1>5, <1>7

\* What a call still adds is what it hands to the call it makes, and what it then
\* still adds.
HandsOn(asked, v, c, inner, d) ==
    \A at \in Points : Left(at, asked, v)[c] = Left(at, asked, v)[inner] \o Left(at, asked, v)[d]
\* LLVM comes to the next point of a pipeline and calls what is registered there.
AtNextPoint(asked, v, c, inner, d) ==
    /\ asked.eps \in [EPs -> Seq(Text)] /\ v \in Nat
    /\ c \in CallOf /\ inner \in CallOf /\ d \in CallOf
    /\ c.in = "pipeline" /\ c.rest # <<>>
    /\ d.in = "pipeline" /\ d.rest = Tail(c.rest)
    /\ inner.in = "callbacks" /\ inner.at = Head(c.rest)
    /\ inner.rest = IF v >= Since[Head(c.rest)] THEN asked.eps[Head(c.rest)] ELSE <<>>
\* The next callback of a point parses its text.
InNextText(asked, c, inner, d) ==
    /\ asked.eps \in [EPs -> Seq(Text)] /\ c \in CallOf /\ inner \in CallOf /\ d \in CallOf
    /\ c.in = "callbacks" /\ c.rest # <<>>
    /\ d.in = "callbacks" /\ d.at = c.at /\ d.rest = Tail(c.rest)
    /\ inner.in = "text" /\ inner.at = c.at
    /\ inner.rest = Accepted(Head(c.rest), c.at \in ModuleEPs)

\* What a pipeline has left is what the callbacks of the point have, and what the
\* points behind it have, be the same point among them or not.
LEMMA LeftAtPoint ==
    ASSUME NEW asked, NEW v, NEW c, NEW inner, NEW d, AtNextPoint(asked, v, c, inner, d)
    PROVE  HandsOn(asked, v, c, inner, d)
  <1> SUFFICES ASSUME NEW at \in Points
               PROVE  Left(at, asked, v)[c] = Left(at, asked, v)[inner] \o Left(at, asked, v)[d]
    BY DEF HandsOn
  <1> PICK ep : ep = Head(c.rest)
    OBVIOUS
  <1> USE DEF AtNextPoint
  <1>1. c.rest \in Seq(EPs)
    BY DEF CallOf, RestOK
  <1>2. ep \in EPs /\ ep # "caller"
    BY <1>1, HeadAndTail, EPFacts
  <1>3. PICK L : L = Left(at, asked, v)
    OBVIOUS
  <1>4. \A x \in CallOf : L[x] \in Rows
    BY <1>3, LeftType
  <1>5. CASE Registered(at, v)
    <2>1. PICK s : s = Along(OfText(at), asked.eps[at])
      OBVIOUS
    <2>2. s \in Rows
      <3>1. asked.eps[at] \in Seq(Text)
        BY <1>5 DEF Points, Registered
      <3> QED BY <2>1, <3>1, OfTextType, AlongType
    <2>3. L[c] = Along(Here(at, s), c.rest) /\ L[d] = Along(Here(at, s), Tail(c.rest))
      BY <1>3, <1>5, <2>1, LeftIs
    <2>4. L[inner] = IF ep = at THEN s ELSE <<>>
      <3>1. CASE ep = at
        <4>1. inner.rest = asked.eps[at]
          BY <1>5, <3>1 DEF Registered
        <4> QED BY <1>3, <2>1, <3>1, <4>1, LeftIs
      <3>2. CASE ep # at
        BY <1>3, <3>2, LeftIs
      <3> QED BY <3>1, <3>2
    <2>5. Along(Here(at, s), c.rest) = L[inner] \o Along(Here(at, s), Tail(c.rest))
      <3>1. PICK h, r, u : h = Here(at, s) /\ r = c.rest /\ u = L[inner]
        OBVIOUS
      <3>2. u = h[Head(r)]
        BY <1>2, <2>4, <3>1 DEF Here
      <3>3. h \in [EPs -> Rows] /\ r \in Seq(EPs) /\ r # <<>> /\ u = h[Head(r)]
        BY <1>1, <2>2, <3>1, <3>2, HereType
      <3>4. Along(h, r) = u \o Along(h, Tail(r))
        BY ONLY <3>3, AlongHead
      <3> QED BY <3>1, <3>4
    <2> QED BY <1>3, <2>3, <2>5
  <1>6. CASE ~ Registered(at, v)
    <2>1. L[c] = <<>> /\ L[d] = <<>>
      BY <1>3, <1>6, LeftIs
    <2>2. L[inner] = <<>>
      <3>1. CASE ep = at
        <4>1. inner.rest = <<>>
          BY <1>2, <1>6, <3>1 DEF Registered
        <4>2. L[inner] = Along(OfText(at), inner.rest)
          BY <1>3, <3>1, LeftIs
        <4> QED BY <4>1, <4>2, AlongEmpty
      <3>2. CASE ep # at
        BY <1>3, <3>2, LeftIs
      <3> QED BY <3>1, <3>2
    <2> QED BY <1>3, <2>1, <2>2, RowConcat
  <1> QED BY <1>5, <1>6

\* What callbacks have left is what the text has, and what the texts behind it have.
LEMMA LeftInCallback ==
    ASSUME NEW asked, NEW v, NEW c, NEW inner, NEW d, InNextText(asked, c, inner, d)
    PROVE  HandsOn(asked, v, c, inner, d)
  <1> SUFFICES ASSUME NEW at \in Points
               PROVE  Left(at, asked, v)[c] = Left(at, asked, v)[inner] \o Left(at, asked, v)[d]
    BY DEF HandsOn
  <1> USE DEF InNextText
  <1>1. c.rest \in Seq(Text) /\ c.at # "caller"
    BY EPFacts DEF CallOf, RestOK
  <1>2. Head(c.rest) \in Text
    BY <1>1, HeadAndTail
  <1>3. PICK L : L = Left(at, asked, v)
    OBVIOUS
  <1>4. CASE c.at = at
    <2>1. L[c] = Along(OfText(at), c.rest)
      BY <1>3, <1>4, LeftIs
    <2>2. L[d] = Along(OfText(at), Tail(c.rest))
      BY <1>3, <1>4, LeftIs
    <2>3. L[inner] = inner.rest
      BY <1>1, <1>3, <1>4, LeftIs
    <2>4. inner.rest = OfText(at)[Head(c.rest)]
      BY <1>2, <1>4 DEF OfText
    <2>5. Along(OfText(at), c.rest) = inner.rest \o Along(OfText(at), Tail(c.rest))
      <3>1. PICK h, r, u : h = OfText(at) /\ r = c.rest /\ u = inner.rest
        OBVIOUS
      <3>2. h \in [Text -> Rows] /\ r \in Seq(Text) /\ r # <<>> /\ u = h[Head(r)]
        BY <1>1, <2>4, <3>1, OfTextType
      <3>3. Along(h, r) = u \o Along(h, Tail(r))
        BY ONLY <3>2, AlongHead
      <3> QED BY <3>1, <3>3
    <2> QED BY <1>3, <2>1, <2>2, <2>3, <2>5
  <1>5. CASE c.at # at
    <2>1. L[c] = <<>> /\ L[d] = <<>> /\ L[inner] = <<>>
      BY <1>3, <1>5, LeftIs
    <2> QED BY <1>3, <2>1, RowConcat
  <1> QED BY <1>4, <1>5

\* The parser takes the next element of a text.
AtNextElement(c, d) ==
    /\ c \in CallOf /\ d \in CallOf /\ c.in = "text" /\ c.rest # <<>>
    /\ d.in = "text" /\ d.at = c.at /\ d.rest = Tail(c.rest)
\* What was left in a text is the pass of the entry, and what is left then.
Adds(asked, v, c, e, d) ==
    \A at \in Points : Left(at, asked, v)[c] = PassAt(at)[e] \o Left(at, asked, v)[d]

\* So it is when the element is a pass.
LEMMA LeftOfPass ==
    ASSUME NEW asked, NEW v, NEW c, NEW d, NEW e \in Entry, AtNextElement(c, d),
           Head(c.rest) # "default", e.pass = Head(c.rest), e.at = c.at
    PROVE  Adds(asked, v, c, e, d)
  <1> SUFFICES ASSUME NEW at \in Points
               PROVE  Left(at, asked, v)[c] = PassAt(at)[e] \o Left(at, asked, v)[d]
    BY DEF Adds
  <1> USE DEF AtNextElement
  <1>1. c.rest \in Seq(Elems) /\ c.rest \in Seq(Names)
    <2>1. c.rest \in Seq(Elems)
      BY DEF CallOf, RestOK
    <2> QED BY <2>1, NamesIn DEF Rows
  <1>2. Head(c.rest) \in Names /\ c.rest = <<Head(c.rest)>> \o Tail(c.rest)
    BY <1>1, HeadAndTail, HeadOnTail
  <1>3. PICK L : L = Left(at, asked, v)
    OBVIOUS
  <1>4. PassAt(at)[e] = IF c.at = at THEN <<Head(c.rest)>> ELSE <<>>
    BY DEF PassAt
  <1>5. CASE c.at = at /\ at = "caller"
    <2>1. L[c] = Along(Keep, c.rest) /\ L[d] = Along(Keep, Tail(c.rest))
      BY <1>3, <1>5, LeftIs
    <2>2. <<Head(c.rest)>> = Keep[Head(c.rest)]
      BY <1>2 DEF Keep
    <2>3. PICK u : u = <<Head(c.rest)>>
      OBVIOUS
    <2>4. Along(Keep, c.rest) = u \o Along(Keep, Tail(c.rest))
      <3>1. PICK h, r : h = Keep /\ r = c.rest
        OBVIOUS
      <3>2. h \in [Names -> Rows] /\ r \in Seq(Names) /\ r # <<>> /\ u = h[Head(r)]
        BY <1>1, <2>2, <2>3, <3>1, KeepType
      <3>3. Along(h, r) = u \o Along(h, Tail(r))
        BY ONLY <3>2, AlongHead
      <3> QED BY <3>1, <3>3
    <2> QED BY <1>3, <1>4, <1>5, <2>1, <2>3, <2>4
  <1>6. CASE c.at = at /\ at # "caller"
    <2>1. L[c] = c.rest /\ L[d] = Tail(c.rest)
      BY <1>3, <1>6, LeftIs
    <2> QED BY <1>2, <1>3, <1>4, <1>6, <2>1
  <1>7. CASE c.at # at
    <2>1. L[c] = <<>> /\ L[d] = <<>>
      BY <1>3, <1>7, LeftIs
    <2> QED BY <1>3, <1>4, <1>7, <2>1, RowConcat
  <1> QED BY <1>5, <1>6, <1>7

\* A default pipeline is no pass of the text that names it, if a caller's.
LEMMA LeftOfDefault ==
    ASSUME NEW asked, NEW v, NEW at \in Points, NEW c, NEW d, AtNextElement(c, d),
           at = "caller" \/ c.at = "caller", Head(c.rest) = "default"
    PROVE  Left(at, asked, v)[c] = Left(at, asked, v)[d]
  <1> USE DEF AtNextElement
  <1>1. c.rest \in Seq(Names)
    <2>1. c.rest \in Seq(Elems)
      BY DEF CallOf, RestOK
    <2> QED BY <2>1, NamesIn DEF Rows
  <1>2. PICK L : L = Left(at, asked, v)
    OBVIOUS
  <1>3. CASE c.at = at
    <2>1. L[c] = Along(Keep, c.rest) /\ L[d] = Along(Keep, Tail(c.rest))
      BY <1>2, <1>3, LeftIs
    <2>2. PICK u : u = <<>>
      OBVIOUS
    <2>3. u = Keep[Head(c.rest)]
      BY <1>1, <2>2, HeadAndTail DEF Keep
    <2>4. Along(Keep, c.rest) = u \o Along(Keep, Tail(c.rest))
      <3>1. PICK h, r : h = Keep /\ r = c.rest
        OBVIOUS
      <3>2. h \in [Names -> Rows] /\ r \in Seq(Names) /\ r # <<>> /\ u = h[Head(r)]
        BY <1>1, <2>3, <3>1, KeepType
      <3>3. Along(h, r) = u \o Along(h, Tail(r))
        BY ONLY <3>2, AlongHead
      <3> QED BY <3>1, <3>3
    <2>5. Along(Keep, Tail(c.rest)) \in Rows
      BY <1>1, HeadAndTail, KeepType, AlongType
    <2> QED BY <1>2, <2>1, <2>2, <2>4, <2>5, RowConcat
  <1>4. CASE c.at # at
    BY <1>2, <1>4, LeftIs
  <1> QED BY <1>3, <1>4

\* A call at its end adds nothing.
LEMMA NothingLeft ==
    ASSUME NEW asked, NEW v, NEW at \in Points, NEW c \in CallOf, c.rest = <<>>
    PROVE  Left(at, asked, v)[c] = <<>>
  <1>1. c.in \in {"text", "callbacks", "pipeline"}
    BY DEF CallOf, RestOK
  <1> QED BY <1>1, AlongEmpty, LeftIs

-----------------------------------------------------------------------------
(***************************************************************************)
(* The invariant of the building.                                          *)
(***************************************************************************)
\* The passes a manager is to have from a point in the end, as far as its
\* pipelines are known by now.
Due(at) ==
    IF at = "caller" THEN Kept(Accepted(pm.text, pm.kind = "text"))
    ELSE IF version >= Since[at] THEN Times(Pipelines, PerPipeline(at)) ELSE <<>>
\* A pipeline that includes itself is never built to its end.
Counts(at) == IF at = "caller" THEN pm.text # None ELSE IncludesItself => ~ Optimises
\* What it has already, and what the calls in progress still add.
Gathered(at) == Along(PassAt(at), pm.entries) \o Backwards(LeftAt(at), todo)
\* While a manager is being built, the passes of a point are always there or
\* still to come, each once and in order.
GatheredOK == phase = "building" => \A at \in Points : Counts(at) => Gathered(at) = Due(at)
\* Once it is built they are there.
BuiltOK ==
    phase \in {"ready", "running"} =>
        /\ \A ep \in EPs :
            BuiltFor(ep) = IF version >= Since[ep] THEN Times(Pipelines, PerPipeline(ep)) ELSE <<>>
        /\ pm.text # None => BuiltFor("caller") = Kept(pm.text.elems)
\* The invariant.
AskedOK == GatheredOK /\ BuiltOK

\* What the innermost call, the same when it has gone on, and the call it makes
\* still add, for the h that says it.
StepValues(h, inner, u, v, w) ==
    /\ CallsOK /\ todo # <<>> /\ Call.rest # <<>>
    /\ h \in [CallOf -> Rows] /\ inner \in CallOf
    /\ u = h[Call] /\ v = h[Step[Len(todo)]] /\ w = h[inner]
\* What the calls that the innermost one is in still add is b, before and after.
Behind(h, inner, u, v, w, b) ==
    /\ b \in Rows
    /\ Backwards(h, todo) = u \o b
    /\ Backwards(h, Step) = v \o b
    /\ Backwards(h, Append(Step, inner)) = w \o (v \o b)
    /\ Len(todo) = 1 => b = <<>>

\* So it is whenever the innermost call goes on.
LEMMA BackStep ==
    ASSUME NEW h, NEW inner, NEW u, NEW v, NEW w, StepValues(h, inner, u, v, w)
    PROVE  \E b : Behind(h, inner, u, v, w, b)
  <1> USE DEF StepValues
  <1>1. PICK f, c, d, s, b : /\ f = Front(todo) /\ c = Call /\ d = Step[Len(todo)] /\ s = Step
                             /\ b = Backwards(h, f)
    OBVIOUS
  <1>2. f \in Seq(CallOf) /\ c \in CallOf /\ d \in CallOf /\ s = Append(f, d) /\ todo = Append(f, c)
    BY <1>1, CallsSplit, CallsAre, StepIs
  <1>3. s \in Seq(CallOf)
    BY <1>2, AppendProperties
  <1>4. b \in Rows
    BY <1>1, <1>2, AlongType
  <1>5. Backwards(h, Append(f, c)) = u \o b
    <2>1. f \in Seq(CallOf) /\ c \in CallOf /\ h \in [CallOf -> Rows] /\ u = h[c]
      BY <1>1, <1>2
    <2>2. Backwards(h, Append(f, c)) = u \o Backwards(h, f)
      BY ONLY <2>1, BackwardsAppend
    <2> QED BY <1>1, <2>2
  <1>6. Backwards(h, Append(f, d)) = v \o b
    <2>1. f \in Seq(CallOf) /\ d \in CallOf /\ h \in [CallOf -> Rows] /\ v = h[d]
      BY <1>1, <1>2
    <2>2. Backwards(h, Append(f, d)) = v \o Backwards(h, f)
      BY ONLY <2>1, BackwardsAppend
    <2> QED BY <1>1, <2>2
  <1>7. Backwards(h, Append(s, inner)) = w \o Backwards(h, s)
    <2>1. s \in Seq(CallOf) /\ inner \in CallOf /\ h \in [CallOf -> Rows] /\ w = h[inner]
      BY <1>3
    <2> QED BY ONLY <2>1, BackwardsAppend
  <1>8. Len(todo) = 1 => b = <<>>
    <2>1. ASSUME Len(todo) = 1 PROVE f = <<>>
      <3>1. Len(f) = 0
        BY <1>1, <2>1, CallsSplit
      <3> QED BY <1>2, <3>1, EmptySeq
    <2> QED BY <1>1, <2>1, AlongEmpty
  <1>9. Behind(h, inner, u, v, w, b)
    BY ONLY <1>1, <1>2, <1>4, <1>5, <1>6, <1>7, <1>8 DEF Behind
  <1> QED BY ONLY <1>9

\* A call that adds nothing can return.
LEMMA BackReturn ==
    ASSUME CallsOK, todo # <<>>, NEW h, h \in [CallOf -> Rows], h[Call] = <<>>
    PROVE  Backwards(h, Front(todo)) = Backwards(h, todo)
  <1>1. PICK f, c, u : f = Front(todo) /\ c = Call /\ u = h[c]
    OBVIOUS
  <1>2. f \in Seq(CallOf) /\ c \in CallOf /\ todo = Append(f, c)
    BY <1>1, CallsSplit, CallsAre
  <1>3. Backwards(h, Append(f, c)) = u \o Backwards(h, f)
    <2>1. f \in Seq(CallOf) /\ c \in CallOf /\ h \in [CallOf -> Rows] /\ u = h[c]
      BY <1>1, <1>2
    <2> QED BY ONLY <2>1, BackwardsAppend
  <1>4. Backwards(h, f) \in Rows
    BY <1>2, AlongType
  <1> QED BY <1>1, <1>2, <1>3, <1>4, RowConcat

\* No entry of LLVM's own is from a point or from the caller.
LEMMA OwnEntries ==
    ASSUME NEW at \in Points
    PROVE  /\ \A level \in LLVMLevel : PassAt(at)[Optimise(level)] = <<>>
           /\ PassAt(at)[SizeAttr] = <<>>
  <1>1. at # None
    BY NoneAssumption DEF Points
  <1>2. \A level : Optimise(level).at = None
    BY DEF Optimise
  <1>3. SizeAttr.at = None
    BY DEF SizeAttr
  <1> QED BY <1>1, <1>2, <1>3, EntryTypes DEF PassAt

\* The manager as rows, at any moment of its building.
LEMMA ManagerNow ==
    ASSUME TypeOK, pm # None
    PROVE  /\ pm \in PassManager /\ pm.entries \in Seq(Entry) /\ pm.reached \in Seq(EPs)
           /\ \A ep \in EPs : pm.asked.eps[ep] \in Seq(Text)
           /\ pm.asked.eps \in [EPs -> Seq(Text)] /\ version \in Nat
           /\ \A at \in Points : LeftAt(at) \in [CallOf -> Rows]
           /\ \A at : Along(PassAt(at), pm.entries) \in Rows
           /\ \A at : BuiltFor(at) = Along(PassAt(at), pm.entries)
           /\ \A ep \in EPs : Passes(ep) = Along(OfText(ep), pm.asked.eps[ep]) /\ Passes(ep) \in Rows
           /\ \A ep \in EPs : PerPipeline(ep) = Along(Here(ep, Passes(ep)), pm.reached)
           /\ \A ep \in EPs : PerPipeline(ep) \in Rows
           /\ Pipelines = Count(pm.entries) /\ Pipelines \in Nat
  <1>1. /\ pm \in PassManager /\ pm.entries \in Seq(Entry) /\ pm.reached \in Seq(EPs)
        /\ pm.asked.eps \in [EPs -> Seq(Text)] /\ version \in Nat
    BY BoundAssumption, ManagerFields DEF TypeOK
  <1>2. \A ep \in EPs : pm.asked.eps[ep] \in Seq(Text)
    BY <1>1
  <1>3. \A at \in Points : LeftAt(at) \in [CallOf -> Rows]
    BY <1>1, LeftType DEF LeftAt
  <1>4. ASSUME NEW at
        PROVE  Along(PassAt(at), pm.entries) \in Rows /\ BuiltFor(at) = Along(PassAt(at), pm.entries)
    BY <1>1, PassAtType, AlongType, EntriesRow DEF BuiltFor
  <1>5. ASSUME NEW ep \in EPs
        PROVE  Passes(ep) = Along(OfText(ep), pm.asked.eps[ep]) /\ Passes(ep) \in Rows
    <2>1. Passes(ep) = Along(OfText(ep), pm.asked.eps[ep])
      BY <1>2, TextsRow DEF Passes
    <2>2. Along(OfText(ep), pm.asked.eps[ep]) \in Rows
      BY <1>2, OfTextType, AlongType
    <2> QED BY <2>1, <2>2
  <1>6. Pipelines = Count(pm.entries)
    BY DEF Pipelines, Count
  <1>7. Count(pm.entries) \in Nat
    <2>1. SizeAttr \in Entry
      BY EntryTypes
    <2> QED BY <1>1, <2>1, CountAppend
  <1>8. ASSUME NEW ep \in EPs
        PROVE  PerPipeline(ep) = Along(Here(ep, Passes(ep)), pm.reached) /\ PerPipeline(ep) \in Rows
    <2>1. PerPipeline(ep) = Along(Here(ep, Passes(ep)), pm.reached)
      BY <1>1, PointsRow DEF PerPipeline
    <2>2. Along(Here(ep, Passes(ep)), pm.reached) \in Rows
      BY <1>1, <1>5, HereType, AlongType
    <2> QED BY <2>1, <2>2
  <1> QED BY <1>1, <1>2, <1>3, <1>4, <1>5, <1>6, <1>7, <1>8

\* What the goal depends on.
LEMMA SameGoal ==
    ASSUME SameManager, pm'.kind = pm.kind
    PROVE  /\ \A at : LeftAt(at)' = LeftAt(at) /\ Passes(at)' = Passes(at)
           /\ \A at : PerPipeline(at)' = PerPipeline(at)
           /\ version' = version
           /\ Due("caller")' = Due("caller")
           /\ Counts("caller")' <=> Counts("caller")
           /\ \A ep : InForce(ep)' <=> InForce(ep)
           /\ IncludesItself' <=> IncludesItself
  <1>1. \A at : LeftAt(at)' = LeftAt(at) /\ Passes(at)' = Passes(at)
    BY DEF SameManager, LeftAt, Passes
  <1>2. Due("caller")' = Due("caller")
    BY DEF SameManager, Due
  <1>3. Counts("caller")' <=> Counts("caller")
    BY DEF SameManager, Counts
  <1>4. \A at : PerPipeline(at)' = PerPipeline(at)
    BY <1>1 DEF SameManager, PerPipeline
  <1> QED BY <1>1, <1>2, <1>3, <1>4, SameLoops DEF SameManager

\* Nothing of it changes when the manager does not.
LEMMA SameGoals ==
    ASSUME version' = version, pm' = pm
    PROVE  \A at : /\ LeftAt(at)' = LeftAt(at) /\ Due(at)' = Due(at)
                   /\ Counts(at)' <=> Counts(at)
  <1>1. SameManager
    BY DEF SameManager
  <1>2. Optimises' = Optimises /\ Pipelines' = Pipelines
    BY DEF Optimises, Pipelines
  <1> QED BY <1>1, <1>2, SameGoal DEF Due, Counts

-----------------------------------------------------------------------------
(***************************************************************************)
(* What is asked for, action by action.                                    *)
(***************************************************************************)
\* A point reached or a text begun: what was left in one call is left in two.
LEMMA PushGathers ==
    ASSUME TypeOK, OptionsInv, AskedOK, phase = "building", todo # <<>>, Call.rest # <<>>,
           version' = version, pm' = pm, NEW inner \in CallOf,
           \/ phase' = "building" /\ todo' = Append(Step, inner)
           \/ phase' = "crashed" /\ todo' = todo,
           HandsOn(pm.asked, version, Call, inner, Step[Len(todo)])
    PROVE  AskedOK'
  <1>1. pm # None /\ CallsOK
    BY IdleFacts DEF OptionsInv
  <1>2. CASE phase' = "crashed" /\ todo' = todo
    BY <1>2 DEF AskedOK, GatheredOK, BuiltOK
  <1>3. CASE phase' = "building" /\ todo' = Append(Step, inner)
    <2>1. ASSUME NEW at \in Points, Counts(at)' PROVE Gathered(at)' = Due(at)'
      <3>1. PICK h, u, v, w : /\ h = LeftAt(at) /\ u = h[Call] /\ v = h[Step[Len(todo)]]
                              /\ w = h[inner]
        OBVIOUS
      <3>2. h \in [CallOf -> Rows] /\ w \in Rows /\ v \in Rows /\ u = w \o v
        <4>1. Step[Len(todo)] \in CallOf
          BY <1>1, StepIs
        <4>2. h \in [CallOf -> Rows]
          BY <1>1, <3>1, ManagerNow
        <4> QED BY <3>1, <4>1, <4>2 DEF HandsOn, LeftAt
      <3>3. PICK b : Behind(h, inner, u, v, w, b)
        <4>1. StepValues(h, inner, u, v, w)
          BY <1>1, <3>1, <3>2 DEF StepValues
        <4> QED BY ONLY <4>1, BackStep
      <3>4. (w \o v) \o b = w \o (v \o b)
        BY <3>2, <3>3, RowConcat DEF Behind
      <3>5. LeftAt(at)' = h /\ Due(at)' = Due(at) /\ Counts(at)
        BY <2>1, <3>1, SameGoals
      <3>6. Gathered(at)' = Gathered(at)
        BY <1>3, <3>1, <3>2, <3>3, <3>4, <3>5 DEF Gathered, Behind
      <3> QED BY <3>5, <3>6 DEF AskedOK, GatheredOK
    <2> QED BY <1>3, <2>1 DEF AskedOK, GatheredOK, BuiltOK
  <1> QED BY <1>2, <1>3

\* LLVM at a point.
LEMMA ReachPointAsked == TypeOK /\ OptionsInv /\ AskedOK /\ ReachPoint => AskedOK'
  <1> SUFFICES ASSUME TypeOK, OptionsInv, AskedOK, ReachPoint PROVE AskedOK'
    OBVIOUS
  <1>1. /\ CallsOK /\ OriginOK /\ phase = "building" /\ todo # <<>>
        /\ Call.in = "pipeline" /\ Call.rest # <<>> /\ version' = version /\ pm' = pm
    BY DEF OptionsInv, ReachPoint
  <1>2. pm # None /\ pm \in PassManager
    BY <1>1, IdleFacts
  <1>3. PICK ep, texts : ep = Head(Call.rest) /\ texts = Callbacks(pm.asked.eps, ep)
    OBVIOUS
  <1>4. PICK inner : inner = AtPoint(ep, texts)
    OBVIOUS
  <1>5. Enter(inner)
    BY <1>3, <1>4 DEF ReachPoint
  <1>6. ep \in EPs
    BY <1>1, <1>3, Innermost, RestOfCall
  <1>7. texts \in Seq(Text)
    BY <1>2, <1>3, <1>6, ManagerFields, EmptySeq DEF Callbacks
  <1>8. inner.in = "callbacks" /\ inner.at = ep /\ inner.rest = texts /\ inner \in CallOf
    BY <1>4, <1>6, <1>7 DEF AtPoint, Frame, CallOf, RestOK
  <1>9. \/ phase' = "building" /\ todo' = Append(Step, inner)
        \/ phase' = "crashed" /\ todo' = todo
    BY <1>1, <1>5, EnterFacts
  <1>10. PICK d : d = Step[Len(todo)]
    OBVIOUS
  <1>11. d \in CallOf /\ d.in = "pipeline" /\ d.rest = Tail(Call.rest) /\ Call \in CallOf
    BY <1>1, <1>10, StepIs, StepFacts, CallsSplit
  <1>12. pm.asked.eps \in [EPs -> Seq(Text)] /\ version \in Nat
    BY <1>2, ManagerNow
  <1>13. inner.rest = IF version >= Since[ep] THEN pm.asked.eps[ep] ELSE <<>>
    BY <1>3, <1>8 DEF Callbacks
  <1>14. HandsOn(pm.asked, version, Call, inner, d)
    <2>1. AtNextPoint(pm.asked, version, Call, inner, d)
      BY <1>1, <1>3, <1>8, <1>11, <1>12, <1>13 DEF AtNextPoint
    <2> QED BY ONLY <2>1, LeftAtPoint
  <1> QED BY <1>1, <1>8, <1>9, <1>10, <1>14, PushGathers

\* A callback at its text.
LEMMA CallBackAsked == TypeOK /\ OptionsInv /\ AskedOK /\ CallBack => AskedOK'
  <1> SUFFICES ASSUME TypeOK, OptionsInv, AskedOK, CallBack PROVE AskedOK'
    OBVIOUS
  <1>1. /\ CallsOK /\ OriginOK /\ phase = "building" /\ todo # <<>>
        /\ Call.in = "callbacks" /\ Call.rest # <<>> /\ version' = version /\ pm' = pm
    BY DEF OptionsInv, CallBack
  <1>2. pm # None
    BY <1>1, IdleFacts
  <1>3. PICK elems : elems = Accepted(Head(Call.rest), Call.at \in ModuleEPs)
    OBVIOUS
  <1>4. PICK inner : inner = InText(Call.at, elems)
    OBVIOUS
  <1>5. Enter(inner)
    BY <1>3, <1>4 DEF CallBack
  <1>6. Head(Call.rest) \in Text /\ Call.at \in EPs
    BY <1>1, Innermost, RestOfCall DEF RestOK
  <1>7. elems \in Seq(Elems)
    <2>1. (Call.at \in ModuleEPs) \in BOOLEAN
      OBVIOUS
    <2> QED BY <1>3, <1>6, <2>1, AcceptedElems
  <1>8. inner.in = "text" /\ inner.at = Call.at /\ inner.rest = elems /\ inner \in CallOf
    BY <1>4, <1>6, <1>7 DEF InText, Frame, CallOf, RestOK
  <1>9. \/ phase' = "building" /\ todo' = Append(Step, inner)
        \/ phase' = "crashed" /\ todo' = todo
    BY <1>1, <1>5, EnterFacts
  <1>10. PICK d : d = Step[Len(todo)]
    OBVIOUS
  <1>11. /\ d \in CallOf /\ d.in = "callbacks" /\ d.at = Call.at /\ d.rest = Tail(Call.rest)
         /\ Call \in CallOf
    BY <1>1, <1>10, StepIs, StepFacts, CallsSplit
  <1>12. pm.asked.eps \in [EPs -> Seq(Text)]
    BY <1>2, ManagerNow
  <1>13. HandsOn(pm.asked, version, Call, inner, d)
    <2>1. InNextText(pm.asked, Call, inner, d)
      BY <1>1, <1>3, <1>8, <1>11, <1>12 DEF InNextText
    <2> QED BY ONLY <2>1, LeftInCallback
  <1> QED BY <1>1, <1>8, <1>9, <1>10, <1>13, PushGathers

\* A call at its end.
LEMMA ReturnAsked == TypeOK /\ OptionsInv /\ AskedOK /\ Return => AskedOK'
  <1> SUFFICES ASSUME TypeOK, OptionsInv, AskedOK, Return PROVE AskedOK'
    OBVIOUS
  <1>1. /\ CallsOK /\ phase = "building" /\ phase' = "building" /\ todo # <<>> /\ Call.rest = <<>>
        /\ version' = version /\ pm' = pm /\ todo' = Front(todo)
    BY DEF OptionsInv, Return
  <1>2. pm # None
    BY <1>1, IdleFacts
  <1>3. ASSUME NEW at \in Points, Counts(at)' PROVE Gathered(at)' = Due(at)'
    <2>1. PICK h : h = LeftAt(at)
      OBVIOUS
    <2>2. h \in [CallOf -> Rows]
      BY <1>2, <2>1, ManagerNow
    <2>3. h[Call] = <<>>
      BY <1>1, <2>1, CallsSplit, NothingLeft DEF LeftAt
    <2>4. Backwards(h, Front(todo)) = Backwards(h, todo)
      BY <1>1, <2>2, <2>3, BackReturn
    <2>5. LeftAt(at)' = h /\ Due(at)' = Due(at) /\ Counts(at)
      BY <1>1, <1>3, <2>1, SameGoals
    <2>6. Gathered(at)' = Gathered(at)
      BY <1>1, <2>1, <2>4, <2>5 DEF Gathered
    <2> QED BY <1>1, <2>5, <2>6 DEF AskedOK, GatheredOK
  <1> QED BY <1>1, <1>3 DEF AskedOK, GatheredOK, BuiltOK

\* What one more entry adds to the manager.
EntryAdds(e) ==
    /\ pm' # None /\ pm' \in PassManager /\ pm'.entries \in Seq(Entry)
    /\ SameManager /\ pm'.kind = pm.kind
    /\ Pipelines' = IF e.pass = "optimise" THEN Pipelines + 1 ELSE Pipelines
    /\ Optimises \/ e.pass = "optimise" => Optimises'

\* So does any entry that is added.
LEMMA EntryAdded ==
    ASSUME TypeOK, pm # None, NEW e \in Entry, version' = version,
           pm' = [pm EXCEPT !.entries = Append(@, e)]
    PROVE  EntryAdds(e)
  <1>1. pm \in PassManager /\ pm.entries \in Seq(Entry)
    BY ManagerNow
  <1>2. PICK s, m, m2 : s = Append(pm.entries, e) /\ m = pm /\ m2 = pm'
    OBVIOUS
  <1>3. s \in Seq(Entry) /\ m \in PassManager /\ m2 = [m EXCEPT !.entries = s]
    BY <1>1, <1>2, EntryAppended
  <1>4. /\ m2 \in PassManager /\ m2.entries = s /\ m2.kind = m.kind /\ m2.text = m.text
        /\ m2.reached = m.reached /\ m2.asked = m.asked
    BY <1>3, EntriesWritten
  <1>5. m2 # None
    BY <1>4, NoneAssumption
  <1>6. Count(s) = IF e.pass = "optimise" THEN Count(pm.entries) + 1 ELSE Count(pm.entries)
    BY <1>1, <1>2, CountAppend
  <1>7. Pipelines' = Count(s)
    BY <1>2, <1>4 DEF Pipelines, Count
  <1>8. Pipelines = Count(pm.entries)
    BY DEF Pipelines, Count
  <1>9. Optimises \/ e.pass = "optimise" => Optimises'
    <2>1. /\ Len(s) = Len(pm.entries) + 1 /\ Len(pm.entries) \in Nat
          /\ DOMAIN pm.entries = 1 .. Len(pm.entries) /\ DOMAIN s = 1 .. Len(s)
          /\ \A i \in 1 .. Len(pm.entries) : s[i] = pm.entries[i]
          /\ s[Len(pm.entries) + 1] = e
      BY <1>1, <1>2, <1>3, AppendProperties, LenProperties
    <2>2. Len(pm.entries) + 1 \in DOMAIN s /\ DOMAIN pm.entries \subseteq DOMAIN s
      BY <2>1
    <2>3. Optimises \/ e.pass = "optimise" => \E i \in DOMAIN s : s[i].pass = "optimise"
      BY <2>1, <2>2 DEF Optimises
    <2> QED BY <1>2, <1>4, <2>3 DEF Optimises
  <1> QED BY <1>2, <1>3, <1>4, <1>5, <1>6, <1>7, <1>8, <1>9 DEF EntryAdds, SameManager

\* The row of the entry comes behind those there are.
LEMMA EntryAlong ==
    ASSUME TypeOK, pm # None, NEW e \in Entry, pm' = [pm EXCEPT !.entries = Append(@, e)],
           NEW at, NEW p, p = PassAt(at)[e]
    PROVE  Along(PassAt(at), pm'.entries) = Along(PassAt(at), pm.entries) \o p
  <1>1. pm \in PassManager /\ pm.entries \in Seq(Entry)
    BY ManagerNow
  <1>2. PICK s, t, h : s = pm.entries /\ t = Append(pm.entries, e) /\ h = PassAt(at)
    OBVIOUS
  <1>3. pm'.entries = t
    BY <1>1, <1>2 DEF PassManager
  <1>4. s \in Seq(Entry) /\ e \in Entry /\ h \in [Entry -> Rows] /\ p = h[e]
    BY <1>1, <1>2, PassAtType
  <1>5. Along(h, Append(s, e)) = Along(h, s) \o p
    BY ONLY <1>4, AlongAppend
  <1> QED BY <1>2, <1>3, <1>5

\* A pass is added: what was left is now in the manager.
LEMMA PassAsked ==
    ASSUME TypeOK, OptionsInv, AskedOK, phase = "building", phase' = "building", todo # <<>>,
           Call.in = "text", Call.rest # <<>>, Head(Call.rest) # "default",
           version' = version, todo' = Step, NEW e \in Entry, e.pass = Head(Call.rest),
           e.at = Call.at, e.pass # "optimise", pm' = [pm EXCEPT !.entries = Append(@, e)]
    PROVE  AskedOK'
  <1>1. pm # None /\ CallsOK
    BY IdleFacts DEF OptionsInv
  <1>2. EntryAdds(e)
    BY <1>1, EntryAdded
  <1>3. /\ SameManager /\ pm'.kind = pm.kind /\ Pipelines' = Pipelines /\ (Optimises => Optimises')
        /\ pm'.reached = pm.reached
    BY <1>2 DEF EntryAdds, SameManager
  <1>4. PICK d : d = Step[Len(todo)]
    OBVIOUS
  <1>5. AtNextElement(Call, d)
    BY <1>1, <1>4, StepIs, StepFacts, CallsSplit DEF AtNextElement
  <1>6. Adds(pm.asked, version, Call, e, d)
    BY <1>5, LeftOfPass
  <1>7. Call \in CallOf /\ d \in CallOf
    BY <1>5 DEF AtNextElement
  <1>8. ASSUME NEW at \in Points, Counts(at)' PROVE Gathered(at)' = Due(at)'
    <2>1. PICK h, u, v, w, p, A : /\ h = LeftAt(at) /\ u = h[Call] /\ v = h[d] /\ w = h[Call]
                                  /\ p = PassAt(at)[e] /\ A = Along(PassAt(at), pm.entries)
      OBVIOUS
    <2>2. h \in [CallOf -> Rows] /\ A \in Rows
      BY <1>1, <2>1, ManagerNow
    <2>3. p \in Rows
      BY <2>1, PassAtType
    <2>4. v \in Rows /\ u = p \o v
      BY <1>6, <1>7, <2>1, <2>2 DEF Adds, LeftAt
    <2>5. PICK b : Behind(h, Call, u, v, w, b)
      <3>1. StepValues(h, Call, u, v, w)
        BY <1>1, <1>4, <1>7, <2>1, <2>2 DEF StepValues
      <3> QED BY ONLY <3>1, BackStep
    <2>6. b \in Rows /\ Backwards(h, todo) = u \o b /\ Backwards(h, Step) = v \o b
      BY <2>5 DEF Behind
    <2>7. Along(PassAt(at), pm'.entries) = A \o p
      BY <1>1, <2>1, EntryAlong
    <2>8. LeftAt(at)' = h
      BY <1>3, <2>1, SameGoal
    <2>9. Gathered(at)' = (A \o p) \o (v \o b)
      BY <2>6, <2>7, <2>8 DEF Gathered
    <2>10. Gathered(at) = A \o ((p \o v) \o b)
      BY <2>1, <2>4, <2>6 DEF Gathered
    <2>11. (A \o p) \o (v \o b) = A \o ((p \o v) \o b)
      <3>1. (A \o p) \o (v \o b) = A \o (p \o (v \o b))
        <4>1. PICK x : x = v \o b
          OBVIOUS
        <4>2. x \in Rows
          BY <2>4, <2>6, <4>1, RowConcat
        <4>3. (A \o p) \o x = A \o (p \o x)
          BY <2>2, <2>3, <4>2, RowConcat
        <4> QED BY <4>1, <4>3
      <3>2. (p \o v) \o b = p \o (v \o b)
        BY <2>3, <2>4, <2>6, RowConcat
      <3> QED BY <3>1, <3>2
    <2>12. Due(at)' = Due(at) /\ Counts(at)
      <3>1. CASE at = "caller"
        BY <1>3, <1>8, <3>1, SameGoal
      <3>2. CASE at # "caller"
        BY <1>3, <1>8, <3>2, SameGoal DEF Due, Counts
      <3> QED BY <3>1, <3>2
    <2> QED BY <2>9, <2>10, <2>11, <2>12 DEF AskedOK, GatheredOK
  <1> QED BY <1>8 DEF AskedOK, GatheredOK, BuiltOK

\* A default pipeline is added: its points are ahead, each with its passes.
LEMMA DefaultAsked ==
    ASSUME TypeOK, OptionsInv, AskedOK, phase = "building", todo # <<>>,
           Call.in = "text", Call.rest # <<>>, Head(Call.rest) = "default", version' = version,
           NEW inner, inner = Pipeline(pm.reached), NEW e, e = Optimise(Level(2, 0)),
           pm' = [pm EXCEPT !.entries = Append(@, e)],
           \/ phase' = "building" /\ todo' = Append(Step, inner)
           \/ phase' = "crashed" /\ todo' = todo
    PROVE  AskedOK'
  <1>1. pm # None /\ CallsOK /\ OriginOK /\ pm \in PassManager /\ version \in Nat
    BY IdleFacts, ManagerNow DEF OptionsInv
  <1>2. e \in Entry /\ e.pass = "optimise" /\ Level(2, 0) \in LLVMLevel
    BY EntryTypes DEF Level, LLVMLevel
  <1>3. EntryAdds(e)
    BY <1>1, <1>2, EntryAdded
  <1>4. /\ SameManager /\ pm'.kind = pm.kind /\ Pipelines' = Pipelines + 1 /\ Optimises'
        /\ pm'.reached = pm.reached /\ pm' # None
    BY <1>2, <1>3 DEF EntryAdds, SameManager
  <1>5. inner.in = "pipeline" /\ inner.rest = pm.reached /\ inner \in CallOf /\ inner \in Frame
    BY <1>1, ManagerFields DEF Pipeline, Frame, CallOf, RestOK
  <1>6. CASE phase' = "crashed" /\ todo' = todo
    BY <1>1, <1>4, <1>6 DEF AskedOK, GatheredOK, BuiltOK
  <1>7. CASE phase' = "building" /\ todo' = Append(Step, inner)
    <2>1. PICK d : d = Step[Len(todo)]
      OBVIOUS
    <2>2. AtNextElement(Call, d)
      BY <1>1, <2>1, StepIs, StepFacts, CallsSplit DEF AtNextElement
    <2>3. Call \in CallOf /\ d \in CallOf
      BY <2>2 DEF AtNextElement
    <2>4. ASSUME NEW at \in Points, Counts(at)' PROVE Gathered(at)' = Due(at)'
      <3>1. PICK h, u, v, w, A : /\ h = LeftAt(at) /\ u = h[Call] /\ v = h[d] /\ w = h[inner]
                                 /\ A = Along(PassAt(at), pm.entries)
        OBVIOUS
      <3>2. h \in [CallOf -> Rows] /\ A \in Rows
        BY <1>1, <3>1, ManagerNow
      <3>3. v \in Rows /\ w \in Rows /\ u \in Rows
        BY <1>5, <2>3, <3>1, <3>2
      <3>4. PICK b : Behind(h, inner, u, v, w, b)
        <4>1. StepValues(h, inner, u, v, w)
          BY <1>1, <1>5, <2>1, <3>1, <3>2 DEF StepValues
        <4> QED BY ONLY <4>1, BackStep
      <3>5. /\ b \in Rows /\ Backwards(h, todo) = u \o b
            /\ Backwards(h, Append(Step, inner)) = w \o (v \o b) /\ (Len(todo) = 1 => b = <<>>)
        BY <3>4 DEF Behind
      <3>6. Along(PassAt(at), pm'.entries) = A
        <4>1. PassAt(at)[e] = <<>>
          BY <1>2, OwnEntries
        <4>2. PICK p : p = <<>>
          OBVIOUS
        <4>3. Along(PassAt(at), pm'.entries) = A \o p
          BY <1>1, <1>2, <3>1, <4>1, <4>2, EntryAlong
        <4> QED BY <3>2, <4>2, <4>3, RowConcat
      <3>7. LeftAt(at)' = h
        BY <1>4, <3>1, SameGoal
      <3>8. Gathered(at)' = A \o (w \o (v \o b)) /\ Gathered(at) = A \o (u \o b)
        BY <1>7, <3>1, <3>5, <3>6, <3>7 DEF Gathered
      <3>9. CASE at = "caller"
        <4>1. Due(at)' = Due(at) /\ Counts(at)
          BY <1>4, <2>4, <3>9, SameGoal
        <4>2. u = v
          BY <2>2, <3>1, <3>9, LeftOfDefault DEF LeftAt
        <4>3. w = <<>>
          BY <1>5, <3>1, <3>9, LeftIs DEF LeftAt, Registered
        <4>4. v \o b \in Rows
          BY <3>3, <3>5, RowConcat
        <4>5. w \o (v \o b) = u \o b
          BY <4>2, <4>3, <4>4, RowConcat
        <4> QED BY <3>8, <4>1, <4>5 DEF AskedOK, GatheredOK
      <3>10. CASE at # "caller"
        <4>1. at \in EPs /\ ~ IncludesItself /\ Counts(at) /\ Due(at)' = IF version >= Since[at] THEN Times(Pipelines + 1, PerPipeline(at)) ELSE <<>>
          BY <1>4, <2>4, <3>10, SameGoal DEF Counts, Due, Points
        <4>2. Len(todo) = 1 /\ Call.at = "caller"
          <5>1. PICK n : n = Len(todo) /\ n \in Nat \ {0} /\ DOMAIN todo = 1 .. n /\ Call = todo[n]
            BY <1>1, Innermost
          <5>2. "default" \in Range(Call.rest)
            BY <1>1, Innermost, RestOfCall
          <5>3. OriginAt(n)
            BY <1>1, <5>1 DEF OriginOK
          <5>4. Call.at = "caller"
            BY <4>1, <5>1, <5>2, <5>3 DEF OriginAt
          <5> QED BY <1>1, <5>1, <5>4 DEF CallsOK
        <4>3. u = <<>> /\ v = <<>> /\ b = <<>>
          BY <2>2, <2>3, <3>1, <3>5, <3>10, <4>2, LeftIs DEF LeftAt, AtNextElement
        <4>4. w = IF version >= Since[at] THEN PerPipeline(at) ELSE <<>>
          <5>1. /\ Passes(at) = Along(OfText(at), pm.asked.eps[at])
                /\ PerPipeline(at) = Along(Here(at, Passes(at)), pm.reached)
            BY <1>1, <4>1, ManagerNow
          <5> QED BY <1>5, <3>1, <3>10, <5>1, LeftIs DEF LeftAt, Registered
        <4>5. Gathered(at)' = A \o w /\ Gathered(at) = A
          BY <3>2, <3>3, <3>8, <4>3, RowConcat
        <4>6. A = Due(at)
          BY <1>1, <4>1, <4>5 DEF AskedOK, GatheredOK
        <4>7. CASE version >= Since[at]
          <5>1. PICK n, s : n = Pipelines /\ s = PerPipeline(at)
            OBVIOUS
          <5>2. n \in Nat /\ s \in Rows
            BY <1>1, <4>1, <5>1, ManagerNow
          <5>3. Times(n + 1, s) = Times(n, s) \o s
            BY <5>2, TimesFacts
          <5>4. A = Times(n, s)
            BY <3>10, <4>6, <4>7, <5>1 DEF Due
          <5> QED BY <4>1, <4>4, <4>5, <4>7, <5>1, <5>3, <5>4
        <4>8. CASE ~ (version >= Since[at])
          <5>1. A = <<>> /\ w = <<>>
            BY <3>10, <4>4, <4>6, <4>8 DEF Due
          <5> QED BY <3>2, <4>1, <4>5, <4>8, <5>1, RowConcat
        <4> QED BY <4>7, <4>8
      <3> QED BY <3>9, <3>10
    <2> QED BY <1>7, <2>4 DEF AskedOK, GatheredOK, BuiltOK
  <1> QED BY <1>6, <1>7

\* The parser at an element.
LEMMA AddElementAsked == TypeOK /\ OptionsInv /\ AskedOK /\ AddElement => AskedOK'
  <1> SUFFICES ASSUME TypeOK, OptionsInv, AskedOK, AddElement PROVE AskedOK'
    OBVIOUS
  <1>1. /\ CallsOK /\ OriginOK /\ phase = "building" /\ todo # <<>>
        /\ Call.in = "text" /\ Call.rest # <<>> /\ version' = version
    BY DEF OptionsInv, AddElement
  <1>2. CASE Head(Call.rest) # "default"
    <2>1. PICK e : e = Named(Head(Call.rest), Call.at)
      OBVIOUS
    <2>2. Head(Call.rest) \in {"p", "q"} /\ Call.at \in EPs \cup {"caller"}
      BY <1>1, <1>2, Innermost, RestOfCall DEF Elems, RestOK
    <2>3. e \in Entry /\ e.pass # "optimise" /\ e.pass = Head(Call.rest) /\ e.at = Call.at
      BY <2>1, <2>2, EntryTypes DEF Named
    <2>4. pm' = [pm EXCEPT !.entries = Append(@, e)] /\ todo' = Step /\ phase' = "building"
      BY <1>1, <1>2, <2>1 DEF AddElement
    <2> QED BY <1>1, <1>2, <2>3, <2>4, PassAsked
  <1>3. CASE Head(Call.rest) = "default"
    <2>1. PICK inner, e : inner = Pipeline(pm.reached) /\ e = Optimise(Level(2, 0))
      OBVIOUS
    <2>2. pm' = [pm EXCEPT !.entries = Append(@, e)] /\ Enter(inner)
      BY <1>3, <2>1 DEF AddElement
    <2>3. \/ phase' = "building" /\ todo' = Append(Step, inner)
          \/ phase' = "crashed" /\ todo' = todo
      BY <1>1, <2>2, EnterFacts
    <2> QED BY <1>1, <1>3, <2>1, <2>2, <2>3, DefaultAsked
  <1> QED BY <1>2, <1>3

\* The only call in progress.
LEMMA OneCall ==
    ASSUME NEW h, NEW c \in CallOf, NEW t, h \in [CallOf -> Rows], t = h[c]
    PROVE  Backwards(h, <<c>>) = t
  <1>1. PICK s : s = <<>>
    OBVIOUS
  <1>2. s \in Seq(CallOf) /\ <<c>> = Append(s, c)
    BY <1>1
  <1>3. Backwards(h, Append(s, c)) = t \o Backwards(h, s)
    <2>1. s \in Seq(CallOf) /\ c \in CallOf /\ h \in [CallOf -> Rows] /\ t = h[c]
      BY <1>2
    <2> QED BY ONLY <2>1, BackwardsAppend
  <1>4. Backwards(h, s) = <<>> /\ t \in Rows
    BY <1>1, AlongEmpty
  <1> QED BY <1>2, <1>3, <1>4, RowConcat

\* The only entry.
LEMMA OneEntry ==
    ASSUME NEW e \in Entry, NEW at, NEW t, t = PassAt(at)[e]
    PROVE  Along(PassAt(at), <<e>>) = t
  <1>1. PICK s, h : s = <<>> /\ h = PassAt(at)
    OBVIOUS
  <1>2. s \in Seq(Entry) /\ <<e>> = Append(s, e) /\ h \in [Entry -> Rows]
    BY <1>1, PassAtType
  <1>3. Along(h, Append(s, e)) = Along(h, s) \o t
    <2>1. s \in Seq(Entry) /\ e \in Entry /\ h \in [Entry -> Rows] /\ t = h[e]
      BY <1>1, <1>2
    <2> QED BY ONLY <2>1, AlongAppend
  <1>4. Along(h, s) = <<>> /\ t \in Rows
    BY <1>1, <1>2, AlongEmpty
  <1> QED BY <1>1, <1>2, <1>3, <1>4, RowConcat

\* No entry, no optimisation.
LEMMA CountNone == Count(<<>>) = 0
  <1>1. {i \in DOMAIN <<>> : <<>>[i].pass = "optimise"} = {}
    OBVIOUS
  <1> QED BY <1>1, FS_EmptySet DEF Count

\* One entry that is an optimisation.
LEMMA CountOne ==
    ASSUME NEW e \in Entry, e.pass = "optimise"
    PROVE  Count(<<e>>) = 1
  <1>1. PICK s : s = <<>>
    OBVIOUS
  <1>2. s \in Seq(Entry) /\ <<e>> = Append(s, e) /\ Count(s) = 0
    BY <1>1, CountNone
  <1>3. Count(Append(s, e)) = Count(s) + 1
    BY <1>2, CountAppend
  <1>4. Count(Append(s, e)) = 1
    BY <1>2, <1>3
  <1> QED BY <1>2, <1>4

\* What does not touch the manager or its calls leaves the invariant alone.
LEMMA SameAsked ==
    ASSUME AskedOK, version' = version, pm' = pm, todo' = todo,
           phase' = phase \/ (phase \in {"ready", "running"} /\ phase' \in {"ready", "running"})
    PROVE  AskedOK'
  <1>1. GatheredOK'
    <2>1. ASSUME NEW at PROVE Gathered(at)' = Gathered(at)
      BY SameGoals DEF Gathered
    <2> QED BY <2>1, SameGoals DEF AskedOK, GatheredOK
  <1>2. BuiltOK'
    <2>1. /\ \A ep : PerPipeline(ep)' = PerPipeline(ep)
          /\ \A at : BuiltFor(at)' = BuiltFor(at)
          /\ Pipelines' = Pipelines
      BY DEF BuiltFor, Passes, PerPipeline, Pipelines
    <2> QED BY <2>1 DEF AskedOK, BuiltOK
  <1> QED BY <1>1, <1>2 DEF AskedOK

\* Without a manager there is nothing to ask.
LEMMA IdleAsked ==
    ASSUME phase' = "idle"
    PROVE  AskedOK'
  BY DEF AskedOK, GatheredOK, BuiltOK

\* The attribute pass in front is from no point.
LEMMA SizeAttrsAsked ==
    ASSUME NEW s \in Seq(Entry), NEW level
    PROVE  /\ Count(WithSizeAttrs(s, level)) = Count(s)
           /\ \A at \in Points : Along(PassAt(at), WithSizeAttrs(s, level)) = Along(PassAt(at), s)
  <1>1. PICK t : t = WithSizeAttrs(s, level)
    OBVIOUS
  <1>2. CASE t = <<SizeAttr>> \o s
    <2>1. SizeAttr \in Entry /\ SizeAttr.pass # "optimise"
      BY EntryTypes
    <2>2. Count(t) = Count(s)
      BY <1>2, <2>1, CountPrepend
    <2>3. ASSUME NEW at \in Points PROVE Along(PassAt(at), t) = Along(PassAt(at), s)
      <3>1. PICK S, h, e, n, m : /\ S = Entry /\ h = PassAt(at) /\ e = SizeAttr /\ n = h[e]
                                 /\ m = Map(h, s)
        OBVIOUS
      <3>2. e \in S /\ s \in Seq(S) /\ h \in [S -> Rows]
        BY <2>1, <3>1, PassAtType
      <3>3. Map(h, <<e>> \o s) = <<h[e]>> \o Map(h, s)
        BY ONLY <3>2, MapPrepend
      <3>4. n = <<>> /\ n \in Seq(Names)
        BY <3>1, OwnEntries, EmptySeq
      <3>5. m \in Seq(Seq(Names))
        BY <3>1, <3>2, MapIsSeq DEF Rows
      <3>6. FlattenSeq(<<n>> \o m) = n \o FlattenSeq(m)
        BY <3>4, <3>5, FlattenPrepend
      <3>7. FlattenSeq(m) \in Rows
        BY <3>5, FlattenType DEF Rows
      <3>8. FlattenSeq(<<n>> \o m) = FlattenSeq(m)
        BY <3>4, <3>6, <3>7, RowConcat
      <3> QED BY <1>2, <3>1, <3>3, <3>8 DEF Along
    <2> QED BY <1>1, <2>2, <2>3
  <1>3. CASE t = s
    BY <1>1, <1>3
  <1> QED BY <1>1, <1>2, <1>3 DEF WithSizeAttrs

\* The constructor returns: nothing is still to come, so all of it is there.
LEMMA FinishAsked == TypeOK /\ OptionsInv /\ AskedOK /\ Finish => AskedOK'
  <1> SUFFICES ASSUME TypeOK, OptionsInv, AskedOK, Finish PROVE AskedOK'
    OBVIOUS
  <1>1. /\ phase = "building" /\ todo = <<>> /\ todo' = <<>> /\ version' = version /\ CallsOK
    BY DEF OptionsInv, Finish
  <1>2. pm # None /\ pm \in PassManager /\ pm.entries \in Seq(Entry)
    BY <1>1, IdleFacts, ManagerFields
  <1>3. CASE phase' = "idle" /\ pm' = None
    BY <1>1, <1>3, IdleAsked
  <1>4. CASE /\ phase' = "ready" /\ pm' = [pm EXCEPT !.entries = WithSizeAttrs(@, pm.level)]
             /\ ~ (pm.text # None /\ Refused(pm.text, pm.kind = "text"))
    <2>1. PICK s, m, m2 : s = WithSizeAttrs(pm.entries, pm.level) /\ m = pm /\ m2 = pm'
      OBVIOUS
    <2>2. s \in Seq(Entry) /\ Count(s) = Count(pm.entries)
      BY <1>2, <2>1, SizeAttrsInFront, SizeAttrsAsked
    <2>3. m2 = [m EXCEPT !.entries = s] /\ m \in PassManager
      BY <1>2, <1>4, <2>1
    <2>4. /\ m2 \in PassManager /\ m2.entries = s /\ m2.kind = m.kind /\ m2.text = m.text
          /\ m2.reached = m.reached /\ m2.asked = m.asked
      BY <2>2, <2>3, EntriesWritten
    <2>5. SameManager /\ pm'.kind = pm.kind /\ pm'.entries = s
      BY <1>1, <2>1, <2>4 DEF SameManager
    <2>6. ASSUME NEW at \in Points, Counts(at) PROVE BuiltFor(at)' = Due(at)
      <3>1. BuiltFor(at)' = Along(PassAt(at), s)
        BY <2>2, <2>5, EntriesRow DEF BuiltFor
      <3>2. Along(PassAt(at), s) = Along(PassAt(at), pm.entries)
        BY <1>2, <2>1, SizeAttrsAsked
      <3>3. Along(PassAt(at), pm.entries) \in Rows /\ Backwards(LeftAt(at), todo) = <<>>
        BY <1>1, <1>2, ManagerNow, AlongEmpty
      <3>4. Gathered(at) = Along(PassAt(at), pm.entries)
        BY <3>3, RowConcat DEF Gathered
      <3> QED BY <1>1, <2>6, <3>1, <3>2, <3>4 DEF AskedOK, GatheredOK
    <2>7. ASSUME NEW ep \in EPs
          PROVE  BuiltFor(ep)' = IF version >= Since[ep] THEN Times(Pipelines', PerPipeline(ep)') ELSE <<>>
      <3>1. Counts(ep) /\ ep \in Points /\ ep # "caller"
        <4>1. ~ \E k \in DOMAIN todo : todo[k].in = "pipeline"
          BY <1>1
        <4> QED BY <1>1, <4>1, EPFacts DEF Counts, Points, OptionsInv, LoopOK
      <3>2. Pipelines' = Pipelines
        BY <2>2, <2>5 DEF Pipelines, Count
      <3>3. PerPipeline(ep)' = PerPipeline(ep)
        BY <2>5, SameGoal
      <3> QED BY <2>6, <3>1, <3>2, <3>3 DEF Due
    <2>8. pm'.text # None => BuiltFor("caller")' = Kept(pm'.text.elems)
      <3> SUFFICES ASSUME pm.text # None PROVE BuiltFor("caller")' = Kept(pm.text.elems)
        BY <2>5 DEF SameManager
      <3>1. Accepted(pm.text, pm.kind = "text") = pm.text.elems
        BY <1>4 DEF Accepted
      <3>2. "caller" \in Points /\ Counts("caller")
        BY DEF Points, Counts
      <3> QED BY <2>6, <3>1, <3>2 DEF Due
    <2>9. BuiltOK'
      BY <1>1, <2>7, <2>8 DEF BuiltOK
    <2> QED BY <1>4, <2>9 DEF AskedOK, GatheredOK
  <1> QED BY <1>3, <1>4 DEF Finish

\* A building that begins.
LEMMA BegunAsked ==
    ASSUME phase' = "building", \A at \in Points : Counts(at)' => Gathered(at)' = Due(at)'
    PROVE  AskedOK'
  BY DEF AskedOK, GatheredOK, BuiltOK

\* The options a manager is built from, given or default.
LEMMA DerefType == TypeOK => Deref(options) \in Handle /\ Deref(options).eps \in [EPs -> Seq(Text)]
  BY DefaultType DEF TypeOK, Deref, Handle

\* A default pipeline begins with all its points ahead, or is empty.
LEMMA CreateAsked ==
    ASSUME TypeOK, NEW kind \in UsedKinds, NEW level \in UsedLevels,
           NEW reached \in UsedRoutes, Create(kind, level, reached)
    PROVE  AskedOK'
  <1>1. reached \in Seq(EPs) /\ level \in OptLevels
    BY RouteAssumption, BoundAssumption
  <1>2. PICK lvl, e, c, o : /\ lvl = MapOptLevel(ToC[level]) /\ e = Optimise(lvl)
                            /\ c = Pipeline(reached) /\ o = Deref(options)
    OBVIOUS
  <1>3. PICK empty \in BOOLEAN : empty = (kind = "default" /\ lvl.speed = 0 /\ version < 12)
    OBVIOUS
  <1>4. PICK entries : entries = IF empty THEN <<>> ELSE <<e>>
    OBVIOUS
  <1>5. /\ phase' = "building"
        /\ pm' = [kind |-> kind, level |-> level, text |-> None, reached |-> reached,
                  asked |-> o, entries |-> entries]
        /\ todo' = IF empty THEN <<>> ELSE <<c>>
        /\ version' = version
    BY <1>2, <1>3, <1>4 DEF Create
  <1>6. lvl \in LLVMLevel /\ e \in Entry /\ e.pass = "optimise"
    BY <1>1, <1>2, LevelType, EntryTypes
  <1>7. c \in CallOf /\ c.in = "pipeline" /\ c.rest = reached
    BY <1>1, <1>2 DEF Pipeline, CallOf, Frame, RestOK
  <1>8. o.eps \in [EPs -> Seq(Text)]
    BY <1>2, DerefType
  <1>9. /\ pm' # None /\ pm'.reached = reached /\ pm'.asked = o /\ pm'.text = None
        /\ pm'.entries = entries /\ entries \in Seq(Entry)
    <2>1. entries \in Seq(Entry)
      BY <1>4, <1>6, EmptySeq
    <2>2. pm' \in PassManager
      <3>1. o \in Handle /\ kind \in Kinds /\ level \in OptLevels
        BY <1>1, <1>2, DerefType, BoundAssumption
      <3> QED BY <1>1, <1>5, <2>1, <3>1 DEF PassManager
    <2> QED BY <1>5, <2>1, <2>2, NoneAssumption
  <1>10. ASSUME NEW at \in Points, Counts(at)' PROVE Gathered(at)' = Due(at)'
    <2>1. at \in EPs /\ at # "caller"
      BY <1>9, <1>10 DEF Counts, Points
    <2>2. PICK h, w, s : h = Left(at, o, version) /\ w = h[c] /\ s = PerPipeline(at)'
      OBVIOUS
    <2>3. h \in [CallOf -> Rows] /\ LeftAt(at)' = h
      BY <1>5, <1>8, <1>9, <2>2, LeftType DEF LeftAt
    <2>4. PICK t : t = Passes(at)'
      OBVIOUS
    <2>5. t = Along(OfText(at), o.eps[at]) /\ t \in Rows
      <3>1. o.eps[at] \in Seq(Text)
        BY <1>8, <2>1
      <3>2. t = Along(OfText(at), o.eps[at])
        BY <1>9, <2>4, <3>1, TextsRow DEF Passes
      <3> QED BY <3>1, <3>2, OfTextType, AlongType
    <2>6. s = Along(Here(at, t), reached) /\ s \in Rows
      <3>1. s = Along(Here(at, t), reached)
        BY <1>1, <1>9, <2>2, <2>4, PointsRow DEF PerPipeline
      <3> QED BY <1>1, <2>5, <3>1, HereType, AlongType
    <2>7. Due(at)' = IF version >= Since[at] THEN Times(Pipelines', s) ELSE <<>>
      BY <1>5, <2>1, <2>2 DEF Due
    <2>8. Pipelines' = Count(entries)
      BY <1>9 DEF Pipelines, Count
    <2>9. Gathered(at)' = Along(PassAt(at), entries) \o Backwards(h, todo')
      BY <1>9, <2>3 DEF Gathered
    <2>10. CASE empty
      <3>1. Along(PassAt(at), entries) = <<>> /\ Backwards(h, todo') = <<>>
        BY <1>4, <1>5, <2>10, AlongEmpty
      <3>2. Due(at)' = <<>>
        BY <1>4, <2>7, <2>8, <2>10, CountNone, TimesNone
      <3> QED BY <2>9, <3>1, <3>2, RowConcat
    <2>11. CASE ~ empty
      <3>1. Along(PassAt(at), entries) = <<>>
        <4>1. PassAt(at)[e] = <<>>
          BY <1>2, <1>6, OwnEntries
        <4>2. Along(PassAt(at), <<e>>) = <<>>
          BY <1>6, <4>1, OneEntry
        <4> QED BY <1>4, <2>11, <4>2
      <3>2. Backwards(h, todo') = w
        <4>1. Backwards(h, <<c>>) = w
          BY <1>7, <2>2, <2>3, OneCall
        <4> QED BY <1>5, <2>11, <4>1
      <3>3. w = IF version >= Since[at] THEN s ELSE <<>>
        BY <1>7, <2>1, <2>2, <2>5, <2>6, LeftIs DEF Registered
      <3>4. Due(at)' = w
        <4>1. Pipelines' = 1
          BY <1>4, <1>6, <2>8, <2>11, CountOne
        <4> QED BY <2>7, <2>6, <3>3, <4>1, TimesOne
      <3>5. w \in Rows
        BY <1>7, <2>2, <2>3
      <3> QED BY <2>9, <3>1, <3>2, <3>4, <3>5, RowConcat
    <2> QED BY <2>10, <2>11
  <1> QED BY <1>5, <1>10, BegunAsked

\* The text of a caller begins with all its elements to come.
LEMMA CreateFromTextAsked ==
    ASSUME TypeOK, NEW kind \in {"text", "function"}, NEW text \in UsedTexts,
           NEW reached \in UsedRoutes, CreateFromText(kind, text, reached)
    PROVE  AskedOK'
  <1>1. reached \in Seq(EPs) /\ text \in Text
    BY RouteAssumption, BoundAssumption
  <1>2. PICK elems, c, o : /\ elems = Accepted(text, kind = "text") /\ c = InText("caller", elems)
                           /\ o = Deref(options)
    OBVIOUS
  <1>3. /\ phase' = "building" /\ todo' = <<c>> /\ version' = version
        /\ pm' = [kind |-> kind, level |-> None, text |-> text, reached |-> reached,
                  asked |-> o, entries |-> <<>>]
    BY <1>2 DEF CreateFromText
  <1>4. elems \in Seq(Elems)
    <2>1. (kind = "text") \in BOOLEAN
      OBVIOUS
    <2> QED BY <1>1, <1>2, <2>1, AcceptedElems
  <1>5. c \in CallOf /\ c.in = "text" /\ c.at = "caller" /\ c.rest = elems
    BY <1>2, <1>4 DEF InText, CallOf, Frame, RestOK
  <1>6. o.eps \in [EPs -> Seq(Text)]
    BY <1>2, DerefType
  <1>7. /\ pm' # None /\ pm'.reached = reached /\ pm'.asked = o /\ pm'.text = text
        /\ pm'.entries = <<>> /\ pm'.kind = kind /\ pm'.entries \in Seq(Entry)
    <2>1. pm' \in PassManager
      <3>1. o \in Handle /\ <<>> \in Seq(Entry)
        BY <1>2, DerefType, EmptySeq
      <3> QED BY <1>1, <1>3, <3>1 DEF PassManager
    <2> QED BY <1>3, <2>1, NoneAssumption, EmptySeq
  <1>8. ASSUME NEW at \in Points, Counts(at)' PROVE Gathered(at)' = Due(at)'
    <2>1. PICK h, w : h = Left(at, o, version) /\ w = h[c]
      OBVIOUS
    <2>2. h \in [CallOf -> Rows] /\ LeftAt(at)' = h
      BY <1>3, <1>6, <1>7, <2>1, LeftType DEF LeftAt
    <2>3. Backwards(h, todo') = w /\ w \in Rows
      <3>1. Backwards(h, <<c>>) = w
        BY <1>5, <2>1, <2>2, OneCall
      <3> QED BY <1>3, <1>5, <2>1, <2>2, <3>1
    <2>4. Gathered(at)' = w
      <3>1. Along(PassAt(at), pm'.entries) = <<>>
        BY <1>7, AlongEmpty
      <3>2. Gathered(at)' = <<>> \o w
        BY <2>2, <2>3, <3>1 DEF Gathered
      <3> QED BY <2>3, <3>2, RowConcat
    <2>5. CASE at = "caller"
      <3>1. Due(at)' = Kept(elems)
        BY <1>2, <1>7, <2>5 DEF Due
      <3>2. elems \in Rows
        BY <1>4, NamesIn
      <3>3. w = Along(Keep, elems)
        BY <1>5, <2>1, <2>5, LeftIs
      <3> QED BY <2>4, <3>1, <3>2, <3>3, KeptIs
    <2>6. CASE at # "caller"
      <3>1. w = <<>>
        BY <1>5, <2>1, <2>6, LeftIs
      <3>2. Pipelines' = 0
        BY <1>7, CountNone DEF Pipelines, Count
      <3>3. Due(at)' = <<>>
        BY <2>6, <3>2, TimesNone DEF Due
      <3> QED BY <2>4, <3>1, <3>3
    <2> QED BY <2>5, <2>6
  <1> QED BY <1>3, <1>8, BegunAsked

\* At first there is no manager.
LEMMA InitAsked == Init => AskedOK
  BY DEF Init, AskedOK, GatheredOK, BuiltOK

\* Every step keeps the invariant.
LEMMA StepAsked == TypeOK /\ OptionsInv /\ AskedOK /\ [Next]_vars => AskedOK'
  <1> SUFFICES ASSUME TypeOK, OptionsInv, AskedOK, [Next]_vars PROVE AskedOK'
    OBVIOUS
  <1>1. CASE UNCHANGED vars
    BY <1>1, SameAsked DEF vars
  <1>2. CASE \/ New
             \/ DropOptions
             \/ \E flag \in Flags, val \in BOOLEAN : SetFlag(flag, val)
             \/ \E ep \in UsedEPs, text \in UsedTexts : AddEP(ep, text)
    BY <1>2, SameAsked DEF New, DropOptions, SetFlag, AddEP, EditOptions
  <1>3. ASSUME NEW reached \in UsedRoutes, NEW kind \in UsedKinds, NEW level \in UsedLevels,
               Create(kind, level, reached)
        PROVE  AskedOK'
    BY <1>3, CreateAsked
  <1>4. ASSUME NEW reached \in UsedRoutes, NEW kind \in {"text", "function"},
               NEW text \in UsedTexts, CreateFromText(kind, text, reached)
        PROVE  AskedOK'
    BY <1>4, CreateFromTextAsked
  <1>5. CASE ReachPoint \/ CallBack \/ AddElement \/ Return \/ Finish
    BY <1>5, ReachPointAsked, CallBackAsked, AddElementAsked, ReturnAsked, FinishAsked
  <1>6. ASSUME NEW given \in [Functions -> FunctionAttrs], Run(given)
        PROVE  AskedOK'
    BY <1>6, SameAsked DEF Run
  <1>7. CASE RunEntry \/ EndRun
    BY <1>7, SameAsked DEF RunEntry, EndRun
  <1>8. CASE Drop
    <2>1. todo' = <<>> /\ phase' = "idle" /\ pm' = None
      BY <1>8, IdleFacts DEF Drop, OptionsInv
    <2> QED BY <2>1, IdleAsked
  <1> QED BY <1>1, <1>2, <1>3, <1>4, <1>5, <1>6, <1>7, <1>8 DEF Next

\* So it always holds.
LEMMA AskedAlways == Spec => []AskedOK
  BY OptionsAlways, InitAsked, StepAsked, PTL DEF Spec

-----------------------------------------------------------------------------
(***************************************************************************)
(* What follows.                                                           *)
(***************************************************************************)

\* Every variable keeps its kind, whatever is built and run; in particular
\* LlvmPmSizeAttrPass never makes attributes LLVM's verifier refuses.
THEOREM TypeAlways == Spec => []TypeOK
  BY OptionsAlways, PTL

\* Whatever LLVM version llvm-pm is built against and whatever texts the
\* options hold, a manager made for Os or Oz optimises every function with a
\* body for size: by the level LLVM is given, or by the attributes that from
\* LLVM 23 on are put on the functions before anything else runs.
THEOREM SizeAlwaysHonoured == Spec => []SizeHonoured
  <1>1. TypeOK /\ OptionsInv => SizeHonoured
    <2> SUFFICES ASSUME TypeOK, OptionsInv, phase = "running", pos <= Len(pm.entries),
                        pm.entries[pos].pass = "optimise", pm.level \in {"Os", "Oz"},
                        NEW f \in Functions \ Declarations, "optnone" \notin attrs[f]
                 PROVE  /\ pm.entries[pos].level.size > 0 \/ "optsize" \in attrs[f]
                        /\ pm.level = "Oz" =>
                              pm.entries[pos].level.size = 2 \/ "minsize" \in attrs[f]
      BY DEF SizeHonoured
    <2>1. version \in Nat /\ pos \in Nat /\ pos >= 1
      BY BoundAssumption DEF TypeOK, OptionsInv, SizeOK
    <2>2. pm # None /\ pm \in PassManager
      BY IdleFacts DEF OptionsInv
    <2>3. pm.entries \in Seq(Entry) /\ Len(pm.entries) \in Nat /\ pos \in DOMAIN pm.entries
      BY <2>1, <2>2, ManagerFields, LenProperties
    <2>4. CASE version >= 23
      <3>1. ForSize
        BY <2>4 DEF ForSize
      <3>2. pos # 1
        BY <3>1, EntryTypes DEF OptionsInv, SizeOK
      <3> QED BY <2>1, <3>1, <3>2 DEF OptionsInv, SizeOK
    <2>5. CASE version < 23
      <3>1. pm.text = None
        <4>1. pm.level # None
          BY NoneAssumption DEF OptLevels
        <4> QED BY <2>2, <4>1 DEF OptionsInv, LevelOK
      <3>2. ~ IncludesItself
        BY <2>3 DEF OptionsInv, LoopOK, Optimises
      <3>3. pm.entries[pos].level = MapOptLevel(ToC[pm.level])
        BY <2>2, <2>3, <3>1, <3>2 DEF OptionsInv, LevelOK
      <3>4. /\ pm.level = "Os" => MapOptLevel(ToC[pm.level]) = Level(2, 1)
            /\ pm.level = "Oz" => MapOptLevel(ToC[pm.level]) = Level(2, 2)
        BY <2>1, <2>5 DEF ToC, MapOptLevel
      <3> QED BY <3>3, <3>4 DEF Level
    <2> QED BY <2>1, <2>4, <2>5
  <1> QED BY <1>1, OptionsAlways, PTL

\* Building a manager exhausts the native stack for no reason but an extension
\* point text that names a default pipeline, and no manager that optimises
\* ever comes of such options; however deep the stack.
THEOREM OnlySelfInclusionCrashes == Spec => []SelfInclusion
  <1>1. OptionsInv => SelfInclusion
    BY DEF OptionsInv, LoopOK, SelfInclusion, Optimises, Built
  <1> QED BY <1>1, OptionsAlways, PTL

\* Whatever the LLVM version, the texts, the pipeline and the level, a manager
\* that is built has at every extension point exactly what the options asked for
\* there, in order, once each time a default pipeline in it comes to the point,
\* and nothing where this version has no such point; and all of the text of the
\* caller: no callback is lost, called twice or called for another point.
THEOREM AskedIsAlwaysBuilt == Spec => []AskedIsBuilt
  <1>1. AskedOK => AskedIsBuilt
    BY DEF AskedOK, BuiltOK, AskedIsBuilt, Built, Times
  <1> QED BY <1>1, AskedAlways, PTL
=============================================================================
