------------------------ MODULE InstrumentationProofs ------------------------
(***************************************************************************)
(* Proofs about Instrumentation, for any set of contexts and units and any *)
(* number of PICs and SIs: what a bundle's managers point to is alive, and *)
(* so are the SIs whose callbacks a run reaches.                           *)
(***************************************************************************)
EXTENDS Instrumentation, FiniteSetTheorems, SequenceTheorems, TLAPS

\* What exists goes in the destructor's order: the parts that are left are
\* always the last ones.
SuffixOK ==
    \A i, j \in DOMAIN DestructorOrder :
        i < j /\ DestructorOrder[i] \in parts => DestructorOrder[j] \in parts

PhaseOK ==
    /\ phase \in {"unborn", "gone"} => parts = {}
    /\ phase \in {"idle", "running"} => parts = Range(DestructorOrder)
    /\ phase = "unborn" =>
          registered = None /\ siCtx = None /\ \A p \in Objects : callbacks[p] = {}

\* The managers keep the PIC of their creation, in what they registered and in
\* every result, and only managers that exist have results.
ResultsOK ==
    /\ registered \in {None, 1}
    /\ \A r \in results : r.man \in parts /\ r.pic = registered
    /\ \A pr \in proxied : pr[1] \in parts

\* Until the destructor frees it, the first PIC is current or retired.
FirstPICKept ==
    {"PIC", "RetiredPICs"} \subseteq parts => 1 \in LivePICs

\* Until the destructor frees them, the SIs that registered callbacks are
\* current or retired.
SIsKept ==
    {"SI", "RetiredSIs"} \subseteq parts =>
        \A p \in Objects : callbacks[p] \subseteq LiveSIs

\* A bundle that has seen a context has what reinitSI makes for it.
CurrentOK ==
    /\ ~ HasSI => si = None
    /\ phase \in {"idle", "running"} /\ siCtx # None =>
          IF HasSI THEN si # None ELSE pic # None

Inv == SuffixOK /\ PhaseOK /\ ResultsOK /\ FirstPICKept /\ SIsKept /\ CurrentOK

-----------------------------------------------------------------------------
\* SetToSeq of what a pointer points to has just that element.
LEMMA PointeesSeq ==
    ASSUME NEW S, NEW x, x \in S \cup {None}
    PROVE  /\ SetToSeq(Pointees(x)) \in Seq(S)
           /\ Range(SetToSeq(Pointees(x))) = Pointees(x)
  <1> DEFINE P == Pointees(x)
             Inj == {f \in [1 .. Cardinality(P) -> P] : IsInjective(f)}
             s == SetToSeq(P)
  <1>1. CASE x = None
    <2>1. P = {} /\ Cardinality(P) = 0
      BY <1>1, FS_EmptySet DEF Pointees
    <2>2. <<>> \in Inj
      BY <2>1 DEF IsInjective
    <2>3. s \in Inj
      BY <2>2 DEF SetToSeq
    <2>4. s = <<>>
      BY <2>1, <2>3
    <2>5. DOMAIN s = {} /\ s \in Seq(S)
      BY <2>4, EmptySeq
    <2> QED BY <2>1, <2>5 DEF Range
  <1>2. CASE x # None
    <2>1. P = {x} /\ Cardinality(P) = 1 /\ x \in S
      BY <1>2, FS_Singleton DEF Pointees
    <2>2. [i \in 1 .. 1 |-> x] \in Inj
      BY <2>1 DEF IsInjective
    <2>3. s \in Inj
      BY <2>2 DEF SetToSeq
    <2>4. s \in [1 .. 1 -> {x}]
      BY <2>1, <2>3
    <2>5. s \in Seq(S)
      <3>1. 1 .. 1 = {1} /\ s[1] = x
        BY <2>4
      <3>2. s = <<x>>
        BY <2>4, <3>1
      <3>3. x \in S
        BY <2>1
      <3>4. <<x>> \in Seq(S)
        BY <3>3
      <3> QED BY <3>2, <3>4
    <2>6. Range(s) = {x}
      BY <2>4 DEF Range
    <2> QED BY <2>1, <2>5, <2>6
  <1> QED BY <1>1, <1>2

\* The elements of a concatenation are those of its parts.
LEMMA RangeConcat ==
    ASSUME NEW S, NEW s \in Seq(S), NEW t \in Seq(S)
    PROVE  s \o t \in Seq(S) /\ Range(s \o t) = Range(s) \cup Range(t)
  <1>1. /\ s \o t \in Seq(S)
        /\ Len(s \o t) = Len(s) + Len(t)
        /\ \A i \in 1 .. Len(s) + Len(t) :
              (s \o t)[i] = IF i <= Len(s) THEN s[i] ELSE t[i - Len(s)]
    BY ConcatProperties
  <1>2. /\ DOMAIN s = 1 .. Len(s) /\ DOMAIN t = 1 .. Len(t)
        /\ DOMAIN (s \o t) = 1 .. Len(s) + Len(t)
        /\ Len(s) \in Nat /\ Len(t) \in Nat
    BY <1>1, LenProperties
  <1>3. ASSUME NEW x \in Range(s \o t) PROVE x \in Range(s) \cup Range(t)
    <2>1. PICK i \in 1 .. Len(s) + Len(t) : (s \o t)[i] = x
      BY <1>2, <1>3 DEF Range
    <2>2. CASE i <= Len(s)
      BY <1>1, <1>2, <2>1, <2>2 DEF Range
    <2>3. CASE i > Len(s)
      <3>1. i - Len(s) \in DOMAIN t /\ t[i - Len(s)] = x
        BY <1>1, <1>2, <2>1, <2>3
      <3> QED BY <3>1 DEF Range
    <2> QED BY <1>2, <2>1, <2>2, <2>3
  <1>4. ASSUME NEW x \in Range(s) PROVE x \in Range(s \o t)
    <2>1. PICK i \in 1 .. Len(s) : s[i] = x
      BY <1>2, <1>4 DEF Range
    <2>2. i \in DOMAIN (s \o t) /\ (s \o t)[i] = x
      BY <1>1, <1>2, <2>1
    <2> QED BY <2>2 DEF Range
  <1>5. ASSUME NEW x \in Range(t) PROVE x \in Range(s \o t)
    <2>1. PICK i \in 1 .. Len(t) : t[i] = x
      BY <1>2, <1>5 DEF Range
    <2>2. Len(s) + i \in DOMAIN (s \o t) /\ (s \o t)[Len(s) + i] = x
      BY <1>1, <1>2, <2>1
    <2> QED BY <2>2 DEF Range
  <1> QED BY <1>1, <1>3, <1>4, <1>5

\* A list that what a pointer points to has been moved to.
LEMMA PointeeMoved ==
    ASSUME NEW s \in Seq(Objects), NEW x \in Objects \cup {None}
    PROVE  /\ s \o SetToSeq(Pointees(x)) \in Seq(Objects)
           /\ Range(s \o SetToSeq(Pointees(x))) = Range(s) \cup Pointees(x)
  BY PointeesSeq, RangeConcat

\* The parts of a bundle, by their place in the destructor.
LEMMA OrderFacts ==
    /\ DOMAIN DestructorOrder = 1 .. 11
    /\ \A m \in Managers : \E i \in 4 .. 7 : DestructorOrder[i] = m
    /\ DestructorOrder[4] = "MAM" /\ DestructorOrder[5] = "CGAM"
    /\ DestructorOrder[6] = "FAM" /\ DestructorOrder[7] = "LAM"
    /\ DestructorOrder[8] = "SI" /\ DestructorOrder[9] = "PIC"
    /\ DestructorOrder[10] = "RetiredSIs" /\ DestructorOrder[11] = "RetiredPICs"
    /\ \A i, j \in 1 .. 11 : DestructorOrder[i] = DestructorOrder[j] => i = j
    /\ \A i \in 1 .. 11 : DestructorOrder[i] \in Range(DestructorOrder)
    /\ \A x \in Range(DestructorOrder) : \E i \in 1 .. 11 : x = DestructorOrder[i]
  <1>1. DOMAIN DestructorOrder = 1 .. 11
    BY DEF DestructorOrder
  <1>2. \A i \in 1 .. 11 :
            i \in {1, 2, 3, 4, 5, 6, 7, 8, 9, 10, 11}
    OBVIOUS
  <1>3. \A i, j \in 1 .. 11 : DestructorOrder[i] = DestructorOrder[j] => i = j
    BY <1>2 DEF DestructorOrder
  <1>4. \A m \in Managers : \E i \in 4 .. 7 : DestructorOrder[i] = m
    BY DEF DestructorOrder, Managers
  <1> QED BY <1>1, <1>3, <1>4 DEF DestructorOrder, Range

-----------------------------------------------------------------------------
(***************************************************************************)
(* Every variable keeps a value of its kind.                               *)
(***************************************************************************)

LEMMA InitType == Init => TypeOK
  BY NoneAssumption, BoundAssumption DEF Init, TypeOK, Objects

LEMMA ReinitType ==
    ASSUME TypeOK, NEW ctx \in Contexts, ReinitSI(ctx)
    PROVE  /\ pic' \in Objects \cup {None} /\ si' \in Objects \cup {None}
           /\ siCtx' \in Contexts \cup {None}
           /\ retired' \in [pics : Seq(Objects), sis : Seq(Objects)]
           /\ made' \in [pics : 0 .. MaxObjects, sis : 0 .. MaxObjects]
           /\ callbacks' \in [Objects -> SUBSET Objects]
           /\ madeFor' \in [Objects -> Contexts \cup {None}]
  <1>0. /\ pic \in Objects \cup {None} /\ si \in Objects \cup {None}
        /\ siCtx \in Contexts \cup {None}
        /\ retired \in [pics : Seq(Objects), sis : Seq(Objects)]
        /\ made \in [pics : 0 .. MaxObjects, sis : 0 .. MaxObjects]
        /\ callbacks \in [Objects -> SUBSET Objects]
        /\ madeFor \in [Objects -> Contexts \cup {None}]
    BY DEF TypeOK
  <1>1. CASE Current(ctx)
    BY <1>0, <1>1 DEF ReinitSI
  <1>2. CASE ~ Current(ctx)
    <2>1. PICK retires \in BOOLEAN :
              retires = IF HasSI THEN si # None ELSE pic # None
      OBVIOUS
    <2>2. PICK newPIC : newPIC = IF retires THEN made.pics + 1 ELSE pic
      OBVIOUS
    <2>3. PICK newSI : newSI = IF HasSI THEN made.sis + 1 ELSE None
      OBVIOUS
    <2>4. /\ newPIC \in Objects
          /\ HasSI => newSI \in Objects
          /\ retired' = IF retires THEN Retire(retired, pic, si) ELSE retired
          /\ siCtx' = ctx
          /\ pic' = newPIC
          /\ si' = newSI
          /\ made' = [pics |-> IF retires THEN newPIC ELSE made.pics,
                      sis |-> IF HasSI THEN newSI ELSE made.sis]
          /\ callbacks' = [callbacks EXCEPT ![newPIC] = @ \cup Pointees(newSI)]
          /\ madeFor' = IF HasSI /\ version >= 16
                          THEN [madeFor EXCEPT ![newSI] = ctx] ELSE madeFor
      BY <1>2, <2>1, <2>2, <2>3 DEF ReinitSI
    <2>5. Retire(retired, pic, si) \in [pics : Seq(Objects), sis : Seq(Objects)]
      <3>1. retired.pics \in Seq(Objects) /\ retired.sis \in Seq(Objects)
        BY <1>0
      <3> QED BY <1>0, <3>1, PointeeMoved DEF Retire
    <2>6. newSI \in Objects \cup {None}
      BY <2>3, <2>4
    <2>7. Pointees(newSI) \subseteq Objects
      BY <2>6 DEF Pointees
    <2>8. callbacks' \in [Objects -> SUBSET Objects]
      BY <1>0, <2>4, <2>7
    <2>9. madeFor' \in [Objects -> Contexts \cup {None}]
      BY <1>0, <2>4
    <2>10. made' \in [pics : 0 .. MaxObjects, sis : 0 .. MaxObjects]
      <3>1. Objects \subseteq 0 .. MaxObjects
        BY BoundAssumption DEF Objects
      <3>2. made.pics \in 0 .. MaxObjects /\ made.sis \in 0 .. MaxObjects
        BY <1>0
      <3> QED BY <2>4, <3>1, <3>2
    <2> QED BY <1>0, <2>4, <2>5, <2>6, <2>8, <2>9, <2>10
  <1> QED BY <1>1, <1>2

LEMMA StepType == TypeOK /\ [Next]_vars => TypeOK'
  <1> SUFFICES ASSUME TypeOK, [Next]_vars PROVE TypeOK'
    OBVIOUS
  <1> USE DEF TypeOK
  <1>1. CASE Create
    <2>1. 1 \in Objects /\ 1 \in 0 .. MaxObjects
      BY BoundAssumption DEF Objects
    <2>2. made' \in [pics : 0 .. MaxObjects, sis : 0 .. MaxObjects]
      BY <1>1, <2>1 DEF Create
    <2> QED BY <1>1, <2>1, <2>2 DEF Create
  <1>2. ASSUME NEW ctx \in Contexts, Run(ctx) PROVE TypeOK'
    <2>1. ReinitSI(ctx)
      BY <1>2 DEF Run
    <2>2. /\ pic' \in Objects \cup {None} /\ si' \in Objects \cup {None}
          /\ siCtx' \in Contexts \cup {None}
          /\ retired' \in [pics : Seq(Objects), sis : Seq(Objects)]
          /\ made' \in [pics : 0 .. MaxObjects, sis : 0 .. MaxObjects]
          /\ callbacks' \in [Objects -> SUBSET Objects]
          /\ madeFor' \in [Objects -> Contexts \cup {None}]
      BY <2>1, ReinitType
    <2> QED BY <1>2, <2>2 DEF Run
  <1>3. ASSUME NEW man \in Managers, NEW u \in Units, Query(man, u) PROVE TypeOK'
    <2>1. [man |-> man, unit |-> u, pic |-> registered]
              \in [man : Managers, unit : Units, pic : Objects \cup {None}]
      OBVIOUS
    <2> QED BY <1>3, <2>1 DEF Query
  <1>4. ASSUME NEW pr \in Proxies, UseProxy(pr) PROVE TypeOK'
    BY <1>4 DEF UseProxy
  <1>5. CASE EndRun
    BY <1>5 DEF EndRun
  <1>6. CASE BeginDispose
    BY <1>6 DEF BeginDispose
  <1>7. CASE DestroyNext
    <2>1. <<>> \in Seq(Objects)
      OBVIOUS
    <2>2. /\ parts' \subseteq parts /\ results' \subseteq results
          /\ proxied' \subseteq proxied /\ si' \in {None, si} /\ pic' \in {None, pic}
          /\ retired' \in [pics : {<<>>, retired.pics}, sis : {<<>>, retired.sis}]
          /\ phase' \in {"gone", phase}
          /\ UNCHANGED <<version, siCtx, registered, made, callbacks, madeFor, running>>
      BY <1>7 DEF DestroyNext
    <2>3. retired' \in [pics : Seq(Objects), sis : Seq(Objects)]
      BY <2>1, <2>2
    <2> QED BY <2>2, <2>3
  <1>8. CASE UNCHANGED vars
    BY <1>8 DEF vars
  <1> QED BY <1>1, <1>2, <1>3, <1>4, <1>5, <1>6, <1>7, <1>8 DEF Next

\* TypeOK holds in every state, whatever the versions, contexts and bound.
THEOREM TypeAlways == Spec => []TypeOK
  BY InitType, StepType, PTL DEF Spec

-----------------------------------------------------------------------------
(***************************************************************************)
(* reinitSI frees nothing: what is live before a run is live in it.        *)
(***************************************************************************)

LEMMA ReinitKeeps ==
    ASSUME TypeOK, CurrentOK, NEW ctx \in Contexts, ReinitSI(ctx)
    PROVE  /\ LivePICs \subseteq LivePICs' /\ LiveSIs \subseteq LiveSIs'
           /\ \A p \in Objects : callbacks'[p] \subseteq callbacks[p] \cup LiveSIs'
           /\ siCtx' = ctx /\ (IF HasSI THEN si' # None ELSE pic' # None /\ si' = None)
           /\ Len(retired'.pics) > Len(retired.pics) => ~ Current(ctx)
  <1>0. /\ pic \in Objects \cup {None} /\ si \in Objects \cup {None}
        /\ retired \in [pics : Seq(Objects), sis : Seq(Objects)]
        /\ callbacks \in [Objects -> SUBSET Objects]
        /\ None \notin Objects
    BY NoneAssumption DEF TypeOK, Objects
  <1>1. CASE Current(ctx)
    <2>1. UNCHANGED <<pic, si, siCtx, retired, callbacks>>
      BY <1>1 DEF ReinitSI
    <2>2. LivePICs' = LivePICs /\ LiveSIs' = LiveSIs
      BY <2>1 DEF LivePICs, LiveSIs, Pointees
    <2>3. siCtx' = ctx /\ (IF HasSI THEN si' # None ELSE pic' # None /\ si' = None)
      BY <1>1, <2>1 DEF Current, CurrentOK
    <2>4. Len(retired'.pics) > Len(retired.pics) => ~ Current(ctx)
      <3>1. Len(retired.pics) \in Nat
        BY <1>0, LenProperties
      <3> QED BY <2>1, <3>1
    <2> QED BY <2>1, <2>2, <2>3, <2>4
  <1>2. CASE ~ Current(ctx)
    <2>1. PICK retires \in BOOLEAN :
              retires = IF HasSI THEN si # None ELSE pic # None
      OBVIOUS
    <2>2. PICK newPIC : newPIC = IF retires THEN made.pics + 1 ELSE pic
      OBVIOUS
    <2>3. PICK newSI : newSI = IF HasSI THEN made.sis + 1 ELSE None
      OBVIOUS
    <2>4. /\ newPIC \in Objects
          /\ HasSI => newSI \in Objects
          /\ retired' = IF retires THEN Retire(retired, pic, si) ELSE retired
          /\ siCtx' = ctx /\ pic' = newPIC /\ si' = newSI
          /\ callbacks' = [callbacks EXCEPT ![newPIC] = @ \cup Pointees(newSI)]
      BY <1>2, <2>1, <2>2, <2>3 DEF ReinitSI
    <2>5. retires => /\ Range(retired'.pics) = Range(retired.pics) \cup Pointees(pic)
                     /\ Range(retired'.sis) = Range(retired.sis) \cup Pointees(si)
      <3>1. retired.pics \in Seq(Objects) /\ retired.sis \in Seq(Objects)
        BY <1>0
      <3>2. retires => /\ retired'.pics = retired.pics \o SetToSeq(Pointees(pic))
                       /\ retired'.sis = retired.sis \o SetToSeq(Pointees(si))
        BY <2>4 DEF Retire
      <3> QED BY <1>0, <3>1, <3>2, PointeeMoved
    <2>6. LivePICs \subseteq LivePICs'
      BY <2>2, <2>4, <2>5 DEF LivePICs, Pointees
    <2>7. LiveSIs \subseteq LiveSIs'
      <3>1. CASE retires
        BY <2>4, <2>5, <3>1 DEF LiveSIs
      <3>2. CASE ~ retires
        <4>1. si = None
          BY <2>1, <3>2 DEF CurrentOK
        <4> QED BY <2>4, <3>2, <4>1 DEF LiveSIs, Pointees
      <3> QED BY <3>1, <3>2
    <2>8. \A p \in Objects : callbacks'[p] \subseteq callbacks[p] \cup LiveSIs'
      <3>1. ASSUME NEW p \in Objects
            PROVE  callbacks'[p] \subseteq callbacks[p] \cup Pointees(newSI)
        BY <1>0, <2>4
      <3> QED BY <2>4, <3>1 DEF LiveSIs, Pointees
    <2>9. IF HasSI THEN si' # None ELSE pic' # None /\ si' = None
      BY <1>0, <2>3, <2>4
    <2> QED BY <1>2, <2>4, <2>6, <2>7, <2>8, <2>9
  <1> QED BY <1>1, <1>2

\* The managers are destroyed before the PICs and SIs, current or retired, and
\* before the inner managers that they clear.
LEMMA InnerPartsStay ==
    ASSUME SuffixOK
    PROVE  /\ Managers \cap parts # {} =>
                 {"SI", "PIC", "RetiredSIs", "RetiredPICs"} \subseteq parts
           /\ \A pr \in Proxies : pr[1] \in parts => pr[2] \in parts
  <1>1. ASSUME NEW i \in 1 .. 11, NEW j \in 1 .. 11, i < j, DestructorOrder[i] \in parts
        PROVE  DestructorOrder[j] \in parts
    BY <1>1, OrderFacts DEF SuffixOK
  <1>2. ASSUME NEW m \in Managers, m \in parts
        PROVE  {"SI", "PIC", "RetiredSIs", "RetiredPICs"} \subseteq parts
    <2>1. PICK i \in 4 .. 7 : DestructorOrder[i] = m
      BY OrderFacts
    <2>2. /\ i \in 1 .. 11 /\ DestructorOrder[i] \in parts
          /\ i < 8 /\ i < 9 /\ i < 10 /\ i < 11
      BY <1>2, <2>1
    <2>3. /\ DestructorOrder[8] \in parts /\ DestructorOrder[9] \in parts
          /\ DestructorOrder[10] \in parts /\ DestructorOrder[11] \in parts
      BY <1>1, <2>2
    <2> QED BY <2>3, OrderFacts
  <1>3. /\ "MAM" \in parts => "CGAM" \in parts /\ "FAM" \in parts
        /\ "FAM" \in parts => "LAM" \in parts
    <2>1. DestructorOrder[4] \in parts => DestructorOrder[5] \in parts /\ DestructorOrder[6] \in parts
      BY <1>1
    <2>2. DestructorOrder[6] \in parts => DestructorOrder[7] \in parts
      BY <1>1
    <2> QED BY <2>1, <2>2, OrderFacts
  <1>4. ASSUME NEW pr \in Proxies, pr[1] \in parts PROVE pr[2] \in parts
    BY <1>3, <1>4 DEF Proxies
  <1> QED BY <1>2, <1>4

-----------------------------------------------------------------------------
(***************************************************************************)
(* The inductive invariant, action by action.                              *)
(***************************************************************************)

LEMMA InitInv == Init => Inv
  <1> SUFFICES ASSUME Init PROVE Inv
    OBVIOUS
  <1>1. SuffixOK /\ PhaseOK /\ ResultsOK
    BY DEF Init, SuffixOK, PhaseOK, ResultsOK
  <1>2. FirstPICKept /\ SIsKept
    BY DEF Init, FirstPICKept, SIsKept
  <1>3. CurrentOK
    BY DEF Init, CurrentOK
  <1> QED BY <1>1, <1>2, <1>3 DEF Inv

LEMMA CreateInv == TypeOK /\ Inv /\ Create => Inv'
  <1> SUFFICES ASSUME TypeOK, Inv, Create PROVE Inv'
    OBVIOUS
  <1>0. /\ registered = None /\ siCtx = None /\ parts = {}
        /\ \A p \in Objects : callbacks[p] = {}
        /\ results = {} /\ proxied = {}
    BY DEF Inv, PhaseOK, ResultsOK, Create
  <1>1. SuffixOK'
    BY OrderFacts DEF SuffixOK, Create
  <1>2. PhaseOK'
    BY DEF PhaseOK, Create
  <1>3. ResultsOK'
    BY <1>0 DEF ResultsOK, Create
  <1>4. FirstPICKept'
    <2>1. pic' = 1 /\ 1 # None
      BY NoneAssumption DEF Create
    <2> QED BY <2>1 DEF FirstPICKept, LivePICs, Pointees
  <1>5. SIsKept'
    BY <1>0 DEF SIsKept, Create
  <1>6. CurrentOK'
    BY <1>0 DEF CurrentOK, Inv, Create, HasSI
  <1> QED BY <1>1, <1>2, <1>3, <1>4, <1>5, <1>6 DEF Inv

LEMMA RunInv ==
    ASSUME TypeOK, Inv, NEW ctx \in Contexts, Run(ctx)
    PROVE  Inv'
  <1>0. /\ LivePICs \subseteq LivePICs' /\ LiveSIs \subseteq LiveSIs'
        /\ \A p \in Objects : callbacks'[p] \subseteq callbacks[p] \cup LiveSIs'
        /\ IF HasSI THEN si' # None ELSE pic' # None /\ si' = None
    BY ReinitKeeps DEF Inv, Run
  <1>1. /\ UNCHANGED <<version, parts, registered, results, proxied>>
        /\ phase = "idle" /\ phase' = "running"
    BY DEF Run
  <1>2. SuffixOK' /\ PhaseOK'
    BY <1>1 DEF SuffixOK, PhaseOK, Inv
  <1>3. ResultsOK'
    BY <1>1 DEF ResultsOK, Inv
  <1>4. FirstPICKept'
    BY <1>0, <1>1 DEF FirstPICKept, Inv
  <1>5. SIsKept'
    BY <1>0, <1>1 DEF SIsKept, Inv
  <1>6. CurrentOK'
    BY <1>0, <1>1 DEF CurrentOK, HasSI
  <1> QED BY <1>2, <1>3, <1>4, <1>5, <1>6 DEF Inv

LEMMA QueryInv ==
    ASSUME TypeOK, Inv, NEW man \in Managers, NEW u \in Units, Query(man, u)
    PROVE  Inv'
  <1>1. UNCHANGED <<version, phase, parts, pic, si, siCtx, retired, registered,
                    proxied, made, callbacks, madeFor, running>>
    BY DEF Query
  <1>2. SuffixOK' /\ PhaseOK' /\ CurrentOK'
    BY <1>1 DEF SuffixOK, PhaseOK, CurrentOK, HasSI, Inv
  <1>3. FirstPICKept' /\ SIsKept'
    BY <1>1 DEF FirstPICKept, SIsKept, LivePICs, LiveSIs, Pointees, Inv
  <1>4. ResultsOK'
    <2>1. man \in parts
      BY OrderFacts DEF Query, PhaseOK, Inv, Managers, DestructorOrder, Range
    <2>2. results' = results \cup {[man |-> man, unit |-> u, pic |-> registered]}
      BY DEF Query
    <2> QED BY <1>1, <2>1, <2>2 DEF ResultsOK, Inv
  <1> QED BY <1>2, <1>3, <1>4 DEF Inv

LEMMA UseProxyInv ==
    ASSUME TypeOK, Inv, NEW pr \in Proxies, UseProxy(pr)
    PROVE  Inv'
  <1>1. UNCHANGED <<version, phase, parts, pic, si, siCtx, retired, registered,
                    results, made, callbacks, madeFor, running>>
    BY DEF UseProxy
  <1>2. SuffixOK' /\ PhaseOK' /\ CurrentOK'
    BY <1>1 DEF SuffixOK, PhaseOK, CurrentOK, HasSI, Inv
  <1>3. FirstPICKept' /\ SIsKept'
    BY <1>1 DEF FirstPICKept, SIsKept, LivePICs, LiveSIs, Pointees, Inv
  <1>4. ResultsOK'
    <2>1. pr[1] \in Managers
      BY DEF Proxies, Managers
    <2>2. \A m \in Managers : m \in parts
      BY OrderFacts DEF UseProxy, PhaseOK, Inv, Managers
    <2> QED BY <1>1, <2>1, <2>2 DEF ResultsOK, Inv, UseProxy
  <1> QED BY <1>2, <1>3, <1>4 DEF Inv

LEMMA PhaseOnlyInv == TypeOK /\ Inv /\ (EndRun \/ BeginDispose \/ UNCHANGED vars) => Inv'
  <1> SUFFICES ASSUME TypeOK, Inv, EndRun \/ BeginDispose \/ UNCHANGED vars PROVE Inv'
    OBVIOUS
  <1>1. /\ UNCHANGED <<version, parts, pic, si, siCtx, retired, registered, results,
                      proxied, made, callbacks, madeFor>>
        /\ \/ phase = "running" /\ phase' = "idle"
           \/ phase = "idle" /\ phase' = "destroying"
           \/ phase' = phase
    BY DEF EndRun, BeginDispose, vars
  <1>2. SuffixOK' /\ CurrentOK'
    BY <1>1 DEF SuffixOK, CurrentOK, HasSI, Inv
  <1>3. PhaseOK'
    BY <1>1 DEF PhaseOK, Inv
  <1>4. FirstPICKept' /\ SIsKept'
    BY <1>1 DEF FirstPICKept, SIsKept, LivePICs, LiveSIs, Pointees, Inv
  <1>5. ResultsOK'
    BY <1>1 DEF ResultsOK, Inv
  <1> QED BY <1>2, <1>3, <1>4, <1>5 DEF Inv

LEMMA DestroyInv == TypeOK /\ Inv /\ DestroyNext => Inv'
  <1> SUFFICES ASSUME TypeOK, Inv, DestroyNext PROVE Inv'
    OBVIOUS
  <1>1. PICK k \in 1 .. 11 :
            /\ DestructorOrder[k] \in parts
            /\ \A j \in 1 .. k - 1 : DestructorOrder[j] \notin parts
            /\ phase = "destroying"
            /\ parts' = parts \ {DestructorOrder[k]}
            /\ results' = {r \in results : r.man # DestructorOrder[k]}
            /\ proxied' = {pr \in proxied : pr[1] # DestructorOrder[k]}
            /\ si' = IF DestructorOrder[k] = "SI" THEN None ELSE si
            /\ pic' = IF DestructorOrder[k] = "PIC" THEN None ELSE pic
            /\ retired' = [pics |-> IF DestructorOrder[k] = "RetiredPICs"
                                     THEN <<>> ELSE retired.pics,
                           sis |-> IF DestructorOrder[k] = "RetiredSIs"
                                     THEN <<>> ELSE retired.sis]
            /\ phase' = IF parts' = {} THEN "gone" ELSE phase
            /\ UNCHANGED <<version, siCtx, registered, made, callbacks, madeFor, running>>
    BY OrderFacts DEF DestroyNext
  <1>2. SuffixOK'
    <2> SUFFICES ASSUME NEW i \in 1 .. 11, NEW j \in 1 .. 11, i < j,
                        DestructorOrder[i] \in parts'
                 PROVE  DestructorOrder[j] \in parts'
      BY OrderFacts DEF SuffixOK
    <2>1. DestructorOrder[j] \in parts
      BY <1>1, OrderFacts DEF SuffixOK, Inv
    <2>2. i > k
      BY <1>1
    <2>3. DestructorOrder[j] # DestructorOrder[k]
      BY <2>2, OrderFacts
    <2> QED BY <1>1, <2>1, <2>3
  <1>3. PhaseOK'
    BY <1>1 DEF PhaseOK
  <1>4. ResultsOK'
    BY <1>1 DEF ResultsOK, Inv
  <1>5. FirstPICKept'
    <2> SUFFICES ASSUME {"PIC", "RetiredPICs"} \subseteq parts' PROVE 1 \in LivePICs'
      BY DEF FirstPICKept
    <2>1. pic' = pic /\ retired'.pics = retired.pics
      BY <1>1
    <2>2. 1 \in LivePICs
      BY <1>1 DEF FirstPICKept, Inv
    <2> QED BY <2>1, <2>2 DEF LivePICs, Pointees
  <1>6. SIsKept'
    <2> SUFFICES ASSUME {"SI", "RetiredSIs"} \subseteq parts'
                 PROVE  \A p \in Objects : callbacks'[p] \subseteq LiveSIs'
      BY DEF SIsKept
    <2>1. si' = si /\ retired'.sis = retired.sis /\ callbacks' = callbacks
      BY <1>1
    <2>2. \A p \in Objects : callbacks[p] \subseteq LiveSIs
      BY <1>1 DEF SIsKept, Inv
    <2> QED BY <2>1, <2>2 DEF LiveSIs, Pointees
  <1>7. CurrentOK'
    BY <1>1 DEF CurrentOK, HasSI, Inv
  <1> QED BY <1>2, <1>3, <1>4, <1>5, <1>6, <1>7 DEF Inv

LEMMA StepInv == TypeOK /\ Inv /\ [Next]_vars => Inv'
  BY CreateInv, RunInv, QueryInv, UseProxyInv, PhaseOnlyInv, DestroyInv DEF Next

LEMMA InvAlways == Spec => [](TypeOK /\ Inv)
  BY InitType, StepType, InitInv, StepInv, PTL DEF Spec

-----------------------------------------------------------------------------
LEMMA FirstPICReached ==
    ASSUME TypeOK, Inv, NEW p \in Reachable
    PROVE  p = 1 /\ p \in Objects /\ Managers \cap parts # {}
  <1>1. \A r \in results : r.man \in Managers \cap parts /\ r.pic = registered
    BY DEF TypeOK, Inv, ResultsOK
  <1>2. p \in Pointees(registered) /\ Managers \cap parts # {}
    BY <1>1 DEF Reachable
  <1>3. p = 1
    BY <1>2 DEF Inv, ResultsOK, Pointees
  <1>4. 1 \in Objects
    BY BoundAssumption DEF Objects
  <1> QED BY <1>2, <1>3, <1>4

\* No analysis manager ever outlives what its results point to: neither the PIC
\* in its PassInstrumentation results, however often the bundle changes context
\* (RetiredPICs), nor, while ~LlvmPmOpaquePassManager runs, the PICs and the
\* inner manager that its proxies clear.
THEOREM PointersAlwaysLive == Spec => []PointersLive
  <1>1. TypeOK /\ Inv => PointersLive
    <2> SUFFICES ASSUME TypeOK, Inv PROVE PointersLive
      OBVIOUS
    <2>1. ASSUME NEW p \in Reachable PROVE p \in LivePICs
      <3>1. p = 1 /\ {"PIC", "RetiredPICs"} \subseteq parts
        BY FirstPICReached, InnerPartsStay DEF Inv
      <3> QED BY <3>1 DEF FirstPICKept, Inv
    <2>2. ASSUME NEW pr \in proxied PROVE pr[2] \in parts
      <3>1. pr \in Proxies /\ pr[1] \in parts
        BY DEF TypeOK, Inv, ResultsOK
      <3> QED BY <3>1, InnerPartsStay DEF Inv
    <2> QED BY <2>1, <2>2 DEF PointersLive
  <1> QED BY <1>1, InvAlways, PTL

\* The callbacks that a pass runs into belong to SIs that still exist, for any
\* sequence of runs in any contexts (RetiredSIs).
THEOREM CallbacksAlwaysLive == Spec => []CallbacksLive
  <1>1. TypeOK /\ Inv => CallbacksLive
    <2> SUFFICES ASSUME TypeOK, Inv, NEW p \in Reachable
                 PROVE  callbacks[p] \subseteq LiveSIs
      BY DEF CallbacksLive
    <2>1. p \in Objects /\ {"SI", "RetiredSIs"} \subseteq parts
      BY FirstPICReached, InnerPartsStay DEF Inv
    <2> QED BY <2>1 DEF SIsKept, Inv
  <1> QED BY <1>1, InvAlways, PTL

\* A run in the context of the run before retires nothing: reinitSI returns
\* early, so the retired lists grow with the changes of context only.
THEOREM NothingRetiredInPlace == Spec => RetiresOnSwitchOnly
  <1>1. TypeOK /\ Inv /\ [Next]_vars =>
          [phase = "idle" /\ Len(retired'.pics) > Len(retired.pics) => running' # siCtx]_vars
    <2> SUFFICES ASSUME TypeOK, Inv, [Next]_vars, phase = "idle",
                        Len(retired'.pics) > Len(retired.pics)
                 PROVE  running' # siCtx
      OBVIOUS
    <2>1. Len(retired.pics) \in Nat
      BY LenProperties DEF TypeOK
    <2>2. retired' # retired
      BY <2>1
    <2>3. PICK ctx \in Contexts : Run(ctx)
      BY <2>2 DEF Next, Create, Query, UseProxy, EndRun, BeginDispose, DestroyNext, vars
    <2>4. ~ Current(ctx)
      BY <2>3, ReinitKeeps DEF Run, Inv
    <2>5. siCtx # ctx
      BY <2>3, <2>4, NoneAssumption DEF Current, CurrentOK, Inv
    <2> QED BY <2>3, <2>5 DEF Run
  <1> QED BY <1>1, InvAlways, PTL DEF Spec, RetiresOnSwitchOnly

=============================================================================
