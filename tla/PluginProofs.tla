---------------------------- MODULE PluginProofs ----------------------------
(***************************************************************************)
(* Proofs about Plugin, for any number of closures, passes, builders and   *)
(* pipelines: every box given to the host is called only while it is       *)
(* alive, is freed at most once, and is freed in the end.                  *)
(***************************************************************************)
EXTENDS Plugin, TLAPS

OfBuilder(B) == UNION {Range(registered[B][k]) : k \in Kinds}
OfPipe(P) == Range(pipes[P].passes)
Live == {b \in made : deleted[b] = 0}

\* The boxes that what the host is doing may call.
Current ==
    IF host.doing \in {"parse", "ep", "analyses"} THEN OfBuilder(host.builder)
    ELSE IF host.doing = "run" THEN OfPipe(host.pipe)
    ELSE {}

HostOK ==
    /\ host.doing \in {"registrar", "parse", "ep", "analyses"} =>
          host.builder \in Builders /\ builders[host.builder] = "live"
    /\ host.doing \in {"parse", "ep", "run"} => host.pipe \in Pipes
    /\ host.doing \in {"parse", "ep"} => pipes[host.pipe].state = "building"
    /\ host.doing \in {"registrar", "analyses"} => host.pipe = None

CallOK == Range(host.todo) \cup ({call} \ {None}) \subseteq Current

\* Every deleter is called at most once, and for a box that was made.
CountOK == \A b \in Boxes : deleted[b] = 0 \/ (deleted[b] = 1 /\ b \in made)

\* What an object holds is alive, and belongs to no other object.
HeldOK ==
    /\ \A B \in Builders : OfBuilder(B) \subseteq Live
    /\ \A P \in Pipes : OfPipe(P) \subseteq Live
    /\ \A B, D \in Builders : B # D => OfBuilder(B) \cap OfBuilder(D) = {}
    /\ \A P, Q \in Pipes : P # Q => OfPipe(P) \cap OfPipe(Q) = {}

\* What is alive is held, and what is dead holds nothing.
OwnedOK ==
    /\ \A b \in Live : \/ \E B \in Builders : b \in OfBuilder(B)
                       \/ \E P \in Pipes : b \in OfPipe(P)
    /\ \A B \in Builders : builders[B] # "live" => OfBuilder(B) = {}
    /\ \A P \in Pipes : pipes[P].state = "none" => OfPipe(P) = {}

PluginInv == TypeOK /\ HostOK /\ CallOK /\ CountOK /\ HeldOK /\ OwnedOK

-----------------------------------------------------------------------------
\* The elements of the sequences that the actions build.
LEMMA RangeAppend ==
    ASSUME NEW S, NEW s \in Seq(S), NEW e \in S
    PROVE  Range(Append(s, e)) = Range(s) \cup {e}
  <1>1. ASSUME NEW x \in Range(Append(s, e)) PROVE x \in Range(s) \cup {e}
    BY <1>1 DEF Range
  <1>2. ASSUME NEW x \in Range(s) PROVE x \in Range(Append(s, e))
    <2>1. PICK i \in DOMAIN s : s[i] = x
      BY <1>2 DEF Range
    <2>2. i \in DOMAIN Append(s, e) /\ Append(s, e)[i] = x
      BY <2>1
    <2> QED BY <2>2 DEF Range
  <1>3. e \in Range(Append(s, e))
    <2>1. Len(s) + 1 \in DOMAIN Append(s, e) /\ Append(s, e)[Len(s) + 1] = e
      OBVIOUS
    <2> QED BY <2>1 DEF Range
  <1> QED BY <1>1, <1>2, <1>3

\* The concatenation's elements are those of both.
LEMMA RangeConcat ==
    ASSUME NEW S, NEW s \in Seq(S), NEW t \in Seq(S)
    PROVE  Range(s \o t) = Range(s) \cup Range(t)
  <1>1. ASSUME NEW x \in Range(s \o t) PROVE x \in Range(s) \cup Range(t)
    <2>1. PICK i \in DOMAIN (s \o t) : (s \o t)[i] = x
      BY <1>1 DEF Range
    <2>2. CASE i <= Len(s)
      BY <2>1, <2>2 DEF Range
    <2>3. CASE i > Len(s)
      <3>1. i - Len(s) \in DOMAIN t /\ t[i - Len(s)] = x
        BY <2>1, <2>3
      <3> QED BY <3>1 DEF Range
    <2> QED BY <2>1, <2>2, <2>3
  <1>2. ASSUME NEW x \in Range(s) PROVE x \in Range(s \o t)
    <2>1. PICK i \in DOMAIN s : s[i] = x
      BY <1>2 DEF Range
    <2>2. i \in DOMAIN (s \o t) /\ (s \o t)[i] = x
      BY <2>1
    <2> QED BY <2>2 DEF Range
  <1>3. ASSUME NEW x \in Range(t) PROVE x \in Range(s \o t)
    <2>1. PICK i \in DOMAIN t : t[i] = x
      BY <1>3 DEF Range
    <2>2. Len(s) + i \in DOMAIN (s \o t) /\ (s \o t)[Len(s) + i] = x
      BY <2>1
    <2> QED BY <2>2 DEF Range
  <1> QED BY <1>1, <1>2, <1>3

\* Head and Tail of a sequence give elements of it.
LEMMA RangeHeadTail ==
    ASSUME NEW S, NEW s \in Seq(S), s # <<>>
    PROVE  Head(s) \in Range(s) /\ Range(Tail(s)) \subseteq Range(s)
  <1>1. Head(s) \in Range(s)
    <2>1. 1 \in DOMAIN s /\ s[1] = Head(s)
      OBVIOUS
    <2> QED BY <2>1 DEF Range
  <1>2. ASSUME NEW x \in Range(Tail(s)) PROVE x \in Range(s)
    <2>1. PICK i \in DOMAIN Tail(s) : Tail(s)[i] = x
      BY <1>2 DEF Range
    <2>2. i + 1 \in DOMAIN s /\ s[i + 1] = x
      BY <2>1
    <2> QED BY <2>2 DEF Range
  <1> QED BY <1>1, <1>2

\* The elements of a sequence over S are in S.
LEMMA RangeIn ==
    ASSUME NEW S, NEW s \in Seq(S)
    PROVE  Range(s) \subseteq S
  BY DEF Range

\* The empty sequence has none.
LEMMA RangeEmpty == Range(<<>>) = {}
  BY DEF Range

-----------------------------------------------------------------------------
\* Deleting what is alive counts each of its boxes once.
LEMMA DeleteLive ==
    ASSUME TypeOK, CountOK, NEW S \in SUBSET Live, Delete(S), made' = made
    PROVE  /\ deleted' \in [Boxes -> Nat]
           /\ CountOK'
           /\ Live' = Live \ S
  <1>1. \A b \in Boxes : deleted'[b] = IF b \in S THEN deleted[b] + 1 ELSE deleted[b]
    BY DEF Delete, Owned, TypeOK
  <1>2. deleted' \in [Boxes -> Nat]
    BY DEF Delete, Owned, TypeOK
  <1>3. Live \subseteq Boxes /\ \A b \in S : deleted[b] = 0 /\ b \in made
    BY DEF Live, TypeOK
  <1>4. CountOK'
    BY <1>1, <1>3 DEF CountOK
  <1>5. Live' = Live \ S
    BY <1>1, <1>3 DEF Live, TypeOK
  <1> QED BY <1>2, <1>4, <1>5

\* Builders hold closures and pipelines passes.
LEMMA HeldTypes ==
    ASSUME TypeOK
    PROVE  /\ \A B \in Builders : OfBuilder(B) \subseteq Closures
           /\ \A P \in Pipes : OfPipe(P) \subseteq Passes
  <1>1. ASSUME NEW B \in Builders, NEW k \in Kinds PROVE Range(registered[B][k]) \subseteq Closures
    BY RangeIn DEF TypeOK
  <1>2. ASSUME NEW P \in Pipes PROVE OfPipe(P) \subseteq Passes
    BY RangeIn DEF TypeOK, OfPipe
  <1> QED BY <1>1, <1>2 DEF OfBuilder

\* A step that makes and frees no box and leaves the passes of every pipeline
\* as they are.
LEMMA SameHeld ==
    ASSUME PluginInv, UNCHANGED <<made, deleted, builders, registered>>,
           \A P \in Pipes : OfPipe(P)' = OfPipe(P),
           \A P \in Pipes : pipes'[P].state = "none" => OfPipe(P) = {}
    PROVE  CountOK' /\ HeldOK' /\ OwnedOK'
  <1>1. Live' = Live /\ \A B \in Builders : OfBuilder(B)' = OfBuilder(B)
    BY DEF Live, OfBuilder
  <1>2. CountOK'
    BY DEF PluginInv, CountOK
  <1>3. HeldOK'
    BY <1>1 DEF PluginInv, HeldOK
  <1>4. OwnedOK'
    BY <1>1 DEF PluginInv, OwnedOK
  <1> QED BY <1>2, <1>3, <1>4

\* The invariant holds when nothing was loaded yet.
LEMMA InitInv == Init => PluginInv
  <1> SUFFICES ASSUME Init PROVE PluginInv
    OBVIOUS
  <1>1. TypeOK
    BY DEF Init, TypeOK, NoCallbacks, NoPipe, Idle
  <1>2. HostOK /\ CountOK
    BY DEF Init, HostOK, CountOK, Idle
  <1>3. /\ \A B \in Builders : OfBuilder(B) = {}
        /\ \A P \in Pipes : OfPipe(P) = {}
    BY RangeEmpty DEF Init, OfBuilder, OfPipe, NoCallbacks, NoPipe
  <1>4. Live = {}
    BY DEF Init, Live
  <1>5. CallOK
    BY RangeEmpty DEF Init, CallOK, Current, Idle
  <1> QED BY <1>1, <1>2, <1>3, <1>4, <1>5 DEF PluginInv, HeldOK, OwnedOK

\* Load preserves the invariant.
LEMMA LoadInv ==
    ASSUME PluginInv, NEW B \in Builders, Load(B)
    PROVE  PluginInv'
  <1>0. TypeOK /\ HostOK /\ CallOK /\ OwnedOK
    BY DEF PluginInv
  <1>1. /\ host' = [Idle EXCEPT !.doing = "registrar", !.builder = B]
        /\ host = Idle /\ builders[B] = "unborn"
        /\ builders' = [builders EXCEPT ![B] = "live"]
        /\ UNCHANGED <<made, deleted, registered, pipes, call>>
    BY DEF Load
  <1>2. TypeOK'
    BY <1>0, <1>1 DEF TypeOK, Idle
  <1>3. HostOK'
    BY <1>0, <1>1 DEF HostOK, Idle, TypeOK
  <1>4. CallOK'
    BY <1>0, <1>1, RangeEmpty DEF CallOK, Current, Idle
  <1>5. Live' = Live /\ CountOK'
    BY <1>1 DEF Live, CountOK, PluginInv
  <1>6. /\ \A D \in Builders : OfBuilder(D)' = OfBuilder(D)
        /\ \A P \in Pipes : OfPipe(P)' = OfPipe(P)
    BY <1>1 DEF OfBuilder, OfPipe
  <1>7. HeldOK'
    BY <1>5, <1>6 DEF PluginInv, HeldOK
  <1>8. \A D \in Builders : builders'[D] # "live" => OfBuilder(D) = {}
    BY <1>0, <1>1 DEF OwnedOK, TypeOK
  <1>9. OwnedOK'
    BY <1>0, <1>1, <1>5, <1>6, <1>8 DEF OwnedOK
  <1> QED BY <1>2, <1>3, <1>4, <1>5, <1>7, <1>9 DEF PluginInv

\* AddCallback preserves the invariant.
LEMMA AddCallbackInv ==
    ASSUME PluginInv, NEW c \in Closures, NEW k \in Kinds, AddCallback(c, k)
    PROVE  PluginInv'
  <1>0. TypeOK /\ HostOK /\ CallOK /\ CountOK /\ HeldOK /\ OwnedOK
    BY DEF PluginInv
  <1>1. /\ host.doing = "registrar" /\ c \notin made
        /\ made' = made \cup {c}
        /\ registered' = [registered EXCEPT ![host.builder][k] = Append(@, c)]
        /\ UNCHANGED <<deleted, builders, pipes, host, call>>
    BY DEF AddCallback
  <1>2. PICK B \in Builders : B = host.builder /\ builders[B] = "live"
    BY <1>0, <1>1 DEF HostOK
  <1>3. /\ registered[B][k] \in Seq(Closures)
        /\ registered'[B][k] = Append(registered[B][k], c)
        /\ \A j \in Kinds : j # k => registered'[B][j] = registered[B][j]
        /\ \A D \in Builders : D # B => registered'[D] = registered[D]
    BY <1>0, <1>1, <1>2 DEF TypeOK
  <1>4. registered' \in [Builders -> [Kinds -> Seq(Closures)]]
    BY <1>0, <1>1, <1>2 DEF TypeOK
  <1>5. TypeOK'
    BY <1>0, <1>1, <1>4 DEF TypeOK, Boxes
  <1>6. HostOK'
    BY <1>0, <1>1 DEF HostOK
  <1>7. deleted[c] = 0
    BY <1>0, <1>1 DEF CountOK, Boxes
  <1>8. CountOK' /\ Live' = Live \cup {c} /\ c \notin Live
    BY <1>0, <1>1, <1>7 DEF CountOK, Live
  <1>9. Range(registered'[B][k]) = Range(registered[B][k]) \cup {c}
    BY <1>3, RangeAppend
  <1>10. OfBuilder(B)' = OfBuilder(B) \cup {c}
    <2>1. UNION {Range(registered'[B][j]) : j \in Kinds} = OfBuilder(B) \cup {c}
      BY <1>3, <1>9 DEF OfBuilder
    <2> QED BY <2>1 DEF OfBuilder
  <1>11. \A D \in Builders : D # B => OfBuilder(D)' = OfBuilder(D)
    BY <1>3 DEF OfBuilder
  <1>12. \A P \in Pipes : OfPipe(P)' = OfPipe(P)
    BY <1>1 DEF OfPipe
  <1>13. HeldOK'
    BY <1>0, <1>2, <1>8, <1>10, <1>11, <1>12 DEF HeldOK
  <1>14. OwnedOK'
    BY <1>0, <1>1, <1>2, <1>8, <1>10, <1>11, <1>12 DEF OwnedOK
  <1>15. CallOK'
    BY <1>0, <1>1 DEF CallOK, Current
  <1> QED BY <1>5, <1>6, <1>8, <1>13, <1>14, <1>15 DEF PluginInv

\* EndRegistrar preserves the invariant.
LEMMA EndRegistrarInv ==
    ASSUME PluginInv, EndRegistrar
    PROVE  PluginInv'
  <1>0. TypeOK /\ HostOK /\ CallOK /\ OwnedOK
    BY DEF PluginInv
  <1>1. /\ host.doing = "registrar" /\ host' = Idle
        /\ UNCHANGED <<made, deleted, builders, registered, pipes, call>>
    BY DEF EndRegistrar
  <1>2. TypeOK'
    BY <1>0, <1>1 DEF TypeOK, Idle
  <1>3. HostOK'
    BY <1>1 DEF HostOK, Idle
  <1>4. CallOK'
    BY <1>0, <1>1, RangeEmpty DEF CallOK, Current, Idle
  <1>5. CountOK' /\ HeldOK' /\ OwnedOK'
    BY <1>0, <1>1, SameHeld DEF OfPipe, OwnedOK
  <1> QED BY <1>2, <1>3, <1>4, <1>5 DEF PluginInv

\* Begin preserves the invariant.
LEMMA BeginInv ==
    ASSUME PluginInv, NEW B \in Builders, NEW what \in {"parse", "ep", "analyses"},
           NEW of \in {"mpm", "fpm"}, NEW P \in Pipes \cup {None},
           NEW probe \in BOOLEAN, NEW utf8 \in BOOLEAN,
           Begin(B, what, of, P, probe, utf8)
    PROVE  PluginInv'
  <1>0. TypeOK /\ HostOK /\ CallOK /\ OwnedOK
    BY DEF PluginInv
  <1>1. /\ host = Idle /\ builders[B] = "live"
        /\ host' = [doing |-> what, builder |-> B, pipe |-> P, probe |-> probe,
                    utf8 |-> utf8, todo |-> registered[B][<<what, of>>]]
        /\ UNCHANGED <<made, deleted, builders, registered, call>>
    BY DEF Begin
  <1>2. /\ what = "analyses" => P = None /\ pipes' = pipes
        /\ what # "analyses" =>
              /\ P # None /\ pipes[P] = NoPipe
              /\ pipes' = [pipes EXCEPT ![P] = [NoPipe EXCEPT !.state = "building", !.of = of]]
    BY DEF Begin
  <1>3. <<what, of>> \in Kinds /\ registered[B][<<what, of>>] \in Seq(Closures)
    <2>1. <<what, of>> \in Kinds
      BY DEF Kinds
    <2>2. registered[B] \in [Kinds -> Seq(Closures)]
      BY <1>0 DEF TypeOK
    <2> QED BY <2>1, <2>2
  <1>4. registered[B][<<what, of>>] \in Seq(Boxes)
    BY <1>3 DEF Boxes
  <1> DEFINE new == [state |-> "building", of |-> of, passes |-> <<>>]
  <1>a. what # "analyses" => /\ P \in Pipes /\ pipes[P] = NoPipe
                             /\ pipes' = [pipes EXCEPT ![P] = new]
    BY <1>2 DEF NoPipe
  <1>b. new \in [state : {"none", "building", "ready"}, of : {"mpm", "fpm"}, passes : Seq(Passes)]
    OBVIOUS
  <1>5. pipes' \in [Pipes -> [state : {"none", "building", "ready"},
                             of : {"mpm", "fpm"}, passes : Seq(Passes)]]
    <2> HIDE DEF new
    <2> QED BY <1>0, <1>2, <1>a, <1>b DEF TypeOK
  <1>6. \A Q \in Pipes : pipes'[Q] = pipes[Q] \/ (pipes'[Q].passes = <<>> /\ pipes[Q].passes = <<>>)
    <2>1. CASE what = "analyses"
      <3>1. pipes' = pipes
        BY <2>1, <1>2
      <3> QED BY <3>1
    <2>2. CASE what # "analyses"
      <3>1. SUFFICES ASSUME NEW Q \in Pipes
                     PROVE pipes'[Q] = pipes[Q] \/ (pipes'[Q].passes = <<>> /\ pipes[Q].passes = <<>>)
        OBVIOUS
      <3>2. CASE Q = P
        <4>1. pipes'[P] = new
          BY <1>0, <1>a, <2>2 DEF TypeOK
        <4>2. pipes[P].passes = <<>>
          BY <1>a, <2>2 DEF NoPipe
        <4> QED BY <3>2, <4>1, <4>2
      <3>3. CASE Q # P
        <4> HIDE DEF new
        <4> QED BY <3>3, <1>0, <1>a, <2>2 DEF TypeOK
      <3> QED BY <3>2, <3>3
    <2> QED BY <2>1, <2>2
  <1>7. \A Q \in Pipes : pipes'[Q].of = "fpm" =>
           \A p \in Range(pipes'[Q].passes) : PassLevel[p] \in {"function", "loop"}
    BY <1>0, <1>6, RangeEmpty DEF TypeOK
  <1>8. host' \in [doing : {"idle", "registrar", "parse", "ep", "analyses", "run", "aborted"},
                 builder : Builders \cup {None}, pipe : Pipes \cup {None},
                 todo : Seq(Boxes), probe : BOOLEAN, utf8 : BOOLEAN]
    BY <1>1, <1>4
  <1>9. TypeOK'
    BY <1>0, <1>1, <1>5, <1>7, <1>8 DEF TypeOK
  <1>c. what # "analyses" => pipes'[P].state = "building"
    BY <1>0, <1>a DEF TypeOK
  <1> HIDE DEF new
  <1>10. HostOK'
    BY <1>1, <1>2, <1>a, <1>c DEF HostOK
  <1>11. call = None
    BY <1>0, <1>1 DEF CallOK, Current, Idle
  <1>12. CallOK'
    <2>1. Range(host.todo)' \subseteq OfBuilder(B)
      BY <1>1, <1>3 DEF OfBuilder
    <2>2. Current' = OfBuilder(B)
      BY <1>1 DEF Current, OfBuilder
    <2> QED BY <2>1, <2>2, <1>1, <1>11 DEF CallOK
  <1>13. \A Q \in Pipes : OfPipe(Q)' = OfPipe(Q)
    BY <1>6 DEF OfPipe
  <1>14. \A Q \in Pipes : pipes'[Q].state = "none" => OfPipe(Q) = {}
    <2>1. SUFFICES ASSUME NEW Q \in Pipes, pipes'[Q].state = "none" PROVE OfPipe(Q) = {}
      OBVIOUS
    <2>2. CASE pipes'[Q] = pipes[Q]
      BY <1>0, <2>1, <2>2 DEF OwnedOK
    <2>3. CASE pipes[Q].passes = <<>>
      BY <2>3, RangeEmpty DEF OfPipe
    <2> QED BY <1>6, <2>2, <2>3
  <1>15. CountOK' /\ HeldOK' /\ OwnedOK'
    BY <1>1, <1>13, <1>14, SameHeld
  <1> QED BY <1>9, <1>10, <1>12, <1>15 DEF PluginInv

\* Enter and RejectName, which both take the next box off the list.
LEMMA NextBoxInv ==
    ASSUME PluginInv, Enter \/ RejectName
    PROVE  PluginInv'
  <1>0. TypeOK /\ HostOK /\ CallOK /\ OwnedOK
    BY DEF PluginInv
  <1>1. /\ host.todo # <<>>
        /\ host' = [host EXCEPT !.todo = Tail(@)]
        /\ call' \in {Head(host.todo), None}
        /\ UNCHANGED <<made, deleted, builders, registered, pipes>>
    BY DEF Enter, RejectName
  <1>2. host.todo \in Seq(Boxes)
    BY <1>0 DEF TypeOK
  <1>3. Head(host.todo) \in Range(host.todo) /\ Range(Tail(host.todo)) \subseteq Range(host.todo)
    BY <1>1, <1>2, RangeHeadTail
  <1>4. Head(host.todo) \in Boxes /\ Tail(host.todo) \in Seq(Boxes)
    BY <1>1, <1>2
  <1>5. /\ host'.todo = Tail(host.todo) /\ host'.doing = host.doing
        /\ host'.builder = host.builder /\ host'.pipe = host.pipe
    BY <1>0, <1>1 DEF TypeOK
  <1>6. host' \in [doing : {"idle", "registrar", "parse", "ep", "analyses", "run", "aborted"},
                 builder : Builders \cup {None}, pipe : Pipes \cup {None},
                 todo : Seq(Boxes), probe : BOOLEAN, utf8 : BOOLEAN]
    BY <1>0, <1>1, <1>4 DEF TypeOK
  <1>7. TypeOK'
    BY <1>0, <1>1, <1>4, <1>6 DEF TypeOK
  <1>8. HostOK'
    BY <1>0, <1>1, <1>5 DEF HostOK
  <1>9. CallOK'
    <2>1. Current' = Current
      BY <1>1, <1>5 DEF Current, OfBuilder, OfPipe
    <2> QED BY <2>1, <1>0, <1>1, <1>3, <1>5 DEF CallOK
  <1>10. CountOK' /\ HeldOK' /\ OwnedOK'
    BY <1>0, <1>1, SameHeld DEF OfPipe, OwnedOK
  <1> QED BY <1>7, <1>8, <1>9, <1>10 DEF PluginInv

\* AddPass preserves the invariant.
LEMMA AddPassInv ==
    ASSUME PluginInv, NEW p \in Passes, AddPass(p)
    PROVE  PluginInv'
  <1>0. TypeOK /\ HostOK /\ CallOK /\ CountOK /\ HeldOK /\ OwnedOK
    BY DEF PluginInv
  <1>1. /\ call \in Closures /\ host.pipe # None /\ p \notin made
        /\ PassLevel[p] \in Addable(pipes[host.pipe].of)
        /\ made' = made \cup {p}
        /\ pipes' = [pipes EXCEPT ![host.pipe].passes = Append(@, p)]
        /\ UNCHANGED <<deleted, builders, registered, host, call>>
    BY DEF AddPass
  <1>2. PICK P \in Pipes : P = host.pipe
    BY <1>0, <1>1 DEF TypeOK
  <1>3. /\ pipes[P].passes \in Seq(Passes)
        /\ pipes'[P].passes = Append(pipes[P].passes, p)
        /\ pipes'[P].state = pipes[P].state /\ pipes'[P].of = pipes[P].of
        /\ \A Q \in Pipes : Q # P => pipes'[Q] = pipes[Q]
    BY <1>0, <1>1, <1>2 DEF TypeOK
  <1>4. OfPipe(P)' = OfPipe(P) \cup {p}
    BY <1>3, RangeAppend DEF OfPipe
  <1>5. \A Q \in Pipes : Q # P => OfPipe(Q)' = OfPipe(Q)
    BY <1>3 DEF OfPipe
  <1>6. \A B \in Builders : OfBuilder(B)' = OfBuilder(B)
    BY <1>1 DEF OfBuilder
  <1>7. host.doing \in {"parse", "ep", "analyses"}
    <2>1. call \in Current
      BY <1>0, <1>1, NoneAssumption DEF CallOK, Boxes
    <2>2. host.doing # "run"
      <3>1. SUFFICES ASSUME host.doing = "run" PROVE FALSE
        OBVIOUS
      <3>2. call \in OfPipe(host.pipe)
        BY <2>1, <3>1 DEF Current
      <3>3. call \in Passes
        BY <3>2, <1>0, <1>2, HeldTypes
      <3> QED BY <3>3, <1>1, BoxesAssumption
    <2> QED BY <2>1, <2>2 DEF Current
  <1>8. TypeOK'
    <2>1. pipes' \in [Pipes -> [state : {"none", "building", "ready"},
                             of : {"mpm", "fpm"}, passes : Seq(Passes)]]
      <3>1. Append(pipes[P].passes, p) \in Seq(Passes)
        BY <1>3
      <3>2. [pipes[P] EXCEPT !.passes = Append(@, p)]
              \in [state : {"none", "building", "ready"}, of : {"mpm", "fpm"}, passes : Seq(Passes)]
        BY <1>0, <3>1 DEF TypeOK
      <3> QED BY <1>0, <1>1, <1>2, <3>2 DEF TypeOK
    <2>2. \A Q \in Pipes : pipes'[Q].of = "fpm" =>
             \A x \in Range(pipes'[Q].passes) : PassLevel[x] \in {"function", "loop"}
      <3>1. pipes[P].of = "fpm" => PassLevel[p] \in {"function", "loop"}
        BY <1>1, <1>2 DEF Addable
      <3>2. Range(pipes'[P].passes) = Range(pipes[P].passes) \cup {p}
        BY <1>3, RangeAppend
      <3> QED BY <3>1, <3>2, <1>0, <1>3 DEF TypeOK
    <2> QED BY <1>0, <1>1, <2>1, <2>2 DEF TypeOK, Boxes
  <1>9. HostOK'
    BY <1>0, <1>1, <1>2, <1>3 DEF HostOK
  <1>10. CallOK'
    BY <1>0, <1>1, <1>7 DEF CallOK, Current, OfBuilder
  <1>11. deleted[p] = 0
    BY <1>0, <1>1 DEF CountOK, Boxes
  <1>12. CountOK' /\ Live' = Live \cup {p} /\ p \notin Live
    BY <1>0, <1>1, <1>11 DEF CountOK, Live
  <1>13. HeldOK'
    BY <1>0, <1>4, <1>5, <1>6, <1>12 DEF HeldOK
  <1>14. pipes[P].state # "none"
    BY <1>0, <1>1, <1>2, <1>7 DEF HostOK
  <1>15. OwnedOK'
    BY <1>0, <1>1, <1>3, <1>4, <1>5, <1>6, <1>12, <1>14 DEF OwnedOK
  <1> QED BY <1>8, <1>9, <1>10, <1>12, <1>13, <1>15 DEF PluginInv

\* A pipeline that is destroyed takes its passes, and nothing else, with it.
LEMMA DestroyHeld ==
    ASSUME PluginInv, NEW P \in Pipes, Destroy(P),
           UNCHANGED <<made, builders, registered>>
    PROVE  /\ deleted' \in [Boxes -> Nat]
           /\ pipes' \in [Pipes -> [state : {"none", "building", "ready"},
                                    of : {"mpm", "fpm"}, passes : Seq(Passes)]]
           /\ \A Q \in Pipes : pipes'[Q].of = "fpm" =>
                 \A p \in Range(pipes'[Q].passes) : PassLevel[p] \in {"function", "loop"}
           /\ CountOK' /\ HeldOK' /\ OwnedOK'
  <1>0. TypeOK /\ CountOK /\ HeldOK /\ OwnedOK
    BY DEF PluginInv
  <1>1. Delete(OfPipe(P)) /\ pipes' = [pipes EXCEPT ![P] = NoPipe]
    BY DEF Destroy, OfPipe
  <1>2. OfPipe(P) \subseteq Live
    BY <1>0 DEF HeldOK
  <1>3. deleted' \in [Boxes -> Nat] /\ CountOK' /\ Live' = Live \ OfPipe(P)
    BY <1>0, <1>1, <1>2, DeleteLive
  <1>4. NoPipe \in [state : {"none", "building", "ready"},
                   of : {"mpm", "fpm"}, passes : Seq(Passes)]
    BY DEF NoPipe
  <1>5. /\ pipes'[P] = NoPipe
        /\ \A Q \in Pipes : Q # P => pipes'[Q] = pipes[Q]
        /\ pipes' \in [Pipes -> [state : {"none", "building", "ready"},
                                 of : {"mpm", "fpm"}, passes : Seq(Passes)]]
    BY <1>0, <1>1, <1>4 DEF TypeOK
  <1>6. pipes'[P].of = "mpm" /\ OfPipe(P)' = {}
    BY <1>5, RangeEmpty DEF OfPipe, NoPipe
  <1>7. \A Q \in Pipes : Q # P => OfPipe(Q)' = OfPipe(Q)
    BY <1>5 DEF OfPipe
  <1>8. \A Q \in Pipes : pipes'[Q].of = "fpm" =>
           \A p \in Range(pipes'[Q].passes) : PassLevel[p] \in {"function", "loop"}
    BY <1>0, <1>5, <1>6 DEF TypeOK
  <1>9. \A B \in Builders : OfBuilder(B)' = OfBuilder(B)
    BY DEF OfBuilder
  <1>10. \A B \in Builders : OfBuilder(B) \cap OfPipe(P) = {}
    BY <1>0, HeldTypes, BoxesAssumption
  <1>11. HeldOK'
    BY <1>0, <1>3, <1>6, <1>7, <1>9, <1>10 DEF HeldOK
  <1>12. \A Q \in Pipes : pipes'[Q].state = "none" => OfPipe(Q)' = {}
    BY <1>0, <1>5, <1>6, <1>7 DEF OwnedOK
  <1>13. OwnedOK'
    BY <1>0, <1>3, <1>7, <1>9, <1>12 DEF OwnedOK
  <1> QED BY <1>3, <1>5, <1>8, <1>11, <1>13

\* When the host ends what it was doing, it calls nothing.
LEMMA HostIdle ==
    ASSUME host' = Idle, call' = None
    PROVE  /\ HostOK' /\ CallOK'
           /\ call' \in Boxes \cup {None}
           /\ host' \in [doing : {"idle", "registrar", "parse", "ep", "analyses", "run", "aborted"},
                         builder : Builders \cup {None}, pipe : Pipes \cup {None},
                         todo : Seq(Boxes), probe : BOOLEAN, utf8 : BOOLEAN]
  <1>1. HostOK'
    BY DEF HostOK, Idle
  <1>2. CallOK'
    BY RangeEmpty DEF CallOK, Idle
  <1> QED BY <1>1, <1>2 DEF Idle

\* A pipeline is ready: it owns what it owned.
LEMMA ReadyInv ==
    ASSUME PluginInv, NEW P \in Pipes, pipes[P].state = "building",
           pipes' = [pipes EXCEPT ![P].state = "ready"],
           UNCHANGED <<made, deleted, builders, registered>>, host' = Idle, call' = None
    PROVE  PluginInv'
  <1>0. TypeOK /\ OwnedOK
    BY DEF PluginInv
  <1>1. /\ pipes'[P].passes = pipes[P].passes
        /\ pipes'[P].of = pipes[P].of /\ pipes'[P].state = "ready"
        /\ \A Q \in Pipes : Q # P => pipes'[Q] = pipes[Q]
    BY <1>0 DEF TypeOK
  <1>2. pipes' \in [Pipes -> [state : {"none", "building", "ready"},
                             of : {"mpm", "fpm"}, passes : Seq(Passes)]]
    <2>1. [pipes[P] EXCEPT !.state = "ready"]
            \in [state : {"none", "building", "ready"}, of : {"mpm", "fpm"}, passes : Seq(Passes)]
      BY <1>0 DEF TypeOK
    <2> QED BY <1>0, <2>1 DEF TypeOK
  <1>3. \A Q \in Pipes : pipes'[Q].of = "fpm" =>
           \A p \in Range(pipes'[Q].passes) : PassLevel[p] \in {"function", "loop"}
    BY <1>0, <1>1 DEF TypeOK
  <1>4. TypeOK'
    BY <1>0, <1>2, <1>3, HostIdle DEF TypeOK
  <1>5. \A Q \in Pipes : OfPipe(Q)' = OfPipe(Q)
    BY <1>1 DEF OfPipe
  <1>6. \A Q \in Pipes : pipes'[Q].state = "none" => OfPipe(Q) = {}
    BY <1>0, <1>1 DEF OwnedOK
  <1>7. CountOK' /\ HeldOK' /\ OwnedOK'
    BY <1>5, <1>6, SameHeld
  <1> QED BY <1>4, <1>7, HostIdle DEF PluginInv

\* A pipeline is given up while the host is done with it.
LEMMA GivenUpInv ==
    ASSUME PluginInv, NEW P \in Pipes, Destroy(P),
           UNCHANGED <<made, builders, registered>>, host' = Idle, call' = None
    PROVE  PluginInv'
  <1>1. TypeOK'
    BY DestroyHeld, HostIdle DEF PluginInv, TypeOK
  <1> QED BY <1>1, DestroyHeld, HostIdle DEF PluginInv

\* A step that changes nothing but what the host is doing, to nothing.
LEMMA RestInv ==
    ASSUME PluginInv, UNCHANGED <<made, deleted, builders, registered, pipes>>,
           host' = Idle, call' = None
    PROVE  PluginInv'
  <1>1. TypeOK'
    BY HostIdle DEF PluginInv, TypeOK
  <1>2. CountOK' /\ HeldOK' /\ OwnedOK'
    BY SameHeld DEF PluginInv, OwnedOK, OfPipe
  <1> QED BY <1>1, <1>2, HostIdle DEF PluginInv

\* AnswerParsed preserves the invariant.
LEMMA AnswerParsedInv ==
    ASSUME PluginInv, AnswerParsed
    PROVE  PluginInv'
  <1>1. /\ host.doing = "parse" /\ host' = Idle /\ call' = None
        /\ UNCHANGED <<made, builders, registered>>
        /\ host.probe => Destroy(host.pipe)
        /\ ~host.probe => /\ pipes' = [pipes EXCEPT ![host.pipe].state = "ready"]
                          /\ deleted' = deleted
    BY DEF AnswerParsed
  <1>2. PICK P \in Pipes : P = host.pipe /\ pipes[P].state = "building"
    BY <1>1 DEF PluginInv, HostOK
  <1>3. CASE host.probe
    BY <1>1, <1>2, <1>3, GivenUpInv
  <1>4. CASE ~host.probe
    BY <1>1, <1>2, <1>4, ReadyInv
  <1> QED BY <1>3, <1>4

\* Finish preserves the invariant.
LEMMA FinishInv ==
    ASSUME PluginInv, Finish
    PROVE  PluginInv'
  <1>1. /\ host.doing \in {"parse", "ep", "analyses", "run"}
        /\ host' = Idle /\ call' = None
        /\ UNCHANGED <<made, builders, registered>>
        /\ host.doing = "parse" => Destroy(host.pipe)
        /\ host.doing = "ep" => /\ pipes' = [pipes EXCEPT ![host.pipe].state = "ready"]
                                /\ deleted' = deleted
        /\ host.doing \in {"analyses", "run"} => pipes' = pipes /\ deleted' = deleted
    BY DEF Finish
  <1>2. CASE host.doing \in {"parse", "ep"}
    <2>1. PICK P \in Pipes : P = host.pipe /\ pipes[P].state = "building"
      BY <1>2 DEF PluginInv, HostOK
    <2>2. CASE host.doing = "parse"
      BY <1>1, <2>1, <2>2, GivenUpInv
    <2>3. CASE host.doing = "ep"
      BY <1>1, <2>1, <2>3, ReadyInv
    <2> QED BY <1>2, <2>2, <2>3
  <1>3. CASE host.doing \in {"analyses", "run"}
    BY <1>1, <1>3, RestInv
  <1> QED BY <1>1, <1>2, <1>3

\* Return preserves the invariant.
LEMMA ReturnInv ==
    ASSUME PluginInv, Return
    PROVE  PluginInv'
  <1>1. call' = None /\ UNCHANGED <<made, deleted, builders, registered, pipes, host>>
    BY DEF Return
  <1>2. TypeOK'
    BY <1>1 DEF PluginInv, TypeOK
  <1>3. HostOK'
    BY <1>1 DEF PluginInv, HostOK
  <1>4. CallOK'
    BY <1>1 DEF PluginInv, CallOK, Current, OfBuilder, OfPipe
  <1>5. CountOK' /\ HeldOK' /\ OwnedOK'
    BY <1>1, SameHeld DEF PluginInv, OwnedOK, OfPipe
  <1> QED BY <1>2, <1>3, <1>4, <1>5 DEF PluginInv

\* ClosurePanics preserves the invariant.
LEMMA ClosurePanicsInv ==
    ASSUME PluginInv, ClosurePanics
    PROVE  PluginInv'
  <1>1. /\ call' = None /\ host' = [Idle EXCEPT !.doing = "aborted"]
        /\ UNCHANGED <<made, deleted, builders, registered, pipes>>
    BY DEF ClosurePanics
  <1>2. TypeOK'
    <2>1. host' = [doing |-> "aborted", builder |-> None, pipe |-> None,
                   todo |-> <<>>, probe |-> FALSE, utf8 |-> TRUE]
      BY <1>1 DEF Idle
    <2>2. host' \in [doing : {"idle", "registrar", "parse", "ep", "analyses", "run", "aborted"},
                    builder : Builders \cup {None}, pipe : Pipes \cup {None},
                    todo : Seq(Boxes), probe : BOOLEAN, utf8 : BOOLEAN]
      BY <2>1
    <2> QED BY <1>1, <2>2 DEF PluginInv, TypeOK
  <1>3. HostOK'
    BY <1>1 DEF HostOK, Idle
  <1>4. CallOK'
    BY <1>1, RangeEmpty DEF CallOK, Current, Idle
  <1>5. CountOK' /\ HeldOK' /\ OwnedOK'
    BY <1>1, SameHeld DEF PluginInv, OwnedOK, OfPipe
  <1> QED BY <1>2, <1>3, <1>4, <1>5 DEF PluginInv

\* Nest preserves the invariant.
LEMMA NestInv ==
    ASSUME PluginInv, NEW P \in Pipes, NEW Q \in Pipes, Nest(Q, P)
    PROVE  PluginInv'
  <1>0. TypeOK /\ HostOK /\ CallOK /\ CountOK /\ HeldOK /\ OwnedOK
    BY DEF PluginInv
  <1>1. /\ host = Idle /\ P # Q
        /\ pipes[P].state = "ready" /\ pipes[Q].state = "ready"
        /\ pipes[P].of = "mpm" \/ pipes[Q].of = "fpm"
        /\ pipes' = [pipes EXCEPT ![P].passes = @ \o pipes[Q].passes,
                                  ![Q].passes = <<>>]
        /\ UNCHANGED <<made, deleted, builders, registered, host, call>>
    BY DEF Nest, MovedFrom
  <1>2. pipes[P].passes \in Seq(Passes) /\ pipes[Q].passes \in Seq(Passes)
    BY <1>0 DEF TypeOK
  <1> DEFINE Type == [state : {"none", "building", "ready"},
                      of : {"mpm", "fpm"}, passes : Seq(Passes)]
             both == [pipes[P] EXCEPT !.passes = pipes[P].passes \o pipes[Q].passes]
             none == [pipes[Q] EXCEPT !.passes = <<>>]
  <1>a. pipes \in [Pipes -> Type]
    BY <1>0 DEF TypeOK
  <1>b. pipes[P] \in Type /\ pipes[Q] \in Type
    <2> HIDE DEF Type
    <2> QED BY <1>a
  <1>c. /\ both \in Type /\ both.passes = pipes[P].passes \o pipes[Q].passes
        /\ both.state = pipes[P].state /\ both.of = pipes[P].of
    <2>1. pipes[P].passes \o pipes[Q].passes \in Seq(Passes)
      BY <1>2
    <2> QED BY <1>b, <2>1
  <1>d. /\ none \in Type /\ none.passes = <<>>
        /\ none.state = pipes[Q].state /\ none.of = pipes[Q].of
    <2>1. <<>> \in Seq(Passes)
      OBVIOUS
    <2> QED BY <1>b, <2>1
  <1>e. pipes' = [[pipes EXCEPT ![P] = both] EXCEPT ![Q] = none]
    BY <1>1, <1>a
  <1>f. /\ pipes'[P] = both /\ pipes'[Q] = none
        /\ \A R \in Pipes : R # P /\ R # Q => pipes'[R] = pipes[R]
        /\ pipes' \in [Pipes -> Type]
    <2> HIDE DEF Type, both, none
    <2> QED BY <1>1, <1>a, <1>c, <1>d, <1>e
  <1> HIDE DEF Type, both, none
  <1>3. /\ pipes'[P].passes = pipes[P].passes \o pipes[Q].passes
        /\ pipes'[Q].passes = <<>>
        /\ \A R \in Pipes : pipes'[R].state = pipes[R].state /\ pipes'[R].of = pipes[R].of
        /\ \A R \in Pipes : R # P /\ R # Q => pipes'[R] = pipes[R]
    BY <1>c, <1>d, <1>f
  <1>4. /\ OfPipe(P)' = OfPipe(P) \cup OfPipe(Q)
        /\ OfPipe(Q)' = {}
        /\ \A R \in Pipes : R # P /\ R # Q => OfPipe(R)' = OfPipe(R)
    BY <1>2, <1>3, RangeConcat, RangeEmpty DEF OfPipe
  <1>5. pipes' \in [Pipes -> [state : {"none", "building", "ready"},
                             of : {"mpm", "fpm"}, passes : Seq(Passes)]]
    BY <1>f DEF Type
  <1>6. \A R \in Pipes : pipes'[R].of = "fpm" =>
           \A p \in Range(pipes'[R].passes) : PassLevel[p] \in {"function", "loop"}
    <2>1. SUFFICES ASSUME NEW R \in Pipes, pipes'[R].of = "fpm", NEW p \in OfPipe(R)'
                   PROVE  PassLevel[p] \in {"function", "loop"}
      BY DEF OfPipe
    <2>2. CASE R = P
      <3>1. pipes[P].of = "fpm" /\ pipes[Q].of = "fpm"
        BY <1>1, <1>3, <2>1, <2>2
      <3>2. p \in Range(pipes[P].passes) \/ p \in Range(pipes[Q].passes)
        BY <1>4, <2>1, <2>2 DEF OfPipe
      <3> QED BY <3>1, <3>2, <1>0 DEF TypeOK
    <2>3. CASE R = Q
      BY <1>4, <2>1, <2>3
    <2>4. CASE R # P /\ R # Q
      <3>1. pipes[R].of = "fpm" /\ p \in Range(pipes[R].passes)
        BY <1>3, <1>4, <2>1, <2>4 DEF OfPipe
      <3> QED BY <3>1, <1>0 DEF TypeOK
    <2> QED BY <2>2, <2>3, <2>4
  <1>7. TypeOK'
    BY <1>0, <1>1, <1>5, <1>6 DEF TypeOK
  <1>8. HostOK'
    BY <1>0, <1>1, <1>3 DEF HostOK, Idle
  <1>9. CallOK'
    BY <1>0, <1>1 DEF CallOK, Current, Idle
  <1>10. CountOK' /\ Live' = Live /\ \A B \in Builders : OfBuilder(B)' = OfBuilder(B)
    BY <1>0, <1>1 DEF CountOK, Live, OfBuilder
  <1>11. HeldOK'
    <2>1. \A R \in Pipes : OfPipe(R)' \subseteq Live
      BY <1>0, <1>4 DEF HeldOK
    <2>2. SUFFICES ASSUME NEW R \in Pipes, NEW T \in Pipes, R # T
                   PROVE  OfPipe(R)' \cap OfPipe(T)' = {}
      BY <1>0, <1>10, <2>1 DEF HeldOK
    <2>3. /\ OfPipe(R) \cap OfPipe(T) = {}
          /\ R # Q => OfPipe(R) \cap OfPipe(Q) = {}
          /\ T # Q => OfPipe(T) \cap OfPipe(Q) = {}
          /\ R # P => OfPipe(R) \cap OfPipe(P) = {}
          /\ T # P => OfPipe(T) \cap OfPipe(P) = {}
      BY <1>0, <2>2 DEF HeldOK
    <2>4. CASE R = P
      BY <2>2, <2>3, <2>4, <1>4
    <2>5. CASE T = P
      BY <2>2, <2>3, <2>5, <1>4
    <2>6. CASE R # P /\ T # P
      BY <2>2, <2>3, <2>6, <1>4
    <2> QED BY <2>4, <2>5, <2>6
  <1>12. OwnedOK'
    <2>1. \A b \in Live : (\E R \in Pipes : b \in OfPipe(R)) => \E R \in Pipes : b \in OfPipe(R)'
      BY <1>4
    <2>2. \A R \in Pipes : pipes'[R].state = "none" => OfPipe(R)' = {}
      BY <1>0, <1>1, <1>3, <1>4 DEF OwnedOK
    <2> QED BY <1>0, <1>1, <1>10, <2>1, <2>2 DEF OwnedOK
  <1> QED BY <1>7, <1>8, <1>9, <1>10, <1>11, <1>12 DEF PluginInv

\* Run preserves the invariant.
LEMMA RunInv ==
    ASSUME PluginInv, NEW P \in Pipes, Run(P)
    PROVE  PluginInv'
  <1>0. TypeOK /\ HostOK /\ CallOK /\ OwnedOK
    BY DEF PluginInv
  <1>1. /\ host = Idle /\ pipes[P].state = "ready"
        /\ host' = [Idle EXCEPT !.doing = "run", !.pipe = P, !.todo = pipes[P].passes]
        /\ UNCHANGED <<made, deleted, builders, registered, pipes, call>>
    BY DEF Run
  <1>2. host' = [doing |-> "run", builder |-> None, pipe |-> P,
                 todo |-> pipes[P].passes, probe |-> FALSE, utf8 |-> TRUE]
    BY <1>1 DEF Idle
  <1>3. pipes[P].passes \in Seq(Boxes)
    <2>1. pipes[P].passes \in Seq(Passes)
      BY <1>0 DEF TypeOK
    <2> QED BY <2>1 DEF Boxes
  <1>4. host' \in [doing : {"idle", "registrar", "parse", "ep", "analyses", "run", "aborted"},
                  builder : Builders \cup {None}, pipe : Pipes \cup {None},
                  todo : Seq(Boxes), probe : BOOLEAN, utf8 : BOOLEAN]
    BY <1>2, <1>3
  <1>5. TypeOK'
    BY <1>0, <1>1, <1>4 DEF TypeOK
  <1>6. HostOK'
    BY <1>2 DEF HostOK
  <1>7. call = None
    BY <1>0, <1>1 DEF CallOK, Current, Idle
  <1>8. CallOK'
    BY <1>1, <1>2, <1>7 DEF CallOK, Current, OfPipe
  <1>9. CountOK' /\ HeldOK' /\ OwnedOK'
    BY <1>0, <1>1, SameHeld DEF OwnedOK, OfPipe
  <1> QED BY <1>5, <1>6, <1>8, <1>9 DEF PluginInv

\* DestroyPipe preserves the invariant.
LEMMA DestroyPipeInv ==
    ASSUME PluginInv, NEW P \in Pipes, DestroyPipe(P)
    PROVE  PluginInv'
  <1>1. /\ host = Idle /\ Destroy(P)
        /\ UNCHANGED <<made, builders, registered, host, call>>
    BY DEF DestroyPipe
  <1>2. call = None
    BY <1>1 DEF PluginInv, CallOK, Current, Idle
  <1> QED BY <1>1, <1>2, GivenUpInv

\* DestroyBuilder preserves the invariant.
LEMMA DestroyBuilderInv ==
    ASSUME PluginInv, NEW B \in Builders, DestroyBuilder(B)
    PROVE  PluginInv'
  <1>0. TypeOK /\ HostOK /\ CallOK /\ CountOK /\ HeldOK /\ OwnedOK
    BY DEF PluginInv
  <1>1. /\ host = Idle /\ builders' = [builders EXCEPT ![B] = "gone"]
        /\ Delete(OfBuilder(B))
        /\ registered' = [registered EXCEPT ![B] = NoCallbacks]
        /\ UNCHANGED <<made, pipes, host, call>>
    BY DEF DestroyBuilder, OfBuilder
  <1>2. OfBuilder(B) \subseteq Live
    BY <1>0 DEF HeldOK
  <1>3. deleted' \in [Boxes -> Nat] /\ CountOK' /\ Live' = Live \ OfBuilder(B)
    BY <1>0, <1>1, <1>2, DeleteLive
  <1>4. NoCallbacks \in [Kinds -> Seq(Closures)]
    BY DEF NoCallbacks
  <1>5. /\ registered' \in [Builders -> [Kinds -> Seq(Closures)]]
        /\ registered'[B] = NoCallbacks
        /\ \A D \in Builders : D # B => registered'[D] = registered[D]
        /\ builders' \in [Builders -> {"unborn", "live", "gone"}]
        /\ \A D \in Builders : D # B => builders'[D] = builders[D]
    BY <1>0, <1>1, <1>4 DEF TypeOK
  <1>6. OfBuilder(B)' = {}
    BY <1>5, RangeEmpty DEF OfBuilder, NoCallbacks
  <1>7. \A D \in Builders : D # B => OfBuilder(D)' = OfBuilder(D)
    BY <1>5 DEF OfBuilder
  <1>8. \A P \in Pipes : OfPipe(P)' = OfPipe(P) /\ OfBuilder(B) \cap OfPipe(P) = {}
    BY <1>0, <1>1, HeldTypes, BoxesAssumption DEF OfPipe
  <1>9. call = None
    BY <1>0, <1>1 DEF CallOK, Current, Idle
  <1>10. HostOK' /\ CallOK' /\ TypeOK'
    BY <1>0, <1>1, <1>3, <1>5, <1>9, HostIdle DEF TypeOK
  <1>11. HeldOK'
    BY <1>0, <1>3, <1>6, <1>7, <1>8 DEF HeldOK
  <1>12. OwnedOK'
    BY <1>0, <1>1, <1>3, <1>5, <1>6, <1>7, <1>8 DEF OwnedOK
  <1> QED BY <1>3, <1>10, <1>11, <1>12 DEF PluginInv

\* Every step preserves the invariant.
LEMMA NextInv == PluginInv /\ [Next]_vars => PluginInv'
  <1> SUFFICES ASSUME PluginInv, [Next]_vars PROVE PluginInv'
    OBVIOUS
  <1>1. CASE \E B \in Builders : Load(B) \/ DestroyBuilder(B)
    BY <1>1, LoadInv, DestroyBuilderInv
  <1>2. CASE \E B \in Builders, what \in {"parse", "ep", "analyses"}, of \in {"mpm", "fpm"},
                P \in Pipes \cup {None}, probe, utf8 \in BOOLEAN :
                Begin(B, what, of, P, probe, utf8)
    BY <1>2, BeginInv
  <1>3. CASE \E c \in Closures, k \in Kinds : AddCallback(c, k)
    BY <1>3, AddCallbackInv
  <1>4. CASE EndRegistrar
    BY <1>4, EndRegistrarInv
  <1>5. CASE Enter \/ RejectName
    BY <1>5, NextBoxInv
  <1>6. CASE AnswerParsed \/ Return \/ ClosurePanics \/ Finish
    BY <1>6, AnswerParsedInv, ReturnInv, ClosurePanicsInv, FinishInv
  <1>7. CASE \E p \in Passes : AddPass(p)
    BY <1>7, AddPassInv
  <1>8. CASE \E P \in Pipes : Run(P) \/ DestroyPipe(P) \/ \E Q \in Pipes : Nest(Q, P)
    BY <1>8, RunInv, DestroyPipeInv, NestInv
  <1>9. CASE UNCHANGED vars
    <2>1. TypeOK' /\ HostOK' /\ CallOK'
      BY <1>9 DEF vars, PluginInv, TypeOK, HostOK, CallOK, Current, OfBuilder, OfPipe
    <2>2. CountOK' /\ HeldOK' /\ OwnedOK'
      BY <1>9, SameHeld DEF vars, PluginInv, OwnedOK, OfPipe
    <2> QED BY <2>1, <2>2 DEF PluginInv
  <1> QED BY <1>1, <1>2, <1>3, <1>4, <1>5, <1>6, <1>7, <1>8, <1>9 DEF Next

\* Every step of the plugin and its host is a step, or a stutter, of OwnedBoxes.
LEMMA StepOwned ==
    ASSUME PluginInv, PluginInv', [Next]_vars
    PROVE  [Ownership!Next]_(Ownership!vars)
  <1> DEFINE freed == {b \in Boxes : deleted[b] = 1}
             used == {call} \ {None}
  <1>1. made \subseteq made' /\ made' \subseteq Boxes
    <2>1. made \subseteq made'
      BY DEF Next, vars, Load, DestroyBuilder, Begin, AddCallback, EndRegistrar, Enter,
             RejectName, AnswerParsed, Return, ClosurePanics, Finish, AddPass, Run,
             DestroyPipe, Nest
    <2> QED BY <2>1 DEF PluginInv, TypeOK
  <1>2. used' \subseteq made' \ freed'
    <2>1. used' \subseteq Live'
      BY DEF PluginInv, CallOK, Current, HeldOK, HostOK
    <2> QED BY <2>1 DEF Live
  <1>3. freed \subseteq freed' /\ freed' \ freed \subseteq made \ used
    <2>1. CASE deleted' = deleted
      BY <2>1
    <2>2. CASE \E P \in Pipes : /\ Delete(OfPipe(P)) /\ made' = made
                                /\ used \cap OfPipe(P) = {}
      <3>1. PICK P \in Pipes : Delete(OfPipe(P)) /\ made' = made /\ used \cap OfPipe(P) = {}
        BY <2>2
      <3>2. OfPipe(P) \subseteq Live
        BY DEF PluginInv, HeldOK
      <3> QED BY <3>1, <3>2 DEF Delete, Owned, Live, PluginInv, TypeOK, CountOK
    <2>3. CASE \E B \in Builders : /\ Delete(OfBuilder(B)) /\ made' = made
                                   /\ used \cap OfBuilder(B) = {}
      <3>1. PICK B \in Builders : Delete(OfBuilder(B)) /\ made' = made /\ used \cap OfBuilder(B) = {}
        BY <2>3
      <3>2. OfBuilder(B) \subseteq Live
        BY DEF PluginInv, HeldOK
      <3> QED BY <3>1, <3>2 DEF Delete, Owned, Live, PluginInv, TypeOK, CountOK
    <2>4. QED
      <3>1. CASE AnswerParsed
        <4>1. host.pipe \in Pipes /\ call \in Closures /\ made' = made
          BY <3>1 DEF AnswerParsed, PluginInv, HostOK
        <4>2. used \cap OfPipe(host.pipe) = {}
          BY <4>1, HeldTypes, BoxesAssumption DEF PluginInv
        <4>3. deleted' = deleted \/ Delete(OfPipe(host.pipe))
          BY <3>1 DEF AnswerParsed, Destroy, OfPipe
        <4> QED BY <2>1, <2>2, <4>1, <4>2, <4>3
      <3>2. CASE Finish
        <4>1. call = None /\ made' = made /\ (host.doing = "parse" => host.pipe \in Pipes)
          BY <3>2 DEF Finish, PluginInv, HostOK
        <4>2. deleted' = deleted \/ (host.doing = "parse" /\ Delete(OfPipe(host.pipe)))
          BY <3>2 DEF Finish, Destroy, OfPipe
        <4> QED BY <2>1, <2>2, <4>1, <4>2
      <3>3. ASSUME NEW P \in Pipes, DestroyPipe(P)
            PROVE  freed \subseteq freed' /\ freed' \ freed \subseteq made \ used
        <4>1. call = None
          BY <3>3 DEF DestroyPipe, PluginInv, CallOK, Current, Idle
        <4>2. made' = made /\ Delete(OfPipe(P))
          BY <3>3 DEF DestroyPipe, Destroy, OfPipe
        <4> QED BY <2>2, <4>1, <4>2
      <3>4. ASSUME NEW B \in Builders, DestroyBuilder(B)
            PROVE  freed \subseteq freed' /\ freed' \ freed \subseteq made \ used
        <4>1. call = None
          BY <3>4 DEF DestroyBuilder, PluginInv, CallOK, Current, Idle
        <4>2. made' = made /\ Delete(OfBuilder(B))
          BY <3>4 DEF DestroyBuilder, OfBuilder
        <4> QED BY <2>3, <4>1, <4>2
      <3>5. \/ deleted' = deleted \/ AnswerParsed \/ Finish
            \/ \E P \in Pipes : DestroyPipe(P)
            \/ \E B \in Builders : DestroyBuilder(B)
        BY DEF Next, vars, Load, Begin, AddCallback, EndRegistrar, Enter,
               RejectName, Return, ClosurePanics, AddPass, Run, Nest
      <3> QED BY <2>1, <3>1, <3>2, <3>3, <3>4, <3>5
  <1>4. made' \in {made \cup S : S \in SUBSET Boxes}
    BY <1>1
  <1>5. freed' \in {freed \cup S : S \in SUBSET (made \ used)}
    <2>1. freed' = freed \cup (freed' \ freed) /\ freed' \ freed \in SUBSET (made \ used)
      BY <1>3
    <2> HIDE DEF freed, used
    <2> QED BY <2>1
  <1> QED BY <1>2, <1>4, <1>5 DEF Ownership!Next, Ownership!vars

-----------------------------------------------------------------------------
\* Every variable keeps a value of its kind, and a function pipeline holds
\* function and loop passes only.
THEOREM PluginTypeCorrect == Spec => []TypeOK
  <1>1. PluginInv => TypeOK
    BY DEF PluginInv
  <1> QED BY <1>1, InitInv, NextInv, PTL DEF Spec

\* Every closure and pass that the plugin gives to its host is called only while
\* it is alive and freed at most once: the plugin implements OwnedBoxes.
THEOREM GivenBoxesOwned == Spec => BoxesOwned
  <1>1. Init => Ownership!Init
    <2> SUFFICES ASSUME Init PROVE Ownership!Init
      OBVIOUS
    <2>1. {b \in Boxes : deleted[b] = 1} = {} /\ {call} \ {None} = {}
      BY DEF Init
    <2> QED BY <2>1 DEF Init, Ownership!Init
  <1> QED BY <1>1, InitInv, NextInv, StepOwned, PTL DEF Spec, BoxesOwned, Ownership!Spec

\* Once the host has destroyed its builders and pipelines nothing of the plugin
\* is left.
THEOREM GivenBoxesFreed == Spec => []NothingLeaks
  <1>1. PluginInv => NothingLeaks
    <2> SUFFICES ASSUME PluginInv,
                        \A B \in Builders : builders[B] # "live",
                        \A P \in Pipes : pipes[P].state = "none",
                        NEW b \in made
                 PROVE  deleted[b] > 0
      BY DEF NothingLeaks
    <2>1. b \in Boxes /\ b \notin Live
      BY DEF PluginInv, OwnedOK, TypeOK
    <2> QED BY <2>1 DEF PluginInv, TypeOK, Live
  <1> QED BY <1>1, InitInv, NextInv, PTL DEF Spec
=============================================================================
