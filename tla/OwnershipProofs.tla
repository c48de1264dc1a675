--------------------------- MODULE OwnershipProofs ---------------------------
(***************************************************************************)
(* Every entry of the four maps belongs to the manager that has the        *)
(* entry's address, or to one of a host, although addresses are handed out *)
(* again: the proof, for every number of threads, managers, addresses and  *)
(* analyses, of NoStaleEntries, ServedByOwner, RunningPassRegistered and   *)
(* KeptUntilDrop.                                                          *)
(***************************************************************************)
EXTENDS AnalysisManagersProofs

\* The n-th map a drop of pm goes through holds nothing at pm's address, or is
\* skipped because its mutex is poisoned.
Cleared(pm, n) ==
    LET l == ClearOrder[n]
        a == addr[pm][l[1]]
    IN  \/ l \in poisoned
        \/ l[2] = "passes" /\ \A A \in Analyses : passes[l[1]][a][A] = None
        \/ l[2] = "cache" /\ \A c \in Cells : cache[l[1]][a][c] = None

\* How far each drop has come.
StageOK ==
    \A pm \in PMs :
        /\ status[pm] \in {"unborn", "live"} => stage[pm] = 0
        /\ status[pm] = "dropping" => \A n \in 1 .. stage[pm] : Cleared(pm, n)
FreeingOK ==
    \A t \in Threads : pc[t] = "freeing" => Cleared(victim[t], stage[victim[t]] + 1)

\* The cell whose replaced result is being freed holds a result of the manager
\* or of a host's.
DropOldOK ==
    \A t \in Threads : pc[t] = "dropold" =>
        cache[Top(t).kind][Here(t)][<<Top(t).from, Top(t).unit>>].by
            \in {Top(t).pm} \cup Hosted

\* What a callback runs on and what it was lent is of its own manager or of a
\* host's, and the pass box it runs on is still registered.
FrameOwned(f) ==
    /\ f.by \in {None, f.pm} \cup Hosted
    /\ \A r \in f.refs : r.by \in {f.pm} \cup Hosted
    /\ f.from # None => Registered(f, f.from) = f.by
FramesOwned == \A t \in Threads : \A i \in DOMAIN stack[t] : FrameOwned(stack[t][i])

\* The two halves of NoStaleEntries.
Owns(q, k, a) == Allocated(q) /\ addr[q][k] = a
Serves(q, k, a) == q \in Hosted \/ Owns(q, k, a)
PassesFresh ==
    \A k \in Kinds, a \in Addrs, A \in Analyses :
        <<k, "passes">> \notin poisoned /\ passes[k][a][A] # None
            => Serves(passes[k][a][A], k, a)
CacheFresh ==
    \A k \in Kinds, a \in Addrs, c \in Cells :
        <<k, "cache">> \notin poisoned /\ cache[k][a][c] # None
            => Serves(cache[k][a][c].by, k, a)

\* The inductive invariant behind the four properties.
OwnInv ==
    /\ TypeInv
    /\ StageOK
    /\ FreeingOK
    /\ DropOldOK
    /\ PassesFresh
    /\ CacheFresh
    /\ FramesOwned

-----------------------------------------------------------------------------
\* Initially there is neither an entry nor a callback.
LEMMA OwnInit == Init => OwnInv
  <1> SUFFICES ASSUME Init PROVE OwnInv
    OBVIOUS
  <1>1. TypeInv
    BY TypeInit
  <1>2. StageOK /\ FreeingOK /\ DropOldOK
    BY DEF Init, StageOK, FreeingOK, DropOldOK
  <1>3. PassesFresh /\ CacheFresh
    BY DEF Init, PassesFresh, CacheFresh, NoEntries, NoResults
  <1>4. FramesOwned
    BY EmptySeq DEF Init, FramesOwned
  <1> QED
    BY <1>1, <1>2, <1>3, <1>4 DEF OwnInv

\* The frames of a well-formed stack.
LEMMA FrameFacts ==
    ASSUME TypeInv, NEW t \in Threads, NEW i \in DOMAIN stack[t]
    PROVE  /\ stack[t][i] \in Frame
           /\ stack[t][i].pm \in PMs /\ stack[t][i].kind \in Kinds
           /\ stack[t][i].from # None =>
                stack[t][i].from \in Analyses /\ stack[t][i].by \in PMs
           /\ status[stack[t][i].pm] = "live" /\ Allocated(stack[t][i].pm)
           /\ addr[stack[t][i].pm][stack[t][i].kind] \in Addrs
  <1>1. stack[t] \in Seq(Frame)
    BY DEF TypeInv, Stacks
  <1>2. stack[t][i] \in Frame
    BY <1>1, ElementOfSeq, LenProperties
  <1>3. stack[t][i].from # None => stack[t][i].by \in PMs
    BY DEF TypeInv, Stacks
  <1>4. status[stack[t][i].pm] = "live"
    BY DEF TypeInv, LiveOK
  <1>5. stack[t][i].pm \in PMs /\ stack[t][i].kind \in Kinds
        /\ (stack[t][i].from # None => stack[t][i].from \in Analyses)
    BY <1>2 DEF Frame
  <1>6. addr[stack[t][i].pm] \in [Kinds -> Addrs]
    BY <1>4, <1>5 DEF TypeInv, AddrsOK
  <1> QED
    BY <1>2, <1>3, <1>4, <1>5, <1>6 DEF Allocated

\* A step of thread t that changes no entry and no manager, and leaves t with
\* owned callbacks outside the sections that free a box.
LEMMA CallOwn ==
    ASSUME OwnInv, TypeInv', NEW t \in Threads,
           status' = status, addr' = addr, passes' = passes, cache' = cache,
           victim' = victim, stage' = stage, poisoned \subseteq poisoned',
           NEW s \in Stacks, stack' = [stack EXCEPT ![t] = s],
           NEW w, pc' = [pc EXCEPT ![t] = w], w \notin {"freeing", "dropold"},
           \A i \in DOMAIN s : FrameOwned(s[i])
    PROVE  OwnInv'
  <1>1. /\ TypeInv /\ StageOK /\ FreeingOK /\ DropOldOK
        /\ PassesFresh /\ CacheFresh /\ FramesOwned
        /\ stack \in [Threads -> Stacks] /\ pc \in [Threads -> PCs]
    BY DEF OwnInv, TypeInv, TypeOK
  <1>2. \A pm, n : Cleared(pm, n) => Cleared(pm, n)'
    BY DEF Cleared
  <1>3. StageOK'
    BY <1>1, <1>2 DEF StageOK
  <1>4. \A u \in Threads : pc'[u] \in {"freeing", "dropold"} =>
            u # t /\ pc[u] = pc'[u] /\ stack'[u] = stack[u]
    BY <1>1
  <1>5. FreeingOK'
    BY <1>1, <1>2, <1>4 DEF FreeingOK
  <1>6. DropOldOK'
    BY <1>1, <1>4 DEF DropOldOK, Top, Here
  <1>7. PassesFresh' /\ CacheFresh'
    BY <1>1 DEF PassesFresh, CacheFresh, Serves, Owns, Allocated
  <1>8. FramesOwned'
    BY <1>1 DEF FramesOwned, FrameOwned, Registered
  <1> QED
    BY <1>1, <1>3, <1>5, <1>6, <1>7, <1>8 DEF OwnInv

\* The frames a step of thread t may leave behind are owned.
LEMMA OwnedStacks ==
    ASSUME OwnInv, NEW t \in Threads
    PROVE  /\ \A i \in DOMAIN stack[t] : FrameOwned(stack[t][i])
           /\ stack[t] # <<>> =>
                \A i \in DOMAIN Front(stack[t]) : FrameOwned(Front(stack[t])[i])
  <1>1. \A i \in DOMAIN stack[t] : FrameOwned(stack[t][i])
    BY DEF OwnInv, FramesOwned
  <1>2. stack[t] \in Stacks
    BY DEF OwnInv, TypeInv
  <1>3. ASSUME stack[t] # <<>>, NEW i \in DOMAIN Front(stack[t])
        PROVE  FrameOwned(Front(stack[t])[i])
    <2>1. /\ Len(stack[t]) \in Nat /\ DOMAIN stack[t] = 1 .. Len(stack[t])
          /\ DOMAIN Front(stack[t]) = 1 .. Len(stack[t]) - 1
          /\ \A j \in 1 .. Len(stack[t]) - 1 : Front(stack[t])[j] = stack[t][j]
      BY <1>2, <1>3, FrontOK
    <2>2. i \in DOMAIN stack[t] /\ Front(stack[t])[i] = stack[t][i]
      BY <1>3, <2>1
    <2> QED
      BY <1>1, <2>2
  <1> QED
    BY <1>1, <1>3

\* A stack of frames that use only what their managers own stays one when its
\* last frame is lent such a result.
LEMMA OwnedLend ==
    ASSUME NEW s \in Stacks, s # <<>>, \A i \in DOMAIN s : FrameOwned(s[i]),
           NEW r \in Ref, r.by \in {Last(s).pm} \cup Hosted
    PROVE  \A i \in DOMAIN WithRef(s, r) : FrameOwned(WithRef(s, r)[i])
  <1>1. Last(s) = s[Len(s)]
    BY FrontOK
  <1>2. /\ DOMAIN WithRef(s, r) = DOMAIN s
        /\ \A i \in DOMAIN s :
                /\ WithRef(s, r)[i].pm = s[i].pm
                /\ WithRef(s, r)[i].kind = s[i].kind
                /\ WithRef(s, r)[i].from = s[i].from
                /\ WithRef(s, r)[i].by = s[i].by
                /\ WithRef(s, r)[i].refs =
                     IF i = Len(s) THEN s[i].refs \cup {r} ELSE s[i].refs
    BY WithRefOK
  <1>3. ASSUME NEW i \in DOMAIN s
        PROVE  FrameOwned(WithRef(s, r)[i])
    <2>1. \A q \in WithRef(s, r)[i].refs : q.by \in {s[i].pm} \cup Hosted
      <3>1. CASE i = Len(s)
        <4>1. WithRef(s, r)[i].refs = s[i].refs \cup {r}
          BY <1>2, <3>1
        <4> QED
          BY <1>1, <3>1, <4>1 DEF FrameOwned
      <3>2. CASE i # Len(s)
        <4>1. WithRef(s, r)[i].refs = s[i].refs
          BY <1>2, <3>2
        <4> QED
          BY <4>1 DEF FrameOwned
      <3> QED
        BY <3>1, <3>2
    <2> QED
      BY <1>2, <2>1 DEF FrameOwned, Registered
  <1> QED
    BY <1>2, <1>3

\* Steps that leave the entries as they are.
LEMMA ControlOwn ==
    ASSUME OwnInv, TypeInv', NEW t \in Threads,
           \/ UserPanics(t) \/ UserCatches(t) \/ ReturnAnalysis(t)
           \/ \E A \in Analyses, u \in Units : GetResultMiss(t, A, u)
    PROVE  OwnInv'
  <1>1. /\ status' = status /\ addr' = addr /\ passes' = passes /\ cache' = cache
        /\ victim' = victim /\ stage' = stage /\ poisoned' = poisoned
        /\ \E w \in {"unwind", "user", "insert", "lookup"} : pc' = [pc EXCEPT ![t] = w]
    BY DEF UserPanics, UserCatches, ReturnAnalysis, GetResultMiss, Goto
  <1>2. stack[t] \in Stacks /\ stack' = [stack EXCEPT ![t] = stack[t]]
    BY SameStack DEF OwnInv, UserPanics, UserCatches, ReturnAnalysis, GetResultMiss
  <1>3. \A i \in DOMAIN stack[t] : FrameOwned(stack[t][i])
    BY OwnedStacks
  <1>4. PICK w \in {"unwind", "user", "insert", "lookup"} : pc' = [pc EXCEPT ![t] = w]
    BY <1>1
  <1>5. w \notin {"freeing", "dropold"} /\ poisoned \subseteq poisoned'
    BY <1>1, <1>4
  <1> QED
    BY <1>1, <1>2, <1>3, <1>4, <1>5, CallOwn

\* Steps that leave the innermost callback.
LEMMA PopOwn ==
    ASSUME OwnInv, TypeInv', NEW t \in Threads,
           ReturnPass(t) \/ Unwind(t) \/ DropOldPanics(t)
    PROVE  OwnInv'
  <1>1. /\ status' = status /\ addr' = addr /\ passes' = passes /\ cache' = cache
        /\ victim' = victim /\ stage' = stage /\ poisoned \subseteq poisoned'
        /\ stack' = [stack EXCEPT ![t] = Front(stack[t])]
    BY DEF ReturnPass, Unwind, DropOldPanics
  <1>2. PICK w \in {"user", "unwind"} : pc' = [pc EXCEPT ![t] = w]
    BY SameStack DEF OwnInv, ReturnPass, Unwind, DropOldPanics, InCallback, Goto
  <1>3. stack[t] # <<>>
    BY DEF OwnInv, TypeInv, ThreadsOK, ThreadOK, ReturnPass, Unwind, DropOldPanics, InCallback
  <1>4. Front(stack[t]) \in Stacks
    BY <1>3, PopStack DEF OwnInv
  <1>5. \A i \in DOMAIN Front(stack[t]) : FrameOwned(Front(stack[t])[i])
    BY <1>3, OwnedStacks
  <1>6. w \notin {"freeing", "dropold"}
    BY <1>2
  <1> QED
    BY <1>1, <1>2, <1>4, <1>5, <1>6, CallOwn

\* A pass starts with nothing that could belong to another manager.
LEMMA EnterPassOwn ==
    ASSUME OwnInv, TypeInv', NEW t \in Threads, NEW pm \in PMs, NEW k \in Kinds,
           EnterPass(t, pm, k)
    PROVE  OwnInv'
  <1> DEFINE f == [pm |-> pm, kind |-> k, from |-> None, unit |-> None,
                   by |-> None, refs |-> {}]
             s == Append(stack[t], f)
  <1>1. /\ status' = status /\ addr' = addr /\ passes' = passes /\ cache' = cache
        /\ victim' = victim /\ stage' = stage /\ poisoned \subseteq poisoned'
        /\ stack' = [stack EXCEPT ![t] = s]
        /\ pc[t] = "user" /\ pc' = pc
    BY DEF EnterPass
  <1>2. f \in Frame /\ f.from = None /\ FrameOwned(f)
    BY DEF Frame, FrameOwned
  <1>3. stack[t] \in Stacks /\ pc' = [pc EXCEPT ![t] = "user"]
    BY <1>1, SameStack DEF OwnInv
  <1> HIDE DEF f
  <1>4. /\ s \in Stacks /\ DOMAIN s = 1 .. Len(stack[t]) + 1
        /\ DOMAIN stack[t] = 1 .. Len(stack[t]) /\ Len(stack[t]) \in Nat
        /\ \A i \in DOMAIN stack[t] : s[i] = stack[t][i]
        /\ s[Len(stack[t]) + 1] = f
    <2>1. stack[t] \in Seq(Frame)
      BY <1>3 DEF Stacks
    <2> QED
      BY <2>1, <1>2, <1>3, PushOK, LenProperties
  <1>5. \A i \in DOMAIN s : FrameOwned(s[i])
    BY <1>2, <1>4, OwnedStacks
  <1>6. "user" \notin {"freeing", "dropold"}
    OBVIOUS
  <1> HIDE DEF s
  <1> QED
    BY <1>1, <1>3, <1>4, <1>5, <1>6, CallOwn

\* A reference lent from the cache is to a result of the manager itself: the
\* mutex is not poisoned, so the entry belongs to the one at the address.
LEMMA GetCachedResultOwn ==
    ASSUME OwnInv, TypeInv', NEW t \in Threads, NEW A \in Analyses, NEW u \in Units,
           GetCachedResult(t, A, u)
    PROVE  OwnInv'
  <1> DEFINE result == cache[Top(t).kind][Here(t)][<<A, u>>]
  <1>1. /\ status' = status /\ addr' = addr /\ passes' = passes /\ cache' = cache
        /\ victim' = victim /\ stage' = stage /\ poisoned \subseteq poisoned'
        /\ stack[t] # <<>> /\ pc[t] = "user"
    BY DEF GetCachedResult, InCallback
  <1>2. /\ stack[t] \in Stacks /\ \A i \in DOMAIN stack[t] : FrameOwned(stack[t][i])
    BY SameStack, OwnedStacks DEF OwnInv
  <1>3. CASE stack' = stack /\ pc' = [pc EXCEPT ![t] = "unwind"]
    <2>1. stack' = [stack EXCEPT ![t] = stack[t]] /\ "unwind" \notin {"freeing", "dropold"}
      BY <1>3, SameStack DEF OwnInv
    <2> QED
      BY <1>1, <1>2, <1>3, <2>1, CallOwn
  <1>4. CASE /\ result # None /\ pc' = pc /\ CacheLock(t) \notin poisoned
             /\ stack' = [stack EXCEPT ![t] = WithRef(@, RefTo(A, u, result))]
    <2>1. /\ Top(t).kind \in Kinds /\ Here(t) \in Addrs /\ <<A, u>> \in Cells
          /\ Top(t).pm \in PMs /\ status[Top(t).pm] = "live"
      BY <1>1, TopOK DEF OwnInv, Cells
    <2>2. result \in Result
      BY <1>4, <2>1 DEF OwnInv, TypeInv, TypeOK
    <2>3. result.by \in {Top(t).pm} \cup Hosted
      <3>1. Serves(result.by, Top(t).kind, Here(t)) /\ result.by \in PMs
        BY <1>4, <2>1, <2>2 DEF OwnInv, CacheFresh, CacheLock, Result
      <3>2. Allocated(Top(t).pm) /\ addr[Top(t).pm][Top(t).kind] = Here(t)
        BY <2>1 DEF Allocated, Here
      <3> QED
        BY <2>1, <3>1, <3>2 DEF OwnInv, TypeInv, Distinct, Serves, Owns
    <2> HIDE DEF result
    <2> DEFINE s == WithRef(stack[t], RefTo(A, u, result))
    <2>4. RefTo(A, u, result) \in Ref /\ RefTo(A, u, result).by \in {Last(stack[t]).pm} \cup Hosted
      BY <2>2, <2>3 DEF RefTo, Ref, Result, Top
    <2>5. s \in Stacks /\ \A i \in DOMAIN s : FrameOwned(s[i])
      BY <1>1, <1>2, <2>4, WithRefOK, OwnedLend
    <2>6. /\ stack' = [stack EXCEPT ![t] = s] /\ pc' = [pc EXCEPT ![t] = "user"]
          /\ "user" \notin {"freeing", "dropold"}
      BY <1>1, <1>4, SameStack DEF OwnInv
    <2> HIDE DEF s
    <2> QED
      BY <1>1, <2>5, <2>6, CallOwn
  <1> QED
    BY <1>3, <1>4 DEF GetCachedResult, Goto

\* The registration found at the address was made with the manager itself.
LEMMA LookupPassOwn ==
    ASSUME OwnInv, TypeInv', NEW t \in Threads, LookupPass(t)
    PROVE  OwnInv'
  <1> DEFINE entry == passes[PassesLock(t)[1]][Here(t)][req[t][1]]
             f == [pm |-> Top(t).pm, kind |-> Top(t).kind, from |-> req[t][1],
                   unit |-> req[t][2], by |-> entry, refs |-> {}]
             s == Append(stack[t], f)
  <1>1. /\ status' = status /\ addr' = addr /\ passes' = passes /\ cache' = cache
        /\ victim' = victim /\ stage' = stage /\ poisoned \subseteq poisoned'
        /\ stack[t] # <<>> /\ req[t] \in Cells
    BY DEF LookupPass, OwnInv, TypeInv, ThreadsOK, ThreadOK
  <1>2. /\ stack[t] \in Stacks /\ \A i \in DOMAIN stack[t] : FrameOwned(stack[t][i])
    BY SameStack, OwnedStacks DEF OwnInv
  <1>3. CASE stack' = stack /\ pc' = [pc EXCEPT ![t] = "unwind"]
    <2>1. stack' = [stack EXCEPT ![t] = stack[t]] /\ "unwind" \notin {"freeing", "dropold"}
      BY <1>3, SameStack DEF OwnInv
    <2> QED
      BY <1>1, <1>2, <1>3, <2>1, CallOwn
  <1>4. CASE /\ PassesLock(t) \notin poisoned /\ entry # None
             /\ CallEntrypoint(t, entry)
    <2>1. /\ Top(t).kind \in Kinds /\ Here(t) \in Addrs /\ req[t][1] \in Analyses
          /\ Top(t).pm \in PMs /\ status[Top(t).pm] = "live"
          /\ PassesLock(t)[1] = Top(t).kind /\ PassesLock(t) = <<Top(t).kind, "passes">>
      BY <1>1, TopOK DEF OwnInv, Cells, PassesLock
    <2>2. entry \in PMs
      <3>1. passes[Top(t).kind][Here(t)][req[t][1]] \in PMs \cup {None}
        BY <2>1 DEF OwnInv, TypeInv, TypeOK
      <3> QED
        BY <3>1, <2>1, <1>4
    <2>3. entry \in {Top(t).pm} \cup Hosted
      <3>1. Serves(entry, Top(t).kind, Here(t))
        BY <1>4, <2>1 DEF OwnInv, PassesFresh
      <3>2. Allocated(Top(t).pm) /\ addr[Top(t).pm][Top(t).kind] = Here(t)
        BY <2>1 DEF Allocated, Here
      <3> QED
        BY <2>1, <2>2, <3>1, <3>2 DEF OwnInv, TypeInv, Distinct, Serves, Owns
    <2>4. /\ f \in Frame /\ f.unit \in Units /\ f.by \in PMs
          /\ f.pm = Top(t).pm /\ f.kind = Top(t).kind
      BY <2>1, <2>2, <1>1, TopOK DEF OwnInv, Frame, Cells
    <2>5. FrameOwned(f)
      BY <2>1, <2>3 DEF FrameOwned, Registered, Here
    <2>6. stack' = [stack EXCEPT ![t] = s] /\ pc' = [pc EXCEPT ![t] = "user"]
      BY <1>4 DEF CallEntrypoint, Goto
    <2> HIDE DEF entry, f
    <2>7. /\ s \in Stacks /\ DOMAIN s = 1 .. Len(stack[t]) + 1
          /\ DOMAIN stack[t] = 1 .. Len(stack[t]) /\ Len(stack[t]) \in Nat
          /\ \A i \in DOMAIN stack[t] : s[i] = stack[t][i]
          /\ s[Len(stack[t]) + 1] = f
      BY <1>1, <1>2, <2>4, PushOK, FrontOK DEF Top
    <2>8. \A i \in DOMAIN s : FrameOwned(s[i])
      BY <1>2, <2>5, <2>7
    <2>9. "user" \notin {"freeing", "dropold"}
      OBVIOUS
    <2> HIDE DEF s
    <2> QED
      BY <1>1, <2>6, <2>7, <2>8, <2>9, CallOwn
  <1> QED
    BY <1>3, <1>4 DEF LookupPass, Goto

\* The result lent after the replaced one is gone is the one just stored.
LEMMA DroppedOldOwn ==
    ASSUME OwnInv, TypeInv', NEW t \in Threads, DroppedOld(t)
    PROVE  OwnInv'
  <1> DEFINE f == Top(t)
             result == cache[f.kind][Here(t)][<<f.from, f.unit>>]
  <1>1. /\ status' = status /\ addr' = addr /\ passes' = passes /\ cache' = cache
        /\ victim' = victim /\ stage' = stage /\ poisoned \subseteq poisoned'
        /\ pc' = [pc EXCEPT ![t] = "user"] /\ "user" \notin {"freeing", "dropold"}
    BY DEF DroppedOld, Goto
  <1>2. /\ stack[t] # <<>> /\ f.from # None /\ result # None
        /\ result.by \in {f.pm} \cup Hosted
    BY DEF DroppedOld, OwnInv, TypeInv, ThreadsOK, ThreadOK, DropOldOK
  <1>3. /\ f.kind \in Kinds /\ f.from \in Analyses /\ f.unit \in Units
        /\ Here(t) \in Addrs /\ <<f.from, f.unit>> \in Cells
    BY <1>2, TopOK DEF Cells, OwnInv
  <1>4. result \in Result
    BY <1>2, <1>3 DEF OwnInv, TypeInv, TypeOK
  <1>5. /\ Front(stack[t]) \in Stacks /\ Front(stack[t]) # <<>>
        /\ \A i \in DOMAIN Front(stack[t]) : FrameOwned(Front(stack[t])[i])
    BY <1>2, PopStack, OwnedStacks DEF OwnInv
  <1>6. Last(Front(stack[t])).pm = f.pm
    BY <1>2, SameStack, FrontOK DEF OwnInv, Top
  <1> DEFINE s == WithRef(Front(stack[t]), RefTo(f.from, f.unit, result))
  <1>7. stack' = [stack EXCEPT ![t] = s]
    BY DEF DroppedOld
  <1> HIDE DEF result
  <1>8. /\ RefTo(f.from, f.unit, result) \in Ref
        /\ RefTo(f.from, f.unit, result).by \in {Last(Front(stack[t])).pm} \cup Hosted
    BY <1>2, <1>3, <1>4, <1>6 DEF RefTo, Ref, Result
  <1>9. s \in Stacks /\ \A i \in DOMAIN s : FrameOwned(s[i])
    BY <1>5, <1>8, WithRefOK, OwnedLend
  <1> HIDE DEF s
  <1> QED
    BY <1>1, <1>7, <1>9, CallOwn

-----------------------------------------------------------------------------
\* What a drop has cleared stays cleared in a step that keeps cleared maps
\* cleared and lets a drop go on only past a cleared map.
LEMMA StageKept ==
    ASSUME OwnInv,
           \A pm \in PMs, n \in 0 .. 3 :
               status[pm] = "dropping" /\ Cleared(pm, n + 1) => Cleared(pm, n + 1)',
           \A pm \in PMs :
               \/ stage'[pm] = stage[pm]
               \/ /\ status'[pm] = status[pm] /\ status[pm] = "dropping"
                  /\ \E n \in 0 .. 3 : /\ stage[pm] = n /\ stage'[pm] = n + 1
                                       /\ Cleared(pm, n + 1)',
           \A pm \in PMs :
               \/ status'[pm] = status[pm]
               \/ status[pm] = "unborn" /\ status'[pm] = "live"
               \/ status[pm] = "live" /\ status'[pm] = "dropping"
               \/ status'[pm] \in {"leaked", "disposed"},
           \A u \in Threads : pc'[u] = "freeing" =>
               \/ /\ pc[u] = "freeing" /\ victim'[u] = victim[u]
                  /\ stage'[victim[u]] = stage[victim[u]]
               \/ \E pm \in PMs, n \in 0 .. 3 :
                    victim'[u] = pm /\ stage'[pm] = n /\ Cleared(pm, n + 1)'
    PROVE  StageOK' /\ FreeingOK'
  <1>1. /\ stage \in [PMs -> 0 .. 4] /\ ThreadsOK /\ StageOK /\ FreeingOK
    BY ClearOrderOK DEF OwnInv, TypeInv, TypeOK
  <1>2. ASSUME NEW pm \in PMs, NEW n \in 1 .. stage'[pm], status'[pm] = "dropping"
        PROVE  Cleared(pm, n)'
    <2>1. CASE n \in 1 .. stage[pm]
      <3>1. n - 1 \in 0 .. 3 /\ n = (n - 1) + 1 /\ stage[pm] # 0
        BY <1>1, <2>1
      <3>2. status[pm] = "dropping"
        BY <1>1, <1>2, <3>1 DEF StageOK
      <3>3. Cleared(pm, n)
        BY <1>1, <2>1, <3>2 DEF StageOK
      <3>4. Cleared(pm, (n - 1) + 1)'
        BY <3>1, <3>2, <3>3
      <3> QED
        BY <3>1, <3>4
    <2>2. CASE n \notin 1 .. stage[pm]
      <3>1. PICK m \in 0 .. 3 : stage[pm] = m /\ stage'[pm] = m + 1 /\ Cleared(pm, m + 1)'
        BY <1>2, <2>2
      <3>2. n = m + 1
        BY <1>2, <2>2, <3>1
      <3> QED
        BY <3>1, <3>2
    <2> QED
      BY <2>1, <2>2
  <1>3. ASSUME NEW pm \in PMs, status'[pm] \in {"unborn", "live"}
        PROVE  stage'[pm] = 0
    <2>1. status[pm] \in {"unborn", "live"}
      BY <1>3
    <2> QED
      BY <1>1, <2>1 DEF StageOK
  <1>4. StageOK'
    BY <1>2, <1>3 DEF StageOK
  <1>5. ASSUME NEW u \in Threads, pc[u] = "freeing", NEW pm \in PMs, victim[u] = pm,
               NEW n \in 0 .. 3, stage[pm] = n
        PROVE  Cleared(pm, n + 1)'
    BY <1>1, <1>5 DEF ThreadsOK, ThreadOK, FreeingOK
  <1>6. ASSUME NEW u \in Threads, pc[u] = "freeing"
        PROVE  victim[u] \in PMs /\ stage[victim[u]] \in 0 .. 3
    <2>1. victim[u] \in PMs /\ stage[victim[u]] < 4
      BY <1>1, <1>6 DEF ThreadsOK, ThreadOK
    <2> QED
      BY <1>1, <2>1
  <1>7. ASSUME NEW u \in Threads, pc'[u] = "freeing"
        PROVE  \E pm \in PMs, n \in 0 .. 3 :
                  victim'[u] = pm /\ stage'[pm] = n /\ Cleared(pm, n + 1)'
    BY <1>5, <1>6, <1>7
  <1>8. FreeingOK'
    BY <1>7 DEF FreeingOK
  <1> QED
    BY <1>4, <1>8

\* A registration is made at the address of a live manager, where no manager
\* that is being dropped is, and replaces none.
LEMMA AddAnalysisOwn ==
    ASSUME OwnInv, TypeInv', NEW t \in Threads, NEW A \in Analyses, AddAnalysis(t, A)
    PROVE  OwnInv'
  <1> DEFINE K == Top(t).kind
             H == Here(t)
  <1>1. /\ status' = status /\ addr' = addr /\ cache' = cache
        /\ victim' = victim /\ stage' = stage /\ stack' = stack
        /\ poisoned \subseteq poisoned' /\ stack[t] # <<>> /\ pc[t] = "user"
    BY DEF AddAnalysis, InCallback
  <1>2. /\ TypeInv /\ StageOK /\ FreeingOK /\ DropOldOK
        /\ PassesFresh /\ CacheFresh /\ FramesOwned
        /\ stack \in [Threads -> Stacks] /\ pc \in [Threads -> PCs]
        /\ passes \in [Kinds -> [Addrs -> [Analyses -> PMs \cup {None}]]]
    BY DEF OwnInv, TypeInv, TypeOK
  <1>3. CASE passes' = passes /\ pc' = [pc EXCEPT ![t] = "unwind"]
    <2>1. /\ stack[t] \in Stacks /\ stack' = [stack EXCEPT ![t] = stack[t]]
          /\ "unwind" \notin {"freeing", "dropold"}
      BY <1>1, <1>2, SameStack
    <2>2. \A i \in DOMAIN stack[t] : FrameOwned(stack[t][i])
      BY OwnedStacks
    <2> QED
      BY <1>1, <1>3, <2>1, <2>2, CallOwn
  <1>4. CASE /\ passes[K][H][A] = None
             /\ passes' = [passes EXCEPT ![K][H][A] = Top(t).pm]
             /\ pc' = pc /\ poisoned' = poisoned
    <2>1. /\ K \in Kinds /\ H \in Addrs /\ Top(t).pm \in PMs /\ status[Top(t).pm] = "live"
          /\ Owns(Top(t).pm, K, H)
      BY <1>1, <1>2, TopOK DEF Owns, Allocated, Here
    <2> HIDE DEF K, H
    <2>2. \A k \in Kinds, a \in Addrs, B \in Analyses :
            passes'[k][a][B] = IF k = K /\ a = H /\ B = A THEN Top(t).pm ELSE passes[k][a][B]
      BY <1>2, <1>4, <2>1
    <2>3. PassesFresh'
      BY <1>1, <1>2, <1>4, <2>1, <2>2 DEF PassesFresh, Serves, Owns, Allocated
    <2>4. CacheFresh'
      BY <1>1, <1>2, <1>4 DEF CacheFresh, Serves, Owns, Allocated
    <2>5. ASSUME NEW pm \in PMs, NEW n \in 0 .. 3, status[pm] = "dropping", Cleared(pm, n + 1)
          PROVE  Cleared(pm, n + 1)'
      <3>1. ClearOrder[n + 1][1] \in Kinds
        BY ClearOrderOK
      <3>2. addr[pm][K] # H /\ addr[pm] \in [Kinds -> Addrs]
        BY <1>2, <2>1, <2>5 DEF TypeInv, Distinct, AddrsOK, Owns, Allocated
      <3>3. \A B \in Analyses : LET k == ClearOrder[n + 1][1] IN
              passes'[k][addr[pm][k]][B] = passes[k][addr[pm][k]][B]
        BY <2>2, <3>1, <3>2
      <3> QED
        BY <1>1, <1>4, <2>5, <3>3 DEF Cleared
    <2>6. StageOK' /\ FreeingOK'
      <3>1. \A u \in Threads : pc'[u] = "freeing" =>
              /\ pc[u] = "freeing" /\ victim'[u] = victim[u]
              /\ stage'[victim[u]] = stage[victim[u]]
        BY <1>1, <1>4
      <3> QED
        BY <1>1, <2>5, <3>1, StageKept
    <2>7. DropOldOK'
      BY <1>1, <1>2, <1>4 DEF DropOldOK, Top, Here
    <2>8. FramesOwned'
      <3> SUFFICES ASSUME NEW u \in Threads, NEW i \in DOMAIN stack[u]
                   PROVE  FrameOwned(stack[u][i])'
        BY <1>1 DEF FramesOwned
      <3>1. FrameOwned(stack[u][i])
        BY <1>2 DEF FramesOwned
      <3>2. CASE stack[u][i].from # None
        <4>1. /\ stack[u][i].kind \in Kinds /\ stack[u][i].from \in Analyses
              /\ stack[u][i].by \in PMs
              /\ addr[stack[u][i].pm][stack[u][i].kind] \in Addrs
          BY <1>2, <3>2, FrameFacts
        <4>2. Registered(stack[u][i], stack[u][i].from) # None
          BY <3>1, <3>2, <4>1, NoneAssumption DEF FrameOwned
        <4>3. \A k \in Kinds, a \in Addrs, B \in Analyses :
                passes[k][a][B] # None => passes'[k][a][B] = passes[k][a][B]
          BY <1>4, <2>2
        <4>4. Registered(stack[u][i], stack[u][i].from)' = Registered(stack[u][i], stack[u][i].from)
          BY <1>1, <4>1, <4>2, <4>3 DEF Registered
        <4> QED
          BY <1>1, <3>1, <4>4 DEF FrameOwned
      <3>3. CASE stack[u][i].from = None
        BY <1>1, <3>1, <3>3 DEF FrameOwned
      <3> QED
        BY <3>2, <3>3
    <2> QED
      BY <2>3, <2>4, <2>6, <2>7, <2>8 DEF OwnInv
  <1> QED
    BY <1>3, <1>4 DEF AddAnalysis, PassesLock, Goto

\* A result is stored at the address of a live manager, computed by a pass
\* that was registered with it.
LEMMA InsertOwn ==
    ASSUME OwnInv, TypeInv', NEW t \in Threads, Insert(t)
    PROVE  OwnInv'
  <1> DEFINE f == Top(t)
             K == f.kind
             H == Here(t)
             cell == <<f.from, f.unit>>
             result == [id |-> FreshBox, by |-> f.by]
             s == WithRef(Front(stack[t]), RefTo(f.from, f.unit, result))
  <1>1. /\ status' = status /\ addr' = addr /\ passes' = passes
        /\ victim' = victim /\ stage' = stage /\ poisoned' = poisoned
        /\ stack[t] # <<>> /\ f.from # None
    BY DEF Insert, OwnInv, TypeInv, ThreadsOK, ThreadOK
  <1>2. /\ TypeInv /\ StageOK /\ FreeingOK /\ DropOldOK
        /\ PassesFresh /\ CacheFresh /\ FramesOwned
        /\ stack \in [Threads -> Stacks] /\ pc \in [Threads -> PCs]
        /\ cache \in [Kinds -> [Addrs -> [Cells -> Result \cup {None}]]]
    BY DEF OwnInv, TypeInv, TypeOK
  <1>3. /\ f \in Frame /\ K \in Kinds /\ H \in Addrs /\ cell \in Cells
        /\ f.from \in Analyses /\ f.unit \in Units /\ f.by \in PMs /\ f.pm \in PMs
        /\ Owns(f.pm, K, H) /\ status[f.pm] = "live"
    BY <1>1, <1>2, TopOK DEF Cells, Owns, Allocated, Here
  <1>4. f.by \in {f.pm} \cup Hosted
    <2>1. FrameOwned(f)
      BY <1>1, <1>2, TopOK DEF FramesOwned
    <2> QED
      BY <2>1, <1>3, NoneAssumption DEF FrameOwned
  <1>5. /\ Front(stack[t]) \in Stacks /\ Front(stack[t]) # <<>>
        /\ \A i \in DOMAIN Front(stack[t]) : FrameOwned(Front(stack[t])[i])
        /\ Last(Front(stack[t])).pm = f.pm
    BY <1>1, <1>2, PopStack, OwnedStacks, FrontOK DEF Top
  <1>6. CASE /\ stack' = [stack EXCEPT ![t] = Front(@)]
             /\ pc' = [pc EXCEPT ![t] = "unwind"]
             /\ cache' = cache
    <2>1. /\ "unwind" \notin {"freeing", "dropold"}
          /\ stack' = [stack EXCEPT ![t] = Front(stack[t])] /\ poisoned \subseteq poisoned'
      BY <1>1, <1>6
    <2> QED
      BY <1>1, <1>5, <1>6, <2>1, CallOwn
  <1>7. CASE /\ \E b \in Boxes : ~ BoxInUse(b)
             /\ cache' = [cache EXCEPT ![K][H][cell] = result]
             /\ \/ stack' = [stack EXCEPT ![t] = s] /\ pc' = [pc EXCEPT ![t] = "user"]
                \/ stack' = stack /\ pc' = [pc EXCEPT ![t] = "dropold"]
    <2>1. result \in Result /\ result.by \in {f.pm} \cup Hosted
      <3>1. FreshBox \in Boxes
        BY <1>7 DEF FreshBox
      <3> QED
        BY <3>1, <1>3, <1>4 DEF Result
    <2>2. RefTo(f.from, f.unit, result) \in Ref /\ RefTo(f.from, f.unit, result).by \in {f.pm} \cup Hosted
      BY <2>1, <1>3 DEF RefTo, Ref, Result
    <2>3. /\ \A i \in DOMAIN s : FrameOwned(s[i])
      BY <1>5, <2>2, OwnedLend
    <2> HIDE DEF s, result
    <2>4. \A k \in Kinds, a \in Addrs, c \in Cells :
            cache'[k][a][c] = IF k = K /\ a = H /\ c = cell THEN result ELSE cache[k][a][c]
      BY <1>2, <1>3, <1>7
    <2>5. PassesFresh'
      BY <1>1, <1>2 DEF PassesFresh, Serves, Owns, Allocated
    <2>6. CacheFresh'
      <3> SUFFICES ASSUME NEW k \in Kinds, NEW a \in Addrs, NEW c \in Cells,
                          <<k, "cache">> \notin poisoned', cache'[k][a][c] # None
                   PROVE  Serves(cache[k][a][c].by, k, a)'
        BY DEF CacheFresh
      <3>1. CASE k = K /\ a = H /\ c = cell
        BY <1>3, <1>1, <2>1, <2>4, <3>1 DEF Serves, Owns, Allocated
      <3>2. CASE ~ (k = K /\ a = H /\ c = cell)
        BY <1>1, <1>2, <2>4, <3>2 DEF CacheFresh, Serves, Owns, Allocated
      <3> QED
        BY <3>1, <3>2
    <2>7. ASSUME NEW pm \in PMs, NEW n \in 0 .. 3, status[pm] = "dropping", Cleared(pm, n + 1)
          PROVE  Cleared(pm, n + 1)'
      <3>1. ClearOrder[n + 1][1] \in Kinds
        BY ClearOrderOK
      <3>2. addr[pm][K] # H /\ addr[pm] \in [Kinds -> Addrs]
        BY <1>2, <1>3, <2>7 DEF TypeInv, Distinct, AddrsOK, Owns, Allocated
      <3>3. \A c \in Cells : LET k == ClearOrder[n + 1][1] IN
              cache'[k][addr[pm][k]][c] = cache[k][addr[pm][k]][c]
        BY <2>4, <3>1, <3>2
      <3> QED
        BY <1>1, <2>7, <3>3 DEF Cleared
    <2>8. StageOK' /\ FreeingOK'
      <3>1. \A u \in Threads : pc'[u] = "freeing" =>
              /\ pc[u] = "freeing" /\ victim'[u] = victim[u]
              /\ stage'[victim[u]] = stage[victim[u]]
        BY <1>1, <1>2, <1>7
      <3> QED
        BY <1>1, <2>7, <3>1, StageKept
    <2>9. DropOldOK'
      <3> SUFFICES ASSUME NEW u \in Threads, pc'[u] = "dropold"
                   PROVE  (cache[Top(u).kind][Here(u)][<<Top(u).from, Top(u).unit>>].by
                             \in {Top(u).pm} \cup Hosted)'
        BY DEF DropOldOK
      <3>1. stack'[u] = stack[u] /\ (u = t \/ pc[u] = "dropold")
        BY <1>2, <1>7
      <3>2. stack[u] # <<>> /\ Top(u).from # None
        BY <1>1, <1>2, <3>1 DEF TypeInv, ThreadsOK, ThreadOK
      <3>3. /\ Top(u).kind \in Kinds /\ Here(u) \in Addrs
            /\ <<Top(u).from, Top(u).unit>> \in Cells
            /\ Top(u).pm \in PMs /\ Owns(Top(u).pm, Top(u).kind, Here(u))
        BY <3>2, <1>2, TopOK DEF Cells, Owns, Allocated, Here
      <3>4. Top(u)' = Top(u) /\ Here(u)' = Here(u)
        BY <1>1, <3>1 DEF Top, Here
      <3>5. CASE Top(u).kind = K /\ Here(u) = H /\ <<Top(u).from, Top(u).unit>> = cell
        <4>1. Top(u).pm = f.pm
          BY <1>2, <1>3, <3>3, <3>5 DEF TypeInv, Distinct, Owns
        <4> QED
          BY <2>1, <2>4, <3>3, <3>4, <3>5, <4>1
      <3>6. CASE ~ (Top(u).kind = K /\ Here(u) = H /\ <<Top(u).from, Top(u).unit>> = cell)
        <4>1. u # t
          BY <3>6
        <4>2. cache[Top(u).kind][Here(u)][<<Top(u).from, Top(u).unit>>].by
                \in {Top(u).pm} \cup Hosted
          BY <1>2, <3>1, <4>1 DEF DropOldOK
        <4> QED
          BY <2>4, <3>3, <3>4, <3>6, <4>2
      <3> QED
        BY <3>5, <3>6
    <2>10. FramesOwned'
      <3> SUFFICES ASSUME NEW u \in Threads, NEW i \in DOMAIN stack'[u]
                   PROVE  FrameOwned(stack[u][i])'
        BY DEF FramesOwned
      <3>1. FrameOwned(stack'[u][i])
        BY <1>2, <1>7, <2>3 DEF FramesOwned
      <3> QED
        BY <1>1, <3>1 DEF FrameOwned, Registered
    <2> QED
      BY <2>5, <2>6, <2>8, <2>9, <2>10 DEF OwnInv
  <1> QED
    BY <1>6, <1>7 DEF Insert, Goto

-----------------------------------------------------------------------------
\* No drop touches the entries of a live manager.
LEMMA ClearMapKeeps ==
    ASSUME TypeInv, NEW t \in Threads, ClearMap(t)
    PROVE  /\ \A q \in PMs, k \in Kinds : Allocated(q) /\ q # victim[t] =>
                /\ \A A \in Analyses : passes'[k][addr[q][k]][A] = passes[k][addr[q][k]][A]
                /\ \A c \in Cells : cache'[k][addr[q][k]][c] = cache[k][addr[q][k]][c]
           /\ \A k \in Kinds, a \in Addrs :
                /\ \A A \in Analyses : passes'[k][a][A] \in {passes[k][a][A], None}
                /\ \A c \in Cells : cache'[k][a][c] \in {cache[k][a][c], None}
  <1> DEFINE pm == victim[t]
             l == ClearOrder[stage[pm] + 1]
             a == addr[pm][l[1]]
  <1>1. /\ pc[t] = "clear" /\ stage[pm] < 4 /\ pm \in PMs /\ status[pm] = "dropping"
    BY ClearOrderOK DEF ClearMap, TypeInv, ThreadsOK, ThreadOK
  <1>2. /\ passes \in [Kinds -> [Addrs -> [Analyses -> PMs \cup {None}]]]
        /\ cache \in [Kinds -> [Addrs -> [Cells -> Result \cup {None}]]]
        /\ stage[pm] \in 0 .. 3
    BY <1>1, ClearOrderOK DEF TypeInv, TypeOK
  <1>3. l \in Locks /\ l[1] \in Kinds
    BY <1>2, ClearOrderOK
  <1>4. a \in Addrs
    BY <1>1, <1>3 DEF TypeInv, AddrsOK
  <1>5. /\ passes' = passes \/ passes' = [passes EXCEPT ![l[1]][a] = NoEntries]
        /\ cache' = cache \/ cache' = [cache EXCEPT ![l[1]][a] = NoResults]
    BY DEF ClearMap, TakeOut
  <1>6. Allocated(pm)
    BY <1>1 DEF Allocated
  <1> HIDE DEF l
  <1>7. ASSUME NEW q \in PMs, NEW k \in Kinds, Allocated(q), q # pm
        PROVE  addr[q][k] \in Addrs /\ (k = l[1] => addr[q][k] # a)
    BY <1>1, <1>6, <1>7 DEF TypeInv, AddrsOK, Distinct, Allocated
  <1> HIDE DEF pm, a
  <1>8. \A k \in Kinds, b \in Addrs, A \in Analyses :
          passes'[k][b][A] = passes[k][b][A] \/ (k = l[1] /\ b = a /\ passes'[k][b][A] = None)
    BY <1>2, <1>3, <1>4, <1>5 DEF NoEntries
  <1>9. \A k \in Kinds, b \in Addrs, c \in Cells :
          cache'[k][b][c] = cache[k][b][c] \/ (k = l[1] /\ b = a /\ cache'[k][b][c] = None)
    BY <1>2, <1>3, <1>4, <1>5 DEF NoResults
  <1> QED
    BY <1>7, <1>8, <1>9 DEF pm

\* What a step of a drop leaves of the other parts of the invariant.
LEMMA DropKeeps ==
    ASSUME OwnInv, addr' = addr, stack' = stack,
           poisoned \subseteq poisoned',
           \A pm \in PMs : Allocated(pm)' => Allocated(pm),
           \A pm \in PMs, k \in Kinds : status[pm] = "live" =>
               /\ \A A \in Analyses : passes'[k][addr[pm][k]][A] = passes[k][addr[pm][k]][A]
               /\ \A c \in Cells : cache'[k][addr[pm][k]][c] = cache[k][addr[pm][k]][c],
           \A u \in Threads : pc'[u] = "dropold" => pc[u] = "dropold"
    PROVE  DropOldOK' /\ FramesOwned'
  <1>1. DropOldOK'
    <2> SUFFICES ASSUME NEW u \in Threads, pc'[u] = "dropold"
                 PROVE  (cache[Top(u).kind][Here(u)][<<Top(u).from, Top(u).unit>>].by
                           \in {Top(u).pm} \cup Hosted)'
      BY DEF DropOldOK
    <2>1. stack[u] # <<>> /\ Top(u).from # None
          /\ cache[Top(u).kind][Here(u)][<<Top(u).from, Top(u).unit>>].by
               \in {Top(u).pm} \cup Hosted
      BY DEF OwnInv, TypeInv, ThreadsOK, ThreadOK, DropOldOK
    <2>2. /\ Top(u).kind \in Kinds /\ <<Top(u).from, Top(u).unit>> \in Cells
          /\ Top(u).pm \in PMs /\ status[Top(u).pm] = "live"
      BY <2>1, TopOK DEF OwnInv, Cells
    <2>3. Top(u)' = Top(u) /\ Here(u)' = Here(u)
      BY DEF Top, Here
    <2>4. cache'[Top(u).kind][Here(u)][<<Top(u).from, Top(u).unit>>]
            = cache[Top(u).kind][Here(u)][<<Top(u).from, Top(u).unit>>]
      BY <2>2 DEF Here
    <2> QED
      BY <2>1, <2>3, <2>4
  <1>2. FramesOwned'
    <2> SUFFICES ASSUME NEW u \in Threads, NEW i \in DOMAIN stack[u]
                 PROVE  FrameOwned(stack[u][i])'
      BY DEF FramesOwned
    <2>1. FrameOwned(stack[u][i])
      BY DEF OwnInv, FramesOwned
    <2>2. CASE stack[u][i].from # None
      <3>1. /\ stack[u][i].kind \in Kinds /\ stack[u][i].from \in Analyses
            /\ stack[u][i].pm \in PMs /\ status[stack[u][i].pm] = "live"
        BY <2>2, FrameFacts DEF OwnInv
      <3>2. Registered(stack[u][i], stack[u][i].from)' = Registered(stack[u][i], stack[u][i].from)
        BY <3>1 DEF Registered
      <3> QED
        BY <2>1, <3>2 DEF FrameOwned
    <2>3. CASE stack[u][i].from = None
      BY <2>1, <2>3 DEF FrameOwned
    <2> QED
      BY <2>2, <2>3
  <1> QED
    BY <1>1, <1>2

\* A map is emptied at the address of the manager dropped, or skipped.
LEMMA ClearMapOwn ==
    ASSUME OwnInv, TypeInv', NEW t \in Threads, ClearMap(t)
    PROVE  OwnInv'
  <1> DEFINE pm == victim[t]
             l == ClearOrder[stage[pm] + 1]
  <1>1. /\ status' = status /\ addr' = addr /\ poisoned' = poisoned
        /\ stack' = stack /\ victim' = victim
        /\ pc[t] = "clear" /\ pc \in [Threads -> PCs]
    BY DEF ClearMap, OwnInv, TypeInv, TypeOK
  <1>2. /\ pm \in PMs /\ status[pm] = "dropping" /\ Allocated(pm) /\ TypeInv
    BY <1>1 DEF OwnInv, TypeInv, ThreadsOK, ThreadOK, Allocated
  <1>3. stage \in [PMs -> 0 .. 4] /\ stage[pm] \in 0 .. 3
    BY <1>2, ClearOrderOK DEF TypeInv, TypeOK, ClearMap
  <1>4. l[1] \in Kinds /\ l \in Locks
    BY <1>3, ClearOrderOK
  <1>5. /\ \A q \in PMs, k \in Kinds : Allocated(q) /\ q # pm =>
                /\ \A A \in Analyses : passes'[k][addr[q][k]][A] = passes[k][addr[q][k]][A]
                /\ \A c \in Cells : cache'[k][addr[q][k]][c] = cache[k][addr[q][k]][c]
        /\ \A k \in Kinds, a \in Addrs :
                /\ \A A \in Analyses : passes'[k][a][A] \in {passes[k][a][A], None}
                /\ \A c \in Cells : cache'[k][a][c] \in {cache[k][a][c], None}
    BY <1>2, ClearMapKeeps
  <1>6. DropOldOK' /\ FramesOwned'
    <2>1. \A u \in Threads : pc'[u] = "dropold" => pc[u] = "dropold"
      BY <1>1 DEF ClearMap, Goto
    <2>2. \A q \in PMs : status[q] = "live" => Allocated(q) /\ q # pm
      BY <1>2 DEF Allocated
    <2>3. \A q \in PMs : Allocated(q)' => Allocated(q)
      BY <1>1 DEF Allocated
    <2> QED
      BY <1>1, <1>5, <2>1, <2>2, <2>3, DropKeeps
  <1>7. PassesFresh' /\ CacheFresh'
    BY <1>1, <1>5 DEF OwnInv, PassesFresh, CacheFresh, Serves, Owns, Allocated
  <1>8. ASSUME NEW q \in PMs, NEW n \in 0 .. 3, status[q] = "dropping", Cleared(q, n + 1)
        PROVE  Cleared(q, n + 1)'
    <2>1. ClearOrder[n + 1][1] \in Kinds
      BY ClearOrderOK
    <2>2. addr[q] \in [Kinds -> Addrs]
      BY <1>2, <1>8 DEF TypeInv, AddrsOK
    <2>3. LET k == ClearOrder[n + 1][1] IN
            /\ \A A \in Analyses : passes[k][addr[q][k]][A] = None
                                => passes'[k][addr[q][k]][A] = None
            /\ \A c \in Cells : cache[k][addr[q][k]][c] = None
                             => cache'[k][addr[q][k]][c] = None
      BY <1>5, <2>1, <2>2
    <2> QED
      BY <1>1, <1>8, <2>3 DEF Cleared
  <1>9. ASSUME NEW q \in PMs, q = pm, NEW n \in 0 .. 3, n = stage[q]
        PROVE  Cleared(q, n + 1)'
    <2>1. l = ClearOrder[n + 1] /\ addr[q][l[1]] \in Addrs
      BY <1>2, <1>4, <1>9 DEF TypeInv, AddrsOK
    <2>2. CASE l \in poisoned
      BY <1>1, <2>1, <2>2 DEF Cleared
    <2>3. CASE Nothing(l, addr[q][l[1]]) /\ UNCHANGED <<passes, cache>>
      <3>1. l[2] \in {"passes", "cache"}
        BY <1>4 DEF Locks
      <3> HIDE DEF l
      <3>2. \/ l[2] = "passes" /\ \A A \in Analyses : passes'[l[1]][addr[q][l[1]]][A] = None
            \/ l[2] = "cache" /\ \A c \in Cells : cache'[l[1]][addr[q][l[1]]][c] = None
        BY <2>3, <3>1 DEF Nothing, NoEntries, NoResults
      <3> QED
        BY <1>1, <2>1, <3>2 DEF Cleared
    <2>4. CASE TakeOut(l, addr[q][l[1]])
      <3>1. \/ l[2] = "passes" /\ passes' = [passes EXCEPT ![l[1]][addr[q][l[1]]] = NoEntries]
            \/ l[2] = "cache" /\ cache' = [cache EXCEPT ![l[1]][addr[q][l[1]]] = NoResults]
        BY <2>4, <1>4 DEF TakeOut, Locks
      <3> HIDE DEF l
      <3>2. \/ l[2] = "passes" /\ \A A \in Analyses : passes'[l[1]][addr[q][l[1]]][A] = None
            \/ l[2] = "cache" /\ \A c \in Cells : cache'[l[1]][addr[q][l[1]]][c] = None
        <4>1. /\ passes \in [Kinds -> [Addrs -> [Analyses -> PMs \cup {None}]]]
              /\ cache \in [Kinds -> [Addrs -> [Cells -> Result \cup {None}]]]
          BY <1>2 DEF TypeInv, TypeOK
        <4>2. l[1] \in Kinds /\ addr[q][l[1]] \in Addrs
          BY <1>4, <2>1
        <4>3. CASE l[2] = "passes" /\ passes' = [passes EXCEPT ![l[1]][addr[q][l[1]]] = NoEntries]
          <5>1. passes'[l[1]][addr[q][l[1]]] = NoEntries
            BY <4>1, <4>2, <4>3
          <5> QED
            BY <4>3, <5>1 DEF NoEntries
        <4>4. CASE l[2] = "cache" /\ cache' = [cache EXCEPT ![l[1]][addr[q][l[1]]] = NoResults]
          <5>1. cache'[l[1]][addr[q][l[1]]] = NoResults
            BY <4>1, <4>2, <4>4
          <5> QED
            BY <4>4, <5>1 DEF NoResults
        <4> QED
          BY <3>1, <4>3, <4>4
      <3> QED
        BY <1>1, <2>1, <3>2 DEF Cleared
    <2> QED
      BY <1>9, <2>2, <2>3, <2>4 DEF ClearMap
  <1>10. StageOK' /\ FreeingOK'
    <2>1. \A u \in Threads \ {t} : pc[u] = "freeing" => victim[u] # pm /\ victim[u] \in PMs
      BY <1>1, <1>2 DEF TypeInv, OneDropper, ThreadsOK, ThreadOK
    <2>2. \/ stage' = stage
          \/ stage' = [stage EXCEPT ![pm] = @ + 1] /\ pc' = pc
      BY DEF ClearMap
    <2>3. \A u \in Threads : pc'[u] = "freeing" =>
               \/ /\ pc[u] = "freeing" /\ victim'[u] = victim[u]
                  /\ stage'[victim[u]] = stage[victim[u]]
               \/ \E q \in PMs, n \in 0 .. 3 :
                    victim'[u] = q /\ stage'[q] = n /\ Cleared(q, n + 1)'
      <3> SUFFICES ASSUME NEW u \in Threads, pc'[u] = "freeing"
                   PROVE  \/ /\ pc[u] = "freeing" /\ victim'[u] = victim[u]
                             /\ stage'[victim[u]] = stage[victim[u]]
                          \/ \E q \in PMs, n \in 0 .. 3 :
                               victim'[u] = q /\ stage'[q] = n /\ Cleared(q, n + 1)'
        OBVIOUS
      <3>1. CASE u = t
        <4>1. stage' = stage
          BY <1>1, <3>1 DEF ClearMap
        <4> QED
          BY <1>1, <1>2, <1>3, <1>9, <3>1, <4>1
      <3>2. CASE u # t
        <4>1. pc[u] = "freeing"
          BY <1>1, <3>2 DEF ClearMap, Goto
        <4> QED
          BY <1>1, <1>3, <2>1, <2>2, <3>2, <4>1
      <3> QED
        BY <3>1, <3>2
    <2>4. \A q \in PMs :
               \/ stage'[q] = stage[q]
               \/ /\ status'[q] = status[q] /\ status[q] = "dropping"
                  /\ \E n \in 0 .. 3 : /\ stage[q] = n /\ stage'[q] = n + 1
                                       /\ Cleared(q, n + 1)'
      BY <1>1, <1>2, <1>3, <1>9, <2>2
    <2> QED
      BY <1>1, <1>8, <2>3, <2>4, StageKept
  <1> QED
    BY <1>6, <1>7, <1>10 DEF OwnInv

\* The drop goes past the map it has emptied.
LEMMA FreedOwn ==
    ASSUME OwnInv, TypeInv', NEW t \in Threads, Freed(t)
    PROVE  OwnInv'
  <1> DEFINE pm == victim[t]
  <1>1. /\ status' = status /\ addr' = addr /\ poisoned' = poisoned
        /\ passes' = passes /\ cache' = cache /\ stack' = stack /\ victim' = victim
        /\ stage' = [stage EXCEPT ![pm] = @ + 1] /\ pc' = [pc EXCEPT ![t] = "clear"]
        /\ pc[t] = "freeing" /\ pc \in [Threads -> PCs]
    BY DEF Freed, Goto, OwnInv, TypeInv, TypeOK
  <1>2. /\ pm \in PMs /\ status[pm] = "dropping" /\ TypeInv /\ stage[pm] < 4
    BY <1>1 DEF OwnInv, TypeInv, ThreadsOK, ThreadOK
  <1>3. stage \in [PMs -> 0 .. 4] /\ stage[pm] \in 0 .. 3
    BY <1>2, ClearOrderOK DEF TypeInv, TypeOK
  <1>4. DropOldOK' /\ FramesOwned'
    BY <1>1, DropKeeps DEF Allocated
  <1>5. PassesFresh' /\ CacheFresh'
    BY <1>1 DEF OwnInv, PassesFresh, CacheFresh, Serves, Owns, Allocated
  <1>6. \A q \in PMs, n \in 0 .. 3 : Cleared(q, n + 1) => Cleared(q, n + 1)'
    BY <1>1 DEF Cleared
  <1>7. ASSUME NEW q \in PMs, q = pm, NEW n \in 0 .. 3, n = stage[q]
        PROVE  Cleared(q, n + 1)'
    <2>1. Cleared(q, n + 1)
      BY <1>1, <1>7 DEF OwnInv, FreeingOK
    <2> QED
      BY <1>6, <2>1
  <1>8. StageOK' /\ FreeingOK'
    <2>1. \A u \in Threads \ {t} : pc[u] = "freeing" => victim[u] # pm /\ victim[u] \in PMs
      BY <1>1, <1>2 DEF TypeInv, OneDropper, ThreadsOK, ThreadOK
    <2>2. \A u \in Threads : pc'[u] = "freeing" =>
            /\ pc[u] = "freeing" /\ victim'[u] = victim[u]
            /\ stage'[victim[u]] = stage[victim[u]]
      BY <1>1, <1>3, <2>1
    <2>3. \A q \in PMs :
               \/ stage'[q] = stage[q]
               \/ /\ status'[q] = status[q] /\ status[q] = "dropping"
                  /\ \E n \in 0 .. 3 : /\ stage[q] = n /\ stage'[q] = n + 1
                                       /\ Cleared(q, n + 1)'
      BY <1>1, <1>2, <1>3, <1>7
    <2> QED
      BY <1>1, <1>6, <2>2, <2>3, StageKept
  <1> QED
    BY <1>4, <1>5, <1>8 DEF OwnInv

\* A drop that ends leaves no entry under a mutex that is not poisoned, or the
\* addresses it ends with stay taken.
LEMMA EndDropOwn ==
    ASSUME OwnInv, TypeInv', NEW t \in Threads, FreePanics(t) \/ Dispose(t)
    PROVE  OwnInv'
  <1> DEFINE pm == victim[t]
  <1>1. /\ addr' = addr /\ poisoned \subseteq poisoned'
        /\ passes' = passes /\ cache' = cache /\ stack' = stack /\ stage' = stage
        /\ pc[t] \in {"clear", "freeing"} /\ pc \in [Threads -> PCs]
        /\ victim' = [victim EXCEPT ![t] = None]
        /\ victim \in [Threads -> PMs \cup {None}] /\ status \in [PMs -> Statuses]
    BY DEF FreePanics, Dispose, OwnInv, TypeInv, TypeOK
  <1>2. /\ pm \in PMs /\ status[pm] = "dropping" /\ TypeInv
        /\ status' = [status EXCEPT ![pm] = "leaked"]
             \/ (status' = [status EXCEPT ![pm] = "disposed"] /\ stage[pm] = 4 /\ Dispose(t))
    BY <1>1, ClearOrderOK DEF FreePanics, Dispose, OwnInv, TypeInv, ThreadsOK, ThreadOK
  <1>3. PICK w \in {"user", "unwind"} : pc' = [pc EXCEPT ![t] = w]
    BY DEF FreePanics, Dispose, Goto
  <1>4. \A q \in PMs : Allocated(q)' => Allocated(q)
    BY <1>1, <1>2 DEF Allocated
  <1>5. DropOldOK' /\ FramesOwned'
    <2>1. \A u \in Threads : pc'[u] = "dropold" => pc[u] = "dropold"
      BY <1>1, <1>3
    <2> QED
      BY <1>1, <1>4, <2>1, DropKeeps
  <1>6. ASSUME NEW q \in PMs, NEW k \in Kinds, NEW a \in Addrs, Owns(q, k, a), ~ Owns(q, k, a)'
        PROVE  /\ <<k, "passes">> \notin poisoned => \A A \in Analyses : passes[k][a][A] = None
               /\ <<k, "cache">> \notin poisoned => \A c \in Cells : cache[k][a][c] = None
    <2>1. /\ q = pm /\ status'[pm] = "disposed" /\ stage[pm] = 4 /\ addr[pm][k] = a
      BY <1>1, <1>2, <1>6 DEF Owns, Allocated
    <2>2. \A n \in 1 .. 4 : Cleared(pm, n)
      BY <1>2, <2>1 DEF OwnInv, StageOK
    <2>3. Cleared(pm, 1) /\ Cleared(pm, 2) /\ Cleared(pm, 3) /\ Cleared(pm, 4)
      BY <2>2
    <2> QED
      BY <2>1, <2>3 DEF Cleared, ClearOrder, Kinds
  <1>7. PassesFresh'
    <2> SUFFICES ASSUME NEW k \in Kinds, NEW a \in Addrs, NEW A \in Analyses,
                        <<k, "passes">> \notin poisoned', passes[k][a][A] # None
                 PROVE  Serves(passes[k][a][A], k, a)'
      BY <1>1 DEF PassesFresh
    <2>1. passes[k][a][A] \in PMs /\ Serves(passes[k][a][A], k, a)
      BY <1>1 DEF OwnInv, TypeInv, TypeOK, PassesFresh
    <2> DEFINE q == passes[k][a][A]
    <2>2. ASSUME NEW r \in PMs, r = q PROVE Serves(r, k, a)'
      BY <1>1, <1>6, <2>1, <2>2 DEF Serves
    <2> QED
      BY <1>1, <2>1, <2>2
  <1>8. CacheFresh'
    <2> SUFFICES ASSUME NEW k \in Kinds, NEW a \in Addrs, NEW c \in Cells,
                        <<k, "cache">> \notin poisoned', cache[k][a][c] # None
                 PROVE  Serves(cache[k][a][c].by, k, a)'
      BY <1>1 DEF CacheFresh
    <2>1. cache[k][a][c].by \in PMs /\ Serves(cache[k][a][c].by, k, a)
      BY <1>1 DEF OwnInv, TypeInv, TypeOK, CacheFresh, Result
    <2>2. ASSUME NEW r \in PMs, r = cache[k][a][c].by PROVE Serves(r, k, a)'
      BY <1>1, <1>6, <2>1, <2>2 DEF Serves
    <2> QED
      BY <1>1, <2>1, <2>2
  <1>9. StageOK' /\ FreeingOK'
    <2>1. \A q \in PMs, n \in 0 .. 3 : Cleared(q, n + 1) => Cleared(q, n + 1)'
      BY <1>1 DEF Cleared
    <2>2. \A u \in Threads : pc'[u] = "freeing" =>
            /\ pc[u] = "freeing" /\ victim'[u] = victim[u]
            /\ stage'[victim[u]] = stage[victim[u]]
      BY <1>1, <1>3
    <2>3. \A q \in PMs : status'[q] = status[q] \/ status'[q] \in {"leaked", "disposed"}
      BY <1>1, <1>2
    <2> QED
      BY <1>1, <2>1, <2>2, <2>3, StageKept
  <1> QED
    BY <1>5, <1>7, <1>8, <1>9 DEF OwnInv

\* A drop that begins has cleared nothing yet.
LEMMA BeginDropOwn ==
    ASSUME OwnInv, TypeInv', NEW t \in Threads, NEW pm \in PMs, BeginDrop(t, pm)
    PROVE  OwnInv'
  <1>1. /\ addr' = addr /\ poisoned' = poisoned
        /\ passes' = passes /\ cache' = cache /\ stack' = stack /\ stage' = stage
        /\ status' = [status EXCEPT ![pm] = "dropping"] /\ status[pm] = "live"
        /\ victim' = [victim EXCEPT ![t] = pm] /\ pc' = [pc EXCEPT ![t] = "clear"]
        /\ status \in [PMs -> Statuses] /\ pc \in [Threads -> PCs]
        /\ victim \in [Threads -> PMs \cup {None}]
    BY DEF BeginDrop, Goto, OwnInv, TypeInv, TypeOK
  <1>2. \A q \in PMs : Allocated(q)' <=> Allocated(q)
    BY <1>1 DEF Allocated
  <1>3. DropOldOK' /\ FramesOwned'
    <2>1. \A u \in Threads : pc'[u] = "dropold" => pc[u] = "dropold"
      BY <1>1
    <2> QED
      BY <1>1, <1>2, <2>1, DropKeeps
  <1>4. \A k, a : \A q \in PMs : Serves(q, k, a) => Serves(q, k, a)'
    BY <1>1, <1>2 DEF Serves, Owns
  <1>5. PassesFresh'
    BY <1>1, <1>4 DEF OwnInv, TypeInv, TypeOK, PassesFresh
  <1>6. CacheFresh'
    BY <1>1, <1>4 DEF OwnInv, TypeInv, TypeOK, CacheFresh, Result
  <1>7. StageOK' /\ FreeingOK'
    <2>1. \A q \in PMs, n \in 0 .. 3 : Cleared(q, n + 1) => Cleared(q, n + 1)'
      BY <1>1 DEF Cleared
    <2>2. \A u \in Threads : pc'[u] = "freeing" =>
            /\ pc[u] = "freeing" /\ victim'[u] = victim[u]
            /\ stage'[victim[u]] = stage[victim[u]]
      BY <1>1
    <2>3. \A q \in PMs : status'[q] = status[q]
                         \/ (status[q] = "live" /\ status'[q] = "dropping")
      BY <1>1
    <2> QED
      BY <1>1, <2>1, <2>2, <2>3, StageKept
  <1> QED
    BY <1>3, <1>5, <1>6, <1>7 DEF OwnInv

\* A new manager owned nothing before: it was not allocated.
LEMMA CreateOwn ==
    ASSUME OwnInv, TypeInv', NEW pm \in PMs, Create(pm)
    PROVE  OwnInv'
  <1>1. /\ poisoned' = poisoned /\ pc' = pc /\ victim' = victim
        /\ passes' = passes /\ cache' = cache /\ stack' = stack /\ stage' = stage
        /\ status' = [status EXCEPT ![pm] = "live"] /\ status[pm] = "unborn"
        /\ status \in [PMs -> Statuses] /\ TypeInv
        /\ \A q \in PMs \ {pm} : addr'[q] = addr[q]
    BY DEF Create, OwnInv, TypeInv, TypeOK
  <1>2. \A q \in PMs \ {pm} : status'[q] = status[q]
    BY <1>1
  <1>3. \A k, a : \A q \in PMs : Serves(q, k, a) => Serves(q, k, a)'
    BY <1>1, <1>2 DEF Serves, Owns, Allocated
  <1>4. PassesFresh'
    BY <1>1, <1>3 DEF OwnInv, TypeInv, TypeOK, PassesFresh
  <1>5. CacheFresh'
    BY <1>1, <1>3 DEF OwnInv, TypeInv, TypeOK, CacheFresh, Result
  <1>6. StageOK' /\ FreeingOK'
    <2>1. \A q \in PMs, n \in 0 .. 3 :
             status[q] = "dropping" /\ Cleared(q, n + 1) => Cleared(q, n + 1)'
      BY <1>1 DEF Cleared
    <2>2. \A u \in Threads : pc'[u] = "freeing" =>
            /\ pc[u] = "freeing" /\ victim'[u] = victim[u]
            /\ stage'[victim[u]] = stage[victim[u]]
      BY <1>1
    <2>3. \A q \in PMs : status'[q] = status[q]
                         \/ (status[q] = "unborn" /\ status'[q] = "live")
      BY <1>1
    <2> QED
      BY <1>1, <2>1, <2>2, <2>3, StageKept
  <1>7. FramesOwned'
    <2> SUFFICES ASSUME NEW u \in Threads, NEW i \in DOMAIN stack[u]
                 PROVE  FrameOwned(stack[u][i])'
      BY <1>1 DEF FramesOwned
    <2>1. FrameOwned(stack[u][i])
      BY DEF OwnInv, FramesOwned
    <2>2. stack[u][i].pm \in PMs \ {pm}
      BY <1>1, FrameFacts
    <2> QED
      BY <1>1, <2>1, <2>2 DEF FrameOwned, Registered
  <1>8. DropOldOK'
    <2> SUFFICES ASSUME NEW u \in Threads, pc[u] = "dropold"
                 PROVE  (cache[Top(u).kind][Here(u)][<<Top(u).from, Top(u).unit>>].by
                           \in {Top(u).pm} \cup Hosted)'
      BY <1>1 DEF DropOldOK
    <2>1. stack[u] # <<>>
          /\ cache[Top(u).kind][Here(u)][<<Top(u).from, Top(u).unit>>].by
               \in {Top(u).pm} \cup Hosted
      BY DEF OwnInv, TypeInv, ThreadsOK, ThreadOK, DropOldOK
    <2>2. Top(u).pm \in PMs \ {pm}
      BY <1>1, <2>1, TopOK
    <2>3. Top(u)' = Top(u) /\ Here(u)' = Here(u)
      BY <1>1, <2>2 DEF Top, Here
    <2> QED
      BY <1>1, <2>1, <2>3
  <1> QED
    BY <1>4, <1>5, <1>6, <1>7, <1>8 DEF OwnInv

\* What a host's manager leaves behind, it may.
LEMMA HostFreesOwn ==
    ASSUME OwnInv, TypeInv', NEW pm \in PMs, HostFrees(pm)
    PROVE  OwnInv'
  <1>1. /\ addr' = addr /\ poisoned' = poisoned /\ pc' = pc /\ victim' = victim
        /\ passes' = passes /\ cache' = cache /\ stack' = stack /\ stage' = stage
        /\ status' = [status EXCEPT ![pm] = "disposed"] /\ pm \in Hosted
        /\ status \in [PMs -> Statuses]
    BY DEF HostFrees, OwnInv, TypeInv, TypeOK
  <1>2. \A q \in PMs : Allocated(q)' => Allocated(q)
    BY <1>1 DEF Allocated
  <1>3. DropOldOK' /\ FramesOwned'
    BY <1>1, <1>2, DropKeeps
  <1>4. \A k, a : \A q \in PMs : Serves(q, k, a) => Serves(q, k, a)'
    BY <1>1 DEF Serves, Owns, Allocated
  <1>5. PassesFresh'
    BY <1>1, <1>4 DEF OwnInv, TypeInv, TypeOK, PassesFresh
  <1>6. CacheFresh'
    BY <1>1, <1>4 DEF OwnInv, TypeInv, TypeOK, CacheFresh, Result
  <1>7. StageOK' /\ FreeingOK'
    <2>1. \A q \in PMs, n \in 0 .. 3 : Cleared(q, n + 1) => Cleared(q, n + 1)'
      BY <1>1 DEF Cleared
    <2>2. \A q \in PMs : status'[q] = status[q] \/ status'[q] = "disposed"
      BY <1>1
    <2> QED
      BY <1>1, <2>1, <2>2, StageKept
  <1> QED
    BY <1>3, <1>5, <1>6, <1>7 DEF OwnInv

-----------------------------------------------------------------------------
\* Every step keeps the invariant.
LEMMA OwnStep == OwnInv /\ [Next]_vars => OwnInv'
  <1> SUFFICES ASSUME OwnInv, [Next]_vars PROVE OwnInv'
    OBVIOUS
  <1>1. TypeInv'
    BY TypeStep DEF OwnInv
  <1>2. CASE \E pm \in PMs : Create(pm) \/ HostFrees(pm)
    BY <1>1, <1>2, CreateOwn, HostFreesOwn
  <1>3. ASSUME NEW t \in Threads, LibraryStep(t) PROVE OwnInv'
    BY <1>1, <1>3, LookupPassOwn, InsertOwn, DroppedOldOwn, PopOwn, ClearMapOwn,
       FreedOwn, EndDropOwn, ControlOwn DEF LibraryStep
  <1>4. ASSUME NEW t \in Threads, UserStep(t) PROVE OwnInv'
    <2>1. ASSUME NEW pm \in PMs, NEW k \in UsedKinds, EnterPass(t, pm, k) PROVE OwnInv'
      BY <1>1, <2>1, EnterPassOwn, BoundAssumption
    <2> QED
      BY <1>1, <1>4, <2>1, BeginDropOwn, PopOwn, AddAnalysisOwn, GetCachedResultOwn,
         ControlOwn DEF UserStep
  <1>5. CASE UNCHANGED vars
    <2>1. /\ status' = status /\ addr' = addr /\ passes' = passes /\ cache' = cache
          /\ poisoned' = poisoned /\ pc' = pc /\ stack' = stack
          /\ victim' = victim /\ stage' = stage
      BY <1>5 DEF vars
    <2>2. StageOK' /\ FreeingOK'
      BY <2>1 DEF OwnInv, StageOK, FreeingOK, Cleared
    <2>3. DropOldOK' /\ FramesOwned'
      BY <2>1, DropKeeps DEF Allocated
    <2>4. PassesFresh' /\ CacheFresh'
      BY <2>1 DEF OwnInv, PassesFresh, CacheFresh, Serves, Owns, Allocated
    <2> QED
      BY <1>1, <2>2, <2>3, <2>4 DEF OwnInv
  <1> QED
    BY <1>2, <1>3, <1>4, <1>5 DEF Next

\* The inductive invariant of ownership holds always.
LEMMA OwnAlways == Spec => []OwnInv
  BY OwnInit, OwnStep, PTL DEF Spec

\* No entry of an unpoisoned map outlives its manager, but for those of a
\* host: clear_analysis_state comes before llvm_pm_dispose, and a panic in
\* between keeps the addresses.
THEOREM EntriesFresh == Spec => []NoStaleEntries
  <1>1. OwnInv => NoStaleEntries
    BY DEF OwnInv, PassesFresh, CacheFresh, Serves, Owns, NoStaleEntries
  <1> QED
    BY <1>1, OwnAlways, PTL

\* Every callback is served by its own manager, although the maps know only
\* addresses: get_result and get_cached_result never answer from another's,
\* unless a host has left it at the address.
THEOREM OwnerServes == Spec => []ServedByOwner
  <1>1. OwnInv => ServedByOwner
    BY DEF OwnInv, FramesOwned, FrameOwned, ServedByOwner
  <1> QED
    BY <1>1, OwnAlways, PTL

\* The box get_result copied out of the registry outlives the run_analysis it
\* was copied for, with any number of threads and drops beside it.
THEOREM RunningPassStays == Spec => []RunningPassRegistered
  <1>1. OwnInv => RunningPassRegistered
    BY DEF OwnInv, FramesOwned, FrameOwned, RunningPassRegistered
  <1> QED
    BY <1>1, OwnAlways, PTL

\* A registration or a result of a live manager is never lost to a step of
\* anything but its own drop: no other drop empties a map at its address.
LEMMA KeepStep == OwnInv /\ [Next]_vars => [KeptUntilDropStep]_vars
  <1> SUFFICES ASSUME OwnInv, Next, NEW pm \in PMs, NEW k \in Kinds,
                      status[pm] = "live", status'[pm] = "live"
               PROVE  /\ \A A \in Analyses :
                           passes[k][addr[pm][k]][A] # None =>
                             passes'[k][addr[pm][k]][A] = passes[k][addr[pm][k]][A]
                      /\ \A c \in Cells :
                           cache[k][addr[pm][k]][c] # None => cache'[k][addr[pm][k]][c] # None
    BY DEF KeptUntilDropStep
  <1>1. /\ TypeInv /\ addr[pm][k] \in Addrs
        /\ passes \in [Kinds -> [Addrs -> [Analyses -> PMs \cup {None}]]]
        /\ cache \in [Kinds -> [Addrs -> [Cells -> Result \cup {None}]]]
    BY DEF OwnInv, TypeInv, TypeOK, AddrsOK
  <1>2. CASE passes' = passes /\ cache' = cache
    BY <1>2
  <1>3. ASSUME NEW t \in Threads, ClearMap(t)
        PROVE  /\ \A A \in Analyses : passes'[k][addr[pm][k]][A] = passes[k][addr[pm][k]][A]
               /\ \A c \in Cells : cache'[k][addr[pm][k]][c] = cache[k][addr[pm][k]][c]
    <2>1. status[victim[t]] = "dropping"
      BY <1>1, <1>3 DEF ClearMap, TypeInv, ThreadsOK, ThreadOK
    <2>2. Allocated(pm) /\ pm # victim[t]
      BY <2>1 DEF Allocated
    <2> QED
      BY <1>1, <1>3, <2>2, ClearMapKeeps
  <1>4. ASSUME NEW t \in Threads, NEW A \in Analyses, AddAnalysis(t, A)
        PROVE  /\ \A B \in Analyses :
                    passes[k][addr[pm][k]][B] # None =>
                      passes'[k][addr[pm][k]][B] = passes[k][addr[pm][k]][B]
               /\ cache' = cache
    <2>1. CASE passes' = passes
      BY <1>4, <2>1 DEF AddAnalysis
    <2>2. CASE /\ passes[Top(t).kind][Here(t)][A] = None
               /\ passes' = [passes EXCEPT ![Top(t).kind][Here(t)][A] = Top(t).pm]
      <3>1. Top(t).kind \in Kinds /\ Here(t) \in Addrs
        BY <1>1, <1>4, TopOK DEF AddAnalysis, InCallback
      <3> QED
        BY <1>1, <1>4, <2>2, <3>1 DEF AddAnalysis
    <2> QED
      BY <1>4, <2>1, <2>2 DEF AddAnalysis, PassesLock
  <1>5. ASSUME NEW t \in Threads, Insert(t)
        PROVE  /\ \A c \in Cells :
                    cache[k][addr[pm][k]][c] # None => cache'[k][addr[pm][k]][c] # None
               /\ passes' = passes
    <2> DEFINE result == [id |-> FreshBox, by |-> Top(t).by]
               cell == <<Top(t).from, Top(t).unit>>
    <2>1. CASE cache' = cache
      BY <1>5, <2>1 DEF Insert
    <2>2. CASE /\ \E b \in Boxes : ~ BoxInUse(b)
               /\ cache' = [cache EXCEPT ![Top(t).kind][Here(t)][cell] = result]
      <3>1. stack[t] # <<>> /\ Top(t).from # None
        BY <1>1, <1>5 DEF Insert, TypeInv, ThreadsOK, ThreadOK
      <3>2. Top(t).kind \in Kinds /\ Here(t) \in Addrs /\ cell \in Cells /\ Top(t).by \in PMs
        BY <1>1, <3>1, TopOK DEF Cells
      <3>3. result # None
        <4>1. FreshBox \in Boxes
          BY <2>2 DEF FreshBox
        <4> QED
          BY <3>2, <4>1, NoneAssumption
      <3> HIDE DEF result, cell
      <3>4. \A c \in Cells :
              cache[k][addr[pm][k]][c] # None => cache'[k][addr[pm][k]][c] # None
        BY <1>1, <2>2, <3>2, <3>3
      <3> QED
        BY <1>5, <3>4 DEF Insert
    <2> QED
      BY <1>5, <2>1, <2>2 DEF Insert
  <1>6. \/ passes' = passes /\ cache' = cache
        \/ \E t \in Threads : \/ ClearMap(t) \/ Insert(t)
                              \/ \E A \in Analyses : AddAnalysis(t, A)
    <2>1. ASSUME NEW p \in PMs, Create(p) \/ HostFrees(p)
          PROVE  passes' = passes /\ cache' = cache
      BY <2>1 DEF Create, HostFrees
    <2>2. ASSUME NEW t \in Threads, LibraryStep(t)
          PROVE  (passes' = passes /\ cache' = cache) \/ ClearMap(t) \/ Insert(t)
      BY <2>2 DEF LibraryStep, LookupPass, DroppedOld, DropOldPanics, Freed, FreePanics,
         Dispose, Unwind, UserCatches
    <2>3. ASSUME NEW t \in Threads, UserStep(t)
          PROVE  \/ passes' = passes /\ cache' = cache
                 \/ \E A \in Analyses : AddAnalysis(t, A)
      BY <2>3 DEF UserStep, BeginDrop, EnterPass, ReturnPass, GetCachedResult,
         GetResultMiss, ReturnAnalysis, UserPanics
    <2> QED
      BY <2>1, <2>2, <2>3 DEF Next
  <1> QED
    BY <1>2, <1>3, <1>4, <1>5, <1>6

\* What is registered or cached stays until the drop of its own manager.
THEOREM EntriesStay == Spec => KeptUntilDrop
  BY OwnAlways, KeepStep, PTL DEF Spec, KeptUntilDrop
=============================================================================
