--------------------------- MODULE CallbackProofs ---------------------------
(***************************************************************************)
(* What the code of a pass or an analysis may rely on, for every number of *)
(* threads, managers and analyses: it runs under no mutex of the library   *)
(* (CallbacksHoldNoLock), and what it was lent out of a cache stays there  *)
(* while it runs (RefsLive), if a manager is used by one thread at a time. *)
(***************************************************************************)
EXTENDS OwnershipProofs

-----------------------------------------------------------------------------
(***************************************************************************)
(* Mutexes.                                                                *)
(***************************************************************************)

\* A mutex is held by a thread that frees boxes under it, and by no other.
Holds(t, l) ==
    \/ pc[t] = "freeing" /\ l = ClearOrder[stage[victim[t]] + 1]
    \/ pc[t] = "dropold" /\ l = CacheLock(t)
HoldersOK == \A t \in Threads, l \in Locks : holder[l] = t => Holds(t, l)
LockInv == TypeInv /\ HoldersOK

\* No mutex is held at the start.
LEMMA LockInit == Init => LockInv
  BY TypeInit, NoneAssumption DEF Init, LockInv, HoldersOK

\* A step of t leaves the mutexes of the others with the others.
LEMMA OthersHold ==
    ASSUME LockInv, NEW t \in Threads,
           \A u \in Threads \ {t} :
               /\ pc'[u] = pc[u] /\ stack'[u] = stack[u] /\ victim'[u] = victim[u]
               /\ pc[u] = "freeing" => stage'[victim[u]] = stage[victim[u]],
           \A u \in Threads \ {t}, l \in Locks : holder'[l] = u => holder[l] = u,
           \A l \in Locks : holder'[l] = t => Holds(t, l)'
    PROVE  HoldersOK'
  <1> SUFFICES ASSUME NEW u \in Threads \ {t}, NEW l \in Locks, holder'[l] = u
               PROVE  Holds(u, l)'
    BY DEF HoldersOK
  <1>1. Holds(u, l)
    BY DEF LockInv, HoldersOK
  <1> QED
    BY <1>1 DEF Holds, CacheLock, Top

\* Outside the sections that free boxes a thread holds nothing.
LEMMA HoldsNothing ==
    ASSUME LockInv, NEW t \in Threads, pc[t] \notin {"freeing", "dropold"}
    PROVE  \A l \in Locks : holder[l] # t
  BY DEF LockInv, HoldersOK, Holds

\* A step that touches no mutex, of a thread that holds none.
LEMMA NoLockStep ==
    ASSUME LockInv, NEW t \in Threads, holder' = holder, stage' = stage,
           pc[t] \notin {"freeing", "dropold"},
           \A u \in Threads \ {t} :
               pc'[u] = pc[u] /\ stack'[u] = stack[u] /\ victim'[u] = victim[u]
    PROVE  HoldersOK'
  BY HoldsNothing, OthersHold

\* The step after which t has released the one mutex it held.
LEMMA ReleaseStep ==
    ASSUME LockInv, NEW t \in Threads, NEW m, Holds(t, m), \A l \in Locks : Holds(t, l) => l = m,
           holder' = [holder EXCEPT ![m] = None],
           \A u \in Threads \ {t} :
               /\ pc'[u] = pc[u] /\ stack'[u] = stack[u] /\ victim'[u] = victim[u]
               /\ pc[u] = "freeing" => stage'[victim[u]] = stage[victim[u]]
    PROVE  HoldersOK'
  <1>1. holder \in [Locks -> Threads \cup {None}]
    BY DEF LockInv, TypeInv, TypeOK
  <1>2. \A l \in Locks : holder'[l] # t
    BY <1>1, NoneAssumption DEF LockInv, HoldersOK
  <1>3. \A u \in Threads \ {t}, l \in Locks : holder'[l] = u => holder[l] = u
    BY <1>1, NoneAssumption
  <1> QED
    BY <1>2, <1>3, OthersHold

\* The two sections that free boxes: clear_analysis_state
LEMMA ClearLocks ==
    ASSUME LockInv, NEW t \in Threads, ClearMap(t) \/ Freed(t) \/ FreePanics(t)
    PROVE  HoldersOK'
  <1> DEFINE m == ClearOrder[stage[victim[t]] + 1]
  <1>1. /\ TypeInv /\ stage \in [PMs -> 0 .. 4] /\ pc \in [Threads -> PCs]
        /\ holder \in [Locks -> Threads \cup {None}]
        /\ victim \in [Threads -> PMs \cup {None}]
    BY ClearOrderOK DEF LockInv, TypeInv, TypeOK
  <1>2. /\ victim[t] \in PMs /\ stack' = stack
        /\ pc[t] \in {"clear", "freeing"} /\ stage[victim[t]] \in 0 .. 3
    <2>1. pc[t] \in {"clear", "freeing"} /\ stack' = stack
      BY DEF ClearMap, Freed, FreePanics
    <2>2. victim[t] \in PMs
      BY <1>1, <2>1 DEF TypeInv, ThreadsOK, ThreadOK
    <2>3. stage[victim[t]] < 4
      BY <1>1, ClearOrderOK DEF ClearMap, Freed, FreePanics, TypeInv, ThreadsOK, ThreadOK
    <2> QED
      BY <1>1, <2>1, <2>2, <2>3
  <1>3. \A u \in Threads \ {t} : pc[u] = "freeing" =>
            victim[u] # victim[t] /\ victim[u] \in PMs
    BY <1>1, <1>2 DEF TypeInv, OneDropper, ThreadsOK, ThreadOK
  <1>4. \/ stage' = stage
        \/ stage' = [stage EXCEPT ![victim[t]] = @ + 1]
    BY DEF ClearMap, Freed, FreePanics
  <1>5. \A u \in Threads \ {t} :
               /\ pc'[u] = pc[u] /\ stack'[u] = stack[u] /\ victim'[u] = victim[u]
               /\ pc[u] = "freeing" => stage'[victim[u]] = stage[victim[u]]
    <2>1. \A u \in Threads \ {t} : pc'[u] = pc[u] /\ victim'[u] = victim[u]
      BY <1>1 DEF ClearMap, Freed, FreePanics, Goto
    <2> QED
      BY <1>1, <1>2, <1>3, <1>4, <2>1
  <1>6. CASE ClearMap(t)
    <2>1. CASE holder' = holder
      <3>1. \A l \in Locks : holder[l] # t
        BY <1>6, HoldsNothing DEF ClearMap
      <3> QED
        BY <1>5, <2>1, <3>1, OthersHold
    <2>2. CASE /\ holder' = [holder EXCEPT ![m] = t] /\ pc' = [pc EXCEPT ![t] = "freeing"]
               /\ stage' = stage /\ victim' = victim
      <3>1. \A l \in Locks : holder[l] # t
        BY <1>6, HoldsNothing DEF ClearMap
      <3>2. \A l \in Locks : holder'[l] = t => l = m
        BY <1>1, <2>2, <3>1
      <3>3. pc'[t] = "freeing"
        BY <1>1, <2>2
      <3>4. \A l \in Locks : holder'[l] = t => Holds(t, l)'
        BY <2>2, <3>2, <3>3 DEF Holds
      <3>5. \A u \in Threads \ {t}, l \in Locks : holder'[l] = u => holder[l] = u
        BY <1>1, <2>2
      <3> QED
        BY <1>5, <3>4, <3>5, OthersHold
    <2> QED
      BY <1>6, <2>1, <2>2 DEF ClearMap, Goto
  <1>7. CASE Freed(t) \/ FreePanics(t)
    <2>1. pc[t] = "freeing" /\ holder' = [holder EXCEPT ![m] = None]
      BY <1>7 DEF Freed, FreePanics
    <2>2. Holds(t, m) /\ \A l \in Locks : Holds(t, l) => l = m
      BY <2>1 DEF Holds
    <2> HIDE DEF m
    <2> QED
      BY <1>5, <2>1, <2>2, ReleaseStep
  <1> QED
    BY <1>6, <1>7

\* and the insert that replaces a result.
LEMMA InsertLocks ==
    ASSUME LockInv, NEW t \in Threads, Insert(t) \/ DroppedOld(t) \/ DropOldPanics(t)
    PROVE  HoldersOK'
  <1> DEFINE m == CacheLock(t)
  <1>1. /\ TypeInv /\ pc \in [Threads -> PCs] /\ stack \in [Threads -> Stacks]
        /\ holder \in [Locks -> Threads \cup {None}]
    BY DEF LockInv, TypeInv, TypeOK
  <1>2. \A u \in Threads \ {t} :
               /\ pc'[u] = pc[u] /\ stack'[u] = stack[u] /\ victim'[u] = victim[u]
               /\ pc[u] = "freeing" => stage'[victim[u]] = stage[victim[u]]
    BY <1>1 DEF Insert, DroppedOld, DropOldPanics, Goto
  <1>3. CASE Insert(t)
    <2>1. \A l \in Locks : holder[l] # t
      BY <1>3, HoldsNothing DEF Insert
    <2>2. CASE holder' = holder
      BY <1>2, <2>1, <2>2, OthersHold
    <2>3. CASE /\ holder' = [holder EXCEPT ![m] = t] /\ pc' = [pc EXCEPT ![t] = "dropold"]
               /\ stack' = stack
      <3>1. \A l \in Locks : holder'[l] = t => l = m
        BY <1>1, <2>1, <2>3
      <3>2. pc'[t] = "dropold" /\ CacheLock(t)' = CacheLock(t)
        BY <1>1, <2>3 DEF CacheLock, Top
      <3>3. \A l \in Locks : holder'[l] = t => Holds(t, l)'
        BY <3>1, <3>2 DEF Holds
      <3>4. \A u \in Threads \ {t}, l \in Locks : holder'[l] = u => holder[l] = u
        BY <1>1, <2>3
      <3> QED
        BY <1>2, <3>3, <3>4, OthersHold
    <2> QED
      BY <1>3, <2>2, <2>3 DEF Insert, Goto
  <1>4. CASE DroppedOld(t) \/ DropOldPanics(t)
    <2>1. pc[t] = "dropold" /\ holder' = [holder EXCEPT ![m] = None]
      BY <1>4 DEF DroppedOld, DropOldPanics
    <2>2. Holds(t, m) /\ \A l \in Locks : Holds(t, l) => l = m
      BY <2>1 DEF Holds
    <2> HIDE DEF m
    <2> QED
      BY <1>2, <2>1, <2>2, ReleaseStep
  <1> QED
    BY <1>3, <1>4

\* Every step keeps the invariant.
LEMMA LockStep == LockInv /\ [Next]_vars => LockInv'
  <1> SUFFICES ASSUME LockInv, [Next]_vars PROVE LockInv'
    OBVIOUS
  <1>1. TypeInv'
    BY TypeStep DEF LockInv
  <1>2. /\ pc \in [Threads -> PCs] /\ stack \in [Threads -> Stacks]
        /\ victim \in [Threads -> PMs \cup {None}] /\ HoldersOK
    BY DEF LockInv, TypeInv, TypeOK
  <1>3. ASSUME NEW pm \in PMs, Create(pm) \/ HostFrees(pm) PROVE HoldersOK'
    BY <1>2, <1>3 DEF Create, HostFrees, HoldersOK, Holds, CacheLock, Top
  <1>4. ASSUME NEW t \in Threads, LibraryStep(t) PROVE HoldersOK'
    <2>1. CASE LookupPass(t) \/ Unwind(t) \/ UserCatches(t) \/ Dispose(t)
      <3>1. /\ holder' = holder /\ stage' = stage /\ pc[t] \notin {"freeing", "dropold"}
            /\ \A u \in Threads \ {t} :
                 pc'[u] = pc[u] /\ stack'[u] = stack[u] /\ victim'[u] = victim[u]
        BY <1>2, <2>1 DEF LookupPass, Unwind, UserCatches, Dispose, CallEntrypoint, Goto
      <3> QED
        BY <3>1, NoLockStep
    <2> QED
      BY <1>4, <2>1, ClearLocks, InsertLocks DEF LibraryStep
  <1>5. ASSUME NEW t \in Threads, UserStep(t) PROVE HoldersOK'
    <2>1. holder' = holder /\ stage' = stage /\ pc[t] \notin {"freeing", "dropold"}
      BY <1>5 DEF UserStep, BeginDrop, EnterPass, ReturnPass, AddAnalysis, GetCachedResult,
         GetResultMiss, ReturnAnalysis, UserPanics, InCallback
    <2>2. \A u \in Threads \ {t} : pc'[u] = pc[u] /\ stack'[u] = stack[u] /\ victim'[u] = victim[u]
      BY <1>2, <1>5 DEF UserStep, BeginDrop, EnterPass, ReturnPass, AddAnalysis,
         GetCachedResult, GetResultMiss, ReturnAnalysis, UserPanics, Goto
    <2> QED
      BY <2>1, <2>2, NoLockStep
  <1>6. ASSUME UNCHANGED vars PROVE HoldersOK'
    <2>1. /\ holder' = holder /\ pc' = pc /\ stack' = stack
          /\ victim' = victim /\ stage' = stage
      BY <1>6 DEF vars
    <2> QED
      BY <1>2, <2>1 DEF HoldersOK, Holds, CacheLock, Top
  <1> QED
    BY <1>1, <1>3, <1>4, <1>5, <1>6 DEF Next, LockInv

\* Callbacks run with no mutex held by their thread, so they may request other
\* analyses and a panic of theirs poisons nothing.
THEOREM NoLockInCallbacks == Spec => []CallbacksHoldNoLock
  <1>1. LockInv => CallbacksHoldNoLock
    BY DEF LockInv, HoldersOK, Holds, CallbacksHoldNoLock, InCallback
  <1>2. Spec => []LockInv
    BY LockInit, LockStep, PTL DEF Spec
  <1> QED
    BY <1>1, <1>2, PTL

-----------------------------------------------------------------------------
(***************************************************************************)
(* References.                                                             *)
(*                                                                         *)
(* Only an insert overwrites a cell.  It ends a request that found nothing *)
(* there: so no callback below had been lent the cell, and none of them    *)
(* was lent anything since, for a callback that waits calls nothing.       *)
(***************************************************************************)

\* What f was lent is what the cache c holds.
LiveIn(c, f) ==
    \A r \in f.refs :
        c[f.kind][addr[f.pm][f.kind]][<<r.an, r.unit>>] = [id |-> r.id, by |-> r.by]

\* f was lent the result of A on u of that manager.
Lent(f, pm, k, A, u) == f.pm = pm /\ f.kind = k /\ \E r \in f.refs : r.an = A /\ r.unit = u

\* What an analysis computes was lent to no callback below it, nor to itself;
\* an analysis does not request itself.
LentOnce(s) ==
    /\ \A i, j \in DOMAIN s : i <= j => ~ Lent(s[i], s[j].pm, s[j].kind, s[j].from, s[j].unit)
    /\ \A i \in DOMAIN s : i > 1 /\ s[i].from # None => s[i-1].from # s[i].from

\* A request that was missed was lent to none of the callbacks.
Unanswered(s, A, u) ==
    /\ Last(s).from # A
    /\ \A i \in DOMAIN s : ~ Lent(s[i], Last(s).pm, Last(s).kind, A, u)

\* A manager is used by one thread.
OneUser ==
    \A s, t \in Threads : \A i \in DOMAIN stack[s], j \in DOMAIN stack[t] :
        stack[s][i].pm = stack[t][j].pm => s = t

RefInv ==
    /\ TypeInv
    /\ OneUser
    /\ \A t \in Threads : LentOnce(stack[t])
    /\ \A t \in Threads : pc[t] = "lookup" => Unanswered(stack[t], req[t][1], req[t][2])
    /\ \A t \in Threads : \A i \in DOMAIN stack[t] : LiveIn(cache, stack[t][i])

LEMMA RefInit == Init => RefInv
  BY TypeInit, EmptySeq DEF Init, RefInv, OneUser, LentOnce

\* A reference names an analysis and a cell.
LEMMA RefsOfFrame ==
    ASSUME NEW s \in Stacks, NEW i \in DOMAIN s
    PROVE  /\ s[i] \in Frame /\ s[i].refs \subseteq Ref
           /\ \A r \in s[i].refs :
                r.an \in Analyses /\ <<r.an, r.unit>> \in Cells /\ [id |-> r.id, by |-> r.by] \in Result
  <1>1. s[i] \in Frame
    BY ElementOfSeq, LenProperties DEF Stacks
  <1>2. s[i].refs \subseteq Ref
    BY <1>1 DEF Frame
  <1>3. ASSUME NEW r \in Ref
        PROVE  r.an \in Analyses /\ <<r.an, r.unit>> \in Cells /\ [id |-> r.id, by |-> r.by] \in Result
    BY DEF Ref, Cells, Result
  <1> QED
    BY <1>1, <1>2, <1>3

\* A stack without its innermost callback,
LEMMA PopLent ==
    ASSUME NEW s \in Stacks, s # <<>>, LentOnce(s)
    PROVE  LentOnce(Front(s))
  <1>1. /\ Len(s) \in Nat \ {0} /\ DOMAIN s = 1 .. Len(s)
        /\ DOMAIN Front(s) = 1 .. Len(s) - 1
        /\ \A i \in 1 .. Len(s) - 1 : Front(s)[i] = s[i]
    BY FrontOK
  <1>2. PICK n : n = Len(s) - 1
    OBVIOUS
  <1>3. n \in Nat /\ n + 1 = Len(s)
    BY <1>1, <1>2
  <1>4. \A i \in 1 .. n : i \in DOMAIN s /\ Front(s)[i] = s[i]
    BY <1>1, <1>2, <1>3
  <1>5. \A i \in 1 .. n : i > 1 => i - 1 \in 1 .. n
    BY <1>3
  <1> QED
    BY <1>1, <1>2, <1>4, <1>5 DEF LentOnce

\* with a reference lent to the innermost one,
LEMMA LendLent ==
    ASSUME NEW s \in Stacks, s # <<>>, NEW r \in Ref, LentOnce(s), r.an # Last(s).from
    PROVE  LentOnce(WithRef(s, r))
  <1>1. /\ Len(s) \in Nat \ {0} /\ DOMAIN s = 1 .. Len(s) /\ Last(s) = s[Len(s)]
    BY FrontOK
  <1>2. PICK w : w = WithRef(s, r)
    OBVIOUS
  <1>3. /\ DOMAIN w = DOMAIN s
        /\ \A i \in DOMAIN s :
             /\ w[i].pm = s[i].pm /\ w[i].kind = s[i].kind
             /\ w[i].from = s[i].from /\ w[i].unit = s[i].unit
             /\ w[i].refs = IF i = Len(s) THEN s[i].refs \cup {r} ELSE s[i].refs
    BY <1>2, WithRefOK
  <1>4. ASSUME NEW i \in DOMAIN s, NEW j \in DOMAIN s, i <= j,
               Lent(w[i], w[j].pm, w[j].kind, w[j].from, w[j].unit)
        PROVE  FALSE
    <2>1. ~ Lent(s[i], s[j].pm, s[j].kind, s[j].from, s[j].unit)
      BY <1>4 DEF LentOnce
    <2>2. CASE i = Len(s)
      <3>1. j = Len(s)
        BY <1>1, <1>4, <2>2
      <3> QED
        BY <1>1, <1>3, <1>4, <2>1, <2>2, <3>1 DEF Lent
    <2>3. CASE i # Len(s)
      BY <1>3, <1>4, <2>1, <2>3 DEF Lent
    <2> QED
      BY <2>2, <2>3
  <1>5. \A i \in DOMAIN s : i > 1 => i - 1 \in DOMAIN s
    BY <1>1
  <1>6. \A i \in DOMAIN w : i > 1 /\ w[i].from # None => w[i-1].from # w[i].from
    BY <1>3, <1>5 DEF LentOnce
  <1> QED
    BY <1>2, <1>3, <1>4, <1>6 DEF LentOnce

\* and with one more callback, for what the ones below were not lent.
LEMMA PushLent ==
    ASSUME NEW s \in Stacks, NEW f \in Frame, f.refs = {}, LentOnce(s),
           f.from # None =>
               /\ s # <<>> /\ f.unit \in Units /\ f.by \in PMs
               /\ Last(s).pm = f.pm /\ Last(s).kind = f.kind
               /\ Unanswered(s, f.from, f.unit)
    PROVE  LentOnce(Append(s, f))
  <1>1. PICK n : n = Len(s)
    OBVIOUS
  <1>2. n \in Nat /\ DOMAIN s = 1 .. n
    BY <1>1, LenProperties DEF Stacks
  <1>3. PICK w : w = Append(s, f)
    OBVIOUS
  <1>4. DOMAIN w = 1 .. n + 1 /\ w[n + 1] = f /\ \A i \in 1 .. n : w[i] = s[i]
    BY <1>1, <1>2, <1>3, PushOK
  <1>5. ASSUME NEW i \in 1 .. n + 1, NEW j \in 1 .. n + 1, i <= j,
               Lent(w[i], w[j].pm, w[j].kind, w[j].from, w[j].unit)
        PROVE  FALSE
    <2>1. i # n + 1
      BY <1>4, <1>5 DEF Lent
    <2>2. i \in 1 .. n /\ w[i] = s[i]
      BY <1>2, <1>4, <2>1
    <2>3. CASE j = n + 1
      <3>1. CASE f.from = None
        <4>1. \A r \in s[i].refs : r.an # None
          BY <1>2, <2>2, RefsOfFrame, NoneAssumption
        <4> QED
          BY <1>4, <1>5, <2>2, <2>3, <3>1, <4>1 DEF Lent
      <3>2. CASE f.from # None
        BY <1>2, <1>4, <1>5, <2>2, <2>3, <3>2 DEF Unanswered
      <3> QED
        BY <3>1, <3>2
    <2>4. CASE j # n + 1
      <3>1. j \in 1 .. n /\ w[j] = s[j]
        BY <1>2, <1>4, <2>4
      <3> QED
        BY <1>2, <1>5, <2>2, <3>1 DEF LentOnce
    <2> QED
      BY <2>3, <2>4
  <1>6. ASSUME NEW i \in 1 .. n + 1, i > 1, w[i].from # None
        PROVE  w[i-1].from # w[i].from
    <2>1. CASE i = n + 1
      <3>1. s # <<>> /\ Last(s).from # f.from
        BY <1>4, <1>6, <2>1 DEF Unanswered
      <3>2. Last(s) = s[n] /\ n \in 1 .. n /\ i - 1 = n
        BY <1>1, <1>2, <2>1, <3>1, FrontOK
      <3> QED
        BY <1>4, <2>1, <3>1, <3>2
    <2>2. CASE i # n + 1
      <3>1. i \in 1 .. n /\ i - 1 \in 1 .. n
        BY <1>2, <1>6, <2>2
      <3> QED
        BY <1>2, <1>4, <1>6, <3>1 DEF LentOnce
    <2> QED
      BY <2>1, <2>2
  <1> QED
    BY <1>3, <1>4, <1>5, <1>6 DEF LentOnce

\* A step of thread t that leaves t with the stack s, of managers no other
\* thread uses.
LEMMA RefStack ==
    ASSUME RefInv, TypeInv', NEW t \in Threads, addr' = addr,
           NEW s \in Stacks, stack' = [stack EXCEPT ![t] = s],
           \A u \in Threads \ {t} : pc'[u] = pc[u] /\ req'[u] = req[u],
           \A i \in DOMAIN s, u \in Threads \ {t} :
               \A j \in DOMAIN stack[u] : stack[u][j].pm # s[i].pm,
           LentOnce(s),
           pc'[t] = "lookup" => Unanswered(s, req'[t][1], req'[t][2]),
           \A u \in Threads \ {t} : \A j \in DOMAIN stack[u] : LiveIn(cache', stack[u][j]),
           \A i \in DOMAIN s : LiveIn(cache', s[i])
    PROVE  RefInv'
  <1>1. stack \in [Threads -> Stacks]
    BY DEF RefInv, TypeInv
  <1>2. \A u \in Threads : stack'[u] = IF u = t THEN s ELSE stack[u]
    BY <1>1
  <1>3. OneUser'
    BY <1>2 DEF RefInv, OneUser
  <1>4. \A u \in Threads : LentOnce(stack'[u])
    BY <1>2 DEF RefInv
  <1>5. \A u \in Threads : pc'[u] = "lookup" => Unanswered(stack'[u], req'[u][1], req'[u][2])
    BY <1>2 DEF RefInv
  <1>6. ASSUME NEW u \in Threads, NEW i \in DOMAIN stack'[u] PROVE LiveIn(cache', stack'[u][i])
    BY <1>2, <1>6
  <1>7. (\A u \in Threads : \A i \in DOMAIN stack[u] : LiveIn(cache, stack[u][i]))'
    <2>1. ASSUME NEW u \in Threads, NEW i \in DOMAIN stack'[u], NEW r \in stack'[u][i].refs
          PROVE  cache'[stack'[u][i].kind][addr'[stack'[u][i].pm][stack'[u][i].kind]]
                       [<<r.an, r.unit>>] = [id |-> r.id, by |-> r.by]
      <3>1. PICK f : f = stack'[u][i]
        OBVIOUS
      <3>2. LiveIn(cache', f) /\ r \in f.refs
        BY <1>6, <2>1, <3>1
      <3>3. cache'[f.kind][addr[f.pm][f.kind]][<<r.an, r.unit>>] = [id |-> r.id, by |-> r.by]
        BY <3>2 DEF LiveIn
      <3> QED
        BY <3>1, <3>3
    <2> QED
      BY <2>1 DEF LiveIn
  <1>8. (\A u \in Threads : LentOnce(stack[u]))'
    BY <1>4 DEF LentOnce, Lent
  <1>9. (\A u \in Threads : pc[u] = "lookup" => Unanswered(stack[u], req[u][1], req[u][2]))'
    BY <1>5 DEF Unanswered, Lent
  <1> QED
    BY <1>3, <1>7, <1>8, <1>9 DEF RefInv

\* The stacks t may be left with: its own, without the innermost callback, and
\* with a reference to what the cache holds.
LEMMA SameRefs ==
    ASSUME RefInv, NEW t \in Threads
    PROVE  /\ stack[t] \in Stacks /\ stack = [stack EXCEPT ![t] = stack[t]]
           /\ LentOnce(stack[t])
           /\ \A i \in DOMAIN stack[t] : LiveIn(cache, stack[t][i])
           /\ \A u \in Threads \ {t} : \A j \in DOMAIN stack[u] : LiveIn(cache, stack[u][j])
           /\ \A i \in DOMAIN stack[t], u \in Threads \ {t} :
                 \A j \in DOMAIN stack[u] : stack[u][j].pm # stack[t][i].pm
  BY SameStack DEF RefInv, OneUser

LEMMA PopRefs ==
    ASSUME RefInv, NEW t \in Threads, stack[t] # <<>>
    PROVE  /\ Front(stack[t]) \in Stacks
           /\ LentOnce(Front(stack[t]))
           /\ \A i \in DOMAIN Front(stack[t]) :
                i \in DOMAIN stack[t] /\ Front(stack[t])[i] = stack[t][i]
  <1>1. stack[t] \in Stacks /\ LentOnce(stack[t])
    BY SameRefs
  <1>2. /\ Len(stack[t]) \in Nat \ {0} /\ DOMAIN stack[t] = 1 .. Len(stack[t])
        /\ DOMAIN Front(stack[t]) = 1 .. Len(stack[t]) - 1
        /\ \A i \in 1 .. Len(stack[t]) - 1 : Front(stack[t])[i] = stack[t][i]
    BY <1>1, FrontOK
  <1> QED
    BY <1>1, <1>2, PopStack, PopLent DEF RefInv

\* The callbacks w are those of s, the innermost with the reference r.
Lends(w, s, r) ==
    /\ DOMAIN w = DOMAIN s
    /\ \A i \in DOMAIN s :
        /\ w[i].pm = s[i].pm /\ w[i].kind = s[i].kind
        /\ w[i].refs = IF i = Len(s) THEN s[i].refs \cup {r} ELSE s[i].refs

LEMMA WithRefIs ==
    ASSUME NEW s \in Stacks, s # <<>>, NEW r \in Ref, NEW w, w = WithRef(s, r)
    PROVE  w \in Stacks /\ Lends(w, s, r)
  <1>1. w \in Stacks /\ DOMAIN w = DOMAIN s
    BY WithRefOK
  <1>2. \A i \in DOMAIN s :
                /\ w[i].pm = s[i].pm /\ w[i].kind = s[i].kind
                /\ w[i].refs = IF i = Len(s) THEN s[i].refs \cup {r} ELSE s[i].refs
    BY WithRefOK
  <1> QED
    BY <1>1, <1>2 DEF Lends

\* What the callbacks of s were lent is what c holds.
AllLive(c, s) == \A i \in DOMAIN s : LiveIn(c, s[i])

\* It still is when one is lent what c holds.
LEMMA LendLive ==
    ASSUME NEW s \in Stacks, s # <<>>, NEW c, AllLive(c, s), NEW r \in Ref,
           c[Last(s).kind][addr[Last(s).pm][Last(s).kind]][<<r.an, r.unit>>]
               = [id |-> r.id, by |-> r.by],
           NEW w, Lends(w, s, r)
    PROVE  AllLive(c, w)
  <1>1. Last(s) = s[Len(s)]
    BY FrontOK
  <1>2. ASSUME NEW i \in DOMAIN w, NEW q \in w[i].refs
        PROVE  c[w[i].kind][addr[w[i].pm][w[i].kind]][<<q.an, q.unit>>] = [id |-> q.id, by |-> q.by]
    <2>1. /\ i \in DOMAIN s /\ w[i].pm = s[i].pm /\ w[i].kind = s[i].kind
          /\ w[i].refs = IF i = Len(s) THEN s[i].refs \cup {r} ELSE s[i].refs
      BY DEF Lends
    <2>2. CASE q \in s[i].refs
      BY <2>1, <2>2 DEF AllLive, LiveIn
    <2>3. CASE q \notin s[i].refs
      <3>1. i = Len(s) /\ q = r
        BY <2>1, <2>3
      <3> QED
        BY <1>1, <2>1, <3>1
    <2> QED
      BY <2>2, <2>3
  <1> QED
    BY <1>2 DEF AllLive, LiveIn

\* A step of t that lends the result of a cell to the innermost of the
\* callbacks s, which t was running already.
LEMMA LendStep ==
    ASSUME RefInv, TypeInv', NEW t \in Threads, addr' = addr,
           NEW s \in Stacks, s # <<>>, LentOnce(s), AllLive(cache', s),
           \A i \in DOMAIN s : i \in DOMAIN stack[t] /\ s[i] = stack[t][i],
           NEW A \in Analyses, NEW u \in Units, NEW result \in Result, A # Last(s).from,
           cache'[Last(s).kind][addr[Last(s).pm][Last(s).kind]][<<A, u>>] = result,
           stack' = [stack EXCEPT ![t] = WithRef(s, RefTo(A, u, result))],
           \A v \in Threads \ {t} : pc'[v] = pc[v] /\ req'[v] = req[v],
           \A v \in Threads \ {t} : AllLive(cache', stack[v]),
           pc'[t] # "lookup"
    PROVE  RefInv'
  <1>1. PICK r : r = RefTo(A, u, result)
    OBVIOUS
  <1>2. /\ r \in Ref /\ r.an = A /\ r.unit = u
        /\ result = [id |-> r.id, by |-> r.by]
    BY <1>1 DEF RefTo, Ref, Result
  <1>3. PICK w : w = WithRef(s, r)
    OBVIOUS
  <1>4. w \in Stacks /\ Lends(w, s, r)
    <2>1. r \in Ref
      BY <1>2
    <2> QED
      BY <1>3, <2>1, WithRefIs
  <1>5. LentOnce(w)
    BY <1>2, <1>3, LendLent
  <1>6. PICK c : c = cache'
    OBVIOUS
  <1>7. c[Last(s).kind][addr[Last(s).pm][Last(s).kind]][<<r.an, r.unit>>]
            = [id |-> r.id, by |-> r.by]
    BY <1>2, <1>6
  <1>8. AllLive(c, s)
    BY <1>6 DEF AllLive, LiveIn
  <1>9. AllLive(c, w)
    <2>1. r \in Ref
      BY <1>2
    <2> QED
      BY <1>4, <1>7, <1>8, <2>1, LendLive
  <1>10. stack' = [stack EXCEPT ![t] = w]
    BY <1>1, <1>3
  <1>11. \A i \in DOMAIN w, v \in Threads \ {t} :
            \A j \in DOMAIN stack[v] : stack[v][j].pm # w[i].pm
    <2>1. \A i \in DOMAIN w : i \in DOMAIN stack[t] /\ w[i].pm = stack[t][i].pm
      BY <1>4 DEF Lends
    <2> QED
      BY <2>1, SameRefs
  <1>12. /\ \A i \in DOMAIN w : LiveIn(cache', w[i])
         /\ \A v \in Threads \ {t} : \A j \in DOMAIN stack[v] : LiveIn(cache', stack[v][j])
    BY <1>6, <1>9 DEF AllLive, LiveIn
  <1> QED
    BY <1>4, <1>5, <1>10, <1>11, <1>12, RefStack

-----------------------------------------------------------------------------
\* One lemma per kind of step.  Steps of t that touch neither cache nor stacks,
LEMMA ControlRefs ==
    ASSUME RefInv, TypeInv', NEW t \in Threads, addr' = addr, cache' = cache, stack' = stack,
           \A u \in Threads \ {t} : pc'[u] = pc[u] /\ req'[u] = req[u],
           pc'[t] # "lookup"
    PROVE  RefInv'
  BY SameRefs, RefStack

\* a request that finds nothing in the cache: then no callback was lent it;
LEMMA GetResultMissRefs ==
    ASSUME RefInv, TypeInv', NEW t \in Threads, NEW A \in Analyses, NEW u \in Units,
           GetResultMiss(t, A, u)
    PROVE  RefInv'
  <1>1. /\ addr' = addr /\ cache' = cache /\ stack' = stack /\ stack[t] # <<>>
        /\ Top(t).from # A /\ cache[Top(t).kind][Here(t)][<<A, u>>] = None
    BY DEF GetResultMiss, InCallback
  <1>2. /\ \A v \in Threads \ {t} : pc'[v] = pc[v] /\ req'[v] = req[v]
        /\ req'[t] = <<A, u>>
    BY DEF GetResultMiss, Goto, RefInv, TypeInv, TypeOK
  <1>3. stack[t] \in Stacks /\ \A i \in DOMAIN stack[t] : LiveIn(cache, stack[t][i])
    BY SameRefs
  <1>4. ASSUME NEW i \in DOMAIN stack[t], Lent(stack[t][i], Top(t).pm, Top(t).kind, A, u)
        PROVE  FALSE
    <2>1. PICK r \in stack[t][i].refs : r.an = A /\ r.unit = u
      BY <1>4 DEF Lent
    <2>2. cache[Top(t).kind][Here(t)][<<A, u>>] = [id |-> r.id, by |-> r.by]
      BY <1>3, <1>4, <2>1 DEF LiveIn, Lent, Here
    <2>3. [id |-> r.id, by |-> r.by] \in Result
      BY <1>3, RefsOfFrame
    <2> QED
      BY <1>1, <2>2, <2>3, NoneAssumption DEF Result
  <1>5. Unanswered(stack[t], A, u)
    BY <1>1, <1>4 DEF Unanswered, Top
  <1>6. Unanswered(stack[t], req'[t][1], req'[t][2])
    BY <1>2, <1>5
  <1> QED
    BY <1>1, <1>2, <1>6, SameRefs, RefStack

\* the end of a callback;
LEMMA PopRefsStep ==
    ASSUME RefInv, TypeInv', NEW t \in Threads, stack[t] # <<>>,
           addr' = addr, cache' = cache, stack' = [stack EXCEPT ![t] = Front(stack[t])],
           \A u \in Threads \ {t} : pc'[u] = pc[u] /\ req'[u] = req[u],
           pc'[t] # "lookup"
    PROVE  RefInv'
  <1>1. PICK s : s = Front(stack[t])
    OBVIOUS
  <1>2. /\ s \in Stacks /\ LentOnce(s)
        /\ \A i \in DOMAIN s : i \in DOMAIN stack[t] /\ s[i] = stack[t][i]
    BY <1>1, PopRefs
  <1>3. /\ \A i \in DOMAIN s : LiveIn(cache', s[i])
        /\ \A u \in Threads \ {t} : \A j \in DOMAIN stack[u] : LiveIn(cache', stack[u][j])
        /\ \A i \in DOMAIN s, u \in Threads \ {t} :
              \A j \in DOMAIN stack[u] : stack[u][j].pm # s[i].pm
    BY <1>2, SameRefs
  <1> QED
    BY <1>1, <1>2, <1>3, RefStack

\* it returns, or a panic leaves it;
LEMMA EndRefs ==
    ASSUME RefInv, TypeInv', NEW t \in Threads, ReturnPass(t) \/ Unwind(t) \/ DropOldPanics(t)
    PROVE  RefInv'
  <1>1. /\ addr' = addr /\ cache' = cache /\ req' = req
        /\ stack' = [stack EXCEPT ![t] = Front(stack[t])]
    BY DEF ReturnPass, Unwind, DropOldPanics
  <1>2. /\ \A u \in Threads \ {t} : pc'[u] = pc[u] /\ req'[u] = req[u]
        /\ pc'[t] # "lookup"
    BY <1>1 DEF ReturnPass, Unwind, DropOldPanics, InCallback, Goto, RefInv, TypeInv, TypeOK
  <1>3. stack[t] # <<>>
    BY DEF RefInv, TypeInv, ThreadsOK, ThreadOK, ReturnPass, Unwind, DropOldPanics, InCallback
  <1> QED
    BY <1>1, <1>2, <1>3, PopRefsStep

\* a pass that starts, of a manager no thread uses;
LEMMA EnterPassRefs ==
    ASSUME RefInv, TypeInv', Exclusive, NEW t \in Threads, NEW pm \in PMs, NEW k \in Kinds,
           EnterPass(t, pm, k)
    PROVE  RefInv'
  <1>1. PICK f : f = [pm |-> pm, kind |-> k, from |-> None, unit |-> None, by |-> None, refs |-> {}]
    OBVIOUS
  <1>2. PICK s : s = Append(stack[t], f)
    OBVIOUS
  <1>3. /\ addr' = addr /\ cache' = cache /\ req' = req /\ pc' = pc /\ pc[t] = "user"
        /\ stack' = [stack EXCEPT ![t] = s] /\ ~ InUse(pm)
    BY <1>1, <1>2 DEF EnterPass
  <1>4. f \in Frame /\ f.pm = pm /\ f.from = None /\ f.refs = {}
    BY <1>1 DEF Frame
  <1>5. stack[t] \in Stacks /\ LentOnce(stack[t])
    BY SameRefs
  <1>6. /\ s \in Stacks /\ DOMAIN s = 1 .. Len(stack[t]) + 1
        /\ \A i \in DOMAIN stack[t] : s[i] = stack[t][i]
        /\ s[Len(stack[t]) + 1] = f
    BY <1>2, <1>4, <1>5, PushOK
  <1>7. LentOnce(s)
    BY <1>2, <1>4, <1>5, PushLent
  <1>8. \A i \in DOMAIN s : s[i] = f \/ (i \in DOMAIN stack[t] /\ s[i] = stack[t][i])
    <2>1. DOMAIN stack[t] = 1 .. Len(stack[t]) /\ Len(stack[t]) \in Nat
      BY <1>5, LenProperties DEF Stacks
    <2> QED
      BY <1>6, <2>1
  <1>9. \A u \in Threads : \A j \in DOMAIN stack[u] : stack[u][j].pm # pm
    BY <1>3 DEF InUse, RunsOn
  <1>10. \A i \in DOMAIN s : LiveIn(cache', s[i])
    <2>1. LiveIn(cache', f)
      BY <1>4 DEF LiveIn
    <2> QED
      BY <1>3, <1>8, <2>1, SameRefs
  <1>11. \A i \in DOMAIN s, u \in Threads \ {t} :
            \A j \in DOMAIN stack[u] : stack[u][j].pm # s[i].pm
    BY <1>4, <1>8, <1>9, SameRefs
  <1> QED
    BY <1>3, <1>6, <1>7, <1>10, <1>11, SameRefs, RefStack

\* a result that is lent from the cache;
LEMMA GetCachedResultRefs ==
    ASSUME RefInv, TypeInv', NEW t \in Threads, NEW A \in Analyses, NEW u \in Units,
           GetCachedResult(t, A, u)
    PROVE  RefInv'
  <1>1. PICK result : result = cache[Top(t).kind][Here(t)][<<A, u>>]
    OBVIOUS
  <1>2. /\ addr' = addr /\ cache' = cache /\ req' = req /\ stack[t] # <<>> /\ pc[t] = "user"
    BY DEF GetCachedResult, InCallback
  <1>3. /\ \A v \in Threads \ {t} : pc'[v] = pc[v] /\ req'[v] = req[v]
        /\ pc'[t] # "lookup"
    BY <1>2 DEF GetCachedResult, Goto, RefInv, TypeInv, TypeOK
  <1>4. CASE stack' = stack
    BY <1>2, <1>3, <1>4, ControlRefs
  <1>5. CASE /\ result # None /\ Top(t).from # A
             /\ stack' = [stack EXCEPT ![t] = WithRef(stack[t], RefTo(A, u, result))]
    <2>1. Top(t).kind \in Kinds /\ Here(t) \in Addrs /\ <<A, u>> \in Cells
      BY <1>2, TopOK DEF RefInv, Cells
    <2>2. result \in Result
      BY <1>1, <1>5, <2>1 DEF RefInv, TypeInv, TypeOK
    <2>3. PICK s : s = stack[t]
      OBVIOUS
    <2>4. /\ s \in Stacks /\ s # <<>> /\ LentOnce(s)
          /\ \A i \in DOMAIN s : i \in DOMAIN stack[t] /\ s[i] = stack[t][i]
      BY <1>2, <2>3, SameRefs
    <2>5. AllLive(cache', s) /\ \A v \in Threads \ {t} : AllLive(cache', stack[v])
      BY <1>2, <2>3, SameRefs DEF AllLive
    <2>6. A # Last(s).from /\ cache'[Last(s).kind][addr[Last(s).pm][Last(s).kind]][<<A, u>>] = result
      BY <1>1, <1>2, <1>5, <2>3 DEF Top, Here
    <2>7. stack' = [stack EXCEPT ![t] = WithRef(s, RefTo(A, u, result))]
      BY <1>5, <2>3
    <2> QED
      BY <1>2, <1>3, <2>2, <2>4, <2>5, <2>6, <2>7, LendStep
  <1> QED
    BY <1>1, <1>4, <1>5 DEF GetCachedResult

\* an analysis that starts for a request that was missed;
LEMMA LookupPassRefs ==
    ASSUME RefInv, TypeInv', NEW t \in Threads, LookupPass(t)
    PROVE  RefInv'
  <1>1. PICK entry : entry = passes[PassesLock(t)[1]][Here(t)][req[t][1]]
    OBVIOUS
  <1>2. PICK f : f = [pm |-> Top(t).pm, kind |-> Top(t).kind, from |-> req[t][1],
                      unit |-> req[t][2], by |-> entry, refs |-> {}]
    OBVIOUS
  <1>3. PICK s : s = Append(stack[t], f)
    OBVIOUS
  <1>4. /\ addr' = addr /\ cache' = cache /\ pc[t] = "lookup"
        /\ stack[t] # <<>> /\ req[t] \in Cells /\ TypeInv
    BY DEF LookupPass, RefInv, TypeInv, ThreadsOK, ThreadOK
  <1>5. /\ \A u \in Threads \ {t} : pc'[u] = pc[u] /\ req'[u] = req[u]
        /\ pc'[t] # "lookup"
    BY DEF LookupPass, CallEntrypoint, Goto, RefInv, TypeInv, TypeOK
  <1>6. CASE stack' = stack
    BY <1>4, <1>5, <1>6, ControlRefs
  <1>7. CASE entry # None /\ stack' = [stack EXCEPT ![t] = s]
    <2>1. Top(t).pm \in PMs /\ Top(t).kind \in Kinds /\ Here(t) \in Addrs
      BY <1>4, TopOK
    <2>2. req[t][1] \in Analyses /\ req[t][2] \in Units
      BY <1>4 DEF Cells
    <2>3. entry \in PMs
      BY <1>1, <1>4, <1>7, <2>1, <2>2 DEF TypeInv, TypeOK, PassesLock
    <2>4. /\ f \in Frame /\ f.refs = {} /\ f.from = req[t][1] /\ f.unit = req[t][2]
          /\ f.by = entry /\ f.pm = Top(t).pm /\ f.kind = Top(t).kind
      BY <1>2, <2>1, <2>2, <2>3 DEF Frame
    <2>5. f.from # None =>
             /\ stack[t] # <<>> /\ f.unit \in Units /\ f.by \in PMs
             /\ Last(stack[t]).pm = f.pm /\ Last(stack[t]).kind = f.kind
      BY <1>4, <2>2, <2>3, <2>4 DEF Top
    <2>6. stack[t] \in Stacks /\ LentOnce(stack[t])
      BY SameRefs
    <2>7. Unanswered(stack[t], f.from, f.unit)
      BY <1>4, <2>4 DEF RefInv
    <2>8. LentOnce(s)
      BY <1>3, <2>4, <2>5, <2>6, <2>7, PushLent
    <2>9. /\ s \in Stacks /\ DOMAIN s = 1 .. Len(stack[t]) + 1
          /\ \A i \in DOMAIN stack[t] : s[i] = stack[t][i]
          /\ s[Len(stack[t]) + 1] = f
      BY <1>3, <2>4, <2>5, <2>6, PushOK
    <2>10. \A i \in DOMAIN s : s[i] = f \/ (i \in DOMAIN stack[t] /\ s[i] = stack[t][i])
      <3>1. DOMAIN stack[t] = 1 .. Len(stack[t]) /\ Len(stack[t]) \in Nat
        BY <2>6, LenProperties DEF Stacks
      <3> QED
        BY <2>9, <3>1
    <2>11. \A i \in DOMAIN s : LiveIn(cache', s[i])
      <3>1. LiveIn(cache', f)
        BY <2>4 DEF LiveIn
      <3> QED
        BY <1>4, <2>10, <3>1, SameRefs
    <2>12. \A i \in DOMAIN s : \E j \in DOMAIN stack[t] : s[i].pm = stack[t][j].pm
      <3>1. Len(stack[t]) \in DOMAIN stack[t] /\ f.pm = stack[t][Len(stack[t])].pm
        BY <1>4, <2>4, TopOK
      <3> QED
        BY <2>10, <3>1
    <2>13. \A i \in DOMAIN s, u \in Threads \ {t} :
              \A j \in DOMAIN stack[u] : stack[u][j].pm # s[i].pm
      BY <2>12, SameRefs
    <2>14. \A u \in Threads \ {t} : \A j \in DOMAIN stack[u] : LiveIn(cache', stack[u][j])
      BY <1>4, SameRefs
    <2> QED
      BY <1>4, <1>5, <1>7, <2>8, <2>9, <2>11, <2>13, <2>14, RefStack
  <1> QED
    BY <1>1, <1>2, <1>3, <1>6, <1>7 DEF LookupPass, CallEntrypoint

\* The callback an analysis answers.
LEMMA Requester ==
    ASSUME RefInv, NEW t \in Threads, stack[t] # <<>>, Top(t).from # None
    PROVE  /\ Front(stack[t]) \in Stacks /\ Front(stack[t]) # <<>>
           /\ LentOnce(Front(stack[t]))
           /\ \A i \in DOMAIN Front(stack[t]) :
                i \in DOMAIN stack[t] /\ Front(stack[t])[i] = stack[t][i]
           /\ Last(Front(stack[t])).pm = Top(t).pm
           /\ Last(Front(stack[t])).kind = Top(t).kind
           /\ Last(Front(stack[t])).from # Top(t).from
  <1>1. PICK s : s = stack[t]
    OBVIOUS
  <1>2. s \in Stacks /\ s # <<>> /\ Last(s).from # None /\ LentOnce(s)
    BY <1>1, SameRefs DEF Top
  <1>3. PICK n : n = Len(s)
    OBVIOUS
  <1>4. /\ n \in Nat \ {0} /\ DOMAIN s = 1 .. n /\ Last(s) = s[n]
        /\ Front(s) \in Stacks /\ Front(s) # <<>> /\ DOMAIN Front(s) = 1 .. n - 1
        /\ \A i \in 1 .. n - 1 : Front(s)[i] = s[i]
        /\ Last(Front(s)).pm = Last(s).pm /\ Last(Front(s)).kind = Last(s).kind
    BY <1>2, <1>3, FrontOK
  <1>5. Len(Front(s)) = n - 1 /\ n - 1 \in 1 .. n - 1
    <2>1. Len(Front(s)) \in Nat \ {0} /\ DOMAIN Front(s) = 1 .. Len(Front(s))
      BY <1>4, FrontOK
    <2>2. n \in Nat
      BY <1>4
    <2> QED
      BY <1>4, <2>1, <2>2
  <1>6. Last(Front(s)) = s[n - 1]
    <2>1. Last(Front(s)) = Front(s)[Len(Front(s))]
      BY <1>4, FrontOK
    <2> QED
      BY <1>4, <1>5, <2>1
  <1>7. Last(Front(s)).from # Last(s).from
    <2>1. n \in DOMAIN s /\ n > 1
      BY <1>4, <1>5
    <2> QED
      BY <1>2, <1>4, <1>6, <2>1 DEF LentOnce
  <1> QED
    BY <1>1, <1>2, <1>4, <1>7, PopRefs DEF Top

\* One cell is stored.
LEMMA StoreOne ==
    ASSUME NEW m \in [Kinds -> [Addrs -> [Cells -> Result \cup {None}]]],
           NEW K \in Kinds, NEW H \in Addrs, NEW cell \in Cells, NEW result \in Result,
           NEW m2, m2 = [m EXCEPT ![K][H][cell] = result]
    PROVE  \A k \in Kinds, a \in Addrs, d \in Cells :
               m2[k][a][d] = IF k = K /\ a = H /\ d = cell THEN result ELSE m[k][a][d]
  OBVIOUS

\* An insert leaves what any callback was lent: those of other threads work
\* with other managers, and those of t were not lent the cell.
LEMMA StoreKeeps ==
    ASSUME RefInv, NEW t \in Threads, stack[t] # <<>>, Top(t).from # None,
           NEW result \in Result,
           cache' = [cache EXCEPT ![Top(t).kind][Here(t)][<<Top(t).from, Top(t).unit>>] = result]
    PROVE  \A u \in Threads : AllLive(cache', stack[u])
  <1>1. PICK f : f = Top(t)
    OBVIOUS
  <1>2. PICK n : n = Len(stack[t])
    OBVIOUS
  <1>3. PICK H : H = Here(t)
    OBVIOUS
  <1>4. /\ n \in DOMAIN stack[t] /\ f = stack[t][n]
        /\ f.pm \in PMs /\ f.kind \in Kinds /\ H \in Addrs /\ H = addr[f.pm][f.kind]
        /\ status[f.pm] = "live" /\ f.from \in Analyses /\ f.unit \in Units
    BY <1>1, <1>2, <1>3, TopOK DEF RefInv, Here
  <1>5. PICK c : c = cache'
    OBVIOUS
  <1>6. PICK cell : cell = <<f.from, f.unit>>
    OBVIOUS
  <1>7. \A k \in Kinds, a \in Addrs, d \in Cells :
            c[k][a][d] = IF k = f.kind /\ a = H /\ d = cell THEN result ELSE cache[k][a][d]
    <2>1. cache \in [Kinds -> [Addrs -> [Cells -> Result \cup {None}]]]
      BY DEF RefInv, TypeInv, TypeOK
    <2>2. c = [cache EXCEPT ![f.kind][H][cell] = result]
      BY <1>1, <1>3, <1>5, <1>6
    <2>3. cell \in Cells
      BY <1>4, <1>6 DEF Cells
    <2>4. f.kind \in Kinds /\ H \in Addrs
      BY <1>4
    <2> QED
      BY <2>1, <2>2, <2>3, <2>4, StoreOne
  <1>8. ASSUME NEW u \in Threads, NEW i \in DOMAIN stack[u], NEW r \in stack[u][i].refs
        PROVE  c[stack[u][i].kind][addr[stack[u][i].pm][stack[u][i].kind]][<<r.an, r.unit>>]
                   = [id |-> r.id, by |-> r.by]
    <2>1. PICK g : g = stack[u][i]
      OBVIOUS
    <2>2. /\ g.pm \in PMs /\ g.kind \in Kinds /\ status[g.pm] = "live"
          /\ addr[g.pm][g.kind] \in Addrs
      BY <2>1, FrameFacts DEF RefInv
    <2>3. <<r.an, r.unit>> \in Cells
      <3>1. stack[u] \in Stacks
        BY SameRefs
      <3> QED
        BY <3>1, RefsOfFrame
    <2>4. cache[g.kind][addr[g.pm][g.kind]][<<r.an, r.unit>>] = [id |-> r.id, by |-> r.by]
      BY <2>1 DEF RefInv, LiveIn
    <2>5. ~ (g.kind = f.kind /\ addr[g.pm][g.kind] = H /\ <<r.an, r.unit>> = cell)
      <3> SUFFICES ASSUME g.kind = f.kind, addr[g.pm][g.kind] = H, <<r.an, r.unit>> = cell
                   PROVE  FALSE
        OBVIOUS
      <3>1. g.pm = f.pm
        BY <1>4, <2>2 DEF RefInv, TypeInv, Distinct, Allocated
      <3>2. u = t
        BY <1>4, <2>1, <3>1 DEF RefInv, OneUser
      <3>3. i \in DOMAIN stack[t] /\ i <= n
        <4>1. DOMAIN stack[t] = 1 .. n /\ n \in Nat
          BY <1>2, SameRefs, LenProperties DEF Stacks
        <4> QED
          BY <3>2, <4>1
      <3>4. ~ Lent(stack[t][i], f.pm, f.kind, f.from, f.unit)
        BY <1>4, <3>3 DEF RefInv, LentOnce
      <3>5. r.an = f.from /\ r.unit = f.unit
        BY <1>6
      <3> QED
        BY <2>1, <3>1, <3>2, <3>4, <3>5 DEF Lent
    <2> QED
      BY <1>7, <2>1, <2>2, <2>3, <2>4, <2>5
  <1>9. \A u \in Threads : \A i \in DOMAIN stack[u] : LiveIn(c, stack[u][i])
    BY <1>8 DEF LiveIn
  <1> QED
    BY <1>5, <1>9 DEF AllLive

\* the result that is stored and lent,
LEMMA InsertRefs ==
    ASSUME RefInv, TypeInv', NEW t \in Threads, Insert(t)
    PROVE  RefInv'
  <1>1. PICK result : result = [id |-> FreshBox, by |-> Top(t).by]
    OBVIOUS
  <1>2. /\ addr' = addr /\ stack[t] # <<>> /\ Top(t).from # None /\ TypeInv /\ req' = req
    BY DEF Insert, RefInv, TypeInv, ThreadsOK, ThreadOK
  <1>3. /\ \A u \in Threads \ {t} : pc'[u] = pc[u] /\ req'[u] = req[u]
        /\ pc'[t] # "lookup"
    BY DEF Insert, Goto, RefInv, TypeInv, TypeOK
  <1>4. CASE cache' = cache /\ stack' = [stack EXCEPT ![t] = Front(stack[t])]
    BY <1>2, <1>3, <1>4, PopRefsStep
  <1>5. CASE /\ \E b \in Boxes : ~ BoxInUse(b)
             /\ cache' = [cache EXCEPT ![Top(t).kind][Here(t)][<<Top(t).from, Top(t).unit>>] = result]
             /\ \/ stack' = stack
                \/ stack' = [stack EXCEPT ![t] =
                       WithRef(Front(stack[t]), RefTo(Top(t).from, Top(t).unit, result))]
    <2>1. /\ Top(t).kind \in Kinds /\ Here(t) \in Addrs
          /\ Top(t).from \in Analyses /\ Top(t).unit \in Units /\ Top(t).by \in PMs
      BY <1>2, TopOK
    <2>2. result \in Result
      <3>1. FreshBox \in Boxes
        BY <1>5 DEF FreshBox
      <3> QED
        BY <1>1, <2>1, <3>1 DEF Result
    <2>3. \A u \in Threads : AllLive(cache', stack[u])
      BY <1>2, <1>5, <2>2, StoreKeeps
    <2>4. CASE stack' = stack
      <3>1. /\ \A i \in DOMAIN stack[t] : LiveIn(cache', stack[t][i])
            /\ \A u \in Threads \ {t} : \A j \in DOMAIN stack[u] : LiveIn(cache', stack[u][j])
        BY <2>3 DEF AllLive
      <3> QED
        BY <1>2, <1>3, <2>4, <3>1, SameRefs, RefStack
    <2>5. CASE stack' = [stack EXCEPT ![t] =
                   WithRef(Front(stack[t]), RefTo(Top(t).from, Top(t).unit, result))]
      <3>1. PICK s : s = Front(stack[t])
        OBVIOUS
      <3>2. /\ s \in Stacks /\ s # <<>> /\ LentOnce(s)
            /\ \A i \in DOMAIN s : i \in DOMAIN stack[t] /\ s[i] = stack[t][i]
            /\ Last(s).pm = Top(t).pm /\ Last(s).kind = Top(t).kind
            /\ Top(t).from # Last(s).from
        BY <1>2, <3>1, Requester
      <3>3. AllLive(cache', s)
        BY <2>3, <3>2 DEF AllLive
      <3>4. cache'[Last(s).kind][addr[Last(s).pm][Last(s).kind]][<<Top(t).from, Top(t).unit>>]
                = result
        <4>1. cache'[Top(t).kind][Here(t)][<<Top(t).from, Top(t).unit>>] = result
          <5>1. <<Top(t).from, Top(t).unit>> \in Cells
            BY <2>1 DEF Cells
          <5>2. cache \in [Kinds -> [Addrs -> [Cells -> Result \cup {None}]]]
            BY <1>2 DEF TypeInv, TypeOK
          <5> QED
            BY <1>5, <2>1, <5>1, <5>2
        <4>2. Here(t) = addr[Last(s).pm][Last(s).kind]
          BY <3>2 DEF Here
        <4> QED
          BY <3>2, <4>1, <4>2
      <3>5. stack' = [stack EXCEPT ![t] = WithRef(s, RefTo(Top(t).from, Top(t).unit, result))]
        BY <2>5, <3>1
      <3> QED
        BY <1>2, <1>3, <2>1, <2>2, <2>3, <3>2, <3>3, <3>4, <3>5, LendStep
    <2> QED
      BY <1>5, <2>4, <2>5
  <1> QED
    BY <1>1, <1>4, <1>5 DEF Insert

\* and lent only now, if another had to go first;
LEMMA DroppedOldRefs ==
    ASSUME RefInv, TypeInv', NEW t \in Threads, DroppedOld(t)
    PROVE  RefInv'
  <1>1. PICK result : result = cache[Top(t).kind][Here(t)][<<Top(t).from, Top(t).unit>>]
    OBVIOUS
  <1>2. /\ addr' = addr /\ cache' = cache /\ req' = req /\ TypeInv
        /\ stack[t] # <<>> /\ Top(t).from # None /\ result # None
    BY <1>1 DEF DroppedOld, RefInv, TypeInv, ThreadsOK, ThreadOK
  <1>3. /\ \A u \in Threads \ {t} : pc'[u] = pc[u] /\ req'[u] = req[u]
        /\ pc'[t] # "lookup"
    BY <1>2 DEF DroppedOld, Goto, RefInv, TypeInv, TypeOK
  <1>4. /\ Top(t).kind \in Kinds /\ Here(t) \in Addrs
        /\ Top(t).from \in Analyses /\ Top(t).unit \in Units
    BY <1>2, TopOK
  <1>5. result \in Result
    BY <1>1, <1>2, <1>4 DEF TypeInv, TypeOK, Cells
  <1>6. PICK s : s = Front(stack[t])
    OBVIOUS
  <1>7. /\ s \in Stacks /\ s # <<>> /\ LentOnce(s)
        /\ \A i \in DOMAIN s : i \in DOMAIN stack[t] /\ s[i] = stack[t][i]
        /\ Last(s).pm = Top(t).pm /\ Last(s).kind = Top(t).kind
        /\ Top(t).from # Last(s).from
    BY <1>2, <1>6, Requester
  <1>8. AllLive(cache', s) /\ \A u \in Threads \ {t} : AllLive(cache', stack[u])
    BY <1>2, <1>7, SameRefs DEF AllLive
  <1>9. cache'[Last(s).kind][addr[Last(s).pm][Last(s).kind]][<<Top(t).from, Top(t).unit>>]
            = result
    BY <1>1, <1>2, <1>7 DEF Here
  <1>10. stack' = [stack EXCEPT ![t] = WithRef(s, RefTo(Top(t).from, Top(t).unit, result))]
    BY <1>1, <1>6 DEF DroppedOld
  <1> QED
    BY <1>2, <1>3, <1>4, <1>5, <1>7, <1>8, <1>9, <1>10, LendStep

\* and what happens to the managers, of which those in use keep their
\* addresses and their cells.
LEMMA ManagerRefs ==
    ASSUME RefInv, TypeInv', stack' = stack,
           \A t \in Threads : pc'[t] = "lookup" => pc[t] = "lookup" /\ req'[t] = req[t],
           \A pm \in PMs : status[pm] = "live" => addr'[pm] = addr[pm],
           \A pm \in PMs, k \in Kinds : status[pm] = "live" =>
               \A d \in Cells : cache'[k][addr[pm][k]][d] = cache[k][addr[pm][k]][d]
    PROVE  RefInv'
  <1>1. OneUser' /\ (\A t \in Threads : LentOnce(stack[t]))'
    BY DEF RefInv, OneUser, LentOnce, Lent
  <1>2. (\A t \in Threads : pc[t] = "lookup" => Unanswered(stack[t], req[t][1], req[t][2]))'
    BY DEF RefInv, Unanswered, Lent
  <1>3. ASSUME NEW t \in Threads, NEW i \in DOMAIN stack'[t], NEW r \in stack'[t][i].refs
        PROVE  cache'[stack'[t][i].kind][addr'[stack'[t][i].pm][stack'[t][i].kind]]
                     [<<r.an, r.unit>>] = [id |-> r.id, by |-> r.by]
    <2>1. PICK g : g = stack'[t][i]
      OBVIOUS
    <2>2. g.pm \in PMs /\ g.kind \in Kinds /\ status[g.pm] = "live"
      BY <2>1, FrameFacts DEF RefInv
    <2>3. <<r.an, r.unit>> \in Cells
      <3>1. stack[t] \in Stacks
        BY SameRefs
      <3> QED
        BY <3>1, RefsOfFrame
    <2>4. cache[g.kind][addr[g.pm][g.kind]][<<r.an, r.unit>>] = [id |-> r.id, by |-> r.by]
      BY <2>1 DEF RefInv, LiveIn
    <2>5. addr'[g.pm][g.kind] = addr[g.pm][g.kind]
      BY <2>2
    <2>6. cache'[g.kind][addr[g.pm][g.kind]][<<r.an, r.unit>>]
              = cache[g.kind][addr[g.pm][g.kind]][<<r.an, r.unit>>]
      BY <2>2, <2>3
    <2> QED
      BY <2>1, <2>4, <2>5, <2>6
  <1>4. (\A t \in Threads : \A i \in DOMAIN stack[t] : LiveIn(cache, stack[t][i]))'
    BY <1>3 DEF LiveIn
  <1> QED
    BY <1>1, <1>2, <1>4 DEF RefInv

LEMMA CreateRefs ==
    ASSUME RefInv, TypeInv', NEW pm \in PMs, Create(pm) \/ HostFrees(pm)
    PROVE  RefInv'
  <1>1. stack' = stack /\ pc' = pc /\ req' = req /\ cache' = cache
    BY DEF Create, HostFrees
  <1>2. \A q \in PMs : status[q] = "live" => addr'[q] = addr[q]
    BY DEF Create, HostFrees, RefInv, TypeInv, TypeOK
  <1> QED
    BY <1>1, <1>2, ManagerRefs

LEMMA DropRefs ==
    ASSUME RefInv, TypeInv', NEW t \in Threads,
           \/ \E pm \in PMs : BeginDrop(t, pm)
           \/ ClearMap(t) \/ Freed(t) \/ FreePanics(t) \/ Dispose(t)
    PROVE  RefInv'
  <1>1. stack' = stack /\ req' = req /\ addr' = addr
    BY DEF BeginDrop, ClearMap, Freed, FreePanics, Dispose
  <1>2. \A u \in Threads : pc'[u] = "lookup" => pc[u] = "lookup"
    BY DEF BeginDrop, ClearMap, Freed, FreePanics, Dispose, Goto, RefInv, TypeInv, TypeOK
  <1>3. \A pm \in PMs, k \in Kinds : status[pm] = "live" =>
            \A d \in Cells : cache'[k][addr[pm][k]][d] = cache[k][addr[pm][k]][d]
    <2>1. CASE ClearMap(t)
      <3>1. TypeInv /\ status[victim[t]] = "dropping"
        BY <2>1 DEF ClearMap, RefInv, TypeInv, ThreadsOK, ThreadOK
      <3>2. \A pm \in PMs : status[pm] = "live" => Allocated(pm) /\ pm # victim[t]
        BY <3>1 DEF Allocated
      <3> QED
        BY <2>1, <3>1, <3>2, ClearMapKeeps
    <2>2. CASE cache' = cache
      BY <2>2
    <2> QED
      BY <2>1, <2>2 DEF BeginDrop, Freed, FreePanics, Dispose
  <1> QED
    BY <1>1, <1>2, <1>3, ManagerRefs

\* Every step keeps the invariant.
LEMMA RefStep == Exclusive /\ RefInv /\ [Next]_vars => RefInv'
  <1> SUFFICES ASSUME Exclusive, RefInv, [Next]_vars PROVE RefInv'
    OBVIOUS
  <1>1. TypeInv'
    BY TypeStep DEF RefInv
  <1>2. CASE \E pm \in PMs : Create(pm) \/ HostFrees(pm)
    BY <1>1, <1>2, CreateRefs
  <1>3. ASSUME NEW t \in Threads, UserPanics(t) \/ UserCatches(t) \/ ReturnAnalysis(t)
        PROVE  RefInv'
    <2>1. /\ addr' = addr /\ cache' = cache /\ stack' = stack /\ req' = req
          /\ \A u \in Threads \ {t} : pc'[u] = pc[u]
          /\ pc'[t] # "lookup"
      BY <1>3 DEF UserPanics, UserCatches, ReturnAnalysis, Goto, RefInv, TypeInv, TypeOK
    <2> QED
      BY <1>1, <2>1, ControlRefs
  <1>4. ASSUME NEW t \in Threads, NEW A \in Analyses, AddAnalysis(t, A) PROVE RefInv'
    <2>1. /\ addr' = addr /\ cache' = cache /\ stack' = stack /\ req' = req
          /\ \A u \in Threads \ {t} : pc'[u] = pc[u]
          /\ pc'[t] # "lookup"
      BY <1>4 DEF AddAnalysis, InCallback, Goto, RefInv, TypeInv, TypeOK
    <2> QED
      BY <1>1, <2>1, ControlRefs
  <1>5. ASSUME NEW t \in Threads, LibraryStep(t) PROVE RefInv'
    BY <1>1, <1>3, <1>5, LookupPassRefs, InsertRefs, DroppedOldRefs, EndRefs, DropRefs
       DEF LibraryStep
  <1>6. ASSUME NEW t \in Threads, UserStep(t) PROVE RefInv'
    <2>1. ASSUME NEW pm \in PMs, NEW k \in UsedKinds, EnterPass(t, pm, k) PROVE RefInv'
      <3>1. k \in Kinds
        BY BoundAssumption
      <3> QED
        BY <1>1, <2>1, <3>1, EnterPassRefs
    <2> QED
      BY <1>1, <1>3, <1>4, <1>6, <2>1, EndRefs, DropRefs, GetCachedResultRefs,
         GetResultMissRefs DEF UserStep
  <1>7. CASE UNCHANGED vars
    <2>1. stack' = stack /\ pc' = pc /\ req' = req /\ cache' = cache /\ addr' = addr
      BY <1>7 DEF vars
    <2> QED
      BY <1>1, <2>1, ManagerRefs
  <1> QED
    BY <1>2, <1>5, <1>6, <1>7 DEF Next

\* If a manager is used by one thread at a time, as `run(&mut self)' has it, a
\* reference get_result or get_cached_result returned is good for as long as
\* its callback runs: no nested request, panic or drop takes the box away.
THEOREM LentRefsStay == Exclusive => (Spec => []RefsLive)
  <1> SUFFICES ASSUME Exclusive PROVE Spec => []RefsLive
    OBVIOUS
  <1>1. RefInv /\ [Next]_vars => RefInv'
    BY RefStep
  <1>2. RefInv => RefsLive
    BY DEF RefInv, LiveIn, RefsLive, Stored
  <1> QED
    BY <1>1, <1>2, RefInit, PTL DEF Spec
=============================================================================
