----------------------- MODULE AnalysisManagersProofs -----------------------
(***************************************************************************)
(* Theorems about AnalysisManagers for every number of threads, managers,  *)
(* addresses and analyses, and their proofs.                               *)
(***************************************************************************)
EXTENDS AnalysisManagers, SequenceTheorems, TLAPS

\* Stacks of callbacks: an analysis runs for the callback below it, with a
\* handle of the same manager, on a pass box that was registered.
Stacks ==
    {s \in Seq(Frame) : \A i \in DOMAIN s :
        s[i].from # None =>
            /\ i > 1
            /\ s[i].unit \in Units
            /\ s[i].by \in PMs
            /\ s[i-1].pm = s[i].pm
            /\ s[i-1].kind = s[i].kind}

\* What the program counter of a thread says about the rest of its state.
ThreadOK(t) ==
    /\ pc[t] \in {"lookup", "insert", "dropold", "unwind"} => stack[t] # <<>>
    /\ pc[t] = "lookup" => req[t] \in Cells
    /\ pc[t] \in {"insert", "dropold"} => Top(t).from # None
    /\ pc[t] = "dropold" =>
         cache[Top(t).kind][Here(t)][<<Top(t).from, Top(t).unit>>] # None
    /\ pc[t] \in {"clear", "freeing"} =>
         victim[t] \in PMs /\ status[victim[t]] = "dropping"
    /\ pc[t] = "freeing" => stage[victim[t]] < 4
ThreadsOK == \A t \in Threads : ThreadOK(t)

\* A manager is dropped by one thread.
OneDropper ==
    \A s, t \in Threads :
        pc[s] \in {"clear", "freeing"} /\ pc[t] \in {"clear", "freeing"}
        /\ victim[s] = victim[t] => s = t

\* The manager of a running callback is live.
LiveOK == \A t \in Threads : \A i \in DOMAIN stack[t] : status[stack[t][i].pm] = "live"

\* A manager that was created has its addresses, and no two managers that
\* exist share one.
AddrsOK == \A pm \in PMs : status[pm] # "unborn" => addr[pm] \in [Kinds -> Addrs]
Distinct ==
    \A p, q \in PMs, k \in Kinds :
        Allocated(p) /\ Allocated(q) /\ p # q => addr[p][k] # addr[q][k]

\* The inductive strengthening of TypeOK.
TypeInv ==
    /\ TypeOK
    /\ stack \in [Threads -> Stacks]
    /\ ThreadsOK
    /\ OneDropper
    /\ LiveOK
    /\ AddrsOK
    /\ Distinct

-----------------------------------------------------------------------------
\* A drop goes through four locks.
LEMMA ClearOrderOK ==
    /\ Len(ClearOrder) = 4
    /\ \A n \in 0 .. 3 : ClearOrder[n + 1] \in Locks /\ ClearOrder[n + 1][1] \in Kinds
  BY DEF ClearOrder, Locks, Kinds

\* Calling a callback.
LEMMA PushOK ==
    ASSUME NEW s \in Stacks, NEW f \in Frame,
           f.from # None =>
               /\ s # <<>> /\ f.unit \in Units /\ f.by \in PMs
               /\ Last(s).pm = f.pm /\ Last(s).kind = f.kind
    PROVE  /\ Append(s, f) \in Stacks
           /\ Append(s, f) # <<>>
           /\ Last(Append(s, f)) = f
           /\ DOMAIN Append(s, f) = 1 .. Len(s) + 1
           /\ \A i \in DOMAIN s : Append(s, f)[i] = s[i]
           /\ Append(s, f)[Len(s) + 1] = f
  <1>1. s \in Seq(Frame) /\ DOMAIN s = 1 .. Len(s) /\ Len(s) \in Nat
    BY LenProperties DEF Stacks
  <1>2. /\ Append(s, f) \in Seq(Frame) /\ Len(Append(s, f)) = Len(s) + 1
        /\ \A i \in DOMAIN s : Append(s, f)[i] = s[i]
        /\ Append(s, f)[Len(s) + 1] = f
        /\ Append(s, f) # <<>>
    BY <1>1, AppendProperties
  <1>3. DOMAIN Append(s, f) = 1 .. Len(s) + 1
    BY <1>2, LenProperties
  <1>4. s # <<>> => Len(s) > 0 /\ Last(s) = s[Len(s)]
    BY <1>1, EmptySeq DEF Last
  <1>5. ASSUME NEW i \in 1 .. Len(s) + 1, Append(s, f)[i].from # None
        PROVE  /\ i > 1
               /\ Append(s, f)[i].unit \in Units
               /\ Append(s, f)[i].by \in PMs
               /\ Append(s, f)[i-1].pm = Append(s, f)[i].pm
               /\ Append(s, f)[i-1].kind = Append(s, f)[i].kind
    <2>1. CASE i = Len(s) + 1
      <3>1. /\ s # <<>> /\ f.unit \in Units /\ f.by \in PMs
            /\ Last(s).pm = f.pm /\ Last(s).kind = f.kind
        BY <2>1, <1>2, <1>5
      <3>2. Len(s) > 0 /\ Last(s) = s[Len(s)] /\ Len(s) \in DOMAIN s
        BY <3>1, <1>1, <1>4
      <3>3. Append(s, f)[i] = f /\ i - 1 = Len(s) /\ Append(s, f)[i-1] = Last(s)
        BY <2>1, <3>2, <1>1, <1>2
      <3> QED
        BY <3>1, <3>2, <3>3, <2>1, <1>1
    <2>2. CASE i \in 1 .. Len(s)
      <3>1. /\ i > 1 /\ s[i].unit \in Units /\ s[i].by \in PMs
            /\ s[i-1].pm = s[i].pm /\ s[i-1].kind = s[i].kind
        BY <2>2, <1>1, <1>2, <1>5 DEF Stacks
      <3>2. i - 1 \in 1 .. Len(s)
        BY <3>1, <2>2, <1>1
      <3> QED
        BY <3>1, <3>2, <2>2, <1>1, <1>2
    <2> QED
      BY <2>1, <2>2, <1>1
  <1>6. Append(s, f) \in Stacks
    BY <1>2, <1>3, <1>5 DEF Stacks
  <1> QED
    BY <1>1, <1>2, <1>3, <1>6 DEF Last

\* The innermost callback returns or is unwound.
LEMMA FrontOK ==
    ASSUME NEW s \in Stacks, s # <<>>
    PROVE  /\ Front(s) \in Stacks
           /\ Len(s) \in Nat \ {0}
           /\ Last(s) = s[Len(s)] /\ Last(s) \in Frame
           /\ DOMAIN s = 1 .. Len(s)
           /\ DOMAIN Front(s) = 1 .. Len(s) - 1
           /\ \A i \in 1 .. Len(s) - 1 : Front(s)[i] = s[i]
           /\ Last(s).from # None =>
                /\ Front(s) # <<>>
                /\ Last(Front(s)).pm = Last(s).pm
                /\ Last(Front(s)).kind = Last(s).kind
                /\ Last(s).unit \in Units /\ Last(s).by \in PMs
  <1>1. s \in Seq(Frame) /\ DOMAIN s = 1 .. Len(s) /\ Len(s) \in Nat \ {0}
    BY LenProperties, EmptySeq DEF Stacks
  <1>2. \A i \in 1 .. Len(s) - 1 : s[i] \in Frame
    BY <1>1, ElementOfSeq
  <1>3. /\ Front(s) \in Seq(Frame)
        /\ Len(Front(s)) = Len(s) - 1
        /\ \A i \in 1 .. Len(s) - 1 : Front(s)[i] = s[i]
    BY <1>1, <1>2, SubSeqProperties DEF Front
  <1>4. DOMAIN Front(s) = 1 .. Len(s) - 1
    BY <1>3, LenProperties
  <1>5. Last(s) = s[Len(s)] /\ Last(s) \in Frame
    BY <1>1, ElementOfSeq DEF Last
  <1>6. Front(s) \in Stacks
    BY <1>1, <1>3, <1>4 DEF Stacks
  <1>7. ASSUME Last(s).from # None
        PROVE  /\ Front(s) # <<>>
               /\ Last(Front(s)).pm = Last(s).pm
               /\ Last(Front(s)).kind = Last(s).kind
               /\ Last(s).unit \in Units /\ Last(s).by \in PMs
    <2>1. /\ Len(s) > 1 /\ s[Len(s)].unit \in Units /\ s[Len(s)].by \in PMs
          /\ s[Len(s)-1].pm = s[Len(s)].pm /\ s[Len(s)-1].kind = s[Len(s)].kind
      BY <1>1, <1>5, <1>7 DEF Stacks
    <2>2. Front(s) # <<>>
      BY <2>1, <1>1, <1>3, EmptySeq
    <2>3. Last(Front(s)) = s[Len(s) - 1]
      BY <2>1, <1>1, <1>3 DEF Last
    <2> QED
      BY <2>1, <2>2, <2>3, <1>5
  <1> QED
    BY <1>1, <1>3, <1>4, <1>5, <1>6, <1>7

\* Lending a reference to the innermost callback changes its `refs' only.
LEMMA WithRefOK ==
    ASSUME NEW s \in Stacks, s # <<>>, NEW r \in Ref
    PROVE  /\ WithRef(s, r) \in Stacks
           /\ WithRef(s, r) # <<>>
           /\ Len(WithRef(s, r)) = Len(s)
           /\ DOMAIN WithRef(s, r) = DOMAIN s
           /\ \A i \in DOMAIN s :
                /\ WithRef(s, r)[i].pm = s[i].pm
                /\ WithRef(s, r)[i].kind = s[i].kind
                /\ WithRef(s, r)[i].from = s[i].from
                /\ WithRef(s, r)[i].unit = s[i].unit
                /\ WithRef(s, r)[i].by = s[i].by
                /\ WithRef(s, r)[i].refs =
                     IF i = Len(s) THEN s[i].refs \cup {r} ELSE s[i].refs
  <1> DEFINE f == s[Len(s)]
             g == [f EXCEPT !.refs = @ \cup {r}]
  <1>1. s \in Seq(Frame) /\ DOMAIN s = 1 .. Len(s) /\ Len(s) \in Nat \ {0}
    BY LenProperties, EmptySeq DEF Stacks
  <1>2. Len(s) \in 1 .. Len(s) /\ f \in Frame
    BY <1>1, ElementOfSeq
  <1>3. g \in Frame /\ g.refs = f.refs \cup {r} /\ g.pm = f.pm /\ g.kind = f.kind
        /\ g.from = f.from /\ g.unit = f.unit /\ g.by = f.by
    BY <1>2 DEF Frame
  <1>4. WithRef(s, r) = [s EXCEPT ![Len(s)] = g]
    BY DEF WithRef
  <1> HIDE DEF g
  <1>5. /\ WithRef(s, r) \in Seq(Frame)
        /\ Len(WithRef(s, r)) = Len(s)
        /\ \A j \in 1 .. Len(s) : WithRef(s, r)[j] = IF j = Len(s) THEN g ELSE s[j]
    BY <1>1, <1>2, <1>3, <1>4, ExceptSeq
  <1>6. DOMAIN WithRef(s, r) = 1 .. Len(s)
    BY <1>5, LenProperties
  <1>7. \A i \in DOMAIN s :
                /\ WithRef(s, r)[i].pm = s[i].pm
                /\ WithRef(s, r)[i].kind = s[i].kind
                /\ WithRef(s, r)[i].from = s[i].from
                /\ WithRef(s, r)[i].unit = s[i].unit
                /\ WithRef(s, r)[i].by = s[i].by
                /\ WithRef(s, r)[i].refs =
                     IF i = Len(s) THEN s[i].refs \cup {r} ELSE s[i].refs
    BY <1>1, <1>3, <1>5
  <1>8. \A i \in DOMAIN s : i > 1 => i - 1 \in DOMAIN s
    BY <1>1
  <1>9. WithRef(s, r) \in Stacks
    BY <1>1, <1>5, <1>6, <1>7, <1>8 DEF Stacks
  <1> QED
    BY <1>1, <1>5, <1>6, <1>7, <1>9, EmptySeq

\* The innermost callback: its handle is of a live manager with an address.
LEMMA TopOK ==
    ASSUME TypeInv, NEW t \in Threads, stack[t] # <<>>
    PROVE  /\ stack[t] \in Stacks
           /\ Top(t) \in Frame /\ Top(t) = stack[t][Len(stack[t])]
           /\ Len(stack[t]) \in DOMAIN stack[t]
           /\ Top(t).pm \in PMs /\ Top(t).kind \in Kinds
           /\ status[Top(t).pm] = "live"
           /\ Here(t) \in Addrs
           /\ PassesLock(t) \in Locks /\ CacheLock(t) \in Locks
           /\ Top(t).from # None =>
                Top(t).from \in Analyses /\ Top(t).unit \in Units /\ Top(t).by \in PMs
  <1>1. stack[t] \in Stacks
    BY DEF TypeInv
  <1>2. /\ Top(t) \in Frame /\ Top(t) = stack[t][Len(stack[t])]
        /\ Len(stack[t]) \in DOMAIN stack[t]
        /\ Top(t).from # None => Top(t).unit \in Units /\ Top(t).by \in PMs
    BY <1>1, FrontOK DEF Top
  <1>3. Top(t).pm \in PMs /\ Top(t).kind \in Kinds
        /\ (Top(t).from # None => Top(t).from \in Analyses)
    BY <1>2 DEF Frame
  <1>4. status[Top(t).pm] = "live"
    BY <1>2 DEF TypeInv, LiveOK
  <1>5. Here(t) \in Addrs
    BY <1>3, <1>4 DEF TypeInv, AddrsOK, Here
  <1> QED
    BY <1>1, <1>2, <1>3, <1>4, <1>5 DEF PassesLock, CacheLock, Locks

-----------------------------------------------------------------------------
\* The strengthened type invariant holds at the start.
LEMMA TypeInit == Init => TypeInv
  <1> SUFFICES ASSUME Init PROVE TypeInv
    OBVIOUS
  <1> USE DEF Init
  <1>1. TypeOK
    <2>1. <<>> \in Seq(Frame)
      BY EmptySeq
    <2>2. 0 \in 0 .. Len(ClearOrder)
      BY ClearOrderOK
    <2> QED
      BY <2>1, <2>2 DEF TypeOK, Statuses, PCs, NoEntries, NoResults
  <1>2. stack \in [Threads -> Stacks]
    BY EmptySeq DEF Stacks
  <1>3. ThreadsOK /\ OneDropper /\ LiveOK /\ AddrsOK /\ Distinct
    BY EmptySeq DEF ThreadsOK, ThreadOK, OneDropper, LiveOK, AddrsOK, Distinct, Allocated
  <1> QED
    BY <1>1, <1>2, <1>3 DEF TypeInv

\* A step of thread t that changes no life of a manager but of the one t
\* drops, and empties no cell of a live manager, leaves the others as they are.
LEMMA OthersOK ==
    ASSUME TypeInv, NEW t \in Threads, addr' = addr,
           \A u \in Threads \ {t} :
               /\ pc'[u] = pc[u] /\ stack'[u] = stack[u]
               /\ req'[u] = req[u] /\ victim'[u] = victim[u],
           \A u \in Threads \ {t} : pc[u] \in {"clear", "freeing"} =>
               /\ status'[victim[u]] = status[victim[u]]
               /\ stage'[victim[u]] = stage[victim[u]],
           \A pm \in PMs, k \in Kinds, c \in Cells :
               status[pm] = "live" /\ cache[k][addr[pm][k]][c] # None
               => cache'[k][addr[pm][k]][c] # None
    PROVE  \A u \in Threads \ {t} : ThreadOK(u)'
  <1> SUFFICES ASSUME NEW u \in Threads \ {t} PROVE ThreadOK(u)'
    OBVIOUS
  <1>1. ThreadOK(u)
    BY DEF TypeInv, ThreadsOK
  <1>2. Top(u)' = Top(u) /\ Here(u)' = Here(u)
    BY DEF Top, Here
  <1>3. CASE pc[u] = "dropold"
    <2>1. stack[u] # <<>> /\ Top(u).from # None
      BY <1>1, <1>3 DEF ThreadOK
    <2>2. <<Top(u).from, Top(u).unit>> \in Cells /\ Top(u).kind \in Kinds
          /\ Top(u).pm \in PMs /\ status[Top(u).pm] = "live"
      BY <2>1, TopOK DEF Cells
    <2>3. cache[Top(u).kind][addr[Top(u).pm][Top(u).kind]][<<Top(u).from, Top(u).unit>>] # None
      BY <1>1, <1>3 DEF ThreadOK, Here
    <2>4. cache'[Top(u).kind][addr[Top(u).pm][Top(u).kind]][<<Top(u).from, Top(u).unit>>] # None
      BY <2>2, <2>3
    <2>5. (cache[Top(u).kind][Here(u)][<<Top(u).from, Top(u).unit>>] # None)'
      BY <1>2, <2>4 DEF Here
    <2> QED
      BY <1>1, <1>2, <1>3, <2>5 DEF ThreadOK
  <1>4. CASE pc[u] # "dropold"
    BY <1>1, <1>2, <1>4 DEF ThreadOK
  <1> QED
    BY <1>3, <1>4

\* A step of thread t outside the lives of managers: it may change t's own
\* control, stack and request, and the entries, but empties no cell in use.
LEMMA CallStep ==
    ASSUME TypeInv, NEW t \in Threads,
           status' = status, addr' = addr, victim' = victim, stage' = stage,
           NEW s \in Stacks, stack' = [stack EXCEPT ![t] = s],
           NEW w \in PCs \ {"clear", "freeing"}, pc' = [pc EXCEPT ![t] = w],
           NEW q \in Cells \cup {None}, req' = [req EXCEPT ![t] = q],
           \A i \in DOMAIN s : status[s[i].pm] = "live",
           passes' \in [Kinds -> [Addrs -> [Analyses -> PMs \cup {None}]]],
           cache' \in [Kinds -> [Addrs -> [Cells -> Result \cup {None}]]],
           poisoned' \subseteq Locks,
           holder' \in [Locks -> Threads \cup {None}],
           \A pm \in PMs, k \in Kinds, c \in Cells :
               status[pm] = "live" /\ cache[k][addr[pm][k]][c] # None
               => cache'[k][addr[pm][k]][c] # None,
           ThreadOK(t)'
    PROVE  TypeInv'
  <1>1. stack' \in [Threads -> Stacks]
    BY DEF TypeInv
  <1>2. stack' \in [Threads -> Seq(Frame)]
    BY <1>1 DEF Stacks
  <1>3. LiveOK'
    BY DEF TypeInv, LiveOK
  <1>4. AddrsOK' /\ Distinct'
    BY DEF TypeInv, AddrsOK, Distinct, Allocated
  <1>5. pc' \in [Threads -> PCs] /\ OneDropper'
    BY DEF TypeInv, TypeOK, OneDropper
  <1>6. TypeOK'
    BY <1>2, <1>5 DEF TypeInv, TypeOK
  <1>7. \A u \in Threads \ {t} :
          /\ pc'[u] = pc[u] /\ stack'[u] = stack[u]
          /\ req'[u] = req[u] /\ victim'[u] = victim[u]
    BY DEF TypeInv, TypeOK
  <1>8. \A u \in Threads \ {t} : ThreadOK(u)'
    BY <1>7, OthersOK
  <1> QED
    BY <1>1, <1>3, <1>4, <1>5, <1>6, <1>8 DEF TypeInv, ThreadsOK

\* The stacks a step of thread t may leave behind.
LEMMA SameStack ==
    ASSUME TypeInv, NEW t \in Threads
    PROVE  /\ stack[t] \in Stacks /\ stack = [stack EXCEPT ![t] = stack[t]]
           /\ \A i \in DOMAIN stack[t] : status[stack[t][i].pm] = "live"
           /\ pc = [pc EXCEPT ![t] = pc[t]]
           /\ req[t] \in Cells \cup {None} /\ req = [req EXCEPT ![t] = req[t]]
  BY DEF TypeInv, TypeOK, LiveOK

\* The same facts for the stack a return or an unwind leaves,
LEMMA PopStack ==
    ASSUME TypeInv, NEW t \in Threads, stack[t] # <<>>
    PROVE  /\ Front(stack[t]) \in Stacks
           /\ \A i \in DOMAIN Front(stack[t]) : status[Front(stack[t])[i].pm] = "live"
           /\ Top(t).from # None => Front(stack[t]) # <<>>
  <1>1. stack[t] \in Stacks
    BY DEF TypeInv
  <1> QED
    BY <1>1, FrontOK DEF TypeInv, LiveOK, Top

\* and for the stack with one more reference lent.
LEMMA LendStack ==
    ASSUME NEW s \in Stacks, s # <<>>, NEW r \in Ref,
           \A i \in DOMAIN s : status[s[i].pm] = "live"
    PROVE  /\ WithRef(s, r) \in Stacks
           /\ \A i \in DOMAIN WithRef(s, r) : status[WithRef(s, r)[i].pm] = "live"
           /\ WithRef(s, r) # <<>>
  <1>1. /\ WithRef(s, r) \in Stacks /\ WithRef(s, r) # <<>>
        /\ DOMAIN WithRef(s, r) = DOMAIN s
        /\ \A i \in DOMAIN s : WithRef(s, r)[i].pm = s[i].pm
    BY WithRefOK
  <1> QED
    BY <1>1

\* One lemma per action: the step keeps the strengthened type invariant. A new
\* manager has addresses no existing one has.
LEMMA CreateType ==
    ASSUME TypeInv, NEW pm \in PMs, Create(pm)
    PROVE  TypeInv'
  <1>1. /\ TypeOK /\ stack \in [Threads -> Stacks] /\ ThreadsOK
        /\ OneDropper /\ LiveOK /\ AddrsOK /\ Distinct
    BY DEF TypeInv
  <1>2. PICK as \in [Kinds -> Addrs] :
          /\ addr' = [addr EXCEPT ![pm] = as]
          /\ \A q \in PMs, k \in Kinds : Allocated(q) => addr[q][k] # as[k]
    BY DEF Create
  <1>3. /\ status[pm] = "unborn" /\ status' = [status EXCEPT ![pm] = "live"]
        /\ UNCHANGED <<passes, cache, poisoned, holder, pc, stack, req, victim, stage>>
    BY DEF Create
  <1>4. addr' \in [PMs -> [Kinds -> Addrs \cup {None}]]
    BY <1>1, <1>2 DEF TypeOK
  <1>5. TypeOK'
    BY <1>1, <1>3, <1>4 DEF TypeOK, Statuses
  <1>6. \A q \in PMs \ {pm} : status'[q] = status[q] /\ addr'[q] = addr[q]
    BY <1>1, <1>2, <1>3 DEF TypeOK
  <1>7. AddrsOK'
    BY <1>1, <1>2, <1>3, <1>6 DEF AddrsOK, TypeOK
  <1>8. Distinct'
    <2> SUFFICES ASSUME NEW p \in PMs, NEW q \in PMs, NEW k \in Kinds,
                        Allocated(p)', Allocated(q)', p # q
                 PROVE  addr'[p][k] # addr'[q][k]
      BY DEF Distinct
    <2>1. \A r \in PMs \ {pm} : Allocated(r)' => Allocated(r)
      BY <1>6 DEF Allocated
    <2>2. addr'[pm] = as
      BY <1>1, <1>2 DEF TypeOK
    <2>3. CASE p = pm
      BY <2>1, <2>2, <2>3, <1>2, <1>6 DEF Allocated
    <2>4. CASE q = pm
      BY <2>1, <2>2, <2>4, <1>2, <1>6 DEF Allocated
    <2>5. CASE p # pm /\ q # pm
      BY <2>1, <2>5, <1>1, <1>6 DEF Distinct
    <2> QED
      BY <2>3, <2>4, <2>5
  <1>9. LiveOK' /\ OneDropper'
    BY <1>1, <1>3, <1>6 DEF LiveOK, OneDropper, TypeOK
  <1>10. ASSUME NEW t \in Threads PROVE ThreadOK(t)'
    <2>1. ThreadOK(t) /\ Top(t)' = Top(t)
      BY <1>1, <1>3 DEF ThreadsOK, Top
    <2>2. pc[t] = "dropold" => Here(t)' = Here(t)
      <3> SUFFICES ASSUME pc[t] = "dropold" PROVE Here(t)' = Here(t)
        OBVIOUS
      <3>1. Top(t).pm \in PMs /\ status[Top(t).pm] = "live"
        BY <2>1, TopOK DEF ThreadOK
      <3> QED
        BY <3>1, <2>1, <1>3, <1>6 DEF Here
    <2>3. pc[t] \in {"clear", "freeing"} => victim[t] # pm
      BY <2>1, <1>3 DEF ThreadOK
    <2> QED
      BY <2>1, <2>2, <2>3, <1>3, <1>6 DEF ThreadOK
  <1> QED
    BY <1>1, <1>3, <1>5, <1>7, <1>8, <1>9, <1>10 DEF TypeInv, ThreadsOK

\* A pass starts with a handle that was given no reference yet.
LEMMA EnterPassType ==
    ASSUME TypeInv, NEW t \in Threads, NEW pm \in PMs, NEW k \in Kinds, EnterPass(t, pm, k)
    PROVE  TypeInv'
  <1> DEFINE f == [pm |-> pm, kind |-> k, from |-> None, unit |-> None,
                   by |-> None, refs |-> {}]
             s == Append(stack[t], f)
  <1>1. /\ TypeOK /\ stack \in [Threads -> Stacks] /\ ThreadsOK
    BY DEF TypeInv
  <1>2. /\ pc[t] = "user" /\ status[pm] = "live"
        /\ stack' = [stack EXCEPT ![t] = s]
        /\ UNCHANGED <<status, addr, passes, cache, poisoned, holder, pc, req, victim, stage>>
    BY DEF EnterPass
  <1>3. f \in Frame /\ f.from = None /\ f.pm = pm
    BY DEF Frame
  <1> HIDE DEF f
  <1>4. /\ s \in Stacks /\ DOMAIN s = 1 .. Len(stack[t]) + 1
        /\ DOMAIN stack[t] = 1 .. Len(stack[t]) /\ Len(stack[t]) \in Nat
        /\ \A i \in DOMAIN stack[t] : s[i] = stack[t][i]
        /\ s[Len(stack[t]) + 1] = f
    <2>1. stack[t] \in Stacks
      BY <1>1
    <2>2. stack[t] \in Seq(Frame)
      BY <2>1 DEF Stacks
    <2> QED
      BY <2>1, <2>2, <1>3, PushOK, LenProperties
  <1>5. \A i \in DOMAIN s : status[s[i].pm] = "live"
    BY <1>2, <1>3, <1>4 DEF TypeInv, LiveOK
  <1>6. pc' = [pc EXCEPT ![t] = "user"] /\ "user" \in PCs \ {"clear", "freeing"}
    BY <1>1, <1>2 DEF TypeOK, PCs
  <1>7. ThreadOK(t)'
    BY <1>1, <1>2 DEF ThreadOK
  <1>8. stack[t] \in Stacks /\ req[t] \in Cells \cup {None} /\ req' = [req EXCEPT ![t] = req[t]]
    BY <1>2, SameStack
  <1>9. /\ status' = status /\ addr' = addr /\ victim' = victim /\ stage' = stage
        /\ passes' = passes /\ cache' = cache /\ poisoned' = poisoned /\ holder' = holder
        /\ stack' = [stack EXCEPT ![t] = s] /\ s \in Stacks
    BY <1>2, <1>4
  <1>10. /\ passes' \in [Kinds -> [Addrs -> [Analyses -> PMs \cup {None}]]]
         /\ cache' \in [Kinds -> [Addrs -> [Cells -> Result \cup {None}]]]
         /\ poisoned' \subseteq Locks
         /\ holder' \in [Locks -> Threads \cup {None}]
    BY <1>1, <1>9 DEF TypeOK
  <1> HIDE DEF s
  <1> QED
    BY <1>5, <1>6, <1>7, <1>8, <1>9, <1>10, CallStep

\* Steps that change control only.
LEMMA UserPanicsType ==
    ASSUME TypeInv, NEW t \in Threads, UserPanics(t)
    PROVE  TypeInv'
  <1>1. TypeOK /\ ThreadOK(t)
    BY DEF TypeInv, ThreadsOK
  <1>2. /\ stack[t] # <<>>
        /\ status' = status /\ addr' = addr /\ victim' = victim /\ stage' = stage
        /\ passes' = passes /\ cache' = cache /\ poisoned' = poisoned /\ holder' = holder
    BY <1>1 DEF UserPanics, InCallback, ThreadOK
  <1>3. /\ passes' \in [Kinds -> [Addrs -> [Analyses -> PMs \cup {None}]]]
        /\ cache' \in [Kinds -> [Addrs -> [Cells -> Result \cup {None}]]]
        /\ poisoned' \subseteq Locks
        /\ holder' \in [Locks -> Threads \cup {None}]
    BY <1>1, <1>2 DEF TypeOK
  <1>4. /\ stack' = [stack EXCEPT ![t] = stack[t]] /\ req' = [req EXCEPT ![t] = req[t]]
        /\ pc' = [pc EXCEPT ![t] = "unwind"] /\ "unwind" \in PCs \ {"clear", "freeing"}
    BY SameStack DEF UserPanics, InCallback, Goto, PCs
  <1>5. ThreadOK(t)'
    BY <1>1, <1>2, <1>4 DEF UserPanics, InCallback, ThreadOK, TypeOK, Top
  <1>6. /\ stack[t] \in Stacks /\ req[t] \in Cells \cup {None}
        /\ \A i \in DOMAIN stack[t] : status[stack[t][i].pm] = "live"
    BY SameStack
  <1> QED
    BY <1>2, <1>3, <1>4, <1>5, <1>6, CallStep

\* A caught panic returns control to the same callback.
LEMMA UserCatchesType ==
    ASSUME TypeInv, NEW t \in Threads, UserCatches(t)
    PROVE  TypeInv'
  <1>1. TypeOK /\ ThreadOK(t)
    BY DEF TypeInv, ThreadsOK
  <1>2. /\ stack[t] # <<>>
        /\ status' = status /\ addr' = addr /\ victim' = victim /\ stage' = stage
        /\ passes' = passes /\ cache' = cache /\ poisoned' = poisoned /\ holder' = holder
    BY <1>1 DEF UserCatches, ThreadOK
  <1>3. /\ passes' \in [Kinds -> [Addrs -> [Analyses -> PMs \cup {None}]]]
        /\ cache' \in [Kinds -> [Addrs -> [Cells -> Result \cup {None}]]]
        /\ poisoned' \subseteq Locks
        /\ holder' \in [Locks -> Threads \cup {None}]
    BY <1>1, <1>2 DEF TypeOK
  <1>4. /\ stack' = [stack EXCEPT ![t] = stack[t]] /\ req' = [req EXCEPT ![t] = req[t]]
        /\ pc' = [pc EXCEPT ![t] = "user"] /\ "user" \in PCs \ {"clear", "freeing"}
    BY SameStack DEF UserCatches, Goto, PCs
  <1>5. ThreadOK(t)'
    BY <1>1, <1>2, <1>4 DEF UserCatches, ThreadOK, TypeOK, Top
  <1>6. /\ stack[t] \in Stacks /\ req[t] \in Cells \cup {None}
        /\ \A i \in DOMAIN stack[t] : status[stack[t][i].pm] = "live"
    BY SameStack
  <1> QED
    BY <1>2, <1>3, <1>4, <1>5, <1>6, CallStep

\* run_analysis returns to pass_entrypoint.
LEMMA ReturnAnalysisType ==
    ASSUME TypeInv, NEW t \in Threads, ReturnAnalysis(t)
    PROVE  TypeInv'
  <1>1. TypeOK /\ ThreadOK(t)
    BY DEF TypeInv, ThreadsOK
  <1>2. /\ stack[t] # <<>>
        /\ status' = status /\ addr' = addr /\ victim' = victim /\ stage' = stage
        /\ passes' = passes /\ cache' = cache /\ poisoned' = poisoned /\ holder' = holder
    BY <1>1 DEF ReturnAnalysis, InCallback, ThreadOK
  <1>3. /\ passes' \in [Kinds -> [Addrs -> [Analyses -> PMs \cup {None}]]]
        /\ cache' \in [Kinds -> [Addrs -> [Cells -> Result \cup {None}]]]
        /\ poisoned' \subseteq Locks
        /\ holder' \in [Locks -> Threads \cup {None}]
    BY <1>1, <1>2 DEF TypeOK
  <1>4. /\ stack' = [stack EXCEPT ![t] = stack[t]] /\ req' = [req EXCEPT ![t] = req[t]]
        /\ pc' = [pc EXCEPT ![t] = "insert"] /\ "insert" \in PCs \ {"clear", "freeing"}
    BY SameStack DEF ReturnAnalysis, InCallback, Goto, PCs
  <1>5. ThreadOK(t)'
    BY <1>1, <1>2, <1>4 DEF ReturnAnalysis, InCallback, ThreadOK, TypeOK, Top
  <1>6. /\ stack[t] \in Stacks /\ req[t] \in Cells \cup {None}
        /\ \A i \in DOMAIN stack[t] : status[stack[t][i].pm] = "live"
    BY SameStack
  <1> QED
    BY <1>2, <1>3, <1>4, <1>5, <1>6, CallStep

\* Steps that leave the innermost callback.
LEMMA ReturnPassType ==
    ASSUME TypeInv, NEW t \in Threads, ReturnPass(t)
    PROVE  TypeInv'
  <1>1. TypeOK /\ ThreadOK(t)
    BY DEF TypeInv, ThreadsOK
  <1>2. /\ stack[t] # <<>>
        /\ status' = status /\ addr' = addr /\ victim' = victim /\ stage' = stage
        /\ passes' = passes /\ cache' = cache /\ poisoned' = poisoned /\ holder' = holder
    BY <1>1 DEF ReturnPass, InCallback, ThreadOK
  <1>3. /\ passes' \in [Kinds -> [Addrs -> [Analyses -> PMs \cup {None}]]]
        /\ cache' \in [Kinds -> [Addrs -> [Cells -> Result \cup {None}]]]
        /\ poisoned' \subseteq Locks
        /\ holder' \in [Locks -> Threads \cup {None}]
    BY <1>1, <1>2 DEF TypeOK
  <1>4. /\ stack' = [stack EXCEPT ![t] = Front(stack[t])] /\ req' = [req EXCEPT ![t] = req[t]]
        /\ pc' = [pc EXCEPT ![t] = "user"] /\ "user" \in PCs \ {"clear", "freeing"}
    BY SameStack DEF ReturnPass, InCallback, Goto, PCs
  <1>5. ThreadOK(t)'
    BY <1>1, <1>2, <1>4, PopStack DEF ThreadOK, TypeOK
  <1>6. /\ Front(stack[t]) \in Stacks /\ req[t] \in Cells \cup {None}
        /\ \A i \in DOMAIN Front(stack[t]) : status[Front(stack[t])[i].pm] = "live"
    BY <1>2, SameStack, PopStack
  <1> QED
    BY <1>2, <1>3, <1>4, <1>5, <1>6, CallStep

\* An analysis that unwinds has a requester below it.
LEMMA UnwindType ==
    ASSUME TypeInv, NEW t \in Threads, Unwind(t)
    PROVE  TypeInv'
  <1>1. TypeOK /\ ThreadOK(t)
    BY DEF TypeInv, ThreadsOK
  <1>2. /\ stack[t] # <<>>
        /\ status' = status /\ addr' = addr /\ victim' = victim /\ stage' = stage
        /\ passes' = passes /\ cache' = cache /\ poisoned' = poisoned /\ holder' = holder
    BY <1>1 DEF Unwind, ThreadOK
  <1>3. /\ passes' \in [Kinds -> [Addrs -> [Analyses -> PMs \cup {None}]]]
        /\ cache' \in [Kinds -> [Addrs -> [Cells -> Result \cup {None}]]]
        /\ poisoned' \subseteq Locks
        /\ holder' \in [Locks -> Threads \cup {None}]
    BY <1>1, <1>2 DEF TypeOK
  <1>4. /\ stack' = [stack EXCEPT ![t] = Front(stack[t])] /\ req' = [req EXCEPT ![t] = req[t]]
        /\ pc' = [pc EXCEPT ![t] = (IF Top(t).from = None THEN "user" ELSE "unwind")] /\ (IF Top(t).from = None THEN "user" ELSE "unwind") \in PCs \ {"clear", "freeing"}
    BY SameStack DEF Unwind, Goto, PCs
  <1>5. ThreadOK(t)'
    BY <1>1, <1>2, <1>4, PopStack DEF ThreadOK, TypeOK
  <1>6. /\ Front(stack[t]) \in Stacks /\ req[t] \in Cells \cup {None}
        /\ \A i \in DOMAIN Front(stack[t]) : status[Front(stack[t])[i].pm] = "live"
    BY <1>2, SameStack, PopStack
  <1> QED
    BY <1>2, <1>3, <1>4, <1>5, <1>6, CallStep

\* A missed request is a cell.
LEMMA GetResultMissType ==
    ASSUME TypeInv, NEW t \in Threads, NEW A \in Analyses, NEW u \in Units, GetResultMiss(t, A, u)
    PROVE  TypeInv'
  <1>1. TypeOK /\ ThreadOK(t)
    BY DEF TypeInv, ThreadsOK
  <1>2. /\ stack[t] # <<>>
        /\ status' = status /\ addr' = addr /\ victim' = victim /\ stage' = stage
        /\ passes' = passes /\ cache' = cache /\ poisoned' = poisoned /\ holder' = holder
    BY <1>1 DEF GetResultMiss, InCallback, ThreadOK
  <1>3. /\ passes' \in [Kinds -> [Addrs -> [Analyses -> PMs \cup {None}]]]
        /\ cache' \in [Kinds -> [Addrs -> [Cells -> Result \cup {None}]]]
        /\ poisoned' \subseteq Locks
        /\ holder' \in [Locks -> Threads \cup {None}]
    BY <1>1, <1>2 DEF TypeOK
  <1>4. /\ stack' = [stack EXCEPT ![t] = stack[t]] /\ req' = [req EXCEPT ![t] = <<A, u>>]
        /\ pc' = [pc EXCEPT ![t] = "lookup"] /\ "lookup" \in PCs \ {"clear", "freeing"}
        /\ <<A, u>> \in Cells \cup {None}
    BY SameStack DEF GetResultMiss, Goto, PCs, Cells
  <1>5. ThreadOK(t)'
    BY <1>1, <1>2, <1>4 DEF ThreadOK, TypeOK, Cells
  <1>6. /\ stack[t] \in Stacks /\ req[t] \in Cells \cup {None}
        /\ \A i \in DOMAIN stack[t] : status[stack[t][i].pm] = "live"
    BY SameStack
  <1> QED
    BY <1>2, <1>3, <1>4, <1>5, <1>6, CallStep

\* What the cache stores makes a reference.
LEMMA GetCachedResultType ==
    ASSUME TypeInv, NEW t \in Threads, NEW A \in Analyses, NEW u \in Units, GetCachedResult(t, A, u)
    PROVE  TypeInv'
  <1> DEFINE result == cache[Top(t).kind][Here(t)][<<A, u>>]
  <1>1. TypeOK /\ ThreadOK(t)
    BY DEF TypeInv, ThreadsOK
  <1>2. /\ stack[t] # <<>>
        /\ status' = status /\ addr' = addr /\ victim' = victim /\ stage' = stage
        /\ passes' = passes /\ cache' = cache /\ poisoned' = poisoned /\ holder' = holder
    BY <1>1 DEF GetCachedResult, InCallback, ThreadOK
  <1>3. /\ passes' \in [Kinds -> [Addrs -> [Analyses -> PMs \cup {None}]]]
        /\ cache' \in [Kinds -> [Addrs -> [Cells -> Result \cup {None}]]]
        /\ poisoned' \subseteq Locks
        /\ holder' \in [Locks -> Threads \cup {None}]
    BY <1>1, <1>2 DEF TypeOK
  <1>4. req' = [req EXCEPT ![t] = req[t]]
    BY SameStack DEF GetCachedResult
  <1>5. CASE stack' = stack /\ pc' = [pc EXCEPT ![t] = "unwind"]
    <2>1. stack' = [stack EXCEPT ![t] = stack[t]] /\ "unwind" \in PCs \ {"clear", "freeing"}
      BY <1>5, SameStack DEF PCs
    <2>2. ThreadOK(t)'
      BY <1>1, <1>2, <1>5 DEF ThreadOK, TypeOK
    <2>3. /\ stack[t] \in Stacks /\ req[t] \in Cells \cup {None}
          /\ \A i \in DOMAIN stack[t] : status[stack[t][i].pm] = "live"
      BY SameStack
    <2> QED
      BY <1>2, <1>3, <1>4, <1>5, <2>1, <2>2, <2>3, CallStep
  <1>6. CASE /\ result # None /\ pc' = pc
             /\ stack' = [stack EXCEPT ![t] = WithRef(@, RefTo(A, u, result))]
    <2>1. result \in Result
      <3>1. Top(t).kind \in Kinds /\ Here(t) \in Addrs /\ <<A, u>> \in Cells
        BY <1>2, TopOK DEF Cells
      <3> QED
        BY <1>1, <1>6, <3>1 DEF TypeOK
    <2> HIDE DEF result
    <2>2. RefTo(A, u, result) \in Ref
      BY <2>1 DEF RefTo, Ref, Result
    <2>3. stack' = [stack EXCEPT ![t] = WithRef(stack[t], RefTo(A, u, result))]
      BY <1>6
    <2>4. pc[t] = "user" /\ pc' = [pc EXCEPT ![t] = "user"] /\ "user" \in PCs \ {"clear", "freeing"}
      BY <1>6, SameStack DEF GetCachedResult, InCallback, PCs
    <2>5. ThreadOK(t)'
      BY <1>1, <1>6, <2>4 DEF ThreadOK
    <2>6. /\ WithRef(stack[t], RefTo(A, u, result)) \in Stacks
          /\ \A i \in DOMAIN WithRef(stack[t], RefTo(A, u, result)) :
                status[WithRef(stack[t], RefTo(A, u, result))[i].pm] = "live"
      BY <1>2, <2>2, SameStack, LendStack
    <2> HIDE DEF result
    <2> QED
      BY <1>2, <1>3, <1>4, <2>3, <2>4, <2>5, <2>6, SameStack, CallStep
  <1> QED
    BY <1>5, <1>6 DEF GetCachedResult, Goto

\* A registration is by the manager of the handle.
LEMMA AddAnalysisType ==
    ASSUME TypeInv, NEW t \in Threads, NEW A \in Analyses, AddAnalysis(t, A)
    PROVE  TypeInv'
  <1>1. TypeOK /\ ThreadOK(t)
    BY DEF TypeInv, ThreadsOK
  <1>2. /\ stack[t] # <<>> /\ pc[t] = "user"
        /\ status' = status /\ addr' = addr /\ victim' = victim /\ stage' = stage
        /\ cache' = cache /\ holder' = holder /\ stack' = stack /\ req' = req
    BY DEF AddAnalysis, InCallback
  <1>3. /\ Top(t).pm \in PMs /\ Top(t).kind \in Kinds /\ Here(t) \in Addrs
        /\ PassesLock(t) \in Locks /\ PassesLock(t)[1] = Top(t).kind
    BY <1>2, TopOK DEF PassesLock
  <1>4. passes' \in [Kinds -> [Addrs -> [Analyses -> PMs \cup {None}]]]
    <2>1. CASE passes' = passes
      BY <1>1, <2>1 DEF TypeOK
    <2>2. CASE passes' = [passes EXCEPT ![PassesLock(t)[1]][Here(t)][A] = Top(t).pm]
      BY <1>1, <1>3, <2>2 DEF TypeOK
    <2> QED
      BY <2>1, <2>2 DEF AddAnalysis
  <1>5. poisoned' \subseteq Locks
    BY <1>1, <1>3 DEF AddAnalysis, TypeOK
  <1>6. cache' \in [Kinds -> [Addrs -> [Cells -> Result \cup {None}]]]
        /\ holder' \in [Locks -> Threads \cup {None}]
    BY <1>1, <1>2 DEF TypeOK
  <1>7. PICK w \in {"user", "unwind"} : pc' = [pc EXCEPT ![t] = w]
    BY <1>2, SameStack DEF AddAnalysis, Goto
  <1>8. w \in PCs \ {"clear", "freeing"}
    BY <1>7 DEF PCs
  <1>9. ThreadOK(t)'
    BY <1>1, <1>2, <1>7 DEF ThreadOK, TypeOK
  <1>10. /\ stack' = [stack EXCEPT ![t] = stack[t]] /\ req' = [req EXCEPT ![t] = req[t]]
    BY <1>2, SameStack
  <1>11. /\ stack[t] \in Stacks /\ req[t] \in Cells \cup {None}
        /\ \A i \in DOMAIN stack[t] : status[stack[t][i].pm] = "live"
    BY SameStack
  <1> QED
    BY <1>2, <1>4, <1>5, <1>6, <1>7, <1>8, <1>9, <1>10, <1>11, CallStep

\* The analysis called runs for the callback that requested it.
LEMMA LookupPassType ==
    ASSUME TypeInv, NEW t \in Threads, LookupPass(t)
    PROVE  TypeInv'
  <1> DEFINE entry == passes[PassesLock(t)[1]][Here(t)][req[t][1]]
             f == [pm |-> Top(t).pm, kind |-> Top(t).kind, from |-> req[t][1],
                   unit |-> req[t][2], by |-> entry, refs |-> {}]
             s == Append(stack[t], f)
  <1>1. TypeOK /\ ThreadOK(t)
    BY DEF TypeInv, ThreadsOK
  <1>2. /\ stack[t] # <<>> /\ req[t] \in Cells
        /\ status' = status /\ addr' = addr /\ victim' = victim /\ stage' = stage
        /\ passes' = passes /\ cache' = cache /\ poisoned' = poisoned /\ holder' = holder
    BY <1>1 DEF LookupPass, ThreadOK
  <1>3. /\ passes' \in [Kinds -> [Addrs -> [Analyses -> PMs \cup {None}]]]
        /\ cache' \in [Kinds -> [Addrs -> [Cells -> Result \cup {None}]]]
        /\ poisoned' \subseteq Locks
        /\ holder' \in [Locks -> Threads \cup {None}]
    BY <1>1, <1>2 DEF TypeOK
  <1>4. req' = [req EXCEPT ![t] = None] /\ None \in Cells \cup {None}
    BY DEF LookupPass
  <1>5. /\ stack[t] \in Stacks /\ req[t] \in Cells \cup {None}
        /\ \A i \in DOMAIN stack[t] : status[stack[t][i].pm] = "live"
    BY SameStack
  <1>6. CASE stack' = stack /\ pc' = [pc EXCEPT ![t] = "unwind"]
    <2>1. stack' = [stack EXCEPT ![t] = stack[t]] /\ "unwind" \in PCs \ {"clear", "freeing"}
      BY <1>6, SameStack DEF PCs
    <2>2. ThreadOK(t)'
      BY <1>1, <1>2, <1>6 DEF ThreadOK, TypeOK
    <2> QED
      BY <1>2, <1>3, <1>4, <1>5, <1>6, <2>1, <2>2, CallStep
  <1>7. CASE entry # None /\ CallEntrypoint(t, entry)
    <2>1. entry \in PMs
      <3>1. /\ Top(t).kind \in Kinds /\ Here(t) \in Addrs /\ req[t][1] \in Analyses
            /\ PassesLock(t)[1] = Top(t).kind
        BY <1>2, TopOK DEF Cells, PassesLock
      <3>2. passes[PassesLock(t)[1]][Here(t)][req[t][1]] \in PMs \cup {None}
        BY <3>1, <1>1 DEF TypeOK
      <3> QED
        BY <3>2, <1>7
    <2> HIDE DEF entry
    <2>2. /\ f \in Frame /\ f.unit \in Units /\ f.by \in PMs
          /\ f.pm = Top(t).pm /\ f.kind = Top(t).kind
      BY <2>1, <1>2, TopOK DEF Frame, Cells
    <2>3. stack' = [stack EXCEPT ![t] = s] /\ pc' = [pc EXCEPT ![t] = "user"]
      BY <1>7 DEF CallEntrypoint, Goto
    <2> HIDE DEF f
    <2>4. /\ s \in Stacks /\ s # <<>> /\ DOMAIN s = 1 .. Len(stack[t]) + 1
          /\ DOMAIN stack[t] = 1 .. Len(stack[t])
          /\ \A i \in DOMAIN stack[t] : s[i] = stack[t][i]
          /\ s[Len(stack[t]) + 1] = f
      BY <1>2, <1>5, <2>2, PushOK, FrontOK DEF Top
    <2>5. \A i \in DOMAIN s : status[s[i].pm] = "live"
      <3>1. status[f.pm] = "live"
        BY <1>2, <2>2, TopOK
      <3>2. Len(stack[t]) \in Nat
        BY <1>2, <1>5, FrontOK
      <3> QED
        BY <3>1, <3>2, <2>4, <1>5
    <2>6. "user" \in PCs \ {"clear", "freeing"}
      BY DEF PCs
    <2>7. ThreadOK(t)'
      BY <1>1, <2>3 DEF ThreadOK, TypeOK
    <2> HIDE DEF s
    <2> QED
      BY <1>2, <1>3, <1>4, <2>3, <2>4, <2>5, <2>6, <2>7, CallStep
  <1> QED
    BY <1>6, <1>7 DEF LookupPass, Goto

\* What is stored is a result, so never None.
LEMMA InsertType ==
    ASSUME TypeInv, NEW t \in Threads, Insert(t)
    PROVE  TypeInv'
  <1> DEFINE f == Top(t)
             cell == <<f.from, f.unit>>
             result == [id |-> FreshBox, by |-> f.by]
  <1>1. TypeOK /\ ThreadOK(t)
    BY DEF TypeInv, ThreadsOK
  <1>2. /\ stack[t] # <<>> /\ f.from # None /\ pc[t] = "insert"
        /\ status' = status /\ addr' = addr /\ victim' = victim /\ stage' = stage
        /\ passes' = passes /\ poisoned' = poisoned
        /\ req' = [req EXCEPT ![t] = req[t]]
    BY <1>1, SameStack DEF Insert, ThreadOK
  <1>3. /\ f \in Frame /\ f.kind \in Kinds /\ f.from \in Analyses /\ f.unit \in Units
        /\ f.by \in PMs /\ Here(t) \in Addrs /\ cell \in Cells
        /\ CacheLock(t) \in Locks
    BY <1>2, TopOK DEF Cells
  <1>4. /\ stack[t] \in Stacks /\ req[t] \in Cells \cup {None}
        /\ Front(stack[t]) \in Stacks /\ Front(stack[t]) # <<>>
        /\ \A i \in DOMAIN stack[t] : status[stack[t][i].pm] = "live"
        /\ \A i \in DOMAIN Front(stack[t]) : status[Front(stack[t])[i].pm] = "live"
    BY <1>2, SameStack, PopStack
  <1>5. /\ passes' \in [Kinds -> [Addrs -> [Analyses -> PMs \cup {None}]]]
        /\ poisoned' \subseteq Locks
    BY <1>1, <1>2 DEF TypeOK
  <1>6. /\ "unwind" \in PCs \ {"clear", "freeing"} /\ "user" \in PCs \ {"clear", "freeing"}
        /\ "dropold" \in PCs \ {"clear", "freeing"}
    BY DEF PCs
  <1>7. CASE /\ stack' = [stack EXCEPT ![t] = Front(@)]
             /\ pc' = [pc EXCEPT ![t] = "unwind"]
             /\ cache' = cache /\ holder' = holder
    <2>1. ThreadOK(t)'
      BY <1>1, <1>4, <1>7 DEF ThreadOK, TypeOK
    <2>2. /\ cache' \in [Kinds -> [Addrs -> [Cells -> Result \cup {None}]]]
          /\ holder' \in [Locks -> Threads \cup {None}]
          /\ stack' = [stack EXCEPT ![t] = Front(stack[t])]
      BY <1>1, <1>7 DEF TypeOK
    <2> QED
      BY <1>2, <1>4, <1>5, <1>6, <1>7, <2>1, <2>2, CallStep
  <1>8. CASE /\ \E b \in Boxes : ~ BoxInUse(b)
             /\ cache' = [cache EXCEPT ![f.kind][Here(t)][cell] = result]
             /\ \/ /\ stack' = [stack EXCEPT ![t] =
                         WithRef(Front(@), RefTo(f.from, f.unit, result))]
                   /\ pc' = [pc EXCEPT ![t] = "user"]
                   /\ holder' = holder
                \/ /\ holder' = [holder EXCEPT ![CacheLock(t)] = t]
                   /\ pc' = [pc EXCEPT ![t] = "dropold"]
                   /\ stack' = stack
    <2>1. result \in Result
      <3>1. FreshBox \in Boxes
        BY <1>8 DEF FreshBox
      <3> QED
        BY <3>1, <1>3 DEF Result
    <2>2. result # None
      BY <2>1, NoneAssumption DEF Result
    <2> HIDE DEF result
    <2>3. cache' \in [Kinds -> [Addrs -> [Cells -> Result \cup {None}]]]
      BY <1>1, <1>3, <1>8, <2>1 DEF TypeOK
    <2>4. /\ cache'[f.kind][Here(t)][cell] = result
          /\ \A k \in Kinds, a \in Addrs, c \in Cells :
                cache[k][a][c] # None => cache'[k][a][c] # None
      BY <1>1, <1>3, <1>8, <2>2 DEF TypeOK
    <2>5. \A pm \in PMs, k \in Kinds, c \in Cells :
              status[pm] = "live" /\ cache[k][addr[pm][k]][c] # None
              => cache'[k][addr[pm][k]][c] # None
      BY <2>4 DEF TypeInv, AddrsOK
    <2>6. holder' \in [Locks -> Threads \cup {None}]
      BY <1>1, <1>3, <1>8 DEF TypeOK
    <2>7. CASE /\ stack' = [stack EXCEPT ![t] =
                      WithRef(Front(@), RefTo(f.from, f.unit, result))]
               /\ pc' = [pc EXCEPT ![t] = "user"]
      <3>1. RefTo(f.from, f.unit, result) \in Ref
        BY <1>3, <2>1 DEF RefTo, Ref, Result
      <3> DEFINE s == WithRef(Front(stack[t]), RefTo(f.from, f.unit, result))
      <3>2. s \in Stacks /\ \A i \in DOMAIN s : status[s[i].pm] = "live"
        BY <1>4, <3>1, LendStack
      <3>3. stack' = [stack EXCEPT ![t] = s]
        BY <2>7
      <3>4. ThreadOK(t)'
        BY <1>1, <2>7 DEF ThreadOK, TypeOK
      <3> HIDE DEF s
      <3> QED
        BY <1>2, <1>4, <1>5, <1>6, <2>3, <2>5, <2>6, <2>7, <3>2, <3>3, <3>4, CallStep
    <2>8. CASE /\ pc' = [pc EXCEPT ![t] = "dropold"]
               /\ stack' = stack
      <3>1. Top(t)' = Top(t) /\ Here(t)' = Here(t)
        BY <1>2, <2>8 DEF Top, Here
      <3>2. pc'[t] = "dropold"
        BY <1>1, <2>8 DEF TypeOK
      <3>3. ThreadOK(t)'
        BY <1>2, <2>2, <2>4, <2>8, <3>1, <3>2 DEF ThreadOK
      <3>4. stack' = [stack EXCEPT ![t] = stack[t]]
        BY <2>8, SameStack
      <3> QED
        BY <1>2, <1>4, <1>5, <1>6, <2>3, <2>5, <2>6, <2>8, <3>3, <3>4, CallStep
    <2> QED
      BY <1>8, <2>7, <2>8
  <1> QED
    BY <1>7, <1>8 DEF Insert, Goto

\* The cell is still filled when the replaced result is gone.
LEMMA DroppedOldType ==
    ASSUME TypeInv, NEW t \in Threads, DroppedOld(t)
    PROVE  TypeInv'
  <1> DEFINE f == Top(t)
             result == cache[f.kind][Here(t)][<<f.from, f.unit>>]
  <1>1. TypeOK /\ ThreadOK(t)
    BY DEF TypeInv, ThreadsOK
  <1>2. /\ stack[t] # <<>> /\ f.from # None /\ result # None
        /\ status' = status /\ addr' = addr /\ victim' = victim /\ stage' = stage
        /\ passes' = passes /\ cache' = cache /\ poisoned' = poisoned
        /\ req' = [req EXCEPT ![t] = req[t]]
        /\ pc' = [pc EXCEPT ![t] = "user"]
        /\ holder' = [holder EXCEPT ![CacheLock(t)] = None]
    BY <1>1, SameStack DEF DroppedOld, ThreadOK, Goto
  <1>3. /\ f.kind \in Kinds /\ f.from \in Analyses /\ f.unit \in Units
        /\ Here(t) \in Addrs /\ CacheLock(t) \in Locks
        /\ <<f.from, f.unit>> \in Cells
    BY <1>2, TopOK DEF Cells
  <1>4. /\ req[t] \in Cells \cup {None}
        /\ Front(stack[t]) \in Stacks /\ Front(stack[t]) # <<>>
        /\ \A i \in DOMAIN Front(stack[t]) : status[Front(stack[t])[i].pm] = "live"
    BY <1>2, SameStack, PopStack
  <1>5. /\ passes' \in [Kinds -> [Addrs -> [Analyses -> PMs \cup {None}]]]
        /\ cache' \in [Kinds -> [Addrs -> [Cells -> Result \cup {None}]]]
        /\ poisoned' \subseteq Locks
        /\ holder' \in [Locks -> Threads \cup {None}]
    BY <1>1, <1>2, <1>3 DEF TypeOK
  <1>6. RefTo(f.from, f.unit, result) \in Ref
    <2>1. result \in Result
      BY <1>1, <1>2, <1>3 DEF TypeOK
    <2> QED
      BY <1>3, <2>1 DEF RefTo, Ref, Result
  <1> DEFINE s == WithRef(Front(stack[t]), RefTo(f.from, f.unit, result))
  <1>7. s \in Stacks /\ \A i \in DOMAIN s : status[s[i].pm] = "live"
    BY <1>4, <1>6, LendStack
  <1>8. stack' = [stack EXCEPT ![t] = s]
    BY DEF DroppedOld
  <1>9. ThreadOK(t)' /\ "user" \in PCs \ {"clear", "freeing"}
    BY <1>1, <1>2 DEF ThreadOK, TypeOK, PCs
  <1> HIDE DEF s
  <1> QED
    BY <1>2, <1>4, <1>5, <1>7, <1>8, <1>9, CallStep

\* The panic of a Drop leaves the analysis.
LEMMA DropOldPanicsType ==
    ASSUME TypeInv, NEW t \in Threads, DropOldPanics(t)
    PROVE  TypeInv'
  <1>1. TypeOK /\ ThreadOK(t)
    BY DEF TypeInv, ThreadsOK
  <1>2. /\ stack[t] # <<>> /\ Top(t).from # None
        /\ status' = status /\ addr' = addr /\ victim' = victim /\ stage' = stage
        /\ passes' = passes /\ cache' = cache
        /\ poisoned' = poisoned \cup {CacheLock(t)}
        /\ req' = [req EXCEPT ![t] = req[t]]
        /\ pc' = [pc EXCEPT ![t] = "unwind"]
        /\ holder' = [holder EXCEPT ![CacheLock(t)] = None]
        /\ stack' = [stack EXCEPT ![t] = Front(stack[t])]
    BY <1>1, SameStack DEF DropOldPanics, ThreadOK, Goto
  <1>3. CacheLock(t) \in Locks
    BY <1>2, TopOK
  <1>4. /\ req[t] \in Cells \cup {None}
        /\ Front(stack[t]) \in Stacks /\ Front(stack[t]) # <<>>
        /\ \A i \in DOMAIN Front(stack[t]) : status[Front(stack[t])[i].pm] = "live"
    BY <1>2, SameStack, PopStack
  <1>5. /\ passes' \in [Kinds -> [Addrs -> [Analyses -> PMs \cup {None}]]]
        /\ cache' \in [Kinds -> [Addrs -> [Cells -> Result \cup {None}]]]
        /\ poisoned' \subseteq Locks
        /\ holder' \in [Locks -> Threads \cup {None}]
    BY <1>1, <1>2, <1>3 DEF TypeOK
  <1>6. ThreadOK(t)' /\ "unwind" \in PCs \ {"clear", "freeing"}
    BY <1>1, <1>2, <1>4 DEF ThreadOK, TypeOK, PCs
  <1> QED
    BY <1>2, <1>4, <1>5, <1>6, CallStep

\* The manager dropped is in no callback and no other drop.
LEMMA BeginDropType ==
    ASSUME TypeInv, NEW t \in Threads, NEW pm \in PMs, BeginDrop(t, pm)
    PROVE  TypeInv'
  <1>1. /\ TypeOK /\ stack \in [Threads -> Stacks] /\ ThreadsOK
        /\ OneDropper /\ LiveOK /\ AddrsOK /\ Distinct
    BY DEF TypeInv
  <1>2. /\ pc[t] = "user" /\ status[pm] = "live"
        /\ status' = [status EXCEPT ![pm] = "dropping"]
        /\ victim' = [victim EXCEPT ![t] = pm]
        /\ pc' = [pc EXCEPT ![t] = "clear"]
        /\ addr' = addr /\ passes' = passes /\ cache' = cache /\ poisoned' = poisoned
        /\ holder' = holder /\ stack' = stack /\ req' = req /\ stage' = stage
        /\ \A u \in Threads : \A i \in DOMAIN stack[u] : stack[u][i].pm # pm
    BY DEF BeginDrop, Goto, InUse, RunsOn
  <1>3. TypeOK'
    BY <1>1, <1>2 DEF TypeOK, Statuses, PCs
  <1>4. LiveOK'
    BY <1>1, <1>2 DEF LiveOK, TypeOK
  <1>5. AddrsOK'
    BY <1>1, <1>2 DEF AddrsOK, TypeOK
  <1>6. Distinct'
    BY <1>1, <1>2 DEF Distinct, Allocated, TypeOK
  <1>7. \A u \in Threads \ {t} : pc[u] \in {"clear", "freeing"} =>
            victim[u] # pm /\ victim[u] \in PMs
    BY <1>1, <1>2 DEF ThreadsOK, ThreadOK
  <1>8. OneDropper'
    BY <1>1, <1>2, <1>7 DEF OneDropper, TypeOK
  <1>9. \A u \in Threads \ {t} :
          /\ pc'[u] = pc[u] /\ stack'[u] = stack[u]
          /\ req'[u] = req[u] /\ victim'[u] = victim[u]
    BY <1>1, <1>2 DEF TypeOK
  <1>10. \A u \in Threads \ {t} : pc[u] \in {"clear", "freeing"} =>
               /\ status'[victim[u]] = status[victim[u]]
               /\ stage'[victim[u]] = stage[victim[u]]
    BY <1>1, <1>2, <1>7 DEF TypeOK
  <1>11. \A u \in Threads \ {t} : ThreadOK(u)'
    BY <1>2, <1>9, <1>10, OthersOK
  <1>12. ThreadOK(t)'
    BY <1>1, <1>2 DEF ThreadOK, TypeOK
  <1> QED
    BY <1>1, <1>2, <1>3, <1>4, <1>5, <1>6, <1>8, <1>11, <1>12 DEF TypeInv, ThreadsOK

\* Steps of a drop touch the entries at the addresses of the manager dropped,
\* which no live manager shares.
LEMMA ClearMapType ==
    ASSUME TypeInv, NEW t \in Threads, ClearMap(t)
    PROVE  TypeInv'
  <1> DEFINE pm == victim[t]
             l == ClearOrder[stage[pm] + 1]
             a == addr[pm][l[1]]
  <1>1. /\ TypeOK /\ stack \in [Threads -> Stacks] /\ ThreadsOK
        /\ OneDropper /\ LiveOK /\ AddrsOK /\ Distinct
    BY DEF TypeInv
  <1>2. /\ pc[t] = "clear" /\ stage[pm] < 4 /\ pm \in PMs /\ status[pm] = "dropping"
        /\ status' = status /\ addr' = addr /\ poisoned' = poisoned /\ stack' = stack
        /\ req' = req /\ victim' = victim
    BY <1>1, ClearOrderOK DEF ClearMap, ThreadsOK, ThreadOK
  <1>3. stage[pm] \in 0 .. 3 /\ l \in Locks /\ l[1] \in Kinds
    <2>1. stage[pm] \in 0 .. 3
      BY <1>1, <1>2, ClearOrderOK DEF TypeOK
    <2> QED
      BY <2>1, ClearOrderOK
  <1>4. a \in Addrs
    BY <1>1, <1>2, <1>3 DEF AddrsOK
  <1>5. LiveOK' /\ AddrsOK' /\ Distinct'
    BY <1>1, <1>2 DEF LiveOK, AddrsOK, Distinct, Allocated
  <1>6. \A u \in Threads \ {t} : pc[u] \in {"clear", "freeing"} => victim[u] # pm /\ victim[u] \in PMs
    BY <1>1, <1>2 DEF OneDropper, ThreadsOK, ThreadOK
  <1>7. CASE /\ stage' = [stage EXCEPT ![pm] = @ + 1]
             /\ passes' = passes /\ cache' = cache /\ holder' = holder /\ pc' = pc
    <2>1. TypeOK'
      BY <1>1, <1>2, <1>3, <1>7, ClearOrderOK DEF TypeOK
    <2>2. \A u \in Threads \ {t} : ThreadOK(u)'
      <3>1. \A u \in Threads \ {t} : pc[u] \in {"clear", "freeing"} =>
               /\ status'[victim[u]] = status[victim[u]]
               /\ stage'[victim[u]] = stage[victim[u]]
        BY <1>1, <1>2, <1>6, <1>7 DEF TypeOK
      <3> QED
        BY <1>2, <1>7, <3>1, OthersOK
    <2>3. ThreadOK(t)' /\ OneDropper'
      BY <1>1, <1>2, <1>7 DEF ThreadsOK, ThreadOK, OneDropper
    <2> QED
      BY <1>1, <1>2, <1>5, <2>1, <2>2, <2>3 DEF TypeInv, ThreadsOK
  <1>8. CASE /\ \/ /\ passes' = [passes EXCEPT ![l[1]][a] = NoEntries]
                   /\ cache' = cache
                \/ /\ cache' = [cache EXCEPT ![l[1]][a] = NoResults]
                   /\ passes' = passes
             /\ holder' = [holder EXCEPT ![l] = t]
             /\ pc' = [pc EXCEPT ![t] = "freeing"]
             /\ stage' = stage
    <2> HIDE DEF pm, l, a
    <2>1. passes' \in [Kinds -> [Addrs -> [Analyses -> PMs \cup {None}]]]
      <3>1. NoEntries \in [Analyses -> PMs \cup {None}]
        BY DEF NoEntries
      <3>2. passes \in [Kinds -> [Addrs -> [Analyses -> PMs \cup {None}]]]
        BY <1>1 DEF TypeOK
      <3>3. CASE passes' = [passes EXCEPT ![l[1]][a] = NoEntries]
        <4>1. [passes[l[1]] EXCEPT ![a] = NoEntries] \in [Addrs -> [Analyses -> PMs \cup {None}]]
          BY <1>3, <3>1, <3>2
        <4> QED
          BY <1>3, <3>2, <3>3, <4>1
      <3> QED
        BY <1>8, <3>2, <3>3
    <2>2. cache' \in [Kinds -> [Addrs -> [Cells -> Result \cup {None}]]]
      <3>1. NoResults \in [Cells -> Result \cup {None}]
        BY DEF NoResults
      <3>2. cache \in [Kinds -> [Addrs -> [Cells -> Result \cup {None}]]]
        BY <1>1 DEF TypeOK
      <3>3. CASE cache' = [cache EXCEPT ![l[1]][a] = NoResults]
        <4>1. [cache[l[1]] EXCEPT ![a] = NoResults] \in [Addrs -> [Cells -> Result \cup {None}]]
          BY <1>3, <3>1, <3>2
        <4> QED
          BY <1>3, <3>2, <3>3, <4>1
      <3> QED
        BY <1>8, <3>2, <3>3
    <2>3. TypeOK'
      BY <1>1, <1>2, <1>3, <1>8, <2>1, <2>2 DEF TypeOK, PCs
    <2>4. ASSUME NEW q \in PMs, NEW k \in Kinds, status[q] = "live"
          PROVE  cache'[k][addr[q][k]] = cache[k][addr[q][k]]
      <3>1. q # pm /\ Allocated(q) /\ Allocated(pm)
        BY <1>2, <2>4 DEF Allocated
      <3>2. addr[q][k] \in Addrs /\ addr[q][k] # addr[pm][k]
        BY <1>1, <1>2, <2>4, <3>1 DEF AddrsOK, Distinct
      <3>3. k = l[1] => addr[q][k] # a
        BY <3>2 DEF a
      <3> QED
        BY <1>1, <1>3, <1>4, <1>8, <3>2, <3>3 DEF TypeOK
    <2>5. \A u \in Threads \ {t} : ThreadOK(u)'
      <3>1. \A u \in Threads \ {t} :
              /\ pc'[u] = pc[u] /\ stack'[u] = stack[u]
              /\ req'[u] = req[u] /\ victim'[u] = victim[u]
        BY <1>1, <1>2, <1>8 DEF TypeOK
      <3> QED
        BY <1>2, <1>8, <2>4, <3>1, OthersOK
    <2>6. pc'[t] = "freeing" /\ \A u \in Threads \ {t} : pc'[u] = pc[u]
      BY <1>1, <1>8 DEF TypeOK
    <2>7. ThreadOK(t)'
      BY <1>2, <1>8, <2>6 DEF ThreadOK, pm
    <2>8. OneDropper'
      BY <1>1, <1>2, <2>6 DEF OneDropper
    <2> QED
      BY <1>1, <1>2, <1>5, <2>3, <2>5, <2>7, <2>8 DEF TypeInv, ThreadsOK
  <1> QED
    BY <1>7, <1>8 DEF ClearMap, TakeOut, Goto

\* The drop goes on to the next map.
LEMMA FreedType ==
    ASSUME TypeInv, NEW t \in Threads, Freed(t)
    PROVE  TypeInv'
  <1> DEFINE pm == victim[t]
             l == ClearOrder[stage[pm] + 1]
  <1>1. /\ TypeOK /\ stack \in [Threads -> Stacks] /\ ThreadsOK
        /\ OneDropper /\ LiveOK /\ AddrsOK /\ Distinct
    BY DEF TypeInv
  <1>2. /\ pc[t] = "freeing" /\ stage[pm] < 4 /\ pm \in PMs /\ status[pm] = "dropping"
        /\ holder' = [holder EXCEPT ![l] = None]
        /\ stage' = [stage EXCEPT ![pm] = @ + 1]
        /\ pc' = [pc EXCEPT ![t] = "clear"]
        /\ status' = status /\ addr' = addr /\ passes' = passes /\ cache' = cache
        /\ poisoned' = poisoned /\ stack' = stack /\ req' = req /\ victim' = victim
    BY <1>1 DEF Freed, Goto, ThreadsOK, ThreadOK
  <1> HIDE DEF l
  <1>3. TypeOK'
    <2>1. stage' \in [PMs -> 0 .. Len(ClearOrder)]
      <3>1. stage \in [PMs -> 0 .. 4]
        BY <1>1, ClearOrderOK DEF TypeOK
      <3>2. stage[pm] + 1 \in 0 .. 4
        BY <1>2, <3>1
      <3>3. stage' \in [PMs -> 0 .. 4]
        BY <1>2, <3>1, <3>2
      <3> QED
        BY <3>3, ClearOrderOK
    <2>2. holder' \in [Locks -> Threads \cup {None}]
      BY <1>1, <1>2 DEF TypeOK
    <2> QED
      BY <1>1, <1>2, <2>1, <2>2 DEF TypeOK, PCs
  <1>4. LiveOK' /\ AddrsOK' /\ Distinct'
    BY <1>1, <1>2 DEF LiveOK, AddrsOK, Distinct, Allocated
  <1>5. \A u \in Threads \ {t} : pc[u] \in {"clear", "freeing"} => victim[u] # pm /\ victim[u] \in PMs
    BY <1>1, <1>2 DEF OneDropper, ThreadsOK, ThreadOK
  <1>6. \A u \in Threads \ {t} : ThreadOK(u)'
    <2>1. \A u \in Threads \ {t} :
            /\ pc'[u] = pc[u] /\ stack'[u] = stack[u]
            /\ req'[u] = req[u] /\ victim'[u] = victim[u]
      BY <1>1, <1>2 DEF TypeOK
    <2>2. \A u \in Threads \ {t} : pc[u] \in {"clear", "freeing"} =>
             /\ status'[victim[u]] = status[victim[u]]
             /\ stage'[victim[u]] = stage[victim[u]]
      BY <1>1, <1>2, <1>5 DEF TypeOK
    <2> QED
      BY <1>2, <2>1, <2>2, OthersOK
  <1>7. ThreadOK(t)' /\ OneDropper'
    BY <1>1, <1>2 DEF ThreadOK, OneDropper, TypeOK
  <1> QED
    BY <1>1, <1>2, <1>3, <1>4, <1>6, <1>7 DEF TypeInv, ThreadsOK

\* The two ways a drop ends.
LEMMA EndDropType ==
    ASSUME TypeInv, NEW t \in Threads, pc[t] \in {"clear", "freeing"},
           NEW st \in {"leaked", "disposed"},
           status' = [status EXCEPT ![victim[t]] = st],
           victim' = [victim EXCEPT ![t] = None],
           NEW w \in {"user", "unwind"}, pc' = [pc EXCEPT ![t] = w],
           w = "unwind" => stack[t] # <<>>,
           addr' = addr, passes' = passes, cache' = cache, stack' = stack,
           req' = req, stage' = stage,
           poisoned' \subseteq Locks, holder' \in [Locks -> Threads \cup {None}]
    PROVE  TypeInv'
  <1> DEFINE pm == victim[t]
  <1>1. /\ TypeOK /\ stack \in [Threads -> Stacks] /\ ThreadsOK
        /\ OneDropper /\ LiveOK /\ AddrsOK /\ Distinct
    BY DEF TypeInv
  <1>2. pm \in PMs /\ status[pm] = "dropping"
    BY <1>1 DEF ThreadsOK, ThreadOK
  <1>3. TypeOK'
    BY <1>1, <1>2 DEF TypeOK, PCs, Statuses
  <1>4. LiveOK'
    BY <1>1, <1>2 DEF LiveOK, TypeOK, Stacks
  <1>5. AddrsOK'
    BY <1>1, <1>2 DEF AddrsOK, TypeOK
  <1>6. Distinct'
    <2>1. \A q \in PMs : Allocated(q)' => Allocated(q)
      BY <1>1, <1>2 DEF Allocated, TypeOK
    <2> QED
      BY <1>1, <2>1 DEF Distinct
  <1>7. \A u \in Threads \ {t} : pc[u] \in {"clear", "freeing"} => victim[u] # pm /\ victim[u] \in PMs
    BY <1>1, <1>2 DEF OneDropper, ThreadsOK, ThreadOK
  <1>8. \A u \in Threads \ {t} : ThreadOK(u)'
    <2>1. \A u \in Threads \ {t} :
            /\ pc'[u] = pc[u] /\ stack'[u] = stack[u]
            /\ req'[u] = req[u] /\ victim'[u] = victim[u]
      BY <1>1 DEF TypeOK
    <2>2. \A u \in Threads \ {t} : pc[u] \in {"clear", "freeing"} =>
             /\ status'[victim[u]] = status[victim[u]]
             /\ stage'[victim[u]] = stage[victim[u]]
      BY <1>1, <1>2, <1>7 DEF TypeOK
    <2> QED
      BY <2>1, <2>2, OthersOK
  <1>9. ThreadOK(t)' /\ OneDropper'
    BY <1>1 DEF ThreadOK, OneDropper, TypeOK
  <1> QED
    BY <1>1, <1>3, <1>4, <1>5, <1>6, <1>8, <1>9 DEF TypeInv, ThreadsOK

\* A panic under the guard ends the drop in "leaked", 
LEMMA FreePanicsType ==
    ASSUME TypeInv, NEW t \in Threads, FreePanics(t)
    PROVE  TypeInv'
  <1> DEFINE l == ClearOrder[stage[victim[t]] + 1]
  <1>1. TypeOK /\ ThreadOK(t)
    BY DEF TypeInv, ThreadsOK
  <1>2. l \in Locks
    <2>1. stage[victim[t]] \in 0 .. 3
      BY <1>1, ClearOrderOK DEF TypeOK, ThreadOK, FreePanics
    <2> QED
      BY <2>1, ClearOrderOK
  <1>3. poisoned' \subseteq Locks /\ holder' \in [Locks -> Threads \cup {None}]
    BY <1>1, <1>2 DEF FreePanics, TypeOK
  <1>4. PICK w \in {"user", "unwind"} :
           pc' = [pc EXCEPT ![t] = w] /\ (w = "unwind" => stack[t] # <<>>)
    BY DEF FreePanics, Goto
  <1>5. /\ pc[t] \in {"clear", "freeing"}
        /\ status' = [status EXCEPT ![victim[t]] = "leaked"]
        /\ victim' = [victim EXCEPT ![t] = None]
        /\ addr' = addr /\ passes' = passes /\ cache' = cache /\ stack' = stack
        /\ req' = req /\ stage' = stage
    BY DEF FreePanics
  <1> QED
    BY <1>3, <1>4, <1>5, EndDropType

\* and llvm_pm_dispose in "disposed".
LEMMA DisposeType ==
    ASSUME TypeInv, NEW t \in Threads, Dispose(t)
    PROVE  TypeInv'
  <1>1. /\ pc[t] \in {"clear", "freeing"}
        /\ status' = [status EXCEPT ![victim[t]] = "disposed"]
        /\ victim' = [victim EXCEPT ![t] = None]
        /\ pc' = [pc EXCEPT ![t] = "user"]
        /\ addr' = addr /\ passes' = passes /\ cache' = cache /\ stack' = stack
        /\ req' = req /\ stage' = stage /\ poisoned' = poisoned /\ holder' = holder
    BY DEF Dispose, Goto
  <1>2. poisoned' \subseteq Locks /\ holder' \in [Locks -> Threads \cup {None}]
    BY <1>1 DEF TypeInv, TypeOK
  <1> QED
    BY <1>1, <1>2, EndDropType

\* A manager its host frees is in no callback and no drop.
LEMMA HostFreesType ==
    ASSUME TypeInv, NEW pm \in PMs, HostFrees(pm)
    PROVE  TypeInv'
  <1>1. /\ TypeOK /\ stack \in [Threads -> Stacks] /\ ThreadsOK
        /\ OneDropper /\ LiveOK /\ AddrsOK /\ Distinct
    BY DEF TypeInv
  <1>2. /\ status[pm] = "live"
        /\ status' = [status EXCEPT ![pm] = "disposed"]
        /\ addr' = addr /\ passes' = passes /\ cache' = cache /\ poisoned' = poisoned
        /\ holder' = holder /\ pc' = pc /\ stack' = stack /\ req' = req
        /\ victim' = victim /\ stage' = stage
        /\ \A u \in Threads : \A i \in DOMAIN stack[u] : stack[u][i].pm # pm
    BY DEF HostFrees, InUse, RunsOn
  <1>3. TypeOK'
    BY <1>1, <1>2 DEF TypeOK, Statuses
  <1>4. LiveOK'
    BY <1>1, <1>2 DEF LiveOK, TypeOK
  <1>5. AddrsOK'
    BY <1>1, <1>2 DEF AddrsOK, TypeOK
  <1>6. Distinct'
    <2>1. \A q \in PMs : Allocated(q)' => Allocated(q)
      BY <1>1, <1>2 DEF Allocated, TypeOK
    <2> QED
      BY <1>1, <1>2, <2>1 DEF Distinct
  <1>7. OneDropper'
    BY <1>1, <1>2 DEF OneDropper
  <1>8. ThreadsOK'
    <2> SUFFICES ASSUME NEW u \in Threads PROVE ThreadOK(u)'
      BY DEF ThreadsOK
    <2>1. ThreadOK(u) /\ Top(u)' = Top(u) /\ Here(u)' = Here(u)
      BY <1>1, <1>2 DEF ThreadsOK, Top, Here
    <2>2. pc[u] \in {"clear", "freeing"} => victim[u] # pm /\ status'[victim[u]] = "dropping"
      BY <1>1, <1>2, <2>1 DEF ThreadOK, TypeOK
    <2> QED
      BY <1>2, <2>1, <2>2 DEF ThreadOK
  <1> QED
    BY <1>1, <1>2, <1>3, <1>4, <1>5, <1>6, <1>7, <1>8 DEF TypeInv

-----------------------------------------------------------------------------
\* Every step keeps the strengthened type invariant.
LEMMA TypeStep == TypeInv /\ [Next]_vars => TypeInv'
  <1> SUFFICES ASSUME TypeInv, [Next]_vars PROVE TypeInv'
    OBVIOUS
  <1>1. CASE \E pm \in PMs : Create(pm) \/ HostFrees(pm)
    BY <1>1, CreateType, HostFreesType
  <1>2. ASSUME NEW t \in Threads, LibraryStep(t) PROVE TypeInv'
    BY <1>2, LookupPassType, InsertType, DroppedOldType, DropOldPanicsType, ClearMapType,
       FreedType, FreePanicsType, DisposeType, UnwindType, UserCatchesType DEF LibraryStep
  <1>3. ASSUME NEW t \in Threads, UserStep(t) PROVE TypeInv'
    <2>1. ASSUME NEW pm \in PMs, NEW k \in UsedKinds, EnterPass(t, pm, k) PROVE TypeInv'
      BY <2>1, EnterPassType, BoundAssumption
    <2> QED
      BY <1>3, <2>1, BeginDropType, ReturnPassType, AddAnalysisType, GetCachedResultType,
         GetResultMissType, ReturnAnalysisType, UserPanicsType DEF UserStep
  <1>4. CASE UNCHANGED vars
    <2>1. /\ status' = status /\ addr' = addr /\ passes' = passes /\ cache' = cache
          /\ poisoned' = poisoned /\ holder' = holder /\ pc' = pc /\ stack' = stack
          /\ req' = req /\ victim' = victim /\ stage' = stage
      BY <1>4 DEF vars
    <2>2. TypeOK' /\ (stack \in [Threads -> Stacks])'
      BY <2>1 DEF TypeInv, TypeOK
    <2>3. ThreadsOK' /\ OneDropper'
      BY <2>1 DEF TypeInv, ThreadsOK, ThreadOK, OneDropper, Top, Here
    <2>4. LiveOK' /\ AddrsOK' /\ Distinct'
      BY <2>1 DEF TypeInv, LiveOK, AddrsOK, Distinct, Allocated
    <2> QED
      BY <2>2, <2>3, <2>4 DEF TypeInv
  <1> QED
    BY <1>1, <1>2, <1>3, <1>4 DEF Next

\* Every variable keeps a value of its kind, for any number of threads,
\* managers, addresses and analyses, whatever panics and is dropped when: the
\* stacks stay well formed and each drop stays with its one thread.
THEOREM TypeCorrect == Spec => []TypeOK
  <1>1. Spec => []TypeInv
    BY TypeInit, TypeStep, PTL DEF Spec
  <1>2. TypeInv => TypeOK
    BY DEF TypeInv
  <1> QED
    BY <1>1, <1>2, PTL

=============================================================================
