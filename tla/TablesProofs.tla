---------------------------- MODULE TablesProofs ----------------------------
(***************************************************************************)
(* AnalysisManagers implements AnalysisTables: the process-wide maps serve *)
(* every manager as if it had tables of its own.  The proof that every     *)
(* step of the first is a step or a stutter of the second, for every       *)
(* number of threads, managers, addresses and analyses.                    *)
(***************************************************************************)
EXTENDS OwnershipProofs

\* What the tables of a manager hold.
LEMMA TablesOK ==
    ASSUME TypeInv, NEW pm \in PMs
    PROVE  /\ RegisteredWith(pm) \in [Kinds -> [Analyses -> PMs \cup {None}]]
           /\ StoredFor(pm) \in [Kinds -> [Cells -> Result \cup {None}]]
  <1>1. /\ passes \in [Kinds -> [Addrs -> [Analyses -> PMs \cup {None}]]]
        /\ cache \in [Kinds -> [Addrs -> [Cells -> Result \cup {None}]]]
        /\ status[pm] = "live" => addr[pm] \in [Kinds -> Addrs]
    BY DEF TypeInv, TypeOK, AddrsOK
  <1>2. NoEntries \in [Analyses -> PMs \cup {None}]
    BY DEF NoEntries
  <1>3. NoResults \in [Cells -> Result \cup {None}]
    BY DEF NoResults
  <1> QED
    BY <1>1, <1>2, <1>3 DEF RegisteredWith, StoredFor

\* A manager is live in the one exactly when it is in the other.
LEMMA LifeOK ==
    ASSUME TypeInv, NEW pm \in PMs
    PROVE  Life(pm) = "live" <=> status[pm] = "live"
  BY DEF Life

\* Initially no manager has tables.
LEMMA TablesInit == Init => Tables!Init
  <1> SUFFICES ASSUME Init PROVE Tables!Init
    OBVIOUS
  <1>1. ASSUME NEW pm \in PMs
        PROVE  /\ Life(pm) = "unborn"
               /\ RegisteredWith(pm) = [k \in Kinds |-> NoEntries]
               /\ StoredFor(pm) = [k \in Kinds |-> NoResults]
    BY DEF Init, Life, RegisteredWith, StoredFor
  <1> QED
    BY <1>1 DEF Init, Tables!Init, Tables!Blank, Tables!Kinds, Tables!Cells,
                Kinds, Cells, NoEntries, NoResults

\* A step that keeps the lives of the managers and the entries of the live
\* ones leaves the tables as they are.
LEMMA QuietStep ==
    ASSUME addr' = addr, poisoned' = poisoned,
           \A pm \in PMs : Life(pm)' = Life(pm),
           \A pm \in PMs : status'[pm] = "live" <=> status[pm] = "live",
           \A pm \in PMs, k \in Kinds : status[pm] = "live" =>
               /\ passes'[k][addr[pm][k]] = passes[k][addr[pm][k]]
               /\ cache'[k][addr[pm][k]] = cache[k][addr[pm][k]]
    PROVE  UNCHANGED Tables!vars
  <1>1. \A pm \in PMs : RegisteredWith(pm)' = RegisteredWith(pm)
    BY DEF RegisteredWith, NoEntries
  <1>2. \A pm \in PMs : StoredFor(pm)' = StoredFor(pm)
    BY DEF StoredFor, NoResults
  <1> QED
    BY <1>1, <1>2 DEF Tables!vars

\* A step that changes no entry and no life.
LEMMA SameEntries ==
    ASSUME addr' = addr, poisoned' = poisoned, passes' = passes, cache' = cache,
           \/ status' = status
           \/ \E pm \in PMs : /\ status[pm] = "dropping"
                              /\ status' = [status EXCEPT ![pm] = "disposed"],
           TypeInv
    PROVE  UNCHANGED Tables!vars
  <1>1. status \in [PMs -> Statuses]
    BY DEF TypeInv, TypeOK
  <1>2. \A pm \in PMs : Life(pm)' = Life(pm)
    BY <1>1 DEF Life
  <1>3. \A pm \in PMs : status'[pm] = "live" <=> status[pm] = "live"
    BY <1>1
  <1> QED
    BY <1>2, <1>3, QuietStep

\* A mutex is poisoned: its sort and kind of table is broken.
LEMMA BreakStep ==
    ASSUME addr' = addr, passes' = passes, cache' = cache,
           NEW k \in Kinds, NEW sort \in {"passes", "cache"},
           poisoned' = poisoned \cup {<<k, sort>>},
           \A pm \in PMs : Life(pm)' = Life(pm),
           \A pm \in PMs : status'[pm] = "live" <=> status[pm] = "live"
    PROVE  Tables!Break(k, sort)
  <1>1. ASSUME NEW pm \in PMs, sort = "passes"
        PROVE  /\ RegisteredWith(pm)' = [RegisteredWith(pm) EXCEPT ![k] = NoEntries]
               /\ StoredFor(pm)' = StoredFor(pm)
    BY <1>1 DEF RegisteredWith, StoredFor, NoEntries, NoResults
  <1>2. ASSUME NEW pm \in PMs, sort = "cache"
        PROVE  /\ StoredFor(pm)' = [StoredFor(pm) EXCEPT ![k] = NoResults]
               /\ RegisteredWith(pm)' = RegisteredWith(pm)
    BY <1>2 DEF RegisteredWith, StoredFor, NoEntries, NoResults
  <1>3. CASE sort = "passes"
    BY <1>1, <1>3 DEF Tables!Break, NoEntries
  <1>4. CASE sort = "cache"
    BY <1>2, <1>4 DEF Tables!Break, NoResults, Cells, Tables!Cells
  <1> QED
    BY <1>3, <1>4

-----------------------------------------------------------------------------
\* A new manager finds at its addresses what hosts have left, and no more.
LEMMA CreateTables ==
    ASSUME OwnInv, OwnInv', NEW pm \in PMs, Create(pm)
    PROVE  Tables!Create(pm)
  <1>1. /\ TypeInv /\ TypeInv' /\ status \in [PMs -> Statuses]
        /\ passes \in [Kinds -> [Addrs -> [Analyses -> PMs \cup {None}]]]
        /\ cache \in [Kinds -> [Addrs -> [Cells -> Result \cup {None}]]]
        /\ addr \in [PMs -> [Kinds -> Addrs \cup {None}]]
    BY DEF OwnInv, TypeInv, TypeOK
  <1>2. PICK as \in [Kinds -> Addrs] :
          /\ \A q \in PMs, k \in Kinds : Allocated(q) => addr[q][k] # as[k]
          /\ addr' = [addr EXCEPT ![pm] = as]
    BY DEF Create
  <1>3. /\ status[pm] = "unborn" /\ status' = [status EXCEPT ![pm] = "live"]
        /\ passes' = passes /\ cache' = cache /\ poisoned' = poisoned
    BY DEF Create
  <1>4. /\ Life(pm) = "unborn" /\ Life(pm)' = "live"
        /\ \A q \in PMs \ {pm} : Life(q)' = Life(q)
    BY <1>1, <1>3 DEF Life
  <1>5. \A q \in PMs \ {pm} :
          RegisteredWith(q)' = RegisteredWith(q) /\ StoredFor(q)' = StoredFor(q)
    BY <1>1, <1>2, <1>3 DEF RegisteredWith, StoredFor, NoEntries, NoResults
  <1>6. PICK p : p = RegisteredWith(pm)'
    OBVIOUS
  <1>7. PICK c : c = StoredFor(pm)'
    OBVIOUS
  <1>8. p \in [Kinds -> [Analyses -> Hosted \cup {None}]]
    <2>1. p = [k \in Kinds |-> IF <<k, "passes">> \notin poisoned
                               THEN passes[k][as[k]] ELSE NoEntries]
      BY <1>1, <1>2, <1>3, <1>6 DEF RegisteredWith, NoEntries
    <2>2. ASSUME NEW k \in Kinds, <<k, "passes">> \notin poisoned
          PROVE  passes[k][as[k]] \in [Analyses -> Hosted \cup {None}]
      <3>1. as[k] \in Addrs /\ passes[k][as[k]] \in [Analyses -> PMs \cup {None}]
        <4>1. as[k] \in Addrs
          BY <1>2
        <4>2. passes[k] \in [Addrs -> [Analyses -> PMs \cup {None}]]
          BY <1>1
        <4> QED
          BY <4>1, <4>2
      <3>2. ASSUME NEW A \in Analyses, passes[k][as[k]][A] # None
            PROVE  passes[k][as[k]][A] \in Hosted
        <4>1. passes[k][as[k]][A] \in PMs
          BY <3>1, <3>2
        <4>2. Serves(passes[k][as[k]][A], k, as[k])
          BY <2>2, <3>1, <3>2 DEF OwnInv, PassesFresh
        <4> QED
          BY <1>2, <4>1, <4>2 DEF Serves, Owns
      <3> QED
        BY <3>1, <3>2
    <2>3. NoEntries \in [Analyses -> Hosted \cup {None}]
      BY DEF NoEntries
    <2> QED
      BY <2>1, <2>2, <2>3
  <1>9. c \in [Kinds -> [Cells -> [id : Boxes, by : Hosted] \cup {None}]]
    <2>1. c = [k \in Kinds |-> IF <<k, "cache">> \notin poisoned
                               THEN cache[k][as[k]] ELSE NoResults]
      BY <1>1, <1>2, <1>3, <1>7 DEF StoredFor, NoResults
    <2>2. ASSUME NEW k \in Kinds, <<k, "cache">> \notin poisoned
          PROVE  cache[k][as[k]] \in [Cells -> [id : Boxes, by : Hosted] \cup {None}]
      <3>1. as[k] \in Addrs /\ cache[k][as[k]] \in [Cells -> Result \cup {None}]
        BY <1>1, <1>2
      <3>2. ASSUME NEW d \in Cells, cache[k][as[k]][d] # None
            PROVE  cache[k][as[k]][d] \in [id : Boxes, by : Hosted]
        <4>1. cache[k][as[k]][d] \in Result /\ cache[k][as[k]][d].by \in PMs
          BY <3>1, <3>2 DEF Result
        <4>2. Serves(cache[k][as[k]][d].by, k, as[k])
          BY <2>2, <3>1, <3>2 DEF OwnInv, CacheFresh
        <4>3. cache[k][as[k]][d].by \in Hosted
          BY <1>2, <4>1, <4>2 DEF Serves, Owns
        <4> QED
          BY <4>1, <4>3 DEF Result
      <3> QED
        BY <3>1, <3>2
    <2>3. NoResults \in [Cells -> [id : Boxes, by : Hosted] \cup {None}]
      BY DEF NoResults
    <2> QED
      BY <2>1, <2>2, <2>3
  <1>10. [q \in PMs |-> RegisteredWith(q)'] =
           [[q \in PMs |-> RegisteredWith(q)] EXCEPT ![pm] = p]
    BY <1>5, <1>6
  <1>11. [q \in PMs |-> StoredFor(q)'] = [[q \in PMs |-> StoredFor(q)] EXCEPT ![pm] = c]
    BY <1>5, <1>7
  <1>12. [q \in PMs |-> Life(q)'] = [[q \in PMs |-> Life(q)] EXCEPT ![pm] = "live"]
    BY <1>4
  <1> QED
    BY <1>3, <1>4, <1>8, <1>9, <1>10, <1>11, <1>12
       DEF Tables!Create, Tables!Kinds, Tables!Cells, Kinds, Cells

\* The tables of a manager go when its drop begins or its host frees it.
LEMMA EndTables ==
    ASSUME OwnInv, NEW pm \in PMs, status[pm] = "live",
           NEW st \in {"dropping", "disposed"}, status' = [status EXCEPT ![pm] = st],
           addr' = addr, passes' = passes, cache' = cache, poisoned' = poisoned
    PROVE  Tables!End(pm)
  <1>1. status \in [PMs -> Statuses]
    BY DEF OwnInv, TypeInv, TypeOK
  <1>2. /\ Life(pm) = "live" /\ Life(pm)' = "gone"
        /\ \A q \in PMs \ {pm} : Life(q)' = Life(q)
    BY <1>1 DEF Life
  <1>3. \A q \in PMs \ {pm} :
          RegisteredWith(q)' = RegisteredWith(q) /\ StoredFor(q)' = StoredFor(q)
    BY <1>1 DEF RegisteredWith, StoredFor, NoEntries, NoResults
  <1>4. RegisteredWith(pm)' = [k \in Kinds |-> NoEntries]
        /\ StoredFor(pm)' = [k \in Kinds |-> NoResults]
    BY <1>1 DEF RegisteredWith, StoredFor, NoEntries, NoResults
  <1> QED
    BY <1>2, <1>3, <1>4 DEF Tables!End, Tables!Blank, Tables!Kinds, Tables!Cells,
                            Kinds, Cells, NoEntries, NoResults

\* add_analysis registers, once, or breaks the table.
LEMMA AddAnalysisTables ==
    ASSUME OwnInv, OwnInv', NEW t \in Threads, NEW A \in Analyses, AddAnalysis(t, A)
    PROVE  Tables!Next \/ UNCHANGED Tables!vars
  <1>0. PICK K, P, H : K = Top(t).kind /\ P = Top(t).pm /\ H = Here(t)
    OBVIOUS
  <1>1. /\ TypeInv /\ status' = status /\ addr' = addr /\ cache' = cache
        /\ stack[t] # <<>> /\ PassesLock(t) = <<K, "passes">>
        /\ passes \in [Kinds -> [Addrs -> [Analyses -> PMs \cup {None}]]]
    BY <1>0 DEF AddAnalysis, InCallback, PassesLock, OwnInv, TypeInv, TypeOK
  <1>2. /\ K \in Kinds /\ P \in PMs /\ H \in Addrs /\ status[P] = "live"
        /\ H = addr[P][K]
    BY <1>0, <1>1, TopOK DEF Here
  <1>3. (\A q \in PMs : Life(q)' = Life(q)) /\ \A q \in PMs : status'[q] = "live" <=> status[q] = "live"
    BY <1>1 DEF Life
  <1>4. CASE passes' = passes /\ poisoned' = poisoned
    BY <1>1, <1>4, SameEntries
  <1>5. CASE passes' = passes /\ poisoned' = poisoned \cup {<<K, "passes">>}
    <2>1. Tables!Break(K, "passes")
      BY <1>1, <1>2, <1>3, <1>5, BreakStep
    <2> QED
      BY <1>2, <2>1 DEF Tables!Next, Tables!Kinds, Kinds
  <1>6. CASE /\ passes[K][H][A] = None /\ <<K, "passes">> \notin poisoned
             /\ passes' = [passes EXCEPT ![K][H][A] = P] /\ poisoned' = poisoned
    <2>1. ASSUME NEW q \in PMs \ {P} PROVE RegisteredWith(q)' = RegisteredWith(q)
      <3>1. ASSUME status[q] = "live" PROVE addr[q] \in [Kinds -> Addrs] /\ addr[q][K] # H
        BY <1>1, <1>2, <3>1 DEF TypeInv, AddrsOK, Distinct, Allocated
      <3>2. ASSUME NEW k \in Kinds, status[q] = "live"
            PROVE  passes'[k][addr[q][k]] = passes[k][addr[q][k]]
        BY <1>1, <1>2, <1>6, <3>1, <3>2
      <3> QED
        BY <1>1, <1>6, <3>2 DEF RegisteredWith, NoEntries
    <2>2. RegisteredWith(P)' = [RegisteredWith(P) EXCEPT ![K] = [@ EXCEPT ![A] = P]]
      <3>1. \A k \in Kinds : passes'[k][addr[P][k]] =
                IF k = K THEN [passes[K][H] EXCEPT ![A] = P] ELSE passes[k][addr[P][k]]
        BY <1>1, <1>2, <1>6
      <3>2. RegisteredWith(P) = [k \in Kinds |-> IF <<k, "passes">> \notin poisoned
                                    THEN passes[k][addr[P][k]] ELSE NoEntries]
        BY <1>2 DEF RegisteredWith
      <3>3. RegisteredWith(P)' = [k \in Kinds |-> IF <<k, "passes">> \notin poisoned
                                     THEN passes'[k][addr[P][k]] ELSE NoEntries]
        BY <1>1, <1>2, <1>6 DEF RegisteredWith, NoEntries
      <3>4. RegisteredWith(P)[K] = passes[K][H]
        BY <1>2, <1>6, <3>2
      <3>5. RegisteredWith(P)' = [RegisteredWith(P) EXCEPT ![K] = [passes[K][H] EXCEPT ![A] = P]]
        BY <1>2, <1>6, <3>1, <3>2, <3>3
      <3> QED
        BY <3>4, <3>5
    <2>3. \A q \in PMs : StoredFor(q)' = StoredFor(q)
      BY <1>1, <1>6 DEF StoredFor, NoResults
    <2>4. RegisteredWith(P)[K][A] = None /\ Life(P) = "live"
      BY <1>2, <1>6 DEF RegisteredWith, Life
    <2>5. [q \in PMs |-> RegisteredWith(q)'] =
            [[q \in PMs |-> RegisteredWith(q)] EXCEPT ![P][K][A] = P]
      <3>1. PICK r : r = RegisteredWith(P)'
        OBVIOUS
      <3>2. r = [RegisteredWith(P) EXCEPT ![K][A] = P]
        BY <2>2, <3>1
      <3>3. [q \in PMs |-> RegisteredWith(q)'] = [[q \in PMs |-> RegisteredWith(q)] EXCEPT ![P] = r]
        BY <1>2, <2>1, <3>1
      <3> QED
        BY <1>2, <3>2, <3>3
    <2>6. Tables!Register(P, K, A)
      BY <1>2, <1>3, <1>6, <2>3, <2>4, <2>5 DEF Tables!Register
    <2> QED
      BY <1>2, <2>6 DEF Tables!Next, Tables!Kinds, Kinds
  <1> QED
    BY <1>0, <1>1, <1>4, <1>5, <1>6 DEF AddAnalysis

\* A box that is in no cache holds no result of any table.
LEMMA FreshOK ==
    ASSUME TypeInv, \E b \in Boxes : ~ BoxInUse(b)
    PROVE  /\ FreshBox \in Boxes
           /\ \A p \in PMs, j \in Kinds, c \in Cells :
                StoredFor(p)[j][c] # None => StoredFor(p)[j][c].id # FreshBox
  <1>1. FreshBox \in Boxes /\ ~ BoxInUse(FreshBox)
    BY DEF FreshBox
  <1>2. \A k \in Kinds, a \in Addrs, c \in Cells :
          cache[k][a][c] # None => cache[k][a][c].id # FreshBox
    BY <1>1 DEF BoxInUse
  <1>3. ASSUME NEW p \in PMs, NEW j \in Kinds, NEW c \in Cells, StoredFor(p)[j][c] # None
        PROVE  StoredFor(p)[j][c].id # FreshBox
    <2>1. status[p] = "live" /\ StoredFor(p)[j] = cache[j][addr[p][j]]
      BY <1>3 DEF StoredFor, NoResults
    <2>2. addr[p][j] \in Addrs
      BY <2>1 DEF TypeInv, AddrsOK
    <2> QED
      BY <1>2, <1>3, <2>1, <2>2
  <1> QED
    BY <1>1, <1>3

\* get_result stores in a box of its own what the registered analysis computed.
LEMMA InsertTables ==
    ASSUME OwnInv, OwnInv', NEW t \in Threads, Insert(t)
    PROVE  Tables!Next \/ UNCHANGED Tables!vars
  <1>0. PICK f, K, P, H, A, u, q :
          /\ f = Top(t) /\ K = f.kind /\ P = f.pm /\ H = Here(t)
          /\ A = f.from /\ u = f.unit /\ q = f.by
    OBVIOUS
  <1>1. /\ TypeInv /\ status' = status /\ addr' = addr /\ passes' = passes
        /\ poisoned' = poisoned /\ stack[t] # <<>> /\ A # None
        /\ CacheLock(t) = <<K, "cache">>
        /\ cache \in [Kinds -> [Addrs -> [Cells -> Result \cup {None}]]]
    BY <1>0 DEF Insert, OwnInv, TypeInv, TypeOK, ThreadsOK, ThreadOK, CacheLock
  <1>2. /\ K \in Kinds /\ P \in PMs /\ H \in Addrs /\ status[P] = "live"
        /\ H = addr[P][K] /\ A \in Analyses /\ u \in Units /\ q \in PMs
    BY <1>0, <1>1, TopOK DEF Here
  <1>3. q \in {P} \cup Hosted /\ passes[K][H][A] = q
    <2>1. FrameOwned(f)
      BY <1>0, <1>1, TopOK DEF OwnInv, FramesOwned
    <2> QED
      BY <1>0, <1>1, <1>2, <2>1, NoneAssumption DEF FrameOwned, Registered
  <1>4. CASE cache' = cache
    BY <1>1, <1>4, SameEntries
  <1>5. CASE /\ <<K, "cache">> \notin poisoned
             /\ \E b \in Boxes : ~ BoxInUse(b)
             /\ cache' = [cache EXCEPT ![K][H][<<A, u>>] = [id |-> FreshBox, by |-> q]]
    <2>1. PICK new : new = [id |-> FreshBox, by |-> q]
      OBVIOUS
    <2>2. cache' = [cache EXCEPT ![K][H][<<A, u>>] = new] /\ <<A, u>> \in Cells
      BY <1>2, <1>5, <2>1 DEF Cells
    <2>3. ASSUME NEW p \in PMs \ {P} PROVE StoredFor(p)' = StoredFor(p)
      <3>1. ASSUME status[p] = "live" PROVE addr[p] \in [Kinds -> Addrs] /\ addr[p][K] # H
        BY <1>1, <1>2, <3>1 DEF TypeInv, AddrsOK, Distinct, Allocated
      <3>2. ASSUME NEW k \in Kinds, status[p] = "live"
            PROVE  cache'[k][addr[p][k]] = cache[k][addr[p][k]]
        BY <1>1, <1>2, <2>2, <3>1, <3>2
      <3> QED
        BY <1>1, <3>2 DEF StoredFor, NoResults
    <2>4. StoredFor(P)' = [StoredFor(P) EXCEPT ![K] = [@ EXCEPT ![<<A, u>>] = new]]
      <3>1. \A k \in Kinds : cache'[k][addr[P][k]] =
                IF k = K THEN [cache[K][H] EXCEPT ![<<A, u>>] = new] ELSE cache[k][addr[P][k]]
        BY <1>1, <1>2, <2>2
      <3>2. StoredFor(P) = [k \in Kinds |-> IF <<k, "cache">> \notin poisoned
                                THEN cache[k][addr[P][k]] ELSE NoResults]
        BY <1>2 DEF StoredFor
      <3>3. StoredFor(P)' = [k \in Kinds |-> IF <<k, "cache">> \notin poisoned
                                THEN cache'[k][addr[P][k]] ELSE NoResults]
        BY <1>1, <1>2 DEF StoredFor, NoResults
      <3>4. StoredFor(P)[K] = cache[K][H]
        BY <1>2, <1>5, <3>2
      <3>5. StoredFor(P)' = [StoredFor(P) EXCEPT ![K] = [cache[K][H] EXCEPT ![<<A, u>>] = new]]
        BY <1>2, <1>5, <3>1, <3>2, <3>3
      <3> QED
        BY <3>4, <3>5
    <2>5. /\ \A p \in PMs : RegisteredWith(p)' = RegisteredWith(p)
          /\ \A p \in PMs : Life(p)' = Life(p)
          /\ Life(P) = "live"
      BY <1>1, <1>2 DEF RegisteredWith, NoEntries, Life
    <2>6. <<K, "passes">> \notin poisoned => RegisteredWith(P)[K][A] = q
      BY <1>2, <1>3 DEF RegisteredWith
    <2>7. /\ FreshBox \in Boxes
          /\ \A p \in PMs, j \in Kinds, c \in Cells :
                StoredFor(p)[j][c] # None => StoredFor(p)[j][c].id # FreshBox
      BY <1>1, <1>5, FreshOK
    <2>8. [p \in PMs |-> StoredFor(p)'] =
            [[p \in PMs |-> StoredFor(p)] EXCEPT ![P][K][<<A, u>>] = new]
      <3>1. PICK r : r = StoredFor(P)'
        OBVIOUS
      <3>2. r = [StoredFor(P) EXCEPT ![K][<<A, u>>] = new]
        BY <2>4, <3>1
      <3>3. [p \in PMs |-> StoredFor(p)'] = [[p \in PMs |-> StoredFor(p)] EXCEPT ![P] = r]
        BY <1>2, <2>3, <3>1
      <3> QED
        BY <1>2, <3>2, <3>3
    <2>9. Tables!Store(P, K, A, u)
      <3>1. PICK b : b = FreshBox
        OBVIOUS
      <3>2. b \in Boxes /\ new = [id |-> b, by |-> q]
        BY <2>1, <2>7, <3>1
      <3>3. /\ [p \in PMs |-> Life(p)][P] = "live"
            /\ <<K, "passes">> \notin poisoned => [p \in PMs |-> RegisteredWith(p)][P][K][A] = q
        BY <1>2, <2>5, <2>6
      <3>4. \A p \in PMs, j \in Kinds, c \in Cells :
              [i \in PMs |-> StoredFor(i)][p][j][c] # None
                => [i \in PMs |-> StoredFor(i)][p][j][c].id # b
        BY <2>7, <3>1
      <3>5. /\ [p \in PMs |-> StoredFor(p)'] = [[p \in PMs |-> StoredFor(p)]
                   EXCEPT ![P][K][<<A, u>>] = [id |-> b, by |-> q]]
            /\ [p \in PMs |-> RegisteredWith(p)'] = [p \in PMs |-> RegisteredWith(p)]
            /\ [p \in PMs |-> Life(p)'] = [p \in PMs |-> Life(p)]
        BY <2>5, <2>8, <3>2
      <3> QED
        BY <1>1, <1>3, <1>5, <3>2, <3>3, <3>4, <3>5, Zenon
           DEF Tables!Store, Tables!Kinds, Tables!Cells, Kinds, Cells
    <2> QED
      BY <1>2, <2>9 DEF Tables!Next, Tables!Kinds, Kinds
  <1> QED
    BY <1>0, <1>1, <1>4, <1>5 DEF Insert

-----------------------------------------------------------------------------
\* A drop empties no map at the address of a live manager.
LEMMA ClearMapTables ==
    ASSUME OwnInv, NEW t \in Threads, ClearMap(t)
    PROVE  UNCHANGED Tables!vars
  <1>1. /\ TypeInv /\ status' = status /\ addr' = addr /\ poisoned' = poisoned
        /\ victim[t] \in PMs /\ status[victim[t]] = "dropping"
        /\ passes \in [Kinds -> [Addrs -> [Analyses -> PMs \cup {None}]]]
        /\ cache \in [Kinds -> [Addrs -> [Cells -> Result \cup {None}]]]
    BY DEF ClearMap, OwnInv, TypeInv, TypeOK, ThreadsOK, ThreadOK
  <1>2. PICK l, a, k : /\ l = ClearOrder[stage[victim[t]] + 1]
                       /\ k = l[1] /\ a = addr[victim[t]][k]
    OBVIOUS
  <1>3. /\ passes' = passes \/ passes' = [passes EXCEPT ![k][a] = NoEntries]
        /\ cache' = cache \/ cache' = [cache EXCEPT ![k][a] = NoResults]
    BY <1>2 DEF ClearMap, TakeOut
  <1>4. stage[victim[t]] \in 0 .. 3
    BY <1>1, ClearOrderOK DEF TypeInv, TypeOK, ClearMap
  <1>5. k \in Kinds
    BY <1>2, <1>4, ClearOrderOK
  <1>6. ASSUME NEW pm \in PMs, NEW j \in Kinds, status[pm] = "live"
        PROVE  addr[pm][j] \in Addrs /\ (j = k => addr[pm][j] # a)
    BY <1>1, <1>2, <1>5, <1>6 DEF TypeInv, AddrsOK, Distinct, Allocated
  <1>7. \A pm \in PMs, j \in Kinds : status[pm] = "live" =>
          /\ passes'[j][addr[pm][j]] = passes[j][addr[pm][j]]
          /\ cache'[j][addr[pm][j]] = cache[j][addr[pm][j]]
    BY <1>1, <1>3, <1>5, <1>6
  <1>8. (\A q \in PMs : Life(q)' = Life(q)) /\ \A q \in PMs : status'[q] = "live" <=> status[q] = "live"
    BY <1>1 DEF Life
  <1> QED
    BY <1>1, <1>7, <1>8, QuietStep

\* A panic under a cache guard breaks that cache.
LEMMA PanicTables ==
    ASSUME OwnInv, NEW t \in Threads, FreePanics(t) \/ DropOldPanics(t)
    PROVE  Tables!Next
  <1>1. /\ TypeInv /\ addr' = addr /\ passes' = passes /\ cache' = cache
        /\ status \in [PMs -> Statuses]
    BY DEF FreePanics, DropOldPanics, OwnInv, TypeInv, TypeOK
  <1>2. \E k \in Kinds : poisoned' = poisoned \cup {<<k, "cache">>}
    <2>1. CASE FreePanics(t)
      <3>1. PICK l : l = ClearOrder[stage[victim[t]] + 1]
        OBVIOUS
      <3>2. stage[victim[t]] \in 0 .. 3
        <4>1. ThreadOK(t) /\ stage \in [PMs -> 0 .. Len(ClearOrder)]
          BY <1>1 DEF TypeInv, TypeOK, ThreadsOK
        <4>2. stage[victim[t]] < 4 /\ victim[t] \in PMs
          BY <2>1, <4>1 DEF FreePanics, ThreadOK
        <4> QED
          BY <4>1, <4>2, ClearOrderOK
      <3>3. l \in Locks /\ l[2] = "cache" /\ poisoned' = poisoned \cup {l}
        BY <2>1, <3>1, <3>2, ClearOrderOK DEF FreePanics
      <3> QED
        BY <3>3 DEF Locks
    <2>2. CASE DropOldPanics(t)
      <3>1. stack[t] # <<>>
        BY <1>1, <2>2 DEF DropOldPanics, TypeInv, ThreadsOK, ThreadOK
      <3> QED
        BY <1>1, <2>2, <3>1, TopOK DEF DropOldPanics, CacheLock
    <2> QED
      BY <2>1, <2>2
  <1>3. /\ \A q \in PMs : Life(q)' = Life(q)
        /\ \A q \in PMs : status'[q] = "live" <=> status[q] = "live"
    <2>1. CASE status' = status
      BY <2>1 DEF Life
    <2>2. CASE FreePanics(t)
      <3>1. /\ victim[t] \in PMs /\ status[victim[t]] = "dropping"
            /\ status' = [status EXCEPT ![victim[t]] = "leaked"]
        BY <1>1, <2>2 DEF FreePanics, TypeInv, ThreadsOK, ThreadOK
      <3> QED
        BY <1>1, <3>1 DEF Life
    <2> QED
      BY <2>1, <2>2 DEF DropOldPanics
  <1>4. PICK k \in Kinds : poisoned' = poisoned \cup {<<k, "cache">>}
    BY <1>2
  <1>5. Tables!Break(k, "cache")
    BY <1>1, <1>3, <1>4, BreakStep
  <1> QED
    BY <1>5 DEF Tables!Next, Tables!Kinds, Kinds

\* Every step of the managers is one of the tables, or none.
LEMMA TablesStep == OwnInv /\ OwnInv' /\ [Next]_vars => [Tables!Next]_(Tables!vars)
  <1> SUFFICES ASSUME OwnInv, OwnInv', [Next]_vars
               PROVE  Tables!Next \/ UNCHANGED Tables!vars
    OBVIOUS
  <1>1. TypeInv /\ status \in [PMs -> Statuses]
    BY DEF OwnInv, TypeInv, TypeOK
  <1>2. ASSUME NEW pm \in PMs, Create(pm) PROVE Tables!Next
    BY <1>2, CreateTables DEF Tables!Next
  <1>3. ASSUME NEW pm \in PMs, HostFrees(pm) PROVE Tables!Next
    <2>1. Tables!End(pm)
      BY <1>3, EndTables DEF HostFrees
    <2> QED
      BY <2>1 DEF Tables!Next
  <1>4. ASSUME NEW t \in Threads, LibraryStep(t) PROVE Tables!Next \/ UNCHANGED Tables!vars
    <2>1. CASE LookupPass(t) \/ DroppedOld(t) \/ Freed(t) \/ Unwind(t) \/ UserCatches(t)
      BY <1>1, <2>1, SameEntries DEF LookupPass, DroppedOld, Freed, Unwind, UserCatches
    <2>2. CASE Dispose(t)
      <3>1. /\ victim[t] \in PMs /\ status[victim[t]] = "dropping"
            /\ status' = [status EXCEPT ![victim[t]] = "disposed"]
            /\ addr' = addr /\ poisoned' = poisoned /\ passes' = passes /\ cache' = cache
        BY <1>1, <2>2 DEF Dispose, TypeInv, ThreadsOK, ThreadOK
      <3> QED
        BY <1>1, <3>1, SameEntries
    <2> QED
      BY <1>4, <2>1, <2>2, InsertTables, ClearMapTables, PanicTables DEF LibraryStep
  <1>5. ASSUME NEW t \in Threads, UserStep(t) PROVE Tables!Next \/ UNCHANGED Tables!vars
    <2>1. ASSUME NEW pm \in PMs, BeginDrop(t, pm) PROVE Tables!Next
      <3>1. Tables!End(pm)
        BY <2>1, EndTables DEF BeginDrop
      <3> QED
        BY <3>1 DEF Tables!Next
    <2>2. ASSUME NEW A \in Analyses, AddAnalysis(t, A)
          PROVE  Tables!Next \/ UNCHANGED Tables!vars
      BY <2>2, AddAnalysisTables
    <2>3. ASSUME \/ \E pm \in PMs, k \in UsedKinds : EnterPass(t, pm, k)
                 \/ ReturnPass(t) \/ ReturnAnalysis(t) \/ UserPanics(t)
                 \/ \E A \in Analyses, u \in Units :
                       GetCachedResult(t, A, u) \/ GetResultMiss(t, A, u)
          PROVE  UNCHANGED Tables!vars
      <3>1. /\ status' = status /\ addr' = addr /\ poisoned' = poisoned
            /\ passes' = passes /\ cache' = cache
        BY <2>3 DEF EnterPass, ReturnPass, ReturnAnalysis, UserPanics, GetCachedResult,
           GetResultMiss
      <3> QED
        BY <1>1, <3>1, SameEntries
    <2> QED
      BY <1>5, <2>1, <2>2, <2>3 DEF UserStep
  <1>6. CASE UNCHANGED vars
    BY <1>1, <1>6, SameEntries DEF vars
  <1> QED
    BY <1>2, <1>3, <1>4, <1>5, <1>6 DEF Next

\* llvm-pm's maps, keyed by addresses that come back and cleared one lock at a
\* time beside running callbacks, implement tables that belong to managers.
THEOREM TablesImplemented == Spec => TablesOfTheirOwn
  BY TablesInit, TablesStep, OwnAlways, PTL DEF Spec, TablesOfTheirOwn, Tables!Spec

=============================================================================
