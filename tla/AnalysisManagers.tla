-------------------------- MODULE AnalysisManagers --------------------------
(***************************************************************************)
(* The CGSCC and loop analysis managers of llvm-pm (src/lib.rs).           *)
(*                                                                         *)
(* Registered analysis passes and their results live in four process-wide  *)
(* maps, each behind a mutex of its own: for either kind of manager a map  *)
(* `passes' (what add_analysis registered) and a map `cache' (what         *)
(* get_result computed).  An outer key is the ADDRESS of the C++ manager,  *)
(* which the allocator may hand out again once its owner is disposed; each *)
(* kind of C++ manager is counted in addresses of its own.                 *)
(* Requests nest: an analysis may request other analyses, so each thread   *)
(* runs a stack of user callbacks.  Dropping a pass manager clears the     *)
(* four maps one lock at a time and only then frees the addresses.  The    *)
(* managers of a host that runs passes of a plugin (src/plugin.rs) use the *)
(* same maps, but llvm-pm has no part in their drop: it clears nothing.    *)
(*                                                                         *)
(* A mutex that is taken and released inside one step is not shown as      *)
(* held: no other code runs meanwhile.  `holder' shows the mutexes held    *)
(* while code of the user runs: the Drop of removed passes and results.    *)
(***************************************************************************)
EXTENDS Naturals, FiniteSets, SequencesExt

CONSTANTS
    Threads,        \* OS threads that use pass managers
    PMs,            \* pass managers ever created; an identity is used once
    Hosted,         \* those of a host that has loaded a plugin
    Addrs,          \* addresses the allocator may give a C++ manager
    Analyses,       \* TypeIds of analysis types
    Units,          \* IR keys: a function of the SCC, a loop header
    Boxes,          \* identities of heap boxes that hold a result
    None,           \* absent value
    UsedKinds,      \* bound: the kinds of manager whose passes are run
    MaxDepth,       \* bound: callbacks nested on one thread
    DropMayPanic,   \* whether the Drop of a user's pass or result may panic
    Exclusive       \* whether one thread at a time uses a manager: what
                    \* `run(&mut self)' and Send without Sync enforce

Kinds == {"cgscc", "loop"}
Locks == Kinds \X {"passes", "cache"}

ASSUME NoneAssumption ==
    /\ None \notin PMs
    /\ None \notin Addrs
    /\ None \notin Threads
    /\ None \notin Analyses
    /\ None \notin Units
    /\ None \notin Analyses \X Units
    /\ None \notin [id : Boxes, by : PMs]
ASSUME HostedAssumption == Hosted \subseteq PMs
ASSUME BoundAssumption ==
    /\ UsedKinds \subseteq Kinds
    /\ MaxDepth \in Nat
    /\ DropMayPanic \in BOOLEAN
    /\ Exclusive \in BOOLEAN

\* Mutant of ClearOrder: the caches are forgotten.
ClearOrderPassesOnly == << <<"cgscc", "passes">>, <<"loop", "passes">> >>

\* Mutant of ClearOrder: the loop maps are mistaken for the CGSCC maps.
ClearOrderCgsccTwice == << <<"cgscc", "passes">>, <<"cgscc", "cache">>,
                           <<"cgscc", "passes">>, <<"cgscc", "cache">> >>

\* What clear_analysis_state locks and clears, in its order.
ClearOrder == << <<"cgscc", "passes">>, <<"cgscc", "cache">>,
                 <<"loop", "passes">>, <<"loop", "cache">> >>

VARIABLES
    status,     \* life of each pass manager
    addr,       \* addr[pm][k]: address of the manager of kind k of pm
    passes,     \* passes[k][a][A]: the pass manager that registered A there
    cache,      \* cache[k][a][<<A, u>>]: the boxed result stored there
    poisoned,   \* the mutexes poisoned by a panic
    holder,     \* the thread inside a Drop of the user with the mutex held
    pc,         \* what each thread is doing
    stack,      \* the callbacks running on each thread, innermost last
    req,        \* the request a thread has missed in the cache
    victim,     \* the pass manager a thread is dropping
    stage       \* how many of the four maps a drop has gone through

vars == <<status, addr, passes, cache, poisoned, holder,
          pc, stack, req, victim, stage>>

Cells == Analyses \X Units
Result == [id : Boxes, by : PMs]
\* A reference &A::Result that the code of a callback holds.
Ref == [an : Analyses, unit : Units, id : Boxes, by : PMs]
\* A callback: `from' is the handle's from_analysis_id, None in a pass; `by'
\* is the manager whose registered pass box is running, None in a pass.
Frame == [pm : PMs, kind : Kinds, from : Analyses \cup {None},
          unit : Units \cup {None}, by : PMs \cup {None}, refs : SUBSET Ref]

Statuses == {"unborn", "live", "dropping", "leaked", "disposed"}
PCs == {"user", "lookup", "insert", "dropold", "unwind", "clear", "freeing"}

NoEntries == [A \in Analyses |-> None]
NoResults == [c \in Cells |-> None]

Init ==
    /\ status = [pm \in PMs |-> "unborn"]
    /\ addr = [pm \in PMs |-> [k \in Kinds |-> None]]
    /\ passes = [k \in Kinds |-> [a \in Addrs |-> NoEntries]]
    /\ cache = [k \in Kinds |-> [a \in Addrs |-> NoResults]]
    /\ poisoned = {}
    /\ holder = [l \in Locks |-> None]
    /\ pc = [t \in Threads |-> "user"]
    /\ stack = [t \in Threads |-> <<>>]
    /\ req = [t \in Threads |-> None]
    /\ victim = [t \in Threads |-> None]
    /\ stage = [pm \in PMs |-> 0]

-----------------------------------------------------------------------------
\* Mutant of Allocated: llvm_pm_dispose runs before clear_analysis_state.
AllocatedUntilDrop(pm) == status[pm] \in {"live", "leaked"}

\* The C++ managers of pm exist: created, and llvm_pm_dispose not yet called.
Allocated(pm) == status[pm] \in {"live", "dropping", "leaked"}

RunsOn(t, pm) == \E i \in DOMAIN stack[t] : stack[t][i].pm = pm
InUse(pm) == \E t \in Threads : RunsOn(t, pm)

Top(t) == Last(stack[t])
\* The address behind the handle of the innermost callback of t.
Here(t) == addr[Top(t).pm][Top(t).kind]
PassesLock(t) == <<Top(t).kind, "passes">>
CacheLock(t) == <<Top(t).kind, "cache">>
\* The thread runs code of a pass or of an analysis.
InCallback(t) == pc[t] = "user" /\ stack[t] # <<>>
Unlocked(l) == holder[l] = None

\* The box is stored in a cache, or some callback refers to it.
BoxInUse(b) ==
    \/ \E k \in Kinds, a \in Addrs, c \in Cells :
        cache[k][a][c] # None /\ cache[k][a][c].id = b
    \/ \E t \in Threads : \E i \in DOMAIN stack[t] :
        \E r \in stack[t][i].refs : r.id = b
FreshBox == CHOOSE b \in Boxes : ~ BoxInUse(b)

Goto(t, where) == pc' = [pc EXCEPT ![t] = where]
RefTo(A, u, result) == [an |-> A, unit |-> u, id |-> result.id, by |-> result.by]
WithRef(s, ref) == [s EXCEPT ![Len(s)].refs = @ \cup {ref}]

-----------------------------------------------------------------------------
\* Life of a pass manager.  The allocator picks any address no existing C++
\* manager has.
Create(pm) ==
    /\ status[pm] = "unborn"
    /\ \E as \in [Kinds -> Addrs] :
        /\ \A q \in PMs, k \in Kinds : Allocated(q) => addr[q][k] # as[k]
        /\ addr' = [addr EXCEPT ![pm] = as]
    /\ status' = [status EXCEPT ![pm] = "live"]
    /\ UNCHANGED <<passes, cache, poisoned, holder, pc, stack, req, victim, stage>>

\* run() of the C++ pipeline reaches a pass: the trampoline builds a handle
\* without from_analysis_id.  A callback may itself run another manager.
EnterPass(t, pm, k) ==
    /\ pc[t] = "user"
    /\ status[pm] = "live"
    /\ Len(stack[t]) < MaxDepth
    /\ ~ RunsOn(t, pm)
    /\ Exclusive => ~ InUse(pm)
    /\ stack' = [stack EXCEPT ![t] = Append(@,
            [pm |-> pm, kind |-> k, from |-> None, unit |-> None,
             by |-> None, refs |-> {}])]
    /\ UNCHANGED <<status, addr, passes, cache, poisoned, holder, pc, req, victim, stage>>

ReturnPass(t) ==
    /\ InCallback(t)
    /\ Top(t).from = None
    /\ stack' = [stack EXCEPT ![t] = Front(@)]
    /\ UNCHANGED <<status, addr, passes, cache, poisoned, holder, pc, req, victim, stage>>

\* The host frees its managers: nothing here is told.
HostFrees(pm) ==
    /\ pm \in Hosted
    /\ status[pm] = "live"
    /\ ~ InUse(pm)
    /\ status' = [status EXCEPT ![pm] = "disposed"]
    /\ UNCHANGED <<addr, passes, cache, poisoned, holder, pc, stack, req, victim, stage>>

\* The pass manager goes out of scope in the code of thread t.
BeginDrop(t, pm) ==
    /\ pc[t] = "user"
    /\ pm \notin Hosted
    /\ status[pm] = "live"
    /\ ~ InUse(pm)
    /\ status' = [status EXCEPT ![pm] = "dropping"]
    /\ victim' = [victim EXCEPT ![t] = pm]
    /\ Goto(t, "clear")
    /\ UNCHANGED <<addr, passes, cache, poisoned, holder, stack, req, stage>>

\* What map l holds for address a, and whether that is anything to free.
Nothing(l, a) ==
    IF l[2] = "passes" THEN passes[l[1]][a] = NoEntries ELSE cache[l[1]][a] = NoResults
TakeOut(l, a) ==
    IF l[2] = "passes"
      THEN passes' = [passes EXCEPT ![l[1]][a] = NoEntries] /\ UNCHANGED cache
      ELSE cache' = [cache EXCEPT ![l[1]][a] = NoResults] /\ UNCHANGED passes

\* One statement of clear_analysis_state: a poisoned map is skipped; else the
\* entry is removed and its boxes, if any, are dropped before the guard is.
ClearMap(t) ==
    LET pm == victim[t]
        l == ClearOrder[stage[pm] + 1]
        a == addr[pm][l[1]]
    IN  /\ pc[t] = "clear"
        /\ stage[pm] < Len(ClearOrder)
        /\ Unlocked(l)
        /\ \/ /\ l \in poisoned \/ Nothing(l, a)
              /\ stage' = [stage EXCEPT ![pm] = @ + 1]
              /\ UNCHANGED <<passes, cache, holder, pc>>
           \/ /\ l \notin poisoned
              /\ ~ Nothing(l, a)
              /\ TakeOut(l, a)
              /\ holder' = [holder EXCEPT ![l] = t]
              /\ Goto(t, "freeing")
              /\ UNCHANGED stage
        /\ UNCHANGED <<status, addr, poisoned, stack, req, victim>>

\* The removed boxes are freed and the guard is released.
Freed(t) ==
    LET pm == victim[t] IN
    /\ pc[t] = "freeing"
    /\ holder' = [holder EXCEPT ![ClearOrder[stage[pm] + 1]] = None]
    /\ stage' = [stage EXCEPT ![pm] = @ + 1]
    /\ Goto(t, "clear")
    /\ UNCHANGED <<status, addr, passes, cache, poisoned, stack, req, victim>>

\* The Drop of a result panics under the guard: the mutex is poisoned and the
\* unwind leaves Drop for the pass manager before llvm_pm_dispose.  That of a
\* pass runs inside an `extern "C"' deleter, where a panic ends the process.
FreePanics(t) ==
    LET l == ClearOrder[stage[victim[t]] + 1] IN
    /\ DropMayPanic
    /\ pc[t] = "freeing"
    /\ l[2] = "cache"
    /\ poisoned' = poisoned \cup {l}
    /\ holder' = [holder EXCEPT ![l] = None]
    /\ status' = [status EXCEPT ![victim[t]] = "leaked"]
    /\ victim' = [victim EXCEPT ![t] = None]
    /\ Goto(t, IF stack[t] = <<>> THEN "user" ELSE "unwind")
    /\ UNCHANGED <<addr, passes, cache, stack, req, stage>>

\* llvm_pm_dispose: both addresses go back to the allocator.
Dispose(t) ==
    /\ pc[t] = "clear"
    /\ stage[victim[t]] = Len(ClearOrder)
    /\ status' = [status EXCEPT ![victim[t]] = "disposed"]
    /\ victim' = [victim EXCEPT ![t] = None]
    /\ Goto(t, "user")
    /\ UNCHANGED <<addr, passes, cache, poisoned, holder, stack, req, stage>>

-----------------------------------------------------------------------------
\* What a callback does with its handle.

\* Mutant of AddAnalysis: the duplicate replaces what it duplicates.
AddAnalysisReplaces(t, A) ==
    LET l == PassesLock(t) IN
    /\ InCallback(t)
    /\ Unlocked(l)
    /\ \/ /\ l \in poisoned
          /\ Goto(t, "unwind")
          /\ UNCHANGED passes
       \/ /\ l \notin poisoned
          /\ passes' = [passes EXCEPT ![l[1]][Here(t)][A] = Top(t).pm]
          /\ UNCHANGED pc
    /\ UNCHANGED <<status, addr, cache, poisoned, holder, stack, req, victim, stage>>

\* add_analysis.  The duplicate is asserted under the guard, so its panic
\* poisons the mutex.
AddAnalysis(t, A) ==
    LET l == PassesLock(t) IN
    /\ InCallback(t)
    /\ Unlocked(l)
    /\ \/ /\ l \in poisoned
          /\ Goto(t, "unwind")
          /\ UNCHANGED <<passes, poisoned>>
       \/ /\ l \notin poisoned
          /\ passes[l[1]][Here(t)][A] # None
          /\ poisoned' = poisoned \cup {l}
          /\ Goto(t, "unwind")
          /\ UNCHANGED passes
       \/ /\ l \notin poisoned
          /\ passes[l[1]][Here(t)][A] = None
          /\ passes' = [passes EXCEPT ![l[1]][Here(t)][A] = Top(t).pm]
          /\ UNCHANGED <<poisoned, pc>>
    /\ UNCHANGED <<status, addr, cache, holder, stack, req, victim, stage>>

\* get_cached_result when it does not answer None, and get_result up to there:
\* the self-request guard and the poisoned cache panic, a stored result is lent.
GetCachedResult(t, A, u) ==
    LET result == cache[Top(t).kind][Here(t)][<<A, u>>] IN
    /\ InCallback(t)
    /\ \/ /\ Top(t).from = A
          /\ Goto(t, "unwind")
          /\ UNCHANGED stack
       \/ /\ Top(t).from # A
          /\ Unlocked(CacheLock(t))
          /\ CacheLock(t) \in poisoned
          /\ Goto(t, "unwind")
          /\ UNCHANGED stack
       \/ /\ Top(t).from # A
          /\ Unlocked(CacheLock(t))
          /\ CacheLock(t) \notin poisoned
          /\ result # None
          /\ stack' = [stack EXCEPT ![t] = WithRef(@, RefTo(A, u, result))]
          /\ UNCHANGED pc
    /\ UNCHANGED <<status, addr, passes, cache, poisoned, holder, req, victim, stage>>

\* Mutant of GetResultMiss: the cache is not consulted first.
GetResultRecomputes(t, A, u) ==
    /\ InCallback(t)
    /\ Len(stack[t]) < MaxDepth
    /\ Top(t).from # A
    /\ Unlocked(CacheLock(t))
    /\ CacheLock(t) \notin poisoned
    /\ req' = [req EXCEPT ![t] = <<A, u>>]
    /\ Goto(t, "lookup")
    /\ UNCHANGED <<status, addr, passes, cache, poisoned, holder, stack, victim, stage>>

\* get_result finds nothing cached; the cache guard is released.
GetResultMiss(t, A, u) ==
    /\ InCallback(t)
    /\ Len(stack[t]) < MaxDepth
    /\ Top(t).from # A
    /\ Unlocked(CacheLock(t))
    /\ CacheLock(t) \notin poisoned
    /\ cache[Top(t).kind][Here(t)][<<A, u>>] = None
    /\ req' = [req EXCEPT ![t] = <<A, u>>]
    /\ Goto(t, "lookup")
    /\ UNCHANGED <<status, addr, passes, cache, poisoned, holder, stack, victim, stage>>

\* The entrypoint runs the analysis of the missed request with a handle of
\* its own, on the pass box that `entry' registered.
CallEntrypoint(t, entry) ==
    /\ stack' = [stack EXCEPT ![t] = Append(@,
          [pm |-> Top(t).pm, kind |-> Top(t).kind, from |-> req[t][1],
           unit |-> req[t][2], by |-> entry, refs |-> {}])]
    /\ Goto(t, "user")

\* Mutant of LookupPass: the guard lives until the entrypoint returns.
LookupPassUnderLock(t) ==
    LET l == PassesLock(t)
        entry == passes[l[1]][Here(t)][req[t][1]]
    IN  /\ pc[t] = "lookup"
        /\ Unlocked(l)
        /\ \/ /\ l \in poisoned \/ entry = None
              /\ Goto(t, "unwind")
              /\ UNCHANGED <<stack, holder>>
           \/ /\ l \notin poisoned
              /\ entry # None
              /\ CallEntrypoint(t, entry)
              /\ holder' = [holder EXCEPT ![l] = t]
        /\ req' = [req EXCEPT ![t] = None]
        /\ UNCHANGED <<status, addr, passes, cache, poisoned, victim, stage>>

\* Mutant of LookupPass: a missing registration is not noticed.
LookupPassUnchecked(t) ==
    LET l == PassesLock(t) IN
    /\ pc[t] = "lookup"
    /\ Unlocked(l)
    /\ CallEntrypoint(t, passes[l[1]][Here(t)][req[t][1]])
    /\ req' = [req EXCEPT ![t] = None]
    /\ UNCHANGED <<status, addr, passes, cache, poisoned, holder, victim, stage>>

\* get_result copies the entry out of the registry, releases the guard and
\* only then calls the entrypoint.
LookupPass(t) ==
    LET l == PassesLock(t)
        entry == passes[l[1]][Here(t)][req[t][1]]
    IN  /\ pc[t] = "lookup"
        /\ Unlocked(l)
        /\ \/ /\ l \in poisoned \/ entry = None
              /\ Goto(t, "unwind")
              /\ UNCHANGED stack
           \/ /\ l \notin poisoned
              /\ entry # None
              /\ CallEntrypoint(t, entry)
        /\ req' = [req EXCEPT ![t] = None]
        /\ UNCHANGED <<status, addr, passes, cache, poisoned, holder, victim, stage>>

\* run_analysis returns and the entrypoint boxes its result.
ReturnAnalysis(t) ==
    /\ InCallback(t)
    /\ Top(t).from # None
    /\ Goto(t, "insert")
    /\ UNCHANGED <<status, addr, passes, cache, poisoned, holder, stack, req, victim, stage>>

\* get_result stores the box and lends it to the requesting callback.  What
\* the insert replaces is dropped, so freed, under the cache guard.
Insert(t) ==
    LET f == Top(t)
        cell == <<f.from, f.unit>>
        result == [id |-> FreshBox, by |-> f.by]
        old == cache[f.kind][Here(t)][cell]
    IN  /\ pc[t] = "insert"
        /\ Unlocked(CacheLock(t))
        /\ \/ /\ CacheLock(t) \in poisoned
              /\ stack' = [stack EXCEPT ![t] = Front(@)]
              /\ Goto(t, "unwind")
              /\ UNCHANGED <<cache, holder>>
           \/ /\ CacheLock(t) \notin poisoned
              /\ \E b \in Boxes : ~ BoxInUse(b)
              /\ cache' = [cache EXCEPT ![f.kind][Here(t)][cell] = result]
              /\ IF old = None
                   THEN /\ stack' = [stack EXCEPT ![t] =
                               WithRef(Front(@), RefTo(f.from, f.unit, result))]
                        /\ Goto(t, "user")
                        /\ UNCHANGED holder
                   ELSE /\ holder' = [holder EXCEPT ![CacheLock(t)] = t]
                        /\ Goto(t, "dropold")
                        /\ UNCHANGED stack
        /\ UNCHANGED <<status, addr, passes, poisoned, req, victim, stage>>

\* The replaced result is dropped, the guard released, the new one lent.
DroppedOld(t) ==
    LET f == Top(t)
        result == cache[f.kind][Here(t)][<<f.from, f.unit>>]
    IN  /\ pc[t] = "dropold"
        /\ holder' = [holder EXCEPT ![CacheLock(t)] = None]
        /\ stack' = [stack EXCEPT ![t] =
               WithRef(Front(@), RefTo(f.from, f.unit, result))]
        /\ Goto(t, "user")
        /\ UNCHANGED <<status, addr, passes, cache, poisoned, req, victim, stage>>

\* The Drop of the replaced result panics: the cache mutex is poisoned.
DropOldPanics(t) ==
    /\ DropMayPanic
    /\ pc[t] = "dropold"
    /\ holder' = [holder EXCEPT ![CacheLock(t)] = None]
    /\ poisoned' = poisoned \cup {CacheLock(t)}
    /\ stack' = [stack EXCEPT ![t] = Front(@)]
    /\ Goto(t, "unwind")
    /\ UNCHANGED <<status, addr, passes, cache, req, victim, stage>>

-----------------------------------------------------------------------------
\* Panics.
UserPanics(t) ==
    /\ InCallback(t)
    /\ Goto(t, "unwind")
    /\ UNCHANGED <<status, addr, passes, cache, poisoned, holder, stack, req, victim, stage>>

\* The unwind leaves the innermost callback: an analysis unwinds on into its
\* requester and stores nothing, a pass ends at the catch_unwind of its
\* trampoline, which answers PreservedAnalyses::None.
Unwind(t) ==
    /\ pc[t] = "unwind"
    /\ stack' = [stack EXCEPT ![t] = Front(@)]
    /\ Goto(t, IF Top(t).from = None THEN "user" ELSE "unwind")
    /\ UNCHANGED <<status, addr, passes, cache, poisoned, holder, req, victim, stage>>

\* The code of the callback catches a panic of something it called.
UserCatches(t) ==
    /\ pc[t] = "unwind"
    /\ Goto(t, "user")
    /\ UNCHANGED <<status, addr, passes, cache, poisoned, holder, stack, req, victim, stage>>

-----------------------------------------------------------------------------
\* Steps the library takes by itself once it was called.
LibraryStep(t) ==
    \/ LookupPass(t) \/ Insert(t) \/ DroppedOld(t) \/ DropOldPanics(t)
    \/ ClearMap(t) \/ Freed(t) \/ FreePanics(t) \/ Dispose(t)
    \/ Unwind(t) \/ UserCatches(t)

\* Steps the code of the user decides on.
UserStep(t) ==
    \/ \E pm \in PMs : BeginDrop(t, pm)
    \/ \E pm \in PMs, k \in UsedKinds : EnterPass(t, pm, k)
    \/ ReturnPass(t)
    \/ \E A \in Analyses : AddAnalysis(t, A)
    \/ \E A \in Analyses, u \in Units : GetCachedResult(t, A, u)
    \/ \E A \in Analyses, u \in Units : GetResultMiss(t, A, u)
    \/ ReturnAnalysis(t)
    \/ UserPanics(t)

Next ==
    \/ \E pm \in PMs : Create(pm) \/ HostFrees(pm)
    \/ \E t \in Threads : LibraryStep(t) \/ UserStep(t)

\* Every thread is scheduled and the user's Drop returns or panics.
Fairness == \A t \in Threads : WF_vars(LibraryStep(t))

Spec == Init /\ [][Next]_vars
FairSpec == Spec /\ Fairness
-----------------------------------------------------------------------------
\* Every variable holds a value of its kind.
TypeOK ==
    /\ status \in [PMs -> Statuses]
    /\ addr \in [PMs -> [Kinds -> Addrs \cup {None}]]
    /\ passes \in [Kinds -> [Addrs -> [Analyses -> PMs \cup {None}]]]
    /\ cache \in [Kinds -> [Addrs -> [Cells -> Result \cup {None}]]]
    /\ poisoned \subseteq Locks
    /\ holder \in [Locks -> Threads \cup {None}]
    /\ pc \in [Threads -> PCs]
    /\ stack \in [Threads -> Seq(Frame)]
    /\ req \in [Threads -> Cells \cup {None}]
    /\ victim \in [Threads -> PMs \cup {None}]
    /\ stage \in [PMs -> 0 .. Len(ClearOrder)]

\* The answer stored for a cell of the manager a callback f works with.
Stored(f, A, u) == cache[f.kind][addr[f.pm][f.kind]][<<A, u>>]
Registered(f, A) == passes[f.kind][addr[f.pm][f.kind]][A]

\* What a callback is served comes from its own pass manager: the pass box it
\* runs was registered with that manager, and every result lent to it was
\* computed by a pass so registered, although both maps are keyed by an
\* address that earlier managers may have had.  Only a manager of a plugin's
\* host may have left behind what it is served.
ServedByOwner ==
    \A t \in Threads : \A i \in DOMAIN stack[t] :
        /\ stack[t][i].by \in {None, stack[t][i].pm} \cup Hosted
        /\ \A r \in stack[t][i].refs : r.by \in {stack[t][i].pm} \cup Hosted

\* A reference get_result or get_cached_result returned stays good for as
\* long as the callback it was lent to runs: the very box is still owned by
\* the cache, whatever nested requests computed, replaced or panicked since.
RefsLive ==
    \A t \in Threads : \A i \in DOMAIN stack[t] : \A r \in stack[t][i].refs :
        Stored(stack[t][i], r.an, r.unit) = [id |-> r.id, by |-> r.by]

\* The pass box get_result copied out of the registry before it released the
\* lock is still registered, hence not freed, while its run_analysis runs.
RunningPassRegistered ==
    \A t \in Threads : \A i \in DOMAIN stack[t] :
        stack[t][i].from # None =>
            Registered(stack[t][i], stack[t][i].from) = stack[t][i].by

\* No entry outlives its manager, unless that was a host's: in a map that is
\* not poisoned every other pass and result belongs to the manager that still
\* has its address, whatever the managers of hosts left beside it.
NoStaleEntries ==
    \A k \in Kinds, a \in Addrs :
        /\ <<k, "passes">> \notin poisoned =>
            \A A \in Analyses :
                LET q == passes[k][a][A] IN
                q \notin {None} \cup Hosted => Allocated(q) /\ addr[q][k] = a
        /\ <<k, "cache">> \notin poisoned =>
            \A c \in Cells :
                LET res == cache[k][a][c] IN
                res # None /\ res.by \notin Hosted
                    => Allocated(res.by) /\ addr[res.by][k] = a

\* Code of a pass or an analysis runs with no mutex of the registry or of the
\* cache held by its thread, so that it may request other analyses and a panic
\* of its own poisons nothing.
CallbacksHoldNoLock ==
    \A t \in Threads : InCallback(t) => \A l \in Locks : holder[l] # t

\* What was registered with a manager, or cached for it, stays until its own
\* drop: no other manager's drop reaches it, not even through a reused address.
KeptUntilDropStep ==
    \A pm \in PMs, k \in Kinds :
        status[pm] = "live" /\ status'[pm] = "live" =>
            /\ \A A \in Analyses :
                passes[k][addr[pm][k]][A] # None =>
                    passes'[k][addr[pm][k]][A] = passes[k][addr[pm][k]][A]
            /\ \A c \in Cells :
                cache[k][addr[pm][k]][c] # None => cache'[k][addr[pm][k]][c] # None
KeptUntilDrop == [][KeptUntilDropStep]_vars

\* The tables of AnalysisTables: a manager has them while it is live, behind
\* mutexes that are not poisoned.
Life(pm) ==
    IF status[pm] \in {"unborn", "live"} THEN status[pm] ELSE "gone"
RegisteredWith(pm) ==
    [k \in Kinds |-> IF status[pm] = "live" /\ <<k, "passes">> \notin poisoned
                       THEN passes[k][addr[pm][k]] ELSE NoEntries]
StoredFor(pm) ==
    [k \in Kinds |-> IF status[pm] = "live" /\ <<k, "cache">> \notin poisoned
                       THEN cache[k][addr[pm][k]] ELSE NoResults]
Tables == INSTANCE AnalysisTables WITH
    life <- [pm \in PMs |-> Life(pm)],
    registered <- [pm \in PMs |-> RegisteredWith(pm)],
    results <- [pm \in PMs |-> StoredFor(pm)],
    broken <- poisoned

\* The maps of the process, keyed by addresses that are handed out again and
\* cleared one lock at a time, serve every manager as if it had tables of its
\* own: they are empty when it starts, but for what a host has left; only its
\* callbacks fill them, an analysis is registered once, a result is stored in
\* a box of its own and comes from what is registered; and they empty only
\* when it ends or when a panic under the mutex breaks that sort of table.
TablesOfTheirOwn == Tables!Spec

\* Every call into the library returns to code of the user or panics into it:
\* a nested request, and a drop that runs beside other managers, never block.
CallsReturn == \A t \in Threads : (pc[t] # "user") ~> (pc[t] = "user")

-----------------------------------------------------------------------------
\* What comments and documents say and the code does not keep; each is
\* refuted by a run of its own.

\* get_result: "Analysis cannot request its own result".
NoReentry ==
    \A t \in Threads : \A i, j \in DOMAIN stack[t] :
        i < j /\ stack[t][i].from # None /\ stack[t][i].pm = stack[t][j].pm
            => <<stack[t][i].from, stack[t][i].unit>>
                 # <<stack[t][j].from, stack[t][j].unit>>

\* SAFETY_AUDIT.md: that each manager's drop clears its entries eliminates
\* stale results and passes.  A callback is served by its own manager only.
ServedByOwnManager ==
    \A t \in Threads : \A i \in DOMAIN stack[t] :
        /\ stack[t][i].by \in {None, stack[t][i].pm}
        /\ \A r \in stack[t][i].refs : r.by = stack[t][i].pm

\* clear_analysis_state: disposing a manager frees every registered pass and
\* every result of it.
DisposedLeavesNothing ==
    \A pm \in PMs : status[pm] = "disposed" =>
        \A k \in Kinds, a \in Addrs :
            /\ \A A \in Analyses : passes[k][a][A] # pm
            /\ \A c \in Cells : cache[k][a][c] # None => cache[k][a][c].by # pm
=============================================================================
