--------------------------- MODULE Instrumentation ---------------------------
(***************************************************************************)
(* The pass instrumentation of one C++ bundle (llvm_pm.cpp): which         *)
(* PassInstrumentationCallbacks (PIC) and StandardInstrumentations (SI)    *)
(* exist, who points to them, and the order in which the destructor of the *)
(* bundle takes everything down.                                           *)
(*                                                                         *)
(* Passes do not look at the bundle's PIC: they ask their analysis manager *)
(* for the result of PassInstrumentationAnalysis, which holds the PIC that *)
(* was current when that analysis was REGISTERED, and which the manager    *)
(* keeps for every unit of IR it has run on.  An SI registers callbacks    *)
(* that point back to it with one PIC and, from LLVM 16 on, keeps a        *)
(* reference to the LLVMContext it was made for.                           *)
(***************************************************************************)
EXTENDS Naturals, SequencesExt

CONSTANTS
    Contexts,       \* addresses of LLVMContexts; a new one may take an old one's
    Units,          \* modules and functions that are run on
    Versions,       \* the LLVM major versions the bundle may be built against
    None,           \* null pointer
    MaxObjects      \* bound: PICs, and SIs, made by one bundle

ASSUME NoneAssumption == None \notin Contexts /\ None \notin Units /\ None \notin Nat
ASSUME BoundAssumption == Versions \subseteq Nat /\ MaxObjects \in Nat \ {0}

Managers == {"MAM", "CGAM", "FAM", "LAM"}
\* The managers whose results refer to, and on their destruction clear, the
\* next inner manager (crossRegisterProxies).
Proxies == {<<"MAM", "CGAM">>, <<"MAM", "FAM">>, <<"FAM", "LAM">>}

VARIABLES
    version,        \* LLVM_VERSION_MAJOR of this build
    phase,          \* "unborn", "idle", "running", "destroying" or "gone"
    parts,          \* the members of the bundle that exist
    pic, si,        \* the current PIC and SI of the bundle
    siCtx,          \* SICtx: the context of the last run
    retired,        \* RetiredPICs and RetiredSIs
    registered,     \* the PIC that the managers' analysis was registered with
    results,        \* [man, unit, pic]: cached PassInstrumentation results
    proxied,        \* the proxies that hold a result
    made,           \* how many PICs and SIs were allocated
    callbacks,      \* callbacks[p]: the SIs registered with PIC p
    madeFor,        \* madeFor[s]: the context SI s was made for
    running         \* the context of the current run

vars == <<version, phase, parts, pic, si, siCtx, retired, registered, results,
          proxied, made, callbacks, madeFor, running>>

Objects == 1 .. MaxObjects
HasSI == version >= 11

Init ==
    /\ version \in Versions
    /\ phase = "unborn"
    /\ parts = {}
    /\ pic = None /\ si = None /\ siCtx = None
    /\ retired = [pics |-> <<>>, sis |-> <<>>]
    /\ registered = None
    /\ results = {}
    /\ proxied = {}
    /\ made = [pics |-> 0, sis |-> 0]
    /\ callbacks = [p \in Objects |-> {}]
    /\ madeFor = [s \in Objects |-> None]
    /\ running = None

-----------------------------------------------------------------------------
Pointees(p) == {p} \ {None}
LivePICs == Pointees(pic) \cup Range(retired.pics)
LiveSIs == Pointees(si) \cup Range(retired.sis)

\* Mutant of DestructorOrder: the analysis managers in order of declaration.
InnermostFirst == <<"MPM", "FPM", "PB", "LAM", "FAM", "CGAM", "MAM",
                    "SI", "PIC", "RetiredSIs", "RetiredPICs">>

\* The order of the resets in the bundle's destructor.
DestructorOrder == <<"MPM", "FPM", "PB", "MAM", "CGAM", "FAM", "LAM",
                     "SI", "PIC", "RetiredSIs", "RetiredPICs">>

\* createInfrastructure: PassBuilder registers the analysis with the PIC it
\* was constructed with; on LLVM 12 it gets none.
Create ==
    /\ phase = "unborn"
    /\ phase' = "idle"
    /\ parts' = Range(DestructorOrder)
    /\ pic' = 1
    /\ made' = [made EXCEPT !.pics = 1]
    /\ registered' = IF version = 12 THEN None ELSE 1
    /\ UNCHANGED <<version, si, siCtx, retired, results, proxied, callbacks,
                   madeFor, running>>

\* Mutant of Current: SI and PIC are made anew for every run.
NeverCurrent(ctx) == FALSE

\* reinitSI keeps what it has while the context's address is the same.
Current(ctx) == siCtx = ctx /\ IF HasSI THEN si # None ELSE pic # None

\* Mutant of Retire: the unique_ptrs are overwritten.
RetireNothing(r, p, s) == r

\* Mutant of Retire: a null pointer is retired like any other.
RetireNulls(r, p, s) == [pics |-> Append(r.pics, p), sis |-> Append(r.sis, s)]

\* The lists after the pair p, s has been moved to them.
Retire(r, p, s) ==
    [pics |-> r.pics \o SetToSeq(Pointees(p)), sis |-> r.sis \o SetToSeq(Pointees(s))]

\* reinitSI.  The first run finds a PIC without an SI and keeps that PIC;
\* LLVM 10 knows no SI and retires the PIC itself.  The four registerPass
\* calls at its end change nothing: the analysis is registered already.
ReinitSI(ctx) ==
    LET retires == IF HasSI THEN si # None ELSE pic # None
        newPIC == IF retires THEN made.pics + 1 ELSE pic
        newSI == IF HasSI THEN made.sis + 1 ELSE None
    IN  IF Current(ctx)
          THEN UNCHANGED <<pic, si, siCtx, retired, made, callbacks, madeFor>>
          ELSE /\ newPIC \in Objects
               /\ HasSI => newSI \in Objects
               /\ retired' = IF retires THEN Retire(retired, pic, si) ELSE retired
               /\ siCtx' = ctx
               /\ pic' = newPIC
               /\ si' = newSI
               /\ made' = [pics |-> IF retires THEN newPIC ELSE made.pics,
                           sis |-> IF HasSI THEN newSI ELSE made.sis]
               /\ callbacks' = [callbacks EXCEPT ![newPIC] = @ \cup Pointees(newSI)]
               /\ madeFor' = IF HasSI /\ version >= 16
                               THEN [madeFor EXCEPT ![newSI] = ctx] ELSE madeFor

\* llvm_pm_run, llvm_pm_run_on_function.
Run(ctx) ==
    /\ phase = "idle"
    /\ phase' = "running"
    /\ running' = ctx
    /\ ReinitSI(ctx)
    /\ UNCHANGED <<version, parts, registered, results, proxied>>

\* Before and after each pass LLVM asks the pass's manager for the unit's
\* PassInstrumentation; a result, once there, is never invalidated.
Query(man, u) ==
    /\ phase = "running"
    /\ ~ \E r \in results : r.man = man /\ r.unit = u
    /\ results' = results \cup {[man |-> man, unit |-> u, pic |-> registered]}
    /\ UNCHANGED <<version, phase, parts, pic, si, siCtx, retired, registered,
                   proxied, made, callbacks, madeFor, running>>

\* An adaptor walks from the units of one manager to those of an inner one.
UseProxy(pr) ==
    /\ phase = "running"
    /\ proxied' = proxied \cup {pr}
    /\ UNCHANGED <<version, phase, parts, pic, si, siCtx, retired, registered,
                   results, made, callbacks, madeFor, running>>

EndRun ==
    /\ phase = "running"
    /\ phase' = "idle"
    /\ running' = None
    /\ UNCHANGED <<version, parts, pic, si, siCtx, retired, registered, results,
                   proxied, made, callbacks, madeFor>>

BeginDispose ==
    /\ phase = "idle"
    /\ phase' = "destroying"
    /\ UNCHANGED <<version, parts, pic, si, siCtx, retired, registered, results,
                   proxied, made, callbacks, madeFor, running>>

\* The destructor resets the next of the bundle's members, and everything the
\* member owns goes with it.
DestroyNext == \E k \in DOMAIN DestructorOrder :
    LET part == DestructorOrder[k]
    IN  /\ phase = "destroying"
        /\ part \in parts
        /\ \A j \in 1 .. k - 1 : DestructorOrder[j] \notin parts
        /\ parts' = parts \ {part}
        /\ results' = {r \in results : r.man # part}
        /\ proxied' = {pr \in proxied : pr[1] # part}
        /\ si' = IF part = "SI" THEN None ELSE si
        /\ pic' = IF part = "PIC" THEN None ELSE pic
        /\ retired' = [pics |-> IF part = "RetiredPICs" THEN <<>> ELSE retired.pics,
                       sis |-> IF part = "RetiredSIs" THEN <<>> ELSE retired.sis]
        /\ phase' = IF parts' = {} THEN "gone" ELSE phase
        /\ UNCHANGED <<version, siCtx, registered, made, callbacks, madeFor, running>>

Next ==
    \/ Create
    \/ \E ctx \in Contexts : Run(ctx)
    \/ \E man \in Managers, u \in Units : Query(man, u)
    \/ \E pr \in Proxies : UseProxy(pr)
    \/ EndRun
    \/ BeginDispose
    \/ DestroyNext

Spec == Init /\ [][Next]_vars

-----------------------------------------------------------------------------
\* Every variable keeps a value of its kind.
TypeOK ==
    /\ version \in Versions
    /\ phase \in {"unborn", "idle", "running", "destroying", "gone"}
    /\ parts \subseteq Range(DestructorOrder)
    /\ pic \in Objects \cup {None}
    /\ si \in Objects \cup {None}
    /\ siCtx \in Contexts \cup {None}
    /\ retired \in [pics : Seq(Objects), sis : Seq(Objects)]
    /\ registered \in Objects \cup {None}
    /\ results \subseteq [man : Managers, unit : Units, pic : Objects \cup {None}]
    /\ proxied \subseteq Proxies
    /\ made \in [pics : 0 .. MaxObjects, sis : 0 .. MaxObjects]
    /\ callbacks \in [Objects -> SUBSET Objects]
    /\ madeFor \in [Objects -> Contexts \cup {None}]
    /\ running \in Contexts \cup {None}

\* The PICs that passes can still reach through their managers.
Reachable ==
    UNION ({Pointees(r.pic) : r \in results}
           \cup (IF Managers \cap parts # {} THEN {Pointees(registered)} ELSE {}))

\* No manager outlives what its results point to: neither a PIC, current or
\* retired, nor the inner manager that a proxy clears when it is destroyed
\* ("so cached PassInstrumentation analysis results do not dangle", and the
\* order of the resets in ~LlvmPmOpaquePassManager).
PointersLive ==
    /\ Reachable \subseteq LivePICs
    /\ \A pr \in proxied : pr[2] \in parts

\* While passes run, every SI whose callbacks they reach through some manager
\* still exists, however many contexts the bundle has seen (RetiredSIs).
CallbacksLive ==
    phase = "running" => \A p \in Reachable : callbacks[p] \subseteq LiveSIs

\* A run in the context of the run before retires nothing, so that repeated
\* runs do not make the lists of retired objects grow (reinitSI's early return).
RetiresOnSwitchOnly ==
    [][phase = "idle" /\ Len(retired'.pics) > Len(retired.pics) => running' # siCtx]_vars

\* What reinitSI's comment says, "Re-initialize PIC and StandardInstrumentations
\* for a run() call": the passes of a run reach the SI that is current, the one
\* made for the run's context.
RunReachesItsSI ==
    phase = "running" /\ HasSI => \E p \in Pointees(registered) : si \in callbacks[p]

=============================================================================
