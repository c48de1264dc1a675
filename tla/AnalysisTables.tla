--------------------------- MODULE AnalysisTables ---------------------------
(***************************************************************************)
(* What the CGSCC and loop analysis managers of llvm-pm promise, without   *)
(* the addresses, the mutexes, the callbacks and the steps of a drop: each *)
(* pass manager has, for either kind, a table of registered analyses and a *)
(* table of results of its own, from its creation to the start of its      *)
(* drop.  AnalysisManagers implements this.                                *)
(***************************************************************************)
EXTENDS FiniteSets

CONSTANTS
    PMs,        \* pass managers
    Hosted,     \* those of a host that has loaded a plugin
    Analyses,   \* TypeIds of analysis types
    Units,      \* IR keys
    Boxes,      \* identities of heap boxes that hold a result
    None        \* absent value

Kinds == {"cgscc", "loop"}
Cells == Analyses \X Units

VARIABLES
    life,       \* "unborn", "live" or "gone"
    registered, \* registered[pm][k][A]: the manager whose pass box it is
    results,    \* results[pm][k][<<A, u>>]: the result stored
    broken      \* the kinds of table that a panic has made unavailable

vars == <<life, registered, results, broken>>

Blank(S) == [k \in Kinds |-> [x \in S |-> None]]

Init ==
    /\ life = [pm \in PMs |-> "unborn"]
    /\ registered = [pm \in PMs |-> Blank(Analyses)]
    /\ results = [pm \in PMs |-> Blank(Cells)]
    /\ broken = {}

\* A new manager has empty tables, or finds what managers of a host have left.
Create(pm) ==
    /\ life[pm] = "unborn"
    /\ life' = [life EXCEPT ![pm] = "live"]
    /\ \E p \in [Kinds -> [Analyses -> Hosted \cup {None}]] :
          registered' = [registered EXCEPT ![pm] = p]
    /\ \E c \in [Kinds -> [Cells -> [id : Boxes, by : Hosted] \cup {None}]] :
          results' = [results EXCEPT ![pm] = c]
    /\ UNCHANGED broken

\* add_analysis, once for each analysis of a manager.
Register(pm, k, A) ==
    /\ life[pm] = "live"
    /\ <<k, "passes">> \notin broken
    /\ registered[pm][k][A] = None
    /\ registered' = [registered EXCEPT ![pm][k][A] = pm]
    /\ UNCHANGED <<life, results, broken>>

\* get_result stores what the registered analysis has computed, in a box that
\* holds no other result.
Store(pm, k, A, u) ==
    /\ life[pm] = "live"
    /\ <<k, "cache">> \notin broken
    /\ \E b \in Boxes, q \in {pm} \cup Hosted :
        /\ <<k, "passes">> \notin broken => registered[pm][k][A] = q
        /\ \A p \in PMs, j \in Kinds, c \in Cells :
              results[p][j][c] # None => results[p][j][c].id # b
        /\ results' = [results EXCEPT ![pm][k][<<A, u>>] = [id |-> b, by |-> q]]
    /\ UNCHANGED <<life, registered, broken>>

\* The manager goes, and its tables with it.
End(pm) ==
    /\ life[pm] = "live"
    /\ life' = [life EXCEPT ![pm] = "gone"]
    /\ registered' = [registered EXCEPT ![pm] = Blank(Analyses)]
    /\ results' = [results EXCEPT ![pm] = Blank(Cells)]
    /\ UNCHANGED broken

\* A panic while a table is changed makes the tables of its sort and kind
\* unavailable, those of every manager.
Break(k, sort) ==
    /\ broken' = broken \cup {<<k, sort>>}
    /\ registered' = IF sort = "passes"
         THEN [pm \in PMs |-> [registered[pm] EXCEPT ![k] = [A \in Analyses |-> None]]]
         ELSE registered
    /\ results' = IF sort = "cache"
         THEN [pm \in PMs |-> [results[pm] EXCEPT ![k] = [c \in Cells |-> None]]]
         ELSE results
    /\ UNCHANGED life

Next ==
    \/ \E pm \in PMs : Create(pm) \/ End(pm)
    \/ \E pm \in PMs, k \in Kinds, A \in Analyses : Register(pm, k, A)
    \/ \E pm \in PMs, k \in Kinds, A \in Analyses, u \in Units : Store(pm, k, A, u)
    \/ \E k \in Kinds, sort \in {"passes", "cache"} : Break(k, sort)

Spec == Init /\ [][Next]_vars
=============================================================================
