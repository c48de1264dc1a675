------------------------------- MODULE Plugin -------------------------------
(***************************************************************************)
(* The plugin API (plugin.rs and the second half of llvm_pm.cpp): a host   *)
(* such as opt or clang loads the plugin, whose registrar gives closures   *)
(* to the host's PassBuilder; the host calls them while it parses and      *)
(* builds pipelines, and the closures add passes to those pipelines, which *)
(* the host runs, merges into one another and destroys as it likes.        *)
(*                                                                         *)
(* Closures and passes are boxes that Rust has given away: the last        *)
(* shared_ptr to one calls its deleter.  The host is external; it does     *)
(* what LLVM's PassBuilder does, which includes parsing an element into a  *)
(* pipeline that it throws away, only to see whether its name is known.    *)
(***************************************************************************)
EXTENDS Naturals, SequencesExt

CONSTANTS
    Closures,       \* boxes of callbacks
    Passes,         \* boxes of passes
    PassLevel,      \* PassLevel[p]: the trait that pass p implements
    Builders,       \* PassBuilders of the host
    Pipes,          \* addresses of the host's pass managers
    None            \* absent value

Boxes == Closures \cup Passes
Levels == {"module", "cgscc", "function", "loop"}

ASSUME NoneAssumption == None \notin Boxes \cup Builders \cup Pipes
ASSUME BoxesAssumption ==
    Closures \cap Passes = {} /\ PassLevel \in [Passes -> Levels]

VARIABLES
    made,           \* boxes given away by Box::into_raw
    deleted,        \* deleted[b]: calls of b's deleter
    builders,       \* "unborn", "live" or "gone"
    registered,     \* registered[B][k]: B's callbacks of kind k, oldest first
    pipes,          \* the host's pass managers
    host,           \* what the host is doing, and the boxes it has yet to call
    call            \* the box being called, or None

vars == <<made, deleted, builders, registered, pipes, host, call>>

\* The kinds of callback: pipeline parsing, extension points (taken as one) and
\* analyses, each for module and for function pipelines.
Kinds == {"parse", "ep", "analyses"} \X {"mpm", "fpm"}

NoCallbacks == [k \in Kinds |-> <<>>]
NoPipe == [state |-> "none", of |-> "mpm", passes |-> <<>>]
Idle == [doing |-> "idle", builder |-> None, pipe |-> None, todo |-> <<>>,
         probe |-> FALSE, utf8 |-> TRUE]

Init ==
    /\ made = {}
    /\ deleted = [b \in Boxes |-> 0]
    /\ builders = [B \in Builders |-> "unborn"]
    /\ registered = [B \in Builders |-> NoCallbacks]
    /\ pipes = [P \in Pipes |-> NoPipe]
    /\ host = Idle
    /\ call = None

-----------------------------------------------------------------------------
\* Mutant of Owned: the closure or pass is leaked, as a borrowed one would be.
Borrowed(S) == {}

\* Of the boxes a dying C++ object refers to, those it frees: all, each
\* through the shared_ptr it holds.
Owned(S) == S

Delete(S) == deleted' = [b \in Boxes |-> deleted[b] + IF b \in Owned(S) THEN 1 ELSE 0]

\* plugin_registrar: a new PassBuilder is handed to the registrar.
Load(B) ==
    /\ host = Idle
    /\ builders[B] = "unborn"
    /\ builders' = [builders EXCEPT ![B] = "live"]
    /\ host' = [Idle EXCEPT !.doing = "registrar", !.builder = B]
    /\ UNCHANGED <<made, deleted, registered, pipes, call>>

\* One of the add_*_callback methods of PassBuilder.
AddCallback(c, k) ==
    /\ host.doing = "registrar"
    /\ c \notin made
    /\ made' = made \cup {c}
    /\ registered' = [registered EXCEPT ![host.builder][k] = Append(@, c)]
    /\ UNCHANGED <<deleted, builders, pipes, host, call>>

EndRegistrar ==
    /\ host.doing = "registrar"
    /\ host' = Idle
    /\ UNCHANGED <<made, deleted, builders, registered, pipes, call>>

\* The host parses an element, reaches an extension point or registers its
\* analyses: it will call the builder's callbacks for that, oldest first.
Begin(B, what, of, P, probe, utf8) ==
    /\ host = Idle
    /\ builders[B] = "live"
    /\ what # "parse" => ~probe /\ utf8
    /\ IF what = "analyses"
         THEN P = None /\ UNCHANGED pipes
         ELSE /\ P # None /\ pipes[P] = NoPipe
              /\ pipes' = [pipes EXCEPT ![P] = [NoPipe EXCEPT !.state = "building", !.of = of]]
    /\ host' = [doing |-> what, builder |-> B, pipe |-> P, probe |-> probe,
                utf8 |-> utf8, todo |-> registered[B][<<what, of>>]]
    /\ UNCHANGED <<made, deleted, builders, registered, call>>

\* callback_entrypoint up to the call; the same step enters a pass in a run.
Enter ==
    /\ host.todo # <<>> /\ call = None
    /\ host.utf8
    /\ call' = Head(host.todo)
    /\ host' = [host EXCEPT !.todo = Tail(@)]
    /\ UNCHANGED <<made, deleted, builders, registered, pipes>>

\* A name that is not UTF-8 is answered NotParsed without calling the closure.
RejectName ==
    /\ host.todo # <<>> /\ call = None
    /\ ~host.utf8
    /\ host' = [host EXCEPT !.todo = Tail(@)]
    /\ UNCHANGED <<made, deleted, builders, registered, pipes, call>>

\* Mutant of Addable: a function pipeline accepts what a module pipeline does.
AddableAnywhere(of) == Levels

\* The levels that PluginModulePassManager and PluginFunctionPassManager add.
Addable(of) == IF of = "mpm" THEN Levels ELSE {"function", "loop"}

\* The closure adds a pass to the pipeline it was given.
AddPass(p) ==
    /\ call \in Closures /\ host.pipe # None
    /\ PassLevel[p] \in Addable(pipes[host.pipe].of)
    /\ p \notin made
    /\ made' = made \cup {p}
    /\ pipes' = [pipes EXCEPT ![host.pipe].passes = Append(@, p)]
    /\ UNCHANGED <<deleted, builders, registered, host, call>>

\* The host deletes pipeline P, and with it the passes it owns.
Destroy(P) ==
    /\ Delete(Range(pipes[P].passes))
    /\ pipes' = [pipes EXCEPT ![P] = NoPipe]

\* The closure answers Parsed: no further callback is tried.
AnswerParsed ==
    /\ call \in Closures /\ host.doing = "parse"
    /\ call' = None
    /\ host' = Idle
    /\ IF host.probe
         THEN Destroy(host.pipe)
         ELSE /\ pipes' = [pipes EXCEPT ![host.pipe].state = "ready"]
              /\ UNCHANGED deleted
    /\ UNCHANGED <<made, builders, registered>>

\* It answers NotParsed, whatever it has added, or has no answer to give; or a
\* pass returns from its trampoline, which turns a panic into an answer.
Return ==
    /\ call # None
    /\ call' = None
    /\ UNCHANGED <<made, deleted, builders, registered, pipes, host>>

\* A panic of a closure meets the extern "C" entrypoint: the process aborts.
ClosurePanics ==
    /\ call \in Closures
    /\ call' = None
    /\ host' = [Idle EXCEPT !.doing = "aborted"]
    /\ UNCHANGED <<made, deleted, builders, registered, pipes>>

\* No callback is left to try.  An element that none has parsed is an error,
\* for which the host gives the pipeline up.
Finish ==
    /\ host.doing \in {"parse", "ep", "analyses", "run"}
    /\ host.todo = <<>> /\ call = None
    /\ host' = Idle
    /\ CASE host.doing = "parse" -> Destroy(host.pipe)
         [] host.doing = "ep" ->
                /\ pipes' = [pipes EXCEPT ![host.pipe].state = "ready"]
                /\ UNCHANGED deleted
         [] OTHER -> UNCHANGED <<pipes, deleted>>
    /\ UNCHANGED <<made, builders, registered, call>>

-----------------------------------------------------------------------------
\* Mutant of MovedFrom: the wrappers hold raw pointers that a move copies.
CopiedFrom(passes) == passes

\* What a pass manager still owns after its passes were moved: the wrappers'
\* shared_ptrs are moved with them.
MovedFrom(passes) == <<>>

\* Pipeline Q is wrapped in an adaptor and added to P.
Nest(Q, P) ==
    /\ host = Idle
    /\ P # Q /\ pipes[P].state = "ready" /\ pipes[Q].state = "ready"
    /\ pipes[P].of = "mpm" \/ pipes[Q].of = "fpm"
    /\ pipes' = [pipes EXCEPT ![P].passes = @ \o pipes[Q].passes,
                              ![Q].passes = MovedFrom(@)]
    /\ UNCHANGED <<made, deleted, builders, registered, host, call>>

Run(P) ==
    /\ host = Idle
    /\ pipes[P].state = "ready"
    /\ host' = [Idle EXCEPT !.doing = "run", !.pipe = P, !.todo = pipes[P].passes]
    /\ UNCHANGED <<made, deleted, builders, registered, pipes, call>>

DestroyPipe(P) ==
    /\ host = Idle
    /\ pipes[P].state = "ready"
    /\ Destroy(P)
    /\ UNCHANGED <<made, builders, registered, host, call>>

\* The PassBuilder goes, and with it its callbacks: pipelines may survive it.
DestroyBuilder(B) ==
    /\ host = Idle
    /\ builders[B] = "live"
    /\ builders' = [builders EXCEPT ![B] = "gone"]
    /\ Delete(UNION {Range(registered[B][k]) : k \in Kinds})
    /\ registered' = [registered EXCEPT ![B] = NoCallbacks]
    /\ UNCHANGED <<made, pipes, host, call>>

Next ==
    \/ \E B \in Builders :
          \/ Load(B) \/ DestroyBuilder(B)
          \/ \E what \in {"parse", "ep", "analyses"}, of \in {"mpm", "fpm"},
                P \in Pipes \cup {None}, probe, utf8 \in BOOLEAN :
                Begin(B, what, of, P, probe, utf8)
    \/ \E c \in Closures, k \in Kinds : AddCallback(c, k)
    \/ EndRegistrar \/ Enter \/ RejectName \/ AnswerParsed \/ Return
    \/ ClosurePanics \/ Finish
    \/ \E p \in Passes : AddPass(p)
    \/ \E P \in Pipes : Run(P) \/ DestroyPipe(P) \/ \E Q \in Pipes : Nest(Q, P)

Spec == Init /\ [][Next]_vars

-----------------------------------------------------------------------------
\* Every variable keeps a value of its kind; a function pipeline holds function
\* and loop passes only.
TypeOK ==
    /\ made \subseteq Boxes
    /\ deleted \in [Boxes -> Nat]
    /\ builders \in [Builders -> {"unborn", "live", "gone"}]
    /\ registered \in [Builders -> [Kinds -> Seq(Closures)]]
    /\ pipes \in [Pipes -> [state : {"none", "building", "ready"},
                            of : {"mpm", "fpm"}, passes : Seq(Passes)]]
    /\ \A P \in Pipes : pipes[P].of = "fpm" =>
          \A p \in Range(pipes[P].passes) : PassLevel[p] \in {"function", "loop"}
    /\ host \in [doing : {"idle", "registrar", "parse", "ep", "analyses", "run", "aborted"},
                 builder : Builders \cup {None}, pipe : Pipes \cup {None},
                 todo : Seq(Boxes), probe : BOOLEAN, utf8 : BOOLEAN]
    /\ call \in Boxes \cup {None}

Ownership == INSTANCE OwnedBoxes WITH
    freed <- {b \in Boxes : deleted[b] = 1},
    used <- {call} \ {None}

\* Closures and passes are called only while they are alive and are freed once
\* at most, whichever of builder and pipelines dies first, however pipelines are
\* merged or thrown away, and however often a callback is called ("kept alive
\* by shared_ptr in C++", plugin.rs).
BoxesOwned == Ownership!Spec

\* When the host has destroyed its builders and pipelines every closure and
\* every pass it was given has been freed, those of failed and of probing
\* parses included ("will be freed by callback_deleter", plugin.rs).
NothingLeaks ==
    (/\ \A B \in Builders : builders[B] # "live"
     /\ \A P \in Pipes : pipes[P].state = "none") =>
        \A b \in made : deleted[b] > 0

=============================================================================
