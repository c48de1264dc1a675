----------------------------- MODULE OwnedBoxes -----------------------------
(***************************************************************************)
(* What every `Box::into_raw' of llvm-pm promises about the box it hands   *)
(* to C++: it is made once, called only while it is alive, and freed at    *)
(* most once, never in the middle of a call.  The components that hand     *)
(* out boxes implement this specification.                                 *)
(***************************************************************************)
CONSTANT Boxes      \* the boxes the program may make

VARIABLES
    made,           \* boxes that were made
    freed,          \* those that were freed since
    used            \* boxes that a callback is running on

vars == <<made, freed, used>>

Init == made = {} /\ freed = {} /\ used = {}

\* Any number of boxes is made or freed at once, when their owner is.
Next ==
    /\ made' \in {made \cup S : S \in SUBSET Boxes}
    /\ freed' \in {freed \cup S : S \in SUBSET (made \ used)}
    /\ used' \subseteq made' \ freed'

Spec == Init /\ [][Next]_vars
=============================================================================
