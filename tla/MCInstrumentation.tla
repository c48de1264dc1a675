------------------------- MODULE MCInstrumentation -------------------------
(***************************************************************************)
(* A small instance of Instrumentation for TLC.                            *)
(***************************************************************************)
EXTENDS Instrumentation

CONSTANTS c1, c2, u1, u2

MCContexts == {c1, c2}
MCUnits == {u1, u2}
\* One version for each variant of the code that differs here.
AllVersions == {10, 11, 12, 13, 16}
Latest == {16}
=============================================================================
