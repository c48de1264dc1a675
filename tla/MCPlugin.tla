------------------------------ MODULE MCPlugin ------------------------------
(***************************************************************************)
(* A small instance of Plugin for TLC: two closures, two passes, of which  *)
(* a module pipeline takes both and a function pipeline one.               *)
(***************************************************************************)
EXTENDS Plugin, TLC

CONSTANTS c1, c2, fnPass, sccPass, B1, B2, P1, P2

MCClosures == {c1, c2}
MCPasses == {fnPass, sccPass}
MCPassLevel == fnPass :> "function" @@ sccPass :> "cgscc"
MCBuilders == {B1, B2}
MCPipes == {P1, P2}
Symmetric == Permutations(MCClosures) \cup Permutations(MCBuilders)
             \cup Permutations(MCPipes)
=============================================================================
