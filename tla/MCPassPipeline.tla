--------------------------- MODULE MCPassPipeline ---------------------------
(***************************************************************************)
(* A small instance of PassPipeline for TLC: two functions that call each  *)
(* other, a third on its own, three user passes, one of them an analysis.  *)
(***************************************************************************)
EXTENDS PassPipeline

CONSTANTS f, g, h, p, q, r

MCFunctions == {f, g, h}
MCSCCs == {{f, g}, {h}}
MCPasses == {p, q, r}
MCAdapters == {q}

\* The functions of the SCC are interchangeable, as are the two other passes.
Symmetric == Permutations({f, g}) \cup Permutations({p, r})
=============================================================================
