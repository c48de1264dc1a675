------------------------- MODULE MCAnalysisManagers -------------------------
(* Instances of AnalysisManagers for TLC. *)
EXTENDS AnalysisManagers

\* Threads, addresses and analyses are interchangeable, as are the managers of
\* hosts and the others.
Symmetric == Permutations(Threads)
             \cup Permutations(Hosted) \cup Permutations(PMs \ Hosted)
             \cup Permutations(Addrs) \cup Permutations(Analyses)
=============================================================================
