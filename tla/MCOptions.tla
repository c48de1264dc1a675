------------------------------ MODULE MCOptions ------------------------------
(* A small instance of Options for TLC. *)
EXTENDS Options

\* One version on either side of each #if that the module looks at.
MCVersions == {10, 11, 14, 22, 23}
MCLevels == {"O0", "O3", "Os", "Oz"}
\* A point for each version since when points exist, of either kind.
MCEPs == {"PipelineStart", "Peephole", "OptimizerEarly", "OptimizerLast"}
\* With two instcombines on the way, and with none.
MCRoutes == {<<"PipelineStart", "Peephole", "Peephole", "OptimizerEarly", "OptimizerLast">>,
             <<"PipelineStart", "OptimizerLast">>}
\* One that parses, one refused half-way, one refused as a whole, and one that
\* names a default pipeline.
MCTexts == {[elems |-> <<"p", "q">>, wrapped |-> FALSE],
            [elems |-> <<"q", "unknown">>, wrapped |-> FALSE],
            [elems |-> <<"p", "unknown">>, wrapped |-> TRUE],
            [elems |-> <<"default", "p">>, wrapped |-> FALSE]}
=============================================================================
