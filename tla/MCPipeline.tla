---------------------------- MODULE MCPipeline ----------------------------
(* Pipeline for TLC: a dimension and a fact with a table part.               *)
EXTENDS Pipeline

CONSTANTS d1, d2

MCDocs == {d1, d2}
MCStarOf == [d \in MCDocs |-> IF d = d1 THEN 1 ELSE 2]
MCFacts == {2}
============================================================================
