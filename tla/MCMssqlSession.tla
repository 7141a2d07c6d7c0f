-------------------------- MODULE MCMssqlSession --------------------------
(* MssqlSession for TLC: a dimension and a fact with a table part, or two    *)
(* documents of the fact.                                                    *)
EXTENDS MssqlSession

CONSTANTS d1, d2

MCDocs == {d1, d2}
TwoStars == [d \in MCDocs |-> IF d = d1 THEN 1 ELSE 2]
OneStar == [d \in MCDocs |-> 1]
============================================================================
