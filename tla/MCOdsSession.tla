--------------------------- MODULE MCOdsSession ---------------------------
(* Instances of OdsSession for TLC: two stars, the last of them with a table *)
(* part, as DIM_Клиенты and FACT_Продажи are.                                *)
EXTENDS OdsSession

CONSTANTS d1, d2

MCDocs == {d1, d2}
MCStarOf == [d \in MCDocs |-> IF d = d1 THEN 1 ELSE 2]
MCLined == {2}

============================================================================
