--------------------------- MODULE MCStarPublish ---------------------------
(* Instances of StarPublish for TLC: of two documents, d1 gets a table part  *)
(* in its last version.                                                      *)
EXTENDS StarPublish

CONSTANTS d1, d2

MCDocs == {d1, d2}

Late == [d \in MCDocs |-> [v \in 1..MaxVer |-> IF d = d1 /\ v = MaxVer THEN 2 ELSE 0]]
============================================================================
