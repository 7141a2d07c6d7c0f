------------------------ MODULE MCStarPublishMssql ------------------------
(* Instances of StarPublishMssql for TLC: documents whose table part grows   *)
(* and shrinks from version to version.                                      *)
EXTENDS StarPublishMssql

CONSTANTS d1, d2

MCDocs == {d1, d2}
MCDoubled == {d2}

(* Lines in versions 1, 2, 3: none, one, none.                               *)
Fact == [d \in MCDocs |-> [v \in 1..MaxVer |-> (v + 1) % 2]]
============================================================================
