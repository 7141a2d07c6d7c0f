----------------------------- MODULE Warehouse -----------------------------
(***************************************************************************)
(* What publishing a star promises to a reader of target.* (the report      *)
(* views and Metabase), whatever the tables, keys and transactions behind   *)
(* it: sessions are applied one at a time and entirely, a document never    *)
(* steps back to an older version, and the rows of its table part are those *)
(* of the version shown, or are missing while a session that holds the      *)
(* document is being published.                                             *)
(***************************************************************************)
EXTENDS Naturals

CONSTANTS
  Docs,      \* documents or catalogue items of the star
  MaxVer     \* bound: versions of a document

VARIABLES
  shown,     \* version of the document in target.<star>, 0 when it has no row
  parts,     \* version its table part shows, 0 when rows of it are missing
  batch,     \* the session being published: version of each document, 0 if absent
  busy       \* a session is being published

wvars == <<shown, parts, batch, busy>>

Versions == 0..MaxVer
InBatch == {d \in Docs : batch[d] # 0}

TypeOK ==
  /\ shown \in [Docs -> Versions]
  /\ parts \in [Docs -> Versions]
  /\ batch \in [Docs -> Versions]
  /\ busy \in BOOLEAN

Init ==
  /\ shown = [d \in Docs |-> 0]
  /\ parts = [d \in Docs |-> 0]
  /\ batch = [d \in Docs |-> 0]
  /\ busy = FALSE

(* The next session is handed over; it holds newer versions only.           *)
Accept ==
  /\ ~busy
  /\ busy' = TRUE
  /\ batch' \in [Docs -> Versions]
  /\ \A d \in Docs : batch'[d] # 0 => batch'[d] > shown[d]
  /\ UNCHANGED <<shown, parts>>

(* Some documents of the session take their new version; the table parts of  *)
(* some are complete, the table parts of the others are missing.             *)
Apply ==
  /\ busy
  /\ \E D, E \in SUBSET InBatch :
       /\ shown' = [d \in Docs |-> IF d \in D THEN batch[d] ELSE shown[d]]
       /\ parts' = [d \in Docs |-> IF d \in E THEN 0 ELSE shown'[d]]
  /\ UNCHANGED <<batch, busy>>

(* The session is closed when all of it is shown.                            *)
Close ==
  /\ busy
  /\ \A d \in InBatch : shown[d] = batch[d] /\ parts[d] = batch[d]
  /\ busy' = FALSE
  /\ UNCHANGED <<shown, parts, batch>>

Next == Accept \/ Apply \/ Close

Spec == Init /\ [][Next]_wvars
============================================================================
