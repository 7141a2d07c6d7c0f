---------------------------- MODULE StarTables ----------------------------
(***************************************************************************)
(* The statements that the star procedures sp_<star>_t, _r and _p run on    *)
(* sets of rows, shared by the models of the PostgreSQL and of the SQL      *)
(* Server procedures.                                                       *)
(*                                                                          *)
(* A row of a star or of its table part keeps its natural key nkey (vkey is *)
(* always equal to it), the key ref of its document ("RefID" or             *)
(* "<star>RefID"), the version of the message it came from instead of the   *)
(* payload, and cur, which is end_date = mq.fn_GetMaxDate().  Rows of       *)
(* target.* carry id, rows of staging.* carry staging_id and id (0 = NULL). *)
(***************************************************************************)
EXTENDS Naturals, FiniteSets, Functions

IdsOf(T) == {t.id : t \in T}

(* m is MAX(id) of the table, 0 when it has no row.                          *)
IsLastId(m, T) ==
  /\ \A i \in IdsOf(T) : i <= m
  /\ IF T = {} THEN m = 0 ELSE m \in IdsOf(T)

(* The values of an identity column for the rows H, inserted in any order,   *)
(* when the last value it gave is n.                                         *)
Numberings(H, n) == Injection(H, (n + 1)..(n + Cardinality(H)))

(* INSERT staging.<table> ... SELECT from the history of the session.        *)
StagedRows(H, f) ==
  {[sid |-> f[h], id |-> 0, nkey |-> h.nkey, ref |-> h.ref, ver |-> h.ver, cur |-> TRUE] : h \in H}

(* Current rows of the target with the natural key of a staged row.          *)
Matches(s, T) == {t \in T : t.cur /\ t.nkey = s.nkey}

(* UPDATE staging SET id = COALESCE(target.id, staging_id): when several      *)
(* rows match, the statement takes any of them.                              *)
IdChoices(s, T) == IF Matches(s, T) = {} THEN {s.sid} ELSE IdsOf(Matches(s, T))

Rekeyings(S, T) ==
  {k \in [S -> UNION {IdChoices(s, T) : s \in S}] : \A s \in S : k[s] \in IdChoices(s, T)}

RekeyedRows(S, k) == {[s EXCEPT !.id = k[s]] : s \in S}

(* Current target rows with the key of a staged row and another id: they are *)
(* staged once more with the session's date as end_date.                     *)
Superseded(S, T) == {t \in T : t.cur /\ \E s \in S : s.nkey = t.nkey /\ s.id # t.id}

ClosingRows(C, f) ==
  {[sid |-> f[t], id |-> t.id, nkey |-> t.nkey, ref |-> t.ref, ver |-> t.ver, cur |-> FALSE] : t \in C}

(* DELETE target.<table part> of the documents staged.                       *)
WithoutLinesOf(L, S) == {l \in L : \A s \in S : l.ref # s.ref}

(* UPDATE staging.<table part> SET id = staging_id.                          *)
OwnIds(S) == {[s EXCEPT !.id = s.sid] : s \in S}

(* UPDATE target SET ... FROM staging WHERE stg.id = trg.id, every column but *)
(* the keys: a row with several sources takes any of them.                   *)
Sources(t, S) == {s \in S : s.id = t.id}

Updates(T, S) ==
  LET touched == {t \in T : Sources(t, S) # {}}
  IN {p \in [touched -> UNION {Sources(t, S) : t \in touched}] :
        \A t \in touched : p[t] \in Sources(t, S)}

UpdatedRow(t, p) ==
  IF t \in DOMAIN p THEN [t EXCEPT !.ref = p[t].ref, !.ver = p[t].ver, !.cur = p[t].cur] ELSE t

UpdatedRows(T, p) == {UpdatedRow(t, p) : t \in T}

(* The rows of INSERT target ... SELECT FROM staging WHERE staging_id = id.  *)
NewRows(S) ==
  {[id |-> s.id, nkey |-> s.nkey, ref |-> s.ref, ver |-> s.ver, cur |-> s.cur] :
     s \in {x \in S : x.sid = x.id}}

(* PRIMARY KEY (id) and the unique index on nkey hold.                       *)
KeysUnique(T) == \A t, u \in T : t.id = u.id \/ t.nkey = u.nkey => t = u

(* The INSERT of N into T violates neither.                                  *)
Insertable(T, N) ==
  /\ \A n \in N, t \in T : n.id # t.id /\ n.nkey # t.nkey
  /\ KeysUnique(N)
============================================================================
