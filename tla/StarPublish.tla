---------------------------- MODULE StarPublish ----------------------------
(***************************************************************************)
(* Publishing the sessions of one star in the PostgreSQL DWH.  The task     *)
(* exec_publish of a star's DAG calls three procedures in turn, each in a   *)
(* transaction of its own (autocommit):                                     *)
(*                                                                          *)
(*   sp_<star>_t   Transfer   history of the session -> staging             *)
(*   sp_<star>_r   Rekey      surrogate keys, old table-part rows deleted   *)
(*   sp_<star>_p   Publish    staging -> target                             *)
(*                                                                          *)
(* A failure between two calls, or an error raised by one, fails the run;   *)
(* the session stays ready and the next run of dwh_etl_start starts again   *)
(* with sp_<star>_t.  Runs of a star's DAG never overlap: it has            *)
(* max_active_runs=1.  The star's tables belong to it alone, so one star is *)
(* modelled and the others run beside it without touching its state.        *)
(***************************************************************************)
EXTENDS StarTables

CONSTANTS
  Docs,       \* documents or catalogue items of the star
  LineCount,  \* LineCount[d][v]: rows of the table part in version v of d
  MaxVer,     \* bound: versions of a document
  MaxSession, \* bound: sessions
  MaxCrash    \* bound: failures between two calls

ASSUME SizesAssumption ==
  /\ IsFiniteSet(Docs)
  /\ MaxVer \in Nat /\ MaxSession \in Nat /\ MaxCrash \in Nat
  /\ LineCount \in [Docs -> [1..MaxVer -> Nat]]

VARIABLES
  target,   \* rows of target.<star>
  tlines,   \* rows of its table part in target
  staging,  \* rows of staging.<star>
  slines,   \* rows of its table part in staging
  seq,      \* last value of the sequence behind staging.<star>.staging_id
  lseq,     \* last value of the one behind the table part's staging_id
  history,  \* version of each document in the session handed over, 0 if absent
  session,  \* number of sessions handed over so far
  pc,       \* next call of exec_publish; "done" after the last; "idle" when the
            \* session is closed
  error,    \* what the last call raised
  crashes

tables == <<target, tlines>>
stage  == <<staging, slines, seq, lseq>>
vars   == <<tables, stage, history, session, pc, error, crashes>>

Keys      == Docs \cup (Docs \X Nat)
TargetRow == [id : Nat, nkey : Keys, ref : Docs, ver : 1..MaxVer, cur : BOOLEAN]
StageRow  == [sid : Nat, id : Nat, nkey : Keys, ref : Docs, ver : 1..MaxVer, cur : BOOLEAN]

TypeOK ==
  /\ target \subseteq TargetRow /\ tlines \subseteq TargetRow
  /\ staging \subseteq StageRow /\ slines \subseteq StageRow
  /\ seq \in Nat /\ lseq \in Nat
  /\ history \in [Docs -> 0..MaxVer]
  /\ session \in 0..MaxSession
  /\ pc \in {"idle", "t", "r", "p", "done"}
  /\ error \in {"none", "no_destination", "duplicate_key"}
  /\ crashes \in 0..MaxCrash

Init ==
  /\ target = {} /\ tlines = {} /\ staging = {} /\ slines = {}
  /\ seq = 0 /\ lseq = 0
  /\ history = [d \in Docs |-> 0]
  /\ session = 0
  /\ pc = "idle"
  /\ error = "none"
  /\ crashes = 0

InSession == {d \in Docs : history[d] # 0}

(* nkey of the table part is md5(RefID | line number).                       *)
LinesOf(d, v) == {[nkey |-> <<d, i>>, ref |-> d, ver |-> v] : i \in 1..LineCount[d][v]}

(* Defect: no WHERE dwh_session_id = ...                                     *)
HistoryRows_All == {[nkey |-> d, ref |-> d, ver |-> history[d]] : d \in Docs}

(* The rows of the session in the foreign tables fdw.odins_<star>.           *)
HistoryRows  == {[nkey |-> d, ref |-> d, ver |-> history[d]] : d \in InSession}
HistoryLines == UNION {LinesOf(d, history[d]) : d \in InSession}

VersionOf(d) == IF \E t \in target : t.nkey = d THEN (CHOOSE t \in target : t.nkey = d).ver ELSE 0

---------------------------------------------------------------------------
(* The ODS hands over the next session once the last one is closed; versions *)
(* grow from session to session (OdsSession: OneOpenSession,                 *)
(* VersionsGrowWithSessions, PackedIsFrozen).                                *)
Accept ==
  /\ pc = "idle"
  /\ session < MaxSession
  /\ session' = session + 1
  /\ history' \in [Docs -> 0..MaxVer]
  /\ \A d \in Docs : history'[d] = 0 \/ history'[d] > VersionOf(d)
  /\ pc' = "t"
  /\ error' = "none"
  /\ UNCHANGED <<tables, stage, crashes>>

(* Defect: staging_id starts at 1 in every session.                          *)
StartFrom_Zero(m) == 0

(* setval(sequence, MAX(id) + 1): the next value is MAX(id) + 2.             *)
StartFrom(m) == m + 1

(* sp_<star>_t.  Behind a table part that already has rows in target stands  *)
(* SELECT setval(...) without a destination, which PL/pgSQL refuses: the     *)
(* call is rolled back (the value given to the first sequence stays).        *)
TransferFails ==
  /\ pc = "t"
  /\ \E n \in IdsOf(tlines) : n >= 1
  /\ \E m \in {0} \cup IdsOf(target) :
       IsLastId(m, target) /\ seq' = StartFrom(m) + Cardinality(HistoryRows)
  /\ error' = "no_destination"
  /\ UNCHANGED <<tables, staging, slines, lseq, history, session, pc, crashes>>

Transfer ==
  /\ pc = "t"
  /\ \A n \in IdsOf(tlines) : n < 1
  /\ \E m \in {0} \cup IdsOf(target) :
       /\ IsLastId(m, target)
       /\ \E f \in Numberings(HistoryRows, StartFrom(m)) : staging' = StagedRows(HistoryRows, f)
       /\ seq' = StartFrom(m) + Cardinality(HistoryRows)
  /\ \E g \in Numberings(HistoryLines, lseq) : slines' = StagedRows(HistoryLines, g)
  /\ lseq' = lseq + Cardinality(HistoryLines)
  /\ pc' = "r"
  /\ error' = "none"
  /\ UNCHANGED <<tables, history, session, crashes>>

(* Defects: every matching row is closed, its own id or not; the rows of the *)
(* table part keep id = NULL.                                                *)
Closing_Own(S) == {t \in target : t.cur /\ \E s \in S : s.nkey = t.nkey}
LinesRekeyed_Null == slines

Closing(S) == Superseded(S, target)
LinesRekeyed == OwnIds(slines)

(* sp_<star>_r.                                                              *)
Rekey ==
  /\ pc = "r"
  /\ \E k \in Rekeyings(staging, target) :
       LET rekeyed == RekeyedRows(staging, k)
           closing == Closing(rekeyed) IN
       /\ \E f \in Numberings(closing, seq) : staging' = rekeyed \cup ClosingRows(closing, f)
       /\ seq' = seq + Cardinality(closing)
  /\ tlines' = WithoutLinesOf(tlines, staging)
  /\ slines' = LinesRekeyed
  /\ pc' = "p"
  /\ error' = "none"
  /\ UNCHANGED <<target, lseq, history, session, crashes>>

(* Defect: only new rows are written.                                        *)
RowsUpdated_None(T, S) == {T}

(* The table after UPDATE.                                                   *)
RowsUpdated(T, S) == {UpdatedRows(T, p) : p \in Updates(T, S)}

(* sp_<star>_p; a key violation rolls the call back and fails the run.       *)
Publish ==
  /\ pc = "p"
  /\ \E rows \in RowsUpdated(target, staging), lines \in RowsUpdated(tlines, slines) :
       IF Insertable(rows, NewRows(staging)) /\ Insertable(lines, NewRows(slines))
         THEN /\ target' = rows \cup NewRows(staging)
              /\ tlines' = lines \cup NewRows(slines)
              /\ pc' = "done"
              /\ error' = "none"
         ELSE /\ pc' = "t"
              /\ error' = "duplicate_key"
              /\ UNCHANGED tables
  /\ UNCHANGED <<stage, history, session, crashes>>

(* The run ends: finish_dwh_session closes the session.                      *)
Close ==
  /\ pc = "done"
  /\ pc' = "idle"
  /\ UNCHANGED <<tables, stage, history, session, error, crashes>>

(* The worker or the connection is lost between two calls, or another star   *)
(* of the run fails after this one; the next run starts with sp_<star>_t.    *)
Crash ==
  /\ pc \in {"r", "p", "done"}
  /\ crashes < MaxCrash
  /\ crashes' = crashes + 1
  /\ pc' = "t"
  /\ UNCHANGED <<tables, stage, history, session, error>>

Next == Accept \/ Transfer \/ TransferFails \/ Rekey \/ Publish \/ Close \/ Crash

Spec == Init /\ [][Next]_vars
FairSpec == Spec /\ WF_vars(Transfer \/ Rekey \/ Publish \/ Close)

---------------------------------------------------------------------------
(* Properties.                                                               *)

(* The database never has to refuse a row: surrogate and natural keys are    *)
(* unique in target and in its table part, and no call of sp_<star>_p runs   *)
(* into PRIMARY KEY (id) or the unique index on nkey, however often a run    *)
(* was lost between two calls.                                               *)
KeysStayUnique ==
  /\ KeysUnique(target) /\ KeysUnique(tlines)
  /\ error # "duplicate_key"

RowsOfPart(d) == {[nkey |-> l.nkey, ref |-> l.ref, ver |-> l.ver] : l \in {x \in tlines : x.ref = d}}

(* A reader never sees the table part of another version: the rows of a      *)
(* document's table part are exactly those of the version of its row, or     *)
(* none while the session that holds it waits for sp_<star>_p.               *)
PartsMatchRow ==
  /\ \A l \in tlines : \E t \in target : t.nkey = l.ref
  /\ \A t \in target :
       \/ RowsOfPart(t.nkey) = LinesOf(t.nkey, t.ver)
       \/ RowsOfPart(t.nkey) = {} /\ t.nkey \in InSession /\ pc \in {"p", "t", "r"}

(* No call of exec_publish raises an error when nothing else fails.          *)
CallsSucceed == error = "none"

(* A row of target, once there, keeps its surrogate key and its natural key, *)
(* is never closed (nothing replaces a current row), and never steps back to *)
(* an older version.                                                         *)
SurrogateKeysAreStable ==
  [][\A t \in target : \E u \in target' :
       u.id = t.id /\ u.nkey = t.nkey /\ u.cur /\ u.ver >= t.ver]_vars

(* Every session is published and closed, whatever fails on the way, as long *)
(* as the table part of target is empty (see TransferFails).                 *)
SessionsGetClosed ==
  \A n \in 1..MaxSession : session = n ~> session > n \/ pc = "idle" \/ tlines # {}

(* The promise to the reader.                                                *)
shownMap == [d \in Docs |-> VersionOf(d)]
partsMap ==
  [d \in Docs |-> IF VersionOf(d) # 0 /\ RowsOfPart(d) = LinesOf(d, VersionOf(d))
                  THEN VersionOf(d) ELSE 0]

W == INSTANCE Warehouse WITH
       shown <- shownMap, parts <- partsMap, batch <- history, busy <- pc # "idle"

PromiseToReader == W!Spec
============================================================================
