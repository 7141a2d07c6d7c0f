------------------------- MODULE StarPublishMssql -------------------------
(***************************************************************************)
(* Publishing the sessions of one star in the SQL Server DWH.  The three    *)
(* procedures do what those of StarPublish do, with four differences that   *)
(* matter here:                                                             *)
(*   - they open no transaction and are called with autocommit, so that     *)
(*     every statement commits alone: sp_<star>_publish is four steps;      *)
(*   - the identity columns are set with DBCC CHECKIDENT, which works for   *)
(*     the table part too;                                                  *)
(*   - target.* has neither a primary key nor a unique index;               *)
(*   - etl.dwh_AssignSessionID of SQL Server adds to the history of a       *)
(*     session it takes up again (MssqlSession), so that a session may hold *)
(*     a document twice (constant Doubled): such documents get several      *)
(*     current rows, the others must not notice.                            *)
(***************************************************************************)
EXTENDS StarTables

CONSTANTS
  Docs,       \* documents or catalogue items of the star
  LineCount,  \* LineCount[d][v]: rows of the table part in version v of d
  MaxVer,     \* bound: versions of a document
  MaxSession, \* bound: sessions
  MaxCrash,   \* bound: failures between two statements
  Doubled     \* documents that any session may hold twice

ASSUME SizesAssumption ==
  /\ IsFiniteSet(Docs)
  /\ MaxVer \in Nat /\ MaxSession \in Nat /\ MaxCrash \in Nat
  /\ LineCount \in [Docs -> [1..MaxVer -> Nat]]
  /\ Doubled \subseteq Docs

VARIABLES
  target,   \* rows of target.<star>
  tlines,   \* rows of its table part in target
  staging,  \* rows of staging.<star>
  slines,   \* rows of its table part in staging
  seq,      \* last value of the identity column staging.<star>.staging_id
  history,  \* rows of the session handed over in odins.<star>_history
  session,  \* number of sessions handed over so far
  pc,       \* next step of exec_publish
  crashes

tables == <<target, tlines>>
stage  == <<staging, slines, seq>>
vars   == <<tables, stage, history, session, pc, crashes>>

Keys       == Docs \cup (Docs \X Nat)
TargetRow  == [id : Nat \ {0}, nkey : Keys, ref : Docs, ver : 1..MaxVer, cur : BOOLEAN]
StageRow   == [sid : Nat, id : Nat, nkey : Keys, ref : Docs, ver : 1..MaxVer, cur : BOOLEAN]
HistoryRow == [nkey : Docs, ref : Docs, ver : 1..MaxVer, copy : 1..2]
Steps      == {"idle", "transfer", "rekey", "update_rows", "insert_rows", "update_lines",
               "insert_lines", "done"}

TypeOK ==
  /\ target \subseteq TargetRow /\ tlines \subseteq TargetRow
  /\ staging \subseteq StageRow /\ slines \subseteq StageRow
  /\ seq \in Nat
  /\ history \subseteq HistoryRow
  /\ session \in 0..MaxSession
  /\ pc \in Steps
  /\ crashes \in 0..MaxCrash

Init ==
  /\ target = {} /\ tlines = {} /\ staging = {} /\ slines = {}
  /\ seq = 0
  /\ history = {}
  /\ session = 0
  /\ pc = "idle"
  /\ crashes = 0

RowsOf(d) == {h \in history : h.nkey = d}
InSession == {d \in Docs : RowsOf(d) # {}}

LinesOf(d, v) == {[nkey |-> <<d, i>>, ref |-> d, ver |-> v] : i \in 1..LineCount[d][v]}

(* The table part was packed along with every copy of its document.         *)
HistoryLines ==
  UNION {{[nkey |-> l.nkey, ref |-> l.ref, ver |-> l.ver, copy |-> h.copy] :
            l \in LinesOf(h.nkey, h.ver)} : h \in history}

Newest(V) == CHOOSE v \in V \cup {0} : \A w \in V : w <= v
VersionOf(d) == Newest({t.ver : t \in {x \in target : x.nkey = d}})

---------------------------------------------------------------------------
(* The next session.  The second copy of a document comes from a later call  *)
(* of dwh_AssignSessionID and is at least as new as the first.               *)
Packings(d) ==
  LET newer == {v \in 1..MaxVer : v > VersionOf(d)}
      once(v) == [nkey |-> d, ref |-> d, ver |-> v, copy |-> 1]
      again(v) == [nkey |-> d, ref |-> d, ver |-> v, copy |-> 2]
  IN {{}} \cup {{once(v)} : v \in newer}
       \cup IF d \in Doubled
              THEN {{once(v), again(w)} : v \in newer, w \in newer} ELSE {}

InOrder(H) ==
  \A g, h \in H : g.nkey = h.nkey /\ g.copy < h.copy => g.ver <= h.ver

Accept ==
  /\ pc = "idle"
  /\ session < MaxSession
  /\ session' = session + 1
  /\ \E c \in [Docs -> UNION {Packings(d) : d \in Docs}] :
       /\ \A d \in Docs : c[d] \in Packings(d) /\ InOrder(c[d])
       /\ history' = UNION {c[d] : d \in Docs}
  /\ pc' = "transfer"
  /\ UNCHANGED <<tables, stage, crashes>>

(* Defects: the identity column is not set and starts at 1 again; it is set  *)
(* to MAX(id).                                                               *)
StartFrom_Zero(m) == 0
StartFrom_Max(m) == m - 1

(* TRUNCATE, then CHECKIDENT (RESEED, MAX(id) + 1) unless the target is      *)
(* empty: the first row takes MAX(id) + 1, or 1.                             *)
StartFrom(m) == m

(* sp_<star>_transfer.  Its statements touch only staging, which the next    *)
(* run truncates, so that the whole of it is one step.                       *)
Transfer ==
  /\ pc = "transfer"
  /\ \E m \in {0} \cup IdsOf(target) :
       /\ IsLastId(m, target)
       /\ \E f \in Numberings(history, StartFrom(m)) : staging' = StagedRows(history, f)
       /\ seq' = StartFrom(m) + Cardinality(history)
  /\ \E m \in {0} \cup IdsOf(tlines) :
       /\ IsLastId(m, tlines)
       /\ \E f \in Numberings(HistoryLines, StartFrom(m)) : slines' = StagedRows(HistoryLines, f)
  /\ pc' = "rekey"
  /\ UNCHANGED <<tables, history, session, crashes>>

(* Defects: no row is closed; the rows of the table part stay; they keep     *)
(* id = NULL.                                                                *)
Closing_None(S) == {}
LinesLeft_All == tlines
LinesRekeyed_Null == slines

Closing(S) == Superseded(S, target)
LinesLeft == WithoutLinesOf(tlines, staging)
LinesRekeyed == OwnIds(slines)

(* sp_<star>_rekey.  Of its statements only the DELETE of the table part     *)
(* touches target: one step.                                                 *)
Rekey ==
  /\ pc = "rekey"
  /\ \E k \in Rekeyings(staging, target) :
       LET rekeyed == RekeyedRows(staging, k)
           closing == Closing(rekeyed) IN
       /\ \E f \in Numberings(closing, seq) : staging' = rekeyed \cup ClosingRows(closing, f)
       /\ seq' = seq + Cardinality(closing)
  /\ tlines' = LinesLeft
  /\ slines' = LinesRekeyed
  /\ pc' = "update_rows"
  /\ UNCHANGED <<target, history, session, crashes>>

(* Defect: only new rows are written.                                        *)
RowsUpdated_None(T, S) == {T}

RowsUpdated(T, S) == {UpdatedRows(T, p) : p \in Updates(T, S)}

(* The four statements of sp_<star>_publish.                                 *)
UpdateRows ==
  /\ pc = "update_rows"
  /\ target' \in RowsUpdated(target, staging)
  /\ pc' = "insert_rows"
  /\ UNCHANGED <<tlines, stage, history, session, crashes>>

InsertRows ==
  /\ pc = "insert_rows"
  /\ target' = target \cup NewRows(staging)
  /\ pc' = "update_lines"
  /\ UNCHANGED <<tlines, stage, history, session, crashes>>

UpdateLines ==
  /\ pc = "update_lines"
  /\ tlines' \in RowsUpdated(tlines, slines)
  /\ pc' = "insert_lines"
  /\ UNCHANGED <<target, stage, history, session, crashes>>

InsertLines ==
  /\ pc = "insert_lines"
  /\ tlines' = tlines \cup NewRows(slines)
  /\ pc' = "done"
  /\ UNCHANGED <<target, stage, history, session, crashes>>

(* The run ends: finish_dwh_session closes the session.                      *)
Close ==
  /\ pc = "done"
  /\ pc' = "idle"
  /\ UNCHANGED <<tables, stage, history, session, crashes>>

(* A statement fails (the CATCH block logs it and raises it again) or the    *)
(* connection is lost, or another star of the run fails later; the next run  *)
(* starts with sp_<star>_transfer.                                           *)
Crash ==
  /\ pc \notin {"idle", "transfer"}
  /\ crashes < MaxCrash
  /\ crashes' = crashes + 1
  /\ pc' = "transfer"
  /\ UNCHANGED <<tables, stage, history, session>>

Call == Transfer \/ Rekey \/ UpdateRows \/ InsertRows \/ UpdateLines \/ InsertLines \/ Close
Next == Accept \/ Call \/ Crash

Spec == Init /\ [][Next]_vars

---------------------------------------------------------------------------
(* Properties.  Several are promised for the documents that no session holds *)
(* twice, beside others that are.                                            *)

Single == Docs \ Doubled
OfSingle(T) == {t \in T : t.ref \in Single}

(* Without any constraint in the database, surrogate keys are unique in a    *)
(* table, even in those of a document packed twice, and a natural key has    *)
(* one row, as a line of a table part has: a statement that a lost run had   *)
(* already committed is never repeated as an insert.                         *)
KeysStayUnique ==
  /\ \A T \in {target, tlines} : \A t, u \in T : t.id = u.id => t = u
  /\ KeysUnique(OfSingle(target)) /\ KeysUnique(OfSingle(tlines))

RowsOfPart(d) == {[nkey |-> l.nkey, ref |-> l.ref, ver |-> l.ver] : l \in {x \in tlines : x.ref = d}}

(* A reader never sees rows of the table part of a document that belong to   *)
(* another version, at any statement boundary; rows are missing only for a   *)
(* document of the session that is being published.                          *)
PartsMatchRow ==
  \A d \in Single :
    \/ RowsOfPart(d) = {} /\ VersionOf(d) = 0
    \/ VersionOf(d) # 0 /\ RowsOfPart(d) = LinesOf(d, VersionOf(d))
    \/ RowsOfPart(d) = {} /\ d \in InSession /\ pc \notin {"idle", "done"}

(* A row keeps its keys, is never deleted and never steps back to an older   *)
(* version.                                                                  *)
SurrogateKeysAreStable ==
  [][\A t \in target : \E u \in target' :
       u.id = t.id /\ u.nkey = t.nkey /\ (t.ref \in Single => u.ver >= t.ver)]_vars

(* The promise to the reader.                                                *)
partsMap ==
  [d \in Single |-> IF VersionOf(d) # 0 /\ RowsOfPart(d) = LinesOf(d, VersionOf(d))
                    THEN VersionOf(d) ELSE 0]

W == INSTANCE Warehouse WITH
       Docs  <- Single,
       shown <- [d \in Single |-> VersionOf(d)],
       parts <- partsMap,
       batch <- [d \in Single |-> Newest({h.ver : h \in RowsOf(d)})],
       busy  <- pc # "idle"

PromiseToReader == W!Spec

(* A document packed once has, after the last call, exactly one current row, *)
(* of that version and with that table part, even if earlier sessions that   *)
(* held it twice had left several current rows of it: sp_<star>_rekey takes  *)
(* the key of one of them and closes the others.                             *)
SingleCopyHeals ==
  pc = "done" =>
    \A h \in history :
      Cardinality(RowsOf(h.nkey)) = 1 =>
        /\ Cardinality({t \in target : t.nkey = h.nkey /\ t.cur}) = 1
        /\ \E t \in target : t.nkey = h.nkey /\ t.cur /\ t.ver = h.ver
        /\ RowsOfPart(h.nkey) = LinesOf(h.nkey, h.ver)
============================================================================
