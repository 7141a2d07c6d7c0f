---------------------------- MODULE OdsSession ----------------------------
(***************************************************************************)
(* The session life cycle of the PostgreSQL ODS: how the rows that the MQ   *)
(* service loads into odins.* are packed into numbered sessions of the      *)
(* *_history tables, and how a session is handed to the warehouse and       *)
(* closed.                                                                  *)
(*                                                                          *)
(*   etl.dwh_AssignSessionID   Assign... actions, SnapshotStar, Finish      *)
(*   etl.dwh_SaveSessionState  inlined where the procedures call it, Close  *)
(*   odins.load_*              Load, its effect on one document             *)
(*                                                                          *)
(* dwh_AssignSessionID commits once per star and once more at the end, so   *)
(* it is a sequence of transactions: the steps of other calls, of the       *)
(* loader, and a crash, can fall between any two of them.  Each transaction *)
(* is one action, because SELECT ... FOR UPDATE keeps the rows of the star  *)
(* locked until its COMMIT.  A document stands for one row of a star and    *)
(* the rows of its table part (FACT_Продажи and FACT_Продажи_Товары); the   *)
(* payload is abstracted to the version of the message it came from.        *)
(***************************************************************************)
EXTENDS Naturals, FiniteSets

CONSTANTS
  Runs,      \* calls of dwh_AssignSessionID that may be under way together
  Docs,      \* documents and catalogue items, identified by nkey = RefID
  NStars,    \* stars, numbered in the order dwh_AssignSessionID visits them
  StarOf,    \* the star each document belongs to
  Lined,     \* the stars that have a table part
  MaxVer,    \* bound: messages per document
  MaxSid,    \* bound: session numbers drawn from the identity column
  MaxCrash   \* bound: failed calls and failed runs

ASSUME DocsAssumption == IsFiniteSet(Docs)
ASSUME StarsAssumption ==
  /\ NStars \in Nat \ {0}
  /\ StarOf \in [Docs -> 1..NStars]
  /\ Lined \subseteq 1..NStars
ASSUME BoundsAssumption == MaxVer \in Nat /\ MaxSid \in Nat /\ MaxCrash \in Nat

(* Values of dwh_session_state_id the code writes; Absent is "no such row". *)
Absent  == 0
Forming == 1
Ready   == 2
Closed  == 4

VARIABLES
  oid,       \* ods_id of the document's live row in odins.*, 0 when there is none
  ver,       \* version held by that row, 0 when there is none
  lines,     \* version of the live rows of the table part, 0 when there are none
  hist,      \* hist[s][d]: version of d in the _history table under session s, or 0
  lineHist,  \* the same for the _history table of the table part
  sess,      \* dwh_session_state_id of each session
  details,   \* SUM(row_count) of dwh_processing_details of each session
  pc,        \* what each run is doing
  sid,       \* par_dwh_session_id of the run
  star,      \* the star the run packs next
  tmp,       \* tmp[r][d]: ods_id of d in the run's tmp_<star> tables, 0 if not taken
  rowcount,  \* par_rowcount of the run
  nextOid,   \* next value of the ods_id identity column
  nextSid,   \* next value of the dwh_session_id identity column
  crashes,   \* failures so far
  loaded,    \* history variable: last version the loader wrote for d
  late       \* history variable: documents whose last load changed a row that a
             \* run had already copied to history and was about to delete

odsVars  == <<oid, ver, lines, nextOid>>
sessVars == <<hist, lineHist, sess, details, nextSid>>
runVars  == <<pc, sid, star, tmp, rowcount>>
auxVars  == <<crashes, loaded, late>>
vars     == <<odsVars, sessVars, runVars, auxVars>>

Sids == 1..MaxSid
Stars == 1..NStars

TypeOK ==
  /\ oid \in [Docs -> Nat]
  /\ ver \in [Docs -> 0..MaxVer]
  /\ lines \in [Docs -> 0..MaxVer]
  /\ hist \in [Sids -> [Docs -> 0..MaxVer]]
  /\ lineHist \in [Sids -> [Docs -> 0..MaxVer]]
  /\ sess \in [Sids -> {Absent, Forming, Ready, Closed}]
  /\ details \in [Sids -> Nat]
  /\ pc \in [Runs -> {"idle", "forming", "handed"}]
  /\ sid \in [Runs -> 0..MaxSid]
  /\ star \in [Runs -> 1..(NStars + 1)]
  /\ tmp \in [Runs -> [Docs -> Nat]]
  /\ rowcount \in [Runs -> Nat]
  /\ nextOid \in Nat \ {0}
  /\ nextSid \in 1..(MaxSid + 1)
  /\ crashes \in 0..MaxCrash
  /\ loaded \in [Docs -> 0..MaxVer]
  /\ late \subseteq Docs

Init ==
  /\ oid = [d \in Docs |-> 0]
  /\ ver = [d \in Docs |-> 0]
  /\ lines = [d \in Docs |-> 0]
  /\ hist = [s \in Sids |-> [d \in Docs |-> 0]]
  /\ lineHist = [s \in Sids |-> [d \in Docs |-> 0]]
  /\ sess = [s \in Sids |-> Absent]
  /\ details = [s \in Sids |-> 0]
  /\ pc = [r \in Runs |-> "idle"]
  /\ sid = [r \in Runs |-> 0]
  /\ star = [r \in Runs |-> 1]
  /\ tmp = [r \in Runs |-> [d \in Docs |-> 0]]
  /\ rowcount = [r \in Runs |-> 0]
  /\ nextOid = 1
  /\ nextSid = 1
  /\ crashes = 0
  /\ loaded = [d \in Docs |-> 0]
  /\ late = {}

---------------------------------------------------------------------------
(* The loader.                                                              *)

(* Run r has copied the live row of d to history and has not deleted it.    *)
TakenBy(r, d) == pc[r] = "forming" /\ tmp[r][d] # 0 /\ tmp[r][d] = oid[d]

(* One message for d reaches odins: UPDATE by nkey keeps ods_id, a new row   *)
(* takes the next one, and the table part is deleted and inserted again.    *)
(* Versions count the loads: a message that is sent again is a new version.  *)
Load(d) ==
  /\ loaded[d] < MaxVer
  /\ LET v == loaded[d] + 1 IN
       /\ loaded' = [loaded EXCEPT ![d] = v]
       /\ ver' = [ver EXCEPT ![d] = v]
       /\ lines' = [lines EXCEPT ![d] = IF StarOf[d] \in Lined THEN v ELSE 0]
  /\ IF oid[d] = 0
       THEN oid' = [oid EXCEPT ![d] = nextOid] /\ nextOid' = nextOid + 1
       ELSE UNCHANGED <<oid, nextOid>>
  /\ late' = IF \E r \in Runs : TakenBy(r, d) THEN late \cup {d} ELSE late \ {d}
  /\ UNCHANGED <<sessVars, runVars, crashes>>

---------------------------------------------------------------------------
(* etl.dwh_AssignSessionID(NULL), called by the task start_dwh_session.      *)

SidsIn(state) == {s \in Sids : sess[s] = state}

(* SUM(row_count) of dwh_processing_details.                                 *)
RowCountOf(s) == details[s]

(* The oldest session that is ready is handed out, again and again until     *)
(* someone closes it; the task goes on only with a positive row count.       *)
AssignReady(r) ==
  /\ pc[r] = "idle"
  /\ \E s \in SidsIn(Ready) :
       /\ \A t \in SidsIn(Ready) : s <= t
       /\ sid' = [sid EXCEPT ![r] = s]
       /\ rowcount' = [rowcount EXCEPT ![r] = RowCountOf(s)]
       /\ pc' = [pc EXCEPT ![r] = IF RowCountOf(s) > 0 THEN "handed" ELSE "idle"]
  /\ UNCHANGED <<odsVars, sessVars, star, tmp, auxVars>>

(* Defect: "state <> 2" instead of "state = 1".                              *)
ReuseForming_NotReady(s) ==
  /\ s \in SidsIn(Forming) \cup SidsIn(Closed)
  /\ \A t \in SidsIn(Forming) \cup SidsIn(Closed) : t <= s
  /\ UNCHANGED nextSid

(* dwh_SaveSessionState(NULL): the newest session left in state 1 is used    *)
(* again.                                                                    *)
ReuseForming(s) ==
  /\ s \in SidsIn(Forming)
  /\ \A t \in SidsIn(Forming) : t <= s
  /\ UNCHANGED nextSid

(* Defect: a row is inserted although a session is left in state 1.          *)
InsertSession_Always(s) ==
  /\ s = nextSid
  /\ nextSid' = nextSid + 1

(* ... or a row is inserted; it stays invisible to other calls until the     *)
(* COMMIT of the first star, and its number is spent even if that never      *)
(* comes.                                                                    *)
InsertSession(s) ==
  /\ SidsIn(Forming) = {}
  /\ s = nextSid
  /\ nextSid' = nextSid + 1

AssignBegin(r) ==
  /\ pc[r] = "idle"
  /\ SidsIn(Ready) = {}
  /\ \E s \in Sids : sid' = [sid EXCEPT ![r] = s] /\ (ReuseForming(s) \/ InsertSession(s))
  /\ pc' = [pc EXCEPT ![r] = "forming"]
  /\ star' = [star EXCEPT ![r] = 1]
  /\ tmp' = [tmp EXCEPT ![r] = [d \in Docs |-> 0]]
  /\ rowcount' = [rowcount EXCEPT ![r] = 0]
  /\ UNCHANGED <<odsVars, hist, lineHist, sess, details, auxVars>>

(* A _history table under one session after DELETE ... WHERE dwh_session_id  *)
(* and INSERT of the rows of star k that are live now.                       *)
Repacked(old, live, k) ==
  [d \in Docs |-> IF StarOf[d] = k THEN live[d] ELSE old[d]]

(* Rows that SELECT ... FOR UPDATE and the copy of the table part return.    *)
RowsOfStar(k) ==
  Cardinality({d \in Docs : StarOf[d] = k /\ ver[d] # 0})
    + Cardinality({d \in Docs : StarOf[d] = k /\ ver[d] # 0 /\ lines[d] # 0})

(* The transaction of one star, up to its COMMIT.                            *)
SnapshotStar(r) ==
  LET k == star[r]  s == sid[r]  n == RowsOfStar(k) IN
  /\ pc[r] = "forming"
  /\ k <= NStars
  /\ sess' = [sess EXCEPT ![s] = IF @ = Absent THEN Forming ELSE @]
  /\ tmp' = [tmp EXCEPT ![r] = Repacked(@, oid, k)]
  /\ hist' = [hist EXCEPT ![s] = Repacked(@, ver, k)]
  /\ lineHist' = [lineHist EXCEPT ![s] =
                    Repacked(@, [d \in Docs |-> IF ver[d] # 0 THEN lines[d] ELSE 0], k)]
  /\ details' = [details EXCEPT ![s] = @ + n]
  /\ rowcount' = [rowcount EXCEPT ![r] = @ + n]
  /\ star' = [star EXCEPT ![r] = k + 1]
  /\ late' = late \ {d \in Docs : StarOf[d] = k /\ ver[d] # 0}
  /\ UNCHANGED <<odsVars, nextSid, pc, sid, crashes, loaded>>

(* Defects: DELETE of the whole star table; no DELETE of the star table; no   *)
(* DELETE of the table part.                                                 *)
DeletedByRun_All(r, d) == oid[d] # 0
DeletedByRun_None(r, d) == FALSE
LinesDeletedByRun_None(r, d) == FALSE

(* The last transaction deletes what the tmp tables name: rows of a star by  *)
(* ods_id, rows of a table part by RefID.                                    *)
DeletedByRun(r, d) == tmp[r][d] # 0 /\ tmp[r][d] = oid[d]
LinesDeletedByRun(r, d) == tmp[r][d] # 0

DeleteTaken(r) ==
  /\ oid' = [d \in Docs |-> IF DeletedByRun(r, d) THEN 0 ELSE oid[d]]
  /\ ver' = [d \in Docs |-> IF DeletedByRun(r, d) THEN 0 ELSE ver[d]]
  /\ lines' = [d \in Docs |-> IF LinesDeletedByRun(r, d) THEN 0 ELSE lines[d]]
  /\ UNCHANGED nextOid

(* Defect: the session becomes ready whether or not anything was found.      *)
FoundRows_Always(r) == TRUE

FoundRows(r) == rowcount[r] > 0

(* The last transaction, and the return to start_dwh_session.  A call that   *)
(* found nothing leaves its session in state 1.                              *)
Finish(r) ==
  /\ pc[r] = "forming"
  /\ star[r] = NStars + 1
  /\ IF FoundRows(r)
       THEN /\ DeleteTaken(r)
            /\ sess' = [sess EXCEPT ![sid[r]] = Ready]
            /\ pc' = [pc EXCEPT ![r] = "handed"]
       ELSE /\ pc' = [pc EXCEPT ![r] = "idle"]
            /\ UNCHANGED <<odsVars, sess>>
  /\ UNCHANGED <<hist, lineHist, details, nextSid, sid, star, tmp, rowcount, auxVars>>

---------------------------------------------------------------------------
(* Defect: the state of dwh_ArchiveTables is written.                        *)
Close_Archives(r) ==
  /\ pc[r] = "handed"
  /\ sess' = [sess EXCEPT ![sid[r]] = 6]
  /\ pc' = [pc EXCEPT ![r] = "idle"]
  /\ UNCHANGED <<odsVars, hist, lineHist, details, nextSid, sid, star, tmp, rowcount, auxVars>>

(* The task finish_dwh_session: dwh_SaveSessionState(id, ..., 4).            *)
Close(r) ==
  /\ pc[r] = "handed"
  /\ sess' = [sess EXCEPT ![sid[r]] = Closed]
  /\ pc' = [pc EXCEPT ![r] = "idle"]
  /\ UNCHANGED <<odsVars, hist, lineHist, details, nextSid, sid, star, tmp, rowcount, auxVars>>

(* A call or a run fails: its open transaction is rolled back, its temporary *)
(* tables go with the connection, what it committed stays.  Tasks have       *)
(* "retries": 0, so nothing resumes it.                                      *)
Crash(r) ==
  /\ pc[r] # "idle"
  /\ crashes < MaxCrash
  /\ crashes' = crashes + 1
  /\ pc' = [pc EXCEPT ![r] = "idle"]
  /\ UNCHANGED <<odsVars, sessVars, sid, star, tmp, rowcount, loaded, late>>

RunStep(r) == SnapshotStar(r) \/ Finish(r) \/ Close(r)
Begin(r) == AssignReady(r) \/ AssignBegin(r)

Next ==
  \/ \E d \in Docs : Load(d)
  \/ \E r \in Runs : Begin(r) \/ RunStep(r) \/ Crash(r)

Spec == Init /\ [][Next]_vars

---------------------------------------------------------------------------
(* Properties.  Those below are promised when runs do not overlap            *)
(* (Cardinality(Runs) = 1): see README, "One run at a time".                 *)

Packed == SidsIn(Ready) \cup SidsIn(Closed)

(* At most one session is open (forming or ready): dwh_AssignSessionID hands *)
(* out a ready session, or goes on with a forming one, before it makes a new *)
(* one.                                                                      *)
OneOpenSession ==
  \A s, t \in SidsIn(Forming) \cup SidsIn(Ready) : s = t

(* Nothing the loader wrote is lost: the last version of a document is live  *)
(* in odins or in the history of a packed session, unless it was written     *)
(* between the COMMIT of the document's star and the final DELETE; such a    *)
(* load is lost, but never the document: an older version of it is packed.   *)
NothingLost ==
  \A d \in Docs : loaded[d] > 0 =>
    \/ ver[d] = loaded[d]
    \/ \E s \in Packed : IF d \in late THEN hist[s][d] > 0 ELSE hist[s][d] = loaded[d]

(* A later session never holds an older version, or the same one again: the  *)
(* warehouse, which applies sessions in the order of their numbers, never    *)
(* steps back and never applies a version twice.                             *)
VersionsGrowWithSessions ==
  \A s, t \in Packed : s < t =>
    \A d \in Docs : hist[s][d] > 0 /\ hist[t][d] > 0 => hist[s][d] < hist[t][d]

(* The rows of a table part travel with their document: in a packed session  *)
(* and in odins they are there exactly when the document is, in its version. *)
LinesTravelWithDoc ==
  \A d \in Docs : StarOf[d] \in Lined =>
    /\ lines[d] = ver[d]
    /\ \A s \in Packed : lineHist[s][d] = hist[s][d]

HistoryRows(s) ==
  Cardinality({d \in Docs : hist[s][d] # 0}) + Cardinality({d \in Docs : lineHist[s][d] # 0})

(* A ready session can be published: it holds rows, and the row count that   *)
(* dwh_processing_details yields for it is positive, so that IsNotEmpty lets *)
(* the run go on; otherwise it would be handed out for ever and block every  *)
(* later one.  After a failed call the count covers at least the rows.       *)
ReadyCanBePublished ==
  \A s \in SidsIn(Ready) : HistoryRows(s) > 0 /\ details[s] >= HistoryRows(s)

(* Once a session is ready its history never changes, and its state only     *)
(* moves on to closed: what the warehouse reads is what will be closed.      *)
PackedIsFrozen ==
  [][\A s \in Packed :
       /\ hist'[s] = hist[s] /\ lineHist'[s] = lineHist[s]
       /\ sess'[s] >= sess[s]]_vars
============================================================================
