--------------------------- MODULE MssqlSession ---------------------------
(***************************************************************************)
(* The session life cycle of the SQL Server ODS, one run of dwh_etl_start   *)
(* at a time.  It has the shape of OdsSession and differs where it matters: *)
(*                                                                          *)
(*   - a new session is committed in state 1 before anything is packed;     *)
(*   - history is copied, never deleted first, so a session taken up again  *)
(*     holds its documents more than once;                                  *)
(*   - the whole procedure is in TRY: a failure writes state 3, which       *)
(*     nobody picks up, and that also when the log entry after the last     *)
(*     COMMIT fails;                                                        *)
(*   - the loader empties the table part before it fills it.                *)
(*                                                                          *)
(* The transaction of a star is one action: SELECT ... WITH(XLOCK) holds    *)
(* its rows to the COMMIT, and the MERGE of the loader, which has no index  *)
(* on NKey to avoid them, waits for them.  Rows are deleted by OdsId, which *)
(* a row keeps as long as it lives, so with one run it is its document.     *)
(***************************************************************************)
EXTENDS Naturals, FiniteSets, Sequences

CONSTANTS
  Docs,     \* documents and catalogue items, identified by NKey = RefID
  NStars,   \* stars, numbered in the order dwh_AssignSessionID visits them
  StarOf,   \* the star each document belongs to
  Lined,    \* the stars that have a table part
  MaxVer,   \* bound: messages per document
  MaxSid,   \* bound: session numbers drawn from the identity column
  MaxFail   \* bound: failed and killed calls and runs

ASSUME StarsAssumption ==
  /\ NStars \in Nat
  /\ StarOf \in [Docs -> 1..NStars]
  /\ Lined \subseteq 1..NStars
ASSUME BoundsAssumption == MaxVer \in Nat /\ MaxSid \in Nat /\ MaxFail \in Nat

(* Values of DwhSessionStateId; Absent is "no such row".                     *)
Absent  == 0
Forming == 1
Ready   == 2
Failed  == 3
Closed  == 4

VARIABLES
  ver,       \* version of the document's live row in odins, 0 when there is none
  lines,     \* version of the live rows of the table part, 0 when there are none
  hist,      \* hist[s][d]: copies [ver, lines] of d under session s, oldest first
  sess,      \* DwhSessionStateId of each session
  details,   \* SUM(RowCount) of DwhProcessingDetails of each session
  pc,        \* what the run is doing
  sid,       \* @DwhSessionId
  star,      \* the star the call packs next
  listed,    \* documents in the call's #<star> tables
  rowcount,  \* @RowCount
  failures,  \* failures so far
  loaded,    \* history variable: last version the loader wrote for d
  late,      \* history variable: documents whose last load changed a row that the
             \* call had already copied to history and was about to delete
  orphans    \* history variable: sessions that were ready and got state 3

odsVars  == <<ver, lines>>
sessVars == <<hist, sess, details>>
runVars  == <<pc, sid, star, listed, rowcount>>
auxVars  == <<failures, loaded, late, orphans>>
vars     == <<odsVars, sessVars, runVars, auxVars>>

Sids == 1..MaxSid

Init ==
  /\ ver = [d \in Docs |-> 0]
  /\ lines = [d \in Docs |-> 0]
  /\ hist = [s \in Sids |-> [d \in Docs |-> <<>>]]
  /\ sess = [s \in Sids |-> Absent]
  /\ details = [s \in Sids |-> 0]
  /\ pc = "idle" /\ sid = 0 /\ star = 1 /\ listed = {} /\ rowcount = 0
  /\ failures = 0
  /\ loaded = [d \in Docs |-> 0]
  /\ late = {} /\ orphans = {}

DocsOf(k) == {d \in Docs : StarOf[d] = k}
SidsIn(state) == {s \in Sids : sess[s] = state}

---------------------------------------------------------------------------
(* load_<star>_staging for a list of messages, the newest of each document   *)
(* in D: MERGE of the rows, then DELETE of the table part without a WHERE    *)
(* and INSERT of the lines in the list.                                      *)
LinesLoaded(D) ==
  [d \in Docs |->
     IF d \in D /\ StarOf[d] \in Lined THEN loaded[d] + 1
     ELSE IF \E e \in D : StarOf[e] = StarOf[d] THEN 0
     ELSE lines[d]]

Load(D) ==
  /\ \A d \in D : loaded[d] < MaxVer
  /\ loaded' = [d \in Docs |-> IF d \in D THEN loaded[d] + 1 ELSE loaded[d]]
  /\ ver' = [d \in Docs |-> IF d \in D THEN loaded[d] + 1 ELSE ver[d]]
  /\ lines' = LinesLoaded(D)
  /\ late' = IF pc = "forming" THEN (late \ D) \cup (D \cap listed) ELSE late \ D
  /\ UNCHANGED <<sessVars, runVars, failures, orphans>>

---------------------------------------------------------------------------
(* EXEC etl.dwh_AssignSessionID, called by the task start_dwh_session.       *)

(* Defect: the sum is not taken, @RowCount keeps its initial 0.              *)
RowCountOf_NoSum(s) == 0

(* SUM([RowCount]) of DwhProcessingDetails.                                  *)
RowCountOf(s) == details[s]

(* The oldest session that is ready is handed out.                           *)
AssignReady ==
  /\ pc = "idle"
  /\ \E s \in SidsIn(Ready) :
       /\ \A t \in SidsIn(Ready) : s <= t
       /\ sid' = s
       /\ rowcount' = RowCountOf(s)
  /\ pc' = "returning"
  /\ UNCHANGED <<odsVars, sessVars, star, listed, auxVars>>

(* dwh_SaveSessionState(NULL): the newest session left in state 1, or a new  *)
(* row in state 1, which INSERT ... EXEC commits.                            *)
SaveNew(s) ==
  IF SidsIn(Forming) # {}
    THEN s \in SidsIn(Forming) /\ \A t \in SidsIn(Forming) : t <= s
    ELSE s \in SidsIn(Absent) /\ \A t \in SidsIn(Absent) : s <= t

AssignBegin ==
  /\ pc = "idle"
  /\ SidsIn(Ready) = {}
  /\ \E s \in Sids :
       /\ SaveNew(s)
       /\ sid' = s
       /\ sess' = [sess EXCEPT ![s] = Forming]
  /\ pc' = "forming" /\ star' = 1 /\ listed' = {} /\ rowcount' = 0
  /\ UNCHANGED <<odsVars, hist, details, auxVars>>

(* The transaction of one star, up to its COMMIT.                            *)
PackStar ==
  LET D == {d \in DocsOf(star) : ver[d] # 0}
      n == Cardinality(D) + Cardinality({d \in D : lines[d] # 0})
  IN
  /\ pc = "forming"
  /\ star <= NStars
  /\ listed' = listed \cup D
  /\ hist' = [hist EXCEPT ![sid] = [d \in Docs |->
                IF d \in D THEN Append(@[d], [ver |-> ver[d], lines |-> lines[d]]) ELSE @[d]]]
  /\ details' = [details EXCEPT ![sid] = @ + n]
  /\ rowcount' = rowcount + n
  /\ star' = star + 1
  /\ late' = late \ D
  /\ UNCHANGED <<odsVars, sess, pc, sid, failures, loaded, orphans>>

(* Defects: DELETE of the whole tables; DELETE of the table parts only.      *)
Deleted_All == Docs
Deleted_None == {}

(* Documents whose rows the last transaction deletes.                        *)
Deleted == listed

(* The last transaction, when anything was found.                            *)
Finish ==
  /\ pc = "forming"
  /\ star = NStars + 1
  /\ IF rowcount > 0
       THEN /\ ver' = [d \in Docs |-> IF d \in Deleted THEN 0 ELSE ver[d]]
            /\ lines' = [d \in Docs |-> IF d \in listed THEN 0 ELSE lines[d]]
            /\ sess' = [sess EXCEPT ![sid] = Ready]
       ELSE UNCHANGED <<odsVars, sess>>
  /\ pc' = "returning"
  /\ UNCHANGED <<hist, details, sid, star, listed, rowcount, auxVars>>

(* The log entry is written and the call returns; the task goes on only with *)
(* a positive row count.                                                     *)
Return ==
  /\ pc = "returning"
  /\ pc' = IF rowcount > 0 THEN "handed" ELSE "idle"
  /\ UNCHANGED <<odsVars, sessVars, sid, star, listed, rowcount, auxVars>>

---------------------------------------------------------------------------
(* The task finish_dwh_session: dwh_SaveSessionState(id, 4).                 *)
Close ==
  /\ pc = "handed"
  /\ sess' = [sess EXCEPT ![sid] = Closed]
  /\ pc' = "idle"
  /\ UNCHANGED <<odsVars, hist, details, sid, star, listed, rowcount, auxVars>>

Failing == failures < MaxFail /\ failures' = failures + 1

(* CATCH: the open transaction is rolled back and the session gets state 3,  *)
(* which the row count -1 it returns tells the task.                         *)
Fails ==
  /\ Failing
  /\ pc \in {"forming", "returning"}
  /\ sess' = [sess EXCEPT ![sid] = Failed]
  /\ orphans' = IF sess[sid] = Ready THEN orphans \cup {sid} ELSE orphans
  /\ pc' = "idle"
  /\ UNCHANGED <<odsVars, hist, details, sid, star, listed, rowcount, loaded, late>>

(* The connection or the server is lost, or the run: nothing is caught.      *)
Killed ==
  /\ Failing
  /\ pc # "idle"
  /\ pc' = "idle"
  /\ UNCHANGED <<odsVars, sessVars, sid, star, listed, rowcount, loaded, late, orphans>>

RunStep == PackStar \/ Finish \/ Return \/ Close
Begin == AssignReady \/ AssignBegin

Next ==
  \/ \E k \in 1..NStars : \E D \in SUBSET DocsOf(k) \ {{}} : Load(D)
  \/ Begin \/ RunStep \/ Fails \/ Killed

Spec == Init /\ [][Next]_vars

(* A call goes on; that runs keep being started is up to the operator.       *)
FairSpec == Spec /\ WF_vars(RunStep) /\ WF_vars(Begin)

---------------------------------------------------------------------------
(* Properties.                                                               *)

Packed == SidsIn(Ready) \cup SidsIn(Closed)
Versions(s, d) == {hist[s][d][i].ver : i \in 1..Len(hist[s][d])}

(* Nothing the loader wrote is lost in the sessions that fail: the last      *)
(* version of a document is live in odins or the last copy in a packed       *)
(* session, or else was written between the COMMIT of its star and the final *)
(* DELETE, when an older version is packed.  The one other way out is a      *)
(* session that was ready and got state 3 because its log entry failed.      *)
NothingLost ==
  \A d \in Docs : loaded[d] > 0 =>
    \/ ver[d] = loaded[d]
    \/ \E s \in Packed \cup orphans :
         /\ hist[s][d] # <<>>
         /\ d \in late \/ hist[s][d][Len(hist[s][d])].ver = loaded[d]

(* The warehouse may apply sessions in the order of their numbers: a later   *)
(* one holds only newer versions of a document, and the copies of it that a  *)
(* session taken up again holds are in the order they were loaded.           *)
CopiesInOrder ==
  \A s \in Packed, d \in Docs :
    /\ \A i, j \in 1..Len(hist[s][d]) : i < j => hist[s][d][i].ver <= hist[s][d][j].ver
    /\ \A t \in Packed : s < t => \A v \in Versions(s, d), w \in Versions(t, d) : v < w

(* A loaded version reaches a closed session, itself or a newer one, with    *)
(* the exceptions of NothingLost: sessions in state 1, 2 and 3 that failed   *)
(* or killed calls leave behind never block later ones.  (At the bound       *)
(* MaxSid no session number is left and the model stops packing.)            *)
LoadedIsClosed ==
  \A d \in Docs, v \in 1..MaxVer :
    loaded[d] = v /\ d \notin late ~>
      \/ d \in late
      \/ \E s \in SidsIn(Closed) \cup orphans : \E w \in Versions(s, d) : w >= v
      \/ SidsIn(Absent) \cup SidsIn(Forming) \cup SidsIn(Ready) = {}

(* The rows of a table part travel with their document.                      *)
LinesTravelWithDoc ==
  \A s \in Packed, d \in Docs : StarOf[d] \in Lined =>
    \A i \in 1..Len(hist[s][d]) : hist[s][d][i].lines = hist[s][d][i].ver
============================================================================
