------------------------------ MODULE EtlRuns ------------------------------
(***************************************************************************)
(* The Airflow DAGs that move one session of the ODS into the DWH:          *)
(*                                                                          *)
(*   dwh_etl_start          start_dwh_session >> IsNotEmpty >>              *)
(*                          Run_dwh_etl_Star_Launcher >> finish_dwh_session *)
(*   dwh_etl_Star_Launcher  triggers the DAG of every dimension, waits for  *)
(*                          all of them, then those of the facts            *)
(*   dwh_etl_DIM_*, _FACT_* exec_publish: the three calls of one star       *)
(*                                                                          *)
(* They pass the session on in three Airflow Variables, which every run     *)
(* shares: dwh_session_id (session of the ODS), dwh_session_count and       *)
(* session_id (session of the DWH).  Each task reads and writes them one by *)
(* one, and each call commits alone.  The launcher and the stars have       *)
(* max_active_runs=1; dwh_etl_start has no such limit.  A DAG run that was  *)
(* triggered goes on when the task that waits for it is lost.  What the     *)
(* databases do inside is abstracted: dwh_AssignSessionID (OdsSession) to   *)
(* the session it returns, exec_publish (StarPublish) to the session it     *)
(* applies to its star.                                                     *)
(***************************************************************************)
EXTENDS Naturals, FiniteSets, Sequences

CONSTANTS
  Runs,        \* runs of dwh_etl_start that may be under way together
  Dims, Facts, \* stars: dimensions and facts
  Nobody,      \* owner of a launcher run whose waiting task was lost
  MaxSession,  \* bound: sessions of the ODS
  MaxMq,       \* bound: sessions of the DWH, one per run that found rows
  MaxFail      \* bound: failures

ASSUME StarsAssumption == Dims \cap Facts = {}
ASSUME RunsAssumption == Nobody \notin Runs
ASSUME BoundsAssumption == MaxSession \in Nat /\ MaxMq \in Nat /\ MaxFail \in Nat

VARIABLES
  ods,       \* state of each session of the ODS
  mq,        \* mq.Session of the DWH: rows [ods, state], their index is SessionId
  varOds,    \* Variable dwh_session_id
  varCount,  \* Variable dwh_session_count, as "> 0"
  varMq,     \* Variable session_id
  pc,        \* what each run of dwh_etl_start does next
  got,       \* session that dwh_AssignSessionID returned to the run, 0 if none
  own,       \* SessionId the run inserted, 0 if none
  queue,     \* runs of the launcher by the run that waits for them, the first active
  stat,      \* what the active launcher run knows of each star
  jobs,      \* runs of each star's DAG: [mq, waited], the first active
  applied,   \* sessions of the ODS applied to each star
  last,      \* the one that changed the star last
  failures

dbVars   == <<ods, mq>>
airVars  == <<varOds, varCount, varMq>>
runVars  == <<pc, got, own>>
starVars == <<stat, jobs>>
auxVars  == <<applied, last>>
vars     == <<dbVars, airVars, runVars, queue, starVars, auxVars, failures>>

Stars    == Dims \cup Facts
Sessions == 1..MaxSession
MqIds    == 1..MaxMq
Unread   == MaxMq + 1

StartSteps == {"assigned", "id_set", "count_set", "opened"}

TypeOK ==
  /\ ods \in [Sessions -> {"absent", "ready", "closed"}]
  /\ mq \in Seq([ods : 0..MaxSession, state : {1, 2}]) /\ Len(mq) <= MaxMq
  /\ varOds \in 0..MaxSession /\ varCount \in BOOLEAN /\ varMq \in 0..MaxMq
  /\ pc \in [Runs -> {"idle", "check", "launch", "wait", "finish", "finish_ods"} \cup StartSteps]
  /\ got \in [Runs -> 0..MaxSession]
  /\ own \in [Runs -> 0..MaxMq]
  /\ queue \in Seq(Runs \cup {Nobody})
  /\ stat \in [Stars -> {"todo", "running", "ok", "failed"}]
  /\ jobs \in [Stars -> Seq([mq : 0..Unread, waited : BOOLEAN])]
  /\ applied \in [Stars -> SUBSET Sessions]
  /\ last \in [Stars -> 0..MaxSession]
  /\ failures \in 0..MaxFail

Init ==
  /\ ods = [s \in Sessions |-> "absent"]
  /\ mq = <<>>
  /\ varOds = 0 /\ varCount = FALSE /\ varMq = 0
  /\ pc = [r \in Runs |-> "idle"]
  /\ got = [r \in Runs |-> 0]
  /\ own = [r \in Runs |-> 0]
  /\ queue = <<>>
  /\ stat = [k \in Stars |-> "todo"]
  /\ jobs = [k \in Stars |-> <<>>]
  /\ applied = [k \in Stars |-> {}]
  /\ last = [k \in Stars |-> 0]
  /\ failures = 0

Goto(r, step) == pc' = [pc EXCEPT ![r] = step]
InState(state) == {s \in Sessions : ods[s] = state}

(* Session of the ODS behind a SessionId; SessionId 0 has none.              *)
OdsOf(m) == IF m = 0 THEN 0 ELSE mq[m].ods

---------------------------------------------------------------------------
(* start_dwh_session.                                                        *)

(* Bound: a run that finds rows may still open its session of the DWH.       *)
RoomForSession ==
  Len(mq) + Cardinality({q \in Runs : pc[q] \in {"assigned", "id_set", "count_set"} /\ got[q] # 0})
    < MaxMq

(* EXEC dwh_AssignSessionID: the oldest ready session, or a new one when the *)
(* loader left rows in odins, or none.  The SQL Server call that fails while *)
(* packing returns row count -1, which the task takes for none; the session  *)
(* is in state 3 then and is never handed out.                               *)
Assign(r) ==
  /\ pc[r] = "idle"
  /\ \E s \in 0..MaxSession :
       /\ s # 0 => RoomForSession
       /\ \/ s \in InState("ready") /\ (\A t \in InState("ready") : s <= t) /\ UNCHANGED ods
          \/ /\ InState("ready") = {}
             /\ s \in InState("absent") /\ \A t \in InState("absent") : s <= t
             /\ ods' = [ods EXCEPT ![s] = "ready"]
          \/ InState("ready") = {} /\ s = 0 /\ UNCHANGED ods
       /\ got' = [got EXCEPT ![r] = s]
  /\ Goto(r, "assigned")
  /\ UNCHANGED <<mq, airVars, own, queue, starVars, auxVars, failures>>

(* Variable.set("dwh_session_id"), then Variable.set("dwh_session_count").   *)
SetId(r) ==
  /\ pc[r] = "assigned"
  /\ varOds' = got[r]
  /\ Goto(r, "id_set")
  /\ UNCHANGED <<dbVars, varCount, varMq, got, own, queue, starVars, auxVars, failures>>

SetCount(r) ==
  /\ pc[r] = "id_set"
  /\ varCount' = (got[r] # 0)
  /\ Goto(r, "count_set")
  /\ UNCHANGED <<dbVars, varOds, varMq, got, own, queue, starVars, auxVars, failures>>

(* The DWH session is made for whatever dwh_session_id holds by now.         *)
OpenDwh(r) ==
  /\ pc[r] = "count_set"
  /\ IF got[r] = 0
       THEN own' = [own EXCEPT ![r] = 0] /\ UNCHANGED mq
       ELSE /\ mq' = Append(mq, [ods |-> varOds, state |-> 1])
            /\ own' = [own EXCEPT ![r] = Len(mq) + 1]
  /\ Goto(r, "opened")
  /\ UNCHANGED <<ods, airVars, got, queue, starVars, auxVars, failures>>

(* Defect: session_id is set only the first time.                            *)
SessionVariable_Once(r) == IF varMq # 0 THEN varMq ELSE own[r]

SessionVariable(r) == own[r]

SetSession(r) ==
  /\ pc[r] = "opened"
  /\ varMq' = SessionVariable(r)
  /\ Goto(r, "check")
  /\ UNCHANGED <<dbVars, varOds, varCount, got, own, queue, starVars, auxVars, failures>>

(* IsNotEmpty: the rest of the run is skipped when the count is 0.           *)
IsNotEmpty(r) ==
  /\ pc[r] = "check"
  /\ Goto(r, IF varCount THEN "launch" ELSE "idle")
  /\ UNCHANGED <<dbVars, airVars, got, own, queue, starVars, auxVars, failures>>

(* Run_dwh_etl_Star_Launcher triggers a run of the launcher and waits.       *)
Launch(r) ==
  /\ pc[r] = "launch"
  /\ queue' = Append(queue, r)
  /\ Goto(r, "wait")
  /\ UNCHANGED <<dbVars, airVars, got, own, starVars, auxVars, failures>>

---------------------------------------------------------------------------
(* dwh_etl_Star_Launcher: only the first run of the queue is active.         *)

(* Defect: the facts do not wait for the dimensions.                         *)
MayTrigger_AtOnce(k) == TRUE

MayTrigger(k) == k \in Facts => \A d \in Dims : stat[d] = "ok"

TriggerStar(k) ==
  /\ queue # <<>>
  /\ stat[k] = "todo"
  /\ MayTrigger(k)
  /\ stat' = [stat EXCEPT ![k] = "running"]
  /\ jobs' = [jobs EXCEPT ![k] = Append(@, [mq |-> Unread, waited |-> TRUE])]
  /\ UNCHANGED <<dbVars, airVars, runVars, queue, auxVars, failures>>

(* Defect: a failed star does not fail the launcher.                         *)
AllStarsOk_Facts == \A k \in Facts : stat[k] # "running"

AllStarsOk == \A k \in Stars : stat[k] = "ok"

(* Defect: the launcher waits for the facts even when a dimension failed.    *)
NothingLeft_Facts == \A k \in Stars : stat[k] \in {"ok", "failed"}

(* Nothing runs and nothing more can be triggered.                           *)
NothingLeft == \A k \in Stars : stat[k] # "running" /\ ~(stat[k] = "todo" /\ MayTrigger(k))

(* The run of the launcher ends; the task that waits for it goes on, or      *)
(* fails with it and fails its run.                                          *)
LauncherEnds ==
  /\ queue # <<>>
  /\ NothingLeft
  /\ IF Head(queue) = Nobody
       THEN UNCHANGED pc
       ELSE Goto(Head(queue), IF AllStarsOk THEN "finish" ELSE "idle")
  /\ queue' = Tail(queue)
  /\ stat' = [k \in Stars |-> "todo"]
  /\ UNCHANGED <<dbVars, airVars, got, own, jobs, auxVars, failures>>

---------------------------------------------------------------------------
(* exec_publish of a star.                                                   *)

(* Defect: every run of the star's DAG is active, not only the first.        *)
Active_Any(k, i) == i \in 1..Len(jobs[k])

Active(k, i) == i = 1 /\ jobs[k] # <<>>

Without(q, i) == SubSeq(q, 1, i - 1) \o SubSeq(q, i + 1, Len(q))

(* It reads session_id when it starts ...                                    *)
StarReads(k, i) ==
  /\ Active(k, i)
  /\ jobs[k][i].mq = Unread
  /\ jobs' = [jobs EXCEPT ![k][i].mq = varMq]
  /\ UNCHANGED <<dbVars, airVars, runVars, queue, stat, auxVars, failures>>

(* ... and runs the three calls for that session.                            *)
StarApplies(k, i) ==
  /\ Active(k, i)
  /\ jobs[k][i].mq # Unread
  /\ LET s == OdsOf(jobs[k][i].mq) IN
       IF s = 0 THEN UNCHANGED auxVars
       ELSE /\ applied' = [applied EXCEPT ![k] = @ \cup {s}]
            /\ last' = [last EXCEPT ![k] = s]
  /\ stat' = IF jobs[k][i].waited THEN [stat EXCEPT ![k] = "ok"] ELSE stat
  /\ jobs' = [jobs EXCEPT ![k] = Without(@, i)]
  /\ UNCHANGED <<dbVars, airVars, runVars, queue, failures>>

---------------------------------------------------------------------------
(* finish_dwh_session reads both Variables again.                            *)

(* Defect: the state written to etl.DwhSession is written here too.          *)
Finished_Dwh == 4

Finished == 2

FinishDwh(r) ==
  /\ pc[r] = "finish"
  /\ mq' = IF varMq = 0 THEN mq ELSE [mq EXCEPT ![varMq].state = Finished]
  /\ Goto(r, "finish_ods")
  /\ UNCHANGED <<ods, airVars, got, own, queue, starVars, auxVars, failures>>

FinishOds(r) ==
  /\ pc[r] = "finish_ods"
  /\ ods' = IF varOds = 0 THEN ods ELSE [ods EXCEPT ![varOds] = "closed"]
  /\ Goto(r, "idle")
  /\ UNCHANGED <<mq, airVars, got, own, queue, starVars, auxVars, failures>>

---------------------------------------------------------------------------
(* Failures.  Tasks have no retries.                                         *)

Failing == failures < MaxFail /\ failures' = failures + 1

(* A task of dwh_etl_start fails; a launcher run it waits for goes on.       *)
RunFails(r) ==
  /\ Failing
  /\ pc[r] # "idle"
  /\ Goto(r, "idle")
  /\ queue' = [i \in 1..Len(queue) |-> IF queue[i] = r THEN Nobody ELSE queue[i]]
  /\ UNCHANGED <<dbVars, airVars, got, own, starVars, auxVars>>

(* exec_publish fails, before or after one of its transactions changed the   *)
(* star.                                                                     *)
StarFails(k, i) ==
  /\ Failing
  /\ Active(k, i)
  /\ \/ UNCHANGED last
     \/ jobs[k][i].mq # Unread /\ OdsOf(jobs[k][i].mq) # 0
          /\ last' = [last EXCEPT ![k] = OdsOf(jobs[k][i].mq)]
  /\ stat' = IF jobs[k][i].waited THEN [stat EXCEPT ![k] = "failed"] ELSE stat
  /\ jobs' = [jobs EXCEPT ![k] = Without(@, i)]
  /\ UNCHANGED <<dbVars, airVars, runVars, queue, applied>>

(* The launcher's task that waits for a star is lost; the star's run is not. *)
TriggerLost(k) ==
  /\ Failing
  /\ stat[k] = "running"
  /\ stat' = [stat EXCEPT ![k] = "failed"]
  /\ jobs' = [jobs EXCEPT ![k] =
                [i \in 1..Len(jobs[k]) |-> [jobs[k][i] EXCEPT !.waited = FALSE]]]
  /\ UNCHANGED <<dbVars, airVars, runVars, queue, auxVars>>

---------------------------------------------------------------------------
RunStep(r) ==
  \/ SetId(r) \/ SetCount(r) \/ OpenDwh(r) \/ SetSession(r) \/ IsNotEmpty(r) \/ Launch(r)
  \/ FinishDwh(r) \/ FinishOds(r)

StarStep(k) == \E i \in 1..Len(jobs[k]) : StarReads(k, i) \/ StarApplies(k, i)

Next ==
  \/ \E r \in Runs : Assign(r) \/ RunStep(r) \/ RunFails(r)
  \/ LauncherEnds
  \/ \E k \in Stars : TriggerStar(k) \/ StarStep(k) \/ TriggerLost(k)
  \/ \E k \in Stars : \E i \in 1..Len(jobs[k]) : StarFails(k, i)

Spec == Init /\ [][Next]_vars

(* Airflow's scheduler goes on with every task that can start.               *)
FairSpec ==
  /\ Spec
  /\ \A r \in Runs : WF_vars(RunStep(r))
  /\ WF_vars(LauncherEnds)
  /\ \A k \in Stars : WF_vars(TriggerStar(k)) /\ WF_vars(StarStep(k))

---------------------------------------------------------------------------
(* Properties.                                                               *)

(* State 4 of a session of the ODS means that its transfer is complete: it   *)
(* was applied to every star.                                                *)
ClosedIsApplied ==
  \A s \in InState("closed") : \A k \in Stars : s \in applied[k]

(* A session that is closed was applied to every star, in both databases:    *)
(* also one of the DWH in state 2.                                           *)
BothClosedAreApplied ==
  /\ ClosedIsApplied
  /\ \A m \in 1..Len(mq) : mq[m].state # 1 => \A k \in Stars : mq[m].ods \in applied[k]

(* No star ever applies an older session after a newer one, which would set  *)
(* documents back: not even by a run whose waiting task was lost and that    *)
(* goes on beside the runs started after it.                                 *)
StarsNeverStepBack == [][\A k \in Stars : last'[k] >= last[k]]_vars

(* A fact is not shown before the dimensions of its session.                 *)
FactsFollowDims ==
  \A f \in Facts, d \in Dims : applied[f] \subseteq applied[d]

(* Every run of dwh_etl_start ends, also when runs wait for each other's     *)
(* launcher and star runs and some of them fail.                             *)
RunsEnd == \A r \in Runs : pc[r] # "idle" ~> pc[r] = "idle"
============================================================================
