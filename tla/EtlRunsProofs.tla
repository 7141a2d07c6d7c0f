--------------------------- MODULE EtlRunsProofs ---------------------------
(***************************************************************************)
(* Proofs about EtlRuns, for every set of stars and any number of sessions  *)
(* and failures, when runs of dwh_etl_start do not overlap.  The launcher   *)
(* and star runs that failed runs leave behind do overlap with later ones.  *)
(***************************************************************************)
EXTENDS EtlRuns, FiniteSetTheorems, SequenceTheorems, TLAPS

(* The next run of dwh_etl_start is started when the last one is over.       *)
OneRunAtATime == \A r, q \in Runs : r = q

---------------------------------------------------------------------------
(* The inductive invariant, in named parts.                                  *)

(* A launcher run or the run of a star's DAG is under way.                   *)
Busy == queue # <<>> \/ \E k \in Stars : jobs[k] # <<>>

(* Sessions of the ODS are used in their order; a ready one is the newest.   *)
OdsInv ==
  \A s, t \in Sessions : s < t =>
    /\ ods[s] = "absent" => ods[t] = "absent"
    /\ ods[s] = "ready" => ods[t] = "absent"

(* A session of the DWH is of one of the ODS that was ready, and is finished *)
(* only when that one was applied to every star.                             *)
MqInv ==
  \A m \in 1..Len(mq) :
    /\ mq[m].ods \in Sessions
    /\ mq[m].state # 1 => \A k \in Stars : mq[m].ods \in applied[k]

AfterSet   == {"check", "launch", "wait", "finish", "finish_ods"}
AfterOpen  == {"opened"} \cup AfterSet
AfterCount == {"count_set"} \cup AfterOpen
AfterId    == {"id_set"} \cup AfterCount

(* The Variables hold what the run has set; its session stays ready, and     *)
(* when it found none there is none; when it finishes nothing is under way   *)
(* and its session was applied to every star.                                *)
RunInv ==
  \A r \in Runs :
    /\ pc[r] # "idle" => IF got[r] = 0 THEN InState("ready") = {}
                                       ELSE got[r] \in InState("ready")
    /\ pc[r] \in StartSteps \ {"opened"} /\ got[r] # 0 => Len(mq) < MaxMq
    /\ pc[r] \in AfterId => varOds = got[r]
    /\ pc[r] \in AfterCount => varCount = (got[r] # 0)
    /\ pc[r] \in AfterOpen => IF got[r] = 0 THEN own[r] = 0
                              ELSE own[r] \in 1..Len(mq) /\ mq[own[r]].ods = got[r]
    /\ pc[r] \in AfterSet => varMq = own[r]
    /\ pc[r] \in AfterSet \ {"check"} => got[r] # 0
    /\ pc[r] \in {"finish", "finish_ods"} => ~Busy /\ \A k \in Stars : got[r] \in applied[k]

(* A run waits for the last launcher run only.                               *)
QueueInv ==
  \A i \in 1..Len(queue) : queue[i] \in Runs => i = Len(queue) /\ pc[queue[i]] = "wait"

(* While anything is under way, session_id belongs to the ready session.     *)
BusyInv == Busy => varMq \in 1..Len(mq) /\ mq[varMq].ods \in InState("ready")

(* Only the last run of a star is waited for; a star that is ok has no run   *)
(* left, and a run that has read session_id has read the ready session.      *)
JobInv ==
  \A k \in Stars :
    /\ \A i \in 1..Len(jobs[k]) :
         /\ jobs[k][i].waited <=> stat[k] = "running" /\ i = Len(jobs[k])
         /\ jobs[k][i].mq # Unread =>
              jobs[k][i].mq \in 1..Len(mq) /\ mq[jobs[k][i].mq].ods \in InState("ready")
    /\ stat[k] = "running" => jobs[k] # <<>>
    /\ stat[k] = "ok" => jobs[k] = <<>>
    /\ queue = <<>> => stat[k] = "todo"

(* A star that is ok has applied the ready session, and a fact is triggered  *)
(* only when all dimensions have.                                            *)
AppliedInv ==
  \A s \in InState("ready") :
    /\ \A k \in Stars : stat[k] = "ok" => s \in applied[k]
    /\ \A f \in Facts, d \in Dims : jobs[f] # <<>> => s \in applied[d]

(* No star was changed last by a session newer than the ready one.           *)
LastInv == \A k \in Stars : last[k] # 0 => ods[last[k]] # "absent"

Inv ==
  /\ TypeOK /\ OdsInv /\ MqInv /\ RunInv /\ QueueInv /\ BusyInv /\ JobInv
  /\ AppliedInv /\ LastInv
  /\ ClosedIsApplied /\ FactsFollowDims

---------------------------------------------------------------------------
(* The queue of a star.                                                      *)

Job == [mq : 0..Unread, waited : BOOLEAN]

(* The active run of a star is the first, and leaves the queue at its head.  *)
LEMMA WithoutFirst ==
  ASSUME NEW S, NEW q \in Seq(S), q # <<>>
  PROVE  /\ Without(q, 1) \in Seq(S)
         /\ Len(q) \in Nat \ {0} /\ Len(Without(q, 1)) = Len(q) - 1
         /\ \A i \in 1..(Len(q) - 1) : Without(q, 1)[i] = q[i + 1]
         /\ q[1] \in S
<1>1. Len(q) \in Nat \ {0}
  BY EmptySeq
<1>2. SubSeq(q, 1, 1 - 1) = <<>>
  BY SubSeqEmpty
<1>3. SubSeq(q, 1 + 1, Len(q)) = Tail(q)
  BY TailIsSubSeq
<1>4. /\ Tail(q) \in Seq(S) /\ Len(Tail(q)) = Len(q) - 1
      /\ \A i \in 1..Len(Tail(q)) : Tail(q)[i] = q[i + 1]
  BY HeadTailProperties
<1>5. Without(q, 1) = Tail(q)
  BY <1>2, <1>3, <1>4, ConcatEmptySeq DEF Without
<1>6. q[1] \in S
  BY <1>1, ElementOfSeq
<1> QED
  BY <1>1, <1>4, <1>5, <1>6

LEMMA TypeFacts ==
  ASSUME TypeOK
  PROVE  /\ MaxSession \in Nat /\ MaxMq \in Nat /\ MaxFail \in Nat /\ Unread \in Nat
         /\ \A s \in Sessions : s \in Nat /\ s # 0
         /\ Len(mq) \in Nat /\ Len(queue) \in Nat
         /\ \A m \in 1..Len(mq) : mq[m] \in [ods : 0..MaxSession, state : {1, 2}]
         /\ \A k \in Stars : jobs[k] \in Seq(Job) /\ Len(jobs[k]) \in Nat
         /\ \A k \in Stars : \A i \in 1..Len(jobs[k]) : jobs[k][i] \in Job
<1>1. mq \in Seq([ods : 0..MaxSession, state : {1, 2}]) /\ queue \in Seq(Runs \cup {Nobody})
  BY DEF TypeOK
<1>2. Len(mq) \in Nat /\ Len(queue) \in Nat
  BY <1>1
<1>3. \A m \in 1..Len(mq) : mq[m] \in [ods : 0..MaxSession, state : {1, 2}]
  BY <1>1, ElementOfSeq
<1>4. \A k \in Stars : jobs[k] \in Seq(Job)
  BY DEF TypeOK, Job
<1>5. \A k \in Stars : Len(jobs[k]) \in Nat /\ \A i \in 1..Len(jobs[k]) : jobs[k][i] \in Job
  BY <1>4
<1> QED
  BY <1>2, <1>3, <1>4, <1>5, BoundsAssumption DEF Sessions, Unread

---------------------------------------------------------------------------
(* The invariant holds at first, and every step keeps it.                    *)

LEMMA InitInv == Init => Inv
<1> SUFFICES ASSUME Init PROVE Inv
  OBVIOUS
<1> USE DEF Init
<1>1. TypeOK
  <2>1. \A S : <<>> \in Seq(S)
    BY EmptySeq
  <2>2. Len(mq) = 0
    BY EmptySeq
  <2>3. \A n \in Nat : 0 \in 0..n /\ 0 <= n
    OBVIOUS
  <2>4. jobs \in [Stars -> Seq([mq : 0..Unread, waited : BOOLEAN])]
    BY <2>1
  <2>5. mq \in Seq([ods : 0..MaxSession, state : {1, 2}]) /\ queue \in Seq(Runs \cup {Nobody})
    BY <2>1
  <2>6. stat \in [Stars -> {"todo", "running", "ok", "failed"}]
    OBVIOUS
  <2>7. pc \in [Runs -> {"idle", "check", "launch", "wait", "finish", "finish_ods"} \cup StartSteps]
    OBVIOUS
  <2> QED
    BY <2>2, <2>3, <2>4, <2>5, <2>6, <2>7, BoundsAssumption DEF TypeOK
<1>2. ~Busy /\ InState("ready") = {} /\ InState("closed") = {} /\ Len(mq) = 0 /\ Len(queue) = 0
  BY EmptySeq DEF Busy, InState
<1>3. OdsInv /\ MqInv /\ RunInv /\ QueueInv /\ BusyInv
  BY <1>2 DEF OdsInv, MqInv, RunInv, QueueInv, BusyInv, AfterId, AfterCount, AfterOpen, AfterSet,
              StartSteps
<1>4. JobInv
  <2>1. \A k \in Stars : Len(jobs[k]) = 0
    BY EmptySeq
  <2> QED
    BY <2>1 DEF JobInv
<1>5. AppliedInv /\ LastInv /\ ClosedIsApplied
  BY <1>2 DEF AppliedInv, LastInv, ClosedIsApplied
<1>6. FactsFollowDims
  BY DEF FactsFollowDims, Stars
<1> QED
  BY <1>1, <1>3, <1>4, <1>5, <1>6 DEF Inv

(* Steps of a run that leave the stars, and what they have read, alone.      *)
LEMMA SameStars ==
  ASSUME Inv, UNCHANGED <<ods, mq, varMq, queue, stat, jobs, applied, last>>
  PROVE  /\ OdsInv' /\ MqInv' /\ BusyInv' /\ JobInv' /\ AppliedInv' /\ LastInv'
         /\ ClosedIsApplied' /\ FactsFollowDims'
         /\ Busy' = Busy /\ InState("ready")' = InState("ready")
<1> USE DEF Inv
<1>1. Busy' = Busy /\ \A state : InState(state)' = InState(state)
  BY DEF Busy, InState
<1>2. OdsInv' /\ MqInv' /\ BusyInv' /\ LastInv'
  BY <1>1 DEF OdsInv, MqInv, BusyInv, LastInv
<1>3. JobInv' /\ AppliedInv'
  BY <1>1 DEF JobInv, AppliedInv
<1>4. ClosedIsApplied' /\ FactsFollowDims'
  BY <1>1 DEF ClosedIsApplied, FactsFollowDims
<1> QED
  BY <1>1, <1>2, <1>3, <1>4

(* A run that does not wait is not in the queue.                             *)
LEMMA NotWaiting ==
  ASSUME Inv, OneRunAtATime, NEW r \in Runs, pc[r] # "wait",
         queue' = queue
  PROVE  QueueInv'
BY DEF Inv, QueueInv, OneRunAtATime

LEMMA SetVariablesInv ==
  ASSUME Inv, OneRunAtATime, NEW r \in Runs, SetId(r) \/ SetCount(r) \/ IsNotEmpty(r)
  PROVE  Inv'
<1> USE DEF Inv
<1>1. /\ UNCHANGED <<ods, mq, varMq, got, own, queue, stat, jobs, applied, last, failures>>
      /\ pc' = [pc EXCEPT ![r] = pc'[r]]
      /\ \/ pc[r] = "assigned" /\ pc'[r] = "id_set" /\ varOds' = got[r] /\ varCount' = varCount
         \/ pc[r] = "id_set" /\ pc'[r] = "count_set" /\ varCount' = (got[r] # 0)
              /\ varOds' = varOds
         \/ pc[r] = "check" /\ pc'[r] = (IF varCount THEN "launch" ELSE "idle")
              /\ UNCHANGED <<varOds, varCount>>
  BY DEF SetId, SetCount, IsNotEmpty, Goto, dbVars, starVars, auxVars, airVars, TypeOK
<1>2. TypeOK'
  <2>1. pc' \in [Runs -> {"idle", "check", "launch", "wait", "finish", "finish_ods"} \cup StartSteps]
    BY <1>1 DEF TypeOK, StartSteps
  <2>2. varOds' \in 0..MaxSession
    BY <1>1 DEF TypeOK
  <2>3. varCount' \in BOOLEAN
    <3>1. varCount' = varCount \/ varCount' = (got[r] # 0)
      BY <1>1
    <3>2. varCount \in BOOLEAN
      BY DEF TypeOK
    <3> QED
      BY <3>1, <3>2
  <2> QED
    BY <1>1, <2>1, <2>2, <2>3 DEF TypeOK
<1>3. QueueInv'
  BY <1>1, NotWaiting
<1>4. RunInv'
  <2>1. \A q \in Runs : q = r
    BY DEF OneRunAtATime
  <2>2. Busy' = Busy /\ InState("ready")' = InState("ready")
    BY <1>1, SameStars
  <2>3. CASE pc[r] = "assigned"
    BY <1>1, <2>1, <2>2, <2>3 DEF RunInv, StartSteps, AfterId, AfterCount, AfterOpen, AfterSet
  <2>4. CASE pc[r] = "id_set"
    BY <1>1, <2>1, <2>2, <2>4 DEF RunInv, StartSteps, AfterId, AfterCount, AfterOpen, AfterSet
  <2>5. CASE pc[r] = "check"
    BY <1>1, <2>1, <2>2, <2>5 DEF RunInv, StartSteps, AfterId, AfterCount, AfterOpen, AfterSet
  <2> QED
    BY <1>1, <2>3, <2>4, <2>5
<1> QED
  BY <1>1, <1>2, <1>3, <1>4, SameStars

LEMMA AssignInv ==
  ASSUME Inv, OneRunAtATime, NEW r \in Runs, Assign(r)
  PROVE  Inv'
<1> USE DEF Inv
<1>1. /\ UNCHANGED <<mq, varOds, varCount, varMq, own, queue, stat, jobs, applied, last, failures>>
      /\ pc[r] = "idle" /\ pc' = [pc EXCEPT ![r] = "assigned"]
  BY DEF Assign, Goto, airVars, starVars, auxVars
<1>2. PICK s \in 0..MaxSession :
        /\ s # 0 => RoomForSession
        /\ \/ s \in InState("ready") /\ (\A t \in InState("ready") : s <= t) /\ UNCHANGED ods
           \/ /\ InState("ready") = {}
              /\ s \in InState("absent") /\ \A t \in InState("absent") : s <= t
              /\ ods' = [ods EXCEPT ![s] = "ready"]
           \/ InState("ready") = {} /\ s = 0 /\ UNCHANGED ods
        /\ got' = [got EXCEPT ![r] = s]
  BY DEF Assign
<1>3. \A q \in Runs : q = r
  BY DEF OneRunAtATime
<1>4. /\ MaxSession \in Nat /\ \A t \in Sessions : t \in Nat /\ t # 0
      /\ Len(mq) \in Nat /\ MaxMq \in Nat
  BY TypeFacts
<1>5. s # 0 => Len(mq) < MaxMq
  <2>1. {q \in Runs : pc[q] \in {"assigned", "id_set", "count_set"} /\ got[q] # 0} = {}
    BY <1>1, <1>3
  <2>2. Cardinality({q \in Runs : pc[q] \in {"assigned", "id_set", "count_set"} /\ got[q] # 0}) = 0
    BY <2>1, FS_EmptySet
  <2>3. RoomForSession => Len(mq) + 0 < MaxMq
    BY <2>2 DEF RoomForSession
  <2> QED
    BY <1>2, <1>4, <2>3
<1>6. TypeOK'
  <2>1. ods' \in [Sessions -> {"absent", "ready", "closed"}]
    BY <1>2 DEF TypeOK
  <2>2. pc' \in [Runs -> {"idle", "check", "launch", "wait", "finish", "finish_ods"} \cup StartSteps]
    BY <1>1 DEF TypeOK, StartSteps
  <2>3. got' \in [Runs -> 0..MaxSession]
    BY <1>2 DEF TypeOK
  <2> QED
    BY <1>1, <2>1, <2>2, <2>3 DEF TypeOK
(* Either nothing changes in the ODS, or there was no ready session and the  *)
(* next one becomes it.                                                      *)
<1>7. \/ ods' = ods /\ s \in InState("ready")
      \/ ods' = ods /\ InState("ready") = {} /\ s = 0
      \/ /\ InState("ready") = {} /\ s \in Sessions /\ ods[s] = "absent"
         /\ \A t \in Sessions : ods[t] = "absent" => s <= t
         /\ \A t \in Sessions : ods'[t] = IF t = s THEN "ready" ELSE ods[t]
  BY <1>2 DEF InState, TypeOK
<1>8. QueueInv'
  BY <1>1, NotWaiting
<1>9. Busy' = Busy
  BY <1>1 DEF Busy
<1>10. Busy => InState("ready") # {}
  BY DEF BusyInv
<1>11. RunInv'
  <2>1. got'[r] = s /\ pc'[r] = "assigned"
    BY <1>1, <1>2 DEF TypeOK
  <2>2. IF s = 0 THEN InState("ready")' = {} ELSE s \in InState("ready")'
    BY <1>4, <1>7 DEF InState
  <2> QED
    BY <1>1, <1>3, <1>5, <2>1, <2>2
       DEF RunInv, StartSteps, AfterId, AfterCount, AfterOpen, AfterSet
<1>12. CASE ods' = ods
  <2>1. OdsInv' /\ MqInv' /\ BusyInv' /\ JobInv' /\ AppliedInv' /\ LastInv'
        /\ ClosedIsApplied' /\ FactsFollowDims'
    BY <1>1, <1>12, SameStars
  <2> QED
    BY <1>6, <1>8, <1>11, <2>1
<1>13. CASE /\ InState("ready") = {} /\ s \in Sessions /\ ods[s] = "absent"
            /\ \A t \in Sessions : ods[t] = "absent" => s <= t
            /\ \A t \in Sessions : ods'[t] = IF t = s THEN "ready" ELSE ods[t]
  <2>1. ~Busy
    BY <1>10, <1>13
  <2>2. OdsInv'
    BY <1>4, <1>13 DEF OdsInv, InState
  <2>3. MqInv' /\ FactsFollowDims'
    BY <1>1 DEF MqInv, FactsFollowDims
  <2>4. BusyInv'
    BY <1>9, <2>1 DEF BusyInv
  <2>5. JobInv'
    <3>1. \A k \in Stars : Len(jobs[k]) = 0
      BY <2>1, EmptySeq DEF Busy
    <3> QED
      BY <1>1, <3>1 DEF JobInv
  <2>6. AppliedInv'
    <3>1. \A k \in Stars : stat[k] = "todo" /\ jobs[k] = <<>>
      BY <2>1 DEF Busy, JobInv
    <3>2. Facts \subseteq Stars
      BY DEF Stars
    <3> QED
      BY <1>1, <3>1, <3>2 DEF AppliedInv
  <2>7. LastInv' /\ ClosedIsApplied'
    <3>1. \A k \in Stars : last[k] # 0 => last[k] \in Sessions
      BY DEF TypeOK, Sessions
    <3> QED
      BY <1>1, <1>13, <3>1 DEF LastInv, ClosedIsApplied, InState
  <2> QED
    BY <1>6, <1>8, <1>11, <2>2, <2>3, <2>4, <2>5, <2>6, <2>7
<1> QED
  BY <1>7, <1>12, <1>13

LEMMA OpenDwhInv ==
  ASSUME Inv, OneRunAtATime, NEW r \in Runs, OpenDwh(r)
  PROVE  Inv'
<1> USE DEF Inv
<1>1. /\ UNCHANGED <<ods, varOds, varCount, varMq, got, queue, stat, jobs, applied, last, failures>>
      /\ pc[r] = "count_set" /\ pc' = [pc EXCEPT ![r] = "opened"]
  BY DEF OpenDwh, Goto, airVars, starVars, auxVars
<1>2. \A q \in Runs : q = r
  BY DEF OneRunAtATime
<1>3. /\ Busy' = Busy /\ InState("ready")' = InState("ready") /\ InState("closed")' = InState("closed")
      /\ QueueInv'
  BY <1>1, NotWaiting DEF Busy, InState
<1>4. pc' \in [Runs -> {"idle", "check", "launch", "wait", "finish", "finish_ods"} \cup StartSteps]
  BY <1>1 DEF TypeOK, StartSteps
<1>5. CASE got[r] = 0
  <2>1. mq' = mq /\ own' = [own EXCEPT ![r] = 0]
    BY <1>5 DEF OpenDwh
  <2>2. own' \in [Runs -> 0..MaxMq]
    <3>1. 0 \in 0..MaxMq
      BY TypeFacts
    <3> QED
      BY <2>1, <3>1 DEF TypeOK
  <2>3. TypeOK'
    BY <1>1, <1>4, <2>1, <2>2 DEF TypeOK
  <2>4. RunInv'
    BY <1>1, <1>2, <1>3, <1>5, <2>1
       DEF RunInv, TypeOK, StartSteps, AfterId, AfterCount, AfterOpen, AfterSet
  <2> QED
    BY <1>1, <1>3, <2>1, <2>3, <2>4, SameStars
<1>6. CASE got[r] # 0
  <2> DEFINE row == [ods |-> varOds, state |-> 1]
             n == Len(mq)
  <2>1. mq' = Append(mq, row) /\ own' = [own EXCEPT ![r] = n + 1]
    BY <1>6 DEF OpenDwh
  <2>2. /\ varOds = got[r] /\ got[r] \in InState("ready") /\ got[r] \in Sessions /\ n < MaxMq
    BY <1>1, <1>6 DEF RunInv, InState, StartSteps, AfterId, AfterCount
  <2>3. n \in Nat /\ MaxMq \in Nat /\ MaxSession \in Nat
    BY TypeFacts
  <2>4. row \in [ods : 0..MaxSession, state : {1, 2}]
    BY <2>2 DEF TypeOK
  <2>5. /\ mq' \in Seq([ods : 0..MaxSession, state : {1, 2}]) /\ Len(mq') = n + 1
        /\ mq'[n + 1] = row /\ \A m \in 1..n : mq'[m] = mq[m]
    <3>1. mq \in Seq([ods : 0..MaxSession, state : {1, 2}])
      BY DEF TypeOK
    <3> HIDE DEF row
    <3> QED
      BY <2>1, <2>4, <3>1
  <2> HIDE DEF n
  <2>6. \A m \in 1..Len(mq') :
           (m \in 1..n /\ mq'[m] = mq[m]) \/ (mq'[m].ods = got[r] /\ mq'[m].state = 1)
    <3>1. row.ods = got[r] /\ row.state = 1
      BY <2>2
    <3>2. \A m \in 1..Len(mq') : m \in 1..n \/ m = n + 1
      BY <2>3, <2>5
    <3> QED
      BY <2>5, <3>1, <3>2
  <2>7. \A m \in 1..n : m \in 1..Len(mq') /\ mq'[m] = mq[m]
    BY <2>3, <2>5
  <2>8. TypeOK'
    <3>1. own' \in [Runs -> 0..MaxMq] /\ Len(mq') <= MaxMq
      BY <2>1, <2>2, <2>3, <2>5 DEF TypeOK
    <3> QED
      BY <1>1, <1>4, <2>5, <3>1 DEF TypeOK
  <2>9. MqInv'
    BY <1>1, <2>2, <2>6 DEF MqInv, n
  <2>10. BusyInv'
    BY <1>1, <1>3, <2>7 DEF BusyInv, n
  <2>11. JobInv'
    BY <1>1, <1>3, <2>7 DEF JobInv, n
  <2>12. RunInv'
    <3>1. own'[r] = n + 1 /\ n + 1 \in 1..Len(mq') /\ mq'[n + 1].ods = got[r]
      BY <2>1, <2>2, <2>3, <2>5 DEF TypeOK
    <3> QED
      BY <1>1, <1>2, <1>3, <1>6, <3>1
         DEF RunInv, TypeOK, StartSteps, AfterId, AfterCount, AfterOpen, AfterSet
  <2>13. OdsInv' /\ AppliedInv' /\ LastInv' /\ ClosedIsApplied' /\ FactsFollowDims'
    BY <1>1, <1>3 DEF OdsInv, AppliedInv, LastInv, ClosedIsApplied, FactsFollowDims
  <2> QED
    BY <1>3, <2>8, <2>9, <2>10, <2>11, <2>12, <2>13
<1> QED
  BY <1>5, <1>6

LEMMA SetSessionInv ==
  ASSUME Inv, OneRunAtATime, NEW r \in Runs, SetSession(r)
  PROVE  Inv'
<1> USE DEF Inv
<1>1. /\ UNCHANGED <<ods, mq, varOds, varCount, got, own, queue, stat, jobs, applied, last, failures>>
      /\ pc[r] = "opened" /\ pc' = [pc EXCEPT ![r] = "check"] /\ varMq' = own[r]
  BY DEF SetSession, SessionVariable, Goto, dbVars, starVars, auxVars
<1>2. \A q \in Runs : q = r
  BY DEF OneRunAtATime
<1>3. /\ Busy' = Busy /\ InState("ready")' = InState("ready") /\ InState("closed")' = InState("closed")
      /\ QueueInv'
  BY <1>1, NotWaiting DEF Busy, InState
<1>4. TypeOK'
  <2>1. pc' \in [Runs -> {"idle", "check", "launch", "wait", "finish", "finish_ods"} \cup StartSteps]
    BY <1>1 DEF TypeOK, StartSteps
  <2> QED
    BY <1>1, <2>1 DEF TypeOK
<1>5. RunInv'
  BY <1>1, <1>2, <1>3 DEF RunInv, TypeOK, StartSteps, AfterId, AfterCount, AfterOpen, AfterSet
<1>6. BusyInv'
  <2>1. Busy => InState("ready") # {}
    BY DEF BusyInv
  <2>2. Busy => own[r] \in 1..Len(mq) /\ mq[own[r]].ods \in InState("ready")
    BY <1>1, <2>1 DEF RunInv, AfterOpen
  <2> QED
    BY <1>1, <1>3, <2>2 DEF BusyInv
<1>7. OdsInv' /\ MqInv' /\ JobInv' /\ AppliedInv' /\ LastInv' /\ ClosedIsApplied' /\ FactsFollowDims'
  BY <1>1, <1>3
     DEF OdsInv, MqInv, JobInv, AppliedInv, LastInv, ClosedIsApplied, FactsFollowDims
<1> QED
  BY <1>3, <1>4, <1>5, <1>6, <1>7

LEMMA LaunchInv ==
  ASSUME Inv, OneRunAtATime, NEW r \in Runs, Launch(r)
  PROVE  Inv'
<1> USE DEF Inv
<1>1. /\ UNCHANGED <<ods, mq, varOds, varCount, varMq, got, own, stat, jobs, applied, last, failures>>
      /\ pc[r] = "launch" /\ pc' = [pc EXCEPT ![r] = "wait"] /\ queue' = Append(queue, r)
  BY DEF Launch, Goto, dbVars, airVars, starVars, auxVars
<1>2. \A q \in Runs : q = r
  BY DEF OneRunAtATime
<1>3. /\ queue' \in Seq(Runs \cup {Nobody}) /\ Len(queue') = Len(queue) + 1
      /\ queue'[Len(queue) + 1] = r /\ \A i \in 1..Len(queue) : queue'[i] = queue[i]
      /\ Len(queue) \in Nat
  BY <1>1 DEF TypeOK
<1>4. queue' # <<>>
  BY <1>3, EmptySeq
<1>5. pc'[r] = "wait" /\ pc' \in [Runs -> {"idle", "check", "launch", "wait", "finish", "finish_ods"}
                                           \cup StartSteps]
  BY <1>1 DEF TypeOK
<1>6. TypeOK'
  BY <1>1, <1>3, <1>5 DEF TypeOK
<1>7. QueueInv'
  <2>1. \A i \in 1..Len(queue) : queue[i] \notin Runs
    BY <1>1, <1>2 DEF QueueInv
  <2>2. \A i \in 1..Len(queue') : i \in 1..Len(queue) \/ i = Len(queue')
    BY <1>3
  <2> QED
    BY <1>2, <1>3, <1>5, <2>1, <2>2 DEF QueueInv
<1>8. InState("ready")' = InState("ready") /\ InState("closed")' = InState("closed")
  BY <1>1 DEF InState
<1>9. RunInv'
  BY <1>1, <1>2, <1>5, <1>8 DEF RunInv, StartSteps, AfterId, AfterCount, AfterOpen, AfterSet
<1>10. BusyInv'
  BY <1>1, <1>8 DEF BusyInv, RunInv, AfterOpen, AfterSet
<1>11. JobInv'
  BY <1>1, <1>4, <1>8 DEF JobInv
<1>12. OdsInv' /\ MqInv' /\ AppliedInv' /\ LastInv' /\ ClosedIsApplied' /\ FactsFollowDims'
  BY <1>1, <1>8 DEF OdsInv, MqInv, AppliedInv, LastInv, ClosedIsApplied, FactsFollowDims
<1> QED
  BY <1>6, <1>7, <1>9, <1>10, <1>11, <1>12

---------------------------------------------------------------------------
(* The launcher and the stars.                                               *)

(* While anything is under way, no run is about to finish: a step of the     *)
(* launcher or of a star only has to keep what they know themselves.         *)
LEMMA BusyRuns ==
  ASSUME Inv, Busy, UNCHANGED <<ods, mq, varOds, varCount, varMq, pc, got, own>>
  PROVE  RunInv' /\ OdsInv' /\ BusyInv' /\ \A state : InState(state)' = InState(state)
<1> USE DEF Inv
<1>1. \A state : InState(state)' = InState(state)
  BY DEF InState
<1>2. \A r \in Runs : pc[r] \notin {"finish", "finish_ods"}
  BY DEF RunInv
<1>3. RunInv'
  BY <1>1, <1>2 DEF RunInv
<1> QED
  BY <1>1, <1>3 DEF OdsInv, BusyInv

LEMMA TriggerStarInv ==
  ASSUME Inv, NEW k \in Stars, TriggerStar(k)
  PROVE  Inv'
<1> USE DEF Inv
<1> DEFINE job == [mq |-> Unread, waited |-> TRUE]
           n == Len(jobs[k])
<1>1. /\ UNCHANGED <<ods, mq, varOds, varCount, varMq, pc, got, own, queue, applied, last, failures>>
      /\ queue # <<>> /\ stat[k] = "todo" /\ MayTrigger(k)
      /\ stat' = [stat EXCEPT ![k] = "running"]
      /\ jobs' = [jobs EXCEPT ![k] = Append(jobs[k], job)]
  BY DEF TriggerStar, dbVars, airVars, runVars, auxVars
<1>2. /\ Unread \in Nat /\ n \in Nat /\ jobs[k] \in Seq(Job) /\ job \in Job
      /\ job.mq = Unread /\ job.waited = TRUE
  <2>1. Unread \in Nat /\ n \in Nat /\ jobs[k] \in Seq(Job)
    BY TypeFacts
  <2>2. Unread \in 0..Unread
    BY <2>1
  <2> QED
    BY <2>1, <2>2 DEF Job
<1> HIDE DEF job
<1>3. /\ jobs'[k] \in Seq(Job) /\ Len(jobs'[k]) = n + 1 /\ jobs'[k][n + 1] = job
      /\ \A i \in 1..n : jobs'[k][i] = jobs[k][i]
  BY <1>1, <1>2 DEF TypeOK
<1>4. \A j \in Stars : j # k => jobs'[j] = jobs[j] /\ stat'[j] = stat[j]
  BY <1>1 DEF TypeOK
<1>5. stat'[k] = "running" /\ jobs'[k] # <<>>
  <2>1. stat'[k] = "running"
    BY <1>1 DEF TypeOK
  <2>2. Len(jobs'[k]) # 0
    BY <1>2, <1>3
  <2> QED
    BY <2>1, <2>2, <1>3, EmptySeq
<1>6. TypeOK'
  <2>1. jobs' \in [Stars -> Seq(Job)]
    BY <1>1, <1>3, <1>4 DEF TypeOK, Job
  <2>2. stat' \in [Stars -> {"todo", "running", "ok", "failed"}]
    BY <1>1 DEF TypeOK
  <2> QED
    BY <1>1, <2>1, <2>2 DEF TypeOK, Job
<1>7. /\ RunInv' /\ OdsInv' /\ BusyInv' /\ InState("ready")' = InState("ready")
      /\ InState("closed")' = InState("closed")
  BY <1>1, BusyRuns DEF Busy
<1>8. JobInv'
  <2>1. \A i \in 1..n : jobs[k][i].waited # TRUE
    BY <1>1 DEF JobInv
  <2>2. \A i \in 1..n : jobs[k][i] \in Job
    BY TypeFacts
  <2>3. \A i \in 1..(n + 1) : /\ jobs'[k][i].waited <=> i = n + 1
                              /\ jobs'[k][i].mq # Unread => i \in 1..n /\ jobs'[k][i] = jobs[k][i]
    <3>1. \A i \in 1..(n + 1) : i \in 1..n \/ i = n + 1
      BY <1>2
    <3>2. n + 1 \notin 1..n
      BY <1>2
    <3> QED
      BY <1>2, <1>3, <2>1, <2>2, <3>1, <3>2 DEF Job
  <2>4. \A i \in 1..Len(jobs'[k]) :
          /\ jobs'[k][i].waited <=> stat'[k] = "running" /\ i = Len(jobs'[k])
          /\ jobs'[k][i].mq # Unread =>
               jobs'[k][i].mq \in 1..Len(mq) /\ mq[jobs'[k][i].mq].ods \in InState("ready")
    BY <1>3, <1>5, <2>3 DEF JobInv
  <2> QED
    BY <1>1, <1>4, <1>5, <1>7, <2>4 DEF JobInv
<1>9. AppliedInv'
  <2>1. k \in Facts => \A s \in InState("ready") : \A d \in Dims : s \in applied[d]
    BY <1>1 DEF MayTrigger, AppliedInv, Stars
  <2>2. \A f \in Facts : f # k => jobs'[f] = jobs[f]
    BY <1>4 DEF Stars
  <2>3. \A j \in Stars : stat'[j] = "ok" => stat[j] = "ok"
    BY <1>4, <1>5
  <2> QED
    BY <1>1, <1>7, <2>1, <2>2, <2>3 DEF AppliedInv
<1>10. QueueInv' /\ MqInv' /\ LastInv' /\ ClosedIsApplied' /\ FactsFollowDims'
  BY <1>1, <1>7 DEF QueueInv, MqInv, LastInv, ClosedIsApplied, FactsFollowDims
<1> QED
  BY <1>6, <1>7, <1>8, <1>9, <1>10

LEMMA LauncherEndsInv ==
  ASSUME Inv, OneRunAtATime, LauncherEnds
  PROVE  Inv'
<1> USE DEF Inv
<1>1. /\ UNCHANGED <<ods, mq, varOds, varCount, varMq, got, own, jobs, applied, last, failures>>
      /\ queue # <<>> /\ NothingLeft /\ queue' = Tail(queue)
      /\ stat' = [k \in Stars |-> "todo"]
      /\ IF Head(queue) = Nobody THEN pc' = pc
         ELSE pc' = [pc EXCEPT ![Head(queue)] = IF AllStarsOk THEN "finish" ELSE "idle"]
  BY DEF LauncherEnds, Goto, dbVars, airVars, auxVars
<1>2. /\ Head(queue) = queue[1] /\ queue[1] \in Runs \cup {Nobody}
      /\ Len(queue) \in Nat \ {0} /\ queue' \in Seq(Runs \cup {Nobody})
      /\ Len(queue') = Len(queue) - 1
      /\ \A i \in 1..Len(queue') : queue'[i] = queue[i + 1]
  <2>1. queue \in Seq(Runs \cup {Nobody}) /\ Len(queue) \in Nat \ {0}
    BY <1>1, EmptySeq DEF TypeOK
  <2>2. /\ Tail(queue) \in Seq(Runs \cup {Nobody}) /\ Len(Tail(queue)) = Len(queue) - 1
        /\ \A i \in 1..Len(Tail(queue)) : Tail(queue)[i] = queue[i + 1]
    BY <1>1, <2>1, HeadTailProperties
  <2>3. Head(queue) = queue[1] /\ queue[1] \in Runs \cup {Nobody}
    BY <2>1, ElementOfSeq
  <2> QED
    BY <1>1, <2>1, <2>2, <2>3
<1>3. Busy /\ \A r \in Runs : pc[r] \notin {"finish", "finish_ods"}
  BY <1>1 DEF Busy, RunInv
<1>4. InState("ready")' = InState("ready") /\ InState("closed")' = InState("closed")
  BY <1>1 DEF InState
<1>5. JobInv'
  <2>1. \A k \in Stars : stat[k] # "running"
    BY <1>1 DEF NothingLeft
  <2> QED
    BY <1>1, <1>4, <2>1 DEF JobInv
<1>6. AppliedInv'
  BY <1>1, <1>4 DEF AppliedInv
<1>7. BusyInv'
  BY <1>1, <1>3, <1>4 DEF BusyInv
<1>8. OdsInv' /\ MqInv' /\ LastInv' /\ ClosedIsApplied' /\ FactsFollowDims'
  BY <1>1, <1>4 DEF OdsInv, MqInv, LastInv, ClosedIsApplied, FactsFollowDims
<1>9. CASE queue[1] = Nobody
  <2>1. pc' = pc
    BY <1>1, <1>2, <1>9
  <2>2. TypeOK'
    BY <1>1, <1>2, <2>1 DEF TypeOK
  <2>3. RunInv'
    BY <1>1, <1>3, <1>4, <2>1 DEF RunInv
  <2>4. QueueInv'
    <3>1. \A i \in 1..Len(queue') : i + 1 \in 1..Len(queue)
            /\ (i + 1 = Len(queue) => i = Len(queue'))
      BY <1>2
    <3> QED
      BY <1>2, <2>1, <3>1 DEF QueueInv
  <2> QED
    BY <1>5, <1>6, <1>7, <1>8, <2>2, <2>3, <2>4
<1>10. CASE queue[1] \in Runs
  <2> DEFINE r == queue[1]
             step == IF AllStarsOk THEN "finish" ELSE "idle"
  <2>1. 1 = Len(queue) /\ pc[r] = "wait"
    <3>1. 1 \in 1..Len(queue)
      BY <1>2
    <3> QED
      BY <1>10, <3>1 DEF QueueInv
  <2>2. pc' = [pc EXCEPT ![r] = step] /\ \A q \in Runs : q = r
    BY <1>1, <1>2, <1>10, RunsAssumption DEF OneRunAtATime
  <2>3. pc'[r] = step
    BY <1>10, <2>2 DEF TypeOK
  <2>4. Len(queue') = 0 /\ queue' = <<>>
    <3>1. Len(queue') = 0
      <4>1. Len(queue') = Len(queue) - 1
        BY <1>2
      <4>2. Len(queue) = 1
        BY <2>1
      <4> QED
        BY <4>1, <4>2
    <3> QED
      BY <1>2, <3>1, EmptySeq
  <2>5. TypeOK'
    <3>1. pc' \in [Runs -> {"idle", "check", "launch", "wait", "finish", "finish_ods"} \cup StartSteps]
      BY <2>2 DEF TypeOK
    <3> QED
      BY <1>1, <1>2, <3>1 DEF TypeOK
  <2>6. QueueInv'
    BY <2>4 DEF QueueInv
  <2>7. RunInv'
    <3>1. AllStarsOk => ~Busy' /\ \A k \in Stars : got[r] \in applied[k]
      <4>1. got[r] \in InState("ready")
        BY <1>10, <2>1 DEF RunInv, AfterSet
      <4>2. AllStarsOk => \A k \in Stars : jobs[k] = <<>> /\ got[r] \in applied[k]
        BY <4>1 DEF AllStarsOk, JobInv, AppliedInv
      <4> QED
        BY <1>1, <2>4, <4>2 DEF Busy
    <3>2. (step = "finish" /\ AllStarsOk) \/ step = "idle"
      OBVIOUS
    <3>3. CASE step = "idle"
      BY <1>1, <2>2, <2>3, <3>3 DEF RunInv, StartSteps, AfterId, AfterCount, AfterOpen, AfterSet
    <3>4. CASE step = "finish" /\ AllStarsOk
      <4> HIDE DEF step
      <4> QED
        BY <1>1, <1>4, <2>1, <2>2, <2>3, <3>1, <3>4
           DEF RunInv, StartSteps, AfterId, AfterCount, AfterOpen, AfterSet
    <3> QED
      BY <3>2, <3>3, <3>4
  <2> QED
    BY <1>5, <1>6, <1>7, <1>8, <2>5, <2>6, <2>7
<1> QED
  BY <1>2, <1>9, <1>10

LEMMA StarReadsInv ==
  ASSUME Inv, NEW k \in Stars, NEW i \in 1..Len(jobs[k]), StarReads(k, i)
  PROVE  Inv'
<1> USE DEF Inv
<1> DEFINE n == Len(jobs[k])
           job == [jobs[k][1] EXCEPT !.mq = varMq]
<1>1. /\ UNCHANGED <<ods, mq, varOds, varCount, varMq, pc, got, own, queue, stat, applied, last,
                     failures>>
      /\ i = 1 /\ jobs[k] # <<>>
      /\ jobs' = [jobs EXCEPT ![k] = [jobs[k] EXCEPT ![1] = job]]
  BY DEF StarReads, Active, dbVars, airVars, runVars, auxVars
<1>2. n \in Nat /\ 1 \in 1..n /\ jobs[k] \in Seq(Job) /\ jobs[k][1] \in Job
  BY <1>1, TypeFacts
<1>3. Busy /\ varMq \in 1..Len(mq) /\ mq[varMq].ods \in InState("ready")
  BY <1>1 DEF Busy, BusyInv
<1>4. job \in Job /\ job.mq = varMq /\ job.waited = jobs[k][1].waited
  <2>1. varMq \in 0..Unread
    BY BoundsAssumption DEF TypeOK, Unread
  <2> QED
    BY <1>2, <2>1 DEF Job
<1> HIDE DEF job
<1>5. /\ jobs'[k] \in Seq(Job) /\ Len(jobs'[k]) = n /\ jobs'[k][1] = job
      /\ \A j \in 1..n : j # 1 => jobs'[k][j] = jobs[k][j]
  <2>1. jobs'[k] = [jobs[k] EXCEPT ![1] = job]
    BY <1>1 DEF TypeOK
  <2> QED
    BY <1>2, <1>4, <2>1, ExceptSeq
<1>6. \A j \in Stars : j # k => jobs'[j] = jobs[j]
  BY <1>1 DEF TypeOK
<1>7. jobs'[k] # <<>>
  BY <1>2, <1>5, EmptySeq
<1>8. TypeOK'
  <2>1. jobs' \in [Stars -> Seq(Job)]
    BY <1>1, <1>5, <1>6 DEF TypeOK, Job
  <2> QED
    BY <1>1, <2>1 DEF TypeOK, Job
<1>9. /\ RunInv' /\ OdsInv' /\ BusyInv' /\ InState("ready")' = InState("ready")
      /\ InState("closed")' = InState("closed")
  BY <1>1, <1>3, BusyRuns
<1>10. JobInv'
  <2>1. \A j \in 1..Len(jobs'[k]) :
          /\ jobs'[k][j].waited <=> stat'[k] = "running" /\ j = Len(jobs'[k])
          /\ jobs'[k][j].mq # Unread =>
               jobs'[k][j].mq \in 1..Len(mq) /\ mq[jobs'[k][j].mq].ods \in InState("ready")
    BY <1>1, <1>2, <1>3, <1>4, <1>5 DEF JobInv
  <2> QED
    BY <1>1, <1>6, <1>7, <1>9, <2>1 DEF JobInv
<1>11. AppliedInv'
  <2>1. \A j \in Stars : jobs'[j] # <<>> => jobs[j] # <<>>
    BY <1>1, <1>6
  <2> QED
    BY <1>1, <1>9, <2>1 DEF AppliedInv, Stars
<1>12. QueueInv' /\ MqInv' /\ LastInv' /\ ClosedIsApplied' /\ FactsFollowDims'
  BY <1>1, <1>9 DEF QueueInv, MqInv, LastInv, ClosedIsApplied, FactsFollowDims
<1> QED
  BY <1>8, <1>9, <1>10, <1>11, <1>12

(* The active run of a star ends, well or badly.                             *)
LEMMA JobEnds ==
  ASSUME Inv, NEW k \in Stars, jobs[k] # <<>>, NEW verdict \in {"ok", "failed"},
         UNCHANGED <<ods, mq, queue>>,
         stat' = IF jobs[k][1].waited THEN [stat EXCEPT ![k] = verdict] ELSE stat,
         jobs' = [jobs EXCEPT ![k] = Without(jobs[k], 1)]
  PROVE  /\ JobInv' /\ Busy
         /\ jobs' \in [Stars -> Seq(Job)]
         /\ stat' \in [Stars -> {"todo", "running", "ok", "failed"}]
         /\ \A j \in Stars : /\ jobs'[j] # <<>> => jobs[j] # <<>>
                             /\ stat'[j] = "ok" => stat[j] = "ok" \/ (j = k /\ verdict = "ok")
<1> USE DEF Inv
<1> DEFINE n == Len(jobs[k])
           waited == jobs[k][1].waited
<1>1. jobs[k] \in Seq(Job)
  BY TypeFacts
<1>2. /\ Without(jobs[k], 1) \in Seq(Job) /\ n \in Nat \ {0}
      /\ Len(Without(jobs[k], 1)) = n - 1
      /\ \A i \in 1..(n - 1) : Without(jobs[k], 1)[i] = jobs[k][i + 1]
      /\ jobs[k][1] \in Job
  BY <1>1, WithoutFirst
<1>3. /\ jobs'[k] \in Seq(Job) /\ Len(jobs'[k]) = n - 1
      /\ \A i \in 1..(n - 1) : jobs'[k][i] = jobs[k][i + 1]
  BY <1>2 DEF TypeOK
<1>4. \A j \in Stars : j # k => jobs'[j] = jobs[j] /\ stat'[j] = stat[j]
  BY DEF TypeOK
<1>5. waited \in BOOLEAN /\ stat'[k] = IF waited THEN verdict ELSE stat[k]
  BY <1>2 DEF Job, TypeOK
<1>6. /\ waited <=> stat[k] = "running" /\ n = 1
      /\ stat[k] # "ok" /\ (queue = <<>> => stat[k] = "todo")
      /\ \A i \in 1..n : jobs[k][i].waited <=> stat[k] = "running" /\ i = n
  <2>1. 1 \in 1..n
    BY <1>2
  <2> QED
    BY <1>5, <2>1 DEF JobInv
<1>7. jobs' \in [Stars -> Seq(Job)] /\ stat' \in [Stars -> {"todo", "running", "ok", "failed"}]
  BY <1>3, <1>4 DEF TypeOK, Job
<1>8. InState("ready")' = InState("ready")
  BY DEF InState
<1>9. \A i \in 1..Len(jobs'[k]) : i + 1 \in 1..n /\ jobs'[k][i] = jobs[k][i + 1]
                                  /\ (i + 1 = n <=> i = Len(jobs'[k]))
  BY <1>2, <1>3
<1>10. \A i \in 1..Len(jobs'[k]) :
         /\ jobs'[k][i].waited <=> stat'[k] = "running" /\ i = Len(jobs'[k])
         /\ jobs'[k][i].mq # Unread =>
              jobs'[k][i].mq \in 1..Len(mq) /\ mq[jobs'[k][i].mq].ods \in InState("ready")
  <2>1. CASE waited
    <3>1. Len(jobs'[k]) = 0
      BY <1>3, <1>6, <2>1
    <3> QED
      BY <3>1
  <2>2. CASE ~waited
    BY <1>5, <1>6, <1>9, <2>2 DEF JobInv
  <2> QED
    BY <2>1, <2>2
<1>11. /\ stat'[k] = "running" => jobs'[k] # <<>>
       /\ stat'[k] = "ok" => jobs'[k] = <<>>
       /\ queue' = <<>> => stat'[k] = "todo"
  <2>1. CASE waited
    <3>1. Len(jobs'[k]) = 0
      BY <1>3, <1>6, <2>1
    <3>2. jobs'[k] = <<>>
      BY <1>3, <3>1, EmptySeq
    <3> QED
      BY <1>5, <1>6, <2>1, <3>2
  <2>2. CASE ~waited
    <3>1. stat[k] = "running" => n # 1
      BY <1>6, <2>2
    <3>2. stat[k] = "running" => Len(jobs'[k]) # 0
      <4>1. \A m \in Nat : m # 1 => m - 1 # 0
        OBVIOUS
      <4>2. n \in Nat /\ Len(jobs'[k]) = n - 1
        BY <1>2, <1>3
      <4> HIDE DEF n
      <4> QED
        BY <3>1, <4>1, <4>2
    <3>3. stat[k] = "running" => jobs'[k] # <<>>
      BY <1>3, <3>2, EmptySeq
    <3> QED
      BY <1>5, <1>6, <2>2, <3>3
  <2> QED
    BY <2>1, <2>2
<1>12. JobInv'
  BY <1>4, <1>8, <1>10, <1>11 DEF JobInv
<1>13. \A j \in Stars : /\ jobs'[j] # <<>> => jobs[j] # <<>>
                        /\ stat'[j] = "ok" => stat[j] = "ok" \/ (j = k /\ verdict = "ok")
  BY <1>4, <1>5
<1> QED
  BY <1>7, <1>12, <1>13 DEF Busy

(* A star's run that has read session_id applies the ready session.          *)
LEMMA JobSession ==
  ASSUME Inv, NEW k \in Stars, jobs[k] # <<>>, jobs[k][1].mq # Unread
  PROVE  /\ OdsOf(jobs[k][1].mq) \in InState("ready")
         /\ OdsOf(jobs[k][1].mq) \in Sessions /\ OdsOf(jobs[k][1].mq) # 0
<1>1. 1 \in 1..Len(jobs[k])
  BY TypeFacts, EmptySeq DEF Inv
<1>2. jobs[k][1].mq \in 1..Len(mq) /\ mq[jobs[k][1].mq].ods \in InState("ready")
  BY <1>1 DEF Inv, JobInv
<1>3. OdsOf(jobs[k][1].mq) = mq[jobs[k][1].mq].ods
  BY <1>2 DEF OdsOf
<1> QED
  BY <1>2, <1>3 DEF InState, Sessions

(* At most one session of the ODS is ready.                                  *)
LEMMA OneReady ==
  ASSUME OdsInv, NEW s \in InState("ready"), NEW t \in InState("ready")
  PROVE  s = t
<1>1. s \in Nat /\ t \in Nat /\ s \in Sessions /\ t \in Sessions
  BY BoundsAssumption DEF InState, Sessions
<1> QED
  BY <1>1 DEF OdsInv, InState

LEMMA StarAppliesInv ==
  ASSUME Inv, NEW k \in Stars, NEW i \in 1..Len(jobs[k]), StarApplies(k, i)
  PROVE  Inv'
<1> USE DEF Inv
<1> DEFINE s == OdsOf(jobs[k][1].mq)
<1>1. /\ UNCHANGED <<ods, mq, varOds, varCount, varMq, pc, got, own, queue, failures>>
      /\ i = 1 /\ jobs[k] # <<>> /\ jobs[k][1].mq # Unread
      /\ s # 0 => /\ applied' = [applied EXCEPT ![k] = @ \cup {s}]
                  /\ last' = [last EXCEPT ![k] = s]
      /\ stat' = IF jobs[k][1].waited THEN [stat EXCEPT ![k] = "ok"] ELSE stat
      /\ jobs' = [jobs EXCEPT ![k] = Without(jobs[k], 1)]
  BY DEF StarApplies, Active, dbVars, airVars, runVars
<1>2. s \in InState("ready") /\ s \in Sessions /\ s # 0
  BY <1>1, JobSession
<1> HIDE DEF s
<1>3. /\ JobInv' /\ Busy
      /\ jobs' \in [Stars -> Seq(Job)]
      /\ stat' \in [Stars -> {"todo", "running", "ok", "failed"}]
      /\ \A j \in Stars : /\ jobs'[j] # <<>> => jobs[j] # <<>>
                          /\ stat'[j] = "ok" => stat[j] = "ok" \/ j = k
  BY <1>1, JobEnds
<1>4. /\ applied' \in [Stars -> SUBSET Sessions]
      /\ \A j \in Stars : applied[j] \subseteq applied'[j]
      /\ \A j \in Stars : j # k => applied'[j] = applied[j]
      /\ applied'[k] = applied[k] \cup {s}
  <2>1. applied \in [Stars -> SUBSET Sessions]
    BY DEF TypeOK
  <2>2. applied' = [applied EXCEPT ![k] = applied[k] \cup {s}]
    BY <1>1, <1>2
  <2> QED
    BY <1>2, <2>1, <2>2
<1>5. last' \in [Stars -> 0..MaxSession] /\ last'[k] = s /\ \A j \in Stars : j # k => last'[j] = last[j]
  <2>1. last \in [Stars -> 0..MaxSession] /\ s \in 0..MaxSession
    BY <1>2, BoundsAssumption DEF TypeOK, Sessions
  <2>2. last' = [last EXCEPT ![k] = s]
    BY <1>1, <1>2
  <2> QED
    BY <2>1, <2>2
<1>6. TypeOK'
  BY <1>1, <1>3, <1>4, <1>5 DEF TypeOK, Job
<1>7. /\ RunInv /\ OdsInv' /\ BusyInv' /\ InState("ready")' = InState("ready")
      /\ InState("closed")' = InState("closed")
  BY <1>1, <1>3, BusyRuns
<1>8. RunInv'
  BY <1>1, <1>3, BusyRuns
<1>9. AppliedInv'
  <2>1. \A t \in InState("ready") : t = s
    BY <1>2, OneReady
  <2>2. \A j \in Stars : stat'[j] = "ok" => s \in applied'[j]
    BY <1>2, <1>3, <1>4 DEF AppliedInv
  <2>3. \A f \in Facts, d \in Dims : jobs'[f] # <<>> => s \in applied'[d]
    BY <1>2, <1>3, <1>4 DEF AppliedInv, Stars
  <2> QED
    BY <1>7, <2>1, <2>2, <2>3 DEF AppliedInv
<1>10. MqInv'
  BY <1>1, <1>4 DEF MqInv
<1>11. LastInv' /\ ClosedIsApplied' /\ QueueInv'
  <2>1. ods[s] = "ready"
    BY <1>2 DEF InState
  <2> QED
    BY <1>1, <1>4, <1>5, <1>7, <2>1 DEF LastInv, ClosedIsApplied, QueueInv
<1>12. FactsFollowDims'
  <2> SUFFICES ASSUME NEW f \in Facts, NEW d \in Dims PROVE applied'[f] \subseteq applied'[d]
    BY DEF FactsFollowDims
  <2>1. applied[f] \subseteq applied[d] /\ f # d /\ f \in Stars /\ d \in Stars
    BY StarsAssumption DEF FactsFollowDims, Stars
  <2>2. f = k => s \in applied[d]
    BY <1>1, <1>2 DEF AppliedInv
  <2> QED
    BY <1>4, <2>1, <2>2
<1> QED
  BY <1>3, <1>6, <1>7, <1>8, <1>9, <1>10, <1>11, <1>12

LEMMA StarFailsInv ==
  ASSUME Inv, NEW k \in Stars, NEW i \in 1..Len(jobs[k]), StarFails(k, i)
  PROVE  Inv'
<1> USE DEF Inv
<1> DEFINE s == OdsOf(jobs[k][1].mq)
<1>1. /\ UNCHANGED <<ods, mq, varOds, varCount, varMq, pc, got, own, queue, applied>>
      /\ failures < MaxFail /\ failures' = failures + 1
      /\ i = 1 /\ jobs[k] # <<>>
      /\ last' = last \/ (jobs[k][1].mq # Unread /\ last' = [last EXCEPT ![k] = s])
      /\ stat' = IF jobs[k][1].waited THEN [stat EXCEPT ![k] = "failed"] ELSE stat
      /\ jobs' = [jobs EXCEPT ![k] = Without(jobs[k], 1)]
  BY DEF StarFails, Failing, Active, dbVars, airVars, runVars
<1>2. jobs[k][1].mq # Unread => s \in InState("ready") /\ s \in Sessions /\ s # 0
  BY <1>1, JobSession
<1> HIDE DEF s
<1>3. /\ JobInv' /\ Busy
      /\ jobs' \in [Stars -> Seq(Job)]
      /\ stat' \in [Stars -> {"todo", "running", "ok", "failed"}]
      /\ \A j \in Stars : /\ jobs'[j] # <<>> => jobs[j] # <<>>
                          /\ stat'[j] = "ok" => stat[j] = "ok"
  BY <1>1, JobEnds
<1>4. /\ last' \in [Stars -> 0..MaxSession]
      /\ \A j \in Stars : last'[j] = last[j] \/ last'[j] \in InState("ready")
  BY <1>1, <1>2 DEF TypeOK, Sessions
<1>5. failures' \in 0..MaxFail
  <2>1. failures \in 0..MaxFail /\ MaxFail \in Nat
    BY BoundsAssumption DEF TypeOK
  <2> QED
    BY <1>1, <2>1
<1>6. TypeOK'
  BY <1>1, <1>3, <1>4, <1>5 DEF TypeOK, Job
<1>7. /\ RunInv' /\ OdsInv' /\ BusyInv' /\ InState("ready")' = InState("ready")
      /\ InState("closed")' = InState("closed")
  BY <1>1, <1>3, BusyRuns
<1>8. AppliedInv'
  BY <1>1, <1>3, <1>7 DEF AppliedInv, Stars
<1>9. LastInv'
  BY <1>1, <1>4 DEF LastInv, InState
<1>10. QueueInv' /\ MqInv' /\ ClosedIsApplied' /\ FactsFollowDims'
  BY <1>1, <1>7 DEF QueueInv, MqInv, ClosedIsApplied, FactsFollowDims
<1> QED
  BY <1>3, <1>6, <1>7, <1>8, <1>9, <1>10

LEMMA TriggerLostInv ==
  ASSUME Inv, NEW k \in Stars, TriggerLost(k)
  PROVE  Inv'
<1> USE DEF Inv
<1> DEFINE n == Len(jobs[k])
           orphans == [i \in 1..n |-> [jobs[k][i] EXCEPT !.waited = FALSE]]
<1>1. /\ UNCHANGED <<ods, mq, varOds, varCount, varMq, pc, got, own, queue, applied, last>>
      /\ failures < MaxFail /\ failures' = failures + 1
      /\ stat[k] = "running" /\ stat' = [stat EXCEPT ![k] = "failed"]
      /\ jobs' = [jobs EXCEPT ![k] = orphans]
  BY DEF TriggerLost, Failing, dbVars, airVars, runVars, auxVars
<1>2. jobs[k] # <<>> /\ queue # <<>> /\ Busy
  BY <1>1 DEF JobInv, Busy
<1>3. n \in Nat /\ n # 0 /\ \A i \in 1..n : jobs[k][i] \in Job
  BY <1>2, TypeFacts, EmptySeq
<1>4. \A i \in 1..n : [jobs[k][i] EXCEPT !.waited = FALSE] \in Job
                      /\ [jobs[k][i] EXCEPT !.waited = FALSE].waited = FALSE
                      /\ [jobs[k][i] EXCEPT !.waited = FALSE].mq = jobs[k][i].mq
  BY <1>3 DEF Job
<1>5. /\ orphans \in Seq(Job) /\ Len(orphans) = n
      /\ \A i \in 1..n : orphans[i].waited = FALSE /\ orphans[i].mq = jobs[k][i].mq
  BY <1>3, <1>4
<1> HIDE DEF orphans
<1>6. /\ jobs'[k] = orphans /\ stat'[k] = "failed"
      /\ \A j \in Stars : j # k => jobs'[j] = jobs[j] /\ stat'[j] = stat[j]
  BY <1>1 DEF TypeOK
<1>7. failures' \in 0..MaxFail
  <2>1. failures \in 0..MaxFail /\ MaxFail \in Nat
    BY BoundsAssumption DEF TypeOK
  <2> QED
    BY <1>1, <2>1
<1>8. TypeOK'
  <2>1. jobs' \in [Stars -> Seq(Job)]
    BY <1>1, <1>5 DEF TypeOK, Job
  <2>2. stat' \in [Stars -> {"todo", "running", "ok", "failed"}]
    BY <1>1 DEF TypeOK
  <2> QED
    BY <1>1, <1>7, <2>1, <2>2 DEF TypeOK, Job
<1>9. /\ RunInv' /\ OdsInv' /\ BusyInv' /\ InState("ready")' = InState("ready")
      /\ InState("closed")' = InState("closed")
  BY <1>1, <1>2, BusyRuns
<1>10. JobInv'
  BY <1>1, <1>2, <1>5, <1>6, <1>9 DEF JobInv
<1>11. AppliedInv'
  <2>1. \A f \in Facts : jobs'[f] # <<>> => jobs[f] # <<>>
    BY <1>2, <1>6 DEF Stars
  <2>2. \A j \in Stars : stat'[j] = "ok" => stat[j] = "ok"
    BY <1>6
  <2> QED
    BY <1>1, <1>9, <2>1, <2>2 DEF AppliedInv
<1>12. QueueInv' /\ MqInv' /\ LastInv' /\ ClosedIsApplied' /\ FactsFollowDims'
  BY <1>1, <1>9 DEF QueueInv, MqInv, LastInv, ClosedIsApplied, FactsFollowDims
<1> QED
  BY <1>8, <1>9, <1>10, <1>11, <1>12

---------------------------------------------------------------------------
(* finish_dwh_session, and failed runs.                                      *)

(* When nothing is under way, nothing is known of any star.                  *)
LEMMA QuietInv ==
  ASSUME ~Busy', QueueInv, UNCHANGED <<queue, jobs, stat>>, \A k \in Stars : stat[k] = "todo"
  PROVE  QueueInv' /\ BusyInv' /\ JobInv' /\ AppliedInv'
<1>1. queue' = <<>> /\ \A k \in Stars : jobs'[k] = <<>>
  BY DEF Busy
<1>2. Len(queue') = 0 /\ \A k \in Stars : Len(jobs'[k]) = 0
  BY <1>1, EmptySeq
<1> QED
  BY <1>1, <1>2 DEF QueueInv, BusyInv, JobInv, AppliedInv, Stars

(* A run that finishes: session_id and dwh_session_id name its own sessions. *)
LEMMA FinishFacts ==
  ASSUME Inv, NEW r \in Runs, pc[r] \in {"finish", "finish_ods"}
  PROVE  /\ varOds = got[r] /\ got[r] \in InState("ready") /\ got[r] # 0 /\ got[r] \in Sessions
         /\ varMq = own[r] /\ own[r] \in 1..Len(mq) /\ own[r] # 0 /\ mq[own[r]].ods = got[r]
         /\ ~Busy /\ \A k \in Stars : stat[k] = "todo" /\ got[r] \in applied[k]
<1>1. pc[r] \in AfterSet \ {"check"} /\ pc[r] \in AfterOpen /\ pc[r] \in AfterId /\ pc[r] # "idle"
  BY DEF AfterId, AfterCount, AfterOpen, AfterSet
<1>2. /\ varOds = got[r] /\ got[r] \in InState("ready") /\ got[r] # 0
      /\ varMq = own[r] /\ own[r] \in 1..Len(mq) /\ mq[own[r]].ods = got[r]
      /\ ~Busy /\ \A k \in Stars : got[r] \in applied[k]
  BY <1>1 DEF Inv, RunInv
<1>3. \A k \in Stars : stat[k] = "todo"
  BY <1>2 DEF Inv, JobInv, Busy
<1> QED
  BY <1>2, <1>3 DEF InState

LEMMA FinishDwhInv ==
  ASSUME Inv, OneRunAtATime, NEW r \in Runs, FinishDwh(r)
  PROVE  Inv'
<1> USE DEF Inv
<1>1. /\ UNCHANGED <<ods, varOds, varCount, varMq, got, own, queue, stat, jobs, applied, last,
                     failures>>
      /\ pc[r] = "finish" /\ pc' = [pc EXCEPT ![r] = "finish_ods"]
      /\ mq' = IF varMq = 0 THEN mq ELSE [mq EXCEPT ![varMq].state = 2]
  BY DEF FinishDwh, Finished, Goto, airVars, starVars, auxVars
<1>2. \A q \in Runs : q = r
  BY DEF OneRunAtATime
<1>3. /\ varOds = got[r] /\ got[r] \in InState("ready") /\ got[r] # 0 /\ got[r] \in Sessions
      /\ varMq = own[r] /\ own[r] \in 1..Len(mq) /\ own[r] # 0 /\ mq[own[r]].ods = got[r]
      /\ ~Busy /\ \A k \in Stars : stat[k] = "todo" /\ got[r] \in applied[k]
  BY <1>1, FinishFacts
<1> DEFINE o == own[r]
           row == [mq[o] EXCEPT !.state = 2]
<1>4. mq' = [mq EXCEPT ![o] = row]
  BY <1>1, <1>3
<1>5. row \in [ods : 0..MaxSession, state : {1, 2}] /\ row.ods = got[r]
  <2>1. mq[o] \in [ods : 0..MaxSession, state : {1, 2}]
    BY <1>3, TypeFacts
  <2> QED
    BY <1>3, <2>1
<1> HIDE DEF row, o
<1>6. /\ mq' \in Seq([ods : 0..MaxSession, state : {1, 2}]) /\ Len(mq') = Len(mq)
      /\ mq'[o] = row /\ \A m \in 1..Len(mq) : m # o => mq'[m] = mq[m]
  <2>1. mq \in Seq([ods : 0..MaxSession, state : {1, 2}]) /\ o \in 1..Len(mq)
    BY <1>3 DEF TypeOK, o
  <2> QED
    BY <1>4, <1>5, <2>1, ExceptSeq
<1>7. TypeOK'
  <2>1. pc' \in [Runs -> {"idle", "check", "launch", "wait", "finish", "finish_ods"} \cup StartSteps]
    BY <1>1 DEF TypeOK
  <2> QED
    BY <1>1, <1>6, <2>1 DEF TypeOK
<1>8. MqInv'
  BY <1>1, <1>3, <1>5, <1>6 DEF MqInv
<1>9. InState("ready")' = InState("ready") /\ InState("closed")' = InState("closed")
      /\ Busy' = Busy
  BY <1>1 DEF InState, Busy
<1>10. RunInv'
  <2>1. pc'[r] = "finish_ods" /\ mq'[own[r]].ods = got[r]
    BY <1>1, <1>5, <1>6 DEF TypeOK, o
  <2> QED
    BY <1>1, <1>2, <1>3, <1>6, <1>9, <2>1
       DEF RunInv, StartSteps, AfterId, AfterCount, AfterOpen, AfterSet
<1>11. QueueInv' /\ BusyInv' /\ JobInv' /\ AppliedInv'
  BY <1>1, <1>3, <1>9, QuietInv
<1>12. OdsInv' /\ LastInv' /\ ClosedIsApplied' /\ FactsFollowDims'
  BY <1>1, <1>9 DEF OdsInv, LastInv, ClosedIsApplied, FactsFollowDims
<1> QED
  BY <1>7, <1>8, <1>10, <1>11, <1>12

LEMMA FinishOdsInv ==
  ASSUME Inv, OneRunAtATime, NEW r \in Runs, FinishOds(r)
  PROVE  Inv'
<1> USE DEF Inv
<1>1. /\ UNCHANGED <<mq, varOds, varCount, varMq, got, own, queue, stat, jobs, applied, last,
                     failures>>
      /\ pc[r] = "finish_ods" /\ pc' = [pc EXCEPT ![r] = "idle"]
      /\ ods' = IF varOds = 0 THEN ods ELSE [ods EXCEPT ![varOds] = "closed"]
  BY DEF FinishOds, Goto, airVars, starVars, auxVars
<1>2. \A q \in Runs : q = r
  BY DEF OneRunAtATime
<1>3. /\ varOds = got[r] /\ got[r] \in InState("ready") /\ got[r] # 0 /\ got[r] \in Sessions
      /\ ~Busy /\ \A k \in Stars : stat[k] = "todo" /\ got[r] \in applied[k]
  BY <1>1, FinishFacts
<1>4. ods[got[r]] = "ready" /\ \A s \in Sessions : ods'[s] = IF s = got[r] THEN "closed" ELSE ods[s]
  BY <1>1, <1>3 DEF InState, TypeOK
<1>5. TypeOK'
  <2>1. pc' \in [Runs -> {"idle", "check", "launch", "wait", "finish", "finish_ods"} \cup StartSteps]
    BY <1>1 DEF TypeOK
  <2>2. ods' \in [Sessions -> {"absent", "ready", "closed"}]
    BY <1>1 DEF TypeOK
  <2> QED
    BY <1>1, <2>1, <2>2 DEF TypeOK
<1>6. Busy' = Busy
  BY <1>1 DEF Busy
<1>7. RunInv'
  <2>1. pc'[r] = "idle"
    BY <1>1 DEF TypeOK
  <2> QED
    BY <1>2, <2>1 DEF RunInv, StartSteps, AfterId, AfterCount, AfterOpen, AfterSet
<1>8. QueueInv' /\ BusyInv' /\ JobInv' /\ AppliedInv'
  BY <1>1, <1>3, <1>6, QuietInv
<1>9. OdsInv'
  BY <1>3, <1>4 DEF OdsInv
<1>10. LastInv'
  <2>1. \A k \in Stars : last[k] # 0 => last[k] \in Sessions
    BY DEF TypeOK, Sessions
  <2> QED
    BY <1>1, <1>4, <2>1 DEF LastInv
<1>11. ClosedIsApplied'
  BY <1>1, <1>3, <1>4 DEF ClosedIsApplied, InState
<1>12. MqInv' /\ FactsFollowDims'
  BY <1>1 DEF MqInv, FactsFollowDims
<1> QED
  BY <1>5, <1>7, <1>8, <1>9, <1>10, <1>11, <1>12

LEMMA RunFailsInv ==
  ASSUME Inv, OneRunAtATime, NEW r \in Runs, RunFails(r)
  PROVE  Inv'
<1> USE DEF Inv
<1>1. /\ UNCHANGED <<ods, mq, varOds, varCount, varMq, got, own, stat, jobs, applied, last>>
      /\ failures < MaxFail /\ failures' = failures + 1
      /\ pc' = [pc EXCEPT ![r] = "idle"]
      /\ queue' = [i \in 1..Len(queue) |-> IF queue[i] = r THEN Nobody ELSE queue[i]]
  BY DEF RunFails, Failing, Goto, dbVars, airVars, starVars, auxVars
<1>2. \A q \in Runs : q = r
  BY DEF OneRunAtATime
<1>3. queue \in Seq(Runs \cup {Nobody}) /\ Len(queue) \in Nat
      /\ \A i \in 1..Len(queue) : queue[i] \in Runs \cup {Nobody}
  BY ElementOfSeq DEF TypeOK
<1>4. /\ queue' \in Seq(Runs \cup {Nobody}) /\ Len(queue') = Len(queue)
      /\ \A i \in 1..Len(queue') : queue'[i] \notin Runs
  BY <1>1, <1>2, <1>3, RunsAssumption
<1>5. queue' = <<>> <=> queue = <<>>
  BY <1>3, <1>4, EmptySeq
<1>6. failures' \in 0..MaxFail
  <2>1. failures \in 0..MaxFail /\ MaxFail \in Nat
    BY BoundsAssumption DEF TypeOK
  <2> QED
    BY <1>1, <2>1
<1>7. TypeOK'
  <2>1. pc' \in [Runs -> {"idle", "check", "launch", "wait", "finish", "finish_ods"} \cup StartSteps]
    BY <1>1 DEF TypeOK
  <2> QED
    BY <1>1, <1>4, <1>6, <2>1 DEF TypeOK
<1>8. RunInv'
  <2>1. pc'[r] = "idle"
    BY <1>1 DEF TypeOK
  <2> QED
    BY <1>2, <2>1 DEF RunInv, StartSteps, AfterId, AfterCount, AfterOpen, AfterSet
<1>9. InState("ready")' = InState("ready") /\ InState("closed")' = InState("closed")
      /\ Busy' = Busy
  BY <1>1, <1>5 DEF InState, Busy
<1>10. QueueInv' /\ BusyInv' /\ JobInv'
  BY <1>1, <1>4, <1>5, <1>9 DEF QueueInv, BusyInv, JobInv
<1>11. OdsInv' /\ MqInv' /\ AppliedInv' /\ LastInv' /\ ClosedIsApplied' /\ FactsFollowDims'
  BY <1>1, <1>9 DEF OdsInv, MqInv, AppliedInv, LastInv, ClosedIsApplied, FactsFollowDims
<1> QED
  BY <1>7, <1>8, <1>10, <1>11

LEMMA StutterInv ==
  ASSUME Inv, UNCHANGED vars
  PROVE  Inv'
<1> USE DEF vars, dbVars, airVars, runVars, starVars, auxVars
<1>1. Busy' = Busy /\ \A state : InState(state)' = InState(state)
  BY DEF Busy, InState
<1>2. TypeOK' /\ OdsInv' /\ MqInv' /\ QueueInv' /\ LastInv'
  BY DEF Inv, TypeOK, OdsInv, MqInv, QueueInv, LastInv
<1>3. RunInv' /\ BusyInv' /\ JobInv' /\ AppliedInv'
  BY <1>1 DEF Inv, RunInv, BusyInv, JobInv, AppliedInv
<1>4. ClosedIsApplied' /\ FactsFollowDims'
  BY <1>1 DEF Inv, ClosedIsApplied, FactsFollowDims
<1> QED
  BY <1>2, <1>3, <1>4 DEF Inv

LEMMA NextInv == OneRunAtATime /\ Inv /\ [Next]_vars => Inv'
<1> SUFFICES ASSUME OneRunAtATime, Inv, [Next]_vars PROVE Inv'
  OBVIOUS
<1>1. CASE UNCHANGED vars
  BY <1>1, StutterInv
<1>2. ASSUME NEW r \in Runs, Assign(r) \/ RunStep(r) \/ RunFails(r)
      PROVE  Inv'
  BY <1>2, AssignInv, SetVariablesInv, OpenDwhInv, SetSessionInv, LaunchInv, FinishDwhInv,
     FinishOdsInv, RunFailsInv DEF RunStep
<1>3. CASE LauncherEnds
  BY <1>3, LauncherEndsInv
<1>4. ASSUME NEW k \in Stars, TriggerStar(k) \/ StarStep(k) \/ TriggerLost(k)
      PROVE  Inv'
  BY <1>4, TriggerStarInv, StarReadsInv, StarAppliesInv, TriggerLostInv DEF StarStep
<1>5. ASSUME NEW k \in Stars, NEW i \in 1..Len(jobs[k]), StarFails(k, i)
      PROVE  Inv'
  BY <1>5, StarFailsInv
<1> QED
  BY <1>1, <1>2, <1>3, <1>4, <1>5 DEF Next

LEMMA InvHolds == OneRunAtATime => (Spec => []Inv)
<1> SUFFICES ASSUME OneRunAtATime PROVE Spec => []Inv
  OBVIOUS
<1>1. Init => Inv
  BY InitInv
<1>2. Inv /\ [Next]_vars => Inv'
  BY NextInv
<1> QED
  BY <1>1, <1>2, PTL DEF Spec

---------------------------------------------------------------------------
(* The theorems.                                                             *)

(* The variables keep their types.                                           *)
THEOREM TypeCorrect == OneRunAtATime => (Spec => []TypeOK)
<1>1. Inv => TypeOK
  BY DEF Inv
<1> QED
  BY <1>1, InvHolds, PTL

(* Whatever runs, tasks and stars fail, and however many launcher and star   *)
(* runs they leave behind: a session that is closed in either database was   *)
(* applied to every star (finish_dwh_session, dwh_etl_Star_Launcher).        *)
THEOREM BothClosedAreAppliedTheorem == OneRunAtATime => (Spec => []BothClosedAreApplied)
<1>1. Inv => BothClosedAreApplied
  BY DEF Inv, MqInv, BothClosedAreApplied
<1> QED
  BY <1>1, InvHolds, PTL

(* A fact never shows a session that a dimension does not (the launcher's    *)
(* order of its two groups of tasks).                                        *)
THEOREM FactsFollowDimsTheorem == OneRunAtATime => (Spec => []FactsFollowDims)
<1>1. Inv => FactsFollowDims
  BY DEF Inv
<1> QED
  BY <1>1, InvHolds, PTL

(* A star changes to the ready session or to none, and no session after it   *)
(* exists yet.                                                               *)
LEMMA StarsStepForward ==
  ASSUME Inv, [Next]_vars, NEW k \in Stars
  PROVE  last'[k] >= last[k]
<1> USE DEF Inv
<1>1. last[k] \in 0..MaxSession /\ MaxSession \in Nat
  BY BoundsAssumption DEF TypeOK
<1>2. CASE last'[k] = last[k]
  BY <1>1, <1>2
<1>3. ASSUME last'[k] \in InState("ready")
      PROVE  last'[k] >= last[k]
  <2>1. last[k] # 0 => last[k] \in Sessions /\ ods[last[k]] # "absent"
    BY <1>1 DEF LastInv, Sessions
  <2>2. last'[k] \in Sessions /\ ods[last'[k]] = "ready"
    BY <1>3 DEF InState
  <2>3. last[k] # 0 => ~(last'[k] < last[k])
    BY <2>1, <2>2 DEF OdsInv
  <2>4. last'[k] \in Nat
    BY <1>1, <2>2 DEF Sessions
  <2> QED
    BY <1>1, <2>3, <2>4
<1>4. ASSUME NEW j \in Stars, NEW i \in 1..Len(jobs[j]), StarApplies(j, i) \/ StarFails(j, i)
      PROVE  last'[k] = last[k] \/ last'[k] \in InState("ready")
  <2> DEFINE s == OdsOf(jobs[j][1].mq)
  <2>1. i = 1 /\ jobs[j] # <<>>
    BY <1>4 DEF StarApplies, StarFails, Active
  <2>2. last' = last \/ (jobs[j][1].mq # Unread /\ last' = [last EXCEPT ![j] = s])
    BY <1>4, <2>1 DEF StarApplies, StarFails, auxVars
  <2>3. jobs[j][1].mq # Unread => s \in InState("ready")
    BY <2>1, JobSession
  <2> HIDE DEF s
  <2> QED
    BY <2>2, <2>3 DEF TypeOK
<1>5. \/ last' = last
      \/ \E j \in Stars : \E i \in 1..Len(jobs[j]) : StarApplies(j, i) \/ StarFails(j, i)
  <2>1. CASE UNCHANGED vars
    BY <2>1 DEF vars, auxVars
  <2>2. ASSUME NEW r \in Runs, Assign(r) \/ RunStep(r) \/ RunFails(r)
        PROVE  last' = last
    BY <2>2 DEF Assign, RunStep, RunFails, SetId, SetCount, OpenDwh, SetSession, IsNotEmpty, Launch,
                FinishDwh, FinishOds, auxVars
  <2>3. CASE LauncherEnds
    BY <2>3 DEF LauncherEnds, auxVars
  <2>4. ASSUME NEW j \in Stars, TriggerStar(j) \/ TriggerLost(j)
        PROVE  last' = last
    BY <2>4 DEF TriggerStar, TriggerLost, auxVars
  <2>5. ASSUME NEW j \in Stars, NEW i \in 1..Len(jobs[j]), StarReads(j, i)
        PROVE  last' = last
    BY <2>5 DEF StarReads, auxVars
  <2> QED
    BY <2>1, <2>2, <2>3, <2>4, <2>5 DEF Next, StarStep
<1> QED
  BY <1>2, <1>3, <1>4, <1>5

(* No star applies an older session after a newer one, although runs left    *)
(* behind by failed ones go on beside their successors (max_active_runs=1    *)
(* of the star DAGs, and the Variable read when a run starts).               *)
THEOREM StarsNeverStepBackTheorem == OneRunAtATime => (Spec => StarsNeverStepBack)
<1> SUFFICES ASSUME OneRunAtATime PROVE Spec => StarsNeverStepBack
  OBVIOUS
<1>1. Inv /\ [Next]_vars => [\A k \in Stars : last'[k] >= last[k]]_vars
  BY StarsStepForward
<1> QED
  BY <1>1, InvHolds, PTL DEF Spec, StarsNeverStepBack
============================================================================
