----------------------------- MODULE Pipeline -----------------------------
(***************************************************************************)
(* From a message in odins to the row a report shows: the sessions of       *)
(* OdsSession, and between their hand-over and their close the stars of the *)
(* DWH, each of which applies the session's history to target.* in a        *)
(* transaction of its own (sp_<star>_p), the facts after all dimensions.    *)
(* A run of dwh_etl_start may be lost anywhere; the session it leaves in    *)
(* state 2 is handed to the next run, which applies every star again.       *)
(* What the calls of a star do inside is StarPublish; what runs do that go  *)
(* on when the task waiting for them is lost is EtlRuns.                    *)
(***************************************************************************)
EXTENDS OdsSession

CONSTANT Facts   \* stars that are published last

ASSUME FactsAssumption == Facts \subseteq Stars

VARIABLES
  shown,    \* version of each document in target.*, 0 if none
  applied   \* stars the run has applied its session to

dwhVars == <<shown, applied>>
pvars == <<vars, dwhVars>>

PipelineInit ==
  /\ Init
  /\ shown = [d \in Docs |-> 0]
  /\ applied = [r \in Runs |-> {}]

(* A call of dwh_AssignSessionID.                                            *)
BeginRun(r) ==
  /\ Begin(r)
  /\ applied' = [applied EXCEPT ![r] = {}]
  /\ UNCHANGED shown

PackStep(r) == (SnapshotStar(r) \/ Finish(r)) /\ UNCHANGED dwhVars

Dims == Stars \ Facts

(* Defects: the launcher starts all stars at once; the run ends with the      *)
(* first star; a star is emptied before it is filled.                        *)
DimsFirst_AtOnce(r, k) == TRUE
AllApplied_One(r) == applied[r] # {}
ShownAfter_Emptied(d, s) == hist[s][d]

(* The launcher triggers the facts after all dimensions have succeeded.      *)
DimsFirst(r, k) == k \in Facts => Dims \subseteq applied[r]

(* A document that is not in the session keeps its row.                      *)
ShownAfter(d, s) == IF hist[s][d] = 0 THEN shown[d] ELSE hist[s][d]

(* exec_publish of star k, up to the COMMIT of its last call.                *)
ApplyStar(r, k) ==
  /\ pc[r] = "handed"
  /\ k \notin applied[r]
  /\ DimsFirst(r, k)
  /\ shown' = [d \in Docs |-> IF StarOf[d] = k THEN ShownAfter(d, sid[r]) ELSE shown[d]]
  /\ applied' = [applied EXCEPT ![r] = @ \cup {k}]
  /\ UNCHANGED vars

AllApplied(r) == applied[r] = Stars

(* finish_dwh_session starts when the launcher has succeeded.                *)
FinishRun(r) == AllApplied(r) /\ Close(r) /\ UNCHANGED dwhVars

RunGoesOn(r) == PackStep(r) \/ FinishRun(r) \/ \E k \in Stars : ApplyStar(r, k)

LoadMessage == (\E d \in Docs : Load(d)) /\ UNCHANGED dwhVars
RunLost(r) == Crash(r) /\ UNCHANGED dwhVars

PipelineNext ==
  \/ LoadMessage
  \/ \E r \in Runs : BeginRun(r) \/ RunGoesOn(r) \/ RunLost(r)

PipelineSpec == PipelineInit /\ [][PipelineNext]_pvars

(* Runs are started again and again, and go on while nothing fails.          *)
FairPipelineSpec ==
  /\ PipelineSpec
  /\ \A r \in Runs : WF_pvars(RunGoesOn(r)) /\ WF_pvars(BeginRun(r))

---------------------------------------------------------------------------
(* Properties.                                                               *)

(* A report never steps back to an older version of a document, in the order *)
(* of loads into odins, and never loses one, whatever run is lost, repeated  *)
(* or cut in two.                                                            *)
ShownNeverStepsBack == [][\A d \in Docs : shown'[d] >= shown[d]]_pvars

(* Facts come with their dimensions: a session of which a report shows a     *)
(* fact has all its dimensions shown.                                        *)
ShownFactsHaveDims ==
  \A s \in Packed, f, d \in Docs :
    StarOf[f] \in Facts /\ StarOf[d] \in Dims /\ hist[s][f] # 0 /\ shown[f] >= hist[s][f]
      => shown[d] >= hist[s][d]

(* A loaded version, or a newer one, is eventually shown in a report, unless *)
(* it was written in the window of NothingLost.  (At the bound MaxSid no     *)
(* session number is left and the model stops packing.)                      *)
LoadedIsShown ==
  \A d \in Docs, v \in 1..MaxVer :
    loaded[d] = v /\ d \notin late ~>
      \/ d \in late
      \/ shown[d] >= v
      \/ nextSid > MaxSid /\ SidsIn(Forming) \cup SidsIn(Ready) = {}
============================================================================
