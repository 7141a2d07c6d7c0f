-------------------------- MODULE PipelineProofs --------------------------
(***************************************************************************)
(* Proofs about OdsSession and Pipeline, for every set of documents and     *)
(* stars and every bound.                                                   *)
(*                                                                          *)
(* Part 1, the sessions: typing holds however many calls overlap; the       *)
(* safety properties are proved for runs that do not overlap, by one        *)
(* inductive invariant.                                                     *)
(*                                                                          *)
(* Part 2, the pipeline, with runs that do not overlap: its sessions behave *)
(* as OdsSession says (PipelineImplementsOdsSession), so that part 1 can be *)
(* used; what a report shows then never steps back, and facts come with     *)
(* their dimensions.                                                        *)
(***************************************************************************)
EXTENDS Pipeline, FiniteSetTheorems, TLAPS

---------------------------------------------------------------------------
(* PART 1: THE SESSIONS.                                                     *)


(* The mode the DAGs are meant for: a run is started when the previous one   *)
(* is over.                                                                  *)
OneRunAtATime == \A r, q \in Runs : r = q

---------------------------------------------------------------------------
(* The inductive invariant, in named parts.                                  *)

(* The row of odins is the last version loaded, and its table part follows.  *)
RowInv ==
  \A d \in Docs :
    /\ oid[d] = 0 <=> ver[d] = 0
    /\ ver[d] # 0 => ver[d] = loaded[d]
    /\ lines[d] = IF StarOf[d] \in Lined THEN ver[d] ELSE 0

(* Only the newest session number can be open.                               *)
SidInv ==
  \A s \in Sids :
    /\ sess[s] # Absent => s < nextSid
    /\ sess[s] \in {Forming, Ready} => s + 1 = nextSid

(* A packed session holds versions older than the live rows, whole           *)
(* documents, and less than every later session.                             *)
PackInv ==
  \A s \in Packed, d \in Docs :
    /\ hist[s][d] <= loaded[d]
    /\ ver[d] # 0 => hist[s][d] < ver[d]
    /\ lineHist[s][d] = IF StarOf[d] \in Lined THEN hist[s][d] ELSE 0

(* What run r has taken of a star it has done is still live, is in the       *)
(* history of its session, and is newer than all that is packed; it holds    *)
(* nothing yet of the stars to come.                                         *)
TakenInv(r, d) ==
  LET h == hist[sid[r]] IN
  IF StarOf[d] < star[r]
  THEN /\ tmp[r][d] = 0 <=> h[d] = 0
       /\ tmp[r][d] # 0 => /\ tmp[r][d] = oid[d]
                           /\ h[d] <= ver[d]
                           /\ d \notin late => h[d] = ver[d]
                           /\ \A s \in Packed : hist[s][d] < h[d]
       /\ lineHist[sid[r]][d] = IF StarOf[d] \in Lined THEN h[d] ELSE 0
  ELSE tmp[r][d] = 0

(* The session a run works on is the newest one and not yet packed.          *)
FormInv ==
  \A r \in Runs : pc[r] = "forming" =>
    /\ sid[r] \in Sids
    /\ sid[r] + 1 = nextSid
    /\ sess[sid[r]] = Forming \/ (sess[sid[r]] = Absent /\ star[r] = 1)
    /\ \A d \in Docs : TakenInv(r, d)

(* A session that a run is about to close is ready.                          *)
HandInv ==
  \A r \in Runs : pc[r] = "handed" => sid[r] \in Sids /\ sess[sid[r]] = Ready

Inv ==
  /\ TypeOK
  /\ RowInv
  /\ SidInv
  /\ PackInv
  /\ FormInv
  /\ HandInv
  /\ NothingLost
  /\ VersionsGrowWithSessions

---------------------------------------------------------------------------
(* Typing.                                                                   *)

LEMMA RowsOfStarType ==
  ASSUME NEW k \in Nat
  PROVE  RowsOfStar(k) \in Nat
<1> DEFINE A == {d \in Docs : StarOf[d] = k /\ ver[d] # 0}
           B == {d \in Docs : StarOf[d] = k /\ ver[d] # 0 /\ lines[d] # 0}
<1>1. IsFiniteSet(A) /\ IsFiniteSet(B)
  BY DocsAssumption, FS_Subset, A \in SUBSET Docs, B \in SUBSET Docs
<1>2. Cardinality(A) \in Nat /\ Cardinality(B) \in Nat
  BY <1>1, FS_CardinalityType
<1> QED
  BY <1>2 DEF RowsOfStar

LEMMA InitTypeOK == Init => TypeOK
  BY BoundsAssumption, StarsAssumption DEF Init, TypeOK, Absent, Forming, Ready, Closed, Sids

LEMMA LoadTypeOK ==
  ASSUME TypeOK, NEW d \in Docs, Load(d)
  PROVE  TypeOK'
<1> USE BoundsAssumption, StarsAssumption DEF TypeOK, Load, sessVars, runVars
<1>1. loaded[d] + 1 \in 0..MaxVer
  OBVIOUS
<1>2. oid' \in [Docs -> Nat] /\ nextOid' \in Nat \ {0}
  <2>1. CASE oid[d] = 0
    BY <2>1
  <2>2. CASE oid[d] # 0
    BY <2>2
  <2> QED
    BY <2>1, <2>2
<1>3. ver' \in [Docs -> 0..MaxVer] /\ loaded' \in [Docs -> 0..MaxVer]
  BY <1>1
<1>4. lines' \in [Docs -> 0..MaxVer]
  BY <1>1
<1>5. late' \subseteq Docs
  OBVIOUS
<1> QED
  BY <1>2, <1>3, <1>4, <1>5

LEMMA BeginTypeOK ==
  ASSUME TypeOK, NEW r \in Runs, Begin(r)
  PROVE  TypeOK'
<1> USE BoundsAssumption, StarsAssumption DEF TypeOK, odsVars, sessVars, auxVars
<1>1. CASE AssignReady(r)
  <2>1. PICK s \in SidsIn(Ready) :
          /\ sid' = [sid EXCEPT ![r] = s]
          /\ rowcount' = [rowcount EXCEPT ![r] = RowCountOf(s)]
          /\ pc' = [pc EXCEPT ![r] = IF RowCountOf(s) > 0 THEN "handed" ELSE "idle"]
    BY <1>1 DEF AssignReady
  <2>2. UNCHANGED <<odsVars, sessVars, star, tmp, auxVars>>
    BY <1>1 DEF AssignReady
  <2>3. s \in Sids /\ RowCountOf(s) \in Nat
    BY DEF SidsIn, Sids, RowCountOf
  <2>4. sid' \in [Runs -> 0..MaxSid]
    BY <2>1, <2>3 DEF Sids
  <2>5. rowcount' \in [Runs -> Nat]
    BY <2>1, <2>3
  <2>6. pc' \in [Runs -> {"idle", "forming", "handed"}]
    BY <2>1
  <2> QED
    BY <2>2, <2>4, <2>5, <2>6 DEF Sids
<1>2. CASE AssignBegin(r)
  <2>1. nextSid' \in 1..(MaxSid + 1)
    BY <1>2 DEF AssignBegin, ReuseForming, InsertSession, Sids
  <2>2. sid' \in [Runs -> 0..MaxSid]
    BY <1>2 DEF AssignBegin, Sids
  <2> QED
    BY <1>2, <2>1, <2>2 DEF AssignBegin
<1> QED
  BY <1>1, <1>2 DEF Begin

LEMMA RunStepTypeOK ==
  ASSUME TypeOK, NEW r \in Runs, RunStep(r)
  PROVE  TypeOK'
<1> USE BoundsAssumption, StarsAssumption DEF TypeOK, odsVars, sessVars, auxVars
<1>1. CASE SnapshotStar(r)
  <2> DEFINE k == star[r]
             n == RowsOfStar(k)
  <2>1. k \in 1..NStars /\ n \in Nat
    BY <1>1, RowsOfStarType DEF SnapshotStar
  <2>2. tmp' \in [Runs -> [Docs -> Nat]]
    BY <1>1 DEF SnapshotStar, Repacked
  <2>3. hist' \in [Sids -> [Docs -> 0..MaxVer]]
    BY <1>1 DEF SnapshotStar, Repacked
  <2>4. lineHist' \in [Sids -> [Docs -> 0..MaxVer]]
    BY <1>1 DEF SnapshotStar, Repacked
  <2>5. details' \in [Sids -> Nat] /\ rowcount' \in [Runs -> Nat]
    <3>1. \A s \in Sids : details[s] + n \in Nat
      BY <2>1
    <3>2. rowcount[r] + n \in Nat
      BY <2>1
    <3> HIDE DEF n
    <3>3. /\ details' = [details EXCEPT ![sid[r]] = @ + n]
          /\ rowcount' = [rowcount EXCEPT ![r] = @ + n]
      BY <1>1 DEF SnapshotStar, n
    <3> QED
      BY <3>1, <3>2, <3>3
  <2>6. star' \in [Runs -> 1..(NStars + 1)]
    BY <1>1, <2>1 DEF SnapshotStar
  <2>7. sess' \in [Sids -> {Absent, Forming, Ready, Closed}]
    BY <1>1 DEF SnapshotStar
  <2>8. late' \subseteq Docs
    BY <1>1 DEF SnapshotStar
  <2>9. UNCHANGED <<oid, ver, lines, nextOid, nextSid, pc, sid, crashes, loaded>>
    BY <1>1 DEF SnapshotStar
  <2> QED
    BY <2>2, <2>3, <2>4, <2>5, <2>6, <2>7, <2>8, <2>9
<1>2. CASE Finish(r)
  <2>1. CASE FoundRows(r)
    <3>0. DeleteTaken(r)
      BY <1>2, <2>1 DEF Finish
    <3>1. oid' \in [Docs -> Nat] /\ ver' \in [Docs -> 0..MaxVer]
      <4>1. oid' \in [Docs -> Nat]
        BY <3>0 DEF DeleteTaken
      <4>2. ver' \in [Docs -> 0..MaxVer]
        BY <3>0 DEF DeleteTaken
      <4> QED
        BY <4>1, <4>2
    <3>2. lines' \in [Docs -> 0..MaxVer] /\ nextOid' \in Nat \ {0}
      BY <3>0 DEF DeleteTaken
    <3>3. sess' \in [Sids -> {Absent, Forming, Ready, Closed}]
      BY <1>2, <2>1 DEF Finish
    <3>4. pc' \in [Runs -> {"idle", "forming", "handed"}]
      BY <1>2, <2>1 DEF Finish
    <3> QED
      BY <1>2, <3>1, <3>2, <3>3, <3>4 DEF Finish
  <2>2. CASE ~FoundRows(r)
    BY <1>2, <2>2 DEF Finish
  <2> QED
    BY <2>1, <2>2
<1>3. CASE Close(r)
  BY <1>3 DEF Close
<1> QED
  BY <1>1, <1>2, <1>3 DEF RunStep

LEMMA CrashTypeOK ==
  ASSUME TypeOK, NEW r \in Runs, Crash(r)
  PROVE  TypeOK'
  BY BoundsAssumption DEF TypeOK, Crash, odsVars, sessVars

LEMMA StutterTypeOK == TypeOK /\ UNCHANGED vars => TypeOK'
  BY DEF TypeOK, vars, odsVars, sessVars, runVars, auxVars

LEMMA NextTypeOK == TypeOK /\ [Next]_vars => TypeOK'
  BY LoadTypeOK, BeginTypeOK, RunStepTypeOK, CrashTypeOK, StutterTypeOK DEF Next

(* Every variable keeps its type, whatever calls, loads and failures         *)
(* interleave: state 3 or 6 is never written, no id leaves its range.        *)
THEOREM TypeCorrect == Spec => []TypeOK
<1>1. Init => TypeOK
  BY InitTypeOK
<1>2. TypeOK /\ [Next]_vars => TypeOK'
  BY NextTypeOK
<1> QED
  BY <1>1, <1>2, PTL DEF Spec

---------------------------------------------------------------------------
(* Safety of runs that do not overlap.                                       *)

LEMMA InitInv == Init => Inv
<1> SUFFICES ASSUME Init PROVE Inv
  OBVIOUS
<1>1. TypeOK
  BY InitTypeOK
<1>2. Packed = {} /\ \A s \in Sids : sess[s] = Absent
  BY DEF Init, Packed, SidsIn, Absent, Ready, Closed
<1>3. RowInv /\ SidInv
  BY <1>2 DEF Init, RowInv, SidInv, Absent, Forming, Ready
<1>4. FormInv /\ HandInv
  BY DEF Init, FormInv, HandInv
<1>5. PackInv /\ VersionsGrowWithSessions
  BY <1>2 DEF PackInv, VersionsGrowWithSessions
<1>6. NothingLost
  BY DEF Init, NothingLost
<1> QED
  BY <1>1, <1>3, <1>4, <1>5, <1>6 DEF Inv

LEMMA LoadInv ==
  ASSUME Inv, NEW x \in Docs, Load(x)
  PROVE  Inv'
<1> USE DEF Inv
<1>1. TypeOK'
  BY LoadTypeOK
<1>2. /\ loaded' = [loaded EXCEPT ![x] = loaded[x] + 1]
      /\ ver' = [ver EXCEPT ![x] = loaded[x] + 1]
      /\ lines' = [lines EXCEPT ![x] = IF StarOf[x] \in Lined THEN loaded[x] + 1 ELSE 0]
      /\ \A d \in Docs : oid[d] # 0 => oid'[d] = oid[d]
      /\ \A d \in Docs : d # x => oid'[d] = oid[d]
      /\ oid'[x] # 0
      /\ \A d \in Docs : d # x => (d \in late' <=> d \in late)
      /\ \A r \in Runs : TakenBy(r, x) => x \in late'
  <2>1. /\ \A d \in Docs : oid[d] # 0 => oid'[d] = oid[d]
        /\ \A d \in Docs : d # x => oid'[d] = oid[d]
        /\ oid'[x] # 0
    <3>1. CASE oid[x] = 0
      BY <3>1 DEF Load, TypeOK
    <3>2. CASE oid[x] # 0
      BY <3>2 DEF Load, TypeOK
    <3> QED
      BY <3>1, <3>2
  <2>2. /\ \A d \in Docs : d # x => (d \in late' <=> d \in late)
        /\ \A r \in Runs : TakenBy(r, x) => x \in late'
    BY DEF Load
  <2> QED
    BY <2>1, <2>2 DEF Load
<1>3. UNCHANGED <<hist, lineHist, sess, nextSid, pc, sid, star, tmp>>
  BY DEF Load, sessVars, runVars
<1>4. Packed' = Packed
  BY <1>3 DEF Packed, SidsIn
<1>5. RowInv'
  BY <1>2 DEF RowInv, TypeOK
<1>6. SidInv' /\ HandInv' /\ VersionsGrowWithSessions'
  BY <1>3, <1>4 DEF SidInv, HandInv, VersionsGrowWithSessions
<1>7. PackInv'
  <2> SUFFICES ASSUME NEW s \in Packed, NEW d \in Docs
               PROVE  /\ hist[s][d] <= loaded'[d]
                      /\ ver'[d] # 0 => hist[s][d] < ver'[d]
                      /\ lineHist[s][d] = IF StarOf[d] \in Lined THEN hist[s][d] ELSE 0
    BY <1>3, <1>4 DEF PackInv
  <2>1. hist[s][d] \in Nat /\ loaded[d] \in Nat
    BY DEF TypeOK, Packed, SidsIn
  <2> QED
    BY <1>2, <2>1 DEF PackInv, TypeOK
<1>8. FormInv'
  <2> SUFFICES ASSUME NEW r \in Runs, pc[r] = "forming", NEW d \in Docs
               PROVE  TakenInv(r, d)'
    BY <1>3 DEF FormInv
  <2>1. TakenInv(r, d) /\ sid[r] \in Sids
    BY DEF FormInv
  <2>2. CASE d = x
    <3>1. tmp[r][x] # 0 /\ tmp[r][x] = oid[x] => x \in late'
      BY <1>2 DEF TakenBy
    <3>2. oid[x] # 0 => oid'[x] = oid[x] /\ ver[x] <= ver'[x]
      BY <1>2 DEF RowInv, TypeOK
    <3>3. hist[sid[r]][x] \in Nat /\ ver[x] \in Nat /\ ver'[x] \in Nat
      BY <1>1, <2>1 DEF TypeOK
    <3> QED
      BY <1>3, <1>4, <2>1, <2>2, <3>1, <3>2, <3>3 DEF TakenInv
  <2>3. CASE d # x
    <3>1. oid'[d] = oid[d] /\ ver'[d] = ver[d] /\ (d \in late' <=> d \in late)
      BY <1>2, <2>3 DEF TypeOK
    <3> QED
      BY <1>3, <1>4, <2>1, <3>1 DEF TakenInv
  <2> QED
    BY <2>2, <2>3
<1>9. NothingLost'
  BY <1>2, <1>3, <1>4 DEF NothingLost, TypeOK
<1> QED
  BY <1>1, <1>5, <1>6, <1>7, <1>8, <1>9

LEMMA AssignReadyInv ==
  ASSUME Inv, OneRunAtATime, NEW r \in Runs, AssignReady(r)
  PROVE  Inv'
<1> USE DEF Inv
<1>1. TypeOK'
  BY BeginTypeOK DEF Begin
<1>2. UNCHANGED <<oid, ver, lines, hist, lineHist, sess, nextSid, star, tmp, loaded, late>>
  BY DEF AssignReady, odsVars, sessVars, auxVars
<1>3. Packed' = Packed
  BY <1>2 DEF Packed, SidsIn
<1>4. RowInv' /\ SidInv' /\ PackInv' /\ VersionsGrowWithSessions' /\ NothingLost'
  BY <1>2, <1>3 DEF RowInv, SidInv, PackInv, VersionsGrowWithSessions, NothingLost
<1>5. \A q \in Runs : pc'[q] # "forming"
  BY DEF AssignReady, OneRunAtATime, TypeOK
<1>6. FormInv'
  BY <1>5 DEF FormInv
<1>7. HandInv'
  <2>1. sid'[r] \in Sids /\ sess[sid'[r]] = Ready
    BY DEF AssignReady, SidsIn, TypeOK
  <2> QED
    BY <1>2, <2>1 DEF HandInv, OneRunAtATime
<1> QED
  BY <1>1, <1>4, <1>6, <1>7

LEMMA AssignBeginInv ==
  ASSUME Inv, OneRunAtATime, NEW r \in Runs, AssignBegin(r)
  PROVE  Inv'
<1> USE DEF Inv
<1>1. TypeOK'
  BY BeginTypeOK DEF Begin
<1>2. UNCHANGED <<oid, ver, lines, hist, lineHist, sess, loaded, late>>
  BY DEF AssignBegin, odsVars, auxVars
<1>3. Packed' = Packed
  BY <1>2 DEF Packed, SidsIn
<1>4. RowInv' /\ PackInv' /\ VersionsGrowWithSessions' /\ NothingLost'
  BY <1>2, <1>3 DEF RowInv, PackInv, VersionsGrowWithSessions, NothingLost
<1>5. PICK s \in Sids : sid' = [sid EXCEPT ![r] = s] /\ (ReuseForming(s) \/ InsertSession(s))
  BY DEF AssignBegin
<1>6. /\ SidInv'
      /\ s + 1 = nextSid'
      /\ sess[s] = Forming \/ sess[s] = Absent
  <2> USE DEF SidInv, SidsIn, Absent, Forming, Ready
  <2>1. CASE ReuseForming(s)
    BY <1>2, <2>1 DEF ReuseForming
  <2>2. CASE InsertSession(s)
    <3>1. nextSid \in Nat /\ nextSid' = nextSid + 1 /\ s = nextSid
      BY <2>2 DEF InsertSession, TypeOK
    <3>2. \A t \in Sids : sess[t] \notin {Forming, Ready}
      BY <2>2 DEF InsertSession, AssignBegin
    <3>3. \A t \in Sids : t \in Nat
      BY BoundsAssumption DEF Sids
    <3>4. sess[s] = Absent
      BY <3>1, <3>3
    <3> QED
      BY <1>2, <3>1, <3>2, <3>3, <3>4
  <2> QED
    BY <1>5, <2>1, <2>2
<1>7. FormInv'
  <2>1. /\ sid'[r] = s
        /\ star'[r] = 1
        /\ tmp'[r] = [d \in Docs |-> 0]
    BY <1>5 DEF AssignBegin, TypeOK
  <2>2. \A d \in Docs : TakenInv(r, d)'
    BY <2>1, StarsAssumption DEF TakenInv
  <2> QED
    BY <1>2, <1>6, <2>1, <2>2 DEF FormInv, OneRunAtATime
<1>8. HandInv'
  BY DEF AssignBegin, HandInv, OneRunAtATime, TypeOK
<1> QED
  BY <1>1, <1>4, <1>6, <1>7, <1>8

LEMMA SnapshotStarInv ==
  ASSUME Inv, OneRunAtATime, NEW r \in Runs, SnapshotStar(r)
  PROVE  Inv'
<1> USE DEF Inv
<1> DEFINE s == sid[r]
           k == star[r]
<1>1. TypeOK'
  BY RunStepTypeOK DEF RunStep
<1>2. /\ UNCHANGED <<oid, ver, lines, nextSid, pc, sid, loaded>>
      /\ pc[r] = "forming" /\ k \in 1..NStars
  BY DEF SnapshotStar, odsVars, TypeOK
<1>3. /\ s \in Sids /\ s + 1 = nextSid
      /\ sess[s] = Forming \/ sess[s] = Absent
      /\ \A d \in Docs : TakenInv(r, d)
  BY <1>2 DEF FormInv
<1>4. /\ sess'[s] = Forming
      /\ \A t \in Sids : t # s => sess'[t] = sess[t]
  BY <1>3 DEF SnapshotStar, TypeOK, Absent, Forming
<1>5. Packed' = Packed /\ s \notin Packed
  BY <1>3, <1>4 DEF Packed, SidsIn, Absent, Forming, Ready, Closed
<1>6. \A t \in Sids : t # s => hist'[t] = hist[t] /\ lineHist'[t] = lineHist[t]
  BY DEF SnapshotStar, TypeOK
<1>7. \A d \in Docs :
        /\ hist'[s][d] = IF StarOf[d] = k THEN ver[d] ELSE hist[s][d]
        /\ lineHist'[s][d] = IF StarOf[d] = k THEN (IF ver[d] # 0 THEN lines[d] ELSE 0)
                                              ELSE lineHist[s][d]
        /\ tmp'[r][d] = IF StarOf[d] = k THEN oid[d] ELSE tmp[r][d]
        /\ d \in late' <=> d \in late /\ ~(StarOf[d] = k /\ ver[d] # 0)
  BY <1>3 DEF SnapshotStar, Repacked, TypeOK
<1>8. RowInv'
  BY <1>2 DEF RowInv
<1>9. SidInv'
  BY <1>2, <1>3, <1>4, BoundsAssumption DEF SidInv, Sids, TypeOK, Absent, Forming, Ready
<1>10. PackInv' /\ VersionsGrowWithSessions'
  BY <1>2, <1>5, <1>6 DEF PackInv, VersionsGrowWithSessions, Packed, SidsIn
<1>11. NothingLost'
  <2> SUFFICES ASSUME NEW d \in Docs, loaded[d] > 0, ver[d] # loaded[d]
               PROVE  \E t \in Packed : IF d \in late' THEN hist'[t][d] > 0
                                                       ELSE hist'[t][d] = loaded[d]
    BY <1>2, <1>5 DEF NothingLost
  <2>1. ver[d] = 0
    BY DEF RowInv
  <2>2. d \in late' <=> d \in late
    BY <1>7, <2>1
  <2>3. PICK t \in Packed : IF d \in late THEN hist[t][d] > 0 ELSE hist[t][d] = loaded[d]
    BY DEF NothingLost
  <2>4. hist'[t] = hist[t]
    BY <1>5, <1>6 DEF Packed, SidsIn
  <2> QED
    BY <2>2, <2>3, <2>4
<1>12. FormInv'
  <2>1. star'[r] = k + 1
    BY DEF SnapshotStar, TypeOK
  <2> SUFFICES ASSUME NEW d \in Docs
               PROVE  TakenInv(r, d)'
    BY <1>2, <1>3, <1>4 DEF FormInv, OneRunAtATime
  <2>2. TakenInv(r, d) /\ StarOf[d] \in Nat /\ k \in Nat
    BY <1>2, <1>3, StarsAssumption
  <2>3. \A t \in Packed : hist'[t] = hist[t]
    BY <1>5, <1>6 DEF Packed, SidsIn
  <2>4. CASE StarOf[d] = k
    <3>1. /\ hist'[s][d] = ver[d] /\ tmp'[r][d] = oid[d]
          /\ lineHist'[s][d] = IF ver[d] # 0 THEN lines[d] ELSE 0
      BY <1>7, <2>4
    <3>2. \A t \in Packed : ver[d] # 0 => hist[t][d] < ver[d]
      BY DEF PackInv
    <3>3. (oid[d] = 0 <=> ver[d] = 0) /\ lines[d] = IF StarOf[d] \in Lined THEN ver[d] ELSE 0
      BY DEF RowInv
    <3>4. ver[d] \in Nat
      BY DEF TypeOK
    <3> QED
      BY <1>2, <1>5, <2>1, <2>2, <2>3, <2>4, <3>1, <3>2, <3>3, <3>4 DEF TakenInv
  <2>5. CASE StarOf[d] # k
    <3>1. /\ hist'[s][d] = hist[s][d] /\ tmp'[r][d] = tmp[r][d]
          /\ lineHist'[s][d] = lineHist[s][d]
          /\ d \in late' <=> d \in late
      BY <1>7, <2>5
    <3>2. StarOf[d] < k + 1 <=> StarOf[d] < k
      BY <2>2, <2>5
    <3> QED
      BY <1>2, <1>5, <2>1, <2>2, <2>3, <3>1, <3>2 DEF TakenInv
  <2> QED
    BY <2>4, <2>5
<1>13. HandInv'
  BY <1>2 DEF HandInv, OneRunAtATime
<1> QED
  BY <1>1, <1>8, <1>9, <1>10, <1>11, <1>12, <1>13

LEMMA FinishInv ==
  ASSUME Inv, OneRunAtATime, NEW r \in Runs, Finish(r)
  PROVE  Inv'
<1> USE DEF Inv
<1> DEFINE s == sid[r]
<1>1. TypeOK'
  BY RunStepTypeOK DEF RunStep
<1>2. /\ UNCHANGED <<hist, lineHist, nextSid, sid, star, tmp, loaded, late>>
      /\ pc[r] = "forming" /\ star[r] = NStars + 1
      /\ pc'[r] # "forming"
  BY DEF Finish, auxVars, TypeOK
<1>3. /\ s \in Sids /\ s + 1 = nextSid
      /\ sess[s] = Forming
      /\ \A d \in Docs : TakenInv(r, d)
  BY <1>2, StarsAssumption DEF FormInv
<1>4. FormInv'
  BY <1>2 DEF FormInv, OneRunAtATime
<1>5. CASE ~FoundRows(r)
  <2>1. UNCHANGED <<oid, ver, lines, sess>> /\ pc'[r] = "idle"
    BY <1>5 DEF Finish, odsVars, TypeOK
  <2>2. Packed' = Packed
    BY <2>1 DEF Packed, SidsIn
  <2>3. RowInv' /\ SidInv' /\ PackInv' /\ VersionsGrowWithSessions' /\ NothingLost'
    BY <1>2, <2>1, <2>2 DEF RowInv, SidInv, PackInv, VersionsGrowWithSessions, NothingLost
  <2>4. HandInv'
    BY <2>1 DEF HandInv, OneRunAtATime
  <2> QED
    BY <1>1, <1>4, <2>3, <2>4
<1>6. CASE FoundRows(r)
  <2>1. DeleteTaken(r) /\ sess' = [sess EXCEPT ![s] = Ready] /\ pc'[r] = "handed"
    BY <1>6 DEF Finish, TypeOK
  <2>2. Packed' = Packed \cup {s} /\ s \notin Packed
    BY <1>3, <2>1 DEF Packed, SidsIn, TypeOK, Absent, Forming, Ready, Closed
  <2>3. \A d \in Docs : StarOf[d] < star[r]
    BY <1>2, StarsAssumption
  <2>4. \A d \in Docs :
          /\ tmp[r][d] = 0 <=> hist[s][d] = 0
          /\ tmp[r][d] # 0 => /\ tmp[r][d] = oid[d]
                              /\ hist[s][d] <= ver[d]
                              /\ d \notin late => hist[s][d] = ver[d]
                              /\ \A t \in Packed : hist[t][d] < hist[s][d]
          /\ lineHist[s][d] = IF StarOf[d] \in Lined THEN hist[s][d] ELSE 0
    BY <1>3, <2>3 DEF TakenInv
  <2>5. \A d \in Docs :
          IF tmp[r][d] # 0 THEN oid'[d] = 0 /\ ver'[d] = 0 /\ lines'[d] = 0
                           ELSE oid'[d] = oid[d] /\ ver'[d] = ver[d] /\ lines'[d] = lines[d]
    BY <2>1, <2>4 DEF DeleteTaken, DeletedByRun, LinesDeletedByRun
  <2>6. RowInv'
    BY <1>2, <2>5 DEF RowInv
  <2>7. SidInv'
    BY <1>2, <1>3, <2>1, BoundsAssumption DEF SidInv, Sids, TypeOK, Absent, Forming, Ready
  <2>8. \A d \in Docs : /\ hist[s][d] \in Nat /\ ver[d] \in Nat /\ loaded[d] \in Nat
                        /\ ver[d] <= loaded[d]
    <3> SUFFICES ASSUME NEW d \in Docs
                 PROVE  /\ hist[s][d] \in Nat /\ ver[d] \in Nat /\ loaded[d] \in Nat
                        /\ ver[d] <= loaded[d]
      OBVIOUS
    <3>1. hist[s][d] \in 0..MaxVer /\ ver[d] \in 0..MaxVer /\ loaded[d] \in 0..MaxVer
      BY <1>3 DEF TypeOK
    <3>2. ver[d] # 0 => ver[d] = loaded[d]
      BY DEF RowInv
    <3> QED
      BY <3>1, <3>2
  <2>9. PackInv'
    <3> SUFFICES ASSUME NEW t \in Packed \cup {s}, NEW d \in Docs
                 PROVE  /\ hist[t][d] <= loaded[d]
                        /\ ver'[d] # 0 => hist[t][d] < ver'[d]
                        /\ lineHist[t][d] = IF StarOf[d] \in Lined THEN hist[t][d] ELSE 0
      BY <1>2, <2>2 DEF PackInv
    <3>1. CASE t \in Packed
      BY <2>5, <3>1 DEF PackInv
    <3>2. CASE t = s
      BY <2>4, <2>5, <2>8, <3>2
    <3> QED
      BY <3>1, <3>2
  <2>10. VersionsGrowWithSessions'
    <3> SUFFICES ASSUME NEW t \in Packed \cup {s}, NEW u \in Packed \cup {s}, t < u,
                        NEW d \in Docs, hist[t][d] > 0, hist[u][d] > 0
                 PROVE  hist[t][d] < hist[u][d]
      BY <1>2, <2>2 DEF VersionsGrowWithSessions
    <3>1. CASE t \in Packed /\ u \in Packed
      BY <3>1 DEF VersionsGrowWithSessions
    <3>2. CASE u = s
      <4>1. t \in Packed
        BY <3>2, <1>3, BoundsAssumption DEF Sids
      <4>2. tmp[r][d] # 0
        BY <2>4, <2>8, <3>2
      <4> QED
        BY <2>4, <3>2, <4>1, <4>2
    <3>3. CASE t = s /\ u \in Packed
      <4>1. u \in Sids /\ u < nextSid
        BY <3>3 DEF Packed, SidsIn, SidInv, Absent, Ready, Closed
      <4> QED
        BY <1>3, <3>3, <4>1, BoundsAssumption DEF Sids, TypeOK
    <3> QED
      BY <3>1, <3>2, <3>3
  <2>11. NothingLost'
    <3> SUFFICES ASSUME NEW d \in Docs, loaded[d] > 0, ver'[d] # loaded[d]
                 PROVE  \E t \in Packed \cup {s} : IF d \in late THEN hist[t][d] > 0
                                                               ELSE hist[t][d] = loaded[d]
      BY <1>2, <2>2 DEF NothingLost
    <3>1. CASE ver[d] # loaded[d]
      BY <3>1 DEF NothingLost
    <3>2. CASE ver[d] = loaded[d]
      <4>1. tmp[r][d] # 0
        BY <2>5, <3>2
      <4>2. hist[s][d] > 0 /\ (d \notin late => hist[s][d] = loaded[d])
        BY <2>4, <2>8, <3>2, <4>1
      <4> QED
        BY <4>2
    <3> QED
      BY <3>1, <3>2
  <2>12. HandInv'
    BY <1>2, <1>3, <2>1 DEF HandInv, OneRunAtATime, TypeOK
  <2> QED
    BY <1>1, <1>4, <2>6, <2>7, <2>9, <2>10, <2>11, <2>12
<1> QED
  BY <1>5, <1>6

LEMMA CloseInv ==
  ASSUME Inv, OneRunAtATime, NEW r \in Runs, Close(r)
  PROVE  Inv'
<1> USE DEF Inv
<1>1. TypeOK'
  BY RunStepTypeOK DEF RunStep
<1>2. /\ UNCHANGED <<oid, ver, lines, hist, lineHist, nextSid, sid, star, tmp, loaded, late>>
      /\ sess' = [sess EXCEPT ![sid[r]] = Closed]
      /\ pc'[r] = "idle" /\ pc[r] = "handed"
  BY DEF Close, odsVars, auxVars, TypeOK
<1>3. sid[r] \in Sids /\ sess[sid[r]] = Ready
  BY <1>2 DEF HandInv
<1>4. Packed' = Packed
  BY <1>2, <1>3 DEF Packed, SidsIn, TypeOK, Ready, Closed
<1>5. SidInv'
  BY <1>2, <1>3 DEF SidInv, TypeOK, Absent, Forming, Ready, Closed
<1>6. RowInv' /\ PackInv' /\ VersionsGrowWithSessions' /\ NothingLost'
  BY <1>2, <1>4 DEF RowInv, PackInv, VersionsGrowWithSessions, NothingLost
<1>7. FormInv' /\ HandInv'
  BY <1>2 DEF FormInv, HandInv, OneRunAtATime
<1> QED
  BY <1>1, <1>5, <1>6, <1>7

LEMMA CrashInv ==
  ASSUME Inv, OneRunAtATime, NEW r \in Runs, Crash(r)
  PROVE  Inv'
<1> USE DEF Inv
<1>1. TypeOK'
  BY CrashTypeOK
<1>2. /\ UNCHANGED <<oid, ver, lines, hist, lineHist, sess, nextSid, loaded, late>>
      /\ pc'[r] = "idle"
  BY DEF Crash, odsVars, sessVars, TypeOK
<1>3. Packed' = Packed
  BY <1>2 DEF Packed, SidsIn
<1>4. RowInv' /\ SidInv' /\ PackInv' /\ VersionsGrowWithSessions' /\ NothingLost'
  BY <1>2, <1>3 DEF RowInv, SidInv, PackInv, VersionsGrowWithSessions, NothingLost
<1>5. FormInv' /\ HandInv'
  BY <1>2 DEF FormInv, HandInv, OneRunAtATime
<1> QED
  BY <1>1, <1>4, <1>5

LEMMA StutterInv ==
  ASSUME Inv, UNCHANGED vars
  PROVE  Inv'
<1> USE DEF Inv, vars, odsVars, sessVars, runVars, auxVars
<1>1. TypeOK'
  BY StutterTypeOK
<1>2. Packed' = Packed
  BY DEF Packed, SidsIn
<1>3. RowInv' /\ SidInv' /\ HandInv'
  BY DEF RowInv, SidInv, HandInv
<1>4. PackInv' /\ VersionsGrowWithSessions' /\ NothingLost'
  BY <1>2 DEF PackInv, VersionsGrowWithSessions, NothingLost
<1>5. FormInv'
  BY <1>2 DEF FormInv, TakenInv
<1> QED
  BY <1>1, <1>3, <1>4, <1>5

LEMMA NextInv ==
  ASSUME OneRunAtATime, Inv, [Next]_vars
  PROVE  Inv'
<1>1. CASE \E d \in Docs : Load(d)
  BY <1>1, LoadInv
<1>2. CASE \E r \in Runs : Begin(r)
  BY <1>2, AssignReadyInv, AssignBeginInv DEF Begin
<1>3. CASE \E r \in Runs : RunStep(r)
  BY <1>3, SnapshotStarInv, FinishInv, CloseInv DEF RunStep
<1>4. CASE \E r \in Runs : Crash(r)
  BY <1>4, CrashInv
<1>5. CASE UNCHANGED vars
  BY <1>5, StutterInv
<1> QED
  BY <1>1, <1>2, <1>3, <1>4, <1>5 DEF Next

LEMMA InvHolds == OneRunAtATime => (Spec => []Inv)
<1> SUFFICES ASSUME OneRunAtATime PROVE Spec => []Inv
  OBVIOUS
<1>1. Init => Inv
  BY InitInv
<1>2. Inv /\ [Next]_vars => Inv'
  BY NextInv
<1> QED
  BY <1>1, <1>2, PTL DEF Spec

---------------------------------------------------------------------------
(* What follows from the invariant.                                          *)

(* No load is lost but in the window between the COMMIT of a star and the    *)
(* final DELETE, and no document is lost at all.                             *)
THEOREM NothingLostTheorem == OneRunAtATime => (Spec => []NothingLost)
<1>1. Inv => NothingLost
  BY DEF Inv
<1> QED
  BY <1>1, InvHolds, PTL

(* The warehouse can apply sessions in the order of their numbers.           *)
THEOREM VersionsGrowTheorem == OneRunAtATime => (Spec => []VersionsGrowWithSessions)
<1>1. Inv => VersionsGrowWithSessions
  BY DEF Inv
<1> QED
  BY <1>1, InvHolds, PTL

(* There is never more than one session forming or waiting to be closed.     *)
THEOREM OneOpenSessionTheorem == OneRunAtATime => (Spec => []OneOpenSession)
<1>1. Inv => OneOpenSession
  BY BoundsAssumption DEF Inv, SidInv, OneOpenSession, SidsIn, Sids
<1> QED
  BY <1>1, InvHolds, PTL

(* A table part is live, and packed, exactly with its document.              *)
THEOREM LinesTravelTheorem == OneRunAtATime => (Spec => []LinesTravelWithDoc)
<1>1. Inv => LinesTravelWithDoc
  BY DEF Inv, RowInv, PackInv, LinesTravelWithDoc
<1> QED
  BY <1>1, InvHolds, PTL

PackedKept ==
  \A s \in Packed : /\ hist'[s] = hist[s] /\ lineHist'[s] = lineHist[s]
                   /\ sess'[s] >= sess[s]

(* No step touches the history of a packed session or reopens it.            *)
LEMMA NextKeepsPacked ==
  ASSUME OneRunAtATime, Inv, Next
  PROVE  PackedKept
<1> USE DEF Inv
<1>1. \A s \in Packed : s \in Sids /\ sess[s] \in Nat
  BY DEF Packed, SidsIn, Ready, Closed
<1>2. ASSUME UNCHANGED <<hist, lineHist, sess>> PROVE PackedKept
  BY <1>1, <1>2 DEF PackedKept
<1>3. CASE \E d \in Docs : Load(d)
  BY <1>2, <1>3 DEF Load, sessVars
<1>4. CASE \E r \in Runs : Begin(r) \/ Crash(r)
  BY <1>2, <1>4 DEF Begin, AssignReady, AssignBegin, Crash, sessVars
<1>5. ASSUME NEW r \in Runs, SnapshotStar(r) PROVE PackedKept
  <2>1. sid[r] \in Sids /\ sess[sid[r]] \in {Absent, Forming}
    BY <1>5 DEF SnapshotStar, FormInv
  <2>2. \A s \in Packed : s # sid[r]
    BY <2>1 DEF Packed, SidsIn, Absent, Forming, Ready, Closed
  <2> QED
    BY <1>1, <1>5, <2>2 DEF SnapshotStar, TypeOK, PackedKept
<1>6. ASSUME NEW r \in Runs, Finish(r) PROVE PackedKept
  <2>1. sid[r] \in Sids /\ sess[sid[r]] \in {Absent, Forming}
    BY <1>6 DEF Finish, FormInv
  <2>2. \A s \in Packed : s # sid[r]
    BY <2>1 DEF Packed, SidsIn, Absent, Forming, Ready, Closed
  <2>3. \A s \in Packed : sess'[s] = sess[s]
    BY <1>1, <1>6, <2>2 DEF Finish, TypeOK
  <2> QED
    BY <1>1, <1>6, <2>3 DEF Finish, PackedKept
<1>7. ASSUME NEW r \in Runs, Close(r) PROVE PackedKept
  BY <1>1, <1>7 DEF Close, HandInv, TypeOK, Ready, Closed, PackedKept
<1> QED
  BY <1>3, <1>4, <1>5, <1>6, <1>7 DEF Next, RunStep

(* What a ready session holds no longer changes, and it is never opened      *)
(* again.                                                                    *)
THEOREM PackedIsFrozenTheorem == OneRunAtATime => (Spec => PackedIsFrozen)
<1> SUFFICES ASSUME OneRunAtATime PROVE Spec => PackedIsFrozen
  OBVIOUS
<1> DEFINE Kept == \A s \in Packed : /\ hist'[s] = hist[s] /\ lineHist'[s] = lineHist[s]
                                     /\ sess'[s] >= sess[s]
<1>1. Inv /\ [Next]_vars => [Kept]_vars
  BY NextKeepsPacked DEF PackedKept
<1>2. Spec => []Inv
  BY InvHolds
<1> QED
  BY <1>1, <1>2, PTL DEF Spec, PackedIsFrozen

---------------------------------------------------------------------------
(* A ready session can be published.                                         *)

(* The row counts of a session cover its rows, also after a failed call; a   *)
(* call that has counted rows has copied some, of a star it has done.        *)
CountInv ==
  /\ \A s \in Sids : details[s] >= HistoryRows(s)
  /\ \A s \in SidsIn(Ready) : \E d \in Docs : hist[s][d] # 0
  /\ \A r \in Runs : pc[r] = "forming" /\ rowcount[r] > 0 =>
       \E d \in Docs : StarOf[d] < star[r] /\ hist[sid[r]][d] # 0

LEMMA DocsCounted ==
  ASSUME NEW A \in SUBSET Docs, NEW B \in SUBSET Docs, NEW C \in SUBSET Docs, A \subseteq B \cup C
  PROVE  /\ Cardinality(A) \in Nat /\ Cardinality(B) \in Nat /\ Cardinality(C) \in Nat
         /\ Cardinality(A) <= Cardinality(B) + Cardinality(C)
         /\ Cardinality(A) = 0 <=> A = {}
<1>1. IsFiniteSet(A) /\ IsFiniteSet(B) /\ IsFiniteSet(C)
  BY DocsAssumption, FS_Subset
<1>2. /\ Cardinality(A) \in Nat /\ Cardinality(B) \in Nat /\ Cardinality(C) \in Nat
      /\ Cardinality(B \cap C) \in Nat
  BY <1>1, FS_CardinalityType, FS_Intersection
<1>3. /\ IsFiniteSet(B \cup C)
      /\ Cardinality(B \cup C) = Cardinality(B) + Cardinality(C) - Cardinality(B \cap C)
  BY <1>1, FS_Union
<1>4. Cardinality(A) <= Cardinality(B \cup C)
  BY <1>3, FS_Subset
<1>5. Cardinality(A) = 0 <=> A = {}
  BY <1>1, FS_EmptySet
<1> QED
  BY <1>2, <1>3, <1>4, <1>5

(* Copying a star adds at most the rows that are counted, and at least one   *)
(* document when anything is counted.                                        *)
LEMMA CountedRows ==
  ASSUME Inv, NEW r \in Runs, SnapshotStar(r), NEW s \in Sids, s = sid[r]
  PROVE  /\ RowsOfStar(star[r]) \in Nat
         /\ HistoryRows(s) \in Nat /\ HistoryRows(s)' \in Nat
         /\ HistoryRows(s)' <= HistoryRows(s) + RowsOfStar(star[r])
         /\ RowsOfStar(star[r]) > 0 => \E d \in Docs : StarOf[d] = star[r] /\ hist'[s][d] # 0
<1> DEFINE k == star[r]
           H == {d \in Docs : hist[s][d] # 0}
           L == {d \in Docs : lineHist[s][d] # 0}
           G == {d \in Docs : hist'[s][d] # 0}
           M == {d \in Docs : lineHist'[s][d] # 0}
           A == {d \in Docs : StarOf[d] = k /\ ver[d] # 0}
           B == {d \in Docs : StarOf[d] = k /\ ver[d] # 0 /\ lines[d] # 0}
<1>1. \A d \in Docs :
        /\ hist'[s][d] = IF StarOf[d] = k THEN ver[d] ELSE hist[s][d]
        /\ lineHist'[s][d] = IF StarOf[d] = k THEN (IF ver[d] # 0 THEN lines[d] ELSE 0)
                                              ELSE lineHist[s][d]
  BY DEF SnapshotStar, Repacked, Inv, TypeOK
<1>2. G \subseteq H \cup A /\ M \subseteq L \cup B
  BY <1>1
<1>3. HistoryRows(s) = Cardinality(H) + Cardinality(L)
  BY DEF HistoryRows
<1>4. HistoryRows(s)' = Cardinality(G) + Cardinality(M)
  BY DEF HistoryRows
<1>5. RowsOfStar(k) = Cardinality(A) + Cardinality(B)
  BY DEF RowsOfStar
<1>6. /\ Cardinality(G) \in Nat /\ Cardinality(H) \in Nat /\ Cardinality(A) \in Nat
      /\ Cardinality(G) <= Cardinality(H) + Cardinality(A)
  BY <1>2, DocsCounted
<1>7. /\ Cardinality(M) \in Nat /\ Cardinality(L) \in Nat /\ Cardinality(B) \in Nat
      /\ Cardinality(M) <= Cardinality(L) + Cardinality(B)
  BY <1>2, DocsCounted
<1>8. ASSUME RowsOfStar(k) > 0 PROVE \E d \in Docs : StarOf[d] = k /\ hist'[s][d] # 0
  <2>1. Cardinality(A) # 0 \/ Cardinality(B) # 0
    BY <1>5, <1>6, <1>7, <1>8
  <2>2. A # {} \/ B # {}
    <3>1. (Cardinality(A) = 0 <=> A = {}) /\ (Cardinality(B) = 0 <=> B = {})
      BY DocsCounted
    <3> QED
      BY <2>1, <3>1
  <2>3. PICK d \in Docs : StarOf[d] = k /\ ver[d] # 0
    BY <2>2
  <2> QED
    BY <1>1, <2>3
<1> HIDE DEF G, H, L, M, A, B
<1> QED
  BY <1>3, <1>4, <1>5, <1>6, <1>7, <1>8

LEMMA InitCount == Init => CountInv
<1> SUFFICES ASSUME Init PROVE CountInv
  OBVIOUS
<1>1. ASSUME NEW s \in Sids PROVE details[s] >= HistoryRows(s)
  <2>1. {d \in Docs : hist[s][d] # 0} = {} /\ {d \in Docs : lineHist[s][d] # 0} = {}
    BY DEF Init
  <2>2. HistoryRows(s) = 0
    BY <2>1, FS_EmptySet DEF HistoryRows
  <2> QED
    BY <2>2 DEF Init
<1>2. SidsIn(Ready) = {} /\ \A r \in Runs : pc[r] # "forming"
  BY DEF Init, SidsIn, Absent, Ready
<1> QED
  BY <1>1, <1>2 DEF CountInv

LEMMA NextCount ==
  ASSUME OneRunAtATime, Inv, CountInv, [Next]_vars
  PROVE  CountInv'
<1> USE DEF CountInv
<1>1. TypeOK
  BY DEF Inv
<1>2. ASSUME UNCHANGED <<hist, lineHist, details>>
      PROVE  \A s \in Sids : details'[s] >= HistoryRows(s)'
  BY <1>2 DEF HistoryRows
<1>3. ASSUME UNCHANGED <<hist, lineHist, details, sess>>,
             \/ UNCHANGED <<pc, star, sid, rowcount>>
             \/ \A r \in Runs : pc'[r] = "forming" => rowcount'[r] = 0
      PROVE  CountInv'
  BY <1>2, <1>3 DEF SidsIn
<1>4. CASE \E d \in Docs : Load(d)
  BY <1>3, <1>4 DEF Load, sessVars, runVars
<1>5. CASE \E r \in Runs : Begin(r)
  BY <1>1, <1>3, <1>5 DEF Begin, AssignReady, AssignBegin, sessVars, TypeOK, OneRunAtATime
<1>6. CASE \E r \in Runs : Crash(r)
  BY <1>1, <1>3, <1>6 DEF Crash, sessVars, TypeOK, OneRunAtATime
<1>7. CASE UNCHANGED vars
  BY <1>3, <1>7 DEF vars, sessVars, runVars
<1>8. ASSUME NEW r \in Runs, Close(r) PROVE CountInv'
  <2>1. /\ UNCHANGED <<hist, lineHist, details>> /\ sid[r] \in Sids
        /\ sess' = [sess EXCEPT ![sid[r]] = Closed] /\ pc'[r] = "idle"
    BY <1>1, <1>8 DEF Close, HandInv, Inv, TypeOK
  <2>2. SidsIn(Ready)' \subseteq SidsIn(Ready)
    BY <1>1, <2>1 DEF SidsIn, TypeOK, Ready, Closed
  <2> QED
    BY <1>2, <2>1, <2>2 DEF OneRunAtATime
<1>9. ASSUME NEW r \in Runs, Finish(r) PROVE CountInv'
  <2>1. /\ UNCHANGED <<hist, lineHist, details>> /\ sid[r] \in Sids /\ pc'[r] # "forming"
        /\ pc[r] = "forming"
    BY <1>1, <1>9 DEF Finish, FormInv, Inv, TypeOK
  <2>2. \A s \in SidsIn(Ready)' : s \in SidsIn(Ready) \/ (s = sid[r] /\ rowcount[r] > 0)
    BY <1>1, <1>9, <2>1 DEF Finish, FoundRows, SidsIn, TypeOK
  <2> QED
    BY <1>2, <2>1, <2>2 DEF OneRunAtATime
<1>10. ASSUME NEW r \in Runs, SnapshotStar(r) PROVE CountInv'
  <2> DEFINE s == sid[r]
             n == RowsOfStar(star[r])
  <2>1. /\ s \in Sids /\ sess[s] \in {Absent, Forming} /\ pc[r] = "forming"
        /\ UNCHANGED <<pc, sid>>
        /\ star' = [star EXCEPT ![r] = star[r] + 1]
        /\ details' = [details EXCEPT ![s] = details[s] + n]
        /\ rowcount' = [rowcount EXCEPT ![r] = rowcount[r] + n]
    BY <1>10 DEF SnapshotStar, FormInv, Inv
  <2>2. /\ n \in Nat /\ HistoryRows(s) \in Nat /\ HistoryRows(s)' \in Nat
        /\ HistoryRows(s)' <= HistoryRows(s) + n
        /\ n > 0 => \E d \in Docs : StarOf[d] = star[r] /\ hist'[s][d] # 0
    BY <1>10, <2>1, CountedRows
  <2>3. \A t \in Sids : t # s => hist'[t] = hist[t] /\ lineHist'[t] = lineHist[t]
    BY <1>1, <1>10 DEF SnapshotStar, TypeOK
  <2> HIDE DEF n
  <2>4. ASSUME NEW t \in Sids PROVE details'[t] >= HistoryRows(t)'
    <3>1. CASE t = s
      <4>1. details[s] \in Nat /\ details'[s] = details[s] + n
        BY <1>1, <2>1 DEF TypeOK
      <4> QED
        BY <2>1, <2>2, <3>1, <4>1
    <3>2. CASE t # s
      <4>1. HistoryRows(t)' = HistoryRows(t) /\ details'[t] = details[t]
        BY <1>1, <2>1, <2>3, <3>2 DEF HistoryRows, TypeOK
      <4> QED
        BY <4>1
    <3> QED
      BY <3>1, <3>2
  <2>5. \A t \in SidsIn(Ready)' : t \in SidsIn(Ready) /\ t # s
    BY <1>1, <1>10, <2>1 DEF SnapshotStar, SidsIn, TypeOK, Absent, Forming, Ready
  <2>6. ASSUME rowcount'[r] > 0
        PROVE  \E d \in Docs : StarOf[d] < star'[r] /\ hist'[s][d] # 0
    <3>0. rowcount[r] \in Nat /\ star[r] \in Nat /\ star'[r] = star[r] + 1
      BY <1>1, <2>1, StarsAssumption DEF TypeOK
    <3>1. CASE n > 0
      BY <2>2, <3>0, <3>1
    <3>2. CASE n = 0
      <4>1. rowcount[r] > 0
        BY <1>1, <2>1, <2>6, <3>0, <3>2 DEF TypeOK
      <4>2. PICK d \in Docs : StarOf[d] < star[r] /\ hist[s][d] # 0
        BY <2>1, <4>1
      <4>3. StarOf[d] \in Nat
        BY StarsAssumption
      <4>4. hist'[s][d] = hist[s][d]
        BY <1>1, <1>10, <2>1, <3>0, <4>2, <4>3 DEF SnapshotStar, Repacked, TypeOK
      <4> QED
        BY <3>0, <4>2, <4>3, <4>4
    <3> QED
      BY <2>2, <3>1, <3>2
  <2> QED
    BY <2>1, <2>3, <2>4, <2>5, <2>6 DEF OneRunAtATime, SidsIn
<1> QED
  BY <1>4, <1>5, <1>6, <1>7, <1>8, <1>9, <1>10 DEF Next, RunStep

(* A ready session holds rows and has a positive row count, so that          *)
(* IsNotEmpty lets its run go on and it never blocks the later ones.         *)
THEOREM ReadyCanBePublishedTheorem == OneRunAtATime => (Spec => []ReadyCanBePublished)
<1> SUFFICES ASSUME OneRunAtATime PROVE Spec => []ReadyCanBePublished
  OBVIOUS
<1>1. Spec => []Inv
  BY InvHolds
<1>2. Init => CountInv
  BY InitCount
<1>3. Inv /\ CountInv /\ [Next]_vars => CountInv'
  BY NextCount
<1>4. CountInv => ReadyCanBePublished
  <2> SUFFICES ASSUME CountInv, NEW s \in SidsIn(Ready) PROVE HistoryRows(s) > 0 /\ details[s] >= HistoryRows(s)
    BY DEF ReadyCanBePublished
  <2>1. s \in Sids /\ {d \in Docs : hist[s][d] # 0} # {}
    BY DEF CountInv, SidsIn
  <2>2. HistoryRows(s) > 0
    <3> DEFINE H == {d \in Docs : hist[s][d] # 0}
               L == {d \in Docs : lineHist[s][d] # 0}
    <3>1. Cardinality(H) \in Nat /\ Cardinality(L) \in Nat /\ (Cardinality(H) = 0 <=> H = {})
      BY DocsCounted
    <3> QED
      BY <2>1, <3>1 DEF HistoryRows
  <2> QED
    BY <2>1, <2>2 DEF CountInv
<1> QED
  BY <1>1, <1>2, <1>3, <1>4, PTL DEF Spec

---------------------------------------------------------------------------
(* PART 2: THE PIPELINE.                                                     *)

---------------------------------------------------------------------------
(* The inductive invariant, in named parts.                                  *)

DwhTypeOK ==
  /\ shown \in [Docs -> 0..MaxVer]
  /\ applied \in [Runs -> SUBSET Stars]

(* What is shown comes from a packed session.                                *)
ShownInv ==
  \A d \in Docs : shown[d] # 0 => \E s \in Packed : hist[s][d] = shown[d]

(* A run that has applied its session to a star shows what the session holds *)
(* of it, or newer.                                                          *)
AppliedInv ==
  \A r \in Runs :
    /\ pc[r] = "forming" => applied[r] = {}
    /\ pc[r] = "handed" =>
         \A d \in Docs : StarOf[d] \in applied[r] => shown[d] >= hist[sid[r]][d]

(* All that a closed session holds is shown, in that or a newer version.     *)
ClosedInv ==
  \A s \in SidsIn(Closed), d \in Docs : shown[d] >= hist[s][d]

PipelineInv ==
  /\ Inv
  /\ DwhTypeOK
  /\ ShownInv
  /\ AppliedInv
  /\ ClosedInv
  /\ ShownFactsHaveDims

---------------------------------------------------------------------------
(* The sessions of the pipeline are those of OdsSession.                     *)

(* Every step is one of OdsSession, or a star that is applied, which it does *)
(* not see.                                                                  *)
LEMMA SessionStep == PipelineNext => [Next]_vars
<1> SUFFICES ASSUME PipelineNext PROVE [Next]_vars
  OBVIOUS
<1>1. CASE LoadMessage
  BY <1>1 DEF LoadMessage, Next
<1>2. CASE \E r \in Runs : BeginRun(r) \/ RunLost(r)
  BY <1>2 DEF BeginRun, RunLost, Next
<1>3. CASE \E r \in Runs : PackStep(r) \/ FinishRun(r)
  BY <1>3 DEF PackStep, FinishRun, Next, RunStep
<1>4. CASE \E r \in Runs : \E k \in Stars : ApplyStar(r, k)
  BY <1>4 DEF ApplyStar
<1> QED
  BY <1>1, <1>2, <1>3, <1>4 DEF PipelineNext, RunGoesOn

(* The pipeline implements the session life cycle: its runs are runs of      *)
(* OdsSession, so whatever is proved of those holds in the pipeline.         *)
THEOREM PipelineImplementsOdsSession == PipelineSpec => Spec
<1>1. PipelineInit => Init
  BY DEF PipelineInit
<1>2. [PipelineNext]_pvars => [Next]_vars
  BY SessionStep DEF pvars
<1> QED
  BY <1>1, <1>2, PTL DEF PipelineSpec, Spec

---------------------------------------------------------------------------
(* What the invariant of the sessions says of the session being published.   *)

(* It is ready and the newest that is packed; all others are closed.         *)
LEMMA HandedIsNewest ==
  ASSUME Inv, NEW r \in Runs, pc[r] = "handed"
  PROVE  /\ sid[r] \in Packed
         /\ \A s \in Packed : s # sid[r] => s < sid[r] /\ s \in SidsIn(Closed)
<1> USE DEF Inv
<1>1. sid[r] \in Sids /\ sess[sid[r]] = Ready
  BY DEF HandInv
<1>2. sid[r] + 1 = nextSid
  BY <1>1 DEF SidInv
<1>3. ASSUME NEW s \in Packed, s # sid[r] PROVE s < sid[r] /\ s \in SidsIn(Closed)
  <2>1. s \in Sids /\ s < nextSid
    BY BoundsAssumption DEF Packed, SidsIn, SidInv, Absent, Ready, Closed
  <2>2. s < sid[r] /\ sess[s] # Ready
    BY <1>1, <1>2, <1>3, <2>1, BoundsAssumption DEF SidInv, Sids, TypeOK, Ready
  <2> QED
    BY <2>2 DEF Packed, SidsIn
<1> QED
  BY <1>1, <1>3 DEF Packed, SidsIn

(* To apply it never sets a document back.                                   *)
LEMMA ApplyNeverStepsBack ==
  ASSUME Inv, DwhTypeOK, ShownInv, NEW r \in Runs, pc[r] = "handed", NEW d \in Docs
  PROVE  /\ ShownAfter(d, sid[r]) \in 0..MaxVer
         /\ ShownAfter(d, sid[r]) >= shown[d]
         /\ ShownAfter(d, sid[r]) >= hist[sid[r]][d]
<1> DEFINE n == sid[r]
<1>1. n \in Packed /\ \A s \in Packed : s # n => s < n
  BY HandedIsNewest
<1>2. \A s \in Packed : s \in Sids /\ hist[s][d] \in 0..MaxVer
  BY DEF Inv, TypeOK, Packed, SidsIn
<1>3. shown[d] \in 0..MaxVer
  BY DEF DwhTypeOK
<1>4. CASE hist[n][d] = 0
  BY <1>1, <1>2, <1>3, <1>4, BoundsAssumption DEF ShownAfter
<1>5. CASE hist[n][d] # 0
  <2>1. hist[n][d] >= shown[d]
    <3>1. CASE shown[d] = 0
      BY <1>1, <1>2, <3>1, BoundsAssumption
    <3>2. CASE shown[d] # 0
      <4>1. PICK s \in Packed : hist[s][d] = shown[d]
        BY <3>2 DEF ShownInv
      <4>2. CASE s = n
        BY <1>2, <1>3, <4>1, <4>2, BoundsAssumption
      <4>3. CASE s # n
        <5>1. s < n /\ hist[s][d] > 0 /\ hist[n][d] > 0
          BY <1>1, <1>2, <1>3, <1>5, <3>2, <4>1, <4>3, BoundsAssumption
        <5>2. hist[s][d] < hist[n][d]
          BY <1>1, <5>1 DEF Inv, VersionsGrowWithSessions
        <5> QED
          BY <1>1, <1>2, <1>3, <4>1, <5>2, BoundsAssumption
      <4> QED
        BY <4>2, <4>3
    <3> QED
      BY <3>1, <3>2
  <2> QED
    BY <1>1, <1>2, <1>3, <1>5, <2>1, BoundsAssumption DEF ShownAfter
<1> QED
  BY <1>4, <1>5

---------------------------------------------------------------------------
(* The steps of the sessions, which leave what is shown alone.               *)

(* A packed session stays packed and keeps its history.                      *)
LEMMA PackedStays ==
  ASSUME OneRunAtATime, Inv, Inv', Next
  PROVE  \A s \in Packed : s \in Packed' /\ hist'[s] = hist[s]
<1>1. PackedKept
  BY NextKeepsPacked
<1>2. ASSUME NEW s \in Packed PROVE s \in Packed'
  <2>1. s \in Sids /\ sess[s] \in {Ready, Closed} /\ sess'[s] >= sess[s]
    BY <1>1 DEF PackedKept, Packed, SidsIn
  <2>2. sess'[s] \in {Absent, Forming, Ready, Closed}
    BY <2>1 DEF Inv, TypeOK
  <2>3. sess'[s] \in {Ready, Closed}
    BY <2>1, <2>2 DEF Absent, Forming, Ready, Closed
  <2> QED
    BY <2>1, <2>3 DEF Packed, SidsIn
<1> QED
  BY <1>1, <1>2 DEF PackedKept

LEMMA SessionStepShown ==
  ASSUME OneRunAtATime, PipelineInv, Next, UNCHANGED shown
  PROVE  Inv' /\ ShownInv'
<1>1. Inv /\ Inv'
  BY NextInv DEF PipelineInv
<1>2. \A s \in Packed : s \in Packed' /\ hist'[s] = hist[s]
  BY <1>1, PackedStays
<1>3. ShownInv'
  BY <1>2 DEF PipelineInv, ShownInv
<1> QED
  BY <1>1, <1>3

(* A step after which the same sessions are packed, and closed.              *)
LEMMA SamePacked ==
  ASSUME PipelineInv, UNCHANGED shown, Packed' = Packed, SidsIn(Closed)' = SidsIn(Closed),
         \A s \in Packed : hist'[s] = hist[s]
  PROVE  ClosedInv' /\ ShownFactsHaveDims'
<1>1. SidsIn(Closed) \subseteq Packed
  BY DEF Packed
<1> QED
  BY <1>1 DEF PipelineInv, ClosedInv, ShownFactsHaveDims

LEMMA LoadMessageInv ==
  ASSUME OneRunAtATime, PipelineInv, LoadMessage
  PROVE  PipelineInv'
<1>1. UNCHANGED <<hist, sess, pc, sid, shown, applied>> /\ Next
  BY DEF LoadMessage, Load, sessVars, runVars, dwhVars, Next
<1>2. Packed' = Packed /\ SidsIn(Closed)' = SidsIn(Closed)
  BY <1>1 DEF Packed, SidsIn
<1>3. Inv' /\ ShownInv'
  BY <1>1, SessionStepShown
<1>4. ClosedInv' /\ ShownFactsHaveDims'
  BY <1>1, <1>2, SamePacked
<1>5. DwhTypeOK' /\ AppliedInv'
  BY <1>1 DEF PipelineInv, DwhTypeOK, AppliedInv
<1> QED
  BY <1>3, <1>4, <1>5 DEF PipelineInv

LEMMA BeginRunInv ==
  ASSUME OneRunAtATime, PipelineInv, NEW r \in Runs, BeginRun(r)
  PROVE  PipelineInv'
<1>1. UNCHANGED <<hist, sess, shown>> /\ Next /\ applied' = [applied EXCEPT ![r] = {}]
  BY DEF BeginRun, Begin, AssignReady, AssignBegin, sessVars, Next
<1>2. Packed' = Packed /\ SidsIn(Closed)' = SidsIn(Closed)
  BY <1>1 DEF Packed, SidsIn
<1>3. Inv' /\ ShownInv'
  BY <1>1, SessionStepShown
<1>4. ClosedInv' /\ ShownFactsHaveDims'
  BY <1>1, <1>2, SamePacked
<1>5. DwhTypeOK' /\ AppliedInv'
  <2>1. \A q \in Runs : applied'[q] = {}
    BY <1>1 DEF OneRunAtATime, PipelineInv, DwhTypeOK
  <2> QED
    BY <1>1, <2>1 DEF PipelineInv, DwhTypeOK, AppliedInv
<1> QED
  BY <1>3, <1>4, <1>5 DEF PipelineInv

(* A star that is packed: the session is still forming.                      *)
LEMMA SnapshotShown ==
  ASSUME OneRunAtATime, PipelineInv, NEW r \in Runs, SnapshotStar(r), UNCHANGED dwhVars
  PROVE  PipelineInv'
<1>1. /\ pc[r] = "forming" /\ UNCHANGED <<pc, sid, shown, applied>> /\ Next
      /\ \A s \in Sids : s # sid[r] => hist'[s] = hist[s] /\ sess'[s] = sess[s]
  BY DEF SnapshotStar, dwhVars, Next, RunStep, PipelineInv, Inv, TypeOK
<1>2. sid[r] \in Sids /\ sess[sid[r]] \in {Absent, Forming} /\ sess'[sid[r]] = Forming
  BY <1>1 DEF SnapshotStar, PipelineInv, Inv, FormInv, TypeOK, Absent, Forming
<1>3. /\ Packed' = Packed /\ SidsIn(Closed)' = SidsIn(Closed)
      /\ \A s \in Packed : s \in Sids /\ s # sid[r]
  BY <1>1, <1>2 DEF Packed, SidsIn, Absent, Forming, Ready, Closed
<1>4. Inv' /\ ShownInv'
  BY <1>1, SessionStepShown
<1>5. ClosedInv' /\ ShownFactsHaveDims'
  BY <1>1, <1>3, SamePacked
<1>6. DwhTypeOK' /\ AppliedInv'
  BY <1>1 DEF PipelineInv, DwhTypeOK, AppliedInv, OneRunAtATime
<1> QED
  BY <1>4, <1>5, <1>6 DEF PipelineInv

(* A session that becomes ready: of each document it holds a newer version   *)
(* than is shown, so that none of its facts is shown yet.                    *)
LEMMA FinishShown ==
  ASSUME OneRunAtATime, PipelineInv, NEW r \in Runs, Finish(r), UNCHANGED dwhVars
  PROVE  PipelineInv'
<1> DEFINE n == sid[r]
<1> USE DEF PipelineInv
<1>1. /\ pc[r] = "forming" /\ star[r] = NStars + 1 /\ UNCHANGED <<hist, sid, shown, applied>>
      /\ Next
      /\ UNCHANGED sess \/ sess' = [sess EXCEPT ![n] = Ready]
  BY DEF Finish, dwhVars, Next, RunStep
<1>2. n \in Sids /\ sess[n] \in {Absent, Forming}
  BY <1>1 DEF Inv, FormInv
<1>3. Packed' \subseteq Packed \cup {n} /\ SidsIn(Closed)' = SidsIn(Closed)
  BY <1>1, <1>2 DEF Packed, SidsIn, Inv, TypeOK, Absent, Forming, Ready, Closed
<1>4. Inv' /\ ShownInv'
  BY <1>1, SessionStepShown
<1>5. ClosedInv'
  BY <1>1, <1>3 DEF ClosedInv
<1>6. DwhTypeOK' /\ AppliedInv'
  <2>1. \A q \in Runs : applied'[q] = {}
    BY <1>1 DEF AppliedInv, OneRunAtATime
  <2> QED
    BY <1>1, <2>1 DEF DwhTypeOK, AppliedInv
<1>7. ASSUME NEW d \in Docs, hist[n][d] # 0 PROVE shown[d] < hist[n][d]
  <2>1. StarOf[d] < star[r]
    BY <1>1, StarsAssumption
  <2>2. \A s \in Packed : hist[s][d] < hist[n][d]
    BY <1>1, <1>7, <2>1 DEF Inv, FormInv, TakenInv
  <2>3. CASE shown[d] = 0
    BY <1>2, <1>7, <2>3, BoundsAssumption DEF Inv, TypeOK
  <2>4. CASE shown[d] # 0
    BY <2>2, <2>4 DEF ShownInv
  <2> QED
    BY <2>3, <2>4
<1>8. ShownFactsHaveDims'
  <2> SUFFICES ASSUME NEW s \in Packed', NEW f \in Docs, NEW d \in Docs,
                      StarOf[f] \in Facts, StarOf[d] \in Dims,
                      hist[s][f] # 0, shown[f] >= hist[s][f]
               PROVE  shown[d] >= hist[s][d]
    BY <1>1 DEF ShownFactsHaveDims
  <2>1. shown[f] \in 0..MaxVer /\ (s = n => hist[s][f] \in 0..MaxVer)
    BY <1>2 DEF DwhTypeOK, Inv, TypeOK
  <2>2. s # n
    BY <1>7, <2>1, BoundsAssumption
  <2> QED
    BY <1>3, <2>2 DEF ShownFactsHaveDims
<1> QED
  BY <1>4, <1>5, <1>6, <1>8

(* A session that is closed: every star has been applied.                    *)
LEMMA FinishRunInv ==
  ASSUME OneRunAtATime, PipelineInv, NEW r \in Runs, FinishRun(r)
  PROVE  PipelineInv'
<1> DEFINE n == sid[r]
<1> USE DEF PipelineInv
<1>1. /\ pc[r] = "handed" /\ pc' = [pc EXCEPT ![r] = "idle"]
      /\ UNCHANGED <<hist, sid, shown, applied>> /\ Next
      /\ sess' = [sess EXCEPT ![n] = Closed] /\ applied[r] = Stars
  BY DEF FinishRun, AllApplied, Close, dwhVars, Next, RunStep
<1>2. n \in Sids /\ sess[n] = Ready
  BY <1>1 DEF Inv, HandInv
<1>3. Packed' = Packed /\ SidsIn(Closed)' = SidsIn(Closed) \cup {n}
  BY <1>1, <1>2 DEF Packed, SidsIn, Inv, TypeOK, Ready, Closed
<1>4. Inv' /\ ShownInv'
  BY <1>1, SessionStepShown
<1>5. \A d \in Docs : shown[d] >= hist[n][d]
  BY <1>1, StarsAssumption DEF AppliedInv, Stars
<1>6. ClosedInv' /\ ShownFactsHaveDims'
  BY <1>1, <1>3, <1>5 DEF ClosedInv, ShownFactsHaveDims
<1>7. DwhTypeOK' /\ AppliedInv'
  <2>1. \A q \in Runs : pc'[q] = "idle"
    BY <1>1 DEF OneRunAtATime, Inv, TypeOK
  <2> QED
    BY <1>1, <2>1 DEF DwhTypeOK, AppliedInv
<1> QED
  BY <1>4, <1>6, <1>7

LEMMA RunLostInv ==
  ASSUME OneRunAtATime, PipelineInv, NEW r \in Runs, RunLost(r)
  PROVE  PipelineInv'
<1> USE DEF PipelineInv
<1>1. UNCHANGED <<hist, sess, shown, applied>> /\ Next /\ pc' = [pc EXCEPT ![r] = "idle"]
  BY DEF RunLost, Crash, sessVars, dwhVars, Next
<1>2. Packed' = Packed /\ SidsIn(Closed)' = SidsIn(Closed)
  BY <1>1 DEF Packed, SidsIn
<1>3. Inv' /\ ShownInv'
  BY <1>1, SessionStepShown
<1>4. ClosedInv' /\ ShownFactsHaveDims'
  BY <1>1, <1>2, SamePacked
<1>5. DwhTypeOK' /\ AppliedInv'
  <2>1. \A q \in Runs : pc'[q] = "idle"
    BY <1>1 DEF OneRunAtATime, Inv, TypeOK
  <2> QED
    BY <1>1, <2>1 DEF DwhTypeOK, AppliedInv
<1> QED
  BY <1>3, <1>4, <1>5

---------------------------------------------------------------------------
(* A star that is applied: the sessions stay, what is shown goes forward.    *)

LEMMA ApplyShownFacts ==
  ASSUME PipelineInv, NEW r \in Runs, NEW k \in Stars, ApplyStar(r, k),
         Packed' = Packed, \A d \in Docs : shown'[d] \in 0..MaxVer /\ shown'[d] >= shown[d],
         ClosedInv'
  PROVE  ShownFactsHaveDims'
<1> USE DEF PipelineInv
<1> DEFINE n == sid[r]
<1>1. pc[r] = "handed" /\ DimsFirst(r, k) /\ UNCHANGED <<hist, sess>>
  BY DEF ApplyStar, vars, sessVars
<1>2. n \in Packed /\ \A s \in Packed : s # n => s \in SidsIn(Closed)
  BY <1>1, HandedIsNewest
<1>3. SUFFICES ASSUME NEW s \in Packed, NEW f \in Docs, NEW d \in Docs,
                      StarOf[f] \in Facts, StarOf[d] \in Dims,
                      hist[s][f] # 0, shown'[f] >= hist[s][f]
               PROVE  shown'[d] >= hist[s][d]
  BY <1>1 DEF ShownFactsHaveDims
<1>4. CASE s # n
  BY <1>1, <1>2, <1>4 DEF ClosedInv, SidsIn
<1>5. CASE s = n
  <2>1. /\ shown[d] \in 0..MaxVer /\ shown'[d] \in 0..MaxVer /\ shown'[d] >= shown[d]
        /\ hist[n][d] \in 0..MaxVer
    BY <1>2 DEF DwhTypeOK, Inv, TypeOK, Packed, SidsIn
  <2>2. CASE StarOf[f] # k
    <3>1. shown'[f] = shown[f]
      BY <2>2 DEF ApplyStar, Stars
    <3>2. shown[d] >= hist[n][d]
      BY <1>2, <1>3, <1>5, <3>1 DEF ShownFactsHaveDims
    <3> QED
      BY <1>5, <2>1, <3>2, BoundsAssumption
  <2>3. CASE StarOf[f] = k
    <3>1. StarOf[d] \in applied[r]
      BY <1>1, <1>3, <2>3 DEF DimsFirst
    <3>2. shown[d] >= hist[n][d]
      BY <1>1, <3>1 DEF AppliedInv
    <3> QED
      BY <1>5, <2>1, <3>2, BoundsAssumption
  <2> QED
    BY <2>2, <2>3
<1> QED
  BY <1>4, <1>5

LEMMA StutterPipelineInv ==
  ASSUME PipelineInv, UNCHANGED pvars
  PROVE  PipelineInv'
<1>1. UNCHANGED <<hist, sess, pc, sid, shown, applied>> /\ UNCHANGED vars
  BY DEF pvars, dwhVars, vars, sessVars, runVars
<1>2. Inv'
  BY <1>1, StutterInv DEF PipelineInv
<1>3. Packed' = Packed /\ SidsIn(Closed)' = SidsIn(Closed)
  BY <1>1 DEF Packed, SidsIn
<1>4. ClosedInv' /\ ShownFactsHaveDims'
  BY <1>1, <1>3, SamePacked
<1>5. DwhTypeOK' /\ AppliedInv' /\ ShownInv'
  BY <1>1, <1>3 DEF PipelineInv, DwhTypeOK, AppliedInv, ShownInv
<1> QED
  BY <1>2, <1>4, <1>5 DEF PipelineInv

LEMMA ApplyStarInv ==
  ASSUME OneRunAtATime, PipelineInv, NEW r \in Runs, NEW k \in Stars, ApplyStar(r, k)
  PROVE  PipelineInv'
<1> USE DEF PipelineInv
<1> DEFINE n == sid[r]
<1>1. /\ pc[r] = "handed" /\ UNCHANGED vars /\ UNCHANGED <<hist, sess, pc, sid>>
      /\ shown' = [d \in Docs |-> IF StarOf[d] = k THEN ShownAfter(d, n) ELSE shown[d]]
      /\ applied' = [applied EXCEPT ![r] = @ \cup {k}]
  BY DEF ApplyStar, vars, sessVars, runVars
<1>2. Packed' = Packed /\ SidsIn(Closed)' = SidsIn(Closed) /\ n \in Packed
  BY <1>1, HandedIsNewest DEF Packed, SidsIn
<1>3. ASSUME NEW d \in Docs
      PROVE  /\ shown'[d] \in 0..MaxVer /\ shown'[d] >= shown[d]
             /\ StarOf[d] = k => shown'[d] >= hist[n][d]
  <2>1. CASE StarOf[d] = k
    BY <1>1, <2>1, ApplyNeverStepsBack
  <2>2. CASE StarOf[d] # k
    BY <1>1, <2>2, BoundsAssumption DEF DwhTypeOK
  <2> QED
    BY <2>1, <2>2
<1>4. Inv'
  BY <1>1, StutterInv
<1>5. DwhTypeOK'
  BY <1>1, <1>3 DEF DwhTypeOK
<1>6. ShownInv'
  BY <1>1, <1>2 DEF ShownInv, ShownAfter
<1>7. ASSUME NEW d \in Docs, NEW s \in Packed, shown[d] >= hist[s][d]
      PROVE  shown'[d] >= hist[s][d]
  <2>1. hist[s][d] \in 0..MaxVer /\ shown[d] \in 0..MaxVer
    BY DEF Inv, TypeOK, Packed, SidsIn, DwhTypeOK
  <2> QED
    BY <1>3, <1>7, <2>1, BoundsAssumption
<1>8. AppliedInv'
  <2>1. \A q \in Runs : q = r
    BY DEF OneRunAtATime
  <2>2. applied'[r] = applied[r] \cup {k}
    BY <1>1 DEF DwhTypeOK
  <2>3. \A d \in Docs : StarOf[d] \in applied'[r] => shown'[d] >= hist[n][d]
    BY <1>1, <1>2, <1>3, <1>7, <2>2 DEF AppliedInv
  <2> QED
    BY <1>1, <2>1, <2>3 DEF AppliedInv
<1>9. ClosedInv'
  BY <1>1, <1>2, <1>7 DEF ClosedInv, Packed
<1>10. ShownFactsHaveDims'
  BY <1>2, <1>3, <1>9, ApplyShownFacts
<1> QED
  BY <1>4, <1>5, <1>6, <1>8, <1>9, <1>10

---------------------------------------------------------------------------
(* The invariant of the pipeline.                                            *)

LEMMA PipelineInitInv == PipelineInit => PipelineInv
<1> SUFFICES ASSUME PipelineInit PROVE PipelineInv
  OBVIOUS
<1>1. Inv
  BY InitInv DEF PipelineInit
<1>2. DwhTypeOK /\ ShownInv
  BY BoundsAssumption DEF PipelineInit, DwhTypeOK, ShownInv
<1>3. AppliedInv /\ Packed = {}
  BY DEF PipelineInit, Init, AppliedInv, Packed, SidsIn, Absent, Ready, Closed
<1>4. ClosedInv /\ ShownFactsHaveDims
  BY <1>3 DEF ClosedInv, ShownFactsHaveDims, Packed
<1> QED
  BY <1>1, <1>2, <1>3, <1>4 DEF PipelineInv

LEMMA PipelineNextInv ==
  ASSUME OneRunAtATime, PipelineInv, [PipelineNext]_pvars
  PROVE  PipelineInv'
<1>1. CASE LoadMessage
  BY <1>1, LoadMessageInv
<1>2. ASSUME NEW r \in Runs, BeginRun(r) \/ RunLost(r) PROVE PipelineInv'
  BY <1>2, BeginRunInv, RunLostInv
<1>3. ASSUME NEW r \in Runs, PackStep(r) PROVE PipelineInv'
  BY <1>3, SnapshotShown, FinishShown DEF PackStep
<1>4. ASSUME NEW r \in Runs, FinishRun(r) PROVE PipelineInv'
  BY <1>4, FinishRunInv
<1>5. ASSUME NEW r \in Runs, NEW k \in Stars, ApplyStar(r, k) PROVE PipelineInv'
  BY <1>5, ApplyStarInv
<1>6. CASE UNCHANGED pvars
  BY <1>6, StutterPipelineInv
<1> QED
  BY <1>1, <1>2, <1>3, <1>4, <1>5, <1>6 DEF PipelineNext, RunGoesOn

LEMMA PipelineInvHolds == OneRunAtATime => (PipelineSpec => []PipelineInv)
<1> SUFFICES ASSUME OneRunAtATime PROVE PipelineSpec => []PipelineInv
  OBVIOUS
<1>1. PipelineInit => PipelineInv
  BY PipelineInitInv
<1>2. PipelineInv /\ [PipelineNext]_pvars => PipelineInv'
  BY PipelineNextInv
<1> QED
  BY <1>1, <1>2, PTL DEF PipelineSpec

---------------------------------------------------------------------------
(* What follows from it.                                                     *)

(* A report that shows a fact of a session shows the session's dimensions.   *)
THEOREM ShownFactsHaveDimsTheorem ==
  OneRunAtATime => (PipelineSpec => []ShownFactsHaveDims)
<1>1. PipelineInv => ShownFactsHaveDims
  BY DEF PipelineInv
<1> QED
  BY <1>1, PipelineInvHolds, PTL

(* All that a closed session holds is shown, in that or a newer version: no  *)
(* star of it was left out, whatever runs were lost on the way.              *)
THEOREM ClosedIsShownTheorem == OneRunAtATime => (PipelineSpec => []ClosedInv)
<1>1. PipelineInv => ClosedInv
  BY DEF PipelineInv
<1> QED
  BY <1>1, PipelineInvHolds, PTL

(* No step writes an older version than is shown.                            *)
LEMMA NextNeverStepsBack ==
  ASSUME PipelineInv, PipelineNext
  PROVE  \A d \in Docs : shown'[d] >= shown[d]
<1> USE DEF PipelineInv
<1>1. CASE UNCHANGED shown
  BY <1>1, BoundsAssumption DEF DwhTypeOK
<1>2. CASE \E r \in Runs : \E k \in Stars : ApplyStar(r, k)
  <2>1. PICK r \in Runs, k \in Stars : ApplyStar(r, k)
    BY <1>2
  <2>2. pc[r] = "handed"
    BY <2>1 DEF ApplyStar
  <2>3. \A d \in Docs : shown'[d] = shown[d] \/ shown'[d] = ShownAfter(d, sid[r])
    BY <2>1 DEF ApplyStar
  <2> QED
    BY <2>2, <2>3, ApplyNeverStepsBack, BoundsAssumption DEF DwhTypeOK
<1> QED
  BY <1>1, <1>2 DEF PipelineNext, LoadMessage, BeginRun, RunLost, RunGoesOn, PackStep,
                    FinishRun, dwhVars

(* A report never steps back to an older version of a document.              *)
THEOREM ShownNeverStepsBackTheorem == OneRunAtATime => (PipelineSpec => ShownNeverStepsBack)
<1> SUFFICES ASSUME OneRunAtATime PROVE PipelineSpec => ShownNeverStepsBack
  OBVIOUS
<1> DEFINE Forward == \A d \in Docs : shown'[d] >= shown[d]
<1>1. PipelineInv /\ [PipelineNext]_pvars => [Forward]_pvars
  BY NextNeverStepsBack
<1>2. PipelineSpec => []PipelineInv
  BY PipelineInvHolds
<1> QED
  BY <1>1, <1>2, PTL DEF PipelineSpec, ShownNeverStepsBack
============================================================================
