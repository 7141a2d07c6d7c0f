------------------------ MODULE MssqlSessionProofs ------------------------
(***************************************************************************)
(* Proofs about MssqlSession, for every set of documents and stars and any  *)
(* number of sessions, loads and failures: failed and killed calls lose     *)
(* nothing, and the copies they leave behind stay in order.                 *)
(***************************************************************************)
EXTENDS MssqlSession, TLAPS

---------------------------------------------------------------------------
(* The inductive invariant, in named parts.                                  *)

Copies == [ver : 0..MaxVer, lines : 0..MaxVer]

TypeInv ==
  /\ ver \in [Docs -> 0..MaxVer] /\ lines \in [Docs -> 0..MaxVer]
  /\ loaded \in [Docs -> 0..MaxVer]
  /\ hist \in [Sids -> [Docs -> Seq(Copies)]]
  /\ sess \in [Sids -> {Absent, Forming, Ready, Failed, Closed}]
  /\ pc \in {"idle", "forming", "returning", "handed"}
  /\ star \in Nat
  /\ listed \subseteq Docs /\ late \subseteq Docs /\ orphans \subseteq Sids

(* A live row is the last version loaded.                                    *)
RowInv == \A d \in Docs : ver[d] # 0 => ver[d] = loaded[d]

(* Session numbers are used in their order, and only the newest is open.     *)
SidInv ==
  \A s, t \in Sids : s < t =>
    /\ sess[s] = Absent => sess[t] = Absent
    /\ sess[s] \in {Forming, Ready} => sess[t] = Absent

(* The copies of a document in one session are in the order they were        *)
(* loaded; while the session is in state 1 the document is still live.       *)
OrderInv ==
  \A s \in Sids, d \in Docs :
    /\ \A i \in 1..Len(hist[s][d]) : hist[s][d][i].ver <= loaded[d]
    /\ \A i, j \in 1..Len(hist[s][d]) : i < j => hist[s][d][i].ver <= hist[s][d][j].ver
    /\ sess[s] = Absent => hist[s][d] = <<>>
    /\ sess[s] = Forming /\ hist[s][d] # <<>> => ver[d] # 0

(* What a packed session holds is older than the live row and than all later *)
(* copies, those of failed sessions included.                                *)
PackInv ==
  \A s \in Packed, d \in Docs : \A i \in 1..Len(hist[s][d]) :
    /\ ver[d] # 0 => hist[s][d][i].ver < ver[d]
    /\ \A t \in Sids : s < t =>
         \A j \in 1..Len(hist[t][d]) : hist[s][d][i].ver < hist[t][d][j].ver

(* What the call has listed is live, and its last copy is the live version   *)
(* unless a load came between; of the stars it has done it has listed every  *)
(* document that the session holds, also from calls that were killed.        *)
FormInv ==
  pc = "forming" =>
    /\ sid \in Sids /\ sess[sid] = Forming
    /\ \A d \in listed :
         /\ ver[d] # 0 /\ hist[sid][d] # <<>>
         /\ d \in late \/ hist[sid][d][Len(hist[sid][d])].ver = ver[d]
    /\ \A d \in Docs : hist[sid][d] # <<>> /\ StarOf[d] < star => d \in listed

(* A session that is returned with rows, or handed over, is ready.           *)
HandInv ==
  /\ pc = "returning" => sid \in Sids /\ sess[sid] \in {Forming, Ready}
  /\ pc = "returning" /\ rowcount > 0 => sess[sid] = Ready
  /\ pc = "handed" => sid \in Sids /\ sess[sid] = Ready

OrphanInv == \A s \in orphans : sess[s] = Failed

Inv ==
  /\ TypeInv /\ RowInv /\ SidInv /\ OrderInv /\ PackInv
  /\ FormInv /\ HandInv /\ OrphanInv
  /\ NothingLost

---------------------------------------------------------------------------
(* The invariant holds at first, and every step keeps it.                    *)

LEMMA Bounds ==
  /\ MaxVer \in Nat /\ \A s \in Sids : s \in Nat
  /\ \A v \in 0..MaxVer : v \in Nat
  /\ NStars \in Nat /\ \A d \in Docs : StarOf[d] \in Nat /\ StarOf[d] <= NStars
BY BoundsAssumption, StarsAssumption DEF Sids

LEMMA CopyFacts ==
  ASSUME TypeInv, NEW s \in Sids, NEW d \in Docs
  PROVE  /\ hist[s][d] \in Seq(Copies) /\ Len(hist[s][d]) \in Nat
         /\ \A i \in 1..Len(hist[s][d]) : hist[s][d][i].ver \in Nat
         /\ hist[s][d] # <<>> => Len(hist[s][d]) \in 1..Len(hist[s][d])
         /\ ver[d] \in Nat /\ loaded[d] \in Nat /\ ver[d] \in 0..MaxVer
<1>1. hist[s][d] \in Seq(Copies)
  BY DEF TypeInv
<1>2. Len(hist[s][d]) \in Nat /\ \A i \in 1..Len(hist[s][d]) : hist[s][d][i] \in Copies
  BY <1>1
<1>3. \A i \in 1..Len(hist[s][d]) : hist[s][d][i].ver \in Nat
  BY <1>2, Bounds DEF Copies
<1>4. hist[s][d] # <<>> => Len(hist[s][d]) \in 1..Len(hist[s][d])
  BY <1>1, <1>2
<1> QED
  BY <1>1, <1>2, <1>3, <1>4, Bounds DEF TypeInv

LEMMA InitInv == Init => Inv
<1> SUFFICES ASSUME Init PROVE Inv
  OBVIOUS
<1> USE DEF Init, Absent, Forming, Ready, Failed, Closed
<1>1. TypeInv
  <2>1. <<>> \in Seq(Copies)
    OBVIOUS
  <2> QED
    BY <2>1, Bounds DEF TypeInv
<1>2. Packed = {}
  BY DEF Packed, SidsIn
<1>3. RowInv /\ SidInv /\ OrderInv /\ OrphanInv
  BY DEF RowInv, SidInv, OrderInv, OrphanInv
<1>4. PackInv
  BY <1>2 DEF PackInv
<1>5. FormInv /\ HandInv /\ NothingLost
  BY DEF FormInv, HandInv, NothingLost
<1> QED
  BY <1>1, <1>3, <1>4, <1>5 DEF Inv

LEMMA LoadInv ==
  ASSUME Inv, NEW D \in SUBSET Docs, Load(D)
  PROVE  Inv'
<1> USE DEF Inv
<1>1. /\ UNCHANGED <<hist, sess, details, pc, sid, star, listed, rowcount, orphans>>
      /\ \A d \in D : loaded[d] < MaxVer
      /\ loaded' = [d \in Docs |-> IF d \in D THEN loaded[d] + 1 ELSE loaded[d]]
      /\ ver' = [d \in Docs |-> IF d \in D THEN loaded[d] + 1 ELSE ver[d]]
      /\ lines' = LinesLoaded(D)
      /\ late' = IF pc = "forming" THEN (late \ D) \cup (D \cap listed) ELSE late \ D
  BY DEF Load, sessVars, runVars
<1>2. Packed' = Packed /\ \A s \in Packed : s \in Sids
  BY <1>1 DEF Packed, SidsIn
<1>3. \A d \in D : loaded[d] + 1 \in 0..MaxVer /\ loaded[d] \in Nat
  BY <1>1, Bounds DEF TypeInv
<1>4. TypeInv'
  <2>1. loaded' \in [Docs -> 0..MaxVer] /\ ver' \in [Docs -> 0..MaxVer]
    BY <1>1, <1>3 DEF TypeInv
  <2>2. LinesLoaded(D) \in [Docs -> 0..MaxVer]
    <3>1. \A d \in Docs : lines[d] \in 0..MaxVer
      BY DEF TypeInv
    <3>2. 0 \in 0..MaxVer
      BY Bounds
    <3> QED
      BY <1>3, <3>1, <3>2 DEF LinesLoaded
  <2> QED
    BY <1>1, <2>1, <2>2 DEF TypeInv
<1>5. RowInv'
  BY <1>1 DEF RowInv, TypeInv
<1>6. \A d \in Docs : \/ d \in D /\ loaded'[d] = loaded[d] + 1 /\ ver'[d] = loaded[d] + 1
                      \/ d \notin D /\ loaded'[d] = loaded[d] /\ ver'[d] = ver[d]
  BY <1>1
<1>7. OrderInv'
  <2> SUFFICES ASSUME NEW s \in Sids, NEW d \in Docs
               PROVE  /\ \A i \in 1..Len(hist[s][d]) : hist[s][d][i].ver <= loaded'[d]
                      /\ sess[s] = Forming /\ hist[s][d] # <<>> => ver'[d] # 0
    BY <1>1 DEF OrderInv
  <2> QED
    BY <1>6, CopyFacts DEF OrderInv
<1>8. PackInv'
  <2> SUFFICES ASSUME NEW s \in Packed, NEW d \in Docs, NEW i \in 1..Len(hist[s][d]), ver'[d] # 0
               PROVE  hist[s][d][i].ver < ver'[d]
    BY <1>1, <1>2 DEF PackInv
  <2>1. hist[s][d][i].ver <= loaded[d] /\ hist[s][d][i].ver \in Nat /\ loaded[d] \in Nat
    BY <1>2, CopyFacts DEF OrderInv
  <2> QED
    BY <1>6, <2>1 DEF PackInv
<1>9. FormInv'
  <2> SUFFICES ASSUME pc = "forming", NEW d \in listed
               PROVE  /\ ver'[d] # 0
                      /\ d \in late' \/ hist[sid][d][Len(hist[sid][d])].ver = ver'[d]
    BY <1>1 DEF FormInv
  <2>1. d \in Docs /\ loaded[d] \in Nat
    BY Bounds DEF TypeInv
  <2> QED
    BY <1>1, <1>6, <2>1 DEF FormInv
<1>10. SidInv' /\ HandInv' /\ OrphanInv'
  BY <1>1 DEF SidInv, HandInv, OrphanInv
<1>11. NothingLost'
  <2> SUFFICES ASSUME NEW d \in Docs, loaded'[d] > 0, ver'[d] # loaded'[d]
               PROVE  \E s \in Packed \cup orphans :
                        /\ hist[s][d] # <<>>
                        /\ d \in late' \/ hist[s][d][Len(hist[s][d])].ver = loaded'[d]
    BY <1>1, <1>2 DEF NothingLost
  <2>1. d \notin D /\ loaded'[d] = loaded[d] /\ ver'[d] = ver[d]
    BY <1>6
  <2>2. d \in late => d \in late'
    BY <1>1, <2>1
  <2> QED
    BY <2>1, <2>2 DEF NothingLost
<1> QED
  BY <1>4, <1>5, <1>7, <1>8, <1>9, <1>10, <1>11

(* The steps that change no session: a ready one is handed out, the call     *)
(* returns, the call or the run is killed.                                   *)
LEMMA QuietInv ==
  ASSUME Inv, AssignReady \/ Return \/ Killed \/ UNCHANGED vars
  PROVE  Inv'
<1> USE DEF Inv
<1>1. /\ UNCHANGED <<ver, lines, loaded, hist, sess, listed, star, late, orphans>>
      /\ pc' \in {"idle", "returning", "handed"} \/ UNCHANGED <<pc, sid>>
  BY DEF AssignReady, Return, Killed, vars, odsVars, sessVars, runVars, auxVars
<1>2. Packed' = Packed
  BY <1>1 DEF Packed, SidsIn
<1>3. TypeInv'
  BY <1>1 DEF TypeInv
<1>4. RowInv' /\ SidInv' /\ OrderInv' /\ OrphanInv'
  BY <1>1 DEF RowInv, SidInv, OrderInv, OrphanInv
<1>5. PackInv' /\ NothingLost'
  BY <1>1, <1>2 DEF PackInv, NothingLost
<1>6. FormInv'
  BY <1>1 DEF FormInv
<1>7. HandInv'
  BY <1>1 DEF AssignReady, Return, Killed, SidsIn, HandInv, vars, odsVars, sessVars, runVars, auxVars
<1> QED
  BY <1>3, <1>4, <1>5, <1>6, <1>7

LEMMA AssignBeginInv ==
  ASSUME Inv, AssignBegin
  PROVE  Inv'
<1> USE DEF Inv
<1>1. /\ UNCHANGED <<ver, lines, loaded, hist, late, orphans>>
      /\ pc' = "forming" /\ star' = 1 /\ listed' = {} /\ SidsIn(Ready) = {}
  BY DEF AssignBegin, odsVars, auxVars
<1>2. PICK s \in Sids : SaveNew(s) /\ sid' = s /\ sess' = [sess EXCEPT ![s] = Forming]
  BY DEF AssignBegin
<1>3. \A t \in Sids : t \in Nat /\ sess[t] \in {Absent, Forming, Ready, Failed, Closed}
  BY Bounds DEF TypeInv
<1>4. /\ sess[s] \in {Absent, Forming}
      /\ \A t \in Sids : sess'[t] = IF t = s THEN Forming ELSE sess[t]
      /\ \A t \in Sids : sess[t] \in {Forming, Ready} => t <= s
      /\ \A t \in Sids : s < t => sess[t] = Absent
      /\ \A t \in Sids : t < s => sess[t] \notin {Absent, Forming, Ready}
  <2>1. /\ sess[s] \in {Absent, Forming}
        /\ \A t \in Sids : sess'[t] = IF t = s THEN Forming ELSE sess[t]
    BY <1>2 DEF SaveNew, SidsIn, TypeInv
  <2>2. \A t \in Sids : sess[t] # Ready
    BY <1>1 DEF SidsIn
  <2>3. CASE SidsIn(Forming) # {}
    <3>1. sess[s] = Forming /\ \A t \in Sids : sess[t] = Forming => t <= s
      BY <1>2, <2>3 DEF SaveNew, SidsIn
    <3> QED
      BY <1>3, <2>1, <2>2, <3>1 DEF SidInv, Absent, Forming, Ready, Failed, Closed
  <2>4. CASE SidsIn(Forming) = {}
    <3>1. sess[s] = Absent /\ \A t \in Sids : sess[t] = Absent => s <= t
      BY <1>2, <2>4 DEF SaveNew, SidsIn
    <3>2. \A t \in Sids : sess[t] # Forming
      BY <2>4 DEF SidsIn
    <3> QED
      BY <1>3, <2>1, <2>2, <3>1, <3>2 DEF SidInv, Absent, Forming, Ready, Failed, Closed
  <2> QED
    BY <2>3, <2>4
<1>5. Packed' = Packed
  BY <1>4 DEF Packed, SidsIn, Absent, Forming, Ready, Failed, Closed
<1>6. TypeInv'
  BY <1>1, <1>2 DEF TypeInv
<1>7. SidInv'
  BY <1>3, <1>4 DEF SidInv, Absent, Forming, Ready, Failed, Closed
<1>8. RowInv' /\ HandInv'
  BY <1>1 DEF RowInv, HandInv
<1>9. OrderInv'
  <2>1. \A d \in Docs : hist[s][d] # <<>> => ver[d] # 0
    BY <1>4 DEF OrderInv
  <2> QED
    BY <1>1, <1>4, <2>1 DEF OrderInv, Absent, Forming
<1>10. PackInv' /\ NothingLost'
  BY <1>1, <1>5 DEF PackInv, NothingLost
<1>11. OrphanInv'
  BY <1>1, <1>4 DEF OrphanInv, TypeInv, Absent, Forming, Failed
<1>12. FormInv'
  <2>1. \A d \in Docs : ~(StarOf[d] < 1)
    BY StarsAssumption
  <2> QED
    BY <1>1, <1>2, <1>4, <2>1 DEF FormInv
<1> QED
  BY <1>6, <1>7, <1>8, <1>9, <1>10, <1>11, <1>12

(* What the transaction of a star does to the session: one copy more of each *)
(* live document of the star.                                                *)
LEMMA PackedCopies ==
  ASSUME Inv, PackStar, NEW D, D = {d \in DocsOf(star) : ver[d] # 0}
  PROVE  /\ D \subseteq Docs /\ sid \in Sids
         /\ \A t \in Sids : t # sid => hist'[t] = hist[t]
         /\ \A d \in Docs \ D : hist'[sid][d] = hist[sid][d]
         /\ \A d \in D :
              /\ hist'[sid][d] \in Seq(Copies) /\ hist'[sid][d] # <<>>
              /\ Len(hist'[sid][d]) = Len(hist[sid][d]) + 1
              /\ \A i \in 1..Len(hist[sid][d]) : hist'[sid][d][i] = hist[sid][d][i]
              /\ hist'[sid][d][Len(hist'[sid][d])].ver = ver[d]
<1> USE DEF Inv
<1>1. sid \in Sids
  BY DEF PackStar, FormInv
<1>2. D \subseteq Docs
  BY DEF DocsOf
<1> DEFINE copy(d) == [ver |-> ver[d], lines |-> lines[d]]
<1>3. hist' = [hist EXCEPT ![sid] = [d \in Docs |->
                 IF d \in D THEN Append(hist[sid][d], copy(d)) ELSE hist[sid][d]]]
  BY <1>1 DEF PackStar, TypeInv
<1>4. /\ \A t \in Sids : t # sid => hist'[t] = hist[t]
      /\ \A d \in Docs \ D : hist'[sid][d] = hist[sid][d]
      /\ \A d \in D : hist'[sid][d] = Append(hist[sid][d], copy(d))
  BY <1>1, <1>2, <1>3 DEF TypeInv
<1>5. ASSUME NEW d \in D
      PROVE  /\ hist'[sid][d] \in Seq(Copies) /\ hist'[sid][d] # <<>>
             /\ Len(hist'[sid][d]) = Len(hist[sid][d]) + 1
             /\ \A i \in 1..Len(hist[sid][d]) : hist'[sid][d][i] = hist[sid][d][i]
             /\ hist'[sid][d][Len(hist'[sid][d])].ver = ver[d]
  <2> DEFINE q == hist[sid][d]
             c == copy(d)
             a == Append(q, c)
  <2>1. q \in Seq(Copies) /\ Len(q) \in Nat
    BY <1>1, <1>2, CopyFacts
  <2>2. c \in Copies /\ c.ver = ver[d]
    BY <1>2 DEF TypeInv, Copies
  <2>3. hist'[sid][d] = a
    BY <1>4
  <2> HIDE DEF q, c
  <2>4. /\ a \in Seq(Copies) /\ a # <<>> /\ Len(a) = Len(q) + 1 /\ a[Len(q) + 1] = c
        /\ \A i \in 1..Len(q) : a[i] = q[i]
    BY <2>1, <2>2
  <2> QED
    BY <2>2, <2>3, <2>4 DEF q
<1> QED
  BY <1>1, <1>2, <1>4, <1>5

LEMMA PackStarInv ==
  ASSUME Inv, PackStar
  PROVE  Inv'
<1> USE DEF Inv
<1> DEFINE s == sid
           D == {d \in DocsOf(star) : ver[d] # 0}
<1>1. /\ UNCHANGED <<ver, lines, loaded, sess, pc, sid, orphans>>
      /\ pc = "forming" /\ listed' = listed \cup D /\ late' = late \ D /\ star' = star + 1
  BY DEF PackStar, odsVars
<1>2. /\ D \subseteq Docs /\ s \in Sids
      /\ \A t \in Sids : t # s => hist'[t] = hist[t]
      /\ \A d \in Docs \ D : hist'[s][d] = hist[s][d]
      /\ \A d \in D :
           /\ hist'[s][d] \in Seq(Copies) /\ hist'[s][d] # <<>>
           /\ Len(hist'[s][d]) = Len(hist[s][d]) + 1
           /\ \A i \in 1..Len(hist[s][d]) : hist'[s][d][i] = hist[s][d][i]
           /\ hist'[s][d][Len(hist'[s][d])].ver = ver[d]
  BY PackedCopies
<1>3. sess[s] = Forming
  BY <1>1 DEF FormInv
<1>4. Packed' = Packed /\ \A t \in Packed : t \in Sids /\ t # s
  BY <1>1, <1>3 DEF Packed, SidsIn, Forming, Ready, Closed
<1>5. \A d \in D : d \in Docs /\ StarOf[d] = star /\ ver[d] # 0 /\ ver[d] = loaded[d]
  BY <1>2 DEF DocsOf, RowInv
<1>6. TypeInv'
  <2>1. \A t \in Sids, d \in Docs : hist'[t][d] \in Seq(Copies)
    BY <1>2, CopyFacts
  <2>2. hist' \in [Sids -> [Docs -> Seq(Copies)]]
    <3>1. hist' = [hist EXCEPT ![s] = [d \in Docs |-> hist'[s][d]]]
      BY <1>2 DEF PackStar, TypeInv
    <3> QED
      BY <1>2, <2>1, <3>1 DEF TypeInv
  <2>3. D \subseteq Docs
    BY <1>2
  <2> HIDE DEF D
  <2>4. late' \subseteq Docs /\ listed' \subseteq Docs /\ star' \in Nat
    BY <1>1, <2>3 DEF TypeInv
  <2> QED
    BY <1>1, <2>2, <2>4 DEF TypeInv
<1> HIDE DEF D
<1>7. RowInv' /\ SidInv' /\ HandInv' /\ OrphanInv'
  BY <1>1 DEF RowInv, SidInv, HandInv, OrphanInv
(* A copy is one that was there, or the live version of the document, the    *)
(* last one of the session.                                                  *)
<1>8. \A t \in Sids, d \in Docs : \A i \in 1..Len(hist'[t][d]) :
        \/ i \in 1..Len(hist[t][d]) /\ hist'[t][d][i] = hist[t][d][i]
        \/ t = s /\ d \in D /\ i = Len(hist[s][d]) + 1 /\ hist'[t][d][i].ver = ver[d]
  <2> TAKE t \in Sids, d \in Docs
  <2> TAKE i \in 1..Len(hist'[t][d])
  <2>1. CASE t = s /\ d \in D
    <3>1. Len(hist[s][d]) \in Nat /\ Len(hist'[s][d]) = Len(hist[s][d]) + 1
      BY <1>2, <2>1, CopyFacts
    <3> QED
      BY <1>2, <2>1, <3>1
  <2>2. CASE ~(t = s /\ d \in D)
    BY <1>2, <2>2
  <2> QED
    BY <2>1, <2>2
<1>9. OrderInv'
  <2> SUFFICES ASSUME NEW t \in Sids, NEW d \in Docs
               PROVE  /\ \A i \in 1..Len(hist'[t][d]) : hist'[t][d][i].ver <= loaded[d]
                      /\ \A i, j \in 1..Len(hist'[t][d]) :
                           i < j => hist'[t][d][i].ver <= hist'[t][d][j].ver
                      /\ sess[t] = Absent => hist'[t][d] = <<>>
                      /\ sess[t] = Forming /\ hist'[t][d] # <<>> => ver[d] # 0
    BY <1>1 DEF OrderInv
  <2>1. /\ \A i \in 1..Len(hist[t][d]) : hist[t][d][i].ver <= loaded[d]
        /\ \A i, j \in 1..Len(hist[t][d]) : i < j => hist[t][d][i].ver <= hist[t][d][j].ver
        /\ sess[t] = Absent => hist[t][d] = <<>>
        /\ sess[t] = Forming /\ hist[t][d] # <<>> => ver[d] # 0
    BY DEF OrderInv
  <2>2. CASE t = s /\ d \in D
    <3>1. /\ ver[d] \in Nat /\ ver[d] # 0 /\ ver[d] = loaded[d]
          /\ Len(hist[s][d]) \in Nat /\ Len(hist'[s][d]) = Len(hist[s][d]) + 1
      BY <1>2, <1>5, <2>2, CopyFacts
    <3>2. \A i \in 1..Len(hist'[t][d]) :
            \/ i \in 1..Len(hist[t][d]) /\ hist'[t][d][i].ver = hist[t][d][i].ver
            \/ i = Len(hist[t][d]) + 1 /\ hist'[t][d][i].ver = ver[d]
      BY <1>8, <2>2
    <3>3. sess[t] # Absent
      BY <1>3, <2>2 DEF Absent, Forming
    <3>4. \A i \in 1..Len(hist'[t][d]) : hist'[t][d][i].ver <= loaded[d]
      BY <2>1, <3>1, <3>2
    <3>5. ASSUME NEW i \in 1..Len(hist'[t][d]), NEW j \in 1..Len(hist'[t][d]), i < j
          PROVE  hist'[t][d][i].ver <= hist'[t][d][j].ver
      <4>1. i \in 1..Len(hist[t][d]) /\ hist'[t][d][i].ver = hist[t][d][i].ver
        BY <2>2, <3>1, <3>2, <3>5
      <4>2. CASE j \in 1..Len(hist[t][d]) /\ hist'[t][d][j].ver = hist[t][d][j].ver
        BY <2>1, <3>5, <4>1, <4>2
      <4>3. CASE hist'[t][d][j].ver = ver[d]
        BY <2>1, <3>1, <4>1, <4>3
      <4> QED
        BY <3>2, <4>2, <4>3
    <3> QED
      BY <2>2, <3>1, <3>3, <3>4, <3>5
  <2>3. CASE ~(t = s /\ d \in D)
    <3>1. hist'[t][d] = hist[t][d]
      BY <1>2, <2>3
    <3> QED
      BY <2>1, <3>1
  <2> QED
    BY <2>2, <2>3
<1>10. PackInv'
  <2> SUFFICES ASSUME NEW t \in Packed, NEW d \in Docs, NEW i \in 1..Len(hist'[t][d])
               PROVE  /\ ver[d] # 0 => hist'[t][d][i].ver < ver[d]
                      /\ \A u \in Sids : t < u =>
                           \A j \in 1..Len(hist'[u][d]) : hist'[t][d][i].ver < hist'[u][d][j].ver
    BY <1>1, <1>4 DEF PackInv
  <2>1. hist'[t] = hist[t]
    BY <1>2, <1>4
  <2>2. /\ ver[d] # 0 => hist[t][d][i].ver < ver[d]
        /\ \A u \in Sids : t < u =>
             \A j \in 1..Len(hist[u][d]) : hist[t][d][i].ver < hist[u][d][j].ver
    BY <2>1 DEF PackInv
  <2> QED
    BY <1>5, <1>8, <2>1, <2>2
<1>11. FormInv'
  <2> SUFFICES /\ \A d \in listed' :
                    /\ ver[d] # 0 /\ hist'[s][d] # <<>>
                    /\ d \in late' \/ hist'[s][d][Len(hist'[s][d])].ver = ver[d]
               /\ \A d \in Docs : hist'[s][d] # <<>> /\ StarOf[d] < star' => d \in listed'
    BY <1>1, <1>2, <1>3 DEF FormInv
  <2>1. ASSUME NEW d \in listed'
        PROVE  /\ ver[d] # 0 /\ hist'[s][d] # <<>>
               /\ d \in late' \/ hist'[s][d][Len(hist'[s][d])].ver = ver[d]
    <3>1. CASE d \in D
      BY <1>2, <1>5, <3>1
    <3>2. CASE d \in listed /\ d \notin D
      <4>1. hist'[s][d] = hist[s][d] /\ (d \in late => d \in late')
        BY <1>1, <1>2, <3>2 DEF TypeInv
      <4> QED
        BY <1>1, <3>2, <4>1 DEF FormInv
    <3> QED
      BY <1>1, <3>1, <3>2
  <2>2. ASSUME NEW d \in Docs, hist'[s][d] # <<>>, StarOf[d] < star'
        PROVE  d \in listed'
    <3>1. CASE d \in D
      BY <1>1, <3>1
    <3>2. CASE d \notin D
      <4>1. hist[s][d] # <<>>
        BY <1>2, <2>2, <3>2
      <4>2. ver[d] # 0
        BY <1>2, <1>3, <4>1 DEF OrderInv
      <4>3. StarOf[d] # star
        BY <3>2, <4>2 DEF D, DocsOf
      <4>4. StarOf[d] < star
        <5>1. StarOf[d] \in Nat /\ star \in Nat /\ star' = star + 1
          BY <1>1, Bounds DEF TypeInv
        <5> QED
          BY <2>2, <4>3, <5>1
      <4> QED
        BY <1>1, <4>1, <4>4 DEF FormInv
    <3> QED
      BY <3>1, <3>2
  <2> QED
    BY <2>1, <2>2
<1>12. NothingLost'
  <2> SUFFICES ASSUME NEW d \in Docs, loaded[d] > 0, ver[d] # loaded[d]
               PROVE  \E t \in Packed \cup orphans :
                        /\ hist'[t][d] # <<>>
                        /\ d \in late' \/ hist'[t][d][Len(hist'[t][d])].ver = loaded[d]
    BY <1>1, <1>4 DEF NothingLost
  <2>1. PICK t \in Packed \cup orphans :
          /\ hist[t][d] # <<>>
          /\ d \in late \/ hist[t][d][Len(hist[t][d])].ver = loaded[d]
    BY DEF NothingLost
  <2>2. t \in Sids /\ t # s
    BY <1>3, <1>4 DEF OrphanInv, TypeInv, Forming, Failed
  <2>3. d \notin D
    BY <1>5, <2>2
  <2> QED
    BY <1>1, <1>2, <2>1, <2>2, <2>3
<1> QED
  BY <1>6, <1>7, <1>9, <1>10, <1>11, <1>12

LEMMA FinishInv ==
  ASSUME Inv, Finish
  PROVE  Inv'
<1> USE DEF Inv
<1> DEFINE s == sid
<1>1. /\ UNCHANGED <<hist, loaded, late, orphans, sid, star, listed, rowcount>>
      /\ pc = "forming" /\ pc' = "returning" /\ star = NStars + 1
  BY DEF Finish, auxVars
<1>2. /\ s \in Sids /\ sess[s] = Forming
      /\ \A d \in listed :
           /\ ver[d] # 0 /\ hist[s][d] # <<>>
           /\ d \in late \/ hist[s][d][Len(hist[s][d])].ver = ver[d]
      /\ \A d \in Docs : hist[s][d] # <<>> => d \in listed
  <2>1. \A d \in Docs : StarOf[d] < NStars + 1
    BY Bounds
  <2> QED
    BY <1>1, <2>1 DEF FormInv
<1>3. FormInv'
  BY <1>1 DEF FormInv
<1>4. CASE ~(rowcount > 0)
  <2>1. UNCHANGED <<ver, lines, sess>>
    BY <1>4 DEF Finish, odsVars
  <2>2. Packed' = Packed
    BY <2>1 DEF Packed, SidsIn
  <2>3. TypeInv' /\ RowInv' /\ SidInv' /\ OrderInv' /\ OrphanInv'
    BY <1>1, <2>1 DEF TypeInv, RowInv, SidInv, OrderInv, OrphanInv
  <2>4. PackInv' /\ NothingLost'
    BY <1>1, <2>1, <2>2 DEF PackInv, NothingLost
  <2>5. HandInv'
    BY <1>1, <1>2, <1>4, <2>1 DEF HandInv
  <2> QED
    BY <1>3, <2>3, <2>4, <2>5
<1>5. CASE rowcount > 0
  <2>1. /\ ver' = [d \in Docs |-> IF d \in listed THEN 0 ELSE ver[d]]
        /\ lines' = [d \in Docs |-> IF d \in listed THEN 0 ELSE lines[d]]
        /\ sess' = [sess EXCEPT ![s] = Ready]
    BY <1>5 DEF Finish, Deleted
  <2>2. \A t \in Sids : sess'[t] = IF t = s THEN Ready ELSE sess[t]
    BY <1>2, <2>1 DEF TypeInv
  <2>3. Packed' = Packed \cup {s} /\ s \notin Packed /\ \A t \in Packed : t \in Sids
    BY <1>2, <2>2 DEF Packed, SidsIn, Forming, Ready, Closed
  <2>4. \A d \in Docs : ver'[d] = (IF d \in listed THEN 0 ELSE ver[d])
    BY <2>1
  <2>5. TypeInv'
    <3>1. 0 \in 0..MaxVer
      BY Bounds
    <3> QED
      BY <1>1, <2>1, <3>1 DEF TypeInv
  <2>6. RowInv'
    BY <1>1, <2>4 DEF RowInv
  <2>7. SidInv'
    BY <1>2, <2>2 DEF SidInv, Absent, Forming, Ready
  <2>8. OrderInv'
    <3>1. \A t \in Sids : sess'[t] = Forming => sess[t] = Forming /\ t # s
      BY <2>2 DEF Forming, Ready
    <3>2. \A t \in Sids : sess[t] = Forming => t = s
      <4> SUFFICES ASSUME NEW t \in Sids, sess[t] = Forming, t # s PROVE FALSE
        OBVIOUS
      <4>1. t < s \/ s < t
        BY <1>2, Bounds
      <4> QED
        BY <1>2, <4>1 DEF SidInv, Absent, Forming
    <3>3. \A t \in Sids : sess'[t] = Absent => sess[t] = Absent
      BY <2>2 DEF Absent, Ready
    <3> QED
      BY <1>1, <3>1, <3>2, <3>3 DEF OrderInv
  <2>9. PackInv'
    <3> SUFFICES ASSUME NEW t \in Packed \cup {s}, NEW d \in Docs, NEW i \in 1..Len(hist[t][d])
                 PROVE  /\ ver'[d] # 0 => hist[t][d][i].ver < ver'[d]
                        /\ \A u \in Sids : t < u =>
                             \A j \in 1..Len(hist[u][d]) : hist[t][d][i].ver < hist[u][d][j].ver
      BY <1>1, <2>3 DEF PackInv
    <3>1. CASE t \in Packed
      BY <2>4, <3>1 DEF PackInv
    <3>2. CASE t = s
      <4>1. hist[s][d] # <<>>
        BY <3>2
      <4>2. d \in listed /\ ver'[d] = 0
        BY <1>2, <2>4, <4>1
      <4>3. ASSUME NEW u \in Sids, s < u PROVE Len(hist[u][d]) = 0
        <5>1. sess[u] = Absent
          BY <1>2, <4>3 DEF SidInv
        <5> QED
          BY <5>1 DEF OrderInv
      <4> QED
        BY <3>2, <4>2, <4>3
    <3> QED
      BY <3>1, <3>2
  <2>10. HandInv'
    BY <1>1, <1>2, <2>2 DEF HandInv
  <2>11. OrphanInv'
    BY <1>1, <1>2, <2>2 DEF OrphanInv, TypeInv, Forming, Failed
  <2>12. NothingLost'
    <3> SUFFICES ASSUME NEW d \in Docs, loaded[d] > 0, ver'[d] # loaded[d]
                 PROVE  \E t \in Packed \cup {s} \cup orphans :
                          /\ hist[t][d] # <<>>
                          /\ d \in late \/ hist[t][d][Len(hist[t][d])].ver = loaded[d]
      BY <1>1, <2>3 DEF NothingLost
    <3>1. CASE d \in listed
      BY <1>2, <3>1 DEF RowInv
    <3>2. CASE d \notin listed
      BY <2>4, <3>2 DEF NothingLost
    <3> QED
      BY <3>1, <3>2
  <2> QED
    BY <1>3, <2>5, <2>6, <2>7, <2>8, <2>9, <2>10, <2>11, <2>12
<1> QED
  BY <1>4, <1>5

LEMMA CloseInv ==
  ASSUME Inv, Close
  PROVE  Inv'
<1> USE DEF Inv
<1>1. /\ UNCHANGED <<ver, lines, hist, loaded, late, orphans, sid, star, listed>>
      /\ pc = "handed" /\ pc' = "idle" /\ sess' = [sess EXCEPT ![sid] = Closed]
  BY DEF Close, odsVars, auxVars
<1>2. /\ sid \in Sids /\ sess[sid] = Ready
      /\ \A t \in Sids : sess'[t] = IF t = sid THEN Closed ELSE sess[t]
  BY <1>1 DEF HandInv, TypeInv
<1>3. Packed' = Packed
  BY <1>2 DEF Packed, SidsIn, Ready, Closed
<1>4. TypeInv' /\ RowInv' /\ FormInv' /\ HandInv'
  BY <1>1 DEF TypeInv, RowInv, FormInv, HandInv
<1>5. SidInv' /\ OrderInv' /\ OrphanInv'
  <2>1. SidInv'
    BY <1>2 DEF SidInv, Absent, Forming, Ready, Closed
  <2>2. OrderInv'
    BY <1>1, <1>2 DEF OrderInv, Absent, Forming, Closed
  <2>3. OrphanInv'
    BY <1>1, <1>2 DEF OrphanInv, TypeInv, Ready, Failed
  <2> QED
    BY <2>1, <2>2, <2>3
<1>6. PackInv' /\ NothingLost'
  BY <1>1, <1>3 DEF PackInv, NothingLost
<1> QED
  BY <1>4, <1>5, <1>6

LEMMA FailsInv ==
  ASSUME Inv, Fails
  PROVE  Inv'
<1> USE DEF Inv
<1>1. /\ UNCHANGED <<ver, lines, hist, loaded, late, sid, star, listed>>
      /\ pc \in {"forming", "returning"} /\ pc' = "idle"
      /\ sess' = [sess EXCEPT ![sid] = Failed]
      /\ orphans' = IF sess[sid] = Ready THEN orphans \cup {sid} ELSE orphans
  BY DEF Fails, odsVars
<1>2. /\ sid \in Sids /\ sess[sid] \in {Forming, Ready}
      /\ \A t \in Sids : sess'[t] = IF t = sid THEN Failed ELSE sess[t]
  BY <1>1 DEF FormInv, HandInv, TypeInv
<1>3. Packed' \subseteq Packed /\ Packed \cup orphans \subseteq Packed' \cup orphans'
  BY <1>1, <1>2 DEF Packed, SidsIn, Forming, Ready, Failed, Closed
<1>4. TypeInv' /\ RowInv' /\ FormInv' /\ HandInv'
  BY <1>1, <1>2 DEF TypeInv, RowInv, FormInv, HandInv
<1>5. SidInv' /\ OrderInv'
  BY <1>1, <1>2 DEF SidInv, OrderInv, TypeInv, Absent, Forming, Ready, Failed
<1>6. OrphanInv'
  BY <1>1, <1>2 DEF OrphanInv, TypeInv
<1>7. PackInv'
  BY <1>1, <1>3 DEF PackInv
<1>8. NothingLost'
  BY <1>1, <1>3 DEF NothingLost
<1> QED
  BY <1>4, <1>5, <1>6, <1>7, <1>8

LEMMA NextInv == Inv /\ [Next]_vars => Inv'
<1> SUFFICES ASSUME Inv, [Next]_vars PROVE Inv'
  OBVIOUS
<1>1. ASSUME NEW k \in 1..NStars, NEW D \in SUBSET DocsOf(k) \ {{}}, Load(D) PROVE Inv'
  <2>1. D \in SUBSET Docs
    BY DEF DocsOf
  <2> QED
    BY <1>1, <2>1, LoadInv
<1>2. CASE Begin \/ RunStep \/ Fails \/ Killed \/ UNCHANGED vars
  BY <1>2, QuietInv, AssignBeginInv, PackStarInv, FinishInv, CloseInv, FailsInv DEF Begin, RunStep
<1> QED
  BY <1>1, <1>2 DEF Next

LEMMA InvHolds == Spec => []Inv
<1>1. Init => Inv
  BY InitInv
<1>2. Inv /\ [Next]_vars => Inv'
  BY NextInv
<1> QED
  BY <1>1, <1>2, PTL DEF Spec

---------------------------------------------------------------------------
(* What follows from the invariant.                                          *)

(* Failed and killed calls lose no load: the last version of a document is   *)
(* live, or the last copy in a packed session or in one whose log entry      *)
(* failed, unless it was written in the window before the final DELETE.      *)
THEOREM NothingLostTheorem == Spec => []NothingLost
<1>1. Inv => NothingLost
  BY DEF Inv
<1> QED
  BY <1>1, InvHolds, PTL

(* However many calls were killed half way, sessions may be applied in the   *)
(* order of their numbers, and the copies of a document in one session are   *)
(* in the order they were loaded.                                            *)
THEOREM CopiesInOrderTheorem == Spec => []CopiesInOrder
<1>1. Inv => CopiesInOrder
  <2> SUFFICES ASSUME Inv, NEW s \in Packed, NEW d \in Docs
               PROVE  /\ \A i, j \in 1..Len(hist[s][d]) :
                           i < j => hist[s][d][i].ver <= hist[s][d][j].ver
                      /\ \A t \in Packed : s < t =>
                           \A v \in Versions(s, d), w \in Versions(t, d) : v < w
    BY DEF CopiesInOrder
  <2>1. \A t \in Packed : t \in Sids
    BY DEF Packed, SidsIn
  <2> QED
    BY <2>1 DEF Inv, OrderInv, PackInv, Versions
<1> QED
  BY <1>1, InvHolds, PTL
============================================================================
