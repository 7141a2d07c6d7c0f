------------------------- MODULE StarPublishProofs -------------------------
(***************************************************************************)
(* Proofs about StarPublish, for every set of documents, every number of    *)
(* lines in each version, any number of sessions and failures.              *)
(***************************************************************************)
EXTENDS StarPublish, StarTablesProofs

---------------------------------------------------------------------------
(* The inductive invariant, in named parts.                                  *)

(* A document has one row, which is current.                                 *)
RowsInv ==
  /\ IsFiniteSet(target) /\ IdsUnique(target)
  /\ \A t \in target : t.nkey = t.ref /\ t.cur
  /\ \A t, u \in target : t.ref = u.ref => t = u

(* A row of the table part has a number of the sequence, which is above 0,   *)
(* and its document has a row; a call that gets past sp_<star>_t has found   *)
(* the table part empty.                                                     *)
LinesInv ==
  /\ IdsUnique(tlines)
  /\ \A l \in tlines : l.id # 0 /\ \E t \in target : t.ref = l.ref
  /\ \A l, m \in tlines : l.nkey = m.nkey => l = m
  /\ pc \in {"r", "p"} => tlines = {}

(* The session holds no version older than the row shown.                    *)
HistoryInv == \A t \in target : history[t.ref] # 0 => t.ver <= history[t.ref]

(* Staging holds the session, under numbers above all ids of target.         *)
StagedInv ==
  pc \in {"r", "p"} =>
    /\ IsFiniteSet(staging) /\ SidsUnique(staging)
    /\ \A s \in staging :
         s.nkey = s.ref /\ s.cur /\ s.ref \in InSession /\ s.ver = history[s.ref]
    /\ \A s \in staging, t \in target : t.id < s.sid
    /\ \A s, u \in staging : s.ref = u.ref => s = u
    /\ \A d \in InSession : \E s \in staging : s.ref = d

(* After the rekeying a staged row has the id of the row of its document, or *)
(* its own number when the document has no row.                              *)
RekeyedInv ==
  pc = "p" =>
    \A s \in staging : \/ s.id = s.sid /\ \A t \in target : t.ref # s.ref
                       \/ \E t \in target : t.ref = s.ref /\ t.id = s.id

(* The staged table part is that of the session's versions, and gets its own *)
(* numbers.                                                                  *)
StagedLinesInv ==
  pc \in {"r", "p"} =>
    /\ IsFiniteSet(slines) /\ SidsUnique(slines)
    /\ \A s \in slines : s.sid # 0 /\ s.ref \in InSession
    /\ \A s, u \in slines : s.nkey = u.nkey => s = u
    /\ \A d \in InSession : PartIn(slines, d) = LinesOf(d, history[d])
    /\ pc = "p" => \A s \in slines : s.id = s.sid

(* A session that has been published is shown.                               *)
ShownInv ==
  pc = "done" => \A d \in InSession : \E t \in target : t.ref = d /\ t.ver = history[d]

Inv ==
  /\ TypeOK /\ error # "duplicate_key"
  /\ RowsInv /\ LinesInv /\ HistoryInv
  /\ StagedInv /\ RekeyedInv /\ StagedLinesInv /\ ShownInv
  /\ PartsMatchRow

---------------------------------------------------------------------------
(* The rows of a session in the foreign tables.                              *)

LEMMA LinesOfFacts ==
  ASSUME NEW d \in Docs, NEW v \in 1..MaxVer
  PROVE  /\ IsFiniteSet(LinesOf(d, v))
         /\ \A l \in LinesOf(d, v) :
              /\ l.nkey \in {d} \X Nat /\ l.ref = d /\ l.ver = v
              /\ l = [nkey |-> l.nkey, ref |-> l.ref, ver |-> l.ver]
         /\ \A l, m \in LinesOf(d, v) : l.nkey = m.nkey => l = m
<1> DEFINE n == LineCount[d][v]
           row(i) == [nkey |-> <<d, i>>, ref |-> d, ver |-> v]
           L == LinesOf(d, v)
<1>1. n \in Nat
  BY SizesAssumption
<1>2. L = {row(i) : i \in 1..n}
  BY DEF LinesOf
<1>3. IsFiniteSet(L)
  <2> DEFINE g == [i \in 1..n |-> row(i)]
  <2>1. g \in [1..n -> L] /\ \A l \in L : \E i \in 1..n : g[i] = l
    BY <1>2
  <2>2. IsFiniteSet(1..n)
    BY <1>1, FS_Interval
  <2> HIDE DEF g, n
  <2> QED
    BY <2>1, <2>2, ImageFinite
<1>4. 1..n \subseteq Nat
  BY <1>1
<1> QED
  BY <1>2, <1>3, <1>4

LEMMA SessionFacts ==
  ASSUME TypeOK
  PROVE  /\ InSession \subseteq Docs /\ IsFiniteSet(InSession)
         /\ \A d \in InSession : history[d] \in 1..MaxVer
<1>1. InSession \subseteq Docs
  BY DEF InSession
<1>2. IsFiniteSet(InSession)
  BY <1>1, SizesAssumption, FS_Subset
<1>3. history \in [Docs -> 0..MaxVer]
  BY DEF TypeOK
<1>4. ASSUME NEW d \in InSession PROVE history[d] \in 1..MaxVer
  <2>1. d \in Docs /\ history[d] # 0
    BY DEF InSession
  <2> QED
    BY <1>3, <2>1, SizesAssumption
<1> QED
  BY <1>1, <1>2, <1>4

LEMMA HistoryRowsFacts ==
  ASSUME TypeOK
  PROVE  /\ IsFiniteSet(HistoryRows)
         /\ \A h \in HistoryRows :
              h.nkey = h.ref /\ h.nkey \in Keys /\ h.ref \in InSession /\ h.ver = history[h.ref]
         /\ \A g, h \in HistoryRows : g.ref = h.ref => g = h
         /\ \A d \in InSession : \E h \in HistoryRows : h.ref = d
<1> DEFINE row(d) == [nkey |-> d, ref |-> d, ver |-> history[d]]
           H == HistoryRows
<1>1. H = {row(d) : d \in InSession}
  BY DEF HistoryRows
<1>2. InSession \subseteq Docs /\ IsFiniteSet(InSession)
  BY SessionFacts
<1>3. IsFiniteSet(H)
  <2> DEFINE g == [d \in InSession |-> row(d)]
  <2>1. g \in [InSession -> H] /\ \A h \in H : \E d \in InSession : g[d] = h
    BY <1>1
  <2> HIDE DEF g, H
  <2> QED
    BY <1>2, <2>1, ImageFinite
<1>4. \A h \in H : /\ h.nkey = h.ref /\ h.nkey \in Keys /\ h.ref \in InSession
                   /\ h.ver = history[h.ref]
  BY <1>1, <1>2 DEF Keys
<1>5. \A g, h \in H : g.ref = h.ref => g = h
  BY <1>1
<1>6. ASSUME NEW d \in InSession PROVE \E h \in H : h.ref = d
  <2>1. row(d) \in H /\ row(d).ref = d
    BY <1>1
  <2> QED
    BY <2>1
<1> QED
  BY <1>3, <1>4, <1>5, <1>6

LEMMA HistoryLinesFacts ==
  ASSUME TypeOK
  PROVE  /\ IsFiniteSet(HistoryLines)
         /\ \A l \in HistoryLines : l.nkey \in Keys /\ l.ref \in InSession /\ l.ver \in 1..MaxVer
         /\ \A l, m \in HistoryLines : l.nkey = m.nkey => l = m
         /\ \A d \in InSession : PartIn(HistoryLines, d) = LinesOf(d, history[d])
<1> DEFINE part(d) == LinesOf(d, history[d])
           P == {part(d) : d \in InSession}
<1>1. /\ InSession \subseteq Docs /\ IsFiniteSet(InSession)
      /\ \A d \in InSession : history[d] \in 1..MaxVer
  BY SessionFacts
<1>2. \A d \in InSession :
        /\ IsFiniteSet(part(d))
        /\ \A l \in part(d) : /\ l.nkey \in {d} \X Nat /\ l.ref = d /\ l.ver = history[d]
                              /\ l = [nkey |-> l.nkey, ref |-> l.ref, ver |-> l.ver]
        /\ \A l, m \in part(d) : l.nkey = m.nkey => l = m
  BY <1>1, LinesOfFacts
<1>3. HistoryLines = UNION P
  BY DEF HistoryLines
<1> HIDE DEF part
<1>4. IsFiniteSet(P)
  <2> DEFINE g == [d \in InSession |-> part(d)]
  <2>1. g \in [InSession -> P] /\ \A q \in P : \E d \in InSession : g[d] = q
    OBVIOUS
  <2> HIDE DEF g, P
  <2> QED
    BY <1>1, <2>1, ImageFinite
<1>5. IsFiniteSet(HistoryLines)
  BY <1>2, <1>3, <1>4, FS_UNION
<1>6. \A l \in HistoryLines : \E d \in InSession : l \in part(d)
  BY <1>3
<1>7. \A d \in InSession : part(d) \subseteq HistoryLines
  BY <1>3
<1>8. \A l \in HistoryLines :
        /\ l.ref \in InSession /\ l \in part(l.ref) /\ l.nkey \in {l.ref} \X Nat
        /\ l.ver = history[l.ref]
  BY <1>2, <1>6
<1>9. \A l \in HistoryLines : l.nkey \in Keys /\ l.ref \in InSession /\ l.ver \in 1..MaxVer
  BY <1>1, <1>8 DEF Keys
<1>10. \A l, m \in HistoryLines : l.nkey = m.nkey => l = m
  <2> SUFFICES ASSUME NEW l \in HistoryLines, NEW m \in HistoryLines, l.nkey = m.nkey
               PROVE  l = m
    OBVIOUS
  <2>1. l.ref = m.ref
    BY <1>8
  <2> QED
    BY <1>2, <1>8, <2>1
<1>11. ASSUME NEW d \in InSession PROVE PartIn(HistoryLines, d) = part(d)
  <2>1. ASSUME NEW x \in PartIn(HistoryLines, d) PROVE x \in part(d)
    <3>1. PICK l \in HistoryLines : l.ref = d /\ x = [nkey |-> l.nkey, ref |-> l.ref, ver |-> l.ver]
      BY DEF PartIn
    <3> QED
      BY <1>2, <1>8, <3>1
  <2>2. ASSUME NEW l \in part(d) PROVE l \in PartIn(HistoryLines, d)
    <3>1. l \in HistoryLines /\ l.ref = d /\ l = [nkey |-> l.nkey, ref |-> l.ref, ver |-> l.ver]
      BY <1>2, <1>7
    <3> QED
      BY <3>1 DEF PartIn
  <2> QED
    BY <2>1, <2>2
<1> QED
  BY <1>5, <1>9, <1>10, <1>11 DEF part

---------------------------------------------------------------------------
(* The invariant holds at first, and every step keeps it.                    *)

LEMMA InitInv == Init => Inv
<1> SUFFICES ASSUME Init PROVE Inv
  OBVIOUS
<1> USE DEF Init
<1>1. TypeOK /\ error # "duplicate_key"
  BY SizesAssumption DEF TypeOK
<1>2. RowsInv /\ LinesInv /\ HistoryInv
  BY FS_EmptySet DEF RowsInv, LinesInv, HistoryInv, IdsUnique
<1>3. StagedInv /\ RekeyedInv /\ StagedLinesInv /\ ShownInv /\ PartsMatchRow
  BY DEF StagedInv, RekeyedInv, StagedLinesInv, ShownInv, PartsMatchRow
<1> QED
  BY <1>1, <1>2, <1>3 DEF Inv

(* The version of a document that has one row, or none.                      *)
LEMMA VersionFacts ==
  ASSUME RowsInv, NEW d
  PROVE  /\ \A t \in target : t.ref = d => VersionOf(d) = t.ver
         /\ (\A t \in target : t.ref # d) => VersionOf(d) = 0
<1>1. ASSUME NEW t \in target, t.ref = d PROVE VersionOf(d) = t.ver
  <2>1. \A u \in target : u.nkey = d => u = t
    BY <1>1 DEF RowsInv
  <2>2. t.nkey = d
    BY <1>1 DEF RowsInv
  <2> QED
    BY <2>1, <2>2 DEF VersionOf
<1>2. (\A t \in target : t.ref # d) => VersionOf(d) = 0
  BY DEF VersionOf, RowsInv
<1> QED
  BY <1>1, <1>2

LEMMA AcceptInv ==
  ASSUME Inv, Accept
  PROVE  Inv'
<1> USE DEF Inv
<1>1. /\ pc = "idle" /\ pc' = "t" /\ error' = "none"
      /\ UNCHANGED <<target, tlines, staging, slines, seq, lseq, crashes>>
      /\ history' \in [Docs -> 0..MaxVer]
      /\ \A d \in Docs : history'[d] = 0 \/ history'[d] > VersionOf(d)
      /\ session' = session + 1 /\ session < MaxSession
  BY DEF Accept, tables, stage
<1>1a. session' \in 0..MaxSession
  <2>1. session \in 0..MaxSession /\ MaxSession \in Nat
    BY SizesAssumption DEF TypeOK
  <2>2. session' = session + 1 /\ session < MaxSession
    BY <1>1
  <2> QED
    BY <2>1, <2>2
<1>2. TypeOK' /\ error' # "duplicate_key"
  BY <1>1, <1>1a DEF TypeOK
<1>3. HistoryInv'
  <2> SUFFICES ASSUME NEW t \in target, history'[t.ref] # 0 PROVE t.ver <= history'[t.ref]
    BY <1>1 DEF HistoryInv
  <2>1. VersionOf(t.ref) = t.ver
    BY VersionFacts
  <2>2. t.ref \in Docs /\ t.ver \in 1..MaxVer
    BY DEF TypeOK, TargetRow
  <2>3. history'[t.ref] \in 0..MaxVer /\ history'[t.ref] > t.ver
    BY <1>1, <2>1, <2>2
  <2>4. MaxVer \in Nat
    BY SizesAssumption
  <2> QED
    BY <2>2, <2>3, <2>4
<1>4. RowsInv' /\ LinesInv' /\ StagedInv' /\ RekeyedInv' /\ StagedLinesInv' /\ ShownInv'
  BY <1>1 DEF RowsInv, LinesInv, StagedInv, RekeyedInv, StagedLinesInv, ShownInv
<1>5. PartsMatchRow'
  BY <1>1 DEF PartsMatchRow, RowsOfPart, LinesOf
<1> QED
  BY <1>2, <1>3, <1>4, <1>5

(* A session under way leaves the tables of target alone.                    *)
LEMMA SameParts ==
  ASSUME PartsMatchRow, UNCHANGED <<tables, history>>, pc' \in {"t", "r", "p"}
  PROVE  PartsMatchRow'
BY DEF PartsMatchRow, tables, RowsOfPart, LinesOf, InSession

LEMMA TransferFailsInv ==
  ASSUME Inv, TransferFails
  PROVE  Inv'
<1> USE DEF Inv
<1>1. /\ pc = "t" /\ pc' = "t" /\ error' = "no_destination"
      /\ UNCHANGED <<tables, target, tlines, staging, slines, lseq, history, session, crashes>>
  BY DEF TransferFails, tables
<1>2. seq' \in Nat
  <2>1. PICK m \in {0} \cup IdsOf(target) : seq' = StartFrom(m) + Cardinality(HistoryRows)
    BY DEF TransferFails
  <2>2. \A t \in target : t.id \in Nat
    BY DEF TypeOK, TargetRow
  <2>3. m \in Nat
    <3>1. IdsOf(target) \subseteq Nat
      BY <2>2 DEF IdsOf
    <3> QED
      BY <3>1
  <2>4. Cardinality(HistoryRows) \in Nat
    BY HistoryRowsFacts, FS_CardinalityType
  <2> QED
    BY <2>1, <2>3, <2>4 DEF StartFrom
<1>3. TypeOK' /\ error' # "duplicate_key"
  BY <1>1, <1>2 DEF TypeOK
<1>4. /\ RowsInv' /\ LinesInv' /\ HistoryInv' /\ StagedInv' /\ RekeyedInv' /\ StagedLinesInv'
      /\ ShownInv'
  BY <1>1 DEF RowsInv, LinesInv, HistoryInv, StagedInv, RekeyedInv, StagedLinesInv, ShownInv
<1>5. PartsMatchRow'
  BY <1>1, SameParts
<1> QED
  BY <1>3, <1>4, <1>5

LEMMA TransferInv ==
  ASSUME Inv, Transfer
  PROVE  Inv'
<1> USE DEF Inv
<1> DEFINE Ver == 1..MaxVer
           H == HistoryRows
           L == HistoryLines
<1>1. /\ pc = "t" /\ pc' = "r" /\ error' = "none"
      /\ UNCHANGED <<tables, target, tlines, history, session, crashes>>
      /\ \A n \in IdsOf(tlines) : n < 1
      /\ lseq' = lseq + Cardinality(L)
  BY DEF Transfer, tables
<1>2. PICK m \in {0} \cup IdsOf(target) :
        /\ IsLastId(m, target)
        /\ \E f \in Numberings(H, StartFrom(m)) : staging' = StagedRows(H, f)
        /\ seq' = StartFrom(m) + Cardinality(H)
  BY DEF Transfer
<1>3. m \in Nat /\ \A t \in target : t.id \in Nat /\ t.id <= m
  <2>1. \A t \in target : t.id \in Nat
    BY DEF TypeOK, TargetRow
  <2> QED
    BY <1>2, <2>1, LastIdFacts
<1> DEFINE n == StartFrom(m)
<1>4. n = m + 1 /\ n \in Nat /\ lseq \in Nat
  BY <1>3 DEF StartFrom, TypeOK
<1>5. PICK f \in Numberings(H, n) : staging' = StagedRows(H, f)
  BY <1>2
<1>6. PICK g \in Numberings(L, lseq) : slines' = StagedRows(L, g)
  BY DEF Transfer
<1>7. /\ IsFiniteSet(H) /\ Cardinality(H) \in Nat
      /\ \A h \in H : /\ h.nkey = h.ref /\ h.nkey \in Keys /\ h.ref \in InSession
                      /\ h.ver = history[h.ref]
      /\ \A h, k \in H : h.ref = k.ref => h = k
      /\ \A d \in InSession : \E h \in H : h.ref = d
  BY HistoryRowsFacts, FS_CardinalityType
<1>8. /\ IsFiniteSet(L) /\ Cardinality(L) \in Nat
      /\ \A l \in L : l.nkey \in Keys /\ l.ref \in InSession /\ l.ver \in Ver
      /\ \A l, k \in L : l.nkey = k.nkey => l = k
      /\ \A d \in InSession : PartIn(L, d) = LinesOf(d, history[d])
  BY HistoryLinesFacts, FS_CardinalityType
<1>9. InSession \subseteq Docs /\ \A d \in InSession : history[d] \in Ver
  BY SessionFacts
<1> HIDE DEF H, L, n, Ver
<1>10. /\ IsFiniteSet(staging') /\ SidsUnique(staging')
       /\ \A s \in staging' :
            /\ s.sid \in Nat /\ s.sid > n /\ s.sid <= n + Cardinality(H) /\ s.cur
            /\ \E h \in H : s.nkey = h.nkey /\ s.ref = h.ref /\ s.ver = h.ver /\ s.sid = f[h]
       /\ \A h \in H : \E s \in staging' : s.nkey = h.nkey /\ s.ref = h.ref /\ s.ver = h.ver
  BY <1>4, <1>5, <1>7, StagedRowsFacts
<1>11. /\ IsFiniteSet(slines') /\ SidsUnique(slines')
       /\ \A s \in slines' :
            /\ s.sid \in Nat /\ s.sid > lseq /\ s.sid <= lseq + Cardinality(L) /\ s.cur
            /\ \E l \in L : s.nkey = l.nkey /\ s.ref = l.ref /\ s.ver = l.ver /\ s.sid = g[l]
       /\ \A l \in L : \E s \in slines' : s.nkey = l.nkey /\ s.ref = l.ref /\ s.ver = l.ver
  BY <1>4, <1>6, <1>8, StagedRowsFacts
<1>12. TypeOK'
  <2>1. \A h \in H : h.nkey \in Keys /\ h.ref \in Docs /\ h.ver \in Ver
    BY <1>7, <1>9
  <2>2. staging' \subseteq StageRow
    BY <1>4, <1>5, <1>7, <2>1, StagedRowsType DEF StageRow, StageRows, Ver
  <2>3. \A l \in L : l.nkey \in Keys /\ l.ref \in Docs /\ l.ver \in Ver
    BY <1>8, <1>9
  <2>4. slines' \subseteq StageRow
    BY <1>4, <1>6, <1>8, <2>3, StagedRowsType DEF StageRow, StageRows, Ver
  <2>5. seq' \in Nat /\ lseq' \in Nat
    BY <1>1, <1>2, <1>4, <1>7, <1>8 DEF n
  <2> QED
    BY <1>1, <2>2, <2>4, <2>5 DEF TypeOK
<1>13. tlines = {}
  <2>1. \A l \in tlines : l.id \in IdsOf(tlines)
    BY DEF IdsOf
  <2>2. \A l \in tlines : l.id \in Nat /\ l.id # 0
    BY DEF TypeOK, TargetRow, LinesInv
  <2> QED
    BY <1>1, <2>1, <2>2
<1>14. RowsInv' /\ LinesInv' /\ HistoryInv' /\ PartsMatchRow'
  BY <1>1, <1>13, SameParts DEF RowsInv, LinesInv, HistoryInv
<1>15. StagedInv'
  <2>1. InSession' = InSession
    BY <1>1 DEF InSession
  <2>2. \A s \in staging' :
          s.nkey = s.ref /\ s.cur /\ s.ref \in InSession /\ s.ver = history[s.ref]
    BY <1>7, <1>10
  <2>3. \A s \in staging', t \in target : t.id < s.sid
    BY <1>3, <1>4, <1>10
  <2>4. \A s, u \in staging' : s.ref = u.ref => s = u
    BY <1>7, <1>10 DEF SidsUnique
  <2>5. \A d \in InSession : \E s \in staging' : s.ref = d
    BY <1>7, <1>10
  <2> QED
    BY <1>1, <1>10, <2>1, <2>2, <2>3, <2>4, <2>5 DEF StagedInv
<1>16. RekeyedInv'
  BY <1>1 DEF RekeyedInv
<1>17. StagedLinesInv'
  <2>1. InSession' = InSession
    BY <1>1 DEF InSession
  <2>2. \A s \in slines' : s.sid # 0 /\ s.ref \in InSession
    BY <1>4, <1>8, <1>11
  <2>3. \A s, u \in slines' : s.nkey = u.nkey => s = u
    BY <1>8, <1>11 DEF SidsUnique
  <2>4. \A d \in InSession : PartIn(slines', d) = PartIn(L, d)
    BY <1>11, SamePart
  <2>5. \A d \in InSession : PartIn(slines', d) = LinesOf(d, history[d])
    BY <1>8, <2>4
  <2> QED
    BY <1>1, <1>11, <2>1, <2>2, <2>3, <2>5 DEF StagedLinesInv, PartIn, LinesOf
<1>18. ShownInv'
  BY <1>1 DEF ShownInv
<1> QED
  BY <1>1, <1>12, <1>14, <1>15, <1>16, <1>17, <1>18

(* Every row of target that is matched gives its id, so that no row is       *)
(* superseded: sp_<star>_r never closes a row.                               *)
LEMMA NothingClosed ==
  ASSUME Inv, pc = "r", NEW k \in Rekeyings(staging, target),
         NEW R, R = RekeyedRows(staging, k)
  PROVE  /\ R \subseteq StageRow /\ IsFiniteSet(R) /\ SidsUnique(R)
         /\ \A r \in R : \E s \in staging :
              r.sid = s.sid /\ r.nkey = s.nkey /\ r.ref = s.ref /\ r.ver = s.ver /\ r.cur = s.cur
         /\ \A s \in staging : \E r \in R : r.ref = s.ref
         /\ \A r \in R : \/ r.id = r.sid /\ \A t \in target : t.ref # r.ref
                         \/ \E t \in target : t.ref = r.ref /\ t.id = r.id
         /\ Closing(R) = {}
<1> USE DEF Inv
<1> DEFINE Ver == 1..MaxVer
<1>1. /\ staging \subseteq StageRows(Keys, Docs, Ver) /\ \A t \in target : t.id \in Nat
  BY DEF TypeOK, StageRow, StageRows, TargetRow
<1>2. IsFiniteSet(staging) /\ SidsUnique(staging)
  BY DEF StagedInv
<1> HIDE DEF Ver
<1>3. R \subseteq StageRows(Keys, Docs, Ver)
  BY <1>1, <1>2, RekeyedRowsFacts
<1>4. IsFiniteSet(R) /\ SidsUnique(R)
  BY <1>1, <1>2, RekeyedRowsFacts
<1>5. \A r \in R : \E s \in staging :
        /\ r.sid = s.sid /\ r.nkey = s.nkey /\ r.ref = s.ref /\ r.ver = s.ver /\ r.cur = s.cur
        /\ r.id = k[s]
  BY <1>1, <1>2, RekeyedRowsFacts
<1>6. \A s \in staging : \E r \in R : r.ref = s.ref
  BY <1>1, <1>2, RekeyedRowsFacts
<1>7. \A r \in R : \/ r.id = r.sid /\ \A t \in target : t.ref # r.ref
                   \/ \E t \in target : t.ref = r.ref /\ t.id = r.id
  <2> TAKE r \in R
  <2>1. PICK s \in staging : r.sid = s.sid /\ r.nkey = s.nkey /\ r.ref = s.ref /\ r.id = k[s]
    BY <1>5
  <2>2. \/ k[s] = s.sid /\ Matches(s, target) = {}
        \/ \E t \in Matches(s, target) : k[s] = t.id
    BY RekeyingFacts
  <2>3. \A t \in target : t \in Matches(s, target) <=> t.ref = r.ref
    BY <2>1 DEF Matches, StagedInv, RowsInv
  <2>4. Matches(s, target) \subseteq target
    BY DEF Matches
  <2> QED
    BY <2>1, <2>2, <2>3, <2>4
<1>8. Closing(R) = {}
  <2>1. ASSUME NEW t \in Closing(R) PROVE FALSE
    <3>1. PICK r \in R : t \in target /\ r.nkey = t.nkey /\ r.id # t.id
      BY <2>1 DEF Closing, Superseded
    <3>2. r.nkey = r.ref /\ t.nkey = t.ref
      BY <1>5, <3>1 DEF StagedInv, RowsInv
    <3>3. PICK u \in target : u.ref = r.ref /\ u.id = r.id
      BY <1>7, <3>1, <3>2
    <3> QED
      BY <3>1, <3>2, <3>3 DEF RowsInv
  <2> QED
    BY <2>1
<1>9. R \subseteq StageRow
  BY <1>3 DEF StageRow, StageRows, Ver
<1> QED
  BY <1>4, <1>5, <1>6, <1>7, <1>8, <1>9

LEMMA RekeyInv ==
  ASSUME Inv, Rekey
  PROVE  Inv'
<1> USE DEF Inv
<1>1. /\ pc = "r" /\ pc' = "p" /\ error' = "none"
      /\ UNCHANGED <<target, lseq, history, session, crashes>>
      /\ tlines' = WithoutLinesOf(tlines, staging) /\ slines' = OwnIds(slines)
  BY DEF Rekey, LinesRekeyed
<1>2. tlines = {} /\ tlines' = {}
  BY <1>1 DEF LinesInv, WithoutLinesOf
<1>3. PICK k \in Rekeyings(staging, target) :
        LET R == RekeyedRows(staging, k)
        IN  /\ \E f \in Numberings(Closing(R), seq) : staging' = R \cup ClosingRows(Closing(R), f)
            /\ seq' = seq + Cardinality(Closing(R))
  BY DEF Rekey
<1> DEFINE R == RekeyedRows(staging, k)
<1>4. R = RekeyedRows(staging, k)
  OBVIOUS
<1> HIDE DEF R
<1>5. /\ R \subseteq StageRow /\ IsFiniteSet(R) /\ SidsUnique(R)
      /\ \A r \in R : \E s \in staging :
           r.sid = s.sid /\ r.nkey = s.nkey /\ r.ref = s.ref /\ r.ver = s.ver /\ r.cur = s.cur
      /\ \A s \in staging : \E r \in R : r.ref = s.ref
      /\ \A r \in R : \/ r.id = r.sid /\ \A t \in target : t.ref # r.ref
                      \/ \E t \in target : t.ref = r.ref /\ t.id = r.id
      /\ Closing(R) = {}
  BY <1>1, <1>4, NothingClosed
<1>6. staging' = R /\ seq' = seq
  <2>1. PICK f \in Numberings(Closing(R), seq) : staging' = R \cup ClosingRows(Closing(R), f)
    BY <1>3, <1>4
  <2>2. ClosingRows(Closing(R), f) = {}
    BY <1>5 DEF ClosingRows
  <2>3. seq' = seq + 0
    BY <1>3, <1>4, <1>5, FS_EmptySet
  <2> QED
    BY <2>1, <2>2, <2>3 DEF TypeOK
<1>7. /\ IsFiniteSet(slines') /\ SidsUnique(slines') /\ slines' \subseteq StageRow
      /\ \A r \in slines' : r.id = r.sid
      /\ \A r \in slines' : \E s \in slines :
           r.sid = s.sid /\ r.nkey = s.nkey /\ r.ref = s.ref /\ r.ver = s.ver
      /\ \A s \in slines : \E r \in slines' :
           r.sid = s.sid /\ r.nkey = s.nkey /\ r.ref = s.ref /\ r.ver = s.ver
  <2>1. \A s \in slines : IsStageRow(s) /\ s \in StageRow
    BY DEF TypeOK, StageRow, IsStageRow
  <2>2. IsFiniteSet(slines) /\ SidsUnique(slines)
    BY <1>1 DEF StagedLinesInv
  <2>3. /\ IsFiniteSet(slines') /\ SidsUnique(slines')
        /\ \A r \in slines' : r.id = r.sid
        /\ \A r \in slines' : \E s \in slines :
             /\ r.sid = s.sid /\ r.nkey = s.nkey /\ r.ref = s.ref /\ r.ver = s.ver
             /\ r.cur = s.cur /\ IsStageRow(r)
        /\ \A s \in slines : \E r \in slines' :
             r.sid = s.sid /\ r.nkey = s.nkey /\ r.ref = s.ref /\ r.ver = s.ver
    BY <1>1, <2>1, <2>2, OwnIdsFacts
  <2>4. slines' \subseteq StageRow
    BY <2>1, <2>3 DEF StageRow, IsStageRow
  <2> QED
    BY <2>3, <2>4
<1>8. TypeOK'
  BY <1>1, <1>2, <1>5, <1>6, <1>7 DEF TypeOK
<1>9. RowsInv' /\ LinesInv' /\ HistoryInv'
  BY <1>1, <1>2 DEF RowsInv, LinesInv, HistoryInv, IdsUnique
<1>10. StagedInv'
  <2>1. /\ \A s \in staging :
             s.nkey = s.ref /\ s.cur /\ s.ref \in InSession /\ s.ver = history[s.ref]
        /\ \A s \in staging, t \in target : t.id < s.sid
        /\ \A s, u \in staging : s.ref = u.ref => s = u
        /\ \A d \in InSession : \E s \in staging : s.ref = d
    BY <1>1 DEF StagedInv
  <2>2. InSession' = InSession
    BY <1>1 DEF InSession
  <2>3. \A s \in staging' :
          s.nkey = s.ref /\ s.cur /\ s.ref \in InSession /\ s.ver = history[s.ref]
    BY <1>5, <1>6, <2>1
  <2>4. \A s \in staging', t \in target : t.id < s.sid
    BY <1>5, <1>6, <2>1
  <2>5. \A s, u \in staging' : s.ref = u.ref => s = u
    <3> SUFFICES ASSUME NEW s \in staging', NEW u \in staging', s.ref = u.ref
                 PROVE  s.sid = u.sid
      BY <1>5, <1>6 DEF SidsUnique
    <3>1. PICK a \in staging : s.sid = a.sid /\ s.ref = a.ref
      BY <1>5, <1>6
    <3>2. PICK b \in staging : u.sid = b.sid /\ u.ref = b.ref
      BY <1>5, <1>6
    <3>3. a.ref = b.ref
      BY <3>1, <3>2
    <3>4. a = b
      BY <2>1, <3>3
    <3> QED
      BY <3>1, <3>2, <3>4
  <2>6. \A d \in InSession : \E s \in staging' : s.ref = d
    BY <1>5, <1>6, <2>1
  <2> QED
    BY <1>1, <1>5, <1>6, <2>2, <2>3, <2>4, <2>5, <2>6 DEF StagedInv
<1>11. RekeyedInv'
  BY <1>1, <1>5, <1>6 DEF RekeyedInv
<1>12. StagedLinesInv'
  <2>1. /\ \A s \in slines : s.sid # 0 /\ s.ref \in InSession
        /\ \A s, u \in slines : s.nkey = u.nkey => s = u
        /\ \A d \in InSession : PartIn(slines, d) = LinesOf(d, history[d])
    BY <1>1 DEF StagedLinesInv
  <2>2. InSession' = InSession
    BY <1>1 DEF InSession
  <2>3. \A s \in slines' : s.sid # 0 /\ s.ref \in InSession
    BY <1>7, <2>1
  <2>4. \A s, u \in slines' : s.nkey = u.nkey => s = u
    BY <1>7, <2>1 DEF SidsUnique
  <2>5. \A d \in InSession : PartIn(slines', d) = PartIn(slines, d)
    BY <1>7, SamePart
  <2>6. \A d \in InSession : PartIn(slines', d) = LinesOf(d, history[d])
    BY <2>1, <2>5
  <2> QED
    BY <1>1, <1>7, <2>2, <2>3, <2>4, <2>6 DEF StagedLinesInv, PartIn, LinesOf
<1>13. PartsMatchRow'
  BY <1>1, <1>2, SameParts DEF tables
<1>14. ShownInv'
  BY <1>1 DEF ShownInv
<1> QED
  BY <1>1, <1>8, <1>9, <1>10, <1>11, <1>12, <1>13, <1>14

(* UPDATE target: a row keeps its keys, and takes the version of the staged  *)
(* row of its document.                                                      *)
UpdatedFrom(t, u) ==
  /\ u.id = t.id /\ u.nkey = t.nkey /\ u.ref = t.ref /\ u.cur
  /\ \/ u = t /\ t.ref \notin InSession
     \/ t.ref \in InSession /\ u.ver = history[t.ref]

LEMMA UpdatedFacts ==
  ASSUME Inv, pc = "p", NEW rows \in RowsUpdated(target, staging)
  PROVE  /\ rows \subseteq TargetRow /\ IsFiniteSet(rows) /\ IdsUnique(rows)
         /\ \A u \in rows : \E t \in target : UpdatedFrom(t, u)
         /\ \A t \in target : \E u \in rows : UpdatedFrom(t, u)
<1> USE DEF Inv
<1> DEFINE Ver == 1..MaxVer
<1>1. PICK p \in Updates(target, staging) : rows = UpdatedRows(target, p)
  BY DEF RowsUpdated
<1>2. /\ target \subseteq TargetRows(Keys, Docs, Ver) /\ IsFiniteSet(target) /\ IdsUnique(target)
      /\ staging \subseteq StageRows(Keys, Docs, Ver)
  BY DEF RowsInv, TypeOK, TargetRow, TargetRows, StageRow, StageRows
<1> HIDE DEF Ver
<1>3. IsFiniteSet(rows) /\ IdsUnique(rows)
  BY <1>1, <1>2, UpdatedRowsFacts
<1>4. rows \subseteq TargetRows(Keys, Docs, Ver)
  BY <1>1, <1>2, UpdatedRowsFacts
<1>5. rows \subseteq TargetRow
  BY <1>4 DEF TargetRow, TargetRows, Ver
<1>6. /\ \A u \in rows : \E t \in target : u = UpdatedRow(t, p)
      /\ \A t \in target : UpdatedRow(t, p) \in rows
  BY <1>1 DEF UpdatedRows
<1>7. ASSUME NEW t \in target PROVE UpdatedFrom(t, UpdatedRow(t, p))
  <2> DEFINE u == UpdatedRow(t, p)
  <2>1. u \in TargetRows(Keys, Docs, Ver) /\ RowUpdated(t, u, staging)
    BY <1>1, <1>2, UpdatedRowFacts
  <2>2. u.id = t.id /\ u.nkey = t.nkey
    BY <2>1 DEF RowUpdated
  <2>3. \/ u = t /\ Sources(t, staging) = {}
        \/ \E s \in Sources(t, staging) : u.ref = s.ref /\ u.ver = s.ver /\ u.cur = s.cur
    BY <2>1 DEF RowUpdated
  <2> HIDE DEF u
  <2>4. \A s \in staging :
          s.nkey = s.ref /\ s.cur /\ s.ref \in InSession /\ s.ver = history[s.ref]
    BY DEF StagedInv
  <2>5. \A s \in staging : s.id = t.id <=> s.ref = t.ref
    <3> TAKE s \in staging
    <3>1. s.id = s.sid => s.id # t.id
      <4>1. t.id < s.sid
        BY DEF StagedInv
      <4>2. t.id \in Nat /\ s.sid \in Nat
        BY DEF TypeOK, TargetRow, StageRow
      <4> QED
        BY <4>1, <4>2
    <3>2. \/ s.id = s.sid /\ \A x \in target : x.ref # s.ref
          \/ \E x \in target : x.ref = s.ref /\ x.id = s.id
      BY DEF RekeyedInv
    <3> QED
      BY <3>1, <3>2 DEF RowsInv, IdsUnique
  <2>6. CASE u = t /\ Sources(t, staging) = {}
    <3>1. \A s \in staging : s.ref # t.ref
      BY <2>5, <2>6 DEF Sources
    <3>2. t.ref \notin InSession
      BY <3>1 DEF StagedInv
    <3> QED
      BY <2>2, <2>6, <3>2 DEF UpdatedFrom, RowsInv, u
  <2>7. CASE \E s \in Sources(t, staging) : u.ref = s.ref /\ u.ver = s.ver /\ u.cur = s.cur
    <3>1. PICK s \in staging : s.id = t.id /\ u.ref = s.ref /\ u.ver = s.ver /\ u.cur = s.cur
      BY <2>7 DEF Sources
    <3>2. s.ref = t.ref
      BY <2>5, <3>1
    <3> QED
      BY <2>2, <2>4, <3>1, <3>2 DEF UpdatedFrom, u
  <2> QED
    BY <2>3, <2>6, <2>7
<1> QED
  BY <1>3, <1>5, <1>6, <1>7

(* INSERT target: the rows of documents that have none yet.                  *)
LEMMA InsertedFacts ==
  ASSUME Inv, pc = "p", NEW N, N = NewRows(staging)
  PROVE  /\ N \subseteq TargetRow /\ IsFiniteSet(N) /\ IdsUnique(N)
         /\ \A n \in N : /\ n.nkey = n.ref /\ n.cur /\ n.ref \in InSession
                         /\ n.ver = history[n.ref]
                         /\ \A t \in target : t.ref # n.ref /\ t.id # n.id
         /\ \A n, o \in N : n.ref = o.ref => n = o
         /\ \A d \in InSession :
              (\A t \in target : t.ref # d) => \E n \in N : n.ref = d
<1> USE DEF Inv
<1> DEFINE Ver == 1..MaxVer
<1>1. /\ IsFiniteSet(staging) /\ SidsUnique(staging)
      /\ \A s \in staging :
           s.nkey = s.ref /\ s.cur /\ s.ref \in InSession /\ s.ver = history[s.ref]
      /\ \A s \in staging, t \in target : t.id < s.sid
      /\ \A s, u \in staging : s.ref = u.ref => s = u
      /\ \A d \in InSession : \E s \in staging : s.ref = d
  BY DEF StagedInv
<1>2. /\ staging \subseteq StageRows(Keys, Docs, Ver)
      /\ \A s \in staging : s.sid \in Nat /\ \A t \in target : t.id \in Nat
  BY DEF TypeOK, StageRow, StageRows, TargetRow
<1> HIDE DEF Ver
<1>3. N \subseteq TargetRows(Keys, Docs, Ver)
  BY <1>1, <1>2, NewRowsFacts
<1>4. IsFiniteSet(N) /\ IdsUnique(N)
  BY <1>1, <1>2, NewRowsFacts
<1>5. \A n \in N : \E s \in staging :
        /\ s.sid = s.id /\ n.id = s.sid
        /\ n.nkey = s.nkey /\ n.ref = s.ref /\ n.ver = s.ver /\ n.cur = s.cur
  BY <1>1, <1>2, NewRowsFacts
<1>6. \A s \in staging : s.sid = s.id => \E n \in N :
        /\ n.id = s.sid
        /\ n.nkey = s.nkey /\ n.ref = s.ref /\ n.ver = s.ver /\ n.cur = s.cur
  BY <1>1, <1>2, NewRowsFacts
<1>7. \A s \in staging, t \in target : t.id # s.sid
  BY <1>1, <1>2
<1>8. \A s \in staging : \/ s.id = s.sid /\ \A t \in target : t.ref # s.ref
                         \/ s.id # s.sid /\ \E t \in target : t.ref = s.ref
  BY <1>7 DEF RekeyedInv
<1>9. \A n \in N : /\ n.nkey = n.ref /\ n.cur /\ n.ref \in InSession
                   /\ n.ver = history[n.ref]
                   /\ \A t \in target : t.ref # n.ref /\ t.id # n.id
  BY <1>1, <1>5, <1>7, <1>8
<1>10. \A n, o \in N : n.ref = o.ref => n = o
  <2> SUFFICES ASSUME NEW n \in N, NEW o \in N, n.ref = o.ref PROVE n.id = o.id
    BY <1>4 DEF IdsUnique
  <2>1. PICK s \in staging : n.id = s.sid /\ n.ref = s.ref
    BY <1>5
  <2>2. PICK u \in staging : o.id = u.sid /\ o.ref = u.ref
    BY <1>5
  <2>3. s = u
    <3>1. s.ref = u.ref
      BY <2>1, <2>2
    <3> QED
      BY <1>1, <3>1
  <2> QED
    BY <2>1, <2>2, <2>3
<1>11. \A d \in InSession : (\A t \in target : t.ref # d) => \E n \in N : n.ref = d
  BY <1>1, <1>6, <1>8
<1>12. N \subseteq TargetRow
  BY <1>3 DEF TargetRow, TargetRows, Ver
<1> QED
  BY <1>4, <1>9, <1>10, <1>11, <1>12

(* INSERT of the table part, which was empty.                                *)
LEMMA InsertedLinesFacts ==
  ASSUME Inv, pc = "p", NEW N, N = NewRows(slines)
  PROVE  /\ N \subseteq TargetRow /\ IdsUnique(N) /\ KeysUnique(N)
         /\ \A n \in N : n.id # 0 /\ n.ref \in InSession
         /\ \A d \in InSession : PartIn(N, d) = LinesOf(d, history[d])
<1> USE DEF Inv
<1> DEFINE Ver == 1..MaxVer
<1>1. /\ IsFiniteSet(slines) /\ SidsUnique(slines)
      /\ \A s \in slines : s.sid # 0 /\ s.ref \in InSession
      /\ \A s, u \in slines : s.nkey = u.nkey => s = u
      /\ \A d \in InSession : PartIn(slines, d) = LinesOf(d, history[d])
      /\ \A s \in slines : s.id = s.sid
  BY DEF StagedLinesInv
<1>2. slines \subseteq StageRows(Keys, Docs, Ver)
  BY DEF TypeOK, StageRow, StageRows
<1> HIDE DEF Ver
<1>3. N \subseteq TargetRows(Keys, Docs, Ver)
  BY <1>1, <1>2, NewRowsFacts
<1>4. IdsUnique(N)
  BY <1>1, <1>2, NewRowsFacts
<1>5. \A n \in N : \E s \in slines :
        n.id = s.sid /\ n.nkey = s.nkey /\ n.ref = s.ref /\ n.ver = s.ver
  BY <1>1, <1>2, NewRowsFacts
<1>6. \A s \in slines : \E n \in N :
        n.nkey = s.nkey /\ n.ref = s.ref /\ n.ver = s.ver
  BY <1>1, <1>2, NewRowsFacts
<1>7. \A n, m \in N : n.nkey = m.nkey => n = m
  <2> SUFFICES ASSUME NEW n \in N, NEW m \in N, n.nkey = m.nkey PROVE n.id = m.id
    BY <1>4 DEF IdsUnique
  <2>1. PICK s \in slines : n.id = s.sid /\ n.nkey = s.nkey
    BY <1>5
  <2>2. PICK u \in slines : m.id = u.sid /\ m.nkey = u.nkey
    BY <1>5
  <2>3. s.nkey = u.nkey
    BY <2>1, <2>2
  <2>4. s = u
    BY <1>1, <2>3
  <2> QED
    BY <2>1, <2>2, <2>4
<1>8. KeysUnique(N)
  BY <1>4, <1>7 DEF KeysUnique, IdsUnique
<1>9. \A d \in InSession : PartIn(N, d) = PartIn(slines, d)
  BY <1>5, <1>6, SamePart
<1>10. N \subseteq TargetRow
  BY <1>3 DEF TargetRow, TargetRows, Ver
<1>11. \A n \in N : n.id # 0 /\ n.ref \in InSession
  BY <1>1, <1>5
<1> QED
  BY <1>1, <1>4, <1>8, <1>9, <1>10, <1>11

(* No key is violated: sp_<star>_p writes both tables.                       *)
LEMMA PublishFacts ==
  ASSUME Inv, Publish
  PROVE  \E rows \in RowsUpdated(target, staging) :
           /\ pc = "p" /\ pc' = "done" /\ error' = "none"
           /\ target' = rows \cup NewRows(staging) /\ tlines = {} /\ tlines' = NewRows(slines)
           /\ UNCHANGED <<staging, slines, seq, lseq, history, session, crashes>>
<1>1. PICK rows \in RowsUpdated(target, staging), lines \in RowsUpdated(tlines, slines) :
        IF Insertable(rows, NewRows(staging)) /\ Insertable(lines, NewRows(slines))
          THEN /\ target' = rows \cup NewRows(staging)
               /\ tlines' = lines \cup NewRows(slines)
               /\ pc' = "done"
               /\ error' = "none"
          ELSE /\ pc' = "t"
               /\ error' = "duplicate_key"
               /\ UNCHANGED tables
  BY DEF Publish
<1>2. pc = "p" /\ UNCHANGED <<staging, slines, seq, lseq, history, session, crashes>>
  BY DEF Publish, stage
<1> DEFINE N == NewRows(staging)
           NL == NewRows(slines)
<1>3. /\ IdsUnique(N)
      /\ \A n \in N : n.nkey = n.ref /\ \A t \in target : t.ref # n.ref /\ t.id # n.id
      /\ \A n, o \in N : n.ref = o.ref => n = o
  BY <1>2, InsertedFacts
<1>4. \A u \in rows : \E t \in target : u.id = t.id /\ u.nkey = t.nkey /\ t.nkey = t.ref
  BY <1>2, UpdatedFacts DEF UpdatedFrom, Inv, RowsInv
<1>5. KeysUnique(NL)
  BY <1>2, InsertedLinesFacts
<1>6. tlines = {}
  BY <1>2 DEF Inv, LinesInv
<1>7. lines = {}
  BY <1>6 DEF RowsUpdated, UpdatedRows
<1> HIDE DEF N, NL
<1>8. Insertable(rows, N)
  <2>1. KeysUnique(N)
    BY <1>3 DEF KeysUnique, IdsUnique
  <2>2. \A n \in N, u \in rows : n.id # u.id /\ n.nkey # u.nkey
    BY <1>3, <1>4
  <2> QED
    BY <2>1, <2>2 DEF Insertable
<1>9. Insertable(lines, NL)
  BY <1>5, <1>7 DEF Insertable
<1> QED
  BY <1>1, <1>2, <1>6, <1>7, <1>8, <1>9 DEF N, NL

(* What the tables show after it.                                            *)
LEMMA PublishedFacts ==
  ASSUME Inv, Publish
  PROVE  /\ \A t \in target : \E u \in target' : UpdatedFrom(t, u)
         /\ \A u \in target' : /\ u.nkey = u.ref /\ u.cur
                               /\ u.ref \in InSession => u.ver = history[u.ref]
                               /\ u.ref \notin InSession => u \in target
         /\ \A d \in InSession : \E u \in target' : u.ref = d
<1>1. PICK rows \in RowsUpdated(target, staging) :
        pc = "p" /\ target' = rows \cup NewRows(staging)
  BY PublishFacts
<1> DEFINE N == NewRows(staging)
<1>2. /\ \A u \in rows : \E t \in target : UpdatedFrom(t, u)
      /\ \A t \in target : \E u \in rows : UpdatedFrom(t, u)
  BY <1>1, UpdatedFacts
<1>3. /\ \A n \in N : /\ n.nkey = n.ref /\ n.cur /\ n.ref \in InSession /\ n.ver = history[n.ref]
      /\ \A d \in InSession : (\A t \in target : t.ref # d) => \E n \in N : n.ref = d
  BY <1>1, InsertedFacts
<1>4. \A t \in target : t.nkey = t.ref
  BY DEF Inv, RowsInv
<1> HIDE DEF N
<1>5. \A u \in rows : /\ u.nkey = u.ref /\ u.cur
                      /\ u.ref \in InSession => u.ver = history[u.ref]
                      /\ u.ref \notin InSession => u \in target
  BY <1>2, <1>4 DEF UpdatedFrom
<1>6. ASSUME NEW d \in InSession PROVE \E u \in target' : u.ref = d
  <2>1. CASE \A t \in target : t.ref # d
    BY <1>1, <1>3, <2>1 DEF N
  <2>2. CASE \E t \in target : t.ref = d
    <3>1. PICK t \in target : t.ref = d
      BY <2>2
    <3>2. PICK u \in rows : UpdatedFrom(t, u)
      BY <1>2
    <3> QED
      BY <1>1, <3>1, <3>2 DEF UpdatedFrom
  <2> QED
    BY <2>1, <2>2
<1> QED
  BY <1>1, <1>2, <1>3, <1>5, <1>6 DEF N

LEMMA PublishInv ==
  ASSUME Inv, Publish
  PROVE  Inv'
<1>1. PICK rows \in RowsUpdated(target, staging) :
        /\ pc = "p" /\ pc' = "done" /\ error' = "none"
        /\ target' = rows \cup NewRows(staging) /\ tlines = {} /\ tlines' = NewRows(slines)
        /\ UNCHANGED <<staging, slines, seq, lseq, history, session, crashes>>
  BY PublishFacts
<1>2. /\ rows \subseteq TargetRow /\ IsFiniteSet(rows) /\ IdsUnique(rows)
      /\ \A u \in rows : \E t \in target : UpdatedFrom(t, u)
  BY <1>1, UpdatedFacts
<1>3. /\ NewRows(staging) \subseteq TargetRow /\ IsFiniteSet(NewRows(staging))
      /\ IdsUnique(NewRows(staging))
      /\ \A n \in NewRows(staging), t \in target : t.ref # n.ref /\ t.id # n.id
      /\ \A n, o \in NewRows(staging) : n.ref = o.ref => n = o
  BY <1>1, InsertedFacts
<1>4. /\ tlines' \subseteq TargetRow /\ IdsUnique(tlines') /\ KeysUnique(tlines')
      /\ \A n \in tlines' : n.id # 0 /\ n.ref \in InSession
      /\ \A d \in InSession : PartIn(tlines', d) = LinesOf(d, history[d])
  BY <1>1, InsertedLinesFacts
<1>5. /\ \A u \in target' : /\ u.nkey = u.ref /\ u.cur
                            /\ u.ref \in InSession => u.ver = history[u.ref]
                            /\ u.ref \notin InSession => u \in target
      /\ \A d \in InSession : \E u \in target' : u.ref = d
  BY PublishedFacts
<1>6. InSession' = InSession
  BY <1>1 DEF InSession
<1>7. TypeOK' /\ error' # "duplicate_key"
  <2>1. target' \subseteq TargetRow
    BY <1>1, <1>2, <1>3
  <2> QED
    BY <1>1, <1>4, <2>1 DEF Inv, TypeOK
<1>8. RowsInv'
  <2>1. IsFiniteSet(target')
    BY <1>1, <1>2, <1>3, FS_Union
  <2>2. IdsUnique(target')
    <3>1. \A n \in NewRows(staging), u \in rows : u.id # n.id
      BY <1>2, <1>3 DEF UpdatedFrom
    <3> QED
      BY <1>1, <1>2, <1>3, <3>1 DEF IdsUnique
  <2>3. \A u, w \in target' : u.ref = w.ref => u = w
    <3>1. \A u, w \in rows : u.ref = w.ref => u = w
      <4> SUFFICES ASSUME NEW u \in rows, NEW w \in rows, u.ref = w.ref PROVE u.id = w.id
        BY <1>2 DEF IdsUnique
      <4>1. PICK t \in target : UpdatedFrom(t, u)
        BY <1>2
      <4>2. PICK v \in target : UpdatedFrom(v, w)
        BY <1>2
      <4>3. t.ref = v.ref
        BY <4>1, <4>2 DEF UpdatedFrom
      <4>4. t = v
        BY <4>3 DEF Inv, RowsInv
      <4> QED
        BY <4>1, <4>2, <4>4 DEF UpdatedFrom
    <3>2. \A n \in NewRows(staging), u \in rows : u.ref # n.ref
      BY <1>2, <1>3 DEF UpdatedFrom
    <3> QED
      BY <1>1, <1>3, <3>1, <3>2
  <2> QED
    BY <1>5, <2>1, <2>2, <2>3 DEF RowsInv
<1>9. LinesInv'
  <2>1. \A l \in tlines' : l.id # 0 /\ \E t \in target' : t.ref = l.ref
    BY <1>4, <1>5
  <2>2. \A l, m \in tlines' : l.nkey = m.nkey => l = m
    BY <1>4 DEF KeysUnique
  <2> QED
    BY <1>1, <1>4, <2>1, <2>2 DEF LinesInv
<1>10. HistoryInv'
  <2> SUFFICES ASSUME NEW u \in target', history[u.ref] # 0 PROVE u.ver <= history[u.ref]
    BY <1>1 DEF HistoryInv
  <2>1. u.ref \in Docs /\ u.ver \in Nat
    <3>1. u \in TargetRow
      BY <1>1, <1>2, <1>3
    <3> QED
      BY <3>1, SizesAssumption DEF TargetRow
  <2>2. u.ref \in InSession
    BY <2>1 DEF InSession
  <2>3. u.ver = history[u.ref]
    BY <1>5, <2>2
  <2> QED
    BY <2>1, <2>3
<1>11. StagedInv' /\ RekeyedInv' /\ StagedLinesInv'
  BY <1>1 DEF StagedInv, RekeyedInv, StagedLinesInv
<1>11a. ShownInv'
  BY <1>1, <1>5, <1>6 DEF ShownInv
<1>12. PartsMatchRow'
  <2>1. \A l \in tlines' : \E t \in target' : t.nkey = l.ref
    <3> TAKE l \in tlines'
    <3>1. PICK t \in target' : t.ref = l.ref
      BY <1>4, <1>5
    <3> QED
      BY <1>5, <3>1
  <2>2. ASSUME NEW t \in target' PROVE RowsOfPart(t.nkey)' = LinesOf(t.nkey, t.ver)
    <3>1. t.nkey = t.ref
      BY <1>5
    <3>2. RowsOfPart(t.nkey)' = PartIn(tlines', t.ref)
      BY <3>1 DEF RowsOfPart, PartIn
    <3>3. CASE t.ref \in InSession
      BY <1>4, <1>5, <3>1, <3>2, <3>3
    <3>4. CASE t.ref \notin InSession
      <4>1. t \in target
        BY <1>5, <3>4
      <4>2. RowsOfPart(t.nkey) = LinesOf(t.nkey, t.ver)
        BY <3>1, <3>4, <4>1 DEF Inv, PartsMatchRow
      <4>3. RowsOfPart(t.nkey) = {}
        BY <1>1 DEF RowsOfPart
      <4>4. {x \in tlines' : x.ref = t.ref} = {}
        BY <1>4, <3>4
      <4>5. PartIn(tlines', t.ref) = {}
        BY <4>4 DEF PartIn
      <4> QED
        BY <3>2, <4>2, <4>3, <4>5
    <3> QED
      BY <3>3, <3>4
  <2> QED
    BY <2>1, <2>2 DEF PartsMatchRow, LinesOf
<1> QED
  BY <1>7, <1>8, <1>9, <1>10, <1>11, <1>11a, <1>12 DEF Inv

(* The steps that leave the tables alone.                                    *)
LEMMA QuietInv ==
  ASSUME Inv, Close \/ Crash \/ UNCHANGED vars
  PROVE  Inv'
<1> USE DEF Inv
<1>1. /\ UNCHANGED <<tables, target, tlines, staging, slines, seq, lseq, history, session, error>>
      /\ \/ pc = "done" /\ pc' = "idle"
         \/ pc \in {"r", "p", "done"} /\ pc' = "t"
         \/ pc' = pc
  BY DEF Close, Crash, vars, tables, stage
<1>2. crashes' \in 0..MaxCrash
  <2>1. crashes \in 0..MaxCrash /\ MaxCrash \in Nat
    BY SizesAssumption DEF TypeOK
  <2>2. crashes' = crashes \/ (crashes < MaxCrash /\ crashes' = crashes + 1)
    BY DEF Close, Crash, vars
  <2> QED
    BY <2>1, <2>2
<1>3. TypeOK' /\ error' # "duplicate_key"
  BY <1>1, <1>2 DEF TypeOK
<1>4. /\ RowsInv' /\ LinesInv' /\ HistoryInv' /\ StagedInv' /\ RekeyedInv' /\ StagedLinesInv'
      /\ ShownInv'
  BY <1>1 DEF RowsInv, LinesInv, HistoryInv, StagedInv, RekeyedInv, StagedLinesInv, ShownInv,
              InSession, PartIn, LinesOf
<1>5. PartsMatchRow'
  BY <1>1 DEF PartsMatchRow, RowsOfPart, LinesOf, InSession
<1> QED
  BY <1>3, <1>4, <1>5

LEMMA NextInv == Inv /\ [Next]_vars => Inv'
BY AcceptInv, TransferInv, TransferFailsInv, RekeyInv, PublishInv, QuietInv DEF Next

LEMMA InvHolds == Spec => []Inv
<1>1. Init => Inv
  BY InitInv
<1>2. Inv /\ [Next]_vars => Inv'
  BY NextInv
<1> QED
  BY <1>1, <1>2, PTL DEF Spec

---------------------------------------------------------------------------
(* What follows from the invariant.                                          *)

(* Typing.                                                                   *)
THEOREM TypeCorrect == Spec => []TypeOK
<1>1. Inv => TypeOK
  BY DEF Inv
<1> QED
  BY <1>1, InvHolds, PTL

(* sp_<star>_p never runs into PRIMARY KEY (id) or the unique index on nkey, *)
(* however often a run was lost between two calls.                           *)
THEOREM KeysStayUniqueTheorem == Spec => []KeysStayUnique
<1>1. Inv => KeysStayUnique
  <2> SUFFICES ASSUME Inv PROVE KeysStayUnique
    OBVIOUS
  <2>1. KeysUnique(target)
    BY DEF Inv, RowsInv, KeysUnique, IdsUnique
  <2>2. KeysUnique(tlines)
    BY DEF Inv, LinesInv, KeysUnique, IdsUnique
  <2> QED
    BY <2>1, <2>2 DEF KeysStayUnique, Inv
<1> QED
  BY <1>1, InvHolds, PTL

(* The table part of a document is that of the version shown, or is missing  *)
(* while its session waits for sp_<star>_p.                                  *)
THEOREM PartsMatchRowTheorem == Spec => []PartsMatchRow
<1>1. Inv => PartsMatchRow
  BY DEF Inv
<1> QED
  BY <1>1, InvHolds, PTL

(* A row keeps its surrogate and its natural key, is never closed, and never *)
(* goes back to an older version.                                            *)
THEOREM SurrogateKeysAreStableTheorem == Spec => SurrogateKeysAreStable
<1> DEFINE Kept == \A t \in target : \E u \in target' :
                     u.id = t.id /\ u.nkey = t.nkey /\ u.cur /\ u.ver >= t.ver
<1>1. Inv /\ [Next]_vars => [Kept]_vars
  <2> SUFFICES ASSUME Inv, Next, NEW t \in target
               PROVE  \E u \in target' : u.id = t.id /\ u.nkey = t.nkey /\ u.cur /\ u.ver >= t.ver
    BY DEF Kept
  <2>1. t.cur /\ t.ver \in Nat /\ t.ref \in Docs
    <3>1. t \in TargetRow
      BY DEF Inv, TypeOK
    <3> QED
      BY <3>1, SizesAssumption DEF Inv, RowsInv, TargetRow
  <2>2. CASE Publish
    <3>1. PICK u \in target' : UpdatedFrom(t, u)
      BY <2>2, PublishedFacts
    <3>2. CASE u = t
      BY <2>1, <3>1, <3>2 DEF UpdatedFrom
    <3>3. CASE t.ref \in InSession /\ u.ver = history[t.ref]
      <4>1. history[t.ref] # 0 /\ history[t.ref] \in Nat
        <5>1. history[t.ref] \in 1..MaxVer
          BY <3>3, SessionFacts DEF Inv
        <5> QED
          BY <5>1, SizesAssumption
      <4>2. t.ver <= u.ver
        BY <3>3, <4>1 DEF Inv, HistoryInv
      <4> QED
        BY <2>1, <3>1, <3>3, <4>1, <4>2 DEF UpdatedFrom
    <3> QED
      BY <3>1, <3>2, <3>3 DEF UpdatedFrom
  <2>3. CASE target' = target
    BY <2>1, <2>3
  <2>4. ASSUME ~Publish PROVE target' = target
    BY <2>4 DEF Next, Accept, Transfer, TransferFails, Rekey, Close, Crash, tables
  <2> QED
    BY <2>2, <2>3, <2>4
<1>2. Spec => []Inv
  BY InvHolds
<1> QED
  BY <1>1, <1>2, PTL DEF Spec, SurrogateKeysAreStable

---------------------------------------------------------------------------
(* The procedures keep the promise of Warehouse to the reader.               *)

(* Outside the publication of a session every document shows the part of its *)
(* version.                                                                  *)
LEMMA WholeParts ==
  ASSUME Inv, pc \in {"idle", "done"}
  PROVE  partsMap = shownMap
<1>1. ASSUME NEW d \in Docs PROVE partsMap[d] = shownMap[d]
  <2>1. CASE \E t \in target : t.ref = d
    <3>1. PICK t \in target : t.ref = d
      BY <2>1
    <3>2. VersionOf(d) = t.ver /\ t.nkey = d
      BY <3>1, VersionFacts DEF Inv, RowsInv
    <3>3. RowsOfPart(d) = LinesOf(d, t.ver)
      BY <3>2 DEF Inv, PartsMatchRow
    <3> QED
      BY <3>2, <3>3 DEF partsMap, shownMap
  <2>2. CASE \A t \in target : t.ref # d
    <3>1. VersionOf(d) = 0
      BY <2>2, VersionFacts DEF Inv
    <3> QED
      BY <3>1 DEF partsMap, shownMap
  <2> QED
    BY <2>1, <2>2
<1> QED
  BY <1>1 DEF partsMap, shownMap

(* Once published, a document of the session shows its version, and the      *)
(* others show what they did.                                                *)
LEMMA PublishedVersions ==
  ASSUME Inv, Publish, NEW d \in Docs
  PROVE  VersionOf(d)' = IF d \in InSession THEN history[d] ELSE VersionOf(d)
<1>1. /\ \A t \in target : \E u \in target' : UpdatedFrom(t, u)
      /\ \A u \in target' : /\ u.nkey = u.ref
                            /\ u.ref \in InSession => u.ver = history[u.ref]
                            /\ u.ref \notin InSession => u \in target
      /\ \A x \in InSession : \E u \in target' : u.ref = x
  BY PublishedFacts
<1>2. RowsInv'
  BY PublishInv DEF Inv
<1>3. \A u \in target' : u.nkey = d => VersionOf(d)' = u.ver
  <2> SUFFICES ASSUME NEW u \in target', u.nkey = d PROVE VersionOf(d)' = u.ver
    OBVIOUS
  <2>1. \A w \in target' : w.nkey = d => w = u
    BY <1>1, <1>2 DEF RowsInv
  <2> QED
    BY <2>1 DEF VersionOf
<1>4. CASE d \in InSession
  BY <1>1, <1>3, <1>4
<1>5. CASE d \notin InSession
  <2>1. CASE \E t \in target : t.ref = d
    <3>1. PICK t \in target : t.ref = d
      BY <2>1
    <3>2. t \in target'
      BY <1>1, <1>5, <3>1 DEF UpdatedFrom
    <3> QED
      BY <1>1, <1>3, <1>5, <3>1, <3>2, VersionFacts DEF Inv
  <2>2. CASE \A t \in target : t.ref # d
    <3>1. \A u \in target' : u.nkey # d
      BY <1>1, <1>5, <2>2
    <3>2. VersionOf(d)' = 0
      BY <3>1 DEF VersionOf
    <3> QED
      BY <1>5, <2>2, <3>2, VersionFacts DEF Inv
  <2> QED
    BY <2>1, <2>2
<1> QED
  BY <1>4, <1>5

(* Sessions are applied one at a time and entirely, in one step: what the    *)
(* three procedures and the failures between them do implements Warehouse.   *)
THEOREM PromiseToReaderTheorem == Spec => PromiseToReader
<1> DEFINE Whole == pc \in {"idle", "done"} => partsMap = shownMap
<1>1. Init => W!Init
  BY DEF Init, W!Init, shownMap, partsMap, VersionOf
<1>2. Inv /\ Whole' /\ [Next]_vars => [W!Next]_(W!wvars)
  <2> SUFFICES ASSUME Inv, Whole', [Next]_vars PROVE [W!Next]_(W!wvars)
    OBVIOUS
  <2>0. Whole'
    OBVIOUS
  <2>2. ASSUME UNCHANGED tables PROVE shownMap' = shownMap /\ partsMap' = partsMap
    BY <2>2 DEF tables, shownMap, partsMap, VersionOf, RowsOfPart, LinesOf
  <2>3. CASE Accept
    <3>1. pc = "idle" /\ pc' = "t" /\ UNCHANGED tables
      BY <2>3 DEF Accept
    <3>2. /\ history' \in [Docs -> 0..MaxVer]
          /\ \A d \in Docs : history'[d] # 0 => history'[d] > shownMap[d]
      BY <2>3 DEF Accept, shownMap
    <3> QED
      BY <2>2, <3>1, <3>2 DEF W!Next, W!Accept, W!Versions
  <2>4. CASE Close
    <3>1. pc = "done" /\ pc' = "idle" /\ UNCHANGED <<tables, history>>
      BY <2>4 DEF Close
    <3>2. ASSUME NEW d \in Docs, history[d] # 0
          PROVE  shownMap[d] = history[d] /\ partsMap[d] = history[d]
      <4>1. PICK t \in target : t.ref = d /\ t.ver = history[d]
        BY <3>1, <3>2 DEF Inv, ShownInv, InSession
      <4>2. VersionOf(d) = history[d]
        BY <4>1, VersionFacts DEF Inv
      <4> QED
        BY <3>1, <4>2, WholeParts DEF shownMap
    <3> QED
      BY <2>2, <3>1, <3>2 DEF W!Next, W!Close, W!InBatch
  <2>5. CASE Publish
    <3>1. pc = "p" /\ pc' = "done" /\ history' = history
      BY <2>5, PublishFacts
    <3>2. shownMap' = [d \in Docs |-> IF d \in InSession THEN history[d] ELSE shownMap[d]]
      BY <2>5, PublishedVersions DEF shownMap
    <3>3. partsMap' = shownMap'
      BY <3>1, <2>0 DEF Whole
    <3>4. W!InBatch = InSession
      BY DEF W!InBatch, InSession
    <3>5. partsMap' = [d \in Docs |-> IF d \in {} THEN 0 ELSE shownMap'[d]]
      BY <3>3 DEF shownMap
    <3>6. W!Apply
      <4> DEFINE D == W!InBatch
      <4>1. shownMap' = [d \in Docs |-> IF d \in D THEN history[d] ELSE shownMap[d]]
        BY <3>2, <3>4
      <4>2. D \in SUBSET W!InBatch /\ {} \in SUBSET W!InBatch
        OBVIOUS
      <4>3. (pc' # "idle") = (pc # "idle") /\ pc # "idle"
        BY <3>1
      <4> HIDE DEF D
      <4> QED
        BY <3>1, <3>5, <4>1, <4>2, <4>3 DEF W!Apply
    <3> QED
      BY <3>6 DEF W!Next
  <2>6. CASE Transfer \/ TransferFails \/ Rekey \/ Crash
    <3>1. /\ pc # "idle" /\ pc' # "idle" /\ UNCHANGED <<tables, history>>
      BY <2>6 DEF Transfer, TransferFails, Rekey, Crash, tables, Inv, LinesInv, WithoutLinesOf
    <3> QED
      BY <2>2, <3>1 DEF W!wvars
  <2>7. CASE UNCHANGED vars
    BY <2>2, <2>7 DEF vars, W!wvars
  <2> QED
    BY <2>3, <2>4, <2>5, <2>6, <2>7 DEF Next
<1>3. Inv => Whole
  BY WholeParts
<1>4. Spec => []Inv
  BY InvHolds
<1> HIDE DEF Whole
<1> QED
  BY <1>1, <1>2, <1>3, <1>4, PTL DEF Spec, PromiseToReader, W!Spec
============================================================================
