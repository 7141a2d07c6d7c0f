---------------------- MODULE StarPublishMssqlProofs ----------------------
(***************************************************************************)
(* Proofs about StarPublishMssql, for every set of documents, every number  *)
(* of lines in each version, any documents packed twice beside the others,  *)
(* any number of sessions, and failures between any two statements.         *)
(***************************************************************************)
EXTENDS StarPublishMssql, StarTablesProofs

---------------------------------------------------------------------------
(* The inductive invariant, in named parts.                                  *)

(* Surrogate keys are unique; a document packed once has one row, current.   *)
RowsInv ==
  /\ IsFiniteSet(target) /\ IdsUnique(target)
  /\ \A t \in target : t.nkey = t.ref /\ (t.ref \in Single => t.cur)
  /\ \A t, u \in target : t.ref \in Single /\ t.ref = u.ref => t = u

LinesInv ==
  /\ IsFiniteSet(tlines) /\ IdsUnique(tlines)
  /\ \A l \in tlines : l.nkey \in {l.ref} \X Nat
  /\ \A l, m \in tlines : l.ref \in Single /\ l.nkey = m.nkey => l = m

(* The session holds a document of Single once, not older than its row.      *)
HistoryInv ==
  /\ IsFiniteSet(history)
  /\ \A h \in history : h.nkey = h.ref
  /\ \A g, h \in history : g.ref \in Single /\ g.ref = h.ref => g = h
  /\ \A h \in history, t \in target : h.ref \in Single /\ t.ref = h.ref => t.ver <= h.ver

(* Staging holds the session, under numbers above all ids of target.         *)
StagedInv ==
  pc \in {"rekey", "update_rows", "insert_rows"} =>
    /\ IsFiniteSet(staging) /\ SidsUnique(staging)
    /\ \A s \in staging : s.nkey = s.ref /\ s.sid # 0
    /\ \A s \in staging, t \in target : t.id < s.sid
    /\ \A s, u \in staging : s.ref \in Single /\ s.ref = u.ref => s = u
    /\ \A s \in staging : \E h \in history :
         s.ref = h.ref /\ (s.ref \in Single => s.ver = h.ver /\ s.cur)
    /\ \A h \in history : \E s \in staging : s.ref = h.ref

(* After the transfer, no number given so far is above seq.                  *)
SeqInv ==
  pc = "rekey" =>
    /\ \A t \in target : t.id <= seq
    /\ \A s \in staging : s.sid <= seq

(* After the rekeying a staged row has the id of a row of its document, or   *)
(* its own number when the document has no row.                              *)
RekeyedInv ==
  pc \in {"update_rows", "insert_rows"} =>
    \A s \in staging :
      /\ s.id = s.sid \/ \E t \in target : t.id = s.id
      /\ \A t \in target : t.id = s.id => t.nkey = s.nkey
      /\ s.ref \in Single /\ s.id = s.sid => \A t \in target : t.ref # s.ref

(* Rows are updated first, and inserted then.                                *)
AppliedInv ==
  /\ pc = "insert_rows" =>
       \A s \in staging, t \in target : s.ref \in Single /\ s.ref = t.ref => t.ver = s.ver
  /\ pc \in {"update_lines", "insert_lines", "done"} =>
       \A h \in history : h.ref \in Single => \E t \in target : t.ref = h.ref /\ t.ver = h.ver

(* The session holds the document of h in one row.                           *)
Once(h) == \A g \in history : g.ref = h.ref => g = h

(* The staged table part of such a document is that of the session's version.*)
StagedLinesInv ==
  pc \in {"rekey", "update_rows", "insert_rows", "update_lines", "insert_lines"} =>
    /\ IsFiniteSet(slines) /\ SidsUnique(slines)
    /\ \A s \in slines : s.nkey \in {s.ref} \X Nat /\ s.sid # 0
    /\ \A s \in slines, l \in tlines : l.id < s.sid
    /\ \A s, u \in slines : s.ref \in Single /\ s.nkey = u.nkey => s = u
    /\ \A s \in slines : \E h \in history : h.ref = s.ref
    /\ \A h \in history : Once(h) => PartIn(slines, h.ref) = LinesOf(h.ref, h.ver)

(* Once rekeyed, it has its own numbers, and the old rows are gone.          *)
LinesGoneInv ==
  pc \in {"update_rows", "insert_rows", "update_lines", "insert_lines"} =>
    /\ \A s \in slines : s.id = s.sid
    /\ \A h \in history, l \in tlines : l.ref # h.ref

Inv ==
  /\ TypeOK
  /\ RowsInv /\ LinesInv /\ HistoryInv
  /\ StagedInv /\ SeqInv /\ RekeyedInv /\ AppliedInv
  /\ StagedLinesInv /\ LinesGoneInv
  /\ PartsMatchRow

---------------------------------------------------------------------------
(* The version of a document.                                                *)

LEMMA NewestFacts ==
  /\ \A v \in Nat : Newest({v}) = v
  /\ Newest({}) = 0
<1>1. ASSUME NEW v \in Nat PROVE Newest({v}) = v
  <2> DEFINE P(x) == x \in {v} \cup {0} /\ \A w \in {v} : w <= x
  <2>1. P(v)
    OBVIOUS
  <2>2. Newest({v}) = CHOOSE x : P(x)
    BY DEF Newest
  <2>3. P(Newest({v}))
    BY <2>1, <2>2
  <2> QED
    BY <2>3
<1>2. Newest({}) = 0
  BY DEF Newest
<1> QED
  BY <1>1, <1>2

(* For a document with one row in T, and for one without.                    *)
LEMMA VersionIn ==
  ASSUME NEW T, T \subseteq TargetRow, \A t \in T : t.nkey = t.ref,
         NEW d \in Docs, \A t, u \in T : t.ref = d /\ u.ref = d => t = u
  PROVE  LET v == Newest({t.ver : t \in {x \in T : x.nkey = d}})
         IN /\ \A t \in T : t.ref = d => v = t.ver
            /\ (\A t \in T : t.ref # d) => v = 0
<1> DEFINE V == {t.ver : t \in {x \in T : x.nkey = d}}
<1>1. ASSUME NEW t \in T, t.ref = d PROVE Newest(V) = t.ver
  <2>1. V = {t.ver} /\ t.ver \in Nat
    BY <1>1, SizesAssumption DEF TargetRow
  <2> QED
    BY <2>1, NewestFacts
<1>2. ASSUME \A t \in T : t.ref # d PROVE Newest(V) = 0
  <2>1. V = {}
    BY <1>2
  <2> QED
    BY <2>1, NewestFacts
<1> QED
  BY <1>1, <1>2

LEMMA VersionFacts ==
  ASSUME NEW d \in Docs, target \subseteq TargetRow, \A t \in target : t.nkey = t.ref,
         \A t, u \in target : t.ref = d /\ u.ref = d => t = u
  PROVE  /\ \A t \in target : t.ref = d => VersionOf(d) = t.ver
         /\ (\A t \in target : t.ref # d) => VersionOf(d) = 0
BY VersionIn DEF VersionOf

---------------------------------------------------------------------------
(* Rows of table parts.                                                      *)

LEMMA LinesOfFacts ==
  ASSUME NEW d \in Docs, NEW v \in 1..MaxVer
  PROVE  /\ IsFiniteSet(LinesOf(d, v))
         /\ \A l \in LinesOf(d, v) :
              /\ l.nkey \in {d} \X Nat /\ l.ref = d /\ l.ver = v
              /\ l = [nkey |-> l.nkey, ref |-> l.ref, ver |-> l.ver]
         /\ \A l, m \in LinesOf(d, v) : l.nkey = m.nkey => l = m
<1> DEFINE n == LineCount[d][v]
           row(i) == [nkey |-> <<d, i>>, ref |-> d, ver |-> v]
           L == LinesOf(d, v)
<1>1. n \in Nat
  BY SizesAssumption
<1>2. L = {row(i) : i \in 1..n}
  BY DEF LinesOf
<1>3. IsFiniteSet(L)
  <2> DEFINE g == [i \in 1..n |-> row(i)]
  <2>1. g \in [1..n -> L] /\ \A l \in L : \E i \in 1..n : g[i] = l
    BY <1>2
  <2>2. IsFiniteSet(1..n)
    BY <1>1, FS_Interval
  <2> HIDE DEF g, n
  <2> QED
    BY <2>1, <2>2, ImageFinite
<1>4. 1..n \subseteq Nat
  BY <1>1
<1> QED
  BY <1>2, <1>3, <1>4

(* The lines of the session.                                                 *)
LEMMA HistoryLinesFacts ==
  ASSUME history \subseteq HistoryRow, HistoryInv
  PROVE  /\ IsFiniteSet(HistoryLines)
         /\ \A l \in HistoryLines :
              /\ l.nkey \in {l.ref} \X Nat /\ l.nkey \in Keys /\ l.ref \in Docs
              /\ l.ver \in 1..MaxVer
              /\ \E h \in history : h.ref = l.ref
         /\ \A l, m \in HistoryLines : l.ref \in Single /\ l.nkey = m.nkey => l = m
         /\ \A h \in history :
              Once(h) => PartIn(HistoryLines, h.ref) = LinesOf(h.ref, h.ver)
<1> DEFINE row(l, h) == [nkey |-> l.nkey, ref |-> l.ref, ver |-> l.ver, copy |-> h.copy]
           part(h) == {row(l, h) : l \in LinesOf(h.nkey, h.ver)}
           P == {part(h) : h \in history}
<1>1. HistoryLines = UNION P
  BY DEF HistoryLines
<1>2. \A h \in history : /\ h.nkey = h.ref /\ h.nkey \in Docs /\ h.ver \in 1..MaxVer
  BY DEF HistoryRow, HistoryInv
<1>3. IsFiniteSet(HistoryLines)
  <2>1. ASSUME NEW h \in history PROVE IsFiniteSet(part(h))
    <3> DEFINE L == LinesOf(h.nkey, h.ver)
               Q == part(h)
               g == [l \in L |-> row(l, h)]
    <3>1. g \in [L -> Q] /\ \A q \in Q : \E l \in L : g[l] = q
      OBVIOUS
    <3>2. IsFiniteSet(L)
      BY <1>2, LinesOfFacts
    <3> HIDE DEF g, L, Q
    <3>3. IsFiniteSet(Q)
      BY <3>1, <3>2, ImageFinite
    <3> QED
      BY <3>3 DEF Q
  <2>2. IsFiniteSet(P)
    <3> DEFINE g == [h \in history |-> part(h)]
    <3>1. g \in [history -> P] /\ \A q \in P : \E h \in history : g[h] = q
      OBVIOUS
    <3>2. IsFiniteSet(history)
      BY DEF HistoryInv
    <3> HIDE DEF g, P
    <3> QED
      BY <3>1, <3>2, ImageFinite
  <2> QED
    BY <1>1, <2>1, <2>2, FS_UNION
<1>4. ASSUME NEW l \in HistoryLines
      PROVE  \E h \in history : \E o \in LinesOf(h.ref, h.ver) :
               /\ l.nkey = o.nkey /\ l.ref = o.ref /\ l.ver = o.ver /\ l.ref = h.ref
               /\ l.ver = h.ver /\ l.nkey \in {l.ref} \X Nat /\ l = row(o, h)
  <2>1. PICK h \in history : l \in part(h)
    BY <1>1
  <2>2. PICK o \in LinesOf(h.nkey, h.ver) : l = row(o, h)
    BY <2>1
  <2> QED
    BY <1>2, <2>2, LinesOfFacts
<1>5. ASSUME NEW h \in history, NEW o \in LinesOf(h.ref, h.ver)
      PROVE  \E l \in HistoryLines : l.nkey = o.nkey /\ l.ref = o.ref /\ l.ver = o.ver
  <2>1. row(o, h) \in part(h) /\ part(h) \in P
    BY <1>2
  <2>2. row(o, h).nkey = o.nkey /\ row(o, h).ref = o.ref /\ row(o, h).ver = o.ver
    OBVIOUS
  <2> HIDE DEF row, part, P
  <2>3. row(o, h) \in HistoryLines
    BY <1>1, <2>1
  <2> QED
    BY <2>2, <2>3
<1> HIDE DEF row
<1>6. \A l, m \in HistoryLines : l.ref \in Single /\ l.nkey = m.nkey => l = m
  <2> SUFFICES ASSUME NEW l \in HistoryLines, NEW m \in HistoryLines, l.ref \in Single,
                      l.nkey = m.nkey
               PROVE  l = m
    OBVIOUS
  <2>1. PICK g \in history : \E o \in LinesOf(g.ref, g.ver) :
          l.nkey = o.nkey /\ l.ref = g.ref /\ l.nkey \in {l.ref} \X Nat /\ l = row(o, g)
    BY <1>4
  <2>2. PICK h \in history : \E q \in LinesOf(h.ref, h.ver) :
          m.nkey = q.nkey /\ m.ref = h.ref /\ m.nkey \in {m.ref} \X Nat /\ m = row(q, h)
    BY <1>4
  <2>3. l.ref = m.ref
    BY <2>1, <2>2
  <2>4. g = h
    BY <2>1, <2>2, <2>3 DEF HistoryInv
  <2>5. PICK o \in LinesOf(g.ref, g.ver) : l.nkey = o.nkey /\ l = row(o, g)
    BY <2>1
  <2>6. PICK q \in LinesOf(g.ref, g.ver) : m.nkey = q.nkey /\ m = row(q, g)
    BY <2>2, <2>4
  <2>7. \A a, b \in LinesOf(g.ref, g.ver) : a.nkey = b.nkey => a = b
    <3>1. g.ref \in Docs /\ g.ver \in 1..MaxVer
      BY <1>2
    <3> QED
      BY <3>1, LinesOfFacts
  <2>8. o = q
    BY <2>5, <2>6, <2>7
  <2> QED
    BY <2>5, <2>6, <2>8
<1>7. ASSUME NEW h \in history, Once(h)
      PROVE  PartIn(HistoryLines, h.ref) = LinesOf(h.ref, h.ver)
  <2>1. ASSUME NEW x \in PartIn(HistoryLines, h.ref) PROVE x \in LinesOf(h.ref, h.ver)
    <3>1. PICK l \in HistoryLines : l.ref = h.ref /\ x = [nkey |-> l.nkey, ref |-> l.ref, ver |-> l.ver]
      BY DEF PartIn
    <3>2. PICK g \in history : \E o \in LinesOf(g.ref, g.ver) :
            l.nkey = o.nkey /\ l.ref = o.ref /\ l.ver = o.ver /\ l.ref = g.ref
      BY <1>4
    <3>3. g = h
      BY <1>7, <3>1, <3>2 DEF Once
    <3>4. PICK o \in LinesOf(h.ref, h.ver) :
            l.nkey = o.nkey /\ l.ref = o.ref /\ l.ver = o.ver
      BY <3>2, <3>3
    <3>5. o = [nkey |-> o.nkey, ref |-> o.ref, ver |-> o.ver]
      BY <1>2, LinesOfFacts
    <3> QED
      BY <3>1, <3>4, <3>5
  <2>2. ASSUME NEW o \in LinesOf(h.ref, h.ver) PROVE o \in PartIn(HistoryLines, h.ref)
    <3>1. PICK l \in HistoryLines : l.nkey = o.nkey /\ l.ref = o.ref /\ l.ver = o.ver
      BY <1>5
    <3>2. o.ref = h.ref /\ o = [nkey |-> o.nkey, ref |-> o.ref, ver |-> o.ver]
      BY <1>2, LinesOfFacts
    <3> QED
      BY <3>1, <3>2 DEF PartIn
  <2> QED
    BY <2>1, <2>2
<1>8. \A l \in HistoryLines :
        /\ l.nkey \in {l.ref} \X Nat /\ l.nkey \in Keys /\ l.ref \in Docs
        /\ l.ver \in 1..MaxVer
        /\ \E h \in history : h.ref = l.ref
  BY <1>2, <1>4 DEF Keys
<1> QED
  BY <1>3, <1>6, <1>7, <1>8

---------------------------------------------------------------------------
(* The invariant holds at first, and every step keeps it.                    *)

LEMMA InitInv == Init => Inv
<1> SUFFICES ASSUME Init PROVE Inv
  OBVIOUS
<1> USE DEF Init
<1>1. TypeOK
  BY SizesAssumption DEF TypeOK, Steps
<1>2. RowsInv /\ LinesInv /\ HistoryInv
  BY FS_EmptySet DEF RowsInv, LinesInv, HistoryInv, IdsUnique
<1>3. StagedInv /\ SeqInv /\ RekeyedInv /\ AppliedInv /\ StagedLinesInv /\ LinesGoneInv
  BY DEF StagedInv, SeqInv, RekeyedInv, AppliedInv, StagedLinesInv, LinesGoneInv
<1>4. PartsMatchRow
  <2> SUFFICES ASSUME NEW d \in Single PROVE RowsOfPart(d) = {} /\ VersionOf(d) = 0
    BY DEF PartsMatchRow
  <2>1. VersionOf(d) = Newest({})
    <3>1. {t.ver : t \in {x \in target : x.nkey = d}} = {}
      OBVIOUS
    <3> QED
      BY <3>1 DEF VersionOf
  <2> QED
    BY <2>1, NewestFacts DEF RowsOfPart
<1> QED
  BY <1>1, <1>2, <1>3, <1>4 DEF Inv

(* What a reader sees of a document depends on the tables alone.             *)
LEMMA SameTables ==
  ASSUME NEW d, UNCHANGED tables
  PROVE  VersionOf(d)' = VersionOf(d) /\ RowsOfPart(d)' = RowsOfPart(d)
BY DEF tables, VersionOf, RowsOfPart

LEMMA PackingsFacts ==
  ASSUME NEW d \in Docs, NEW P \in Packings(d)
  PROVE  /\ P \subseteq HistoryRow /\ IsFiniteSet(P)
         /\ \A h \in P : h.nkey = d /\ h.ref = d /\ h.ver > VersionOf(d)
         /\ d \in Single => \A g, h \in P : g = h
<1> DEFINE once(v) == [nkey |-> d, ref |-> d, ver |-> v, copy |-> 1]
           again(v) == [nkey |-> d, ref |-> d, ver |-> v, copy |-> 2]
           newer == {v \in 1..MaxVer : v > VersionOf(d)}
<1>1. \A v \in newer :
        /\ once(v) \in HistoryRow /\ again(v) \in HistoryRow
        /\ once(v).nkey = d /\ once(v).ref = d /\ once(v).ver > VersionOf(d)
        /\ again(v).nkey = d /\ again(v).ref = d /\ again(v).ver > VersionOf(d)
  BY DEF HistoryRow
<1>5. \/ P = {}
      \/ \E v \in newer : P = {once(v)}
      \/ d \in Doubled /\ \E v \in newer : \E w \in newer : P = {once(v), again(w)}
  BY DEF Packings
<1> HIDE DEF once, again, newer
<1>2. CASE P = {}
  BY <1>2, FS_EmptySet
<1>3. CASE \E v \in newer : P = {once(v)}
  BY <1>1, <1>3, FS_Singleton
<1>4. CASE d \in Doubled /\ \E v \in newer : \E w \in newer : P = {once(v), again(w)}
  <2>1. PICK v \in newer : \E w \in newer : P = {once(v), again(w)}
    BY <1>4
  <2>2. PICK w \in newer : P = {once(v)} \cup {again(w)}
    BY <2>1
  <2>3. IsFiniteSet(P)
    BY <2>2, FS_Singleton, FS_Union
  <2> QED
    BY <1>1, <1>4, <2>2, <2>3 DEF Single
<1> QED
  BY <1>2, <1>3, <1>4, <1>5

LEMMA AcceptInv ==
  ASSUME Inv, Accept
  PROVE  Inv'
<1> USE DEF Inv
<1>1. /\ pc = "idle" /\ pc' = "transfer" /\ UNCHANGED <<tables, stage, crashes>>
      /\ UNCHANGED <<target, tlines, staging, slines, seq>>
      /\ session' \in 0..MaxSession
  BY SizesAssumption DEF Accept, tables, stage, TypeOK
<1>2. PICK c \in [Docs -> UNION {Packings(d) : d \in Docs}] :
        /\ \A d \in Docs : c[d] \in Packings(d)
        /\ history' = UNION {c[d] : d \in Docs}
  BY DEF Accept
<1>3. \A h \in history' : \E d \in Docs : h \in c[d]
  BY <1>2
<1>4. \A h \in history' : /\ h \in HistoryRow /\ h.nkey = h.ref
                          /\ h.ver > VersionOf(h.ref) /\ h \in c[h.ref]
  BY <1>2, <1>3, PackingsFacts
<1>5. TypeOK'
  BY <1>1, <1>4 DEF TypeOK, Steps
<1>6. HistoryInv'
  <2>1. IsFiniteSet(history')
    <3> DEFINE C == {c[d] : d \in Docs}
    <3>1. IsFiniteSet(Docs)
      BY SizesAssumption
    <3>2. IsFiniteSet(C)
      <4>1. c \in [Docs -> C] /\ \A q \in C : \E d \in Docs : c[d] = q
        BY <1>2
      <4> HIDE DEF C
      <4> QED
        BY <3>1, <4>1, ImageFinite
    <3>3. \A q \in C : IsFiniteSet(q)
      BY <1>2, PackingsFacts
    <3> HIDE DEF C
    <3>4. IsFiniteSet(UNION C)
      BY <3>2, <3>3, FS_UNION
    <3> QED
      BY <1>2, <3>4 DEF C
  <2>2. \A g, h \in history' : g.ref \in Single /\ g.ref = h.ref => g = h
    <3> SUFFICES ASSUME NEW g \in history', NEW h \in history', g.ref \in Single, g.ref = h.ref
                 PROVE  g = h
      OBVIOUS
    <3>1. g \in c[g.ref] /\ h \in c[g.ref] /\ g.ref \in Docs
      BY <1>4 DEF Single
    <3> QED
      BY <1>2, <3>1, PackingsFacts
  <2>3. ASSUME NEW h \in history', NEW t \in target', h.ref \in Single, t.ref = h.ref
        PROVE  t.ver <= h.ver
    <3>1. VersionOf(h.ref) = t.ver
      BY <1>1, <2>3, VersionFacts DEF RowsInv, TypeOK, Single
    <3> QED
      BY <1>1, <1>4, <2>3, <3>1 DEF TypeOK, TargetRow, HistoryRow
  <2> QED
    BY <1>4, <2>1, <2>2, <2>3 DEF HistoryInv
<1>7. RowsInv' /\ LinesInv'
  BY <1>1 DEF RowsInv, LinesInv
<1>8. StagedInv' /\ SeqInv' /\ RekeyedInv' /\ AppliedInv' /\ StagedLinesInv' /\ LinesGoneInv'
  BY <1>1 DEF StagedInv, SeqInv, RekeyedInv, AppliedInv, StagedLinesInv, LinesGoneInv
<1>9. PartsMatchRow'
  <2> SUFFICES ASSUME NEW d \in Single
               PROVE  \/ RowsOfPart(d)' = {} /\ VersionOf(d)' = 0
                      \/ VersionOf(d)' # 0 /\ RowsOfPart(d)' = LinesOf(d, VersionOf(d)')
    BY DEF PartsMatchRow, LinesOf
  <2> QED
    BY <1>1, SameTables DEF PartsMatchRow
<1> QED
  BY <1>5, <1>6, <1>7, <1>8, <1>9

(* A step within a session that leaves target alone.                         *)
LEMMA SamePartsMatch ==
  ASSUME PartsMatchRow, UNCHANGED <<tables, history>>, pc' \notin {"idle", "done"}
  PROVE  PartsMatchRow'
<1> SUFFICES ASSUME NEW d \in Single
             PROVE  \/ RowsOfPart(d)' = {} /\ VersionOf(d)' = 0
                    \/ VersionOf(d)' # 0 /\ RowsOfPart(d)' = LinesOf(d, VersionOf(d)')
                    \/ RowsOfPart(d)' = {} /\ d \in InSession'
  BY DEF PartsMatchRow, LinesOf
<1>1. InSession' = InSession
  BY DEF InSession, RowsOf
<1> QED
  BY <1>1, SameTables DEF PartsMatchRow

LEMMA TransferInv ==
  ASSUME Inv, Transfer
  PROVE  Inv'
<1> USE DEF Inv
<1> DEFINE Ver == 1..MaxVer
           H == HistoryLines
<1>1. /\ pc' = "rekey" /\ UNCHANGED <<tables, history, session, crashes>>
      /\ UNCHANGED <<target, tlines>>
  BY DEF Transfer, tables
<1>2. PICK m \in Nat :
        /\ \A t \in target : t.id <= m
        /\ \E f \in Numberings(history, m) : staging' = StagedRows(history, f)
        /\ seq' = m + Cardinality(history)
  BY LastIdFacts DEF Transfer, StartFrom, TypeOK, TargetRow
<1>2a. PICK f \in Numberings(history, m) : staging' = StagedRows(history, f)
  BY <1>2
<1>3. PICK n \in Nat :
        /\ \A l \in tlines : l.id <= n
        /\ \E g \in Numberings(H, n) : slines' = StagedRows(H, g)
  BY LastIdFacts DEF Transfer, StartFrom, TypeOK, TargetRow
<1>3a. PICK g \in Numberings(H, n) : slines' = StagedRows(H, g)
  BY <1>3
<1>4. /\ IsFiniteSet(history) /\ Cardinality(history) \in Nat
      /\ \A h \in history : h.nkey \in Keys /\ h.ref \in Docs /\ h.ver \in Ver /\ h.nkey = h.ref
  BY FS_CardinalityType DEF HistoryInv, TypeOK, HistoryRow, Keys
<1>5. /\ IsFiniteSet(staging') /\ SidsUnique(staging')
      /\ \A s \in staging' :
           /\ s.sid \in Nat /\ s.sid > m /\ s.sid <= m + Cardinality(history) /\ s.cur
           /\ \E h \in history : s.nkey = h.nkey /\ s.ref = h.ref /\ s.ver = h.ver /\ s.sid = f[h]
      /\ \A h \in history : \E s \in staging' : s.nkey = h.nkey /\ s.ref = h.ref /\ s.ver = h.ver
  BY <1>2a, <1>4, StagedRowsFacts
<1>6. /\ IsFiniteSet(H)
      /\ \A l \in H : /\ l.nkey \in {l.ref} \X Nat /\ l.nkey \in Keys /\ l.ref \in Docs
                      /\ l.ver \in Ver /\ \E h \in history : h.ref = l.ref
      /\ \A l, k \in H : l.ref \in Single /\ l.nkey = k.nkey => l = k
      /\ \A h \in history : Once(h) => PartIn(H, h.ref) = LinesOf(h.ref, h.ver)
  BY HistoryLinesFacts DEF TypeOK
<1> HIDE DEF H, Ver
<1>7. /\ IsFiniteSet(slines') /\ SidsUnique(slines')
      /\ \A s \in slines' :
           /\ s.sid \in Nat /\ s.sid > n /\ s.sid <= n + Cardinality(H) /\ s.cur
           /\ \E l \in H : s.nkey = l.nkey /\ s.ref = l.ref /\ s.ver = l.ver /\ s.sid = g[l]
      /\ \A l \in H : \E s \in slines' : s.nkey = l.nkey /\ s.ref = l.ref /\ s.ver = l.ver
  BY <1>3a, <1>6, StagedRowsFacts
<1>8. TypeOK'
  <2>1. staging' \subseteq StageRow
    BY <1>2a, <1>4, StagedRowsType DEF StageRow, StageRows, Ver
  <2>2. slines' \subseteq StageRow
    BY <1>3a, <1>6, StagedRowsType DEF StageRow, StageRows, Ver
  <2>3. seq' \in Nat
    BY <1>2, <1>4
  <2> QED
    BY <1>1, <2>1, <2>2, <2>3 DEF TypeOK, Steps
<1>9. RowsInv' /\ LinesInv' /\ HistoryInv' /\ PartsMatchRow'
  BY <1>1, SamePartsMatch DEF RowsInv, LinesInv, HistoryInv, Single
<1>10. StagedInv'
  <2>1. \A s \in staging' : s.nkey = s.ref /\ s.sid # 0
    BY <1>2, <1>4, <1>5 DEF StageRows
  <2>2. \A s \in staging', t \in target' : t.id < s.sid
    BY <1>1, <1>2, <1>5 DEF StageRows, TypeOK, TargetRow
  <2>3. \A s, u \in staging' : s.ref \in Single /\ s.ref = u.ref => s = u
    BY <1>5 DEF HistoryInv, SidsUnique
  <2> QED
    BY <1>1, <1>5, <2>1, <2>2, <2>3 DEF StagedInv, Single
<1>11. SeqInv'
  BY <1>1, <1>2, <1>4, <1>5 DEF SeqInv, TypeOK, TargetRow
<1>12. RekeyedInv' /\ AppliedInv' /\ LinesGoneInv'
  BY <1>1 DEF RekeyedInv, AppliedInv, LinesGoneInv
<1>13. StagedLinesInv'
  <2>1. \A s \in slines' : s.nkey \in {s.ref} \X Nat /\ s.sid # 0
    BY <1>3, <1>6, <1>7
  <2>2. \A s \in slines', l \in tlines' : l.id < s.sid
    BY <1>1, <1>3, <1>7 DEF StageRows, TypeOK, TargetRow
  <2>3. \A s, u \in slines' : s.ref \in Single /\ s.nkey = u.nkey => s = u
    BY <1>6, <1>7 DEF SidsUnique
  <2>4. \A s \in slines' : \E h \in history : h.ref = s.ref
    BY <1>6, <1>7
  <2>5. \A h \in history : PartIn(slines', h.ref) = PartIn(H, h.ref)
    BY <1>7, SamePart
  <2>6. \A h \in history : Once(h) => PartIn(slines', h.ref) = LinesOf(h.ref, h.ver)
    BY <1>6, <2>5
  <2> QED
    BY <1>1, <1>7, <2>1, <2>2, <2>3, <2>4, <2>6 DEF StagedLinesInv, LinesOf, PartIn, Once
<1> QED
  BY <1>8, <1>9, <1>10, <1>11, <1>12, <1>13

(* A row of the session, with the id of a row of its document if that has a  *)
(* current one.                                                              *)
RekeyedFromStaging(R) ==
  /\ \A r \in R :
       /\ \E s \in staging :
            /\ r.sid = s.sid /\ r.nkey = s.nkey /\ r.ref = s.ref
            /\ r.ver = s.ver /\ r.cur = s.cur
       /\ \/ r.id = r.sid /\ \A t \in target : t.nkey = r.nkey => ~t.cur
          \/ \E t \in target : t.nkey = r.nkey /\ r.id = t.id
  /\ \A s \in staging : \E r \in R : r.ref = s.ref

(* A row to be closed, of a document that was once packed twice.             *)
ClosingFromTarget(Q) ==
  \A q \in Q :
    /\ q.sid > seq /\ q.ref \notin Single
    /\ \E t \in target : q.id = t.id /\ q.nkey = t.nkey /\ q.ref = t.ref
    /\ \E s \in staging : s.nkey = q.nkey

(* What sp_<star>_rekey leaves in staging.                                   *)
LEMMA RekeyedStaging ==
  ASSUME Inv, pc = "rekey", NEW k \in Rekeyings(staging, target),
         NEW R, R = RekeyedRows(staging, k), NEW C, C = Superseded(R, target),
         NEW f \in Numberings(C, seq), NEW Q, Q = ClosingRows(C, f)
  PROVE  /\ R \cup Q \subseteq StageRow /\ IsFiniteSet(R \cup Q) /\ SidsUnique(R \cup Q)
         /\ Cardinality(C) \in Nat
         /\ RekeyedFromStaging(R) /\ ClosingFromTarget(Q)
<1> USE DEF Inv
<1> DEFINE Ver == 1..MaxVer
<1>1. /\ staging \subseteq StageRows(Keys, Docs, Ver) /\ IsFiniteSet(staging)
      /\ SidsUnique(staging) /\ seq \in Nat
      /\ target \subseteq TargetRows(Keys, Docs, Ver) /\ \A t \in target : t.id \in Nat
  BY DEF StagedInv, TypeOK, StageRow, StageRows, TargetRow, TargetRows
<1> HIDE DEF Ver
<1>2. R \subseteq StageRows(Keys, Docs, Ver)
  BY <1>1, RekeyedRowsFacts
<1>3. IsFiniteSet(R) /\ SidsUnique(R)
  BY <1>1, RekeyedRowsFacts
<1>4. \A r \in R : \E s \in staging :
        /\ r.sid = s.sid /\ r.nkey = s.nkey /\ r.ref = s.ref /\ r.ver = s.ver /\ r.cur = s.cur
        /\ r.id = k[s]
  BY <1>1, RekeyedRowsFacts
<1>5. \A s \in staging : \E r \in R : r.ref = s.ref
  BY <1>1, RekeyedRowsFacts
<1>6. \A r \in R : \/ r.id = r.sid /\ \A t \in target : t.nkey = r.nkey => ~t.cur
                   \/ \E t \in target : t.nkey = r.nkey /\ r.id = t.id
  <2> TAKE r \in R
  <2>1. PICK s \in staging : r.sid = s.sid /\ r.nkey = s.nkey /\ r.id = k[s]
    BY <1>4
  <2>2. \/ k[s] = s.sid /\ Matches(s, target) = {}
        \/ \E t \in Matches(s, target) : k[s] = t.id
    BY RekeyingFacts
  <2> QED
    BY <2>1, <2>2 DEF Matches
<1>7. C \subseteq target /\ IsFiniteSet(C) /\ Cardinality(C) \in Nat
  <2>1. C \in SUBSET target
    BY DEF Superseded
  <2>2. IsFiniteSet(target)
    BY DEF RowsInv
  <2> QED
    BY <2>1, <2>2, FS_Subset, FS_CardinalityType
<1>8. \A t \in C : t.ref \notin Single /\ \E s \in staging : s.nkey = t.nkey
  <2> SUFFICES ASSUME NEW t \in C
               PROVE  t.ref \notin Single /\ \E s \in staging : s.nkey = t.nkey
    OBVIOUS
  <2>1. PICK r \in R : t.cur /\ t \in target /\ r.nkey = t.nkey /\ r.id # t.id
    BY DEF Superseded
  <2>2. \E u \in target : u.nkey = t.nkey /\ r.id = u.id
    BY <1>6, <2>1
  <2>3. t.ref \notin Single
    BY <2>1, <2>2 DEF RowsInv
  <2> QED
    BY <1>4, <2>1, <2>3
<1>9. C \subseteq TargetRows(Keys, Docs, Ver)
  BY <1>1, <1>7
<1>10. Q \subseteq StageRows(Keys, Docs, Ver)
  BY <1>1, <1>7, <1>9, ClosingRowsFacts
<1>11. SidsUnique(Q)
  BY <1>1, <1>7, <1>9, ClosingRowsFacts
<1>12. \A q \in Q : q.sid > seq /\ \E t \in C : q.id = t.id /\ q.nkey = t.nkey /\ q.ref = t.ref
  BY <1>1, <1>7, <1>9, ClosingRowsFacts
<1>13. IsFiniteSet(Q)
  <2> DEFINE g == [t \in C |-> [sid |-> f[t], id |-> t.id, nkey |-> t.nkey, ref |-> t.ref,
                                ver |-> t.ver, cur |-> FALSE]]
  <2>1. g \in [C -> Q] /\ \A q \in Q : \E t \in C : g[t] = q
    BY DEF ClosingRows
  <2> HIDE DEF g
  <2> QED
    BY <1>7, <2>1, ImageFinite
<1>14. IsFiniteSet(R \cup Q)
  BY <1>3, <1>13, FS_Union
<1>15. SidsUnique(R \cup Q)
  <2>1. \A r \in R, q \in Q : r.sid # q.sid
    BY <1>1, <1>2, <1>4, <1>10, <1>12 DEF SeqInv, StageRows
  <2> QED
    BY <1>3, <1>11, <2>1 DEF SidsUnique
<1>16. R \cup Q \subseteq StageRow
  BY <1>2, <1>10 DEF StageRow, StageRows, Ver
<1>17. \A q \in Q : /\ q.sid > seq /\ q.ref \notin Single
                    /\ \E t \in target : q.id = t.id /\ q.nkey = t.nkey /\ q.ref = t.ref
                    /\ \E s \in staging : s.nkey = q.nkey
  BY <1>7, <1>8, <1>12
<1> QED
  BY <1>4, <1>5, <1>6, <1>7, <1>14, <1>15, <1>16, <1>17 DEF RekeyedFromStaging, ClosingFromTarget

(* The documents whose rows the rekeying deletes from the table part are     *)
(* those of the session.                                                     *)
LEMMA LinesLeftFacts ==
  ASSUME Inv, pc = "rekey"
  PROVE  /\ LinesLeft \subseteq tlines
         /\ \A h \in history, l \in LinesLeft : l.ref # h.ref
         /\ \A l \in tlines : (\A h \in history : l.ref # h.ref) => l \in LinesLeft
BY DEF Inv, LinesLeft, WithoutLinesOf, StagedInv

LEMMA RekeyInv ==
  ASSUME Inv, Rekey
  PROVE  Inv'
<1> USE DEF Inv
<1>1. /\ pc = "rekey" /\ pc' = "update_rows" /\ UNCHANGED <<target, history, session, crashes>>
      /\ tlines' = LinesLeft /\ slines' = OwnIds(slines)
  BY DEF Rekey, LinesRekeyed
<1>2. PICK k \in Rekeyings(staging, target) :
        LET R == RekeyedRows(staging, k)
            C == Superseded(R, target)
        IN  /\ \E f \in Numberings(C, seq) : staging' = R \cup ClosingRows(C, f)
            /\ seq' = seq + Cardinality(C)
  BY DEF Rekey, Closing
<1> DEFINE R == RekeyedRows(staging, k)
           C == Superseded(R, target)
<1>3. PICK f \in Numberings(C, seq) : staging' = R \cup ClosingRows(C, f)
  BY <1>2
<1> DEFINE Q == ClosingRows(C, f)
<1>4. staging' = R \cup Q /\ seq' = seq + Cardinality(C)
  BY <1>2, <1>3
<1>4a. R = RekeyedRows(staging, k) /\ C = Superseded(R, target) /\ Q = ClosingRows(C, f)
  OBVIOUS
<1> HIDE DEF R, Q, C
<1>5. /\ staging' \subseteq StageRow /\ IsFiniteSet(staging') /\ SidsUnique(staging')
      /\ Cardinality(C) \in Nat
      /\ RekeyedFromStaging(R) /\ ClosingFromTarget(Q)
  <2>1. /\ R \cup Q \subseteq StageRow /\ IsFiniteSet(R \cup Q) /\ SidsUnique(R \cup Q)
        /\ Cardinality(C) \in Nat
    BY <1>1, <1>4a, RekeyedStaging
  <2>2. RekeyedFromStaging(R) /\ ClosingFromTarget(Q)
    BY <1>1, <1>4a, RekeyedStaging
  <2> QED
    BY <1>4, <2>1, <2>2
<1>5a. /\ \A s \in staging : s.nkey = s.ref /\ s.sid # 0
       /\ \A s \in staging, t \in target : t.id < s.sid
       /\ \A s, u \in staging : s.ref \in Single /\ s.ref = u.ref => s = u
       /\ \A s \in staging : \E h \in history :
            s.ref = h.ref /\ (s.ref \in Single => s.ver = h.ver /\ s.cur)
       /\ \A h \in history : \E s \in staging : s.ref = h.ref
  BY <1>1 DEF StagedInv
<1>5b. /\ IsFiniteSet(slines) /\ SidsUnique(slines)
       /\ \A s \in slines : s.nkey \in {s.ref} \X Nat /\ s.sid # 0
       /\ \A s \in slines, l \in tlines : l.id < s.sid
       /\ \A s, u \in slines : s.ref \in Single /\ s.nkey = u.nkey => s = u
       /\ \A s \in slines : \E h \in history : h.ref = s.ref
       /\ \A h \in history : Once(h) => PartIn(slines, h.ref) = LinesOf(h.ref, h.ver)
  BY <1>1 DEF StagedLinesInv
<1>6. /\ seq \in Nat /\ \A t \in target : t.id \in Nat /\ t.id <= seq
      /\ \A s \in staging' : s.sid \in Nat
  BY <1>1, <1>5 DEF SeqInv, TypeOK, TargetRow, StageRow
<1>7. /\ tlines' \subseteq tlines
      /\ \A h \in history, l \in tlines' : l.ref # h.ref
      /\ \A l \in tlines : (\A h \in history : l.ref # h.ref) => l \in tlines'
  BY <1>1, LinesLeftFacts
<1>8. /\ slines' \subseteq StageRow /\ SidsUnique(slines') /\ IsFiniteSet(slines')
      /\ \A r \in slines' : r.id = r.sid
      /\ \A r \in slines' : \E s \in slines :
           r.sid = s.sid /\ r.nkey = s.nkey /\ r.ref = s.ref /\ r.ver = s.ver
      /\ \A s \in slines : \E r \in slines' :
           r.sid = s.sid /\ r.nkey = s.nkey /\ r.ref = s.ref /\ r.ver = s.ver
  <2>1. \A s \in slines : IsStageRow(s) /\ s \in StageRow
    BY DEF TypeOK, StageRow, IsStageRow
  <2>2. /\ SidsUnique(slines') /\ IsFiniteSet(slines')
        /\ \A r \in slines' : r.id = r.sid
        /\ \A r \in slines' : \E s \in slines :
             /\ r.sid = s.sid /\ r.nkey = s.nkey /\ r.ref = s.ref /\ r.ver = s.ver
             /\ r.cur = s.cur /\ IsStageRow(r)
        /\ \A s \in slines : \E r \in slines' :
             r.sid = s.sid /\ r.nkey = s.nkey /\ r.ref = s.ref /\ r.ver = s.ver
    BY <1>1, <1>5b, <2>1, OwnIdsFacts
  <2>3. slines' \subseteq StageRow
    BY <2>1, <2>2 DEF StageRow, IsStageRow
  <2> QED
    BY <2>2, <2>3
<1>9. TypeOK'
  <2>1. seq' \in Nat
    BY <1>4, <1>5, <1>6
  <2> QED
    BY <1>1, <1>5, <1>7, <1>8, <2>1 DEF TypeOK, Steps
<1>10. RowsInv' /\ HistoryInv'
  BY <1>1 DEF RowsInv, HistoryInv, Single
<1>11. LinesInv'
  <2>1. IsFiniteSet(tlines')
    BY <1>7, FS_Subset DEF LinesInv
  <2> QED
    BY <1>7, <2>1 DEF LinesInv, IdsUnique, Single
<1>12. \A s \in staging' : /\ s.nkey = s.ref /\ s.sid # 0
                           /\ \A t \in target : t.id < s.sid
                           /\ s.ref \in Single => s \in R
                           /\ \E h \in history : s.ref = h.ref
  <2> SUFFICES ASSUME NEW s \in staging'
               PROVE  /\ s.nkey = s.ref /\ s.sid # 0
                      /\ \A t \in target : t.id < s.sid
                      /\ s.ref \in Single => s \in R
                      /\ \E h \in history : s.ref = h.ref
    OBVIOUS
  <2>1. CASE s \in R
    <3>1. PICK o \in staging : s.sid = o.sid /\ s.nkey = o.nkey /\ s.ref = o.ref
      BY <1>5, <2>1 DEF RekeyedFromStaging
    <3> QED
      BY <1>5a, <2>1, <3>1
  <2>2. CASE s \in Q
    <3>1. /\ s.sid > seq /\ s.ref \notin Single
          /\ \E t \in target : s.nkey = t.nkey /\ s.ref = t.ref
          /\ \E o \in staging : s.nkey = o.nkey
      BY <1>5, <2>2 DEF ClosingFromTarget
    <3>2. s.nkey = s.ref
      BY <3>1 DEF RowsInv
    <3>3. \E h \in history : s.ref = h.ref
      <4>1. PICK o \in staging : s.nkey = o.nkey
        BY <3>1
      <4>2. s.ref = o.ref
        BY <1>5a, <3>2, <4>1
      <4> QED
        BY <1>5a, <4>2
    <3>4. \A t \in target : t.id < s.sid
      BY <1>6, <3>1
    <3>5. s.sid # 0
      BY <1>6, <3>1
    <3> QED
      BY <3>1, <3>2, <3>3, <3>4, <3>5
  <2> QED
    BY <1>4, <2>1, <2>2
<1>13. StagedInv'
  <2>1. \A s, u \in staging' : s.ref \in Single /\ s.ref = u.ref => s = u
    <3> SUFFICES ASSUME NEW s \in staging', NEW u \in staging', s.ref \in Single, s.ref = u.ref
                 PROVE  s.sid = u.sid
      BY <1>5 DEF SidsUnique
    <3>1. PICK a \in staging : s.sid = a.sid /\ s.ref = a.ref
      BY <1>5, <1>12 DEF RekeyedFromStaging
    <3>2. PICK b \in staging : u.sid = b.sid /\ u.ref = b.ref
      BY <1>5, <1>12 DEF RekeyedFromStaging
    <3>3. a = b
      <4>1. a.ref \in Single /\ a.ref = b.ref
        BY <3>1, <3>2
      <4> QED
        BY <1>5a, <4>1
    <3> QED
      BY <3>1, <3>2, <3>3
  <2>2. ASSUME NEW s \in staging', s.ref \in Single
        PROVE  \E h \in history : s.ref = h.ref /\ s.ver = h.ver /\ s.cur
    <3>1. PICK o \in staging : s.ref = o.ref /\ s.ver = o.ver /\ s.cur = o.cur
      BY <1>5, <1>12, <2>2 DEF RekeyedFromStaging
    <3> QED
      BY <1>5a, <2>2, <3>1
  <2>3. \A h \in history : \E s \in staging' : s.ref = h.ref
    BY <1>4, <1>5, <1>5a DEF RekeyedFromStaging
  <2> QED
    BY <1>1, <1>5, <1>12, <2>1, <2>2, <2>3 DEF StagedInv, Single
<1>14. SeqInv' /\ AppliedInv'
  BY <1>1 DEF SeqInv, AppliedInv
<1>15. RekeyedInv'
  <2>1. \A s \in staging' : \/ s.id = s.sid /\ (s.ref \in Single => \A t \in target : t.ref # s.ref)
                            \/ \E t \in target : t.nkey = s.nkey /\ s.id = t.id
    <3> SUFFICES ASSUME NEW s \in staging'
                 PROVE  \/ s.id = s.sid /\ (s.ref \in Single => \A t \in target : t.ref # s.ref)
                        \/ \E t \in target : t.nkey = s.nkey /\ s.id = t.id
      OBVIOUS
    <3>1. CASE s \in Q
      BY <1>5, <3>1 DEF ClosingFromTarget
    <3>2. CASE s \in R
      <4>1. \/ s.id = s.sid /\ \A t \in target : t.nkey = s.nkey => ~t.cur
            \/ \E t \in target : t.nkey = s.nkey /\ s.id = t.id
        BY <1>5, <3>2 DEF RekeyedFromStaging
      <4> QED
        BY <1>12, <4>1 DEF RowsInv
    <3> QED
      BY <1>4, <3>1, <3>2
  <2>2. \A s \in staging', t \in target : t.id # s.sid
    BY <1>6, <1>12
  <2>3. \A s \in staging', t \in target : t.id = s.id => t.nkey = s.nkey
    BY <2>1, <2>2 DEF RowsInv, IdsUnique
  <2>4. \A s \in staging' : s.id = s.sid \/ \E t \in target : t.id = s.id
    BY <2>1
  <2>5. \A s \in staging' : s.ref \in Single /\ s.id = s.sid => \A t \in target : t.ref # s.ref
    BY <2>1, <2>2
  <2> QED
    BY <1>1, <2>3, <2>4, <2>5 DEF RekeyedInv, Single
<1>16. StagedLinesInv' /\ LinesGoneInv'
  <2>1. \A s \in slines' : s.nkey \in {s.ref} \X Nat /\ s.sid # 0
    BY <1>5b, <1>8
  <2>2. \A s \in slines', l \in tlines' : l.id < s.sid
    BY <1>5b, <1>7, <1>8
  <2>3. \A s, u \in slines' : s.ref \in Single /\ s.nkey = u.nkey => s = u
    BY <1>5b, <1>8 DEF SidsUnique
  <2>4. \A s \in slines' : \E h \in history : h.ref = s.ref
    BY <1>5b, <1>8
  <2>5. \A h \in history : PartIn(slines', h.ref) = PartIn(slines, h.ref)
    BY <1>8, SamePart
  <2>6. \A h \in history : Once(h) => PartIn(slines', h.ref) = LinesOf(h.ref, h.ver)
    BY <1>5b, <2>5
  <2> QED
    BY <1>1, <1>7, <1>8, <2>1, <2>2, <2>3, <2>4, <2>6
       DEF StagedLinesInv, LinesGoneInv, LinesOf, PartIn, Single, Once
<1>17. PartsMatchRow'
  <2> SUFFICES ASSUME NEW d \in Single
               PROVE  \/ RowsOfPart(d)' = {} /\ VersionOf(d)' = 0
                      \/ VersionOf(d)' # 0 /\ RowsOfPart(d)' = LinesOf(d, VersionOf(d)')
                      \/ RowsOfPart(d)' = {} /\ d \in InSession'
    BY <1>1 DEF PartsMatchRow, LinesOf
  <2>1. VersionOf(d)' = VersionOf(d) /\ InSession' = InSession
    BY <1>1 DEF VersionOf, InSession, RowsOf
  <2>2. CASE d \in InSession
    <3>1. \E h \in history : h.ref = d
      BY <2>2 DEF InSession, RowsOf, HistoryInv
    <3> QED
      BY <1>7, <2>1, <2>2, <3>1 DEF RowsOfPart
  <2>3. CASE d \notin InSession
    <3>1. \A h \in history : h.ref # d
      BY <2>3 DEF InSession, RowsOf, HistoryInv, Single
    <3>2. RowsOfPart(d)' = RowsOfPart(d)
      <4>1. {x \in tlines : x.ref = d} = {x \in tlines' : x.ref = d}
        BY <1>7, <3>1
      <4> QED
        BY <4>1 DEF RowsOfPart
    <3> QED
      BY <2>1, <2>3, <3>2 DEF PartsMatchRow
  <2> QED
    BY <2>2, <2>3
<1> QED
  BY <1>9, <1>10, <1>11, <1>12, <1>13, <1>14, <1>15, <1>16, <1>17

LEMMA SameVersion ==
  ASSUME NEW d, {x \in target' : x.nkey = d} = {x \in target : x.nkey = d}
  PROVE  VersionOf(d)' = VersionOf(d)
BY DEF VersionOf

(* While the table parts of the session's documents are empty, a step on     *)
(* target may change only rows of those documents.                           *)
LEMMA PartsMatchWhilePublishing ==
  ASSUME Inv, UNCHANGED <<tlines, history>>, pc' \notin {"idle", "done"},
         \A h \in history, l \in tlines : l.ref # h.ref,
         \A d \in Single \ InSession : {x \in target' : x.nkey = d} = {x \in target : x.nkey = d}
  PROVE  PartsMatchRow'
<1> SUFFICES ASSUME NEW d \in Single
             PROVE  \/ RowsOfPart(d)' = {} /\ VersionOf(d)' = 0
                    \/ VersionOf(d)' # 0 /\ RowsOfPart(d)' = LinesOf(d, VersionOf(d)')
                    \/ RowsOfPart(d)' = {} /\ d \in InSession'
  BY DEF PartsMatchRow, LinesOf
<1>1. InSession' = InSession /\ RowsOfPart(d)' = RowsOfPart(d)
  BY DEF InSession, RowsOf, RowsOfPart
<1>2. CASE d \in InSession
  <2>1. \E h \in history : h.ref = d
    BY <1>2 DEF InSession, RowsOf, Inv, HistoryInv
  <2>2. RowsOfPart(d) = {}
    BY <2>1 DEF RowsOfPart
  <2> QED
    BY <1>1, <1>2, <2>2
<1>3. CASE d \notin InSession
  <2>1. VersionOf(d)' = VersionOf(d)
    BY <1>3, SameVersion
  <2> QED
    BY <1>1, <1>3, <2>1 DEF Inv, PartsMatchRow
<1> QED
  BY <1>2, <1>3

(* UPDATE target: a row keeps its keys, and takes the version of the staged  *)
(* row of its document.                                                      *)
UpdatedFrom(t, u) ==
  /\ u.id = t.id /\ u.nkey = t.nkey /\ u.ref = t.ref
  /\ \/ u = t /\ \A s \in staging : s.id # t.id
     \/ \E s \in staging : s.id = t.id /\ s.ref = t.ref /\ u.ver = s.ver /\ u.cur = s.cur

LEMMA UpdateRowsFacts ==
  ASSUME Inv, UpdateRows
  PROVE  /\ target' \subseteq TargetRow /\ IsFiniteSet(target') /\ IdsUnique(target')
         /\ \A u \in target' : \E t \in target : UpdatedFrom(t, u)
         /\ \A t \in target : \E u \in target' : UpdatedFrom(t, u)
<1> USE DEF Inv
<1> DEFINE Ver == 1..MaxVer
<1>1. pc = "update_rows" /\ target' \in RowsUpdated(target, staging)
  BY DEF UpdateRows
<1>2. PICK p \in Updates(target, staging) : target' = UpdatedRows(target, p)
  BY <1>1 DEF RowsUpdated
<1>3. /\ target \subseteq TargetRows(Keys, Docs, Ver) /\ IsFiniteSet(target) /\ IdsUnique(target)
      /\ staging \subseteq StageRows(Keys, Docs, Ver) /\ \A t \in target : t.id # 0
  BY DEF RowsInv, TypeOK, TargetRow, TargetRows, StageRow, StageRows
<1> HIDE DEF Ver
<1>4. IsFiniteSet(target') /\ IdsUnique(target')
  BY <1>2, <1>3, UpdatedRowsFacts
<1>5. /\ \A u \in target' : \E t \in target : u = UpdatedRow(t, p)
      /\ \A t \in target : UpdatedRow(t, p) \in target'
  BY <1>2 DEF UpdatedRows
<1>6. ASSUME NEW t \in target
      PROVE  UpdatedRow(t, p) \in TargetRow /\ UpdatedFrom(t, UpdatedRow(t, p))
  <2> DEFINE u == UpdatedRow(t, p)
  <2>1. u \in TargetRows(Keys, Docs, Ver) /\ RowUpdated(t, u, staging)
    BY <1>2, <1>3, UpdatedRowFacts
  <2>2. u.id = t.id /\ u.nkey = t.nkey
    BY <2>1 DEF RowUpdated
  <2>3. \/ u = t /\ Sources(t, staging) = {}
        \/ \E s \in Sources(t, staging) : u.ref = s.ref /\ u.ver = s.ver /\ u.cur = s.cur
    BY <2>1 DEF RowUpdated
  <2> HIDE DEF u
  <2>4. u \in TargetRow
    BY <1>3, <2>1, <2>2 DEF TargetRow, TargetRows, Ver
  <2>5. CASE u = t /\ Sources(t, staging) = {}
    BY <2>4, <2>5 DEF UpdatedFrom, Sources, u
  <2>6. CASE \E s \in Sources(t, staging) : u.ref = s.ref /\ u.ver = s.ver /\ u.cur = s.cur
    <3>1. PICK s \in staging : s.id = t.id /\ u.ref = s.ref /\ u.ver = s.ver /\ u.cur = s.cur
      BY <2>6 DEF Sources
    <3>2. t.nkey = s.nkey /\ s.nkey = s.ref /\ t.nkey = t.ref
      <4>1. t.nkey = s.nkey
        BY <1>1, <3>1 DEF RekeyedInv
      <4>2. s.nkey = s.ref
        BY <1>1 DEF StagedInv
      <4>3. t.nkey = t.ref
        BY DEF RowsInv
      <4> QED
        BY <4>1, <4>2, <4>3
    <3> QED
      BY <2>2, <2>4, <3>1, <3>2 DEF UpdatedFrom, u
  <2> QED
    BY <2>3, <2>5, <2>6
<1> QED
  BY <1>4, <1>5, <1>6

LEMMA UpdateRowsInv ==
  ASSUME Inv, UpdateRows
  PROVE  Inv'
<1> USE DEF Inv
<1>1. /\ pc = "update_rows" /\ pc' = "insert_rows"
      /\ UNCHANGED <<tlines, staging, slines, seq, history, session, crashes>>
  BY DEF UpdateRows, stage
<1>2. /\ target' \subseteq TargetRow /\ IsFiniteSet(target') /\ IdsUnique(target')
      /\ \A u \in target' : \E t \in target : UpdatedFrom(t, u)
      /\ \A t \in target : \E u \in target' : UpdatedFrom(t, u)
  BY UpdateRowsFacts
<1>3. /\ \A s \in staging : s.nkey = s.ref /\ s.sid # 0
      /\ \A s \in staging, t \in target : t.id < s.sid
      /\ \A s, u \in staging : s.ref \in Single /\ s.ref = u.ref => s = u
      /\ \A s \in staging : \E h \in history :
           s.ref = h.ref /\ (s.ref \in Single => s.ver = h.ver /\ s.cur)
  BY <1>1 DEF StagedInv
<1>4. \A s \in staging :
        /\ s.id = s.sid \/ \E t \in target : t.id = s.id
        /\ \A t \in target : t.id = s.id => t.nkey = s.nkey
        /\ s.ref \in Single /\ s.id = s.sid => \A t \in target : t.ref # s.ref
  BY <1>1 DEF RekeyedInv
<1>5. TypeOK'
  BY <1>1, <1>2 DEF TypeOK, Steps
<1>6. RowsInv'
  <2>1. \A u \in target' : u.nkey = u.ref /\ (u.ref \in Single => u.cur)
    <3> SUFFICES ASSUME NEW u \in target'
                 PROVE  u.nkey = u.ref /\ (u.ref \in Single => u.cur)
      OBVIOUS
    <3>1. PICK t \in target : UpdatedFrom(t, u)
      BY <1>2
    <3> QED
      BY <1>3, <3>1 DEF UpdatedFrom, RowsInv
  <2>2. \A u, w \in target' : u.ref \in Single /\ u.ref = w.ref => u = w
    <3> SUFFICES ASSUME NEW u \in target', NEW w \in target', u.ref \in Single, u.ref = w.ref
                 PROVE  u.id = w.id
      BY <1>2 DEF IdsUnique
    <3>1. PICK t \in target : UpdatedFrom(t, u)
      BY <1>2
    <3>2. PICK v \in target : UpdatedFrom(v, w)
      BY <1>2
    <3>3. t = v
      BY <3>1, <3>2 DEF UpdatedFrom, RowsInv
    <3> QED
      BY <3>1, <3>2, <3>3 DEF UpdatedFrom
  <2> QED
    BY <1>2, <2>1, <2>2 DEF RowsInv, Single
<1>7. HistoryInv'
  <2> SUFFICES ASSUME NEW h \in history, NEW u \in target', h.ref \in Single, u.ref = h.ref
               PROVE  u.ver <= h.ver
    BY <1>1 DEF HistoryInv, Single
  <2>1. PICK t \in target : UpdatedFrom(t, u)
    BY <1>2
  <2>2. CASE u = t
    BY <2>1, <2>2 DEF HistoryInv, UpdatedFrom
  <2>3. CASE \E s \in staging : s.id = t.id /\ s.ref = t.ref /\ u.ver = s.ver
    <3>1. PICK s \in staging : s.ref = t.ref /\ u.ver = s.ver
      BY <2>3
    <3>2. PICK g \in history : s.ref = g.ref /\ s.ver = g.ver
      BY <1>3, <2>1, <3>1 DEF UpdatedFrom
    <3>3. g = h
      BY <2>1, <3>1, <3>2 DEF UpdatedFrom, HistoryInv
    <3> QED
      BY <1>2, <3>1, <3>2, <3>3 DEF TargetRow
  <2> QED
    BY <2>1, <2>2, <2>3 DEF UpdatedFrom
<1>8. StagedInv' /\ RekeyedInv'
  <2>1. \A s \in staging, u \in target' : u.id < s.sid
    BY <1>2, <1>3 DEF UpdatedFrom
  <2>2. \A s \in staging : s.id = s.sid \/ \E u \in target' : u.id = s.id
    <3> TAKE s \in staging
    <3>1. CASE s.id = s.sid
      BY <3>1
    <3>2. CASE \E t \in target : t.id = s.id
      BY <1>2, <3>2 DEF UpdatedFrom
    <3> QED
      BY <1>4, <3>1, <3>2
  <2>3. \A s \in staging, u \in target' : u.id = s.id => u.nkey = s.nkey
    BY <1>2, <1>4 DEF UpdatedFrom
  <2>4. \A s \in staging : s.ref \in Single /\ s.id = s.sid => \A u \in target' : u.ref # s.ref
    BY <1>2, <1>4 DEF UpdatedFrom
  <2> QED
    BY <1>1, <2>1, <2>2, <2>3, <2>4 DEF StagedInv, RekeyedInv, Single
<1>9. AppliedInv'
  <2> SUFFICES ASSUME NEW s \in staging, NEW u \in target', s.ref \in Single, s.ref = u.ref
               PROVE  u.ver = s.ver
    BY <1>1 DEF AppliedInv, Single
  <2>1. PICK t \in target : UpdatedFrom(t, u)
    BY <1>2
  <2>2. t.ref = s.ref
    BY <2>1 DEF UpdatedFrom
  <2>3. PICK v \in target : v.id = s.id
    BY <1>4, <2>2
  <2>4. v.ref = s.ref
    BY <1>3, <1>4, <2>3 DEF RowsInv
  <2>5. v = t
    BY <2>2, <2>4 DEF RowsInv
  <2>6. PICK q \in staging : q.ref = t.ref /\ u.ver = q.ver
    BY <2>1, <2>3, <2>5 DEF UpdatedFrom
  <2> QED
    BY <1>3, <2>2, <2>6
<1>10. SeqInv' /\ LinesInv' /\ StagedLinesInv' /\ LinesGoneInv'
  BY <1>1 DEF SeqInv, LinesInv, StagedLinesInv, LinesGoneInv, Single, LinesOf, PartIn, Once
<1>11. PartsMatchRow'
  <2>1. ASSUME NEW d \in Single \ InSession
        PROVE  {x \in target' : x.nkey = d} = {x \in target : x.nkey = d}
    <3>1. \A h \in history : h.ref # d
      BY <2>1 DEF InSession, RowsOf, HistoryInv, Single
    <3>2. \A s \in staging : s.ref # d
      BY <1>3, <3>1
    <3>3. \A t \in target, u \in target' : UpdatedFrom(t, u) /\ t.nkey = d => u = t
      BY <3>2 DEF UpdatedFrom, RowsInv
    <3> QED
      BY <1>2, <3>3 DEF UpdatedFrom
  <2>2. \A h \in history, l \in tlines : l.ref # h.ref
    BY <1>1 DEF LinesGoneInv
  <2> QED
    BY <1>1, <2>1, <2>2, PartsMatchWhilePublishing
<1> QED
  BY <1>5, <1>6, <1>7, <1>8, <1>9, <1>10, <1>11

(* INSERT target: the rows that have their own number.                       *)
LEMMA InsertRowsInv ==
  ASSUME Inv, InsertRows
  PROVE  Inv'
<1> USE DEF Inv
<1> DEFINE Ver == 1..MaxVer
           N == NewRows(staging)
<1>1. /\ pc = "insert_rows" /\ pc' = "update_lines" /\ target' = target \cup N
      /\ UNCHANGED <<tlines, staging, slines, seq, history, session, crashes>>
  BY DEF InsertRows, stage
<1>2. /\ IsFiniteSet(staging) /\ SidsUnique(staging)
      /\ \A s \in staging : s.nkey = s.ref /\ s.sid # 0
      /\ \A s \in staging, t \in target : t.id < s.sid
      /\ \A s, u \in staging : s.ref \in Single /\ s.ref = u.ref => s = u
      /\ \A s \in staging : \E h \in history :
           s.ref = h.ref /\ (s.ref \in Single => s.ver = h.ver /\ s.cur)
      /\ \A h \in history : \E s \in staging : s.ref = h.ref
  BY <1>1 DEF StagedInv
<1>3. \A s \in staging :
        /\ s.id = s.sid \/ \E t \in target : t.id = s.id
        /\ \A t \in target : t.id = s.id => t.nkey = s.nkey
        /\ s.ref \in Single /\ s.id = s.sid => \A t \in target : t.ref # s.ref
  BY <1>1 DEF RekeyedInv
<1>4. staging \subseteq StageRows(Keys, Docs, Ver)
  BY DEF TypeOK, StageRow, StageRows
<1>5. N = NewRows(staging)
  OBVIOUS
<1> HIDE DEF N, Ver
<1>6. N \subseteq TargetRows(Keys, Docs, Ver)
  BY <1>2, <1>4, <1>5, NewRowsFacts
<1>7. IsFiniteSet(N) /\ IdsUnique(N)
  BY <1>2, <1>4, <1>5, NewRowsFacts
<1>8. \A n \in N : \E s \in staging :
        /\ s.sid = s.id /\ n.id = s.sid
        /\ n.nkey = s.nkey /\ n.ref = s.ref /\ n.ver = s.ver /\ n.cur = s.cur
  BY <1>2, <1>4, <1>5, NewRowsFacts
<1>9. \A s \in staging : s.sid = s.id => \E n \in N :
        /\ n.id = s.sid
        /\ n.nkey = s.nkey /\ n.ref = s.ref /\ n.ver = s.ver /\ n.cur = s.cur
  BY <1>2, <1>4, <1>5, NewRowsFacts
<1>10. \A n \in N, t \in target : t.id < n.id /\ (n.ref \in Single => t.ref # n.ref)
  BY <1>2, <1>3, <1>8
<1>11. TypeOK'
  <2>1. N \subseteq TargetRow
    BY <1>2, <1>6, <1>8 DEF TargetRow, TargetRows, Ver
  <2> QED
    BY <1>1, <2>1 DEF TypeOK, Steps
<1>12. RowsInv'
  <2>1. IsFiniteSet(target')
    BY <1>1, <1>7, FS_Union DEF RowsInv
  <2>2. IdsUnique(target')
    <3>1. \A n \in N, t \in target : t.id # n.id
      BY <1>6, <1>10 DEF TargetRows, TypeOK, TargetRow
    <3> QED
      BY <1>1, <1>7, <3>1 DEF RowsInv, IdsUnique
  <2>3. \A n \in N : n.nkey = n.ref /\ (n.ref \in Single => n.cur)
    BY <1>2, <1>8
  <2>4. \A n, m \in N : n.ref \in Single /\ n.ref = m.ref => n = m
    <3> SUFFICES ASSUME NEW n \in N, NEW m \in N, n.ref \in Single, n.ref = m.ref
                 PROVE  n.id = m.id
      BY <1>7 DEF IdsUnique
    <3>1. PICK s \in staging : n.id = s.sid /\ n.ref = s.ref
      BY <1>8
    <3>2. PICK u \in staging : m.id = u.sid /\ m.ref = u.ref
      BY <1>8
    <3>3. s.ref \in Single /\ s.ref = u.ref
      BY <3>1, <3>2
    <3> QED
      BY <1>2, <3>1, <3>2, <3>3
  <2> QED
    BY <1>1, <1>10, <2>1, <2>2, <2>3, <2>4 DEF RowsInv, Single
<1>13. HistoryInv'
  <2> SUFFICES ASSUME NEW h \in history, NEW n \in N, h.ref \in Single, n.ref = h.ref
               PROVE  n.ver <= h.ver
    BY <1>1 DEF HistoryInv, Single
  <2>1. PICK s \in staging : n.ref = s.ref /\ n.ver = s.ver
    BY <1>8
  <2>2. PICK g \in history : s.ref = g.ref /\ s.ver = g.ver
    BY <1>2, <2>1
  <2>3. g = h
    BY <2>1, <2>2 DEF HistoryInv
  <2> QED
    BY <2>1, <2>2, <2>3 DEF TypeOK, HistoryRow
<1>14. AppliedInv'
  <2> SUFFICES ASSUME NEW h \in history, h.ref \in Single
               PROVE  \E t \in target' : t.ref = h.ref /\ t.ver = h.ver
    BY <1>1 DEF AppliedInv, Single
  <2>1. PICK s \in staging : s.ref = h.ref
    BY <1>2
  <2>2. PICK g \in history : s.ref = g.ref /\ s.ver = g.ver
    BY <1>2, <2>1
  <2>3. g = h
    BY <2>1, <2>2 DEF HistoryInv
  <2>4. CASE s.id = s.sid
    <3>1. PICK n \in N : n.ref = s.ref /\ n.ver = s.ver
      BY <1>9, <2>4
    <3>2. n \in target'
      BY <1>1
    <3>3. n.ref = h.ref /\ n.ver = h.ver
      BY <2>1, <2>2, <2>3, <3>1
    <3> QED
      BY <3>2, <3>3
  <2>5. CASE \E t \in target : t.id = s.id
    <3>1. PICK t \in target : t.id = s.id
      BY <2>5
    <3>2. t.ref = s.ref
      BY <1>2, <1>3, <3>1 DEF RowsInv
    <3>3. t.ver = s.ver
      BY <1>1, <2>1, <3>2 DEF AppliedInv
    <3> QED
      BY <1>1, <2>1, <2>2, <2>3, <3>2, <3>3
  <2> QED
    BY <1>3, <2>4, <2>5
<1>15. /\ StagedInv' /\ SeqInv' /\ RekeyedInv' /\ LinesInv' /\ StagedLinesInv' /\ LinesGoneInv'
  BY <1>1 DEF StagedInv, SeqInv, RekeyedInv, LinesInv, StagedLinesInv, LinesGoneInv, Single,
              LinesOf, PartIn, Once
<1>16. PartsMatchRow'
  <2>1. ASSUME NEW d \in Single \ InSession
        PROVE  {x \in target' : x.nkey = d} = {x \in target : x.nkey = d}
    <3>1. \A h \in history : h.ref # d
      BY <2>1 DEF InSession, RowsOf, HistoryInv, Single
    <3>2. \A n \in N : n.nkey # d
      BY <1>2, <1>8, <3>1
    <3> QED
      BY <1>1, <3>2
  <2>2. \A h \in history, l \in tlines : l.ref # h.ref
    BY <1>1 DEF LinesGoneInv
  <2> QED
    BY <1>1, <2>1, <2>2, PartsMatchWhilePublishing
<1> QED
  BY <1>11, <1>12, <1>13, <1>14, <1>15, <1>16

(* UPDATE of the table part finds nothing: every staged row is new.          *)
LEMMA UpdateLinesInv ==
  ASSUME Inv, UpdateLines
  PROVE  Inv' /\ tlines' = tlines
<1> USE DEF Inv
<1> DEFINE Ver == 1..MaxVer
<1>1. /\ pc = "update_lines" /\ pc' = "insert_lines" /\ tlines' \in RowsUpdated(tlines, slines)
      /\ UNCHANGED <<target, staging, slines, seq, history, session, crashes>>
  BY DEF UpdateLines, stage
<1>2. PICK p \in Updates(tlines, slines) : tlines' = UpdatedRows(tlines, p)
  BY <1>1 DEF RowsUpdated
<1>3. \A l \in tlines : Sources(l, slines) = {}
  <2>1. \A l \in tlines, s \in slines : l.id \in Nat /\ s.id = s.sid /\ l.id < s.sid
    BY <1>1 DEF StagedLinesInv, LinesGoneInv, TypeOK, TargetRow
  <2> QED
    BY <2>1 DEF Sources
<1>4. \A l \in tlines : UpdatedRow(l, p) = l
  BY <1>2, <1>3 DEF Updates, UpdatedRow
<1>5. tlines' = tlines
  BY <1>2, <1>4 DEF UpdatedRows
<1>6. TypeOK'
  BY <1>1, <1>5 DEF TypeOK, Steps
<1>7. RowsInv' /\ LinesInv' /\ HistoryInv' /\ StagedInv' /\ SeqInv' /\ RekeyedInv' /\ AppliedInv'
  BY <1>1, <1>5 DEF RowsInv, LinesInv, HistoryInv, StagedInv, SeqInv, RekeyedInv, AppliedInv,
                    Single
<1>8. StagedLinesInv' /\ LinesGoneInv'
  BY <1>1, <1>5 DEF StagedLinesInv, LinesGoneInv, Single, LinesOf, PartIn, Once
<1>9. PartsMatchRow'
  BY <1>1, <1>5, SamePartsMatch DEF tables
<1> QED
  BY <1>5, <1>6, <1>7, <1>8, <1>9

(* INSERT of the table part completes those of the session's documents.      *)
LEMMA InsertLinesInv ==
  ASSUME Inv, InsertLines
  PROVE  /\ Inv'
         /\ \A d \in Single \cap InSession :
              VersionOf(d) # 0 /\ RowsOfPart(d)' = LinesOf(d, VersionOf(d))
         /\ \A d \in Single \ InSession : RowsOfPart(d)' = RowsOfPart(d)
         /\ \A h \in history : Once(h) => RowsOfPart(h.ref)' = LinesOf(h.ref, h.ver)
<1> USE DEF Inv
<1> DEFINE Ver == 1..MaxVer
           N == NewRows(slines)
<1>1. /\ pc = "insert_lines" /\ pc' = "done" /\ tlines' = tlines \cup N
      /\ UNCHANGED <<target, staging, slines, seq, history, session, crashes>>
  BY DEF InsertLines, stage
<1>2. /\ IsFiniteSet(slines) /\ SidsUnique(slines)
      /\ \A s \in slines : s.nkey \in {s.ref} \X Nat /\ s.sid # 0
      /\ \A s \in slines, l \in tlines : l.id < s.sid
      /\ \A s, u \in slines : s.ref \in Single /\ s.nkey = u.nkey => s = u
      /\ \A s \in slines : \E h \in history : h.ref = s.ref
      /\ \A h \in history : Once(h) => PartIn(slines, h.ref) = LinesOf(h.ref, h.ver)
  BY <1>1 DEF StagedLinesInv
<1>3. /\ \A s \in slines : s.id = s.sid
      /\ \A h \in history, l \in tlines : l.ref # h.ref
  BY <1>1 DEF LinesGoneInv
<1>4. slines \subseteq StageRows(Keys, Docs, Ver)
  BY DEF TypeOK, StageRow, StageRows
<1>5. N = NewRows(slines)
  OBVIOUS
<1> HIDE DEF N, Ver
<1>6. N \subseteq TargetRows(Keys, Docs, Ver)
  BY <1>2, <1>4, <1>5, NewRowsFacts
<1>7. IsFiniteSet(N) /\ IdsUnique(N)
  BY <1>2, <1>4, <1>5, NewRowsFacts
<1>8. \A n \in N : \E s \in slines :
        n.id = s.sid /\ n.nkey = s.nkey /\ n.ref = s.ref /\ n.ver = s.ver
  BY <1>2, <1>4, <1>5, NewRowsFacts
<1>9. \A s \in slines : \E n \in N : n.nkey = s.nkey /\ n.ref = s.ref /\ n.ver = s.ver
  BY <1>2, <1>3, <1>4, <1>5, NewRowsFacts
<1>10. \A n \in N, l \in tlines : l.id < n.id /\ l.ref # n.ref
  BY <1>2, <1>3, <1>8
<1>11. TypeOK'
  <2>1. N \subseteq TargetRow
    BY <1>2, <1>6, <1>8 DEF TargetRow, TargetRows, Ver
  <2> QED
    BY <1>1, <2>1 DEF TypeOK, Steps
<1>12. LinesInv'
  <2>1. IsFiniteSet(tlines')
    BY <1>1, <1>7, FS_Union DEF LinesInv
  <2>2. IdsUnique(tlines')
    <3>1. \A n \in N, l \in tlines : l.id # n.id
      BY <1>6, <1>10 DEF TargetRows, TypeOK, TargetRow
    <3> QED
      BY <1>1, <1>7, <3>1 DEF LinesInv, IdsUnique
  <2>3. \A n \in N : n.nkey \in {n.ref} \X Nat
    BY <1>2, <1>8
  <2>4. \A n, m \in N : n.ref \in Single /\ n.nkey = m.nkey => n = m
    <3> SUFFICES ASSUME NEW n \in N, NEW m \in N, n.ref \in Single, n.nkey = m.nkey
                 PROVE  n.id = m.id
      BY <1>7 DEF IdsUnique
    <3>1. PICK s \in slines : n.id = s.sid /\ n.ref = s.ref /\ n.nkey = s.nkey
      BY <1>8
    <3>2. PICK u \in slines : m.id = u.sid /\ m.nkey = u.nkey
      BY <1>8
    <3>3. s.ref \in Single /\ s.nkey = u.nkey
      BY <3>1, <3>2
    <3> QED
      BY <1>2, <3>1, <3>2, <3>3
  <2>5. \A n \in N, l \in tlines : n.nkey # l.nkey
    BY <1>10, <2>3 DEF LinesInv
  <2> QED
    BY <1>1, <2>1, <2>2, <2>3, <2>4, <2>5 DEF LinesInv, Single
<1>13. RowsInv' /\ HistoryInv' /\ StagedInv' /\ SeqInv' /\ RekeyedInv' /\ AppliedInv'
  BY <1>1 DEF RowsInv, HistoryInv, StagedInv, SeqInv, RekeyedInv, AppliedInv, Single
<1>14. StagedLinesInv' /\ LinesGoneInv'
  BY <1>1 DEF StagedLinesInv, LinesGoneInv
<1>15a. ASSUME NEW h \in history, Once(h)
        PROVE  RowsOfPart(h.ref)' = LinesOf(h.ref, h.ver)
  <2>1. PartIn(N, h.ref) = PartIn(slines, h.ref)
    BY <1>8, <1>9, SamePart
  <2>2. {x \in tlines' : x.ref = h.ref} = {x \in N : x.ref = h.ref}
    BY <1>1, <1>3
  <2>3. RowsOfPart(h.ref)' = PartIn(N, h.ref)
    BY <2>2 DEF RowsOfPart, PartIn
  <2> QED
    BY <1>2, <1>15a, <2>1, <2>3
<1>15. ASSUME NEW d \in Single, d \in InSession
       PROVE  VersionOf(d) # 0 /\ RowsOfPart(d)' = LinesOf(d, VersionOf(d))
  <2>1. PICK h \in history : h.ref = d
    BY <1>15 DEF InSession, RowsOf, HistoryInv
  <2>2. PICK t \in target : t.ref = d /\ t.ver = h.ver
    BY <1>1, <2>1 DEF AppliedInv
  <2>3. VersionOf(d) = h.ver
    BY <2>2, VersionFacts DEF RowsInv, TypeOK, Single
  <2>4. Once(h)
    BY <2>1 DEF Once, HistoryInv
  <2> QED
    BY <1>15a, <2>1, <2>3, <2>4 DEF TypeOK, HistoryRow
<1>16. ASSUME NEW d \in Single, d \notin InSession
       PROVE  RowsOfPart(d)' = RowsOfPart(d)
  <2>1. \A h \in history : h.ref # d
    BY <1>16 DEF InSession, RowsOf, HistoryInv, Single
  <2>2. \A n \in N : n.ref # d
    BY <1>2, <1>8, <2>1
  <2>3. {x \in tlines' : x.ref = d} = {x \in tlines : x.ref = d}
    BY <1>1, <2>2
  <2> QED
    BY <2>3 DEF RowsOfPart
<1>17. PartsMatchRow'
  <2> SUFFICES ASSUME NEW d \in Single
               PROVE  \/ RowsOfPart(d)' = {} /\ VersionOf(d)' = 0
                      \/ VersionOf(d)' # 0 /\ RowsOfPart(d)' = LinesOf(d, VersionOf(d)')
    BY DEF PartsMatchRow, LinesOf
  <2>1. VersionOf(d)' = VersionOf(d)
    BY <1>1 DEF VersionOf
  <2> QED
    BY <1>15, <1>16, <2>1 DEF PartsMatchRow
<1> QED
  BY <1>11, <1>12, <1>13, <1>14, <1>15a, <1>15, <1>16, <1>17

(* The steps that leave the tables alone.                                    *)
LEMMA QuietInv ==
  ASSUME Inv, Close \/ Crash \/ UNCHANGED vars
  PROVE  Inv'
<1> USE DEF Inv
<1>1. UNCHANGED <<target, tlines, staging, slines, seq, history, session>>
  BY DEF Close, Crash, vars, tables, stage
<1>2. \/ pc = "done" /\ pc' = "idle"
      \/ pc \notin {"idle", "transfer"} /\ pc' = "transfer"
      \/ pc' = pc
  BY DEF Close, Crash, vars
<1>3. TypeOK'
  <2>1. crashes' \in 0..MaxCrash
    BY SizesAssumption DEF Close, Crash, vars, TypeOK
  <2> QED
    BY <1>1, <1>2, <2>1 DEF TypeOK, Steps
<1>4. RowsInv' /\ LinesInv' /\ HistoryInv'
  BY <1>1 DEF RowsInv, LinesInv, HistoryInv, Single
<1>5. StagedInv' /\ SeqInv' /\ RekeyedInv' /\ AppliedInv'
  BY <1>1, <1>2 DEF StagedInv, SeqInv, RekeyedInv, AppliedInv, Single
<1>6. StagedLinesInv' /\ LinesGoneInv'
  BY <1>1, <1>2 DEF StagedLinesInv, LinesGoneInv, Single, LinesOf, PartIn, Once
<1>7. PartsMatchRow'
  <2> SUFFICES ASSUME NEW d \in Single
               PROVE  \/ RowsOfPart(d)' = {} /\ VersionOf(d)' = 0
                      \/ VersionOf(d)' # 0 /\ RowsOfPart(d)' = LinesOf(d, VersionOf(d)')
                      \/ RowsOfPart(d)' = {} /\ d \in InSession' /\ pc' \notin {"idle", "done"}
    BY DEF PartsMatchRow, LinesOf
  <2>1. VersionOf(d)' = VersionOf(d) /\ RowsOfPart(d)' = RowsOfPart(d) /\ InSession' = InSession
    BY <1>1 DEF VersionOf, RowsOfPart, InSession, RowsOf
  <2> QED
    BY <1>2, <2>1 DEF PartsMatchRow
<1> QED
  BY <1>3, <1>4, <1>5, <1>6, <1>7

LEMMA NextInv == Inv /\ [Next]_vars => Inv'
BY AcceptInv, TransferInv, RekeyInv, UpdateRowsInv, InsertRowsInv, UpdateLinesInv,
   InsertLinesInv, QuietInv DEF Next, Call

LEMMA InvHolds == Spec => []Inv
<1>1. Init => Inv
  BY InitInv
<1>2. Inv /\ [Next]_vars => Inv'
  BY NextInv
<1> QED
  BY <1>1, <1>2, PTL DEF Spec

---------------------------------------------------------------------------
(* What follows from the invariant.                                          *)

(* Typing.                                                                   *)
THEOREM TypeCorrect == Spec => []TypeOK
<1>1. Inv => TypeOK
  BY DEF Inv
<1> QED
  BY <1>1, InvHolds, PTL

(* No reruns and no lost statement make two rows with one surrogate key, or  *)
(* two rows of a document, or of one of its lines, that is packed once.      *)
THEOREM KeysStayUniqueTheorem == Spec => []KeysStayUnique
<1>1. Inv => KeysStayUnique
  <2> SUFFICES ASSUME Inv PROVE KeysStayUnique
    OBVIOUS
  <2>1. IdsUnique(target) /\ IdsUnique(tlines)
    BY DEF Inv, RowsInv, LinesInv
  <2>2. KeysUnique(OfSingle(target))
    BY <2>1 DEF Inv, RowsInv, KeysUnique, OfSingle, IdsUnique
  <2>3. KeysUnique(OfSingle(tlines))
    BY <2>1 DEF Inv, LinesInv, KeysUnique, OfSingle, IdsUnique
  <2> QED
    BY <2>1, <2>2, <2>3 DEF KeysStayUnique, IdsUnique
<1> QED
  BY <1>1, InvHolds, PTL

(* At every statement boundary the table part of a document packed once is   *)
(* that of the version shown, or missing while its session is published.     *)
THEOREM PartsMatchRowTheorem == Spec => []PartsMatchRow
<1>1. Inv => PartsMatchRow
  BY DEF Inv
<1> QED
  BY <1>1, InvHolds, PTL

(* A row keeps its id and its natural key whatever statement runs, and a     *)
(* document packed once never goes back to an older version.                 *)
THEOREM SurrogateKeysAreStableTheorem == Spec => SurrogateKeysAreStable
<1> DEFINE Kept == \A t \in target : \E u \in target' :
                     u.id = t.id /\ u.nkey = t.nkey /\ (t.ref \in Single => u.ver >= t.ver)
<1>1. Inv /\ [Next]_vars => [Kept]_vars
  <2> SUFFICES ASSUME Inv, Next, NEW t \in target
               PROVE  \E u \in target' :
                        u.id = t.id /\ u.nkey = t.nkey /\ (t.ref \in Single => u.ver >= t.ver)
    BY DEF Kept
  <2> USE DEF Inv
  <2>1. t.ver >= t.ver
    BY DEF TypeOK, TargetRow
  <2>2. CASE target \subseteq target'
    BY <2>1, <2>2
  <2>3. CASE UpdateRows
    <3>1. PICK u \in target' : UpdatedFrom(t, u)
      BY <2>3, UpdateRowsFacts
    <3>2. CASE u = t
      BY <2>1, <3>2
    <3>3. CASE \E s \in staging : s.id = t.id /\ s.ref = t.ref /\ u.ver = s.ver
      <4>1. PICK s \in staging : s.ref = t.ref /\ u.ver = s.ver
        BY <3>3
      <4>2. ASSUME t.ref \in Single PROVE u.ver >= t.ver
        <5>1. PICK h \in history : s.ref = h.ref /\ s.ver = h.ver
          BY <2>3, <4>1, <4>2 DEF UpdateRows, StagedInv
        <5>2. t.ver <= h.ver
          BY <4>1, <4>2, <5>1 DEF HistoryInv
        <5> QED
          BY <4>1, <5>1, <5>2 DEF TypeOK, TargetRow, HistoryRow
      <4> QED
        BY <3>1, <4>2 DEF UpdatedFrom
    <3> QED
      BY <3>1, <3>2, <3>3 DEF UpdatedFrom
  <2>4. ASSUME ~UpdateRows PROVE target \subseteq target'
    BY <2>4 DEF Next, Call, Accept, Transfer, Rekey, InsertRows, UpdateLines, InsertLines,
                Close, Crash, tables
  <2> QED
    BY <2>2, <2>3, <2>4
<1>2. Spec => []Inv
  BY InvHolds
<1> QED
  BY <1>1, <1>2, PTL DEF Spec, SurrogateKeysAreStable

---------------------------------------------------------------------------
(* The procedures keep the promise of Warehouse to the reader.               *)

BatchOf(d) == Newest({h.ver : h \in RowsOf(d)})

(* What a session holds of a document that is packed once.                   *)
LEMMA BatchFacts ==
  ASSUME TypeOK, HistoryInv, NEW d \in Single
  PROVE  /\ \A h \in history : h.ref = d => BatchOf(d) = h.ver /\ d \in InSession
         /\ d \in InSession => \E h \in history : h.ref = d
         /\ d \notin InSession => BatchOf(d) = 0
         /\ BatchOf(d) \in 0..MaxVer
         /\ BatchOf(d) # 0 <=> d \in InSession
<1>1. ASSUME NEW h \in history, h.ref = d
      PROVE  BatchOf(d) = h.ver /\ d \in InSession /\ h.ver \in 1..MaxVer
  <2>1. RowsOf(d) = {h}
    BY <1>1 DEF RowsOf, HistoryInv
  <2>2. {x.ver : x \in RowsOf(d)} = {h.ver} /\ h.ver \in 1..MaxVer
    BY <2>1 DEF TypeOK, HistoryRow
  <2>3. BatchOf(d) = Newest({h.ver})
    BY <2>2 DEF BatchOf
  <2>4. BatchOf(d) = h.ver
    BY <2>2, <2>3, NewestFacts, SizesAssumption
  <2> QED
    BY <2>1, <2>2, <2>4 DEF InSession, Single
<1>2. d \in InSession => \E h \in history : h.ref = d
  BY DEF InSession, RowsOf, HistoryInv
<1>3. ASSUME d \notin InSession PROVE BatchOf(d) = 0
  <2>1. {x.ver : x \in RowsOf(d)} = {}
    BY <1>3 DEF InSession, Single
  <2> QED
    BY <2>1, NewestFacts DEF BatchOf
<1>4. 0 \in 0..MaxVer /\ \A v \in 1..MaxVer : v # 0 /\ v \in 0..MaxVer
  BY SizesAssumption
<1> QED
  BY <1>1, <1>2, <1>3, <1>4

(* The table part of a document outside the session is that of its version.  *)
LEMMA PartsFacts ==
  ASSUME Inv, NEW d \in Single
  PROVE  /\ partsMap[d] # 0 => partsMap[d] = VersionOf(d)
         /\ d \notin InSession => partsMap[d] = VersionOf(d)
         /\ pc \in {"idle", "done"} => partsMap[d] = VersionOf(d)
BY DEF Inv, PartsMatchRow, partsMap

(* A statement of a session gives some of its documents their new version.   *)
LEMMA ApplyStep ==
  ASSUME Inv, Inv', pc # "idle", pc' # "idle", history' = history,
         \A d \in Single : \/ VersionOf(d)' = VersionOf(d)
                           \/ d \in InSession /\ VersionOf(d)' = BatchOf(d)
  PROVE  W!Apply
<1> DEFINE batch == [d \in Single |-> BatchOf(d)]
           shown == [d \in Single |-> VersionOf(d)]
           D == {d \in Single : d \in InSession /\ VersionOf(d)' = BatchOf(d)}
           E == {d \in Single : d \in InSession /\ partsMap'[d] = 0}
<1>1. D \subseteq W!InBatch /\ E \subseteq W!InBatch
  BY BatchFacts DEF Inv, W!InBatch, BatchOf
<1>2. batch' = batch
  BY DEF BatchOf, RowsOf
<1>3. shown' = [d \in Single |-> IF d \in D THEN batch[d] ELSE shown[d]]
  OBVIOUS
<1>4. partsMap' = [d \in Single |-> IF d \in E THEN 0 ELSE shown'[d]]
  <2>1. partsMap' = [d \in Single |-> partsMap'[d]]
    BY DEF partsMap, Single
  <2>2. ASSUME NEW d \in Single, d \notin E PROVE partsMap'[d] = VersionOf(d)'
    <3>1. InSession' = InSession
      BY DEF InSession, RowsOf
    <3>2. partsMap'[d] # 0 => partsMap'[d] = VersionOf(d)'
      BY DEF Inv, PartsMatchRow, partsMap, Single
    <3>3. d \notin InSession => partsMap'[d] = VersionOf(d)'
      BY <3>1 DEF Inv, PartsMatchRow, partsMap, Single, LinesOf
    <3> QED
      BY <2>2, <3>2, <3>3
  <2> HIDE DEF E
  <2>3. shown' = [d \in Single |-> VersionOf(d)']
    BY DEF Single
  <2>4. \A d \in E : partsMap'[d] = 0
    BY DEF E
  <2> HIDE DEF shown
  <2> QED
    BY <2>1, <2>2, <2>3, <2>4
<1> HIDE DEF D, E
<1>5. \E X, Y \in SUBSET W!InBatch :
        /\ shown' = [d \in Single |-> IF d \in X THEN batch[d] ELSE shown[d]]
        /\ partsMap' = [d \in Single |-> IF d \in Y THEN 0 ELSE shown'[d]]
  <2> HIDE DEF batch, shown
  <2> QED
    BY <1>1, <1>3, <1>4
<1>6. (pc # "idle") /\ UNCHANGED <<batch, pc # "idle">>
  BY <1>2
<1> QED
  BY <1>5, <1>6 DEF W!Apply, BatchOf

(* A statement on target.<star> gives a document the version of the session. *)
LEMMA UpdateRowsApplies ==
  ASSUME Inv, UpdateRows, NEW d \in Single
  PROVE  \/ VersionOf(d)' = VersionOf(d)
         \/ d \in InSession /\ VersionOf(d)' = BatchOf(d)
<1> USE DEF Inv
<1>1. /\ target' \subseteq TargetRow
      /\ \A u \in target' : \E t \in target : UpdatedFrom(t, u)
      /\ \A t \in target : \E u \in target' : UpdatedFrom(t, u)
  BY UpdateRowsFacts
<1>2. Inv'
  BY UpdateRowsInv
<1>3. \A u \in target' : u.nkey = u.ref
  BY <1>2 DEF RowsInv
<1>4. \A u, w \in target' : u.ref = d /\ w.ref = d => u = w
  BY <1>2 DEF RowsInv, Single
<1>5. /\ \A u \in target' : u.ref = d => VersionOf(d)' = u.ver
      /\ (\A u \in target' : u.ref # d) => VersionOf(d)' = 0
  BY <1>1, <1>3, <1>4, VersionIn DEF VersionOf, Single
<1>6. /\ \A t \in target : t.ref = d => VersionOf(d) = t.ver
      /\ (\A t \in target : t.ref # d) => VersionOf(d) = 0
  BY VersionFacts DEF RowsInv, TypeOK, Single
<1>7. CASE \A t \in target : t.ref # d
  BY <1>1, <1>5, <1>6, <1>7 DEF UpdatedFrom
<1>8. CASE \E t \in target : t.ref = d
  <2>1. PICK t \in target : t.ref = d
    BY <1>8
  <2>2. PICK u \in target' : UpdatedFrom(t, u)
    BY <1>1
  <2>3. u.ref = d /\ VersionOf(d)' = u.ver /\ VersionOf(d) = t.ver
    BY <1>5, <1>6, <2>1, <2>2 DEF UpdatedFrom
  <2>4. CASE \E s \in staging : s.ref = t.ref /\ u.ver = s.ver
    <3>1. PICK s \in staging : s.ref = d /\ u.ver = s.ver
      BY <2>1, <2>4
    <3>2. PICK h \in history : s.ref = h.ref /\ s.ver = h.ver
      BY <3>1 DEF UpdateRows, StagedInv
    <3> QED
      BY <2>3, <3>1, <3>2, BatchFacts
  <2> QED
    BY <2>2, <2>3, <2>4 DEF UpdatedFrom
<1> QED
  BY <1>7, <1>8

LEMMA InsertRowsApplies ==
  ASSUME Inv, InsertRows, NEW d \in Single
  PROVE  \/ VersionOf(d)' = VersionOf(d)
         \/ d \in InSession /\ VersionOf(d)' = BatchOf(d)
<1> USE DEF Inv
<1>1. target' = target \cup NewRows(staging)
  BY DEF InsertRows
<1>2. Inv'
  BY InsertRowsInv
<1>3. target' \subseteq TargetRow /\ \A u \in target' : u.nkey = u.ref
  BY <1>2 DEF TypeOK, RowsInv
<1>4. \A u, w \in target' : u.ref = d /\ w.ref = d => u = w
  BY <1>2 DEF RowsInv, Single
<1>5. /\ \A u \in target' : u.ref = d => VersionOf(d)' = u.ver
  BY <1>3, <1>4, VersionIn DEF VersionOf, Single
<1>6. CASE \E n \in NewRows(staging) : n.ref = d
  <2>1. PICK n \in NewRows(staging) : n.ref = d
    BY <1>6
  <2>2. PICK s \in staging : n.ref = s.ref /\ n.ver = s.ver
    BY DEF NewRows
  <2>3. PICK h \in history : s.ref = h.ref /\ s.ver = h.ver
    BY <2>1, <2>2 DEF InsertRows, StagedInv
  <2> QED
    BY <1>1, <1>5, <2>1, <2>2, <2>3, BatchFacts
<1>7. CASE \A n \in NewRows(staging) : n.ref # d
  <2>1. \A n \in NewRows(staging) : n.nkey # d
    BY <1>1, <1>3, <1>7
  <2>2. {x \in target' : x.nkey = d} = {x \in target : x.nkey = d}
    BY <1>1, <2>1
  <2> QED
    BY <2>2, SameVersion
<1> QED
  BY <1>6, <1>7

LEMMA AcceptAccepts ==
  ASSUME Inv, Accept
  PROVE  W!Accept
<1>1. pc = "idle" /\ pc' = "transfer" /\ UNCHANGED tables
  BY DEF Accept
<1>2. Inv'
  BY AcceptInv
<1>3. UNCHANGED <<[d \in Single |-> VersionOf(d)], partsMap>>
  <2>1. \A d \in Single : VersionOf(d)' = VersionOf(d) /\ RowsOfPart(d)' = RowsOfPart(d)
    BY <1>1, SameTables
  <2> QED
    BY <2>1 DEF partsMap, Single, LinesOf
<1>4. ASSUME NEW d \in Single
      PROVE  /\ BatchOf(d)' \in 0..MaxVer
             /\ BatchOf(d)' # 0 => BatchOf(d)' > VersionOf(d)
  <2>1. PICK c \in [Docs -> UNION {Packings(x) : x \in Docs}] :
          /\ \A x \in Docs : c[x] \in Packings(x)
          /\ history' = UNION {c[x] : x \in Docs}
    BY DEF Accept
  <2>2. \A h \in history' : h \in HistoryRow /\ h.ver > VersionOf(h.nkey)
    BY <2>1, PackingsFacts
  <2>3. \A g, h \in history' : g.nkey = d /\ h.nkey = d => g = h
    BY <1>2 DEF Inv, HistoryInv, Single
  <2>4. CASE \E h \in history' : h.nkey = d
    <3>1. PICK h \in history' : h.nkey = d
      BY <2>4
    <3>2. {x.ver : x \in {g \in history' : g.nkey = d}} = {h.ver}
      BY <2>3, <3>1
    <3>3. h.ver \in 1..MaxVer
      BY <2>2 DEF HistoryRow
    <3>4. BatchOf(d)' = Newest({x.ver : x \in {g \in history' : g.nkey = d}})
      BY DEF BatchOf, RowsOf
    <3>5. BatchOf(d)' = h.ver
      <4> DEFINE V == {x.ver : x \in {g \in history' : g.nkey = d}}
      <4>1. h.ver \in Nat
        BY <3>3, SizesAssumption
      <4> DEFINE v == h.ver
      <4> HIDE DEF v
      <4>2. v \in Nat
        BY <4>1 DEF v
      <4>3. Newest({v}) = v
        BY <4>2, NewestFacts
      <4>4. V = {v} /\ BatchOf(d)' = Newest(V)
        BY <3>2, <3>4 DEF v
      <4> HIDE DEF V
      <4> QED
        BY <4>3, <4>4 DEF v
    <3> QED
      BY <2>2, <3>1, <3>3, <3>5, SizesAssumption
  <2>5. CASE \A h \in history' : h.nkey # d
    <3>1. {x.ver : x \in {g \in history' : g.nkey = d}} = {}
      BY <2>5
    <3>2. BatchOf(d)' = 0
      BY <3>1, NewestFacts DEF BatchOf, RowsOf
    <3> QED
      BY <3>2, SizesAssumption
  <2> QED
    BY <2>4, <2>5
<1> QED
  BY <1>1, <1>3, <1>4 DEF W!Accept, W!Versions, BatchOf, Single

LEMMA CloseCloses ==
  ASSUME Inv, Close
  PROVE  W!Close
<1>1. pc = "done" /\ pc' = "idle" /\ UNCHANGED <<tables, history>>
  BY DEF Close
<1>2. UNCHANGED <<[d \in Single |-> VersionOf(d)], partsMap, [d \in Single |-> BatchOf(d)]>>
  <2>1. \A d \in Single : VersionOf(d)' = VersionOf(d) /\ RowsOfPart(d)' = RowsOfPart(d)
    BY <1>1, SameTables
  <2> QED
    BY <1>1, <2>1 DEF partsMap, Single, LinesOf, BatchOf, RowsOf
<1>3. ASSUME NEW d \in Single, BatchOf(d) # 0
      PROVE  VersionOf(d) = BatchOf(d) /\ partsMap[d] = BatchOf(d)
  <2>1. PICK h \in history : h.ref = d
    BY <1>3, BatchFacts DEF Inv
  <2>2. PICK t \in target : t.ref = d /\ t.ver = h.ver
    BY <1>1, <2>1 DEF Inv, AppliedInv
  <2>3. VersionOf(d) = h.ver
    BY <2>2, VersionFacts DEF Inv, RowsInv, TypeOK, Single
  <2> QED
    BY <1>1, <2>1, <2>3, BatchFacts, PartsFacts DEF Inv
<1> QED
  BY <1>1, <1>2, <1>3 DEF W!Close, W!InBatch, BatchOf

(* Reading the tables at any statement boundary, one sees sessions applied   *)
(* one at a time and entirely, no document stepping back, and a table part   *)
(* of the version shown or missing: the statements of the three procedures,  *)
(* and any failure between them, implement Warehouse.                        *)
THEOREM PromiseToReaderTheorem == Spec => PromiseToReader
<1>1. Init => W!Init
  <2> SUFFICES ASSUME Init PROVE W!Init
    OBVIOUS
  <2>1. Inv
    BY InitInv
  <2>2. \A d \in Single : d \notin InSession /\ BatchOf(d) = 0
    BY <2>1, BatchFacts DEF Init, Inv
  <2>3. \A d \in Single : VersionOf(d) = 0
    BY <2>1, VersionFacts DEF Init, Inv, RowsInv, TypeOK, Single
  <2>4. \A d \in Single : partsMap[d] = 0
    BY <2>1, <2>2, <2>3, PartsFacts
  <2>5. partsMap = [d \in Single |-> partsMap[d]]
    BY DEF partsMap
  <2> QED
    BY <2>2, <2>3, <2>4, <2>5 DEF W!Init, Init, BatchOf
<1>2. Inv /\ [Next]_vars => [W!Next]_(W!wvars)
  <2> SUFFICES ASSUME Inv, [Next]_vars PROVE [W!Next]_(W!wvars)
    OBVIOUS
  <2>1. Inv'
    BY NextInv
  <2>2. CASE Accept
    BY <2>2, AcceptAccepts DEF W!Next
  <2>3. CASE Close
    BY <2>3, CloseCloses DEF W!Next
  <2>4. CASE Transfer \/ Rekey \/ UpdateLines \/ InsertLines \/ Crash
    <3>1. pc # "idle" /\ pc' # "idle" /\ history' = history /\ target' = target
      BY <2>4 DEF Transfer, Rekey, UpdateLines, InsertLines, Crash, tables
    <3>2. \A d \in Single : VersionOf(d)' = VersionOf(d)
      BY <3>1 DEF VersionOf
    <3> QED
      BY <2>1, <3>1, <3>2, ApplyStep DEF W!Next
  <2>5. CASE UpdateRows
    <3>1. pc # "idle" /\ pc' # "idle" /\ history' = history
      BY <2>5 DEF UpdateRows
    <3> QED
      BY <2>1, <2>5, <3>1, UpdateRowsApplies, ApplyStep DEF W!Next
  <2>6. CASE InsertRows
    <3>1. pc # "idle" /\ pc' # "idle" /\ history' = history
      BY <2>6 DEF InsertRows
    <3> QED
      BY <2>1, <2>6, <3>1, InsertRowsApplies, ApplyStep DEF W!Next
  <2>7. CASE UNCHANGED vars
    BY <2>7 DEF vars, tables, W!wvars, partsMap, VersionOf, RowsOfPart, RowsOf, LinesOf, Single
  <2> QED
    BY <2>2, <2>3, <2>4, <2>5, <2>6, <2>7 DEF Next, Call
<1>3. Spec => []Inv
  BY InvHolds
<1> QED
  BY <1>1, <1>2, <1>3, PTL DEF Spec, PromiseToReader, W!Spec

---------------------------------------------------------------------------
(* A document that a session holds once heals, whatever earlier sessions     *)
(* that held it twice have left.                                             *)

(* After the transfer: one staged row.                                       *)
OneStaged(h) ==
  \E s \in staging :
    /\ s.ref = h.ref /\ s.ver = h.ver /\ s.cur
    /\ \A u \in staging : u.ref = h.ref => u = s

(* After the rekeying: beside it, rows that close every current row of the   *)
(* document whose id it did not take.                                        *)
OneTaken(h) ==
  \E s \in staging :
    /\ s.ref = h.ref /\ s.ver = h.ver /\ s.cur
    /\ \A u \in staging : u.ref = h.ref /\ u # s => ~u.cur /\ u.id # s.id /\ u.id # u.sid
    /\ \A t \in target : t.ref = h.ref /\ t.cur => \E u \in staging : u.ref = h.ref /\ u.id = t.id

(* After the update: only the row whose id it took is current.               *)
OneWritten(h) ==
  \E s \in staging :
    /\ s.ref = h.ref /\ s.ver = h.ver /\ s.cur
    /\ \A u \in staging : u.ref = h.ref /\ u # s => u.id # u.sid
    /\ \A t \in target : t.ref = h.ref /\ t.cur => t.id = s.id
    /\ \A t \in target : t.id = s.id => t.cur /\ t.ver = h.ver

(* After the insert.                                                         *)
OneCurrent(h) ==
  \E t \in target :
    /\ t.ref = h.ref /\ t.ver = h.ver /\ t.cur
    /\ \A u \in target : u.ref = h.ref /\ u.cur => u = t

Healing(h) ==
  /\ pc = "rekey" => OneStaged(h)
  /\ pc = "update_rows" => OneTaken(h)
  /\ pc = "insert_rows" => OneWritten(h)
  /\ pc \in {"update_lines", "insert_lines", "done"} => OneCurrent(h)
  /\ pc = "done" => RowsOfPart(h.ref) = LinesOf(h.ref, h.ver)

HealInv == \A h \in history : Once(h) => Healing(h)

LEMMA TransferHeals ==
  ASSUME Inv, Transfer, NEW h \in history, Once(h)
  PROVE  OneStaged(h)'
<1> USE DEF Inv
<1>1. IsFiniteSet(history)
  BY DEF HistoryInv
<1>2. PICK m \in Nat : \E f \in Numberings(history, m) : staging' = StagedRows(history, f)
  BY LastIdFacts DEF Transfer, StartFrom, TypeOK, TargetRow
<1>3. PICK f \in Numberings(history, m) : staging' = StagedRows(history, f)
  BY <1>2
<1>4. SidsUnique(staging')
  BY <1>1, <1>3, StagedRowsFacts
<1>5. /\ \A s \in staging' : s.cur /\ \E g \in history : s.ref = g.ref /\ s.sid = f[g]
      /\ \A g \in history : \E s \in staging' : s.ref = g.ref /\ s.ver = g.ver
  BY <1>1, <1>3, StagedRowsFacts
<1>6. PICK s \in staging' : s.ref = h.ref /\ s.ver = h.ver
  BY <1>5
<1>7. ASSUME NEW u \in staging', u.ref = h.ref PROVE u = s
  <2>1. u.sid = f[h] /\ s.sid = f[h]
    BY <1>5, <1>6, <1>7 DEF Once
  <2> QED
    BY <1>4, <2>1 DEF SidsUnique
<1> QED
  BY <1>5, <1>6, <1>7 DEF OneStaged

LEMMA RekeyHeals ==
  ASSUME Inv, Rekey, NEW h \in history, OneStaged(h)
  PROVE  OneTaken(h)'
<1> USE DEF Inv
<1>1. pc = "rekey" /\ target' = target
  BY DEF Rekey
<1>2. PICK k \in Rekeyings(staging, target) :
        \E f \in Numberings(Closing(RekeyedRows(staging, k)), seq) :
          staging' = RekeyedRows(staging, k) \cup ClosingRows(Closing(RekeyedRows(staging, k)), f)
  BY DEF Rekey
<1> DEFINE R == RekeyedRows(staging, k)
           C == Superseded(R, target)
<1>3. PICK f \in Numberings(C, seq) : staging' = R \cup ClosingRows(C, f)
  BY <1>2 DEF Closing
<1> DEFINE Q == ClosingRows(C, f)
<1>4. /\ staging' = R \cup Q /\ R = RekeyedRows(staging, k) /\ C = Superseded(R, target)
      /\ \A q \in Q : ~q.cur /\ \E t \in C : q.id = t.id /\ q.nkey = t.nkey /\ q.ref = t.ref
      /\ \A t \in C : \E q \in Q : q.id = t.id /\ q.ref = t.ref
  <2> DEFINE row(t) == [sid |-> f[t], id |-> t.id, nkey |-> t.nkey, ref |-> t.ref, ver |-> t.ver,
                        cur |-> FALSE]
  <2>1. \A t \in C : /\ ~row(t).cur /\ row(t).id = t.id
                     /\ row(t).nkey = t.nkey /\ row(t).ref = t.ref
    OBVIOUS
  <2>2. Q = {row(t) : t \in C}
    BY DEF ClosingRows
  <2>3. staging' = R \cup Q /\ R = RekeyedRows(staging, k) /\ C = Superseded(R, target)
    BY <1>3
  <2> HIDE DEF row, Q, C, R
  <2>4. \A q \in Q : ~q.cur /\ \E t \in C : q.id = t.id /\ q.nkey = t.nkey /\ q.ref = t.ref
    BY <2>1, <2>2
  <2>5. \A t \in C : \E q \in Q : q.id = t.id /\ q.ref = t.ref
    BY <2>1, <2>2
  <2> QED
    BY <2>3, <2>4, <2>5
<1> HIDE DEF R, C, Q
<1>5. /\ \A t \in target : t.nkey = t.ref
      /\ \A s \in staging : s.nkey = s.ref
  BY <1>1 DEF RowsInv, StagedInv
<1>6. /\ \A r \in R : \E s \in staging :
           /\ r.sid = s.sid /\ r.nkey = s.nkey /\ r.ref = s.ref /\ r.ver = s.ver /\ r.cur = s.cur
      /\ \A s \in staging : \E r \in R :
           /\ r.sid = s.sid /\ r.nkey = s.nkey /\ r.ref = s.ref /\ r.ver = s.ver /\ r.cur = s.cur
      /\ SidsUnique(R)
  <2> DEFINE Ver == 1..MaxVer
  <2>1. /\ staging \subseteq StageRows(Keys, Docs, Ver) /\ IsFiniteSet(staging)
        /\ SidsUnique(staging) /\ \A t \in target : t.id \in Nat
    BY <1>1 DEF StagedInv, TypeOK, StageRow, StageRows, TargetRow
  <2> HIDE DEF Ver
  <2> QED
    BY <1>4, <2>1, RekeyedRowsFacts
<1>7. PICK o \in staging : /\ o.ref = h.ref /\ o.ver = h.ver /\ o.cur
                           /\ \A u \in staging : u.ref = h.ref => u = o
  BY DEF OneStaged
<1>8. PICK s \in R : s.sid = o.sid /\ s.nkey = o.nkey /\ s.ref = o.ref /\ s.ver = o.ver /\ s.cur = o.cur
  BY <1>6
<1>9. \A r \in R : r.ref = h.ref => r = s
  BY <1>6, <1>7, <1>8 DEF SidsUnique
<1>10. ASSUME NEW u \in staging', u.ref = h.ref, u # s
       PROVE  ~u.cur /\ u.id # s.id /\ u.id # u.sid
  <2>1. u \in Q
    BY <1>4, <1>9, <1>10
  <2>2. PICK t \in C : u.id = t.id /\ u.nkey = t.nkey /\ u.ref = t.ref
    BY <1>4, <2>1
  <2>3. PICK r \in R : r.nkey = t.nkey /\ r.id # t.id /\ t \in target
    BY <1>4 DEF Superseded
  <2>4. r.ref = h.ref
    BY <1>5, <1>6, <1>10, <2>2, <2>3
  <2>5. u.id # s.id
    BY <1>9, <2>2, <2>3, <2>4
  <2>6. u.id # u.sid
    <3>1. StagedInv' /\ TypeOK' /\ pc' = "update_rows"
      BY RekeyInv DEF Rekey
    <3>2. t.id < u.sid /\ t.id \in Nat
      BY <1>1, <2>3, <3>1 DEF StagedInv, TypeOK, TargetRow
    <3> QED
      BY <2>2, <3>2
  <2> QED
    BY <1>4, <2>1, <2>5, <2>6
<1>11. ASSUME NEW t \in target, t.ref = h.ref, t.cur
       PROVE  \E u \in staging' : u.ref = h.ref /\ u.id = t.id
  <2>1. CASE t.id = s.id
    BY <1>4, <1>7, <1>8, <2>1
  <2>2. CASE t.id # s.id
    <3>1. s.nkey = t.nkey
      BY <1>5, <1>7, <1>8, <1>11
    <3>2. t \in C
      BY <1>4, <1>11, <2>2, <3>1 DEF Superseded
    <3> QED
      BY <1>4, <1>11, <3>2
  <2> QED
    BY <2>1, <2>2
<1>12. s \in staging' /\ s.ref = h.ref /\ s.ver = h.ver /\ s.cur
  BY <1>4, <1>7, <1>8
<1> QED
  BY <1>1, <1>10, <1>11, <1>12 DEF OneTaken

LEMMA UpdateRowsHeals ==
  ASSUME Inv, UpdateRows, NEW h \in history, OneTaken(h)
  PROVE  OneWritten(h)'
<1> USE DEF Inv
<1>1. pc = "update_rows" /\ staging' = staging
  BY DEF UpdateRows, stage
<1>2. \A u \in target' : \E t \in target : UpdatedFrom(t, u)
  BY UpdateRowsFacts
<1>3. PICK s \in staging :
        /\ s.ref = h.ref /\ s.ver = h.ver /\ s.cur
        /\ \A u \in staging : u.ref = h.ref /\ u # s => ~u.cur /\ u.id # s.id /\ u.id # u.sid
        /\ \A t \in target : t.ref = h.ref /\ t.cur => \E u \in staging : u.ref = h.ref /\ u.id = t.id
  BY DEF OneTaken
<1>4. \A t \in target : t.id = s.id => t.ref = h.ref
  BY <1>1, <1>3 DEF RekeyedInv, RowsInv, StagedInv
<1>5. ASSUME NEW u \in target', u.ref = h.ref, u.cur PROVE u.id = s.id
  <2>1. PICK t \in target : UpdatedFrom(t, u)
    BY <1>2
  <2>2. PICK q \in staging : q.id = t.id /\ q.ref = t.ref /\ u.cur = q.cur
    BY <1>3, <1>5, <2>1 DEF UpdatedFrom
  <2> QED
    BY <1>3, <1>5, <2>1, <2>2 DEF UpdatedFrom
<1>6. ASSUME NEW u \in target', u.id = s.id PROVE u.cur /\ u.ver = h.ver
  <2>1. PICK t \in target : UpdatedFrom(t, u)
    BY <1>2
  <2>2. t.id = s.id /\ t.ref = h.ref
    BY <1>4, <1>6, <2>1 DEF UpdatedFrom
  <2>3. PICK q \in staging : q.id = t.id /\ q.ref = t.ref /\ u.ver = q.ver /\ u.cur = q.cur
    BY <2>1, <2>2 DEF UpdatedFrom
  <2> QED
    BY <1>3, <2>2, <2>3
<1> QED
  BY <1>1, <1>3, <1>5, <1>6 DEF OneWritten

LEMMA InsertRowsHeals ==
  ASSUME Inv, InsertRows, NEW h \in history, OneWritten(h)
  PROVE  OneCurrent(h)'
<1> USE DEF Inv
<1>1. pc = "insert_rows" /\ target' = target \cup NewRows(staging)
  BY DEF InsertRows
<1>2. PICK s \in staging :
        /\ s.ref = h.ref /\ s.ver = h.ver /\ s.cur
        /\ \A u \in staging : u.ref = h.ref /\ u # s => u.id # u.sid
        /\ \A t \in target : t.ref = h.ref /\ t.cur => t.id = s.id
        /\ \A t \in target : t.id = s.id => t.cur /\ t.ver = h.ver
  BY DEF OneWritten
<1>3. /\ \A n \in NewRows(staging) : \E u \in staging : u.sid = u.id /\ n.id = u.id /\ n.ref = u.ref
      /\ s.sid = s.id =>
           \E n \in NewRows(staging) : n.id = s.id /\ n.ref = s.ref /\ n.ver = s.ver /\ n.cur = s.cur
  <2> DEFINE Ver == 1..MaxVer
  <2>1. staging \subseteq StageRows(Keys, Docs, Ver) /\ IsFiniteSet(staging) /\ SidsUnique(staging)
    BY <1>1 DEF StagedInv, TypeOK, StageRow, StageRows
  <2> HIDE DEF Ver
  <2>2. \A n \in NewRows(staging) : \E u \in staging :
          u.sid = u.id /\ n.id = u.sid /\ n.ref = u.ref
    BY <2>1, NewRowsFacts
  <2>3. \A u \in staging : u.sid = u.id => \E n \in NewRows(staging) :
          n.id = u.sid /\ n.ref = u.ref /\ n.ver = u.ver /\ n.cur = u.cur
    BY <2>1, NewRowsFacts
  <2> QED
    BY <2>2, <2>3
<1>4. IdsUnique(target')
  BY InsertRowsInv DEF RowsInv
<1>5. \A u \in target' : u.ref = h.ref /\ u.cur => u.id = s.id
  BY <1>1, <1>2, <1>3
<1>6. \E t \in target' : t.id = s.id /\ t.ref = h.ref /\ t.ver = h.ver /\ t.cur
  <2>1. CASE s.id = s.sid
    BY <1>1, <1>2, <1>3, <2>1
  <2>2. CASE \E t \in target : t.id = s.id
    <3>1. PICK t \in target : t.id = s.id
      BY <2>2
    <3>2. t.ref = s.ref
      BY <1>1, <3>1 DEF RekeyedInv, RowsInv, StagedInv
    <3> QED
      BY <1>1, <1>2, <3>1, <3>2
  <2> QED
    BY <1>1, <2>1, <2>2 DEF RekeyedInv
<1> QED
  BY <1>4, <1>5, <1>6 DEF OneCurrent, IdsUnique

LEMMA HealStep ==
  ASSUME Inv, HealInv, [Next]_vars
  PROVE  HealInv'
<1> SUFFICES ASSUME NEW h \in history', Once(h)' PROVE Healing(h)'
  BY DEF HealInv
<1> USE DEF Healing
<1>1. CASE Accept
  BY <1>1 DEF Accept
<1>2. CASE history' = history
  <2>1. h \in history /\ Once(h) /\ Healing(h)
    BY <1>2 DEF HealInv, Once
  <2> HIDE DEF Healing
  <2> USE <2>1
  <2>2. CASE Transfer
    BY <2>2, TransferHeals DEF Transfer, Healing
  <2>3. CASE Rekey
    BY <2>3, RekeyHeals DEF Rekey, Healing
  <2>4. CASE UpdateRows
    BY <2>4, UpdateRowsHeals DEF UpdateRows, Healing
  <2>5. CASE InsertRows
    BY <2>5, InsertRowsHeals DEF InsertRows, Healing
  <2>6. CASE UpdateLines
    BY <2>6 DEF UpdateLines, Healing, OneCurrent
  <2>7. CASE InsertLines
    <3>1. RowsOfPart(h.ref)' = LinesOf(h.ref, h.ver)
      BY <2>7, InsertLinesInv
    <3>2. OneCurrent(h)'
      BY <2>7 DEF InsertLines, Healing, OneCurrent
    <3> QED
      BY <2>7, <3>1, <3>2 DEF InsertLines, Healing, LinesOf
  <2>8. CASE Close \/ Crash
    BY <2>8 DEF Close, Crash, Healing
  <2>9. CASE UNCHANGED vars
    <3>1. UNCHANGED <<target, tlines, staging, pc>>
      BY <2>9 DEF vars, tables, stage
    <3> QED
      BY <3>1 DEF Healing, OneStaged, OneTaken, OneWritten, OneCurrent, RowsOfPart, LinesOf
  <2> QED
    BY <1>1, <2>2, <2>3, <2>4, <2>5, <2>6, <2>7, <2>8, <2>9 DEF Next, Call
<1> QED
  BY <1>1, <1>2 DEF Next, Call, Transfer, Rekey, UpdateRows, InsertRows, UpdateLines, InsertLines,
                    Close, Crash, vars

LEMMA HealInvHolds == Spec => []HealInv
<1>1. Init => HealInv
  BY DEF Init, HealInv
<1>2. Inv /\ HealInv /\ [Next]_vars => HealInv'
  BY HealStep
<1> QED
  BY <1>1, <1>2, InvHolds, PTL DEF Spec

(* After the last statement a document that the session held once has one    *)
(* current row, of the session's version, and the table part of that         *)
(* version, even if earlier sessions had left several current rows of it.    *)
THEOREM SingleCopyHealsTheorem == Spec => []SingleCopyHeals
<1>1. Inv /\ HealInv => SingleCopyHeals
  <2> SUFFICES ASSUME Inv, HealInv, pc = "done", NEW h \in history,
                      Cardinality(RowsOf(h.nkey)) = 1
               PROVE  /\ Cardinality({t \in target : t.nkey = h.nkey /\ t.cur}) = 1
                      /\ \E t \in target : t.nkey = h.nkey /\ t.cur /\ t.ver = h.ver
                      /\ RowsOfPart(h.nkey) = LinesOf(h.nkey, h.ver)
    BY DEF SingleCopyHeals
  <2> USE DEF Inv
  <2>1. h.nkey = h.ref /\ \A g \in history : g.nkey = g.ref
    BY DEF HistoryInv
  <2>2. Once(h)
    <3>1. RowsOf(h.nkey) \in SUBSET history /\ h \in RowsOf(h.nkey)
      BY DEF RowsOf
    <3>2. IsFiniteSet(RowsOf(h.nkey))
      BY <3>1, FS_Subset DEF HistoryInv
    <3>3. PICK g : RowsOf(h.nkey) = {g}
      BY <3>2, FS_Singleton
    <3> QED
      BY <2>1, <3>1, <3>3 DEF Once, RowsOf
  <2>3. OneCurrent(h) /\ RowsOfPart(h.ref) = LinesOf(h.ref, h.ver)
    BY <2>2 DEF HealInv, Healing
  <2>4. PICK t \in target : /\ t.ref = h.ref /\ t.ver = h.ver /\ t.cur
                            /\ \A u \in target : u.ref = h.ref /\ u.cur => u = t
    BY <2>3 DEF OneCurrent
  <2>5. {u \in target : u.nkey = h.nkey /\ u.cur} = {t}
    BY <2>1, <2>4 DEF RowsInv
  <2>6. Cardinality({u \in target : u.nkey = h.nkey /\ u.cur}) = 1
    BY <2>5, FS_Singleton
  <2> QED
    BY <2>1, <2>3, <2>4, <2>6 DEF RowsInv
<1> QED
  BY <1>1, InvHolds, HealInvHolds, PTL
============================================================================
