------------------------- MODULE StarTablesProofs -------------------------
(***************************************************************************)
(* What the statements of the star procedures return, for any sets of rows: *)
(* lemmas about the operators of StarTables, cited where the modules that   *)
(* use them are proved about.                                               *)
(***************************************************************************)
EXTENDS StarTables, FiniteSetTheorems, TLAPS

TargetRows(Key, Ref, Ver) == [id : Nat, nkey : Key, ref : Ref, ver : Ver, cur : BOOLEAN]
StageRows(Key, Ref, Ver) ==
  [sid : Nat, id : Nat, nkey : Key, ref : Ref, ver : Ver, cur : BOOLEAN]

SidsUnique(S) == \A s, u \in S : s.sid = u.sid => s = u
IdsUnique(T) == \A t, u \in T : t.id = u.id => t = u

---------------------------------------------------------------------------
(* The image of a finite set is finite.                                      *)
LEMMA ImageFinite ==
  ASSUME NEW S, NEW T, IsFiniteSet(S), NEW g \in [S -> T], \A t \in T : \E s \in S : g[s] = t
  PROVE  IsFiniteSet(T)
<1>1. g \in Surjection(S, T)
  BY DEF Surjection
<1> QED
  BY <1>1, FS_Surjection

---------------------------------------------------------------------------
(* Identity columns.                                                         *)

(* Numbers given to rows: distinct, above the last value, and counted.       *)
LEMMA NumberingFacts ==
  ASSUME NEW H, IsFiniteSet(H), NEW n \in Nat, NEW f \in Numberings(H, n)
  PROVE  /\ Cardinality(H) \in Nat
         /\ f \in [H -> Nat]
         /\ \A h \in H : f[h] > n /\ f[h] <= n + Cardinality(H)
         /\ \A g, h \in H : f[g] = f[h] => g = h
<1>1. Cardinality(H) \in Nat
  BY FS_CardinalityType
<1>2. f \in [H -> (n + 1)..(n + Cardinality(H))] /\ IsInjective(f)
  BY DEF Numberings, Injection
<1> QED
  BY <1>1, <1>2 DEF IsInjective

(* MAX(id) bounds all ids.                                                   *)
LEMMA LastIdFacts ==
  ASSUME NEW T, \A t \in T : t.id \in Nat, NEW m, IsLastId(m, T)
  PROVE  m \in Nat /\ \A t \in T : t.id <= m
BY DEF IsLastId, IdsOf

---------------------------------------------------------------------------
(* INSERT staging ... SELECT: each row gets a number of its own.             *)
LEMMA StagedRowsType ==
  ASSUME NEW Key, NEW Ref, NEW Ver,
         NEW H, IsFiniteSet(H), \A h \in H : h.nkey \in Key /\ h.ref \in Ref /\ h.ver \in Ver,
         NEW n \in Nat, NEW f \in Numberings(H, n)
  PROVE  StagedRows(H, f) \subseteq StageRows(Key, Ref, Ver)
<1> DEFINE row(h) == [sid |-> f[h], id |-> 0, nkey |-> h.nkey, ref |-> h.ref, ver |-> h.ver,
                      cur |-> TRUE]
<1>1. StagedRows(H, f) = {row(h) : h \in H}
  BY DEF StagedRows
<1>2. f \in [H -> Nat]
  BY NumberingFacts
<1>3. \A h \in H : row(h) \in StageRows(Key, Ref, Ver)
  BY <1>2 DEF StageRows
<1> HIDE DEF row
<1> QED
  BY <1>1, <1>3

LEMMA StagedRowsFacts ==
  ASSUME NEW H, IsFiniteSet(H), NEW n \in Nat, NEW f \in Numberings(H, n),
         NEW S, S = StagedRows(H, f)
  PROVE  /\ IsFiniteSet(S) /\ SidsUnique(S)
         /\ \A s \in S :
              /\ s.sid \in Nat /\ s.sid > n /\ s.sid <= n + Cardinality(H) /\ s.cur
              /\ \E h \in H : s.nkey = h.nkey /\ s.ref = h.ref /\ s.ver = h.ver /\ s.sid = f[h]
         /\ \A h \in H : \E s \in S : s.nkey = h.nkey /\ s.ref = h.ref /\ s.ver = h.ver
<1> DEFINE row(h) == [sid |-> f[h], id |-> 0, nkey |-> h.nkey, ref |-> h.ref, ver |-> h.ver,
                      cur |-> TRUE]
<1>1. S = {row(h) : h \in H}
  BY DEF StagedRows
<1>2. /\ Cardinality(H) \in Nat /\ f \in [H -> Nat]
      /\ \A h \in H : f[h] > n /\ f[h] <= n + Cardinality(H)
      /\ \A g, h \in H : f[g] = f[h] => g = h
  BY NumberingFacts
<1>3. \A h \in H : /\ row(h).sid = f[h] /\ row(h).cur
                   /\ row(h).nkey = h.nkey /\ row(h).ref = h.ref /\ row(h).ver = h.ver
  OBVIOUS
<1> HIDE DEF row
<1>4. IsFiniteSet(S)
  <2> DEFINE g == [h \in H |-> row(h)]
  <2>1. g \in [H -> S] /\ \A s \in S : \E h \in H : g[h] = s
    BY <1>1
  <2> QED
    BY <2>1, ImageFinite
<1>5. SidsUnique(S)
  BY <1>1, <1>2, <1>3 DEF SidsUnique
<1>6. \A s \in S :
        /\ s.sid \in Nat /\ s.sid > n /\ s.sid <= n + Cardinality(H) /\ s.cur
        /\ \E h \in H : s.nkey = h.nkey /\ s.ref = h.ref /\ s.ver = h.ver /\ s.sid = f[h]
  BY <1>1, <1>2, <1>3
<1>7. \A h \in H : \E s \in S : s.nkey = h.nkey /\ s.ref = h.ref /\ s.ver = h.ver
  BY <1>1, <1>3
<1> QED
  BY <1>4, <1>5, <1>6, <1>7

---------------------------------------------------------------------------
(* UPDATE staging SET id: a row takes the id of a current row of its key, or *)
(* its own number when there is none.                                        *)
LEMMA RekeyingFacts ==
  ASSUME NEW S, NEW T, NEW k \in Rekeyings(S, T), NEW s \in S
  PROVE  \/ k[s] = s.sid /\ Matches(s, T) = {}
         \/ \E t \in Matches(s, T) : k[s] = t.id
BY DEF Rekeyings, IdChoices, IdsOf

LEMMA RekeyedRowsFacts ==
  ASSUME NEW Key, NEW Ref, NEW Ver,
         NEW S, S \subseteq StageRows(Key, Ref, Ver), IsFiniteSet(S), SidsUnique(S),
         NEW T, \A t \in T : t.id \in Nat, NEW k \in Rekeyings(S, T),
         NEW R, R = RekeyedRows(S, k)
  PROVE  /\ R \subseteq StageRows(Key, Ref, Ver) /\ IsFiniteSet(R)
         /\ SidsUnique(R)
         /\ \A r \in R : \E s \in S :
              /\ r.sid = s.sid /\ r.nkey = s.nkey /\ r.ref = s.ref /\ r.ver = s.ver /\ r.cur = s.cur
              /\ r.id = k[s]
         /\ \A s \in S : \E r \in R :
              r.sid = s.sid /\ r.nkey = s.nkey /\ r.ref = s.ref /\ r.ver = s.ver /\ r.cur = s.cur
<1> DEFINE row(s) == [s EXCEPT !.id = k[s]]
<1>1. R = {row(s) : s \in S}
  BY DEF RekeyedRows
<1>2. \A s \in S : k[s] \in Nat
  <2> TAKE s \in S
  <2>1. k[s] = s.sid \/ \E t \in T : k[s] = t.id
    BY RekeyingFacts DEF Matches
  <2> QED
    BY <2>1 DEF StageRows
<1>3. \A s \in S : /\ row(s) \in StageRows(Key, Ref, Ver)
                   /\ row(s).sid = s.sid /\ row(s).nkey = s.nkey /\ row(s).ref = s.ref
                   /\ row(s).ver = s.ver /\ row(s).cur = s.cur /\ row(s).id = k[s]
  BY <1>2 DEF StageRows
<1> HIDE DEF row
<1>4. IsFiniteSet(R)
  <2> DEFINE g == [s \in S |-> row(s)]
  <2>1. g \in [S -> R] /\ \A r \in R : \E s \in S : g[s] = r
    BY <1>1
  <2> QED
    BY <2>1, ImageFinite
<1>5. SidsUnique(R)
  BY <1>1, <1>3 DEF SidsUnique
<1>6. R \subseteq StageRows(Key, Ref, Ver)
  BY <1>1, <1>3
<1> QED
  BY <1>1, <1>3, <1>4, <1>5, <1>6

(* The rows staged once more to be closed.                                   *)
LEMMA ClosingRowsFacts ==
  ASSUME NEW Key, NEW Ref, NEW Ver,
         NEW C, C \subseteq TargetRows(Key, Ref, Ver), IsFiniteSet(C),
         NEW n \in Nat, NEW f \in Numberings(C, n), NEW R, R = ClosingRows(C, f)
  PROVE  /\ R \subseteq StageRows(Key, Ref, Ver)
         /\ SidsUnique(R)
         /\ \A r \in R : r.sid > n /\ ~r.cur
                         /\ \E t \in C : r.id = t.id /\ r.nkey = t.nkey /\ r.ref = t.ref
<1> DEFINE row(t) == [sid |-> f[t], id |-> t.id, nkey |-> t.nkey, ref |-> t.ref, ver |-> t.ver,
                      cur |-> FALSE]
<1>1. R = {row(t) : t \in C}
  BY DEF ClosingRows
<1>2. /\ f \in [C -> Nat] /\ \A t \in C : f[t] > n
      /\ \A t, u \in C : f[t] = f[u] => t = u
  BY NumberingFacts
<1>3. \A t \in C : /\ row(t) \in StageRows(Key, Ref, Ver)
                   /\ row(t).sid = f[t] /\ row(t).id = t.id /\ row(t).nkey = t.nkey
                   /\ row(t).ref = t.ref /\ ~row(t).cur
  BY <1>2 DEF StageRows, TargetRows
<1> HIDE DEF row
<1>4. R \subseteq StageRows(Key, Ref, Ver) /\ SidsUnique(R)
  BY <1>1, <1>2, <1>3 DEF SidsUnique
<1>5. \A r \in R : r.sid > n /\ ~r.cur
                   /\ \E t \in C : r.id = t.id /\ r.nkey = t.nkey /\ r.ref = t.ref
  BY <1>1, <1>2, <1>3
<1> QED
  BY <1>4, <1>5

---------------------------------------------------------------------------
(* UPDATE target: keys stay, and the rest comes from a source of the row.    *)
RowUpdated(t, u, S) ==
  /\ u.id = t.id /\ u.nkey = t.nkey
  /\ \/ u = t /\ Sources(t, S) = {}
     \/ \E s \in Sources(t, S) : u.ref = s.ref /\ u.ver = s.ver /\ u.cur = s.cur

LEMMA UpdatedRowFacts ==
  ASSUME NEW Key, NEW Ref, NEW Ver,
         NEW T, T \subseteq TargetRows(Key, Ref, Ver),
         NEW S, S \subseteq StageRows(Key, Ref, Ver),
         NEW p \in Updates(T, S), NEW t \in T
  PROVE  /\ UpdatedRow(t, p) \in TargetRows(Key, Ref, Ver)
         /\ RowUpdated(t, UpdatedRow(t, p), S)
<1> DEFINE touched == {x \in T : Sources(x, S) # {}}
<1>1. DOMAIN p = touched /\ \A x \in touched : p[x] \in Sources(x, S)
  BY DEF Updates
<1>2. CASE t \notin touched
  BY <1>1, <1>2 DEF UpdatedRow, RowUpdated
<1>3. CASE t \in touched
  <2>1. p[t] \in S /\ p[t] \in Sources(t, S)
    BY <1>1, <1>3 DEF Sources
  <2>2. UpdatedRow(t, p) = [t EXCEPT !.ref = p[t].ref, !.ver = p[t].ver, !.cur = p[t].cur]
    BY <1>1, <1>3 DEF UpdatedRow
  <2> QED
    BY <2>1, <2>2 DEF TargetRows, StageRows, RowUpdated
<1> QED
  BY <1>2, <1>3

LEMMA UpdatedRowsFacts ==
  ASSUME NEW Key, NEW Ref, NEW Ver,
         NEW T, T \subseteq TargetRows(Key, Ref, Ver), IsFiniteSet(T), IdsUnique(T),
         NEW S, S \subseteq StageRows(Key, Ref, Ver),
         NEW p \in Updates(T, S), NEW U, U = UpdatedRows(T, p)
  PROVE  /\ U \subseteq TargetRows(Key, Ref, Ver) /\ IsFiniteSet(U)
         /\ IdsUnique(U)
         /\ \A u \in U : \E t \in T : u = UpdatedRow(t, p)
         /\ \A t \in T : UpdatedRow(t, p) \in U
         /\ (\A t \in T : Sources(t, S) = {}) => U = T
<1>1. U = {UpdatedRow(t, p) : t \in T}
  BY DEF UpdatedRows
<1>2. \A t \in T : /\ UpdatedRow(t, p) \in TargetRows(Key, Ref, Ver)
                   /\ UpdatedRow(t, p).id = t.id
                   /\ Sources(t, S) = {} => UpdatedRow(t, p) = t
  <2> TAKE t \in T
  <2>1. UpdatedRow(t, p) \in TargetRows(Key, Ref, Ver) /\ RowUpdated(t, UpdatedRow(t, p), S)
    BY UpdatedRowFacts
  <2> QED
    BY <2>1 DEF RowUpdated
<1>3. IsFiniteSet(U)
  <2> DEFINE g == [t \in T |-> UpdatedRow(t, p)]
  <2>1. g \in [T -> U] /\ \A u \in U : \E t \in T : g[t] = u
    BY <1>1
  <2> QED
    BY <2>1, ImageFinite
<1>4. IdsUnique(U)
  BY <1>1, <1>2 DEF IdsUnique
<1>5. (\A t \in T : Sources(t, S) = {}) => U = T
  BY <1>1, <1>2
<1> QED
  BY <1>1, <1>2, <1>3, <1>4, <1>5

---------------------------------------------------------------------------
(* INSERT target: the staged rows that kept their own number.                *)
LEMMA NewRowsFacts ==
  ASSUME NEW Key, NEW Ref, NEW Ver,
         NEW S, S \subseteq StageRows(Key, Ref, Ver), IsFiniteSet(S), SidsUnique(S),
         NEW N, N = NewRows(S)
  PROVE  /\ N \subseteq TargetRows(Key, Ref, Ver) /\ IsFiniteSet(N)
         /\ IdsUnique(N)
         /\ \A n \in N : \E s \in S :
              /\ s.sid = s.id /\ n.id = s.sid
              /\ n.nkey = s.nkey /\ n.ref = s.ref /\ n.ver = s.ver /\ n.cur = s.cur
         /\ \A s \in S : s.sid = s.id => \E n \in N :
              /\ n.id = s.sid
              /\ n.nkey = s.nkey /\ n.ref = s.ref /\ n.ver = s.ver /\ n.cur = s.cur
<1> DEFINE row(s) == [id |-> s.id, nkey |-> s.nkey, ref |-> s.ref, ver |-> s.ver, cur |-> s.cur]
           Own == {x \in S : x.sid = x.id}
<1>1. N = {row(s) : s \in Own}
  BY DEF NewRows
<1>2. \A s \in S : /\ row(s) \in TargetRows(Key, Ref, Ver)
                   /\ row(s).id = s.id /\ row(s).nkey = s.nkey /\ row(s).ref = s.ref
                   /\ row(s).ver = s.ver /\ row(s).cur = s.cur
  BY DEF TargetRows, StageRows
<1> HIDE DEF row
<1>3. N \subseteq TargetRows(Key, Ref, Ver)
  BY <1>1, <1>2
<1>4. IsFiniteSet(N)
  <2> DEFINE g == [s \in Own |-> row(s)]
  <2>1. g \in [Own -> N] /\ \A n \in N : \E s \in Own : g[s] = n
    BY <1>1
  <2>2. IsFiniteSet(Own)
    BY FS_Subset, Own \in SUBSET S
  <2> HIDE DEF g, Own
  <2> QED
    BY <2>1, <2>2, ImageFinite
<1>5. IdsUnique(N)
  BY <1>1, <1>2 DEF IdsUnique, SidsUnique
<1>6. \A n \in N : \E s \in S :
        /\ s.sid = s.id /\ n.id = s.sid
        /\ n.nkey = s.nkey /\ n.ref = s.ref /\ n.ver = s.ver /\ n.cur = s.cur
  BY <1>1, <1>2
<1>7. \A s \in S : s.sid = s.id => \E n \in N :
        /\ n.id = s.sid
        /\ n.nkey = s.nkey /\ n.ref = s.ref /\ n.ver = s.ver /\ n.cur = s.cur
  BY <1>1, <1>2
<1> QED
  BY <1>3, <1>4, <1>5, <1>6, <1>7

---------------------------------------------------------------------------
(* Rows of table parts, without their numbers.                               *)
PartIn(L, d) == {[nkey |-> l.nkey, ref |-> l.ref, ver |-> l.ver] : l \in {x \in L : x.ref = d}}

(* A part depends on keys and versions only, not on numbers.                 *)
LEMMA SamePart ==
  ASSUME NEW A, NEW B, NEW d,
         \A a \in A : \E b \in B : a.nkey = b.nkey /\ a.ref = b.ref /\ a.ver = b.ver,
         \A b \in B : \E a \in A : a.nkey = b.nkey /\ a.ref = b.ref /\ a.ver = b.ver
  PROVE  PartIn(A, d) = PartIn(B, d)
<1>1. ASSUME NEW x \in PartIn(A, d) PROVE x \in PartIn(B, d)
  <2>1. PICK a \in A : a.ref = d /\ x = [nkey |-> a.nkey, ref |-> a.ref, ver |-> a.ver]
    BY DEF PartIn
  <2>2. PICK b \in B : a.nkey = b.nkey /\ a.ref = b.ref /\ a.ver = b.ver
    OBVIOUS
  <2> QED
    BY <2>1, <2>2 DEF PartIn
<1>2. ASSUME NEW x \in PartIn(B, d) PROVE x \in PartIn(A, d)
  <2>1. PICK b \in B : b.ref = d /\ x = [nkey |-> b.nkey, ref |-> b.ref, ver |-> b.ver]
    BY DEF PartIn
  <2>2. PICK a \in A : a.nkey = b.nkey /\ a.ref = b.ref /\ a.ver = b.ver
    OBVIOUS
  <2> QED
    BY <2>1, <2>2 DEF PartIn
<1> QED
  BY <1>1, <1>2

(* UPDATE staging.<table part> SET id = staging_id.                          *)
IsStageRow(s) ==
  s = [sid |-> s.sid, id |-> s.id, nkey |-> s.nkey, ref |-> s.ref, ver |-> s.ver, cur |-> s.cur]

LEMMA OwnIdsFacts ==
  ASSUME NEW S, \A s \in S : IsStageRow(s)
  PROVE  /\ \A r \in OwnIds(S) : r.id = r.sid
         /\ \A r \in OwnIds(S) : \E s \in S :
              /\ r.sid = s.sid /\ r.nkey = s.nkey /\ r.ref = s.ref /\ r.ver = s.ver
              /\ r.cur = s.cur /\ IsStageRow(r)
         /\ \A s \in S : \E r \in OwnIds(S) :
              r.sid = s.sid /\ r.nkey = s.nkey /\ r.ref = s.ref /\ r.ver = s.ver
         /\ SidsUnique(S) => SidsUnique(OwnIds(S))
         /\ IsFiniteSet(S) => IsFiniteSet(OwnIds(S))
<1> DEFINE row(s) == [s EXCEPT !.id = s.sid]
           R == OwnIds(S)
<1>1. R = {row(s) : s \in S}
  BY DEF OwnIds
<1>2. \A s \in S : /\ row(s).id = row(s).sid /\ row(s).sid = s.sid /\ row(s).nkey = s.nkey
                   /\ row(s).ref = s.ref /\ row(s).ver = s.ver /\ row(s).cur = s.cur
                   /\ IsStageRow(row(s))
  BY DEF IsStageRow
<1> HIDE DEF row
<1>3. IsFiniteSet(S) => IsFiniteSet(R)
  <2> DEFINE g == [s \in S |-> row(s)]
  <2>1. g \in [S -> R] /\ \A r \in R : \E s \in S : g[s] = r
    BY <1>1
  <2> HIDE DEF g, R
  <2> QED
    BY <2>1, ImageFinite
<1>4. SidsUnique(S) => SidsUnique(R)
  BY <1>1, <1>2 DEF SidsUnique
<1> QED
  BY <1>1, <1>2, <1>3, <1>4
============================================================================
