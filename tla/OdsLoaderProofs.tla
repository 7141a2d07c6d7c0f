-------------------------- MODULE OdsLoaderProofs --------------------------
(***************************************************************************)
(* Proofs about OdsLoader, for every set of documents, any messages in any  *)
(* order and every bound: odins follows the order in which messages arrive, *)
(* errors are kept, and nothing is dropped as long as no message arrives    *)
(* during a call that purges the history.                                   *)
(***************************************************************************)
EXTENDS OdsLoader, WellFoundedInduction, TLAPS

(* No message arrives while a call of mode 2 or 3 runs.                      *)
QuietPurge == \A m \in Overlapping : m < 2

---------------------------------------------------------------------------
(* The inductive invariant, in named parts.                                  *)

(* A flagged row is not taken for an unprocessed one.                        *)
RowInv == \A b \in buffer : b.error => b.seen # MinDate

(* A row of odins was made from a message of its document, and every message *)
(* that waits arrived later than all that were loaded.                       *)
OdinsInv ==
  /\ \A d \in Docs : odins[d] # 0 => odins[d] \in MessagesOf(d)
  /\ \A d \in Docs : \A b \in Fresh : odins[d] < b.id

(* The list of the running call has unprocessed rows only; a row that        *)
(* arrived after the list was taken has a later number, and there is none    *)
(* when nothing may arrive.                                                  *)
ListInv ==
  pc # "idle" =>
    /\ \A i \in call.locked : i <= Len(arrived)
    /\ \A b \in Locked : b.seen = MinDate
    /\ \A b \in Fresh : b.id \notin call.locked =>
         /\ call.mode \in Overlapping
         /\ \A i \in call.locked : i < b.id

(* What a call is about to commit for a document is its newest row of the    *)
(* list, or the old one.                                                     *)
WorkInv ==
  pc = "clean" =>
    /\ \A b \in WithRef(Locked) : b.id <= work[DocOf(b)]
    /\ \A d \in Docs :
         work[d] = odins[d] \/ \E b \in WithRef(Locked) : DocOf(b) = d /\ work[d] = b.id

Inv ==
  /\ TypeOK
  /\ RowInv
  /\ OdinsInv
  /\ ListInv
  /\ WorkInv

---------------------------------------------------------------------------
(* A set of numbers up to n that is not empty has a greatest one.            *)
LEMMA NatMax ==
  ASSUME NEW n \in Nat, NEW T \in SUBSET (0..n), T # {}
  PROVE  \E m \in T : \A i \in T : i <= m
<1> DEFINE Below == {n - i : i \in T}
<1>1. Below \subseteq Nat
  <2>1. \A i \in T : n - i \in Nat
    OBVIOUS
  <2> QED
    BY <2>1
<1>2. Below # {}
  <2>1. PICK i \in T : TRUE
    OBVIOUS
  <2>2. n - i \in Below
    OBVIOUS
  <2> QED
    BY <2>2
<1>3. PICK x \in Below : \A y \in Below : ~(<<y, x>> \in OpToRel(<, Nat))
  BY <1>1, <1>2, NatLessThanWellFounded, WFMin, Zenon
<1>4. \A y \in Below : ~(y < x)
  BY <1>1, <1>3 DEF OpToRel
<1>5. PICK m \in T : x = n - m
  OBVIOUS
<1>6. \A i \in T : i <= m
  <2> TAKE i \in T
  <2>1. n - i \in Below
    OBVIOUS
  <2>2. ~(n - i < n - m)
    BY <2>1, <1>4, <1>5
  <2> QED
    BY <2>2
<1> QED
  BY <1>6

(* Facts about a row of the buffer that every case below uses.               *)
LEMMA RowType ==
  ASSUME TypeOK, NEW b \in buffer
  PROVE  /\ b.id \in 1..MaxRows /\ b.id \in 1..Len(arrived) /\ b.error \in BOOLEAN
         /\ b.seen \in {MinDate} \cup FirstDay..MaxDay
         /\ arrived[b.id] \in Messages
         /\ DocOf(b) \in Docs /\ KindOf(b) \in AllKinds
<1>1. b \in BufferRow /\ b.id <= Len(arrived)
  BY DEF TypeOK
<1>2. b.id \in 1..MaxRows /\ b.error \in BOOLEAN /\ b.seen \in {MinDate} \cup FirstDay..MaxDay
  BY <1>1 DEF BufferRow
<1>3. arrived \in Seq(Messages) /\ b.id \in 1..Len(arrived)
  BY <1>1, <1>2, BoundsAssumption DEF TypeOK
<1>4. arrived[b.id] \in Messages
  BY <1>3
<1> QED
  BY <1>2, <1>3, <1>4, MessagesAssumption DEF DocOf, KindOf

(* Each document of the list has a newest row there, and only one.           *)
LEMMA NewestOfDoc ==
  ASSUME TypeOK, NEW b \in WithRef(Locked)
  PROVE  \E c \in Newest(Locked) : DocOf(c) = DocOf(b) /\ b.id <= c.id
<1> DEFINE T == {c.id : c \in {x \in WithRef(Locked) : DocOf(x) = DocOf(b)}}
<1>1. \A c \in WithRef(Locked) : c.id \in 1..MaxRows
  BY RowType DEF WithRef, Locked
<1>2. T \in SUBSET (0..MaxRows) /\ T # {}
  BY <1>1, BoundsAssumption
<1>3. PICK m \in T : \A i \in T : i <= m
  BY <1>2, NatMax, BoundsAssumption
<1>4. PICK c \in WithRef(Locked) : DocOf(c) = DocOf(b) /\ c.id = m
  OBVIOUS
<1>5. \A x \in WithRef(Locked) : DocOf(x) = DocOf(c) => x.id <= c.id
  BY <1>3, <1>4
<1> QED
  BY <1>4, <1>5 DEF Newest

LEMMA NewestIsOne ==
  ASSUME TypeOK, NEW b \in Newest(Locked), NEW c \in Newest(Locked), DocOf(b) = DocOf(c)
  PROVE  b = c
<1>1. b.id <= c.id /\ c.id <= b.id
  BY DEF Newest
<1>2. b \in buffer /\ c \in buffer
  BY DEF Newest, WithRef, Locked
<1>3. b.id \in Nat /\ c.id \in Nat
  BY <1>2, RowType, BoundsAssumption
<1>4. b.id = c.id
  BY <1>1, <1>3
<1> QED
  BY <1>2, <1>4, Zenon DEF TypeOK

---------------------------------------------------------------------------
(* Typing and the invariant at the start.                                    *)

LEMMA FirstDayType == FirstDay \in Nat /\ FirstDay > MinDate /\ FirstDay \in FirstDay..MaxDay
  BY BoundsAssumption DEF FirstDay, MinDate

LEMMA InitInv == Init => Inv
<1> SUFFICES ASSUME Init PROVE Inv
  OBVIOUS
<1>1. TypeOK
  BY BoundsAssumption, FirstDayType DEF Init, TypeOK, Calls, NoCall
<1>2. RowInv /\ OdinsInv
  BY DEF Init, RowInv, OdinsInv, Fresh
<1>3. ListInv /\ WorkInv
  BY DEF Init, ListInv, WorkInv
<1> QED
  BY <1>1, <1>2, <1>3 DEF Inv

---------------------------------------------------------------------------
(* The environment: messages and days.                                       *)

(* A message that arrives gets the next number and changes no other.         *)
LEMMA Appended ==
  ASSUME arrived \in Seq(Messages), NEW m \in Messages, arrived' = Append(arrived, m)
  PROVE  /\ arrived' \in Seq(Messages) /\ Len(arrived) \in Nat
         /\ Len(arrived') = Len(arrived) + 1
         /\ \A i \in 1..Len(arrived) : arrived'[i] = arrived[i] /\ i \in 1..Len(arrived')
         /\ \A d : MessagesOf(d) \subseteq MessagesOf(d)'
<1>1. /\ arrived' \in Seq(Messages) /\ Len(arrived) \in Nat /\ Len(arrived') = Len(arrived) + 1
      /\ \A i \in 1..Len(arrived) : arrived'[i] = arrived[i]
  OBVIOUS
<1>2. \A i \in 1..Len(arrived) : i \in 1..Len(arrived')
  BY <1>1
<1>3. \A d : MessagesOf(d) \subseteq MessagesOf(d)'
  BY <1>1, <1>2 DEF MessagesOf
<1> QED
  BY <1>1, <1>2, <1>3

LEMMA ReceiveInv ==
  ASSUME Inv, NEW m \in Messages, Receive(m)
  PROVE  Inv' /\ (NothingDropped => NothingDropped')
<1> DEFINE k == Len(arrived) + 1
           n == [id |-> k, error |-> FALSE, seen |-> MinDate]
<1> USE BoundsAssumption
<1>1. /\ buffer' = buffer \cup {n} /\ arrived' = Append(arrived, m)
      /\ UNCHANGED <<odins, today, pc, call, work, lost>> /\ Len(arrived) < MaxRows
      /\ pc = "idle" \/ call.mode \in Overlapping
  BY DEF Receive
<1>2. /\ arrived' \in Seq(Messages) /\ Len(arrived) \in Nat
      /\ Len(arrived') = k
      /\ \A i \in 1..Len(arrived) : arrived'[i] = arrived[i] /\ i \in 1..Len(arrived')
      /\ \A d : MessagesOf(d) \subseteq MessagesOf(d)'
  BY <1>1, Appended DEF Inv, TypeOK
<1>3. \A b \in buffer : b.id \in 1..Len(arrived) /\ b.id < k /\ b.id \in Nat
  BY <1>2, RowType DEF Inv
<1>4. n.id = k /\ n.seen = MinDate /\ n.error = FALSE /\ n \in BufferRow
  BY <1>1, <1>2 DEF BufferRow
<1> HIDE DEF n
<1>5. TypeOK'
  <2>1. \A a, b \in buffer' : a.id = b.id => a = b
    <3> SUFFICES ASSUME NEW a \in buffer', NEW b \in buffer', a.id = b.id PROVE a = b
      OBVIOUS
    <3>1. CASE a \in buffer /\ b \in buffer
      BY <3>1 DEF Inv, TypeOK
    <3>2. CASE a = n \/ b = n
      BY <1>1, <1>2, <1>3, <1>4, <3>2
    <3> QED
      BY <1>1, <3>1, <3>2
  <2>2. \A b \in buffer' : b.id <= Len(arrived')
    BY <1>1, <1>2, <1>3, <1>4
  <2>3. Len(arrived') <= MaxRows
    BY <1>1, <1>2
  <2> QED
    BY <1>1, <1>2, <1>4, <2>1, <2>2, <2>3 DEF Inv, TypeOK
<1>6. RowInv'
  BY <1>1, <1>4 DEF Inv, RowInv
<1>7. OdinsInv'
  <2>1. \A d \in Docs : odins[d] \in Nat /\ (odins[d] # 0 => odins[d] \in 1..Len(arrived))
    <3> TAKE d \in Docs
    <3>1. odins[d] \in Nat
      BY BoundsAssumption DEF Inv, TypeOK
    <3>2. odins[d] # 0 => odins[d] \in MessagesOf(d)
      BY DEF Inv, OdinsInv
    <3>3. MessagesOf(d) \subseteq 1..Len(arrived)
      BY DEF MessagesOf
    <3> QED
      BY <3>1, <3>2, <3>3
  <2>2. \A d \in Docs : odins'[d] < k
    BY <1>1, <1>2, <2>1
  <2>3. \A d \in Docs : \A b \in Fresh' : odins'[d] < b.id
    BY <1>1, <1>4, <2>2 DEF Inv, OdinsInv, Fresh
  <2>4. \A d \in Docs : odins'[d] # 0 => odins'[d] \in MessagesOf(d)'
    BY <1>1, <1>2 DEF Inv, OdinsInv
  <2> QED
    BY <2>3, <2>4 DEF OdinsInv
<1>8. ASSUME pc # "idle"
      PROVE  /\ Locked' = Locked /\ n.id \notin call.locked
             /\ \A i \in call.locked : i <= Len(arrived) /\ i \in Nat
  <2>1. \A i \in call.locked : i <= Len(arrived) /\ i \in Nat
    BY <1>8 DEF Inv, ListInv, TypeOK, Calls
  <2>2. n.id \notin call.locked
    BY <1>2, <1>4, <2>1
  <2> QED
    BY <1>1, <2>1, <2>2 DEF Locked
<1>9. ListInv'
  <2> SUFFICES ASSUME pc' # "idle"
               PROVE  /\ \A i \in call'.locked : i <= Len(arrived')
                      /\ \A b \in Locked' : b.seen = MinDate
                      /\ \A b \in Fresh' : b.id \notin call'.locked =>
                           /\ call'.mode \in Overlapping
                           /\ \A i \in call'.locked : i < b.id
    BY DEF ListInv
  <2>1. pc # "idle"
    BY <1>1
  <2>2. \A i \in call'.locked : i <= Len(arrived') /\ i < k
    BY <1>1, <1>2, <1>8, <2>1
  <2>3. \A b \in Locked' : b.seen = MinDate
    BY <1>8, <2>1 DEF Inv, ListInv
  <2>4. ASSUME NEW b \in Fresh', b.id \notin call'.locked
        PROVE  call'.mode \in Overlapping /\ \A i \in call'.locked : i < b.id
    <3>1. CASE b \in Fresh
      BY <1>1, <2>1, <2>4, <3>1 DEF Inv, ListInv
    <3>2. CASE b = n
      BY <1>1, <1>4, <2>1, <2>2, <3>2
    <3> QED
      BY <1>1, <3>1, <3>2 DEF Fresh
  <2> QED
    BY <2>2, <2>3, <2>4
<1>10. WorkInv'
  <2> SUFFICES ASSUME pc = "clean"
               PROVE  WorkInv'
    BY <1>1 DEF WorkInv
  <2>1. Locked' = Locked /\ \A b \in Locked : arrived'[b.id] = arrived[b.id]
    BY <1>2, <1>3, <1>8 DEF Locked
  <2>2. /\ WithRef(Locked)' = WithRef(Locked)
        /\ \A b \in WithRef(Locked) : DocOf(b)' = DocOf(b)
    BY <2>1 DEF WithRef, DocOf, KindOf
  <2>3. \A b \in WithRef(Locked)' : b.id <= work'[DocOf(b)']
    BY <1>1, <2>2 DEF Inv, WorkInv
  <2>4. \A d \in Docs : \/ work'[d] = odins'[d]
                        \/ \E b \in WithRef(Locked)' : DocOf(b)' = d /\ work'[d] = b.id
    BY <1>1, <2>2 DEF Inv, WorkInv
  <2> QED
    BY <2>3, <2>4 DEF WorkInv
<1>11. NothingDropped => NothingDropped'
  <2> SUFFICES ASSUME NothingDropped, NEW i \in 1..Len(arrived')
               PROVE  \/ arrived'[i].kind = "blank"
                      \/ odins'[arrived'[i].doc] >= i
                      \/ \E b \in buffer' : b.id = i /\ (b.seen = MinDate \/ b.error)
    BY DEF NothingDropped
  <2>1. CASE i = k
    BY <1>1, <1>4, <2>1
  <2>2. CASE i # k
    <3>1. i \in 1..Len(arrived) /\ arrived'[i] = arrived[i]
      BY <1>2, <2>2
    <3> QED
      BY <1>1, <3>1 DEF NothingDropped
  <2> QED
    BY <2>1, <2>2
<1> QED
  BY <1>5, <1>6, <1>7, <1>9, <1>10, <1>11 DEF Inv

LEMMA NextDayInv ==
  ASSUME Inv, NextDay
  PROVE  Inv' /\ (NothingDropped => NothingDropped')
<1>1. UNCHANGED <<buffer, arrived, odins, pc, call, work, lost>>
  BY DEF NextDay
<1>2. TypeOK'
  BY FirstDayType, BoundsAssumption DEF Inv, TypeOK, NextDay
<1>3. (RowInv /\ OdinsInv /\ ListInv /\ WorkInv)'
  BY <1>1 DEF Inv, RowInv, OdinsInv, ListInv, WorkInv, Fresh, Locked, MessagesOf, WithRef,
              DocOf, KindOf
<1>4. NothingDropped => NothingDropped'
  BY <1>1 DEF NothingDropped
<1> QED
  BY <1>2, <1>3, <1>4 DEF Inv

---------------------------------------------------------------------------
(* The loader.                                                               *)

LEMMA LockInv ==
  ASSUME Inv, NEW mode \in Modes, Lock(mode)
  PROVE  Inv' /\ (NothingDropped => NothingDropped')
<1>1. /\ UNCHANGED <<buffer, env, odins, lost>> /\ pc' = "load" /\ work' = odins
      /\ call' = [mode |-> mode, day |-> today, locked |-> {b.id : b \in Fresh}]
  BY DEF Lock
<1>2. \A b \in Fresh : b \in buffer /\ b.id \in 1..MaxRows /\ b.id <= Len(arrived) /\ b.seen = MinDate
  BY RowType DEF Inv, TypeOK, Fresh
<1>3. TypeOK'
  <2>1. call' \in Calls
    BY <1>1, <1>2, ModesAssumption DEF Inv, TypeOK, Calls
  <2> QED
    BY <1>1, <2>1 DEF Inv, TypeOK, env
<1>4. ListInv'
  <2>1. \A i \in call'.locked : i <= Len(arrived')
    BY <1>1, <1>2 DEF env
  <2>2. \A b \in Locked' : b.seen = MinDate
    <3> SUFFICES ASSUME NEW b \in buffer, b.id \in call'.locked PROVE b.seen = MinDate
      BY <1>1 DEF Locked
    <3>1. PICK c \in Fresh : c.id = b.id
      BY <1>1
    <3>2. c = b
      BY <1>2, <3>1 DEF Inv, TypeOK
    <3> QED
      BY <1>2, <3>2
  <2>3. \A b \in Fresh' : b.id \in call'.locked
    BY <1>1 DEF Fresh
  <2> QED
    BY <2>1, <2>2, <2>3 DEF ListInv
<1>5. (RowInv /\ OdinsInv)'
  BY <1>1 DEF Inv, RowInv, OdinsInv, Fresh, MessagesOf, env
<1>6. WorkInv'
  BY <1>1 DEF WorkInv
<1>7. NothingDropped => NothingDropped'
  BY <1>1 DEF NothingDropped, env
<1> QED
  BY <1>3, <1>4, <1>5, <1>6, <1>7 DEF Inv

LEMMA LoadInv ==
  ASSUME Inv, Load
  PROVE  Inv' /\ (NothingDropped => NothingDropped')
<1> DEFINE hasRow(d) == \E b \in Newest(Locked) : DocOf(b) = d
           newest(d) == CHOOSE b \in Newest(Locked) : DocOf(b) = d
<1>1. /\ UNCHANGED <<buffer, env, odins, call, lost>> /\ pc = "load" /\ pc' = "clean"
      /\ work' = [d \in Docs |-> IF hasRow(d) THEN newest(d).id ELSE odins[d]]
  BY DEF Load
<1>2. ASSUME NEW d \in Docs, hasRow(d)
      PROVE  newest(d) \in Newest(Locked) /\ DocOf(newest(d)) = d
  BY <1>2
<1>3. ASSUME NEW b \in Newest(Locked)
      PROVE  b \in WithRef(Locked) /\ b \in buffer /\ b.id \in 0..MaxRows
  BY RowType, BoundsAssumption DEF Newest, WithRef, Locked, Inv
<1>4. TypeOK'
  <2>1. work' \in [Docs -> 0..MaxRows]
    <3> SUFFICES ASSUME NEW d \in Docs
                 PROVE  (IF hasRow(d) THEN newest(d).id ELSE odins[d]) \in 0..MaxRows
      BY <1>1
    <3>1. CASE hasRow(d)
      BY <1>2, <1>3, <3>1
    <3>2. CASE ~hasRow(d)
      BY <3>2 DEF Inv, TypeOK
    <3> QED
      BY <3>1, <3>2
  <2> QED
    BY <1>1, <2>1 DEF Inv, TypeOK, env
<1>5. ASSUME NEW b \in WithRef(Locked)
      PROVE  b.id <= work'[DocOf(b)]
  <2>1. DocOf(b) \in Docs
    BY RowType DEF WithRef, Locked, Inv
  <2>2. PICK c \in Newest(Locked) : DocOf(c) = DocOf(b) /\ b.id <= c.id
    BY NewestOfDoc DEF Inv
  <2>3. newest(DocOf(b)) = c
    BY <1>2, <2>1, <2>2, NewestIsOne DEF Inv
  <2> QED
    BY <1>1, <2>1, <2>2, <2>3
<1>6. ASSUME NEW d \in Docs
      PROVE  work'[d] = odins[d] \/ \E b \in WithRef(Locked) : DocOf(b) = d /\ work'[d] = b.id
  <2>1. CASE hasRow(d)
    BY <1>1, <1>2, <1>3, <2>1
  <2>2. CASE ~hasRow(d)
    BY <1>1, <2>2
  <2> QED
    BY <2>1, <2>2
<1>7. WorkInv'
  <2>1. arrived' = arrived /\ WithRef(Locked)' = WithRef(Locked)
    BY <1>1 DEF WithRef, Locked, KindOf, env
  <2>2. \A b \in WithRef(Locked)' : b.id <= work'[arrived'[b.id].doc]
    BY <1>5, <2>1 DEF DocOf
  <2>3. \A d \in Docs : work'[d] = odins'[d]
          \/ \E b \in WithRef(Locked)' : arrived'[b.id].doc = d /\ work'[d] = b.id
    BY <1>1, <1>6, <2>1 DEF DocOf
  <2> QED
    BY <2>2, <2>3 DEF WorkInv, DocOf
<1>8. (RowInv /\ OdinsInv /\ ListInv)'
  BY <1>1 DEF Inv, RowInv, OdinsInv, ListInv, Locked, Fresh, MessagesOf, env
<1>9. NothingDropped => NothingDropped'
  BY <1>1 DEF NothingDropped, env
<1> QED
  BY <1>4, <1>7, <1>8, <1>9 DEF Inv

(* A call that ended leaves nothing of itself behind.                        *)
LEMMA IdleInv ==
  ASSUME EndCall
  PROVE  ListInv' /\ WorkInv'
  BY DEF EndCall, ListInv, WorkInv

LEMMA IdleType ==
  ASSUME TypeOK, EndCall, odins' \in [Docs -> 0..MaxRows]
  PROVE  /\ pc' \in {"idle", "load", "clean"} /\ call' \in Calls
         /\ work' \in [Docs -> 0..MaxRows]
  BY FirstDayType DEF EndCall, NoCall, Calls

(* Replacing the rows of the list by rows that differ in what the loader     *)
(* writes, processed ones, disturbs neither typing nor order.                *)
Marks(f) ==
  \A b \in Locked : f[b].id = b.id /\ f[b] \in BufferRow /\ f[b].seen # MinDate

LEMMA MarkedRows ==
  ASSUME Inv, NEW f, Marks(f), NEW B, UNCHANGED arrived,
         buffer' \subseteq B, B = (buffer \ Locked) \cup {f[b] : b \in Locked}
  PROVE  /\ buffer' \subseteq BufferRow
         /\ \A b \in buffer' : b.id <= Len(arrived')
         /\ \A a, b \in buffer' : a.id = b.id => a = b
         /\ RowInv'
         /\ \A b \in Fresh' : b \in Fresh /\ b.id \notin call.locked
<1>1. ASSUME NEW b \in buffer'
      PROVE  \/ b \in buffer /\ b \notin Locked
             \/ \E c \in Locked : c \in buffer /\ b = f[c] /\ b.id = c.id
                                   /\ b \in BufferRow /\ b.seen # MinDate
  BY DEF Marks, Locked
<1>2. ASSUME NEW b \in buffer'
      PROVE  \E c \in buffer : /\ b.id = c.id
                               /\ b \in BufferRow
                               /\ b = c \/ b.seen # MinDate
                               /\ (c \in Locked /\ b = f[c]) \/ (c \notin Locked /\ b = c)
  BY <1>1 DEF Inv, TypeOK
<1>3. \A a, b \in buffer' : a.id = b.id => a = b
  <2> SUFFICES ASSUME NEW a \in buffer', NEW b \in buffer', a.id = b.id PROVE a = b
    OBVIOUS
  <2>1. PICK c \in buffer : a.id = c.id /\ ((c \in Locked /\ a = f[c]) \/ (c \notin Locked /\ a = c))
    BY <1>2
  <2>2. PICK e \in buffer : b.id = e.id /\ ((e \in Locked /\ b = f[e]) \/ (e \notin Locked /\ b = e))
    BY <1>2
  <2>3. c = e
    BY <2>1, <2>2 DEF Inv, TypeOK
  <2> QED
    BY <2>1, <2>2, <2>3
<1>4. RowInv' /\ \A b \in buffer' : b.id <= Len(arrived')
  BY <1>2 DEF Inv, RowInv, TypeOK
<1>5. ASSUME NEW b \in Fresh'
      PROVE  b \in Fresh /\ b.id \notin call.locked
  <2>1. b \in buffer' /\ b.seen = MinDate
    BY DEF Fresh
  <2>2. b \in buffer /\ b \notin Locked
    BY <1>1, <2>1
  <2> QED
    BY <2>1, <2>2 DEF Fresh, Locked
<1> QED
  BY <1>2, <1>3, <1>4, <1>5

LEMMA FlaggedMarks ==
  ASSUME Inv
  PROVE  /\ Marks([b \in Locked |-> Flagged(b)])
         /\ {Flagged(b) : b \in Locked} = {[b \in Locked |-> Flagged(b)][c] : c \in Locked}
<1>1. ASSUME NEW b \in Locked
      PROVE  /\ Flagged(b).id = b.id
             /\ Flagged(b) \in BufferRow /\ Flagged(b).seen # MinDate
  <2>1. b \in BufferRow /\ call.day \in FirstDay..MaxDay
    BY DEF Inv, TypeOK, Locked, Calls
  <2>2. call.day # MinDate
    BY <2>1, FirstDayType, BoundsAssumption DEF MinDate
  <2> QED
    BY <2>1, <2>2 DEF Flagged, BufferRow
<1> QED
  BY <1>1 DEF Marks

LEMMA StampedMarks ==
  ASSUME Inv
  PROVE  /\ Marks([b \in Locked |-> Stamped(b)])
         /\ {Stamped(b) : b \in Locked} = {[b \in Locked |-> Stamped(b)][c] : c \in Locked}
<1>1. ASSUME NEW b \in Locked
      PROVE  /\ Stamped(b).id = b.id
             /\ Stamped(b) \in BufferRow /\ Stamped(b).seen # MinDate
  <2>1. b \in BufferRow /\ call.day \in FirstDay..MaxDay
    BY DEF Inv, TypeOK, Locked, Calls
  <2>2. call.day # MinDate
    BY <2>1, FirstDayType, BoundsAssumption DEF MinDate
  <2> QED
    BY <2>1, <2>2 DEF Stamped, BufferRow
<1> QED
  BY <1>1 DEF Marks

LEMMA LoadFailsInv ==
  ASSUME Inv, LoadFails
  PROVE  Inv' /\ (NothingDropped => NothingDropped')
<1> DEFINE f == [b \in Locked |-> Flagged(b)]
<1>1. /\ buffer' = (buffer \ Locked) \cup {Flagged(b) : b \in Locked}
      /\ UNCHANGED <<env, odins, lost>> /\ EndCall
  BY DEF LoadFails
<1>2. /\ buffer' \subseteq BufferRow
      /\ \A b \in buffer' : b.id <= Len(arrived')
      /\ \A a, b \in buffer' : a.id = b.id => a = b
      /\ RowInv'
      /\ \A b \in Fresh' : b \in Fresh /\ b.id \notin call.locked
  <2> HIDE DEF f
  <2>1. buffer' = (buffer \ Locked) \cup {f[b] : b \in Locked} /\ Marks(f)
    BY <1>1, FlaggedMarks DEF f
  <2> QED
    BY <1>1, <2>1, MarkedRows DEF env
<1>3. TypeOK'
  BY <1>1, <1>2, IdleType DEF Inv, TypeOK, env
<1>4. OdinsInv'
  BY <1>1, <1>2 DEF Inv, OdinsInv, MessagesOf, env
<1>5. NothingDropped => NothingDropped'
  <2> SUFFICES ASSUME NothingDropped, NEW i \in 1..Len(arrived),
                      arrived[i].kind # "blank", ~(odins[arrived[i].doc] >= i)
               PROVE  \E b \in buffer' : b.id = i /\ (b.seen = MinDate \/ b.error)
    BY <1>1 DEF NothingDropped, env
  <2>1. PICK b \in buffer : b.id = i /\ (b.seen = MinDate \/ b.error)
    BY DEF NothingDropped
  <2>2. CASE b \in Locked
    <3>1. Flagged(b) \in buffer'
      BY <1>1, <2>2
    <3>2. b \in BufferRow
      BY DEF Inv, TypeOK
    <3>3. Flagged(b).id = i /\ Flagged(b).error
      BY <2>1, <3>2 DEF Flagged, BufferRow
    <3> QED
      BY <3>1, <3>3
  <2>3. CASE b \notin Locked
    BY <1>1, <2>1, <2>3
  <2> QED
    BY <2>2, <2>3
<1> QED
  BY <1>1, <1>2, <1>3, <1>4, <1>5, IdleInv DEF Inv

(* What a call of mode 2 or 3 deletes was processed before it.               *)
LEMMA ExpiredIsOld ==
  ASSUME QuietPurge, Inv, pc # "idle", call.mode >= 2, NEW b \in StampedRows, b \in Expired(StampedRows)
  PROVE  b \in buffer /\ b \notin Locked /\ b.seen # MinDate
<1>1. call.day \in Nat /\ call.mode \in Nat /\ KeepDays \in Nat
  BY FirstDayType, BoundsAssumption DEF Inv, TypeOK, Calls, KeepDays
<1>2. call.day - b.seen > KeepDays
  BY DEF Expired
<1>3. b \notin {Stamped(c) : c \in Locked}
  <2> SUFFICES ASSUME NEW c \in Locked, b = Stamped(c) PROVE FALSE
    OBVIOUS
  <2>1. c \in BufferRow
    BY DEF Inv, TypeOK, Locked
  <2>2. b.seen = call.day
    BY <2>1 DEF Stamped, BufferRow
  <2> QED
    BY <1>1, <1>2, <2>2
<1>4. b \in buffer /\ b \notin Locked
  BY <1>3 DEF StampedRows
<1>5. b \notin Fresh
  <2>1. call.mode \notin Overlapping
    BY <1>1 DEF QuietPurge
  <2> QED
    BY <1>4, <2>1 DEF Inv, ListInv, Locked
<1> QED
  BY <1>4, <1>5 DEF Fresh

LEMMA CleanInv ==
  ASSUME Inv, Clean
  PROVE  /\ Inv' /\ (\A d \in Docs : odins'[d] >= odins[d])
         /\ QuietPurge /\ NothingDropped => NothingDropped'
<1> DEFINE f == [b \in Locked |-> Stamped(b)]
<1>1. /\ pc = "clean" /\ odins' = work /\ UNCHANGED <<env, lost>> /\ EndCall
      /\ buffer' \in {Cleared, StampedRows, StampedRows \ Expired(StampedRows)}
  BY DEF Clean
<1>2. /\ buffer' \subseteq BufferRow
      /\ \A b \in buffer' : b.id <= Len(arrived')
      /\ \A a, b \in buffer' : a.id = b.id => a = b
      /\ RowInv'
      /\ \A b \in Fresh' : b \in Fresh /\ b.id \notin call.locked
  <2> HIDE DEF f
  <2>1. StampedRows = (buffer \ Locked) \cup {f[b] : b \in Locked} /\ Marks(f)
    BY StampedMarks DEF f, StampedRows
  <2>2. buffer' \subseteq StampedRows
    BY <1>1 DEF Cleared, StampedRows
  <2> QED
    BY <1>1, <2>1, <2>2, MarkedRows DEF env
<1>3. TypeOK'
  BY <1>1, <1>2, IdleType DEF Inv, TypeOK, env
<1>4. ASSUME NEW d \in Docs
      PROVE  /\ work[d] \in Nat /\ odins[d] \in Nat /\ work[d] >= odins[d]
             /\ work[d] # 0 => work[d] \in MessagesOf(d)
             /\ work[d] = odins[d] \/ work[d] \in call.locked
  <2>1. work[d] \in Nat /\ odins[d] \in Nat
    BY BoundsAssumption DEF Inv, TypeOK
  <2>2. CASE work[d] = odins[d]
    BY <2>1, <2>2 DEF Inv, OdinsInv
  <2>3. ASSUME NEW b \in WithRef(Locked), DocOf(b) = d, work[d] = b.id
        PROVE  /\ work[d] >= odins[d] /\ work[d] \in MessagesOf(d) /\ work[d] \in call.locked
    <3>1. b \in Locked /\ b \in buffer /\ b.id \in call.locked /\ KindOf(b) # "blank"
      BY DEF WithRef, Locked
    <3>2. b \in Fresh
      BY <1>1, <3>1 DEF Inv, ListInv, Fresh
    <3>3. b.id \in MessagesOf(d)
      BY <2>3, <3>1, RowType DEF Inv, MessagesOf, DocOf, KindOf
    <3> QED
      BY <2>1, <2>3, <3>1, <3>2, <3>3 DEF Inv, OdinsInv
  <2> QED
    BY <1>1, <2>1, <2>2, <2>3 DEF Inv, WorkInv
<1>5. OdinsInv'
  <2>1. ASSUME NEW d \in Docs, NEW b \in Fresh'
        PROVE  odins'[d] < b.id
    <3>1. b \in Fresh /\ b.id \notin call.locked
      BY <1>2
    <3>2. CASE work[d] = odins[d]
      BY <1>1, <3>1, <3>2 DEF Inv, OdinsInv
    <3>3. CASE work[d] \in call.locked
      BY <1>1, <3>1, <3>3 DEF Inv, ListInv
    <3> QED
      BY <1>4, <3>2, <3>3
  <2>2. \A d \in Docs : odins'[d] # 0 => odins'[d] \in MessagesOf(d)'
    BY <1>1, <1>4 DEF MessagesOf, env
  <2> QED
    BY <2>1, <2>2 DEF OdinsInv
<1>6. QuietPurge /\ NothingDropped => NothingDropped'
  <2> SUFFICES ASSUME QuietPurge, NothingDropped, NEW i \in 1..Len(arrived),
                      arrived[i].kind # "blank", ~(odins'[arrived[i].doc] >= i)
               PROVE  \E b \in buffer' : b.id = i /\ (b.seen = MinDate \/ b.error)
    BY <1>1 DEF NothingDropped, env
  <2> DEFINE d == arrived[i].doc
  <2>1. d \in Docs /\ i \in Nat
    BY MessagesAssumption DEF Inv, TypeOK
  <2>2. ~(odins[d] >= i)
    BY <1>1, <1>4, <2>1
  <2>3. PICK b \in buffer : b.id = i /\ (b.seen = MinDate \/ b.error)
    BY <2>2 DEF NothingDropped
  <2>4. b \notin Locked
    <3>1. DocOf(b) = d /\ KindOf(b) # "blank"
      BY <2>3 DEF DocOf, KindOf
    <3>2. b \in Locked => i <= work[d]
      BY <1>1, <2>3, <3>1 DEF Inv, WorkInv, WithRef
    <3> QED
      BY <1>1, <1>4, <2>1, <3>2
  <2>5. b \in Cleared /\ b \in StampedRows
    BY <2>4 DEF Cleared, StampedRows
  <2>6. ASSUME buffer' = StampedRows \ Expired(StampedRows), NoErrors, call.mode >= 2
        PROVE  b \in buffer'
    <3>1. b.seen = MinDate
      BY <2>3, <2>6 DEF NoErrors
    <3> QED
      BY <1>1, <2>5, <2>6, <3>1, ExpiredIsOld
  <2> QED
    BY <2>3, <2>5, <2>6 DEF Clean
<1> QED
  BY <1>1, <1>2, <1>3, <1>4, <1>5, <1>6, IdleInv DEF Inv

LEMMA LoseInv ==
  ASSUME Inv, Lose
  PROVE  Inv' /\ (NothingDropped => NothingDropped')
<1>1. UNCHANGED <<buffer, env, odins>> /\ EndCall /\ lost' \in 0..MaxLost
  BY BoundsAssumption DEF Lose, Inv, TypeOK
<1>2. TypeOK'
  BY <1>1, IdleType DEF Inv, TypeOK, env
<1>3. (RowInv /\ OdinsInv)'
  BY <1>1 DEF Inv, RowInv, OdinsInv, Fresh, MessagesOf, env
<1>4. NothingDropped => NothingDropped'
  BY <1>1 DEF NothingDropped, env
<1> QED
  BY <1>1, <1>2, <1>3, <1>4, IdleInv DEF Inv

---------------------------------------------------------------------------
(* The specification.                                                        *)

LEMMA InitNothingDropped == Init => NothingDropped
  BY DEF Init, NothingDropped

(* One case per action.                                                      *)
LEMMA NextInv ==
  ASSUME Inv, [Next]_vars
  PROVE  /\ Inv'
         /\ QuietPurge /\ NothingDropped => NothingDropped'
<1>1. ASSUME NEW m \in Messages, Receive(m)
      PROVE  Inv' /\ (NothingDropped => NothingDropped')
  BY <1>1, ReceiveInv
<1>2. CASE NextDay
  BY <1>2, NextDayInv
<1>3. ASSUME NEW mode \in Modes, Lock(mode)
      PROVE  Inv' /\ (NothingDropped => NothingDropped')
  BY <1>3, LockInv
<1>4. CASE Load
  BY <1>4, LoadInv
<1>5. CASE LoadFails
  BY <1>5, LoadFailsInv
<1>6. CASE Clean
  BY <1>6, CleanInv
<1>7. CASE Lose
  BY <1>7, LoseInv
<1>8. CASE UNCHANGED vars
  <2>1. UNCHANGED <<buffer, arrived, today, odins, pc, call, work, lost>>
    BY <1>8 DEF vars, env
  <2>2. Inv'
    BY <2>1 DEF Inv, TypeOK, RowInv, OdinsInv, ListInv, WorkInv, Fresh, Locked, MessagesOf,
                WithRef, DocOf, KindOf
  <2>3. NothingDropped => NothingDropped'
    BY <2>1 DEF NothingDropped
  <2> QED
    BY <2>2, <2>3
<1> QED
  BY <1>1, <1>2, <1>3, <1>4, <1>5, <1>6, <1>7, <1>8 DEF Next, Loader

LEMMA InvHolds == Spec => []Inv
<1>1. Inv /\ [Next]_vars => Inv'
  BY NextInv
<1> QED
  BY InitInv, <1>1, PTL DEF Spec

(* The loader keeps its tables well typed, and buffer_id identifies a row,   *)
(* however messages and calls overlap.                                       *)
THEOREM TypeCorrect == Spec => []TypeOK
<1>1. Inv => TypeOK
  BY DEF Inv
<1> QED
  BY InvHolds, <1>1, PTL

(* No message is deleted before it was processed, provided that none arrives *)
(* during a call that purges the history ("Clear buffer table").             *)
THEOREM NothingDroppedTheorem == QuietPurge => (Spec => []NothingDropped)
<1> SUFFICES ASSUME QuietPurge PROVE Spec => []NothingDropped
  OBVIOUS
<1>1. Init => Inv /\ NothingDropped
  BY InitInv, InitNothingDropped
<1>2. Inv /\ NothingDropped /\ [Next]_vars => (Inv /\ NothingDropped)'
  BY NextInv
<1> QED
  BY <1>1, <1>2, PTL DEF Spec

(* In any mode, and whatever arrives during a call or once more, a document   *)
(* in odins is never set back to a message that arrived earlier, and steps   *)
(* back to an older version only if its messages came in that order.         *)
THEOREM LaterArrivalWinsTheorem == Spec => LaterArrivalWins
<1>1. Inv /\ [Next]_vars =>
        [\A d \in Docs : /\ odins'[d] >= odins[d]
                         /\ InOrder(d)' => Version(d)' >= Version(d)]_vars
  <2> SUFFICES ASSUME Inv, Next, NEW d \in Docs
               PROVE  odins'[d] >= odins[d] /\ (InOrder(d)' => Version(d)' >= Version(d))
    OBVIOUS
  <2>1. Inv'
    BY NextInv
  <2>2. /\ odins[d] \in Nat /\ odins'[d] \in Nat
        /\ odins[d] # 0 => odins[d] \in MessagesOf(d)
        /\ odins'[d] # 0 => odins'[d] \in MessagesOf(d)'
    BY <2>1, BoundsAssumption DEF Inv, TypeOK, OdinsInv
  <2>3. \A i \in MessagesOf(d) : arrived[i].ver \in Nat
    BY MessagesAssumption DEF Inv, TypeOK, MessagesOf
  <2>4. \A i \in MessagesOf(d)' : arrived'[i].ver \in Nat
    <3>1. arrived' \in Seq(Messages)
      BY <2>1 DEF Inv, TypeOK
    <3>2. \A i \in 1..Len(arrived') : arrived'[i] \in Messages
      BY <3>1
    <3>3. MessagesOf(d)' \subseteq 1..Len(arrived')
      BY DEF MessagesOf
    <3> QED
      BY <3>2, <3>3, MessagesAssumption
  <2>5. \A i \in MessagesOf(d) : i \in MessagesOf(d)' /\ arrived'[i] = arrived[i]
    <3>1. ASSUME NEW m \in Messages, Receive(m)
          PROVE  \A i \in MessagesOf(d) : i \in MessagesOf(d)' /\ arrived'[i] = arrived[i]
      <4>1. arrived \in Seq(Messages) /\ arrived' = Append(arrived, m)
        BY <3>1 DEF Receive, Inv, TypeOK
      <4>2. /\ \A i \in 1..Len(arrived) : arrived'[i] = arrived[i]
            /\ MessagesOf(d) \subseteq MessagesOf(d)'
        BY <4>1, Appended
      <4> QED
        BY <4>2 DEF MessagesOf
    <3>2. CASE UNCHANGED arrived
      BY <3>2 DEF MessagesOf
    <3> QED
      BY <3>1, <3>2 DEF Next, Loader, NextDay, Lock, Load, LoadFails, Clean, Lose, env
  <2>6. odins'[d] >= odins[d]
    <3>1. CASE Clean
      BY <3>1, CleanInv
    <3>2. CASE UNCHANGED odins
      BY <2>2, <3>2
    <3> QED
      BY <3>1, <3>2 DEF Next, Loader, Receive, NextDay, Lock, Load, LoadFails, Lose
  <2>7. ASSUME InOrder(d)' PROVE Version(d)' >= Version(d)
    <3>1. CASE odins[d] = 0
      BY <2>2, <2>4, <3>1 DEF Version
    <3>2. CASE odins[d] # 0
      <4>1. odins'[d] # 0 /\ odins[d] <= odins'[d]
        BY <2>2, <2>6, <3>2
      <4>2. odins[d] \in MessagesOf(d)' /\ odins'[d] \in MessagesOf(d)'
        BY <2>2, <2>5, <3>2, <4>1
      <4>3. arrived'[odins[d]].ver <= arrived'[odins'[d]].ver
        BY <2>7, <4>1, <4>2 DEF InOrder
      <4>4. Version(d) = arrived'[odins[d]].ver /\ Version(d)' = arrived'[odins'[d]].ver
        BY <2>2, <2>5, <3>2, <4>1 DEF Version
      <4> QED
        BY <2>4, <4>2, <4>3, <4>4
    <3> QED
      BY <3>1, <3>2
  <2> QED
    BY <2>6, <2>7
<1> QED
  BY InvHolds, <1>1, PTL DEF Spec, LaterArrivalWins

(* A row flagged by the exception handler is never changed or deleted.       *)
THEOREM ErrorsAreKeptTheorem == Spec => ErrorsAreKept
<1>1. Inv /\ [Next]_vars => [\A b \in buffer : b.error => b \in buffer']_vars
  <2> SUFFICES ASSUME Inv, Next, NEW b \in buffer, b.error
               PROVE  b \in buffer'
    OBVIOUS
  <2>1. pc # "idle" => b \notin Locked
    BY DEF Inv, RowInv, ListInv
  <2>2. CASE LoadFails
    BY <2>1, <2>2 DEF LoadFails
  <2>3. CASE Clean
    BY <2>1, <2>3 DEF Clean, NoErrors, StampedRows
  <2>4. CASE buffer \subseteq buffer'
    BY <2>4
  <2> QED
    BY <2>2, <2>3, <2>4
       DEF Next, Loader, Receive, NextDay, Lock, Load, Lose
<1> QED
  BY InvHolds, <1>1, PTL DEF Spec, ErrorsAreKept
============================================================================
