----------------------------- MODULE OdsLoader -----------------------------
(***************************************************************************)
(* Loading messages into the PostgreSQL ODS.  The MQ service inserts every  *)
(* message of 1C into odins.<table>_buffer and calls odins.load_<table>,    *)
(* which parses the unprocessed ones into odins.<table>.                    *)
(*                                                                          *)
(* One call is one transaction, but in READ COMMITTED each of its           *)
(* statements sees what was committed before that statement: messages may   *)
(* arrive in the buffer while it runs.  A call is therefore three steps:    *)
(* the list of rows to process, the load, and the cleaning of the buffer    *)
(* with the commit.  What it writes is visible from the last one on.  The   *)
(* table part goes along with its document in the same statements and is    *)
(* left out.  The MQ service calls the loader of a table one call at a time.*)
(***************************************************************************)
EXTENDS Naturals, Sequences

CONSTANTS
  Docs,       \* documents or catalogue items (RefID)
  Messages,   \* messages of 1C: [doc, ver, kind]
  Modes,      \* values of par_buffer_history_mode that the service passes
  Overlapping, \* modes of the calls during which messages may arrive
  Short, Long, \* days that modes 2 and 3 keep the history (10 and 30)
  MaxRows,    \* bound: messages that arrive
  MaxDay,     \* bound: days
  MaxLost     \* bound: calls lost with their connection

(* What a loader makes of a message: "good"; "bad", the RefID can be read    *)
(* and another field cannot; "unreadable", the RefID cannot; "blank", there  *)
(* is none (its doc means nothing).                                          *)
AllKinds == {"good", "bad", "unreadable", "blank"}

(* The version of a message is its place among those 1C wrote of the same    *)
(* document; they need not arrive in that order.                             *)
ASSUME MessagesAssumption == Messages \subseteq [doc : Docs, ver : Nat \ {0}, kind : AllKinds]
ASSUME ModesAssumption == Modes \subseteq 0..3
ASSUME OverlappingAssumption == Overlapping \subseteq Modes
ASSUME BoundsAssumption ==
  /\ Short \in Nat /\ Long \in Nat /\ Short <= Long
  /\ MaxRows \in Nat /\ MaxLost \in Nat
  /\ MaxDay \in Nat /\ MaxDay > Long

VARIABLES
  buffer,  \* rows of odins.<table>_buffer
  arrived, \* messages inserted so far, also those deleted since: the index is
           \* the buffer_id
  odins,   \* buffer_id of the message that the row of each document in
           \* odins.<table> was made from, 0 if it has no row
  today,   \* the day
  pc,      \* next step of the running call, "idle" if none
  call,    \* the running call: [mode, day, locked], NoCall if none
  work,    \* odins as the running call sees it
  lost

env  == <<arrived, today>>
vars == <<buffer, env, odins, pc, call, work, lost>>

(* updated_at of an unprocessed row: 1 January 1900.                         *)
MinDate == 0

(* The first day is further from MinDate than any history goes back.         *)
FirstDay == Long + 1

BufferRow == [id : 1..MaxRows, error : BOOLEAN, seen : {MinDate} \cup FirstDay..MaxDay]

Calls  == [mode : 0..3, day : FirstDay..MaxDay, locked : SUBSET (1..MaxRows)]
NoCall == [mode |-> 0, day |-> FirstDay, locked |-> {}]

TypeOK ==
  /\ arrived \in Seq(Messages) /\ Len(arrived) <= MaxRows
  /\ buffer \subseteq BufferRow
  /\ \A b \in buffer : b.id <= Len(arrived)
  /\ \A a, b \in buffer : a.id = b.id => a = b
  /\ odins \in [Docs -> 0..MaxRows] /\ work \in [Docs -> 0..MaxRows]
  /\ today \in FirstDay..MaxDay
  /\ pc \in {"idle", "load", "clean"}
  /\ call \in Calls
  /\ lost \in 0..MaxLost

Init ==
  /\ buffer = {}
  /\ arrived = <<>>
  /\ odins = [d \in Docs |-> 0] /\ work = odins
  /\ today = FirstDay
  /\ pc = "idle"
  /\ call = NoCall
  /\ lost = 0

---------------------------------------------------------------------------
(* The MQ service inserts a message.  It may be one that arrived before:      *)
(* send-unresolved-msg sends all of mq.msgqueue again, older versions of a   *)
(* document first, and Rabbit delivers what was not acknowledged again.      *)
Receive(m) ==
  /\ pc = "idle" \/ call.mode \in Overlapping
  /\ Len(arrived) < MaxRows
  /\ arrived' = Append(arrived, m)
  /\ buffer' = buffer \cup {[id |-> Len(arrived) + 1, error |-> FALSE, seen |-> MinDate]}
  /\ UNCHANGED <<odins, today, pc, call, work, lost>>

NextDay ==
  /\ today < MaxDay
  /\ today' = today + 1
  /\ UNCHANGED <<buffer, arrived, odins, pc, call, work, lost>>

DocOf(b)  == arrived[b.id].doc
KindOf(b) == arrived[b.id].kind

Fresh == {b \in buffer : b.seen = MinDate}
Locked == {b \in buffer : b.id \in call.locked}

EndCall == pc' = "idle" /\ call' = NoCall /\ work' = odins'

(* INSERT INTO <table>_lock.  RefID is read here, outside of the exception   *)
(* handler: a call that meets an unreadable one fails and changes nothing.   *)
Lock(mode) ==
  /\ pc = "idle"
  /\ Fresh # {}
  /\ \A b \in Fresh : KindOf(b) # "unreadable"
  /\ call' = [mode |-> mode, day |-> today, locked |-> {b.id : b \in Fresh}]
  /\ work' = odins
  /\ pc' = "load"
  /\ UNCHANGED <<buffer, env, odins, lost>>

(* MAX(buffer_id) of each RefID.  A message without one is grouped under     *)
(* NULL, which no row of the buffer is equal to afterwards.                  *)
WithRef(L) == {b \in L : KindOf(b) # "blank"}
Newest(L) == {b \in WithRef(L) : \A c \in WithRef(L) : DocOf(c) = DocOf(b) => c.id <= b.id}

(* UPDATE and INSERT of odins.<table> from the newest row of each RefID; the *)
(* others are not even parsed.                                               *)
Load ==
  /\ pc = "load"
  /\ \A b \in Newest(Locked) : KindOf(b) = "good"
  /\ work' = [d \in Docs |-> IF \E b \in Newest(Locked) : DocOf(b) = d
                             THEN (CHOOSE b \in Newest(Locked) : DocOf(b) = d).id
                             ELSE odins[d]]
  /\ pc' = "clean"
  /\ UNCHANGED <<buffer, env, odins, call, lost>>

(* Defects: the rows are not flagged; updated_at is the day the row expires. *)
Flagged_None(b) == b
Stamped_Expiry(b) == [b EXCEPT !.seen = call.day + Long]

Flagged(b) == [b EXCEPT !.error = TRUE, !.seen = call.day]
Stamped(b) == [b EXCEPT !.seen = call.day]

(* The exception handler: one field that cannot be read flags every row of   *)
(* the list.  It may be a RefID that arrived after the list was taken: to    *)
(* find the rows of the list the statement may read the RefID of all rows    *)
(* that are not flagged (it depends on the plan).                            *)
LoadFails ==
  /\ pc = "load"
  /\ \/ \E b \in Newest(Locked) : KindOf(b) # "good"
     \/ \E b \in buffer : ~b.error /\ KindOf(b) = "unreadable"
  /\ buffer' = (buffer \ Locked) \cup {Flagged(b) : b \in Locked}
  /\ UNCHANGED <<env, odins, lost>>
  /\ EndCall

(* Defect: errors do not keep the history.                                   *)
NoErrors_Always == TRUE

NoErrors == \A b \in buffer : ~b.error

(* Defect: every row read so far is cleared, not the list only.              *)
Cleared_All == {}

(* Mode 1: the rows of the list are deleted.                                 *)
Cleared == buffer \ Locked

(* Modes 2 and 3 (3 and NULL are turned into 2, but the days are taken from  *)
(* the parameter): rows older than the history are deleted.                  *)
KeepDays == IF call.mode = 2 THEN Short ELSE Long
Expired(B) == {b \in B : call.day - b.seen > KeepDays}

(* Defect: only the rows that were parsed are marked as processed.           *)
StampedRows_Parsed == (buffer \ Newest(Locked)) \cup {Stamped(b) : b \in Newest(Locked)}

(* Every row of the list is marked as processed.                             *)
StampedRows == (buffer \ Locked) \cup {Stamped(b) : b \in Locked}

(* "Clear buffer table", and the commit of the call.                         *)
Clean ==
  /\ pc = "clean"
  /\ buffer' = IF call.mode = 1 /\ NoErrors THEN Cleared
               ELSE IF call.mode >= 2 /\ NoErrors THEN StampedRows \ Expired(StampedRows)
               ELSE StampedRows
  /\ odins' = work
  /\ EndCall
  /\ UNCHANGED <<env, lost>>

(* The connection is lost: the transaction is rolled back.                   *)
Lose ==
  /\ pc # "idle"
  /\ lost < MaxLost
  /\ lost' = lost + 1
  /\ UNCHANGED <<buffer, env, odins>>
  /\ EndCall

Loader == (\E mode \in Modes : Lock(mode)) \/ Load \/ LoadFails \/ Clean

Next ==
  \/ \E m \in Messages : Receive(m)
  \/ NextDay \/ Loader \/ Lose

Spec == Init /\ [][Next]_vars

(* The MQ service goes on calling the loader.                                *)
FairSpec == Spec /\ WF_vars(Loader)

---------------------------------------------------------------------------
(* Properties.                                                               *)

(* Every message that arrived is in odins, or a later one of its document is, *)
(* or it waits in the buffer, or it stays there flagged as an error: none is *)
(* deleted before it was processed.  Only of a message without RefID nothing *)
(* is left: it is stamped as processed.                                      *)
NothingDropped ==
  \A i \in 1..Len(arrived) :
    \/ arrived[i].kind = "blank"
    \/ odins[arrived[i].doc] >= i
    \/ \E b \in buffer : b.id = i /\ (b.seen = MinDate \/ b.error)

Version(d) == IF odins[d] = 0 THEN 0 ELSE arrived[odins[d]].ver

(* No older version of the document arrives after a newer one.               *)
MessagesOf(d) == {i \in 1..Len(arrived) : arrived[i].doc = d /\ arrived[i].kind # "blank"}
InOrder(d) == \A i, j \in MessagesOf(d) : i <= j => arrived[i].ver <= arrived[j].ver

(* Whatever the lists its messages come in, a document in odins is never set *)
(* back to a message that arrived earlier; and it never steps back to an     *)
(* older version, unless the messages themselves came in that order: the     *)
(* loader compares no versions.                                              *)
LaterArrivalWins ==
  [][\A d \in Docs : /\ odins'[d] >= odins[d]
                     /\ InOrder(d)' => Version(d)' >= Version(d)]_vars

(* A row flagged as an error is kept: nothing else tells what is missing.    *)
ErrorsAreKept ==
  [][\A b \in buffer : b.error => b \in buffer']_vars

(* Every message that arrives gets into odins, or a later one of its document *)
(* does, or it is flagged.  Only a message whose RefID cannot be read stops  *)
(* the loader, for all that come after it.                                   *)
MessagesAreProcessed ==
  \A i \in 1..MaxRows :
    i <= Len(arrived) /\ arrived[i].kind # "blank" ~>
      /\ i <= Len(arrived)
      /\ \/ odins[arrived[i].doc] >= i
         \/ \E b \in buffer : b.id = i /\ b.error
         \/ \E b \in Fresh : KindOf(b) = "unreadable"
============================================================================
