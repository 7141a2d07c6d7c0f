---------------------------- MODULE MCOdsLoader ----------------------------
(* Instances of OdsLoader for TLC.                                           *)
EXTENDS OdsLoader

CONSTANTS d1, d2

MCDocs == {d1, d2}

Message(d, v, k) == [doc |-> d, ver |-> v, kind |-> k]

(* Two versions of one document that can be loaded, beside a third one, a    *)
(* second document, and messages that cannot.                                *)
MCMessages ==
  {Message(d1, 1, "good"), Message(d1, 2, "good"), Message(d1, 3, "bad"),
   Message(d2, 1, "good"), Message(d2, 2, "unreadable"), Message(d2, 1, "blank")}

GoodMessages == {m \in MCMessages : m.kind = "good"}
============================================================================
