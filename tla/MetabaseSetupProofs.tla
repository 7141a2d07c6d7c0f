------------------------ MODULE MetabaseSetupProofs ------------------------
(***************************************************************************)
(* Proofs about MetabaseSetup, for any number of failures: what repeated    *)
(* runs of setup.py leave in Metabase, and what a finished run has done.    *)
(***************************************************************************)
EXTENDS MetabaseSetup, SequenceTheorems, TLAPS

Card == [name : Reports, coll : Ids]
Dash == [coll : Ids, shown : Seq(Cards), public : BOOLEAN]

Held == [coll : Nat, card : Nat, cards : Seq(Nat), dash : Nat, linked : Nat, added : 0..3]

---------------------------------------------------------------------------
(* The inductive invariant: what holds of Metabase whatever runs did ...     *)

ServerType ==
  /\ admin \in BOOLEAN /\ dwh \in 0..1 /\ (~admin => dwh = 0)
  /\ colls \in Nat /\ cards \in Seq(Card) /\ dashes \in Seq(Dash)
  /\ settings \subseteq Locale \cup {Sharing}
  /\ hidden \subseteq Kinds /\ failures \in 0..MaxFail

(* A second object of a kind costs a failed request.                         *)
Named(r) == IF CardsNamed(r) = {} THEN 0 ELSE 1
Present == Named(1) + Named(2) + Named(3)

CountInv ==
  /\ colls <= failures + 1
  /\ Len(cards) <= Present + failures
  /\ Len(dashes) <= failures + 1

(* A dashboard shows cards that exist.                                       *)
ShownInv == \A d \in 1..Len(dashes) : Range(dashes[d].shown) \subseteq 1..Len(cards)

ServerInv == ServerType /\ CountInv /\ NoDuplicates /\ ShownInv /\ PublishedShowsReports

---------------------------------------------------------------------------
(* ... and what a run knows and has done at each of its steps.               *)

(* The steps by what the run has reached: the dashboard to publish, the      *)
(* dashboard laid out, the dashboard, the three cards, the collection.       *)
Publishing == {"share", "read_link", "link"}
LaidOutSteps == {"find_again"} \cup Publishing
WithDashboard == {"layout", "add_cards"} \cup LaidOutSteps
WithCards == {"find_dashboard", "create_dashboard"} \cup WithDashboard
CardSteps == {"find_card", "put_card", "post_card"}
WithCollection == CardSteps \cup WithCards
DemoSteps == {"collections", "create_collection"} \cup WithCollection
EarlySteps ==
  {"off", "health", "properties", "setup", "login", "locale", "databases", "create_database",
   "collections", "create_collection"}

(* The run is at one of these steps, or has gone through them.               *)
Past(S) == pc \in S \/ (pc = "done" /\ env.demo)

RunType ==
  /\ pc \in Steps /\ env \in [demo : BOOLEAN, payload : BOOLEAN]
  /\ my \in Held
  /\ missed \subseteq Steps
  /\ pc \in EarlySteps => my = Nothing
  /\ pc \in DemoSteps => env.demo

SetupInv ==
  /\ ~admin => pc \in {"off", "health", "properties", "setup", "login"}
  /\ pc = "create_database" => dwh = 0
  /\ pc \in DemoSteps \cup {"done"} => dwh = 1
  /\ pc \in DemoSteps \cup {"databases", "create_database", "done"} =>
       ("locale" \in missed \/ Locale \subseteq settings)

(* An object is created when its list is empty or was hidden by a failure.   *)
CreateInv ==
  /\ pc = "create_collection" => colls = 0 \/ (colls <= failures /\ "collection" \in hidden)
  /\ pc = "post_card" =>
       CardsNamed(Report) = {} \/ (Len(cards) < Present + failures /\ "card" \in hidden)
  /\ pc = "create_dashboard" =>
       Len(dashes) = 0 \/ (Len(dashes) <= failures /\ "dashboard" \in hidden)

IdsInv ==
  /\ my.coll \in 0..colls /\ (pc \in WithCollection => my.coll # 0)
  /\ my.card \in 0..Len(cards)
  /\ pc = "put_card" => my.card \in CardsNamed(Report)
  /\ my.dash \in 0..Len(dashes) /\ (pc \in WithDashboard => my.dash # 0)
  /\ my.linked \in 0..Len(dashes) /\ (pc \in Publishing => my.linked # 0)

(* The cards of the run: one of each report in order, in its collection.     *)
CardsInv ==
  /\ pc \in CardSteps => Len(my.cards) <= 2
  /\ Past(WithCards) => Len(my.cards) = 3
  /\ \A i \in 1..Len(my.cards) :
       /\ my.cards[i] \in 1..Len(cards)
       /\ cards[my.cards[i]] = [name |-> i, coll |-> my.coll]

(* The dashboard shows them, unless the layout failed.                       *)
LaidInv ==
  /\ pc \in CardSteps \cup {"find_dashboard", "create_dashboard", "layout"} => my.added = 0
  /\ pc = "add_cards" =>
       /\ my.added \in 0..2 /\ "layout" \in missed
       /\ "add_cards" \notin missed =>
            \A i \in 1..my.added : my.cards[i] \in Range(dashes[my.dash].shown)
  /\ Past(LaidOutSteps) =>
       /\ "layout" \notin missed =>
            dashes[my.dash].shown = my.cards /\ dashes[my.dash].coll = my.coll
       /\ "add_cards" \notin missed => Range(my.cards) \subseteq Range(dashes[my.dash].shown)
  /\ "add_cards" \in missed => "layout" \in hidden

LinkInv ==
  /\ pc \in {"read_link", "link"} => "share" \in missed \/ Sharing \in settings
  /\ Past({}) /\ missed \cap {"find_again", "share", "link"} = {} =>
       dashes[my.linked].public /\ Sharing \in settings

RunInv == RunType /\ SetupInv /\ CreateInv /\ IdsInv /\ CardsInv /\ LaidInv /\ LinkInv

Inv == ServerInv /\ RunInv

---------------------------------------------------------------------------
(* Names of cards, and how many of the three are there.                      *)

NamesKept ==
  /\ Len(cards) <= Len(cards')
  /\ \A i \in 1..Len(cards) : cards'[i].name = cards[i].name

LEMMA CardFacts ==
  ASSUME NEW s \in Seq(Card)
  PROVE  Len(s) \in Nat /\ \A i \in 1..Len(s) : s[i] \in Card /\ s[i].name \in Reports
<1>1. Len(s) \in Nat /\ \A i \in 1..Len(s) : s[i] \in Card
  BY LenProperties, ElementOfSeq
<1> QED
  BY <1>1 DEF Card

LEMMA Overwritten ==
  ASSUME NEW S, NEW s \in Seq(S), NEW k \in 1..Len(s), NEW e \in S,
         NEW t, t = [s EXCEPT ![k] = e]
  PROVE  /\ t \in Seq(S) /\ Len(t) = Len(s)
         /\ \A i \in 1..Len(s) : t[i] = IF i = k THEN e ELSE s[i]
BY ExceptSeq

(* A card moved to another collection, a card added at the end.              *)
LEMMA Moved ==
  ASSUME NEW s \in Seq(Card), NEW k \in 1..Len(s), NEW c \in Ids,
         NEW t, t = [s EXCEPT ![k].coll = c]
  PROVE  /\ t \in Seq(Card) /\ Len(t) = Len(s)
         /\ \A i \in 1..Len(s) : t[i].name = s[i].name
         /\ t[k] = [name |-> s[k].name, coll |-> c]
         /\ \A i \in 1..Len(s) : i # k => t[i] = s[i]
<1> DEFINE e == [name |-> s[k].name, coll |-> c]
<1>1. s[k] \in Card
  BY ElementOfSeq
<1>2. e \in Card /\ e.name = s[k].name
  BY <1>1 DEF Card
<1>3. t = [s EXCEPT ![k] = e]
  <2>1. e = [s[k] EXCEPT !.coll = c]
    BY <1>1 DEF Card
  <2> QED
    BY <2>1
<1> HIDE DEF e
<1>4. t \in Seq(Card) /\ Len(t) = Len(s) /\ \A j \in 1..Len(s) : t[j] = IF j = k THEN e ELSE s[j]
  BY <1>2, <1>3, Overwritten
<1>5. \A i \in 1..Len(s) : t[i].name = s[i].name
  BY <1>2, <1>4
<1> QED
  BY <1>4, <1>5 DEF e

LEMMA Added ==
  ASSUME NEW s \in Seq(Card), NEW r \in Reports, NEW c \in Ids,
         NEW t, t = Append(s, [name |-> r, coll |-> c])
  PROVE  /\ t \in Seq(Card) /\ Len(t) = Len(s) + 1 /\ Len(s) \in Nat
         /\ t[Len(s) + 1] = [name |-> r, coll |-> c]
         /\ \A i \in 1..Len(s) : t[i] = s[i]
<1> DEFINE e == [name |-> r, coll |-> c]
<1>1. e \in Card
  BY DEF Card
<1> QED
  BY <1>1, AppendProperties, LenProperties

LEMMA PresentGrows ==
  ASSUME cards \in Seq(Card), cards' \in Seq(Card), NamesKept
  PROVE  /\ \A r \in Reports : CardsNamed(r) \subseteq CardsNamed(r)'
         /\ Present \in 0..3 /\ Present' \in 0..3 /\ Present <= Present'
         /\ \A r \in Reports : CardsNamed(r) = {} /\ CardsNamed(r)' # {} => Present + 1 <= Present'
<1>1. Len(cards) \in Nat /\ Len(cards') \in Nat /\ Len(cards) <= Len(cards')
  BY LenProperties DEF NamesKept
<1>2. \A r \in Reports : CardsNamed(r) \subseteq CardsNamed(r)'
  BY <1>1 DEF CardsNamed, NamesKept
<1>3. \A r \in Reports : Named(r) \in 0..1 /\ Named(r)' \in 0..1 /\ Named(r) <= Named(r)'
  BY <1>2 DEF Named
<1>4. \A r \in Reports : CardsNamed(r) = {} /\ CardsNamed(r)' # {} => Named(r) = 0 /\ Named(r)' = 1
  BY DEF Named
<1>5. Reports = {1, 2, 3}
  BY DEF Reports
<1>6. Present \in 0..3 /\ Present' \in 0..3 /\ Present <= Present'
  BY <1>3, <1>5 DEF Present
<1>7. ASSUME NEW r \in Reports, CardsNamed(r) = {}, CardsNamed(r)' # {}
      PROVE  Present + 1 <= Present'
  <2>1. Named(r) = 0 /\ Named(r)' = 1
    BY <1>4, <1>7
  <2>2. r = 1 \/ r = 2 \/ r = 3
    BY <1>5
  <2> QED
    BY <1>3, <1>5, <2>1, <2>2 DEF Present
<1> QED
  BY <1>2, <1>6, <1>7

(* A dashboard laid out, given one more card, published, made.               *)
(* Opaque names for the updates keep the steps below small.                 *)
IsLaidOut(t, s, k, c, w) == t = [s EXCEPT ![k].coll = c, ![k].shown = w]
IsGiven(t, s, k, x) == t = [s EXCEPT ![k].shown = Append(@, x)]
Gains(after, before, x) == Range(after) = Range(before) \cup {x}
IsPublished(t, s, k) == t = [s EXCEPT ![k].public = TRUE]

LEMMA LaidOutDash ==
  ASSUME NEW s \in Seq(Dash), NEW k \in 1..Len(s), NEW c \in Ids, NEW w \in Seq(Cards),
         NEW t, IsLaidOut(t, s, k, c, w)
  PROVE  /\ t \in Seq(Dash) /\ Len(t) = Len(s)
         /\ t[k].coll = c /\ t[k].shown = w /\ t[k].public = s[k].public
         /\ \A i \in 1..Len(s) : i # k => t[i] = s[i]
<1> DEFINE e == [s[k] EXCEPT !.coll = c, !.shown = w]
<1>1. s[k] \in Dash
  BY ElementOfSeq
<1>2. e \in Dash
  BY <1>1 DEF Dash
<1>3. e.coll = c /\ e.shown = w /\ e.public = s[k].public
  BY <1>1 DEF Dash
<1>4. DOMAIN s = 1..Len(s)
  BY LenProperties
<1>5. t = [s EXCEPT ![k] = e]
  BY <1>4 DEF IsLaidOut
<1> HIDE DEF e
<1>6. /\ t \in Seq(Dash) /\ Len(t) = Len(s) /\ t[k] = e
      /\ \A i \in 1..Len(s) : i # k => t[i] = s[i]
  BY <1>2, <1>5, Overwritten
<1> QED
  BY <1>3, <1>6

LEMMA GivenCard ==
  ASSUME NEW s \in Seq(Dash), NEW k \in 1..Len(s), NEW x \in Cards,
         NEW t, IsGiven(t, s, k, x)
  PROVE  /\ t \in Seq(Dash) /\ Len(t) = Len(s)
         /\ Gains(t[k].shown, s[k].shown, x) /\ t[k].public = s[k].public
         /\ \A i \in 1..Len(s) : i # k => t[i] = s[i]
<1> DEFINE w == Append(s[k].shown, x)
           e == [s[k] EXCEPT !.shown = w]
<1>1. s[k] \in Dash
  BY ElementOfSeq
<1>2. s[k].shown \in Seq(Cards)
  BY <1>1 DEF Dash
<1>3. /\ w \in Seq(Cards) /\ Len(w) = Len(s[k].shown) + 1 /\ w[Len(s[k].shown) + 1] = x
      /\ \A i \in 1..Len(s[k].shown) : w[i] = s[k].shown[i]
  BY <1>2, AppendProperties
<1>4. /\ Len(s[k].shown) \in Nat /\ DOMAIN s[k].shown = 1..Len(s[k].shown)
      /\ DOMAIN w = 1..Len(s[k].shown) + 1
  BY <1>2, <1>3, LenProperties
<1>5. t = [s EXCEPT ![k] = e]
  BY DEF IsGiven
<1> HIDE DEF w
<1>6. Gains(w, s[k].shown, x)
  <2>1. \A i \in DOMAIN w : i \in DOMAIN s[k].shown \/ w[i] = x
    BY <1>3, <1>4
  <2>2. Range(w) \subseteq Range(s[k].shown) \cup {x}
    BY <1>3, <1>4, <2>1 DEF Range
  <2>3. x \in Range(w)
    BY <1>3, <1>4 DEF Range
  <2>4. Range(s[k].shown) \subseteq Range(w)
    BY <1>3, <1>4 DEF Range
  <2> QED
    BY <2>2, <2>3, <2>4 DEF Gains
<1>7. e \in Dash
  BY <1>1, <1>3 DEF Dash
<1>8. e.shown = w /\ e.public = s[k].public
  BY <1>1, <1>3 DEF Dash
<1> HIDE DEF e
<1>9. /\ t \in Seq(Dash) /\ Len(t) = Len(s) /\ t[k] = e
      /\ \A i \in 1..Len(s) : i # k => t[i] = s[i]
  BY <1>5, <1>7, Overwritten
<1> QED
  BY <1>6, <1>8, <1>9

LEMMA Published ==
  ASSUME NEW s \in Seq(Dash), NEW k \in 1..Len(s),
         NEW t, IsPublished(t, s, k)
  PROVE  /\ t \in Seq(Dash) /\ Len(t) = Len(s) /\ t[k].public = TRUE
         /\ \A i \in 1..Len(s) : t[i].coll = s[i].coll /\ t[i].shown = s[i].shown
         /\ \A i \in 1..Len(s) : i # k => t[i] = s[i]
<1> DEFINE e == [s[k] EXCEPT !.public = TRUE]
<1>1. s[k] \in Dash
  BY ElementOfSeq
<1>2. e \in Dash
  BY <1>1 DEF Dash
<1>3. e.coll = s[k].coll /\ e.shown = s[k].shown
  BY <1>1 DEF Dash
<1>4. e.public = TRUE
  BY <1>1 DEF Dash
<1>5. t = [s EXCEPT ![k] = e]
  BY DEF IsPublished
<1> HIDE DEF e
<1>6. /\ t \in Seq(Dash) /\ Len(t) = Len(s) /\ t[k] = e
      /\ \A i \in 1..Len(s) : i # k => t[i] = s[i]
  BY <1>2, <1>5, Overwritten
<1> QED
  BY <1>3, <1>4, <1>6

LEMMA MadeDash ==
  ASSUME NEW s \in Seq(Dash), NEW c \in Ids,
         NEW t, t = Append(s, [coll |-> c, shown |-> <<>>, public |-> FALSE])
  PROVE  /\ t \in Seq(Dash) /\ Len(t) = Len(s) + 1 /\ Len(s) \in Nat
         /\ Range(t[Len(s) + 1].shown) = {} /\ t[Len(s) + 1].public = FALSE
         /\ \A i \in 1..Len(s) : t[i] = s[i]
<1> DEFINE e == [coll |-> c, shown |-> <<>>, public |-> FALSE]
<1>1. <<>> \in Seq(Cards)
  BY EmptySeq
<1>2. e \in Dash /\ e.shown = <<>> /\ e.public = FALSE
  BY <1>1 DEF Dash
<1>3. Range(e.shown) = {}
  BY DEF Range
<1> HIDE DEF e
<1> QED
  BY <1>2, <1>3, AppendProperties, LenProperties DEF e

(* The bounds of the type invariant.                                         *)
LEMMA Bounded ==
  ASSUME ServerType, CountInv
  PROVE  /\ 1..colls \subseteq Ids /\ colls \in {0} \cup Ids
         /\ 1..Len(cards) \subseteq Cards
         /\ 1..Len(dashes) \subseteq Ids
         /\ dwh \in {0} \cup Ids
<1>1. Len(cards) \in Nat /\ Len(dashes) \in Nat /\ failures \in 0..MaxFail /\ MaxFail \in Nat
  BY LenProperties, MaxFailAssumption DEF ServerType
<1>2. Present \in 0..3
  <2>1. \A r \in {1, 2, 3} : Named(r) \in 0..1
    BY DEF Named
  <2> QED
    BY <2>1 DEF Present
<1>3. Len(cards) <= 3 + MaxFail
  BY <1>1, <1>2 DEF CountInv
<1> QED
  BY <1>1, <1>3 DEF Ids, Cards, CountInv, ServerType

---------------------------------------------------------------------------
(* What a request changes in Metabase, made by a step that goes well or by   *)
(* one that fails.                                                           *)

Later ==
  /\ failures' \in 0..MaxFail /\ failures <= failures'
  /\ hidden \subseteq hidden' /\ hidden' \subseteq Kinds

(* The counts of the invariant as plain numbers.                             *)
LEMMA Numbers ==
  ASSUME ServerInv, Later
  PROVE  /\ failures \in Nat /\ failures' \in Nat /\ failures <= failures'
         /\ Len(cards) \in Nat /\ Len(dashes) \in Nat /\ colls \in Nat
         /\ Present \in 0..3 /\ Len(cards) <= Present + failures
         /\ Len(dashes) <= failures + 1 /\ colls <= failures + 1
<1>1. failures \in 0..MaxFail /\ failures' \in 0..MaxFail /\ MaxFail \in Nat /\ failures <= failures'
  BY MaxFailAssumption DEF ServerInv, ServerType, Later
<1>2. failures \in Nat /\ failures' \in Nat
  BY <1>1
<1>3. Len(cards) \in Nat /\ Len(dashes) \in Nat /\ colls \in Nat
  BY LenProperties DEF ServerInv, ServerType
<1>4. Present \in 0..3
  <2>1. \A r \in {1, 2, 3} : Named(r) \in 0..1
    BY DEF Named
  <2> QED
    BY <2>1 DEF Present
<1> QED
  BY <1>1, <1>2, <1>3, <1>4 DEF ServerInv, CountInv

(* Requests that leave cards and dashboards alone.                           *)
LEMMA OtherChange ==
  ASSUME ServerInv, Later, UNCHANGED <<cards, dashes>>,
         admin' \in BOOLEAN, dwh' \in 0..1, ~admin' => dwh' = 0,
         colls' \in Nat, colls' <= failures' + 1, colls' > 1 => "collection" \in hidden',
         settings' \subseteq Locale \cup {Sharing}
  PROVE  ServerInv'
<1> USE DEF ServerInv
<1>1. ServerType'
  BY DEF ServerType, Later
<1>2. CountInv'
  <2>1. Present' = Present
    BY DEF Present, Named, CardsNamed
  <2> QED
    BY Numbers, <2>1 DEF CountInv
<1>3. NoDuplicates'
  BY DEF NoDuplicates, Later, CardsNamed
<1>4. ShownInv'
  BY DEF ShownInv
<1>5. PublishedShowsReports'
  BY DEF PublishedShowsReports, Later, Shows
<1> QED
  BY <1>1, <1>2, <1>3, <1>4, <1>5

(* A card written over or added.                                             *)
LEMMA CardsChange ==
  ASSUME ServerInv, Later, UNCHANGED <<admin, dwh, colls, dashes, settings>>,
         cards' \in Seq(Card), NamesKept, Len(cards') <= Present' + failures',
         (\E r \in Reports, i, j \in 1..Len(cards') : i # j /\ {i, j} \subseteq CardsNamed(r)')
           => "card" \in hidden'
  PROVE  ServerInv'
<1> USE DEF ServerInv
<1>1. ServerType'
  BY DEF ServerType, Later
<1>2. CountInv'
  <2>1. colls <= failures' + 1 /\ Len(dashes) <= failures' + 1
    BY Numbers
  <2> QED
    BY <2>1 DEF CountInv
<1>3. NoDuplicates'
  BY DEF NoDuplicates, Later, CardsNamed
<1>4. ShownInv'
  <2>1. Len(cards) \in Nat /\ Len(cards') \in Nat /\ Len(cards) <= Len(cards')
    BY LenProperties DEF ServerType, NamesKept
  <2>2. 1..Len(cards) \subseteq 1..Len(cards')
    BY <2>1
  <2>3. \A d \in 1..Len(dashes) : Range(dashes[d].shown) \subseteq 1..Len(cards)
    BY DEF ShownInv
  <2>4. \A d \in 1..Len(dashes) : Range(dashes[d].shown) \subseteq 1..Len(cards')
    BY <2>2, <2>3
  <2> QED
    BY <2>4 DEF ShownInv
<1>5. PublishedShowsReports'
  <2> SUFFICES ASSUME hidden' \cap {"layout", "dashboard"} = {},
                      NEW d \in 1..Len(dashes), dashes[d].public, NEW r \in Reports
               PROVE  \E c \in Range(dashes[d].shown) : cards'[c].name = r
    BY DEF PublishedShowsReports, Shows
  <2>1. PICK c \in Range(dashes[d].shown) : cards[c].name = r
    BY DEF PublishedShowsReports, Later, Shows
  <2>2. c \in 1..Len(cards)
    BY DEF ShownInv
  <2> QED
    BY <2>1, <2>2 DEF NamesKept
<1> QED
  BY <1>1, <1>2, <1>3, <1>4, <1>5

(* A dashboard made or changed.                                              *)
LEMMA DashesChange ==
  ASSUME ServerInv, Later, UNCHANGED <<admin, dwh, colls, cards, settings>>,
         dashes' \in Seq(Dash), Len(dashes') <= failures' + 1,
         Len(dashes') > 1 => "dashboard" \in hidden',
         \A d \in 1..Len(dashes') : Range(dashes'[d].shown) \subseteq 1..Len(cards),
         hidden' \cap {"layout", "dashboard"} = {} =>
           \A d \in 1..Len(dashes') : dashes'[d].public =>
             \A r \in Reports : \E c \in Range(dashes'[d].shown) : cards[c].name = r
  PROVE  ServerInv'
<1> USE DEF ServerInv
<1>1. ServerType'
  BY DEF ServerType, Later
<1>2. CountInv'
  <2>1. Present' = Present
    BY DEF Present, Named, CardsNamed
  <2>2. colls <= failures' + 1 /\ Len(cards) <= Present + failures'
    BY Numbers
  <2> QED
    BY <2>1, <2>2 DEF CountInv
<1>3. NoDuplicates'
  BY DEF NoDuplicates, Later, CardsNamed
<1>4. ShownInv'
  BY DEF ShownInv
<1>5. PublishedShowsReports'
  BY DEF PublishedShowsReports, Shows
<1> QED
  BY <1>1, <1>2, <1>3, <1>4, <1>5

---------------------------------------------------------------------------
(* Each request that changes Metabase, at the step of the run that makes it. *)

(* The sequence of the run's cards, as a dashboard may show it.              *)
LEMMA MyCards ==
  ASSUME Inv
  PROVE  /\ my.cards \in Seq(Cards) /\ Len(my.cards) \in Nat
         /\ Range(my.cards) \subseteq 1..Len(cards)
         /\ \A i \in 1..Len(my.cards) : my.cards[i] \in Range(my.cards)
         /\ Past(WithCards) => \A r \in Reports : cards[my.cards[r]].name = r
<1>1. my.cards \in Seq(Nat)
  BY DEF Inv, RunInv, Held, RunType
<1>2. Len(my.cards) \in Nat /\ DOMAIN my.cards = 1..Len(my.cards)
  BY <1>1, LenProperties
<1>3. \A i \in 1..Len(my.cards) : my.cards[i] \in 1..Len(cards)
  BY DEF Inv, RunInv, CardsInv
<1>4. 1..Len(cards) \subseteq Cards
  BY Bounded DEF Inv, ServerInv
<1>5. my.cards \in Seq(Cards)
  <2>1. SubSeq(my.cards, 1, Len(my.cards)) \in Seq(Cards)
    BY <1>2, <1>3, <1>4, SubSeqProperties
  <2> QED
    BY <1>1, <2>1, SubSeqFull
<1>6. ASSUME Past(WithCards), NEW r \in Reports
      PROVE  cards[my.cards[r]].name = r
  <2>1. Len(my.cards) = 3
    BY <1>6 DEF Inv, RunInv, CardsInv
  <2>2. \A i \in 1..Len(my.cards) : cards[my.cards[i]] = [name |-> i, coll |-> my.coll]
    BY DEF Inv, RunInv, CardsInv
  <2> QED
    BY <2>1, <2>2 DEF Reports
<1> QED
  BY <1>2, <1>3, <1>5, <1>6 DEF Range

LEMMA Unchanged ==
  ASSUME ServerInv, Later, UNCHANGED server
  PROVE  ServerInv'
<1>1. ServerInv
  BY DEF Inv
<1>2. admin' \in BOOLEAN /\ dwh' \in 0..1 /\ (~admin' => dwh' = 0)
  BY DEF server, Inv, ServerInv, ServerType
<1>3. colls' \in Nat /\ colls' <= failures' + 1 /\ (colls' > 1 => "collection" \in hidden')
  BY <1>1, Numbers DEF server, ServerInv, NoDuplicates, Later
<1>4. settings' \subseteq Locale \cup {Sharing}
  BY DEF server, Inv, ServerInv, ServerType
<1>5. UNCHANGED <<cards, dashes>>
  BY DEF server
<1> QED
  BY <1>1, <1>2, <1>3, <1>4, <1>5, OtherChange

LEMMA SetUpKeeps ==
  ASSUME Inv, Later, SetUp
  PROVE  ServerInv'
<1>1. ServerInv
  BY DEF Inv
<1>2. admin' \in BOOLEAN /\ dwh' \in 0..1 /\ (~admin' => dwh' = 0)
  BY DEF SetUp, Inv, ServerInv, ServerType
<1>3. colls' \in Nat /\ colls' <= failures' + 1 /\ (colls' > 1 => "collection" \in hidden')
  BY <1>1, Numbers DEF SetUp, ServerInv, NoDuplicates, Later
<1>4. settings' \subseteq Locale \cup {Sharing}
  BY DEF SetUp, Inv, ServerInv, ServerType
<1>5. UNCHANGED <<cards, dashes>>
  BY DEF SetUp
<1> QED
  BY <1>1, <1>2, <1>3, <1>4, <1>5, OtherChange

LEMMA CreateDatabaseKeeps ==
  ASSUME Inv, Later, pc = "create_database", CreateDatabase
  PROVE  ServerInv'
<1>1. ServerInv
  BY DEF Inv
<1>2. admin' \in BOOLEAN /\ dwh' \in 0..1 /\ (~admin' => dwh' = 0)
  <2>1. dwh = 0 /\ admin = TRUE
    BY DEF Inv, ServerInv, ServerType, RunInv, SetupInv
  <2>2. dwh' = 1 /\ admin' = TRUE
    BY <2>1 DEF CreateDatabase
  <2> QED
    BY <2>2
<1>3. colls' \in Nat /\ colls' <= failures' + 1 /\ (colls' > 1 => "collection" \in hidden')
  <2>1. colls' = colls
    BY DEF CreateDatabase
  <2> QED
    BY <1>1, <2>1, Numbers DEF ServerInv, NoDuplicates, Later
<1>4. settings' \subseteq Locale \cup {Sharing}
  BY DEF CreateDatabase, Inv, ServerInv, ServerType
<1>5. UNCHANGED <<cards, dashes>>
  BY DEF CreateDatabase
<1> QED
  BY <1>1, <1>2, <1>3, <1>4, <1>5, OtherChange

(* What is created when there was none, or after a failure.                  *)
LEMMA OneMore ==
  ASSUME NEW n \in Nat, NEW f \in Nat, NEW g \in Nat, f <= g, n = 0 \/ n <= f
  PROVE  n + 1 \in Nat /\ n + 1 <= g + 1
OBVIOUS

LEMMA CreateCollectionKeeps ==
  ASSUME Inv, Later, pc = "create_collection", CreateCollection
  PROVE  ServerInv'
<1>1. colls = 0 \/ (colls <= failures /\ "collection" \in hidden)
  BY DEF Inv, RunInv, CreateInv
<1>2. colls' \in Nat /\ colls' <= failures' + 1 /\ (colls' > 1 => "collection" \in hidden')
  <2>1. ServerInv
    BY DEF Inv
  <2>2. failures \in Nat /\ failures' \in Nat /\ failures <= failures' /\ colls \in Nat
    BY <2>1, Numbers
  <2>3. colls' = colls + 1
    BY DEF CreateCollection
  <2>4. colls' \in Nat /\ colls' <= failures' + 1
    BY <1>1, <2>2, <2>3, OneMore
  <2>5. ASSUME colls' > 1
        PROVE  "collection" \in hidden'
    <3>1. colls # 0
      BY <2>2, <2>3, <2>5
    <3> QED
      BY <1>1, <3>1 DEF Later
  <2> QED
    BY <2>4, <2>5
<1>3. admin' \in BOOLEAN /\ dwh' \in 0..1 /\ (~admin' => dwh' = 0)
  BY DEF CreateCollection, Inv, ServerInv, ServerType
<1>4. ServerInv /\ settings' \subseteq Locale \cup {Sharing} /\ UNCHANGED <<cards, dashes>>
  BY DEF CreateCollection, Inv, ServerInv, ServerType
<1> QED
  BY <1>2, <1>3, <1>4, OtherChange

LEMMA SetKeeps ==
  ASSUME Inv, Later, NEW S \in SUBSET (Locale \cup {Sharing}), Set(S)
  PROVE  ServerInv'
<1>1. ServerInv
  BY DEF Inv
<1>2. admin' \in BOOLEAN /\ dwh' \in 0..1 /\ (~admin' => dwh' = 0)
  BY DEF Set, Inv, ServerInv, ServerType
<1>3. colls' \in Nat /\ colls' <= failures' + 1 /\ (colls' > 1 => "collection" \in hidden')
  BY <1>1, Numbers DEF Set, ServerInv, NoDuplicates, Later
<1>4. settings' \subseteq Locale \cup {Sharing}
  BY DEF Set, Inv, ServerInv, ServerType
<1>5. UNCHANGED <<cards, dashes>>
  BY DEF Set
<1> QED
  BY <1>1, <1>2, <1>3, <1>4, <1>5, OtherChange

(* A card is written over: it keeps its name.                                *)
LEMMA PutCardKeeps ==
  ASSUME Inv, Later, pc = "put_card", PutCard
  PROVE  /\ ServerInv'
         /\ Len(cards') = Len(cards) /\ my.card \in 1..Len(cards)
         /\ cards'[my.card] = [name |-> Report, coll |-> my.coll]
         /\ \A i \in 1..Len(cards) : i # my.card => cards'[i] = cards[i]
<1>0. ServerInv /\ RunInv
  BY DEF Inv
<1>1. my.card \in CardsNamed(Report) /\ my.coll \in 0..colls /\ my.coll # 0
  BY <1>0 DEF RunInv, IdsInv, WithCollection, CardSteps
<1>2. my.card \in 1..Len(cards) /\ cards[my.card].name = Report
  BY <1>1 DEF CardsNamed
<1>3. my.coll \in Ids
  <2>1. colls \in Nat /\ 1..colls \subseteq Ids
    BY <1>0, Numbers, Bounded DEF ServerInv
  <2>2. my.coll \in 1..colls
    BY <1>1, <2>1
  <2> QED
    BY <2>1, <2>2
<1>4. cards \in Seq(Card) /\ cards' = [cards EXCEPT ![my.card].coll = my.coll]
  BY <1>0 DEF ServerInv, ServerType, PutCard
<1>5. /\ cards' \in Seq(Card) /\ Len(cards') = Len(cards)
      /\ \A i \in 1..Len(cards) : cards'[i].name = cards[i].name
      /\ cards'[my.card] = [name |-> Report, coll |-> my.coll]
      /\ \A i \in 1..Len(cards) : i # my.card => cards'[i] = cards[i]
  BY <1>2, <1>3, <1>4, Moved
<1>6. Len(cards) \in Nat /\ Len(cards) <= Present + failures'
  BY <1>0, Numbers
<1>7. NamesKept
  BY <1>5, <1>6 DEF NamesKept
<1>8. \A r \in Reports : CardsNamed(r)' = CardsNamed(r)
  BY <1>5 DEF CardsNamed
<1>9. Present' = Present
  <2>1. \A r \in Reports : Named(r)' = Named(r)
    BY <1>8 DEF Named
  <2> QED
    BY <2>1 DEF Present, Reports
<1>10. ServerInv'
  <2>1. ASSUME NEW r \in Reports, NEW i \in 1..Len(cards'), NEW j \in 1..Len(cards'),
               i # j, {i, j} \subseteq CardsNamed(r)'
        PROVE  "card" \in hidden'
    <3>1. i \in 1..Len(cards) /\ j \in 1..Len(cards) /\ {i, j} \subseteq CardsNamed(r)
      BY <1>5, <1>8, <2>1
    <3> QED
      BY <1>0, <2>1, <3>1 DEF ServerInv, NoDuplicates, Later
  <2>2. UNCHANGED <<admin, dwh, colls, dashes, settings>>
    BY DEF PutCard
  <2>3. Len(cards') <= Present' + failures'
    BY <1>5, <1>6, <1>9
  <2> QED
    BY <1>0, <1>5, <1>7, <2>1, <2>2, <2>3, CardsChange
<1> QED
  BY <1>2, <1>5, <1>10

(* A card is added: the first of its report, or because its list was hidden. *)
LEMMA PostCardKeeps ==
  ASSUME Inv, Later, pc = "post_card", PostCard
  PROVE  /\ ServerInv'
         /\ Len(cards') = Len(cards) + 1
         /\ cards'[Len(cards')] = [name |-> Report, coll |-> my.coll]
         /\ \A i \in 1..Len(cards) : cards'[i] = cards[i]
<1>0. ServerInv /\ RunInv
  BY DEF Inv
<1>1. Report \in Reports
  <2>1. Len(my.cards) \in Nat /\ Len(my.cards) <= 2
    BY <1>0, MyCards DEF RunInv, CardsInv, CardSteps
  <2> QED
    BY <2>1 DEF Report, Reports
<1>2. my.coll \in Ids
  <2>1. colls \in Nat /\ 1..colls \subseteq Ids
    BY <1>0, Numbers, Bounded DEF ServerInv
  <2>2. my.coll \in 0..colls /\ my.coll # 0
    BY <1>0 DEF RunInv, IdsInv, WithCollection, CardSteps
  <2>3. my.coll \in 1..colls
    BY <2>1, <2>2
  <2> QED
    BY <2>1, <2>3
<1>3. cards \in Seq(Card) /\ cards' = Append(cards, [name |-> Report, coll |-> my.coll])
  BY <1>0 DEF ServerInv, ServerType, PostCard
<1>5. /\ cards' \in Seq(Card) /\ Len(cards') = Len(cards) + 1 /\ Len(cards) \in Nat
      /\ cards'[Len(cards) + 1] = [name |-> Report, coll |-> my.coll]
      /\ \A i \in 1..Len(cards) : cards'[i] = cards[i]
  BY <1>1, <1>2, <1>3, Added
<1>6. NamesKept
  BY <1>5 DEF NamesKept
<1>7. \/ CardsNamed(Report) = {}
      \/ Len(cards) < Present + failures /\ "card" \in hidden
  BY DEF Inv, RunInv, CreateInv
<1>8. \A r \in Reports : r = Report => Len(cards) + 1 \in CardsNamed(r)'
  <2>1. Len(cards) + 1 \in 1..Len(cards') /\ cards'[Len(cards) + 1].name = Report
    BY <1>5
  <2> QED
    BY <2>1 DEF CardsNamed
<1>9. Len(cards') <= Present' + failures'
  <2>1. /\ Present' \in 0..3 /\ Present <= Present'
        /\ CardsNamed(Report) = {} => Present + 1 <= Present'
    BY <1>1, <1>3, <1>5, <1>6, <1>8, PresentGrows
  <2> QED
    BY <1>0, <1>3, <1>5, <1>7, <2>1, Numbers
<1>10. ASSUME NEW r \in Reports, NEW i \in 1..Len(cards'), NEW j \in 1..Len(cards'),
              i # j, {i, j} \subseteq CardsNamed(r)'
       PROVE  "card" \in hidden'
  <2>1. cards'[i].name = r /\ cards'[j].name = r
    BY <1>10 DEF CardsNamed
  <2>2. CASE i \in 1..Len(cards) /\ j \in 1..Len(cards)
    <3>1. {i, j} \subseteq CardsNamed(r)
      BY <1>5, <2>1, <2>2 DEF CardsNamed
    <3> QED
      BY <1>10, <2>2, <3>1 DEF Inv, ServerInv, NoDuplicates, Later
  <2>3. ASSUME NEW k \in 1..Len(cards), cards'[k].name = r, r = Report
        PROVE  "card" \in hidden'
    <3>1. k \in CardsNamed(Report)
      BY <1>5, <2>3 DEF CardsNamed
    <3> QED
      BY <1>7, <3>1 DEF Later
  <2>4. CASE i = Len(cards) + 1
    BY <1>3, <1>5, <1>10, <2>1, <2>3, <2>4
  <2>5. CASE j = Len(cards) + 1
    BY <1>3, <1>5, <1>10, <2>1, <2>3, <2>5
  <2> QED
    BY <1>3, <1>5, <2>2, <2>4, <2>5
<1>11. ServerInv'
  <2>1. UNCHANGED <<admin, dwh, colls, dashes, settings>>
    BY DEF PostCard
  <2> QED
    BY <1>0, <1>5, <1>6, <1>9, <1>10, <2>1, CardsChange
<1> QED
  BY <1>5, <1>11
(* The collection and the dashboard of the run exist.                        *)
LEMMA MyColl ==
  ASSUME Inv, pc \in WithCollection
  PROVE  my.coll \in Ids
<1>1. colls \in Nat /\ 1..colls \subseteq Ids
  BY Bounded DEF Inv, ServerInv, ServerType
<1>2. my.coll \in 0..colls /\ my.coll # 0
  BY DEF Inv, RunInv, IdsInv
<1>3. my.coll \in 1..colls
  BY <1>1, <1>2
<1> QED
  BY <1>1, <1>3

LEMMA MyDash ==
  ASSUME Inv
  PROVE  /\ pc \in WithDashboard => my.dash \in 1..Len(dashes)
         /\ pc \in Publishing => my.linked \in 1..Len(dashes)
<1>1. Len(dashes) \in Nat
  BY LenProperties DEF Inv, ServerInv, ServerType
<1>2. my.dash \in 0..Len(dashes) /\ my.linked \in 0..Len(dashes)
  BY DEF Inv, RunInv, IdsInv
<1>3. (pc \in WithDashboard => my.dash # 0) /\ (pc \in Publishing => my.linked # 0)
  BY DEF Inv, RunInv, IdsInv
<1> QED
  BY <1>1, <1>2, <1>3

(* A dashboard that is changed in place: the others stay as they are, and it *)
(* shows cards that exist, all the reports if it is public.                  *)
LEMMA OneDashChange ==
  ASSUME ServerInv, Later, UNCHANGED <<admin, dwh, colls, cards, settings>>,
         NEW k \in 1..Len(dashes), dashes' \in Seq(Dash), Len(dashes') = Len(dashes),
         \A i \in 1..Len(dashes) : i # k => dashes'[i] = dashes[i],
         Range(dashes'[k].shown) \subseteq 1..Len(cards),
         hidden \cap {"layout", "dashboard"} = {} /\ dashes'[k].public =>
           \A r \in Reports : \E c \in Range(dashes'[k].shown) : cards[c].name = r
  PROVE  ServerInv'
<1>1. Len(dashes') <= failures' + 1
  BY Numbers
<1>2. Len(dashes') > 1 => "dashboard" \in hidden'
  BY DEF ServerInv, NoDuplicates, Later
<1>3. ASSUME NEW d \in 1..Len(dashes')
      PROVE  Range(dashes'[d].shown) \subseteq 1..Len(cards)
  <2>1. CASE d = k
    BY <2>1
  <2>2. CASE d # k
    <3>1. dashes'[d] = dashes[d] /\ d \in 1..Len(dashes)
      BY <2>2
    <3> QED
      BY <3>1 DEF ServerInv, ShownInv
  <2> QED
    BY <2>1, <2>2
<1>4. ASSUME hidden' \cap {"layout", "dashboard"} = {}, NEW d \in 1..Len(dashes'),
             dashes'[d].public, NEW r \in Reports
      PROVE  \E c \in Range(dashes'[d].shown) : cards[c].name = r
  <2>1. hidden \cap {"layout", "dashboard"} = {}
    BY <1>4 DEF Later
  <2>2. CASE d = k
    BY <1>4, <2>1, <2>2
  <2>3. CASE d # k
    <3>1. dashes'[d] = dashes[d] /\ d \in 1..Len(dashes)
      BY <2>3
    <3>2. Shows(d, r)
      BY <1>4, <2>1, <3>1 DEF ServerInv, PublishedShowsReports
    <3> QED
      BY <3>1, <3>2 DEF Shows
  <2> QED
    BY <2>2, <2>3
<1> QED
  BY <1>1, <1>2, <1>3, <1>4, DashesChange

LEMMA CreateDashboardKeeps ==
  ASSUME Inv, Later, pc = "create_dashboard", CreateDashboard
  PROVE  /\ ServerInv'
         /\ Len(dashes') = Len(dashes) + 1 /\ Len(dashes) \in Nat
         /\ \A d \in 1..Len(dashes) : dashes'[d] = dashes[d]
<1>0. ServerInv /\ RunInv
  BY DEF Inv
<1>1. my.coll \in Ids
  BY MyColl DEF WithCollection, WithCards
<1>2. dashes \in Seq(Dash) /\ dashes' = Append(dashes, [coll |-> my.coll, shown |-> <<>>, public |-> FALSE])
  BY <1>0 DEF ServerInv, ServerType, CreateDashboard
<1>3. /\ dashes' \in Seq(Dash) /\ Len(dashes') = Len(dashes) + 1 /\ Len(dashes) \in Nat
      /\ Range(dashes'[Len(dashes) + 1].shown) = {} /\ dashes'[Len(dashes) + 1].public = FALSE
      /\ \A d \in 1..Len(dashes) : dashes'[d] = dashes[d]
  BY <1>1, <1>2, MadeDash
<1>4. Len(dashes) = 0 \/ (Len(dashes) <= failures /\ "dashboard" \in hidden)
  BY <1>0 DEF RunInv, CreateInv
<1>5. Len(dashes') <= failures' + 1
  BY <1>0, <1>3, <1>4, Numbers, OneMore
<1>6. ASSUME Len(dashes') > 1
      PROVE  "dashboard" \in hidden'
  <2>1. Len(dashes) # 0
    BY <1>3, <1>6
  <2> QED
    BY <1>4, <2>1 DEF Later
<1>7. ASSUME NEW d \in 1..Len(dashes')
      PROVE  Range(dashes'[d].shown) \subseteq 1..Len(cards)
  <2>1. CASE d = Len(dashes) + 1
    BY <1>3, <2>1
  <2>2. CASE d \in 1..Len(dashes)
    BY <1>0, <1>3, <2>2 DEF ServerInv, ShownInv
  <2> QED
    BY <1>3, <2>1, <2>2
<1>8. ASSUME hidden' \cap {"layout", "dashboard"} = {}, NEW d \in 1..Len(dashes'),
             dashes'[d].public, NEW r \in Reports
      PROVE  \E c \in Range(dashes'[d].shown) : cards[c].name = r
  <2>1. d # Len(dashes) + 1
    BY <1>3, <1>8
  <2>2. d \in 1..Len(dashes) /\ dashes'[d] = dashes[d]
    BY <1>3, <2>1
  <2>3. Shows(d, r)
    BY <1>0, <1>8, <2>2 DEF ServerInv, PublishedShowsReports, Later
  <2> QED
    BY <2>2, <2>3 DEF Shows
<1>9. UNCHANGED <<admin, dwh, colls, cards, settings>>
  BY DEF CreateDashboard
<1>10. ServerInv'
  BY <1>0, <1>3, <1>5, <1>6, <1>7, <1>8, <1>9, DashesChange
<1> QED
  BY <1>3, <1>10

LEMMA LayoutKeeps ==
  ASSUME Inv, Later, pc = "layout", Layout
  PROVE  /\ ServerInv' /\ Len(dashes') = Len(dashes)
         /\ dashes'[my.dash].shown = my.cards /\ dashes'[my.dash].coll = my.coll
<1>0. ServerInv
  BY DEF Inv
<1>1. my.coll \in Ids /\ my.dash \in 1..Len(dashes)
  BY MyColl, MyDash DEF WithCollection, WithCards, WithDashboard
<1>2. /\ my.cards \in Seq(Cards) /\ Range(my.cards) \subseteq 1..Len(cards)
      /\ \A i \in 1..Len(my.cards) : my.cards[i] \in Range(my.cards)
      /\ \A r \in Reports : cards[my.cards[r]].name = r
  BY MyCards DEF Past, WithCards, WithDashboard
<1>3. Reports \subseteq 1..Len(my.cards)
  <2>1. Len(my.cards) = 3
    BY DEF Inv, RunInv, CardsInv, Past, WithCards, WithDashboard
  <2> QED
    BY <2>1 DEF Reports
<1>4. dashes \in Seq(Dash) /\ IsLaidOut(dashes', dashes, my.dash, my.coll, my.cards)
  BY <1>0 DEF ServerInv, ServerType, Layout, LaidOut, IsLaidOut
<1>5. /\ dashes' \in Seq(Dash) /\ Len(dashes') = Len(dashes)
      /\ dashes'[my.dash].coll = my.coll /\ dashes'[my.dash].shown = my.cards
      /\ \A i \in 1..Len(dashes) : i # my.dash => dashes'[i] = dashes[i]
  BY <1>1, <1>2, <1>4, LaidOutDash
<1>6. UNCHANGED <<admin, dwh, colls, cards, settings>>
  BY DEF Layout
<1>7. \A r \in Reports : \E c \in Range(dashes'[my.dash].shown) : cards[c].name = r
  BY <1>2, <1>3, <1>5
<1>8. Range(dashes'[my.dash].shown) \subseteq 1..Len(cards)
  BY <1>2, <1>5
<1>9. ServerInv'
  BY <1>0, <1>1, <1>5, <1>6, <1>7, <1>8, OneDashChange
<1> QED
  BY <1>5, <1>9

LEMMA AddCardKeeps ==
  ASSUME Inv, Later, pc = "add_cards", AddCard
  PROVE  /\ ServerInv' /\ Len(dashes') = Len(dashes)
         /\ Gains(dashes'[my.dash].shown, dashes[my.dash].shown, my.cards[my.added + 1])
<1>0. ServerInv
  BY DEF Inv
<1>1. my.dash \in 1..Len(dashes)
  BY MyDash DEF WithDashboard
<1>2. my.added + 1 \in 1..Len(my.cards)
  <2>1. Len(my.cards) = 3 /\ my.added \in 0..2
    BY DEF Inv, RunInv, CardsInv, LaidInv, Past, WithCards, WithDashboard
  <2> QED
    BY <2>1
<1> DEFINE x == my.cards[my.added + 1]
<1>3. x \in 1..Len(cards) /\ x \in Cards
  <2>1. x \in 1..Len(cards)
    BY <1>2 DEF Inv, RunInv, CardsInv
  <2>2. 1..Len(cards) \subseteq Cards
    BY <1>0, Bounded DEF ServerInv
  <2> HIDE DEF x
  <2> QED
    BY <2>1, <2>2
<1>4. dashes \in Seq(Dash) /\ IsGiven(dashes', dashes, my.dash, x)
  BY <1>0 DEF ServerInv, ServerType, AddCard, IsGiven
<1> HIDE DEF x
<1>5. /\ dashes' \in Seq(Dash) /\ Len(dashes') = Len(dashes)
      /\ Gains(dashes'[my.dash].shown, dashes[my.dash].shown, x)
      /\ dashes'[my.dash].public = dashes[my.dash].public
      /\ \A i \in 1..Len(dashes) : i # my.dash => dashes'[i] = dashes[i]
  <2>1. x \in Cards
    BY <1>3
  <2> QED
    BY <1>1, <1>4, <2>1, GivenCard
<1>6. UNCHANGED <<admin, dwh, colls, cards, settings>>
  BY DEF AddCard
<1>7. Range(dashes'[my.dash].shown) \subseteq 1..Len(cards)
  <2>1. Range(dashes[my.dash].shown) \subseteq 1..Len(cards)
    BY <1>0, <1>1 DEF ServerInv, ShownInv
  <2> QED
    BY <1>3, <1>5, <2>1 DEF Gains
<1>8. ASSUME hidden \cap {"layout", "dashboard"} = {}, dashes'[my.dash].public, NEW r \in Reports
      PROVE  \E c \in Range(dashes'[my.dash].shown) : cards[c].name = r
  <2>1. Shows(my.dash, r)
    BY <1>0, <1>1, <1>5, <1>8 DEF ServerInv, PublishedShowsReports
  <2> QED
    BY <1>5, <2>1 DEF Shows, Gains
<1>9. ServerInv'
  BY <1>0, <1>1, <1>5, <1>6, <1>7, <1>8, OneDashChange
<1> QED
  BY <1>5, <1>9 DEF x

(* Once a link is public, its dashboard shows what the run laid out.         *)
LEMMA LinkKeeps ==
  ASSUME Inv, Later, pc = "link", Link
  PROVE  /\ ServerInv' /\ Len(dashes') = Len(dashes)
         /\ dashes'[my.linked].public = TRUE
         /\ \A d \in 1..Len(dashes) : dashes'[d].coll = dashes[d].coll /\ dashes'[d].shown = dashes[d].shown
<1>0. ServerInv
  BY DEF Inv
<1>1. my.linked \in 1..Len(dashes) /\ my.dash \in 1..Len(dashes) /\ Len(dashes) \in Nat
  <2>1. Len(dashes) \in Nat
    BY <1>0, LenProperties DEF ServerInv, ServerType
  <2> QED
    BY <2>1, MyDash DEF WithDashboard, LaidOutSteps, Publishing
<1>2. dashes \in Seq(Dash) /\ IsPublished(dashes', dashes, my.linked)
  BY <1>0 DEF ServerInv, ServerType, Link, IsPublished
<1>3. /\ dashes' \in Seq(Dash) /\ Len(dashes') = Len(dashes) /\ dashes'[my.linked].public = TRUE
      /\ \A i \in 1..Len(dashes) : dashes'[i].coll = dashes[i].coll /\ dashes'[i].shown = dashes[i].shown
      /\ \A i \in 1..Len(dashes) : i # my.linked => dashes'[i] = dashes[i]
  BY <1>1, <1>2, Published
<1>4. UNCHANGED <<admin, dwh, colls, cards, settings>>
  BY DEF Link
<1>5. Range(dashes'[my.linked].shown) \subseteq 1..Len(cards)
  BY <1>0, <1>1, <1>3 DEF ServerInv, ShownInv
<1>6. ASSUME hidden \cap {"layout", "dashboard"} = {}, NEW r \in Reports
      PROVE  \E c \in Range(dashes'[my.linked].shown) : cards[c].name = r
  <2>1. Len(dashes) <= 1
    BY <1>0, <1>1, <1>6 DEF ServerInv, NoDuplicates
  <2>2. my.linked = my.dash
    BY <1>1, <2>1
  <2>3. Range(my.cards) \subseteq Range(dashes[my.dash].shown)
    BY <1>6 DEF Inv, RunInv, LaidInv, Past, LaidOutSteps, Publishing
  <2>4. r \in 1..Len(my.cards)
    <3>1. Len(my.cards) = 3
      BY DEF Inv, RunInv, CardsInv, Past, WithCards, WithDashboard, LaidOutSteps, Publishing
    <3> QED
      BY <3>1 DEF Reports
  <2>5. my.cards[r] \in Range(my.cards) /\ cards[my.cards[r]].name = r
    BY <2>4, MyCards DEF Past, WithCards, WithDashboard, LaidOutSteps, Publishing
  <2> QED
    BY <1>1, <1>3, <2>2, <2>3, <2>5
<1>7. ServerInv'
  BY <1>0, <1>1, <1>3, <1>4, <1>5, <1>6, OneDashChange
<1> QED
  BY <1>3, <1>7

(* A request that fails may have made its change or not.                     *)
LEMMA FailedKeeps ==
  ASSUME Inv, Later, Change \/ UNCHANGED server
  PROVE  ServerInv'
<1>1. CASE UNCHANGED server
  BY <1>1, Unchanged DEF Inv
<1>2. CASE pc = "setup" /\ SetUp
  BY <1>2, SetUpKeeps
<1>3. CASE pc = "create_database" /\ CreateDatabase
  BY <1>3, CreateDatabaseKeeps
<1>4. CASE pc = "create_collection" /\ CreateCollection
  BY <1>4, CreateCollectionKeeps
<1>5. CASE pc = "put_card" /\ PutCard
  BY <1>5, PutCardKeeps
<1>6. CASE pc = "post_card" /\ PostCard
  BY <1>6, PostCardKeeps
<1>7. CASE pc = "create_dashboard" /\ CreateDashboard
  BY <1>7, CreateDashboardKeeps
<1>8. CASE pc = "layout" /\ Layout
  BY <1>8, LayoutKeeps
<1>9. CASE pc = "add_cards" /\ AddCard
  BY <1>9, AddCardKeeps
<1>10. ASSUME NEW S \in SUBSET Locale, Set(S)
       PROVE  ServerInv'
  BY <1>10, SetKeeps
<1>11. CASE Set({Sharing})
  BY <1>11, SetKeeps
<1>12. CASE pc = "link" /\ Link
  BY <1>12, LinkKeeps
<1> QED
  BY <1>1, <1>2, <1>3, <1>4, <1>5, <1>6, <1>7, <1>8, <1>9, <1>10, <1>11, <1>12 DEF Change

---------------------------------------------------------------------------
(* The steps that only read.                                                 *)

LEMMA WaitReadyRun ==
  ASSUME Inv, WaitReady
  PROVE  RunInv'
<1> USE DEF Inv, RunInv, WaitReady, Goto, server, auxVars,
            Publishing, LaidOutSteps, WithDashboard, WithCards, CardSteps, WithCollection,
            DemoSteps, EarlySteps, Past
<1>1. RunType'
  BY DEF Held, RunType, Steps
<1>2. SetupInv'
  BY DEF Held, RunType, SetupInv, ServerInv, ServerType
<1>3. CreateInv'
  BY DEF CreateInv
<1>4. IdsInv'
  BY DEF IdsInv, Held, RunType
<1>5. CardsInv'
  BY DEF CardsInv, Held, RunType
<1>6. LaidInv'
  BY DEF LaidInv, Held, RunType
<1>7. LinkInv'
  BY DEF LinkInv, Held, RunType
<1> QED
  BY <1>1, <1>2, <1>3, <1>4, <1>5, <1>6, <1>7

LEMMA ReadPropertiesRun ==
  ASSUME Inv, ReadProperties
  PROVE  RunInv'
<1> USE DEF Inv, RunInv, ReadProperties, Goto, server, auxVars,
            Publishing, LaidOutSteps, WithDashboard, WithCards, CardSteps, WithCollection,
            DemoSteps, EarlySteps, Past
<1>1. RunType'
  BY DEF Held, RunType, Steps
<1>2. SetupInv'
  BY DEF Held, RunType, SetupInv, ServerInv, ServerType
<1>3. CreateInv'
  BY DEF CreateInv
<1>4. IdsInv'
  BY DEF IdsInv, Held, RunType
<1>5. CardsInv'
  BY DEF CardsInv, Held, RunType
<1>6. LaidInv'
  BY DEF LaidInv, Held, RunType
<1>7. LinkInv'
  BY DEF LinkInv, Held, RunType
<1> QED
  BY <1>1, <1>2, <1>3, <1>4, <1>5, <1>6, <1>7

LEMMA LoginRun ==
  ASSUME Inv, Login
  PROVE  RunInv'
<1> USE DEF Inv, RunInv, Login, Goto, server, auxVars,
            Publishing, LaidOutSteps, WithDashboard, WithCards, CardSteps, WithCollection,
            DemoSteps, EarlySteps, Past
<1>1. RunType'
  BY DEF Held, RunType, Steps
<1>2. SetupInv'
  BY DEF Held, RunType, SetupInv, ServerInv, ServerType
<1>3. CreateInv'
  BY DEF CreateInv
<1>4. IdsInv'
  BY DEF IdsInv, Held, RunType
<1>5. CardsInv'
  BY DEF CardsInv, Held, RunType
<1>6. LaidInv'
  BY DEF LaidInv, Held, RunType
<1>7. LinkInv'
  BY DEF LinkInv, Held, RunType
<1> QED
  BY <1>1, <1>2, <1>3, <1>4, <1>5, <1>6, <1>7

LEMMA ListDatabasesRun ==
  ASSUME Inv, ListDatabases
  PROVE  RunInv'
<1> USE DEF Inv, RunInv, ListDatabases, Goto, server, auxVars, AfterDatabase,
            Publishing, LaidOutSteps, WithDashboard, WithCards, CardSteps, WithCollection,
            DemoSteps, EarlySteps, Past
<1>1. RunType'
  BY DEF Held, RunType, Steps
<1>2. SetupInv'
  BY DEF Held, RunType, SetupInv, ServerInv, ServerType
<1>3. CreateInv'
  BY DEF CreateInv
<1>4. IdsInv'
  BY DEF IdsInv, Held, RunType
<1>5. CardsInv'
  BY DEF CardsInv, Held, RunType
<1>6. LaidInv'
  BY DEF LaidInv, Held, RunType
<1>7. LinkInv'
  BY DEF LinkInv, Held, RunType
<1> QED
  BY <1>1, <1>2, <1>3, <1>4, <1>5, <1>6, <1>7

LEMMA ListCollectionsRun ==
  ASSUME Inv, ListCollections
  PROVE  RunInv'
<1> USE DEF Inv, RunInv, ListCollections, Goto, server, auxVars,
            Publishing, LaidOutSteps, WithDashboard, WithCards, CardSteps, WithCollection,
            DemoSteps, EarlySteps, Past
<1>0. /\ my'.card = my.card /\ my'.cards = my.cards /\ my'.dash = my.dash
      /\ my'.linked = my.linked /\ my'.added = my.added
      /\ my'.coll \in 0..colls /\ (pc' = "find_card" => my'.coll # 0)
      /\ my.cards = <<>> /\ my.added = 0
  BY DEF Held, RunType, IdsInv, ServerInv, ServerType, Nothing
<1>1. RunType'
  BY DEF Held, RunType, Steps
<1>2. SetupInv'
  BY DEF Held, RunType, SetupInv, ServerInv, ServerType
<1>3. CreateInv'
  BY DEF CreateInv
<1>4. IdsInv'
  BY <1>0 DEF IdsInv, Held, RunType
<1>5. CardsInv'
  BY <1>0 DEF CardsInv, Held, RunType
<1>6. LaidInv'
  BY <1>0 DEF LaidInv, Held, RunType
<1>7. LinkInv'
  BY <1>0 DEF LinkInv, Held, RunType
<1> QED
  BY <1>1, <1>2, <1>3, <1>4, <1>5, <1>6, <1>7

LEMMA FindCardRun ==
  ASSUME Inv, FindCard
  PROVE  RunInv'
<1> USE DEF Inv, RunInv, FindCard, Goto, server, auxVars, FoundCards, CardsNamed, Report,
            Publishing, LaidOutSteps, WithDashboard, WithCards, CardSteps, WithCollection,
            DemoSteps, EarlySteps, Past
<1> DEFINE Chosen ==
         /\ my'.coll = my.coll /\ my'.cards = my.cards /\ my'.dash = my.dash
         /\ my'.linked = my.linked /\ my'.added = my.added
         /\ my'.card \in 0..Len(cards) /\ (pc' = "put_card" => my'.card \in CardsNamed(Report))
         /\ my' \in Held
<1>0. Chosen
  <2>1. CASE UNCHANGED my
    BY <2>1 DEF Held, RunType, IdsInv
  <2>2. ASSUME NEW i \in CardsNamed(Report), my' = [my EXCEPT !.card = i]
        PROVE  Chosen
    <3>1. i \in 1..Len(cards) /\ Len(cards) \in Nat
      BY LenProperties DEF ServerInv, ServerType
    <3>2. i \in Nat /\ i \in 0..Len(cards)
      BY <3>1
    <3> QED
      BY <2>2, <3>2 DEF Held, RunType
  <2> QED
    BY <2>1, <2>2
<1>1. RunType'
  BY <1>0 DEF Held, RunType, Steps
<1>2. SetupInv'
  BY DEF Held, RunType, SetupInv, ServerInv, ServerType
<1>3. CreateInv'
  BY DEF CreateInv
<1>4. IdsInv'
  BY <1>0 DEF IdsInv, Held, RunType
<1>5. CardsInv'
  BY <1>0 DEF CardsInv, Held, RunType
<1>6. LaidInv'
  BY <1>0 DEF LaidInv, Held, RunType
<1>7. LinkInv'
  BY <1>0 DEF LinkInv, Held, RunType
<1> QED
  BY <1>1, <1>2, <1>3, <1>4, <1>5, <1>6, <1>7

LEMMA FindDashboardRun ==
  ASSUME Inv, FindDashboard
  PROVE  RunInv'
<1> USE DEF Inv, RunInv, FindDashboard, Goto, server, auxVars, AfterFound,
            Publishing, LaidOutSteps, WithDashboard, WithCards, CardSteps, WithCollection,
            DemoSteps, EarlySteps, Past
<1> DEFINE Chosen ==
         /\ my'.coll = my.coll /\ my'.card = my.card /\ my'.cards = my.cards
         /\ my'.linked = my.linked /\ my'.added = my.added
         /\ my'.dash \in 0..Len(dashes) /\ (pc' = "layout" => my'.dash # 0)
         /\ my' \in Held
<1>0. Chosen
  <2>1. CASE UNCHANGED my
    BY <2>1 DEF Held, RunType, IdsInv
  <2>2. ASSUME NEW d \in 1..Len(dashes), my' = [my EXCEPT !.dash = d]
        PROVE  Chosen
    BY <2>2 DEF Held, RunType
  <2> QED
    BY <2>1, <2>2
<1>1. RunType'
  BY <1>0 DEF Held, RunType, Steps
<1>2. SetupInv'
  BY DEF Held, RunType, SetupInv, ServerInv, ServerType
<1>3. CreateInv'
  BY DEF CreateInv, ServerInv, ServerType
<1>4. IdsInv'
  BY <1>0 DEF IdsInv, Held, RunType
<1>5. CardsInv'
  BY <1>0 DEF CardsInv, Held, RunType
<1>6. LaidInv'
  BY <1>0 DEF LaidInv, Held, RunType
<1>7. LinkInv'
  BY <1>0 DEF LinkInv, Held, RunType
<1> QED
  BY <1>1, <1>2, <1>3, <1>4, <1>5, <1>6, <1>7

LEMMA FindAgainRun ==
  ASSUME Inv, FindAgain
  PROVE  RunInv'
<1> USE DEF Inv, RunInv, FindAgain, Goto, server, auxVars,
            Publishing, LaidOutSteps, WithDashboard, WithCards, CardSteps, WithCollection,
            DemoSteps, EarlySteps, Past
<1>1. RunType'
  BY DEF Held, RunType, Steps
<1>2. SetupInv'
  BY DEF Held, RunType, SetupInv, ServerInv, ServerType
<1>3. CreateInv'
  BY DEF CreateInv
<1>4. IdsInv'
  BY DEF IdsInv, Held, RunType
<1>5. CardsInv'
  BY DEF CardsInv, Held, RunType
<1>6. LaidInv'
  BY DEF LaidInv, Held, RunType
<1>7. LinkInv'
  BY DEF LinkInv, Held, RunType
<1> QED
  BY <1>1, <1>2, <1>3, <1>4, <1>5, <1>6, <1>7

LEMMA ReadLinkRun ==
  ASSUME Inv, ReadLink
  PROVE  RunInv'
<1> USE DEF Inv, RunInv, ReadLink, Goto, server, auxVars,
            Publishing, LaidOutSteps, WithDashboard, WithCards, CardSteps, WithCollection,
            DemoSteps, EarlySteps, Past
<1>1. RunType'
  BY DEF Held, RunType, Steps
<1>2. SetupInv'
  BY DEF Held, RunType, SetupInv, ServerInv, ServerType
<1>3. CreateInv'
  BY DEF CreateInv
<1>4. IdsInv'
  BY DEF IdsInv, Held, RunType
<1>5. CardsInv'
  BY DEF CardsInv, Held, RunType
<1>6. LaidInv'
  BY DEF LaidInv, Held, RunType
<1>7. LinkInv'
  BY DEF LinkInv, Held, RunType
<1> QED
  BY <1>1, <1>2, <1>3, <1>4, <1>5, <1>6, <1>7

---------------------------------------------------------------------------
(* The steps before the demo.                                                *)

LEMMA StartRun ==
  ASSUME Inv, Start
  PROVE  RunInv'
<1> USE DEF Inv, RunInv, Start, Goto, server, auxVars, Nothing,
            Publishing, LaidOutSteps, WithDashboard, WithCards, CardSteps, WithCollection,
            DemoSteps, EarlySteps, Past
<1>0. Len(cards) \in Nat /\ Len(dashes) \in Nat /\ colls \in Nat
  BY LenProperties DEF ServerInv, ServerType
<1>1. RunType'
  BY DEF Held, RunType, Steps
<1>2. SetupInv'
  BY DEF Held, RunType, SetupInv, ServerInv, ServerType
<1>3. CreateInv'
  BY DEF CreateInv
<1>4. IdsInv'
  BY <1>0 DEF IdsInv, Held, RunType
<1>5. CardsInv'
  BY DEF CardsInv, Held, RunType
<1>6. LaidInv'
  BY DEF LaidInv, Held, RunType
<1>7. LinkInv'
  BY DEF LinkInv, Held, RunType
<1> QED
  BY <1>1, <1>2, <1>3, <1>4, <1>5, <1>6, <1>7

LEMMA InitialSetupRun ==
  ASSUME Inv, InitialSetup
  PROVE  RunInv'
<1> USE DEF Inv, RunInv, InitialSetup, Goto, server, auxVars, SetUp,
            Publishing, LaidOutSteps, WithDashboard, WithCards, CardSteps, WithCollection,
            DemoSteps, EarlySteps, Past
<1>1. RunType'
  BY DEF Held, RunType, Steps
<1>2. SetupInv'
  BY DEF Held, RunType, SetupInv, ServerInv, ServerType
<1>3. CreateInv'
  BY DEF CreateInv
<1>4. IdsInv'
  BY DEF IdsInv, Held, RunType
<1>5. CardsInv'
  BY DEF CardsInv, Held, RunType
<1>6. LaidInv'
  BY DEF LaidInv, Held, RunType
<1>7. LinkInv'
  BY DEF LinkInv, Held, RunType
<1> QED
  BY <1>1, <1>2, <1>3, <1>4, <1>5, <1>6, <1>7

LEMMA EnsureLocaleRun ==
  ASSUME Inv, EnsureLocale
  PROVE  RunInv'
<1> USE DEF Inv, RunInv, EnsureLocale, Goto, server, auxVars, Set,
            Publishing, LaidOutSteps, WithDashboard, WithCards, CardSteps, WithCollection,
            DemoSteps, EarlySteps, Past
<1>1. RunType'
  BY DEF Held, RunType, Steps
<1>2. SetupInv'
  BY DEF Held, RunType, SetupInv, ServerInv, ServerType
<1>3. CreateInv'
  BY DEF CreateInv
<1>4. IdsInv'
  BY DEF IdsInv, Held, RunType
<1>5. CardsInv'
  BY DEF CardsInv, Held, RunType
<1>6. LaidInv'
  BY DEF LaidInv, Held, RunType
<1>7. LinkInv'
  BY DEF LinkInv, Held, RunType
<1> QED
  BY <1>1, <1>2, <1>3, <1>4, <1>5, <1>6, <1>7

LEMMA NewDatabaseRun ==
  ASSUME Inv, NewDatabase
  PROVE  RunInv'
<1> USE DEF Inv, RunInv, NewDatabase, Goto, server, auxVars, CreateDatabase, AfterDatabase,
            Publishing, LaidOutSteps, WithDashboard, WithCards, CardSteps, WithCollection,
            DemoSteps, EarlySteps, Past
<1>1. RunType'
  BY DEF Held, RunType, Steps
<1>2. SetupInv'
  BY DEF Held, RunType, SetupInv, ServerInv, ServerType
<1>3. CreateInv'
  BY DEF CreateInv
<1>4. IdsInv'
  BY DEF IdsInv, Held, RunType
<1>5. CardsInv'
  BY DEF CardsInv, Held, RunType
<1>6. LaidInv'
  BY DEF LaidInv, Held, RunType
<1>7. LinkInv'
  BY DEF LinkInv, Held, RunType
<1> QED
  BY <1>1, <1>2, <1>3, <1>4, <1>5, <1>6, <1>7

LEMMA ShareRun ==
  ASSUME Inv, Share
  PROVE  RunInv'
<1> USE DEF Inv, RunInv, Share, Goto, server, auxVars, Set,
            Publishing, LaidOutSteps, WithDashboard, WithCards, CardSteps, WithCollection,
            DemoSteps, EarlySteps, Past
<1>1. RunType'
  BY DEF Held, RunType, Steps
<1>2. SetupInv'
  BY DEF Held, RunType, SetupInv, ServerInv, ServerType
<1>3. CreateInv'
  BY DEF CreateInv
<1>4. IdsInv'
  BY DEF IdsInv, Held, RunType
<1>5. CardsInv'
  BY DEF CardsInv, Held, RunType
<1>6. LaidInv'
  BY DEF LaidInv, Held, RunType
<1>7. LinkInv'
  BY DEF LinkInv, Held, RunType
<1> QED
  BY <1>1, <1>2, <1>3, <1>4, <1>5, <1>6, <1>7

LEMMA NewCollectionRun ==
  ASSUME Inv, NewCollection
  PROVE  RunInv'
<1> USE DEF Inv, RunInv, NewCollection, Goto, server, auxVars, CreateCollection,
            Publishing, LaidOutSteps, WithDashboard, WithCards, CardSteps, WithCollection,
            DemoSteps, EarlySteps, Past
<1>0. /\ my'.card = my.card /\ my'.cards = my.cards /\ my'.dash = my.dash
      /\ my'.linked = my.linked /\ my'.added = my.added
      /\ my'.coll = colls + 1 /\ colls' = colls + 1 /\ colls \in Nat
      /\ my.cards = <<>> /\ my.added = 0
  BY DEF Held, RunType, ServerInv, ServerType, Nothing
<1>1. RunType'
  BY <1>0 DEF Held, RunType, Steps
<1>2. SetupInv'
  BY DEF Held, RunType, SetupInv, ServerInv, ServerType
<1>3. CreateInv'
  BY DEF CreateInv
<1>4. IdsInv'
  BY <1>0 DEF IdsInv, Held, RunType
<1>5. CardsInv'
  BY <1>0 DEF CardsInv, Held, RunType
<1>6. LaidInv'
  BY <1>0 DEF LaidInv, Held, RunType
<1>7. LinkInv'
  BY <1>0 DEF LinkInv, Held, RunType
<1> QED
  BY <1>1, <1>2, <1>3, <1>4, <1>5, <1>6, <1>7

---------------------------------------------------------------------------
(* The cards.                                                                *)

(* The cards the run had are where they were, and it has one more.           *)
LEMMA OneMoreCard ==
  ASSUME Inv, ServerInv', pc \in CardSteps, NEW i \in 1..Len(cards'), HaveCard(i),
         UNCHANGED <<env, admin, dwh, colls, dashes, settings, auxVars>>,
         cards'[i] = [name |-> Report, coll |-> my.coll],
         \A j \in 1..Len(my.cards) :
           my.cards[j] \in 1..Len(cards') /\ cards'[my.cards[j]] = cards[my.cards[j]]
  PROVE  RunInv'
<1> USE DEF Inv, RunInv, auxVars, WithDashboard, WithCards, WithCollection, LaidOutSteps,
            Publishing, DemoSteps, EarlySteps, Past
<1>1. /\ my.cards \in Seq(Nat) /\ Len(my.cards) \in 0..2
      /\ Len(cards') \in Nat /\ i \in Nat
  <2>1. my.cards \in Seq(Nat) /\ Len(my.cards) <= 2
    BY DEF Held, RunType, CardsInv
  <2>2. Len(my.cards) \in Nat /\ Len(cards') \in Nat
    BY <2>1, LenProperties DEF ServerInv, ServerType
  <2>3. i \in Nat
    BY <2>2
  <2>4. Len(my.cards) \in 0..2
    <3> DEFINE n == Len(my.cards)
    <3>1. n \in Nat /\ n <= 2
      BY <2>1, <2>2
    <3> HIDE DEF n
    <3>2. n \in 0..2
      BY <3>1
    <3> QED
      BY <3>2 DEF n
  <2> QED
    BY <2>1, <2>2, <2>3, <2>4
<1>2. /\ my'.cards = Append(my.cards, i) /\ my'.card = 0 /\ my'.coll = my.coll
      /\ my'.dash = my.dash
      /\ my'.linked = my.linked /\ my'.added = my.added
  BY DEF HaveCard, Held, RunType
<1>3. /\ my'.cards \in Seq(Nat) /\ Len(my'.cards) = Len(my.cards) + 1
      /\ my'.cards[Len(my.cards) + 1] = i
      /\ \A j \in 1..Len(my.cards) : my'.cards[j] = my.cards[j]
  BY <1>1, <1>2, AppendProperties
<1>4. /\ pc' \in {"find_dashboard", "find_card"}
      /\ pc' = "find_dashboard" => Len(my.cards) = 2
      /\ pc' = "find_card" => Len(my.cards) # 2
  <2>1. AllReports <=> Len(my.cards) = 2
    <3> DEFINE n == Len(my.cards)
    <3>1. n \in 0..2
      BY <1>1
    <3> HIDE DEF n
    <3>2. n + 1 = 3 <=> n = 2
      BY <3>1
    <3> QED
      BY <3>2 DEF AllReports, Report, n
  <2>2. pc' = IF AllReports THEN "find_dashboard" ELSE "find_card"
    BY DEF HaveCard, Goto
  <2> QED
    BY <2>1, <2>2
<1>5. RunType'
  <2>1. my' = [my EXCEPT !.cards = Append(my.cards, i), !.card = 0]
    BY DEF HaveCard
  <2>2. Append(my.cards, i) \in Seq(Nat)
    BY <1>2, <1>3
  <2>3. my' \in Held
    BY <2>1, <2>2 DEF Held, RunType
  <2> QED
    BY <1>4, <2>3 DEF Held, RunType, Steps, CardSteps
<1>6. SetupInv'
  BY <1>4 DEF SetupInv, CardSteps
<1>7. CreateInv'
  BY <1>4 DEF CreateInv
<1>8. IdsInv'
  BY <1>1, <1>2, <1>4 DEF IdsInv, CardSteps
<1>9. CardsInv'
  <2> DEFINE n == Len(my.cards)
  <2>0. n \in 0..2 /\ Len(my'.cards) = n + 1
    BY <1>1, <1>3
  <2>1. pc' = "find_card" => Len(my'.cards) <= 2
    <3>1. pc' = "find_card" => n # 2
      BY <1>4
    <3> HIDE DEF n
    <3> QED
      BY <2>0, <3>1
  <2>2. pc' = "find_dashboard" => Len(my'.cards) = 3
    <3>1. pc' = "find_dashboard" => n = 2
      BY <1>4
    <3> HIDE DEF n
    <3> QED
      BY <2>0, <3>1
  <2>3. ASSUME NEW j \in 1..Len(my'.cards)
        PROVE  my'.cards[j] \in 1..Len(cards') /\ cards'[my'.cards[j]] = [name |-> j, coll |-> my'.coll]
    <3>1. CASE j \in 1..Len(my.cards)
      <4>1. cards[my.cards[j]] = [name |-> j, coll |-> my.coll]
        BY <3>1 DEF CardsInv
      <4>2. my'.cards[j] = my.cards[j]
        BY <1>3, <3>1
      <4> QED
        BY <1>2, <3>1, <4>1, <4>2
    <3>2. CASE j = Len(my.cards) + 1
      BY <1>2, <1>3, <3>2 DEF Report
    <3> QED
      BY <1>1, <1>3, <3>1, <3>2
  <2> QED
    BY <1>4, <2>1, <2>2, <2>3 DEF CardsInv, CardSteps
<1>10. LaidInv'
  BY <1>2, <1>4 DEF LaidInv
<1>11. LinkInv'
  BY <1>4 DEF LinkInv
<1> QED
  BY <1>5, <1>6, <1>7, <1>8, <1>9, <1>10, <1>11

LEMMA UpdateCardRun ==
  ASSUME Inv, Later, UpdateCard
  PROVE  ServerInv' /\ RunInv'
<1>1. pc = "put_card" /\ PutCard /\ HaveCard(my.card) /\ UNCHANGED <<env, auxVars>>
  BY DEF UpdateCard
<1>2. /\ ServerInv' /\ Len(cards') = Len(cards) /\ my.card \in 1..Len(cards)
      /\ cards'[my.card] = [name |-> Report, coll |-> my.coll]
      /\ \A i \in 1..Len(cards) : i # my.card => cards'[i] = cards[i]
  BY <1>1, PutCardKeeps
<1>3. UNCHANGED <<admin, dwh, colls, dashes, settings>>
  BY <1>1 DEF PutCard
<1>4. ASSUME NEW j \in 1..Len(my.cards)
      PROVE  my.cards[j] \in 1..Len(cards') /\ cards'[my.cards[j]] = cards[my.cards[j]]
  <2>1. my.cards[j] \in 1..Len(cards) /\ cards[my.cards[j]] = [name |-> j, coll |-> my.coll]
    BY DEF Inv, RunInv, CardsInv
  <2>2. my.cards[j] # my.card
    <3>1. cards[my.card].name = Len(my.cards) + 1
      BY <1>1 DEF Inv, RunInv, IdsInv, CardsNamed, Report
    <3>2. Len(my.cards) \in Nat /\ j # Len(my.cards) + 1
      BY MyCards
    <3>3. cards[my.cards[j]].name = j
      BY <2>1
    <3> QED
      BY <3>1, <3>2, <3>3
  <2> QED
    BY <1>2, <2>1, <2>2
<1>5. pc \in CardSteps /\ my.card \in 1..Len(cards')
  BY <1>1, <1>2 DEF CardSteps
<1> QED
  BY <1>1, <1>2, <1>3, <1>4, <1>5, OneMoreCard

LEMMA CreateCardRun ==
  ASSUME Inv, Later, CreateCard
  PROVE  ServerInv' /\ RunInv'
<1>1. pc = "post_card" /\ PostCard /\ HaveCard(Len(cards')) /\ UNCHANGED <<env, auxVars>>
  BY DEF CreateCard
<1>2. /\ ServerInv' /\ Len(cards') = Len(cards) + 1
      /\ cards'[Len(cards')] = [name |-> Report, coll |-> my.coll]
      /\ \A i \in 1..Len(cards) : cards'[i] = cards[i]
  BY <1>1, PostCardKeeps
<1>3. UNCHANGED <<admin, dwh, colls, dashes, settings>>
  BY <1>1 DEF PostCard
<1>4. Len(cards) \in Nat
  BY LenProperties DEF Inv, ServerInv, ServerType
<1>5. ASSUME NEW j \in 1..Len(my.cards)
      PROVE  my.cards[j] \in 1..Len(cards') /\ cards'[my.cards[j]] = cards[my.cards[j]]
  <2>1. my.cards[j] \in 1..Len(cards)
    BY DEF Inv, RunInv, CardsInv
  <2> QED
    BY <1>2, <1>4, <2>1
<1>6. pc \in CardSteps /\ Len(cards') \in 1..Len(cards')
  BY <1>1, <1>2, <1>4 DEF CardSteps
<1> QED
  BY <1>1, <1>2, <1>3, <1>5, <1>6, OneMoreCard

---------------------------------------------------------------------------
(* The dashboard.                                                            *)

LEMMA NewDashboardRun ==
  ASSUME Inv, Later, NewDashboard
  PROVE  ServerInv' /\ RunInv'
<1> USE DEF Inv, RunInv, auxVars, WithDashboard, WithCards, WithCollection, LaidOutSteps,
            Publishing, CardSteps, DemoSteps, EarlySteps, Past
<1>1. pc = "create_dashboard" /\ CreateDashboard /\ pc' = "layout" /\ UNCHANGED <<env, auxVars>>
  BY DEF NewDashboard, Goto
<1>2. /\ ServerInv' /\ Len(dashes') = Len(dashes) + 1 /\ Len(dashes) \in Nat
      /\ \A d \in 1..Len(dashes) : dashes'[d] = dashes[d]
  BY <1>1, CreateDashboardKeeps
<1>3. UNCHANGED <<admin, dwh, colls, cards, settings>>
  BY <1>1 DEF CreateDashboard
<1>4. Len(dashes') \in Nat /\ my' = [my EXCEPT !.dash = Len(dashes')]
  BY <1>2 DEF NewDashboard
<1>5. /\ my'.coll = my.coll /\ my'.card = my.card /\ my'.cards = my.cards
      /\ my'.linked = my.linked
      /\ my'.added = my.added /\ my'.dash = Len(dashes) + 1
  BY <1>2, <1>4 DEF Held, RunType
<1>6. RunType'
  BY <1>1, <1>4 DEF Held, RunType, Steps
<1>7. SetupInv'
  BY <1>1, <1>3 DEF SetupInv
<1>8. CreateInv'
  BY <1>1 DEF CreateInv
<1>9. IdsInv'
  BY <1>1, <1>2, <1>3, <1>5 DEF IdsInv
<1>10. CardsInv'
  BY <1>1, <1>3, <1>5 DEF CardsInv
<1>11. LaidInv'
  BY <1>1, <1>5 DEF LaidInv
<1>12. LinkInv'
  BY <1>1 DEF LinkInv
<1> QED
  BY <1>2, <1>6, <1>7, <1>8, <1>9, <1>10, <1>11, <1>12

LEMMA PutLayoutRun ==
  ASSUME Inv, Later, PutLayout
  PROVE  ServerInv' /\ RunInv'
<1> USE DEF Inv, RunInv, auxVars, WithDashboard, WithCards, WithCollection, LaidOutSteps,
            Publishing, CardSteps, DemoSteps, EarlySteps, Past
<1>1. pc = "layout" /\ Layout /\ pc' = "find_again" /\ UNCHANGED <<env, my, auxVars>>
  BY DEF PutLayout, Goto
<1>2. /\ ServerInv' /\ Len(dashes') = Len(dashes)
      /\ dashes'[my.dash].shown = my.cards /\ dashes'[my.dash].coll = my.coll
  BY <1>1, LayoutKeeps
<1>3. UNCHANGED <<admin, dwh, colls, cards, settings>>
  BY <1>1 DEF Layout
<1>4. RunType'
  BY <1>1 DEF Held, RunType, Steps
<1>5. SetupInv'
  BY <1>1, <1>3 DEF SetupInv
<1>6. CreateInv'
  BY <1>1 DEF CreateInv
<1>7. IdsInv'
  BY <1>1, <1>2, <1>3 DEF IdsInv
<1>8. CardsInv'
  BY <1>1, <1>3 DEF CardsInv
<1>9. LaidInv'
  BY <1>1, <1>2 DEF LaidInv
<1>10. LinkInv'
  BY <1>1 DEF LinkInv
<1> QED
  BY <1>2, <1>4, <1>5, <1>6, <1>7, <1>8, <1>9, <1>10

(* The loop over the cards: it goes on, or the run goes on after the third.  *)
LEMMA NextCardRun ==
  ASSUME Inv, ServerInv', pc = "add_cards", NextCard,
         UNCHANGED <<env, admin, dwh, colls, cards, settings>>, Len(dashes') = Len(dashes),
         missed \subseteq missed', missed' \subseteq Steps, hidden \subseteq hidden',
         "add_cards" \in missed' => "add_cards" \in missed \/ "layout" \in hidden',
         "add_cards" \notin missed' =>
           Gains(dashes'[my.dash].shown, dashes[my.dash].shown, my.cards[my.added + 1])
  PROVE  RunInv'
<1> USE DEF Inv, RunInv, WithDashboard, WithCards, WithCollection, LaidOutSteps,
            Publishing, CardSteps, DemoSteps, EarlySteps, Past
<1>1. Len(my.cards) = 3 /\ my.added \in 0..2 /\ "layout" \in missed
  BY DEF CardsInv, LaidInv
<1>2. /\ my' = [my EXCEPT !.added = my.added + 1]
      /\ pc' = IF my.added = 2 THEN "find_again" ELSE "add_cards"
  BY <1>1 DEF NextCard, Goto
<1>3. /\ my'.coll = my.coll /\ my'.card = my.card /\ my'.cards = my.cards
      /\ my'.linked = my.linked
      /\ my'.dash = my.dash /\ my'.added = my.added + 1
  BY <1>2 DEF Held, RunType
<1>4. RunType'
  BY <1>1, <1>2 DEF Held, RunType, Steps
<1>5. SetupInv'
  BY <1>2 DEF SetupInv
<1>6. CreateInv'
  BY <1>2 DEF CreateInv
<1>7. IdsInv'
  BY <1>2, <1>3 DEF IdsInv
<1>8. CardsInv'
  BY <1>1, <1>2, <1>3 DEF CardsInv
<1>9. "add_cards" \notin missed' =>
        \A i \in 1..my'.added : my.cards[i] \in Range(dashes'[my.dash].shown)
  <2> SUFFICES ASSUME "add_cards" \notin missed', NEW i \in 1..my.added + 1
               PROVE  my.cards[i] \in Range(dashes'[my.dash].shown)
    BY <1>3
  <2>1. CASE i \in 1..my.added
    BY <2>1 DEF LaidInv, Gains
  <2>2. CASE i = my.added + 1
    BY <2>2 DEF Gains
  <2> QED
    BY <1>1, <2>1, <2>2
<1>10. LaidInv'
  <2>1. ASSUME pc' = "add_cards"
        PROVE  my'.added \in 0..2
    BY <1>1, <1>2, <1>3, <2>1
  <2>2. ASSUME pc' = "find_again", "add_cards" \notin missed'
        PROVE  Range(my.cards) \subseteq Range(dashes'[my.dash].shown)
    <3>1. \A i \in 1..3 : my.cards[i] \in Range(dashes'[my.dash].shown)
      BY <1>1, <1>2, <1>3, <1>9, <2>2
    <3>2. DOMAIN my.cards = 1..3
      BY <1>1, LenProperties DEF Held, RunType
    <3> QED
      BY <3>1, <3>2 DEF Range
  <2>3. "add_cards" \in missed' => "layout" \in hidden'
    BY DEF LaidInv
  <2> QED
    BY <1>1, <1>2, <1>3, <1>9, <2>1, <2>2, <2>3 DEF LaidInv
<1>11. LinkInv'
  BY <1>2 DEF LinkInv
<1> QED
  BY <1>4, <1>5, <1>6, <1>7, <1>8, <1>10, <1>11

LEMMA PostToDashboardRun ==
  ASSUME Inv, Later, PostToDashboard
  PROVE  ServerInv' /\ RunInv'
<1>1. pc = "add_cards" /\ AddCard /\ NextCard /\ UNCHANGED <<env, missed, hidden>>
  BY DEF PostToDashboard, auxVars
<1>2. /\ ServerInv' /\ Len(dashes') = Len(dashes)
      /\ Gains(dashes'[my.dash].shown, dashes[my.dash].shown, my.cards[my.added + 1])
  BY <1>1, AddCardKeeps
<1>3. UNCHANGED <<admin, dwh, colls, cards, settings>>
  BY <1>1 DEF AddCard
<1>4. missed \subseteq Steps
  BY DEF Inv, RunInv, Held, RunType
<1> QED
  BY <1>1, <1>2, <1>3, <1>4, NextCardRun

LEMMA PublicLinkRun ==
  ASSUME Inv, Later, PublicLink
  PROVE  ServerInv' /\ RunInv'
<1> USE DEF Inv, RunInv, WithDashboard, WithCards, WithCollection, LaidOutSteps,
            Publishing, CardSteps, DemoSteps, EarlySteps, Past
<1>1. pc = "link" /\ pc' = "done" /\ UNCHANGED <<env, my, hidden, failures>>
  BY DEF PublicLink, Goto
<1>2. \/ Link /\ UNCHANGED missed
      \/ missed' = missed \cup {"link"} /\ UNCHANGED server
  BY DEF PublicLink
<1>3. ServerInv'
  BY <1>1, <1>2, LinkKeeps, Unchanged
<1>4. /\ UNCHANGED <<admin, dwh, colls, cards, settings>> /\ Len(dashes') = Len(dashes)
      /\ \A d \in 1..Len(dashes) : dashes'[d].coll = dashes[d].coll /\ dashes'[d].shown = dashes[d].shown
  BY <1>1, <1>2, LinkKeeps DEF Link, server
<1>5. my.dash \in 1..Len(dashes) /\ my.linked \in 1..Len(dashes)
  BY <1>1, MyDash
<1>6. missed' \subseteq Steps /\ missed \subseteq missed' /\ missed' \subseteq missed \cup {"link"}
  BY <1>2 DEF Held, RunType, Steps
<1>7. RunType'
  BY <1>1, <1>6 DEF Held, RunType, Steps
<1>8. SetupInv'
  BY <1>1, <1>4, <1>6 DEF SetupInv
<1>9. CreateInv'
  BY <1>1 DEF CreateInv
<1>10. IdsInv'
  BY <1>1, <1>4 DEF IdsInv
<1>11. CardsInv'
  BY <1>1, <1>4 DEF CardsInv
<1>12. LaidInv'
  BY <1>1, <1>4, <1>5, <1>6 DEF LaidInv
<1>13. LinkInv'
  <2>1. CASE Link /\ UNCHANGED missed
    <3>1. dashes'[my.linked].public = TRUE /\ Sharing \in settings
      BY <1>1, <2>1, LinkKeeps DEF Link
    <3> QED
      BY <1>1, <1>4, <3>1 DEF LinkInv
  <2>2. CASE missed' = missed \cup {"link"} /\ UNCHANGED server
    BY <1>1, <2>2 DEF LinkInv
  <2> QED
    BY <1>2, <2>1, <2>2
<1> QED
  BY <1>3, <1>7, <1>8, <1>9, <1>10, <1>11, <1>12, <1>13

---------------------------------------------------------------------------
(* Failures.                                                                 *)

LEMMA FailingLater ==
  ASSUME Inv, Failing, hidden \subseteq hidden', hidden' \subseteq Kinds
  PROVE  Later /\ failures \in Nat /\ failures' = failures + 1
<1>1. failures \in 0..MaxFail /\ MaxFail \in Nat /\ failures < MaxFail /\ failures' = failures + 1
  BY MaxFailAssumption DEF Inv, ServerInv, ServerType, Failing
<1>2. failures \in Nat /\ failures' \in 0..MaxFail /\ failures <= failures'
  BY <1>1
<1> QED
  BY <1>1, <1>2 DEF Later

(* What a failed request may change where the run goes on: no card, no       *)
(* collection, and of the dashboards only the layout and the link.           *)
OnwardChange ==
  /\ UNCHANGED <<colls, cards>> /\ settings \subseteq settings' /\ Len(dashes') = Len(dashes)
  /\ pc # "setup" => UNCHANGED <<admin, dwh>>
  /\ admin => admin'
  /\ pc \notin {"layout", "add_cards"} =>
       \A d \in 1..Len(dashes) : dashes'[d].coll = dashes[d].coll /\ dashes'[d].shown = dashes[d].shown

LEMMA FailedChange ==
  ASSUME Inv, Later, Change \/ UNCHANGED server,
         pc \in {"setup", "locale", "collections", "find_card", "find_dashboard", "layout",
                "add_cards", "find_again", "share", "read_link", "link"}
  PROVE  OnwardChange
<1> USE DEF OnwardChange
<1>1. CASE UNCHANGED server
  BY <1>1 DEF server
<1>2. CASE pc = "setup" /\ SetUp
  BY <1>2 DEF SetUp
<1>3. CASE pc = "layout" /\ Layout
  BY <1>3, LayoutKeeps DEF Layout
<1>4. CASE pc = "add_cards" /\ AddCard
  BY <1>4, AddCardKeeps DEF AddCard
<1>5. ASSUME NEW S, Set(S), pc \in {"locale", "share"}
      PROVE  OnwardChange
  BY <1>5 DEF Set
<1>6. CASE pc = "link" /\ Link
  BY <1>6, LinkKeeps DEF Link
<1> QED
  BY <1>1, <1>2, <1>3, <1>4, <1>5, <1>6 DEF Change

LEMMA PassedOverRun ==
  ASSUME Inv, PassedOver
  PROVE  ServerInv' /\ RunInv'
<1> USE DEF Inv, RunInv, WithDashboard, WithCards, WithCollection, LaidOutSteps,
            Publishing, CardSteps, DemoSteps, EarlySteps, Past
<1>1. /\ Failing /\ UNCHANGED env /\ (Change \/ UNCHANGED server)
      /\ missed' = missed \cup {pc} /\ hidden' = hidden \cup Hides
  BY DEF PassedOver
<1>2. hidden \subseteq hidden' /\ hidden' \subseteq Kinds
  BY <1>1 DEF ServerInv, ServerType, Hides
<1>3. Later /\ failures \in Nat /\ failures' = failures + 1
  BY <1>1, <1>2, FailingLater
<1>4. ServerInv'
  BY <1>1, <1>3, FailedKeeps
<1>5. missed \subseteq missed' /\ missed' \subseteq Steps
  BY <1>1 DEF Held, RunType
<1>6. CASE pc = "add_cards" /\ NextCard
  <2>1. /\ UNCHANGED <<admin, dwh, colls, cards, settings>> /\ Len(dashes') = Len(dashes)
    BY <1>1, <1>3, <1>6, AddCardKeeps DEF Change, AddCard, server
  <2>2. "add_cards" \in missed' /\ "layout" \in hidden'
    BY <1>1, <1>6 DEF Hides, Kinds
  <2> QED
    BY <1>1, <1>2, <1>4, <1>5, <1>6, <2>1, <2>2, NextCardRun
<1>7. ASSUME UNCHANGED my, NEW step \in Steps, <<pc, step>> \in Onward, pc' = step
      PROVE  RunInv'
  <2>1. pc \in {"setup", "locale", "collections", "find_card", "find_dashboard", "layout",
                 "find_again", "share", "read_link", "link"}
    BY <1>7 DEF Onward
  <2>2. OnwardChange
    BY <1>1, <1>3, <2>1, FailedChange
  <2>3. RunType'
    BY <1>1, <1>5, <1>7, <2>1 DEF Held, RunType, Onward
  <2>4. SetupInv'
    BY <1>1, <1>7, <2>1, <2>2 DEF OnwardChange, SetupInv, Onward
  <2>5. CreateInv'
    <3>1. ASSUME pc = "collections"
          PROVE  colls = 0 \/ (colls <= failures + 1 /\ "collection" \in hidden')
      BY <1>1, <1>3, <3>1, Numbers DEF Hides, Kinds
    <3>2. ASSUME pc = "find_card"
          PROVE  CardsNamed(Report) = {} \/ (Len(cards) < Present + failures' /\ "card" \in hidden')
      BY <1>1, <1>3, <3>2, Numbers DEF Hides, Kinds
    <3>3. ASSUME pc = "find_dashboard"
          PROVE  Len(dashes) = 0 \/ (Len(dashes) <= failures' /\ "dashboard" \in hidden')
      BY <1>1, <1>3, <3>3, Numbers DEF Hides, Kinds
    <3>4. CardsNamed(Report)' = CardsNamed(Report) /\ Present' = Present
      BY <1>7, <2>2 DEF OnwardChange, CardsNamed, Report, Present, Named
    <3> QED
      BY <1>3, <1>7, <2>1, <2>2, <3>1, <3>2, <3>3, <3>4 DEF OnwardChange, CreateInv, Onward
  <2>6. IdsInv'
    BY <1>7, <2>1, <2>2 DEF OnwardChange, IdsInv, Onward
  <2>7. CardsInv'
    BY <1>1, <1>7, <2>1, <2>2 DEF OnwardChange, CardsInv, Onward
  <2>8. LaidInv'
    <3>1. pc \in WithDashboard => my.dash \in 1..Len(dashes)
      BY MyDash
    <3> QED
      BY <1>1, <1>2, <1>7, <2>1, <2>2, <3>1 DEF OnwardChange, LaidInv, Onward
  <2>9. LinkInv'
    BY <1>1, <1>7, <2>1, <2>2 DEF OnwardChange, LinkInv, Onward
  <2> QED
    BY <2>3, <2>4, <2>5, <2>6, <2>7, <2>8, <2>9
<1> QED
  BY <1>4, <1>6, <1>7 DEF PassedOver, Goto

LEMMA DiesRun ==
  ASSUME Inv, Dies
  PROVE  ServerInv' /\ RunInv'
<1>1. /\ Failing /\ UNCHANGED <<env, hidden>> /\ (Change \/ UNCHANGED server)
      /\ pc' = "off" /\ my' = Nothing /\ missed' = {}
  BY DEF Dies, Goto
<1>2. Later
  BY <1>1, FailingLater DEF Inv, ServerInv, ServerType
<1>3. ServerInv'
  BY <1>1, <1>2, FailedKeeps
<1>4. Len(cards') \in Nat /\ Len(dashes') \in Nat /\ colls' \in Nat
  BY <1>3, LenProperties DEF ServerInv, ServerType
<1> USE DEF Inv, RunInv, WithDashboard, WithCards, WithCollection, LaidOutSteps,
            Publishing, CardSteps, DemoSteps, EarlySteps, Past, Nothing
<1>5. RunType'
  BY <1>1 DEF Held, RunType, Steps
<1>6. SetupInv'
  BY <1>1 DEF SetupInv
<1>7. CreateInv'
  BY <1>1 DEF CreateInv
<1>8. IdsInv'
  BY <1>1, <1>4 DEF IdsInv
<1>9. CardsInv'
  BY <1>1 DEF CardsInv
<1>10. LaidInv'
  BY <1>1 DEF LaidInv
<1>11. LinkInv'
  BY <1>1 DEF LinkInv
<1> QED
  BY <1>3, <1>5, <1>6, <1>7, <1>8, <1>9, <1>10, <1>11

---------------------------------------------------------------------------
(* The invariant, and what follows from it.                                  *)

LEMMA InitInv ==
  ASSUME Init
  PROVE  Inv
<1> USE DEF Init, Nothing
<1>1. ServerType
  <2>1. failures \in 0..MaxFail
    BY MaxFailAssumption
  <2>2. cards \in Seq(Card) /\ dashes \in Seq(Dash)
    BY EmptySeq
  <2>3. admin \in BOOLEAN /\ (~admin => dwh = 0)
    OBVIOUS
  <2>4. dwh \in 0..1 /\ colls \in Nat
    OBVIOUS
  <2>5. settings \subseteq Locale \cup {Sharing} /\ hidden \subseteq Kinds
    OBVIOUS
  <2> QED
    BY <2>1, <2>2, <2>3, <2>4, <2>5 DEF ServerType
<1>2. Len(cards) = 0 /\ Len(dashes) = 0
  BY EmptySeq
<1>3. CountInv
  BY <1>2 DEF CountInv, Present, Named
<1>4. NoDuplicates
  BY <1>2 DEF NoDuplicates
<1>5. ShownInv
  BY <1>2 DEF ShownInv
<1>6. PublishedShowsReports
  BY <1>2 DEF PublishedShowsReports
<1>7. RunType
  BY EmptySeq DEF Held, RunType, Steps, EarlySteps, DemoSteps, WithCollection, CardSteps, WithCards,
                  WithDashboard, LaidOutSteps, Publishing
<1>8. SetupInv /\ CreateInv
  BY DEF SetupInv, CreateInv, DemoSteps, WithCollection, CardSteps, WithCards,
         WithDashboard, LaidOutSteps, Publishing
<1>9. IdsInv
  BY <1>2 DEF IdsInv, WithCollection, CardSteps, WithCards, WithDashboard, LaidOutSteps, Publishing
<1>10. CardsInv /\ LaidInv /\ LinkInv
  BY EmptySeq DEF CardsInv, LaidInv, LinkInv, Past, CardSteps, WithCards,
         WithDashboard, LaidOutSteps, Publishing
<1> QED
  BY <1>1, <1>3, <1>4, <1>5, <1>6, <1>7, <1>8, <1>9, <1>10 DEF Inv, ServerInv, RunInv

(* The steps that go well.                                                   *)
LEMMA StepInv ==
  ASSUME Inv, Step
  PROVE  Inv'
<1>1. UNCHANGED <<hidden, failures>>
  BY DEF Step, WaitReady, ReadProperties, InitialSetup, Login, EnsureLocale, ListDatabases, NewDatabase,
         ListCollections, NewCollection, FindCard, UpdateCard, CreateCard, FindDashboard, NewDashboard,
         PutLayout, PostToDashboard, FindAgain, Share, ReadLink, PublicLink, auxVars
<1>2. Later
  <2>1. failures \in 0..MaxFail /\ MaxFail \in Nat /\ hidden \subseteq Kinds
    BY MaxFailAssumption DEF Inv, ServerInv, ServerType
  <2> QED
    BY <1>1, <2>1 DEF Later
<1>3. ASSUME UNCHANGED server
      PROVE  ServerInv'
  BY <1>2, <1>3, Unchanged DEF Inv
<1>4. CASE WaitReady
  BY <1>3, <1>4, WaitReadyRun DEF WaitReady, Inv
<1>5. CASE ReadProperties
  BY <1>3, <1>5, ReadPropertiesRun DEF ReadProperties, Inv
<1>6. CASE InitialSetup
  BY <1>2, <1>6, SetUpKeeps, InitialSetupRun DEF InitialSetup, Inv
<1>7. CASE Login
  BY <1>3, <1>7, LoginRun DEF Login, Inv
<1>8. CASE EnsureLocale
  BY <1>2, <1>8, SetKeeps, EnsureLocaleRun DEF EnsureLocale, Inv
<1>9. CASE ListDatabases
  BY <1>3, <1>9, ListDatabasesRun DEF ListDatabases, Inv
<1>10. CASE NewDatabase
  BY <1>2, <1>10, CreateDatabaseKeeps, NewDatabaseRun DEF NewDatabase, Inv
<1>11. CASE ListCollections
  BY <1>3, <1>11, ListCollectionsRun DEF ListCollections, Inv
<1>12. CASE NewCollection
  BY <1>2, <1>12, CreateCollectionKeeps, NewCollectionRun DEF NewCollection, Inv
<1>13. CASE FindCard
  BY <1>3, <1>13, FindCardRun DEF FindCard, Inv
<1>14. CASE UpdateCard
  BY <1>2, <1>14, UpdateCardRun DEF Inv
<1>15. CASE CreateCard
  BY <1>2, <1>15, CreateCardRun DEF Inv
<1>16. CASE FindDashboard
  BY <1>3, <1>16, FindDashboardRun DEF FindDashboard, Inv
<1>17. CASE NewDashboard
  BY <1>2, <1>17, NewDashboardRun DEF Inv
<1>18. CASE PutLayout
  BY <1>2, <1>18, PutLayoutRun DEF Inv
<1>19. CASE PostToDashboard
  BY <1>2, <1>19, PostToDashboardRun DEF Inv
<1>20. CASE FindAgain
  BY <1>3, <1>20, FindAgainRun DEF FindAgain, Inv
<1>21. CASE Share
  BY <1>2, <1>21, SetKeeps, ShareRun DEF Share, Inv
<1>22. CASE ReadLink
  BY <1>3, <1>22, ReadLinkRun DEF ReadLink, Inv
<1>23. CASE PublicLink
  BY <1>2, <1>23, PublicLinkRun DEF Inv
<1> QED
  BY <1>4, <1>5, <1>6, <1>7, <1>8, <1>9, <1>10, <1>11, <1>12, <1>13, <1>14, <1>15, <1>16,
     <1>17, <1>18, <1>19, <1>20, <1>21, <1>22, <1>23 DEF Step

LEMMA NextInv ==
  ASSUME Inv, [Next]_vars
  PROVE  Inv'
<1>1. ASSUME UNCHANGED <<server, hidden, failures>>
      PROVE  ServerInv'
  <2>1. Later
    <3>1. failures \in 0..MaxFail /\ MaxFail \in Nat /\ hidden \subseteq Kinds
      BY MaxFailAssumption DEF Inv, ServerInv, ServerType
    <3> QED
      BY <1>1, <3>1 DEF Later
  <2> QED
    BY <1>1, <2>1, Unchanged DEF Inv
<1>2. CASE Start
  BY <1>1, <1>2, StartRun DEF Start, Inv
<1>3. CASE Step
  BY <1>3, StepInv
<1>4. CASE PassedOver
  BY <1>4, PassedOverRun DEF Inv
<1>5. CASE Dies
  BY <1>5, DiesRun DEF Inv
<1>6. CASE UNCHANGED vars
  <2>1. UNCHANGED <<admin, dwh, colls, cards, dashes, settings, pc, env, my, missed, hidden, failures>>
    BY <1>6 DEF vars, server, auxVars
  <2>2. ServerInv'
    BY <1>1, <2>1 DEF server
  <2>3. RunInv'
    <3>1. RunType' /\ SetupInv'
      BY <2>1 DEF Inv, RunInv, Held, RunType, SetupInv
    <3>2. CreateInv' /\ IdsInv'
      BY <2>1 DEF Inv, RunInv, CreateInv, IdsInv, CardsNamed, Report, Present, Named
    <3>3. CardsInv' /\ LaidInv' /\ LinkInv'
      BY <2>1 DEF Inv, RunInv, CardsInv, LaidInv, LinkInv, Past
    <3> QED
      BY <3>1, <3>2, <3>3 DEF RunInv
  <2> QED
    BY <2>2, <2>3 DEF Inv
<1> QED
  BY <1>2, <1>3, <1>4, <1>5, <1>6 DEF Next

LEMMA InvHolds == Spec => []Inv
BY InitInv, NextInv, PTL DEF Spec

(* Every id a run holds is an id Metabase gave, within the bound that the    *)
(* failures set on the number of objects.                                    *)
THEOREM TypeCorrect == Spec => []TypeOK
<1>1. ASSUME Inv
      PROVE  TypeOK
  <2> USE <1>1 DEF Inv
  <2>1. /\ 1..colls \subseteq Ids /\ colls \in {0} \cup Ids /\ 1..Len(cards) \subseteq Cards
        /\ 1..Len(dashes) \subseteq Ids /\ dwh \in {0} \cup Ids
    BY Bounded DEF ServerInv
  <2>2. colls \in Nat /\ Len(cards) \in Nat /\ Len(dashes) \in Nat
    BY LenProperties DEF ServerInv, ServerType
  <2>3. my.coll \in {0} \cup Ids
    <3>1. my.coll = 0 \/ my.coll \in 1..colls
      BY <2>2 DEF RunInv, IdsInv
    <3> QED
      BY <2>1, <3>1
  <2>4. my.card \in {0} \cup Cards
    <3>1. my.card = 0 \/ my.card \in 1..Len(cards)
      BY <2>2 DEF RunInv, IdsInv
    <3> QED
      BY <2>1, <3>1
  <2>5. my.dash \in {0} \cup Ids
    <3>1. my.dash = 0 \/ my.dash \in 1..Len(dashes)
      BY <2>2 DEF RunInv, IdsInv
    <3> QED
      BY <2>1, <3>1
  <2>6. my.linked \in {0} \cup Ids
    <3>1. my.linked = 0 \/ my.linked \in 1..Len(dashes)
      BY <2>2 DEF RunInv, IdsInv
    <3> QED
      BY <2>1, <3>1
  <2>7. my.cards \in Seq(Cards)
    BY MyCards
  <2>8. my \in [coll : {0} \cup Ids, card : {0} \cup Cards, cards : Seq(Cards), dash : {0} \cup Ids,
                linked : {0} \cup Ids, added : 0..3]
    BY <2>3, <2>4, <2>5, <2>6, <2>7 DEF RunInv, Held, RunType
  <2> QED
    BY <2>1, <2>8 DEF TypeOK, ServerInv, ServerType, RunInv, Held, RunType, Card, Dash
<1> QED
  BY <1>1, InvHolds, PTL

(* Runs of setup.py that fail and are repeated leave one object of each name *)
(* in Metabase, unless a list request that failed hid the one that was there.*)
THEOREM NoDuplicatesTheorem == Spec => []NoDuplicates
<1>1. Inv => NoDuplicates
  BY DEF Inv, ServerInv
<1> QED
  BY <1>1, InvHolds, PTL

(* A run that ends with exit code 0 has done all that main names, but for    *)
(* the requests that failed in this very run.                                *)
THEOREM FinishedIsCompleteTheorem == Spec => []FinishedIsComplete
<1>1. ASSUME Inv, pc = "done"
      PROVE  admin /\ dwh = 1 /\ ("locale" \notin missed => Locale \subseteq settings)
  BY <1>1 DEF Inv, ServerInv, ServerType, RunInv, SetupInv
<1>2. ASSUME Inv, pc = "done", env.demo
      PROVE  /\ Len(my.cards) = 3
             /\ \A r \in Reports : cards[my.cards[r]] = [name |-> r, coll |-> my.coll]
             /\ "layout" \notin missed =>
                  dashes[my.dash].shown = my.cards /\ dashes[my.dash].coll = my.coll
             /\ "add_cards" \notin missed => Range(my.cards) \subseteq Range(dashes[my.dash].shown)
             /\ missed \cap {"find_again", "share", "link"} = {} =>
                  dashes[my.linked].public /\ Sharing \in settings
  <2>1. Past(WithCards) /\ Past(LaidOutSteps) /\ Past({})
    BY <1>2 DEF Past
  <2>2. Len(my.cards) = 3
    BY <1>2, <2>1 DEF Inv, RunInv, CardsInv
  <2>3. \A r \in Reports : cards[my.cards[r]] = [name |-> r, coll |-> my.coll]
    BY <1>2, <2>2 DEF Inv, RunInv, CardsInv, Reports
  <2> QED
    BY <1>2, <2>1, <2>2, <2>3 DEF Inv, RunInv, LaidInv, LinkInv
<1>3. Inv => FinishedIsComplete
  BY <1>1, <1>2 DEF FinishedIsComplete
<1> QED
  BY <1>3, InvHolds, PTL

(* The dashboard that NevaDWH embeds is never without one of its reports,    *)
(* unless its layout failed in both ways or a second dashboard was made.     *)
THEOREM PublishedShowsReportsTheorem == Spec => []PublishedShowsReports
<1>1. Inv => PublishedShowsReports
  BY DEF Inv, ServerInv
<1> QED
  BY <1>1, InvHolds, PTL
============================================================================
