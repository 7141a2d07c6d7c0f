--------------------------- MODULE MetabaseSetup ---------------------------
(***************************************************************************)
(* images/metabase/setup.py, run by the container metabase-init when the    *)
(* stand is brought up: it sets up Metabase, connects it to the DWH and,    *)
(* for a demo stand, makes three report cards and a dashboard with a public *)
(* link, which the NevaDWH application embeds.  The script works through    *)
(* HTTP requests alone.  Metabase keeps what a run has done, so that every  *)
(* run goes over what earlier runs left, looking objects up by their names: *)
(*                                                                          *)
(*   - a request may fail: its answer is not a success, and whether Metabase*)
(*     made the change is not known.  Some failures end the run (SystemExit,*)
(*     an exception such as a read timeout), others are passed over;        *)
(*   - a list request that fails is passed over for collections, cards and  *)
(*     dashboards, as if the object did not exist;                          *)
(*   - objects with the same name may come in any order in a list.          *)
(*                                                                          *)
(* The container has restart "no" and a fixed name: runs follow one another *)
(* and are started by hand.                                                 *)
(***************************************************************************)
EXTENDS Naturals, Sequences, Functions

CONSTANT MaxFail   \* bound: failures of requests and of runs

ASSUME MaxFailAssumption == MaxFail \in Nat

VARIABLES
  admin,     \* Metabase has its first user
  dwh,       \* number of databases named METABASE_DWH_NAME
  colls,     \* number of collections named METABASE_COLLECTION_NAME
  cards,     \* cards with the names of the reports: [name, coll]
  dashes,    \* dashboards "Продажи и товары": [coll, shown, public]
  settings,  \* settings that were made
  pc,        \* next request of the run
  env,       \* environment of the run: [demo, payload]
  my,        \* ids the run holds: [coll, card, cards, dash, linked], and added, the
             \* number of cards tried one by one
  missed,    \* history variable: requests of the run that failed and were passed over
  hidden,    \* history variable: what failed list requests hid, and a failed layout
  failures

server  == <<admin, dwh, colls, cards, dashes, settings>>
auxVars == <<missed, hidden, failures>>
vars    == <<server, pc, env, my, auxVars>>

(* The three cards of ensure_reports, in the order of the dashboard.         *)
Reports == 1..3

Locale == {"site-locale", "report-timezone", "user_locale"}
Sharing == "enable-public-sharing"

Kinds == {"collection", "card", "dashboard", "layout"}
Ids == 1..(MaxFail + 1)
Cards == 1..(3 * (MaxFail + 1))

Steps ==
  {"off", "health", "properties", "setup", "login", "locale", "databases", "create_database",
   "collections", "create_collection", "find_card", "put_card", "post_card", "find_dashboard",
   "create_dashboard", "layout", "add_cards", "find_again", "share", "read_link", "link", "done"}

Nothing == [coll |-> 0, card |-> 0, cards |-> <<>>, dash |-> 0, linked |-> 0, added |-> 0]

TypeOK ==
  /\ admin \in BOOLEAN
  /\ dwh \in {0} \cup Ids /\ colls \in {0} \cup Ids
  /\ cards \in Seq([name : Reports, coll : Ids])
  /\ dashes \in Seq([coll : Ids, shown : Seq(Cards), public : BOOLEAN])
  /\ settings \subseteq Locale \cup {Sharing}
  /\ pc \in Steps
  /\ env \in [demo : BOOLEAN, payload : BOOLEAN]
  /\ my \in [coll : {0} \cup Ids, card : {0} \cup Cards, cards : Seq(Cards), dash : {0} \cup Ids,
             linked : {0} \cup Ids, added : 0..3]
  /\ missed \subseteq Steps /\ hidden \subseteq Kinds
  /\ failures \in 0..MaxFail

Init ==
  /\ admin = FALSE /\ dwh = 0 /\ colls = 0
  /\ cards = <<>> /\ dashes = <<>> /\ settings = {}
  /\ pc = "off"
  /\ env = [demo |-> FALSE, payload |-> FALSE]
  /\ my = Nothing
  /\ missed = {} /\ hidden = {} /\ failures = 0

---------------------------------------------------------------------------
(* What the requests change in Metabase.                                     *)

(* The first user, and the database when the environment describes one (some *)
(* versions of Metabase leave it out here).                                  *)
SetUp ==
  /\ ~admin /\ admin' = TRUE
  /\ dwh' \in IF env.payload THEN {dwh, dwh + 1} ELSE {dwh}
  /\ UNCHANGED <<colls, cards, dashes, settings>>

CreateDatabase ==
  /\ dwh' = dwh + 1
  /\ UNCHANGED <<admin, colls, cards, dashes, settings>>

CreateCollection ==
  /\ colls' = colls + 1
  /\ UNCHANGED <<admin, dwh, cards, dashes, settings>>

(* The payload of create_card, new or over an existing card.                 *)
Report == Len(my.cards) + 1

PutCard ==
  /\ cards' = [cards EXCEPT ![my.card].coll = my.coll]
  /\ UNCHANGED <<admin, dwh, colls, dashes, settings>>

PostCard ==
  /\ cards' = Append(cards, [name |-> Report, coll |-> my.coll])
  /\ UNCHANGED <<admin, dwh, colls, dashes, settings>>

CreateDashboard ==
  /\ dashes' = Append(dashes, [coll |-> my.coll, shown |-> <<>>, public |-> FALSE])
  /\ UNCHANGED <<admin, dwh, colls, cards, settings>>

(* Defect: a layout that is there is kept.                                   *)
LaidOut_Kept == IF dashes[my.dash].shown = <<>> THEN my.cards ELSE dashes[my.dash].shown

LaidOut == my.cards

(* PUT of the dashboard replaces its cards; POST .../cards adds the next one. *)
Layout ==
  /\ dashes' = [dashes EXCEPT ![my.dash].coll = my.coll, ![my.dash].shown = LaidOut]
  /\ UNCHANGED <<admin, dwh, colls, cards, settings>>

AddCard ==
  /\ dashes' = [dashes EXCEPT ![my.dash].shown = Append(@, my.cards[my.added + 1])]
  /\ UNCHANGED <<admin, dwh, colls, cards, settings>>

Set(S) ==
  /\ settings' = settings \cup S
  /\ UNCHANGED <<admin, dwh, colls, cards, dashes>>

(* Metabase refuses a public link while public sharing is off.               *)
Link ==
  /\ Sharing \in settings
  /\ dashes' = [dashes EXCEPT ![my.linked].public = TRUE]
  /\ UNCHANGED <<admin, dwh, colls, cards, settings>>

(* The change of a request that fails, if it was made.                       *)
Change ==
  \/ pc = "setup" /\ SetUp
  \/ pc = "create_database" /\ CreateDatabase
  \/ pc = "create_collection" /\ CreateCollection
  \/ pc = "put_card" /\ PutCard
  \/ pc = "post_card" /\ PostCard
  \/ pc = "create_dashboard" /\ CreateDashboard
  \/ pc = "layout" /\ Layout
  \/ pc = "add_cards" /\ AddCard
  \/ pc = "locale" /\ \E S \in SUBSET Locale : Set(S)
  \/ pc = "share" /\ Set({Sharing})
  \/ pc = "link" /\ Link

---------------------------------------------------------------------------
(* main, do_initial_setup, login, ensure_locale.                             *)

Goto(step) == pc' = step

Start ==
  /\ pc \in {"off", "done"}
  /\ env' \in [demo : BOOLEAN, payload : BOOLEAN]
  /\ my' = Nothing
  /\ missed' = {}
  /\ Goto("health")
  /\ UNCHANGED <<server, hidden, failures>>

(* The four requests that only read, when all is well: GET health,           *)
(* GET properties, POST session; the last fails without a user.              *)
WaitReady ==
  /\ pc = "health"
  /\ Goto("properties")
  /\ UNCHANGED <<server, env, my, auxVars>>

ReadProperties ==
  /\ pc = "properties"
  /\ Goto(IF admin THEN "login" ELSE "setup")
  /\ UNCHANGED <<server, env, my, auxVars>>

InitialSetup ==
  /\ pc = "setup"
  /\ SetUp
  /\ Goto("login")
  /\ UNCHANGED <<env, my, auxVars>>

Login ==
  /\ pc = "login"
  /\ Goto(IF admin THEN "locale" ELSE "off")
  /\ UNCHANGED <<server, env, my, auxVars>>

EnsureLocale ==
  /\ pc = "locale"
  /\ Set(Locale)
  /\ Goto("databases")
  /\ UNCHANGED <<env, my, auxVars>>

---------------------------------------------------------------------------
(* ensure_database.                                                          *)

AfterDatabase == IF env.demo THEN "collections" ELSE "done"

(* A database that is missing and not described ends the run.                *)
ListDatabases ==
  /\ pc = "databases"
  /\ Goto(IF dwh > 0 THEN AfterDatabase ELSE IF env.payload THEN "create_database" ELSE "off")
  /\ UNCHANGED <<server, env, my, auxVars>>

NewDatabase ==
  /\ pc = "create_database"
  /\ CreateDatabase
  /\ Goto(AfterDatabase)
  /\ UNCHANGED <<env, my, auxVars>>

---------------------------------------------------------------------------
(* ensure_collection, create_card.                                           *)

ListCollections ==
  /\ pc = "collections"
  /\ \/ colls = 0 /\ Goto("create_collection") /\ UNCHANGED my
     \/ \E c \in 1..colls : my' = [my EXCEPT !.coll = c] /\ Goto("find_card")
  /\ UNCHANGED <<server, env, auxVars>>

NewCollection ==
  /\ pc = "create_collection"
  /\ CreateCollection
  /\ my' = [my EXCEPT !.coll = colls']
  /\ Goto("find_card")
  /\ UNCHANGED <<env, auxVars>>

CardsNamed(r) == {i \in 1..Len(cards) : cards[i].name = r}

(* Defect: the search looks only in the collection of the run.               *)
FoundCards_InCollection == {i \in CardsNamed(Report) : cards[i].coll = my.coll}

FoundCards == CardsNamed(Report)

FindCard ==
  /\ pc = "find_card"
  /\ \/ FoundCards = {} /\ Goto("post_card") /\ UNCHANGED my
     \/ \E i \in FoundCards : my' = [my EXCEPT !.card = i] /\ Goto("put_card")
  /\ UNCHANGED <<server, env, auxVars>>

(* Defects: one call of create_card too few; one too many.                   *)
AllReports_Two == Report >= 2
AllReports_Four == Report > 3

AllReports == Report = 3

HaveCard(i) ==
  /\ my' = [my EXCEPT !.cards = Append(@, i), !.card = 0]
  /\ Goto(IF AllReports THEN "find_dashboard" ELSE "find_card")

UpdateCard ==
  /\ pc = "put_card"
  /\ PutCard
  /\ HaveCard(my.card)
  /\ UNCHANGED <<env, auxVars>>

CreateCard ==
  /\ pc = "post_card"
  /\ PostCard
  /\ HaveCard(Len(cards'))
  /\ UNCHANGED <<env, auxVars>>

---------------------------------------------------------------------------
(* ensure_dashboard, ensure_public_dashboard.                                *)

(* Defect: a dashboard that exists is left as it is.                         *)
AfterFound_NoRefresh == "find_again"

(* The layout of a dashboard that exists is made again.                      *)
AfterFound == "layout"

FindDashboard ==
  /\ pc = "find_dashboard"
  /\ \/ dashes = <<>> /\ Goto("create_dashboard") /\ UNCHANGED my
     \/ \E d \in 1..Len(dashes) : my' = [my EXCEPT !.dash = d] /\ Goto(AfterFound)
  /\ UNCHANGED <<server, env, auxVars>>

NewDashboard ==
  /\ pc = "create_dashboard"
  /\ CreateDashboard
  /\ my' = [my EXCEPT !.dash = Len(dashes')]
  /\ Goto("layout")
  /\ UNCHANGED <<env, auxVars>>

PutLayout ==
  /\ pc = "layout"
  /\ Layout
  /\ Goto("find_again")
  /\ UNCHANGED <<env, my, auxVars>>

(* The loop over the cards that is tried when the PUT has failed; a card that *)
(* fails is passed over.                                                     *)
NextCard ==
  /\ my' = [my EXCEPT !.added = @ + 1]
  /\ Goto(IF my.added + 1 = Len(my.cards) THEN "find_again" ELSE "add_cards")

PostToDashboard ==
  /\ pc = "add_cards"
  /\ AddCard
  /\ NextCard
  /\ UNCHANGED <<env, auxVars>>

(* The dashboard to be published is looked up by its name once more.         *)
FindAgain ==
  /\ pc = "find_again"
  /\ \E d \in 1..Len(dashes) : my' = [my EXCEPT !.linked = d]
  /\ Goto("share")
  /\ UNCHANGED <<server, env, auxVars>>

Share ==
  /\ pc = "share"
  /\ Set({Sharing})
  /\ Goto("read_link")
  /\ UNCHANGED <<env, my, auxVars>>

ReadLink ==
  /\ pc = "read_link"
  /\ Goto(IF dashes[my.linked].public THEN "done" ELSE "link")
  /\ UNCHANGED <<server, env, my, auxVars>>

PublicLink ==
  /\ pc = "link"
  /\ \/ Link /\ UNCHANGED missed
     \/ Sharing \notin settings /\ missed' = missed \cup {"link"} /\ UNCHANGED server
  /\ Goto("done")
  /\ UNCHANGED <<env, my, hidden, failures>>

---------------------------------------------------------------------------
(* Failures.                                                                 *)

Failing == failures < MaxFail /\ failures' = failures + 1

(* Where a run goes on after a request that failed.  A failed setup goes on  *)
(* when it is answered with 403 or "already".                                *)
Onward ==
  {<<"setup", "login">>, <<"locale", "databases">>, <<"collections", "create_collection">>,
   <<"find_card", "post_card">>, <<"find_dashboard", "create_dashboard">>,
   <<"layout", "add_cards">>, <<"find_again", "done">>,
   <<"share", "read_link">>, <<"read_link", "link">>, <<"link", "done">>}

(* What the failure leaves behind for later runs: an object that exists and  *)
(* is going to be created again, a dashboard without its cards.              *)
Hides ==
  {k \in Kinds :
     \/ k = "collection" /\ pc = "collections" /\ colls > 0
     \/ k = "card" /\ pc = "find_card" /\ CardsNamed(Report) # {}
     \/ k = "dashboard" /\ pc = "find_dashboard" /\ dashes # <<>>
     \/ k = "layout" /\ pc = "add_cards"}

PassedOver ==
  /\ Failing
  /\ \/ pc = "add_cards" /\ NextCard
     \/ UNCHANGED my /\ \E step \in Steps : <<pc, step>> \in Onward /\ Goto(step)
  /\ Change \/ UNCHANGED server
  /\ missed' = missed \cup {pc}
  /\ hidden' = hidden \cup Hides
  /\ UNCHANGED env

(* The run ends with an error (SystemExit, FATAL), or is killed.             *)
Dies ==
  /\ Failing
  /\ pc \notin {"off", "done"}
  /\ Change \/ UNCHANGED server
  /\ Goto("off")
  /\ my' = Nothing
  /\ missed' = {}
  /\ UNCHANGED <<env, hidden>>

---------------------------------------------------------------------------
Step ==
  \/ WaitReady \/ ReadProperties \/ InitialSetup \/ Login \/ EnsureLocale
  \/ ListDatabases \/ NewDatabase \/ ListCollections \/ NewCollection
  \/ FindCard \/ UpdateCard \/ CreateCard
  \/ FindDashboard \/ NewDashboard \/ PutLayout \/ PostToDashboard
  \/ FindAgain \/ Share \/ ReadLink \/ PublicLink

Next == Start \/ Step \/ PassedOver \/ Dies

Spec == Init /\ [][Next]_vars

(* A run goes on; the stand is brought up again and again with a complete    *)
(* demo environment: an assumption on the operator.                          *)
StartDemo == Start /\ env'.demo /\ env'.payload

FairSpec == Spec /\ WF_vars(Step) /\ SF_vars(StartDemo)

---------------------------------------------------------------------------
(* Properties.                                                               *)

(* Runs that fail and are repeated never leave a second database, and leave  *)
(* a second collection, card or dashboard of the same name only if a failed  *)
(* list request hid the first: in particular an object whose creation was    *)
(* answered with an error, or not at all, is found by the next run.          *)
NoDuplicates ==
  /\ dwh <= 1
  /\ colls > 1 => "collection" \in hidden
  /\ (\E r \in Reports, i, j \in 1..Len(cards) : i # j /\ {i, j} \subseteq CardsNamed(r))
       => "card" \in hidden
  /\ Len(dashes) > 1 => "dashboard" \in hidden

(* A run that ends with exit code 0 has done all that main names, but for    *)
(* the requests that failed in this very run: whatever earlier runs left     *)
(* behind, duplicates included, the dashboard it laid out shows one card of  *)
(* each report, in order, all in its collection, and a link is public.       *)
FinishedIsComplete ==
  pc = "done" =>
    /\ admin /\ dwh = 1
    /\ "locale" \notin missed => Locale \subseteq settings
    /\ env.demo =>
         /\ Len(my.cards) = 3
         /\ \A r \in Reports : cards[my.cards[r]] = [name |-> r, coll |-> my.coll]
         /\ "layout" \notin missed =>
              dashes[my.dash].shown = my.cards /\ dashes[my.dash].coll = my.coll
         /\ "add_cards" \notin missed =>
              Range(my.cards) \subseteq Range(dashes[my.dash].shown)
         /\ missed \cap {"find_again", "share", "link"} = {} =>
              dashes[my.linked].public /\ Sharing \in settings

Shows(d, r) == \E c \in Range(dashes[d].shown) : cards[c].name = r

(* The dashboard that NevaDWH embeds by its public link is never without one *)
(* of its reports, not even while a later run goes over it, unless its       *)
(* layout failed in both ways or a second dashboard was made.                *)
PublishedShowsReports ==
  hidden \cap {"layout", "dashboard"} = {} =>
    \A d \in 1..Len(dashes) : dashes[d].public => \A r \in Reports : Shows(d, r)

(* However runs fail, once they stop failing the embedded dashboard shows    *)
(* all the reports, for good (unless a second dashboard of the same name was *)
(* made: a run may lay out one of the two and publish the other).            *)
PublishedInTheEnd ==
  <>[](\/ "dashboard" \in hidden
       \/ \E d \in 1..Len(dashes) : dashes[d].public /\ \A r \in Reports : Shows(d, r))
============================================================================
