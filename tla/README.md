# NevaDWH: TLA+ models of the load and publish pipeline

NevaDWH moves documents and catalogues of 1C into a warehouse. A message of 1C
goes through RabbitMQ to the MQ service, which writes it into a buffer table of
the ODS and calls a loader procedure; Airflow packs what was loaded into numbered
sessions and publishes each session into the star schema of the DWH, which
Metabase reads.

    1C -> RabbitMQ -> MQ service -> odins.*_buffer -> odins.* -> *_history (session)
                                                                      |
              Metabase <- target.* <- staging.* <- foreign tables / linked server

Every database exists twice, for PostgreSQL (`src/dbpsql`) and for SQL Server
(`src/dbmssql`). Both are generated from one template, but they differ where it
matters: in what a transaction is, in how identity columns are advanced, in what
an exception handler leaves behind. Where they differ a module says which one it
models.

Contents: [components](#1-components), [plan](#2-plan),
[modules and code](#3-modules-and-the-code), [runs](#4-runs),
[proofs](#5-proofs), [limits](#6-what-is-not-modelled).

## 1. Components

`PROJECT.json` lists every component with its sources and its status, and every
hazard at its line. The ones that carry the logic:

### Session life cycle of the ODS
*State*: `odins.<table>` (live rows with an identity `ods_id`), `<table>_history`
(rows by `dwh_session_id`), `etl.dwh_session` (state of a session),
`etl.dwh_processing_details` (row counts), and the temporary tables of a call.
*Operations*: `etl.dwh_AssignSessionID` hands out the oldest session in state 2
(ready) or packs a new one: for each star it copies the live rows to history and
commits, and in a last transaction it deletes the copied rows from `odins` and
writes state 2. `etl.dwh_SaveSessionState` makes a session, or takes the newest in
state 1 (forming), and writes states; `finish_dwh_session` closes with state 4.
*Interaction*: called by the task `start_dwh_session`; the loaders update the same
`odins` tables meanwhile.
*Hard*: the commits inside the procedure, so that loads, failures and other calls
fall between two stars; identity columns; a failed call whose session is taken up.
*Correct when*: no version is lost or packed twice, versions of a document grow
with the session number, a table part is packed with its document, a ready session
never changes, at most one session is open, and each ready session gets closed.

In **SQL Server** the same procedure is a different program: a new session is
committed in state 1 before anything is packed; history is copied without deleting
an earlier copy first, so a session taken up again holds documents twice; a CATCH
block writes state 3, which nothing picks up, also when only the log entry after
the last COMMIT failed; the loader empties a table part before it fills it.

### Loaders of the ODS
*State*: `odins.<table>_buffer` (message, `is_error`, `updated_at`, where
1 January 1900 means "not processed"), `odins.<table>` and its table part.
*Operations*: the MQ service inserts rows; `odins.load_<table>` lists the
unprocessed ones, loads of each document the one that arrived last, and marks or
clears the list according to the history mode (0 to 3); an exception handler flags the list.
*Hard*: messages that arrive while a call runs (READ COMMITTED), repeated or out of
order, unreadable fields, rolled back calls, history kept for n days.
*Correct when*: no message is deleted unprocessed, the message that arrived last
wins, every message is eventually loaded or flagged, and flagged rows are kept.

### Star procedures of the DWH
*State*: `target.<star>` and its table part (surrogate key `id`, natural key
`nkey`, `end_date`), `staging.*` with identity columns `staging_id`.
*Operations*: for each session and star `_t` (transfer), `_r` (rekey) and `_p`
(publish). In PostgreSQL each call is a transaction; in SQL Server each statement.
*Interaction*: `exec_publish` of the star's DAG calls the three; a rerun starts
with the first. Metabase reads `target` at any time.
*Hard*: a run lost between calls or statements, identities taken from `MAX(id)` of
another table, `UPDATE ... FROM` with several matches, sessions repeated.
*Correct when*: keys are unique and stable, a reader sees whole versions that never
step back, and a finished session is in `target` entirely.

### Airflow DAGs
*State*: DAG runs and their tasks, three Variables shared by all runs
(`dwh_session_id`, `dwh_session_count`, `session_id`), `mq.Session` of the DWH.
*Operations*: `dwh_etl_start` (assign, check, launch, finish),
`dwh_etl_Star_Launcher` (dimensions, then facts), one DAG per star.
*Hard*: Variables read again in every task; runs queued by `max_active_runs=1`;
a waiting task lost while the run it triggered goes on; overlapping runs.
*Correct when*: a closed session was applied to every star, facts follow
dimensions, no star applies an older session after a newer one, and runs end.

### Metabase set-up
*State*: what Metabase holds (first user, the database connection, collections,
cards, dashboards, settings) and the ids a run of `setup.py` has collected.
*Operations*: one HTTP request after the other, each of which may fail, applied or
not; some failures end the run, others are passed over.
*Hard*: runs that repeat what earlier ones left half done; a list request that fails
is taken for an empty list; a failed layout is only printed.
*Correct when*: nothing is created twice, a finished run is complete, and the
dashboard that NevaDWH embeds shows its reports, also while it is being redone.

### How they interact
The loaders and `dwh_AssignSessionID` share the tables `odins.*`; a session is
handed to a run of `dwh_etl_start`, whose launcher publishes it star by star and
closes it. That chain, with lost and repeated runs, is the module `Pipeline`.

### The rest
Sessions of the MQ service, audit, landing database, dictionaries, archive
procedure, date dimension, deployment, images, portal and the RAG evaluation tool:
no concurrent state of their own, or never called. Section 6 and `PROJECT.json`
give the reason for each.

## 2. Plan

Done, in this order:

1. `OdsSession`: the centre, since everything downstream relies on sessions that
   grow and are complete; `PipelineProofs`, part 1.
2. `Warehouse` (what a star promises to its reader), `StarTables`, `StarPublish`
   and `StarPublishMssql`, each shown to implement `Warehouse`; `StarTablesProofs`,
   `StarPublishProofs`, `StarPublishMssqlProofs`.
3. `EtlRuns`: the DAGs, which use the two above as black boxes; `EtlRunsProofs`.
4. `OdsLoader`: what comes before the session; `OdsLoaderProofs`.
5. `MssqlSession`: the session life cycle of SQL Server; `MssqlSessionProofs`.
6. `Pipeline`: sessions, publishing and closing composed, with the end-to-end promise
   that what was loaded is shown and nothing older after it. It justifies what
   `StarPublish!Accept` assumes of the ODS; `PipelineProofs`, part 2.
7. `MetabaseSetup`; `MetabaseSetupProofs`.

Left, should the code or the questions grow: the buffer and the file queue of the
SQL Server loaders (batches of 200000, `IsError = 0` in the list, a queue that stops
at the first error), and the dates that the SQL Server facts check against the date
dimension.

## 3. Modules and the code

| Module | Models | One action is |
|---|---|---|
| `OdsSession` | PostgreSQL `dwh_AssignSessionID`, `dwh_SaveSessionState`, closing | one transaction (COMMIT to COMMIT) |
| `StarTables` | the statements of the star procedures as operators on sets of rows | - |
| `StarPublish` | PostgreSQL `sp_<star>_t/_r/_p` | one call |
| `StarPublishMssql` | SQL Server `sp_<star>_transfer/_rekey/_publish` | one call where only staging and one statement on target are touched, else one statement |
| `Warehouse` | abstract: what a reader of a star is promised | - |
| `EtlRuns` | the DAGs of both variants | one read or write of a Variable, one call, or one decision of the scheduler |
| `OdsLoader` | PostgreSQL `odins.load_<table>` and the buffer | one part of the call between two snapshots |
| `MssqlSession` | SQL Server `dwh_AssignSessionID`, `dwh_SaveSessionState`, closing, and what `load_<table>_staging` does to `odins` | one transaction |
| `Pipeline` | `OdsSession` composed with publishing, star by star, and closing | one transaction of the ODS, or one star applied |
| `MetabaseSetup` | `images/metabase/setup.py` | one HTTP request |
| `PipelineProofs` | theorems about `OdsSession` (part 1) and `Pipeline` (part 2) | - |
| `OdsLoaderProofs`, `MssqlSessionProofs`, `StarPublishProofs`, `StarPublishMssqlProofs`, `EtlRunsProofs`, `MetabaseSetupProofs` | theorems about the module they are named for | - |
| `StarTablesProofs` | lemmas about the operators of `StarTables` | - |

`MC*` modules only give constants their values. `PROJECT.json` maps each definition
to its lines. The four stars (`DIM_Валюты`, `DIM_Клиенты`, `DIM_Товары`,
`FACT_Продажи`) run the same generated statements, and so do the four loaders and
the four DAGs; a module models any of them, and the map names now one copy and now
another. Definitions marked *Defect* are plausible mistakes used to show that a
property can fail; no specification uses them.

**Abstractions common to all.** A document or catalogue item (`RefID` = `nkey`) is a
model value; its payload is the number of the message it came from (`ver`). Dates,
names, logging and row layouts are left out. A table part is either the version it
was loaded from (`OdsSession`), or rows with a key of document and line number
(`StarPublish*`), where their identity matters.

**OdsSession.** `oid`, `ver`, `lines` are the live row of a document; `hist`,
`lineHist` the history tables by session; `sess`, `details` the session tables;
`tmp` the `tmp_<star>` tables. `AssignReady` is lines 35-47. `AssignBegin` is the
call of `dwh_SaveSessionState` and the branch between taking up a forming session
and inserting one: an inserted row is invisible to others until the first star
commits, hence `sess` is written in `SnapshotStar`. `SnapshotStar` is a star's
transaction: `SELECT ... FOR UPDATE` keeps its rows locked to the COMMIT, which is
why it is one step. `Finish` is lines 326-355: rows of a star are deleted by
`ods_id`, rows of a table part by `RefID`. `Load` is what a loader does to one
document: UPDATE keeps `ods_id`, so a load can fall on a row that a run has copied
and not yet deleted (`late` records this). The version of a document counts its loads
into `odins`, here and in all modules downstream: an old message that is sent again
and loaded is a new version, and "never steps back" speaks of the order of loads.

**StarPublish, StarPublishMssql.** `target`, `tlines`, `staging`, `slines` are sets
of rows; `seq`, `lseq` the identity values. Numbers are given in any order, and an
`UPDATE ... FROM` with several matches takes any. `Accept` is the ODS handing over
a session with newer versions only: what `OdsSession` shows. `Crash` covers every
point between two calls (or two statements).

**EtlRuns.** One step per access to an Airflow Variable, because other runs come
between. A launcher run queued behind another, and star runs queued behind
another, are sequences. `TriggerLost` and `RunFails` lose the waiting task and not
the run it waits for. `Assign` is `OdsSession` reduced to the session it returns;
`StarApplies` is `StarPublish` reduced to the session it applies.

**MssqlSession.** `hist[s][d]` is the sequence of copies of a document under one
session, because nothing deletes a copy. A star's transaction is one action:
`SELECT ... WITH (XLOCK)` keeps its rows locked to the COMMIT, and the loader's
`MERGE`, which finds no index on `NKey`, scans the table and waits. `AssignBegin`
writes `sess`, since `INSERT ... EXEC` commits the new row alone. `Fails` is the CATCH
block, `Killed` a lost connection, which nothing catches. `orphans` records the
sessions that were ready and got state 3 because their log entry failed. One run at a
time is built into the module (`pc`, `sid`, ... are not indexed by run).

**Pipeline.** EXTENDS `OdsSession` and uses its actions unchanged; `shown` is the
version of each document in `target`, `applied` the stars a run has published.
`ApplyStar` is `exec_publish` of one star (`StarPublish` says why one step is enough
for a reader), `DimsFirst` the launcher's order.

**MetabaseSetup.** `pc` names the next request. What a request changes in Metabase is
`Change`; `Step` does it and goes on, `PassedOver` and `Dies` are the two kinds of
failure, with or without the change. The fallback `add_cards` goes card by card (`added`
counts those tried), and a card that fails is passed over. Objects are numbered in order of creation and
found by name in any order. `missed` and `hidden` are history variables that say
which requests failed, so that the properties can name their exceptions.

**OdsLoader.** `Lock`, `Load`/`LoadFails`, `Clean` are the three parts of a call
that see different snapshots; `work` is what the transaction has written and the
others do not see yet. `Short` and `Long` stand for the 10 and 30 days. `arrived` is
every message ever inserted, by `buffer_id`, and `odins` says from which of them a row
was made. `Receive` inserts any message at any time, one that arrived before too, or an
older version after a newer one: `send-unresolved-msg` sends all of `mq.msgqueue` again
each time (the repository's `README.md:56`; the queue is not drained,
`db-tests.ps1:739`, and its seed has two versions of one `Ref`,
`messagequeue.sql:15` and `:50`), and RabbitMQ delivers again what was not acknowledged.
A message is good, has a field or a `RefID` that cannot be read, or has no `RefID` at
all (`"blank"`: listed, never loaded, stamped as processed).
`Overlapping` names the modes during whose calls messages may arrive, so that the
promise and its exception (`loader_fresh_rows`) are two runs of one module.

### One run at a time

`dwh_etl_start` has `schedule=None` and no `max_active_runs`: an operator starts
it, and nothing stops a second run. The promises of `OdsSession`, `Pipeline` and
`EtlRuns` are those of runs that do not overlap: the theorems assume it
(`OneRunAtATime`) and the runs have `Runs = {r1}`; `etl_runs_overlap` shows what
happens otherwise. Failures are no exception to it: a run that fails at any point is
over, and the launcher and star runs it leaves behind are modelled as going on beside
the next run.

## 4. Runs

| Run | Question | Bounds | States |
|---|---|---|---|
| `ods_session` | what does a packed session promise, with loads and failures between the transactions? | 2 documents in 2 stars, the second with a table part; 3 versions, 3 sessions, 2 failures | 226,756 |
| `pipeline` | does what was loaded get shown, in order, facts after dimensions? | 2 documents, a dimension and a fact; 2 versions, 3 sessions, 2 lost runs | 38,721 |
| `mssql_session` | the SQL Server sessions with failed and killed calls | 2 documents in 2 stars; 2 versions, 3 sessions, 3 failures | 207,478 |
| `mssql_session_lines` | *violation*: do table parts travel with their documents? | 2 documents of one star, 1 session, no failure | |
| `star` | PostgreSQL star: keys, completeness, table parts, refinement, progress | 2 documents, 3 versions, 3 sessions, 3 failures, 2 lines | 33,645 |
| `star_second_session` | *violation*: does a second session succeed? | 2 sessions, no failure | |
| `star_mssql` | SQL Server star, statement by statement, beside a document that is packed twice | 2 documents, 3 versions with 0 or 1 lines, 3 sessions, 1 failure | 1,890,155 |
| `etl_runs` | one run at a time with lost tasks | 2 dimensions, 1 fact, 3 ODS sessions, 4 DWH sessions, 2 failures | 19,036 |
| `etl_runs_overlap` | *violation*: two overlapping runs | 2 runs, no failure | |
| `loader` | messages in any order, repeated or broken, between and during calls | 2 documents, 6 messages of which 3 arrive, 3 days, 1 lost call | 169,756 |
| `loader_fresh_rows` | *violation*: a message that arrives during a call of mode 2 | 3 rows, 2 days | |
| `metabase` | repeated runs of `setup.py` with requests that fail | 3 reports, 3 failures | 285,384 |

**Why the bounds are enough.** Two stars, one of them with a table part, are the
least that has a commit between stars and a difference between deleting by `ods_id`
and by `RefID`. Three versions let one be packed, one be loaded in the window, and
one come after; three sessions let a failed one be taken up between two good
ones. Two failures let the repair fail too. In the stars, three sessions are an
insert, an update, and a rerun of either; a table part of no line, one and none
again (`star_mssql`) grows and vanishes, and one of two lines (`star`) needs two numbers. One dimension beside the one that fails, and one fact, show the order
of the launcher. Three buffer rows over two documents give two versions of one
document in one list, a newer version, an older one and the newer one again in three
calls, and a good row beside a bad one; days run past the longest history. In `mssql_session` a third failure lets a session be killed,
taken up, failed for good and followed by another. In `metabase` three failures are
what it takes to hide an object, to lose the run that made a second one, and to fail
once more in the run after. Every counter is capped in a guard by a constant called
`Max...`; identities and row counts are not capped, the others bound them.

**Deadlock** is not checked, except in `metabase`: at the bounds, and whenever nothing
is loaded or triggered, the system rightly stops. What must go on is stated as
liveness.

**Fairness.** `Pipeline!FairPipelineSpec` and `MssqlSession!FairSpec`: the steps of a
run under way (the server and the scheduler execute them) and that runs keep being
started, which is the operator's part, stated as such. `StarPublish!FairSpec`: the
calls of a run and, after a failure, the next run. `EtlRuns!FairSpec`: every task that
Airflow's scheduler can start, or go on with, does; no new run is assumed.
`OdsLoader!FairSpec`: the MQ service goes on calling the loader.
`MetabaseSetup!FairSpec`: a run goes on, and the stand is brought up again and again
with a complete demo environment. No fairness is assumed of messages, failures or
days.

**What the passing runs show.**
- `NothingLost` (of both databases): the last version of a document is live or in a
  packed session, unless it was written between the commit of its star and the
  final delete. This window is real: such a load is deleted uncopied. The property
  says exactly that, and that the document is still packed in an older version. In
  SQL Server there is one more way out, a ready session that gets state 3 because
  its log entry failed: its rows are deleted from `odins` and no run will publish it.
- `VersionsGrowWithSessions`, `PackedIsFrozen`, `OneOpenSession`,
  `ReadyCanBePublished`: what the DWH may rely on, although a failed call leaves a
  half packed session that the next one packs again.
- `LinesTravelWithDoc`: rows and table parts, deleted by different keys, still agree
  (PostgreSQL).
- `CopiesInOrder`, `LoadedIsClosed`: a SQL Server session taken up again holds its
  documents several times, but in order and all older than later sessions; failed
  and killed calls never block a later session.
- `ShownNeverStepsBack`, `ShownFactsHaveDims`, `LoadedIsShown`: from `odins` to the
  report, runs lost at any step and repeated.
- `KeysStayUnique`, `SurrogateKeysAreStable`: numbers taken from `MAX(id)` never
  collide, and a document keeps its surrogate key through any reruns.
- `PromiseToReader`: both star modules implement `Warehouse`; a table part is of
  the version shown or, during publishing, missing (`PartsMatchRow`).
  `SessionsGetClosed`: publishing makes progress.
- `SingleCopyHeals`: sessions that hold a document twice, which `mssql_session` shows
  to be possible, leave several current rows; the next session that holds it once
  closes all but one. The other documents keep all their promises beside it.
- `BothClosedAreApplied`, `FactsFollowDims`, `StarsNeverStepBack`, `RunsEnd`: the DAGs,
  with launcher and star runs left behind by lost tasks.
- `NothingDropped`, `LaterArrivalWins`, `ErrorsAreKept`,
  `MessagesAreProcessed`: the loader, when no message arrives during a call of mode
  2 or 3. Which message of a document wins depends on arrival only, not on how the
  messages fall into lists. The loader compares no versions, so a document does step
  back to an older version when one arrives after a newer one, as it may when the
  queue is sent again, until the newer one is loaded again; `LaterArrivalWins` says
  that this is the only way. A message whose `RefID` is unreadable stops the loader for good, which
  `MessagesAreProcessed` names as its exception.
- `NoDuplicates`, `FinishedIsComplete`, `PublishedShowsReports`,
  `PublishedInTheEnd`: `setup.py` repeats cleanly, but for list requests that fail and
  are taken for empty, which the properties name. A run whose layout failed in both
  ways still says that it is done and exits with code 0.

**What the violations show.**
- `mssql_session_lines`: `DELETE FROM` the table part without a WHERE
  (`odins.load_FACT_Продажи_staging.sql:103`) takes the lines of documents that were
  loaded earlier and are not packed yet.
- `star_second_session`: `SELECT setval(...)` without a destination
  (`sp_FACT_Продажи_transfer.sql:90`, `sp_DIM_Валюты_transfer.sql:88`) is an error in
  PL/pgSQL, reached as soon as the table part has rows in `target`. Therefore `star`
  gives table parts in the last version only, and `SessionsGetClosed` speaks
  of sessions before that. It needs no concurrency, only a second session.
- `etl_runs_overlap`: a run that found nothing closes another run's session.
- `loader_fresh_rows`: with mode 2, the default, the purge takes a row inserted
  during the call for one from 1900 and deletes it.

Seen while reading, without a run of its own: `finish_dwh_session` writes state 4, and
the PostgreSQL dictionary of states lists 1, 2, 6 and 7.

## 5. Proofs

`PipelineProofs`, part 1, proves for every set of documents and stars, every assignment of
documents to stars, and every bound:

- `TypeCorrect`: `Spec => []TypeOK`, however many calls overlap;
- `NothingLostTheorem`, `VersionsGrowTheorem`, `OneOpenSessionTheorem`,
  `LinesTravelTheorem`, `ReadyCanBePublishedTheorem`, `PackedIsFrozenTheorem`: the
  properties of `ods_session` under `OneRunAtATime`.

The assumptions are those of `OdsSession`: finitely many documents, at least one
star, natural bounds. The properties are not inductive alone: nothing in
`VersionsGrowWithSessions` says why the session now becoming ready is newer than
those before. `Inv` adds what does. `RowInv`: the live row is the last version
loaded. `SidInv`: only the newest session number is open. `PackInv`: packed versions
are older than live ones. `FormInv`, with `TakenInv` for each document: what a run
has copied of a star is still live (nobody else deletes), is in its session's
history, and is newer than all packed versions; `star[r]` separates the stars done
from those to come. `HandInv`: a session about to be closed is ready. There is one
lemma per action, and `NextInv` combines them. `ReadyCanBePublished` is about row
counts, so `CountInv` adds that the counts of a session cover its rows, also after a
failed call, and that a call which has counted rows has copied some; its lemmas are
about cardinalities.

`OdsLoaderProofs` proves for every set of documents, any messages, modes and bounds:

- `TypeCorrect`, `LaterArrivalWinsTheorem`, `ErrorsAreKeptTheorem`: without
  further assumption, so for messages in any order, and also for messages that arrive during a call of mode 2 or 3;
- `NothingDroppedTheorem`: under `QuietPurge`, no message arrives during such a call.
  `loader_fresh_rows` shows that the assumption is needed.

Here `Inv` says that a flagged row is not taken for an unprocessed one (`RowInv`); that
a row of `odins` was made from a message of its document, and whatever waits arrived
later than all that is loaded (`OdinsInv`); that the list of a call has unprocessed rows
only, and rows that arrived since have greater numbers (`ListInv`); and that a call
commits for each document its newest listed row, or the old one (`WorkInv`).
`LaterArrivalWins` needs all of it: nothing in the statement of a load compares what it
writes with what is there. Its second half, about versions, follows from the first and
from `MessagesOf`: what arrived keeps its place. That a newest row exists in a list
(`NewestOfDoc`) rests on the well-foundedness of the natural numbers (`NatMax`).

`MssqlSessionProofs` proves `NothingLostTheorem` and `CopiesInOrderTheorem` for every set
of documents and stars and every bound. The invariant has the same shape
with sequences of copies in place of versions: `OrderInv` orders the copies of one
session, also those of killed calls; `PackInv` puts every packed copy before all
copies of later sessions, failed ones included; `FormInv` says that whatever a session
taken up again holds of a star already done has been listed again, and hence is
deleted with a newer copy in place.

`StarPublishProofs` and `StarPublishMssqlProofs` prove for every set of documents, every
number of lines per version and any number of sessions and failures: `TypeCorrect`,
`KeysStayUniqueTheorem`, `PartsMatchRowTheorem`, `SurrogateKeysAreStableTheorem`, and
`PromiseToReaderTheorem`, the refinement of `Warehouse`, step by step. They rest on
`StarTablesProofs`, which says of each statement (numbering, transfer, rekeying,
closing, updating, inserting) what it returns for any sets of rows. The argument of
both: staged rows have numbers above all ids of `target` (`StagedInv`), so a row is
either rekeyed to the row of its document or keeps a number nobody has
(`RekeyedInv`); a document has one row, and the session holds no older version
(`RowsInv`, `HistoryInv`). For SQL Server the same holds between any two statements
(`AppliedInv`, `LinesGoneInv`), for the documents packed once, whatever happens to
those packed twice. In PostgreSQL `LinesInv` includes that a call which passes
`sp_<star>_t` found the table part empty, the defect above.

`SingleCopyHealsTheorem` (SQL Server) is about documents outside `Single`: earlier
sessions may have left two current rows of one, and the invariants above say nothing
of it. `HealInv` follows a document that the present session holds once through the
call: one staged row after the transfer (`OneStaged`); after the rekeying, a row that
took the id of one current row, beside rows that close every other (`OneTaken`); after
the update, no current row but that one, with the new version (`OneWritten`); after the
insert, one current row (`OneCurrent`). It rests on those parts of `RowsInv`, `StagedInv`
and `RekeyedInv` that hold of all documents, in `Single` or not.

`EtlRunsProofs` proves for every set of stars and any number of sessions and failures,
under `OneRunAtATime`: `TypeCorrect`, `BothClosedAreAppliedTheorem`,
`FactsFollowDimsTheorem` and `StarsNeverStepBackTheorem`. The hard part is what failed
runs leave behind: `BusyInv` says that while any launcher or star run is under way,
the Variable `session_id` belongs to the one ready session; `JobInv` that of the queued
runs of a star only the last is waited for, and that those which have read
`session_id` have read the ready session; `AppliedInv` that a star found ok has
applied it. `RunInv` ties the Variables to the run that set them, and says that when a
run finishes nothing else is under way: that is what the order of the queues and
`max_active_runs=1` give, and why a left-behind star run cannot apply an old session.

`MetabaseSetupProofs` proves for any number of failures: `TypeCorrect`,
`NoDuplicatesTheorem`, `FinishedIsCompleteTheorem` and
`PublishedShowsReportsTheorem`. `ServerInv` is what holds of Metabase whatever runs
did: besides the properties, that a second object of a kind costs a failed request
(`CountInv`, which bounds the ids) and that a dashboard shows cards that exist.
`RunInv` is what a run knows at each step: an object is created only if its list was
empty or hidden by a failure (`CreateInv`); its cards are one of each report, in order
and in its collection (`CardsInv`); the dashboard shows them unless both ways to lay it
out failed (`LaidInv`, which also counts the cards of the fallback one by one); the
dashboard it ends with is the public one (`LinkInv`). A request that fails may have
made its change or not, so there is one lemma per request for what its change keeps,
used by the step that succeeds, the one that is passed over and the one that ends the
run. `FinishedIsComplete` says "except for what was missed", and is proved as such:
no failure is excluded by an assumption.

`PipelineProofs`, part 2, proves that the pipeline implements `OdsSession`
(`PipelineImplementsOdsSession`), which makes the invariant of part 1
available, and with it, under `OneRunAtATime`: `ShownNeverStepsBackTheorem`,
`ShownFactsHaveDimsTheorem`, and `ClosedIsShownTheorem` (all that a closed session holds is
shown). Beyond `Inv` it needs that what is shown comes from a packed session
(`ShownInv`) and what a run has applied is shown (`PipelineProofs!AppliedInv`).

**Only model-checked**: all liveness (`LoadedIsShown`, `LoadedIsClosed`,
`SessionsGetClosed`, `RunsEnd`, `MessagesAreProcessed`, `PublishedInTheEnd`), which
is out of the prover's reach. Every invariant, action property and refinement that a
passing run checks is a theorem above.

## 6. What is not modelled

- **SQL Server loaders**: `MssqlSession` has what they do to `odins`. Their buffers have
  the shape of `OdsLoader`; the batches and the file queue, where one file in state 3
  makes later loads fail (`odins.load_FACT_Продажи_file.sql:42`), are left out.
- **Overlapping calls**: two calls of one loader (`odins.load_FACT_Продажи.sql:51`), and
  the promises of overlapping calls of `dwh_AssignSessionID`
  (`dwh_SaveSessionState.sql:26`), see section 3.
- **Landing database**: its `dwh_AssignSessionID` only reads, and
  `rb_SaveSessionState` writes one row in one transaction.
- **MQ service and RabbitMQ**: an external image. `OdsLoader` has what the loaders
  see of them. Whether the service ever overlaps two calls of one loader cannot be
  read from the repository; it is assumed not to.
- **Sessions of the MQ service, audit**: journals that nothing in the pipeline
  reads. **dwh_ArchiveTables**: nothing calls it. **Metadata loader**: nothing
  reads its table.
- **Dates**: the foreign keys of the SQL Server facts to the date dimension could
  refuse a session (`target.FACT_Продажи.sql:26`); dates are abstracted away.
- **The table part in `OdsLoader`**: written by the same statements as its document.
- **A ready session that fails while it is handed out** is in `MssqlSession` (`Fails`)
  and not in `EtlRuns`: the SQL Server `dwh_AssignSessionID` writes state 3 to it when
  its audit log fails (`dwh_AssignSessionID.sql:46-48`). For a run of `EtlRuns` this is a
  call that finds nothing, beside a session that is lost.
- **Views, dictionaries, deployment scripts, images, portal,
  NevaRagEval**: pure queries, data, or sequential scripts.
