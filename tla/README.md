# A verified model of ctrlz

ctrlz records every row written to the tables it tracks, in the database
itself, and can take a recorded operation back. What makes it useful is what it
promises about that: the record is complete or says that it is not, the preview
tells the truth, and an undo restores what the operation wrote and nothing else.
This directory states those promises in TLA+, checks them with TLC on small
instances and proves the central ones with TLAPS.

Paths below are relative to the repository.

## 1. The system

| Component | State | Operations | What has to be right |
|---|---|---|---|
| SQLite engine (`ctrlz/engines/sqlite.py`) | tracked tables; `ctrlz_operations`, `ctrlz_change_log`, the staging row `ctrlz_current_op`; one write lock | capture triggers, `execute`, `assess`, `undo`, `purge`, session start | capture is complete or capped; changes are credited to their writer; undo restores, spares others, happens once |
| PostgreSQL engine (`engines/postgres.py`) | the same in a schema; transaction-scoped settings instead of a staging row | the same; retry rounds over foreign keys; sequence resynchronisation | the same with truly concurrent transactions; log order against commit order |
| MySQL engine (`engines/mysql.py`) | the same; session variables instead of a staging row | the same; cascade blockers | the same although cascades fire no triggers and the variable outlives the operation |
| Ordering (`ordering.py`) | none | `topological_rank`, `order_verdicts` | parents before children, however tables are linked |
| Engine contract (`engines/base.py`) | `source_id` setting | `source_id`, `schema_drift_blockers`, `resolve_op_id` | one identity per database; drift is noticed |
| Lifecycle (`migrations.py`, and `initialize`, `uninstall`, `track`, `untrack` of each engine) | the ctrlz tables, their version stamp, the list of tracked tables, three triggers per table | creation and upgrade of the store, tracking, removal | the stamp is true; an upgrade that was interrupted is completed by the next; users can write throughout |
| Toolkit (`api.py`), SDK, preflight, attribution | none of its own | `run`, `undo`, `redo`, `purge` | policy is asked before the engine runs |
| Hub (`hub.py`) | copies of many logs; per source a watermark and a refresh marker | `ship`, `purge`, queries | the replica converges to its sources and never contradicts them |
| Gateway (`gateway/server.py`, `protocol.py`) | a task and two pumps per connection, counters, the error state of the protocol | admission, startup, TLS, authentication relay, pumping, refusal | every statement is judged; client and server stay in step; slots are freed |
| Interceptor (`gateway/interceptor.py`, `fingerprint.py`) | verdict cache, the tables it was told of | `inspect`, `set_tracked` | a cached verdict is the verdict on the statement it answers |
| Policy (`policy/`) | the rulebook | loading, `evaluate`, merge | the strictest rule wins, whatever the order; a rulebook with a typo is refused; every door applies it |
| Analysis (`analysis/`) | none | SQL text in, what it does out | a script is as alarming as its worst statement |
| CLI, rendering | none | text in, text out | not a matter of state |

How they interact: the CLI, the SDK and the toolkit call one engine; an engine
talks to its database, which runs the triggers on behalf of *any* client; the
shipper calls `changes_since`, `operation` and `operations_undone_since` on an
engine and writes to the hub; the gateway sits between PostgreSQL clients and
the server, asks the interceptor about each statement, and the interceptor asks
the policy engine.

Where the behaviour is hard: ctrlz processes, outside clients and the trigger
machinery write to the same tables; what an undo decides on was read before the
transaction that acts on it; foreign keys cascade inside the inverses; the
staging row is shared by everyone who writes; limits are crossed in the middle
of a statement, or change; logs are copied while they grow, are undone and are
purged; DDL commits statement by statement, so that processes that upgrade,
track and uninstall meet half way and can die anywhere.
`PROJECT.json` lists each of these hazards at its line.

## 2. Modules

| Module | Models | Extended by |
|---|---|---|
| `SqliteEngine` | the SQLite engine with several ctrlz processes and outside clients | |
| `MCSqliteEngine` | small instances of it | `SqliteEngine` |
| `SqliteEngineProofs` | theorems about it | `SqliteEngine` |
| `ChangeFeed` | the abstract promise of an engine to whoever follows its log | |
| `Hub` | shippers and the hub, over a database that keeps the promise of `ChangeFeed` | |
| `MCHub` | small instances of it | `Hub` |
| `HubProofs` | theorems about it | `Hub` |
| `GatewaySession` | the gateway's sessions from accept to close, and `stop()` | |
| `MCGatewaySession` | a small instance of it | `GatewaySession` |
| `GatewaySessionProofs` | theorems about it | `GatewaySession` |
| `GatewayRelay` | what one session relays between a client and PostgreSQL | |
| `MCGatewayRelay` | small instances of it | `GatewayRelay` |
| `GatewayRelayProofs` | theorems about it | `GatewayRelay` |
| `Ordering` | the rank of tables and the order of inverses, as functions | |
| `PostgresEngine` | the PostgreSQL engine: concurrent transactions over row locks | `Ordering` |
| `MCPostgresEngine` | small instances of it, and the laws of the rank | `PostgresEngine` |
| `PostgresEngineProofs` | theorems about it | `PostgresEngine` |
| `MySqlEngine` | the MySQL engine: session variables, cascades no trigger sees | `Ordering` |
| `MCMySqlEngine` | small instances of it | `MySqlEngine` |
| `MySqlEngineProofs` | theorems about it | `MySqlEngine` |
| `Rulebook` | analysis, rules, verdicts and fingerprints, as functions | |
| `Guardrails` | the doors that apply the rulebook: interceptor, toolkit, SDK | `Rulebook` |
| `MCGuardrails` | a small instance of it, and the laws of the rulebook | `Guardrails` |
| `GuardrailsProofs` | theorems about it | `Guardrails` |
| `Store` | init, upgrade, track, untrack and uninstall on SQLite and MySQL | |
| `MCStore` | a small instance of it | `Store` |
| `StoreProofs` | theorems about it | `Store` |

`ChangeFeed` is what joins the two halves: `SqliteEngine` refines it with `Serial`
(checked in `sqlite_solo`, proved in `SqliteEngineProofs`), `PostgresEngine` without
(checked in `postgres_pair`, proved in `PostgresEngineProofs`), and the database in `Hub` moves by its `Publish` and
`Forget` and nothing else. `MySqlEngine` does not refine it, because outside
connections go on adding to an operation that was undone (divergences, below).
Capture and undo (`SqliteEngine`, `MySqlEngine`) and the lifecycle (`Store`) are apart:
the former start from tables whose triggers are in place, the latter leaves out
what the triggers record. The gateway is modelled twice, once
for the life of its sessions and once for the order of what a session relays:
sessions meet only in the slots they take, so the second module needs one.

### SqliteEngine

State. `db` is the committed database file: the tracked rows, the operation
rows, the change log, the staging row, the AUTOINCREMENT counter of the log and
the number of operation ids minted. `work` is the view of the one open write
transaction (`BEGIN IMMEDIATE`), `writer` the session that holds it, and
`sess[s]` what the ctrlz process `s` is doing and remembers.

| Action | Code |
|---|---|
| `Open`, `Close` | `__init__` with `_close_external_operation`; `close`, or the death of the process at any point |
| `ExternalWrite` | a client outside ctrlz writes one row in a transaction of its own |
| `ExecBegin`, `ExecWrite`, `ExecCommit`, `ExecRollback` | `execute`: staging, statements, the decision, `COMMIT` or `ROLLBACK` |
| `ReadOperation`, `ReadChanges`, `Inspect`, `Report` | `assess`: the header, the log, one live row at a time, each a `SELECT` with a snapshot of its own |
| `UndoBegin`, `ApplyNext`, `UndoCommit`, `UndoAbort` | `undo`: lock and staging, one inverse at a time in the order of `order_verdicts`, the mark and `COMMIT`, or `ROLLBACK` |
| `Purge` | `purge`, of everything or of a prefix by age |

The capture trigger is one operator per statement of its body: `Claimed` (claim
an id if nobody staged one), `Credited` (`INSERT OR IGNORE` of the operation
row), `Counted` (count and cap), `Stored` and `Images` (the image unless
capped). `Recorded` puts them together for one user statement, whose triggers
fire once per row, cascaded rows included.

Abstractions, all of data or of the environment:

* A row is a slot (a table and an identity) holding one value. Images are
  compared as a whole, as `_same` does when no column was added. Updates of
  identity columns and schema drift are left out.
* Two tables, parent and child, with `ON DELETE CASCADE` or a foreign key that
  refuses. A child references one fixed parent row. `SET NULL` and deeper
  schemas are left out.
* Statements write one row each and are autocommitted outside ctrlz; a
  statement that fails changes nothing, so only the ones that succeed are steps.
  Scripts with transaction control inside are left out.
* Operation ids are uuids, so never repeated: a counter stands for them. An id
  claimed in a transaction that is rolled back is forgotten with it.
  `started_at` follows the order of the ids, so a purge by age is a prefix.
* `undo` runs with `PRAGMA defer_foreign_keys = ON`. SQLite then defers every
  foreign key, also `RESTRICT`, to the commit, so the retry branch of
  `_apply_ordered` is never taken on this engine; a violation shows as a failing
  `COMMIT` (`UndoAbort`).
* `track`, `untrack`, `initialize` and `uninstall` are in `Store`. A change of the
  limit is left out.

### ChangeFeed

State: the changes that can be read, the operations undone, the sequence numbers
ever assigned. `Publish` is a commit of one open operation, with fresh numbers,
possibly marking others undone; `Forget` is retention. With `Serial` the numbers
of a commit lie above all numbers before it, as they do under SQLite's single
write lock; without it only their freshness is promised, as in PostgreSQL and
MySQL, where a transaction takes its numbers before it commits.

`SqliteEngine` maps to it by `Readable`, `Undone` and the counter of the log, of
the committed file only; a transaction that has not committed is invisible.

### Hub

State. `log`, `used` and `stamp` (when each operation was undone) are the
followed database; `clock` is the clock undos are stamped with; `identity` is
its setting `source_id`. `hub` holds the four tables of the hub under each
identity: whether the source is registered, its watermark and refresh marker,
its changes, operation headers with their undo time, and counts per operation.
`ship[p]` is the run of shipper `p`: where it is and what it has read. `trim` is
a purge of the hub between two of its statements. `cleared` is a history
variable: the operations that purges of the hub set out to delete, which excuses
their absence. `missed` is another: the operations whose header a run failed to read.

| Action | Code |
|---|---|
| `Commit`, `Purge`, `Tick` | the followed database, as `ChangeFeed` allows |
| `ReadIdentity`, `Mint` | `source_id`: read the setting, write it |
| `Register` | `Hub.register` |
| `ReadChanges`, `ReadHeader`, `Store` | the first pass of `_ship_once`: `changes_since`, `operation` one at a time, the transaction with changes, headers, counts and watermark |
| `MissHeader` | the query for a header fails and the run goes on without it (`hub.py:562`) |
| `ReadMarker`, `ReadUndone`, `Refresh` | the second pass: `refresh_marker`, `operations_undone_since`, the transaction with marks and marker |
| `Fail` | the run is interrupted, or any other query fails; an open hub transaction is rolled back |
| `TrimBegin`, `TrimChanges`, `TrimTables`, `TrimOperations` | `Hub.purge`, a commit per `DELETE` |

Abstractions:

* One followed database, since rows of different sources never meet in the hub;
  but several identities, since one database can appear under several.
* All changes of an operation are in one table, so one count stands for the rows
  of `ctrlz_hub_operation_tables`. Row images and the attributes of an operation
  are left out, except for the time of its undo.
* `register` is a `SELECT` and an `INSERT` or `UPDATE`. Two shippers that both
  find no row collide on the primary key; the second fails, which is `Fail`. The
  row's other columns are names.
* A run that stops after a batch, because it drained or because of
  `max_batches`, is a run that starts its next batch later.
* A database restored from a backup keeps its identity while its numbers go back;
  restoring is left out.

### GatewaySession

State. `conn[c]` is all there is of client `c`'s connection: where its handler
stands, what is on the wire, whether TLS is on, the connection to the database,
the pumps that still run and what the client waits for. `sessions` is
`Gateway._sessions`, the slots; `stage` is how far `stop()` has come, and
`awaited` the handlers it has cancelled. The gateway is one asyncio loop, so an
action is what a handler does from one `await` to the next.

| Action | Code (`gateway/server.py`) |
|---|---|
| `Handle` | `_handle` and `_admit`: the slot is taken and, over the limit, given back at once |
| `DeclineEncryption`, `AcceptTLS`, `ReadStartup`, `NegotiationFails` | `_negotiate`, `_accept_tls`, `_read_startup` |
| `ConnectUpstream`, `ConnectFails`, `CancelSent` | `_connect_upstream`; a CancelRequest is passed on and the session ends |
| `ServerReady`, `AuthenticationFails`, `InjectAttribution` | `_relay_authentication`, `_inject_attribution` |
| `HandshakeTimeout` | the two `wait_for` of `_session`; opening the connection in between has none |
| `Forward`, `Refuse`, `SkipUntilSync`, `ClientPumpEnds` | `_pump_client_to_server` |
| `ClientPumpFails` | a message that cannot be read ends the client's pump with an error, which `gather` keeps to itself while the other pump goes on |
| `RelayAnswer`, `ServerPumpEnds`, `SessionOver` | `_pump_server_to_client`; `gather` of both pumps |
| `StopListening`, `StopCancels`, `Cancelled`, `StopReturns` | `stop` |
| `Connect`, `SendStartup`, `Ask`, `Terminate`, `Vanish` | a client, which may do or omit any of it |
| `ServerAnswers`, `ServerCloses`, `ServerQuits` | the database |

Every way out of `_session` closes both sockets and gives the slot back without
an `await` in between; that is the operator `Ends`.

Abstractions:

* A client has one message on the wire and one exchange at a time, in which it may
  send several Parse. The rules are a free choice: any query or Parse may be refused, and
  what is not refused may fail in the database, which then skips to the Sync.
* A write to a peer that has gone raises or is lost in silence; both are
  possible (`After`). What is read while the session authenticates is not told
  apart.
* The loop's bookkeeping of a connection that TLS was started on is `Attached`.
  `WaitsForClients` is the behaviour of `asyncio.Server.wait_closed()`, which
  changed with Python 3.12.1: it now waits until the accepted connections are
  gone.
* On Python 3.10 and 3.11 `wait_for` may lose a cancellation that races its
  timeout; that is left out, as are the reload of certificates, statistics and
  replies to a connection that is turned away.

### GatewayRelay

State. The four queues between client, gateway and database; `phase`, whether
the session authenticates, sets its attribution or relays; `inError`, the
`in_error_state` of the pump; `server`, the database's end (its transaction,
whether it ignores messages until a Sync, replies it holds back, what has run
and under whose name); `client`, how much it has asked and what it has got.

| Action | Code |
|---|---|
| `RelayPassword`, `RelayChallenge`, `HoldReady`, `SwallowAnswer` | `_relay_authentication`, `_inject_attribution` |
| `Forward`, `RefuseQuery`, `RefuseParse`, `SkipUntilSync` | `_pump_client_to_server`, with `Interceptor.inspect` a free choice for statements the rules are about (`Judged`) |
| `RelayReply` | `_pump_server_to_client` |
| `ClientReads`, `AskQuery`, `AskBatch`, `Server` | a client and PostgreSQL, as the frontend/backend protocol has them |

Abstractions: messages are relayed whole, while the code relays the database's
bytes in the pieces they come in, and a refusal can land inside a message;
channel binding and the kinds of authentication are left out; sessions without
attribution (`--no-attribute`) release the first ReadyForQuery at once.

### Ordering

`TopologicalRank` is Kahn's algorithm, level by level: tables whose parents are all
ranked get the next rank, and what depends on a cycle shares the rank after the
last. `SortKey` and `Sooner` are the key of `order_verdicts`. `PostgresEngine` and
`MySqlEngine` use both; `SqliteEngine` has two tables and its own two-valued `Rank`.

### PostgresEngine

State. `db` is what is committed: rows, operations, log, the capture limit. `seq` is the
sequence of the log, `minted` counts the operations begun; neither goes back with
a rollback. `tx[c]` is the open transaction of connection `c`: the row locks it
holds, the rows it wrote, the settings `ctrlz.*`, its operation row and log
entries. `sess[s]` is what a session of ctrlz is doing. `unseen` is a history
variable: rows whose last write has no image, because the operation was capped or
its log purged.

| Action | Code (`engines/postgres.py`) |
|---|---|
| `UserWrite`, with `Write`, `Credited`, `Counted`, `Image` | a row write of a user, inside which `ctrlz.capture()` runs |
| `ExecBegin`, `Commit`, `Abandon` | `execute`; `COMMIT` and `ROLLBACK` of anybody |
| `ReadOperation`, `ReadChanges`, `LiveRows`, `Report` | `assess`, in autocommit: the header, the log, then the live rows one table at a time |
| `UndoBegin`, `ApplyNext`, `PutOff`, `NextRound`, `UndoFail`, `UndoCommit` | `undo` and `_apply_ordered`: each inverse under a savepoint, what a foreign key refuses put off to the next round, until a round makes no progress |
| `Purge`, `SetLimit` | `purge`, of a prefix by age; the setting `max_rows_per_operation` |

Abstractions, beside those of `SqliteEngine` about rows and ids:

* READ COMMITTED: a statement sees what is committed and what its own transaction
  wrote. Locks are those of PostgreSQL's rows: `FOR KEY SHARE` of a referenced
  parent, that of an update, that of an insert or delete. A statement that has to
  wait is a step that is not enabled yet; in an undo the wait may end in an error
  (a deadlock, `lock_timeout`), and the undo with it.
* Foreign keys are the default ones: `NO ACTION`, not deferrable, any depth.
* `TRUNCATE`, `_resync_sequences` and schema drift are left out.

### MySqlEngine

State as in `PostgresEngine`, and: `mark[c]`, the session variables `@ctrlz_*` of
connection `c`, which outlive its transactions; `purging`, a purge between its two
deletes; `lost`, a history variable, the rows an operation removed by cascade.
`onDelete` is the foreign key's action, chosen once.

| Action | Code (`engines/mysql.py`) |
|---|---|
| `UserWrite`, with `Claimed`, `Credited`, `Counted`, `Write` | a row write, the trigger body, and the children InnoDB removes below it |
| `ExecBegin`, `Commit`, `Abandon`, `Disconnect` | `execute` sets and clears the variables around its transaction; an outside client's end with its connection |
| `ReadOperation`, `ReadChanges`, `LiveImage`, `Report` | `assess`, one query per row, with `_cascade_blockers` |
| `UndoBegin`, `ReadImages`, `ApplyNext`, `PutOff`, `NextRound`, `UndoFail`, `UndoCommit` | `undo`: `_stored_image` opens the snapshot the guards come from; rounds as in PostgreSQL |
| `PurgeHeaders`, `PurgeChanges`, `SetLimit` | the two statements of `purge`; the setting |

Abstractions: foreign keys one level deep; `ON DELETE CASCADE` or the default
(`ON DELETE SET NULL` and `ON UPDATE` are left out); a write sees the newest
committed row, as locking statements do under REPEATABLE READ, and the plain
reads of an undo see the snapshot of the first.

### Rulebook and Guardrails

`Rulebook` has no state: `Analyze` and `MergedAnalysis` are `analysis/model.py`,
`Matches`, `Covers`, `Evaluate` and `MergedDecisions` are `policy/model.py` and
`policy/engine.py`, `IsSound` and `Parsed` are `policy/loader.py`, `Fingerprint` is
`gateway/fingerprint.py`. A statement is what a parser finds in it: its verb, the
tables it writes and reads, what its WHERE clause compares and how sure the parser
is. Verdicts are computed per statement and merged.

A script is read in two ways that need not agree. The analysis depends on the dialect the caller names: the
gateway and the SDK name PostgreSQL (`interceptor.py:52`, `sdk.py:49`), the toolkit none
(`api.py:278`), and what the one parses the other may only match by patterns,
with a lower confidence. The fingerprint
scans the text by itself (`scan`): it may miss that two literals are compared, because of a comment or a
leading point in between, and takes a backslash in a string for an escape, so that a WHERE clause behind it is
swallowed. `Discerned` are the scripts on which scan and analysis agree.

`Guardrails` is about the three places that ask. `gate` is the interceptor with its
cache and the tables it was told of, `run` a `Toolkit.run` between its verdict and
the end of its transaction, `tracked` the tables that have triggers, `said` (a history
variable) the answer of the last step.

| Action | Code |
|---|---|
| `SetTracked`, `Inspect`, `FailOpen` | `Interceptor.set_tracked`, `inspect` through the cache; forwarding when judging fails |
| `RunJudge`, `RunExecute`, `RunRollback`, `Track` | `Toolkit.run` (`api.py`), and tracking meanwhile |
| `Check` | `PolicyChecker.check` (`sdk.py`), of a checker made at any time, `warn_only` or not |

Abstractions: names are compared, glob patterns are not expanded; literals are
numbers, of which a statement has two; a script's cache key blanks them unless
the scan finds two literals compared. Readings and scan of a script are chosen freely, so that any pair of
texts has a counterpart in the model, and some scripts have none in the code. The process's environment and
the rulebook do not change while it runs, as in the code.

### Store

State. `store` is what there is of ctrlz in the database: tables, columns and the
index that migrations add, the version stamp, the list of tracked tables.
`triggers[t]` has a form for each of the three triggers of `t`: none, as version 1
wrote it, as the current version writes it. `tables` are the users' tables that
exist. `proc[p]` is how far process `p` is in its command. `engine` is the
database, SQLite or MySQL, on both of which every statement of these commands
commits by itself. `deaths` counts towards `MaxDeaths`.

| Action | Code (`engines/sqlite.py`, `engines/mysql.py`, `migrations.py`) |
|---|---|
| `InitBegin`, `Create`, `ReadVersion`, `Look`, `Add`, `Stamp`, `ReadTracked`, `NextTable`, `Finish` | `initialize`: each statement of the schema, the version, for each column and the index a look at the catalogue and then the `ALTER TABLE` or `CREATE INDEX`, the stamp, and if the store was there before, each tracked table anew |
| `TrackBegin`, `DropTrigger`, `Unlist`, `CreateTrigger`, `Enlist` | `track`, which is `untrack` first |
| `UntrackBegin`, `DropTrigger`, `Unlist` | `untrack` |
| `UninstallBegin`, `Remove` | `uninstall` |
| `Fail` | a statement raises (`Raises`): an `ALTER TABLE` somebody else was faster with, a trigger that exists, a table of ctrlz that does not; `uninstall` goes on with the next table |
| `Die` | a process dies between two statements |
| `DropTable` | a user drops a table, its triggers with it |

Abstractions: two attribution columns stand for the seven, which are alike. A
command `track` either finds identity columns or does nothing; only the former is a step.
An `init` that finds a listed table without them untracks it (`known` in `NextTable`).
`track` of a table that is dropped before its first statement is `NextTable` with
the table gone, later it is a `CREATE TRIGGER` that raises. On PostgreSQL a
migration is one statement with `IF NOT EXISTS`, a table has one trigger, and the
function behind it is replaced in one statement after the migrations
(`engines/postgres.py:270-282`), so that neither a half-migrated store nor a table
with some of its triggers can arise; that lifecycle is left out.

## 3. Properties and runs

Each state machine but `Guardrails`, whose answers carry rulebooks of any shape, has one type
invariant, `TypeOK`, and all of them are proved.

SQLite. Invariants: `LogTruth` (the newest image of a row is the row, unless a
capped operation was at work since); `HistoryChains` (the changes of a row link
up without a gap); `CaptureIsAllOrCapped`; `CtrlzUndosAreWhole` and the
stronger `PartialIsNeverUndone` (no capped operation is undone).
Action properties: `UndoKnowsItAll` (an undo of an operation of ctrlz's that commits has read every
change of it, and none went unrecorded); `WritesAreAttributed`, `UndoneOpsAreClosed`, `UndoneIsFinal`,
`UndoRestores` and the stronger `EveryUndoRestores`, `UndoSparesOthers`.
Refinement: `ServesFeed`. Liveness: `UndoEnds`.

PostgreSQL. Invariants: `LogTruth`, here of transactions that commit in another order
than they number their changes; `UndoneWasWhole` (a transaction that is not capped
has an image of every row it wrote, whatever becomes of the limit meanwhile, and
no capped operation is undone); `UndoFindsAnOrder` (undo gives up on foreign keys
only over rows that are not its operation's, if the operation wrote each row once)
and the stronger `UndoAlwaysFindsAnOrder`. Action properties:
`OperationsAreTransactions` (a commit adds one new operation, ctrlz's exactly if
ctrlz committed it), `UndoSparesOthers`, `UndoRestores` (an undo that commits has put back
every row on which its operation has the last word, if it wrote the row once or replaced
it). Refinement: `ServesFeed`.

MySQL. Invariant: `CountedIsStored` (a header that is not capped counts no row
without an image). Action properties: `CtrlzOperationsAreClosed`,
`CascadesAreNeverUndone`, `UndoSparesOthers` and the stronger `GuardsOutlivePurges`,
`UndoneOpsAreClosed`, `UndosLoseNothing`.

Ordering, as laws on all graphs of three tables (`ASSUME` in `MCPostgresEngine`): a
table never ranks above one that references it, and below it unless that one
depends on a cycle; ranks leave no gap.

Lifecycle. Invariants: `VersionIsTrue` (a store stamped with the current version
has all that the migrations add); `InitRebuilds` (an init nobody interfered with
ends with the triggers of all listed tables made anew); `AlwaysOpens`. Action
properties: `InitBreaksNoWrites` and the stronger `WritesGoThrough`,
`TablesStayTracked`.

Guardrails. Invariants: `CacheIsFresh` (what is remembered is the verdict, in the
tables the interceptor knows of, on all scripts that are `Discerned`) and the stronger
`CacheServesAll`; `ForcedIsOnRecord`. As laws on all
scripts of up to two of twelve statements, under three rulebooks (`ASSUME` in
`MCGuardrails`): the shipped rulebook loads and one with a typo does not; a script is blocked
exactly if one of its statements is, and its risk is theirs at worst; a verdict
points at a rule that matched and weighs as much; scripts with one fingerprint are
judged alike if one of them is discerned, and need not be otherwise; a script only PostgreSQL's
grammar parses is judged differently at the toolkit and at the gateway; the reading of a script alarms whenever that
of a statement does. Nothing is checked of `Check` beyond these laws: the SDK answers with the verdict.

Hub. Invariants: `NothingSkipped` (what the watermark has passed
is in the hub); `HubAgrees` (under a number the hub holds what the database
holds); `ChangesHaveHeaders` (but for operations a purge of the hub took or whose header
was missed); `UndosAreSeen` (what the refresh marker has passed
is shown as undone); `CountsAreWhole`. Liveness: `Drains` (every change that stays
arrives), `UndosArrive` (every undo of an operation the hub knows is shown).

Sessions. Invariants: `UpstreamWithinLimit`; `SlotsAreHandlers` (a slot is
held exactly as long as its handler runs, and only then is a connection to the
database open); `StoppedMeansStopped`; `PlaintextStaysOut`. Liveness:
`HandshakesEnd`, `GoodbyeEndsSession`.

Relay. Invariants: `NoneTooMany` (the client is told of no more ends than it asked for: of
gateway and database only one answers) and the stronger `AnswersInOrder`; `AnswersAreTrue` (what is reported as done has run in the database
and what is reported as refused has not); `AttributedFirst`; `QuietMeansDone` (after the
last answer nothing is left on the way, held, or open). Liveness: `ExchangesEnd`.

| Run | Instance | Shows |
|---|---|---|
| `sqlite_solo` | parent and child with cascade, one ctrlz process, outside writes, limit 2 | capture, retention and undo of one process among outside writers; the feed is served |
| `sqlite_pair` | parent and child with a refusing foreign key, two ctrlz processes, limit 1, weak fairness | undos, executes and purges of two processes race: nobody's later edit is overwritten, an undo that took the lock gives it back |
| `postgres_pair` | two rows of a table that references itself, a session of ctrlz and an outside client, limits 1 and 3 | the promises of capture and undo over concurrent transactions; the feed is served out of order |
| `mysql_pair` | the same rows, a foreign key that cascades or refuses, limits 1 and 3 | what is left of them when markers outlive transactions, cascades are invisible and guards come from the log |
| `store` | two tables, two processes, either database, a store of any version, one death, uninstall undisturbed | upgrades that race and die leave a true stamp, whole triggers after the next init, and users who can write |
| `guardrails` | one table to track, five scripts, two actors, two rulebooks, a cache of one | what the interceptor remembers is the rulebook's verdict, whatever is tracked meanwhile and whoever asks |
| `hub_live` | one shipper, one change per batch, three operations, an interruption or a missed header, a purge of the hub, weak fairness | no change is skipped or mistaken, and the hub catches up with changes and undos |
| `gateway_session` | two clients, one slot, TLS required, weak fairness | slots and connections are neither lost nor leaked, whoever leaves when; handshakes and goodbyes end |
| `gateway_relay` | three exchanges of queries and single-statement batches, pipelined, weak fairness | through authentication, attribution and refusals every exchange ends, once, with true answers, and leaves nothing behind |

Three runs check a sentence of the documentation that the code does not keep,
and TLC shows how; the `findings` of `PROJECT.json` quote the sentences.

| Run | Property | What happens |
|---|---|---|
| `sqlite_ghost` | `EveryUndoRestores` | an operation inserts and deletes a row; preview says undoable, undo brings the row back to life |
| `hub_late` | `NothingSkipped` | writers of the database commit out of the order of their numbers (`Serial` = FALSE): a change below the watermark is never shipped |
| `mysql_cascade` | `UndosLoseNothing` | the undo of an INSERT is a DELETE, and InnoDB removes with the row the children somebody added since, of which the log has nothing (`engines/mysql.py:892`) |

Known divergences without a run of their own can be reproduced by changing a
configuration and checking the property named (without `SYMMETRY`):

| Change | Violates | What happens |
|---|---|---|
| `sqlite_solo` | `PartialIsNeverUndone` | an outside operation outgrows the limit between assessment (`engines/sqlite.py:583`) and apply |
| `sqlite_pair` | `UndoneIsFinal` | two processes assess, then both undo (`engines/sqlite.py:617`, no guard at 667-671): the operation is undone twice, which `spec/spec.md:295` excludes; the other engines have the same window |
| `sqlite_pair` with `OnDelete` = "cascade" | `UndoSparesOthers` | undoing the INSERT of a parent deletes somebody else's later child (`engines/sqlite.py:742`), against `README.md:230-231` |
| `postgres_pair` with `MaxSeq` = 3, `Vals` = {a}, `Limits` = {3} | `UndoAlwaysFindsAnOrder` | a transaction inserts a parent and a child and deletes the child again: no blocker, no conflict, nobody else at work, and undo removes the parent first, then wants the child back and gives up (`engines/postgres.py:832`, 858), against `spec/spec.md:402-403` and the docstring of `_apply_ordered` |
| `mysql_pair` | `GuardsOutlivePurges` | a purge between the assessment and the first inverse takes the image the guard comes from (`engines/mysql.py:1055`): the inverse overwrites a later edit |
| `mysql_pair` with `MaxSeq` = 3, `Vals` = {a}, `Limits` = {3} | `UndoneOpsAreClosed` | an outside connection goes on under its id after the operation was undone (`engines/mysql.py:482`) |
| `store` | `WritesGoThrough` | `track` on a store that was never upgraded installs triggers that name missing columns (`engines/sqlite.py:322`, nothing looks at the version): every write to the table fails until somebody runs `init`, against `migrations.py:16-17` |
| `store` | `AlwaysOpens` | an `init` of a SQLite database dies after creating `ctrlz_change_log` and before `ctrlz_current_op`: `__init__` takes the store for initialized and raises (`engines/sqlite.py:128-129`), also in `init` |
| `store` | `TablesStayTracked` | an `init` dies while it makes the triggers of a table anew: the table is off the list, its triggers are gone or some of them, and no later `init` knows of it (`engines/sqlite.py:333`, `engines/mysql.py:449`) |
| `store` with `Undisturbed` = FALSE, `Procs` = {p1} | `VersionIsTrue` | an `uninstall` dies between its `DROP TABLE`s: the stamp stays, the next `init` creates tables of version 1 and finds nothing pending (`migrations.py:97-99`) |
| `hub_live` with `ChangesHaveHeaders` not excusing `missed` | `ChangesHaveHeaders` | the query for a header fails, for whatever reason; `hub.py:562` takes that for a purge at the source and stores the changes, and the watermark passes them for good |
| `hub_live` with `Distinct` = FALSE | `UndosAreSeen` | two undos in the same second (`engines/sqlite.py:557`) and a run in between: the second never shows |
| `hub_live` with `Shippers` = {s1, s2} | `UndosAreSeen` | a header read before an undo is stored after another run has shipped the undo (`hub.py:571`) |
| `hub_late` with `Serial` = TRUE, `MaxOps` = 1 | `CountsAreWhole` | an operation spans two batches: its counts are those of the second (`hub.py:342`), against `hub.py:24-26` |
| `gateway_session` | `DepartureEndsSession` | a client that vanishes, or a database that closes, leaves the session, its slot and the other connection in place, for `gather` waits for both pumps (`gateway/server.py:374`); lines 775-777 say the session is over |
| `gateway_session` | `StopEnds` | `stop()` waits in `wait_closed()` before it cancels anything (301-304): one client that stays keeps it from stopping, against its docstring (293-297) |
| `gateway_session` with `WaitsForClients` = FALSE | `StoppedMeansStopped` | before Python 3.12.1 a connection accepted but not yet handled when `stop()` runs survives it |
| `gateway_relay` | `StatusIsTrue` | the ReadyForQuery the gateway makes up always says "idle" (`gateway/protocol.py:258-260`), also inside a transaction |
| `gateway_relay` | `AnswersInOrder` | a refusal overtakes the answers to statements sent before it (`gateway/server.py:733`) |
| `gateway_relay` with `MaxBatch` = 2 | `QuietMeansDone` | a batch whose second statement is refused leaves the first one's work and answer open in the database |
| the same with `Statements` = {"work"}, `MaxExchanges` = 2 | `ExchangesEnd` | the batch's first statement fails in the database, its second is refused: the Sync is answered by the gateway (`gateway/server.py:711`), and the database ignores everything from then on |
| `guardrails` | `CacheServesAll` | `WHERE 1 /**/ = 1` is answered with the verdict on `WHERE 1 /**/ = 2`, and a string that ends in a backslash, before a WHERE, hides it from the scan: one key, two verdicts, against `gateway/fingerprint.py:25-36` and `tests/test_fingerprint.py:3` |

Smaller ones, which reading the code for the model turned up: tables are matched by
bare name, so a tracked `audit.users` hides an untracked `public.users`
(`policy/model.py:242-259`); the gateway never calls `set_tracked` after it starts, so
that its interceptor judges by the tables it was given; the toolkit analyses without a dialect (`api.py:278`) where gateway and SDK say
PostgreSQL, so that the doors can differ on one script, against D2.6 (`spec/plan.md:161`); a message that cannot be
read ends the pump of the client and not the session (`gateway/protocol.py:304-307`, `server.py:374`); with `risk_threshold` 0 and
`block_on_risk` every statement is blocked, also those no rule matches
(`policy/engine.py:66-72`).

`UndoRestores` is the part of the contract the code does keep: it excludes
operations that wrote a row several times, other than by replacing it, and so does
`UndoFindsAnOrder`. Likewise
`UndoKnowsItAll` and `CtrlzUndosAreWhole` are what is left of `PartialIsNeverUndone` when outside operations
may still be growing, and SQLite's `UndoSparesOthers` holds with a refusing foreign
key. MySQL's excepts changes whose image the log no longer had when the undo began to
write, and rows that cascades took.

Bounds. `MaxOps` = 3 operation ids give an operation, a second one or an undo of
it, and an undo of the undo or a third writer; `MaxSeq` = 3 log entries, after
which users stop and only undos write, leave room for two writers and a cascade
of two. Where two parties or processes race, `MaxSeq` = 2 leaves a write of each, or two
writes of one and what undoes them; that is also every pair of writes of two rows
once each, which is what `UndoFindsAnOrder` is about. (It was checked once with
`MaxSeq` = 3 as well, in 13 million states; the divergences show what happens when a row is written twice.) `MaxRows` and `Limits` (the real limit setting)
of 1 and 2 are crossed both by single
writes and in the middle of a cascade, and 3 is never reached within two
entries, so that a change of the limit lifts it or brings it down. Two values tell an edit from
its image. Values are interchangeable, hence the symmetry; runs with liveness use
none.

For the lifecycle, two tables make an init that is half way through its list, two
processes are at the same table, or one upgrades where another tracks, and one death
comes at any statement of either. A store begins in any version, with any tables
tracked. That `uninstall` runs alone and to its end (`Undisturbed`) is an
assumption about its users; the divergences show what it excludes.

For the guardrails, a cache of one verdict is full at once, and has room again
after `set_tracked`; two pairs of the five scripts have one fingerprint, of which one pair is judged alike and the
other not, and the fifth script is read apart by the two dialects.

For the hub, a batch of one change (two in `hub_late`) makes every operation with
two changes span batches, and every run with two undos need two rounds.
Three operations suffice for two undos and
a writer that is not undone. `MaxFails` = 1 puts one interruption at any point, `MaxTrims` = 1 one
purge of the hub between any two steps. `MaxClock` bounds the instants at which
undos are stamped.

For the gateway, one slot and two clients put every pair of steps of two
handlers on the one resource they share; a client connects any number of times.
The relay needs one session: three exchanges make a transaction with a refusal
in the middle, and pipelined they put a refusal beside answers still on their way before and behind
it. Batches of a single statement are the largest on which these properties
hold; what happens beyond is in the tables above.

Deadlock is checked in the runs of the engines, the hub and the guardrails. A gateway that has
been stopped, a client with no more to ask, and a store that cannot be opened any more
(`AlwaysOpens`, above), really do stop.

Fairness. In SQLite only the steps of an undo that holds the lock are fair
(`FairSpec`): nothing in them waits for a user, another process or a lock. A
process that dies releases the lock by `Close`. `execute` waits for a user's
decision and is not fair. In the hub only the shippers are fair (`FairSpec`): `ship`
loops until nothing moves (`hub.py:502-513`) and is run from a scheduler, while
nobody has to write, undo or purge. `Fail` is not fair and bounded: a shipper
that is interrupted for ever ships nothing. In the gateway the loop runs what can
run, an armed timeout goes off, opening a connection succeeds or fails, and a
database that is up answers what it is sent and hangs up on a Terminate. Clients
owe nothing, and nothing makes the database close a connection by itself.

## 4. Proofs

The theorems below are proved for every value of the constants that satisfies the
hypothesis stated with it, in eight modules.

`SqliteEngineProofs` holds for any finite set of rows with any values, any
two-level parent relation, either foreign-key action, any sessions, with or without
outside writers, and any limit and bounds (`ConstantsOK` is the only
assumption). `PostgresEngineProofs` and `MySqlEngineProofs` hold for any rows,
foreign keys, connections, limits and bounds. `HubProofs` holds for any shippers, batch
size and bounds (`HubConstants`), and for both kinds of engine unless stated.
`GatewaySessionProofs` holds for any finite set of clients, any limit and any TLS
setting; `GatewayRelayProofs` for any statements, batches and pipelining, unless stated;
`GuardrailsProofs` for any rulebooks, scripts, tables, actors and size of the cache;
`StoreProofs` for any tables, processes and number of deaths.

| Module | Theorem | States |
|---|---|---|
| `SqliteEngineProofs` | `TypeCorrect` | `[]TypeOK` |
| | `LogIsTrue` | `[]LogTruth` |
| | `Attribution` | `WritesAreAttributed` |
| | `UndoneClosed` | `UndoneOpsAreClosed` |
| | `WholeUndos` | `[]CtrlzUndosAreWhole` |
| | `HistoryIsWhole` | `[]HistoryChains` |
| | `CountsAreExact` | `[]CaptureIsAllOrCapped` |
| | `UndosKnow` | `UndoKnowsItAll` |
| | `PutsBack` | `UndoRestores` |
| | `OthersAreSpared` | `UndoSparesOthers`, where foreign keys refuse |
| | `ImplementsFeed` | `ServesFeed`: the engine implements `ChangeFeed` |
| `PostgresEngineProofs` | `TypeCorrect` | `[]TypeOK` |
| | `LogIsTrue` | `[]LogTruth` |
| | `WholeUndos` | `[]UndoneWasWhole` |
| | `Attribution` | `OperationsAreTransactions` |
| | `ImplementsFeed` | `ServesFeed`: the engine implements `ChangeFeed`, out of order |
| | `OthersAreSpared` | `UndoSparesOthers` |
| | `AnOrderIsFound` | `[]UndoFindsAnOrder` |
| | `PutsBack` | `UndoRestores` |
| `MySqlEngineProofs` | `TypeCorrect` | `[]TypeOK` |
| | `CountsAreHonest` | `[]CountedIsStored` |
| | `ClosedOperations` | `CtrlzOperationsAreClosed` |
| | `CascadesStay` | `CascadesAreNeverUndone` |
| | `OthersAreSpared` | `UndoSparesOthers` |
| `StoreProofs` | `TypeCorrect` | `[]TypeOK` |
| | `VersionTrue` | `[]VersionIsTrue`, where uninstall is undisturbed |
| | `Rebuilds` | `[]InitRebuilds`, likewise |
| | `BreaksNothing` | `InitBreaksNoWrites`, likewise |
| `GuardrailsProofs` | `Fresh` | `[]CacheIsFresh`, of the scripts that are `Discerned` |
| | `Forced` | `[]ForcedIsOnRecord` |
| `HubProofs` | `Typed` | `[]TypeOK` |
| | `Agrees` | `[]HubAgrees` |
| | `Heads` | `[]ChangesHaveHeaders`, which excuses headers that were missed |
| | `Complete` | `[]NothingSkipped`, for databases whose writers commit one at a time |
| `GatewaySessionProofs` | `Typed` | `[]TypeOK` |
| | `WithinLimit` | `[]UpstreamWithinLimit` |
| | `NoSlotIsLost` | `[]SlotsAreHandlers` |
| | `StopLeavesNobody` | `[]StoppedMeansStopped`, where `wait_closed()` waits |
| | `NoPlaintext` | `[]PlaintextStaysOut` |
| `GatewayRelayProofs` | `Typed` | `[]TypeOK` |
| | `Attribution` | `[]AttributedFirst` |
| | `EndedOnce` | `[]NoneTooMany` |
| | `Truthful` | `[]AnswersAreTrue`, for a client that asks one statement at a time |
| | `NothingLeft` | `[]QuietMeansDone`, likewise |

The theorems about SQLite rest on one inductive invariant, `IInv`. `LogTruth` alone is not inductive:
whether a new image is the newest depends on sequence numbers being unused
(`LogOrdered`), whether a capped operation excuses an older image depends on log
order being operation order (also `LogOrdered`), and that in turn on writes only
going to the newest operation (`OpsOrdered`, `CurrentOpen`). `DBInv` is the
conjunction of these for one database value and is stated of `db` and `work`
alike. `InTransaction` relates the two: a transaction writes under an id above
every id minted before it and touches no other operation row. `HeaderOK` says
that what a session remembers of the `capped` flag is still true of an operation
of ctrlz's own, which is what makes `WholeUndos` true and what fails for outside
operations (known divergences, above).

The argument has three layers: what one trigger firing does to a database
(`RecordedInv`, from `CountedType` and `CreditedType`); what a row write, a
staging, a mark, a clearing and a purge do (`CapturedWrites` to `PurgedInv`);
and what each action does to the whole state (`ExternalWriteInv` to
`UndoCommitInv`), one lemma per action.

`ImplementsFeed` maps every step: a commit of `execute`, of an outside write or of
an undo is a `Publish` under the operation it staged or claimed, whose log has only grown at
the end (`Appends`); a purge is a `Forget`; everything else, a rollback
included, leaves the file alone and stutters. That an undone operation is closed
(`CurrentOpen`) and that ids of a transaction are new (`InTransaction`) are what make the steps
fit.

Two more invariants lie on top of `IInv`. `History` holds of the file and of the transaction in
progress: consecutive images of a row link up unless a capped operation is between them, and the
images of an operation are numbered without holes by its header's count
(`Onto`, `Numbering`), which gives `HistoryIsWhole` and `CountsAreExact`. `Careful` is about the rows an undo has
already written: what the file still has in them is what the operation left there, for every
inverse compared them with its image and nobody else can write while the undo holds the lock.
Under a refusing foreign key those are all the rows it changes (`OthersAreSpared`); under a cascade they are
not, and the theorem is false (divergences). `UndosKnow` adds to `WholeUndos` what `Knows` says of the time
between an assessment and its undo: nobody adds to a committed operation of ctrlz's, so what was read of it is
all there is, unless it was purged.

`PutsBack` is about all the inverses of an undo together, and rests on three more invariants.
`Lineage` says what the changes of one operation have to do with each other: if it inserted a row, no child
of that row was there, so that a child it updated it also wrote another time
(`Parented`). It holds of undos as well, since they are operations that can be undone; there it
needs `Families`: an undo breaks a foreign key only by putting a child back before its
parent, and by then all parents are back, since the phase of the deletes goes by rank.
`Recalls` is about the time between an assessment and its undo: what was read is all in the log or all
purged, and a row of interest (`Fit`) is judged clean, because whoever writes it takes the last word from the
operation. `Reverts` says how far each row has come: untouched while its inverse is to come, or
already taken by the cascade of a parent's, which hurts nobody while inserts are
being undone; and put back afterwards, when there are no cascades left. That inserts go first
(`InsertsFirst`) is what the last step of each case rests on, and `Parented` is why
no cascade takes a row that was only updated.

PostgreSQL's `IInv` is a statement about each open transaction over what is committed
(`TxOK`): what it dropped is marked (`Whole`), its log tells what it wrote
(`Imaged`), and both its id and its numbers are newer than anything committed about its rows
(`Fresh`). That last part is where the order of commits enters: a transaction may commit behind
one with higher numbers, but never on the same row, because the first one holds
its lock to the end (`Locks`). `WholeUndos` also needs that an assessment, once
made, stays true of its operation (`Remembers`): committed operations are added to by
nobody, as `OpsDistinct` and `Fresh` say. For its `ImplementsFeed` every step is first shown to
be of one of four kinds (`StepKinds`): a write, which stutters, because the number it draws is
held by its transaction and not spent; a commit, a `Publish` under that transaction's
operation; a purge, a `Forget`; and everything else, a `Publish` of nothing, which spends
what a rollback gave up. `Numbered` adds to `IInv` that no two transactions hold the same number
and that only a row that is there is marked undone: an undo whose target was purged meanwhile
marks nothing.

PostgreSQL has no lock on the file that would spare others' rows, and its `Careful` shows what does. Each inverse
sees what has been committed by then, compares it and locks the row in one statement; from then on nobody commits to
that row (`CommitsMissLocked`), so that what is committed there is still what the operation
left when the undo commits. Nothing is said of the rows not yet reached, which
others may change or remove at any time.

`AnOrderIsFound` holds of every schema, chains and self-references included, and is about the
foreign keys in three steps. `Lawful`: what each transaction sees obeys them, at every moment and
beside all others. That needs the locks (`Excluded`): whoever inserted a child holds a lock on
its parent and whoever deleted a row the strongest one (`Keyed`), so that no two transactions
end up with a child and the hole where its parent was. `Traced` reads
the log of an operation by it: among the rows it wrote once, a parent comes before its child and goes
after it (`Lineage`); an image's before is then what was committed when the row was written,
because of the lock. `Lined` says of an undo what it has written, and that
in a round without progress every row put off is still `Hindered`, as nothing moved since. When the undo
gives up, the last of the deletions it put off waits for a parent; were that parent the
operation's own, it would have gone later still, and be put back or put off itself, against being
the last. If only inserts were put off, the last of them waits for such a child. That there is
a last one is the well-foundedness of the numbers (`Latest`), so no induction along the chain
is needed.

`PutsBack` uses the same invariants and one more. A last word is never taken twice
(`StepKeepsWord`): whoever commits to a row numbers it above all that is
committed there, and when a purge takes that image the row counts as out of sight. What has the last word when
the undo commits therefore had it at each of its reads, and the row held what the
operation left (`WordHolds`); its changes are found clean (`FoundClean`), in as many queries as there
are tables and whatever commits between them. `Restores` then follows the row through
the undo: as it was found, with all its inverses to come; between the two inverses of a
replacement, gone and waiting to be put back, which is the only order the unique key
allows; or put back, with nothing to come (`Stages`). Rows put off stay to be done (`RoundRestores`), so
a COMMIT, which wants nothing left, finds every row in the last stage.

MySQL's invariant has four parts. `Marks`: no two connections have the same operation in their
marker, though markers outlive transactions, and what a session of ctrlz has in its own
is not committed yet; with that, `ClosedOperations` is a matter of who can write under which id.
`Recording` and `Committed` count: the header of an open transaction promises no more
images than the log of its operation has together with its own, so that its commit keeps `CountedIsStored`, and a purge, which takes
header and log in two steps, the log last, never leaves a header with less than it
counts. `Told` says that rows lost to a cascade show in the log as a DELETE or UPDATE that could
cascade, or the header is capped; since the definition of foreign keys stays, the
blocker computed from the log then refuses the undo (`CascadesStay`). For that the
assessment must still be true when the undo begins, which holds of ctrlz's own operations
(`Remembers`) and not of others'. `OthersAreSpared` is argued as in PostgreSQL, except that the guard
is read from the log within the undo: a row whose image was purged by then is one
exception the property states, and a row that goes with its parent by a cascade is the other, since no
guard is asked about it (`mysql_cascade`).

The lifecycle's invariant rests on the store only growing, except under an
uninstall, which is alone (`CompanyOK`). `InitOK` says how far an init has brought the
store: at step n of the migrations all that came before is there, whoever added it,
and before the stamp everything is. `Sound` says it of the stamp, when nobody uninstalls;
`RemovalOK` says that an uninstall takes the log away first, so that nothing it
leaves behind passes for a store with tables on its list. `VersionTrue` is then immediate, and so is `BreaksNothing`: an init
installs triggers only after the columns, and other commands' triggers were
broken before its step or are not its doing. `RebuildOK` follows an init that is alone
through its list.

The guardrails' invariant is `CacheIsFresh` with what a run carries from its
verdict to its record. Its weight is in `FingerprintIsEnough`: a script with the fingerprint of one
whose literals the scan could tell is itself such a script and has the same analyses, because literals are then
blanked only where no two of them are compared, and only their comparison is looked at. That the verdict depends
on actor and tables beside the analyses is why the cache is keyed by one and
emptied when the other changes.

The hub's invariant is about copies of changes wherever they are: in the log, in
the hub, or in a batch on its way (`Copies`). `Numbered` says that all of them are told
apart by their numbers, even of changes the database has purged since; `Agrees`
follows, because numbers never come back. `Complete` needs more: a batch on its way
has no gap inside, the hub has no gap below the number it started from
(`RunOK`), and that number has been assigned (`Reached`), so that what commits later
lies above it. That is the step that `Serial` pays for. The watermark may go back
when runs overlap; nothing in the argument needs it to grow.
`Heads` follows the headers of a run through its passes (`CarriesHeaders`): each change a run carries has its
header in the hub, in the same batch, purged at the source before it was read, or missed (`MissHeaderHeaded`).

The limit of the gateway is not inductive by itself: that there are few connections
to the database follows from there being few slots (`SlotsInv`), because a
connection belongs to a running handler and a running handler to a slot
(`Good`, `SlotsInv`). A handler steps in two ways only, by going on
(`GoesKeeps`) or by ending (`EndsKeeps`), and every action is one of them.
`StopInv` adds that from the moment `stop()` cancels, nobody is waiting to be handled, so
that the handlers it awaits are all there are.

`Attribution` of the relay follows the one settings message: until it is
answered, no statement is on its way to the database, since the client has had no
ReadyForQuery and asks nothing before it.

`EndedOnce` counts. An end is asked for by a query, a Sync, the settings or a password, and granted by a ReadyForQuery; the
ends in the four queues, in what the database holds back and in what the client has
got never outnumber what it asked for by more than the one of the startup (`Bounded`), for whoever
takes a message that asks for an end off the wire puts at most one ReadyForQuery on another. Nothing is
assumed of batches or pipelining.

The other two theorems about answers need a client that does not pipeline and asks one
statement at a time (`OneByOne`); without it they are false, as the divergences show. The
exchange is then at one of seven stages: resting, welcomed with the answer of the startup
on its way, asking, executed, failed in the database, barred by the
gateway, or answered. Each (`Orderly`) says which messages are in which of the four queues,
whether the database ignores what comes and the gateway holds an answer back, and what has
run. The difficult stages are the two in which one side no longer listens: a database that failed ignores
the rest up to the Sync, and a gateway that refused swallows it and makes up the answer; in
either the error may reach the client while the Sync is still on its way.

Model-checked only: the laws of the rank and of the rulebook, which are about recursive
functions; and liveness (`UndoEnds`, `Drains`, `UndosArrive`, `HandshakesEnd`, `GoodbyeEndsSession`,
`ExchangesEnd`), which the prover does not do.

## 5. Not modelled

* Reading SQL: what `pglast`, `sqlglot` and the fallback find in a text, how the
  fingerprint scans one, glob patterns. They are string functions without
  state; the model starts from what they find, which may differ.
* Values: row images as JSON, the encoding of blobs, dates and numbers, and columns
  added to or dropped from a tracked table (`schema_drift_blockers`).
* Transaction control inside a script given to `execute`, and Ctrl-C at its prompt.
* PostgreSQL's `initialize`, `track` and `untrack` (above), `TRUNCATE`, and
  `_resync_sequences`, which moves users' sequences and nothing ctrlz promises about.
* MySQL's `ON DELETE SET NULL` and `ON UPDATE` actions.
* Changes of the capture limit on SQLite, where it can only change between
  transactions.
* Finding and trusting a policy file (`find_policy_file`, its ownership): file system.
* The gateway's configuration, certificate loading and reload, which swaps a finished context
  in one assignment, and its statistics.
* The command line, rendering, preflight, attribution from the environment: no
  state of their own.

## 6. Plan

1. `SqliteEngine`, its runs and its first theorems (done).
2. `ChangeFeed`, and that `SqliteEngine` implements it (done).
3. `Hub`: shippers over a feed, in order (SQLite) or with late commits
   (PostgreSQL, MySQL), overlapping, interrupted, with purges on both sides (done).
4. `PostgresEngine` and `MySqlEngine`: concurrent transactions, retry rounds,
   session variables, cascades that fire no trigger, a guard read from the log (done).
5. `Ordering`: `topological_rank` as a recursive function, with its laws on all
   small graphs, cycles included (done).
6. `GatewaySession`, `GatewayRelay`: admission, timeouts, pumps and shutdown;
   refusal, error state and ReadyForQuery (done).
7. `Guardrails`, `Rulebook`: a cached verdict is the verdict; one rulebook behind
   three doors (done).
8. `Store`: DDL in steps, races and deaths between them (done).

Left: scripts with transaction control, schema drift, `SET NULL`; on MySQL, that an undo puts
back what its operation wrote, which needs a record of the rows the triggers missed.
