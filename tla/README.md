# TLA+ models of pgdevkit

pgdevkit is a Python toolkit around PostgreSQL (and MSSQL): it applies
migrations, builds per-branch test databases from a directory of SQL files,
executes queries and streams results, and compares databases with code. This
directory holds TLA+ models of the parts in which order, concurrency and
failure matter, TLC configurations that check them on small instances, and
TLAPS proofs of the safety properties for every value of the constants.

Contents: [inventory](#inventory), [modules](#modules), [runs](#runs),
[proofs](#proofs), [what the models leave out](#what-the-models-leave-out),
[plan](#plan).

## Inventory

| Component | State it keeps | Operations | What is hard about it | What makes it correct |
|---|---|---|---|---|
| Migration apply (`cli.py`, `migrate.py`) | work queue, stop event, outcomes; tracking table and objects in the database | list pending, review with `--ask`, execute, record, verify, report | a prompting thread and an executing thread; two transactions per file; runs that crash, are repeated, or overlap | name order, nothing after a failure; recorded only if run or vouched for; a true report and exit status; every run ends |
| MSSQL migrations (`migrate_mssql.py`) | the same | the same, over `GO` batches | check-then-insert of the tracking row | the same |
| Schema apply (`testdb/schema.py`) | delivered/declared names, delayed list, held permissions files, failures; objects, rows and grants in the database | generate an order, execute, seed, retry | dependencies seen and not seen, cycles, failing statements, autocommit, repeated calls | build order, completeness, retries that converge and stop |
| SQL text (`sql_text.py`, `testdb/query.py`, `migrate._split_sql`) | none | split, strip comments | boundaries inside strings, comments, dollar quotes | splitting loses and merges nothing |
| Query execution (`db/fetch.py`) | the running query, the connection's status | run, cancel, abort, retry | cancellation at any await, a cancel that arrives too early or too late | no connection goes back busy; a cancelled query stops |
| JSON response, cancel route (`fastapi/`) | stream state, message queue | stream, watch for disconnect, clean up | disconnect against end of stream; bounded queue | a disconnect cancels; the next user's statement is never hit |
| Test databases (`testdb/api.py`, `testdb/mssql/api.py`, `naming.py`, `container.py`) | databases on the server, worktrees | ensure, reset, clean, list orphans, snapshot, restore | processes racing on one server; names and prefixes | nobody's live database is dropped |
| Pool, transaction (`db/connection.py`, `db/transaction.py`) | pool, read-only flag | open, close, borrow | reopening, restoring after failure | no setting leaks to the next user |
| Complex types (`db/complex_types.py`) | cache of type information | load, register, convert | stale entries | a value is converted with its own type |
| CRUD (`db/crud.py`, `db/mssql_crud.py`) | none | build and execute one statement | | |
| Statistics (`stats.py`) | history file | collect, merge, write | written in place | |
| Comparison (`diff.py`, `fetch_missing.py`) | none | diff two sets of objects | | each difference once |
| Filters (`areas.py`, `schemas.py`, `envtag.py`) | none | keep or drop files | | |
| Parsing, introspection, connections, containers CLI | none | | I/O and formatting | |

How they interact. `cli.py` calls `migrate.py` from two threads, which meet in a
queue, an event, a lock and the list of outcomes; through the database they
meet other runs. `testdb/api.py` creates a database and calls `apply_schema` on
it; `apply_schema` pulls files out of a generator, one for each file executed,
and seeds tables with `ComplexHelper`. `fetch_missing.py` writes files that the
next `compare` and the next `apply_schema` read. Commands of several worktrees
and projects meet in the databases, snapshots and sessions of one server, which
they tell apart by name. Applications hold the pool and pass its connections to
`fetch`, the JSON response and the read-only transaction, where a cancellation
meets a running statement; what one request leaves on a connection (a
transaction, a flag, a cache) the next one finds.

PROJECT.json lists the components with their status, the hazards of this code
each at its line with the properties that cover it, and for every definition of
a model the lines it stands for.

## Modules

### Migrate, MigrationLedger: `pgdb migrate apply`

`Migrate.tla` models `migrate_apply` (`cli.py:493-681`) and what it calls in
`migrate.py`. Each process of `Proc` is one command at a time, and may be started
again after it has ended or died.

| In the code | In the model |
|---|---|
| the main thread's place in its loop | `pc`: `loop`, `check` (in `already_fully_applied`), `prompt` (with `bar_lock` held), `join`, `done` |
| `targets`, the loop variable | `targets`, `todo` |
| `work_q` and its `None` | `work_q`, `Poison` |
| `stop` (with `failure`) | `stop` |
| `outcomes` | `outcomes`, a function, as nothing is reported twice |
| the worker's place | `wpc`: `get`, `exec`, `record`, `verify`, `report`, `off` |
| its transaction | `at`, `adds`, `dels` |
| tables, other objects; the tracking table's rows | `objs`, `recorded` |

A script is a sequence of statements that create (with or without IF NOT
EXISTS), drop or change an object, or end the transaction in the middle of the
script. Executing one is an action; whether it fails, waits for a lock of
another run or is chosen as the victim of a deadlock follows from the
transactions open in the database. The commit and the tracking insert are
separate actions, as they are separate transactions in the code, and so is each
look-up of `already_fully_applied`. The prompt holds `bar_lock`: `Discard` and
`Report` are disabled meanwhile (`BarFree`). Faults: the process dies
(`Crash`); the worker's connection is lost (`ConnectionLost`); the answer to a
commit is lost (`CommitAnswerLost`, `RecordAnswerLost`). What reaches the worker
as an exception goes through `Except`.

`MigrationLedger.tla` is the abstract specification: per file, how often it has
run, whether it was vouched for, whether it is recorded; a recorded file stays
recorded and runs again only if it is named with `--file`. `Migrate` with one
process implements it (`KeepsLedger`); two overlapping runs do not, as both may
have listed a file before either records it.

### SchemaApply, BuildOrder: building a schema

`SchemaApply.tla` models `testdb/schema.py`. The generator `_iter_sql_files` is
lazy: it goes on only when `apply_schema` asks for the next file, so it and the
application of a file alternate (`Resume`: the generator runs while `cur` is
`NoFile`).

| In the code | In the model |
|---|---|
| first loop, delayed loop, permissions, retries | `phase` |
| sorted files not yet looked at | `todo` |
| `delivered`, `all_declared`, `permissions_files` | `delivered`, `declared`, `held` |
| `delayed` and the loop index | `delayed` (a set: the list stays in file order), `i` |
| the file in `_apply`, and how far | `cur`, `at` |
| `failures`, `still_failing`, the loop position | the same, `k` |
| objects, number of rows, schema-wide grants | `made`, `rows`, `granted` |

The directory is a constant function `Content` of a version: what each file
declares, what the parser sees it depends on (`deps`), what it really needs to
execute (`needs`), where its rows point (`refs`), how many fixture rows it has
(`seed`). `needs` and `refs` are the database's business: the code does not see
them. `Call` may find the directory edited since the last call, or reset the
database. `Hiccup` makes a statement fail for a reason of its own, `Crash` ends
the process between two statements; under autocommit the DELETE and the COPY of
a fixture are two steps.

`BuildOrder.tla` is what the generator promises: a file at most once, none
before one of the scope that declares what it depends on, permissions files
last.

### FetchRun: a query and its cancellation

`FetchRun.tla` models `_run` of `db/fetch.py`, which every helper (`fetch_all`,
`fetch_one`, `fetch_scalar`, `execute`) goes through, with the two tasks it
starts. Calls of `Call` share the connections `Con` of a pool.

| In the code | In the model |
|---|---|
| the await at which the calling task is | `pc`: `acquire`, `wait` (`asyncio.wait`), `shield` (in `_abort_uninterruptibly`), `ending` (leaving the pool's block) |
| a `CancelledError` not yet thrown; `interrupted` | `hit`, `interrupted` |
| called from the `try` or from its `except` | `path` |
| the task `work` | `wpc`, `at` (which statement), `wres` |
| the task `_abort` | `apc` |
| the `cancel` event | `event` |
| the connection | `server` (busy or idle), `reply` (not yet read), `open` |
| the cancel request under way | `req`, `target` |

A step of the event loop that runs from one await to the next is one action, so
the interleavings are those of the awaits. The constant `shape` gives the
statements of a call: BEGIN, the timeout's `set_config`, the query, the
`set_config` back, COMMIT, as far as they are needed; a borrowed connection is a
shape without `ends`. `Answer` and its variants, `CancelArrives`,
`EndCancelled` and `Free` stand for PostgreSQL, psycopg and its pool: a cancel
request ends the statement that is running when it arrives and nothing
otherwise, `cancel_safe` returns when the request has been dealt with or fails,
and a pool takes back a connection that is idle and replaces a closed one.

### SchemaDiff, FolderCommands, Stats, DatabaseFolder: the database/ folder

`SchemaDiff.tla` has no state: it defines what the files of a folder declare
after the filters (`ParseDirectory`: `areas.py`, `schemas.py`, `parser.py`), what
introspection makes of a catalog (`Load`: `introspect.py`,
`mssql_introspect.py`), and the difference of the two (`Diff`: `diff.py`). A
definition is what it means and how it is spelled; a table keeps its columns,
types and NOT NULL. What passes through sqlglot comes out in sqlglot's spelling
(`Rendered`), which need not be that of `pg_get_viewdef`: views and composite types
are then compared as text, indexes after both sides have been rendered, routines and
tables by what they are. `FolderCommands.tla` runs `compare` and `fetch-missing` over
it while somebody else alters the database.

| In the code | In the model |
|---|---|
| the folder, the database | `tree`, `catalog` |
| `scripts`, what is loaded of the database, which loader is next | `scripts`, `db`, `at` |
| the report; `missing`, `written`, `skipped`, `failed` | the same |

Each catalog query is an action (`LoadNext`), as is each file written (`Write`).
`fetch-missing` ends in files that `parser.py` reads again: the DDL put together
from `pg_catalog` and the records introspection makes of the same catalog are two
translations of one thing, and `FetchConverges` holds them against each other.

Things the model made visible, and the properties allow for: overloaded functions,
procedures and partitioned tables are listed as missing but fail when fetched; a
partition is written as a plain table; a function whose return type has more than
one word is parsed without its signature and is a mismatch after it was fetched;
an index is keyed by its bare name, so the file of a fetched table may redeclare
an index another file declares; a view whose text sqlglot writes in another way than
the catalog (`'x'::text`, `CAST('x' AS TEXT)`) is a mismatch right after it was fetched, although
`diff.py:232-234` normalises "so semantically-identical definitions compare equal"
(`Respelled`); the index of a unique constraint is always
"missing in scripts"; schemas that differ in case share a file, so that the second
table is skipped; the queries of one comparison are no snapshot. The README's
`fetch-missing --dialect mssql` does not exist in `cli.py`.

`Stats.tla` models `update-stats` (`stats.py`): `listed` is `_tables.json` and
`files` the files of column statistics, each with the run that wrote it, or
`Torn` between truncating and writing; `writing` is the one that is open. `pc` is the place in `collect_stats` and
`write_stats`; `ReadStats` is what `get-stats` makes of the files.
`DatabaseFolder.tla` puts the two side by side: they share the directory and no
file, so a behaviour is of one or the other.

### TestNames, Container, TestDatabase: test databases

`TestDatabase.tla` models the commands of `pgdb testdb` on a server that the
worktrees of several projects share: `ensure`, `reset` (ensure with force),
`clean`, `clean --all`, `clean --orphaned`, and on SQL Server `snapshot`,
`restore` and a migration (`migrate_mssql.py`) of two batches.

| In the code | In the model |
|---|---|
| the command of a process and its place in it | `cmd`, `pc` |
| the list a sweep goes through; the database at hand; snapshots found | `todo`, `cur`, `seen` |
| `git worktree list`, `PGDEVKIT_TESTDB_BRANCH` | `worktree`, `setup.ws` |
| the server: databases with their mode, sessions and content; snapshots | `dbs`, `snaps` |
| a transaction of the migration | `batch` |
| the Docker container | `container` |

`TestNames.tla` has the names (`naming.py`) as sequences of characters, since
their prefixes decide what a sweep takes; the hash of a long slug, `Digest`, is
one character, and one that a slug may contain, as it has to survive the second
pass over the name. `Invalid` are the characters a slug replaces.
`Container.tla` (`testdb/container.py`, `_docker.py`) has four states
and the race of two processes that both create the container; the server stops
and a process gives up waiting in `TestDatabase`.

Every statement that goes to the server on its own is an action. Thus between
the two statements of a drop (terminate or SINGLE_USER, then DROP) others
connect; between a sweep's list and its last drop databases and worktrees come
and go; a script's commit and its tracking row are sessions apart. Faults: a
process dies, the server stops, a visitor connects, a worktree changes.
`excuse`, `alone`, `unowned`, `crossed` and `stuck` are history the properties
refer to: who was hindered, and by what.

Things the model made visible, and the properties allow for: a sweep that has
listed its databases and worktrees drops a database whose worktree comes back
meanwhile; the database of a `PGDEVKIT_TESTDB_BRANCH` counts as an orphan; the
names of a project whose slug is longer than the limit are cut and hashed and do
not begin with the prefix that sweeps look for, so sweeps find none; a sweep of
`a` takes the databases of `a_b`; two branches with one slug share a database; of
two concurrent `ensure` the second CREATE fails on SQL Server; on Postgres it is
tolerated as a DuplicateDatabase, unless the two overlap, when the server may answer
with a UniqueViolation that `api.py` does not catch (`Outrun`, `Outruns`); a client that connects at the wrong moment makes a drop fail and
leaves SINGLE_USER behind, as the drop has no `finally`; a restore between commit
and tracking row leaves a row whose script has no effect (`crossed`).

### HttpExchange, TypeCache, Serving, JsonResponse, CancelRoute, WebApp: requests

`WebApp.tla` composes requests with `PostgresJsonResponse` (`JsonResponse.tla`)
and requests of a `CancelOnDisconnectRoute` (`CancelRoute.tla`) on the connections
of one pool. `Serving.tla` holds what they share: the cancellations of a task, the
`asyncio.timeout(None)` scope whose deadline is pulled to now when the client has
left, the pool, `readonly_transaction`, and the catalog that a migration alters.

| In the code | In the model |
|---|---|
| the await at which a request is; its exception; what it returns or raises | `pc`, `exc`, `outcome` |
| a CancelledError not yet thrown, and from where; `task.cancelling()` | `hit`, `ext` |
| the scope: entered, rescheduled, expired, left; the watcher task | `scope`, `watch` |
| a connection's status, `read_only`, its ComplexHelpers' caches | `tx`, `readonly`, `cache` |
| statements that run on the server; those it could not be told to cancel | `running`, `lost` |
| a cancel request that failed but may still arrive | `late` |
| `set_read_only` has raised: the request, the connection | `refused`, `tainted` |
| a change of the catalog since the cache was new or cleared, by part | `stale` |
| JSON: rows in the query and in `_chunks`' buffer; what was sent | `left`, `batch`; `status`, `told`, `body`, `over` |
| route: the reader task, its message, the bounded queue, the event | `reader`, `hold`, `queue`, `disconnected` |
| the handler: body it has to read, its statement, its lookups | `unread`, `stmt`, `todo`, `found` |

The handlers are `pg_retrieve_many` within a `readonly_transaction` and
`pg_insert`, both with `complex_helper="auto"`, so that their catalog lookups go
through `TypeCache.tla` (`db/complex_types.py`): a function of the cache, the
lookup and what it has found, which says what statement is sent next and what is
remembered. Its three parts age by rules of their own: the type's CompositeInfo
(`info`) and what is known of a column (`column`, never that it is missing) until the
type is replaced, the columns of a whole table (`columns`, which also say that there is
no other) until one is added. A table is there without the column (`NoColumn`) or not
at all (`NoTable`).

Starlette, psycopg and the pool are not in the repository and are modelled by how the
code uses them (marked external in the map). Of psycopg (`>= 3.3` as
`pyproject.toml` asks) this is assumed: a task that is cancelled while it waits for a
statement sends a cancel request and goes on waiting for the statement's end
(`cancelling`), also when the request fails (`RequestFails`); a second cancellation
ends that wait with the statement still active (`CancelledAgain`); a transaction block
whose BEGIN is cancelled is not entered, so that nothing rolls back what the BEGIN may
have begun; `set_read_only` raises on a connection that is not idle. The pool (`Left`,
`Return`) keeps an idle connection, rolls back one that is in a transaction, and
replaces one that is active, broken or closed.

`HttpExchange.tla` is the abstract specification of what a client may see of a
JSON response: one status, and an array that ends in its bracket only after the
last row. `JsonResponse` implements it (`Exchange`).

Things the model made visible, and the properties allow for: a disconnect is not
noticed while the handler leaves so much of the body unread that the queue is full
and the reader does not get to the disconnect (the module says so), nor after `receive()` has
raised; `if not started` after the loop of `stream_response` is never true, as
`_chunks` always yields; a broken connection keeps `read_only`, and is replaced; a
BEGIN or COMMIT of `readonly_transaction` that is cancelled leaves the transaction open,
so that the flag stays set and the error of `set_read_only` takes the place of the
CancelledError (`RestoreFails`), although the docstring (`transaction.py:18-21`) says
that it is always put back, which `LeftClean` and `CauseKept` except; a handler whose driver waits for a query it has failed to
cancel goes on waiting after its client has left.

## Runs

| Run | Instance | Shows |
|---|---|---|
| `migrate_review` | one process, two runs, three files, one fault | every safety property, `KeepsLedger` and `RunEnds` hold |
| `migrate_overlap` | two processes, two files that lock two tables in opposite orders, one with its own COMMIT | order, tracking, report and termination hold for overlapping runs |
| `migrate_verify` | a script that rolls itself back | `VerifiedBeforeRecorded` is violated |
| `migrate_autodone` | drop, then create if missing, with `--ask` | `AutoDoneIsNoop` is violated |
| `schema_build` | 192 directories, two scopes, two calls, one fault | build order, completeness, cycles, seeding, retries, termination |
| `schema_permissions` | the same without faults | `PermissionsCover` is violated |
| `schema_repeat` | the same without faults | `SafeToRepeat` is violated |
| `fetch_cancel` | two calls on one connection, two cancellations, one failure | connections go back idle, no stray cancel, no lost cancellation, every call ends |
| `fetch_lost` | the same without cancellations and failures | `CancelRaises` is violated |
| `database_folder` | 18 folders, 3 catalogs, 24 commands, one change of the database; two tables, three `update-stats` runs | comparing and fetching agree, filters compose, tracked objects stay; statistics survive deaths |
| `testdb` | two workspaces in nine constellations, both engines, two commands, one fault | sweeps, ensure, drops, restores and migrations hold against each other |
| `web_app` | one request with three faults and two cancellations, or two requests on one connection | connections, causes, caches and responses are right; a request whose client left ends |

The properties of `Migrate`:
- `InOrder`: while the worker handles a file, every earlier target of the run is
  applied, recorded or skipped. It rests on the queue, the event and the prompt
  together.
- `RecordedJustified`: a recorded file has run to its commit or was vouched for.
- `OnlyPending`: a lone run does not execute a recorded file.
- `ReportIsTrue`, `ExitIsTrue`: the table and the exit status agree with what
  happened, and no target is left out.
- `Bootstraps`: the migration that creates the tracking table, and the ones
  after it, are recorded.
- `KeepsLedger`, `RunEnds`: the refinement, and that each run ends.

The properties of `SchemaApply`:
- `KeepsOrder`: the refinement of `BuildOrder`; `YieldsAll`: nothing is left out.
- `OnlyCyclesStop`: the ValueError means a real cycle.
- `DoneIsBuilt`: a call that returns has built and seeded its whole scope.
- `RetriesConverge`: on an empty database the retries give up only when no order
  would have worked (`Buildable` computes that by rounds).
- `CallEnds`: every call ends.

The properties of `FetchRun`:
- `GivenBackIdle`: a connection nobody holds is open and idle, and no request is
  under way to it. It rests on the abort being completed whatever interrupts it.
- `NoStrayCancel`: only a call whose event is set raises `QueryCanceled`; a
  request of one call never ends a statement of another.
- `CancellationKept`: a cancelled task raises `CancelledError`, wherever the
  cancellation arrives.
- `CallEnds`: no call waits for ever, after a failed cancel request included.

The properties of `DatabaseFolder`:
- `FetchConverges`: after `fetch-missing`, a comparison finds nothing missing but
  what it said it skipped or failed on, and no fault with the tables it wrote, nor with
  the views that sqlglot writes as the catalog does (`Respelled` are the others).
- `TrackedKept`: fetching changes no tracked object, wherever new files sort.
- `FilterExplained`: filters "compose safely" (README): what only a filtered report
  says is about something a file outside the filter declares.
- `ColumnFilesListed`: no step at which `update-stats` dies leaves a column file
  that later runs overlook. It rests on the order unlink, list, write.
- `UpdateExact`: after a run the files hold what it collected, and what was there.

The properties of `TestDatabase`:
- `SweepSparesOwned`: `clean --orphaned` drops nothing that had an owner all the
  time since it listed. It rests on the databases being listed before the worktrees.
- `ProjectSwept`: a sweep keeps to its project's names and leaves none of them, but for
  the nested projects and the cut slugs named above.
- `EnsureDelivers`: an `ensure` fails only when hindered, and finishes what an
  earlier one that died has left. Another `ensure` hinders it only when it creates the
  same database between its look-up and its own CREATE.
- `ModeRestored`: SINGLE_USER lasts no longer than the command that set it, unless
  that one died, lost its seat to a client, or had its DROP refused.
- `MigrationAtomic`: batches take effect all or none, in snapshots too; recorded
  means effective, unless the database was restored or dropped between a script's
  commit and its row.

The properties of `WebApp`:
- `LeftClean`: a free connection is idle, out of reach of a cancel request that was
  given up, and without its last user's read-only flag, unless `set_read_only` has
  raised there; no query runs on for a request that is over, unless the server could not
  be told.
- `CauseKept`: 499 only when the client left; a foreign cancellation is not taken for
  the scope's, and ends the task, unless the error of `set_read_only` does.
- `CacheTrue`: each part of a connection's cache is true of the catalog, unless the type
  was replaced, or for `columns` the column added, since it was new or cleared.
- `Exchange`: the refinement of `HttpExchange`. The transaction is committed after the
  bracket: a whole array does not say that the COMMIT went through.
- `GoneEnds`: a request whose client leaves ends, though its query would not, unless
  `receive()` has failed, the handler leaves more of the body unread than the queue
  holds, or the driver waits for a query it has failed to cancel.

Bounds. Three files are enough for a failure with one file before it and one
after it; one fault puts a crash or a lost answer at every step; the second run
finds what the first left. Two processes with two files deadlock on two tables.
Three tables give chains, two- and three-cycles and diamonds with the index
file; the second call meets a half-built database, a changed fixture or an
orphaned DELETE. `MaxRuns`, `MaxCalls` and `MaxFaults` bound counters that the
code does not have; every other constant describes the directory, the options
and the database. In `FetchRun` two calls on one
connection give a request a next user to hit; of two cancellations the second
meets the abort of the first. Deadlock is not
checked: a process that has ended and may not be started again (`MaxRuns`,
`MaxCalls`, `MaxCommands`), and calls and requests that are all over, have nothing
to do.

In `database_folder` every command meets every folder and catalog:
objects missing on either side, in both, declared twice, created in a DO block,
of every kind the code treats in its own way. `MaxRuns` = 3 update-stats runs are
one that dies, one that dies on what it left, and one that must cope; `MaxDrops`
bounds the changes of the database. In `testdb` the workspaces are one another's
sibling, twin (detached worktrees, one slug for two branches), nested project
(`a`, `a_b`), look-alike under LIKE (`a_b`, `axb`), of a slug just as long as
allowed or one longer, or with an overridden branch; `MaxCommands` = 2 are two
commands that race, or one after another that died; `setup.faults` bounds deaths,
stops, visits and changes of worktrees; `Fixture` = 2 rows let SQL Server stop
between them; the limit of a slug is 5 characters instead of 30. In `web_app`
`MaxPending` = 1 fills the queue with the second message (the code's 8 with the
ninth), and one of the handlers leaves two messages unread, one more than that;
`setup.faults`, `setup.cancels` and `setup.types` bound failures,
cancellations by others and changes of the type, as many as one request has places
for them to meet.

Fairness. `Migrate`: weak fairness of each process's main thread, its worker
and the answers at its prompt: both are operating-system threads that the
interpreter keeps running, the server answers statements, and a user who never
answers leaves the run waiting as intended. Nobody is obliged to start a run
and no fault has to happen. A worker's step includes the end of a deadlock by
the server. `SchemaApply`: weak fairness of the one coroutine. `FetchRun`: as
long as a task is ready or the server busy, one of them goes on; that is all the
event loop and the server have to do, as every call has finitely many steps.
A query that runs for ever is outside of it: the server answers. `WebApp`: weak
fairness of `Progress`: tasks that can go on, the server's messages to the reader,
its answers to BEGIN, COMMIT, ROLLBACK, catalog queries and cancel requests, and
sends to a client that has gone, which return or raise. A query need never end and
a client need never read: `GoneEnds` holds all the same. The other two modules have
no liveness property: a command there runs to its end alone or waits for a lock
of the server.

Findings. Five docs or docstrings promise more than the code does; each has a
run of its own whose counterexample is an execution of the model, and an entry
in PROJECT.json that quotes the line.
- `migrate_verify`: a file is recorded before it is verified, so a migration
  that silently rolled back is not pending any more.
- `migrate_autodone`: `--ask` looks targets up before earlier files have run.
- `schema_permissions`: what the retries build is not covered by the grants.
- `schema_repeat`: a changed fixture of a referenced table fails a repeated call.
- `fetch_lost`: an event set before the query was sent may have no effect; the
  query is sent after the cancel request, and its rows are returned.

## Proofs

A theorem holds for every value of the constants that the named assumptions
allow; TLC evaluates those on every run. Each invariant below was checked by TLC
on the instance of a run before it was proved. The proofs are in eight modules.
Each is laid out in the same way: the types; what a step of one process, call
or request leaves of the others (so that the proof goes actor by actor, one step
per action); the inductive invariant; the theorem.

| Theorem | States | Holds for any |
|---|---|---|
| `MigrateProofs!TypeCorrect` | `TypeOK` | files, processes, runs, faults |
| `MigrateProofs!OrderCorrect` | `InOrder` | the same |
| `MigrateProofs!RecordedCorrect` | `RecordedJustified` | the same |
| `MigrateReportProofs!ReportCorrect`, `ExitCorrect` | `ReportIsTrue`, `ExitIsTrue` | the same |
| `MigrateLedgerProofs!PendingCorrect` | `OnlyPending` | the same; the property speaks of a lone process |
| `MigrateLedgerProofs!BootstrapCorrect` | `Bootstraps` | one process; files, runs, faults |
| `MigrateLedgerProofs!LedgerKept` | `KeepsLedger` (refinement) | one process; files, runs, faults |
| `SchemaApplyProofs!TypeCorrect` | `TypeOK` | directories, scopes, calls, faults |
| `SchemaApplyProofs!OrderKept` | `KeepsOrder` (refinement) | the same |
| `SchemaApplyProofs!AllYielded`, `StopsOnCycles` | `YieldsAll`, `OnlyCyclesStop` | the same |
| `SchemaApplyProofs!DoneBuilt` | `DoneIsBuilt` | the same, under `FixturesAgree` |
| `SchemaApplyProofs!Converges` | `RetriesConverge` | the same, under `OneSeeder` |
| `FetchRunProofs!TypeCorrect` | `TypeOK` | calls, connections, statements of a call, cancellations, faults |
| `FetchRunProofs!BackIdle`, `NoneStray`, `CancellationRaised` | `GivenBackIdle`, `NoStrayCancel`, `CancellationKept` | the same |
| `WebAppProofs!ConnectionsLeftClean`, `CausesKeptApart`, `CachesTrue` | `LeftClean`, `CauseKept`, `CacheTrue` | requests, connections, jobs, size of the queue, faults, cancellations, changes of the type |
| `WebAppProofs!ImplementsExchange` | `Exchange` (refinement) | the same |
| `TestDatabaseProofs!ModeCorrect`, `AtomicCorrect`, `SweepCorrect`, `EnsureCorrect` | `ModeRestored`, `MigrationAtomic`, `SweepSparesOwned`, `EnsureDelivers` | processes, projects, worktrees, engines, commands, faults, rows of a fixture |
| `TestDatabaseProofs!SweptCorrect` | `ProjectSwept` | the same; names, the limit of a slug, suffixes, the digest |
| `DatabaseFolderProofs!FilesCorrect`, `UpdateCorrect` | `ColumnFilesListed`, `UpdateExact` | tables, runs, deaths, changes of the database |
| `DatabaseFolderProofs!Tracked`, `Explained`, `Converged` | `TrackedKept`, `FilterExplained`, `FetchConverges` | folders, files, catalogs, filters, commands |

`MigrateProofs`. `InOrder` is not inductive: it says nothing of the items still
queued. `OrderInv` adds that the job, the queue and the files not yet looked at
ascend in this order (`Sorted`), that until a failure they and the settled files
are all the targets (`Accounted`), and that the worker is busy only while the
event is not set. The main thread moves a file from `todo` to the queue's end,
the worker moves the head of the queue to its job and settles it.
`JustifiedInv`, for `RecordedJustified`, adds what an item carries: one marked
already done has been vouched for, and a job about to be recorded has been
executed or was vouched for.

`MigrateReportProofs`. The report is made where both threads have ended, so
`ReportInv` says what is known there and how it came about: the worker is off
only behind the poison, which is the queue's last item, and without a failure or
a "quit" every file has been looked at by then (`EndInv`); the files a run has
executed are the ones reported so, or the worker's job between the commit and the
report, and none of them is still to come (`RanInv`). The accounting of
`OrderInv` then leaves no target out.

`MigrateLedgerProofs`. With one process nobody else changes the tracking table
between listing it and executing a file. `LoneInv`: what is to come is pending or
named with `--file` (`PendingInv`, `TargetInv`); what is kept precedes what is to
come, and from the file on that created the tracking table, what is kept is
recorded (`BootInv`). For two processes `Bootstraps` and `KeepsLedger` are false,
as both may list a file before either records it; hence the hypothesis
`Cardinality(Proc) = 1`. The one process may crash and be started again, any
number of times. The refinement maps a commit, an answer at the prompt and a
tracking insert to the three steps of `MigrationLedger` and every other step to a
stutter.

`SchemaApplyProofs`. The order rests on `GenInv`: every file of the scope is in
exactly one of `todo`, `delayed`, `held` and `yielded`, and `delivered` and
`declared` are the names of the last ones (`Placed`); which of these places are
empty in each phase (`Emptied`); and a pass that has released nothing has found
every file it looked at waiting (`Waiting`). The last is what makes the ValueError
mean a cycle: a pass that releases something may leave files behind that are ready
by its end. `DoneIsBuilt` rests on `BuiltInv`: of every file yielded, the names
exist and the rows are there, or it still awaits its (next) application, in `cur`,
in the rest of this pass or in the list for the next; and a call is done only when
these lists are empty. `FixturesAgree` says that two files of one scope that seed
the same table bring equally many rows. Without it the property is false: each
of the two would delete the other's rows, and the last one wins. The directories
of `schema_build` satisfy it.

`RetriesConverge` speaks of `Buildable`, which goes by rounds. `GainInv` says
that a file that failed in a pass was not ready when the pass began: what it
needs or points at is not all provided by the files that have not failed
(`Unready`); and that rows are there only for files already dealt with
(`RowsOwned`). When a whole pass has failed, no round has a failed file: the first
one that had would follow a round of files that have not failed, and those do not
make it ready (an induction over the rounds, from the lemma `Least`). `OneSeeder`
says that in a scope one file brings the rows of a table, and that files declaring
the same table give it the same foreign keys. Without it the property is false: if a
table is seeded by `t.sql` and by `t.local_test.sql`, and rows that reference it are
inserted between the two, the second file's DELETE is refused in every pass, while
applying the two in a row would have worked. The directories of `schema_build`
satisfy it.

`FetchRunProofs`. `FetchInv` relates the tasks (`TasksInv`: which of them there
are at each await), the connection (`WorkInv`: while a statement is awaited the
server works on it or has answered), the cancel request (`RequestInv`: it is out
only while the abort waits for it, and is for the connection that the call still
holds) and the causes (`CauseInv`). `RequestInv` is the heart of `NoStrayCancel`
and `GivenBackIdle`: no connection is given back as long as a request for it is out.

`WebAppProofs`. Four invariants. `PoolInv`: a request has a connection exactly
where its code is inside the block around it; the server works for it only
where somebody waits for the answer or is on the way to cancel it (`Awaiting`), or has
failed to; a connection with a stray flag has refused to put it back, and one that a
cancel request may still reach is about to be closed. `CausesInv`: a
scope is due, and a 499 under way, only when the client has left, along the chain
from the reader's message through the bounded queue to the event; and a
cancellation by somebody else is still to be thrown, or is the exception under
way (`Remembering`), or the outcome, or has been displaced by the error of
`set_read_only` (`Displaced`). `CacheInv`: only the columns of a table can say that the
column is missing (`FreshCache`), and what a lookup has found but not yet remembered is
no older than the parts that are not stale (`FoundInv`). `CacheTrue` alone is not
inductive: a column that is added would make an entry that it is missing wrong, and a
lookup under way would remember what it found before. `WireInv`: every row is told, in a batch, or still to come, and the
array is whole only when the query is over. From it each step on the wire is a
step of `HttpExchange`. That a connection has one user is part of `PoolInv`,
so that one request's query cannot be read as another's.

`TestDatabaseProofs`. `ModeInv`: a database in SINGLE_USER mode that is not stuck has
nobody connected, and a command is between setting the mode and putting it back.
`RecordInv` and `SoundInv`: a script whose row is still to come has taken effect,
or somebody has reverted or dropped the database meanwhile; snapshots keep what
was sound when they were taken. `SweepInv`: what an orphaned sweep still goes
through has been without an owner since it listed; this is where listing the
databases before the worktrees enters. `ExcuseInv` and `AloneInv`: what an
`ensure` finds at each of its steps as long as nobody gives it a reason to fail
(`Unhindered`), and what it has achieved by then as long as nobody else touches a
database (`Undisturbed`), whatever state its predecessor died in; `EngineInv`
adds that Postgres has no snapshots, which would refuse a DROP. `FlowInv` says
which commands reach which step.

`ProjectSwept` is half about steps and half about names. The steps: `CleanInv` says
that what a `clean` has listed and what it drops is its own database or begins like
its project's, and that a `clean --all` nobody disturbs has yet to drop every one of
these that exists. The names: `slugify` is a pass over the characters
(`NormalizeSteps`, by induction over the length), its result has no character to be
replaced and no "_" at its ends (`SlugifySlug`), and of such a text a further pass
changes nothing (`NormalizeSame`), so that the second pass of `workspace_db_name` can
only cut. Hence a database's name begins like its project's, or the project's slug is
cut and the name goes on with the digest of the joined name (`NameBegins`). Two
projects that can both have given a name are then nested (`BeginsNested`): two prefixes
of one text nest, and where a digest stands in the name of one, it cannot be
another's.

`DatabaseFolderProofs`. `StatsInv` says, for each step of `update-stats`, what the
files still hold of what the run has read (`FoundInv`), that a column file whose
table is not listed can only be one that the listing about to be written names
(`FilesInv`), and what has been written by then (`WrittenInv`). `FilesInv` is where
the order unlink, list, write matters.

For the other tool, what `parse_directory` returns is a fold over the statements
of a file within a fold over files. The proofs follow one key at a time: a fold is
the sequence of its intermediate values (`DeclareSteps`, `DirectorySteps`), and
there is no first place at which what is claimed of a key fails (`Induction`, from
`Least`). `DirectoryAgree`: two folders agree on a key when the files that say
something of it do; `DirectoryHas`: a key that is in the result is declared by a
file; `DirectoryHolds`: what all files that declare a key say of it holds of the
result. `KeptInv`: the files a fetch has added declare nothing that was tracked,
indexes aside; hence `TrackedKept`, also when others alter the database, as
`missing` is disjoint from what was parsed. `LoadedInv`: as long as nobody does, `db`
is what introspection finds in the catalog, type by type; hence the two reports that
`FilterExplained` compares differ only in `scripts`. `FetchedInv`: every object only
in the database is still missing, or written, skipped or failed, and each new file is
the DDL of one object; together with `DdlParsesBack`, that the columns put together
from `pg_catalog`, and the text of a view that is not `Respelled`, are parsed to what
introspection makes of them, this gives `FetchConverges`.

Assumptions. On constants: bounds are natural numbers; `Migrate`'s scripts speak
of its objects; a directory's tables declare what their files say; `NoCon`,
`NoName` and `Absent`, `Torn` are none of the values they stand beside
(`ConAssumption`, `NameAssumption`, `MarkAssumption`); a request's numbers are
natural and a batch holds at least one row (`SetupAssumption`; the constructor
refuses a `batch_size` below 1); a fixture has a row (`RowsAssumption`); a visitor is not one of our processes
(`VisitorAssumption`); `PathOrder` is a sequence and has every path that a file may
be fetched to (`PathAssumption`, `FetchedPaths`: it stands for the order of all paths);
a file's statements are a sequence (`FolderAssumption`); a catalog is finite, its
columns have names, and those of a primary key or with an identity are NOT NULL
(`CatalogAssumption`: PostgreSQL sees to that); `Rendered`, how sqlglot writes what it
has parsed, may be any function. On names of test databases: the
limit is at least one, "_" and "x" are characters of a slug (`SlugAssumption`); the
names of projects and branches are texts, and a digest is a character of a slug, not
"_" (`TextAssumption`: the code's is hexadecimal); digests of different joined names
differ, and the digest of a project's slug is not that of a joined name of a project
with a cut slug (`DigestAssumption`). The last is what SHA-256, here one character for
its first eight, is relied on for, and it excludes a project that is named like the
joined name of another's worktree.

Only model-checked:
- liveness (`RunEnds`, `CallEnds`, `GoneEnds`), which the prover cannot do. Every
  other property of the passing runs is the subject of a theorem.

## What the models leave out

- `migrate check`, `execute_sql_script` and `missing_privileges`: reads, or one
  transaction without bookkeeping.
- How statements are split and classified, and how dependencies are parsed: the
  scripts and directories are constants that say what the parsers return.
  `sql_text.py` and `testdb/query.py` are functions on the characters of a text,
  without state; a model of them would be a transliteration.
- A directory that changes during a run or a call; a script that drops the
  tracking table.
- The content of rows; which columns a fixture has and how values are converted.
- Progress bar and messages, except that they take `bar_lock`.
- A row of the tracking table deleted by hand.
- In `FolderCommands`: comments, constraints other than the primary key, the
  default of a column, env tags of file names; the text of the DDL.
- In `TestDatabase`: the prompts of `migrate apply --ask` (a file is executed, or with
  `--ask` may be recorded when its targets exist; `Migrate` has the rest); the `apply`
  hook, `status`, `shell` and `run_sql`; the build of
  a schema is one step, its steps are `SchemaApply`'s; users and grants of a server.
- In `WebApp`: `PgPool.open` and `close` (a pool that was closed is not opened
  again, the library refuses it); a connection the caller hands in (`con=`), background
  tasks, autocommit; the `statement_timeout` a query sets and restores
  (`FetchRun` has it); composite types within composite types, registration on
  cursors, helpers with `cache=False`, DDL that is rolled back after it was cached;
  the CRUD functions other than the two, which send their one statement in the same
  way, and `mssql_crud.py`, which is synchronous.
- `lakebase.py`, `connection.py`, `backends/`: connection strings and tokens; no
  state outlives a call.

## Plan

Modelled: `Migrate` with its ledger; `SchemaApply` with `BuildOrder`;
`FetchRun`; `DatabaseFolder` over `FolderCommands` and `Stats`;
`TestDatabase`; `WebApp` over `JsonResponse` and `CancelRoute`, with `HttpExchange`.

Proved: every safety property of `Migrate`, `FetchRun` and `WebApp`, and the three
refinements; of `SchemaApply`, `DatabaseFolder` and `TestDatabase` all.

Left, to model: the splitting of statements against a reference definition; opening
and closing the pool.
