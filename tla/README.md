# A verification of orm-glib

orm-glib is an object-relational mapper for GLib programs in C: GObject
classes are mapped to tables, a session keeps track of objects, a connection
runs statements on SQLite, PostgreSQL or MySQL, synchronously or from a main
loop, and a migrator changes schemas.  This directory holds TLA+ models of its
core, the configurations with which TLC checks them, and theorems about them
that TLAPS checks.

`tlc -workers 2 -config MCConnectionSafety.cfg MCConnection` runs a check,
`tlapm ConnectionProofs.tla` checks a module's proofs.  Paths below are those
of the repository (`src/engine/...`, `docs/...`).

## 1. The system

| Component | State | Operations | Where | Modelled by |
|---|---|---|---|---|
| worker | a thread, a FIFO `GAsyncQueue` of jobs | push, invoke_sync (rendezvous), shutdown (sentinel, join) | `engine/orm-worker.c` | `Connection`, `RowStream` |
| connection | driver connection, `is_open`, `state`, worker, `in_transaction`, `isolation_level`, lock | `*_async` and `_finish`, execute, query, begin, isolation level, interrupt, close, finalize | `engine/orm-connection.c` | `Connection`, `Transaction`, `RowStream` |
| transaction | connection, `is_active` | new, commit, rollback, savepoint calls, finalize | `engine/orm-transaction.c` | `Transaction` |
| row stream | a cursor of the driver, a connection, flags | query_stream, fetch, close, finalize | `engine/orm-row-stream.c` | `RowStream` |
| result, row | a driver's result, the current row, an error | next, get_all, get_first, get_scalar, typed getters, close | `engine/orm-result.c`, `orm-row.c` | `Result` |
| engine | URL, driver, dialect | connect, create_all, drop_all | `engine/orm-engine.c` | `SchemaSync` (partly) |
| session | sets pending, deleted, attached; identity map | add, delete, expunge, get, flush, commit, rollback, close | `orm/orm-session.c` | `Session`, `Query` |
| identity map | key → object, object → key | add, remove, remove_object, clear | `orm/orm-identity-map.c` | `Session` |
| query | filters, order, limit, offset | all, first, one, one_or_none, count, exists, delete | `orm/orm-query.c` | `Query` |
| mapper, property, serializable | descriptions of a class | column lists, conversion of properties | `orm/` | `Mapping` |
| migrator | list of migrations; in the database a history and a lock | up, down, status | `migration/orm-migrator.c` | `Migrator` (partly) |
| drivers | a handle of each database's C library | bind, read, fetch, interrupt, close, isolation, last id | `driver/` | `DriverValues`, `Result` and the modules above (partly) |
| values and types | a tagged value; a column type | constructors, getters, compare, to and from `GValue` and text | `core/orm-value.c`, `types/` | `Value`, `SqlTypes` |
| schema | tables, columns, keys, indexes, metadata | setters, add, remove, look up | `schema/` | `Schema` |
| sql builders | trees of expressions and clauses | where, join, set, …; compile | `sql/` | `Expression`, `Statements` |
| dialects, DDL compilers | none | quoting, facts, type names, CREATE and DROP | `dialect/` | `Dialect`, `SqlTypes`, `Ddl` |
| inspectors | an engine and its connection | nine calls, synchronous and asynchronous | `inspect/` | `SchemaInfo`, `…Inspector` |
| exporters | settings, a stream, flags between hooks | write CSV and JSON from a result or an array of rows | `export/` | `Exporter` |
| relationship, driver registry, examples | records and tables filled once | getters | `orm/`, `driver/` | – |

How they interact:

- A connection is made on a thread, its *owner*.  The first asynchronous call
  starts the worker.  From then on every statement, synchronous ones included,
  goes through the worker's queue; answers and `state-changed` emissions come
  back as sources of the owner's `GMainContext`.  A `GCancellable` calls the
  connection back on whatever thread cancelled it.
- A transaction sends text (`BEGIN`, `SAVEPOINT` …) through its connection and
  sets the connection's `in_transaction`; it holds a plain pointer to it.
- A session runs its statements on one connection and registers what it loads
  or inserts in its identity map.  A query uses the connection and does not
  look at the identity map.
- A stream holds its connection, and its fetches are jobs on the connection's
  worker; the last reference of either may be dropped by the worker.
- An inspector's calls are jobs on the connection of its engine, up to three
  queries each; `create_all()` and `drop_all()` open a connection for the call.
- A query and a session write SQL by hand and give it the values of properties;
  what a driver reads back goes through the mapper into a new object, through a
  row's getters to the caller, or through an exporter into a file.
- A migrator has a connection of its own, and on MySQL a second one for the
  lock.  Several programs meet only in the database.

What is hard in it, and the properties that make it right:

- **Threads.** Worker, owner and cancel handlers share the connection; a task
  must be returned exactly once, answers come in order, a close must not take
  the handle from a running statement, nobody may wait for ever.
- **Ordering.** The queue is FIFO; the owner's own emissions are immediate, and
  the worker's are too while nobody holds the main context.
- **Three databases.** What a failed statement, a failed COMMIT or a savepoint
  does differs between them; two flags on two objects must stay in step with
  the transaction on the other side.
- **Partial failure.** A flush and a migration are sequences of statements that
  can fail anywhere and be started again.
- **Other programs.** Migrators of several releases run against one database
  and die half-way.
- **Ownership.** Sets that hold no references, a table whose keys another
  table frees, a cursor whose stream goes with a thread's last reference.
- **Text.** Conditions, literals, names and values become text in three
  languages, and come back: precedence, NULL, quotes, widths and digits.
- **Ends that look alike.** Rows that break off, a lost result, an empty batch
  and the end of the rows must be told apart, up to the file an export writes.
- **Another's changes.** A schema is read in several queries, and rows come in
  an order nobody asked for.

`PROJECT.json` lists each such hazard at its line with the properties that
would notice it.

## 2. Modules

State machines, each with an `MC` module that gives TLC the constants:

| Module | Models | Uses |
|---|---|---|
| `Connection` | the connection and its worker, all interleavings of three parties | implements `AsyncCalls` |
| `Transaction` | transactions and isolation levels over the database's side of one connection | – |
| `RowStream` | a stream over its connection and worker, with the last references | implements `RowSource` |
| `Session` | session and identity map over one table | – |
| `Migrator` | several programs that migrate one database | – |
| `SchemaSync` | `create_all`, `drop_all` and the inspectors, while others change the schema | `Schema`, `Ddl`, `Catalogue`, `Inspector` |
| `Builders` | a program that builds statements call by call | `Expression`, `Statements`, `SqlGrammar` |
| `Queries` | a program that saves, asks for and exports objects of one class | `Mapping`, `Query`, `Result`, `Exporter`, `SqlGrammar` |

Modules of operators, without state:

| Module | Models |
|---|---|
| `AsyncCalls`, `RowSource` | no code: what the asynchronous API and a stream promise |
| `Value`, `SqlTypes`, `DriverValues` | values, types and their names, and what each driver binds and reads |
| `Schema`, `Dialect`, `Ddl` | declarations, the dialects' facts, the DDL compilers |
| `SchemaInfo`, `SqliteInspector`, `PostgresInspector`, `MySqlInspector`, `Inspector` | the inspectors: the queries of a call and what is made of the rows |
| `Expression`, `Statements` | the expression and statement builders and what they compile to |
| `Mapping`, `Query`, `Result`, `Exporter` | the classes of those names |
| `Positions` | lists put in order, thinned out and cut into runs, as the inspectors do with rows |
| `Catalogue`, `CatalogueRows`, `SqlGrammar` | not code of the library: what a database records of DDL, answers to catalogue queries, and reads in a statement |

`ConnectionProofs`, `TransactionProofs`, `RowStreamProofs`, `SessionProofs`,
`MigratorProofs` and `SchemaSyncProofs` extend the modules they are about.
`InspectorProofs` is about the operators of the three inspectors, and
`SchemaSyncProofs` builds on it.

### Connection

`driver`, `handle` and `isOpen` are the connection's three ideas of being open:
the pointer, the library handle behind it, and the flag.  `queue`, `thread`,
`wpc`, `cur`, `res` are the worker; per operation there is the place of its job
(`stage`), of its `GCancellable` (`cancel`) and of its cancel handler
(`handler`), and what became of its `GTask` (`answered`, `returns`, `outcome`,
and `got`, which the callback is handed).  `owner` is where the owner blocks,
`inbox` the sources in its main context, `seen` the state its listener was told
last.

`SetState` is `orm_connection_set_state()` with `g_main_context_invoke_full()`,
which calls the handler at once, on the calling thread, when that thread can
acquire the context, and queues it otherwise.  The owner always can.  The worker
pushes no context of its own, so the default context is its context as well: it
can whenever nobody is inside the owner's loop.  `held` says whether somebody is,
and `OwnerTurns` changes it; for a connection made under another context it
stays TRUE.  A report made at once goes past those that wait, which `overtaken`
remembers.

An action is what runs between two points at which another thread can see a
difference: a lock taken, a queue operation, the driver's call.  So
`orm_connection_op_cancelled()` is three steps (`HandlerTakesDriver`,
`HandlerInterrupts`, `HandlerAnswers`), a job on the worker is `WorkerTakesOp`,
`WorkerMayRun` or `WorkerSkips`, `WorkerStartsStatement`, `BackendEnds`,
`WorkerAnswers`, `WorkerFinishes`, and `orm_connection_close()` is `Close`,
`OwnerJoins`, `OwnerClosesHandle`.  `g_cancellable_disconnect()` waits for a
running handler (`MayDisconnect`); `_finish` reports a task as cancelled
whenever its cancellable is (`Dispatch`).  Interruption stops whatever
statement runs, as `sqlite3_interrupt()` and `PQcancel()` do; MySQL's driver
has none.

### Transaction

The library remembers `in_transaction` and `is_active` and sends text.  What
the databases make of it is the record `db`, and each statement is an operator
that yields the set of its outcomes (an answer and the session after it).
These operators model code outside the repository, from the databases'
documented behaviour as far as the library's calls depend on it:

- an error inside a PostgreSQL transaction aborts it, and COMMIT then answers
  ROLLBACK; MySQL's BEGIN commits what was open; SQLite refuses a nested BEGIN;
- SQLite opens a transaction for a SAVEPOINT sent outside of one and commits at
  its RELEASE;
- savepoint names go out in double quotes, which MySQL (without `ANSI_QUOTES`)
  takes for a string: there every savepoint call fails;
- a full disk (SQLite) or a deadlock (MySQL) rolls the whole transaction back;
- a COMMIT may be refused (SQLITE_BUSY), may end the transaction with an error
  (a deferred constraint on PostgreSQL), or may lose its answer.

A call is one action: nothing else uses the connection meanwhile.  Left out:
MySQL's implicit commit at DDL statements, and two connections with rows in
common (levels are recorded, their effect is the databases' business).

### Session

`pending`, `deleted`, `attached`, `byKey` and `keyOf` are the session's and the
identity map's hash tables; `keyOf[o] = Freed` is a reverse entry whose key GLib
has freed.  `orm_session_flush()` is a loop whose statements are single steps
that may fail (`FlushBegins`, `FlushInserts`, `FlushInserted`, `FlushDeletes`,
`FlushFails`, `FlushEnds`).  The caller may run transactions and
`orm_query_delete()` on the same connection.  There are four kinds of database:
SQLite with and without AUTOINCREMENT and MySQL with `ANSI_QUOTES` differ in
which ids are given out; PostgreSQL, and MySQL as it comes, are the fourth, which
refuses every statement of a session (`Understands`), since their text has `?`
and double quotes for every database.  What is claimed of MySQL is claimed of the
third kind.  The dirty set is left out because nothing ever adds to it;
`commit()` is `flush()`, since the session never begins a transaction.

### Migrator

Each program has a release's list and calls `run()` for up, down or status;
`pc` follows it through lock, reading, one step, its record and COMMIT.
PostgreSQL holds an advisory lock for the call and a transaction per step,
MySQL a table lock and no transaction, SQLite `BEGIN IMMEDIATE` per step and no
lock for the call.  Statements fail, a COMMIT on PostgreSQL or a record on
MySQL may lose its answer (`CommitsUnheard`, `RecordsUnheard`), the primary key
of the history may refuse a record (`Refused`), programs die (`Crash`).  `doubt`
marks the migrations MySQL may have applied in part, which the documentation
tells the operator to repair.

Two things can go wrong on MySQL without the call hearing of it.  `LosesLock`: the
lock is held by a second session, which the server may drop; another program
then gets past it (on PostgreSQL the session is the call's own, and the call
fails).  `EmptyRead`: `read_history()` takes a `mysql_store_result()` that failed
for a history without rows.  `blind` marks who acts on such a read, and
`breached` that two programs were past the lock at once, or that a step chosen
from such a read was recorded.  The properties say what they except by these
two.

### RowStream

`queue`, `thread`, `job`, `wpc` are the worker as in `Connection`, in coarser
steps: a cancel handler is one step here, since its races are there.  `cursor`
is the driver's result, `handle` the library's handle, `stream` and `conn` the
two objects with the caller's references, and `chore` is what a thread
finalizes because it dropped a last reference.  A fetch is a loop whose turns
are steps (`StepsToRow`, `StepsToEnd`, `StepFails`), so that an interrupt lands
between two rows.  `Interrupts(c)` takes whatever runs, and on SQLite whatever
cursor is in the middle.  The finalizers run where the code runs them:
`OwnerFinalizesStream` asks the worker by rendezvous if there is one,
`WorkerFinalizesStream` and `WorkerFinalizesConn` run inline.
`given`, `ended` and `excused` are what the reader knows; `RowSource` speaks of
those three only.

### SchemaSync and the inspectors

A DDL statement is a record of what its text says (`Ddl`); what a database
makes of it, or refuses, is in `Catalogue`.  `main` is a `create_all()` or
`drop_all()` with the place in its list, one statement a step; `ask` is an
inspector call, one query a step, whose asynchronous form can be cancelled.
`CatalogueRows` answers each query with a set of sequences of rows, one for
every order the query leaves open, and says what a catalogue that holds together
looks like (`IsDatabase`).  An SQLite engine on `:memory:` gets a
database per connection (`private`).  Others drop, create, fill and count
tables (`Others…`).  `RowsUnread` is the answer that MySQL's driver makes of rows
it could not fetch for a query without parameters: none, and no error.  The text
of a CREATE TABLE, which SQLite's inspector searches for AUTOINCREMENT, is the
set of its words, every name, type and default among them (`SqliteWords`);
`Autoincrements` are the words of which that one is a part.

### Builders

`held` is a condition with what it should mean on each row of `Rows`, in
three-valued logic; `stmt` is the statement, `asked` what the program asked of
it.  Text is a sequence of tokens.  `SqlGrammar` reads the compiled text with
SQL's precedences, puts parameters in the placeholders' places and evaluates
it, and the properties compare what it read with what was asked.  It reads
values written out as each database does: a backslash is MySQL's escape, `X'..'`
is bytes on SQLite and MySQL and a bit string on PostgreSQL.  Names with a quote
character in them (`QuoteIn`) are among those a program gives; between quotes of
that kind such a name is not read as a name (`IsName`).

### Queries

The table's rows hold the object each was saved from beside its cells.  `Save`
writes an object as a flush does, `AskAll` … `AskDelete` are the calls of a
query, `OwnSelect` runs a statement of the program's own, whose result it steps
through, drops or exports, row by row (`StartExport`, `WritesRow`,
`EndsExport`) with cancellation and streams that fail.  The server refuses a
text it cannot read; SQLite's step can fail at any row, and MySQL can lose a
result.  A `world` is a database with the type of one property; its values
are codes of characters, bytes and small integers whose widths
(`IntBits`, `Int64Bits`, digits of a float) are constants, so that a value too
wide for a `gint` or a `gint64` is among them.

## 3. What TLC checks

States are distinct states of the complete search; runs marked *violation*
stop at the counterexample.

| Run | Bounds | Shows | States |
|---|---|---|---|
| `connection_safety` | 2 operations of both kinds, 2 synchronous calls, a listener, PostgreSQL | `TypeOK`, `ReturnedOnce`, `AnswersInOrder`, `StatementKeepsItsHandle`, `SyncWaitsItsTurn`, `CloseDrains`, `ReportsSettle` | 3 008 600 |
| `connection_liveness` | 2 operations, 1 synchronous call, PostgreSQL | `KeepsPromise` (refinement of `AsyncCalls`), `CancelledInQueueNeverRuns`, `EveryCallIsAnswered`, `OwnerComesBack` | 102 751 |
| `stale_interrupt` | 2 operations, SQLite | *violation*: an interrupt can reach a closed handle | – |
| `transaction` | 2 handles, 2 names, 2 rows, 2 savepoints, all databases | `FlagsAgree`, `NothingLeftOpen`, `RolledBackLeavesNothing`, `CommittedIsDurable`, `AskedIsGiven` | 484 258 |
| `streams` | 3 calls, 1 cancelled, 3 rows in batches of 2, all databases | `DeliversRows` (refinement of `RowSource`), `CursorIsOwned`, `HandleIsReleased`, `OwnerGetsOn` | 163 658 |
| `session` | 2 objects, 2 ids, 2 adds each, all databases | `OneInsertPerAdd`, `FlushOwnsWhatItInserts`, `OneInstancePerRow`, `MapsAgree`, `FlushLosesNothing` | 1 296 504 |
| `session_keys` | 2 objects, 2 ids, SQLite | *violation*: the reverse table holds a freed key | – |
| `migrator` | 2 programs, 3 roll-outs of up to 3 migrations, 2 calls, 1 mishap (a death, a lost lock or an empty read), all databases | `ReadStaysTrue`, `HistoryIsPrefix`, `SchemaIsRecorded`, `SuccessIsCurrent`, `TargetRespected`, `CallsEnd` | 563 411 |
| `schema` | 4 declarations, 2 calls, 1 change by others, 1 failure, all databases | `AllMeansAll`, `DropsInOrder`, `CreatedIsDeclared`, `InspectorTellsTheTruth` | 223 578 |
| `builders` | statements of 4 comparisons and calls, 5 rows with NULLs, all dialects, values passed and written out | `ConditionsMean`, `ClausesSurvive` | 122 237 |
| `queries` | 17 worlds, 2 rows, 1 or 2 refining calls, up to 2 exports by one exporter | `AnswersAreRight`, `SavedIsLoaded`, `ExportIsWhole` | 296 259 |
| `truncated_export` | the same | *violation*: a lost MySQL result becomes an empty document | – |

Every property of a passing run has a mutant in `PROJECT.json`: a plausible bug
in a definition that models code, with which the same run finds the property
violated.  The operators for them stand next to what they mutate, marked as
mutants, and nothing else uses them.

Why the bounds suffice.  Two operations are one on the worker and one waiting,
submitted or cancelled, with a synchronous call behind them; the theorems
below say the same for any number.  Two transactions after each other show what
the first leaves to the second; two names and two savepoints show a name that
shadows itself and one released below another.  Three calls on a stream are a
query, a fetch and one that comes between two fetches, and batches of 2 out of
3 rows end in the middle of a batch.  Two objects and two ids are enough for an
id that returns and for one object's removal to take another's entry.  Two
programs with equal, extended and edited lists cover each pair of a reader and a
writer, and one mishap is what it takes for two
calls to act on different histories (the theorems hold for any number).  The declarations of `schema` have single
and double keys, keys that point forward, backward and to their own table, and
every type, a default that holds the word AUTOINCREMENT among them; a call has at
most three queries, so one change by another program
falls between any two of them.  Four comparisons and calls put a condition with
a negation below and above another one and a clause before and after it.  Two
rows make a query that finds none, one and more than one, with a page of each.

Deadlock is checked for the connection.  The other runs use up their bounded
rows, ids and calls and may then rightly stop.

### Fairness

- `Connection`: the worker's steps, the handlers' and what the owner does once
  it has been told to go on are weakly fair: the threads are scheduled and
  every statement ends.  `Dispatch` is strongly fair: the owner comes back to
  its main loop again and again, though calls in between may disable it.
  Nobody is made to call, cancel or close.
- `RowStream`: the worker's steps and what the owner does once he waits or
  finalizes are weakly fair, `Dispatch` is strongly fair, for the same reasons.
- `Migrator`: `Runs(r)` is strongly fair: PostgreSQL and MySQL queue for their
  locks and SQLite's busy handler tries again, so a program that waits is
  served though others come in between.
- `Session`, `Transaction`, `SchemaSync`, `Builders` and `Queries` have safety
  properties only, and no fairness.

`CallsEnd` excepts SQLite with an `up()` and a `down()` at the same time, and
MySQL once a lock was lost: no lock spans the calls then, and each can undo the
other's steps for ever.  The model shows that case; the documentation does not
promise otherwise.

### Where code and documentation disagree

Shown by a run:

1. `orm_connection_interrupt()` keeps a reference to the driver connection
   "held for the call", which does not keep the handle inside it
   (`stale_interrupt`).
2. "don't free key here, it's owned by objects table": GLib frees the key that
   was passed in when an equal one is there (`session_keys`).
3. "A short file that looks complete -- the one failure an export must never
   have": rows MySQL could not send look like a statement without rows
   (`truncated_export`).

Met while modelling, in the models, and excepted where a property would speak
of it:

- cancelling an operation in the queue interrupts whatever runs; "simply means
  it never runs" (`docs/async.md`);
- a closed connection reports IDLE after a job behind the close (`core/orm-enums.h`:
  "Open, with nothing in flight");
- a handler would "run off the main thread, which is a crash waiting for a busy
  afternoon -- so every emission is bounced into the context that owned the
  connection" (`engine/orm-connection.c`): `g_main_context_invoke_full()`
  bounces nothing while the default context is free, and the worker runs the
  handler itself (`SetState`);
- reports made at once, by a close on the owner's thread or by the worker, go past
  those that wait in the main context, and the listener is left with one of the
  latter: BUSY on an idle connection, or IDLE on a closed one (`overtaken`);
- the worker is not joined when it drops the connection's last reference itself
  (`orm_connection_close_async()`: "is joined when the connection is
  finalized");
- an empty batch is not always the end: also the fetch after one that failed
  or was cancelled gives one (`docs/async.md`); and other statements do run
  between two fetches;
- READ UNCOMMITTED on SQLite outlives its transaction (`docs/dialects.md`: "one
  transaction only"); `orm_transaction_commit()` returns TRUE when PostgreSQL
  rolled the transaction back;
- `create_all()` on `:memory:` fills a database that goes with its connection;
- SQLite's inspector takes AUTOINCREMENT anywhere in the CREATE TABLE for the
  keyword, as the comment above it admits (`Mistaken`); MySQL's takes a list of
  schemas that was lost for an empty one;
- a value written out with `compile(…, NULL)` is not read as that value: on MySQL a
  string with a backslash, on PostgreSQL bytes, which become a bit string, and
  a truth for a BOOLEAN column, which is 1 or 0 (`MiswrittenFor`); the quoting
  functions of the three DDL compilers double no quote either;
- "`down` target zero removes every applied migration" (`docs/migrations.md`):
  after a history that MySQL could not send it removes none and returns TRUE
  (`EmptyRead`, `blind`);
- "if quoting does not escape the quote character itself, a name containing one
  closes its own quoting" (`tests/test-quoting.c`): the dialects escape it, the
  builders have quoting functions of their own, which do not (`IsOddName`);
- MySQL marks a `UNIQUE NOT NULL` column as the key of a table that has none,
  and `orm_column_info_get_primary_key()` repeats it;
- the MySQL driver reads TEXT as a blob and tells another type than the value
  has, contrary to two of its comments;
- an `OrmQuery` writes every name in double quotes, every parameter as `?`, `IN`
  with one bare parameter, and `NOT IN`, `BETWEEN` and `ILIKE` as `=`; the
  builders' text has `?` on PostgreSQL too, where the dialect says `$1`; a session
  writes its own SQL in the same way, so nothing of it works on PostgreSQL, or on
  MySQL without `ANSI_QUOTES` (`Understands`);
- `orm_query_count()` answers 0 for rows that break off, `orm_query_delete()`
  always 0 ("Number of deleted objects"); `orm_query_all()` gives the rows
  before a failure without an error;
- `orm_query_*` makes new instances for rows the identity map knows; a session's
  `commit()` is no transaction; a `create_all()` that fails half-way leaves what
  it made; a synchronous call that meets a connection closed in the queue fails
  without setting its `GError`; MySQL may drop the migrator's lock session
  unnoticed (`LosesLock`);
- the table of a class whose name has two capitals in a row is named one way
  by `orm_mapper_new()` and another by `orm_mapper_new_from_serializable()`.

## 4. What is proved

The theorems hold for every number of operations and calls, every driver and
every mix of kinds; of transactions, rows and savepoints; of calls on a stream,
its rows and the rows asked for at a time; of objects, keys and adds; of programs,
releases and migrations; and for every set of declarations and whatever other
programs send to the database.  The assumptions are the modules' `ASSUME`s:

- bounds are natural numbers (a batch has at least one row), markers of the queue,
  of a free lock or of a freed key are none of the things they stand beside, and
  the databases are the ones the drivers are for;
- a migrator's list has increasing versions, which `orm_migrator_new()` insists
  on;
- a metadata is a list whose tables differ in name, as `add_table()` sees to, and
  foreign keys have the fields that `orm_foreign_key_new()` gives them;
- for the inspectors, the names there are have an order in which `ORDER BY` puts
  them (`AlphabetAssumption`), and every CREATE statement, the program's or another's,
  is one a database would take (`StatementsAssumption`: columns, keys and indexes
  of one table differ in name, types are not empty, only an integer key fills
  itself on SQLite, a foreign key has as many columns on both sides).  TLC checks
  both for the declarations of the run.

**`ConnectionProofs`.**  `Invariance` proves the conjunction `IInv`:

- `WorkerHoldsOneJob`: where the worker is says what it holds;
- `AnsweredByExchange`: `returns` counts the one exchange of `answered`, and
  comes before the end of the job;
- `AnsweredEarlyIsCancelled`, `HandlersAreScoped`: who is answered before his
  turn was cancelled, and handlers live between submission and end;
- `StagesAreOrdered`, `QueueIsInOrder`: operations are submitted, queued and
  taken in order, and only the last entry can be a rendezvous or the sentinel;
- `OwnerWaits`: the owner's join is matched by a sentinel or a dead thread;
- `HandleOutlivesPointer`: the handle goes after the pointer.

None of the safety properties is inductive by itself: that a task is returned
once needs that `answered` and `returns` move together, the order of answers
needs the order of the queue, and that a close drains needs that the sentinel
is the last entry.  From `IInv` follow `TypeCorrect`, `NoTaskReturnedTwice`
(`ReturnedOnce`), `OrderOfAnswers` (`AnswersInOrder`), `NoStatementCutOff`
(`StatementKeepsItsHandle`), `SyncIsBehindTheQueue` (`SyncWaitsItsTurn`) and
`CloseTakesHandleLast` (`CloseDrains`).

The second part of the module goes on from `IInv` to what the owner's main loop
is handed.  `DInv` says that a result to be answered is one the statement may have
(`ResultsAreAnswers`), that what was returned and not handed over waits in the
main context once, in order (`AnswersWait`), and that the last report waiting, or
the last one made when none waits, is the state, unless one was made past others
that waited (`ReportsCatchUp`).  Every step is one of four kinds (quiet,
a report, an answer, a dispatch), and the invariant is proved for these.
`ReportsReachTheState` (`ReportsSettle`) follows.  `CancelledNeverRuns`
(`CancelledInQueueNeverRuns`) proves that what is cancelled in the queue stays
cancelled until it is done.  `PromiseIsKept` is the refinement: under `IInv` and
`DInv` each step of the connection is a step of `AsyncCalls` or a stutter, with
`CallPhase`, `CancelledCalls` and `Visitor` for the calls, the cancelled ones and
the synchronous caller.  That calls are taken in order is `QueueIsInOrder`; that a
callback's verdict is allowed is `ResultsAreAnswers`.

**`TransactionProofs`.**  One lemma per statement says what it may do to the
database's side (`BeginEffect`, `CommitEffect`, `RollbackEffect` …: what becomes
of the transaction, the rows and the disk), so that the steps of the library
are proved from these and not from three databases at a time.  The inductive
invariant adds to the properties

- `Sound(db)`: a session without a transaction holds nothing, and a savepoint
  has no more rows than what came after it;
- `RowsAreTold`: every row there is was reported to a caller as written;
- `LostIsEnded`: a server that has gone has ended what was open;
- `Accounted(h)`: while a transaction is active and nothing has failed in it,
  the database has a real transaction open, not SQLite's implicit one; its rows
  reach the disk early only if they were written after a failure.

`Accounted` is what `RolledBackLeavesNothing` needs: a rollback takes back what
is in the transaction, so nothing may have left it before.  From it follow
`TransactionTypes`, `FlagsAlwaysAgree`, `NothingIsLeftOpen` and
`RolledBackIsGone`.  `NothingLeftOpen` needs the case of
`begin_transaction_with_isolation()` whose second statement fails and whose
ROLLBACK is then refused, which is why it speaks of `stuck`.

Its second part proves `CommitsAreDurable` (`CommittedIsDurable`) and
`AskedLevelIsGiven` (`AskedIsGiven`).  A caller and the database each keep a list
of savepoints, and ROLLBACK TO means the last of a name.  `Matches` says that the
caller's list is the end of the database's, name by name and row by row; below it
may be savepoints of an earlier transaction whose ROLLBACK was refused.  So both
lists are cut at the same place (`CutMatches`), and what is pending is what the
caller has kept (`Pending`); once committed it stays, since no statement takes a
row off the disk (`Steady`).  For the level it is enough on MySQL that the
session's is the one the connection remembers and that none waits for the next
transaction (`LevelIsKnown`).

**`RowStreamProofs`.**  The invariant has two halves.  `StreamInv` says who holds
what:

- `CallsAreMade`, `CallsMoveOn`: a call is in the queue once, then with the
  worker, then in the inbox once, and is answered early only if cancelled;
- `StreamIsHeld`: a stream comes from the query alone, is live as long as anyone
  holds it, and is finalized by one thread, with at most one rendezvous queued;
- `CursorIsThere`: the cursor is open while a fetch may need it, and has an
  owner when it is open;
- `HandleIsThere`: who finalizes the connection finds nothing that needs it.

`CursorIsAlwaysOwned` and `HandleIsAlwaysReleased` follow.  `RowInv` says where
the rows are: in order in what was given, in the answers that wait for their
callback, in the worker's hands and behind the cursor (`RowsAreInOrder`), and
none missing between them as long as no answer on the way is a failure
(`NothingSkipped`).  That makes each callback a step of `RowSource` or a
stutter, which is `RowsAreDelivered`: `Spec => DeliversRows`.  All but three
actions move no row (`QuietStep`) and share one argument; a row read, a fetch
answered and a callback have their own.  That an empty batch is the end rests on
`CursorIsThere`: a fetch that finds no cursor was cancelled, failed or closed
before, and of that the reader is told, or knows.

**`SessionProofs`.**  `WorkIsOwed` says that an object waits for an INSERT because
of an add that had none yet, is held while it waits, and that nothing waits once
the deletes are run: `AddsAreInsertedOnce` and `FlushOwns` follow, and, step by
step, `FlushKeepsItsWork` (`FlushLosesNothing`).  `TablesAgree` (`MapsAgree`) needs
that a key that is given out is new to the identity map, which holds where the
database counts on after a rollback (`KeysWereGiven`).  `RowsHaveOneInstance` needs
more: that an object in good standing is the one its row's key leads to
(`Found`), and that its key is its row (`KeyIsRow`).

**`MigratorProofs`.**  The locks come first: `Exclusion` says how long each
program keeps the lock of the call, or SQLite's write reservation; on MySQL, that
as long as nothing is `breached` no two programs are past the lock at once, though
it may be gone.  Under it the history stands still while a program acts on it, so
that the step in hand is the one the history calls for (`StepIsDue`), or, after
an empty read, the first of the list, whose record the primary key refuses
(`Refused`) unless the list begins with another version.  That a step is one of
its program's list holds always (`StepIsListed`), and with it `TargetsRespected`
without exception; that only MySQL goes wrong is `OnlyMySqlErrs`.  With it every change of the history
leaves a beginning of that program's list (`HistoryStaysPrefix`), the schema
follows the record (`SchemaStaysRecorded`; on MySQL, without transactions, by
`HasHappened`), and a call that returns TRUE has what it was asked for
(`SuccessIsTrue`).  `ReadsStayTrue` follows.

**`SchemaSyncProofs`.**  What a CREATE or DROP of the three compilers makes of a
database is proved once (`Creating`, `Dropping`, `Indexing`).  `CreatedSoFar` and
`DroppedSoFar` say how far a call has come, which gives `SuccessIsWhole`
(`AllMeansAll`).  `ReverseOrderDrops` (`DropsInOrder`) needs that every table in
the database is one of the first k declared and points only where its declaration
does, on PostgreSQL and MySQL only to tables declared up to it (`AsDeclared`): then
nothing that is left points to the last of them, and its DROP is not refused
(`DropIsAccepted`).  On SQLite, which checks nothing when a table is created, it
needs what the property supposes, that no declaration points forward or that
there are no rows.

**`InspectorProofs`** is about one database that does not change, whatever
tables it has.  Rows come in any order that `ORDER BY` allows.  A list is told by
the positions of its elements: an order of a finite set has exactly one list
(`InOrderLists`, `OnlyOrder`), rows that follow the elements of several lists fall
apart into one run for each of them (`RunsOfPlaces`), and what SQLite gives in no
order becomes that once it is sorted by id and place (`SqliteKeyRowsSorted`).  With
these there is a lemma for every call on every database (`PostgresColumnsTold`,
`MySqlIndexesTold`, `SqliteForeignKeysTold` …), which says what the call makes of
the answers to its queries.

Back in `SchemaSyncProofs`, `InspectorsTellTheTruth` (`InspectorTellsTheTruth`) says:
for any declarations, any statements of other programs and any order of rows, an
inspector that returns a result tells what is there, the false AUTOINCREMENT of
`Mistaken` included, unless the schema changed between two of its queries or MySQL
handed over no rows and no error.  The inductive invariant `TruthInv` says

- that the catalogue holds together (`IsDatabase`): names are different where the
  inspectors tell things apart by name, keys are columns of their table, index and
  foreign key lists are not empty and equally long on both sides.  CREATE, DROP, a
  dropped index, a view, rows and counts keep it so (`ExecutedHolds`, `ViewAdded`,
  `RowsChange`);
- that what a call has gathered, as long as nothing has changed since it began, is
  what its queries would be answered now, and that each query follows from the
  answers before it (`Gathered`).

Without the first the second says too little: two indexes of one name would be one
run of rows.  The last answer makes the call `Settled`, and `SettledIsTrue` brings in
`InspectorProofs`; no other step returns a result (`OnlyAskNextReturns`).

`CreatedIsAsDeclared` (`CreatedIsDeclared`) puts the compilers and the inspectors
together: what a `create_all()` that met nobody has made is told as it was declared,
on each database, for every declaration.  The inductive invariant `MadeInv` says that
each table whose turn has come is as its statement made it, rows and counts aside
(`AsMade`): its name was free when its turn came, since what was there is `AsDeclared`
and names differ, and the statement had no second key, or it would have been refused.
The rest is about one table: what a compiler writes of a column and of a key
(`ColumnsAreWritten`, `KeyIsWritten`), what the database stores of it
(`StoredAsDeclared`; `LoneIsShown` for the UNIQUE column that MySQL shows as a key),
that a type written under either of its names is read as the type that was declared
(`TypesComeBack`), and what the inspector tells (`ColumnIsDeclared`, `MadeIsDeclared`).
Of the constants it needs that the columns of a declaration have a known type, or
none, and flags that are TRUE or FALSE (`DeclarationsAssumption`).

The proofs corrected the model, which no run had shown.  Clauses of a `CASE`
in the answers to catalogue queries overlapped, so that TLC's choice of the first one
was not what the definition says; each database has an operator of its own now.
A CREATE TABLE that makes an index of a name already taken was not refused
(`TakenName`).  And `CreatedIsDeclared` was false of declarations no run had: a
column that is to fill itself and is no key (SQLite has no word for it, PostgreSQL
makes it an integer and NOT NULL), a default that is a sequence, and a second UNIQUE
NOT NULL column of a MySQL table without a key.  `DeclaredColumn` says now what comes
back of these.

Only model-checked:

- all liveness: `EveryCallIsAnswered`, `OwnerComesBack`, `OwnerGetsOn`, `CallsEnd`,
  and the fairness of `AsyncCalls` in `KeepsPromise`, since liveness under
  fairness and ENABLED are beyond the prover as installed;
- everything about `Builders` and `Queries`: the grammar, the compilers and the
  exporters recurse over their data, and induction over data cannot be done here.

## 5. What is not modelled, and the plan

Not modelled and not planned: `OrmRelationship` (settings nobody acts on), the
driver registry and the dialects' registry, `parse_url` and the opening of
connections, the wording of errors, logging, examples, containers.

Partly modelled:

- drivers: a connection is there from the start, and error codes are left out,
  with them the state FAILED, which no driver's error leads to;
- migrator: two migrators on one connection, which the documentation rules out,
  and the `migration-failed` signal;
- engine: everything but `create_all` and `drop_all`.

Left out inside what is modelled: MySQL's implicit commit at DDL; two
connections with rows in common; objects of queries that are given to a session
without ever having been attached; enumerations, dates as calendars and the
words of a moment; floats beyond their number of digits; schema names (the
inspectors' calls are for the current schema).

Next, in order of importance:

1. Connection and stream as one composition, in place of the coarser worker in
   `RowStream`.
2. Opening, error codes and FAILED, for which the drivers' codes would have to
   be told apart.
