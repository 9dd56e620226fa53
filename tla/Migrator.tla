-------------------------------- MODULE Migrator --------------------------------
(***************************************************************************)
(* Programs that migrate the same database at the same time: each holds an *)
(* OrmMigrator with its own release's list of migrations and calls up(),   *)
(* down() and status() on it (src/migration/orm-migrator.c).  Statements   *)
(* fail, programs die between any two statements and are started again,    *)
(* and the three databases differ in what a transaction and a lock cover:  *)
(*                                                                         *)
(*  - postgres: an advisory lock for the whole call, one transaction per   *)
(*    migration;                                                           *)
(*  - mysql: a table lock for the whole call, held by a second connection, *)
(*    and no transaction at all.  That connection may be lost unnoticed,   *)
(*    and a read of the history may come back empty without an error;      *)
(*  - sqlite: no lock for the call, but BEGIN IMMEDIATE, which makes the   *)
(*    transaction of each migration the only one that writes.              *)
(*                                                                         *)
(* A migration stands for its version, name and checksum.  MaxCalls and    *)
(* MaxMishaps bound the calls, and the deaths, lost locks and empty reads; *)
(* the code has no such limits.                                            *)
(***************************************************************************)
EXTENDS Integers, Sequences, FiniteSets

CONSTANTS
    Runners,      \* the programs
    Migrations,   \* migrations of any release
    Version,      \* [Migrations -> Nat \ {0}]
    Reversible,   \* the migrations with a down operation
    Deployments,  \* which program comes with which list
    Backends,     \* the databases in question
    MaxCalls,     \* calls the programs make (bound)
    MaxMishaps,   \* deaths, lost locks and empty reads (bound)
    Nobody,       \* the lock is free
    Nothing       \* no migration in hand

ASSUME VersionAssumption    == Version \in [Migrations -> Nat \ {0}]
ASSUME ReversibleAssumption == Reversible \subseteq Migrations
ASSUME BackendAssumption    == Backends \subseteq {"sqlite", "postgres", "mysql"}
ASSUME BoundAssumption      == MaxCalls \in Nat /\ MaxMishaps \in Nat
ASSUME NobodyAssumption     == Nobody \notin Runners /\ Nothing \notin Migrations

(* orm_migrator_new() refuses any other list.                              *)
ASSUME IncreasingAssumption ==
    \A d \in Deployments : \A r \in Runners :
        /\ d[r] \in Seq(Migrations)
        /\ \A i, j \in 1 .. Len(d[r]) : i < j => Version[d[r][i]] < Version[d[r][j]]

VARIABLES
    backend,    \* the database
    list,       \* [Runners -> Seq(Migrations)], self->migrations
    history,    \* schema_migrations, as committed
    schema,     \* how often each migration is in effect, as committed
    lock,       \* who holds the advisory lock or the table lock
    writer,     \* who holds SQLite's write reservation
    pc,         \* where each program's run() is
    call,       \* what it was called for: a direction and a target, which
                \* is the place of its version in the list, or 0
    seen,       \* the history it read last
    step,       \* the migration it has in hand
    ok,         \* whether the call is about to succeed
    calls, mishaps,
    doubt,      \* ghost: migrations that MySQL may have applied in part
    blind,      \* ghost: programs whose last read came back empty and was not
    breached    \* ghost: two programs were past MySQL's lock at once, or one
                \* recorded a step that it chose from such a read

vars == <<backend, list, history, schema, lock, writer, pc, call, seen, step,
          ok, calls, mishaps, doubt, blind, breached>>
database == <<history, schema, doubt>>
program  == <<call, calls, mishaps>>
ghosts   == <<blind, breached>>

-------------------------------------------------------------------------------
Direction == {"up", "down", "status"}
NoCall == [dir |-> "status", target |-> 0]

(* The first n migrations of a program's list.                             *)
Prefix(r, n) == {list[r][i] : i \in 1 .. n}

(* Some release may have got somewhere already.                            *)
Init ==
    /\ backend \in Backends
    /\ list \in Deployments
    /\ \E r \in Runners : \E n \in 0 .. Len(list[r]) : history = Prefix(r, n)
    /\ schema = [m \in Migrations |-> IF m \in history THEN 1 ELSE 0]
    /\ doubt = {} /\ blind = {} /\ breached = FALSE
    /\ lock = Nobody /\ writer = Nobody
    /\ pc = [r \in Runners |-> "idle"]
    /\ call = [r \in Runners |-> NoCall]
    /\ seen = [r \in Runners |-> {}]
    /\ step = [r \in Runners |-> Nothing]
    /\ ok = [r \in Runners |-> FALSE]
    /\ calls = 0
    /\ mishaps = 0

-------------------------------------------------------------------------------
(* Helpers.                                                                *)

Transactional == backend # "mysql"

Goes(r, to) == pc' = [pc EXCEPT ![r] = to]

(* run() is over, and its local variables with it.                         *)
Returns(r) ==
    /\ call' = [call EXCEPT ![r] = NoCall]
    /\ seen' = [seen EXCEPT ![r] = {}]
    /\ step' = [step EXCEPT ![r] = Nothing]
    /\ ok' = [ok EXCEPT ![r] = FALSE]
    /\ blind' = blind \ {r}
    /\ Goes(r, "idle")

(* read_history(): the rows are the first so many of the list, by version, *)
(* name and checksum.                                                      *)
OnlyCounted(r) == Cardinality(history) <= Len(list[r])    \* mutant: no checksum
Matches(r) == \E n \in 0 .. Len(list[r]) : history = Prefix(r, n)

(* How many migrations are to be in place at the end: 0 means all of them  *)
(* for up() and none for down().                                           *)
AlwaysAll(r) == IF call[r].dir = "up" THEN Len(list[r]) ELSE call[r].target \* mutant
OneShort(r)  == IF call[r].target = 0 THEN 0 ELSE call[r].target - 1        \* mutant
Limit(r) == IF call[r].dir = "up" /\ call[r].target = 0
            THEN Len(list[r]) ELSE call[r].target

MoreToDo(r, n) == \/ call[r].dir = "up"   /\ n < Limit(r)
                  \/ call[r].dir = "down" /\ n > Limit(r)

NextStep(r, n) == list[r][IF call[r].dir = "up" THEN n + 1 ELSE n]

(* What the operation does to the schema and record_migration() to the     *)
(* history.                                                                *)
Applied(r, m) == [schema EXCEPT ![m] = IF call[r].dir = "up" THEN @ + 1 ELSE @ - 1]

SameVersion(m) == {x \in history : Version[x] = Version[m]}
NeverTakenOff(r, m) == history \cup {m}              \* mutant: no DELETE
Recorded(r, m) == IF call[r].dir = "up" THEN history \cup {m}
                                        ELSE history \ SameVersion(m)

(* begin_migration(): on SQLite it waits for the write reservation.        *)
Deferred(r) == UNCHANGED writer                     \* mutant: a plain BEGIN
Reserve(r) == IF backend = "sqlite" THEN writer = Nobody /\ writer' = r
                                    ELSE UNCHANGED writer

Release(r) == writer' = IF writer = r THEN Nobody ELSE writer

(* Where a program acts under the lock of its call.                        *)
Inside == {"prepare", "begin", "read", "step", "record", "commit"}

(* The end of the call gives the lock back, whichever way it ended.        *)
UnlocksWhenOk(r) == lock' = IF lock = r /\ ok[r] THEN Nobody ELSE lock  \* mutant
Unlocks(r) == lock' = IF lock = r THEN Nobody ELSE lock

(* Where a failure in the middle of a step leaves a database that cannot   *)
(* take it back.  The operation may have had its effect or not.            *)
CutOff(r) ==
    IF Transactional \/ pc[r] \notin {"step", "record"}
    THEN UNCHANGED <<schema, doubt>>
    ELSE /\ schema' \in IF pc[r] = "step" THEN {schema, Applied(r, step[r])}
                                          ELSE {schema}
         /\ doubt' = doubt \cup {step[r]}

-------------------------------------------------------------------------------
(* run(), statement by statement.                                          *)

(* The checks that come first refuse an unknown target, so t is one of the *)
(* list; 0 means the latest for up() and the empty database for down().    *)
Call(r, d, t) ==
    /\ pc[r] = "idle"
    /\ calls < MaxCalls
    /\ call' = [call EXCEPT ![r] = [dir |-> d, target |-> t]]
    /\ calls' = calls + 1
    /\ Goes(r, "lock")
    /\ UNCHANGED <<backend, list, database, lock, writer, seen, step, ok, mishaps,
                   ghosts>>

TakesLock(r) ==
    /\ pc[r] = "lock"
    /\ IF backend = "sqlite" THEN UNCHANGED lock
                             ELSE lock = Nobody /\ lock' = r
    /\ breached' = (breached \/ (backend = "mysql"
                                 /\ \E s \in Runners : pc[s] \in Inside))
    /\ Goes(r, "prepare")
    /\ UNCHANGED <<backend, list, database, writer, program, seen, step, ok, blind>>

(* The session that holds the lock is lost.  On PostgreSQL it is the       *)
(* session of the connection, and every statement after it fails; on MySQL *)
(* it is another one, and nothing in the call asks after it.               *)
LosesLock(r) ==
    /\ lock = r
    /\ mishaps < MaxMishaps
    /\ mishaps' = mishaps + 1
    /\ lock' = Nobody
    /\ IF backend = "postgres" /\ pc[r] # "leave" THEN Goes(r, "rollback")
                                                  ELSE UNCHANGED pc
    /\ UNCHANGED <<backend, list, database, writer, call, calls, seen, step, ok,
                   ghosts>>

(* CREATE TABLE IF NOT EXISTS schema_migrations, in a transaction of its   *)
(* own: nothing of it can be told from having been there before.           *)
Prepares(r) ==
    /\ pc[r] = "prepare"
    /\ writer = Nobody
    /\ Goes(r, "begin")
    /\ UNCHANGED <<backend, list, database, lock, writer, program, seen, step, ok,
                   ghosts>>

Begins(r) ==
    /\ pc[r] = "begin"
    /\ Reserve(r)
    /\ Goes(r, "read")
    /\ UNCHANGED <<backend, list, database, lock, program, seen, step, ok, ghosts>>

(* A history that is not the beginning of the list ends the call.          *)
Mismatches(r) ==
    /\ pc[r] = "read"
    /\ ~Matches(r)
    /\ Goes(r, "rollback")
    /\ UNCHANGED <<backend, list, database, lock, writer, program, seen, step, ok,
                   ghosts>>

(* The rows are checked against the list, so what is read is a beginning   *)
(* of it.  MySQL's driver takes a mysql_store_result() that failed for a   *)
(* statement without rows: the history reads as empty, with no error.      *)
GoodRead(r, h) ==
    /\ Matches(r)
    /\ h = history
    /\ blind' = blind \ {r}
    /\ UNCHANGED mishaps

EmptyRead(r, h) ==
    /\ backend = "mysql" /\ history # {}
    /\ h = {}
    /\ mishaps < MaxMishaps
    /\ mishaps' = mishaps + 1
    /\ blind' = blind \cup {r}

Reads(r, h) ==
    /\ pc[r] = "read"
    /\ GoodRead(r, h) \/ EmptyRead(r, h)
    /\ seen' = [seen EXCEPT ![r] = h]

Succeeds(r) ==
    \E h \in {history, {}} :
        /\ Reads(r, h)
        /\ ~MoreToDo(r, Cardinality(h))
        /\ Release(r)
        /\ ok' = [ok EXCEPT ![r] = TRUE]
        /\ Goes(r, "leave")
        /\ UNCHANGED <<backend, list, database, lock, call, calls, step, breached>>

Chooses(r) ==
    \E h \in {history, {}} :
        LET m == NextStep(r, Cardinality(h)) IN
        /\ Reads(r, h)
        /\ MoreToDo(r, Cardinality(h))
        /\ step' = [step EXCEPT ![r] = m]
        /\ Goes(r, IF call[r].dir = "down" /\ m \notin Reversible THEN "rollback"
                                                                  ELSE "step")
        /\ UNCHANGED <<backend, list, database, lock, writer, call, calls, ok,
                       breached>>

(* The callback or the statement of the migration.  Without a transaction  *)
(* it has its effect at once.                                              *)
Performs(r) ==
    /\ pc[r] = "step"
    /\ schema' = IF Transactional THEN schema ELSE Applied(r, step[r])
    /\ Goes(r, "record")
    /\ UNCHANGED <<backend, list, history, lock, writer, program, seen, step, ok,
                   doubt, ghosts>>

(* record_migration(): the version is a primary key.                       *)
Records(r) ==
    /\ pc[r] = "record"
    /\ call[r].dir = "up" => SameVersion(step[r]) = {}
    /\ history' = IF Transactional THEN history ELSE Recorded(r, step[r])
    /\ breached' = (breached \/ r \in blind)
    /\ Goes(r, "commit")
    /\ UNCHANGED <<backend, list, schema, lock, writer, program, seen, step, ok,
                   doubt, blind>>

(* COMMIT: both at once.  Then "migration-applied" is emitted.             *)
TakesEffect(r) ==
    IF Transactional
    THEN history' = Recorded(r, step[r]) /\ schema' = Applied(r, step[r])
    ELSE UNCHANGED <<history, schema>>

Commits(r) ==
    /\ pc[r] = "commit"
    /\ TakesEffect(r)
    /\ Release(r)
    /\ step' = [step EXCEPT ![r] = Nothing]
    /\ Goes(r, "begin")
    /\ UNCHANGED <<backend, list, lock, program, seen, ok, doubt, ghosts>>

(* Any statement may fail, BEGIN IMMEDIATE and the locks by timing out,    *)
(* and all that follow if the connection is lost.  Without a transaction   *)
(* there is no COMMIT to fail.                                             *)
Fails(r) ==
    /\ pc[r] \in {"lock", "prepare", "begin", "read", "step", "record"}
                 \cup IF Transactional THEN {"commit"} ELSE {}
    /\ CutOff(r)
    /\ Goes(r, "rollback")
    /\ UNCHANGED <<backend, list, history, lock, writer, program, seen, step, ok,
                   ghosts>>

(* A version that is on record already is refused.                         *)
Refused(r) ==
    /\ pc[r] = "record" /\ call[r].dir = "up" /\ SameVersion(step[r]) # {}
    /\ Fails(r)

(* A statement whose answer is lost looks failed and is not: the COMMIT on *)
(* PostgreSQL, the record itself on MySQL.                                 *)
CommitsUnheard(r) ==
    /\ backend = "postgres"
    /\ pc[r] = "commit"
    /\ TakesEffect(r)
    /\ Goes(r, "rollback")
    /\ UNCHANGED <<backend, list, lock, writer, program, seen, step, ok, doubt, ghosts>>

RecordsUnheard(r) ==
    /\ backend = "mysql"
    /\ pc[r] = "record"
    /\ call[r].dir = "up" => SameVersion(step[r]) = {}
    /\ history' = Recorded(r, step[r])
    /\ breached' = (breached \/ r \in blind)
    /\ Goes(r, "rollback")
    /\ UNCHANGED <<backend, list, schema, lock, writer, program, seen, step, ok, doubt,
                   blind>>

(* ROLLBACK or, if that fails too, closing the connection.                 *)
RollsBack(r) ==
    /\ pc[r] = "rollback"
    /\ Release(r)
    /\ Goes(r, "leave")
    /\ UNCHANGED <<backend, list, database, lock, program, seen, step, ok, ghosts>>

(* Unlocking or, if that fails, closing the connection; the locker's       *)
(* connection is closed; SQLite's busy timeout is restored.                *)
Leaves(r) ==
    /\ pc[r] = "leave"
    /\ Unlocks(r)
    /\ Returns(r)
    /\ UNCHANGED <<backend, list, database, writer, calls, mishaps, breached>>

(* The program dies, and the server drops its transaction and its locks.   *)
Crash(r) ==
    /\ pc[r] # "idle"
    /\ mishaps < MaxMishaps
    /\ mishaps' = mishaps + 1
    /\ CutOff(r)
    /\ lock' = IF lock = r THEN Nobody ELSE lock
    /\ Release(r)
    /\ Returns(r)
    /\ UNCHANGED <<backend, list, history, calls, breached>>

Runs(r) ==
    \/ TakesLock(r) \/ Prepares(r) \/ Begins(r)
    \/ Mismatches(r) \/ Succeeds(r) \/ Chooses(r)
    \/ Performs(r) \/ Records(r) \/ Refused(r) \/ Commits(r)
    \/ RollsBack(r) \/ Leaves(r)

-------------------------------------------------------------------------------
Next ==
    \E r \in Runners :
        \/ \E d \in Direction : \E t \in 0 .. Len(list[r]) : Call(r, d, t)
        \/ Runs(r) \/ Fails(r) \/ CommitsUnheard(r) \/ RecordsUnheard(r)
        \/ LosesLock(r) \/ Crash(r)

(* A program that is not dead goes on.  Locks are granted in turn (SF):    *)
(* the servers queue for them, and SQLite's busy handler tries again.      *)
Fairness == \A r \in Runners : SF_vars(Runs(r))

Spec == Init /\ [][Next]_vars /\ Fairness

-------------------------------------------------------------------------------
(* Properties.                                                             *)

(* What a program read in read_history() still holds when it carries the   *)
(* step out and records it, whoever else migrates: "history is rechecked   *)
(* after every lock acquisition" (docs/migrations.md).  Not so on MySQL    *)
(* for a read that came back empty, or once a lost lock let two programs   *)
(* in at once; the next three properties leave these aside as well.        *)
ReadStaysTrue ==
    \A r \in Runners :
        pc[r] \in {"step", "record"} /\ r \notin blind /\ ~breached => seen[r] = history

(* What is on record is the beginning of some release's list, in its own   *)
(* edition of every migration: no mixture of two releases.  An empty read  *)
(* alone does not break this: the record would have to be accepted.        *)
HistoryIsPrefix ==
    ~breached =>
        \E r \in Runners : \E n \in 0 .. Len(list[r]) : history = Prefix(r, n)

(* A migration is in effect exactly once if it is on record and not at all *)
(* if it is not, however many programs ran, failed or died.  On MySQL this *)
(* leaves aside the steps that were cut off ("repair that partial state    *)
(* before retrying", docs/migrations.md) and the one being recorded.       *)
InHand(m) == \E r \in Runners : step[r] = m /\ pc[r] = "record"

SchemaIsRecorded ==
    \A m \in Migrations :
        Transactional \/ (m \notin doubt /\ ~InHand(m) /\ ~breached)
            => schema[m] = IF m \in history THEN 1 ELSE 0

(* A call that succeeds tells the truth: where the lock spans the call,    *)
(* what it asked for is in place until it lets go of the lock.             *)
Wanted(r) == IF call[r].target = 0 THEN Len(list[r]) ELSE call[r].target

SuccessIsCurrent ==
    \A r \in Runners :
        pc[r] = "leave" /\ ok[r] /\ lock = r /\ r \notin blind /\ ~breached =>
            /\ call[r].dir = "up"   => Prefix(r, Wanted(r)) \subseteq history
            /\ call[r].dir = "down" => history \subseteq Prefix(r, call[r].target)

(* No migration is recorded or taken off the record that no call asked     *)
(* for: up() stops at its target, down() above it, status() does nothing.  *)
TargetRespected ==
    [][\A m \in Migrations :
         /\ m \in history' \ history =>
              \E r \in Runners : /\ call[r].dir = "up"
                                 /\ m \in Prefix(r, Wanted(r))
         /\ m \in history \ history' =>
              \E r \in Runners : /\ call[r].dir = "down"
                                 /\ m \notin Prefix(r, call[r].target)]_vars

(* Every call comes to its end, one way or the other, and leaves no lock   *)
(* that another would wait for.  On SQLite, and on MySQL once a lock was   *)
(* lost, an up() and a down() that run into each other may undo each       *)
(* other's steps for ever.                                                 *)
Opposed ==
    \E r, s \in Runners : /\ pc[r] # "idle" /\ call[r].dir = "up"
                          /\ pc[s] # "idle" /\ call[s].dir = "down"

CallsEnd ==
    \A r \in Runners :
        <>[](pc[r] # "idle") => <>[](Opposed /\ (backend = "sqlite" \/ breached))

================================================================================
