------------------------------ MODULE Transaction ------------------------------
(***************************************************************************)
(* The transactions of one open connection: OrmTransaction and the part of *)
(* OrmConnection that begins one, at an isolation level or at the          *)
(* session's (src/engine/orm-transaction.c, src/engine/orm-connection.c),  *)
(* over the session that SQLite, PostgreSQL or MySQL keeps for it.         *)
(*                                                                         *)
(* The library sends BEGIN, SAVEPOINT, COMMIT and so on as text and        *)
(* remembers two things: in_transaction on the connection and is_active on *)
(* the OrmTransaction.  What the database makes of the text is the record  *)
(* db below; each statement is an operator that gives the set of its       *)
(* possible outcomes, an answer and the session after it.  The databases   *)
(* differ in most of them.  A call of the library is one action: nothing   *)
(* else uses the connection while it lasts.                                *)
(*                                                                         *)
(* MaxRows and MaxMarks bound the rows written and the savepoints kept;    *)
(* the code has no such limits.                                            *)
(***************************************************************************)
EXTENDS Integers, Sequences, FiniteSets

CONSTANTS
    Handles,    \* OrmTransaction objects
    Backends,   \* the databases in question
    Asked,      \* the isolation levels the program asks for
    Names,      \* names of savepoints
    None,       \* no isolation level
    MaxRows,    \* rows written (bound)
    MaxMarks    \* savepoints at a time (bound)

Levels == {"read uncommitted", "read committed", "repeatable read", "serializable"}

ASSUME AskedAssumption   == Asked \subseteq Levels
ASSUME BackendAssumption == Backends \subseteq {"sqlite", "postgres", "mysql"}
ASSUME BoundAssumption   == MaxRows \in Nat /\ MaxMarks \in Nat
ASSUME NoneAssumption    == None \notin Levels

VARIABLES
    backend,    \* the database
    open,       \* self->is_open
    inTx,       \* self->in_transaction
    level,      \* self->isolation_level, as get_isolation_level() tells it
    db,         \* the database's side of the connection
    state,      \* of each OrmTransaction; "active" is is_active
    verdict,    \* what its caller was told in the end
    \* the rest is what the callers know, for the properties
    plain,      \* began without naming a level
    wanted,     \* the level its caller counts on
    given,      \* the level the database gave it
    wrote,      \* rows the caller was told are written
    kept,       \* those it has not rolled back to a savepoint since
    marks,      \* its savepoints, with what was kept at each
    trouble     \* "error": a statement failed, "wrote": and rows came after

vars == <<backend, open, inTx, level, db, state, verdict,
          plain, wanted, given, wrote, kept, marks, trouble>>

begun == <<plain, wanted, given>>
rows == <<wrote, kept>>

Rows == 1 .. MaxRows

(***************************************************************************)
(* The database's side.  tx is the transaction: "implicit" is one that     *)
(* SQLite opened for a SAVEPOINT and "aborted" one in which PostgreSQL     *)
(* refuses everything but its end.                                         *)
(***************************************************************************)
Saved   == [name: Names, rows: SUBSET Rows, session: Levels]   \* a savepoint
Noticed == [name: Names, kept: SUBSET Rows]        \* and what its caller knows

Sessions ==
    [tx: {"none", "open", "implicit", "aborted"},
     disk: SUBSET Rows, rows: SUBSET Rows,
     frames: Seq(Saved),
     session: Levels,               \* the level of the next transaction
     once: Levels \cup {None},      \* and that of the next one only
     running: Levels \cup {None},   \* the level of this one
     before: Levels,                \* session when it began
     lost: BOOLEAN,                 \* the server has gone
     stuck: BOOLEAN]                \* ghost: a ROLLBACK was refused

Default == CASE backend = "sqlite"   -> "serializable"
             [] backend = "postgres" -> "read committed"
             [] backend = "mysql"    -> "repeatable read"

Ended(d, disk, session) ==
    [d EXCEPT !.tx = "none", !.disk = disk, !.rows = {}, !.frames = <<>>,
              !.running = None, !.session = session, !.before = session]

Kept(d)   == Ended(d, d.disk \cup d.rows, d.session)
Undone(d) == Ended(d, d.disk, IF backend = "postgres" THEN d.before ELSE d.session)

Says(d)    == [ok |-> TRUE, db |-> d]
Refuses(d) == [ok |-> FALSE, db |-> d]

(* An error in a transaction of PostgreSQL is the end of it.               *)
AfterError(d) ==
    IF backend = "postgres" /\ d.tx = "open" THEN [d EXCEPT !.tx = "aborted"] ELSE d

(* A statement that was interrupted (orm_connection_interrupt() stops      *)
(* whatever statement runs) has no effect of its own.                      *)
Interrupted(d) == IF backend = "mysql" THEN {} ELSE {Refuses(AfterError(d))}

Frame(d, n) == {i \in 1 .. Len(d.frames) : d.frames[i].name = n}
LastOf(S)   == CHOOSE i \in S : \A j \in S : j <= i

(* No driver reconnects, and a closed connection refuses every statement.  *)
Sent(outcomes) == IF open /\ ~db.lost THEN outcomes ELSE {Refuses(db)}

Started(d) ==
    [d EXCEPT !.tx = "open", !.before = d.session, !.once = None,
              !.running = IF d.once # None THEN d.once ELSE d.session]

BEGIN(d) ==
    Interrupted(d) \cup
    CASE d.tx = "none"                            -> {Says(Started(d))}
      [] d.tx # "none" /\ backend = "mysql"       -> {Says(Started(Kept(d)))}
      [] d.tx = "open" /\ backend = "postgres"    -> {Says(d)}
      [] OTHER                                    -> {Refuses(d)}

COMMIT(d) ==
    Interrupted(d) \cup
    CASE d.tx = "none" /\ backend = "sqlite"      -> {Refuses(d)}
      [] d.tx = "none" /\ backend # "sqlite"      -> {Says(d)}
      [] d.tx = "aborted"                         -> {Says(Undone(d))}
      [] OTHER ->
            {Says(Kept(d))}
            \cup (IF backend = "sqlite" THEN {Refuses(d)} ELSE {})          \* SQLITE_BUSY
            \cup (IF backend = "postgres" THEN {Refuses(Undone(d))} ELSE {}) \* deferred constraint
            \cup (IF backend # "sqlite"                                     \* no answer came
                  THEN {Refuses([e EXCEPT !.lost = TRUE]) : e \in {Kept(d), Undone(d)}} ELSE {})

ROLLBACK(d) ==
    {Refuses([a.db EXCEPT !.stuck = TRUE]) : a \in Interrupted(d)} \cup
    IF d.tx = "none"
    THEN IF backend = "sqlite" THEN {Refuses(d)} ELSE {Says(d)}
    ELSE {Says(Undone(d))}

(* In double quotes MySQL sees a string where it wants a name.             *)
SAVEPOINT(d, n) ==
    IF \/ backend = "mysql"
       \/ backend = "postgres" /\ d.tx # "open"
    THEN {Refuses(AfterError(d))}
    ELSE Interrupted(d) \cup
         {Says([d EXCEPT !.tx = IF d.tx = "none" THEN "implicit" ELSE d.tx,
                         !.running = IF d.tx = "none" THEN d.session ELSE d.running,
                         !.frames = Append(@, [name |-> n, rows |-> d.rows, session |-> d.session])])}

RELEASE(d, n) ==
    IF backend = "mysql" \/ d.tx = "aborted" \/ Frame(d, n) = {}
    THEN {Refuses(AfterError(d))}
    ELSE LET i == LastOf(Frame(d, n)) IN
         Interrupted(d) \cup
         {Says(IF i = 1 /\ d.tx = "implicit" THEN Kept(d)
               ELSE [d EXCEPT !.frames = SubSeq(@, 1, i - 1)])}

ROLLBACK_TO(d, n) ==
    IF backend = "mysql" \/ Frame(d, n) = {}
    THEN {Refuses(AfterError(d))}
    ELSE LET i == LastOf(Frame(d, n)) IN
         Interrupted(d) \cup
         {Says([d EXCEPT !.tx = IF @ = "aborted" THEN "open" ELSE @,
                         !.rows = d.frames[i].rows,
                         !.session = IF backend = "postgres" THEN d.frames[i].session ELSE @,
                         !.frames = SubSeq(@, 1, i)])}

(* A row written; or refused, by a constraint, or by a full disk or a      *)
(* deadlock, for which SQLite and MySQL roll back the whole transaction.   *)
INSERT(d, r) ==
    CASE d.tx = "aborted" -> {Refuses(d)}
      [] d.tx = "none"    -> {Says([d EXCEPT !.disk = @ \cup {r}]), Refuses(d)}
      [] OTHER            -> {Says([d EXCEPT !.rows = @ \cup {r}]), Refuses(AfterError(d))}
                             \cup (IF backend = "postgres" THEN {} ELSE {Refuses(Undone(d))})

(***************************************************************************)
(* set_isolation_level of the three drivers: for the session, and for one  *)
(* transaction.                                                            *)
(***************************************************************************)
SetOnSqlite(d, l) ==
    CASE l = "serializable"     -> {Says(d)}
      [] l = "read uncommitted" -> {Says([d EXCEPT !.session = l,
                                               !.running = IF d.tx = "none" THEN None ELSE l])}
      [] OTHER                  -> {Refuses(d)}

SetSession(d, l) ==
    CASE backend = "sqlite"   -> SetOnSqlite(d, l)
      [] backend = "mysql"    -> {Says([d EXCEPT !.session = l])}
      [] backend = "postgres" ->
            Interrupted(d) \cup IF d.tx = "aborted" THEN {Refuses(d)} ELSE {Says([d EXCEPT !.session = l])}

SetTransaction(d, l) ==
    CASE backend = "sqlite"   -> SetOnSqlite(d, l)
      [] backend = "mysql"    -> IF d.tx = "none" THEN {Says([d EXCEPT !.once = l])} ELSE {Refuses(d)}
      [] backend = "postgres" ->
            Interrupted(d) \cup
            CASE d.tx = "none"                                    -> {Says(d)}   \* a warning
              [] d.tx = "open" /\ d.rows = {} /\ d.frames = <<>>  -> {Says([d EXCEPT !.running = l])}
              [] OTHER                                            -> {Refuses(AfterError(d))}

-----------------------------------------------------------------------------
(***************************************************************************)
(* The library's side.                                                     *)
(***************************************************************************)
Init ==
    /\ backend \in Backends
    /\ open = TRUE
    /\ inTx = FALSE
    /\ level = Default
    /\ db = [tx |-> "none", disk |-> {}, rows |-> {}, frames |-> <<>>, session |-> Default,
             once |-> None, running |-> None, before |-> Default, lost |-> FALSE, stuck |-> FALSE]
    /\ state = [h \in Handles |-> "new"]
    /\ verdict = [h \in Handles |-> "none"]
    /\ plain = [h \in Handles |-> FALSE]
    /\ wanted = [h \in Handles |-> None]
    /\ given = [h \in Handles |-> None]
    /\ wrote = [h \in Handles |-> {}]
    /\ kept = [h \in Handles |-> {}]
    /\ marks = [h \in Handles |-> <<>>]
    /\ trouble = [h \in Handles |-> "none"]

(* Mutant of MayBegin: a transaction begins inside another.                *)
MayNest == open

(* The checks at the head of begin_transaction(), of the variant with an   *)
(* isolation level and of orm_transaction_new().                           *)
MayBegin == open /\ ~inTx

(* orm_transaction_new() gives no object when BEGIN fails.                 *)
Begun(a) == a.ok

(* Mutant of BeginsAt: the level first on every database.                  *)
LevelFirst(l) == UNION {IF a.ok THEN BEGIN(a.db) ELSE {a} : a \in SetTransaction(db, l)}

(* orm_connection_begin_transaction_with_isolation(): the level first and  *)
(* then BEGIN, on PostgreSQL BEGIN first; a transaction at another level   *)
(* than the one asked for is rolled back and not handed out.               *)
BeginsAt(l) ==
    IF backend # "postgres"
    THEN UNION {IF a.ok THEN BEGIN(a.db) ELSE {a} : a \in SetTransaction(db, l)}
    ELSE UNION {IF ~Begun(a) THEN {a}
                ELSE UNION {IF b.ok THEN {b} ELSE {Refuses(c.db) : c \in ROLLBACK(b.db)} :
                                b \in SetTransaction(a.db, l)} :
                    a \in BEGIN(db)}

Hands(h, a, l, byDefault) ==
    /\ db' = a.db
    /\ IF Begun(a)
       THEN /\ state' = [state EXCEPT ![h] = "active"]
            /\ inTx' = TRUE
            /\ plain' = [plain EXCEPT ![h] = byDefault]
            /\ wanted' = [wanted EXCEPT ![h] = l]
            /\ given' = [given EXCEPT ![h] = a.db.running]
       ELSE UNCHANGED <<state, inTx, plain, wanted, given>>
    /\ UNCHANGED <<backend, open, level, verdict, wrote, kept, marks, trouble>>

Begin(h) ==
    /\ state[h] = "new"
    /\ MayBegin
    /\ \E a \in Sent(BEGIN(db)) : Hands(h, a, level, TRUE)

BeginWithIsolation(h, l) ==
    /\ state[h] = "new"
    /\ MayBegin
    /\ \E a \in Sent(BeginsAt(l)) : Hands(h, a, l, FALSE)

Noted(h, ok) == IF ~ok /\ trouble[h] = "none" THEN "error" ELSE trouble[h]

(* What its caller knows of a transaction that matters only while it lasts.*)
Forgets(h) ==
    /\ plain' = [plain EXCEPT ![h] = FALSE]
    /\ wanted' = [wanted EXCEPT ![h] = None]
    /\ given' = [given EXCEPT ![h] = None]
    /\ marks' = [marks EXCEPT ![h] = <<>>]

(* orm_connection_set_isolation_level(): the level is remembered when the  *)
(* database took it.                                                       *)
SetIsolationLevel(l) ==
    /\ open
    /\ \E a \in Sent(SetSession(db, l)) :
           /\ db' = a.db
           /\ level' = IF a.ok THEN l ELSE level
           /\ trouble' = [h \in Handles |-> IF state[h] = "active" THEN Noted(h, a.ok) ELSE trouble[h]]
    /\ UNCHANGED <<backend, open, inTx, state, verdict, begun, rows, marks>>

(* The caller writes a row on the connection while h is active.            *)
Write(h) ==
    /\ state[h] = "active"
    /\ \E r \in Rows :
           /\ \A i \in Handles : r \notin wrote[i]
           /\ \A s \in Rows : s < r => \E i \in Handles : s \in wrote[i]
           /\ \E a \in Sent(INSERT(db, r)) :
                  /\ db' = a.db
                  /\ wrote' = [wrote EXCEPT ![h] = IF a.ok THEN @ \cup {r} ELSE @]
                  /\ kept' = [kept EXCEPT ![h] = IF a.ok THEN @ \cup {r} ELSE @]
                  /\ trouble' = [trouble EXCEPT ![h] = IF a.ok /\ @ = "error" THEN "wrote" ELSE Noted(h, a.ok)]
    /\ UNCHANGED <<backend, open, inTx, level, state, verdict, begun, marks>>

(* orm_transaction_savepoint(), release_savepoint() and                    *)
(* rollback_to_savepoint() send their statement and pass its answer on.    *)
Savepoint(h, n) ==
    /\ state[h] = "active"
    /\ Len(marks[h]) < MaxMarks
    /\ \E a \in Sent(SAVEPOINT(db, n)) :
           /\ db' = a.db
           /\ marks' = [marks EXCEPT ![h] =
                            IF a.ok THEN Append(@, [name |-> n, kept |-> kept[h]]) ELSE @]
           /\ trouble' = [trouble EXCEPT ![h] = Noted(h, a.ok)]
    /\ UNCHANGED <<backend, open, inTx, level, state, verdict, begun, rows>>

Marked(h, n) == {i \in 1 .. Len(marks[h]) : marks[h][i].name = n}

ReleaseSavepoint(h, n) ==
    /\ state[h] = "active"
    /\ Marked(h, n) # {}
    /\ \E a \in Sent(RELEASE(db, n)) :
           /\ db' = a.db
           /\ marks' = [marks EXCEPT ![h] = IF a.ok THEN SubSeq(@, 1, LastOf(Marked(h, n)) - 1) ELSE @]
           /\ trouble' = [trouble EXCEPT ![h] = Noted(h, a.ok)]
    /\ UNCHANGED <<backend, open, inTx, level, state, verdict, begun, rows>>

RollbackToSavepoint(h, n) ==
    /\ state[h] = "active"
    /\ Marked(h, n) # {}
    /\ LET i == LastOf(Marked(h, n)) IN
       \E a \in Sent(ROLLBACK_TO(db, n)) :
           /\ db' = a.db
           /\ marks' = [marks EXCEPT ![h] = IF a.ok THEN SubSeq(@, 1, i) ELSE @]
           /\ kept' = [kept EXCEPT ![h] = IF a.ok THEN marks[h][i].kept ELSE @]
           /\ trouble' = [trouble EXCEPT ![h] = Noted(h, a.ok)]
    /\ UNCHANGED <<backend, open, inTx, level, state, verdict, begun, wrote>>

(* Mutant of StillActive: the answer to COMMIT is passed on, not looked at.*)
OnlyOnce(ok) == FALSE

(* orm_transaction_commit(): an error leaves the transaction active.       *)
StillActive(ok) == ~ok

Commit(h) ==
    /\ state[h] = "active"
    /\ \E a \in Sent(COMMIT(db)) :
           /\ db' = a.db
           /\ IF StillActive(a.ok)
              THEN UNCHANGED <<state, verdict, inTx, begun, marks>>
              ELSE /\ state' = [state EXCEPT ![h] = "over"]
                   /\ verdict' = [verdict EXCEPT ![h] = "committed"]
                   /\ inTx' = FALSE
                   /\ Forgets(h)
           /\ trouble' = [trouble EXCEPT ![h] = Noted(h, a.ok)]
    /\ UNCHANGED <<backend, open, level, rows>>

(* orm_transaction_rollback(): an error ends the transaction all the same. *)
RollsBack(h, to) ==
    \E a \in Sent(ROLLBACK(db)) :
        /\ db' = a.db
        /\ state' = [state EXCEPT ![h] = to]
        /\ verdict' = [verdict EXCEPT ![h] = IF a.ok THEN "rolled back" ELSE "failed"]
        /\ inTx' = FALSE
        /\ Forgets(h)

Rollback(h) ==
    /\ state[h] = "active"
    /\ RollsBack(h, "over")
    /\ UNCHANGED <<backend, open, level, rows, trouble>>

(* Mutant of NeedsRollback: finalize does not look at is_active.           *)
AlwaysRollsBack(h) == TRUE

(* finalize rolls an active transaction back.                              *)
NeedsRollback(h) == state[h] = "active"

Drop(h) ==
    /\ state[h] \in {"active", "over"}
    /\ IF NeedsRollback(h)
       THEN RollsBack(h, "gone")
       ELSE /\ state' = [state EXCEPT ![h] = "gone"]
            /\ UNCHANGED <<db, verdict, inTx, begun, marks>>
    /\ UNCHANGED <<backend, open, level, rows, trouble>>

(* orm_connection_close(); whatever is open on the other side goes with it.*)
Close ==
    /\ open
    /\ open' = FALSE
    /\ inTx' = FALSE
    /\ db' = Ended(db, db.disk, db.session)
    /\ UNCHANGED <<backend, level, state, verdict, begun, rows, marks, trouble>>

(* The server or the way to it goes down; orm-glib learns by the next      *)
(* statement's error.                                                      *)
Lose ==
    /\ backend # "sqlite" /\ open /\ ~db.lost
    /\ db' = [Ended(db, db.disk, db.session) EXCEPT !.lost = TRUE]
    /\ UNCHANGED <<backend, open, inTx, level, state, verdict, begun, rows, marks, trouble>>

Next ==
    \/ \E h \in Handles :
          \/ Begin(h)
          \/ \E l \in Asked : BeginWithIsolation(h, l)
          \/ Write(h)
          \/ \E n \in Names : Savepoint(h, n) \/ ReleaseSavepoint(h, n) \/ RollbackToSavepoint(h, n)
          \/ Commit(h)
          \/ Rollback(h)
          \/ Drop(h)
    \/ \E l \in Asked : SetIsolationLevel(l)
    \/ Close
    \/ Lose

Spec == Init /\ [][Next]_vars

-----------------------------------------------------------------------------
(* Every variable has its type, an OrmTransaction has a level from the     *)
(* moment it exists, and a session without a transaction holds nothing.    *)
TypeOK ==
    /\ backend \in Backends
    /\ open \in BOOLEAN /\ inTx \in BOOLEAN
    /\ level \in Levels
    /\ db \in Sessions
    /\ db.tx = "none" => db.rows = {} /\ db.frames = <<>> /\ db.running = None
    /\ state \in [Handles -> {"new", "active", "over", "gone"}]
    /\ verdict \in [Handles -> {"none", "committed", "rolled back", "failed"}]
    /\ plain \in [Handles -> BOOLEAN]
    /\ wanted \in [Handles -> Levels \cup {None}]
    /\ given \in [Handles -> Levels \cup {None}]
    /\ \A h \in Handles : state[h] = "active" => given[h] # None
    /\ wrote \in [Handles -> SUBSET Rows]
    /\ kept \in [Handles -> SUBSET Rows]
    /\ marks \in [Handles -> Seq(Noticed)]
    /\ trouble \in [Handles -> {"none", "error", "wrote"}]

(* in_transaction and is_active are kept apart, on two objects, by every   *)
(* way a transaction can begin, fail or end: as long as the connection is  *)
(* open they tell the same, and no two transactions are active.            *)
FlagsAgree ==
    open => /\ inTx <=> \E h \in Handles : state[h] = "active"
            /\ \A h, i \in Handles : state[h] = "active" /\ state[i] = "active" => h = i

(* When the connection says that it is in no transaction, the database has *)
(* none open either: it would swallow the statements that follow and hold  *)
(* its locks.  A ROLLBACK that the database refused is the exception.      *)
NothingLeftOpen == open /\ ~inTx /\ ~db.stuck => db.tx = "none"

(* When a rollback succeeded, explicitly or as the object was dropped,     *)
(* nothing written in the transaction is there, whatever commits failed    *)
(* before.  Rows written after a statement failed are not meant: SQLite    *)
(* and MySQL may have ended the transaction, and the rows stood alone.     *)
RolledBackLeavesNothing ==
    \A h \in Handles :
        verdict[h] = "rolled back" /\ trouble[h] # "wrote" => wrote[h] \cap db.disk = {}

(* When a commit succeeded and no statement failed, what is there is       *)
(* exactly what was written and not rolled back to a savepoint, with equal *)
(* names and with other transactions before and after it.                  *)
CommittedIsDurable ==
    \A h \in Handles :
        verdict[h] = "committed" /\ trouble[h] = "none" => wrote[h] \cap db.disk = kept[h]

(* "A caller that asked for SERIALIZABLE and silently got READ COMMITTED   *)
(* is the worst outcome here" (begin_transaction_with_isolation):          *)
(* PostgreSQL and MySQL give the level that was asked for or no            *)
(* transaction.  A transaction that names none has the connection's        *)
(* isolation_level on MySQL; on SQLite a READ UNCOMMITTED stays behind,    *)
(* and PostgreSQL takes a setting back with the transaction it was made in. *)
AskedIsGiven ==
    \A h \in Handles :
        state[h] = "active" /\ (IF plain[h] THEN backend = "mysql" ELSE backend # "sqlite")
            => given[h] = wanted[h]
================================================================================
