------------------------------ MODULE SchemaSync ------------------------------
(***************************************************************************)
(* A program that creates and drops what it declared and inspects what is  *)
(* there: orm_engine_create_all() and drop_all(), index statements on its  *)
(* own connection, and the calls of an inspector, synchronous or as jobs   *)
(* of the connection's worker, while somebody else changes the schema.     *)
(*                                                                         *)
(* create_all and drop_all run on the caller's thread and a connection of  *)
(* their own; each of their statements, and each query of an inspector, is *)
(* a step.  The connection protocol itself is Connection.tla's.            *)
(***************************************************************************)
EXTENDS CatalogueRows, Inspector

CONSTANTS
    Declarations,    \* the metadata a program may declare
    OutsideDdl(_),   \* statements of other programs, of a dialect
    MaxOutside,      \* statements, inserts and counts of others (bound)
    MaxFaults,       \* statements that fail for no reason of the model (bound)
    MaxCalls         \* operations the program starts (bound)

(* A metadata is a list whose tables have different names, as add_table()  *)
(* sees to, with columns and foreign keys as new() makes them.             *)
ASSUME DeclarationsAssumption ==
    \A m \in Declarations :
       /\ Len(m) \in Nat /\ DOMAIN m = 1 .. Len(m)
       /\ \A i, j \in DOMAIN m : m[i].name = m[j].name => i = j
       /\ \A i \in DOMAIN m : \A fk \in RangeOf(m[i].fks) :
             DOMAIN fk = DOMAIN NewForeignKey(None, None)
       /\ \A i \in DOMAIN m : \A c \in RangeOf(m[i].cols) :
             IsType(c.type) /\ {c.pk, c.nullable, c.unique, c.auto} \subseteq BOOLEAN

(* The names are known, and different where a database wants them to be:   *)
(* what a CREATE statement says.  "v" is the view of another program.      *)
ASSUME StatementsAssumption ==
    /\ IsName("v")
    /\ \A e \in Dialects :
          /\ \A s \in OutsideDdl(e) : IsStatement(e, s)
          /\ \A m \in Declarations : \A i \in DOMAIN m :
                /\ IsStatement(e, CompileCreateTable(e, m[i], TRUE))
                /\ \A k \in DOMAIN m[i].indexes :
                      IsStatement(e, CompileCreateIndex(e, m[i].indexes[k], m[i], TRUE))

VARIABLES
    d,               \* the dialect of the engine
    private,         \* an SQLite engine on ":memory:"
    metadata,        \* what the program declared
    db,              \* the database
    open,            \* the program's own connection
    main,            \* create_all or drop_all on the caller's thread
    ask,             \* the inspector call
    left             \* what is left of the bounds

vars == <<d, private, metadata, db, open, main, ask, left>>

NoRelation == [t \in {} |-> None]

Idle  == [op |-> "none", state |-> "over", at |-> 0, db |-> NoRelation, ok |-> TRUE,
          fault |-> FALSE, fresh |-> FALSE, alone |-> TRUE]
Quiet == [call |-> "none", t |-> None, async |-> FALSE, state |-> "none",
          answers |-> <<>>, cancelled |-> FALSE, still |-> TRUE, result |-> Failed]

Init ==
    /\ d \in Dialects
    /\ private \in {FALSE, d = "sqlite"}
    /\ metadata \in Declarations
    /\ db = NoRelation
    /\ open = TRUE
    /\ main = Idle
    /\ ask = Quiet
    /\ left = [outside |-> MaxOutside, faults |-> MaxFaults, calls |-> MaxCalls]

MainBusy == main.state = "running" \/ (ask.state \in {"queued", "running"} /\ ~ask.async)
Asking   == ask.state \in {"queued", "running"}

Spend(what) == left[what] > 0 /\ left' = [left EXCEPT ![what] = @ - 1]

(* The schema changed: a call that is under way is no longer of one moment. *)
(* ask.still says that what the call has heard is what the database would  *)
(* answer now.                                                             *)
Touch == ask' = [ask EXCEPT !.still = @ /\ ask.state # "running"]

-------------------------------------------------------------------------------
(* create_all and drop_all.  The engine opens a connection for the call,   *)
(* and one to ":memory:" has an empty database of its own that goes with   *)
(* it.  main.db is the database that connection sees.                      *)

Start(op) ==
    /\ ~MainBusy /\ Spend("calls")
    /\ main' = [op |-> op, state |-> "running", at |-> 0,
                db |-> NoRelation, ok |-> TRUE, fault |-> FALSE,
                fresh |-> IF op = "create_all" THEN db = NoRelation
                          ELSE main.op = "create_all" /\ main.ok /\ main.fresh /\ main.alone,
                alone |-> TRUE]
    /\ UNCHANGED <<d, private, metadata, db, open, ask>>

CreateAll == Start("create_all")
DropAll   == Start("drop_all")

(* A mutant: tables are dropped in the order they were declared.           *)
StatementInOrder(i) ==
    IF main.op = "create_all" THEN CompileCreateTable(d, metadata[i], TRUE)
    ELSE CompileDropTable(d, metadata[i], TRUE, FALSE)

(* The statements of the call: DROP TABLE goes through the list backwards. *)
Statement(i) ==
    IF main.op = "create_all" THEN CompileCreateTable(d, metadata[i], TRUE)
    ELSE CompileDropTable(d, metadata[Len(metadata) + 1 - i], TRUE, FALSE)

Sees == IF private THEN main.db ELSE db

Stop(ok, fault) ==
    main' = [main EXCEPT !.state = "over", !.ok = ok, !.fault = fault, !.db = NoRelation]

(* One statement of the list; the first that fails ends the call, and what *)
(* the earlier ones did stays.                                             *)
NextStatement ==
    LET s == Statement(main.at + 1) IN
    /\ main.state = "running" /\ main.at < Len(metadata)
    /\ ~Refused(d, Sees, s)
    /\ IF private
       THEN /\ main' = [main EXCEPT !.at = @ + 1, !.db = Executed(d, Sees, s)]
            /\ UNCHANGED <<db, ask>>
       ELSE /\ main' = [main EXCEPT !.at = @ + 1]
            /\ db' = Executed(d, Sees, s)
            /\ IF db' = db THEN UNCHANGED ask ELSE Touch
    /\ UNCHANGED <<d, private, metadata, open, left>>

(* A mutant: the call goes on after a statement that was refused.          *)
RefusedIsSkipped ==
    /\ main.state = "running" /\ main.at < Len(metadata)
    /\ Refused(d, Sees, Statement(main.at + 1))
    /\ main' = [main EXCEPT !.at = @ + 1]
    /\ UNCHANGED <<d, private, metadata, db, open, ask, left>>

StatementRefused ==
    /\ main.state = "running" /\ main.at < Len(metadata)
    /\ Refused(d, Sees, Statement(main.at + 1))
    /\ Stop(FALSE, FALSE)
    /\ UNCHANGED <<d, private, metadata, db, open, ask, left>>

(* A statement, or the connection it needs, fails.                         *)
StatementFails ==
    /\ main.state = "running" /\ Spend("faults")
    /\ Stop(FALSE, TRUE)
    /\ UNCHANGED <<d, private, metadata, db, open, ask>>

AllStatementsDone ==
    /\ main.state = "running" /\ main.at = Len(metadata)
    /\ Stop(TRUE, FALSE)
    /\ UNCHANGED <<d, private, metadata, db, open, ask, left>>

(* An index of a declared table, on the program's connection.  Its         *)
(* statement waits for the worker, as every other does.                    *)
IndexStatement ==
    /\ ~MainBusy /\ ~Asking /\ open /\ ~private
    /\ \E i \in DOMAIN metadata : \E k \in DOMAIN metadata[i].indexes :
       \E s \in {CompileCreateIndex(d, metadata[i].indexes[k], metadata[i], TRUE),
                 CompileDropIndex(d, metadata[i].indexes[k], metadata[i], TRUE)} :
           db' = Executed(d, db, s)
    /\ UNCHANGED <<d, private, metadata, open, main, ask, left>>

-------------------------------------------------------------------------------
(* The inspector.  A synchronous call runs at once, in the caller's place; *)
(* an asynchronous one is a job of the worker.                             *)

Visible == IF private THEN NoRelation ELSE db

Submit(call, t, async) ==
    /\ ~MainBusy /\ ~Asking /\ Spend("calls")
    /\ ask' = [Quiet EXCEPT !.call = call, !.t = t, !.async = async, !.state = "queued"]
    /\ UNCHANGED <<d, private, metadata, db, open, main>>

Tables == {metadata[i].name : i \in DOMAIN metadata}

ListSchemasAsync         == Submit("list_schemas", None, TRUE)
ListRelationsAsync       == Submit("list_relations", None, TRUE)
GetColumnsAsync(t)       == Submit("get_columns", t, TRUE)
GetIndexesAsync(t)       == Submit("get_indexes", t, TRUE)
GetForeignKeysAsync(t)   == Submit("get_foreign_keys", t, TRUE)
GetPrimaryKeyAsync(t)    == Submit("get_primary_key", t, TRUE)
EstimateRowCountAsync(t) == Submit("estimate_row_count", t, TRUE)

InspectAsync ==
    \/ ListSchemasAsync \/ ListRelationsAsync
    \/ \E t \in Tables : \/ GetColumnsAsync(t) \/ GetIndexesAsync(t)
                         \/ GetForeignKeysAsync(t) \/ GetPrimaryKeyAsync(t)
                         \/ EstimateRowCountAsync(t)

(* list_tables, list_views and has_table have no asynchronous form.        *)
Inspect ==
    \/ \E call \in {"list_tables", "list_views"} : Submit(call, None, FALSE)
    \/ \E t \in Tables : Submit("has_table", t, FALSE)

CancelInspection ==
    /\ Asking /\ ask.async /\ ~ask.cancelled /\ Spend("faults")
    /\ ask' = [ask EXCEPT !.cancelled = TRUE]
    /\ UNCHANGED <<d, private, metadata, db, open, main>>

(* orm_connection_task_may_run(): a job cancelled in time never starts.    *)
JobMayNotRun ==
    /\ ask.state = "queued" /\ ask.cancelled
    /\ ask' = [ask EXCEPT !.state = "cancelled"]
    /\ UNCHANGED <<d, private, metadata, db, open, main, left>>

BeginCall ==
    /\ ask.state = "queued" /\ ~ask.cancelled
    /\ ask' = [ask EXCEPT !.state = "running"]
    /\ UNCHANGED <<d, private, metadata, db, open, main, left>>

(* What the job hands over: nothing to a caller who gave up.               *)
Returns(result) ==
    [ask EXCEPT !.state = IF ask.cancelled THEN "cancelled" ELSE "returned",
                !.answers = <<>>,
                !.result = IF ask.cancelled THEN Failed ELSE result]

Pending == Queries(d, ask.call, ask.t, ask.answers)[Len(ask.answers) + 1]

(* The call with one more answer, and with the last one its result.        *)
Hearing(rows) ==
    LET answers == Append(ask.answers, rows) IN
    IF Len(Queries(d, ask.call, ask.t, answers)) = Len(answers)
    THEN Returns(Result(d, ask.call, ask.t, answers))
    ELSE [ask EXCEPT !.answers = answers]

AskNext ==
    /\ ask.state = "running" /\ open
    /\ ~CountFails(Visible, Pending)
    /\ \E rows \in Answers(d, Visible, Pending) : ask' = Hearing(rows)
    /\ UNCHANGED <<d, private, metadata, db, open, main, left>>

(* MySQL does not hand over the rows of a query without parameters, and    *)
(* the driver takes mysql_store_result() that fails for a statement that   *)
(* has none: an empty answer, and no error.                                *)
RowsUnread ==
    /\ ask.state = "running" /\ open /\ d = "mysql"
    /\ Pending.what \in {"schemata", "count"} /\ ~CountFails(Visible, Pending)
    /\ Spend("faults")
    /\ ask' = [Hearing(<<>>) EXCEPT !.still = FALSE]
    /\ UNCHANGED <<d, private, metadata, db, open, main>>

(* A query that fails, or a connection that is closed, fails the call.     *)
QueryFails ==
    /\ ask.state = "running"
    /\ \/ (~open \/ CountFails(Visible, Pending)) /\ UNCHANGED left
       \/ open /\ Spend("faults")
    /\ ask' = Returns(Failed)
    /\ UNCHANGED <<d, private, metadata, db, open, main>>

Close ==
    /\ open /\ ~MainBusy /\ ask.state # "running" /\ Spend("faults")
    /\ open' = FALSE
    /\ UNCHANGED <<d, private, metadata, db, main, ask>>

-------------------------------------------------------------------------------
(*                           Other programs                                *)

OthersChangeSchema ==
    /\ ~private /\ Spend("outside")
    /\ \E s \in OutsideDdl(d) :
           /\ ~Refused(d, db, s)
           /\ db' = Executed(d, db, s)
    /\ db' # db
    /\ Touch
    /\ main' = [main EXCEPT !.alone = FALSE]
    /\ UNCHANGED <<d, private, metadata, open>>

OthersAddView ==
    /\ ~private /\ Spend("outside") /\ "v" \notin DOMAIN db
    /\ db' = [t \in DOMAIN db \cup {"v"} |-> IF t = "v" THEN View(d) ELSE db[t]]
    /\ Touch
    /\ main' = [main EXCEPT !.alone = FALSE]
    /\ UNCHANGED <<d, private, metadata, open>>

(* A row in every table that has none, and whose keys find rows to point to. *)
OthersInsert ==
    LET filled == {t \in DOMAIN db :
                      /\ db[t].kind = "table" /\ db[t].rows = 0
                      /\ \A fk \in RangeOf(db[t].fks) : fk.refTable \in DOMAIN db}
    IN  /\ Spend("outside") /\ filled # {}
        /\ db' = [t \in DOMAIN db |->
                     IF t \in filled THEN [db[t] EXCEPT !.rows = 1] ELSE db[t]]
        /\ Touch
        /\ UNCHANGED <<d, private, metadata, open, main>>

OthersAnalyze ==
    /\ Spend("outside")
    /\ \E t \in DOMAIN db :
           /\ db[t].kind = "table" /\ db[t].counted # db[t].rows
           /\ db' = [db EXCEPT ![t].counted = db[t].rows]
    /\ Touch
    /\ UNCHANGED <<d, private, metadata, open, main>>

-------------------------------------------------------------------------------

Next ==
    \/ CreateAll \/ DropAll
    \/ NextStatement \/ StatementRefused \/ StatementFails \/ AllStatementsDone
    \/ IndexStatement
    \/ Inspect \/ InspectAsync \/ CancelInspection \/ JobMayNotRun \/ BeginCall
    \/ AskNext \/ RowsUnread \/ QueryFails \/ Close
    \/ OthersChangeSchema \/ OthersAddView \/ OthersInsert \/ OthersAnalyze

Spec == Init /\ [][Next]_vars

-------------------------------------------------------------------------------
(*                             Properties                                  *)

(* SQLite's flag is taken from the whole text of the CREATE TABLE: a name, *)
(* a type or a default with the keyword in it is mistaken for one, if the  *)
(* key begins with an INTEGER column.                                      *)
Mistaken(t, r, i) ==
    /\ d = "sqlite" /\ SqliteWords(t, r) \cap Autoincrements # {}
    /\ r.cols[i].type = "INTEGER" /\ r.key # <<>> /\ r.key[1] = r.cols[i].name

(* What is in the database, said without the rows of any catalogue.        *)
TrueColumn(t, r, i, key) ==
    [name |-> r.cols[i].name, nullable |-> ~r.cols[i].notNull,
     default |-> r.cols[i].default, pk |-> r.cols[i].name \in key,
     auto |-> \/ r.cols[i].auto \/ Mistaken(t, r, i)
              \/ d = "postgres" /\ r.cols[i].default = "nextval",
     ordinal |-> i - 1]

Projected(infos) ==
    [i \in DOMAIN infos |->
        [name |-> infos[i].name, nullable |-> infos[i].nullable,
         default |-> infos[i].default, pk |-> infos[i].pk, auto |-> infos[i].auto,
         ordinal |-> infos[i].ordinal]]

(* MySQL shows a key where there is only a UNIQUE NOT NULL column.         *)
KeyColumns(r) == IF d = "mysql" THEN MySqlKeyColumns(r) ELSE RangeOf(r.key)

TrueForeignKey(fk, implied) ==
    [name |-> IF d = "sqlite" THEN None ELSE fk.name, cols |-> fk.cols,
     refTable |-> fk.refTable,
     refCols |-> IF fk.refCols[1] = None THEN implied ELSE fk.refCols,
     onDelete |-> fk.onDelete, onUpdate |-> fk.onUpdate]

KeyIn(base, t) == IF t \in DOMAIN base THEN base[t].key ELSE <<>>

IsTrue(call, t, base, result) ==
    LET r == base[t]
        infos == result.value
        named(kind) == {u \in DOMAIN base : base[u].kind = kind}
    IN  CASE call = "list_schemas" -> Len(infos) = 1
          [] call = "list_tables"  -> RangeOf(infos) = named("table")
          [] call = "list_views"   -> RangeOf(infos) = named("view")
          [] call = "has_table"    -> infos = (t \in DOMAIN base)
          [] call = "list_relations" ->
                 RangeOf(infos) = {[name |-> u, kind |-> base[u].kind] : u \in DOMAIN base}
          [] call \in {"get_columns", "get_indexes", "get_foreign_keys", "get_primary_key"}
             /\ t \notin DOMAIN base -> infos = <<>>
          [] call = "get_columns" /\ t \in DOMAIN base ->
                 Projected(infos) = [i \in DOMAIN r.cols |-> TrueColumn(t, r, i, KeyColumns(r))]
          [] call = "get_indexes" /\ t \in DOMAIN base ->
                 /\ Len(infos) = Cardinality(r.indexes)
                 /\ RangeOf(infos) = {IndexInfo(ix.name, ix.unique, ix.cols) : ix \in r.indexes}
          [] call = "get_foreign_keys" /\ t \in DOMAIN base ->
                 /\ Len(infos) = Len(r.fks)
                 /\ RangeOf(infos) =
                        {TrueForeignKey(fk, KeyIn(base, fk.refTable)) : fk \in RangeOf(r.fks)}
          [] call = "get_primary_key" /\ t \in DOMAIN base -> infos = r.key
          [] call = "estimate_row_count" ->
                 /\ t \in DOMAIN base
                 /\ infos.count = IF infos.estimate THEN r.counted ELSE r.rows

(* An inspector tells what is in the database: the columns with their      *)
(* keys, the indexes and the foreign keys with their columns in order,     *)
(* however many queries it takes and in whatever order the rows come.      *)
(* Excepted are a call between whose queries somebody changes the schema,  *)
(* a MySQL query without parameters whose rows are lost without an error,  *)
(* and SQLite's auto-increment flag where the text has that word in it.    *)
InspectorTellsTheTruth ==
    [][ ask.state = "running" /\ ask'.state = "returned" /\ ask'.result.ok /\ ask'.still
        => IsTrue(ask.call, ask.t, Visible, ask'.result) ]_vars

(* The value type an inspector gives a column, of the type it was declared *)
(* with: SQLite and MySQL have no booleans, SQLite keeps dates as text.    *)
ComesBackAs(type) ==
    CASE type.kind \in {"integer", "bigint"}       -> "integer"
      [] type.kind \in {"string", "text", "none"}  -> "string"
      [] type.kind = "boolean" -> IF d = "postgres" THEN "boolean" ELSE "integer"
      [] type.kind \in {"float", "double"}         -> "float"
      [] type.kind = "datetime" -> IF d = "sqlite" THEN "string" ELSE "datetime"
      [] type.kind = "blob" -> "blob"

(* The call, asked of a database at rest.                                  *)
AnswerOf(base, q) == CHOOSE rows \in Answers(d, base, q) : TRUE

AtRest(base, call, t) ==
    LET one == <<AnswerOf(base, Queries(d, call, t, <<>>)[1])>>
        all == Queries(d, call, t, one)
    IN  Result(d, call, t, [i \in DOMAIN all |-> AnswerOf(base, all[i])])

Declared(t) == GetTable(metadata, t)
DeclaredKey(t) ==
    IF Len(Declared(t).pk.cols) > 1 THEN Declared(t).pk.cols
    ELSE NamesOf(Having(Declared(t).cols,
                        {i \in DOMAIN Declared(t).cols : Declared(t).cols[i].pk}), "name")

(* SQLite fills a key only, PostgreSQL makes an integer of any column it   *)
(* is to fill, and MySQL shows a key where there is none.                  *)
DeclaredColumn(cols, key, i, mistaken) ==
    LET c       == cols[i]
        serial  == d = "postgres" /\ c.auto
        lone(j) == cols[j].unique /\ ~cols[j].nullable
    IN  [name |-> c.name,
         valueType |-> IF serial THEN "integer" ELSE ComesBackAs(c.type),
         pk |-> \/ c.name \in RangeOf(key)
                \/ d = "mysql" /\ key = <<>> /\ lone(i) /\ \A j \in 1 .. i - 1 : ~lone(j),
         auto |-> \/ c.auto /\ (d = "sqlite" => c.pk)
                  \/ d = "postgres" /\ c.default = "nextval"
                  \/ mistaken,
         nullable |-> IF d = "sqlite" THEN c.pk \/ c.nullable
                      ELSE c.nullable /\ ~c.pk /\ c.name \notin RangeOf(key) /\ ~serial]

Complete == main.op = "create_all" /\ main.state = "over" /\ main.ok /\ ~private

InspectedIsDeclared(t) ==
    LET infos == AtRest(db, "get_columns", t).value
        cols  == Declared(t).cols
    IN  /\ AtRest(db, "get_primary_key", t).value = DeclaredKey(t)
        /\ DOMAIN infos = DOMAIN cols
        /\ \A i \in DOMAIN cols :
               /\ [name |-> infos[i].name, valueType |-> infos[i].valueType,
                   pk |-> infos[i].pk, auto |-> infos[i].auto,
                   nullable |-> infos[i].nullable]
                       = DeclaredColumn(cols, DeclaredKey(t), i, Mistaken(t, db[t], i))
               /\ cols[i].type # NoType /\ ~(d = "postgres" /\ cols[i].auto) =>
                      infos[i].valueType =
                          ValueTypeOf(d, ReportedType(d, Compiles(cols[i].type, d)))

(* When a create_all on an empty database that nobody else touches comes   *)
(* back with TRUE, what the inspector tells of each table is what was      *)
(* declared: the three DDL compilers and the three inspectors agree on     *)
(* keys, columns the server fills, NOT NULL and types, and a column that   *)
(* is written by hand with the type compiler's name has the same type.     *)
(* SQLite's auto-increment flag is mistaken where a declared word has the  *)
(* keyword in it.                                                          *)
CreatedIsDeclared ==
    [][ ~Complete /\ Complete' /\ main.fresh /\ main.alone
        => \A t \in Tables : InspectedIsDeclared(t) ]_vars

(* A create_all that succeeds leaves every declared relation there, and a  *)
(* drop_all that succeeds leaves none, if nobody interferes.               *)
AllMeansAll ==
    main.state = "over" /\ main.ok /\ main.alone /\ ~private =>
        /\ main.op = "create_all" => Tables \subseteq DOMAIN db
        /\ main.op = "drop_all" => Tables \cap DOMAIN db = {}

PointsForward ==
    \E i \in DOMAIN metadata : \E fk \in RangeOf(metadata[i].fks) :
        \E j \in DOMAIN metadata : j > i /\ metadata[j].name = fk.refTable

(* What one create_all made in an empty database, drop_all can drop: the   *)
(* reverse order never drops a table while another points to it.  On       *)
(* SQLite, which lets a table be declared before the one it points to,     *)
(* that holds of the other declarations, and of all while there are no     *)
(* rows.                                                                   *)
DropsInOrder ==
    main.op = "drop_all" /\ main.state = "over" /\ main.fresh /\ main.alone
        /\ (d = "sqlite" => ~PointsForward \/ \A t \in DOMAIN db : db[t].rows = 0)
    => main.ok \/ main.fault
===============================================================================
