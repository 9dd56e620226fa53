-------------------------------- MODULE Queries --------------------------------
(***************************************************************************)
(* A program that saves objects of one class, asks for them with an        *)
(* OrmQuery, and exports the rows of a statement of its own.  Between it   *)
(* and the table stand the text of the statements, the conversions of the  *)
(* driver, and a server that takes a statement or refuses it.              *)
(***************************************************************************)
EXTENDS SqlGrammar, Query, Exporter

LOCAL INSTANCE SequencesExt

CONSTANTS
    Worlds,         \* databases with a class, see "world"
    Exporters,      \* the exporters a program may make
    MaxRows         \* keys the table gives out

VARIABLES
    world,          \* d, the database; ansi, MySQL's ANSI_QUOTES; gtype, what
                    \* the class has beside its key; contents, near: values of it;
                    \* byHand, whether the mapper is registered and the table
                    \* made by hand; calls, how many calls refine a query;
                    \* exports, how many exports there are, with one exporter
    mapper, table,  \* what the session knows of the class; the table's columns
    rows,           \* the table: the object each row was saved from, its cells
    query,          \* NULL, or the query
    asked,          \* what the program asked for, whatever the query makes of it
    told,           \* the last answer
    res,            \* the program's own result, and what is still to come of it
    xp              \* the exporter and the export it last made

vars == <<world, mapper, table, rows, query, asked, told, res, xp>>

-------------------------------------------------------------------------------
(*                             The class                                   *)

ValueName == <<97, Dash, 98>>
Class == [name |-> <<65, 66>>, pspecs |-> <<Pspec(Id, "int64"), Pspec(ValueName, world.gtype)>>]

(* A mapper put together by hand lets the property be NULL.                *)
ByHand ==
    AddProperty(AddProperty(NewMapper(Class, <<>>),
                            NewFromPspec(Class.pspecs[1], {"primary key", "auto increment"})),
                NewFromPspec(Class.pspecs[2], {"nullable"}))
Auto == NewFromSerializable(Class)

GetMapper == IF mapper = NoMapper THEN Auto ELSE mapper

-------------------------------------------------------------------------------
(*                             The database                                *)

ColumnNamesOf(t) == [i \in DOMAIN t.cols |-> t.cols[i].name]
TypeNames == [i \in DOMAIN table.cols |-> GetName(table.cols[i].type, world.d)]

(* What arrives: the parameters as the driver binds them.                  *)
Seen(sql) ==
    [text   |-> [i \in DOMAIN sql.text |->
                    IF world.ansi /\ Len(sql.text[i]) = 3
                    THEN [sql.text[i] EXCEPT ![2] = BackQuote] ELSE sql.text[i]],
     params |-> [i \in DOMAIN sql.params |-> BindValue(world.d, sql.params[i])]]

Understood(sql) ==
    LET text == Seen(sql).text
    IN  /\ \A i \in DOMAIN text : Len(text[i]) = 3 => IsName(text[i], world.d)
        /\ ParametersFit(Seen(sql), world.d)
        /\ Has(text, "OFFSET") => Has(text, "LIMIT") \/ world.d = "postgres"
        /\ ~Has(text, "IN")
        /\ \E i \in DOMAIN text : Len(text[i]) = 3 /\ text[i][3] = table.name

(* Two rows in the order an ORDER BY asks for; nobody says where NULLs go. *)
InOrder(order, Value(_, _), i, j) ==
    LET C(n) == LET a == Value(i, order[n].column)
                    b == Value(j, order[n].column)
                    c == IF IsNull(a) \/ IsNull(b) THEN 0 ELSE Compare(a, b)
                IN  IF order[n].direction = "DESC" THEN -c ELSE c
        differ == {n \in DOMAIN order : C(n) # 0}
    IN  differ = {} \/ C(CHOOSE n \in differ : \A m \in differ : n <= m) < 0

(* The orders the rows S may come in, each cut to one page.                *)
Pages(S, order, Value(_, _), limit, offset) ==
    LET cut(s) == SubSeq(s, offset + 1, IF limit < 0 THEN Len(s)
                                        ELSE IF offset + limit < Len(s) THEN offset + limit ELSE Len(s))
    IN  {cut(s) : s \in {s \in SetToSeqs(S) :
                            \A j \in DOMAIN s : \A i \in 1 .. j - 1 : InOrder(order, Value, s[i], s[j])}}

(* A parameter meets the column as what the column would keep of it.       *)
Cell(i, name) == rows[i].cells[name]
Matching(where) ==
    {i \in DOMAIN rows : where = NoExpr \/ Truth(where, rows[i].cells) = "true"}

PageNumber(value, missing) == IF value = NoValue THEN missing ELSE Number(value)

(* What may come of sending a statement: that it is refused, rows, rows    *)
(* that break off, and on MySQL rows that get lost on the way.             *)
Outcome(driver, broke, matched) ==
    [refused |-> FALSE, driver |-> driver, broke |-> broke, matched |-> matched]
Refusal == [refused |-> TRUE, driver |-> <<>>, broke |-> FALSE, matched |-> {}]

Produced(names, types, cells, sql, matched) ==
    {Outcome(DriverResult(world.d, names, types, cells, k), k # Never, matched) :
        k \in {Never} \cup (IF world.d = "sqlite" THEN 0 .. Len(cells) ELSE {})}
    \cup (IF world.d = "mysql" /\ sql.params = <<>>
          THEN {Outcome(LostResult(world.d), TRUE, matched)} ELSE {})

Readings(sql) == IF Understood(sql) THEN {ReadStatement(Seen(sql), world.d)} ELSE {}

CellsOf(i) == [c \in DOMAIN table.cols |-> Cell(i, table.cols[c].name)]

Selected(sql, read, found) ==
    IF sql.text[2] = Word("COUNT(*)")
    THEN Produced(<<"COUNT(*)">>, <<<<"BIGINT">>>>, <<<<NewInteger(Cardinality(found))>>>>, sql, found)
    ELSE UNION {Produced(ColumnNamesOf(table), TypeNames, [k \in DOMAIN s |-> CellsOf(s[k])], sql, found) :
                  s \in Pages(found, read.order, Cell, PageNumber(read.limit, -1), PageNumber(read.offset, 0))}

SelectOutcomes(sql) ==
    {Refusal} \cup UNION {Selected(sql, read, Matching(read.where)) : read \in Readings(sql)}

(* An INSERT that the table's columns let pass: the cells of the row.      *)
Keeps(cells) ==
    \A i \in DOMAIN table.cols :
        LET c == table.cols[i]
        IN  c.auto \/ /\ ~IsNull(cells[c.name]) \/ c.nullable
                      /\ ~Refuses(world.d, cells[c.name], TypeNames[i])

NextKey == IF rows = <<>> THEN 1 ELSE Last(rows).object[Id][1] + 1

Inserted(read) ==
    [name \in {table.cols[i].name : i \in DOMAIN table.cols} |->
        LET i == CHOOSE j \in DOMAIN table.cols : table.cols[j].name = name
            given == {j \in DOMAIN read.sets : read.sets[j].column = name}
        IN  IF given = {} THEN IF table.cols[i].auto THEN NewInteger(NextKey) ELSE NullValue
            ELSE Kept(world.d, read.sets[CHOOSE j \in given : TRUE].value.value, TypeNames[i])]

-------------------------------------------------------------------------------
(*                               Saving                                    *)

NoAnswer == [op |-> "none", answer |-> Failed, refused |-> FALSE, broke |-> FALSE, before |-> <<>>]
NoQuery  == NewQuery(NoMapper)
NoResult == [r |-> <<>>, truth |-> <<>>, lost |-> FALSE]
NoExport == [e |-> <<>>, stage |-> "idle", mode |-> "none", names |-> <<>>, left |-> <<>>,
             truth |-> <<>>, text |-> <<>>, written |-> 0, ok |-> FALSE,
             lost |-> FALSE, count |-> 0]

(* The table was made from a mapper, not always the one that is used.      *)
Init ==
    /\ world \in Worlds
    /\ mapper = IF "registered" \in world.byHand THEN ByHand ELSE NoMapper
    /\ table = ToTable(IF "table" \in world.byHand THEN ByHand ELSE Auto)
    /\ rows = <<>>
    /\ query = NoQuery /\ asked = NoQuery /\ told = NoAnswer
    /\ res = NoResult /\ xp = NoExport

Fresh(content) == [NewObject(Class) EXCEPT ![ValueName] = content]

AddRow(object, cells) ==
    rows' = Append(rows, [object |-> [object EXCEPT ![Id] = <<NextKey>>], cells |-> cells])

AtRest == query = NoQuery /\ res = NoResult
MaySave == AtRest /\ NextKey <= MaxRows

(* orm_session_add() and flush() of one object.                            *)
Save ==
    /\ MaySave
    /\ mapper' = GetMapper
    /\ \E content \in world.contents :
         LET object == Fresh(content)
         IN  \E read \in Readings(BuildInsertSql(GetMapper, Class, object)) :
               \E cells \in {Inserted(read)} : Keeps(cells) /\ AddRow(object, cells)
    /\ told' = NoAnswer
    /\ UNCHANGED <<world, table, query, asked, res, xp>>

(* An INSERT the program writes itself, in the database's own tongue.      *)
OwnInsert ==
    /\ MaySave
    /\ \E content \in world.contents :
         LET value == BindValue(world.d, FromGValue(GValue(world.gtype, content)))
             column == table.cols[2].name
             read == [sets |-> <<[column |-> column, value |-> NewLiteral(value)]>>]
         IN  Keeps(Inserted(read)) /\ AddRow(Fresh(content), Inserted(read))
    /\ told' = NoAnswer
    /\ UNCHANGED <<world, mapper, table, query, asked, res, xp>>

(* The rows but those a condition holds of.                                *)
Without(gone) ==
    \E kept \in {SetToSortSeq(DOMAIN rows \ gone, <)} :
        rows' = [k \in DOMAIN kept |-> rows[kept[k]]]

(* orm_session_delete() and flush() of one object.                         *)
RemoveObject ==
    /\ AtRest
    /\ mapper' = GetMapper
    /\ \E i \in DOMAIN rows :
         /\ \E read \in Readings(BuildDeleteSql(GetMapper, Class, rows[i].object)) :
              Without(Matching(read.where))
         /\ told' = [op |-> "remove", answer |-> Answer(<<rows[i].object>>, 1, FALSE),
                     refused |-> FALSE, broke |-> FALSE, before |-> rows]
    /\ UNCHANGED <<world, table, query, asked, res, xp>>

-------------------------------------------------------------------------------
(*                               Asking                                    *)

BeginQuery ==
    /\ AtRest
    /\ mapper' = GetMapper
    /\ query' = NewQuery(GetMapper) /\ asked' = NewQuery(GetMapper) /\ told' = NoAnswer
    /\ UNCHANGED <<world, table, rows, res, xp>>

Calls(q) == Len(q.filters) + Len(q.order) + (IF q.limit = -1 THEN 0 ELSE 1)
              + (IF q.offset = 0 THEN 0 ELSE 1)

Refine(q, a) ==
    /\ query # NoQuery /\ Calls(asked) < world.calls
    /\ query' = q /\ asked' = a /\ told' = NoAnswer
    /\ UNCHANGED <<world, mapper, table, rows, res, xp>>

CallFilter == \E op \in {"!=", "<=", "IN", "IS NULL"} :
    Refine(Filter(query, ValueName, op, world.near),
           [asked EXCEPT !.filters = Append(@, [property |-> ValueName, op |-> op, value |-> world.near])])
CallFilterBy == \E on \in {[name |-> ValueName, value |-> world.near],
                           [name |-> Id, value |-> NewInteger(1)]} :
    Refine(FilterBy(query, on.name, on.value),
           [asked EXCEPT !.filters = Append(@, [property |-> on.name, op |-> "=", value |-> on.value])])
CallOrderBy == \E by \in {<<Id, "DESC">>, <<ValueName, "ASC">>} :
    Refine(OrderQuery(query, by[1], by[2]),
           [asked EXCEPT !.order = Append(@, [column |-> by[1], direction |-> by[2]])])
CallLimit  == Refine(LimitQuery(query, 1), [asked EXCEPT !.limit = 1])
CallOffset == Refine(OffsetQuery(query, 1), [asked EXCEPT !.offset = 1])

Tell(op, answer, o) ==
    /\ told' = [op |-> op, answer |-> answer, refused |-> o.refused, broke |-> o.broke, before |-> rows]
    /\ UNCHANGED <<world, mapper, table, asked, res, xp>>

Asks(op, q, Made(_)) == \E o \in SelectOutcomes(BuildSelectSql(q)) :
    Tell(op, IF o.refused THEN Failed ELSE Made(All(q, Class, NewResult(o.driver))), o)

(* Asked again without a change, a query would answer the same; only a     *)
(* first() has touched it.                                                 *)
MayAsk == query # NoQuery /\ told.op \in {"none", "first"}

AskAll   == MayAsk /\ Asks("all", query, LAMBDA answer : answer) /\ UNCHANGED <<rows, query>>
AskFirst ==
    /\ MayAsk /\ Asks("first", ForFirst(query), FirstOf)
    /\ query' = Restored(ForFirst(query), query.limit)
    /\ UNCHANGED rows
AskOne   == MayAsk /\ Asks("one", query, OneOf) /\ UNCHANGED <<rows, query>>
AskOneOrNone == MayAsk /\ Asks("one or none", query, OneOrNoneOf) /\ UNCHANGED <<rows, query>>

AsksNumber(op, Made(_)) == \E o \in SelectOutcomes(CountSql(query)) :
    Tell(op, Made(IF o.refused THEN Failed ELSE Count(NewResult(o.driver))), o)

AskCount  == MayAsk /\ AsksNumber("count", LAMBDA answer : answer) /\ UNCHANGED <<rows, query>>
AskExists == MayAsk /\ AsksNumber("exists", Exists) /\ UNCHANGED <<rows, query>>

AskDelete ==
    /\ MayAsk
    /\ \/ rows' = rows /\ Tell("delete", Failed, Refusal)
       \/ /\ \E read \in Readings(DeleteSql(query)) : Without(Matching(read.where))
          /\ Tell("delete", Answer(<<>>, 0, FALSE), [Refusal EXCEPT !.refused = FALSE])
    /\ UNCHANGED query

-------------------------------------------------------------------------------
(*                         A result of its own                             *)

(* SELECT * of the whole table, as the program writes it; another one for  *)
(* another export.                                                         *)
OwnSelect ==
    /\ query = NoQuery
    /\ res = NoResult \/ (xp.stage = "over" /\ xp.count < world.exports)
    /\ LET sql == W("SELECT") ++ W("*") ++ W("FROM") ++ Name(table.name, world.d)
           cells == [k \in DOMAIN rows |-> CellsOf(k)]
           plain == [k \in DOMAIN rows |-> [c \in DOMAIN table.cols |->
                        ReadCell(world.d, cells[k][c], TypeNames[c])]]
       IN  \E o \in Produced(ColumnNamesOf(table), TypeNames, cells, sql, DOMAIN rows) :
             res' = [r |-> NewResult(o.driver), truth |-> plain, lost |-> o.broke /\ world.d = "mysql"]
    /\ told' = NoAnswer
    /\ UNCHANGED <<world, mapper, table, rows, query, asked, xp>>

(* A result that no further export would be made of is left alone.         *)
MayExport == res # NoResult /\ xp.stage # "rows" /\ xp.count < world.exports
Ahead(r) == [res EXCEPT !.r = r, !.truth = IF HasRow(r) /\ @ # <<>> THEN Tail(@) ELSE @]

StepResult ==
    /\ MayExport /\ res' = Ahead(NextRow(res.r))
    /\ UNCHANGED <<world, mapper, table, rows, query, asked, told, xp>>

(* What a closed result held is nobody's any more.                         *)
DropResult ==
    /\ MayExport /\ res' = [res EXCEPT !.r = CloseResult(@), !.truth = <<>>]
    /\ UNCHANGED <<world, mapper, table, rows, query, asked, told, xp>>

-------------------------------------------------------------------------------
(*                              Exporting                                  *)

Export(x) == xp' = x /\ UNCHANGED <<world, mapper, table, rows, query, asked, told>>
Fails == Export([xp EXCEPT !.stage = "over", !.ok = FALSE])

(* The exporter begins: the header goes out, unless the stream fails or    *)
(* the export was cancelled before it began.                               *)
StartExport(mode, names, left, truth) ==
    /\ \E e \in (IF xp.e = <<>> THEN Exporters ELSE {xp.e}) :
       \E runs \in BOOLEAN :
         Export([e |-> Begun(e), stage |-> IF runs THEN "rows" ELSE "over", mode |-> mode,
                 names |-> names, left |-> left, truth |-> truth, text |-> WriteBegin(Begun(e), names),
                 written |-> 0, ok |-> FALSE, lost |-> mode = "result" /\ res.lost, count |-> xp.count + 1])

ExportResult ==
    /\ MayExport
    /\ StartExport("result", ResultColumns(res.r), <<>>, res.truth)
    /\ UNCHANGED res

(* orm_result_get_all() of what is left, and the export of that array.     *)
ExportRows ==
    /\ MayExport
    /\ \E got \in {GetAll(res.r, <<>>)} :
         /\ res' = [res EXCEPT !.r = got.result, !.truth = SubSeq(@, Len(got.rows) + 1, Len(@))]
         /\ StartExport("rows", RowColumns(got.rows), got.rows,
                        [i \in DOMAIN got.rows |-> got.rows[i].values])

Upcoming == IF xp.mode = "result" THEN NextRow(res.r).row
            ELSE IF xp.left = <<>> THEN NoRow ELSE xp.left[1]
Moves == res' = IF xp.mode = "result" THEN Ahead(NextRow(res.r)) ELSE res

(* Between two rows the export may find itself cancelled, and the stream   *)
(* may refuse a row.                                                       *)
WritesRow ==
    /\ xp.stage = "rows" /\ Upcoming # NoRow /\ Moves
    /\ \/ Fails
       \/ Export([xp EXCEPT !.text = @ \o WriteRow(xp.e, Upcoming), !.e = RowDone(@),
                            !.left = IF @ = <<>> THEN @ ELSE Tail(@), !.written = @ + 1])

(* A result that stopped with an error does not make a document; closing   *)
(* the buffered stream is what sends the last of it, and can fail.         *)
EndsExport ==
    /\ xp.stage = "rows" /\ Upcoming = NoRow /\ Moves
    /\ \/ Fails
       \/ /\ ~(xp.mode = "result" /\ NextRow(res.r).error)
          /\ Export([xp EXCEPT !.text = @ \o WriteEnd(xp.e), !.stage = "over", !.ok = TRUE])

Next ==
    \/ Save \/ OwnInsert \/ RemoveObject \/ BeginQuery
    \/ CallFilter \/ CallFilterBy \/ CallOrderBy \/ CallLimit \/ CallOffset
    \/ AskAll \/ AskFirst \/ AskOne \/ AskOneOrNone \/ AskCount \/ AskExists \/ AskDelete
    \/ OwnSelect \/ StepResult \/ DropResult
    \/ ExportResult \/ ExportRows \/ WritesRow \/ EndsExport

Spec == Init /\ [][Next]_vars

-------------------------------------------------------------------------------
(*                              Properties                                 *)

(* What the program asked for, of the objects as it saved them.            *)
Before == told.before
Meant(i, name) == GetPropertyValue(Class, Before[i].object, name)
Passes(i, f) == Holds(f.op, Meant(i, f.property), f.value) = "true"
Wanted == {i \in DOMAIN Before : \A k \in DOMAIN asked.filters : Passes(i, asked.filters[k])}
WantedPages(limit) == Pages(Wanted, asked.order, Meant, limit, asked.offset)

(* Objects are told apart by their keys.                                   *)
KeysOf(objects) == [i \in DOMAIN objects |-> objects[i][Id][1]]
KeyOf(i) == Before[i].object[Id][1]
Are(objects, page) == KeysOf(objects) = [k \in DOMAIN page |-> KeyOf(page[k])]

(* A server rounds a float, and then it is another.                        *)
Comparable == world.gtype \notin {"float", "double"} \/ world.d = "sqlite"

RightObjects(limit, Enough(_)) ==
    \E page \in WantedPages(limit) :
        \E n \in (IF told.broke THEN 0 .. Len(page) ELSE {Len(page)}) :
            LET part == SubSeq(page, 1, n)
            IN  IF Enough(n) THEN ~told.answer.error /\ Are(told.answer.objects, part)
                ELSE told.answer.error

Counts(n) == told.answer.number \in {n} \cup (IF told.broke THEN {0} ELSE {})

(* An answer that is not an error is the right one: the objects that pass  *)
(* every filter, in the order and on the page asked for, with the limit a  *)
(* first() in between put aside; their number; or their deletion, and no   *)
(* other's.  one() fails exactly when there is not one.  When rows break   *)
(* off the code answers from those before, or a count of zero, and this    *)
(* claims no more.  (orm_query_all() and the calls beside it.)             *)
AnswersAreRight ==
    told.op # "none" /\ ~told.refused /\ Comparable =>
        CASE told.op = "all"         -> RightObjects(asked.limit, LAMBDA n : TRUE)
          [] told.op = "first"       -> RightObjects(1, LAMBDA n : TRUE)
          [] told.op = "one"         -> RightObjects(asked.limit, LAMBDA n : n = 1)
          [] told.op = "one or none" -> RightObjects(asked.limit, LAMBDA n : n <= 1)
          [] told.op = "count"  -> Counts(Cardinality(Wanted))
          [] told.op = "exists" -> Counts(IF Wanted = {} THEN 0 ELSE 1)
          [] told.op = "remove" -> {rows[i] : i \in DOMAIN rows}
                 = {Before[i] : i \in {j \in DOMAIN Before : Before[j].object # told.answer.objects[1]}}
          [] told.op = "delete" -> {rows[i] : i \in DOMAIN rows}
                                     = {Before[i] : i \in DOMAIN Before \ Wanted}

(* The properties a database gives back as it got them.  Elsewhere digits  *)
(* are lost in a single precision column or in "%g", a moment comes back   *)
(* without its zone, bytes as PostgreSQL's text, and MySQL's TEXT as bytes.*)
Faithful(gtype) ==
    \/ world.d = "sqlite"
    \/ gtype \in SignedGTypes \cup UnsignedGTypes \cup {"boolean"}
    \/ gtype = IF world.d = "mysql" THEN "bytes" ELSE "string"

(* The getter of a row that goes with the type the result tells.           *)
ReadAsTold(r, c) ==
    CASE ColumnType(r, c) = "integer" -> <<RowInteger(r.row, c)>>
      [] ColumnType(r, c) = "float"   -> <<RowFloat(r.row, c)>>
      [] ColumnType(r, c) = "boolean" -> NewBoolean(RowBoolean(r.row, c)).v
      [] ColumnType(r, c) = "string"  -> RowString(r.row, c)
      [] ColumnType(r, c) = "blob"    -> GetBlob(ValueAt(r.row, c))

ReadByHand(r, object) ==
    \A c \in 1 .. ColumnCount(r) :
        LET value == GetPropertyValue(Class, object, Class.pspecs[c].name)
        IN  IF IsNull(value) THEN RowIsNull(r.row, c)
            ELSE ReadAsTold(r, c) = IF value.type = "datetime" THEN IsoText(value.v) ELSE value.v

(* An object that is loaded is the object that was saved, for every type   *)
(* that is not known to suffer on the way through orm_value_from_gvalue(), *)
(* the driver's binding, the column, the driver's reading and              *)
(* orm_value_to_gvalue_with_type(); and so is a row that is read with the  *)
(* getters that go with orm_result_get_column_type().                      *)
SavedIsLoaded ==
    Faithful(world.gtype) =>
        /\ \A k \in DOMAIN told.answer.objects : \E i \in DOMAIN Before :
               Before[i].object = told.answer.objects[k]
        /\ res # NoResult => (HasRow(res.r) => ReadByHand(res.r, rows[res.r.driver.at].object))

-------------------------------------------------------------------------------
(* What a reader of the document must find of a value.                     *)
Spelled(value) ==
    CASE value.type \in {"integer", "float"} -> Decimal(Number(value))
      [] value.type = "boolean" -> IF Number(value) = 1 THEN TrueText ELSE FalseText
      [] value.type = "blob"    -> Base64(value.v)
      [] OTHER                  -> value.v

CsvLines ==
    LET Field(value) == IF IsNull(value) THEN xp.e.set.null ELSE Spelled(value)
    IN  (IF xp.e.set.header /\ xp.names # <<>> THEN <<xp.names>> ELSE <<>>)
          \o [i \in DOMAIN xp.truth |-> [c \in DOMAIN xp.truth[i] |-> Field(xp.truth[i][c])]]

JsonTree ==
    LET Text(s) == <<"string", s>>
        Item(value) == IF IsNull(value) THEN <<"null">>
                       ELSE IF value.type \in {"integer", "float", "boolean"}
                       THEN <<"bare", Spelled(value)>> ELSE Text(Spelled(value))
        Array(items) == <<"array", items>>
        Row(values) ==
            Array(IF xp.e.set.layout = "arrays" THEN [c \in DOMAIN values |-> Item(values[c])]
                  ELSE [k \in 1 .. 2 * Len(values) |->
                           IF k % 2 = 1 THEN Text(xp.names[(k + 1) \div 2]) ELSE Item(values[k \div 2])])
        Body == Array([i \in DOMAIN xp.truth |-> Row(xp.truth[i])])
    IN  IF ~Wraps(xp.e.set) THEN Body
        ELSE Array(<<Text(<<99>>), Array([c \in DOMAIN xp.names |-> Text(xp.names[c])]),
                     Text(<<114>>), Body>>)

Complete ==
    /\ xp.written = Len(xp.truth)
    /\ IF xp.e.format = "csv" THEN ReadCsv(xp.text, xp.e.set) = CsvLines ELSE ReadJson(xp.text) = JsonTree

(* An export that returned TRUE: a reader of the format finds the header   *)
(* and every row that was still to come, each value as it was, in one      *)
(* document, and rows_written counts them; this of every export made with  *)
(* one exporter, whatever the cancellations and failures of the others.    *)
(* (orm_exporter_export_result(), orm_exporter_export_rows() and the CSV   *)
(* and JSON hooks.)  A result MySQL lost is left to the next property.     *)
ExportIsWhole == xp.stage = "over" /\ xp.ok /\ ~xp.lost => Complete

(* The same without exception: orm-exporter.c says that a short file that  *)
(* looks complete is the one failure an export must never have.            *)
NoShortFile == xp.stage = "over" /\ xp.ok => Complete
===============================================================================
