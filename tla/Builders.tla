-------------------------------- MODULE Builders -------------------------------
(***************************************************************************)
(* A program that builds a statement of src/sql/ call by call, from        *)
(* conditions it combines and negates.  Beside the statement goes what the *)
(* program asked for; at any moment the statement can be compiled for any  *)
(* dialect, with its values as parameters or written out, and sent.        *)
(***************************************************************************)
EXTENDS SqlGrammar

CONSTANTS
    Rows,           \* a sequence of rows, functions of column names to values
    FirstTests,     \* the comparisons a condition may start with
    MoreTests,      \* the ones it may be extended with
    MaxTests,       \* comparisons in all the conditions of a statement
    MaxCalls,       \* calls that add a clause
    MaxSteps        \* comparisons and calls together

VARIABLES
    held,           \* the condition the program holds, and what it should mean
    stmt,           \* the statement
    asked,          \* what the program asked of it
    tests, calls    \* counted for the bounds

vars == <<held, stmt, asked, tests, calls>>

(* A condition and what it should be on each row.                          *)
Nil == [e |-> NoExpr, means |-> <<>>]
EveryRow == [i \in DOMAIN Rows |-> "true"]

Column(name) == NewColumnElement(name)

(* What a test asks of a row, by its name in the program: IN is documented *)
(* not to be implemented, and is never true.                               *)
TestMeans(test, row) ==
    CASE test.op \in {"IS NULL", "IS NOT NULL"} -> Holds(test.op, row[test.column], NullValue)
      [] test.op = "IN" -> "unknown"
      [] OTHER -> Holds(test.op, row[test.column], test.value)

Test(test) ==
    [e |-> CASE test.op = "LIKE"        -> ColumnLike(Column(test.column), test.value.v)
             [] test.op = "IS NULL"     -> ColumnIsNull(Column(test.column))
             [] test.op = "IS NOT NULL" -> ColumnIsNotNull(Column(test.column))
             [] test.op = "IN"          -> ColumnIn(Column(test.column), <<test.value>>)
             [] OTHER -> ColumnCompare(Column(test.column), test.op, NewLiteral(test.value)),
     means |-> [i \in DOMAIN Rows |-> TestMeans(test, Rows[i])]]

Both(F(_, _), s, t) == [i \in DOMAIN Rows |-> F(s[i], t[i])]

-------------------------------------------------------------------------------
Init ==
    /\ held = Nil
    /\ stmt = NoExpr /\ asked = NoExpr
    /\ tests = 0 /\ calls = 0

(*                             Conditions                                  *)

(* A condition has nothing to do with a statement until it is handed over: *)
(* the program starts with the statement, to keep the orders few.          *)
MayTest ==
    stmt # NoExpr /\ tests < MaxTests /\ calls < MaxCalls /\ tests + calls < MaxSteps - 1

MakeTest ==
    /\ held = Nil /\ MayTest
    /\ \E test \in FirstTests : held' = Test(test)
    /\ tests' = tests + 1
    /\ UNCHANGED <<stmt, asked, calls>>

(* orm_expression_and() and orm_expression_or().                           *)
ExtendTest ==
    /\ held # Nil /\ MayTest
    /\ \E test \in MoreTests :
         LET other == Test(test)
         IN  \/ held' = [e |-> And(held.e, other.e), means |-> Both(Conj, held.means, other.means)]
             \/ held' = [e |-> Or(held.e, other.e), means |-> Both(Disj, held.means, other.means)]
    /\ tests' = tests + 1
    /\ UNCHANGED <<stmt, asked, calls>>

NegateTest ==
    /\ held # Nil
    /\ held' = [e |-> Negate(held.e), means |-> [i \in DOMAIN Rows |-> Neg(held.means[i])]]
    /\ UNCHANGED <<stmt, asked, tests, calls>>

-------------------------------------------------------------------------------
(*                             Statements                                  *)

Begin(s, a) == stmt = NoExpr /\ stmt' = s /\ asked' = a /\ UNCHANGED <<held, tests, calls>>

BeginSelect == Begin(From(NewSelect, "t"), [kind |-> "select", distinct |-> FALSE, columns |-> <<>>,
    from |-> NewTableClause("t"), joins |-> <<>>, where |-> EveryRow, group |-> <<>>, having |-> EveryRow,
    order |-> <<>>, limit |-> NoValue, offset |-> NoValue])
BeginInsert == Begin(NewInsert("t"),
    [kind |-> "insert", table |-> "t", sets |-> <<>>, returning |-> <<>>])
BeginUpdate == Begin(NewUpdate("t"),
    [kind |-> "update", table |-> "t", sets |-> <<>>, where |-> EveryRow, returning |-> <<>>])
BeginDelete == Begin(NewDelete("t"),
    [kind |-> "delete", table |-> "t", where |-> EveryRow, returning |-> <<>>])

(* One call of a statement of one of these kinds.                          *)
Call(kinds, s, a) ==
    /\ stmt # NoExpr /\ stmt.kind \in kinds
    /\ calls < MaxCalls /\ tests + calls < MaxSteps
    /\ stmt' = s /\ asked' = a /\ calls' = calls + 1
    /\ UNCHANGED tests

(* The builder takes the condition, if the call has one; between the parts *)
(* of a condition other calls would change nothing, and are left out.      *)
Takes == held # Nil /\ held' = Nil
Keeps == held = Nil /\ UNCHANGED held

Conditional == {"select", "update", "delete"}

CallWhere ==
    Takes /\ Call(Conditional, Where(stmt, held.e), [asked EXCEPT !.where = held.means])
CallAndWhere ==
    Takes /\ Call(Conditional, AndWhere(stmt, held.e),
                  [asked EXCEPT !.where = Both(Conj, @, held.means)])
(* The first or_where() is a where().                                      *)
CallOrWhere ==
    Takes /\ Call({"select"}, OrWhere(stmt, held.e),
                  [asked EXCEPT !.where = IF stmt.where = NoExpr THEN held.means
                                          ELSE Both(Disj, @, held.means)])
CallHaving ==
    Takes /\ Call({"select"}, Having(stmt, held.e), [asked EXCEPT !.having = held.means])
CallJoin == \E type \in DOMAIN JoinWords :
    Takes /\ Call({"select"}, Join(stmt, "u", held.e, type),
                  [asked EXCEPT !.joins = Append(@,
                      [type |-> type, table |-> "u",
                       condition |-> IF type = "cross" THEN EveryRow ELSE held.means])])

(* A name of the program's: a plain one, or one with a quote in it.        *)
OrQuoted(name) == {name} \cup DOMAIN QuoteIn

CallFrom == \E table \in OrQuoted("u") :
    Keeps /\ Call({"select"}, From(stmt, table), [asked EXCEPT !.from = NewTableClause(table)])
CallFromClause ==
    LET table == NewTableClauseWithAlias("t", "x")
    IN  Keeps /\ Call({"select"}, FromClause(stmt, table), [asked EXCEPT !.from = table])
CallColumns ==
    Keeps /\ Call({"select"}, SelectColumns(stmt, <<"a", "b">>),
                  [asked EXCEPT !.columns = @ \o <<Column("a"), Column("b")>>])
CallColumn == \E name \in OrQuoted("a") :
    Keeps /\ Call({"select"}, SelectColumn(stmt, name),
                  [asked EXCEPT !.columns = Append(@, Column(name))])
(* A column of the table under the name the statement gives it.            *)
CallColumnExpr ==
    /\ Keeps /\ stmt # NoExpr /\ stmt.kind = "select"
    /\ \E e \in {NewColumnElementWithTable(EffectiveName(stmt.from), "b"),
                 NewLiteral(NewInteger(3))} :
         Call({"select"}, AddColumnExpr(stmt, Clone(e)), [asked EXCEPT !.columns = Append(@, e)])
CallOrderBy == \E direction \in {"ASC", "DESC"}, name \in OrQuoted("b") :
    Keeps /\ Call({"select"}, OrderBy(stmt, name, direction),
        [asked EXCEPT !.order = Append(@, [column |-> name, direction |-> direction])])
CallGroupBy ==
    Keeps /\ Call({"select"}, GroupBy(stmt, "a"), [asked EXCEPT !.group = Append(@, "a")])
CallLimit ==
    Keeps /\ Call({"select"}, Limit(stmt, 2), [asked EXCEPT !.limit = NewInteger(2)])
CallOffset ==
    Keeps /\ Call({"select"}, Offset(stmt, 1), [asked EXCEPT !.offset = NewInteger(1)])
CallDistinct == \E b \in BOOLEAN :
    Keeps /\ Call({"select"}, Distinct(stmt, b), [asked EXCEPT !.distinct = b])

(* The values of an assignment: enough to tell one type from another.      *)
Assigned == {NewInteger(7), NewFloat(12), NewBoolean(TRUE), NewString(<<39>>),
             NewString(<<92, 39>>), NewBlob(<<0>>), NewDateTime(<<5>>), NullValue}
Assignment(column, value) == [column |-> column, value |-> NewLiteral(value)]

CallInsertColumn == \E value \in Assigned :
    Keeps /\ Call({"insert"}, InsertColumn(stmt, "a", value),
                  [asked EXCEPT !.sets = Append(@, Assignment("a", value))])
CallInsertColumnExpr == \E name \in OrQuoted("b") :
    Keeps /\ Call({"insert"}, InsertColumnExpr(stmt, name, NewLiteral(NullValue)),
                  [asked EXCEPT !.sets = Append(@, Assignment(name, NullValue))])
CallSet == \E value \in Assigned :
    Keeps /\ Call({"update"}, Set(stmt, "a", value),
                  [asked EXCEPT !.sets = Append(@, Assignment("a", value))])
CallSetExpr == \E name \in OrQuoted("b") :
    Keeps /\ Call({"update"}, SetExpr(stmt, name, Column("a")),
                  [asked EXCEPT !.sets = Append(@, [column |-> name, value |-> Column("a")])])
(* returning_all() outdoes any list of names.                              *)
CallReturning == \E name \in OrQuoted("b") :
    Keeps /\ Call({"insert", "update", "delete"}, Returning(stmt, <<"a", name>>),
                  [asked EXCEPT !.returning = IF stmt.returningAll THEN @ ELSE @ \o <<"a", name>>])
CallReturningAll ==
    Keeps /\ Call({"insert", "update", "delete"}, ReturningAll(stmt),
                  [asked EXCEPT !.returning = <<"*">>])

Next ==
    \/ MakeTest \/ ExtendTest \/ NegateTest
    \/ BeginSelect \/ BeginInsert \/ BeginUpdate \/ BeginDelete
    \/ CallWhere \/ CallAndWhere \/ CallOrWhere \/ CallHaving \/ CallJoin
    \/ CallFrom \/ CallFromClause \/ CallColumns \/ CallColumn \/ CallColumnExpr
    \/ CallOrderBy \/ CallGroupBy \/ CallLimit \/ CallOffset \/ CallDistinct
    \/ CallInsertColumn \/ CallInsertColumnExpr \/ CallSet \/ CallSetExpr
    \/ CallReturning \/ CallReturningAll

Spec == Init /\ [][Next]_vars

-------------------------------------------------------------------------------
(*                              Properties                                 *)

(* A statement that can be compiled: an INSERT and an UPDATE have a column.*)
Complete ==
    /\ stmt # NoExpr
    /\ stmt.kind \in {"insert", "update"} => asked.sets # <<>>

(* What the database of a dialect has: RETURNING where the dialect says    *)
(* so, an OFFSET after a LIMIT but on PostgreSQL, no FULL JOIN on MySQL.   *)
Offered(d) ==
    IF stmt.kind = "select"
    THEN /\ d # "postgres" /\ stmt.offset # NoValue => stmt.limit # NoValue
         /\ d = "mysql" => \A i \in DOMAIN stmt.joins : stmt.joins[i].type # "full"
    ELSE (stmt.returningAll \/ stmt.returning # <<>>) => Supports(d, "returning")

(* How a statement can be sent: with parameters or written out; written    *)
(* out to PostgreSQL, since the text has "?" where that one wants "$1".    *)
Sent == {<<d, inline>> \in Dialects \X BOOLEAN : Offered(d) /\ (d = "postgres" => inline)}

(* What the text of orm-literal.c and quote_identifier() is wrong for, and *)
(* the first two properties leave out, statement and all.  A value: MySQL reads the      *)
(* backslash of a string that is written out as its own, and PostgreSQL    *)
(* takes neither 1 for a BOOLEAN nor X'..' for bytes.  A name: the quote   *)
(* character in it is not doubled, and ends it.                            *)
MiswrittenFor(d, value) ==
    CASE d = "mysql"    -> value.type = "string" /\ \E i \in DOMAIN value.v : value.v[i] = Backslash
      [] d = "postgres" -> value.type \in {"boolean", "blob"}
      [] d = "sqlite"   -> FALSE
Miswritten(d, inline) ==
    /\ inline /\ stmt.kind \in {"insert", "update"}
    /\ \E i \in DOMAIN asked.sets :
         asked.sets[i].value.kind = "literal" /\ MiswrittenFor(d, asked.sets[i].value.value)
IsOddName(token, d) == Len(token) = 3 /\ ClosesItself(token[3], Fact(d, "quote"))
Excepted(sql, d, inline) ==
    Miswritten(d, inline) \/ \E i \in DOMAIN sql.text : IsOddName(sql.text[i], d)

Means(e) == IF e = NoExpr THEN EveryRow ELSE [i \in DOMAIN Rows |-> Truth(e, Rows[i])]
ReadJoinMeans(joins) == [i \in DOMAIN joins |-> Means(joins[i].condition)]

(* What a database understands of the statement it is sent.                *)
Understood(Says(_, _)) ==
    Complete /\ held = Nil => \A way \in Sent : \A sql \in {Compile(stmt, way[1], way[2])} :
        \/ Excepted(sql, way[1], way[2])
        \/ /\ ParametersFit(sql, way[1])
           /\ \A read \in {ReadStatement(sql, way[1])} : Says(read, way)

SameConditions(read, way) ==
    /\ stmt.kind \in Conditional => Means(read.where) = asked.where
    /\ stmt.kind = "select" =>
         /\ Means(read.having) = asked.having
         /\ ReadJoinMeans(read.joins) = [i \in DOMAIN asked.joins |-> asked.joins[i].condition]

(* A value that is written out keeps its number, its bytes or its text: a  *)
(* moment becomes its text, a truth a number where the database has no     *)
(* BOOLEAN, and of a float the digits that "%g" writes are kept.           *)
Text(value, d) ==
    CASE value.type = "float"    -> NewFloat(Rounded(Number(value), ShortDigits))
      [] value.type = "boolean" /\ ~Supports(d, "boolean") -> NewInteger(Number(value))
      [] value.type = "datetime" -> NewString(IsoText(value.v))
      [] OTHER                   -> value
Kept(sent, e, way) ==
    sent = IF way[2] /\ e.kind = "literal" THEN NewLiteral(Text(e.value, way[1])) ELSE e

SameSelect(read, way) ==
    /\ \A key \in {"distinct", "from", "group", "order", "limit", "offset"} : read[key] = asked[key]
    /\ Len(read.columns) = Len(asked.columns)
    /\ \A i \in DOMAIN read.columns : Kept(read.columns[i], asked.columns[i], way)
    /\ [i \in DOMAIN read.joins |-> <<read.joins[i].type, read.joins[i].table>>]
         = [i \in DOMAIN asked.joins |-> <<asked.joins[i].type, asked.joins[i].table>>]

SameChange(read, way) ==
    /\ read.table = asked.table /\ read.returning = asked.returning
    /\ stmt.kind \in {"insert", "update"} =>
         /\ Len(read.sets) = Len(asked.sets)
         /\ \A i \in DOMAIN read.sets : /\ read.sets[i].column = asked.sets[i].column
                                        /\ Kept(read.sets[i].value, asked.sets[i].value, way)

SameClauses(read, way) ==
    read.kind = stmt.kind /\ IF read.kind = "select" THEN SameSelect(read, way)
                             ELSE SameChange(read, way)

(* Every condition of the text, with its parameters in their places, is    *)
(* true, false or unknown for exactly the rows for which the program asked *)
(* it to be: through and_where, or_where, negation and precedence          *)
(* (orm-binary-expression.c, orm-select.c).                                *)
ConditionsMean == Understood(SameConditions)

(* Every other clause of the text says what the program asked for, each    *)
(* value at its column, whether passed or written out, and there are as    *)
(* many placeholders as parameters (the compile() of each statement,       *)
(* orm-literal.c); but for the values and names that are excepted above.   *)
ClausesSurvive == Understood(SameClauses)
===============================================================================
