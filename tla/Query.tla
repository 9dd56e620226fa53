--------------------------------- MODULE Query ---------------------------------
(***************************************************************************)
(* OrmQuery (src/orm/orm-query.c): what a query collects, the SQL it       *)
(* writes by hand, and what it makes of the rows.  The statements of the   *)
(* unit of work, which are written the same way, are here too.  Every name *)
(* is in double quotes and every parameter a "?", whatever the database.   *)
(***************************************************************************)
EXTENDS Statements, Mapping, Result

LOCAL INSTANCE SequencesExt

NewQuery(mapper) ==
    [mapper |-> mapper, filters |-> <<>>, order |-> <<>>, limit |-> -1, offset |-> 0]

(* A name that is no property's is taken for a column's.                   *)
ColumnOf(mapper, name) ==
    LET prop == GetProperty(mapper, name)
    IN  IF prop = <<>> THEN name ELSE GetColumnName(prop[1])

Filter(q, name, op, value) ==
    IF q.mapper = NoMapper THEN q
    ELSE [q EXCEPT !.filters = Append(@, [property |-> name, column |-> ColumnOf(q.mapper, name),
                                          op |-> op, value |-> value])]
FilterBy(q, name, value) == Filter(q, name, "=", value)
OrderQuery(q, name, direction) ==
    [q EXCEPT !.order = Append(@, [column |-> ColumnOf(q.mapper, name), direction |-> direction])]
LimitQuery(q, n)  == [q EXCEPT !.limit = n]
OffsetQuery(q, n) == [q EXCEPT !.offset = n]

-------------------------------------------------------------------------------
(*                                 Text                                    *)

DoubleQuoted(name) == Sql(<<<<"name", DoubleQuote, name>>>>)
Parameter(value)   == SqlWithParam(<<Word("?")>>, IF value = NoValue THEN NullValue ELSE Copy(value))

(* An operator without SQL of its own becomes "=".                         *)
FilterOpToSql(op) ==
    IF op \in {"=", "!=", "<", "<=", ">", ">=", "LIKE", "IN", "IS NULL", "IS NOT NULL"}
    THEN op ELSE "="

FilterSql(filter) ==
    DoubleQuoted(filter.column) ++ W(FilterOpToSql(filter.op))
      ++ IF filter.op \in {"IS NULL", "IS NOT NULL"} THEN Nothing ELSE Parameter(filter.value)

Joined(n, word, Piece(_)) ==
    LET list[i \in 0 .. n] ==
          IF i = 0 THEN Nothing ELSE IF i = 1 THEN Piece(1) ELSE list[i - 1] ++ W(word) ++ Piece(i)
    IN  list[n]

WhereSql(q) ==
    LET F(i) == FilterSql(q.filters[i])
    IN  IF q.filters = <<>> THEN Nothing ELSE W("WHERE") ++ Joined(Len(q.filters), "AND", F)

OrderSql(q) ==
    LET O(i) == DoubleQuoted(q.order[i].column) ++ W(q.order[i].direction)
    IN  IF q.order = <<>> THEN Nothing ELSE W("ORDER BY") ++ Listed(Len(q.order), O)

PageSql(q) ==
    LET N(word, n) == W(word) ++ Sql(<<ValueToken(NewInteger(n))>>)
    IN  (IF q.limit >= 0 THEN N("LIMIT", q.limit) ELSE Nothing)
          ++ (IF q.offset > 0 THEN N("OFFSET", q.offset) ELSE Nothing)

BuildSelectSql(q) ==
    W("SELECT") ++ W("*") ++ W("FROM") ++ DoubleQuoted(GetTableName(q.mapper))
      ++ WhereSql(q) ++ OrderSql(q) ++ PageSql(q)

CountSql(q) ==
    W("SELECT") ++ W("COUNT(*)") ++ W("FROM") ++ DoubleQuoted(GetTableName(q.mapper)) ++ WhereSql(q)
DeleteSql(q) == W("DELETE FROM") ++ DoubleQuoted(GetTableName(q.mapper)) ++ WhereSql(q)

BuildInsertSql(mapper, class, object) ==
    LET columns == GetInsertColumns(mapper)
        C(i) == DoubleQuoted(columns[i])
        V(i) == SqlWithParam(<<Word("?")>>, GetPropertyValue(class, object,
                                 GetPropertyByColumn(mapper, columns[i])[1].name))
    IN  W("INSERT INTO") ++ DoubleQuoted(GetTableName(mapper)) ++ W("(") ++ Listed(Len(columns), C)
          ++ W(")") ++ W("VALUES") ++ W("(") ++ Listed(Len(columns), V) ++ W(")")

BuildDeleteSql(mapper, class, object) ==
    LET pk == GetPrimaryKeyProperty(mapper)[1]
    IN  W("DELETE FROM") ++ DoubleQuoted(GetTableName(mapper)) ++ W("WHERE") ++ DoubleQuoted(pk.column)
          ++ W("=") ++ SqlWithParam(<<Word("?")>>, GetPropertyValue(class, object, pk.name))

-------------------------------------------------------------------------------
(*                                Answers                                  *)

RowToObject(mapper, class, row) ==
    LET Load(object, prop) ==
          LET value == ValueByName(row, prop.column)
          IN  IF value = NoValue THEN object
              ELSE SetPropertyValue(class, object, prop.name, value)
    IN  FoldLeft(Load, NewObject(class), mapper.list)

(* What a call answers: objects, a number, and whether it set an error.    *)
Answer(objects, number, error) == [objects |-> objects, number |-> number, error |-> error]
Failed == Answer(<<>>, -1, TRUE)

(* The rows up to the first that does not come, for whatever reason.       *)
All(q, class, result) ==
    LET rows == GetAll(result, <<>>).rows
    IN  Answer([i \in DOMAIN rows |-> RowToObject(q.mapper, class, rows[i])], Len(rows), FALSE)

(* first() runs the query it is given with limit 1, and takes one row.     *)
FirstOf(answer) ==
    IF answer.objects = <<>> THEN answer ELSE [answer EXCEPT !.objects = <<@[1]>>]
ForFirst(q) == [q EXCEPT !.limit = 1]
(* A mutant: the limit of first() stays behind.                            *)
StaysLimited(q, limit) == q
Restored(q, limit) == [q EXCEPT !.limit = limit]

OneOf(answer)       == IF Len(answer.objects) # 1 THEN Failed ELSE answer
OneOrNoneOf(answer) == IF Len(answer.objects) > 1 THEN Failed ELSE answer

(* A count that does not come is 0.                                        *)
Count(result) ==
    LET value == GetScalar(result)
    IN  Answer(<<>>, IF value = NoValue THEN 0 ELSE GetInteger(value), FALSE)
Exists(answer) == [answer EXCEPT !.number = IF @ > 0 THEN 1 ELSE 0]
===============================================================================
