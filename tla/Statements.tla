------------------------------- MODULE Statements ------------------------------
(***************************************************************************)
(* OrmSelect, OrmInsert, OrmUpdate and OrmDelete of src/sql/: what each    *)
(* call adds to a statement, and the text a statement compiles to.         *)
(***************************************************************************)
EXTENDS Expression

NewSelect == [kind |-> "select", from |-> NoExpr, columns |-> <<>>, where |-> NoExpr,
              order |-> <<>>, group |-> <<>>, having |-> NoExpr, joins |-> <<>>,
              limit |-> NoValue, offset |-> NoValue, distinct |-> FALSE]
NewInsert(table) == [kind |-> "insert", table |-> table, columns |-> <<>>,
                     returning |-> <<>>, returningAll |-> FALSE]
NewUpdate(table) == [kind |-> "update", table |-> table, sets |-> <<>>, where |-> NoExpr,
                     returning |-> <<>>, returningAll |-> FALSE]
NewDelete(table) == [kind |-> "delete", table |-> table, where |-> NoExpr,
                     returning |-> <<>>, returningAll |-> FALSE]

-------------------------------------------------------------------------------
(*                          What the calls add                             *)

From(s, table)       == [s EXCEPT !.from = NewTableClause(table)]
FromClause(s, table) == [s EXCEPT !.from = table]

AddColumnExpr(s, e) == [s EXCEPT !.columns = Append(@, e)]
SelectColumn(s, name) == AddColumnExpr(s, NewColumnElement(name))
SelectColumns(s, names) ==
    [s EXCEPT !.columns = @ \o [i \in DOMAIN names |-> NewColumnElement(names[i])]]

(* where() replaces the condition; the other two extend it.                *)
Where(s, condition) == [s EXCEPT !.where = condition]
AndWhere(s, condition) ==
    [s EXCEPT !.where = IF @ = NoExpr THEN condition ELSE And(@, condition)]
OrWhere(s, condition) ==
    [s EXCEPT !.where = IF @ = NoExpr THEN condition ELSE Or(@, condition)]
Having(s, condition) == [s EXCEPT !.having = condition]

OrderBy(s, column, direction) ==
    [s EXCEPT !.order = Append(@, [column |-> column, direction |-> direction])]
Limit(s, n)     == [s EXCEPT !.limit = NewInteger(n)]
Offset(s, n)    == [s EXCEPT !.offset = NewInteger(n)]
Distinct(s, b)  == [s EXCEPT !.distinct = b]
GroupBy(s, column) == [s EXCEPT !.group = Append(@, column)]
Join(s, table, condition, type) ==
    [s EXCEPT !.joins = Append(@, [table |-> table, condition |-> condition, type |-> type])]

InsertColumnExpr(s, column, e) ==
    [s EXCEPT !.columns = Append(@, [column |-> column, value |-> e])]
InsertColumn(s, column, value) == InsertColumnExpr(s, column, NewLiteral(value))

SetExpr(s, column, e)  == [s EXCEPT !.sets = Append(@, [column |-> column, value |-> e])]
Set(s, column, value)  == SetExpr(s, column, NewLiteral(value))

Returning(s, names) == [s EXCEPT !.returning = @ \o names]
ReturningAll(s)     == [s EXCEPT !.returningAll = TRUE]

-------------------------------------------------------------------------------
(*                               Compiling                                 *)

Clause(word, e, d, inline) ==
    IF e = NoExpr THEN Nothing ELSE W(word) ++ CompileExpr(e, d, inline)

Names(names, d) == LET N(i) == Name(names[i], d) IN Listed(Len(names), N)

SelectList(s, d, inline) ==
    LET C(i) == CompileExpr(s.columns[i], d, inline)
    IN  IF s.columns = <<>> THEN W("*") ELSE Listed(Len(s.columns), C)

JoinWords == [inner |-> "INNER JOIN", left |-> "LEFT JOIN", right |-> "RIGHT JOIN",
              full |-> "FULL OUTER JOIN", cross |-> "CROSS JOIN"]

(* The condition of a CROSS JOIN is not written.                           *)
CompileJoins(s, d, inline) ==
    LET J(j) == W(JoinWords[j.type]) ++ Name(j.table, d)
                  ++ (IF j.type = "cross" THEN Nothing
                      ELSE W("ON") ++ CompileExpr(j.condition, d, inline))
        all[i \in 0 .. Len(s.joins)] == IF i = 0 THEN Nothing ELSE all[i - 1] ++ J(s.joins[i])
    IN  all[Len(s.joins)]

CompileGroupBy(s, d) ==
    IF s.group = <<>> THEN Nothing ELSE W("GROUP BY") ++ Names(s.group, d)

CompileOrderBy(s, d) ==
    LET O(i) == Name(s.order[i].column, d) ++ W(s.order[i].direction)
    IN  IF s.order = <<>> THEN Nothing ELSE W("ORDER BY") ++ Listed(Len(s.order), O)

(* The numbers are written into the text, never passed as parameters.      *)
CompilePage(s) ==
    LET N(word, n) == IF n = NoValue THEN Nothing
                      ELSE W(word) ++ Sql(<<ValueToken(n)>>)
    IN  N("LIMIT", s.limit) ++ N("OFFSET", s.offset)

CompileSelect(s, d, inline) ==
    W("SELECT") ++ (IF s.distinct THEN W("DISTINCT") ELSE Nothing)
      ++ SelectList(s, d, inline) ++ W("FROM") ++ CompileExpr(s.from, d, inline)
      ++ CompileJoins(s, d, inline) ++ Clause("WHERE", s.where, d, inline)
      ++ CompileGroupBy(s, d) ++ Clause("HAVING", s.having, d, inline)
      ++ CompileOrderBy(s, d) ++ CompilePage(s)

CompileReturning(s, d) ==
    IF s.returningAll THEN W("RETURNING") ++ W("*")
    ELSE IF s.returning = <<>> THEN Nothing
    ELSE W("RETURNING") ++ Names(s.returning, d)

CompileInsert(s, d, inline) ==
    LET N(i) == Name(s.columns[i].column, d)
        V(i) == CompileExpr(s.columns[i].value, d, inline)
        n    == Len(s.columns)
    IN  W("INSERT INTO") ++ Name(s.table, d) ++ W("(") ++ Listed(n, N) ++ W(")")
          ++ W("VALUES") ++ W("(") ++ Listed(n, V) ++ W(")") ++ CompileReturning(s, d)

CompileUpdate(s, d, inline) ==
    LET A(i) == Name(s.sets[i].column, d) ++ W("=") ++ CompileExpr(s.sets[i].value, d, inline)
    IN  W("UPDATE") ++ Name(s.table, d) ++ W("SET") ++ Listed(Len(s.sets), A)
          ++ Clause("WHERE", s.where, d, inline) ++ CompileReturning(s, d)

CompileDelete(s, d, inline) ==
    W("DELETE FROM") ++ Name(s.table, d) ++ Clause("WHERE", s.where, d, inline)
      ++ CompileReturning(s, d)

Compile(s, d, inline) ==
    CASE s.kind = "select" -> CompileSelect(s, d, inline)
      [] s.kind = "insert" -> CompileInsert(s, d, inline)
      [] s.kind = "update" -> CompileUpdate(s, d, inline)
      [] s.kind = "delete" -> CompileDelete(s, d, inline)
===============================================================================
