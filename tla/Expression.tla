------------------------------- MODULE Expression ------------------------------
(***************************************************************************)
(* The expressions of src/sql/: columns, table clauses, literals and the   *)
(* comparisons and connectives over them, and the SQL each compiles to.    *)
(*                                                                         *)
(* Text is a sequence of tokens, and what is compiled is a record of the   *)
(* text and of the parameters appended on the way: compiling two things    *)
(* one after the other appends both.                                       *)
(***************************************************************************)
EXTENDS Value, Dialect

LOCAL INSTANCE SequencesExt

NoExpr == [kind |-> "none"]
Apostrophe == 39

Word(w)     == <<w>>
ValueToken(v) == <<"value", v>>

(* quote_identifier(), of which each file has a copy: a quote on each side *)
(* of the name, whose own characters stay as they are.                     *)
Identifier(name, d) == <<"name", IF d = "mysql" THEN BackQuote ELSE DoubleQuote, name>>

-------------------------------------------------------------------------------
(*                         Compiled text                                   *)

Sql(tokens)          == [text |-> tokens, params |-> <<>>]
SqlWithParam(tokens, v) == [text |-> tokens, params |-> <<v>>]
a ++ b               == [text |-> a.text \o b.text, params |-> a.params \o b.params]
W(w)                 == Sql(<<Word(w)>>)
Name(name, d)        == Sql(<<Identifier(name, d)>>)
Nothing              == Sql(<<>>)

(* The pieces Piece(1) .. Piece(n), with commas between.                   *)
Listed(n, Piece(_)) ==
    LET list[i \in 0 .. n] ==
          IF i = 0 THEN Nothing
          ELSE IF i = 1 THEN Piece(1)
          ELSE list[i - 1] ++ W(",") ++ Piece(i)
    IN  list[n]

-------------------------------------------------------------------------------
(*                      Columns, tables, literals                          *)

NewColumnElement(name) == [kind |-> "column", table |-> None, name |-> name]
NewColumnElementWithTable(table, name) == [kind |-> "column", table |-> table, name |-> name]

CompileColumn(e, d) ==
    IF e.table = None THEN Name(e.name, d)
    ELSE Name(e.table, d) ++ W(".") ++ Name(e.name, d)

NewTableClause(table) == [kind |-> "table", name |-> table, alias |-> None]
NewTableClauseWithAlias(table, alias) == [kind |-> "table", name |-> table, alias |-> alias]

EffectiveName(table) == IF table.alias = None THEN table.name ELSE table.alias

CompileTable(e, d) ==
    IF e.alias = None THEN Name(e.name, d)
    ELSE Name(e.name, d) ++ W("AS") ++ Name(e.alias, d)

NewLiteral(value) == [kind |-> "literal", value |-> value]

(* A quote inside a string is doubled; a byte is two hexadecimal digits.   *)
Undoubled(s) == s       \* a mutant
Escaped(s) ==
    FlattenSeq([i \in DOMAIN s |-> IF s[i] = Apostrophe THEN <<s[i], s[i]>> ELSE <<s[i]>>])
Hexadecimal(s) == FlattenSeq([i \in DOMAIN s |-> <<s[i] \div 16, s[i] % 16>>])

(* A number has the digits of "%g", a truth is 1 or 0.                     *)
WrittenOut(value) ==
    CASE value.type = "float"    -> ValueToken(NewFloat(Rounded(Number(value), ShortDigits)))
      [] value.type = "boolean"  -> ValueToken(NewInteger(IF GetBoolean(value) THEN 1 ELSE 0))
      [] value.type = "string"   -> <<"quoted", Escaped(value.v)>>
      [] value.type = "datetime" -> <<"quoted", Escaped(IsoText(value.v))>>
      [] value.type = "blob"     -> <<"hex", Hexadecimal(value.v)>>
      [] OTHER                   -> ValueToken(value)

CompileLiteral(e, inline) ==
    IF inline THEN Sql(<<WrittenOut(e.value)>>)
    ELSE SqlWithParam(<<Word("?")>>, Copy(e.value))

-------------------------------------------------------------------------------
(*                     Comparisons and connectives                         *)

NewCompare(left, op, right) == [kind |-> "compare", op |-> op, left |-> left, right |-> right]
NewLogical(left, op, right) == [kind |-> "logical", op |-> op, left |-> left, right |-> right]
NewNot(e) == [kind |-> "not", op |-> "NOT", left |-> e, right |-> NoExpr]

And(left, right) == NewLogical(left, "AND", right)
Or(left, right)  == NewLogical(left, "OR", right)

CloneColumn(e) == IF e.table = None THEN NewColumnElement(e.name)
                  ELSE NewColumnElementWithTable(e.table, e.name)
CloneTable(e) == IF e.alias = None THEN NewTableClause(e.name)
                 ELSE NewTableClauseWithAlias(e.name, e.alias)
CloneLiteral(e) == NewLiteral(Copy(e.value))

RECURSIVE Clone(_)
Clone(e) ==
    CASE e.kind = "column"  -> CloneColumn(e)
      [] e.kind = "table"   -> CloneTable(e)
      [] e.kind = "literal" -> CloneLiteral(e)
      [] e.kind \in {"compare", "logical", "not"} ->
             [kind |-> e.kind, op |-> e.op, left |-> Clone(e.left),
              right |-> IF e.right = NoExpr THEN NoExpr ELSE Clone(e.right)]

(* The comparisons that negate() turns into one another.                   *)
Inverted ==
    [op \in {"=", "!=", "<", "<=", ">", ">=", "IS NULL", "IS NOT NULL", "IN", "NOT IN"} |->
        CASE op = "="  -> "!="          [] op = "!=" -> "="
          [] op = "<"  -> ">="          [] op = ">=" -> "<"
          [] op = "<=" -> ">"           [] op = ">"  -> "<="
          [] op = "IS NULL" -> "IS NOT NULL" [] op = "IS NOT NULL" -> "IS NULL"
          [] op = "IN" -> "NOT IN"      [] op = "NOT IN" -> "IN"]

(* A column or a literal is not cloned: the NOT takes the caller's own.     *)
DefaultNegate(e) == NewNot(e)

(* A mutant: the bound of an inequality changes sides.                     *)
NegateKeepingBounds(e) ==
    CASE e.kind = "not" -> Clone(e.left)
      [] e.kind = "compare" /\ e.op = "<" -> NewCompare(Clone(e.left), ">", Clone(e.right))
      [] e.kind \in {"compare", "logical"} -> NewNot(Clone(e))
      [] OTHER -> DefaultNegate(e)

Negate(e) ==
    CASE e.kind = "not" -> Clone(e.left)
      [] e.kind = "compare" /\ e.op \in DOMAIN Inverted ->
             NewCompare(Clone(e.left), Inverted[e.op],
                        IF e.right = NoExpr THEN NoExpr ELSE Clone(e.right))
      [] e.kind \in {"compare", "logical"} -> NewNot(Clone(e))
      [] OTHER -> DefaultNegate(e)

(* orm_column_element_eq() and the calls like it.                          *)
ColumnCompare(column, op, value) == NewCompare(Clone(column), op, value)
ColumnLike(column, pattern) == NewCompare(Clone(column), "LIKE", NewLiteral(NewString(pattern)))
ColumnIsNull(column)    == NewCompare(Clone(column), "IS NULL", NoExpr)
ColumnIsNotNull(column) == NewCompare(Clone(column), "IS NOT NULL", NoExpr)
(* The values are ignored, with a warning.                                 *)
ColumnIn(column, values) == NewCompare(Clone(column), "IN", NoExpr)

-------------------------------------------------------------------------------
(* orm_expression_compile(); printf writes "(null)" for a missing operand. *)
RECURSIVE CompileExpr(_, _, _)

Operand(e, d, inline) ==
    IF e = NoExpr THEN Sql(<<Word("("), Word("null"), Word(")")>>) ELSE CompileExpr(e, d, inline)

(* The operand of IS NULL is compiled, and its text thrown away.           *)
CompileCompare(e, d, inline) ==
    CompileExpr(e.left, d, inline) ++ W(e.op)
      ++ IF e.op \notin {"IS NULL", "IS NOT NULL"} THEN Operand(e.right, d, inline)
         ELSE IF e.right = NoExpr THEN Nothing
         ELSE [CompileExpr(e.right, d, inline) EXCEPT !.text = <<>>]

CompileExpr(e, d, inline) ==
    CASE e.kind = "column"  -> CompileColumn(e, d)
      [] e.kind = "table"   -> CompileTable(e, d)
      [] e.kind = "literal" -> CompileLiteral(e, inline)
      [] e.kind = "not"     -> W("NOT") ++ W("(") ++ CompileExpr(e.left, d, inline) ++ W(")")
      [] e.kind = "compare" -> CompileCompare(e, d, inline)
      [] e.kind = "logical" ->
             W("(") ++ CompileExpr(e.left, d, inline) ++ W(")") ++ W(e.op)
               ++ W("(") ++ CompileExpr(e.right, d, inline) ++ W(")")
===============================================================================
