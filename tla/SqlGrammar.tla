------------------------------- MODULE SqlGrammar ------------------------------
(***************************************************************************)
(* The other end: how a database reads the text of a statement, binds the  *)
(* parameters to its placeholders and evaluates a condition on a row.  Not *)
(* code of the library; the part of SQL that its statements are written in.*)
(***************************************************************************)
EXTENDS Statements, FiniteSets
LOCAL INSTANCE SequencesExt

CONSTANT QuoteIn    \* the names with a quote character in them, and which it is

-------------------------------------------------------------------------------
(*                              Parameters                                 *)

(* "?" is a placeholder on SQLite and MySQL; PostgreSQL's are $1, $2, ...  *)
Placeholders(text, d) ==
    IF Fact(d, "params") = "?" THEN {i \in DOMAIN text : text[i] = Word("?")} ELSE {}

ParametersFit(sql, d) == Cardinality(Placeholders(sql.text, d)) = Len(sql.params)

Bind(sql, d) ==
    LET marks == Placeholders(sql.text, d)
        Nth(i) == Cardinality({j \in marks : j <= i})
    IN  [i \in DOMAIN sql.text |->
            IF i \in marks THEN ValueToken(sql.params[Nth(i)]) ELSE sql.text[i]]

-------------------------------------------------------------------------------
(*                              Conditions                                 *)

ClosesItself(name, quote) == name \in DOMAIN QuoteIn /\ QuoteIn[name] = quote

(* A name between the quotes of the dialect that none of its own ends.     *)
IsName(token, d) ==
    Len(token) = 3 /\ token[2] = Fact(d, "quote") /\ ~ClosesItself(token[3], token[2])
IsValue(token)      == Len(token) = 2
NameIn(token, d)    == IF IsName(token, d) THEN token[3] ELSE "refused"

(* What is between apostrophes: a lone one ends it, and is wrong here.  In *)
(* MySQL a backslash takes the next character as it is.                    *)
Backslash == 92
RECURSIVE Unquoted(_, _)
Unquoted(s, d) ==
    LET escapes == IF d = "mysql" THEN {Apostrophe, Backslash} ELSE {Apostrophe}
    IN  IF s = <<>> THEN <<>>
        ELSE IF Head(s) \notin escapes THEN <<Head(s)>> \o Unquoted(Tail(s), d)
        ELSE IF Len(s) > 1 /\ (Head(s) = Backslash \/ s[2] = Apostrophe)
        THEN <<s[2]>> \o Unquoted(SubSeq(s, 3, Len(s)), d)
        ELSE NoData

(* X'..' is bytes on SQLite and MySQL; on PostgreSQL it is a bit string.   *)
ValueOf(token, d) ==
    LET bytes == [i \in 1 .. Len(token[2]) \div 2 |->
                     16 * token[2][2 * i - 1] + token[2][2 * i]]
    IN  CASE token[1] = "value"  -> token[2]
          [] token[1] = "quoted" -> NewString(Unquoted(token[2], d))
          [] token[1] = "hex" /\ d # "postgres" -> NewBlob(bytes)
          [] token[1] = "hex" /\ d = "postgres" -> Alloc("bits", bytes)

Comparisons == {"=", "!=", "<", "<=", ">", ">=", "LIKE", "IN", "NOT IN"}
NullTests   == {"IS NULL", "IS NOT NULL"}

(* OR binds the least, then AND, NOT and the comparisons.                  *)
Strength == [op \in {"(", "OR", "AND", "NOT"} \cup Comparisons |->
    CASE op = "(" -> 0 [] op = "OR" -> 1 [] op = "AND" -> 2 [] op = "NOT" -> 3 [] OTHER -> 4]

(* What the parser has read: expressions that no operator has taken yet,   *)
(* and operators that wait for their right side.  Wrong text leaves        *)
(* something over, or a Refused expression.                                *)
Parser(done, waiting) == [done |-> done, waiting |-> waiting]
Refused == [kind |-> "refused", name |-> "refused", value |-> NoValue]
Operator(op, l, r) == IF op \in Comparisons THEN NewCompare(l, op, r) ELSE NewLogical(l, op, r)

(* The last operator takes its operands.                                   *)
Reduced(p) ==
    LET op == Last(p.waiting)
        n  == Len(p.done)
    IN  IF op = "NOT" /\ n >= 1
        THEN Parser(Append(Front(p.done), NewNot(p.done[n])), Front(p.waiting))
        ELSE IF op # "(" /\ n >= 2
        THEN Parser(Append(SubSeq(p.done, 1, n - 2), Operator(op, p.done[n - 1], p.done[n])),
                    Front(p.waiting))
        ELSE Parser(<<Refused>>, Front(p.waiting))

RECURSIVE ReduceTo(_, _)
ReduceTo(p, strength) ==
    IF p.waiting = <<>> \/ Strength[Last(p.waiting)] < strength THEN p
    ELSE ReduceTo(Reduced(p), strength)

Closed(p) == IF p.waiting = <<>> THEN Parser(<<Refused>>, <<>>)
             ELSE [p EXCEPT !.waiting = Front(@)]

(* The column a name stands for, with its table when a dot came before.    *)
NamedColumn(p, name) ==
    IF p.waiting # <<>> /\ Last(p.waiting) = "."
    THEN Parser(Append(Front(p.done), NewColumnElementWithTable(Last(p.done).name, name)),
                Front(p.waiting))
    ELSE [p EXCEPT !.done = Append(@, NewColumnElement(name))]

ReadToken(p, token, d) ==
    IF IsValue(token)             THEN [p EXCEPT !.done = Append(@, NewLiteral(ValueOf(token, d)))]
    ELSE IF token = Word("null")  THEN [p EXCEPT !.done = Append(@, NewLiteral(NullValue))]
    ELSE IF IsName(token, d)      THEN NamedColumn(p, token[3])
    ELSE IF Len(token) = 3        THEN Parser(<<Refused>>, <<>>)
    ELSE IF token[1] \in {"(", "NOT", "."} THEN [p EXCEPT !.waiting = Append(@, token[1])]
    ELSE IF token = Word(")")     THEN Closed(ReduceTo(p, 1))
    ELSE IF token[1] \in NullTests /\ p.done # <<>>
    THEN [p EXCEPT !.done = Append(Front(@), NewCompare(Last(@), token[1], NoExpr))]
    ELSE IF token[1] \in DOMAIN Strength
    THEN [ReduceTo(p, Strength[token[1]]) EXCEPT !.waiting = Append(@, token[1])]
    ELSE Parser(<<Refused>>, <<>>)

(* A whole piece of text as one expression; Refused when it is not one.    *)
ReadAll(text, d) ==
    LET upTo[i \in 0 .. Len(text)] ==
          IF i = 0 THEN Parser(<<>>, <<>>) ELSE ReadToken(upTo[i - 1], text[i], d)
        Whole(p) == IF Len(p.done) = 1 /\ p.waiting = <<>> THEN p.done[1] ELSE Refused
    IN  Whole(ReduceTo(upTo[Len(text)], 0))

-------------------------------------------------------------------------------
(*                          Three truth values                             *)

Neg(t) == CASE t = "true" -> "false" [] t = "false" -> "true" [] OTHER -> "unknown"
Conj(s, t) == IF "false" \in {s, t} THEN "false"
              ELSE IF "unknown" \in {s, t} THEN "unknown" ELSE "true"
Disj(s, t) == Neg(Conj(Neg(s), Neg(t)))
Is(b) == IF b THEN "true" ELSE "false"

Like(value, pattern) == pattern = value \/ pattern = <<37>>

(* op of two values; the list of IN has one item.                          *)
Holds(op, l, r) ==
    IF op = "IS NULL" THEN Is(IsNull(l))
    ELSE IF op = "IS NOT NULL" THEN Is(~IsNull(l))
    ELSE IF IsNull(l) \/ IsNull(r) THEN "unknown"
    ELSE CASE op \in {"=", "IN"}      -> Is(ValuesEqual(l, r))
           [] op \in {"!=", "NOT IN"} -> Is(~ValuesEqual(l, r))
           [] op = "<"  -> Is(Compare(l, r) < 0)   [] op = "<=" -> Is(Compare(l, r) <= 0)
           [] op = ">"  -> Is(Compare(l, r) > 0)   [] op = ">=" -> Is(Compare(l, r) >= 0)
           [] op = "LIKE" -> Is(Like(l.v, r.v))

Operands(e, row) ==
    CASE e.kind = "column"  -> row[e.name]
      [] e.kind = "literal" -> e.value
      [] OTHER              -> NullValue

RECURSIVE Truth(_, _)
Truth(e, row) ==
    CASE e.kind = "compare" -> Holds(e.op, Operands(e.left, row), Operands(e.right, row))
      [] e.kind = "not"     -> Neg(Truth(e.left, row))
      [] e.kind = "logical" /\ e.op = "AND" -> Conj(Truth(e.left, row), Truth(e.right, row))
      [] e.kind = "logical" /\ e.op = "OR"  -> Disj(Truth(e.left, row), Truth(e.right, row))
      [] OTHER               -> "refused"

-------------------------------------------------------------------------------
(*                              Statements                                 *)

JoinTokens == {Word(JoinWords[type]) : type \in DOMAIN JoinWords}
ClauseWords == <<"FROM", "WHERE", "GROUP BY", "HAVING", "ORDER BY", "LIMIT", "OFFSET",
                 "SET", "VALUES", "RETURNING">>
ClauseTokens == {Word(ClauseWords[i]) : i \in DOMAIN ClauseWords}

(* The text from i up to the first of some tokens.                         *)
UpTo(text, i, ends) ==
    LET stops == {j \in i .. Len(text) : text[j] \in ends} \cup {Len(text) + 1}
        first == CHOOSE j \in stops : \A k \in stops : j <= k
    IN  SubSeq(text, i, first - 1)

(* What stands after a clause's word.  A word stands for one clause only.  *)
Has(text, word) == \E i \in DOMAIN text : text[i] = Word(word)
Section(text, word) ==
    LET i == CHOOSE j \in DOMAIN text : text[j] = Word(word)
    IN  IF Has(text, word) THEN UpTo(text, i + 1, ClauseTokens) ELSE <<>>

RECURSIVE Split(_, _)
Split(text, tokens) ==
    LET first == UpTo(text, 1, tokens)
    IN  IF Len(first) = Len(text) THEN <<text>>
        ELSE <<first>> \o Split(SubSeq(text, Len(first) + 2, Len(text)), tokens)

Items(text) == IF text = <<>> THEN <<>> ELSE Split(text, {Word(",")})

ReadNames(text, d) == LET items == Items(text)
                      IN  [i \in DOMAIN items |-> ReadAll(items[i], d)]

ReadTable(text, d) ==
    CASE Len(text) = 1 /\ IsName(text[1], d) -> NewTableClause(text[1][3])
      [] Len(text) = 3 /\ IsName(text[1], d) /\ text[2] = Word("AS") /\ IsName(text[3], d)
           -> NewTableClauseWithAlias(text[1][3], text[3][3])
      [] OTHER -> NoExpr

Parenthesised(text) == SubSeq(text, 2, Len(text) - 1)

ReadCondition(text, word, d) ==
    IF Has(text, word) THEN ReadAll(Section(text, word), d) ELSE NoExpr

ReadJoins(text, d) ==
    LET from  == Section(text, "FROM")
        marks == SetToSortSeq({i \in DOMAIN from : from[i] \in JoinTokens}, <)
        J(i)  == LET piece == UpTo(from, i + 1, JoinTokens)
                     on    == UpTo(piece, 1, {Word("ON")})
                 IN  [type  |-> CHOOSE t \in DOMAIN JoinWords : Word(JoinWords[t]) = from[i],
                      table |-> ReadTable(on, d).name,
                      condition |-> IF on = piece THEN NoExpr
                                    ELSE ReadAll(SubSeq(piece, Len(on) + 2, Len(piece)), d)]
    IN  [i \in DOMAIN marks |-> J(marks[i])]

ReadSelect(text, d) ==
    LET list == UpTo(SubSeq(text, IF Has(text, "DISTINCT") THEN 3 ELSE 2, Len(text)), 1,
                     {Word("FROM")})
        orders == Items(Section(text, "ORDER BY"))
        groups == ReadNames(Section(text, "GROUP BY"), d)
        Page(word) == IF Has(text, word) THEN Section(text, word)[1][2] ELSE NoValue
    IN  [kind |-> "select", distinct |-> Has(text, "DISTINCT"),
         columns |-> IF list = <<Word("*")>> THEN <<>> ELSE ReadNames(list, d),
         from  |-> ReadTable(UpTo(Section(text, "FROM"), 1, JoinTokens), d),
         joins |-> ReadJoins(text, d), where |-> ReadCondition(text, "WHERE", d),
         group |-> [i \in DOMAIN groups |-> groups[i].name],
         having |-> ReadCondition(text, "HAVING", d),
         order |-> [i \in DOMAIN orders |-> [column |-> NameIn(orders[i][1], d),
                                             direction |-> orders[i][2][1]]],
         limit |-> Page("LIMIT"), offset |-> Page("OFFSET")]

ReadReturning(text, d) ==
    LET names == ReadNames(Section(text, "RETURNING"), d)
    IN  IF Section(text, "RETURNING") = <<Word("*")>> THEN <<"*">>
        ELSE [i \in DOMAIN names |-> names[i].name]

ReadInsert(text, d) ==
    LET columns == ReadNames(UpTo(SubSeq(text, 4, Len(text)), 1, {Word(")")}), d)
        values  == ReadNames(Parenthesised(Section(text, "VALUES")), d)
    IN  [kind |-> "insert", table |-> NameIn(text[2], d),
         sets |-> [i \in DOMAIN columns |-> [column |-> columns[i].name, value |-> values[i]]],
         returning |-> ReadReturning(text, d)]

ReadUpdate(text, d) ==
    LET sets == Items(Section(text, "SET"))
    IN  [kind |-> "update", table |-> NameIn(text[2], d),
         sets |-> [i \in DOMAIN sets |->
                     [column |-> NameIn(sets[i][1], d),
                      value  |-> ReadAll(SubSeq(sets[i], 3, Len(sets[i])), d)]],
         where |-> ReadCondition(text, "WHERE", d), returning |-> ReadReturning(text, d)]

ReadDelete(text, d) ==
    [kind |-> "delete", table |-> NameIn(text[2], d),
     where |-> ReadCondition(text, "WHERE", d), returning |-> ReadReturning(text, d)]

(* What a database understands of a statement that was sent to it.         *)
ReadStatement(sql, d) ==
    LET text == Bind(sql, d)
    IN  CASE text[1] = Word("SELECT")      -> ReadSelect(text, d)
          [] text[1] = Word("INSERT INTO") -> ReadInsert(text, d)
          [] text[1] = Word("UPDATE")      -> ReadUpdate(text, d)
          [] text[1] = Word("DELETE FROM") -> ReadDelete(text, d)
===============================================================================
