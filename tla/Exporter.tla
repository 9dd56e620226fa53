-------------------------------- MODULE Exporter -------------------------------
(***************************************************************************)
(* OrmExporter and its two formats (src/export/): what each hook appends   *)
(* to the text.  A CSV is a sequence of character codes, since quoting is  *)
(* all there is to it; a JSON document is a sequence of tokens, of which a *)
(* string keeps its escaped characters.  At the end, how a reader of each  *)
(* format takes a text apart; that is not code of the library.             *)
(***************************************************************************)
EXTENDS Result

CONSTANT DoubleDigits       \* the decimal digits a gdouble may need

LOCAL INSTANCE SequencesExt

(* An exporter keeps its settings, and JSON two flags from hook to hook.   *)
NewExporter(format, settings) ==
    [format |-> format, set |-> settings, wrapped |-> FALSE, any |-> FALSE]

(* The first of three lengths that reads back as the same number.          *)
FormatDouble(x) ==
    LET tries == <<DoubleDigits - 2, DoubleDigits - 1, DoubleDigits>>
        good  == {i \in DOMAIN tries : Rounded(x, tries[i]) = x}
    IN  Rounded(x, tries[IF good = {} THEN 3 ELSE CHOOSE i \in good : \A j \in good : i <= j])

TrueText   == <<116, 114, 117, 101>>
FalseText  == <<102, 97, 108, 115, 101>>
(* Letters, digits, '+', '/' and '=', one way or another.                  *)
Base64(bytes) == <<3000>> \o [i \in DOMAIN bytes |-> 4000 + bytes[i]]

(* What both formats write of a value that is not NULL.                    *)
TextOf(value) ==
    CASE value.type = "integer"  -> Decimal(GetInteger(value))
      [] value.type = "float"    -> Decimal(FormatDouble(GetFloat(value)))
      [] value.type = "boolean"  -> IF GetBoolean(value) THEN TrueText ELSE FalseText
      [] value.type = "blob"     -> Base64(GetBlob(value))
      [] value.type = "datetime" -> IsoText(GetDateTime(value))
      [] OTHER                   -> GetString(value)

-------------------------------------------------------------------------------
(*                                  CSV                                    *)

CarriageReturn == 13
LineFeed       == 10

CsvDefaults == [delimiter |-> <<44>>, quote |-> <<34>>, null |-> <<>>, ending |-> <<LineFeed>>,
                header |-> TRUE, force |-> FALSE]
(* Setting a string to NULL makes it empty.                                *)
CsvSetString(set, key, s) == [set EXCEPT ![key] = IF s = NoData THEN <<>> ELSE s]

HasPiece(s, piece) ==
    \E i \in 0 .. Len(s) - Len(piece) : SubSeq(s, i + 1, i + Len(piece)) = piece

NeedsQuotes(set, field) ==
    \/ set.force
    \/ set.delimiter # <<>> /\ HasPiece(field, set.delimiter)
    \/ set.quote # <<>> /\ HasPiece(field, set.quote)
    \/ \E i \in DOMAIN field : field[i] \in {CarriageReturn, LineFeed}

(* Every quote inside is doubled; the quote is one character here.         *)
AppendField(set, field, quote) ==
    IF ~quote \/ set.quote = <<>> THEN field
    ELSE set.quote \o FlattenSeq([i \in DOMAIN field |->
             IF <<field[i]>> = set.quote THEN set.quote \o set.quote ELSE <<field[i]>>]) \o set.quote

CsvField(set, text) == AppendField(set, text, NeedsQuotes(set, text))
CsvValue(set, value) ==
    IF IsNull(value) THEN AppendField(set, set.null, set.force) ELSE CsvField(set, TextOf(value))

CsvLine(set, fields) ==
    LET line[i \in 0 .. Len(fields)] ==
          IF i <= 1 THEN (IF i = 0 THEN <<>> ELSE fields[1])
          ELSE line[i - 1] \o set.delimiter \o fields[i]
    IN  line[Len(fields)] \o set.ending

CsvWriteBegin(set, names) ==
    IF ~set.header \/ names = <<>> THEN <<>>
    ELSE CsvLine(set, [i \in DOMAIN names |-> CsvField(set, names[i])])
CsvWriteRow(set, row) == CsvLine(set, [i \in DOMAIN row.values |-> CsvValue(set, row.values[i])])

-------------------------------------------------------------------------------
(*                                  JSON                                   *)

JsonDefaults == [layout |-> "objects", pretty |-> FALSE, columns |-> TRUE]

Token(t)      == <<<<t>>>>
Comma(cond)   == IF cond THEN Token(",") ELSE <<>>
(* A line break and its indentation, or a space.                           *)
Newline(set)  == IF set.pretty THEN Token("space") ELSE <<>>

ShortEscapes == {<<34, 34>>, <<92, 92>>, <<8, 98>>, <<12, 102>>, <<10, 110>>, <<13, 114>>, <<9, 116>>}

JsonEscape(c) ==
    IF \E e \in ShortEscapes : e[1] = c
    THEN <<92, (CHOOSE e \in ShortEscapes : e[1] = c)[2]>>
    ELSE IF c < 32 THEN <<92, 117, c>>
    ELSE <<c>>
JsonString(s) == <<<<"string", FlattenSeq([i \in DOMAIN s |-> JsonEscape(s[i])])>>>>

JsonValue(value) ==
    CASE value.type = "null" -> Token("null")
      [] value.type \in {"integer", "float", "boolean"} -> <<<<"bare", TextOf(value)>>>>
      [] OTHER -> JsonString(TextOf(value))

(* Items with commas between them, each on a line of its own.              *)
JsonItems(set, items) ==
    FlattenSeq([i \in DOMAIN items |-> Comma(i > 1) \o Newline(set) \o items[i]])
      \o (IF items = <<>> THEN <<>> ELSE Newline(set))

Wraps(set) == set.layout = "arrays" /\ set.columns

JsonWriteBegin(set, names) ==
    IF ~Wraps(set) THEN Token("[")
    ELSE Token("{") \o Newline(set) \o JsonString(<<99>>) \o Token(":") \o Newline(set) \o Token("[")
           \o JsonItems(set, [i \in DOMAIN names |-> JsonString(names[i])])
           \o Token("]") \o Token(",") \o Newline(set)
           \o JsonString(<<114>>) \o Token(":") \o Newline(set) \o Token("[")

JsonWriteRow(set, any, row) ==
    LET member(i) == JsonString(row.names[i]) \o Token(":") \o Newline(set) \o JsonValue(row.values[i])
    IN  Comma(any) \o Newline(set)
          \o (IF set.layout = "objects"
              THEN Token("{") \o JsonItems(set, [i \in DOMAIN row.values |-> member(i)]) \o Token("}")
              ELSE Token("[") \o JsonItems(set, [i \in DOMAIN row.values |-> JsonValue(row.values[i])])
                     \o Token("]"))

JsonWriteEnd(set, any, wrapped) ==
    (IF any THEN Newline(set) ELSE <<>>) \o Token("]")
      \o (IF wrapped THEN Newline(set) \o Token("}") ELSE <<>>)

-------------------------------------------------------------------------------
(*                            The three hooks                              *)

ResultColumns(result) == [i \in 1 .. ColumnCount(result) |-> ColumnNames(result)[i]]
RowColumns(rows) == IF rows = <<>> THEN <<>>
                    ELSE [i \in 1 .. RowColumnCount(rows[1]) |-> RowColumnName(rows[1], i)]

(* A mutant: a second document starts where the first one ended.           *)
BegunOnce(e) == IF e.format = "json" THEN [e EXCEPT !.wrapped = Wraps(e.set)] ELSE e
Begun(e)    == IF e.format = "json" THEN [e EXCEPT !.wrapped = Wraps(e.set), !.any = FALSE] ELSE e
RowDone(e)  == IF e.format = "json" THEN [e EXCEPT !.any = TRUE] ELSE e

WriteBegin(e, names) ==
    IF e.format = "csv" THEN CsvWriteBegin(e.set, names) ELSE JsonWriteBegin(e.set, names)
WriteRow(e, row) ==
    IF e.format = "csv" THEN CsvWriteRow(e.set, row) ELSE JsonWriteRow(e.set, e.any, row)
WriteEnd(e) ==
    IF e.format = "csv" THEN <<>> ELSE JsonWriteEnd(e.set, e.any, e.wrapped)

-------------------------------------------------------------------------------
(*                                Readers                                  *)

(* A CSV reader knows the delimiter, the quote and the line ending.        *)
CsvStart == [lines |-> <<>>, fields |-> <<>>, field |-> <<>>, in |-> "start"]

CsvRead(p, c, set) ==
    LET next == [p EXCEPT !.fields = Append(@, p.field), !.field = <<>>, !.in = "start"]
    IN  IF p.in = "quoted"
        THEN IF <<c>> = set.quote THEN [p EXCEPT !.in = "closing"] ELSE [p EXCEPT !.field = Append(@, c)]
        ELSE IF p.in = "closing" /\ <<c>> = set.quote
        THEN [p EXCEPT !.field = Append(@, c), !.in = "quoted"]
        ELSE IF p.in = "start" /\ <<c>> = set.quote THEN [p EXCEPT !.in = "quoted"]
        ELSE IF <<c>> = set.delimiter THEN next
        ELSE IF c = LineFeed THEN [next EXCEPT !.lines = Append(@, next.fields), !.fields = <<>>]
        ELSE IF c = CarriageReturn /\ Len(set.ending) = 2 THEN p
        ELSE [p EXCEPT !.field = Append(@, c), !.in = "plain"]

ReadCsv(text, set) ==
    LET upTo[i \in 0 .. Len(text)] == IF i = 0 THEN CsvStart ELSE CsvRead(upTo[i - 1], text[i], set)
        end == upTo[Len(text)]
    IN  IF end.in = "start" /\ end.fields = <<>> THEN end.lines ELSE <<NoData>>

RECURSIVE Unescaped(_)
Unescaped(s) ==
    IF s = <<>> THEN <<>>
    ELSE IF s[1] # 92 THEN <<s[1]>> \o Unescaped(Tail(s))
    ELSE IF s[2] = 117 THEN <<s[3]>> \o Unescaped(SubSeq(s, 4, Len(s)))
    ELSE <<(CHOOSE e \in ShortEscapes : e[2] = s[2])[1]>> \o Unescaped(SubSeq(s, 3, Len(s)))

(* A JSON reader builds a value from the tokens: arrays and objects wait   *)
(* on a stack while their parts are read, and wrong text leaves Malformed. *)
Malformed == <<<<"malformed">>>>
Leaf(token) == IF token[1] = "string" THEN <<"string", Unescaped(token[2])>> ELSE token
Openers == [x \in {"]", "}"} |-> IF x = "]" THEN "[" ELSE "{"]

(* stack: pairs of an opener and what was read since; want: "item" where   *)
(* an item must come, "first" where it may, "after" behind one.            *)
JsonStart == [stack |-> <<<<"top", <<>>>>>>, want |-> "item"]

Put(p, item) ==
    [p EXCEPT !.stack[Len(p.stack)][2] = Append(@, item), !.want = "after"]

JsonRead(p, token) ==
    LET top   == Last(p.stack)
        Kind  == token[1]
    IN  IF Kind = "space" THEN p
        ELSE IF Kind \in {"string", "bare", "null"} /\ p.want # "after" THEN Put(p, Leaf(token))
        ELSE IF Kind \in {"[", "{"} /\ p.want # "after"
        THEN [stack |-> Append(p.stack, <<Kind, <<>>>>), want |-> "first"]
        ELSE IF Kind \in {"]", "}"} /\ p.want # "item" /\ top[1] = Openers[Kind]
        THEN Put([p EXCEPT !.stack = Front(@)], <<"array", top[2]>>)
        ELSE IF Kind = "," /\ p.want = "after" /\ top[1] # "top" THEN [p EXCEPT !.want = "item"]
        ELSE IF Kind = ":" /\ p.want = "after" /\ top[1] = "{" THEN [p EXCEPT !.want = "item"]
        ELSE [stack |-> <<<<"top", Malformed>>>>, want |-> "broken"]

ReadJson(text) ==
    LET upTo[i \in 0 .. Len(text)] == IF i = 0 THEN JsonStart ELSE JsonRead(upTo[i - 1], text[i])
        end == upTo[Len(text)]
    IN  IF Len(end.stack) = 1 /\ end.want = "after" /\ Len(end.stack[1][2]) = 1
        THEN end.stack[1][2][1] ELSE Malformed
===============================================================================
