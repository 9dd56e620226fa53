------------------------------- MODULE MCQueries -------------------------------
(* Every database with classes of every type it has something to do for;   *)
(* one content at least is awkward: a number wider than a gint, an         *)
(* unsigned one beyond gint64, a float of many digits, a string of a       *)
(* quote, a comma and a line feed, and an empty one.                       *)
EXTENDS Queries

MCQuoteIn == <<>>

MCContents ==
    [int |-> {<<3>>, <<-2>>}, int64 |-> {<<3>>, <<20>>}, uint64 |-> {<<3>>, <<40>>},
     double |-> {<<4>>, <<123>>}, float |-> {<<4>>, <<12>>}, boolean |-> {<<0>>, <<1>>},
     string |-> {<<>>, <<120>>, <<34, 44, 10>>, NoData}, bytes |-> {<<7>>, <<0, 7>>},
     datetime |-> {<<5>>, <<6>>, NoData}]

World(d, ansi, gtype, byHand, calls, exports) ==
    LET contents == MCContents[gtype]
        least == CHOOSE c \in contents \ {NoData} : \A e \in contents \ {NoData} : CompareText(c, e) <= 0
    IN  [d |-> d, ansi |-> ansi, gtype |-> gtype, byHand |-> byHand, calls |-> calls,
         exports |-> exports, contents |-> contents, near |-> FromGValue(GValue(gtype, least))]

ByHandBoth == {"registered", "table"}
MCWorlds ==
    {World("sqlite", FALSE, g, {}, 1, 1) : g \in {"int", "uint64", "float", "double", "boolean", "bytes"}}
      \cup {World("sqlite", FALSE, "string", ByHandBoth, 2, 2), World("sqlite", FALSE, "int64", {}, 2, 0),
            World("sqlite", FALSE, "datetime", ByHandBoth, 1, 1),
            World("sqlite", FALSE, "int", {"table"}, 1, 0)}
      \cup {World("mysql", TRUE, g, {}, 1, 1) : g \in {"int64", "bytes", "double"}}
      \cup {World("mysql", TRUE, "string", ByHandBoth, 1, 1), World("mysql", FALSE, "boolean", {}, 1, 2)}
      \cup {World("postgres", FALSE, "int64", {}, 1, 2), World("postgres", FALSE, "string", ByHandBoth, 1, 1)}

MCExporters ==
    {NewExporter("csv", set) : set \in
        {CsvDefaults, [CsvSetString(CsvDefaults, "null", <<78>>) EXCEPT !.force = TRUE, !.ending = <<13, 10>>]}}
      \cup {NewExporter("json", set) : set \in
        {JsonDefaults, [JsonDefaults EXCEPT !.layout = "arrays", !.pretty = TRUE],
         [JsonDefaults EXCEPT !.layout = "arrays", !.columns = FALSE]}}
===============================================================================
