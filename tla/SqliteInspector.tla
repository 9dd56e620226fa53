---------------------------- MODULE SqliteInspector ----------------------------
(***************************************************************************)
(* src/inspect/sqlite/: what the inspector of an SQLite connection asks    *)
(* for a call, and what it makes of the rows.  A call is a list of         *)
(* queries, the later ones chosen by the answers to the earlier ones, and  *)
(* a result.  The schema argument is NULL: the current schema.             *)
(***************************************************************************)
EXTENDS SchemaInfo

CONSTANT Autoincrements    \* the words with AUTOINCREMENT in them, in whatever case

ASSUME AutoincrementsAssumption == "AUTOINCREMENT" \in Autoincrements

SqliteRowString(row, col)            == IF row[col].type = "string" THEN row[col].v ELSE None
SqliteRowInteger(row, col, fallback) == IF row[col].type = "integer" THEN row[col].v ELSE fallback
SqliteRowSqlText(row, col) ==
    IF row[col].type \in {"string", "integer", "float"} THEN row[col].v ELSE None

SqliteHas(rows, col) ==
    Having(rows, {i \in DOMAIN rows : SqliteRowString(rows[i], col) # None})

(* The words the declared types of the models are spelled with.            *)
Spelling(word) ==
    CASE word = "INT"  -> {"INTEGER", "INT", "BIGINT"}
      [] word = "CHAR" -> {"VARCHAR", "CHAR"}
      [] word = "TEXT" -> {"TEXT"}
      [] word = "BLOB" -> {"BLOB"}
      [] word = "REAL" -> {"REAL"}
      [] word = "DOUB" -> {"DOUBLE"}
      [] word = "BOOL" -> {"BOOLEAN"}
      [] word = "DATE" -> {"DATETIME", "DATE"}

AffinityOf(decl) ==
    CASE decl \in {None, ""}                                -> "blob"
      [] decl \in Spelling("INT")                           -> "integer"
      [] decl \in Spelling("CHAR") \cup Spelling("TEXT")    -> "string"
      [] decl \in Spelling("BLOB")                          -> "blob"
      [] decl \in Spelling("REAL") \cup Spelling("DOUB")    -> "float"
      [] decl \in Spelling("BOOL")                          -> "boolean"
      [] decl \in Spelling("DATE")                          -> "datetime"
      [] OTHER                                              -> "float"

SqliteListSchemas(rows) == Cells(SqliteHas(rows, "name"), SqliteRowString, "name")

SqliteListRelations(rows) ==
    LET named == SqliteHas(rows, "name")
    IN  [i \in DOMAIN named |->
            TableInfo(SqliteRowString(named[i], "name"),
                      IF SqliteRowString(named[i], "type") = "view" THEN "view" ELSE "table")]

(* strstr() in the upper-cased text, the set of its words, finds the word  *)
(* anywhere: as the keyword, or within a name or a default.                *)
SqliteUsesAutoincrement(rows) ==
    /\ rows # <<>>
    /\ rows[1]["sql"].type # "null"
    /\ rows[1]["sql"].v \cap Autoincrements # {}

SqliteGetColumns(ddl, rows) ==
    LET named == SqliteHas(rows, "name")
        decl(r) == SqliteRowString(r, "type")
        pk(r)   == SqliteRowInteger(r, "pk", 0)
    IN  [i \in DOMAIN named |->
            ColumnInfo(SqliteRowString(named[i], "name"),
                       IF decl(named[i]) = "" THEN None ELSE decl(named[i]),
                       AffinityOf(decl(named[i])),
                       SqliteRowInteger(named[i], "notnull", 0) = 0,
                       SqliteRowSqlText(named[i], "dflt_value"),
                       pk(named[i]) > 0,
                       /\ SqliteUsesAutoincrement(ddl)
                       /\ pk(named[i]) = 1
                       /\ decl(named[i]) = "INTEGER",
                       SqliteRowInteger(named[i], "cid", 0))]

(* index_list, then index_info of each index; an expression has no name.   *)
SqliteIndexQueries(listing) ==
    LET named == SqliteHas(listing, "name")
    IN  [i \in DOMAIN named |-> Query("index_info", SqliteRowString(named[i], "name"))]

SqliteGetIndexes(answers) ==
    LET named == SqliteHas(answers[1], "name")
        members(i) == Cells(SqliteHas(answers[i + 1], "name"), SqliteRowString, "name")
    IN  [i \in DOMAIN named |->
            IndexInfo(SqliteRowString(named[i], "name"),
                      SqliteRowInteger(named[i], "unique", 0) # 0, members(i))]

SqliteActionOf(text) ==
    IF text \in {"cascade", "restrict", "set_null", "set_default"} THEN text ELSE "no_action"

Entries(rows) ==
    Having(rows, {i \in DOMAIN rows : /\ SqliteRowString(rows[i], "table") # None
                                      /\ SqliteRowString(rows[i], "from") # None})

(* A mutant: the rows are grouped in the order they come.                  *)
UnsortedForeignKeyRuns(rows) == Runs(Entries(rows), "id")

(* The rows come in no order: they are sorted by id and seq, then grouped. *)
SqliteForeignKeyRuns(rows) ==
    LET entries == Entries(rows)
        before(i, j) == \/ entries[i]["id"].v < entries[j]["id"].v
                        \/ /\ entries[i]["id"].v = entries[j]["id"].v
                           /\ entries[i]["seq"].v < entries[j]["seq"].v
        at == DOMAIN entries
    IN  Runs(Arranged(entries, {p \in at \X at : before(p[1], p[2])}), "id")

Implicit(run) == SqliteRowString(run[1], "to") = None

(* A key that names no target columns is asked the target's primary key.   *)
SqliteKeyQueries(rows) ==
    LET runs == SqliteForeignKeyRuns(rows)
        bare == Having(runs, {i \in DOMAIN runs : Implicit(runs[i])})
    IN  [i \in DOMAIN bare |-> Query("table_info", SqliteRowString(bare[i][1], "table"))]

(* The key columns, in the order of their position in the key.             *)
SqliteGetPrimaryKey(rows) ==
    LET pos(r) == SqliteRowInteger(r, "pk", 0)
        named  == SqliteHas(rows, "name")
        keyed  == Having(named, {i \in DOMAIN named : pos(named[i]) > 0})
        at     == DOMAIN keyed
    IN  Cells(Arranged(keyed, {p \in at \X at : pos(keyed[p[1]]) < pos(keyed[p[2]])}),
              SqliteRowString, "name")

SqliteGetForeignKeys(answers) ==
    LET runs == SqliteForeignKeyRuns(answers[1])
        nth(i) == Cardinality({j \in 1 .. i : Implicit(runs[j])})
        refCols(i) == IF Implicit(runs[i]) THEN SqliteGetPrimaryKey(answers[nth(i) + 1])
                      ELSE Cells(SqliteHas(runs[i], "to"), SqliteRowString, "to")
        action(i, col) == SqliteActionOf(SqliteRowString(runs[i][1], col))
    IN  [i \in DOMAIN runs |->
            ForeignKeyInfo(None, Cells(runs[i], SqliteRowString, "from"),
                           SqliteRowString(runs[i][1], "table"), refCols(i),
                           action(i, "on_delete"), action(i, "on_update"))]

SqliteEstimateRowCount(rows) ==
    IF rows = <<>> \/ rows[1]["count"].type # "integer" THEN Failed
    ELSE Returned(Count(rows[1]["count"].v, FALSE))

(* The queries of a call, as far as its answers have told.                 *)
SqliteQueries(call, t, answers) ==
    CASE call = "list_schemas"       -> <<Query("database_list", None)>>
      [] call = "list_relations"     -> <<Query("relations", None)>>
      [] call = "get_columns"        -> <<Query("sql", t), Query("table_info", t)>>
      [] call = "get_indexes"        ->
             <<Query("index_list", t)>>
             \o (IF answers = <<>> THEN <<>> ELSE SqliteIndexQueries(answers[1]))
      [] call = "get_foreign_keys"   ->
             <<Query("foreign_key_list", t)>>
             \o (IF answers = <<>> THEN <<>> ELSE SqliteKeyQueries(answers[1]))
      [] call = "get_primary_key"    -> <<Query("table_info", t)>>
      [] call = "estimate_row_count" -> <<Query("count", t)>>

SqliteResult(call, answers) ==
    CASE call = "list_schemas"       -> Returned(SqliteListSchemas(answers[1]))
      [] call = "list_relations"     -> Returned(SqliteListRelations(answers[1]))
      [] call = "get_columns"        -> Returned(SqliteGetColumns(answers[1], answers[2]))
      [] call = "get_indexes"        -> Returned(SqliteGetIndexes(answers))
      [] call = "get_foreign_keys"   -> Returned(SqliteGetForeignKeys(answers))
      [] call = "get_primary_key"    -> Returned(SqliteGetPrimaryKey(answers[1]))
      [] call = "estimate_row_count" -> SqliteEstimateRowCount(answers[1])
===============================================================================
