--------------------------- MODULE PostgresInspector ---------------------------
(***************************************************************************)
(* src/inspect/postgres/: the inspector of a PostgreSQL connection, in the *)
(* form of SqliteInspector.                                                *)
(***************************************************************************)
EXTENDS SchemaInfo

(* What orm_postgres_data_types[] lists, and text for the rest.            *)
PostgresValueType(dataType) ==
    CASE dataType = "boolean" -> "boolean"
      [] dataType \in {"smallint", "integer", "bigint"} -> "integer"
      [] dataType \in {"real", "double precision", "numeric"} -> "float"
      [] dataType = "bytea" -> "blob"
      [] dataType \in {"date", "timestamp without time zone",
                       "timestamp with time zone"} -> "datetime"
      [] OTHER -> "string"

(* confdeltype and confupdtype.                                            *)
PostgresFkAction(code) ==
    CASE code = "r" -> "restrict"
      [] code = "c" -> "cascade"
      [] code = "n" -> "set_null"
      [] code = "d" -> "set_default"
      [] OTHER      -> "no_action"

PostgresText(row, col)            == IF row[col].type = "string" THEN row[col].v ELSE None
PostgresInt64(row, col, fallback) == IF row[col].type = "integer" THEN row[col].v ELSE fallback
PostgresBool(row, col) ==
    CASE row[col].type = "boolean" -> row[col].v
      [] row[col].type = "integer" -> row[col].v # 0
      [] OTHER                     -> FALSE

PostgresHas(rows, col) ==
    Having(rows, {i \in DOMAIN rows : PostgresText(rows[i], col) # None})

PostgresListSchemas(rows) == Cells(PostgresHas(rows, "schema_name"), PostgresText, "schema_name")

PostgresListRelations(rows) ==
    LET named == PostgresHas(rows, "relation_name")
    IN  [i \in DOMAIN named |->
            TableInfo(PostgresText(named[i], "relation_name"),
                      IF PostgresText(named[i], "relation_kind") \in {"v", "m"}
                      THEN "view" ELSE "table")]

PostgresGetPrimaryKey(rows) == Cells(PostgresHas(rows, "column_name"), PostgresText, "column_name")

(* A column the server fills is told by its default, or by its identity.   *)
PostgresAutoincrement(row) ==
    \/ PostgresText(row, "column_default") = "nextval"
    \/ PostgresText(row, "is_identity") = "YES"

PostgresGetColumns(key, rows) ==
    LET named == PostgresHas(rows, "column_name")
        name(r) == PostgresText(r, "column_name")
    IN  [i \in DOMAIN named |->
            ColumnInfo(name(named[i]),
                       IF PostgresText(named[i], "type_name") # None
                       THEN PostgresText(named[i], "type_name")
                       ELSE PostgresText(named[i], "data_type"),
                       PostgresValueType(PostgresText(named[i], "data_type")),
                       PostgresText(named[i], "is_nullable") = "YES",
                       PostgresText(named[i], "column_default"),
                       name(named[i]) \in RangeOf(PostgresGetPrimaryKey(key)),
                       PostgresAutoincrement(named[i]),
                       PostgresInt64(named[i], "ordinal_position", 0) - 1)]

(* The rows of an index follow each other; its first row says the rest.    *)
PostgresGetIndexes(rows) ==
    LET runs == Runs(PostgresHas(rows, "index_name"), "index_oid")
    IN  [i \in DOMAIN runs |->
            IndexInfo(PostgresText(runs[i][1], "index_name"),
                      PostgresBool(runs[i][1], "is_unique"),
                      Cells(PostgresHas(runs[i], "column_name"), PostgresText, "column_name"))]

(* Only pairs of a column and its target are kept, so that the two lists   *)
(* stay of one length.                                                     *)
PostgresGetForeignKeys(rows) ==
    LET runs == Runs(rows, "constraint_oid")
        pairs(run) == PostgresHas(PostgresHas(run, "column_name"), "ref_column_name")
        known == Having(runs, {i \in DOMAIN runs : PostgresText(runs[i][1], "ref_table") # None})
    IN  [i \in DOMAIN known |->
            ForeignKeyInfo(PostgresText(known[i][1], "constraint_name"),
                           Cells(pairs(known[i]), PostgresText, "column_name"),
                           PostgresText(known[i][1], "ref_table"),
                           Cells(pairs(known[i]), PostgresText, "ref_column_name"),
                           PostgresFkAction(PostgresText(known[i][1], "on_delete_code")),
                           PostgresFkAction(PostgresText(known[i][1], "on_update_code")))]

(* -1 rows are the planner's "never counted": the rows are counted then.   *)
PostgresEstimate(rows) == PostgresInt64(rows[1], "row_estimate", -1)
PostgresMustCount(rows) == rows # <<>> /\ PostgresEstimate(rows) < 0

PostgresExactRowCount(rows) ==
    IF rows = <<>> \/ rows[1]["row_count"].type # "integer" THEN Failed
    ELSE Returned(Count(rows[1]["row_count"].v, FALSE))

PostgresEstimateRowCount(answers) ==
    CASE answers[1] = <<>>             -> Failed
      [] PostgresMustCount(answers[1]) -> PostgresExactRowCount(answers[2])
      [] OTHER                         -> Returned(Count(PostgresEstimate(answers[1]), TRUE))

PostgresQueries(call, t, answers) ==
    CASE call = "list_schemas"       -> <<Query("namespaces", None)>>
      [] call = "list_relations"     -> <<Query("relations", None)>>
      [] call = "get_columns"        -> <<Query("key", t), Query("columns", t)>>
      [] call = "get_indexes"        -> <<Query("indexes", t)>>
      [] call = "get_foreign_keys"   -> <<Query("constraints", t)>>
      [] call = "get_primary_key"    -> <<Query("key", t)>>
      [] call = "estimate_row_count" ->
             <<Query("class", t)>>
             \o (IF answers # <<>> /\ PostgresMustCount(answers[1])
                 THEN <<Query("count", t)>> ELSE <<>>)

PostgresResult(call, answers) ==
    CASE call = "list_schemas"       -> Returned(PostgresListSchemas(answers[1]))
      [] call = "list_relations"     -> Returned(PostgresListRelations(answers[1]))
      [] call = "get_columns"        -> Returned(PostgresGetColumns(answers[1], answers[2]))
      [] call = "get_indexes"        -> Returned(PostgresGetIndexes(answers[1]))
      [] call = "get_foreign_keys"   -> Returned(PostgresGetForeignKeys(answers[1]))
      [] call = "get_primary_key"    -> Returned(PostgresGetPrimaryKey(answers[1]))
      [] call = "estimate_row_count" -> PostgresEstimateRowCount(answers)
===============================================================================
