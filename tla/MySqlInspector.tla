---------------------------- MODULE MySqlInspector ----------------------------
(***************************************************************************)
(* src/inspect/mysql/: the inspector of a MySQL connection, in the form of *)
(* SqliteInspector.  Every call but one is a single query of               *)
(* information_schema, whose long texts the driver delivers as blobs.      *)
(***************************************************************************)
EXTENDS SchemaInfo

MySqlDataTypes ==
    [tinyint |-> "integer", smallint |-> "integer", mediumint |-> "integer",
     int |-> "integer", bigint |-> "integer", float |-> "float", double |-> "float",
     decimal |-> "float", blob |-> "blob", longblob |-> "blob", varbinary |-> "blob",
     date |-> "datetime", datetime |-> "datetime", timestamp |-> "datetime"]

MySqlValueType(dataType) ==
    IF dataType \in DOMAIN MySqlDataTypes THEN MySqlDataTypes[dataType] ELSE "string"

MySqlRelationKind(tableType) ==
    IF tableType \in {"VIEW", "SYSTEM_VIEW"} THEN "view" ELSE "table"

MySqlForeignKeyAction(rule) ==
    IF rule \in {"cascade", "set_null", "set_default", "restrict"} THEN rule ELSE "no_action"

MySqlIsAutoincrement(extra) == extra = "auto_increment"

(* Text is read out of a blob as well as out of a string.                  *)
MySqlRowText(row, col) == row[col].v

MySqlRowInt(row, col, fallback) ==
    IF row[col].type = "null" THEN fallback ELSE row[col].v

MySqlRowIsNull(row, col) == row[col].type = "null"

MySqlHas(rows, col) == Having(rows, {i \in DOMAIN rows : MySqlRowText(rows[i], col) # None})

MySqlListSchemas(rows) == Cells(MySqlHas(rows, "SCHEMA_NAME"), MySqlRowText, "SCHEMA_NAME")

MySqlListRelations(rows) ==
    LET named == MySqlHas(rows, "TABLE_NAME")
    IN  [i \in DOMAIN named |->
            TableInfo(MySqlRowText(named[i], "TABLE_NAME"),
                      MySqlRelationKind(MySqlRowText(named[i], "TABLE_TYPE")))]

MySqlPosition(row) ==
    LET position == MySqlRowInt(row, "ORDINAL_POSITION", 1)
    IN  IF position < 1 THEN 1 ELSE position

MySqlGetColumns(rows) ==
    LET named == MySqlHas(rows, "COLUMN_NAME")
    IN  [i \in DOMAIN named |->
            ColumnInfo(MySqlRowText(named[i], "COLUMN_NAME"),
                       IF MySqlRowText(named[i], "COLUMN_TYPE") # None
                       THEN MySqlRowText(named[i], "COLUMN_TYPE")
                       ELSE MySqlRowText(named[i], "DATA_TYPE"),
                       MySqlValueType(MySqlRowText(named[i], "DATA_TYPE")),
                       MySqlRowText(named[i], "IS_NULLABLE") = "YES",
                       MySqlRowText(named[i], "COLUMN_DEFAULT"),
                       MySqlRowText(named[i], "COLUMN_KEY") = "PRI",
                       MySqlIsAutoincrement(MySqlRowText(named[i], "EXTRA")),
                       MySqlPosition(named[i]) - 1)]

MySqlGetIndexes(rows) ==
    LET runs == Runs(MySqlHas(rows, "INDEX_NAME"), "INDEX_NAME")
    IN  [i \in DOMAIN runs |->
            IndexInfo(MySqlRowText(runs[i][1], "INDEX_NAME"),
                      MySqlRowInt(runs[i][1], "NON_UNIQUE", 1) = 0,
                      Cells(MySqlHas(runs[i], "COLUMN_NAME"), MySqlRowText, "COLUMN_NAME"))]

MySqlGetForeignKeys(rows) ==
    LET runs == Runs(MySqlHas(rows, "CONSTRAINT_NAME"), "CONSTRAINT_NAME")
        pairs(run) == MySqlHas(MySqlHas(run, "COLUMN_NAME"), "REFERENCED_COLUMN_NAME")
        known == Having(runs, {i \in DOMAIN runs :
                           MySqlRowText(runs[i][1], "REFERENCED_TABLE_NAME") # None})
    IN  [i \in DOMAIN known |->
            ForeignKeyInfo(MySqlRowText(known[i][1], "CONSTRAINT_NAME"),
                           Cells(pairs(known[i]), MySqlRowText, "COLUMN_NAME"),
                           MySqlRowText(known[i][1], "REFERENCED_TABLE_NAME"),
                           Cells(pairs(known[i]), MySqlRowText, "REFERENCED_COLUMN_NAME"),
                           MySqlForeignKeyAction(MySqlRowText(known[i][1], "DELETE_RULE")),
                           MySqlForeignKeyAction(MySqlRowText(known[i][1], "UPDATE_RULE")))]

MySqlGetPrimaryKey(rows) == Cells(MySqlHas(rows, "COLUMN_NAME"), MySqlRowText, "COLUMN_NAME")

(* A view has no TABLE_ROWS: its rows are counted.                         *)
MySqlMustCount(rows) == rows # <<>> /\ MySqlRowIsNull(rows[1], "TABLE_ROWS")

MySqlCountRows(rows) ==
    IF rows = <<>> THEN Failed
    ELSE Returned(Count(MySqlRowInt(rows[1], "row_count", 0), FALSE))

MySqlEstimateRowCount(answers) ==
    CASE answers[1] = <<>>          -> Failed
      [] MySqlMustCount(answers[1]) -> MySqlCountRows(answers[2])
      [] OTHER -> Returned(Count(MySqlRowInt(answers[1][1], "TABLE_ROWS", 0), TRUE))

MySqlQueries(call, t, answers) ==
    CASE call = "list_schemas"       -> <<Query("schemata", None)>>
      [] call = "list_relations"     -> <<Query("tables", None)>>
      [] call = "get_columns"        -> <<Query("columns", t)>>
      [] call = "get_indexes"        -> <<Query("statistics", t)>>
      [] call = "get_foreign_keys"   -> <<Query("usage", t)>>
      [] call = "get_primary_key"    -> <<Query("key", t)>>
      [] call = "estimate_row_count" ->
             <<Query("rows", t)>>
             \o (IF answers # <<>> /\ MySqlMustCount(answers[1])
                 THEN <<Query("count", t)>> ELSE <<>>)

MySqlResult(call, answers) ==
    CASE call = "list_schemas"       -> Returned(MySqlListSchemas(answers[1]))
      [] call = "list_relations"     -> Returned(MySqlListRelations(answers[1]))
      [] call = "get_columns"        -> Returned(MySqlGetColumns(answers[1]))
      [] call = "get_indexes"        -> Returned(MySqlGetIndexes(answers[1]))
      [] call = "get_foreign_keys"   -> Returned(MySqlGetForeignKeys(answers[1]))
      [] call = "get_primary_key"    -> Returned(MySqlGetPrimaryKey(answers[1]))
      [] call = "estimate_row_count" -> MySqlEstimateRowCount(answers)
===============================================================================
