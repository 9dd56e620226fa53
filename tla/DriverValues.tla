------------------------------ MODULE DriverValues -----------------------------
(***************************************************************************)
(* What each driver binds of a value, what the database makes of it in a   *)
(* column of a given type, and what the driver reads back.  A stored value *)
(* is written as a value too: what a server keeps as a moment is one of    *)
(* type "datetime", whatever text it came in.                              *)
(***************************************************************************)
EXTENDS Value, SqlTypes

LOCAL INSTANCE SequencesExt

(* A value that the caller gave as NULL pointer binds as NULL.             *)
OrNull(value) == IF value = NoValue THEN NullValue ELSE value

-------------------------------------------------------------------------------
(*                                SQLite                                   *)

SqliteBind(value) ==
    CASE value.type = "boolean"  -> NewInteger(IF GetBoolean(value) THEN 1 ELSE 0)
      [] value.type = "datetime" -> NewString(IsoText(GetDateTime(value)))
      [] OTHER                   -> OrNull(value)

SqliteColumnToValue(cell) ==
    CASE cell.type = "integer" -> NewInteger(Number(cell))
      [] cell.type = "float"   -> NewFloat(Number(cell))
      [] cell.type = "string"  -> NewString(cell.v)
      [] cell.type = "blob"    -> NewBlob(cell.v)
      [] OTHER                 -> NullValue

(* The words that strstr() finds in the name of a type.                    *)
Mentions ==
    [INTEGER |-> {"INT"}, TEXT |-> {"TEXT"}, VARCHAR |-> {"CHAR"}, REAL |-> {"REAL"},
     BLOB |-> {"BLOB"}]

(* No declared type at all, as an expression has, is a NULL column.        *)
SqliteAffinity(name) ==
    LET Says(words) == Mentions[name[1]] \cap words # {}
    IN  IF Says({"INT"}) THEN "integer"
        ELSE IF Says({"CHAR", "CLOB", "TEXT"}) THEN "string"
        ELSE IF Says({"BLOB"}) THEN "blob"
        ELSE IF Says({"REAL", "FLOA", "DOUB"}) THEN "float"
        ELSE IF Says({"BOOL"}) THEN "boolean"
        ELSE IF Says({"DATE", "TIME"}) THEN "datetime"
        ELSE "float"

-------------------------------------------------------------------------------
(*                              PostgreSQL                                 *)

(* The types a column of the library's can have, of those the driver knows. *)
PostgresTypes ==
    [BOOLEAN |-> "boolean", BYTEA |-> "blob", BIGINT |-> "integer", INTEGER |-> "integer",
     TEXT |-> "string", REAL |-> "float", VARCHAR |-> "string", TIMESTAMP |-> "datetime"]
PostgresColumnType(name) ==
    IF name[1] = "DOUBLE PRECISION" THEN "float"
    ELSE IF name[1] \in DOMAIN PostgresTypes THEN PostgresTypes[name[1]]
    ELSE "string"

(* Everything is sent as text: a float with the digits of "%g".            *)
PostgresValueToString(value) ==
    CASE value.type = "float"    -> NewFloat(Rounded(GetFloat(value), ShortDigits))
      [] value.type = "datetime" -> NewString(IsoText(GetDateTime(value)))
      [] OTHER                   -> OrNull(value)

HexText(bytes) == <<92, 120>> \o FlattenSeq([i \in DOMAIN bytes |->
                                                <<bytes[i] \div 16, bytes[i] % 16>>])

(* The text that the server sends of a cell, and what is made of it.       *)
PostgresFieldToValue(cell, name) ==
    IF IsNull(cell) THEN NullValue
    ELSE CASE name[1] = "BOOLEAN" -> NewBoolean(Number(cell) # 0)
           [] name[1] \in {"INTEGER", "BIGINT"} -> NewInteger(Number(cell))
           [] name[1] \in {"REAL", "DOUBLE PRECISION"} -> NewFloat(Number(cell))
           [] name[1] = "BYTEA" -> NewString(HexText(cell.v))
           [] OTHER -> NewString(IF cell.type = "datetime" THEN ServerText(cell.v) ELSE cell.v)

-------------------------------------------------------------------------------
(*                                 MySQL                                   *)

MySqlBind(value) ==
    CASE value.type = "boolean"  -> NewInteger(IF GetBoolean(value) THEN 1 ELSE 0)
      [] value.type = "datetime" -> NewString(IsoText(GetDateTime(value)))
      [] OTHER                   -> OrNull(value)

(* The protocol's name of a column's type: a TEXT column is a BLOB to it.   *)
FieldTypes ==
    [INT |-> "LONG", BIGINT |-> "LONGLONG", TINYINT |-> "TINY", FLOAT |-> "FLOAT",
     DOUBLE |-> "DOUBLE", TEXT |-> "BLOB", BLOB |-> "BLOB", VARCHAR |-> "VAR_STRING",
     DATETIME |-> "DATETIME"]

MySqlValueFromField(cell, name) ==
    LET field == FieldTypes[name[1]]
    IN  IF IsNull(cell) THEN NullValue
        ELSE CASE field \in {"TINY", "SHORT", "LONG", "LONGLONG", "INT24"} -> NewInteger(Number(cell))
               [] field \in {"FLOAT", "DOUBLE"} -> NewFloat(Number(cell))
               [] field = "BLOB" -> NewBlob(cell.v)
               [] OTHER -> NewString(IF cell.type = "datetime" THEN ServerText(cell.v) ELSE cell.v)

MySqlValueType(name) ==
    LET field == FieldTypes[name[1]]
    IN  CASE field \in {"TINY", "SHORT", "LONG", "LONGLONG", "INT24"} -> "integer"
          [] field \in {"FLOAT", "DOUBLE"} -> "float"
          [] field = "BLOB"                -> "blob"
          [] field = "DATETIME"            -> "datetime"
          [] OTHER                         -> "string"

-------------------------------------------------------------------------------
(*                              Every driver                               *)

BindValue(d, value) ==
    CASE d = "sqlite"   -> SqliteBind(value)
      [] d = "postgres" -> PostgresValueToString(value)
      [] d = "mysql"    -> MySqlBind(value)

ReadCell(d, cell, name) ==
    CASE d = "sqlite"   -> SqliteColumnToValue(cell)
      [] d = "postgres" -> PostgresFieldToValue(cell, name)
      [] d = "mysql"    -> MySqlValueFromField(cell, name)

ColumnValueType(d, name) ==
    CASE d = "sqlite"   -> SqliteAffinity(name)
      [] d = "postgres" -> PostgresColumnType(name)
      [] d = "mysql"    -> MySqlValueType(name)

(* What a column keeps of what was bound.  SQLite keeps what it is given;  *)
(* the servers have a type for each column: INT is IntBits wide and refuses *)
(* more, a single precision column keeps SingleDigits (and MySQL shows     *)
(* ShortDigits of them), a text that names a moment becomes one.           *)
Refuses(d, bound, name) ==
    d # "sqlite" /\ bound.type = "integer" /\ name[1] \in {"INTEGER", "INT"}
      /\ Wrap(Number(bound), IntBits) # Number(bound)

Kept(d, bound, name) ==
    IF d = "sqlite" THEN bound
    ELSE CASE bound.type = "float" /\ name[1] = "REAL"  -> NewFloat(Rounded(Number(bound), SingleDigits))
           [] bound.type = "float" /\ name[1] = "FLOAT" -> NewFloat(Rounded(Number(bound), ShortDigits))
           [] bound.type = "string" /\ name[1] \in {"TIMESTAMP", "DATETIME"} -> NewDateTime(MomentOf(bound.v))
           [] OTHER -> bound
===============================================================================
