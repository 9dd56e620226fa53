------------------------------- MODULE SqlTypes -------------------------------
(***************************************************************************)
(* The column types (src/types/) and what each dialect calls them: by      *)
(* OrmSqlType.get_name(), which the DDL compilers use, and by the type     *)
(* compilers of src/dialect/, which are there for a program that writes    *)
(* its own DDL.  A name is a tuple, <<"VARCHAR", 10>> or <<"TEXT">>.       *)
(***************************************************************************)
EXTENDS Naturals

Dialects  == {"sqlite", "postgres", "mysql"}
TypeKinds == {"integer", "bigint", "string", "text", "boolean", "float",
              "double", "datetime", "blob"}

(* A type, or NoType where a column was made without one.                  *)
Type(kind)     == [kind |-> kind, length |-> 0]
String(length) == [kind |-> "string", length |-> length]
NoType         == Type("none")

IsType(type) ==
    \/ type = NoType
    \/ \E kind \in TypeKinds : type = Type(kind)
    \/ type.length \in Nat /\ type = String(type.length)

-------------------------------------------------------------------------------
(*                    The names of get_name()                              *)

Varchar(length) == <<"VARCHAR", length>>

IntegerName == [sqlite |-> <<"INTEGER">>, postgres |-> <<"INTEGER">>, mysql |-> <<"INT">>]
BigIntName  == [sqlite |-> <<"INTEGER">>, postgres |-> <<"BIGINT">>, mysql |-> <<"BIGINT">>]

StringName(length) ==
    [d \in Dialects |->
        IF d = "sqlite" \/ length = 0 THEN <<"TEXT">> ELSE Varchar(length)]

TextName     == [d \in Dialects |-> <<"TEXT">>]
BooleanName  == [sqlite |-> <<"INTEGER">>, postgres |-> <<"BOOLEAN">>,
                 mysql |-> <<"TINYINT", 1>>]
FloatName    == [sqlite |-> <<"REAL">>, postgres |-> <<"REAL">>, mysql |-> <<"FLOAT">>]
DoubleName   == [sqlite |-> <<"REAL">>, postgres |-> <<"DOUBLE PRECISION">>,
                 mysql |-> <<"DOUBLE">>]
DateTimeName == [sqlite |-> <<"TEXT">>, postgres |-> <<"TIMESTAMP">>,
                 mysql |-> <<"DATETIME">>]
BlobName     == [sqlite |-> <<"BLOB">>, postgres |-> <<"BYTEA">>, mysql |-> <<"BLOB">>]

GetName(type, d) ==
    CASE type.kind = "integer"  -> IntegerName[d]
      [] type.kind = "bigint"   -> BigIntName[d]
      [] type.kind = "string"   -> StringName(type.length)[d]
      [] type.kind = "text"     -> TextName[d]
      [] type.kind = "boolean"  -> BooleanName[d]
      [] type.kind = "float"    -> FloatName[d]
      [] type.kind = "double"   -> DoubleName[d]
      [] type.kind = "datetime" -> DateTimeName[d]
      [] type.kind = "blob"     -> BlobName[d]
      [] OTHER                  -> <<"UNKNOWN">>

-------------------------------------------------------------------------------
(*                    The names of the type compilers                      *)

SqliteCompiles(type) ==
    CASE type.kind \in {"integer", "bigint", "boolean"}   -> <<"INTEGER">>
      [] type.kind \in {"string", "text", "datetime"}     -> <<"TEXT">>
      [] type.kind \in {"float", "double"}                -> <<"REAL">>
      [] type.kind = "blob"                               -> <<"BLOB">>

PostgresCompiles(type) ==
    CASE type.kind = "integer"  -> <<"INTEGER">>
      [] type.kind = "bigint"   -> <<"BIGINT">>
      [] type.kind = "text" \/ type = String(0) -> <<"TEXT">>
      [] type.kind = "string" /\ type.length > 0 -> Varchar(type.length)
      [] type.kind = "boolean"  -> <<"BOOLEAN">>
      [] type.kind = "float"    -> <<"REAL">>
      [] type.kind = "double"   -> <<"DOUBLE PRECISION">>
      [] type.kind = "datetime" -> <<"TIMESTAMPTZ">>
      [] type.kind = "blob"     -> <<"BYTEA">>

LongestVarchar == 65535

MySqlCompilesString(length) ==
    IF length = 0 THEN Varchar(255)
    ELSE IF length > LongestVarchar THEN <<"TEXT">>
    ELSE Varchar(length)

MySqlCompiles(type) ==
    CASE type.kind = "integer"  -> <<"INT">>
      [] type.kind = "bigint"   -> <<"BIGINT">>
      [] type.kind = "string"   -> MySqlCompilesString(type.length)
      [] type.kind = "text"     -> <<"TEXT">>
      [] type.kind = "boolean"  -> <<"TINYINT", 1>>
      [] type.kind = "float"    -> <<"FLOAT">>
      [] type.kind = "double"   -> <<"DOUBLE">>
      [] type.kind = "datetime" -> <<"DATETIME">>
      [] type.kind = "blob"     -> <<"BLOB">>

(* orm_type_compiler_compile_integer() and the calls like it.              *)
Compiles(type, d) ==
    CASE d = "sqlite"   -> SqliteCompiles(type)
      [] d = "postgres" -> PostgresCompiles(type)
      [] d = "mysql"    -> MySqlCompiles(type)
===============================================================================
