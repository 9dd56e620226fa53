-------------------------------- MODULE Dialect --------------------------------
(***************************************************************************)
(* What the library knows of each database (src/dialect/): the facts a     *)
(* dialect answers for, and how names and strings are quoted.  Text is a   *)
(* sequence of characters where quoting is the matter, and nowhere else.   *)
(***************************************************************************)
EXTENDS Schema

(* Stand for the characters " and ` and '.                                 *)
DoubleQuote == "dq"
BackQuote   == "bq"
SingleQuote == "sq"

SqliteDialect ==
    [name |-> "SQLite", driver |-> "sqlite", quote |-> DoubleQuote, params |-> "?",
     returning |-> TRUE, schemas |-> FALSE, sequences |-> FALSE,
     autoincrement |-> TRUE, boolean |-> FALSE]

PostgresDialect ==
    [name |-> "PostgreSQL", driver |-> "postgresql", quote |-> DoubleQuote, params |-> "$",
     returning |-> TRUE, schemas |-> TRUE, sequences |-> TRUE,
     autoincrement |-> TRUE, boolean |-> TRUE]

MySqlDialect ==
    [name |-> "MySQL", driver |-> "mysql", quote |-> BackQuote, params |-> "?",
     returning |-> FALSE, schemas |-> FALSE, sequences |-> FALSE,
     autoincrement |-> TRUE, boolean |-> FALSE]

DialectForType(d) ==
    CASE d = "sqlite"   -> SqliteDialect
      [] d = "postgres" -> PostgresDialect
      [] d = "mysql"    -> MySqlDialect

(* orm_dialect_get_name() and the calls like it, and orm_dialect_supports_*() *)
Fact(d, name)     == DialectForType(d)[name]
Supports(d, what) == DialectForType(d)[what]

-------------------------------------------------------------------------------
(* Every quote character inside is doubled.                                *)
Quote(text, q) ==
    LET doubled[n \in 0 .. Len(text)] ==
          IF n = 0 THEN <<>>
          ELSE doubled[n - 1] \o (IF text[n] = q THEN <<q, q>> ELSE <<text[n]>>)
    IN  <<q>> \o doubled[Len(text)] \o <<q>>

(* MySQL's dialect quotes identifiers with a function of its own.          *)
MySqlQuoteIdentifier(text) == Quote(text, BackQuote)

QuoteIdentifier(d, text) ==
    IF d = "mysql" THEN MySqlQuoteIdentifier(text) ELSE Quote(text, Fact(d, "quote"))

QuoteString(d, text) == Quote(text, SingleQuote)
===============================================================================
