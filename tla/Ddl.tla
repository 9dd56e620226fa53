---------------------------------- MODULE Ddl ----------------------------------
(***************************************************************************)
(* The three DDL compilers (the orm-DIALECT-ddl-compiler.c of src/dialect/).  A statement  *)
(* is a record of what its text says, not the text: a clause that is left  *)
(* out of the text is FALSE, None or empty in the record.                  *)
(***************************************************************************)
EXTENDS Dialect

NamesOf(seq, key) == [i \in DOMAIN seq |-> seq[i][key]]
Mapped(F(_), seq) == [i \in DOMAIN seq |-> F(seq[i])]

TypeOfColumn(c, d) == IF c.type = NoType THEN <<"TEXT">> ELSE GetName(c.type, d)

-------------------------------------------------------------------------------
(*                                SQLite                                   *)

(* AUTOINCREMENT comes only after PRIMARY KEY, NOT NULL only without it.   *)
SqliteColumn(c) ==
    [name |-> c.name, type |-> TypeOfColumn(c, "sqlite"),
     pk |-> c.pk, auto |-> c.pk /\ c.auto,
     notNull |-> ~c.nullable /\ ~c.pk, unique |-> c.unique /\ ~c.pk,
     default |-> c.default]

SqlitePrimaryKey(pk) == [name |-> pk.name, cols |-> pk.cols]

(* NO ACTION is not written.                                               *)
SqliteForeignKey(fk) == fk

(* A key of the table is written when it has several columns: one of a     *)
(* single column is left to the column's own flag.                         *)
TableKey(t) == IF Len(t.pk.cols) > 1 THEN <<t.pk>> ELSE <<>>

SqliteCreateTable(t, ifNotExists) ==
    [op |-> "create_table", name |-> t.name, guarded |-> ifNotExists,
     cols |-> Mapped(SqliteColumn, t.cols), keys |-> Mapped(SqlitePrimaryKey, TableKey(t)),
     fks |-> Mapped(SqliteForeignKey, t.fks)]

SqliteDropTable(t, ifExists, cascade) ==
    [op |-> "drop_table", name |-> t.name, guarded |-> ifExists, cascade |-> FALSE]

SqliteCreateIndex(ix, t, ifNotExists) ==
    [op |-> "create_index", name |-> ix.name, table |-> t.name, cols |-> ix.cols,
     unique |-> ix.unique, guarded |-> ifNotExists]

SqliteDropIndex(ix, t, ifExists) ==
    [op |-> "drop_index", name |-> ix.name, table |-> None, guarded |-> ifExists]

-------------------------------------------------------------------------------
(*                              PostgreSQL                                 *)

(* SERIAL replaces the type of the column, and its default.                *)
Serial(c) == IF TypeOfColumn(c, "postgres") = <<"BIGINT">> THEN <<"BIGSERIAL">>
             ELSE <<"SERIAL">>

PostgresColumn(c) ==
    [name |-> c.name, type |-> IF c.auto THEN Serial(c) ELSE TypeOfColumn(c, "postgres"),
     pk |-> c.pk, auto |-> FALSE,
     notNull |-> ~c.nullable /\ ~c.pk, unique |-> c.unique /\ ~c.pk,
     default |-> IF c.auto THEN None ELSE c.default]

PostgresPrimaryKey(pk) == [name |-> pk.name, cols |-> pk.cols]
PostgresForeignKey(fk) == fk

PostgresCreateTable(t, ifNotExists) ==
    [op |-> "create_table", name |-> t.name, guarded |-> ifNotExists,
     cols |-> Mapped(PostgresColumn, t.cols), keys |-> Mapped(PostgresPrimaryKey, TableKey(t)),
     fks |-> Mapped(PostgresForeignKey, t.fks)]

PostgresDropTable(t, ifExists, cascade) ==
    [op |-> "drop_table", name |-> t.name, guarded |-> ifExists, cascade |-> cascade]

PostgresCreateIndex(ix, t, ifNotExists) ==
    [op |-> "create_index", name |-> ix.name, table |-> t.name, cols |-> ix.cols,
     unique |-> ix.unique, guarded |-> ifNotExists]

PostgresDropIndex(ix, t, ifExists) ==
    [op |-> "drop_index", name |-> ix.name, table |-> None, guarded |-> ifExists]

-------------------------------------------------------------------------------
(*                                MySQL                                    *)

(* A mutant: AUTO_INCREMENT and PRIMARY KEY exclude each other.            *)
MySqlColumnWithoutAuto(c) ==
    [name |-> c.name, type |-> TypeOfColumn(c, "mysql"),
     pk |-> c.pk, auto |-> c.auto /\ ~c.pk,
     notNull |-> ~c.nullable /\ ~c.pk, unique |-> c.unique /\ ~c.pk,
     default |-> IF c.auto THEN None ELSE c.default]

MySqlColumn(c) ==
    [name |-> c.name, type |-> TypeOfColumn(c, "mysql"),
     pk |-> c.pk, auto |-> c.auto,
     notNull |-> ~c.nullable /\ ~c.pk, unique |-> c.unique /\ ~c.pk,
     default |-> IF c.auto THEN None ELSE c.default]

MySqlPrimaryKey(pk) == [name |-> pk.name, cols |-> pk.cols]

(* InnoDB has no SET DEFAULT.                                              *)
MySqlAction(action) == IF action = "set_default" THEN "no_action" ELSE action

MySqlForeignKey(fk) ==
    [fk EXCEPT !.onDelete = MySqlAction(@), !.onUpdate = MySqlAction(@)]

MySqlCreateTable(t, ifNotExists) ==
    [op |-> "create_table", name |-> t.name, guarded |-> ifNotExists,
     cols |-> Mapped(MySqlColumn, t.cols), keys |-> Mapped(MySqlPrimaryKey, TableKey(t)),
     fks |-> Mapped(MySqlForeignKey, t.fks)]

MySqlDropTable(t, ifExists, cascade) ==
    [op |-> "drop_table", name |-> t.name, guarded |-> ifExists, cascade |-> FALSE]

(* MySQL knows neither IF NOT EXISTS nor IF EXISTS of an index.            *)
MySqlCreateIndex(ix, t, ifNotExists) ==
    [op |-> "create_index", name |-> ix.name, table |-> t.name, cols |-> ix.cols,
     unique |-> ix.unique, guarded |-> FALSE]

MySqlDropIndex(ix, t, ifExists) ==
    [op |-> "drop_index", name |-> ix.name, table |-> t.name, guarded |-> FALSE]

-------------------------------------------------------------------------------
(*                 The interface, orm-ddl-compiler.c                       *)

CompileCreateTable(d, t, ifNotExists) ==
    CASE d = "sqlite"   -> SqliteCreateTable(t, ifNotExists)
      [] d = "postgres" -> PostgresCreateTable(t, ifNotExists)
      [] d = "mysql"    -> MySqlCreateTable(t, ifNotExists)

CompileDropTable(d, t, ifExists, cascade) ==
    CASE d = "sqlite"   -> SqliteDropTable(t, ifExists, cascade)
      [] d = "postgres" -> PostgresDropTable(t, ifExists, cascade)
      [] d = "mysql"    -> MySqlDropTable(t, ifExists, cascade)

CompileCreateIndex(d, ix, t, ifNotExists) ==
    CASE d = "sqlite"   -> SqliteCreateIndex(ix, t, ifNotExists)
      [] d = "postgres" -> PostgresCreateIndex(ix, t, ifNotExists)
      [] d = "mysql"    -> MySqlCreateIndex(ix, t, ifNotExists)

CompileDropIndex(d, ix, t, ifExists) ==
    CASE d = "sqlite"   -> SqliteDropIndex(ix, t, ifExists)
      [] d = "postgres" -> PostgresDropIndex(ix, t, ifExists)
      [] d = "mysql"    -> MySqlDropIndex(ix, t, ifExists)
===============================================================================
