----------------------------- MODULE MCSchemaSync -----------------------------
(***************************************************************************)
(* The declarations and the names the runs of SchemaSync are made of.      *)
(***************************************************************************)
EXTENDS SchemaSync

Order == <<"PRIMARY", "c", "c_fkey", "c_pkey", "c_r_idx", "f", "f_w_key", "l", "l_ab", "l_fkey",
           "l_pkey", "p", "p_name_key", "p_pkey", "v", "x">>

Id == AddColumnFull(NewTable("p"), "id", Type("bigint"), TRUE, FALSE, FALSE, TRUE, None)

(* A parent with a key the server fills and a unique name.                 *)
Parent ==
    AddColumn(AddColumn(Id,
        SetNullable(SetUnique(NewColumn("name", String(10)), TRUE), FALSE)),
        SetDefault(NewColumn("on", Type("boolean")), "0"))

(* A child that is deleted with its parent, and an index.  A default has   *)
(* SQLite's keyword in it, beside an INTEGER key that does not fill itself. *)
Child ==
    LET cols == AddColumn(AddColumn(AddColumn(AddColumn(NewTable("c"),
                    SetColumnProperty(SetColumnProperty(NewColumn("id", Type("integer")),
                        "primary-key", TRUE), "nullable", FALSE)),
                    NewColumn("r", Type("bigint"))),
                    NewColumn("at", Type("datetime"))),
                    SetDefault(NewColumn("by", String(20)), "'autoincrement'"))
        fk == SetOnDelete(AddForeignKeyColumn(NewForeignKey(None, "p"), "r", "id"), "cascade")
    IN  AddIndex(AddForeignKey(cols, fk), AddIndexColumn(NewIndex("c_r_idx", <<>>), "r"))

(* A link table: a key of two columns, in an order of its own, a key to    *)
(* the parent that forbids, and a key of two columns to itself.            *)
Link ==
    LET cols == AddColumn(AddColumn(AddColumn(AddColumn(NewTable("l"),
                    SetNullable(NewColumn("a", Type("bigint")), FALSE)),
                    SetNullable(NewColumn("b", Type("integer")), FALSE)),
                    NewColumn("c", Type("bigint"))),
                    NewColumn("e", Type("integer")))
        keyed == SetPrimaryKey(cols, AddKeyColumn(NewPrimaryKey(None, <<"b">>), "a"))
        toParent == SetForeignKeyProperty(SetForeignKeyName(
                        AddForeignKeyColumn(NewForeignKey(None, "p"), "a", "id"), "l_fkey"),
                        "on-delete", "restrict")
        toLink == AddForeignKeyColumn(AddForeignKeyColumn(NewForeignKey("l_ab", "l"),
                                                          "e", "b"), "c", "a")
    IN  AddForeignKey(AddForeignKey(keyed, toParent), toLink)

(* A table of the other types, without a key but a unique column.          *)
Facts ==
    AddColumn(AddColumn(AddColumn(AddColumn(AddColumn(NewTable("f"),
        SetDefault(NewColumn("x", Type("double")), "1")),
        NewColumn("y", Type("blob"))), NewColumn("z", Type("text"))),
        SetNullable(SetUnique(NewColumn("w", Type("integer")), TRUE), FALSE)),
        NewColumn("n", NoType))

Declare(tables) ==
    LET added[n \in 0 .. Len(tables)] ==
          IF n = 0 THEN Clear(Order) ELSE AddTable(added[n - 1], tables[n])
    IN  added[Len(tables)]

Parents  == Declare(<<Parent, Child>>)
Links    == Declare(<<Parent, Link>>)
Backward == Declare(<<Child, Parent>>)
Keywords == {"AUTOINCREMENT", "'autoincrement'"}
Plain    == RemoveTable(Declare(<<Facts, Parent>>), "p")

AllDeclarations == {Parents, Links, Backward, Plain}

(* What other programs do: drop a table, or create one of its name with    *)
(* less in it.  An implicit foreign key is SQLite's alone.                 *)
Other(dialect) ==
    LET implicit == AddForeignKey(AddColumn(NewTable("c"), NewColumn("r", Type("integer"))),
                        AddForeignKeyColumn(NewForeignKey(None, "p"), "r", None))
        drop(t) == CompileDropTable(dialect, NewTable(t), FALSE, FALSE)
    IN  {drop("c"), drop("l"), drop("p")}
        \cup (IF dialect = "sqlite" THEN {CompileCreateTable(dialect, implicit, FALSE)}
              ELSE {CompileCreateTable(dialect,
                        AddColumn(NewTable("c"), NewColumn("r", Type("integer"))), FALSE)})
===============================================================================
