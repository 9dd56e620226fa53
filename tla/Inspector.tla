------------------------------- MODULE Inspector -------------------------------
(***************************************************************************)
(* orm-inspector.c: the calls of an inspector, handed to the class of the  *)
(* connection's dialect, and the three that are made from list_relations.  *)
(***************************************************************************)
EXTENDS SqliteInspector, PostgresInspector, MySqlInspector

Calls == {"list_schemas", "list_relations", "get_columns", "get_indexes",
          "get_foreign_keys", "get_primary_key", "estimate_row_count"}

ListingCalls == {"list_tables", "list_views", "has_table"}

(* orm_inspector_new() picks the class by the engine's dialect.            *)
Queries(d, call, t, answers) ==
    LET asked == IF call \in ListingCalls THEN "list_relations" ELSE call
    IN  CASE d = "sqlite"   -> SqliteQueries(asked, t, answers)
          [] d = "postgres" -> PostgresQueries(asked, t, answers)
          [] d = "mysql"    -> MySqlQueries(asked, t, answers)

DialectResult(d, call, answers) ==
    CASE d = "sqlite"   -> SqliteResult(call, answers)
      [] d = "postgres" -> PostgresResult(call, answers)
      [] d = "mysql"    -> MySqlResult(call, answers)

(* The value type an inspector of the dialect gives a type of the database. *)
ValueTypeOf(d, type) ==
    CASE d = "sqlite"   -> AffinityOf(type)
      [] d = "postgres" -> PostgresValueType(type)
      [] d = "mysql"    -> MySqlValueType(type)

ListOfKind(infos, kind) ==
    NamesOf(Having(infos, {i \in DOMAIN infos : infos[i].kind = kind}), "name")

ListTables(infos) == ListOfKind(infos, "table")
ListViews(infos)  == ListOfKind(infos, "view")

(* A table or a view of that name.                                         *)
HasTable(infos, t) == \E i \in DOMAIN infos : infos[i].name = t

Result(d, call, t, answers) ==
    LET infos == DialectResult(d, "list_relations", answers).value
    IN  CASE call = "list_tables" -> Returned(ListTables(infos))
          [] call = "list_views"  -> Returned(ListViews(infos))
          [] call = "has_table"   -> Returned(HasTable(infos, t))
          [] OTHER                -> DialectResult(d, call, answers)
===============================================================================
