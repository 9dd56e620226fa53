----------------------------- MODULE CatalogueRows -----------------------------
(***************************************************************************)
(* The answers of the databases to the queries of the inspectors: the      *)
(* pragmas of SQLite, pg_catalog and information_schema.  External to the  *)
(* repository.  An answer is a set of the sequences of rows that may come. *)
(***************************************************************************)
EXTENDS SchemaInfo

-------------------------------------------------------------------------------
(* A catalogue that holds together, as the databases keep theirs.          *)

IsName(x) == x \in RangeOf(Alphabet)
Unlike(seq, key) == \A i, j \in DOMAIN seq : seq[i][key] = seq[j][key] => i = j

IsColumn(e, r, c) ==
    /\ c.name # None /\ c.type \notin {None, ""}
    /\ c.notNull \in BOOLEAN /\ c.auto \in BOOLEAN
    /\ c.auto /\ e = "sqlite" => c.type = "INTEGER" /\ r.key # <<>> /\ r.key[1] = c.name
    /\ c.auto /\ e = "postgres" => c.default = "nextval"

IsKey(r) ==
    /\ IsList(r.key) /\ RangeOf(r.key) \subseteq Columns(r)
    /\ \A i, j \in DOMAIN r.key : r.key[i] = r.key[j] => i = j

IsIndex(ix) ==
    /\ IsName(ix.name) /\ ix.unique \in BOOLEAN
    /\ IsList(ix.cols) /\ ix.cols # <<>> /\ None \notin RangeOf(ix.cols)

IsReference(e, fk) ==
    /\ IsList(fk.cols) /\ IsList(fk.refCols) /\ Len(fk.refCols) = Len(fk.cols)
    /\ fk.refTable # None /\ fk.onDelete \in FkActions /\ fk.onUpdate \in FkActions
    /\ e = "sqlite" => None \notin RangeOf(fk.refCols) \/ RangeOf(fk.refCols) = {None}
    /\ e # "sqlite" => IsName(fk.name) /\ None \notin RangeOf(fk.refCols)

IsForeignKey(e, fk) ==
    IsReference(e, fk) /\ fk.cols # <<>> /\ None \notin RangeOf(fk.cols)

IsRelation(e, r) ==
    /\ DOMAIN r = {"kind", "cols", "key", "indexes", "fks", "rows", "counted"}
    /\ r.kind \in {"table", "view"} /\ r.rows \in Int /\ r.counted \in Int
    /\ IsList(r.cols) /\ Unlike(r.cols, "name") /\ \A c \in RangeOf(r.cols) : IsColumn(e, r, c)
    /\ IsKey(r)
    /\ IsFiniteSet(r.indexes) /\ \A ix \in r.indexes : IsIndex(ix)
    /\ \A ix, iy \in r.indexes : ix.name = iy.name => ix = iy
    /\ IsList(r.fks) /\ \A fk \in RangeOf(r.fks) : IsForeignKey(e, fk)
    /\ e # "sqlite" => Unlike(r.fks, "name")
    /\ r.kind = "view" => r.cols = <<>> /\ r.indexes = {} /\ r.fks = <<>>

IsDatabase(e, base) ==
    /\ IsFiniteSet(DOMAIN base)
    /\ \A t \in DOMAIN base : IsName(t) /\ IsRelation(e, base[t])
    /\ e = "sqlite" =>
           \A t, u \in DOMAIN base : \A ix \in base[t].indexes : \A iy \in base[u].indexes :
               ix.name = iy.name => t = u

(* What a statement says that keeps it so: columns of types the database   *)
(* knows, names it has not made the same.                                  *)
IsNewColumn(e, c) ==
    /\ c.name # None /\ ReportedType(e, c.type) \notin {None, ""}
    /\ {c.pk, c.notNull, c.auto} \subseteq BOOLEAN
    /\ c.auto => e # "postgres" /\ (e = "sqlite" => c.pk)

IsNewKey(k) == IsList(k.cols) /\ \A i, j \in DOMAIN k.cols : k.cols[i] = k.cols[j] => i = j

IsCreateTable(e, s) ==
    /\ IsName(s.name)
    /\ IsList(s.cols) /\ Unlike(s.cols, "name") /\ \A c \in RangeOf(s.cols) : IsNewColumn(e, c)
    /\ IsList(s.keys) /\ \A k \in RangeOf(s.keys) : IsNewKey(k)
    /\ IsList(s.fks) /\ \A fk \in RangeOf(s.fks) : DOMAIN fk = DOMAIN NewForeignKey(None, None)
    /\ \A fk \in RangeOf(StoredForeignKeys(e, s)) : IsReference(e, fk)
    /\ e # "sqlite" => Unlike(StoredForeignKeys(e, s), "name")
    /\ \A ix \in IndexesOf(e, s) : IsName(ix.name)
    /\ \A ix, iy \in IndexesOf(e, s) : ix.name = iy.name => ix = iy

IsStatement(e, s) ==
    /\ s.op \in {"create_table", "drop_table", "create_index", "drop_index"}
    /\ s.op = "create_table" => IsCreateTable(e, s)
    /\ s.op = "create_index" => IsName(s.name) /\ s.unique \in BOOLEAN /\ IsList(s.cols)

-------------------------------------------------------------------------------
(*                              Answers                                    *)

AnyOrder(rows) ==
    {[i \in 1 .. Cardinality(rows) |-> p[i]] :
        p \in {f \in [1 .. Cardinality(rows) -> rows] : RangeOf(f) = rows}}

Rows(seq, Row(_)) == [i \in DOMAIN seq |-> Row(i)]

Relations(db) == Sorted({[name |-> t, kind |-> db[t].kind] : t \in DOMAIN db})
IsTable(db, t) == t \in DOMAIN db /\ db[t].kind = "table"
InKey(r, col) == col \in RangeOf(r.key)

(* One row for each column of each entry of a list.                        *)
Spread(seq, Row(_, _)) ==
    LET at == Places([i \in DOMAIN seq |-> seq[i].cols])
    IN  [k \in DOMAIN at |-> Row(at[k][1], at[k][2])]

-------------------------------------------------------------------------------
(*                                SQLite                                   *)

SqliteTableInfo(r) ==
    Rows(r.cols, LAMBDA i :
        [cid |-> Num(i - 1), name |-> Text(r.cols[i].name), type |-> Text(r.cols[i].type),
         notnull |-> Flag(r.cols[i].notNull), dflt_value |-> TextOrNull(r.cols[i].default),
         pk |-> Num(IF InKey(r, r.cols[i].name) THEN Place(r.key, r.cols[i].name) ELSE 0)])

(* The text of the CREATE TABLE as the set of its words: the keywords that *)
(* matter, and every name, type and default that was written in it.        *)
SqliteWords(t, r) ==
    {t} \cup UNION {{c.name, c.type, c.default} : c \in RangeOf(r.cols)}
        \cup UNION {{fk.name, fk.refTable} \cup RangeOf(fk.refCols) : fk \in RangeOf(r.fks)}

SqliteSql(t, r) ==
    <<[sql |-> Text(SqliteWords(t, r)
                    \cup (IF \E c \in RangeOf(r.cols) : c.auto
                          THEN {"AUTOINCREMENT"} ELSE {}))]>>

SqliteIndexInfo(db, name) ==
    LET found == {ix \in UNION {db[t].indexes : t \in DOMAIN db} : ix.name = name}
        ix == CHOOSE x \in found : TRUE
    IN  IF found = {} THEN <<>>
        ELSE Rows(ix.cols, LAMBDA i : [name |-> Text(ix.cols[i])])

(* The ids count the keys from the last to the first.                      *)
SqliteForeignKeyRows(r) ==
    UNION {{[id |-> Num(Len(r.fks) - i), seq |-> Num(j - 1),
             table |-> Text(r.fks[i].refTable), from |-> Text(r.fks[i].cols[j]),
             to |-> TextOrNull(r.fks[i].refCols[j]),
             on_delete |-> Text(r.fks[i].onDelete), on_update |-> Text(r.fks[i].onUpdate)] :
                j \in DOMAIN r.fks[i].cols} : i \in DOMAIN r.fks}

SqliteOfTable(t, r, what) ==
    CASE what = "sql"        -> {SqliteSql(t, r)}
      [] what = "table_info" -> {SqliteTableInfo(r)}
      [] what = "index_list" ->
            AnyOrder({[name |-> Text(ix.name), unique |-> Flag(ix.unique)] : ix \in r.indexes})
      [] what = "foreign_key_list" -> AnyOrder(SqliteForeignKeyRows(r))

SqliteAnswers(db, q) ==
    CASE q.what = "database_list" -> {<<[name |-> Text("main")]>>}
      [] q.what = "relations" ->
            {Rows(Relations(db), LAMBDA i :
                [name |-> Text(Relations(db)[i].name), type |-> Text(Relations(db)[i].kind)])}
      [] q.what = "index_info" -> {SqliteIndexInfo(db, q.name)}
      [] OTHER -> IF IsTable(db, q.name) THEN SqliteOfTable(q.name, db[q.name], q.what) ELSE {<<>>}

-------------------------------------------------------------------------------
(*                              PostgreSQL                                 *)

ActionCode(action) ==
    CASE action = "restrict" -> "r" [] action = "cascade"     -> "c"
      [] action = "set_null" -> "n" [] action = "set_default" -> "d"
      [] OTHER -> "a"

PostgresColumns(r) ==
    Rows(r.cols, LAMBDA i :
        [column_name |-> Text(r.cols[i].name), ordinal_position |-> Num(i),
         data_type |-> Text(r.cols[i].type), type_name |-> Text(r.cols[i].type),
         is_nullable |-> Text(IF r.cols[i].notNull THEN "NO" ELSE "YES"),
         column_default |-> TextOrNull(r.cols[i].default), is_identity |-> Text("NO")])

PostgresIndexes(r) ==
    LET sorted == Sorted(r.indexes)
    IN  Spread(sorted, LAMBDA i, j :
            [index_name |-> Text(sorted[i].name), index_oid |-> Num(Rank(sorted[i].name)),
             is_unique |-> Bool(sorted[i].unique), column_name |-> Text(sorted[i].cols[j])])

PostgresConstraints(r) ==
    LET sorted == Sorted(RangeOf(r.fks))
    IN  Spread(sorted, LAMBDA i, j :
            [constraint_oid |-> Num(Rank(sorted[i].name)),
             constraint_name |-> Text(sorted[i].name),
             column_name |-> Text(sorted[i].cols[j]),
             ref_column_name |-> Text(sorted[i].refCols[j]),
             ref_table |-> Text(sorted[i].refTable),
             on_delete_code |-> Text(ActionCode(sorted[i].onDelete)),
             on_update_code |-> Text(ActionCode(sorted[i].onUpdate))])

PostgresOfRelation(r, what) ==
    CASE what = "key"         -> Rows(r.key, LAMBDA i : [column_name |-> Text(r.key[i])])
      [] what = "columns"     -> PostgresColumns(r)
      [] what = "indexes"     -> PostgresIndexes(r)
      [] what = "constraints" -> PostgresConstraints(r)
      [] what = "class"       -> <<[row_estimate |-> Num(r.counted)]>>

PostgresAnswers(db, q) ==
    CASE q.what = "namespaces" -> <<[schema_name |-> Text("public")]>>
      [] q.what = "relations" ->
            Rows(Relations(db), LAMBDA i :
                [relation_name |-> Text(Relations(db)[i].name),
                 relation_kind |-> Text(IF Relations(db)[i].kind = "view" THEN "v" ELSE "r")])
      [] OTHER -> IF q.name \in DOMAIN db THEN PostgresOfRelation(db[q.name], q.what) ELSE <<>>

-------------------------------------------------------------------------------
(*                                MySQL                                    *)

(* Without a primary key, the first UNIQUE NOT NULL column is shown as one. *)
MySqlKeyColumns(r) ==
    LET lone(i) == /\ r.cols[i].notNull
                   /\ \E ix \in r.indexes : ix.unique /\ ix.cols = <<r.cols[i].name>>
        first == {i \in DOMAIN r.cols : lone(i) /\ \A j \in 1 .. i - 1 : ~lone(j)}
    IN  IF r.key # <<>> THEN RangeOf(r.key) ELSE {r.cols[i].name : i \in first}

MySqlColumns(r) ==
    Rows(r.cols, LAMBDA i :
        [COLUMN_NAME |-> Text(r.cols[i].name), ORDINAL_POSITION |-> Num(i),
         DATA_TYPE |-> Clob(r.cols[i].type), COLUMN_TYPE |-> Clob(r.cols[i].type),
         IS_NULLABLE |-> Text(IF r.cols[i].notNull THEN "NO" ELSE "YES"),
         COLUMN_DEFAULT |-> ClobOrNull(r.cols[i].default),
         COLUMN_KEY |-> Text(IF r.cols[i].name \in MySqlKeyColumns(r) THEN "PRI" ELSE ""),
         EXTRA |-> Text(IF r.cols[i].auto THEN "auto_increment" ELSE "")])

MySqlStatistics(r) ==
    LET sorted == Sorted(r.indexes)
    IN  Spread(sorted, LAMBDA i, j :
            [INDEX_NAME |-> Text(sorted[i].name), NON_UNIQUE |-> Flag(~sorted[i].unique),
             COLUMN_NAME |-> Text(sorted[i].cols[j])])

MySqlUsage(r) ==
    LET sorted == Sorted(RangeOf(r.fks))
    IN  Spread(sorted, LAMBDA i, j :
            [CONSTRAINT_NAME |-> Text(sorted[i].name),
             COLUMN_NAME |-> Text(sorted[i].cols[j]),
             REFERENCED_TABLE_NAME |-> Text(sorted[i].refTable),
             REFERENCED_COLUMN_NAME |-> Text(sorted[i].refCols[j]),
             DELETE_RULE |-> Text(sorted[i].onDelete),
             UPDATE_RULE |-> Text(sorted[i].onUpdate)])

MySqlOfRelation(r, what) ==
    CASE what = "columns"    -> MySqlColumns(r)
      [] what = "statistics" -> MySqlStatistics(r)
      [] what = "usage"      -> MySqlUsage(r)
      [] what = "key"        -> Rows(r.key, LAMBDA i : [COLUMN_NAME |-> Text(r.key[i])])
      [] what = "rows"       ->
            <<[TABLE_ROWS |-> IF r.kind = "view" THEN Null ELSE Num(r.counted)]>>

MySqlAnswers(db, q) ==
    CASE q.what = "schemata" -> <<[SCHEMA_NAME |-> Text("app")]>>
      [] q.what = "tables" ->
            Rows(Relations(db), LAMBDA i :
                [TABLE_NAME |-> Text(Relations(db)[i].name),
                 TABLE_TYPE |-> Text(IF Relations(db)[i].kind = "view"
                                     THEN "VIEW" ELSE "BASE_TABLE")])
      [] OTHER -> IF q.name \in DOMAIN db THEN MySqlOfRelation(db[q.name], q.what) ELSE <<>>

-------------------------------------------------------------------------------
(* COUNT( * ) is the one query that fails on a relation that is not there. *)

CountFails(db, q) == q.what = "count" /\ q.name \notin DOMAIN db

Counted(d, db, q) ==
    LET n == Num(db[q.name].rows)
    IN  <<IF d = "sqlite" THEN [count |-> n] ELSE [row_count |-> n]>>

Answers(d, db, q) ==
    CASE q.what = "count"                      -> {Counted(d, db, q)}
      [] q.what # "count" /\ d = "sqlite"      -> SqliteAnswers(db, q)
      [] q.what # "count" /\ d = "postgres"    -> {PostgresAnswers(db, q)}
      [] q.what # "count" /\ d = "mysql"       -> {MySqlAnswers(db, q)}
===============================================================================
