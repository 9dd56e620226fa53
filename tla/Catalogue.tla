------------------------------- MODULE Catalogue -------------------------------
(***************************************************************************)
(* The databases, as far as src/ relies on them: which DDL statements of   *)
(* Ddl each accepts, and what it then records of the schema.  Everything   *)
(* here is external to the repository.                                     *)
(*                                                                         *)
(* A database is a function from the names of its relations to records;    *)
(* d is the dialect it speaks throughout.                                  *)
(***************************************************************************)
EXTENDS Ddl, Positions, Functions, TLC

Columns(s) == {s.cols[i].name : i \in DOMAIN s.cols}
RangeOf(seq) == {seq[i] : i \in DOMAIN seq}
Inline(s)  == Having(s.cols, {i \in DOMAIN s.cols : s.cols[i].pk})

(* The primary key a CREATE TABLE asks for: of its columns, or of its own. *)
KeyOf(s) ==
    IF s.keys # <<>> THEN s.keys[1].cols ELSE NamesOf(Inline(s), "name")

KeyName(s) == IF s.keys = <<>> THEN None ELSE s.keys[1].name

TypeOf(s, col) == s.cols[CHOOSE i \in DOMAIN s.cols : s.cols[i].name = col].type
Long == {<<"TEXT">>, <<"BLOB">>}

(* SQLite's alias of the rowid, which needs no index.                      *)
RowidKey(s) ==
    /\ Len(KeyOf(s)) = 1
    /\ TypeOf(s, KeyOf(s)[1]) = <<"INTEGER">>

(* Columns a foreign key may point to.                                     *)
IsKeyOf(cols, key, indexes) ==
    \/ RangeOf(cols) = RangeOf(key)
    \/ \E ix \in indexes : ix.unique /\ RangeOf(ix.cols) = RangeOf(cols)

UniqueOf(s) ==
    {[name |-> s.name \o "_" \o s.cols[i].name \o "_key", cols |-> <<s.cols[i].name>>,
      unique |-> TRUE, own |-> TRUE] : i \in {j \in DOMAIN s.cols : s.cols[j].unique}}

KeyIndexOf(d, s) ==
    IF KeyOf(s) = <<>> \/ (d = "sqlite" /\ RowidKey(s)) THEN {}
    ELSE {[name |-> IF d = "mysql" THEN "PRIMARY"
                    ELSE IF d = "postgres" /\ KeyName(s) # None THEN KeyName(s)
                    ELSE s.name \o "_pkey",
           cols |-> KeyOf(s), unique |-> TRUE, own |-> TRUE]}

(* A server names the keys that were not named.                            *)
StoredForeignKeys(d, s) ==
    [i \in DOMAIN s.fks |->
        IF d = "sqlite" \/ s.fks[i].name # None THEN s.fks[i]
        ELSE [s.fks[i] EXCEPT !.name = s.name \o "_fkey"]]

(* InnoDB indexes the columns of a foreign key unless an index begins so.  *)
ForeignIndexOf(d, s, others) ==
    IF d # "mysql" THEN {}
    ELSE {[name |-> fk.name, cols |-> fk.cols, unique |-> FALSE, own |-> TRUE] :
              fk \in {f \in RangeOf(StoredForeignKeys(d, s)) : \A ix \in others : ix.cols # f.cols}}

IndexesOf(d, s) ==
    LET keys == KeyIndexOf(d, s) \cup UniqueOf(s)
    IN  keys \cup ForeignIndexOf(d, s, keys)

-------------------------------------------------------------------------------
(*                            CREATE TABLE                                 *)

BadKey(s) ==
    \/ Len(Inline(s)) + Len(s.keys) > 1
    \/ ~(RangeOf(KeyOf(s)) \subseteq Columns(s))

BadForeignKey(d, db, s, fk) ==
    \/ fk.cols = <<>> \/ ~(RangeOf(fk.cols) \subseteq Columns(s))
    \/ /\ d # "sqlite" /\ fk.refTable = s.name
       /\ ~IsKeyOf(fk.refCols, KeyOf(s), UniqueOf(s))
    \/ /\ d # "sqlite" /\ fk.refTable # s.name
       /\ \/ fk.refTable \notin DOMAIN db
          \/ ~IsKeyOf(fk.refCols, db[fk.refTable].key, db[fk.refTable].indexes)

BadColumn(d, s, c) ==
    \/ d = "sqlite" /\ c.auto /\ c.type # <<"INTEGER">>
    \/ d = "mysql" /\ c.auto /\ ~c.unique /\ c.name \notin RangeOf(KeyOf(s))
    \/ d = "mysql" /\ c.type \in Long
       /\ (c.unique \/ c.default # None \/ c.name \in RangeOf(KeyOf(s)))

(* Two indexes of one name.                                                *)
TakenName(d, db, s) ==
    /\ d # "mysql"
    /\ \E t \in DOMAIN db : \E ix \in db[t].indexes : \E own \in IndexesOf(d, s) :
           ix.name = own.name

BadTable(d, db, s) ==
    \/ s.cols = <<>> /\ d # "postgres"
    \/ BadKey(s) \/ TakenName(d, db, s)
    \/ \E fk \in RangeOf(s.fks) : BadForeignKey(d, db, s, fk)
    \/ \E c \in RangeOf(s.cols) : BadColumn(d, s, c)
    \/ d = "mysql" /\ Cardinality({i \in DOMAIN s.cols : s.cols[i].auto}) > 1

IsSerial(type) == type \in {<<"SERIAL">>, <<"BIGSERIAL">>}

(* The name a catalogue reports a type under; lengths are left out.        *)
PostgresReports(word) ==
    CASE word \in {"INTEGER", "SERIAL"}   -> "integer"
      [] word \in {"BIGINT", "BIGSERIAL"} -> "bigint"
      [] word = "VARCHAR"          -> "character varying"
      [] word = "TEXT"             -> "text"
      [] word = "BOOLEAN"          -> "boolean"
      [] word = "REAL"             -> "real"
      [] word = "DOUBLE PRECISION" -> "double precision"
      [] word = "TIMESTAMP"        -> "timestamp without time zone"
      [] word = "TIMESTAMPTZ"      -> "timestamp with time zone"
      [] word = "BYTEA"            -> "bytea"

MySqlReports ==
    [INT |-> "int", BIGINT |-> "bigint", VARCHAR |-> "varchar", TEXT |-> "text",
     TINYINT |-> "tinyint", FLOAT |-> "float", DOUBLE |-> "double",
     DATETIME |-> "datetime", BLOB |-> "blob"]

ReportedType(d, type) ==
    CASE d = "sqlite"   -> Head(type)
      [] d = "postgres" -> PostgresReports(Head(type))
      [] d = "mysql"    -> MySqlReports[Head(type)]

StoredColumn(d, s, c) ==
    LET serial == IsSerial(c.type)
    IN  [name |-> c.name, type |-> ReportedType(d, c.type),
         notNull |-> c.notNull \/ serial
                     \/ (d # "sqlite" /\ c.name \in RangeOf(KeyOf(s))),
         auto |-> c.auto, default |-> IF serial THEN "nextval" ELSE c.default]

(* reltuples and TABLE_ROWS of a table nobody has counted yet.             *)
Uncounted == [sqlite |-> 0, postgres |-> -1, mysql |-> 0]

NewRelation(d, s) ==
    [kind |-> "table", cols |-> [i \in DOMAIN s.cols |-> StoredColumn(d, s, s.cols[i])],
     key |-> KeyOf(s), indexes |-> IndexesOf(d, s), fks |-> StoredForeignKeys(d, s),
     rows |-> 0, counted |-> Uncounted[d]]

View(d) ==
    [kind |-> "view", cols |-> <<>>, key |-> <<>>, indexes |-> {}, fks |-> <<>>,
     rows |-> 0, counted |-> -1]

-------------------------------------------------------------------------------
(*                         DROP TABLE, indexes                             *)

Points(db, u, t) == {fk \in RangeOf(db[u].fks) : fk.refTable = t}

Children(db, t) == {u \in DOMAIN db \ {t} : Points(db, u, t) # {}}

(* SQLite deletes the rows of the table first, and the rows that point to  *)
(* them or a refusal follow from that.                                     *)
Orphans(db, t) ==
    {u \in Children(db, t) : db[t].rows > 0 /\ db[u].rows > 0}

BadDrop(d, db, s) ==
    \/ db[s.name].kind = "view"
    \/ d # "sqlite" /\ ~s.cascade /\ Children(db, s.name) # {}
    \/ /\ d = "sqlite"
       /\ \E u \in Orphans(db, s.name) : \E fk \in Points(db, u, s.name) :
              fk.onDelete \notin {"cascade", "set_null"}

Emptied(db, t) ==
    [u \in DOMAIN db |->
        IF u \in Orphans(db, t) /\ \E fk \in Points(db, u, t) : fk.onDelete = "cascade"
        THEN [db[u] EXCEPT !.rows = 0] ELSE db[u]]

Dropped(d, db, s) ==
    Restrict(IF d = "sqlite" THEN Emptied(db, s.name) ELSE db, DOMAIN db \ {s.name})

(* The scope of an index name is its table on MySQL, the schema elsewhere. *)
Holders(d, db, s) ==
    {t \in DOMAIN db : /\ d = "mysql" => t = s.table
                       /\ \E ix \in db[t].indexes : ix.name = s.name}

BadIndex(d, db, s) ==
    \/ s.table \notin DOMAIN db
    \/ s.cols = <<>>
    \/ ~(RangeOf(s.cols) \subseteq Columns(db[s.table]))
    \/ d = "mysql" /\ \E c \in RangeOf(db[s.table].cols) :
           c.name \in RangeOf(s.cols) /\ c.type \in {"text", "blob"}

Indexed(db, s) ==
    [db EXCEPT ![s.table].indexes =
        @ \cup {[name |-> s.name, cols |-> s.cols, unique |-> s.unique, own |-> FALSE]}]

Owned(d, db, s) ==
    \E t \in Holders(d, db, s) : \E ix \in db[t].indexes : ix.name = s.name /\ ix.own

Unindexed(d, db, s) ==
    [t \in DOMAIN db |->
        IF t \in Holders(d, db, s)
        THEN [db[t] EXCEPT !.indexes = {ix \in @ : ix.name # s.name}] ELSE db[t]]

-------------------------------------------------------------------------------
(* What executing a statement answers and leaves behind.  A guarded        *)
(* statement with nothing to do succeeds.                                  *)

Found(d, db, s) ==
    IF s.op \in {"create_table", "drop_table"} THEN s.name \in DOMAIN db
    ELSE Holders(d, db, s) # {}

Creates(s) == s.op \in {"create_table", "create_index"}

Nothing(d, db, s) == s.guarded /\ (Found(d, db, s) <=> Creates(s))

Bad(d, db, s) ==
    \/ Found(d, db, s) <=> Creates(s)
    \/ s.op = "create_table" /\ BadTable(d, db, s)
    \/ s.op = "drop_table" /\ BadDrop(d, db, s)
    \/ s.op = "create_index" /\ BadIndex(d, db, s)
    \/ s.op = "drop_index" /\ Owned(d, db, s)

Accepted(d, db, s) == Nothing(d, db, s) \/ ~Bad(d, db, s)
Refused(d, db, s)  == ~Accepted(d, db, s)

Executed(d, db, s) ==
    CASE Nothing(d, db, s) \/ Refused(d, db, s) -> db
      [] OTHER ->
          CASE s.op = "create_table" ->
                   [t \in DOMAIN db \cup {s.name} |->
                       IF t = s.name THEN NewRelation(d, s) ELSE db[t]]
            [] s.op = "drop_table"   -> Dropped(d, db, s)
            [] s.op = "create_index" -> Indexed(db, s)
            [] s.op = "drop_index"   -> Unindexed(d, db, s)
===============================================================================
