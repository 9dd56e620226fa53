-------------------------------- MODULE Schema --------------------------------
(***************************************************************************)
(* What a program declares (src/schema/): columns, keys, indexes, tables   *)
(* and the metadata that lists them, as records, and the calls that build  *)
(* them as operators.  Names are strings; None stands for a missing one.   *)
(* A schema name is kept by the table and used by no statement.            *)
(***************************************************************************)
EXTENDS Naturals, Sequences, SqlTypes

None == "none"

FkActions == {"no_action", "restrict", "cascade", "set_null", "set_default"}

-------------------------------------------------------------------------------
(*                               Columns                                   *)

NewColumn(name, type) ==
    [name |-> name, type |-> type, pk |-> FALSE, nullable |-> TRUE,
     unique |-> FALSE, auto |-> FALSE, default |-> None]

(* A primary key column becomes NOT NULL; it may be made nullable again.   *)
SetPrimaryKeyFlag(c, pk) ==
    [c EXCEPT !.pk = pk, !.nullable = @ /\ ~(pk /\ ~c.pk)]

SetNullable(c, nullable)  == [c EXCEPT !.nullable = nullable]
SetUnique(c, unique)      == [c EXCEPT !.unique = unique]
SetAutoincrement(c, auto) == [c EXCEPT !.auto = auto]
SetDefault(c, default)    == [c EXCEPT !.default = default]

(* g_object_set(): a primary key set so leaves nullable as it was.         *)
SetColumnProperty(c, property, value) ==
    CASE property = "name"          -> [c EXCEPT !.name = value]
      [] property = "sql-type"      -> [c EXCEPT !.type = value]
      [] property = "primary-key"   -> [c EXCEPT !.pk = value]
      [] property = "nullable"      -> [c EXCEPT !.nullable = value]
      [] property = "unique"        -> [c EXCEPT !.unique = value]
      [] property = "autoincrement" -> [c EXCEPT !.auto = value]
      [] property = "default"       -> [c EXCEPT !.default = value]

-------------------------------------------------------------------------------
(*                           Keys and indexes                              *)

NoKey == [name |-> None, cols |-> <<>>]

NewPrimaryKey(name, cols)  == [name |-> name, cols |-> cols]
AddKeyColumn(pk, col)      == [pk EXCEPT !.cols = Append(@, col)]
SetKeyName(pk, name)       == [pk EXCEPT !.name = name]
HasKeyColumn(pk, col)      == \E i \in DOMAIN pk.cols : pk.cols[i] = col

NewForeignKey(name, refTable) ==
    [name |-> name, refTable |-> refTable, cols |-> <<>>, refCols |-> <<>>,
     onDelete |-> "no_action", onUpdate |-> "no_action"]

AddForeignKeyColumn(fk, col, refCol) ==
    [fk EXCEPT !.cols = Append(@, col), !.refCols = Append(@, refCol)]

SetForeignKeyName(fk, name) == [fk EXCEPT !.name = name]

SetForeignKeyProperty(fk, property, value) ==
    CASE property = "name"      -> [fk EXCEPT !.name = value]
      [] property = "ref-table" -> [fk EXCEPT !.refTable = value]
      [] property = "on-delete" -> [fk EXCEPT !.onDelete = value]
      [] property = "on-update" -> [fk EXCEPT !.onUpdate = value]

SetOnDelete(fk, action) == [fk EXCEPT !.onDelete = action]
SetOnUpdate(fk, action) == [fk EXCEPT !.onUpdate = action]

NewIndex(name, cols)     == [name |-> name, cols |-> cols, unique |-> FALSE]
AddIndexColumn(ix, col)  == [ix EXCEPT !.cols = Append(@, col)]
SetIndexUnique(ix, uniq) == [ix EXCEPT !.unique = uniq]

-------------------------------------------------------------------------------
(*                           Tables and metadata                           *)

NewTable(name) ==
    [name |-> name, cols |-> <<>>, pk |-> NoKey, fks |-> <<>>, indexes |-> <<>>]

Named(seq, name) == \E i \in DOMAIN seq : seq[i].name = name

(* A name that is taken is a warning, and the newcomer is dropped.         *)
AddColumn(t, c) ==
    IF Named(t.cols, c.name) THEN t ELSE [t EXCEPT !.cols = Append(@, c)]

(* The key is set before nullable, which so has the last word.             *)
AddColumnFull(t, name, type, pk, nullable, unique, auto, default) ==
    LET keyed == SetPrimaryKeyFlag(NewColumn(name, type), pk)
        flags == SetAutoincrement(SetUnique(SetNullable(keyed, nullable), unique), auto)
    IN  AddColumn(t, IF default = None THEN flags ELSE SetDefault(flags, default))

SetPrimaryKey(t, pk) == [t EXCEPT !.pk = pk]
AddForeignKey(t, fk) == [t EXCEPT !.fks = Append(@, fk)]
AddIndex(t, ix)      == [t EXCEPT !.indexes = Append(@, ix)]

NoMetadata == <<>>

AddTable(metadata, t) ==
    IF Named(metadata, t.name) THEN metadata ELSE Append(metadata, t)

GetTable(metadata, name) ==
    metadata[CHOOSE i \in DOMAIN metadata : metadata[i].name = name]

HasTableNamed(metadata, name) == Named(metadata, name)
TableCount(metadata)          == Len(metadata)
Clear(metadata)               == NoMetadata

RemoveTable(metadata, name) == SelectSeq(metadata, LAMBDA t : t.name # name)
===============================================================================
