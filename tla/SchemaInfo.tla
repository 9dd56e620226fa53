------------------------------ MODULE SchemaInfo ------------------------------
(***************************************************************************)
(* What the three inspectors of src/inspect/ share: the cells of the rows  *)
(* they read, as the driver of the dialect delivers them, and the records  *)
(* they return.                                                            *)
(***************************************************************************)
EXTENDS Catalogue

CONSTANT Alphabet        \* every name, in the order ORDER BY puts them

ASSUME AlphabetAssumption ==
    /\ IsList(Alphabet) /\ None \notin RangeOf(Alphabet)
    /\ \A i, j \in DOMAIN Alphabet : Alphabet[i] = Alphabet[j] => i = j

-------------------------------------------------------------------------------
(*                       Cells, rows and queries                           *)

Text(x) == [type |-> "string", v |-> x]
Num(n)  == [type |-> "integer", v |-> n]
Bool(b) == [type |-> "boolean", v |-> b]
Clob(x) == [type |-> "blob", v |-> x]
Null    == [type |-> "null", v |-> None]

TextOrNull(x) == IF x = None THEN Null ELSE Text(x)
ClobOrNull(x) == IF x = None THEN Null ELSE Clob(x)
Flag(b)       == Num(IF b THEN 1 ELSE 0)

Query(what, name) == [what |-> what, name |-> name]

Rank(name)    == CHOOSE i \in DOMAIN Alphabet : Alphabet[i] = name
Sorted(named) == InOrder(named, {p \in named \X named : Rank(p[1].name) < Rank(p[2].name)})
Place(seq, x) == CHOOSE i \in DOMAIN seq : seq[i] = x

-------------------------------------------------------------------------------
(*               What an inspector returns, orm-schema-info.c              *)

TableInfo(name, kind) == [name |-> name, kind |-> kind]

ColumnInfo(name, type, valueType, nullable, default, pk, auto, ordinal) ==
    [name |-> name, type |-> type, valueType |-> valueType, nullable |-> nullable,
     default |-> default, pk |-> pk, auto |-> auto, ordinal |-> ordinal]

IndexInfo(name, unique, cols) == [name |-> name, unique |-> unique, cols |-> cols]

ForeignKeyInfo(name, cols, refTable, refCols, onDelete, onUpdate) ==
    [name |-> name, cols |-> cols, refTable |-> refTable, refCols |-> refCols,
     onDelete |-> onDelete, onUpdate |-> onUpdate]

Count(n, estimate) == [count |-> n, estimate |-> estimate]

Returned(x) == [ok |-> TRUE, value |-> x]
Failed      == [ok |-> FALSE, value |-> None]

Cells(rows, Read(_, _), col) == [i \in DOMAIN rows |-> Read(rows[i], col)]
===============================================================================
