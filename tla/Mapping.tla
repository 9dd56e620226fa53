-------------------------------- MODULE Mapping --------------------------------
(***************************************************************************)
(* OrmProperty, OrmMapper and OrmSerializable (src/orm/): how the          *)
(* properties of a class become the columns of a table, and how an object  *)
(* is taken apart into values and put together again.  Names are sequences *)
(* of character codes, because '-' and capital letters matter here.        *)
(***************************************************************************)
EXTENDS Value, Schema

LOCAL INSTANCE SequencesExt

(* A class is its name and its properties, as GObject lists them; the ones *)
(* that are not readable and writable are left out of the mapper.          *)
Pspec(name, gtype) == [name |-> name, gtype |-> gtype, rw |-> TRUE]

Id == <<105, 100>>
Dash == 45
Underscore == 95

-------------------------------------------------------------------------------
(*                              Properties                                 *)

NewProperty(name, column, type, flags) ==
    [name |-> name, column |-> IF column = <<>> THEN name ELSE column, type |-> type,
     flags |-> flags, default |-> NoValue]

(* Every integer is an INTEGER, and every float a single precision one.    *)
InferSqlType(gtype) ==
    Type(CASE gtype \in SignedGTypes \cup UnsignedGTypes -> "integer"
           [] gtype = "boolean"            -> "boolean"
           [] gtype \in {"float", "double"} -> "float"
           [] gtype = "datetime"           -> "datetime"
           [] gtype = "bytes"              -> "blob"
           [] OTHER                        -> "text")

PropertyNameToColumnName(name) ==
    [i \in DOMAIN name |-> IF name[i] = Dash THEN Underscore ELSE name[i]]

NewFromPspec(pspec, flags) ==
    NewProperty(pspec.name, PropertyNameToColumnName(pspec.name), InferSqlType(pspec.gtype), flags)

GetColumnName(prop) == prop.column
HasFlag(prop, flag) == flag \in prop.flags

(* A column of a mapped class is NOT NULL unless its property says else.   *)
ToColumn(prop) ==
    LET nullable == SetNullable(NewColumn(prop.column, prop.type), HasFlag(prop, "nullable"))
        keyed == SetUnique(SetPrimaryKeyFlag(nullable, HasFlag(prop, "primary key")),
                           HasFlag(prop, "unique"))
        auto  == SetAutoincrement(keyed, HasFlag(prop, "auto increment"))
    IN  IF prop.default = NoValue THEN auto ELSE SetDefault(auto, ValueText(prop.default))

-------------------------------------------------------------------------------
(*                             Table names                                 *)

Capital(c) == c \in 65 .. 90
Small(c)   == c \in 97 .. 122
Lower(c)   == c + 32

(* OrmMapper writes '_' between a small letter and a capital.              *)
TypeNameToTableName(name) ==
    FlattenSeq([i \in DOMAIN name |->
        IF ~Capital(name[i]) THEN <<name[i]>>
        ELSE IF i > 1 /\ Small(name[i - 1]) THEN <<Underscore, Lower(name[i])>>
        ELSE <<Lower(name[i])>>])

(* OrmSerializable writes it before every capital but the first letter.    *)
RealGetTableName(name) ==
    FlattenSeq([i \in DOMAIN name |->
        IF ~Capital(name[i]) THEN <<name[i]>>
        ELSE IF i > 1 THEN <<Underscore, Lower(name[i])>> ELSE <<Lower(name[i])>>])
RealGetPrimaryKey == Id

-------------------------------------------------------------------------------
(*                               Mappers                                   *)

NoMapper == [table |-> <<>>, list |-> <<>>, pk |-> <<>>]

NewMapper(class, table) ==
    [NoMapper EXCEPT !.table = IF table = <<>> THEN TypeNameToTableName(class.name) ELSE table]

(* The last primary key that is added is the one.                          *)
AddProperty(m, prop) ==
    [m EXCEPT !.list = Append(@, prop),
              !.pk = IF HasFlag(prop, "primary key") THEN <<prop>> ELSE @]

NewFromSerializable(class) ==
    LET flags(name) == IF name = RealGetPrimaryKey THEN {"primary key", "auto increment"} ELSE {}
        Add(m, pspec) == IF pspec.rw THEN AddProperty(m, NewFromPspec(pspec, flags(pspec.name))) ELSE m
    IN  FoldLeft(Add, NewMapper(class, RealGetTableName(class.name)), class.pspecs)

(* A name added twice stands for the newer property.                       *)
FindLast(m, Is(_)) ==
    LET found == SelectSeq(m.list, Is) IN IF found = <<>> THEN <<>> ELSE <<Last(found)>>
GetProperty(m, name)         == FindLast(m, LAMBDA p : p.name = name)
GetPropertyByColumn(m, name) == FindLast(m, LAMBDA p : p.column = name)
GetPrimaryKeyProperty(m)     == m.pk
GetTableName(m)              == m.table

ToTable(m) == FoldLeft(LAMBDA t, p : AddColumn(t, ToColumn(p)), NewTable(m.table), m.list)
GetColumnNames(m) == [i \in DOMAIN m.list |-> m.list[i].column]
GetInsertColumns(m) ==
    LET given == SelectSeq(m.list, LAMBDA p : ~HasFlag(p, "auto increment"))
    IN  [i \in DOMAIN given |-> given[i].column]

-------------------------------------------------------------------------------
(*                               Objects                                   *)

(* An object is its class and what its properties hold, by name.           *)
FindProperty(class, name) ==
    LET found == SelectSeq(class.pspecs, LAMBDA p : p.name = name)
    IN  IF found = <<>> THEN <<>> ELSE <<found[1]>>

(* What g_value_init() and g_object_new() leave in a property.             *)
Zero(gtype) == IF gtype \in {"string", "bytes", "datetime", "other"} THEN NoData ELSE <<0>>
NewObject(class) ==
    [name \in {class.pspecs[i].name : i \in DOMAIN class.pspecs} |->
        Zero(FindProperty(class, name)[1].gtype)]

SerializeProperty(g) == IF g = Unset THEN NullValue ELSE FromGValue(g)
GetPropertyValue(class, object, name) ==
    LET pspec == FindProperty(class, name)
    IN  IF pspec = <<>> THEN NoValue ELSE SerializeProperty(GValue(pspec[1].gtype, object[name]))

(* A NULL is a success that leaves the empty GValue as it is.              *)
DeserializeProperty(gtype, value) ==
    IF value = NoValue THEN GValue(gtype, Zero(gtype))
    ELSE IF IsNull(value) THEN GValue(gtype, Zero(gtype))
    ELSE ToGValueWithType(value, gtype)

(* g_object_set_property() converts one number to another; a GValue of     *)
(* another type is a warning, and the property stays as it was.            *)
ObjectSetProperty(object, pspec, g) ==
    IF g.gtype = pspec.gtype \/ {g.gtype, pspec.gtype} \subseteq {"int64", "double", "float"}
    THEN [object EXCEPT ![pspec.name] = g.v] ELSE object

SetPropertyValue(class, object, name, value) ==
    LET pspec == FindProperty(class, name)
    IN  IF pspec = <<>> THEN object
        ELSE ObjectSetProperty(object, pspec[1], DeserializeProperty(pspec[1].gtype, value))
===============================================================================
