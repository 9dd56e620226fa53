---------------------------------- MODULE Value ---------------------------------
(***************************************************************************)
(* OrmValue (src/core/orm-value.c): a tagged value, and its conversions to *)
(* and from the GValue of a property.  What a value holds is a sequence of *)
(* numbers, so that any two values can be compared: <<n>> for a number, a  *)
(* truth or a moment, the characters of a string, the bytes of a blob.     *)
(***************************************************************************)
EXTENDS Integers, Sequences

CONSTANTS
    IntBits,        \* the width of a gint
    Int64Bits,      \* the width of a gint64, of a glong and of the values
    ShortDigits,    \* the decimal digits "%g" writes
    SingleDigits    \* the decimal digits a gfloat keeps

ASSUME ValueAssumption ==
    /\ IntBits \in Nat \ {0} /\ Int64Bits \in Nat /\ IntBits < Int64Bits
    /\ ShortDigits \in Nat \ {0} /\ SingleDigits \in Nat /\ ShortDigits <= SingleDigits

ValueTypes == <<"null", "integer", "float", "string", "blob", "boolean", "datetime">>

Alloc(type, v) == [type |-> type, v |-> v]

NullValue       == Alloc("null", <<>>)
NewInteger(n)   == Alloc("integer", <<n>>)
NewFloat(x)     == Alloc("float", <<x>>)
NewBoolean(b)   == Alloc("boolean", <<IF b THEN 1 ELSE 0>>)
(* A NULL pointer given to these three makes a NULL value: NoData is one.  *)
NoData          == <<-1>>
NewString(s)    == IF s = NoData THEN NullValue ELSE Alloc("string", s)
NewBlob(s)      == IF s = NoData THEN NullValue ELSE Alloc("blob", s)
NewDateTime(t)  == IF t = NoData THEN NullValue ELSE Alloc("datetime", t)

Number(value) == value.v[1]

Copy(value) ==
    CASE value.type = "null"     -> NullValue
      [] value.type = "integer"  -> NewInteger(Number(value))
      [] value.type = "float"    -> NewFloat(Number(value))
      [] value.type = "boolean"  -> NewBoolean(Number(value) # 0)
      [] value.type = "string"   -> NewString(value.v)
      [] value.type = "blob"     -> NewBlob(value.v)
      [] value.type = "datetime" -> NewDateTime(value.v)

IsNull(value) == value.type = "null"

(* orm_value_get_integer() and the like return 0 or NULL on a value of     *)
(* another type, with a critical.                                          *)
GetInteger(value) == IF value.type = "integer" THEN Number(value) ELSE 0
GetFloat(value)   == IF value.type = "float" THEN Number(value) ELSE 0
GetString(value)  == IF value.type = "string" THEN value.v ELSE NoData
GetBlob(value)    == IF value.type = "blob" THEN value.v ELSE NoData
GetDateTime(value) == IF value.type = "datetime" THEN value.v ELSE NoData

(* "t", "true", "y", "yes" in any case, and "1".                           *)
TruthWords == {<<116>>, <<84>>, <<116, 114, 117, 101>>, <<84, 82, 85, 69>>, <<121>>, <<89>>,
               <<121, 101, 115>>, <<89, 69, 83>>, <<49>>}

GetBoolean(value) ==
    CASE value.type \in {"integer", "boolean"} -> Number(value) # 0
      [] value.type = "string"                 -> value.v \in TruthWords
      [] OTHER                                 -> FALSE

-------------------------------------------------------------------------------
(*                          Order, equality, hash                          *)

TypeNumber(value) == CHOOSE i \in DOMAIN ValueTypes : ValueTypes[i] = value.type

(* Bytes and characters compare like words of a dictionary.                *)
CompareText(s, t) ==
    LET common == {i \in DOMAIN s \cap DOMAIN t : s[i] # t[i]}
        first  == CHOOSE i \in common : \A j \in common : i <= j
    IN  IF common = {} THEN Len(s) - Len(t) ELSE s[first] - t[first]

Compare(a, b) ==
    IF a.type # b.type THEN TypeNumber(a) - TypeNumber(b) ELSE CompareText(a.v, b.v)

ValuesEqual(a, b) == Compare(a, b) = 0

-------------------------------------------------------------------------------
(*                                Numbers                                  *)

Wrap(n, bits)     == ((n + 2 ^ (bits - 1)) % (2 ^ bits)) - 2 ^ (bits - 1)
Unsigned(n, bits) == n % (2 ^ bits)

RECURSIVE Digits(_)
Digits(n) == IF n < 10 THEN 1 ELSE 1 + Digits(n \div 10)

(* The decimal with the given digits that is nearest to x.                 *)
Rounded(x, digits) ==
    LET magnitude == IF x < 0 THEN -x ELSE x
        extra == Digits(magnitude) - digits
        unit  == 10 ^ (IF extra > 0 THEN extra ELSE 0)
        near  == ((magnitude + unit \div 2) \div unit) * unit
    IN  IF x < 0 THEN -near ELSE near

-------------------------------------------------------------------------------
(*                               GValues                                   *)

SignedGTypes   == {"int", "long", "int64"}
UnsignedGTypes == {"uint", "ulong", "uint64"}
GTypes == SignedGTypes \cup UnsignedGTypes
            \cup {"float", "double", "string", "boolean", "bytes", "datetime", "other"}

GBits(gtype) == IF gtype \in {"int", "uint"} THEN IntBits ELSE Int64Bits

(* A GValue: its type and what it holds, NoData for a NULL pointer; Unset  *)
(* is the one without a type.                                              *)
GValue(gtype, v) == [gtype |-> gtype, v |-> v]
Unset == GValue("unset", NoData)

ToGValue(value) ==
    CASE value.type = "null"     -> Unset
      [] value.type = "integer"  -> GValue("int64", value.v)
      [] value.type = "float"    -> GValue("double", value.v)
      [] value.type = "string"   -> GValue("string", value.v)
      [] value.type = "blob"     -> GValue("bytes", value.v)
      [] value.type = "boolean"  -> GValue("boolean", value.v)
      [] value.type = "datetime" -> GValue("datetime", value.v)

(* A mutant: every number is a signed one.                                 *)
HeldSigned(n, gtype) == Wrap(n, GBits(gtype))

(* What is held by a number of the target type that is given n.            *)
Held(n, gtype) ==
    CASE gtype \in SignedGTypes   -> Wrap(n, GBits(gtype))
      [] gtype \in UnsignedGTypes -> Unsigned(n, GBits(gtype))

(* The text of a moment, as g_date_time_format_iso8601() writes it, and    *)
(* the text a server writes of a moment it keeps without a zone.           *)
IsoText(t)    == <<1000>> \o t
ServerText(t) == <<2000>> \o t

(* g_date_time_new_from_iso8601() without a default zone: the text must    *)
(* name one.                                                               *)
ReadsMoment(s) == Len(s) = 2 /\ s[1] = 1000
MomentOf(s)    == IF ReadsMoment(s) THEN <<s[2]>> ELSE NoData

(* A combination that is not listed leaves a GValue of the value's type.   *)
ToGValueWithType(value, gtype) ==
    CASE IsNull(value) -> Unset
      [] value.type = "integer" /\ gtype \in SignedGTypes \cup UnsignedGTypes
                                               -> GValue(gtype, <<Held(Number(value), gtype)>>)
      [] value.type = "float" /\ gtype = "float"
                                               -> GValue(gtype, <<Rounded(Number(value), SingleDigits)>>)
      [] value.type = "float" /\ gtype = "double"     -> GValue(gtype, value.v)
      [] value.type = "string" /\ gtype = "string"    -> GValue(gtype, value.v)
      [] value.type = "boolean" /\ gtype = "boolean"  -> GValue(gtype, value.v)
      [] value.type = "blob" /\ gtype = "bytes"       -> GValue(gtype, value.v)
      [] value.type = "datetime" /\ gtype = "datetime" -> GValue(gtype, value.v)
      [] value.type = "string" /\ gtype = "datetime"  -> GValue(gtype, MomentOf(value.v))
      [] value.type = "integer" /\ gtype = "boolean"  -> GValue(gtype, NewBoolean(Number(value) # 0).v)
      [] value.type = "float" /\ gtype \in {"int", "int64"}
                                               -> GValue(gtype, <<Held(Number(value), gtype)>>)
      [] OTHER -> ToGValue(value)

(* FromGValue answers NoValue where the code returns NULL.                 *)
NoValue == Alloc("none", <<>>)

FromGValue(g) ==
    CASE g.gtype = "unset" -> NullValue
      [] g.gtype \in SignedGTypes \cup UnsignedGTypes -> NewInteger(Wrap(g.v[1], Int64Bits))
      [] g.gtype \in {"float", "double"} -> NewFloat(g.v[1])
      [] g.gtype = "string"   -> NewString(g.v)
      [] g.gtype = "boolean"  -> NewBoolean(g.v[1] # 0)
      [] g.gtype = "bytes"    -> NewBlob(g.v)
      [] g.gtype = "datetime" -> NewDateTime(g.v)
      [] OTHER                -> NoValue

-------------------------------------------------------------------------------
(* The decimal digits of a number, as characters.                          *)
RECURSIVE Decimal(_)
Decimal(n) ==
    IF n < 0 THEN <<45>> \o Decimal(-n)
    ELSE IF n < 10 THEN <<48 + n>>
    ELSE Decimal(n \div 10) \o <<48 + (n % 10)>>

(* orm_value_to_string(), which orm_property_to_column() takes for a       *)
(* default: the quotes of a string are not doubled.                        *)
ValueText(value) ==
    CASE value.type = "null"     -> <<78, 85, 76, 76>>
      [] value.type = "integer"  -> Decimal(Number(value))
      [] value.type = "float"    -> Decimal(Rounded(Number(value), ShortDigits))
      [] value.type = "string"   -> <<39>> \o value.v \o <<39>>
      [] value.type = "blob"     -> <<60>> \o Decimal(Len(value.v)) \o <<62>>
      [] value.type = "boolean"  -> IF Number(value) # 0 THEN <<84, 82, 85, 69>>
                                    ELSE <<70, 65, 76, 83, 69>>
      [] value.type = "datetime" -> IsoText(value.v)
===============================================================================
