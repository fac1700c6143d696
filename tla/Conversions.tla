---------------------------- MODULE Conversions ----------------------------
(***************************************************************************)
(* assignField of rpcjson/cmdparse.go: how NewCmd assigns an argument to a *)
(* field of a possibly different type.                                     *)
(*                                                                         *)
(* A type is a base type under some pointers.  Integers have a width and   *)
(* wrap where the code converts between signed and unsigned; the widest is *)
(* WordBits (64 in Go).  A string is what it parses to.  Floats come in    *)
(* two ranges, their rounding is left out.                                 *)
(***************************************************************************)
EXTENDS Integers

CONSTANTS
  WordBits,  \* width of int64 and uint64
  IntBits,   \* width of int and uint, which strconv's bit size 0 stands for
  Widths     \* widths of the integer types

ASSUME ConversionsAssumption ==
  /\ Widths \subseteq 1..WordBits
  /\ {WordBits, IntBits} \subseteq Widths

VARIABLES
  arg,      \* the argument: its base type, indirections, first nil, value
  dest,     \* the field: its base type and indirections
  outcome   \* of assignField: pending, or how it ended and the field's value

conversionVars == <<arg, dest, outcome>>

(* Base types; a named type differs from the type it is defined as. *)
Type(class, bits, named) == [class |-> class, bits |-> bits, named |-> named]
Types ==
  {Type(class, bits, FALSE) : class \in {"int", "uint"}, bits \in Widths}
    \cup {Type("int", WordBits, TRUE)}
    \cup {Type("float", bits, FALSE) : bits \in {1, 2}}
    \cup {Type(class, 0, FALSE) : class \in {"bool", "json"}}
    \cup {Type("string", 0, named) : named \in BOOLEAN}

(* Powers of two, in a form that can be reasoned about. *)
TwoTo[w \in Nat] == IF w = 0 THEN 1 ELSE 2 * TwoTo[w - 1]

MinSigned(bits)   == -TwoTo[bits - 1]
MaxSigned(bits)   == TwoTo[bits - 1] - 1
MaxUnsigned(bits) == TwoTo[bits] - 1
FloatRange(bits)  == (-bits)..bits

(* The numbers a type holds. *)
RangeOf(type) ==
  CASE type.class = "int"   -> MinSigned(type.bits)..MaxSigned(type.bits)
    [] type.class = "uint"  -> 0..MaxUnsigned(type.bits)
    [] type.class = "float" -> FloatRange(type.bits)
    [] OTHER                -> {0}

(* What an argument of a type can be: a number; for strings a numeral, also one
   out of every range, or a text that is none. *)
Numeral(n) == [form |-> "number", n |-> n]
Text(form) == [form |-> form, n |-> 0]
ValuesOf(type) ==
  IF type.class # "string" THEN {Numeral(n) : n \in RangeOf(type)}
  ELSE {Numeral(n) : n \in MinSigned(WordBits + 1)..MaxUnsigned(WordBits + 1)}
         \cup {Text("other"), Text("bool"), Text("document"), Text("null")}
-----------------------------------------------------------------------------
Assigned(n) == [ended |-> "assigned", n |-> n]
Ended(how)  == [ended |-> how, n |-> 0]
WrongType   == Ended("error")
Panic       == Ended("panic")

IsNumeric(type) == type.class \in {"int", "uint", "float"}

TypesMaybeCompatible(to, from) ==
  \/ to = from
  \/ IsNumeric(to) /\ IsNumeric(from)
  \/ from.class = "string" /\ to.class \in {"int", "uint", "float", "bool", "string", "json"}

(* reflect's OverflowInt, OverflowUint and OverflowFloat, and the conversions
   uint64() and int64(). *)
Overflows(to, n) == n \notin RangeOf(to)
ToUnsigned(n) == n % TwoTo[WordBits]
ToSigned(n)   == IF n > MaxSigned(WordBits) THEN n - TwoTo[WordBits] ELSE n

SetIfFits(to, n) == IF Overflows(to, n) THEN WrongType ELSE Assigned(n)

(* A signed number.  The mutant does not look at the sign. *)
FromIntAnySign(to, n) ==
  CASE to.class = "int"  -> SetIfFits(to, n)
    [] to.class = "uint" -> SetIfFits(to, ToUnsigned(n))
    [] OTHER             -> WrongType
FromInt(to, n) ==
  CASE to.class = "int"  -> SetIfFits(to, n)
    [] to.class = "uint" -> IF n < 0 THEN WrongType ELSE SetIfFits(to, ToUnsigned(n))
    [] OTHER             -> WrongType

(* An unsigned number. *)
FromUint(to, n) ==
  CASE to.class = "int"  -> IF n > MaxSigned(WordBits) THEN WrongType
                            ELSE SetIfFits(to, ToSigned(n))
    [] to.class = "uint" -> SetIfFits(to, n)
    [] OTHER             -> WrongType

FromFloat(to, n) == IF to.class = "float" THEN SetIfFits(to, n) ELSE WrongType

(* strconv.ParseInt and ParseUint with bit size 0. *)
ParsesAs(class, value) ==
  value.form = "number" /\ value.n \in RangeOf(Type(class, IntBits, FALSE))

(* A string.  json.Unmarshal of null sets the interface it is given to nil, and
   reflect.ValueOf(nil).Elem() panics. *)
FromString(to, value) ==
  CASE to.class \in {"int", "uint"} ->
         IF ParsesAs(to.class, value) THEN SetIfFits(to, value.n) ELSE WrongType
    [] to.class = "float" ->
         IF value.form = "number" THEN SetIfFits(to, value.n) ELSE WrongType
    [] to.class = "bool" ->
         IF value.form = "bool" \/ value \in {Numeral(0), Numeral(1)}
         THEN Assigned(value.n) ELSE WrongType
    [] to.class = "string" -> Assigned(value.n)
    [] to.class = "json" ->
         IF value.form = "null" THEN Panic
         ELSE IF value.form = "document" THEN Assigned(value.n) ELSE WrongType

Converted(to, from, value) ==
  CASE from.class = "int"    -> FromInt(to, value.n)
    [] from.class = "uint"   -> FromUint(to, value.n)
    [] from.class = "float"  -> FromFloat(to, value.n)
    [] from.class = "string" -> FromString(to, value)

(* The same base type: pointers of the argument beyond those of the field are
   followed, and following a nil one panics; a nil further in is assigned. *)
SetDirectly ==
  IF arg.isNil /\ arg.nilAt < arg.indirects - dest.indirects THEN Panic
  ELSE IF arg.isNil THEN Ended("nil") ELSE Assigned(arg.value.n)

(* assignField.  A nil pointer to another type is followed to no value at all,
   which no case of the switch matches: the new field keeps its zero. *)
AssignResult ==
  IF ~TypesMaybeCompatible(dest.type, arg.type) THEN WrongType
  ELSE IF dest.type = arg.type THEN SetDirectly
  ELSE IF arg.isNil THEN Assigned(0)
  ELSE Converted(dest.type, arg.type, arg.value)

AssignField ==
  /\ outcome.ended = "pending"
  /\ outcome' = AssignResult
  /\ UNCHANGED <<arg, dest>>

ConversionsInit ==
  /\ \E type \in Types, indirects \in 0..2, isNil \in BOOLEAN, nilAt \in 0..1 :
       \E value \in ValuesOf(type) :
         /\ IF isNil THEN nilAt < indirects /\ value = Numeral(0) ELSE nilAt = 0
         /\ arg = [type |-> type, indirects |-> indirects, isNil |-> isNil,
                   nilAt |-> nilAt, value |-> value]
  /\ dest \in [type: Types, indirects: 0..1]
  /\ outcome = Ended("pending")

ConversionsSpec == ConversionsInit /\ [][AssignField]_conversionVars

-----------------------------------------------------------------------------
(* Properties. *)

(* What NewCmd's documentation promises to convert, whatever the code does: integers
   and floats "so long as the value does not overflow the destination type", strings
   to "any size integer", float or boolean that they parse to, and by "treating the
   string as marshalled JSON".  A comment adds "String -> string (typecast)". *)
IsInteger(type) == type.class \in {"int", "uint"}
Convertible(to, from, value) ==
  \/ from = to
  \/ IsInteger(from) /\ IsInteger(to) /\ value.n \in RangeOf(to)
  \/ from.class = "float" /\ to.class = "float" /\ value.n \in RangeOf(to)
  \/ /\ from.class = "string"
     /\ \/ IsNumeric(to) /\ value.form = "number" /\ value.n \in RangeOf(to)
        \/ /\ to.class = "bool"
           /\ value.form = "bool" \/ (value.form = "number" /\ value.n \in {0, 1})
        \/ to.class = "string"
        \/ to.class = "json" /\ value.form \in {"document", "null"}

(* The code falls short of it for two kinds of strings: the numerals of integers
   wider than int, and the JSON null. *)
BeyondInt(to, from, value) ==
  /\ from.class = "string" /\ IsInteger(to)
  /\ value.form = "number" /\ value.n \notin RangeOf(Type(to.class, IntBits, FALSE))
NullDocument(to, from, value) ==
  from.class = "string" /\ to.class = "json" /\ value.form = "null"

Finished == outcome.ended # "pending" /\ ~arg.isNil

(* Whatever the widths and signs, what is assigned is what the documentation lets
   NewCmd convert, with the argument's own value; what is not assigned it does not
   promise, but for the two kinds of strings; and only null panics. *)
ConversionsPreserveValue ==
  Finished =>
    /\ outcome.ended = "assigned" =>
         Convertible(dest.type, arg.type, arg.value) /\ outcome.n = arg.value.n
    /\ outcome.ended # "assigned" =>
         \/ ~Convertible(dest.type, arg.type, arg.value)
         \/ BeyondInt(dest.type, arg.type, arg.value)
         \/ NullDocument(dest.type, arg.type, arg.value)
    /\ outcome = Panic => NullDocument(dest.type, arg.type, arg.value)

(* "The following conversions are supported": every conversion that is documented
   succeeds.  It does not, even where int is as wide as any integer. *)
ConversionsAsDocumented ==
  Finished /\ Convertible(dest.type, arg.type, arg.value) => outcome = Assigned(arg.value.n)
=============================================================================
