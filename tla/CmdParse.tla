------------------------------ MODULE CmdParse ------------------------------
(***************************************************************************)
(* Commands, their types and their parameters: the checks of RegisterCmd   *)
(* (rpcjson/register.go) and the functions that turn a command into a      *)
(* request and back (rpcjson/cmdparse.go, rpcjson/rpcjson.go).             *)
(*                                                                         *)
(* A command type is a sequence of fields; a command is a sequence of the  *)
(* values of its fields.  Of a value it only matters what could be         *)
(* confused: the nil of a pointer, a type's zero value, a field's default, *)
(* something given, and a number JSON has no form for (NaN).               *)
(***************************************************************************)
EXTENDS Naturals, FiniteSets, SequencesExt

Kinds     == {"plain", "chan"}  \* "chan" for all kinds isAcceptableKind refuses
Tags      == {"none", "good", "mismatched"}  \* jsonrpcdefault
FieldForms ==
  [ptr: 0..2, kind: Kinds, tag: Tags, anonymous: BOOLEAN, exported: BOOLEAN]

StructForms == [ptrToStruct: BOOLEAN, fields: Seq(FieldForms)]

IsOptional(field) == field.ptr > 0

(* The kind after the first indirection. *)
KindOf(field) == IF field.ptr > 1 THEN "ptr" ELSE field.kind
IsAcceptableKind(kind) == kind \notin {"chan", "ptr"}
-----------------------------------------------------------------------------
(* RegisterCmd's checks, in the order they are made: pairs of a failure and its
   error.  The first that fails gives the error.  The mutant lets a required field
   follow an optional one. *)
FirstFailed(checks) ==
  LET failed == {k \in DOMAIN checks : checks[k][1]}
  IN  IF failed = {} THEN "ok" ELSE checks[Min(failed)][2]

FieldChecksUnordered(fields, i) ==
  LET field == fields[i]
  IN  << <<field.anonymous, "ErrEmbeddedType">>,
         <<~field.exported, "ErrUnexportedField">>,
         <<~IsAcceptableKind(KindOf(field)), "ErrUnsupportedFieldType">>,
         <<~IsOptional(field) /\ field.tag # "none", "ErrNonOptionalDefault">>,
         <<field.tag = "mismatched", "ErrMismatchedDefault">> >>
FieldChecks(fields, i) ==
  LET field == fields[i]
      afterOptional == \E j \in 1..(i - 1) : IsOptional(fields[j])
  IN  << <<field.anonymous, "ErrEmbeddedType">>,
         <<~field.exported, "ErrUnexportedField">>,
         <<~IsAcceptableKind(KindOf(field)), "ErrUnsupportedFieldType">>,
         <<~IsOptional(field) /\ afterOptional, "ErrNonOptionalField">>,
         <<~IsOptional(field) /\ field.tag # "none", "ErrNonOptionalDefault">>,
         <<field.tag = "mismatched", "ErrMismatchedDefault">> >>

(* The fields one after the other.  A type that is no pointer to a struct has none
   to look at. *)
FieldError(fields, i) == FirstFailed(FieldChecks(fields, i))
TypeError(rt) ==
  IF ~rt.ptrToStruct THEN "ErrInvalidType"
  ELSE FirstFailed([i \in 1..Len(rt.fields) |->
         <<FieldError(rt.fields, i) # "ok", FieldError(rt.fields, i)>>])

(* methodInfo, before anyone asked for the usage text.  Indices of defaults count
   from 1. *)
InfoOf(rt, flags) ==
  LET optional == {i \in 1..Len(rt.fields) : IsOptional(rt.fields[i])}
  IN  [maxParams    |-> Len(rt.fields),
       numReqParams |-> Len(rt.fields) - Cardinality(optional),
       defaults     |-> [i \in {j \in optional : rt.fields[j].tag = "good"} |-> "default"],
       flags        |-> flags,
       usage        |-> ""]

-----------------------------------------------------------------------------
(* A command to a request. *)

Zero(field) == IF IsOptional(field) THEN "nil" ELSE "zero"

(* The values a program can give a field; nil only where it is a pointer. *)
FieldValues(field) == {Zero(field), "given", "NaN"}

(* makeParams stops at the first nil.  The mutant leaves out the nils and keeps
   what follows them. *)
MakeParamsSkips(cmd) == SelectSeq(cmd, LAMBDA value : value # "nil")
MakeParams(cmd) ==
  LET firstNil == SelectInSeq(cmd, LAMBDA value : value = "nil")
  IN  IF firstNil = 0 THEN cmd ELSE SubSeq(cmd, 1, firstNil - 1)

(* NewRequest and json.Marshal: IsValidIDType, and values without a JSON form. *)
CanMarshal(idValid, params) == idValid /\ ~Contains(params, "NaN")

-----------------------------------------------------------------------------
(* A request to a command. *)

(* What a peer can send for a parameter: a value of the field's type, null, or a
   value of another type. *)
RawParams == {"given", "null", "wrong"}

(* checkNumParams *)
NumParamsOk(numParams, info) ==
  numParams >= info.numReqParams /\ numParams <= info.maxParams

(* json.Unmarshal into a pointer to the new field, through an interface: null
   leaves the field as it was. *)
DecodeField(field, param) == IF param = "null" THEN Zero(field) ELSE param

(* populateDefaults, for the fields after the first n. *)
Populated(rt, info, n, i) ==
  IF i > n /\ i \in DOMAIN info.defaults THEN info.defaults[i] ELSE Zero(rt.fields[i])

(* The command UnmarshalCmd returns once it knows the method's type and info. *)
DecodeParams(rt, info, params) ==
  [i \in 1..info.maxParams |->
     IF i <= Len(params) THEN DecodeField(rt.fields[i], params[i])
     ELSE Populated(rt, info, Len(params), i)]

(* The command NewCmd returns; it leaves out the defaults.  Its arguments have
   the types of the fields (Conversions is about others). *)
AssignArgs(rt, args) ==
  [i \in 1..Len(rt.fields) |-> IF i <= Len(args) THEN args[i] ELSE Zero(rt.fields[i])]
=============================================================================
