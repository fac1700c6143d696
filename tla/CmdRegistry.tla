---------------------------- MODULE CmdRegistry ----------------------------
(***************************************************************************)
(* The registry of commands (rpcjson/register.go, cmdinfo.go): three maps  *)
(* under registerLock, and what an application and a peer do with them:    *)
(* register types, ask for usage texts, make a command of a method, send   *)
(* it, and have a request decoded.                                         *)
(*                                                                         *)
(* A critical section and the local work after it are one step, except     *)
(* where something shared is used again later: MethodUsageText stores a    *)
(* copy it read in an earlier critical section, and UnmarshalCmd uses the  *)
(* defaults of the entry it looked up.                                     *)
(***************************************************************************)
EXTENDS CmdParse

CONSTANTS
  Programs,  \* sets of types, each the command types of one program
  MethodNames, \* method names
  Flags      \* usage flags offered to RegisterCmd

ASSUME RegistryAssumption ==
  /\ Flags \subseteq Nat
  /\ \A program \in Programs : program \subseteq StructForms

VARIABLES
  declared,             \* the command types of this program
  methodToConcreteType,
  methodToInfo,
  concreteTypeToMethod,
  usageJobs, \* calls of MethodUsageText between its critical sections: what they hold
  stage,     \* how far the command has come
  command,   \* its type and values
  request,   \* the request made of it, or sent by a peer
  lookedUp,  \* what UnmarshalCmd found: type and info
  decoded    \* what it returned

maps         == <<methodToConcreteType, methodToInfo, concreteTypeToMethod>>
pipeline     == <<stage, command, request, lookedUp, decoded>>
registryVars == <<declared, maps, usageJobs, pipeline>>

Registered == DOMAIN methodToConcreteType

RegistryTypeOK ==
  /\ declared \in Programs
  /\ Registered \subseteq MethodNames
  /\ \A m \in Registered : methodToConcreteType[m] \in declared
  /\ \A rt \in DOMAIN concreteTypeToMethod : concreteTypeToMethod[rt] \in MethodNames
  /\ \A job \in usageJobs : job.method \in MethodNames
  /\ stage \in {"idle", "composed", "sent", "decode", "decoded", "failed"}
-----------------------------------------------------------------------------
Store(map, key, value) ==
  [k \in DOMAIN map \cup {key} |-> IF k = key THEN value ELSE map[k]]

(* highestUsageFlagBit is 8.  The mutant does not look for the method. *)
HighestUsageFlagBit == 8
MayRegisterAgain(m, rt, flags) ==
  flags < HighestUsageFlagBit /\ TypeError(rt) = "ok"
MayRegister(m, rt, flags) ==
  m \notin Registered /\ flags < HighestUsageFlagBit /\ TypeError(rt) = "ok"

(* RegisterCmd, one critical section; what it refuses changes nothing. *)
RegisterCmd(m, rt, flags) ==
  /\ MayRegister(m, rt, flags)
  /\ methodToConcreteType' = Store(methodToConcreteType, m, rt)
  /\ methodToInfo' = Store(methodToInfo, m, InfoOf(rt, flags))
  /\ concreteTypeToMethod' = Store(concreteTypeToMethod, rt, m)
  /\ UNCHANGED <<declared, usageJobs, pipeline>>

(* MethodUsageText: the first critical section, and the second, unless the text
   was there already.  Any number of calls are between the two; of those that hold
   the same copy one may store it and others still hold it. *)
UsageLookUp(m) ==
  /\ m \in Registered
  /\ methodToInfo[m].usage = ""
  /\ usageJobs' = usageJobs \cup {[method |-> m, info |-> methodToInfo[m]]}
  /\ UNCHANGED <<declared, maps, pipeline>>

UsageStore ==
  /\ \E job \in usageJobs :
       /\ methodToInfo' = Store(methodToInfo, job.method, [job.info EXCEPT !.usage = "text"])
       /\ usageJobs' \in {usageJobs, usageJobs \ {job}}
  /\ UNCHANGED <<declared, methodToConcreteType, concreteTypeToMethod, pipeline>>

-----------------------------------------------------------------------------
(* The application. *)

Values(rt) == {v \in [1..Len(rt.fields) -> {"nil", "zero", "given", "NaN"}] :
                 \A i \in DOMAIN v : v[i] \in FieldValues(rt.fields[i])}
Composed(rt, values) == [rt |-> rt, values |-> values]

(* A command is written down as a value of its type (NewUptimeCmd and the like). *)
Compose(rt) ==
  /\ stage = "idle"
  /\ rt.ptrToStruct
  /\ \E values \in Values(rt) : command' = <<Composed(rt, values)>>
  /\ stage' = "composed"
  /\ UNCHANGED <<declared, maps, usageJobs, request, lookedUp, decoded>>

(* NewCmd, which may get too few or too many arguments. *)
NewCmd(m) ==
  /\ stage = "idle"
  /\ m \in Registered
  /\ LET rt == methodToConcreteType[m]
     IN  \E n \in 0..(Len(rt.fields) + 1) :
           IF NumParamsOk(n, methodToInfo[m])
           THEN /\ \E values \in Values(rt) :
                     command' = <<Composed(rt, AssignArgs(rt, SubSeq(values, 1, n)))>>
                /\ stage' = "composed"
           ELSE stage' = "failed" /\ UNCHANGED command
  /\ UNCHANGED <<declared, maps, usageJobs, request, lookedUp, decoded>>

(* MarshalCmd: the type may be unknown, the command a nil pointer, the id or a
   value without a JSON form. *)
MarshalCmd ==
  /\ stage = "composed"
  /\ LET rt     == command[1].rt
         params == MakeParams(command[1].values)
     IN  \E isNil, idValid \in BOOLEAN :
           IF rt \in DOMAIN concreteTypeToMethod /\ ~isNil /\ CanMarshal(idValid, params)
           THEN /\ request' = <<[method |-> concreteTypeToMethod[rt], params |-> params]>>
                /\ stage' = "sent"
           ELSE stage' = "failed" /\ UNCHANGED request
  /\ UNCHANGED <<declared, maps, usageJobs, command, lookedUp, decoded>>

(* A peer's request: any method, any number of parameters. *)
PeerRequest(m) ==
  /\ stage = "idle"
  /\ \E rt \in declared : \E n \in 0..(Len(rt.fields) + 1) :
       \E params \in [1..n -> RawParams] :
         request' = <<[method |-> m, params |-> params]>>
  /\ stage' = "sent"
  /\ UNCHANGED <<declared, maps, usageJobs, command, lookedUp, decoded>>

-----------------------------------------------------------------------------
(* UnmarshalCmd *)

(* Its critical section, and the number of parameters. *)
UnmarshalLookUp ==
  /\ stage = "sent"
  /\ LET m == request[1].method
     IN  IF m \in Registered /\ NumParamsOk(Len(request[1].params), methodToInfo[m])
         THEN /\ lookedUp' = <<[rt |-> methodToConcreteType[m], info |-> methodToInfo[m]]>>
              /\ stage' = "decode"
         ELSE stage' = "failed" /\ UNCHANGED lookedUp
  /\ UNCHANGED <<declared, maps, usageJobs, command, request, decoded>>

(* The fields.  A parameter of another type is an error.  The command is a value
   here: that its pointers to defaults are the registry's own is left out, as is
   what a receiver that writes through one would do to the others. *)
DecodeResult(params) ==
  LET found == lookedUp[1]
  IN  IF Contains(params, "wrong")
      THEN stage' = "failed" /\ UNCHANGED decoded
      ELSE /\ decoded' = <<DecodeParams(found.rt, found.info, params)>>
           /\ stage' = "decoded"
UnmarshalFields ==
  /\ stage = "decode"
  /\ DecodeResult(request[1].params)
  /\ UNCHANGED <<declared, maps, usageJobs, command, request, lookedUp>>

-----------------------------------------------------------------------------
RegistryInit ==
  /\ declared \in Programs
  /\ methodToConcreteType = <<>>
  /\ methodToInfo = <<>>
  /\ concreteTypeToMethod = <<>>
  /\ usageJobs = {}
  /\ stage = "idle"
  /\ command = <<>> /\ request = <<>> /\ lookedUp = <<>> /\ decoded = <<>>

UnmarshalCmd == UnmarshalLookUp \/ UnmarshalFields
RegistryNext ==
  \/ \E m \in MethodNames, rt \in declared, flags \in Flags : RegisterCmd(m, rt, flags)
  \/ \E m \in MethodNames : UsageLookUp(m) \/ NewCmd(m) \/ PeerRequest(m)
  \/ UsageStore \/ MarshalCmd \/ UnmarshalCmd
  \/ \E rt \in declared : Compose(rt)

RegistrySpec == RegistryInit /\ [][RegistryNext]_registryVars

-----------------------------------------------------------------------------
(* Properties. *)

(* What is registered can be sent by position: the required fields come first,
   only optional ones have defaults; and the way from a command's type to its
   method and back leads to the same type, although a type may be registered for
   several methods. *)
RegistryConsistent ==
  /\ DOMAIN methodToInfo = Registered
  /\ \A m \in Registered :
       LET fields == methodToConcreteType[m].fields
           info   == methodToInfo[m]
       IN  /\ \A i \in 1..info.maxParams : IsOptional(fields[i]) <=> i > info.numReqParams
           /\ DOMAIN info.defaults \subseteq (info.numReqParams + 1)..info.maxParams
  /\ DOMAIN concreteTypeToMethod = {methodToConcreteType[m] : m \in Registered}
  /\ \A rt \in DOMAIN concreteTypeToMethod :
       methodToConcreteType[concreteTypeToMethod[rt]] = rt

(* A registered method keeps its type, its parameters with their defaults and its
   flags for good, although any number of calls of MethodUsageText write back
   entries they have read earlier. *)
SameMethod(m) ==
  /\ methodToConcreteType'[m] = methodToConcreteType[m]
  /\ \A part \in {"maxParams", "numReqParams", "defaults", "flags"} :
       methodToInfo'[m][part] = methodToInfo[m][part]
EntriesAreFinal ==
  [][\A m \in Registered : m \in Registered' /\ SameMethod(m)]_registryVars

(* A command that an application made arrives as it was up to its first nil, and
   from there on it has the defaults: "only adding them if they are non-nil" loses
   no position and shifts none. *)
DecodedAsSent ==
  stage = "decoded" /\ command # <<>> =>
    LET sent == command[1].values
    IN  /\ Len(decoded[1]) = Len(sent)
        /\ \A i \in DOMAIN sent :
             LET field == command[1].rt.fields[i]
             IN  decoded[1][i] =
                   IF \A j \in 1..i : sent[j] # "nil" THEN sent[i]
                   ELSE IF field.tag = "good" THEN "default" ELSE "nil"
=============================================================================
