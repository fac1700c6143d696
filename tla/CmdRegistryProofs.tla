-------------------------- MODULE CmdRegistryProofs --------------------------
(***************************************************************************)
(* Proofs about the registry of commands, for any command types, methods   *)
(* and flags: what RegisterCmd lets in can be sent by position, what is    *)
(* registered stays as it is, and a command arrives as it was sent.  Then  *)
(* about the arguments of NewCmd: for any widths of the integers, the      *)
(* conversion of one assigns what NewCmd documents, or falls short of it   *)
(* for two kinds of strings.                                               *)
(***************************************************************************)
EXTENDS CmdRegistry, Conversions, FiniteSetTheorems, TLAPS

(* A set of positions has a first one. *)
LEMMA MinNat ==
  ASSUME NEW S \in SUBSET Nat, S # {}
  PROVE  Min(S) \in S /\ \A k \in S : Min(S) <= k
<1>1. PICK n \in S : \A k \in S : ~(<<k, n>> \in OpToRel(<, Nat))
  BY WFMin, NatLessThanWellFounded
<1>2. ASSUME NEW k \in S PROVE n <= k
  <2>1. CASE k < n
    <3>1. <<k, n>> \in OpToRel(<, Nat)
      BY <2>1 DEF OpToRel
    <3> QED BY <1>1, <3>1, Zenon
  <2> QED BY <2>1
<1> QED BY <1>2 DEF Min

-----------------------------------------------------------------------------
(* RegisterCmd's checks. *)

(* No check fails of what is "ok". *)
LEMMA FirstFailedOk ==
  ASSUME NEW checks, DOMAIN checks \subseteq Nat,
         \A k \in DOMAIN checks : checks[k][1] => checks[k][2] # "ok",
         FirstFailed(checks) = "ok"
  PROVE  \A k \in DOMAIN checks : ~checks[k][1]
<1>1. SUFFICES ASSUME {k \in DOMAIN checks : checks[k][1]} # {} PROVE FALSE
  OBVIOUS
<1>2. Min({k \in DOMAIN checks : checks[k][1]}) \in {k \in DOMAIN checks : checks[k][1]}
  BY <1>1, MinNat
<1> QED BY <1>1, <1>2 DEF FirstFailed

LEMMA OptionalFieldsLast ==
  ASSUME NEW rt \in StructForms, TypeError(rt) = "ok"
  PROVE  /\ rt.ptrToStruct
         /\ \A i, j \in 1..Len(rt.fields) :
              j < i /\ IsOptional(rt.fields[j]) => IsOptional(rt.fields[i])
         /\ \A i \in 1..Len(rt.fields) :
              rt.fields[i].tag # "none" => IsOptional(rt.fields[i])
<1> DEFINE checks == [i \in 1..Len(rt.fields) |->
                        <<FieldError(rt.fields, i) # "ok", FieldError(rt.fields, i)>>]
<1>1. rt.ptrToStruct /\ FirstFailed(checks) = "ok"
  BY DEF TypeError
<1>2. \A i \in 1..Len(rt.fields) : FieldError(rt.fields, i) = "ok"
  <2>1. DOMAIN checks \subseteq Nat
    BY DEF StructForms
  <2>2. \A k \in DOMAIN checks : checks[k][1] => checks[k][2] # "ok"
    OBVIOUS
  <2> HIDE DEF checks
  <2>3. \A k \in DOMAIN checks : ~checks[k][1]
    BY <1>1, <2>1, <2>2, FirstFailedOk
  <2> QED BY <2>3 DEF checks
<1>3. ASSUME NEW i \in 1..Len(rt.fields)
      PROVE  \A k \in 1..6 : ~FieldChecks(rt.fields, i)[k][1]
  <2>1. DOMAIN FieldChecks(rt.fields, i) = 1..6
    BY DEF FieldChecks
  <2>2. \A k \in 1..6 : FieldChecks(rt.fields, i)[k][2] # "ok"
    BY DEF FieldChecks
  <2>3. FirstFailed(FieldChecks(rt.fields, i)) = "ok"
    BY <1>2 DEF FieldError
  <2> QED BY <2>1, <2>2, <2>3, FirstFailedOk
<1>4. \A i \in 1..Len(rt.fields) :
        /\ ~(~IsOptional(rt.fields[i]) /\ \E j \in 1..(i - 1) : IsOptional(rt.fields[j]))
        /\ ~(~IsOptional(rt.fields[i]) /\ rt.fields[i].tag # "none")
  <2> SUFFICES ASSUME NEW i \in 1..Len(rt.fields)
      PROVE  /\ ~(~IsOptional(rt.fields[i]) /\ \E j \in 1..(i - 1) : IsOptional(rt.fields[j]))
             /\ ~(~IsOptional(rt.fields[i]) /\ rt.fields[i].tag # "none")
    OBVIOUS
  <2>1. ~FieldChecks(rt.fields, i)[4][1] /\ ~FieldChecks(rt.fields, i)[5][1]
    BY <1>3
  <2> QED BY <2>1 DEF FieldChecks
<1> QED BY <1>1, <1>4 DEF StructForms

(* methodInfo says which parameters are required: those before the first optional
   field, and only later ones have defaults. *)
LEMMA RequiredFirst ==
  ASSUME NEW rt \in StructForms, TypeError(rt) = "ok", NEW flags
  PROVE  LET info == InfoOf(rt, flags)
         IN  /\ info.maxParams = Len(rt.fields)
             /\ info.numReqParams \in 0..Len(rt.fields)
             /\ \A i \in 1..Len(rt.fields) :
                  IsOptional(rt.fields[i]) <=> i > info.numReqParams
             /\ \A i \in 1..Len(rt.fields) :
                  i \in DOMAIN info.defaults <=> rt.fields[i].tag = "good"
             /\ DOMAIN info.defaults \subseteq (info.numReqParams + 1)..Len(rt.fields)
             /\ \A i \in DOMAIN info.defaults : info.defaults[i] = "default"
<1> DEFINE n == Len(rt.fields)
           optional == {i \in 1..n : IsOptional(rt.fields[i])}
           info == InfoOf(rt, flags)
<1>1. n \in Nat
  BY DEF StructForms
<1>2. /\ info.maxParams = n /\ info.numReqParams = n - Cardinality(optional)
      /\ DOMAIN info.defaults = {i \in optional : rt.fields[i].tag = "good"}
      /\ \A i \in DOMAIN info.defaults : info.defaults[i] = "default"
  BY DEF InfoOf
<1>3. PICK k \in 0..n : optional = (k + 1)..n
  <2>1. CASE optional = {}
    <3>1. (n + 1)..n = {} /\ n \in 0..n
      BY <1>1
    <3> HIDE DEF n, optional
    <3> QED BY <2>1, <3>1
  <2>2. CASE optional # {}
    <3>1. PICK first \in optional : \A j \in optional : first <= j
      <4>1. optional \in SUBSET Nat
        BY <1>1
      <4> HIDE DEF optional
      <4> QED BY <2>2, <4>1, MinNat
    <3>2. \A i \in 1..n : i >= first => i \in optional
      <4> SUFFICES ASSUME NEW i \in 1..n, i > first PROVE i \in optional
        BY <1>1, <3>1
      <4>1. IsOptional(rt.fields[first]) /\ first \in 1..n
        BY <3>1
      <4>2. IsOptional(rt.fields[i])
        BY <4>1, OptionalFieldsLast
      <4> QED BY <4>2
    <3>3. first \in 1..n /\ optional \subseteq 1..n
      BY <3>1
    <3> HIDE DEF optional
    <3>4. optional = first..n
      <4> HIDE DEF n
      <4>1. ASSUME NEW i \in optional PROVE i \in first..n
        <5>1. i \in 1..n /\ first <= i
          BY <3>1, <3>3
        <5> QED BY <1>1, <3>3, <5>1
      <4>2. ASSUME NEW i \in first..n PROVE i \in optional
        <5>1. i \in 1..n /\ i >= first
          BY <1>1, <3>3
        <5> QED BY <3>2, <5>1
      <4> QED BY <4>1, <4>2
    <3>5. first - 1 \in 0..n /\ (first - 1) + 1 = first
      BY <1>1, <3>3
    <3> QED BY <3>4, <3>5
  <2> QED BY <2>1, <2>2
<1>4. Cardinality(optional) = n - k
  <2>1. k \in Nat /\ k <= n
    BY <1>1
  <2>2. Cardinality((k + 1)..n) = IF k + 1 > n THEN 0 ELSE n - (k + 1) + 1
    <3> HIDE DEF n
    <3>1. k + 1 \in Int /\ n \in Int
      BY <1>1, <2>1
    <3> QED BY <3>1, FS_Interval
  <2> HIDE DEF n, optional
  <2> QED BY <1>1, <1>3, <2>1, <2>2
<1>5. info.numReqParams = k
  BY <1>1, <1>2, <1>4
<1>6. \A i \in 1..n : IsOptional(rt.fields[i]) <=> i > k
  BY <1>1, <1>3
<1>7. \A i \in 1..n : rt.fields[i].tag = "good" => i \in optional
  BY OptionalFieldsLast
<1> HIDE DEF info, optional
<1> QED BY <1>1, <1>2, <1>3, <1>5, <1>6, <1>7 DEF info

-----------------------------------------------------------------------------
(* The invariant. *)

(* What an entry of methodToInfo can be, the usage text there or not. *)
IsInfoOf(info, rt) ==
  \E flags \in Flags :
    info = InfoOf(rt, flags) \/ info = [InfoOf(rt, flags) EXCEPT !.usage = "text"]

(* Every entry is of a type RegisterCmd lets in, and the maps lead back and forth. *)
MapsInv ==
  /\ declared \in Programs
  /\ methodToConcreteType \in [Registered -> declared] /\ Registered \subseteq MethodNames
  /\ DOMAIN methodToInfo = Registered
  /\ \A m \in Registered :
       /\ TypeError(methodToConcreteType[m]) = "ok"
       /\ IsInfoOf(methodToInfo[m], methodToConcreteType[m])
  /\ DOMAIN concreteTypeToMethod = {methodToConcreteType[m] : m \in Registered}
  /\ \A rt \in DOMAIN concreteTypeToMethod :
       /\ concreteTypeToMethod[rt] \in Registered
       /\ methodToConcreteType[concreteTypeToMethod[rt]] = rt

(* What a call of MethodUsageText holds between its critical sections is still the
   entry, but for the text that another call may have stored. *)
UsageInv ==
  \A job \in usageJobs :
    /\ job.method \in Registered
    /\ \/ methodToInfo[job.method] = job.info
       \/ methodToInfo[job.method] = [job.info EXCEPT !.usage = "text"]

(* How far the command has come: it is of a registered type once it is sent, and
   UnmarshalCmd works with that type and what was registered of it. *)
Sound(cmd) == cmd.rt \in declared /\ cmd.rt.ptrToStruct /\ cmd.values \in Values(cmd.rt)
Stages == {"idle", "composed", "sent", "decode", "decoded", "failed"}
Params == MakeParams(command[1].values)
PipelineInv ==
  /\ stage \in Stages
  /\ stage = "idle" => command = <<>>
  /\ stage = "composed" => command # <<>>
  /\ command # <<>> => command = <<command[1]>> /\ Sound(command[1])
  /\ command # <<>> /\ stage \in {"sent", "decode", "decoded"} =>
       /\ TypeError(command[1].rt) = "ok"
       /\ stage = "sent" =>
            \E m \in Registered : /\ methodToConcreteType[m] = command[1].rt
                                  /\ request = <<[method |-> m, params |-> Params]>>
       /\ stage = "decode" =>
            /\ request[1].params = Params
            /\ lookedUp[1].rt = command[1].rt
            /\ IsInfoOf(lookedUp[1].info, command[1].rt)
       /\ stage = "decoded" =>
            \E flags \in Flags :
              decoded = <<DecodeParams(command[1].rt, InfoOf(command[1].rt, flags), Params)>>

RegistryInv == MapsInv /\ UsageInv

-----------------------------------------------------------------------------
LEMMA RegistryInvInit == RegistryInit => RegistryInv
<1> SUFFICES ASSUME RegistryInit PROVE RegistryInv
  OBVIOUS
<1>1. /\ methodToConcreteType = <<>> /\ methodToInfo = <<>> /\ concreteTypeToMethod = <<>>
      /\ declared \in Programs /\ usageJobs = {}
  BY DEF RegistryInit
<1>2. DOMAIN <<>> = {} /\ <<>> \in [{} -> declared]
  OBVIOUS
<1>3. MapsInv
  BY <1>1, <1>2 DEF MapsInv, Registered
<1> QED BY <1>1, <1>3 DEF RegistryInv, UsageInv

(* RegisterCmd adds an entry and leaves the others. *)
LEMMA Registers ==
  ASSUME MapsInv, NEW m \in MethodNames, NEW rt \in declared, NEW flags \in Flags,
         RegisterCmd(m, rt, flags)
  PROVE  /\ Registered' = Registered \cup {m} /\ m \notin Registered
         /\ methodToConcreteType'[m] = rt /\ methodToInfo'[m] = InfoOf(rt, flags)
         /\ \A k \in Registered : /\ methodToConcreteType'[k] = methodToConcreteType[k]
                                  /\ methodToInfo'[k] = methodToInfo[k]
         /\ TypeError(rt) = "ok"
<1>1. /\ m \notin Registered /\ TypeError(rt) = "ok"
      /\ methodToConcreteType' = Store(methodToConcreteType, m, rt)
      /\ methodToInfo' = Store(methodToInfo, m, InfoOf(rt, flags))
  BY DEF RegisterCmd, MayRegister
<1>2. /\ DOMAIN methodToConcreteType' = DOMAIN methodToConcreteType \cup {m}
      /\ methodToConcreteType'[m] = rt
      /\ \A k \in DOMAIN methodToConcreteType : k # m => methodToConcreteType'[k] = methodToConcreteType[k]
  BY <1>1 DEF Store
<1>3. /\ methodToInfo'[m] = InfoOf(rt, flags)
      /\ \A k \in DOMAIN methodToInfo : k # m => methodToInfo'[k] = methodToInfo[k]
  BY <1>1 DEF Store
<1> QED BY <1>1, <1>2, <1>3 DEF Registered, MapsInv

LEMMA RegisterKeeps ==
  ASSUME RegistryInv, NEW m \in MethodNames, NEW rt \in declared, NEW flags \in Flags,
         RegisterCmd(m, rt, flags)
  PROVE  RegistryInv'
<1>1. MapsInv /\ UsageInv
  BY DEF RegistryInv
<1>2. /\ Registered' = Registered \cup {m} /\ m \notin Registered
      /\ methodToConcreteType'[m] = rt /\ methodToInfo'[m] = InfoOf(rt, flags)
      /\ \A k \in Registered : /\ methodToConcreteType'[k] = methodToConcreteType[k]
                               /\ methodToInfo'[k] = methodToInfo[k]
      /\ TypeError(rt) = "ok"
  BY <1>1, Registers
<1>3. /\ declared' = declared /\ usageJobs' = usageJobs
      /\ methodToConcreteType' = Store(methodToConcreteType, m, rt)
      /\ methodToInfo' = Store(methodToInfo, m, InfoOf(rt, flags))
      /\ concreteTypeToMethod' = Store(concreteTypeToMethod, rt, m)
  BY DEF RegisterCmd
<1>4. methodToConcreteType' \in [Registered' -> declared']
  BY <1>1, <1>3 DEF MapsInv, Registered, Store
<1>5. DOMAIN methodToInfo' = Registered'
  <2>1. DOMAIN methodToInfo' = DOMAIN methodToInfo \cup {m}
    BY <1>3 DEF Store
  <2> QED BY <1>1, <1>2, <2>1 DEF MapsInv
<1>6. \A k \in Registered' : /\ TypeError(methodToConcreteType'[k]) = "ok"
                            /\ IsInfoOf(methodToInfo'[k], methodToConcreteType'[k])
  <2>1. IsInfoOf(InfoOf(rt, flags), rt)
    BY DEF IsInfoOf
  <2> QED BY <1>1, <1>2, <2>1 DEF MapsInv
<1>7. /\ DOMAIN concreteTypeToMethod' = DOMAIN concreteTypeToMethod \cup {rt}
      /\ concreteTypeToMethod'[rt] = m
      /\ \A t \in DOMAIN concreteTypeToMethod :
           t # rt => concreteTypeToMethod'[t] = concreteTypeToMethod[t]
  BY <1>3 DEF Store
<1>8. DOMAIN concreteTypeToMethod' = {methodToConcreteType'[k] : k \in Registered'}
  BY <1>1, <1>2, <1>7 DEF MapsInv
<1>9. \A t \in DOMAIN concreteTypeToMethod' :
        /\ concreteTypeToMethod'[t] \in Registered'
        /\ methodToConcreteType'[concreteTypeToMethod'[t]] = t
  BY <1>1, <1>2, <1>7 DEF MapsInv
<1>10. MapsInv'
  BY <1>1, <1>2, <1>3, <1>4, <1>5, <1>6, <1>8, <1>9 DEF MapsInv
<1>11. UsageInv'
  BY <1>1, <1>2, <1>3 DEF UsageInv
<1> QED BY <1>10, <1>11 DEF RegistryInv

(* UsageStore writes back what is there, with the text. *)
LEMMA UsageStores ==
  ASSUME RegistryInv, UsageStore
  PROVE  /\ DOMAIN methodToInfo' = DOMAIN methodToInfo
         /\ \A m \in Registered :
              \/ methodToInfo'[m] = methodToInfo[m]
              \/ methodToInfo'[m] = [methodToInfo[m] EXCEPT !.usage = "text"]
<1>1. PICK job \in usageJobs :
        methodToInfo' = Store(methodToInfo, job.method, [job.info EXCEPT !.usage = "text"])
  BY DEF UsageStore
<1>2. /\ job.method \in Registered
      /\ \/ methodToInfo[job.method] = job.info
         \/ methodToInfo[job.method] = [job.info EXCEPT !.usage = "text"]
  BY DEF RegistryInv, UsageInv
<1>3. /\ DOMAIN methodToInfo' = DOMAIN methodToInfo \cup {job.method}
      /\ methodToInfo'[job.method] = [job.info EXCEPT !.usage = "text"]
      /\ \A k \in DOMAIN methodToInfo : k # job.method => methodToInfo'[k] = methodToInfo[k]
  BY <1>1 DEF Store
<1>4. \/ methodToInfo'[job.method] = methodToInfo[job.method]
      \/ methodToInfo'[job.method] = [methodToInfo[job.method] EXCEPT !.usage = "text"]
  BY <1>2, <1>3
<1> QED BY <1>2, <1>3, <1>4 DEF RegistryInv, MapsInv

LEMMA UsageKeeps ==
  ASSUME RegistryInv, UsageStore \/ \E m \in MethodNames : UsageLookUp(m)
  PROVE  RegistryInv'
<1>1. CASE UsageStore
  <2>1. /\ UNCHANGED <<declared, methodToConcreteType, concreteTypeToMethod>>
        /\ usageJobs' \subseteq usageJobs
    BY <1>1 DEF UsageStore
  <2>2. \A m \in Registered : IsInfoOf(methodToInfo'[m], methodToConcreteType[m])
    <3> SUFFICES ASSUME NEW m \in Registered
                 PROVE  IsInfoOf(methodToInfo'[m], methodToConcreteType[m])
      OBVIOUS
    <3>1. PICK flags \in Flags :
            \/ methodToInfo[m] = InfoOf(methodToConcreteType[m], flags)
            \/ methodToInfo[m] = [InfoOf(methodToConcreteType[m], flags) EXCEPT !.usage = "text"]
      BY Zenon DEF RegistryInv, MapsInv, IsInfoOf
    <3>2. [methodToInfo[m] EXCEPT !.usage = "text"]
            = [InfoOf(methodToConcreteType[m], flags) EXCEPT !.usage = "text"]
      BY <3>1 DEF InfoOf
    <3>3. IsInfoOf([methodToInfo[m] EXCEPT !.usage = "text"], methodToConcreteType[m])
      BY <3>2, Zenon DEF IsInfoOf
    <3> QED BY <1>1, <3>3, UsageStores DEF RegistryInv, MapsInv
  <2>3. MapsInv'
    BY <1>1, <2>1, <2>2, UsageStores DEF RegistryInv, MapsInv, Registered
  <2>4. UsageInv'
    <3> SUFFICES ASSUME NEW job \in usageJobs
                 PROVE  \/ methodToInfo'[job.method] = job.info
                        \/ methodToInfo'[job.method] = [job.info EXCEPT !.usage = "text"]
      BY <2>1 DEF RegistryInv, UsageInv, Registered
    <3>1. [[job.info EXCEPT !.usage = "text"] EXCEPT !.usage = "text"]
            = [job.info EXCEPT !.usage = "text"]
      OBVIOUS
    <3> QED BY <1>1, <3>1, UsageStores DEF RegistryInv, UsageInv
  <2> QED BY <2>3, <2>4 DEF RegistryInv
<1>2. ASSUME NEW m \in MethodNames, UsageLookUp(m) PROVE RegistryInv'
  <2>1. UNCHANGED <<declared, maps>> /\ m \in Registered
        /\ \A job \in usageJobs' : job \in usageJobs \/ job = [method |-> m, info |-> methodToInfo[m]]
    BY <1>2 DEF UsageLookUp
  <2>2. MapsInv'
    BY <2>1 DEF maps, RegistryInv, MapsInv, Registered
  <2>3. UsageInv'
    <3> SUFFICES ASSUME NEW job \in usageJobs'
                 PROVE  /\ job.method \in Registered
                        /\ \/ methodToInfo[job.method] = job.info
                           \/ methodToInfo[job.method] = [job.info EXCEPT !.usage = "text"]
      BY <2>1 DEF maps, UsageInv, Registered
    <3>1. CASE job \in usageJobs
      BY <3>1 DEF RegistryInv, UsageInv
    <3>2. CASE job = [method |-> m, info |-> methodToInfo[m]]
      BY <2>1, <3>2
    <3> QED BY <2>1, <3>1, <3>2
  <2> QED BY <2>2, <2>3 DEF RegistryInv
<1> QED BY <1>1, <1>2

LEMMA RegistryStep == RegistryInv /\ [RegistryNext]_registryVars => RegistryInv'
<1> SUFFICES ASSUME RegistryInv, [RegistryNext]_registryVars PROVE RegistryInv'
  OBVIOUS
<1>1. ASSUME UNCHANGED <<declared, maps, usageJobs>> PROVE RegistryInv'
  BY <1>1 DEF maps, RegistryInv, MapsInv, UsageInv, Registered
<1>2. ASSUME \/ \E m \in MethodNames : NewCmd(m) \/ PeerRequest(m)
             \/ MarshalCmd \/ UnmarshalCmd \/ \E rt \in declared : Compose(rt)
             \/ UNCHANGED registryVars
      PROVE  UNCHANGED <<declared, maps, usageJobs>>
  BY <1>2 DEF NewCmd, PeerRequest, MarshalCmd, UnmarshalCmd, UnmarshalLookUp, UnmarshalFields,
              Compose, registryVars
<1> QED BY <1>1, <1>2, RegisterKeeps, UsageKeeps DEF RegistryNext

(* The invariant of the maps and of the entry MethodUsageText holds. *)
THEOREM RegistryInvHolds == RegistrySpec => []RegistryInv
<1> QED BY RegistryInvInit, RegistryStep, PTL DEF RegistrySpec

-----------------------------------------------------------------------------
(* The parts of an entry that the usage text is not. *)
LEMMA InfoParts ==
  ASSUME NEW info, NEW rt, IsInfoOf(info, rt)
  PROVE  \E flags \in Flags :
           \A part \in {"maxParams", "numReqParams", "defaults", "flags"} :
             info[part] = InfoOf(rt, flags)[part]
  BY DEF IsInfoOf, InfoOf

(* What is registered can be sent by position, and the way from a type to its
   method and back leads to the same type (register.go, RegisterCmd). *)
THEOREM RegistryStaysConsistent == RegistrySpec => []RegistryConsistent
<1>1. RegistryInv => RegistryConsistent
  <2> SUFFICES ASSUME RegistryInv PROVE RegistryConsistent
    OBVIOUS
  <2>1. ASSUME NEW m \in Registered
        PROVE  LET fields == methodToConcreteType[m].fields
                   info   == methodToInfo[m]
               IN  /\ \A i \in 1..info.maxParams : IsOptional(fields[i]) <=> i > info.numReqParams
                   /\ DOMAIN info.defaults \subseteq (info.numReqParams + 1)..info.maxParams
    <3> DEFINE rt == methodToConcreteType[m]
    <3>1. rt \in StructForms /\ TypeError(rt) = "ok" /\ IsInfoOf(methodToInfo[m], rt)
      BY RegistryAssumption DEF RegistryInv, MapsInv
    <3> HIDE DEF rt
    <3>2. PICK flags \in Flags : /\ methodToInfo[m].maxParams = InfoOf(rt, flags).maxParams
                                /\ methodToInfo[m].numReqParams = InfoOf(rt, flags).numReqParams
                                /\ methodToInfo[m].defaults = InfoOf(rt, flags).defaults
      BY <3>1, InfoParts
    <3> QED BY <3>1, <3>2, RequiredFirst DEF rt
  <2> QED BY <2>1 DEF RegistryInv, MapsInv, RegistryConsistent
<1> QED BY <1>1, RegistryInvHolds, PTL

(* All that happens to an entry is that it gets its usage text. *)
LEMMA EntriesKept ==
  ASSUME RegistryInv, [RegistryNext]_registryVars, NEW m \in Registered
  PROVE  /\ m \in Registered' /\ methodToConcreteType'[m] = methodToConcreteType[m]
         /\ \/ methodToInfo'[m] = methodToInfo[m]
            \/ methodToInfo'[m] = [methodToInfo[m] EXCEPT !.usage = "text"]
<1>1. ASSUME NEW k \in MethodNames, NEW rt \in declared, NEW flags \in Flags,
             RegisterCmd(k, rt, flags)
      PROVE  /\ m \in Registered' /\ methodToConcreteType'[m] = methodToConcreteType[m]
             /\ methodToInfo'[m] = methodToInfo[m]
  BY <1>1, Registers DEF RegistryInv
<1>2. CASE UsageStore
  <2>1. Registered' = Registered /\ methodToConcreteType' = methodToConcreteType
    BY <1>2 DEF UsageStore, Registered
  <2> QED BY <1>2, <2>1, UsageStores
<1>3. CASE UNCHANGED maps
  BY <1>3 DEF maps, Registered
<1>4. ASSUME \/ \E k \in MethodNames : UsageLookUp(k) \/ NewCmd(k) \/ PeerRequest(k)
             \/ MarshalCmd \/ UnmarshalCmd \/ \E rt \in declared : Compose(rt)
             \/ UNCHANGED registryVars
      PROVE  UNCHANGED maps
  BY <1>4 DEF UsageLookUp, NewCmd, PeerRequest, MarshalCmd, UnmarshalCmd, UnmarshalLookUp,
              UnmarshalFields, Compose, registryVars
<1> QED BY <1>1, <1>2, <1>3, <1>4 DEF RegistryNext

LEMMA EntryParts ==
  ASSUME RegistryInv, [RegistryNext]_registryVars, NEW m \in Registered
  PROVE  \A part \in {"maxParams", "numReqParams", "defaults", "flags"} :
           methodToInfo'[m][part] = methodToInfo[m][part]
<1>1. PICK flags \in Flags :
        \/ methodToInfo[m] = InfoOf(methodToConcreteType[m], flags)
        \/ methodToInfo[m] = [InfoOf(methodToConcreteType[m], flags) EXCEPT !.usage = "text"]
  BY DEF RegistryInv, MapsInv, IsInfoOf
<1>2. \A part \in {"maxParams", "numReqParams", "defaults", "flags"} :
        [methodToInfo[m] EXCEPT !.usage = "text"][part] = methodToInfo[m][part]
  BY <1>1 DEF InfoOf
<1> QED BY <1>2, EntriesKept

(* A registered method keeps its type, parameters, defaults and flags whatever RegisterCmd,
   MethodUsageText and the decoding of commands do, in any order (register.go,
   cmdinfo.go). *)
THEOREM EntriesStay == RegistrySpec => EntriesAreFinal
<1>1. RegistryInv /\ [RegistryNext]_registryVars
        => [\A m \in Registered : m \in Registered' /\ SameMethod(m)]_registryVars
  <2> SUFFICES ASSUME RegistryInv, [RegistryNext]_registryVars, NEW m \in Registered
               PROVE  m \in Registered' /\ SameMethod(m)
    OBVIOUS
  <2> QED BY EntriesKept, EntryParts DEF SameMethod
<1> QED BY <1>1, RegistryInvHolds, PTL DEF RegistrySpec, EntriesAreFinal

-----------------------------------------------------------------------------
(* makeParams keeps what comes before the first nil. *)
LEMMA ParamsBeforeNil ==
  ASSUME NEW S, NEW n \in Nat, NEW values \in [1..n -> S]
  PROVE  /\ MakeParams(values) \in Seq(S) /\ Len(MakeParams(values)) \in 0..n
         /\ \A i \in 1..Len(MakeParams(values)) :
              MakeParams(values)[i] = values[i] /\ values[i] # "nil"
         /\ Len(MakeParams(values)) < n => values[Len(MakeParams(values)) + 1] = "nil"
<1> DEFINE nils == {i \in 1..Len(values) : values[i] = "nil"}
<1>1. values \in Seq(S) /\ Len(values) = n
  OBVIOUS
<1>2. CASE nils = {}
  <2>1. MakeParams(values) = values
    BY <1>2 DEF MakeParams, SelectInSeq
  <2> QED BY <1>1, <1>2, <2>1
<1>3. CASE nils # {}
  <2>1. PICK first \in nils : first = Min(nils) /\ \A i \in nils : first <= i
    <3>1. nils \in SUBSET Nat
      BY <1>1
    <3> HIDE DEF nils
    <3> QED BY <1>3, <3>1, MinNat
  <2>2. MakeParams(values) = SubSeq(values, 1, first - 1)
    <3>1. first # 0
      BY <1>1, <2>1
    <3>2. SelectInSeq(values, LAMBDA value : value = "nil") = first
      BY <1>3, <2>1 DEF SelectInSeq
    <3> QED BY <3>1, <3>2 DEF MakeParams
  <2>3. first \in 1..n /\ values[first] = "nil"
    BY <1>1, <2>1
  <2>4. \A i \in 1..(first - 1) : i \in 1..n /\ values[i] # "nil"
    BY <1>1, <2>1, <2>3
  <2> HIDE DEF nils
  <2> QED BY <1>1, <2>2, <2>3, <2>4
<1> QED BY <1>2, <1>3

(* A command that is taken apart and decoded again has its values up to the first
   nil, and the defaults from there on. *)
LEMMA ThereAndBack ==
  ASSUME NEW rt \in StructForms, TypeError(rt) = "ok", NEW flags,
         NEW values \in Values(rt)
  PROVE  LET result == DecodeParams(rt, InfoOf(rt, flags), MakeParams(values))
         IN  /\ Len(result) = Len(rt.fields)
             /\ \A i \in 1..Len(rt.fields) :
                  result[i] = IF \A j \in 1..i : values[j] # "nil" THEN values[i]
                              ELSE IF rt.fields[i].tag = "good" THEN "default" ELSE "nil"
<1> DEFINE n == Len(rt.fields)
           info == InfoOf(rt, flags)
           params == MakeParams(values)
           result == DecodeParams(rt, info, params)
           S == {"nil", "zero", "given", "NaN"}
<1>1. n \in Nat /\ values \in [1..n -> S]
  BY DEF StructForms, Values
<1>2. \A i \in 1..n : values[i] = "nil" => IsOptional(rt.fields[i])
  BY DEF Values, FieldValues, Zero
<1>3. /\ Len(params) \in 0..n
      /\ \A i \in 1..Len(params) : params[i] = values[i] /\ values[i] # "nil"
      /\ Len(params) < n => values[Len(params) + 1] = "nil"
  <2> HIDE DEF n
  <2> QED BY <1>1, ParamsBeforeNil
<1>4. /\ info.maxParams = n
      /\ \A i \in 1..n : i \in DOMAIN info.defaults <=> rt.fields[i].tag = "good"
      /\ \A i \in DOMAIN info.defaults : info.defaults[i] = "default"
  BY RequiredFirst
<1>5. \A i, j \in 1..n : j < i /\ IsOptional(rt.fields[j]) => IsOptional(rt.fields[i])
  BY OptionalFieldsLast
<1> HIDE DEF params, info
<1>6. result = [i \in 1..n |->
                  IF i <= Len(params) THEN DecodeField(rt.fields[i], params[i])
                  ELSE Populated(rt, info, Len(params), i)]
  BY <1>4 DEF DecodeParams
<1> HIDE DEF n, result
<1>7. ASSUME NEW i \in 1..n
      PROVE  result[i] = IF \A j \in 1..i : values[j] # "nil" THEN values[i]
                         ELSE IF rt.fields[i].tag = "good" THEN "default" ELSE "nil"
  <2>1. CASE i <= Len(params)
    <3>1. i \in 1..Len(params) /\ \A j \in 1..i : j \in 1..Len(params)
      BY <1>1, <1>3, <2>1
    <3>2. params[i] = values[i] /\ params[i] # "null"
      BY <1>1, <1>3, <3>1
    <3>3. result[i] = values[i]
      BY <1>6, <2>1, <3>2 DEF DecodeField
    <3> QED BY <1>3, <3>1, <3>3
  <2>2. CASE i > Len(params)
    <3>1. PICK f \in 1..n : f = Len(params) + 1 /\ f <= i
      BY <1>1, <1>3, <2>2
    <3>2. f \in 1..i /\ values[f] = "nil" /\ IsOptional(rt.fields[f])
      BY <1>1, <1>2, <1>3, <2>2, <3>1
    <3>3. IsOptional(rt.fields[i])
      BY <1>1, <1>5, <3>1, <3>2
    <3>4. result[i] = Populated(rt, info, Len(params), i)
      BY <1>1, <1>3, <1>6, <2>2
    <3>5. result[i] = IF rt.fields[i].tag = "good" THEN "default" ELSE "nil"
      BY <1>4, <2>2, <3>3, <3>4 DEF Populated, Zero
    <3> QED BY <3>2, <3>5
  <2> QED BY <1>1, <1>3, <2>1, <2>2
<1>8. Len(result) = n
  <2>1. result \in [1..n -> {result[i] : i \in 1..n}]
    BY <1>6
  <2> QED BY <1>1, <2>1
<1> QED BY <1>7, <1>8 DEF n, result, params, info

-----------------------------------------------------------------------------
(* The steps of a command on its way. *)

LEMMA RegistryMovesOn ==
  ASSUME RegistryInv, PipelineInv, [RegistryNext]_registryVars, UNCHANGED pipeline
  PROVE  PipelineInv'
<1>1. declared' = declared
  BY DEF RegistryNext, RegisterCmd, UsageLookUp, UsageStore, NewCmd, PeerRequest, MarshalCmd,
         UnmarshalCmd, UnmarshalLookUp, UnmarshalFields, Compose, registryVars
<1>2. \A m \in Registered : m \in Registered' /\ methodToConcreteType'[m] = methodToConcreteType[m]
  BY EntriesKept
<1>3. (command # <<>> => command = <<command[1]>> /\ Sound(command[1]))'
  BY <1>1 DEF PipelineInv, pipeline, Sound
<1> QED BY <1>2, <1>3 DEF PipelineInv, pipeline, Params

LEMMA CommandMade ==
  ASSUME RegistryInv, PipelineInv, UNCHANGED declared, stage' = "composed",
         NEW rt \in declared, rt.ptrToStruct, NEW values \in Values(rt),
         command' = <<Composed(rt, values)>>
  PROVE  PipelineInv'
<1>1. command'[1].rt = rt /\ command'[1].values = values
  BY DEF Composed
<1>2. Sound(command[1])'
  BY <1>1 DEF Sound
<1> QED BY <1>2 DEF PipelineInv, Stages

LEMMA NewCmdMakes == ASSUME RegistryInv, PipelineInv, NEW m \in MethodNames, NewCmd(m) PROVE PipelineInv'
<1> DEFINE rt == methodToConcreteType[m]
<1>1. /\ m \in Registered /\ rt \in declared /\ rt \in StructForms /\ TypeError(rt) = "ok"
      /\ command = <<>> /\ UNCHANGED declared
  BY RegistryAssumption DEF NewCmd, RegistryInv, MapsInv, PipelineInv
<1>2. rt.ptrToStruct /\ Len(rt.fields) \in Nat
  BY <1>1, OptionalFieldsLast DEF StructForms
<1>3. CASE stage' = "failed" /\ UNCHANGED command
  BY <1>1, <1>3 DEF PipelineInv, Stages
<1>4. ASSUME NEW n \in 0..(Len(rt.fields) + 1), NumParamsOk(n, methodToInfo[m]),
             NEW values \in Values(rt), stage' = "composed",
             command' = <<Composed(rt, AssignArgs(rt, SubSeq(values, 1, n)))>>
      PROVE  PipelineInv'
  <2>1. methodToInfo[m].maxParams = Len(rt.fields)
    <3>1. IsInfoOf(methodToInfo[m], rt)
      BY <1>1 DEF RegistryInv, MapsInv
    <3>2. PICK flags \in Flags : methodToInfo[m].maxParams = InfoOf(rt, flags).maxParams
      BY <3>1, InfoParts
    <3> QED BY <3>2 DEF InfoOf
  <2> HIDE DEF rt
  <2>2. n \in 0..Len(rt.fields)
    BY <1>2, <1>4, <2>1 DEF NumParamsOk
  <2>3. /\ values \in [1..Len(rt.fields) -> {"nil", "zero", "given", "NaN"}]
        /\ \A i \in 1..Len(rt.fields) : values[i] \in FieldValues(rt.fields[i])
    BY DEF Values
  <2>4. Len(SubSeq(values, 1, n)) = n /\ \A i \in 1..n : SubSeq(values, 1, n)[i] = values[i]
    BY <1>2, <2>2, <2>3
  <2>5. AssignArgs(rt, SubSeq(values, 1, n))
          = [i \in 1..Len(rt.fields) |-> IF i <= n THEN values[i] ELSE Zero(rt.fields[i])]
    BY <1>2, <2>2, <2>4 DEF AssignArgs
  <2>6. AssignArgs(rt, SubSeq(values, 1, n)) \in Values(rt)
    BY <2>3, <2>5 DEF Values, FieldValues, Zero
  <2> QED BY <1>1, <1>2, <1>4, <2>6, CommandMade
<1> QED BY <1>3, <1>4 DEF NewCmd

LEMMA MarshalSends == ASSUME RegistryInv, PipelineInv, MarshalCmd PROVE PipelineInv'
<1>1. /\ stage = "composed" /\ UNCHANGED <<declared, command>> /\ Registered' = Registered
      /\ methodToConcreteType' = methodToConcreteType
  BY DEF MarshalCmd, maps, Registered
<1>2. /\ command # <<>> /\ command = <<command[1]>> /\ Sound(command[1])
      /\ Sound(command[1])'
  BY <1>1 DEF PipelineInv, Sound
<1>3. CASE stage' = "failed"
  BY <1>1, <1>2, <1>3 DEF PipelineInv, Stages
<1>4. CASE stage' # "failed"
  <2>1. /\ stage' = "sent" /\ command[1].rt \in DOMAIN concreteTypeToMethod
        /\ request' = <<[method |-> concreteTypeToMethod[command[1].rt], params |-> Params]>>
    BY <1>4 DEF MarshalCmd, Params
  <2>2. /\ concreteTypeToMethod[command[1].rt] \in Registered
        /\ methodToConcreteType[concreteTypeToMethod[command[1].rt]] = command[1].rt
        /\ TypeError(command[1].rt) = "ok"
    BY <2>1 DEF RegistryInv, MapsInv
  <2>3. Params' = Params
    BY <1>1 DEF Params
  <2> QED BY <1>1, <1>2, <2>1, <2>2, <2>3 DEF PipelineInv, Stages
<1> QED BY <1>3, <1>4

LEMMA LookedUpRight == ASSUME RegistryInv, PipelineInv, UnmarshalLookUp PROVE PipelineInv'
<1>1. /\ stage = "sent" /\ UNCHANGED <<declared, command, request>> /\ Params' = Params
      /\ Sound(command[1])' = Sound(command[1])
  BY DEF UnmarshalLookUp, Params, Sound
<1>2. CASE stage' = "failed" \/ command = <<>>
  <2>1. stage' \in {"decode", "failed"}
    BY DEF UnmarshalLookUp
  <2> QED BY <1>1, <1>2, <2>1 DEF PipelineInv, Stages
<1>3. CASE stage' # "failed" /\ command # <<>>
  <2>1. PICK m \in Registered : /\ methodToConcreteType[m] = command[1].rt
                               /\ request = <<[method |-> m, params |-> Params]>>
    BY <1>1, <1>3 DEF PipelineInv
  <2>2. /\ stage' = "decode"
        /\ lookedUp' = <<[rt |-> methodToConcreteType[m], info |-> methodToInfo[m]]>>
    BY <1>3, <2>1 DEF UnmarshalLookUp
  <2>3. /\ lookedUp'[1].rt = command[1].rt /\ IsInfoOf(lookedUp'[1].info, command[1].rt)
        /\ request[1].params = Params
    BY <2>1, <2>2 DEF RegistryInv, MapsInv
  <2> QED BY <1>1, <1>3, <2>2, <2>3 DEF PipelineInv, Stages
<1> QED BY <1>2, <1>3

LEMMA DecodedRight == ASSUME RegistryInv, PipelineInv, UnmarshalFields PROVE PipelineInv'
<1>1. /\ stage = "decode" /\ UNCHANGED <<declared, command, request>> /\ Params' = Params
      /\ Sound(command[1])' = Sound(command[1]) /\ stage' \in {"decoded", "failed"}
  BY DEF UnmarshalFields, DecodeResult, Params, Sound
<1>2. CASE stage' = "failed" \/ command = <<>>
  BY <1>1, <1>2 DEF PipelineInv, Stages
<1>3. CASE stage' = "decoded" /\ command # <<>>
  <2>1. /\ request[1].params = Params /\ lookedUp[1].rt = command[1].rt
        /\ IsInfoOf(lookedUp[1].info, command[1].rt)
    BY <1>1, <1>3 DEF PipelineInv
  <2>2. decoded' = <<DecodeParams(command[1].rt, lookedUp[1].info, Params)>>
    BY <1>3, <2>1 DEF UnmarshalFields, DecodeResult
  <2>3. PICK flags \in Flags :
          /\ lookedUp[1].info.maxParams = InfoOf(command[1].rt, flags).maxParams
          /\ lookedUp[1].info.defaults = InfoOf(command[1].rt, flags).defaults
    BY <2>1, InfoParts
  <2>4. DecodeParams(command[1].rt, lookedUp[1].info, Params)
          = DecodeParams(command[1].rt, InfoOf(command[1].rt, flags), Params)
    BY <2>3, Zenon DEF DecodeParams, Populated
  <2> QED BY <1>1, <1>3, <2>2, <2>4 DEF PipelineInv, Stages
<1> QED BY <1>1, <1>2, <1>3

LEMMA PipelineStep == RegistryInv /\ PipelineInv /\ [RegistryNext]_registryVars => PipelineInv'
<1> SUFFICES ASSUME RegistryInv, PipelineInv, [RegistryNext]_registryVars PROVE PipelineInv'
  OBVIOUS
<1>1. CASE UNCHANGED pipeline
  BY <1>1, RegistryMovesOn
<1>2. ASSUME \/ \E m \in MethodNames, rt \in declared, flags \in Flags : RegisterCmd(m, rt, flags)
             \/ \E m \in MethodNames : UsageLookUp(m)
             \/ UsageStore \/ UNCHANGED registryVars
      PROVE  UNCHANGED pipeline
  BY <1>2 DEF RegisterCmd, UsageLookUp, UsageStore, registryVars
<1>3. ASSUME NEW rt \in declared, Compose(rt) PROVE PipelineInv'
  <2>1. PICK values \in Values(rt) : command' = <<Composed(rt, values)>>
    BY <1>3 DEF Compose
  <2> QED BY <1>3, <2>1, CommandMade DEF Compose
<1>4. ASSUME NEW m \in MethodNames, PeerRequest(m) PROVE PipelineInv'
  <2>1. command = <<>> /\ command' = command /\ stage' = "sent"
    BY <1>4 DEF PeerRequest, PipelineInv
  <2> QED BY <2>1 DEF PipelineInv, Stages
<1> QED BY <1>1, <1>2, <1>3, <1>4, NewCmdMakes, MarshalSends, LookedUpRight, DecodedRight
        DEF RegistryNext, UnmarshalCmd

LEMMA PipelineInvariant == RegistrySpec => []PipelineInv
<1>1. RegistryInit => PipelineInv
  BY DEF RegistryInit, PipelineInv, Stages
<1> QED BY <1>1, PipelineStep, RegistryInvHolds, PTL DEF RegistrySpec

(* The maps and the command on its way are well formed. *)
THEOREM RegistryTypeCorrect == RegistrySpec => []RegistryTypeOK
<1>1. RegistryInv /\ PipelineInv => RegistryTypeOK
  <2> SUFFICES ASSUME MapsInv, UsageInv, PipelineInv PROVE RegistryTypeOK
    BY DEF RegistryInv
  <2>1. \A m \in Registered : methodToConcreteType[m] \in declared
    BY DEF MapsInv
  <2>2. \A rt \in DOMAIN concreteTypeToMethod : concreteTypeToMethod[rt] \in MethodNames
    BY DEF MapsInv
  <2>3. \A job \in usageJobs : job.method \in MethodNames
    BY DEF UsageInv, MapsInv
  <2> QED BY <2>1, <2>2, <2>3 DEF MapsInv, PipelineInv, Stages, RegistryTypeOK
<1> QED BY <1>1, RegistryInvHolds, PipelineInvariant, PTL

(* A command an application made arrives as it was up to its first nil, and with
   the defaults from there on, whatever types and methods are registered meanwhile
   (cmdparse.go: makeParams, checkNumParams, populateDefaults, NewCmd, UnmarshalCmd). *)
THEOREM CommandsArrive == RegistrySpec => []DecodedAsSent
<1>1. RegistryInv /\ PipelineInv => DecodedAsSent
  <2> SUFFICES ASSUME RegistryInv, PipelineInv, stage = "decoded", command # <<>>
               PROVE  /\ Len(decoded[1]) = Len(command[1].values)
                      /\ \A i \in DOMAIN command[1].values :
                           decoded[1][i] =
                             IF \A j \in 1..i : command[1].values[j] # "nil"
                             THEN command[1].values[i]
                             ELSE IF command[1].rt.fields[i].tag = "good"
                                  THEN "default" ELSE "nil"
    BY DEF DecodedAsSent
  <2>1. PICK rt \in StructForms : rt = command[1].rt
    BY RegistryAssumption DEF RegistryInv, MapsInv, PipelineInv, Sound
  <2>2. PICK values \in Values(rt) : values = command[1].values
    BY <2>1 DEF PipelineInv, Sound
  <2>3. PICK flags \in Flags :
          decoded[1] = DecodeParams(rt, InfoOf(rt, flags), MakeParams(values))
    BY <2>1, <2>2 DEF PipelineInv, Params
  <2>4. TypeError(rt) = "ok"
    BY <2>1 DEF PipelineInv
  <2>5. Len(values) = Len(rt.fields) /\ DOMAIN values = 1..Len(rt.fields)
    <3>1. /\ Len(rt.fields) \in Nat
          /\ values \in [1..Len(rt.fields) -> {"nil", "zero", "given", "NaN"}]
      BY DEF StructForms, Values
    <3> QED BY <3>1
  <2> DEFINE result == DecodeParams(rt, InfoOf(rt, flags), MakeParams(values))
  <2>6. /\ Len(result) = Len(rt.fields)
        /\ \A i \in 1..Len(rt.fields) :
             result[i] = IF \A j \in 1..i : values[j] # "nil" THEN values[i]
                         ELSE IF rt.fields[i].tag = "good" THEN "default" ELSE "nil"
    BY <2>4, ThereAndBack
  <2>7. decoded[1] = result
    BY <2>3
  <2> HIDE DEF result
  <2>8. /\ Len(decoded[1]) = Len(values)
        /\ \A i \in DOMAIN values :
             decoded[1][i] = IF \A j \in 1..i : values[j] # "nil" THEN values[i]
                             ELSE IF rt.fields[i].tag = "good" THEN "default" ELSE "nil"
    BY <2>5, <2>6, <2>7, Zenon
  <2> QED BY <2>1, <2>2, <2>8, Zenon
<1> QED BY <1>1, RegistryInvHolds, PipelineInvariant, PTL

-----------------------------------------------------------------------------
(* Powers of two.  Induction over the width is the least counterexample: it is not
   zero, and the width below is none. *)
LEMMA LeastCounterexample ==
  ASSUME NEW S \in SUBSET Nat, 0 \in S, \A w \in S : w + 1 \in S
  PROVE  S = Nat
<1>1. SUFFICES ASSUME Nat \ S # {} PROVE FALSE
  OBVIOUS
<1>2. PICK w \in Nat \ S : \A k \in Nat \ S : w <= k
  <2>1. Nat \ S \in SUBSET Nat
    OBVIOUS
  <2> QED BY <1>1, <2>1, MinNat
<1>3. w - 1 \in Nat /\ w - 1 \in S
  BY <1>2
<1> QED BY <1>2, <1>3

(* The powers up to the n-th. *)
Doubles(f, n) ==
  /\ f \in [0..n -> Nat] /\ f[0] = 1
  /\ \A w \in 0..(n - 1) : f[w + 1] = 2 * f[w]

LEMMA DoublesExist == \A n \in Nat : \E f : Doubles(f, n)
<1> DEFINE S == {n \in Nat : \E f : Doubles(f, n)}
<1>1. 0 \in S
  <2>1. Doubles([w \in 0..0 |-> 1], 0)
    BY DEF Doubles
  <2> QED BY <2>1
<1>2. ASSUME NEW n \in S PROVE n + 1 \in S
  <2>1. PICK f : Doubles(f, n)
    OBVIOUS
  <2> DEFINE g == [w \in 0..(n + 1) |-> IF w = n + 1 THEN 2 * f[n] ELSE f[w]]
  <2>2. Doubles(g, n + 1)
    <3>1. n \in Nat /\ \A w \in 0..n : f[w] \in Nat
      BY <2>1 DEF Doubles
    <3>2. g \in [0..(n + 1) -> Nat]
      BY <3>1
    <3>3. g[0] = 1
      BY <2>1, <3>1 DEF Doubles
    <3>4. ASSUME NEW w \in 0..n PROVE g[w + 1] = 2 * g[w]
      <4>1. CASE w = n
        BY <3>1, <4>1
      <4>2. CASE w # n
        <5>1. w \in 0..(n - 1) /\ w + 1 \in 0..(n + 1) /\ w + 1 # n + 1
          BY <3>1, <4>2
        <5>2. f[w + 1] = 2 * f[w]
          BY <2>1, <5>1 DEF Doubles
        <5> QED BY <3>1, <5>1, <5>2
      <4> QED BY <4>1, <4>2
    <3> HIDE DEF g
    <3>5. (n + 1) - 1 = n
      BY <3>1
    <3> QED BY <3>2, <3>3, <3>4, <3>5 DEF Doubles
  <2> QED BY <2>2
<1> HIDE DEF S
<1>3. S = Nat
  <2>1. S \in SUBSET Nat
    BY DEF S
  <2> QED BY <1>1, <1>2, <2>1, LeastCounterexample
<1> QED BY <1>3 DEF S

LEMMA DoublesAgree ==
  ASSUME NEW f, NEW g, NEW m \in Nat, NEW n \in Nat, Doubles(f, m), Doubles(g, n)
  PROVE  \A w \in Nat : w <= m /\ w <= n => f[w] = g[w]
<1> DEFINE S == {w \in Nat : w <= m /\ w <= n => f[w] = g[w]}
<1>1. 0 \in S
  BY DEF Doubles
<1>2. ASSUME NEW w \in S PROVE w + 1 \in S
  <2>1. CASE w + 1 <= m /\ w + 1 <= n
    <3>1. w \in 0..(m - 1) /\ w \in 0..(n - 1)
      BY <2>1
    <3>2. f[w + 1] = 2 * f[w] /\ g[w + 1] = 2 * g[w]
      BY <3>1 DEF Doubles
    <3> QED BY <2>1, <3>2
  <2> QED BY <2>1
<1> HIDE DEF S
<1>3. S = Nat
  <2>1. S \in SUBSET Nat
    BY DEF S
  <2> QED BY <1>1, <1>2, <2>1, LeastCounterexample
<1> QED BY <1>3 DEF S

(* TwoTo, which is chosen, is what its definition says. *)
LEMMA TwoToDef == TwoTo = [w \in Nat |-> IF w = 0 THEN 1 ELSE 2 * TwoTo[w - 1]]
<1> DEFINE upTo(n) == CHOOSE f : Doubles(f, n)
           powers == [n \in Nat |-> upTo(n)[n]]
<1>1. ASSUME NEW n \in Nat PROVE Doubles(upTo(n), n)
  BY DoublesExist
<1>2. ASSUME NEW n \in Nat PROVE powers[n] = IF n = 0 THEN 1 ELSE 2 * powers[n - 1]
  <2>1. CASE n = 0
    BY <1>1, <2>1 DEF Doubles
  <2>2. CASE n # 0
    <3>1. n - 1 \in Nat /\ (n - 1) + 1 = n /\ n - 1 \in 0..(n - 1)
      BY <2>2
    <3>2. Doubles(upTo(n), n) /\ Doubles(upTo(n - 1), n - 1)
      BY <1>1, <3>1
    <3> HIDE DEF upTo
    <3>3. upTo(n)[n] = 2 * upTo(n)[n - 1]
      <4>1. upTo(n)[(n - 1) + 1] = 2 * upTo(n)[n - 1]
        BY <3>1, <3>2 DEF Doubles
      <4> QED BY <3>1, <4>1
    <3>4. upTo(n)[n - 1] = upTo(n - 1)[n - 1]
      BY <3>1, <3>2, DoublesAgree
    <3> QED BY <2>2, <3>1, <3>3, <3>4
  <2> QED BY <2>1, <2>2
<1> HIDE DEF powers
<1>3. powers = [w \in Nat |-> IF w = 0 THEN 1 ELSE 2 * powers[w - 1]]
  <2>1. powers = [w \in Nat |-> powers[w]]
    BY DEF powers
  <2> QED BY <1>2, <2>1, Zenon
<1> QED BY <1>3, Zenon DEF TwoTo

LEMMA TwoToSteps == TwoTo[0] = 1 /\ \A w \in Nat : TwoTo[w + 1] = 2 * TwoTo[w]
<1>1. \A w \in Nat : TwoTo[w] = IF w = 0 THEN 1 ELSE 2 * TwoTo[w - 1]
  BY TwoToDef
<1> HIDE DEF TwoTo
<1> QED BY <1>1

LEMMA TwoToPositive == \A w \in Nat : TwoTo[w] \in Nat \ {0}
<1> DEFINE S == {w \in Nat : TwoTo[w] \in Nat \ {0}}
<1>1. 0 \in S /\ \A w \in S : w + 1 \in S
  BY TwoToSteps
<1> HIDE DEF S
<1>2. S = Nat
  <2>1. S \in SUBSET Nat
    BY DEF S
  <2> QED BY <1>1, <2>1, LeastCounterexample
<1> QED BY <1>2 DEF S

LEMMA TwoToMonotone == \A v, w \in Nat : v <= w => TwoTo[v] <= TwoTo[w]
<1> SUFFICES ASSUME NEW v \in Nat PROVE \A w \in Nat : v <= w => TwoTo[v] <= TwoTo[w]
  OBVIOUS
<1> DEFINE S == {w \in Nat : v <= w => TwoTo[v] <= TwoTo[w]}
<1>1. 0 \in S
  BY TwoToPositive
<1>2. ASSUME NEW w \in S PROVE w + 1 \in S
  <2>1. TwoTo[w] \in Nat /\ TwoTo[w + 1] = 2 * TwoTo[w] /\ TwoTo[v] \in Nat
    BY TwoToSteps, TwoToPositive
  <2> QED BY <2>1
<1> HIDE DEF S
<1>3. S = Nat
  <2>1. S \in SUBSET Nat
    BY DEF S
  <2> QED BY <1>1, <1>2, <2>1, LeastCounterexample
<1> QED BY <1>3 DEF S
-----------------------------------------------------------------------------
(* NewCmd's conversions. *)

LEMMA WidthsBounded ==
  /\ WordBits \in Nat \ {0} /\ WordBits \in Widths /\ IntBits \in Widths
  /\ \A bits \in Widths : bits \in Nat \ {0} /\ bits <= WordBits
<1>1. WordBits \in 1..WordBits /\ IntBits \in Widths /\ Widths \subseteq 1..WordBits
  BY ConversionsAssumption
<1>2. WordBits \in Nat \ {0}
  BY <1>1
<1> QED BY <1>1, <1>2, ConversionsAssumption

(* Every width's signed numbers are among the widest ones. *)
LEMMA SignedBounds ==
  ASSUME NEW bits \in Widths
  PROVE  /\ TwoTo[bits - 1] \in Nat \ {0} /\ TwoTo[bits] = 2 * TwoTo[bits - 1]
         /\ TwoTo[bits - 1] <= TwoTo[WordBits - 1]
<1>1. bits - 1 \in Nat /\ WordBits - 1 \in Nat /\ bits - 1 <= WordBits - 1
      /\ (bits - 1) + 1 = bits
  BY WidthsBounded
<1>2. TwoTo[bits - 1] \in Nat \ {0} /\ TwoTo[bits - 1] <= TwoTo[WordBits - 1]
  BY <1>1, TwoToPositive, TwoToMonotone
<1>3. TwoTo[(bits - 1) + 1] = 2 * TwoTo[bits - 1]
  BY <1>1, TwoToSteps
<1> QED BY <1>1, <1>2, <1>3

LEMMA SmallerThanModulus ==
  ASSUME NEW n \in Nat, NEW m \in Nat \ {0}, n < m
  PROVE  n % m = n
OBVIOUS

(* A signed number that is not negative is the same number unsigned. *)
LEMMA ToUnsignedKeeps ==
  ASSUME NEW bits \in Widths, NEW n \in MinSigned(bits)..MaxSigned(bits), n >= 0
  PROVE  ToUnsigned(n) = n
<1>1. TwoTo[bits - 1] \in Nat \ {0} /\ TwoTo[bits - 1] <= TwoTo[WordBits - 1]
  BY SignedBounds
<1>2. TwoTo[WordBits - 1] \in Nat \ {0} /\ TwoTo[WordBits] = 2 * TwoTo[WordBits - 1]
  BY WidthsBounded, SignedBounds
<1>3. n \in Nat /\ TwoTo[WordBits] \in Nat \ {0} /\ n < TwoTo[WordBits]
  BY <1>1, <1>2 DEF MinSigned, MaxSigned
<1> QED BY <1>3, SmallerThanModulus DEF ToUnsigned

LEMMA TypeFacts ==
  ASSUME NEW type \in Types
  PROVE  /\ type.class \in {"int", "uint", "float", "bool", "json", "string"}
         /\ type.class \in {"int", "uint"} => type.bits \in Widths
BY WidthsBounded DEF Types, Type

LEMMA ValueFacts ==
  ASSUME NEW type \in Types, NEW value \in ValuesOf(type), type.class # "string"
  PROVE  value.n \in RangeOf(type) /\ value.form = "number"
BY DEF ValuesOf, Numeral

(* What NewCmd documents, less where it falls short of it, as one value. *)
Expected(to, from, value) ==
  IF NullDocument(to, from, value) THEN Panic
  ELSE IF Convertible(to, from, value) /\ ~BeyondInt(to, from, value)
       THEN Assigned(value.n) ELSE WrongType

LEMMA FromIntRight ==
  ASSUME NEW to \in Types, NEW from \in Types, NEW value \in ValuesOf(from),
         to # from, from.class = "int", IsNumeric(to)
  PROVE  FromInt(to, value.n) = Expected(to, from, value)
<1> USE DEF Expected, BeyondInt, NullDocument, Convertible, IsInteger
<1>1. from.bits \in Widths /\ value.n \in MinSigned(from.bits)..MaxSigned(from.bits)
      /\ value.form = "number"
  BY TypeFacts, ValueFacts DEF RangeOf
<1>2. value.n \in Int
  BY <1>1
<1>3. CASE to.class = "int"
  BY <1>3 DEF FromInt, SetIfFits, Overflows
<1>4. CASE to.class = "uint"
  <2>1. RangeOf(to) = 0..MaxUnsigned(to.bits)
    BY <1>4 DEF RangeOf
  <2>2. CASE value.n < 0
    <3>1. value.n \notin RangeOf(to)
      BY <1>2, <2>1, <2>2
    <3> QED BY <1>4, <2>2, <3>1 DEF FromInt
  <2>3. CASE ~(value.n < 0)
    <3>1. ToUnsigned(value.n) = value.n
      BY <1>1, <1>2, <2>3, ToUnsignedKeeps
    <3>2. FromInt(to, value.n) = SetIfFits(to, value.n)
      BY <1>4, <2>3, <3>1 DEF FromInt
    <3> QED BY <1>4, <3>2 DEF SetIfFits, Overflows
  <2> QED BY <2>2, <2>3
<1>5. CASE to.class = "float"
  BY <1>5 DEF FromInt
<1> QED BY <1>3, <1>4, <1>5 DEF IsNumeric

LEMMA FromUintRight ==
  ASSUME NEW to \in Types, NEW from \in Types, NEW value \in ValuesOf(from),
         to # from, from.class = "uint", IsNumeric(to)
  PROVE  FromUint(to, value.n) = Expected(to, from, value)
<1> USE DEF Expected, BeyondInt, NullDocument, Convertible, IsInteger
<1>1. from.bits \in Widths /\ value.n \in 0..MaxUnsigned(from.bits)
      /\ value.form = "number"
  BY TypeFacts, ValueFacts DEF RangeOf
<1>2. value.n \in Int
  BY <1>1
<1>3. CASE to.class = "uint"
  BY <1>3 DEF FromUint, SetIfFits, Overflows
<1>4. CASE to.class = "int"
  <2>1. RangeOf(to) = MinSigned(to.bits)..MaxSigned(to.bits) /\ to.bits \in Widths
    BY <1>4, TypeFacts DEF RangeOf
  <2>2. MaxSigned(to.bits) \in Int /\ MaxSigned(WordBits) \in Int
        /\ MaxSigned(to.bits) <= MaxSigned(WordBits)
    <3>1. TwoTo[to.bits - 1] \in Nat \ {0} /\ TwoTo[to.bits - 1] <= TwoTo[WordBits - 1]
      BY <2>1, SignedBounds
    <3>2. TwoTo[WordBits - 1] \in Nat \ {0}
      BY WidthsBounded, SignedBounds
    <3> QED BY <3>1, <3>2 DEF MaxSigned
  <2>3. CASE value.n > MaxSigned(WordBits)
    <3>1. value.n \notin RangeOf(to)
      BY <1>2, <2>1, <2>2, <2>3
    <3> QED BY <1>4, <2>3, <3>1 DEF FromUint
  <2>4. CASE ~(value.n > MaxSigned(WordBits))
    BY <1>4, <2>4
       DEF FromUint, ToSigned, SetIfFits, Overflows
  <2> QED BY <2>3, <2>4
<1>5. CASE to.class = "float"
  BY <1>5 DEF FromUint
<1> QED BY <1>3, <1>4, <1>5 DEF IsNumeric

LEMMA FromFloatRight ==
  ASSUME NEW to \in Types, NEW from \in Types, NEW value \in ValuesOf(from),
         to # from, from.class = "float", IsNumeric(to)
  PROVE  FromFloat(to, value.n) = Expected(to, from, value)
<1> USE DEF Expected, BeyondInt, NullDocument, Convertible, IsInteger
<1>1. to.class \in {"int", "uint", "float"}
  BY DEF IsNumeric
<1>2. CASE to.class = "float"
  BY <1>2 DEF FromFloat, SetIfFits, Overflows
<1>3. CASE to.class # "float"
  BY <1>1, <1>3 DEF FromFloat
<1> QED BY <1>2, <1>3

LEMMA FromStringRight ==
  ASSUME NEW to \in Types, NEW from \in Types, NEW value \in ValuesOf(from),
         to # from, from.class = "string"
  PROVE  FromString(to, value) = Expected(to, from, value)
<1> USE DEF Expected, BeyondInt, NullDocument, Convertible, IsInteger, IsNumeric
<1>1. CASE to.class \in {"int", "uint"}
  BY <1>1 DEF FromString, ParsesAs, SetIfFits, Overflows
<1>2. CASE to.class = "float"
  BY <1>2 DEF FromString, SetIfFits, Overflows
<1>3. CASE to.class = "bool"
  <2>1. value \in {Numeral(0), Numeral(1)} <=> value.form = "number" /\ value.n \in {0, 1}
    BY DEF ValuesOf, Numeral, Text
  <2> QED BY <1>3, <2>1 DEF FromString
<1>4. CASE to.class = "string"
  BY <1>4 DEF FromString
<1>5. CASE to.class = "json"
  BY <1>5 DEF FromString
<1> QED BY <1>1, <1>2, <1>3, <1>4, <1>5, TypeFacts

(* Types that are not compatible convert nothing. *)
LEMMA IncompatibleRefused ==
  ASSUME NEW to \in Types, NEW from \in Types, NEW value \in ValuesOf(from),
         ~TypesMaybeCompatible(to, from)
  PROVE  Expected(to, from, value) = WrongType
<1>1. CASE from.class = "string"
  BY <1>1, TypeFacts DEF TypesMaybeCompatible
<1>2. CASE from.class # "string"
  <2>1. value.form = "number"
    BY <1>2, ValueFacts
  <2>2. ~Convertible(to, from, value)
    BY <1>2, TypeFacts DEF TypesMaybeCompatible, Convertible, IsInteger, IsNumeric
  <2> QED BY <1>2, <2>2 DEF Expected, NullDocument
<1> QED BY <1>1, <1>2

LEMMA ConvertedRight ==
  ASSUME NEW to \in Types, NEW from \in Types, NEW value \in ValuesOf(from),
         to # from, TypesMaybeCompatible(to, from)
  PROVE  Converted(to, from, value) = Expected(to, from, value)
<1>1. from.class = "string" \/ (IsNumeric(to) /\ from.class \in {"int", "uint", "float"})
  BY DEF TypesMaybeCompatible, IsNumeric
<1>2. CASE from.class = "string"
  BY <1>2, FromStringRight DEF Converted
<1>3. CASE IsNumeric(to) /\ from.class = "int"
  BY <1>3, FromIntRight DEF Converted
<1>4. CASE IsNumeric(to) /\ from.class = "uint"
  BY <1>4, FromUintRight DEF Converted
<1>5. CASE IsNumeric(to) /\ from.class = "float"
  BY <1>5, FromFloatRight DEF Converted
<1> QED BY <1>1, <1>2, <1>3, <1>4, <1>5

(* The argument fits its type and the outcome is the one it has. *)
ConversionsInv ==
  /\ arg.type \in Types /\ arg.value \in ValuesOf(arg.type) /\ dest.type \in Types
  /\ outcome = Ended("pending") \/ outcome = AssignResult

LEMMA ConversionsInvInit == ConversionsInit => ConversionsInv
BY DEF ConversionsInit, ConversionsInv

LEMMA ConversionsInvNext ==
  ConversionsInv /\ [AssignField]_conversionVars => ConversionsInv'
<1> SUFFICES ASSUME ConversionsInv, [AssignField]_conversionVars PROVE ConversionsInv'
  OBVIOUS
<1>1. arg' = arg /\ dest' = dest
  BY DEF AssignField, conversionVars
<1>2. AssignResult' = AssignResult
  BY <1>1, Zenon DEF AssignResult, SetDirectly
<1>3. outcome' = outcome \/ outcome' = AssignResult
  BY DEF AssignField, conversionVars
<1> QED BY <1>1, <1>2, <1>3, Zenon DEF ConversionsInv

LEMMA ConversionsInvImplies == ConversionsInv => ConversionsPreserveValue
<1> SUFFICES ASSUME ConversionsInv, outcome.ended # "pending", ~arg.isNil
    PROVE  outcome = Expected(dest.type, arg.type, arg.value)
  BY DEF ConversionsPreserveValue, Finished, Expected, Assigned, WrongType, Panic, Ended,
         Convertible, NullDocument, IsInteger, IsNumeric
<1>1. outcome = AssignResult
  BY DEF ConversionsInv, Ended
<1>2. CASE ~TypesMaybeCompatible(dest.type, arg.type)
  BY <1>1, <1>2, IncompatibleRefused DEF AssignResult, ConversionsInv
<1>3. CASE TypesMaybeCompatible(dest.type, arg.type) /\ dest.type = arg.type
  BY <1>1, <1>3 DEF AssignResult, SetDirectly, Expected, BeyondInt, NullDocument, Convertible,
     IsInteger
<1>4. CASE TypesMaybeCompatible(dest.type, arg.type) /\ dest.type # arg.type
  BY <1>1, <1>4, ConvertedRight DEF AssignResult, ConversionsInv
<1> QED BY <1>2, <1>3, <1>4

(* Whatever the widths of the types, assignField assigns only what NewCmd documents,
   with the argument's own value, and everything it documents but for the numerals
   of integers wider than int, which it refuses, and the JSON null, which panics. *)
THEOREM ConversionsRight == ConversionsSpec => []ConversionsPreserveValue
<1>1. ConversionsSpec => []ConversionsInv
  BY ConversionsInvInit, ConversionsInvNext, PTL DEF ConversionsSpec
<1> QED BY <1>1, ConversionsInvImplies, PTL
=============================================================================
