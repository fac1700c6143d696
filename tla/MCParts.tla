------------------------------ MODULE MCParts ------------------------------
(* The parts of the program that run by themselves, one at a time: in each
   behaviour one part moves and the others stay where they begin. *)
EXTENDS PostClient, QueueHandler, StatusLines, Endpoints, CmdRegistry, Conversions,
        ListenerSetup

CONSTANTS h1, h2

VARIABLE part

partsVars == <<part, postVars, queueVars, statusVars, endpointVars, registryVars,
               conversionVars, setupVars>>

TwoResponses == {h1, h2}

(* Every one-field type, every pair of fields of the forms RegisterCmd accepts
   somewhere, and longer types with optional fields. *)
Field(ptr, tag) == [ptr |-> ptr, kind |-> "plain", tag |-> tag,
                    anonymous |-> FALSE, exported |-> TRUE]
Struct(fields)  == [ptrToStruct |-> TRUE, fields |-> fields]
Fields == {Field(0, "none"), Field(0, "good"), Field(1, "none"), Field(1, "good"),
           Field(1, "mismatched"), Field(2, "none")}
ReqOptOpt == Struct(<<Field(0, "none"), Field(1, "none"), Field(1, "good")>>)
OptOptOpt == Struct(<<Field(1, "good"), Field(1, "none"), Field(1, "good")>>)
NoFields  == Struct(<<>>)
CommandTypes ==
  {Struct(<<field>>) : field \in FieldForms} \cup {Struct(<<f, g>>) : f, g \in Fields}
    \cup {ReqOptOpt, OptOptOpt, [ptrToStruct |-> FALSE, fields |-> <<>>]}
RefusedTypes == {rt \in CommandTypes : TypeError(rt) # "ok"}
SmallPrograms == {{NoFields, rt} : rt \in CommandTypes \ RefusedTypes} \cup {{NoFields} \cup RefusedTypes}

AllHosts == {[host |-> host, name |-> "x"] : host \in Hosts}

-----------------------------------------------------------------------------
(* An initial state for the parts that do not move. *)
StatusStill    == StatusInit /\ proto11 = {} /\ code = [r \in TwoResponses |-> 200]
EndpointsStill == /\ EndpointsInit /\ who = "limited"
                  /\ asked = [json |-> FALSE, id |-> "none", jsonrpc |-> FALSE,
                              method |-> "unknown", params |-> "wrong"]
RegistryStill  == RegistryInit /\ declared = {NoFields, OptOptOpt}
ConversionStill == /\ dest = [type |-> Type("bool", 0, FALSE), indirects |-> 0]
                   /\ arg = [type |-> dest.type, indirects |-> 0, isNil |-> FALSE,
                             nilAt |-> 0, value |-> Numeral(0)]
                   /\ outcome = Ended("pending")
SetupStill     == /\ disableTLS = TRUE /\ configured = <<>>
                  /\ SetupInit /\ certFile = Missing /\ keyFile = Missing

Chosen(name, init, still) == IF part = name THEN init ELSE still

PartsInit ==
  /\ part \in {"post", "queue", "status", "endpoints", "registry", "conversions", "setup"}
  /\ PostInit
  /\ QueueInit
  /\ Chosen("status", StatusInit, StatusStill)
  /\ Chosen("endpoints", EndpointsInit, EndpointsStill)
  /\ Chosen("registry", RegistryInit, RegistryStill)
  /\ Chosen("conversions", ConversionsInit, ConversionStill)
  /\ Chosen("setup", SetupInit, SetupStill)

PostMoves ==
  /\ part = "post" /\ PostNext
  /\ UNCHANGED <<part, queueVars, statusVars, endpointVars, registryVars, conversionVars,
                 setupVars>>
QueueMoves ==
  /\ part = "queue" /\ QueueNext
  /\ UNCHANGED <<part, postVars, statusVars, endpointVars, registryVars, conversionVars,
                 setupVars>>
StatusMoves ==
  /\ part = "status" /\ StatusNext
  /\ UNCHANGED <<part, postVars, queueVars, endpointVars, registryVars, conversionVars,
                 setupVars>>
EndpointsMove ==
  /\ part = "endpoints" /\ EndpointsNext
  /\ UNCHANGED <<part, postVars, queueVars, statusVars, registryVars, conversionVars,
                 setupVars>>
(* The two methods are alike: m1 is registered first. *)
RegistryMoves ==
  /\ part = "registry" /\ RegistryNext
  /\ "m2" \in Registered' => "m1" \in Registered'
  /\ UNCHANGED <<part, postVars, queueVars, statusVars, endpointVars, conversionVars,
                 setupVars>>
ConversionsMove ==
  /\ part = "conversions" /\ AssignField
  /\ UNCHANGED <<part, postVars, queueVars, statusVars, endpointVars, registryVars,
                 setupVars>>
SetupMoves ==
  /\ part = "setup" /\ SetupNext
  /\ UNCHANGED <<part, postVars, queueVars, statusVars, endpointVars, registryVars,
                 conversionVars>>

PartsNext ==
  \/ PostMoves \/ QueueMoves \/ StatusMoves \/ EndpointsMove \/ RegistryMoves
  \/ ConversionsMove \/ SetupMoves

(* Where it begins, nothing of a part that does not move is owed a step. *)
PartsSpec == PartsInit /\ [][PartsNext]_partsVars /\ PostFairness /\ QueueFairness
=============================================================================
