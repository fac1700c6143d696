--------------------------- MODULE ListenerSetup ---------------------------
(***************************************************************************)
(* How a server process comes to its listeners: setupRPCListeners and      *)
(* parseListeners (comm.go), genCertPair and the head of newRPCServer      *)
(* (rpcserver.go), over crashes and restarts of the process.  What         *)
(* outlives a process are the two files.                                   *)
(*                                                                         *)
(* A file holds nothing (it does not exist), a torn content (a write       *)
(* failed or was interrupted after the file was created), the operator's   *)
(* key or certificate, or those of a pair that a start generated.          *)
(***************************************************************************)
EXTENDS Naturals, Sequences, SequencesExt

CONSTANTS
  Addresses,  \* configured listen addresses: a host's kind by address
  MaxStarts   \* bound on the number of starts

Hosts == {"all", "ipv4", "ipv6", "none"}
ASSUME ListenerAssumption ==
  /\ MaxStarts \in Nat
  /\ \A address \in Addresses : address.host \in Hosts

VARIABLES
  setupPc,
  starts,      \* starts so far; the pair a start generates bears its number
  disableTLS,
  configured,  \* cfg.RPCListeners
  certFile, keyFile,
  netAddrs,    \* what parseListeners returned
  listeners    \* what is listened on

fileVars  == <<certFile, keyFile>>
setupVars == <<setupPc, starts, disableTLS, configured, fileVars, netAddrs, listeners>>

Missing     == [by |-> "nobody", n |-> 0]
Torn        == [by |-> "torn", n |-> 0]
Operators   == [by |-> "operator", n |-> 0]
Generated   == [by |-> "start", n |-> starts]
Contents    == {Missing, Torn, Operators} \cup [by: {"start"}, n: 1..MaxStarts]

SetupTypeOK ==
  /\ setupPc \in {"begin", "files", "cert", "key", "unlink", "load", "parse", "listen",
                  "serving", "failed"}
  /\ starts \in 0..MaxStarts
  /\ disableTLS \in BOOLEAN
  /\ ToSet(configured) \subseteq Addresses
  /\ {certFile, keyFile} \subseteq Contents
-----------------------------------------------------------------------------
(* What fileExists may report: os.Stat can fail, and every error but "not exist"
   counts as a file that is there. *)
FileExists(file) == IF file = Missing THEN BOOLEAN ELSE {TRUE}

(* newRPCServer calls setupRPCListeners. *)
Begin ==
  /\ setupPc = "begin"
  /\ starts < MaxStarts
  /\ starts' = starts + 1
  /\ setupPc' = IF disableTLS THEN "parse" ELSE "files"
  /\ netAddrs' = <<>> /\ listeners' = <<>>
  /\ UNCHANGED <<disableTLS, configured, fileVars>>

(* "Generate the TLS cert and key file if both don't already exist."  The mutant
   generates when one is missing. *)
MustGenerateEither(keyThere, certThere) == ~keyThere \/ ~certThere
MustGenerate(keyThere, certThere) == ~keyThere /\ ~certThere

CheckFiles ==
  /\ setupPc = "files"
  /\ \E keyThere \in FileExists(keyFile), certThere \in FileExists(certFile) :
       setupPc' = IF MustGenerate(keyThere, certThere) THEN "cert" ELSE "load"
  /\ UNCHANGED <<starts, disableTLS, configured, fileVars, netAddrs, listeners>>

(* genCertPair: the two writes.  One may fail before or after it has created the
   file; if the second does, the certificate is removed, unless that fails too.
   The mutant goes on when the first has failed. *)
WriteCertOrGoOn ==
  /\ setupPc = "cert"
  /\ certFile' \in {Generated, certFile, Torn}
  /\ setupPc' = "key"
  /\ UNCHANGED <<starts, disableTLS, configured, keyFile, netAddrs, listeners>>
WriteCert ==
  /\ setupPc = "cert"
  /\ \/ certFile' = Generated /\ setupPc' = "key"
     \/ certFile' \in {certFile, Torn} /\ setupPc' = "failed"
  /\ UNCHANGED <<starts, disableTLS, configured, keyFile, netAddrs, listeners>>

WriteKey ==
  /\ setupPc = "key"
  /\ \/ keyFile' = Generated /\ setupPc' = "load"
     \/ keyFile' \in {keyFile, Torn} /\ setupPc' = "unlink"
  /\ UNCHANGED <<starts, disableTLS, configured, certFile, netAddrs, listeners>>

UnlinkCert ==
  /\ setupPc = "unlink"
  /\ certFile' \in {Missing, certFile}
  /\ setupPc' = "failed"
  /\ UNCHANGED <<starts, disableTLS, configured, keyFile, netAddrs, listeners>>

(* tls.LoadX509KeyPair refuses what is no pair. *)
LoadPair ==
  /\ setupPc = "load"
  /\ setupPc' = IF certFile = keyFile /\ certFile \notin {Missing, Torn}
                THEN "parse" ELSE "failed"
  /\ UNCHANGED <<starts, disableTLS, configured, fileVars, netAddrs, listeners>>

(* parseListeners: an empty host stands for both families; the first address that
   is none is an error. *)
NetAddrs(address) ==
  LET on(net) == [net |-> net, name |-> address.name]
  IN  CASE address.host = "all"  -> <<on("tcp4"), on("tcp6")>>
        [] address.host = "ipv4" -> <<on("tcp4")>>
        [] address.host = "ipv6" -> <<on("tcp6")>>

ParseListeners ==
  /\ setupPc = "parse"
  /\ IF \E i \in DOMAIN configured : configured[i].host = "none"
     THEN setupPc' = "failed" /\ UNCHANGED netAddrs
     ELSE /\ netAddrs' = FlattenSeq([i \in DOMAIN configured |-> NetAddrs(configured[i])])
          /\ setupPc' = "listen"
  /\ UNCHANGED <<starts, disableTLS, configured, fileVars, listeners>>

(* listenFunc of the next address: one it cannot listen on, or listens on already,
   is skipped.  A server without listeners is an error. *)
Listen ==
  /\ setupPc = "listen"
  /\ netAddrs # <<>>
  /\ \E ok \in BOOLEAN :
       listeners' = IF ok /\ ~Contains(listeners, Head(netAddrs))
                    THEN Append(listeners, Head(netAddrs)) ELSE listeners
  /\ netAddrs' = Tail(netAddrs)
  /\ UNCHANGED <<setupPc, starts, disableTLS, configured, fileVars>>

ListenDone ==
  /\ setupPc = "listen"
  /\ netAddrs = <<>>
  /\ setupPc' = IF listeners = <<>> THEN "failed" ELSE "serving"
  /\ UNCHANGED <<starts, disableTLS, configured, fileVars, netAddrs, listeners>>

(* The process ends, or crashes in the middle of anything, a write included; it
   is started again. *)
Crash ==
  /\ setupPc # "begin"
  /\ certFile' \in {certFile} \cup (IF setupPc = "cert" THEN {Torn} ELSE {})
  /\ keyFile' \in {keyFile} \cup (IF setupPc = "key" THEN {Torn} ELSE {})
  /\ setupPc' = "begin"
  /\ netAddrs' = <<>> /\ listeners' = <<>>
  /\ UNCHANGED <<starts, disableTLS, configured>>

-----------------------------------------------------------------------------
SetupInit ==
  /\ setupPc = "begin"
  /\ starts = 0
  /\ disableTLS \in BOOLEAN
  /\ configured \in BoundedSeq(Addresses, 2)
  /\ certFile \in {Missing, Operators} /\ keyFile \in {Missing, Operators}
  /\ netAddrs = <<>> /\ listeners = <<>>

SetupStep ==
  \/ Begin \/ CheckFiles \/ WriteCert \/ WriteKey \/ UnlinkCert \/ LoadPair
  \/ ParseListeners \/ Listen \/ ListenDone
SetupNext == SetupStep \/ Crash

SetupSpec == SetupInit /\ [][SetupNext]_setupVars

-----------------------------------------------------------------------------
(* Properties. *)

(* What an operator has put in place is never overwritten or removed, by however
   many starts, whatever fails and wherever they crash; nor is the key of an
   earlier pair, nor its certificate unless that start failed to write the key. *)
FilesAreKept ==
  [][/\ keyFile # Missing => keyFile' = keyFile
     /\ certFile # Missing =>
          \/ certFile' = certFile
          \/ certFile = Generated /\ certFile' = Missing /\ keyFile \in {Missing, Torn}]_setupVars

(* A key that a start has generated never stands without its certificate: it is
   written last, and whatever fails or crashes after it, and however often the
   server starts again, the two stay together.  The reverse can happen: a
   certificate without a key, on which every later start fails. *)
PairComplete == keyFile.by = "start" => certFile = keyFile
=============================================================================
