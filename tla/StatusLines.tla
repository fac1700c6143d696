---------------------------- MODULE StatusLines ----------------------------
(***************************************************************************)
(* httpStatusLine and writeHTTPResponseHeaders of rpcserver.go: a cache of *)
(* status lines that the handlers of all requests share.  It is looked up  *)
(* under a read lock and added to under a write lock taken later; a key is *)
(* the code, negated for HTTP/1.0.                                         *)
(***************************************************************************)
EXTENDS Integers

CONSTANTS
  Responses,   \* the responses being written
  KnownCodes,  \* the codes http.StatusText knows
  OtherCodes

ASSUME StatusAssumption == (KnownCodes \cup OtherCodes) \subseteq Nat \ {0}

VARIABLES
  statusLines, \* the cache
  code,        \* of each response
  proto11,     \* the responses to requests of HTTP/1.1
  linePc,      \* where each handler is
  line         \* what it has written: nothing, or a status line

statusVars == <<statusLines, code, proto11, linePc, line>>

NoLine == [proto |-> "", code |-> 0]
Lines  == [proto: {"HTTP/1.0", "HTTP/1.1"}, code: KnownCodes \cup OtherCodes]

StatusTypeOK ==
  /\ \A key \in DOMAIN statusLines : statusLines[key] \in Lines
  /\ linePc \in [Responses -> {"lookup", "store", "headers", "end", "done"}]
  /\ line \in [Responses -> Lines \cup {NoLine}]
-----------------------------------------------------------------------------
(* The mutant does not tell the two versions of the protocol apart. *)
KeyIgnoresProto(r) == code[r]
Key(r) == IF r \in proto11 THEN code[r] ELSE -code[r]

Line(r) == [proto |-> IF r \in proto11 THEN "HTTP/1.1" ELSE "HTTP/1.0", code |-> code[r]]

(* The line is written to the response, or the write fails and with it the
   response. *)
WriteLine(r, l) ==
  \/ /\ line' = [line EXCEPT ![r] = l]
     /\ linePc' = [linePc EXCEPT ![r] = "headers"]
  \/ /\ linePc' = [linePc EXCEPT ![r] = "done"]
     /\ UNCHANGED line

(* The fast path, under the read lock. *)
LookUpLine(r) ==
  /\ linePc[r] = "lookup"
  /\ IF Key(r) \in DOMAIN statusLines
     THEN WriteLine(r, statusLines[Key(r)])
     ELSE linePc' = [linePc EXCEPT ![r] = "store"] /\ UNCHANGED line
  /\ UNCHANGED <<statusLines, code, proto11>>

(* The slow path: the line of a code without a text is not kept. *)
StoreLine(r) ==
  /\ linePc[r] = "store"
  /\ statusLines' =
       IF code[r] \notin KnownCodes THEN statusLines
       ELSE [key \in DOMAIN statusLines \cup {Key(r)} |->
               IF key = Key(r) THEN Line(r) ELSE statusLines[key]]
  /\ WriteLine(r, Line(r))
  /\ UNCHANGED <<code, proto11>>

(* headers.Write, and the empty line. *)
WriteHeaders(r) ==
  /\ linePc[r] \in {"headers", "end"}
  /\ \E pc \in {IF linePc[r] = "headers" THEN "end" ELSE "done", "done"} :
       linePc' = [linePc EXCEPT ![r] = pc]
  /\ UNCHANGED <<statusLines, code, proto11, line>>

StatusInit ==
  /\ statusLines = <<>>
  /\ code \in [Responses -> KnownCodes \cup OtherCodes]
  /\ proto11 \in SUBSET Responses
  /\ linePc = [r \in Responses |-> "lookup"]
  /\ line = [r \in Responses |-> NoLine]

WriteResponse(r) == LookUpLine(r) \/ StoreLine(r) \/ WriteHeaders(r)
StatusNext == \E r \in Responses : WriteResponse(r)

StatusSpec == StatusInit /\ [][StatusNext]_statusVars

-----------------------------------------------------------------------------
(* Property. *)

(* Whatever the other handlers store meanwhile, a response begins with the line
   of its own code and of its own request's protocol. *)
LineMatchesRequest ==
  \A r \in Responses : line[r] # NoLine => line[r] = Line(r)
=============================================================================
