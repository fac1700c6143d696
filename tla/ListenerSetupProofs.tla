------------------------- MODULE ListenerSetupProofs -------------------------
(***************************************************************************)
(* Proofs about ListenerSetup for any addresses and any number of starts   *)
(* and crashes: what an operator has put in place stays, and a key that a  *)
(* start has generated has its certificate beside it.                      *)
(***************************************************************************)
EXTENDS ListenerSetup, TLAPS

(* A pair that is generated bears the number of a start, so there has been one. *)
SetupTypeInv == SetupTypeOK /\ (setupPc # "begin" => starts # 0)

LEMMA SetupTypeInit == SetupInit => SetupTypeInv
<1> SUFFICES ASSUME SetupInit PROVE SetupTypeInv
  OBVIOUS
<1>1. /\ setupPc = "begin" /\ starts = 0 /\ disableTLS \in BOOLEAN
      /\ {certFile, keyFile} \subseteq Contents
  BY DEF SetupInit, Contents
<1>2. ToSet(configured) \subseteq Addresses
  <2>1. PICK m \in 0..2 : configured \in [1..m -> Addresses]
    BY DEF SetupInit, BoundedSeq, SeqOf
  <2> QED BY <2>1 DEF ToSet
<1> QED BY <1>1, <1>2, ListenerAssumption DEF SetupTypeInv, SetupTypeOK

LEMMA SetupTypeNext == SetupTypeInv /\ [SetupNext]_setupVars => SetupTypeInv'
<1> SUFFICES ASSUME SetupTypeInv, [SetupNext]_setupVars PROVE SetupTypeInv'
  OBVIOUS
<1> USE DEF SetupTypeInv, SetupTypeOK, fileVars
<1>1. CASE Begin
  BY <1>1, ListenerAssumption DEF Begin
<1>2. CASE CheckFiles
  BY <1>2 DEF CheckFiles
<1>3. CASE WriteCert \/ WriteKey
  <2>1. Generated \in Contents /\ Torn \in Contents
    BY <1>3, ListenerAssumption DEF WriteCert, WriteKey, Generated, Contents
  <2> QED BY <1>3, <2>1 DEF WriteCert, WriteKey
<1>4. CASE UnlinkCert
  BY <1>4 DEF UnlinkCert, Contents
<1>5. CASE LoadPair \/ ParseListeners \/ Listen \/ ListenDone
  BY <1>5 DEF LoadPair, ParseListeners, Listen, ListenDone
<1>6. CASE Crash
  BY <1>6 DEF Crash, Contents
<1>7. CASE UNCHANGED setupVars
  BY <1>7 DEF setupVars
<1> QED BY <1>1, <1>2, <1>3, <1>4, <1>5, <1>6, <1>7 DEF SetupNext, SetupStep

(* The state of the setup is well formed, whatever fails and wherever it crashes. *)
THEOREM SetupTypeCorrect == SetupSpec => []SetupTypeOK
<1>1. SetupTypeInv => SetupTypeOK
  BY DEF SetupTypeInv
<1> QED BY <1>1, SetupTypeInit, SetupTypeNext, PTL DEF SetupSpec

-----------------------------------------------------------------------------
(* What a start that generates a pair knows of the two files from its check of
   them until it is done: nobody else touches them. *)
GenerationInv ==
  /\ setupPc = "cert" => certFile = Missing /\ keyFile = Missing
  /\ setupPc = "key" => certFile = Generated /\ keyFile = Missing
  /\ setupPc = "unlink" => certFile = Generated /\ keyFile \in {Missing, Torn}

(* The contents of a file are told apart. *)
LEMMA ContentsDiffer ==
  Missing # Torn /\ Missing # Generated /\ Torn # Generated
  BY DEF Missing, Torn, Generated

LEMMA GenerationInit == SetupInit => GenerationInv
  BY DEF SetupInit, GenerationInv

LEMMA GenerationNext == GenerationInv /\ [SetupNext]_setupVars => GenerationInv'
<1> SUFFICES ASSUME GenerationInv, [SetupNext]_setupVars PROVE GenerationInv'
  OBVIOUS
<1> USE DEF GenerationInv, fileVars
<1>1. CASE Begin
  BY <1>1 DEF Begin
<1>2. CASE CheckFiles
  <2>1. UNCHANGED fileVars /\ (setupPc' = "cert" => certFile = Missing /\ keyFile = Missing)
    BY <1>2 DEF CheckFiles, MustGenerate, FileExists
  <2>2. setupPc' \in {"cert", "load"}
    BY <1>2 DEF CheckFiles
  <2> QED BY <2>1, <2>2 DEF Missing
<1>3. CASE WriteCert
  <2>1. Generated' = Generated /\ Missing' = Missing
    BY <1>3 DEF WriteCert, Generated, Missing
  <2> QED BY <1>3, <2>1 DEF WriteCert, Missing
<1>4. CASE WriteKey
  <2>1. Generated' = Generated
    BY <1>4 DEF WriteKey, Generated
  <2> QED BY <1>4, <2>1 DEF WriteKey, Missing, Torn
<1>5. CASE UnlinkCert
  BY <1>5 DEF UnlinkCert
<1>6. CASE LoadPair
  BY <1>6 DEF LoadPair
<1>7. CASE ParseListeners
  BY <1>7 DEF ParseListeners
<1>8. CASE Listen
  BY <1>8 DEF Listen
<1>9. CASE ListenDone
  BY <1>9 DEF ListenDone
<1>10. CASE Crash
  BY <1>10 DEF Crash
<1>11. CASE UNCHANGED setupVars
  BY <1>11 DEF setupVars, Generated, Missing, Torn
<1> QED BY <1>1, <1>2, <1>3, <1>4, <1>5, <1>6, <1>7, <1>8, <1>9, <1>10, <1>11
        DEF SetupNext, SetupStep

LEMMA GenerationInvariant == SetupSpec => []GenerationInv
  BY GenerationInit, GenerationNext, PTL DEF SetupSpec

-----------------------------------------------------------------------------
(* Only the steps of a generation and a crash in one of them write to a file. *)
LEMMA FilesUntouched ==
  ASSUME [SetupNext]_setupVars, ~WriteCert, ~WriteKey, ~UnlinkCert, ~Crash
  PROVE  UNCHANGED fileVars
  BY DEF SetupNext, SetupStep, Begin, CheckFiles, LoadPair, ParseListeners, Listen,
         ListenDone, setupVars, fileVars

KeepsFiles ==
  /\ keyFile # Missing => keyFile' = keyFile
  /\ certFile # Missing =>
       \/ certFile' = certFile
       \/ certFile = Generated /\ certFile' = Missing /\ keyFile \in {Missing, Torn}

LEMMA StepKeepsFiles == GenerationInv /\ [SetupNext]_setupVars => KeepsFiles
<1> SUFFICES ASSUME GenerationInv, [SetupNext]_setupVars PROVE KeepsFiles
  OBVIOUS
<1> USE DEF GenerationInv, KeepsFiles
<1>1. CASE WriteCert
  BY <1>1 DEF WriteCert
<1>2. CASE WriteKey
  BY <1>2 DEF WriteKey
<1>3. CASE UnlinkCert
  BY <1>3, ContentsDiffer DEF UnlinkCert
<1>4. CASE Crash
  BY <1>4 DEF Crash
<1>5. CASE UNCHANGED fileVars
  BY <1>5 DEF fileVars
<1> QED BY <1>1, <1>2, <1>3, <1>4, <1>5, FilesUntouched

(* However many starts there are, whatever fails and wherever they crash, no file
   that exists is written or removed, but for the certificate of the start that
   could not write its key. *)
THEOREM FilesStay == SetupSpec => FilesAreKept
<1>1. GenerationInv /\ [SetupNext]_setupVars => [KeepsFiles]_setupVars
  BY StepKeepsFiles
<1> QED BY <1>1, GenerationInvariant, PTL DEF SetupSpec, FilesAreKept, KeepsFiles

LEMMA PairInit == SetupInit => PairComplete
  BY DEF SetupInit, PairComplete, Missing, Operators

LEMMA PairNext == GenerationInv /\ PairComplete /\ [SetupNext]_setupVars => PairComplete'
<1> SUFFICES ASSUME GenerationInv, PairComplete, [SetupNext]_setupVars PROVE PairComplete'
  OBVIOUS
<1>1. CASE WriteCert
  BY <1>1 DEF WriteCert, GenerationInv, PairComplete, Missing
<1>2. CASE WriteKey
  BY <1>2 DEF WriteKey, GenerationInv, PairComplete, Missing, Torn
<1>3. CASE UnlinkCert
  BY <1>3 DEF UnlinkCert, GenerationInv, PairComplete, Missing, Torn
<1>4. CASE Crash
  BY <1>4 DEF Crash, GenerationInv, PairComplete, Missing, Torn
<1>5. CASE UNCHANGED fileVars
  BY <1>5 DEF fileVars, PairComplete
<1> QED BY <1>1, <1>2, <1>3, <1>4, <1>5, FilesUntouched

(* Whatever fails, and however often the server crashes and starts again, a
   generated key has its own certificate beside it (rpcserver.go, genCertPair;
   comm.go, setupRPCListeners). *)
THEOREM KeysHaveCertificates == SetupSpec => []PairComplete
<1>1. SetupSpec => [](GenerationInv /\ PairComplete)
  BY GenerationInit, GenerationNext, PairInit, PairNext, PTL DEF SetupSpec
<1> QED BY <1>1, PTL
=============================================================================
