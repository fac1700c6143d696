CONSTANTS
  h1 = h1
  h2 = h2
  Requests = {p1, p2, p3}
  SendPostCap = 1
  Items = {1, 2}
  MaxItems = 3
  Responses <- TwoResponses
  KnownCodes = {200, 401}
  OtherCodes = {299}
  Programs <- SmallPrograms
  MethodNames = {"m1", "m2"}
  Flags = {4, 8}
  WordBits = 4
  IntBits = 3
  Widths = {2, 3, 4}
  Addresses <- AllHosts
  MaxStarts = 3
SPECIFICATION PartsSpec
CHECK_DEADLOCK FALSE
INVARIANTS
  PostTypeOK
  AnsweredOnceUnlessRefused
  NothingOvertakes
  LineMatchesRequest
  EndpointsAgree
  OthersRunNothing
  RegistryConsistent
  DecodedAsSent
  ConversionsPreserveValue
  PairComplete
PROPERTIES
  ShutdownStopsHandler
  ImplementsFifo
  SendersNeverBlock
  ReaderIsServed
  EntriesAreFinal
  FilesAreKept
