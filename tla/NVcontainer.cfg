CONSTANTS
  Hdr = 3
  Page = 7
  MaxSize = 14
  Requests = {8, 9, 56}
  Data = {1}
SPECIFICATION FairSpec
VIEW LiveView
INVARIANTS
  TypeOK
  FreeListOrdered
  Tiled
  Coalesced
  AssertionsHold
  BytesFreeExact
PROPERTIES
  FirstFit
  UserWordsKept
  Terminates
  ImplementsBlockStore
