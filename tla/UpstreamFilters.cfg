CONSTANTS
  Entries <- MCEntries
  Group <- MCGroup
  Carries <- MCCarries
  Knows <- MCKnows
  Retries = 1
  MaxFaults = 1
SPECIFICATION Spec
INVARIANT ActiveFromResponsible
