CONSTANTS
  Entries <- MCEntries
  Group <- MCGroup
  Carries <- MCCarries
  Knows <- MCKnows
  Retries = 1
  MaxFaults = 2
SPECIFICATION Spec
INVARIANTS RightGroup ActiveFromResponsible IdleCloseInvisible
PROPERTIES EndsAfterFaults
