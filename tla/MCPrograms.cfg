SPECIFICATION ProgramsSpec
CONSTANTS
  one = one  two = two  three = three  four = four
  ba = ba  bb = bb  bc = bc  bd = bd
  None = None
  Identities = {one, two, three, four}
  IdentityOf <- MCIdentityOf
  Sources = {}
  Positions = {}
  MaxRecords = 4
  QueriesFail = FALSE
  Inputs <- UpToThree
  MaxFrame = 2
  Capacity = 1
  MaxDepth = 2
  MaxLength = 7
  Messages <- Mixed
  Limit = 5
  MaxKills = 1
INVARIANT ExportIsExact
INVARIANT NestingIsFound
PROPERTY CommandsAreAnswered
PROPERTY FramesAreKept
PROPERTY ProgramsEnd
CHECK_DEADLOCK FALSE
