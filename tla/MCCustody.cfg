SPECIFICATION CustodySpec
CONSTANTS
  p = p
  q = q
  one = one
  two = two
  three = three
  hello = hello
  world = world
  later = later
  last = last
  garbage = garbage
  None = None
  Identities = {one, two, three}
  IdentityOf <- MCIdentityOf
  Sources = {file, host}
  Positions = {1, 2, 3}
  Processes = {p, q}
  Undecodable = {garbage}
  Oversized <- MCOversized
  Capacity = 2
SYMMETRY MCProcesses
INVARIANTS
  RowsAreKept
  CheckpointsFollowRows
PROPERTIES
  ImplementsLedger
