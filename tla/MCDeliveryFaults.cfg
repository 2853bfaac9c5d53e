SPECIFICATION DeliverySpec
CONSTANTS
  a = a
  worker = worker
  plain = plain
  other = other
  None = None
  Callers = {a}
  Calls = {"record"}
  Worker = worker
  Slots = 1
  MaxRecord = 2
  U64Max = 2
  Payloads = {plain, other}
  Size <- MCSize
  Malformed = {}
  Deep = {}
  Replies = {}
  MaxFaults = 2
SYMMETRY MCSwaps
INVARIANTS
  DeliveryInOrder
PROPERTIES
  ImplementsDurableLog
