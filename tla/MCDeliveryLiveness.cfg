SPECIFICATION DeliveryFairSpec
CONSTANTS
  a = a
  worker = worker
  plain = plain
  other = other
  None = None
  Callers = {a}
  Calls = {"record", "close"}
  Worker = worker
  Slots = 1
  MaxRecord = 2
  U64Max = 2
  Payloads = {plain}
  Size <- MCSize
  Malformed = {}
  Deep = {}
  Replies = {}
  MaxFaults = 2
PROPERTIES
  AcceptedIsConfirmed
