SPECIFICATION SdkFairSpec
CONSTANTS
  a = a
  b = b
  worker = worker
  plain = plain
  other = other
  wide = wide
  bad = bad
  deep = deep
  None = None
  Callers = {a, b}
  Calls = {"record", "flush", "status", "close"}
  Worker = worker
  Slots = 1
  MaxRecord = 2
  U64Max = 2
  Payloads = {plain}
  Size <- MCSize
  Malformed = {}
  Deep = {}
  Replies <- MCOwnReplies
PROPERTIES
  CallsReturn
