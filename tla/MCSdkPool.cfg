SPECIFICATION SdkSpec
CONSTANTS
  a = a
  b = b
  worker = worker
  plain = plain
  other = other
  wide = wide
  bad = bad
  deep = deep
  None = None
  Callers = {a, b}
  Calls = {"record", "flush", "status", "close"}
  Worker = worker
  Slots = 2
  MaxRecord = 2
  U64Max = 3
  Payloads = {plain, wide, bad, deep}
  Size <- MCSize
  Malformed = {bad}
  Deep = {deep}
  Replies <- MCReplies
INVARIANTS
  ClientInOrder
  SdkFullIsExact
  NoLostWakeup
PROPERTIES
  FlushCoversEntry
  FrontierStepsByOne
