SPECIFICATION Spec
CONSTANTS
  t1 = t1
  t2 = t2
  t3 = t3
  plain = plain
  other = other
  wide = wide
  bad = bad
  cyclic = cyclic
  crash = crash
  None = None
  Recorders = {t1, t2}
  Drainers = {t1}
  Controllers = {t2}
  Slots = 2
  MaxRecord = 2
  U64Max = 2
  ProbeRange = 2
  Payloads = {plain, other, crash}
  Size <- MCSize
  Malformed = {}
  Unserializable = {}
  Panicking = {crash}
INVARIANTS
  QueueInOrder
PROPERTIES
  FullIsExact
  ImplementsBoundedFifo
