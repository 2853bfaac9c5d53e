SPECIFICATION FairSpec
CONSTANTS
  t1 = t1
  t2 = t2
  t3 = t3
  plain = plain
  other = other
  wide = wide
  bad = bad
  cyclic = cyclic
  crash = crash
  None = None
  Recorders = {t1, t2}
  Drainers = {t1, t2}
  Controllers = {t2}
  Slots = 1
  MaxRecord = 2
  U64Max = 2
  ProbeRange = 1
  Payloads = {plain, wide, bad, cyclic, crash}
  Size <- MCSize
  Malformed = {bad}
  Unserializable = {cyclic}
  Panicking = {crash}
INVARIANTS
  OnlyPanicsPoison
PROPERTIES
  CallsReturn
