SPECIFICATION DaemonSpec
CONSTANTS
  pa = pa
  pb = pb
  pc = pc
  None = None
  Processes = {pa, pb}
  Storage <- MCOneStorage
  MaxTroubles = 4
  MaxFiles = 5
INVARIANT SocketIsOwned
INVARIANT StorageIsSafe
PROPERTY RequestsAreServed
PROPERTY LoopIsOrderly
PROPERTY LoopGoesOn
PROPERTY ComesUpAgain
CHECK_DEADLOCK FALSE
