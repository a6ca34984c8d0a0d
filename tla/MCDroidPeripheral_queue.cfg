SPECIFICATION FairSpec
CONSTANTS
  c1 = c1
  x1 = x1
  Req = {r1, r2, r3, r4}
  NoReq = NoReq
  Asks <- AllAsks
  Attr = {c1, x1}
  NoAttr = NoAttr
  Refuses = {"connect", "read"}
  MayFail = {"read", "discover", "notify"}
  MaxLate = 2
INVARIANTS CallInOnePlace OutstandingIsRunning ConnectedHasGatt StuckNeedsCause ToldTruth
PROPERTIES KeepsOrder CommandsEnd
CHECK_DEADLOCK FALSE
