SPECIFICATION FairSpec
CONSTANTS
  c1 = c1
  x1 = x1
  Req = {r1, r2}
  NoReq = NoReq
  Asks <- ReadAsks
  Attr = {c1, x1}
  NoAttr = NoAttr
  Refuses = {}
  MayFail = {}
  MaxLate = 2
PROPERTIES DescriptorReadReturns
CHECK_DEADLOCK FALSE
