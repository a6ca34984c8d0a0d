SPECIFICATION FairSpec
CONSTANTS
  d1 = d1
  s1 = s1
  s2 = s2
  s3 = s3
  c1 = c1
  c2 = c2
  x1 = x1
  Device = {d1}
  Service = {s1, s2, s3}
  Char = {c1, c2}
  Desc = {x1}
  Req = {r1, r2}
  NoReq = NoReq
  NoAttr = NoAttr
  ServicesOf <- EarlyServices
  Includes <- EarlyIncludes
  CharsOf <- EarlyChars
  DescsOf <- EarlyDescs
  ServiceOf <- EarlyServiceOf
  CharOf <- GattCharOf
  Asks <- AllAsks
  NoResponse = {c1}
  MayFail = {"services", "descs", "unsubscribe", "write"}
  Notifies = FALSE
  Scans = {"StartScanning"}
INVARIANTS NoQuietDeadlock
PROPERTIES ConnectedMeansDiscovered EventuallySettled
CHECK_DEADLOCK FALSE
