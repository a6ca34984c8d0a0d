SPECIFICATION Spec
CONSTANTS
  d1 = d1
  s1 = s1
  s2 = s2
  s3 = s3
  c1 = c1
  c2 = c2
  x1 = x1
  Device = {d1}
  Service = {s1, s2}
  Char = {c1}
  Desc = {x1}
  Req = {r1}
  NoReq = NoReq
  NoAttr = NoAttr
  ServicesOf <- ConnectServices
  Includes <- ConnectIncludes
  CharsOf <- ConnectChars
  DescsOf <- GattDescs
  ServiceOf <- GattServiceOf
  CharOf <- GattCharOf
  Asks <- ConnectAsks
  NoResponse = {c1}
  MayFail = {}
  Notifies = FALSE
  Scans = {"StartScanning"}
SYMMETRY Symmetry
INVARIANTS StillHaveFuture
CHECK_DEADLOCK FALSE
