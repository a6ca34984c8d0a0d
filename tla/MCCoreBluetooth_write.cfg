SPECIFICATION Spec
CONSTANTS
  d1 = d1
  s1 = s1
  s2 = s2
  s3 = s3
  c1 = c1
  c2 = c2
  x1 = x1
  Device = {d1}
  Service = {s1}
  Char = {c1}
  Desc = {x1}
  Req = {r1, r2, r3}
  NoReq = NoReq
  NoAttr = NoAttr
  ServicesOf <- GattServices
  Includes <- GattIncludes
  CharsOf <- GattChars
  DescsOf <- GattDescs
  ServiceOf <- GattServiceOf
  CharOf <- GattCharOf
  Asks <- WriteAsks
  NoResponse = {}
  MayFail = {"write"}
  Notifies = FALSE
  Scans = {"StartScanning"}
SYMMETRY Symmetry
INVARIANTS WriteOutcome
CHECK_DEADLOCK FALSE
