SPECIFICATION SysSpec
CONSTANTS
  s1 = s1
  Device = {d1}
  PeripheralId = {d1}
  Service = {s1}
  Char = {}
  Desc = {}
  Req = {r1, r2, r3}
  NoReq = NoReq
  NoAttr = NoAttr
  ServicesOf <- OneService
  Includes <- NoneBelow
  CharsOf <- NoneBelow
  DescsOf <- Nothing
  ServiceOf <- Nothing
  CharOf <- Nothing
  Asks <- LinkAsks
  NoResponse = {}
  MayFail = {}
  Notifies = FALSE
  Scans = {"StartScanning"}
  Stream = {s}
  Capacity = 2
  ChannelSize = 2
SYMMETRY Symmetry
INVARIANTS AddsOnce MapAgrees StreamTruth
PROPERTIES DisconnectedMeansDown
CHECK_DEADLOCK FALSE
