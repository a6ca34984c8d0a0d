SPECIFICATION MCSpec
CONSTANTS
  k1 = k1
  k2 = k2
  k3 = k3
  c1 = c1
  Uuid = {"S", "T", "C", "D", "E"}
  Path = {"s1", "s2", "c1", "c2", "d1"}
  Root = "dev"
  Databases <- BothDatabases
  Object = {"o1", "o2"}
  BluezCall = {k1, k2, k3}
  MaxChanges = 1
  Device = {"a1", "a2", "other"}
  Ours = {"a1", "a2"}
  MaxSignals = 4
  PeripheralId = {"p1", "p2"}
  Stream = {}
  Capacity = 1
  NoPeripheral = "no peripheral"
  MaxFlips = 3
  Scan = {"h1", "h2"}
  NotifyCall = {k1, k2, k3}
  NoHandler = NoHandler
  Adder = {"h1"}
  Req = {k1, k2, k3}
  NoReq = NoReq
  Asks <- DroidAsks
  Attr = {c1}
  NoAttr = NoAttr
  Refuses = {}
  MayFail = {"write", "discover", "notify"}
  MaxLate = 1
  WebScan = {k1, k2, k3}
  NoScan = NoScan
  WebClient = WebClient
SYMMETRY Symmetries
INVARIANTS BluezReachesAsked BluezNotifies BluezStreamTruth WinrtOneHandler OkMeansAnswered
           DroidServicesFresh WinrtClientsKnowMap WinrtDiscoversOnce DroidEventsHold
           WebTrapsExplained
CHECK_DEADLOCK FALSE
