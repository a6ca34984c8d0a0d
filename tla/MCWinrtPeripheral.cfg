SPECIFICATION Spec
CONSTANTS
  s1 = s1
  Service = {s1}
  ServiceList <- OneService
  Req = {r1, r2, r3, r4}
  NoReq = NoReq
  Asks <- AnyAsk
  NoAsk <- NothingAsked
  Workers = 2
  MayFail = {"open", "services", "characteristics", "connect"}
  MaxFlips = 3
SYMMETRY Symmetry
INVARIANTS TypeOK ServicesCurrent UsedStaysOpen FlagTruth ToldTruth NoCircle
CHECK_DEADLOCK FALSE
