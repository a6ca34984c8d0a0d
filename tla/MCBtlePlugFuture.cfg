SPECIFICATION FairSpec
CONSTANTS
  Future = {f1, f2}
  Task = {t1, t2, t3}
  NoTask = NoTask
INVARIANTS NoLostWakeup
PROPERTIES KeepsPromise
CHECK_DEADLOCK FALSE
