\* One call of any kind and two syncs around one life of the daemon.
SPECIFICATION Spec
CONSTANTS
  Calls = {c1}
  Syncs = {s1, s2}
  ResultCap = 1
CHECK_DEADLOCK FALSE
INVARIANTS StampOrdersSyncs AnswerIsWhole OneEventPerCall CleanExit
PROPERTIES StopIsHeeded CallReturns
