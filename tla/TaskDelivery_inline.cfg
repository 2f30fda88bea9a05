SPECIFICATION Spec
CONSTANTS
  Task = {t1, t2, t3}
  Caller = {k1, k2}
  Worker = {}
  k1 = k1 k2 = k2 t1 = t1 t2 = t2 t3 = t3 w1 = w1 w2 = w2
  Owner <- MCOwner
  Creators <- MCCreators
  Inline = TRUE
  AwaitSend = FALSE
  Faults = {"raise", "crash", "keycloak"}
  MaxFail = 1
  NoTask = NoTask

CHECK_DEADLOCK FALSE
INVARIANT AbortedLeavesNoTrace CompletedHasFound
