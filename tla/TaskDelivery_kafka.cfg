SPECIFICATION Spec
CONSTANTS
  Task = {t1, t2}
  Caller = {k2}
  Worker = {w1, w2}
  k1 = k1 k2 = k2 t1 = t1 t2 = t2 t3 = t3 w1 = w1 w2 = w2
  Owner <- MCOwner
  Creators <- MCCreators
  Inline = FALSE
  AwaitSend = TRUE
  Faults = {"db", "raise", "refuse", "lose", "crash", "stop", "rebalance"}
  MaxFail = 1
  NoTask = NoTask
SYMMETRY Workers
CHECK_DEADLOCK FALSE
INVARIANT VerdictEarned NoneSkipped
PROPERTY FinalUntilRetaken
