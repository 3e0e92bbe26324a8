SPECIFICATION Spec
CONSTANTS
  t1 = t1
  t2 = t2
  c1 = c1
  NoOne = NoOne
  Threads = {t1, t2}
  Closers = {c1}
  Victims = {t1}
  Timeout <- MCTwoTimeouts
  Calls = 1
  LastInstant = 3
  Disturbances = {"close"}
  Cost <- MCCost
  Faults <- MCFaults
  Timers = {TRUE}
INVARIANT TimeoutsWakePoll
CHECK_DEADLOCK FALSE
