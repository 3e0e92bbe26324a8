SPECIFICATION Spec
CONSTANTS
  t1 = t1
  t2 = t2
  c1 = c1
  NoOne = NoOne
  Threads = {t1, t2}
  Closers = {c1}
  Victims = {t2}
  Timeout <- MCTimeout
  Calls = 1
  LastInstant = 2
  Disturbances = {"close", "unplug"}
  Cost <- MCCost
  Faults <- MCFaults
  Timers = {TRUE}
PROPERTIES EverythingEnds
