\* Two workers at once, the user editing: who claims what.
CONSTANTS
  once = once
  daily = daily
  w1 = w1
  w2 = w2
  OneShots = {once}
  Recurring = {daily}
  Workers = {w1, w2}
  MaxRetries = 1
  WakeMaxRetries = 1
  MayOverlap = TRUE
  Crashes = 0
  Leases = 0
  Edits = 1
  Failures = 0
  ModesOf <- WakeAndScript
\* once every job is settled or exhausted the system may rest
CHECK_DEADLOCK FALSE
SPECIFICATION SchedulerSpec
INVARIANTS
  ClaimedOnce
