\* A one-shot while the worker and the daemon die, leases come and runs fail.
CONSTANTS
  once = once
  daily = daily
  w1 = w1
  w2 = w2
  OneShots = {once}
  Recurring = {}
  Workers = {w1}
  MaxRetries = 1
  WakeMaxRetries = 1
  MayOverlap = FALSE
  Crashes = 2
  Leases = 1
  Edits = 0
  Failures = 2
  ModesOf <- BeforeOrAfter
\* once every job is settled or exhausted the system may rest
CHECK_DEADLOCK FALSE
SPECIFICATION SchedulerSpec
INVARIANTS
  SchedulerTypeOK
  SucceedsOncePerFault
PROPERTIES
  SettledIsFinal
  GivesUpAfterBudget
  OneShotsSettle
  BootReleases
