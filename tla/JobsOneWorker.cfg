\* One worker, hung, killed or stopped and started again; one conversation that
\* may be deleted, three rows.
CONSTANTS
  w1 = w1
  w2 = w2
  page = page
  conv = conv
  j1 = j1
  j2 = j2
  j3 = j3
  NoPid = nopid
  Workers = {w1}
  MaxSpawns = 2
  Keys = {conv}
  Jobs = {j1, j2, j3}
  KeyOf <- OneConvKeys
  Lane <- LaneOf
  Budget <- Budgets
  Group <- GroupOf
  Cancellable = {conv}
  Postponable = {conv}
  MaxVersion = 2
  MaxAttempts = 2
  MaxDeferrals = 2
  MayHang = TRUE
\* a hung handler with no restart left is all that may remain
CHECK_DEADLOCK FALSE
SPECIFICATION JobsSpec
INVARIANTS
  JobsTypeOK
  NoUpdateForgotten
  WithinRetryBudgets
PROPERTIES
