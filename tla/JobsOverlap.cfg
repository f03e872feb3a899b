\* Two workers alive at once: claims, settled rows, and how it ends.
CONSTANTS
  w1 = w1
  w2 = w2
  page = page
  conv = conv
  j1 = j1
  j2 = j2
  j3 = j3
  NoPid = nopid
  Workers = {w1, w2}
  MaxSpawns = 2
  Keys = {page}
  Jobs = {j1}
  KeyOf <- OnePageKeys
  Lane <- LaneOf
  Budget <- Budgets
  Group <- GroupOf
  Cancellable = {}
  Postponable = {page}
  MaxVersion = 1
  MaxAttempts = 2
  MaxDeferrals = 2
  MayHang = FALSE
SPECIFICATION JobsFairSpec
INVARIANTS
  ClaimExclusive
PROPERTIES
  TerminalIsFinal
  JobsSettle
  SoleDrainer
