SPECIFICATION Spec
CONSTANTS
  r1 = r1
  r2 = r2
  Requests = {r1, r2}
  Limits <- Mixes
INVARIANTS UnforcedKeepsMine LossAgreed RefusalCostsNothing
CHECK_DEADLOCK FALSE
