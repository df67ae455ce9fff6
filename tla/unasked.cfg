SPECIFICATION Spec
CONSTANTS
  r1 = r1
  r2 = r2
  Requests = {r1, r2}
  Limits <- Mixes
INVARIANTS TakesNothingUnasked
CHECK_DEADLOCK FALSE
