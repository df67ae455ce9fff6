CONSTANTS
  c1 = c1
  h1 = h1
  Session = {c1, h1}
  Shell = {h1}
  MaxReattach = 1
  Limit <- AllBounds
SPECIFICATION FairSpec
INVARIANTS Reachable
PROPERTIES DeathNoticed Reattached
CHECK_DEADLOCK FALSE
