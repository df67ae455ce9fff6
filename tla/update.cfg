CONSTANTS
  Newest = 2
  Puller = {p1, p2}
  Nobody = nobody
  Lockfile <- Lockfiles
  Fates <- AllFates
  MaxStarts = 6
  Limits <- Mixes
  Absent = none
  Asker = {a1}
  p1 = p1
  p2 = p2
  nobody = nobody
  a1 = a1
  none = none
SPECIFICATION UpdateSpec
INVARIANTS ComesBack TriedOnce WaitsThrough
CHECK_DEADLOCK FALSE
