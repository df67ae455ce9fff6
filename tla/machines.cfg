SPECIFICATION MachinesSpec
CONSTANTS
  a = a
  b = b
  Id = {a, b}
  Base = 100
  MaxLink = 3
  MaxKey = 3
  Limits <- MCLimits
CHECK_DEADLOCK FALSE
INVARIANTS OutputToOwner Fed
