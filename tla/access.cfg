SPECIFICATION Spec
CONSTANTS
  Caller = {"page", "gateway", "guesser"}
  MaxKey = 2
  Step = 1
  MaxStep = 4
  Decay = 4
  MaxWait = 8
  Recheck = 1
  MaxQueued = 1
  Limits <- MCLimits
  Idle = 6
  Absolute = 8
  TicketLife = 2
  MaxTickets = 2
  Resocket = 3
INVARIANTS
  RampKept
  Revoked
  StaysIn
CHECK_DEADLOCK FALSE
