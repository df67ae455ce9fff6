CONSTANTS
  t1 = t1
  t2 = t2
  w1 = w1
  w2 = w2
  c1 = c1
  None = None
  Draft = Draft
  Todo = {t1, t2}
  Prompt = {t1, t2}
  Worktree = {w1, w2}
  Session = {c1}
  HomeOf <- OneClaude
  LongPrompt = {t1}
  Opens <- Shown
  MaxChain = 1
  Limit <- FaultBounds
SPECIFICATION MixedFairSpec
INVARIANTS Accounted ClaimOutlivesCrash LeftoverKept
PROPERTIES ImplementsLedger ClaimSettles QueueDrains
