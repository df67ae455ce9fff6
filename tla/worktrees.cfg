CONSTANTS
  w1 = w1
  w2 = w2
  s1 = s1
  s2 = s2
  a = a
  b = b
  NoClaude = NoClaude
  Worktree = {w1, w2}
  Session = {s1, s2}
  Call = {a, b}
  Limits <- Scenarios
SPECIFICATION Spec
INVARIANTS CacheFresh WokenKept RemovedAlone
CHECK_DEADLOCK FALSE
