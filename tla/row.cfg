CONSTANTS
  InOrder <- TwoWindows
  Read = {1, 2}
  Call = {1, 2}
  MaxTerm = 2
  MaxWrite = 2
  Starts <- TwoStarts
  Limits <- Mixes
SPECIFICATION Spec
INVARIANTS Follows PanelKept LayoutSaved AskedShown Revealable
CHECK_DEADLOCK FALSE
