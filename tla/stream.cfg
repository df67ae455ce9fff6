CONSTANTS
  here = here
  there = there
  window = window
  tile = tile
  other = other
  Page = {here, there}
  View = {window, tile, other}
  PageOf <- PageOfView
  Primary = {window, other}
  Size = {80, 120}
  Room <- RoomOfView
  First <- TwoSockets
  Connections = 3
  MaxChunk = 2
  Limit <- Bounds
SPECIFICATION SceneSpec
INVARIANTS NoGap InStep
CHECK_DEADLOCK FALSE
