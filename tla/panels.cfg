SPECIFICATION FairSpec
CONSTANTS
  a = a
  b = b
  None = None
  Path = {a, b}
  MaxStamp = 6
  MaxReads = 2
  MaxSaves = 2
  File = {a, b}
  Null = Null
  Recent = 3
  MaxWork = 7
  here = here
  box = box
  home = home
  proj = proj
  sub = sub
  Machine = {here, box}
  Here = here
  Dir = {home, proj, sub}
  Home = home
  Nil = Nil
  Parent <- ParentOf
  RecentLimit = 1
  Scenes <- SceneOf
  anna = anna
  bert = bert
  Line <- Order
  Account <- AccountOf
  Readable = {here}
  Unknown = Unknown
  Ttl = 3
  SamePercent = 1
  MaxClock = 8
  Limits <- Mixes
INVARIANTS OwnText RevOfText NothingMissed OnItsMachine Paced
PROPERTIES FollowsDisk CatchesUp
CHECK_DEADLOCK FALSE
