SPECIFICATION FairSpec
CONSTANTS
  Files = {1, 2}
  Listings = {1, 2}
  Windows <- WindowLines
  TailLines = 3
  FollowUpsMax = 1
  Faces <- Screens
  Courses <- Mixes
INVARIANTS Told
PROPERTIES NotGreenInTurn Settles
CHECK_DEADLOCK FALSE
