SPECIFICATION FairSpec
CONSTANTS
  Unset = Unset
  MaxRows = 3
  MaxGroups = 2
  Rooms = {0, 1, 3}
  Pictures <- MCPictures
CHECK_DEADLOCK FALSE
INVARIANTS StripInPlace ReadsBack
