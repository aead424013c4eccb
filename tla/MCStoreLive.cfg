SPECIFICATION LiveSpec
CONSTANTS
  MaxBoots = 3
  Plans <- TwoCuts
INVARIANTS StopsAreSafe
PROPERTIES EverythingLands
CHECK_DEADLOCK FALSE
