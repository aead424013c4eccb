SPECIFICATION Spec
CONSTANTS
  MaxBoots = 3
  Plans <- CutAndReplay
INVARIANTS NoAmnesia
CHECK_DEADLOCK FALSE
