SPECIFICATION Spec
CONSTANTS
  MaxBoots = 3
  Plans <- CrashOrOverlap
INVARIANTS TypeOK NothingVanishes
PROPERTIES LogSpec NoForeignTail
CHECK_DEADLOCK FALSE
