SPECIFICATION Spec
CONSTANTS
  Users = {u1}
  N = 1
  From <- OneUser
  Withdrawals = {}
  NSeg = 2
  PageSize = 1
  MaxInboxAttempts = 2
  MaxTries = 2
  MaxBoots = 3
  Budgets <- Troubled
INVARIANTS TypeOK OneReply LedgerIsTrue CrashLoopEnds
PROPERTIES EndedStaysUnsent
CHECK_DEADLOCK FALSE
