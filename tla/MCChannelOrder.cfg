SPECIFICATION Spec
CONSTANTS
  Users = {u1}
  N = 2
  From <- OneUser
  Withdrawals = {2}
  NSeg = 1
  PageSize = 1
  MaxInboxAttempts = 2
  MaxTries = 1
  MaxBoots = 2
  Budgets <- TakenOver
PROPERTIES InOrderAnswers SilentUnderStaff
CHECK_DEADLOCK FALSE
