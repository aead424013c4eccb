SPECIFICATION Spec
CONSTANTS
  Users = {u1}
  N = 2
  From <- OneUser
  Withdrawals = {}
  NSeg = 1
  PageSize = 1
  MaxInboxAttempts = 2
  MaxTries = 1
  MaxBoots = 2
  Budgets <- LostPage
PROPERTIES InOrderAnswers
CHECK_DEADLOCK FALSE
