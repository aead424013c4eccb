SPECIFICATION LiveSpec
CONSTANTS
  Users = {u1}
  N = 1
  From <- OneUser
  Withdrawals = {}
  NSeg = 1
  PageSize = 1
  MaxInboxAttempts = 2
  MaxTries = 2
  MaxBoots = 2
  Budgets <- Living
PROPERTIES EverythingResolves
CHECK_DEADLOCK FALSE
