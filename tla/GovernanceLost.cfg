SPECIFICATION Spec
CONSTANTS
  r1 = r1
  r2 = r2
  key = key
  budget = budget
  NoEntry = NoEntry
  Requests = {r1, r2}
  Budgets = {budget}
  RateLimits = {key}
  Checks <- MCChecks
  Updates <- MCUpdates
  KeyEntries <- MCKeyEntries
  Amounts <- MCAmounts
  Duration <- MCDuration
  Limit = 2
  MaxTime = 1
  MaxAttempts = 2
  MaxEvents = 0
INVARIANT NoUsageIsLost
