SPECIFICATION FairSpec
CONSTANTS
  c1 = c1
  gov = gov
  tagged = tagged
  w1 = w1
  p1 = p1
  p2 = p2
  None = None
  Calls = {c1}
  Cancellable = {c1}
  Fallbacks <- MCFallbacks
  Plugins = {gov, tagged}
  NameOf <- MCNameOf
  TagOf <- MCTagOf
  Governance = gov
  Initial <- MCInitial
  Workspaces = {w1}
  Pipelines = {p1, p2}
  MaxRetries = 1
  MaxEdits = 1
  MaxChunks = 2
INVARIANTS
  TypeOK
  ResultIsRight
  OneProviderAtATime
  HooksPaired
  PostHookNeedsPreHook
  AnswersAreMetered
  
  
PROPERTIES
  EveryCallReturns
CHECK_DEADLOCK FALSE
