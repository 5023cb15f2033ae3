\* Two roles, each with a scheduler of its own, one confined to two of three
\* backends: retries, fallbacks, call limits and quarantines decide what a call
\* attempts; rewards come late and too large, sinks fail, Ctrl+C cuts calls short.
CONSTANTS
  NumBackends = 3
  Roles <- MCRoles
  RewardAccounted <- MCRoles
  RoleScoped = TRUE
  RoleBackends <- MutationOnTwo
  Fallback = TRUE
  MaxRetries = 1
  MaxCallAttempts = 3
  MaxCallHistory = 2
  CallLimits <- ThreeCallsTwoMutations
  ScopeRoles <- MCScopeRoles
  QuarantineAfter <- QuarantineBoth
  Rewards <- ZeroAndTwo
  MaxCalls = 4
  MaxFaults = 1
SPECIFICATION FairSpec
INVARIANTS
  AccountsAgree
  RewardsAreTold
  CallContract
PROPERTIES
  QuarantineHolds
  CallReturns
CHECK_DEADLOCK FALSE
