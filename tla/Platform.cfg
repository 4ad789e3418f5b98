CONSTANTS
  None = None
  Calls = {c1, c2}
  Keys = {k1, k2}
  FirstKeys = {k1}
  RefreshInterval = 1
  MinRefreshInterval = 1
  StaleTolerance = 1
  FetchTimeout = 1
  MaxRotations = 1
  Lifetime = 4
  Skew = 2
  Budget = 1
  Leeway = 0
  ClientHorizon = 5
  Tokens <- MCTokens
  Merchants = {"m1", "m2", ""}
  Delegations <- MCDelegations
  CallBudget = 1
  MaxDeadline = 1
  ServerHorizon = 3
  Units = {u1, u2}
  Runners = {r1, r2, r3}
  LastMigration = 3
  Releases <- MCReleases
  Nobody = Nobody
  Events = {e1, e2}
  NoEvent = NoEvent
SPECIFICATION Spec
INVARIANTS
  TokensOutlive
  KeysCurrent
  NoLostWakeup
  CleanExit
  MigratedOnce
  NothingStranded
CHECK_DEADLOCK FALSE
