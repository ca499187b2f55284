SPECIFICATION FairSpec
CONSTANTS
  r1 = r1  r2 = r2  w1 = w1  NoRunner = NoRunner
  kA = kA  kB = kB  kOnce = kOnce  kRead = kRead  kBlocked = kBlocked
  Runs = {r1}
  Profiled = {r1}
  Runners = {w1}
  Keys = {kA, kB, kRead, kBlocked}
  OneShotKeys = {}
  LowRiskKeys = {kRead}
  BlockedKeys = {kBlocked}
  ScopeOf <- MCScopeOf
  ApprovalModes = {"ask", "auto"}
  Conclusions = {"success", "needs_human"}
  Capacity <- OneSlotEach
  Factory = {}
  MaxConcurrentRuns = 0
  MaxAttemptsPerRun = 0
  MaxWorkstreamAttempts = 0
  LeaseTicks = 2
  MaxAttempts = 1
INVARIANT NoReleaseWithoutApproval
PROPERTIES NoAbandonedAttempt DecisionDelivered
