SPECIFICATION Spec
CONSTANTS
  r1 = r1  r2 = r2  w1 = w1  NoRunner = NoRunner
  kA = kA  kB = kB  kOnce = kOnce  kRead = kRead  kBlocked = kBlocked
  Runs = {r1, r2}
  Profiled = {}
  Runners = {w1}
  Keys = {kA, kB}
  OneShotKeys = {}
  LowRiskKeys = {}
  BlockedKeys = {}
  ScopeOf <- MCScopeOf
  ApprovalModes = {"ask"}
  Conclusions = {"success"}
  Capacity <- TwoSlotsEach
  Factory = {r1, r2}
  MaxConcurrentRuns = 1
  MaxAttemptsPerRun = 2
  MaxWorkstreamAttempts = 3
  LeaseTicks = 1
  MaxAttempts = 2
INVARIANT ApprovalStaysReachable
