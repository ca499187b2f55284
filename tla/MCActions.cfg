SPECIFICATION Spec
CONSTANTS
  r1 = r1  r2 = r2  w1 = w1  NoRunner = NoRunner
  kA = kA  kB = kB  kOnce = kOnce  kRead = kRead  kBlocked = kBlocked
  Runs = {r1}
  Profiled = {}
  Runners = {w1}
  Keys = {kA, kOnce}
  OneShotKeys = {kOnce}
  LowRiskKeys = {}
  BlockedKeys = {}
  ScopeOf <- MCScopeOf
  ApprovalModes = {"ask", "autonomous"}
  Conclusions = {"success"}
  Capacity <- OneSlotEach
  Factory = {}
  MaxConcurrentRuns = 0
  MaxAttemptsPerRun = 0
  MaxWorkstreamAttempts = 0
  LeaseTicks = 1
  MaxAttempts = 2
INVARIANTS TypeOK OneLeasedAttempt ExecutingOwned ParkedHasWaiting MaterialReleasedOnce ReleaseNotForgotten
PROPERTIES FinalStays KeepsContract
