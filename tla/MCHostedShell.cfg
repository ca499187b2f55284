SPECIFICATION FairSpec
CONSTANTS
  Runs = {r1}
  MaxAttempt = 1
  MaxClaim = 1
  Lease = 1
  EntryLease = 1
  MaxRenewals = 0
  MaxCalls = 1
  MaxLate = 0
  AuthorityMayChange = FALSE
PROPERTY ShellReconciled
CHECK_DEADLOCK FALSE
