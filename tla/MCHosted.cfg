SPECIFICATION Spec
CONSTANTS
  Runs = {r1}
  MaxAttempt = 2
  MaxClaim = 2
  Lease = 2
  EntryLease = 1
  MaxRenewals = 1
  MaxCalls = 1
  MaxLate = 1
  AuthorityMayChange = TRUE
CHECK_DEADLOCK FALSE
INVARIANTS TypeOK LocalLeaseWithinCloud OneHolder SettlementTellsTheTruth JournalInOrder
PROPERTY KeepsHostedContract
