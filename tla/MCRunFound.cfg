SPECIFICATION FollowUpSpec
CONSTANTS
  Requests = {1, 2}
  Callers = {c1, c2}
  MaxRuns = 2
CHECK_DEADLOCK FALSE
INVARIANT RunFoundFromRequest
