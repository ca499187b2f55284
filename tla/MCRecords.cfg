SPECIFICATION Spec
CONSTANTS
  Requests = {1, 2}
  Callers = {c1, c2}
  MaxRuns = 2
  Facts = {f1, f2}
  RunResults = {f1}
  Workers = {w1, w2}
  MaxTries = 2
  WorkLease = 1
  Rows = {1, 2, 3}
  Parent <- MCParent
  Reports = {2}
  Pumps = {u1, u2}
  RowLease = 1
  Jobs = {j1, j2}
  JobWorkers = {v1, v2}
  JobAttempts = 2
  JobLease = 1
  Actions = {a1}
  LastTry = 2
  MaxUnsent = 2
  Deliveries = {d1, d2}
  Comments = {m1}
  PullRequests = {e1}
  OtherEvents = {o1}
  Receivers = {h1, h2}
  ProcessingLease = 1
  MaxInstant = 1
  Admitters = {b1, b2}
  LastItem = 2
  BatchLease = 1
CHECK_DEADLOCK FALSE
INVARIANTS RecordsTypeOK PromotedHasItsRun ReservationKept NoFactForgotten SettledForItsLastClaim PerformedWasAllowed EndedIsAccounted AnsweredOnce AdmissionAccounted BatchTellsItsItems
PROPERTIES PromotionStays FencedSettlement FactsAreRead KeepsOutboxPromise NotLeftBehind JobsEnd
