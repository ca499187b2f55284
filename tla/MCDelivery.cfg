SPECIFICATION Spec
CONSTANTS
  NoIntent = NoIntent
  Intents = {i1, i2}
  Workers = {w1, w2}
  LeaseTicks = 1
  MaxClaims = 3
INVARIANTS DeliveryTypeOK AtMostOneCall SettlementFits PayloadKept
PROPERTY KeepsPromise
