SPECIFICATION Spec
CONSTANTS
  alice = alice
  bob = bob
  c1 = c1
  c2 = c2
  c3 = c3
  Call = {c1, c2, c3}
  Party = {alice, bob}
  payer <- LimitPayer
  receiver <- LimitReceiver
  amount <- LimitAmount
  Initial <- LimitInitial
  RentExempt = 3
  Fee = 1
  U64Max = 8
INVARIANTS
  TypeOK
  BalancesAccounted
CHECK_DEADLOCK FALSE
