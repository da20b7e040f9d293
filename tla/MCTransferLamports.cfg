SPECIFICATION Spec
CONSTANTS
  alice = alice
  bob = bob
  c1 = c1
  c2 = c2
  c3 = c3
  Call = {c1, c2, c3}
  Party = {alice, bob}
  payer <- MCPayer
  receiver <- MCReceiver
  amount <- MCAmount
  Initial <- MCInitial
  RentExempt = 3
  Fee = 1
  U64Max = 8
INVARIANTS
  TypeOK
  BalancesAccounted
  ReturnedPaid
PROPERTIES
  OnlyPayerFails
  CallsEnd
CHECK_DEADLOCK FALSE
