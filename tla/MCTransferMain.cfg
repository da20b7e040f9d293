SPECIFICATION MainSpec
CONSTANTS
  alice = alice
  bob = bob
  c1 = c1
  Call = {c1}
  Party = {alice, bob}
  payer <- MCPayer
  receiver <- MCReceiver
  amount <- MCAmount
  Initial <- MCInitial
  PayerLamports <- MCPayerLamports
  KeepAlive = 2
  RentExempt = 4
  Fee = 1
  Sol = 1000
  U64Max = 20000
INVARIANTS
  ToppedUpExactly
  TransferAsTested
  InsufficientNotSent
PROPERTIES
  MainEnds
CHECK_DEADLOCK FALSE
