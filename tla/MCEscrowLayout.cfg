SPECIFICATION Spec
CONSTANTS
  alice = alice
  bob = bob
  ax = ax
  ay = ay
  bx = bx
  by = by
  X = X
  Y = Y
  e1 = e1
  e2 = e2
  Wallet = {alice, bob}
  TokenKey = {ax, ay, bx, by}
  EscrowKey = {e1}
  Mint = {X, Y}
  Pda = Pda
  TokenProgram = TokenProgram
  RentSysvar = RentSysvar
  NoKey = NoKey
  U64Max = 15
  TokenRent = 1
  EscrowRent = 2
  Amounts = {0, 1}
  ChurnKeys = {}
  InitialToken <- MCInitialToken
  InitialLamports <- MCInitialLamports
INVARIANTS
  RentAccountLayoutAccepted
CHECK_DEADLOCK FALSE
