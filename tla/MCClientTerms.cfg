SPECIFICATION ClientSpec
CONSTANTS
  alice = alice
  bob = bob
  alice_x = alice_x
  alice_y = alice_y
  bob_x = bob_x
  bob_y = bob_y
  mint_x = mint_x
  mint_y = mint_y
  a1 = a1
  a2 = a2
  b1 = b1
  b2 = b2
  t1 = t1
  t2 = t2
  e1 = e1
  e2 = e2
  Pda = Pda
  TokenProgram = TokenProgram
  RentSysvar = RentSysvar
  NoKey = NoKey
  Wallet = {alice, bob}
  TokenKey = {alice_x, alice_y, bob_x, bob_y, t1, t2}
  EscrowKey = {e1, e2}
  Mint = {mint_x, mint_y}
  U64Max = 15
  TokenRent = 1
  EscrowRent = 2
  Amounts = {}
  ChurnKeys = {}
  AliceRun = {a1, a2}
  BobRun = {b1, b2}
  otherTermsRun = b2
  aliceX = 1
  InitialFiles <- MCFiles
  terms <- MCTerms
  tmpXTokenAccount <- MCTmp
  escrowAccount <- MCEscrowAccount
  InitialToken <- MCInitialToken
  InitialLamports <- MCInitialLamports
INVARIANTS
  ClientTypeOK
  TermsHonoured
PROPERTIES
  RunsEnd
CHECK_DEADLOCK FALSE
