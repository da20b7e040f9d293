SPECIFICATION SetupSpec
CONSTANTS
  alice = alice
  bob = bob
  client = client
  alice_x0 = alice_x0
  alice_y0 = alice_y0
  bob_x0 = bob_x0
  bob_y0 = bob_y0
  X0 = X0
  Y0 = Y0
  alice_x1 = alice_x1
  alice_y1 = alice_y1
  bob_x1 = bob_x1
  bob_y1 = bob_y1
  X1 = X1
  Y1 = Y1
  t1 = t1
  e1 = e1
  a1 = a1
  b1 = b1
  s1 = s1
  Pda = Pda
  TokenProgram = TokenProgram
  RentSysvar = RentSysvar
  NoKey = NoKey
  Wallet = {alice, bob, client}
  TokenKey = {alice_x0, alice_y0, bob_x0, bob_y0, alice_x1, alice_y1, bob_x1, bob_y1, t1}
  EscrowKey = {e1}
  Mint = {X0, Y0, X1, Y1}
  U64Max = 15
  TokenRent = 1
  EscrowRent = 2
  Amounts = {}
  ChurnKeys = {}
  AliceRun = {a1}
  BobRun = {b1}
  SetupRun = {s1}
  Airdropped = 4
  Minted = 2
  InitialFiles <- MCFiles
  fresh <- MCFresh
  terms <- MCTerms
  tmpXTokenAccount <- MCTmp
  escrowAccount <- MCEscrowAccount
  InitialToken <- MCInitialToken
  InitialLamports <- MCInitialLamports
INVARIANTS
  AccountsAudited
  StoredEscrowTakeable
  SetUpForExchange
CHECK_DEADLOCK FALSE
