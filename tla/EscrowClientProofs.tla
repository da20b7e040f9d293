------------------------- MODULE EscrowClientProofs -------------------------
(***************************************************************************)
(* Proofs about runs of the escrow client, for any number of runs, any     *)
(* terms, any keys and any accounts the parties start with.                *)
(***************************************************************************)
EXTENDS EscrowClient, EscrowProofs, DataLemmas

-----------------------------------------------------------------------------
(* The inductive invariant.                                                *)

\* Key files name accounts of the kind their names say.
KeysOfKind(f) ==
  /\ \A name \in TokenFile : f[name] \in TokenKey
  /\ \A name \in MintFile : f[name] \in Mint
  /\ f["escrow"] \in EscrowKey \cup {NoKey}

\* The run whose transaction has made the escrow account e, its only one.
MadeBy(e, a) == a \in AliceRun /\ escrowAccount[a] = e /\ tx[a] = "ok"

EscrowsMade ==
  \A e \in EscrowKey :
    /\ ledger.escrow[e].allocated => \E a \in AliceRun : MadeBy(e, a)
    /\ ledger.escrow[e].is_initialized =>
         ledger.escrow[e].allocated /\ ledger.escrow[e].initializer_pubkey \in Wallet

\* Where a run of Bob has decoded the escrow, and where it has seen it closed.
AfterDecode == {"aliceY", "bobX", "send", "verifyClosed", "verifyAliceY", "verifyBobX", "done"}
AfterClosed == {"verifyAliceY", "verifyBobX", "done"}

\* An escrow a run has decoded has been made and is not made again; once it is
\* seen to be closed it stays closed.
ReadEscrow(r) ==
  /\ pc[r] \in AfterDecode => \E a \in AliceRun : MadeBy(Key(r, "escrow"), a)
  /\ pc[r] \in AfterClosed => ~ ledger.escrow[Key(r, "escrow")].allocated

\* A run sends one transaction.
BeforeSend == {"alice", "bob", "decode", "aliceY", "bobX", "send"}
SentOnce == \A r \in Run : pc[r] \in BeforeSend => tx[r] = "none"

ClientInv ==
  /\ ClientTypeOK
  /\ SentOnce
  /\ KeysOfKind(files)
  /\ \A r \in Run : KeysOfKind(seen[r].files)
  /\ EscrowsMade
  /\ \A r \in BobRun : ReadEscrow(r)

-----------------------------------------------------------------------------
(* What the two transactions do to a ledger.                               *)

LEMMA WithTokenAccountEffect ==
  ASSUME NEW L \in Ledger, NEW w \in Wallet, NEW k \in TokenKey, NEW mint \in Mint,
         CreateAccountOk(L, w, k, TokenRent)
  PROVE  /\ WithTokenAccount(L, w, k, mint) \in Ledger
         /\ WithTokenAccount(L, w, k, mint).escrow = L.escrow
         /\ WithTokenAccount(L, w, k, mint).token =
              [L.token EXCEPT ![k] = [mint |-> mint, owner |-> w, amount |-> 0]]
<1> DEFINE C == CreateAccount(L, w, k, TokenRent)
           T == [C.token EXCEPT ![k] = [mint |-> mint, owner |-> w, amount |-> 0]]
           M == WithTokenAccount(L, w, k, mint)
<1>0. TokenRent \in U64 /\ TokenRent <= L.lamports[w]
  BY RentAssumption DEF CreateAccountOk, U64
<1>1. /\ C \in Ledger /\ C.escrow = L.escrow /\ C.token = L.token
      /\ C.lamports = [L.lamports EXCEPT ![w] = L.lamports[w] - TokenRent, ![k] = TokenRent]
  BY <1>0, CreateAccountEffect
<1>2. M = [C EXCEPT !.token = T]
  BY DEF WithTokenAccount
<1> HIDE DEF C, M
<1>t. T = [L.token EXCEPT ![k] = [mint |-> mint, owner |-> w, amount |-> 0]]
  BY <1>1
<1>3. T \in [TokenKey -> TokenAccount]
  <2>1. [mint |-> mint, owner |-> w, amount |-> 0] \in TokenAccount
    BY RentAssumption DEF TokenAccount, U64
  <2>2. QED
    BY <1>1, <2>1, LedgerParts
<1> HIDE DEF T
<1>4. M = [token |-> T, escrow |-> C.escrow, lamports |-> C.lamports]
  BY <1>1, <1>2, LedgerParts
<1>5. M \in Ledger
  BY <1>1, <1>3, <1>4, LedgerParts DEF Ledger
<1>6. QED
  BY <1>1, <1>t, <1>4, <1>5 DEF M

LEMMA WithEscrowAccountEffect ==
  ASSUME NEW L \in Ledger, NEW w \in Wallet, NEW e \in EscrowKey, CreateAccountOk(L, w, e, EscrowRent)
  PROVE  /\ WithEscrowAccount(L, w, e, EscrowRent) \in Ledger
         /\ WithEscrowAccount(L, w, e, EscrowRent).escrow = [L.escrow EXCEPT ![e].allocated = TRUE]
         /\ WithEscrowAccount(L, w, e, EscrowRent).token = L.token
<1> DEFINE C == CreateAccount(L, w, e, EscrowRent)
           E == [C.escrow EXCEPT ![e].allocated = TRUE]
           M == WithEscrowAccount(L, w, e, EscrowRent)
<1>0. EscrowRent \in U64 /\ EscrowRent <= L.lamports[w]
  BY RentAssumption DEF CreateAccountOk, U64
<1>1. /\ C \in Ledger /\ C.escrow = L.escrow /\ C.token = L.token
      /\ C.lamports = [L.lamports EXCEPT ![w] = L.lamports[w] - EscrowRent, ![e] = EscrowRent]
  BY <1>0, CreateAccountEffect
<1>2. M = [C EXCEPT !.escrow = E]
  BY DEF WithEscrowAccount
<1> HIDE DEF C, M
<1>3. E \in [EscrowKey -> EscrowAccount]
  <2>1. C.escrow \in [EscrowKey -> EscrowAccount]
    BY <1>1, LedgerParts
  <2>2. [C.escrow[e] EXCEPT !.allocated = TRUE] \in EscrowAccount
    BY <2>1 DEF EscrowAccount
  <2>3. QED
    BY <2>1, <2>2
<1>4. E = [L.escrow EXCEPT ![e].allocated = TRUE]
  BY <1>1
<1> HIDE DEF E
<1>5. M = [token |-> C.token, escrow |-> E, lamports |-> C.lamports]
  BY <1>1, <1>2, LedgerParts
<1>6. M \in Ledger
  BY <1>1, <1>3, <1>5, LedgerParts DEF Ledger
<1>7. QED
  BY <1>1, <1>4, <1>5, <1>6 DEF M

\* What a run of Alice records in its escrow account.
PostedState(a) ==
  [allocated |-> TRUE, is_initialized |-> TRUE, initializer_pubkey |-> alice,
   tmp_token_account_pubkey |-> tmpXTokenAccount[a],
   initializer_token_to_receive_account_pubkey |-> Key(a, "alice_y"),
   expected_amount |-> terms[a].aliceExpectedAmount]

\* Alice's five instructions make her escrow account and no other, and fund the
\* vault out of her account.
LEMMA AliceTransactionResult ==
  ASSUME NEW L \in Ledger, NEW r \in AliceRun, KeysOfKind(seen[r].files), AliceTransactionOk(L, r)
  PROVE  /\ AliceTransaction(L, r) \in Ledger
         /\ AliceTransaction(L, r).escrow = [L.escrow EXCEPT ![escrowAccount[r]] = PostedState(r)]
         /\ \A k \in TokenKey \ {tmpXTokenAccount[r]} :
              /\ AliceTransaction(L, r).token[k].mint = L.token[k].mint
              /\ AliceTransaction(L, r).token[k].owner = L.token[k].owner
              /\ AliceTransaction(L, r).token[k].amount =
                   L.token[k].amount - (IF k = Key(r, "alice_x") THEN terms[r].bobExpectedAmount ELSE 0)
         /\ AliceTransaction(L, r).token[tmpXTokenAccount[r]].mint = Key(r, "mint_x")
         /\ AliceTransaction(L, r).token[tmpXTokenAccount[r]].owner = Pda
         /\ Key(r, "alice_x") # tmpXTokenAccount[r] =>
              AliceTransaction(L, r).token[tmpXTokenAccount[r]].amount = terms[r].bobExpectedAmount
         /\ Key(r, "alice_y") # tmpXTokenAccount[r] => IsTokenAccount(L, Key(r, "alice_y"))
<1> DEFINE t == tmpXTokenAccount[r]
           e == escrowAccount[r]
           n == terms[r].bobExpectedAmount
           price == terms[r].aliceExpectedAmount
           ax == Key(r, "alice_x")
           ay == Key(r, "alice_y")
           mx == Key(r, "mint_x")
           L1 == TmpCreated(L, r)
           L2 == TmpFunded(L, r)
           L3 == EscrowCreated(L, r)
           M == AliceTransaction(L, r)
<1>1. /\ alice \in Wallet /\ t \in TokenKey /\ e \in EscrowKey
      /\ n \in U64 /\ price \in U64 /\ n \in Nat
      /\ ax \in TokenKey /\ ay \in TokenKey /\ mx \in Mint
  BY ClientAssumption, RentAssumption DEF KeysOfKind, TokenFile, MintFile, Key, Run, U64
<1>2. /\ L1 = WithTokenAccount(L, alice, t, mx)
      /\ L2 = Transfer(L1, ax, t, n)
      /\ L3 = WithEscrowAccount(L2, alice, e, EscrowRent)
      /\ M = InitEscrowEffect(L3, <<alice, t, ay, e, TokenProgram>>, price)
  BY DEF TmpCreated, TmpFunded, EscrowCreated, AliceTransaction, InitEscrowKeys
<1>3. /\ CreateAccountOk(L, alice, t, TokenRent)
      /\ n <= L1.token[ax].amount
      /\ ax # t => L1.token[t].amount + n <= U64Max
      /\ CreateAccountOk(L2, alice, e, EscrowRent)
      /\ InitEscrowOk(L3, <<alice, t, ay, e, TokenProgram>>, {alice}, price)
  BY DEF AliceTransactionOk, TransferOk, InitEscrowKeys
<1> HIDE DEF t, e, n, price, ax, ay, mx, L1, L2, L3, M
<1>4. /\ L1 \in Ledger /\ L1.escrow = L.escrow
      /\ L1.token = [L.token EXCEPT ![t] = [mint |-> mx, owner |-> alice, amount |-> 0]]
  BY <1>1, <1>2, <1>3, WithTokenAccountEffect
<1>5. L2 \in Ledger /\ Moved(L1, L2, ax, t, n)
  BY <1>1, <1>2, <1>3, <1>4, TransferEffect
<1>6. /\ L3 \in Ledger /\ L3.escrow = [L.escrow EXCEPT ![e].allocated = TRUE]
      /\ L3.token = L2.token
  <2>1. /\ L3 \in Ledger /\ L3.escrow = [L2.escrow EXCEPT ![e].allocated = TRUE]
        /\ L3.token = L2.token
    BY <1>1, <1>2, <1>3, <1>5, WithEscrowAccountEffect
  <2> QED BY <1>4, <1>5, <2>1 DEF Moved
<1>7. EscrowPosted(L3, M, alice, t, ay, e, price)
  BY <1>1, <1>2, <1>3, <1>6, InitEscrowResult
<1> DEFINE posted == [allocated |-> TRUE, is_initialized |-> TRUE, initializer_pubkey |-> alice,
                      tmp_token_account_pubkey |-> t,
                      initializer_token_to_receive_account_pubkey |-> ay, expected_amount |-> price]
<1>8. /\ M \in Ledger /\ M.escrow = [L3.escrow EXCEPT ![e] = posted]
      /\ M.token = [L3.token EXCEPT ![t].owner = Pda]
  BY <1>7 DEF EscrowPosted
<1>p. PostedState(r) = posted
  BY DEF PostedState, t, ay, price
<1> HIDE DEF posted
<1>9. /\ L3.escrow \in [EscrowKey -> EscrowAccount] /\ L.escrow \in [EscrowKey -> EscrowAccount]
      /\ L3.token \in [TokenKey -> TokenAccount] /\ L.token \in [TokenKey -> TokenAccount]
      /\ L1.token \in [TokenKey -> TokenAccount]
  BY <1>4, <1>6, LedgerParts
<1>10. M.escrow = [L.escrow EXCEPT ![e] = PostedState(r)]
  BY <1>6, <1>8, <1>p, <1>9
<1>11. ASSUME NEW k \in TokenKey \ {t}
       PROVE  /\ M.token[k].mint = L.token[k].mint
              /\ M.token[k].owner = L.token[k].owner
              /\ M.token[k].amount = L.token[k].amount - (IF k = ax THEN n ELSE 0)
  <2>1. L1.token[k] = L.token[k] /\ M.token[k] = L2.token[k]
    BY <1>4, <1>6, <1>8, <1>9
  <2>2. /\ L2.token[k].mint = L1.token[k].mint
        /\ L2.token[k].owner = L1.token[k].owner
        /\ L2.token[k].amount = L1.token[k].amount + (IF k = t THEN n ELSE 0) - (IF k = ax THEN n ELSE 0)
    BY <1>5 DEF Moved
  <2>3. L1.token[k].amount \in Nat
    BY <1>9, RentAssumption DEF TokenAccount, U64
  <2> QED BY <1>1, <2>1, <2>2, <2>3
<1>12. /\ M.token[t].mint = mx /\ M.token[t].owner = Pda
       /\ ax # t => M.token[t].amount = n
  <2>1. L1.token[t] = [mint |-> mx, owner |-> alice, amount |-> 0]
    BY <1>1, <1>4, <1>9
  <2>2. /\ M.token[t].mint = L2.token[t].mint /\ M.token[t].owner = Pda
        /\ M.token[t].amount = L2.token[t].amount
    <3>1. M.token[t] = [L2.token[t] EXCEPT !.owner = Pda]
      BY <1>1, <1>6, <1>8, <1>9
    <3>2. L2.token[t] \in TokenAccount
      BY <1>1, <1>6, <1>9
    <3> QED BY <3>1, <3>2 DEF TokenAccount
  <2>3. /\ L2.token[t].mint = L1.token[t].mint
        /\ L2.token[t].amount = L1.token[t].amount + (IF t = t THEN n ELSE 0) - (IF t = ax THEN n ELSE 0)
    BY <1>1, <1>5 DEF Moved
  <2> QED BY <1>1, <2>1, <2>2, <2>3
<1>13. ay # t => IsTokenAccount(L, ay)
  <2>1. OwnedByTokenProgram(L3, ay)
    <3> DEFINE keys == <<alice, t, ay, e, TokenProgram>>
    <3>1. InitEscrowAccounts(keys).token_to_receive_account = ay
      BY DEF InitEscrowAccounts
    <3> HIDE DEF keys
    <3>2. InitEscrowOk(L3, keys, {alice}, price)
      BY <1>3 DEF keys
    <3> QED BY <3>1, <3>2 DEF InitEscrowOk, ReceiveAccountOk
  <2>2. IsTokenAccount(L3, ay)
    BY <1>1, <2>1, AddressAssumption DEF OwnedByTokenProgram
  <2>3. ASSUME ay # t PROVE L3.token[ay].mint = L.token[ay].mint
    <3>1. L1.token[ay] = L.token[ay]
      BY <1>1, <1>4, <1>9, <2>3
    <3> QED BY <1>1, <1>5, <1>6, <3>1 DEF Moved
  <2> QED BY <1>1, <2>2, <2>3 DEF IsTokenAccount
<1>14. QED
  BY <1>8, <1>10, <1>11, <1>12, <1>13 DEF M, e, t, ax, ay, mx, n

\* Alice pays the rent of her vault and of her escrow, and no token account
\* of hers or of anyone's changes its lamports.
LEMMA AliceLamports ==
  ASSUME NEW L \in Ledger, NEW r \in AliceRun, KeysOfKind(seen[r].files), AliceTransactionOk(L, r)
  PROVE  /\ \A k \in TokenKey \ {tmpXTokenAccount[r]} : AliceTransaction(L, r).lamports[k] = L.lamports[k]
         /\ AliceTransaction(L, r).lamports[tmpXTokenAccount[r]] = TokenRent
         /\ AliceTransaction(L, r).lamports[escrowAccount[r]] = EscrowRent
         /\ AliceTransaction(L, r).lamports[alice] = L.lamports[alice] - TokenRent - EscrowRent
<1> DEFINE t == tmpXTokenAccount[r]
           e == escrowAccount[r]
           n == terms[r].bobExpectedAmount
           price == terms[r].aliceExpectedAmount
           ax == Key(r, "alice_x")
           ay == Key(r, "alice_y")
           mx == Key(r, "mint_x")
           L1 == TmpCreated(L, r)
           L2 == TmpFunded(L, r)
           L3 == EscrowCreated(L, r)
           M == AliceTransaction(L, r)
<1>1. /\ alice \in Wallet /\ t \in TokenKey /\ e \in EscrowKey
      /\ n \in U64 /\ price \in U64 /\ n \in Nat
      /\ ax \in TokenKey /\ ay \in TokenKey /\ mx \in Mint
      /\ TokenRent \in U64 /\ EscrowRent \in U64
      /\ alice # t /\ alice # e /\ e # t /\ \A k \in TokenKey : k # alice /\ k # e
  BY ClientAssumption, AddressAssumption, RentAssumption DEF KeysOfKind, TokenFile, MintFile, Key, Run, U64
<1>2. /\ L1 = WithTokenAccount(L, alice, t, mx)
      /\ L2 = Transfer(L1, ax, t, n)
      /\ L3 = WithEscrowAccount(L2, alice, e, EscrowRent)
      /\ M = InitEscrowEffect(L3, <<alice, t, ay, e, TokenProgram>>, price)
  BY DEF TmpCreated, TmpFunded, EscrowCreated, AliceTransaction, InitEscrowKeys
<1>3. /\ CreateAccountOk(L, alice, t, TokenRent)
      /\ n <= L1.token[ax].amount
      /\ ax # t => L1.token[t].amount + n <= U64Max
      /\ CreateAccountOk(L2, alice, e, EscrowRent)
      /\ InitEscrowOk(L3, <<alice, t, ay, e, TokenProgram>>, {alice}, price)
  BY DEF AliceTransactionOk, TransferOk, InitEscrowKeys
<1> HIDE DEF t, e, n, price, ax, ay, mx, L1, L2, L3, M
<1>4. L1 \in Ledger
  BY <1>1, <1>2, <1>3, WithTokenAccountEffect
<1>5. L2 \in Ledger /\ Moved(L1, L2, ax, t, n)
  BY <1>1, <1>2, <1>3, <1>4, TransferEffect
<1>6. L3 \in Ledger
  BY <1>1, <1>2, <1>3, <1>5, WithEscrowAccountEffect
<1>7. EscrowPosted(L3, M, alice, t, ay, e, price)
  BY <1>1, <1>2, <1>3, <1>6, InitEscrowResult
<1>8. L1.lamports = [L.lamports EXCEPT ![alice] = L.lamports[alice] - TokenRent, ![t] = TokenRent]
  <2>1. CreateAccount(L, alice, t, TokenRent).lamports =
          [L.lamports EXCEPT ![alice] = L.lamports[alice] - TokenRent, ![t] = TokenRent]
    BY <1>1, <1>3, CreateAccountEffect DEF CreateAccountOk
  <2>2. L1.lamports = CreateAccount(L, alice, t, TokenRent).lamports
    BY <1>2 DEF WithTokenAccount, CreateAccount
  <2> QED BY <2>1, <2>2
<1>9. L3.lamports = [L2.lamports EXCEPT ![alice] = L2.lamports[alice] - EscrowRent, ![e] = EscrowRent]
  <2>1. CreateAccount(L2, alice, e, EscrowRent).lamports =
          [L2.lamports EXCEPT ![alice] = L2.lamports[alice] - EscrowRent, ![e] = EscrowRent]
    BY <1>1, <1>3, <1>5, CreateAccountEffect DEF CreateAccountOk
  <2>2. L3.lamports = CreateAccount(L2, alice, e, EscrowRent).lamports
    BY <1>2 DEF WithEscrowAccount, CreateAccount
  <2> QED BY <2>1, <2>2
<1>10. L2.lamports = L1.lamports /\ M.lamports = L3.lamports
  BY <1>5, <1>7 DEF Moved, EscrowPosted
<1>11. /\ L.lamports \in [Wallet \cup TokenKey \cup EscrowKey -> U64]
       /\ L2.lamports \in [Wallet \cup TokenKey \cup EscrowKey -> U64]
  BY <1>5, LedgerParts
<1>12. /\ \A k \in TokenKey \ {t} : M.lamports[k] = L.lamports[k]
       /\ M.lamports[t] = TokenRent /\ M.lamports[e] = EscrowRent
       /\ M.lamports[alice] = L.lamports[alice] - TokenRent - EscrowRent
  <2>1. /\ L2.lamports[alice] = L.lamports[alice] - TokenRent /\ L2.lamports[t] = TokenRent
        /\ \A k \in TokenKey \ {t} : L2.lamports[k] = L.lamports[k]
    BY <1>1, <1>8, <1>10, <1>11
  <2>2. /\ M.lamports[alice] = L2.lamports[alice] - EscrowRent /\ M.lamports[e] = EscrowRent
        /\ \A k \in TokenKey : M.lamports[k] = L2.lamports[k]
    BY <1>1, <1>9, <1>10, <1>11
  <2> QED BY <1>1, <2>1, <2>2
<1> QED
  BY <1>12 DEF M, e, t

\* Bob's instruction is accepted only for an initialised escrow, which it removes.
LEMMA BobTransactionResult ==
  ASSUME NEW L \in Ledger, NEW f, KeysOfKind(f), NEW state, NEW amount,
         ExchangeOk(L, ExchangeKeys(f, state), {bob}, amount),
         \A e \in EscrowKey : L.escrow[e].is_initialized => L.escrow[e].initializer_pubkey \in Wallet
  PROVE  /\ f["escrow"] \in EscrowKey /\ L.escrow[f["escrow"]].is_initialized
         /\ ExchangeEffect(L, ExchangeKeys(f, state)) \in Ledger
         /\ ExchangeEffect(L, ExchangeKeys(f, state)).escrow = [L.escrow EXCEPT ![f["escrow"]] = NoEscrow]
         /\ state.tmp_token_account_pubkey \in TokenKey
         /\ amount = L.token[state.tmp_token_account_pubkey].amount
         /\ EscrowSettled(L, ExchangeEffect(L, ExchangeKeys(f, state)), bob, f["bob_y"], f["bob_x"],
                          state.tmp_token_account_pubkey, state.initializer_pubkey,
                          state.initializer_token_to_receive_account_pubkey, f["escrow"],
                          L.escrow[f["escrow"]].expected_amount, amount)
<1> DEFINE keys == ExchangeKeys(f, state)
           a == ExchangeAccounts(keys)
           e == f["escrow"]
           tmp == state.tmp_token_account_pubkey
           main == state.initializer_pubkey
           recvY == state.initializer_token_to_receive_account_pubkey
<1>1. /\ keys = <<bob, f["bob_y"], f["bob_x"], tmp, main, recvY, e, TokenProgram, Pda>>
      /\ bob \in Wallet /\ f["bob_y"] \in TokenKey /\ f["bob_x"] \in TokenKey
  BY ClientAssumption DEF ExchangeKeys, KeysOfKind, TokenFile
<1>2. /\ a.pdas_tmp_token_account = tmp
      /\ a.initializers_main_account = main
      /\ a.initializers_token_to_receive_account = recvY
      /\ a.escrow_account = e
  BY <1>1 DEF ExchangeAccounts
<1>3. /\ IsTokenAccount(L, a.pdas_tmp_token_account)
      /\ a.escrow_account \in EscrowKey
      /\ MatchesEscrow(L.escrow[a.escrow_account], a)
      /\ IsTokenAccount(L, a.initializers_token_to_receive_account)
      /\ amount = L.token[a.pdas_tmp_token_account].amount
  BY DEF ExchangeOk, TransferOk
<1> HIDE DEF a, keys
<1>4. /\ tmp \in TokenKey /\ recvY \in TokenKey /\ e \in EscrowKey
      /\ L.escrow[e].is_initialized /\ L.escrow[e].initializer_pubkey = main
      /\ amount = L.token[tmp].amount
  BY <1>2, <1>3 DEF IsTokenAccount, MatchesEscrow
<1>5. main \in Wallet
  BY <1>4
<1>6. ExchangeOk(L, keys, {bob}, amount)
  BY DEF keys
<1> HIDE DEF e, tmp, main, recvY
<1>7. EscrowSettled(L, ExchangeEffect(L, keys), bob, f["bob_y"], f["bob_x"], tmp, main, recvY, e,
                    L.escrow[e].expected_amount, L.token[tmp].amount)
  BY <1>1, <1>4, <1>5, <1>6, ExchangeResult
<1>8. QED
  BY <1>4, <1>7 DEF EscrowSettled, keys, e, tmp, main, recvY

-----------------------------------------------------------------------------
(* The steps.                                                              *)

Place == Ended \cup {"alice", "verifyInitialized", "write", "bob", "decode", "aliceY", "bobX",
                     "send", "verifyClosed", "verifyAliceY", "verifyBobX"}
Seen == [files : Files, state : EscrowAccount, aliceY : U64, bobX : U64]

LEMMA ClientInitInv == ClientInit => ClientInv
<1> SUFFICES ASSUME ClientInit PROVE ClientInv
  OBVIOUS
<1>1. TypeOK
  BY InitInv DEF ClientInit, IInv
<1>2. \A e \in EscrowKey : ledger.escrow[e] = NoEscrow
  BY DEF ClientInit, Init
<1>3. NothingSeen \in Seen
  BY ClientAssumption, RentAssumption DEF NothingSeen, Seen, EscrowAccount, NoEscrow, U64
<1>4. ClientTypeOK
  BY <1>1, <1>3, ClientAssumption DEF ClientInit, ClientTypeOK, Run, Seen
<1>5. KeysOfKind(InitialFiles)
  BY ClientAssumption DEF KeysOfKind
<1>6. KeysOfKind(files) /\ \A r \in Run : KeysOfKind(seen[r].files)
  BY <1>5 DEF ClientInit, NothingSeen
<1>7. EscrowsMade
  BY <1>2 DEF EscrowsMade, NoEscrow
<1>8. \A r \in BobRun : ReadEscrow(r)
  BY ClientAssumption DEF ClientInit, ReadEscrow, AfterDecode, AfterClosed, Run
<1>9. SentOnce
  BY DEF ClientInit, SentOnce
<1>10. QED
  BY <1>4, <1>6, <1>7, <1>8, <1>9 DEF ClientInv

\* A run goes on to place and then knows s; it may have sent its transaction.
LEMMA RunStep ==
  ASSUME ClientInv, NEW r \in Run, NEW place \in Place, NEW s \in Seen,
         ledger' = ledger, files' \in Files, KeysOfKind(files'),
         pc' = [pc EXCEPT ![r] = place],
         seen' = [seen EXCEPT ![r] = s],
         KeysOfKind(s.files),
         tx' = tx \/ (tx[r] = "none" /\ tx' = [tx EXCEPT ![r] = "pending"]),
         place \in BeforeSend => tx'[r] = "none",
         r \in BobRun /\ place \in AfterDecode => \E a \in AliceRun : MadeBy(s.files["escrow"], a),
         r \in BobRun /\ place \in AfterClosed => ~ ledger.escrow[s.files["escrow"]].allocated
  PROVE  ClientInv'
<1>1. /\ TypeOK /\ files \in Files
      /\ tx \in [Run -> {"none", "pending", "ok", "error", "expired"}]
      /\ pc \in [Run -> Place] /\ seen \in [Run -> Seen]
  BY DEF ClientInv, ClientTypeOK, Place, Seen
<1>2. ClientTypeOK'
  <2>1. TypeOK'
    BY <1>1 DEF TypeOK
  <2>2. /\ tx' \in [Run -> {"none", "pending", "ok", "error", "expired"}]
        /\ pc' \in [Run -> Place] /\ seen' \in [Run -> Seen]
    BY <1>1
  <2>3. QED
    BY <2>1, <2>2 DEF ClientTypeOK, Place, Seen
<1>3. \A e, a : MadeBy(e, a) => MadeBy(e, a)'
  BY <1>1 DEF MadeBy, Run
<1>4. EscrowsMade'
  BY <1>3 DEF ClientInv, EscrowsMade
<1>5. \A q \in Run : /\ pc'[q] = IF q = r THEN place ELSE pc[q]
                     /\ seen'[q] = IF q = r THEN s ELSE seen[q]
                     /\ q # r => tx'[q] = tx[q]
  BY <1>1
<1>6. \A q \in Run : KeysOfKind(seen'[q].files)
  BY <1>5 DEF ClientInv
<1>7. \A q \in BobRun : ReadEscrow(q)'
  <2> SUFFICES ASSUME NEW q \in BobRun PROVE ReadEscrow(q)'
    OBVIOUS
  <2>1. q \in Run /\ ReadEscrow(q)
    BY DEF Run, ClientInv
  <2>2. CASE q = r
    <3>1. pc'[q] = place /\ seen'[q] = s
      BY <1>5, <2>1, <2>2
    <3>2. QED
      BY <1>3, <2>2, <3>1 DEF ReadEscrow, Key
  <2>3. CASE q # r
    <3>1. pc'[q] = pc[q] /\ seen'[q] = seen[q]
      BY <1>5, <2>1, <2>3
    <3>2. QED
      BY <1>3, <2>1, <3>1 DEF ReadEscrow, Key
  <2>4. QED
    BY <2>2, <2>3
<1>8. SentOnce'
  BY <1>5 DEF SentOnce, ClientInv
<1>9. QED
  BY <1>2, <1>4, <1>6, <1>7, <1>8 DEF ClientInv

\* The cluster decides a transaction without executing it.
LEMMA NotExecuted ==
  ASSUME ClientInv, NEW r \in Run, tx[r] = "pending", NEW v \in {"error", "expired"},
         tx' = [tx EXCEPT ![r] = v], UNCHANGED <<ledger, files, pc, seen>>
  PROVE  ClientInv'
<1>1. tx \in [Run -> {"none", "pending", "ok", "error", "expired"}]
  BY DEF ClientInv, ClientTypeOK
<1>2. ClientTypeOK'
  BY <1>1 DEF ClientInv, ClientTypeOK, TypeOK
<1>3. \A e, a : MadeBy(e, a) => MadeBy(e, a)'
  BY <1>1 DEF MadeBy, Run
<1>4. EscrowsMade' /\ \A q \in BobRun : ReadEscrow(q)'
  BY <1>3 DEF ClientInv, EscrowsMade, ReadEscrow, Key
<1>5. SentOnce'
  BY <1>1 DEF SentOnce, ClientInv
<1>6. QED
  BY <1>2, <1>4, <1>5 DEF ClientInv, Run

LEMMA ExecutedInv ==
  ASSUME ClientInv, NEW r \in Run, tx[r] = "pending", TransactionOk(r),
         ledger' = Transaction(r), tx' = [tx EXCEPT ![r] = "ok"], UNCHANGED <<files, pc, seen>>
  PROVE  ClientInv'
<1>1. /\ tx \in [Run -> {"none", "pending", "ok", "error", "expired"}]
      /\ ledger \in Ledger /\ KeysOfKind(seen[r].files)
  BY DEF ClientInv, ClientTypeOK, TypeOK
<1>2. \A e, a : MadeBy(e, a) => MadeBy(e, a)' /\ a # r
  BY <1>1 DEF MadeBy, Run
<1>3. SentOnce'
  BY <1>1 DEF SentOnce, ClientInv
<1>4. SUFFICES /\ ledger' \in Ledger
               /\ EscrowsMade'
               /\ \A q \in BobRun : pc[q] \in AfterClosed => ~ ledger'.escrow[Key(q, "escrow")].allocated
  <2> SUFFICES ASSUME ledger' \in Ledger, EscrowsMade',
                      \A q \in BobRun : pc[q] \in AfterClosed => ~ ledger'.escrow[Key(q, "escrow")].allocated
               PROVE  ClientInv'
    OBVIOUS
  <2>1. ClientTypeOK'
    BY <1>1 DEF ClientInv, ClientTypeOK, TypeOK
  <2>2. \A q \in BobRun : ReadEscrow(q)'
    BY <1>2 DEF ClientInv, ReadEscrow, Key
  <2>3. QED
    BY <1>3, <2>1, <2>2 DEF ClientInv
<1>5. CASE r \in AliceRun
  <2>1. AliceTransactionOk(ledger, r) /\ ledger' = AliceTransaction(ledger, r)
    BY <1>5 DEF TransactionOk, Transaction
  <2> DEFINE e == escrowAccount[r]
  <2>2. /\ ledger' \in Ledger
        /\ \A f \in EscrowKey \ {e} : ledger'.escrow[f] = ledger.escrow[f]
        /\ ledger'.escrow[e].allocated /\ ledger'.escrow[e].is_initialized
        /\ ledger'.escrow[e].initializer_pubkey = alice
    <3>1. ledger' \in Ledger /\ ledger'.escrow = [ledger.escrow EXCEPT ![e] = PostedState(r)]
      BY <1>1, <1>5, <2>1, AliceTransactionResult
    <3>2. e \in EscrowKey /\ ledger.escrow \in [EscrowKey -> EscrowAccount]
      BY <1>1, <1>5, ClientAssumption, LedgerParts
    <3> QED BY <3>1, <3>2 DEF PostedState
  <2>3. MadeBy(e, r)' /\ alice \in Wallet
    BY <1>1, <1>5, ClientAssumption DEF MadeBy
  <2>4. EscrowsMade'
    <3>1. EscrowsMade
      BY DEF ClientInv
    <3>2. \A f \in EscrowKey : ledger'.escrow[f].allocated => \E a \in AliceRun : MadeBy(f, a)'
      <4> SUFFICES ASSUME NEW f \in EscrowKey, ledger'.escrow[f].allocated
                   PROVE  \E a \in AliceRun : MadeBy(f, a)'
        OBVIOUS
      <4>1. CASE f = e
        BY <1>5, <2>3, <4>1
      <4>2. CASE f # e
        BY <1>2, <2>2, <3>1, <4>2 DEF EscrowsMade
      <4>3. QED
        BY <4>1, <4>2
    <3>3. \A f \in EscrowKey : ledger'.escrow[f].is_initialized =>
            ledger'.escrow[f].allocated /\ ledger'.escrow[f].initializer_pubkey \in Wallet
      BY <2>2, <2>3, <3>1 DEF EscrowsMade
    <3>4. QED
      BY <3>2, <3>3 DEF EscrowsMade
  <2>5. \A f, a : MadeBy(f, a) => f \in EscrowKey /\ f # e
    BY <1>2, <1>5, ClientAssumption DEF MadeBy
  <2>6. \A q \in BobRun : pc[q] \in AfterClosed => ~ ledger'.escrow[Key(q, "escrow")].allocated
    <3> SUFFICES ASSUME NEW q \in BobRun, pc[q] \in AfterClosed
                 PROVE  ~ ledger'.escrow[Key(q, "escrow")].allocated
      OBVIOUS
    <3>1. PICK a \in AliceRun : MadeBy(Key(q, "escrow"), a)
      BY DEF ClientInv, ReadEscrow, AfterClosed, AfterDecode
    <3>2. ~ ledger.escrow[Key(q, "escrow")].allocated
      <4>1. ReadEscrow(q)
        BY DEF ClientInv
      <4>2. QED
        BY <4>1 DEF ReadEscrow
    <3>3. Key(q, "escrow") \in EscrowKey \ {e}
      BY <2>5, <3>1
    <3>4. QED
      BY <2>2, <3>2, <3>3
  <2>7. QED
    BY <2>2, <2>4, <2>6
<1>6. CASE r \in BobRun
  <2>0. PICK f, state, amount : f = seen[r].files /\ state = seen[r].state /\ amount = BobAmount(ledger, r)
    OBVIOUS
  <2>1. /\ ExchangeOk(ledger, ExchangeKeys(f, state), {bob}, amount)
        /\ ledger' = ExchangeEffect(ledger, ExchangeKeys(f, state))
        /\ KeysOfKind(f)
    BY <1>1, <1>6, <2>0, ClientAssumption DEF TransactionOk, Transaction
  <2>e. PICK e : e = f["escrow"]
    OBVIOUS
  <2>2. \A g \in EscrowKey : ledger.escrow[g].is_initialized => ledger.escrow[g].initializer_pubkey \in Wallet
    BY DEF ClientInv, EscrowsMade
  <2>3. e \in EscrowKey /\ ledger' \in Ledger /\ ledger'.escrow = [ledger.escrow EXCEPT ![e] = NoEscrow]
    <3>1. /\ f["escrow"] \in EscrowKey /\ ledger.escrow[f["escrow"]].is_initialized
          /\ ExchangeEffect(ledger, ExchangeKeys(f, state)) \in Ledger
          /\ ExchangeEffect(ledger, ExchangeKeys(f, state)).escrow = [ledger.escrow EXCEPT ![f["escrow"]] = NoEscrow]
      BY <1>1, <2>1, <2>2, BobTransactionResult
    <3>2. QED
      BY <2>1, <2>e, <3>1
  <2>4. \A g \in EscrowKey : ledger'.escrow[g] = IF g = e THEN NoEscrow ELSE ledger.escrow[g]
    BY <1>1, <2>3, LedgerParts
  <2>5. EscrowsMade'
    BY <1>2, <2>4 DEF ClientInv, EscrowsMade, NoEscrow
  <2>6. \A q \in BobRun : pc[q] \in AfterClosed => ~ ledger'.escrow[Key(q, "escrow")].allocated
    <3> SUFFICES ASSUME NEW q \in BobRun, pc[q] \in AfterClosed
                 PROVE  ~ ledger'.escrow[Key(q, "escrow")].allocated
      OBVIOUS
    <3>1. PICK a \in AliceRun : MadeBy(Key(q, "escrow"), a)
      BY DEF ClientInv, ReadEscrow, AfterClosed, AfterDecode
    <3>2. ~ ledger.escrow[Key(q, "escrow")].allocated
      <4>1. ReadEscrow(q)
        BY DEF ClientInv
      <4>2. QED
        BY <4>1 DEF ReadEscrow
    <3>3. Key(q, "escrow") \in EscrowKey
      BY <3>1, ClientAssumption DEF MadeBy
    <3>4. QED
      BY <2>4, <3>2, <3>3 DEF NoEscrow
  <2>7. QED
    BY <2>3, <2>5, <2>6
<1>7. QED
  BY <1>5, <1>6 DEF Run

\* What a run of either party can rely on before its step.
LEMMA BeforeStep ==
  ASSUME ClientInv, NEW r \in Run
  PROVE  /\ seen[r] \in Seen /\ seen = [seen EXCEPT ![r] = seen[r]]
         /\ seen[r].files \in Files /\ KeysOfKind(seen[r].files)
         /\ files \in Files /\ KeysOfKind(files)
         /\ pc[r] \in BeforeSend => tx[r] = "none"
         /\ r \in BobRun => ReadEscrow(r)
         /\ r \in AliceRun <=> r \notin BobRun
         /\ \A e \in EscrowKey : ledger.escrow[e] \in EscrowAccount
         /\ \A k \in TokenKey : ledger.token[k].amount \in U64
<1>1. seen \in [Run -> Seen] /\ ledger \in Ledger
  BY DEF ClientInv, ClientTypeOK, Seen, TypeOK
<1>2. /\ \A e \in EscrowKey : ledger.escrow[e] \in EscrowAccount
      /\ \A k \in TokenKey : ledger.token[k].amount \in U64
  BY <1>1, LedgerParts DEF TokenAccount
<1>3. seen[r] \in Seen /\ seen = [seen EXCEPT ![r] = seen[r]] /\ seen[r].files \in Files
  BY <1>1 DEF Seen
<1>4. /\ files \in Files /\ KeysOfKind(files) /\ KeysOfKind(seen[r].files)
      /\ pc[r] \in BeforeSend => tx[r] = "none"
      /\ r \in BobRun => ReadEscrow(r)
  BY DEF ClientInv, ClientTypeOK, SentOnce
<1>5. r \in AliceRun <=> r \notin BobRun
  BY ClientAssumption DEF Run
<1>6. QED
  BY <1>2, <1>3, <1>4, <1>5

\* Steps that change nothing but where the run is.
LEMMA MoveInv ==
  ASSUME ClientInv, NEW r \in Run, NEW place \in Place, Goto(r, place),
         UNCHANGED <<ledger, files, tx, seen>>,
         place \notin BeforeSend,
         r \in BobRun /\ place \in AfterDecode => pc[r] \in AfterDecode,
         r \in BobRun /\ place \in AfterClosed => pc[r] \in AfterClosed \/ Closed(r)
  PROVE  ClientInv'
<1>1. r \in BobRun /\ place \in AfterDecode => \E a \in AliceRun : MadeBy(seen[r].files["escrow"], a)
  BY BeforeStep DEF ReadEscrow, Key
<1>2. r \in BobRun /\ place \in AfterClosed => ~ ledger.escrow[seen[r].files["escrow"]].allocated
  BY BeforeStep DEF ReadEscrow, Closed, Key
<1>3. pc' = [pc EXCEPT ![r] = place] /\ seen' = [seen EXCEPT ![r] = seen[r]] /\ seen[r] \in Seen
  BY BeforeStep DEF Goto
<1>4. QED
  BY <1>1, <1>2, <1>3, BeforeStep, RunStep

LEMMA StartInv ==
  ASSUME ClientInv, NEW r \in Run, (AliceStart(r) /\ r \in AliceRun) \/ (BobStart(r) /\ r \in BobRun)
  PROVE  ClientInv'
<1>1. PICK place \in {"send", "decode"} :
        /\ pc[r] \in BeforeSend
        /\ r \in BobRun => place = "decode"
        /\ seen' = [seen EXCEPT ![r].files = files]
        /\ Goto(r, place)
        /\ UNCHANGED <<ledger, files, tx>>
  BY BeforeStep DEF AliceStart, BobStart, ReadPublicKeys, BeforeSend
<1>2. PICK s : s = [seen[r] EXCEPT !.files = files]
  OBVIOUS
<1>3. s \in Seen /\ s.files = files
  BY <1>2, BeforeStep DEF Seen
<1>4. seen' = [seen EXCEPT ![r] = s]
  BY <1>1, <1>2
<1>5. place \in Place /\ place \notin AfterClosed /\ (r \in BobRun => place \notin AfterDecode)
  BY <1>1 DEF Place, AfterDecode, AfterClosed
<1>6. QED
  BY <1>1, <1>3, <1>4, <1>5, BeforeStep, RunStep DEF Goto

LEMMA SubmitInv ==
  ASSUME ClientInv, NEW r \in Run, (AliceSend(r) /\ r \in AliceRun) \/ (BobSend(r) /\ r \in BobRun)
  PROVE  ClientInv'
<1>1. PICK place \in {"verifyInitialized", "verifyClosed"} : Submit(r, "send", place)
  BY DEF AliceSend, BobSend
<1>2. CASE TransactionOk(r)
  <2>1. /\ pc[r] = "send" /\ pc' = [pc EXCEPT ![r] = place] /\ tx' = [tx EXCEPT ![r] = "pending"]
        /\ UNCHANGED <<ledger, files, seen>>
    BY <1>1, <1>2 DEF Submit, Goto
  <2>2. place \in Place /\ place \notin AfterClosed /\ place \notin BeforeSend /\ tx[r] = "none"
    BY <2>1, BeforeStep DEF Place, AfterClosed, BeforeSend
  <2>3. r \in BobRun => \E a \in AliceRun : MadeBy(seen[r].files["escrow"], a)
    BY <2>1, BeforeStep DEF ReadEscrow, AfterDecode, Key
  <2>4. seen' = [seen EXCEPT ![r] = seen[r]] /\ seen[r] \in Seen
    BY <2>1, BeforeStep
  <2>5. QED
    BY <2>1, <2>2, <2>3, <2>4, BeforeStep, RunStep
<1>3. CASE ~ TransactionOk(r)
  BY <1>1, <1>3, MoveInv DEF Submit, Place, Ended, BeforeSend, AfterDecode, AfterClosed
<1>4. QED
  BY <1>2, <1>3

LEMMA AliceVerifyInv ==
  ASSUME ClientInv, NEW r \in AliceRun, VerifyInitializedEscrow(r)
  PROVE  ClientInv'
<1>1. PICK place \in {"write", "refuted"} : Goto(r, place) /\ UNCHANGED <<ledger, files, tx, seen>>
  BY DEF VerifyInitializedEscrow
<1>2. r \in Run /\ r \notin BobRun
  BY ClientAssumption DEF Run
<1>3. QED
  BY <1>1, <1>2, MoveInv DEF Place, Ended, BeforeSend

LEMMA WriteInv ==
  ASSUME ClientInv, NEW r \in AliceRun, WritePublicKey(r)
  PROVE  ClientInv'
<1>1. r \in Run /\ r \notin BobRun /\ escrowAccount[r] \in EscrowKey
  BY ClientAssumption DEF Run
<1>2. /\ files' = [files EXCEPT !["escrow"] = escrowAccount[r]]
      /\ pc' = [pc EXCEPT ![r] = "done"] /\ UNCHANGED <<ledger, tx, seen>>
  BY DEF WritePublicKey, Goto
<1>3. files' \in Files /\ KeysOfKind(files')
  BY <1>1, <1>2, BeforeStep DEF Files, KeysOfKind, TokenFile, MintFile
<1>4. "done" \in Place /\ "done" \notin BeforeSend
  BY DEF Place, Ended, BeforeSend
<1>5. QED
  BY <1>1, <1>2, <1>3, <1>4, BeforeStep, RunStep

LEMMA DecodeInv ==
  ASSUME ClientInv, NEW r \in BobRun, DecodeEscrow(r)
  PROVE  ClientInv'
<1>1. r \in Run
  BY DEF Run
<1>2. CASE Key(r, "escrow") \in EscrowKey /\ ledger.escrow[Key(r, "escrow")].allocated
  <2>1. PICK s : s = [seen[r] EXCEPT !.state = ledger.escrow[Key(r, "escrow")]]
    OBVIOUS
  <2>2. s \in Seen /\ s.files = seen[r].files
    BY <1>1, <1>2, <2>1, BeforeStep DEF Seen
  <2>3. /\ pc[r] = "decode" /\ pc' = [pc EXCEPT ![r] = "aliceY"] /\ seen' = [seen EXCEPT ![r] = s]
        /\ UNCHANGED <<ledger, files, tx>>
    BY <1>2, <2>1 DEF DecodeEscrow, Goto
  <2>4. "aliceY" \in Place /\ "aliceY" \notin AfterClosed /\ tx[r] = "none"
    BY <1>1, <2>3, BeforeStep DEF Place, AfterClosed, BeforeSend
  <2>5. \E a \in AliceRun : MadeBy(s.files["escrow"], a)
    BY <1>2, <2>2 DEF ClientInv, EscrowsMade, Key
  <2>6. QED
    BY <1>1, <2>2, <2>3, <2>4, <2>5, BeforeStep, RunStep
<1>3. CASE ~ (Key(r, "escrow") \in EscrowKey /\ ledger.escrow[Key(r, "escrow")].allocated)
  BY <1>1, <1>3, MoveInv DEF DecodeEscrow, Place, Ended, BeforeSend, AfterDecode, AfterClosed
<1>4. QED
  BY <1>2, <1>3

LEMMA ReadBalanceInv ==
  ASSUME ClientInv, NEW r \in BobRun, ReadAliceY(r) \/ ReadBobX(r)
  PROVE  ClientInv'
<1>1. r \in Run
  BY DEF Run
<1>2. CASE Goto(r, "failed") /\ UNCHANGED <<ledger, files, tx, seen>>
  BY <1>1, <1>2, MoveInv DEF Place, Ended, BeforeSend, AfterDecode, AfterClosed
<1>3. CASE ~ (Goto(r, "failed") /\ UNCHANGED <<ledger, files, tx, seen>>)
  <2>1. PICK s \in Seen, place \in {"bobX", "send"} :
          /\ s.files = seen[r].files
          /\ pc[r] \in {"aliceY", "bobX"}
          /\ pc' = [pc EXCEPT ![r] = place] /\ seen' = [seen EXCEPT ![r] = s]
          /\ UNCHANGED <<ledger, files, tx>>
    <3>1. CASE ReadAliceY(r)
      <4>1. PICK v, s : v = ledger.token[Key(r, "alice_y")].amount /\ s = [seen[r] EXCEPT !.aliceY = v]
        OBVIOUS
      <4>2. /\ Key(r, "alice_y") \in TokenKey /\ pc[r] = "aliceY"
            /\ pc' = [pc EXCEPT ![r] = "bobX"] /\ seen' = [seen EXCEPT ![r] = s]
            /\ UNCHANGED <<ledger, files, tx>>
        BY <1>3, <3>1, <4>1 DEF ReadAliceY, Found, IsTokenAccount, Goto
      <4>3. v \in U64 /\ seen[r] \in Seen
        BY <1>1, <4>1, <4>2, BeforeStep
      <4>4. s \in Seen /\ s.files = seen[r].files
        BY <4>1, <4>3 DEF Seen
      <4>5. QED
        BY <4>2, <4>4
    <3>2. CASE ReadBobX(r)
      <4>1. PICK v, s : v = ledger.token[Key(r, "bob_x")].amount /\ s = [seen[r] EXCEPT !.bobX = v]
        OBVIOUS
      <4>2. /\ Key(r, "bob_x") \in TokenKey /\ pc[r] = "bobX"
            /\ pc' = [pc EXCEPT ![r] = "send"] /\ seen' = [seen EXCEPT ![r] = s]
            /\ UNCHANGED <<ledger, files, tx>>
        BY <1>3, <3>2, <4>1 DEF ReadBobX, Found, IsTokenAccount, Goto
      <4>3. v \in U64 /\ seen[r] \in Seen
        BY <1>1, <4>1, <4>2, BeforeStep
      <4>4. s \in Seen /\ s.files = seen[r].files
        BY <4>1, <4>3 DEF Seen
      <4>5. QED
        BY <4>2, <4>4
    <3>3. QED
      BY <3>1, <3>2
  <2>2. place \in Place /\ place \notin AfterClosed /\ tx[r] = "none"
    BY <1>1, <2>1, BeforeStep DEF Place, AfterClosed, BeforeSend
  <2>3. \E a \in AliceRun : MadeBy(s.files["escrow"], a)
    BY <1>1, <2>1, BeforeStep DEF ReadEscrow, AfterDecode, Key
  <2>4. QED
    BY <1>1, <2>1, <2>2, <2>3, BeforeStep, RunStep
<1>4. QED
  BY <1>2, <1>3

LEMMA BobVerifyInv ==
  ASSUME ClientInv, NEW r \in BobRun, VerifyExchangedEscrow(r)
  PROVE  ClientInv'
<1>1. r \in Run
  BY DEF Run
<1>2. PICK place \in {"verifyAliceY", "verifyBobX", "done", "refuted"} :
        /\ Goto(r, place) /\ UNCHANGED <<ledger, files, tx, seen>>
        /\ pc[r] \in {"verifyClosed", "verifyAliceY", "verifyBobX"}
        /\ place # "refuted" => pc[r] \in AfterClosed \/ Closed(r)
  BY DEF VerifyExchangedEscrow, AfterClosed
<1>3. QED
  BY <1>1, <1>2, MoveInv DEF Place, Ended, BeforeSend, AfterDecode, AfterClosed

LEMMA ClusterInv ==
  ASSUME ClientInv, NEW r \in Run, Execute(r) \/ Expire(r) \/ Throw(r)
  PROVE  ClientInv'
<1>1. CASE Execute(r) /\ TransactionOk(r)
  BY <1>1, ExecutedInv DEF Execute
<1>2. CASE Execute(r) /\ ~ TransactionOk(r)
  BY <1>2, NotExecuted DEF Execute
<1>3. CASE Expire(r)
  BY <1>3, NotExecuted DEF Expire
<1>4. CASE Throw(r)
  BY <1>4, MoveInv DEF Throw, Place, Ended, BeforeSend, AfterDecode, AfterClosed
<1>5. QED
  BY <1>1, <1>2, <1>3, <1>4

LEMMA ClientNextInv == ClientInv /\ [ClientNext]_cvars => ClientInv'
<1> SUFFICES ASSUME ClientInv, [ClientNext]_cvars PROVE ClientInv'
  OBVIOUS
<1>1. ASSUME NEW r \in AliceRun,
             AliceStart(r) \/ AliceSend(r) \/ VerifyInitializedEscrow(r) \/ WritePublicKey(r)
      PROVE  ClientInv'
  BY <1>1, StartInv, SubmitInv, AliceVerifyInv, WriteInv DEF Run
<1>2. ASSUME NEW r \in BobRun,
             \/ BobStart(r) \/ DecodeEscrow(r) \/ ReadAliceY(r) \/ ReadBobX(r)
             \/ BobSend(r) \/ VerifyExchangedEscrow(r)
      PROVE  ClientInv'
  BY <1>2, StartInv, SubmitInv, DecodeInv, ReadBalanceInv, BobVerifyInv DEF Run
<1>3. ASSUME NEW r \in Run, Execute(r) \/ Expire(r) \/ Throw(r)
      PROVE  ClientInv'
  BY <1>3, ClusterInv
<1>4. CASE UNCHANGED cvars
  BY <1>4 DEF cvars, ClientInv, ClientTypeOK, TypeOK, SentOnce, EscrowsMade, ReadEscrow, MadeBy, Key
<1>5. QED
  BY <1>1, <1>2, <1>3, <1>4 DEF ClientNext

(***************************************************************************)
(* The inductive invariant holds in every reachable state of any number of *)
(* runs of Alice and Bob: key files name what they should, an escrow is    *)
(* made by one executed transaction of Alice, and what a run of Bob has    *)
(* seen closed stays closed.                                               *)
(***************************************************************************)
THEOREM ClientInvariance == ClientSpec => []ClientInv
BY ClientInitInv, ClientNextInv, PTL DEF ClientSpec

(***************************************************************************)
(* Runs that compete for the parties' accounts leave well-formed accounts  *)
(* and key files, for any number of runs.                                  *)
(***************************************************************************)
THEOREM ClientTypeCorrect == ClientSpec => []ClientTypeOK
<1>1. ClientInv => ClientTypeOK
  BY DEF ClientInv
<1>2. QED
  BY <1>1, ClientInvariance, PTL

(***************************************************************************)
(* A run of Bob that has reported a verified exchange does not pay later,  *)
(* whatever other runs have done meanwhile (verify.ts:87-126): it has seen *)
(* the escrow closed, and no run makes an escrow at that address again.    *)
(***************************************************************************)
THEOREM NothingPaidLate == ClientSpec => NoLatePayment
<1> DEFINE Late == \E r \in BobRun : pc[r] = "done" /\ tx[r] = "pending" /\ tx'[r] = "ok"
<1>1. ClientInv /\ [ClientNext]_cvars => ~ Late
  <2> SUFFICES ASSUME ClientInv, [ClientNext]_cvars, NEW r \in BobRun,
                      pc[r] = "done", tx[r] = "pending", tx'[r] = "ok"
               PROVE  FALSE
    OBVIOUS
  <2>1. r \in Run /\ r \notin AliceRun
    BY ClientAssumption DEF Run
  <2>2. tx \in [Run -> {"none", "pending", "ok", "error", "expired"}]
    BY DEF ClientInv, ClientTypeOK
  <2>3. Execute(r) /\ TransactionOk(r)
    BY <2>1, <2>2 DEF ClientNext, cvars, AliceStart, BobStart, ReadPublicKeys, AliceSend, BobSend, Submit,
       VerifyInitializedEscrow, WritePublicKey, DecodeEscrow, ReadAliceY, ReadBobX,
       VerifyExchangedEscrow, Execute, Expire, Throw
  <2>4. ExchangeOk(ledger, ExchangeKeys(seen[r].files, seen[r].state), {bob}, BobAmount(ledger, r))
    BY <2>1, <2>3 DEF TransactionOk
  <2>5. /\ KeysOfKind(seen[r].files) /\ ReadEscrow(r) /\ ledger \in Ledger
        /\ \A e \in EscrowKey : ledger.escrow[e].is_initialized =>
             ledger.escrow[e].allocated /\ ledger.escrow[e].initializer_pubkey \in Wallet
    BY <2>1 DEF ClientInv, ClientTypeOK, TypeOK, EscrowsMade
  <2>6. /\ seen[r].files["escrow"] \in EscrowKey
        /\ ledger.escrow[seen[r].files["escrow"]].is_initialized
    BY <2>4, <2>5, BobTransactionResult
  <2>7. ~ ledger.escrow[seen[r].files["escrow"]].allocated
    BY <2>5 DEF ReadEscrow, AfterClosed, Key
  <2>8. QED
    BY <2>5, <2>6, <2>7
<1>2. ~ Late => \A r \in BobRun : pc[r] = "done" /\ tx[r] = "pending" => tx'[r] # "ok"
  OBVIOUS
<1>3. ClientInv /\ [ClientNext]_cvars =>
        [\A r \in BobRun : pc[r] = "done" /\ tx[r] = "pending" => tx'[r] # "ok"]_cvars
  BY <1>1, <1>2
<1>4. QED
  BY <1>3, ClientInvariance, PTL DEF ClientSpec, NoLatePayment

-----------------------------------------------------------------------------
(* What is on the ledger and what the runs have read of it.                *)

\* A run of Bob has decoded an escrow.
Informed(r) == pc[r] \in AfterDecode \/ tx[r] # "none"

\* An escrow a run of Alice has posted is as she has recorded it or closed,
\* and what a run of Bob knows of its escrow is what has been recorded.
PostedInv ==
  /\ \A a \in AliceRun : tx[a] = "ok" => ledger.escrow[escrowAccount[a]] \in {PostedState(a), NoEscrow}
  /\ \A r \in BobRun : Informed(r) =>
       \E a \in AliceRun : MadeBy(Key(r, "escrow"), a) /\ seen[r].state = PostedState(a)

\* Steps that execute no transaction of a run.
Quiet ==
  /\ ledger'.escrow = ledger.escrow
  /\ \A r \in Run : /\ tx'[r] = "ok" <=> tx[r] = "ok"
                    /\ tx[r] # "none" => seen'[r] = seen[r]
  /\ \A r \in BobRun : Informed(r)' =>
       /\ seen'[r].files = seen[r].files
       /\ \/ Informed(r) /\ seen'[r].state = seen[r].state
          \/ /\ Key(r, "escrow") \in EscrowKey
             /\ ledger.escrow[Key(r, "escrow")].allocated
             /\ seen'[r].state = ledger.escrow[Key(r, "escrow")]

\* One run goes on to place, then knows s and has its transaction at v.
LEMMA OneRunQuiet ==
  ASSUME ClientInv, NEW r \in Run, NEW place, NEW s, NEW v,
         ledger' = ledger,
         pc' = [pc EXCEPT ![r] = place], seen' = [seen EXCEPT ![r] = s], tx' = [tx EXCEPT ![r] = v],
         v = "ok" <=> tx[r] = "ok",
         tx[r] # "none" => s = seen[r],
         r \in BobRun /\ (place \in AfterDecode \/ v # "none") =>
           /\ s.files = seen[r].files
           /\ \/ Informed(r) /\ s.state = seen[r].state
              \/ /\ Key(r, "escrow") \in EscrowKey
                 /\ ledger.escrow[Key(r, "escrow")].allocated
                 /\ s.state = ledger.escrow[Key(r, "escrow")]
  PROVE  Quiet
<1>1. /\ tx \in [Run -> {"none", "pending", "ok", "error", "expired"}]
      /\ pc \in [Run -> Place] /\ seen \in [Run -> Seen]
  BY DEF ClientInv, ClientTypeOK, Place, Seen
<1>2. /\ pc'[r] = place /\ seen'[r] = s /\ tx'[r] = v
      /\ \A q \in Run : q # r => pc'[q] = pc[q] /\ seen'[q] = seen[q] /\ tx'[q] = tx[q]
  BY <1>1
<1>3. \A q \in Run : /\ tx'[q] = "ok" <=> tx[q] = "ok"
                     /\ tx[q] # "none" => seen'[q] = seen[q]
  BY <1>2
<1>4. ASSUME NEW q \in BobRun, Informed(q)'
      PROVE  /\ seen'[q].files = seen[q].files
             /\ \/ Informed(q) /\ seen'[q].state = seen[q].state
                \/ /\ Key(q, "escrow") \in EscrowKey
                   /\ ledger.escrow[Key(q, "escrow")].allocated
                   /\ seen'[q].state = ledger.escrow[Key(q, "escrow")]
  <2>1. q \in Run
    BY DEF Run
  <2>2. CASE q = r
    <3>1. place \in AfterDecode \/ v # "none"
      BY <1>2, <1>4, <2>2 DEF Informed
    <3> QED BY <1>2, <2>2, <3>1
  <2>3. CASE q # r
    BY <1>2, <1>4, <2>1, <2>3 DEF Informed
  <2> QED BY <2>2, <2>3
<1> QED
  BY <1>3, <1>4 DEF Quiet

\* The cluster executes a run's transaction.
Executes(r) == Execute(r) /\ TransactionOk(r)

LEMMA ClientStep ==
  ASSUME ClientInv, [ClientNext]_cvars
  PROVE  (Quiet /\ ledger' = ledger) \/ \E r \in Run : Executes(r)
<1> SUFFICES ASSUME ~ \E r \in Run : Executes(r)
             PROVE  Quiet /\ ledger' = ledger
  OBVIOUS
<1>0. ASSUME NEW r \in Run
      PROVE  /\ tx = [tx EXCEPT ![r] = tx[r]] /\ seen = [seen EXCEPT ![r] = seen[r]]
             /\ pc = [pc EXCEPT ![r] = pc[r]]
             /\ pc[r] \in BeforeSend => tx[r] = "none"
             /\ r \in AliceRun <=> r \notin BobRun
  BY BeforeStep DEF ClientInv, ClientTypeOK
<1>1. ASSUME NEW r \in Run, (AliceStart(r) /\ r \in AliceRun) \/ (BobStart(r) /\ r \in BobRun)
      PROVE  Quiet /\ ledger' = ledger
  <2>1. PICK place \in {"send", "decode"} :
          /\ pc[r] \in BeforeSend /\ r \in BobRun => place = "decode"
          /\ pc[r] \in BeforeSend
          /\ seen' = [seen EXCEPT ![r] = [seen[r] EXCEPT !.files = files]]
          /\ Goto(r, place)
          /\ UNCHANGED <<ledger, files, tx>>
    BY <1>0, <1>1 DEF AliceStart, BobStart, ReadPublicKeys, BeforeSend
  <2>2. r \in BobRun => place \notin AfterDecode
    BY <2>1 DEF AfterDecode
  <2> QED BY <1>0, <2>1, <2>2, OneRunQuiet DEF Goto
<1>2. ASSUME NEW r \in Run, (AliceSend(r) /\ r \in AliceRun) \/ (BobSend(r) /\ r \in BobRun)
      PROVE  Quiet /\ ledger' = ledger
  <2>1. PICK place \in Place, v \in {"none", "pending"} :
          /\ pc[r] = "send" /\ Goto(r, place) /\ tx' = [tx EXCEPT ![r] = v]
          /\ UNCHANGED <<ledger, files, seen>>
    <3>1. pc[r] = "send" => tx[r] = "none"
      BY <1>0 DEF BeforeSend
    <3> QED BY <1>0, <1>2, <3>1 DEF AliceSend, BobSend, Submit, Place, Ended
  <2>2. tx[r] = "none" /\ (r \in BobRun => Informed(r))
    BY <1>0, <2>1 DEF BeforeSend, Informed, AfterDecode
  <2>3. seen' = [seen EXCEPT ![r] = seen[r]]
    BY <1>0, <2>1
  <2> QED BY <2>1, <2>2, <2>3, OneRunQuiet DEF Goto
<1>3. ASSUME NEW r \in Run, NEW place, Goto(r, place), UNCHANGED <<ledger, tx, seen>>,
             r \in BobRun /\ place \in AfterDecode => Informed(r)
      PROVE  Quiet /\ ledger' = ledger
  <2>1. /\ tx' = [tx EXCEPT ![r] = tx[r]] /\ seen' = [seen EXCEPT ![r] = seen[r]]
        /\ pc' = [pc EXCEPT ![r] = place] /\ ledger' = ledger
    BY <1>0, <1>3 DEF Goto
  <2>2. r \in BobRun /\ (place \in AfterDecode \/ tx[r] # "none") => Informed(r)
    BY <1>3 DEF Informed
  <2> QED BY <2>1, <2>2, OneRunQuiet
<1>4. ASSUME NEW r \in AliceRun, VerifyInitializedEscrow(r) \/ WritePublicKey(r)
      PROVE  Quiet /\ ledger' = ledger
  <2>1. r \in Run /\ r \notin BobRun
    BY <1>0 DEF Run
  <2> QED BY <1>3, <1>4, <2>1 DEF VerifyInitializedEscrow, WritePublicKey
<1>5. ASSUME NEW r \in BobRun, DecodeEscrow(r)
      PROVE  Quiet /\ ledger' = ledger
  <2>1. r \in Run
    BY DEF Run
  <2>2. CASE Key(r, "escrow") \in EscrowKey /\ ledger.escrow[Key(r, "escrow")].allocated
    <3>1. PICK s : s = [seen[r] EXCEPT !.state = ledger.escrow[Key(r, "escrow")]]
      OBVIOUS
    <3>2. /\ pc[r] = "decode" /\ Goto(r, "aliceY") /\ seen' = [seen EXCEPT ![r] = s]
          /\ UNCHANGED <<ledger, files, tx>>
      BY <1>5, <2>2, <3>1 DEF DecodeEscrow
    <3>3. s.files = seen[r].files /\ s.state = ledger.escrow[Key(r, "escrow")]
      BY <2>1, <3>1, BeforeStep DEF Seen
    <3>4. tx[r] = "none" /\ tx' = [tx EXCEPT ![r] = tx[r]]
      BY <1>0, <2>1, <3>2 DEF BeforeSend
    <3> QED BY <2>1, <2>2, <3>2, <3>3, <3>4, OneRunQuiet DEF Goto
  <2>3. CASE ~(Key(r, "escrow") \in EscrowKey /\ ledger.escrow[Key(r, "escrow")].allocated)
    <3>1. Goto(r, "failed") /\ UNCHANGED <<ledger, tx, seen>>
      BY <1>5, <2>3 DEF DecodeEscrow
    <3> QED BY <1>3, <2>1, <3>1 DEF AfterDecode
  <2> QED BY <2>2, <2>3
<1>6. ASSUME NEW r \in BobRun, ReadAliceY(r) \/ ReadBobX(r)
      PROVE  Quiet /\ ledger' = ledger
  <2>1. r \in Run
    BY DEF Run
  <2>2. PICK s, place :
          /\ pc[r] \in {"aliceY", "bobX"} /\ s.files = seen[r].files /\ s.state = seen[r].state
          /\ Goto(r, place) /\ seen' = [seen EXCEPT ![r] = s]
          /\ UNCHANGED <<ledger, files, tx>>
    <3>1. seen[r] \in Seen /\ seen = [seen EXCEPT ![r] = seen[r]]
      BY <2>1, BeforeStep
    <3>2. CASE UNCHANGED seen
      BY <1>6, <3>1, <3>2 DEF ReadAliceY, ReadBobX
    <3>3. CASE ReadAliceY(r) /\ ~ UNCHANGED seen
      <4>1. PICK s : s = [seen[r] EXCEPT !.aliceY = ledger.token[Key(r, "alice_y")].amount]
        OBVIOUS
      <4>2. s.files = seen[r].files /\ s.state = seen[r].state
        BY <3>1, <4>1 DEF Seen
      <4> QED BY <3>3, <4>1, <4>2 DEF ReadAliceY
    <3>4. CASE ReadBobX(r) /\ ~ UNCHANGED seen
      <4>1. PICK s : s = [seen[r] EXCEPT !.bobX = ledger.token[Key(r, "bob_x")].amount]
        OBVIOUS
      <4>2. s.files = seen[r].files /\ s.state = seen[r].state
        BY <3>1, <4>1 DEF Seen
      <4> QED BY <3>4, <4>1, <4>2 DEF ReadBobX
    <3> QED BY <1>6, <3>2, <3>3, <3>4
  <2>3. Informed(r) /\ tx[r] = "none" /\ tx' = [tx EXCEPT ![r] = tx[r]]
    BY <1>0, <2>1, <2>2 DEF Informed, AfterDecode, BeforeSend
  <2> QED BY <2>1, <2>2, <2>3, OneRunQuiet DEF Goto
<1>7. ASSUME NEW r \in BobRun, VerifyExchangedEscrow(r)
      PROVE  Quiet /\ ledger' = ledger
  <2>1. PICK place : Goto(r, place) /\ UNCHANGED <<ledger, tx, seen>>
    BY <1>7 DEF VerifyExchangedEscrow
  <2>2. r \in Run /\ Informed(r)
    BY <1>7 DEF VerifyExchangedEscrow, Informed, AfterDecode, Run
  <2> QED BY <1>3, <2>1, <2>2
<1>8. ASSUME NEW r \in Run, Execute(r) \/ Expire(r) \/ Throw(r)
      PROVE  Quiet /\ ledger' = ledger
  <2>1. CASE Throw(r)
    <3>1. Goto(r, "failed") /\ UNCHANGED <<ledger, tx, seen>>
      BY <2>1 DEF Throw
    <3> QED BY <1>3, <3>1 DEF AfterDecode
  <2>2. CASE Execute(r) \/ Expire(r)
    <3>1. PICK v \in {"error", "expired"} :
            tx[r] = "pending" /\ tx' = [tx EXCEPT ![r] = v] /\ UNCHANGED <<ledger, files, pc, seen>>
      BY <2>2 DEF Execute, Expire, Executes
    <3>2. /\ pc' = [pc EXCEPT ![r] = pc[r]] /\ seen' = [seen EXCEPT ![r] = seen[r]]
          /\ r \in BobRun => Informed(r)
      BY <1>0, <3>1 DEF Informed
    <3> QED BY <3>1, <3>2, OneRunQuiet
  <2> QED BY <1>8, <2>1, <2>2
<1>9. CASE UNCHANGED cvars
  BY <1>9 DEF cvars, Quiet, Informed, Key
<1>10. ASSUME NEW r \in AliceRun,
              AliceStart(r) \/ AliceSend(r) \/ VerifyInitializedEscrow(r) \/ WritePublicKey(r)
       PROVE  Quiet /\ ledger' = ledger
  <2>1. r \in Run
    BY DEF Run
  <2> QED BY <1>1, <1>2, <1>4, <1>10, <2>1
<1>11. ASSUME NEW r \in BobRun,
              \/ BobStart(r) \/ DecodeEscrow(r) \/ ReadAliceY(r) \/ ReadBobX(r)
              \/ BobSend(r) \/ VerifyExchangedEscrow(r)
       PROVE  Quiet /\ ledger' = ledger
  <2>1. r \in Run
    BY DEF Run
  <2> QED BY <1>1, <1>2, <1>5, <1>6, <1>7, <1>11, <2>1
<1> QED
  BY <1>8, <1>9, <1>10, <1>11 DEF ClientNext

LEMMA QuietPosted ==
  ASSUME ClientInv, PostedInv, Quiet
  PROVE  PostedInv'
<1>1. \A a \in AliceRun : tx[a] = "ok" => tx'[a] = "ok" /\ PostedState(a)' = PostedState(a)
  BY DEF Quiet, Run, PostedState, Key
<1>2. \A a \in AliceRun : tx'[a] = "ok" <=> tx[a] = "ok"
  BY DEF Quiet, Run
<1>3. ASSUME NEW r \in BobRun, Informed(r)'
      PROVE  \E a \in AliceRun : MadeBy(Key(r, "escrow"), a)' /\ seen'[r].state = PostedState(a)'
  <2>1. \E a \in AliceRun : MadeBy(Key(r, "escrow"), a) /\ seen'[r].state = PostedState(a)
    <3>1. CASE Informed(r) /\ seen'[r].state = seen[r].state
      BY <3>1 DEF PostedInv
    <3>2. CASE /\ Key(r, "escrow") \in EscrowKey
               /\ ledger.escrow[Key(r, "escrow")].allocated
               /\ seen'[r].state = ledger.escrow[Key(r, "escrow")]
      <4>1. PICK a \in AliceRun : MadeBy(Key(r, "escrow"), a)
        BY <3>2 DEF ClientInv, EscrowsMade
      <4>2. ledger.escrow[escrowAccount[a]] \in {PostedState(a), NoEscrow}
        BY <4>1 DEF MadeBy, PostedInv
      <4>3. ~ NoEscrow.allocated
        BY DEF NoEscrow
      <4> QED BY <3>2, <4>1, <4>2, <4>3 DEF MadeBy
    <3> QED BY <1>3, <3>1, <3>2 DEF Quiet
  <2>2. Key(r, "escrow")' = Key(r, "escrow")
    BY <1>3 DEF Quiet, Key
  <2> QED BY <1>1, <2>1, <2>2 DEF MadeBy
<1> QED
  BY <1>1, <1>2, <1>3 DEF PostedInv, Quiet, MadeBy, Key

LEMMA ExecutedPosted ==
  ASSUME ClientInv, PostedInv, NEW r \in Run, Executes(r)
  PROVE  PostedInv'
<1>1. /\ tx \in [Run -> {"none", "pending", "ok", "error", "expired"}]
      /\ ledger \in Ledger /\ KeysOfKind(seen[r].files)
      /\ ledger.escrow \in [EscrowKey -> EscrowAccount]
  BY LedgerParts DEF ClientInv, ClientTypeOK, TypeOK
<1>2. /\ tx[r] = "pending" /\ tx' = [tx EXCEPT ![r] = "ok"] /\ UNCHANGED <<files, pc, seen>>
      /\ ledger' = Transaction(r) /\ TransactionOk(r)
  BY DEF Executes, Execute
<1>3. tx'[r] = "ok" /\ \A q \in Run : q # r => tx'[q] = tx[q]
  BY <1>1, <1>2
<1>4. \A a : PostedState(a)' = PostedState(a)
  BY <1>2 DEF PostedState, Key
<1>5. \A q \in BobRun : Informed(q)' => Informed(q)
  BY <1>2, <1>3 DEF Informed, Run
<1>6. \A e, a : MadeBy(e, a) => MadeBy(e, a)'
  BY <1>2, <1>3 DEF MadeBy, Run
<1>7. SUFFICES \A a \in AliceRun : tx'[a] = "ok" => ledger'.escrow[escrowAccount[a]] \in {PostedState(a), NoEscrow}
  BY <1>2, <1>4, <1>5, <1>6 DEF PostedInv, Key, MadeBy
<1>8. CASE r \in AliceRun
  <2>1. ledger'.escrow = [ledger.escrow EXCEPT ![escrowAccount[r]] = PostedState(r)]
    <3>1. AliceTransactionOk(ledger, r) /\ ledger' = AliceTransaction(ledger, r)
      BY <1>2, <1>8 DEF TransactionOk, Transaction
    <3> QED BY <1>1, <1>8, <3>1, AliceTransactionResult
  <2>2. ASSUME NEW a \in AliceRun, tx'[a] = "ok"
        PROVE  ledger'.escrow[escrowAccount[a]] \in {PostedState(a), NoEscrow}
    <3>1. escrowAccount[a] \in EscrowKey
      BY ClientAssumption
    <3>2. CASE a = r
      BY <1>1, <2>1, <3>1, <3>2
    <3>3. CASE a # r
      <4>1. escrowAccount[a] # escrowAccount[r] /\ tx[a] = "ok"
        BY <1>3, <1>8, <2>2, <3>3, ClientAssumption DEF Run
      <4> QED BY <1>1, <2>1, <3>1, <4>1 DEF PostedInv
    <3> QED BY <3>2, <3>3
  <2> QED BY <2>2
<1>9. CASE r \in BobRun
  <2>1. PICK e : ledger'.escrow = [ledger.escrow EXCEPT ![e] = NoEscrow]
    <3>0. PICK f, state, amount : f = seen[r].files /\ state = seen[r].state /\ amount = BobAmount(ledger, r)
      OBVIOUS
    <3>1. /\ ExchangeOk(ledger, ExchangeKeys(f, state), {bob}, amount)
          /\ ledger' = ExchangeEffect(ledger, ExchangeKeys(f, state))
          /\ KeysOfKind(f)
      BY <1>1, <1>2, <1>9, <3>0, ClientAssumption DEF TransactionOk, Transaction
    <3>2. \A g \in EscrowKey : ledger.escrow[g].is_initialized => ledger.escrow[g].initializer_pubkey \in Wallet
      BY DEF ClientInv, EscrowsMade
    <3>3. ExchangeEffect(ledger, ExchangeKeys(f, state)).escrow = [ledger.escrow EXCEPT ![f["escrow"]] = NoEscrow]
      BY <1>1, <3>1, <3>2, BobTransactionResult
    <3> QED BY <3>1, <3>3
  <2>2. ASSUME NEW a \in AliceRun, tx'[a] = "ok"
        PROVE  ledger'.escrow[escrowAccount[a]] \in {PostedState(a), NoEscrow}
    <3>1. escrowAccount[a] \in EscrowKey /\ tx[a] = "ok"
      BY <1>3, <1>9, <2>2, ClientAssumption DEF Run
    <3> QED BY <1>1, <2>1, <3>1 DEF PostedInv
  <2> QED BY <2>2
<1> QED
  BY <1>8, <1>9 DEF Run

LEMMA PostedInit == ClientInit => PostedInv
BY ClientAssumption DEF ClientInit, PostedInv, Informed, AfterDecode, Run

LEMMA PostedNext == ClientInv /\ PostedInv /\ [ClientNext]_cvars => PostedInv'
BY ClientStep, QuietPosted, ExecutedPosted

-----------------------------------------------------------------------------
(* What the transactions of the runs have moved.                           *)

\* The executed transactions that have paid into and out of account k.
TakenInto(k) == {r \in Taken : Key(r, "bob_x") = k}
SoldInto(k) == {r \in Taken : seen[r].state.initializer_token_to_receive_account_pubkey = k}
PostedFrom(k) == {r \in Posted : Key(r, "alice_x") = k}
PaidFrom(k) == {r \in Taken : Key(r, "bob_y") = k}

LEMMA SumsOfRuns ==
  ASSUME ClientInv, NEW k
  PROVE  /\ Received(k) = SumFunctionOnSet(Goods, TakenInto(k)) + SumFunctionOnSet(PriceRead, SoldInto(k))
         /\ Paid(k) = SumFunctionOnSet(Goods, PostedFrom(k)) + SumFunctionOnSet(PriceRead, PaidFrom(k))
         /\ \A r \in Run : Goods[r] \in Nat /\ PriceRead[r] \in Nat
         /\ IsFiniteSet(TakenInto(k)) /\ IsFiniteSet(SoldInto(k))
         /\ IsFiniteSet(PostedFrom(k)) /\ IsFiniteSet(PaidFrom(k))
         /\ SumFunctionOnSet(Goods, TakenInto(k)) \in Nat
         /\ SumFunctionOnSet(PriceRead, SoldInto(k)) \in Nat
         /\ SumFunctionOnSet(Goods, PostedFrom(k)) \in Nat
         /\ SumFunctionOnSet(PriceRead, PaidFrom(k)) \in Nat
<1>1. \A r \in Run : Goods[r] \in Nat /\ PriceRead[r] \in Nat
  <2>1. \A r \in Run : seen[r] \in Seen /\ terms[r].bobExpectedAmount \in U64
    BY BeforeStep, ClientAssumption DEF Run
  <2> QED BY <2>1, RentAssumption DEF Goods, PriceRead, Seen, EscrowAccount, U64
<1>2. IsFiniteSet(Run)
  BY ClientAssumption DEF Run
<1>3. /\ TakenInto(k) \in SUBSET Run /\ SoldInto(k) \in SUBSET Run
      /\ PostedFrom(k) \in SUBSET Run /\ PaidFrom(k) \in SUBSET Run
  BY DEF TakenInto, SoldInto, PostedFrom, PaidFrom, Taken, Posted, Run
<1>4. /\ IsFiniteSet(TakenInto(k)) /\ IsFiniteSet(SoldInto(k))
      /\ IsFiniteSet(PostedFrom(k)) /\ IsFiniteSet(PaidFrom(k))
  BY <1>2, <1>3, FS_Subset
<1>5. /\ SumFunctionOnSet(Goods, TakenInto(k)) \in Nat
      /\ SumFunctionOnSet(PriceRead, SoldInto(k)) \in Nat
      /\ SumFunctionOnSet(Goods, PostedFrom(k)) \in Nat
      /\ SumFunctionOnSet(PriceRead, PaidFrom(k)) \in Nat
  <2>1. \A T \in SUBSET Run : \A r \in T : Goods[r] \in Nat /\ PriceRead[r] \in Nat
    BY <1>1
  <2> QED BY <1>3, <1>4, <2>1, SumType
<1>6. /\ Received(k) = SumFunctionOnSet(Goods, TakenInto(k)) + SumFunctionOnSet(PriceRead, SoldInto(k))
      /\ Paid(k) = SumFunctionOnSet(Goods, PostedFrom(k)) + SumFunctionOnSet(PriceRead, PaidFrom(k))
  BY DEF Received, Paid, TakenInto, SoldInto, PostedFrom, PaidFrom
<1> QED
  BY <1>1, <1>4, <1>5, <1>6

LEMMA QuietSums ==
  ASSUME ClientInv, Quiet, NEW k
  PROVE  Received(k)' = Received(k) /\ Paid(k)' = Paid(k)
<1>1. Taken' = Taken /\ Posted' = Posted
  BY DEF Quiet, Taken, Posted, Run
<1>2. \A r \in Taken \cup Posted : seen'[r] = seen[r]
  BY DEF Quiet, Taken, Posted, Run
<1>3. /\ TakenInto(k)' = TakenInto(k) /\ SoldInto(k)' = SoldInto(k)
      /\ PostedFrom(k)' = PostedFrom(k) /\ PaidFrom(k)' = PaidFrom(k)
  BY <1>1, <1>2 DEF TakenInto, SoldInto, PostedFrom, PaidFrom, Key
<1>4. \A r \in Taken : PriceRead'[r] = PriceRead[r]
  BY <1>2 DEF PriceRead, Taken, Run
<1>5. /\ SumFunctionOnSet(PriceRead', SoldInto(k)) = SumFunctionOnSet(PriceRead, SoldInto(k))
      /\ SumFunctionOnSet(PriceRead', PaidFrom(k)) = SumFunctionOnSet(PriceRead, PaidFrom(k))
  <2>1. /\ \A r \in SoldInto(k) : PriceRead'[r] = PriceRead[r]
        /\ \A r \in PaidFrom(k) : PriceRead'[r] = PriceRead[r]
    BY <1>4 DEF SoldInto, PaidFrom
  <2>2. IsFiniteSet(SoldInto(k)) /\ IsFiniteSet(PaidFrom(k))
    BY SumsOfRuns
  <2> HIDE DEF PriceRead, SoldInto, PaidFrom
  <2> QED BY <2>1, <2>2, SumEqual
<1> QED
  BY <1>3, <1>5 DEF Received, Paid, TakenInto, SoldInto, PostedFrom, PaidFrom, Goods

\* The executed transaction of a run joins those of its party.
LEMMA ExecutedSums ==
  ASSUME ClientInv, NEW r \in Run, Executes(r), NEW k
  PROVE  /\ r \in AliceRun =>
              /\ Paid(k)' = Paid(k) + (IF Key(r, "alice_x") = k THEN Goods[r] ELSE 0)
              /\ Received(k)' = Received(k)
         /\ r \in BobRun =>
              /\ Paid(k)' = Paid(k) + (IF Key(r, "bob_y") = k THEN PriceRead[r] ELSE 0)
              /\ Received(k)' =
                   Received(k) + (IF Key(r, "bob_x") = k THEN Goods[r] ELSE 0)
                     + (IF seen[r].state.initializer_token_to_receive_account_pubkey = k
                        THEN PriceRead[r] ELSE 0)
<1> DEFINE recv == seen[r].state.initializer_token_to_receive_account_pubkey
           c1 == Key(r, "bob_x") = k
           c2 == recv = k
           c3 == Key(r, "bob_y") = k
           c4 == Key(r, "alice_x") = k
<1>1. /\ tx \in [Run -> {"none", "pending", "ok", "error", "expired"}]
      /\ tx[r] = "pending" /\ tx' = [tx EXCEPT ![r] = "ok"] /\ UNCHANGED <<files, pc, seen>>
  BY DEF Executes, Execute, ClientInv, ClientTypeOK
<1>2. /\ tx'[r] = "ok" /\ \A q \in Run : q # r => tx'[q] = tx[q]
      /\ r \in AliceRun <=> r \notin BobRun
  BY <1>1, BeforeStep
<1>3. /\ Goods' = Goods /\ PriceRead' = PriceRead
      /\ \A q, name : Key(q, name)' = Key(q, name)
  BY <1>1 DEF Goods, PriceRead, Key
<1>4. /\ r \notin TakenInto(k) /\ r \notin SoldInto(k) /\ r \notin PaidFrom(k) /\ r \notin PostedFrom(k)
  BY <1>1 DEF TakenInto, SoldInto, PaidFrom, PostedFrom, Taken, Posted
<1>5. /\ TakenInto(k) \subseteq Run /\ SoldInto(k) \subseteq Run
      /\ PaidFrom(k) \subseteq Run /\ PostedFrom(k) \subseteq Run
  BY DEF TakenInto, SoldInto, PaidFrom, PostedFrom, Taken, Posted, Run
<1>6. /\ \A q \in Run : Goods[q] \in Int /\ PriceRead[q] \in Int
      /\ IsFiniteSet(TakenInto(k)) /\ IsFiniteSet(SoldInto(k))
      /\ IsFiniteSet(PostedFrom(k)) /\ IsFiniteSet(PaidFrom(k))
  BY SumsOfRuns
<1>7. CASE r \in AliceRun
  <2>1. Posted' = Posted \cup {r} /\ Taken' = Taken
    BY <1>2, <1>7 DEF Posted, Taken, Run
  <2>2. /\ TakenInto(k)' = TakenInto(k) /\ SoldInto(k)' = SoldInto(k) /\ PaidFrom(k)' = PaidFrom(k)
        /\ PostedFrom(k)' = IF c4 THEN PostedFrom(k) \cup {r} ELSE PostedFrom(k)
    BY <1>1, <1>3, <2>1 DEF TakenInto, SoldInto, PaidFrom, PostedFrom
  <2>3. SumFunctionOnSet(Goods, PostedFrom(k)')
          = SumFunctionOnSet(Goods, PostedFrom(k)) + (IF c4 THEN Goods[r] ELSE 0)
    <3>1. c4 \in BOOLEAN
      OBVIOUS
    <3>2. \A q \in PostedFrom(k) \cup {r} : Goods[q] \in Int
      BY <1>5, <1>6
    <3> HIDE DEF c4
    <3>3. \A S, T : S = PostedFrom(k) /\ (T = IF c4 THEN S \cup {r} ELSE S) =>
            SumFunctionOnSet(Goods, T) = SumFunctionOnSet(Goods, S) + (IF c4 THEN Goods[r] ELSE 0)
      BY <1>4, <1>6, <3>1, <3>2, SumMaybe
    <3> QED BY <2>2, <3>3
  <2>4. Received(k)' = Received(k)
    BY <1>3, <2>2 DEF Received, TakenInto, SoldInto
  <2>5. Paid(k)' = SumFunctionOnSet(Goods, PostedFrom(k)') + SumFunctionOnSet(PriceRead, PaidFrom(k))
    BY <1>3, <2>2 DEF Paid, PaidFrom, PostedFrom
  <2>6. /\ Paid(k) = SumFunctionOnSet(Goods, PostedFrom(k)) + SumFunctionOnSet(PriceRead, PaidFrom(k))
        /\ SumFunctionOnSet(Goods, PostedFrom(k)) \in Nat
        /\ SumFunctionOnSet(PriceRead, PaidFrom(k)) \in Nat
    BY SumsOfRuns
  <2> HIDE DEF c4
  <2>7. Paid(k)' = Paid(k) + (IF c4 THEN Goods[r] ELSE 0)
    BY <1>6, <2>3, <2>5, <2>6
  <2> QED BY <1>2, <1>7, <2>4, <2>7 DEF c4
<1>8. CASE r \in BobRun
  <2>1. Posted' = Posted /\ Taken' = Taken \cup {r}
    BY <1>2, <1>8 DEF Posted, Taken, Run
  <2>2. /\ PostedFrom(k)' = PostedFrom(k)
        /\ TakenInto(k)' = IF c1 THEN TakenInto(k) \cup {r} ELSE TakenInto(k)
        /\ SoldInto(k)' = IF c2 THEN SoldInto(k) \cup {r} ELSE SoldInto(k)
        /\ PaidFrom(k)' = IF c3 THEN PaidFrom(k) \cup {r} ELSE PaidFrom(k)
    BY <1>1, <1>3, <2>1 DEF TakenInto, SoldInto, PaidFrom, PostedFrom
  <2>3. /\ SumFunctionOnSet(Goods, TakenInto(k)')
             = SumFunctionOnSet(Goods, TakenInto(k)) + (IF c1 THEN Goods[r] ELSE 0)
        /\ SumFunctionOnSet(PriceRead, SoldInto(k)')
             = SumFunctionOnSet(PriceRead, SoldInto(k)) + (IF c2 THEN PriceRead[r] ELSE 0)
        /\ SumFunctionOnSet(PriceRead, PaidFrom(k)')
             = SumFunctionOnSet(PriceRead, PaidFrom(k)) + (IF c3 THEN PriceRead[r] ELSE 0)
    <3>1. c1 \in BOOLEAN /\ c2 \in BOOLEAN /\ c3 \in BOOLEAN
      OBVIOUS
    <3>2. /\ \A q \in TakenInto(k) \cup {r} : Goods[q] \in Int
          /\ \A q \in SoldInto(k) \cup {r} : PriceRead[q] \in Int
          /\ \A q \in PaidFrom(k) \cup {r} : PriceRead[q] \in Int
      BY <1>5, <1>6
    <3> HIDE DEF c1, c2, c3
    <3>3. \A S, T : S = TakenInto(k) /\ (T = IF c1 THEN S \cup {r} ELSE S) =>
            SumFunctionOnSet(Goods, T) = SumFunctionOnSet(Goods, S) + (IF c1 THEN Goods[r] ELSE 0)
      BY <1>4, <1>6, <3>1, <3>2, SumMaybe
    <3>4. \A S, T : S = SoldInto(k) /\ (T = IF c2 THEN S \cup {r} ELSE S) =>
            SumFunctionOnSet(PriceRead, T) = SumFunctionOnSet(PriceRead, S) + (IF c2 THEN PriceRead[r] ELSE 0)
      BY <1>4, <1>6, <3>1, <3>2, SumMaybe
    <3>5. \A S, T : S = PaidFrom(k) /\ (T = IF c3 THEN S \cup {r} ELSE S) =>
            SumFunctionOnSet(PriceRead, T) = SumFunctionOnSet(PriceRead, S) + (IF c3 THEN PriceRead[r] ELSE 0)
      BY <1>4, <1>6, <3>1, <3>2, SumMaybe
    <3> QED BY <2>2, <3>3, <3>4, <3>5
  <2>4. /\ Received(k)' = SumFunctionOnSet(Goods, TakenInto(k)') + SumFunctionOnSet(PriceRead, SoldInto(k)')
        /\ Paid(k)' = SumFunctionOnSet(Goods, PostedFrom(k)) + SumFunctionOnSet(PriceRead, PaidFrom(k)')
    BY <1>3, <2>2 DEF Received, Paid, TakenInto, SoldInto, PaidFrom, PostedFrom
  <2>5. /\ Received(k) = SumFunctionOnSet(Goods, TakenInto(k)) + SumFunctionOnSet(PriceRead, SoldInto(k))
        /\ Paid(k) = SumFunctionOnSet(Goods, PostedFrom(k)) + SumFunctionOnSet(PriceRead, PaidFrom(k))
        /\ SumFunctionOnSet(Goods, TakenInto(k)) \in Nat
        /\ SumFunctionOnSet(PriceRead, SoldInto(k)) \in Nat
        /\ SumFunctionOnSet(Goods, PostedFrom(k)) \in Nat
        /\ SumFunctionOnSet(PriceRead, PaidFrom(k)) \in Nat
    BY SumsOfRuns
  <2> HIDE DEF c1, c2, c3
  <2>6. /\ Received(k)' = Received(k) + (IF c1 THEN Goods[r] ELSE 0) + (IF c2 THEN PriceRead[r] ELSE 0)
        /\ Paid(k)' = Paid(k) + (IF c3 THEN PriceRead[r] ELSE 0)
    BY <1>6, <2>3, <2>4, <2>5
  <2> QED BY <1>2, <1>8, <2>6 DEF c1, c2, c3
<1> QED
  BY <1>2, <1>7, <1>8

\* The exchange a run of Bob executes is that of an escrow as a run of Alice has
\* posted it.
LEMMA ExchangeExecuted ==
  ASSUME ClientInv, PostedInv, NEW r \in BobRun, Executes(r)
  PROVE  \E a \in AliceRun :
           /\ Key(r, "escrow") = escrowAccount[a] /\ tx[a] = "ok"
           /\ seen[r].state = PostedState(a)
           /\ ledger.escrow[escrowAccount[a]] = PostedState(a)
           /\ EscrowSettled(ledger, ledger', bob, Key(r, "bob_y"), Key(r, "bob_x"), tmpXTokenAccount[a], alice,
                            Key(a, "alice_y"), escrowAccount[a], terms[a].aliceExpectedAmount,
                            terms[r].bobExpectedAmount)
<1>1. /\ r \in Run /\ r \notin AliceRun
      /\ ledger \in Ledger /\ KeysOfKind(seen[r].files)
      /\ tx[r] = "pending" /\ TransactionOk(r) /\ ledger' = Transaction(r)
  BY BeforeStep DEF Executes, Execute, ClientInv, ClientTypeOK, TypeOK, Run
<1>2. PICK f, state, amount : f = seen[r].files /\ state = seen[r].state /\ amount = BobAmount(ledger, r)
  OBVIOUS
<1>3. /\ ExchangeOk(ledger, ExchangeKeys(f, state), {bob}, amount)
      /\ ledger' = ExchangeEffect(ledger, ExchangeKeys(f, state))
      /\ KeysOfKind(f) /\ amount = terms[r].bobExpectedAmount
  BY <1>1, <1>2 DEF TransactionOk, Transaction, BobAmount
<1>4. \A g \in EscrowKey : ledger.escrow[g].is_initialized => ledger.escrow[g].initializer_pubkey \in Wallet
  BY DEF ClientInv, EscrowsMade
<1>5. /\ f["escrow"] \in EscrowKey /\ ledger.escrow[f["escrow"]].is_initialized
      /\ EscrowSettled(ledger, ledger', bob, f["bob_y"], f["bob_x"],
                       state.tmp_token_account_pubkey, state.initializer_pubkey,
                       state.initializer_token_to_receive_account_pubkey, f["escrow"],
                       ledger.escrow[f["escrow"]].expected_amount, amount)
  <2>1. /\ f["escrow"] \in EscrowKey /\ ledger.escrow[f["escrow"]].is_initialized
        /\ EscrowSettled(ledger, ExchangeEffect(ledger, ExchangeKeys(f, state)), bob, f["bob_y"], f["bob_x"],
                         state.tmp_token_account_pubkey, state.initializer_pubkey,
                         state.initializer_token_to_receive_account_pubkey, f["escrow"],
                         ledger.escrow[f["escrow"]].expected_amount, amount)
    BY <1>1, <1>3, <1>4, BobTransactionResult
  <2> QED BY <1>3, <2>1
<1>6. PICK a \in AliceRun : MadeBy(f["escrow"], a) /\ state = PostedState(a)
  <2>1. Informed(r)
    BY <1>1 DEF Informed
  <2> QED BY <1>2, <2>1 DEF PostedInv, Key
<1>7. ledger.escrow[f["escrow"]] = PostedState(a)
  <2>1. ledger.escrow[escrowAccount[a]] \in {PostedState(a), NoEscrow}
    BY <1>6 DEF PostedInv, MadeBy
  <2> QED BY <1>5, <1>6, <2>1 DEF MadeBy, NoEscrow
<1>8. /\ f["escrow"] = escrowAccount[a] /\ tx[a] = "ok"
      /\ f["escrow"] = Key(r, "escrow") /\ f["bob_y"] = Key(r, "bob_y") /\ f["bob_x"] = Key(r, "bob_x")
      /\ state.tmp_token_account_pubkey = tmpXTokenAccount[a] /\ state.initializer_pubkey = alice
      /\ state.initializer_token_to_receive_account_pubkey = Key(a, "alice_y")
      /\ ledger.escrow[f["escrow"]].expected_amount = terms[a].aliceExpectedAmount
  BY <1>2, <1>6, <1>7 DEF MadeBy, Key, PostedState
<1> QED
  BY <1>2, <1>3, <1>5, <1>6, <1>7, <1>8

\* What an executed transaction does to an account that is not a vault.
LEMMA ExecutedMoves ==
  ASSUME ClientInv, PostedInv, NEW r \in Run, Executes(r), NEW k \in TokenKey \ Vaults
  PROVE  /\ ledger'.token[k].mint = ledger.token[k].mint
         /\ ledger'.token[k].owner = ledger.token[k].owner
         /\ ledger'.lamports[k] = ledger.lamports[k]
         /\ r \in AliceRun =>
              ledger'.token[k].amount = ledger.token[k].amount - (IF Key(r, "alice_x") = k THEN Goods[r] ELSE 0)
         /\ r \in BobRun =>
              ledger'.token[k].amount = ledger.token[k].amount
                + (IF seen[r].state.initializer_token_to_receive_account_pubkey = k THEN PriceRead[r] ELSE 0)
                + (IF Key(r, "bob_x") = k THEN Goods[r] ELSE 0)
                - (IF Key(r, "bob_y") = k THEN PriceRead[r] ELSE 0)
<1>1. /\ ledger \in Ledger /\ KeysOfKind(seen[r].files)
      /\ tx[r] = "pending" /\ TransactionOk(r) /\ ledger' = Transaction(r)
      /\ r \in AliceRun <=> r \notin BobRun
      /\ Goods[r] = terms[r].bobExpectedAmount
      /\ PriceRead[r] = seen[r].state.expected_amount
  BY BeforeStep DEF Executes, Execute, ClientInv, ClientTypeOK, TypeOK, Goods, PriceRead
<1>2. CASE r \in AliceRun
  <2>1. AliceTransactionOk(ledger, r) /\ ledger' = AliceTransaction(ledger, r)
    BY <1>1, <1>2 DEF TransactionOk, Transaction
  <2>2. k # tmpXTokenAccount[r]
    BY <1>2 DEF Vaults
  <2>3. /\ AliceTransaction(ledger, r).token[k].mint = ledger.token[k].mint
        /\ AliceTransaction(ledger, r).token[k].owner = ledger.token[k].owner
        /\ AliceTransaction(ledger, r).token[k].amount =
             ledger.token[k].amount - (IF k = Key(r, "alice_x") THEN terms[r].bobExpectedAmount ELSE 0)
    BY <1>1, <1>2, <2>1, <2>2, AliceTransactionResult
  <2>4. ledger'.token[k].amount =
          ledger.token[k].amount - (IF Key(r, "alice_x") = k THEN Goods[r] ELSE 0)
    BY <1>1, <2>1, <2>3
  <2>5. ledger'.lamports[k] = ledger.lamports[k]
    BY <1>1, <1>2, <2>1, <2>2, AliceLamports
  <2> QED BY <1>1, <1>2, <2>1, <2>3, <2>4, <2>5
<1>3. CASE r \in BobRun
  <2>1. PICK a \in AliceRun :
          /\ seen[r].state = PostedState(a)
          /\ EscrowSettled(ledger, ledger', bob, Key(r, "bob_y"), Key(r, "bob_x"), tmpXTokenAccount[a], alice,
                           Key(a, "alice_y"), escrowAccount[a], terms[a].aliceExpectedAmount,
                           terms[r].bobExpectedAmount)
    BY <1>3, ExchangeExecuted
  <2>2. k # tmpXTokenAccount[a]
    BY DEF Vaults
  <2>3. /\ seen[r].state.initializer_token_to_receive_account_pubkey = Key(a, "alice_y")
        /\ terms[a].aliceExpectedAmount = PriceRead[r] /\ terms[r].bobExpectedAmount = Goods[r]
    BY <1>1, <2>1 DEF PostedState
  <2>4. /\ ledger'.token[k].mint = ledger.token[k].mint
        /\ ledger'.token[k].owner = ledger.token[k].owner
        /\ ledger'.token[k].amount = ledger.token[k].amount
                + (IF k = Key(a, "alice_y") THEN PriceRead[r] ELSE 0)
                + (IF k = Key(r, "bob_x") THEN Goods[r] ELSE 0)
                - (IF k = Key(r, "bob_y") THEN PriceRead[r] ELSE 0)
    BY <2>1, <2>2, <2>3 DEF EscrowSettled
  <2>5. ledger'.lamports[k] = ledger.lamports[k]
    <3>1. k # alice /\ k # escrowAccount[a] /\ k \in Wallet \cup TokenKey \cup EscrowKey
      BY ClientAssumption, AddressAssumption
    <3> QED BY <2>1, <2>2, <3>1 DEF EscrowSettled
  <2> QED BY <1>1, <1>3, <2>3, <2>4, <2>5
<1> QED
  BY <1>2, <1>3 DEF Run

\* No step of the runs changes what an account holds but for what has been paid
\* into and out of it.
LEMMA StepHonours ==
  ASSUME ClientInv, PostedInv, [ClientNext]_cvars, NEW k \in TokenKey \ Vaults
  PROVE  /\ ledger.token[k].amount \in Nat /\ ledger'.token[k].amount \in Nat
         /\ Paid(k) \in Nat /\ Paid(k)' \in Nat /\ Received(k) \in Nat /\ Received(k)' \in Nat
         /\ ledger'.token[k].amount + Paid(k)' - Received(k)' = ledger.token[k].amount + Paid(k) - Received(k)
<1>1. /\ ledger.token[k].amount \in Nat /\ Paid(k) \in Nat /\ Received(k) \in Nat
      /\ \A r \in Run : Goods[r] \in Nat /\ PriceRead[r] \in Nat
  <2>1. ledger.token[k].amount \in Nat
    BY LedgerParts, RentAssumption DEF ClientInv, ClientTypeOK, TypeOK, TokenAccount, U64
  <2> QED BY <2>1, SumsOfRuns
<1>2. ledger'.token[k].amount \in Nat
  <2>1. ledger' \in Ledger
    BY ClientNextInv DEF ClientInv, ClientTypeOK, TypeOK
  <2> QED BY <2>1, LedgerParts, RentAssumption DEF TokenAccount, U64
<1>3. CASE Quiet /\ ledger' = ledger
  BY <1>1, <1>3, QuietSums
<1>4. ASSUME NEW r \in Run, Executes(r)
      PROVE  /\ Paid(k)' \in Nat /\ Received(k)' \in Nat
             /\ ledger'.token[k].amount + Paid(k)' - Received(k)' = ledger.token[k].amount + Paid(k) - Received(k)
  <2>1. CASE r \in AliceRun
    <3>1. /\ Paid(k)' = Paid(k) + (IF Key(r, "alice_x") = k THEN Goods[r] ELSE 0)
          /\ Received(k)' = Received(k)
          /\ ledger'.token[k].amount = ledger.token[k].amount - (IF Key(r, "alice_x") = k THEN Goods[r] ELSE 0)
      BY <1>4, <2>1, ExecutedSums, ExecutedMoves
    <3> QED BY <1>1, <3>1
  <2>2. CASE r \in BobRun
    <3> DEFINE x == IF Key(r, "bob_x") = k THEN Goods[r] ELSE 0
               y == IF Key(r, "bob_y") = k THEN PriceRead[r] ELSE 0
               z == IF seen[r].state.initializer_token_to_receive_account_pubkey = k THEN PriceRead[r] ELSE 0
    <3>1. /\ Paid(k)' = Paid(k) + y
          /\ Received(k)' = Received(k) + x + z
          /\ ledger'.token[k].amount = ledger.token[k].amount + z + x - y
      BY <1>4, <2>2, ExecutedSums, ExecutedMoves
    <3>2. x \in Nat /\ y \in Nat /\ z \in Nat
      BY <1>1
    <3> HIDE DEF x, y, z
    <3> QED BY <1>1, <3>1, <3>2
  <2> QED BY <2>1, <2>2 DEF Run
<1> QED
  BY <1>1, <1>2, <1>3, <1>4, ClientStep

\* The inductive invariant behind TermsHonoured.
TermsInv == PostedInv /\ TermsHonoured

LEMMA TermsInit == ClientInit => TermsInv
<1> SUFFICES ASSUME ClientInit PROVE TermsInv
  OBVIOUS
<1>1. Taken = {} /\ Posted = {}
  BY DEF ClientInit, Taken, Posted, Run
<1>2. \A k : Received(k) = 0 /\ Paid(k) = 0
  <2>1. SumFunctionOnSet(Goods, {}) = 0 /\ SumFunctionOnSet(PriceRead, {}) = 0
    BY SumEmpty
  <2> QED BY <1>1, <2>1 DEF Received, Paid
<1>3. \A k \in TokenKey : ledger.token[k].amount = InitialToken[k].amount
  BY DEF ClientInit, Init
<1> QED
  BY <1>2, <1>3, PostedInit DEF TermsInv, TermsHonoured

LEMMA TermsNext == ClientInv /\ TermsInv /\ [ClientNext]_cvars => TermsInv'
<1> SUFFICES ASSUME ClientInv, TermsInv, [ClientNext]_cvars PROVE TermsInv'
  OBVIOUS
<1>1. PostedInv /\ TermsHonoured
  BY DEF TermsInv
<1>2. ASSUME NEW k \in TokenKey \ Vaults
      PROVE  ledger'.token[k].amount + Paid(k)' = InitialToken[k].amount + Received(k)'
  <2>1. ledger.token[k].amount + Paid(k) = InitialToken[k].amount + Received(k)
    BY <1>1 DEF TermsHonoured
  <2>2. InitialToken[k].amount \in Nat
    BY InitialAssumption, RentAssumption DEF TokenAccount, U64
  <2>3. /\ ledger.token[k].amount \in Nat /\ ledger'.token[k].amount \in Nat
        /\ Paid(k) \in Nat /\ Paid(k)' \in Nat /\ Received(k) \in Nat /\ Received(k)' \in Nat
        /\ ledger'.token[k].amount + Paid(k)' - Received(k)' = ledger.token[k].amount + Paid(k) - Received(k)
    BY <1>1, StepHonours
  <2> QED BY <2>1, <2>2, <2>3
<1>3. TermsHonoured'
  BY <1>2 DEF TermsHonoured, Vaults
<1> QED
  BY <1>1, <1>3, PostedNext DEF TermsInv

LEMMA TermsInvariance == ClientSpec => []TermsInv
BY TermsInit, TermsNext, ClientInvariance, PTL DEF ClientSpec

(***************************************************************************)
(* For any number of runs of both parties, with terms of their own, over   *)
(* any key files: however stale what Bob has read is when his transaction  *)
(* executes, he is given what his terms name and pays the price he has     *)
(* read, once per executed transaction, Alice is charged what her terms    *)
(* say, and nothing else moves (alice.ts:55-63, bob.ts:30-51, 72-113).     *)
(***************************************************************************)
THEOREM Honoured == ClientSpec => []TermsHonoured
<1>1. TermsInv => TermsHonoured
  BY DEF TermsInv
<1> QED
  BY <1>1, TermsInvariance, PTL

-----------------------------------------------------------------------------
(* Escrows that can be taken.                                              *)

\* Nothing but the stored escrow changes in the key files, and it is posted.
FilesInv ==
  /\ \A name \in TokenFile \cup MintFile :
       files[name] = InitialFiles[name] /\ \A r \in Run : Key(r, name) = InitialFiles[name]
  /\ \A r \in AliceRun : pc[r] = "write" => tx[r] = "ok"
  /\ files["escrow"] # NoKey => \E r \in AliceRun : MadeBy(files["escrow"], r)

\* Every account but a vault keeps its mint and its owner, and the vault of an
\* open escrow holds what its run has paid in.
VaultsInv ==
  /\ \A k \in TokenKey \ Vaults :
       /\ ledger.token[k].mint = InitialToken[k].mint
       /\ ledger.token[k].owner = InitialToken[k].owner
  /\ \A r \in AliceRun : tx[r] = "ok" /\ ledger.escrow[escrowAccount[r]].allocated =>
       ledger.token[tmpXTokenAccount[r]] =
         [mint |-> InitialFiles["mint_x"], owner |-> Pda, amount |-> terms[r].bobExpectedAmount]

\* How one step of the runs changes the key files, what runs have read of
\* them, and where runs of Alice are about to write.
LEMMA FilesStep ==
  ASSUME ClientInv, [ClientNext]_cvars
  PROVE  /\ files' = files \/ \E r \in AliceRun : WritePublicKey(r)
         /\ \A q \in Run : seen'[q].files \in {seen[q].files, files}
         /\ \A q \in AliceRun : pc'[q] = "write" => pc[q] = "write" \/ Initialized(q)
         /\ \A q \in Run : tx[q] = "ok" => tx'[q] = "ok"
<1> DEFINE Unread == \A q \in Run : seen'[q].files = seen[q].files
           Unwritten == \A q \in AliceRun : pc'[q] = "write" => pc[q] = "write"
           Reads == \A q \in Run : seen'[q].files \in {seen[q].files, files}
           Writes == \A q \in AliceRun : pc'[q] = "write" => pc[q] = "write" \/ Initialized(q)
<1>0. pc \in [Run -> Place] /\ seen \in [Run -> Seen] /\ AliceRun \subseteq Run /\ BobRun \subseteq Run
  BY DEF ClientInv, ClientTypeOK, Place, Seen, Run
<1>1. \A q \in Run : tx[q] = "ok" => tx'[q] = "ok"
  <2>1. ASSUME NEW r \in Run, Executes(r) PROVE \A q \in Run : tx[q] = "ok" => tx'[q] = "ok"
    BY <2>1 DEF Executes, Execute, ClientInv, ClientTypeOK
  <2> QED BY <2>1, ClientStep DEF Quiet
<1>2. ASSUME NEW r \in Run, NEW place, pc' = [pc EXCEPT ![r] = place], place = "write" => r \notin AliceRun
      PROVE  Unwritten
  BY <1>0, <1>2
<1>3. ASSUME NEW r \in Run, NEW s, seen' = [seen EXCEPT ![r] = s], s.files \in {seen[r].files, files}
      PROVE  Reads
  BY <1>0, <1>3
<1>4. ASSUME NEW r \in Run, (AliceStart(r) /\ r \in AliceRun) \/ (BobStart(r) /\ r \in BobRun)
      PROVE  files' = files /\ Reads /\ Unwritten
  <2>1. PICK s, place : /\ s = [seen[r] EXCEPT !.files = files] /\ place \in {"send", "decode"}
                        /\ seen' = [seen EXCEPT ![r] = s] /\ pc' = [pc EXCEPT ![r] = place]
                        /\ files' = files
    BY <1>4 DEF AliceStart, BobStart, ReadPublicKeys, Goto
  <2>2. s.files = files /\ place # "write"
    BY <1>0, <2>1 DEF Seen
  <2> QED BY <1>2, <1>3, <2>1, <2>2
<1>5. ASSUME NEW r \in Run, AliceSend(r) \/ BobSend(r) \/ Execute(r) \/ Expire(r) \/ Throw(r) \/ VerifyExchangedEscrow(r)
      PROVE  files' = files /\ Reads /\ Unwritten
  <2>1. files' = files /\ seen' = seen
    BY <1>5 DEF AliceSend, BobSend, Submit, Execute, Expire, Throw, VerifyExchangedEscrow
  <2>2. pc' = pc \/ \E place \in Place \ {"write"} : pc' = [pc EXCEPT ![r] = place]
    BY <1>5 DEF AliceSend, BobSend, Submit, Execute, Expire, Throw, VerifyExchangedEscrow, Goto, Place, Ended
  <2> QED BY <1>2, <2>1, <2>2
<1>6. ASSUME NEW r \in AliceRun, VerifyInitializedEscrow(r)
      PROVE  files' = files /\ Reads /\ Writes
  BY <1>0, <1>6 DEF VerifyInitializedEscrow, Goto
<1>7. ASSUME NEW r \in AliceRun, WritePublicKey(r)
      PROVE  Reads /\ Unwritten
  BY <1>0, <1>2, <1>7 DEF WritePublicKey, Goto
<1>8. ASSUME NEW r \in BobRun, DecodeEscrow(r) \/ ReadAliceY(r) \/ ReadBobX(r)
      PROVE  files' = files /\ Reads /\ Unwritten
  <2>1. files' = files /\ \E place \in Place \ {"write"} : pc' = [pc EXCEPT ![r] = place]
    BY <1>8 DEF DecodeEscrow, ReadAliceY, ReadBobX, Goto, Place, Ended
  <2>2. CASE UNCHANGED seen
    BY <1>0, <1>2, <2>1, <2>2
  <2>3. CASE seen' # seen
    <3>1. PICK s : seen' = [seen EXCEPT ![r] = s] /\ s.files = seen[r].files
      <4>1. CASE DecodeEscrow(r)
        <5>1. PICK s : s = [seen[r] EXCEPT !.state = ledger.escrow[Key(r, "escrow")]]
          OBVIOUS
        <5>2. s.files = seen[r].files
          BY <1>0, <5>1 DEF Seen
        <5> QED BY <2>3, <4>1, <5>1, <5>2 DEF DecodeEscrow
      <4>2. CASE ReadAliceY(r)
        <5>1. PICK s : s = [seen[r] EXCEPT !.aliceY = ledger.token[Key(r, "alice_y")].amount]
          OBVIOUS
        <5>2. s.files = seen[r].files
          BY <1>0, <5>1 DEF Seen
        <5> QED BY <2>3, <4>2, <5>1, <5>2 DEF ReadAliceY
      <4>3. CASE ReadBobX(r)
        <5>1. PICK s : s = [seen[r] EXCEPT !.bobX = ledger.token[Key(r, "bob_x")].amount]
          OBVIOUS
        <5>2. s.files = seen[r].files
          BY <1>0, <5>1 DEF Seen
        <5> QED BY <2>3, <4>3, <5>1, <5>2 DEF ReadBobX
      <4> QED BY <1>8, <4>1, <4>2, <4>3
    <3> QED BY <1>0, <1>2, <1>3, <2>1, <3>1
  <2> QED BY <2>2, <2>3
<1>9. CASE UNCHANGED cvars
  BY <1>1, <1>9 DEF cvars
<1> QED
  <2> HIDE DEF Unread, Reads
  <2>1. (files' = files \/ \E r \in AliceRun : WritePublicKey(r)) /\ Reads /\ Writes
    <3>1. CASE ClientNext
      BY <1>0, <1>4, <1>5, <1>6, <1>7, <1>8, <3>1 DEF ClientNext
    <3>2. CASE UNCHANGED cvars
      BY <1>9, <3>2 DEF cvars, Reads
    <3> QED BY <3>1, <3>2
  <2> QED BY <1>1, <2>1 DEF Reads

LEMMA FilesNext == ClientInv /\ FilesInv /\ [ClientNext]_cvars => FilesInv'
<1> SUFFICES ASSUME ClientInv, FilesInv, [ClientNext]_cvars PROVE FilesInv'
  OBVIOUS
<1>1. \A r \in AliceRun : Initialized(r) => tx[r] = "ok"
  <2> SUFFICES ASSUME NEW r \in AliceRun, Initialized(r) PROVE tx[r] = "ok"
    OBVIOUS
  <2>1. escrowAccount[r] \in EscrowKey /\ ledger.escrow[escrowAccount[r]].allocated
    BY ClientAssumption DEF Initialized
  <2>2. PICK a \in AliceRun : MadeBy(escrowAccount[r], a)
    BY <2>1 DEF ClientInv, EscrowsMade
  <2> QED BY <2>2, ClientAssumption DEF MadeBy
<1>2. \A r \in AliceRun : pc'[r] = "write" => tx'[r] = "ok"
  BY <1>1, FilesStep DEF FilesInv, Run
<1>3. /\ \A name \in TokenFile \cup MintFile : files'[name] = files[name]
      /\ files'["escrow"] # NoKey => \E r \in AliceRun : MadeBy(files["escrow"], r)'
  <2>1. \A e, a : MadeBy(e, a) => MadeBy(e, a)'
    BY FilesStep DEF MadeBy, Run
  <2>2. CASE files' = files
    BY <2>1, <2>2 DEF FilesInv
  <2>3. ASSUME NEW r \in AliceRun, WritePublicKey(r)
        PROVE  /\ \A name \in TokenFile \cup MintFile : files'[name] = files[name]
               /\ MadeBy(files["escrow"], r)'
    <3>1. files' = [files EXCEPT !["escrow"] = escrowAccount[r]] /\ files \in Files /\ tx[r] = "ok"
      BY <2>3 DEF WritePublicKey, ClientInv, ClientTypeOK, FilesInv
    <3>2. files'["escrow"] = escrowAccount[r] /\ tx'[r] = "ok"
      BY <3>1, FilesStep DEF Files, Run
    <3> QED BY <3>1, <3>2 DEF MadeBy, TokenFile, MintFile
  <2> QED BY <2>2, <2>3, FilesStep
<1>4. \A name \in TokenFile \cup MintFile : \A r \in Run : seen'[r].files[name] = InitialFiles[name]
  BY FilesStep DEF FilesInv, Key
<1> QED
  BY <1>2, <1>3, <1>4 DEF FilesInv, Key

LEMMA VaultsNext ==
  SetUpEnded /\ ClientInv /\ PostedInv /\ FilesInv /\ VaultsInv /\ [ClientNext]_cvars => VaultsInv'
<1> SUFFICES ASSUME SetUpEnded, ClientInv, PostedInv, FilesInv, VaultsInv, [ClientNext]_cvars
             PROVE  VaultsInv'
  OBVIOUS
<1>1. CASE Quiet /\ ledger' = ledger
  BY <1>1 DEF VaultsInv, Quiet, Run
<1>2. ASSUME NEW r \in Run, Executes(r)
      PROVE  VaultsInv'
  <2>1. \A k \in TokenKey \ Vaults : /\ ledger'.token[k].mint = InitialToken[k].mint
                                    /\ ledger'.token[k].owner = InitialToken[k].owner
    BY <1>2, ExecutedMoves DEF VaultsInv
  <2>2. /\ tx \in [Run -> {"none", "pending", "ok", "error", "expired"}]
        /\ tx' = [tx EXCEPT ![r] = "ok"] /\ TransactionOk(r) /\ ledger' = Transaction(r)
        /\ ledger \in Ledger /\ ledger' \in Ledger /\ KeysOfKind(seen[r].files)
    BY <1>2, ClientNextInv DEF Executes, Execute, ClientInv, ClientTypeOK, TypeOK
  <2>3. /\ \A q \in Run : q # r /\ tx'[q] = "ok" => tx[q] = "ok"
        /\ \A q \in AliceRun : /\ tmpXTokenAccount[q] \in TokenKey /\ tmpXTokenAccount[q] \in Vaults
                               /\ escrowAccount[q] \in EscrowKey
    BY <2>2, ClientAssumption DEF Vaults
  <2>4. \A q \in Run : \A name \in TokenFile : Key(q, name) \notin Vaults
    BY DEF SetUpEnded, SetUpFor, FilesInv, TokenFile
  <2>5. \A k \in TokenKey : ledger.token[k] \in TokenAccount /\ ledger'.token[k] \in TokenAccount
    BY <2>2, LedgerParts
  <2> DEFINE Kept(q) == /\ ledger'.escrow[escrowAccount[q]].allocated => ledger.escrow[escrowAccount[q]].allocated
                        /\ ledger'.token[tmpXTokenAccount[q]] = ledger.token[tmpXTokenAccount[q]]
  <2>6. ASSUME NEW q \in AliceRun, ledger'.escrow[escrowAccount[q]].allocated,
               tx'[q] = "ok", Kept(q), q # r
        PROVE  ledger'.token[tmpXTokenAccount[q]] =
                 [mint |-> InitialFiles["mint_x"], owner |-> Pda, amount |-> terms[q].bobExpectedAmount]
    BY <2>3, <2>6 DEF VaultsInv, Run
  <2>7. ASSUME r \in AliceRun, NEW q \in AliceRun, tx'[q] = "ok", ledger'.escrow[escrowAccount[q]].allocated
        PROVE  ledger'.token[tmpXTokenAccount[q]] =
                 [mint |-> InitialFiles["mint_x"], owner |-> Pda, amount |-> terms[q].bobExpectedAmount]
    <3>1. AliceTransactionOk(ledger, r) /\ ledger' = AliceTransaction(ledger, r)
      BY <2>2, <2>7 DEF TransactionOk, Transaction
    <3>2. Key(r, "alice_x") \notin Vaults /\ Key(r, "mint_x") = InitialFiles["mint_x"]
      BY <2>4 DEF FilesInv, TokenFile, MintFile
    <3>3. CASE q = r
      <4>1. /\ ledger'.token[tmpXTokenAccount[r]].mint = InitialFiles["mint_x"]
            /\ ledger'.token[tmpXTokenAccount[r]].owner = Pda
            /\ ledger'.token[tmpXTokenAccount[r]].amount = terms[r].bobExpectedAmount
        <5>1. /\ AliceTransaction(ledger, r).token[tmpXTokenAccount[r]].mint = Key(r, "mint_x")
              /\ AliceTransaction(ledger, r).token[tmpXTokenAccount[r]].owner = Pda
              /\ Key(r, "alice_x") # tmpXTokenAccount[r] =>
                   AliceTransaction(ledger, r).token[tmpXTokenAccount[r]].amount = terms[r].bobExpectedAmount
          BY <2>2, <2>7, <3>1, AliceTransactionResult
        <5>2. Key(r, "alice_x") # tmpXTokenAccount[r]
          BY <2>3, <2>7, <3>2
        <5> QED BY <3>1, <3>2, <5>1, <5>2
      <4> QED BY <2>3, <2>5, <3>3, <4>1 DEF TokenAccount
    <3>4. CASE q # r
      <4>1. tmpXTokenAccount[q] # tmpXTokenAccount[r] /\ escrowAccount[q] # escrowAccount[r]
        BY <2>7, <3>4, ClientAssumption
      <4>2. /\ ledger'.token[tmpXTokenAccount[q]].mint = ledger.token[tmpXTokenAccount[q]].mint
            /\ ledger'.token[tmpXTokenAccount[q]].owner = ledger.token[tmpXTokenAccount[q]].owner
            /\ ledger'.token[tmpXTokenAccount[q]].amount = ledger.token[tmpXTokenAccount[q]].amount - 0
        <5>1. tmpXTokenAccount[q] \in TokenKey \ {tmpXTokenAccount[r]} /\ tmpXTokenAccount[q] # Key(r, "alice_x")
          BY <2>3, <3>2, <4>1
        <5>2. \A k \in TokenKey \ {tmpXTokenAccount[r]} :
                /\ AliceTransaction(ledger, r).token[k].mint = ledger.token[k].mint
                /\ AliceTransaction(ledger, r).token[k].owner = ledger.token[k].owner
                /\ AliceTransaction(ledger, r).token[k].amount =
                     ledger.token[k].amount - (IF k = Key(r, "alice_x") THEN terms[r].bobExpectedAmount ELSE 0)
          BY <2>2, <2>7, <3>1, AliceTransactionResult
        <5> QED BY <3>1, <5>1, <5>2
      <4>3. ledger'.token[tmpXTokenAccount[q]] = ledger.token[tmpXTokenAccount[q]]
        BY <2>3, <2>5, <4>2, RentAssumption DEF TokenAccount, U64
      <4>4. ledger'.escrow = [ledger.escrow EXCEPT ![escrowAccount[r]] = PostedState(r)]
        BY <2>2, <2>7, <3>1, AliceTransactionResult
      <4>5. ledger'.escrow[escrowAccount[q]] = ledger.escrow[escrowAccount[q]]
        BY <2>2, <2>3, <4>1, <4>4, LedgerParts
      <4> QED BY <2>6, <2>7, <3>4, <4>3, <4>5
    <3> QED BY <3>3, <3>4
  <2>8. ASSUME r \in BobRun, NEW q \in AliceRun, tx'[q] = "ok", ledger'.escrow[escrowAccount[q]].allocated
        PROVE  ledger'.token[tmpXTokenAccount[q]] =
                 [mint |-> InitialFiles["mint_x"], owner |-> Pda, amount |-> terms[q].bobExpectedAmount]
    <3>1. PICK a \in AliceRun :
            EscrowSettled(ledger, ledger', bob, Key(r, "bob_y"), Key(r, "bob_x"), tmpXTokenAccount[a], alice,
                          Key(a, "alice_y"), escrowAccount[a], terms[a].aliceExpectedAmount,
                          terms[r].bobExpectedAmount)
      BY <1>2, <2>8, ExchangeExecuted
    <3>2. ledger'.escrow = [ledger.escrow EXCEPT ![escrowAccount[a]] = NoEscrow]
      BY <3>1 DEF EscrowSettled
    <3>3. a # q /\ escrowAccount[a] # escrowAccount[q] /\ tmpXTokenAccount[a] # tmpXTokenAccount[q]
      <4>1. a # q
        BY <2>2, <2>3, <2>8, <3>2, LedgerParts DEF NoEscrow
      <4> QED BY <4>1, ClientAssumption
    <3>4. ledger'.escrow[escrowAccount[q]] = ledger.escrow[escrowAccount[q]]
      BY <2>2, <2>3, <3>2, <3>3, LedgerParts
    <3>5. /\ Key(a, "alice_y") # tmpXTokenAccount[q]
          /\ Key(r, "bob_y") # tmpXTokenAccount[q] /\ Key(r, "bob_x") # tmpXTokenAccount[q]
      BY <2>3, <2>4 DEF TokenFile, Run
    <3>6. /\ ledger'.token[tmpXTokenAccount[q]].mint = ledger.token[tmpXTokenAccount[q]].mint
          /\ ledger'.token[tmpXTokenAccount[q]].owner = ledger.token[tmpXTokenAccount[q]].owner
          /\ ledger'.token[tmpXTokenAccount[q]].amount = ledger.token[tmpXTokenAccount[q]].amount + 0 + 0 - 0
      BY <2>3, <3>1, <3>3, <3>5 DEF EscrowSettled
    <3>7. ledger'.token[tmpXTokenAccount[q]] = ledger.token[tmpXTokenAccount[q]]
      BY <2>3, <2>5, <3>6, RentAssumption DEF TokenAccount, U64
    <3>8. q # r
      BY <2>8, ClientAssumption
    <3> QED BY <2>6, <2>8, <3>4, <3>7, <3>8
  <2> QED BY <2>1, <2>7, <2>8 DEF VaultsInv, Run
<1> QED
  BY <1>1, <1>2, ClientStep

\* The inductive invariant behind StoredEscrowTakeable.
TakeInv == PostedInv /\ FilesInv /\ VaultsInv

LEMMA TakeInit == ClientInit => TakeInv
<1> SUFFICES ASSUME ClientInit PROVE TakeInv
  OBVIOUS
<1>1. FilesInv
  BY ClientAssumption DEF ClientInit, FilesInv, NothingSeen, Key, Run
<1>2. VaultsInv
  BY DEF ClientInit, Init, VaultsInv, Run
<1> QED
  BY <1>1, <1>2, PostedInit DEF TakeInv

\* An escrow as a run has posted it, with its vault untouched, can be taken by
\* whoever holds the price.
LEMMA PostedTakeable ==
  ASSUME SetUpEnded, ClientInv, TakeInv, RoomLeft,
         NEW r \in AliceRun, MadeBy(files["escrow"], r), Open(files["escrow"]),
         ledger.token[files["bob_y"]].amount >= Price(files["escrow"]),
         ledger.token[files["bob_y"]].mint = ledger.token[files["alice_y"]].mint
  PROVE  ExchangeOk(ledger, ExchangeKeys(files, ledger.escrow[files["escrow"]]), {bob}, terms[r].bobExpectedAmount)
<1> DEFINE e == files["escrow"]
           t == tmpXTokenAccount[r]
           ay == files["alice_y"]
           price == terms[r].aliceExpectedAmount
           state == ledger.escrow[e]
<1>1. /\ e = escrowAccount[r] /\ e \in EscrowKey /\ tx[r] = "ok" /\ r \in Run
      /\ t \in TokenKey /\ t \in Vaults /\ alice \in Wallet /\ bob \in Wallet
      /\ ledger \in Ledger /\ RoomIn(ledger)
  BY ClientAssumption DEF MadeBy, Run, Vaults, ClientInv, ClientTypeOK, TypeOK, RoomLeft
<1>2. state = PostedState(r)
  <2>1. ledger.escrow[escrowAccount[r]] \in {PostedState(r), NoEscrow}
    BY <1>1 DEF TakeInv, PostedInv
  <2> QED BY <1>1, <2>1 DEF Open, NoEscrow
<1>3. /\ files["alice_y"] = InitialFiles["alice_y"] /\ Key(r, "alice_y") = InitialFiles["alice_y"]
      /\ files["bob_x"] = InitialFiles["bob_x"] /\ files["bob_y"] = InitialFiles["bob_y"]
  BY <1>1 DEF TakeInv, FilesInv, TokenFile
<1>4. /\ state.is_initialized
      /\ state.tmp_token_account_pubkey = t
      /\ state.initializer_pubkey = alice
      /\ state.initializer_token_to_receive_account_pubkey = ay
      /\ state.expected_amount = price
  BY <1>2, <1>3 DEF PostedState
<1>5. /\ ledger.token[t].mint = InitialFiles["mint_x"] /\ ledger.token[t].owner = Pda
      /\ ledger.token[t].amount = terms[r].bobExpectedAmount
  <2>1. ledger.escrow[escrowAccount[r]].allocated
    BY <1>1, <1>2 DEF PostedState
  <2>2. ledger.token[t] =
          [mint |-> InitialFiles["mint_x"], owner |-> Pda, amount |-> terms[r].bobExpectedAmount]
    BY <1>1, <2>1 DEF TakeInv, VaultsInv
  <2> QED BY <2>2
<1>6. /\ InitialFiles["mint_x"] \in Mint /\ InitialFiles["mint_y"] \in Mint
      /\ ay \in TokenKey \ Vaults /\ files["bob_x"] \in TokenKey \ Vaults /\ files["bob_y"] \in TokenKey \ Vaults
  BY <1>3, ClientAssumption DEF SetUpEnded, SetUpFor, TokenFile, MintFile
<1>7. /\ ledger.token[ay].mint = InitialFiles["mint_y"]
      /\ ledger.token[files["bob_x"]].mint = InitialFiles["mint_x"]
      /\ ledger.token[files["bob_y"]].owner = bob
  BY <1>3, <1>6 DEF SetUpEnded, SetUpFor, TakeInv, VaultsInv
<1>8. IsTokenAccount(ledger, t) /\ IsTokenAccount(ledger, ay)
  BY <1>1, <1>5, <1>6, <1>7, AddressAssumption DEF IsTokenAccount
<1>9. /\ ledger.token[files["bob_y"]].amount >= price
      /\ ledger.token[files["bob_y"]].mint = ledger.token[ay].mint
      /\ ay # t /\ files["bob_x"] # t
      /\ ledger.token[files["bob_x"]].mint = ledger.token[t].mint
  BY <1>1, <1>4, <1>5, <1>6, <1>7 DEF Price
<1>10. PICK keys : keys = ExchangeKeys(files, state)
  OBVIOUS
<1>11. keys = <<bob, files["bob_y"], files["bob_x"], t, alice, ay, e, TokenProgram, Pda>>
  BY <1>4, <1>10 DEF ExchangeKeys
<1> HIDE DEF e, t, ay, price, state
<1>12. ExchangeOk(ledger, keys, {bob}, ledger.token[t].amount)
  BY <1>1, <1>4, <1>5, <1>6, <1>7, <1>8, <1>9, <1>11, OpenSettleable DEF state
<1> QED
  BY <1>5, <1>10, <1>12 DEF state, e

(***************************************************************************)
(* After a set-up has ended, for any number of runs of both parties and    *)
(* any terms: whatever key file is stored names an escrow some run of      *)
(* Alice has posted, and while it is open and Bob holds the price, the     *)
(* exchange the client builds from the files goes through as long as       *)
(* amounts add up in a u64 (alice.ts:55-100, main.ts:56-62).               *)
(***************************************************************************)
THEOREM StoredTakeable ==
  ASSUME SetUpEnded
  PROVE  ClientSpec => [](RoomLeft => StoredEscrowTakeable)
<1>1. ClientInv /\ TakeInv /\ [ClientNext]_cvars => TakeInv'
  BY PostedNext, FilesNext, VaultsNext DEF TakeInv
<1>2. ClientInv /\ TakeInv => (RoomLeft => StoredEscrowTakeable)
  <2> SUFFICES ASSUME ClientInv, TakeInv, RoomLeft, files["escrow"] # NoKey
               PROVE  StoredEscrowTakeable
    BY DEF StoredEscrowTakeable
  <2>1. PICK r \in AliceRun : MadeBy(files["escrow"], r)
    BY DEF TakeInv, FilesInv
  <2> QED BY <2>1, PostedTakeable DEF StoredEscrowTakeable, MadeBy
<1> QED
  BY <1>1, <1>2, TakeInit, ClientInvariance, PTL DEF ClientSpec

=============================================================================
