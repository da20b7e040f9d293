---------------------------- MODULE EscrowProofs ----------------------------
(***************************************************************************)
(* Proofs about the escrow program, for every set of wallets, token        *)
(* accounts, escrow accounts, mints and amounts.                           *)
(***************************************************************************)
EXTENDS Escrow, Integers, TLAPS

-----------------------------------------------------------------------------
(* What the services do to a ledger.                                       *)

LEMMA LedgerParts ==
  ASSUME NEW L \in Ledger
  PROVE  /\ L.token \in [TokenKey -> TokenAccount]
         /\ L.escrow \in [EscrowKey -> EscrowAccount]
         /\ L.lamports \in [Wallet \cup TokenKey \cup EscrowKey -> U64]
         /\ L = [token |-> L.token, escrow |-> L.escrow, lamports |-> L.lamports]
BY DEF Ledger

\* R is the ledger L with n tokens moved from src to dst, which may be one account.
Moved(L, R, src, dst, n) ==
  /\ R.escrow = L.escrow
  /\ R.lamports = L.lamports
  /\ \A k \in TokenKey :
       /\ R.token[k].mint = L.token[k].mint
       /\ R.token[k].owner = L.token[k].owner
       /\ R.token[k].amount = L.token[k].amount + (IF k = dst THEN n ELSE 0) - (IF k = src THEN n ELSE 0)

LEMMA NothingLeft ==
  ASSUME NEW m \in Nat, NEW n \in Nat
  PROVE  /\ m + n = 0 => m = 0 /\ n = 0
         /\ m + n = m => n = 0
         /\ m - n = 0 => m = n
OBVIOUS

LEMMA TransferEffect ==
  ASSUME NEW L \in Ledger, NEW src \in TokenKey, NEW dst \in TokenKey, NEW n \in Nat,
         n <= L.token[src].amount,
         src # dst => L.token[dst].amount + n <= U64Max
  PROVE  /\ Transfer(L, src, dst, n) \in Ledger
         /\ Moved(L, Transfer(L, src, dst, n), src, dst, n)
<1> DEFINE T1 == [L.token EXCEPT ![src].amount = @ - n]
           T2 == [T1 EXCEPT ![dst].amount = @ + n]
<1>1. Transfer(L, src, dst, n) = [token |-> T2, escrow |-> L.escrow, lamports |-> L.lamports]
  <2>1. Transfer(L, src, dst, n) = [L EXCEPT !.token = T2]
    BY DEF Transfer
  <2> HIDE DEF T2
  <2>2. QED
    BY <2>1, LedgerParts
<1>2. \A k \in TokenKey : /\ L.token[k].mint \in Mint \cup {NoKey}
                          /\ L.token[k].owner \in Wallet \cup {Pda, NoKey}
                          /\ L.token[k].amount \in U64
  BY LedgerParts DEF TokenAccount
<1>3. \A k \in TokenKey :
        /\ T2[k] = [mint |-> T2[k].mint, owner |-> T2[k].owner, amount |-> T2[k].amount]
        /\ T2[k].mint = L.token[k].mint
        /\ T2[k].owner = L.token[k].owner
        /\ T2[k].amount = L.token[k].amount + (IF k = dst THEN n ELSE 0) - (IF k = src THEN n ELSE 0)
  <2>1. T1 \in [TokenKey -> [mint : Mint \cup {NoKey}, owner : Wallet \cup {Pda, NoKey}, amount : Int]]
    BY LedgerParts, RentAssumption DEF TokenAccount, U64
  <2>2. \A k \in TokenKey :
          /\ T1[k].mint = L.token[k].mint
          /\ T1[k].owner = L.token[k].owner
          /\ T1[k].amount = L.token[k].amount - (IF k = src THEN n ELSE 0)
    BY LedgerParts, RentAssumption DEF TokenAccount, U64
  <2>3. T2 \in [TokenKey -> [mint : Mint \cup {NoKey}, owner : Wallet \cup {Pda, NoKey}, amount : Int]]
    BY <2>1
  <2>4. \A k \in TokenKey :
          /\ T2[k].mint = T1[k].mint
          /\ T2[k].owner = T1[k].owner
          /\ T2[k].amount = T1[k].amount + (IF k = dst THEN n ELSE 0)
    BY <2>1
  <2>5. QED
    BY <1>2, <2>2, <2>3, <2>4, RentAssumption DEF U64
<1>4. \A k \in TokenKey : T2[k].amount \in U64
  <2> HIDE DEF T2
  <2> TAKE k \in TokenKey
  <2>1. L.token[k].amount \in Nat /\ L.token[k].amount <= U64Max /\ U64Max \in Nat
    BY <1>2, RentAssumption DEF U64
  <2>3. T2[k].amount = L.token[k].amount + (IF k = dst THEN n ELSE 0) - (IF k = src THEN n ELSE 0)
    BY <1>3
  <2>4. CASE k = dst /\ k = src
    <3>1. T2[k].amount = L.token[k].amount + n - n
      BY <2>3, <2>4
    <3>2. QED
      BY <2>1, <3>1 DEF U64
  <2>5. CASE k = dst /\ k # src
    BY <2>1, <2>3, <2>5 DEF U64
  <2>6. CASE k # dst /\ k = src
    BY <2>1, <2>3, <2>6 DEF U64
  <2>7. CASE k # dst /\ k # src
    BY <2>1, <2>3, <2>7 DEF U64
  <2>8. QED
    BY <2>4, <2>5, <2>6, <2>7
<1>5. DOMAIN T2 = TokenKey /\ T2 = [k \in TokenKey |-> T2[k]]
  BY LedgerParts
<1>6. T2 \in [TokenKey -> TokenAccount]
  <2> HIDE DEF T2
  <2>1. \A k \in TokenKey : T2[k] \in TokenAccount
    <3> TAKE k \in TokenKey
    <3>1. /\ T2[k].mint \in Mint \cup {NoKey}
          /\ T2[k].owner \in Wallet \cup {Pda, NoKey}
          /\ T2[k].amount \in U64
      BY <1>2, <1>3, <1>4
    <3>2. T2[k] = [mint |-> T2[k].mint, owner |-> T2[k].owner, amount |-> T2[k].amount]
      BY <1>3
    <3> QED BY <3>1, <3>2 DEF TokenAccount
  <2>2. QED
    BY <1>5, <2>1
<1>7. QED
  <2> HIDE DEF T2
  <2>1. /\ Transfer(L, src, dst, n).token = T2
        /\ Transfer(L, src, dst, n).escrow = L.escrow
        /\ Transfer(L, src, dst, n).lamports = L.lamports
    BY <1>1
  <2>2. Transfer(L, src, dst, n) \in Ledger
    BY <1>1, <1>6, LedgerParts DEF Ledger
  <2>3. QED
    BY <1>3, <2>1, <2>2 DEF Moved

LEMMA SetAuthorityEffect ==
  ASSUME NEW L \in Ledger, NEW k \in TokenKey, NEW w \in Wallet \cup {Pda}
  PROVE  /\ SetAuthority(L, k, w) \in Ledger
         /\ SetAuthority(L, k, w).escrow = L.escrow
         /\ SetAuthority(L, k, w).lamports = L.lamports
         /\ SetAuthority(L, k, w).token = [L.token EXCEPT ![k].owner = w]
<1>1. SetAuthority(L, k, w) =
        [token |-> [L.token EXCEPT ![k].owner = w], escrow |-> L.escrow, lamports |-> L.lamports]
  BY LedgerParts DEF SetAuthority
<1>2. [L.token EXCEPT ![k].owner = w] \in [TokenKey -> TokenAccount]
  BY LedgerParts DEF TokenAccount
<1>3. QED
  BY <1>1, <1>2, LedgerParts DEF Ledger

LEMMA CloseAccountEffect ==
  ASSUME NEW L \in Ledger, NEW k \in TokenKey, NEW w \in Wallet,
         L.lamports[w] + L.lamports[k] <= U64Max
  PROVE  /\ CloseAccount(L, k, w) \in Ledger
         /\ CloseAccount(L, k, w).escrow = L.escrow
         /\ CloseAccount(L, k, w).token = [L.token EXCEPT ![k] = NoToken]
         /\ CloseAccount(L, k, w).lamports =
              [L.lamports EXCEPT ![w] = L.lamports[w] + L.lamports[k], ![k] = 0]
<1> DEFINE T == [L.token EXCEPT ![k] = NoToken]
           M == [L.lamports EXCEPT ![w] = L.lamports[w] + L.lamports[k], ![k] = 0]
<1>1. CloseAccount(L, k, w) = [token |-> T, escrow |-> L.escrow, lamports |-> M]
  <2>1. CloseAccount(L, k, w) = [L EXCEPT !.token = T, !.lamports = M]
    BY DEF CloseAccount, Drained
  <2> HIDE DEF T, M
  <2>2. QED
    BY <2>1, LedgerParts
<1>2. T \in [TokenKey -> TokenAccount]
  BY LedgerParts, RentAssumption DEF TokenAccount, NoToken, U64
<1>3. M \in [Wallet \cup TokenKey \cup EscrowKey -> U64]
  BY LedgerParts, RentAssumption DEF U64
<1>4. QED
  BY <1>1, <1>2, <1>3, LedgerParts DEF Ledger

LEMMA CreateAccountEffect ==
  ASSUME NEW L \in Ledger, NEW w \in Wallet, NEW k \in TokenKey \cup EscrowKey, NEW n \in U64,
         n <= L.lamports[w]
  PROVE  /\ CreateAccount(L, w, k, n) \in Ledger
         /\ CreateAccount(L, w, k, n).escrow = L.escrow
         /\ CreateAccount(L, w, k, n).token = L.token
         /\ CreateAccount(L, w, k, n).lamports =
              [L.lamports EXCEPT ![w] = L.lamports[w] - n, ![k] = n]
<1> DEFINE M == [L.lamports EXCEPT ![w] = L.lamports[w] - n, ![k] = n]
<1>1. CreateAccount(L, w, k, n) = [token |-> L.token, escrow |-> L.escrow, lamports |-> M]
  <2>1. CreateAccount(L, w, k, n) = [L EXCEPT !.lamports = M]
    BY DEF CreateAccount
  <2> HIDE DEF M
  <2>2. QED
    BY <2>1, LedgerParts
<1>2. M \in [Wallet \cup TokenKey \cup EscrowKey -> U64]
  BY LedgerParts, RentAssumption DEF U64
<1>3. QED
  BY <1>1, <1>2, LedgerParts DEF Ledger

-----------------------------------------------------------------------------
(* What the two handlers do to a ledger.                                   *)

\* From L to M, initializer's tmp becomes the vault of the escrow account e.
EscrowPosted(L, M, initializer, tmp, recv, e, amount) ==
  /\ M \in Ledger
  /\ M.token = [L.token EXCEPT ![tmp].owner = Pda]
  /\ M.escrow = [L.escrow EXCEPT ![e] =
       [allocated |-> TRUE, is_initialized |-> TRUE, initializer_pubkey |-> initializer,
        tmp_token_account_pubkey |-> tmp,
        initializer_token_to_receive_account_pubkey |-> recv, expected_amount |-> amount]]
  /\ M.lamports = L.lamports
  /\ IsTokenAccount(L, tmp) /\ L.token[tmp].owner = initializer
  /\ RentExempt(L, e) /\ ~ L.escrow[e].is_initialized

LEMMA InitEscrowResult ==
  ASSUME NEW L \in Ledger,
         NEW initializer \in Wallet, NEW signer, NEW tmp \in TokenKey,
         NEW recv \in TokenKey \cup Mint \cup Wallet, NEW e \in EscrowKey, NEW amount \in U64,
         NEW accounts, accounts = <<initializer, tmp, recv, e, TokenProgram>>,
         InitEscrowOk(L, accounts, {signer}, amount)
  PROVE  EscrowPosted(L, InitEscrowEffect(L, accounts, amount), initializer, tmp, recv, e, amount)
<1> DEFINE M == InitEscrowEffect(L, accounts, amount)
<1> DEFINE state == [allocated |-> TRUE, is_initialized |-> TRUE, initializer_pubkey |-> initializer,
                     tmp_token_account_pubkey |-> tmp,
                     initializer_token_to_receive_account_pubkey |-> recv, expected_amount |-> amount]
           E1 == [L.escrow EXCEPT ![e] = state]
           L1 == [L EXCEPT !.escrow = E1]
           a == InitEscrowAccounts(accounts)
<1>1. /\ a.initializer = initializer
      /\ a.tmp_token_account = tmp
      /\ a.token_to_receive_account = recv
      /\ a.escrow_account = e
  BY DEF InitEscrowAccounts
<1>2. /\ OwnedByTokenProgram(L, recv)
      /\ IsTokenAccount(L, tmp) /\ L.token[tmp].owner = initializer
      /\ RentExempt(L, e) /\ ~ L.escrow[e].is_initialized
  <2> HIDE DEF a
  <2> QED BY <1>1 DEF InitEscrowOk, ReceiveAccountOk, EscrowAccountOk, SetAuthorityOk, a
<1>3. recv \in TokenKey \cup Mint
  BY <1>2 DEF OwnedByTokenProgram, IsTokenAccount
<1>4. E1 \in [EscrowKey -> EscrowAccount]
  <2>1. state \in EscrowAccount
    BY <1>3 DEF EscrowAccount
  <2> HIDE DEF state
  <2>2. QED
    BY <2>1, LedgerParts
<1>5. /\ L1 \in Ledger
      /\ L1.token = L.token /\ L1.escrow = E1 /\ L1.lamports = L.lamports
  <2> HIDE DEF E1
  <2>1. L1 = [token |-> L.token, escrow |-> E1, lamports |-> L.lamports]
    BY LedgerParts
  <2>2. QED
    BY <1>4, <2>1, LedgerParts DEF Ledger
<1>6. M = SetAuthority(L1, tmp, Pda)
  <2>1. M = SetAuthority([L EXCEPT !.escrow[a.escrow_account] =
                            [allocated |-> TRUE,
                             is_initialized |-> TRUE,
                             initializer_pubkey |-> a.initializer,
                             tmp_token_account_pubkey |-> a.tmp_token_account,
                             initializer_token_to_receive_account_pubkey |-> a.token_to_receive_account,
                             expected_amount |-> amount]], a.tmp_token_account, Pda)
    BY DEF InitEscrowEffect
  <2> HIDE DEF a
  <2>2. QED
    BY <1>1, <2>1
<1>7. QED
  <2> HIDE DEF L1
  <2>1. /\ M \in Ledger
        /\ M.escrow = L1.escrow
        /\ M.lamports = L1.lamports
        /\ M.token = [L1.token EXCEPT ![tmp].owner = Pda]
    BY <1>5, <1>6, SetAuthorityEffect
  <2>2. QED
    BY <1>2, <1>5, <2>1 DEF EscrowPosted

\* From L to M, taker pays price out of send into recvY, gets goods into recvX,
\* and the vault tmp and the escrow account e are closed in favour of main.
EscrowSettled(L, M, taker, send, recvX, tmp, main, recvY, e, price, goods) ==
  /\ M \in Ledger
  /\ M.token[tmp] = NoToken
  /\ \A k \in TokenKey \ {tmp} :
       /\ M.token[k].mint = L.token[k].mint
       /\ M.token[k].owner = L.token[k].owner
       /\ M.token[k].amount =
            L.token[k].amount + (IF k = recvY THEN price ELSE 0) + (IF k = recvX THEN goods ELSE 0)
              - (IF k = send THEN price ELSE 0)
  /\ M.escrow = [L.escrow EXCEPT ![e] = NoEscrow]
  /\ M.lamports = [k \in Wallet \cup TokenKey \cup EscrowKey |->
       IF k = main THEN L.lamports[main] + L.lamports[tmp] + L.lamports[e]
       ELSE IF k = tmp \/ k = e THEN 0
       ELSE L.lamports[k]]
  /\ L.escrow[e].is_initialized
  /\ L.escrow[e].tmp_token_account_pubkey = tmp
  /\ L.escrow[e].initializer_pubkey = main
  /\ L.escrow[e].initializer_token_to_receive_account_pubkey = recvY
  /\ IsTokenAccount(L, tmp) /\ L.token[tmp].owner = Pda
  /\ IsTokenAccount(L, send) /\ L.token[send].owner = taker
  /\ IsTokenAccount(L, recvY) /\ L.token[recvY].mint = L.token[send].mint
  /\ IsTokenAccount(L, recvX) /\ L.token[recvX].mint = L.token[tmp].mint
  /\ price <= L.token[send].amount
  /\ recvX = tmp => goods = 0
  /\ recvY = tmp => price = 0

LEMMA ExchangeResult ==
  ASSUME NEW L \in Ledger,
         NEW taker \in Wallet, NEW main \in Wallet,
         NEW send \in TokenKey, NEW recvX \in TokenKey, NEW tmp \in TokenKey, NEW recvY \in TokenKey,
         NEW e \in EscrowKey, NEW amount,
         NEW accounts, accounts = <<taker, send, recvX, tmp, main, recvY, e, TokenProgram, Pda>>,
         ExchangeOk(L, accounts, {taker}, amount)
  PROVE  EscrowSettled(L, ExchangeEffect(L, accounts), taker, send, recvX, tmp, main, recvY, e,
                       L.escrow[e].expected_amount, L.token[tmp].amount)
<1> DEFINE M == ExchangeEffect(L, accounts)
<1>p. PICK price : price = L.escrow[e].expected_amount
  OBVIOUS
<1>g. PICK goods : goods = L.token[tmp].amount
  OBVIOUS
<1> DEFINE a == ExchangeAccounts(accounts)
           L1 == PaidInitializer(L, a)
           L2 == PaidTaker(L, a)
           L3 == ClosedVault(L, a)
<1>1. /\ a.taker = taker /\ a.takers_sending_token_account = send
      /\ a.takers_token_to_receive_account = recvX
      /\ a.pdas_tmp_token_account = tmp
      /\ a.initializers_main_account = main
      /\ a.initializers_token_to_receive_account = recvY
      /\ a.escrow_account = e
  BY DEF ExchangeAccounts
<1>2. price \in Nat /\ goods \in Nat
  BY <1>p, <1>g, LedgerParts, RentAssumption DEF EscrowAccount, TokenAccount, U64
<1>3. /\ L1 = Transfer(L, send, recvY, price)
      /\ L2 = Transfer(L1, tmp, recvX, goods)
      /\ L3 = CloseAccount(L2, tmp, main)
      /\ M = [L3 EXCEPT !.lamports = Drained(@, e, main), !.escrow[e] = NoEscrow]
  <2>1. M = [L3 EXCEPT !.lamports = Drained(@, a.escrow_account, a.initializers_main_account),
                       !.escrow[a.escrow_account] = NoEscrow]
    BY DEF ExchangeEffect
  <2>2. L1 = Transfer(L, a.takers_sending_token_account, a.initializers_token_to_receive_account,
                      L.escrow[a.escrow_account].expected_amount)
    BY DEF PaidInitializer
  <2>3. L2 = Transfer(L1, a.pdas_tmp_token_account, a.takers_token_to_receive_account,
                      L.token[a.pdas_tmp_token_account].amount)
    BY DEF PaidTaker
  <2>4. L3 = CloseAccount(L2, a.pdas_tmp_token_account, a.initializers_main_account)
    BY DEF ClosedVault
  <2> HIDE DEF a, L1, L2, L3, M
  <2>5. QED
    BY <1>p, <1>g, <1>1, <2>1, <2>2, <2>3, <2>4
<1>4. /\ IsTokenAccount(L, tmp)
      /\ MatchesEscrow(L.escrow[e], a)
      /\ TransferOk(L, send, recvY, taker, {taker}, price)
      /\ TransferOk(L1, tmp, recvX, Pda, {Pda}, goods)
      /\ CloseAccountOk(L2, tmp, main, Pda, {Pda})
      /\ L3.lamports[main] + L3.lamports[e] <= U64Max
  <2>1. ExchangeOk(L, accounts, {taker}, amount) =>
          /\ IsTokenAccount(L, a.pdas_tmp_token_account)
          /\ MatchesEscrow(L.escrow[a.escrow_account], a)
          /\ TransferOk(L, a.takers_sending_token_account, a.initializers_token_to_receive_account,
                        a.taker, {taker}, L.escrow[a.escrow_account].expected_amount)
          /\ TransferOk(L1, a.pdas_tmp_token_account, a.takers_token_to_receive_account,
                        Pda, {Pda}, L.token[a.pdas_tmp_token_account].amount)
          /\ CloseAccountOk(L2, a.pdas_tmp_token_account, a.initializers_main_account, Pda, {Pda})
          /\ L3.lamports[a.initializers_main_account] + L3.lamports[a.escrow_account] <= U64Max
    BY DEF ExchangeOk, AddsUp
  <2> HIDE DEF a, L1, L2, L3, M
  <2>2. QED
    BY <1>p, <1>g, <1>1, <2>1
<1> HIDE DEF a, L1, L2, L3, M
<1>5. L1 \in Ledger /\ Moved(L, L1, send, recvY, price)
  <2>1. price <= L.token[send].amount /\ (send # recvY => L.token[recvY].amount + price <= U64Max)
    BY <1>4 DEF TransferOk
  <2>2. QED
    BY <1>2, <1>3, <2>1, TransferEffect
<1>6. L2 \in Ledger /\ Moved(L1, L2, tmp, recvX, goods)
  <2>1. goods <= L1.token[tmp].amount /\ (tmp # recvX => L1.token[recvX].amount + goods <= U64Max)
    BY <1>4 DEF TransferOk
  <2>2. QED
    BY <1>2, <1>3, <1>5, <2>1, TransferEffect
<1>7. /\ L3 \in Ledger
      /\ L3.escrow = L.escrow
      /\ L3.token = [L2.token EXCEPT ![tmp] = NoToken]
      /\ L3.lamports = [L.lamports EXCEPT ![main] = L.lamports[main] + L.lamports[tmp], ![tmp] = 0]
  <2>1. L2.lamports[main] + L2.lamports[tmp] <= U64Max
    BY <1>4 DEF CloseAccountOk
  <2>2. /\ CloseAccount(L2, tmp, main) \in Ledger
        /\ CloseAccount(L2, tmp, main).escrow = L2.escrow
        /\ CloseAccount(L2, tmp, main).token = [L2.token EXCEPT ![tmp] = NoToken]
        /\ CloseAccount(L2, tmp, main).lamports =
              [L2.lamports EXCEPT ![main] = L2.lamports[main] + L2.lamports[tmp], ![tmp] = 0]
    <3>1. L2 \in Ledger
      BY <1>6
    <3>2. QED
      BY <2>1, <3>1, CloseAccountEffect, SMTT(60)
  <2>3. L2.escrow = L.escrow /\ L2.lamports = L.lamports
    BY <1>5, <1>6 DEF Moved
  <2>4. QED
    BY <1>3, <2>2, <2>3
<1>8. /\ M \in Ledger
      /\ M.token = L3.token
      /\ M.escrow = [L3.escrow EXCEPT ![e] = NoEscrow]
      /\ M.lamports = [L3.lamports EXCEPT ![main] = L3.lamports[main] + L3.lamports[e], ![e] = 0]
  <2> DEFINE E4 == [L3.escrow EXCEPT ![e] = NoEscrow]
             M4 == [L3.lamports EXCEPT ![main] = L3.lamports[main] + L3.lamports[e], ![e] = 0]
  <2>1. M = [L3 EXCEPT !.lamports = M4, !.escrow = E4]
    BY <1>3 DEF Drained
  <2>2. E4 \in [EscrowKey -> EscrowAccount]
    BY <1>7, LedgerParts, RentAssumption DEF EscrowAccount, NoEscrow, U64
  <2>3. M4 \in [Wallet \cup TokenKey \cup EscrowKey -> U64]
    BY <1>4, <1>7, LedgerParts, RentAssumption DEF U64
  <2> HIDE DEF E4, M4
  <2>4. M = [token |-> L3.token, escrow |-> E4, lamports |-> M4]
    <3>1. L3 = [token |-> L3.token, escrow |-> L3.escrow, lamports |-> L3.lamports]
      BY <1>7, LedgerParts
    <3>2. QED
      BY <2>1, <3>1
  <2>5. M \in Ledger
    BY <1>7, <2>2, <2>3, <2>4, LedgerParts DEF Ledger
  <2>6. M.token = L3.token /\ M.escrow = E4 /\ M.lamports = M4
    BY <2>4
  <2>7. QED
    BY <2>5, <2>6 DEF E4, M4
<1>9. M.token[tmp] = NoToken
  BY <1>6, <1>7, <1>8, LedgerParts
<1>10. ASSUME NEW k \in TokenKey \ {tmp}
       PROVE  /\ M.token[k].mint = L.token[k].mint
              /\ M.token[k].owner = L.token[k].owner
              /\ M.token[k].amount =
                   L.token[k].amount + (IF k = recvY THEN price ELSE 0) + (IF k = recvX THEN goods ELSE 0)
                     - (IF k = send THEN price ELSE 0)
  <2>1. M.token[k] = L2.token[k]
    BY <1>6, <1>7, <1>8, LedgerParts
  <2>2. /\ L2.token[k].mint = L.token[k].mint
        /\ L2.token[k].owner = L.token[k].owner
    BY <1>5, <1>6 DEF Moved
  <2>3. L1.token[k].amount =
          L.token[k].amount + (IF k = recvY THEN price ELSE 0) - (IF k = send THEN price ELSE 0)
    BY <1>5 DEF Moved
  <2>4. L2.token[k].amount = L1.token[k].amount + (IF k = recvX THEN goods ELSE 0)
    <3>1. L2.token[k].amount = L1.token[k].amount + (IF k = recvX THEN goods ELSE 0) - 0
      BY <1>6 DEF Moved
    <3>2. L1.token[k].amount \in Nat
      BY <1>5, LedgerParts, RentAssumption DEF TokenAccount, U64
    <3>3. QED
      BY <1>2, <3>1, <3>2
  <2>5. L.token[k].amount \in Nat
    BY LedgerParts, RentAssumption DEF TokenAccount, U64
  <2>6. QED
    BY <1>2, <2>1, <2>2, <2>3, <2>4, <2>5
<1>11. M.lamports = [k \in Wallet \cup TokenKey \cup EscrowKey |->
              IF k = main THEN L.lamports[main] + L.lamports[tmp] + L.lamports[e]
              ELSE IF k = tmp \/ k = e THEN 0
              ELSE L.lamports[k]]
  BY <1>7, <1>8, LedgerParts, AddressAssumption
<1>12. /\ IsTokenAccount(L, tmp) /\ L.token[tmp].owner = Pda
       /\ IsTokenAccount(L, send) /\ L.token[send].owner = taker
       /\ IsTokenAccount(L, recvY) /\ L.token[recvY].mint = L.token[send].mint
       /\ IsTokenAccount(L, recvX) /\ L.token[recvX].mint = L.token[tmp].mint
       /\ price <= L.token[send].amount
  <2>1. /\ IsTokenAccount(L1, tmp) /\ L1.token[tmp].owner = Pda
        /\ IsTokenAccount(L1, recvX) /\ L1.token[recvX].mint = L1.token[tmp].mint
    BY <1>4 DEF TransferOk
  <2>2. \A k \in TokenKey : L1.token[k].mint = L.token[k].mint /\ L1.token[k].owner = L.token[k].owner
    BY <1>5 DEF Moved
  <2>3. QED
    BY <1>4, <2>1, <2>2 DEF TransferOk, IsTokenAccount
<1>13. L2.token[tmp].amount = 0
  BY <1>4 DEF CloseAccountOk
<1>14. /\ recvX = tmp => goods = 0
       /\ recvY = tmp => price = 0
  <2>1. L.token[tmp].amount = goods /\ L1.token[tmp].amount \in Nat
    BY <1>p, <1>g, <1>5, LedgerParts, RentAssumption DEF TokenAccount, U64
  <2>2. send # tmp
    BY <1>12, AddressAssumption
  <2>3. L1.token[tmp].amount = goods + (IF tmp = recvY THEN price ELSE 0) - 0
    BY <1>5, <2>1, <2>2 DEF Moved
  <2>4. L2.token[tmp].amount = L1.token[tmp].amount + (IF tmp = recvX THEN goods ELSE 0) - goods
    BY <1>6 DEF Moved
  <2>5. CASE tmp = recvX
    <3>1. L2.token[tmp].amount = L1.token[tmp].amount + goods - goods
      BY <2>4, <2>5
    <3>2. L1.token[tmp].amount = 0
      BY <1>2, <1>13, <2>1, <3>1
    <3>3. CASE tmp = recvY
      <4>1. goods + price = 0
        BY <1>2, <2>3, <3>2, <3>3
      <4>2. goods = 0 /\ price = 0
        BY <1>2, <4>1, NothingLeft
      <4>3. QED
        BY <4>2
    <3>4. CASE tmp # recvY
      <4>1. goods = 0
        BY <1>2, <2>3, <3>2, <3>4
      <4>2. QED
        BY <3>4, <4>1
    <3>5. QED
      BY <3>3, <3>4
  <2>6. CASE tmp # recvX
    <3>1. L2.token[tmp].amount = L1.token[tmp].amount + 0 - goods
      BY <2>4, <2>6
    <3>2. L1.token[tmp].amount = goods
      <4>1. L1.token[tmp].amount - goods = 0
        BY <1>2, <1>13, <2>1, <3>1
      <4>2. QED
        BY <1>2, <2>1, <4>1, NothingLeft
    <3>3. ASSUME tmp = recvY PROVE price = 0
      <4>1. goods + price = goods
        BY <1>2, <2>3, <3>2, <3>3
      <4>2. QED
        BY <1>2, <4>1, NothingLeft
    <3>4. QED
      BY <2>6, <3>3
  <2>7. QED
    BY <2>5, <2>6
<1>15. /\ L.escrow[e].is_initialized
       /\ L.escrow[e].tmp_token_account_pubkey = tmp
       /\ L.escrow[e].initializer_pubkey = main
       /\ L.escrow[e].initializer_token_to_receive_account_pubkey = recvY
  BY <1>1, <1>4 DEF MatchesEscrow
<1>16. QED
  BY <1>p, <1>g, <1>7, <1>8, <1>9, <1>10, <1>11, <1>12, <1>14, <1>15 DEF EscrowSettled, M

-----------------------------------------------------------------------------
(* The inductive invariant.                                                *)

LEMMA InitInv == Init => IInv
<1> SUFFICES ASSUME Init PROVE IInv
  OBVIOUS
<1>1. /\ ledger.token = InitialToken
      /\ ledger.escrow = [e \in EscrowKey |-> NoEscrow]
      /\ ledger.lamports = InitialLamports
      /\ ledger = [token |-> InitialToken, escrow |-> [e \in EscrowKey |-> NoEscrow],
                   lamports |-> InitialLamports]
  BY DEF Init
<1>2. TypeOK
  <2>1. [e \in EscrowKey |-> NoEscrow] \in [EscrowKey -> EscrowAccount]
    BY RentAssumption DEF NoEscrow, EscrowAccount, U64
  <2>2. QED
    BY <1>1, <2>1, InitialAssumption DEF TypeOK, Ledger
<1>3. \A e \in EscrowKey : ledger.escrow[e] = NoEscrow /\ ~ Open(e)
  BY <1>1 DEF Open, NoEscrow
<1>4. \A k \in TokenKey : ledger.token[k].owner # Pda
  BY <1>1, InitialAssumption, AddressAssumption DEF NoToken
<1>5. CustodyInv
  BY <1>3, <1>4 DEF CustodyInv, VaultHeld, VaultsDistinct, NoOrphanVault
<1>6. AccountsFunded
  BY <1>1, <1>3, InitialAssumption, AddressAssumption DEF AccountsFunded, NoToken
<1>7. QED
  BY <1>2, <1>5, <1>6 DEF IInv

\* What an open escrow has, in one place.
LEMMA OpenParts ==
  ASSUME IInv, NEW e \in EscrowKey, Open(e)
  PROVE  /\ Vault(e) \in TokenKey
         /\ ledger.token[Vault(e)].mint \in Mint
         /\ ledger.token[Vault(e)].owner = Pda
         /\ RentExempt(ledger, e)
         /\ \A f \in EscrowKey : Open(f) /\ Vault(f) = Vault(e) => f = e
<1>1. IsTokenAccount(ledger, Vault(e)) /\ ledger.token[Vault(e)].owner = Pda
  BY DEF IInv, CustodyInv, VaultHeld
<1>2. Vault(e) \in TokenKey /\ ledger.token[Vault(e)].mint \in Mint
  BY <1>1, LedgerParts DEF IsTokenAccount, IInv, TypeOK, TokenAccount
<1>3. QED
  BY <1>1, <1>2 DEF IInv, CustodyInv, VaultsDistinct, AccountsFunded

\* Every step of the Exchange action settles an escrow.
LEMMA ExchangeSettles ==
  ASSUME ledger \in Ledger, ExchangeStep
  PROVE  \E e \in EscrowKey, tmp, recvY \in TokenKey, main, taker \in Wallet, send, recvX \in TokenKey :
           EscrowSettled(ledger, ledger', taker, send, recvX, tmp, main, recvY, e,
                         ledger.escrow[e].expected_amount, ledger.token[tmp].amount)
<1>1. PICK e \in EscrowKey, tmp \in TokenKey, recvY \in TokenKey \cup Mint, main \in Wallet,
           taker \in Wallet, amount \in Amounts :
             \E send \in HeldBy(taker), recvX \in TokenKey :
               Exchange(<<taker, send, recvX, tmp, main, recvY, e, TokenProgram, Pda>>, {taker}, amount)
  <2>1. PICK e \in EscrowKey : \E n \in Named(e), taker \in Wallet, amount \in Amounts :
          \E send \in HeldBy(taker), recvX \in TokenKey :
            Exchange(<<taker, send, recvX, n.pdas_tmp_token_account, n.initializers_main_account,
                       n.initializers_token_to_receive_account, e, TokenProgram, Pda>>, {taker}, amount)
    BY DEF ExchangeStep
  <2>2. \A n \in Named(e) :
          /\ n.pdas_tmp_token_account \in TokenKey
          /\ n.initializers_main_account \in Wallet
          /\ n.initializers_token_to_receive_account \in TokenKey \cup Mint
    BY DEF Named
  <2>3. QED
    BY <2>1, <2>2
<1>2. PICK send \in TokenKey, recvX \in TokenKey :
        Exchange(<<taker, send, recvX, tmp, main, recvY, e, TokenProgram, Pda>>, {taker}, amount)
  BY <1>1 DEF HeldBy
<1>3. PICK accounts : accounts = <<taker, send, recvX, tmp, main, recvY, e, TokenProgram, Pda>>
  OBVIOUS
<1>4. /\ ExchangeOk(ledger, accounts, {taker}, amount)
      /\ ledger' = ExchangeEffect(ledger, accounts)
  BY <1>2, <1>3 DEF Exchange
<1>5. recvY \in TokenKey
  <2>1. IsTokenAccount(ledger, ExchangeAccounts(accounts).initializers_token_to_receive_account)
    BY <1>4 DEF ExchangeOk, TransferOk
  <2>2. ExchangeAccounts(accounts).initializers_token_to_receive_account = recvY
    BY <1>3 DEF ExchangeAccounts
  <2>3. QED
    BY <2>1, <2>2 DEF IsTokenAccount
<1>6. EscrowSettled(ledger, ledger', taker, send, recvX, tmp, main, recvY, e,
                    ledger.escrow[e].expected_amount, ledger.token[tmp].amount)
  BY <1>3, <1>4, <1>5, ExchangeResult
<1>7. QED
  BY <1>5, <1>6

\* Every step of the InitEscrow action posts one.
LEMMA InitEscrowPosts ==
  ASSUME ledger \in Ledger, InitEscrowStep
  PROVE  \E initializer \in Wallet, tmp \in TokenKey, recv \in TokenKey \cup Mint \cup Wallet,
            e \in EscrowKey, amount \in Amounts :
              EscrowPosted(ledger, ledger', initializer, tmp, recv, e, amount)
<1>1. PICK initializer \in Wallet, signer \in Wallet, tmp \in TokenKey,
           recv \in TokenKey \cup Mint \cup Wallet, e \in EscrowKey, amount \in Amounts :
             InitEscrow(<<initializer, tmp, recv, e, TokenProgram>>, {signer}, amount)
  BY DEF InitEscrowStep
<1>2. PICK accounts : accounts = <<initializer, tmp, recv, e, TokenProgram>>
  OBVIOUS
<1>3. /\ InitEscrowOk(ledger, accounts, {signer}, amount)
      /\ ledger' = InitEscrowEffect(ledger, accounts, amount)
  BY <1>1, <1>2 DEF InitEscrow
<1>4. EscrowPosted(ledger, ledger', initializer, tmp, recv, e, amount)
  BY <1>2, <1>3, InitEscrowResult, InitialAssumption
<1>5. QED
  BY <1>4

LEMMA InitEscrowInv == IInv /\ InitEscrowStep => IInv'
<1> SUFFICES ASSUME IInv, InitEscrowStep PROVE IInv'
  OBVIOUS
<1>1. PICK initializer \in Wallet, tmp \in TokenKey, recv \in TokenKey \cup Mint \cup Wallet,
           e \in EscrowKey, amount \in Amounts :
             EscrowPosted(ledger, ledger', initializer, tmp, recv, e, amount)
  BY InitEscrowPosts DEF IInv, TypeOK
<1> DEFINE state == [allocated |-> TRUE, is_initialized |-> TRUE, initializer_pubkey |-> initializer,
                     tmp_token_account_pubkey |-> tmp,
                     initializer_token_to_receive_account_pubkey |-> recv, expected_amount |-> amount]
<1>2. ledger \in Ledger
  BY DEF IInv, TypeOK
<1>3. /\ ledger' \in Ledger
      /\ ledger'.token = [ledger.token EXCEPT ![tmp].owner = Pda]
      /\ ledger'.escrow = [ledger.escrow EXCEPT ![e] = state]
      /\ ledger'.lamports = ledger.lamports
      /\ IsTokenAccount(ledger, tmp) /\ ledger.token[tmp].owner = initializer
      /\ RentExempt(ledger, e) /\ ~ Open(e)
  BY <1>1 DEF EscrowPosted, Open
<1>4. TypeOK'
  BY <1>3 DEF TypeOK
<1>5. /\ Open(e)' /\ Vault(e)' = tmp
      /\ \A f \in EscrowKey \ {e} : (Open(f)' <=> Open(f)) /\ Vault(f)' = Vault(f)
                                    /\ ledger'.escrow[f] = ledger.escrow[f]
  BY <1>2, <1>3, LedgerParts DEF Open, Vault
<1>6. /\ ledger'.token[tmp].mint = ledger.token[tmp].mint
      /\ ledger'.token[tmp].owner = Pda
      /\ \A k \in TokenKey \ {tmp} : ledger'.token[k] = ledger.token[k]
  BY <1>2, <1>3, LedgerParts DEF TokenAccount
<1>7. \A f \in EscrowKey \ {e} : Open(f) => Vault(f) \in TokenKey \ {tmp}
  BY <1>3, OpenParts, AddressAssumption
<1>8. VaultHeld'
  BY <1>3, <1>5, <1>6, <1>7, OpenParts, AddressAssumption DEF VaultHeld, IsTokenAccount
<1>9. VaultsDistinct'
  BY <1>5, <1>7, OpenParts DEF VaultsDistinct
<1>10. NoOrphanVault'
  BY <1>3, <1>5, <1>6 DEF NoOrphanVault, IInv, CustodyInv
<1>11. AccountsFunded'
  BY <1>3, <1>5, <1>6, RentAssumption, LedgerParts DEF AccountsFunded, IInv, RentExempt, IsTokenAccount, U64, Initializer
<1>12. QED
  BY <1>4, <1>8, <1>9, <1>10, <1>11 DEF IInv, CustodyInv

LEMMA ExchangeInv == IInv /\ ExchangeStep => IInv'
<1> SUFFICES ASSUME IInv, ExchangeStep PROVE IInv'
  OBVIOUS
<1>1. PICK e \in EscrowKey, tmp \in TokenKey, recvY \in TokenKey, main \in Wallet, taker \in Wallet,
           send \in TokenKey, recvX \in TokenKey :
             EscrowSettled(ledger, ledger', taker, send, recvX, tmp, main, recvY, e,
                           ledger.escrow[e].expected_amount, ledger.token[tmp].amount)
  BY ExchangeSettles DEF IInv, TypeOK
<1>2. ledger \in Ledger
  BY DEF IInv, TypeOK
<1>3. TypeOK'
  BY <1>1 DEF EscrowSettled, TypeOK
<1>4. /\ Open(e) /\ Vault(e) = tmp /\ Initializer(e) = main
      /\ ~ Open(e)' /\ ledger'.escrow[e] = NoEscrow
      /\ \A f \in EscrowKey \ {e} : ledger'.escrow[f] = ledger.escrow[f]
  <2>1. ledger'.escrow[e] = NoEscrow /\ \A f \in EscrowKey \ {e} : ledger'.escrow[f] = ledger.escrow[f]
    BY <1>1, <1>2, LedgerParts DEF EscrowSettled
  <2>2. QED
    BY <1>1, <2>1 DEF EscrowSettled, Open, Vault, Initializer, NoEscrow
<1>5. /\ ledger'.token[tmp] = NoToken
      /\ \A k \in TokenKey \ {tmp} : /\ ledger'.token[k].mint = ledger.token[k].mint
                                     /\ ledger'.token[k].owner = ledger.token[k].owner
  BY <1>1 DEF EscrowSettled
<1>6. \A f \in EscrowKey \ {e} : /\ Open(f)' <=> Open(f)
                                 /\ Vault(f)' = Vault(f)
                                 /\ Open(f) => Vault(f) \in TokenKey \ {tmp}
  BY <1>4, OpenParts DEF Open, Vault
<1>7. VaultHeld'
  BY <1>4, <1>5, <1>6, OpenParts, AddressAssumption DEF VaultHeld, IsTokenAccount
<1>8. VaultsDistinct'
  BY <1>4, <1>6, OpenParts DEF VaultsDistinct
<1>9. NoOrphanVault'
  <2>1. ASSUME NEW k \in TokenKey, ledger'.token[k].owner = Pda
        PROVE  \E f \in EscrowKey : Open(f)' /\ Vault(f)' = k
    <3>1. k # tmp
      BY <1>5, <2>1, AddressAssumption DEF NoToken
    <3>2. ledger.token[k].owner = Pda
      BY <1>5, <2>1, <3>1
    <3>3. PICK f \in EscrowKey : Open(f) /\ Vault(f) = k
      BY <3>2 DEF NoOrphanVault, IInv, CustodyInv
    <3>4. f # e
      BY <1>4, <3>1, <3>3
    <3>5. QED
      BY <1>6, <3>3, <3>4
  <2>2. QED
    BY <2>1 DEF NoOrphanVault
<1>10. AccountsFunded'
  <2>1. /\ ledger'.lamports[tmp] = 0 /\ ledger'.lamports[e] = 0
        /\ \A k \in TokenKey \ {tmp} : ledger'.lamports[k] = ledger.lamports[k]
        /\ \A f \in EscrowKey \ {e} : ledger'.lamports[f] = ledger.lamports[f]
    BY <1>1, AddressAssumption DEF EscrowSettled
  <2>2. ASSUME NEW k \in TokenKey
        PROVE  /\ ledger'.lamports[k] = 0 <=> ledger'.token[k].mint = NoKey
               /\ ledger'.token[k].mint = NoKey => ledger'.token[k] = NoToken
    <3>1. CASE k = tmp
      BY <1>5, <2>1, <3>1 DEF NoToken
    <3>2. CASE k # tmp
      <4>1. ledger'.lamports[k] = 0 <=> ledger'.token[k].mint = NoKey
        BY <1>5, <2>1, <3>2 DEF AccountsFunded, IInv
      <4>2. ASSUME ledger'.token[k].mint = NoKey
            PROVE  ledger'.token[k] = NoToken
        <5>1. ledger.token[k] = NoToken
          BY <1>5, <3>2, <4>2 DEF AccountsFunded, IInv
        <5>2. k # send /\ k # recvX /\ k # recvY
          BY <1>1, <5>1 DEF EscrowSettled, IsTokenAccount, NoToken
        <5>3. ledger'.token[k].amount = 0 + 0 + 0 - 0
          BY <1>1, <3>2, <5>1, <5>2 DEF EscrowSettled, NoToken
        <5>4. ledger'.token[k].owner = NoKey
          BY <1>5, <3>2, <5>1 DEF NoToken
        <5>5. ledger'.token[k] \in TokenAccount
          BY <1>3, LedgerParts DEF TypeOK, Ledger
        <5>6. QED
          BY <4>2, <5>3, <5>4, <5>5 DEF TokenAccount, NoToken
      <4>3. QED
        BY <4>1, <4>2
    <3>3. QED
      BY <3>1, <3>2
  <2>3. ASSUME NEW f \in EscrowKey
        PROVE  /\ ledger'.lamports[f] = 0 => ledger'.escrow[f] = NoEscrow
               /\ Open(f)' => RentExempt(ledger, f)' /\ Initializer(f)' \in Wallet
    <3>1. CASE f = e
      BY <1>4, <3>1
    <3>2. CASE f # e
      BY <1>4, <1>6, <2>1, <3>2 DEF AccountsFunded, IInv, RentExempt, Initializer
    <3>3. QED
      BY <3>1, <3>2
  <2>4. QED
    BY <2>2, <2>3 DEF AccountsFunded
<1>11. QED
  BY <1>3, <1>7, <1>8, <1>9, <1>10 DEF IInv, CustodyInv

\* Steps that leave escrows alone and give up nothing the derived address holds
\* keep the custody part of the invariant.
LEMMA CustodyKept ==
  ASSUME IInv,
         ledger'.escrow = ledger.escrow,
         \A k \in TokenKey : \/ /\ ledger'.token[k].mint = ledger.token[k].mint
                                /\ ledger'.token[k].owner = ledger.token[k].owner
                             \/ ledger.token[k].owner # Pda /\ ledger'.token[k].owner # Pda
  PROVE  CustodyInv'
<1>1. \A e \in EscrowKey : (Open(e)' <=> Open(e)) /\ Vault(e)' = Vault(e)
  BY DEF Open, Vault
<1>2. VaultHeld'
  BY <1>1, OpenParts DEF VaultHeld, IsTokenAccount, IInv, CustodyInv
<1>3. VaultsDistinct'
  BY <1>1 DEF VaultsDistinct, IInv, CustodyInv
<1>4. NoOrphanVault'
  BY <1>1 DEF NoOrphanVault, IInv, CustodyInv
<1>5. QED
  BY <1>2, <1>3, <1>4 DEF CustodyInv

LEMMA CreateTokenAccountResult ==
  ASSUME ledger \in Ledger, NEW w \in Wallet, NEW k \in ChurnKeys, NEW mint \in Mint,
         CreateTokenAccount(w, k, mint)
  PROVE  /\ k \in TokenKey /\ TokenRent > 0 /\ ledger.lamports[k] = 0
         /\ ledger' \in Ledger
         /\ ledger'.escrow = ledger.escrow
         /\ ledger'.token = [ledger.token EXCEPT ![k] = [mint |-> mint, owner |-> w, amount |-> 0]]
         /\ ledger'.lamports = [ledger.lamports EXCEPT ![w] = ledger.lamports[w] - TokenRent, ![k] = TokenRent]
<1> DEFINE C == CreateAccount(ledger, w, k, TokenRent)
           T == [C.token EXCEPT ![k] = [mint |-> mint, owner |-> w, amount |-> 0]]
<1>1. ledger \in Ledger /\ k \in TokenKey /\ TokenRent \in U64 /\ TokenRent > 0
  BY InitialAssumption, RentAssumption DEF U64
<1>2. /\ C \in Ledger /\ C.escrow = ledger.escrow /\ C.token = ledger.token
      /\ C.lamports = [ledger.lamports EXCEPT ![w] = ledger.lamports[w] - TokenRent, ![k] = TokenRent]
      /\ ledger.lamports[k] = 0
  BY <1>1, CreateAccountEffect DEF CreateTokenAccount, WithTokenAccount, CreateAccountOk
<1>3. /\ ledger' \in Ledger /\ ledger'.escrow = ledger.escrow /\ ledger'.lamports = C.lamports
      /\ ledger'.token = [ledger.token EXCEPT ![k] = [mint |-> mint, owner |-> w, amount |-> 0]]
  <2>1. ledger' = [C EXCEPT !.token[k] = [mint |-> mint, owner |-> w, amount |-> 0]]
    BY DEF CreateTokenAccount, WithTokenAccount
  <2> HIDE DEF C
  <2>2. T \in [TokenKey -> TokenAccount]
    <3>1. [mint |-> mint, owner |-> w, amount |-> 0] \in TokenAccount
      BY RentAssumption DEF TokenAccount, U64
    <3>2. QED
      BY <1>1, <1>2, <3>1, LedgerParts
  <2>3. ledger' = [C EXCEPT !.token = T]
    BY <2>1
  <2> HIDE DEF T
  <2>4. ledger' = [token |-> T, escrow |-> C.escrow, lamports |-> C.lamports]
    BY <1>2, <2>3, LedgerParts
  <2>5. ledger' \in Ledger
    BY <1>2, <2>2, <2>4, LedgerParts DEF Ledger
  <2>6. QED
    BY <1>2, <2>4, <2>5 DEF T
<1>4. QED
  BY <1>1, <1>2, <1>3

LEMMA CreateTokenAccountInv ==
  ASSUME IInv, NEW w \in Wallet, NEW k \in ChurnKeys, NEW mint \in Mint, CreateTokenAccount(w, k, mint)
  PROVE  IInv'
<1>1. ledger \in Ledger
  BY DEF IInv, TypeOK
<1>2. /\ k \in TokenKey /\ TokenRent > 0 /\ ledger.lamports[k] = 0
      /\ ledger' \in Ledger
      /\ ledger'.escrow = ledger.escrow
      /\ ledger'.token = [ledger.token EXCEPT ![k] = [mint |-> mint, owner |-> w, amount |-> 0]]
      /\ ledger'.lamports = [ledger.lamports EXCEPT ![w] = ledger.lamports[w] - TokenRent, ![k] = TokenRent]
  BY <1>1, CreateTokenAccountResult
<1>3. ledger.token[k] = NoToken
  BY <1>1, <1>2 DEF IInv, AccountsFunded
<1>4. /\ ledger'.token[k] = [mint |-> mint, owner |-> w, amount |-> 0]
      /\ \A j \in TokenKey \ {k} : ledger'.token[j] = ledger.token[j]
  BY <1>1, <1>2, LedgerParts
<1>5. CustodyInv'
  BY <1>2, <1>3, <1>4, CustodyKept, AddressAssumption DEF NoToken
<1>6. /\ ledger'.lamports[k] = TokenRent
      /\ \A j \in (TokenKey \cup EscrowKey) \ {k} : ledger'.lamports[j] = ledger.lamports[j]
  BY <1>1, <1>2, AddressAssumption, LedgerParts
<1>7. AccountsFunded'
  <2>1. \A j \in TokenKey : /\ ledger'.lamports[j] = 0 <=> ledger'.token[j].mint = NoKey
                            /\ ledger'.token[j].mint = NoKey => ledger'.token[j] = NoToken
    BY <1>2, <1>4, <1>6, AddressAssumption, RentAssumption DEF IInv, AccountsFunded
  <2>2. \A e \in EscrowKey : /\ ledger'.lamports[e] = ledger.lamports[e]
                             /\ ledger'.escrow[e] = ledger.escrow[e]
    BY <1>2, <1>6, AddressAssumption
  <2>3. QED
    BY <2>1, <2>2 DEF IInv, AccountsFunded, Open, Initializer, RentExempt
<1>8. QED
  BY <1>2, <1>5, <1>7 DEF IInv, TypeOK

LEMMA TokenTransferInv ==
  ASSUME IInv, NEW w \in Wallet, NEW src \in TokenKey, NEW dst \in TokenKey, NEW n \in Amounts,
         TokenTransfer(w, src, dst, n)
  PROVE  IInv'
<1>1. ledger \in Ledger /\ n \in Nat
  BY InitialAssumption, RentAssumption DEF IInv, TypeOK, U64
<1>2. /\ ledger' = Transfer(ledger, src, dst, n)
      /\ IsTokenAccount(ledger, src) /\ IsTokenAccount(ledger, dst)
      /\ n <= ledger.token[src].amount
      /\ src # dst => ledger.token[dst].amount + n <= U64Max
  BY DEF TokenTransfer, TransferOk
<1>3. ledger' \in Ledger /\ Moved(ledger, ledger', src, dst, n)
  BY <1>1, <1>2, TransferEffect
<1>4. /\ ledger'.escrow = ledger.escrow
      /\ ledger'.lamports = ledger.lamports
      /\ \A k \in TokenKey : ledger'.token[k].mint = ledger.token[k].mint
                             /\ ledger'.token[k].owner = ledger.token[k].owner
  BY <1>3 DEF Moved
<1>5. CustodyInv'
  BY <1>4, CustodyKept
<1>6. ASSUME NEW k \in TokenKey, ledger'.token[k].mint = NoKey
      PROVE  ledger'.token[k] = NoToken
  <2>1. ledger.token[k] = NoToken
    BY <1>4, <1>6 DEF IInv, AccountsFunded
  <2>2. k # src /\ k # dst
    BY <1>2, <2>1 DEF IsTokenAccount, NoToken
  <2>3. ledger'.token[k].amount = 0 + 0 - 0
    BY <1>3, <2>1, <2>2 DEF Moved, NoToken
  <2>4. ledger'.token[k] \in TokenAccount
    BY <1>3, LedgerParts
  <2>5. QED
    BY <1>4, <2>1, <2>3, <2>4 DEF TokenAccount, NoToken
<1>7. AccountsFunded'
  BY <1>4, <1>6 DEF IInv, AccountsFunded, Open, Initializer, RentExempt
<1>8. QED
  BY <1>3, <1>5, <1>7 DEF IInv, TypeOK

LEMMA CloseTokenAccountResult ==
  ASSUME ledger \in Ledger, NEW w \in Wallet, NEW k \in ChurnKeys, CloseTokenAccount(w, k)
  PROVE  /\ k \in TokenKey /\ ledger.token[k].owner = w /\ ledger.token[k].amount = 0
         /\ ledger' \in Ledger
         /\ ledger'.escrow = ledger.escrow
         /\ ledger'.token = [ledger.token EXCEPT ![k] = NoToken]
         /\ ledger'.lamports = [ledger.lamports EXCEPT ![w] = ledger.lamports[w] + ledger.lamports[k], ![k] = 0]
<1>1. ledger \in Ledger /\ k \in TokenKey
  BY InitialAssumption
<1>2. /\ ledger.token[k].owner = w /\ ledger.token[k].amount = 0
      /\ ledger.lamports[w] + ledger.lamports[k] <= U64Max
      /\ ledger' = CloseAccount(ledger, k, w)
  BY DEF CloseTokenAccount, CloseAccountOk
<1>3. /\ ledger' \in Ledger
      /\ ledger'.escrow = ledger.escrow
      /\ ledger'.token = [ledger.token EXCEPT ![k] = NoToken]
      /\ ledger'.lamports = [ledger.lamports EXCEPT ![w] = ledger.lamports[w] + ledger.lamports[k], ![k] = 0]
  BY <1>1, <1>2, CloseAccountEffect
<1>4. QED
  BY <1>1, <1>2, <1>3

LEMMA CloseTokenAccountInv ==
  ASSUME IInv, NEW w \in Wallet, NEW k \in ChurnKeys, CloseTokenAccount(w, k)
  PROVE  IInv'
<1>1. ledger \in Ledger /\ k \in TokenKey
  BY InitialAssumption DEF IInv, TypeOK
<1>2. ledger.token[k].owner = w
  BY <1>1, CloseTokenAccountResult
<1>3. /\ ledger' \in Ledger
      /\ ledger'.escrow = ledger.escrow
      /\ ledger'.token = [ledger.token EXCEPT ![k] = NoToken]
      /\ ledger'.lamports = [ledger.lamports EXCEPT ![w] = ledger.lamports[w] + ledger.lamports[k], ![k] = 0]
  BY <1>1, CloseTokenAccountResult
<1>4. /\ ledger'.token[k] = NoToken /\ ledger'.lamports[k] = 0
      /\ \A j \in TokenKey \ {k} : ledger'.token[j] = ledger.token[j]
      /\ \A j \in (TokenKey \cup EscrowKey) \ {k} : ledger'.lamports[j] = ledger.lamports[j]
  BY <1>1, <1>3, LedgerParts, AddressAssumption
<1>5. CustodyInv'
  BY <1>2, <1>3, <1>4, CustodyKept, AddressAssumption DEF NoToken
<1>6. AccountsFunded'
  <2>1. \A j \in TokenKey : /\ ledger'.lamports[j] = 0 <=> ledger'.token[j].mint = NoKey
                            /\ ledger'.token[j].mint = NoKey => ledger'.token[j] = NoToken
    BY <1>4 DEF IInv, AccountsFunded, NoToken
  <2>2. \A e \in EscrowKey : ledger'.lamports[e] = ledger.lamports[e]
    BY <1>1, <1>4, AddressAssumption
  <2>3. QED
    BY <1>3, <2>1, <2>2 DEF IInv, AccountsFunded, Open, Initializer, RentExempt
<1>7. QED
  BY <1>3, <1>5, <1>6 DEF IInv, TypeOK

LEMMA CreateEscrowAccountResult ==
  ASSUME ledger \in Ledger, NEW w \in Wallet, NEW e \in EscrowKey, NEW n \in 1 .. EscrowRent,
         CreateEscrowAccount(w, e, n)
  PROVE  /\ n > 0 /\ ledger.lamports[e] = 0
         /\ ledger' \in Ledger
         /\ ledger'.token = ledger.token
         /\ ledger'.escrow = [ledger.escrow EXCEPT ![e].allocated = TRUE]
         /\ ledger'.lamports = [ledger.lamports EXCEPT ![w] = ledger.lamports[w] - n, ![e] = n]
<1> DEFINE C == CreateAccount(ledger, w, e, n)
           E == [C.escrow EXCEPT ![e].allocated = TRUE]
<1>1. ledger \in Ledger /\ n \in U64 /\ n > 0
  BY RentAssumption DEF U64
<1>2. /\ C \in Ledger /\ C.escrow = ledger.escrow /\ C.token = ledger.token
      /\ C.lamports = [ledger.lamports EXCEPT ![w] = ledger.lamports[w] - n, ![e] = n]
      /\ ledger.lamports[e] = 0
  BY <1>1, CreateAccountEffect DEF CreateEscrowAccount, WithEscrowAccount, CreateAccountOk
<1>3. /\ ledger' \in Ledger /\ ledger'.token = ledger.token /\ ledger'.lamports = C.lamports
      /\ ledger'.escrow = [ledger.escrow EXCEPT ![e].allocated = TRUE]
  <2>1. ledger' = [C EXCEPT !.escrow[e].allocated = TRUE]
    BY DEF CreateEscrowAccount, WithEscrowAccount
  <2> HIDE DEF C
  <2>2. E \in [EscrowKey -> EscrowAccount]
    <3>1. C.escrow \in [EscrowKey -> EscrowAccount]
      BY <1>2, LedgerParts
    <3>2. [C.escrow[e] EXCEPT !.allocated = TRUE] \in EscrowAccount
      BY <3>1 DEF EscrowAccount
    <3>3. QED
      BY <3>1, <3>2
  <2>3. ledger' = [C EXCEPT !.escrow = E]
    BY <2>1
  <2> HIDE DEF E
  <2>4. ledger' = [token |-> C.token, escrow |-> E, lamports |-> C.lamports]
    BY <1>2, <2>3, LedgerParts
  <2>5. ledger' \in Ledger
    BY <1>2, <2>2, <2>4, LedgerParts DEF Ledger
  <2>6. QED
    BY <1>2, <2>4, <2>5 DEF E
<1>4. QED
  BY <1>1, <1>2, <1>3

LEMMA CreateEscrowAccountInv ==
  ASSUME IInv, NEW w \in Wallet, NEW e \in EscrowKey, NEW n \in 1 .. EscrowRent, CreateEscrowAccount(w, e, n)
  PROVE  IInv'
<1>1. ledger \in Ledger
  BY DEF IInv, TypeOK
<1>2. /\ n > 0 /\ ledger.lamports[e] = 0
      /\ ledger' \in Ledger
      /\ ledger'.token = ledger.token
      /\ ledger'.escrow = [ledger.escrow EXCEPT ![e].allocated = TRUE]
      /\ ledger'.lamports = [ledger.lamports EXCEPT ![w] = ledger.lamports[w] - n, ![e] = n]
  BY <1>1, CreateEscrowAccountResult
<1>3. \A f \in EscrowKey : /\ Open(f)' <=> Open(f)
                           /\ Vault(f)' = Vault(f)
                           /\ f # e => ledger'.escrow[f] = ledger.escrow[f]
  BY <1>1, <1>2, LedgerParts DEF Open, Vault, EscrowAccount
<1>4. CustodyInv'
  BY <1>2, <1>3 DEF IInv, CustodyInv, VaultHeld, VaultsDistinct, NoOrphanVault, IsTokenAccount
<1>5. /\ ledger'.lamports[e] = n
      /\ \A j \in (TokenKey \cup EscrowKey) \ {e} : ledger'.lamports[j] = ledger.lamports[j]
  BY <1>1, <1>2, AddressAssumption, LedgerParts
<1>6. ~ Open(e)
  BY <1>2 DEF IInv, AccountsFunded, Open, NoEscrow
<1>7. AccountsFunded'
  <2>1. \A k \in TokenKey : ledger'.lamports[k] = ledger.lamports[k]
    BY <1>5, AddressAssumption
  <2>2. QED
    BY <1>1, <1>2, <1>3, <1>5, <1>6, <2>1 DEF IInv, AccountsFunded, Initializer, RentExempt
<1>8. QED
  BY <1>2, <1>4, <1>7 DEF IInv, TypeOK

LEMMA CollectRentResult ==
  ASSUME ledger \in Ledger, NEW e \in EscrowKey, CollectRent(e)
  PROVE  /\ ledger' \in Ledger
         /\ ledger'.token = ledger.token
         /\ ledger'.escrow = [ledger.escrow EXCEPT ![e] = NoEscrow]
         /\ ledger'.lamports = [ledger.lamports EXCEPT ![e] = 0]
<1> DEFINE E == [ledger.escrow EXCEPT ![e] = NoEscrow]
           M == [ledger.lamports EXCEPT ![e] = 0]
<1>1. ledger' = [ledger EXCEPT !.lamports = M, !.escrow = E]
  BY DEF CollectRent
<1>2. E \in [EscrowKey -> EscrowAccount]
  <2>1. NoEscrow \in EscrowAccount
    BY RentAssumption DEF EscrowAccount, NoEscrow, U64
  <2>2. QED
    BY <2>1, LedgerParts
<1>3. M \in [Wallet \cup TokenKey \cup EscrowKey -> U64]
  BY LedgerParts, RentAssumption DEF U64
<1> HIDE DEF E, M
<1>4. ledger' = [token |-> ledger.token, escrow |-> E, lamports |-> M]
  <2>1. ledger = [token |-> ledger.token, escrow |-> ledger.escrow, lamports |-> ledger.lamports]
    BY LedgerParts
  <2>2. QED
    BY <1>1, <2>1
<1>5. ledger' \in Ledger
  BY <1>2, <1>3, <1>4, LedgerParts DEF Ledger
<1>6. QED
  BY <1>4, <1>5 DEF E, M

LEMMA CollectRentInv ==
  ASSUME IInv, NEW e \in EscrowKey, CollectRent(e)
  PROVE  IInv'
<1>1. ledger \in Ledger /\ ~ Open(e)
  BY DEF CollectRent, IInv, TypeOK, AccountsFunded
<1>2. /\ ledger' \in Ledger
      /\ ledger'.token = ledger.token
      /\ ledger'.escrow = [ledger.escrow EXCEPT ![e] = NoEscrow]
      /\ ledger'.lamports = [ledger.lamports EXCEPT ![e] = 0]
  BY <1>1, CollectRentResult
<1>3. /\ ledger'.escrow[e] = NoEscrow /\ ledger'.lamports[e] = 0 /\ ~ Open(e)'
      /\ \A f \in EscrowKey \ {e} : /\ ledger'.escrow[f] = ledger.escrow[f]
                                    /\ ledger'.lamports[f] = ledger.lamports[f]
                                    /\ Open(f)' <=> Open(f)
                                    /\ Vault(f)' = Vault(f)
      /\ \A k \in TokenKey : ledger'.lamports[k] = ledger.lamports[k]
  BY <1>1, <1>2, LedgerParts, AddressAssumption DEF Open, Vault, NoEscrow
<1>4. CustodyInv'
  <2>0. \A f \in EscrowKey : (Open(f)' <=> Open(f)) /\ (Open(f) => Vault(f)' = Vault(f))
    BY <1>1, <1>3
  <2>1. VaultHeld' /\ VaultsDistinct'
    BY <1>2, <2>0 DEF IInv, CustodyInv, VaultHeld, VaultsDistinct, IsTokenAccount
  <2>2. NoOrphanVault'
    BY <1>2, <2>0 DEF IInv, CustodyInv, NoOrphanVault
  <2>3. QED
    BY <2>1, <2>2 DEF CustodyInv
<1>5. AccountsFunded'
  BY <1>1, <1>2, <1>3 DEF IInv, AccountsFunded, Initializer, RentExempt
<1>6. QED
  BY <1>2, <1>4, <1>5 DEF IInv, TypeOK

LEMMA NextInv == IInv /\ [Next]_ledger => IInv'
<1> SUFFICES ASSUME IInv, [Next]_ledger PROVE IInv'
  OBVIOUS
<1>1. CASE InitEscrowStep
  BY <1>1, InitEscrowInv
<1>2. CASE ExchangeStep
  BY <1>2, ExchangeInv
<1>3. CASE \E w \in Wallet, k \in ChurnKeys, mint \in Mint : CreateTokenAccount(w, k, mint)
  BY <1>3, CreateTokenAccountInv
<1>4. CASE \E w \in Wallet, src, dst \in TokenKey, n \in Amounts : TokenTransfer(w, src, dst, n)
  BY <1>4, TokenTransferInv
<1>5. CASE \E w \in Wallet, k \in ChurnKeys : CloseTokenAccount(w, k)
  BY <1>5, CloseTokenAccountInv
<1>6. CASE \E w \in Wallet, e \in EscrowKey, n \in 1 .. EscrowRent : CreateEscrowAccount(w, e, n)
  BY <1>6, CreateEscrowAccountInv
<1>7. CASE \E e \in EscrowKey : CollectRent(e)
  BY <1>7, CollectRentInv
<1>8. CASE UNCHANGED ledger
  BY <1>8 DEF IInv, TypeOK, CustodyInv, VaultHeld, VaultsDistinct, NoOrphanVault, AccountsFunded,
              Open, Vault, Initializer, IsTokenAccount, RentExempt
<1>9. QED
  BY <1>1, <1>2, <1>3, <1>4, <1>5, <1>6, <1>7, <1>8 DEF Next

(***************************************************************************)
(* The inductive invariant holds in every reachable state.                 *)
(***************************************************************************)
THEOREM Invariance == Spec => []IInv
BY InitInv, NextInv, PTL DEF Spec

(***************************************************************************)
(* Every handler leaves well-formed accounts: no amount and no balance     *)
(* leaves the range of a u64, whatever the width.                          *)
(***************************************************************************)
THEOREM TypeCorrect == Spec => []TypeOK
<1>1. IInv => TypeOK
  BY DEF IInv
<1>2. QED
  BY <1>1, Invariance, PTL

(***************************************************************************)
(* The derived address all escrows share holds exactly the vaults of the   *)
(* open escrows, one each, for any number of parties and escrows.          *)
(***************************************************************************)
THEOREM Custody == Spec => []CustodyInv
<1>1. IInv => CustodyInv
  BY DEF IInv
<1>2. QED
  BY <1>1, Invariance, PTL

-----------------------------------------------------------------------------
(* What a step may do to an open escrow.                                   *)

LEMMA StepKeepsOpenEscrows == IInv /\ Next => KeepsOpenEscrows
<1> SUFFICES ASSUME IInv, Next, NEW f \in EscrowKey, Open(f), Open(f)'
             PROVE  /\ ledger'.escrow[f] = ledger.escrow[f]
                    /\ ledger'.token[Vault(f)].amount >= ledger.token[Vault(f)].amount
  BY DEF KeepsOpenEscrows
<1> DEFINE v == Vault(f)
<1>1. /\ ledger \in Ledger
      /\ v \in TokenKey /\ ledger.token[v].owner = Pda /\ ledger.token[v].amount \in Nat
      /\ v \in TokenKey => ledger.lamports[v] # 0
  <2>1. ledger \in Ledger
    BY DEF IInv, TypeOK
  <2>2. \A k \in TokenKey : ledger.token[k].amount \in Nat
    BY <2>1, LedgerParts, RentAssumption DEF TokenAccount, U64
  <2>3. QED
    BY <2>1, <2>2, OpenParts, AddressAssumption DEF IInv, AccountsFunded
<1> HIDE DEF v
<1> SUFFICES ledger'.escrow[f] = ledger.escrow[f] /\ ledger'.token[v].amount >= ledger.token[v].amount
  BY DEF v
<1>2. CASE InitEscrowStep
  <2>1. PICK initializer \in Wallet, tmp \in TokenKey, recv \in TokenKey \cup Mint \cup Wallet,
             e \in EscrowKey, amount \in Amounts :
               EscrowPosted(ledger, ledger', initializer, tmp, recv, e, amount)
    BY <1>1, <1>2, InitEscrowPosts
  <2>2. e # f
    BY <2>1 DEF EscrowPosted, Open
  <2>3. ledger'.escrow[f] = ledger.escrow[f]
    BY <1>1, <2>1, <2>2, LedgerParts DEF EscrowPosted
  <2>4. ledger'.token[v].amount = ledger.token[v].amount
    BY <1>1, <2>1, LedgerParts DEF EscrowPosted, TokenAccount
  <2>5. QED
    BY <1>1, <2>3, <2>4
<1>3. CASE ExchangeStep
  <2>1. PICK e \in EscrowKey, tmp \in TokenKey, recvY \in TokenKey, main \in Wallet, taker \in Wallet,
             send \in TokenKey, recvX \in TokenKey :
               EscrowSettled(ledger, ledger', taker, send, recvX, tmp, main, recvY, e,
                             ledger.escrow[e].expected_amount, ledger.token[tmp].amount)
    BY <1>1, <1>3, ExchangeSettles
  <2>2. /\ Open(e) /\ Vault(e) = tmp /\ ~ Open(e)'
        /\ ledger'.escrow = [ledger.escrow EXCEPT ![e] = NoEscrow]
    BY <1>1, <2>1, LedgerParts DEF EscrowSettled, Open, Vault, NoEscrow
  <2>3. e # f /\ v # tmp
    BY <2>2, OpenParts DEF v
  <2>4. v # send
    BY <1>1, <2>1, AddressAssumption DEF EscrowSettled
  <2>5. \E p, g \in Nat : ledger'.token[v].amount =
          ledger.token[v].amount + (IF v = recvY THEN p ELSE 0) + (IF v = recvX THEN g ELSE 0) - 0
    <3>1. ledger.escrow[e].expected_amount \in Nat /\ ledger.token[tmp].amount \in Nat
      BY <1>1, LedgerParts, RentAssumption DEF EscrowAccount, TokenAccount, U64
    <3>2. QED
      BY <1>1, <2>1, <2>3, <2>4, <3>1 DEF EscrowSettled
  <2>6. ledger'.token[v].amount >= ledger.token[v].amount
    BY <1>1, <2>5
  <2>7. QED
    BY <1>1, <2>2, <2>3, <2>6, LedgerParts
<1>4. CASE \E w \in Wallet, k \in ChurnKeys, mint \in Mint : CreateTokenAccount(w, k, mint)
  <2>1. PICK w \in Wallet, k \in ChurnKeys, mint \in Mint : CreateTokenAccount(w, k, mint)
    BY <1>4
  <2>2. /\ k \in TokenKey /\ TokenRent > 0 /\ ledger.lamports[k] = 0
        /\ ledger' \in Ledger
        /\ ledger'.escrow = ledger.escrow
        /\ ledger'.token = [ledger.token EXCEPT ![k] = [mint |-> mint, owner |-> w, amount |-> 0]]
        /\ ledger'.lamports = [ledger.lamports EXCEPT ![w] = ledger.lamports[w] - TokenRent, ![k] = TokenRent]
    <3>1. ledger \in Ledger
      BY <1>1
    <3>2. QED
      BY <2>1, <3>1, CreateTokenAccountResult
  <2>3. v # k
    BY <1>1, <2>2
  <2>4. QED
    BY <1>1, <2>2, <2>3, LedgerParts
<1>5. CASE \E w \in Wallet, src, dst \in TokenKey, n \in Amounts : TokenTransfer(w, src, dst, n)
  <2>1. PICK w \in Wallet, src \in TokenKey, dst \in TokenKey, n \in Amounts : TokenTransfer(w, src, dst, n)
    BY <1>5
  <2>2. /\ ledger' = Transfer(ledger, src, dst, n)
        /\ ledger.token[src].owner = w /\ n <= ledger.token[src].amount /\ n \in Nat
        /\ src # dst => ledger.token[dst].amount + n <= U64Max
    BY <2>1, InitialAssumption, RentAssumption DEF TokenTransfer, TransferOk, U64
  <2>3. Moved(ledger, ledger', src, dst, n)
    BY <1>1, <2>2, TransferEffect
  <2>4. v # src
    BY <1>1, <2>2, AddressAssumption
  <2>5. ledger'.token[v].amount = ledger.token[v].amount + (IF v = dst THEN n ELSE 0) - 0
    BY <1>1, <2>3, <2>4 DEF Moved
  <2>6. ledger'.token[v].amount >= ledger.token[v].amount
    BY <1>1, <2>2, <2>5
  <2>7. QED
    BY <2>3, <2>6 DEF Moved
<1>6. CASE \E w \in Wallet, k \in ChurnKeys : CloseTokenAccount(w, k)
  <2>1. PICK w \in Wallet, k \in ChurnKeys : CloseTokenAccount(w, k)
    BY <1>6
  <2>2. /\ k \in TokenKey /\ ledger.token[k].owner = w
        /\ ledger.lamports[w] + ledger.lamports[k] <= U64Max
        /\ ledger' = CloseAccount(ledger, k, w)
    BY <2>1, InitialAssumption DEF CloseTokenAccount, CloseAccountOk
  <2>3. /\ ledger'.escrow = ledger.escrow
        /\ ledger'.token = [ledger.token EXCEPT ![k] = NoToken]
    BY <1>1, <2>2, CloseAccountEffect, ZenonT(60)
  <2>4. v # k
    BY <1>1, <2>2, AddressAssumption
  <2>5. QED
    BY <1>1, <2>3, <2>4, LedgerParts
<1>7. CASE \E w \in Wallet, e \in EscrowKey, n \in 1 .. EscrowRent : CreateEscrowAccount(w, e, n)
  <2>1. PICK w \in Wallet, e \in EscrowKey, n \in 1 .. EscrowRent : CreateEscrowAccount(w, e, n)
    BY <1>7
  <2>2. /\ ledger.lamports[e] = 0
        /\ ledger'.token = ledger.token
        /\ ledger'.escrow = [ledger.escrow EXCEPT ![e].allocated = TRUE]
    BY <1>1, <2>1, CreateEscrowAccountResult
  <2>3. e # f
    BY <2>2 DEF IInv, AccountsFunded, Open, NoEscrow
  <2>4. QED
    BY <1>1, <2>2, <2>3, LedgerParts
<1>8. CASE \E e \in EscrowKey : CollectRent(e)
  <2>1. PICK e \in EscrowKey : CollectRent(e)
    BY <1>8
  <2>2. /\ ledger'.token = ledger.token
        /\ ledger'.escrow = [ledger.escrow EXCEPT ![e] = NoEscrow]
        /\ ~ RentExempt(ledger, e)
    BY <1>1, <2>1, CollectRentResult DEF CollectRent
  <2>3. e # f
    BY <2>2, OpenParts
  <2>4. QED
    BY <1>1, <2>2, <2>3, LedgerParts
<1>9. QED
  BY <1>2, <1>3, <1>4, <1>5, <1>6, <1>7, <1>8 DEF Next

(***************************************************************************)
(* No step changes the terms of an open escrow or takes from its vault,    *)
(* whoever takes it and whichever escrow it is about.                      *)
(***************************************************************************)
THEOREM OpenKept == Spec => OpenEscrowsKept
<1>1. IInv /\ [Next]_ledger => [KeepsOpenEscrows]_ledger
  BY StepKeepsOpenEscrows
<1>2. QED
  BY <1>1, Invariance, PTL DEF Spec, OpenEscrowsKept

\* Only Exchange closes an escrow.
LEMMA ClosedByExchange ==
  ASSUME IInv, Next, NEW f \in EscrowKey, Open(f), ~ Open(f)'
  PROVE  ExchangeStep
<1>1. ledger \in Ledger
  BY DEF IInv, TypeOK
<1>2. ~ InitEscrowStep
  <2> SUFFICES ASSUME InitEscrowStep PROVE FALSE
    OBVIOUS
  <2>1. PICK initializer \in Wallet, tmp \in TokenKey, recv \in TokenKey \cup Mint \cup Wallet,
             e \in EscrowKey, amount \in Amounts :
               EscrowPosted(ledger, ledger', initializer, tmp, recv, e, amount)
    BY <1>1, InitEscrowPosts
  <2>2. e # f
    BY <2>1 DEF EscrowPosted, Open
  <2>3. ledger'.escrow[f] = ledger.escrow[f]
    BY <1>1, <2>1, <2>2, LedgerParts DEF EscrowPosted
  <2>4. QED
    BY <2>3 DEF Open
<1>3. ledger'.escrow # ledger.escrow
  BY DEF Open
<1>4. ~ \E w \in Wallet, k \in ChurnKeys, mint \in Mint : CreateTokenAccount(w, k, mint)
  BY <1>1, <1>3, CreateTokenAccountResult
<1>5. ~ \E w \in Wallet, src, dst \in TokenKey, n \in Amounts : TokenTransfer(w, src, dst, n)
  <2> SUFFICES ASSUME NEW w \in Wallet, NEW src \in TokenKey, NEW dst \in TokenKey, NEW n \in Amounts,
                      TokenTransfer(w, src, dst, n)
               PROVE  FALSE
    OBVIOUS
  <2>1. /\ ledger' = Transfer(ledger, src, dst, n)
        /\ n <= ledger.token[src].amount /\ n \in Nat
        /\ src # dst => ledger.token[dst].amount + n <= U64Max
    BY InitialAssumption, RentAssumption DEF TokenTransfer, TransferOk, U64
  <2>2. Moved(ledger, ledger', src, dst, n)
    BY <1>1, <2>1, TransferEffect
  <2>3. QED
    BY <1>3, <2>2 DEF Moved
<1>6. ~ \E w \in Wallet, k \in ChurnKeys : CloseTokenAccount(w, k)
  <2> SUFFICES ASSUME NEW w \in Wallet, NEW k \in ChurnKeys, CloseTokenAccount(w, k)
               PROVE  FALSE
    OBVIOUS
  <2>1. /\ k \in TokenKey
        /\ ledger.lamports[w] + ledger.lamports[k] <= U64Max
        /\ ledger' = CloseAccount(ledger, k, w)
    BY InitialAssumption DEF CloseTokenAccount, CloseAccountOk
  <2>2. QED
    BY <1>1, <1>3, <2>1, CloseAccountEffect
<1>7. ~ \E w \in Wallet, e \in EscrowKey, n \in 1 .. EscrowRent : CreateEscrowAccount(w, e, n)
  <2> SUFFICES ASSUME NEW w \in Wallet, NEW e \in EscrowKey, NEW n \in 1 .. EscrowRent,
                      CreateEscrowAccount(w, e, n)
               PROVE  FALSE
    OBVIOUS
  <2>1. ledger'.escrow = [ledger.escrow EXCEPT ![e].allocated = TRUE]
    BY <1>1, CreateEscrowAccountResult
  <2>2. ledger'.escrow[f].is_initialized = ledger.escrow[f].is_initialized
    BY <1>1, <2>1, LedgerParts DEF EscrowAccount
  <2>3. QED
    BY <2>2 DEF Open
<1>8. ~ \E e \in EscrowKey : CollectRent(e)
  <2> SUFFICES ASSUME NEW e \in EscrowKey, CollectRent(e) PROVE FALSE
    OBVIOUS
  <2>1. ledger'.escrow = [ledger.escrow EXCEPT ![e] = NoEscrow] /\ ~ RentExempt(ledger, e)
    BY <1>1, CollectRentResult DEF CollectRent
  <2>2. e # f
    BY <2>1, OpenParts
  <2>3. QED
    BY <1>1, <2>1, <2>2, LedgerParts DEF Open
<1>9. QED
  BY <1>2, <1>4, <1>5, <1>6, <1>7, <1>8 DEF Next

LEMMA StepSettlesClosedEscrows == IInv /\ Next => SettlesClosedEscrows
<1> SUFFICES ASSUME IInv, Next, NEW f \in EscrowKey, Open(f), ~ Open(f)'
             PROVE  /\ IsTokenAccount(ledger, Receiver(f))
                    /\ \E src, dst \in TokenKey :
                         /\ ledger.token[src].owner \in Wallet
                         /\ ledger.token[src].mint = ledger.token[Receiver(f)].mint
                         /\ ledger.token[dst].mint = ledger.token[Vault(f)].mint
                         /\ \A k \in TokenKey \ {Vault(f)} :
                              ledger'.token[k].amount =
                                SettledAmount(k, src, Receiver(f), Price(f), dst, ledger.token[Vault(f)].amount)
                    /\ ledger'.token[Vault(f)] = NoToken
                    /\ ledger'.lamports[Initializer(f)] =
                         ledger.lamports[Initializer(f)] + ledger.lamports[Vault(f)] + ledger.lamports[f]
                    /\ ledger'.lamports[f] = 0
  BY DEF SettlesClosedEscrows
<1>1. ledger \in Ledger
  BY DEF IInv, TypeOK
<1>2. PICK e \in EscrowKey, tmp \in TokenKey, recvY \in TokenKey, main \in Wallet, taker \in Wallet,
           send \in TokenKey, recvX \in TokenKey :
             EscrowSettled(ledger, ledger', taker, send, recvX, tmp, main, recvY, e,
                           ledger.escrow[e].expected_amount, ledger.token[tmp].amount)
  BY <1>1, ExchangeSettles, ClosedByExchange
<1>3. e = f
  <2>1. e # f => ledger'.escrow[f] = ledger.escrow[f]
    BY <1>1, <1>2, LedgerParts DEF EscrowSettled
  <2>2. QED
    BY <2>1 DEF Open
<1>4. Vault(f) = tmp /\ Receiver(f) = recvY /\ Price(f) = ledger.escrow[e].expected_amount
      /\ Initializer(f) = main
  BY <1>2, <1>3 DEF EscrowSettled, Vault, Receiver, Price, Initializer
<1>5. \A k \in TokenKey \ {tmp} :
        ledger'.token[k].amount =
          SettledAmount(k, send, recvY, ledger.escrow[e].expected_amount, recvX, ledger.token[tmp].amount)
  BY <1>2 DEF EscrowSettled, SettledAmount
<1>6. /\ IsTokenAccount(ledger, recvY)
      /\ ledger.token[send].owner \in Wallet
      /\ ledger.token[send].mint = ledger.token[recvY].mint
      /\ ledger.token[recvX].mint = ledger.token[tmp].mint
      /\ ledger'.token[tmp] = NoToken
  BY <1>2 DEF EscrowSettled
<1>7. /\ ledger'.lamports[main] = ledger.lamports[main] + ledger.lamports[tmp] + ledger.lamports[e]
      /\ ledger'.lamports[e] = 0
  BY <1>2, AddressAssumption DEF EscrowSettled
<1>8. QED
  BY <1>3, <1>4, <1>5, <1>6, <1>7

(***************************************************************************)
(* An escrow closes only by paying its recorded price to its recorded      *)
(* receiver, handing out all its goods and returning all its rent.         *)
(***************************************************************************)
THEOREM SettledInFull == Spec => ClosedEscrowsSettled
<1>1. IInv /\ [Next]_ledger => [SettlesClosedEscrows]_ledger
  BY StepSettlesClosedEscrows
<1>2. QED
  BY <1>1, Invariance, PTL DEF Spec, ClosedEscrowsSettled

-----------------------------------------------------------------------------
(* What keeps an escrow from getting stuck.                                *)

\* Any three of the accounts in S together hold no more than a u64.
Room(f, S) ==
  \A x, y, z \in S :
    f[x] + (IF y = x THEN 0 ELSE f[y]) + (IF z = x \/ z = y THEN 0 ELSE f[z]) <= U64Max

(***************************************************************************)
(* Amounts and balances can still be added up: true of every token whose   *)
(* supply is a u64, and of lamports.                                       *)
(***************************************************************************)
RoomIn(L) ==
  /\ \A mint \in Mint :
       Room([k \in TokenKey |-> L.token[k].amount], {k \in TokenKey : L.token[k].mint = mint})
  /\ Room(L.lamports, Wallet \cup TokenKey \cup EscrowKey)

RoomLeft == RoomIn(ledger)

LEMMA ThreeFit ==
  ASSUME NEW x \in Nat, NEW y \in Nat, NEW z \in Nat, NEW m \in Nat, x + y + z <= m
  PROVE  x + y <= m
OBVIOUS

LEMMA TokensFit ==
  ASSUME NEW L \in Ledger, RoomIn(L),
         NEW i \in TokenKey, NEW j \in TokenKey, NEW k \in TokenKey, i # j, i # k, j # k,
         IsTokenAccount(L, i),
         L.token[i].mint = L.token[j].mint, L.token[i].mint = L.token[k].mint
  PROVE  L.token[i].amount + L.token[j].amount + L.token[k].amount <= U64Max
<1> DEFINE amount == [n \in TokenKey |-> L.token[n].amount]
           S == {n \in TokenKey : L.token[n].mint = L.token[i].mint}
<1>1. L.token[i].mint \in Mint
  BY LedgerParts DEF IsTokenAccount, TokenAccount
<1>2. Room(amount, S)
  BY <1>1 DEF RoomIn
<1>3. i \in S /\ j \in S /\ k \in S
  OBVIOUS
<1>4. amount[i] + (IF j = i THEN 0 ELSE amount[j]) + (IF k = i \/ k = j THEN 0 ELSE amount[k]) <= U64Max
  BY <1>2, <1>3 DEF Room
<1>5. amount[i] + amount[j] + amount[k] <= U64Max
  BY <1>4
<1>6. QED
  BY <1>5

LEMMA TwoTokensFit ==
  ASSUME NEW L \in Ledger, RoomIn(L),
         NEW i \in TokenKey, NEW j \in TokenKey, i # j,
         IsTokenAccount(L, i), L.token[i].mint = L.token[j].mint
  PROVE  L.token[i].amount + L.token[j].amount <= U64Max
<1> DEFINE amount == [n \in TokenKey |-> L.token[n].amount]
           S == {n \in TokenKey : L.token[n].mint = L.token[i].mint}
<1>1. L.token[i].mint \in Mint
  BY LedgerParts DEF IsTokenAccount, TokenAccount
<1>2. Room(amount, S)
  BY <1>1 DEF RoomIn
<1>3. i \in S /\ j \in S
  OBVIOUS
<1>4. amount[i] + (IF j = i THEN 0 ELSE amount[j]) + (IF j = i \/ j = j THEN 0 ELSE amount[j]) <= U64Max
  BY <1>2, <1>3 DEF Room
<1>5. amount[i] + amount[j] + 0 <= U64Max
  BY <1>4
<1>6. L.token[i].amount \in Nat /\ L.token[j].amount \in Nat
  BY LedgerParts, RentAssumption DEF TokenAccount, U64
<1>7. QED
  BY <1>5, <1>6

LEMMA LamportsFit ==
  ASSUME NEW L \in Ledger, RoomIn(L),
         NEW w \in Wallet, NEW k \in TokenKey, NEW e \in EscrowKey
  PROVE  /\ L.lamports[w] + L.lamports[k] <= U64Max
         /\ L.lamports[w] + L.lamports[k] + L.lamports[e] <= U64Max
<1>1. k # w /\ e # w /\ e # k
  BY AddressAssumption
<1>2. Room(L.lamports, Wallet \cup TokenKey \cup EscrowKey)
  BY DEF RoomIn
<1>3. L.lamports[w] + (IF k = w THEN 0 ELSE L.lamports[k])
        + (IF e = w \/ e = k THEN 0 ELSE L.lamports[e]) <= U64Max
  BY <1>2 DEF Room
<1>4. L.lamports[w] + L.lamports[k] + L.lamports[e] <= U64Max
  BY <1>1, <1>3
<1>5. L.lamports[w] \in Nat /\ L.lamports[k] \in Nat /\ L.lamports[e] \in Nat
  BY LedgerParts, RentAssumption DEF U64
<1>6. QED
  BY <1>4, <1>5, ThreeFit, RentAssumption

\* What is open can be settled where the amounts it adds up fit a u64.
LEMMA FittingSettleable ==
  ASSUME NEW L \in Ledger, NEW e \in EscrowKey,
         NEW tmp \in TokenKey, IsTokenAccount(L, tmp), L.token[tmp].owner = Pda,
         NEW recvY \in TokenKey, NEW main \in Wallet, NEW price,
         L.escrow[e].is_initialized,
         L.escrow[e].tmp_token_account_pubkey = tmp,
         L.escrow[e].initializer_pubkey = main,
         L.escrow[e].initializer_token_to_receive_account_pubkey = recvY,
         L.escrow[e].expected_amount = price,
         IsTokenAccount(L, recvY), recvY = tmp => price = 0,
         NEW taker \in Wallet, NEW send \in TokenKey, L.token[send].owner = taker,
         NEW recvX \in TokenKey, recvX # tmp, L.token[recvX].mint = L.token[tmp].mint,
         L.token[send].mint = L.token[recvY].mint,
         L.token[send].amount >= price,
         send # recvY => L.token[send].amount + L.token[recvY].amount <= U64Max,
         L.token[recvX].amount + L.token[tmp].amount <= U64Max,
         recvX = recvY /\ recvX # send =>
           L.token[send].amount + L.token[tmp].amount + L.token[recvX].amount <= U64Max,
         L.lamports[main] + L.lamports[tmp] <= U64Max,
         L.lamports[main] + L.lamports[tmp] + L.lamports[e] <= U64Max,
         NEW accounts, accounts = <<taker, send, recvX, tmp, main, recvY, e, TokenProgram, Pda>>
  PROVE  ExchangeOk(L, accounts, {taker}, L.token[tmp].amount)
<1> DEFINE a == ExchangeAccounts(accounts)
           L1 == PaidInitializer(L, a)
           L2 == PaidTaker(L, a)
           L3 == ClosedVault(L, a)
<1>g. PICK goods : goods = L.token[tmp].amount
  OBVIOUS
<1>1. /\ a.taker = taker /\ a.takers_sending_token_account = send
      /\ a.takers_token_to_receive_account = recvX
      /\ a.pdas_tmp_token_account = tmp
      /\ a.initializers_main_account = main
      /\ a.initializers_token_to_receive_account = recvY
      /\ a.escrow_account = e
      /\ a.token_program = TokenProgram
      /\ a.pda_account = Pda
      /\ Len(accounts) = 9
  BY DEF ExchangeAccounts
<1>2. /\ L \in Ledger
      /\ tmp \in TokenKey /\ IsTokenAccount(L, tmp) /\ L.token[tmp].owner = Pda
  OBVIOUS
<1>3. /\ L.escrow[e].expected_amount = price
      /\ L.escrow[e].is_initialized
      /\ L.escrow[e].tmp_token_account_pubkey = tmp
      /\ L.escrow[e].initializer_pubkey = main
      /\ L.escrow[e].initializer_token_to_receive_account_pubkey = recvY
  OBVIOUS
<1>4. main \in Wallet
  OBVIOUS
<1>5. /\ price \in Nat /\ goods \in Nat /\ U64Max \in Nat
      /\ \A k \in TokenKey : L.token[k].amount \in Nat
  BY <1>g, <1>2, <1>3, LedgerParts, RentAssumption DEF EscrowAccount, TokenAccount, U64
<1>6. /\ IsTokenAccount(L, send) /\ IsTokenAccount(L, recvX)
      /\ send # tmp /\ price <= L.token[send].amount
  BY <1>2, <1>5, AddressAssumption DEF IsTokenAccount
<1>7. /\ L1 = Transfer(L, send, recvY, price)
      /\ L2 = Transfer(L1, tmp, recvX, goods)
      /\ L3 = CloseAccount(L2, tmp, main)
  <2>1. L1 = Transfer(L, a.takers_sending_token_account, a.initializers_token_to_receive_account,
                      L.escrow[a.escrow_account].expected_amount)
    BY DEF PaidInitializer
  <2>2. L2 = Transfer(L1, a.pdas_tmp_token_account, a.takers_token_to_receive_account,
                      L.token[a.pdas_tmp_token_account].amount)
    BY DEF PaidTaker
  <2>3. L3 = CloseAccount(L2, a.pdas_tmp_token_account, a.initializers_main_account)
    BY DEF ClosedVault
  <2> HIDE DEF a, L1, L2, L3
  <2>4. QED
    BY <1>g, <1>1, <1>3, <2>1, <2>2, <2>3
<1> HIDE DEF a, L1, L2, L3
\* The first transfer.
<1>8. TransferOk(L, send, recvY, taker, {taker}, price)
  <2>1. ASSUME send # recvY PROVE L.token[recvY].amount + price <= U64Max
    <3>1. L.token[send].amount + L.token[recvY].amount <= U64Max
      BY <2>1
    <3>2. QED
      BY <1>5, <1>6, <3>1
  <2>2. QED
    BY <1>6, <2>1 DEF TransferOk
<1>9. L1 \in Ledger /\ Moved(L, L1, send, recvY, price)
  <2>1. send # recvY => L.token[recvY].amount + price <= U64Max
    BY <1>8 DEF TransferOk
  <2>2. QED
    BY <1>2, <1>5, <1>6, <1>7, <2>1, TransferEffect
<1>10. L1.token[tmp].amount = goods
  <2>1. L1.token[tmp].amount =
          L.token[tmp].amount + (IF tmp = recvY THEN price ELSE 0) - (IF tmp = send THEN price ELSE 0)
    BY <1>2, <1>9 DEF Moved
  <2>2. L1.token[tmp].amount = goods + 0 - 0
    BY <1>g, <1>6, <2>1
  <2>3. QED
    BY <1>5, <2>2
\* The second.
<1>11. L1.token[recvX].amount + goods <= U64Max
  <2>1. L1.token[recvX].amount =
          L.token[recvX].amount + (IF recvX = recvY THEN price ELSE 0) - (IF recvX = send THEN price ELSE 0)
    BY <1>9 DEF Moved
  <2>2. L.token[recvX].amount + goods <= U64Max
    BY <1>g
  <2>3. CASE recvX = recvY /\ recvX # send
    <3>1. L.token[send].amount + L.token[tmp].amount + L.token[recvX].amount <= U64Max
      BY <2>3
    <3>2. L1.token[recvX].amount = L.token[recvX].amount + price - 0
      BY <2>1, <2>3
    <3>3. QED
      BY <1>g, <1>5, <1>6, <3>1, <3>2
  <2>4. CASE ~ (recvX = recvY /\ recvX # send)
    <3>1. L1.token[recvX].amount <= L.token[recvX].amount
      <4>1. CASE recvX = recvY
        <5>1. L1.token[recvX].amount = L.token[recvX].amount + price - price
          BY <2>1, <2>4, <4>1
        <5>2. QED
          BY <1>5, <5>1
      <4>2. CASE recvX # recvY
        <5>1. \/ L1.token[recvX].amount = L.token[recvX].amount + 0 - price
              \/ L1.token[recvX].amount = L.token[recvX].amount + 0 - 0
          BY <2>1, <4>2
        <5>2. QED
          BY <1>5, <5>1
      <4>3. QED
        BY <4>1, <4>2
    <3>2. L1.token[recvX].amount \in Nat
      BY <1>9, LedgerParts, RentAssumption DEF TokenAccount, U64
    <3>3. QED
      BY <1>5, <2>2, <3>1, <3>2
  <2>5. QED
    BY <2>3, <2>4
<1>12. TransferOk(L1, tmp, recvX, Pda, {Pda}, goods)
  <2>1. \A k \in TokenKey : L1.token[k].mint = L.token[k].mint /\ L1.token[k].owner = L.token[k].owner
    BY <1>9 DEF Moved
  <2>2. goods <= L1.token[tmp].amount
    BY <1>5, <1>10
  <2>3. QED
    BY <1>2, <1>6, <1>11, <2>1, <2>2 DEF TransferOk, IsTokenAccount
<1>13. L2 \in Ledger /\ Moved(L1, L2, tmp, recvX, goods)
  <2>1. goods <= L1.token[tmp].amount
    BY <1>12 DEF TransferOk
  <2>2. QED
    BY <1>2, <1>5, <1>7, <1>9, <1>11, <2>1, TransferEffect
\* The two accounts are closed.
<1>14. L2.token[tmp].amount = 0
  <2>1. L2.token[tmp].amount =
          L1.token[tmp].amount + (IF tmp = recvX THEN goods ELSE 0) - (IF tmp = tmp THEN goods ELSE 0)
    BY <1>2, <1>13 DEF Moved
  <2>2. L2.token[tmp].amount = goods + 0 - goods
    BY <1>10, <2>1
  <2>3. QED
    BY <1>5, <2>2
<1>15. L2.lamports = L.lamports
  BY <1>9, <1>13 DEF Moved
<1>16. /\ L.lamports[main] + L.lamports[tmp] <= U64Max
       /\ L.lamports[main] + L.lamports[tmp] + L.lamports[e] <= U64Max
  OBVIOUS
<1>17. CloseAccountOk(L2, tmp, main, Pda, {Pda})
  <2>1. L2.token[tmp].mint = L.token[tmp].mint /\ L2.token[tmp].owner = L.token[tmp].owner
    BY <1>2, <1>9, <1>13 DEF Moved
  <2>2. QED
    BY <1>2, <1>14, <1>15, <1>16, <2>1 DEF CloseAccountOk, IsTokenAccount
<1>18. L3.lamports[main] + L3.lamports[e] <= U64Max
  <2>1. L3.lamports = [L2.lamports EXCEPT ![main] = L2.lamports[main] + L2.lamports[tmp], ![tmp] = 0]
    <3>1. L2.lamports[main] + L2.lamports[tmp] <= U64Max
      BY <1>15, <1>16
    <3>2. /\ CloseAccount(L2, tmp, main) \in Ledger
          /\ CloseAccount(L2, tmp, main).escrow = L2.escrow
          /\ CloseAccount(L2, tmp, main).token = [L2.token EXCEPT ![tmp] = NoToken]
          /\ CloseAccount(L2, tmp, main).lamports =
                [L2.lamports EXCEPT ![main] = L2.lamports[main] + L2.lamports[tmp], ![tmp] = 0]
      <4>1. L2 \in Ledger
        BY <1>13
      <4> QED BY ONLY <1>4, <3>1, <4>1, tmp \in TokenKey, CloseAccountEffect
    <3>3. QED
      BY <1>7, <3>2
  <2>2. main # tmp /\ e # tmp /\ e # main
    BY <1>2, <1>4, AddressAssumption
  <2>3. /\ L3.lamports[main] = L.lamports[main] + L.lamports[tmp]
        /\ L3.lamports[e] = L.lamports[e]
    BY <1>2, <1>4, <1>15, <2>1, <2>2, LedgerParts
  <2>4. QED
    BY <1>16, <2>3
<1>19. MatchesEscrow(L.escrow[e], a)
  BY <1>1, <1>3 DEF MatchesEscrow
<1>20. QED
  <2>1. /\ Len(accounts) >= 9
        /\ a.taker \in {taker}
        /\ IsTokenAccount(L, a.pdas_tmp_token_account)
        /\ L.token[tmp].amount = L.token[a.pdas_tmp_token_account].amount
        /\ a.escrow_account \in EscrowKey
        /\ MatchesEscrow(L.escrow[a.escrow_account], a)
        /\ a.token_program = TokenProgram
        /\ TransferOk(L, a.takers_sending_token_account, a.initializers_token_to_receive_account,
                      a.taker, {taker}, L.escrow[a.escrow_account].expected_amount)
        /\ a.pda_account = Pda
        /\ TransferOk(L1, a.pdas_tmp_token_account, a.takers_token_to_receive_account, Pda, {Pda},
                      L.token[a.pdas_tmp_token_account].amount)
        /\ CloseAccountOk(L2, a.pdas_tmp_token_account, a.initializers_main_account, Pda, {Pda})
        /\ L3.lamports[a.initializers_main_account] + L3.lamports[a.escrow_account] <= U64Max
    BY <1>g, <1>1, <1>2, <1>3, <1>8, <1>12, <1>17, <1>18, <1>19
  <2>2. QED
    BY <2>1 DEF ExchangeOk, AddsUp, a, L1, L2, L3

LEMMA OpenSettleable ==
  ASSUME NEW L \in Ledger, RoomIn(L), NEW e \in EscrowKey,
         NEW tmp \in TokenKey, IsTokenAccount(L, tmp), L.token[tmp].owner = Pda,
         NEW recvY \in TokenKey, NEW main \in Wallet, NEW price,
         L.escrow[e].is_initialized,
         L.escrow[e].tmp_token_account_pubkey = tmp,
         L.escrow[e].initializer_pubkey = main,
         L.escrow[e].initializer_token_to_receive_account_pubkey = recvY,
         L.escrow[e].expected_amount = price,
         IsTokenAccount(L, recvY), recvY = tmp => price = 0,
         NEW taker \in Wallet, NEW send \in TokenKey, L.token[send].owner = taker,
         NEW recvX \in TokenKey, recvX # tmp, L.token[recvX].mint = L.token[tmp].mint,
         L.token[send].mint = L.token[recvY].mint,
         L.token[send].amount >= price,
         NEW accounts, accounts = <<taker, send, recvX, tmp, main, recvY, e, TokenProgram, Pda>>
  PROVE  ExchangeOk(L, accounts, {taker}, L.token[tmp].amount)
<1>1. L \in Ledger /\ IsTokenAccount(L, send) /\ IsTokenAccount(L, recvX) /\ send # tmp
  BY AddressAssumption DEF IsTokenAccount
<1>2. send # recvY => L.token[send].amount + L.token[recvY].amount <= U64Max
  BY <1>1, TwoTokensFit
<1>3. L.token[recvX].amount + L.token[tmp].amount <= U64Max
  BY <1>1, TwoTokensFit
<1>4. recvX = recvY /\ recvX # send =>
        L.token[send].amount + L.token[tmp].amount + L.token[recvX].amount <= U64Max
  BY <1>1, TokensFit
<1>5. /\ L.lamports[main] + L.lamports[tmp] <= U64Max
      /\ L.lamports[main] + L.lamports[tmp] + L.lamports[e] <= U64Max
  BY LamportsFit
<1> QED
  BY <1>1, <1>2, <1>3, <1>4, <1>5, FittingSettleable

(***************************************************************************)
(* As long as balances can be added up at all, an open escrow never gets   *)
(* stuck, whatever other parties do to other escrows, to its receiver or   *)
(* to its vault.                                                           *)
(***************************************************************************)
THEOREM NeverStuck == Spec => [](RoomLeft => Settleable)
<1>1. IInv => (RoomLeft => Settleable)
  <2> SUFFICES ASSUME IInv, RoomLeft, NEW e \in EscrowKey, Open(e), IsTokenAccount(ledger, Receiver(e)),
                      Receiver(e) = Vault(e) => Price(e) = 0,
                      NEW taker \in Wallet, NEW send \in HeldBy(taker),
                      NEW recvX \in OfMintOf(Vault(e)) \ {Vault(e)},
                      ledger.token[send].mint = ledger.token[Receiver(e)].mint,
                      ledger.token[send].amount >= Price(e)
               PROVE  ExchangeOk(ledger,
                                 <<taker, send, recvX, Vault(e), Initializer(e), Receiver(e), e, TokenProgram, Pda>>,
                                 {taker}, ledger.token[Vault(e)].amount)
    BY DEF Settleable
  <2>1. Receiver(e) \in TokenKey
    BY DEF IsTokenAccount
  <2>2. send \in TokenKey /\ ledger.token[send].owner = taker
    BY DEF HeldBy
  <2>3. /\ recvX \in TokenKey /\ recvX # Vault(e)
        /\ ledger.token[recvX].mint = ledger.token[Vault(e)].mint
    BY DEF OfMintOf
  <2>4. ledger \in Ledger /\ RoomIn(ledger)
    BY DEF IInv, TypeOK, RoomLeft
  <2>5. /\ Vault(e) \in TokenKey /\ IsTokenAccount(ledger, Vault(e))
        /\ ledger.token[Vault(e)].owner = Pda /\ Initializer(e) \in Wallet
    BY OpenParts DEF IInv, CustodyInv, VaultHeld, AccountsFunded
  <2>6. QED
    BY <2>1, <2>2, <2>3, <2>4, <2>5, OpenSettleable DEF Open, Vault, Initializer, Receiver, Price
<1>2. QED
  BY <1>1, Invariance, PTL

=============================================================================
