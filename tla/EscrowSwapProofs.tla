-------------------------- MODULE EscrowSwapProofs --------------------------
(***************************************************************************)
(* Proof that the escrow program implements the atomic swap, for every set *)
(* of parties, accounts, escrows, mints and amounts.  Each step of the     *)
(* program maps to the step of AtomicSwap of the same meaning, or to none. *)
(***************************************************************************)
EXTENDS EscrowProofs, EscrowSwap

-----------------------------------------------------------------------------
(* The refinement mapping.                                                 *)

\* What a token account is as an account of the swap, on a ledger L.
AccountIn(L, k) == [asset |-> L.token[k].mint, holder |-> L.token[k].owner, amount |-> L.token[k].amount]

LEMMA MappedAccounts ==
  /\ SwapAccount = [k \in TokenKey |-> AccountIn(ledger, k)]
  /\ SwapAccount' = [k \in TokenKey |-> AccountIn(ledger', k)]
BY DEF SwapAccount, AccountIn

LEMMA MappedNoAccount ==
  ASSUME NEW L, NEW k \in TokenKey, L.token[k] = NoToken
  PROVE  AccountIn(L, k) = Swap!NoAccount
BY DEF AccountIn, NoToken, Swap!NoAccount

\* Offers are those of the open escrows, so what happens to others is hidden.
LEMMA OffersKept ==
  ASSUME \A e \in EscrowKey : /\ Open(e)' <=> Open(e)
                              /\ Open(e) => ledger'.escrow[e] = ledger.escrow[e]
  PROVE  SwapOffer' = SwapOffer
<1>1. \A e \in EscrowKey : Open(e) =>
        /\ Initializer(e)' = Initializer(e) /\ Vault(e)' = Vault(e)
        /\ Receiver(e)' = Receiver(e) /\ Price(e)' = Price(e)
  BY DEF Initializer, Vault, Receiver, Price
<1>2. QED
  BY <1>1 DEF SwapOffer

-----------------------------------------------------------------------------
(* The steps.                                                              *)

LEMMA InitRefines == Init => Swap!Init
<1> SUFFICES ASSUME Init PROVE Swap!Init
  OBVIOUS
<1>1. \A k \in TokenKey : SwapAccount[k].holder # Pda
  <2>1. \A k \in TokenKey : ledger.token[k].owner # Pda
    BY InitialAssumption, AddressAssumption DEF Init, NoToken
  <2>2. QED
    BY <2>1 DEF SwapAccount
<1>2. \A e \in EscrowKey : ~ Open(e)
  BY DEF Init, Open, NoEscrow
<1>3. SwapOffer = [e \in EscrowKey |-> Swap!NoOffer]
  BY <1>2 DEF SwapOffer, Swap!NoOffer
<1>4. QED
  BY <1>1, <1>3 DEF Swap!Init

LEMMA InitEscrowRefines ==
  ASSUME ledger \in Ledger, InitEscrowStep
  PROVE  Swap!Next
<1>1. PICK initializer \in Wallet, tmp \in TokenKey, recv \in TokenKey \cup Mint \cup Wallet,
           e \in EscrowKey, amount \in Amounts :
             EscrowPosted(ledger, ledger', initializer, tmp, recv, e, amount)
  BY InitEscrowPosts
<1>2. /\ ledger' \in Ledger
      /\ ledger'.token = [ledger.token EXCEPT ![tmp].owner = Pda]
      /\ ledger.token[tmp].owner = initializer
      /\ ~ Open(e)
  BY <1>1 DEF EscrowPosted, Open
<1>3. /\ Open(e)' /\ Initializer(e)' = initializer /\ Vault(e)' = tmp
      /\ Receiver(e)' = recv /\ Price(e)' = amount
      /\ \A f \in EscrowKey \ {e} : ledger'.escrow[f] = ledger.escrow[f]
  BY <1>1, LedgerParts DEF EscrowPosted, Open, Initializer, Vault, Receiver, Price
<1>4. recv \in TokenKey \cup Mint
  <2>1. Receiver(e)' \in TokenKey \cup Mint \cup {NoKey}
    BY <1>2, LedgerParts DEF Receiver, EscrowAccount
  <2>2. QED
    BY <1>3, <2>1, AddressAssumption
<1>5. SwapOffer[e] = Swap!NoOffer
  BY <1>2 DEF SwapOffer, Swap!NoOffer
<1>6. SwapOffer' = [SwapOffer EXCEPT ![e] =
                      [seller |-> initializer, vault |-> tmp, payTo |-> recv, price |-> amount]]
  <2>1. \A f \in EscrowKey \ {e} :
          /\ Open(f)' <=> Open(f)
          /\ Initializer(f)' = Initializer(f) /\ Vault(f)' = Vault(f)
          /\ Receiver(f)' = Receiver(f) /\ Price(f)' = Price(f)
    BY <1>3 DEF Open, Initializer, Vault, Receiver, Price
  <2>2. QED
    BY <1>3, <2>1 DEF SwapOffer
<1>7. SwapAccount[tmp].holder = initializer
  BY <1>2 DEF SwapAccount
<1>8. SwapAccount' = [SwapAccount EXCEPT ![tmp].holder = Pda]
  <2>1. /\ ledger'.token[tmp].mint = ledger.token[tmp].mint
        /\ ledger'.token[tmp].owner = Pda
        /\ ledger'.token[tmp].amount = ledger.token[tmp].amount
        /\ \A k \in TokenKey \ {tmp} : ledger'.token[k] = ledger.token[k]
    BY <1>2, LedgerParts DEF TokenAccount
  <2>2. QED
    BY <2>1 DEF SwapAccount
<1>9. Swap!Post(e, initializer, tmp, recv, amount)
  BY <1>5, <1>6, <1>7, <1>8 DEF Swap!Post
<1>10. QED
  BY <1>4, <1>9 DEF Swap!Next

LEMMA ExchangeRefines ==
  ASSUME ledger \in Ledger, ExchangeStep
  PROVE  Swap!Next
<1>1. PICK e \in EscrowKey, tmp \in TokenKey, recvY \in TokenKey, main \in Wallet, taker \in Wallet,
           send \in TokenKey, recvX \in TokenKey :
             EscrowSettled(ledger, ledger', taker, send, recvX, tmp, main, recvY, e,
                           ledger.escrow[e].expected_amount, ledger.token[tmp].amount)
  BY ExchangeSettles
<1>2. PICK price : price = ledger.escrow[e].expected_amount
  OBVIOUS
<1>3. PICK goods : goods = ledger.token[tmp].amount
  OBVIOUS
<1>4. /\ Open(e) /\ Initializer(e) = main /\ Vault(e) = tmp /\ Receiver(e) = recvY /\ Price(e) = price
      /\ ~ Open(e)'
      /\ \A f \in EscrowKey \ {e} : ledger'.escrow[f] = ledger.escrow[f]
  <2>1. ledger'.escrow[e] = NoEscrow /\ \A f \in EscrowKey \ {e} : ledger'.escrow[f] = ledger.escrow[f]
    BY <1>1, LedgerParts DEF EscrowSettled
  <2>2. QED
    BY <1>1, <1>2, <2>1 DEF EscrowSettled, Open, Initializer, Vault, Receiver, Price, NoEscrow
<1>5. SwapOffer[e] = [seller |-> main, vault |-> tmp, payTo |-> recvY, price |-> price]
  BY <1>4 DEF SwapOffer
<1>6. SwapOffer[e] # Swap!NoOffer
  BY <1>5, AddressAssumption DEF Swap!NoOffer
<1>7. SwapOffer' = [SwapOffer EXCEPT ![e] = Swap!NoOffer]
  <2>1. \A f \in EscrowKey \ {e} :
          /\ Open(f)' <=> Open(f)
          /\ Initializer(f)' = Initializer(f) /\ Vault(f)' = Vault(f)
          /\ Receiver(f)' = Receiver(f) /\ Price(f)' = Price(f)
    BY <1>4 DEF Open, Initializer, Vault, Receiver, Price
  <2>2. QED
    BY <1>4, <2>1 DEF SwapOffer, Swap!NoOffer
<1>8. /\ SwapAccount[send].holder = taker
      /\ SwapAccount[send].asset = SwapAccount[recvY].asset
      /\ SwapAccount[send].amount >= price
      /\ SwapAccount[recvX].asset = SwapAccount[tmp].asset
      /\ SwapAccount[tmp].amount = goods
  <2>1. /\ ledger.token[send].owner = taker /\ ledger.token[recvY].mint = ledger.token[send].mint
        /\ price <= ledger.token[send].amount /\ ledger.token[recvX].mint = ledger.token[tmp].mint
    BY <1>1, <1>2 DEF EscrowSettled
  <2>2. price \in Nat /\ ledger.token[send].amount \in Nat
    BY <1>2, LedgerParts, RentAssumption DEF EscrowAccount, TokenAccount, U64
  <2>3. ledger.token[send].amount >= price
    BY <2>1, <2>2
  <2>4. QED
    BY <1>3, <2>1, <2>3 DEF SwapAccount
<1>9. (recvY = tmp => price = 0) /\ (recvX = tmp => goods = 0)
  BY <1>1, <1>2, <1>3 DEF EscrowSettled
<1>10. SwapAccount' = [k \in TokenKey |->
         IF k = tmp THEN Swap!NoAccount
         ELSE [SwapAccount[k] EXCEPT
                 !.amount = @ + (IF k = recvY THEN price ELSE 0) + (IF k = recvX THEN goods ELSE 0)
                              - (IF k = send THEN price ELSE 0)]]
  <2>1. AccountIn(ledger', tmp) = Swap!NoAccount
    <3>1. ledger'.token[tmp] = NoToken
      BY <1>1 DEF EscrowSettled
    <3>2. QED
      BY <3>1, MappedNoAccount
  <2>2. ASSUME NEW k \in TokenKey \ {tmp}
        PROVE  AccountIn(ledger', k) =
                 [AccountIn(ledger, k) EXCEPT
                    !.amount = @ + (IF k = recvY THEN price ELSE 0) + (IF k = recvX THEN goods ELSE 0)
                                 - (IF k = send THEN price ELSE 0)]
    <3>1. /\ ledger'.token[k].mint = ledger.token[k].mint
          /\ ledger'.token[k].owner = ledger.token[k].owner
          /\ ledger'.token[k].amount =
               ledger.token[k].amount + (IF k = recvY THEN price ELSE 0)
                 + (IF k = recvX THEN goods ELSE 0) - (IF k = send THEN price ELSE 0)
      BY <1>1, <1>2, <1>3 DEF EscrowSettled
    <3>2. QED
      BY <3>1 DEF AccountIn
  <2>3. QED
    BY <2>1, <2>2, MappedAccounts
<1>11. Swap!Settle(e, taker, send, recvX)
  BY <1>5, <1>6, <1>7, <1>8, <1>9, <1>10 DEF Swap!Settle
<1>12. QED
  BY <1>11 DEF Swap!Next

LEMMA CreateTokenAccountRefines ==
  ASSUME IInv, NEW w \in Wallet, NEW k \in ChurnKeys, NEW mint \in Mint, CreateTokenAccount(w, k, mint)
  PROVE  Swap!Next
<1>1. ledger \in Ledger
  BY DEF IInv, TypeOK
<1>2. /\ k \in TokenKey /\ TokenRent > 0 /\ ledger.lamports[k] = 0
      /\ ledger' \in Ledger
      /\ ledger'.escrow = ledger.escrow
      /\ ledger'.token = [ledger.token EXCEPT ![k] = [mint |-> mint, owner |-> w, amount |-> 0]]
      /\ ledger'.lamports = [ledger.lamports EXCEPT ![w] = ledger.lamports[w] - TokenRent, ![k] = TokenRent]
  BY <1>1, CreateTokenAccountResult
<1>3. SwapAccount[k] = Swap!NoAccount
  <2>1. ledger.token[k] = NoToken
    BY <1>2 DEF IInv, AccountsFunded
  <2>2. QED
    BY <1>2, <2>1, MappedNoAccount, MappedAccounts
<1>4. SwapAccount' = [SwapAccount EXCEPT ![k] = [asset |-> mint, holder |-> w, amount |-> 0]]
  <2>1. /\ ledger'.token[k] = [mint |-> mint, owner |-> w, amount |-> 0]
        /\ \A j \in TokenKey \ {k} : ledger'.token[j] = ledger.token[j]
    BY <1>1, <1>2, LedgerParts
  <2>2. AccountIn(ledger', k) = [asset |-> mint, holder |-> w, amount |-> 0]
    BY <2>1 DEF AccountIn
  <2>3. \A j \in TokenKey \ {k} : AccountIn(ledger', j) = AccountIn(ledger, j)
    BY <2>1 DEF AccountIn
  <2>4. QED
    BY <2>2, <2>3, MappedAccounts
<1>5. SwapOffer' = SwapOffer
  BY <1>2, OffersKept DEF Open
<1>6. Swap!OpenAccount(w, k, mint)
  BY <1>3, <1>4, <1>5 DEF Swap!OpenAccount
<1>7. QED
  BY <1>2, <1>6 DEF Swap!Next

LEMMA TokenTransferRefines ==
  ASSUME ledger \in Ledger, NEW w \in Wallet, NEW src \in TokenKey, NEW dst \in TokenKey, NEW n \in Amounts,
         TokenTransfer(w, src, dst, n)
  PROVE  Swap!Next
<1>1. n \in Nat
  BY InitialAssumption, RentAssumption DEF U64
<1>2. /\ ledger' = Transfer(ledger, src, dst, n)
      /\ ledger.token[src].owner = w
      /\ ledger.token[src].mint = ledger.token[dst].mint
      /\ n <= ledger.token[src].amount
      /\ src # dst => ledger.token[dst].amount + n <= U64Max
  BY DEF TokenTransfer, TransferOk
<1>3. Moved(ledger, ledger', src, dst, n)
  BY <1>1, <1>2, TransferEffect
<1>4. SwapOffer' = SwapOffer
  BY <1>3, OffersKept DEF Moved, Open
<1>5. SwapAccount' = [k \in TokenKey |->
        [SwapAccount[k] EXCEPT !.amount = @ + (IF k = dst THEN n ELSE 0) - (IF k = src THEN n ELSE 0)]]
  <2>1. ASSUME NEW k \in TokenKey
        PROVE  AccountIn(ledger', k) =
                 [AccountIn(ledger, k) EXCEPT
                    !.amount = @ + (IF k = dst THEN n ELSE 0) - (IF k = src THEN n ELSE 0)]
    <3>1. /\ ledger'.token[k].mint = ledger.token[k].mint
          /\ ledger'.token[k].owner = ledger.token[k].owner
          /\ ledger'.token[k].amount =
               ledger.token[k].amount + (IF k = dst THEN n ELSE 0) - (IF k = src THEN n ELSE 0)
      BY <1>3 DEF Moved
    <3>2. QED
      BY <3>1 DEF AccountIn
  <2>2. QED
    BY <2>1, MappedAccounts
<1>6. Swap!Pay(w, src, dst, n)
  BY <1>2, <1>4, <1>5 DEF Swap!Pay, SwapAccount
<1>7. QED
  BY <1>6 DEF Swap!Next

LEMMA CloseTokenAccountRefines ==
  ASSUME IInv, NEW w \in Wallet, NEW k \in ChurnKeys, CloseTokenAccount(w, k)
  PROVE  Swap!Next
<1>1. ledger \in Ledger
  BY DEF IInv, TypeOK
<1>2. /\ k \in TokenKey
      /\ ledger.token[k].owner = w /\ ledger.token[k].amount = 0
      /\ ledger'.escrow = ledger.escrow
      /\ ledger'.token = [ledger.token EXCEPT ![k] = NoToken]
  BY <1>1, CloseTokenAccountResult
<1>3. SwapOffer' = SwapOffer
  BY <1>2, OffersKept DEF Open
<1>4. SwapAccount' = [SwapAccount EXCEPT ![k] = Swap!NoAccount]
  <2>1. ledger'.token[k] = NoToken /\ \A j \in TokenKey \ {k} : ledger'.token[j] = ledger.token[j]
    BY <1>1, <1>2, LedgerParts
  <2>2. AccountIn(ledger', k) = Swap!NoAccount
    BY <1>2, <2>1, MappedNoAccount
  <2>3. \A j \in TokenKey \ {k} : AccountIn(ledger', j) = AccountIn(ledger, j)
    BY <2>1 DEF AccountIn
  <2>4. QED
    BY <2>2, <2>3, MappedAccounts
<1>5. Swap!CloseAccount(w, k)
  BY <1>2, <1>3, <1>4 DEF Swap!CloseAccount, SwapAccount
<1>6. QED
  BY <1>2, <1>5 DEF Swap!Next

\* Creating an escrow account and losing it to unpaid rent are not seen.
LEMMA CreateEscrowAccountHidden ==
  ASSUME IInv, NEW w \in Wallet, NEW e \in EscrowKey, NEW n \in 1 .. EscrowRent, CreateEscrowAccount(w, e, n)
  PROVE  UNCHANGED <<SwapAccount, SwapOffer>>
<1>1. ledger \in Ledger
  BY DEF IInv, TypeOK
<1>2. /\ ledger.lamports[e] = 0
      /\ ledger'.token = ledger.token
      /\ ledger'.escrow = [ledger.escrow EXCEPT ![e].allocated = TRUE]
  BY <1>1, CreateEscrowAccountResult
<1>3. ~ Open(e)
  BY <1>2 DEF IInv, AccountsFunded, Open, NoEscrow
<1>4. \A f \in EscrowKey : /\ Open(f)' <=> Open(f)
                           /\ f # e => ledger'.escrow[f] = ledger.escrow[f]
  BY <1>1, <1>2, LedgerParts DEF Open, EscrowAccount
<1>5. QED
  BY <1>2, <1>3, <1>4, OffersKept DEF SwapAccount

LEMMA CollectRentHidden ==
  ASSUME IInv, NEW e \in EscrowKey, CollectRent(e)
  PROVE  UNCHANGED <<SwapAccount, SwapOffer>>
<1>1. ledger \in Ledger /\ ~ Open(e)
  BY DEF CollectRent, IInv, TypeOK, AccountsFunded
<1>2. /\ ledger'.token = ledger.token
      /\ ledger'.escrow = [ledger.escrow EXCEPT ![e] = NoEscrow]
  BY <1>1, CollectRentResult
<1>3. \A f \in EscrowKey : /\ Open(f)' <=> Open(f)
                           /\ f # e => ledger'.escrow[f] = ledger.escrow[f]
  BY <1>1, <1>2, LedgerParts DEF Open, NoEscrow
<1>4. QED
  BY <1>1, <1>2, <1>3, OffersKept DEF SwapAccount

LEMMA NextRefines == IInv /\ [Next]_ledger => [Swap!Next]_<<SwapAccount, SwapOffer>>
<1> SUFFICES ASSUME IInv, [Next]_ledger
             PROVE  Swap!Next \/ UNCHANGED <<SwapAccount, SwapOffer>>
  OBVIOUS
<1>0. ledger \in Ledger
  BY DEF IInv, TypeOK
<1>1. CASE InitEscrowStep
  BY <1>0, <1>1, InitEscrowRefines
<1>2. CASE ExchangeStep
  BY <1>0, <1>2, ExchangeRefines
<1>3. CASE \E w \in Wallet, k \in ChurnKeys, mint \in Mint : CreateTokenAccount(w, k, mint)
  BY <1>3, CreateTokenAccountRefines
<1>4. CASE \E w \in Wallet, src, dst \in TokenKey, n \in Amounts : TokenTransfer(w, src, dst, n)
  BY <1>0, <1>4, TokenTransferRefines
<1>5. CASE \E w \in Wallet, k \in ChurnKeys : CloseTokenAccount(w, k)
  BY <1>5, CloseTokenAccountRefines
<1>6. CASE \E w \in Wallet, e \in EscrowKey, n \in 1 .. EscrowRent : CreateEscrowAccount(w, e, n)
  BY <1>6, CreateEscrowAccountHidden
<1>7. CASE \E e \in EscrowKey : CollectRent(e)
  BY <1>7, CollectRentHidden
<1>8. CASE UNCHANGED ledger
  BY <1>8 DEF SwapAccount, SwapOffer, Open, Initializer, Vault, Receiver, Price
<1>9. QED
  BY <1>1, <1>2, <1>3, <1>4, <1>5, <1>6, <1>7, <1>8 DEF Next

(***************************************************************************)
(* Whoever deals with the program deals with an atomic swap: every         *)
(* behaviour of the handlers, over accounts anyone creates, funds, closes  *)
(* or lets run out of rent, is one of AtomicSwap.                          *)
(***************************************************************************)
THEOREM Refinement == Spec => ImplementsAtomicSwap
<1>1. QED
  BY InitRefines, NextRefines, Invariance, PTL DEF Spec, ImplementsAtomicSwap, Swap!Spec

=============================================================================
