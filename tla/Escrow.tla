------------------------------- MODULE Escrow -------------------------------
(***************************************************************************)
(* The escrow program of packages/escrow/program and the accounts its      *)
(* clients prepare for it.                                                 *)
(*                                                                         *)
(* An initializer (Alice) hands a token account, the vault, to the         *)
(* program's one derived address and records in an escrow account what she *)
(* wants for it (InitEscrow); a taker (Bob) pays that price and receives   *)
(* the vault's tokens, and both accounts are closed (Exchange).  All       *)
(* escrows share one derived address: what keeps their vaults apart is the *)
(* bookkeeping of the two handlers, which is what is specified here.       *)
(*                                                                         *)
(* A handler runs to its end or fails.  A failing check or call aborts the *)
(* transaction and the runtime restores every account, so a handler is one *)
(* step, taken when all of its checks pass; the checks of a later call are *)
(* made on the accounts as the earlier calls left them.                    *)
(***************************************************************************)
EXTENDS Accounts, Sequences

CONSTANTS
  InitialToken,     \* the token accounts there are at the start
  InitialLamports,  \* the balances at the start
  Amounts,          \* the amounts callers put into instructions
  ChurnKeys         \* the token accounts clients create and close in a run

ASSUME InitialAssumption ==
  /\ InitialToken \in [TokenKey -> TokenAccount]
  /\ InitialLamports \in [Wallet \cup TokenKey \cup EscrowKey -> U64]
  /\ Amounts \subseteq U64
  /\ ChurnKeys \subseteq TokenKey
  /\ \A k \in TokenKey :
       IF InitialLamports[k] = 0
       THEN InitialToken[k] = NoToken
       ELSE InitialToken[k].mint \in Mint /\ InitialToken[k].owner \in Wallet
  /\ \A e \in EscrowKey : InitialLamports[e] = 0

VARIABLE ledger

-----------------------------------------------------------------------------
(* InitEscrow.  accounts is the list the instruction passes, consumed in   *)
(* order; signers are the keys that signed the transaction.                *)

InitEscrowAccounts(accounts) ==
  [initializer |-> accounts[1],
   tmp_token_account |-> accounts[2],
   token_to_receive_account |-> accounts[3],
   escrow_account |-> accounts[4],
   token_program |-> accounts[5]]

RentExempt(L, e) == L.lamports[e] >= EscrowRent

\* The receiving account belongs to the token program: that it is a token
\* account, of which mint and whose, is not checked.
ReceiveAccountOk(L, k) == OwnedByTokenProgram(L, k)

\* Variants: no rent check; no check for an earlier InitEscrow.
EscrowAccountOkNoRent(L, e) == e \in EscrowKey /\ L.escrow[e].allocated /\ ~ L.escrow[e].is_initialized
EscrowAccountOkReinit(L, e) == e \in EscrowKey /\ L.escrow[e].allocated /\ RentExempt(L, e)

\* The handlers do not compare the owner of the escrow account.  That it is
\* the program's own (EscrowKey) is the runtime's doing: no other account may
\* be written by InitEscrow or emptied by Exchange.
EscrowAccountOk(L, e) ==
  /\ e \in EscrowKey
  /\ RentExempt(L, e)
  /\ L.escrow[e].allocated
  /\ ~ L.escrow[e].is_initialized

InitEscrowOk(L, accounts, signers, amount) ==
  /\ Len(accounts) >= 5
  /\ LET a == InitEscrowAccounts(accounts) IN
     /\ a.initializer \in signers
     /\ ReceiveAccountOk(L, a.token_to_receive_account)
     /\ EscrowAccountOk(L, a.escrow_account)
     /\ a.token_program = TokenProgram
     /\ SetAuthorityOk(L, a.tmp_token_account, a.initializer, signers)

InitEscrowEffect(L, accounts, amount) ==
  LET a == InitEscrowAccounts(accounts)
      escrow_state == [allocated |-> TRUE,
                       is_initialized |-> TRUE,
                       initializer_pubkey |-> a.initializer,
                       tmp_token_account_pubkey |-> a.tmp_token_account,
                       initializer_token_to_receive_account_pubkey |-> a.token_to_receive_account,
                       expected_amount |-> amount]
  IN SetAuthority([L EXCEPT !.escrow[a.escrow_account] = escrow_state],
                  a.tmp_token_account, Pda)

InitEscrow(accounts, signers, amount) ==
  /\ InitEscrowOk(ledger, accounts, signers, amount)
  /\ ledger' = InitEscrowEffect(ledger, accounts, amount)

-----------------------------------------------------------------------------
(* Exchange.                                                               *)

ExchangeAccounts(accounts) ==
  [taker |-> accounts[1],
   takers_sending_token_account |-> accounts[2],
   takers_token_to_receive_account |-> accounts[3],
   pdas_tmp_token_account |-> accounts[4],
   initializers_main_account |-> accounts[5],
   initializers_token_to_receive_account |-> accounts[6],
   escrow_account |-> accounts[7],
   token_program |-> accounts[8],
   pda_account |-> accounts[9]]

\* The ledger after the first and after the second transfer.
PaidInitializer(L, a) ==
  Transfer(L, a.takers_sending_token_account, a.initializers_token_to_receive_account,
           L.escrow[a.escrow_account].expected_amount)

\* Variant: the taker is sent the price instead of the vault's tokens.
PaidTakerPrice(L, a) ==
  Transfer(PaidInitializer(L, a), a.pdas_tmp_token_account, a.takers_token_to_receive_account,
           L.escrow[a.escrow_account].expected_amount)

\* The amount moved is the one read from the vault before the first transfer.
PaidTaker(L, a) ==
  Transfer(PaidInitializer(L, a), a.pdas_tmp_token_account, a.takers_token_to_receive_account,
           L.token[a.pdas_tmp_token_account].amount)

ClosedVault(L, a) ==
  CloseAccount(PaidTaker(L, a), a.pdas_tmp_token_account, a.initializers_main_account)

\* Variants: the vault, or the receiving account, is not compared.
MatchesEscrowAnyVault(escrow_info, a) ==
  /\ escrow_info.is_initialized
  /\ escrow_info.initializer_pubkey = a.initializers_main_account
  /\ escrow_info.initializer_token_to_receive_account_pubkey
       = a.initializers_token_to_receive_account
MatchesEscrowAnyReceiver(escrow_info, a) ==
  /\ escrow_info.is_initialized
  /\ escrow_info.tmp_token_account_pubkey = a.pdas_tmp_token_account
  /\ escrow_info.initializer_pubkey = a.initializers_main_account

\* The accounts passed are the ones InitEscrow recorded.
MatchesEscrow(escrow_info, a) ==
  /\ escrow_info.is_initialized
  /\ escrow_info.tmp_token_account_pubkey = a.pdas_tmp_token_account
  /\ escrow_info.initializer_pubkey = a.initializers_main_account
  /\ escrow_info.initializer_token_to_receive_account_pubkey
       = a.initializers_token_to_receive_account

\* Variant: the sum is added up unchecked.
AddsUpUnchecked(L, a) == TRUE

\* checked_add, with the vault's rent already in the initializer's account.
AddsUp(L, a) ==
  ClosedVault(L, a).lamports[a.initializers_main_account]
    + ClosedVault(L, a).lamports[a.escrow_account] <= U64Max

ExchangeOk(L, accounts, signers, amount_expected_by_taker) ==
  /\ Len(accounts) >= 9
  /\ LET a == ExchangeAccounts(accounts) IN
     /\ a.taker \in signers
     /\ IsTokenAccount(L, a.pdas_tmp_token_account)
     /\ amount_expected_by_taker = L.token[a.pdas_tmp_token_account].amount
     /\ a.escrow_account \in EscrowKey
     /\ MatchesEscrow(L.escrow[a.escrow_account], a)
     /\ a.token_program = TokenProgram
     /\ TransferOk(L, a.takers_sending_token_account, a.initializers_token_to_receive_account,
                   a.taker, signers, L.escrow[a.escrow_account].expected_amount)
     /\ a.pda_account = Pda
     /\ TransferOk(PaidInitializer(L, a), a.pdas_tmp_token_account,
                   a.takers_token_to_receive_account, Pda, {Pda},
                   L.token[a.pdas_tmp_token_account].amount)
     /\ CloseAccountOk(PaidTaker(L, a), a.pdas_tmp_token_account,
                       a.initializers_main_account, Pda, {Pda})
     /\ AddsUp(L, a)

\* Variant: the escrow account is not closed.
ExchangeEffectLeavingEscrow(L, accounts) == ClosedVault(L, ExchangeAccounts(accounts))

ExchangeEffect(L, accounts) ==
  LET a == ExchangeAccounts(accounts) IN
  [ClosedVault(L, a) EXCEPT
     !.lamports = Drained(@, a.escrow_account, a.initializers_main_account),
     !.escrow[a.escrow_account] = NoEscrow]

Exchange(accounts, signers, amount_expected_by_taker) ==
  /\ ExchangeOk(ledger, accounts, signers, amount_expected_by_taker)
  /\ ledger' = ExchangeEffect(ledger, accounts)

-----------------------------------------------------------------------------
(* What clients do to the accounts besides calling the program.            *)

\* createAccount and initAccount of one transaction, or Token.createAccount.
WithTokenAccount(L, owner, k, mint) ==
  [CreateAccount(L, owner, k, TokenRent) EXCEPT
     !.token[k] = [mint |-> mint, owner |-> owner, amount |-> 0]]

CreateTokenAccount(owner, k, mint) ==
  /\ CreateAccountOk(ledger, owner, k, TokenRent)
  /\ ledger' = WithTokenAccount(ledger, owner, k, mint)

\* Funding a vault, or any other payment between token accounts.
TokenTransfer(owner, src, dst, amount) ==
  /\ TransferOk(ledger, src, dst, owner, {owner}, amount)
  /\ ledger' = Transfer(ledger, src, dst, amount)

\* An owner may close an empty token account at any time.
CloseTokenAccount(owner, k) ==
  /\ CloseAccountOk(ledger, k, owner, owner, {owner})
  /\ ledger' = CloseAccount(ledger, k, owner)

\* Creates a zeroed account for the program; nothing makes it rent exempt.
WithEscrowAccount(L, payer, e, lamports) ==
  [CreateAccount(L, payer, e, lamports) EXCEPT !.escrow[e].allocated = TRUE]

CreateEscrowAccount(payer, e, lamports) ==
  /\ lamports > 0
  /\ CreateAccountOk(ledger, payer, e, lamports)
  /\ ledger' = WithEscrowAccount(ledger, payer, e, lamports)

\* The runtime charges rent to an account that is not exempt, and removes it
\* with its data when it cannot pay.
CollectRent(e) ==
  /\ ledger.lamports[e] > 0
  /\ ~ RentExempt(ledger, e)
  /\ ledger' = [ledger EXCEPT !.lamports[e] = 0, !.escrow[e] = NoEscrow]

-----------------------------------------------------------------------------

Init ==
  ledger = [token |-> InitialToken,
            escrow |-> [e \in EscrowKey |-> NoEscrow],
            lamports |-> InitialLamports]

InitEscrowStep ==
  \E initializer, signer \in Wallet, tmp \in TokenKey, recv \in TokenKey \cup Mint \cup Wallet,
     e \in EscrowKey, amount \in Amounts :
       InitEscrow(<<initializer, tmp, recv, e, TokenProgram>>, {signer}, amount)

\* Accounts that a comparison would reject, and paying accounts that are not
\* the taker's, are not enumerated.
Named(e) ==
  {n \in [pdas_tmp_token_account : TokenKey,
          initializers_main_account : Wallet,
          initializers_token_to_receive_account : TokenKey \cup Mint] : MatchesEscrow(ledger.escrow[e], n)}
HeldBy(w) == {k \in TokenKey : ledger.token[k].owner = w}
OfMintOf(k) == {j \in TokenKey : IsTokenAccount(ledger, k) /\ ledger.token[j].mint = ledger.token[k].mint}

ExchangeStep ==
  \E e \in EscrowKey : \E n \in Named(e), taker \in Wallet, amount \in Amounts :
    \E send \in HeldBy(taker), recvX \in TokenKey :
      Exchange(<<taker, send, recvX, n.pdas_tmp_token_account, n.initializers_main_account,
                 n.initializers_token_to_receive_account, e, TokenProgram, Pda>>, {taker}, amount)

Next ==
  \/ InitEscrowStep
  \/ ExchangeStep
  \/ \E w \in Wallet, k \in ChurnKeys, mint \in Mint : CreateTokenAccount(w, k, mint)
  \/ \E w \in Wallet, src, dst \in TokenKey, n \in Amounts : TokenTransfer(w, src, dst, n)
  \/ \E w \in Wallet, k \in ChurnKeys : CloseTokenAccount(w, k)
  \/ \E w \in Wallet, e \in EscrowKey, n \in 1 .. EscrowRent : CreateEscrowAccount(w, e, n)
  \/ \E e \in EscrowKey : CollectRent(e)

Spec == Init /\ [][Next]_ledger

-----------------------------------------------------------------------------

(***************************************************************************)
(* Every handler and every client step leaves well-formed accounts; in     *)
(* particular no amount or balance leaves the range of a u64.              *)
(***************************************************************************)
TypeOK == ledger \in Ledger

Open(e) == ledger.escrow[e].is_initialized
Vault(e) == ledger.escrow[e].tmp_token_account_pubkey
Initializer(e) == ledger.escrow[e].initializer_pubkey
Receiver(e) == ledger.escrow[e].initializer_token_to_receive_account_pubkey
Price(e) == ledger.escrow[e].expected_amount

(***************************************************************************)
(* An open escrow's vault is a token account of the derived address.       *)
(***************************************************************************)
VaultHeld ==
  \A e \in EscrowKey : Open(e) =>
    /\ IsTokenAccount(ledger, Vault(e))
    /\ ledger.token[Vault(e)].owner = Pda

VaultsDistinct ==
  \A e1, e2 \in EscrowKey : Open(e1) /\ Open(e2) /\ Vault(e1) = Vault(e2) => e1 = e2

\* What the derived address holds can be reached through an open escrow.
NoOrphanVault ==
  \A k \in TokenKey : ledger.token[k].owner = Pda => \E e \in EscrowKey : Open(e) /\ Vault(e) = k

(***************************************************************************)
(* The one derived address that signs for every escrow holds exactly the   *)
(* vaults of the open escrows, one each: no order of InitEscrow, Exchange, *)
(* account closing and rent collection leaves tokens nobody can reach, or  *)
(* lets two escrows draw on one vault (processor.rs, the two handlers).    *)
(***************************************************************************)
CustodyInv == VaultHeld /\ VaultsDistinct /\ NoOrphanVault

\* An account exists exactly while it has lamports, and open escrows have an
\* owner for their rent and are rent exempt: the runtime never removes them.
AccountsFunded ==
  /\ \A k \in TokenKey : ledger.lamports[k] = 0 <=> ledger.token[k].mint = NoKey
  /\ \A k \in TokenKey : ledger.token[k].mint = NoKey => ledger.token[k] = NoToken
  /\ \A e \in EscrowKey : ledger.lamports[e] = 0 => ledger.escrow[e] = NoEscrow
  /\ \A e \in EscrowKey : Open(e) => RentExempt(ledger, e) /\ Initializer(e) \in Wallet

(***************************************************************************)
(* The inductive invariant behind CustodyInv.  It adds what custody rests  *)
(* on: an open escrow's account can neither be removed for unpaid rent nor *)
(* its vault's address be allocated a second time, which is what the rent  *)
(* check of InitEscrow (processor.rs:68-71) is for.                        *)
(***************************************************************************)
IInv == TypeOK /\ CustodyInv /\ AccountsFunded

(***************************************************************************)
(* While an escrow is open nobody changes its terms, and its vault only    *)
(* grows: steps of other parties on other escrows that share the derived   *)
(* address, and deposits, included.                                        *)
(***************************************************************************)
KeepsOpenEscrows ==
  \A e \in EscrowKey : Open(e) /\ Open(e)' =>
    /\ ledger'.escrow[e] = ledger.escrow[e]
    /\ ledger'.token[Vault(e)].amount >= ledger.token[Vault(e)].amount

OpenEscrowsKept == [][KeepsOpenEscrows]_ledger

\* The net effect on an account's amount of paying price from src to recv and
\* goods into dst.
SettledAmount(k, src, recv, price, dst, goods) ==
  ledger.token[k].amount + (IF k = recv THEN price ELSE 0) + (IF k = dst THEN goods ELSE 0)
    - (IF k = src THEN price ELSE 0)

SettlesClosedEscrows ==
  \A e \in EscrowKey : Open(e) /\ ~ Open(e)' =>
    /\ IsTokenAccount(ledger, Receiver(e))
    /\ \E src, dst \in TokenKey :
         /\ ledger.token[src].owner \in Wallet
         /\ ledger.token[src].mint = ledger.token[Receiver(e)].mint
         /\ ledger.token[dst].mint = ledger.token[Vault(e)].mint
         /\ \A k \in TokenKey \ {Vault(e)} :
              ledger'.token[k].amount =
                SettledAmount(k, src, Receiver(e), Price(e), dst, ledger.token[Vault(e)].amount)
    /\ ledger'.token[Vault(e)] = NoToken
    /\ ledger'.lamports[Initializer(e)] =
         ledger.lamports[Initializer(e)] + ledger.lamports[Vault(e)] + ledger.lamports[e]
    /\ ledger'.lamports[e] = 0

(***************************************************************************)
(* An escrow closes in one way only: the recorded price is paid, in tokens *)
(* of the recorded receiver's mint, out of an account some wallet holds    *)
(* and never out of another vault, to that receiver; all the vault's       *)
(* tokens go to one account of their mint; vault and escrow account        *)
(* disappear and their rent is the initializer's.  Aliased accounts (taker *)
(* is the initializer, paying and receiving account are one) are included, *)
(* and so are receivers that InitEscrow has let pass (processor.rs:61) and *)
(* that are mints, vaults, or closed and created anew for another mint.    *)
(***************************************************************************)
ClosedEscrowsSettled == [][SettlesClosedEscrows]_ledger

(***************************************************************************)
(* An open escrow never gets stuck: as long as the receiver's account      *)
(* exists, whoever holds the price and an account for the goods, and names *)
(* the vault's current amount, can exchange.  The exception is an escrow   *)
(* whose receiver is its own vault: paying its price leaves the vault with *)
(* a balance and closing it fails, so it is only settled at price zero.    *)
(***************************************************************************)
Settleable ==
  \A e \in EscrowKey :
    /\ Open(e)
    /\ IsTokenAccount(ledger, Receiver(e))
    /\ Receiver(e) = Vault(e) => Price(e) = 0
    => \A taker \in Wallet : \A send \in HeldBy(taker), recvX \in OfMintOf(Vault(e)) \ {Vault(e)} :
         /\ ledger.token[send].mint = ledger.token[Receiver(e)].mint
         /\ ledger.token[send].amount >= Price(e)
         => ExchangeOk(ledger,
                       <<taker, send, recvX, Vault(e), Initializer(e), Receiver(e), e, TokenProgram, Pda>>,
                       {taker}, ledger.token[Vault(e)].amount)

=============================================================================
