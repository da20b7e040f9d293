----------------------------- MODULE EscrowSwap -----------------------------
(***************************************************************************)
(* The escrow program implements the atomic swap: an account of a swap is  *)
(* a token account, custody is being owned by the derived address, and an  *)
(* offer is an initialised escrow account.                                 *)
(***************************************************************************)
EXTENDS Escrow

SwapAccount ==
  [k \in TokenKey |-> [asset |-> ledger.token[k].mint,
                       holder |-> ledger.token[k].owner,
                       amount |-> ledger.token[k].amount]]

SwapOffer ==
  [e \in EscrowKey |->
     IF Open(e)
     THEN [seller |-> Initializer(e), vault |-> Vault(e), payTo |-> Receiver(e), price |-> Price(e)]
     ELSE [seller |-> NoKey, vault |-> NoKey, payTo |-> NoKey, price |-> 0]]

Swap == INSTANCE AtomicSwap WITH
  Party <- Wallet, Account <- TokenKey, Offer <- EscrowKey, Asset <- Mint, Amount <- Amounts,
  Nobody <- NoKey, Custody <- Pda, account <- SwapAccount, offer <- SwapOffer

(***************************************************************************)
(* Every behaviour of the escrow program is an atomic swap: InitEscrow     *)
(* posts an offer, Exchange settles it in one step, and no other step      *)
(* takes from custody, although Exchange is three calls to the token       *)
(* program that use an amount read before the first of them                *)
(* (processor.rs:149-265).                                                 *)
(***************************************************************************)
ImplementsAtomicSwap == Swap!Spec

=============================================================================
