------------------------------ MODULE Accounts ------------------------------
(***************************************************************************)
(* The accounts the escrow program works on and the services it calls: the *)
(* SPL token program (version 3.2.0 in Cargo.lock), the system program and *)
(* the runtime.  None of these is part of the repository; they are         *)
(* modelled from how processor.rs and the clients under escrow/js use      *)
(* them.                                                                   *)
(*                                                                         *)
(* A ledger is a record of three maps.  An address that holds no account   *)
(* maps to NoToken or NoEscrow, and to zero lamports: the runtime removes  *)
(* an account together with its data when its last lamport leaves it.      *)
(*                                                                         *)
(* Every service is a pair of operators: <Op>Ok is the conjunction of the  *)
(* checks that make the call succeed, <Op> is the ledger it leaves.        *)
(***************************************************************************)
EXTENDS Naturals

CONSTANTS
  Wallet,        \* system accounts with a keypair: Alice, Bob, ...
  TokenKey,      \* addresses that can hold a token account
  EscrowKey,     \* addresses that can hold an escrow state account
  Mint,          \* addresses of the mints X, Y, ...
  Pda,           \* find_program_address(["escrow"], program_id)
  TokenProgram,  \* spl_token::id()
  RentSysvar,    \* sysvar::rent::id()
  NoKey,         \* the zero public key
  U64Max,        \* the largest amount a u64 holds
  TokenRent,     \* rent exempt balance of a token account (165 bytes)
  EscrowRent     \* rent exempt balance of an escrow account (105 bytes)

(***************************************************************************)
(* Addresses of different kinds are different addresses, and the balances  *)
(* that make an account rent exempt are positive u64s.                     *)
(***************************************************************************)
ASSUME AddressAssumption ==
  /\ Wallet \cap TokenKey = {} /\ Wallet \cap EscrowKey = {} /\ Wallet \cap Mint = {}
  /\ TokenKey \cap EscrowKey = {} /\ TokenKey \cap Mint = {} /\ EscrowKey \cap Mint = {}
  /\ {Pda, TokenProgram, RentSysvar, NoKey} \cap (Wallet \cup TokenKey \cup EscrowKey \cup Mint) = {}
  /\ Pda # NoKey /\ Pda # TokenProgram /\ RentSysvar # TokenProgram

ASSUME RentAssumption ==
  /\ U64Max \in Nat
  /\ TokenRent \in 1 .. U64Max
  /\ EscrowRent \in 1 .. U64Max

U64 == 0 .. U64Max

TokenAccount == [mint : Mint \cup {NoKey}, owner : Wallet \cup {Pda, NoKey}, amount : U64]

NoToken == [mint |-> NoKey, owner |-> NoKey, amount |-> 0]

(***************************************************************************)
(* What is stored at an escrow address: whether the system program has     *)
(* allocated it for the escrow program, and the Escrow structure in it.    *)
(***************************************************************************)
EscrowAccount ==
  [allocated : BOOLEAN,
   is_initialized : BOOLEAN,
   initializer_pubkey : Wallet \cup {NoKey},
   tmp_token_account_pubkey : TokenKey \cup {NoKey},
   initializer_token_to_receive_account_pubkey : TokenKey \cup Mint \cup {NoKey},
   expected_amount : U64]

NoEscrow ==
  [allocated |-> FALSE,
   is_initialized |-> FALSE,
   initializer_pubkey |-> NoKey,
   tmp_token_account_pubkey |-> NoKey,
   initializer_token_to_receive_account_pubkey |-> NoKey,
   expected_amount |-> 0]

Ledger ==
  [token : [TokenKey -> TokenAccount],
   escrow : [EscrowKey -> EscrowAccount],
   lamports : [Wallet \cup TokenKey \cup EscrowKey -> U64]]

IsTokenAccount(L, k) == k \in TokenKey /\ L.token[k].mint # NoKey

\* Mints and token accounts are the accounts whose owner is the token program.
OwnedByTokenProgram(L, k) == k \in Mint \/ IsTokenAccount(L, k)

-----------------------------------------------------------------------------
(* SPL token program.                                                      *)

(***************************************************************************)
(* Transfer: both accounts are initialised and of one mint, the authority  *)
(* owns the source and has signed, the balance suffices and the sum fits.  *)
(* A transfer of an account to itself passes the checks and moves nothing. *)
(***************************************************************************)
TransferOk(L, src, dst, authority, signers, amount) ==
  /\ IsTokenAccount(L, src)
  /\ IsTokenAccount(L, dst)
  /\ amount <= L.token[src].amount
  /\ L.token[src].mint = L.token[dst].mint
  /\ L.token[src].owner = authority
  /\ authority \in signers
  /\ src # dst => L.token[dst].amount + amount <= U64Max

Transfer(L, src, dst, amount) ==
  LET debited == [L.token EXCEPT ![src].amount = @ - amount]
  IN  [L EXCEPT !.token = [debited EXCEPT ![dst].amount = @ + amount]]

SetAuthorityOk(L, account, authority, signers) ==
  /\ IsTokenAccount(L, account)
  /\ L.token[account].owner = authority
  /\ authority \in signers

SetAuthority(L, account, newAuthority) ==
  [L EXCEPT !.token[account].owner = newAuthority]

\* All lamports of one account move to another.
Drained(lamports, from, to) ==
  [lamports EXCEPT ![to] = @ + lamports[from], ![from] = 0]

(***************************************************************************)
(* CloseAccount: only an empty account can be closed; its lamports go to   *)
(* the destination and the runtime removes it.                             *)
(***************************************************************************)
CloseAccountOk(L, account, destination, authority, signers) ==
  /\ IsTokenAccount(L, account)
  /\ L.token[account].amount = 0
  /\ L.token[account].owner = authority
  /\ authority \in signers
  /\ L.lamports[destination] + L.lamports[account] <= U64Max

CloseAccount(L, account, destination) ==
  [L EXCEPT !.token[account] = NoToken,
            !.lamports = Drained(L.lamports, account, destination)]

-----------------------------------------------------------------------------
(* System program and runtime.                                             *)

\* SystemProgram.createAccount: the address is unused and the payer can pay.
CreateAccountOk(L, payer, k, lamports) ==
  /\ L.lamports[k] = 0
  /\ lamports <= L.lamports[payer]

CreateAccount(L, payer, k, lamports) ==
  [L EXCEPT !.lamports = [L.lamports EXCEPT ![payer] = @ - lamports, ![k] = lamports]]

=============================================================================
