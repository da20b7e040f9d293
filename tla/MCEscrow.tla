------------------------------ MODULE MCEscrow ------------------------------
(***************************************************************************)
(* Instances of the escrow program for TLC.  As after setup.ts, Alice      *)
(* holds token X and Bob token Y, and each has an account for both; the    *)
(* amounts are one token each.                                             *)
(***************************************************************************)
EXTENDS EscrowSwap, TLC

CONSTANTS alice, bob, ax, ay, bx, by, X, Y, e1, e2

MCInitialToken ==
  [k \in TokenKey |->
     CASE k = ax -> [mint |-> X, owner |-> alice, amount |-> 1]
       [] k = ay -> [mint |-> Y, owner |-> alice, amount |-> 0]
       [] k = bx -> [mint |-> X, owner |-> bob, amount |-> 0]
       [] k = by -> [mint |-> Y, owner |-> bob, amount |-> 1]
       [] OTHER -> NoToken]

MCInitialLamports ==
  [k \in Wallet \cup TokenKey \cup EscrowKey |->
     CASE k \in Wallet -> 3
       [] k \in {ax, ay, bx, by} -> TokenRent
       [] OTHER -> 0]

\* Escrow addresses start out alike and no action names one.
EscrowSymmetry == Permutations(EscrowKey)

(***************************************************************************)
(* The unit tests list the rent account before the token program           *)
(* (test_utils.rs:106-111, and "token program (account 5)" at              *)
(* processor.rs:92) and expect InitEscrow to succeed: whatever the program *)
(* accepts in the five-account order it accepts in that order.             *)
(***************************************************************************)
RentAccountLayoutAccepted ==
  \A initializer \in Wallet, tmp, recv \in TokenKey, e \in EscrowKey, n \in Amounts :
    InitEscrowOk(ledger, <<initializer, tmp, recv, e, TokenProgram>>, {initializer}, n)
    => InitEscrowOk(ledger, <<initializer, tmp, recv, e, RentSysvar, TokenProgram>>, {initializer}, n)

=============================================================================
