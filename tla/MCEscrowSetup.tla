--------------------------- MODULE MCEscrowSetup ---------------------------
(***************************************************************************)
(* A set-up beside runs of both parties.  The files first name what an     *)
(* earlier set-up has left (the accounts of generation 0), so that runs    *)
(* can read and use either generation or a mixture.                        *)
(***************************************************************************)
EXTENDS EscrowSetup

CONSTANTS
  alice_x0, alice_y0, bob_x0, bob_y0, X0, Y0,
  alice_x1, alice_y1, bob_x1, bob_y1, X1, Y1,
  t1, e1, a1, b1, s1

MCFiles ==
  [alice_x |-> alice_x0, alice_y |-> alice_y0, bob_x |-> bob_x0, bob_y |-> bob_y0,
   mint_x |-> X0, mint_y |-> Y0, escrow |-> NoKey]

MCFresh ==
  [s \in SetupRun |->
     [alice_x |-> alice_x1, alice_y |-> alice_y1, bob_x |-> bob_x1, bob_y |-> bob_y1,
      mint_x |-> X1, mint_y |-> Y1]]

MCTerms == [r \in Run |-> [aliceExpectedAmount |-> 2, bobExpectedAmount |-> 1]]
MCTmp == [r \in AliceRun |-> t1]
MCEscrowAccount == [r \in AliceRun |-> e1]

MCInitialToken ==
  [k \in TokenKey |->
     CASE k = alice_x0 -> [mint |-> X0, owner |-> alice, amount |-> 1]
       [] k = alice_y0 -> [mint |-> Y0, owner |-> alice, amount |-> 0]
       [] k = bob_x0 -> [mint |-> X0, owner |-> bob, amount |-> 0]
       [] k = bob_y0 -> [mint |-> Y0, owner |-> bob, amount |-> 2]
       [] OTHER -> NoToken]

MCInitialLamports ==
  [k \in Wallet \cup TokenKey \cup EscrowKey |->
     CASE k \in {alice_x0, alice_y0, bob_x0, bob_y0} -> TokenRent
       [] k = alice -> 2
       [] k = client -> 4
       [] OTHER -> 0]

\* What the theorem about the exchange after a set-up supposes holds here.
ASSUME SetUpOnce == OneSetUp

=============================================================================
