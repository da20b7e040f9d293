--------------------------- MODULE MCEscrowClient ---------------------------
(***************************************************************************)
(* Instances of the client for TLC.  Alice asks two tokens Y for one X and *)
(* holds aliceX of X.  otherTermsRun, if it is a run, has been started     *)
(* with another version of terms.json, two X for one Y.                    *)
(***************************************************************************)
EXTENDS EscrowClient

CONSTANTS
  a1, a2, b1, b2, t1, t2, e1, e2, alice_x, alice_y, bob_x, bob_y, mint_x, mint_y, otherTermsRun, aliceX

MCFiles ==
  [alice_x |-> alice_x, alice_y |-> alice_y, bob_x |-> bob_x, bob_y |-> bob_y,
   mint_x |-> mint_x, mint_y |-> mint_y, escrow |-> NoKey]

MCTerms ==
  [r \in Run |-> IF r = otherTermsRun
                 THEN [aliceExpectedAmount |-> 1, bobExpectedAmount |-> 2]
                 ELSE [aliceExpectedAmount |-> 2, bobExpectedAmount |-> 1]]

MCTmp == [r \in AliceRun |-> IF r = a1 THEN t1 ELSE t2]
MCEscrowAccount == [r \in AliceRun |-> IF r = a1 THEN e1 ELSE e2]

MCInitialToken ==
  [k \in TokenKey |->
     CASE k = alice_x -> [mint |-> mint_x, owner |-> alice, amount |-> aliceX]
       [] k = alice_y -> [mint |-> mint_y, owner |-> alice, amount |-> 0]
       [] k = bob_x -> [mint |-> mint_x, owner |-> bob, amount |-> 0]
       [] k = bob_y -> [mint |-> mint_y, owner |-> bob, amount |-> 4]
       [] OTHER -> NoToken]

MCInitialLamports ==
  [k \in Wallet \cup TokenKey \cup EscrowKey |->
     CASE k \in Wallet -> 6
       [] k \in {alice_x, alice_y, bob_x, bob_y} -> TokenRent
       [] OTHER -> 0]

\* The files name accounts of the parties, of the right mints.
ASSUME StartedAfterSetUp == SetUpEnded

=============================================================================
