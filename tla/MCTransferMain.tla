--------------------------- MODULE MCTransferMain ---------------------------
(***************************************************************************)
(* A payer who is given more than, less than or exactly what it is to pay. *)
(* A hundredth of a SOL is worth a few fees and more than twice the        *)
(* minimum balance of an account, as on the cluster.                       *)
(***************************************************************************)
EXTENDS TransferMain

CONSTANTS alice, bob, c1

MCPayer == [t \in Call |-> alice]
MCReceiver == [t \in Call |-> bob]
MCAmount == [t \in Call |-> 2 * Sol]
MCInitial == [p \in Party |-> 0]
MCPayerLamports == {0, Sol, 2 * Sol, 2 * Sol + Fee, 3 * Sol, 4 * Sol}

ASSUME TestAmounts == AsInTheTest

=============================================================================
