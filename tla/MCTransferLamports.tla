------------------------- MODULE MCTransferLamports -------------------------
(***************************************************************************)
(* Calls that share payers and receivers.                                  *)
(***************************************************************************)
EXTENDS TransferLamports

CONSTANTS alice, bob, c1, c2, c3

\* Two calls pay from alice to bob and cannot both be paid, one pays bob's
\* gains on to alice.
MCPayer == [t \in Call |-> IF t = c3 THEN bob ELSE alice]
MCReceiver == [t \in Call |-> IF t = c3 THEN alice ELSE bob]
MCAmount == [t \in Call |-> IF t = c2 THEN 1 ELSE 2]
MCInitial == [p \in Party |-> IF p = alice THEN 4 ELSE 1]

\* Alice pays herself, and bob pays her twice: the second payment leaves the
\* range of a u64 unless her own has cost her a fee in between.
LimitPayer == [t \in Call |-> IF t = c1 THEN alice ELSE bob]
LimitReceiver == [t \in Call |-> alice]
LimitAmount == [t \in Call |-> 2]
LimitInitial == [p \in Party |-> IF p = alice THEN 5 ELSE 7]

=============================================================================
