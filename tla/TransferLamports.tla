-------------------------- MODULE TransferLamports --------------------------
(***************************************************************************)
(* transfer-lamports: a client funds a temporary account, hands it to the  *)
(* program and lets the program pay the receiver out of it.  Several calls *)
(* of transferLamports run side by side and may share payer and receiver.  *)
(***************************************************************************)
EXTENDS Naturals, FiniteSetsExt

CONSTANTS
  Call,        \* calls of transferLamports; each has a fresh tmp account, also named t
  Party,       \* payers and receivers
  payer, receiver, amount,  \* the arguments of each call
  Initial,     \* what the parties hold at the start
  RentExempt,  \* the balance from which the runtime charges no rent
  Fee,         \* what the payer is charged for a transaction
  U64Max

ASSUME CallAssumption ==
  /\ IsFiniteSet(Call)
  /\ Call \cap Party = {}
  /\ U64Max \in Nat
  /\ RentExempt \in Nat
  /\ Fee \in Nat
  /\ payer \in [Call -> Party]
  /\ receiver \in [Call -> Party]
  /\ amount \in [Call -> 0 .. U64Max]
  /\ Initial \in [Party -> 0 .. U64Max]

VARIABLES
  lamports,  \* the balance of every account
  owner,     \* who owns each tmp account: the system program or this program
  tx,        \* what the cluster has made of each call's transaction
  pc,        \* where each call is
  airdropped, rent  \* what each tmp account was given, and what each account paid as rent

vars == <<lamports, owner, tx, pc, airdropped, rent>>

\* What has come and gone by no transaction; nothing in the system reads it.
history == <<airdropped, rent>>

TypeOK ==
  /\ lamports \in [Call \cup Party -> 0 .. U64Max]
  /\ owner \in [Call -> {"system", "program"}]
  /\ tx \in [Call -> {"none", "pending", "ok", "error", "expired"}]
  /\ pc \in [Call -> {"initAccount", "send", "confirm", "confirmed", "failed"}]
  /\ airdropped \in [Call -> Nat]
  /\ rent \in [Call \cup Party -> Nat]

-----------------------------------------------------------------------------
(* The program and the transaction it is called in.                        *)

\* Variant: a sum that wraps goes unnoticed.
ProcessInstructionOkWrapping(L, O, source, destination, n) ==
  L[source] >= n /\ source # destination /\ (n > 0 => O[source] = "program")

\* L, O: balances and owners when the instruction starts.  The destination
\* cannot be borrowed while the source is; the runtime lets a program spend
\* only what it owns, and an addition that wraps leaves the books unbalanced.
ProcessInstructionOk(L, O, source, destination, n) ==
  /\ L[source] >= n
  /\ source # destination
  /\ n > 0 => O[source] = "program"
  /\ L[destination] + n <= U64Max

\* Variant: the program pays out the whole account.
ProcessInstructionAll(L, source, destination, n) ==
  [L EXCEPT ![source] = 0, ![destination] = @ + L[source]]

\* Variant: the destination's balance is the one from before the transaction.
ProcessInstructionStale(L, source, destination, n) ==
  [L EXCEPT ![source] = @ - n, ![destination] = lamports[destination] + n]

ProcessInstruction(L, source, destination, n) ==
  [L EXCEPT ![source] = @ - n, ![destination] = @ + n]

\* Variant: the payer's transfer into the tmp account is left out.
ToppedUpNot(L, t) == L

\* transferIx: the payer pays the amount into the tmp account, which
\* initAccount has funded with the same amount before.
ToppedUp(L, t) == [L EXCEPT ![payer[t]] = @ - amount[t], ![t] = @ + amount[t]]

\* The payer is the fee payer and pays first.
Charged(L, t) == [L EXCEPT ![payer[t]] = @ - Fee]

Assigned(t) == [owner EXCEPT ![t] = "program"]

\* Variant: the payer's balance is not checked.
TransactionOkUnfunded(t) ==
  ProcessInstructionOk(ToppedUp(Charged(lamports, t), t), Assigned(t), t, receiver[t], amount[t])

\* The three instructions run in one transaction: all of them or none.
TransactionOk(t) ==
  /\ lamports[t] + amount[t] <= U64Max
  /\ lamports[payer[t]] >= amount[t] + Fee
  /\ ProcessInstructionOk(ToppedUp(Charged(lamports, t), t), Assigned(t), t, receiver[t], amount[t])

-----------------------------------------------------------------------------
(* The client.                                                             *)

Init ==
  /\ lamports = [a \in Call \cup Party |-> IF a \in Party THEN Initial[a] ELSE 0]
  /\ owner = [t \in Call |-> "system"]
  /\ tx = [t \in Call |-> "none"]
  /\ pc = [t \in Call |-> "initAccount"]
  /\ airdropped = [t \in Call |-> 0]
  /\ rent = [a \in Call \cup Party |-> 0]

\* An airdrop of the amount.  Its outcome is awaited and not looked at, so the
\* call goes on whether or not it was executed; it ends when the request is
\* refused or not confirmed in time.
InitAccount(t) ==
  /\ pc[t] = "initAccount"
  /\ \/ /\ lamports' = [lamports EXCEPT ![t] = @ + amount[t]]
        /\ airdropped' = [airdropped EXCEPT ![t] = @ + amount[t]]
     \/ UNCHANGED <<lamports, airdropped>>
  /\ \E next \in {"send", "failed"} : pc' = [pc EXCEPT ![t] = next]
  /\ UNCHANGED <<owner, tx, rent>>

\* sendAndConfirmTransaction simulates the transaction before it sends it.
Send(t) ==
  /\ pc[t] = "send"
  /\ IF TransactionOk(t)
     THEN pc' = [pc EXCEPT ![t] = "confirm"] /\ tx' = [tx EXCEPT ![t] = "pending"]
     ELSE pc' = [pc EXCEPT ![t] = "failed"] /\ UNCHANGED tx
  /\ UNCHANGED <<lamports, owner, history>>

\* The cluster executes a transaction on the balances of that moment, and
\* leaves one alone whose payer cannot pay the fee.
Execute(t) ==
  /\ tx[t] = "pending"
  /\ lamports[payer[t]] >= Fee
  /\ IF TransactionOk(t)
     THEN /\ lamports' = ProcessInstruction(ToppedUp(Charged(lamports, t), t), t, receiver[t], amount[t])
          /\ owner' = Assigned(t)
          /\ tx' = [tx EXCEPT ![t] = "ok"]
     ELSE /\ lamports' = Charged(lamports, t)
          /\ tx' = [tx EXCEPT ![t] = "error"]
          /\ UNCHANGED owner
  /\ UNCHANGED <<pc, history>>

\* It is never executed once its blockhash is too old.
Expire(t) ==
  /\ tx[t] = "pending"
  /\ tx' = [tx EXCEPT ![t] = "expired"]
  /\ UNCHANGED <<lamports, owner, pc, history>>

\* Variant: a transaction that is not known to have failed counts as confirmed.
ConfirmUnlessError(t) ==
  /\ pc[t] = "confirm"
  /\ pc' = [pc EXCEPT ![t] = IF tx[t] = "error" THEN "failed" ELSE "confirmed"]
  /\ UNCHANGED <<lamports, owner, tx, history>>

\* Variant: the client waits for the transaction without a limit.
ConfirmNoTimeout(t) ==
  /\ pc[t] = "confirm" /\ tx[t] \in {"ok", "error"}
  /\ pc' = [pc EXCEPT ![t] = IF tx[t] = "ok" THEN "confirmed" ELSE "failed"]
  /\ UNCHANGED <<lamports, owner, tx, history>>

\* The call returns when the transaction is confirmed, and throws when it has
\* failed or is not confirmed in time: it may then still be executed.
Confirm(t) ==
  /\ pc[t] = "confirm"
  /\ pc' = [pc EXCEPT ![t] = IF tx[t] = "ok" THEN "confirmed" ELSE "failed"]
  /\ UNCHANGED <<lamports, owner, tx, history>>

\* An account that is not rent exempt loses rent, in the end all it holds: a
\* tmp account, or a party's.
CollectRent(a) ==
  /\ lamports[a] < RentExempt
  /\ \E due \in 1 .. lamports[a] :
       /\ lamports' = [lamports EXCEPT ![a] = @ - due]
       /\ rent' = [rent EXCEPT ![a] = @ + due]
  /\ UNCHANGED <<owner, tx, pc, airdropped>>

\* A step of a call, of the cluster for it, or of its tmp account.
CallNext ==
  \E t \in Call :
    InitAccount(t) \/ Send(t) \/ Execute(t) \/ Expire(t) \/ Confirm(t) \/ CollectRent(t)

Next == CallNext \/ \E p \in Party : CollectRent(p)

\* An await ends and the cluster decides every transaction; nothing makes it
\* execute one rather than let it expire.
Fairness ==
  \A t \in Call :
    WF_vars(InitAccount(t)) /\ WF_vars(Send(t)) /\ WF_vars(Confirm(t)) /\ WF_vars(Execute(t) \/ Expire(t))

Spec == Init /\ [][Next]_vars /\ Fairness

-----------------------------------------------------------------------------

\* What an executed transaction costs its payer.
Cost == [t \in Call |-> IF tx[t] = "ok" THEN amount[t] + Fee ELSE Fee]

PaidBy(p) == SumFunctionOnSet(Cost, {t \in Call : tx[t] \in {"ok", "error"} /\ payer[t] = p})
PaidTo(p) == SumFunctionOnSet(amount, {t \in Call : tx[t] = "ok" /\ receiver[t] = p})

PartiesAccounted == \A p \in Party : lamports[p] + rent[p] + PaidBy(p) = Initial[p] + PaidTo(p)
TmpAccounted == \A t \in Call : lamports[t] + rent[t] = airdropped[t]

(***************************************************************************)
(* Every lamport is accounted for.  A party holds what it held at first,   *)
(* less the amounts and fees of executed transactions it was the payer of, *)
(* plus the amounts of those it was the receiver of, less its rent; fees   *)
(* are due for failed transactions as well.  A tmp account holds its       *)
(* airdrop less its rent, however its transaction ended.  Three            *)
(* instructions and the program's own subtraction and addition             *)
(* (processor.rs:35-42) come to one payment, also where the payer is the   *)
(* receiver, or fail as a whole where a sum is no u64.                     *)
(***************************************************************************)
BalancesAccounted == PartiesAccounted /\ TmpAccounted

(***************************************************************************)
(* What has been reported as paid has been paid: a receiver has had at     *)
(* least what the calls that returned were to pay it, and holds it if it   *)
(* has paid nothing since.  A call that threw while it waited for the      *)
(* confirmation (transfer-lamports.ts:61) may have paid as well, then or   *)
(* later.                                                                  *)
(***************************************************************************)
ReturnedPaid ==
  \A p \in Party :
    lamports[p] + rent[p] + PaidBy(p) >=
      Initial[p] + SumFunctionOnSet(amount, {t \in Call : pc[t] = "confirmed" /\ receiver[t] = p})

(***************************************************************************)
(* A transaction is turned down only because the payer cannot pay: a lost  *)
(* airdrop or collected rent never makes the program find too little in    *)
(* the tmp account (processor.rs:36-40), since the payer's transfer has    *)
(* put the amount there in the same transaction.                           *)
(***************************************************************************)
OnlyPayerFails ==
  [][\A t \in Call : tx[t] = "pending" /\ tx[t]' = "error" => lamports[payer[t]] < amount[t] + Fee]_vars

(***************************************************************************)
(* Every call returns or throws, and its transaction does not stay         *)
(* undecided.                                                              *)
(***************************************************************************)
CallsEnd == \A t \in Call : <>(pc[t] \in {"confirmed", "failed"} /\ tx[t] # "pending")

(***************************************************************************)
(* "execute the instruction that will transfer all its funds to the        *)
(* receiver" (transfer-lamports.ts:20-21): an executed transaction leaves  *)
(* nothing in the tmp account.                                             *)
(***************************************************************************)
TmpEmptied == \A t \in Call : tx[t] = "ok" => lamports[t] = 0

=============================================================================
