---------------------------- MODULE TransferMain ----------------------------
(***************************************************************************)
(* The program around a call of transferLamports, as main.ts and the test  *)
(* run it: Conn.initAccount for the payer, then for the receiver, then the *)
(* call.  initAccount asks for an airdrop, reads the balance it has come   *)
(* to and asks for a second one over what the account lacks to be rent     *)
(* exempt, while the faucet may be late or refuse and rent is collected.   *)
(***************************************************************************)
EXTENDS TransferLamports, Sequences

CONSTANTS
  PayerLamports,  \* the values of opts.lamports for the payer
  KeepAlive,      \* LamportsNeededToKeepAliveUntilRentExcempt
  Sol             \* LAMPORTS_PER_SOL

ASSUME MainAssumption ==
  /\ Initial = [p \in Party |-> 0]
  /\ \E t \in Call : Call = {t} /\ Party = {payer[t], receiver[t]} /\ payer[t] # receiver[t]
  /\ PayerLamports \subseteq 0 .. U64Max
  /\ KeepAlive \in 0 .. U64Max
  /\ Sol \in Nat /\ Sol % 100 = 0

call == CHOOSE t \in Call : TRUE

VARIABLES
  queue,     \* the accounts to be initialised, the present one first
  stage,     \* where initAccount is with it
  opts,      \* opts.lamports for each account
  asked,     \* the lamports of the airdrops requested for each account
  airdrop,   \* what the cluster has made of them
  rentRead   \* the rent each account had paid when its balance was read

mainVars == <<queue, stage, opts, asked, airdrop, rentRead>>
mvars == <<vars, mainVars>>

Kind == {"first", "topUp"}

-----------------------------------------------------------------------------

MainInit ==
  /\ Init
  /\ queue = <<payer[call], receiver[call]>>
  /\ stage = "request"
  /\ \E n \in PayerLamports : opts = [p \in Party |-> IF p = payer[call] THEN n ELSE 0]
  /\ asked = [p \in Party |-> [k \in Kind |-> 0]]
  /\ airdrop = [p \in Party |-> [k \in Kind |-> "none"]]
  /\ rentRead = [p \in Party |-> 0]

account == Head(queue)
Initialising == queue # <<>> /\ stage # "failed"

Larger(m, n) == IF m >= n THEN m ELSE n

\* requestAirdrop; the request itself may be refused, see GiveUp.
Request(k, lamps) ==
  /\ asked' = [asked EXCEPT ![account][k] = lamps]
  /\ airdrop' = [airdrop EXCEPT ![account][k] = "pending"]

RequestAirdrop ==
  /\ Initialising /\ stage = "request"
  /\ Request("first", Larger(opts[account], KeepAlive))
  /\ stage' = "confirm"
  /\ UNCHANGED <<vars, queue, opts, rentRead>>

\* Variant: what was there before is not counted.
NeededWhole(currentBalance) == IF currentBalance >= RentExempt THEN 0 ELSE RentExempt

Needed(currentBalance) == IF currentBalance >= RentExempt THEN 0 ELSE RentExempt - currentBalance

NextAccount == queue' = Tail(queue) /\ stage' = "request"

\* An account without lamports does not exist.
MakeAccountRentExempt ==
  /\ Initialising /\ stage = "read"
  /\ rentRead' = [rentRead EXCEPT ![account] = rent[account]]
  /\ LET needed == Needed(lamports[account]) IN
     \/ lamports[account] = 0 /\ stage' = "failed" /\ UNCHANGED <<queue, asked, airdrop>>
     \/ lamports[account] > 0 /\ needed = 0 /\ NextAccount /\ UNCHANGED <<asked, airdrop>>
     \/ /\ lamports[account] > 0 /\ needed > 0
        /\ Request("topUp", needed) /\ stage' = "confirmTopUp" /\ UNCHANGED queue
  /\ UNCHANGED <<vars, opts>>

\* Whether the airdrop has succeeded is not looked at.
ConfirmAirdrop ==
  /\ Initialising
  /\ \/ /\ stage = "confirm" /\ airdrop[account]["first"] \in {"ok", "error"}
        /\ stage' = "read" /\ UNCHANGED queue
     \/ /\ stage = "confirmTopUp" /\ airdrop[account]["topUp"] \in {"ok", "error"}
        /\ NextAccount
  /\ UNCHANGED <<vars, opts, asked, airdrop, rentRead>>

\* Variant: confirmations are waited for without a limit.
GiveUpOnRequest ==
  /\ Initialising /\ stage \notin {"confirm", "confirmTopUp"}
  /\ stage' = "failed"
  /\ UNCHANGED <<vars, queue, opts, asked, airdrop, rentRead>>

\* A request throws or a confirmation takes too long.
GiveUp ==
  /\ Initialising
  /\ stage' = "failed"
  /\ UNCHANGED <<vars, queue, opts, asked, airdrop, rentRead>>

-----------------------------------------------------------------------------
(* The cluster.                                                            *)

ExecuteAirdrop(p, k) ==
  /\ airdrop[p][k] = "pending"
  /\ \/ /\ lamports[p] + asked[p][k] <= U64Max
        /\ lamports' = [lamports EXCEPT ![p] = @ + asked[p][k]]
        /\ airdrop' = [airdrop EXCEPT ![p][k] = "ok"]
     \/ UNCHANGED lamports /\ airdrop' = [airdrop EXCEPT ![p][k] = "error"]
  /\ UNCHANGED <<owner, tx, pc, history, queue, stage, opts, asked, rentRead>>

ExpireAirdrop(p, k) ==
  /\ airdrop[p][k] = "pending"
  /\ airdrop' = [airdrop EXCEPT ![p][k] = "expired"]
  /\ UNCHANGED <<vars, queue, stage, opts, asked, rentRead>>

MainNext ==
  \/ RequestAirdrop \/ MakeAccountRentExempt \/ ConfirmAirdrop \/ GiveUp
  \/ \E p \in Party, k \in Kind : ExecuteAirdrop(p, k) \/ ExpireAirdrop(p, k)
  \/ \E p \in Party : CollectRent(p) /\ UNCHANGED mainVars
  \/ queue = <<>> /\ CallNext /\ UNCHANGED mainVars

\* Requests are answered or throw, and confirmations have a time limit.
MainFairness ==
  /\ WF_mvars(RequestAirdrop \/ MakeAccountRentExempt \/ ConfirmAirdrop \/ GiveUp)
  /\ \A t \in Call :
       WF_mvars(queue = <<>> /\ UNCHANGED mainVars /\ (InitAccount(t) \/ Send(t) \/ Confirm(t)))

MainSpec == MainInit /\ [][MainNext]_mvars /\ MainFairness

-----------------------------------------------------------------------------

\* The rent an account has paid since its balance was read.
collected == [p \in Party |-> rent[p] - rentRead[p]]

Initialised(p) == ~ \E i \in DOMAIN queue : queue[i] = p

(***************************************************************************)
(* An account initAccount has made rent exempt has what it needs for that  *)
(* and not a lamport more, or what was asked for it if that is more, less  *)
(* the rent that was collected behind the back of the balance it went by   *)
(* (conn.ts:224-263).  An airdrop that was refused is not made up for.     *)
(***************************************************************************)
ToppedUpExactly ==
  \A p \in Party :
    /\ Initialised(p)
    /\ tx[call] = "none"
    /\ airdrop[p]["first"] = "ok" /\ airdrop[p]["topUp"] # "error"
    => lamports[p] + collected[p] = Larger(Larger(opts[p], KeepAlive), RentExempt)

\* getBalanceSol, in hundredths of a SOL.
BalanceSol(p) == (lamports[p] + Sol \div 200) \div (Sol \div 100)

(***************************************************************************)
(* What the test reads after a call that returned: the payer's balance and *)
(* the receiver's have changed by what was to be paid, as far as           *)
(* getBalanceSol shows, which hides the fee and the receiver's rent        *)
(* exemption (transfer-lamports.test.ts:45-62, conn.ts:195-200).           *)
(***************************************************************************)
TransferAsTested ==
  pc[call] = "confirmed" =>
    /\ BalanceSol(payer[call]) = (opts[payer[call]] - amount[call]) \div (Sol \div 100)
    /\ BalanceSol(receiver[call]) = amount[call] \div (Sol \div 100)

(***************************************************************************)
(* A payer that was not given the amount and the fee is turned down by the *)
(* simulation and nothing is sent: it may have the amount and not the fee, *)
(* and its airdrops may be late, refused, or eaten up by rent              *)
(* (transfer-lamports.test.ts:64-79 tests a payer with less than the       *)
(* amount).                                                                *)
(***************************************************************************)
InsufficientNotSent == opts[payer[call]] < amount[call] + Fee => tx[call] = "none"

\* The call pays more than what initAccount gives an account of itself.
PaysEnough == KeepAlive < amount[call] /\ RentExempt < amount[call]

\* The amounts of the test: hundredths of a SOL, next to which a fee and the
\* balance that keeps an account alive are small.
AsInTheTest ==
  /\ PaysEnough
  /\ Fee + RentExempt <= Sol \div 200
  /\ Larger(KeepAlive, RentExempt) < Sol \div 200
  /\ amount[call] % (Sol \div 100) = 0
  /\ \A n \in PayerLamports : n >= amount[call] => (n - amount[call]) % (Sol \div 100) <= Fee

(***************************************************************************)
(* main ends, with the call's outcome or an error, whatever becomes of the *)
(* airdrops (main.ts:78-83).                                               *)
(***************************************************************************)
MainEnds == <>(stage = "failed" \/ pc[call] \in {"confirmed", "failed"})

=============================================================================
