--------------------------- MODULE TransferProofs ---------------------------
(***************************************************************************)
(* Proofs about transfer-lamports, for every set of calls and parties,     *)
(* every amount, fee and initial balance.                                  *)
(***************************************************************************)
EXTENDS TransferLamports, DataLemmas, Integers, TLAPS

\* Nobody has funded a tmp account before its airdrop.
TmpUnfunded == \A t \in Call : pc[t] = "initAccount" => lamports[t] = 0

\* The inductive invariant: without its second part an airdrop could lift a
\* tmp account over the range of a u64.
TransferInv == TypeOK /\ TmpUnfunded

LEMMA InitInv == Init => TransferInv
BY CallAssumption DEF Init, TransferInv, TypeOK, TmpUnfunded

\* The balances after a transaction that was executed.
Executed(t) == ProcessInstruction(ToppedUp(Charged(lamports, t), t), t, receiver[t], amount[t])

\* Three instructions come to one payment: the tmp account is left as it was.
LEMMA OnePayment ==
  ASSUME TypeOK, NEW t \in Call, TransactionOk(t)
  PROVE  /\ Executed(t) \in [Call \cup Party -> 0 .. U64Max]
         /\ Executed(t)[t] = lamports[t]
         /\ \A p \in Party :
              Executed(t)[p] = lamports[p] + (IF p = receiver[t] THEN amount[t] ELSE 0)
                                 - (IF p = payer[t] THEN amount[t] + Fee ELSE 0)
         /\ \A u \in Call \ {t} : Executed(t)[u] = lamports[u]
<1> DEFINE p == payer[t]
           r == receiver[t]
           n == amount[t]
           L1 == Charged(lamports, t)
           L2 == ToppedUp(L1, t)
           L3 == Executed(t)
<1>1. /\ p \in Party /\ r \in Party /\ p # t /\ r # t
      /\ n \in Nat /\ Fee \in Nat /\ U64Max \in Nat
  BY CallAssumption
<1>2. lamports \in [Call \cup Party -> 0 .. U64Max]
  BY DEF TypeOK
<1>3. /\ lamports[t] + n <= U64Max
      /\ lamports[p] >= n + Fee
      /\ L2[r] + n <= U64Max
  BY DEF TransactionOk, ProcessInstructionOk
<1>4. /\ L1 \in [Call \cup Party -> Int]
      /\ L1[p] = lamports[p] - Fee
      /\ \A a \in Call \cup Party : a # p => L1[a] = lamports[a]
  BY <1>1, <1>2 DEF Charged
<1> HIDE DEF L1
<1>5. /\ L2 \in [Call \cup Party -> Int]
      /\ L2[p] = lamports[p] - Fee - n
      /\ L2[t] = lamports[t] + n
      /\ \A a \in Call \cup Party : a # p /\ a # t => L2[a] = lamports[a]
  BY <1>1, <1>2, <1>4 DEF ToppedUp
<1> HIDE DEF L2
<1>6. L3 = [L2 EXCEPT ![t] = @ - n, ![r] = @ + n]
  BY DEF Executed, ProcessInstruction, L2, L1
<1>7. /\ L3 \in [Call \cup Party -> Int]
      /\ L3[t] = lamports[t]
      /\ L3[r] = L2[r] + n
      /\ \A a \in Call \cup Party : a # r /\ a # t => L3[a] = L2[a]
  <2>1. /\ L3[t] = L2[t] - n
        /\ L3[r] = L2[r] + n
        /\ L3 \in [Call \cup Party -> Int]
        /\ \A a \in Call \cup Party : a # r /\ a # t => L3[a] = L2[a]
    BY <1>1, <1>5, <1>6
  <2>2. lamports[t] \in Nat
    BY <1>2
  <2>3. QED
    BY <1>1, <1>5, <2>1, <2>2
<1> HIDE DEF L3
<1>8. ASSUME NEW q \in Party
      PROVE  L3[q] = lamports[q] + (IF q = r THEN n ELSE 0) - (IF q = p THEN n + Fee ELSE 0)
  <2>1. q # t /\ lamports[q] \in Nat
    BY <1>2, CallAssumption
  <2>2. QED
    BY <1>1, <1>5, <1>7, <2>1
<1>9. \A u \in Call \ {t} : L3[u] = lamports[u]
  BY <1>1, <1>5, <1>7, CallAssumption
<1>10. ASSUME NEW a \in Call \cup Party
       PROVE  L3[a] \in 0 .. U64Max
  <2>1. lamports[a] \in 0 .. U64Max
    BY <1>2
  <2>2. CASE a \in Call
    BY <1>7, <1>9, <2>1, <2>2
  <2>3. CASE a \in Party /\ a = r
    <3>1. L3[a] <= U64Max
      BY <1>3, <1>7, <2>3
    <3>2. L3[a] = lamports[a] + n - (IF a = p THEN n + Fee ELSE 0)
      BY <1>8, <2>3
    <3>3. QED
      BY <1>1, <1>3, <2>1, <3>1, <3>2
  <2>4. CASE a \in Party /\ a # r
    <3>1. L3[a] = lamports[a] + 0 - (IF a = p THEN n + Fee ELSE 0)
      BY <1>8, <2>4
    <3>2. QED
      BY <1>1, <1>3, <2>1, <3>1
  <2>5. QED
    BY <2>2, <2>3, <2>4
<1>11. L3 \in [Call \cup Party -> 0 .. U64Max]
  BY <1>7, <1>10
<1>12. QED
  BY <1>7, <1>8, <1>9, <1>11 DEF L3

LEMMA NextInv == TransferInv /\ [Next]_vars => TransferInv'
<1> SUFFICES ASSUME TransferInv, [Next]_vars PROVE TransferInv'
  OBVIOUS
<1>0. TypeOK /\ TmpUnfunded
  BY DEF TransferInv
<1>1. ASSUME NEW t \in Call, InitAccount(t) PROVE TransferInv'
  <2>1. lamports[t] = 0 /\ amount[t] \in 0 .. U64Max
    BY <1>0, <1>1, CallAssumption DEF TmpUnfunded, InitAccount
  <2>2. lamports' \in [Call \cup Party -> 0 .. U64Max]
    BY <1>0, <1>1, <2>1, CallAssumption DEF InitAccount, TypeOK
  <2>3. \A u \in Call : u # t => lamports'[u] = lamports[u] /\ pc'[u] = pc[u]
    BY <1>0, <1>1 DEF InitAccount, TypeOK
  <2>4. pc'[t] # "initAccount"
    BY <1>0, <1>1 DEF InitAccount, TypeOK
  <2>5. TypeOK'
    <3>1. airdropped' \in [Call -> Nat]
      BY <1>0, <1>1, <2>1, CallAssumption DEF InitAccount, TypeOK
    <3>2. pc' \in [Call -> {"initAccount", "send", "confirm", "confirmed", "failed"}]
      BY <1>0, <1>1 DEF InitAccount, TypeOK
    <3>3. UNCHANGED <<owner, tx, rent>>
      BY <1>1 DEF InitAccount
    <3> QED
      BY <1>0, <2>2, <3>1, <3>2, <3>3 DEF TypeOK
  <2>6. TmpUnfunded'
    BY <1>0, <2>3, <2>4 DEF TmpUnfunded
  <2>7. QED
    BY <2>5, <2>6 DEF TransferInv
<1>2. ASSUME NEW t \in Call, Send(t) PROVE TransferInv'
  BY <1>0, <1>2 DEF Send, history, TransferInv, TypeOK, TmpUnfunded
<1>3. ASSUME NEW t \in Call, Execute(t) PROVE TransferInv'
  <2>1. CASE TransactionOk(t)
    <3>1. lamports' = Executed(t)
      BY <1>3, <2>1 DEF Execute, Executed
    <3>2. TypeOK'
      BY <1>0, <1>3, <2>1, <3>1, OnePayment DEF Execute, history, TypeOK, Assigned
    <3>3. \A u \in Call : lamports'[u] = lamports[u]
      BY <1>0, <2>1, <3>1, OnePayment
    <3>4. QED
      BY <1>0, <1>3, <3>2, <3>3 DEF Execute, TransferInv, TmpUnfunded
  <2>2. CASE ~ TransactionOk(t)
    <3>1. lamports' = Charged(lamports, t) /\ lamports[payer[t]] >= Fee
      BY <1>3, <2>2 DEF Execute
    <3>2. /\ lamports' \in [Call \cup Party -> 0 .. U64Max]
          /\ \A u \in Call : lamports'[u] = lamports[u]
      BY <1>0, <3>1, CallAssumption DEF Charged, TypeOK
    <3>3. TypeOK'
      BY <1>0, <1>3, <2>2, <3>2 DEF Execute, history, TypeOK
    <3>4. QED
      BY <1>0, <1>3, <3>2, <3>3 DEF Execute, TransferInv, TmpUnfunded
  <2>3. QED
    BY <2>1, <2>2
<1>4. ASSUME NEW t \in Call, Expire(t) PROVE TransferInv'
  BY <1>0, <1>4 DEF Expire, history, TransferInv, TypeOK, TmpUnfunded
<1>5. ASSUME NEW t \in Call, Confirm(t) PROVE TransferInv'
  BY <1>0, <1>5 DEF Confirm, history, TransferInv, TypeOK, TmpUnfunded
<1>6. ASSUME NEW a \in Call \cup Party, CollectRent(a) PROVE TransferInv'
  <2>1. PICK due \in 1 .. lamports[a] :
          lamports' = [lamports EXCEPT ![a] = @ - due] /\ rent' = [rent EXCEPT ![a] = @ + due]
    BY <1>6 DEF CollectRent
  <2>2. lamports[a] \in 0 .. U64Max /\ rent[a] \in Nat /\ U64Max \in Nat
    BY <1>0, CallAssumption DEF TypeOK
  <2>3. lamports[a] - due \in 0 .. U64Max /\ rent[a] + due \in Nat /\ lamports[a] # 0
    BY <2>2
  <2>4. lamports' \in [Call \cup Party -> 0 .. U64Max] /\ rent' \in [Call \cup Party -> Nat]
    BY <1>0, <2>1, <2>3 DEF TypeOK
  <2>5. \A u \in (Call \cup Party) \ {a} : lamports'[u] = lamports[u]
    BY <1>0, <2>1 DEF TypeOK
  <2>6. TypeOK'
    BY <1>0, <1>6, <2>4 DEF CollectRent, TypeOK
  <2>7. TmpUnfunded'
    BY <1>0, <1>6, <2>3, <2>5 DEF CollectRent, TmpUnfunded
  <2>8. QED
    BY <2>6, <2>7 DEF TransferInv
<1>7. CASE UNCHANGED vars
  BY <1>0, <1>7 DEF vars, TransferInv, TypeOK, TmpUnfunded
<1>8. QED
  BY <1>1, <1>2, <1>3, <1>4, <1>5, <1>6, <1>7 DEF Next, CallNext

(***************************************************************************)
(* The inductive invariant holds in every reachable state: balances are    *)
(* u64s, and a tmp account has nothing before its airdrop.                 *)
(***************************************************************************)
THEOREM Invariance == Spec => []TransferInv
BY InitInv, NextInv, PTL DEF Spec

(***************************************************************************)
(* No balance leaves the range of a u64, for any number of calls that      *)
(* share payers and receivers (processor.rs:35-42).                        *)
(***************************************************************************)
THEOREM TypeCorrect == Spec => []TypeOK
<1>1. TransferInv => TypeOK
  BY DEF TransferInv
<1>2. QED
  BY <1>1, Invariance, PTL

\* The receivers and the tmp accounts can take what they are to be paid.
Room ==
  \A t \in Call : /\ lamports[t] + amount[t] <= U64Max
                  /\ lamports[receiver[t]] + amount[t] <= U64Max

LEMMA FailsForPayer ==
  ASSUME TypeOK, Room, NEW t \in Call, lamports[payer[t]] >= amount[t] + Fee
  PROVE  TransactionOk(t)
<1> DEFINE p == payer[t]
           r == receiver[t]
           n == amount[t]
           L1 == Charged(lamports, t)
           L2 == ToppedUp(L1, t)
           A == Assigned(t)
<1>1. /\ p \in Party /\ r \in Party /\ p # t /\ r # t
      /\ n \in Nat /\ Fee \in Nat /\ U64Max \in Nat
  BY CallAssumption
<1>2. lamports \in [Call \cup Party -> 0 .. U64Max]
  BY DEF TypeOK
<1>3. /\ L1 \in [Call \cup Party -> Int]
      /\ L1[p] = lamports[p] - Fee
      /\ \A a \in Call \cup Party : a # p => L1[a] = lamports[a]
  BY <1>1, <1>2 DEF Charged
<1> HIDE DEF L1
<1>4. /\ L2[p] = lamports[p] - Fee - n
      /\ L2[t] = lamports[t] + n
      /\ \A a \in Call \cup Party : a # p /\ a # t => L2[a] = lamports[a]
  BY <1>1, <1>2, <1>3 DEF ToppedUp
<1>5. A[t] = "program"
  BY DEF Assigned, TypeOK
<1> HIDE DEF L2, A
<1>6. L2[t] >= n
  BY <1>1, <1>2, <1>4
<1>7. L2[r] + n <= U64Max
  <2>1. lamports[r] + n <= U64Max /\ lamports[r] \in Nat
    BY <1>1, <1>2 DEF Room
  <2>2. L2[r] <= lamports[r] /\ L2[r] \in Int
    BY <1>1, <1>4, <2>1
  <2>3. QED
    BY <1>1, <2>1, <2>2
<1>8. ProcessInstructionOk(L2, A, t, r, n)
  BY <1>1, <1>5, <1>6, <1>7 DEF ProcessInstructionOk
<1>9. lamports[t] + n <= U64Max
  BY DEF Room
<1>10. QED
  BY <1>8, <1>9 DEF TransactionOk, L1, L2, A

(***************************************************************************)
(* If balances can be added up, only a payer's lack of funds makes an      *)
(* executed transaction fail, whatever happens to the tmp account.         *)
(***************************************************************************)
THEOREM OnlyThePayer == Spec /\ []Room => OnlyPayerFails
<1>1. TransferInv /\ Room /\ [Next]_vars =>
        [\A t \in Call : tx[t] = "pending" /\ tx[t]' = "error" => lamports[payer[t]] < amount[t] + Fee]_vars
  <2> SUFFICES ASSUME TransferInv, Room, Next, NEW t \in Call, tx[t] = "pending", tx[t]' = "error"
               PROVE  lamports[payer[t]] < amount[t] + Fee
    OBVIOUS
  <2>1. TypeOK
    BY DEF TransferInv
  <2>2. ~ TransactionOk(t)
    BY <2>1 DEF Next, CallNext, InitAccount, Send, Execute, Expire, Confirm, CollectRent, TypeOK
  <2>3. lamports[payer[t]] \in Int /\ amount[t] + Fee \in Int
    BY <2>1, CallAssumption DEF TypeOK
  <2>4. QED
    BY <2>1, <2>2, <2>3, FailsForPayer
<1>2. QED
  BY <1>1, Invariance, PTL DEF Spec, OnlyPayerFails

-----------------------------------------------------------------------------
(* What the calls come to.                                                 *)

\* A call returns only when its transaction has been executed.
ConfirmedOk == \A t \in Call : pc[t] = "confirmed" => tx[t] = "ok"

\* The second inductive invariant: the balances as the transactions add up,
\* with what a call that has returned has seen.
AccountsInv == BalancesAccounted /\ ConfirmedOk

Paying(p) == {t \in Call : tx[t] \in {"ok", "error"} /\ payer[t] = p}
Receiving(p) == {t \in Call : tx[t] = "ok" /\ receiver[t] = p}

LEMMA PaidNaturals ==
  ASSUME TypeOK, NEW p \in Party
  PROVE  /\ PaidBy(p) \in Nat /\ PaidTo(p) \in Nat
         /\ lamports[p] \in Nat /\ rent[p] \in Nat /\ Initial[p] \in Nat
         /\ IsFiniteSet(Paying(p)) /\ IsFiniteSet(Receiving(p))
<1>1. IsFiniteSet(Paying(p)) /\ IsFiniteSet(Receiving(p))
  BY CallAssumption, FS_Subset DEF Paying, Receiving
<1>2. \A t \in Call : Cost[t] \in Nat /\ amount[t] \in Nat
  BY CallAssumption DEF Cost
<1>3. PaidBy(p) \in Nat
  BY <1>1, <1>2, SumType DEF PaidBy, Paying
<1>4. PaidTo(p) \in Nat
  BY <1>1, <1>2, SumType DEF PaidTo, Receiving
<1> QED
  BY <1>1, <1>3, <1>4, CallAssumption DEF TypeOK

LEMMA AccountsInit == Init => AccountsInv
<1> SUFFICES ASSUME Init PROVE AccountsInv
  OBVIOUS
<1>1. ASSUME NEW p \in Party
      PROVE  lamports[p] = Initial[p] /\ rent[p] = 0 /\ PaidBy(p) = 0 /\ PaidTo(p) = 0 /\ Initial[p] \in Nat
  <2>1. Paying(p) = {} /\ Receiving(p) = {}
    BY DEF Init, Paying, Receiving
  <2>2. PaidBy(p) = 0 /\ PaidTo(p) = 0
    BY <2>1, SumEmpty DEF PaidBy, PaidTo, Paying, Receiving
  <2> QED
    BY <2>2, CallAssumption DEF Init
<1>2. ConfirmedOk
  BY DEF Init, ConfirmedOk
<1>3. TmpAccounted
  BY CallAssumption DEF Init, TmpAccounted
<1> QED
  BY <1>1, <1>2, <1>3 DEF AccountsInv, BalancesAccounted, PartiesAccounted

\* A step that executes no transaction takes rent from the parties at most.
LEMMA NothingPaid ==
  ASSUME TypeOK, PartiesAccounted,
         \A p \in Party : lamports'[p] + rent'[p] = lamports[p] + rent[p],
         \A t \in Call : {tx[t], tx'[t]} \cap {"ok", "error"} # {} => tx'[t] = tx[t]
  PROVE  PartiesAccounted'
<1> SUFFICES ASSUME NEW p \in Party
             PROVE  lamports'[p] + rent'[p] + PaidBy(p)' = Initial[p] + PaidTo(p)'
  BY DEF PartiesAccounted
<1>1. Paying(p)' = Paying(p) /\ Receiving(p)' = Receiving(p)
  BY DEF Paying, Receiving
<1>2. \A t \in Paying(p) : Cost'[t] = Cost[t]
  BY DEF Paying, Cost
<1>3. IsFiniteSet(Paying(p))
  BY PaidNaturals
<1>4. PaidBy(p)' = PaidBy(p)
  <2>1. SumFunctionOnSet(Cost', Paying(p)) = SumFunctionOnSet(Cost, Paying(p))
    BY <1>2, <1>3, SumEqual
  <2> QED BY <1>1, <2>1 DEF PaidBy, Paying
<1>5. PaidTo(p)' = PaidTo(p)
  BY <1>1 DEF PaidTo, Receiving
<1> QED
  BY <1>4, <1>5 DEF PartiesAccounted

\* A transaction that is executed, or fails and is charged for.
LEMMA OnePaid ==
  ASSUME TypeOK, PartiesAccounted, NEW t \in Call, tx[t] = "pending", rent' = rent,
         NEW result \in {"ok", "error"}, tx' = [tx EXCEPT ![t] = result],
         \A p \in Party :
           lamports'[p] = lamports[p] + (IF p = receiver[t] /\ result = "ok" THEN amount[t] ELSE 0)
                            - (IF p = payer[t] THEN (IF result = "ok" THEN amount[t] ELSE 0) + Fee ELSE 0)
  PROVE  PartiesAccounted'
<1> SUFFICES ASSUME NEW p \in Party
             PROVE  lamports'[p] + rent'[p] + PaidBy(p)' = Initial[p] + PaidTo(p)'
  BY DEF PartiesAccounted
<1>1. /\ t \notin Paying(p) /\ t \notin Receiving(p)
      /\ tx'[t] = result
      /\ \A u \in Call : u # t => tx'[u] = tx[u]
  BY DEF Paying, Receiving, TypeOK
<1>2. /\ Fee \in Nat /\ amount[t] \in Nat /\ Cost' \in [Call -> Nat]
      /\ Cost'[t] = (IF result = "ok" THEN amount[t] ELSE 0) + Fee
  BY <1>1, CallAssumption DEF Cost
<1>3. /\ PaidBy(p) \in Nat /\ PaidTo(p) \in Nat /\ lamports[p] \in Nat /\ rent[p] \in Nat /\ Initial[p] \in Nat
      /\ IsFiniteSet(Paying(p)) /\ IsFiniteSet(Receiving(p))
  BY PaidNaturals
<1>4. PaidBy(p)' = PaidBy(p) + (IF p = payer[t] THEN Cost'[t] ELSE 0)
  <2>1. \A u \in Paying(p) : Cost[u] = Cost'[u]
    BY <1>1 DEF Paying, Cost
  <2>2. CASE p = payer[t]
    <3>1. Paying(p)' = Paying(p) \cup {t}
      BY <1>1, <2>2 DEF Paying
    <3>2. SumFunctionOnSet(Cost', Paying(p) \cup {t})
            = Cost'[t] + SumFunctionOnSet(Cost, Paying(p))
      <4>1. \A u \in Paying(p) \cup {t} : Cost'[u] \in Int
        BY <1>2 DEF Paying
      <4> HIDE DEF Cost, Paying
      <4> QED BY <1>1, <1>3, <2>1, <4>1, SumGrows
    <3>3. PaidBy(p)' = Cost'[t] + PaidBy(p)
      BY <3>1, <3>2 DEF PaidBy, Paying
    <3> QED BY <1>2, <1>3, <2>2, <3>3
  <2>3. CASE p # payer[t]
    <3>1. Paying(p)' = Paying(p)
      BY <1>1, <2>3 DEF Paying
    <3>2. SumFunctionOnSet(Cost', Paying(p)) = SumFunctionOnSet(Cost, Paying(p))
      BY <1>3, <2>1, SumEqual
    <3>3. PaidBy(p)' = PaidBy(p)
      BY <3>1, <3>2 DEF PaidBy, Paying
    <3> QED BY <1>3, <2>3, <3>3
  <2> QED BY <2>2, <2>3
<1>5. PaidTo(p)' = PaidTo(p) + (IF p = receiver[t] /\ result = "ok" THEN amount[t] ELSE 0)
  <2>1. CASE p = receiver[t] /\ result = "ok"
    <3>1. Receiving(p)' = Receiving(p) \cup {t}
      BY <1>1, <2>1 DEF Receiving
    <3>2. SumFunctionOnSet(amount, Receiving(p) \cup {t})
            = amount[t] + SumFunctionOnSet(amount, Receiving(p))
      <4>1. \A u \in Receiving(p) \cup {t} : amount[u] \in Int
        BY CallAssumption DEF Receiving
      <4> QED BY <1>1, <1>3, <4>1, SumAdd
    <3>3. PaidTo(p)' = amount[t] + PaidTo(p)
      BY <3>1, <3>2 DEF PaidTo, Receiving
    <3> QED BY <1>2, <1>3, <2>1, <3>3
  <2>2. CASE ~(p = receiver[t] /\ result = "ok")
    <3>1. Receiving(p)' = Receiving(p)
      BY <1>1, <2>2 DEF Receiving
    <3>2. PaidTo(p)' = PaidTo(p)
      BY <3>1 DEF PaidTo, Receiving
    <3> QED BY <1>3, <2>2, <3>2
  <2> QED BY <2>1, <2>2
<1>6. lamports[p] + rent[p] + PaidBy(p) = Initial[p] + PaidTo(p)
  BY DEF PartiesAccounted
<1> HIDE DEF PaidBy, PaidTo, Cost
<1> QED
  BY <1>2, <1>3, <1>4, <1>5, <1>6

\* A tmp account: funded by its airdrop, charged rent, and as it was after a
\* transaction.
LEMMA TmpNext == TypeOK /\ TmpAccounted /\ [Next]_vars => TmpAccounted'
<1> SUFFICES ASSUME TypeOK, TmpAccounted, [Next]_vars, NEW u \in Call
             PROVE  lamports'[u] + rent'[u] = airdropped'[u]
  BY DEF TmpAccounted
<1>1. /\ lamports[u] \in Nat /\ rent[u] \in Nat /\ airdropped[u] \in Nat
      /\ lamports[u] + rent[u] = airdropped[u]
  BY CallAssumption DEF TypeOK, TmpAccounted
<1>2. ASSUME NEW t \in Call, InitAccount(t) PROVE lamports'[u] + rent'[u] = airdropped'[u]
  <2>1. amount[t] \in Nat
    BY CallAssumption
  <2> QED
    BY <1>1, <1>2, <2>1 DEF InitAccount, TypeOK
<1>3. ASSUME NEW t \in Call, Execute(t) PROVE lamports'[u] + rent'[u] = airdropped'[u]
  <2>1. lamports'[u] = lamports[u]
    <3>1. CASE TransactionOk(t)
      <4>1. lamports' = Executed(t)
        BY <1>3, <3>1 DEF Execute, Executed
      <4> QED
        BY <3>1, <4>1, OnePayment
    <3>2. CASE ~ TransactionOk(t)
      <4>1. lamports' = Charged(lamports, t)
        BY <1>3, <3>2 DEF Execute
      <4>2. payer[t] # u
        BY CallAssumption
      <4> QED
        BY <4>1, <4>2 DEF Charged, TypeOK
    <3> QED
      BY <3>1, <3>2
  <2>2. rent' = rent /\ airdropped' = airdropped
    BY <1>3 DEF Execute, history
  <2> QED
    BY <1>1, <2>1, <2>2
<1>4. ASSUME NEW a \in Call \cup Party, CollectRent(a) PROVE lamports'[u] + rent'[u] = airdropped'[u]
  <2>1. PICK due \in 1 .. lamports[a] :
          lamports' = [lamports EXCEPT ![a] = @ - due] /\ rent' = [rent EXCEPT ![a] = @ + due]
    BY <1>4 DEF CollectRent
  <2> QED
    BY <1>1, <1>4, <2>1 DEF CollectRent, TypeOK
<1>5. CASE UNCHANGED vars \/ \E t \in Call : Send(t) \/ Expire(t) \/ Confirm(t)
  BY <1>1, <1>5 DEF vars, Send, Expire, Confirm, history
<1> QED
  BY <1>2, <1>3, <1>4, <1>5 DEF Next, CallNext

LEMMA AccountsNext == TransferInv /\ AccountsInv /\ [Next]_vars => AccountsInv'
<1> SUFFICES ASSUME TransferInv, AccountsInv, [Next]_vars PROVE AccountsInv'
  OBVIOUS
<1>0. TypeOK /\ PartiesAccounted /\ TmpAccounted /\ ConfirmedOk
  BY DEF TransferInv, AccountsInv, BalancesAccounted
<1>1. ConfirmedOk'
  BY <1>0 DEF Next, CallNext, InitAccount, Send, Execute, Expire, Confirm, CollectRent, vars, ConfirmedOk, TypeOK
<1>2. PartiesAccounted'
  <2>1. ASSUME NEW t \in Call, InitAccount(t) PROVE PartiesAccounted'
    <3>1. \A p \in Party : lamports'[p] = lamports[p] /\ rent'[p] = rent[p]
      BY <1>0, <2>1, CallAssumption DEF InitAccount, TypeOK
    <3>2. tx' = tx
      BY <2>1 DEF InitAccount
    <3> QED BY <1>0, <3>1, <3>2, NothingPaid
  <2>2. ASSUME NEW t \in Call, Send(t) \/ Expire(t) \/ Confirm(t) PROVE PartiesAccounted'
    <3>1. \A p \in Party : lamports'[p] = lamports[p] /\ rent'[p] = rent[p]
      BY <2>2 DEF Send, Expire, Confirm, history
    <3>2. \A u \in Call : {tx[u], tx'[u]} \cap {"ok", "error"} # {} => tx'[u] = tx[u]
      BY <1>0, <2>2 DEF Send, Expire, Confirm, TypeOK
    <3> QED BY <1>0, <3>1, <3>2, NothingPaid
  <2>3. ASSUME NEW t \in Call, Execute(t) PROVE PartiesAccounted'
    <3>1. CASE TransactionOk(t)
      <4>1. /\ lamports' = Executed(t) /\ tx' = [tx EXCEPT ![t] = "ok"] /\ tx[t] = "pending"
            /\ rent' = rent
        BY <2>3, <3>1 DEF Execute, Executed, history
      <4>2. \A p \in Party :
              lamports'[p] = lamports[p] + (IF p = receiver[t] THEN amount[t] ELSE 0)
                               - (IF p = payer[t] THEN amount[t] + Fee ELSE 0)
        BY <1>0, <3>1, <4>1, OnePayment
      <4> QED BY <1>0, <4>1, <4>2, OnePaid
    <3>2. CASE ~TransactionOk(t)
      <4>1. /\ lamports' = Charged(lamports, t) /\ tx' = [tx EXCEPT ![t] = "error"] /\ tx[t] = "pending"
            /\ rent' = rent
        BY <2>3, <3>2 DEF Execute, history
      <4>2. \A p \in Party :
              lamports'[p] = lamports[p] + 0 - (IF p = payer[t] THEN 0 + Fee ELSE 0)
        BY <1>0, <4>1, CallAssumption DEF Charged, TypeOK
      <4> QED BY <1>0, <4>1, <4>2, OnePaid
    <3> QED BY <3>1, <3>2
  <2>4. ASSUME NEW a \in Call \cup Party, CollectRent(a) PROVE PartiesAccounted'
    <3>1. PICK due \in 1 .. lamports[a] :
            lamports' = [lamports EXCEPT ![a] = @ - due] /\ rent' = [rent EXCEPT ![a] = @ + due]
      BY <2>4 DEF CollectRent
    <3>2. lamports[a] \in Nat /\ \A p \in Party : lamports[p] \in Nat /\ rent[p] \in Nat
      BY <1>0, CallAssumption DEF TypeOK
    <3>3. \A p \in Party : lamports'[p] + rent'[p] = lamports[p] + rent[p]
      BY <1>0, <3>1, <3>2 DEF TypeOK
    <3>4. tx' = tx
      BY <2>4 DEF CollectRent
    <3> QED BY <1>0, <3>3, <3>4, NothingPaid
  <2>5. CASE UNCHANGED vars
    <3>1. \A p \in Party : lamports'[p] = lamports[p] /\ rent'[p] = rent[p]
      BY <2>5 DEF vars
    <3>2. tx' = tx
      BY <2>5 DEF vars
    <3> QED BY <1>0, <3>1, <3>2, NothingPaid
  <2> QED
    BY <2>1, <2>2, <2>3, <2>4, <2>5 DEF Next, CallNext
<1>3. TmpAccounted'
  BY <1>0, TmpNext
<1> QED
  BY <1>1, <1>2, <1>3 DEF AccountsInv, BalancesAccounted

LEMMA Accounts == Spec => []AccountsInv
BY AccountsInit, AccountsNext, Invariance, PTL DEF Spec

(***************************************************************************)
(* For any number of calls, whatever they share: each party holds what it  *)
(* held at first, changed by the amounts and fees of executed transactions *)
(* and the rent it has paid, and each tmp account what is left of its      *)
(* airdrop (transfer-lamports.ts:24-61, processor.rs:35-42).               *)
(***************************************************************************)
THEOREM Accounted == Spec => []BalancesAccounted
<1>1. AccountsInv => BalancesAccounted
  BY DEF AccountsInv
<1> QED
  BY <1>1, Accounts, PTL

(***************************************************************************)
(* For any number of calls: a receiver has had at least what the calls     *)
(* that returned were to pay it (transfer-lamports.ts:61).                 *)
(***************************************************************************)
THEOREM NothingPromisedOnly == Spec => []ReturnedPaid
<1>1. TransferInv /\ AccountsInv => ReturnedPaid
  <2> SUFFICES ASSUME TransferInv, AccountsInv, NEW p \in Party
               PROVE  lamports[p] + rent[p] + PaidBy(p) >= Initial[p]
                        + SumFunctionOnSet(amount, {t \in Call : pc[t] = "confirmed" /\ receiver[t] = p})
    BY DEF ReturnedPaid
  <2> DEFINE Returned == {t \in Call : pc[t] = "confirmed" /\ receiver[t] = p}
  <2>1. TypeOK /\ PartiesAccounted /\ ConfirmedOk
    BY DEF TransferInv, AccountsInv, BalancesAccounted
  <2>2. Returned \in SUBSET Receiving(p)
    BY <2>1 DEF ConfirmedOk, Receiving
  <2>3. \A t \in Receiving(p) : amount[t] \in Nat
    BY CallAssumption DEF Receiving
  <2>4. /\ IsFiniteSet(Receiving(p)) /\ PaidTo(p) \in Nat
        /\ lamports[p] \in Nat /\ rent[p] \in Nat /\ Initial[p] \in Nat /\ PaidBy(p) \in Nat
    BY <2>1, PaidNaturals
  <2>5. IsFiniteSet(Returned) /\ \A t \in Returned : amount[t] \in Nat
    BY <2>2, <2>3, <2>4, FS_Subset
  <2> HIDE DEF Returned
  <2>6. SumFunctionOnSet(amount, Returned) \in Nat
    BY <2>5, SumType
  <2>7. SumFunctionOnSet(amount, Returned) <= SumFunctionOnSet(amount, Receiving(p))
    BY <2>2, <2>3, <2>4, SumMonotone
  <2>8. PaidTo(p) = SumFunctionOnSet(amount, Receiving(p))
    BY DEF PaidTo, Receiving
  <2>9. lamports[p] + rent[p] + PaidBy(p) = Initial[p] + PaidTo(p)
    BY <2>1 DEF PartiesAccounted
  <2>10. lamports[p] + rent[p] + PaidBy(p) >= Initial[p] + SumFunctionOnSet(amount, Returned)
    BY <2>4, <2>6, <2>7, <2>8, <2>9
  <2> QED
    BY <2>10 DEF Returned
<1> QED
  BY <1>1, Invariance, Accounts, PTL

=============================================================================
