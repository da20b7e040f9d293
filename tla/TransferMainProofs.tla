------------------------- MODULE TransferMainProofs -------------------------
(***************************************************************************)
(* Proofs about the program around transferLamports: what initAccount      *)
(* leaves in an account, and what the test reads after the call, whatever  *)
(* the faucet, the rent and the timeouts do.                               *)
(***************************************************************************)
EXTENDS TransferMain, TransferProofs

MainTypeOK ==
  /\ queue \in {<<payer[call], receiver[call]>>, <<receiver[call]>>, <<>>}
  /\ stage \in {"request", "confirm", "read", "confirmTopUp", "failed"}
  /\ opts \in [Party -> 0 .. U64Max]
  /\ asked \in [Party -> [Kind -> Nat]]
  /\ airdrop \in [Party -> [Kind -> {"none", "pending", "ok", "error", "expired"}]]
  /\ rentRead \in [Party -> Nat]
  /\ \A p \in Party : rentRead[p] <= rent[p]

\* The call is given its parameters before the accounts are made.
OptsInv == opts[payer[call]] \in PayerLamports /\ opts[receiver[call]] = 0

\* What initAccount asks the faucet for at first.
FirstAsked(p) == Larger(opts[p], KeepAlive)

\* The balance an account is to have.
Due(p) == Larger(FirstAsked(p), RentExempt)

\* An account initAccount has not come to.
Untouched(p) ==
  /\ lamports[p] = 0 /\ collected[p] = 0
  /\ airdrop[p]["first"] = "none" /\ airdrop[p]["topUp"] = "none"

\* Until the balance is read there is the first airdrop or nothing, less the
\* rent, which only an account that is not rent exempt pays.
Asking(p) ==
  /\ asked[p]["first"] = FirstAsked(p)
  /\ airdrop[p]["first"] # "none" /\ airdrop[p]["topUp"] = "none"
  /\ airdrop[p]["first"] # "ok" => lamports[p] = 0 /\ collected[p] = 0
  /\ airdrop[p]["first"] = "ok" => lamports[p] + collected[p] = FirstAsked(p)
  /\ collected[p] > 0 => FirstAsked(p) < RentExempt

\* The second airdrop makes up for what the balance that was read lacked.
ToppingUp(p) ==
  /\ airdrop[p]["first"] = "ok" /\ airdrop[p]["topUp"] # "none"
  /\ FirstAsked(p) < RentExempt
  /\ airdrop[p]["topUp"] # "ok" => lamports[p] + collected[p] + asked[p]["topUp"] = RentExempt
  /\ airdrop[p]["topUp"] = "ok" => lamports[p] + collected[p] = RentExempt

\* An account initAccount has returned for, until the call moves lamports.
Ready(p) ==
  /\ airdrop[p]["first"] = "ok" /\ airdrop[p]["topUp"] \in {"none", "ok", "error"}
  /\ airdrop[p]["topUp"] # "none" => FirstAsked(p) < RentExempt
  /\ tx[call] \in {"none", "pending", "expired"} =>
       /\ collected[p] > 0 => FirstAsked(p) < RentExempt
       /\ lamports[p] + collected[p] <= Due(p)
       /\ airdrop[p]["topUp"] # "error" => lamports[p] + collected[p] = Due(p)

AtStage(p) ==
  /\ stage = "request" => Untouched(p)
  /\ stage \in {"confirm", "read"} => Asking(p)
  /\ stage = "read" => airdrop[p]["first"] \in {"ok", "error"}
  /\ stage = "confirmTopUp" => ToppingUp(p)

\* The three times of an account: before, during and after its initAccount.
PartyInv(p) ==
  /\ queue = <<payer[call], receiver[call]>> /\ p = receiver[call] /\ stage # "failed" => Untouched(p)
  /\ Initialising /\ p = account => AtStage(p)
  /\ Initialised(p) => Ready(p)

\* A transaction is sent once.
SentOnce == \A t \in Call : pc[t] \in {"initAccount", "send"} => tx[t] = "none"

\* The inductive invariant of the program; the call starts with the accounts
\* initialised.
MainInv ==
  /\ TransferInv /\ ConfirmedOk /\ SentOnce /\ MainTypeOK /\ OptsInv
  /\ queue # <<>> => tx[call] = "none"
  /\ \A p \in Party : PartyInv(p)

-----------------------------------------------------------------------------

LEMMA Two ==
  /\ call \in Call /\ Call = {call}
  /\ payer[call] \in Party /\ receiver[call] \in Party /\ payer[call] # receiver[call]
  /\ Party = {payer[call], receiver[call]}
  /\ call \notin Party
BY MainAssumption, CallAssumption DEF call

LEMMA Numbers ==
  /\ U64Max \in Nat /\ RentExempt \in Nat /\ Fee \in Nat /\ KeepAlive \in Nat
  /\ KeepAlive <= U64Max /\ amount[call] \in Nat
BY MainAssumption, CallAssumption, Two

LEMMA Queues ==
  ASSUME NEW a, NEW b
  PROVE  /\ Head(<<a, b>>) = a /\ Tail(<<a, b>>) = <<b>>
         /\ Head(<<b>>) = b /\ Tail(<<b>>) = <<>>
         /\ <<a, b>> # <<>> /\ <<b>> # <<>> /\ <<a, b>> # <<b>>
OBVIOUS

\* Whose turn it is, and who has had it.
LEMMA TurnsOf ==
  ASSUME NEW q \in {<<payer[call], receiver[call]>>, <<receiver[call]>>, <<>>}
  PROVE  /\ q # <<>> => Head(q) \in Party
         /\ (\E i \in DOMAIN q : q[i] = payer[call]) <=> q = <<payer[call], receiver[call]>>
         /\ (\E i \in DOMAIN q : q[i] = receiver[call]) <=> q # <<>>
         /\ q = <<payer[call], receiver[call]>> => Head(q) = payer[call]
         /\ q = <<receiver[call]>> => Head(q) = receiver[call]
<1> DEFINE x == payer[call]
           y == receiver[call]
<1>1. x \in Party /\ y \in Party /\ x # y
  BY Two
<1>2. q \in {<<x, y>>, <<y>>, <<>>}
  OBVIOUS
<1> HIDE DEF x, y
<1>3. CASE q = <<x, y>>
  <2>1. q[1] = x /\ q[2] = y /\ DOMAIN q = {1, 2}
    BY <1>3
  <2>2. Head(q) = x /\ q # <<>> /\ q # <<y>>
    BY <1>3, Queues
  <2> QED BY <1>1, <1>3, <2>1, <2>2 DEF x, y
<1>4. CASE q = <<y>>
  <2>1. q[1] = y /\ DOMAIN q = {1}
    BY <1>4
  <2>2. Head(q) = y /\ q # <<>> /\ q # <<x, y>>
    BY <1>4, Queues
  <2> QED BY <1>1, <1>4, <2>1, <2>2 DEF x, y
<1>5. CASE q = <<>>
  <2>1. DOMAIN q = {}
    BY <1>5
  <2>2. q # <<x, y>> /\ q # <<y>>
    BY <1>5, Queues
  <2> QED BY <1>1, <1>5, <2>1, <2>2 DEF x, y
<1> QED
  BY <1>2, <1>3, <1>4, <1>5

LEMMA Turns ==
  ASSUME MainTypeOK
  PROVE  /\ Initialising => account \in Party
         /\ Initialised(payer[call]) <=> queue # <<payer[call], receiver[call]>>
         /\ Initialised(receiver[call]) <=> queue = <<>>
         /\ queue = <<payer[call], receiver[call]>> => account = payer[call]
         /\ queue = <<receiver[call]>> => account = receiver[call]
<1>1. queue \in {<<payer[call], receiver[call]>>, <<receiver[call]>>, <<>>}
  BY DEF MainTypeOK
<1> QED
  BY <1>1, TurnsOf DEF Initialising, Initialised, account

LEMMA TurnsNext ==
  ASSUME MainTypeOK'
  PROVE  /\ Initialised(payer[call])' <=> queue' # <<payer[call], receiver[call]>>
         /\ Initialised(receiver[call])' <=> queue' = <<>>
         /\ queue' = <<receiver[call]>> => account' = receiver[call]
<1>1. queue' \in {<<payer[call], receiver[call]>>, <<receiver[call]>>, <<>>}
  BY DEF MainTypeOK
<1> QED
  BY <1>1, TurnsOf DEF Initialised, account

LEMMA OwnTurn ==
  ASSUME MainTypeOK, Initialising
  PROVE  ~ Initialised(account)
<1>1. queue \in {<<payer[call], receiver[call]>>, <<receiver[call]>>}
  BY DEF MainTypeOK, Initialising
<1> QED
  BY <1>1, Turns, Two, Queues

\* The next account: the present one is initialised, the next one has its turn.
LEMMA Turn ==
  ASSUME MainTypeOK, Initialising, NextAccount
  PROVE  /\ queue' \in {<<receiver[call]>>, <<>>} /\ stage' = "request"
         /\ queue = <<payer[call], receiver[call]>> => queue' = <<receiver[call]>>
         /\ queue = <<receiver[call]>> => queue' = <<>>
BY Queues DEF MainTypeOK, Initialising, NextAccount

LEMMA MainInitial == MainInit => MainInv
<1> SUFFICES ASSUME MainInit PROVE MainInv
  OBVIOUS
<1> DEFINE x == payer[call]
           y == receiver[call]
<1>1. x \in Party /\ y \in Party /\ x # y /\ Party = {x, y} /\ call \in Call
  BY Two
<1>2. TransferInv /\ ConfirmedOk /\ SentOnce
  BY InitInv DEF MainInit, Init, ConfirmedOk, SentOnce
<1>3. MainTypeOK
  BY Numbers, MainAssumption DEF MainInit, Init, MainTypeOK, Kind
<1>4. OptsInv
  BY <1>1 DEF MainInit, OptsInv
<1>5. tx[call] = "none"
  BY <1>1 DEF MainInit, Init
<1>6. queue = <<x, y>> /\ stage = "request"
  BY DEF MainInit
<1>7. \A p \in Party : Untouched(p)
  BY <1>1, MainAssumption DEF MainInit, Init, Untouched, collected, Kind
<1>8. Initialised(x) = FALSE /\ Initialised(y) = FALSE
  BY <1>3, <1>6, Turns, Queues
<1>9. ASSUME NEW p \in Party PROVE PartyInv(p)
  BY <1>1, <1>6, <1>7, <1>8 DEF PartyInv, AtStage
<1> QED
  BY <1>2, <1>3, <1>4, <1>5, <1>9 DEF MainInv

\* What an account's part of the invariant is about.
SameFor(p) ==
  /\ lamports'[p] = lamports[p] /\ collected'[p] = collected[p]
  /\ airdrop'[p] = airdrop[p] /\ asked'[p] = asked[p] /\ opts' = opts /\ tx' = tx

LEMMA SameParts ==
  ASSUME NEW p \in Party, SameFor(p)
  PROVE  /\ Untouched(p) => Untouched(p)'
         /\ Asking(p) => Asking(p)'
         /\ ToppingUp(p) => ToppingUp(p)'
         /\ Ready(p) => Ready(p)'
BY DEF SameFor, Untouched, Asking, ToppingUp, Ready, FirstAsked, Due, Larger

\* What an account has paid since it was read goes by what it has paid.
LEMMA Collected ==
  ASSUME MainInv, NEW p \in Party
  PROVE  /\ collected[p] = rent[p] - rentRead[p] /\ collected[p] \in Nat
         /\ rent[p] \in Nat /\ rentRead[p] \in Nat
         /\ collected'[p] = rent'[p] - rentRead'[p]
BY DEF collected, MainInv, MainTypeOK, TransferInv, TypeOK

\* The other account does not notice an account's turn.
LEMMA OtherParty ==
  ASSUME MainTypeOK, MainTypeOK', Initialising, NEW p \in Party, p # account, PartyInv(p),
         SameFor(p), UNCHANGED queue
  PROVE  PartyInv(p)'
<1>1. account' = account /\ (Initialised(p)' <=> Initialised(p))
  BY DEF account, Initialised
<1>2. Initialising /\ stage # "failed"
  BY DEF Initialising
<1> QED
  BY <1>1, <1>2, SameParts DEF PartyInv

\* What the client does before the call leaves the cluster's part alone.
LEMMA CallWaits ==
  ASSUME MainInv, UNCHANGED <<vars, opts>>
  PROVE  /\ TransferInv' /\ ConfirmedOk' /\ SentOnce' /\ OptsInv'
         /\ tx' = tx /\ lamports' = lamports
         /\ queue # <<>> => tx[call]' = "none"
BY DEF MainInv, vars, TransferInv, TypeOK, TmpUnfunded, ConfirmedOk, SentOnce, OptsInv

\* A step of an account's turn that does not end it.
LEMMA TurnGoesOn ==
  ASSUME MainInv, MainTypeOK', Initialising, UNCHANGED <<vars, opts, queue>>,
         \A p \in Party : p # account => SameFor(p),
         \A p \in Party : p = account => PartyInv(p)'
  PROVE  MainInv'
<1>1. \A p \in Party : PartyInv(p)'
  <2>1. MainTypeOK /\ (\A p \in Party : PartyInv(p)) /\ UNCHANGED queue
    BY DEF MainInv
  <2> QED BY <2>1, OtherParty
<1> QED
  BY <1>1, CallWaits DEF MainInv, Initialising

LEMMA RequestStep == MainInv /\ RequestAirdrop => MainInv'
<1> SUFFICES ASSUME MainInv, RequestAirdrop PROVE MainInv'
  OBVIOUS
<1> DEFINE a == account
<1>1. /\ MainTypeOK /\ Initialising /\ stage = "request" /\ stage' = "confirm"
      /\ Request("first", FirstAsked(a)) /\ UNCHANGED <<vars, queue, opts, rentRead>>
  BY DEF MainInv, RequestAirdrop, FirstAsked
<1>2. a \in Party /\ PartyInv(a)
  BY <1>1, Turns DEF MainInv
<1>3. Untouched(a)
  BY <1>1, <1>2 DEF PartyInv, AtStage
<1>4. a' = a
  BY <1>1 DEF account
<1>5. FirstAsked(a) \in Nat /\ FirstAsked(a)' = FirstAsked(a)
  BY <1>1, <1>2, <1>4, Numbers DEF FirstAsked, Larger, MainTypeOK
<1>6. MainTypeOK'
  BY <1>1, <1>2, <1>5 DEF MainTypeOK, vars, Request, Kind
<1>7. /\ asked'[a]["first"] = FirstAsked(a) /\ airdrop'[a]["first"] = "pending"
      /\ airdrop'[a]["topUp"] = "none"
  BY <1>1, <1>2, <1>3 DEF MainTypeOK, Request, Kind, Untouched
<1>8. \A p \in Party : p # a => SameFor(p)
  BY <1>1 DEF Request, SameFor, collected, vars, MainTypeOK
<1>9. lamports'[a] = 0 /\ collected'[a] = 0
  BY <1>1, <1>3 DEF vars, collected, Untouched
<1>10. ASSUME NEW p \in Party, p = a PROVE PartyInv(p)'
  <2>1. Asking(p)'
    BY <1>4, <1>5, <1>7, <1>9, <1>10 DEF Asking, FirstAsked
  <2>2. AtStage(p)'
    BY <1>1, <2>1 DEF AtStage
  <2>3. ~ Initialised(p)
    BY <1>1, <1>10, OwnTurn
  <2>4. ~ Initialised(p)'
    BY <1>1, <2>3 DEF Initialised
  <2>5. p = receiver[call] => queue' # <<payer[call], receiver[call]>>
    BY <1>1, <1>10, Turns, Two
  <2> QED BY <2>2, <2>4, <2>5 DEF PartyInv
<1> QED
  BY <1>1, <1>6, <1>8, <1>10, TurnGoesOn

\* The end of an account's turn: it is ready, and the next one has its turn.
LEMMA TurnEnds ==
  ASSUME MainInv, MainTypeOK', Initialising, NextAccount, UNCHANGED <<vars, opts>>,
         \A p \in Party : p # account => SameFor(p),
         \A p \in Party : p = account => Ready(p)'
  PROVE  MainInv'
<1> DEFINE x == payer[call]
           y == receiver[call]
<1>1. MainTypeOK /\ stage # "failed" /\ \A p \in Party : PartyInv(p)
  BY DEF MainInv, Initialising
<1>2. /\ queue' \in {<<y>>, <<>>} /\ stage' = "request"
      /\ queue = <<x, y>> => queue' = <<y>>
      /\ queue = <<y>> => queue' = <<>>
  BY <1>1, Turn
<1>3. queue \in {<<x, y>>, <<y>>}
  BY <1>1 DEF MainTypeOK, Initialising
<1>4. /\ queue = <<x, y>> => account = x
      /\ queue = <<y>> => account = y
      /\ Initialised(x) <=> queue # <<x, y>>
  BY <1>1, Turns
<1>5. /\ Initialised(x)' <=> queue' # <<x, y>>
      /\ Initialised(y)' <=> queue' = <<>>
      /\ queue' = <<y>> => account' = y
      /\ Initialising' => queue' # <<>>
  BY TurnsNext DEF Initialising
<1>6. /\ x \in Party /\ y \in Party /\ x # y /\ Party = {x, y}
      /\ <<x, y>> # <<y>> /\ <<x, y>> # <<>> /\ <<y>> # <<>>
  BY Two, Queues
<1> HIDE DEF x, y
<1>7. PartyInv(x)'
  <2>1. Ready(x)'
    <3>1. CASE queue = <<x, y>>
      BY <1>4, <1>6, <3>1
    <3>2. CASE queue = <<y>>
      BY <1>1, <1>4, <1>6, <3>2, SameParts DEF PartyInv
    <3> QED BY <1>3, <3>1, <3>2
  <2> QED BY <1>2, <1>5, <1>6, <2>1 DEF PartyInv, x, y
<1>8. PartyInv(y)'
  <2>1. CASE queue = <<x, y>>
    <3>1. Untouched(y)'
      BY <1>1, <1>4, <1>6, <2>1, SameParts DEF PartyInv, x, y
    <3>2. AtStage(y)'
      BY <1>2, <3>1 DEF AtStage
    <3> QED BY <1>2, <1>5, <1>6, <2>1, <3>1, <3>2 DEF PartyInv
  <2>2. CASE queue = <<y>>
    <3>1. Ready(y)'
      BY <1>4, <1>6, <2>2
    <3> QED BY <1>2, <1>5, <1>6, <2>2, <3>1 DEF PartyInv, x, y
  <2> QED BY <1>3, <2>1, <2>2
<1> QED
  BY <1>6, <1>7, <1>8, CallWaits DEF MainInv, Initialising

LEMMA ConfirmStep == MainInv /\ ConfirmAirdrop => MainInv'
<1> SUFFICES ASSUME MainInv, ConfirmAirdrop PROVE MainInv'
  OBVIOUS
<1> DEFINE a == account
<1>1. /\ MainTypeOK /\ Initialising /\ UNCHANGED <<vars, opts, asked, airdrop, rentRead>>
  BY DEF MainInv, ConfirmAirdrop
<1>2. a \in Party /\ PartyInv(a)
  BY <1>1, Turns DEF MainInv
<1>3. AtStage(a)
  BY <1>1, <1>2 DEF PartyInv
<1>4. \A p \in Party : SameFor(p)
  BY <1>1 DEF SameFor, collected, vars
<1>5. CASE stage = "confirm" /\ airdrop[a]["first"] \in {"ok", "error"} /\ stage' = "read" /\ UNCHANGED queue
  <2>1. MainTypeOK'
    BY <1>1, <1>5 DEF MainTypeOK, vars
  <2>2. ASSUME NEW p \in Party, p = a PROVE PartyInv(p)'
    <3>1. AtStage(p)'
      BY <1>1, <1>3, <1>4, <1>5, <2>2, SameParts DEF AtStage
    <3>2. ~ Initialised(p)'
      BY <1>1, <1>5, <2>2, OwnTurn DEF Initialised
    <3>3. p = receiver[call] => queue' # <<payer[call], receiver[call]>>
      BY <1>1, <1>5, <2>2, Turns, Two
    <3> QED BY <3>1, <3>2, <3>3 DEF PartyInv
  <2> QED BY <1>1, <1>4, <1>5, <2>1, <2>2, TurnGoesOn
<1>6. CASE stage = "confirmTopUp" /\ airdrop[a]["topUp"] \in {"ok", "error"} /\ NextAccount
  <2>1. MainTypeOK'
    BY <1>1, <1>6, Turn DEF MainTypeOK, vars
  <2>2. ToppingUp(a)
    BY <1>3, <1>6 DEF AtStage
  <2>3. FirstAsked(a) \in Nat /\ RentExempt \in Nat /\ lamports[a] \in Nat /\ collected[a] \in Nat
        /\ asked[a]["topUp"] \in Nat
    BY <1>1, <1>2, Numbers, Collected DEF FirstAsked, Larger, MainTypeOK, MainInv, TransferInv, TypeOK, Kind
  <2>4. Due(a) = RentExempt
    BY <2>2, <2>3 DEF ToppingUp, Due, Larger
  <2>5. Ready(a)
    BY <1>6, <2>2, <2>3, <2>4 DEF Ready, ToppingUp
  <2>6. \A p \in Party : p = a => Ready(p)'
    BY <1>4, <2>5, SameParts
  <2> QED BY <1>1, <1>4, <1>6, <2>1, <2>6, TurnEnds
<1> QED
  BY <1>5, <1>6 DEF ConfirmAirdrop

LEMMA GiveUpStep == MainInv /\ GiveUp => MainInv'
<1> SUFFICES ASSUME MainInv, GiveUp PROVE MainInv'
  OBVIOUS
<1>1. /\ MainTypeOK /\ Initialising /\ stage' = "failed" /\ queue' = queue
      /\ UNCHANGED <<vars, queue, opts, asked, airdrop, rentRead>>
  BY DEF MainInv, GiveUp
<1>2. MainTypeOK'
  BY <1>1 DEF MainTypeOK, vars
<1>3. ASSUME NEW p \in Party PROVE PartyInv(p)'
  <2>1. SameFor(p)
    BY <1>1 DEF SameFor, collected, vars
  <2>2. Initialised(p)' => Ready(p)'
    BY <1>1, <2>1, SameParts DEF Initialised, MainInv, PartyInv
  <2> QED BY <1>1, <2>2 DEF PartyInv, Initialising
<1> QED
  BY <1>1, <1>2, <1>3, CallWaits DEF MainInv, Initialising

LEMMA Amounts ==
  ASSUME MainInv, NEW p \in Party
  PROVE  /\ lamports[p] \in Nat /\ collected[p] \in Nat /\ FirstAsked(p) \in Nat /\ RentExempt \in Nat
         /\ asked[p]["first"] \in Nat /\ asked[p]["topUp"] \in Nat
         /\ lamports[p] <= U64Max /\ U64Max \in Nat
BY Numbers, Collected DEF FirstAsked, Larger, MainTypeOK, MainInv, TransferInv, TypeOK, Kind

LEMMA MakeStep == MainInv /\ MakeAccountRentExempt => MainInv'
<1> SUFFICES ASSUME MainInv, MakeAccountRentExempt PROVE MainInv'
  OBVIOUS
<1> DEFINE a == account
<1>1. /\ MainTypeOK /\ Initialising /\ stage = "read" /\ UNCHANGED <<vars, opts>>
      /\ rentRead' = [rentRead EXCEPT ![a] = rent[a]]
  BY DEF MainInv, MakeAccountRentExempt
<1>2. a \in Party /\ PartyInv(a)
  BY <1>1, Turns DEF MainInv
<1>3. Asking(a) /\ airdrop[a]["first"] \in {"ok", "error"}
  BY <1>1, <1>2 DEF PartyInv, AtStage
<1>4. /\ collected'[a] = 0
      /\ \A p \in Party : p # a => collected'[p] = collected[p]
      /\ rentRead' \in [Party -> Nat] /\ \A p \in Party : rentRead'[p] <= rent'[p]
  <2>1. rent' = rent /\ rent[a] \in Nat
    BY <1>1, <1>2, Collected DEF vars
  <2>2. rentRead'[a] = rent[a] /\ \A p \in Party : p # a => rentRead'[p] = rentRead[p]
    BY <1>1, <1>2 DEF MainTypeOK
  <2>3. rentRead' \in [Party -> Nat] /\ \A p \in Party : rentRead'[p] <= rent'[p]
    BY <1>1, <1>2, <2>1, <2>2 DEF MainTypeOK
  <2> QED
    BY <1>1, <1>2, <2>1, <2>2, <2>3 DEF collected
<1>5. /\ lamports[a] \in Nat /\ collected[a] \in Nat /\ FirstAsked(a) \in Nat /\ RentExempt \in Nat
  BY <1>2, Amounts
<1>6. lamports' = lamports /\ tx' = tx /\ opts' = opts
  BY <1>1 DEF vars
<1>7. CASE lamports[a] = 0 /\ stage' = "failed" /\ UNCHANGED <<queue, asked, airdrop>>
  <2>1. MainTypeOK'
    BY <1>1, <1>4, <1>7 DEF MainTypeOK
  <2>2. \A p \in Party : p # a => SameFor(p)
    BY <1>4, <1>6, <1>7 DEF SameFor
  <2>3. ASSUME NEW p \in Party, p = a PROVE PartyInv(p)'
    BY <1>1, <1>7, <2>3, OwnTurn DEF PartyInv, Initialising, Initialised
  <2> QED BY <1>1, <1>7, <2>1, <2>2, <2>3, TurnGoesOn
<1>8. CASE lamports[a] > 0 /\ Needed(lamports[a]) = 0 /\ NextAccount /\ UNCHANGED <<asked, airdrop>>
  <2>1. MainTypeOK'
    BY <1>1, <1>4, <1>8, Turn DEF MainTypeOK
  <2>2. \A p \in Party : p # a => SameFor(p)
    BY <1>4, <1>6, <1>8 DEF SameFor
  <2>3. lamports[a] >= RentExempt
    BY <1>5, <1>8 DEF Needed
  <2>4. /\ airdrop[a]["first"] = "ok" /\ airdrop[a]["topUp"] = "none"
        /\ lamports[a] = FirstAsked(a) /\ Due(a) = lamports[a]
    BY <1>3, <1>5, <1>8, <2>3 DEF Asking, Due, Larger
  <2>5. ASSUME NEW p \in Party, p = a PROVE Ready(p)'
    <3>1. Due(p)' = Due(p)
      BY <1>6 DEF Due, FirstAsked, Larger
    <3>2. lamports'[p] + collected'[p] = Due(p)
      BY <1>4, <1>5, <1>6, <2>4, <2>5
    <3> QED BY <1>4, <1>5, <1>6, <1>8, <2>4, <2>5, <3>1, <3>2 DEF Ready
  <2> QED BY <1>1, <1>8, <2>1, <2>2, <2>5, TurnEnds
<1>9. CASE /\ lamports[a] > 0 /\ Needed(lamports[a]) > 0
           /\ Request("topUp", Needed(lamports[a])) /\ stage' = "confirmTopUp" /\ UNCHANGED queue
  <2>1. lamports[a] < RentExempt /\ Needed(lamports[a]) = RentExempt - lamports[a]
    BY <1>5, <1>9 DEF Needed
  <2>2. Needed(lamports[a]) \in Nat
    BY <1>5, <2>1
  <2>3. MainTypeOK'
    BY <1>1, <1>2, <1>4, <1>9, <2>2 DEF MainTypeOK, Request, Kind
  <2>4. \A p \in Party : p # a => SameFor(p)
    BY <1>1, <1>4, <1>6, <1>9 DEF SameFor, Request, MainTypeOK
  <2>5. /\ asked'[a]["topUp"] = RentExempt - lamports[a]
        /\ airdrop'[a]["first"] = airdrop[a]["first"] /\ airdrop'[a]["topUp"] = "pending"
    BY <1>1, <1>2, <1>9, <2>1 DEF MainTypeOK, Request, Kind
  <2>6. airdrop[a]["first"] = "ok" /\ FirstAsked(a) < RentExempt
    BY <1>3, <1>5, <1>9, <2>1 DEF Asking
  <2>7. ASSUME NEW p \in Party, p = a PROVE PartyInv(p)'
    <3>1. ToppingUp(p)'
      BY <1>4, <1>5, <1>6, <2>5, <2>6, <2>7 DEF ToppingUp, FirstAsked, Larger
    <3>2. ~ Initialised(p)'
      BY <1>1, <1>9, <2>7, OwnTurn DEF Initialised
    <3>3. p = receiver[call] => queue' # <<payer[call], receiver[call]>>
      BY <1>1, <1>9, <2>7, Turns, Two
    <3> QED BY <1>9, <3>1, <3>2, <3>3 DEF PartyInv, AtStage
  <2> QED BY <1>1, <1>9, <2>3, <2>4, <2>7, TurnGoesOn
<1> QED
  BY <1>7, <1>8, <1>9 DEF MakeAccountRentExempt

\* A step of the faucet or the rent collector is about one account.
LEMMA Behind ==
  ASSUME MainInv, MainTypeOK', UNCHANGED <<owner, tx, pc, queue, stage, opts, asked>>, NEW p \in Party,
         lamports' = [lamports EXCEPT ![p] = lamports'[p]], lamports'[p] \in 0 .. U64Max,
         airdropped' = airdropped, rent' \in [Call \cup Party -> Nat],
         \A q \in Party : q # p => airdrop'[q] = airdrop[q] /\ collected'[q] = collected[q],
         Initialising /\ p = account => AtStage(p)',
         Initialised(p) => Ready(p)',
         ~ Untouched(p)
  PROVE  MainInv'
<1>1. p \notin Call
  BY CallAssumption
<1>2. TransferInv' /\ ConfirmedOk' /\ SentOnce' /\ OptsInv'
  BY <1>1, CallAssumption DEF MainInv, TransferInv, TypeOK, TmpUnfunded, ConfirmedOk, SentOnce, OptsInv
<1>3. account' = account /\ Initialising' = Initialising /\ \A q \in Party : Initialised(q)' <=> Initialised(q)
  BY DEF account, Initialising, Initialised
<1>4. PartyInv(p)'
  BY <1>3 DEF MainInv, PartyInv
<1>5. ASSUME NEW q \in Party, q # p PROVE PartyInv(q)'
  <2>1. SameFor(q)
    BY <1>5 DEF SameFor, MainInv, TransferInv, TypeOK
  <2>2. AtStage(q) => AtStage(q)'
    BY <2>1, SameParts DEF AtStage, SameFor
  <2> QED BY <1>3, <2>1, <2>2, SameParts DEF MainInv, PartyInv
<1> QED
  BY <1>2, <1>4, <1>5 DEF MainInv

LEMMA ExecuteAirdropStep == ASSUME MainInv, NEW p \in Party, NEW k \in Kind, ExecuteAirdrop(p, k) PROVE MainInv'
<1>1. /\ MainTypeOK /\ PartyInv(p) /\ airdrop[p][k] = "pending"
      /\ UNCHANGED <<owner, tx, pc, history, queue, stage, opts, asked, rentRead>>
  BY DEF MainInv, ExecuteAirdrop
<1>2. /\ lamports[p] \in Nat /\ collected[p] \in Nat /\ FirstAsked(p) \in Nat /\ RentExempt \in Nat
      /\ asked[p][k] \in Nat /\ lamports[p] <= U64Max /\ U64Max \in Nat
  BY Amounts DEF Kind
<1>3. lamports \in [Call \cup Party -> 0 .. U64Max]
  BY DEF MainInv, TransferInv, TypeOK
<1>4. PICK result \in {"ok", "error"} :
        /\ airdrop' = [airdrop EXCEPT ![p][k] = result]
        /\ lamports' = [lamports EXCEPT ![p] = lamports'[p]]
        /\ lamports'[p] \in 0 .. U64Max
        /\ lamports'[p] = lamports[p] + (IF result = "ok" THEN asked[p][k] ELSE 0)
  BY <1>2, <1>3 DEF ExecuteAirdrop
<1>5. MainTypeOK'
  BY <1>1, <1>4 DEF MainTypeOK, history
<1>6. /\ airdrop'[p][k] = result
      /\ \A j \in Kind : j # k => airdrop'[p][j] = airdrop[p][j]
      /\ \A q \in Party : q # p => airdrop'[q] = airdrop[q] /\ collected'[q] = collected[q]
      /\ collected'[p] = collected[p] /\ asked' = asked
      /\ FirstAsked(p)' = FirstAsked(p)
      /\ airdropped' = airdropped /\ rent' \in [Call \cup Party -> Nat]
  <2>1. UNCHANGED <<airdropped, rent, rentRead, asked, opts>>
    BY <1>1 DEF history
  <2> QED
    BY <1>1, <1>4, <2>1 DEF MainTypeOK, MainInv, TransferInv, TypeOK, FirstAsked, Larger, collected
<1>7. ~ Untouched(p) /\ ~ Ready(p) /\ k \in {"first", "topUp"} /\ "first" \in Kind /\ "topUp" \in Kind
  BY <1>1 DEF Untouched, Ready, Kind
<1>8. ASSUME Initialising, p = account PROVE AtStage(p)'
  <2>1. AtStage(p)
    BY <1>1, <1>8 DEF PartyInv
  <2>2. CASE stage = "confirm"
    <3>1. Asking(p) /\ k = "first"
      BY <1>1, <1>7, <2>1, <2>2 DEF AtStage, Asking
    <3>2. Asking(p)'
      BY <1>2, <1>4, <1>6, <1>7, <1>1, <3>1 DEF Asking
    <3> QED BY <1>1, <2>2, <3>2 DEF AtStage
  <2>3. CASE stage = "confirmTopUp"
    <3>1. ToppingUp(p) /\ k = "topUp"
      BY <1>1, <1>7, <2>1, <2>3 DEF AtStage, ToppingUp
    <3>2. ToppingUp(p)'
      BY <1>2, <1>4, <1>6, <1>7, <1>1, <3>1 DEF ToppingUp
    <3> QED BY <1>1, <2>3, <3>2 DEF AtStage
  <2>4. CASE stage \in {"request", "read"}
    BY <1>1, <1>7, <2>1, <2>4 DEF AtStage, Asking
  <2> QED BY <1>8, <2>2, <2>3, <2>4, <1>1 DEF MainTypeOK, Initialising
<1> QED
  BY <1>1, <1>4, <1>5, <1>6, <1>7, <1>8, Behind DEF PartyInv

LEMMA ExpireAirdropStep == ASSUME MainInv, NEW p \in Party, NEW k \in Kind, ExpireAirdrop(p, k) PROVE MainInv'
<1>1. /\ MainTypeOK /\ PartyInv(p) /\ airdrop[p][k] = "pending"
      /\ airdrop' = [airdrop EXCEPT ![p][k] = "expired"]
      /\ UNCHANGED <<lamports, owner, tx, pc, history, queue, stage, opts, asked, rentRead>>
  BY DEF MainInv, ExpireAirdrop, vars, history
<1>2. MainTypeOK'
  BY <1>1 DEF MainTypeOK, history
<1>3. lamports' = [lamports EXCEPT ![p] = lamports'[p]] /\ lamports'[p] \in 0 .. U64Max
  BY <1>1 DEF MainInv, TransferInv, TypeOK
<1>4. /\ airdrop'[p][k] = "expired"
      /\ \A j \in Kind : j # k => airdrop'[p][j] = airdrop[p][j]
      /\ \A q \in Party : q # p => airdrop'[q] = airdrop[q] /\ collected'[q] = collected[q]
      /\ FirstAsked(p)' = FirstAsked(p) /\ collected'[p] = collected[p]
      /\ airdropped' = airdropped /\ rent' \in [Call \cup Party -> Nat]
  <2>1. UNCHANGED <<airdropped, rent, rentRead, asked, opts>>
    BY <1>1 DEF history
  <2> QED
    BY <1>1, <2>1 DEF MainTypeOK, MainInv, TransferInv, TypeOK, FirstAsked, Larger, collected
<1>5. ~ Untouched(p) /\ ~ Ready(p) /\ k \in {"first", "topUp"} /\ "first" \in Kind /\ "topUp" \in Kind
  BY <1>1 DEF Untouched, Ready, Kind
<1>6. ASSUME Initialising, p = account PROVE AtStage(p)'
  <2>1. AtStage(p)
    BY <1>1, <1>6 DEF PartyInv
  <2>2. stage # "request"
    BY <1>5, <2>1 DEF AtStage
  <2>3. Asking(p) => Asking(p)'
    BY <1>1, <1>4, <1>5 DEF Asking
  <2>4. ToppingUp(p) => ToppingUp(p)'
    BY <1>1, <1>4, <1>5 DEF ToppingUp
  <2>5. stage # "read"
    BY <1>1, <1>5, <2>1 DEF AtStage, Asking
  <2> QED BY <1>1, <2>1, <2>2, <2>3, <2>4, <2>5 DEF AtStage
<1> QED
  BY <1>1, <1>2, <1>3, <1>4, <1>5, <1>6, Behind DEF PartyInv

LEMMA RentStep ==
  ASSUME MainInv, NEW p \in Party, CollectRent(p), UNCHANGED mainVars
  PROVE  MainInv'
<1>1. /\ MainTypeOK /\ PartyInv(p) /\ 0 < lamports[p] /\ lamports[p] < RentExempt
      /\ UNCHANGED <<owner, tx, pc, airdropped, queue, stage, opts, asked, airdrop, rentRead>>
  BY Amounts DEF MainInv, CollectRent, mainVars
<1>2. PICK due \in 1 .. lamports[p] :
        /\ lamports' = [lamports EXCEPT ![p] = @ - due]
        /\ rent' = [rent EXCEPT ![p] = @ + due]
  BY DEF CollectRent
<1>3. /\ lamports[p] \in Nat /\ collected[p] \in Nat /\ FirstAsked(p) \in Nat /\ RentExempt \in Nat
      /\ asked[p]["topUp"] \in Nat /\ lamports[p] <= U64Max /\ U64Max \in Nat /\ due \in Nat
  BY Amounts, <1>2
<1>4. lamports \in [Call \cup Party -> 0 .. U64Max] /\ rent \in [Call \cup Party -> Nat]
  BY DEF MainInv, TransferInv, TypeOK
<1>5. /\ lamports'[p] = lamports[p] - due /\ collected'[p] = collected[p] + due
      /\ lamports' = [lamports EXCEPT ![p] = lamports'[p]] /\ lamports'[p] \in 0 .. U64Max
      /\ lamports'[p] + collected'[p] = lamports[p] + collected[p]
      /\ \A q \in Party : q # p => airdrop'[q] = airdrop[q] /\ collected'[q] = collected[q]
      /\ FirstAsked(p)' = FirstAsked(p) /\ Due(p)' = Due(p)
  <2>1. /\ lamports'[p] = lamports[p] - due /\ rent'[p] = rent[p] + due
        /\ \A q \in Party : q # p => rent'[q] = rent[q]
    BY <1>2, <1>4
  <2>2. FirstAsked(p)' = FirstAsked(p) /\ Due(p)' = Due(p)
    BY <1>1 DEF FirstAsked, Due, Larger
  <2>3. collected'[p] = collected[p] + due
    BY <1>1, <1>3, <2>1, Collected
  <2>4. \A q \in Party : q # p => airdrop'[q] = airdrop[q] /\ collected'[q] = collected[q]
    BY <1>1, <2>1, Collected
  <2>5. lamports' = [lamports EXCEPT ![p] = lamports'[p]]
    BY <1>2, <1>4, <2>1
  <2>6. due <= lamports[p]
    BY <1>2, <1>3
  <2> QED BY <1>3, <2>1, <2>2, <2>3, <2>4, <2>5, <2>6
<1>6. MainTypeOK' /\ rent' \in [Call \cup Party -> Nat]
  <2>1. rent' \in [Call \cup Party -> Nat] /\ \A q \in Party : rent[q] <= rent'[q]
    BY <1>2, <1>3, <1>4
  <2>2. \A q \in Party : rentRead'[q] <= rent'[q]
    BY <1>1, <2>1, Collected DEF MainTypeOK
  <2> QED BY <1>1, <2>1, <2>2 DEF MainTypeOK
<1>7. ~ Untouched(p)
  BY <1>1, <1>3 DEF Untouched
<1>8. Asking(p) => Asking(p)'
  <2> SUFFICES ASSUME Asking(p) PROVE Asking(p)'
    OBVIOUS
  <2>1. airdrop[p]["first"] = "ok" /\ FirstAsked(p) < RentExempt
    BY <1>1, <1>3 DEF Asking
  <2> QED BY <1>1, <1>3, <1>5, <2>1 DEF Asking
<1>9. ToppingUp(p) => ToppingUp(p)'
  BY <1>1, <1>3, <1>5 DEF ToppingUp
<1>10. Ready(p) => Ready(p)'
  <2> SUFFICES ASSUME Ready(p) PROVE Ready(p)'
    OBVIOUS
  <2>1. Due(p) \in Nat /\ (FirstAsked(p) >= RentExempt => Due(p) = FirstAsked(p))
    BY <1>3 DEF Due, Larger
  <2>2. ASSUME tx[call] \in {"none", "pending", "expired"} PROVE FirstAsked(p) < RentExempt
    BY <1>1, <1>3, <2>1, <2>2 DEF Ready
  <2> QED BY <1>1, <1>5, <2>2 DEF Ready
<1>11. AtStage(p) => AtStage(p)'
  BY <1>1, <1>7, <1>8, <1>9 DEF AtStage
<1> QED
  BY <1>1, <1>5, <1>6, <1>7, <1>10, <1>11, Behind DEF PartyInv

\* The call and what the cluster does for it.
LEMMA CallStep ==
  ASSUME MainInv, queue = <<>>, CallNext, UNCHANGED mainVars
  PROVE  MainInv'
<1>1. /\ TypeOK /\ ConfirmedOk /\ SentOnce /\ MainTypeOK
      /\ UNCHANGED <<queue, stage, opts, asked, airdrop, rentRead>>
  BY DEF MainInv, TransferInv, mainVars
<1>2. TransferInv'
  BY NextInv DEF MainInv, Next
<1>3. PICK t \in Call :
        InitAccount(t) \/ Send(t) \/ Execute(t) \/ Expire(t) \/ Confirm(t) \/ CollectRent(t)
  BY DEF CallNext
<1>7. \A p \in Party : rent'[p] = rent[p]
  BY <1>1, <1>3, CallAssumption
     DEF InitAccount, Send, Execute, Expire, Confirm, CollectRent, history, TypeOK
<1>8. ConfirmedOk'
  BY <1>1, <1>3 DEF InitAccount, Send, Execute, Expire, Confirm, CollectRent, ConfirmedOk, TypeOK
<1>9. SentOnce'
  BY <1>1, <1>3 DEF InitAccount, Send, Execute, Expire, Confirm, CollectRent, SentOnce, TypeOK
<1>4. MainTypeOK' /\ OptsInv'
  BY <1>1, <1>7 DEF MainTypeOK, OptsInv, MainInv
<1>5. ASSUME tx'[call] \in {"none", "pending", "expired"}
      PROVE  tx[call] \in {"none", "pending", "expired"} /\ \A p \in Party : lamports'[p] = lamports[p]
  BY <1>1, <1>5, Two, CallAssumption
     DEF CallNext, InitAccount, Send, Execute, Expire, Confirm, CollectRent, SentOnce, TypeOK
<1>6. ASSUME NEW p \in Party PROVE PartyInv(p)'
  <2>1. Initialised(p) /\ ~ Initialising /\ ~ Initialising' /\ (Initialised(p)' <=> Initialised(p))
    BY <1>1 DEF Initialised, Initialising
  <2>2. Ready(p)
    BY <2>1 DEF MainInv, PartyInv
  <2>3. Ready(p)'
    <3>1. collected'[p] = collected[p]
      BY <1>1, <1>7, Collected
    <3> QED
      BY <1>1, <1>5, <2>2, <3>1 DEF Ready, FirstAsked, Due, Larger
  <2>4. queue' # <<payer[call], receiver[call]>>
    BY <1>1, Queues
  <2> QED BY <2>1, <2>3, <2>4 DEF PartyInv
<1> QED
  BY <1>1, <1>2, <1>4, <1>6, <1>8, <1>9 DEF MainInv

LEMMA MainSteps == MainInv /\ [MainNext]_mvars => MainInv'
<1> SUFFICES ASSUME MainInv, [MainNext]_mvars PROVE MainInv'
  OBVIOUS
<1>1. CASE UNCHANGED mvars
  <2>1. UNCHANGED <<vars, mainVars>> /\ UNCHANGED <<queue, stage, opts, asked, airdrop, rentRead>>
    BY <1>1 DEF mvars, mainVars
  <2>2. MainTypeOK'
    BY <2>1 DEF MainInv, MainTypeOK, vars
  <2>3. ASSUME NEW p \in Party PROVE PartyInv(p)'
    <3>1. /\ account' = account /\ Initialising' = Initialising /\ (Initialised(p)' <=> Initialised(p))
          /\ SameFor(p)
      BY <2>1 DEF account, Initialising, Initialised, SameFor, collected, vars
    <3>2. AtStage(p) => AtStage(p)'
      BY <2>1, <3>1, SameParts DEF AtStage
    <3> QED BY <2>1, <3>1, <3>2, SameParts DEF MainInv, PartyInv
  <2> QED BY <2>1, <2>2, <2>3, CallWaits DEF MainInv
<1>2. CASE queue = <<>> /\ CallNext /\ UNCHANGED mainVars
  BY <1>2, CallStep
<1>3. ASSUME NEW p \in Party, NEW k \in Kind, ExecuteAirdrop(p, k) \/ ExpireAirdrop(p, k) PROVE MainInv'
  BY <1>3, ExecuteAirdropStep, ExpireAirdropStep
<1>4. ASSUME NEW p \in Party, CollectRent(p), UNCHANGED mainVars PROVE MainInv'
  BY <1>4, RentStep
<1> QED
  BY <1>1, <1>2, <1>3, <1>4, RequestStep, MakeStep, ConfirmStep, GiveUpStep DEF MainNext

(***************************************************************************)
(* The inductive invariant of the program holds in every reachable state.  *)
(***************************************************************************)
THEOREM MainInvariance == MainSpec => []MainInv
BY MainInitial, MainSteps, PTL DEF MainSpec

(***************************************************************************)
(* initAccount brings an account to the balance it is to have and not a    *)
(* lamport more, for every balance asked for, minimum and rent that is     *)
(* collected between its two requests (conn.ts:224-263).                   *)
(***************************************************************************)
THEOREM NotALamportMore == MainSpec => []ToppedUpExactly
<1>1. MainInv => ToppedUpExactly
  <2> SUFFICES ASSUME MainInv, NEW p \in Party, Initialised(p), tx[call] = "none",
                      airdrop[p]["topUp"] # "error"
               PROVE  lamports[p] + collected[p] = Due(p)
    BY DEF ToppedUpExactly, Due, FirstAsked
  <2>1. Ready(p)
    BY DEF MainInv, PartyInv
  <2> QED BY <2>1 DEF Ready
<1> QED
  BY <1>1, MainInvariance, PTL

-----------------------------------------------------------------------------
(* What the call finds and what it leaves.                                 *)

\* Only a payer that was given the amount and the fee sends a transaction.
Affordable == tx[call] # "none" => amount[call] + Fee <= opts[payer[call]]

\* What an executed transaction leaves; what is left of the payer may be too
\* little to be rent exempt.
Paid ==
  tx[call] = "ok" =>
    /\ lamports[payer[call]] + amount[call] + Fee <= opts[payer[call]]
    /\ \/ lamports[payer[call]] + amount[call] + Fee = opts[payer[call]]
       \/ opts[payer[call]] < amount[call] + Fee + RentExempt
    /\ amount[call] <= lamports[receiver[call]]
    /\ lamports[receiver[call]] <= amount[call] + Larger(KeepAlive, RentExempt)

\* A payer that can pay has exactly what it was given.
LEMMA PayerReady ==
  ASSUME MainInv, PaysEnough, queue = <<>>, tx[call] \in {"none", "pending", "expired"},
         lamports[payer[call]] >= amount[call] + Fee
  PROVE  lamports[payer[call]] = opts[payer[call]]
<1> DEFINE x == payer[call]
<1>1. x \in Party /\ Ready(x)
  BY Two DEF MainInv, PartyInv, Initialised
<1>2. /\ lamports[x] \in Nat /\ collected[x] \in Nat /\ opts[x] \in Nat /\ amount[call] \in Nat
      /\ Fee \in Nat /\ KeepAlive \in Nat /\ RentExempt \in Nat
  BY <1>1, Amounts, Numbers DEF MainInv, MainTypeOK
<1>3. lamports[x] > RentExempt /\ lamports[x] > KeepAlive
  BY <1>2 DEF PaysEnough
<1>4. lamports[x] + collected[x] <= Due(x) /\ FirstAsked(x) \in Nat
  BY <1>1, <1>2 DEF Ready, FirstAsked, Larger
<1>5. FirstAsked(x) >= RentExempt /\ Due(x) = FirstAsked(x)
  BY <1>2, <1>3, <1>4 DEF Due, Larger
<1>6. collected[x] = 0 /\ airdrop[x]["topUp"] = "none"
  BY <1>1, <1>2, <1>4, <1>5 DEF Ready
<1>7. lamports[x] = FirstAsked(x)
  BY <1>1, <1>2, <1>5, <1>6 DEF Ready
<1> QED
  BY <1>2, <1>3, <1>7 DEF FirstAsked, Larger

\* The receiver has been given no more than it needs.
LEMMA ReceiverReady ==
  ASSUME MainInv, queue = <<>>, tx[call] \in {"none", "pending", "expired"}
  PROVE  lamports[receiver[call]] <= Larger(KeepAlive, RentExempt)
<1> DEFINE y == receiver[call]
<1>1. y \in Party /\ Ready(y) /\ opts[y] = 0
  BY Two DEF MainInv, PartyInv, Initialised, OptsInv
<1>2. lamports[y] \in Nat /\ collected[y] \in Nat /\ KeepAlive \in Nat /\ RentExempt \in Nat
  BY <1>1, Amounts, Numbers
<1>3. Due(y) = Larger(KeepAlive, RentExempt) /\ Due(y) \in Nat
  BY <1>1, <1>2 DEF Due, FirstAsked, Larger
<1> QED
  BY <1>1, <1>2, <1>3 DEF Ready

LEMMA OutcomeInitial == MainInit => Affordable /\ Paid
BY Two DEF MainInit, Init, Affordable, Paid

\* A payment between two parties.
LEMMA PaidOnce ==
  ASSUME MainInv, PaysEnough, Affordable, queue = <<>>, Execute(call), tx'[call] = "ok", UNCHANGED mainVars
  PROVE  Paid'
<1> DEFINE x == payer[call]
           y == receiver[call]
<1>1. /\ TypeOK /\ tx[call] = "pending" /\ opts' = opts
      /\ x \in Party /\ y \in Party /\ x # y /\ call \in Call
  BY Two DEF MainInv, TransferInv, Execute, mainVars
<1>2. TransactionOk(call) /\ lamports' = Executed(call)
  BY <1>1 DEF Execute, Executed, TypeOK
<1>3. \A p \in Party : Executed(call)[p] = lamports[p] + (IF p = y THEN amount[call] ELSE 0)
                                             - (IF p = x THEN amount[call] + Fee ELSE 0)
  BY <1>1, <1>2, OnePayment
<1>4. /\ lamports[x] \in Nat /\ lamports[y] \in Nat /\ amount[call] \in Nat /\ Fee \in Nat
      /\ RentExempt \in Nat /\ KeepAlive \in Nat /\ opts[x] \in Nat
  BY <1>1, Amounts, Numbers DEF MainInv, MainTypeOK
<1>5. lamports[x] >= amount[call] + Fee
  BY <1>2 DEF TransactionOk
<1>6. lamports[x] = opts[x]
  BY <1>1, <1>5, PayerReady
<1>7. lamports[y] <= Larger(KeepAlive, RentExempt)
  BY <1>1, ReceiverReady
<1>8. /\ Executed(call)[x] = lamports[x] + 0 - (amount[call] + Fee)
      /\ Executed(call)[y] = lamports[y] + amount[call] - 0
  BY <1>1, <1>3
<1>9. Larger(KeepAlive, RentExempt) \in Nat
  BY <1>4 DEF Larger
<1> HIDE DEF x, y
<1>10. /\ lamports'[x] + amount[call] + Fee = opts[x]
       /\ amount[call] <= lamports'[y]
       /\ lamports'[y] <= amount[call] + Larger(KeepAlive, RentExempt)
  BY <1>2, <1>4, <1>6, <1>7, <1>8, <1>9
<1> QED
  BY <1>1, <1>4, <1>10 DEF Paid, x, y, Larger

\* Rent takes from the payer what is left if that is too little.
LEMMA PaidRent ==
  ASSUME MainInv, PaysEnough, Paid, NEW p \in Party, CollectRent(p), UNCHANGED mainVars
  PROVE  Paid'
<1> DEFINE x == payer[call]
           y == receiver[call]
<1> SUFFICES ASSUME tx[call] = "ok" PROVE Paid'
  BY DEF Paid, CollectRent
<1>1. /\ x \in Party /\ y \in Party /\ x # y /\ p \in {x, y} /\ opts' = opts
      /\ lamports[p] < RentExempt
  BY Two DEF CollectRent, mainVars
<1>2. /\ lamports[x] \in Nat /\ lamports[y] \in Nat /\ lamports[p] \in Nat /\ amount[call] \in Nat /\ Fee \in Nat
      /\ RentExempt \in Nat /\ KeepAlive \in Nat /\ opts[x] \in Nat
  BY <1>1, Amounts, Numbers DEF MainInv, MainTypeOK
<1>3. amount[call] <= lamports[y] /\ RentExempt < amount[call]
  BY DEF Paid, PaysEnough
<1>4. p = x
  BY <1>1, <1>2, <1>3
<1>5. PICK due \in 1 .. lamports[p] : lamports' = [lamports EXCEPT ![p] = @ - due]
  BY DEF CollectRent
<1>6. lamports \in [Call \cup Party -> 0 .. U64Max]
  BY DEF MainInv, TransferInv, TypeOK
<1>7. lamports'[y] = lamports[y] /\ lamports'[x] = lamports[x] - due /\ due \in Nat /\ due <= lamports[x]
  BY <1>1, <1>2, <1>4, <1>5, <1>6
<1>8. /\ lamports[x] + amount[call] + Fee <= opts[x]
      /\ \/ lamports[x] + amount[call] + Fee = opts[x]
         \/ opts[x] < amount[call] + Fee + RentExempt
      /\ lamports[y] <= amount[call] + Larger(KeepAlive, RentExempt)
  BY DEF Paid
<1> HIDE DEF x, y
<1>9. opts[x] < amount[call] + Fee + RentExempt /\ lamports'[x] + amount[call] + Fee <= opts[x]
  BY <1>1, <1>2, <1>4, <1>7, <1>8
<1> QED
  BY <1>1, <1>3, <1>7, <1>8, <1>9 DEF Paid, x, y, Larger

LEMMA OutcomeSteps ==
  ASSUME PaysEnough, MainInv, Affordable, Paid, [MainNext]_mvars
  PROVE  Affordable' /\ Paid'
<1>0. TypeOK /\ SentOnce /\ MainTypeOK
  BY DEF MainInv, TransferInv
<1>1. CASE UNCHANGED <<lamports, tx, opts>>
  BY <1>1 DEF Affordable, Paid, Larger
<1>2. ASSUME NEW p \in Party, CollectRent(p), UNCHANGED mainVars PROVE Affordable' /\ Paid'
  <2>1. UNCHANGED <<tx, opts>>
    BY <1>2 DEF CollectRent, mainVars
  <2> QED BY <1>2, <2>1, PaidRent DEF Affordable
<1>3. ASSUME NEW p \in Party, NEW k \in Kind, ExecuteAirdrop(p, k) PROVE Affordable' /\ Paid'
  <2>1. UNCHANGED <<tx, opts>> /\ airdrop[p][k] = "pending"
    BY <1>3 DEF ExecuteAirdrop
  <2>2. ~ Ready(p)
    BY <2>1 DEF Ready, Kind
  <2>3. queue # <<>>
    BY <2>2, Two DEF MainInv, PartyInv, Initialised
  <2>4. tx[call] = "none"
    BY <2>3 DEF MainInv
  <2> QED BY <2>1, <2>4 DEF Affordable, Paid
<1>4. CASE queue = <<>> /\ CallNext /\ UNCHANGED mainVars
  <2>1. opts' = opts /\ call \in Call /\ Call = {call} /\ payer[call] \in Party /\ receiver[call] \in Party
    BY <1>4, Two DEF mainVars
  <2>2. CASE Send(call)
    <3>1. lamports' = lamports /\ tx'[call] # "ok"
      BY <1>0, <2>1, <2>2 DEF Send, SentOnce, TypeOK
    <3>2. ASSUME tx'[call] # "none" PROVE amount[call] + Fee <= opts[payer[call]]
      <4>1. TransactionOk(call) /\ tx[call] = "none"
        BY <1>0, <2>1, <2>2, <3>2 DEF Send, SentOnce
      <4>2. lamports[payer[call]] >= amount[call] + Fee
        BY <4>1 DEF TransactionOk
      <4>3. lamports[payer[call]] = opts[payer[call]]
        BY <1>4, <4>1, <4>2, PayerReady
      <4> QED BY <4>2, <4>3, <2>1, Numbers, Amounts
    <3> QED BY <2>1, <3>1, <3>2 DEF Affordable, Paid
  <2>3. CASE Execute(call)
    <3>1. tx[call] = "pending" /\ tx'[call] # "none"
      BY <1>0, <2>1, <2>3 DEF Execute, TypeOK
    <3>2. Affordable'
      BY <2>1, <3>1 DEF Affordable
    <3>3. Paid'
      <4>1. CASE tx'[call] = "ok"
        BY <1>4, <2>3, <4>1, PaidOnce
      <4>2. CASE tx'[call] # "ok"
        BY <4>2 DEF Paid
      <4> QED BY <4>1, <4>2
    <3> QED BY <3>2, <3>3
  <2>4. CASE InitAccount(call) \/ Expire(call) \/ Confirm(call) \/ CollectRent(call)
    <3>1. tx'[call] = tx[call] \/ (tx[call] = "pending" /\ tx'[call] = "expired")
      BY <1>0, <2>1, <2>4 DEF InitAccount, Expire, Confirm, CollectRent, TypeOK
    <3>2. lamports'[payer[call]] = lamports[payer[call]] /\ lamports'[receiver[call]] = lamports[receiver[call]]
      BY <1>0, <2>1, <2>4, CallAssumption DEF InitAccount, Expire, Confirm, CollectRent, TypeOK
    <3> QED BY <2>1, <3>1, <3>2 DEF Affordable, Paid, Larger
  <2> QED BY <1>4, <2>1, <2>2, <2>3, <2>4 DEF CallNext
<1>5. CASE \/ RequestAirdrop \/ MakeAccountRentExempt \/ ConfirmAirdrop \/ GiveUp
           \/ \E p \in Party, k \in Kind : ExpireAirdrop(p, k)
           \/ UNCHANGED mvars
  BY <1>1, <1>5 DEF RequestAirdrop, MakeAccountRentExempt, ConfirmAirdrop, GiveUp, ExpireAirdrop,
                    mvars, mainVars, vars
<1> QED
  BY <1>2, <1>3, <1>4, <1>5 DEF MainNext

LEMMA Outcome == ASSUME PaysEnough PROVE MainSpec => [](MainInv /\ Affordable /\ Paid)
<1>1. MainInit => MainInv /\ Affordable /\ Paid
  BY MainInitial, OutcomeInitial
<1>2. MainInv /\ Affordable /\ Paid /\ [MainNext]_mvars => (MainInv /\ Affordable /\ Paid)'
  BY MainSteps, OutcomeSteps
<1> QED
  BY <1>1, <1>2, PTL DEF MainSpec

(***************************************************************************)
(* A payer that was given less than the amount and the fee, if only by one *)
(* lamport, sends nothing, whatever the faucet and rent have done to its   *)
(* balance, if the amount is more than what initAccount gives an account   *)
(* of itself: an account that is to pay less can                           *)
(* (transfer-lamports.test.ts:64-79, conn.ts:254-259).                     *)
(***************************************************************************)
THEOREM NotSent == ASSUME PaysEnough PROVE MainSpec => []InsufficientNotSent
<1>1. MainInv /\ Affordable => InsufficientNotSent
  <2> SUFFICES ASSUME MainInv, Affordable, tx[call] # "none", opts[payer[call]] < amount[call] + Fee PROVE FALSE
    BY DEF InsufficientNotSent
  <2>1. amount[call] \in Nat /\ Fee \in Nat /\ opts[payer[call]] \in Nat
    BY Numbers, Two DEF MainInv, MainTypeOK
  <2>2. amount[call] + Fee <= opts[payer[call]]
    BY DEF Affordable
  <2> QED BY <2>1, <2>2
<1> QED
  BY <1>1, Outcome, PTL

-----------------------------------------------------------------------------
(* What the test reads.                                                    *)

\* m rounded to the nearest multiple of c is n rounded down.
LEMMA Rounded ==
  ASSUME NEW c \in Nat, c > 0, NEW h \in Nat, NEW m \in Nat, NEW n \in Nat,
         (n % c) + m + h >= n, (n % c) + m + h < n + c
  PROVE  (m + h) \div c = n \div c
<1> DEFINE q == n \div c
           s == n % c
<1>1. q \in Int /\ s \in 0 .. c - 1 /\ n = c * q + s
  OBVIOUS
<1>2. s + m + h >= n /\ s + m + h < n + c
  OBVIOUS
<1> HIDE DEF q, s
<1>3. PICK r \in Int : r = s + m + h - n
  BY <1>1
<1>4. r \in 0 .. c - 1
  BY <1>1, <1>2, <1>3
<1>5. c * q \in Int
  BY <1>1
<1>6. m + h = c * q + r
  BY <1>1, <1>3, <1>5
<1>7. (m + h) \div c = q
  BY <1>1, <1>4, <1>6, Quotient
<1> QED
  BY <1>7 DEF q

(***************************************************************************)
(* With amounts of hundredths of a SOL, a call that returned is seen as    *)
(* the payment and nothing else: neither the fee, nor the receiver's       *)
(* minimum balance, nor rent the payer loses when too little is left to it *)
(* shows in what the test reads (transfer-lamports.test.ts:45-62).         *)
(***************************************************************************)
THEOREM SeenAsPaid == ASSUME AsInTheTest PROVE MainSpec => []TransferAsTested
<1>1. MainInv /\ Affordable /\ Paid => TransferAsTested
  <2> SUFFICES ASSUME MainInv, Affordable, Paid, pc[call] = "confirmed"
               PROVE  /\ BalanceSol(payer[call]) = (opts[payer[call]] - amount[call]) \div (Sol \div 100)
                      /\ BalanceSol(receiver[call]) = amount[call] \div (Sol \div 100)
    BY DEF TransferAsTested
  <2> DEFINE x == payer[call]
             y == receiver[call]
             n == opts[x] - amount[call]
             c == Sol \div 100
             h == Sol \div 200
             e == Larger(KeepAlive, RentExempt)
  <2>1. tx[call] = "ok" /\ x \in Party /\ y \in Party /\ opts[x] \in PayerLamports
    BY Two DEF MainInv, ConfirmedOk, OptsInv
  <2>2. /\ lamports[x] \in Nat /\ lamports[y] \in Nat /\ amount[call] \in Nat /\ Fee \in Nat
        /\ RentExempt \in Nat /\ KeepAlive \in Nat /\ opts[x] \in Nat
    BY <2>1, Amounts, Numbers DEF MainInv, MainTypeOK
  <2>3. /\ lamports[x] + amount[call] + Fee <= opts[x]
        /\ \/ lamports[x] + amount[call] + Fee = opts[x]
           \/ opts[x] < amount[call] + Fee + RentExempt
        /\ amount[call] <= lamports[y] /\ lamports[y] <= amount[call] + e
    BY <2>1 DEF Paid
  <2>4. c \in Nat /\ h \in Nat /\ c >= 2 * h
    BY MainAssumption
  <2>5. /\ Fee + RentExempt <= h /\ e < h /\ amount[call] % c = 0
        /\ \A k \in PayerLamports : k >= amount[call] => (k - amount[call]) % c <= Fee
    BY DEF AsInTheTest
  <2>6. e \in Nat
    BY <2>2 DEF Larger
  <2>7. BalanceSol(x) = (lamports[x] + h) \div c /\ BalanceSol(y) = (lamports[y] + h) \div c
    BY DEF BalanceSol
  <2> HIDE DEF x, y, c, h, e
  <2>8. n \in Nat /\ lamports[x] + Fee <= n /\ (lamports[x] + Fee = n \/ n < Fee + RentExempt)
    BY <2>2, <2>3
  <2>9. n % c <= Fee /\ c > 0
    BY <2>1, <2>2, <2>3, <2>4, <2>5, <2>6
  <2> HIDE DEF n
  <2>10. n % c \in Nat
    BY <2>4, <2>8, <2>9
  <2>11. (lamports[x] + h) \div c = n \div c
    <3>1. (n % c) + lamports[x] + h >= n /\ (n % c) + lamports[x] + h < n + c
      <4>1. PICK s \in Nat : s = n % c
        BY <2>10
      <4> QED BY <2>2, <2>4, <2>5, <2>6, <2>8, <2>9, <4>1
    <3> QED BY <2>2, <2>4, <2>8, <2>9, <3>1, Rounded
  <2>12. (lamports[y] + h) \div c = amount[call] \div c
    <3>1. (amount[call] % c) + lamports[y] + h >= amount[call] /\ (amount[call] % c) + lamports[y] + h < amount[call] + c
      BY <2>2, <2>3, <2>4, <2>5, <2>6
    <3> QED BY <2>2, <2>4, <2>9, <3>1, Rounded
  <2> QED
    BY <2>7, <2>11, <2>12 DEF n, x, y, c
<1> QED
  BY <1>1, Outcome, PTL DEF AsInTheTest

=============================================================================
