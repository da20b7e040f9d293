---------------------------- MODULE EscrowClient ----------------------------
(***************************************************************************)
(* The client of packages/escrow/js: runs of main.ts that post an escrow   *)
(* (ALICE=1) or take the stored one (BOB=1).  Each run is a process of its *)
(* own; they share the key files keys/<name>_pub.json and the ledger.      *)
(*                                                                         *)
(* Transactions are sent and not confirmed: a run sleeps for a second and  *)
(* then looks at the ledger, while the cluster may execute the transaction *)
(* earlier, later or never.                                                *)
(***************************************************************************)
EXTENDS Escrow, FiniteSetsExt

CONSTANTS
  alice, bob,         \* the parties' keypairs
  AliceRun, BobRun,   \* processes
  InitialFiles,       \* the key files at the start
  terms,              \* terms.json as each run loads it
  tmpXTokenAccount, escrowAccount   \* the fresh keypairs of each run of Alice

TokenFile == {"alice_x", "alice_y", "bob_x", "bob_y"}
MintFile == {"mint_x", "mint_y"}

\* What is in keys/<name>_pub.json; NoKey is an address nothing is ever at.
Files ==
  [TokenFile \cup MintFile \cup {"escrow"} -> TokenKey \cup Mint \cup EscrowKey \cup {NoKey}]

ASSUME ClientAssumption ==
  /\ {alice, bob} \subseteq Wallet
  /\ AliceRun \cap BobRun = {}
  /\ IsFiniteSet(AliceRun \cup BobRun)
  /\ InitialFiles \in Files
  /\ \A name \in TokenFile : InitialFiles[name] \in TokenKey
  /\ \A name \in MintFile : InitialFiles[name] \in Mint
  /\ InitialFiles["escrow"] = NoKey
  /\ terms \in [AliceRun \cup BobRun -> [aliceExpectedAmount : U64, bobExpectedAmount : U64]]
  /\ tmpXTokenAccount \in [AliceRun -> TokenKey]
  /\ escrowAccount \in [AliceRun -> EscrowKey]
  /\ \A r, s \in AliceRun : escrowAccount[r] = escrowAccount[s] \/ tmpXTokenAccount[r] = tmpXTokenAccount[s] => r = s

VARIABLES
  files,  \* the key files
  tx,     \* what the cluster has made of each run's transaction
  pc,     \* where each run is
  seen    \* what each run has read

cvars == <<ledger, files, tx, pc, seen>>

Run == AliceRun \cup BobRun

NothingSeen == [files |-> InitialFiles, state |-> NoEscrow, aliceY |-> 0, bobX |-> 0]

\* A run ends as "done", as "refuted" by an assertion of verify.ts, or as
\* "failed" for any other reason.
Ended == {"done", "refuted", "failed"}

(***************************************************************************)
(* Runs that compete for the parties' tokens leave well-formed accounts.   *)
(***************************************************************************)
ClientTypeOK ==
  /\ TypeOK
  /\ files \in Files
  /\ tx \in [Run -> {"none", "pending", "ok", "error", "expired"}]
  /\ pc \in [Run -> Ended \cup {"alice", "verifyInitialized", "write", "bob", "decode", "aliceY", "bobX",
                                "send", "verifyClosed", "verifyAliceY", "verifyBobX"}]
  /\ seen \in [Run -> [files : Files, state : EscrowAccount, aliceY : U64, bobX : U64]]

-----------------------------------------------------------------------------
(* The two transactions.                                                   *)

Key(r, name) == seen[r].files[name]

TmpCreated(L, r) == WithTokenAccount(L, alice, tmpXTokenAccount[r], Key(r, "mint_x"))

\* Variant: the two terms are swapped.
TmpFundedSwapped(L, r) ==
  Transfer(TmpCreated(L, r), Key(r, "alice_x"), tmpXTokenAccount[r], terms[r].aliceExpectedAmount)

TmpFunded(L, r) ==
  Transfer(TmpCreated(L, r), Key(r, "alice_x"), tmpXTokenAccount[r], terms[r].bobExpectedAmount)

EscrowCreated(L, r) == WithEscrowAccount(TmpFunded(L, r), alice, escrowAccount[r], EscrowRent)

InitEscrowKeys(r) == <<alice, tmpXTokenAccount[r], Key(r, "alice_y"), escrowAccount[r], TokenProgram>>

\* Variant: Alice's balance is not checked.
AliceTransactionOkUnfunded(L, r) ==
  /\ CreateAccountOk(L, alice, tmpXTokenAccount[r], TokenRent)
  /\ CreateAccountOk(TmpFunded(L, r), alice, escrowAccount[r], EscrowRent)
  /\ InitEscrowOk(EscrowCreated(L, r), InitEscrowKeys(r), {alice}, terms[r].aliceExpectedAmount)

\* Alice's five instructions execute together or not at all.
AliceTransactionOk(L, r) ==
  /\ CreateAccountOk(L, alice, tmpXTokenAccount[r], TokenRent)
  /\ TransferOk(TmpCreated(L, r), Key(r, "alice_x"), tmpXTokenAccount[r], alice, {alice},
                terms[r].bobExpectedAmount)
  /\ CreateAccountOk(TmpFunded(L, r), alice, escrowAccount[r], EscrowRent)
  /\ InitEscrowOk(EscrowCreated(L, r), InitEscrowKeys(r), {alice}, terms[r].aliceExpectedAmount)

AliceTransaction(L, r) ==
  InitEscrowEffect(EscrowCreated(L, r), InitEscrowKeys(r), terms[r].aliceExpectedAmount)

\* f: the key files as read; state: the escrow as decoded.
ExchangeKeys(f, state) ==
  <<bob, f["bob_y"], f["bob_x"], state.tmp_token_account_pubkey, state.initializer_pubkey,
    state.initializer_token_to_receive_account_pubkey, f["escrow"], TokenProgram, Pda>>

\* Variant: Bob names what the vault holds instead of what his terms say.
BobAmountOnChain(L, r) == L.token[seen[r].state.tmp_token_account_pubkey].amount

BobAmount(L, r) == terms[r].bobExpectedAmount

TransactionOk(r) ==
  IF r \in AliceRun
  THEN AliceTransactionOk(ledger, r)
  ELSE ExchangeOk(ledger, ExchangeKeys(seen[r].files, seen[r].state), {bob}, BobAmount(ledger, r))

Transaction(r) ==
  IF r \in AliceRun
  THEN AliceTransaction(ledger, r)
  ELSE ExchangeEffect(ledger, ExchangeKeys(seen[r].files, seen[r].state))

-----------------------------------------------------------------------------

ClientInit ==
  /\ Init
  /\ files = InitialFiles
  /\ tx = [r \in Run |-> "none"]
  /\ pc = [r \in Run |-> IF r \in AliceRun THEN "alice" ELSE "bob"]
  /\ seen = [r \in Run |-> NothingSeen]

Goto(r, place) == pc' = [pc EXCEPT ![r] = place]

\* sendTransaction with a preflight check on the present ledger.
Submit(r, from, next) ==
  /\ pc[r] = from
  /\ IF TransactionOk(r)
     THEN Goto(r, next) /\ tx' = [tx EXCEPT ![r] = "pending"]
     ELSE Goto(r, "failed") /\ UNCHANGED tx
  /\ UNCHANGED <<ledger, files, seen>>

\* The cluster executes a transaction on the ledger of that moment, or drops
\* it once its blockhash is too old.
Execute(r) ==
  /\ tx[r] = "pending"
  /\ IF TransactionOk(r)
     THEN ledger' = Transaction(r) /\ tx' = [tx EXCEPT ![r] = "ok"]
     ELSE tx' = [tx EXCEPT ![r] = "error"] /\ UNCHANGED ledger
  /\ UNCHANGED <<files, pc, seen>>

Expire(r) ==
  /\ tx[r] = "pending"
  /\ tx' = [tx EXCEPT ![r] = "expired"]
  /\ UNCHANGED <<ledger, files, pc, seen>>

\* An awaited request throws, or the process is killed.
Throw(r) ==
  /\ pc[r] \notin Ended
  /\ Goto(r, "failed")
  /\ UNCHANGED <<ledger, files, tx, seen>>

\* Each run reads the key files it needs at once, before its first request.
ReadPublicKeys(r, from, next) ==
  /\ pc[r] = from
  /\ seen' = [seen EXCEPT ![r].files = files]
  /\ Goto(r, next)
  /\ UNCHANGED <<ledger, files, tx>>

AliceStart(r) == ReadPublicKeys(r, "alice", "send")

AliceSend(r) == Submit(r, "send", "verifyInitialized")

\* The assertions of verifyInitializedEscrow.
Initialized(r) ==
  LET state == ledger.escrow[escrowAccount[r]] IN
  /\ state.allocated
  /\ state.is_initialized
  /\ state.initializer_pubkey = alice
  /\ state.initializer_token_to_receive_account_pubkey = files["alice_y"]
  /\ state.tmp_token_account_pubkey = tmpXTokenAccount[r]

\* Variant: what is not there yet is looked for again.
VerifyInitializedRetry(r) ==
  /\ pc[r] = "verifyInitialized"
  /\ Goto(r, IF Initialized(r) THEN "write" ELSE "verifyInitialized")
  /\ UNCHANGED <<ledger, files, tx, seen>>

VerifyInitializedEscrow(r) ==
  /\ pc[r] = "verifyInitialized"
  /\ Goto(r, IF Initialized(r) THEN "write" ELSE "refuted")
  /\ UNCHANGED <<ledger, files, tx, seen>>

WritePublicKey(r) ==
  /\ pc[r] = "write"
  /\ files' = [files EXCEPT !["escrow"] = escrowAccount[r]]
  /\ Goto(r, "done")
  /\ UNCHANGED <<ledger, tx, seen>>

BobStart(r) == ReadPublicKeys(r, "bob", "decode")

\* isInitialized is decoded and not looked at.
DecodeEscrow(r) ==
  /\ pc[r] = "decode"
  /\ IF Key(r, "escrow") \in EscrowKey /\ ledger.escrow[Key(r, "escrow")].allocated
     THEN seen' = [seen EXCEPT ![r].state = ledger.escrow[Key(r, "escrow")]] /\ Goto(r, "aliceY")
     ELSE Goto(r, "failed") /\ UNCHANGED seen
  /\ UNCHANGED <<ledger, files, tx>>

\* getTokenBalance; there may be no account at the address.
Found(name) == IsTokenAccount(ledger, name)

\* Two requests, answered one after the other.
ReadAliceY(r) ==
  /\ pc[r] = "aliceY"
  /\ IF Found(Key(r, "alice_y"))
     THEN seen' = [seen EXCEPT ![r].aliceY = ledger.token[Key(r, "alice_y")].amount] /\ Goto(r, "bobX")
     ELSE Goto(r, "failed") /\ UNCHANGED seen
  /\ UNCHANGED <<ledger, files, tx>>

ReadBobX(r) ==
  /\ pc[r] = "bobX"
  /\ IF Found(Key(r, "bob_x"))
     THEN seen' = [seen EXCEPT ![r].bobX = ledger.token[Key(r, "bob_x")].amount] /\ Goto(r, "send")
     ELSE Goto(r, "failed") /\ UNCHANGED seen
  /\ UNCHANGED <<ledger, files, tx>>

BobSend(r) == Submit(r, "send", "verifyClosed")

\* Variant: the closed accounts are not looked for.
ClosedUnchecked(r) == TRUE

\* The two accounts go in one transaction and never return: their two reads
\* are one.
Closed(r) ==
  /\ ~ ledger.escrow[Key(r, "escrow")].allocated
  /\ ~ IsTokenAccount(ledger, seen[r].state.tmp_token_account_pubkey)

\* The key files are read again here.
Holds(name, amount) == Found(files[name]) /\ ledger.token[files[name]].amount = amount

VerifyExchangedEscrow(r) ==
  /\ \/ pc[r] = "verifyClosed" /\ Goto(r, IF Closed(r) THEN "verifyAliceY" ELSE "refuted")
     \/ /\ pc[r] = "verifyAliceY"
        /\ LET expected == seen[r].aliceY + terms[r].aliceExpectedAmount IN
           Goto(r, IF Holds("alice_y", expected) THEN "verifyBobX" ELSE "refuted")
     \/ /\ pc[r] = "verifyBobX"
        /\ LET expected == seen[r].bobX + terms[r].bobExpectedAmount IN
           Goto(r, IF Holds("bob_x", expected) THEN "done" ELSE "refuted")
  /\ UNCHANGED <<ledger, files, tx, seen>>

ClientNext ==
  \/ \E r \in AliceRun : AliceStart(r) \/ AliceSend(r) \/ VerifyInitializedEscrow(r) \/ WritePublicKey(r)
  \/ \E r \in BobRun :
       \/ BobStart(r) \/ DecodeEscrow(r) \/ ReadAliceY(r) \/ ReadBobX(r)
       \/ BobSend(r) \/ VerifyExchangedEscrow(r)
  \/ \E r \in Run : Execute(r) \/ Expire(r) \/ Throw(r)

\* Every await resolves or throws, every sleep ends, and a blockhash expires.
\* Nothing obliges the cluster to execute a transaction.
Fairness ==
  /\ \A r \in AliceRun :
       WF_cvars(AliceStart(r) \/ AliceSend(r) \/ VerifyInitializedEscrow(r) \/ WritePublicKey(r))
  /\ \A r \in BobRun :
       WF_cvars(BobStart(r) \/ DecodeEscrow(r) \/ ReadAliceY(r) \/ ReadBobX(r)
                 \/ BobSend(r) \/ VerifyExchangedEscrow(r))
  /\ \A r \in Run : WF_cvars(Execute(r) \/ Expire(r))

ClientSpec == ClientInit /\ [][ClientNext]_cvars /\ Fairness

-----------------------------------------------------------------------------

(***************************************************************************)
(* The key file names an escrow a run of Alice has posted, and while it is *)
(* open and the parties' key files are the ones she has read, it can be    *)
(* taken: the client funds the vault with what the taker must name,        *)
(* records a receiver of the mint the taker pays in, and stores the        *)
(* address only once all of that is on the ledger (alice.ts:55-100,        *)
(* main.ts:56-62).  Files a set-up has left half written are included, see *)
(* EscrowSetup, but for bob_y still being an account of an earlier mint.   *)
(***************************************************************************)
StoredEscrowTakeable ==
  files["escrow"] # NoKey =>
    \E r \in AliceRun :
      LET escrow == files["escrow"] IN
      /\ escrowAccount[r] = escrow
      /\ tx[r] = "ok"
      /\ /\ Open(escrow)
         /\ \A name \in TokenFile : files[name] = Key(r, name)
         /\ ledger.token[files["bob_y"]].amount >= Price(escrow)
         /\ ledger.token[files["bob_y"]].mint = ledger.token[files["alice_y"]].mint
         => ExchangeOk(ledger, ExchangeKeys(files, ledger.escrow[escrow]), {bob}, terms[r].bobExpectedAmount)

Posted == {r \in AliceRun : tx[r] = "ok"}
Taken == {r \in BobRun : tx[r] = "ok"}

\* By run: what its terms give for the price, and the price it has read.
Goods == [r \in Run |-> terms[r].bobExpectedAmount]
PriceRead == [r \in Run |-> seen[r].state.expected_amount]

\* What the executed transactions should have moved into and out of account k.
Received(k) ==
  SumFunctionOnSet(Goods, {r \in Taken : Key(r, "bob_x") = k})
  + SumFunctionOnSet(PriceRead, {r \in Taken : seen[r].state.initializer_token_to_receive_account_pubkey = k})

Paid(k) ==
  SumFunctionOnSet(Goods, {r \in Posted : Key(r, "alice_x") = k})
  + SumFunctionOnSet(PriceRead, {r \in Taken : Key(r, "bob_y") = k})

Vaults == {tmpXTokenAccount[r] : r \in AliceRun}

\* The accounts a set-up that has ended has left to the runs.
SetUpFor(name, owner, mint) ==
  /\ InitialFiles[name] \notin Vaults
  /\ InitialToken[InitialFiles[name]].owner = owner
  /\ InitialToken[InitialFiles[name]].mint = InitialFiles[mint]

SetUpEnded ==
  /\ SetUpFor("alice_x", alice, "mint_x") /\ SetUpFor("alice_y", alice, "mint_y")
  /\ SetUpFor("bob_x", bob, "mint_x") /\ SetUpFor("bob_y", bob, "mint_y")

(***************************************************************************)
(* However stale what Bob has read is when his transaction executes, he is *)
(* given what his terms name and pays the price he has read, once per      *)
(* executed transaction; Alice is charged what her own terms say; and      *)
(* nothing else moves in any of the parties' accounts (alice.ts:55-63,     *)
(* bob.ts:30-51, 72-113).                                                  *)
(***************************************************************************)
TermsHonoured ==
  \A k \in TokenKey \ Vaults : ledger.token[k].amount + Paid(k) = InitialToken[k].amount + Received(k)

(***************************************************************************)
(* A run of Bob that has reported a verified exchange does not pay         *)
(* afterwards, although its transaction may still be on its way and what   *)
(* it verified may be the work of another run (verify.ts:87-126).          *)
(***************************************************************************)
NoLatePayment ==
  [][\A r \in BobRun : pc[r] = "done" /\ tx[r] = "pending" => tx'[r] # "ok"]_cvars

(***************************************************************************)
(* Every run ends, whatever the cluster does with its transaction, since   *)
(* what it waits for is a matter of time and not of the transaction        *)
(* (main.ts:42, 55, 76, 94).                                               *)
(***************************************************************************)
RunsEnd == <>(\A r \in Run : pc[r] \in Ended /\ tx[r] # "pending")

(***************************************************************************)
(* "Escrow account info not found" (verify.ts:47): a run of Alice that an  *)
(* assertion of verifyInitializedEscrow ends has not left an escrow with   *)
(* her tokens in it.                                                       *)
(***************************************************************************)
RefutedLeavesNoEscrow ==
  \A r \in AliceRun : pc[r] = "refuted" => ~ Open(escrowAccount[r])

=============================================================================
