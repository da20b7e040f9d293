---------------------------- MODULE EscrowSetup ----------------------------
(***************************************************************************)
(* Runs of main.ts with SETUP=1 beside the runs of EscrowClient.  A set-up *)
(* funds the parties, creates both mints and an account of each for each   *)
(* party, and writes a key file as soon as what it names exists; other     *)
(* runs read the files meanwhile.  It confirms each transaction before it  *)
(* goes on, may end anywhere and may be started again.                     *)
(***************************************************************************)
EXTENDS EscrowClient

CONSTANTS
  client,    \* the keypair "id", payer and mint authority
  SetupRun,  \* processes
  fresh,     \* the keys each set-up generates, by the file they are written to
  Airdropped, Minted

ASSUME SetupAssumption ==
  /\ client \in Wallet
  /\ SetupRun \cap Run = {}
  /\ IsFiniteSet(SetupRun)
  /\ fresh \in [SetupRun -> [TokenFile \cup MintFile -> TokenKey \cup Mint]]
  /\ \A s \in SetupRun :
       /\ \A name \in TokenFile : fresh[s][name] \in TokenKey \ Vaults
       /\ \A name \in MintFile : fresh[s][name] \in Mint
  /\ Airdropped \in U64 /\ Minted \in U64

VARIABLES
  step,      \* the transaction of setup.ts each set-up is at
  stage,     \* what it does with it
  confirmed  \* what the cluster has made of it

setupVars == <<step, stage, confirmed>>
svars == <<cvars, setupVars>>

-----------------------------------------------------------------------------

Airdrop(to) == [kind |-> "airdrop", to |-> to]
CreateMint(name) == [kind |-> "createMint", file |-> name]
CreateAccountFor(owner, name, mint) == [kind |-> "createAccount", owner |-> owner, file |-> name, mint |-> mint]
MintTo(name, mint) == [kind |-> "mintTo", account |-> name, mint |-> mint]

\* Variant: Y goes to the account setupMint returns for Alice.
SetupMintingToAlice ==
  <<Airdrop(alice), Airdrop(bob), Airdrop(client),
    CreateMint("mint_x"), CreateAccountFor(alice, "alice_x", "mint_x"),
    CreateAccountFor(bob, "bob_x", "mint_x"), MintTo("alice_x", "mint_x"),
    CreateMint("mint_y"), CreateAccountFor(alice, "alice_y", "mint_y"),
    CreateAccountFor(bob, "bob_y", "mint_y"), MintTo("alice_y", "mint_y")>>

\* Variant: Alice is given her tokens as soon as she has an account for them.
SetupMintingFirst ==
  <<Airdrop(alice), Airdrop(bob), Airdrop(client),
    CreateMint("mint_x"), CreateAccountFor(alice, "alice_x", "mint_x"), MintTo("alice_x", "mint_x"),
    CreateAccountFor(bob, "bob_x", "mint_x"),
    CreateMint("mint_y"), CreateAccountFor(alice, "alice_y", "mint_y"),
    CreateAccountFor(bob, "bob_y", "mint_y"), MintTo("bob_y", "mint_y")>>

\* The transactions of setup(), in order; setupMint is the three that create.
Setup ==
  <<Airdrop(alice), Airdrop(bob), Airdrop(client),
    CreateMint("mint_x"), CreateAccountFor(alice, "alice_x", "mint_x"),
    CreateAccountFor(bob, "bob_x", "mint_x"), MintTo("alice_x", "mint_x"),
    CreateMint("mint_y"), CreateAccountFor(alice, "alice_y", "mint_y"),
    CreateAccountFor(bob, "bob_y", "mint_y"), MintTo("bob_y", "mint_y")>>

At(s) == Setup[step[s]]

SetupTransactionOk(s) ==
  LET t == At(s) IN
  CASE t.kind = "airdrop" -> ledger.lamports[t.to] + Airdropped <= U64Max
    [] t.kind = "createMint" -> TRUE
    [] t.kind = "createAccount" -> CreateAccountOk(ledger, client, fresh[s][t.file], TokenRent)
    [] t.kind = "mintTo" -> /\ IsTokenAccount(ledger, fresh[s][t.account])
                            /\ ledger.token[fresh[s][t.account]].amount + Minted <= U64Max

\* The ledger keeps no mints: nothing looks for one before it is confirmed.
SetupTransaction(s) ==
  LET t == At(s) IN
  CASE t.kind = "airdrop" -> [ledger EXCEPT !.lamports[t.to] = @ + Airdropped]
    [] t.kind = "createMint" -> ledger
    [] t.kind = "createAccount" ->
         [CreateAccount(ledger, client, fresh[s][t.file], TokenRent) EXCEPT
            !.token[fresh[s][t.file]] = [mint |-> fresh[s][t.mint], owner |-> t.owner, amount |-> 0]]
    [] t.kind = "mintTo" -> [ledger EXCEPT !.token[fresh[s][t.account]].amount = @ + Minted]

-----------------------------------------------------------------------------

SetupInit ==
  /\ ClientInit
  /\ step = [s \in SetupRun |-> 1]
  /\ stage = [s \in SetupRun |-> "send"]
  /\ confirmed = [s \in SetupRun |-> "none"]

\* Sent after a simulation; a faucet simulates nothing.
SetupSend(s) ==
  /\ stage[s] = "send"
  /\ IF SetupTransactionOk(s)
     THEN stage' = [stage EXCEPT ![s] = "confirm"] /\ confirmed' = [confirmed EXCEPT ![s] = "pending"]
     ELSE stage' = [stage EXCEPT ![s] = "failed"] /\ UNCHANGED confirmed
  /\ UNCHANGED <<cvars, step>>

SetupExecute(s) ==
  /\ confirmed[s] = "pending"
  /\ IF SetupTransactionOk(s)
     THEN ledger' = SetupTransaction(s) /\ confirmed' = [confirmed EXCEPT ![s] = "ok"]
     ELSE confirmed' = [confirmed EXCEPT ![s] = "error"] /\ UNCHANGED ledger
  /\ UNCHANGED <<files, tx, pc, seen, step, stage>>

SetupExpire(s) ==
  /\ confirmed[s] = "pending"
  /\ confirmed' = [confirmed EXCEPT ![s] = "expired"]
  /\ UNCHANGED <<cvars, step, stage>>

\* On to the next transaction, if there is one.
Proceed(s) ==
  IF step[s] = Len(Setup)
  THEN stage' = [stage EXCEPT ![s] = "done"] /\ UNCHANGED <<step, confirmed>>
  ELSE /\ step' = [step EXCEPT ![s] = @ + 1]
       /\ stage' = [stage EXCEPT ![s] = "send"]
       /\ confirmed' = [confirmed EXCEPT ![s] = "none"]

\* An airdrop's outcome is awaited and not looked at.
SetupConfirm(s) ==
  /\ stage[s] = "confirm"
  /\ \/ confirmed[s] = "ok"
     \/ At(s).kind = "airdrop" /\ confirmed[s] \in {"error", "expired"}
  /\ IF "file" \in DOMAIN At(s)
     THEN stage' = [stage EXCEPT ![s] = "write"] /\ UNCHANGED <<step, confirmed>>
     ELSE Proceed(s)
  /\ UNCHANGED cvars

SetupWrite(s) ==
  /\ stage[s] = "write"
  /\ files' = [files EXCEPT ![At(s).file] = fresh[s][At(s).file]]
  /\ Proceed(s)
  /\ UNCHANGED <<ledger, tx, pc, seen>>

\* Variant: a transaction whose confirmation is not heard of is sent again.
SetupThrowResend(s) ==
  /\ stage[s] \notin {"done", "failed"}
  /\ stage' = [stage EXCEPT ![s] = IF @ = "confirm" THEN "send" ELSE "failed"]
  /\ UNCHANGED <<cvars, step, confirmed>>

\* A request throws, the confirmation takes too long or brings an error, or
\* the process is killed; what was sent may still be executed.
SetupThrow(s) ==
  /\ stage[s] \notin {"done", "failed"}
  /\ stage' = [stage EXCEPT ![s] = "failed"]
  /\ UNCHANGED <<cvars, step, confirmed>>

SetupNext ==
  \/ ClientNext /\ UNCHANGED setupVars
  \/ \E s \in SetupRun :
       \/ SetupSend(s) \/ SetupExecute(s) \/ SetupExpire(s) \/ SetupConfirm(s) \/ SetupWrite(s)
       \/ SetupThrow(s)

SetupSpec == SetupInit /\ [][SetupNext]_svars

-----------------------------------------------------------------------------

\* The minting transactions of the set-ups, and those that have been executed.
Minting == {p \in SetupRun \X DOMAIN Setup : Setup[p[2]].kind = "mintTo"}
Executed(p) == step[p[1]] > p[2] \/ (step[p[1]] = p[2] /\ confirmed[p[1]] = "ok")

\* The tokens set-ups have minted into account k.
MintedTo(k) ==
  SumFunctionOnSet([p \in Minting |-> Minted],
                   {p \in Minting : Executed(p) /\ fresh[p[1]][Setup[p[2]].account] = k})

(***************************************************************************)
(* TermsHonoured with accounts that a set-up replaces under running        *)
(* clients: every account of every set-up, the abandoned ones too, holds   *)
(* what it was given, what runs that had read its key were paid, less what *)
(* they paid (setup.ts:62-100 beside alice.ts, bob.ts).                    *)
(***************************************************************************)
AccountsAudited ==
  \A k \in TokenKey \ Vaults :
    ledger.token[k].amount + Paid(k) = InitialToken[k].amount + MintedTo(k) + Received(k)

\* One set-up, whose keys differ, next to runs whose vaults are new and whose
\* terms ask for no more than it mints.
OneSetUp ==
  /\ \A s, other \in SetupRun : s = other
  /\ \A s \in SetupRun : \A name, other \in TokenFile : fresh[s][name] = fresh[s][other] => name = other
  /\ \A r \in AliceRun :
       /\ InitialLamports[tmpXTokenAccount[r]] = 0
       /\ terms[r].aliceExpectedAmount <= Minted /\ terms[r].bobExpectedAmount <= Minted

(***************************************************************************)
(* Set-up, Alice and Bob, each started once the one before has ended: when *)
(* a set-up has ended well, Alice can post her escrow and Bob can then     *)
(* take it, whatever the files named before, if the airdrops have reached  *)
(* her (setup.ts:63-100, package.json:9-13).                                 *)
(***************************************************************************)
SetUpForExchange ==
  \A s \in SetupRun, r \in AliceRun :
    LET posted == AliceTransaction(ledger, r)
        stored == [files EXCEPT !["escrow"] = escrowAccount[r]] IN
    /\ stage[s] = "done"
    /\ pc[r] = "send"
    /\ seen[r].files = files
    /\ \A o \in Run : tx[o] = "none"
    /\ ledger.lamports[alice] >= TokenRent + EscrowRent
    => /\ AliceTransactionOk(ledger, r)
       /\ ExchangeOk(posted, ExchangeKeys(stored, posted.escrow[escrowAccount[r]]), {bob},
                     terms[r].bobExpectedAmount)

=============================================================================
