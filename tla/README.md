# sol-contracts in TLA+

Specifications, model checks and proofs for the programs and clients of this
repository: the escrow program and its TypeScript client, and the
transfer-lamports program and its client. Paths below are relative to
`src/packages/`.

## The system

| Component | Code | State it keeps | Operations |
|---|---|---|---|
| escrow program | `escrow/program/src/processor.rs`, `state.rs` | per escrow account: initialised flag, initializer, vault, receiving account, expected amount (`state.rs:10-26`); through the token program, the ownership of every vault | `InitEscrow` (39-127), `Exchange` (128-277) |
| encoding of instructions and state | `instruction.rs` of both programs, `state.rs:43-110`, `escrow/js/src/util.ts:54-68`, `sol-common/js/src/utils.ts:121-127` | instruction data under way, account data | pack and unpack, in Rust and in TypeScript |
| escrow client | `escrow/js/src/{main,alice,bob,verify,util}.ts` | key files, `terms.json`, what a run has read | post an escrow and verify it; take the stored escrow and verify it |
| escrow client set-up | `escrow/js/src/setup.ts` | key files | fund the parties, create two mints and four accounts, mint, write each key file |
| transfer-lamports program | `transfer-lamports/program/src/processor.rs`, `instruction.rs` | lamports of two accounts | one transfer |
| transfer-lamports client | `transfer-lamports/js/src/{transfer-lamports,main}.ts` | a temporary keypair per call | fund it, then transfer, assign and call the program in one transaction |
| Conn | `sol-common/js/src/conn.ts` | labels | airdrop, rent exemption, sending with and without confirmation, reads |
| services | token program, system program, runtime (not in the repository) | all accounts | transfer, set authority, close, create, rent collection, atomic transactions |

The clients talk to the programs through transactions and read the ledger
through RPC requests. A program handler calls the token program in the middle of
its own work and uses values it read before the call. Runs of the escrow client
share key files and nothing else. There is no locking anywhere; what order there
is comes from the runtime, which executes transactions one at a time and restores
every account when one fails.

What is hard here:

* One derived address owns every vault and signs for all of them
  (`processor.rs:90, 156`). Only the fields of the escrow account keep the vaults
  apart, and escrow accounts and vaults are removed and may be created again.
* `Exchange` works with an amount read before its first call (149-150, 225), on
  accounts that may be the same account in several roles, and that others may pay
  into at any time.
* The escrow client does not wait for its transactions. It sleeps, reads, and
  draws conclusions; a transaction may be executed after the conclusion was drawn.
* A set-up replaces key files one by one, while other runs may read them, and may
  end between two of them.
* `transferLamports` waits with a time limit, and funds its temporary account by
  a request of its own whose outcome it does not look at.
* `initAccount` computes the second airdrop from a balance that the first, whose
  outcome it does not look at either, and rent may change.
* Rust and TypeScript read and write the same bytes with no code in common.

What makes each part correct:

* escrow program: what the derived address holds is what open escrows hold; an
  open escrow changes only by being paid for in full; an open escrow does not get
  stuck;
* escrow client: what is stored can be taken; the taker gets what his terms name
  for the price he read; a run that has reported success pays nothing later;
  every run ends;
* set-up: no account of any set-up, an abandoned one included, holds other than
  it was given and traded; after a set-up that ended well the exchange can happen;
* transfer-lamports: balances are what executed transactions make them; what was
  reported as paid is paid; only a payer's lack of funds makes a call fail;
* encoding: what one side writes the other reads, and no other bytes are acted on;
* `initAccount`: an account ends up with what it needs and nothing more.

## The modules

| Module | What it is |
|---|---|
| `Accounts` | The ledger (token accounts, escrow accounts, lamports) and the services, each as an operator `<Op>Ok` with the checks and `<Op>` with the resulting ledger. External: modelled from how the code uses them. |
| `Escrow` | The two handlers of `processor.rs` and what clients do to the accounts around them, with the program's properties. EXTENDS `Accounts`. |
| `AtomicSwap` | The abstract specification: offers are posted and settled in one step. Knows nothing of programs, signatures or rent. |
| `EscrowSwap` | The refinement mapping from `Escrow` to `AtomicSwap`. |
| `EscrowProofs` | The theorems about `Escrow` and their proofs. |
| `EscrowSwapProofs` | The proof that `Escrow` implements `AtomicSwap`. |
| `EscrowClient` | Runs of `escrow/js/src/main.ts` over the handlers of `Escrow`. EXTENDS `Escrow`: a transaction's checks and effects are the operators of `Escrow` and `Accounts`, applied in a chain. |
| `EscrowClientProofs` | Theorems about any number of runs of both parties. EXTENDS `EscrowProofs` for the effects of the handlers. |
| `EscrowSetup` | Runs of `setup.ts` beside those of `EscrowClient`, which it EXTENDS. |
| `EscrowSetupProofs` | Theorems about set-ups beside runs of both parties. EXTENDS `EscrowClientProofs`. |
| `TransferLamports` | The transfer-lamports program and calls of its client. |
| `TransferProofs` | Theorems about any number of calls. |
| `TransferMain` | `main.ts` of transfer-lamports: `Conn.initAccount` for payer and receiver, then a call of `TransferLamports`, which it EXTENDS. |
| `TransferMainProofs` | Theorems about `initAccount` and the call after it, for any amounts. EXTENDS `TransferProofs`. |
| `Codec` | The bytes of instructions and of escrow accounts, as both languages write and read them. |
| `CodecProofs` | Theorems about both languages' conversions, for bytes of any base and amounts and keys of any width. |
| `DataLemmas` | Induction over data: sums over finite sets, recursive functions, quotients. Used by the proofs about runs, calls, set-ups and bytes. |
| `MCEscrow`, `MCEscrowClient`, `MCEscrowSetup`, `MCTransferLamports`, `MCTransferMain`, `MCCodec` | Instances for TLC. |

### Accounts and Escrow

`ledger` is one variable, because a handler's later calls see what the earlier
ones left: `ExchangeOk` checks the second transfer on `PaidInitializer(L, a)`,
the closing of the vault on `PaidTaker(L, a)`, and the final addition on
`ClosedVault(L, a)`. `InitEscrowAccounts` and `ExchangeAccounts` name the
positions of the account list in the order of the `next_account_info` calls.
Every early return and every failing call aborts the transaction, so the checks
are one conjunction and the error code is not modelled. An account exists while
it has lamports; emptying it removes it with its data. Clients are open: any
wallet may create, pay into, and close token accounts, create escrow accounts with
any balance, and call the handlers with any accounts. The rest of the module is
the properties.

`Named`, `HeldBy` and `OfMintOf` leave out of the enumeration of `Exchange` the
account lists that must fail anyway (accounts that differ from the recorded ones,
a sending account the taker does not own); `ExchangeOk` still has the checks.
`processor.rs` never compares the owner of the escrow account (66, 165-166): it
unpacks whatever it is given. That the account is one of the program's
(`EscrowKey`) is the runtime's rule that a program may debit and write only what it
owns, checked when the call ends; see "What is not modelled" for what that leaves
out. An escrow account that exists has the 105 bytes
`Escrow::unpack` asks for. That tokens are neither made nor lost is the token
program's doing and no property here.

### EscrowClient

Each run of `main.ts` is a process with a program counter `pc`, one transaction
`tx`, and what it has read (`seen`): the key files, and for Bob the decoded
escrow and two balances. The key files are one variable, `files`, from the name of
a file to the address in it; a run reads the ones it needs at once (`alice.ts:23-29`,
`bob.ts:19-25` make no request in between), and `verify.ts` reads them again. The
escrow file checked in under `escrow/js/keys` names an account nobody has
(`NoKey`). `Submit` is a send with its
preflight simulation; `Execute` and `Expire` are the cluster's; `Throw` is any
awaited request that fails, or the process being killed. Sleeping promises
nothing, so it is not a step. `SETUP=1 ALICE=1 BOB=1` in one process is a
sequence of these runs. `verifyExchangedEscrow` reads four accounts one after the
other; the first two disappear in one step and for good, so their reads are one
step (`Closed`), the balances are two more. `bob.ts:56-59` asks for both start
balances at once; the model reads Alice's first. The two are compared with later
balances of their own accounts only, so that no property depends on the order. A run that an assertion of
`verify.ts` ends is `"refuted"`, any other unsuccessful end is `"failed"`.

### EscrowSetup

`Setup` is the list of the eleven transactions of `setup()`, in its order; each
set-up is a process at one of them, which it sends, waits for and, where
`setupMint` writes a key file, stores. Airdrops are confirmed without looking at
their outcome, the token library's transactions throw unless they succeed. A
set-up may throw or be killed anywhere with its transaction still to be executed.
The files first name the accounts of an earlier set-up, so that a run of either
party can have the old names, the new ones, or some of each. Mints are not on the
ledger: `Token.createMint` is confirmed before anything names the mint.

### TransferLamports and TransferMain

Each call is a process: the airdrop of `initAccount` (executed or lost), the
transaction of three instructions, the wait. `ToppedUp`, `Assigned` and
`ProcessInstruction` are the three instructions; `TransactionOk` is what makes
all of them succeed. The runtime's rules that the program's two assignments
depend on are in `ProcessInstructionOk`: an account cannot be borrowed twice, a
program spends only from accounts it owns, and balances that do not add up or leave the range of a u64 abort
the transaction. The payer pays a fee for each transaction that is executed, also
for one that fails. An account below the exemption, a party's or a temporary one,
loses rent at any time; `airdropped` and `rent` keep what came and went by no
transaction, are read by no action but `MakeAccountRentExempt` (which notes the
second in `rentRead`), and let `BalancesAccounted` speak of every account.

`TransferMain` puts `initAccount` for the payer and then for the receiver before
one call: an airdrop of at least `KeepAlive` lamports (conn.ts:34), the balance,
and a second airdrop over what is missing (`Needed`). The faucet may execute,
refuse or forget an airdrop at any time; `collected` is
the rent an account has lost since its balance was read.
`GiveUp` is any request that throws and any confirmation that takes too long.

### Codec

A byte is a digit of base `ByteBase`, an amount `AmountBytes` and a key `KeyBytes`
digits; `Weight[k]` is what a byte with k bytes below it counts. Each side's conversions are translated from its own code: Rust's
`to_le_bytes` and `from_le_bytes`, the BN conversions of `alice.ts` and `bob.ts`,
`pack_into_slice` chunk by chunk, and the layout of `util.ts` as a list of fields
with their widths. The module is a small machine around them, so that what an
account's data can be is what the operations make it: instruction data under way,
sent by a client of either language or by anyone, and the data of one escrow
account, created, initialised and emptied.

## The runs

| Run | Question | Bounds | Distinct states |
|---|---|---|---|
| `EscrowShared` | Do two escrows under one derived address disturb one another, and can each be settled? | 2 wallets, 4 token accounts of 2 mints, 2 escrow addresses (symmetric), amounts 0 and 1 | about 67,000 |
| `EscrowSwap` | Does an address that is used again inherit anything, is every settlement complete, does a sum that would overflow fail, and do the handlers implement the atomic swap? | 1 escrow address, 4 token accounts of which two may be closed and created again, a u64 is at most 5 | about 69,000 |
| `EscrowLayout` | (violation) Is the unit tests' account list accepted? | as `EscrowSwap`, nothing closed | |
| `ClientTerms` | Does every executed transaction move what its run's terms and reads name, whatever happens in between, and do runs end? | 2 runs of Alice that compete for one token X, 2 runs of Bob, one with other terms | about 8,000 |
| `ClientRace` | Is what is stored takeable, and is a verified exchange final? | 2 runs of Alice, both affordable, 2 runs of Bob | about 43,000 |
| `ClientLost` | (violation) Does a failed verification mean there is no escrow? | 1 run of each | |
| `Setup` | What do runs do with files of two generations, and does set-up, Alice, Bob work in that order? | 1 set-up over the accounts of an earlier one, 1 run of each party | about 188,000 |
| `Codec` | Do the two languages read alike what either writes? | base 3, amounts of 2 bytes, keys of 3, 3 keys, arbitrary input up to 4 bytes | about 36,000 |
| `TransferLamports` | Are calls that compete for funds accounted for and do they end? | 3 calls, 2 parties that pay one another, amounts 1 and 2, fee 1 | about 77,000 |
| `TransferLimit` | Does a payment to oneself or over the range of a u64 leave the balances right? | 3 calls to one receiver, one of them its own, who holds 5 of at most 8 lamports | about 56,000 |
| `TransferMain` | Do accounts start with what they need, and does a call do what the test says? | 1 call over 2 SOL, 6 balances of the payer, rent exemption 4, a SOL is 1000 | about 3,600 |
| `TransferTmp` | (violation) Is the temporary account emptied? | as `TransferLamports` | |

Why these bounds. A mix-up of escrows needs two of them, and one mint on each
side; amounts 0 and 1 tell an empty vault from a full one, a price from no price,
and a stale amount from a current one (an account in two roles, or a deposit,
makes the vault hold 0, 1 or 2). `U64Max` is 15, above the sum of all balances, except in `EscrowSwap`: there a
u64 is at most 5. An initializer who has paid for the escrow account has room for
what comes back; one for whom the other party has paid holds 3 lamports, gets the
rent of the vault, and fails the checked addition of the escrow account's
(`processor.rs:269-272`). The proofs are for
every `U64Max`. `ChurnKeys` bounds the accounts that are created and closed, and
`Amounts` what callers name. In `ClientRace` the terms are 2 and 1, so that a
swapped term shows. In `Setup` two generations of four accounts each give every
mixture of files a reader can see; more set-ups repeat the same eleven steps.
In `Codec` base 3 has a byte that is neither `false` nor `true`, and amounts and
keys differ in width, so that a field read at the place or with the width of
another shows; inputs of 4 bytes are longer than any instruction. In
`TransferLamports` the first two calls cannot both be paid from what the payer
holds, and the third call pays it back, so an executed, a turned down and a delayed
transaction of the same payer all occur. In `TransferLimit` the payer of the first
call is its receiver, and the second payment of the other two leaves the range of a
u64 unless rent or the fee of the first call has made room. In `TransferMain` a hundredth of a SOL is
10 lamports, more than twice the rent exemption and the fee, as it is in truth,
and the payer has nothing, too little, exactly the amount (and not the fee), the fee with it, or more.

Deadlock is checked in `Codec` only: the other systems may stop, when all runs or
calls have ended, or when no account is left that could be traded.

Fairness. `EscrowClient` and `TransferLamports` assume weak fairness of each run's
own steps (an awaited request resolves or throws, a `sleep` ends) and of the
cluster's decision on a transaction, `Execute \/ Expire`: a blockhash expires, so
a pending transaction does not stay pending; nothing obliges the cluster to
execute one. `TransferMain` assumes it of the client only, `GiveUp` being one of its
steps: web3's confirmations have a time limit. Faucet and cluster may stay silent.
`Escrow`, `EscrowSetup` and `Codec` state safety only and assume none.

### What the violation runs show

* `EscrowLayout`. `processor.rs:92` says the token program is account 5, and the
  list in `test_utils.rs:105-112` has the rent account before it; the handler
  reads the token program from position 4, as `instruction.rs:20` says, and
  refuses the other list. (`tests/init-escrow.rs` disagrees with the handler
  too: it passes a receiving account of the system program, an escrow account
  without lamports and the escrow program for the token program, and expects
  success.)
* `ClientLost`. `alice()` does not wait for its transaction. The assertion
  "Escrow account info not found" (`verify.ts:47`) may end the run before the
  transaction is executed: the escrow then exists with Alice's tokens in it, its
  address is not stored, and the program has no instruction that cancels an
  escrow.
* `TransferTmp`. The comment at `transfer-lamports.ts:18-21` says all funds of
  the temporary account go to the receiver. The account is funded twice (24-27
  and 29-33), the program moves the amount once.

## What is proved

Everything below is for any finite sets of runs, calls and set-ups (the wallets,
accounts and mints beside them may be infinite), for any amounts, terms and keys,
and for any `U64Max`, from the named assumptions on the constants and from the
hypotheses named with each theorem. `E`, `C`, `S`, `T`, `M` and `D` stand for
`EscrowProofs`, `EscrowClientProofs`, `EscrowSetupProofs`, `TransferProofs`,
`TransferMainProofs` and `CodecProofs`.

| Theorem | Property | Hypothesis |
|---|---|---|
| E `Invariance`, `TypeCorrect`, `Custody` | `IInv`, `TypeOK`, `CustodyInv` | |
| E `OpenKept` | `OpenEscrowsKept`: no step changes an open escrow's terms or takes from its vault | |
| E `SettledInFull` | `ClosedEscrowsSettled`: an escrow closes only by a full settlement | |
| E `NeverStuck` | `Settleable` | `RoomLeft`, in the states it is claimed of |
| `EscrowSwapProofs` `Refinement` | `ImplementsAtomicSwap` | |
| C `ClientInvariance`, `ClientTypeCorrect` | `ClientInv`, `ClientTypeOK` | |
| C `NothingPaidLate` | `NoLatePayment` | |
| C `Honoured` | `TermsHonoured`: every account's balance is what executed runs, each at its own terms, make it | |
| C `StoredTakeable` | `StoredEscrowTakeable` | `SetUpEnded`, and `RoomLeft` as above |
| S `SetupInvariance`, `Audited` | `AccountsAudited`, for any number of set-ups that overlap and end anywhere | |
| S `ExchangePrepared` | `SetUpForExchange`: after set-up Alice can post and Bob can then take | `OneSetUp` |
| T `Invariance`, `TypeCorrect` | `TypeOK` | |
| T `Accounted` | `BalancesAccounted`: parties' balances by amounts, fees and rent, temporary accounts' by airdrops and rent | |
| T `NothingPromisedOnly` | `ReturnedPaid` | |
| T `OnlyThePayer` | `OnlyPayerFails` | `Room`, always |
| M `MainInvariance`, `NotALamportMore` | `ToppedUpExactly` | |
| M `NotSent` | `InsufficientNotSent`: less than the amount and the fee, if only by one lamport | `PaysEnough` |
| M `SeenAsPaid` | `TransferAsTested` | `AsInTheTest` |
| D `CodecInvariance`, `AsMeant` | `InstructionsArrive` | |
| D `NothingElseAccepted` | `OnlyPackedAccepted`, for input of any length up to `MaxInput`, which is any number | |
| D `SameReading` | `EscrowReadAlike` | |

The hypotheses, and why the code justifies or needs them:

* `RoomLeft`: no sum of balances of one mint, or of lamports, leaves the range of
  a u64. Otherwise a payment overflows and the exchange fails, as it should.
  `Room` is the same of the lamports of receivers and temporary accounts.
* `SetUpEnded`: the key files name accounts of the parties and mints their names
  say, as `setup.ts` leaves them. `MCEscrowClient` evaluates it.
* `OneSetUp`: one set-up, whose keypairs differ; vaults nobody has paid into; terms
  that ask for no more than `setup.ts` mints. Two set-ups at once leave files of
  both, and the exchange need not work. No room is assumed: what set-up mints and
  Alice posts fits by itself. `MCEscrowSetup` evaluates it.
* `PaysEnough`: the call pays more than `initAccount` puts into an account of
  itself. A payer who asked for no lamports still gets the larger of `KeepAlive`
  and `RentExempt`, and could pay a smaller amount from it.
* `AsInTheTest`: the amounts of `transfer-lamports.test.ts` compared to a fee and a
  rent exemption, both below half a hundredth of a SOL. `MCTransferMain` evaluates
  both.

Constants are assumed to be what the code makes them: keypairs of runs are fresh
and differ (`ClientAssumption`, `Keypair.generate()` in `alice.ts`), set-ups
do not make vaults (`SetupAssumption`), payer and receiver of `main.ts` are two keypairs
(`MainAssumption`), and the sets of runs, set-ups and calls are finite.

### The arguments

*The program.* `CustodyInv` is not inductive: it says nothing of a vault whose
address could be allocated again, or of an escrow account that could be removed
for unpaid rent. `IInv` adds `AccountsFunded`: an account without lamports is
empty, an account with lamports exists, and open escrows are rent exempt. Then
creating an account cannot hit a vault (it has lamports), rent collection cannot
hit an open escrow, `InitEscrow` cannot take a vault that is already held (its
owner is the derived address, which signs nothing there), and `Exchange` frees
exactly the vault of the escrow it removes.

One lemma per service says what it does to each part of the ledger
(`TransferEffect`, `SetAuthorityEffect`, `CloseAccountEffect`,
`CreateAccountEffect`); `InitEscrowResult` and `ExchangeResult` say what a whole
handler leaves behind, and carry the arithmetic: `NothingLeft` is the step that
says the vault is empty when it is closed, whichever of the accounts coincide.
One `...Inv` lemma per action proves each conjunct of `IInv`; `NextInv` puts
them together. The two action properties use `IInv` and the same result lemmas.
`FittingSettleable` goes through the checks of `ExchangeOk` in their order and
shows each from `IInv` and the conditions of `Settleable`; `Refinement` maps each
action to the action of `AtomicSwap` of the same meaning.

*Runs of the client.* `ClientInv` says why a verified exchange stays verified: key
files name accounts of the kind their names say, a run sends one transaction, an
escrow account is made by the one executed transaction of the one run of Alice
with its key (`MadeBy`), and hence an escrow that a run of Bob has decoded and then
seen closed does not come back. `PostedInv` adds what a run of Bob knows: the escrow he has decoded is one that
a run of Alice has posted, at the terms she recorded; it is what makes the price in
his transaction her price. `ClientStep` divides the steps into those that execute
a transaction and the `Quiet` rest, which leaves balances, sums and `PostedInv`
alone; `ExecutedMoves` and `ExecutedSums` put what an executed transaction moves
beside what it adds to the sums of `TermsHonoured`. For `StoredEscrowTakeable`,
`FilesInv` says what is stored was posted, and `VaultsInv` that the vault of an
open escrow holds what its run has paid in and that the accounts keep their mints and
owners; `FittingSettleable` does the rest.

*Set-up.* `SetupInv` is `ClientInv` beside set-ups that replace the files one at a
time: each set-up's accounts are made by it alone, and a run reads files whose
accounts, of whichever generation, are of the right kind. `AccountsAudited` adds the
sum of the mints that were executed, also those whose set-up has given up waiting.
`GroundInv`, for `ExchangePrepared`, says that each file a set-up has gone beyond
names its account (`FilesWritten`), and that as long as no run has sent anything
the accounts hold what was minted into them and the keys of runs are unused
(`GroundLaid`). `AliceCanPost` takes the four parts of Alice's transaction in
order, and `PreparedExchange` shows the exchange possible in what they leave.

*Transfers.* `TransferInv` adds to `TypeOK` that a temporary account is empty before
its airdrop; `OnePayment` says that three instructions and the fee come to one
payment that leaves the temporary account as it was, and hence what each call
adds to the two sums of `PartiesAccounted`. `TmpAccounted` needs no sum: no
transaction changes a temporary account, so only its airdrop and rent do.
`ReturnedPaid` follows from the two and from what `Confirm` looks at. A call that
was told it failed may have paid (`transfer-lamports.ts:61`): the properties account
for that payment, and nothing in the code rules it out.

`MainInv` follows an account through `initAccount`: `Untouched`, `Asking` for the
first airdrop, `ToppingUp`, `Ready`. While an airdrop is under way the balance and
what is still asked for never exceed what the account needs, and what rent took
since the balance was read is `collected`: this is why a late airdrop beside a
second one gives no lamport too many. `Affordable` (a call that was sent could be
paid) and `Paid` (what an executed call leaves) carry it through the call;
`Quotient` and `Rounded` are the arithmetic of `getBalanceSol`.

*Bytes.* The numbers are read and written by three recursions that have nothing in
common: `from_le_bytes` counts down from the highest byte, BN's constructor adds
up the bytes by their weights, `toArray` divides again and again. `Weights`,
`Values` and `SameBytes` say what each computes, `ReadBack` and `WrittenBack` that
`to_le_bytes` and `from_le_bytes` are inverse to one another on a u64,
`CountedUp` that the sum is the same number. `Offsets` adds up the spans of the
layout, `ReadAlike` compares its fields with the chunks of `unpack_from_slice` and
`PackedEscrow` takes `pack_into_slice` apart again. `CodecInv` says that what a client has encoded is
what `Pack` writes, and that an account is missing, zeroed, or the packed form of
what was recorded.

*Induction over data.* Three of the properties are sums over sets of runs, calls
or mints, and the bytes are read by recursive functions. The library's rules of
induction take an operator as a parameter, which the provers cannot instantiate.
`SubsetInduction` and `NatGood` in `DataLemmas` have the set of the subsets or
numbers for which the claim holds in place of the operator, and follow from the
library's theorems that strict inclusion between finite sets and the order of the
naturals are well founded. From them: the recursions define functions (`SumsExist`,
`RecursionDefines`), any element of a sum may be taken first (`SumTake`), and what
adding or changing one element does to the sum.

Only model-checked: `StoredEscrowTakeable` while a set-up still runs
(`StoredTakeable` is for set-ups that have ended); and liveness (`RunsEnd`,
`CallsEnd`, `MainEnds`), which is out of the prover's reach. Every other property
that a passing run checks is stated by a theorem above.

## What is not modelled

* Error codes, messages, compute units, labels, printing.
* Delegates, frozen accounts, close authorities, wrapped SOL and multisig owners
  of the token program: no client here uses them. Token accounts that are
  allocated and not initialised: clients do both in one transaction.
* Writable flags; transactions with several program calls other than Alice's own,
  in particular one that funds an account again in the transaction that empties it.
  The properties of custody are about transactions of one call, also for this
  reason: the handlers do not compare the escrow account's owner, and the rule of
  the runtime that makes up for it is about lamports and data that change, so it
  says nothing of a foreign account that has no lamports to move.
* Clients that hand an account of theirs to the derived address by a call of the
  token program of their own: in the model only `InitEscrow` does.
* Fees of the escrow's transactions and rent of its wallets: a wallet's balance
  bounds what it can pay for. Fees and the rent of wallets are in
  `TransferLamports` and `TransferMain`, where the test reads balances of wallets.
* Writes of part of a key file: a file is written at once.
* Numbers BN refuses (2^53 and above): such a run throws before it sends anything,
  and `ClientEncode` has its bound, `JsLimit`.
* `getConfirmedTransaction`, labels and the explorer's label file; `util.ts:80` and
  others ask for `alice_Y`, which set-up writes as `alice_y`: the model gives each
  file one name.
* The fixtures of the Rust tests.
* Entry points, compute macros, assembly listings, scripts.

An escrow whose receiving account is a mint, an account of another owner's
choosing, the vault itself or a closed account is allowed by the code; the
model has these cases. `Settleable` says which escrows can be settled, and such
escrows are not among them, except a vault that is its own receiver at price zero.

## Plan

Done: the programs, their encodings, both clients, the set-up and `initAccount`, with
the proofs above. Left, in this order:

1. `StoredEscrowTakeable` beside a set-up that runs: which mixtures of files leave
   a stored escrow takeable.
2. `EscrowClient` with deposits into vaults by third parties, and `TermsHonoured`
   with them.
