-------------------------- MODULE EscrowSetupProofs --------------------------
(***************************************************************************)
(* Proofs about set-ups beside runs of the escrow client, for any number   *)
(* of set-ups and runs, any keys the set-ups generate, any terms and any   *)
(* accounts the parties start with.                                        *)
(***************************************************************************)
EXTENDS EscrowSetup, EscrowClientProofs

Kind == {"airdrop", "createMint", "createAccount", "mintTo"}

\* What each of the transactions is about; those with a file create it.
LEMMA SetupAt ==
  ASSUME NEW i \in 1 .. 11
  PROVE  /\ DOMAIN Setup = 1 .. 11 /\ Len(Setup) = 11
         /\ Setup[i].kind \in Kind
         /\ Setup[i].kind = "airdrop" => Setup[i].to \in Wallet
         /\ Setup[i].kind = "createMint" => Setup[i].file \in MintFile
         /\ Setup[i].kind = "createAccount" =>
              Setup[i].file \in TokenFile /\ Setup[i].owner \in Wallet /\ Setup[i].mint \in MintFile
         /\ Setup[i].kind = "mintTo" => Setup[i].account \in TokenFile
         /\ "file" \in DOMAIN Setup[i] <=> Setup[i].kind \in {"createMint", "createAccount"}
<1>1. DOMAIN Setup = 1 .. 11 /\ Len(Setup) = 11
  BY DEF Setup
<1>2. i \in {1, 2, 3} \/ i \in {4, 8} \/ i \in {5, 6, 9, 10} \/ i \in {7, 11}
  OBVIOUS
<1>3. CASE i \in {1, 2, 3}
  <2>1. PICK to \in Wallet : Setup[i] = Airdrop(to)
    BY <1>3, ClientAssumption, SetupAssumption DEF Setup
  <2> QED BY <1>1, <2>1 DEF Airdrop, Kind
<1>4. CASE i \in {4, 8}
  <2>1. PICK name \in MintFile : Setup[i] = CreateMint(name)
    BY <1>4 DEF Setup, MintFile
  <2> QED BY <1>1, <2>1 DEF CreateMint, Kind
<1>5. CASE i \in {5, 6, 9, 10}
  <2>1. PICK owner \in Wallet, name \in TokenFile, mint \in MintFile :
          Setup[i] = CreateAccountFor(owner, name, mint)
    <3>1. alice \in Wallet /\ bob \in Wallet
      BY ClientAssumption
    <3>2. /\ Setup[5] = CreateAccountFor(alice, "alice_x", "mint_x")
          /\ Setup[6] = CreateAccountFor(bob, "bob_x", "mint_x")
          /\ Setup[9] = CreateAccountFor(alice, "alice_y", "mint_y")
          /\ Setup[10] = CreateAccountFor(bob, "bob_y", "mint_y")
      BY DEF Setup
    <3> QED BY <1>5, <3>1, <3>2 DEF TokenFile, MintFile
  <2> QED BY <1>1, <2>1 DEF CreateAccountFor, Kind
<1>6. CASE i \in {7, 11}
  <2>1. PICK name, mint : name \in TokenFile /\ Setup[i] = MintTo(name, mint)
    BY <1>6 DEF Setup, TokenFile
  <2> QED BY <1>1, <2>1 DEF MintTo, Kind
<1> QED
  BY <1>2, <1>3, <1>4, <1>5, <1>6

-----------------------------------------------------------------------------
(* The inductive invariant.                                                *)

SetupTypeOK ==
  /\ step \in [SetupRun -> 1 .. 11]
  /\ stage \in [SetupRun -> {"send", "confirm", "write", "done", "failed"}]
  /\ confirmed \in [SetupRun -> {"none", "pending", "ok", "error", "expired"}]

\* What a set-up is about to send has not been sent, it writes the file of what
\* it has created, and it is done when the last transaction has been executed.
StagesInv ==
  \A s \in SetupRun : /\ stage[s] = "send" => confirmed[s] = "none"
                      /\ stage[s] = "write" => At(s).kind \in {"createMint", "createAccount"}
                      /\ stage[s] \in {"write", "done"} => confirmed[s] = "ok"
                      /\ stage[s] = "done" => step[s] = 11

\* The transactions whose outcome is looked at, and those with a key file.
Awaited == {p \in SetupRun \X (1 .. 11) : Setup[p[2]].kind # "airdrop"}
Written == {4, 5, 6, 8, 9, 10}

\* There is nothing at an address without lamports.
Funded == \A k \in TokenKey \ Vaults : ledger.lamports[k] = 0 => ledger.token[k] = NoToken

SetupInv ==
  /\ ClientInv
  /\ PostedInv
  /\ SetupTypeOK
  /\ StagesInv
  /\ Funded
  /\ AccountsAudited

-----------------------------------------------------------------------------
(* What the transactions of a set-up do to the ledger.                     *)

\* The account the transaction mints into.
MintsInto(s, k) == At(s).kind = "mintTo" /\ fresh[s][At(s).account] = k

\* Everything a transaction does to token accounts, and where it moves lamports.
LEMMA SetupTransactionEffect ==
  ASSUME ledger \in Ledger, SetupTypeOK, NEW s \in SetupRun, SetupTransactionOk(s)
  PROVE  LET t == At(s)
             M == SetupTransaction(s)
             account == fresh[s][t.account]
             created == fresh[s][t.file] IN
         /\ M \in Ledger /\ M.escrow = ledger.escrow
         /\ t.kind \in {"airdrop", "createMint"} =>
              /\ M.token = ledger.token
              /\ \A x \in TokenKey \cup EscrowKey : M.lamports[x] = ledger.lamports[x]
         /\ t.kind = "createAccount" =>
              /\ created \in TokenKey \ Vaults /\ ledger.lamports[created] = 0 /\ M.lamports[created] # 0
              /\ M.token = [ledger.token EXCEPT ![created] = [mint |-> fresh[s][t.mint], owner |-> t.owner, amount |-> 0]]
              /\ \A x \in (TokenKey \cup EscrowKey) \ {created} : M.lamports[x] = ledger.lamports[x]
         /\ t.kind = "mintTo" =>
              /\ account \in TokenKey \ Vaults /\ IsTokenAccount(ledger, account)
              /\ M.token[account] = [mint |-> ledger.token[account].mint, owner |-> ledger.token[account].owner,
                                     amount |-> ledger.token[account].amount + Minted]
              /\ \A k \in TokenKey \ {account} : M.token[k] = ledger.token[k]
              /\ M.lamports = ledger.lamports
<1> DEFINE t == At(s)
           M == SetupTransaction(s)
<1>1. /\ t.kind \in Kind
      /\ t.kind = "airdrop" => t.to \in Wallet
      /\ t.kind = "createAccount" => t.file \in TokenFile /\ t.owner \in Wallet /\ t.mint \in MintFile
      /\ t.kind = "mintTo" => t.account \in TokenFile
  BY SetupAt DEF SetupTypeOK, At
<1>2. /\ ledger.token \in [TokenKey -> TokenAccount]
      /\ ledger.lamports \in [Wallet \cup TokenKey \cup EscrowKey -> U64]
      /\ ledger = [token |-> ledger.token, escrow |-> ledger.escrow, lamports |-> ledger.lamports]
      /\ ledger.escrow \in [EscrowKey -> EscrowAccount]
  BY LedgerParts
<1>3. /\ U64Max \in Nat /\ Airdropped \in Nat /\ Minted \in Nat /\ TokenRent \in U64 /\ TokenRent # 0
      /\ client \in Wallet
      /\ \A k \in TokenKey : ledger.token[k].amount \in Nat
      /\ \A x \in TokenKey \cup EscrowKey : x \notin Wallet
  BY <1>2, RentAssumption, SetupAssumption, AddressAssumption DEF U64, TokenAccount
<1>4. CASE t.kind = "airdrop"
  <2>1. M = [ledger EXCEPT !.lamports[t.to] = @ + Airdropped]
    BY <1>4 DEF SetupTransaction
  <2>2. ledger.lamports[t.to] + Airdropped <= U64Max
    BY <1>4 DEF SetupTransactionOk
  <2>3. PICK to, f : /\ to = t.to /\ f = [ledger.lamports EXCEPT ![to] = ledger.lamports[to] + Airdropped]
    OBVIOUS
  <2>4. to \in Wallet
    BY <1>1, <1>4, <2>3
  <2>5. f \in [Wallet \cup TokenKey \cup EscrowKey -> U64]
    BY <1>2, <1>3, <2>2, <2>3, <2>4 DEF U64
  <2>6. M = [token |-> ledger.token, escrow |-> ledger.escrow, lamports |-> f]
    BY <1>2, <2>1, <2>3
  <2>7. \A x \in TokenKey \cup EscrowKey : f[x] = ledger.lamports[x]
    BY <1>2, <1>3, <2>3, <2>4
  <2> HIDE DEF M, t
  <2>8. M \in Ledger /\ M.escrow = ledger.escrow /\ M.token = ledger.token /\ M.lamports = f
    BY <1>2, <2>5, <2>6 DEF Ledger
  <2> QED BY <1>4, <2>7, <2>8 DEF M, t
<1>5. CASE t.kind = "createMint"
  BY <1>5 DEF SetupTransaction
<1>6. CASE t.kind = "createAccount"
  <2>1. PICK j, account, C :
          /\ j = fresh[s][t.file]
          /\ account = [mint |-> fresh[s][t.mint], owner |-> t.owner, amount |-> 0]
          /\ C = CreateAccount(ledger, client, j, TokenRent)
    OBVIOUS
  <2>2. /\ M = [C EXCEPT !.token[j] = account]
        /\ CreateAccountOk(ledger, client, j, TokenRent)
    BY <1>6, <2>1 DEF SetupTransaction, SetupTransactionOk
  <2>3. j \in TokenKey \ Vaults /\ account \in TokenAccount
    BY <1>1, <1>6, <2>1, SetupAssumption, RentAssumption DEF TokenAccount, U64
  <2>4. /\ C \in Ledger /\ C.escrow = ledger.escrow /\ C.token = ledger.token
        /\ C.lamports = [ledger.lamports EXCEPT ![client] = ledger.lamports[client] - TokenRent, ![j] = TokenRent]
    BY <1>3, <2>1, <2>2, <2>3, CreateAccountEffect DEF CreateAccountOk
  <2>5. C.lamports[j] = TokenRent /\ \A x \in (TokenKey \cup EscrowKey) \ {j} : C.lamports[x] = ledger.lamports[x]
    BY <1>2, <1>3, <2>3, <2>4
  <2>6. PICK T : T = [ledger.token EXCEPT ![j] = account]
    OBVIOUS
  <2>7. M = [token |-> T, escrow |-> C.escrow, lamports |-> C.lamports]
    BY <2>2, <2>4, <2>6, LedgerParts
  <2>8. T \in [TokenKey -> TokenAccount]
    BY <1>2, <2>3, <2>6
  <2>9. C.escrow \in [EscrowKey -> EscrowAccount] /\ C.lamports \in [Wallet \cup TokenKey \cup EscrowKey -> U64]
    BY <2>4, LedgerParts
  <2>10. ledger.lamports[j] = 0
    BY <2>2 DEF CreateAccountOk
  <2> HIDE DEF M, t
  <2>11. M \in Ledger /\ M.escrow = ledger.escrow /\ M.token = T /\ M.lamports = C.lamports
    BY <2>4, <2>7, <2>8, <2>9 DEF Ledger
  <2> QED BY <1>3, <1>6, <2>1, <2>3, <2>5, <2>6, <2>10, <2>11 DEF M, t
<1>7. CASE t.kind = "mintTo"
  <2>1. PICK j : j = fresh[s][t.account]
    OBVIOUS
  <2>2. /\ M = [ledger EXCEPT !.token[j].amount = @ + Minted]
        /\ IsTokenAccount(ledger, j) /\ ledger.token[j].amount + Minted <= U64Max
    BY <1>7, <2>1 DEF SetupTransaction, SetupTransactionOk
  <2>3. j \in TokenKey \ Vaults
    BY <1>1, <1>7, <2>1, SetupAssumption
  <2>4. PICK T : T = [ledger.token EXCEPT ![j] = [ledger.token[j] EXCEPT !.amount = ledger.token[j].amount + Minted]]
    OBVIOUS
  <2>5. M = [token |-> T, escrow |-> ledger.escrow, lamports |-> ledger.lamports]
    BY <1>2, <2>2, <2>4
  <2>6. /\ T[j] = [mint |-> ledger.token[j].mint, owner |-> ledger.token[j].owner,
                   amount |-> ledger.token[j].amount + Minted]
        /\ \A k \in TokenKey : k # j => T[k] = ledger.token[k]
        /\ ledger.token[j] \in TokenAccount
    BY <1>2, <2>3, <2>4 DEF TokenAccount
  <2>7. T \in [TokenKey -> TokenAccount]
    <3>1. T[j] \in TokenAccount
      BY <1>3, <2>2, <2>3, <2>6 DEF TokenAccount, U64
    <3> QED BY <1>2, <2>4, <2>6, <3>1
  <2> HIDE DEF M, t
  <2>8. M \in Ledger /\ M.escrow = ledger.escrow /\ M.token = T /\ M.lamports = ledger.lamports
    BY <1>2, <2>5, <2>7 DEF Ledger
  <2> QED BY <1>7, <2>1, <2>2, <2>3, <2>6, <2>8 DEF M, t
<1> QED
  BY <1>1, <1>4, <1>5, <1>6, <1>7 DEF Kind

LEMMA SetupTransactionResult ==
  ASSUME ledger \in Ledger, Funded, SetupTypeOK, NEW s \in SetupRun, SetupTransactionOk(s)
  PROVE  /\ SetupTransaction(s) \in Ledger
         /\ SetupTransaction(s).escrow = ledger.escrow
         /\ \A k \in TokenKey \ Vaults :
              /\ SetupTransaction(s).token[k].amount
                   = ledger.token[k].amount + (IF MintsInto(s, k) THEN Minted ELSE 0)
              /\ SetupTransaction(s).lamports[k] = 0 => SetupTransaction(s).token[k] = NoToken
<1> DEFINE t == At(s)
<1>1. t.kind \in Kind
  BY SetupAt DEF SetupTypeOK, At
<1>2. PICK M : M = SetupTransaction(s)
  OBVIOUS
<1>3. /\ M \in Ledger /\ M.escrow = ledger.escrow
      /\ ledger.token \in [TokenKey -> TokenAccount]
      /\ Minted \in Nat /\ \A k \in TokenKey : ledger.token[k].amount \in Nat
  <2>1. M \in Ledger /\ M.escrow = ledger.escrow
    BY <1>2, SetupTransactionEffect
  <2>2. ledger.token \in [TokenKey -> TokenAccount]
    BY LedgerParts
  <2> QED BY <2>1, <2>2, RentAssumption, SetupAssumption DEF U64, TokenAccount
<1>4. ASSUME NEW k \in TokenKey \ Vaults
      PROVE  /\ M.token[k].amount = ledger.token[k].amount + (IF MintsInto(s, k) THEN Minted ELSE 0)
             /\ M.lamports[k] = 0 => M.token[k] = NoToken
  <2>1. CASE t.kind \in {"airdrop", "createMint"}
    <3>1. M.token = ledger.token /\ M.lamports[k] = ledger.lamports[k]
      BY <1>2, <2>1, SetupTransactionEffect
    <3>2. ~ MintsInto(s, k)
      BY <2>1 DEF MintsInto
    <3> QED BY <1>3, <3>1, <3>2 DEF Funded
  <2>2. CASE t.kind = "createAccount"
    <3>1. PICK j, account : j = fresh[s][t.file] /\ account = [mint |-> fresh[s][t.mint], owner |-> t.owner, amount |-> 0]
      OBVIOUS
    <3>2. /\ j \in TokenKey \ Vaults /\ ledger.lamports[j] = 0 /\ M.lamports[j] # 0
          /\ M.token = [ledger.token EXCEPT ![j] = account]
          /\ k # j => M.lamports[k] = ledger.lamports[k]
      BY <1>2, <2>2, <3>1, SetupTransactionEffect
    <3>3. ~ MintsInto(s, k)
      BY <2>2 DEF MintsInto
    <3>4. CASE k = j
      <4>1. ledger.token[j].amount = 0 /\ account.amount = 0
        BY <3>1, <3>2 DEF Funded, NoToken
      <4> QED BY <1>3, <3>2, <3>3, <3>4, <4>1
    <3>5. CASE k # j
      BY <1>3, <3>2, <3>3, <3>5 DEF Funded
    <3> QED BY <3>4, <3>5
  <2>3. CASE t.kind = "mintTo"
    <3>1. PICK j : j = fresh[s][t.account]
      OBVIOUS
    <3>2. /\ IsTokenAccount(ledger, j)
          /\ M.token[j] = [mint |-> ledger.token[j].mint, owner |-> ledger.token[j].owner,
                           amount |-> ledger.token[j].amount + Minted]
          /\ k # j => M.token[k] = ledger.token[k]
          /\ M.lamports = ledger.lamports
      BY <1>2, <2>3, <3>1, SetupTransactionEffect
    <3>3. MintsInto(s, k) <=> k = j
      BY <2>3, <3>1 DEF MintsInto
    <3>4. CASE k = j
      <4>1. ledger.lamports[k] # 0
        BY <3>2, <3>4 DEF Funded, IsTokenAccount, NoToken
      <4> QED BY <3>2, <3>3, <3>4, <4>1
    <3>5. CASE k # j
      BY <1>3, <3>2, <3>3, <3>5 DEF Funded
    <3> QED BY <3>4, <3>5
  <2> QED BY <1>1, <2>1, <2>2, <2>3 DEF Kind
<1> QED
  BY <1>2, <1>3, <1>4

-----------------------------------------------------------------------------
(* What the set-ups have minted.                                           *)

MintsOf(k) == {p \in Minting : Executed(p) /\ fresh[p[1]][Setup[p[2]].account] = k}

LEMMA MintingFinite == IsFiniteSet(Minting)
<1>1. IsFiniteSet(SetupRun) /\ IsFiniteSet(1 .. 11)
  <2>1. 1 \in Int /\ 11 \in Int
    OBVIOUS
  <2>2. IsFiniteSet(1 .. 11)
    BY ONLY <2>1, FS_Interval
  <2> QED BY <2>2, SetupAssumption
<1>2. IsFiniteSet(SetupRun \X (1 .. 11))
  BY <1>1, FS_Product
<1>3. Minting \subseteq SetupRun \X (1 .. 11)
  BY SetupAt DEF Minting
<1> QED
  BY <1>2, <1>3, FS_Subset

LEMMA MintedNatural ==
  ASSUME NEW k
  PROVE  IsFiniteSet(MintsOf(k)) /\ MintedTo(k) \in Nat
<1> DEFINE f == [p \in Minting |-> Minted]
<1>1. IsFiniteSet(MintsOf(k)) /\ MintsOf(k) \subseteq Minting
  BY MintingFinite, FS_Subset DEF MintsOf
<1>2. \A p \in MintsOf(k) : f[p] \in Nat
  BY <1>1, SetupAssumption, RentAssumption DEF U64
<1> HIDE DEF f
<1>3. SumFunctionOnSet(f, MintsOf(k)) \in Nat
  BY <1>1, <1>2, SumType
<1> QED
  BY <1>1, <1>3 DEF MintedTo, MintsOf, f

LEMMA SameMinted ==
  ASSUME \A p \in Minting : Executed(p)' <=> Executed(p), NEW k
  PROVE  MintedTo(k)' = MintedTo(k)
<1>1. MintsOf(k)' = MintsOf(k)
  BY DEF MintsOf, Minting
<1> QED
  BY <1>1 DEF MintedTo, MintsOf, Minting

LEMMA MoreMinted ==
  ASSUME SetupTypeOK, NEW s \in SetupRun, confirmed[s] = "pending",
         confirmed' = [confirmed EXCEPT ![s] = "ok"], step' = step, NEW k
  PROVE  MintedTo(k)' = MintedTo(k) + (IF MintsInto(s, k) THEN Minted ELSE 0)
<1> DEFINE f == [p \in Minting |-> Minted]
           c == MintsInto(s, k)
<1>p. PICK p0 : p0 = <<s, step[s]>>
  OBVIOUS
<1>1. step[s] \in 1 .. 11 /\ DOMAIN Setup = 1 .. 11
  BY SetupAt DEF SetupTypeOK
<1>2. /\ p0[1] = s /\ p0[2] = step[s]
      /\ p0 \in SetupRun \X DOMAIN Setup
      /\ \A p \in Minting : p # p0 => (p[1] # s \/ p[2] # step[s])
  BY <1>1, <1>p DEF Minting
<1>3. ~ Executed(p0) /\ Executed(p0)'
  BY <1>1, <1>2 DEF Executed, SetupTypeOK
<1>4. \A p \in Minting : p # p0 => (Executed(p)' <=> Executed(p))
  BY <1>2 DEF Executed, SetupTypeOK, Minting
<1>5. c <=> p0 \in Minting /\ fresh[s][Setup[step[s]].account] = k
  BY <1>2 DEF MintsInto, At, Minting
<1>6. MintsOf(k)' = IF c THEN MintsOf(k) \cup {p0} ELSE MintsOf(k)
  <2>1. \A p : p \in MintsOf(k)' <=> p \in Minting /\ Executed(p)' /\ fresh[p[1]][Setup[p[2]].account] = k
    BY DEF MintsOf, Minting
  <2>2. \A p : p \in MintsOf(k) <=> p \in Minting /\ Executed(p) /\ fresh[p[1]][Setup[p[2]].account] = k
    BY DEF MintsOf
  <2> HIDE DEF c
  <2>3. \A p : p \in MintsOf(k)' <=> p \in MintsOf(k) \/ (c /\ p = p0)
    BY <1>2, <1>3, <1>4, <1>5, <2>1, <2>2
  <2> QED BY <2>3
<1>7. /\ IsFiniteSet(MintsOf(k)) /\ p0 \notin MintsOf(k) /\ c \in BOOLEAN
  BY <1>3, MintedNatural DEF MintsOf, MintsInto
<1> DEFINE g == [p \in Minting \cup {p0} |-> Minted]
<1>8. /\ \A p \in MintsOf(k) \cup {p0} : g[p] \in Int
      /\ \A p \in MintsOf(k) : g[p] = f[p]
      /\ \A p \in MintsOf(k)' : g[p] = f[p]
      /\ g[p0] = Minted
  <2>1. MintsOf(k) \subseteq Minting /\ MintsOf(k)' \subseteq Minting
    BY DEF MintsOf, Minting
  <2>2. Minted \in Int
    BY SetupAssumption, RentAssumption DEF U64
  <2> QED BY <2>1, <2>2
<1>9. IsFiniteSet(MintsOf(k)')
  <2>1. MintsOf(k)' \subseteq Minting
    BY DEF MintsOf, Minting
  <2> QED BY <2>1, MintingFinite, FS_Subset
<1>10. MintedTo(k) = SumFunctionOnSet(f, MintsOf(k)) /\ MintedTo(k)' = SumFunctionOnSet(f, MintsOf(k)')
  BY DEF MintedTo, MintsOf, Minting
<1> HIDE DEF f, g, c
<1>11. /\ SumFunctionOnSet(f, MintsOf(k)) = SumFunctionOnSet(g, MintsOf(k))
       /\ SumFunctionOnSet(f, MintsOf(k)') = SumFunctionOnSet(g, MintsOf(k)')
  <2>1. \A S : IsFiniteSet(S) /\ (\A p \in S : g[p] = f[p]) => SumFunctionOnSet(f, S) = SumFunctionOnSet(g, S)
    BY SumEqual
  <2> QED BY <1>7, <1>8, <1>9, <2>1
<1>12. \A S, T : S = MintsOf(k) /\ (T = IF c THEN S \cup {p0} ELSE S) =>
         SumFunctionOnSet(g, T) = SumFunctionOnSet(g, S) + (IF c THEN g[p0] ELSE 0)
  BY <1>7, <1>8, SumMaybe
<1> QED
  BY <1>6, <1>8, <1>10, <1>11, <1>12 DEF c

-----------------------------------------------------------------------------
(* The steps.                                                              *)

\* To the clients a step of a set-up is one of accounts and key files.
LEMMA BesideInv ==
  ASSUME ClientInv, PostedInv, ledger' \in Ledger, ledger'.escrow = ledger.escrow,
         files' \in Files, KeysOfKind(files'), UNCHANGED <<tx, pc, seen>>
  PROVE  ClientInv' /\ PostedInv' /\ \A k : Received(k)' = Received(k) /\ Paid(k)' = Paid(k)
<1>1. ClientTypeOK'
  BY DEF ClientInv, ClientTypeOK, TypeOK
<1>2. \A e, a : MadeBy(e, a)' <=> MadeBy(e, a)
  BY DEF MadeBy
<1>3. EscrowsMade' /\ \A r \in BobRun : ReadEscrow(r)'
  BY <1>2 DEF ClientInv, EscrowsMade, ReadEscrow, Key
<1>4. SentOnce' /\ \A r \in Run : KeysOfKind(seen'[r].files)
  BY DEF ClientInv, SentOnce
<1>5. ClientInv'
  BY <1>1, <1>3, <1>4 DEF ClientInv
<1>6. Quiet
  BY DEF Quiet, Informed
<1>7. PostedInv'
  BY <1>6, QuietPosted
<1> QED
  BY <1>5, <1>6, <1>7, QuietSums

LEMMA MintingAwaited == Minting \subseteq Awaited
BY SetupAt DEF Minting, Awaited

\* Each transaction that creates something has a key file of its own.
LEMMA FilesOfSetup ==
  ASSUME NEW i \in 1 .. 11
  PROVE  /\ i \in Written <=> Setup[i].kind \in {"createMint", "createAccount"}
         /\ i \in {5, 6, 9, 10} <=> Setup[i].kind = "createAccount"
         /\ i \in {7, 11} <=> Setup[i].kind = "mintTo"
         /\ \A j \in Written : i \in Written /\ Setup[i].file = Setup[j].file => i = j
<1>1. /\ Setup[1] = Airdrop(alice) /\ Setup[2] = Airdrop(bob) /\ Setup[3] = Airdrop(client)
      /\ Setup[4] = CreateMint("mint_x") /\ Setup[8] = CreateMint("mint_y")
      /\ Setup[5] = CreateAccountFor(alice, "alice_x", "mint_x")
      /\ Setup[6] = CreateAccountFor(bob, "bob_x", "mint_x")
      /\ Setup[9] = CreateAccountFor(alice, "alice_y", "mint_y")
      /\ Setup[10] = CreateAccountFor(bob, "bob_y", "mint_y")
      /\ Setup[7] = MintTo("alice_x", "mint_x") /\ Setup[11] = MintTo("bob_y", "mint_y")
  BY DEF Setup
<1>2. /\ Setup[4].file = "mint_x" /\ Setup[8].file = "mint_y"
      /\ Setup[5].file = "alice_x" /\ Setup[6].file = "bob_x"
      /\ Setup[9].file = "alice_y" /\ Setup[10].file = "bob_y"
  BY <1>1 DEF CreateMint, CreateAccountFor
<1>3. /\ \A j \in {1, 2, 3} : Setup[j].kind = "airdrop"
      /\ \A j \in {4, 8} : Setup[j].kind = "createMint"
      /\ \A j \in {5, 6, 9, 10} : Setup[j].kind = "createAccount"
      /\ \A j \in {7, 11} : Setup[j].kind = "mintTo"
  BY <1>1 DEF Airdrop, CreateMint, CreateAccountFor, MintTo
<1>4. i \in {1, 2, 3} \/ i \in {4, 8} \/ i \in {5, 6, 9, 10} \/ i \in {7, 11}
  OBVIOUS
<1>5. /\ i \in Written <=> Setup[i].kind \in {"createMint", "createAccount"}
      /\ i \in {5, 6, 9, 10} <=> Setup[i].kind = "createAccount"
      /\ i \in {7, 11} <=> Setup[i].kind = "mintTo"
  BY <1>3, <1>4 DEF Written
<1>6. \A j \in Written : i \in Written /\ Setup[i].file = Setup[j].file => i = j
  BY <1>2 DEF Written
<1> QED
  BY <1>5, <1>6

\* What a step that leaves the ledger alone keeps.
Kept ==
  /\ \A p \in Awaited : Executed(p)' <=> Executed(p)
  /\ \A s \in SetupRun, i \in Written : step'[s] > i => step[s] > i

\* A set-up goes on to its next transaction; it has written the file there is.
LEMMA ProceedInv ==
  ASSUME SetupTypeOK, StagesInv, NEW s \in SetupRun, Proceed(s),
         At(s).kind # "airdrop" => confirmed[s] = "ok"
  PROVE  /\ SetupTypeOK' /\ StagesInv'
         /\ \A p \in Awaited : Executed(p)' <=> Executed(p)
         /\ \A q \in SetupRun, i \in Written : step'[q] > i => step[q] > i \/ (q = s /\ step[s] = i)
<1>1. Len(Setup) = 11 /\ DOMAIN Setup = 1 .. 11 /\ step[s] \in 1 .. 11 /\ Written \subseteq 1 .. 11
  BY SetupAt DEF SetupTypeOK, Written
<1>2. CASE step[s] = 11
  <2>1. /\ stage' = [stage EXCEPT ![s] = "done"] /\ step' = step /\ confirmed' = confirmed
        /\ Setup[11].kind = "mintTo"
    BY <1>1, <1>2 DEF Proceed, Setup, MintTo
  <2>2. confirmed[s] = "ok"
    BY <1>2, <2>1 DEF At
  <2> QED BY <1>2, <2>1, <2>2 DEF SetupTypeOK, StagesInv, Executed, At
<1>3. CASE step[s] # 11
  <2>1. /\ step' = [step EXCEPT ![s] = step[s] + 1]
        /\ stage' = [stage EXCEPT ![s] = "send"] /\ confirmed' = [confirmed EXCEPT ![s] = "none"]
        /\ step[s] + 1 \in 1 .. 11
    BY <1>1, <1>3 DEF Proceed
  <2>2. SetupTypeOK' /\ StagesInv'
    BY <2>1 DEF SetupTypeOK, StagesInv, At
  <2>3. ASSUME NEW p \in Awaited PROVE Executed(p)' <=> Executed(p)
    <3>1. p[1] \in SetupRun /\ p[2] \in 1 .. 11 /\ Setup[p[2]].kind # "airdrop"
      BY DEF Awaited
    <3>2. CASE p[1] # s
      BY <2>1, <3>1, <3>2 DEF Executed, SetupTypeOK
    <3>3. CASE p[1] = s
      <4>1. step'[p[1]] = step[s] + 1 /\ confirmed'[p[1]] = "none"
        BY <2>1, <3>3 DEF SetupTypeOK
      <4>2. p[2] = step[s] => confirmed[s] = "ok"
        BY <3>1 DEF At
      <4> QED BY <1>1, <3>1, <3>3, <4>1, <4>2 DEF Executed
    <3> QED BY <3>2, <3>3
  <2>4. \A q \in SetupRun, i \in Written : step'[q] > i => step[q] > i \/ (q = s /\ step[s] = i)
    BY <1>1, <2>1 DEF SetupTypeOK
  <2> QED BY <2>2, <2>3, <2>4
<1> QED
  BY <1>2, <1>3

\* The steps of a set-up that touch neither the ledger nor a key file.
LEMMA QuietSetup ==
  ASSUME SetupTypeOK, StagesInv, NEW s \in SetupRun,
         SetupSend(s) \/ (SetupExecute(s) /\ ~ SetupTransactionOk(s)) \/ SetupExpire(s) \/ SetupConfirm(s) \/ SetupThrow(s)
  PROVE  SetupTypeOK' /\ StagesInv' /\ UNCHANGED cvars /\ Kept
<1>1. /\ At(s).kind \in Kind
      /\ "file" \in DOMAIN At(s) <=> At(s).kind \in {"createMint", "createAccount"}
      /\ stage[s] = "send" => confirmed[s] = "none"
  BY SetupAt DEF SetupTypeOK, At, StagesInv
<1>2. ASSUME step' = step, NEW place \in {"send", "confirm", "write", "done", "failed"}, stage' = [stage EXCEPT ![s] = place],
             NEW v \in {"none", "pending", "ok", "error", "expired"}, confirmed' = [confirmed EXCEPT ![s] = v],
             v = "ok" <=> confirmed[s] = "ok",
             place = "send" => v = "none",
             place = "write" => At(s).kind \in {"createMint", "createAccount"},
             place \in {"write", "done"} => v = "ok",
             place = "done" => step[s] = 11
      PROVE  SetupTypeOK' /\ StagesInv' /\ Kept
  <2>1. SetupTypeOK'
    BY <1>2 DEF SetupTypeOK
  <2>2. StagesInv'
    BY <1>2 DEF SetupTypeOK, StagesInv, At
  <2>3. Kept
    BY <1>2 DEF SetupTypeOK, Executed, Awaited, Kept
  <2> QED BY <2>1, <2>2, <2>3
<1>3. /\ stage = [stage EXCEPT ![s] = stage[s]] /\ confirmed = [confirmed EXCEPT ![s] = confirmed[s]]
      /\ stage[s] \in {"send", "confirm", "write", "done", "failed"}
      /\ confirmed[s] \in {"none", "pending", "ok", "error", "expired"}
      /\ stage[s] = "write" => At(s).kind \in {"createMint", "createAccount"}
      /\ stage[s] \in {"write", "done"} => confirmed[s] = "ok"
      /\ stage[s] = "done" => step[s] = 11
  BY DEF SetupTypeOK, StagesInv
<1>4. CASE SetupSend(s)
  <2>1. /\ step' = step /\ UNCHANGED cvars /\ confirmed[s] = "none"
        /\ \E place \in {"confirm", "failed"}, v \in {"none", "pending"} :
             stage' = [stage EXCEPT ![s] = place] /\ confirmed' = [confirmed EXCEPT ![s] = v]
    BY <1>1, <1>3, <1>4 DEF SetupSend
  <2> QED BY <1>2, <2>1
<1>5. CASE (SetupExecute(s) /\ ~ SetupTransactionOk(s)) \/ SetupExpire(s)
  <2>1. /\ step' = step /\ UNCHANGED cvars /\ stage' = stage /\ confirmed[s] = "pending"
        /\ \E v \in {"error", "expired"} : confirmed' = [confirmed EXCEPT ![s] = v]
    BY <1>5 DEF SetupExecute, SetupExpire, cvars
  <2>2. stage[s] \notin {"send", "write", "done"}
    BY <1>1, <1>3, <2>1
  <2> QED BY <1>2, <1>3, <2>1, <2>2
<1>6. CASE SetupThrow(s)
  <2>1. step' = step /\ UNCHANGED cvars /\ stage' = [stage EXCEPT ![s] = "failed"] /\ confirmed' = confirmed
    BY <1>6 DEF SetupThrow
  <2> QED BY <1>2, <1>3, <2>1
<1>7. CASE SetupConfirm(s)
  <2>1. /\ UNCHANGED cvars
        /\ confirmed[s] = "ok" \/ At(s).kind = "airdrop"
    BY <1>7 DEF SetupConfirm
  <2>2. CASE "file" \in DOMAIN At(s)
    <3>1. step' = step /\ confirmed' = confirmed /\ stage' = [stage EXCEPT ![s] = "write"]
      BY <1>7, <2>2 DEF SetupConfirm
    <3>2. confirmed[s] = "ok"
      BY <1>1, <2>1, <2>2
    <3> QED BY <1>1, <1>2, <1>3, <2>1, <2>2, <3>1, <3>2
  <2>3. CASE ~ "file" \in DOMAIN At(s)
    <3>1. Proceed(s)
      BY <1>7, <2>3 DEF SetupConfirm
    <3>2. step[s] \notin Written
      <4>1. step[s] \in 1 .. 11 /\ At(s).kind \notin {"createMint", "createAccount"}
        BY <1>1, <2>3 DEF SetupTypeOK
      <4> QED BY <4>1, FilesOfSetup DEF At
    <3>3. /\ SetupTypeOK' /\ StagesInv'
          /\ \A p \in Awaited : Executed(p)' <=> Executed(p)
          /\ \A q \in SetupRun, i \in Written : step'[q] > i => step[q] > i \/ (q = s /\ step[s] = i)
      BY <2>1, <3>1, ProceedInv
    <3> QED BY <2>1, <3>2, <3>3 DEF Kept
  <2> QED BY <2>2, <2>3
<1> QED
  BY <1>4, <1>5, <1>6, <1>7

LEMMA QuietSetupInv ==
  ASSUME SetupInv, SetupTypeOK', StagesInv', UNCHANGED cvars,
         \A p \in Awaited : Executed(p)' <=> Executed(p)
  PROVE  SetupInv'
<1>1. /\ ledger' = ledger /\ UNCHANGED <<tx, pc, seen>>
      /\ files' = files /\ files \in Files /\ KeysOfKind(files) /\ ledger \in Ledger
  BY DEF cvars, SetupInv, ClientInv, ClientTypeOK, TypeOK
<1>2. ClientInv' /\ PostedInv' /\ \A k : Received(k)' = Received(k) /\ Paid(k)' = Paid(k)
  <2>1. /\ ledger' \in Ledger /\ ledger'.escrow = ledger.escrow /\ files' \in Files
        /\ KeysOfKind(files')
    BY <1>1
  <2> QED BY <1>1, <2>1, BesideInv DEF SetupInv
<1>3. \A k : MintedTo(k)' = MintedTo(k)
  BY MintingAwaited, SameMinted
<1>4. AccountsAudited'
  BY <1>1, <1>2, <1>3 DEF SetupInv, AccountsAudited, Vaults
<1>5. Funded'
  BY <1>1 DEF SetupInv, Funded, Vaults
<1> QED
  BY <1>2, <1>4, <1>5 DEF SetupInv

LEMMA SetupExecuteInv ==
  ASSUME SetupInv, NEW s \in SetupRun, SetupExecute(s), SetupTransactionOk(s)
  PROVE  SetupInv'
<1>1. /\ confirmed[s] = "pending" /\ confirmed' = [confirmed EXCEPT ![s] = "ok"]
      /\ ledger' = SetupTransaction(s) /\ UNCHANGED <<files, tx, pc, seen, step, stage>>
  BY DEF SetupExecute
<1>2. /\ files' \in Files /\ KeysOfKind(files') /\ ledger \in Ledger
      /\ ClientInv /\ PostedInv /\ Funded /\ SetupTypeOK /\ StagesInv
  BY <1>1 DEF SetupInv, ClientInv, ClientTypeOK, TypeOK, KeysOfKind
<1>3. /\ ledger' \in Ledger /\ ledger'.escrow = ledger.escrow
      /\ \A k \in TokenKey \ Vaults :
           /\ ledger'.token[k].amount = ledger.token[k].amount + (IF MintsInto(s, k) THEN Minted ELSE 0)
           /\ ledger'.lamports[k] = 0 => ledger'.token[k] = NoToken
  <2>1. /\ SetupTransaction(s) \in Ledger /\ SetupTransaction(s).escrow = ledger.escrow
        /\ \A k \in TokenKey \ Vaults :
             /\ SetupTransaction(s).token[k].amount
                  = ledger.token[k].amount + (IF MintsInto(s, k) THEN Minted ELSE 0)
             /\ SetupTransaction(s).lamports[k] = 0 => SetupTransaction(s).token[k] = NoToken
    BY <1>2, SetupTransactionResult
  <2> QED BY <1>1, <2>1
<1>4. ClientInv' /\ PostedInv' /\ \A k : Received(k)' = Received(k) /\ Paid(k)' = Paid(k)
  BY <1>1, <1>2, <1>3, BesideInv
<1>5. \A k : MintedTo(k)' = MintedTo(k) + (IF MintsInto(s, k) THEN Minted ELSE 0)
  BY <1>1, <1>2, MoreMinted
<1>6. ASSUME NEW k \in TokenKey \ Vaults
      PROVE  ledger'.token[k].amount + Paid(k)' = InitialToken[k].amount + MintedTo(k)' + Received(k)'
  <2>1. PICK m : m = IF MintsInto(s, k) THEN Minted ELSE 0
    OBVIOUS
  <2>2. /\ ledger'.token[k].amount = ledger.token[k].amount + m /\ MintedTo(k)' = MintedTo(k) + m
        /\ Paid(k)' = Paid(k) /\ Received(k)' = Received(k)
    BY <1>3, <1>4, <1>5, <2>1
  <2>3. /\ m \in Nat /\ MintedTo(k) \in Nat /\ Paid(k) \in Nat /\ Received(k) \in Nat
        /\ ledger.token[k].amount \in Nat /\ InitialToken[k].amount \in Nat
    BY <1>2, <2>1, SumsOfRuns, MintedNatural, LedgerParts, InitialAssumption, RentAssumption, SetupAssumption
       DEF TokenAccount, U64
  <2>4. ledger.token[k].amount + Paid(k) = InitialToken[k].amount + MintedTo(k) + Received(k)
    BY DEF SetupInv, AccountsAudited
  <2> QED BY <2>2, <2>3, <2>4
<1>7. AccountsAudited'
  BY <1>6 DEF AccountsAudited, Vaults
<1>8. SetupTypeOK' /\ StagesInv'
  BY <1>1, <1>2 DEF SetupTypeOK, StagesInv, At
<1>9. Funded'
  BY <1>3 DEF Funded, Vaults
<1> QED
  BY <1>4, <1>7, <1>8, <1>9 DEF SetupInv

LEMMA SetupWriteInv ==
  ASSUME SetupInv, NEW s \in SetupRun, SetupWrite(s)
  PROVE  SetupInv'
<1>1. /\ stage[s] = "write" /\ Proceed(s) /\ UNCHANGED <<ledger, tx, pc, seen>>
      /\ files' = [files EXCEPT ![At(s).file] = fresh[s][At(s).file]]
      /\ SetupTypeOK /\ StagesInv /\ ClientInv /\ PostedInv
      /\ files \in Files /\ KeysOfKind(files) /\ ledger \in Ledger
  BY DEF SetupWrite, SetupInv, ClientInv, ClientTypeOK, TypeOK
<1>2. At(s).kind \in {"createMint", "createAccount"}
  BY <1>1 DEF StagesInv
<1>3. PICK name, key : name = At(s).file /\ key = fresh[s][name]
  OBVIOUS
<1>4. (name \in TokenFile /\ key \in TokenKey) \/ (name \in MintFile /\ key \in Mint)
  BY <1>1, <1>2, <1>3, SetupAt, SetupAssumption DEF SetupTypeOK, At
<1>5. files' \in Files /\ KeysOfKind(files')
  <2>1. files' = [files EXCEPT ![name] = key]
    BY <1>1, <1>3
  <2>2. name \in TokenFile \cup MintFile /\ name # "escrow"
    BY <1>4 DEF TokenFile, MintFile
  <2>3. files' \in Files
    BY <1>1, <1>4, <2>1, <2>2 DEF Files
  <2>4. /\ files'[name] = key
        /\ \A other \in TokenFile \cup MintFile \cup {"escrow"} : other # name => files'[other] = files[other]
    BY <1>1, <2>1, <2>2 DEF Files
  <2>5. \A other : ~ (other \in TokenFile /\ other \in MintFile)
    BY DEF TokenFile, MintFile
  <2>6. KeysOfKind(files')
    BY <1>1, <1>4, <2>2, <2>4, <2>5 DEF KeysOfKind
  <2> QED BY <2>3, <2>6
<1>6. SetupTypeOK' /\ StagesInv' /\ \A p \in Awaited : Executed(p)' <=> Executed(p)
  <2>1. confirmed[s] = "ok"
    BY <1>1 DEF StagesInv
  <2> QED BY <1>1, <2>1, ProceedInv
<1>7. ClientInv' /\ PostedInv' /\ \A k : Received(k)' = Received(k) /\ Paid(k)' = Paid(k)
  <2>1. ledger' \in Ledger /\ ledger'.escrow = ledger.escrow
    BY <1>1
  <2> QED BY <1>1, <1>5, <2>1, BesideInv
<1>8. \A k : MintedTo(k)' = MintedTo(k)
  BY <1>6, MintingAwaited, SameMinted
<1>9. AccountsAudited' /\ Funded'
  BY <1>1, <1>7, <1>8 DEF SetupInv, AccountsAudited, Funded, Vaults
<1> QED
  BY <1>6, <1>7, <1>9 DEF SetupInv

\* No transaction of a run brings anything to an address without lamports.
LEMMA ClientFunded ==
  ASSUME ClientInv, PostedInv, Funded, [ClientNext]_cvars
  PROVE  Funded'
<1>1. CASE ledger' = ledger
  BY <1>1 DEF Funded, Vaults
<1>2. ASSUME NEW r \in Run, Executes(r), NEW k \in TokenKey \ Vaults, ledger'.lamports[k] = 0
      PROVE  ledger'.token[k] = NoToken
  <2>1. /\ ledger'.token[k].mint = ledger.token[k].mint
        /\ ledger'.token[k].owner = ledger.token[k].owner
        /\ ledger'.lamports[k] = ledger.lamports[k]
        /\ r \in AliceRun =>
              ledger'.token[k].amount = ledger.token[k].amount - (IF Key(r, "alice_x") = k THEN Goods[r] ELSE 0)
    BY <1>2, ExecutedMoves
  <2>2. ledger.token[k] = NoToken
    BY <1>2, <2>1 DEF Funded
  <2>3. /\ ledger' \in Ledger /\ ledger'.token[k] \in TokenAccount /\ ledger'.token[k].amount \in Nat
        /\ Goods[r] \in Nat
    <3>1. ledger' \in Ledger
      BY ClientNextInv DEF ClientInv, ClientTypeOK, TypeOK
    <3>2. ledger'.token[k] \in TokenAccount
      BY <3>1, LedgerParts
    <3>3. terms[r].bobExpectedAmount \in U64
      BY ClientAssumption DEF Run
    <3> QED BY <3>1, <3>2, <3>3, RentAssumption DEF TokenAccount, U64, Goods
  <2>4. ledger'.token[k].amount = 0
    <3>1. CASE r \in AliceRun
      <4>1. ledger'.token[k].amount = 0 - (IF Key(r, "alice_x") = k THEN Goods[r] ELSE 0)
        BY <2>1, <2>2, <3>1 DEF NoToken
      <4> QED BY <2>3, <4>1
    <3>2. CASE r \in BobRun
      <4>1. PICK a \in AliceRun :
              EscrowSettled(ledger, ledger', bob, Key(r, "bob_y"), Key(r, "bob_x"), tmpXTokenAccount[a], alice,
                            Key(a, "alice_y"), escrowAccount[a], terms[a].aliceExpectedAmount,
                            terms[r].bobExpectedAmount)
        BY <1>2, <3>2, ExchangeExecuted
      <4>2. k # tmpXTokenAccount[a] /\ ~ IsTokenAccount(ledger, k)
        BY <2>2 DEF Vaults, IsTokenAccount, NoToken
      <4>3. k # Key(r, "bob_y") /\ k # Key(r, "bob_x") /\ k # Key(a, "alice_y")
        BY <4>1, <4>2 DEF EscrowSettled
      <4>4. ledger'.token[k].amount = ledger.token[k].amount + 0 + 0 - 0
        BY <4>1, <4>2, <4>3 DEF EscrowSettled
      <4> QED BY <2>2, <4>4 DEF NoToken
    <3> QED BY <3>1, <3>2 DEF Run
  <2> QED BY <2>1, <2>2, <2>3, <2>4 DEF TokenAccount, NoToken
<1> QED
  <2>1. CASE \E r \in Run : Executes(r)
    BY <1>2, <2>1 DEF Funded, Vaults
  <2> QED BY <1>1, <2>1, ClientStep

LEMMA SetupClientInv ==
  ASSUME SetupInv, [ClientNext]_cvars, UNCHANGED setupVars
  PROVE  SetupInv'
<1>1. ClientInv' /\ PostedInv' /\ Funded'
  BY ClientNextInv, PostedNext, ClientFunded DEF SetupInv
<1>2. SetupTypeOK' /\ StagesInv' /\ \A p \in Minting : Executed(p)' <=> Executed(p)
  BY DEF setupVars, SetupInv, SetupTypeOK, StagesInv, Executed, At
<1>3. ASSUME NEW k \in TokenKey \ Vaults
      PROVE  ledger'.token[k].amount + Paid(k)' = InitialToken[k].amount + MintedTo(k)' + Received(k)'
  <2>1. ledger.token[k].amount + Paid(k) = InitialToken[k].amount + MintedTo(k) + Received(k)
    BY DEF SetupInv, AccountsAudited
  <2>2. MintedTo(k)' = MintedTo(k) /\ MintedTo(k) \in Nat /\ InitialToken[k].amount \in Nat
    BY <1>2, SameMinted, MintedNatural, InitialAssumption, RentAssumption DEF TokenAccount, U64
  <2>3. /\ ledger.token[k].amount \in Nat /\ ledger'.token[k].amount \in Nat
        /\ Paid(k) \in Nat /\ Paid(k)' \in Nat /\ Received(k) \in Nat /\ Received(k)' \in Nat
        /\ ledger'.token[k].amount + Paid(k)' - Received(k)' = ledger.token[k].amount + Paid(k) - Received(k)
    BY StepHonours DEF SetupInv
  <2> QED BY <2>1, <2>2, <2>3
<1>4. AccountsAudited'
  BY <1>3 DEF AccountsAudited, Vaults
<1> QED
  BY <1>1, <1>2, <1>4 DEF SetupInv

LEMMA SetupInitInv == SetupInit => SetupInv
<1> SUFFICES ASSUME SetupInit PROVE SetupInv
  OBVIOUS
<1>1. ClientInv /\ PostedInv /\ TermsHonoured
  BY ClientInitInv, PostedInit, TermsInit DEF SetupInit, TermsInv
<1>2. SetupTypeOK /\ StagesInv
  BY DEF SetupInit, SetupTypeOK, StagesInv
<1>3. Funded
  BY InitialAssumption DEF SetupInit, ClientInit, Init, Funded
<1>4. \A k : MintedTo(k) = 0
  <2> TAKE k
  <2>1. \A p \in Minting : ~ Executed(p)
    BY SetupAt DEF SetupInit, Executed, Minting
  <2>2. MintsOf(k) = {}
    BY <2>1 DEF MintsOf
  <2> QED BY <2>2, SumEmpty DEF MintedTo, MintsOf
<1>5. AccountsAudited
  <2> SUFFICES ASSUME NEW k \in TokenKey \ Vaults
               PROVE  ledger.token[k].amount + Paid(k) = InitialToken[k].amount + MintedTo(k) + Received(k)
    BY DEF AccountsAudited
  <2>1. InitialToken[k].amount \in Nat
    BY InitialAssumption, RentAssumption DEF TokenAccount, U64
  <2> QED BY <1>1, <1>4, <2>1 DEF TermsHonoured
<1> QED
  BY <1>1, <1>2, <1>3, <1>5 DEF SetupInv

LEMMA SetupNextInv == SetupInv /\ [SetupNext]_svars => SetupInv'
<1> SUFFICES ASSUME SetupInv, [SetupNext]_svars PROVE SetupInv'
  OBVIOUS
<1>1. CASE ClientNext /\ UNCHANGED setupVars
  BY <1>1, SetupClientInv
<1>2. ASSUME NEW s \in SetupRun,
             \/ SetupSend(s) \/ SetupExecute(s) \/ SetupExpire(s) \/ SetupConfirm(s) \/ SetupWrite(s)
             \/ SetupThrow(s)
      PROVE  SetupInv'
  <2>1. CASE SetupExecute(s) /\ SetupTransactionOk(s)
    BY <2>1, SetupExecuteInv
  <2>2. CASE SetupWrite(s)
    BY <2>2, SetupWriteInv
  <2>3. CASE SetupSend(s) \/ (SetupExecute(s) /\ ~ SetupTransactionOk(s)) \/ SetupExpire(s) \/ SetupConfirm(s) \/ SetupThrow(s)
    <3>1. /\ SetupTypeOK' /\ StagesInv' /\ UNCHANGED cvars
          /\ \A p \in Awaited : Executed(p)' <=> Executed(p)
      BY <2>3, QuietSetup DEF SetupInv, Kept
    <3> QED BY <3>1, QuietSetupInv
  <2> QED BY <1>2, <2>1, <2>2, <2>3
<1>3. CASE UNCHANGED svars
  BY <1>3, SetupClientInv DEF svars
<1> QED
  BY <1>1, <1>2, <1>3 DEF SetupNext

(***************************************************************************)
(* With any number of set-ups that replace the key files, the mints and    *)
(* the accounts under running clients, and that end anywhere: key files    *)
(* name accounts of the kind they should, an escrow is made by one         *)
(* executed transaction of Alice, and what a run of Bob knows of it is     *)
(* what she has recorded.                                                  *)
(***************************************************************************)
THEOREM SetupInvariance == SetupSpec => []SetupInv
BY SetupInitInv, SetupNextInv, PTL DEF SetupSpec

(***************************************************************************)
(* For any number of set-ups and runs: every account of every set-up, the  *)
(* abandoned ones too, holds what it was given and what runs that had read *)
(* its key were paid, less what they paid (setup.ts:62-100 beside          *)
(* alice.ts, bob.ts).                                                      *)
(***************************************************************************)
THEOREM Audited == SetupSpec => []AccountsAudited
<1>1. SetupInv => AccountsAudited
  BY DEF SetupInv
<1> QED
  BY <1>1, SetupInvariance, PTL

-----------------------------------------------------------------------------
(* Set-up, Alice and Bob, one after the other.                             *)

\* The set-up has written the file of every transaction it has gone beyond.
FilesWritten ==
  \A s \in SetupRun, i \in Written : step[s] > i => files[Setup[i].file] = fresh[s][Setup[i].file]

\* What a set-up has minted into the account of a file.
Given(s, name) ==
  IF \E i \in {7, 11} : Setup[i].account = name /\ Executed(<<s, i>>) THEN Minted ELSE 0

AccountReady(s, i) ==
  ledger.token[fresh[s][Setup[i].file]] =
    [mint |-> fresh[s][Setup[i].mint], owner |-> Setup[i].owner, amount |-> Given(s, Setup[i].file)]

KeysUnused(r) ==
  /\ ledger.lamports[tmpXTokenAccount[r]] = 0
  /\ ledger.lamports[escrowAccount[r]] = 0
  /\ ledger.escrow[escrowAccount[r]] = NoEscrow

\* As long as no run has sent anything, the accounts are as set-up has left them.
GroundLaid ==
  (\A o \in Run : tx[o] = "none") =>
    /\ \A s \in SetupRun, i \in {5, 6, 9, 10} : Executed(<<s, i>>) => AccountReady(s, i)
    /\ \A r \in AliceRun : KeysUnused(r)

GroundInv == FilesWritten /\ GroundLaid

LEMMA CreatedAwaited ==
  ASSUME NEW s \in SetupRun, NEW i \in {5, 6, 7, 9, 10, 11}
  PROVE  <<s, i>> \in Awaited
<1>1. i \in 1 .. 11 /\ Setup[i].kind \in {"createAccount", "mintTo"}
  BY FilesOfSetup DEF Written
<1> QED
  BY <1>1 DEF Awaited

LEMMA SetupFilesNamed == \A i \in Written : Setup[i].file \in TokenFile \cup MintFile
<1> SUFFICES ASSUME NEW i \in Written PROVE Setup[i].file \in TokenFile \cup MintFile
  OBVIOUS
<1>1. i \in 1 .. 11 /\ Setup[i].kind \in {"createMint", "createAccount"}
  BY FilesOfSetup DEF Written
<1> QED BY <1>1, SetupAt

LEMMA GroundInit == OneSetUp /\ SetupInit => GroundInv
<1> SUFFICES ASSUME OneSetUp, SetupInit PROVE GroundInv
  OBVIOUS
<1>1. FilesWritten
  BY DEF SetupInit, FilesWritten, Written
<1>2. \A s \in SetupRun, i \in {5, 6, 9, 10} : ~ Executed(<<s, i>>)
  BY DEF SetupInit, Executed
<1>3. \A r \in AliceRun : KeysUnused(r)
  BY ClientAssumption, InitialAssumption DEF OneSetUp, SetupInit, ClientInit, Init, KeysUnused
<1> QED
  BY <1>1, <1>2, <1>3 DEF GroundInv, GroundLaid

LEMMA GroundKept ==
  ASSUME GroundInv, Kept, ledger' = ledger,
         (\A o \in Run : tx'[o] = "none") => \A o \in Run : tx[o] = "none",
         \A name \in TokenFile \cup MintFile : files'[name] = files[name]
  PROVE  GroundInv'
<1>1. \A i \in Written : Setup[i].file \in TokenFile \cup MintFile
  BY SetupFilesNamed
<1>2. FilesWritten'
  BY <1>1 DEF GroundInv, FilesWritten, Kept
<1>3. \A s \in SetupRun, i \in {5, 6, 7, 9, 10, 11} : Executed(<<s, i>>)' <=> Executed(<<s, i>>)
  BY CreatedAwaited DEF Kept
<1>4. \A s \in SetupRun : \A name : Given(s, name)' = Given(s, name)
  BY <1>3 DEF Given
<1>5. \A s \in SetupRun, i \in {5, 6, 9, 10} : AccountReady(s, i) => AccountReady(s, i)'
  BY <1>4 DEF AccountReady
<1>6. \A r \in AliceRun : KeysUnused(r) => KeysUnused(r)'
  BY DEF KeysUnused
<1> QED
  BY <1>2, <1>3, <1>5, <1>6 DEF GroundInv, GroundLaid

\* A run that has not sent anything has left the ledger alone.
LEMMA NothingSent ==
  ASSUME ClientInv, [ClientNext]_cvars, \A o \in Run : tx'[o] = "none"
  PROVE  ledger' = ledger /\ \A o \in Run : tx[o] = "none"
<1>1. tx \in [Run -> {"none", "pending", "ok", "error", "expired"}] /\ AliceRun \subseteq Run /\ BobRun \subseteq Run
  BY DEF ClientInv, ClientTypeOK, Run
<1>2. tx' = tx \/ \E r \in Run, v \in {"pending", "ok", "error", "expired"} : tx' = [tx EXCEPT ![r] = v]
  <2>1. ASSUME NEW r \in AliceRun,
               AliceStart(r) \/ AliceSend(r) \/ VerifyInitializedEscrow(r) \/ WritePublicKey(r)
        PROVE  tx' = tx \/ tx' = [tx EXCEPT ![r] = "pending"]
    BY <2>1 DEF AliceStart, ReadPublicKeys, AliceSend, Submit, VerifyInitializedEscrow, WritePublicKey
  <2>2. ASSUME NEW r \in BobRun,
               \/ BobStart(r) \/ DecodeEscrow(r) \/ ReadAliceY(r) \/ ReadBobX(r)
               \/ BobSend(r) \/ VerifyExchangedEscrow(r)
        PROVE  tx' = tx \/ tx' = [tx EXCEPT ![r] = "pending"]
    BY <2>2 DEF BobStart, ReadPublicKeys, DecodeEscrow, ReadAliceY, ReadBobX, BobSend, Submit, VerifyExchangedEscrow
  <2>3. ASSUME NEW r \in Run, Execute(r) \/ Expire(r) \/ Throw(r)
        PROVE  tx' = tx \/ \E v \in {"ok", "error", "expired"} : tx' = [tx EXCEPT ![r] = v]
    BY <2>3 DEF Execute, Expire, Throw
  <2>4. CASE UNCHANGED cvars
    BY <2>4 DEF cvars
  <2> QED BY <1>1, <2>1, <2>2, <2>3, <2>4 DEF ClientNext
<1>3. tx' = tx
  BY <1>1, <1>2
<1>4. \A r \in Run : ~ Executes(r)
  BY <1>1, <1>3 DEF Executes, Execute
<1> QED
  BY <1>3, <1>4, ClientStep

LEMMA GroundWrite ==
  ASSUME OneSetUp, SetupInv, GroundInv, NEW s \in SetupRun, SetupWrite(s)
  PROVE  GroundInv'
<1>1. /\ stage[s] = "write" /\ Proceed(s) /\ UNCHANGED <<ledger, tx, pc, seen>>
      /\ files' = [files EXCEPT ![At(s).file] = fresh[s][At(s).file]]
      /\ SetupTypeOK /\ StagesInv /\ files \in Files /\ step[s] \in 1 .. 11
  BY DEF SetupWrite, SetupInv, ClientInv, ClientTypeOK, SetupTypeOK
<1>2. confirmed[s] = "ok" /\ step[s] \in Written
  BY <1>1, FilesOfSetup DEF StagesInv, At
<1>3. /\ \A p \in Awaited : Executed(p)' <=> Executed(p)
      /\ \A q \in SetupRun, i \in Written : step'[q] > i => step[q] > i \/ (q = s /\ step[s] = i)
  BY <1>1, <1>2, ProceedInv
<1>4. FilesWritten'
  <2> SUFFICES ASSUME NEW q \in SetupRun, NEW i \in Written, step'[q] > i
               PROVE  files'[Setup[i].file] = fresh[q][Setup[i].file]
    BY DEF FilesWritten
  <2>1. q = s /\ i \in 1 .. 11
    BY DEF OneSetUp, Written
  <2>2. Setup[i].file \in DOMAIN files
    <3>1. Setup[i].file \in TokenFile \cup MintFile
      BY <2>1, FilesOfSetup, SetupAt
    <3> QED BY <1>1, <3>1 DEF Files
  <2>3. CASE i = step[s]
    BY <1>1, <2>1, <2>2, <2>3 DEF At
  <2>4. CASE i # step[s]
    <3>1. step[q] > i
      BY <1>3, <2>4
    <3>2. Setup[i].file # At(s).file
      BY <1>1, <1>2, <2>1, <2>4, FilesOfSetup DEF At
    <3> QED BY <1>1, <2>2, <3>1, <3>2 DEF GroundInv, FilesWritten
  <2> QED BY <2>3, <2>4
<1>5. \A q \in SetupRun, i \in {5, 6, 7, 9, 10, 11} : Executed(<<q, i>>)' <=> Executed(<<q, i>>)
  BY <1>3, CreatedAwaited
<1>6. \A q \in SetupRun : \A name : Given(q, name)' = Given(q, name)
  BY <1>5 DEF Given
<1>7. \A q \in SetupRun, i \in {5, 6, 9, 10} : AccountReady(q, i) => AccountReady(q, i)'
  BY <1>1, <1>6 DEF AccountReady
<1>8. \A r \in AliceRun : KeysUnused(r) => KeysUnused(r)'
  BY <1>1 DEF KeysUnused
<1> QED
  BY <1>1, <1>4, <1>5, <1>7, <1>8 DEF GroundInv, GroundLaid

\* Of the transactions of one set-up, the one that is executed is the latest.
LEMMA ExecutedNext ==
  ASSUME SetupTypeOK, NEW s \in SetupRun, confirmed[s] = "pending",
         confirmed' = [confirmed EXCEPT ![s] = "ok"], step' = step, NEW i \in 1 .. 11
  PROVE  /\ Executed(<<s, i>>)' <=> Executed(<<s, i>>) \/ i = step[s]
         /\ Executed(<<s, i>>) => i < step[s]
BY DEF SetupTypeOK, Executed

\* Tokens are minted into an account after it has been created.
LEMMA MintedLater ==
  ASSUME NEW i \in {7, 11}, NEW j \in {5, 6, 9, 10}, Setup[i].account = Setup[j].file
  PROVE  i > j
<1>1. /\ Setup[5].file = "alice_x" /\ Setup[6].file = "bob_x"
      /\ Setup[9].file = "alice_y" /\ Setup[10].file = "bob_y"
      /\ Setup[7].account = "alice_x" /\ Setup[11].account = "bob_y"
  BY DEF Setup, CreateAccountFor, MintTo
<1> QED
  BY <1>1

LEMMA GroundExecute ==
  ASSUME OneSetUp, SetupInv, GroundInv, NEW s \in SetupRun, SetupExecute(s), SetupTransactionOk(s)
  PROVE  GroundInv'
<1>1. /\ confirmed[s] = "pending" /\ confirmed' = [confirmed EXCEPT ![s] = "ok"]
      /\ ledger' = SetupTransaction(s) /\ UNCHANGED <<files, tx, pc, seen, step, stage>>
      /\ SetupTypeOK /\ ledger \in Ledger /\ step[s] \in 1 .. 11
  BY DEF SetupExecute, SetupInv, SetupTypeOK, ClientInv, ClientTypeOK, TypeOK
<1>2. FilesWritten'
  BY <1>1 DEF GroundInv, FilesWritten
<1>3. \A q \in SetupRun : q = s
  BY DEF OneSetUp
<1> DEFINE t == At(s)
           created == fresh[s][t.file]
           account == fresh[s][t.account]
<1>4. /\ t.kind \in Kind
      /\ t.kind = "createAccount" => step[s] \in {5, 6, 9, 10}
      /\ t.kind = "mintTo" => step[s] \in {7, 11}
      /\ t.kind \in {"airdrop", "createMint"} => step[s] \notin {5, 6, 7, 9, 10, 11}
  BY <1>1, SetupAt, FilesOfSetup DEF At
<1>5. PICK M : M = SetupTransaction(s)
  OBVIOUS
<1>6. /\ M \in Ledger /\ M.escrow = ledger.escrow
      /\ t.kind \in {"airdrop", "createMint"} =>
           /\ M.token = ledger.token
           /\ \A x \in TokenKey \cup EscrowKey : M.lamports[x] = ledger.lamports[x]
      /\ t.kind = "createAccount" =>
           /\ created \in TokenKey \ Vaults
           /\ M.token = [ledger.token EXCEPT ![created] = [mint |-> fresh[s][t.mint], owner |-> t.owner, amount |-> 0]]
           /\ \A x \in (TokenKey \cup EscrowKey) \ {created} : M.lamports[x] = ledger.lamports[x]
      /\ t.kind = "mintTo" =>
           /\ account \in TokenKey \ Vaults
           /\ M.token[account] = [mint |-> ledger.token[account].mint, owner |-> ledger.token[account].owner,
                                  amount |-> ledger.token[account].amount + Minted]
           /\ \A k \in TokenKey \ {account} : M.token[k] = ledger.token[k]
           /\ M.lamports = ledger.lamports
  BY <1>1, <1>5, SetupTransactionEffect
<1>7. \A r \in AliceRun : KeysUnused(r) => KeysUnused(r)'
  <2> SUFFICES ASSUME NEW r \in AliceRun, KeysUnused(r) PROVE KeysUnused(r)'
    OBVIOUS
  <2>1. tmpXTokenAccount[r] \in TokenKey /\ tmpXTokenAccount[r] \in Vaults /\ escrowAccount[r] \in EscrowKey
        /\ escrowAccount[r] \notin TokenKey
    BY ClientAssumption, AddressAssumption DEF Vaults
  <2>2. /\ M.lamports[tmpXTokenAccount[r]] = ledger.lamports[tmpXTokenAccount[r]]
        /\ M.lamports[escrowAccount[r]] = ledger.lamports[escrowAccount[r]]
    BY <1>4, <1>6, <2>1 DEF Kind
  <2>3. M.escrow = ledger.escrow
    BY <1>6
  <2> QED BY <1>1, <1>5, <2>2, <2>3 DEF KeysUnused
<1>8. ASSUME NEW i \in {5, 6, 9, 10}, Executed(<<s, i>>)', Executed(<<s, i>>) => AccountReady(s, i)
      PROVE  AccountReady(s, i)'
  <2> DEFINE name == Setup[i].file
             k == fresh[s][name]
  <2>1. /\ i \in 1 .. 11 /\ i \in Written /\ Setup[i].kind = "createAccount"
        /\ name \in TokenFile /\ k \in TokenKey /\ Minted \in Nat
        /\ ledger.token \in [TokenKey -> TokenAccount]
    <3>1. i \in 1 .. 11 /\ i \in Written
      BY DEF Written
    <3>2. Setup[i].kind = "createAccount" /\ name \in TokenFile
      BY <3>1, FilesOfSetup, SetupAt
    <3>3. k \in TokenKey /\ Minted \in Nat
      BY <3>2, SetupAssumption, RentAssumption DEF U64
    <3> QED BY <1>1, <3>1, <3>2, <3>3, LedgerParts
  <2>2. /\ Executed(<<s, i>>) \/ i = step[s]
        /\ \A j \in {7, 11} : /\ Executed(<<s, j>>)' <=> Executed(<<s, j>>) \/ j = step[s]
                              /\ Executed(<<s, j>>) => j < step[s]
    <3>1. Executed(<<s, i>>)' <=> Executed(<<s, i>>) \/ i = step[s]
      BY <1>1, <2>1, ExecutedNext
    <3>2. ASSUME NEW j \in {7, 11}
          PROVE  /\ Executed(<<s, j>>)' <=> Executed(<<s, j>>) \/ j = step[s]
                 /\ Executed(<<s, j>>) => j < step[s]
      <4>1. j \in 1 .. 11
        OBVIOUS
      <4> QED BY <1>1, <4>1, ExecutedNext
    <3> QED BY <1>8, <3>1, <3>2
  <2>3. CASE i = step[s]
    <3>1. t = Setup[i] /\ t.kind = "createAccount" /\ created = k
      BY <2>1, <2>3 DEF At
    <3>2. M.token[k] = [mint |-> fresh[s][Setup[i].mint], owner |-> Setup[i].owner, amount |-> 0]
      BY <1>6, <2>1, <3>1
    <3>3. Given(s, name)' = 0
      <4>1. \A j \in {7, 11} : Setup[j].account = name => j > step[s]
        BY <2>3, MintedLater
      <4>2. \A j \in {7, 11} : Setup[j].account = name => ~ Executed(<<s, j>>)'
        BY <1>1, <2>2, <4>1
      <4> QED BY <4>2 DEF Given
    <3> QED BY <1>1, <1>5, <3>2, <3>3 DEF AccountReady
  <2>4. CASE i # step[s]
    <3>1. ledger.token[k] = [mint |-> fresh[s][Setup[i].mint], owner |-> Setup[i].owner, amount |-> Given(s, name)]
      BY <1>8, <2>2, <2>4 DEF AccountReady
    <3>2. CASE MintsInto(s, k)
      <4>1. t.kind = "mintTo" /\ account = k /\ step[s] \in {7, 11}
        BY <1>4, <3>2 DEF MintsInto
      <4>2. Setup[step[s]].account = name
        <5>1. t.account \in TokenFile
          BY <1>1, <4>1, SetupAt DEF At
        <5> QED BY <2>1, <4>1, <5>1 DEF OneSetUp, At
      <4>3. Given(s, name) = 0
        <5>1. \A j \in {7, 11} : Setup[j].account = name => ~ Executed(<<s, j>>)
          <6>1. \A j \in {7, 11} : Setup[j].account = name => j = step[s]
            <7>1. Setup[7].account # Setup[11].account
              BY DEF Setup, MintTo
            <7> QED BY <4>1, <4>2, <7>1
          <6> QED BY <1>1, <2>2, <6>1
        <5> QED BY <5>1 DEF Given
      <4>4. Given(s, name)' = Minted
        BY <2>2, <4>1, <4>2 DEF Given
      <4>5. M.token[k] = [mint |-> fresh[s][Setup[i].mint], owner |-> Setup[i].owner, amount |-> Minted]
        <5>1. M.token[k] = [mint |-> ledger.token[k].mint, owner |-> ledger.token[k].owner,
                            amount |-> ledger.token[k].amount + Minted]
          BY <1>6, <4>1
        <5> HIDE DEF k, name
        <5>2. /\ ledger.token[k].mint = fresh[s][Setup[i].mint] /\ ledger.token[k].owner = Setup[i].owner
              /\ ledger.token[k].amount = 0
          BY <3>1, <4>3
        <5> QED BY <2>1, <5>1, <5>2
      <4> QED BY <1>1, <1>5, <4>4, <4>5 DEF AccountReady
    <3>3. CASE ~ MintsInto(s, k)
      <4>1. M.token[k] = ledger.token[k]
        <5>1. CASE t.kind \in {"airdrop", "createMint"}
          BY <1>6, <5>1
        <5>2. CASE t.kind = "createAccount"
          <6>1. t.file \in TokenFile /\ t.file # name
            <7>1. step[s] \in Written
              BY <1>4, <5>2 DEF Written
            <7>2. t.file # name
              BY <2>1, <2>4, <7>1, FilesOfSetup DEF At
            <7> QED BY <1>1, <5>2, <7>2, SetupAt DEF At
          <6>2. created # k
            BY <2>1, <6>1 DEF OneSetUp
          <6> QED BY <1>6, <2>1, <5>2, <6>2
        <5>3. CASE t.kind = "mintTo"
          BY <1>6, <2>1, <3>3, <5>3 DEF MintsInto
        <5> QED BY <1>4, <5>1, <5>2, <5>3 DEF Kind
      <4>2. Given(s, name)' = Given(s, name)
        <5>1. \A j \in {7, 11} : Setup[j].account = name => j # step[s]
          BY <1>1, <3>3, FilesOfSetup DEF MintsInto, At
        <5> QED BY <2>2, <5>1 DEF Given
      <4> QED BY <1>1, <1>5, <3>1, <4>1, <4>2 DEF AccountReady
    <3> QED BY <3>2, <3>3
  <2> QED BY <2>3, <2>4
<1>9. \A q \in SetupRun, i \in {5, 6, 9, 10} :
        Executed(<<q, i>>)' /\ (Executed(<<q, i>>) => AccountReady(q, i)) => AccountReady(q, i)'
  BY <1>3, <1>8
<1> HIDE DEF t, created, account
<1>10. GroundLaid'
  BY <1>1, <1>7, <1>9 DEF GroundInv, GroundLaid
<1> QED
  BY <1>2, <1>10 DEF GroundInv

LEMMA GroundNext == OneSetUp /\ SetupInv /\ GroundInv /\ [SetupNext]_svars => GroundInv'
<1> SUFFICES ASSUME OneSetUp, SetupInv, GroundInv, [SetupNext]_svars PROVE GroundInv'
  OBVIOUS
<1>1. CASE [ClientNext]_cvars /\ UNCHANGED setupVars
  <2>1. ClientInv /\ files \in Files
    BY DEF SetupInv, ClientInv, ClientTypeOK
  <2>2. Kept
    BY <1>1 DEF Kept, setupVars, Executed, Awaited
  <2>3. \A name \in TokenFile \cup MintFile : files'[name] = files[name]
    <3>1. files' = files \/ \E r \in AliceRun : files' = [files EXCEPT !["escrow"] = escrowAccount[r]]
      BY <1>1, <2>1, FilesStep DEF WritePublicKey
    <3> QED BY <2>1, <3>1 DEF Files, TokenFile, MintFile
  <2>4. CASE \A o \in Run : tx'[o] = "none"
    <3>1. ledger' = ledger /\ \A o \in Run : tx[o] = "none"
      BY <1>1, <2>1, <2>4, NothingSent
    <3> QED BY <2>2, <2>3, <3>1, GroundKept
  <2>5. CASE ~ \A o \in Run : tx'[o] = "none"
    <3>1. \A i \in Written : Setup[i].file \in TokenFile \cup MintFile
      BY SetupFilesNamed
    <3>2. FilesWritten'
      BY <1>1, <2>3, <3>1 DEF GroundInv, FilesWritten, setupVars
    <3> QED BY <2>5, <3>2 DEF GroundInv, GroundLaid
  <2> QED BY <2>4, <2>5
<1>2. ASSUME NEW s \in SetupRun,
             \/ SetupSend(s) \/ SetupExecute(s) \/ SetupExpire(s) \/ SetupConfirm(s) \/ SetupWrite(s)
             \/ SetupThrow(s)
      PROVE  GroundInv'
  <2>1. CASE SetupExecute(s) /\ SetupTransactionOk(s)
    BY <2>1, GroundExecute
  <2>2. CASE SetupWrite(s)
    BY <2>2, GroundWrite
  <2>3. CASE SetupSend(s) \/ (SetupExecute(s) /\ ~ SetupTransactionOk(s)) \/ SetupExpire(s) \/ SetupConfirm(s) \/ SetupThrow(s)
    <3>1. Kept /\ UNCHANGED cvars
      BY <2>3, QuietSetup DEF SetupInv
    <3>2. ledger' = ledger /\ tx' = tx /\ files' = files
      BY <3>1 DEF cvars
    <3> QED BY <3>1, <3>2, GroundKept
  <2> QED BY <1>2, <2>1, <2>2, <2>3
<1> QED
  BY <1>1, <1>2 DEF SetupNext, svars, cvars

\* With unused keys, the rents, and the accounts of one set-up, Alice can post.
LEMMA AliceCanPost ==
  ASSUME NEW L \in Ledger, NEW r \in AliceRun, KeysOfKind(seen[r].files),
         L.lamports[tmpXTokenAccount[r]] = 0, L.lamports[escrowAccount[r]] = 0,
         L.escrow[escrowAccount[r]] = NoEscrow,
         L.lamports[alice] >= TokenRent + EscrowRent,
         Key(r, "alice_x") # tmpXTokenAccount[r], Key(r, "alice_y") # tmpXTokenAccount[r],
         L.token[Key(r, "alice_x")].mint = Key(r, "mint_x"),
         L.token[Key(r, "alice_x")].owner = alice,
         L.token[Key(r, "alice_x")].amount >= terms[r].bobExpectedAmount,
         IsTokenAccount(L, Key(r, "alice_y"))
  PROVE  AliceTransactionOk(L, r)
<1> DEFINE t == tmpXTokenAccount[r]
           e == escrowAccount[r]
           n == terms[r].bobExpectedAmount
           price == terms[r].aliceExpectedAmount
           ax == Key(r, "alice_x")
           ay == Key(r, "alice_y")
           mx == Key(r, "mint_x")
           L1 == TmpCreated(L, r)
           L2 == TmpFunded(L, r)
           L3 == EscrowCreated(L, r)
<1>1. /\ alice \in Wallet /\ t \in TokenKey /\ e \in EscrowKey
      /\ n \in U64 /\ price \in U64 /\ n \in Nat /\ n <= U64Max
      /\ ax \in TokenKey /\ ay \in TokenKey /\ mx \in Mint
      /\ TokenRent \in U64 /\ EscrowRent \in U64 /\ TokenRent \in Nat /\ EscrowRent \in Nat
      /\ alice # t /\ alice # e /\ e # t /\ \A k \in TokenKey : k # alice /\ k # e
  BY ClientAssumption, AddressAssumption, RentAssumption DEF KeysOfKind, TokenFile, MintFile, Key, Run, U64
<1>2. /\ L1 = WithTokenAccount(L, alice, t, mx)
      /\ L2 = Transfer(L1, ax, t, n)
      /\ L3 = WithEscrowAccount(L2, alice, e, EscrowRent)
  BY DEF TmpCreated, TmpFunded, EscrowCreated
<1>3. /\ L.lamports \in [Wallet \cup TokenKey \cup EscrowKey -> U64]
      /\ L.lamports[alice] \in Nat /\ L.lamports[t] = 0 /\ L.lamports[e] = 0
      /\ L.lamports[alice] >= TokenRent + EscrowRent
      /\ L.escrow[e] = NoEscrow /\ L.escrow \in [EscrowKey -> EscrowAccount]
      /\ L.token \in [TokenKey -> TokenAccount]
      /\ ax # t /\ ay # t
      /\ L.token[ax].mint = mx /\ L.token[ax].owner = alice /\ n <= L.token[ax].amount
      /\ L.token[ax].amount \in Nat
      /\ L.token[ay].mint # NoKey
  <2>1. /\ L.lamports \in [Wallet \cup TokenKey \cup EscrowKey -> U64]
        /\ L.escrow \in [EscrowKey -> EscrowAccount]
        /\ L.token \in [TokenKey -> TokenAccount]
    BY LedgerParts
  <2>2. L.lamports[alice] \in Nat /\ L.token[ax].amount \in Nat
    BY <1>1, <2>1, RentAssumption DEF U64, TokenAccount
  <2> QED BY <1>1, <2>1, <2>2 DEF IsTokenAccount
<1>o. AliceTransactionOk(L, r) <=>
        /\ CreateAccountOk(L, alice, t, TokenRent)
        /\ TransferOk(L1, ax, t, alice, {alice}, n)
        /\ CreateAccountOk(L2, alice, e, EscrowRent)
        /\ InitEscrowOk(L3, <<alice, t, ay, e, TokenProgram>>, {alice}, price)
  BY DEF AliceTransactionOk, InitEscrowKeys
<1> HIDE DEF t, e, n, price, ax, ay, mx, L1, L2, L3
<1>4. CreateAccountOk(L, alice, t, TokenRent)
  BY <1>1, <1>3 DEF CreateAccountOk
<1>5. /\ L1 \in Ledger /\ L1.escrow = L.escrow
      /\ L1.token = [L.token EXCEPT ![t] = [mint |-> mx, owner |-> alice, amount |-> 0]]
  BY <1>1, <1>2, <1>4, WithTokenAccountEffect
<1>6. L1.lamports = [L.lamports EXCEPT ![alice] = L.lamports[alice] - TokenRent, ![t] = TokenRent]
  <2>1. CreateAccount(L, alice, t, TokenRent).lamports =
          [L.lamports EXCEPT ![alice] = L.lamports[alice] - TokenRent, ![t] = TokenRent]
    BY <1>1, <1>4, CreateAccountEffect DEF CreateAccountOk
  <2>2. L1.lamports = CreateAccount(L, alice, t, TokenRent).lamports
    BY <1>2 DEF WithTokenAccount, CreateAccount
  <2> QED BY <2>1, <2>2
<1>7. /\ L1.token[t] = [mint |-> mx, owner |-> alice, amount |-> 0]
      /\ L1.token[ax] = L.token[ax] /\ L1.token[ay] = L.token[ay]
  BY <1>1, <1>3, <1>5
<1>8. TransferOk(L1, ax, t, alice, {alice}, n)
  <2>1. mx # NoKey
    BY <1>1, AddressAssumption
  <2> QED BY <1>1, <1>3, <1>7, <2>1 DEF TransferOk, IsTokenAccount
<1>9. L2 \in Ledger /\ Moved(L1, L2, ax, t, n)
  <2>1. ax # t => L1.token[t].amount + n <= U64Max
    BY <1>8 DEF TransferOk
  <2>2. n <= L1.token[ax].amount
    BY <1>8 DEF TransferOk
  <2> QED BY <1>1, <1>2, <1>5, <2>1, <2>2, TransferEffect
<1>10. L2.lamports = L1.lamports /\ L2.escrow = L.escrow
  BY <1>5, <1>9 DEF Moved
<1>11. CreateAccountOk(L2, alice, e, EscrowRent)
  <2>1. L2.lamports[e] = 0 /\ L2.lamports[alice] = L.lamports[alice] - TokenRent
    BY <1>1, <1>3, <1>6, <1>10
  <2> QED BY <1>1, <1>3, <2>1 DEF CreateAccountOk
<1>12. /\ L3 \in Ledger /\ L3.token = L2.token
       /\ L3.escrow = [L2.escrow EXCEPT ![e].allocated = TRUE]
  <2>1. L2 \in Ledger /\ alice \in Wallet /\ e \in EscrowKey
    BY <1>1, <1>9
  <2>2. /\ WithEscrowAccount(L2, alice, e, EscrowRent) \in Ledger
        /\ WithEscrowAccount(L2, alice, e, EscrowRent).escrow = [L2.escrow EXCEPT ![e].allocated = TRUE]
        /\ WithEscrowAccount(L2, alice, e, EscrowRent).token = L2.token
    BY ONLY <1>11, <2>1, WithEscrowAccountEffect
  <2> QED BY <1>2, <2>2
<1>13. L3.lamports[e] = EscrowRent
  <2>1. CreateAccount(L2, alice, e, EscrowRent).lamports =
          [L2.lamports EXCEPT ![alice] = L2.lamports[alice] - EscrowRent, ![e] = EscrowRent]
    BY <1>1, <1>9, <1>11, CreateAccountEffect DEF CreateAccountOk
  <2>2. L3.lamports = CreateAccount(L2, alice, e, EscrowRent).lamports
    BY <1>2 DEF WithEscrowAccount, CreateAccount
  <2>3. L2.lamports \in [Wallet \cup TokenKey \cup EscrowKey -> U64]
    BY <1>9, LedgerParts
  <2> QED BY <1>1, <2>1, <2>2, <2>3
<1>14. /\ L3.token[t].mint # NoKey /\ L3.token[t].owner = alice
       /\ L3.token[ay].mint # NoKey
  <2>1. \A k \in TokenKey : L3.token[k].mint = L1.token[k].mint /\ L3.token[k].owner = L1.token[k].owner
    BY <1>9, <1>12 DEF Moved
  <2>2. mx # NoKey
    BY <1>1, AddressAssumption
  <2> QED BY <1>1, <1>3, <1>7, <2>1, <2>2
<1>15. EscrowAccountOk(L3, e)
  <2>1. L3.escrow[e] = [NoEscrow EXCEPT !.allocated = TRUE]
    BY <1>1, <1>3, <1>10, <1>12
  <2>2. L3.escrow[e].allocated /\ ~ L3.escrow[e].is_initialized
    BY <2>1 DEF NoEscrow
  <2> QED BY <1>1, <1>13, <2>2 DEF EscrowAccountOk, RentExempt
<1>16. InitEscrowOk(L3, <<alice, t, ay, e, TokenProgram>>, {alice}, price)
  <2> DEFINE keys == <<alice, t, ay, e, TokenProgram>>
             a == InitEscrowAccounts(keys)
  <2>1. /\ a.initializer = alice /\ a.tmp_token_account = t /\ a.token_to_receive_account = ay
        /\ a.escrow_account = e /\ a.token_program = TokenProgram /\ Len(keys) = 5
    BY DEF InitEscrowAccounts
  <2>2. ReceiveAccountOk(L3, ay) /\ SetAuthorityOk(L3, t, alice, {alice})
    BY <1>1, <1>14 DEF ReceiveAccountOk, OwnedByTokenProgram, IsTokenAccount, SetAuthorityOk
  <2> HIDE DEF keys, a
  <2>3. Len(keys) >= 5
    BY <2>1
  <2>4. InitEscrowOk(L3, keys, {alice}, price)
    BY <1>15, <2>1, <2>2, <2>3 DEF InitEscrowOk, a
  <2> QED BY <2>4 DEF keys
<1> QED
  BY <1>o, <1>4, <1>8, <1>11, <1>16

\* What a set-up that has ended well has left to the runs.
LEMMA SetupLeaves ==
  ASSUME SetupInv, GroundInv, NEW s \in SetupRun, stage[s] = "done", \A o \in Run : tx[o] = "none"
  PROVE  /\ \A name \in TokenFile \cup MintFile : files[name] = fresh[s][name]
         /\ ledger.token[fresh[s]["alice_x"]] = [mint |-> fresh[s]["mint_x"], owner |-> alice, amount |-> Minted]
         /\ ledger.token[fresh[s]["alice_y"]] = [mint |-> fresh[s]["mint_y"], owner |-> alice, amount |-> 0]
         /\ ledger.token[fresh[s]["bob_x"]] = [mint |-> fresh[s]["mint_x"], owner |-> bob, amount |-> 0]
         /\ ledger.token[fresh[s]["bob_y"]] = [mint |-> fresh[s]["mint_y"], owner |-> bob, amount |-> Minted]
         /\ \A r \in AliceRun : KeysUnused(r)
<1>1. step[s] = 11 /\ confirmed[s] = "ok"
  BY DEF SetupInv, StagesInv
<1>2. \A i \in 1 .. 11 : Executed(<<s, i>>)
  BY <1>1 DEF Executed
<1>3. /\ Setup[4] = CreateMint("mint_x") /\ Setup[8] = CreateMint("mint_y")
      /\ Setup[5] = CreateAccountFor(alice, "alice_x", "mint_x")
      /\ Setup[6] = CreateAccountFor(bob, "bob_x", "mint_x")
      /\ Setup[9] = CreateAccountFor(alice, "alice_y", "mint_y")
      /\ Setup[10] = CreateAccountFor(bob, "bob_y", "mint_y")
      /\ Setup[7] = MintTo("alice_x", "mint_x") /\ Setup[11] = MintTo("bob_y", "mint_y")
  BY DEF Setup
<1>4. /\ Setup[4].file = "mint_x" /\ Setup[8].file = "mint_y"
      /\ Setup[5].file = "alice_x" /\ Setup[5].mint = "mint_x" /\ Setup[5].owner = alice
      /\ Setup[6].file = "bob_x" /\ Setup[6].mint = "mint_x" /\ Setup[6].owner = bob
      /\ Setup[9].file = "alice_y" /\ Setup[9].mint = "mint_y" /\ Setup[9].owner = alice
      /\ Setup[10].file = "bob_y" /\ Setup[10].mint = "mint_y" /\ Setup[10].owner = bob
      /\ Setup[7].account = "alice_x" /\ Setup[11].account = "bob_y"
  BY <1>3 DEF CreateMint, CreateAccountFor, MintTo
<1>5. \A name \in TokenFile \cup MintFile : files[name] = fresh[s][name]
  <2>1. \A i \in Written : files[Setup[i].file] = fresh[s][Setup[i].file]
    BY <1>1 DEF GroundInv, FilesWritten, Written
  <2>2. /\ files[Setup[4].file] = fresh[s][Setup[4].file] /\ files[Setup[8].file] = fresh[s][Setup[8].file]
        /\ files[Setup[5].file] = fresh[s][Setup[5].file] /\ files[Setup[6].file] = fresh[s][Setup[6].file]
        /\ files[Setup[9].file] = fresh[s][Setup[9].file] /\ files[Setup[10].file] = fresh[s][Setup[10].file]
    BY <2>1 DEF Written
  <2> QED BY <1>4, <2>2 DEF TokenFile, MintFile
<1>6. /\ AccountReady(s, 5) /\ AccountReady(s, 6) /\ AccountReady(s, 9) /\ AccountReady(s, 10)
      /\ \A r \in AliceRun : KeysUnused(r)
  <2>1. \A i \in {5, 6, 9, 10} : AccountReady(s, i)
    BY <1>2 DEF GroundInv, GroundLaid
  <2> QED BY <2>1 DEF GroundInv, GroundLaid
<1>7. /\ Given(s, "alice_x") = Minted /\ Given(s, "bob_y") = Minted
      /\ Given(s, "alice_y") = 0 /\ Given(s, "bob_x") = 0
  <2>1. Executed(<<s, 7>>) /\ Executed(<<s, 11>>)
    BY <1>2
  <2> QED BY <1>4, <2>1 DEF Given
<1> QED
  BY <1>4, <1>5, <1>6, <1>7 DEF AccountReady

LEMMA PreparedExchange ==
  ASSUME OneSetUp, SetupInv, GroundInv, NEW s \in SetupRun, NEW r \in AliceRun,
         stage[s] = "done", pc[r] = "send", seen[r].files = files,
         \A o \in Run : tx[o] = "none",
         ledger.lamports[alice] >= TokenRent + EscrowRent
  PROVE  LET posted == AliceTransaction(ledger, r)
             stored == [files EXCEPT !["escrow"] = escrowAccount[r]] IN
         /\ AliceTransactionOk(ledger, r)
         /\ ExchangeOk(posted, ExchangeKeys(stored, posted.escrow[escrowAccount[r]]), {bob},
                       terms[r].bobExpectedAmount)
<1> DEFINE t == tmpXTokenAccount[r]
           e == escrowAccount[r]
           n == terms[r].bobExpectedAmount
           price == terms[r].aliceExpectedAmount
           ax == fresh[s]["alice_x"]
           ay == fresh[s]["alice_y"]
           bx == fresh[s]["bob_x"]
           by == fresh[s]["bob_y"]
           mx == fresh[s]["mint_x"]
           my == fresh[s]["mint_y"]
           M == AliceTransaction(ledger, r)
           stored == [files EXCEPT !["escrow"] = e]
<1>1. /\ ledger \in Ledger /\ files \in Files /\ KeysOfKind(seen[r].files) /\ KeysOfKind(files)
      /\ alice \in Wallet /\ bob \in Wallet /\ t \in TokenKey /\ t \in Vaults /\ e \in EscrowKey
      /\ n \in U64 /\ price \in U64 /\ n <= Minted /\ price <= Minted /\ Minted \in U64
  BY ClientAssumption, SetupAssumption DEF SetupInv, ClientInv, ClientTypeOK, TypeOK, Run, Vaults, OneSetUp
<1>2. /\ \A name \in TokenFile \cup MintFile : files[name] = fresh[s][name]
      /\ ledger.token[ax] = [mint |-> mx, owner |-> alice, amount |-> Minted]
      /\ ledger.token[ay] = [mint |-> my, owner |-> alice, amount |-> 0]
      /\ ledger.token[bx] = [mint |-> mx, owner |-> bob, amount |-> 0]
      /\ ledger.token[by] = [mint |-> my, owner |-> bob, amount |-> Minted]
      /\ KeysUnused(r)
  BY SetupLeaves
<1>3. /\ ax \in TokenKey /\ ay \in TokenKey /\ bx \in TokenKey /\ by \in TokenKey
      /\ ax # t /\ ay # t /\ bx # t /\ by # t
      /\ mx \in Mint /\ my \in Mint /\ mx # NoKey /\ my # NoKey
  BY <1>1, SetupAssumption, AddressAssumption DEF TokenFile, MintFile
<1>4. ax # ay /\ ax # bx /\ ax # by /\ ay # bx /\ ay # by /\ bx # by
  BY DEF OneSetUp, TokenFile
<1>5. /\ Key(r, "alice_x") = ax /\ Key(r, "alice_y") = ay /\ Key(r, "mint_x") = mx
      /\ stored["bob_y"] = by /\ stored["bob_x"] = bx /\ stored["escrow"] = e
  BY <1>1, <1>2 DEF Key, TokenFile, MintFile, Files
<1>6. /\ ledger.lamports[t] = 0 /\ ledger.lamports[e] = 0 /\ ledger.escrow[e] = NoEscrow
  BY <1>2 DEF KeysUnused
<1>7. U64Max \in Nat /\ n \in Nat /\ price \in Nat /\ Minted \in Nat /\ Minted <= U64Max /\ n <= U64Max
      /\ TokenRent \in Nat /\ EscrowRent \in Nat
      /\ ledger.lamports[alice] \in Nat /\ ledger.lamports[alice] <= U64Max
      /\ ledger.escrow \in [EscrowKey -> EscrowAccount]
  BY <1>1, RentAssumption, LedgerParts DEF U64
<1> HIDE DEF t, e, n, price, ax, ay, bx, by, mx, my, M, stored
<1>8. AliceTransactionOk(ledger, r)
  <2>1. /\ ledger.token[ax].mint = mx /\ ledger.token[ax].owner = alice /\ ledger.token[ax].amount >= n
        /\ IsTokenAccount(ledger, ay)
    BY <1>1, <1>2, <1>3, <1>7 DEF IsTokenAccount
  <2> QED BY <1>1, <1>3, <1>5, <1>6, <2>1, AliceCanPost DEF t, e, n
<1>9. /\ M \in Ledger
      /\ M.escrow = [ledger.escrow EXCEPT ![e] = PostedState(r)]
      /\ \A k \in TokenKey \ {t} :
           /\ M.token[k].mint = ledger.token[k].mint
           /\ M.token[k].owner = ledger.token[k].owner
           /\ M.token[k].amount = ledger.token[k].amount - (IF k = ax THEN n ELSE 0)
      /\ M.token[t].mint = mx /\ M.token[t].owner = Pda /\ M.token[t].amount = n
      /\ M.lamports[t] = TokenRent /\ M.lamports[e] = EscrowRent
      /\ M.lamports[alice] = ledger.lamports[alice] - TokenRent - EscrowRent
  <2>1. /\ M \in Ledger
        /\ M.escrow = [ledger.escrow EXCEPT ![e] = PostedState(r)]
        /\ \A k \in TokenKey \ {t} :
             /\ M.token[k].mint = ledger.token[k].mint
             /\ M.token[k].owner = ledger.token[k].owner
             /\ M.token[k].amount = ledger.token[k].amount - (IF k = Key(r, "alice_x") THEN n ELSE 0)
        /\ M.token[t].mint = Key(r, "mint_x") /\ M.token[t].owner = Pda
        /\ Key(r, "alice_x") # t => M.token[t].amount = n
    BY <1>1, <1>8, AliceTransactionResult DEF M, t, e, n
  <2>2. /\ M.lamports[t] = TokenRent /\ M.lamports[e] = EscrowRent
        /\ M.lamports[alice] = ledger.lamports[alice] - TokenRent - EscrowRent
    BY <1>1, <1>8, AliceLamports DEF M, t, e
  <2> QED BY <1>3, <1>5, <2>1, <2>2
<1>10. /\ M.token[ay].mint = my /\ M.token[ay].amount = 0
       /\ M.token[bx].mint = mx /\ M.token[bx].amount = 0
       /\ M.token[by].mint = my /\ M.token[by].owner = bob /\ M.token[by].amount = Minted
  <2>1. /\ M.token[ay].mint = ledger.token[ay].mint /\ M.token[ay].amount = ledger.token[ay].amount - 0
        /\ M.token[bx].mint = ledger.token[bx].mint /\ M.token[bx].amount = ledger.token[bx].amount - 0
        /\ M.token[by].mint = ledger.token[by].mint /\ M.token[by].owner = ledger.token[by].owner
        /\ M.token[by].amount = ledger.token[by].amount - 0
    BY <1>3, <1>4, <1>9
  <2> QED BY <1>2, <1>7, <2>1
<1>11. PICK state : state = M.escrow[e]
  OBVIOUS
<1>12. /\ state.is_initialized
       /\ state.tmp_token_account_pubkey = t
       /\ state.initializer_pubkey = alice
       /\ state.initializer_token_to_receive_account_pubkey = ay
       /\ state.expected_amount = price
  <2>1. state = PostedState(r)
    BY <1>1, <1>7, <1>9, <1>11
  <2> QED BY <1>5, <2>1 DEF PostedState, t, price
<1>13. PICK keys : keys = ExchangeKeys(stored, state)
  OBVIOUS
<1>14. keys = <<bob, by, bx, t, alice, ay, e, TokenProgram, Pda>>
  BY <1>5, <1>12, <1>13 DEF ExchangeKeys
<1>15. ExchangeOk(M, keys, {bob}, M.token[t].amount)
  <2>1. /\ IsTokenAccount(M, t) /\ IsTokenAccount(M, ay)
        /\ M.token[bx].mint = M.token[t].mint /\ M.token[by].mint = M.token[ay].mint
        /\ M.token[by].amount >= price
    BY <1>1, <1>3, <1>7, <1>9, <1>10 DEF IsTokenAccount
  <2>2. /\ M.token[by].amount + M.token[ay].amount <= U64Max
        /\ M.token[bx].amount + M.token[t].amount <= U64Max
    BY <1>7, <1>9, <1>10
  <2>3. /\ M.lamports[alice] + M.lamports[t] <= U64Max
        /\ M.lamports[alice] + M.lamports[t] + M.lamports[e] <= U64Max
    BY <1>7, <1>9
  <2>4. /\ M.escrow[e].is_initialized
        /\ M.escrow[e].tmp_token_account_pubkey = t
        /\ M.escrow[e].initializer_pubkey = alice
        /\ M.escrow[e].initializer_token_to_receive_account_pubkey = ay
        /\ M.escrow[e].expected_amount = price
    BY <1>11, <1>12
  <2> QED BY <1>1, <1>3, <1>4, <1>9, <1>10, <1>14, <2>1, <2>2, <2>3, <2>4, FittingSettleable
<1>16. ExchangeOk(M, ExchangeKeys(stored, M.escrow[e]), {bob}, n)
  BY <1>9, <1>11, <1>13, <1>15
<1> QED
  BY <1>8, <1>16 DEF M, stored, e, n

(***************************************************************************)
(* For one set-up whose keys are its own, any terms that ask for no more   *)
(* than it mints, and any number of runs that have not yet sent anything:  *)
(* after a set-up that has ended well, Alice can post her escrow and Bob   *)
(* can then take it, whatever the files named before, if the airdrops have *)
(* reached her (setup.ts:63-100, package.json:9-13).                       *)
(***************************************************************************)
THEOREM ExchangePrepared ==
  ASSUME OneSetUp
  PROVE  SetupSpec => []SetUpForExchange
<1>1. SetupInv /\ GroundInv => SetUpForExchange
  BY PreparedExchange DEF SetUpForExchange
<1>2. SetupInit => SetupInv /\ GroundInv
  BY SetupInitInv, GroundInit
<1>3. SetupInv /\ GroundInv /\ [SetupNext]_svars => (SetupInv /\ GroundInv)'
  BY SetupNextInv, GroundNext
<1> QED
  BY <1>1, <1>2, <1>3, PTL DEF SetupSpec

=============================================================================
