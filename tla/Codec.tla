------------------------------- MODULE Codec -------------------------------
(***************************************************************************)
(* The bytes between the clients and the programs: instruction data, which *)
(* TypeScript writes and Rust reads, and the data of an escrow account,    *)
(* which Rust writes and both read.  The two sides have no code in common: *)
(* state.rs packs Escrow chunk by chunk, util.ts declares a layout of its  *)
(* own.                                                                    *)
(*                                                                         *)
(* A byte is a digit of base ByteBase (256), an amount has AmountBytes (8) *)
(* and a public key KeyBytes (32) of them.  What the handlers check beside *)
(* the bytes is in module Escrow.                                          *)
(***************************************************************************)
EXTENDS SequencesExt

CONSTANTS
  ByteBase, AmountBytes, KeyBytes,
  JsLimit,   \* 2^53: BN refuses JavaScript numbers from here on
  Keys,      \* the public keys in use
  MaxInput   \* the longest instruction data in a run

Byte == 0 .. ByteBase - 1

\* What a byte counts that has k bytes below it.
Weight[k \in 0 .. AmountBytes] == IF k = 0 THEN 1 ELSE ByteBase * Weight[k - 1]

U64 == 0 .. Weight[AmountBytes] - 1

ASSUME CodecAssumption ==
  /\ ByteBase \in Nat /\ ByteBase > 2
  /\ AmountBytes \in Nat \ {0} /\ KeyBytes \in Nat \ {0}
  /\ Keys \subseteq [1 .. KeyBytes -> Byte]
  /\ JsLimit \in U64
  /\ MaxInput \in Nat

VARIABLES
  input,    \* the instruction data under way
  meant,    \* what its sender has encoded in it
  data,     \* the escrow account's data, empty when there is no account
  recorded  \* what the program has last stored in it

vars == <<input, meant, data, recorded>>

-----------------------------------------------------------------------------
(* Rust.                                                                   *)

to_le_bytes(n) == [i \in 1 .. AmountBytes |-> (n \div Weight[i - 1]) % ByteBase]

\* The highest byte comes last: value[i] is what the last i bytes count.
from_le_bytes(bytes) ==
  LET value[i \in 0 .. AmountBytes] ==
        IF i = 0 THEN 0 ELSE bytes[AmountBytes - i + 1] + ByteBase * value[i - 1]
  IN  value[AmountBytes]

Instruction == [tag : {"InitEscrow", "Exchange", "Transfer"}, amount : U64]

Refused == [tag |-> "refused"]

\* pack of both programs.
Pack(instruction) ==
  CASE instruction.tag = "InitEscrow" -> <<0>> \o to_le_bytes(instruction.amount)
    [] instruction.tag = "Exchange" -> <<1>> \o to_le_bytes(instruction.amount)
    [] instruction.tag = "Transfer" -> to_le_bytes(instruction.amount)

\* An amount and nothing else: bytes that follow it are not looked at.
UnpackTransfer(bytes) ==
  IF Len(bytes) >= AmountBytes
  THEN [tag |-> "Transfer", amount |-> from_le_bytes(SubSeq(bytes, 1, AmountBytes))]
  ELSE Refused

\* Variant: every tag but the first is an Exchange.
UnpackAnyTag(bytes) ==
  IF bytes # <<>> /\ Len(bytes) > AmountBytes
  THEN [tag |-> IF bytes[1] = 0 THEN "InitEscrow" ELSE "Exchange",
        amount |-> from_le_bytes(SubSeq(bytes, 2, AmountBytes + 1))]
  ELSE Refused

Unpack(bytes) ==
  IF bytes # <<>> /\ bytes[1] \in {0, 1} /\ Len(Tail(bytes)) >= AmountBytes
  THEN [tag |-> IF bytes[1] = 0 THEN "InitEscrow" ELSE "Exchange",
        amount |-> from_le_bytes(SubSeq(Tail(bytes), 1, AmountBytes))]
  ELSE Refused

LEN == 1 + 3 * KeyBytes + AmountBytes

pack_into_slice(escrow) ==
  <<IF escrow.is_initialized THEN 1 ELSE 0>>
    \o escrow.initializer_pubkey
    \o escrow.tmp_token_account_pubkey
    \o escrow.initializer_token_to_receive_account_pubkey
    \o to_le_bytes(escrow.expected_amount)

\* Pack::unpack_unchecked asks for the exact length, then a bool is 0 or 1.
UnpackUncheckedOk(src) == Len(src) = LEN /\ src[1] \in {0, 1}

unpack_from_slice(src) ==
  LET key(i) == SubSeq(src, 2 + i * KeyBytes, 1 + (i + 1) * KeyBytes) IN
  [is_initialized |-> src[1] = 1,
   initializer_pubkey |-> key(0),
   tmp_token_account_pubkey |-> key(1),
   initializer_token_to_receive_account_pubkey |-> key(2),
   expected_amount |-> from_le_bytes(SubSeq(src, LEN - AmountBytes + 1, LEN))]

-----------------------------------------------------------------------------
(* TypeScript.                                                             *)

\* publicKey and uint64 are blobs.
Span(property) ==
  CASE property = "isInitialized" -> 1
    [] property = "expectedAmount" -> AmountBytes
    [] OTHER -> KeyBytes

\* Variant: the order in which the type EscrowLayout lists the fields.
EscrowLayoutTypeOrder ==
  <<"isInitialized", "initializerPubkey", "initializerReceivingTokenAccountPubkey",
    "initializerTempTokenAccountPubkey", "expectedAmount">>

ESCROW_ACCOUNT_DATA_LAYOUT ==
  <<"isInitialized", "initializerPubkey", "initializerTempTokenAccountPubkey",
    "initializerReceivingTokenAccountPubkey", "expectedAmount">>

\* Where field i starts; the layout's span is where a field after the last would.
Offset(i) ==
  SumFunctionOnSet([j \in DOMAIN ESCROW_ACCOUNT_DATA_LAYOUT |-> Span(ESCROW_ACCOUNT_DATA_LAYOUT[j])], 1 .. i - 1)

Decoded(bytes, property) ==
  LET i == CHOOSE j \in DOMAIN ESCROW_ACCOUNT_DATA_LAYOUT : ESCROW_ACCOUNT_DATA_LAYOUT[j] = property
  IN  SubSeq(bytes, Offset(i) + 1, Offset(i) + Span(property))

\* escrowState as bob.ts has it: any nonzero byte is initialised, and
\* new BN(expectedAmount, 10, 'le') counts the amount's bytes up.
escrowState(bytes) ==
  LET expectedAmount == Decoded(bytes, "expectedAmount") IN
  [is_initialized |-> Decoded(bytes, "isInitialized") # <<0>>,
   initializer_pubkey |-> Decoded(bytes, "initializerPubkey"),
   tmp_token_account_pubkey |-> Decoded(bytes, "initializerTempTokenAccountPubkey"),
   initializer_token_to_receive_account_pubkey |-> Decoded(bytes, "initializerReceivingTokenAccountPubkey"),
   expected_amount |-> SumFunction([i \in DOMAIN expectedAmount |-> expectedAmount[i] * Weight[i - 1]])]

\* new BN(n).toArray('le', 8): the lowest byte is taken off again and again.
toArray(n) ==
  LET shifted[k \in 0 .. AmountBytes] == IF k = 0 THEN n ELSE shifted[k - 1] \div ByteBase
  IN  [i \in 1 .. AmountBytes |-> shifted[i - 1] % ByteBase]

\* Variant: the highest byte comes first.
EncodedBigEndian(instruction) ==
  (CASE instruction.tag = "InitEscrow" -> <<0>>
     [] instruction.tag = "Exchange" -> <<1>>
     [] instruction.tag = "Transfer" -> <<>>) \o Reverse(toArray(instruction.amount))

\* The data alice(), bob() and transferLamports() put into their instructions.
Encoded(instruction) ==
  (CASE instruction.tag = "InitEscrow" -> <<0>>
     [] instruction.tag = "Exchange" -> <<1>>
     [] instruction.tag = "Transfer" -> <<>>) \o toArray(instruction.amount)

-----------------------------------------------------------------------------

Nothing == [tag |-> "nothing"]

Init == input = <<>> /\ meant = Nothing /\ data = <<>> /\ recorded = Nothing

\* A client of escrow/js, which goes through BN, or transfer-lamports/js, which
\* goes through BigInt.
ClientEncode(instruction) ==
  /\ input = <<>>
  /\ instruction.tag = "Transfer" \/ instruction.amount < JsLimit
  /\ input' = Encoded(instruction) /\ meant' = instruction
  /\ UNCHANGED <<data, recorded>>

\* A client in Rust, as the tests are.
RustEncode(instruction) ==
  /\ input = <<>>
  /\ input' = Pack(instruction) /\ meant' = instruction
  /\ UNCHANGED <<data, recorded>>

\* Any other client sends whatever bytes it likes.
OtherInput(bytes) ==
  /\ input = <<>>
  /\ input' = bytes /\ meant' = Nothing
  /\ UNCHANGED <<data, recorded>>

\* createAccount with the layout's span, zeroed by the runtime.
CreateEscrowAccount ==
  /\ data = <<>>
  /\ data' = [i \in 1 .. Offset(Len(ESCROW_ACCOUNT_DATA_LAYOUT) + 1) |-> 0]
  /\ UNCHANGED <<input, meant, recorded>>

\* The handlers' work on the account's data.
ProcessInitEscrow(initializer, tmp, receive) ==
  /\ Unpack(input).tag = "InitEscrow"
  /\ UnpackUncheckedOk(data) /\ ~ unpack_from_slice(data).is_initialized
  /\ recorded' = [is_initialized |-> TRUE,
                  initializer_pubkey |-> initializer,
                  tmp_token_account_pubkey |-> tmp,
                  initializer_token_to_receive_account_pubkey |-> receive,
                  expected_amount |-> Unpack(input).amount]
  /\ data' = pack_into_slice(recorded')
  /\ input' = <<>> /\ meant' = Nothing

ProcessExchange ==
  /\ Unpack(input).tag = "Exchange"
  /\ UnpackUncheckedOk(data) /\ unpack_from_slice(data).is_initialized
  /\ data' = <<>> /\ recorded' = Nothing
  /\ input' = <<>> /\ meant' = Nothing

\* The input is refused, or a transfer that does not touch the account, or a
\* check on other accounts fails.
ProcessElsewhere ==
  /\ input # <<>>
  /\ input' = <<>> /\ meant' = Nothing
  /\ UNCHANGED <<data, recorded>>

Next ==
  \/ \E instruction \in Instruction : ClientEncode(instruction) \/ RustEncode(instruction)
  \/ \E bytes \in BoundedSeq(Byte, MaxInput) : OtherInput(bytes)
  \/ CreateEscrowAccount
  \/ \E initializer, tmp, receive \in Keys : ProcessInitEscrow(initializer, tmp, receive)
  \/ ProcessExchange
  \/ ProcessElsewhere

Spec == Init /\ [][Next]_vars

-----------------------------------------------------------------------------

(***************************************************************************)
(* What a client of either language has encoded is what the program reads, *)
(* for the whole range of amounts a JavaScript number can hold and beyond  *)
(* it for Rust (alice.ts:82-88, bob.ts:75-81, transfer-lamports.ts:47-48,  *)
(* instruction.rs:49-72 of both programs).                                 *)
(***************************************************************************)
InstructionsArrive ==
  meant # Nothing => (IF meant.tag = "Transfer" THEN UnpackTransfer(input) ELSE Unpack(input)) = meant

(***************************************************************************)
(* Whatever bytes are sent, the program acts on them only if they begin    *)
(* with what pack writes for that instruction: a short, an empty and a     *)
(* wrongly tagged input is refused, and no input has two readings          *)
(* (instruction.rs:49-97).                                                 *)
(***************************************************************************)
OnlyPackedAccepted ==
  Unpack(input) # Refused => IsPrefix(Pack(Unpack(input)), input)

(***************************************************************************)
(* An account the client has made fits the program's Pack, and both sides  *)
(* read from it, field by field, what the program has last recorded        *)
(* (state.rs:43-109, util.ts:54-60, bob.ts:30-51).                         *)
(***************************************************************************)
EscrowReadAlike ==
  data # <<>> =>
    /\ UnpackUncheckedOk(data)
    /\ escrowState(data) = unpack_from_slice(data)
    /\ recorded # Nothing => escrowState(data) = recorded

=============================================================================
