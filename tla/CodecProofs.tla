---------------------------- MODULE CodecProofs ----------------------------
(***************************************************************************)
(* Proofs about the bytes between the clients and the programs, for every  *)
(* base, every width of amounts and keys, and input of any length.         *)
(***************************************************************************)
EXTENDS Codec, DataLemmas, SequenceTheorems, Integers, TLAPS

-----------------------------------------------------------------------------
(* Digits.                                                                 *)

\* Each byte counts ByteBase times what the byte below it does.
LEMMA Weights ==
  /\ Weight \in [0 .. AmountBytes -> Nat \ {0}]
  /\ Weight[0] = 1
  /\ \A k \in 1 .. AmountBytes : Weight[k] = ByteBase * Weight[k - 1]
<1> DEFINE IsWeight(W) == W = [k \in 0 .. AmountBytes |-> IF k = 0 THEN 1 ELSE ByteBase * W[k - 1]]
           Positive == Nat \ {0}
           next == [i \in 1 .. AmountBytes |-> [x \in Positive |-> ByteBase * x]]
<1>1. AmountBytes \in Nat /\ \A x \in Nat \ {0} : ByteBase * x \in Nat \ {0}
  BY CodecAssumption
<1>2. \E W : IsWeight(W)
  <2>1. next \in [1 .. AmountBytes -> [Positive -> Positive]]
    BY <1>1
  <2>2. 1 \in Positive
    OBVIOUS
  <2>0. Recursion(AmountBytes, Positive, 1, next)
    <3> HIDE DEF next, Positive
    <3> QED BY <1>1, <2>1, <2>2, RecursionDefines
  <2>3. PICK g \in [0 .. AmountBytes -> Positive] :
          g[0] = 1 /\ \A i \in 1 .. AmountBytes : g[i] = next[i][g[i - 1]]
    <3> HIDE DEF next, Positive
    <3> QED BY <2>0 DEF Recursion
  <2>4. \A i \in 0 .. AmountBytes : g[i] = IF i = 0 THEN 1 ELSE ByteBase * g[i - 1]
    <3> SUFFICES ASSUME NEW i \in 1 .. AmountBytes PROVE next[i][g[i - 1]] = ByteBase * g[i - 1]
      <4> HIDE DEF next, Positive
      <4> QED BY <1>1, <2>3
    <3>1. i - 1 \in 0 .. AmountBytes
      BY <1>1
    <3>2. g[i - 1] \in Positive
      BY <3>1
    <3> HIDE DEF Positive
    <3> QED BY <3>2
  <2>5. g = [k \in 0 .. AmountBytes |-> g[k]]
    OBVIOUS
  <2> QED BY <2>4, <2>5
<1>3. IsWeight(Weight)
  BY <1>2 DEF Weight
<1>4. \A k \in 0 .. AmountBytes : Weight[k] = IF k = 0 THEN 1 ELSE ByteBase * Weight[k - 1]
  BY <1>3
<1> DEFINE Good == {k \in 0 .. AmountBytes : Weight[k] \in Nat \ {0}}
<1>5. 0 .. AmountBytes \subseteq Good
  <2>1. 0 \in Good
    BY <1>1, <1>4
  <2>2. ASSUME NEW k \in 1 .. AmountBytes, k - 1 \in Good PROVE k \in Good
    BY <1>1, <1>4, <2>2
  <2> HIDE DEF Good
  <2> QED BY <1>1, <2>1, <2>2, UpToGood
<1>6. Weight = [k \in 0 .. AmountBytes |-> Weight[k]]
  BY <1>3
<1> HIDE DEF IsWeight
<1>7. Weight \in [0 .. AmountBytes -> Nat \ {0}]
  BY <1>5, <1>6
<1>8. Weight[0] = 1 /\ \A k \in 1 .. AmountBytes : Weight[k] = ByteBase * Weight[k - 1]
  BY <1>1, <1>4
<1> QED
  BY <1>7, <1>8

\* Taking the lowest byte off again and again writes the same bytes.
LEMMA SameBytes ==
  ASSUME NEW n \in Nat
  PROVE  toArray(n) = to_le_bytes(n)
<1> DEFINE IsShifted(s) == s = [k \in 0 .. AmountBytes |-> IF k = 0 THEN n ELSE s[k - 1] \div ByteBase]
           next == [i \in 1 .. AmountBytes |-> [x \in Nat |-> x \div ByteBase]]
           shifted == CHOOSE s : IsShifted(s)
<1>1. AmountBytes \in Nat /\ ByteBase \in Nat /\ ByteBase > 0 /\ \A x \in Nat : x \div ByteBase \in Nat
  BY CodecAssumption
<1>2. \E s : IsShifted(s)
  <2>1. next \in [1 .. AmountBytes -> [Nat -> Nat]]
    BY <1>1
  <2>0. Recursion(AmountBytes, Nat, n, next)
    <3> HIDE DEF next
    <3> QED BY <1>1, <2>1, RecursionDefines
  <2>2. PICK g \in [0 .. AmountBytes -> Nat] :
          g[0] = n /\ \A i \in 1 .. AmountBytes : g[i] = next[i][g[i - 1]]
    <3> HIDE DEF next
    <3> QED BY <2>0 DEF Recursion
  <2>3. \A i \in 0 .. AmountBytes : g[i] = IF i = 0 THEN n ELSE g[i - 1] \div ByteBase
    <3> SUFFICES ASSUME NEW i \in 1 .. AmountBytes PROVE next[i][g[i - 1]] = g[i - 1] \div ByteBase
      <4> HIDE DEF next
      <4> QED BY <1>1, <2>2
    <3>1. i - 1 \in 0 .. AmountBytes
      BY <1>1
    <3>2. g[i - 1] \in Nat
      BY <3>1
    <3> QED BY <3>2
  <2>4. g = [k \in 0 .. AmountBytes |-> g[k]]
    OBVIOUS
  <2> QED BY <2>3, <2>4
<1>3. IsShifted(shifted)
  BY <1>2
<1>4. toArray(n) = [i \in 1 .. AmountBytes |-> shifted[i - 1] % ByteBase]
  BY DEF toArray
<1> HIDE DEF shifted
<1>5. \A k \in 0 .. AmountBytes : shifted[k] = IF k = 0 THEN n ELSE shifted[k - 1] \div ByteBase
  BY <1>3
<1> DEFINE Good == {k \in 0 .. AmountBytes : shifted[k] = n \div Weight[k]}
<1>6. 0 \in Good
  BY <1>1, <1>5, Weights
<1>7. ASSUME NEW k \in 1 .. AmountBytes, k - 1 \in Good PROVE k \in Good
  <2>1. shifted[k] = (n \div Weight[k - 1]) \div ByteBase
    BY <1>5, <1>7
  <2>2. Weight[k - 1] \in Nat /\ Weight[k - 1] > 0 /\ Weight[k] = ByteBase * Weight[k - 1]
    BY <1>1, Weights
  <2>3. (n \div Weight[k - 1]) \div ByteBase = n \div Weight[k]
    BY <1>1, <2>2, DividedTwice
  <2> QED BY <2>1, <2>3
<1> HIDE DEF Good
<1>8. 0 .. AmountBytes \subseteq Good
  BY <1>1, <1>6, <1>7, UpToGood
<1>9. \A i \in 1 .. AmountBytes : shifted[i - 1] = n \div Weight[i - 1]
  BY <1>1, <1>8 DEF Good
<1> QED
  BY <1>4, <1>9 DEF to_le_bytes

\* What the last i bytes count, for each i.
LEMMA Values ==
  ASSUME NEW bytes \in [1 .. AmountBytes -> Byte]
  PROVE  \E v \in [0 .. AmountBytes -> Nat] :
           /\ v[0] = 0
           /\ \A i \in 1 .. AmountBytes : v[i] = bytes[AmountBytes - i + 1] + ByteBase * v[i - 1]
           /\ \A i \in 0 .. AmountBytes : v[i] < Weight[i]
           /\ from_le_bytes(bytes) = v[AmountBytes]
<1> DEFINE IsValue(v) ==
             v = [i \in 0 .. AmountBytes |->
                    IF i = 0 THEN 0 ELSE bytes[AmountBytes - i + 1] + ByteBase * v[i - 1]]
           next == [i \in 1 .. AmountBytes |-> [x \in Nat |-> bytes[AmountBytes - i + 1] + ByteBase * x]]
           value == CHOOSE v : IsValue(v)
<1>1. AmountBytes \in Nat /\ ByteBase \in Nat /\ ByteBase > 0
  BY CodecAssumption
<1>2. \A i \in 1 .. AmountBytes : bytes[AmountBytes - i + 1] \in 0 .. ByteBase - 1
  BY <1>1 DEF Byte
<1>3. \A i \in 1 .. AmountBytes, x \in Nat : bytes[AmountBytes - i + 1] + ByteBase * x \in Nat
  BY <1>1, <1>2
<1>4. \E v : IsValue(v)
  <2>1. next \in [1 .. AmountBytes -> [Nat -> Nat]]
    BY <1>3
  <2>0. Recursion(AmountBytes, Nat, 0, next)
    <3> HIDE DEF next
    <3>1. 0 \in Nat
      OBVIOUS
    <3> QED BY <1>1, <2>1, <3>1, RecursionDefines
  <2>2. PICK g \in [0 .. AmountBytes -> Nat] :
          g[0] = 0 /\ \A i \in 1 .. AmountBytes : g[i] = next[i][g[i - 1]]
    <3> HIDE DEF next
    <3> QED BY <2>0 DEF Recursion
  <2>3. \A i \in 0 .. AmountBytes :
          g[i] = IF i = 0 THEN 0 ELSE bytes[AmountBytes - i + 1] + ByteBase * g[i - 1]
    <3> SUFFICES ASSUME NEW i \in 1 .. AmountBytes
                 PROVE  next[i][g[i - 1]] = bytes[AmountBytes - i + 1] + ByteBase * g[i - 1]
      <4> HIDE DEF next
      <4> QED BY <1>1, <2>2
    <3>1. i - 1 \in 0 .. AmountBytes
      BY <1>1
    <3>2. g[i - 1] \in Nat
      BY <3>1
    <3> QED BY <3>2
  <2>4. g = [i \in 0 .. AmountBytes |-> g[i]]
    OBVIOUS
  <2> QED BY <2>3, <2>4
<1>5. IsValue(value)
  BY <1>4
<1>6. from_le_bytes(bytes) = value[AmountBytes]
  BY DEF from_le_bytes
<1> HIDE DEF value
<1>7. \A i \in 0 .. AmountBytes :
        value[i] = IF i = 0 THEN 0 ELSE bytes[AmountBytes - i + 1] + ByteBase * value[i - 1]
  BY <1>5
<1> DEFINE Good == {i \in 0 .. AmountBytes : value[i] \in Nat /\ value[i] < Weight[i]}
<1>8. 0 \in Good
  BY <1>1, <1>7, Weights
<1>9. ASSUME NEW i \in 1 .. AmountBytes, i - 1 \in Good PROVE i \in Good
  <2> DEFINE b == bytes[AmountBytes - i + 1]
             x == value[i - 1]
             w == Weight[i - 1]
  <2>0. i - 1 \in 0 .. AmountBytes
    BY <1>1
  <2>1. b \in 0 .. ByteBase - 1 /\ x \in Nat /\ w \in Nat /\ x <= w - 1
    <3>1. b \in 0 .. ByteBase - 1
      BY <1>2
    <3>2. w \in Nat
      BY <2>0, Weights
    <3>3. x \in Nat /\ x < w
      BY <1>9
    <3> QED BY <3>1, <3>2, <3>3
  <2>2. value[i] = b + ByteBase * x /\ Weight[i] = ByteBase * w
    BY <1>7, Weights
  <2> HIDE DEF b, x, w
  <2>3. ByteBase * x \in Nat /\ ByteBase * x <= ByteBase * (w - 1) /\ ByteBase * (w - 1) = ByteBase * w - ByteBase
    BY <1>1, <2>1
  <2>4. ByteBase * w \in Nat
    BY <1>1, <2>1
  <2>5. value[i] \in Nat /\ value[i] < Weight[i]
    BY <1>1, <2>1, <2>2, <2>3, <2>4
  <2> QED BY <2>5
<1> HIDE DEF Good
<1>10. 0 .. AmountBytes \subseteq Good
  BY <1>1, <1>8, <1>9, UpToGood
<1>11. value = [i \in 0 .. AmountBytes |-> value[i]]
  BY <1>5
<1> HIDE DEF IsValue
<1>12. value \in [0 .. AmountBytes -> Nat] /\ \A i \in 0 .. AmountBytes : value[i] < Weight[i]
  BY <1>10, <1>11 DEF Good
<1>13. value[0] = 0
  BY <1>1, <1>7
<1>14. \A i \in 1 .. AmountBytes : value[i] = bytes[AmountBytes - i + 1] + ByteBase * value[i - 1]
  BY <1>1, <1>7
<1> QED
  BY <1>6, <1>12, <1>13, <1>14

-----------------------------------------------------------------------------
(* Amounts.                                                                *)

\* An amount has as many bytes as both sides write.
LEMMA BytesOfAmount ==
  ASSUME NEW n \in Nat
  PROVE  to_le_bytes(n) \in [1 .. AmountBytes -> Byte]
<1> SUFFICES ASSUME NEW i \in 1 .. AmountBytes PROVE (n \div Weight[i - 1]) % ByteBase \in Byte
  BY DEF to_le_bytes
<1>1. AmountBytes \in Nat /\ ByteBase \in Nat /\ ByteBase > 0
  BY CodecAssumption
<1>2. i - 1 \in 0 .. AmountBytes
  BY <1>1
<1>3. Weight[i - 1] \in Nat /\ Weight[i - 1] > 0
  BY <1>2, Weights
<1> DEFINE q == n \div Weight[i - 1]
<1>4. q \in Nat
  BY <1>3
<1> HIDE DEF q
<1>5. q % ByteBase \in Byte
  BY <1>1, <1>4 DEF Byte
<1> QED
  BY <1>5 DEF q

\* from_le_bytes reads what to_le_bytes writes.
LEMMA ReadBack ==
  ASSUME NEW n \in U64
  PROVE  from_le_bytes(to_le_bytes(n)) = n
<1>1. AmountBytes \in Nat /\ ByteBase \in Nat /\ ByteBase > 0
  BY CodecAssumption
<1>2. Weight[AmountBytes] \in Nat /\ n \in Nat /\ n < Weight[AmountBytes]
  <2>1. AmountBytes \in 0 .. AmountBytes
    BY <1>1
  <2>2. Weight[AmountBytes] \in Nat
    BY <2>1, Weights
  <2> QED BY <2>2 DEF U64
<1> DEFINE bytes == to_le_bytes(n)
<1>3. bytes \in [1 .. AmountBytes -> Byte]
  BY <1>2, BytesOfAmount
<1>4. \A i \in 1 .. AmountBytes : bytes[i] = (n \div Weight[i - 1]) % ByteBase
  BY DEF to_le_bytes
<1> HIDE DEF bytes
<1>5. PICK v \in [0 .. AmountBytes -> Nat] :
        /\ v[0] = 0
        /\ \A i \in 1 .. AmountBytes : v[i] = bytes[AmountBytes - i + 1] + ByteBase * v[i - 1]
        /\ from_le_bytes(bytes) = v[AmountBytes]
  BY <1>3, Values
<1> DEFINE Good == {i \in 0 .. AmountBytes : v[i] = n \div Weight[AmountBytes - i]}
<1>6. 0 \in Good
  <2>1. n \div Weight[AmountBytes] = 0
    <3> DEFINE w == Weight[AmountBytes]
    <3>1. w \in Nat /\ w > 0 /\ n \in 0 .. w - 1 /\ n = w * 0 + n
      BY <1>2
    <3> HIDE DEF w
    <3>2. n \div w = 0
      BY <1>2, <3>1, Quotient
    <3> QED BY <3>2 DEF w
  <2> QED BY <1>1, <1>5, <2>1
<1>7. ASSUME NEW i \in 1 .. AmountBytes, i - 1 \in Good PROVE i \in Good
  <2> DEFINE j == AmountBytes - i
             w == Weight[j]
  <2>1. j \in 0 .. AmountBytes /\ j + 1 \in 1 .. AmountBytes /\ AmountBytes - i + 1 = j + 1
        /\ AmountBytes - (i - 1) = j + 1 /\ (j + 1) - 1 = j
    BY <1>1
  <2> HIDE DEF j
  <2>2. w \in Nat /\ w > 0 /\ Weight[j + 1] = ByteBase * w
    BY <2>1, Weights
  <2>3. v[i] = bytes[j + 1] + ByteBase * v[i - 1]
    BY <1>5, <2>1
  <2>4. bytes[j + 1] = (n \div w) % ByteBase
    BY <1>4, <2>1
  <2>5. v[i - 1] = n \div (ByteBase * w)
    BY <1>7, <2>1, <2>2
  <2> HIDE DEF w
  <2>6. (n \div w) \div ByteBase = n \div (ByteBase * w)
    BY <1>1, <1>2, <2>2, DividedTwice
  <2>7. n \div w \in Nat
    BY <1>2, <2>2
  <2>8. v[i] = n \div w
    <3> DEFINE q == n \div w
    <3>1. v[i] = (q % ByteBase) + ByteBase * (q \div ByteBase)
      BY <2>3, <2>4, <2>5, <2>6
    <3>2. q \in Nat
      BY <2>7
    <3> HIDE DEF q
    <3>3. v[i] = q
      BY <1>1, <3>1, <3>2
    <3> QED BY <3>3 DEF q
  <2> QED BY <2>8 DEF w, j
<1>8. AmountBytes \in Good
  <2> HIDE DEF Good
  <2>1. 0 .. AmountBytes \subseteq Good
    BY <1>1, <1>6, <1>7, UpToGood
  <2> QED BY <1>1, <2>1
<1>9. AmountBytes - AmountBytes = 0 /\ n \div 1 = n
  BY <1>1, <1>2
<1> QED
  BY <1>5, <1>8, <1>9, Weights DEF bytes

\* What counts the bytes up from the lowest.
LEMMA CountedUp ==
  ASSUME NEW bytes \in [1 .. AmountBytes -> Byte]
  PROVE  SumFunction([i \in DOMAIN bytes |-> bytes[i] * Weight[i - 1]]) = from_le_bytes(bytes)
<1> DEFINE f == [i \in 1 .. AmountBytes |-> bytes[i] * Weight[i - 1]]
<1>1. AmountBytes \in Nat /\ ByteBase \in Nat /\ ByteBase > 0
  BY CodecAssumption
<1>2. PICK v \in [0 .. AmountBytes -> Nat] :
        /\ v[0] = 0
        /\ \A i \in 1 .. AmountBytes : v[i] = bytes[AmountBytes - i + 1] + ByteBase * v[i - 1]
        /\ from_le_bytes(bytes) = v[AmountBytes]
  BY Values
<1>3. \A i \in 1 .. AmountBytes : i - 1 \in 0 .. AmountBytes /\ bytes[i] \in Nat /\ Weight[i - 1] \in Nat
  <2> SUFFICES ASSUME NEW i \in 1 .. AmountBytes PROVE i - 1 \in 0 .. AmountBytes /\ bytes[i] \in Nat /\ Weight[i - 1] \in Nat
    OBVIOUS
  <2>1. i - 1 \in 0 .. AmountBytes
    BY <1>1
  <2>2. bytes[i] \in Byte
    OBVIOUS
  <2> QED BY <1>1, <2>1, <2>2, Weights DEF Byte
<1>4. \A i \in 1 .. AmountBytes : f[i] = bytes[i] * Weight[i - 1] /\ f[i] \in Nat
  BY <1>3
<1> HIDE DEF f
<1> DEFINE Sum(k) == SumFunctionOnSet(f, 1 .. k)
           Good == {k \in 0 .. AmountBytes : Sum(k) + Weight[k] * v[AmountBytes - k] = v[AmountBytes]}
<1>5. 0 \in Good
  <2>1. 1 .. 0 = {}
    OBVIOUS
  <2>2. Sum(0) = 0
    BY <2>1, SumEmpty
  <2>3. AmountBytes - 0 = AmountBytes /\ v[AmountBytes] \in Nat
    BY <1>1
  <2> HIDE DEF Sum
  <2> QED BY <1>1, <2>2, <2>3, Weights
<1>6. ASSUME NEW k \in 1 .. AmountBytes, k - 1 \in Good PROVE k \in Good
  <2> DEFINE S == 1 .. k - 1
             w == Weight[k - 1]
             x == v[AmountBytes - k]
             b == bytes[k]
             before == Sum(k - 1)
  <2>1. /\ IsFiniteSet(S) /\ k \notin S /\ S \cup {k} = 1 .. k
        /\ S \cup {k} \subseteq 1 .. AmountBytes
    <3>1. IsFiniteSet(S)
      BY <1>1, FS_Interval
    <3>2. k \notin S /\ S \cup {k} = 1 .. k /\ S \cup {k} \subseteq 1 .. AmountBytes
      BY <1>1
    <3> QED BY <3>1, <3>2
  <2>2. SumFunctionOnSet(f, S \cup {k}) = f[k] + SumFunctionOnSet(f, S)
    <3> HIDE DEF S
    <3>1. \A y \in S \cup {k} : f[y] \in Int
      BY <1>4, <2>1
    <3> QED BY <2>1, <3>1, SumAdd
  <2>3. Sum(k) = f[k] + before
    BY <2>1, <2>2
  <2>4. before \in Nat
    <3> HIDE DEF S
    <3>1. \A y \in S : f[y] \in Nat
      BY <1>4, <2>1
    <3>2. SumFunctionOnSet(f, S) \in Nat
      BY <2>1, <3>1, SumType
    <3> QED BY <3>2 DEF S
  <2>5. f[k] = b * w /\ b \in Nat /\ w \in Nat /\ Weight[k] = ByteBase * w
    BY <1>3, <1>4, Weights
  <2>6. x \in Nat /\ v[AmountBytes - k + 1] = b + ByteBase * x
    <3> DEFINE i == AmountBytes - k + 1
    <3>1. i \in 1 .. AmountBytes /\ AmountBytes - i + 1 = k /\ i - 1 = AmountBytes - k
      BY <1>1
    <3>2. AmountBytes - k \in 0 .. AmountBytes
      BY <1>1
    <3> HIDE DEF i
    <3>3. v[i] = bytes[AmountBytes - i + 1] + ByteBase * v[i - 1]
      BY <1>2, <3>1
    <3>4. x \in Nat
      BY <3>2
    <3> QED BY <3>1, <3>3, <3>4 DEF i
  <2>7. before + w * (b + ByteBase * x) = v[AmountBytes]
    <3>1. AmountBytes - (k - 1) = AmountBytes - k + 1
      BY <1>1
    <3> HIDE DEF Sum
    <3> QED BY <1>6, <2>6, <3>1
  <2> HIDE DEF before, w, b, Sum
  <2>8. (b * w + before) + (ByteBase * w) * x = before + w * (b + ByteBase * x)
    <3> HIDE DEF x
    <3> QED BY <1>1, <2>4, <2>5, <2>6
  <2>9. Sum(k) + Weight[k] * v[AmountBytes - k] = v[AmountBytes]
    BY <2>3, <2>5, <2>7, <2>8
  <2> QED BY <2>9
<1>7. Sum(AmountBytes) + Weight[AmountBytes] * v[AmountBytes - AmountBytes] = v[AmountBytes]
  <2> HIDE DEF Good
  <2>1. 0 .. AmountBytes \subseteq Good
    BY <1>1, <1>5, <1>6, UpToGood
  <2>2. AmountBytes \in Good
    BY <1>1, <2>1
  <2> QED BY <2>2 DEF Good
<1>8. Sum(AmountBytes) = v[AmountBytes]
  <2>1. AmountBytes - AmountBytes = 0 /\ AmountBytes \in 0 .. AmountBytes
    BY <1>1
  <2>2. Weight[AmountBytes] \in Nat
    BY <2>1, Weights
  <2>3. Sum(AmountBytes) \in Nat
    <3>1. IsFiniteSet(1 .. AmountBytes)
      BY <1>1, FS_Interval
    <3> QED BY <1>4, <3>1, SumType
  <2> HIDE DEF Sum
  <2> QED BY <1>2, <1>7, <2>1, <2>2, <2>3
<1>9. SumFunction([i \in DOMAIN bytes |-> bytes[i] * Weight[i - 1]]) = Sum(AmountBytes)
  BY DEF SumFunction, f
<1> QED
  BY <1>2, <1>8, <1>9

\* And to_le_bytes writes what from_le_bytes has read.
LEMMA WrittenBack ==
  ASSUME NEW bytes \in [1 .. AmountBytes -> Byte]
  PROVE  from_le_bytes(bytes) \in U64 /\ to_le_bytes(from_le_bytes(bytes)) = bytes
<1>1. AmountBytes \in Nat /\ ByteBase \in Nat /\ ByteBase > 0
  BY CodecAssumption
<1>2. PICK v \in [0 .. AmountBytes -> Nat] :
        /\ \A i \in 1 .. AmountBytes : v[i] = bytes[AmountBytes - i + 1] + ByteBase * v[i - 1]
        /\ \A i \in 0 .. AmountBytes : v[i] < Weight[i]
        /\ from_le_bytes(bytes) = v[AmountBytes]
  BY Values
<1> DEFINE n == v[AmountBytes]
<1>3. n \in Nat /\ n \in U64
  <2>1. AmountBytes \in 0 .. AmountBytes
    BY <1>1
  <2>2. Weight[AmountBytes] \in Nat /\ v[AmountBytes] \in Nat /\ v[AmountBytes] < Weight[AmountBytes]
    BY <1>2, <2>1, Weights
  <2> QED BY <2>2 DEF U64
<1>4. ASSUME NEW j \in 1 .. AmountBytes
      PROVE  /\ v[AmountBytes - (j - 1)] \div ByteBase = v[AmountBytes - j]
             /\ v[AmountBytes - (j - 1)] % ByteBase = bytes[j]
  <2> DEFINE i == AmountBytes - (j - 1)
             x == v[i - 1]
             b == bytes[j]
  <2>1. i \in 1 .. AmountBytes /\ AmountBytes - i + 1 = j /\ i - 1 = AmountBytes - j /\ i - 1 \in 0 .. AmountBytes
    BY <1>1
  <2> HIDE DEF i
  <2>2. v[i] = b + ByteBase * x
    BY <1>2, <2>1
  <2>3. x \in Int /\ v[i] \in Int
    BY <2>1
  <2>4. b \in 0 .. ByteBase - 1
    BY DEF Byte
  <2>5. v[i] \div ByteBase = x /\ v[i] % ByteBase = b
    <3> DEFINE m == v[i]
    <3>1. m = ByteBase * x + b /\ m \in Int
      BY <1>1, <2>2, <2>3, <2>4
    <3> HIDE DEF m, x, b
    <3>2. m \div ByteBase = x /\ m % ByteBase = b
      BY <1>1, <2>3, <2>4, <3>1, Quotient
    <3> QED BY <3>2 DEF m
  <2> QED BY <2>1, <2>5 DEF i
<1> DEFINE Good == {j \in 0 .. AmountBytes : n \div Weight[j] = v[AmountBytes - j]}
<1>5. 0 \in Good
  <2>1. n \div 1 = n /\ AmountBytes - 0 = AmountBytes
    BY <1>1, <1>3
  <2> QED BY <1>1, <2>1, Weights
<1>6. ASSUME NEW j \in 1 .. AmountBytes, j - 1 \in Good PROVE j \in Good
  <2> DEFINE w == Weight[j - 1]
  <2>1. j - 1 \in 0 .. AmountBytes
    BY <1>1
  <2>2. w \in Nat /\ w > 0 /\ Weight[j] = ByteBase * w
    BY <2>1, Weights
  <2>3. n \div w = v[AmountBytes - (j - 1)]
    BY <1>6
  <2> HIDE DEF n, w
  <2>4. (n \div w) \div ByteBase = n \div (ByteBase * w)
    BY <1>1, <1>3, <2>2, DividedTwice
  <2>5. n \div Weight[j] = v[AmountBytes - j]
    BY <1>4, <2>2, <2>3, <2>4
  <2> QED BY <2>5
<1>7. 0 .. AmountBytes \subseteq Good
  <2> HIDE DEF Good
  <2> QED BY <1>1, <1>5, <1>6, UpToGood
<1>8. ASSUME NEW j \in 1 .. AmountBytes
      PROVE  (n \div Weight[j - 1]) % ByteBase = bytes[j]
  <2>1. j - 1 \in Good
    <3> HIDE DEF Good
    <3> QED BY <1>1, <1>7
  <2>2. n \div Weight[j - 1] = v[AmountBytes - (j - 1)]
    BY <2>1
  <2> QED BY <1>4, <2>2
<1>9. to_le_bytes(n) = bytes
  BY <1>8 DEF to_le_bytes
<1> QED
  BY <1>2, <1>3, <1>9

-----------------------------------------------------------------------------
(* Instruction data.                                                       *)

LEMMA ByteSequence ==
  ASSUME NEW n \in Nat, NEW s \in [1 .. n -> Byte]
  PROVE  s \in Seq(Byte) /\ Len(s) = n
<1>1. s \in Seq(Byte)
  BY SeqDef
<1>2. DOMAIN s = 1 .. Len(s) /\ Len(s) \in Nat
  BY <1>1, LenProperties
<1> QED
  BY <1>1, <1>2

\* What follows the first byte.
LEMMA Tagged ==
  ASSUME NEW t \in Byte, NEW a \in Seq(Byte)
  PROVE  /\ <<t>> \o a \in Seq(Byte) /\ <<t>> \o a # <<>>
         /\ Len(<<t>> \o a) = Len(a) + 1
         /\ (<<t>> \o a)[1] = t
         /\ \A i \in 1 .. Len(a) : (<<t>> \o a)[i + 1] = a[i]
         /\ Tail(<<t>> \o a) = a
<1> DEFINE s == <<t>> \o a
<1>1. <<t>> \in Seq(Byte) /\ Len(<<t>>) = 1 /\ <<t>>[1] = t /\ Len(a) \in Nat
  BY LenProperties
<1>2. s \in Seq(Byte) /\ Len(s) = 1 + Len(a)
  BY <1>1, ConcatProperties
<1>3. \A i \in 1 .. 1 + Len(a) : s[i] = IF i <= 1 THEN <<t>>[i] ELSE a[i - 1]
  BY <1>1, ConcatProperties
<1> HIDE DEF s
<1>4. s[1] = t
  BY <1>1, <1>3
<1>5. \A i \in 1 .. Len(a) : s[i + 1] = a[i]
  <2> SUFFICES ASSUME NEW i \in 1 .. Len(a) PROVE s[i + 1] = a[i]
    OBVIOUS
  <2>1. i + 1 \in 1 .. 1 + Len(a) /\ ~ (i + 1 <= 1) /\ (i + 1) - 1 = i
    BY <1>1
  <2> QED BY <1>3, <2>1
<1>6. s # <<>>
  BY <1>1, <1>2, EmptySeq
<1>7. Tail(s) = a
  <2>1. Tail(s) \in Seq(Byte) /\ Len(Tail(s)) = Len(a) /\ \A i \in 1 .. Len(a) : Tail(s)[i] = s[i + 1]
    BY <1>1, <1>2, <1>6, HeadTailProperties
  <2> QED BY <1>5, <2>1, SeqEqual
<1>8. Len(s) = Len(a) + 1
  BY <1>1, <1>2
<1> QED
  BY <1>2, <1>4, <1>5, <1>6, <1>7, <1>8 DEF s

\* The bytes of an amount as a sequence.
LEMMA AmountSequence ==
  ASSUME NEW n \in Nat
  PROVE  to_le_bytes(n) \in Seq(Byte) /\ Len(to_le_bytes(n)) = AmountBytes
BY BytesOfAmount, ByteSequence, CodecAssumption

LEMMA U64Natural == \A n \in U64 : n \in Nat
BY DEF U64

\* The tags are bytes.
LEMMA Tags == 0 \in Byte /\ 1 \in Byte
BY CodecAssumption DEF Byte

\* Both languages write the same data.
LEMMA SameData ==
  ASSUME NEW instruction \in Instruction
  PROVE  Encoded(instruction) = Pack(instruction) /\ Pack(instruction) \in Seq(Byte)
<1> DEFINE n == instruction.amount
           a == to_le_bytes(n)
<1>1. instruction.tag \in {"InitEscrow", "Exchange", "Transfer"} /\ n \in Nat
  BY U64Natural DEF Instruction
<1>2. a \in Seq(Byte) /\ toArray(n) = a
  BY <1>1, AmountSequence, SameBytes
<1>3. <<>> \o a = a
  BY <1>2, ConcatEmptySeq
<1>4. <<0>> \o a \in Seq(Byte) /\ <<1>> \o a \in Seq(Byte)
  BY <1>2, Tags, Tagged
<1>5. CASE instruction.tag = "InitEscrow"
  BY <1>2, <1>4, <1>5 DEF Encoded, Pack
<1>6. CASE instruction.tag = "Exchange"
  BY <1>2, <1>4, <1>6 DEF Encoded, Pack
<1>7. CASE instruction.tag = "Transfer"
  BY <1>2, <1>3, <1>7 DEF Encoded, Pack
<1> QED
  BY <1>1, <1>5, <1>6, <1>7

\* unpack reads from it what pack was given.
LEMMA Arrives ==
  ASSUME NEW instruction \in Instruction
  PROVE  (IF instruction.tag = "Transfer" THEN UnpackTransfer(Pack(instruction)) ELSE Unpack(Pack(instruction)))
           = instruction
<1> DEFINE n == instruction.amount
           a == to_le_bytes(n)
<1>1. /\ instruction.tag \in {"InitEscrow", "Exchange", "Transfer"} /\ n \in U64 /\ n \in Nat
      /\ instruction = [tag |-> instruction.tag, amount |-> n]
  BY U64Natural DEF Instruction
<1>2. a \in Seq(Byte) /\ Len(a) = AmountBytes
  BY <1>1, AmountSequence
<1>3. SubSeq(a, 1, AmountBytes) = a
  BY <1>2, SubSeqFull
<1>4. from_le_bytes(a) = n
  BY <1>1, ReadBack
<1> HIDE DEF a, n
<1>5. AmountBytes >= AmountBytes
  BY CodecAssumption
<1>6. CASE instruction.tag = "Transfer"
  <2>1. Pack(instruction) = a
    BY <1>6 DEF Pack, a, n
  <2>2. UnpackTransfer(a) = [tag |-> "Transfer", amount |-> n]
    BY <1>2, <1>3, <1>4, <1>5 DEF UnpackTransfer
  <2> QED BY <1>1, <1>6, <2>1, <2>2
<1>7. ASSUME NEW t \in {0, 1}
      PROVE  Unpack(<<t>> \o a) = [tag |-> IF t = 0 THEN "InitEscrow" ELSE "Exchange", amount |-> n]
  <2> DEFINE s == <<t>> \o a
  <2>1. s # <<>> /\ s[1] = t /\ Tail(s) = a
    BY <1>2, Tags, Tagged
  <2> HIDE DEF s
  <2>2. Unpack(s) = [tag |-> IF t = 0 THEN "InitEscrow" ELSE "Exchange", amount |-> n]
    BY <1>2, <1>3, <1>4, <1>5, <2>1 DEF Unpack
  <2> QED BY <2>2 DEF s
<1>8. CASE instruction.tag = "InitEscrow"
  <2>1. Pack(instruction) = <<0>> \o a
    BY <1>8 DEF Pack, a, n
  <2>2. Unpack(<<0>> \o a) = [tag |-> "InitEscrow", amount |-> n]
    BY <1>7
  <2> QED BY <1>1, <1>8, <2>1, <2>2
<1>9. CASE instruction.tag = "Exchange"
  <2>1. Pack(instruction) = <<1>> \o a
    BY <1>9 DEF Pack, a, n
  <2>2. Unpack(<<1>> \o a) = [tag |-> "Exchange", amount |-> n]
    BY <1>7
  <2> QED BY <1>1, <1>9, <2>1, <2>2
<1> QED
  BY <1>1, <1>6, <1>8, <1>9

\* Whatever unpack accepts is a tag and an amount's bytes, with bytes it does
\* not look at behind them.
LEMMA Accepted ==
  ASSUME NEW bytes \in Seq(Byte), Unpack(bytes) # Refused
  PROVE  /\ Unpack(bytes).amount \in U64
         /\ IsPrefix(Pack(Unpack(bytes)), bytes)
<1> DEFINE rest == Tail(bytes)
           a == SubSeq(rest, 1, AmountBytes)
           n == from_le_bytes(a)
           t == bytes[1]
<1>1. bytes # <<>> /\ t \in {0, 1} /\ Len(rest) >= AmountBytes
  BY DEF Unpack
<1>2. Unpack(bytes) = [tag |-> IF t = 0 THEN "InitEscrow" ELSE "Exchange", amount |-> n]
  BY <1>1 DEF Unpack
<1>3. AmountBytes \in Nat /\ AmountBytes >= 1
  BY CodecAssumption
<1>4. /\ rest \in Seq(Byte) /\ Len(bytes) \in Nat /\ Len(rest) = Len(bytes) - 1
      /\ \A i \in 1 .. Len(rest) : rest[i] = bytes[i + 1]
  BY <1>1, LenProperties, HeadTailProperties
<1> HIDE DEF rest, t
<1>5. \A i \in 1 .. AmountBytes : i \in 1 .. Len(rest) /\ rest[i] \in Byte
  <2>1. \A i \in 1 .. AmountBytes : i \in 1 .. Len(rest)
    BY <1>1, <1>3, <1>4
  <2> QED BY <1>4, <2>1, ElementOfSeq
<1>6. a \in Seq(Byte) /\ Len(a) = AmountBytes /\ \A i \in 1 .. AmountBytes : a[i] = rest[i]
  <2>1. 1 \in Int /\ AmountBytes \in Int
    BY <1>3
  <2>2. a \in Seq(Byte)
    BY <1>5, <2>1, SubSeqProperties
  <2>3. Len(a) = IF 1 <= AmountBytes THEN AmountBytes - 1 + 1 ELSE 0
    BY <1>5, <2>1, SubSeqProperties
  <2>4. \A i \in 1 .. AmountBytes - 1 + 1 : a[i] = rest[1 + i - 1]
    BY <1>5, <2>1, SubSeqProperties
  <2> HIDE DEF a
  <2>5. ASSUME NEW i \in 1 .. AmountBytes PROVE a[i] = rest[i]
    <3>1. i \in 1 .. AmountBytes - 1 + 1 /\ 1 + i - 1 = i
      BY <1>3
    <3> QED BY <2>4, <3>1
  <2> QED BY <1>3, <2>2, <2>3, <2>5
<1> HIDE DEF a
<1>7. a \in [1 .. AmountBytes -> Byte]
  BY <1>6, LenProperties
<1>8. n \in U64 /\ to_le_bytes(n) = a
  BY <1>7, WrittenBack
<1> HIDE DEF n
<1> DEFINE p == <<t>> \o a
<1>9. Pack(Unpack(bytes)) = p
  <2>1. t = 0 \/ t = 1
    BY <1>1
  <2> QED BY <1>2, <1>8, <2>1 DEF Pack
<1>10. t \in Byte
  BY <1>1, Tags
<1>11. /\ p \in Seq(Byte) /\ Len(p) = AmountBytes + 1 /\ p[1] = t
       /\ \A i \in 1 .. AmountBytes : p[i + 1] = a[i]
  BY <1>6, <1>10, Tagged
<1> HIDE DEF p
<1>12. Len(p) <= Len(bytes) /\ Len(p) \in Nat
  BY <1>1, <1>3, <1>4, <1>11
<1>13. SubSeq(p, 1, Len(p)) = p
  BY <1>11, SubSeqFull
<1>14. SubSeq(bytes, 1, Len(p)) = p
  <2> DEFINE q == SubSeq(bytes, 1, Len(p))
  <2>1. \A i \in 1 .. Len(p) : i \in 1 .. Len(bytes) /\ bytes[i] \in Byte
    <3>1. \A i \in 1 .. Len(p) : i \in 1 .. Len(bytes)
      BY <1>4, <1>12
    <3> QED BY <3>1, ElementOfSeq
  <2>2. 1 \in Int /\ Len(p) \in Int
    BY <1>12
  <2>3. q \in Seq(Byte) /\ Len(q) = IF 1 <= Len(p) THEN Len(p) - 1 + 1 ELSE 0
    BY <2>1, <2>2, SubSeqProperties
  <2>4. \A i \in 1 .. Len(p) - 1 + 1 : q[i] = bytes[1 + i - 1]
    BY <2>1, <2>2, SubSeqProperties
  <2> HIDE DEF q
  <2>5. Len(q) = Len(p)
    BY <1>3, <1>11, <2>3
  <2>6. ASSUME NEW i \in 1 .. Len(p) PROVE p[i] = q[i]
    <3>1. i \in 1 .. Len(p) - 1 + 1 /\ 1 + i - 1 = i
      BY <1>12
    <3>2. q[i] = bytes[i]
      BY <2>4, <3>1
    <3>3. CASE i = 1
      BY <1>11, <3>2, <3>3 DEF t
    <3>4. CASE i # 1
      <4> DEFINE j == i - 1
      <4>1. j \in 1 .. AmountBytes /\ i = j + 1
        BY <1>3, <1>11, <3>4
      <4> HIDE DEF j
      <4>2. p[i] = a[j]
        BY <1>11, <4>1
      <4>3. a[j] = rest[j]
        BY <1>6, <4>1
      <4>4. rest[j] = bytes[i]
        BY <1>4, <1>5, <4>1
      <4> QED BY <3>2, <4>2, <4>3, <4>4
    <3> QED BY <3>3, <3>4
  <2>7. q = p
    BY <1>11, <2>3, <2>5, <2>6, SeqEqual
  <2> QED BY <2>7 DEF q
<1>15. IsPrefix(p, bytes)
  BY <1>12, <1>13, <1>14 DEF IsPrefix
<1> QED
  BY <1>2, <1>8, <1>9, <1>15

-----------------------------------------------------------------------------
(* The data of an escrow account.                                          *)

PublicKey == [1 .. KeyBytes -> Byte]

Escrow ==
  [is_initialized : BOOLEAN,
   initializer_pubkey : PublicKey,
   tmp_token_account_pubkey : PublicKey,
   initializer_token_to_receive_account_pubkey : PublicKey,
   expected_amount : U64]

\* Data of the length Pack asks for, with a bool in front.
EscrowData == {src \in Seq(Byte) : Len(src) = LEN /\ src[1] \in {0, 1}}

LEMMA Widths ==
  /\ KeyBytes \in Nat /\ KeyBytes >= 1 /\ AmountBytes \in Nat /\ AmountBytes >= 1
  /\ LEN = 1 + KeyBytes + KeyBytes + KeyBytes + AmountBytes
<1>1. KeyBytes \in Nat /\ KeyBytes >= 1 /\ AmountBytes \in Nat /\ AmountBytes >= 1
  BY CodecAssumption
<1> QED
  BY <1>1 DEF LEN

\* The fields of the layout follow one another without a gap, and its span is
\* the length Pack asks for.
LEMMA Offsets ==
  /\ Offset(1) = 0
  /\ Offset(2) = 1
  /\ Offset(3) = 1 + KeyBytes
  /\ Offset(4) = 1 + KeyBytes + KeyBytes
  /\ Offset(5) = 1 + KeyBytes + KeyBytes + KeyBytes
  /\ Offset(6) = LEN
<1> DEFINE f == [j \in DOMAIN ESCROW_ACCOUNT_DATA_LAYOUT |-> Span(ESCROW_ACCOUNT_DATA_LAYOUT[j])]
<1>1. /\ f[1] = 1 /\ f[2] = KeyBytes /\ f[3] = KeyBytes /\ f[4] = KeyBytes /\ f[5] = AmountBytes
  BY DEF ESCROW_ACCOUNT_DATA_LAYOUT, Span
<1>2. \A i \in 1 .. 6 : Offset(i) = SumFunctionOnSet(f, 1 .. i - 1)
  BY DEF Offset
<1> HIDE DEF f
<1>3. \A i \in 1 .. 5 : f[i] \in Int
  <2> SUFFICES ASSUME NEW i \in 1 .. 5 PROVE f[i] \in Int
    OBVIOUS
  <2>1. i = 1 \/ i = 2 \/ i = 3 \/ i = 4 \/ i = 5
    OBVIOUS
  <2> QED BY <1>1, <2>1, Widths
<1>4. Offset(1) = 0
  <2>1. 1 .. 1 - 1 = {}
    OBVIOUS
  <2> QED BY <1>2, <2>1, SumEmpty
<1>5. ASSUME NEW i \in 1 .. 5 PROVE Offset(i + 1) = f[i] + Offset(i)
  <2> DEFINE S == 1 .. i - 1
  <2>1. IsFiniteSet(S)
    BY FS_Interval
  <2>2. i \notin S /\ S \cup {i} = 1 .. (i + 1) - 1 /\ S \cup {i} \subseteq 1 .. 5
    OBVIOUS
  <2>3. Offset(i) = SumFunctionOnSet(f, S) /\ Offset(i + 1) = SumFunctionOnSet(f, S \cup {i})
    <3>1. i \in 1 .. 6 /\ i + 1 \in 1 .. 6
      OBVIOUS
    <3>2. Offset(i + 1) = SumFunctionOnSet(f, 1 .. (i + 1) - 1)
      BY <1>2, <3>1
    <3> QED BY <1>2, <2>2, <3>1, <3>2
  <2> HIDE DEF S
  <2>4. \A y \in S \cup {i} : f[y] \in Int
    BY <1>3, <2>2
  <2>5. SumFunctionOnSet(f, S \cup {i}) = f[i] + SumFunctionOnSet(f, S)
    BY <2>1, <2>2, <2>4, SumAdd
  <2> QED BY <2>3, <2>5
<1>6. Offset(2) = 1
  BY <1>1, <1>4, <1>5
<1>7. Offset(3) = 1 + KeyBytes
  BY <1>1, <1>5, <1>6, Widths
<1>8. Offset(4) = 1 + KeyBytes + KeyBytes
  BY <1>1, <1>5, <1>7, Widths
<1>9. Offset(5) = 1 + KeyBytes + KeyBytes + KeyBytes
  BY <1>1, <1>5, <1>8, Widths
<1>10. Offset(6) = LEN
  BY <1>1, <1>5, <1>9, Widths
<1> QED
  BY <1>4, <1>6, <1>7, <1>8, <1>9, <1>10

\* Where the layout has each field.
LEMMA Fields ==
  ASSUME NEW bytes
  PROVE  /\ Decoded(bytes, "isInitialized") = SubSeq(bytes, Offset(1) + 1, Offset(1) + 1)
         /\ Decoded(bytes, "initializerPubkey") = SubSeq(bytes, Offset(2) + 1, Offset(2) + KeyBytes)
         /\ Decoded(bytes, "initializerTempTokenAccountPubkey")
              = SubSeq(bytes, Offset(3) + 1, Offset(3) + KeyBytes)
         /\ Decoded(bytes, "initializerReceivingTokenAccountPubkey")
              = SubSeq(bytes, Offset(4) + 1, Offset(4) + KeyBytes)
         /\ Decoded(bytes, "expectedAmount") = SubSeq(bytes, Offset(5) + 1, Offset(5) + AmountBytes)
<1> DEFINE L == ESCROW_ACCOUNT_DATA_LAYOUT
<1>1. /\ DOMAIN L = 1 .. 5
      /\ L[1] = "isInitialized" /\ L[2] = "initializerPubkey" /\ L[3] = "initializerTempTokenAccountPubkey"
      /\ L[4] = "initializerReceivingTokenAccountPubkey" /\ L[5] = "expectedAmount"
  BY DEF ESCROW_ACCOUNT_DATA_LAYOUT
<1> HIDE DEF L
<1>2. \A i, j \in 1 .. 5 : L[i] = L[j] => i = j
  <2> SUFFICES ASSUME NEW i \in 1 .. 5, NEW j \in 1 .. 5, L[i] = L[j] PROVE i = j
    OBVIOUS
  <2>1. i = 1 \/ i = 2 \/ i = 3 \/ i = 4 \/ i = 5
    OBVIOUS
  <2>2. j = 1 \/ j = 2 \/ j = 3 \/ j = 4 \/ j = 5
    OBVIOUS
  <2> QED BY <1>1, <2>1, <2>2
<1>3. ASSUME NEW j \in 1 .. 5
      PROVE  Decoded(bytes, L[j]) = SubSeq(bytes, Offset(j) + 1, Offset(j) + Span(L[j]))
  <2>1. (CHOOSE k \in DOMAIN L : L[k] = L[j]) = j
    BY <1>1, <1>2
  <2> QED BY <2>1 DEF Decoded, L
<1>4. /\ Span(L[1]) = 1 /\ Span(L[2]) = KeyBytes /\ Span(L[3]) = KeyBytes
      /\ Span(L[4]) = KeyBytes /\ Span(L[5]) = AmountBytes
  BY <1>1 DEF Span
<1>5. 1 \in 1 .. 5 /\ 2 \in 1 .. 5 /\ 3 \in 1 .. 5 /\ 4 \in 1 .. 5 /\ 5 \in 1 .. 5
  OBVIOUS
<1>6. Decoded(bytes, L[1]) = SubSeq(bytes, Offset(1) + 1, Offset(1) + 1)
  BY <1>3, <1>4, <1>5
<1>7. Decoded(bytes, L[2]) = SubSeq(bytes, Offset(2) + 1, Offset(2) + KeyBytes)
  BY <1>3, <1>4, <1>5
<1>8. Decoded(bytes, L[3]) = SubSeq(bytes, Offset(3) + 1, Offset(3) + KeyBytes)
  BY <1>3, <1>4, <1>5
<1>9. Decoded(bytes, L[4]) = SubSeq(bytes, Offset(4) + 1, Offset(4) + KeyBytes)
  BY <1>3, <1>4, <1>5
<1>10. Decoded(bytes, L[5]) = SubSeq(bytes, Offset(5) + 1, Offset(5) + AmountBytes)
  BY <1>3, <1>4, <1>5
<1> QED
  BY <1>1, <1>6, <1>7, <1>8, <1>9, <1>10

\* A part of the data is as long as its bounds say.
LEMMA Part ==
  ASSUME NEW src \in Seq(Byte), NEW m \in 1 .. Len(src), NEW n \in m .. Len(src)
  PROVE  /\ SubSeq(src, m, n) \in [1 .. n - m + 1 -> Byte]
         /\ SubSeq(src, m, n)[1] = src[m]
<1> DEFINE q == SubSeq(src, m, n)
<1>0. Len(src) \in Nat
  BY LenProperties
<1>1. m \in Int /\ n \in Int /\ m <= n /\ 1 \in 1 .. n - m + 1 /\ m + 1 - 1 = m
  BY <1>0
<1>2. \A i \in m .. n : src[i] \in Byte
  <2>1. \A i \in m .. n : i \in 1 .. Len(src)
    BY <1>0
  <2> QED BY <2>1, ElementOfSeq
<1>3. q \in Seq(Byte) /\ Len(q) = (IF m <= n THEN n - m + 1 ELSE 0)
      /\ \A i \in 1 .. n - m + 1 : q[i] = src[m + i - 1]
  BY <1>1, <1>2, SubSeqProperties
<1> HIDE DEF q
<1>4. Len(q) = n - m + 1
  BY <1>1, <1>3
<1>5. q \in [1 .. n - m + 1 -> Byte]
  BY <1>3, <1>4, LenProperties
<1>6. q[1] = src[m]
  BY <1>1, <1>3
<1> QED
  BY <1>5, <1>6 DEF q

\* Both sides read the same fields at the same places.
LEMMA ReadAlike ==
  ASSUME NEW src \in EscrowData
  PROVE  escrowState(src) = unpack_from_slice(src)
<1> DEFINE K == KeyBytes
           A == AmountBytes
           amount == Decoded(src, "expectedAmount")
           bool == Decoded(src, "isInitialized")
<1>1. src \in Seq(Byte) /\ Len(src) = LEN /\ src[1] \in {0, 1}
  BY DEF EscrowData
<1>2. K \in Nat /\ K >= 1 /\ A \in Nat /\ A >= 1 /\ LEN = 1 + K + K + K + A
  BY Widths
<1>3. /\ bool = SubSeq(src, 1, 1)
      /\ Decoded(src, "initializerPubkey") = SubSeq(src, 2, 1 + K)
      /\ Decoded(src, "initializerTempTokenAccountPubkey") = SubSeq(src, 2 + K, 1 + K + K)
      /\ Decoded(src, "initializerReceivingTokenAccountPubkey") = SubSeq(src, 2 + K + K, 1 + K + K + K)
      /\ amount = SubSeq(src, LEN - A + 1, LEN)
  <2>1. /\ 0 + 1 = 1 /\ 1 + 1 = 2 /\ (1 + K) + 1 = 2 + K /\ (1 + K + K) + 1 = 2 + K + K
        /\ (1 + K + K + K) + 1 = LEN - A + 1 /\ (1 + K + K + K) + A = LEN
    BY <1>2
  <2> QED BY <2>1, Offsets, Fields
<1>4. /\ 2 + 0 * K = 2 /\ 1 + (0 + 1) * K = 1 + K
      /\ 2 + 1 * K = 2 + K /\ 1 + (1 + 1) * K = 1 + K + K
      /\ 2 + 2 * K = 2 + K + K /\ 1 + (2 + 1) * K = 1 + K + K + K
  BY <1>2
<1>5. bool # <<0>> <=> src[1] = 1
  <2>1. 1 \in 1 .. Len(src) /\ 1 \in 1 .. Len(src) /\ 1 - 1 + 1 = 1
    BY <1>1, <1>2
  <2>2. bool \in [1 .. 1 -> Byte] /\ bool[1] = src[1]
    BY <1>1, <1>3, <2>1, Part
  <2> HIDE DEF bool
  <2>3. bool = <<src[1]>>
    BY <2>2
  <2> QED BY <1>1, <2>3
<1>6. amount \in [1 .. A -> Byte]
  <2> DEFINE m == LEN - A + 1
  <2>1. m \in 1 .. Len(src) /\ LEN \in m .. Len(src) /\ LEN - m + 1 = A
    BY <1>1, <1>2
  <2> HIDE DEF m
  <2>2. SubSeq(src, m, LEN) \in [1 .. LEN - m + 1 -> Byte]
    BY <1>1, <2>1, Part
  <2> QED BY <1>3, <2>1, <2>2 DEF m
<1>7. SumFunction([i \in DOMAIN amount |-> amount[i] * Weight[i - 1]]) = from_le_bytes(amount)
  <2> HIDE DEF amount
  <2> QED BY <1>6, CountedUp
<1>8. unpack_from_slice(src) =
        [is_initialized |-> src[1] = 1,
         initializer_pubkey |-> SubSeq(src, 2, 1 + K),
         tmp_token_account_pubkey |-> SubSeq(src, 2 + K, 1 + K + K),
         initializer_token_to_receive_account_pubkey |-> SubSeq(src, 2 + K + K, 1 + K + K + K),
         expected_amount |-> from_le_bytes(SubSeq(src, LEN - A + 1, LEN))]
  BY <1>4 DEF unpack_from_slice
<1>9. escrowState(src) =
        [is_initialized |-> bool # <<0>>,
         initializer_pubkey |-> Decoded(src, "initializerPubkey"),
         tmp_token_account_pubkey |-> Decoded(src, "initializerTempTokenAccountPubkey"),
         initializer_token_to_receive_account_pubkey |-> Decoded(src, "initializerReceivingTokenAccountPubkey"),
         expected_amount |-> SumFunction([i \in DOMAIN amount |-> amount[i] * Weight[i - 1]])]
  BY DEF escrowState
<1> HIDE DEF amount, bool, K, A
<1> QED
  BY <1>3, <1>5, <1>7, <1>8, <1>9

\* The part that was appended last.
LEMMA Appended ==
  ASSUME NEW s \in Seq(Byte), NEW t \in Seq(Byte), Len(t) >= 1
  PROVE  SubSeq(s \o t, Len(s) + 1, Len(s) + Len(t)) = t
<1>1. Len(s) \in Nat /\ Len(t) \in Nat
  BY LenProperties
<1> DEFINE m == Len(s) + 1
           n == Len(s) + Len(t)
<1>2. m \in Len(s) + 1 .. Len(s) + Len(t) /\ n \in Len(s) + 1 .. Len(s) + Len(t)
  BY <1>1
<1>3. m - Len(s) = 1 /\ n - Len(s) = Len(t)
  BY <1>1
<1> HIDE DEF m, n
<1>4. SubSeq(s \o t, m, n) = SubSeq(t, m - Len(s), n - Len(s))
  BY <1>2, SubSeqOfConcat2
<1> QED
  BY <1>3, <1>4, SubSeqFull DEF m, n

\* The program reads what it has packed.
LEMMA PackedEscrow ==
  ASSUME NEW e \in Escrow
  PROVE  /\ pack_into_slice(e) \in EscrowData
         /\ unpack_from_slice(pack_into_slice(e)) = e
<1> DEFINE K == KeyBytes
           A == AmountBytes
           b == IF e.is_initialized THEN 1 ELSE 0
           k1 == e.initializer_pubkey
           k2 == e.tmp_token_account_pubkey
           k3 == e.initializer_token_to_receive_account_pubkey
           a == to_le_bytes(e.expected_amount)
           s1 == <<b>>
           s2 == s1 \o k1
           s3 == s2 \o k2
           s4 == s3 \o k3
           s5 == s4 \o a
<1>1. K \in Nat /\ K >= 1 /\ A \in Nat /\ A >= 1 /\ LEN = 1 + K + K + K + A
  BY Widths
<1>2. /\ e.is_initialized \in BOOLEAN /\ e.expected_amount \in U64
      /\ e = [is_initialized |-> e.is_initialized, initializer_pubkey |-> k1,
              tmp_token_account_pubkey |-> k2, initializer_token_to_receive_account_pubkey |-> k3,
              expected_amount |-> e.expected_amount]
  BY DEF Escrow
<1>3. /\ k1 \in Seq(Byte) /\ Len(k1) = K
      /\ k2 \in Seq(Byte) /\ Len(k2) = K
      /\ k3 \in Seq(Byte) /\ Len(k3) = K
  <2>1. k1 \in [1 .. K -> Byte] /\ k2 \in [1 .. K -> Byte] /\ k3 \in [1 .. K -> Byte]
    BY DEF Escrow, PublicKey
  <2> HIDE DEF k1, k2, k3, K
  <2> QED BY <1>1, <2>1, ByteSequence
<1>4. a \in Seq(Byte) /\ Len(a) = A
  BY <1>2, U64Natural, AmountSequence
<1>5. s1 \in Seq(Byte) /\ Len(s1) = 1 /\ s1[1] = b
  <2>1. b \in Byte
    BY Tags
  <2> HIDE DEF b
  <2> QED BY <2>1
<1>6. pack_into_slice(e) = s5
  BY DEF pack_into_slice
<1>7. from_le_bytes(a) = e.expected_amount
  BY <1>2, ReadBack
<1>8. b \in {0, 1} /\ (b = 1) = e.is_initialized
  BY <1>2
<1> HIDE DEF K, A, k1, k2, k3, a, b, s1
<1>9. s2 \in Seq(Byte) /\ Len(s2) = 1 + K
  <2>1. s2 \in Seq(Byte) /\ Len(s2) = Len(s1) + Len(k1)
    BY <1>3, <1>5, ConcatProperties
  <2> HIDE DEF s2
  <2> QED BY <1>3, <1>5, <1>1, <2>1
<1> HIDE DEF s2
<1>10. s3 \in Seq(Byte) /\ Len(s3) = 1 + K + K
  <2>1. s3 \in Seq(Byte) /\ Len(s3) = Len(s2) + Len(k2)
    BY <1>3, <1>9, ConcatProperties
  <2> HIDE DEF s3
  <2> QED BY <1>3, <1>9, <1>1, <2>1
<1> HIDE DEF s3
<1>11. s4 \in Seq(Byte) /\ Len(s4) = 1 + K + K + K
  <2>1. s4 \in Seq(Byte) /\ Len(s4) = Len(s3) + Len(k3)
    BY <1>3, <1>10, ConcatProperties
  <2> HIDE DEF s4
  <2> QED BY <1>3, <1>10, <1>1, <2>1
<1> HIDE DEF s4
<1>12. s5 \in Seq(Byte) /\ Len(s5) = LEN
  <2>1. s5 \in Seq(Byte) /\ Len(s5) = Len(s4) + Len(a)
    BY <1>4, <1>11, ConcatProperties
  <2> QED BY <1>1, <1>4, <1>11, <2>1
<1> HIDE DEF s5
<1>13. ASSUME NEW m \in 1 .. Len(s4), NEW n \in 1 .. Len(s4)
       PROVE  SubSeq(s5, m, n) = SubSeq(s4, m, n)
  BY <1>4, <1>11, SubSeqOfConcat1 DEF s5
<1>14. ASSUME NEW m \in 1 .. Len(s3), NEW n \in 1 .. Len(s3)
       PROVE  SubSeq(s4, m, n) = SubSeq(s3, m, n)
  BY <1>3, <1>10, SubSeqOfConcat1 DEF s4
<1>15. ASSUME NEW m \in 1 .. Len(s2), NEW n \in 1 .. Len(s2)
       PROVE  SubSeq(s3, m, n) = SubSeq(s2, m, n)
  BY <1>3, <1>9, SubSeqOfConcat1 DEF s3
<1>16. s5[1] = b
  <2>1. \A i \in 1 .. Len(s4) + Len(a) : s5[i] = IF i <= Len(s4) THEN s4[i] ELSE a[i - Len(s4)]
    BY <1>4, <1>11, ConcatProperties DEF s5
  <2>2. \A i \in 1 .. Len(s3) + Len(k3) : s4[i] = IF i <= Len(s3) THEN s3[i] ELSE k3[i - Len(s3)]
    BY <1>3, <1>10, ConcatProperties DEF s4
  <2>3. \A i \in 1 .. Len(s2) + Len(k2) : s3[i] = IF i <= Len(s2) THEN s2[i] ELSE k2[i - Len(s2)]
    BY <1>3, <1>9, ConcatProperties DEF s3
  <2>4. \A i \in 1 .. Len(s1) + Len(k1) : s2[i] = IF i <= Len(s1) THEN s1[i] ELSE k1[i - Len(s1)]
    BY <1>3, <1>5, ConcatProperties DEF s2
  <2>5. /\ 1 \in 1 .. Len(s4) + Len(a) /\ 1 <= Len(s4)
        /\ 1 \in 1 .. Len(s3) + Len(k3) /\ 1 <= Len(s3)
        /\ 1 \in 1 .. Len(s2) + Len(k2) /\ 1 <= Len(s2)
        /\ 1 \in 1 .. Len(s1) + Len(k1) /\ 1 <= Len(s1)
    BY <1>1, <1>3, <1>4, <1>5, <1>9, <1>10, <1>11
  <2> QED BY <1>5, <2>1, <2>2, <2>3, <2>4, <2>5
<1>17. SubSeq(s5, 2, 1 + K) = k1
  <2>1. SubSeq(s2, 1 + 1, 1 + K) = k1
    BY <1>1, <1>3, <1>5, Appended DEF s2
  <2>2. /\ 2 \in 1 .. Len(s4) /\ 1 + K \in 1 .. Len(s4)
        /\ 2 \in 1 .. Len(s3) /\ 1 + K \in 1 .. Len(s3)
        /\ 2 \in 1 .. Len(s2) /\ 1 + K \in 1 .. Len(s2) /\ 1 + 1 = 2
    BY <1>1, <1>9, <1>10, <1>11
  <2> QED BY <1>13, <1>14, <1>15, <2>1, <2>2
<1>18. SubSeq(s5, 2 + K, 1 + K + K) = k2
  <2>1. SubSeq(s3, (1 + K) + 1, (1 + K) + K) = k2
    BY <1>1, <1>3, <1>9, Appended DEF s3
  <2>2. /\ 2 + K \in 1 .. Len(s4) /\ 1 + K + K \in 1 .. Len(s4)
        /\ 2 + K \in 1 .. Len(s3) /\ 1 + K + K \in 1 .. Len(s3)
        /\ (1 + K) + 1 = 2 + K
    BY <1>1, <1>10, <1>11
  <2> QED BY <1>13, <1>14, <2>1, <2>2
<1>19. SubSeq(s5, 2 + K + K, 1 + K + K + K) = k3
  <2>1. SubSeq(s4, (1 + K + K) + 1, (1 + K + K) + K) = k3
    BY <1>1, <1>3, <1>10, Appended DEF s4
  <2>2. /\ 2 + K + K \in 1 .. Len(s4) /\ 1 + K + K + K \in 1 .. Len(s4)
        /\ (1 + K + K) + 1 = 2 + K + K
    BY <1>1, <1>11
  <2> QED BY <1>13, <2>1, <2>2
<1>20. SubSeq(s5, LEN - A + 1, LEN) = a
  <2>1. SubSeq(s5, Len(s4) + 1, Len(s4) + Len(a)) = a
    BY <1>1, <1>4, <1>11, Appended DEF s5
  <2>2. Len(s4) + 1 = LEN - A + 1 /\ Len(s4) + Len(a) = LEN
    BY <1>1, <1>4, <1>11
  <2> QED BY <2>1, <2>2
<1>21. /\ 2 + 0 * K = 2 /\ 1 + (0 + 1) * K = 1 + K
       /\ 2 + 1 * K = 2 + K /\ 1 + (1 + 1) * K = 1 + K + K
       /\ 2 + 2 * K = 2 + K + K /\ 1 + (2 + 1) * K = 1 + K + K + K
  BY <1>1
<1>22. unpack_from_slice(s5) =
         [is_initialized |-> s5[1] = 1,
          initializer_pubkey |-> SubSeq(s5, 2, 1 + K),
          tmp_token_account_pubkey |-> SubSeq(s5, 2 + K, 1 + K + K),
          initializer_token_to_receive_account_pubkey |-> SubSeq(s5, 2 + K + K, 1 + K + K + K),
          expected_amount |-> from_le_bytes(SubSeq(s5, LEN - A + 1, LEN))]
  BY <1>21 DEF unpack_from_slice, K, A
<1>23. unpack_from_slice(s5) = e
  BY <1>2, <1>7, <1>8, <1>16, <1>17, <1>18, <1>19, <1>20, <1>22
<1>24. s5 \in EscrowData
  BY <1>8, <1>12, <1>16 DEF EscrowData
<1> QED
  BY <1>6, <1>23, <1>24

-----------------------------------------------------------------------------
(* The invariant and the properties.                                       *)

Zeroed == [i \in 1 .. LEN |-> 0]

\* Instruction data is bytes, and what a client has encoded is packed.
InputInv ==
  /\ input \in Seq(Byte)
  /\ meant # Nothing => meant \in Instruction /\ input = Pack(meant)

\* The account is missing, new, or holds what was recorded.
DataInv ==
  \/ data = <<>> /\ recorded = Nothing
  \/ data = Zeroed /\ recorded = Nothing
  \/ recorded \in Escrow /\ data = pack_into_slice(recorded)

CodecInv == InputInv /\ DataInv

LEMMA ZeroedData == Zeroed \in EscrowData /\ Zeroed # <<>>
<1>1. LEN \in Nat /\ LEN >= 1
  BY Widths
<1>2. Zeroed \in [1 .. LEN -> Byte] /\ Zeroed[1] = 0
  BY <1>1, Tags DEF Zeroed
<1>3. Zeroed \in Seq(Byte) /\ Len(Zeroed) = LEN
  BY <1>1, <1>2, ByteSequence
<1>4. Zeroed # <<>>
  BY <1>1, <1>3, EmptySeq
<1> QED
  BY <1>2, <1>3, <1>4 DEF EscrowData

LEMMA NoInput == <<>> \in Seq(Byte)
BY EmptySeq

LEMMA CodecInit == Init => CodecInv
BY NoInput DEF Init, CodecInv, InputInv, DataInv

LEMMA InputSteps ==
  ASSUME InputInv, [Next]_vars
  PROVE  InputInv'
<1>1. ASSUME NEW instruction \in Instruction, ClientEncode(instruction) \/ RustEncode(instruction)
      PROVE  InputInv'
  <2>1. input' = Pack(instruction) /\ meant' = instruction
    BY <1>1, SameData DEF ClientEncode, RustEncode
  <2> QED BY <2>1, SameData DEF InputInv
<1>2. ASSUME NEW bytes \in BoundedSeq(Byte, MaxInput), OtherInput(bytes)
      PROVE  InputInv'
  <2>1. PICK n \in 0 .. MaxInput : bytes \in [1 .. n -> Byte]
    BY DEF BoundedSeq, SeqOf
  <2>2. n \in Nat
    BY CodecAssumption
  <2>3. bytes \in Seq(Byte)
    BY <2>1, <2>2, ByteSequence
  <2> QED BY <1>2, <2>3 DEF OtherInput, InputInv
<1>3. CASE CreateEscrowAccount
  BY <1>3 DEF CreateEscrowAccount, InputInv
<1>4. ASSUME input' = <<>>, meant' = Nothing PROVE InputInv'
  BY <1>4, NoInput DEF InputInv
<1>5. CASE \E initializer, tmp, receive \in Keys : ProcessInitEscrow(initializer, tmp, receive)
  BY <1>4, <1>5 DEF ProcessInitEscrow
<1>6. CASE ProcessExchange
  BY <1>4, <1>6 DEF ProcessExchange
<1>7. CASE ProcessElsewhere
  BY <1>4, <1>7 DEF ProcessElsewhere
<1>8. CASE UNCHANGED vars
  BY <1>8 DEF vars, InputInv
<1> QED
  BY <1>1, <1>2, <1>3, <1>5, <1>6, <1>7, <1>8 DEF Next

LEMMA DataSteps ==
  ASSUME InputInv, DataInv, [Next]_vars
  PROVE  DataInv'
<1>1. ASSUME UNCHANGED <<data, recorded>> PROVE DataInv'
  BY <1>1 DEF DataInv
<1>2. CASE \E instruction \in Instruction : ClientEncode(instruction) \/ RustEncode(instruction)
  BY <1>1, <1>2 DEF ClientEncode, RustEncode
<1>3. CASE \E bytes \in BoundedSeq(Byte, MaxInput) : OtherInput(bytes)
  BY <1>1, <1>3 DEF OtherInput
<1>4. CASE CreateEscrowAccount
  <2>1. Offset(Len(ESCROW_ACCOUNT_DATA_LAYOUT) + 1) = LEN
    <3>1. Len(ESCROW_ACCOUNT_DATA_LAYOUT) = 5
      BY DEF ESCROW_ACCOUNT_DATA_LAYOUT
    <3> QED BY <3>1, Offsets
  <2>2. data' = Zeroed /\ recorded' = recorded
    BY <1>4, <2>1 DEF CreateEscrowAccount, Zeroed
  <2>3. recorded = Nothing
    <3>1. data = <<>>
      BY <1>4 DEF CreateEscrowAccount
    <3>2. ASSUME recorded \in Escrow, data = pack_into_slice(recorded) PROVE FALSE
      <4>1. data \in EscrowData
        BY <3>2, PackedEscrow
      <4>2. Len(data) = LEN /\ LEN >= 1
        BY <4>1, Widths DEF EscrowData
      <4> QED BY <3>1, <4>2, EmptySeq, Widths
    <3> QED BY <3>2 DEF DataInv
  <2> QED BY <2>2, <2>3 DEF DataInv
<1>5. ASSUME NEW initializer \in Keys, NEW tmp \in Keys, NEW receive \in Keys,
             ProcessInitEscrow(initializer, tmp, receive)
      PROVE  DataInv'
  <2>1. Unpack(input) # Refused
    BY <1>5 DEF ProcessInitEscrow, Refused
  <2>2. Unpack(input).amount \in U64
    BY <2>1, Accepted DEF InputInv
  <2>3. initializer \in PublicKey /\ tmp \in PublicKey /\ receive \in PublicKey
    BY CodecAssumption DEF PublicKey
  <2>4. recorded' \in Escrow
    BY <1>5, <2>2, <2>3 DEF ProcessInitEscrow, Escrow
  <2>5. data' = pack_into_slice(recorded')
    BY <1>5 DEF ProcessInitEscrow
  <2> QED BY <2>4, <2>5 DEF DataInv
<1>6. CASE ProcessExchange
  BY <1>6 DEF ProcessExchange, DataInv
<1>7. CASE ProcessElsewhere
  BY <1>1, <1>7 DEF ProcessElsewhere
<1>8. CASE UNCHANGED vars
  BY <1>1, <1>8 DEF vars
<1> QED
  BY <1>2, <1>3, <1>4, <1>5, <1>6, <1>7, <1>8 DEF Next

(***************************************************************************)
(* Instruction data is what its sender has packed, and an account's data   *)
(* what the program has last recorded, for every base and all widths.      *)
(***************************************************************************)
THEOREM CodecInvariance == Spec => []CodecInv
<1>1. CodecInv /\ [Next]_vars => CodecInv'
  BY InputSteps, DataSteps DEF CodecInv
<1> QED
  BY <1>1, CodecInit, PTL DEF Spec

(***************************************************************************)
(* For bytes of any base and amounts of any width: the program reads from  *)
(* what a client of either language has encoded the instruction it meant,  *)
(* for the whole range of amounts (alice.ts:82-88, bob.ts:75-81,           *)
(* transfer-lamports.ts:47-48, instruction.rs:49-72 of both programs).     *)
(***************************************************************************)
THEOREM AsMeant == Spec => []InstructionsArrive
<1>1. CodecInv => InstructionsArrive
  BY Arrives DEF CodecInv, InputInv, InstructionsArrive
<1> QED
  BY <1>1, CodecInvariance, PTL

(***************************************************************************)
(* Of input of any length and content, the program acts only on what       *)
(* begins with the bytes that pack writes for the instruction it reads     *)
(* (instruction.rs:49-97).                                                 *)
(***************************************************************************)
THEOREM NothingElseAccepted == Spec => []OnlyPackedAccepted
<1>1. CodecInv => OnlyPackedAccepted
  BY Accepted DEF CodecInv, InputInv, OnlyPackedAccepted
<1> QED
  BY <1>1, CodecInvariance, PTL

(***************************************************************************)
(* For keys and amounts of any width: an account the client has made has   *)
(* the length the program asks for, and the layout of util.ts reads from   *)
(* it what unpack_from_slice reads, which is what was recorded             *)
(* (state.rs:43-109, util.ts:54-60, bob.ts:30-51).                         *)
(***************************************************************************)
THEOREM SameReading == Spec => []EscrowReadAlike
<1>1. ASSUME CodecInv, data # <<>>
      PROVE  /\ UnpackUncheckedOk(data)
             /\ escrowState(data) = unpack_from_slice(data)
             /\ recorded # Nothing => escrowState(data) = recorded
  <2>1. CASE data = Zeroed /\ recorded = Nothing
    <3>1. data \in EscrowData
      BY <2>1, ZeroedData
    <3> QED BY <2>1, <3>1, ReadAlike DEF EscrowData, UnpackUncheckedOk
  <2>2. CASE recorded \in Escrow /\ data = pack_into_slice(recorded)
    <3>1. data \in EscrowData /\ unpack_from_slice(data) = recorded
      BY <2>2, PackedEscrow
    <3> QED BY <3>1, ReadAlike DEF EscrowData, UnpackUncheckedOk
  <2> QED BY <1>1, <2>1, <2>2 DEF CodecInv, DataInv
<1>2. CodecInv => EscrowReadAlike
  BY <1>1 DEF EscrowReadAlike
<1> QED
  BY <1>2, CodecInvariance, PTL

=============================================================================
