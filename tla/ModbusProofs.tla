---------------------------- MODULE ModbusProofs ----------------------------
(***************************************************************************)
(* Proofs about Modbus, for any width of a byte, any tag maps and values:  *)
(* what is encoded decodes to the nearest value there is, a bit is put     *)
(* into its word and into no other, the planned reads are legal and cannot *)
(* be fewer, a read returns what the device held, and a write lands where  *)
(* it should and nowhere else.                                             *)
(*                                                                         *)
(* Induction is over natural numbers in sets, InductiveSet; that a         *)
(* recursive function exists is proved for each of them.                   *)
(***************************************************************************)
EXTENDS Modbus, DataLemmas, FiniteSetTheorems

-----------------------------------------------------------------------------
(* Numbers                                                                 *)

(* Division is what it should be.                                          *)
LEMMA DivMod ==
    ASSUME NEW d \in Nat \ {0}, NEW n \in Int
    PROVE  /\ n \div d \in Int /\ n % d \in 0..d - 1
           /\ n = (n \div d) * d + (n % d)
  OBVIOUS

(* Quotient and remainder are the only numbers of that kind.               *)
LEMMA DivModUnique ==
    ASSUME NEW d \in Nat \ {0}, NEW q \in Int, NEW r \in 0..d - 1, NEW n \in Int,
           n = q * d + r
    PROVE  n \div d = q /\ n % d = r
<1> DEFINE p == n \div d
           s == n % d
<1>1. p \in Int /\ s \in 0..d - 1 /\ n = p * d + s
  BY DivMod
<1> HIDE DEF p, s
<1>2. (p - q) * d = r - s
  BY <1>1
<1>3. p - q >= 1 => (p - q) * d >= d
  BY <1>1
<1>4. q - p >= 1 => (q - p) * d >= d
  BY <1>1
<1>5. (q - p) * d = s - r
  BY <1>1
<1>6. p = q
  BY <1>1, <1>2, <1>3, <1>4, <1>5
<1>7. s = r
  BY <1>1, <1>2, <1>6
<1> QED
  BY <1>6, <1>7 DEF p, s

(* f has the powers of two up to m.                                        *)
IsPowers(f, m) == f = [n \in 0..m |-> IF n = 0 THEN 1 ELSE 2 * f[n - 1]]

(* There is a table of the powers of two up to any exponent.               *)
LEMMA PowersExist ==
    ASSUME NEW m \in Nat
    PROVE  \E f : IsPowers(f, m)
<1> DEFINE S == {k \in Nat : \E f : IsPowers(f, k)}
<1>1. 0 \in S
  <2>1. IsPowers([n \in 0..0 |-> 1], 0)
    BY DEF IsPowers
  <2> QED
    BY <2>1
<1>2. ASSUME NEW k \in Nat, k \in S PROVE k + 1 \in S
  <2>1. PICK f : IsPowers(f, k)
    BY <1>2
  <2> DEFINE g == [n \in 0..k + 1 |-> IF n = k + 1 THEN 2 * f[k] ELSE f[n]]
  <2>2. ASSUME NEW n \in 0..k + 1
        PROVE  g[n] = IF n = 0 THEN 1 ELSE 2 * g[n - 1]
    <3>1. CASE n = k + 1
      BY <3>1
    <3>2. CASE n \in 0..k
      <4>1. f[n] = IF n = 0 THEN 1 ELSE 2 * f[n - 1]
        BY <2>1, <3>2 DEF IsPowers
      <4>2. n # 0 => n - 1 \in 0..k
        BY <3>2
      <4> QED
        BY <3>2, <4>1, <4>2
    <3> QED
      BY <3>1, <3>2
  <2>3. IsPowers(g, k + 1)
    BY <2>2 DEF IsPowers
  <2>4. \E h : IsPowers(h, k + 1)
    <3> HIDE DEF g
    <3> QED
      BY <2>3
  <2> QED
    BY <2>4
<1> HIDE DEF S
<1>3. m \in S
  BY <1>1, <1>2, InductiveSet
<1> QED
  BY <1>3 DEF S

(* Two such tables agree where both have an entry.                         *)
LEMMA PowersAgree ==
    ASSUME NEW m \in Nat, NEW k \in Nat, NEW f, NEW g, IsPowers(f, m), IsPowers(g, k),
           NEW n \in Nat, n <= m, n <= k
    PROVE  f[n] \in Nat \ {0} /\ f[n] = g[n]
<1> DEFINE S == {i \in Nat : i <= n => f[i] \in Nat \ {0} /\ f[i] = g[i]}
<1>1. 0 \in S
  BY DEF IsPowers
<1>2. ASSUME NEW i \in Nat, i \in S PROVE i + 1 \in S
  <2> SUFFICES ASSUME i + 1 <= n PROVE f[i + 1] \in Nat \ {0} /\ f[i + 1] = g[i + 1]
    OBVIOUS
  <2>1. f[i] \in Nat \ {0} /\ f[i] = g[i]
    BY <1>2
  <2>2. f[i + 1] = 2 * f[i] /\ g[i + 1] = 2 * g[i]
    BY DEF IsPowers
  <2> QED
    BY <2>1, <2>2
<1> HIDE DEF S
<1>3. n \in S
  BY <1>1, <1>2, InductiveSet
<1> QED
  BY <1>3 DEF S

(* TwoTo, defined by recursion, is what its equation says: the tables fit  *)
(* together to a function over all exponents.                              *)
LEMMA TwoToIs ==
    /\ TwoTo[0] = 1
    /\ \A n \in Nat : TwoTo[n] \in Nat \ {0} /\ TwoTo[n + 1] = 2 * TwoTo[n]
<1> DEFINE upTo(n) == CHOOSE f : IsPowers(f, n)
           g == [n \in Nat |-> upTo(n)[n]]
<1>1. \A n \in Nat : IsPowers(upTo(n), n)
  BY PowersExist
<1> HIDE DEF upTo
<1>2. ASSUME NEW n \in Nat PROVE g[n] = IF n = 0 THEN 1 ELSE 2 * g[n - 1]
  <2>1. CASE n = 0
    BY <1>1, <2>1 DEF IsPowers
  <2>2. CASE n # 0
    <3>1. n - 1 \in Nat
      BY <2>2
    <3>2. upTo(n)[n] = 2 * upTo(n)[n - 1]
      BY <1>1, <2>2 DEF IsPowers
    <3>3. upTo(n)[n - 1] = upTo(n - 1)[n - 1]
      BY <1>1, <3>1, PowersAgree
    <3> QED
      BY <2>2, <3>1, <3>2, <3>3
  <2> QED
    BY <2>1, <2>2
<1>3. \E f : f = [n \in Nat |-> IF n = 0 THEN 1 ELSE 2 * f[n - 1]]
  <2>1. g = [n \in Nat |-> IF n = 0 THEN 1 ELSE 2 * g[n - 1]]
    BY <1>2
  <2> HIDE DEF g
  <2> QED
    BY <2>1
<1>4. TwoTo = [n \in Nat |-> IF n = 0 THEN 1 ELSE 2 * TwoTo[n - 1]]
  BY <1>3 DEF TwoTo
<1> DEFINE S == {n \in Nat : TwoTo[n] \in Nat \ {0}}
<1>5. \A n \in Nat : TwoTo[n] = IF n = 0 THEN 1 ELSE 2 * TwoTo[n - 1]
  <2> DEFINE h == TwoTo
  <2> HIDE DEF h
  <2>1. h = [n \in Nat |-> IF n = 0 THEN 1 ELSE 2 * h[n - 1]]
    BY <1>4 DEF h
  <2>2. \A n \in Nat : h[n] = IF n = 0 THEN 1 ELSE 2 * h[n - 1]
    BY <2>1
  <2> QED
    BY <2>2 DEF h
<1>6. 0 \in S
  BY <1>5
<1>7. ASSUME NEW n \in Nat PROVE TwoTo[n + 1] = 2 * TwoTo[n]
  <2>1. n + 1 \in Nat /\ n + 1 # 0 /\ n + 1 - 1 = n
    OBVIOUS
  <2> QED
    BY <1>5, <2>1
<1>8. ASSUME NEW n \in Nat, n \in S PROVE n + 1 \in S
  BY <1>7, <1>8
<1> HIDE DEF S
<1>9. Nat \subseteq S
  BY <1>6, <1>8, InductiveSet
<1> QED
  BY <1>5, <1>7, <1>9 DEF S

(* Exponents add up.                                                       *)
LEMMA TwoToSum ==
    ASSUME NEW a \in Nat, NEW b \in Nat
    PROVE  TwoTo[a + b] = TwoTo[a] * TwoTo[b]
<1> DEFINE S == {n \in Nat : TwoTo[a + n] = TwoTo[a] * TwoTo[n]}
<1>1. 0 \in S
  BY TwoToIs
<1>2. ASSUME NEW n \in Nat, n \in S PROVE n + 1 \in S
  <2>1. TwoTo[a + n + 1] = 2 * TwoTo[a + n]
    BY TwoToIs
  <2>2. TwoTo[n + 1] = 2 * TwoTo[n] /\ TwoTo[n] \in Nat /\ TwoTo[a] \in Nat
    BY TwoToIs
  <2>3. TwoTo[a + n] = TwoTo[a] * TwoTo[n]
    BY <1>2
  <2>4. TwoTo[a] * (2 * TwoTo[n]) = 2 * (TwoTo[a] * TwoTo[n])
    BY <2>2
  <2>5. a + (n + 1) = a + n + 1
    OBVIOUS
  <2> QED
    BY <2>1, <2>2, <2>3, <2>4, <2>5
<1> HIDE DEF S
<1>3. b \in S
  BY <1>1, <1>2, InductiveSet
<1> QED
  BY <1>3 DEF S

(* A byte has at least two values; a register is two bytes, a number of a  *)
(* type one register or two.                                               *)
LEMMA Spans ==
    /\ Base \in Nat /\ Base >= 2
    /\ TwoTo[2 * ByteBits] = Base * Base
    /\ \A type : Span(type) = IF RegisterCount(type) = 2 THEN (Base * Base) * (Base * Base)
                              ELSE Base * Base
<1>1. ByteBits \in Nat \ {0}
  BY CodecAssumption
<1>2. Base \in Nat /\ Base >= 2
  <2>1. Base = 2 * TwoTo[ByteBits - 1] /\ TwoTo[ByteBits - 1] \in Nat \ {0}
    <3>1. ByteBits - 1 \in Nat /\ ByteBits = (ByteBits - 1) + 1
      BY <1>1
    <3> QED
      BY <3>1, TwoToIs DEF Base
  <2> QED
    BY <2>1
<1>3. TwoTo[2 * ByteBits] = Base * Base
  <2>1. 2 * ByteBits = ByteBits + ByteBits
    BY <1>1
  <2> QED
    BY <1>1, <2>1, TwoToSum DEF Base
<1>4. TwoTo[2 * ByteBits * 2] = (Base * Base) * (Base * Base)
  <2>1. 2 * ByteBits * 2 = 2 * ByteBits + 2 * ByteBits /\ 2 * ByteBits \in Nat
    BY <1>1
  <2> QED
    BY <1>3, <2>1, TwoToSum
<1>5. 2 * ByteBits * 1 = 2 * ByteBits
  BY <1>1
<1> QED
  BY <1>2, <1>3, <1>4, <1>5 DEF Span, RegisterCount

(* What a byte can hold.                                                   *)
Byte == 0..Base - 1

(* A register is its two bytes.                                            *)
LEMMA TwoBytes ==
    ASSUME NEW high \in Byte, NEW low \in Byte
    PROVE  LET r == high * Base + low
           IN  r \in Register /\ High(r) = high /\ Low(r) = low
<1> DEFINE r == high * Base + low
<1>1. Base \in Nat /\ Base >= 2
  BY Spans
<1>2. high \in Nat /\ low \in Nat /\ high <= Base - 1 /\ low <= Base - 1
  BY <1>1 DEF Byte
<1>3. r \in Nat
  BY <1>1, <1>2
<1>4. r <= Base * Base - 1
  <2>1. high * Base <= (Base - 1) * Base
    BY <1>1, <1>2
  <2>2. (Base - 1) * Base = Base * Base - Base
    BY <1>1
  <2>3. high * Base \in Nat /\ Base * Base \in Nat /\ (Base - 1) * Base \in Int
    BY <1>1, <1>2
  <2> QED
    BY <1>1, <1>2, <2>1, <2>2, <2>3
<1>5. r \div Base = high /\ r % Base = low
  BY <1>1, <1>2, <1>3, DivModUnique
<1>6. Base * Base \in Nat
  BY <1>1
<1> QED
  BY <1>3, <1>4, <1>5, <1>6 DEF Register, High, Low

(* A register is made of its two bytes.                                    *)
LEMMA BytesOf ==
    ASSUME NEW r \in Register
    PROVE  /\ High(r) \in Byte /\ Low(r) \in Byte
           /\ r \in Nat /\ r = High(r) * Base + Low(r)
<1>1. Base \in Nat /\ Base >= 2 /\ Base * Base \in Nat
  BY Spans
<1>2. r \in Nat /\ r < Base * Base
  BY <1>1 DEF Register
<1>3. Low(r) \in Byte /\ High(r) \in Int /\ r = High(r) * Base + Low(r)
  BY <1>1, <1>2, DivMod DEF High, Low, Byte
<1>4. Low(r) \in Nat /\ Low(r) < Base
  BY <1>1, <1>3 DEF Byte
<1> DEFINE h == High(r)
<1> HIDE DEF h
<1>5. h \in Int /\ r - h * Base = Low(r)
  BY <1>1, <1>2, <1>3, <1>4 DEF h
<1>6. h >= Base => h * Base >= Base * Base
  BY <1>1, <1>5
<1>7. h <= -1 => h * Base <= -Base
  BY <1>1, <1>5
<1>8. h * Base \in Int
  BY <1>1, <1>5
<1>9. h \in Byte
  BY <1>1, <1>2, <1>4, <1>5, <1>6, <1>7, <1>8 DEF Byte
<1> QED
  BY <1>2, <1>3, <1>9 DEF h

(* Bytes that are swapped twice are where they were.                       *)
LEMMA SwappedTwice ==
    ASSUME NEW r \in Register
    PROVE  SwapBytes(r) \in Register /\ SwapBytes(SwapBytes(r)) = r
<1>1. High(r) \in Byte /\ Low(r) \in Byte /\ r = High(r) * Base + Low(r)
  BY BytesOf
<1>2. /\ SwapBytes(r) \in Register
      /\ High(SwapBytes(r)) = Low(r) /\ Low(SwapBytes(r)) = High(r)
  BY <1>1, TwoBytes DEF SwapBytes
<1>3. SwapBytes(SwapBytes(r)) = Low(SwapBytes(r)) * Base + High(SwapBytes(r))
  BY DEF SwapBytes
<1> QED
  BY <1>1, <1>2, <1>3

(* A number below m times d goes fewer than m times into d.                *)
LEMMA DivBelow ==
    ASSUME NEW n \in Nat, NEW d \in Nat \ {0}, NEW m \in Nat \ {0}, n < m * d
    PROVE  n \div d \in 0..m - 1
<1> DEFINE q == n \div d
           r == n % d
<1>1. q \in Int /\ r \in 0..d - 1 /\ n = q * d + r
  BY DivMod
<1> HIDE DEF q, r
<1>2. q * d \in Int /\ m * d \in Int
  BY <1>1
<1>3. q >= m => q * d >= m * d
  BY <1>1
<1>4. q <= -1 => q * d <= -d
  BY <1>1
<1>5. q \in 0..m - 1
  BY <1>1, <1>2, <1>3, <1>4
<1> QED
  BY <1>5 DEF q

(* To divide by a product is to divide twice.                              *)
LEMMA DivDiv ==
    ASSUME NEW n \in Nat, NEW d \in Nat \ {0}, NEW e \in Nat \ {0}
    PROVE  n \div (d * e) = (n \div d) \div e
<1> DEFINE q == n \div d
           r == n % d
           p == q \div e
           s == q % e
<1>1. q \in Int /\ r \in 0..d - 1 /\ n = q * d + r
  BY DivMod
<1>2. p \in Int /\ s \in 0..e - 1 /\ q = p * e + s
  BY <1>1, DivMod
<1> HIDE DEF q, r, p, s
<1>3. n = p * (d * e) + (s * d + r)
  <2>1. (p * e + s) * d = p * (d * e) + s * d
    BY <1>2
  <2> QED
    BY <1>1, <1>2, <2>1
<1>4. s * d + r \in 0..d * e - 1
  <2>1. s * d <= (e - 1) * d /\ s * d >= 0
    BY <1>2
  <2>2. (e - 1) * d = d * e - d
    OBVIOUS
  <2>3. s * d \in Int /\ d * e \in Int
    BY <1>2
  <2> QED
    BY <1>1, <2>1, <2>2, <2>3
<1>5. d * e \in Nat \ {0}
  OBVIOUS
<1>6. n \div (d * e) = p
  <2> DEFINE t == s * d + r
             f == d * e
  <2>1. t \in 0..f - 1 /\ f \in Nat \ {0} /\ n = p * f + t
    BY <1>3, <1>4, <1>5
  <2> HIDE DEF t, f
  <2>2. n \div f = p
    BY <1>2, <2>1, DivModUnique
  <2> QED
    BY <2>2 DEF f
<1> QED
  BY <1>6 DEF p, q

-----------------------------------------------------------------------------
(* Bits of words                                                           *)

(* word_from_bit puts the bit where bit_from_word looks for it, leaves     *)
(* every other bit of the word as it was, and does not leave the word.     *)
LEMMA BitIsPut ==
    ASSUME NEW word \in Register, NEW bit \in Bits, NEW value \in {0, 1}
    PROVE  /\ WordFromBit(bit, value, word) \in Register
           /\ BitFromWord(WordFromBit(bit, value, word), bit) = value
           /\ \A other \in Bits \ {bit} :
                  BitFromWord(WordFromBit(bit, value, word), other) = BitFromWord(word, other)
<1> DEFINE P == TwoTo[bit]
           K == TwoTo[2 * ByteBits - (bit + 1)]
           old == BitFromWord(word, bit)
           new == word + (value - old) * P
<1>1. /\ ByteBits \in Nat \ {0} /\ bit \in Nat
      /\ 2 * ByteBits - (bit + 1) \in Nat
  BY CodecAssumption DEF Bits
<1>2. Base * Base = (2 * P) * K /\ P \in Nat \ {0} /\ K \in Nat \ {0}
  <2>1. 2 * ByteBits = (bit + 1) + (2 * ByteBits - (bit + 1)) /\ bit + 1 \in Nat
    BY <1>1
  <2>2. TwoTo[2 * ByteBits] = TwoTo[bit + 1] * K
    BY <1>1, <2>1, TwoToSum
  <2> QED
    BY <1>1, <2>2, TwoToIs, Spans
<1>3. word \in Nat /\ word < (2 * P) * K /\ Base * Base \in Nat
  BY <1>2, Spans DEF Register
<1> HIDE DEF P, K
<1> DEFINE q == word \div P
           s == word % P
           Q == q \div 2
<1>4. q \in Int /\ s \in 0..P - 1 /\ word = q * P + s
  <2>1. word \in Int /\ P \in Nat \ {0}
    BY <1>2, <1>3
  <2> QED
    BY <2>1, DivMod
<1>5. Q \in Int /\ old \in 0..1 /\ q = Q * 2 + old
  <2>1. old = q % 2
    BY DEF BitFromWord, P
  <2> HIDE DEF q
  <2> QED
    BY <1>4, <2>1
<1> HIDE DEF old, q, s, Q
<1>6. /\ word = Q * (2 * P) + (old * P + s) /\ old * P + s \in 0..2 * P - 1
      /\ new = Q * (2 * P) + (value * P + s) /\ value * P + s \in 0..2 * P - 1
  <2>1. (Q * 2 + old) * P = Q * (2 * P) + old * P
    BY <1>2, <1>5
  <2>2. (value - old) * P = value * P - old * P
    BY <1>2, <1>5
  <2>3. Q * (2 * P) \in Int /\ old * P \in {0, P} /\ value * P \in {0, P}
    BY <1>2, <1>5
  <2> QED
    BY <1>2, <1>3, <1>4, <1>5, <2>1, <2>2, <2>3
<1>7. word \div (2 * P) = Q /\ new \div (2 * P) = Q
  <2> DEFINE D == 2 * P
             t == old * P + s
             u == value * P + s
  <2>1. /\ D \in Nat \ {0} /\ t \in 0..D - 1 /\ u \in 0..D - 1
        /\ word = Q * D + t /\ new = Q * D + u
    BY <1>2, <1>6
  <2>2. new \in Int
    BY <1>2, <1>3, <1>5
  <2> HIDE DEF D, t, u, new
  <2>3. word \div D = Q /\ new \div D = Q
    BY <1>3, <1>5, <2>1, <2>2, DivModUnique
  <2> QED
    BY <2>3 DEF D
<1>8. Q \in 0..K - 1
  <2> DEFINE D == 2 * P
  <2>1. D \in Nat \ {0} /\ word < K * D
    BY <1>2, <1>3
  <2> HIDE DEF D
  <2>2. word \div D \in 0..K - 1
    BY <1>2, <1>3, <2>1, DivBelow
  <2> QED
    BY <1>7, <2>2 DEF D
<1>9. new \in 0..Base * Base - 1
  <2>1. Q * (2 * P) >= 0 /\ Q * (2 * P) <= (K - 1) * (2 * P)
    BY <1>2, <1>8
  <2>2. (K - 1) * (2 * P) = (2 * P) * K - 2 * P
    BY <1>2
  <2>3. Q * (2 * P) \in Int /\ (2 * P) * K \in Int
    BY <1>2, <1>5
  <2> DEFINE x == Q * (2 * P)
             y == (2 * P) * K
             u == value * P + s
  <2>4. /\ x >= 0 /\ x <= y - 2 * P /\ x \in Int /\ y \in Int
        /\ u \in 0..2 * P - 1 /\ new = x + u /\ Base * Base = y
    BY <1>2, <1>6, <2>1, <2>2, <2>3
  <2> HIDE DEF x, y, u, new
  <2> QED
    BY <1>2, <2>4
<1>10. BitFromWord(new, bit) = value
  <2>1. new = (Q * 2 + value) * P + s
    <3>1. (Q * 2 + value) * P = Q * (2 * P) + value * P
      BY <1>2, <1>5
    <3>2. Q * (2 * P) \in Int /\ value * P \in Int /\ s \in Int
      BY <1>2, <1>4, <1>5
    <3> QED
      BY <1>6, <3>1, <3>2
  <2>2. new \in Int /\ Q * 2 + value \in Int
    BY <1>5, <1>9
  <2> HIDE DEF new
  <2>3. new \div P = Q * 2 + value
    <3> DEFINE x == Q * 2 + value
    <3>1. new = x * P + s /\ x \in Int
      BY <2>1, <2>2
    <3> HIDE DEF x
    <3>2. new \div P = x
      BY <1>2, <1>4, <2>2, <3>1, DivModUnique
    <3> QED
      BY <3>2 DEF x
  <2>4. (Q * 2 + value) % 2 = value
    BY <1>5
  <2> QED
    BY <2>3, <2>4 DEF BitFromWord, P
<1>11. ASSUME NEW other \in Bits, other < bit
       PROVE  BitFromWord(new, other) = BitFromWord(word, other)
  <2> DEFINE C == TwoTo[other]
             E == TwoTo[bit - other - 1]
  <2>1. other \in Nat /\ bit - other - 1 \in Nat /\ bit = other + ((bit - other - 1) + 1)
    BY <1>1, <1>11 DEF Bits
  <2>2. P = C * (2 * E) /\ C \in Nat \ {0} /\ E \in Nat \ {0}
    <3>1. (bit - other - 1) + 1 \in Nat
      BY <2>1
    <3>2. TwoTo[bit] = C * TwoTo[(bit - other - 1) + 1]
      BY <2>1, <3>1, TwoToSum
    <3> QED
      BY <2>1, <3>2, TwoToIs DEF P
  <2> HIDE DEF C, E
  <2> DEFINE p == word \div C
             t == word % C
  <2>3. p \in Int /\ t \in 0..C - 1 /\ word = p * C + t
    BY <1>3, <2>2, DivMod
  <2> DEFINE change == (value - old) * E
  <2>4. change \in Int
    BY <1>5, <2>2
  <2>5. (value - old) * P = (change * 2) * C
    BY <1>5, <2>2
  <2> HIDE DEF p, t, change
  <2>6. new = (p + change * 2) * C + t
    <3>1. (p + change * 2) * C = p * C + (change * 2) * C
      BY <2>2, <2>3, <2>4
    <3>2. p * C \in Int /\ (change * 2) * C \in Int
      BY <2>2, <2>3, <2>4
    <3> QED
      BY <1>3, <2>3, <2>5, <3>1, <3>2
  <2>7. new \in Int /\ p + change * 2 \in Int
    BY <1>9, <2>3, <2>4
  <2> HIDE DEF new
  <2>8. new \div C = p + change * 2
    <3> DEFINE x == p + change * 2
    <3>1. new = x * C + t /\ x \in Int
      BY <2>6, <2>7
    <3> HIDE DEF x
    <3>2. new \div C = x
      BY <2>2, <2>3, <2>7, <3>1, DivModUnique
    <3> QED
      BY <3>2 DEF x
  <2>9. (p + change * 2) % 2 = p % 2
    BY <2>3, <2>4
  <2> QED
    BY <2>8, <2>9 DEF BitFromWord, C, p
<1>12. ASSUME NEW other \in Bits, bit < other
       PROVE  BitFromWord(new, other) = BitFromWord(word, other)
  <2> DEFINE E == TwoTo[other - bit - 1]
             D == 2 * P
  <2>1. other \in Nat /\ other - bit - 1 \in Nat /\ other = (bit + 1) + (other - bit - 1)
    BY <1>1, <1>12 DEF Bits
  <2>2. TwoTo[other] = D * E /\ D \in Nat \ {0} /\ E \in Nat \ {0}
    <3>1. bit + 1 \in Nat /\ TwoTo[other] = TwoTo[bit + 1] * E
      BY <1>1, <2>1, TwoToSum
    <3> QED
      BY <1>1, <2>1, <3>1, TwoToIs DEF P
  <2>3. new \in Nat /\ word \in Nat
    BY <1>3, <1>9
  <2>4. new \div D = word \div D
    BY <1>7
  <2> HIDE DEF new, D, E
  <2>5. new \div TwoTo[other] = word \div TwoTo[other]
    <3>1. new \div (D * E) = (new \div D) \div E
      BY <2>2, <2>3, DivDiv
    <3>2. word \div (D * E) = (word \div D) \div E
      BY <2>2, <2>3, DivDiv
    <3> QED
      BY <2>2, <2>4, <3>1, <3>2
  <2> QED
    BY <2>5 DEF BitFromWord
<1>13. WordFromBit(bit, value, word) = new
  BY DEF WordFromBit, old, P
<1>14. \A other \in Bits \ {bit} : other < bit \/ bit < other
  BY <1>1 DEF Bits
<1> HIDE DEF new
<1> QED
  BY <1>9, <1>10, <1>11, <1>12, <1>13, <1>14 DEF Register

(* A function over 1..k is a sequence of that length.                      *)
LEMMA LenIs ==
    ASSUME NEW S, NEW k \in Nat, NEW f \in [1..k -> S]
    PROVE  f \in Seq(S) /\ Len(f) = k
  OBVIOUS

(* The first byte of a register, and the second, in a byte order.          *)
Combined(data, i, byteOrder) ==
    IF byteOrder = "little" THEN data[2 * i] * Base + data[2 * i - 1]
    ELSE data[2 * i - 1] * Base + data[2 * i]

(* The two bytes that make up a register come back from it in their order. *)
LEMMA Halves ==
    ASSUME NEW data, NEW byteOrder \in Orders, NEW i,
           data[2 * i] \in Byte, data[2 * i - 1] \in Byte
    PROVE  LET r == Combined(data, i, byteOrder)
           IN  /\ r \in Register
               /\ data[2 * i - 1] = IF byteOrder = "big" THEN High(r) ELSE Low(r)
               /\ data[2 * i] = IF byteOrder = "big" THEN Low(r) ELSE High(r)
<1> DEFINE a == data[2 * i]
           b == data[2 * i - 1]
<1>1. /\ a * Base + b \in Register /\ High(a * Base + b) = a /\ Low(a * Base + b) = b
      /\ b * Base + a \in Register /\ High(b * Base + a) = b /\ Low(b * Base + a) = a
  BY TwoBytes
<1> QED
  BY <1>1 DEF Combined, Orders

(* Bytes are put into registers and taken out of them again in every word  *)
(* order and byte order.                                                   *)
LEMMA BytesThereAndBack ==
    ASSUME NEW n \in {1, 2}, NEW data \in [1..2 * n -> Byte],
           NEW wordOrder \in Orders, NEW byteOrder \in Orders
    PROVE  LET regs == BytesToRegisters(data, wordOrder, byteOrder)
           IN  /\ regs \in [1..n -> Register] /\ Len(regs) = n
               /\ RegistersToBytes(regs, wordOrder, byteOrder) = data
<1> DEFINE plain == [i \in 1..n |-> Combined(data, i, byteOrder)]
           regs == InWordOrder(plain, wordOrder)
           ordered == InWordOrder(regs, wordOrder)
<1>1. Len(data) = 2 * n /\ Len(data) \div 2 = n
  BY LenIs
<1>2. BytesToRegisters(data, wordOrder, byteOrder) = regs
  BY <1>1 DEF BytesToRegisters, Combined
<1>3. ASSUME NEW i \in 1..n
      PROVE  /\ plain[i] \in Register
             /\ data[2 * i - 1] = IF byteOrder = "big" THEN High(plain[i]) ELSE Low(plain[i])
             /\ data[2 * i] = IF byteOrder = "big" THEN Low(plain[i]) ELSE High(plain[i])
  <2>1. data[2 * i] \in Byte /\ data[2 * i - 1] \in Byte
    BY <1>3
  <2>2. plain[i] = Combined(data, i, byteOrder)
    OBVIOUS
  <2>3. LET r == Combined(data, i, byteOrder)
        IN  /\ r \in Register
            /\ data[2 * i - 1] = IF byteOrder = "big" THEN High(r) ELSE Low(r)
            /\ data[2 * i] = IF byteOrder = "big" THEN Low(r) ELSE High(r)
    BY <2>1, Halves
  <2> HIDE DEF plain
  <2> QED
    BY <2>2, <2>3
<1>4. plain \in [1..n -> Register] /\ Len(plain) = n
  <2>1. plain \in [1..n -> Register]
    BY <1>3
  <2> HIDE DEF plain
  <2> QED
    BY <2>1, LenIs
<1> HIDE DEF plain
<1>5. Reverse(plain) = [i \in 1..n |-> plain[n - i + 1]]
  BY <1>4 DEF Reverse
<1>6. regs \in [1..n -> Register] /\ Len(regs) = n
  <2>1. regs \in [1..n -> Register]
    BY <1>4, <1>5 DEF InWordOrder
  <2> HIDE DEF regs
  <2> QED
    BY <2>1, LenIs
<1>7. ordered = plain
  <2>1. CASE wordOrder = "little"
    <3>1. regs = Reverse(plain) /\ ordered = Reverse(regs)
      BY <2>1 DEF InWordOrder
    <3>2. Reverse(regs) = [i \in 1..n |-> regs[n - i + 1]]
      BY <1>6 DEF Reverse
    <3>3. \A i \in 1..n : regs[n - i + 1] = plain[i]
      BY <1>5, <3>1
    <3> QED
      BY <1>4, <3>1, <3>2, <3>3
  <2>2. CASE wordOrder = "big"
    BY <2>2 DEF InWordOrder
  <2> QED
    BY <2>1, <2>2 DEF Orders
<1> HIDE DEF regs
<1>8. RegistersToBytes(regs, wordOrder, byteOrder) =
          [k \in 1..2 * n |->
              IF (k % 2 = 1) = (byteOrder = "big")
              THEN High(plain[(k + 1) \div 2]) ELSE Low(plain[(k + 1) \div 2])]
  BY <1>6, <1>7 DEF RegistersToBytes
<1>9. ASSUME NEW k \in 1..2 * n
      PROVE  data[k] = IF (k % 2 = 1) = (byteOrder = "big")
                       THEN High(plain[(k + 1) \div 2]) ELSE Low(plain[(k + 1) \div 2])
  <2>1. PICK i \in 1..n : k = 2 * i \/ k = 2 * i - 1
    BY <1>9
  <2>2. CASE k = 2 * i
    <3>1. k % 2 = 0 /\ (k + 1) \div 2 = i
      BY <2>2
    <3> QED
      BY <1>3, <2>2, <3>1 DEF Orders
  <2>3. CASE k = 2 * i - 1
    <3>1. k % 2 = 1 /\ (k + 1) \div 2 = i
      BY <2>3
    <3> QED
      BY <1>3, <2>3, <3>1 DEF Orders
  <2> QED
    BY <2>1, <2>2, <2>3
<1>10. RegistersToBytes(regs, wordOrder, byteOrder) = data
  BY <1>8, <1>9
<1> QED
  BY <1>2, <1>6, <1>10

-----------------------------------------------------------------------------
(* Numbers and their bytes                                                 *)

(* f has the numbers that the first bytes of data come to.                 *)
IsUnsigned(f, data) ==
    f = [k \in 0..Len(data) |-> IF k = 0 THEN 0 ELSE f[k - 1] * Base + data[k]]

(* Unsigned is the end of a recursion over the bytes.                      *)
LEMMA UnsignedIs ==
    ASSUME NEW data, Len(data) \in Nat
    PROVE  \E f : IsUnsigned(f, data) /\ Unsigned(data) = f[Len(data)]
<1> DEFINE upTo(m, f) == f = [k \in 0..m |-> IF k = 0 THEN 0 ELSE f[k - 1] * Base + data[k]]
           S == {m \in Nat : \E f : upTo(m, f)}
<1>1. 0 \in S
  <2>1. upTo(0, [k \in 0..0 |-> 0])
    OBVIOUS
  <2> QED
    BY <2>1
<1>2. ASSUME NEW m \in Nat, m \in S PROVE m + 1 \in S
  <2>1. PICK f : upTo(m, f)
    BY <1>2
  <2> DEFINE g == [k \in 0..m + 1 |-> IF k = m + 1 THEN f[m] * Base + data[m + 1] ELSE f[k]]
  <2>2. ASSUME NEW k \in 0..m + 1
        PROVE  g[k] = IF k = 0 THEN 0 ELSE g[k - 1] * Base + data[k]
    <3>1. CASE k = m + 1
      BY <3>1
    <3>2. CASE k \in 0..m
      <4>1. f[k] = IF k = 0 THEN 0 ELSE f[k - 1] * Base + data[k]
        BY <2>1, <3>2
      <4>2. k # 0 => k - 1 \in 0..m
        BY <3>2
      <4> QED
        BY <3>2, <4>1, <4>2
    <3> QED
      BY <3>1, <3>2
  <2>3. upTo(m + 1, g)
    BY <2>2
  <2>4. \E h : upTo(m + 1, h)
    <3> HIDE DEF g, upTo
    <3> QED
      BY <2>3
  <2> QED
    BY <2>4
<1> HIDE DEF S
<1>3. Len(data) \in S
  BY <1>1, <1>2, InductiveSet
<1>4. \E f : IsUnsigned(f, data)
  BY <1>3 DEF S, IsUnsigned
<1> DEFINE h == CHOOSE f : IsUnsigned(f, data)
<1>5. IsUnsigned(h, data)
  BY <1>4
<1>6. Unsigned(data) = h[Len(data)]
  BY DEF Unsigned, IsUnsigned
<1> QED
  BY <1>5, <1>6

(* What one register or two come to, written out.                          *)
LEMMA UnsignedOfFew ==
    ASSUME NEW n \in {1, 2}, NEW data \in [1..2 * n -> Byte]
    PROVE  Unsigned(data) =
               IF n = 1 THEN data[1] * Base + data[2]
               ELSE ((data[1] * Base + data[2]) * Base + data[3]) * Base + data[4]
<1>1. Len(data) = 2 * n
  BY LenIs
<1>2. PICK f : IsUnsigned(f, data) /\ Unsigned(data) = f[Len(data)]
  BY <1>1, UnsignedIs
<1>3. Base \in Nat /\ \A k \in 1..2 * n : data[k] \in Int
  BY Spans DEF Byte
<1>4. f[0] = 0 /\ f[1] = f[0] * Base + data[1] /\ f[2] = f[1] * Base + data[2]
  BY <1>1, <1>2 DEF IsUnsigned
<1>5. f[1] = data[1] /\ f[2] = data[1] * Base + data[2]
  BY <1>3, <1>4
<1>6. n = 2 => f[3] = f[2] * Base + data[3] /\ f[4] = f[3] * Base + data[4]
  BY <1>1, <1>2 DEF IsUnsigned
<1> QED
  BY <1>1, <1>2, <1>5, <1>6

(* The digits of a number to the base of a byte.                           *)
LEMMA Digits ==
    ASSUME NEW n \in Nat, NEW m \in Nat \ {0}, n < m * Base
    PROVE  /\ n % Base \in Byte /\ n \div Base \in Nat /\ n \div Base < m
           /\ n = (n \div Base) * Base + (n % Base)
<1>1. Base \in Nat \ {0}
  BY Spans
<1>2. n \div Base \in 0..m - 1
  BY <1>1, DivBelow
<1>3. n % Base \in 0..Base - 1 /\ n = (n \div Base) * Base + (n % Base)
  BY <1>1, DivMod
<1> QED
  BY <1>2, <1>3 DEF Byte

(* The types of numbers.                                                   *)
Numeric == {"int16", "uint16", "int32", "uint32"}

(* struct.pack keeps a value modulo the span of its type.                  *)
LEMMA PackedIs ==
    ASSUME NEW type \in Numeric, NEW value \in Int
    PROVE  LET data == Pack(value, type)
           IN  /\ data \in [1..2 * RegisterCount(type) -> Byte]
               /\ Unsigned(data) = value % Span(type)
<1> DEFINE n == RegisterCount(type)
           data == Pack(value, type)
           span == Span(type)
           u0 == value % span
           u1 == u0 \div Base
           u2 == u1 \div Base
           u3 == u2 \div Base
<1>1. n \in {1, 2} /\ Base \in Nat \ {0} /\ ByteBits \in Nat /\ Base * Base \in Nat \ {0}
  BY Spans, CodecAssumption DEF RegisterCount
<1>2. span = IF n = 1 THEN Base * Base ELSE (Base * Base) * (Base * Base)
  BY <1>1, Spans
<1>3. span \in Nat \ {0}
  BY <1>1, <1>2
<1> HIDE DEF n, span
<1>4. u0 \in Nat /\ u0 < span
  BY <1>3, DivMod
<1> HIDE DEF u0
<1>5. /\ TwoTo[ByteBits * 0] = 1 /\ TwoTo[ByteBits * 1] = Base
      /\ TwoTo[ByteBits * 2] = Base * Base /\ TwoTo[ByteBits * 3] = (Base * Base) * Base
  <2>1. ByteBits * 0 = 0 /\ ByteBits * 1 = ByteBits /\ ByteBits * 2 = 2 * ByteBits
        /\ ByteBits * 3 = 2 * ByteBits + ByteBits /\ 2 * ByteBits \in Nat
    BY <1>1
  <2>2. TwoTo[2 * ByteBits + ByteBits] = TwoTo[2 * ByteBits] * TwoTo[ByteBits]
    BY <1>1, <2>1, TwoToSum
  <2> QED
    BY <2>1, <2>2, TwoToIs, Spans DEF Base
<1>6. data = [k \in 1..2 * n |-> (u0 \div TwoTo[ByteBits * (2 * n - k)]) % Base]
  BY DEF Pack, n, u0, span
<1> HIDE DEF data
<1>7. CASE n = 1
  <2>1. u0 < Base * Base
    BY <1>2, <1>4, <1>7
  <2>2. /\ u0 % Base \in Byte /\ u1 \in Nat /\ u1 < Base
        /\ u0 = u1 * Base + (u0 % Base)
    BY <1>1, <1>4, <2>1, Digits
  <2>3. data[1] = (u0 \div Base) % Base /\ data[2] = (u0 \div 1) % Base
    BY <1>5, <1>6, <1>7
  <2>4. u0 \div 1 = u0
    BY <1>4
  <2> HIDE DEF u1
  <2>5. u1 % Base = u1 /\ u1 \in Byte
    BY <1>1, <2>2 DEF Byte
  <2>6. data[1] = u1 /\ data[2] = u0 % Base
    BY <2>3, <2>4, <2>5 DEF u1
  <2>7. data \in [1..2 * n -> Byte]
    <3>1. \A k \in 1..2 * n : data[k] \in Byte
      BY <1>7, <2>2, <2>5, <2>6
    <3> QED
      BY <1>6, <3>1
  <2>8. Unsigned(data) = data[1] * Base + data[2]
    BY <1>7, <2>7, UnsignedOfFew
  <2> QED
    BY <2>2, <2>6, <2>7, <2>8 DEF data, n, u0, span
<1>8. CASE n = 2
  <2> DEFINE B2 == Base * Base
             B3 == B2 * Base
  <2>1. B2 \in Nat \ {0} /\ B3 \in Nat \ {0} /\ u0 < B3 * Base
    <3>1. (Base * Base) * (Base * Base) = ((Base * Base) * Base) * Base
      BY <1>1
    <3> QED
      BY <1>1, <1>2, <1>4, <1>8, <3>1
  <2>2. B3 = B2 * Base /\ B2 = Base * Base
    OBVIOUS
  <2> HIDE DEF B2, B3
  <2>3. /\ u0 % Base \in Byte /\ u1 \in Nat /\ u1 < B3
        /\ u0 = u1 * Base + (u0 % Base)
    BY <1>4, <2>1, Digits
  <2>4. u1 = u0 \div Base
    OBVIOUS
  <2> HIDE DEF u1
  <2>5. /\ u1 % Base \in Byte /\ u2 \in Nat /\ u2 < B2
        /\ u1 = u2 * Base + (u1 % Base)
    BY <2>1, <2>2, <2>3, Digits
  <2>6. u2 = u1 \div Base
    OBVIOUS
  <2> HIDE DEF u2
  <2>7. /\ u2 % Base \in Byte /\ u3 \in Nat /\ u3 < Base
        /\ u2 = u3 * Base + (u2 % Base)
    BY <1>1, <2>2, <2>5, Digits
  <2>8. u3 = u2 \div Base
    OBVIOUS
  <2> HIDE DEF u3
  <2>9. u3 % Base = u3 /\ u3 \in Byte
    BY <1>1, <2>7 DEF Byte
  <2>10. /\ u0 \div 1 = u0 /\ u0 \div (Base * Base) = u2
         /\ u0 \div ((Base * Base) * Base) = u3
    <3>1. u0 \div (Base * Base) = (u0 \div Base) \div Base
      BY <1>1, <1>4, DivDiv
    <3>2. u0 \div (B2 * Base) = (u0 \div B2) \div Base
      BY <1>1, <1>4, <2>1, DivDiv
    <3> QED
      BY <1>4, <2>2, <2>4, <2>6, <2>8, <3>1, <3>2
  <2>11. /\ data[1] = (u0 \div ((Base * Base) * Base)) % Base
         /\ data[2] = (u0 \div (Base * Base)) % Base
         /\ data[3] = (u0 \div Base) % Base /\ data[4] = (u0 \div 1) % Base
    BY <1>5, <1>6, <1>8
  <2>12. /\ data[1] = u3 /\ data[2] = u2 % Base /\ data[3] = u1 % Base /\ data[4] = u0 % Base
    BY <2>4, <2>9, <2>10, <2>11
  <2>13. data \in [1..2 * n -> Byte]
    <3>1. \A k \in 1..2 * n : data[k] \in Byte
      BY <1>8, <2>3, <2>5, <2>7, <2>9, <2>12
    <3> QED
      BY <1>6, <3>1
  <2>14. Unsigned(data) = ((data[1] * Base + data[2]) * Base + data[3]) * Base + data[4]
    BY <1>8, <2>13, UnsignedOfFew
  <2>15. Unsigned(data) = u0
    BY <2>3, <2>5, <2>7, <2>12, <2>14
  <2> QED
    BY <2>13, <2>15 DEF data, n, u0, span
<1> QED
  BY <1>1, <1>7, <1>8

(* Every number of a type comes back as it was.                            *)
LEMMA NumbersThereAndBack ==
    ASSUME NEW type \in Numeric, NEW value \in Lowest(type)..Highest(type)
    PROVE  Unpack(Pack(value, type), type) = value
<1> DEFINE span == Span(type)
           h == span \div 2
           u == value % span
<1>1. span \in Nat \ {0}
  BY Spans
<1>2. Unsigned(Pack(value, type)) = u
  BY <1>1, PackedIs DEF Lowest, Highest
<1>3. /\ Lowest(type) = (IF type \in {"int16", "int32"} THEN -h ELSE 0)
      /\ Highest(type) = Lowest(type) + span - 1
  BY DEF Lowest, Highest
<1> HIDE DEF span
<1>4. h \in Nat /\ h <= span - h /\ span - h - 1 <= h
  BY <1>1
<1> HIDE DEF h
<1>5. value \in Int /\ -h <= value /\ value <= span - 1
  BY <1>1, <1>3, <1>4
<1>6. CASE value >= 0
  <2>1. u = value
    BY <1>1, <1>5, <1>6
  <2> QED
    BY <1>1, <1>2, <1>3, <1>4, <2>1 DEF Unpack, span
<1>7. CASE value < 0
  <2>1. u = value + span
    <3>1. value = (-1) * span + (value + span)
      BY <1>1, <1>5
    <3>2. value + span \in 0..span - 1
      BY <1>1, <1>4, <1>5, <1>7
    <3> QED
      BY <1>1, <1>5, <3>1, <3>2, DivModUnique
  <2>2. Highest(type) = span - h - 1 /\ u > Highest(type)
    BY <1>1, <1>3, <1>4, <1>5, <1>7, <2>1
  <2> HIDE DEF u
  <2> QED
    BY <1>1, <1>2, <1>5, <2>1, <2>2 DEF Unpack, span
<1> QED
  BY <1>5, <1>6, <1>7

(* How far a number is from nothing.                                       *)
Magnitude(n) == IF n < 0 THEN -n ELSE n

(* What is lost in rounding is at most half a step.                        *)
LEMMA RoundedIsClose ==
    ASSUME NEW n \in Int, NEW d \in Int, d # 0
    PROVE  /\ Rounded(n, d) \in Int
           /\ 2 * Magnitude(n - Rounded(n, d) * d) <= Magnitude(d)
<1> DEFINE m == IF d < 0 THEN -n ELSE n
           e == IF d < 0 THEN -d ELSE d
           floor == m \div e
           rest == m % e
           r == Rounded(n, d)
<1>1. m \in Int /\ e \in Nat \ {0} /\ e = Magnitude(d)
  BY DEF Magnitude
<1>2. r = IF 2 * rest < e \/ (2 * rest = e /\ floor % 2 = 0) THEN floor ELSE floor + 1
  BY DEF Rounded
<1> HIDE DEF m, e
<1>3. floor \in Int /\ rest \in 0..e - 1 /\ m = floor * e + rest
  BY <1>1, DivMod
<1> HIDE DEF floor, rest, r
<1>4. r \in Int /\ 2 * Magnitude(m - r * e) <= e
  <2>1. CASE r = floor /\ 2 * rest <= e
    <3>1. m - r * e = rest
      BY <1>1, <1>3, <2>1
    <3> QED
      BY <1>1, <1>3, <2>1, <3>1 DEF Magnitude
  <2>2. CASE r = floor + 1 /\ 2 * rest >= e
    <3>1. (floor + 1) * e = floor * e + e
      BY <1>1, <1>3
    <3>2. floor * e \in Int
      BY <1>1, <1>3
    <3>3. m - r * e = rest - e
      BY <1>1, <1>3, <2>2, <3>1, <3>2
    <3> QED
      BY <1>1, <1>3, <2>2, <3>3 DEF Magnitude
  <2> QED
    BY <1>1, <1>2, <1>3, <2>1, <2>2
<1>5. Magnitude(n - r * d) = Magnitude(m - r * e)
  <2>1. CASE d < 0
    <3>1. r * (-d) = -(r * d) /\ r * d \in Int
      BY <1>4
    <3>2. m - r * e = -(n - r * d) /\ n - r * d \in Int
      BY <2>1, <3>1 DEF m, e
    <3> QED
      BY <3>2 DEF Magnitude
  <2>2. CASE ~(d < 0)
    BY <2>2 DEF m, e
  <2> QED
    BY <2>1, <2>2
<1> QED
  BY <1>1, <1>4, <1>5 DEF r

(* What is next to a rounded number when it is kept within bounds.         *)
LEMMA ClampedIsNearest ==
    ASSUME NEW n \in Int, NEW d \in Int, d # 0, NEW low \in Int, NEW high \in Int, low <= high,
           NEW r \in Int, 2 * Magnitude(n - r * d) <= Magnitude(d),
           NEW other \in low..high
    PROVE  LET c == IF r < low THEN low ELSE IF r > high THEN high ELSE r
           IN  c \in low..high /\ Magnitude(n - c * d) <= Magnitude(n - other * d)
<1> DEFINE c == IF r < low THEN low ELSE IF r > high THEN high ELSE r
           e == Magnitude(d)
           a == n - r * d
<1>1. c \in low..high /\ e \in Nat \ {0} /\ a \in Int /\ 2 * Magnitude(a) <= e
      /\ \/ c = r
         \/ r < c /\ c <= other
         \/ other <= c /\ c < r
  BY DEF Magnitude
<1>2. e = d \/ e = -d
  BY DEF Magnitude
<1>3. n - c * d = a - (c - r) * d /\ n - other * d = a - (other - r) * d
  <2>1. (c - r) * d = c * d - r * d /\ (other - r) * d = other * d - r * d
    BY <1>1
  <2>2. c * d \in Int /\ r * d \in Int /\ other * d \in Int
    BY <1>1
  <2> QED
    BY <2>1, <2>2
<1> DEFINE x == c - r
           y == other - r
<1>4. x \in Int /\ y \in Int /\ (x = 0 \/ (0 < x /\ x <= y) \/ (y <= x /\ x < 0))
  BY <1>1
<1> HIDE DEF c, e, a, x, y
<1>5. Magnitude(a - x * d) <= Magnitude(a - y * d)
  <2>1. /\ 1 <= x /\ x <= y => x * e >= e /\ y * e >= x * e
        /\ y <= x /\ x <= -1 => x * e <= -e /\ y * e <= x * e
        /\ y >= 1 => y * e >= e
        /\ y <= -1 => y * e <= -e
    BY <1>1, <1>4
  <2>2. x * e \in Int /\ y * e \in Int /\ x * d \in Int /\ y * d \in Int
    BY <1>1, <1>4
  <2>3. \/ x * d = x * e /\ y * d = y * e
        \/ x * d = -(x * e) /\ y * d = -(y * e)
    BY <1>1, <1>2, <1>4
  <2>4. x = 0 => x * e = 0
    BY <1>1
  <2>5. y = 0 => y * e = 0
    BY <1>1
  <2> DEFINE u == x * e
             v == y * e
             p == x * d
             q == y * d
  <2>6. /\ u \in Int /\ v \in Int /\ p \in Int /\ q \in Int
        /\ (p = u /\ q = v) \/ (p = -u /\ q = -v)
        /\ \/ u = 0 /\ (v = 0 \/ v >= e \/ v <= -e)
           \/ u >= e /\ v >= u
           \/ u <= -e /\ v <= u
    BY <1>1, <1>4, <2>1, <2>2, <2>3, <2>4, <2>5
  <2> HIDE DEF u, v, p, q
  <2>7. Magnitude(a - p) <= Magnitude(a - q)
    BY <1>1, <2>6 DEF Magnitude
  <2> QED
    BY <2>7 DEF p, q
<1> QED
  BY <1>1, <1>3, <1>5 DEF c, x, y, a

-----------------------------------------------------------------------------
(* Values and registers                                                    *)

LEMMA NoneIsNoBit == None \notin Bits
  BY CodecAssumption DEF Bits

(* A boolean comes back from its word, and leaves the other bits of it as  *)
(* they were.                                                              *)
LEMMA BoolThereAndBack ==
    ASSUME NEW tag, tag.type = "bool", tag.byte \in Orders,
           tag.bit = None \/ tag.bit \in Bits,
           NEW value \in {0, 1}, NEW word \in Register
    PROVE  LET regs == EncodeBool(value, tag, word)
           IN  /\ regs \in [1..1 -> Register] /\ Len(regs) = 1
               /\ tag.bit = None \/ tag.byte = "big" => DecodeRegisters(regs, tag) = value
<1> DEFINE new == IF tag.bit = None THEN value ELSE WordFromBit(tag.bit, value, word)
           reg == IF tag.byte = "little" THEN SwapBytes(new) ELSE new
<1>1. new \in Register
  <2>1. value \in Register
    BY Spans DEF Register
  <2> QED
    BY <2>1, BitIsPut
<1>2. reg \in Register
  BY <1>1, SwappedTwice
<1>3. EncodeBool(value, tag, word) = <<reg>>
  BY DEF EncodeBool
<1>4. tag.byte = "little" => SwapBytes(reg) = new
  BY <1>1, SwappedTwice
<1>5. tag.byte = "big" => reg = new
  OBVIOUS
<1>6. DecodeRegisters(<<reg>>, tag) =
          IF tag.bit # None THEN BitFromWord(new, tag.bit) ELSE IF new # 0 THEN 1 ELSE 0
  BY <1>4, <1>5 DEF DecodeRegisters, Orders
<1>7. tag.bit = None => (IF new # 0 THEN 1 ELSE 0) = value
  OBVIOUS
<1>8. tag.bit # None => BitFromWord(new, tag.bit) = value
  BY BitIsPut
<1> HIDE DEF new, reg
<1>9. <<reg>> \in [1..1 -> Register] /\ Len(<<reg>>) = 1
  BY <1>2
<1> QED
  BY <1>3, <1>6, <1>7, <1>8, <1>9

(* A number reads back as the nearest its type and scale can hold.         *)
LEMMA NumberThereAndBack ==
    ASSUME NEW tag, tag.type \in Numeric, tag.word \in Orders, tag.byte \in Orders,
           tag.scale \in Int, tag.scale # 0, tag.offset \in Int, NEW value \in Int
    PROVE  LET regs == EncodeNumber(value, tag)
           IN  /\ regs \in [1..RegisterCount(tag.type) -> Register]
               /\ Len(regs) = RegisterCount(tag.type)
               /\ IsNearest(ToEngineering(DecodeRegisters(regs, tag), tag), tag, value)
<1> DEFINE n == value - tag.offset
           low == Lowest(tag.type)
           high == Highest(tag.type)
           r == Rounded(n, tag.scale)
           raw == ClampToType(r, tag.type)
           data == Pack(raw, tag.type)
           regs == BytesToRegisters(data, tag.word, tag.byte)
<1>1. low \in Int /\ high \in Int /\ low <= high
  <2>1. Span(tag.type) \in Nat \ {0}
    BY Spans
  <2> QED
    BY <2>1 DEF Lowest, Highest
<1>2. r \in Int /\ 2 * Magnitude(n - r * tag.scale) <= Magnitude(tag.scale) /\ n \in Int
  <2>1. n \in Int
    OBVIOUS
  <2> HIDE DEF n
  <2> QED
    BY <2>1, RoundedIsClose
<1> HIDE DEF r, n
<1>3. raw = IF r < low THEN low ELSE IF r > high THEN high ELSE r
  BY DEF ClampToType
<1> HIDE DEF low, high, raw
<1>4. raw \in low..high
  BY <1>1, <1>2, <1>3
<1>5. ASSUME NEW other \in low..high
      PROVE  Magnitude(n - raw * tag.scale) <= Magnitude(n - other * tag.scale)
  BY <1>1, <1>2, <1>3, ClampedIsNearest
<1>6. RegisterCount(tag.type) \in {1, 2}
  BY DEF RegisterCount
<1>7. data \in [1..2 * RegisterCount(tag.type) -> Byte] /\ Unpack(data, tag.type) = raw
  BY <1>1, <1>4, PackedIs, NumbersThereAndBack DEF low, high
<1> HIDE DEF data
<1>8. /\ regs \in [1..RegisterCount(tag.type) -> Register]
      /\ Len(regs) = RegisterCount(tag.type)
      /\ RegistersToBytes(regs, tag.word, tag.byte) = data
  BY <1>6, <1>7, BytesThereAndBack
<1> HIDE DEF regs
<1>9. tag.type # "bool"
  BY DEF Numeric
<1>10. ToEngineering(DecodeRegisters(regs, tag), tag) = raw * tag.scale + tag.offset
  BY <1>7, <1>8, <1>9 DEF ToEngineering, DecodeRegisters
<1>11. EncodeNumber(value, tag) = regs
  BY DEF EncodeNumber, regs, data, raw, r, n
<1>12. ASSUME NEW other \in low..high
       PROVE  Distance(raw * tag.scale + tag.offset, value) <=
                  Distance(other * tag.scale + tag.offset, value)
  <2> DEFINE x == raw * tag.scale
             y == other * tag.scale
  <2>1. x \in Int /\ y \in Int
    BY <1>1, <1>4
  <2>2. Magnitude(n - x) <= Magnitude(n - y)
    BY <1>5
  <2> HIDE DEF x, y
  <2>3. Distance(x + tag.offset, value) <= Distance(y + tag.offset, value)
    BY <1>2, <2>1, <2>2 DEF Distance, Magnitude, n
  <2> QED
    BY <2>3 DEF x, y
<1>13. IsNearest(raw * tag.scale + tag.offset, tag, value)
  BY <1>4, <1>9, <1>12 DEF IsNearest, Writings, low, high
<1> QED
  BY <1>8, <1>10, <1>11, <1>13

-----------------------------------------------------------------------------
(* Coalescing                                                              *)

(* The tags of one area of a valid map.                                    *)
Plannable(mine, area) ==
    /\ area \in Areas
    /\ IsFiniteSet(mine) /\ mine \subseteq Tag
    /\ \A tag \in mine : tag.area = area
    /\ IsValid(mine)

(* What the fields of a planned tag are.                                   *)
LEMMA TagFields ==
    ASSUME NEW area, NEW mine, Plannable(mine, area), NEW tag \in mine
    PROVE  /\ tag.address \in Nat /\ Width(tag) \in Nat \ {0} /\ EndAddress(tag) \in Nat
           /\ tag.address <= EndAddress(tag)
           /\ EndAddress(tag) = tag.address + Width(tag) - 1
           /\ tag.bit # None => Width(tag) = 1
           /\ tag.area = area
           /\ Width(tag) <= MaxCount[area] /\ MaxCount[area] \in Nat \ {0} /\ MaxGap \in Nat
<1>1. tag \in Tag /\ tag.area = area /\ FieldsAreSound(tag) /\ area \in Areas
  BY DEF Plannable, IsValid
<1>2. Width(tag) \in {1, 2}
  BY DEF Width, RegisterCount
<1>3. tag.address \in Nat
  BY <1>1 DEF Tag, FieldsAreSound
<1>4. tag.bit # None => Width(tag) = 1
  BY <1>1 DEF FieldsAreSound, Width, RegisterCount
<1>5. Width(tag) <= MaxCount[area] /\ MaxCount[area] \in Nat \ {0} /\ MaxGap \in Nat
  BY <1>1, TagMapAssumption DEF FieldsAreSound
<1> QED
  BY <1>1, <1>2, <1>3, <1>4, <1>5 DEF EndAddress

(* Of two tags in order the second begins after the end of the first,      *)
(* unless both are bits of one word.                                       *)
LEMMA InOrder ==
    ASSUME NEW area, NEW mine, Plannable(mine, area),
           NEW a \in mine, NEW b \in mine, ~ComesBefore(b, a)
    PROVE  /\ a.address <= b.address /\ EndAddress(a) <= EndAddress(b)
           /\ b.address <= EndAddress(a) =>
                  b.address = a.address /\ EndAddress(b) = EndAddress(a)
<1>1. /\ a.address \in Nat /\ EndAddress(a) \in Nat /\ a.address <= EndAddress(a)
      /\ b.address \in Nat /\ EndAddress(b) \in Nat /\ b.address <= EndAddress(b)
      /\ EndAddress(a) = a.address + Width(a) - 1
      /\ EndAddress(b) = b.address + Width(b) - 1
      /\ a.bit # None => Width(a) = 1
      /\ b.bit # None => Width(b) = 1
      /\ a.area = b.area
  BY TagFields
<1>2. a.address <= b.address
  BY <1>1 DEF ComesBefore
<1>3. CASE a = b
  BY <1>1, <1>3
<1>4. CASE a # b /\ b.address <= EndAddress(a)
  <2>1. BitsAreDisjoint(a, b)
    BY <1>1, <1>2, <1>4 DEF Plannable, IsValid, Overlap
  <2> QED
    BY <1>1, <2>1 DEF BitsAreDisjoint
<1> QED
  BY <1>1, <1>2, <1>3, <1>4

(* There is a first tag: no other comes before it.                         *)
LEMMA FirstIsFirst ==
    ASSUME NEW area, NEW mine, Plannable(mine, area), NEW some \in SUBSET mine, some # {}
    PROVE  /\ FirstOf(some) \in some
           /\ \A other \in some : ~ComesBefore(other, FirstOf(some))
<1> DEFINE addresses == {tag.address : tag \in some}
<1>1. addresses \in SUBSET Nat /\ addresses # {}
  BY TagFields
<1>2. PICK m \in addresses : \A n \in addresses : m <= n
  <2> HIDE DEF addresses
  <2> QED
    BY <1>1, LeastNumber
<1> DEFINE ends == {EndAddress(tag) : tag \in {tag \in some : tag.address = m}}
<1>3. ends \in SUBSET Nat /\ ends # {}
  BY <1>2, TagFields
<1>4. PICK e \in ends : \A n \in ends : e <= n
  <2> HIDE DEF ends
  <2> QED
    BY <1>3, LeastNumber
<1>5. PICK first \in some : first.address = m /\ EndAddress(first) = e
  BY <1>4
<1>6. ASSUME NEW other \in some PROVE ~ComesBefore(other, first)
  <2>1. m \in Nat /\ e \in Nat /\ other.address \in Nat /\ EndAddress(other) \in Nat
    BY <1>1, <1>2, <1>3, <1>4, TagFields
  <2>2. m <= other.address
    BY <1>2
  <2>3. other.address = m => e <= EndAddress(other)
    BY <1>4
  <2> QED
    BY <1>5, <2>1, <2>2, <2>3 DEF ComesBefore
<1> QED
  BY <1>6 DEF FirstOf

(* The coalescing as it starts, and after one more tag.                    *)
AtFirst(mine) == [blocks |-> <<>>, left |-> mine]

OneMore(before) ==
    [blocks |-> Extended(before.blocks, FirstOf(before.left)),
     left |-> before.left \ {FirstOf(before.left)}]

(* f has the plan after each of the first tags.                            *)
AreStages(f, mine, m) ==
    f = [n \in 0..m |-> IF n = 0 THEN AtFirst(mine) ELSE OneMore(f[n - 1])]

(* The coalescing can be followed through any number of tags.              *)
LEMMA StagesExist ==
    ASSUME NEW mine, NEW m \in Nat
    PROVE  \E f : AreStages(f, mine, m)
<1> DEFINE S == {k \in Nat : \E f : AreStages(f, mine, k)}
<1>1. 0 \in S
  <2>1. AreStages([n \in 0..0 |-> AtFirst(mine)], mine, 0)
    BY DEF AreStages
  <2> QED
    BY <2>1
<1>2. ASSUME NEW k \in Nat, k \in S PROVE k + 1 \in S
  <2>1. PICK f : AreStages(f, mine, k)
    BY <1>2
  <2> DEFINE g == [n \in 0..k + 1 |-> IF n = k + 1 THEN OneMore(f[k]) ELSE f[n]]
  <2>2. ASSUME NEW n \in 0..k + 1
        PROVE  g[n] = IF n = 0 THEN AtFirst(mine) ELSE OneMore(g[n - 1])
    <3>1. CASE n = k + 1
      BY <3>1
    <3>2. CASE n \in 0..k
      <4>1. f[n] = IF n = 0 THEN AtFirst(mine) ELSE OneMore(f[n - 1])
        BY <2>1, <3>2 DEF AreStages
      <4>2. n # 0 => n - 1 \in 0..k
        BY <3>2
      <4> QED
        BY <3>2, <4>1, <4>2
    <3> QED
      BY <3>1, <3>2
  <2>3. AreStages(g, mine, k + 1)
    BY <2>2 DEF AreStages
  <2>4. \E h : AreStages(h, mine, k + 1)
    <3> HIDE DEF g
    <3> QED
      BY <2>3
  <2> QED
    BY <2>4
<1> HIDE DEF S
<1>3. m \in S
  BY <1>1, <1>2, InductiveSet
<1> QED
  BY <1>3 DEF S

(* The blocks of an area are those of the last stage.                      *)
LEMMA PlanIsLastStage ==
    ASSUME NEW map, NEW area, IsFiniteSet(map)
    PROVE  LET mine == {tag \in map : tag.area = area}
               m == Cardinality(mine)
           IN  \E f : AreStages(f, mine, m) /\ BlocksOf(map, area) = f[m].blocks
<1> DEFINE mine == {tag \in map : tag.area = area}
           m == Cardinality(mine)
           f == CHOOSE f : AreStages(f, mine, m)
<1>1. m \in Nat
  BY FS_Subset, FS_CardinalityType
<1>2. AreStages(f, mine, m)
  <2> HIDE DEF m, mine
  <2> QED
    BY <1>1, StagesExist
<1>3. BlocksOf(map, area) = f[m].blocks
  BY DEF BlocksOf, AreStages, AtFirst, OneMore
<1> QED
  BY <1>2, <1>3

(* What is true of a block, once tags of it are taken: it is a legal read, *)
(* from the start of one of its tags to the end of one, and holds them all.*)
SoundBlock(block, area) ==
    /\ block.area = area
    /\ block.start \in Nat /\ block.count \in 1..MaxCount[area]
    /\ \E tag \in block.tags : tag.address = block.start
    /\ \E tag \in block.tags : EndAddress(tag) = BlockEnd(block)
    /\ \A tag \in block.tags :
           block.start <= tag.address /\ EndAddress(tag) <= BlockEnd(block)
    /\ IsLegal(block.tags, area)

(* No legal read has both a tag at the start of the block and this one:    *)
(* they are too far apart, or there is too large a gap between them.       *)
OutOfReach(block, tag, mine) ==
    \/ EndAddress(tag) - block.start >= MaxCount[block.area]
    \/ \E next \in Nat :
           /\ BlockEnd(block) + MaxGap + 1 < next /\ next <= tag.address
           /\ \A t \in mine : EndAddress(t) <= BlockEnd(block) \/ next <= t.address

(* The blocks of an area while it is coalesced: each is sound, those that  *)
(* are closed are out of reach of all that is left, and what is taken is   *)
(* in a block.                                                             *)
SoundBlocks(blocks, left, area, mine) ==
    /\ left \subseteq mine
    /\ blocks \in Seq([area : Areas, start : Nat, count : Nat, tags : SUBSET mine])
    /\ \A i \in 1..Len(blocks) :
           /\ SoundBlock(blocks[i], area)
           /\ blocks[i].tags \cap left = {}
           /\ \A j \in i + 1..Len(blocks) :
                  /\ blocks[i].tags \cap blocks[j].tags = {}
                  /\ \A tag \in blocks[j].tags : OutOfReach(blocks[i], tag, mine)
           /\ i < Len(blocks) => \A tag \in left : OutOfReach(blocks[i], tag, mine)
    /\ \A tag \in mine \ left :
           /\ \E i \in 1..Len(blocks) : tag \in blocks[i].tags
           /\ EndAddress(tag) <= BlockEnd(blocks[Len(blocks)])
           /\ \A other \in left : ~ComesBefore(other, tag)

(* Registers are counted by natural numbers.                               *)
LEMMA UsedIsInt ==
    ASSUME NEW area, NEW mine, Plannable(mine, area), NEW some \in SUBSET mine
    PROVE  Used(some) \subseteq Nat
  BY TagFields DEF Used

(* A block of one tag is sound.                                            *)
LEMMA NewIsSound ==
    ASSUME NEW area, NEW mine, Plannable(mine, area), NEW tag \in mine
    PROVE  SoundBlock(NewBlock(tag), area) /\ BlockEnd(NewBlock(tag)) = EndAddress(tag)
<1> DEFINE block == NewBlock(tag)
<1>1. /\ tag.address \in Nat /\ Width(tag) \in Nat \ {0} /\ EndAddress(tag) \in Nat
      /\ EndAddress(tag) = tag.address + Width(tag) - 1
      /\ tag.area = area
      /\ Width(tag) <= MaxCount[area] /\ MaxCount[area] \in Nat \ {0} /\ MaxGap \in Nat
  BY TagFields
<1>2. /\ block.area = area /\ block.start = tag.address /\ block.count = Width(tag)
      /\ block.tags = {tag} /\ BlockEnd(block) = EndAddress(tag)
  BY <1>1 DEF NewBlock, BlockEnd
<1>3. IsLegal({tag}, area)
  <2>1. Used({tag}) = tag.address..EndAddress(tag)
    BY DEF Used
  <2>2. ASSUME NEW low \in tag.address..EndAddress(tag), NEW high \in tag.address..EndAddress(tag)
        PROVE  /\ high - low < MaxCount[area]
               /\ high - low > MaxGap + 1 =>
                      \E between \in tag.address..EndAddress(tag) : low < between /\ between < high
    <3>1. high - low < MaxCount[area]
      BY <1>1
    <3>2. high - low > MaxGap + 1 => /\ low + 1 \in tag.address..EndAddress(tag)
                                     /\ low < low + 1 /\ low + 1 < high
      BY <1>1
    <3> QED
      BY <3>1, <3>2
  <2> QED
    BY <2>1, <2>2 DEF IsLegal
<1> HIDE DEF block
<1>4. SoundBlock(block, area)
  BY <1>1, <1>2, <1>3 DEF SoundBlock
<1> QED
  BY <1>2, <1>4 DEF block

(* A sound block that is grown by a tag that fits is sound.                *)
LEMMA GrownIsSound ==
    ASSUME NEW area, NEW mine, Plannable(mine, area),
           NEW block \in [area : Areas, start : Nat, count : Nat, tags : SUBSET mine],
           SoundBlock(block, area), NEW tag \in mine, Fits(block, tag),
           \A other \in block.tags : ~ComesBefore(tag, other)
    PROVE  LET new == Grown(block, tag)
           IN  /\ SoundBlock(new, area) /\ new.tags = block.tags \cup {tag}
               /\ new \in [area : Areas, start : Nat, count : Nat, tags : SUBSET mine]
               /\ new.start = block.start /\ BlockEnd(block) <= BlockEnd(new)
               /\ BlockEnd(new) = EndAddress(tag)
<1> DEFINE new == Grown(block, tag)
           end == BlockEnd(block)
<1>1. /\ tag.address \in Nat /\ Width(tag) \in Nat \ {0} /\ EndAddress(tag) \in Nat
      /\ tag.address <= EndAddress(tag)
      /\ tag.area = area
      /\ MaxCount[area] \in Nat \ {0} /\ MaxGap \in Nat
  BY TagFields
<1>2. /\ block.area = area /\ block.start \in Nat /\ block.count \in Nat \ {0}
      /\ end \in Nat /\ block.start <= end /\ end = block.start + block.count - 1
      /\ block.count <= MaxCount[area]
  BY <1>1 DEF SoundBlock, BlockEnd
<1>3. PICK last \in block.tags : EndAddress(last) = end
  BY DEF SoundBlock
<1>4. /\ last.address <= tag.address /\ end <= EndAddress(tag)
      /\ tag.address <= end => tag.address = last.address /\ EndAddress(tag) = end
  BY <1>3, InOrder
<1>5. Larger(end, EndAddress(tag)) = EndAddress(tag)
  BY <1>1, <1>2, <1>4 DEF Larger
<1>6. /\ tag.address - end - 1 <= MaxGap
      /\ EndAddress(tag) - block.start + 1 <= MaxCount[area]
  BY <1>2, <1>5 DEF Fits
<1>7. /\ new.area = area /\ new.start = block.start
      /\ new.count = EndAddress(tag) - block.start + 1
      /\ new.tags = block.tags \cup {tag}
      /\ DOMAIN new = {"area", "start", "count", "tags"}
      /\ new = [area |-> new.area, start |-> new.start, count |-> new.count, tags |-> new.tags]
  <2>1. new = [block EXCEPT !.count = Larger(end, EndAddress(tag)) - block.start + 1,
                            !.tags = block.tags \cup {tag}]
    BY DEF Grown
  <2> HIDE DEF new, end
  <2>2. new = [area |-> block.area, start |-> block.start,
               count |-> EndAddress(tag) - block.start + 1, tags |-> block.tags \cup {tag}]
    BY <1>5, <2>1
  <2> QED
    BY <1>2, <2>2
<1> HIDE DEF new
<1>8. BlockEnd(new) = EndAddress(tag) /\ new.count \in 1..MaxCount[area]
  BY <1>1, <1>2, <1>4, <1>6, <1>7 DEF BlockEnd
<1>9. block.start <= tag.address
  BY <1>1, <1>2, <1>3, <1>4, TagFields DEF SoundBlock
<1>10. IsLegal(new.tags, area)
  <2> SUFFICES ASSUME NEW low \in Used(new.tags), NEW high \in Used(new.tags)
               PROVE  /\ high - low < MaxCount[area]
                      /\ high - low > MaxGap + 1 =>
                             \E between \in Used(new.tags) : low < between /\ between < high
    BY DEF IsLegal
  <2>1. Used(new.tags) = Used(block.tags) \cup tag.address..EndAddress(tag)
    BY <1>7 DEF Used
  <2>2. \A x \in Used(block.tags) : x \in block.start..end
    BY <1>2, TagFields DEF Used, SoundBlock
  <2>3. end \in Used(block.tags)
    BY <1>2, <1>3, TagFields DEF Used
  <2>4. low \in block.start..EndAddress(tag) /\ high \in block.start..EndAddress(tag)
    BY <1>1, <1>2, <1>4, <1>9, <2>1, <2>2
  <2>5. high - low < MaxCount[area]
    BY <1>1, <1>2, <1>6, <2>4
  <2>6. ASSUME high - low > MaxGap + 1
        PROVE  \E between \in Used(new.tags) : low < between /\ between < high
    <3>1. CASE low \in Used(block.tags) /\ high \in Used(block.tags)
      <4>1. \E between \in Used(block.tags) : low < between /\ between < high
        BY <2>6, <3>1 DEF SoundBlock, IsLegal
      <4> QED
        BY <2>1, <4>1
    <3>2. CASE low \in tag.address..EndAddress(tag)
      <4>1. low < high
        BY <1>1, <2>4, <2>6
      <4>2. high \in tag.address..EndAddress(tag)
        BY <1>1, <2>4, <3>2, <4>1
      <4>3. low + 1 \in tag.address..EndAddress(tag) /\ low < low + 1 /\ low + 1 < high
        BY <1>1, <2>6, <3>2, <4>2
      <4> QED
        BY <2>1, <4>3
    <3>3. CASE low \in Used(block.tags) /\ high \in tag.address..EndAddress(tag)
      <4>1. low \in block.start..end
        BY <2>2, <3>3
      <4>2. CASE low < end /\ end < high
        BY <2>1, <2>3, <4>2
      <4>3. CASE high <= end
        <5>1. tag.address = last.address /\ EndAddress(tag) = EndAddress(last)
          BY <1>1, <1>2, <1>3, <1>4, <3>3, <4>3
        <5>2. high \in Used(block.tags)
          BY <3>3, <5>1 DEF Used
        <5> QED
          BY <3>1, <3>3, <5>2
      <4>4. CASE low = end /\ end < high
        <5>1. tag.address <= low + MaxGap + 1 /\ tag.address < high
          BY <1>1, <1>2, <1>6, <2>6, <3>3, <4>4
        <5>2. tag.address > end
          <6>1. tag.address <= end => high <= end
            BY <1>1, <1>2, <1>4, <3>3
          <6> QED
            BY <1>1, <1>2, <2>4, <4>4, <6>1
        <5> QED
          BY <1>1, <2>1, <4>4, <5>1, <5>2
      <4> QED
        BY <1>2, <2>4, <4>1, <4>2, <4>3, <4>4
    <3> QED
      BY <2>1, <3>1, <3>2, <3>3
  <2> QED
    BY <2>5, <2>6
<1>11. \A t \in new.tags : new.start <= t.address /\ EndAddress(t) <= BlockEnd(new)
  BY <1>1, <1>2, <1>4, <1>7, <1>8, <1>9, TagFields DEF SoundBlock
<1>12. /\ \E t \in new.tags : t.address = new.start
       /\ \E t \in new.tags : EndAddress(t) = BlockEnd(new)
  BY <1>7, <1>8 DEF SoundBlock
<1>13. SoundBlock(new, area)
  BY <1>2, <1>7, <1>8, <1>10, <1>11, <1>12 DEF SoundBlock
<1>14. new \in [area : Areas, start : Nat, count : Nat, tags : SUBSET mine]
  <2>1. new.area \in Areas /\ new.start \in Nat /\ new.count \in Nat /\ new.tags \in SUBSET mine
    BY <1>1, <1>2, <1>7, <1>8 DEF Plannable
  <2> QED
    BY <1>7, <2>1
<1> QED
  BY <1>4, <1>7, <1>8, <1>13, <1>14 DEF new

(* The tag that closes a block is out of its reach, and so are all after.  *)
LEMMA AllBeyond ==
    ASSUME NEW area, NEW mine, Plannable(mine, area),
           NEW block \in [area : Areas, start : Nat, count : Nat, tags : SUBSET mine],
           SoundBlock(block, area), NEW left \in SUBSET mine,
           \A t \in mine \ left :
               EndAddress(t) <= BlockEnd(block) /\ \A other \in left : ~ComesBefore(other, t),
           NEW first \in left, \A other \in left : ~ComesBefore(other, first),
           ~Fits(block, first), NEW tag \in left
    PROVE  OutOfReach(block, tag, mine)
<1>1. /\ first.address \in Nat /\ EndAddress(first) \in Nat
      /\ first.address <= EndAddress(first)
      /\ tag.address \in Nat /\ EndAddress(tag) \in Nat
      /\ MaxCount[area] \in Nat \ {0} /\ MaxGap \in Nat
  BY TagFields
<1>2. /\ block.area = area /\ block.start \in Nat /\ block.count \in Nat
      /\ BlockEnd(block) \in Int /\ BlockEnd(block) - block.start + 1 <= MaxCount[area]
  BY <1>1 DEF SoundBlock, BlockEnd
<1>3. first.address <= tag.address /\ EndAddress(first) <= EndAddress(tag)
  BY InOrder
<1>4. CASE first.address - BlockEnd(block) - 1 > MaxGap
  <2>1. \A t \in mine : EndAddress(t) <= BlockEnd(block) \/ first.address <= t.address
    BY InOrder
  <2>2. BlockEnd(block) + MaxGap + 1 < first.address
    BY <1>1, <1>2, <1>4
  <2> QED
    BY <1>1, <1>3, <2>1, <2>2 DEF OutOfReach
<1>5. CASE Larger(BlockEnd(block), EndAddress(first)) - block.start + 1 > MaxCount[area]
  <2>1. EndAddress(first) - block.start + 1 > MaxCount[area]
    BY <1>1, <1>2, <1>5 DEF Larger
  <2>2. EndAddress(tag) - block.start >= MaxCount[area]
    BY <1>1, <1>2, <1>3, <2>1
  <2> QED
    BY <1>2, <2>2 DEF OutOfReach
<1>6. Larger(BlockEnd(block), EndAddress(first)) \in Int
  BY <1>1, <1>2 DEF Larger
<1> QED
  BY <1>1, <1>2, <1>4, <1>5, <1>6 DEF Fits

(* Sound blocks extended by the first of the tags left are sound.          *)
LEMMA OneMoreIsSound ==
    ASSUME NEW area, NEW mine, Plannable(mine, area), NEW blocks, NEW left,
           SoundBlocks(blocks, left, area, mine), left # {}
    PROVE  LET first == FirstOf(left)
           IN  /\ first \in left
               /\ SoundBlocks(Extended(blocks, first), left \ {first}, area, mine)
<1> DEFINE first == FirstOf(left)
           rest == left \ {first}
           Block == [area : Areas, start : Nat, count : Nat, tags : SUBSET mine]
           m == Len(blocks)
<1>1. left \in SUBSET mine /\ blocks \in Seq(Block) /\ m \in Nat
  BY DEF SoundBlocks
<1>2. first \in left /\ first \in mine /\ \A other \in left : ~ComesBefore(other, first)
  BY <1>1, FirstIsFirst
<1> HIDE DEF first
<1>3. \A i \in 1..m :
          /\ blocks[i] \in Block /\ SoundBlock(blocks[i], area)
          /\ blocks[i].tags \subseteq mine /\ blocks[i].tags \cap left = {}
          /\ \A j \in i + 1..m :
                 /\ blocks[i].tags \cap blocks[j].tags = {}
                 /\ \A tag \in blocks[j].tags : OutOfReach(blocks[i], tag, mine)
          /\ i < m => \A tag \in left : OutOfReach(blocks[i], tag, mine)
  <2> HIDE DEF Block
  <2>1. \A i \in 1..m : blocks[i] \in Block
    BY <1>1, ElementOfSeq
  <2>2. \A b \in Block : b.tags \subseteq mine
    BY DEF Block
  <2> QED
    BY <1>1, <2>1, <2>2 DEF SoundBlocks
<1>4. \A tag \in mine \ left :
          /\ \E i \in 1..m : tag \in blocks[i].tags
          /\ EndAddress(tag) <= BlockEnd(blocks[m])
          /\ \A other \in left : ~ComesBefore(other, tag)
  BY DEF SoundBlocks
<1>5. \A tag \in mine \ left : EndAddress(tag) <= EndAddress(first)
  BY <1>1, <1>2, <1>4, InOrder
<1>6. m > 0 => Last(blocks) = blocks[m]
  BY <1>1 DEF Last
<1>7. blocks = <<>> <=> m = 0
  BY <1>1, EmptySeq
<1>8. \A tag \in mine \ rest : \A other \in rest : ~ComesBefore(other, tag)
  BY <1>2, <1>4
<1>9. CASE blocks # <<>> /\ Fits(Last(blocks), first)
  <2> DEFINE grown == Grown(blocks[m], first)
             new == [blocks EXCEPT ![m] = grown]
  <2>1. Extended(blocks, first) = new
    BY <1>6, <1>7, <1>9 DEF Extended
  <2>2. m \in 1..m
    BY <1>1, <1>7, <1>9
  <2>3. Fits(blocks[m], first) /\ blocks[m] \in Block
    BY <1>3, <1>6, <1>9, <2>2
  <2>4. \A other \in blocks[m].tags : ~ComesBefore(first, other)
    BY <1>2, <1>3, <1>4, <2>2
  <2>5. /\ SoundBlock(grown, area) /\ grown.tags = blocks[m].tags \cup {first}
        /\ grown \in Block
        /\ grown.start = blocks[m].start /\ BlockEnd(grown) = EndAddress(first)
    BY <1>2, <1>3, <2>2, <2>3, <2>4, GrownIsSound
  <2> HIDE DEF grown
  <2>6. /\ new \in Seq(Block) /\ Len(new) = m /\ new[m] = grown
        /\ \A i \in 1..m : i # m => new[i] = blocks[i]
    BY <1>1, <2>2, <2>5
  <2> HIDE DEF new
  <2>7. ASSUME NEW i \in 1..m
        PROVE  /\ SoundBlock(new[i], area)
               /\ new[i].tags \cap rest = {}
               /\ \A j \in i + 1..m :
                      /\ new[i].tags \cap new[j].tags = {}
                      /\ \A tag \in new[j].tags : OutOfReach(new[i], tag, mine)
               /\ i < m => \A tag \in rest : OutOfReach(new[i], tag, mine)
    <3>1. SoundBlock(new[i], area) /\ new[i].tags \cap rest = {}
      BY <1>3, <2>5, <2>6
    <3>2. i < m => /\ new[i] = blocks[i]
                   /\ \A tag \in left : OutOfReach(new[i], tag, mine)
      BY <1>3, <2>6
    <3>3. ASSUME NEW j \in i + 1..m
          PROVE  /\ new[i].tags \cap new[j].tags = {}
                 /\ \A tag \in new[j].tags : OutOfReach(new[i], tag, mine)
      <4>1. i < m /\ j \in 1..m
        OBVIOUS
      <4>2. new[j].tags \subseteq blocks[j].tags \cup {first}
        BY <2>5, <2>6, <4>1
      <4>3. /\ blocks[i].tags \cap blocks[j].tags = {} /\ first \notin blocks[i].tags
            /\ \A tag \in blocks[j].tags : OutOfReach(blocks[i], tag, mine)
        BY <1>2, <1>3
      <4> QED
        BY <1>2, <3>2, <4>1, <4>2, <4>3
    <3> QED
      BY <1>2, <3>1, <3>2, <3>3
  <2>8. ASSUME NEW tag \in mine \ rest
        PROVE  (\E i \in 1..m : tag \in new[i].tags) /\ EndAddress(tag) <= BlockEnd(new[m])
    <3>1. CASE tag = first
      BY <1>2, <2>2, <2>5, <2>6, <3>1, TagFields
    <3>2. CASE tag # first
      <4>1. PICK i \in 1..m : tag \in blocks[i].tags
        BY <1>4, <3>2
      <4>2. tag \in new[i].tags
        BY <2>5, <2>6, <4>1
      <4> QED
        BY <1>5, <2>5, <2>6, <3>2, <4>2
    <3> QED
      BY <3>1, <3>2
  <2>9. SoundBlocks(new, rest, area, mine)
    BY <1>1, <1>8, <2>6, <2>7, <2>8 DEF SoundBlocks
  <2> QED
    BY <1>2, <2>1, <2>9 DEF first
<1>10. CASE ~(blocks # <<>> /\ Fits(Last(blocks), first))
  <2> DEFINE block == NewBlock(first)
             new == Append(blocks, block)
  <2>1. Extended(blocks, first) = new
    BY <1>10 DEF Extended
  <2>2. SoundBlock(block, area) /\ BlockEnd(block) = EndAddress(first)
    BY <1>2, NewIsSound
  <2>3. block \in Block /\ block.tags = {first}
    BY <1>2, TagFields DEF NewBlock, Plannable
  <2> HIDE DEF block
  <2>4. /\ new \in Seq(Block) /\ Len(new) = m + 1 /\ new[m + 1] = block
        /\ \A i \in 1..m : new[i] = blocks[i]
    BY <1>1, <2>3
  <2> HIDE DEF new
  <2>5. ASSUME NEW i \in 1..m PROVE \A tag \in left : OutOfReach(blocks[i], tag, mine)
    <3>1. CASE i < m
      BY <1>3, <3>1
    <3>2. CASE i = m
      <4>1. ~Fits(blocks[m], first)
        BY <1>6, <1>7, <1>10, <3>2
      <4> QED
        BY <1>1, <1>2, <1>3, <1>4, <3>2, <4>1, AllBeyond
    <3> QED
      BY <3>1, <3>2
  <2>6. ASSUME NEW i \in 1..m + 1
        PROVE  /\ SoundBlock(new[i], area)
               /\ new[i].tags \cap rest = {}
               /\ \A j \in i + 1..m + 1 :
                      /\ new[i].tags \cap new[j].tags = {}
                      /\ \A tag \in new[j].tags : OutOfReach(new[i], tag, mine)
               /\ i < m + 1 => \A tag \in rest : OutOfReach(new[i], tag, mine)
    <3>1. CASE i = m + 1
      <4>1. SoundBlock(new[i], area) /\ new[i].tags \cap rest = {}
        BY <2>2, <2>3, <2>4, <3>1
      <4> QED
        BY <3>1, <4>1
    <3>2. CASE i \in 1..m
      <4>1. new[i] = blocks[i]
        BY <2>4, <3>2
      <4>2. SoundBlock(new[i], area) /\ new[i].tags \cap left = {}
        BY <1>3, <3>2, <4>1
      <4>3. \A tag \in left : OutOfReach(new[i], tag, mine)
        BY <2>5, <3>2, <4>1
      <4>4. ASSUME NEW j \in i + 1..m + 1
            PROVE  /\ new[i].tags \cap new[j].tags = {}
                   /\ \A tag \in new[j].tags : OutOfReach(new[i], tag, mine)
        <5>1. CASE j = m + 1
          <6>1. new[j].tags = {first}
            BY <2>3, <2>4, <5>1
          <6>2. new[i].tags \cap new[j].tags = {}
            BY <1>2, <4>2, <6>1
          <6>3. \A tag \in new[j].tags : OutOfReach(new[i], tag, mine)
            BY <1>2, <4>3, <6>1
          <6> QED
            BY <6>2, <6>3
        <5>2. CASE j \in i + 1..m
          <6>1. new[j] = blocks[j]
            BY <2>4, <3>2, <5>2
          <6> QED
            BY <1>3, <3>2, <4>1, <5>2, <6>1
        <5> QED
          BY <5>1, <5>2
      <4> QED
        BY <4>2, <4>3, <4>4
    <3> QED
      BY <3>1, <3>2
  <2>7. ASSUME NEW tag \in mine \ rest
        PROVE  /\ \E i \in 1..m + 1 : tag \in new[i].tags
               /\ EndAddress(tag) <= BlockEnd(new[m + 1])
    <3>1. CASE tag = first
      <4>1. m + 1 \in 1..m + 1 /\ tag \in new[m + 1].tags
        BY <1>1, <2>3, <2>4, <3>1
      <4> QED
        BY <1>2, <2>2, <2>4, <3>1, <4>1, TagFields
    <3>2. CASE tag # first
      <4>1. PICK i \in 1..m : tag \in blocks[i].tags
        BY <1>4, <3>2
      <4>2. i \in 1..m + 1 /\ tag \in new[i].tags
        BY <2>4, <4>1
      <4> QED
        BY <1>5, <2>2, <2>4, <3>2, <4>2
    <3> QED
      BY <3>1, <3>2
  <2>8. SoundBlocks(new, rest, area, mine)
    BY <1>1, <1>8, <2>4, <2>6, <2>7 DEF SoundBlocks
  <2> QED
    BY <1>2, <2>1, <2>8 DEF first
<1> QED
  BY <1>9, <1>10

(* The blocks of an area are sound, and every tag of it is in one.         *)
LEMMA PlanIsSound ==
    ASSUME NEW map, IsFiniteSet(map), map \subseteq Tag, IsValid(map), NEW area \in Areas
    PROVE  LET mine == {tag \in map : tag.area = area}
           IN  Plannable(mine, area) /\ SoundBlocks(BlocksOf(map, area), {}, area, mine)
<1> DEFINE mine == {tag \in map : tag.area = area}
           m == Cardinality(mine)
<1>1. mine \subseteq map /\ IsFiniteSet(mine) /\ m \in Nat
  BY FS_Subset, FS_CardinalityType
<1>2. Plannable(mine, area)
  BY <1>1 DEF Plannable, IsValid
<1>3. PICK f : AreStages(f, mine, m) /\ BlocksOf(map, area) = f[m].blocks
  BY PlanIsLastStage
<1> HIDE DEF mine, m
<1> DEFINE S == {n \in Nat : n <= m =>
                    /\ SoundBlocks(f[n].blocks, f[n].left, area, mine)
                    /\ IsFiniteSet(f[n].left) /\ Cardinality(f[n].left) = m - n}
<1>4. 0 \in S
  <2>1. f[0] = AtFirst(mine)
    BY <1>1, <1>3 DEF AreStages
  <2>2. SoundBlocks(<<>>, mine, area, mine)
    BY DEF SoundBlocks
  <2> QED
    BY <1>1, <2>1, <2>2 DEF AtFirst, m
<1>5. ASSUME NEW n \in Nat, n \in S PROVE n + 1 \in S
  <2> SUFFICES ASSUME n + 1 <= m
               PROVE  /\ SoundBlocks(f[n + 1].blocks, f[n + 1].left, area, mine)
                      /\ IsFiniteSet(f[n + 1].left) /\ Cardinality(f[n + 1].left) = m - (n + 1)
    OBVIOUS
  <2> DEFINE left == f[n].left
  <2>1. /\ SoundBlocks(f[n].blocks, left, area, mine)
        /\ IsFiniteSet(left) /\ Cardinality(left) = m - n
    BY <1>1, <1>5
  <2>2. left # {}
    BY <1>1, <2>1, FS_EmptySet
  <2>3. f[n + 1] = OneMore(f[n])
    BY <1>1, <1>3 DEF AreStages
  <2>4. /\ f[n + 1].blocks = Extended(f[n].blocks, FirstOf(left))
        /\ f[n + 1].left = left \ {FirstOf(left)}
    BY <2>3 DEF OneMore
  <2>5. /\ FirstOf(left) \in left
        /\ SoundBlocks(f[n + 1].blocks, f[n + 1].left, area, mine)
    BY <1>2, <2>1, <2>2, <2>4, OneMoreIsSound
  <2>6. /\ IsFiniteSet(left \ {FirstOf(left)})
        /\ Cardinality(left \ {FirstOf(left)}) = Cardinality(left) - 1
    <3> DEFINE first == FirstOf(left)
    <3> HIDE DEF first
    <3>1. /\ IsFiniteSet(left \ {first})
          /\ Cardinality(left \ {first}) =
                 IF first \in left THEN Cardinality(left) - 1 ELSE Cardinality(left)
      BY <2>1, FS_RemoveElement
    <3> QED
      BY <2>5, <3>1 DEF first
  <2> QED
    BY <1>1, <2>1, <2>4, <2>5, <2>6
<1> HIDE DEF S
<1>6. m \in S
  BY <1>1, <1>4, <1>5, InductiveSet
<1>7. /\ SoundBlocks(f[m].blocks, f[m].left, area, mine)
      /\ IsFiniteSet(f[m].left) /\ Cardinality(f[m].left) = m - m
  BY <1>1, <1>6 DEF S
<1>8. f[m].left = {}
  BY <1>1, <1>7, FS_EmptySet
<1>9. Plannable(mine, area) /\ SoundBlocks(BlocksOf(map, area), {}, area, mine)
  BY <1>2, <1>3, <1>7, <1>8
<1> QED
  BY <1>9 DEF mine

(* No legal read has both the start of a block and a tag out of its reach. *)
LEMMA NeverTogether ==
    ASSUME NEW area, NEW mine, Plannable(mine, area), NEW block, SoundBlock(block, area),
           NEW start \in mine, start.address = block.start,
           EndAddress(start) <= BlockEnd(block),
           NEW tag \in mine, OutOfReach(block, tag, mine),
           NEW some \in SUBSET mine, start \in some, tag \in some
    PROVE  ~IsLegal(some, area)
<1> SUFFICES ASSUME IsLegal(some, area) PROVE FALSE
  OBVIOUS
<1>1. /\ start.address \in Nat /\ EndAddress(start) \in Nat
      /\ start.address <= EndAddress(start)
      /\ tag.address \in Nat /\ EndAddress(tag) \in Nat
      /\ tag.address <= EndAddress(tag)
      /\ MaxCount[area] \in Nat \ {0} /\ MaxGap \in Nat
  BY TagFields
<1>2. block.area = area /\ block.start \in Nat /\ BlockEnd(block) \in Int
  BY <1>1 DEF SoundBlock, BlockEnd
<1>3. /\ start.address \in Used(some) /\ tag.address \in Used(some)
      /\ EndAddress(start) \in Used(some) /\ EndAddress(tag) \in Used(some)
  BY <1>1 DEF Used
<1>4. Used(some) \subseteq Nat
  BY UsedIsInt
<1>5. CASE EndAddress(tag) - block.start >= MaxCount[block.area]
  <2>1. EndAddress(tag) - start.address < MaxCount[area]
    BY <1>3 DEF IsLegal
  <2> QED
    BY <1>1, <1>2, <1>5, <2>1
<1>6. ASSUME NEW next \in Nat,
             BlockEnd(block) + MaxGap + 1 < next, next <= tag.address,
             \A t \in mine : EndAddress(t) <= BlockEnd(block) \/ next <= t.address
      PROVE  FALSE
  <2> DEFINE end == BlockEnd(block)
  <2>1. \A x \in Used(some) : x <= end \/ next <= x
    <3> SUFFICES ASSUME NEW t \in some, NEW x \in t.address..EndAddress(t)
                 PROVE  x <= end \/ next <= x
      BY DEF Used
    <3>1. t.address \in Nat /\ EndAddress(t) \in Nat
      BY TagFields
    <3> QED
      BY <1>2, <1>6, <3>1
  <2> HIDE DEF end
  <2>2. end \in Int
    BY <1>2 DEF end
  <2> DEFINE Above == {x \in Used(some) : next <= x}
             Below == {y \in Nat : end - y \in Used(some)}
  <2>3. Above \in SUBSET Nat /\ Above # {}
    BY <1>3, <1>4, <1>6
  <2>4. PICK high \in Above : \A x \in Above : high <= x
    <3> HIDE DEF Above
    <3> QED
      BY <2>3, LeastNumber
  <2>5. Below \in SUBSET Nat /\ Below # {}
    <3>1. EndAddress(start) <= end
      BY DEF end
    <3>2. end - EndAddress(start) \in Below
      BY <1>1, <1>3, <2>2, <3>1
    <3> QED
      BY <3>2
  <2>6. PICK y \in Below : \A z \in Below : y <= z
    <3> HIDE DEF Below
    <3> QED
      BY <2>5, LeastNumber
  <2> DEFINE low == end - y
  <2>7. low \in Used(some) /\ low \in Nat /\ low <= end
    BY <1>4, <2>2, <2>6
  <2>8. high \in Used(some) /\ high \in Nat /\ next <= high
    BY <1>4, <2>4
  <2>9. high - low > MaxGap + 1
    BY <1>1, <1>6, <2>2, <2>7, <2>8 DEF end
  <2> HIDE DEF low
  <2>10. PICK between \in Used(some) : low < between /\ between < high
    BY <2>7, <2>8, <2>9 DEF IsLegal
  <2>11. CASE between <= end
    <3>1. end - between \in Below /\ end - between \in Nat
      BY <1>4, <2>2, <2>10, <2>11
    <3>2. y <= end - between
      BY <2>6, <3>1
    <3> QED
      BY <1>4, <2>2, <2>6, <2>10, <3>2 DEF low
  <2>12. CASE next <= between
    <3>1. between \in Above
      BY <2>10, <2>12
    <3>2. high <= between
      BY <2>4, <3>1
    <3> QED
      BY <1>4, <2>8, <2>10, <3>2
  <2> QED
    BY <2>1, <2>10, <2>11, <2>12
<1> QED
  BY <1>5, <1>6 DEF OutOfReach

(* coalesce_blocks returns legal reads, each tag wholly inside just one of *)
(* them, and no plan of legal reads for these tags has fewer: of any two   *)
(* of its blocks, the tags they start with need a read each.               *)
LEMMA FewestBlocks ==
    ASSUME NEW map, IsFiniteSet(map), map \subseteq Tag, IsValid(map), NEW area \in Areas
    PROVE  LET mine == {tag \in map : tag.area = area}
               blocks == BlocksOf(map, area)
           IN  /\ \A i \in DOMAIN blocks :
                      /\ IsLegal(blocks[i].tags, area)
                      /\ Used(blocks[i].tags) \subseteq blocks[i].start..BlockEnd(blocks[i])
               /\ \A tag \in mine : Cardinality({i \in DOMAIN blocks : tag \in blocks[i].tags}) = 1
               /\ Len(blocks) > 0 =>
                      ~\E plan \in [mine -> 1..Len(blocks) - 1] :
                          \A n \in 1..Len(blocks) - 1 :
                              IsLegal({tag \in mine : plan[tag] = n}, area)
<1> DEFINE mine == {tag \in map : tag.area = area}
           blocks == BlocksOf(map, area)
           m == Len(blocks)
           Block == [area : Areas, start : Nat, count : Nat, tags : SUBSET mine]
<1>1. Plannable(mine, area) /\ SoundBlocks(blocks, {}, area, mine)
  BY PlanIsSound
<1> HIDE DEF mine, blocks
<1>2. blocks \in Seq(Block) /\ m \in Nat /\ DOMAIN blocks = 1..m
  BY <1>1 DEF SoundBlocks
<1>3. \A i \in 1..m :
          /\ SoundBlock(blocks[i], area) /\ blocks[i].tags \subseteq mine
          /\ \A j \in i + 1..m :
                 /\ blocks[i].tags \cap blocks[j].tags = {}
                 /\ \A tag \in blocks[j].tags : OutOfReach(blocks[i], tag, mine)
  <2> HIDE DEF Block
  <2>1. \A i \in 1..m : blocks[i] \in Block
    BY <1>2, ElementOfSeq
  <2>2. \A b \in Block : b.tags \subseteq mine
    BY DEF Block
  <2> QED
    BY <1>1, <2>1, <2>2 DEF SoundBlocks
<1>4. \A tag \in mine : \E i \in 1..m : tag \in blocks[i].tags
  BY <1>1 DEF SoundBlocks
<1>5. ASSUME NEW i \in 1..m
      PROVE  /\ IsLegal(blocks[i].tags, area)
             /\ Used(blocks[i].tags) \subseteq blocks[i].start..BlockEnd(blocks[i])
  <2>1. SoundBlock(blocks[i], area) /\ blocks[i].tags \subseteq mine
    BY <1>3
  <2>2. blocks[i].start \in Nat /\ BlockEnd(blocks[i]) \in Int
    BY <2>1, TagMapAssumption DEF SoundBlock, BlockEnd
  <2>3. ASSUME NEW t \in blocks[i].tags, NEW x \in t.address..EndAddress(t)
        PROVE  x \in blocks[i].start..BlockEnd(blocks[i])
    <3>1. t.address \in Nat /\ EndAddress(t) \in Nat
      BY <1>1, <2>1, TagFields
    <3> QED
      BY <2>1, <2>2, <3>1 DEF SoundBlock
  <2> QED
    BY <2>1, <2>3 DEF SoundBlock, Used
<1>6. ASSUME NEW tag \in mine
      PROVE  Cardinality({i \in 1..m : tag \in blocks[i].tags}) = 1
  <2>1. PICK i \in 1..m : tag \in blocks[i].tags
    BY <1>4
  <2>2. ASSUME NEW j \in 1..m, tag \in blocks[j].tags PROVE j = i
    <3>1. j \in i + 1..m => FALSE
      BY <1>3, <2>1, <2>2
    <3>2. i \in j + 1..m => FALSE
      BY <1>3, <2>1, <2>2
    <3> QED
      BY <1>2, <3>1, <3>2
  <2>3. {j \in 1..m : tag \in blocks[j].tags} = {i}
    BY <2>1, <2>2
  <2> QED
    BY <2>3, FS_Singleton
<1>7. ASSUME m > 0, NEW plan \in [mine -> 1..m - 1],
             \A n \in 1..m - 1 : IsLegal({tag \in mine : plan[tag] = n}, area)
      PROVE  FALSE
  <2> DEFINE start == [i \in 1..m |-> CHOOSE tag \in blocks[i].tags : tag.address = blocks[i].start]
             read == [i \in 1..m |-> plan[start[i]]]
  <2>1. \A i \in 1..m : start[i] \in blocks[i].tags /\ start[i].address = blocks[i].start
    BY <1>3 DEF SoundBlock
  <2> HIDE DEF start
  <2>2. \A i \in 1..m : start[i] \in mine
    BY <1>3, <2>1
  <2>3. read \in [1..m -> 1..m - 1]
    BY <2>2
  <2>4. /\ IsFiniteSet(1..m) /\ Cardinality(1..m) = m
        /\ IsFiniteSet(1..m - 1) /\ Cardinality(1..m - 1) < m
    <3>1. \A k \in Int : IsFiniteSet(1..k) /\ Cardinality(1..k) = IF 1 > k THEN 0 ELSE k - 1 + 1
      BY FS_Interval
    <3>2. m \in Int /\ m - 1 \in Int
      BY <1>2
    <3> QED
      BY <1>2, <1>7, <3>1, <3>2
  <2>5. \E i, j \in 1..m : i # j /\ read[i] = read[j]
    <3> HIDE DEF read
    <3> QED
      BY <2>3, <2>4, FS_PigeonHole
  <2>6. PICK i \in 1..m, j \in 1..m : i < j /\ read[i] = read[j]
    BY <1>2, <2>5
  <2> DEFINE n == read[i]
             some == {tag \in mine : plan[tag] = n}
  <2>7. n \in 1..m - 1 /\ start[i] \in some /\ start[j] \in some
    BY <2>2, <2>3, <2>6
  <2>8. OutOfReach(blocks[i], start[j], mine)
    <3>1. j \in i + 1..m
      BY <1>2, <2>6
    <3> QED
      BY <1>3, <2>1, <3>1
  <2>9. SoundBlock(blocks[i], area) /\ EndAddress(start[i]) <= BlockEnd(blocks[i])
    BY <1>3, <2>1 DEF SoundBlock
  <2>10. IsLegal(some, area)
    BY <1>7, <2>7
  <2>11. some \in SUBSET mine
    OBVIOUS
  <2> HIDE DEF some, n
  <2> QED
    BY <1>1, <2>1, <2>2, <2>7, <2>8, <2>9, <2>10, <2>11, NeverTogether
<1> QED
  BY <1>2, <1>5, <1>6, <1>7 DEF mine, blocks

-----------------------------------------------------------------------------
(* The state of driver and device                                          *)

(* What a register or a coil can hold.                                     *)
Cell(area) == IF IsBitArea(area) THEN {0, 1} ELSE Register

(* The image of the device is whole.                                       *)
ImageOK(held) ==
    /\ held = [area \in Areas |-> held[area]]
    /\ \A area \in Areas : held[area] \in [0..Sizes[area] - 1 -> Cell(area)]

(* Blocks of the tags of a map, none of which begins after one of its tags.*)
BlocksFor(map) ==
    {block \in [area : Areas, start : Nat, count : Nat, tags : SUBSET map] :
        \A tag \in block.tags : tag.area = block.area /\ block.start <= tag.address}

(* A bit write under way is of a bit that there is.                        *)
PendingOK ==
    pending = None \/
        /\ connected
        /\ pending.tag \in tags /\ pending.tag.area = "holding" /\ pending.tag.bit # None
        /\ pending.value \in {0, 1}
        /\ pending.word \in Register

(* The inductive invariant: types, that a read under way has answered or   *)
(* still asks for every tag, in blocks that do not begin after their tags, *)
(* and that a bit write under way is of a register that has bits.          *)
Inv ==
    /\ tags \in Maps /\ IsValid(tags)
    /\ ImageOK(image)
    /\ connected \in BOOLEAN
    /\ todo \in Seq(BlocksFor(tags))
    /\ DOMAIN out \subseteq tags
    /\ todo # <<>> => \A tag \in tags :
           tag \in DOMAIN out \/ \E i \in 1..Len(todo) : tag \in todo[i].tags
    /\ PendingOK
    /\ process = None \/ process \in Processes
    /\ events \in 0..MaxEvents

(* What the fields of a tag of a valid map are, and that the device has    *)
(* its registers.                                                          *)
LEMMA TagIs ==
    ASSUME tags \in Maps, IsValid(tags), NEW tag \in tags
    PROVE  /\ tag.area \in Areas /\ tag.type \in Types
           /\ tag.word \in Orders /\ tag.byte \in Orders
           /\ tag.scale \in Int /\ tag.scale # 0 /\ tag.offset \in Int
           /\ tag.bit = None \/ (tag.bit \in Bits /\ tag.type = "bool")
           /\ tag.address \in Nat /\ Width(tag) \in {1, 2}
           /\ EndAddress(tag) = tag.address + Width(tag) - 1
           /\ EndAddress(tag) \in 0..Sizes[tag.area] - 1 /\ Sizes[tag.area] \in Nat
           /\ tag.address \in 0..Sizes[tag.area] - 1
<1>1. tag \in Tag /\ FieldsAreSound(tag) /\ EndAddress(tag) < Sizes[tag.area]
  BY ModbusAssumption DEF IsValid
<1>2. tag.area \in Areas /\ Sizes[tag.area] \in Nat
  BY <1>1, ModbusAssumption DEF Tag
<1>3. Width(tag) \in {1, 2}
  BY DEF Width, RegisterCount
<1>4. tag.address \in Nat
  BY <1>1 DEF Tag, FieldsAreSound
<1>5. EndAddress(tag) = tag.address + Width(tag) - 1
  BY DEF EndAddress
<1>6. /\ tag.type \in Types /\ tag.word \in Orders /\ tag.byte \in Orders
      /\ tag.scale \in Int /\ tag.scale # 0 /\ tag.offset \in Int
      /\ tag.bit = None \/ (tag.bit \in Bits /\ tag.type = "bool")
  BY <1>1 DEF Tag, FieldsAreSound
<1> QED
  BY <1>1, <1>2, <1>3, <1>4, <1>5, <1>6

(* Tags of one area are apart, or bits of one word.                        *)
LEMMA TagsApart ==
    ASSUME tags \in Maps, IsValid(tags), NEW a \in tags, NEW b \in tags, a # b,
           a.area = b.area
    PROVE  \/ EndAddress(a) < b.address
           \/ EndAddress(b) < a.address
           \/ a.address = b.address /\ a.bit # None /\ b.bit # None /\ a.bit # b.bit
<1>1. /\ a.address \in Nat /\ EndAddress(a) \in Int /\ b.address \in Nat /\ EndAddress(b) \in Int
      /\ a.address <= EndAddress(a) /\ b.address <= EndAddress(b)
  BY TagIs
<1>2. ~Overlap(a, b) /\ ~Overlap(b, a)
  BY DEF IsValid
<1> QED
  BY <1>1, <1>2 DEF Overlap, BitsAreDisjoint

(* In new there are n registers regs from start, and the rest is as it was.*)
IsStored(new, area, start, n, regs) ==
    \A other \in Areas : \A address \in 0..Sizes[other] - 1 :
        new[other][address] = IF other = area /\ address \in start..start + n - 1
                              THEN regs[address - start + 1] ELSE image[other][address]

(* What is written to the device is there, and the rest as it was.         *)
LEMMA StoredIs ==
    ASSUME ImageOK(image), NEW area \in Areas, NEW start \in Nat, NEW n \in Nat,
           NEW regs \in [1..n -> Cell(area)], NEW new, new = Stored(area, start, regs)
    PROVE  ImageOK(new) /\ IsStored(new, area, start, n, regs)
<1> DEFINE row == [address \in 0..Sizes[area] - 1 |->
                      IF address \in start..start + n - 1
                      THEN regs[address - start + 1] ELSE image[area][address]]
<1>1. Len(regs) = n
  BY LenIs
<1>2. Sizes[area] \in Nat /\ image[area] \in [0..Sizes[area] - 1 -> Cell(area)]
  BY ModbusAssumption DEF ImageOK
<1>3. new = [image EXCEPT ![area] = row]
  <2>1. DOMAIN image[area] = 0..Sizes[area] - 1
    BY <1>2
  <2> QED
    BY <1>1, <2>1 DEF Stored
<1>4. row \in [0..Sizes[area] - 1 -> Cell(area)]
  <2>1. ASSUME NEW address \in 0..Sizes[area] - 1 PROVE row[address] \in Cell(area)
    <3>1. CASE address \in start..start + n - 1
      <4>1. address - start + 1 \in 1..n
        BY <1>2, <3>1
      <4> QED
        BY <3>1, <4>1
    <3>2. CASE address \notin start..start + n - 1
      BY <1>2, <3>2
    <3> QED
      BY <3>1, <3>2
  <2> QED
    BY <2>1
<1>5. \A address \in 0..Sizes[area] - 1 :
          row[address] = IF address \in start..start + n - 1
                         THEN regs[address - start + 1] ELSE image[area][address]
  OBVIOUS
<1> HIDE DEF row
<1>6. /\ new = [other \in Areas |-> new[other]] /\ new[area] = row
      /\ \A other \in Areas : other # area => new[other] = image[other]
  BY <1>3 DEF ImageOK
<1>7. ImageOK(new)
  BY <1>4, <1>6 DEF ImageOK
<1> QED
  BY <1>5, <1>6, <1>7 DEF IsStored

(* The registers of a value are those its tag has.                         *)
LEMMA EncodedIs ==
    ASSUME tags \in Maps, IsValid(tags), NEW tag \in tags, NEW value \in Int,
           tag.type = "bool" => value \in {0, 1}
    PROVE  /\ Encoded(tag, value) \in [1..Width(tag) -> Cell(tag.area)]
           /\ ~IsBitArea(tag.area) /\ tag.bit = None =>
                  IsNearest(ToEngineering(DecodeRegisters(Encoded(tag, value), tag), tag), tag, value)
<1>1. /\ tag.type \in Types /\ tag.word \in Orders /\ tag.byte \in Orders
      /\ tag.scale \in Int /\ tag.scale # 0 /\ tag.offset \in Int
      /\ tag.bit = None \/ tag.bit \in Bits
  BY TagIs
<1>2. CASE IsBitArea(tag.area)
  <2>1. Encoded(tag, value) = <<Truth(value)>> /\ Width(tag) = 1 /\ Cell(tag.area) = {0, 1}
    BY <1>2 DEF Encoded, Width, Cell
  <2>2. Truth(value) \in {0, 1}
    BY DEF Truth
  <2> QED
    BY <1>2, <2>1, <2>2
<1>3. CASE ~IsBitArea(tag.area) /\ tag.type = "bool"
  <2>1. Encoded(tag, value) = EncodeBool(value, tag, 0) /\ Width(tag) = 1
    BY <1>3 DEF Encoded, Width, RegisterCount
  <2>2. 0 \in Register
    BY Spans DEF Register
  <2>3. /\ EncodeBool(value, tag, 0) \in [1..1 -> Register]
        /\ tag.bit = None => DecodeRegisters(EncodeBool(value, tag, 0), tag) = value
    BY <1>1, <1>3, <2>2, BoolThereAndBack
  <2> QED
    BY <1>3, <2>1, <2>3 DEF Cell, ToEngineering, IsNearest
<1>4. CASE ~IsBitArea(tag.area) /\ tag.type # "bool"
  <2>1. /\ Encoded(tag, value) = EncodeNumber(value, tag)
        /\ Width(tag) = RegisterCount(tag.type) /\ tag.type \in Numeric
    BY <1>1, <1>4 DEF Encoded, Width, Types, Numeric
  <2>2. /\ EncodeNumber(value, tag) \in [1..RegisterCount(tag.type) -> Register]
        /\ IsNearest(ToEngineering(DecodeRegisters(EncodeNumber(value, tag), tag), tag), tag, value)
    BY <1>1, <2>1, NumberThereAndBack
  <2> QED
    BY <1>4, <2>1, <2>2 DEF Cell
<1> QED
  BY <1>2, <1>3, <1>4

(* coalesce_blocks plans reads of the tags of the map only, and of every   *)
(* one of them.                                                            *)
LEMMA PlannedReads ==
    ASSUME NEW map, IsFiniteSet(map), map \subseteq Tag, IsValid(map)
    PROVE  LET plan == CoalesceBlocks(map)
           IN  /\ plan \in Seq(BlocksFor(map))
               /\ \A tag \in map : \E i \in 1..Len(plan) : tag \in plan[i].tags
<1>1. ASSUME NEW area \in Areas
      PROVE  /\ BlocksOf(map, area) \in Seq(BlocksFor(map))
             /\ \A tag \in map : tag.area = area =>
                    \E i \in 1..Len(BlocksOf(map, area)) : tag \in BlocksOf(map, area)[i].tags
  <2> DEFINE mine == {tag \in map : tag.area = area}
             blocks == BlocksOf(map, area)
             Block == [area : Areas, start : Nat, count : Nat, tags : SUBSET mine]
  <2>1. Plannable(mine, area) /\ SoundBlocks(blocks, {}, area, mine)
    BY PlanIsSound
  <2> HIDE DEF blocks
  <2>2. blocks \in Seq(Block) /\ Len(blocks) \in Nat
    BY <2>1 DEF SoundBlocks
  <2>3. ASSUME NEW i \in 1..Len(blocks) PROVE blocks[i] \in BlocksFor(map)
    <3>1. SoundBlock(blocks[i], area)
      BY <2>1 DEF SoundBlocks
    <3>2. blocks[i] \in Block
      BY <2>2, ElementOfSeq
    <3> QED
      BY <3>1, <3>2 DEF SoundBlock, BlocksFor
  <2>4. blocks \in Seq(BlocksFor(map))
    BY <2>2, <2>3
  <2>5. \A tag \in mine : \E i \in 1..Len(blocks) : tag \in blocks[i].tags
    BY <2>1 DEF SoundBlocks
  <2> QED
    BY <2>4, <2>5 DEF blocks
<1> DEFINE a == BlocksOf(map, "coil")
           b == BlocksOf(map, "holding")
           c == BlocksOf(map, "input")
           plan == CoalesceBlocks(map)
<1>2. a \in Seq(BlocksFor(map)) /\ b \in Seq(BlocksFor(map)) /\ c \in Seq(BlocksFor(map))
  BY <1>1 DEF Areas
<1>3. plan = (a \o b) \o c
  BY DEF CoalesceBlocks
<1>4. \A tag \in map :
          \/ \E i \in 1..Len(a) : tag \in a[i].tags
          \/ \E i \in 1..Len(b) : tag \in b[i].tags
          \/ \E i \in 1..Len(c) : tag \in c[i].tags
  <2>1. \A tag \in map : tag.area \in Areas
    BY DEF Tag
  <2> QED
    BY <1>1, <2>1 DEF Areas
<1> HIDE DEF a, b, c, plan
<1>5. plan \in Seq(BlocksFor(map)) /\ Len(plan) = Len(a) + Len(b) + Len(c)
  BY <1>2, <1>3
<1>6. /\ \A i \in 1..Len(a) : plan[i] = a[i]
      /\ \A i \in 1..Len(b) : plan[Len(a) + i] = b[i]
      /\ \A i \in 1..Len(c) : plan[Len(a) + Len(b) + i] = c[i]
  BY <1>2, <1>3
<1>7. ASSUME NEW tag \in map PROVE \E i \in 1..Len(plan) : tag \in plan[i].tags
  <2>0. Len(a) \in Nat /\ Len(b) \in Nat /\ Len(c) \in Nat
    BY <1>2
  <2>1. ASSUME NEW i \in 1..Len(a), tag \in a[i].tags
        PROVE  \E j \in 1..Len(plan) : tag \in plan[j].tags
    <3>1. i \in 1..Len(plan) /\ plan[i] = a[i]
      BY <1>5, <1>6, <2>0
    <3> QED
      BY <2>1, <3>1
  <2>2. ASSUME NEW i \in 1..Len(b), tag \in b[i].tags
        PROVE  \E j \in 1..Len(plan) : tag \in plan[j].tags
    <3>1. Len(a) + i \in 1..Len(plan) /\ plan[Len(a) + i] = b[i]
      BY <1>5, <1>6, <2>0
    <3> QED
      BY <2>2, <3>1
  <2>3. ASSUME NEW i \in 1..Len(c), tag \in c[i].tags
        PROVE  \E j \in 1..Len(plan) : tag \in plan[j].tags
    <3>1. Len(a) + Len(b) + i \in 1..Len(plan) /\ plan[Len(a) + Len(b) + i] = c[i]
      BY <1>5, <1>6, <2>0
    <3> QED
      BY <2>3, <3>1
  <2> QED
    BY <1>4, <2>1, <2>2, <2>3
<1> QED
  BY <1>5, <1>7 DEF plan

-----------------------------------------------------------------------------
(* What the device renders                                                 *)

(* f has the words after the first bits were put in.                       *)
IsWord(f, area, address, values) ==
    f = [n \in 0..2 * ByteBits |->
            LET named == {bit \in tags : /\ bit.area = area /\ bit.address = address
                                         /\ bit.bit = n - 1}
            IN  IF n = 0 THEN 0
                ELSE IF named = {} THEN f[n - 1]
                ELSE LET bit == CHOOSE bit \in named : TRUE
                     IN  EncodeBool(values[bit], bit, f[n - 1])[1]]

(* There is a word for every number of bits put into it.                   *)
LEMMA WordExists ==
    ASSUME NEW area, NEW address, NEW values
    PROVE  \E f : IsWord(f, area, address, values)
<1> DEFINE named(n) == {bit \in tags : /\ bit.area = area /\ bit.address = address
                                       /\ bit.bit = n - 1}
           put(n, word) == LET bit == CHOOSE bit \in named(n) : TRUE
                           IN  EncodeBool(values[bit], bit, word)[1]
           upTo(m, f) == f = [n \in 0..m |-> IF n = 0 THEN 0
                                             ELSE IF named(n) = {} THEN f[n - 1]
                                             ELSE put(n, f[n - 1])]
           S == {m \in Nat : \E f : upTo(m, f)}
<1> HIDE DEF named, put
<1>1. 0 \in S
  <2>1. upTo(0, [n \in 0..0 |-> 0])
    OBVIOUS
  <2> QED
    BY <2>1
<1>2. ASSUME NEW m \in Nat, m \in S PROVE m + 1 \in S
  <2>1. PICK f : upTo(m, f)
    BY <1>2
  <2> DEFINE g == [n \in 0..m + 1 |-> IF n = m + 1
                                      THEN IF named(m + 1) = {} THEN f[m] ELSE put(m + 1, f[m])
                                      ELSE f[n]]
  <2>2. ASSUME NEW n \in 0..m + 1
        PROVE  g[n] = IF n = 0 THEN 0 ELSE IF named(n) = {} THEN g[n - 1] ELSE put(n, g[n - 1])
    <3>1. CASE n = m + 1
      BY <3>1
    <3>2. CASE n \in 0..m
      <4>1. f[n] = IF n = 0 THEN 0 ELSE IF named(n) = {} THEN f[n - 1] ELSE put(n, f[n - 1])
        BY <2>1, <3>2
      <4>2. n # 0 => n - 1 \in 0..m
        BY <3>2
      <4> QED
        BY <3>2, <4>1, <4>2
    <3> QED
      BY <3>1, <3>2
  <2>3. upTo(m + 1, g)
    BY <2>2
  <2>4. \E h : upTo(m + 1, h)
    <3> HIDE DEF g, upTo
    <3> QED
      BY <2>3
  <2>5. m + 1 \in Nat
    OBVIOUS
  <2> HIDE DEF upTo
  <2> QED
    BY <2>4, <2>5
<1> HIDE DEF S
<1>3. 2 * ByteBits \in S
  <2>1. 2 * ByteBits \in Nat
    BY CodecAssumption
  <2> QED
    BY <1>1, <1>2, <2>1, InductiveSet
<1>4. \E f : upTo(2 * ByteBits, f)
  BY <1>3 DEF S
<1> QED
  BY <1>4 DEF IsWord, named, put

(* WordOf is the end of a recursion over the bits.                         *)
LEMMA WordOfIs ==
    ASSUME NEW tag, NEW values
    PROVE  \E f : /\ IsWord(f, tag.area, tag.address, values)
                  /\ WordOf(tag, values) = f[2 * ByteBits]
<1> DEFINE h == CHOOSE f : IsWord(f, tag.area, tag.address, values)
<1>1. IsWord(h, tag.area, tag.address, values)
  BY WordExists
<1>2. WordOf(tag, values) = h[2 * ByteBits]
  BY DEF WordOf, IsWord
<1> QED
  BY <1>1, <1>2

(* The bits of a word with a given number.                                 *)
Mates(area, address, n) ==
    {bit \in tags : bit.area = area /\ bit.address = address /\ bit.bit = n}

(* Whatever bits a word gets, it is a word; and in byte order "big" each   *)
(* of them is there in the end.                                            *)
LEMMA WordHasItsBits ==
    ASSUME tags \in Maps, IsValid(tags), NEW tag \in tags, tag.bit # None,
           ~IsBitArea(tag.area), NEW values \in Processes
    PROVE  /\ WordOf(tag, values) \in Register
           /\ (\A other \in tags : SharesWord(other, tag) => other.byte = "big") =>
                  BitFromWord(WordOf(tag, values), tag.bit) = values[tag]
<1> DEFINE last == 2 * ByteBits
           big == \A other \in tags : SharesWord(other, tag) => other.byte = "big"
           named(n) == Mates(tag.area, tag.address, n - 1)
<1>1. PICK f : IsWord(f, tag.area, tag.address, values) /\ WordOf(tag, values) = f[last]
  BY WordOfIs
<1>2. last \in Nat /\ tag.bit \in Bits /\ Bits = 0..last - 1
  BY TagIs, CodecAssumption DEF Bits
<1>3. ASSUME NEW n \in 0..last
      PROVE  f[n] = IF n = 0 THEN 0
                    ELSE IF named(n) = {} THEN f[n - 1]
                    ELSE LET bit == CHOOSE bit \in named(n) : TRUE
                         IN  EncodeBool(values[bit], bit, f[n - 1])[1]
  BY <1>1 DEF IsWord, Mates
<1> HIDE DEF named, last
<1>4. ASSUME NEW n \in 1..last, NEW bit \in named(n)
      PROVE  /\ bit \in tags /\ SharesWord(bit, tag) /\ bit.bit = n - 1 /\ bit.bit # None
             /\ bit.bit \in Bits /\ bit.type = "bool" /\ bit.byte \in Orders
             /\ values[bit] \in {0, 1}
             /\ \A other \in named(n) : other = bit
  <2>1. bit \in tags /\ bit.area = tag.area /\ bit.address = tag.address /\ bit.bit = n - 1
    BY <1>4 DEF named, Mates
  <2>2. bit.bit # None
    BY <1>2, <2>1, CodecAssumption
  <2>3. bit.bit \in Bits /\ bit.type = "bool" /\ bit.byte \in Orders
    BY <2>1, <2>2, TagIs
  <2>4. values[bit] \in {0, 1}
    BY <2>1, <2>3 DEF Processes, Signals
  <2>5. ASSUME NEW other \in named(n), other # bit PROVE FALSE
    <3>1. /\ other \in tags /\ other.area = tag.area /\ other.address = tag.address
          /\ other.bit = n - 1
      BY <2>5 DEF named, Mates
    <3>2. /\ bit.address \in Nat /\ Width(bit) \in {1, 2}
          /\ EndAddress(bit) = bit.address + Width(bit) - 1
          /\ other.address \in Nat /\ Width(other) \in {1, 2}
          /\ EndAddress(other) = other.address + Width(other) - 1
      BY <2>1, <3>1, TagIs
    <3> QED
      BY <2>1, <2>5, <3>1, <3>2, TagsApart
  <2> QED
    BY <2>1, <2>2, <2>3, <2>4, <2>5 DEF SharesWord
<1> DEFINE Ok(n) == /\ f[n] \in Register
                    /\ big => \A bit \in tags :
                           SharesWord(bit, tag) /\ bit.bit \in 0..n - 1 =>
                               BitFromWord(f[n], bit.bit) = values[bit]
           S == {n \in Nat : n <= last => Ok(n)}
<1>5. 0 \in S
  <2>1. f[0] = 0 /\ 0 \in Register
    BY <1>2, <1>3, Spans DEF Register
  <2> QED
    BY <2>1
<1>6. ASSUME NEW n \in Nat, n \in S PROVE n + 1 \in S
  <2> SUFFICES ASSUME n + 1 <= last PROVE Ok(n + 1)
    OBVIOUS
  <2>1. Ok(n) /\ n + 1 \in 1..last /\ n + 1 \in 0..last /\ n + 1 # 0 /\ (n + 1) - 1 = n
    BY <1>2, <1>6
  <2>2. CASE named(n + 1) = {}
    <3>1. f[n + 1] = f[n]
      BY <1>3, <2>1, <2>2
    <3>2. ASSUME NEW bit \in tags, SharesWord(bit, tag), bit.bit \in 0..(n + 1) - 1
          PROVE  bit.bit \in 0..n - 1
      <4>1. bit.bit # n
        BY <2>1, <2>2, <3>2 DEF named, Mates, SharesWord
      <4> QED
        BY <3>2, <4>1
    <3> QED
      BY <2>1, <3>1, <3>2
  <2>3. CASE named(n + 1) # {}
    <3> DEFINE bit == CHOOSE bit \in named(n + 1) : TRUE
    <3>1. bit \in named(n + 1)
      BY <2>3
    <3>2. f[n + 1] = EncodeBool(values[bit], bit, f[n])[1]
      BY <1>3, <2>1, <2>3
    <3> HIDE DEF bit
    <3>3. /\ bit \in tags /\ SharesWord(bit, tag) /\ bit.bit = n /\ bit.bit # None
          /\ bit.bit \in Bits /\ bit.type = "bool" /\ bit.byte \in Orders
          /\ values[bit] \in {0, 1}
          /\ \A other \in named(n + 1) : other = bit
      BY <1>4, <2>1, <3>1
    <3>4. f[n + 1] \in Register
      <4>1. EncodeBool(values[bit], bit, f[n]) \in [1..1 -> Register]
        BY <2>1, <3>3, BoolThereAndBack
      <4> QED
        BY <3>2, <4>1
    <3>5. ASSUME big, NEW other \in tags, SharesWord(other, tag), other.bit \in 0..(n + 1) - 1
          PROVE  BitFromWord(f[n + 1], other.bit) = values[other]
      <4>1. bit.byte = "big"
        BY <3>3, <3>5
      <4>2. f[n + 1] = WordFromBit(bit.bit, values[bit], f[n])
        BY <3>2, <3>3, <4>1 DEF EncodeBool
      <4>3. CASE other.bit = n
        <5>1. other = bit
          BY <2>1, <3>3, <3>5, <4>3 DEF named, Mates, SharesWord
        <5> QED
          BY <2>1, <3>3, <4>2, <5>1, BitIsPut
      <4>4. CASE other.bit # n
        <5>1. other.bit \in 0..n - 1 /\ other.bit \in Bits \ {bit.bit}
          BY <1>2, <2>1, <3>3, <3>5, <4>4
        <5>2. BitFromWord(f[n], other.bit) = values[other]
          BY <2>1, <3>5, <5>1
        <5> QED
          BY <2>1, <3>3, <4>2, <5>1, <5>2, BitIsPut
      <4> QED
        BY <4>3, <4>4
    <3> QED
      BY <3>4, <3>5
  <2> QED
    BY <2>2, <2>3
<1> HIDE DEF S, Ok, big
<1>7. last \in S
  BY <1>2, <1>5, <1>6, InductiveSet
<1>8. Ok(last)
  BY <1>2, <1>7 DEF S
<1>9. SharesWord(tag, tag) /\ tag.bit \in 0..last - 1
  BY <1>2 DEF SharesWord
<1>10. WordOf(tag, values) = f[last]
  BY <1>1
<1> QED
  BY <1>8, <1>9, <1>10 DEF Ok, big

(* A signal is a number, of a boolean 0 or 1.                              *)
LEMMA SignalIs ==
    ASSUME NEW tag, NEW value \in Signals(tag)
    PROVE  value \in Int /\ (tag.type = "bool" => value \in {0, 1})
  BY ModbusAssumption DEF Signals

(* A register is one of a tag's.                                           *)
Covers(tag, area, address) == tag.area = area /\ address \in tag.address..EndAddress(tag)

(* Every register that is a tag's shows the value of that tag. The tag a   *)
(* register is rendered for is chosen among those that cover it: there is  *)
(* but one, or they are bits of one word, which are rendered together.     *)
LEMMA RenderedIs ==
    ASSUME tags \in Maps, IsValid(tags), ImageOK(image), NEW values \in Processes
    PROVE  /\ ImageOK(Rendered(values))
           /\ \A tag \in tags : \A address \in tag.address..EndAddress(tag) :
                  (IsBitArea(tag.area) => tag.bit = None) =>
                      Rendered(values)[tag.area][address] =
                          IF ~IsBitArea(tag.area) /\ tag.bit # None THEN WordOf(tag, values)
                          ELSE Encoded(tag, values[tag])[address - tag.address + 1]
<1> DEFINE new == Rendered(values)
           one(area, address) == CHOOSE tag \in tags : Covers(tag, area, address)
           cell(area, address) ==
               IF ~\E tag \in tags : Covers(tag, area, address) THEN image[area][address]
               ELSE IF ~IsBitArea(area) /\ one(area, address).bit # None
                    THEN WordOf(one(area, address), values)
                    ELSE Encoded(one(area, address), values[one(area, address)])
                             [address - one(area, address).address + 1]
<1>1. /\ new = [area \in Areas |-> new[area]]
      /\ \A area \in Areas : new[area] = [address \in 0..Sizes[area] - 1 |-> cell(area, address)]
  <2>1. \A area \in Areas : DOMAIN image[area] = 0..Sizes[area] - 1
    BY DEF ImageOK
  <2>2. new = [area \in Areas |-> [address \in DOMAIN image[area] |-> cell(area, address)]]
    BY DEF Rendered, Covers
  <2> HIDE DEF new, cell
  <2> QED
    BY <2>1, <2>2
<1> HIDE DEF new
<1>2. \A area, address : (\E tag \in tags : Covers(tag, area, address)) =>
          one(area, address) \in tags /\ Covers(one(area, address), area, address)
  OBVIOUS
<1> HIDE DEF one
<1>3. ASSUME NEW tag \in tags
      PROVE  /\ values[tag] \in Int
             /\ Encoded(tag, values[tag]) \in [1..Width(tag) -> Cell(tag.area)]
  <2>1. values[tag] \in Signals(tag)
    BY DEF Processes
  <2>2. values[tag] \in Int /\ (tag.type = "bool" => values[tag] \in {0, 1})
    BY <2>1, SignalIs
  <2> DEFINE value == values[tag]
  <2> HIDE DEF value
  <2>3. Encoded(tag, value) \in [1..Width(tag) -> Cell(tag.area)]
    BY <2>2, EncodedIs DEF value
  <2> QED
    BY <2>2, <2>3 DEF value
<1>4. ASSUME NEW area \in Areas, NEW address \in 0..Sizes[area] - 1
      PROVE  cell(area, address) \in Cell(area)
  <2>1. CASE ~\E tag \in tags : Covers(tag, area, address)
    BY <2>1 DEF ImageOK
  <2>2. CASE \E tag \in tags : Covers(tag, area, address)
    <3> DEFINE tag == one(area, address)
    <3>1. tag \in tags /\ Covers(tag, area, address)
      BY <1>2, <2>2
    <3>2. /\ cell(area, address) = IF ~IsBitArea(area) /\ tag.bit # None THEN WordOf(tag, values)
                                   ELSE Encoded(tag, values[tag])[address - tag.address + 1]
      BY <2>2
    <3> HIDE DEF tag, cell
    <3>3. /\ tag.area = area /\ tag.address \in Nat /\ Width(tag) \in {1, 2}
          /\ address - tag.address + 1 \in 1..Width(tag)
      BY <3>1, TagIs DEF Covers
    <3>4. Encoded(tag, values[tag])[address - tag.address + 1] \in Cell(area)
      BY <1>3, <3>1, <3>3
    <3>5. ~IsBitArea(area) /\ tag.bit # None => WordOf(tag, values) \in Cell(area)
      BY <3>1, <3>3, WordHasItsBits DEF Cell
    <3> QED
      BY <3>2, <3>4, <3>5
  <2> QED
    BY <2>1, <2>2
<1>5. ImageOK(new)
  BY <1>1, <1>4 DEF ImageOK
<1>6. ASSUME NEW tag \in tags, NEW address \in tag.address..EndAddress(tag),
             IsBitArea(tag.area) => tag.bit = None
      PROVE  new[tag.area][address] =
                 IF ~IsBitArea(tag.area) /\ tag.bit # None THEN WordOf(tag, values)
                 ELSE Encoded(tag, values[tag])[address - tag.address + 1]
  <2> DEFINE other == one(tag.area, address)
  <2>1. /\ tag.area \in Areas /\ tag.address \in Nat /\ EndAddress(tag) \in Nat
        /\ address \in 0..Sizes[tag.area] - 1
    BY <1>6, TagIs
  <2>2. Covers(tag, tag.area, address)
    BY <1>6 DEF Covers
  <2>3. other \in tags /\ Covers(other, tag.area, address)
    BY <1>2, <2>2
  <2>4. new[tag.area][address] =
            IF ~IsBitArea(tag.area) /\ other.bit # None THEN WordOf(other, values)
            ELSE Encoded(other, values[other])[address - other.address + 1]
    <3>1. new[tag.area][address] = cell(tag.area, address)
      <4> HIDE DEF cell
      <4> QED
        BY <1>1, <2>1
    <3>2. \E t \in tags : Covers(t, tag.area, address)
      BY <2>2
    <3> QED
      BY <3>1, <3>2
  <2> HIDE DEF other, cell
  <2>5. CASE other = tag
    BY <2>4, <2>5
  <2>6. CASE other # tag
    <3>1. /\ other.area = tag.area /\ other.address = tag.address
          /\ other.bit # None /\ tag.bit # None
      <4>1. other.area = tag.area /\ address \in other.address..EndAddress(other)
        BY <2>3 DEF Covers
      <4>2. other.address \in Nat /\ EndAddress(other) \in Nat
        BY <2>3, TagIs
      <4> QED
        BY <1>6, <2>1, <2>3, <2>6, <4>1, <4>2, TagsApart
    <3>2. WordOf(other, values) = WordOf(tag, values)
      BY <3>1 DEF WordOf
    <3> QED
      BY <1>6, <2>4, <3>1, <3>2
  <2> QED
    BY <2>5, <2>6
<1> QED
  BY <1>5, <1>6 DEF new

-----------------------------------------------------------------------------
(* The invariant                                                           *)

(* What is written is a number, of a boolean 0 or 1.                       *)
LEMMA ValuesAre ==
    ASSUME NEW tag, NEW value \in ValuesFor(tag)
    PROVE  value \in Int /\ (tag.type = "bool" => value \in {0, 1})
  BY ModbusAssumption DEF ValuesFor

(* Every action preserves Inv.                                             *)
LEMMA InvStep == Inv /\ [Next]_vars => Inv'
<1> SUFFICES ASSUME Inv, [Next]_vars PROVE Inv'
  OBVIOUS
<1>1. /\ tags \in Maps /\ IsValid(tags) /\ ImageOK(image) /\ connected \in BOOLEAN
      /\ todo \in Seq(BlocksFor(tags)) /\ DOMAIN out \subseteq tags
      /\ todo # <<>> => \A tag \in tags :
             tag \in DOMAIN out \/ \E i \in 1..Len(todo) : tag \in todo[i].tags
      /\ PendingOK
      /\ process = None \/ process \in Processes
      /\ events \in 0..MaxEvents /\ MaxEvents \in Nat
  BY ModbusAssumption DEF Inv
<1>2. CASE Connect
  BY <1>1, <1>2 DEF Connect, Idle, Inv, ImageOK, PendingOK, Processes, Signals
<1>3. CASE Disconnect
  BY <1>1, <1>3 DEF Disconnect, Idle, Inv, ImageOK, PendingOK, Processes, Signals
<1>4. CASE StartRead
  <2>1. /\ todo' = CoalesceBlocks(tags) /\ out' = <<>> /\ pending = None
        /\ UNCHANGED <<tags, image, connected, pending, process, events>>
    BY <1>4 DEF StartRead, Idle
  <2>2. IsFiniteSet(tags) /\ tags \subseteq Tag
    BY <1>1, ModbusAssumption
  <2>3. /\ todo' \in Seq(BlocksFor(tags))
        /\ \A tag \in tags : \E i \in 1..Len(todo') : tag \in todo'[i].tags
    BY <1>1, <2>1, <2>2, PlannedReads
  <2>4. DOMAIN out' = {}
    BY <2>1
  <2>5. ImageOK(image') /\ PendingOK' /\ (process' = None \/ process' \in Processes')
    BY <1>1, <2>1 DEF PendingOK, Processes, Signals
  <2> QED
    BY <1>1, <2>1, <2>3, <2>4, <2>5 DEF Inv, ImageOK
<1>5. ASSUME todo # <<>>, NEW answers, DOMAIN answers = Head(todo).tags, BlockRead(answers)
      PROVE  Inv'
  <2>1. /\ todo' = Tail(todo) /\ DOMAIN out' = DOMAIN answers \cup DOMAIN out
        /\ UNCHANGED <<tags, image, connected, pending, process, events>>
    BY <1>5 DEF BlockRead
  <2>2. /\ todo' \in Seq(BlocksFor(tags)) /\ Len(todo') = Len(todo) - 1 /\ Len(todo) \in Nat \ {0}
        /\ \A i \in 1..Len(todo') : todo'[i] = todo[i + 1]
        /\ Head(todo) = todo[1]
    BY <1>1, <1>5, <2>1, HeadTailProperties
  <2>3. todo[1] \in BlocksFor(tags)
    BY <1>1, <2>2, ElementOfSeq
  <2>4. DOMAIN out' \subseteq tags
    BY <1>1, <1>5, <2>1, <2>2, <2>3 DEF BlocksFor
  <2>5. ASSUME NEW tag \in tags
        PROVE  tag \in DOMAIN out' \/ \E i \in 1..Len(todo') : tag \in todo'[i].tags
    <3>1. CASE tag \in DOMAIN out
      BY <2>1, <3>1
    <3>2. ASSUME NEW i \in 1..Len(todo), tag \in todo[i].tags
          PROVE  tag \in DOMAIN out' \/ \E j \in 1..Len(todo') : tag \in todo'[j].tags
      <4>1. CASE i = 1
        BY <1>5, <2>1, <2>2, <3>2, <4>1
      <4>2. CASE i # 1
        <5>1. i - 1 \in 1..Len(todo') /\ todo'[i - 1] = todo[i]
          BY <2>2, <4>2
        <5> QED
          BY <3>2, <5>1
      <4> QED
        BY <4>1, <4>2
    <3> QED
      BY <1>1, <1>5, <3>1, <3>2
  <2>6. ImageOK(image') /\ PendingOK' /\ (process' = None \/ process' \in Processes')
    BY <1>1, <2>1 DEF PendingOK, Processes, Signals
  <2> QED
    BY <1>1, <2>1, <2>2, <2>4, <2>5, <2>6 DEF Inv, ImageOK
<1>6. CASE BlockAnswered
  <2>1. PICK length \in 0..Head(todo).count :
            LET block == Head(todo)
                raw == SubSeq(Request(image, block.area, block.start, block.count), 1, length)
            IN  BlockRead([tag \in block.tags |-> Decode(tag, block.start, raw)])
    BY <1>6 DEF BlockAnswered
  <2> DEFINE raw == SubSeq(Request(image, Head(todo).area, Head(todo).start, Head(todo).count), 1, length)
             answers == [tag \in Head(todo).tags |-> Decode(tag, Head(todo).start, raw)]
  <2>2. BlockRead(answers) /\ DOMAIN answers = Head(todo).tags /\ todo # <<>>
    BY <1>6, <2>1 DEF BlockAnswered
  <2> HIDE DEF answers
  <2> QED
    BY <1>5, <2>2
<1>7. CASE BlockFails
  <2> DEFINE answers == [tag \in Head(todo).tags |-> Bad]
  <2>1. BlockRead(answers) /\ DOMAIN answers = Head(todo).tags /\ todo # <<>>
    BY <1>7 DEF BlockFails
  <2> HIDE DEF answers
  <2> QED
    BY <1>5, <2>1
<1>8. ASSUME NEW tag \in tags, NEW regs \in [1..Width(tag) -> Cell(tag.area)], Sent(tag, regs),
             pending' = pending \/ pending' = None, events' \in 0..MaxEvents
      PROVE  Inv'
  <2>1. /\ image' = Stored(tag.area, tag.address, regs)
        /\ UNCHANGED <<tags, connected, todo, out, process>>
    BY <1>8 DEF Sent
  <2>2. tag.area \in Areas /\ tag.address \in Nat /\ Width(tag) \in Nat
    BY <1>1, TagIs
  <2>3. ImageOK(image')
    BY <1>1, <2>1, <2>2, StoredIs
  <2>4. PendingOK' /\ (process' = None \/ process' \in Processes')
    BY <1>1, <1>8, <2>1 DEF PendingOK, Processes, Signals
  <2> QED
    BY <1>1, <1>8, <2>1, <2>3, <2>4 DEF Inv, ImageOK
<1>9. ASSUME NEW tag \in tags, NEW value \in ValuesFor(tag), WriteCoil(tag, value)
      PROVE  Inv'
  <2>1. /\ Sent(tag, <<Truth(value)>>) /\ pending' = pending /\ tag.area = "coil"
        /\ events < MaxEvents /\ events' = events + 1
    BY <1>9 DEF WriteCoil, Asked
  <2>2. <<Truth(value)>> \in [1..Width(tag) -> Cell(tag.area)]
    BY <2>1 DEF Width, Cell, IsBitArea, Truth
  <2>3. events' \in 0..MaxEvents
    BY <1>1, <2>1
  <2> QED
    BY <1>8, <2>1, <2>2, <2>3
<1>10. ASSUME NEW tag \in tags, NEW value \in ValuesFor(tag), WriteRegisters(tag, value)
       PROVE  Inv'
  <2>1. /\ Sent(tag, IF tag.type = "bool" THEN EncodeBool(value, tag, 0)
                     ELSE EncodeNumber(value, tag))
        /\ pending' = pending /\ ~IsBitArea(tag.area)
        /\ events < MaxEvents /\ events' = events + 1
    BY <1>10 DEF WriteRegisters, Asked, IsBitArea
  <2>2. Sent(tag, Encoded(tag, value))
    BY <2>1 DEF Encoded
  <2>3. Encoded(tag, value) \in [1..Width(tag) -> Cell(tag.area)]
    BY <1>1, ValuesAre, EncodedIs
  <2>4. events' \in 0..MaxEvents
    BY <1>1, <2>1
  <2> QED
    BY <1>8, <2>1, <2>2, <2>3, <2>4
<1>11. ASSUME NEW tag \in tags, NEW value \in ValuesFor(tag), ReadWord(tag, value)
       PROVE  Inv'
  <2>1. /\ pending' = [tag |-> tag, value |-> value, word |-> image[tag.area][tag.address]]
        /\ tag.area = "holding" /\ tag.bit # None /\ connected
        /\ events < MaxEvents /\ events' = events + 1
        /\ UNCHANGED <<tags, image, connected, todo, out, process>>
    BY <1>11 DEF ReadWord, Asked
  <2>2. tag.type = "bool" /\ tag.address \in 0..Sizes[tag.area] - 1 /\ tag.area \in Areas
    BY <1>1, <2>1, TagIs
  <2>3. value \in {0, 1}
    BY <2>2, ValuesAre
  <2>4. image[tag.area][tag.address] \in Register
    BY <1>1, <2>1, <2>2 DEF ImageOK, Cell, IsBitArea
  <2>5. PendingOK'
    BY <2>1, <2>3, <2>4 DEF PendingOK
  <2>6. events' \in 0..MaxEvents
    BY <1>1, <2>1
  <2>7. ImageOK(image') /\ (process' = None \/ process' \in Processes')
    BY <1>1, <2>1 DEF Processes, Signals
  <2> QED
    BY <1>1, <2>1, <2>5, <2>6, <2>7 DEF Inv, ImageOK
<1>12. CASE WriteWord
  <2> DEFINE tag == pending.tag
             regs == EncodeBool(pending.value, tag, pending.word)
  <2>1. Sent(tag, regs) /\ pending # None /\ pending' = None /\ events' = events
    BY <1>12 DEF WriteWord
  <2>2. /\ tag \in tags /\ tag.area = "holding" /\ tag.bit # None
        /\ pending.value \in {0, 1} /\ pending.word \in Register
    BY <1>1, <2>1 DEF PendingOK
  <2>3. tag.type = "bool" /\ tag.bit \in Bits /\ tag.byte \in Orders
    BY <1>1, <2>2, TagIs
  <2>4. Width(tag) = 1 /\ Cell(tag.area) = Register
    BY <2>2, <2>3 DEF Width, RegisterCount, Cell, IsBitArea
  <2>5. regs \in [1..Width(tag) -> Cell(tag.area)]
    <3> HIDE DEF tag
    <3> QED
      BY <2>2, <2>3, <2>4, BoolThereAndBack
  <2> HIDE DEF tag, regs
  <2> QED
    BY <1>1, <1>8, <2>1, <2>2, <2>5
<1>13. CASE WriteFails
  BY <1>1, <1>13 DEF WriteFails, Inv, ImageOK, PendingOK, Processes, Signals
<1>14. ASSUME NEW values \in Processes, SyncImage(values) PROVE Inv'
  <2>1. /\ events < MaxEvents /\ events' = events + 1 /\ process' = values
        /\ image' = Rendered(values)
        /\ UNCHANGED <<tags, connected, todo, out, pending>>
    BY <1>14 DEF SyncImage
  <2>2. ImageOK(image')
    BY <1>1, <2>1, RenderedIs
  <2>3. events' \in 0..MaxEvents
    BY <1>1, <2>1
  <2>4. PendingOK' /\ process' \in Processes'
    BY <1>1, <2>1 DEF PendingOK, Processes, Signals
  <2> QED
    BY <1>1, <2>1, <2>2, <2>3, <2>4 DEF Inv, ImageOK
<1>15. CASE UNCHANGED vars
  BY <1>1, <1>15 DEF vars, Inv, ImageOK, PendingOK, Processes, Signals
<1> QED
  BY <1>2, <1>3, <1>4, <1>6, <1>7, <1>9, <1>10, <1>11, <1>12, <1>13, <1>14, <1>15 DEF Next, Write

(* Inv holds at the start.                                                 *)
LEMMA InvInit == Init => Inv
<1> SUFFICES ASSUME Init PROVE Inv
  OBVIOUS
<1>1. /\ tags \in Maps /\ IsValid(tags)
      /\ image = [area \in Areas |-> [address \in 0..Sizes[area] - 1 |-> 0]]
      /\ connected = FALSE /\ todo = <<>> /\ out = <<>> /\ pending = None /\ process = None
      /\ events = 0
  BY DEF Init
<1>2. ImageOK(image)
  <2>1. 0 \in Register
    BY Spans DEF Register
  <2> QED
    BY <1>1, <2>1 DEF ImageOK, Cell
<1> QED
  <2>1. DOMAIN out = {} /\ todo \in Seq(BlocksFor(tags))
    BY <1>1
  <2>2. events \in 0..MaxEvents
    BY <1>1, ModbusAssumption
  <2> QED
    BY <1>1, <1>2, <2>1, <2>2 DEF Inv, PendingOK

(* Inv is an invariant of driver and device.                               *)
LEMMA InvHolds == Spec => []Inv
  BY InvInit, InvStep, PTL DEF Spec

-----------------------------------------------------------------------------
(* Type correctness, and the plan of reads                                 *)

(* The state of driver and device keeps its types; in particular a device  *)
(* never gets a register that is not one, whatever is written or rendered. *)
THEOREM TypeCorrect == Spec => []TypeOK
<1>1. Inv => TypeOK
  <2> SUFFICES ASSUME Inv PROVE TypeOK
    OBVIOUS
  <2>1. \A i \in DOMAIN todo : todo[i].tags \subseteq tags
    <3>1. todo \in Seq(BlocksFor(tags)) /\ DOMAIN todo = 1..Len(todo)
      BY DEF Inv
    <3>2. ASSUME NEW i \in 1..Len(todo) PROVE todo[i].tags \subseteq tags
      <4>1. todo[i] \in BlocksFor(tags)
        BY <3>1, <3>2, ElementOfSeq
      <4> QED
        BY <4>1 DEF BlocksFor
    <3> QED
      BY <3>1, <3>2
  <2>2. \A area \in Areas :
            image[area] \in [0..Sizes[area] - 1 -> IF IsBitArea(area) THEN {0, 1} ELSE Register]
    BY DEF Inv, ImageOK, Cell
  <2> QED
    BY <2>1, <2>2 DEF Inv, PendingOK, TypeOK
<1> QED
  BY <1>1, InvHolds, PTL

(* The reads planned by coalesce_blocks are legal, have every tag in just  *)
(* one of them, and cannot be fewer.                                       *)
THEOREM ReadsAreFewest == Spec => []FewestRequests
<1>1. Inv => FewestRequests
  <2> SUFFICES ASSUME Inv PROVE FewestRequests
    OBVIOUS
  <2>1. tags \in Maps /\ IsValid(tags) /\ IsFiniteSet(tags) /\ tags \subseteq Tag
    BY ModbusAssumption DEF Inv
  <2> QED
    BY <2>1, FewestBlocks DEF FewestRequests
<1> QED
  BY <1>1, InvHolds, PTL

-----------------------------------------------------------------------------
(* Reading                                                                 *)

(* Of a block that was answered, in full or in part, a tag gets what the   *)
(* device holds for it, or BAD.                                            *)
LEMMA DecodeIs ==
    ASSUME tags \in Maps, IsValid(tags), ImageOK(image),
           NEW block \in BlocksFor(tags), NEW tag \in block.tags,
           NEW length \in 0..block.count
    PROVE  LET raw == SubSeq(Request(image, block.area, block.start, block.count), 1, length)
           IN  Decode(tag, block.start, raw) \in {Bad, Holds(image, tag)}
<1> DEFINE all == Request(image, block.area, block.start, block.count)
           raw == SubSeq(all, 1, length)
           part == Request(image, tag.area, tag.address, Width(tag))
<1> SUFFICES Decode(tag, block.start, raw) \in {Bad, Holds(image, tag)}
  OBVIOUS
<1>1. /\ tag \in tags /\ tag.area = block.area
      /\ block.start \in Nat /\ block.count \in Nat /\ block.start <= tag.address
  BY DEF BlocksFor
<1>2. tag.address \in Nat /\ Width(tag) \in {1, 2}
  BY <1>1, TagIs
<1>3. \A i \in 1..block.count : all[i] = image[block.area][block.start + i - 1]
  BY DEF Request
<1>4. \A i \in 1..Width(tag) : part[i] = image[tag.area][tag.address + i - 1]
  BY DEF Request
<1>5. DOMAIN part = 1..Width(tag) /\ part = [i \in 1..Width(tag) |-> part[i]]
  BY DEF Request
<1> HIDE DEF all, part
<1> DEFINE Answer == {all[i] : i \in 1..block.count}
<1>6. /\ Len(raw) = length /\ \A i \in 1..length : raw[i] = all[i]
      /\ raw \in Seq(Answer)
  <2>1. /\ 1 \in Int /\ length \in Int /\ \A i \in 1..length : all[i] \in Answer
    BY <1>1
  <2> HIDE DEF Answer
  <2>2. /\ SubSeq(all, 1, length) \in Seq(Answer)
        /\ Len(SubSeq(all, 1, length)) = IF 1 <= length THEN length - 1 + 1 ELSE 0
        /\ \A i \in 1..length - 1 + 1 : SubSeq(all, 1, length)[i] = all[1 + i - 1]
    BY <2>1, SubSeqProperties
  <2> QED
    BY <1>1, <2>2
<1> HIDE DEF raw, Answer
<1> DEFINE offset == tag.address - block.start
           mine == SubSeq(raw, offset + 1, offset + Width(tag))
<1>7. CASE offset + Width(tag) > Len(raw)
  BY <1>7 DEF Decode
<1>8. CASE ~(offset + Width(tag) > Len(raw))
  <2>1. offset \in Nat /\ offset + Width(tag) <= length /\ length \in Nat
    BY <1>1, <1>2, <1>6, <1>8
  <2>2. \A i \in offset + 1..offset + Width(tag) : raw[i] \in Answer
    <3>1. \A i \in 1..length : raw[i] \in Answer
      BY <1>6, ElementOfSeq
    <3> QED
      BY <1>2, <2>1, <3>1
  <2>3. /\ mine \in Seq(Answer) /\ Len(mine) = Width(tag)
        /\ \A i \in 1..Width(tag) : mine[i] = raw[offset + i]
    <3> DEFINE m == offset + 1
               n == offset + Width(tag)
    <3>1. m \in Int /\ n \in Int /\ m <= n /\ n - m + 1 = Width(tag)
      BY <1>2, <2>1
    <3>2. \A i \in 1..Width(tag) : m + i - 1 = offset + i
      BY <1>2, <2>1
    <3>3. \A i \in m..n : raw[i] \in Answer
      BY <2>2
    <3>4. mine = SubSeq(raw, m, n)
      OBVIOUS
    <3> HIDE DEF m, n, mine, offset
    <3>5. /\ SubSeq(raw, m, n) \in Seq(Answer)
          /\ Len(SubSeq(raw, m, n)) = IF m <= n THEN n - m + 1 ELSE 0
          /\ \A i \in 1..n - m + 1 : SubSeq(raw, m, n)[i] = raw[m + i - 1]
      BY <3>1, <3>3, SubSeqProperties
    <3> QED
      BY <3>1, <3>2, <3>4, <3>5
  <2>4. \A i \in 1..Width(tag) : mine[i] = part[i]
    <3> SUFFICES ASSUME NEW i \in 1..Width(tag) PROVE mine[i] = part[i]
      OBVIOUS
    <3>1. /\ offset + i \in 1..length /\ offset + i \in 1..block.count
          /\ block.start + (offset + i) - 1 = tag.address + i - 1
      BY <1>1, <1>2, <2>1
    <3>2. mine[i] = all[offset + i]
      BY <1>6, <2>3, <3>1
    <3>3. all[offset + i] = image[block.area][tag.address + i - 1]
      BY <1>3, <3>1
    <3> QED
      BY <1>1, <1>4, <3>2, <3>3
  <2>5. mine = part
    <3> HIDE DEF mine
    <3>1. mine = [i \in 1..Width(tag) |-> mine[i]]
      BY <2>3
    <3> QED
      BY <1>5, <2>4, <3>1
  <2>6. Decode(tag, block.start, raw) = Decoded(tag, mine)
    BY <1>8 DEF Decode
  <2> QED
    BY <2>5, <2>6 DEF Holds, part
<1> QED
  BY <1>7, <1>8

(* A step of a read adds to out what the device holds, or BAD; and the     *)
(* last one has answered for every tag.                                    *)
THEOREM ReadsAreTrue == Spec => ReadsWhatIsThere
<1> DEFINE Goal ==
        /\ \A tag \in DOMAIN out' \ DOMAIN out : out'[tag] \in {Bad, Holds(image, tag)}
        /\ todo # <<>> /\ todo' = <<>> => DOMAIN out' = tags
<1>1. Inv /\ Next => Goal
  <2> SUFFICES ASSUME Inv, Next PROVE Goal
    OBVIOUS
  <2>1. /\ tags \in Maps /\ IsValid(tags) /\ ImageOK(image)
        /\ todo \in Seq(BlocksFor(tags)) /\ DOMAIN out \subseteq tags
        /\ todo # <<>> => \A tag \in tags :
               tag \in DOMAIN out \/ \E i \in 1..Len(todo) : tag \in todo[i].tags
    BY DEF Inv
  <2>2. ASSUME UNCHANGED <<todo, out>> PROVE Goal
    BY <2>2
  <2>3. CASE StartRead
    BY <2>3 DEF StartRead, Idle
  <2>4. ASSUME todo # <<>>, NEW answers, DOMAIN answers = Head(todo).tags, BlockRead(answers),
               \A tag \in DOMAIN answers : answers[tag] \in {Bad, Holds(image, tag)}
        PROVE  Goal
    <3>1. /\ todo' = Tail(todo)
          /\ out' = [tag \in DOMAIN answers \cup DOMAIN out |->
                        IF tag \in DOMAIN answers THEN answers[tag] ELSE out[tag]]
      BY <2>4 DEF BlockRead
    <3>2. \A tag \in DOMAIN out' \ DOMAIN out : out'[tag] \in {Bad, Holds(image, tag)}
      BY <2>4, <3>1
    <3>3. Len(todo) \in Nat \ {0} /\ Len(todo') = Len(todo) - 1 /\ Head(todo) = todo[1]
      BY <2>1, <2>4, <3>1, HeadTailProperties
    <3>4. todo[1].tags \subseteq tags
      <4>1. todo[1] \in BlocksFor(tags)
        BY <2>1, <3>3, ElementOfSeq
      <4> QED
        BY <4>1 DEF BlocksFor
    <3>5. ASSUME todo' = <<>> PROVE DOMAIN out' = tags
      <4>1. Len(todo) = 1
        BY <3>3, <3>5
      <4>2. \A tag \in tags : tag \in DOMAIN out \/ tag \in DOMAIN answers
        BY <2>1, <2>4, <3>3, <4>1
      <4>3. DOMAIN out' = DOMAIN answers \cup DOMAIN out
        BY <3>1
      <4> QED
        BY <2>1, <2>4, <3>3, <3>4, <4>2, <4>3
    <3> QED
      BY <3>2, <3>5
  <2>5. CASE BlockAnswered
    <3>1. todo # <<>> /\ Head(todo) \in BlocksFor(tags)
      BY <2>1, <2>5, HeadTailProperties DEF BlockAnswered
    <3>2. PICK length \in 0..Head(todo).count :
              LET block == Head(todo)
                  raw == SubSeq(Request(image, block.area, block.start, block.count), 1, length)
              IN  BlockRead([tag \in block.tags |-> Decode(tag, block.start, raw)])
      BY <2>5 DEF BlockAnswered
    <3> DEFINE block == Head(todo)
               raw == SubSeq(Request(image, block.area, block.start, block.count), 1, length)
               answers == [tag \in block.tags |-> Decode(tag, block.start, raw)]
    <3>3. \A tag \in block.tags : Decode(tag, block.start, raw) \in {Bad, Holds(image, tag)}
      <4> HIDE DEF block
      <4> QED
        BY <2>1, <3>1, DecodeIs DEF block
    <3>4. BlockRead(answers) /\ DOMAIN answers = Head(todo).tags
      BY <3>2
    <3>5. \A tag \in DOMAIN answers : answers[tag] \in {Bad, Holds(image, tag)}
      BY <3>3
    <3> HIDE DEF answers
    <3> QED
      BY <2>4, <3>1, <3>4, <3>5
  <2>6. CASE BlockFails
    <3> DEFINE answers == [tag \in Head(todo).tags |-> Bad]
    <3>1. /\ todo # <<>> /\ BlockRead(answers) /\ DOMAIN answers = Head(todo).tags
          /\ \A tag \in DOMAIN answers : answers[tag] \in {Bad, Holds(image, tag)}
      BY <2>6 DEF BlockFails
    <3> HIDE DEF answers
    <3> QED
      BY <2>4, <3>1
  <2>7. CASE Connect
    BY <2>2, <2>7 DEF Connect
  <2>8. CASE Disconnect
    BY <2>2, <2>8 DEF Disconnect
  <2>9. CASE Write
    BY <2>2, <2>9 DEF Write, WriteCoil, WriteRegisters, ReadWord, WriteWord, WriteFails, Sent
  <2>10. ASSUME NEW values \in Processes, SyncImage(values) PROVE Goal
    BY <2>2, <2>10 DEF SyncImage
  <2> QED
    BY <2>3, <2>5, <2>6, <2>7, <2>8, <2>9, <2>10 DEF Next
<1>2. Inv /\ [Next]_vars => [Goal]_vars
  BY <1>1
<1>3. ReadsWhatIsThere <=> [][Goal]_vars
  BY DEF ReadsWhatIsThere
<1> HIDE DEF Goal
<1> QED
  BY <1>2, <1>3, InvHolds, PTL DEF Spec

-----------------------------------------------------------------------------
(* Writing                                                                 *)

(* What a tag reads as depends on its own registers only.                  *)
LEMMA HoldsSame ==
    ASSUME tags \in Maps, IsValid(tags), NEW tag \in tags, NEW before, NEW after,
           \A address \in tag.address..EndAddress(tag) :
               after[tag.area][address] = before[tag.area][address]
    PROVE  Holds(after, tag) = Holds(before, tag)
<1>1. /\ tag.address \in Nat /\ Width(tag) \in {1, 2}
      /\ EndAddress(tag) = tag.address + Width(tag) - 1
  BY TagIs
<1>2. \A i \in 1..Width(tag) : tag.address + i - 1 \in tag.address..EndAddress(tag)
  BY <1>1
<1>3. Request(after, tag.area, tag.address, Width(tag)) =
          Request(before, tag.area, tag.address, Width(tag))
  BY <1>2 DEF Request
<1> QED
  BY <1>3 DEF Holds

(* A tag whose registers are given reads as they decode.                   *)
LEMMA HoldsIs ==
    ASSUME tags \in Maps, IsValid(tags), NEW tag \in tags, NEW held,
           NEW regs \in [1..Width(tag) -> Cell(tag.area)],
           \A address \in tag.address..EndAddress(tag) :
               held[tag.area][address] = regs[address - tag.address + 1]
    PROVE  Holds(held, tag) = Decoded(tag, regs)
<1>1. /\ tag.address \in Nat /\ Width(tag) \in {1, 2}
      /\ EndAddress(tag) = tag.address + Width(tag) - 1
  BY TagIs
<1>2. \A i \in 1..Width(tag) : /\ tag.address + i - 1 \in tag.address..EndAddress(tag)
                               /\ (tag.address + i - 1) - tag.address + 1 = i
  BY <1>1
<1>3. \A i \in 1..Width(tag) : held[tag.area][tag.address + i - 1] = regs[i]
  BY <1>2
<1>4. Request(held, tag.area, tag.address, Width(tag)) = regs
  BY <1>3 DEF Request
<1> QED
  BY <1>4 DEF Holds

(* Registers written for a tag read back as they decode, and every tag     *)
(* that is elsewhere reads as before.                                      *)
LEMMA StoredHolds ==
    ASSUME tags \in Maps, IsValid(tags), ImageOK(image), NEW tag \in tags,
           NEW regs \in [1..Width(tag) -> Cell(tag.area)], Sent(tag, regs)
    PROVE  /\ Holds(image', tag) = Decoded(tag, regs)
           /\ image'[tag.area][tag.address] = regs[1]
           /\ \A other \in tags :
                  other.area # tag.area \/ EndAddress(other) < tag.address
                      \/ EndAddress(tag) < other.address =>
                          Holds(image', other) = Holds(image, other)
<1>1. /\ tag.area \in Areas /\ tag.address \in Nat /\ Width(tag) \in {1, 2}
      /\ EndAddress(tag) = tag.address + Width(tag) - 1
      /\ EndAddress(tag) \in 0..Sizes[tag.area] - 1 /\ Sizes[tag.area] \in Nat
  BY TagIs
<1>2. image' = Stored(tag.area, tag.address, regs)
  BY DEF Sent
<1>3. \A other \in Areas : \A address \in 0..Sizes[other] - 1 :
          image'[other][address] =
              IF other = tag.area /\ address \in tag.address..tag.address + Width(tag) - 1
              THEN regs[address - tag.address + 1] ELSE image[other][address]
  <2>1. Width(tag) \in Nat
    BY <1>1
  <2>2. IsStored(image', tag.area, tag.address, Width(tag), regs)
    BY <1>1, <1>2, <2>1, StoredIs
  <2> QED
    BY <2>2 DEF IsStored
<1>4. ASSUME NEW address \in tag.address..EndAddress(tag)
      PROVE  image'[tag.area][address] = regs[address - tag.address + 1]
  <2>1. address \in 0..Sizes[tag.area] - 1 /\ address \in tag.address..tag.address + Width(tag) - 1
    BY <1>1
  <2> QED
    BY <1>1, <1>3, <2>1
<1>5. Holds(image', tag) = Decoded(tag, regs)
  BY <1>4, HoldsIs
<1>7. image'[tag.area][tag.address] = regs[1]
  <2>1. tag.address \in tag.address..EndAddress(tag) /\ tag.address - tag.address + 1 = 1
    BY <1>1
  <2> QED
    BY <1>4, <2>1
<1>6. ASSUME NEW other \in tags,
             other.area # tag.area \/ EndAddress(other) < tag.address
                 \/ EndAddress(tag) < other.address
      PROVE  Holds(image', other) = Holds(image, other)
  <2>1. ASSUME NEW address \in other.address..EndAddress(other)
        PROVE  image'[other.area][address] = image[other.area][address]
    <3>1. /\ other.area \in Areas /\ other.address \in Nat /\ EndAddress(other) \in Nat
          /\ Sizes[other.area] \in Nat /\ EndAddress(other) \in 0..Sizes[other.area] - 1
      BY TagIs
    <3>2. address \in 0..Sizes[other.area] - 1
      BY <3>1
    <3>3. ~(other.area = tag.area /\ address \in tag.address..tag.address + Width(tag) - 1)
      BY <1>1, <1>6, <3>1
    <3> QED
      BY <1>3, <3>1, <3>2, <3>3
  <2> QED
    BY <2>1, HoldsSame
<1> QED
  BY <1>5, <1>6, <1>7

(* write_registers: the value reads back as the nearest that can be held,  *)
(* and no other tag reads differently.                                     *)
LEMMA RegistersStay ==
    ASSUME Inv PROVE RegistersLand
<1>1. tags \in Maps /\ IsValid(tags) /\ ImageOK(image)
  BY DEF Inv
<1> SUFFICES ASSUME NEW tag \in tags, NEW value \in ValuesFor(tag), WriteRegisters(tag, value)
             PROVE  /\ IsNearest(Holds(image', tag).value, tag, value)
                    /\ \A other \in tags \ {tag} : Holds(image', other) = Holds(image, other)
  BY DEF RegistersLand
<1>2. /\ Sent(tag, IF tag.type = "bool" THEN EncodeBool(value, tag, 0)
                   ELSE EncodeNumber(value, tag))
      /\ ~IsBitArea(tag.area) /\ tag.bit = None
  BY DEF WriteRegisters, IsBitArea
<1>3. Sent(tag, Encoded(tag, value))
  BY <1>2 DEF Encoded
<1>4. value \in Int /\ (tag.type = "bool" => value \in {0, 1})
  BY ValuesAre
<1>5. /\ Encoded(tag, value) \in [1..Width(tag) -> Cell(tag.area)]
      /\ IsNearest(ToEngineering(DecodeRegisters(Encoded(tag, value), tag), tag), tag, value)
  BY <1>1, <1>2, <1>4, EncodedIs
<1> DEFINE regs == Encoded(tag, value)
<1>6. Decoded(tag, regs).value = ToEngineering(DecodeRegisters(regs, tag), tag)
  BY <1>2 DEF Decoded, Good
<1>7. ASSUME NEW other \in tags \ {tag}
      PROVE  other.area # tag.area \/ EndAddress(other) < tag.address
                 \/ EndAddress(tag) < other.address
  BY <1>1, <1>2, TagsApart
<1> HIDE DEF regs
<1>8. /\ Holds(image', tag) = Decoded(tag, regs)
      /\ \A other \in tags \ {tag} : Holds(image', other) = Holds(image, other)
  BY <1>1, <1>3, <1>5, <1>7, StoredHolds DEF regs
<1> QED
  BY <1>5, <1>6, <1>8 DEF regs

(* write_coil: the coil reads back as the truth of the value, and no tag   *)
(* elsewhere reads differently.                                            *)
LEMMA CoilStays ==
    ASSUME Inv PROVE CoilLands
<1>1. tags \in Maps /\ IsValid(tags) /\ ImageOK(image)
  BY DEF Inv
<1> SUFFICES ASSUME NEW tag \in tags, NEW value \in ValuesFor(tag), WriteCoil(tag, value)
             PROVE  /\ Holds(image', tag).value = Truth(value)
                    /\ \A other \in tags :
                           ~SharesWord(other, tag) => Holds(image', other) = Holds(image, other)
  BY DEF CoilLands
<1> DEFINE regs == <<Truth(value)>>
<1>2. Sent(tag, regs) /\ tag.area = "coil" /\ IsBitArea(tag.area)
  BY DEF WriteCoil, IsBitArea
<1>3. regs \in [1..Width(tag) -> Cell(tag.area)]
  BY <1>2 DEF Width, Cell, Truth
<1>4. Decoded(tag, regs).value = Truth(value)
  BY <1>2 DEF Decoded, Good
<1>5. ASSUME NEW other \in tags, ~SharesWord(other, tag)
      PROVE  other.area # tag.area \/ EndAddress(other) < tag.address
                 \/ EndAddress(tag) < other.address
  <2>1. other # tag
    BY <1>5 DEF SharesWord
  <2> QED
    BY <1>1, <1>5, <2>1, TagsApart DEF SharesWord
<1> HIDE DEF regs
<1> QED
  BY <1>1, <1>2, <1>3, <1>4, <1>5, StoredHolds

(* A bit of byte order "big" that is decoded from a word.                  *)
LEMMA BitDecoded ==
    ASSUME NEW tag, tag.type = "bool", tag.bit # None, tag.byte = "big", ~IsBitArea(tag.area),
           NEW word
    PROVE  Decoded(tag, <<word>>) = Good(BitFromWord(word, tag.bit))
  BY DEF Decoded, DecodeRegisters, ToEngineering

(* The read-modify-write of a bit: the bit reads back, its neighbours in   *)
(* the word read as they did when the word was read, and no other tag      *)
(* differs.                                                                *)
LEMMA BitStays ==
    ASSUME Inv PROVE BitLands
<1>1. tags \in Maps /\ IsValid(tags) /\ ImageOK(image) /\ PendingOK
  BY DEF Inv
<1> SUFFICES ASSUME WriteWord, pending.tag.byte = "big"
             PROVE  /\ Holds(image', pending.tag).value = pending.value
                    /\ \A other \in tags \ {pending.tag} :
                           IF SharesWord(other, pending.tag)
                           THEN other.byte = "big" =>
                                    Holds(image', other) = Decoded(other, <<pending.word>>)
                           ELSE Holds(image', other) = Holds(image, other)
  BY DEF BitLands
<1> DEFINE tag == pending.tag
           value == pending.value
           word == pending.word
           new == WordFromBit(tag.bit, value, word)
<1>2. /\ tag \in tags /\ tag.area = "holding" /\ tag.bit # None
      /\ value \in {0, 1} /\ word \in Register
      /\ Sent(tag, EncodeBool(value, tag, word))
  BY <1>1 DEF WriteWord, PendingOK
<1>3. tag.byte = "big"
  OBVIOUS
<1> HIDE DEF tag, value, word
<1>4. /\ tag.type = "bool" /\ tag.bit \in Bits /\ ~IsBitArea(tag.area)
      /\ Width(tag) = 1 /\ Cell(tag.area) = Register
  <2>1. tag.type = "bool" /\ tag.bit \in Bits
    BY <1>1, <1>2, TagIs
  <2> QED
    BY <1>2, <2>1 DEF IsBitArea, Width, RegisterCount, Cell
<1>5. EncodeBool(value, tag, word) = <<new>>
  BY <1>2, <1>3 DEF EncodeBool
<1>6. /\ new \in Register /\ BitFromWord(new, tag.bit) = value
      /\ \A bit \in Bits \ {tag.bit} : BitFromWord(new, bit) = BitFromWord(word, bit)
  BY <1>2, <1>4, BitIsPut
<1> HIDE DEF new
<1>7. <<new>> \in [1..Width(tag) -> Cell(tag.area)] /\ Sent(tag, <<new>>)
  BY <1>2, <1>4, <1>5, <1>6
<1>8. /\ Holds(image', tag) = Decoded(tag, <<new>>)
      /\ image'[tag.area][tag.address] = new
      /\ \A other \in tags :
             other.area # tag.area \/ EndAddress(other) < tag.address
                 \/ EndAddress(tag) < other.address =>
                     Holds(image', other) = Holds(image, other)
  <2> DEFINE regs == <<new>>
  <2>1. regs \in [1..Width(tag) -> Cell(tag.area)] /\ Sent(tag, regs) /\ regs[1] = new
    BY <1>7
  <2> HIDE DEF regs
  <2>2. /\ Holds(image', tag) = Decoded(tag, regs)
        /\ image'[tag.area][tag.address] = regs[1]
        /\ \A other \in tags :
               other.area # tag.area \/ EndAddress(other) < tag.address
                   \/ EndAddress(tag) < other.address =>
                       Holds(image', other) = Holds(image, other)
    BY <1>1, <1>2, <2>1, StoredHolds
  <2> QED
    BY <2>1, <2>2 DEF regs
<1>9. Holds(image', tag).value = value
  <2>1. Decoded(tag, <<new>>) = Good(BitFromWord(new, tag.bit))
    BY <1>2, <1>3, <1>4, BitDecoded
  <2> QED
    BY <1>6, <1>8, <2>1 DEF Good
<1>10. ASSUME NEW other \in tags \ {tag}, SharesWord(other, tag), other.byte = "big"
       PROVE  Holds(image', other) = Decoded(other, <<word>>)
  <2>1. other.area = tag.area /\ other.address = tag.address
    BY <1>10 DEF SharesWord
  <2>2. /\ other.address \in Nat /\ Width(other) \in {1, 2}
        /\ EndAddress(other) = other.address + Width(other) - 1
        /\ tag.address \in Nat /\ EndAddress(tag) = tag.address + Width(tag) - 1
    BY <1>1, <1>2, TagIs
  <2>3. other.bit # None /\ other.bit # tag.bit
    BY <1>1, <1>2, <1>4, <2>1, <2>2, TagsApart
  <2>4. other.type = "bool" /\ other.bit \in Bits
    BY <1>1, <2>3, TagIs
  <2>5. Width(other) = 1
    BY <2>4 DEF Width, RegisterCount
  <2>6. image'[tag.area][tag.address] = new
    BY <1>8
  <2>7. Holds(image', other) = Decoded(other, <<new>>)
    <3>1. Request(image', other.area, other.address, Width(other)) = <<new>>
      <4>1. other.address + 1 - 1 = other.address
        BY <2>2
      <4> QED
        BY <2>1, <2>5, <2>6, <4>1 DEF Request
    <3> QED
      BY <3>1 DEF Holds
  <2>8. ~IsBitArea(other.area)
    BY <1>4, <2>1
  <2>9. /\ Decoded(other, <<new>>) = Good(BitFromWord(new, other.bit))
        /\ Decoded(other, <<word>>) = Good(BitFromWord(word, other.bit))
    BY <1>10, <2>3, <2>4, <2>8, BitDecoded
  <2> QED
    BY <1>6, <2>3, <2>4, <2>7, <2>9
<1>11. ASSUME NEW other \in tags \ {tag}, ~SharesWord(other, tag)
       PROVE  Holds(image', other) = Holds(image, other)
  <2>1. other.area # tag.area \/ EndAddress(other) < tag.address
            \/ EndAddress(tag) < other.address
    BY <1>1, <1>2, <1>11, TagsApart DEF SharesWord
  <2> QED
    BY <1>8, <2>1
<1> QED
  BY <1>9, <1>10, <1>11 DEF tag, value, word

(* What the controller renders reads back, of bits of one word in byte     *)
(* order "big".                                                            *)
LEMMA ImageIsShown ==
    ASSUME Inv, process' \in Processes PROVE ImageShows
<1>1. tags \in Maps /\ IsValid(tags) /\ ImageOK(image)
  BY DEF Inv
<1>2. ASSUME NEW values \in Processes, image' = Rendered(values), NEW tag \in tags, HasItsPlace(tag)
      PROVE  IF IsBitArea(tag.area)
             THEN image'[tag.area][tag.address] = Truth(values[tag])
             ELSE IsNearest(Holds(image', tag).value, tag, values[tag])
  <2> DEFINE value == values[tag]
  <2>1. /\ tag.address \in Nat /\ Width(tag) \in {1, 2}
        /\ EndAddress(tag) = tag.address + Width(tag) - 1
        /\ tag.bit = None \/ tag.type = "bool"
    BY <1>1, TagIs
  <2>2. value \in Int /\ (tag.type = "bool" => value \in {0, 1})
    <3>1. value \in Signals(tag)
      BY DEF Processes
    <3> HIDE DEF value
    <3> QED
      BY <3>1, SignalIs
  <2>3. IsBitArea(tag.area) => tag.bit = None
    BY <1>2 DEF HasItsPlace
  <2>4. \A address \in tag.address..EndAddress(tag) :
            image'[tag.area][address] =
                IF ~IsBitArea(tag.area) /\ tag.bit # None THEN WordOf(tag, values)
                ELSE Encoded(tag, value)[address - tag.address + 1]
    BY <1>1, <1>2, <2>3, RenderedIs
  <2> HIDE DEF value
  <2>5. CASE IsBitArea(tag.area)
    <3>1. tag.address \in tag.address..EndAddress(tag) /\ tag.address - tag.address + 1 = 1
      BY <2>1
    <3>2. Encoded(tag, value) = <<Truth(value)>>
      BY <2>5 DEF Encoded
    <3>3. image'[tag.area][tag.address] = Encoded(tag, value)[tag.address - tag.address + 1]
      BY <2>4, <2>5, <3>1
    <3> QED
      BY <2>5, <3>1, <3>2, <3>3 DEF value
  <2>6. CASE ~IsBitArea(tag.area) /\ tag.bit = None
    <3>1. /\ Encoded(tag, value) \in [1..Width(tag) -> Cell(tag.area)]
          /\ IsNearest(ToEngineering(DecodeRegisters(Encoded(tag, value), tag), tag), tag, value)
      BY <1>1, <2>2, <2>6, EncodedIs
    <3> DEFINE regs == Encoded(tag, value)
    <3>2. Decoded(tag, regs).value = ToEngineering(DecodeRegisters(regs, tag), tag)
      BY <2>6 DEF Decoded, Good
    <3>3. \A address \in tag.address..EndAddress(tag) :
              image'[tag.area][address] = regs[address - tag.address + 1]
      BY <2>4, <2>6
    <3> HIDE DEF regs
    <3>4. Holds(image', tag) = Decoded(tag, regs)
      BY <1>1, <3>1, <3>3, HoldsIs DEF regs
    <3> QED
      BY <2>6, <3>1, <3>2, <3>4 DEF regs, value
  <2>7. CASE ~IsBitArea(tag.area) /\ tag.bit # None
    <3> DEFINE word == WordOf(tag, values)
               regs == <<word>>
    <3>1. \A other \in tags : SharesWord(other, tag) => other.byte = "big"
      BY <1>2, <2>7 DEF HasItsPlace
    <3>2. tag.byte = "big" /\ tag.type = "bool"
      BY <2>1, <2>7, <3>1 DEF SharesWord
    <3>3. word \in Register /\ BitFromWord(word, tag.bit) = value
      BY <1>1, <2>7, <3>1, WordHasItsBits DEF value
    <3> HIDE DEF word
    <3>4. Width(tag) = 1 /\ Cell(tag.area) = Register
      BY <2>7, <3>2 DEF Width, RegisterCount, Cell
    <3>5. regs \in [1..Width(tag) -> Cell(tag.area)] /\ regs[1] = word
      BY <3>3, <3>4
    <3>6. Decoded(tag, regs) = Good(value)
      BY <2>7, <3>2, <3>3, BitDecoded
    <3>7. ASSUME NEW address \in tag.address..EndAddress(tag)
          PROVE  image'[tag.area][address] = regs[address - tag.address + 1]
      <4>1. address - tag.address + 1 = 1
        BY <2>1, <3>4
      <4>2. image'[tag.area][address] = word
        BY <2>4, <2>7 DEF word
      <4> QED
        BY <3>5, <4>1, <4>2
    <3> HIDE DEF regs
    <3>8. Holds(image', tag) = Good(value)
      BY <1>1, <3>5, <3>6, <3>7, HoldsIs
    <3> QED
      BY <2>7, <3>2, <3>8 DEF Good, IsNearest, value
  <2> QED
    BY <2>5, <2>6, <2>7
<1> SUFFICES ASSUME SyncImage(process') PROVE
        \A tag \in tags : HasItsPlace(tag) =>
            IF IsBitArea(tag.area)
            THEN image'[tag.area][tag.address] = Truth(process'[tag])
            ELSE IsNearest(Holds(image', tag).value, tag, process'[tag])
  BY DEF ImageShows
<1>3. PICK values : values = process'
  OBVIOUS
<1>4. values \in Processes /\ image' = Rendered(values)
  BY <1>3 DEF SyncImage
<1> QED
  BY <1>2, <1>3, <1>4

(* A write that reaches the device, and what the device renders, read back *)
(* as the nearest that can be held, and disturb no other tag.              *)
THEOREM WritesAreHeld == Spec => WritesLand
<1> DEFINE Goal == RegistersLand /\ CoilLands /\ BitLands /\ ImageShows
<1>1. Inv /\ Inv' /\ [Next]_vars => [Goal]_vars
  <2> SUFFICES ASSUME Inv, Inv', [Next]_vars PROVE Goal \/ UNCHANGED vars
    OBVIOUS
  <2>1. RegistersLand
    BY RegistersStay
  <2>2. CoilLands /\ BitLands
    BY CoilStays, BitStays
  <2>3. CASE process' = None
    BY <2>1, <2>2, <2>3 DEF ImageShows
  <2>4. CASE process' # None
    <3>1. process' \in Processes'
      BY <2>4 DEF Inv
    <3>2. tags' = tags
      BY DEF Next, vars, Connect, Disconnect, StartRead, BlockAnswered, BlockFails, BlockRead,
             Write, WriteCoil, WriteRegisters, ReadWord, WriteWord, WriteFails, Sent, SyncImage
    <3>3. process' \in Processes
      BY <3>1, <3>2 DEF Processes, Signals
    <3> QED
      BY <2>1, <2>2, <3>3, ImageIsShown
  <2> QED
    BY <2>3, <2>4
<1>2. WritesLand <=> [][Goal]_vars
  BY DEF WritesLand
<1> HIDE DEF Goal
<1> QED
  BY <1>1, <1>2, InvHolds, PTL DEF Spec
=============================================================================
