--------------------------- MODULE FramingProofs ---------------------------
(***************************************************************************)
(* What the generated code writes, it reads back, for every width of a     *)
(* word and wherever in a buffer it stands; what lost its end is refused.  *)
(* The induction and recursion on numbers are those of CoinsProofs.        *)
(***************************************************************************)
EXTENDS Framing, CoinsProofs

(* Powers of two.                                                          *)
LEMMA PowEquation ==
  /\ Pow2[0] = 1
  /\ \A n \in Nat : Pow2[n] \in Nat \ {0} /\ Pow2[n + 1] = 2 * Pow2[n]
<1> DEFINE T == Nat \ {0}
           step == [p \in Nat \X T |-> 2 * p[2]]
           Eq(f) == f = [n \in Nat |-> IF n = 0 THEN 1 ELSE 2 * f[n - 1]]
<1>1. 1 \in T /\ \A x \in T : 2 * x \in T
  OBVIOUS
<1>2. step \in [Nat \X T -> T]
  BY <1>1
<1>3. \A n \in Nat, x \in T : step[<<n, x>>] = 2 * x
  OBVIOUS
<1> HIDE DEF step, T
<1>4. PICK g \in [Nat -> T] : Steps(g, 1, step)
  BY <1>1, <1>2, SequenceExists
<1>5. Eq(g)
  <2>1. ASSUME NEW n \in Nat PROVE g[n] = IF n = 0 THEN 1 ELSE 2 * g[n - 1]
    <3>1. CASE n = 0
      BY <1>4, <3>1 DEF Steps
    <3>2. CASE n # 0
      <4>1. n - 1 \in Nat /\ (n - 1) + 1 = n
        BY <3>2
      <4>2. g[(n - 1) + 1] = 2 * g[n - 1]
        BY <1>3, <1>4, <4>1 DEF Steps
      <4> QED BY <3>2, <4>1, <4>2
    <3> QED BY <3>1, <3>2
  <2> QED BY <2>1
<1>6. Eq(Pow2)
  <2>1. \E f : Eq(f)
    BY <1>5
  <2>2. Pow2 = CHOOSE f : Eq(f)
    BY DEF Pow2
  <2> HIDE DEF Eq
  <2> QED BY <2>1, <2>2
<1> DEFINE S == {n \in Nat : Pow2[n] \in T}
<1>7. Pow2[0] = 1
  BY <1>6
<1>8. ASSUME NEW n \in Nat PROVE Pow2[n + 1] = 2 * Pow2[n]
  <2>1. n + 1 \in Nat /\ n + 1 # 0 /\ (n + 1) - 1 = n
    OBVIOUS
  <2>2. Pow2[n + 1] = 2 * Pow2[(n + 1) - 1]
    BY <1>6, <2>1
  <2> QED BY <2>1, <2>2
<1>9. \A n \in Nat : n \in S
  <2>1. 0 \in S
    BY <1>1, <1>7
  <2>2. ASSUME NEW n \in Nat, n \in S PROVE n + 1 \in S
    BY <1>1, <1>8, <2>2
  <2> HIDE DEF S
  <2> QED BY <2>1, <2>2, InductionOnNat
<1> QED
  BY <1>7, <1>8, <1>9 DEF T

LEMMA PowGrows ==
  ASSUME NEW m \in Nat, NEW n \in Nat, m <= n
  PROVE  Pow2[m] <= Pow2[n]
<1> DEFINE S == {i \in Nat : Pow2[m] <= Pow2[m + i]}
<1>1. 0 \in S
  BY PowEquation
<1>2. ASSUME NEW i \in Nat, i \in S PROVE i + 1 \in S
  <2>1. m + i \in Nat /\ m + (i + 1) = (m + i) + 1
    OBVIOUS
  <2>2. Pow2[m + (i + 1)] = 2 * Pow2[m + i] /\ Pow2[m + i] \in Nat /\ Pow2[m] \in Nat
    BY <2>1, PowEquation
  <2> QED BY <1>2, <2>2
<1>3. \A i \in Nat : i \in S
  <2> HIDE DEF S
  <2> QED BY <1>1, <1>2, InductionOnNat
<1>4. n - m \in S /\ m + (n - m) = n
  BY <1>3
<1> QED
  BY <1>4

(* A group of 7 bits.                                                      *)
LEMMA PowOfGroup ==
  ASSUME NEW i \in Nat
  PROVE  /\ Pow2[7 * i] \in Nat \ {0}
         /\ Pow2[7 * (i + 1)] = 128 * Pow2[7 * i]
<1> DEFINE m == 7 * i
<1>1. m \in Nat /\ 7 * (i + 1) = m + 7
  OBVIOUS
<1> HIDE DEF m
<1>2. /\ Pow2[m + 1] = 2 * Pow2[m] /\ Pow2[(m + 1) + 1] = 2 * Pow2[m + 1]
      /\ Pow2[(m + 2) + 1] = 2 * Pow2[m + 2] /\ Pow2[(m + 3) + 1] = 2 * Pow2[m + 3]
      /\ Pow2[(m + 4) + 1] = 2 * Pow2[m + 4] /\ Pow2[(m + 5) + 1] = 2 * Pow2[m + 5]
      /\ Pow2[(m + 6) + 1] = 2 * Pow2[m + 6] /\ Pow2[m] \in Nat \ {0}
  BY <1>1, PowEquation
<1>3. /\ (m + 1) + 1 = m + 2 /\ (m + 2) + 1 = m + 3 /\ (m + 3) + 1 = m + 4
      /\ (m + 4) + 1 = m + 5 /\ (m + 5) + 1 = m + 6 /\ (m + 6) + 1 = m + 7
  BY <1>1
<1>4. Pow2[m + 7] = 128 * Pow2[m]
  BY <1>2, <1>3
<1> QED
  BY <1>1, <1>2, <1>4 DEF m

LEMMA WordNumbers ==
  /\ WordBits \in Nat /\ TagBits \in Nat /\ MaxGroups \in Nat
  /\ Pow2[WordBits] \in Nat \ {0} /\ Pow2[WordBits - 1] \in Nat \ {0}
  /\ Pow2[WordBits] = 2 * Pow2[WordBits - 1]
  /\ WordBits <= 7 * MaxGroups /\ MaxGroups >= 1
<1>1. WordBits \in Nat /\ TagBits \in Nat /\ WordBits - 1 \in Nat /\ (WordBits - 1) + 1 = WordBits
  BY WireAssumption
<1>2. Pow2[(WordBits - 1) + 1] = 2 * Pow2[WordBits - 1] /\ Pow2[WordBits - 1] \in Nat \ {0}
      /\ Pow2[WordBits] \in Nat \ {0}
  BY <1>1, PowEquation
<1>3. MaxGroups \in Nat /\ WordBits <= 7 * MaxGroups /\ MaxGroups >= 1
  BY <1>1, WireAssumption DEF MaxGroups
<1> QED
  BY <1>1, <1>2, <1>3

-----------------------------------------------------------------------------
(* The loop of the encoder.                                                *)

LEMMA GroupDivision ==
  ASSUME NEW n \in Nat
  PROVE  /\ n \div 128 \in Nat /\ n % 128 \in Nat /\ n % 128 < 128
         /\ n = 128 * (n \div 128) + (n % 128)
OBVIOUS

LEMMA RestEquation ==
  ASSUME NEW v \in Nat
  PROVE  /\ Rest(v)[0] = v
         /\ \A i \in Nat : /\ Rest(v)[i] \in Nat
                           /\ Rest(v)[i + 1] = Rest(v)[i] \div 128
<1> DEFINE step == [p \in Nat \X Nat |-> p[2] \div 128]
           Eq(f) == f = [i \in Nat |-> IF i = 0 THEN v ELSE f[i - 1] \div 128]
<1>1. \A x \in Nat : x \div 128 \in Nat
  BY GroupDivision
<1>2. step \in [Nat \X Nat -> Nat]
  BY <1>1
<1>3. \A n \in Nat, x \in Nat : step[<<n, x>>] = x \div 128
  OBVIOUS
<1> HIDE DEF step
<1>4. PICK g \in [Nat -> Nat] : Steps(g, v, step)
  BY <1>2, SequenceExists
<1>5. Eq(g)
  <2>1. ASSUME NEW n \in Nat PROVE g[n] = IF n = 0 THEN v ELSE g[n - 1] \div 128
    <3>1. CASE n = 0
      BY <1>4, <3>1 DEF Steps
    <3>2. CASE n # 0
      <4>1. n - 1 \in Nat /\ (n - 1) + 1 = n
        BY <3>2
      <4>2. g[(n - 1) + 1] = step[<<n - 1, g[n - 1]>>] /\ g[n - 1] \in Nat
        BY <1>4, <4>1, Zenon DEF Steps
      <4>3. g[(n - 1) + 1] = g[n - 1] \div 128
        BY <1>3, <4>1, <4>2, Zenon
      <4> QED BY <3>2, <4>1, <4>3
    <3> QED BY <3>1, <3>2
  <2> QED BY <2>1
<1>6. Eq(Rest(v))
  <2>1. \E f : Eq(f)
    BY <1>5
  <2>2. Rest(v) = CHOOSE f : Eq(f)
    BY DEF Rest
  <2> HIDE DEF Eq
  <2> QED BY <2>1, <2>2
<1> DEFINE r == Rest(v)
           S == {n \in Nat : r[n] \in Nat}
<1>7. r = [i \in Nat |-> IF i = 0 THEN v ELSE r[i - 1] \div 128]
  BY <1>6
<1> HIDE DEF r
<1>8. r[0] = v
  BY <1>7
<1>9. ASSUME NEW n \in Nat PROVE r[n + 1] = r[n] \div 128
  <2>1. n + 1 \in Nat /\ n + 1 # 0 /\ (n + 1) - 1 = n
    OBVIOUS
  <2>2. r[n + 1] = r[(n + 1) - 1] \div 128
    BY <1>7, <2>1
  <2> QED BY <2>1, <2>2
<1>10. \A n \in Nat : n \in S
  <2>1. 0 \in S
    BY <1>8
  <2>2. ASSUME NEW n \in Nat, n \in S PROVE n + 1 \in S
    BY <1>1, <1>9, <2>2
  <2> HIDE DEF S
  <2> QED BY <2>1, <2>2, InductionOnNat
<1> QED
  BY <1>8, <1>9, <1>10 DEF r

(* After i groups, v is what is left and 7 * i lower bits.                 *)
LEMMA RestBounds ==
  ASSUME NEW v \in Nat
  PROVE  \A i \in Nat : /\ Rest(v)[i] * Pow2[7 * i] <= v
                        /\ v < (Rest(v)[i] + 1) * Pow2[7 * i]
<1> DEFINE r == Rest(v)
           S == {i \in Nat : r[i] * Pow2[7 * i] <= v /\ v < (r[i] + 1) * Pow2[7 * i]}
<1>0. r[0] = v /\ \A i \in Nat : r[i] \in Nat /\ r[i + 1] = r[i] \div 128
  BY RestEquation
<1> HIDE DEF r
<1>1. 0 \in S
  <2>1. 7 * 0 = 0 /\ Pow2[0] = 1
    BY PowEquation
  <2> QED BY <1>0, <2>1
<1>2. ASSUME NEW i \in Nat, i \in S PROVE i + 1 \in S
  <2> DEFINE p == Pow2[7 * i]
             x == r[i]
             q == x \div 128
             m == x % 128
  <2>1. p \in Nat \ {0} /\ Pow2[7 * (i + 1)] = 128 * p
    BY PowOfGroup
  <2>2. x \in Nat /\ q \in Nat /\ m \in Nat /\ m < 128 /\ x = 128 * q + m /\ r[i + 1] = q
    <3>1. x \in Nat /\ r[i + 1] = q
      BY <1>0
    <3> HIDE DEF x
    <3>2. q \in Nat /\ m \in Nat /\ m < 128 /\ x = 128 * q + m
      BY <3>1, GroupDivision
    <3> QED BY <3>1, <3>2
  <2>3. x * p <= v /\ v < (x + 1) * p
    BY <1>2
  <2> HIDE DEF p, x, q, m
  <2>4. q * (128 * p) <= x * p
    <3>1. x * p = q * (128 * p) + m * p /\ m * p \in Nat
      BY <2>1, <2>2
    <3> QED BY <2>1, <2>2, <3>1
  <2>5. (x + 1) * p <= (q + 1) * (128 * p)
    <3>1. (q + 1) * (128 * p) = (x + 1) * p + (127 - m) * p /\ (127 - m) * p \in Nat
      BY <2>1, <2>2
    <3> QED BY <2>1, <2>2, <3>1
  <2>6. q * (128 * p) \in Nat /\ x * p \in Nat /\ (x + 1) * p \in Nat
        /\ (q + 1) * (128 * p) \in Nat
    BY <2>1, <2>2
  <2>7. q * (128 * p) <= v /\ v < (q + 1) * (128 * p)
    BY <2>3, <2>4, <2>5, <2>6
  <2> QED BY <2>1, <2>2, <2>7
<1>3. \A i \in Nat : i \in S
  <2> HIDE DEF S
  <2> QED BY <1>1, <1>2, InductionOnNat
<1> QED
  BY <1>3 DEF r

LEMMA WordsAreNumbers ==
  ASSUME NEW v \in UInt64
  PROVE  v \in Nat /\ v < Pow2[WordBits]
BY WordNumbers DEF UInt64

(* A word has at most MaxGroups groups.                                    *)
LEMMA LastGroupFits ==
  ASSUME NEW v \in UInt64
  PROVE  MaxGroups - 1 \in Nat /\ Rest(v)[MaxGroups - 1] < 128
<1> DEFINE m == MaxGroups - 1
           x == Rest(v)[m]
           p == Pow2[7 * m]
<1>1. v \in Nat /\ v < Pow2[WordBits]
  BY WordsAreNumbers
<1>2. m \in Nat /\ m + 1 = MaxGroups /\ WordBits \in Nat /\ 7 * (m + 1) \in Nat
      /\ WordBits <= 7 * (m + 1)
  BY WordNumbers
<1>3. p \in Nat \ {0} /\ Pow2[7 * (m + 1)] = 128 * p
  BY <1>2, PowOfGroup
<1>4. Pow2[WordBits] <= 128 * p /\ Pow2[WordBits] \in Nat
  BY <1>2, <1>3, PowGrows, WordNumbers
<1>5. x \in Nat /\ x * p <= v
  BY <1>1, <1>2, RestEquation, RestBounds
<1> HIDE DEF x, p
<1>6. x * p < 128 * p
  BY <1>1, <1>3, <1>4, <1>5
<1>7. x < 128
  BY <1>3, <1>5, <1>6
<1> QED
  BY <1>2, <1>7 DEF x

LEMMA ContinuedIs ==
  ASSUME NEW v \in UInt64
  PROVE  /\ Continued(v) \in Nat /\ Continued(v) < MaxGroups
         /\ Rest(v)[Continued(v)] < 128
         /\ \A i \in 0..(Continued(v) - 1) : Rest(v)[i] >= 128
<1> DEFINE r == Rest(v)
           Fit == {n \in Nat : r[n] < 128}
           First(n) == r[n] < 128 /\ \A i \in 0..(n - 1) : r[i] >= 128
<1>1. v \in Nat /\ MaxGroups \in Nat
  BY WordsAreNumbers, WordNumbers
<1>2. \A i \in Nat : r[i] \in Nat
  BY <1>1, RestEquation
<1>3. MaxGroups - 1 \in Fit
  BY LastGroupFits
<1>4. PICK n \in Fit : \A k \in Fit : n <= k
  <2>1. Fit \in SUBSET Nat /\ Fit # {}
    BY <1>3
  <2> HIDE DEF Fit
  <2> QED BY <2>1, LeastNatural
<1>5. n \in 0..MaxGroups /\ n < MaxGroups /\ n \in Nat
  BY <1>1, <1>3, <1>4
<1>6. First(n)
  <2>1. ASSUME NEW i \in 0..(n - 1) PROVE r[i] >= 128
    BY <1>2, <1>4, <1>5
  <2> QED BY <1>4, <2>1
<1>7. Continued(v) = CHOOSE k \in 0..MaxGroups : First(k)
  BY DEF Continued
<1>8. Continued(v) \in 0..MaxGroups /\ First(Continued(v))
  <2> HIDE DEF First
  <2> QED BY <1>5, <1>6, <1>7
<1> DEFINE c == Continued(v)
<1> HIDE DEF c
<1>9. c = n
  <2>1. c \in Nat /\ First(c) /\ n \in Nat
    BY <1>1, <1>5, <1>8 DEF c
  <2>2. ~(c < n)
    BY <1>2, <1>6, <2>1
  <2>3. ~(n < c)
    BY <1>2, <1>6, <2>1
  <2> QED BY <2>1, <2>2, <2>3
<1> QED
  BY <1>5, <1>8, <1>9 DEF c

LEMMA EncodedBytes ==
  ASSUME NEW v \in UInt64
  PROVE  /\ EncodeVarint(v) \in Seq(Byte)
         /\ Len(EncodeVarint(v)) = Continued(v) + 1
         /\ \A i \in 1..(Continued(v) + 1) :
              /\ EncodeVarint(v)[i] % 128 = Rest(v)[i - 1] % 128
              /\ EncodeVarint(v)[i] >= 128 <=> i <= Continued(v)
<1> DEFINE n == Continued(v)
           r == Rest(v)
           e == EncodeVarint(v)
<1>1. n \in Nat /\ r[n] < 128 /\ \A i \in 0..(n - 1) : r[i] >= 128
  BY ContinuedIs
<1>2. \A i \in Nat : r[i] \in Nat
  BY WordsAreNumbers, RestEquation
<1>3. e = [i \in 1..(n + 1) |-> IF i <= n THEN 128 + (r[i - 1] % 128) ELSE r[i - 1]]
  BY DEF EncodeVarint
<1> HIDE DEF e, n, r
<1>4. ASSUME NEW i \in 1..(n + 1)
      PROVE  e[i] \in Byte /\ e[i] % 128 = r[i - 1] % 128 /\ (e[i] >= 128 <=> i <= n)
  <2> DEFINE x == r[i - 1]
             m == x % 128
  <2>1. i \in Nat /\ i - 1 \in Nat /\ x \in Nat /\ m \in Nat /\ m < 128
    BY <1>1, <1>2
  <2>2. CASE i <= n
    <3>1. e[i] = 128 + m
      BY <1>3, <2>2
    <3>2. (128 + m) % 128 = m
      <4> HIDE DEF m
      <4> QED BY <2>1
    <3> QED BY <2>1, <2>2, <3>1, <3>2 DEF Byte
  <2>3. CASE ~(i <= n)
    <3>1. i - 1 = n
      BY <1>1, <2>1, <2>3
    <3>2. e[i] = x /\ x < 128
      BY <1>1, <1>3, <2>3, <3>1
    <3> QED BY <2>1, <2>3, <3>2 DEF Byte
  <2> QED BY <2>2, <2>3
<1>5. e \in Seq(Byte) /\ Len(e) = n + 1
  <2>1. n + 1 \in Nat
    BY <1>1
  <2>2. e \in [1..(n + 1) -> Byte]
    BY <1>3, <1>4
  <2> QED BY <2>1, <2>2
<1> QED
  BY <1>4, <1>5 DEF e, n, r

-----------------------------------------------------------------------------
(* Reading at a place of a buffer.                                         *)

(* The bytes of part are in the buffer, from the place at on.              *)
StandsAt(buffer, at, part) ==
  /\ at + Len(part) - 1 <= Len(buffer)
  /\ \A i \in 1..Len(part) : buffer[at + i - 1] = part[i]

(* The buffer has the first bytes of part from at on, and ends there.      *)
EndsWithin(buffer, at, part) ==
  /\ at - 1 <= Len(buffer) /\ Len(buffer) < at + Len(part) - 1
  /\ \A i \in 1..(Len(buffer) - at + 1) : buffer[at + i - 1] = part[i]

LEMMA ConcatTwice ==
  ASSUME NEW p \in Seq(Byte), NEW q \in Seq(Byte), NEW r \in Seq(Byte)
  PROVE  (p \o q) \o r = p \o (q \o r)
<1> DEFINE x == (p \o q) \o r
           y == p \o (q \o r)
           k == Len(p)
           l == Len(q)
           m == Len(r)
<1>1. k \in Nat /\ l \in Nat /\ m \in Nat
  OBVIOUS
<1>2. /\ p \o q \in Seq(Byte) /\ Len(p \o q) = k + l
      /\ q \o r \in Seq(Byte) /\ Len(q \o r) = l + m
  OBVIOUS
<1>3. x \in Seq(Byte) /\ y \in Seq(Byte) /\ Len(x) = (k + l) + m /\ Len(y) = k + (l + m)
  BY <1>2
<1>4. ASSUME NEW i \in 1..Len(x) PROVE x[i] = y[i]
  <2>1. CASE i <= k
    <3>1. x[i] = (p \o q)[i] /\ (p \o q)[i] = p[i]
      BY <1>1, <1>2, <1>3, <2>1
    <3>2. y[i] = p[i]
      BY <1>1, <1>2, <1>3, <2>1
    <3> QED BY <3>1, <3>2
  <2>2. CASE i > k /\ i <= k + l
    <3>1. x[i] = (p \o q)[i] /\ (p \o q)[i] = q[i - k]
      BY <1>1, <1>2, <1>3, <2>2
    <3>2. y[i] = (q \o r)[i - k]
      BY <1>1, <1>2, <1>3, <2>2
    <3>3. (q \o r)[i - k] = q[i - k]
      BY <1>1, <1>2, <1>3, <2>2
    <3> QED BY <3>1, <3>2, <3>3
  <2>3. CASE i > k + l
    <3>1. x[i] = r[i - (k + l)]
      BY <1>1, <1>2, <1>3, <2>3
    <3>2. y[i] = (q \o r)[i - k]
      BY <1>1, <1>2, <1>3, <2>3
    <3>3. (q \o r)[i - k] = r[(i - k) - l]
      BY <1>1, <1>2, <1>3, <2>3
    <3>4. (i - k) - l = i - (k + l)
      BY <1>1, <1>3
    <3> QED BY <3>1, <3>2, <3>3, <3>4
  <2> QED BY <1>1, <1>3, <2>1, <2>2, <2>3
<1>5. Len(x) = Len(y)
  BY <1>1, <1>3
<1>6. DOMAIN x = 1..Len(x) /\ DOMAIN y = 1..Len(y)
  BY <1>3
<1> HIDE DEF x, y
<1>7. x = [i \in DOMAIN x |-> x[i]] /\ y = [i \in DOMAIN y |-> y[i]]
  BY <1>3
<1>8. x = y
  BY <1>4, <1>5, <1>6, <1>7
<1> QED
  BY <1>8 DEF x, y

LEMMA ConcatStands ==
  ASSUME NEW before \in Seq(Byte), NEW part \in Seq(Byte), NEW after \in Seq(Byte)
  PROVE  StandsAt(before \o part \o after, Len(before) + 1, part)
<1> DEFINE b == before \o part \o after
<1>1. Len(before) \in Nat /\ Len(part) \in Nat /\ Len(after) \in Nat
  OBVIOUS
<1>2. before \o part \in Seq(Byte) /\ Len(before \o part) = Len(before) + Len(part)
  OBVIOUS
<1>3. Len(b) = Len(before) + Len(part) + Len(after)
  BY <1>1, <1>2
<1>4. ASSUME NEW i \in 1..Len(part) PROVE b[(Len(before) + 1) + i - 1] = part[i]
  <2>1. (Len(before) + 1) + i - 1 = Len(before) + i
    BY <1>1
  <2>2. Len(before) + i \in 1..Len(before \o part)
    BY <1>1, <1>2
  <2>3. b[Len(before) + i] = (before \o part)[Len(before) + i]
    BY <1>2, <2>2
  <2>4. (before \o part)[Len(before) + i] = part[i]
    BY <1>1, <2>2
  <2> QED BY <2>1, <2>3, <2>4
<1> QED
  BY <1>1, <1>3, <1>4 DEF StandsAt

LEMMA PartsStand ==
  ASSUME NEW b \in Seq(Byte), NEW at \in Nat, NEW p \in Seq(Byte), NEW q \in Seq(Byte),
         StandsAt(b, at, p \o q)
  PROVE  StandsAt(b, at, p) /\ StandsAt(b, at + Len(p), q)
<1> DEFINE m == Len(p)
           n == Len(q)
<1>1. m \in Nat /\ n \in Nat /\ Len(b) \in Nat /\ Len(p \o q) = m + n
  OBVIOUS
<1>2. /\ \A i \in 1..m : (p \o q)[i] = p[i]
      /\ \A i \in 1..n : (p \o q)[m + i] = q[i]
  BY <1>1
<1>3. at + (m + n) - 1 <= Len(b) /\ \A i \in 1..(m + n) : b[at + i - 1] = (p \o q)[i]
  BY <1>1 DEF StandsAt
<1>4. StandsAt(b, at, p)
  <2>1. at + m - 1 <= Len(b)
    BY <1>1, <1>3
  <2>2. ASSUME NEW i \in 1..m PROVE b[at + i - 1] = p[i]
    <3>1. i \in 1..(m + n)
      BY <1>1
    <3> QED BY <1>2, <1>3, <3>1
  <2> QED BY <2>1, <2>2 DEF StandsAt
<1>5. StandsAt(b, at + m, q)
  <2>1. (at + m) + n - 1 <= Len(b)
    BY <1>1, <1>3
  <2>2. ASSUME NEW i \in 1..n PROVE b[(at + m) + i - 1] = q[i]
    <3>1. m + i \in 1..(m + n) /\ (at + m) + i - 1 = at + (m + i) - 1
      BY <1>1
    <3> QED BY <1>2, <1>3, <3>1
  <2> QED BY <2>1, <2>2 DEF StandsAt
<1> QED
  BY <1>4, <1>5

(* A buffer that ends within two parts ends within one of them.            *)
LEMMA EndsInPart ==
  ASSUME NEW b \in Seq(Byte), NEW at \in Nat \ {0}, NEW p \in Seq(Byte), NEW q \in Seq(Byte),
         EndsWithin(b, at, p \o q)
  PROVE  \/ EndsWithin(b, at, p)
         \/ StandsAt(b, at, p) /\ EndsWithin(b, at + Len(p), q)
<1> DEFINE m == Len(p)
           n == Len(q)
           l == Len(b)
<1>1. m \in Nat /\ n \in Nat /\ l \in Nat /\ Len(p \o q) = m + n
  OBVIOUS
<1>2. /\ \A i \in 1..m : (p \o q)[i] = p[i]
      /\ \A i \in 1..n : (p \o q)[m + i] = q[i]
  BY <1>1
<1>3. /\ at - 1 <= l /\ l < at + (m + n) - 1
      /\ \A i \in 1..(l - at + 1) : b[at + i - 1] = (p \o q)[i]
  BY <1>1 DEF EndsWithin
<1>4. CASE l < at + m - 1
  <2>1. ASSUME NEW i \in 1..(l - at + 1) PROVE b[at + i - 1] = p[i]
    <3>1. i \in 1..m
      BY <1>1, <1>4
    <3> QED BY <1>2, <1>3, <3>1
  <2> QED BY <1>3, <1>4, <2>1 DEF EndsWithin
<1>5. CASE ~(l < at + m - 1)
  <2>1. at + m - 1 <= l
    BY <1>1, <1>5
  <2>2. ASSUME NEW i \in 1..m PROVE b[at + i - 1] = p[i]
    <3>1. i \in 1..(l - at + 1)
      BY <1>1, <2>1
    <3> QED BY <1>2, <1>3, <3>1
  <2>3. ASSUME NEW i \in 1..(l - (at + m) + 1) PROVE b[(at + m) + i - 1] = q[i]
    <3>1. m + i \in 1..(l - at + 1) /\ i \in 1..n /\ (at + m) + i - 1 = at + (m + i) - 1
      BY <1>1, <1>3
    <3> QED BY <1>2, <1>3, <3>1
  <2>4. (at + m) - 1 <= l /\ l < (at + m) + n - 1
    BY <1>1, <1>3, <2>1
  <2> QED BY <2>1, <2>2, <2>3, <2>4 DEF StandsAt, EndsWithin
<1> QED
  BY <1>4, <1>5

LEMMA BytesAreNumbers ==
  ASSUME NEW b \in Seq(Byte)
  PROVE  \A i \in 1..Len(b) : b[i] \in Byte /\ b[i] \in Nat
<1>1. \A i \in 1..Len(b) : b[i] \in Byte
  OBVIOUS
<1>2. Byte \subseteq Nat
  BY DEF Byte
<1> QED
  BY <1>1, <1>2

(* The groups of a buffer.                                                 *)
LEMMA GroupsEquation ==
  ASSUME NEW b \in Seq(Byte), NEW at \in Nat \ {0}
  PROVE  /\ at <= Len(b) + 1 => Groups(b, at)[0] = 0
         /\ \A k \in 1..(Len(b) - at + 1) :
              /\ Groups(b, at)[k - 1] \in Nat
              /\ Groups(b, at)[k] =
                   Groups(b, at)[k - 1] + (b[at + k - 1] % 128) * Pow2[7 * (k - 1)]
<1> DEFINE M == Len(b) - at + 1
           low == [k \in Nat |-> IF k + 1 <= M THEN (b[at + k] % 128) * Pow2[7 * k] ELSE 0]
           step == [p \in Nat \X Nat |-> p[2] + low[p[1]]]
           Group(k) == (b[at + k - 1] % 128) * Pow2[7 * (k - 1)]
           Eq(f) == f = [k \in 0..M |-> IF k = 0 THEN 0 ELSE f[k - 1] + Group(k)]
<1>0. M \in Int /\ at \in Nat /\ Len(b) \in Nat
  OBVIOUS
<1>1. ASSUME NEW k \in Nat PROVE low[k] \in Nat
  <2>1. CASE k + 1 <= M
    <3>1. at + k \in 1..Len(b)
      BY <1>0, <2>1
    <3>2. b[at + k] \in Nat
      BY <3>1, BytesAreNumbers
    <3>3. b[at + k] % 128 \in Nat /\ Pow2[7 * k] \in Nat
      BY <3>2, GroupDivision, PowOfGroup
    <3>4. low[k] = (b[at + k] % 128) * Pow2[7 * k]
      BY <2>1
    <3>5. \A x, y \in Nat : x * y \in Nat
      OBVIOUS
    <3> HIDE DEF low
    <3> QED BY <3>3, <3>4, <3>5
  <2>2. CASE ~(k + 1 <= M)
    BY <2>2
  <2> QED BY <2>1, <2>2
<1>2. \A k \in 1..M : low[k - 1] = Group(k)
  <2> SUFFICES ASSUME NEW k \in 1..M PROVE low[k - 1] = Group(k)
    OBVIOUS
  <2>1. k - 1 \in Nat /\ (k - 1) + 1 <= M /\ at + (k - 1) = at + k - 1
    BY <1>0
  <2> QED BY <2>1
<1> HIDE DEF low, Group
<1>3. step \in [Nat \X Nat -> Nat]
  BY <1>1
<1>4. \A n \in Nat, x \in Nat : step[<<n, x>>] = x + low[n]
  OBVIOUS
<1> HIDE DEF step
<1>5. PICK g \in [Nat -> Nat] : Steps(g, 0, step)
  BY <1>3, SequenceExists
<1> DEFINE h == [k \in 0..M |-> g[k]]
<1> HIDE DEF M
<1>6. Eq(h)
  <2>1. ASSUME NEW k \in 0..M
        PROVE  g[k] = IF k = 0 THEN 0 ELSE h[k - 1] + Group(k)
    <3>1. CASE k = 0
      BY <1>5, <3>1 DEF Steps
    <3>2. CASE k # 0
      <4>1. k - 1 \in Nat /\ (k - 1) + 1 = k /\ k - 1 \in 0..M /\ k \in 1..M
        BY <1>0, <3>2
      <4>2. g[(k - 1) + 1] = g[k - 1] + low[k - 1]
        BY <1>4, <1>5, <4>1 DEF Steps
      <4> QED BY <1>2, <3>2, <4>1, <4>2
    <3> QED BY <3>1, <3>2
  <2> QED BY <2>1
<1>7. Eq(Groups(b, at))
  <2>1. \E f : Eq(f)
    BY <1>6
  <2>2. Groups(b, at) = CHOOSE f : Eq(f)
    BY DEF Groups, Group, M
  <2> HIDE DEF Eq
  <2> QED BY <2>1, <2>2
<1> DEFINE r == Groups(b, at)
<1>8. r = [k \in 0..M |-> IF k = 0 THEN 0 ELSE r[k - 1] + Group(k)]
  BY <1>7
<1> HIDE DEF r
<1>9. 0 <= M => r[0] = 0
  BY <1>0, <1>8
<1>10. ASSUME NEW k \in 1..M
       PROVE  r[k] = r[k - 1] + low[k - 1]
  <2>1. k \in 0..M /\ k # 0
    BY <1>0
  <2> QED BY <1>2, <1>8, <2>1
<1>11. \A k \in Nat : k <= M => r[k] \in Nat
  <2> DEFINE S == {k \in Nat : k <= M => r[k] \in Nat}
  <2>1. 0 \in S
    BY <1>9
  <2>2. ASSUME NEW k \in Nat, k \in S PROVE k + 1 \in S
    <3> SUFFICES ASSUME k + 1 <= M PROVE r[k + 1] \in Nat
      OBVIOUS
    <3>1. k <= M /\ k + 1 \in 1..M /\ (k + 1) - 1 = k
      BY <1>0
    <3>2. r[k + 1] = r[k] + low[k]
      BY <1>10, <3>1
    <3>3. r[k] \in Nat
      BY <2>2, <3>1
    <3>4. low[k] \in Nat
      BY <1>1
    <3>5. \A x, y \in Nat : x + y \in Nat
      OBVIOUS
    <3> QED BY <3>2, <3>3, <3>4, <3>5, Zenon
  <2>3. \A k \in Nat : k \in S
    <3> HIDE DEF S
    <3> QED BY <2>1, <2>2, InductionOnNat
  <2> QED BY <2>3
<1>12. at <= Len(b) + 1 => r[0] = 0
  BY <1>0, <1>9 DEF M
<1>13. ASSUME NEW k \in 1..M
       PROVE  r[k - 1] \in Nat /\ r[k] = r[k - 1] + Group(k)
  <2>1. k - 1 \in Nat /\ k - 1 <= M
    BY <1>0
  <2>2. r[k - 1] \in Nat
    BY <1>11, <2>1
  <2>3. low[k - 1] = Group(k)
    BY <1>2
  <2> QED BY <1>10, <2>2, <2>3
<1> QED
  BY <1>12, <1>13 DEF r, M, Group

-----------------------------------------------------------------------------
(* Numbers.                                                                *)

LEMMA EndsOfVarint ==
  ASSUME NEW v \in UInt64, NEW b \in Seq(Byte), NEW at \in Nat \ {0},
         StandsAt(b, at, EncodeVarint(v))
  PROVE  Ends(b, at) = {Continued(v) + 1}
<1> DEFINE n == Continued(v)
           e == EncodeVarint(v)
<1>1. n \in Nat /\ n < MaxGroups /\ MaxGroups \in Nat
  BY ContinuedIs, WordNumbers
<1>2. Len(e) = n + 1 /\ \A i \in 1..(n + 1) : e[i] >= 128 <=> i <= n
  BY EncodedBytes
<1>3. at + (n + 1) - 1 <= Len(b) /\ \A i \in 1..(n + 1) : b[at + i - 1] = e[i]
  BY <1>2 DEF StandsAt
<1> HIDE DEF n, e
<1>4. ASSUME NEW i \in 1..(n + 1)
      PROVE  b[at + i - 1] \in Nat /\ (b[at + i - 1] >= 128 <=> i <= n)
  <2>1. at + i - 1 \in 1..Len(b)
    BY <1>1, <1>3
  <2>2. b[at + i - 1] \in Nat
    BY <2>1, BytesAreNumbers
  <2> QED BY <1>2, <1>3, <2>2
<1>5. n + 1 \in Ends(b, at)
  <2>1. n + 1 \in 1..MaxGroups
    BY <1>1
  <2>2. b[at + (n + 1) - 1] < 128
    <3>1. n + 1 \in 1..(n + 1) /\ ~(n + 1 <= n)
      BY <1>1
    <3>2. b[at + (n + 1) - 1] \in Nat /\ ~(b[at + (n + 1) - 1] >= 128)
      BY <1>4, <3>1
    <3> DEFINE x == b[at + (n + 1) - 1]
    <3> HIDE DEF x
    <3>3. x \in Nat /\ ~(x >= 128)
      BY <3>2 DEF x
    <3>4. x < 128
      BY <3>3
    <3> QED BY <3>4 DEF x
  <2>3. ASSUME NEW j \in 1..((n + 1) - 1) PROVE b[at + j - 1] >= 128
    <3>1. j \in 1..(n + 1) /\ j <= n
      BY <1>1
    <3> QED BY <1>4, <3>1
  <2> QED BY <1>3, <2>1, <2>2, <2>3 DEF Ends
<1>6. ASSUME NEW k \in Ends(b, at) PROVE k = n + 1
  <2>1. /\ k \in 1..MaxGroups /\ b[at + k - 1] < 128
        /\ \A j \in 1..(k - 1) : b[at + j - 1] >= 128
    BY DEF Ends
  <2>2. ~(k < n + 1)
    <3> SUFFICES ASSUME k < n + 1 PROVE FALSE
      OBVIOUS
    <3>1. k \in 1..(n + 1) /\ k <= n
      BY <1>1, <2>1
    <3> DEFINE x == b[at + k - 1]
    <3>2. x \in Nat /\ x >= 128 /\ x < 128
      BY <1>4, <2>1, <3>1
    <3> HIDE DEF x
    <3> QED BY <3>2
  <2>3. ~(k > n + 1)
    <3> SUFFICES ASSUME k > n + 1 PROVE FALSE
      OBVIOUS
    <3>1. n + 1 \in 1..(k - 1) /\ n + 1 \in 1..(n + 1) /\ ~(n + 1 <= n)
      BY <1>1, <2>1
    <3> QED BY <1>4, <2>1, <3>1
  <2> QED BY <1>1, <2>1, <2>2, <2>3
<1> QED
  BY <1>5, <1>6 DEF n

(* What has been read, and what is left to read, make the number.          *)
LEMMA GroupsOfVarint ==
  ASSUME NEW v \in UInt64, NEW b \in Seq(Byte), NEW at \in Nat \ {0},
         StandsAt(b, at, EncodeVarint(v))
  PROVE  Groups(b, at)[Continued(v) + 1] = v
<1> DEFINE n == Continued(v)
           e == EncodeVarint(v)
           r == Rest(v)
           g == Groups(b, at)
           S == {k \in Nat : g[k] \in Nat /\ g[k] + r[k] * Pow2[7 * k] = v}
<1>1. n \in Nat /\ r[n] < 128 /\ v \in Nat /\ Len(b) \in Nat
  BY ContinuedIs, WordsAreNumbers
<1>2. Len(e) = n + 1 /\ \A i \in 1..(n + 1) : e[i] % 128 = r[i - 1] % 128
  BY EncodedBytes
<1>3. at + (n + 1) - 1 <= Len(b) /\ \A i \in 1..(n + 1) : b[at + i - 1] = e[i]
  BY <1>2 DEF StandsAt
<1>4. r[0] = v /\ \A i \in Nat : r[i] \in Nat /\ r[i + 1] = r[i] \div 128
  BY <1>1, RestEquation
<1>5. /\ at <= Len(b) + 1 => g[0] = 0
      /\ \A k \in 1..(Len(b) - at + 1) :
           g[k] = g[k - 1] + (b[at + k - 1] % 128) * Pow2[7 * (k - 1)]
  BY GroupsEquation
<1> HIDE DEF n, e, r, g
<1>6. 0 \in S
  <2>1. g[0] = 0
    BY <1>1, <1>3, <1>5
  <2>2. 7 * 0 = 0 /\ Pow2[0] = 1
    BY PowEquation
  <2>3. 0 + v * 1 = v
    BY <1>1
  <2>4. g[0] + r[0] * Pow2[7 * 0] = v
    BY <1>4, <2>1, <2>2, <2>3
  <2> QED BY <2>1, <2>4
<1>7. ASSUME NEW k \in Nat, k < n + 1 /\ k \in S PROVE k + 1 \in S
  <2> DEFINE p == Pow2[7 * k]
             x == r[k]
             q == x \div 128
             m == x % 128
             y == g[k]
  <2>1. k + 1 \in 1..(Len(b) - at + 1) /\ (k + 1) - 1 = k /\ k + 1 \in 1..(n + 1)
    BY <1>1, <1>3, <1>7
  <2>2. b[at + (k + 1) - 1] % 128 = m
    BY <1>2, <1>3, <2>1
  <2>3. g[k + 1] = g[(k + 1) - 1] + (b[at + (k + 1) - 1] % 128) * Pow2[7 * ((k + 1) - 1)]
    BY <1>5, <2>1
  <2>4. g[k + 1] = y + m * p
    BY <2>1, <2>2, <2>3
  <2>5. p \in Nat \ {0} /\ Pow2[7 * (k + 1)] = 128 * p
    BY PowOfGroup
  <2>6. x \in Nat /\ q \in Nat /\ m \in Nat /\ m < 128 /\ x = 128 * q + m /\ r[k + 1] = q
    <3>1. x \in Nat /\ r[k + 1] = q
      BY <1>4
    <3> HIDE DEF x
    <3>2. q \in Nat /\ m \in Nat /\ m < 128 /\ x = 128 * q + m
      BY <3>1, GroupDivision
    <3> QED BY <3>1, <3>2
  <2>7. y \in Nat /\ y + x * p = v
    BY <1>7
  <2> HIDE DEF p, x, q, m, y
  <2>8. x * p = q * (128 * p) + m * p /\ m * p \in Nat /\ q * (128 * p) \in Nat
    BY <2>5, <2>6
  <2>9. y + m * p \in Nat /\ (y + m * p) + q * (128 * p) = v
    BY <2>7, <2>8
  <2>10. g[k + 1] \in Nat /\ g[k + 1] + r[k + 1] * Pow2[7 * (k + 1)] = v
    BY <2>4, <2>5, <2>6, <2>9
  <2> QED BY <2>10
<1>8. n + 1 \in S
  <2>1. n + 1 \in Nat
    BY <1>1
  <2>2. \A k \in 0..(n + 1) : k \in S
    <3> HIDE DEF S
    <3> QED BY <1>6, <1>7, <2>1, InductionUpTo
  <2> QED BY <2>1, <2>2
<1>9. r[n + 1] = 0
  <2> DEFINE x == r[n]
  <2>1. x \in Nat /\ x < 128 /\ r[n + 1] = x \div 128
    BY <1>1, <1>4
  <2> HIDE DEF x
  <2> QED BY <2>1
<1>10. 0 * Pow2[7 * (n + 1)] = 0
  <2>1. Pow2[7 * (n + 1)] \in Nat
    BY <1>1, PowOfGroup
  <2> QED BY <2>1
<1>11. g[n + 1] \in Nat /\ g[n + 1] + 0 = v
  BY <1>8, <1>9, <1>10
<1> DEFINE z == g[n + 1]
<1>12. z \in Nat /\ z + 0 = v
  BY <1>11
<1> HIDE DEF z
<1>13. z = v
  BY <1>12
<1> QED
  BY <1>13 DEF z, g, n

LEMMA WordFits ==
  ASSUME NEW v \in UInt64
  PROVE  Unsigned(v) = v
<1> DEFINE w == Pow2[WordBits]
<1>1. v \in Nat /\ v < w /\ w \in Nat \ {0}
  BY WordsAreNumbers, WordNumbers
<1> HIDE DEF w
<1>2. v % w = v
  BY <1>1
<1> QED
  BY <1>2 DEF Unsigned, w

(***************************************************************************)
(* The loop over shift in every Unmarshal reads what encodeVarint wrote:   *)
(* for every word, wherever it stands in a buffer and whatever follows,    *)
(* the number comes back and the place behind it is the next one.          *)
(***************************************************************************)
THEOREM VarintReadBack ==
  \A v \in UInt64, b \in Seq(Byte), at \in Nat \ {0} :
    StandsAt(b, at, EncodeVarint(v)) =>
      ReadVarint(b, at) = Read(v, at + Len(EncodeVarint(v)))
<1> SUFFICES ASSUME NEW v \in UInt64, NEW b \in Seq(Byte), NEW at \in Nat \ {0},
                    StandsAt(b, at, EncodeVarint(v))
             PROVE  ReadVarint(b, at) = Read(v, at + Len(EncodeVarint(v)))
  OBVIOUS
<1> DEFINE k == CHOOSE x \in Ends(b, at) : TRUE
<1>1. Ends(b, at) = {Continued(v) + 1}
  BY EndsOfVarint
<1>2. k = Continued(v) + 1
  BY <1>1
<1>3. ReadVarint(b, at) = Read(Unsigned(Groups(b, at)[k]), at + k)
  BY <1>1 DEF ReadVarint
<1> HIDE DEF k
<1>4. Groups(b, at)[k] = v /\ Unsigned(v) = v /\ Len(EncodeVarint(v)) = k
  BY <1>2, GroupsOfVarint, WordFits, EncodedBytes
<1> QED
  BY <1>3, <1>4

LEMMA NoEnd ==
  ASSUME NEW b \in Seq(Byte), NEW at \in Nat \ {0},
         \A i \in at..Len(b) : b[i] >= 128
  PROVE  ReadVarint(b, at) = Failed
<1>1. ASSUME NEW k \in Ends(b, at) PROVE FALSE
  <2>1. k \in 1..MaxGroups /\ at + k - 1 <= Len(b) /\ b[at + k - 1] < 128
    BY DEF Ends
  <2>2. at + k - 1 \in at..Len(b) /\ at + k - 1 \in 1..Len(b)
    BY <2>1, WordNumbers
  <2> DEFINE x == b[at + k - 1]
  <2>3. x \in Nat /\ x >= 128 /\ x < 128
    BY <2>1, <2>2, BytesAreNumbers
  <2> HIDE DEF x
  <2> QED BY <2>3
<1>2. Ends(b, at) = {}
  BY <1>1
<1> QED
  BY <1>2 DEF ReadVarint

(***************************************************************************)
(* A number whose last bytes are missing is never read as a smaller one:   *)
(* the loop runs into the end of the buffer and fails.                     *)
(***************************************************************************)
THEOREM CutVarintRefused ==
  \A v \in UInt64, b \in Seq(Byte), at \in Nat \ {0} :
    EndsWithin(b, at, EncodeVarint(v)) => ReadVarint(b, at) = Failed
<1> SUFFICES ASSUME NEW v \in UInt64, NEW b \in Seq(Byte), NEW at \in Nat \ {0},
                    EndsWithin(b, at, EncodeVarint(v))
             PROVE  ReadVarint(b, at) = Failed
  OBVIOUS
<1> DEFINE n == Continued(v)
           e == EncodeVarint(v)
<1>1. /\ Len(e) = n + 1 /\ n \in Nat /\ Len(b) \in Nat
      /\ \A i \in 1..(n + 1) : e[i] >= 128 <=> i <= n
  BY EncodedBytes, ContinuedIs
<1>2. /\ Len(b) < at + (n + 1) - 1
      /\ \A i \in 1..(Len(b) - at + 1) : b[at + i - 1] = e[i]
  BY <1>1 DEF EndsWithin
<1> HIDE DEF n, e
<1>3. ASSUME NEW i \in at..Len(b) PROVE b[i] >= 128
  <2> DEFINE j == i - at + 1
  <2>1. j \in 1..(Len(b) - at + 1) /\ at + j - 1 = i /\ j \in 1..(n + 1) /\ j <= n
    BY <1>1, <1>2
  <2> HIDE DEF j
  <2>2. b[at + j - 1] >= 128
    BY <1>1, <1>2, <2>1
  <2> QED BY <2>1, <2>2
<1> QED
  BY <1>3, NoEnd

(* The width of a word in bits decides how many groups it has.             *)
LEMMA BitLenIs ==
  ASSUME NEW x \in UInt64
  PROVE  /\ BitLen(x) \in 1..WordBits /\ x < Pow2[BitLen(x)]
         /\ BitLen(x) = 1 \/ Pow2[BitLen(x) - 1] <= x
<1> DEFINE Wide == {n \in Nat : n >= 1 /\ x < Pow2[n]}
           Fits(n) == x < Pow2[n] /\ (n = 1 \/ Pow2[n - 1] <= x)
<1>1. x \in Nat /\ x < Pow2[WordBits] /\ WordBits \in Nat /\ WordBits >= 1
  BY WordsAreNumbers, WireAssumption
<1>2. WordBits \in Wide
  BY <1>1
<1>3. PICK n \in Wide : \A k \in Wide : n <= k
  <2>1. Wide \in SUBSET Nat /\ Wide # {}
    BY <1>2
  <2> HIDE DEF Wide
  <2> QED BY <2>1, LeastNatural
<1>4. n \in 1..WordBits
  BY <1>1, <1>2, <1>3
<1>5. Fits(n)
  <2>1. CASE n = 1
    BY <1>3, <2>1
  <2>2. CASE n # 1
    <3>1. n - 1 \in Nat /\ n - 1 >= 1 /\ ~(n <= n - 1)
      BY <1>1, <1>4, <2>2
    <3>2. n - 1 \notin Wide
      BY <1>3, <3>1
    <3>3. Pow2[n - 1] \in Nat
      BY <3>1, PowEquation
    <3>4. ~(x < Pow2[n - 1])
      BY <3>1, <3>2
    <3> DEFINE p == Pow2[n - 1]
    <3>5. p \in Nat /\ ~(x < p)
      BY <3>3, <3>4
    <3> HIDE DEF p
    <3>6. p <= x
      BY <1>1, <3>5
    <3> QED BY <1>3, <3>6 DEF p
  <2> QED BY <2>1, <2>2
<1>6. BitLen(x) = CHOOSE k \in 1..WordBits : Fits(k)
  BY DEF BitLen
<1>7. BitLen(x) \in 1..WordBits /\ Fits(BitLen(x))
  <2> HIDE DEF Fits
  <2> QED BY <1>4, <1>5, <1>6
<1> QED
  BY <1>7

(***************************************************************************)
(* encodeVarint steps back by sov(v) bytes and then writes forward: the    *)
(* loop fills exactly the bytes that Size reserved, so it neither leaves a *)
(* gap nor writes over the field behind it.                                *)
(***************************************************************************)
THEOREM VarintFillsItsPlace == \A v \in UInt64 : Len(EncodeVarint(v)) = Sov(v)
<1> SUFFICES ASSUME NEW v \in UInt64 PROVE Len(EncodeVarint(v)) = Sov(v)
  OBVIOUS
<1> DEFINE n == Continued(v)
           l == BitLen(v)
           s == Sov(v)
<1>1. /\ n \in Nat /\ Len(EncodeVarint(v)) = n + 1 /\ v \in Nat
      /\ Rest(v)[n] < 128 /\ \A i \in 0..(n - 1) : Rest(v)[i] >= 128
  BY ContinuedIs, EncodedBytes, WordsAreNumbers
<1>2. l \in Nat /\ l >= 1 /\ v < Pow2[l] /\ (l = 1 \/ Pow2[l - 1] <= v)
  BY BitLenIs, WordNumbers
<1>3. s \in Nat /\ s >= 1 /\ l <= 7 * s /\ 7 * s < l + 7
  <2> HIDE DEF l
  <2>1. s = (l + 6) \div 7
    BY DEF Sov, l
  <2> QED BY <1>2, <2>1
<1>4. \A i \in Nat : /\ Rest(v)[i] \in Nat /\ Rest(v)[i] * Pow2[7 * i] <= v
                     /\ v < (Rest(v)[i] + 1) * Pow2[7 * i]
                     /\ Pow2[7 * i] \in Nat \ {0} /\ Pow2[7 * (i + 1)] = 128 * Pow2[7 * i]
  <2>1. \A i \in Nat : Rest(v)[i] \in Nat
    BY <1>1, RestEquation, Zenon
  <2>2. \A i \in Nat : Rest(v)[i] * Pow2[7 * i] <= v /\ v < (Rest(v)[i] + 1) * Pow2[7 * i]
    BY <1>1, RestBounds, Zenon
  <2>3. \A i \in Nat : Pow2[7 * i] \in Nat \ {0} /\ Pow2[7 * (i + 1)] = 128 * Pow2[7 * i]
    BY PowOfGroup, Zenon
  <2> QED BY <2>1, <2>2, <2>3, Zenon
<1> HIDE DEF n, l, s
<1>5. v < Pow2[7 * (n + 1)]
  <2> DEFINE p == Pow2[7 * n]
             x == Rest(v)[n]
  <2>1. x \in Nat /\ x < 128 /\ p \in Nat \ {0} /\ v < (x + 1) * p
        /\ Pow2[7 * (n + 1)] = 128 * p
    BY <1>1, <1>4
  <2> HIDE DEF p, x
  <2>2. (x + 1) * p <= 128 * p
    BY <2>1
  <2>3. (x + 1) * p \in Nat /\ 128 * p \in Nat
    BY <2>1
  <2> QED BY <1>1, <2>1, <2>2, <2>3
<1>6. n >= 1 => Pow2[7 * n] <= v
  <2> SUFFICES ASSUME n >= 1 PROVE Pow2[7 * n] <= v
    OBVIOUS
  <2> DEFINE i == n - 1
             p == Pow2[7 * i]
             x == Rest(v)[i]
  <2>1. i \in Nat /\ i \in 0..(n - 1) /\ i + 1 = n
    BY <1>1
  <2>2. x \in Nat /\ x >= 128 /\ p \in Nat \ {0} /\ x * p <= v /\ Pow2[7 * (i + 1)] = 128 * p
    BY <1>1, <1>4, <2>1
  <2> HIDE DEF p, x
  <2>3. 128 * p <= x * p
    BY <2>2
  <2>4. x * p \in Nat /\ 128 * p \in Nat
    BY <2>2
  <2>5. 128 * p <= v
    BY <1>1, <2>2, <2>3, <2>4
  <2> QED BY <2>1, <2>2, <2>5
<1>7. ~(s > n + 1)
  <2> SUFFICES ASSUME s > n + 1 PROVE FALSE
    OBVIOUS
  <2>1. 7 * (n + 1) \in Nat /\ l - 1 \in Nat /\ 7 * (n + 1) <= l - 1 /\ l # 1
    BY <1>1, <1>2, <1>3
  <2>2. Pow2[7 * (n + 1)] <= Pow2[l - 1]
    BY <2>1, PowGrows
  <2>3. Pow2[7 * (n + 1)] \in Nat /\ Pow2[l - 1] \in Nat
    BY <2>1, PowEquation
  <2> QED BY <1>1, <1>2, <1>5, <2>1, <2>2, <2>3
<1>8. ~(s < n + 1)
  <2> SUFFICES ASSUME s < n + 1 PROVE FALSE
    OBVIOUS
  <2>1. n >= 1 /\ 7 * n \in Nat /\ l <= 7 * n
    BY <1>1, <1>2, <1>3
  <2>2. Pow2[l] <= Pow2[7 * n]
    BY <1>2, <2>1, PowGrows
  <2>3. Pow2[l] \in Nat /\ Pow2[7 * n] \in Nat
    BY <1>2, <2>1, PowEquation
  <2> QED BY <1>1, <1>2, <1>6, <2>1, <2>2, <2>3
<1>9. n + 1 = s
  BY <1>1, <1>3, <1>7, <1>8
<1> QED
  BY <1>1, <1>9 DEF s

(***************************************************************************)
(* A signed number that uint64(v) turned into a word comes back from       *)
(* int64(...), the least one and -1 too.                                   *)
(***************************************************************************)
THEOREM SignKept ==
  \A v \in SInt64 : Unsigned(v) \in UInt64 /\ Signed(Unsigned(v), WordBits) = v
<1> SUFFICES ASSUME NEW v \in SInt64
             PROVE  Unsigned(v) \in UInt64 /\ Signed(Unsigned(v), WordBits) = v
  OBVIOUS
<1> DEFINE w == Pow2[WordBits]
           h == Pow2[WordBits - 1]
           u == v % w
<1>1. w \in Nat \ {0} /\ h \in Nat \ {0} /\ w = 2 * h
  BY WordNumbers
<1>2. v \in Int /\ -h <= v /\ v < h
  BY <1>1 DEF SInt64
<1> HIDE DEF w, h
<1>3. u \in Nat /\ u < w
  BY <1>1, <1>2
<1>4. v >= 0 => u = v
  BY <1>1, <1>2
<1>5. v < 0 => u = v + w
  BY <1>1, <1>2
<1> HIDE DEF u
<1>6. (IF u >= h THEN u - w ELSE u) = v
  BY <1>1, <1>2, <1>3, <1>4, <1>5
<1> QED
  BY <1>1, <1>3, <1>6 DEF Unsigned, Signed, UInt64, w, h, u

-----------------------------------------------------------------------------
(* Fields.  Their numbers are positive and fit into an int32, and a text   *)
(* is as long as an int can say.                                           *)

Numbered(f) == f.num \in 1..(Pow2[TagBits - 1] - 1)

Text == {t \in Seq(Byte) : Len(t) < Pow2[WordBits - 1]}

(* The read of a tag finds the field f and ends before the place next.     *)
TagFound(b, at, f) ==
  LET r == ReadVarint(b, at)
  IN /\ r.ok /\ r.next = at + Len(Tag(f))
     /\ FieldNum(r.value) = f.num /\ WireOf(r.value) = WireType(f.kind)

LEMMA TagIsWord ==
  ASSUME NEW f, Numbered(f)
  PROVE  /\ TagNumber(f) \in UInt64
         /\ FieldNum(TagNumber(f)) = f.num /\ WireOf(TagNumber(f)) = WireType(f.kind)
<1> DEFINE n == f.num
           t == WireType(f.kind)
           h == Pow2[TagBits - 1]
           p == Pow2[TagBits]
           w == Pow2[WordBits]
           x == TagNumber(f)
<1>1. /\ WordBits \in Nat /\ TagBits \in Nat /\ TagBits - 1 \in Nat /\ (TagBits - 1) + 1 = TagBits
      /\ TagBits + 1 \in Nat /\ (TagBits + 1) + 1 = TagBits + 2 /\ TagBits + 2 \in Nat
      /\ TagBits + 2 <= WordBits
  BY WireAssumption
<1>2. /\ Pow2[(TagBits - 1) + 1] = 2 * h /\ Pow2[TagBits + 1] = 2 * p
      /\ Pow2[(TagBits + 1) + 1] = 2 * Pow2[TagBits + 1] /\ h \in Nat \ {0} /\ w \in Nat
  BY <1>1, PowEquation
<1>3. Pow2[TagBits + 2] <= w
  BY <1>1, PowGrows
<1>4. p = 2 * h /\ 8 * h <= w
  <2>1. p = 2 * h
    BY <1>1, <1>2
  <2>2. Pow2[TagBits + 2] = 8 * h
    BY <1>1, <1>2, <2>1
  <2> QED BY <1>3, <2>1, <2>2
<1>5. n \in Nat /\ n >= 1 /\ n < h
  BY <1>2 DEF Numbered
<1>6. t \in Nat /\ t < 8 /\ x = n * 8 + t
  BY DEF WireType, TagNumber, Varint, Bytes
<1> HIDE DEF n, t, h, p, w, x
<1>7. x \in Nat /\ x < w /\ x \div 8 = n /\ x % 8 = t
  BY <1>2, <1>4, <1>5, <1>6
<1>8. n % p = n
  BY <1>2, <1>4, <1>5
<1>9. (x \div 8) % p = n
  BY <1>7, <1>8
<1>10. Signed(n, TagBits) = n
  <2>1. ~(n >= h)
    BY <1>2, <1>5
  <2> QED BY <2>1 DEF Signed, h
<1>11. FieldNum(x) = n
  BY <1>9, <1>10 DEF FieldNum, p
<1>12. x \in UInt64
  BY <1>2, <1>7 DEF UInt64, w
<1> QED
  BY <1>7, <1>11, <1>12 DEF WireOf, n, t, x

LEMMA TagReadBack ==
  ASSUME NEW f, Numbered(f), NEW b \in Seq(Byte), NEW at \in Nat \ {0},
         StandsAt(b, at, Tag(f))
  PROVE  TagFound(b, at, f)
<1> DEFINE x == TagNumber(f)
<1>1. x \in UInt64 /\ FieldNum(x) = f.num /\ WireOf(x) = WireType(f.kind)
  BY TagIsWord
<1>2. StandsAt(b, at, EncodeVarint(x)) /\ Tag(f) = EncodeVarint(x)
  BY DEF Tag
<1> HIDE DEF x
<1>3. ReadVarint(b, at) = Read(x, at + Len(Tag(f)))
  BY <1>1, <1>2, VarintReadBack
<1> QED
  BY <1>1, <1>3 DEF TagFound, Read

LEMMA TagBytes ==
  ASSUME NEW f, Numbered(f)
  PROVE  Tag(f) \in Seq(Byte) /\ Len(Tag(f)) \in Nat
BY TagIsWord, EncodedBytes DEF Tag

LEMMA LengthIsWord ==
  ASSUME NEW t \in Text
  PROVE  /\ t \in Seq(Byte) /\ Len(t) \in Nat /\ Len(t) \in UInt64
         /\ Signed(Len(t), WordBits) = Len(t)
<1> DEFINE n == Len(t)
           h == Pow2[WordBits - 1]
           w == Pow2[WordBits]
<1>1. t \in Seq(Byte) /\ n \in Nat /\ n < h
  BY DEF Text
<1>2. h \in Nat \ {0} /\ w = 2 * h
  BY WordNumbers
<1> HIDE DEF n, h, w
<1>3. n \in 0..(w - 1) /\ ~(n >= h)
  BY <1>1, <1>2
<1> QED
  BY <1>1, <1>3 DEF n, h, w, UInt64, Signed

(* Bytes that stand in a buffer are the part of it from their place on.    *)
LEMMA StandsIsPart ==
  ASSUME NEW b \in Seq(Byte), NEW at \in Nat \ {0}, NEW t \in Seq(Byte), StandsAt(b, at, t)
  PROVE  SubSeq(b, at, at + Len(t) - 1) = t
<1> DEFINE n == Len(t)
           s == SubSeq(b, at, at + n - 1)
<1>0. n \in Nat /\ Len(b) \in Nat
  OBVIOUS
<1>1. n \in Nat /\ Len(b) \in Nat /\ at + n - 1 <= Len(b)
      /\ \A i \in 1..n : b[at + i - 1] = t[i]
  BY <1>0, Zenon DEF StandsAt
<1>2. s = [i \in 1..n |-> b[at + i - 1]]
  <2>1. s = [i \in 1..((at + n - 1) - at + 1) |-> b[i + at - 1]]
    BY <1>1
  <2>2. (at + n - 1) - at + 1 = n /\ \A i \in 1..n : i + at - 1 = at + i - 1
    BY <1>1
  <2> QED BY <2>1, <2>2
<1>3. t = [i \in 1..n |-> t[i]]
  OBVIOUS
<1> HIDE DEF s
<1>4. s = t
  BY <1>1, <1>2, <1>3
<1> QED
  BY <1>4 DEF s

LEMMA FramedInParts ==
  ASSUME NEW f, Numbered(f), NEW t \in Text
  PROVE  Framed(f, t) = Tag(f) \o (EncodeVarint(Len(t)) \o t)
<1> DEFINE p == Tag(f)
           e == EncodeVarint(Len(t))
<1>1. p \in Seq(Byte)
  BY TagBytes
<1>2. e \in Seq(Byte)
  BY LengthIsWord, EncodedBytes
<1>3. t \in Seq(Byte)
  BY LengthIsWord
<1>4. Framed(f, t) = (p \o e) \o t
  BY DEF Framed
<1> HIDE DEF p, e
<1>5. (p \o e) \o t = p \o (e \o t)
  BY <1>1, <1>2, <1>3, ConcatTwice
<1> QED
  BY <1>4, <1>5 DEF p, e

LEMMA TextReadBack ==
  ASSUME NEW t \in Text, NEW b \in Seq(Byte), NEW at \in Nat \ {0},
         StandsAt(b, at, EncodeVarint(Len(t)) \o t)
  PROVE  ReadBytes(b, at) = Read(t, at + Len(EncodeVarint(Len(t)) \o t))
<1> DEFINE n == Len(t)
           e == EncodeVarint(n)
           m == Len(e)
           r == ReadVarint(b, at)
<1>1. t \in Seq(Byte) /\ n \in Nat /\ n \in UInt64 /\ Signed(n, WordBits) = n
  BY LengthIsWord
<1>2. e \in Seq(Byte) /\ m \in Nat
  BY <1>1, EncodedBytes
<1>3. StandsAt(b, at, e) /\ StandsAt(b, at + m, t)
  BY <1>1, <1>2, PartsStand
<1>4. r = Read(n, at + m)
  BY <1>1, <1>3, VarintReadBack
<1>5. Len(e \o t) = m + n
  BY <1>1, <1>2
<1>6. (at + m) + n - 1 <= Len(b) /\ Len(b) \in Nat
  BY <1>3 DEF StandsAt
<1>7. at + m \in Nat \ {0}
  BY <1>2
<1>8. SubSeq(b, at + m, (at + m) + n - 1) = t
  BY <1>1, <1>3, <1>7, StandsIsPart
<1> DEFINE x == r.value
           y == r.next
<1>9. r.ok /\ x = n /\ y = at + m
  BY <1>4 DEF Read
<1> HIDE DEF r, n, e, m, x, y
<1>10. Signed(x, WordBits) = n /\ y + x = (at + m) + n /\ (y + x) - 1 = (at + m) + n - 1
  BY <1>1, <1>9
<1>11. ReadBytes(b, at) = Read(SubSeq(b, at + m, (at + m) + n - 1), (at + m) + n)
  <2>1. ~(Signed(x, WordBits) < 0) /\ ~((y + x) - 1 > Len(b))
    <3>1. ~(n < 0) /\ ~((at + m) + n - 1 > Len(b))
      BY <1>1, <1>2, <1>6
    <3> QED BY <1>10, <3>1
  <2>2. ReadBytes(b, at) = Read(SubSeq(b, y, (y + x) - 1), y + x)
    BY <1>9, <2>1, Zenon DEF ReadBytes, r, x, y
  <2> QED BY <1>9, <1>10, <2>2
<1>12. (at + m) + n = at + (m + n)
  BY <1>1, <1>2
<1> QED
  BY <1>5, <1>8, <1>11, <1>12 DEF e, m, n

LEMMA CutTextRefused ==
  ASSUME NEW t \in Text, NEW b \in Seq(Byte), NEW at \in Nat \ {0},
         EndsWithin(b, at, EncodeVarint(Len(t)) \o t)
  PROVE  ReadBytes(b, at) = Failed
<1> DEFINE n == Len(t)
           e == EncodeVarint(n)
           m == Len(e)
           r == ReadVarint(b, at)
<1>1. t \in Seq(Byte) /\ n \in Nat /\ n \in UInt64
  BY LengthIsWord
<1>2. e \in Seq(Byte) /\ m \in Nat /\ Len(b) \in Nat
  BY <1>1, EncodedBytes
<1>3. EndsWithin(b, at, e) \/ (StandsAt(b, at, e) /\ EndsWithin(b, at + m, t))
  BY <1>1, <1>2, EndsInPart
<1>4. CASE EndsWithin(b, at, e)
  <2>1. r = Failed
    BY <1>1, <1>4, CutVarintRefused
  <2>2. ~r.ok
    BY <2>1 DEF Failed
  <2> HIDE DEF r
  <2> QED BY <2>2 DEF ReadBytes, r
<1>5. CASE StandsAt(b, at, e) /\ EndsWithin(b, at + m, t)
  <2>1. r = Read(n, at + m)
    BY <1>1, <1>5, VarintReadBack
  <2> DEFINE x == r.value
             y == r.next
  <2>2. x = n /\ y = at + m
    BY <2>1 DEF Read
  <2>3. Len(b) < (at + m) + n - 1
    BY <1>5 DEF EndsWithin
  <2> HIDE DEF r, n, e, m, x, y
  <2>4. (y + x) - 1 > Len(b)
    BY <1>1, <1>2, <2>2, <2>3
  <2> QED BY <2>4, Zenon DEF ReadBytes, r, x, y
<1> QED
  BY <1>3, <1>4, <1>5

(***************************************************************************)
(* A field with a number is read back: Unmarshal finds the field's case by *)
(* its number and wire type, and in it the number that was written,        *)
(* wherever in the buffer the field stands and whatever is behind it.      *)
(***************************************************************************)
THEOREM NumberFieldReadBack ==
  \A f : Numbered(f) =>
    \A v \in UInt64, b \in Seq(Byte), at \in Nat \ {0} :
      StandsAt(b, at, Tag(f) \o EncodeVarint(v)) =>
        /\ TagFound(b, at, f)
        /\ ReadVarint(b, at + Len(Tag(f))) = Read(v, at + Len(Tag(f) \o EncodeVarint(v)))
<1> SUFFICES ASSUME NEW f, Numbered(f), NEW v \in UInt64, NEW b \in Seq(Byte),
                    NEW at \in Nat \ {0}, StandsAt(b, at, Tag(f) \o EncodeVarint(v))
             PROVE  /\ TagFound(b, at, f)
                    /\ ReadVarint(b, at + Len(Tag(f)))
                         = Read(v, at + Len(Tag(f) \o EncodeVarint(v)))
  OBVIOUS
<1> DEFINE p == Tag(f)
           q == EncodeVarint(v)
<1>1. p \in Seq(Byte) /\ q \in Seq(Byte) /\ Len(p) \in Nat /\ Len(q) \in Nat
  BY TagBytes, EncodedBytes
<1>2. StandsAt(b, at, p) /\ StandsAt(b, at + Len(p), q)
  BY <1>1, PartsStand
<1>3. TagFound(b, at, f)
  BY <1>2, TagReadBack
<1>4. at + Len(p) \in Nat \ {0}
  BY <1>1
<1>5. ReadVarint(b, at + Len(p)) = Read(v, (at + Len(p)) + Len(q))
  BY <1>2, <1>4, VarintReadBack
<1> HIDE DEF p, q
<1>6. (at + Len(p)) + Len(q) = at + Len(p \o q)
  BY <1>1
<1> QED
  BY <1>3, <1>5, <1>6 DEF p, q

(***************************************************************************)
(* A field with a text or a message is read back: the case is found, and   *)
(* the bytes behind the length are those that were written, whether they   *)
(* look like tags and lengths themselves or not.                           *)
(***************************************************************************)
THEOREM TextFieldReadBack ==
  \A f : Numbered(f) =>
    \A t \in Text, b \in Seq(Byte), at \in Nat \ {0} :
      StandsAt(b, at, Framed(f, t)) =>
        /\ TagFound(b, at, f)
        /\ ReadBytes(b, at + Len(Tag(f))) = Read(t, at + Len(Framed(f, t)))
<1> SUFFICES ASSUME NEW f, Numbered(f), NEW t \in Text, NEW b \in Seq(Byte),
                    NEW at \in Nat \ {0}, StandsAt(b, at, Framed(f, t))
             PROVE  /\ TagFound(b, at, f)
                    /\ ReadBytes(b, at + Len(Tag(f))) = Read(t, at + Len(Framed(f, t)))
  OBVIOUS
<1> DEFINE p == Tag(f)
           e == EncodeVarint(Len(t))
           q == e \o t
<1>1. p \in Seq(Byte) /\ Len(p) \in Nat /\ e \in Seq(Byte) /\ t \in Seq(Byte)
  BY TagBytes, LengthIsWord, EncodedBytes
<1>2. q \in Seq(Byte) /\ Len(q) \in Nat
  <2> HIDE DEF e
  <2> QED BY <1>1
<1>3. Framed(f, t) = p \o q
  BY FramedInParts
<1> HIDE DEF p, q
<1>4. StandsAt(b, at, p) /\ StandsAt(b, at + Len(p), q)
  BY <1>1, <1>2, <1>3, PartsStand
<1>5. TagFound(b, at, f)
  BY <1>4, TagReadBack DEF p
<1>6. at + Len(p) \in Nat \ {0}
  BY <1>1
<1>7. ReadBytes(b, at + Len(p)) = Read(t, (at + Len(p)) + Len(q))
  BY <1>4, <1>6, TextReadBack DEF q
<1>8. (at + Len(p)) + Len(q) = at + Len(p \o q)
  BY <1>1, <1>2
<1> QED
  BY <1>3, <1>5, <1>7, <1>8 DEF p

(***************************************************************************)
(* A buffer that ends within a field is refused at that field: the tag     *)
(* cannot be read, or the field's case is found and its value cannot.  A   *)
(* cut never turns an amount or an address into another one.               *)
(***************************************************************************)
THEOREM CutFieldRefused ==
  \A f : Numbered(f) =>
    \A b \in Seq(Byte), at \in Nat \ {0} :
      /\ \A v \in UInt64 :
           EndsWithin(b, at, Tag(f) \o EncodeVarint(v)) =>
             \/ ReadVarint(b, at) = Failed
             \/ TagFound(b, at, f) /\ ReadVarint(b, at + Len(Tag(f))) = Failed
      /\ \A t \in Text :
           EndsWithin(b, at, Framed(f, t)) =>
             \/ ReadVarint(b, at) = Failed
             \/ TagFound(b, at, f) /\ ReadBytes(b, at + Len(Tag(f))) = Failed
<1> SUFFICES ASSUME NEW f, Numbered(f), NEW b \in Seq(Byte), NEW at \in Nat \ {0}
             PROVE  /\ \A v \in UInt64 :
                         EndsWithin(b, at, Tag(f) \o EncodeVarint(v)) =>
                           \/ ReadVarint(b, at) = Failed
                           \/ TagFound(b, at, f) /\ ReadVarint(b, at + Len(Tag(f))) = Failed
                    /\ \A t \in Text :
                         EndsWithin(b, at, Framed(f, t)) =>
                           \/ ReadVarint(b, at) = Failed
                           \/ TagFound(b, at, f) /\ ReadBytes(b, at + Len(Tag(f))) = Failed
  OBVIOUS
<1> DEFINE p == Tag(f)
<1>1. p \in Seq(Byte) /\ Len(p) \in Nat /\ at + Len(p) \in Nat \ {0}
  BY TagBytes
<1>2. EndsWithin(b, at, p) => ReadVarint(b, at) = Failed
  BY TagIsWord, CutVarintRefused DEF Tag
<1>3. StandsAt(b, at, p) => TagFound(b, at, f)
  BY TagReadBack
<1> HIDE DEF p
<1>4. ASSUME NEW v \in UInt64, EndsWithin(b, at, p \o EncodeVarint(v))
      PROVE  \/ ReadVarint(b, at) = Failed
             \/ TagFound(b, at, f) /\ ReadVarint(b, at + Len(p)) = Failed
  <2>1. EncodeVarint(v) \in Seq(Byte)
    BY EncodedBytes
  <2>2. \/ EndsWithin(b, at, p)
        \/ StandsAt(b, at, p) /\ EndsWithin(b, at + Len(p), EncodeVarint(v))
    BY <1>1, <1>4, <2>1, EndsInPart
  <2> QED BY <1>1, <1>2, <1>3, <2>2, CutVarintRefused
<1>5. ASSUME NEW t \in Text, EndsWithin(b, at, Framed(f, t))
      PROVE  \/ ReadVarint(b, at) = Failed
             \/ TagFound(b, at, f) /\ ReadBytes(b, at + Len(p)) = Failed
  <2> DEFINE e == EncodeVarint(Len(t))
             q == e \o t
  <2>1. e \in Seq(Byte) /\ t \in Seq(Byte)
    BY LengthIsWord, EncodedBytes
  <2>2. q \in Seq(Byte)
    <3> HIDE DEF e
    <3> QED BY <2>1
  <2>3. Framed(f, t) = p \o q
    BY FramedInParts DEF p
  <2> HIDE DEF q
  <2>4. EndsWithin(b, at, p) \/ (StandsAt(b, at, p) /\ EndsWithin(b, at + Len(p), q))
    BY <1>1, <1>5, <2>2, <2>3, EndsInPart
  <2>5. EndsWithin(b, at + Len(p), q) => ReadBytes(b, at + Len(p)) = Failed
    BY <1>1, CutTextRefused DEF q
  <2> QED BY <1>2, <1>3, <2>4, <2>5
<1> QED
  BY <1>4, <1>5 DEF p
=============================================================================
