--------------------------- MODULE KeySpaceProofs ---------------------------
(***************************************************************************)
(* What TLAPS proves of the keys for bytes, hashes and primary keys of any  *)
(* width, any fields and values, and any number of entries; and of the      *)
(* schema table by which the admin tool reads them, for any files and       *)
(* requests.                                                                *)
(***************************************************************************)
EXTENDS KeySpace, AdminSchema, DataLemmas

-----------------------------------------------------------------------------
(* Digits                                                                   *)

\* A byte has at least four values, and twice as many as a digit of a uvarint.
LEMMA RadixIs ==
  /\ Radix \in Nat /\ Radix > 3
  /\ Digit \in Nat /\ Digit > 1 /\ Radix = 2 * Digit
<1>1. Bits \in Nat /\ Bits > 1
  BY KeyAssumption
<1> DEFINE x == Power(2, Bits - 1)
<1>2. x \in Nat /\ Bits - 1 < x /\ Power(2, Bits - 1 + 1) = 2 * x
  BY <1>1, PowerIs, PowerGrows
<1> HIDE DEF x
<1>3. Radix = 2 * x
  BY <1>1, <1>2 DEF Radix
<1>4. Digit = x
  BY <1>2, <1>3 DEF Digit
<1> QED
  BY <1>1, <1>2, <1>3, <1>4

Byte == 0 .. Radix - 1

-----------------------------------------------------------------------------
(* Numbers of a fixed width                                                 *)

Top(n, w, j) == n \div Power(Radix, w - j)

\* The first j digits of a number of w digits, and those with the next one.
LEMMA TopIs ==
  ASSUME NEW w \in Nat, NEW n \in 0 .. Power(Radix, w) - 1
  PROVE  /\ Top(n, w, 0) = 0 /\ Top(n, w, w) = n
         /\ \A j \in 0 .. w : Top(n, w, j) \in Nat
         /\ \A i \in 1 .. w :
              Top(n, w, i) = Radix * Top(n, w, i - 1) + (Top(n, w, i) % Radix)
         /\ \A j \in 0 .. w, m \in Nat : m <= n => Top(m, w, j) <= Top(n, w, j)
<1>1. Radix \in Nat /\ Radix > 0
  BY RadixIs
<1>2. Power(Radix, w) \in Nat /\ n \in Nat /\ n < Power(Radix, w)
  BY <1>1, PowerIs
<1>3. w - 0 = w /\ w - w = 0
  OBVIOUS
<1>4. Top(n, w, 0) = 0 /\ Top(n, w, w) = n
  BY <1>1, <1>2, <1>3, Quotients DEF Top
<1>5. ASSUME NEW j \in 0 .. w
      PROVE  /\ Top(n, w, j) \in Nat
             /\ \A m \in Nat : m <= n => Top(m, w, j) <= Top(n, w, j)
  <2>1. w - j \in Nat
    OBVIOUS
  <2> QED
    BY <2>1, <1>1, <1>2, Quotients DEF Top
<1>6. ASSUME NEW i \in 1 .. w
      PROVE  Top(n, w, i) = Radix * Top(n, w, i - 1) + (Top(n, w, i) % Radix)
  <2>1. w - i \in Nat /\ w - i + 1 = w - (i - 1)
    OBVIOUS
  <2> DEFINE k == w - i
  <2>2. k \in Nat /\ k + 1 = w - (i - 1)
    BY <2>1
  <2> HIDE DEF k
  <2>3. n \div Power(Radix, k) = Radix * (n \div Power(Radix, k + 1))
                                 + ((n \div Power(Radix, k)) % Radix)
    BY <2>2, <1>1, <1>2, Quotients
  <2> QED
    BY <2>2, <2>3 DEF Top, k
<1> QED
  BY <1>4, <1>5, <1>6

\* A number of a fixed width is a sequence of bytes.
LEMMA BigEndianIs ==
  ASSUME NEW w \in Nat, NEW n \in 0 .. Power(Radix, w) - 1
  PROVE  /\ BigEndian(n, w) \in Seq(Byte) /\ Len(BigEndian(n, w)) = w
         /\ DOMAIN BigEndian(n, w) = 1 .. w
         /\ \A i \in 1 .. w : BigEndian(n, w)[i] = Top(n, w, i) % Radix
         /\ \A i \in 1 .. w : BigEndian(n, w)[i] \in Byte
<1>1. \A i \in 1 .. w : BigEndian(n, w)[i] = Top(n, w, i) % Radix
  BY DEF BigEndian, Top
<1>2. \A i \in 1 .. w : BigEndian(n, w)[i] \in Byte
  BY <1>1, TopIs, Division, RadixIs DEF Byte
<1>3. BigEndian(n, w) \in [1 .. w -> Byte]
  BY <1>2 DEF BigEndian
<1>4. BigEndian(n, w) \in Seq(Byte)
  BY <1>3, SeqDef
<1> QED
  BY <1>1, <1>2, <1>3, <1>4, LenProperties

\* Of two numbers the smaller has the smaller byte where they first differ.
LEMMA BigEndianOrder ==
  ASSUME NEW w \in Nat, NEW m \in 0 .. Power(Radix, w) - 1,
         NEW n \in 0 .. Power(Radix, w) - 1, m < n
  PROVE  \E i \in 1 .. w :
           /\ \A j \in 1 .. i - 1 : BigEndian(m, w)[j] = BigEndian(n, w)[j]
           /\ BigEndian(m, w)[i] < BigEndian(n, w)[i]
<1> DEFINE D == {i \in 0 .. w : Top(m, w, i) # Top(n, w, i)}
<1>0. Power(Radix, w) \in Nat
  BY PowerIs, RadixIs
<1>1. w \in D
  BY TopIs
<1>2. D \in SUBSET Nat
  OBVIOUS
<1>3. PICK i \in D : \A j \in D : i <= j
  <2> HIDE DEF D
  <2> QED
    BY <1>1, <1>2, LeastExists
<1>4. i \in 0 .. w /\ i # 0
  BY TopIs
<1>5. \A j \in 0 .. i - 1 : Top(m, w, j) = Top(n, w, j)
  <2>1. ASSUME NEW j \in 0 .. i - 1
        PROVE  Top(m, w, j) = Top(n, w, j)
    <3>1. j \in 0 .. w /\ ~(i <= j)
      BY <1>4
    <3> QED
      BY <3>1, <1>3
  <2> QED
    BY <2>1
<1>6. i \in 1 .. w /\ i - 1 \in 0 .. i - 1
  BY <1>4
<1>7. \A j \in 1 .. i - 1 : BigEndian(m, w)[j] = BigEndian(n, w)[j]
  BY <1>5, <1>6, BigEndianIs
<1> DEFINE a == Top(m, w, i)
           b == Top(n, w, i)
           t == Radix * Top(n, w, i - 1)
<1>8. a \in Nat /\ b \in Nat /\ a # b /\ a <= b
  BY <1>3, <1>4, <1>0, TopIs
<1>9. t \in Nat /\ a = t + (a % Radix) /\ b = t + (b % Radix)
  <2>1. Top(m, w, i - 1) = Top(n, w, i - 1)
    BY <1>5, <1>6
  <2>2. a = Radix * Top(m, w, i - 1) + (a % Radix)
    BY <1>6, TopIs
  <2>3. b = Radix * Top(n, w, i - 1) + (b % Radix)
    BY <1>6, TopIs
  <2>4. i - 1 \in 0 .. w
    BY <1>6
  <2>5. Top(n, w, i - 1) \in Nat
    BY <2>4, TopIs
  <2> HIDE DEF a, b
  <2>6. t \in Nat
    BY <2>5, RadixIs
  <2> QED
    BY <2>1, <2>2, <2>3, <2>6
<1>10. a % Radix \in Nat /\ b % Radix \in Nat
  <2> HIDE DEF a, b
  <2> QED
    BY <1>8, Division, RadixIs
<1>11. a % Radix < b % Radix
  <2> HIDE DEF a, b, t
  <2> QED
    BY <1>8, <1>9, <1>10
<1>12. BigEndian(m, w)[i] = a % Radix /\ BigEndian(n, w)[i] = b % Radix
  BY <1>6, BigEndianIs
<1> QED
  BY <1>6, <1>7, <1>11, <1>12

\* Different numbers have different bytes.
LEMMA BigEndianInjective ==
  ASSUME NEW w \in Nat, NEW m \in 0 .. Power(Radix, w) - 1,
         NEW n \in 0 .. Power(Radix, w) - 1, BigEndian(m, w) = BigEndian(n, w)
  PROVE  m = n
<1>0. Power(Radix, w) \in Nat
  BY PowerIs, RadixIs
<1>1. ~(m < n)
  <2>1. ASSUME m < n
        PROVE  FALSE
    <3>1. PICK i \in 1 .. w : BigEndian(m, w)[i] < BigEndian(n, w)[i]
      BY <2>1, BigEndianOrder
    <3>2. BigEndian(m, w)[i] \in Nat
      BY BigEndianIs, RadixIs DEF Byte
    <3> QED
      BY <3>1, <3>2
  <2> QED
    BY <2>1
<1>2. ~(n < m)
  <2>1. ASSUME n < m
        PROVE  FALSE
    <3>1. PICK i \in 1 .. w : BigEndian(n, w)[i] < BigEndian(m, w)[i]
      BY <2>1, BigEndianOrder
    <3>2. BigEndian(m, w)[i] \in Nat
      BY BigEndianIs, RadixIs DEF Byte
    <3> QED
      BY <3>1, <3>2
  <2> QED
    BY <2>1
<1> QED
  BY <1>0, <1>1, <1>2

\* A number of a fixed width is read back.
LEMMA BigEndianDecodes ==
  ASSUME NEW w \in Nat, NEW n \in 0 .. Power(Radix, w) - 1
  PROVE  FromBigEndian(BigEndian(n, w)) = n
<1> DEFINE b     == BigEndian(n, w)
           R(v)  == v = [i \in 0 .. w |-> IF i = 0 THEN 0 ELSE v[i - 1] * Radix + b[i]]
           V     == CHOOSE v : R(v)
           v0    == [i \in 0 .. w |-> Top(n, w, i)]
<1>1. Len(b) = w
  BY BigEndianIs
<1>2. FromBigEndian(b) = V[w]
  BY <1>1, Zenon DEF FromBigEndian
<1>3. \A i \in 1 .. w : Top(n, w, i) = Top(n, w, i - 1) * Radix + b[i]
  <2>1. ASSUME NEW i \in 1 .. w
        PROVE  Top(n, w, i) = Top(n, w, i - 1) * Radix + b[i]
    <3>1. b[i] = Top(n, w, i) % Radix
      BY BigEndianIs
    <3>2. Top(n, w, i) = Radix * Top(n, w, i - 1) + b[i]
      BY <3>1, TopIs
    <3>3. Top(n, w, i - 1) \in Nat
      BY TopIs
    <3> HIDE DEF b
    <3>4. Radix * Top(n, w, i - 1) = Top(n, w, i - 1) * Radix
      BY <3>3, RadixIs
    <3> QED
      BY <3>2, <3>4
  <2> QED
    BY <2>1
<1>4. Top(n, w, 0) = 0 /\ Top(n, w, w) = n
  BY TopIs
<1> HIDE DEF b
<1>5. R(v0)
  <2>1. \A i \in 0 .. w : v0[i] = IF i = 0 THEN 0 ELSE v0[i - 1] * Radix + b[i]
    <3>1. ASSUME NEW i \in 0 .. w
          PROVE  v0[i] = IF i = 0 THEN 0 ELSE v0[i - 1] * Radix + b[i]
      <4>1. CASE i = 0
        BY <4>1, <1>4
      <4>2. CASE i # 0
        <5>1. i \in 1 .. w /\ i - 1 \in 0 .. w
          BY <4>2
        <5> QED
          BY <4>2, <5>1, <1>3
      <4> QED
        BY <4>1, <4>2
    <3> QED
      BY <3>1
  <2> QED
    BY <2>1
<1>6. R(V)
  <2> HIDE DEF v0, R
  <2> QED
    BY <1>5
<1> HIDE DEF V
<1>7. V[0] = 0 /\ \A i \in 1 .. w : V[i] = V[i - 1] * Radix + b[i]
  <2>1. V = [i \in 0 .. w |-> IF i = 0 THEN 0 ELSE V[i - 1] * Radix + b[i]]
    BY <1>6
  <2> QED
    BY <2>1
<1> DEFINE S == {i \in Nat : i <= w => V[i] = Top(n, w, i)}
<1>8. 0 \in S
  BY <1>4, <1>7
<1>9. ASSUME NEW i \in Nat, i \in S
      PROVE  i + 1 \in S
  <2>1. ASSUME i + 1 <= w
        PROVE  V[i + 1] = Top(n, w, i + 1)
    <3>1. i + 1 \in 1 .. w /\ i + 1 - 1 = i /\ i <= w
      BY <2>1
    <3>2. V[i + 1] = V[i] * Radix + b[i + 1]
      BY <3>1, <1>7
    <3>3. Top(n, w, i + 1) = Top(n, w, i) * Radix + b[i + 1]
      BY <3>1, <1>3
    <3> QED
      BY <3>1, <3>2, <3>3, <1>9
  <2> QED
    BY <2>1
<1> HIDE DEF S
<1>10. Nat \subseteq S
  BY <1>8, <1>9, SetInduction
<1>11. V[w] = Top(n, w, w)
  BY <1>10 DEF S
<1> QED
  BY <1>2, <1>4, <1>11 DEF b

-----------------------------------------------------------------------------
(* Uvarints                                                                 *)

\* A uvarint is as long as it has to be.
LEMMA UvarintLenIs ==
  ASSUME NEW n \in Nat
  PROVE  /\ UvarintLen(n) \in Nat \ {0}
         /\ n < Power(Digit, UvarintLen(n))
         /\ \A k \in 1 .. UvarintLen(n) - 1 : Power(Digit, k) <= n
<1> DEFINE Long == {l \in Nat \ {0} : n < Power(Digit, l)}
<1>0. Digit \in Nat /\ Digit > 1
  BY RadixIs
<1>1. n + 1 \in Long
  <2>1. n + 1 < Power(Digit, n + 1) /\ Power(Digit, n + 1) \in Nat
    BY <1>0, PowerGrows, PowerIs
  <2> QED
    BY <2>1
<1>2. Long \in SUBSET Nat
  OBVIOUS
<1>3. PICK l \in Long : \A k \in Long : l <= k
  <2> HIDE DEF Long
  <2> QED
    BY <1>1, <1>2, LeastExists
<1>4. l \in 1 .. n + 1 /\ n < Power(Digit, l)
  BY <1>1, <1>3
<1>5. \A k \in 1 .. l - 1 : Power(Digit, k) <= n
  <2>1. ASSUME NEW k \in 1 .. l - 1
        PROVE  Power(Digit, k) <= n
    <3>1. k \in Nat \ {0} /\ ~(l <= k)
      BY <1>4
    <3>2. ~(n < Power(Digit, k))
      BY <3>1, <1>3
    <3>3. Power(Digit, k) \in Nat
      BY <3>1, <1>0, PowerIs
    <3> QED
      BY <3>2, <3>3
  <2> QED
    BY <2>1
<1> HIDE DEF Long
<1>6. \E x \in 1 .. n + 1 :
        n < Power(Digit, x) /\ \A k \in 1 .. x - 1 : Power(Digit, k) <= n
  BY <1>4, <1>5
<1>7. /\ UvarintLen(n) \in 1 .. n + 1
      /\ n < Power(Digit, UvarintLen(n))
      /\ \A k \in 1 .. UvarintLen(n) - 1 : Power(Digit, k) <= n
  BY <1>6, Zenon DEF UvarintLen
<1> QED
  BY <1>7

\* Each byte but the last is marked.
LEMMA UvarintIs ==
  ASSUME NEW n \in Nat
  PROVE  /\ Uvarint(n) \in Seq(Byte) /\ Len(Uvarint(n)) = UvarintLen(n)
         /\ \A i \in 1 .. UvarintLen(n) :
              /\ Uvarint(n)[i] < Digit <=> i = UvarintLen(n)
              /\ Uvarint(n)[i] % Digit = (n \div Power(Digit, i - 1)) % Digit
<1> DEFINE L    == UvarintLen(n)
           Q(i) == n \div Power(Digit, i - 1)
<1>0. Digit \in Nat /\ Digit > 1 /\ Radix = 2 * Digit /\ Radix \in Nat
  BY RadixIs
<1>1. L \in Nat \ {0} /\ n < Power(Digit, L) /\ \A k \in 1 .. L - 1 : Power(Digit, k) <= n
  BY UvarintLenIs
<1>2. \A i \in 1 .. L :
        Uvarint(n)[i] = IF Q(i) < Digit THEN Q(i) ELSE Digit + (Q(i) % Digit)
  BY DEF Uvarint
<1> HIDE DEF L
<1>3. ASSUME NEW i \in 1 .. L
      PROVE  Q(i) \in Nat /\ (Q(i) < Digit <=> i = L)
  <2>1. i - 1 \in Nat /\ i - 1 + 1 = i
    BY <1>1
  <2>2. Q(i) \in Nat /\ (n < Power(Digit, i) => Q(i) < Digit)
    <3>1. \A k \in Nat : /\ n \div Power(Digit, k) \in Nat
                         /\ n < Power(Digit, k + 1) => n \div Power(Digit, k) < Digit
      <4>1. Digit > 0
        BY <1>0
      <4> QED
        BY <1>0, <4>1, Quotients
    <3>2. /\ n \div Power(Digit, i - 1) \in Nat
          /\ n < Power(Digit, i - 1 + 1) => n \div Power(Digit, i - 1) < Digit
      <4> HIDE DEF Q
      <4> QED
        BY <2>1, <3>1, Zenon
    <3>3. Power(Digit, i - 1 + 1) = Power(Digit, i)
      BY <2>1
    <3> QED
      BY <3>2, <3>3
  <2>3. ASSUME i # L
        PROVE  ~(Q(i) < Digit)
    <3>1. i \in 1 .. L - 1
      BY <2>3, <1>1
    <3>2. Power(Digit, i) <= n
      BY <3>1, <1>1
    <3> DEFINE x == Power(Digit, i - 1)
               y == Power(Digit, i)
    <3>3. x \in Nat /\ x > 0 /\ y = Digit * x
      <4>1. \A k \in Nat : /\ Power(Digit, k) \in Nat /\ Power(Digit, k) > 0
                           /\ Power(Digit, k + 1) = Digit * Power(Digit, k)
        <5>1. Digit > 0
          BY <1>0
        <5> QED
          BY <1>0, <5>1, PowerIs, PowerPositive
      <4> QED
        BY <2>1, <4>1
    <3>4. y <= n
      BY <3>2
    <3> HIDE DEF x, y
    <3>5. ~(n \div x < Digit)
      <4> DEFINE q == n \div x
                 r == n % x
      <4>1. q \in Nat /\ r \in 0 .. x - 1 /\ n = x * q + r
        BY <3>3, Division
      <4> HIDE DEF q, r
      <4>2. ASSUME q < Digit
            PROVE  FALSE
        <5>1. q + 1 <= Digit
          BY <4>1, <4>2, <1>0
        <5>2. x * (q + 1) <= x * Digit
          BY <5>1, <4>1, <3>3, <1>0
        <5>3. x * (q + 1) = x * q + x /\ x * Digit = Digit * x
          BY <4>1, <3>3, <1>0
        <5>4. x * q \in Nat /\ Digit * x \in Nat
          BY <4>1, <3>3, <1>0
        <5> QED
          BY <5>2, <5>3, <5>4, <4>1, <3>3, <3>4
      <4> QED
        BY <4>2 DEF q
    <3> QED
      BY <3>5 DEF x
  <2> QED
    BY <2>2, <2>3, <1>1
<1>4. ASSUME NEW i \in 1 .. L
      PROVE  /\ Uvarint(n)[i] \in Byte
             /\ Uvarint(n)[i] < Digit <=> i = L
             /\ Uvarint(n)[i] % Digit = Q(i) % Digit
  <2> DEFINE q == Q(i)
             u == Uvarint(n)[i]
  <2>1. q \in Nat /\ (q < Digit <=> i = L)
    BY <1>3
  <2>2. u = IF q < Digit THEN q ELSE Digit + (q % Digit)
    BY <1>2
  <2> HIDE DEF q, u
  <2> DEFINE r == q % Digit
  <2>3. r \in 0 .. Digit - 1
    BY <2>1, <1>0, Division
  <2>4. u \in 0 .. Radix - 1 /\ (u < Digit <=> q < Digit)
    <3> HIDE DEF r
    <3> QED
      BY <2>1, <2>2, <2>3, <1>0 DEF r
  <2>5. u % Digit = r
    <3>1. CASE q < Digit
      BY <3>1, <2>2
    <3>2. CASE ~(q < Digit)
      <4>1. u = Digit + r
        BY <3>2, <2>2
      <4> HIDE DEF r
      <4>2. (Digit + r) % Digit = r
        BY <2>3, <1>0, SMT
      <4> QED
        BY <4>1, <4>2
    <3> QED
      BY <3>1, <3>2
  <2> QED
    BY <2>1, <2>4, <2>5 DEF q, u, Byte
<1>5. Uvarint(n) \in [1 .. L -> Byte]
  <2>1. DOMAIN Uvarint(n) = 1 .. L /\ Uvarint(n) = [i \in 1 .. L |-> Uvarint(n)[i]]
    BY DEF Uvarint, L
  <2> QED
    BY <2>1, <1>4
<1>6. Uvarint(n) \in Seq(Byte)
  BY <1>1, <1>5, SeqDef
<1>7. Len(Uvarint(n)) = L
  BY <1>1, <1>5, <1>6, LenProperties
<1> QED
  BY <1>4, <1>6, <1>7 DEF L

\* The digits of a uvarint give its number.
LEMMA LowFirstIs ==
  ASSUME NEW n \in Nat
  PROVE  LowFirst(Uvarint(n)) = n
<1> DEFINE L == UvarintLen(n)
           u == Uvarint(n)
           d == [i \in DOMAIN u |-> u[i] % Digit]
           x == Power(Digit, L)
<1>1. Digit \in Nat /\ Digit > 0
  BY RadixIs
<1>2. L \in Nat /\ n < x /\ x \in Nat /\ x > 0
  BY <1>1, UvarintLenIs, PowerIs, PowerPositive
<1>3. DOMAIN u = 1 .. L
  BY DEF Uvarint
<1>4. \A i \in 1 .. L : u[i] % Digit = (n \div Power(Digit, i - 1)) % Digit
  BY UvarintIs
<1> HIDE DEF L, u
<1>5. \A i \in 1 .. L : d[i] = (n \div Power(Digit, i - 1)) % Digit
  BY <1>3, <1>4
<1>6. Len(d) = L
  <2>1. \A i \in 1 .. L : d[i] \in Nat
    <3>1. ASSUME NEW i \in 1 .. L
          PROVE  (n \div Power(Digit, i - 1)) % Digit \in Nat
      <4>1. i - 1 \in Nat
        BY <1>2
      <4>2. n \div Power(Digit, i - 1) \in Nat
        BY <1>1, <4>1, Quotients
      <4> QED
        BY <1>1, <4>2, Division
    <3> QED
      BY <3>1, <1>5
  <2>2. d \in [1 .. L -> Nat]
    BY <1>3, <2>1
  <2> HIDE DEF d
  <2>3. d \in Seq(Nat)
    BY <1>2, <2>2, SeqDef
  <2> QED
    BY <1>2, <2>2, <2>3, LenProperties
<1>7. LowFirst(u) = FromDigits(d, Digit)
  BY DEF LowFirst
<1> HIDE DEF d
<1>8. FromDigits(d, Digit) = n % Power(Digit, L)
  BY <1>1, <1>2, <1>5, <1>6, FromDigitsIs
<1> HIDE DEF x
<1>9. n % x = n
  BY <1>2, Division
<1> QED
  BY <1>7, <1>8, <1>9 DEF u, x

\* The length that was put before a value is read back.
LEMMA UvarintDecodes ==
  ASSUME NEW n \in Nat, NEW t \in Seq(Byte)
  PROVE  DecodeUvarint(Uvarint(n) \o t) =
           [len |-> Len(Uvarint(n)), value |-> n]
<1> DEFINE u    == Uvarint(n)
           L    == Len(u)
           b    == u \o t
           ends == {i \in DOMAIN b : b[i] < Digit}
           e    == CHOOSE i \in ends : \A j \in ends : i <= j
<1>1. /\ u \in Seq(Byte) /\ L = UvarintLen(n) /\ L \in Nat \ {0}
      /\ \A i \in 1 .. L : u[i] < Digit <=> i = L
  BY UvarintIs, UvarintLenIs
<1>2. LowFirst(u) = n
  BY LowFirstIs
<1>3. DecodeUvarint(b) = IF ends = {} THEN [len |-> 0, value |-> 0]
                         ELSE [len |-> e, value |-> LowFirst(SubSeq(b, 1, e))]
  BY DEF DecodeUvarint
<1> HIDE DEF u
<1>4. /\ DOMAIN b = 1 .. L + Len(t) /\ Len(t) \in Nat
      /\ \A i \in 1 .. L : b[i] = u[i]
      /\ SubSeq(b, 1, L) = u
  <2>0. u \in Seq(Byte)
    BY <1>1
  <2>1. /\ b \in Seq(Byte) /\ Len(b) = L + Len(t) /\ Len(t) \in Nat
        /\ \A i \in 1 .. L : b[i] = u[i]
        /\ SubSeq(b, 1, L) = u
    BY <2>0, ConcatIs
  <2>2. DOMAIN b = 1 .. Len(b)
    BY <2>1, LenProperties
  <2> QED
    BY <2>1, <2>2
<1> HIDE DEF L, b
<1>5. L \in ends
  BY <1>1, <1>4
<1>6. \A j \in ends : L <= j
  <2>1. ASSUME NEW j \in ends
        PROVE  L <= j
    <3>1. j \in 1 .. L + Len(t) /\ b[j] < Digit
      BY <1>4
    <3>2. ~(j \in 1 .. L - 1)
      BY <3>1, <1>1, <1>4
    <3> QED
      BY <3>1, <3>2, <1>1, <1>4
  <2> QED
    BY <2>1
<1>7. ends \subseteq Nat
  BY <1>1, <1>4
<1> HIDE DEF ends
<1>8. e \in ends /\ \A j \in ends : e <= j
  BY <1>5, <1>6
<1> HIDE DEF e
<1>9. e = L
  BY <1>5, <1>6, <1>7, <1>8
<1>10. DecodeUvarint(b) = [len |-> L, value |-> n]
  BY <1>2, <1>3, <1>4, <1>5, <1>9
<1> QED
  BY <1>10 DEF b, L, u

-----------------------------------------------------------------------------
(* Keys                                                                     *)

\* The parts that keys are made of are sequences of bytes.
LEMMA PartsAre ==
  ASSUME NEW h \in Hashes
  PROVE  /\ HashBytes \in Nat \ {0}
         /\ BigEndian(h, HashBytes) \in Seq(Byte)
         /\ Len(BigEndian(h, HashBytes)) = HashBytes
         /\ FromBigEndian(BigEndian(h, HashBytes)) = h
         /\ <<DataPrefix>> \in Seq(Byte) /\ <<IndexPrefix>> \in Seq(Byte)
         /\ DataPrefix # IndexPrefix
         /\ <<>> \in Seq(Byte)
         /\ \A f \in Nat : <<f % Radix>> \in Seq(Byte)
<1>1. HashBytes \in Nat \ {0} /\ h \in 0 .. Power(Radix, HashBytes) - 1
  BY KeyAssumption
<1>2. /\ BigEndian(h, HashBytes) \in Seq(Byte)
      /\ Len(BigEndian(h, HashBytes)) = HashBytes
      /\ FromBigEndian(BigEndian(h, HashBytes)) = h
  BY <1>1, BigEndianIs, BigEndianDecodes
<1>3. DataPrefix \in Byte /\ IndexPrefix \in Byte /\ DataPrefix # IndexPrefix
  BY RadixIs DEF DataPrefix, IndexPrefix, Byte
<1>4. \A f \in Nat : f % Radix \in Byte
  BY RadixIs, Division DEF Byte
<1>5. \A x \in Byte : <<x>> \in Seq(Byte)
  OBVIOUS
<1> QED
  BY <1>1, <1>2, <1>3, <1>4, <1>5

\* A row's key: the table and the primary key are read back.
LEMMA RowKeyDecodes ==
  ASSUME NEW h \in Hashes, NEW r \in Seq(Byte)
  PROVE  /\ EncodeKey(h, r) \in Seq(Byte)
         /\ EncodeKey(h, r)[1] = DataPrefix
         /\ DecodeKey(EncodeKey(h, r)) = [kind |-> "row", hash |-> h, pk |-> r]
         /\ DecodeIndexKey(EncodeKey(h, r)) = Malformed
<1> DEFINE A   == <<DataPrefix>>
           B   == BigEndian(h, HashBytes)
           raw == (A \o B) \o r
<1>1. /\ HashBytes \in Nat \ {0} /\ A \in Seq(Byte) /\ Len(A) = 1
      /\ A[1] = DataPrefix /\ B \in Seq(Byte) /\ Len(B) = HashBytes
      /\ FromBigEndian(B) = h /\ DataPrefix # IndexPrefix
  BY PartsAre
<1>2. EncodeKey(h, r) = raw
  BY DEF EncodeKey
<1> HIDE DEF A, B
<1>3. /\ A \o B \in Seq(Byte) /\ Len(A \o B) = 1 + HashBytes
      /\ (A \o B)[1] = DataPrefix
  <2>1. A \in Seq(Byte) /\ B \in Seq(Byte)
    BY <1>1
  <2>2. /\ A \o B \in Seq(Byte) /\ Len(A \o B) = Len(A) + Len(B)
        /\ \A i \in 1 .. Len(A) : (A \o B)[i] = A[i]
    BY <2>1, ConcatIs
  <2> QED
    BY <2>2, <1>1
<1>4. /\ raw \in Seq(Byte) /\ Len(raw) = 1 + HashBytes + Len(r)
      /\ Len(r) \in Nat /\ raw[1] = DataPrefix
      /\ SubSeq(raw, 1 + HashBytes + 1, 1 + HashBytes + Len(r)) = r
  <2> DEFINE p == A \o B
  <2>1. p \in Seq(Byte) /\ Len(p) = 1 + HashBytes /\ p[1] = DataPrefix
    BY <1>3
  <2> HIDE DEF p
  <2>2. p \in Seq(Byte)
    BY <2>1
  <2>3. /\ p \o r \in Seq(Byte) /\ Len(p \o r) = Len(p) + Len(r)
        /\ Len(r) \in Nat /\ \A i \in 1 .. Len(p) : (p \o r)[i] = p[i]
        /\ SubSeq(p \o r, Len(p) + 1, Len(p) + Len(r)) = r
    BY <2>2, ConcatIs
  <2>4. raw = p \o r
    BY DEF p
  <2>5. 1 \in 1 .. Len(p)
    BY <1>1, <2>1
  <2> HIDE DEF raw
  <2> QED
    BY <2>1, <2>3, <2>4, <2>5
<1>5. SubSeq(raw, 1 + 1, 1 + HashBytes) = B
  BY <1>1, ConcatMiddle
<1> HIDE DEF raw
<1>6. ~(Len(raw) < 1 + HashBytes) /\ 1 + HashBytes + 1 = 2 + HashBytes /\ 1 + 1 = 2
  BY <1>1, <1>4
<1>7. DecodeKey(raw) = [kind |-> "row", hash |-> h, pk |-> r]
  BY <1>1, <1>4, <1>5, <1>6 DEF DecodeKey
<1>8. DecodeIndexKey(raw) = Malformed
  BY <1>1, <1>4 DEF DecodeIndexKey
<1> QED
  BY <1>2, <1>4, <1>7, <1>8

\* An index key: all that was put in is read back, whatever follows it.
LEMMA IndexKeyDecodes ==
  ASSUME NEW h \in Hashes, NEW f \in Nat, NEW v \in Seq(Byte), NEW r \in Seq(Byte)
  PROVE  /\ EncodeIndexPrefix(h, f, v) \in Seq(Byte)
         /\ EncodeIndexPrefix(h, f, v) \o r \in Seq(Byte)
         /\ (EncodeIndexPrefix(h, f, v) \o r)[1] = IndexPrefix
         /\ DecodeIndexKey(EncodeIndexPrefix(h, f, v) \o r) =
              [kind |-> "index", hash |-> h, field |-> f % Radix, value |-> v,
               pk |-> r]
         /\ DecodeKey(EncodeIndexPrefix(h, f, v) \o r) = Malformed
<1> DEFINE A    == <<IndexPrefix>>
           B    == BigEndian(h, HashBytes)
           C    == <<f % Radix>>
           H    == (A \o B) \o C
           U    == Uvarint(Len(v))
           rest == U \o (v \o r)
           raw  == ((H \o U) \o v) \o r
<1>0. Len(v) \in Nat /\ Len(r) \in Nat
  BY LenProperties
<1>1. /\ HashBytes \in Nat \ {0} /\ A \in Seq(Byte) /\ Len(A) = 1
      /\ A[1] = IndexPrefix /\ B \in Seq(Byte) /\ Len(B) = HashBytes
      /\ FromBigEndian(B) = h /\ DataPrefix # IndexPrefix
      /\ C \in Seq(Byte) /\ Len(C) = 1 /\ C[1] = f % Radix
  BY PartsAre
<1>2. U \in Seq(Byte) /\ Len(U) \in Nat \ {0}
  BY <1>0, UvarintIs, UvarintLenIs
<1>3. DecodeUvarint(rest) = [len |-> Len(U), value |-> Len(v)]
  <2>1. v \o r \in Seq(Byte)
    BY ConcatIs
  <2> QED
    BY <1>0, <2>1, UvarintDecodes
<1>4. EncodeIndexPrefix(h, f, v) = (H \o U) \o v
  BY DEF EncodeIndexPrefix
<1> HIDE DEF A, B, C, U
<1>5. /\ A \o B \in Seq(Byte) /\ Len(A \o B) = 1 + HashBytes
      /\ H \in Seq(Byte) /\ Len(H) = 2 + HashBytes
  <2> DEFINE p == A \o B
  <2>1. A \in Seq(Byte) /\ B \in Seq(Byte) /\ C \in Seq(Byte)
    BY <1>1
  <2>2. p \in Seq(Byte) /\ Len(p) = Len(A) + Len(B)
    BY <2>1, ConcatIs
  <2>3. H = p \o C
    OBVIOUS
  <2> HIDE DEF p, H
  <2>4. p \o C \in Seq(Byte) /\ Len(p \o C) = Len(p) + Len(C)
    BY <2>1, <2>2, ConcatIs
  <2>5. p \in Seq(Byte) /\ Len(p) = 1 + HashBytes
        /\ H \in Seq(Byte) /\ Len(H) = 2 + HashBytes
    BY <1>1, <2>2, <2>3, <2>4
  <2> QED
    BY <2>5 DEF p
<1>6. /\ v \o r \in Seq(Byte) /\ Len(v \o r) = Len(v) + Len(r)
      /\ rest \in Seq(Byte) /\ Len(rest) = Len(U) + (Len(v) + Len(r))
      /\ U \o v \in Seq(Byte) /\ Len(U \o v) = Len(U) + Len(v)
      /\ H \o U \in Seq(Byte) /\ (H \o U) \o v \in Seq(Byte)
      /\ raw \in Seq(Byte)
  <2>1. v \o r \in Seq(Byte) /\ Len(v \o r) = Len(v) + Len(r)
    BY ConcatIs
  <2>2. rest \in Seq(Byte) /\ Len(rest) = Len(U) + (Len(v) + Len(r))
    BY <2>1, <1>2, ConcatIs
  <2>3. U \o v \in Seq(Byte) /\ Len(U \o v) = Len(U) + Len(v)
    BY <1>2, ConcatIs
  <2> HIDE DEF H
  <2>4. H \o U \in Seq(Byte)
    BY <1>2, <1>5, ConcatIs
  <2>5. (H \o U) \o v \in Seq(Byte)
    BY <2>4, ConcatIs
  <2>6. raw \in Seq(Byte)
    BY <2>5, ConcatIs
  <2> QED
    BY <2>1, <2>2, <2>3, <2>4, <2>5, <2>6
<1>a. A \in Seq(Byte) /\ B \in Seq(Byte) /\ C \in Seq(Byte) /\ U \in Seq(Byte)
  BY <1>1, <1>2
<1>b. H \in Seq(Byte) /\ rest \in Seq(Byte)
  BY <1>5, <1>6
<1>7. raw = H \o rest /\ rest = (U \o v) \o r
  <2> DEFINE HU == H \o U
             vr == v \o r
  <2>1. HU \in Seq(Byte) /\ vr \in Seq(Byte)
    BY <1>6
  <2>2. raw = (HU \o v) \o r /\ rest = U \o vr
    OBVIOUS
  <2>3. (U \o v) \o r = U \o vr
    BY <1>a, ConcatAssociative
  <2> HIDE DEF H, HU
  <2>4. (HU \o v) \o r = HU \o vr
    BY <2>1, ConcatAssociative
  <2> HIDE DEF vr
  <2>5. (H \o U) \o vr = H \o (U \o vr)
    <3>1. H \in Seq(Byte) /\ U \in Seq(Byte) /\ vr \in Seq(Byte)
      BY <1>a, <1>b, <2>1
    <3> QED
      BY <3>1, ConcatAssociative
  <2> QED
    BY <2>2, <2>3, <2>4, <2>5 DEF HU
<1>8. raw = (A \o B) \o (C \o rest) /\ raw = A \o (B \o (C \o rest))
  <2> DEFINE AB == A \o B
             Cr == C \o rest
  <2>1. AB \in Seq(Byte)
    BY <1>5
  <2>2. raw = (AB \o C) \o rest
    BY <1>7
  <2> HIDE DEF rest, raw
  <2>3. Cr \in Seq(Byte)
    BY <1>a, <1>b, ConcatIs
  <2>4. (A \o B) \o Cr = A \o (B \o Cr)
    <3> HIDE DEF Cr
    <3>1. A \in Seq(Byte) /\ B \in Seq(Byte) /\ Cr \in Seq(Byte)
      BY <1>a, <2>3
    <3> QED
      BY <3>1, ConcatAssociative
  <2>5. (AB \o C) \o rest = AB \o Cr
    <3> HIDE DEF AB
    <3>1. AB \in Seq(Byte) /\ C \in Seq(Byte) /\ rest \in Seq(Byte)
      BY <1>a, <1>b, <2>1
    <3> QED
      BY <3>1, ConcatAssociative
  <2> QED
    BY <2>2, <2>4, <2>5
<1> DEFINE tail == C \o rest
<1>9. tail \in Seq(Byte) /\ tail[1] = f % Radix /\ Len(tail) \in Nat \ {0}
  <2> HIDE DEF rest
  <2>1. tail \in Seq(Byte) /\ Len(tail) = Len(C) + Len(rest) /\ Len(rest) \in Nat
        /\ \A i \in 1 .. Len(C) : tail[i] = C[i]
    BY <1>a, <1>b, ConcatIs
  <2> QED
    BY <2>1, <1>1
<1>10. raw = (A \o B) \o tail /\ raw = A \o (B \o tail)
  BY <1>8
<1>11. /\ Len(raw) = 2 + HashBytes + Len(rest)
       /\ SubSeq(raw, 2 + HashBytes + 1, 2 + HashBytes + Len(rest)) = rest
       /\ Len(rest) \in Nat
  <2>1. raw = H \o rest /\ Len(H) = 2 + HashBytes
    BY <1>5, <1>7
  <2> HIDE DEF H, rest, raw
  <2>2. /\ Len(H \o rest) = Len(H) + Len(rest) /\ Len(rest) \in Nat
        /\ SubSeq(H \o rest, Len(H) + 1, Len(H) + Len(rest)) = rest
    BY <1>b, ConcatIs
  <2> QED
    BY <2>1, <2>2
<1>12. SubSeq(rest, Len(U) + 1, Len(U) + Len(v)) = v
  BY <1>2, <1>7, ConcatMiddle
<1>13. SubSeq(rest, Len(U) + Len(v) + 1, Len(U) + Len(v) + Len(r)) = r
  <2> DEFINE p == U \o v
  <2>1. p \in Seq(Byte) /\ rest = p \o r /\ Len(p) = Len(U) + Len(v)
    BY <1>6, <1>7
  <2> HIDE DEF p, rest
  <2>2. SubSeq(p \o r, Len(p) + 1, Len(p) + Len(r)) = r
    BY <2>1, ConcatIs
  <2> QED
    BY <2>1, <2>2
<1> HIDE DEF raw, rest, H, tail
<1>14. raw[1] = IndexPrefix
  <2>1. B \o tail \in Seq(Byte)
    BY <1>1, <1>9, ConcatIs
  <2>2. \A i \in 1 .. Len(A) : (A \o (B \o tail))[i] = A[i]
    BY <2>1, <1>1, ConcatIs
  <2> QED
    BY <2>2, <1>1, <1>10
<1>15. SubSeq(raw, 1 + 1, 1 + HashBytes) = B
  <2>1. SubSeq((A \o B) \o tail, Len(A) + 1, Len(A) + Len(B)) = B
    BY <1>1, <1>9, ConcatMiddle
  <2> QED
    BY <2>1, <1>1, <1>10
<1>16. raw[1 + HashBytes + 1] = f % Radix
  <2>1. \A i \in 1 .. Len(tail) : ((A \o B) \o tail)[Len(A \o B) + i] = tail[i]
    BY <1>5, <1>9, ConcatIs
  <2>2. 1 \in 1 .. Len(tail)
    BY <1>9
  <2> QED
    BY <2>1, <2>2, <1>5, <1>9, <1>10
<1>17. /\ ~(Len(raw) < 2 + HashBytes) /\ ~(Len(raw) < 1 + HashBytes)
       /\ 1 + 1 = 2 /\ 1 + HashBytes + 1 = 2 + HashBytes
       /\ 2 + HashBytes + 1 = 3 + HashBytes
       /\ Len(U) # 0 /\ ~(Len(rest) - Len(U) < Len(v))
       /\ Len(rest) = Len(U) + Len(v) + Len(r)
  BY <1>0, <1>1, <1>2, <1>6, <1>11
<1>18. DecodeKey(raw) = Malformed
  BY <1>1, <1>14, <1>17 DEF DecodeKey
<1>19. rest = SubSeq(raw, 3 + HashBytes, Len(raw))
  BY <1>11, <1>17
<1>20. DecodeIndexKey(raw) =
         [kind |-> "index", hash |-> h, field |-> f % Radix, value |-> v,
          pk |-> r]
  <2>1. /\ SubSeq(raw, 2, 1 + HashBytes) = B /\ raw[2 + HashBytes] = f % Radix
        /\ SubSeq(rest, Len(U) + Len(v) + 1, Len(rest)) = r
    BY <1>13, <1>15, <1>16, <1>17
  <2> DEFINE vLen == DecodeUvarint(rest)
  <2>2. vLen.len = Len(U) /\ vLen.value = Len(v)
    BY <1>3
  <2>3. DecodeIndexKey(raw) =
          IF vLen.len = 0 \/ Len(rest) - vLen.len < vLen.value THEN Malformed
          ELSE [kind |-> "index",
                hash |-> FromBigEndian(SubSeq(raw, 2, 1 + HashBytes)),
                field |-> raw[2 + HashBytes],
                value |-> SubSeq(rest, vLen.len + 1, vLen.len + vLen.value),
                pk |-> SubSeq(rest, vLen.len + vLen.value + 1, Len(rest))]
    BY <1>14, <1>17, <1>19 DEF DecodeIndexKey
  <2> HIDE DEF vLen
  <2> QED
    BY <2>1, <2>2, <2>3, <1>1, <1>12, <1>17
<1> QED
  BY <1>4, <1>6, <1>14, <1>18, <1>20 DEF raw

\* Half of the numbers of a primary key are negative.
LEMMA HalfIs ==
  /\ PkBytes \in Nat \ {0} /\ HalfRange \in Nat /\ HalfRange > 0
  /\ 2 * HalfRange = Power(Radix, PkBytes)
<1>1. PkBytes \in Nat \ {0} /\ PkBytes - 1 \in Nat /\ PkBytes - 1 + 1 = PkBytes
  BY KeyAssumption
<1>2. Radix \in Nat /\ Radix > 0 /\ Digit \in Nat /\ Digit > 0 /\ Radix = 2 * Digit
  BY RadixIs
<1> DEFINE x == Power(Radix, PkBytes - 1)
<1>3. x \in Nat /\ x > 0 /\ Power(Radix, PkBytes - 1 + 1) = Radix * x
  BY <1>1, <1>2, PowerIs, PowerPositive
<1> HIDE DEF x
<1>4. Power(Radix, PkBytes) = Radix * x
  BY <1>1, <1>3
<1> DEFINE y == Digit * x
<1>5. y \in Nat /\ y > 0
  BY <1>2, <1>3, SMT
<1>6. Radix * x = 2 * y
  BY <1>2, <1>3
<1> HIDE DEF y
<1>7. (2 * y) \div 2 = y
  BY <1>5
<1>8. HalfRange = y
  BY <1>4, <1>6, <1>7 DEF HalfRange
<1> QED
  BY <1>1, <1>4, <1>5, <1>6, <1>8

\* A primary key is a number of PkBytes bytes and is read back.
LEMMA SignFlippedIs ==
  ASSUME NEW p \in Pks
  PROVE  /\ p \in Int
         /\ p + HalfRange \in 0 .. Power(Radix, PkBytes) - 1
         /\ SignFlipped(p) = BigEndian(p + HalfRange, PkBytes)
         /\ SignFlipped(p) \in Seq(Byte) /\ Len(SignFlipped(p)) = PkBytes
         /\ DecodeOrdered(SignFlipped(p)) = p
<1> DEFINE H == HalfRange
           R == 2 * H
<1>1. /\ H \in Nat /\ H > 0 /\ R = Power(Radix, PkBytes) /\ PkBytes \in Nat
  BY HalfIs
<1>2. p \in -H .. H - 1
  <2>1. Pks \subseteq -HalfRange .. HalfRange - 1
    BY KeyAssumption DEF HalfRange
  <2> QED
    BY <2>1
<1>3. R = 2 * H
  OBVIOUS
<1>4. SignFlipped(p) = BigEndian((p + H) % R, PkBytes)
  BY DEF SignFlipped
<1>5. \A b : DecodeOrdered(b) = LET bits == (FromBigEndian(b) + H) % R
                                IN IF bits < H THEN bits ELSE bits - R
  BY DEF DecodeOrdered
<1> HIDE DEF H, R
<1>6. p \in Int /\ p + H \in Nat /\ p + H < R /\ R \in Nat /\ R > 0
  BY <1>1, <1>2, <1>3
<1> DEFINE n == p + H
<1>7. n % R = n
  <2>1. n \in Nat /\ n < R
    BY <1>6
  <2> HIDE DEF n
  <2> QED
    BY <2>1, <1>6, Division
<1>8. n \in 0 .. Power(Radix, PkBytes) - 1
  BY <1>1, <1>6
<1>9. SignFlipped(p) = BigEndian(n, PkBytes)
  BY <1>4, <1>7
<1>10. /\ BigEndian(n, PkBytes) \in Seq(Byte) /\ Len(BigEndian(n, PkBytes)) = PkBytes
       /\ FromBigEndian(BigEndian(n, PkBytes)) = n
  <2> HIDE DEF n
  <2> QED
    BY <1>1, <1>8, BigEndianIs, BigEndianDecodes
<1> DEFINE bits == (n + H) % R
<1>11. DecodeOrdered(SignFlipped(p)) = IF bits < H THEN bits ELSE bits - R
  BY <1>5, <1>9, <1>10
<1>12. n + H = p + R
  BY <1>1, <1>2, <1>3
<1>13. bits = IF p < 0 THEN p + R ELSE p
  <2>1. CASE p < 0
    <3> DEFINE m == p + R
    <3>1. m \in Nat /\ m < R
      BY <2>1, <1>1, <1>2, <1>3
    <3> HIDE DEF m
    <3>2. m % R = m
      BY <3>1, <1>6, Division
    <3> QED
      BY <2>1, <3>2, <1>12 DEF m
  <2>2. CASE ~(p < 0)
    <3>1. p \in Nat /\ p < R
      BY <2>2, <1>1, <1>2, <1>3
    <3>2. (p + R) % R = p
      BY <3>1, <1>6, SMT
    <3> QED
      BY <2>2, <3>2, <1>12
  <2> QED
    BY <2>1, <2>2
<1> HIDE DEF bits
<1>14. DecodeOrdered(SignFlipped(p)) = p
  BY <1>1, <1>2, <1>3, <1>11, <1>13
<1> QED
  BY <1>6, <1>8, <1>9, <1>10, <1>14 DEF H

-----------------------------------------------------------------------------
(* Entries                                                                  *)

PkPart(e) == IF e.kind = "unique" THEN <<>> ELSE SignFlipped(e.pk)

\* What is written, part by part; rows and index entries differ.
LEMMA EntriesAre ==
  /\ \A e \in Rows : e.kind = "row" /\ e.hash \in Hashes /\ e.pk \in Pks
  /\ \A e \in IndexEntries :
       /\ e.kind \in {"normal", "unique"} /\ e.hash \in Hashes /\ e.pk \in Pks
       /\ e.field \in Nat /\ e.value \in Seq(Byte)
       /\ e.kind = "normal" => e.field \in NormalFields
       /\ e.kind = "unique" => e.field \in UniqueFields
       /\ e \in [kind : {"normal", "unique"}, hash : Hashes, field : Nat,
                 value : FieldValues, pk : Pks]
  /\ Rows \cap IndexEntries = {}
<1>1. /\ NormalFields \subseteq Nat /\ UniqueFields \subseteq Nat
      /\ FieldValues \subseteq Seq(Byte)
  BY KeyAssumption DEF Byte
<1>2. \A e \in Rows : e.kind = "row" /\ e.hash \in Hashes /\ e.pk \in Pks
  BY DEF Rows
<1>3. ASSUME NEW e \in IndexEntries
      PROVE  /\ e.kind \in {"normal", "unique"} /\ e.hash \in Hashes /\ e.pk \in Pks
             /\ e.field \in Nat /\ e.value \in FieldValues
             /\ e.kind = "normal" => e.field \in NormalFields
             /\ e.kind = "unique" => e.field \in UniqueFields
             /\ e \in [kind : {"normal", "unique"}, hash : Hashes, field : Nat,
                       value : FieldValues, pk : Pks]
  <2>1. CASE e \in [kind : {"normal"}, hash : Hashes, field : NormalFields,
                    value : FieldValues, pk : Pks]
    BY <1>1, <2>1
  <2>2. CASE e \in [kind : {"unique"}, hash : Hashes, field : UniqueFields,
                    value : FieldValues, pk : Pks]
    BY <1>1, <2>2
  <2> QED
    BY <2>1, <2>2 DEF IndexEntries
<1>4. Rows \cap IndexEntries = {}
  <2>1. "row" \notin {"normal", "unique"}
    OBVIOUS
  <2> QED
    BY <2>1, <1>2, <1>3
<1> QED
  BY <1>1, <1>2, <1>3, <1>4

\* The key of a row.
LEMMA RowKeyIs ==
  ASSUME NEW e \in Rows
  PROVE  /\ KeyOf(e) = EncodeKey(e.hash, SignFlipped(e.pk))
         /\ KeyOf(e) \in Seq(Byte)
         /\ DecodeKey(KeyOf(e)) =
              [kind |-> "row", hash |-> e.hash, pk |-> SignFlipped(e.pk)]
         /\ DecodeIndexKey(KeyOf(e)) = Malformed
<1>1. e.kind = "row" /\ e.hash \in Hashes /\ SignFlipped(e.pk) \in Seq(Byte)
  BY EntriesAre, SignFlippedIs
<1>2. KeyOf(e) = EncodeKey(e.hash, SignFlipped(e.pk))
  BY <1>1 DEF KeyOf
<1> QED
  BY <1>1, <1>2, RowKeyDecodes

\* The key of an index entry.
LEMMA IndexKeyIs ==
  ASSUME NEW e \in IndexEntries
  PROVE  /\ EncodeIndexPrefix(e.hash, e.field, e.value) \in Seq(Byte)
         /\ PkPart(e) \in Seq(Byte)
         /\ KeyOf(e) = EncodeIndexPrefix(e.hash, e.field, e.value) \o PkPart(e)
         /\ KeyOf(e) \in Seq(Byte)
         /\ DecodeIndexKey(KeyOf(e)) =
              [kind |-> "index", hash |-> e.hash, field |-> e.field % Radix,
               value |-> e.value, pk |-> PkPart(e)]
         /\ DecodeKey(KeyOf(e)) = Malformed
<1> DEFINE P == EncodeIndexPrefix(e.hash, e.field, e.value)
<1>1. /\ e.kind \in {"normal", "unique"} /\ e.hash \in Hashes /\ e.pk \in Pks
      /\ e.field \in Nat /\ e.value \in Seq(Byte)
  BY EntriesAre
<1>2. PkPart(e) \in Seq(Byte)
  <2>1. SignFlipped(e.pk) \in Seq(Byte) /\ <<>> \in Seq(Byte)
    BY <1>1, SignFlippedIs, PartsAre
  <2> QED
    BY <2>1 DEF PkPart
<1>3. /\ P \in Seq(Byte) /\ P \o PkPart(e) \in Seq(Byte)
      /\ DecodeIndexKey(P \o PkPart(e)) =
           [kind |-> "index", hash |-> e.hash, field |-> e.field % Radix,
            value |-> e.value, pk |-> PkPart(e)]
      /\ DecodeKey(P \o PkPart(e)) = Malformed
  BY <1>1, <1>2, IndexKeyDecodes
<1>4. KeyOf(e) = P \o PkPart(e)
  <2>1. CASE e.kind = "normal"
    BY <2>1 DEF KeyOf, PkPart, EncodeIndexKey
  <2>2. CASE e.kind = "unique"
    <3>1. P \o <<>> = P
      BY <1>3, ConcatEmptySeq
    <3> QED
      BY <2>2, <3>1 DEF KeyOf, PkPart
  <2> QED
    BY <1>1, <2>1, <2>2
<1> QED
  BY <1>2, <1>3, <1>4

\* Under the prefix of an index entry stand the entries of its value only.
LEMMA UnderIndexPrefix ==
  ASSUME NEW e \in IndexEntries, NEW x \in Rows \cup IndexEntries,
         IsPrefix(EncodeIndexPrefix(e.hash, e.field, e.value), KeyOf(x))
  PROVE  /\ x \in IndexEntries /\ x.hash = e.hash /\ x.value = e.value
         /\ x.field % Radix = e.field % Radix
<1> DEFINE P == EncodeIndexPrefix(e.hash, e.field, e.value)
<1>1. P \in Seq(Byte) /\ KeyOf(x) \in Seq(Byte)
  BY RowKeyIs, IndexKeyIs
<1>2. PICK r \in Seq(Byte) : KeyOf(x) = P \o r
  <2> HIDE DEF P
  <2> QED
    BY <1>1, PrefixIs DEF P
<1>3. DecodeIndexKey(P \o r) =
        [kind |-> "index", hash |-> e.hash, field |-> e.field % Radix,
         value |-> e.value, pk |-> r]
  BY EntriesAre, IndexKeyDecodes
<1>4. DecodeIndexKey(KeyOf(x)).kind = "index"
  BY <1>2, <1>3
<1>5. x \notin Rows
  BY <1>4, RowKeyIs DEF Malformed
<1>6. x \in IndexEntries
  BY <1>5
<1>7. DecodeIndexKey(KeyOf(x)) =
        [kind |-> "index", hash |-> x.hash, field |-> x.field % Radix,
         value |-> x.value, pk |-> PkPart(x)]
  BY <1>6, IndexKeyIs
<1> QED
  BY <1>2, <1>3, <1>6, <1>7

\* Under the prefix of a table stand its rows only.
LEMMA UnderTablePrefix ==
  ASSUME NEW h \in Hashes, NEW x \in Rows \cup IndexEntries,
         IsPrefix(EncodeKey(h, <<>>), KeyOf(x))
  PROVE  x \in Rows /\ x.hash = h
<1> DEFINE P == EncodeKey(h, <<>>)
<1>0. <<>> \in Seq(Byte)
  BY PartsAre
<1>1. P \in Seq(Byte) /\ KeyOf(x) \in Seq(Byte)
  BY <1>0, RowKeyIs, IndexKeyIs, RowKeyDecodes
<1>2. PICK r \in Seq(Byte) : KeyOf(x) = P \o r
  <2> HIDE DEF P
  <2> QED
    BY <1>1, PrefixIs DEF P
<1>3. P \o r = EncodeKey(h, r)
  <2> DEFINE Q == <<DataPrefix>> \o BigEndian(h, HashBytes)
  <2>1. <<DataPrefix>> \in Seq(Byte) /\ BigEndian(h, HashBytes) \in Seq(Byte)
    BY PartsAre
  <2>2. Q \in Seq(Byte)
    BY <2>1, ConcatIs
  <2>3. P = Q \o <<>> /\ EncodeKey(h, r) = Q \o r
    BY DEF EncodeKey
  <2> HIDE DEF Q
  <2>4. Q \o <<>> = Q
    BY <2>2, ConcatEmptySeq
  <2> QED
    BY <2>3, <2>4
<1>4. DecodeKey(KeyOf(x)) = [kind |-> "row", hash |-> h, pk |-> r]
  BY <1>2, <1>3, RowKeyDecodes
<1>5. x \notin IndexEntries
  <2>1. DecodeKey(KeyOf(x)).kind = "row" /\ Malformed.kind = "malformed"
    BY <1>4 DEF Malformed
  <2> QED
    BY <2>1, IndexKeyIs
<1> QED
  BY <1>4, <1>5, RowKeyIs

-----------------------------------------------------------------------------
(* The order of keys                                                        *)

\* Where two keys of one length part, the smaller byte decides.
LEMMA LessAt ==
  ASSUME NEW s \in Seq(Byte), NEW t \in Seq(Byte), Len(s) = Len(t),
         NEW i \in 1 .. Len(s), \A j \in 1 .. i - 1 : s[j] = t[j], s[i] < t[i]
  PROVE  Less(s, t) /\ ~Less(t, s)
<1>0. /\ Len(s) \in Nat /\ DOMAIN s = 1 .. Len(s) /\ DOMAIN t = 1 .. Len(s)
      /\ \A j \in 1 .. Len(s) : s[j] \in Byte /\ t[j] \in Byte
  BY LenProperties, ElementOfSeq
<1>1. \A j \in 1 .. Len(s) : s[j] \in Int /\ t[j] \in Int
  BY <1>0, RadixIs DEF Byte
<1>2. ASSUME NEW q \in Seq(Byte), NEW j \in 1 .. Len(q)
      PROVE  /\ SubSeq(q, 1, j - 1) \in Seq(Byte)
             /\ Len(SubSeq(q, 1, j - 1)) = j - 1
             /\ \A k \in 1 .. j - 1 : SubSeq(q, 1, j - 1)[k] = q[k]
  <2>1. Len(q) \in Nat
    BY LenProperties
  <2>2. 1 \in Int /\ j - 1 \in Int /\ j - 1 - 1 + 1 = j - 1 /\ j - 1 >= 0
    BY <2>1
  <2>3. \A k \in 1 .. j - 1 : q[k] \in Byte
    BY <2>1, ElementOfSeq
  <2> DEFINE n == j - 1
  <2>4. n \in Int /\ n >= 0 /\ n - 1 + 1 = n /\ \A k \in 1 .. n : q[k] \in Byte
    BY <2>2, <2>3
  <2> HIDE DEF n
  <2>5. /\ SubSeq(q, 1, n) \in Seq(Byte)
        /\ Len(SubSeq(q, 1, n)) = IF 1 <= n THEN n - 1 + 1 ELSE 0
        /\ \A k \in 1 .. n - 1 + 1 : SubSeq(q, 1, n)[k] = q[1 + k - 1]
    BY <2>4, SubSeqProperties
  <2>6. Len(SubSeq(q, 1, n)) = n /\ \A k \in 1 .. n : SubSeq(q, 1, n)[k] = q[k]
    BY <2>4, <2>5
  <2> QED
    BY <2>5, <2>6 DEF n
<1>3. Less(s, t)
  <2>1. SubSeq(s, 1, i - 1) = SubSeq(t, 1, i - 1)
    <3> DEFINE p == SubSeq(s, 1, i - 1)
               q == SubSeq(t, 1, i - 1)
    <3>1. /\ p \in Seq(Byte) /\ q \in Seq(Byte) /\ Len(p) = i - 1 /\ Len(q) = i - 1
          /\ \A k \in 1 .. i - 1 : p[k] = s[k] /\ q[k] = t[k]
      BY <1>2
    <3> HIDE DEF p, q
    <3>2. p = q
      BY <3>1, SeqEqual
    <3> QED
      BY <3>2 DEF p, q
  <2>2. i \in DOMAIN s \cap DOMAIN t
    BY <1>0
  <2> QED
    BY <2>1, <2>2 DEF Less
<1>4. ASSUME Less(t, s)
      PROVE  FALSE
  <2>1. CASE IsStrictPrefix(t, s)
    <3>1. SubSeq(t, 1, Len(t)) = SubSeq(s, 1, Len(t)) /\ t # s
      BY <2>1 DEF IsStrictPrefix, IsPrefix
    <3>2. SubSeq(t, 1, Len(t)) = t /\ SubSeq(s, 1, Len(s)) = s
      BY SubSeqFull
    <3> QED
      BY <3>1, <3>2
  <2>2. CASE \E j \in DOMAIN t \cap DOMAIN s :
               SubSeq(t, 1, j - 1) = SubSeq(s, 1, j - 1) /\ t[j] < s[j]
    <3>1. PICK j \in 1 .. Len(s) :
                 SubSeq(t, 1, j - 1) = SubSeq(s, 1, j - 1) /\ t[j] < s[j]
      BY <2>2, <1>0
    <3>2. \A k \in 1 .. j - 1 : t[k] = s[k]
      BY <3>1, <1>2
    <3>3. ~(i < j)
      <4>1. ASSUME i < j
            PROVE  FALSE
        <5>1. i \in 1 .. j - 1
          BY <4>1, <1>0
        <5> QED
          BY <5>1, <3>2, <1>1
      <4> QED
        BY <4>1
    <3>4. ~(j < i)
      <4>1. ASSUME j < i
            PROVE  FALSE
        <5>1. j \in 1 .. i - 1
          BY <4>1, <1>0
        <5> QED
          BY <5>1, <3>1, <1>1
      <4> QED
        BY <4>1
    <3>5. i = j
      BY <3>3, <3>4, <1>0
    <3> QED
      BY <3>1, <3>5, <1>1
  <2> QED
    BY <1>4, <2>1, <2>2 DEF Less
<1> QED
  BY <1>3, <1>4

\* No key is before itself.
LEMMA LessIrreflexive ==
  ASSUME NEW s \in Seq(Byte)
  PROVE  ~Less(s, s)
<1>1. DOMAIN s = 1 .. Len(s) /\ \A j \in 1 .. Len(s) : s[j] \in Byte
  BY LenProperties, ElementOfSeq
<1>2. \A j \in DOMAIN s : s[j] \in Int
  BY <1>1, RadixIs DEF Byte
<1>3. \A j \in DOMAIN s : ~(s[j] < s[j])
  BY <1>2
<1> QED
  BY <1>3 DEF Less, IsStrictPrefix

\* Behind one prefix, keys are in the order of their primary keys.
LEMMA LessBehind ==
  ASSUME NEW P \in Seq(Byte), NEW a \in Pks, NEW b \in Pks, a < b
  PROVE  /\ Less(P \o SignFlipped(a), P \o SignFlipped(b))
         /\ ~Less(P \o SignFlipped(b), P \o SignFlipped(a))
<1> DEFINE s == SignFlipped(a)
           t == SignFlipped(b)
           m == a + HalfRange
           n == b + HalfRange
           w == PkBytes
<1>1. /\ s \in Seq(Byte) /\ t \in Seq(Byte) /\ Len(s) = w /\ Len(t) = w
      /\ s = BigEndian(m, w) /\ t = BigEndian(n, w)
      /\ m \in 0 .. Power(Radix, w) - 1 /\ n \in 0 .. Power(Radix, w) - 1
      /\ a \in Int /\ b \in Int
  BY SignFlippedIs
<1>2. m < n /\ w \in Nat
  BY <1>1, HalfIs
<1> HIDE DEF s, t, m, n, w
<1>3. PICK i \in 1 .. w :
        /\ \A j \in 1 .. i - 1 : s[j] = t[j]
        /\ s[i] < t[i]
  BY <1>1, <1>2, BigEndianOrder
<1> DEFINE S == P \o s
           T == P \o t
           l == Len(P)
<1>4. /\ S \in Seq(Byte) /\ Len(S) = l + Len(s) /\ l \in Nat
      /\ \A j \in 1 .. l : S[j] = P[j]
      /\ \A j \in 1 .. Len(s) : S[l + j] = s[j]
  <2>1. s \in Seq(Byte)
    BY <1>1
  <2> QED
    BY <2>1, ConcatIs
<1>5. /\ T \in Seq(Byte) /\ Len(T) = l + Len(t)
      /\ \A j \in 1 .. l : T[j] = P[j]
      /\ \A j \in 1 .. Len(t) : T[l + j] = t[j]
  <2>1. t \in Seq(Byte)
    BY <1>1
  <2> QED
    BY <2>1, ConcatIs
<1> HIDE DEF S, T, l
<1>6. Len(S) = Len(T) /\ l + i \in 1 .. Len(S) /\ S[l + i] < T[l + i]
  <2>1. Len(s) = w /\ Len(t) = w
    BY <1>1
  <2>2. Len(S) = l + w /\ Len(T) = l + w
    BY <2>1, <1>4, <1>5
  <2>3. S[l + i] = s[i] /\ T[l + i] = t[i]
    BY <2>1, <1>4, <1>5
  <2>4. l + i \in 1 .. l + w
    BY <1>2, <1>4
  <2> QED
    BY <2>2, <2>3, <2>4, <1>3
<1>7. ASSUME NEW j \in 1 .. l + i - 1
      PROVE  S[j] = T[j]
  <2>1. CASE j <= l
    <3>1. j \in 1 .. l
      BY <2>1, <1>4
    <3> QED
      BY <3>1, <1>4, <1>5
  <2>2. CASE ~(j <= l)
    <3> DEFINE k == j - l
    <3>1. k \in 1 .. i - 1 /\ k \in 1 .. w /\ j = l + k
      BY <2>2, <1>2, <1>4
    <3> HIDE DEF k
    <3> QED
      BY <3>1, <1>1, <1>3, <1>4, <1>5
  <2> QED
    BY <2>1, <2>2
<1>8. Less(S, T) /\ ~Less(T, S)
  <2> DEFINE k == l + i
  <2>1. k \in 1 .. Len(S) /\ S[k] < T[k] /\ \A j \in 1 .. k - 1 : S[j] = T[j]
    <3>1. k - 1 = l + i - 1
      BY <1>2, <1>4
    <3>2. \A j \in 1 .. k - 1 : S[j] = T[j]
      BY <3>1, <1>7
    <3> QED
      BY <3>2, <1>6
  <2> HIDE DEF k
  <2> QED
    BY <2>1, <1>4, <1>5, <1>6, LessAt
<1> QED
  BY <1>8 DEF S, T, s, t

-----------------------------------------------------------------------------
(* The invariant                                                            *)

KeysOfEntries == DOMAIN disk = {KeyOf(e) : e \in entries}

HeldByAnEntry ==
  \A k \in DOMAIN disk :
    \E e \in entries : k = KeyOf(e) /\ disk[k] = SignFlipped(e.pk)

OneHolder ==
  \A a, b \in entries :
    /\ a.kind = "unique" /\ b.kind = "unique"
    /\ a.hash = b.hash /\ a.field = b.field /\ a.value = b.value
    => a = b

KeyInv ==
  /\ entries \subseteq Rows \cup IndexEntries
  /\ KeysOfEntries
  /\ HeldByAnEntry
  /\ OneHolder

\* A unique entry replaces those of its value, which have its key.
LEMMA ReplacedIs ==
  ASSUME NEW e \in Rows \cup IndexEntries
  PROVE  /\ \A x \in Replaced(e) : KeyOf(x) = KeyOf(e)
         /\ \A x \in Rows \cup IndexEntries :
              /\ e.kind = "unique" /\ x.kind = "unique"
              /\ x.hash = e.hash /\ x.field = e.field /\ x.value = e.value
              => x \in Replaced(e)
<1>1. CASE e.kind # "unique"
  BY <1>1 DEF Replaced
<1>2. CASE e.kind = "unique"
  <2>1. e \in IndexEntries
    BY <1>2, EntriesAre
  <2>2. Replaced(e) = {[e EXCEPT !.pk = p] : p \in Pks}
    BY <1>2 DEF Replaced
  <2>3. e \in [kind : {"normal", "unique"}, hash : Hashes, field : Nat,
               value : FieldValues, pk : Pks]
    BY <2>1, EntriesAre
  <2>4. ASSUME NEW x \in Replaced(e)
        PROVE  KeyOf(x) = KeyOf(e)
    <3>1. PICK p \in Pks : x = [e EXCEPT !.pk = p]
      BY <2>2
    <3>2. x.kind = "unique" /\ x.hash = e.hash /\ x.field = e.field
          /\ x.value = e.value
      BY <1>2, <2>3, <3>1
    <3> QED
      BY <1>2, <3>2 DEF KeyOf
  <2>5. ASSUME NEW x \in Rows \cup IndexEntries, x.kind = "unique",
               x.hash = e.hash, x.field = e.field, x.value = e.value
        PROVE  x \in Replaced(e)
    <3>1. x \in IndexEntries
      BY <2>5, EntriesAre
    <3>2. /\ x \in [kind : {"normal", "unique"}, hash : Hashes, field : Nat,
                    value : FieldValues, pk : Pks]
          /\ x.pk \in Pks
      BY <3>1, EntriesAre
    <3>3. x = [e EXCEPT !.pk = x.pk]
      BY <1>2, <2>3, <2>5, <3>2
    <3> QED
      BY <2>2, <3>2, <3>3
  <2> QED
    BY <2>4, <2>5
<1> QED
  BY <1>1, <1>2

\* The empty store.
LEMMA KeyInit == Init => KeyInv
<1> SUFFICES ASSUME Init
             PROVE  KeyInv
  OBVIOUS
<1>1. entries = {} /\ disk = <<>> /\ DOMAIN disk = {}
  BY DEF Init
<1> QED
  BY <1>1 DEF KeyInv, KeysOfEntries, HeldByAnEntry, OneHolder

\* A write keeps the invariant: what it replaces has the key it writes.
LEMMA KeyWrite ==
  ASSUME KeyInv, NEW e \in Rows \cup IndexEntries, Write(e)
  PROVE  KeyInv'
<1> DEFINE k == KeyOf(e)
<1>1. /\ entries' = (entries \ Replaced(e)) \cup {e}
      /\ disk' = [x \in DOMAIN disk \cup {k} |->
                    IF x = k THEN SignFlipped(e.pk) ELSE disk[x]]
  BY DEF Write
<1>2. /\ entries \subseteq Rows \cup IndexEntries
      /\ KeysOfEntries /\ HeldByAnEntry /\ OneHolder
  BY DEF KeyInv
<1>3. \A x \in Replaced(e) : KeyOf(x) = k
  BY ReplacedIs
<1>k. k = KeyOf(e)
  OBVIOUS
<1> HIDE DEF k
<1>4. entries' \subseteq Rows \cup IndexEntries
  BY <1>1, <1>2
<1>5. KeysOfEntries'
  <2>1. DOMAIN disk' = DOMAIN disk \cup {k}
    BY <1>1
  <2>2. {KeyOf(x) : x \in entries} \cup {k} = {KeyOf(x) : x \in entries'}
    BY <1>1, <1>3, <1>k
  <2> QED
    BY <2>1, <2>2, <1>2 DEF KeysOfEntries
<1>6. HeldByAnEntry'
  <2>1. ASSUME NEW x \in DOMAIN disk'
        PROVE  \E d \in entries' : x = KeyOf(d) /\ disk'[x] = SignFlipped(d.pk)
    <3>1. CASE x = k
      BY <3>1, <1>1, <1>k
    <3>2. CASE x # k
      <4>1. x \in DOMAIN disk /\ disk'[x] = disk[x]
        BY <3>2, <1>1
      <4>2. PICK d \in entries : x = KeyOf(d) /\ disk[x] = SignFlipped(d.pk)
        BY <4>1, <1>2 DEF HeldByAnEntry
      <4>3. d \in entries'
        BY <3>2, <4>2, <1>1, <1>3
      <4> QED
        BY <4>1, <4>2, <4>3
    <3> QED
      BY <3>1, <3>2
  <2> QED
    BY <2>1 DEF HeldByAnEntry
<1>7. OneHolder'
  <2>1. ASSUME NEW a \in entries', NEW b \in entries',
               a.kind = "unique", b.kind = "unique", a.hash = b.hash,
               a.field = b.field, a.value = b.value
        PROVE  a = b
    <3>1. ASSUME NEW x \in entries' \ {e}
          PROVE  x \in entries /\ x \notin Replaced(e)
                 /\ x \in Rows \cup IndexEntries
      BY <1>1, <1>2
    <3>2. CASE a # e /\ b # e
      BY <3>1, <3>2, <2>1, <1>2 DEF OneHolder
    <3>3. CASE a = e /\ b # e
      BY <3>1, <3>3, <2>1, ReplacedIs
    <3>4. CASE b = e /\ a # e
      BY <3>1, <3>4, <2>1, ReplacedIs
    <3> QED
      BY <3>2, <3>3, <3>4
  <2> QED
    BY <2>1 DEF OneHolder
<1> QED
  BY <1>4, <1>5, <1>6, <1>7 DEF KeyInv

(* encode.go:74-97, 144-146: whatever was written and replaced, the keys on *)
(* disk are those of the entries, each holds the primary key of an entry    *)
(* that has this key, and a unique value has one holder.                    *)
THEOREM KeyInvariant == Spec => []KeyInv
<1>1. Init => KeyInv
  BY KeyInit
<1>2. ASSUME KeyInv, [Next]_vars
      PROVE  KeyInv'
  <2>1. CASE Next
    <3>1. PICK e \in Rows \cup IndexEntries : Write(e)
      BY <2>1 DEF Next
    <3> QED
      BY <1>2, <3>1, KeyWrite
  <2>2. CASE UNCHANGED vars
    BY <1>2, <2>2 DEF vars, KeyInv, KeysOfEntries, HeldByAnEntry, OneHolder
  <2> QED
    BY <1>2, <2>1, <2>2
<1> QED
  BY <1>1, <1>2, PTL DEF Spec

\* A scan of an index finds the entries of its value.
LEMMA IndexScansExact ==
  ASSUME KeyInv, NEW e \in entries \ Rows, Alone(e)
  PROVE  {disk[k] : k \in Scan(EncodeIndexPrefix(e.hash, e.field, e.value))} =
           {SignFlipped(d.pk) : d \in {x \in entries \ Rows :
              x.hash = e.hash /\ x.field = e.field /\ x.value = e.value}}
<1> DEFINE P     == EncodeIndexPrefix(e.hash, e.field, e.value)
           Same  == {x \in entries \ Rows :
                       x.hash = e.hash /\ x.field = e.field /\ x.value = e.value}
<1>1. /\ entries \subseteq Rows \cup IndexEntries
      /\ KeysOfEntries /\ HeldByAnEntry /\ OneHolder
  BY DEF KeyInv
<1>2. e \in IndexEntries
  BY <1>1
<1>3. ASSUME NEW x \in entries, IsPrefix(P, KeyOf(x))
      PROVE  x \in Same
  <2>1. x \in Rows \cup IndexEntries
    BY <1>1
  <2>2. /\ x \in IndexEntries /\ x.hash = e.hash /\ x.value = e.value
        /\ x.field % Radix = e.field % Radix
    BY <1>2, <1>3, <2>1, UnderIndexPrefix
  <2>3. x \in entries \ Rows
    BY <2>2, EntriesAre
  <2>4. x.field = e.field
    BY <2>2, <2>3 DEF Alone
  <2> QED
    BY <2>2, <2>3, <2>4
<1>4. ASSUME NEW k \in Scan(P)
      PROVE  \E d \in Same : k = KeyOf(d) /\ disk[k] = SignFlipped(d.pk)
  <2>1. k \in DOMAIN disk /\ IsPrefix(P, k)
    BY DEF Scan
  <2>2. PICK d \in entries : k = KeyOf(d) /\ disk[k] = SignFlipped(d.pk)
    BY <1>1, <2>1 DEF HeldByAnEntry
  <2>3. d \in Same
    BY <1>3, <2>1, <2>2
  <2> QED
    BY <2>2, <2>3
<1>5. ASSUME NEW d \in Same
      PROVE  KeyOf(d) \in Scan(P) /\ disk[KeyOf(d)] = SignFlipped(d.pk)
  <2>1. d \in entries /\ d \in IndexEntries /\ d.hash = e.hash
        /\ d.field = e.field /\ d.value = e.value
    BY <1>1
  <2>2. KeyOf(d) \in DOMAIN disk
    BY <1>1, <2>1 DEF KeysOfEntries
  <2>3. IsPrefix(P, KeyOf(d))
    <3>1. P \in Seq(Byte) /\ PkPart(d) \in Seq(Byte) /\ KeyOf(d) = P \o PkPart(d)
      BY <2>1, IndexKeyIs
    <3> HIDE DEF P
    <3> QED
      BY <3>1, PrefixOfConcat
  <2>4. KeyOf(d) \in Scan(P)
    BY <2>2, <2>3 DEF Scan
  <2>5. PICK x \in Same : KeyOf(d) = KeyOf(x)
                          /\ disk[KeyOf(d)] = SignFlipped(x.pk)
    BY <1>4, <2>4
  <2>6. x \in IndexEntries /\ x \in entries /\ x.hash = d.hash
        /\ x.field = d.field /\ x.value = d.value
    BY <1>1, <2>1
  <2>7. x.kind = d.kind
    <3>1. NormalFields \cap UniqueFields = {}
      BY KeyAssumption
    <3> QED
      BY <2>1, <2>6, <3>1, EntriesAre
  <2>8. SignFlipped(x.pk) = SignFlipped(d.pk)
    <3>1. CASE d.kind = "unique"
      BY <3>1, <2>1, <2>6, <2>7, <1>1 DEF OneHolder
    <3>2. CASE d.kind # "unique"
      <4>1. DecodeIndexKey(KeyOf(d)).pk = PkPart(d)
        BY <2>1, IndexKeyIs
      <4>2. DecodeIndexKey(KeyOf(x)).pk = PkPart(x)
        BY <2>6, IndexKeyIs
      <4> QED
        BY <3>2, <4>1, <4>2, <2>5, <2>7 DEF PkPart
    <3> QED
      BY <3>1, <3>2
  <2> QED
    BY <2>4, <2>5, <2>8
<1> HIDE DEF Same, P
<1>6. {disk[k] : k \in Scan(P)} = {SignFlipped(d.pk) : d \in Same}
  BY <1>4, <1>5
<1> QED
  BY <1>6 DEF Same, P

\* A scan of a table finds its rows.
LEMMA TableScansExact ==
  ASSUME KeyInv, NEW h \in Hashes
  PROVE  {disk[k] : k \in Scan(EncodeKey(h, <<>>))} =
           {SignFlipped(d.pk) : d \in {x \in entries \cap Rows : x.hash = h}}
<1> DEFINE P    == EncodeKey(h, <<>>)
           Same == {x \in entries \cap Rows : x.hash = h}
<1>1. /\ entries \subseteq Rows \cup IndexEntries
      /\ KeysOfEntries /\ HeldByAnEntry
  BY DEF KeyInv
<1>2. ASSUME NEW k \in Scan(P)
      PROVE  \E d \in Same : k = KeyOf(d) /\ disk[k] = SignFlipped(d.pk)
  <2>1. k \in DOMAIN disk /\ IsPrefix(P, k)
    BY DEF Scan
  <2>2. PICK d \in entries : k = KeyOf(d) /\ disk[k] = SignFlipped(d.pk)
    BY <1>1, <2>1 DEF HeldByAnEntry
  <2>3. d \in Rows \cup IndexEntries /\ IsPrefix(P, KeyOf(d))
    BY <1>1, <2>1, <2>2
  <2>4. d \in Rows /\ d.hash = h
    BY <2>3, UnderTablePrefix
  <2> QED
    BY <2>2, <2>4
<1>3. ASSUME NEW d \in Same
      PROVE  KeyOf(d) \in Scan(P) /\ disk[KeyOf(d)] = SignFlipped(d.pk)
  <2>1. d \in entries /\ d \in Rows /\ d.hash = h
    OBVIOUS
  <2>2. KeyOf(d) \in DOMAIN disk
    BY <1>1, <2>1 DEF KeysOfEntries
  <2>3. IsPrefix(P, KeyOf(d))
    <3> DEFINE Q == <<DataPrefix>> \o BigEndian(h, HashBytes)
               r == SignFlipped(d.pk)
    <3>1. <<DataPrefix>> \in Seq(Byte) /\ BigEndian(h, HashBytes) \in Seq(Byte)
      BY PartsAre
    <3>2. Q \in Seq(Byte)
      BY <3>1, ConcatIs
    <3>3. P = Q \o <<>> /\ KeyOf(d) = Q \o r
      BY <2>1, RowKeyIs DEF EncodeKey
    <3>4. r \in Seq(Byte)
      BY <2>1, EntriesAre, SignFlippedIs
    <3> HIDE DEF Q, r, P
    <3>5. Q \o <<>> = Q
      BY <3>2, ConcatEmptySeq
    <3>6. IsPrefix(Q, Q \o r)
      BY <3>2, <3>4, PrefixOfConcat
    <3> QED
      BY <3>3, <3>5, <3>6
  <2>4. KeyOf(d) \in Scan(P)
    BY <2>2, <2>3 DEF Scan
  <2>5. PICK x \in Same : KeyOf(d) = KeyOf(x)
                          /\ disk[KeyOf(d)] = SignFlipped(x.pk)
    BY <1>2, <2>4
  <2>6. DecodeKey(KeyOf(d)).pk = SignFlipped(d.pk)
        /\ DecodeKey(KeyOf(x)).pk = SignFlipped(x.pk)
    BY <2>1, RowKeyIs
  <2> QED
    BY <2>4, <2>5, <2>6
<1> HIDE DEF Same, P
<1>4. {disk[k] : k \in Scan(P)} = {SignFlipped(d.pk) : d \in Same}
  BY <1>2, <1>3
<1> QED
  BY <1>4 DEF Same, P

(* encode.go:7-12, 126: a scan finds the entries of its value and the rows  *)
(* of its table, all of them and no others, however long the values are and *)
(* whatever bytes they have, for fields whose numbers differ in a byte.     *)
THEOREM ScansExactAlways == Spec => []ScansExact
<1>1. KeyInv => ScansExact
  BY IndexScansExact, TableScansExact DEF ScansExact
<1> QED
  BY <1>1, KeyInvariant, PTL

\* Keys of one table or of one value are ordered by their primary keys.
LEMMA KeysInPkOrder ==
  ASSUME NEW a \in Rows \cup IndexEntries, NEW b \in Rows \cup IndexEntries,
         a.kind = b.kind, a.kind # "unique", a.hash = b.hash,
         a.kind = "normal" => a.field = b.field /\ a.value = b.value
  PROVE  Less(KeyOf(a), KeyOf(b)) <=> a.pk < b.pk
<1>1. a.pk \in Pks /\ b.pk \in Pks /\ a.pk \in Int /\ b.pk \in Int
  BY EntriesAre, SignFlippedIs
<1>2. \E P \in Seq(Byte) : /\ KeyOf(a) = P \o SignFlipped(a.pk)
                           /\ KeyOf(b) = P \o SignFlipped(b.pk)
  <2>1. CASE a \in Rows
    <3>1. a.kind = "row" /\ a.hash \in Hashes
      BY <2>1, EntriesAre
    <3>2. b \in Rows
      BY <3>1, EntriesAre
    <3> DEFINE P == <<DataPrefix>> \o BigEndian(a.hash, HashBytes)
    <3>3. <<DataPrefix>> \in Seq(Byte) /\ BigEndian(a.hash, HashBytes) \in Seq(Byte)
      BY <3>1, PartsAre
    <3>4. P \in Seq(Byte)
      BY <3>3, ConcatIs
    <3>5. KeyOf(a) = P \o SignFlipped(a.pk) /\ KeyOf(b) = P \o SignFlipped(b.pk)
      BY <2>1, <3>2, RowKeyIs DEF EncodeKey
    <3> QED
      BY <3>4, <3>5
  <2>2. CASE a \in IndexEntries
    <3>1. a.kind = "normal"
      BY <2>2, EntriesAre
    <3>2. b \in IndexEntries
      BY <3>1, EntriesAre
    <3> DEFINE P == EncodeIndexPrefix(a.hash, a.field, a.value)
    <3>3. P \in Seq(Byte) /\ KeyOf(a) = P \o PkPart(a) /\ KeyOf(b) = P \o PkPart(b)
      BY <2>2, <3>1, <3>2, IndexKeyIs
    <3> QED
      BY <3>1, <3>3 DEF PkPart
  <2> QED
    BY <2>1, <2>2
<1>3. PICK P \in Seq(Byte) : /\ KeyOf(a) = P \o SignFlipped(a.pk)
                             /\ KeyOf(b) = P \o SignFlipped(b.pk)
  BY <1>2
<1>4. CASE a.pk < b.pk
  BY <1>1, <1>3, <1>4, LessBehind
<1>5. CASE b.pk < a.pk
  <2>1. ~Less(KeyOf(a), KeyOf(b))
    BY <1>1, <1>3, <1>5, LessBehind
  <2> QED
    BY <2>1, <1>1, <1>5
<1>6. CASE a.pk = b.pk
  <2>1. KeyOf(a) = KeyOf(b) /\ KeyOf(a) \in Seq(Byte)
    BY <1>3, <1>6, RowKeyIs, IndexKeyIs
  <2>2. ~Less(KeyOf(a), KeyOf(b))
    BY <2>1, LessIrreflexive
  <2> QED
    BY <2>2, <1>1, <1>6
<1> QED
  BY <1>1, <1>4, <1>5, <1>6

(* encode.go:25-29: bytes.Compare orders the keys of a table, or of one     *)
(* value of an index, by their primary keys, negative ones included.        *)
THEOREM ScansInPkOrderAlways == Spec => []ScansInPkOrder
<1>1. KeyInv => ScansInPkOrder
  <2> SUFFICES ASSUME KeyInv
               PROVE  ScansInPkOrder
    OBVIOUS
  <2>1. entries \subseteq Rows \cup IndexEntries
    BY DEF KeyInv
  <2> QED
    BY <2>1, KeysInPkOrder DEF ScansInPkOrder
<1> QED
  BY <1>1, KeyInvariant, PTL

(* encode.go:102-121, 150-156: a key decodes to what it was made from, and  *)
(* no row is taken for an index entry or the other way round.               *)
THEOREM KeysDecodeAlways == Spec => []KeysDecode
<1>1. KeyInv => KeysDecode
  <2> SUFFICES ASSUME KeyInv
               PROVE  KeysDecode
    OBVIOUS
  <2>1. entries \subseteq Rows \cup IndexEntries /\ KeysOfEntries /\ HeldByAnEntry
    BY DEF KeyInv
  <2>2. TypeOK
    <3>1. ASSUME NEW k \in DOMAIN disk
          PROVE  /\ k \in Seq(Byte)
                 /\ disk[k] \in Seq(Byte) /\ Len(disk[k]) = PkBytes
      <4>1. PICK e \in entries : k = KeyOf(e) /\ disk[k] = SignFlipped(e.pk)
        BY <2>1 DEF HeldByAnEntry
      <4>2. e \in Rows \cup IndexEntries
        BY <2>1
      <4>3. KeyOf(e) \in Seq(Byte) /\ e.pk \in Pks
        BY <4>2, RowKeyIs, IndexKeyIs, EntriesAre
      <4> QED
        BY <4>1, <4>3, SignFlippedIs
    <3> QED
      BY <2>1, <3>1 DEF TypeOK, Byte
  <2>3. ASSUME NEW e \in entries, e.kind = "row"
        PROVE  /\ DecodeIndexKey(KeyOf(e)) = Malformed
               /\ DecodeKey(KeyOf(e)) =
                    [kind |-> "row", hash |-> e.hash, pk |-> SignFlipped(e.pk)]
               /\ DecodeOrdered(DecodeKey(KeyOf(e)).pk) = e.pk
    <3>1. e \in Rows
      BY <2>1, <2>3, EntriesAre
    <3>2. DecodeKey(KeyOf(e)).pk = SignFlipped(e.pk) /\ e.pk \in Pks
      BY <3>1, RowKeyIs, EntriesAre
    <3> QED
      BY <3>1, <3>2, RowKeyIs, SignFlippedIs
  <2>4. ASSUME NEW e \in entries, e.kind # "row"
        PROVE  /\ DecodeKey(KeyOf(e)) = Malformed
               /\ DecodeIndexKey(KeyOf(e)) =
                    [kind |-> "index", hash |-> e.hash, field |-> e.field % Radix,
                     value |-> e.value,
                     pk |-> IF e.kind = "unique" THEN <<>> ELSE SignFlipped(e.pk)]
    <3>1. e \in IndexEntries
      BY <2>1, <2>4, EntriesAre
    <3> QED
      BY <3>1, IndexKeyIs DEF PkPart
  <2> QED
    BY <2>2, <2>3, <2>4 DEF KeysDecode
<1> QED
  BY <1>1, KeyInvariant, PTL

-----------------------------------------------------------------------------
(* The schema table                                                         *)

(* What is true of a table that the compiler lets through.                  *)
SoundTable(t) ==
  /\ t.message \in DOMAIN Hash
  /\ t.id = Hash[t.message]
  /\ t.ttl \in Durations \cup {NoTTL}
  /\ t.pk \in t.fields
  /\ t.indexed \subseteq t.fields \ {t.pk}
  /\ t.ttl = NoTTL \/ t.ttl > 0 \/ t.ttl \in Overflowed

SoundList(l) ==
  /\ l \in Seq(ToSet(l))
  /\ \A t \in ToSet(l) : SoundTable(t)
  /\ \A i, j \in DOMAIN l : l[i].id = l[j].id => i = j

(* Where a request stands; whose key was decoded by the schema of now, or   *)
(* whose entry by one schema, unless it was overtaken.                      *)
HandlerOK(h) ==
  LET r == handler[h]
  IN /\ r.at \in {"idle", "import", "key", "row", "entry"}
     /\ r.at = "import" => r.source \in Sources /\ r.built \in Builds
     /\ r.at \in {"key", "row", "entry"} => r.i \in 1 .. Len(Stored)
     /\ r.at = "row" /\ h \notin moved => r.by = tables[Stored[r.i].id]
     /\ r.at = "entry" /\ h \notin moved => r.row = r.by

AdminInv ==
  /\ source \in Sources \cup {NoTable}
  /\ source = NoTable => list = <<>>
  /\ SoundList(list)
  /\ tables = ById(list)
  /\ DOMAIN handler = Handlers
  /\ \A h \in Handlers : HandlerOK(h)
  /\ uploads \in 0 .. MaxUploads
  /\ moved \subseteq Handlers

-----------------------------------------------------------------------------
(* What is compiled                                                         *)

\* Days end up as some duration, and as themselves when they fit.
LEMMA WrappedType ==
  ASSUME NEW n \in Int
  PROVE  /\ Wrapped(n) \in Durations
         /\ n \in 0 .. MaxDuration => Wrapped(n) = n
<1> DEFINE w == 2 * (MaxDuration + 1)
           p == n + MaxDuration + 1
<1>1. MaxDuration \in Nat /\ w \in Nat /\ w > 0 /\ p \in Int
  BY SchemaAssumption
<1>2. w = MaxDuration + 1 + MaxDuration + 1
  BY <1>1
<1>3. n \in 0 .. MaxDuration => p \in 0 .. w - 1
  BY <1>1, <1>2
<1>4. Wrapped(n) = (p % w) - (MaxDuration + 1)
  BY DEF Wrapped
<1> HIDE DEF w
<1>5. p % w \in 0 .. w - 1 /\ (p \in 0 .. w - 1 => p % w = p)
  <2> HIDE DEF p
  <2> QED
    BY <1>1
<1>6. p = n + MaxDuration + 1
  OBVIOUS
<1> HIDE DEF p
<1> DEFINE r == p % w
<1>7. r \in 0 .. w - 1
  BY <1>5
<1>8. Wrapped(n) = r - (MaxDuration + 1)
  BY <1>4
<1>9. n \in 0 .. MaxDuration => r = p
  BY <1>3, <1>5
<1> HIDE DEF r
<1>10. r - (MaxDuration + 1) \in Durations
  BY <1>1, <1>2, <1>7 DEF Durations
<1>11. n \in 0 .. MaxDuration => r - (MaxDuration + 1) = n
  BY <1>1, <1>6, <1>9
<1> QED
  BY <1>8, <1>10, <1>11

\* The messages that are compiled are messages of the file.
LEMMA TaggedOfFile ==
  ASSUME NEW file, file \in Seq(ToSet(file))
  PROVE  /\ \E c \in Nat : DOMAIN TaggedOf(file) = 1 .. c
         /\ \A k \in DOMAIN TaggedOf(file) : TaggedOf(file)[k] \in ToSet(file)
<1> DEFINE tagged == {i \in DOMAIN file : Tagged(file[i])}
           c == Cardinality(tagged)
           InOrderOf(s) == \A j, k \in DOMAIN s : j < k => s[j] < s[k]
           order == CHOOSE s \in [1 .. c -> tagged] : InOrderOf(s)
<1>1. Len(file) \in Nat /\ DOMAIN file = 1 .. Len(file)
  BY LenProperties
<1>2. tagged \in SUBSET (1 .. Len(file))
  BY <1>1
<1>3. c \in Nat
  <2>1. IsFiniteSet(1 .. Len(file))
    BY <1>1, FS_Interval
  <2>2. IsFiniteSet(tagged)
    BY <1>2, <2>1, FS_Subset
  <2> QED
    BY <2>2, FS_CardinalityType
<1>4. \E s \in [1 .. c -> tagged] : InOrderOf(s)
  <2> DEFINE T == tagged
  <2>1. T \in SUBSET (1 .. Len(file))
    BY <1>2
  <2> HIDE DEF T
  <2>2. \E s \in [1 .. Cardinality(T) -> T] :
          \A j, k \in DOMAIN s : j < k => s[j] < s[k]
    BY <2>1, <1>1, InOrder
  <2> QED
    BY <2>2 DEF T
<1>5. TaggedOf(file) = [k \in DOMAIN order |-> file[order[k]]]
  BY Zenon DEF TaggedOf
<1> HIDE DEF c, InOrderOf
<1>6. order \in [1 .. c -> tagged]
  <2> HIDE DEF tagged
  <2> QED
    BY <1>4, Zenon
<1> HIDE DEF order
<1>7. DOMAIN TaggedOf(file) = 1 .. c
  BY <1>5, <1>6
<1>8. ASSUME NEW k \in 1 .. c
      PROVE  TaggedOf(file)[k] \in ToSet(file)
  <2>1. TaggedOf(file)[k] = file[order[k]] /\ order[k] \in DOMAIN file
    BY <1>5, <1>6
  <2> QED
    BY <2>1 DEF ToSet
<1> QED
  BY <1>3, <1>7, <1>8

\* A time to live is a duration after now, unless its days overflowed.
LEMMA TTLSound ==
  ASSUME NEW file \in Files, NEW msg \in ToSet(file), NEW d \in TTL(msg)
  PROVE  /\ d \in Durations \cup {NoTTL}
         /\ d = NoTTL \/ d > 0 \/ d \in Overflowed
<1> DEFINE declared == {i \in DOMAIN msg.fields : msg.fields[i].ttl # NoTTL}
<1>1. /\ msg.fields \in Seq(ToSet(msg.fields))
      /\ \A f \in ToSet(msg.fields) :
           f.ttl # NoTTL => f.ttl.unit \in {"d", "ns"} /\ f.ttl.n \in Int
  BY AdminAssumption DEF WellFormed
<1>2. CASE declared = {}
  BY <1>2 DEF TTL
<1>3. CASE declared # {}
  <2> DEFINE i == Min(declared)
             u == msg.fields[i].ttl
  <2>1. declared \in SUBSET Nat
    BY <1>1, LenProperties
  <2>2. i \in declared
    <3> DEFINE D == declared
    <3>1. D \in SUBSET Nat /\ D # {}
      BY <2>1, <1>3
    <3> HIDE DEF D
    <3>2. \E x \in D : \A y \in D : x <= y
      BY <3>1, LeastExists
    <3>3. Min(D) \in D
      BY <3>2 DEF Min
    <3> QED
      BY <3>3 DEF D
  <2>3. d \in ParseTTL(u)
    BY <1>3 DEF TTL
  <2> HIDE DEF i
  <2>4. msg.fields[i] \in ToSet(msg.fields) /\ u # NoTTL
    BY <2>2 DEF ToSet
  <2>5. u.unit \in {"d", "ns"} /\ u.n \in Int
    BY <1>1, <2>4
  <2>6. u \in UNION {{f.ttl : f \in ToSet(m.fields)} :
                       m \in UNION {ToSet(fl) : fl \in Files}}
    BY <2>4
  <2> DEFINE n == u.n
             p == n * Day
  <2>7. Day \in Nat /\ Day > 0 /\ MaxDuration \in Nat
    BY SchemaAssumption
  <2>8. n \in Int /\ n > 0
    <3>1. ~(n <= 0)
      BY <2>3 DEF ParseTTL
    <3> QED
      BY <3>1, <2>5
  <2>9. p \in Nat /\ p > 0
    <3> HIDE DEF n
    <3> QED
      BY <2>7, <2>8
  <2>10. CASE u.unit = "d"
    <3>1. d = Wrapped(p)
      BY <2>3, <2>8, <2>10 DEF ParseTTL
    <3>2. p > MaxDuration => Wrapped(p) \in Overflowed
      <4>1. ASSUME p > MaxDuration
            PROVE  Wrapped(p) \in Overflowed
        <5>1. u \in {x \in UNION {{f.ttl : f \in ToSet(m.fields)} :
                               m \in UNION {ToSet(fl) : fl \in Files}} :
                    x # NoTTL /\ x.unit = "d" /\ x.n * Day > MaxDuration}
          BY <2>4, <2>6, <2>10, <4>1
        <5> HIDE DEF u
        <5> QED
          BY <5>1, Zenon DEF Overflowed
      <4> QED
        BY <4>1
    <3> HIDE DEF p
    <3>3. Wrapped(p) \in Durations
      BY <2>9, WrappedType
    <3>4. p \in 0 .. MaxDuration => Wrapped(p) = p
      BY <2>9, WrappedType
    <3> QED
      BY <3>1, <3>2, <3>3, <3>4, <2>7, <2>9
  <2>11. CASE u.unit # "d"
    <3>1. d = n /\ n <= MaxDuration
      BY <2>3, <2>8, <2>11 DEF ParseTTL
    <3> HIDE DEF n
    <3> QED
      BY <3>1, <2>7, <2>8 DEF Durations
  <2> QED
    BY <2>10, <2>11
<1> QED
  BY <1>2, <1>3

\* A table that is built has its primary key among its fields, and no index
\* on it.
LEMMA TableSound ==
  ASSUME NEW file \in Files, NEW msg \in ToSet(file),
         NEW t \in BuildTable(msg, Hash[msg.name])
  PROVE  SoundTable(t)
<1> DEFINE Built(i, d) ==
             [message |-> msg.name, id |-> Hash[msg.name],
              pk |-> msg.fields[i].name,
              fields |-> {f.name : f \in ToSet(msg.fields)},
              indexed |-> {f.name : f \in IndexedFields(msg)}, ttl |-> d]
<1>1. /\ msg.name \in DOMAIN Hash
      /\ \A i, j \in DOMAIN msg.fields :
           msg.fields[i].name = msg.fields[j].name => i = j
  BY AdminAssumption DEF WellFormed
<1>2. PICK i \in PrimaryKeys(msg), d \in TTL(msg) : t = Built(i, d)
  BY DEF BuildTable
<1>3. i \in DOMAIN msg.fields /\ Marked(msg, msg.fields[i])
  BY <1>2 DEF PrimaryKeys
<1>4. msg.fields[i].name \in {f.name : f \in ToSet(msg.fields)}
  BY <1>3 DEF ToSet
<1>5. ASSUME NEW f \in IndexedFields(msg)
      PROVE  f \in ToSet(msg.fields) /\ f.name # msg.fields[i].name
  <2>1. f \in ToSet(msg.fields) /\ ~Marked(msg, f)
    BY <1>5 DEF IndexedFields
  <2>2. PICK j \in DOMAIN msg.fields : f = msg.fields[j]
    BY <2>1 DEF ToSet
  <2> QED
    BY <2>1, <2>2, <1>1, <1>3
<1>6. /\ d \in Durations \cup {NoTTL}
      /\ d = NoTTL \/ d > 0 \/ d \in Overflowed
  BY <1>2, TTLSound
<1>7. /\ t.message = msg.name /\ t.id = Hash[msg.name] /\ t.ttl = d
      /\ t.pk = msg.fields[i].name
      /\ t.fields = {f.name : f \in ToSet(msg.fields)}
      /\ t.indexed = {f.name : f \in IndexedFields(msg)}
  BY <1>2
<1>8. t.indexed \subseteq t.fields \ {t.pk}
  BY <1>5, <1>7
<1> QED
  BY <1>1, <1>4, <1>6, <1>7, <1>8 DEF SoundTable

\* What is compiled is a list of sound tables, no two of one id.
LEMMA BuildSound ==
  ASSUME NEW file \in Files, NEW l \in BuildIR(file)
  PROVE  SoundList(l)
<1> DEFINE msgs == TaggedOf(file)
           built ==
             [i \in DOMAIN msgs |-> BuildTable(msgs[i], TableId(msgs, i))]
<1>1. /\ Apart(msgs) /\ {} \notin Range(built)
      /\ l = [i \in DOMAIN msgs |-> CHOOSE t \in built[i] : TRUE]
  BY DEF BuildIR
<1>2. /\ \E c \in Nat : DOMAIN msgs = 1 .. c
      /\ \A k \in DOMAIN msgs : msgs[k] \in ToSet(file)
  BY AdminAssumption, TaggedOfFile
<1> HIDE DEF msgs
<1>3. ASSUME NEW k \in DOMAIN msgs
      PROVE  SoundTable(l[k]) /\ l[k].id = Hash[msgs[k].name]
  <2>1. built[k] # {}
    BY <1>1 DEF Range
  <2>2. l[k] = CHOOSE t \in built[k] : TRUE
    BY <1>1
  <2>3. l[k] \in built[k]
    <3> HIDE DEF built
    <3> QED
      BY <2>1, <2>2
  <2>4. l[k] \in BuildTable(msgs[k], Hash[msgs[k].name])
    BY <2>3 DEF TableId
  <2>5. msgs[k] \in ToSet(file)
    BY <1>2
  <2>6. l[k].id = Hash[msgs[k].name]
    BY <2>4 DEF BuildTable
  <2> QED
    BY <2>4, <2>5, <2>6, TableSound
<1>4. DOMAIN l = DOMAIN msgs
  BY <1>1
<1>5. ASSUME NEW t \in ToSet(l)
      PROVE  SoundTable(t)
  BY <1>3, <1>4 DEF ToSet
<1>6. ASSUME NEW i \in DOMAIN l, NEW j \in DOMAIN l, l[i].id = l[j].id
      PROVE  i = j
  <2>1. Hash[msgs[i].name] = Hash[msgs[j].name]
    BY <1>3, <1>4, <1>6
  <2> QED
    BY <2>1, <1>1, <1>4 DEF Apart, IsInjective, TableId
<1>7. l \in Seq(ToSet(l))
  <2>1. PICK c \in Nat : DOMAIN l = 1 .. c
    BY <1>2, <1>4
  <2>2. l = [k \in 1 .. c |-> l[k]]
    BY <1>1, <1>4, <2>1
  <2>3. \A k \in 1 .. c : l[k] \in ToSet(l)
    BY <2>1 DEF ToSet
  <2>4. l \in [1 .. c -> ToSet(l)]
    BY <2>2, <2>3
  <2> QED
    BY <2>4, SeqDef
<1> QED
  BY <1>5, <1>6, <1>7 DEF SoundList

-----------------------------------------------------------------------------
(* The schema table and its readers                                         *)

\* The map holds the tables of the list, each under its own id.
LEMMA ByIdAgrees ==
  ASSUME NEW l, SoundList(l)
  PROVE  /\ \A i \in DOMAIN l : ById(l)[l[i].id] = l[i]
         /\ \A id \in Ids : ById(l)[id] # NoTable => ById(l)[id] \in ToSet(l)
<1> DEFINE of(id) == {t \in ToSet(l) : t.id = id}
<1>1. ById(l) = [id \in Ids |-> IF of(id) = {} THEN NoTable
                                ELSE CHOOSE t \in of(id) : TRUE]
  BY Zenon DEF ById
<1>2. ASSUME NEW id \in Ids, of(id) # {}
      PROVE  ById(l)[id] \in of(id)
  <2> DEFINE S == of(id)
  <2>1. ById(l)[id] = CHOOSE t \in S : TRUE
    BY <1>1, <1>2
  <2>2. S # {}
    BY <1>2
  <2> HIDE DEF S
  <2>3. ById(l)[id] \in S
    BY <2>1, <2>2
  <2> QED
    BY <2>3 DEF S
<1>3. ASSUME NEW i \in DOMAIN l
      PROVE  ById(l)[l[i].id] = l[i]
  <2>1. l[i] \in ToSet(l)
    BY DEF ToSet
  <2>2. l[i].id \in Ids
    BY <2>1 DEF SoundList, SoundTable, Ids
  <2>3. ById(l)[l[i].id] \in of(l[i].id)
    BY <2>1, <2>2, <1>2
  <2>4. PICK j \in DOMAIN l : ById(l)[l[i].id] = l[j]
    BY <2>3 DEF ToSet
  <2>5. l[j].id = l[i].id
    BY <2>3, <2>4
  <2> QED
    BY <2>4, <2>5 DEF SoundList
<1>4. ASSUME NEW id \in Ids, ById(l)[id] # NoTable
      PROVE  ById(l)[id] \in ToSet(l)
  <2>1. of(id) # {}
    BY <1>1, <1>4
  <2> QED
    BY <2>1, <1>2
<1> QED
  BY <1>3, <1>4

\* Nothing imported, nothing listed.
LEMMA NothingBuilt ==
  SoundList(<<>>) /\ ById(<<>>) = [id \in Ids |-> NoTable]
<1>1. ToSet(<<>>) = {}
  BY ToSetEmpty
<1>2. DOMAIN <<>> = {} /\ <<>> \in Seq({})
  OBVIOUS
<1> QED
  BY <1>1, <1>2 DEF SoundList, ById

\* The listing goes to the next key or ends.
LEMMA OnwardOK ==
  ASSUME NEW i \in 0 .. Len(Stored), NEW alone
  PROVE  \/ Onward(i, alone) = Waiting
         \/ /\ Onward(i, alone).at = "key"
            /\ Onward(i, alone).i \in 1 .. Len(Stored)
<1>1. Len(Stored) \in Nat
  BY AdminAssumption, LenProperties
<1> QED
  BY <1>1 DEF Onward

\* The server starts without a schema.
LEMMA AdminInvInit == AdminInit => AdminInv
<1> SUFFICES ASSUME AdminInit
             PROVE  AdminInv
  OBVIOUS
<1>1. SoundList(list) /\ tables = ById(list)
  BY NothingBuilt DEF AdminInit
<1>2. /\ source = NoTable /\ list = <<>> /\ uploads = 0 /\ moved = {}
      /\ handler = [h \in Handlers |-> Waiting]
  BY DEF AdminInit
<1>3. DOMAIN handler = Handlers /\ \A h \in Handlers : handler[h].at = "idle"
  BY <1>2 DEF Waiting
<1>4. uploads \in 0 .. MaxUploads
  BY <1>2, AdminAssumption
<1> QED
  BY <1>1, <1>2, <1>3, <1>4 DEF AdminInv, HandlerOK

(* The schema as its readers see it.                                        *)
SchemaOK ==
  /\ source \in Sources \cup {NoTable}
  /\ source = NoTable => list = <<>>
  /\ SoundList(list)
  /\ tables = ById(list)

\* A step of one request leaves the others where they were.
LEMMA OneHandler ==
  ASSUME AdminInv, NEW h \in Handlers, NEW r,
         handler' = [handler EXCEPT ![h] = r], UNCHANGED store, UNCHANGED uploads,
         moved' \in {moved, moved \ {h}},
         HandlerOK(h)'
  PROVE  AdminInv'
<1>1. DOMAIN handler' = Handlers
  BY DEF AdminInv
<1>2. ASSUME NEW g \in Handlers
      PROVE  HandlerOK(g)'
  <2>1. CASE g = h
    BY <2>1
  <2>2. CASE g # h
    <3>1. handler'[g] = handler[g] /\ tables' = tables
          /\ (g \in moved' <=> g \in moved)
      BY <2>2 DEF AdminInv, store
    <3> QED
      BY <3>1 DEF AdminInv, HandlerOK
  <2> QED
    BY <2>1, <2>2
<1> QED
  BY <1>1, <1>2 DEF AdminInv, store, SoundList, ById

\* A step that changes the schema overtakes those between their lookups.
LEMMA SchemaMoves ==
  ASSUME AdminInv, moved' = moved \cup Between, UNCHANGED uploads,
         SchemaOK',
         DOMAIN handler' = Handlers,
         \A g \in Handlers : handler'[g] = handler[g] \/ handler'[g] = Waiting
  PROVE  AdminInv'
<1>1. ASSUME NEW g \in Handlers
      PROVE  HandlerOK(g)'
  <2>1. CASE handler'[g] = Waiting
    BY <2>1 DEF HandlerOK, Waiting
  <2>2. CASE handler'[g] = handler[g]
    <3>1. g \notin moved' => g \notin moved /\ handler[g].at # "row"
      BY DEF Between
    <3> QED
      BY <2>2, <3>1 DEF AdminInv, HandlerOK
  <2> QED
    BY <2>1, <2>2
<1>2. moved' \subseteq Handlers
  BY DEF Between, AdminInv
<1> QED
  BY <1>1, <1>2 DEF AdminInv, SchemaOK

\* A file that was parsed waits for the lock.
LEMMA UploadKeeps ==
  ASSUME AdminInv, NEW h \in Handlers, Upload(h)
  PROVE  AdminInv'
<1>1. PICK name \in Sources, built \in Builds :
        handler' = [handler EXCEPT ![h] =
          [at |-> "import", source |-> name, built |-> built]]
  BY DEF Upload
<1>2. DOMAIN handler' = Handlers
  BY <1>1 DEF AdminInv
<1>3. ASSUME NEW g \in Handlers
      PROVE  HandlerOK(g)'
  <2>0. tables' = tables /\ moved' = moved
    BY DEF Upload, store
  <2>1. CASE g = h
    <3>1. handler'[g] = [at |-> "import", source |-> name, built |-> built]
      BY <1>1, <2>1 DEF AdminInv
    <3> QED
      BY <3>1 DEF HandlerOK
  <2>2. CASE g # h
    <3>1. handler'[g] = handler[g]
      BY <1>1, <2>2 DEF AdminInv
    <3> QED
      BY <2>0, <3>1 DEF AdminInv, HandlerOK
  <2> QED
    BY <2>1, <2>2
<1>4. uploads' \in 0 .. MaxUploads
  BY AdminAssumption DEF AdminInv, Upload
<1> QED
  BY <1>2, <1>3, <1>4 DEF AdminInv, Upload, store, SoundList, ById

\* An import replaces list and map together.
LEMMA SwapKeeps ==
  ASSUME AdminInv, NEW h \in Handlers, Swap(h)
  PROVE  AdminInv'
<1>1. /\ handler[h].source \in Sources /\ handler[h].built \in Builds
      /\ DOMAIN handler = Handlers
  BY DEF AdminInv, HandlerOK, Swap
<1>2. PICK new \in handler[h].built : list' = new /\ tables' = ById(new)
  BY DEF Swap
<1>3. PICK file \in Files : handler[h].built = BuildIR(file)
  BY <1>1 DEF Builds
<1>4. SoundList(new)
  BY <1>2, <1>3, BuildSound
<1>5. source' \in Sources /\ source' # NoTable
  BY <1>1, AdminAssumption DEF Swap
<1>6. tables' = ById(list') /\ SoundList(list')
  BY <1>2, <1>4
<1>7. SchemaOK'
  BY <1>5, <1>6 DEF SchemaOK, SoundList, ById
<1>8. /\ DOMAIN handler' = Handlers
      /\ \A g \in Handlers : handler'[g] = handler[g] \/ handler'[g] = Waiting
  BY <1>1 DEF Swap
<1> QED
  BY <1>7, <1>8, SchemaMoves DEF Swap

\* A DELETE empties both.
LEMMA ClearKeeps ==
  ASSUME AdminInv, Clear
  PROVE  AdminInv'
<1>1. SchemaOK'
  <2>1. tables' = ById(list') /\ SoundList(list')
    BY NothingBuilt DEF Clear
  <2> QED
    BY <2>1 DEF Clear, SchemaOK, SoundList, ById
<1>2. handler' = handler /\ DOMAIN handler = Handlers
  BY DEF Clear, AdminInv
<1> QED
  BY <1>1, <1>2, SchemaMoves DEF Clear

\* Where a listing stands after a step of its own.
LEMMA ListingKeeps ==
  ASSUME AdminInv, NEW h \in Handlers,
         \/ Refuse(h) \/ List(h) \/ ShowOne(h)
         \/ LookUpKey(h) \/ LookUpRow(h) \/ AppendEntry(h)
  PROVE  AdminInv'
<1>1. DOMAIN handler = Handlers /\ HandlerOK(h)
  BY DEF AdminInv
<1>2. Len(Stored) \in Nat /\ DOMAIN Stored = 1 .. Len(Stored)
  BY AdminAssumption, LenProperties
<1>3. ASSUME NEW i \in 0 .. Len(Stored), NEW alone, handler'[h] = Onward(i, alone)
      PROVE  HandlerOK(h)'
  BY <1>3, OnwardOK DEF HandlerOK, Waiting
<1>4. CASE Refuse(h)
  <2>1. handler' = [handler EXCEPT ![h] = Waiting] /\ handler'[h] = Waiting
    BY <1>1, <1>4 DEF Refuse
  <2>2. HandlerOK(h)'
    BY <2>1 DEF HandlerOK, Waiting
  <2> QED
    BY <2>1, <2>2, <1>4, OneHandler DEF Refuse
<1>5. CASE List(h)
  <2>1. /\ handler' = [handler EXCEPT ![h] = Onward(0, FALSE)]
        /\ handler'[h] = Onward(0, FALSE)
    BY <1>1, <1>5 DEF List
  <2>2. \/ handler'[h] = Waiting
        \/ handler'[h].at = "key" /\ handler'[h].i = 1 /\ 1 \in 1 .. Len(Stored)
    BY <2>1, <1>2 DEF Onward
  <2>3. HandlerOK(h)'
    BY <2>2 DEF HandlerOK, Waiting
  <2> QED
    BY <2>1, <2>3, <1>5, OneHandler DEF List
<1>9. CASE ShowOne(h)
  <2>1. PICK i \in DOMAIN Stored : handler' =
          [handler EXCEPT ![h] = [at |-> "key", i |-> i, alone |-> TRUE]]
    BY <1>9 DEF ShowOne
  <2>2. handler'[h] = [at |-> "key", i |-> i, alone |-> TRUE]
    BY <1>1, <2>1
  <2>3. /\ handler'[h].at = "key" /\ handler'[h].i = i
        /\ i \in 1 .. Len(Stored)
    BY <1>2, <2>2
  <2>4. HandlerOK(h)'
    BY <2>3 DEF HandlerOK
  <2> QED
    BY <2>1, <2>4, <1>9, OneHandler DEF ShowOne
<1>6. CASE LookUpKey(h)
  <2> DEFINE i == handler[h].i
             alone == handler[h].alone
             t == Table(Stored[i].kind, Stored[i].id)
             r == IF Decodes(Stored[i], t, alone)
                  THEN [at |-> "row", i |-> i, alone |-> alone, by |-> t]
                  ELSE Onward(i, alone)
  <2>1. i \in 1 .. Len(Stored)
    BY <1>1, <1>6 DEF HandlerOK, LookUpKey
  <2>2. handler' = [handler EXCEPT ![h] = r] /\ handler'[h] = r
    BY <1>1, <1>6 DEF LookUpKey
  <2>3. UNCHANGED store /\ UNCHANGED uploads /\ tables' = tables
        /\ moved' = moved \ {h}
    BY <1>6 DEF LookUpKey, store
  <2>4. HandlerOK(h)'
    <3>1. CASE Decodes(Stored[i], t, alone)
      <4>1. t = tables[Stored[i].id]
        BY <3>1 DEF Table, Decodes
      <4>2. handler'[h] = [at |-> "row", i |-> i, alone |-> alone, by |-> t]
        BY <2>2, <3>1
      <4> HIDE DEF t, i, alone
      <4>3. /\ handler'[h].at = "row" /\ handler'[h].i = i
            /\ handler'[h].by = tables'[Stored[i].id]
        BY <4>1, <4>2, <2>3
      <4> QED
        BY <4>3, <2>1 DEF HandlerOK
    <3>2. CASE ~Decodes(Stored[i], t, alone)
      <4>1. handler'[h] = Onward(i, alone)
        BY <2>2, <3>2
      <4> QED
        BY <4>1, <2>1, <1>2, <1>3
    <3> QED
      BY <3>1, <3>2
  <2> HIDE DEF r
  <2> QED
    BY <2>2, <2>3, <2>4, OneHandler
<1>7. CASE LookUpRow(h)
  <2> DEFINE o == handler[h]
             r == [at |-> "entry", i |-> o.i, alone |-> o.alone, by |-> o.by,
                   row |-> TableOf(Stored[o.i])]
  <2>1. /\ handler' = [handler EXCEPT ![h] = r] /\ handler'[h] = r
        /\ o.at = "row"
    BY <1>1, <1>7 DEF LookUpRow
  <2>2. /\ UNCHANGED store /\ UNCHANGED uploads
        /\ tables' = tables /\ moved' = moved
    BY <1>7 DEF LookUpRow, store
  <2>3. HandlerOK(h)'
    <3>1. o.i \in 1 .. Len(Stored)
          /\ (h \notin moved => o.by = tables[Stored[o.i].id])
      BY <1>1, <2>1 DEF HandlerOK
    <3>2. /\ handler'[h].at = "entry" /\ handler'[h].i = o.i
          /\ handler'[h].by = o.by /\ handler'[h].row = tables[Stored[o.i].id]
      BY <2>1 DEF TableOf
    <3> HIDE DEF o
    <3> QED
      BY <3>1, <3>2, <2>2 DEF HandlerOK
  <2> HIDE DEF r
  <2> QED
    BY <2>1, <2>2, <2>3, OneHandler
<1>8. CASE AppendEntry(h)
  <2> DEFINE i == handler[h].i
             alone == handler[h].alone
  <2>1. i \in 1 .. Len(Stored)
    BY <1>1, <1>8 DEF HandlerOK, AppendEntry
  <2>2. /\ handler' = [handler EXCEPT ![h] = Onward(i, alone)]
        /\ handler'[h] = Onward(i, alone)
    BY <1>1, <1>8 DEF AppendEntry
  <2>3. HandlerOK(h)'
    BY <2>1, <2>2, <1>2, <1>3
  <2>4. UNCHANGED store /\ UNCHANGED uploads /\ moved' = moved \ {h}
    BY <1>8 DEF AppendEntry
  <2> HIDE DEF i, alone
  <2> QED
    BY <2>2, <2>3, <2>4, OneHandler
<1> QED
  BY <1>4, <1>5, <1>6, <1>7, <1>8, <1>9

\* The schema table is that of one file and of sound tables, and every
\* request is where its own steps put it.
THEOREM AdminInvariant == AdminSpec => []AdminInv
<1>1. AdminInit => AdminInv
  BY AdminInvInit
<1>2. AdminInv /\ [AdminNext]_adminVars => AdminInv'
  <2> SUFFICES ASSUME AdminInv, [AdminNext]_adminVars
               PROVE  AdminInv'
    OBVIOUS
  <2>1. CASE UNCHANGED adminVars
    BY <2>1 DEF AdminInv, HandlerOK, adminVars, store, SoundList, ById
  <2>2. CASE Clear
    BY <2>2, ClearKeeps
  <2>3. CASE \E h \in Handlers :
               \/ Upload(h) \/ Refuse(h) \/ Swap(h)
               \/ List(h) \/ ShowOne(h)
               \/ LookUpKey(h) \/ LookUpRow(h) \/ AppendEntry(h)
    BY <2>3, UploadKeeps, SwapKeeps, ListingKeeps
  <2> QED
    BY <2>1, <2>2, <2>3 DEF AdminNext
<1> QED
  BY <1>1, <1>2, PTL DEF AdminSpec

\* ir.go:82-198, parseTTL: whatever file is imported, each table has its
\* primary key among its fields and no index on it, and a time to live after
\* now, unless its days overflow.
THEOREM TablesAreSoundAlways == AdminSpec => []TablesAreSound
<1>1. AdminInv => TablesAreSound
  <2> SUFFICES ASSUME AdminInv
               PROVE  TablesAreSound
    OBVIOUS
  <2>1. AdminTypeOK
    BY DEF AdminInv, SoundList, SoundTable, HandlerOK, AdminTypeOK
  <2> QED
    BY <2>1 DEF AdminInv, SoundList, SoundTable, TablesAreSound
<1> QED
  BY <1>1, AdminInvariant, PTL

\* schemaStore.importProto, clear: the map by which keys are decoded and the
\* list that is shown are of one import, and no table hides another.
THEOREM MapAndListAgreeAlways == AdminSpec => []MapAndListAgree
<1>1. AdminInv => MapAndListAgree
  BY ByIdAgrees DEF AdminInv, MapAndListAgree
<1> QED
  BY <1>1, AdminInvariant, PTL

\* buildEntry, handleKey: what a key stores is decoded by the table that the
\* key was, unless an import or a DELETE came between the two lookups.
THEOREM EntriesOfOneSchema == AdminSpec => []EntryOfOneSchema
<1>1. AdminInv => EntryOfOneSchema
  BY DEF AdminInv, HandlerOK, EntryOfOneSchema
<1> QED
  BY <1>1, AdminInvariant, PTL
=============================================================================
