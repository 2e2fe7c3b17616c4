-------------------------- MODULE ValueLayoutProofs --------------------------
(***************************************************************************)
(* What TLAPS proves of the rows for bytes and numbers of any width, any    *)
(* values and texts, any schemas and any number of schema changes.          *)
(***************************************************************************)
EXTENDS ValueLayout, DataLemmas

-----------------------------------------------------------------------------
(* Numbers                                                                  *)

\* The constants the layout is built on.
LEMMA WidthsAre ==
  /\ Radix \in Nat /\ Radix > 1
  /\ IntBytes \in Nat /\ IntBytes > 0 /\ LenBytes \in Nat /\ LenBytes > 0
  /\ MaxFields \in Nat
  /\ \A w \in Nat : Power(Radix, w) \in Nat /\ Power(Radix, w) > 0
  /\ Power(Radix, IntBytes) > 1
<1>1. /\ Radix \in Nat /\ Radix > 1
      /\ IntBytes \in Nat /\ IntBytes > 0 /\ LenBytes \in Nat /\ LenBytes > 0
      /\ MaxFields \in Nat
  BY LayoutAssumption
<1>2. \A w \in Nat : Power(Radix, w) \in Nat /\ Power(Radix, w) > 0
  BY <1>1, PowerIs, PowerPositive
<1>3. IntBytes < Power(Radix, IntBytes)
  BY <1>1, PowerGrows
<1> QED
  BY <1>1, <1>2, <1>3

\* The bytes of a number.
LEMMA LittleEndianIs ==
  ASSUME NEW x \in Int, NEW w \in Nat
  PROVE  /\ LittleEndian(x, w) \in Seq(Byte)
         /\ Len(LittleEndian(x, w)) = w
         /\ Unsigned(LittleEndian(x, w)) = x % Power(Radix, w)
<1> DEFINE p == Power(Radix, w)
           n == x % p
           d == ToDigits(n, Radix, w)
<1>1. Radix \in Nat /\ Radix > 0 /\ p \in Nat /\ p > 0
  BY WidthsAre
<1>2. n \in Nat /\ n < p
  <2> HIDE DEF p
  <2> QED
    BY <1>1, SMT
<1>3. LittleEndian(x, w) = d
  BY DEF LittleEndian
<1> HIDE DEF n
<1>4. /\ d \in Seq(Byte) /\ Len(d) = w
      /\ \A i \in 1 .. w : d[i] = (n \div Power(Radix, i - 1)) % Radix
  BY <1>1, <1>2, ToDigitsIs DEF Byte
<1> HIDE DEF d
<1>5. FromDigits(d, Radix) = n % Power(Radix, w)
  BY <1>1, <1>2, <1>4, FromDigitsIs
<1> HIDE DEF p
<1>6. n % p = n
  BY <1>1, <1>2, Division
<1> QED
  BY <1>3, <1>4, <1>5, <1>6 DEF Unsigned, n, p

\* A length is read back.
LEMMA LengthIs ==
  ASSUME NEW t, Len(t) \in Nat, Len(t) < Power(Radix, LenBytes)
  PROVE  /\ Length(t) \in Seq(Byte) /\ Len(Length(t)) = LenBytes
         /\ Unsigned(Length(t)) = Len(t)
<1> DEFINE p == Power(Radix, LenBytes)
           n == Len(t)
<1>1. LenBytes \in Nat /\ p \in Nat /\ p > 0 /\ n \in Nat /\ n < p
  BY WidthsAre
<1>2. /\ LittleEndian(n, LenBytes) \in Seq(Byte)
      /\ Len(LittleEndian(n, LenBytes)) = LenBytes
      /\ Unsigned(LittleEndian(n, LenBytes)) = n % p
  BY <1>1, LittleEndianIs
<1>3. n % p = n
  <2> HIDE DEF n, p
  <2> QED
    BY <1>1, Division
<1> QED
  BY <1>2, <1>3 DEF Length

\* The numbers a field or the header may hold.
IntRange == -(Power(Radix, IntBytes) \div 2) .. Power(Radix, IntBytes) \div 2 - 1

\* A signed number is read back from its bytes.
LEMMA SignedIs ==
  ASSUME NEW x \in IntRange
  PROVE  /\ LittleEndian(x, IntBytes) \in Seq(Byte)
         /\ Len(LittleEndian(x, IntBytes)) = IntBytes
         /\ Signed(Unsigned(LittleEndian(x, IntBytes))) = x
<1> DEFINE p == Power(Radix, IntBytes)
           h == p \div 2
           n == x % p
<1>1. IntBytes \in Nat /\ p \in Nat /\ p > 1
  BY WidthsAre
<1> HIDE DEF p
<1>2. h \in Nat /\ 2 * h <= p /\ p < 2 * h + 2
  BY <1>1, SMT
<1>3. x \in -h .. h - 1
  BY DEF IntRange, p
<1> HIDE DEF h
<1>4. x \in Int /\ -h <= x /\ x <= h - 1
  BY <1>2, <1>3
<1>5. n = IF x < 0 THEN x + p ELSE x
  BY <1>1, <1>2, <1>4, SMT
<1>6. /\ LittleEndian(x, IntBytes) \in Seq(Byte)
      /\ Len(LittleEndian(x, IntBytes)) = IntBytes
      /\ Unsigned(LittleEndian(x, IntBytes)) = n
  BY <1>1, <1>4, LittleEndianIs DEF p
<1> HIDE DEF n
<1>7. (IF 2 * n >= p THEN n - p ELSE n) = x
  BY <1>1, <1>2, <1>4, <1>5
<1>8. Signed(n) = x
  BY <1>7 DEF Signed, p
<1> QED
  BY <1>6, <1>8

\* The numbers of the fields, and no expiry, are in that range.
LEMMA RangesAre ==
  Ints \subseteq IntRange /\ Expiries \cup {0} \subseteq IntRange
<1> DEFINE p == Power(Radix, IntBytes)
<1>1. p \in Nat /\ p > 1
  BY WidthsAre
<1>2. 0 \in -(p \div 2) .. p \div 2 - 1
  <2> HIDE DEF p
  <2> QED
    BY <1>1, SMT
<1>3. 0 \in IntRange
  BY <1>2 DEF IntRange
<1>4. Ints \cup Expiries \subseteq IntRange
  BY LayoutAssumption DEF IntRange
<1> QED
  BY <1>3, <1>4

\* Bytes that are all zero make the number zero.
LEMMA ZeroBytes ==
  ASSUME NEW b, Len(b) \in Nat, \A i \in 1 .. Len(b) : b[i] = 0
  PROVE  Unsigned(b) = 0 /\ Signed(Unsigned(b)) = 0
<1> DEFINE w == Len(b)
           p == Power(Radix, w)
           q == Power(Radix, IntBytes)
<1>1. Radix \in Nat /\ Radix > 0 /\ p \in Nat /\ p > 0 /\ q \in Nat /\ q > 0
  BY WidthsAre
<1>2. ASSUME NEW i \in 1 .. w
      PROVE  (0 \div Power(Radix, i - 1)) % Radix = 0
  <2> DEFINE y == Power(Radix, i - 1)
  <2>1. y \in Nat /\ y > 0
    <3>1. i - 1 \in Nat
      OBVIOUS
    <3> QED
      BY <3>1, WidthsAre
  <2> HIDE DEF y
  <2>2. 0 \div y = 0
    BY <2>1, Division
  <2>3. 0 % Radix = 0
    BY <1>1, Division
  <2> QED
    BY <2>2, <2>3 DEF y
<1>3. \A i \in 1 .. w : b[i] = (0 \div Power(Radix, i - 1)) % Radix
  BY <1>2
<1>4. w \in Nat /\ 0 \in Nat
  OBVIOUS
<1> HIDE DEF w
<1>5. FromDigits(b, Radix) = 0 % Power(Radix, w)
  <2>1. Len(b) = w
    BY DEF w
  <2> QED
    BY <1>1, <1>3, <1>4, <2>1, FromDigitsIs
<1>6. 0 % p = 0
  <2> HIDE DEF p
  <2> QED
    BY <1>1, Division
<1>7. Unsigned(b) = 0
  BY <1>5, <1>6 DEF Unsigned
<1>8. ~(2 * 0 >= q)
  BY <1>1
<1>9. Signed(0) = 0
  BY <1>8 DEF Signed
<1> QED
  BY <1>7, <1>9

-----------------------------------------------------------------------------
(* Bytes at their place                                                     *)

(* The bytes t stand in data behind the first off ones.                     *)
Holds(data, off, t) ==
  /\ off + Len(t) <= Len(data)
  /\ \A j \in 1 .. Len(t) : data[off + j] = t[j]

\* They are what is read there.
LEMMA ChunkIs ==
  ASSUME NEW data \in Seq(Byte), NEW off \in Nat, NEW t \in Seq(Byte),
         Holds(data, off, t)
  PROVE  /\ SubSeq(data, off + 1, off + Len(t)) = t
         /\ Chunk(data, off, Len(t)) = {t}
<1> DEFINE m == off + 1
           n == off + Len(t)
           p == SubSeq(data, m, n)
<1>1. Len(t) \in Nat /\ Len(data) \in Nat /\ n <= Len(data)
  BY LenProperties DEF Holds
<1>2. m \in Int /\ n \in Int /\ \A i \in m .. n : data[i] \in Byte
  <2>1. \A i \in m .. n : i \in 1 .. Len(data)
    BY <1>1
  <2> QED
    BY <1>1, <2>1, ElementOfSeq
<1>3. /\ p \in Seq(Byte)
      /\ Len(p) = IF m <= n THEN n - m + 1 ELSE 0
      /\ \A i \in 1 .. n - m + 1 : p[i] = data[m + i - 1]
  <2> HIDE DEF m, n
  <2> QED
    BY <1>2, SubSeqProperties
<1> HIDE DEF p
<1>4. Len(p) = Len(t)
  BY <1>1, <1>3
<1>5. ASSUME NEW i \in 1 .. Len(t)
      PROVE  p[i] = t[i]
  <2>1. i \in 1 .. n - m + 1 /\ m + i - 1 = off + i
    BY <1>1
  <2> QED
    BY <2>1, <1>3 DEF Holds
<1>6. p = t
  BY <1>3, <1>4, <1>5, SeqEqual
<1>7. Chunk(data, off, Len(t)) = {SubSeq(data, m, n)}
  <2>1. ~(off + Len(t) > Len(data))
    BY <1>1
  <2> QED
    BY <2>1 DEF Chunk
<1> QED
  BY <1>6, <1>7 DEF p

\* Of a concatenation both parts stand there.
LEMMA HoldsParts ==
  ASSUME NEW data \in Seq(Byte), NEW off \in Nat,
         NEW s \in Seq(Byte), NEW t \in Seq(Byte), Holds(data, off, s \o t)
  PROVE  Holds(data, off, s) /\ Holds(data, off + Len(s), t)
<1>1. /\ Len(s) \in Nat /\ Len(t) \in Nat /\ Len(s \o t) = Len(s) + Len(t)
      /\ \A i \in 1 .. Len(s) : (s \o t)[i] = s[i]
      /\ \A i \in 1 .. Len(t) : (s \o t)[Len(s) + i] = t[i]
  BY ConcatIs
<1>2. Len(data) \in Nat
  BY LenProperties
<1> DEFINE u == s \o t
<1>3. /\ off + Len(u) <= Len(data) /\ Len(u) = Len(s) + Len(t)
      /\ \A j \in 1 .. Len(u) : data[off + j] = u[j]
      /\ \A i \in 1 .. Len(s) : u[i] = s[i]
      /\ \A i \in 1 .. Len(t) : u[Len(s) + i] = t[i]
  BY <1>1 DEF Holds
<1> HIDE DEF u
<1>4. Holds(data, off, s)
  BY <1>1, <1>2, <1>3 DEF Holds
<1>5. off + Len(s) + Len(t) <= Len(data)
  BY <1>1, <1>2, <1>3
<1>6. ASSUME NEW j \in 1 .. Len(t)
      PROVE  data[(off + Len(s)) + j] = t[j]
  <2>1. Len(s) + j \in 1 .. Len(u) /\ off + (Len(s) + j) = (off + Len(s)) + j
    BY <1>1, <1>3
  <2> QED
    BY <2>1, <1>3
<1> QED
  BY <1>4, <1>5, <1>6 DEF Holds

\* What stands in a part of the bytes stands in all of them.
LEMMA HoldsInside ==
  ASSUME NEW data, NEW t, NEW u, NEW a \in Nat, NEW b \in Nat,
         Len(data) \in Nat, Len(t) \in Nat, Len(u) \in Nat,
         Holds(data, a, t), Holds(t, b, u)
  PROVE  Holds(data, a + b, u)
<1>1. a + b + Len(u) <= Len(data)
  BY DEF Holds
<1>2. ASSUME NEW j \in 1 .. Len(u)
      PROVE  data[(a + b) + j] = u[j]
  <2>1. b + j \in 1 .. Len(t) /\ a + (b + j) = (a + b) + j
    BY DEF Holds
  <2>2. data[a + (b + j)] = t[b + j] /\ t[b + j] = u[j]
    BY <2>1 DEF Holds
  <2> QED
    BY <2>1, <2>2
<1> QED
  BY <1>1, <1>2 DEF Holds

\* Parts that are put together one after the other stand behind each other.
LEMMA FlattenIs ==
  ASSUME NEW e, NEW n \in Nat, n > 0, Len(e) = n,
         \A i \in 1 .. n : e[i] \in Seq(Byte)
  PROVE  \E F \in [0 .. n -> Seq(Byte)] :
           /\ FlattenSeq(e) = F[n] /\ F[0] = <<>>
           /\ \A i \in 1 .. n : F[i] = F[i - 1] \o e[i]
<1> DEFINE Body(v) == [i \in 1 .. Len(e) |->
                        IF i = 1 THEN e[i] ELSE v[i - 1] \o e[i]]
           R(v) == v = Body(v)
           V    == CHOOSE v : R(v)
           Part(g, k) == /\ g \in [1 .. k -> Seq(Byte)]
                         /\ \A i \in 1 .. k :
                              g[i] = IF i = 1 THEN e[i] ELSE g[i - 1] \o e[i]
           S == {k \in Nat : k > n \/ \E g : Part(g, k)}
<1>1. FlattenSeq(e) = V[Len(e)]
  <2>1. Len(e) # 0
    OBVIOUS
  <2> QED
    BY <2>1, Zenon DEF FlattenSeq
<1>2. 0 \in S
  <2>1. Part([i \in 1 .. 0 |-> <<>>], 0)
    OBVIOUS
  <2> QED
    BY <2>1
<1>3. ASSUME NEW k \in Nat, k \in S
      PROVE  k + 1 \in S
  <2>1. CASE k + 1 > n
    BY <2>1
  <2>2. CASE k + 1 <= n
    <3>1. PICK g : Part(g, k)
      BY <1>3, <2>2
    <3> DEFINE x == IF k + 1 = 1 THEN e[k + 1] ELSE g[k] \o e[k + 1]
               h == [i \in 1 .. k + 1 |-> IF i = k + 1 THEN x ELSE g[i]]
    <3>2. k + 1 \in 1 .. n /\ e[k + 1] \in Seq(Byte)
      BY <2>2
    <3>3. x \in Seq(Byte)
      <4>1. CASE k = 0
        BY <4>1, <3>2
      <4>2. CASE k # 0
        <5>1. g[k] \in Seq(Byte)
          BY <3>1, <4>2
        <5>2. g[k] \o e[k + 1] \in Seq(Byte)
          BY <5>1, <3>2, ConcatProperties
        <5>3. k + 1 # 1
          BY <4>2
        <5> QED
          BY <5>2, <5>3
      <4> QED
        BY <4>1, <4>2
    <3>4. x = IF k + 1 = 1 THEN e[k + 1] ELSE g[k] \o e[k + 1]
      OBVIOUS
    <3> HIDE DEF x
    <3>5. h \in [1 .. k + 1 -> Seq(Byte)]
      BY <3>1, <3>3
    <3>6. ASSUME NEW i \in 1 .. k + 1
          PROVE  h[i] = IF i = 1 THEN e[i] ELSE h[i - 1] \o e[i]
      <4>1. CASE i = k + 1
        <5>1. h[i] = x /\ (i # 1 => h[i - 1] = g[k])
          BY <4>1
        <5> QED
          BY <4>1, <5>1, <3>4
      <4>2. CASE i # k + 1
        <5>1. i \in 1 .. k /\ h[i] = g[i] /\ (i # 1 => h[i - 1] = g[i - 1])
          BY <4>2
        <5> QED
          BY <5>1, <3>1
      <4> QED
        BY <4>1, <4>2
    <3>7. Part(h, k + 1)
      BY <3>5, <3>6
    <3> HIDE DEF h, Part
    <3> QED
      BY <3>7
  <2>3. k + 1 > n \/ k + 1 <= n
    OBVIOUS
  <2> HIDE DEF S
  <2> QED
    BY <2>1, <2>2, <2>3
<1>4. \E g : Part(g, n)
  <2>1. Nat \subseteq S
    <3> HIDE DEF S
    <3> QED
      BY <1>2, <1>3, SetInduction
  <2>2. n \in S
    <3> HIDE DEF S
    <3> QED
      BY <2>1
  <2>3. ~(n > n)
    OBVIOUS
  <2> HIDE DEF Part
  <2> QED
    BY <2>2, <2>3
<1>5. PICK g : Part(g, n)
  BY <1>4
<1>6. R(g)
  <2>1. g = [i \in 1 .. n |-> g[i]]
    BY <1>5
  <2>2. \A i \in 1 .. n : g[i] = IF i = 1 THEN e[i] ELSE g[i - 1] \o e[i]
    BY <1>5
  <2> QED
    BY <2>1, <2>2
<1>7. R(V)
  <2> HIDE DEF R
  <2> QED
    BY <1>6
<1> HIDE DEF V
<1>8. ASSUME NEW i \in 1 .. n
      PROVE  V[i] = IF i = 1 THEN e[i] ELSE V[i - 1] \o e[i]
  BY <1>7
<1> DEFINE T == {k \in Nat : k + 1 <= n => V[k + 1] \in Seq(Byte)}
<1>9. 0 \in T
  BY <1>8
<1>10. ASSUME NEW k \in Nat, k \in T
       PROVE  k + 1 \in T
  <2>1. ASSUME k + 1 + 1 <= n
        PROVE  V[k + 1 + 1] \in Seq(Byte)
    <3>1. k + 1 + 1 \in 1 .. n /\ k + 1 + 1 # 1 /\ (k + 1 + 1) - 1 = k + 1
          /\ k + 1 <= n
      BY <2>1
    <3>2. V[k + 1 + 1] = V[k + 1] \o e[k + 1 + 1]
      BY <3>1, <1>8
    <3>3. V[k + 1] \in Seq(Byte) /\ e[k + 1 + 1] \in Seq(Byte)
      BY <3>1, <1>10
    <3> QED
      BY <3>2, <3>3, ConcatProperties
  <2> QED
    BY <2>1
<1>11. \A i \in 1 .. n : V[i] \in Seq(Byte)
  <2>1. Nat \subseteq T
    <3> HIDE DEF T
    <3> QED
      BY <1>9, <1>10, SetInduction
  <2>2. ASSUME NEW i \in 1 .. n
        PROVE  V[i] \in Seq(Byte)
    <3>1. i - 1 \in Nat /\ i - 1 + 1 = i /\ i <= n
      OBVIOUS
    <3>2. i - 1 \in T
      <4> HIDE DEF T
      <4> QED
        BY <2>1, <3>1
    <3> QED
      BY <3>1, <3>2
  <2> QED
    BY <2>2
<1> DEFINE F == [i \in 0 .. n |-> IF i = 0 THEN <<>> ELSE V[i]]
<1>12. F \in [0 .. n -> Seq(Byte)]
  BY <1>11, EmptySeq
<1>13. FlattenSeq(e) = F[n] /\ F[0] = <<>>
  BY <1>1
<1>14. ASSUME NEW i \in 1 .. n
       PROVE  F[i] = F[i - 1] \o e[i]
  <2>1. CASE i = 1
    <3>1. F[i] = e[1] /\ F[i - 1] = <<>>
      BY <2>1, <1>8
    <3>2. <<>> \o e[1] = e[1]
      BY <2>1, ConcatEmptySeq
    <3> QED
      BY <2>1, <3>1, <3>2
  <2>2. CASE i # 1
    <3>1. F[i] = V[i] /\ F[i - 1] = V[i - 1]
      BY <2>2
    <3> QED
      BY <2>2, <3>1, <1>8
  <2> QED
    BY <2>1, <2>2
<1> HIDE DEF F
<1> QED
  BY <1>12, <1>13, <1>14

-----------------------------------------------------------------------------
(* Schemas and records                                                      *)

AnyValue == BOOLEAN \cup Ints \cup Texts

\* The fields of a schema.
LEMMA SchemaIs ==
  ASSUME NEW s \in Schemas
  PROVE  /\ s \in [fields : UNION {[1 .. n -> Fields] : n \in 1 .. MaxFields},
                   compress : BOOLEAN, ttl : BOOLEAN]
         /\ s.fields \in Seq(Fields)
         /\ Len(s.fields) \in Nat /\ Len(s.fields) > 0
         /\ DOMAIN s.fields = 1 .. Len(s.fields)
         /\ \A i \in 1 .. Len(s.fields) : s.fields[i] \in Fields
<1>1. s \in [fields : UNION {[1 .. n -> Fields] : n \in 1 .. MaxFields},
             compress : BOOLEAN, ttl : BOOLEAN]
  BY DEF Schemas
<1>2. PICK n \in 1 .. MaxFields : s.fields \in [1 .. n -> Fields]
  BY <1>1
<1>3. n \in Nat /\ n > 0
  BY WidthsAre
<1>4. s.fields \in Seq(Fields)
  BY <1>2, <1>3, SeqDef
<1>5. Len(s.fields) = n
  BY <1>2, <1>3, <1>4, LenProperties
<1> QED
  BY <1>1, <1>2, <1>3, <1>4, <1>5

\* A record has a value of the right kind for each field.
LEMMA RecordIs ==
  ASSUME NEW s \in Schemas, NEW m \in Records(s)
  PROVE  /\ m \in Seq(AnyValue) /\ Len(m) = Len(s.fields)
         /\ DOMAIN m = 1 .. Len(s.fields)
         /\ \A i \in 1 .. Len(s.fields) : m[i] \in Values(s.fields[i])
<1> DEFINE n == Len(s.fields)
           f == s.fields
           Part(g, k) == g = [i \in 0 .. k |-> IF i = 0 THEN {<<>>}
                                               ELSE Longer(g[i - 1], s.fields[i])]
           V == CHOOSE v : Part(v, Len(s.fields))
           S == {k \in Nat : \E g : Part(g, k)}
           OK(l, k) == /\ l \in Seq(AnyValue) /\ Len(l) = k
                       /\ \A i \in 1 .. k : l[i] \in Values(f[i])
           T == {k \in Nat : k <= n => \A l \in V[k] : OK(l, k)}
<1>1. n \in Nat /\ \A i \in 1 .. n : f[i] \in Fields
  BY SchemaIs
<1>2. Records(s) = V[Len(s.fields)]
  BY Zenon DEF Records
<1> HIDE DEF n, f
<1>3. 0 \in S
  <2>1. Part([i \in 0 .. 0 |-> {<<>>}], 0)
    OBVIOUS
  <2> HIDE DEF Part
  <2> QED
    BY <2>1
<1>4. ASSUME NEW k \in Nat, k \in S
      PROVE  k + 1 \in S
  <2>1. PICK g : Part(g, k)
    BY <1>4
  <2> DEFINE y == Longer(g[k], s.fields[k + 1])
             h == [i \in 0 .. k + 1 |-> IF i = k + 1 THEN y ELSE g[i]]
  <2>2. ASSUME NEW i \in 0 .. k + 1
        PROVE  h[i] = IF i = 0 THEN {<<>>} ELSE Longer(h[i - 1], s.fields[i])
    <3>1. CASE i = k + 1
      <4>1. h[i] = y /\ h[i - 1] = g[k] /\ i # 0
        BY <3>1
      <4> HIDE DEF h
      <4> QED
        BY <3>1, <4>1
    <3>2. CASE i # k + 1
      <4>1. i \in 0 .. k /\ h[i] = g[i] /\ (i # 0 => h[i - 1] = g[i - 1])
        BY <3>2
      <4> HIDE DEF h
      <4> QED
        BY <4>1, <2>1
    <3> QED
      BY <3>1, <3>2
  <2>3. Part(h, k + 1)
    <3>1. h = [i \in 0 .. k + 1 |-> h[i]]
      OBVIOUS
    <3> HIDE DEF h
    <3> QED
      BY <2>2, <3>1
  <2> HIDE DEF h, Part
  <2> QED
    BY <2>3
<1>5. \E g : Part(g, n)
  <2>1. n \in S
    <3> HIDE DEF S
    <3> QED
      BY <1>1, <1>3, <1>4, SetInduction
  <2> HIDE DEF Part
  <2> QED
    BY <2>1
<1>6. Part(V, n)
  <2> HIDE DEF Part
  <2> QED
    BY <1>5 DEF n
<1> HIDE DEF V
<1>7. V[0] = {<<>>} /\ \A i \in 1 .. n : V[i] = Longer(V[i - 1], f[i])
  <2>1. 0 \in 0 .. n /\ \A i \in 1 .. n : i \in 0 .. n /\ i # 0
    BY <1>1
  <2> QED
    BY <1>6, <2>1 DEF f
<1>8. 0 \in T
  <2>1. <<>> \in Seq(AnyValue) /\ Len(<<>>) = 0
    BY EmptySeq
  <2>2. OK(<<>>, 0)
    BY <2>1
  <2> HIDE DEF OK
  <2> QED
    BY <2>2, <1>7
<1>9. ASSUME NEW k \in Nat, k \in T
      PROVE  k + 1 \in T
  <2>1. ASSUME k + 1 <= n, NEW l \in V[k + 1]
        PROVE  OK(l, k + 1)
    <3>1. k + 1 \in 1 .. n /\ (k + 1) - 1 = k /\ k <= n
      BY <2>1, <1>1
    <3>2. PICK p \in V[k], x \in Values(f[k + 1]) : l = Append(p, x)
      <4>1. l \in Longer(V[k], f[k + 1])
        BY <2>1, <3>1, <1>7
      <4> QED
        BY <4>1 DEF Longer
    <3>3. OK(p, k)
      BY <1>9, <3>1, <3>2
    <3>4. x \in AnyValue
      BY <3>1, <3>2, <1>1 DEF AnyValue, Values, Fields
    <3>5. /\ l \in Seq(AnyValue) /\ Len(l) = k + 1
          /\ \A i \in 1 .. k : l[i] = p[i]
          /\ l[k + 1] = x
      BY <3>2, <3>3, <3>4, AppendProperties
    <3>6. \A i \in 1 .. k + 1 : l[i] \in Values(f[i])
      <4>1. ASSUME NEW i \in 1 .. k + 1
            PROVE  l[i] \in Values(f[i])
        <5>1. CASE i = k + 1
          BY <5>1, <3>2, <3>5
        <5>2. CASE i # k + 1
          BY <5>2, <3>3, <3>5
        <5> QED
          BY <5>1, <5>2
      <4> QED
        BY <4>1
    <3> QED
      BY <3>5, <3>6
  <2> HIDE DEF OK
  <2> QED
    BY <2>1
<1>10. n \in T
  <2> HIDE DEF T
  <2> QED
    BY <1>1, <1>8, <1>9, SetInduction
<1>11. OK(m, n)
  BY <1>2, <1>10 DEF n
<1>12. DOMAIN m = 1 .. n
  BY <1>11, LenProperties
<1> QED
  BY <1>11, <1>12 DEF n, f

-----------------------------------------------------------------------------
(* One field                                                                *)

Kept(t) == IF Len(Zstd[t]) < Len(t) THEN Zstd[t] ELSE t

\* What is kept of a text is no longer than it, and gives it back.
LEMMA KeptIs ==
  ASSUME NEW t \in Texts
  PROVE  /\ t \in Seq(Byte) /\ Len(t) \in Nat
         /\ Len(t) < Power(Radix, LenBytes)
         /\ Kept(t) \in Seq(Byte) /\ Len(Kept(t)) \in Nat
         /\ Len(Kept(t)) <= Len(t)
         /\ Len(Kept(t)) < Power(Radix, LenBytes)
         /\ Deflated(t) = (Length(Kept(t)) \o Length(t)) \o Kept(t)
         /\ Inflated(Kept(t), Len(t)) = {t}
<1> DEFINE p == Power(Radix, LenBytes)
           z == Kept(t)
<1>1. p \in Nat
  BY WidthsAre
<1>2. t \in Seq(Byte) /\ Len(t) < p /\ Zstd[t] \in Seq(Byte)
  BY LayoutAssumption
<1>3. Len(t) \in Nat /\ Len(Zstd[t]) \in Nat
  BY <1>2, LenProperties
<1> HIDE DEF p
<1>4. /\ z \in Seq(Byte) /\ Len(z) \in Nat /\ Len(z) <= Len(t) /\ Len(z) < p
  BY <1>1, <1>2, <1>3 DEF Kept
<1>5. Deflated(t) = (Length(z) \o Length(t)) \o z
  BY DEF Deflated, Kept
<1>6. Inflated(z, Len(t)) = {t}
  <2>1. CASE Len(Zstd[t]) < Len(t)
    <3>1. z = Zstd[t] /\ Len(z) # Len(t)
      BY <2>1, <1>3 DEF Kept
    <3>2. \A u \in Texts : Zstd[u] = Zstd[t] => u = t
      BY LayoutAssumption DEF IsInjective
    <3>3. Unzip(z) = {t}
      BY <3>1, <3>2 DEF Unzip
    <3> QED
      BY <3>1, <3>3 DEF Inflated
  <2>2. CASE ~(Len(Zstd[t]) < Len(t))
    <3>1. z = t
      BY <2>2 DEF Kept
    <3> QED
      BY <3>1 DEF Inflated
  <2> QED
    BY <2>1, <2>2
<1> QED
  BY <1>2, <1>3, <1>4, <1>5, <1>6 DEF p

(* What MinSize and Size count for a field.                                 *)
Room(s, f) == FixedSize(f) + (IF Compressed(s, f) THEN 2 * LenBytes ELSE 0)
Written(f, v) == IF f.type = "string" THEN LenBytes + Len(v) ELSE 0

\* The kinds of field, and what each is encoded to.
LEMMA EncodedIs ==
  ASSUME NEW s \in Schemas, NEW f \in Fields, NEW v \in Values(f)
  PROVE  \/ /\ f.type = "bool" /\ v \in BOOLEAN /\ FixedSize(f) = 1
            /\ EncodeField(s, f, v) = <<IF v THEN 1 ELSE 0>>
         \/ /\ f.type = "int" /\ v \in Ints /\ FixedSize(f) = IntBytes
            /\ EncodeField(s, f, v) = LittleEndian(v, IntBytes)
         \/ /\ f.type = "string" /\ v \in Texts /\ FixedSize(f) = 0
            /\ Compressed(s, f)
            /\ EncodeField(s, f, v) = (Length(Kept(v)) \o Length(v)) \o Kept(v)
         \/ /\ f.type = "string" /\ v \in Texts /\ FixedSize(f) = 0
            /\ ~Compressed(s, f)
            /\ EncodeField(s, f, v) = Length(v) \o v
<1>1. f.type \in {"bool", "int", "string"}
  BY DEF Fields
<1>2. CASE f.type = "bool"
  <2>1. v \in BOOLEAN
    BY <1>2 DEF Values
  <2>2. FixedSize(f) = 1
    BY <1>2 DEF FixedSize
  <2>3. EncodeField(s, f, v) = <<IF v THEN 1 ELSE 0>>
    BY <1>2 DEF EncodeField, Compressed
  <2> QED
    BY <1>2, <2>1, <2>2, <2>3
<1>3. CASE f.type = "int"
  <2>1. v \in Ints
    BY <1>3 DEF Values
  <2>2. FixedSize(f) = IntBytes
    BY <1>3 DEF FixedSize
  <2>3. EncodeField(s, f, v) = LittleEndian(v, IntBytes)
    BY <1>3 DEF EncodeField, Compressed
  <2> QED
    BY <1>3, <2>1, <2>2, <2>3
<1>4. CASE f.type = "string"
  <2>1. v \in Texts /\ FixedSize(f) = 0
    BY <1>4 DEF Values, FixedSize
  <2>2. CASE Compressed(s, f)
    BY <1>4, <2>1, <2>2, KeptIs DEF EncodeField
  <2>3. CASE ~Compressed(s, f)
    BY <1>4, <2>1, <2>3 DEF EncodeField
  <2> QED
    BY <1>4, <2>1, <2>2, <2>3
<1> QED
  BY <1>1, <1>2, <1>3, <1>4

\* The bytes of a field take no more room than is counted for it.
LEMMA FieldFits ==
  ASSUME NEW s \in Schemas, NEW f \in Fields, NEW v \in Values(f)
  PROVE  /\ EncodeField(s, f, v) \in Seq(Byte)
         /\ Len(EncodeField(s, f, v)) \in Nat
         /\ Room(s, f) \in Nat /\ Written(f, v) \in Nat
         /\ Len(EncodeField(s, f, v)) <= Room(s, f) + Written(f, v)
<1> DEFINE e == EncodeField(s, f, v)
<1>0. IntBytes \in Nat /\ LenBytes \in Nat /\ Radix \in Nat /\ Radix > 1
  BY WidthsAre
<1>1. CASE f.type = "bool"
  <2>1. e = <<IF v THEN 1 ELSE 0>> /\ FixedSize(f) = 1
    BY <1>1, EncodedIs
  <2>2. 0 \in Byte /\ 1 \in Byte
    BY <1>0 DEF Byte
  <2>3. e \in Seq(Byte) /\ Len(e) = 1
    BY <2>1, <2>2
  <2>4. Room(s, f) = 1 /\ Written(f, v) = 0
    BY <1>1, <2>1 DEF Room, Written, Compressed
  <2> QED
    BY <2>3, <2>4
<1>2. CASE f.type = "int"
  <2>1. e = LittleEndian(v, IntBytes) /\ FixedSize(f) = IntBytes /\ v \in Ints
    BY <1>2, EncodedIs
  <2>2. e \in Seq(Byte) /\ Len(e) = IntBytes
    BY <2>1, RangesAre, SignedIs
  <2>3. Room(s, f) = IntBytes /\ Written(f, v) = 0
    BY <1>0, <1>2, <2>1 DEF Room, Written, Compressed
  <2> QED
    BY <1>0, <2>2, <2>3
<1>3. CASE f.type = "string" /\ Compressed(s, f)
  <2> DEFINE z == Kept(v)
  <2>1. e = (Length(z) \o Length(v)) \o z /\ FixedSize(f) = 0 /\ v \in Texts
    BY <1>3, EncodedIs
  <2>2. /\ Len(v) \in Nat /\ z \in Seq(Byte) /\ Len(z) \in Nat
        /\ Len(z) <= Len(v)
        /\ Len(v) < Power(Radix, LenBytes) /\ Len(z) < Power(Radix, LenBytes)
    BY <2>1, KeptIs
  <2> HIDE DEF z
  <2>3. /\ Length(z) \in Seq(Byte) /\ Len(Length(z)) = LenBytes
        /\ Length(v) \in Seq(Byte) /\ Len(Length(v)) = LenBytes
    BY <2>2, LengthIs
  <2> DEFINE a == Length(z)
             b == Length(v)
             h == a \o b
  <2>4. h \in Seq(Byte) /\ Len(h) = LenBytes + LenBytes
    <3>1. a \in Seq(Byte) /\ b \in Seq(Byte)
      BY <2>3
    <3>2. Len(a) = LenBytes /\ Len(b) = LenBytes
      BY <2>3
    <3> HIDE DEF a, b
    <3>3. h \in Seq(Byte) /\ Len(h) = Len(a) + Len(b)
      BY <3>1, ConcatIs
    <3> QED
      BY <3>2, <3>3
  <2> HIDE DEF h
  <2>5. e \in Seq(Byte) /\ Len(e) = LenBytes + LenBytes + Len(z)
    <3>1. h \in Seq(Byte) /\ z \in Seq(Byte)
      BY <2>2, <2>4
    <3>2. h \o z \in Seq(Byte) /\ Len(h \o z) = Len(h) + Len(z)
      BY <3>1, ConcatIs
    <3>3. e = h \o z
      BY <2>1 DEF h
    <3> HIDE DEF e
    <3> QED
      BY <2>4, <3>2, <3>3
  <2>6. Room(s, f) = 2 * LenBytes /\ Written(f, v) = LenBytes + Len(v)
    BY <1>0, <1>3, <2>1 DEF Room, Written
  <2> HIDE DEF e
  <2>7. /\ Len(e) \in Nat /\ Room(s, f) \in Nat /\ Written(f, v) \in Nat
        /\ Len(e) <= Room(s, f) + Written(f, v)
    BY <1>0, <2>2, <2>5, <2>6
  <2> QED
    BY <2>5, <2>7 DEF e
<1>4. CASE f.type = "string" /\ ~Compressed(s, f)
  <2>1. e = Length(v) \o v /\ FixedSize(f) = 0 /\ v \in Texts
    BY <1>4, EncodedIs
  <2>2. v \in Seq(Byte) /\ Len(v) \in Nat /\ Len(v) < Power(Radix, LenBytes)
    BY <2>1, KeptIs
  <2>3. Length(v) \in Seq(Byte) /\ Len(Length(v)) = LenBytes
    BY <2>2, LengthIs
  <2> DEFINE h == Length(v)
  <2>4. e \in Seq(Byte) /\ Len(e) = LenBytes + Len(v)
    <3>1. h \in Seq(Byte) /\ v \in Seq(Byte) /\ Len(h) = LenBytes /\ e = h \o v
      BY <2>1, <2>2, <2>3
    <3> HIDE DEF h, e
    <3>2. h \o v \in Seq(Byte) /\ Len(h \o v) = Len(h) + Len(v)
      BY <3>1, ConcatIs
    <3> QED
      BY <3>1, <3>2
  <2>5. Room(s, f) = 0 /\ Written(f, v) = LenBytes + Len(v)
    BY <1>0, <1>4, <2>1 DEF Room, Written
  <2> HIDE DEF e
  <2>6. /\ Len(e) \in Nat /\ Room(s, f) \in Nat /\ Written(f, v) \in Nat
        /\ Len(e) <= Room(s, f) + Written(f, v)
    BY <1>0, <2>2, <2>4, <2>5
  <2> QED
    BY <2>4, <2>6 DEF e
<1>5. f.type \in {"bool", "int", "string"}
  BY DEF Fields
<1> QED
  BY <1>1, <1>2, <1>3, <1>4, <1>5

\* A field is decoded from the bytes it was encoded to, wherever they stand.
LEMMA FieldDecodes ==
  ASSUME NEW s \in Schemas, NEW f \in Fields, NEW v \in Values(f),
         NEW data \in Seq(Byte), NEW off \in Nat,
         Holds(data, off, EncodeField(s, f, v))
  PROVE  GeneratedField(s, f, data, off) =
           {Decoded(v, off + Len(EncodeField(s, f, v)))}
<1> DEFINE e == EncodeField(s, f, v)
<1>0. IntBytes \in Nat /\ LenBytes \in Nat /\ e \in Seq(Byte)
  BY WidthsAre, FieldFits
<1>1. CASE f.type = "bool"
  <2>1. e = <<IF v THEN 1 ELSE 0>> /\ FixedSize(f) = 1 /\ v \in BOOLEAN
    BY <1>1, EncodedIs
  <2>2. Len(e) = 1 /\ (e[1] # 0) = v
    BY <2>1
  <2>3. Chunk(data, off, 1) = {e}
    <3>1. Chunk(data, off, Len(e)) = {e}
      BY <1>0, ChunkIs
    <3> QED
      BY <3>1, <2>2
  <2>4. FixedField(f, data, off) = {Decoded(v, off + 1)}
    <3> HIDE DEF e
    <3>1. FixedField(f, data, off) = {Decoded(b[1] # 0, off + 1) : b \in {e}}
      BY <1>1, <2>1, <2>3 DEF FixedField
    <3> QED
      BY <2>2, <3>1
  <2>5. GeneratedField(s, f, data, off) = FixedField(f, data, off)
    BY <1>1 DEF GeneratedField
  <2> QED
    BY <2>2, <2>4, <2>5
<1>2. CASE f.type = "int"
  <2>1. e = LittleEndian(v, IntBytes) /\ FixedSize(f) = IntBytes /\ v \in Ints
    BY <1>2, EncodedIs
  <2>2. Len(e) = IntBytes /\ Signed(Unsigned(e)) = v
    BY <2>1, RangesAre, SignedIs
  <2>3. Chunk(data, off, IntBytes) = {e}
    <3>1. Chunk(data, off, Len(e)) = {e}
      BY <1>0, ChunkIs
    <3> QED
      BY <3>1, <2>2
  <2>4. FixedField(f, data, off) = {Decoded(v, off + IntBytes)}
    <3> HIDE DEF e
    <3>1. FixedField(f, data, off) =
            {Decoded(Signed(Unsigned(b)), off + IntBytes) : b \in {e}}
      BY <1>2, <2>1, <2>3 DEF FixedField
    <3> QED
      BY <2>2, <3>1
  <2>5. GeneratedField(s, f, data, off) = FixedField(f, data, off)
    BY <1>2 DEF GeneratedField
  <2> QED
    BY <2>2, <2>4, <2>5
<1>3. CASE f.type = "string" /\ Compressed(s, f)
  <2> DEFINE z     == Kept(v)
             h     == Length(z) \o Length(v)
             start == off + 2 * LenBytes
  <2>1. e = h \o z /\ v \in Texts
    BY <1>3, EncodedIs
  <2>2. /\ Len(v) \in Nat /\ z \in Seq(Byte) /\ Len(z) \in Nat
        /\ Len(v) < Power(Radix, LenBytes) /\ Len(z) < Power(Radix, LenBytes)
        /\ Inflated(z, Len(v)) = {v}
    BY <2>1, KeptIs
  <2> HIDE DEF z
  <2>3. /\ Length(z) \in Seq(Byte) /\ Len(Length(z)) = LenBytes
        /\ Length(v) \in Seq(Byte) /\ Len(Length(v)) = LenBytes
        /\ Unsigned(Length(z)) = Len(z) /\ Unsigned(Length(v)) = Len(v)
    BY <2>2, LengthIs
  <2>4. /\ h \in Seq(Byte) /\ Len(h) = LenBytes + LenBytes
        /\ SubSeq(h, 1, LenBytes) = Length(z)
        /\ SubSeq(h, LenBytes + 1, LenBytes + LenBytes) = Length(v)
    <3> DEFINE a == Length(z)
               b == Length(v)
    <3>1. a \in Seq(Byte) /\ b \in Seq(Byte)
      BY <2>3
    <3>2. Len(a) = LenBytes /\ Len(b) = LenBytes
      BY <2>3
    <3> HIDE DEF a, b
    <3>3. /\ a \o b \in Seq(Byte) /\ Len(a \o b) = Len(a) + Len(b)
          /\ SubSeq(a \o b, 1, Len(a)) = a
          /\ SubSeq(a \o b, Len(a) + 1, Len(a) + Len(b)) = b
      BY <3>1, ConcatIs
    <3>4. h = a \o b
      BY DEF a, b
    <3> HIDE DEF h
    <3>5. /\ h \in Seq(Byte) /\ Len(h) = LenBytes + LenBytes
          /\ SubSeq(h, 1, LenBytes) = a
          /\ SubSeq(h, LenBytes + 1, LenBytes + LenBytes) = b
      BY <3>2, <3>3, <3>4
    <3> QED
      BY <3>5 DEF a, b
  <2>5. LenBytes + LenBytes = 2 * LenBytes
    BY <1>0
  <2> HIDE DEF h
  <2>6. Len(e) = 2 * LenBytes + Len(z)
    <3>1. h \in Seq(Byte) /\ z \in Seq(Byte)
      BY <2>2, <2>4
    <3>2. Len(h \o z) = Len(h) + Len(z)
      BY <3>1, ConcatIs
    <3>3. e = h \o z
      BY <2>1 DEF h
    <3> HIDE DEF e
    <3> QED
      BY <2>4, <2>5, <3>2, <3>3
  <2>7. Holds(data, off, h) /\ Holds(data, off + Len(h), z)
    BY <2>1, <2>2, <2>4, HoldsParts
  <2>8. Chunk(data, off, 2 * LenBytes) = {h}
    <3>1. Chunk(data, off, Len(h)) = {h}
      BY <2>4, <2>7, ChunkIs
    <3> QED
      BY <3>1, <2>4, <2>5
  <2>9. start \in Nat /\ start = off + Len(h)
    BY <1>0, <2>4, <2>5
  <2> HIDE DEF start
  <2>10. Chunk(data, start, Len(z)) = {z}
    BY <2>2, <2>7, <2>9, ChunkIs
  <2>11. ZippedField(data, off) = {Decoded(v, start + Len(z))}
    <3> DEFINE Lens(g) ==
                 [held |-> Unsigned(SubSeq(g, 1, LenBytes)),
                  of   |-> Unsigned(SubSeq(g, LenBytes + 1, 2 * LenBytes))]
               Read(g) == UNION {{Decoded(t, start + Len(y)) :
                                    t \in Inflated(y, Lens(g).of)} :
                                 y \in Chunk(data, start, Lens(g).held)}
    <3>1. ZippedField(data, off) =
            UNION {Read(g) : g \in Chunk(data, off, 2 * LenBytes)}
      BY Zenon DEF ZippedField, start
    <3>2. Lens(h).held = Len(z) /\ Lens(h).of = Len(v)
      BY <2>3, <2>4, <2>5
    <3> HIDE DEF Lens
    <3>3. Read(h) = {Decoded(v, start + Len(z))}
      BY <3>2, <2>2, <2>10
    <3> HIDE DEF Read
    <3> QED
      BY <3>1, <3>3, <2>8
  <2>12. GeneratedField(s, f, data, off) = ZippedField(data, off)
    BY <1>3 DEF GeneratedField
  <2>13. start + Len(z) = off + Len(e)
    BY <1>0, <2>2, <2>6 DEF start
  <2> QED
    BY <2>11, <2>12, <2>13
<1>4. CASE f.type = "string" /\ ~Compressed(s, f)
  <2> DEFINE h     == Length(v)
             start == off + LenBytes
  <2>1. e = h \o v /\ v \in Texts
    BY <1>4, EncodedIs
  <2>2. v \in Seq(Byte) /\ Len(v) \in Nat /\ Len(v) < Power(Radix, LenBytes)
    BY <2>1, KeptIs
  <2>3. h \in Seq(Byte) /\ Len(h) = LenBytes /\ Unsigned(h) = Len(v)
    BY <2>2, LengthIs
  <2> HIDE DEF h
  <2>4. Len(e) = LenBytes + Len(v)
    BY <2>1, <2>2, <2>3, ConcatIs
  <2>5. Holds(data, off, h) /\ Holds(data, off + Len(h), v)
    BY <2>1, <2>2, <2>3, HoldsParts
  <2>6. Chunk(data, off, LenBytes) = {h}
    <3>1. Chunk(data, off, Len(h)) = {h}
      BY <2>3, <2>5, ChunkIs
    <3> QED
      BY <3>1, <2>3
  <2>7. start \in Nat /\ start = off + Len(h)
    BY <1>0, <2>3
  <2> HIDE DEF start
  <2>8. Chunk(data, start, Len(v)) = {v}
    BY <2>2, <2>5, <2>7, ChunkIs
  <2>9. PlainField(data, off) = {Decoded(v, start + Len(v))}
    <3> DEFINE Read(g) == {Decoded(t, start + Len(t)) :
                             t \in Chunk(data, start, Unsigned(g))}
    <3>1. PlainField(data, off) =
            UNION {Read(g) : g \in Chunk(data, off, LenBytes)}
      BY Zenon DEF PlainField, start
    <3>2. Read(h) = {Decoded(v, start + Len(v))}
      BY <2>3, <2>8
    <3> HIDE DEF Read
    <3> QED
      BY <3>1, <3>2, <2>6
  <2>10. GeneratedField(s, f, data, off) = PlainField(data, off)
    BY <1>4 DEF GeneratedField
  <2>11. start + Len(v) = off + Len(e)
    BY <1>0, <2>2, <2>4 DEF start
  <2> QED
    BY <2>9, <2>10, <2>11
<1>5. f.type \in {"bool", "int", "string"}
  BY DEF Fields
<1> QED
  BY <1>1, <1>2, <1>3, <1>4, <1>5

-----------------------------------------------------------------------------
(* The bytes of a row                                                       *)

Rooms(s)       == [i \in DOMAIN s.fields |-> Room(s, s.fields[i])]
WrittenIn(s, m) == [i \in DOMAIN s.fields |-> Written(s.fields[i], m[i])]

\* Sums over the first fields.
LEMMA SumUpTo ==
  ASSUME NEW n \in Nat, NEW f, \A i \in 1 .. n : f[i] \in Nat,
         NEW k \in 0 .. n
  PROVE  /\ SumFunctionOnSet(f, 1 .. k) \in Nat
         /\ SumFunctionOnSet(f, 1 .. 0) = 0
         /\ k + 1 <= n => SumFunctionOnSet(f, 1 .. k + 1) =
                            f[k + 1] + SumFunctionOnSet(f, 1 .. k)
<1>1. IsFiniteSet(1 .. k)
  BY FS_Interval
<1>2. \A i \in 1 .. k : f[i] \in Nat
  OBVIOUS
<1>3. SumFunctionOnSet(f, 1 .. k) \in Nat
  BY <1>1, <1>2, SumType
<1>4. SumFunctionOnSet(f, 1 .. 0) = 0
  <2>1. 1 .. 0 = {}
    OBVIOUS
  <2> QED
    BY <2>1, SumEmpty
<1>5. ASSUME k + 1 <= n
      PROVE  SumFunctionOnSet(f, 1 .. k + 1) =
               f[k + 1] + SumFunctionOnSet(f, 1 .. k)
  <2>1. /\ k + 1 \notin 1 .. k /\ (1 .. k) \cup {k + 1} = 1 .. k + 1
        /\ \A i \in (1 .. k) \cup {k + 1} : f[i] \in Nat
    BY <1>5
  <2>2. SumFunctionOnSet(f, (1 .. k) \cup {k + 1}) =
          f[k + 1] + SumFunctionOnSet(f, 1 .. k)
    BY <1>1, <2>1, SumAdd
  <2> QED
    BY <2>1, <2>2
<1> QED
  BY <1>3, <1>4, <1>5

\* The size that every row of a schema has at least.
LEMMA MinSizeIs ==
  ASSUME NEW s \in Schemas
  PROVE  /\ \A i \in 1 .. Len(s.fields) :
              /\ Rooms(s)[i] = Room(s, s.fields[i])
              /\ Rooms(s)[i] \in Nat
         /\ HeaderBytes(s) \in Nat
         /\ MinSize(s) = SumFunctionOnSet(Rooms(s), 1 .. Len(s.fields))
         /\ MinSize(s) \in Nat
<1> DEFINE n == Len(s.fields)
<1>1. /\ n \in Nat /\ DOMAIN s.fields = 1 .. n
      /\ \A i \in 1 .. n : s.fields[i] \in Fields
  BY SchemaIs
<1>2. \A f \in Fields : Room(s, f) \in Nat
  BY WidthsAre DEF Room, FixedSize, Fields
<1>3. \A i \in 1 .. n : Rooms(s)[i] = Room(s, s.fields[i]) /\ Rooms(s)[i] \in Nat
  BY <1>1, <1>2 DEF Rooms
<1>4. HeaderBytes(s) \in Nat
  BY WidthsAre DEF HeaderBytes
<1>5. MinSize(s) = SumFunctionOnSet(Rooms(s), 1 .. n)
  <2>1. MinSize(s) = SumFunction(Rooms(s))
    BY Zenon DEF MinSize, Rooms, Room
  <2>2. DOMAIN Rooms(s) = 1 .. n
    BY <1>1 DEF Rooms
  <2> QED
    BY <2>1, <2>2 DEF SumFunction
<1>6. SumFunctionOnSet(Rooms(s), 1 .. n) \in Nat
  <2>1. n \in 0 .. n
    BY <1>1
  <2> QED
    BY <2>1, <1>1, <1>3, SumUpTo
<1> QED
  BY <1>3, <1>4, <1>5, <1>6

\* The sizes of a schema and of a row.
LEMMA SizesAre ==
  ASSUME NEW s \in Schemas, NEW m \in Records(s)
  PROVE  /\ \A i \in 1 .. Len(s.fields) :
              /\ Rooms(s)[i] = Room(s, s.fields[i])
              /\ Rooms(s)[i] \in Nat
              /\ WrittenIn(s, m)[i] = Written(s.fields[i], m[i])
              /\ WrittenIn(s, m)[i] \in Nat
         /\ HeaderBytes(s) \in Nat
         /\ MinSize(s) = SumFunctionOnSet(Rooms(s), 1 .. Len(s.fields))
         /\ Size(s, m) =
              HeaderBytes(s) + MinSize(s)
                + SumFunctionOnSet(WrittenIn(s, m), 1 .. Len(s.fields))
         /\ MinSize(s) \in Nat /\ Size(s, m) \in Nat
         /\ MinSize(s) + HeaderBytes(s) <= Size(s, m)
<1> DEFINE n == Len(s.fields)
<1>1. /\ n \in Nat /\ DOMAIN s.fields = 1 .. n
      /\ \A i \in 1 .. n : s.fields[i] \in Fields
  BY SchemaIs
<1>2. \A i \in 1 .. n : m[i] \in Values(s.fields[i])
  BY RecordIs
<1>3. ASSUME NEW i \in 1 .. n
      PROVE  /\ Rooms(s)[i] = Room(s, s.fields[i])
             /\ Rooms(s)[i] \in Nat
             /\ WrittenIn(s, m)[i] = Written(s.fields[i], m[i])
             /\ WrittenIn(s, m)[i] \in Nat
  <2>1. /\ Rooms(s)[i] = Room(s, s.fields[i])
        /\ WrittenIn(s, m)[i] = Written(s.fields[i], m[i])
    BY <1>1 DEF Rooms, WrittenIn
  <2>2. s.fields[i] \in Fields /\ m[i] \in Values(s.fields[i])
    BY <1>1, <1>2
  <2>3. Room(s, s.fields[i]) \in Nat /\ Written(s.fields[i], m[i]) \in Nat
    BY <2>2, FieldFits
  <2> QED
    BY <2>1, <2>3
<1>4. HeaderBytes(s) \in Nat
      /\ MinSize(s) = SumFunctionOnSet(Rooms(s), 1 .. n) /\ MinSize(s) \in Nat
  BY MinSizeIs
<1>5. Size(s, m) = HeaderBytes(s) + MinSize(s)
                     + SumFunctionOnSet(WrittenIn(s, m), 1 .. n)
  <2>1. Size(s, m) = HeaderBytes(s) + MinSize(s) + SumFunction(WrittenIn(s, m))
    BY Zenon DEF Size, WrittenIn, Written
  <2>2. DOMAIN WrittenIn(s, m) = 1 .. n
    BY <1>1 DEF WrittenIn
  <2> QED
    BY <2>1, <2>2 DEF SumFunction
<1>6. SumFunctionOnSet(WrittenIn(s, m), 1 .. n) \in Nat
  <2>1. n \in 0 .. n
    BY <1>1
  <2> QED
    BY <2>1, <1>1, <1>3, SumUpTo
<1>7. /\ MinSize(s) \in Nat /\ Size(s, m) \in Nat
      /\ MinSize(s) + HeaderBytes(s) <= Size(s, m)
  BY <1>4, <1>5, <1>6
<1> QED
  BY <1>3, <1>4, <1>5, <1>7

(* F[i] are the bytes of the first i fields.                                *)
FieldBytes(F, s, m) ==
  /\ F \in [0 .. Len(s.fields) -> Seq(Byte)]
  /\ F[0] = <<>>
  /\ \A i \in 1 .. Len(s.fields) :
       F[i] = F[i - 1] \o EncodeField(s, s.fields[i], m[i])

\* A row is its header and the bytes of its fields.
LEMMA ContentIs ==
  ASSUME NEW s \in Schemas, NEW m \in Records(s), NEW e \in Int
  PROVE  \E F : /\ FieldBytes(F, s, m)
                /\ Content(s, m, e) =
                     LittleEndian(e, HeaderBytes(s)) \o F[Len(s.fields)]
<1> DEFINE n == Len(s.fields)
           p == [i \in DOMAIN m |-> EncodeField(s, s.fields[i], m[i])]
<1>1. n \in Nat /\ n > 0 /\ \A i \in 1 .. n : s.fields[i] \in Fields
  BY SchemaIs
<1>2. DOMAIN m = 1 .. n /\ \A i \in 1 .. n : m[i] \in Values(s.fields[i])
  BY RecordIs
<1>3. \A i \in 1 .. n : EncodeField(s, s.fields[i], m[i]) \in Seq(Byte)
  BY <1>1, <1>2, FieldFits
<1>4. /\ \A i \in 1 .. n : p[i] = EncodeField(s, s.fields[i], m[i])
      /\ p \in [1 .. n -> Seq(Byte)]
  BY <1>2, <1>3
<1>5. Content(s, m, e) = LittleEndian(e, HeaderBytes(s)) \o FlattenSeq(p)
  BY Zenon DEF Content
<1> HIDE DEF n, p
<1>6. p \in Seq(Seq(Byte))
  BY <1>1, <1>4, SeqDef
<1>7. Len(p) = n
  BY <1>1, <1>4, <1>6, LenProperties
<1>8. \A i \in 1 .. n : p[i] \in Seq(Byte)
  BY <1>4
<1>9. PICK F \in [0 .. n -> Seq(Byte)] :
        /\ FlattenSeq(p) = F[n] /\ F[0] = <<>>
        /\ \A i \in 1 .. n : F[i] = F[i - 1] \o p[i]
  BY <1>1, <1>7, <1>8, FlattenIs
<1>10. FieldBytes(F, s, m)
  BY <1>4, <1>9 DEF FieldBytes, n
<1> QED
  BY <1>5, <1>9, <1>10 DEF n

\* What is known of the bytes of the first fields.
LEMMA FieldBytesAre ==
  ASSUME NEW s \in Schemas, NEW m \in Records(s), NEW F, FieldBytes(F, s, m)
  PROVE  /\ \A i \in 0 .. Len(s.fields) : F[i] \in Seq(Byte) /\ Len(F[i]) \in Nat
         /\ Len(F[0]) = 0
         /\ \A i \in 1 .. Len(s.fields) :
              LET x == EncodeField(s, s.fields[i], m[i])
              IN /\ x \in Seq(Byte) /\ Len(x) \in Nat
                 /\ Len(F[i]) = Len(F[i - 1]) + Len(x)
                 /\ Holds(F[i], 0, F[i - 1])
                 /\ Holds(F[i], Len(F[i - 1]), x)
<1> DEFINE n == Len(s.fields)
<1>1. n \in Nat /\ \A i \in 1 .. n : s.fields[i] \in Fields
  BY SchemaIs
<1>2. \A i \in 1 .. n : m[i] \in Values(s.fields[i])
  BY RecordIs
<1>3. ASSUME NEW i \in 0 .. n
      PROVE  F[i] \in Seq(Byte) /\ Len(F[i]) \in Nat
  <2>1. F[i] \in Seq(Byte)
    BY DEF FieldBytes
  <2> QED
    BY <2>1, LenProperties
<1>4. Len(F[0]) = 0
  <2>1. F[0] = <<>>
    BY DEF FieldBytes
  <2> QED
    BY <2>1
<1>5. ASSUME NEW i \in 1 .. n, NEW x, x = EncodeField(s, s.fields[i], m[i])
      PROVE  /\ x \in Seq(Byte) /\ Len(x) \in Nat
             /\ Len(F[i]) = Len(F[i - 1]) + Len(x)
             /\ Holds(F[i], 0, F[i - 1])
             /\ Holds(F[i], Len(F[i - 1]), x)
  <2> DEFINE p == F[i - 1]
             q == F[i]
  <2>1. s.fields[i] \in Fields /\ m[i] \in Values(s.fields[i])
    BY <1>1, <1>2
  <2>2. x \in Seq(Byte) /\ Len(x) \in Nat
    BY <1>5, <2>1, FieldFits
  <2>3. p \in Seq(Byte) /\ q \in Seq(Byte) /\ q = p \o x
    <3>1. i - 1 \in 0 .. n /\ i \in 0 .. n
      BY <1>1
    <3>2. q = p \o x
      BY <1>5 DEF FieldBytes
    <3> QED
      BY <1>3, <3>1, <3>2
  <2> HIDE DEF p, q
  <2>4. /\ Len(q) = Len(p) + Len(x) /\ Len(p) \in Nat
        /\ \A j \in 1 .. Len(p) : q[j] = p[j]
        /\ \A j \in 1 .. Len(x) : q[Len(p) + j] = x[j]
    BY <2>2, <2>3, ConcatIs
  <2>5. Holds(q, 0, p)
    BY <2>2, <2>4 DEF Holds
  <2>6. Holds(q, Len(p), x)
    BY <2>2, <2>4 DEF Holds
  <2> QED
    BY <2>2, <2>4, <2>5, <2>6 DEF p, q
<1> QED
  BY <1>3, <1>4, <1>5

\* The bytes of each field stand behind those of the fields before it.
LEMMA FieldStands ==
  ASSUME NEW s \in Schemas, NEW m \in Records(s), NEW F, FieldBytes(F, s, m),
         NEW i \in 1 .. Len(s.fields)
  PROVE  Holds(F[Len(s.fields)], Len(F[i - 1]),
               EncodeField(s, s.fields[i], m[i]))
<1> DEFINE n == Len(s.fields)
           x == EncodeField(s, s.fields[i], m[i])
           T == {k \in Nat : i <= k /\ k <= n => Holds(F[k], Len(F[i - 1]), x)}
<1>1. n \in Nat /\ i \in 1 .. n
  BY SchemaIs
<1>2. /\ \A k \in 0 .. n : Len(F[k]) \in Nat
      /\ \A k \in 1 .. n : Holds(F[k], 0, F[k - 1])
      /\ Holds(F[i], Len(F[i - 1]), x)
      /\ Len(x) \in Nat
  BY FieldBytesAre
<1> HIDE DEF n, x
<1>3. 0 \in T
  BY <1>1
<1>4. ASSUME NEW k \in Nat, k \in T
      PROVE  k + 1 \in T
  <2>1. ASSUME i <= k + 1, k + 1 <= n
        PROVE  Holds(F[k + 1], Len(F[i - 1]), x)
    <3>1. CASE i = k + 1
      BY <3>1, <1>2
    <3>2. CASE i # k + 1
      <4>1. i <= k /\ k <= n /\ k + 1 \in 1 .. n /\ (k + 1) - 1 = k
        BY <2>1, <3>2, <1>1
      <4>2. Holds(F[k + 1], 0, F[k]) /\ Holds(F[k], Len(F[i - 1]), x)
        BY <1>2, <1>4, <4>1
      <4>3. k + 1 \in 0 .. n /\ k \in 0 .. n /\ i - 1 \in 0 .. n
        BY <4>1, <1>1
      <4>4. Len(F[k + 1]) \in Nat /\ Len(F[k]) \in Nat /\ Len(F[i - 1]) \in Nat
        BY <4>3, <1>2
      <4>5. Holds(F[k + 1], 0 + Len(F[i - 1]), x)
        BY <4>2, <4>4, <1>2, HoldsInside
      <4>6. 0 + Len(F[i - 1]) = Len(F[i - 1])
        BY <4>4
      <4> QED
        BY <4>5, <4>6
    <3> QED
      BY <3>1, <3>2
  <2> QED
    BY <2>1
<1>5. n \in T
  <2> HIDE DEF T
  <2> QED
    BY <1>1, <1>3, <1>4, SetInduction
<1> QED
  BY <1>1, <1>5 DEF n, x

\* The fields take no more bytes than Size counts for them.
LEMMA FieldsFit ==
  ASSUME NEW s \in Schemas, NEW m \in Records(s), NEW F, FieldBytes(F, s, m)
  PROVE  HeaderBytes(s) + Len(F[Len(s.fields)]) <= Size(s, m)
<1> DEFINE n    == Len(s.fields)
           A(k) == SumFunctionOnSet(Rooms(s), 1 .. k)
           B(k) == SumFunctionOnSet(WrittenIn(s, m), 1 .. k)
           T    == {k \in Nat : k <= n => Len(F[k]) <= A(k) + B(k)}
<1>1. n \in Nat /\ \A i \in 1 .. n : s.fields[i] \in Fields
  BY SchemaIs
<1>2. \A i \in 1 .. n : m[i] \in Values(s.fields[i])
  BY RecordIs
<1>3. \A i \in 1 .. n : /\ Rooms(s)[i] = Room(s, s.fields[i])
                        /\ Rooms(s)[i] \in Nat
                        /\ WrittenIn(s, m)[i] = Written(s.fields[i], m[i])
                        /\ WrittenIn(s, m)[i] \in Nat
  BY SizesAre
<1>4. \A k \in 0 .. n :
        /\ A(k) \in Nat /\ A(0) = 0 /\ B(k) \in Nat /\ B(0) = 0
        /\ k + 1 <= n => /\ A(k + 1) = Rooms(s)[k + 1] + A(k)
                         /\ B(k + 1) = WrittenIn(s, m)[k + 1] + B(k)
  BY <1>1, <1>3, SumUpTo
<1>5. HeaderBytes(s) \in Nat /\ Size(s, m) = HeaderBytes(s) + A(n) + B(n)
  BY SizesAre
<1>6. /\ \A k \in 0 .. n : Len(F[k]) \in Nat
      /\ Len(F[0]) = 0
      /\ \A i \in 1 .. n : Len(F[i]) = Len(F[i - 1])
                             + Len(EncodeField(s, s.fields[i], m[i]))
  BY FieldBytesAre
<1> HIDE DEF n, A, B
<1>7. 0 \in T
  <2>1. 0 \in 0 .. n
    BY <1>1
  <2>2. A(0) = 0 /\ B(0) = 0 /\ Len(F[0]) = 0
    BY <2>1, <1>4, <1>6
  <2>3. Len(F[0]) <= A(0) + B(0)
    BY <2>2
  <2> QED
    BY <2>3
<1>8. ASSUME NEW k \in Nat, k \in T
      PROVE  k + 1 \in T
  <2>1. ASSUME k + 1 <= n
        PROVE  Len(F[k + 1]) <= A(k + 1) + B(k + 1)
    <3> DEFINE f == s.fields[k + 1]
               v == m[k + 1]
               x == EncodeField(s, f, v)
               r == Room(s, f)
               w == Written(f, v)
    <3>1. /\ k \in 0 .. n /\ k + 1 \in 0 .. n /\ k + 1 \in 1 .. n
          /\ (k + 1) - 1 = k /\ k <= n
      BY <2>1, <1>1
    <3>2. f \in Fields /\ v \in Values(f)
      BY <3>1, <1>1, <1>2
    <3> HIDE DEF f, v
    <3>3. Len(x) \in Nat /\ r \in Nat /\ w \in Nat /\ Len(x) <= r + w
      BY <3>2, FieldFits
    <3>4. Rooms(s)[k + 1] = r /\ WrittenIn(s, m)[k + 1] = w
      BY <3>1, <1>3 DEF f, v
    <3>5. Len(F[k + 1]) = Len(F[k]) + Len(x)
      BY <3>1, <1>6 DEF f, v
    <3> HIDE DEF x, r, w
    <3>6. /\ A(k) \in Nat /\ B(k) \in Nat /\ Len(F[k]) \in Nat
          /\ A(k + 1) = r + A(k) /\ B(k + 1) = w + B(k)
      BY <2>1, <3>1, <3>4, <1>4, <1>6
    <3>7. Len(F[k]) <= A(k) + B(k)
      BY <3>1, <1>8
    <3> QED
      BY <3>3, <3>5, <3>6, <3>7
  <2> QED
    BY <2>1
<1>9. n \in T
  <2> HIDE DEF T
  <2> QED
    BY <1>1, <1>7, <1>8, SetInduction
<1>10. Len(F[n]) <= A(n) + B(n) /\ n \in 0 .. n
  BY <1>1, <1>9
<1>11. Len(F[n]) \in Nat /\ A(n) \in Nat /\ B(n) \in Nat
  BY <1>4, <1>6, <1>10
<1>12. HeaderBytes(s) + Len(F[n]) <= HeaderBytes(s) + A(n) + B(n)
  BY <1>5, <1>10, <1>11
<1> QED
  BY <1>5, <1>12 DEF n

\* A row holds its content and zeros behind it.
LEMMA RowIs ==
  ASSUME NEW s \in Schemas, NEW m \in Records(s), NEW e \in Int,
         NEW d, d = Serialize(s, m, e)
  PROVE  /\ Content(s, m, e) \in Seq(Byte) /\ Len(Content(s, m, e)) \in Nat
         /\ d \in Seq(Byte) /\ Len(d) \in Nat /\ Len(d) = Size(s, m)
         /\ Len(Content(s, m, e)) <= Len(d)
         /\ Holds(d, 0, Content(s, m, e))
         /\ \A j \in 1 .. Len(d) : j > Len(Content(s, m, e)) => d[j] = 0
<1> DEFINE c == Content(s, m, e)
           z == Size(s, m)
<1>1. Len(s.fields) \in 0 .. Len(s.fields) /\ HeaderBytes(s) \in Nat /\ z \in Nat
  BY SchemaIs, SizesAre
<1>2. PICK F : /\ FieldBytes(F, s, m)
               /\ c = LittleEndian(e, HeaderBytes(s)) \o F[Len(s.fields)]
  BY ContentIs
<1> DEFINE h == LittleEndian(e, HeaderBytes(s))
           b == F[Len(s.fields)]
<1>3. h \in Seq(Byte) /\ Len(h) = HeaderBytes(s)
  BY <1>1, LittleEndianIs
<1>4. b \in Seq(Byte) /\ Len(b) \in Nat
  BY <1>1, <1>2, FieldBytesAre
<1>5. HeaderBytes(s) + Len(b) <= z
  BY <1>2, FieldsFit
<1>6. c = h \o b
  BY <1>2
<1> HIDE DEF h, b, c
<1>7. c \in Seq(Byte) /\ Len(c) = Len(h) + Len(b)
  BY <1>3, <1>4, <1>6, ConcatIs
<1>8. Len(c) \in Nat /\ Len(c) <= z
  BY <1>1, <1>3, <1>4, <1>5, <1>7
<1>9. d = [i \in 1 .. z |-> IF i <= Len(c) THEN c[i] ELSE 0]
  BY DEF Serialize, c
<1> HIDE DEF z
<1>10. \A i \in 1 .. Len(c) : c[i] \in Byte
  BY <1>7, ElementOfSeq
<1>11. 0 \in Byte
  BY WidthsAre DEF Byte
<1>12. d \in [1 .. z -> Byte]
  <2>1. ASSUME NEW i \in 1 .. z
        PROVE  (IF i <= Len(c) THEN c[i] ELSE 0) \in Byte
    BY <1>8, <1>10, <1>11
  <2> QED
    BY <2>1, <1>9
<1>13. d \in Seq(Byte)
  BY <1>1, <1>12, SeqDef
<1>14. Len(d) = z
  BY <1>1, <1>12, <1>13, LenProperties
<1>15. \A i \in 1 .. Len(c) : d[0 + i] = c[i]
  <2>1. ASSUME NEW i \in 1 .. Len(c)
        PROVE  d[0 + i] = c[i]
    <3>1. 0 + i = i /\ i \in 1 .. z /\ i <= Len(c)
      BY <1>1, <1>8
    <3> QED
      BY <3>1, <1>9
  <2> QED
    BY <2>1
<1>16. 0 + Len(c) <= Len(d)
  BY <1>8, <1>14
<1>17. Holds(d, 0, c)
  BY <1>15, <1>16 DEF Holds
<1>18. \A j \in 1 .. Len(d) : j > Len(c) => d[j] = 0
  <2>1. ASSUME NEW j \in 1 .. Len(d), j > Len(c)
        PROVE  d[j] = 0
    <3>1. j \in 1 .. z /\ ~(j <= Len(c))
      BY <1>1, <1>8, <1>14, <2>1
    <3> QED
      BY <1>9, <3>1
  <2> QED
    BY <2>1
<1> QED
  BY <1>1, <1>7, <1>8, <1>13, <1>14, <1>17, <1>18 DEF c, z

-----------------------------------------------------------------------------
(* The invariant                                                            *)

(* The row is what some program of this project's history saved, under a    *)
(* schema of the same table as the one of now.                              *)
LayoutInv ==
  /\ schema \in Schemas
  /\ made.schema \in Schemas /\ made.record \in Records(made.schema)
  /\ made.expiry \in Expiries \cup {0}
  /\ ~made.schema.ttl => made.expiry = 0
  /\ schema.ttl = made.schema.ttl /\ schema.compress = made.schema.compress
  /\ row = Serialize(made.schema, made.record, made.expiry)

\* A saved row is one.
LEMMA PutKeeps ==
  ASSUME NEW m \in Records(schema), NEW e \in Expiries \cup {0},
         schema \in Schemas, ~schema.ttl => e = 0, schema' = schema, Put(m, e)
  PROVE  LayoutInv'
<1>1. made' = [schema |-> schema, record |-> m, expiry |-> e]
  BY DEF Put
<1>2. made'.schema = schema /\ made'.record = m /\ made'.expiry = e
  BY <1>1
<1>3. row' = Serialize(schema, m, e)
  BY DEF Put
<1> QED
  BY <1>2, <1>3 DEF LayoutInv

\* A new message keeps the options of the table.
LEMMA RegenerateKeeps ==
  ASSUME LayoutInv, Regenerate
  PROVE  LayoutInv'
<1>1. schema \in Schemas /\ schema' \in Schemas /\ row' = row /\ made' = made
  BY DEF LayoutInv, Regenerate
<1>2. schema \in [fields : UNION {[1 .. n -> Fields] : n \in 1 .. MaxFields},
                  compress : BOOLEAN, ttl : BOOLEAN]
  BY <1>1, SchemaIs
<1>3. schema'.ttl = schema.ttl /\ schema'.compress = schema.compress
  <2>1. CASE \E f \in Fields : schema' = [schema EXCEPT !.fields = Append(@, f)]
    BY <2>1, <1>2
  <2>2. CASE schema' = [schema EXCEPT !.fields = Front(@)]
    BY <2>2, <1>2
  <2> QED
    BY <2>1, <2>2 DEF Regenerate
<1> QED
  BY <1>1, <1>3 DEF LayoutInv

\* serializer.go:141-219: whatever was saved, under whatever schema, the row is
\* the one that Serialize makes of it.
THEOREM LayoutInvariant == Spec => []LayoutInv
<1>1. Init => LayoutInv
  <2>1. ASSUME Init
        PROVE  LayoutInv
    <3>1. schema \in Schemas
      BY <2>1 DEF Init
    <3>2. PICK m \in Records(schema) :
            /\ row = Serialize(schema, m, 0)
            /\ made = [schema |-> schema, record |-> m, expiry |-> 0]
      BY <2>1 DEF Init
    <3>3. made.schema = schema /\ made.record = m /\ made.expiry = 0
      BY <3>2
    <3> QED
      BY <3>1, <3>2, <3>3 DEF LayoutInv
  <2> QED
    BY <2>1
<1>2. LayoutInv /\ [Next]_vars => LayoutInv'
  <2> SUFFICES ASSUME LayoutInv, [Next]_vars
               PROVE  LayoutInv'
    OBVIOUS
  <2>1. CASE Save
    <3>1. PICK m \in Records(schema), e \in IF schema.ttl THEN Expiries ELSE {0} :
            Put(m, e)
      BY <2>1 DEF Save
    <3>2. schema' = schema /\ schema \in Schemas
      BY <2>1 DEF Save, LayoutInv
    <3>3. e \in Expiries \cup {0} /\ (~schema.ttl => e = 0)
      OBVIOUS
    <3> QED
      BY <3>1, <3>2, <3>3, PutKeeps
  <2>2. CASE Regenerate
    BY <2>2, RegenerateKeeps
  <2>3. CASE UNCHANGED vars
    BY <2>3 DEF vars, LayoutInv
  <2> QED
    BY <2>1, <2>2, <2>3 DEF Next
<1> QED
  BY <1>1, <1>2, PTL DEF Spec

\* The invariant has WritesFit.
LEMMA RowsFit ==
  ASSUME LayoutInv
  PROVE  WritesFit
<1> DEFINE e == made.expiry
<1>1. /\ made.schema \in Schemas /\ made.record \in Records(made.schema)
      /\ e \in Int /\ row = Serialize(made.schema, made.record, e)
  <2>1. e \in IntRange
    BY RangesAre DEF LayoutInv
  <2>2. e \in Int
    BY <2>1 DEF IntRange
  <2> QED
    BY <2>2 DEF LayoutInv
<1>2. /\ row \in Seq(Byte)
      /\ Len(Content(made.schema, made.record, e)) <= Len(row)
  <2> HIDE DEF e
  <2> QED
    BY <1>1, RowIs
<1>3. TypeOK
  BY <1>2 DEF TypeOK, LayoutInv
<1> QED
  BY <1>2, <1>3 DEF WritesFit

\* serializer.go:156-219, 389-398: the buffer that Size measures is large enough
\* for what Serialize writes, for numbers and lengths of any width, any schema
\* and record, and whatever zstd makes of the texts: Serialize never writes
\* behind the end of its buffer, which would be a panic in Go.
THEOREM WritesFitAlways == Spec => []WritesFit
<1>1. LayoutInv => WritesFit
  BY RowsFit
<1> QED
  BY <1>1, LayoutInvariant, PTL

-----------------------------------------------------------------------------
(* Decoding field by field                                                  *)

DecodeStart(s) == [ok |-> TRUE, off |-> HeaderBytes(s), vals |-> <<>>]

(* g[i] is what Decode knows after i fields.                                *)
Decodes(g, page, s, data, k) ==
  g = [i \in 0 .. k |->
         IF i = 0 THEN DecodeStart(s)
         ELSE DecodeNext(page, s, data, g[i - 1], s.fields[i])]

DecodedBy(g, page, s, data) ==
  /\ Decode(page, s, data) = g[Len(s.fields)]
  /\ g[0] = DecodeStart(s)
  /\ \A i \in 1 .. Len(s.fields) :
       g[i] = DecodeNext(page, s, data, g[i - 1], s.fields[i])

\* Decode goes from each field to the next.
LEMMA DecodeIs ==
  ASSUME NEW page, NEW s \in Schemas, NEW data
  PROVE  \E g : DecodedBy(g, page, s, data)
<1> DEFINE n == Len(s.fields)
           V == CHOOSE g : Decodes(g, page, s, data, Len(s.fields))
           S == {k \in Nat : \E g : Decodes(g, page, s, data, k)}
<1>1. n \in Nat
  BY SchemaIs
<1>2. Decode(page, s, data) = V[Len(s.fields)]
  BY Zenon DEF Decode, Decodes, DecodeStart
<1>3. 0 \in S
  <2>1. Decodes([i \in 0 .. 0 |-> DecodeStart(s)], page, s, data, 0)
    BY DEF Decodes
  <2> QED
    BY <2>1
<1>4. ASSUME NEW k \in Nat, k \in S
      PROVE  k + 1 \in S
  <2>1. PICK g : Decodes(g, page, s, data, k)
    BY <1>4
  <2> DEFINE y == DecodeNext(page, s, data, g[k], s.fields[k + 1])
             h == [i \in 0 .. k + 1 |-> IF i = k + 1 THEN y ELSE g[i]]
  <2>2. ASSUME NEW i \in 0 .. k + 1
        PROVE  h[i] = IF i = 0 THEN DecodeStart(s)
                      ELSE DecodeNext(page, s, data, h[i - 1], s.fields[i])
    <3>1. CASE i = k + 1
      <4>1. h[i] = y /\ h[i - 1] = g[k] /\ i # 0
        BY <3>1
      <4> HIDE DEF h
      <4> QED
        BY <3>1, <4>1
    <3>2. CASE i # k + 1
      <4>1. i \in 0 .. k /\ h[i] = g[i] /\ (i # 0 => h[i - 1] = g[i - 1])
        BY <3>2
      <4> HIDE DEF h
      <4> QED
        BY <4>1, <2>1 DEF Decodes
    <3> QED
      BY <3>1, <3>2
  <2>3. Decodes(h, page, s, data, k + 1)
    <3>1. h = [i \in 0 .. k + 1 |-> h[i]]
      OBVIOUS
    <3> HIDE DEF h
    <3> QED
      BY <2>2, <3>1 DEF Decodes
  <2> HIDE DEF h
  <2> QED
    BY <2>3
<1>5. Decodes(V, page, s, data, n)
  <2>1. n \in S
    <3> HIDE DEF S
    <3> QED
      BY <1>1, <1>3, <1>4, SetInduction
  <2> QED
    BY <2>1
<1> HIDE DEF V
<1>6. /\ V[0] = DecodeStart(s)
      /\ \A i \in 1 .. n :
           V[i] = DecodeNext(page, s, data, V[i - 1], s.fields[i])
  <2>1. 0 \in 0 .. n /\ \A i \in 1 .. n : i \in 0 .. n /\ i # 0
    BY <1>1
  <2> QED
    BY <1>5, <2>1 DEF Decodes
<1> QED
  BY <1>2, <1>6 DEF DecodedBy

(* What a field adds: nothing after an error or to one, else one of d.       *)
Adds(next, done, d) ==
  /\ ~done.ok => next = done
  /\ done.ok /\ d = {} => next = [done EXCEPT !.ok = FALSE]
  /\ done.ok /\ d # {} =>
       \E r \in d : next = [ok |-> TRUE, off |-> r.off,
                            vals |-> Append(done.vals, r.val)]

\* The program adds to what it decoded what it reads of the next field.
LEMMA NextIs ==
  ASSUME NEW s, NEW data, NEW done, NEW f
  PROVE  Adds(DecodeNext(FALSE, s, data, done, f), done,
              GeneratedField(s, f, data, done.off))
<1> DEFINE next == DecodeNext(FALSE, s, data, done, f)
           d    == GeneratedField(s, f, data, done.off)
           r    == CHOOSE x \in d : TRUE
<1>1. next = IF ~done.ok THEN done
             ELSE IF d = {} THEN [done EXCEPT !.ok = FALSE]
             ELSE [ok |-> TRUE, off |-> r.off, vals |-> Append(done.vals, r.val)]
  BY DEF DecodeNext
<1>2. d # {} => r \in d
  OBVIOUS
<1> HIDE DEF next, d, r
<1>3. ASSUME done.ok, d # {}
      PROVE  \E x \in d : next = [ok |-> TRUE, off |-> x.off,
                                  vals |-> Append(done.vals, x.val)]
  BY <1>1, <1>2, <1>3
<1>4. Adds(next, done, d)
  BY <1>1, <1>3 DEF Adds
<1> QED
  BY <1>4 DEF next, d

-----------------------------------------------------------------------------
(* The page                                                                 *)

\* Where the option of a field alone says whether it is compressed, the page
\* decodes it as the program does.
LEMMA PageFieldIs ==
  ASSUME NEW s \in Schemas, NEW f \in Fields, f.compress <=> Compressed(s, f),
         NEW data, NEW off
  PROVE  PageField(s, f, data, off) = GeneratedField(s, f, data, off)
<1>1. f.compress \in BOOLEAN
  BY DEF Fields
<1>2. CASE f.compress
  <2>1. f.type = "string" /\ Compressed(s, f)
    BY <1>2 DEF Compressed
  <2> QED
    BY <1>2, <2>1 DEF PageField, GeneratedField
<1>3. CASE ~f.compress
  BY <1>3 DEF PageField, GeneratedField
<1> QED
  BY <1>1, <1>2, <1>3

\* Then it decodes whole rows as the program does.
LEMMA PageDecodes ==
  ASSUME NEW s \in Schemas, NEW data,
         \A f \in ToSet(s.fields) : f.compress <=> Compressed(s, f)
  PROVE  Decode(TRUE, s, data) = Decode(FALSE, s, data)
<1> DEFINE n == Len(s.fields)
<1>1. n \in Nat /\ DOMAIN s.fields = 1 .. n /\ \A i \in 1 .. n : s.fields[i] \in Fields
  BY SchemaIs
<1>2. PICK g : DecodedBy(g, TRUE, s, data)
  BY DecodeIs, Zenon
<1>3. PICK h : DecodedBy(h, FALSE, s, data)
  BY DecodeIs, Zenon
<1>4. \A i \in 1 .. n : s.fields[i].compress <=> Compressed(s, s.fields[i])
  BY <1>1 DEF ToSet
<1> HIDE DEF n
<1>5. ASSUME NEW i \in 1 .. n, NEW done
      PROVE  DecodeNext(TRUE, s, data, done, s.fields[i]) =
               DecodeNext(FALSE, s, data, done, s.fields[i])
  <2>1. PageField(s, s.fields[i], data, done.off) =
          GeneratedField(s, s.fields[i], data, done.off)
    BY <1>1, <1>4, PageFieldIs
  <2> QED
    BY <2>1 DEF DecodeNext
<1> DEFINE S == {i \in Nat : i <= n => g[i] = h[i]}
<1>6. 0 \in S
  BY <1>2, <1>3 DEF DecodedBy
<1>7. ASSUME NEW i \in Nat, i \in S
      PROVE  i + 1 \in S
  <2>1. ASSUME i + 1 <= n
        PROVE  g[i + 1] = h[i + 1]
    <3>1. i + 1 \in 1 .. n /\ (i + 1) - 1 = i /\ i <= n
      BY <2>1, <1>1
    <3>2. g[i] = h[i]
      BY <3>1, <1>7
    <3>3. /\ g[i + 1] = DecodeNext(TRUE, s, data, g[i], s.fields[i + 1])
          /\ h[i + 1] = DecodeNext(FALSE, s, data, h[i], s.fields[i + 1])
      BY <3>1, <1>2, <1>3 DEF DecodedBy, n
    <3>4. DecodeNext(TRUE, s, data, g[i], s.fields[i + 1]) =
            DecodeNext(FALSE, s, data, g[i], s.fields[i + 1])
      BY <3>1, <1>5
    <3> QED
      BY <3>2, <3>3, <3>4
  <2> QED
    BY <2>1
<1>8. n \in S
  <2> HIDE DEF S
  <2> QED
    BY <1>1, <1>6, <1>7, SetInduction
<1>9. g[n] = h[n]
  BY <1>1, <1>8
<1> QED
  BY <1>2, <1>3, <1>9 DEF DecodedBy, n

\* The invariant has PageShowsRow.
LEMMA PageShows ==
  ASSUME LayoutInv
  PROVE  PageShowsRow
<1> SUFFICES ASSUME \A f \in ToSet(schema.fields) :
                      f.compress <=> Compressed(schema, f),
                    NEW r \in Deserialize(schema, row)
             PROVE  Shown(schema, row) = r
  BY DEF PageShowsRow
<1>1. schema \in Schemas /\ made.schema \in Schemas
  BY DEF LayoutInv
<1> DEFINE d == Decode(FALSE, schema, row)
<1>2. Decode(TRUE, schema, row) = d
  BY <1>1, PageDecodes
<1>3. /\ ~(Len(row) < MinSize(schema) + HeaderBytes(schema))
      /\ r = [record |-> d.vals, expiry |-> Expiry(schema, row)]
  BY DEF Deserialize
<1> HIDE DEF d
<1>4. Len(row) \in Nat
  <2>1. row \in Seq(Byte)
    BY RowsFit DEF WritesFit, TypeOK
  <2> QED
    BY <2>1, LenProperties
<1>5. MinSize(schema) \in Nat /\ HeaderBytes(schema) \in Nat
  BY <1>1, MinSizeIs
<1>6. ~(Len(row) < HeaderBytes(schema))
  BY <1>3, <1>4, <1>5
<1> QED
  BY <1>2, <1>3, <1>6 DEF Shown

\* ops.md:75-78: decodeValue, the page's own decoder, shows for any bytes that
\* the program reads the record that it reads, as long as the fields' own options
\* say which are compressed: for any schemas, widths, values and texts.
THEOREM PageShowsRowAlways == Spec => []PageShowsRow
<1>1. LayoutInv => PageShowsRow
  BY PageShows
<1> QED
  BY <1>1, LayoutInvariant, PTL

-----------------------------------------------------------------------------
(* Reading rows back                                                        *)

\* A sequence is one over any larger set.
LEMMA SeqWidens ==
  ASSUME NEW X, NEW v \in Seq(X), NEW x
  PROVE  v \in Seq(X \cup {x})
<1>1. v \in [1 .. Len(v) -> X] /\ Len(v) \in Nat
  BY LenProperties
<1>2. v \in [1 .. Len(v) -> X \cup {x}]
  BY <1>1
<1> QED
  BY <1>1, <1>2, SeqDef

\* It can be made longer there.
LEMMA SeqWider ==
  ASSUME NEW X, NEW v \in Seq(X), NEW x
  PROVE  Append(v, x) \in Seq(X \cup {x})
<1>1. v \in Seq(X \cup {x})
  BY SeqWidens
<1> QED
  BY <1>1, AppendProperties

\* Tables with the same options encode a field alike.
LEMMA SameOptions ==
  ASSUME NEW s, NEW t, s.compress = t.compress, NEW f, NEW v
  PROVE  EncodeField(s, f, v) = EncodeField(t, f, v) /\ Room(s, f) = Room(t, f)
<1>1. Compressed(s, f) = Compressed(t, f)
  BY DEF Compressed
<1> QED
  BY <1>1 DEF EncodeField, Room

(* After i fields their values are known and nothing went wrong.            *)
ReadUpTo(x, i, m, off) ==
  \E v \in Seq(AnyValue) :
    /\ x = [ok |-> TRUE, off |-> off, vals |-> v]
    /\ Len(v) = i
    /\ \A j \in 1 .. i : v[j] = m[j]

\* The fields that two schemas have in common are read as they were saved.
LEMMA CommonDecodes ==
  ASSUME NEW s \in Schemas, NEW t \in Schemas, s.compress = t.compress,
         HeaderBytes(s) = HeaderBytes(t),
         NEW m \in Records(t), NEW F, FieldBytes(F, t, m),
         NEW data \in Seq(Byte),
         Holds(data, HeaderBytes(t), F[Len(t.fields)]),
         NEW g, DecodedBy(g, FALSE, s, data)
  PROVE  /\ ReadUpTo(g[0], 0, m, HeaderBytes(t) + Len(F[0]))
         /\ \A i \in Common(s, t) :
              ReadUpTo(g[i], i, m, HeaderBytes(t) + Len(F[i]))
<1> DEFINE n    == Len(t.fields)
           h    == HeaderBytes(t)
           P(i) == ReadUpTo(g[i], i, m, h + Len(F[i]))
           T    == {i \in Nat : i = 0 \/ i \in Common(s, t) => P(i)}
<1>1. /\ n \in Nat /\ DOMAIN t.fields = 1 .. n
      /\ \A i \in 1 .. n : t.fields[i] \in Fields
      /\ h \in Nat
  BY SchemaIs, MinSizeIs
<1>2. Len(s.fields) \in Nat /\ DOMAIN s.fields = 1 .. Len(s.fields)
  BY SchemaIs
<1>3. \A i \in 1 .. n : m[i] \in Values(t.fields[i])
  BY RecordIs
<1>4. /\ \A i \in 0 .. n : Len(F[i]) \in Nat
      /\ Len(F[0]) = 0
      /\ \A i \in 1 .. n :
           /\ Len(EncodeField(t, t.fields[i], m[i])) \in Nat
           /\ Len(F[i]) = Len(F[i - 1]) + Len(EncodeField(t, t.fields[i], m[i]))
  BY FieldBytesAre
<1>5. \A i \in 1 .. n : Holds(F[n], Len(F[i - 1]),
                              EncodeField(t, t.fields[i], m[i]))
  BY FieldStands
<1>6. /\ g[0] = DecodeStart(s)
      /\ \A i \in 1 .. Len(s.fields) :
           g[i] = DecodeNext(FALSE, s, data, g[i - 1], s.fields[i])
  BY DEF DecodedBy
<1>7. Len(data) \in Nat
  BY LenProperties
<1>8. Holds(data, h, F[n])
  OBVIOUS
<1> HIDE DEF n, h
<1>9. P(0)
  <2>1. h + Len(F[0]) = h
    BY <1>1, <1>4
  <2>2. g[0] = [ok |-> TRUE, off |-> h, vals |-> <<>>]
    BY <1>6 DEF DecodeStart, h
  <2>3. <<>> \in Seq(AnyValue) /\ Len(<<>>) = 0
    BY EmptySeq
  <2>4. \A j \in 1 .. 0 : <<>>[j] = m[j]
    OBVIOUS
  <2>5. ReadUpTo(g[0], 0, m, h)
    BY <2>2, <2>3, <2>4, Zenon DEF ReadUpTo
  <2> QED
    BY <2>1, <2>5
<1>10. 0 \in T
  <2> HIDE DEF P
  <2> QED
    BY <1>9
<1>11. ASSUME NEW i \in Nat, i \in T
       PROVE  i + 1 \in T
  <2>1. ASSUME i + 1 \in Common(s, t)
        PROVE  P(i + 1)
    <3> DEFINE f   == t.fields[i + 1]
               v   == m[i + 1]
               x   == EncodeField(t, f, v)
               off == h + Len(F[i])
    <3>1. /\ i + 1 \in 1 .. n /\ i + 1 \in 1 .. Len(s.fields)
          /\ (i + 1) - 1 = i /\ i \in 0 .. n /\ i + 1 \in 0 .. n
          /\ i + 1 \in 1 .. i + 1
      BY <2>1, <1>1, <1>2 DEF Common
    <3>2. \A j \in 1 .. i + 1 : s.fields[j] = t.fields[j]
      BY <2>1 DEF Common
    <3>3. P(i)
      <4>1. CASE i = 0
        BY <4>1, <1>9
      <4>2. CASE i # 0
        <5>1. /\ i \in 1 .. Len(s.fields) /\ i \in 1 .. n
              /\ \A j \in 1 .. i : j \in 1 .. i + 1
          BY <3>1, <4>2, <1>1, <1>2
        <5>2. i \in Common(s, t)
          BY <5>1, <3>2, <1>1, <1>2 DEF Common
        <5> HIDE DEF P
        <5> QED
          BY <5>2, <1>11
      <4> QED
        BY <4>1, <4>2
    <3>4. f \in Fields /\ v \in Values(f) /\ s.fields[i + 1] = f
      BY <3>1, <3>2, <1>1, <1>3
    <3>5. /\ Len(x) \in Nat /\ Len(F[i]) \in Nat /\ Len(F[n]) \in Nat
          /\ Len(F[i + 1]) = Len(F[i]) + Len(x)
          /\ Holds(F[n], Len(F[i]), x)
      <4>1. n \in 0 .. n
        BY <1>1
      <4> QED
        BY <4>1, <3>1, <1>4, <1>5
    <3>6. EncodeField(s, f, v) = x
      BY SameOptions
    <3> HIDE DEF x
    <3>7. Holds(data, off, x) /\ off \in Nat
      BY <1>1, <1>7, <1>8, <3>5, HoldsInside
    <3>8. GeneratedField(s, f, data, off) = {Decoded(v, off + Len(x))}
      <4> HIDE DEF f, v, off
      <4> QED
        BY <3>4, <3>6, <3>7, FieldDecodes
    <3>9. PICK l \in Seq(AnyValue) :
            /\ g[i] = [ok |-> TRUE, off |-> off, vals |-> l]
            /\ Len(l) = i /\ \A j \in 1 .. i : l[j] = m[j]
      BY <3>3 DEF ReadUpTo
    <3>10. g[i + 1] = DecodeNext(FALSE, s, data, g[i], f)
      BY <1>6, <3>1, <3>4
    <3> HIDE DEF f, v, off
    <3>11. g[i + 1] = [ok |-> TRUE, off |-> off + Len(x), vals |-> Append(l, v)]
      <4>1. g[i].ok /\ g[i].off = off /\ g[i].vals = l
        BY <3>9
      <4>2. /\ GeneratedField(s, f, data, g[i].off) # {}
            /\ \A r \in GeneratedField(s, f, data, g[i].off) :
                 r.off = off + Len(x) /\ r.val = v
        BY <4>1, <3>8 DEF Decoded
      <4> DEFINE d    == GeneratedField(s, f, data, g[i].off)
                 next == DecodeNext(FALSE, s, data, g[i], f)
      <4>3. Adds(next, g[i], d)
        BY NextIs, Zenon
      <4> HIDE DEF d, next
      <4>4. PICK r \in d :
              next = [ok |-> TRUE, off |-> r.off, vals |-> Append(g[i].vals, r.val)]
        BY <4>1, <4>2, <4>3 DEF Adds, d
      <4>5. r.off = off + Len(x) /\ r.val = v
        BY <4>2 DEF d
      <4> QED
        BY <3>10, <4>1, <4>4, <4>5 DEF next
    <3>12. v \in AnyValue
      BY <3>4 DEF AnyValue, Values, Fields
    <3>13. /\ Append(l, v) \in Seq(AnyValue) /\ Len(Append(l, v)) = i + 1
           /\ \A j \in 1 .. i : Append(l, v)[j] = l[j]
           /\ Append(l, v)[i + 1] = v
      BY <3>9, <3>12, AppendProperties
    <3>14. \A j \in 1 .. i + 1 : Append(l, v)[j] = m[j]
      <4>1. ASSUME NEW j \in 1 .. i + 1
            PROVE  Append(l, v)[j] = m[j]
        <5>1. CASE j = i + 1
          BY <5>1, <3>13 DEF v
        <5>2. CASE j # i + 1
          BY <5>2, <3>9, <3>13
        <5> QED
          BY <5>1, <5>2
      <4> QED
        BY <4>1
    <3>15. off + Len(x) = h + Len(F[i + 1])
      BY <1>1, <3>5 DEF off
    <3> QED
      BY <3>11, <3>13, <3>14, <3>15 DEF ReadUpTo
  <2>2. ~(i + 1 = 0)
    OBVIOUS
  <2> HIDE DEF P
  <2> QED
    BY <2>1, <2>2
<1>12. ASSUME NEW i \in Common(s, t)
       PROVE  P(i)
  <2>1. i \in Nat
    BY <1>1, <1>2 DEF Common
  <2>2. i \in T
    <3> HIDE DEF T
    <3> QED
      BY <2>1, <1>10, <1>11, SetInduction
  <2> HIDE DEF P
  <2> QED
    BY <2>2
<1> QED
  BY <1>9, <1>12 DEF h

\* What is read behind the content of a row are zeros.
LEMMA ZeroChunk ==
  ASSUME NEW data \in Seq(Byte), NEW off \in Nat, NEW n \in Nat, NEW L \in Nat,
         L <= off, \A j \in 1 .. Len(data) : j > L => data[j] = 0,
         NEW b \in Chunk(data, off, n)
  PROVE  b \in Seq(Byte) /\ Len(b) = n /\ \A i \in 1 .. n : b[i] = 0
<1> DEFINE p == off + 1
           q == off + n
<1>1. b = SubSeq(data, p, q) /\ ~(q > Len(data))
  BY DEF Chunk
<1>2. Len(data) \in Nat
  BY LenProperties
<1>3. p \in Int /\ q \in Int /\ q <= Len(data)
  BY <1>1, <1>2
<1>4. \A i \in p .. q : data[i] \in Byte
  <2>1. \A i \in p .. q : i \in 1 .. Len(data)
    BY <1>2, <1>3
  <2> HIDE DEF p, q
  <2> QED
    BY <2>1, ElementOfSeq
<1>5. /\ b \in Seq(Byte)
      /\ Len(b) = IF p <= q THEN q - p + 1 ELSE 0
      /\ \A i \in 1 .. q - p + 1 : b[i] = data[p + i - 1]
  <2> HIDE DEF p, q
  <2> QED
    BY <1>1, <1>3, <1>4, SubSeqProperties
<1>6. Len(b) = n
  BY <1>5
<1>7. ASSUME NEW i \in 1 .. n
      PROVE  b[i] = 0
  <2>1. /\ i \in 1 .. q - p + 1 /\ p + i - 1 \in 1 .. Len(data)
        /\ p + i - 1 > L
    BY <1>2, <1>3
  <2> HIDE DEF p, q
  <2> QED
    BY <2>1, <1>5
<1> QED
  BY <1>5, <1>6, <1>7

\* A field that is read behind the content of a row is zero.
LEMMA ZeroField ==
  ASSUME NEW s \in Schemas, NEW f \in Fields,
         NEW data \in Seq(Byte), NEW off \in Nat, NEW L \in Nat,
         L <= off, \A j \in 1 .. Len(data) : j > L => data[j] = 0,
         NEW r \in GeneratedField(s, f, data, off)
  PROVE  r.val = Zero(f) /\ r.off \in Nat /\ L <= r.off
<1>0. IntBytes \in Nat /\ LenBytes \in Nat
  BY WidthsAre
<1>1. \A o \in Nat, n \in Nat : L <= o => \A b \in Chunk(data, o, n) :
        b \in Seq(Byte) /\ Len(b) = n /\ \A i \in 1 .. n : b[i] = 0
  BY ZeroChunk
<1>2. \A b : Len(b) \in Nat /\ (\A i \in 1 .. Len(b) : b[i] = 0) =>
               Unsigned(b) = 0 /\ Signed(Unsigned(b)) = 0
  BY ZeroBytes
<1>3. CASE f.type = "bool"
  <2>1. /\ FixedSize(f) = 1 /\ Zero(f) = FALSE
        /\ GeneratedField(s, f, data, off) = FixedField(f, data, off)
    BY <1>3 DEF FixedSize, Zero, GeneratedField
  <2>2. PICK b \in Chunk(data, off, 1) : r = Decoded(b[1] # 0, off + 1)
    BY <1>3, <2>1 DEF FixedField
  <2>3. b[1] = 0
    BY <1>1, <2>2
  <2>4. r.val = FALSE /\ r.off = off + 1
    BY <2>2, <2>3 DEF Decoded
  <2>5. r.off \in Nat /\ L <= r.off
    BY <2>4
  <2>6. r.val = Zero(f)
    BY <2>1, <2>4, Zenon
  <2> QED
    BY <2>5, <2>6
<1>4. CASE f.type = "int"
  <2>1. FixedSize(f) = IntBytes /\ Zero(f) = 0
    BY <1>4 DEF FixedSize, Zero
  <2>2. GeneratedField(s, f, data, off) = FixedField(f, data, off)
    BY <1>4 DEF GeneratedField
  <2>3. PICK b \in Chunk(data, off, IntBytes) :
          r = Decoded(Signed(Unsigned(b)), off + IntBytes)
    BY <1>4, <2>1, <2>2 DEF FixedField
  <2>4. Len(b) = IntBytes /\ \A i \in 1 .. IntBytes : b[i] = 0
    BY <1>0, <1>1, <2>3
  <2>5. Signed(Unsigned(b)) = 0
    BY <1>0, <1>2, <2>4
  <2>6. r.val = 0 /\ r.off = off + IntBytes
    BY <2>3, <2>5 DEF Decoded
  <2> QED
    BY <1>0, <2>1, <2>6
<1>5. CASE f.type = "string" /\ ~Compressed(s, f)
  <2> DEFINE start == off + LenBytes
             Read(g) == {Decoded(t, start + Len(t)) :
                           t \in Chunk(data, start, Unsigned(g))}
  <2>1. Zero(f) = <<>>
    BY <1>5 DEF Zero
  <2>2. GeneratedField(s, f, data, off) = PlainField(data, off)
    BY <1>5 DEF GeneratedField
  <2>3. PlainField(data, off) = UNION {Read(g) : g \in Chunk(data, off, LenBytes)}
    BY Zenon DEF PlainField
  <2>4. start \in Nat /\ L <= start
    BY <1>0
  <2> HIDE DEF Read
  <2>5. PICK g \in Chunk(data, off, LenBytes) : r \in Read(g)
    BY <2>2, <2>3
  <2>6. Len(g) = LenBytes /\ \A i \in 1 .. LenBytes : g[i] = 0
    BY <1>0, <1>1, <2>5
  <2>7. Unsigned(g) = 0
    BY <1>0, <1>2, <2>6
  <2>8. PICK t \in Chunk(data, start, 0) : r = Decoded(t, start + Len(t))
    BY <2>5, <2>7 DEF Read
  <2> HIDE DEF start
  <2>9. t \in Seq(Byte) /\ Len(t) = 0
    BY <1>1, <2>4, <2>8
  <2>10. t = <<>>
    BY <2>9, EmptySeq
  <2>11. r.val = <<>> /\ r.off = start + Len(t)
    BY <2>8, <2>10 DEF Decoded
  <2>12. r.off = start
    BY <2>4, <2>9, <2>11
  <2> QED
    BY <2>1, <2>4, <2>11, <2>12
<1>6. CASE f.type = "string" /\ Compressed(s, f)
  <2> DEFINE start == off + 2 * LenBytes
             Lens(g) ==
               [held |-> Unsigned(SubSeq(g, 1, LenBytes)),
                of   |-> Unsigned(SubSeq(g, LenBytes + 1, 2 * LenBytes))]
             Of(g, y) == {Decoded(t, start + Len(y)) :
                            t \in Inflated(y, Lens(g).of)}
             Read(g) == UNION {Of(g, y) : y \in Chunk(data, start, Lens(g).held)}
  <2>1. Zero(f) = <<>>
    BY <1>6 DEF Zero
  <2>2. GeneratedField(s, f, data, off) = ZippedField(data, off)
    BY <1>6 DEF GeneratedField
  <2>3. ZippedField(data, off) =
          UNION {Read(g) : g \in Chunk(data, off, 2 * LenBytes)}
    BY Zenon DEF ZippedField
  <2>4. start \in Nat /\ L <= start
    BY <1>0
  <2> HIDE DEF Read
  <2>5. PICK g \in Chunk(data, off, 2 * LenBytes) : r \in Read(g)
    BY <2>2, <2>3
  <2>6. g \in Seq(Byte) /\ Len(g) = 2 * LenBytes
        /\ \A i \in 1 .. 2 * LenBytes : g[i] = 0
    <3>1. 2 * LenBytes \in Nat
      BY <1>0
    <3> QED
      BY <1>1, <2>5, <3>1
  <2>7. \A a, b \in Nat : a >= 1 /\ b <= 2 * LenBytes =>
          Unsigned(SubSeq(g, a, b)) = 0
    <3>1. ASSUME NEW a \in Nat, NEW b \in Nat, a >= 1, b <= 2 * LenBytes
          PROVE  Unsigned(SubSeq(g, a, b)) = 0
      <4> DEFINE z == SubSeq(g, a, b)
      <4>1. a \in Int /\ b \in Int /\ \A i \in a .. b : g[i] \in Nat
        <5>1. \A i \in a .. b : i \in 1 .. 2 * LenBytes
          BY <1>0, <3>1
        <5> QED
          BY <2>6, <5>1
      <4>2. /\ Len(z) = IF a <= b THEN b - a + 1 ELSE 0
            /\ \A i \in 1 .. b - a + 1 : z[i] = g[a + i - 1]
        BY <4>1, SubSeqProperties
      <4> HIDE DEF z
      <4>3. Len(z) \in Nat /\ \A i \in 1 .. Len(z) : i \in 1 .. b - a + 1
        BY <4>2
      <4>4. ASSUME NEW i \in 1 .. Len(z)
            PROVE  z[i] = 0
        <5>1. i \in 1 .. b - a + 1 /\ a + i - 1 \in 1 .. 2 * LenBytes
          BY <1>0, <3>1, <4>3
        <5> QED
          BY <2>6, <4>2, <5>1
      <4> QED
        BY <1>2, <4>3, <4>4 DEF z
    <3> QED
      BY <3>1
  <2>8. Lens(g).held = 0 /\ Lens(g).of = 0
    <3>1. /\ 1 \in Nat /\ LenBytes \in Nat /\ LenBytes + 1 \in Nat
          /\ 2 * LenBytes \in Nat /\ 1 >= 1 /\ LenBytes <= 2 * LenBytes
          /\ LenBytes + 1 >= 1 /\ 2 * LenBytes <= 2 * LenBytes
      BY <1>0
    <3>2. /\ Unsigned(SubSeq(g, 1, LenBytes)) = 0
          /\ Unsigned(SubSeq(g, LenBytes + 1, 2 * LenBytes)) = 0
      BY <2>7, <3>1
    <3> QED
      BY <3>2
  <2> HIDE DEF Lens, Of
  <2>9. PICK y \in Chunk(data, start, 0) : r \in Of(g, y)
    BY <2>5, <2>8 DEF Read
  <2> HIDE DEF start
  <2>10. y \in Seq(Byte) /\ Len(y) = 0
    BY <1>1, <2>4, <2>9
  <2>11. y = <<>>
    BY <2>10, EmptySeq
  <2>12. Inflated(y, 0) = {y}
    BY <2>10 DEF Inflated
  <2>13. r = Decoded(y, start + Len(y))
    BY <2>8, <2>9, <2>12 DEF Of
  <2>14. r.val = <<>> /\ r.off = start + Len(y)
    BY <2>11, <2>13 DEF Decoded
  <2>15. r.off = start
    BY <2>4, <2>10, <2>14
  <2> QED
    BY <2>1, <2>4, <2>14, <2>15
<1>7. f.type \in {"bool", "int", "string"}
  BY DEF Fields
<1> QED
  BY <1>3, <1>4, <1>5, <1>6, <1>7

(* After k fields, if nothing went wrong: the first i values are those of m, *)
(* and if the row ends behind L bytes the others are zero.                   *)
Reached(x, s, k, m, i, zero, L) ==
  x.ok => \E off, v, X :
            /\ x = [ok |-> TRUE, off |-> off, vals |-> v]
            /\ v \in Seq(X) /\ Len(v) = k
            /\ \A j \in 1 .. i : v[j] = m[j]
            /\ zero => /\ off \in Nat /\ L <= off
                       /\ \A j \in i + 1 .. k : v[j] = Zero(s.fields[j])

\* One field more leaves the values before it alone.
LEMMA ReachedNext ==
  ASSUME NEW s \in Schemas, NEW data \in Seq(Byte), NEW m, NEW i \in Nat,
         NEW zero \in BOOLEAN, NEW L \in Nat,
         zero => \A j \in 1 .. Len(data) : j > L => data[j] = 0,
         NEW k \in Nat, i <= k, k + 1 \in 1 .. Len(s.fields),
         NEW x, Reached(x, s, k, m, i, zero, L), NEW y,
         y = DecodeNext(FALSE, s, data, x, s.fields[k + 1])
  PROVE  Reached(y, s, k + 1, m, i, zero, L)
<1> DEFINE f == s.fields[k + 1]
           d == GeneratedField(s, f, data, x.off)
<1>1. f \in Fields
  BY SchemaIs
<1> SUFFICES ASSUME y.ok
             PROVE  \E off, v, X :
                      /\ y = [ok |-> TRUE, off |-> off, vals |-> v]
                      /\ v \in Seq(X) /\ Len(v) = k + 1
                      /\ \A j \in 1 .. i : v[j] = m[j]
                      /\ zero => /\ off \in Nat /\ L <= off
                                 /\ \A j \in i + 1 .. k + 1 :
                                      v[j] = Zero(s.fields[j])
  BY Zenon DEF Reached
<1> HIDE DEF f
<1>2. Adds(y, x, d)
  <2>1. Adds(DecodeNext(FALSE, s, data, x, f), x, GeneratedField(s, f, data, x.off))
    BY NextIs, Zenon
  <2> QED
    BY <2>1 DEF f
<1> HIDE DEF d
<1>3. x.ok
  BY <1>2 DEF Adds
<1>4. PICK off, v, X :
        /\ x = [ok |-> TRUE, off |-> off, vals |-> v]
        /\ v \in Seq(X) /\ Len(v) = k
        /\ \A j \in 1 .. i : v[j] = m[j]
        /\ zero => /\ off \in Nat /\ L <= off
                   /\ \A j \in i + 1 .. k : v[j] = Zero(s.fields[j])
  BY <1>3 DEF Reached
<1>5. d # {}
  <2>1. ASSUME d = {}
        PROVE  FALSE
    <3>1. y = [x EXCEPT !.ok = FALSE]
      BY <1>2, <1>3, <2>1 DEF Adds
    <3>2. y.ok = FALSE
      BY <1>4, <3>1
    <3> QED
      BY <3>2
  <2> QED
    BY <2>1
<1>6. PICK r \in d : y = [ok |-> TRUE, off |-> r.off,
                          vals |-> Append(x.vals, r.val)]
  BY <1>2, <1>3, <1>5 DEF Adds
<1> DEFINE z == r.val
           w == Append(v, z)
<1>7. y = [ok |-> TRUE, off |-> r.off, vals |-> w]
  BY <1>4, <1>6
<1>8. w \in Seq(X \cup {z}) /\ Len(w) = k + 1
      /\ (\A j \in 1 .. k : w[j] = v[j]) /\ w[k + 1] = z
  <2>1. v \in Seq(X) /\ Len(v) = k
    BY <1>4
  <2>2. w \in Seq(X \cup {z})
    BY <2>1, SeqWider
  <2>3. v \in Seq(X \cup {z})
    BY <2>1, SeqWidens
  <2> HIDE DEF z
  <2>4. /\ Len(w) = Len(v) + 1 /\ w[Len(v) + 1] = z
        /\ \A j \in 1 .. Len(v) : w[j] = v[j]
    BY <2>3, AppendProperties
  <2> QED
    BY <2>1, <2>2, <2>4
<1>9. \A j \in 1 .. i : w[j] = m[j]
  BY <1>4, <1>8
<1>10. ASSUME zero
       PROVE  /\ r.off \in Nat /\ L <= r.off
              /\ \A j \in i + 1 .. k + 1 : w[j] = Zero(s.fields[j])
  <2>1. off \in Nat /\ L <= off /\ \A j \in i + 1 .. k : v[j] = Zero(s.fields[j])
    BY <1>4, <1>10
  <2>2. x.off = off
    BY <1>4
  <2>3. r \in GeneratedField(s, f, data, off)
    BY <1>6, <2>2 DEF d
  <2>4. z = Zero(f) /\ r.off \in Nat /\ L <= r.off
    BY <1>1, <1>10, <2>1, <2>3, ZeroField
  <2> HIDE DEF w, z
  <2>5. ASSUME NEW j \in i + 1 .. k + 1
        PROVE  w[j] = Zero(s.fields[j])
    <3>1. CASE j = k + 1
      BY <3>1, <1>8, <2>4 DEF f
    <3>2. CASE j # k + 1
      <4>1. j \in i + 1 .. k /\ j \in 1 .. k
        BY <3>2
      <4> QED
        BY <4>1, <1>8, <2>1
    <3> QED
      BY <3>1, <3>2
  <2> QED
    BY <2>4, <2>5
<1> HIDE DEF w
<1>11. w \in Seq(X \cup {z}) /\ Len(w) = k + 1
  BY <1>8
<1> HIDE DEF z, d
<1> QED
  BY <1>7, <1>9, <1>10, <1>11

\* So it stays to the last field.
LEMMA ReachedEnd ==
  ASSUME NEW s \in Schemas, NEW data \in Seq(Byte), NEW m, NEW i \in Nat,
         NEW zero \in BOOLEAN, NEW L \in Nat,
         zero => \A j \in 1 .. Len(data) : j > L => data[j] = 0,
         i <= Len(s.fields), NEW g, DecodedBy(g, FALSE, s, data),
         Reached(g[i], s, i, m, i, zero, L)
  PROVE  Reached(Decode(FALSE, s, data), s, Len(s.fields), m, i, zero, L)
<1> DEFINE n    == Len(s.fields)
           P(k) == Reached(g[k], s, k, m, i, zero, L)
           T    == {k \in Nat : i <= k /\ k <= n => P(k)}
<1>1. n \in Nat
  BY SchemaIs
<1>2. /\ Decode(FALSE, s, data) = g[n]
      /\ \A k \in 1 .. n : g[k] = DecodeNext(FALSE, s, data, g[k - 1], s.fields[k])
  BY DEF DecodedBy
<1>3. P(i)
  OBVIOUS
<1>4. ASSUME NEW k \in Nat, i <= k, k + 1 <= n, P(k)
      PROVE  P(k + 1)
  <2>1. k + 1 \in 1 .. n /\ (k + 1) - 1 = k
    BY <1>1, <1>4
  <2>2. g[k + 1] = DecodeNext(FALSE, s, data, g[k], s.fields[k + 1])
    BY <1>2, <2>1
  <2> DEFINE x == g[k]
             y == g[k + 1]
  <2>3. y = DecodeNext(FALSE, s, data, x, s.fields[k + 1])
    BY <2>2
  <2>4. Reached(x, s, k, m, i, zero, L)
    BY <1>4
  <2> HIDE DEF x, y
  <2>5. Reached(y, s, k + 1, m, i, zero, L)
    BY <1>4, <2>1, <2>3, <2>4, ReachedNext
  <2> QED
    BY <2>5 DEF y
<1> HIDE DEF P
<1>5. 0 \in T
  BY <1>3
<1>6. ASSUME NEW k \in Nat, k \in T
      PROVE  k + 1 \in T
  <2>1. ASSUME i <= k + 1, k + 1 <= n
        PROVE  P(k + 1)
    <3>1. CASE i = k + 1
      BY <3>1, <1>3
    <3>2. CASE i # k + 1
      <4>1. i <= k /\ k <= n
        BY <2>1, <3>2, <1>1
      <4> QED
        BY <2>1, <4>1, <1>4, <1>6
    <3> QED
      BY <3>1, <3>2
  <2> QED
    BY <2>1
<1>7. n \in T
  <2> HIDE DEF T
  <2> QED
    BY <1>1, <1>5, <1>6, SetInduction
<1>8. P(n)
  BY <1>1, <1>7
<1> QED
  BY <1>2, <1>8 DEF P

(* Row d holds the expiry e, then the bytes F of the fields of m, then zeros. *)
Saved(d, F, t, m, e) ==
  /\ FieldBytes(F, t, m)
  /\ d \in Seq(Byte) /\ Len(d) = Size(t, m)
  /\ Holds(d, 0, LittleEndian(e, HeaderBytes(t)))
  /\ Holds(d, HeaderBytes(t), F[Len(t.fields)])
  /\ \A j \in 1 .. Len(d) :
       j > HeaderBytes(t) + Len(F[Len(t.fields)]) => d[j] = 0

\* What Serialize makes is such a row.
LEMMA SavedIs ==
  ASSUME NEW t \in Schemas, NEW m \in Records(t), NEW e \in Int,
         NEW d, d = Serialize(t, m, e)
  PROVE  \E F : Saved(d, F, t, m, e)
<1> DEFINE c == Content(t, m, e)
           h == LittleEndian(e, HeaderBytes(t))
<1>1. PICK F : FieldBytes(F, t, m) /\ c = h \o F[Len(t.fields)]
  BY ContentIs
<1> DEFINE b == F[Len(t.fields)]
<1>2. Len(t.fields) \in 0 .. Len(t.fields) /\ HeaderBytes(t) \in Nat
  BY SchemaIs, MinSizeIs
<1>3. h \in Seq(Byte) /\ Len(h) = HeaderBytes(t)
  BY <1>2, LittleEndianIs
<1>4. b \in Seq(Byte) /\ Len(b) \in Nat
  BY <1>1, <1>2, FieldBytesAre
<1>5. /\ d \in Seq(Byte) /\ Len(d) = Size(t, m) /\ Holds(d, 0, c)
      /\ \A j \in 1 .. Len(d) : j > Len(c) => d[j] = 0
  BY RowIs
<1>6. c = h \o b
  BY <1>1
<1> HIDE DEF c, h, b
<1>7. Len(c) = HeaderBytes(t) + Len(b)
  <2>1. Len(c) = Len(h) + Len(b)
    BY <1>3, <1>4, <1>6, ConcatIs
  <2> QED
    BY <1>3, <2>1
<1>8. Holds(d, 0, h) /\ Holds(d, 0 + Len(h), b)
  <2>1. 0 \in Nat /\ Holds(d, 0, h \o b)
    BY <1>5, <1>6
  <2> QED
    BY <2>1, <1>3, <1>4, <1>5, HoldsParts
<1>9. 0 + Len(h) = HeaderBytes(t)
  BY <1>2, <1>3
<1>10. /\ Holds(d, HeaderBytes(t), b)
       /\ \A j \in 1 .. Len(d) : j > HeaderBytes(t) + Len(b) => d[j] = 0
  BY <1>5, <1>7, <1>8, <1>9
<1>11. Saved(d, F, t, m, e)
  BY <1>1, <1>5, <1>8, <1>10 DEF Saved, h, b
<1> QED
  BY <1>11

\* The expiry of a row is the one it was saved with, or none.
LEMMA ExpiryIs ==
  ASSUME NEW s \in Schemas, NEW d \in Seq(Byte), NEW e \in IntRange,
         ~s.ttl => e = 0, Holds(d, 0, LittleEndian(e, HeaderBytes(s)))
  PROVE  Expiry(s, d) = e
<1>1. IntBytes \in Nat /\ e \in Int
  BY WidthsAre DEF IntRange
<1>2. CASE s.ttl
  <2> DEFINE b == LittleEndian(e, IntBytes)
  <2>1. HeaderBytes(s) = IntBytes
    BY <1>2 DEF HeaderBytes
  <2>2. b \in Seq(Byte) /\ Len(b) = IntBytes /\ Signed(Unsigned(b)) = e
    BY SignedIs
  <2>3. Holds(d, 0, b)
    BY <2>1
  <2> HIDE DEF b
  <2>4. SubSeq(d, 0 + 1, 0 + Len(b)) = b
    BY <2>2, <2>3, ChunkIs
  <2>5. 0 + 1 = 1 /\ 0 + Len(b) = HeaderBytes(s)
    BY <1>1, <2>1, <2>2
  <2> QED
    BY <2>2, <2>4, <2>5 DEF Expiry
<1>3. CASE ~s.ttl
  <2> DEFINE b == SubSeq(d, 1, HeaderBytes(s))
  <2>1. HeaderBytes(s) = 0
    BY <1>3 DEF HeaderBytes
  <2>2. Len(b) = 0
    <3>1. 1 \in Int /\ 0 \in Int /\ \A i \in 1 .. 0 : d[i] \in Byte
      OBVIOUS
    <3>2. Len(SubSeq(d, 1, 0)) = IF 1 <= 0 THEN 0 - 1 + 1 ELSE 0
      BY <3>1, SubSeqProperties
    <3> QED
      BY <2>1, <3>2
  <2> HIDE DEF b
  <2>3. Len(b) \in Nat /\ \A i \in 1 .. Len(b) : b[i] = 0
    BY <2>2
  <2>4. Signed(Unsigned(b)) = 0
    BY <2>3, ZeroBytes
  <2> QED
    BY <1>3, <2>4 DEF Expiry, b
<1> QED
  BY <1>2, <1>3

\* A schema whose fields another one starts with needs no more room.
LEMMA MinSizeFits ==
  ASSUME NEW s \in Schemas, NEW t \in Schemas, s.compress = t.compress,
         DOMAIN s.fields = Common(s, t)
  PROVE  MinSize(s) <= MinSize(t)
<1> DEFINE k    == Len(s.fields)
           n    == Len(t.fields)
           A    == Rooms(s)
           B    == Rooms(t)
           U    == 1 .. k
           W    == 1 .. n
<1>1. k \in Nat /\ k > 0 /\ DOMAIN s.fields = 1 .. k
  BY SchemaIs
<1>2. n \in Nat /\ DOMAIN t.fields = 1 .. n
  BY SchemaIs
<1>3. (\A i \in 1 .. k : A[i] = Room(s, s.fields[i]) /\ A[i] \in Nat)
      /\ MinSize(s) = SumFunctionOnSet(A, U)
  BY MinSizeIs
<1>4. (\A i \in 1 .. n : B[i] = Room(t, t.fields[i]) /\ B[i] \in Nat)
      /\ MinSize(t) = SumFunctionOnSet(B, W)
  BY MinSizeIs
<1>5. U \subseteq W /\ \A i \in U : s.fields[i] = t.fields[i]
  <2>1. k \in Common(s, t)
    BY <1>1
  <2> QED
    BY <2>1, <1>1, <1>2 DEF Common
<1>6. \A i \in U : A[i] = B[i]
  <2>1. ASSUME NEW i \in U
        PROVE  A[i] = B[i]
    <3> DEFINE f == s.fields[i]
    <3>1. A[i] = Room(s, f) /\ B[i] = Room(t, f)
      BY <1>3, <1>4, <1>5
    <3>2. Room(s, f) = Room(t, f)
      BY SameOptions
    <3> QED
      BY <3>1, <3>2
  <2> QED
    BY <2>1
<1> HIDE DEF A, B
<1>7. IsFiniteSet(U) /\ IsFiniteSet(W) /\ IsFiniteSet(W \ U)
  <2>1. IsFiniteSet(U) /\ IsFiniteSet(W)
    BY <1>1, <1>2, FS_Interval
  <2> QED
    BY <2>1, FS_Subset
<1> HIDE DEF U, W, k, n
<1>8. SumFunctionOnSet(A, U) = SumFunctionOnSet(B, U)
  BY <1>3, <1>6, <1>7, SumSame DEF U
<1>9. \A i \in W : B[i] \in Nat
  BY <1>4 DEF W
<1>10. SumFunctionOnSet(B, W) = SumFunctionOnSet(B, U) + SumFunctionOnSet(B, W \ U)
  BY <1>5, <1>7, <1>9, SumSplit
<1>11. SumFunctionOnSet(B, U) \in Nat /\ SumFunctionOnSet(B, W \ U) \in Nat
  BY <1>5, <1>7, <1>9, SumType
<1> QED
  BY <1>3, <1>4, <1>8, <1>10, <1>11

\* What a program reads of a row that another one of the same table saved.
LEMMA ReadBack ==
  ASSUME NEW s \in Schemas, NEW t \in Schemas,
         s.ttl = t.ttl, s.compress = t.compress,
         NEW m \in Records(t), NEW e \in IntRange, ~t.ttl => e = 0,
         NEW d, d = Serialize(t, m, e)
  PROVE  /\ Common(s, t) = DOMAIN s.fields => Deserialize(s, d) # {}
         /\ \A r \in Deserialize(s, d) :
              /\ r.expiry = e
              /\ \A i \in Common(s, t) : r.record[i] = m[i]
              /\ Common(s, t) = DOMAIN t.fields =>
                   \A i \in DOMAIN s.fields \ Common(s, t) :
                     r.record[i] = Zero(s.fields[i])
<1> DEFINE k   == Len(s.fields)
           n   == Len(t.fields)
           h   == HeaderBytes(t)
           dec == Decode(FALSE, s, d)
<1>1. e \in Int
  BY DEF IntRange
<1>2. PICK F : Saved(d, F, t, m, e)
  BY <1>1, SavedIs, Zenon
<1> DEFINE L == h + Len(F[n])
<1>3. HeaderBytes(s) = HeaderBytes(t)
  BY DEF HeaderBytes
<1>4. PICK g : DecodedBy(g, FALSE, s, d)
  BY DecodeIs, Zenon
<1>5. /\ FieldBytes(F, t, m) /\ d \in Seq(Byte) /\ Len(d) = Size(t, m)
      /\ Holds(d, 0, LittleEndian(e, HeaderBytes(t)))
      /\ Holds(d, HeaderBytes(t), F[Len(t.fields)])
      /\ \A j \in 1 .. Len(d) : j > L => d[j] = 0
  BY <1>2 DEF Saved
<1>6. \A i \in Common(s, t) : ReadUpTo(g[i], i, m, h + Len(F[i]))
  BY <1>3, <1>4, <1>5, CommonDecodes
<1>7. /\ k \in Nat /\ k > 0 /\ DOMAIN s.fields = 1 .. k
      /\ n \in Nat /\ n > 0 /\ DOMAIN t.fields = 1 .. n
  BY SchemaIs
<1>8. Common(s, t) \subseteq 1 .. k \cap 1 .. n
  BY <1>7 DEF Common
<1>9. L \in Nat
  <2>1. n \in 0 .. n /\ h \in Nat
    BY <1>7, MinSizeIs
  <2>2. Len(F[n]) \in Nat
    BY <1>5, <2>1, FieldBytesAre
  <2> QED
    BY <2>1, <2>2
<1>10. dec = g[k]
  BY <1>4 DEF DecodedBy
<1> HIDE DEF dec
<1>11. ASSUME NEW i \in Common(s, t), NEW zero \in BOOLEAN, zero => i = n
       PROVE  Reached(dec, s, k, m, i, zero, L)
  <2>1. i \in Nat /\ i <= k /\ i + 1 .. i = {}
    BY <1>7, <1>8
  <2>2. PICK v \in Seq(AnyValue) :
          /\ g[i] = [ok |-> TRUE, off |-> h + Len(F[i]), vals |-> v]
          /\ Len(v) = i /\ \A j \in 1 .. i : v[j] = m[j]
    BY <1>6 DEF ReadUpTo
  <2>3. zero => h + Len(F[i]) = L
    BY <1>11
  <2> DEFINE off == h + Len(F[i])
  <2>4. zero => /\ off \in Nat /\ L <= off
                /\ \A j \in i + 1 .. i : v[j] = Zero(s.fields[j])
    BY <1>9, <2>1, <2>3
  <2>5. g[i] = [ok |-> TRUE, off |-> off, vals |-> v]
    BY <2>2
  <2> HIDE DEF off, L
  <2>6. Reached(g[i], s, i, m, i, zero, L)
    BY <2>2, <2>4, <2>5 DEF Reached
  <2>7. zero => \A j \in 1 .. Len(d) : j > L => d[j] = 0
    BY <1>5
  <2> QED
    BY <1>4, <1>5, <1>9, <2>1, <2>6, <2>7, ReachedEnd DEF dec
<1>12. ASSUME Common(s, t) = DOMAIN s.fields
       PROVE  Deserialize(s, d) # {}
  <2>1. k \in Common(s, t)
    BY <1>7, <1>12
  <2>2. dec.ok
    <3>1. PICK v : dec = [ok |-> TRUE, off |-> h + Len(F[k]), vals |-> v]
      BY <1>6, <1>10, <2>1 DEF ReadUpTo
    <3> QED
      BY <3>1
  <2>3. MinSize(s) <= MinSize(t)
    BY <1>12, MinSizeFits
  <2>4. MinSize(t) + HeaderBytes(t) <= Len(d) /\ Len(d) \in Nat
    BY <1>5, SizesAre
  <2>5. MinSize(s) \in Nat /\ MinSize(t) \in Nat /\ HeaderBytes(t) \in Nat
    BY MinSizeIs
  <2>6. ~(Len(d) < MinSize(s) + HeaderBytes(s))
    BY <1>3, <2>3, <2>4, <2>5
  <2> QED
    BY <2>2, <2>6 DEF Deserialize, dec
<1>13. ASSUME NEW r \in Deserialize(s, d)
       PROVE  /\ r.expiry = e
              /\ \A i \in Common(s, t) : r.record[i] = m[i]
              /\ Common(s, t) = DOMAIN t.fields =>
                   \A i \in DOMAIN s.fields \ Common(s, t) :
                     r.record[i] = Zero(s.fields[i])
  <2>1. dec.ok /\ r = [record |-> dec.vals, expiry |-> Expiry(s, d)]
    BY <1>13 DEF Deserialize, dec
  <2>2. r.record = dec.vals /\ r.expiry = Expiry(s, d)
    BY <2>1
  <2>3. Expiry(s, d) = e
    BY <1>3, <1>5, ExpiryIs
  <2>4. ASSUME NEW i \in Common(s, t)
        PROVE  r.record[i] = m[i]
    <3>1. Reached(dec, s, k, m, i, FALSE, L)
      BY <1>11
    <3>2. PICK off, v, X :
            /\ dec = [ok |-> TRUE, off |-> off, vals |-> v]
            /\ \A j \in 1 .. i : v[j] = m[j]
      BY <2>1, <3>1 DEF Reached
    <3>3. i \in 1 .. i /\ dec.vals = v
      BY <1>7, <1>8, <3>2
    <3> QED
      BY <2>2, <3>2, <3>3
  <2>5. ASSUME Common(s, t) = DOMAIN t.fields,
               NEW i \in DOMAIN s.fields \ Common(s, t)
        PROVE  r.record[i] = Zero(s.fields[i])
    <3>1. n \in Common(s, t) /\ i \in n + 1 .. k
      BY <1>7, <2>5
    <3>2. Reached(dec, s, k, m, n, TRUE, L)
      BY <1>11, <3>1
    <3> HIDE DEF L, k, n
    <3>3. PICK off, v, X :
            /\ dec = [ok |-> TRUE, off |-> off, vals |-> v]
            /\ \A j \in n + 1 .. k : v[j] = Zero(s.fields[j])
      BY <2>1, <3>2 DEF Reached
    <3>4. dec.vals = v
      BY <3>3
    <3> QED
      BY <2>2, <3>1, <3>3, <3>4
  <2> QED
    BY <2>2, <2>3, <2>4, <2>5
<1> QED
  BY <1>12, <1>13

\* The invariant has RowsReadBack.
LEMMA RowsRead ==
  ASSUME LayoutInv
  PROVE  RowsReadBack
<1> DEFINE t == made.schema
           m == made.record
           e == made.expiry
<1>1. /\ schema \in Schemas /\ t \in Schemas /\ m \in Records(t)
      /\ schema.ttl = t.ttl /\ schema.compress = t.compress
      /\ e \in IntRange /\ (~t.ttl => e = 0) /\ row = Serialize(t, m, e)
  BY RangesAre DEF LayoutInv
<1> HIDE DEF t, m, e
<1>2. /\ Common(schema, t) = DOMAIN schema.fields => Deserialize(schema, row) # {}
      /\ \A r \in Deserialize(schema, row) :
           /\ r.expiry = e
           /\ \A i \in Common(schema, t) : r.record[i] = m[i]
           /\ Common(schema, t) = DOMAIN t.fields =>
                \A i \in DOMAIN schema.fields \ Common(schema, t) :
                  r.record[i] = Zero(schema.fields[i])
  BY <1>1, ReadBack
<1> QED
  BY <1>2, Zenon DEF RowsReadBack, t, m, e

\* serializer.go:221-387: a row is read back as it was saved, expiry included;
\* a program compiled from a schema with more or fewer fields at the end rejects
\* it, or reads the fields both have as they were saved and the new ones as zero:
\* for any fields and values, and however often the schema changed.
THEOREM RowsReadBackAlways == Spec => []RowsReadBack
<1>1. LayoutInv => RowsReadBack
  BY RowsRead
<1> QED
  BY <1>1, LayoutInvariant, PTL
=============================================================================
