------------------------------ MODULE DataLemmas -----------------------------
(***************************************************************************)
(* Lemmas on the set of elements of a sequence and on sequences without    *)
(* repetition, for the proofs about queues and lists; on the least element *)
(* of a set of numbers and the order of its elements; on sums; on the       *)
(* digits of a number; and on concatenations.                              *)
(***************************************************************************)
EXTENDS Integers, Sequences, SequencesExt, Functions, Numbers,
        SequenceTheorems, FiniteSetTheorems, WellFoundedInduction, TLAPS

\* The empty sequence has no elements and repeats none.
LEMMA ToSetEmpty == ToSet(<<>>) = {} /\ IsInjective(<<>>)
  BY DEF ToSet, IsInjective

\* Append adds one element.
LEMMA ToSetAppend ==
  ASSUME NEW S, NEW q \in Seq(S), NEW x \in S
  PROVE  /\ ToSet(Append(q, x)) = ToSet(q) \cup {x}
         /\ IsInjective(q) /\ x \notin ToSet(q) => IsInjective(Append(q, x))
<1>1. DOMAIN q = 1 .. Len(q) /\ DOMAIN Append(q, x) = 1 .. Len(q) + 1
  BY AppendProperties, LenProperties
<1>2. \A i \in 1 .. Len(q) : Append(q, x)[i] = q[i]
  BY AppendProperties
<1>3. Append(q, x)[Len(q) + 1] = x
  BY AppendProperties
<1>4. Len(q) \in Nat
  BY LenProperties
<1> QED
  BY <1>1, <1>2, <1>3, <1>4 DEF ToSet, IsInjective

\* A sequence that is not empty has its head and the elements of its tail.
LEMMA ToSetTail ==
  ASSUME NEW S, NEW q \in Seq(S), q # <<>>
  PROVE  /\ Head(q) \in S
         /\ Tail(q) \in Seq(S)
         /\ Len(Tail(q)) = Len(q) - 1
         /\ Head(q) \in ToSet(q)
         /\ ToSet(q) = {Head(q)} \cup ToSet(Tail(q))
         /\ IsInjective(q) =>
              IsInjective(Tail(q)) /\ Head(q) \notin ToSet(Tail(q))
<1>1. Len(q) \in Nat /\ Len(q) # 0 /\ DOMAIN q = 1 .. Len(q)
  BY LenProperties, EmptySeq
<1>2. /\ Head(q) = q[1]
      /\ Tail(q) \in Seq(S)
      /\ Len(Tail(q)) = Len(q) - 1
      /\ \A i \in 1 .. Len(q) - 1 : Tail(q)[i] = q[i + 1]
  BY HeadTailProperties
<1>3. DOMAIN Tail(q) = 1 .. Len(q) - 1
  BY <1>2, LenProperties
<1>4. \A i \in 1 .. Len(q) : i = 1 \/ i - 1 \in 1 .. Len(q) - 1
  BY <1>1
<1>5. \A i \in 1 .. Len(q) : i # 1 => q[i] = Tail(q)[i - 1]
  BY <1>1, <1>2
<1>6. ToSet(q) = {Head(q)} \cup ToSet(Tail(q))
  <2>1. ASSUME NEW x \in ToSet(q)
        PROVE  x \in {Head(q)} \cup ToSet(Tail(q))
    <3>1. PICK i \in 1 .. Len(q) : x = q[i]
      BY <2>1, <1>1 DEF ToSet
    <3>2. CASE i = 1
      BY <3>1, <3>2, <1>2
    <3>3. CASE i # 1
      <4>1. i - 1 \in DOMAIN Tail(q) /\ x = Tail(q)[i - 1]
        BY <3>1, <3>3, <1>3, <1>4, <1>5
      <4> QED
        BY <4>1 DEF ToSet
    <3> QED
      BY <3>2, <3>3
  <2>2. ASSUME NEW x \in {Head(q)} \cup ToSet(Tail(q))
        PROVE  x \in ToSet(q)
    <3>1. CASE x = Head(q)
      BY <3>1, <1>1, <1>2 DEF ToSet
    <3>2. CASE x \in ToSet(Tail(q))
      <4>1. PICK i \in 1 .. Len(q) - 1 : x = Tail(q)[i]
        BY <3>2, <1>3 DEF ToSet
      <4>2. i + 1 \in DOMAIN q /\ x = q[i + 1]
        BY <4>1, <1>1, <1>2
      <4> QED
        BY <4>2 DEF ToSet
    <3> QED
      BY <2>2, <3>1, <3>2
  <2> QED
    BY <2>1, <2>2
<1>7. Head(q) \in ToSet(q) /\ Head(q) \in S
  BY <1>1, <1>2, ElementOfSeq DEF ToSet
<1>8. ASSUME IsInjective(q)
      PROVE  IsInjective(Tail(q)) /\ Head(q) \notin ToSet(Tail(q))
  BY <1>1, <1>2, <1>3, <1>8 DEF ToSet, IsInjective
<1> QED
  BY <1>2, <1>6, <1>7, <1>8

\* The elements of a sequence over S are in S.
LEMMA ToSetSubset ==
  ASSUME NEW S, NEW q \in Seq(S)
  PROVE  ToSet(q) \subseteq S
  BY ElementOfSeq, LenProperties DEF ToSet

\* A concatenation has the elements of both.
LEMMA ToSetConcat ==
  ASSUME NEW S, NEW p \in Seq(S), NEW q \in Seq(S)
  PROVE  ToSet(p \o q) = ToSet(p) \cup ToSet(q)
<1>1. /\ Len(p) \in Nat /\ DOMAIN p = 1 .. Len(p)
      /\ Len(q) \in Nat /\ DOMAIN q = 1 .. Len(q)
  BY LenProperties
<1>2. /\ DOMAIN (p \o q) = 1 .. Len(p) + Len(q)
      /\ \A i \in 1 .. Len(p) : (p \o q)[i] = p[i]
      /\ \A i \in Len(p) + 1 .. Len(p) + Len(q) : (p \o q)[i] = q[i - Len(p)]
  BY <1>1, ConcatProperties, LenProperties
<1>3. ASSUME NEW x \in ToSet(p \o q)
      PROVE  x \in ToSet(p) \cup ToSet(q)
  <2>1. PICK i \in 1 .. Len(p) + Len(q) : x = (p \o q)[i]
    BY <1>2, <1>3 DEF ToSet
  <2>2. CASE i \in 1 .. Len(p)
    BY <2>1, <2>2, <1>1, <1>2 DEF ToSet
  <2>3. CASE i \in Len(p) + 1 .. Len(p) + Len(q)
    <3>1. i - Len(p) \in DOMAIN q /\ x = q[i - Len(p)]
      BY <2>1, <2>3, <1>1, <1>2
    <3> QED
      BY <3>1 DEF ToSet
  <2> QED
    BY <2>1, <2>2, <2>3, <1>1
<1>4. ASSUME NEW x \in ToSet(p)
      PROVE  x \in ToSet(p \o q)
  <2>1. PICK i \in 1 .. Len(p) : x = p[i]
    BY <1>4, <1>1 DEF ToSet
  <2>2. i \in DOMAIN (p \o q) /\ x = (p \o q)[i]
    BY <2>1, <1>1, <1>2
  <2> QED
    BY <2>2 DEF ToSet
<1>5. ASSUME NEW x \in ToSet(q)
      PROVE  x \in ToSet(p \o q)
  <2>1. PICK i \in 1 .. Len(q) : x = q[i]
    BY <1>5, <1>1 DEF ToSet
  <2>2. i + Len(p) \in DOMAIN (p \o q) /\ x = (p \o q)[i + Len(p)]
    BY <2>1, <1>1, <1>2
  <2> QED
    BY <2>2 DEF ToSet
<1> QED
  BY <1>3, <1>4, <1>5

-----------------------------------------------------------------------------

(* Any non-empty set of natural numbers has a least element: induction, for *)
(* a set instead of a predicate.                                            *)
LEMMA LeastExists ==
  ASSUME NEW S \in SUBSET Nat, S # {}
  PROVE  \E x \in S : \A y \in S : x <= y
<1> DEFINE R == {ss \in Nat \X Nat : ss[1] < ss[2]}
<1>1. IsWellFoundedOn(R, Nat)
  BY NatLessThanWellFounded DEF OpToRel
<1> HIDE DEF R
<1>2. PICK x \in S : \A y \in S : ~(<<y, x>> \in R)
  BY <1>1, WFMin
<1>3. \A y \in S : ~(y < x)
  BY <1>2 DEF R
<1> QED
  BY <1>3

-----------------------------------------------------------------------------
(* Sums.  SumFunctionOnSet takes the elements in some order; the sum does   *)
(* not depend on it.                                                        *)

(* F gives the sum of f over every subset of S.                             *)
Additive(F, f, S) ==
  /\ F \in [SUBSET S -> Nat]
  /\ F[{}] = 0
  /\ \A s \in SUBSET S, x \in S : x \notin s => F[s \cup {x}] = f[x] + F[s]

\* A finite set has a function that sums f over its subsets.
LEMMA AdditiveExists ==
  ASSUME NEW S, IsFiniteSet(S), NEW f, \A x \in S : f[x] \in Nat
  PROVE  \E F : Additive(F, f, S)
<1> DEFINE Bad == {n \in Nat : \E T \in SUBSET S :
                      Cardinality(T) = n /\ ~\E F : Additive(F, f, T)}
<1>1. ASSUME Bad # {}
      PROVE  FALSE
  <2>1. PICK n \in Bad : \A m \in Bad : n <= m
    BY <1>1, LeastExists
  <2>2. PICK T \in SUBSET S : Cardinality(T) = n /\ ~\E F : Additive(F, f, T)
    BY <2>1
  <2>3. IsFiniteSet(T)
    BY FS_Subset
  <2>4. T # {}
    <3> DEFINE F == [s \in SUBSET {} |-> 0]
    <3>1. Additive(F, f, {})
      BY DEF Additive
    <3> QED
      BY <2>2, <3>1
  <2>5. PICK x \in T : TRUE
    BY <2>4
  <2> DEFINE U == T \ {x}
  <2>6. U \in SUBSET S /\ Cardinality(U) = n - 1 /\ n - 1 \in Nat
    BY <2>2, <2>3, <2>5, FS_RemoveElement, FS_CardinalityType, FS_EmptySet
  <2>7. n - 1 \notin Bad
    BY <2>1
  <2>8. PICK G : Additive(G, f, U)
    BY <2>6, <2>7
  <2> DEFINE F == [s \in SUBSET T |->
                     IF x \in s THEN f[x] + G[s \ {x}] ELSE G[s]]
  <2>9. Additive(F, f, T)
    <3>1. \A s \in SUBSET T : s \ {x} \in SUBSET U /\ (x \notin s => s \in SUBSET U)
      OBVIOUS
    <3>2. f[x] \in Nat
      BY <2>5
    <3> HIDE DEF U
    <3>3. F \in [SUBSET T -> Nat]
      BY <2>8, <3>1, <3>2 DEF Additive
    <3>4. F[{}] = 0
      BY <2>8 DEF Additive
    <3>5. ASSUME NEW s \in SUBSET T, NEW y \in T, y \notin s
          PROVE  F[s \cup {y}] = f[y] + F[s]
      <4>1. CASE y = x
        <5>1. (s \cup {y}) \ {x} = s /\ s \cup {y} \in SUBSET T
          BY <3>5, <4>1
        <5> QED
          BY <3>5, <4>1, <5>1
      <4>2. CASE y # x /\ x \in s
        <5>1. /\ (s \cup {y}) \ {x} = (s \ {x}) \cup {y}
              /\ s \cup {y} \in SUBSET T /\ y \in U /\ s \ {x} \in SUBSET U
              /\ y \notin s \ {x}
          BY <3>5, <4>2 DEF U
        <5>2. G[(s \ {x}) \cup {y}] = f[y] + G[s \ {x}]
          BY <2>8, <5>1 DEF Additive
        <5>3. G[s \ {x}] \in Nat /\ f[y] \in Nat
          BY <2>8, <5>1 DEF Additive
        <5>4. F[s \cup {y}] = f[x] + G[(s \ {x}) \cup {y}] /\ F[s] = f[x] + G[s \ {x}]
          BY <4>2, <5>1
        <5> QED
          BY <3>2, <5>2, <5>3, <5>4
      <4>3. CASE y # x /\ x \notin s
        <5>1. s \in SUBSET U /\ y \in U /\ s \cup {y} \in SUBSET T
          BY <3>5, <4>3 DEF U
        <5>2. G[s \cup {y}] = f[y] + G[s]
          BY <2>8, <3>5, <5>1 DEF Additive
        <5> QED
          BY <4>3, <5>1, <5>2
      <4> QED
        BY <4>1, <4>2, <4>3
    <3> QED
      BY <3>3, <3>4, <3>5 DEF Additive
  <2> QED
    BY <2>2, <2>9
<1>2. Cardinality(S) \in Nat
  BY FS_CardinalityType
<1> QED
  BY <1>1, <1>2

(* The sum over S is what any such F gives.                                 *)
LEMMA SumIsAdditive ==
  ASSUME NEW S, IsFiniteSet(S), NEW f, NEW F, Additive(F, f, S)
  PROVE  SumFunctionOnSet(f, S) = F[S]
<1> DEFINE c(s) == CHOOSE x \in s : TRUE
           Body(it) == [s \in SUBSET S |-> IF s = {} THEN 0
                                           ELSE f[c(s)] + it[s \ {c(s)}]]
           Solves(it) == it = Body(it)
           G == CHOOSE it : Solves(it)
<1>1. SumFunctionOnSet(f, S) = G[S]
  BY DEF SumFunctionOnSet, FoldFunctionOnSet, MapThenFoldSet
<1>2. \A s \in SUBSET S : s # {} =>
        c(s) \in s /\ s \ {c(s)} \in SUBSET S
  OBVIOUS
<1> HIDE DEF c
<1>3. Solves(F)
  <2>1. ASSUME NEW s \in SUBSET S
        PROVE  F[s] = IF s = {} THEN 0 ELSE f[c(s)] + F[s \ {c(s)}]
    <3>1. CASE s = {}
      BY <3>1 DEF Additive
    <3>2. CASE s # {}
      <4>1. /\ c(s) \in S /\ s \ {c(s)} \in SUBSET S /\ c(s) \notin s \ {c(s)}
            /\ (s \ {c(s)}) \cup {c(s)} = s
        BY <1>2, <3>2
      <4> QED
        BY <3>2, <4>1 DEF Additive
    <3> QED
      BY <3>1, <3>2
  <2>2. F = [s \in SUBSET S |-> F[s]]
    BY DEF Additive
  <2> QED
    BY <2>1, <2>2
<1>4. Solves(G)
  <2> HIDE DEF Solves
  <2>1. \E it : Solves(it)
    BY <1>3
  <2>2. Solves(CHOOSE it : Solves(it))
    BY <2>1, Zenon
  <2> QED
    BY <2>2
<1> HIDE DEF G
<1>5. \A s \in SUBSET S :
        G[s] = IF s = {} THEN 0 ELSE f[c(s)] + G[s \ {c(s)}]
  BY <1>4
<1>6. \A s \in SUBSET S :
        F[s] = IF s = {} THEN 0 ELSE f[c(s)] + F[s \ {c(s)}]
  BY <1>3
<1> DEFINE Bad == {n \in Nat : \E s \in SUBSET S :
                     Cardinality(s) = n /\ F[s] # G[s]}
<1>7. ASSUME Bad # {}
      PROVE  FALSE
  <2>1. PICK n \in Bad : \A m \in Bad : n <= m
    BY <1>7, LeastExists
  <2>2. PICK s \in SUBSET S : Cardinality(s) = n /\ F[s] # G[s]
    BY <2>1
  <2>3. s # {}
    BY <2>2, <1>5, <1>6
  <2>4. IsFiniteSet(s)
    BY FS_Subset
  <2> DEFINE t == s \ {c(s)}
  <2>5. t \in SUBSET S /\ Cardinality(t) = n - 1 /\ n - 1 \in Nat
    <3>1. c(s) \in s /\ t \in SUBSET S
      BY <1>2, <2>3
    <3>2. IsFiniteSet(t) /\ Cardinality(t) = Cardinality(s) - 1
      BY <3>1, <2>4, FS_RemoveElement
    <3>3. Cardinality(t) \in Nat
      BY <3>2, FS_CardinalityType
    <3> HIDE DEF t
    <3> QED
      BY <3>1, <3>2, <3>3, <2>2
  <2>6. n - 1 \notin Bad
    BY <2>1
  <2>7. F[t] = G[t]
    BY <2>5, <2>6
  <2>8. F[s] = f[c(s)] + F[t] /\ G[s] = f[c(s)] + G[t]
    BY <2>3, <1>5, <1>6
  <2> QED
    BY <2>2, <2>7, <2>8
<1>8. Cardinality(S) \in Nat
  BY FS_CardinalityType
<1>9. F[S] = G[S]
  BY <1>7, <1>8
<1> QED
  BY <1>1, <1>9

\* It gives the sum over each of them.
LEMMA SumPart ==
  ASSUME NEW S, IsFiniteSet(S), NEW f, NEW F, Additive(F, f, S),
         NEW T \in SUBSET S
  PROVE  SumFunctionOnSet(f, T) = F[T]
<1> DEFINE G == [s \in SUBSET T |-> F[s]]
<1>1. IsFiniteSet(T)
  BY FS_Subset
<1>2. Additive(G, f, T)
  <2>1. SUBSET T \subseteq SUBSET S
    OBVIOUS
  <2>2. G \in [SUBSET T -> Nat] /\ G[{}] = 0
    BY <2>1 DEF Additive
  <2>3. ASSUME NEW s \in SUBSET T, NEW x \in T, x \notin s
        PROVE  G[s \cup {x}] = f[x] + G[s]
    <3>1. s \in SUBSET S /\ x \in S /\ s \cup {x} \in SUBSET T
      BY <2>1
    <3> QED
      BY <2>3, <3>1 DEF Additive
  <2> QED
    BY <2>2, <2>3 DEF Additive
<1>3. SumFunctionOnSet(f, T) = G[T]
  BY <1>1, <1>2, SumIsAdditive
<1> QED
  BY <1>3

\* The sum over nothing.
LEMMA SumEmpty ==
  ASSUME NEW f
  PROVE  SumFunctionOnSet(f, {}) = 0
<1>1. IsFiniteSet({}) /\ \A x \in {} : f[x] \in Nat
  BY FS_EmptySet
<1>2. PICK F : Additive(F, f, {})
  BY <1>1, AdditiveExists
<1>3. SumFunctionOnSet(f, {}) = F[{}]
  BY <1>1, <1>2, SumIsAdditive
<1> QED
  BY <1>2, <1>3 DEF Additive

\* A sum of naturals is one.
LEMMA SumType ==
  ASSUME NEW S, IsFiniteSet(S), NEW f, \A x \in S : f[x] \in Nat
  PROVE  SumFunctionOnSet(f, S) \in Nat
<1>1. PICK F : Additive(F, f, S)
  BY AdditiveExists
<1>2. SumFunctionOnSet(f, S) = F[S]
  BY <1>1, SumIsAdditive
<1>3. F \in [SUBSET S -> Nat] /\ S \in SUBSET S
  BY <1>1 DEF Additive
<1> QED
  BY <1>2, <1>3

\* A new element adds its own value.
LEMMA SumAdd ==
  ASSUME NEW S, IsFiniteSet(S), NEW x, x \notin S,
         NEW f, \A y \in S \cup {x} : f[y] \in Nat
  PROVE  SumFunctionOnSet(f, S \cup {x}) = f[x] + SumFunctionOnSet(f, S)
<1>1. IsFiniteSet(S \cup {x})
  BY FS_AddElement
<1>2. PICK F : Additive(F, f, S \cup {x})
  BY <1>1, AdditiveExists
<1>3. SumFunctionOnSet(f, S \cup {x}) = F[S \cup {x}]
  BY <1>1, <1>2, SumIsAdditive
<1>4. SumFunctionOnSet(f, S) = F[S]
  <2>1. S \in SUBSET (S \cup {x})
    OBVIOUS
  <2> QED
    BY <1>1, <1>2, <2>1, SumPart
<1>5. F[S \cup {x}] = f[x] + F[S]
  <2>1. S \in SUBSET (S \cup {x}) /\ x \in S \cup {x}
    OBVIOUS
  <2> QED
    BY <1>2, <2>1 DEF Additive
<1> QED
  BY <1>3, <1>4, <1>5

\* An element takes its own value with it, which is no more than the sum.
LEMMA SumRemove ==
  ASSUME NEW S, IsFiniteSet(S), NEW x \in S, NEW f, \A y \in S : f[y] \in Nat
  PROVE  /\ SumFunctionOnSet(f, S) = f[x] + SumFunctionOnSet(f, S \ {x})
         /\ f[x] <= SumFunctionOnSet(f, S)
<1>1. IsFiniteSet(S \ {x}) /\ x \notin S \ {x} /\ (S \ {x}) \cup {x} = S
  BY FS_RemoveElement
<1>2. SumFunctionOnSet(f, (S \ {x}) \cup {x}) = f[x] + SumFunctionOnSet(f, S \ {x})
  BY <1>1, SumAdd
<1>3. SumFunctionOnSet(f, S \ {x}) \in Nat
  BY <1>1, SumType
<1>4. f[x] \in Nat
  OBVIOUS
<1>5. SumFunctionOnSet(f, S) = f[x] + SumFunctionOnSet(f, S \ {x})
  BY <1>1, <1>2
<1> QED
  BY <1>3, <1>4, <1>5

\* Functions that agree on a set have one sum over it.
LEMMA SumSame ==
  ASSUME NEW S, IsFiniteSet(S), NEW f, NEW g,
         \A x \in S : f[x] \in Nat /\ f[x] = g[x]
  PROVE  SumFunctionOnSet(f, S) = SumFunctionOnSet(g, S)
<1>1. PICK F : Additive(F, f, S)
  BY AdditiveExists
<1>2. Additive(F, g, S)
  BY <1>1 DEF Additive
<1>3. SumFunctionOnSet(f, S) = F[S] /\ SumFunctionOnSet(g, S) = F[S]
  BY <1>1, <1>2, SumIsAdditive
<1> QED
  BY <1>3

(* A sum is the sum over a part and the sum over the rest.                  *)
LEMMA SumSplit ==
  ASSUME NEW S, IsFiniteSet(S), NEW f, \A x \in S : f[x] \in Nat,
         NEW T \in SUBSET S
  PROVE  SumFunctionOnSet(f, S) =
           SumFunctionOnSet(f, T) + SumFunctionOnSet(f, S \ T)
<1> DEFINE Sum(s) == SumFunctionOnSet(f, s)
           Bad == {n \in Nat : \E U \in SUBSET S :
                     Cardinality(U) = n /\ Sum(S) # Sum(U) + Sum(S \ U)}
<1>0. \A U \in SUBSET S : IsFiniteSet(U) /\ Cardinality(U) \in Nat
  BY FS_Subset, FS_CardinalityType
<1>1. \A U \in SUBSET S : Sum(U) \in Nat
  BY <1>0, SumType
<1>2. ASSUME NEW U \in SUBSET S, NEW x \in U
      PROVE  /\ Sum(U) = f[x] + Sum(U \ {x})
             /\ Sum(S \ (U \ {x})) = f[x] + Sum(S \ U)
  <2>1. Sum(U) = f[x] + Sum(U \ {x})
    BY <1>0, SumRemove
  <2>2. S \ (U \ {x}) = (S \ U) \cup {x} /\ x \notin S \ U /\ S \ U \in SUBSET S
    OBVIOUS
  <2>3. Sum((S \ U) \cup {x}) = f[x] + Sum(S \ U)
    BY <1>0, <2>2, SumAdd
  <2> QED
    BY <2>1, <2>2, <2>3
<1>3. Sum({}) = 0
  BY SumEmpty
<1> HIDE DEF Sum
<1>4. ASSUME Bad # {}
      PROVE  FALSE
  <2>1. PICK n \in Bad : \A m \in Bad : n <= m
    BY <1>4, LeastExists
  <2>2. PICK U \in SUBSET S : Cardinality(U) = n /\ Sum(S) # Sum(U) + Sum(S \ U)
    BY <2>1
  <2>3. U # {}
    <3>1. ASSUME U = {}
          PROVE  FALSE
      <4>1. S \ U = S
        BY <3>1
      <4>2. Sum(S) \in Nat
        BY <1>1
      <4> QED
        BY <2>2, <3>1, <4>1, <4>2, <1>3
    <3> QED
      BY <3>1
  <2>4. PICK x \in U : TRUE
    BY <2>3
  <2>5. U \ {x} \in SUBSET S
    OBVIOUS
  <2>6. Cardinality(U \ {x}) = n - 1 /\ n - 1 \in Nat
    <3>1. IsFiniteSet(U \ {x}) /\ Cardinality(U \ {x}) = Cardinality(U) - 1
      BY <1>0, FS_RemoveElement
    <3>2. Cardinality(U \ {x}) \in Nat
      BY <1>0, <2>5
    <3> QED
      BY <2>2, <3>1, <3>2
  <2>7. n - 1 \notin Bad
    <3>1. n \in Nat
      OBVIOUS
    <3> HIDE DEF Bad
    <3> QED
      BY <2>1, <3>1
  <2>8. Sum(S) = Sum(U \ {x}) + Sum(S \ (U \ {x}))
    BY <2>5, <2>6, <2>7
  <2>9. Sum(U \ {x}) \in Nat /\ Sum(S \ U) \in Nat /\ f[x] \in Nat
    BY <1>1, <2>5
  <2>10. Sum(S) = Sum(U) + Sum(S \ U)
    <3> DEFINE a == Sum(U \ {x})
               b == Sum(S \ U)
    <3>1. Sum(U) = f[x] + a /\ Sum(S) = a + (f[x] + b)
      BY <1>2, <2>8
    <3>2. a \in Nat /\ b \in Nat /\ f[x] \in Nat
      BY <2>9
    <3> HIDE DEF a, b
    <3>3. a + (f[x] + b) = (f[x] + a) + b
      BY <3>2
    <3> QED
      BY <3>1, <3>3 DEF b
  <2> QED
    BY <2>2, <2>10
<1> QED
  BY <1>0, <1>4 DEF Sum

-----------------------------------------------------------------------------
(* Lists that lose elements and keep the order of the rest.                 *)

(* e stands before f in q.                                                  *)
Ahead(q, e, f) == \E i, j \in DOMAIN q : i < j /\ q[i] = e /\ q[j] = f

(* p is an injective list of elements of q, in the order of q.              *)
PartOf(p, q) ==
  /\ IsInjective(p)
  /\ Len(p) <= Len(q)
  /\ ToSet(p) \subseteq ToSet(q)
  /\ \A e, f : Ahead(p, e, f) => Ahead(q, e, f)

\* A sequence has finitely many elements.
LEMMA ToSetFinite ==
  ASSUME NEW S, NEW q \in Seq(S)
  PROVE  IsFiniteSet(ToSet(q))
<1>1. Len(q) \in Nat /\ DOMAIN q = 1 .. Len(q) /\ q \in [1 .. Len(q) -> S]
  BY LenProperties
<1>2. q \in Surjection(1 .. Len(q), ToSet(q))
  BY <1>1 DEF Surjection, ToSet
<1>3. IsFiniteSet(1 .. Len(q))
  BY <1>1, FS_Interval
<1> QED
  BY <1>2, <1>3, FS_Surjection

(* Order is kept where the positions of p are mapped into q by m.           *)
LEMMA Embedded ==
  ASSUME NEW S, NEW q \in Seq(S), IsInjective(q), NEW p \in Seq(S),
         Len(p) <= Len(q),
         NEW m \in [DOMAIN p -> DOMAIN q],
         \A i \in DOMAIN p : p[i] = q[m[i]],
         \A i, j \in DOMAIN p : i < j => m[i] < m[j]
  PROVE  PartOf(p, q)
<1>1. DOMAIN p \subseteq Nat
  BY LenProperties
<1>2. IsInjective(p)
  <2>1. ASSUME NEW i \in DOMAIN p, NEW j \in DOMAIN p, p[i] = p[j]
        PROVE  i = j
    <3>1. m[i] = m[j]
      BY <2>1 DEF IsInjective
    <3>2. ~(i < j) /\ ~(j < i)
      <4>1. m[i] \in Nat /\ m[j] \in Nat
        BY LenProperties
      <4> QED
        BY <3>1, <4>1
    <3> QED
      BY <1>1, <3>2
  <2> QED
    BY <2>1 DEF IsInjective
<1>3. ToSet(p) \subseteq ToSet(q)
  BY DEF ToSet
<1>4. ASSUME NEW e, NEW f, Ahead(p, e, f)
      PROVE  Ahead(q, e, f)
  <2>1. PICK i, j \in DOMAIN p : i < j /\ p[i] = e /\ p[j] = f
    BY <1>4 DEF Ahead
  <2>2. m[i] \in DOMAIN q /\ m[j] \in DOMAIN q /\ m[i] < m[j]
    BY <2>1
  <2> QED
    BY <2>1, <2>2 DEF Ahead
<1> QED
  BY <1>2, <1>3, <1>4 DEF PartOf

\* A part of a part is a part.
LEMMA PartOfPart ==
  ASSUME NEW S, NEW o \in Seq(S), NEW p \in Seq(S), NEW q \in Seq(S),
         PartOf(o, p), PartOf(p, q)
  PROVE  PartOf(o, q)
<1>1. Len(o) \in Nat /\ Len(p) \in Nat /\ Len(q) \in Nat
  BY LenProperties
<1>2. Len(o) <= Len(p) /\ Len(p) <= Len(q)
  BY DEF PartOf
<1>3. Len(o) <= Len(q)
  BY <1>1, <1>2
<1> QED
  BY <1>3 DEF PartOf

\* A list is part of itself.
LEMMA PartOfSelf ==
  ASSUME NEW S, NEW q \in Seq(S), IsInjective(q)
  PROVE  PartOf(q, q)
<1>1. Len(q) \in Nat
  BY LenProperties
<1> QED
  BY <1>1 DEF PartOf

\* The first n elements of a list are part of it.
LEMMA FrontPart ==
  ASSUME NEW S, NEW q \in Seq(S), IsInjective(q), NEW n \in 0 .. Len(q)
  PROVE  /\ SubSeq(q, 1, n) \in Seq(S)
         /\ Len(SubSeq(q, 1, n)) = n
         /\ ToSet(SubSeq(q, 1, n)) = {q[i] : i \in 1 .. n}
         /\ PartOf(SubSeq(q, 1, n), q)
<1> DEFINE p == SubSeq(q, 1, n)
<1>1. Len(q) \in Nat /\ DOMAIN q = 1 .. Len(q) /\ \A i \in 1 .. Len(q) : q[i] \in S
  BY LenProperties
<1>2. p \in Seq(S) /\ Len(p) = n /\ \A i \in 1 .. n : p[i] = q[i]
  BY <1>1, SubSeqProperties
<1> HIDE DEF p
<1>3. DOMAIN p = 1 .. n
  BY <1>2, LenProperties
<1>4. ToSet(p) = {q[i] : i \in 1 .. n}
  BY <1>2, <1>3 DEF ToSet
<1>5. PartOf(p, q)
  <2> DEFINE m == [i \in DOMAIN p |-> i]
  <2>1. m \in [DOMAIN p -> DOMAIN q]
    BY <1>1, <1>3
  <2>2. \A i \in DOMAIN p : p[i] = q[m[i]]
    BY <1>2, <1>3
  <2>3. \A i, j \in DOMAIN p : i < j => m[i] < m[j]
    OBVIOUS
  <2>4. Len(p) <= Len(q)
    BY <1>1, <1>2
  <2> HIDE DEF m
  <2> QED
    BY <1>2, <2>1, <2>2, <2>3, <2>4, Embedded
<1> QED
  BY <1>2, <1>4, <1>5 DEF p

\* A list without one of its elements is part of it.
LEMMA WithoutPart ==
  ASSUME NEW S, NEW q \in Seq(S), IsInjective(q), NEW k \in DOMAIN q
  PROVE  /\ RemoveAt(q, k) \in Seq(S)
         /\ ToSet(RemoveAt(q, k)) = ToSet(q) \ {q[k]}
         /\ PartOf(RemoveAt(q, k), q)
<1> DEFINE a == SubSeq(q, 1, k - 1)
           b == SubSeq(q, k + 1, Len(q))
           p == a \o b
           m == [i \in DOMAIN p |-> IF i < k THEN i ELSE i + 1]
<1>1. /\ Len(q) \in Nat /\ DOMAIN q = 1 .. Len(q) /\ k \in 1 .. Len(q)
      /\ \A i \in 1 .. Len(q) : q[i] \in S
  BY LenProperties
<1>2. a \in Seq(S) /\ Len(a) = k - 1 /\ \A i \in 1 .. k - 1 : a[i] = q[i]
  <2>1. \A i \in 1 .. k - 1 : q[i] \in S
    BY <1>1
  <2>2. k - 1 \in Int /\ 1 \in Int /\ (k - 1) - 1 + 1 = k - 1
    BY <1>1
  <2>3. /\ a \in Seq(S) /\ Len(a) = IF 1 <= k - 1 THEN (k - 1) - 1 + 1 ELSE 0
        /\ \A i \in 1 .. (k - 1) - 1 + 1 : a[i] = q[1 + i - 1]
    BY <2>1, <2>2, SubSeqProperties
  <2> HIDE DEF a
  <2> QED
    BY <2>2, <2>3, <1>1
<1>3. /\ b \in Seq(S) /\ Len(b) = Len(q) - k
      /\ \A i \in 1 .. Len(q) - k : b[i] = q[i + k]
  <2>1. \A i \in k + 1 .. Len(q) : q[i] \in S
    BY <1>1
  <2>2. k + 1 \in Int /\ Len(q) \in Int /\ Len(q) - (k + 1) + 1 = Len(q) - k
    BY <1>1
  <2>3. /\ b \in Seq(S)
        /\ Len(b) = IF k + 1 <= Len(q) THEN Len(q) - (k + 1) + 1 ELSE 0
        /\ \A i \in 1 .. Len(q) - (k + 1) + 1 : b[i] = q[(k + 1) + i - 1]
    BY <2>1, <2>2, SubSeqProperties
  <2> HIDE DEF b
  <2>4. Len(b) = Len(q) - k
    BY <2>2, <2>3, <1>1
  <2>5. ASSUME NEW i \in 1 .. Len(q) - k
        PROVE  b[i] = q[i + k]
    <3>1. (k + 1) + i - 1 = i + k
      BY <1>1
    <3> QED
      BY <2>2, <2>3, <3>1
  <2> QED
    BY <2>3, <2>4, <2>5
<1> HIDE DEF a, b
<1>4. /\ p \in Seq(S) /\ Len(p) = Len(q) - 1 /\ DOMAIN p = 1 .. Len(q) - 1
      /\ \A i \in 1 .. Len(q) - 1 : p[i] = IF i < k THEN q[i] ELSE q[i + 1]
  <2>1. /\ p \in Seq(S) /\ Len(p) = Len(a) + Len(b)
        /\ \A i \in 1 .. Len(a) + Len(b) :
             p[i] = IF i <= Len(a) THEN a[i] ELSE b[i - Len(a)]
    BY <1>2, <1>3, ConcatProperties
  <2>2. Len(a) + Len(b) = Len(q) - 1
    BY <1>1, <1>2, <1>3
  <2>3. DOMAIN p = 1 .. Len(q) - 1
    BY <2>1, <2>2, LenProperties
  <2> HIDE DEF p
  <2>4. ASSUME NEW i \in 1 .. Len(q) - 1
        PROVE  p[i] = IF i < k THEN q[i] ELSE q[i + 1]
    <3>1. CASE i < k
      <4>1. i <= Len(a) /\ i \in 1 .. k - 1
        BY <1>1, <1>2, <3>1
      <4> QED
        BY <2>1, <2>2, <3>1, <4>1, <1>2
    <3>2. CASE ~(i < k)
      <4>1. ~(i <= Len(a)) /\ i - Len(a) \in 1 .. Len(q) - k /\ (i - Len(a)) + k = i + 1
        BY <1>1, <1>2, <3>2
      <4> QED
        BY <2>1, <2>2, <3>2, <4>1, <1>3
    <3> QED
      BY <3>1, <3>2
  <2> QED
    BY <2>1, <2>2, <2>3, <2>4
<1>5. RemoveAt(q, k) = p
  BY DEF RemoveAt, a, b
<1> HIDE DEF p
<1>6. PartOf(p, q)
  <2>1. m \in [DOMAIN p -> DOMAIN q]
    BY <1>1, <1>4
  <2>2. \A i \in DOMAIN p : p[i] = q[m[i]]
    BY <1>4
  <2>3. \A i, j \in DOMAIN p : i < j => m[i] < m[j]
    BY <1>1, <1>4
  <2>4. Len(p) <= Len(q)
    BY <1>1, <1>4
  <2> HIDE DEF m
  <2> QED
    BY <1>4, <2>1, <2>2, <2>3, <2>4, Embedded
<1>7. ToSet(p) = ToSet(q) \ {q[k]}
  <2>1. ASSUME NEW i \in DOMAIN p
        PROVE  p[i] \in ToSet(q) \ {q[k]}
    <3>1. (IF i < k THEN i ELSE i + 1) \in DOMAIN q \ {k}
      BY <1>1, <1>4
    <3>2. p[i] = q[IF i < k THEN i ELSE i + 1]
      BY <1>4
    <3> QED
      BY <3>1, <3>2 DEF ToSet, IsInjective
  <2>2. ASSUME NEW i \in DOMAIN q, i # k
        PROVE  \E j \in DOMAIN p : p[j] = q[i]
    <3>1. CASE i < k
      <4>1. i \in DOMAIN p /\ p[i] = q[i]
        BY <1>1, <1>4, <3>1
      <4> QED
        BY <4>1
    <3>2. CASE ~(i < k)
      <4>1. i - 1 \in DOMAIN p /\ ~(i - 1 < k) /\ (i - 1) + 1 = i
        BY <1>1, <1>4, <2>2, <3>2
      <4>2. p[i - 1] = q[i]
        BY <1>4, <4>1
      <4> QED
        BY <4>1, <4>2
    <3> QED
      BY <3>1, <3>2
  <2> QED
    BY <2>1, <2>2 DEF ToSet
<1> QED
  BY <1>4, <1>5, <1>6, <1>7

\* A list with a new element in front has the others in their order.
LEMMA Pushed ==
  ASSUME NEW S, NEW q \in Seq(S), IsInjective(q), NEW x \in S, x \notin ToSet(q)
  PROVE  LET p == <<x>> \o q IN
         /\ p \in Seq(S)
         /\ Len(p) = Len(q) + 1
         /\ ToSet(p) = ToSet(q) \cup {x}
         /\ IsInjective(p)
         /\ \A e, f : Ahead(p, e, f) =>
              f \in ToSet(q) /\ (e = x \/ Ahead(q, e, f))
<1> DEFINE o == <<x>>
           p == o \o q
<1>1. o \in Seq(S) /\ Len(o) = 1 /\ o[1] = x
  OBVIOUS
<1> HIDE DEF o
<1>2. Len(q) \in Nat /\ DOMAIN q = 1 .. Len(q)
  BY LenProperties
<1>3. /\ p \in Seq(S) /\ Len(p) = 1 + Len(q)
      /\ \A i \in 1 .. 1 + Len(q) : p[i] = IF i <= 1 THEN o[i] ELSE q[i - 1]
  <2>1. /\ p \in Seq(S) /\ Len(p) = Len(o) + Len(q)
        /\ \A i \in 1 .. Len(o) + Len(q) :
             p[i] = IF i <= Len(o) THEN o[i] ELSE q[i - Len(o)]
    BY <1>1, ConcatProperties
  <2> HIDE DEF p
  <2> QED
    BY <1>1, <2>1
<1>4. DOMAIN p = 1 .. Len(q) + 1
  BY <1>2, <1>3, LenProperties
<1> HIDE DEF p
<1>5. /\ 1 \in DOMAIN p /\ p[1] = x
      /\ \A i \in DOMAIN p : i # 1 => i - 1 \in DOMAIN q /\ p[i] = q[i - 1]
      /\ \A i \in DOMAIN q : i + 1 \in DOMAIN p /\ p[i + 1] = q[i]
  <2>1. 1 \in DOMAIN p /\ p[1] = x
    BY <1>1, <1>2, <1>3, <1>4
  <2>2. ASSUME NEW i \in DOMAIN p, i # 1
        PROVE  i - 1 \in DOMAIN q /\ p[i] = q[i - 1]
    BY <1>2, <1>3, <1>4, <2>2
  <2>3. ASSUME NEW i \in DOMAIN q
        PROVE  i + 1 \in DOMAIN p /\ p[i + 1] = q[i]
    <3>1. i + 1 \in DOMAIN p /\ i + 1 # 1 /\ (i + 1) - 1 = i
      BY <1>2, <1>4
    <3> QED
      BY <2>2, <3>1
  <2> QED
    BY <2>1, <2>2, <2>3
<1>6. ToSet(p) = ToSet(q) \cup {x}
  BY <1>5 DEF ToSet
<1>7. IsInjective(p)
  <2>1. ASSUME NEW i \in DOMAIN p, NEW j \in DOMAIN p, p[i] = p[j]
        PROVE  i = j
    <3>1. CASE i = 1 \/ j = 1
      BY <1>5, <2>1, <3>1 DEF ToSet
    <3>2. CASE i # 1 /\ j # 1
      <4>1. i - 1 = j - 1
        BY <1>5, <2>1, <3>2 DEF IsInjective
      <4> QED
        BY <1>2, <1>4, <4>1
    <3> QED
      BY <3>1, <3>2
  <2> QED
    BY <2>1 DEF IsInjective
<1>8. ASSUME NEW e, NEW f, Ahead(p, e, f)
      PROVE  f \in ToSet(q) /\ (e = x \/ Ahead(q, e, f))
  <2>1. PICK i, j \in DOMAIN p : i < j /\ p[i] = e /\ p[j] = f
    BY <1>8 DEF Ahead
  <2>2. j # 1 /\ (i # 1 => i - 1 < j - 1)
    BY <1>2, <1>4, <2>1
  <2>3. j - 1 \in DOMAIN q /\ q[j - 1] = f
    BY <1>5, <2>1, <2>2
  <2>4. i # 1 => i - 1 \in DOMAIN q /\ q[i - 1] = e
    BY <1>5, <2>1
  <2> QED
    BY <1>5, <2>1, <2>2, <2>3, <2>4 DEF ToSet, Ahead
<1>9. Len(p) = Len(q) + 1
  BY <1>2, <1>3
<1> QED
  BY <1>3, <1>6, <1>7, <1>8, <1>9 DEF p, o

\* A set of numbers up to n that is not empty has a greatest one.
LEMMA GreatestExists ==
  ASSUME NEW n \in Nat, NEW S \in SUBSET (0 .. n), S # {}
  PROVE  Max(S) \in S /\ \A y \in S : y <= Max(S)
<1> DEFINE T == {n - x : x \in S}
<1>1. T \in SUBSET Nat /\ T # {}
  <2>1. \A x \in S : x \in 0 .. n /\ n - x \in Nat
    OBVIOUS
  <2> QED
    BY <2>1
<1>2. PICK t \in T : \A u \in T : t <= u
  BY <1>1, LeastExists
<1>3. PICK x \in S : t = n - x
  BY <1>2
<1>4. ASSUME NEW y \in S
      PROVE  x >= y
  <2>1. n - x <= n - y
    BY <1>2, <1>3
  <2>2. x \in Int /\ y \in Int
    OBVIOUS
  <2> QED
    BY <2>1, <2>2
<1>5. Max(S) \in S /\ \A y \in S : Max(S) >= y
  BY <1>4 DEF Max
<1>6. S \subseteq Int
  OBVIOUS
<1> QED
  BY <1>5, <1>6

\* The members of a finite set of numbers can be listed in their order.
LEMMA InOrder ==
  ASSUME NEW n \in Nat, NEW T \in SUBSET (1 .. n)
  PROVE  \E s \in [1 .. Cardinality(T) -> T] :
           \A j, k \in DOMAIN s : j < k => s[j] < s[k]
<1> DEFINE Listed(U) == \E s \in [1 .. Cardinality(U) -> U] :
             \A j, k \in DOMAIN s : j < k => s[j] < s[k]
           Bad == {m \in Nat : \E U \in SUBSET (1 .. m) : ~Listed(U)}
<1>1. ASSUME n \in Bad
      PROVE  FALSE
  <2>0. Bad \in SUBSET Nat /\ Bad # {}
    BY <1>1
  <2>1. PICK m \in Bad : \A l \in Bad : m <= l
    <3> HIDE DEF Bad
    <3> QED
      BY <2>0, LeastExists
  <2>2. PICK U \in SUBSET (1 .. m) : ~Listed(U)
    BY <2>1
  <2>3. m \in Nat /\ IsFiniteSet(U)
    <3>1. m \in Nat
      BY <2>0
    <3>2. IsFiniteSet(1 .. m)
      BY <3>1, FS_Interval
    <3> QED
      BY <3>1, <3>2, FS_Subset
  <2>4. U # {}
    <3> DEFINE s == [i \in 1 .. 0 |-> 0]
    <3>1. Cardinality({}) = 0
      BY FS_EmptySet
    <3>2. s \in [1 .. 0 -> {}] /\ DOMAIN s = {}
      OBVIOUS
    <3>3. Listed({})
      BY <3>1, <3>2
    <3> QED
      BY <2>2, <3>3
  <2>5. m # 0
    <3>1. PICK x \in U : x \in 1 .. m
      BY <2>4
    <3> HIDE DEF Bad
    <3> QED
      BY <3>1, <2>3
  <2>6. m - 1 \in Nat /\ m - 1 \notin Bad
    <3>1. m - 1 \in Nat /\ ~(m <= m - 1)
      BY <2>3, <2>5
    <3> HIDE DEF Bad
    <3> QED
      BY <3>1, <2>1
  <2>7. CASE m \notin U
    <3>1. U \in SUBSET (1 .. m - 1)
      BY <2>7, <2>3
    <3> QED
      BY <3>1, <2>2, <2>6
  <2>8. CASE m \in U
    <3> DEFINE V == U \ {m}
               c == Cardinality(V)
    <3>1. V \in SUBSET (1 .. m - 1)
      BY <2>3
    <3>2. Listed(V)
      BY <3>1, <2>6
    <3>3. PICK s \in [1 .. c -> V] :
            \A j, k \in DOMAIN s : j < k => s[j] < s[k]
      BY <3>2
    <3>4. Cardinality(U) = c + 1 /\ c \in Nat
      <4>1. IsFiniteSet(V) /\ c = Cardinality(U) - 1
        BY <2>8, <2>3, FS_RemoveElement
      <4>2. c \in Nat /\ Cardinality(U) \in Nat
        BY <4>1, <2>3, FS_CardinalityType
      <4> HIDE DEF c
      <4> QED
        BY <4>1, <4>2
    <3> HIDE DEF c
    <3>5. \A i \in 1 .. c : s[i] \in U /\ s[i] \in Nat /\ s[i] < m
      <4>1. \A i \in 1 .. c : s[i] \in U /\ s[i] \in 1 .. m - 1
        BY <3>1, <3>3
      <4> QED
        BY <4>1, <2>3
    <3> DEFINE t == [i \in 1 .. c + 1 |-> IF i = c + 1 THEN m ELSE s[i]]
    <3>6. t \in [1 .. c + 1 -> U] /\ DOMAIN t = 1 .. c + 1
      BY <3>4, <3>5, <2>8
    <3>7. ASSUME NEW j \in 1 .. c + 1, NEW k \in 1 .. c + 1, j < k
          PROVE  t[j] < t[k]
      <4>1. j \in 1 .. c /\ t[j] = s[j]
        BY <3>7, <3>4
      <4>2. CASE k = c + 1
        BY <4>1, <4>2, <3>5
      <4>3. CASE k # c + 1
        BY <4>1, <4>3, <3>7, <3>4, <3>3
      <4> QED
        BY <4>2, <4>3
    <3>8. Listed(U)
      BY <3>4, <3>6, <3>7
    <3> QED
      BY <3>8, <2>2
  <2> QED
    BY <2>7, <2>8
<1>2. n \notin Bad
  BY <1>1
<1> QED
  BY <1>2

-----------------------------------------------------------------------------
(* Induction and powers                                                     *)

\* Induction, for a set in the place of a predicate.
LEMMA SetInduction ==
  ASSUME NEW S, 0 \in S, \A n \in Nat : n \in S => n + 1 \in S
  PROVE  Nat \subseteq S
<1> DEFINE Bad == {n \in Nat : n \notin S}
<1>1. ASSUME Bad # {}
      PROVE  FALSE
  <2>1. Bad \in SUBSET Nat
    OBVIOUS
  <2>2. PICK n \in Bad : \A m \in Bad : n <= m
    <3> HIDE DEF Bad
    <3> QED
      BY <1>1, <2>1, LeastExists
  <2>3. n \in Nat /\ n \notin S /\ n # 0
    OBVIOUS
  <2>4. n - 1 \in Nat /\ ~(n <= n - 1)
    BY <2>3
  <2>5. n - 1 \in S
    BY <2>2, <2>4
  <2>6. n - 1 + 1 \in S
    BY <2>4, <2>5
  <2> QED
    BY <2>3, <2>6
<1> QED
  BY <1>1

IsPower(p, b)    == p = [i \in Nat |-> IF i = 0 THEN 1 ELSE b * p[i - 1]]
PartOfPower(g, b, m) ==
  /\ g \in [0 .. m -> Nat]
  /\ g[0] = 1
  /\ \A i \in 1 .. m : g[i] = b * g[i - 1]

\* Repeated multiplication is defined for every exponent.
LEMMA PowerExists ==
  ASSUME NEW b \in Nat
  PROVE  \E p : IsPower(p, b) /\ p \in [Nat -> Nat]
<1> DEFINE S == {m \in Nat : \E g : PartOfPower(g, b, m)}
<1>1. 0 \in S
  <2> DEFINE g == [i \in 0 .. 0 |-> 1]
  <2>1. PartOfPower(g, b, 0)
    BY DEF PartOfPower
  <2> QED
    BY <2>1
<1>2. ASSUME NEW m \in Nat, m \in S
      PROVE  m + 1 \in S
  <2>1. PICK g : PartOfPower(g, b, m)
    BY <1>2
  <2> DEFINE x == b * g[m]
             h == [i \in 0 .. m + 1 |-> IF i = m + 1 THEN x ELSE g[i]]
  <2>2. g[m] \in Nat /\ x \in Nat
    BY <2>1 DEF PartOfPower
  <2>3. x = b * g[m]
    OBVIOUS
  <2> HIDE DEF x
  <2>4. h \in [0 .. m + 1 -> Nat] /\ h[0] = 1
    BY <2>1, <2>2 DEF PartOfPower
  <2>5. ASSUME NEW i \in 1 .. m + 1
        PROVE  h[i] = b * h[i - 1]
    <3>1. CASE i = m + 1
      BY <3>1, <2>3
    <3>2. CASE i # m + 1
      BY <3>2, <2>1 DEF PartOfPower
    <3> QED
      BY <3>1, <3>2
  <2> HIDE DEF h
  <2>6. PartOfPower(h, b, m + 1)
    BY <2>4, <2>5 DEF PartOfPower
  <2> QED
    BY <2>6
<1>3. \A m \in Nat : \E g : PartOfPower(g, b, m)
  <2> HIDE DEF S
  <2>1. Nat \subseteq S
    BY <1>1, <1>2, SetInduction
  <2> QED
    BY <2>1 DEF S
<1>4. ASSUME NEW m \in Nat, NEW n \in Nat, NEW g, NEW h,
             PartOfPower(g, b, m), PartOfPower(h, b, n)
      PROVE  \A i \in Nat : i <= m /\ i <= n => g[i] = h[i]
  <2> DEFINE T == {i \in Nat : i <= m /\ i <= n => g[i] = h[i]}
  <2>1. 0 \in T
    BY <1>4 DEF PartOfPower
  <2>2. ASSUME NEW i \in Nat, i \in T
        PROVE  i + 1 \in T
    <3>1. ASSUME i + 1 <= m, i + 1 <= n
          PROVE  g[i + 1] = h[i + 1]
      <4>1. i + 1 \in 1 .. m /\ i + 1 \in 1 .. n /\ i + 1 - 1 = i
        BY <3>1
      <4>2. g[i + 1] = b * g[i] /\ h[i + 1] = b * h[i]
        BY <4>1, <1>4 DEF PartOfPower
      <4>3. g[i] = h[i]
        BY <2>2, <3>1
      <4> QED
        BY <4>2, <4>3
    <3> QED
      BY <3>1
  <2> HIDE DEF T
  <2>3. Nat \subseteq T
    BY <2>1, <2>2, SetInduction
  <2> QED
    BY <2>3 DEF T
<1> DEFINE G(m) == CHOOSE g : PartOfPower(g, b, m)
           p    == [i \in Nat |-> G(i)[i]]
<1>5. \A m \in Nat : PartOfPower(G(m), b, m)
  BY <1>3
<1> HIDE DEF G
<1>6. p \in [Nat -> Nat]
  <2>1. \A i \in Nat : G(i)[i] \in Nat
    BY <1>5 DEF PartOfPower
  <2> QED
    BY <2>1
<1>7. ASSUME NEW i \in Nat
      PROVE  p[i] = IF i = 0 THEN 1 ELSE b * p[i - 1]
  <2>1. CASE i = 0
    BY <2>1, <1>5 DEF PartOfPower
  <2>2. CASE i # 0
    <3>1. i \in 1 .. i /\ i - 1 \in Nat /\ i - 1 <= i
      BY <2>2
    <3>2. G(i)[i] = b * G(i)[i - 1]
      BY <1>5, <3>1 DEF PartOfPower
    <3>3. G(i)[i - 1] = G(i - 1)[i - 1]
      BY <1>4, <1>5, <3>1
    <3> QED
      BY <2>2, <3>1, <3>2, <3>3
  <2> QED
    BY <2>1, <2>2
<1>8. IsPower(p, b)
  BY <1>6, <1>7 DEF IsPower
<1> QED
  BY <1>6, <1>8

\* The first power and the next one.
LEMMA PowerIs ==
  ASSUME NEW b \in Nat
  PROVE  /\ Power(b, 0) = 1
         /\ \A n \in Nat : Power(b, n) \in Nat /\ Power(b, n + 1) = b * Power(b, n)
<1> DEFINE p == CHOOSE q : IsPower(q, b)
<1>1. \A n : Power(b, n) = p[n]
  BY Zenon DEF Power, IsPower
<1>2. IsPower(p, b)
  BY PowerExists
<1> HIDE DEF p
<1>3. p = [i \in Nat |-> IF i = 0 THEN 1 ELSE b * p[i - 1]]
  BY <1>2, Zenon DEF IsPower
<1>4. p[0] = 1 /\ \A n \in Nat : p[n + 1] = b * p[n]
  BY <1>3
<1> DEFINE S == {n \in Nat : p[n] \in Nat}
<1>5. 0 \in S
  BY <1>4
<1>6. ASSUME NEW n \in Nat, n \in S
      PROVE  n + 1 \in S
  <2>1. b * p[n] \in Nat
    BY <1>6
  <2> QED
    BY <2>1, <1>4
<1> HIDE DEF S
<1>7. Nat \subseteq S
  BY <1>5, <1>6, SetInduction
<1> QED
  BY <1>1, <1>4, <1>7 DEF S

\* Every number has a power above it.
LEMMA PowerGrows ==
  ASSUME NEW b \in Nat, b > 1
  PROVE  \A n \in Nat : n < Power(b, n)
<1> DEFINE S == {n \in Nat : n < Power(b, n)}
<1>1. 0 \in S
  BY PowerIs
<1>2. ASSUME NEW n \in Nat, n \in S
      PROVE  n + 1 \in S
  <2> DEFINE x == Power(b, n)
             y == Power(b, n + 1)
  <2>1. x \in Nat /\ n < x /\ y = b * x
    BY <1>2, PowerIs
  <2> HIDE DEF x, y
  <2>2. 2 * x <= b * x
    BY <2>1
  <2>3. n + 1 < y
    BY <2>1, <2>2
  <2> QED
    BY <2>3 DEF y
<1> HIDE DEF S
<1>3. Nat \subseteq S
  BY <1>1, <1>2, SetInduction
<1> QED
  BY <1>3 DEF S

\* No power is zero.
LEMMA PowerPositive ==
  ASSUME NEW b \in Nat, b > 0
  PROVE  \A n \in Nat : Power(b, n) > 0
<1> DEFINE S == {n \in Nat : Power(b, n) > 0}
<1>1. 0 \in S
  BY PowerIs
<1>2. ASSUME NEW n \in Nat, n \in S
      PROVE  n + 1 \in S
  <2> DEFINE x == Power(b, n)
             y == Power(b, n + 1)
  <2>1. x \in Nat /\ 0 < x /\ y = b * x
    BY <1>2, PowerIs
  <2> HIDE DEF x, y
  <2>2. 0 < y
    BY <2>1
  <2> QED
    BY <2>2 DEF y
<1> HIDE DEF S
<1>3. Nat \subseteq S
  BY <1>1, <1>2, SetInduction
<1> QED
  BY <1>3 DEF S

-----------------------------------------------------------------------------
(* Digits                                                                   *)

\* What the provers know of quotients and remainders.
LEMMA Division ==
  ASSUME NEW n \in Nat, NEW b \in Nat, b > 0
  PROVE  /\ n \div b \in Nat /\ n % b \in 0 .. b - 1
         /\ n = b * (n \div b) + (n % b)
         /\ n < b => n \div b = 0 /\ n % b = n
         /\ \A a \in Nat : a > 0 => (n \div b) \div a = n \div (a * b)
         /\ \A m \in Nat : m <= n => m \div b <= n \div b
         /\ \A a \in Nat : n < a * b => n \div b < a
  BY SMT

\* The quotients of a number by the powers of a base.
LEMMA Quotients ==
  ASSUME NEW b \in Nat, b > 0, NEW n \in Nat, NEW k \in Nat
  PROVE  /\ n \div Power(b, 0) = n
         /\ n \div Power(b, k) \in Nat
         /\ n \div Power(b, k) =
              b * (n \div Power(b, k + 1)) + ((n \div Power(b, k)) % b)
         /\ n < Power(b, k) => n \div Power(b, k) = 0
         /\ n < Power(b, k + 1) => n \div Power(b, k) < b
         /\ \A m \in Nat : m <= n => m \div Power(b, k) <= n \div Power(b, k)
<1> DEFINE x == Power(b, k)
           y == Power(b, k + 1)
           q == n \div x
<1>1. x \in Nat /\ x > 0 /\ y = b * x /\ Power(b, 0) = 1
  BY PowerIs, PowerPositive
<1>2. n \div 1 = n
  BY SMT
<1> HIDE DEF x, y
<1>3. q \in Nat /\ q \div b = n \div y
  BY <1>1, Division
<1>4. q = b * (q \div b) + (q % b)
  <2> HIDE DEF q
  <2> QED
    BY <1>3, Division
<1>5. /\ n < x => q = 0
      /\ n < y => q < b
      /\ \A m \in Nat : m <= n => m \div x <= q
  BY <1>1, Division
<1> QED
  BY <1>1, <1>2, <1>3, <1>4, <1>5 DEF x, y

\* One digit more of a number.
LEMMA LowDigits ==
  ASSUME NEW b \in Nat, b > 0, NEW x \in Nat, x > 0, NEW n \in Nat
  PROVE  n % (b * x) = (n % x) + ((n \div x) % b) * x
<1> DEFINE q == n \div x
           r == n % x
           s == q \div b
           d == q % b
           y == b * x
<1>1. q \in Nat /\ r \in 0 .. x - 1 /\ n = x * q + r
  BY Division
<1>2. y \in Nat /\ y > 0
  BY SMT
<1>3. n \div y = s
  <2>1. (n \div x) \div b = n \div (b * x)
    BY Division
  <2> QED
    BY <2>1
<1>4. n % y \in 0 .. y - 1 /\ n = y * (n \div y) + (n % y)
  <2> HIDE DEF y
  <2> QED
    BY <1>2, Division
<1> DEFINE z == n % y
<1>5. s \in Nat /\ d \in Nat /\ q = b * s + d
  <2> HIDE DEF q
  <2> QED
    BY <1>1, Division
<1>6. z \in Nat /\ n = y * s + z
  BY <1>2, <1>3, <1>4
<1>7. y = b * x
  OBVIOUS
<1> HIDE DEF q, r, s, d, y, z
<1>8. x * q = y * s + d * x
  <2>1. x * q = x * (b * s + d)
    BY <1>5
  <2>2. x * (b * s + d) = x * (b * s) + x * d
    BY <1>5
  <2>3. x * (b * s) = (b * x) * s /\ x * d = d * x
    BY <1>5
  <2> QED
    BY <2>1, <2>2, <2>3, <1>7
<1>9. y * s \in Nat /\ d * x \in Nat
  BY <1>2, <1>5
<1>10. z = r + d * x
  BY <1>1, <1>6, <1>8, <1>9
<1> QED
  BY <1>10 DEF q, r, d, y, z

\* The digits of a number.
LEMMA ToDigitsIs ==
  ASSUME NEW b \in Nat, b > 0, NEW n \in Nat, NEW w \in Nat
  PROVE  /\ ToDigits(n, b, w) \in Seq(0 .. b - 1)
         /\ Len(ToDigits(n, b, w)) = w
         /\ \A i \in 1 .. w : ToDigits(n, b, w)[i] = (n \div Power(b, i - 1)) % b
<1>1. \A i \in 1 .. w : ToDigits(n, b, w)[i] = (n \div Power(b, i - 1)) % b
  BY DEF ToDigits
<1>2. ASSUME NEW i \in 1 .. w
      PROVE  (n \div Power(b, i - 1)) % b \in 0 .. b - 1
  <2>1. i - 1 \in Nat
    OBVIOUS
  <2>2. n \div Power(b, i - 1) \in Nat
    BY <2>1, Quotients
  <2> QED
    BY <2>2, Division
<1>3. ToDigits(n, b, w) \in [1 .. w -> 0 .. b - 1]
  BY <1>2 DEF ToDigits
<1>4. ToDigits(n, b, w) \in Seq(0 .. b - 1)
  BY <1>3, SeqDef
<1> QED
  BY <1>1, <1>3, <1>4, LenProperties

\* The digits of a number give it back, up to their width.
LEMMA FromDigitsIs ==
  ASSUME NEW b \in Nat, b > 0, NEW n \in Nat, NEW w \in Nat,
         NEW d, Len(d) = w,
         \A i \in 1 .. w : d[i] = (n \div Power(b, i - 1)) % b
  PROVE  FromDigits(d, b) = n % Power(b, w)
<1> DEFINE Body(v) == [i \in 0 .. Len(d) |->
                        IF i = 0 THEN 0
                        ELSE v[i - 1] + d[i] * Power(b, i - 1)]
           R(v)  == v = Body(v)
           V     == CHOOSE v : R(v)
           v0    == [i \in 0 .. Len(d) |-> n % Power(b, i)]
<1>1. FromDigits(d, b) = V[Len(d)]
  BY Zenon DEF FromDigits
<1>2. \A k \in Nat : /\ Power(b, k) \in Nat /\ Power(b, k) > 0
                     /\ Power(b, k + 1) = b * Power(b, k)
  BY PowerIs, PowerPositive
<1>3. ASSUME NEW i \in 1 .. w
      PROVE  n % Power(b, i) = (n % Power(b, i - 1)) + d[i] * Power(b, i - 1)
  <2> DEFINE x == Power(b, i - 1)
  <2>1. i - 1 \in Nat /\ i - 1 + 1 = i
    OBVIOUS
  <2>2. x \in Nat /\ x > 0 /\ Power(b, i) = b * x
    BY <2>1, <1>2
  <2> HIDE DEF x
  <2>3. n % (b * x) = (n % x) + ((n \div x) % b) * x
    BY <2>2, LowDigits
  <2>4. d[i] = (n \div x) % b
    BY DEF x
  <2> QED
    BY <2>2, <2>3, <2>4 DEF x
<1>4. n % Power(b, 0) = 0
  <2>1. Power(b, 0) = 1
    BY PowerIs
  <2>2. n % 1 = 0
    BY SMT
  <2> QED
    BY <2>1, <2>2
<1>5. R(v0)
  <2>1. ASSUME NEW i \in 0 .. Len(d)
        PROVE  v0[i] = Body(v0)[i]
    <3>1. CASE i = 0
      BY <3>1, <1>4
    <3>2. CASE i # 0
      <4>1. i \in 1 .. w /\ i - 1 \in 0 .. Len(d)
        BY <3>2
      <4>2. v0[i] = n % Power(b, i) /\ v0[i - 1] = n % Power(b, i - 1)
        BY <4>1
      <4>3. Body(v0)[i] = v0[i - 1] + d[i] * Power(b, i - 1)
        BY <3>2
      <4> QED
        BY <4>1, <4>2, <4>3, <1>3
    <3> QED
      BY <3>1, <3>2
  <2> QED
    BY <2>1
<1>6. R(V)
  <2> HIDE DEF v0, R
  <2> QED
    BY <1>5
<1> HIDE DEF V
<1>7. V[0] = 0 /\ \A i \in 1 .. w : V[i] = V[i - 1] + d[i] * Power(b, i - 1)
  <2>1. V = Body(V)
    BY <1>6
  <2>2. 0 \in 0 .. Len(d) /\ \A i \in 1 .. w : i \in 0 .. Len(d) /\ i # 0
    OBVIOUS
  <2>3. \A i \in 0 .. Len(d) : V[i] = Body(V)[i]
    BY <2>1
  <2> QED
    BY <2>2, <2>3
<1> DEFINE S == {i \in Nat : i <= w => V[i] = n % Power(b, i)}
<1>8. 0 \in S
  BY <1>4, <1>7
<1>9. ASSUME NEW i \in Nat, i \in S
      PROVE  i + 1 \in S
  <2>1. ASSUME i + 1 <= w
        PROVE  V[i + 1] = n % Power(b, i + 1)
    <3>1. i + 1 \in 1 .. w /\ i + 1 - 1 = i /\ i <= w
      BY <2>1
    <3>2. V[i + 1] = V[i] + d[i + 1] * Power(b, i)
      BY <3>1, <1>7
    <3>3. n % Power(b, i + 1) = (n % Power(b, i)) + d[i + 1] * Power(b, i)
      BY <3>1, <1>3
    <3> QED
      BY <3>1, <3>2, <3>3, <1>9
  <2> QED
    BY <2>1
<1> HIDE DEF S
<1>10. Nat \subseteq S
  BY <1>8, <1>9, SetInduction
<1> QED
  BY <1>1, <1>10 DEF S
-----------------------------------------------------------------------------
(* Concatenations                                                           *)

\* Both parts of a concatenation are found in it.
LEMMA ConcatIs ==
  ASSUME NEW S, NEW s \in Seq(S), NEW t \in Seq(S)
  PROVE  /\ s \o t \in Seq(S) /\ Len(s \o t) = Len(s) + Len(t)
         /\ Len(s) \in Nat /\ Len(t) \in Nat
         /\ \A i \in 1 .. Len(s) : (s \o t)[i] = s[i]
         /\ \A i \in 1 .. Len(t) : (s \o t)[Len(s) + i] = t[i]
         /\ SubSeq(s \o t, 1, Len(s)) = s
         /\ SubSeq(s \o t, Len(s) + 1, Len(s) + Len(t)) = t
<1>1. Len(s) \in Nat /\ Len(t) \in Nat
  BY LenProperties
<1>2. s \o t \in Seq(S) /\ Len(s \o t) = Len(s) + Len(t)
  BY ConcatProperties
<1>3. \A i \in 1 .. Len(s) : (s \o t)[i] = s[i]
  BY <1>1, ConcatProperties
<1>4. ASSUME NEW i \in 1 .. Len(t)
      PROVE  (s \o t)[Len(s) + i] = t[i]
  <2>1. /\ Len(s) + i \in 1 .. Len(s) + Len(t)
        /\ ~(Len(s) + i <= Len(s)) /\ Len(s) + i - Len(s) = i
    BY <1>1
  <2> QED
    BY <2>1, ConcatProperties
<1>5. \A i \in 1 .. Len(s) + Len(t) : (s \o t)[i] \in S
  BY <1>2, ElementOfSeq
<1>6. SubSeq(s \o t, 1, Len(s)) = s
  <2> DEFINE p == SubSeq(s \o t, 1, Len(s))
  <2>1. \A i \in 1 .. Len(s) : (s \o t)[i] \in S
    BY <1>1, <1>5
  <2>2. /\ p \in Seq(S)
        /\ Len(p) = IF 1 <= Len(s) THEN Len(s) - 1 + 1 ELSE 0
        /\ \A i \in 1 .. Len(s) - 1 + 1 : p[i] = (s \o t)[1 + i - 1]
    BY <1>1, <2>1, SubSeqProperties
  <2> HIDE DEF p
  <2>3. Len(p) = Len(s) /\ \A i \in 1 .. Len(s) : p[i] = s[i]
    BY <1>1, <1>3, <2>2
  <2>4. p = s
    BY <2>2, <2>3, SeqEqual
  <2> QED
    BY <2>4 DEF p
<1>7. SubSeq(s \o t, Len(s) + 1, Len(s) + Len(t)) = t
  <2> DEFINE m == Len(s) + 1
             n == Len(s) + Len(t)
             p == SubSeq(s \o t, m, n)
  <2>1. m \in Int /\ n \in Int /\ \A i \in m .. n : (s \o t)[i] \in S
    BY <1>1, <1>5
  <2>2. /\ p \in Seq(S)
        /\ Len(p) = IF m <= n THEN n - m + 1 ELSE 0
        /\ \A i \in 1 .. n - m + 1 : p[i] = (s \o t)[m + i - 1]
    <3> DEFINE q == s \o t
    <3>1. \A i \in m .. n : q[i] \in S
      BY <2>1
    <3> HIDE DEF m, n, q
    <3>2. /\ SubSeq(q, m, n) \in Seq(S)
          /\ Len(SubSeq(q, m, n)) = IF m <= n THEN n - m + 1 ELSE 0
          /\ \A i \in 1 .. n - m + 1 : SubSeq(q, m, n)[i] = q[m + i - 1]
      BY <2>1, <3>1, SubSeqProperties
    <3> QED
      BY <3>2 DEF q
  <2> HIDE DEF p
  <2>3. Len(p) = Len(t)
    BY <1>1, <2>2
  <2>4. ASSUME NEW i \in 1 .. Len(t)
        PROVE  p[i] = t[i]
    <3>1. i \in 1 .. n - m + 1 /\ m + i - 1 = Len(s) + i
      BY <1>1
    <3> QED
      BY <3>1, <2>2, <1>4
  <2>5. p = t
    BY <2>2, <2>3, <2>4, SeqEqual
  <2> QED
    BY <2>5 DEF p
<1> QED
  BY <1>1, <1>2, <1>3, <1>4, <1>6, <1>7

\* A sequence continues each of its prefixes.
LEMMA PrefixIs ==
  ASSUME NEW S, NEW s \in Seq(S), NEW t \in Seq(S), IsPrefix(s, t)
  PROVE  \E r \in Seq(S) : t = s \o r
<1>1. Len(s) \in Nat /\ Len(t) \in Nat /\ Len(s) <= Len(t)
  BY LenProperties DEF IsPrefix
<1>2. s = SubSeq(t, 1, Len(s))
  <2>1. SubSeq(s, 1, Len(s)) = s
    BY SubSeqFull
  <2> QED
    BY <2>1 DEF IsPrefix
<1> DEFINE r == SubSeq(t, Len(s) + 1, Len(t))
<1>3. SubSeq(t, 1, Len(s)) \o r = SubSeq(t, 1, Len(t))
  <2>1. /\ 1 \in 1 .. Len(t) + 1 /\ Len(s) \in 1 - 1 .. Len(t)
        /\ Len(t) \in Len(s) .. Len(t)
    BY <1>1
  <2> QED
    BY <2>1, ConcatAdjacentSubSeq
<1>4. SubSeq(t, 1, Len(t)) = t
  BY SubSeqFull
<1>5. r \in Seq(S)
  <2>1. \A i \in Len(s) + 1 .. Len(t) : t[i] \in S
    BY <1>1, ElementOfSeq
  <2>2. Len(s) + 1 \in Int /\ Len(t) \in Int
    BY <1>1
  <2> QED
    BY <2>1, <2>2, SubSeqProperties
<1> HIDE DEF r
<1> QED
  BY <1>2, <1>3, <1>4, <1>5

\* The first part of a concatenation is a prefix of it.
LEMMA PrefixOfConcat ==
  ASSUME NEW S, NEW s \in Seq(S), NEW t \in Seq(S)
  PROVE  IsPrefix(s, s \o t)
<1>1. /\ SubSeq(s \o t, 1, Len(s)) = s /\ SubSeq(s, 1, Len(s)) = s
      /\ Len(s) <= Len(s \o t)
  BY ConcatIs, SubSeqFull
<1> QED
  BY <1>1 DEF IsPrefix

\* What stands between two sequences is found at its place.
LEMMA ConcatMiddle ==
  ASSUME NEW S, NEW s \in Seq(S), NEW t \in Seq(S), NEW u \in Seq(S)
  PROVE  SubSeq((s \o t) \o u, Len(s) + 1, Len(s) + Len(t)) = t
<1> DEFINE m == Len(s) + 1
           n == Len(s) + Len(t)
           p == s \o t
<1>1. /\ p \in Seq(S) /\ Len(p) = n /\ Len(s) \in Nat /\ Len(t) \in Nat
      /\ SubSeq(p, m, n) = t
  BY ConcatIs
<1>2. CASE Len(t) = 0
  <2>1. n \in Int /\ m \in Int /\ n < m
    BY <1>1, <1>2
  <2> HIDE DEF m, n, p
  <2>2. SubSeq(p \o u, m, n) = <<>> /\ SubSeq(p, m, n) = <<>>
    BY <2>1, SubSeqEmpty
  <2> QED
    BY <2>2, <1>1 DEF m, n, p
<1>3. CASE Len(t) # 0
  <2>1. m \in 1 .. n /\ n \in 1 .. n
    BY <1>1, <1>3
  <2> HIDE DEF m, n, p
  <2>2. SubSeq(p \o u, m, n) = SubSeq(p, m, n)
    BY <2>1, <1>1, SubSeqOfConcat1
  <2> QED
    BY <2>2, <1>1 DEF m, n, p
<1> QED
  BY <1>2, <1>3
=============================================================================
