---------------------------- MODULE CacheProofs -----------------------------
(***************************************************************************)
(* What TLAPS proves of the hot cache and of the sketch that advises it,   *)
(* for any number of keys, entries, getters and recorders, any sizes,      *)
(* limits and times, and any hashes.                                       *)
(***************************************************************************)
EXTENDS HotCache, FrequencySketch, DataLemmas

-----------------------------------------------------------------------------
(* The hot cache: the inductive invariant                                   *)

Times   == 0 .. MaxTime
Structs ==
  [key : Keys \cup {None}, size : Sizes \cup {0}, expiresAt : 0 .. MaxTime + TTL]
Gets    ==
  {Idle} \cup [at : {"hit"}, ent : Entries, now : Times]
         \cup [at : {"expired"}, key : Keys, now : Times]

SizesOf(en) == [e \in Entries |-> en[e].size]

(* The map c, the list q, the byte count b and the entries en agree.        *)
Agree(c, q, b, en) ==
  /\ c \in [Keys -> Entries \cup {None}]
  /\ q \in Seq(Entries) /\ IsInjective(q)
  /\ en \in [Entries -> Structs]
  /\ \A e \in ToSet(q) : en[e].key \in Keys /\ c[en[e].key] = e
  /\ \A k \in Keys : c[k] # None => c[k] \in ToSet(q) /\ en[c[k]].key = k
  /\ b = SumFunctionOnSet(SizesOf(en), ToSet(q))

GetsOK ==
  /\ get \in [Getters -> Gets]
  /\ \A g \in Getters : get[g] # Idle => get[g].now <= clock

(* No entry expires later than one pushed now would, nor later than one     *)
(* nearer the front, nor than a Get in progress will make one nearer the    *)
(* front, unless it was itself renewed.                                     *)
Aged ==
  /\ renewed \subseteq Listed
  /\ \A e \in Listed : entry[e].expiresAt <= clock + TTL
  /\ \A e, f \in Listed : Ahead(lru, e, f) /\ f \notin renewed =>
       entry[f].expiresAt <= entry[e].expiresAt
  /\ \A g \in Getters : get[g].at = "hit" =>
       \A f \in Listed : f \notin renewed /\ (f = get[g].ent \/ Ahead(lru, get[g].ent, f))
         => entry[f].expiresAt <= get[g].now + TTL

CacheInv ==
  /\ clock \in Times
  /\ running \in BOOLEAN
  /\ Agree(cache, lru, curBytes, entry)
  /\ GetsOK
  /\ Aged
  /\ BudgetKept

-----------------------------------------------------------------------------
\* Entries have sizes that can be summed.
LEMMA SizesAreNat ==
  ASSUME NEW en \in [Entries -> Structs]
  PROVE  \A e \in Entries : SizesOf(en)[e] \in Nat
<1>1. Sizes \cup {0} \subseteq Nat
  BY CacheAssumption
<1>2. ASSUME NEW e \in Entries
      PROVE  SizesOf(en)[e] \in Nat
  <2>1. en[e] \in Structs
    OBVIOUS
  <2>2. en[e].size \in Sizes \cup {0}
    BY <2>1 DEF Structs
  <2>3. SizesOf(en)[e] = en[e].size
    BY DEF SizesOf
  <2> QED
    BY <1>1, <2>2, <2>3
<1> QED
  BY <1>2

\* When all but a part of the list leaves, map and byte count follow.
LEMMA AgreeLeave ==
  ASSUME Agree(cache, lru, curBytes, entry),
         NEW p \in Seq(Entries), PartOf(p, lru)
  PROVE  /\ Agree(Unmapped(p), p, BytesLeft(p), Blanked(p))
         /\ BytesLeft(p) \in Nat /\ BytesLeft(p) <= curBytes
         /\ p = <<>> => BytesLeft(p) = 0
<1> DEFINE f == SizesOf(entry)
<1>0. /\ cache \in [Keys -> Entries \cup {None}] /\ lru \in Seq(Entries)
      /\ entry \in [Entries -> Structs] /\ None \notin Entries
      /\ ToSet(lru) \subseteq Entries /\ ToSet(p) \subseteq ToSet(lru)
      /\ IsInjective(p)
  BY CacheAssumption, ToSetSubset DEF Agree, PartOf
<1>1. IsFiniteSet(ToSet(lru)) /\ IsFiniteSet(ToSet(p)) /\ IsFiniteSet(Gone(p))
  <2>1. IsFiniteSet(ToSet(lru)) /\ IsFiniteSet(ToSet(p))
    BY <1>0, ToSetFinite
  <2>2. Gone(p) \in SUBSET ToSet(lru)
    BY DEF Gone, Listed
  <2> QED
    BY <2>1, <2>2, FS_Subset
<1>2. \A e \in Entries : f[e] \in Nat
  BY <1>0, SizesAreNat
<1>3. Total(Gone(p)) = SumFunctionOnSet(f, Gone(p))
  BY DEF Total, SizesOf
<1> HIDE DEF f
<1>4. /\ SumFunctionOnSet(f, ToSet(lru)) =
           SumFunctionOnSet(f, ToSet(p)) + SumFunctionOnSet(f, Gone(p))
      /\ SumFunctionOnSet(f, ToSet(p)) \in Nat
      /\ SumFunctionOnSet(f, Gone(p)) \in Nat
  <2>1. Gone(p) = ToSet(lru) \ ToSet(p) /\ Gone(p) \subseteq Entries
    BY <1>0 DEF Gone, Listed
  <2>2. /\ \A e \in ToSet(lru) : f[e] \in Nat
        /\ \A e \in ToSet(p) : f[e] \in Nat
        /\ \A e \in Gone(p) : f[e] \in Nat
    BY <1>0, <1>2, <2>1
  <2>3. ToSet(p) \in SUBSET ToSet(lru)
    BY <1>0
  <2>4. SumFunctionOnSet(f, ToSet(lru)) =
           SumFunctionOnSet(f, ToSet(p)) + SumFunctionOnSet(f, ToSet(lru) \ ToSet(p))
    BY <1>1, <2>2, <2>3, SumSplit
  <2> QED
    BY <1>1, <2>1, <2>2, <2>4, SumType
<1>5. BytesLeft(p) = SumFunctionOnSet(f, ToSet(p))
  <2>1. curBytes = SumFunctionOnSet(f, ToSet(lru))
    BY DEF Agree, f
  <2> QED
    BY <1>3, <1>4, <2>1 DEF BytesLeft
<1>6. SumFunctionOnSet(f, ToSet(p)) = SumFunctionOnSet(SizesOf(Blanked(p)), ToSet(p))
  <2>1. ASSUME NEW e \in ToSet(p)
        PROVE  f[e] \in Nat /\ f[e] = SizesOf(Blanked(p))[e]
    <3>1. e \in Entries /\ e \notin Gone(p)
      BY <1>0 DEF Gone
    <3> QED
      BY <1>2, <3>1 DEF SizesOf, Blanked, f
  <2> QED
    BY <1>1, <2>1, SumSame
<1>7. Unmapped(p) \in [Keys -> Entries \cup {None}]
  BY <1>0 DEF Unmapped
<1>8. Blanked(p) \in [Entries -> Structs]
  <2>1. Blank \in Structs
    BY CacheAssumption DEF Blank, Structs
  <2> QED
    BY <1>0, <2>1 DEF Blanked
<1>9. ASSUME NEW e \in ToSet(p)
      PROVE  /\ Blanked(p)[e] = entry[e] /\ entry[e].key \in Keys
             /\ Unmapped(p)[entry[e].key] = e
  <2>1. e \in Listed /\ e \in Entries /\ e \notin Gone(p)
    BY <1>0 DEF Gone, Listed
  <2>2. entry[e].key \in Keys /\ cache[entry[e].key] = e
    BY <2>1 DEF Agree, Listed
  <2>3. ASSUME NEW x \in Gone(p), entry[x].key = entry[e].key
        PROVE  FALSE
    <3>1. cache[entry[x].key] = x
      BY DEF Gone, Listed, Agree
    <3> QED
      BY <2>1, <2>2, <2>3, <3>1
  <2> QED
    BY <2>1, <2>2, <2>3 DEF Blanked, Unmapped
<1>10. ASSUME NEW k \in Keys, Unmapped(p)[k] # None
       PROVE  Unmapped(p)[k] \in ToSet(p) /\ Blanked(p)[Unmapped(p)[k]].key = k
  <2>1. Unmapped(p)[k] = cache[k] /\ ~\E e \in Gone(p) : entry[e].key = k
    BY <1>10 DEF Unmapped
  <2>2. cache[k] \in ToSet(lru) /\ entry[cache[k]].key = k
    BY <1>10, <2>1 DEF Agree
  <2>3. cache[k] \in ToSet(p)
    BY <2>1, <2>2 DEF Gone, Listed
  <2> QED
    BY <1>9, <2>1, <2>2, <2>3
<1>11. p = <<>> => BytesLeft(p) = 0
  BY <1>5, ToSetEmpty, SumEmpty
<1>12. BytesLeft(p) \in Nat /\ BytesLeft(p) <= curBytes
  <2>1. curBytes = SumFunctionOnSet(f, ToSet(lru))
    BY DEF Agree, f
  <2> QED
    BY <1>4, <1>5, <2>1
<1>13. Agree(Unmapped(p), p, BytesLeft(p), Blanked(p))
  BY <1>0, <1>5, <1>6, <1>7, <1>8, <1>9, <1>10 DEF Agree
<1> QED
  BY <1>11, <1>12, <1>13

\* A new entry in front is in map, list and byte count.
LEMMA AgreePush ==
  ASSUME NEW c, NEW q, NEW b, NEW en, Agree(c, q, b, en),
         NEW e \in Entries, e \notin ToSet(q),
         NEW k \in Keys, c[k] = None,
         NEW size \in Sizes, NEW x \in 0 .. MaxTime + TTL
  PROVE  Agree([c EXCEPT ![k] = e], <<e>> \o q, b + size,
               [en EXCEPT ![e] = [key |-> k, size |-> size, expiresAt |-> x]])
<1> DEFINE r == [key |-> k, size |-> size, expiresAt |-> x]
           d == [c EXCEPT ![k] = e]
           p == <<e>> \o q
           fn == [en EXCEPT ![e] = r]
<1>0. /\ c \in [Keys -> Entries \cup {None}] /\ q \in Seq(Entries)
      /\ IsInjective(q) /\ en \in [Entries -> Structs] /\ None \notin Entries
      /\ ToSet(q) \subseteq Entries
  BY CacheAssumption, ToSetSubset DEF Agree
<1>1. /\ p \in Seq(Entries) /\ IsInjective(p)
      /\ ToSet(p) = ToSet(q) \cup {e}
  BY <1>0, Pushed
<1> HIDE DEF p
<1>2. r \in Structs /\ r.key = k /\ r.size = size
  BY DEF Structs
<1> HIDE DEF r
<1>3. d \in [Keys -> Entries \cup {None}]
  BY <1>0
<1>4. fn \in [Entries -> Structs] /\ fn[e] = r /\ \A o \in Entries : o # e => fn[o] = en[o]
  BY <1>0, <1>2
<1>5. d[k] = e /\ \A l \in Keys : l # k => d[l] = c[l]
  BY <1>0
<1> HIDE DEF d, fn
<1>6. ASSUME NEW o \in ToSet(p)
      PROVE  fn[o].key \in Keys /\ d[fn[o].key] = o
  <2>1. CASE o = e
    BY <1>2, <1>4, <1>5, <2>1
  <2>2. CASE o # e
    <3>1. o \in ToSet(q) /\ fn[o] = en[o]
      BY <1>0, <1>1, <1>4, <2>2
    <3>2. en[o].key \in Keys /\ c[en[o].key] = o
      BY <3>1 DEF Agree
    <3>3. en[o].key # k
      BY <3>1, <3>2, <1>0
    <3> QED
      BY <3>1, <3>2, <3>3, <1>5
  <2> QED
    BY <2>1, <2>2
<1>7. ASSUME NEW l \in Keys, d[l] # None
      PROVE  d[l] \in ToSet(p) /\ fn[d[l]].key = l
  <2>1. CASE l = k
    BY <1>1, <1>2, <1>4, <1>5, <2>1
  <2>2. CASE l # k
    <3>1. d[l] = c[l] /\ c[l] \in ToSet(q) /\ en[c[l]].key = l
      BY <1>5, <1>7, <2>2 DEF Agree
    <3>2. c[l] # e /\ c[l] \in Entries
      BY <3>1, <1>0
    <3> QED
      BY <3>1, <3>2, <1>1, <1>4
  <2> QED
    BY <2>1, <2>2
<1>8. b + size = SumFunctionOnSet(SizesOf(fn), ToSet(p))
  <2>1. IsFiniteSet(ToSet(q))
    BY <1>0, ToSetFinite
  <2>2. \A o \in Entries : SizesOf(en)[o] \in Nat /\ SizesOf(fn)[o] \in Nat
    BY <1>0, <1>4, SizesAreNat
  <2>3. \A o \in ToSet(q) : SizesOf(en)[o] \in Nat /\ SizesOf(en)[o] = SizesOf(fn)[o]
    <3>1. ASSUME NEW o \in ToSet(q)
          PROVE  SizesOf(en)[o] = SizesOf(fn)[o]
      <4>1. o \in Entries /\ fn[o] = en[o]
        BY <1>0, <1>4
      <4> QED
        BY <4>1 DEF SizesOf
    <3> QED
      BY <3>1, <2>2, <1>0
  <2>4. SumFunctionOnSet(SizesOf(en), ToSet(q)) = SumFunctionOnSet(SizesOf(fn), ToSet(q))
    BY <2>1, <2>3, SumSame
  <2>5. \A o \in ToSet(q) \cup {e} : SizesOf(fn)[o] \in Nat
    BY <2>2, <1>0
  <2>6. SumFunctionOnSet(SizesOf(fn), ToSet(q) \cup {e}) =
          SizesOf(fn)[e] + SumFunctionOnSet(SizesOf(fn), ToSet(q))
    BY <2>1, <2>5, SumAdd
  <2>7. SizesOf(fn)[e] = size
    BY <1>2, <1>4 DEF SizesOf
  <2>8. b = SumFunctionOnSet(SizesOf(en), ToSet(q))
    BY DEF Agree
  <2>9. b \in Nat
    BY <2>1, <2>3, <2>8, SumType
  <2>10. size \in Nat
    BY CacheAssumption
  <2> QED
    BY <1>1, <2>4, <2>6, <2>7, <2>8, <2>9, <2>10
<1>9. Agree(d, p, b + size, fn)
  BY <1>1, <1>3, <1>4, <1>6, <1>7, <1>8 DEF Agree
<1> QED
  BY <1>9 DEF d, p, fn, r

-----------------------------------------------------------------------------
\* The list without an entry is part of it.
LEMMA WithoutIsPart ==
  ASSUME Agree(cache, lru, curBytes, entry), NEW e \in Listed
  PROVE  /\ Without(e) \in Seq(Entries)
         /\ ToSet(Without(e)) = Listed \ {e}
         /\ PartOf(Without(e), lru)
<1>1. lru \in Seq(Entries) /\ IsInjective(lru)
  BY DEF Agree
<1> DEFINE i == CHOOSE j \in DOMAIN lru : lru[j] = e
<1>2. i \in DOMAIN lru /\ lru[i] = e
  BY DEF Listed, ToSet
<1> HIDE DEF i
<1>3. /\ RemoveAt(lru, i) \in Seq(Entries)
      /\ ToSet(RemoveAt(lru, i)) = ToSet(lru) \ {lru[i]}
      /\ PartOf(RemoveAt(lru, i), lru)
  BY <1>1, <1>2, WithoutPart
<1> QED
  BY <1>2, <1>3 DEF Without, Listed, i

\* So is the list without the old entry of a key.
LEMMA RestIsPart ==
  ASSUME Agree(cache, lru, curBytes, entry), NEW k \in Keys
  PROVE  /\ Rest(k) \in Seq(Entries)
         /\ PartOf(Rest(k), lru)
         /\ cache[k] \notin ToSet(Rest(k))
<1>1. lru \in Seq(Entries) /\ IsInjective(lru) /\ ToSet(lru) \subseteq Entries
  BY ToSetSubset DEF Agree
<1>2. CASE cache[k] = None
  <2>1. Rest(k) = lru
    BY <1>2 DEF Rest
  <2>2. None \notin Entries
    BY CacheAssumption
  <2> QED
    BY <1>1, <1>2, <2>1, <2>2, PartOfSelf
<1>3. CASE cache[k] # None
  <2>1. Rest(k) = Without(cache[k]) /\ cache[k] \in Listed
    BY <1>3 DEF Rest, Agree, Listed
  <2> QED
    BY <2>1, WithoutIsPart
<1> QED
  BY <1>2, <1>3

\* So is what evictions leave, which has room or is empty.
LEMMA KeptIsPart ==
  ASSUME Agree(cache, lru, curBytes, entry), NEW k \in Keys, NEW size \in Sizes
  PROVE  /\ Kept(k, size) \in Seq(Entries)
         /\ PartOf(Kept(k, size), lru)
         /\ cache[k] \notin ToSet(Kept(k, size))
         /\ Fits(Kept(k, size), size) \/ Kept(k, size) = <<>>
<1> DEFINE q == Rest(k)
           W == {0} \cup {n \in 1 .. Len(q) : Fits(UpTo(q, n), size)}
           n == Max(W)
<1>1. q \in Seq(Entries) /\ PartOf(q, lru) /\ cache[k] \notin ToSet(q)
  BY RestIsPart
<1>2. Len(q) \in Nat
  BY <1>1, LenProperties
<1>3. Kept(k, size) = UpTo(q, n)
  BY DEF Kept
<1> HIDE DEF q
<1>4. n \in W
  <2>1. W \in SUBSET (0 .. Len(q)) /\ W # {}
    BY <1>2
  <2> HIDE DEF W
  <2> QED
    BY <1>2, <2>1, GreatestExists
<1> HIDE DEF n
<1>5. n \in 0 .. Len(q)
  BY <1>2, <1>4
<1>6. IsInjective(q)
  BY <1>1 DEF PartOf
<1>7. /\ UpTo(q, n) \in Seq(Entries) /\ Len(UpTo(q, n)) = n
      /\ PartOf(UpTo(q, n), q)
  BY <1>1, <1>5, <1>6, FrontPart DEF UpTo
<1>8. lru \in Seq(Entries)
  BY DEF Agree
<1>9. PartOf(UpTo(q, n), lru)
  BY <1>1, <1>7, <1>8, PartOfPart
<1>10. ToSet(UpTo(q, n)) \subseteq ToSet(q)
  BY <1>7 DEF PartOf
<1>11. Fits(UpTo(q, n), size) \/ UpTo(q, n) = <<>>
  <2>1. CASE n = 0
    BY <1>7, <2>1, EmptySeq
  <2>2. CASE n # 0
    BY <1>4, <2>2
  <2> QED
    BY <2>1, <2>2
<1> QED
  BY <1>1, <1>3, <1>7, <1>9, <1>10, <1>11

-----------------------------------------------------------------------------
\* An empty cache agrees with an empty list.
LEMMA CacheInit ==
  ASSUME Init
  PROVE  CacheInv
<1>0. /\ None \notin Entries /\ MaxBytes \in Nat \ {0} /\ TTL \in Nat
      /\ MaxTime \in Nat
  BY CacheAssumption
<1>1. Agree(cache, lru, curBytes, entry)
  <2>1. /\ lru \in Seq(Entries) /\ IsInjective(lru) /\ ToSet(lru) = {}
    BY ToSetEmpty DEF Init
  <2>2. cache \in [Keys -> Entries \cup {None}] /\ \A k \in Keys : cache[k] = None
    BY DEF Init
  <2>3. Blank \in Structs
    BY <1>0 DEF Blank, Structs
  <2>4. entry \in [Entries -> Structs]
    BY <2>3 DEF Init
  <2>5. curBytes = 0 /\ SumFunctionOnSet(SizesOf(entry), {}) = 0
    BY SumEmpty DEF Init
  <2> QED
    BY <2>1, <2>2, <2>4, <2>5 DEF Agree
<1>2. GetsOK
  BY DEF Init, GetsOK, Gets, Idle
<1>3. Aged
  <2>1. Listed = {} /\ \A g \in Getters : get[g].at # "hit"
    BY ToSetEmpty DEF Init, Listed, Idle
  <2> QED
    BY <2>1 DEF Init, Aged
<1>4. BudgetKept
  BY <1>0 DEF Init, BudgetKept
<1> QED
  BY <1>0, <1>1, <1>2, <1>3, <1>4 DEF CacheInv, Init, Times

(* A Get that ends takes nothing with it.                                   *)
LEMMA GetEnds ==
  ASSUME GetsOK, NEW g \in Getters, get' = [get EXCEPT ![g] = Idle],
         clock' = clock
  PROVE  GetsOK' /\ \A h \in Getters : get'[h].at = "hit" => get'[h] = get[h]
<1>1. Idle.at # "hit" /\ Idle \in Gets
  BY DEF Idle, Gets
<1>2. get \in [Getters -> Gets] /\ get' \in [Getters -> Gets]
  BY <1>1 DEF GetsOK
<1>3. ASSUME NEW h \in Getters
      PROVE  get'[h] = IF h = g THEN Idle ELSE get[h]
  BY <1>2
<1>4. \A h \in Getters : get'[h] # Idle => get'[h].now <= clock'
  BY <1>3 DEF GetsOK
<1> QED
  BY <1>1, <1>2, <1>3, <1>4 DEF GetsOK

(* Whatever leaves the list, the rest stays in order.                       *)
LEMMA LeaveKeeps ==
  ASSUME CacheInv, NEW p \in Seq(Entries), PartOf(p, lru), Leave(p),
         clock' = clock, running' = running, GetsOK',
         \A h \in Getters : get'[h].at = "hit" => get'[h] = get[h]
  PROVE  CacheInv'
<1>1. Agree(cache, lru, curBytes, entry)
  BY DEF CacheInv
<1>2. /\ Agree(Unmapped(p), p, BytesLeft(p), Blanked(p))
      /\ BytesLeft(p) \in Nat /\ BytesLeft(p) <= curBytes
      /\ p = <<>> => BytesLeft(p) = 0
  BY <1>1, AgreeLeave
<1>3. /\ lru' = p /\ cache' = Unmapped(p) /\ curBytes' = BytesLeft(p)
      /\ entry' = Blanked(p) /\ renewed' = renewed \cap ToSet(p)
  BY DEF Leave
<1>4. Agree(cache, lru, curBytes, entry)'
  BY <1>2, <1>3 DEF Agree
<1>5. ToSet(p) \subseteq Listed /\ Listed' = ToSet(p) /\ Listed \subseteq Entries
  BY <1>1, <1>3, ToSetSubset DEF PartOf, Listed, Agree
<1>6. \A e \in Listed' : e \in Listed /\ entry'[e] = entry[e]
  BY <1>3, <1>5 DEF Blanked, Gone
<1>7. Aged'
  <2>1. \A e, f : Ahead(lru', e, f) => Ahead(lru, e, f)
    BY <1>3 DEF PartOf
  <2>2. renewed' \subseteq Listed'
    BY <1>3, <1>5
  <2>3. \A f \in Listed' : f \notin renewed' => f \notin renewed
    BY <1>3, <1>5
  <2>4. \A e \in Listed' : entry'[e].expiresAt <= clock' + TTL
    BY <1>6 DEF CacheInv, Aged
  <2>5. \A e, f \in Listed' : Ahead(lru', e, f) /\ f \notin renewed' =>
          entry'[f].expiresAt <= entry'[e].expiresAt
    BY <1>6, <2>1, <2>3 DEF CacheInv, Aged
  <2>6. ASSUME NEW g \in Getters, get'[g].at = "hit", NEW f \in Listed',
               f \notin renewed',
               f = get'[g].ent \/ Ahead(lru', get'[g].ent, f)
        PROVE  entry'[f].expiresAt <= get'[g].now + TTL
    <3>1. get'[g] = get[g]
      BY <2>6
    <3>2. f = get[g].ent \/ Ahead(lru, get[g].ent, f)
      BY <2>1, <2>6, <3>1
    <3>3. entry[f].expiresAt <= get[g].now + TTL
      BY <1>6, <2>3, <2>6, <3>1, <3>2 DEF CacheInv, Aged
    <3> QED
      BY <1>6, <3>1, <3>3
  <2> QED
    BY <2>2, <2>4, <2>5, <2>6 DEF Aged
<1>8. BudgetKept'
  <2>1. curBytes \in Nat /\ MaxBytes \in Nat
    <3>1. lru \in Seq(Entries) /\ entry \in [Entries -> Structs]
      BY <1>1 DEF Agree
    <3>2. IsFiniteSet(ToSet(lru)) /\ ToSet(lru) \subseteq Entries
      BY <3>1, ToSetFinite, ToSetSubset
    <3>3. \A e \in ToSet(lru) : SizesOf(entry)[e] \in Nat
      BY <3>1, <3>2, SizesAreNat
    <3> QED
      BY <1>1, <3>2, <3>3, SumType, CacheAssumption DEF Agree
  <2>2. Len(p) \in Nat /\ Len(p) <= Len(lru)
    BY LenProperties DEF PartOf
  <2>3. CASE curBytes <= MaxBytes
    BY <1>2, <1>3, <2>1, <2>3 DEF BudgetKept
  <2>4. CASE Len(lru) = 1 /\ MaxItemBytes > MaxBytes
    <3>1. Len(p) = 0 \/ Len(p) = 1
      BY <2>2, <2>4
    <3>2. Len(p) = 0 => p = <<>>
      BY EmptySeq
    <3> QED
      BY <1>2, <1>3, <2>1, <2>4, <3>1, <3>2 DEF BudgetKept
  <2> QED
    BY <2>3, <2>4 DEF CacheInv, BudgetKept
<1> QED
  BY <1>4, <1>7, <1>8 DEF CacheInv

\* Set replaces the entry of its key and evicts from the back.
LEMMA SetKeeps ==
  ASSUME CacheInv, NEW k \in Keys, NEW size \in Sizes, NEW e \in Entries,
         Set(k, size, e)
  PROVE  CacheInv'
<1> DEFINE q == Kept(k, size)
           x == clock + TTL
<1>0. /\ Agree(cache, lru, curBytes, entry) /\ TTL \in Nat /\ MaxTime \in Nat
      /\ MaxBytes \in Nat /\ MaxItemBytes \in Nat /\ None \notin Entries
      /\ clock \in 0 .. MaxTime /\ size \in Nat /\ size <= MaxItemBytes
      /\ e \notin Listed /\ e \notin Held
  BY CacheAssumption DEF CacheInv, Times, Set
<1>1. /\ q \in Seq(Entries) /\ PartOf(q, lru) /\ cache[k] \notin ToSet(q)
      /\ Fits(q, size) \/ q = <<>>
  BY <1>0, KeptIsPart
<1>2. /\ lru' = <<e>> \o q
      /\ cache' = [Unmapped(q) EXCEPT ![k] = e]
      /\ curBytes' = BytesLeft(q) + size
      /\ entry' = [Blanked(q) EXCEPT ![e] =
           [key |-> k, size |-> size, expiresAt |-> x]]
      /\ renewed' = renewed \cap ToSet(q)
      /\ get' = get /\ clock' = clock /\ running' = running
  BY DEF Set, PushFront
<1> HIDE DEF q
<1>3. /\ Agree(Unmapped(q), q, BytesLeft(q), Blanked(q))
      /\ BytesLeft(q) \in Nat /\ BytesLeft(q) <= curBytes
      /\ q = <<>> => BytesLeft(q) = 0
  BY <1>0, <1>1, AgreeLeave
<1>4. ToSet(q) \subseteq Listed /\ Listed \subseteq Entries /\ e \notin ToSet(q)
  BY <1>0, <1>1, ToSetSubset DEF PartOf, Listed, Agree
<1>5. Unmapped(q)[k] = None
  <2>1. CASE cache[k] = None
    BY <2>1 DEF Unmapped
  <2>2. CASE cache[k] # None
    <3>1. cache[k] \in Listed /\ entry[cache[k]].key = k
      BY <1>0, <2>2 DEF Agree, Listed
    <3>2. cache[k] \in Gone(q)
      BY <1>1, <3>1 DEF Gone
    <3> QED
      BY <3>1, <3>2 DEF Unmapped
  <2> QED
    BY <2>1, <2>2
<1>6. x \in 0 .. MaxTime + TTL
  BY <1>0
<1>7. Agree(cache, lru, curBytes, entry)'
  <2>1. Agree([Unmapped(q) EXCEPT ![k] = e], <<e>> \o q, BytesLeft(q) + size,
              [Blanked(q) EXCEPT ![e] = [key |-> k, size |-> size, expiresAt |-> x]])
    BY <1>3, <1>4, <1>5, <1>6, AgreePush
  <2> HIDE DEF x
  <2> QED
    BY <1>2, <2>1 DEF Agree
<1>8. /\ Listed' = ToSet(q) \cup {e}
      /\ Len(lru') = Len(q) + 1
      /\ \A a, f : Ahead(lru', a, f) => f \in ToSet(q) /\ (a = e \/ Ahead(q, a, f))
  <2>1. IsInjective(q)
    BY <1>1 DEF PartOf
  <2> QED
    BY <1>1, <1>2, <1>4, <2>1, Pushed DEF Listed
<1>9. /\ entry'[e].expiresAt = x
      /\ \A f \in ToSet(q) : entry'[f] = entry[f] /\ f \in Listed /\ f # e
  <2>1. Blanked(q) \in [Entries -> Structs]
    BY <1>3 DEF Agree
  <2>2. entry'[e] = [key |-> k, size |-> size, expiresAt |-> x]
    BY <1>2, <2>1
  <2>3. ASSUME NEW f \in ToSet(q)
        PROVE  entry'[f] = entry[f] /\ f \in Listed /\ f # e
    <3>1. f \in Entries /\ f # e /\ f \notin Gone(q) /\ f \in Listed
      BY <1>4 DEF Gone
    <3>2. entry'[f] = Blanked(q)[f]
      BY <1>2, <2>1, <3>1
    <3> QED
      BY <3>1, <3>2 DEF Blanked
  <2> QED
    BY <2>2, <2>3
<1>10. \A a, f : Ahead(q, a, f) => Ahead(lru, a, f)
  BY <1>1 DEF PartOf
<1>11. \A f \in ToSet(q) : f \notin renewed' => f \notin renewed
  BY <1>2
<1>12. \A f \in ToSet(q) : entry'[f].expiresAt <= x
  BY <1>9 DEF CacheInv, Aged
<1>13. Aged'
  <2>1. renewed' \subseteq Listed'
    BY <1>2, <1>8
  <2>2. \A f \in Listed' : entry'[f].expiresAt <= clock' + TTL
    <3>1. x <= x
      BY <1>6
    <3> QED
      BY <1>2, <1>8, <1>9, <1>12, <3>1
  <2>3. ASSUME NEW a \in Listed', NEW f \in Listed', Ahead(lru', a, f),
               f \notin renewed'
        PROVE  entry'[f].expiresAt <= entry'[a].expiresAt
    <3>1. f \in ToSet(q) /\ (a = e \/ Ahead(q, a, f))
      BY <1>8, <2>3
    <3>2. CASE a = e
      BY <1>9, <1>12, <3>1, <3>2
    <3>3. CASE a # e
      <4>1. a \in ToSet(q) /\ Ahead(lru, a, f)
        BY <1>8, <1>10, <3>1, <3>3
      <4>2. f \notin renewed /\ a \in Listed /\ f \in Listed
        BY <1>9, <1>11, <2>3, <3>1, <4>1
      <4>3. entry[f].expiresAt <= entry[a].expiresAt
        BY <4>1, <4>2 DEF CacheInv, Aged
      <4> QED
        BY <1>9, <3>1, <4>1, <4>3
    <3> QED
      BY <3>2, <3>3
  <2>4. ASSUME NEW g \in Getters, get'[g].at = "hit", NEW f \in Listed',
               f \notin renewed',
               f = get'[g].ent \/ Ahead(lru', get'[g].ent, f)
        PROVE  entry'[f].expiresAt <= get'[g].now + TTL
    <3>1. get'[g] = get[g] /\ get[g].ent # e
      BY <1>0, <1>2, <2>4 DEF Held
    <3>2. f \in ToSet(q)
      BY <1>8, <2>4, <3>1
    <3>3. f = get[g].ent \/ Ahead(lru, get[g].ent, f)
      BY <1>8, <1>10, <2>4, <3>1
    <3>4. entry[f].expiresAt <= get[g].now + TTL
      BY <1>9, <1>11, <2>4, <3>1, <3>2, <3>3 DEF CacheInv, Aged
    <3> QED
      BY <1>9, <3>1, <3>2, <3>4
  <2> QED
    BY <2>1, <2>2, <2>3, <2>4 DEF Aged
<1>14. BudgetKept'
  <2>1. CASE Fits(q, size)
    BY <1>2, <2>1 DEF Fits, BudgetKept
  <2>2. CASE q = <<>>
    <3>1. curBytes' = size /\ Len(lru') = 1
      BY <1>0, <1>2, <1>3, <1>8, <2>2, EmptySeq
    <3> QED
      BY <1>0, <3>1 DEF BudgetKept
  <2> QED
    BY <1>1, <2>1, <2>2
<1>15. GetsOK'
  BY <1>2 DEF CacheInv, GetsOK
<1> QED
  BY <1>2, <1>7, <1>13, <1>14, <1>15 DEF CacheInv

\* Delete takes out one entry, or nothing.
LEMMA DeleteKeeps ==
  ASSUME CacheInv, NEW k \in Keys, Delete(k)
  PROVE  CacheInv'
<1>1. Agree(cache, lru, curBytes, entry) /\ cache[k] \in Listed
  BY DEF CacheInv, Agree, Delete, Listed
<1> DEFINE p == Without(cache[k])
<1>2. p \in Seq(Entries) /\ PartOf(p, lru)
  BY <1>1, WithoutIsPart
<1>3. /\ Leave(p) /\ get' = get /\ clock' = clock /\ running' = running
  BY DEF Delete
<1> HIDE DEF p
<1>4. GetsOK'
  BY <1>3 DEF CacheInv, GetsOK
<1> QED
  BY <1>2, <1>3, <1>4, LeaveKeeps

\* A Get that finds an entry has its time from now.
LEMMA GetFindsKeeps ==
  ASSUME CacheInv, NEW g \in Getters, NEW k \in Keys, GetFinds(g, k)
  PROVE  CacheInv'
<1>0. /\ cache' = cache /\ lru' = lru /\ curBytes' = curBytes /\ entry' = entry
      /\ clock' = clock /\ running' = running /\ renewed' = renewed
      /\ cache[k] # None
  BY DEF GetFinds, dataVars
<1>1. cache[k] \in Listed /\ cache[k] \in Entries /\ clock \in Times
  BY <1>0 DEF CacheInv, Agree, Listed
<1> DEFINE new == IF Expired(cache[k], clock)
                  THEN [at |-> "expired", key |-> k, now |-> clock]
                  ELSE [at |-> "hit", ent |-> cache[k], now |-> clock]
<1>2. get' = [get EXCEPT ![g] = new]
  BY DEF GetFinds
<1>3. new \in Gets /\ new.now = clock /\ (new.at = "hit" => new.ent = cache[k])
  BY <1>1 DEF Gets
<1> HIDE DEF new
<1>4. \A h \in Getters : get'[h] = IF h = g THEN new ELSE get[h]
  BY <1>2 DEF CacheInv, GetsOK
<1>5. GetsOK'
  <2>1. get' \in [Getters -> Gets]
    BY <1>2, <1>3 DEF CacheInv, GetsOK
  <2>2. clock <= clock
    BY <1>1 DEF Times
  <2>3. \A h \in Getters : get'[h] # Idle => get'[h].now <= clock'
    BY <1>0, <1>3, <1>4, <2>2 DEF CacheInv, GetsOK
  <2> QED
    BY <2>1, <2>3 DEF GetsOK
<1>6. Aged'
  <2>1. ASSUME NEW h \in Getters, get'[h].at = "hit", NEW f \in Listed,
               f \notin renewed, f = get'[h].ent \/ Ahead(lru, get'[h].ent, f)
        PROVE  entry[f].expiresAt <= get'[h].now + TTL
    <3>1. CASE h = g
      <4>1. get'[h].now = clock
        BY <1>3, <1>4, <3>1
      <4> QED
        BY <4>1 DEF CacheInv, Aged
    <3>2. CASE h # g
      BY <1>4, <2>1, <3>2 DEF CacheInv, Aged
    <3> QED
      BY <3>1, <3>2
  <2> QED
    BY <1>0, <2>1 DEF CacheInv, Aged, Listed
<1> QED
  BY <1>0, <1>5, <1>6 DEF CacheInv, Agree, BudgetKept

\* A renewal may land on an entry that has left.
LEMMA GetRenewsKeeps ==
  ASSUME CacheInv, NEW g \in Getters, GetRenews(g)
  PROVE  CacheInv'
<1> DEFINE x == get[g].now + TTL
           r == get[g].ent
<1>0. /\ cache' = cache /\ lru' = lru /\ curBytes' = curBytes
      /\ clock' = clock /\ running' = running
      /\ renewed' = renewed \cup ({r} \cap Listed)
      /\ get[g].at = "hit" /\ get' = [get EXCEPT ![g] = Idle]
      /\ entry' = [e \in Entries |-> IF e = r /\ e \in Listed
                     THEN [entry[e] EXCEPT !.expiresAt = x] ELSE entry[e]]
  BY DEF GetRenews
<1>1. /\ Agree(cache, lru, curBytes, entry) /\ lru \in Seq(Entries)
      /\ Listed \subseteq Entries /\ entry \in [Entries -> Structs]
  BY ToSetSubset DEF CacheInv, Agree, Listed
<1>2. GetsOK' /\ \A h \in Getters : get'[h].at = "hit" => get'[h] = get[h]
  BY <1>0, GetEnds DEF CacheInv
<1>3. get[g].now \in Times /\ get[g].now <= clock
  <2>1. get[g] # Idle
    BY <1>0 DEF Idle
  <2>2. get[g] \in Gets
    BY DEF CacheInv, GetsOK
  <2>3. get[g].now \in Times
    BY <2>1, <2>2 DEF Gets
  <2>4. get[g].now <= clock
    BY <2>1 DEF CacheInv, GetsOK
  <2> QED
    BY <2>3, <2>4
<1>4. x \in 0 .. MaxTime + TTL /\ x <= clock + TTL
  <2>1. TTL \in Nat /\ MaxTime \in Nat /\ clock \in 0 .. MaxTime
    BY CacheAssumption DEF CacheInv, Times
  <2> QED
    BY <1>3, <2>1 DEF Times
<1> HIDE DEF x
<1>5. /\ entry' \in [Entries -> Structs]
      /\ \A e \in Entries : entry'[e].key = entry[e].key /\ entry'[e].size = entry[e].size
      /\ \A e \in Listed : entry'[e].expiresAt = IF e = r THEN x ELSE entry[e].expiresAt
  <2>1. ASSUME NEW e \in Entries
        PROVE  /\ entry'[e] \in Structs /\ entry'[e].key = entry[e].key
               /\ entry'[e].size = entry[e].size
               /\ e \in Listed =>
                    entry'[e].expiresAt = IF e = r THEN x ELSE entry[e].expiresAt
    <3>1. entry[e] \in Structs
      BY <1>1
    <3>2. [entry[e] EXCEPT !.expiresAt = x] \in Structs
      BY <3>1, <1>4 DEF Structs
    <3>3. /\ [entry[e] EXCEPT !.expiresAt = x].key = entry[e].key
          /\ [entry[e] EXCEPT !.expiresAt = x].size = entry[e].size
          /\ [entry[e] EXCEPT !.expiresAt = x].expiresAt = x
      BY <3>1 DEF Structs
    <3> QED
      BY <1>0, <3>1, <3>2, <3>3
  <2>2. entry' = [e \in Entries |-> entry'[e]]
    BY <1>0
  <2> QED
    BY <1>1, <2>1, <2>2
<1> HIDE DEF r
<1>6. Agree(cache, lru, curBytes, entry)'
  <2>1. SizesOf(entry)' = SizesOf(entry)
    BY <1>5 DEF SizesOf
  <2>2. ToSet(lru) \subseteq Entries
    BY <1>1 DEF Listed
  <2>3. \A e \in ToSet(lru) : entry'[e].key \in Keys /\ cache[entry'[e].key] = e
    BY <1>1, <1>5, <2>2 DEF Agree
  <2>4. \A k \in Keys : cache[k] # None => cache[k] \in ToSet(lru) /\ entry'[cache[k]].key = k
    BY <1>1, <1>5, <2>2 DEF Agree
  <2>5. curBytes' = SumFunctionOnSet(SizesOf(entry)', ToSet(lru))
    BY <1>0, <1>1, <2>1 DEF Agree
  <2> QED
    BY <1>0, <1>1, <1>5, <2>3, <2>4, <2>5 DEF Agree
<1>7. Aged'
  <2>1. renewed' \subseteq Listed' /\ Listed' = Listed
    BY <1>0 DEF CacheInv, Aged, Listed
  <2>2. \A e \in Listed : entry'[e].expiresAt <= clock' + TTL
    BY <1>0, <1>4, <1>5 DEF CacheInv, Aged
  <2>3. \A f \in Listed : f \notin renewed' => f \notin renewed /\ f # r
    BY <1>0
  <2>4. ASSUME NEW e \in Listed, NEW f \in Listed, Ahead(lru, e, f), f \notin renewed'
        PROVE  entry'[f].expiresAt <= entry'[e].expiresAt
    <3>1. entry'[f].expiresAt = entry[f].expiresAt /\ f \notin renewed
      BY <1>5, <2>3, <2>4
    <3>2. CASE e = r
      <4>1. entry[f].expiresAt <= x
        BY <1>0, <2>4, <3>1, <3>2 DEF CacheInv, Aged, x, r
      <4> QED
        BY <1>5, <3>1, <3>2, <4>1
    <3>3. CASE e # r
      <4>1. entry[f].expiresAt <= entry[e].expiresAt
        BY <2>4, <3>1 DEF CacheInv, Aged
      <4> QED
        BY <1>5, <3>1, <3>3, <4>1
    <3> QED
      BY <3>2, <3>3
  <2>5. ASSUME NEW h \in Getters, get'[h].at = "hit", NEW f \in Listed,
               f \notin renewed', f = get'[h].ent \/ Ahead(lru, get'[h].ent, f)
        PROVE  entry'[f].expiresAt <= get'[h].now + TTL
    <3>1. entry'[f].expiresAt = entry[f].expiresAt /\ f \notin renewed
      BY <1>5, <2>3, <2>5
    <3>2. get'[h] = get[h]
      BY <1>2, <2>5
    <3> QED
      BY <2>5, <3>1, <3>2 DEF CacheInv, Aged
  <2> QED
    BY <1>0, <2>1, <2>2, <2>4, <2>5 DEF Aged
<1>8. BudgetKept'
  BY <1>0 DEF CacheInv, BudgetKept
<1> QED
  BY <1>0, <1>2, <1>6, <1>7, <1>8 DEF CacheInv

\* A Get that saw an expired entry looks again before it evicts.
LEMMA GetEvictsKeeps ==
  ASSUME CacheInv, NEW g \in Getters, GetEvicts(g)
  PROVE  CacheInv'
<1>1. Agree(cache, lru, curBytes, entry)
  BY DEF CacheInv
<1> DEFINE e == cache[get[g].key]
<1>2. get' = [get EXCEPT ![g] = Idle] /\ clock' = clock /\ running' = running
  BY DEF GetEvicts
<1>3. GetsOK' /\ \A h \in Getters : get'[h].at = "hit" => get'[h] = get[h]
  BY <1>2, GetEnds DEF CacheInv
<1>4. get[g].key \in Keys
  BY DEF GetEvicts, CacheInv, GetsOK, Gets, Idle
<1>5. CASE e # None /\ StillExpired(e, get[g].now)
  <2>1. Leave(Without(e)) /\ e \in Listed
    BY <1>1, <1>4, <1>5 DEF GetEvicts, Agree, Listed
  <2> HIDE DEF e
  <2>2. Without(e) \in Seq(Entries) /\ PartOf(Without(e), lru)
    BY <1>1, <2>1, WithoutIsPart
  <2> QED
    BY <1>2, <1>3, <2>1, <2>2, LeaveKeeps
<1>6. CASE ~(e # None /\ StillExpired(e, get[g].now))
  <2>1. /\ cache' = cache /\ lru' = lru /\ curBytes' = curBytes /\ entry' = entry
        /\ renewed' = renewed
    BY <1>6 DEF GetEvicts, dataVars
  <2>2. Aged'
    BY <1>2, <1>3, <2>1 DEF CacheInv, Aged, Listed
  <2> QED
    BY <1>2, <1>3, <2>1, <2>2 DEF CacheInv, Agree, BudgetKept
<1> QED
  BY <1>5, <1>6

\* The sweep takes entries off the back.
LEMMA SweepKeeps ==
  ASSUME CacheInv, Sweep
  PROVE  CacheInv'
<1>1. lru \in Seq(Entries) /\ IsInjective(lru)
  BY DEF CacheInv, Agree
<1>2. PICK n \in 0 .. Len(lru) - 1 : Leave(UpTo(lru, n))
  BY DEF Sweep
<1>3. n \in 0 .. Len(lru)
  BY <1>1, LenProperties
<1>4. UpTo(lru, n) \in Seq(Entries) /\ PartOf(UpTo(lru, n), lru)
  BY <1>1, <1>3, FrontPart DEF UpTo
<1>5. get' = get /\ clock' = clock /\ running' = running
  BY DEF Sweep
<1>6. GetsOK'
  BY <1>5 DEF CacheInv, GetsOK
<1> QED
  BY <1>2, <1>4, <1>5, <1>6, LeaveKeeps

\* Time makes no entry younger.
LEMMA TickKeeps ==
  ASSUME CacheInv, Tick
  PROVE  CacheInv'
<1>1. /\ cache' = cache /\ lru' = lru /\ curBytes' = curBytes /\ entry' = entry
      /\ get' = get /\ running' = running /\ renewed' = renewed
      /\ clock' = clock + 1 /\ clock < MaxTime
  BY DEF Tick, dataVars
<1>2. TTL \in Nat /\ MaxTime \in Nat /\ clock \in 0 .. MaxTime
  BY CacheAssumption DEF CacheInv, Times
<1>3. clock' \in Times
  BY <1>1, <1>2 DEF Times
<1>4. GetsOK'
  <2>1. ASSUME NEW g \in Getters, get[g] # Idle
        PROVE  get[g].now <= clock'
    <3>1. get[g].now \in Times /\ get[g].now <= clock
      BY <2>1 DEF CacheInv, GetsOK, Gets
    <3> QED
      BY <1>1, <1>2, <3>1 DEF Times
  <2> QED
    BY <1>1, <2>1 DEF CacheInv, GetsOK
<1>5. Aged'
  <2>1. ASSUME NEW e \in Listed
        PROVE  entry[e].expiresAt <= clock' + TTL
    <3>1. e \in Entries /\ entry[e] \in Structs
      BY ToSetSubset DEF CacheInv, Agree, Listed
    <3>2. entry[e].expiresAt \in 0 .. MaxTime + TTL
      BY <3>1 DEF Structs
    <3>3. entry[e].expiresAt <= clock + TTL
      BY DEF CacheInv, Aged
    <3> QED
      BY <1>1, <1>2, <3>2, <3>3
  <2> QED
    BY <1>1, <2>1 DEF CacheInv, Aged, Listed
<1> QED
  BY <1>1, <1>3, <1>4, <1>5 DEF CacheInv, Agree, BudgetKept

\* Every step keeps the invariant of the cache.
LEMMA CacheStep ==
  ASSUME CacheInv, [Next]_vars
  PROVE  CacheInv'
<1>1. CASE Close
  <2>1. /\ cache' = cache /\ lru' = lru /\ curBytes' = curBytes /\ entry' = entry
        /\ get' = get /\ clock' = clock /\ running' = FALSE /\ renewed' = renewed
    BY <1>1 DEF Close, dataVars
  <2> QED
    BY <2>1 DEF CacheInv, Agree, GetsOK, Aged, BudgetKept, Listed
<1>2. CASE UNCHANGED vars
  BY <1>2 DEF vars, CacheInv, Agree, GetsOK, Aged, BudgetKept, Listed
<1> QED
  BY <1>1, <1>2, DeleteKeeps, SetKeeps, GetFindsKeeps, GetRenewsKeeps,
     GetEvictsKeeps, SweepKeeps, TickKeeps DEF Next

(* CacheInv holds in every state of the hot cache, whatever Gets, Sets,     *)
(* Deletes and sweeps of tinylfu.go overlap.                                *)
THEOREM CacheInvariant == Spec => []CacheInv
<1>1. Init => CacheInv
  BY CacheInit
<1>2. CacheInv /\ [Next]_vars => CacheInv'
  BY CacheStep
<1> QED
  BY <1>1, <1>2, PTL DEF Spec

(* The map, the list and the byte count, which Set, Delete, Get, eviction   *)
(* and the sweep each update by hand (tinylfu.go:113-249), agree always.    *)
THEOREM MapAndListAgreeAlways == Spec => []MapListAndBytesAgree
<1>1. CacheInv => MapListAndBytesAgree
  <2> SUFFICES ASSUME CacheInv
               PROVE  MapListAndBytesAgree
    OBVIOUS
  <2>1. /\ Agree(cache, lru, curBytes, entry) /\ lru \in Seq(Entries)
        /\ Listed \subseteq Entries /\ entry \in [Entries -> Structs]
    BY ToSetSubset DEF CacheInv, Agree, Listed
  <2>2. curBytes = Total(Listed)
    BY <2>1 DEF Agree, Total, SizesOf, Listed
  <2>3. curBytes \in Nat
    <3>1. IsFiniteSet(Listed)
      BY <2>1, ToSetFinite DEF Listed
    <3>2. \A e \in Listed : SizesOf(entry)[e] \in Nat
      BY <2>1, SizesAreNat
    <3>3. SumFunctionOnSet(SizesOf(entry), Listed) \in Nat
      BY <3>1, <3>2, SumType
    <3> QED
      BY <2>1, <3>3 DEF Agree, Listed
  <2>4. ASSUME NEW e \in Entries
        PROVE  /\ entry[e].key \in Keys \cup {None}
               /\ entry[e].size \in Sizes \cup {0}
               /\ entry[e].expiresAt \in 0 .. MaxTime + TTL
    <3>1. entry[e] \in Structs
      BY <2>1
    <3> QED
      BY <3>1 DEF Structs
  <2>5. ASSUME NEW g \in Getters
        PROVE  get[g].at \in {"idle", "hit", "expired"}
    BY DEF CacheInv, GetsOK, Gets, Idle
  <2>6. TypeOK
    BY <2>1, <2>3, <2>4, <2>5 DEF TypeOK, CacheInv, Agree, Aged, Times
  <2> QED
    BY <2>1, <2>2, <2>6 DEF MapListAndBytesAgree, Agree, Listed
<1> QED
  BY <1>1, CacheInvariant, PTL

(* Eviction in Set (tinylfu.go:164-167) keeps the byte budget, but for a    *)
(* single item that exceeds it alone.                                       *)
THEOREM BudgetIsKept == Spec => []BudgetKept
<1>1. CacheInv => BudgetKept
  BY DEF CacheInv
<1> QED
  BY <1>1, CacheInvariant, PTL

(* The sweep's early stop (tinylfu.go:215-219) passes over an expired entry *)
(* only behind one that a Get has renewed.                                  *)
THEOREM OnlyRenewedShield == Spec => []SweepMissesOnlyBehindRenewed
<1>1. CacheInv => SweepMissesOnlyBehindRenewed
  <2> SUFFICES ASSUME CacheInv, NEW i \in DOMAIN lru, NEW j \in DOMAIN lru,
                      i < j, Expired(lru[i], clock), ~Expired(lru[j], clock),
                      lru[j] \notin renewed
               PROVE  FALSE
    BY DEF SweepMissesOnlyBehindRenewed
  <2>1. lru[i] \in Listed /\ lru[j] \in Listed /\ Ahead(lru, lru[i], lru[j])
    BY DEF Listed, ToSet, Ahead
  <2>2. entry[lru[j]].expiresAt <= entry[lru[i]].expiresAt
    BY <2>1 DEF CacheInv, Aged
  <2>3. /\ entry[lru[i]].expiresAt \in 0 .. MaxTime + TTL
        /\ entry[lru[j]].expiresAt \in 0 .. MaxTime + TTL
    <3>1. ASSUME NEW e \in Listed
          PROVE  entry[e].expiresAt \in 0 .. MaxTime + TTL
      <4>1. entry[e] \in Structs
        BY ToSetSubset DEF CacheInv, Agree, Listed
      <4> QED
        BY <4>1 DEF Structs
    <3> QED
      BY <2>1, <3>1
  <2>4. clock \in 0 .. MaxTime /\ MaxTime \in Nat /\ TTL \in Nat
    BY CacheAssumption DEF CacheInv, Times
  <2>5. clock > entry[lru[i]].expiresAt /\ ~(clock > entry[lru[j]].expiresAt)
    BY DEF Expired
  <2> QED
    BY <2>2, <2>3, <2>4, <2>5
<1> QED
  BY <1>1, CacheInvariant, PTL

(* Neither the sweep nor a late Get (tinylfu.go:110-121) takes an entry that *)
(* has not expired, in any step.                                            *)
THEOREM ExpiryTakesExpired == Spec => OnlyExpiredExpire
<1>1. CacheInv /\ [Next]_vars =>
        [Sweep \/ (\E g \in Getters : GetEvicts(g))
           => \A e \in Listed : e \notin Listed' => Expired(e, clock)]_vars
  <2> SUFFICES ASSUME CacheInv, Sweep \/ (\E g \in Getters : GetEvicts(g)),
                      NEW e \in Listed, e \notin Listed'
               PROVE  Expired(e, clock)
    OBVIOUS
  <2>1. Agree(cache, lru, curBytes, entry) /\ lru \in Seq(Entries) /\ IsInjective(lru)
    BY DEF CacheInv, Agree
  <2>2. CASE Sweep
    <3>1. PICK n \in 0 .. Len(lru) - 1 :
            /\ \A i \in n + 1 .. Len(lru) : Expired(lru[i], clock)
            /\ Leave(UpTo(lru, n))
      BY <2>2 DEF Sweep
    <3>2. Len(lru) \in Nat /\ DOMAIN lru = 1 .. Len(lru) /\ n \in 0 .. Len(lru)
      BY <2>1, LenProperties
    <3>3. Listed' = {lru[i] : i \in 1 .. n}
      BY <2>1, <3>1, <3>2, FrontPart DEF Leave, Listed, UpTo
    <3>4. PICK i \in 1 .. Len(lru) : e = lru[i]
      BY <3>2 DEF Listed, ToSet
    <3>5. i \in n + 1 .. Len(lru)
      BY <3>2, <3>3, <3>4
    <3> QED
      BY <3>1, <3>4, <3>5
  <2>3. ASSUME NEW g \in Getters, GetEvicts(g)
        PROVE  Expired(e, clock)
    <3> DEFINE o == cache[get[g].key]
    <3>1. get[g].key \in Keys /\ get[g].now \in Times /\ get[g].now <= clock
      BY <2>3 DEF GetEvicts, CacheInv, GetsOK, Gets, Idle
    <3>2. o # None /\ StillExpired(o, get[g].now) /\ Leave(Without(o))
      BY <2>3 DEF GetEvicts, dataVars, Listed
    <3>3. o \in Listed
      BY <2>1, <3>1, <3>2 DEF Agree, Listed
    <3> HIDE DEF o
    <3>4. Listed' = Listed \ {o}
      BY <2>1, <3>2, <3>3, WithoutIsPart DEF Leave, Listed
    <3>5. e = o
      BY <3>4
    <3>6. entry[e].expiresAt \in 0 .. MaxTime + TTL
      <4>1. entry[e] \in Structs
        BY <2>1, ToSetSubset DEF Agree, Listed
      <4> QED
        BY <4>1 DEF Structs
    <3>7. clock \in 0 .. MaxTime /\ MaxTime \in Nat /\ TTL \in Nat
      BY CacheAssumption DEF CacheInv, Times
    <3>8. get[g].now > entry[e].expiresAt
      BY <3>2, <3>5 DEF StillExpired, Expired
    <3> QED
      BY <3>1, <3>6, <3>7, <3>8 DEF Expired, Times
  <2> QED
    BY <2>2, <2>3
<1> QED
  BY <1>1, CacheInvariant, PTL DEF Spec, OnlyExpiredExpire

-----------------------------------------------------------------------------
(* The sketch: the inductive invariant                                      *)

Calls ==
  [at : {"add", "load", "count", "decay", "done"}, key : Seen, row : Nat,
   min : 0 .. Saturation, spoilt : BOOLEAN]

In(r)     == rec[r].at # "out"
Adding(r) == rec[r].at \in {"add", "load"}

(* r has added to its cell of the row; r has read it back.                  *)
Passed(r, row) ==
  /\ rec[r].at = "add" => rec[r].row > row
  /\ rec[r].at = "load" => rec[r].row >= row
Loaded(r, row) == Adding(r) => rec[r].row > row

CallsFor(k)     == {r \in Recorders : In(r) /\ rec[r].key = k}
Counted(k, row) == {r \in CallsFor(k) : ~rec[r].spoilt /\ Passed(r, row)}
Pending(k, row) == {r \in CallsFor(k) : ~Passed(r, row)}
Uncounted       == {r \in Recorders : Adding(r) \/ rec[r].at = "count"}

RowNrs == 0 .. Rows - 1
At(k, row) == <<row, Index(k, row)>>

(* No other key that was recorded has this cell.                            *)
Unshared(k, row) ==
  \A l \in Seen \ {k} : At(k, row) \in Of(l) => begun[l] = 0

RecordsOK ==
  /\ rows \in [Cells -> 0 .. Saturation]
  /\ counter \in Nat
  /\ begun \in [Seen -> Nat] /\ fresh \in [Seen -> Nat]
  /\ rec \in [Recorders -> Calls \cup {NotIn}]
  /\ \A r \in Recorders :
       /\ Adding(r) => rec[r].row \in RowNrs
       /\ rec[r].at = "count" => rec[r].row = Rows - 1

CountsOK ==
  /\ SumFunctionOnSet(begun, Seen) <= MaxRecords
  /\ counter + Cardinality(Uncounted) <= SumFunctionOnSet(begun, Seen)
  /\ \A k \in Seen : fresh[k] + Cardinality(CallsFor(k)) <= begun[k]

NothingLost ==
  \A k \in Seen, row \in RowNrs :
    \/ rows[At(k, row)] = Saturation
    \/ rows[At(k, row)] >= fresh[k] + Cardinality(Counted(k, row))

NothingGained ==
  \A k \in Seen, row \in RowNrs : Unshared(k, row) =>
    /\ rows[At(k, row)] + Cardinality(Pending(k, row)) <= begun[k]
    /\ \A r \in CallsFor(k) : Loaded(r, row) => rec[r].min <= begun[k]

SketchInv == RecordsOK /\ CountsOK /\ NothingLost /\ NothingGained

-----------------------------------------------------------------------------
One(p) == IF p THEN 1 ELSE 0

\* Sets that differ in one element differ by one in size.
LEMMA CardinalityMoves ==
  ASSUME NEW A, IsFiniteSet(A), NEW B, NEW r, A \ {r} = B \ {r}
  PROVE  /\ Cardinality(A) \in Nat /\ Cardinality(B) \in Nat
         /\ Cardinality(B) = Cardinality(A) + One(r \in B) - One(r \in A)
<1> DEFINE C == A \ {r}
<1>1. IsFiniteSet(C) /\ r \notin C
  BY FS_Subset
<1>2. Cardinality(C) \in Nat
  BY <1>1, FS_CardinalityType
<1>3. Cardinality(C \cup {r}) = Cardinality(C) + 1
  BY <1>1, FS_AddElement
<1>4. A = IF r \in A THEN C \cup {r} ELSE C
  OBVIOUS
<1>5. B = IF r \in B THEN C \cup {r} ELSE C
  OBVIOUS
<1> HIDE DEF C
<1>6. Cardinality(A) = Cardinality(C) + One(r \in A)
  <2>1. CASE r \in A
    BY <1>2, <1>3, <1>4, <2>1 DEF One
  <2>2. CASE r \notin A
    BY <1>2, <1>4, <2>2 DEF One
  <2> QED
    BY <2>1, <2>2
<1>7. Cardinality(B) = Cardinality(C) + One(r \in B)
  <2>1. CASE r \in B
    BY <1>2, <1>3, <1>5, <2>1 DEF One
  <2>2. CASE r \notin B
    BY <1>2, <1>5, <2>2 DEF One
  <2> QED
    BY <2>1, <2>2
<1>8. One(r \in A) \in {0, 1} /\ One(r \in B) \in {0, 1}
  BY DEF One
<1> QED
  BY <1>2, <1>6, <1>7, <1>8

\* There are finitely many calls under way.
LEMMA SetsFinite ==
  /\ IsFiniteSet(Uncounted)
  /\ \A k : IsFiniteSet(CallsFor(k))
  /\ \A k, row : IsFiniteSet(Counted(k, row)) /\ IsFiniteSet(Pending(k, row))
<1>1. IsFiniteSet(Recorders)
  BY SketchAssumption
<1>2. Uncounted \in SUBSET Recorders /\ \A k : CallsFor(k) \in SUBSET Recorders
  BY DEF Uncounted, CallsFor
<1>3. \A k, row : Counted(k, row) \in SUBSET Recorders /\ Pending(k, row) \in SUBSET Recorders
  BY DEF CallsFor, Counted, Pending
<1> QED
  BY <1>1, <1>2, <1>3, FS_Subset

(* When one recorder moves, each of the sets gains or loses at most it.     *)
LEMMA OneMoves ==
  ASSUME NEW r \in Recorders, \A s \in Recorders : s # r => rec'[s] = rec[s]
  PROVE  /\ Cardinality(Uncounted') =
              Cardinality(Uncounted) + One(r \in Uncounted') - One(r \in Uncounted)
         /\ \A k \in Seen : Cardinality(CallsFor(k)') =
              Cardinality(CallsFor(k)) + One(r \in CallsFor(k)') - One(r \in CallsFor(k))
         /\ \A k \in Seen, row \in RowNrs :
              /\ Cardinality(Counted(k, row)') = Cardinality(Counted(k, row))
                   + One(r \in Counted(k, row)') - One(r \in Counted(k, row))
              /\ Cardinality(Pending(k, row)') = Cardinality(Pending(k, row))
                   + One(r \in Pending(k, row)') - One(r \in Pending(k, row))
<1>1. Uncounted \ {r} = Uncounted' \ {r}
  BY DEF Uncounted, Adding
<1>2. \A k \in Seen : CallsFor(k) \ {r} = CallsFor(k)' \ {r}
  BY DEF CallsFor, In
<1>3. \A k \in Seen, row \in RowNrs :
        /\ Counted(k, row) \ {r} = Counted(k, row)' \ {r}
        /\ Pending(k, row) \ {r} = Pending(k, row)' \ {r}
  <2> SUFFICES ASSUME NEW k \in Seen, NEW row \in RowNrs
               PROVE  /\ Counted(k, row) \ {r} = Counted(k, row)' \ {r}
                      /\ Pending(k, row) \ {r} = Pending(k, row)' \ {r}
    OBVIOUS
  <2>1. \A s \in Recorders : s # r => (Passed(s, row)' <=> Passed(s, row))
    BY DEF Passed
  <2>2. \A s : s # r => (s \in CallsFor(k)' <=> s \in CallsFor(k))
    BY <1>2
  <2>3. CallsFor(k) \subseteq Recorders /\ CallsFor(k)' \subseteq Recorders
    BY DEF CallsFor
  <2> QED
    BY <2>1, <2>2, <2>3 DEF Counted, Pending
<1>4. Cardinality(Uncounted') =
              Cardinality(Uncounted) + One(r \in Uncounted') - One(r \in Uncounted)
  BY <1>1, SetsFinite, CardinalityMoves
<1>5. \A k \in Seen : Cardinality(CallsFor(k)') =
              Cardinality(CallsFor(k)) + One(r \in CallsFor(k)') - One(r \in CallsFor(k))
  BY <1>2, SetsFinite, CardinalityMoves
<1>6. ASSUME NEW k \in Seen, NEW row \in RowNrs
      PROVE  /\ Cardinality(Counted(k, row)') = Cardinality(Counted(k, row))
                   + One(r \in Counted(k, row)') - One(r \in Counted(k, row))
             /\ Cardinality(Pending(k, row)') = Cardinality(Pending(k, row))
                   + One(r \in Pending(k, row)') - One(r \in Pending(k, row))
  BY <1>3, SetsFinite, CardinalityMoves
<1> QED
  BY <1>4, <1>5, <1>6

\* So they can be counted.
LEMMA CountsAreNat ==
  /\ Cardinality(Uncounted) \in Nat
  /\ \A k : Cardinality(CallsFor(k)) \in Nat
  /\ \A k, row : /\ Cardinality(Counted(k, row)) \in Nat
                 /\ Cardinality(Pending(k, row)) \in Nat
  BY SetsFinite, FS_CardinalityType

(* Where a call is in progress, its key was recorded.                       *)
LEMMA CallsBegan ==
  ASSUME RecordsOK, CountsOK, NEW r \in Recorders, In(r)
  PROVE  /\ rec[r].key \in Seen /\ r \in CallsFor(rec[r].key)
         /\ begun[rec[r].key] \in Nat /\ begun[rec[r].key] > 0
<1> DEFINE k == rec[r].key
<1>1. rec[r] \in Calls
  BY DEF In, RecordsOK, NotIn
<1>2. k \in Seen
  BY <1>1 DEF Calls
<1>3. r \in CallsFor(k)
  BY DEF CallsFor
<1> HIDE DEF k
<1>4. IsFiniteSet(CallsFor(k)) /\ CallsFor(k) # {}
  BY <1>3, SetsFinite
<1>5. Cardinality(CallsFor(k)) \in Nat /\ Cardinality(CallsFor(k)) # 0
  BY <1>4, FS_EmptySet, FS_CardinalityType
<1>6. fresh[k] \in Nat /\ begun[k] \in Nat
  BY <1>2 DEF RecordsOK
<1>7. fresh[k] + Cardinality(CallsFor(k)) <= begun[k]
  BY <1>2 DEF CountsOK
<1>8. begun[k] > 0
  BY <1>5, <1>6, <1>7
<1> QED
  BY <1>2, <1>3, <1>6, <1>8 DEF k

\* A key has one cell in each row.
LEMMA RowsAreCells ==
  ASSUME NEW k \in Seen, NEW row \in RowNrs
  PROVE  At(k, row) \in Cells /\ At(k, row) \in Of(k)
<1>1. /\ Hash1[k] \in Nat /\ Hash2[k] \in Nat /\ Width \in Nat \ {0}
      /\ Rows \in Nat /\ row \in Nat
  BY SketchAssumption DEF RowNrs
<1>2. row * Hash2[k] \in Nat
  BY <1>1
<1> DEFINE h == row * Hash2[k]
<1>3. Hash1[k] + h \in Nat
  BY <1>1, <1>2
<1>4. (Hash1[k] + h) % Width \in 0 .. Width - 1
  <2> HIDE DEF h
  <2> QED
    BY <1>1, <1>3
<1> QED
  BY <1>4 DEF At, Index, Cells, Of, RowNrs

\* An empty sketch has counted what was recorded.
LEMMA SketchInitInv ==
  ASSUME SketchInit
  PROVE  SketchInv
<1>0. Saturation \in Nat /\ MaxRecords \in Nat /\ IsFiniteSet(Seen) /\ 0 \in 0 .. Saturation
  BY SketchAssumption
<1>1. \A r \in Recorders : rec[r].at = "out"
  BY DEF SketchInit, NotIn
<1>2. RecordsOK
  BY <1>0, <1>1 DEF SketchInit, RecordsOK, Adding
<1>3. \A k : CallsFor(k) = {}
  BY <1>1 DEF CallsFor, In
<1>4. Uncounted = {} /\ \A k, row : Counted(k, row) = {} /\ Pending(k, row) = {}
  BY <1>1, <1>3 DEF Uncounted, Adding, Counted, Pending
<1>5. Cardinality({}) = 0
  BY FS_EmptySet
<1>6. SumFunctionOnSet(begun, Seen) \in Nat
  BY <1>0, SumType DEF SketchInit
<1>7. SumFunctionOnSet(begun, Seen) = 0
  <2> DEFINE F == [s \in SUBSET Seen |-> 0]
  <2>1. Additive(F, begun, Seen)
    BY DEF Additive, SketchInit
  <2> HIDE DEF F
  <2>2. SumFunctionOnSet(begun, Seen) = F[Seen]
    BY <1>0, <2>1, SumIsAdditive
  <2> QED
    BY <2>2 DEF F
<1>8. CountsOK
  BY <1>0, <1>3, <1>4, <1>5, <1>7 DEF CountsOK, SketchInit
<1>9. \A k \in Seen, row \in RowNrs : rows[At(k, row)] = 0
  BY RowsAreCells DEF SketchInit
<1>10. \A k \in Seen : begun[k] = 0 /\ fresh[k] = 0
  BY DEF SketchInit
<1>11. NothingLost
  BY <1>4, <1>5, <1>9, <1>10 DEF NothingLost
<1>12. NothingGained
  BY <1>3, <1>4, <1>5, <1>9, <1>10 DEF NothingGained
<1> QED
  BY <1>2, <1>8, <1>11, <1>12 DEF SketchInv

\* A Record that begins has all its rows before it.
LEMMA RecordKeeps ==
  ASSUME SketchInv, NEW r \in Recorders, NEW k \in Seen, Record(r, k)
  PROVE  SketchInv'
<1> DEFINE x == [at |-> "add", key |-> k, row |-> 0, min |-> Saturation,
                 spoilt |-> FALSE]
           Sum == SumFunctionOnSet(begun, Seen)
<1>0. /\ Saturation \in Nat \ {0} /\ MaxRecords \in Nat /\ IsFiniteSet(Seen)
      /\ Rows \in Nat \ {0}
  BY SketchAssumption
<1>1. /\ rec[r] = NotIn /\ Sum < MaxRecords
      /\ begun' = [begun EXCEPT ![k] = @ + 1]
      /\ rec' = [rec EXCEPT ![r] = x]
      /\ rows' = rows /\ counter' = counter /\ fresh' = fresh
  BY DEF Record
<1>2. x \in Calls
  BY <1>0 DEF Calls
<1>3. /\ rec' \in [Recorders -> Calls \cup {NotIn}] /\ rec'[r] = x
      /\ \A s \in Recorders : s # r => rec'[s] = rec[s]
  BY <1>1, <1>2 DEF SketchInv, RecordsOK
<1>4. /\ begun \in [Seen -> Nat] /\ fresh \in [Seen -> Nat]
      /\ begun' \in [Seen -> Nat] /\ begun'[k] = begun[k] + 1
      /\ \A l \in Seen : l # k => begun'[l] = begun[l]
  BY <1>1 DEF SketchInv, RecordsOK
<1>5. /\ x.at = "add" /\ x.row = 0 /\ x.key = k /\ NotIn.at = "out"
  BY DEF NotIn
<1> HIDE DEF x, Sum
<1>6. RecordsOK'
  <2>1. 0 \in RowNrs
    BY <1>0 DEF RowNrs
  <2>2. \A s \in Recorders :
          /\ Adding(s)' => rec'[s].row \in RowNrs
          /\ rec'[s].at = "count" => rec'[s].row = Rows - 1
    BY <1>3, <1>5, <2>1 DEF SketchInv, RecordsOK, Adding
  <2> QED
    BY <1>1, <1>3, <1>4, <2>2 DEF SketchInv, RecordsOK
<1>7. Sum' = Sum + 1 /\ Sum \in Nat
  <2> DEFINE S == Seen \ {k}
  <2>1. IsFiniteSet(S)
    BY <1>0, FS_Subset
  <2>2. SumFunctionOnSet(begun, Seen) = begun[k] + SumFunctionOnSet(begun, S)
    BY <1>0, <1>4, SumRemove
  <2>3. SumFunctionOnSet(begun', Seen) = begun'[k] + SumFunctionOnSet(begun', S)
    BY <1>0, <1>4, SumRemove
  <2>4. SumFunctionOnSet(begun, S) = SumFunctionOnSet(begun', S)
    BY <1>4, <2>1, SumSame
  <2>5. SumFunctionOnSet(begun, S) \in Nat
    BY <1>4, <2>1, SumType
  <2>6. begun[k] \in Nat
    BY <1>4
  <2> QED
    BY <1>4, <2>2, <2>3, <2>4, <2>5, <2>6 DEF Sum
<1>8. /\ r \in Uncounted' /\ r \notin Uncounted
      /\ \A l \in Seen : r \notin CallsFor(l) /\ (r \in CallsFor(l)' <=> l = k)
      /\ \A l \in Seen, row \in RowNrs :
           /\ r \notin Counted(l, row) /\ r \notin Counted(l, row)'
           /\ r \notin Pending(l, row) /\ (r \in Pending(l, row)' <=> l = k)
  <2>1. r \in Uncounted' /\ r \notin Uncounted
    BY <1>1, <1>3, <1>5 DEF Uncounted, Adding
  <2>2. \A l \in Seen : r \notin CallsFor(l) /\ (r \in CallsFor(l)' <=> l = k)
    BY <1>1, <1>3, <1>5 DEF CallsFor, In
  <2>3. \A row \in RowNrs : ~(0 > row)
    BY <1>0 DEF RowNrs
  <2>4. \A row \in RowNrs : ~Passed(r, row)'
    BY <1>3, <1>5, <2>3 DEF Passed
  <2> QED
    BY <2>1, <2>2, <2>4 DEF Counted, Pending
<1>9. CountsOK'
  <2>1. Sum' <= MaxRecords
    BY <1>0, <1>1, <1>7
  <2>2. counter' + Cardinality(Uncounted') <= Sum'
    <3>1. Cardinality(Uncounted') = Cardinality(Uncounted) + 1
      BY <1>3, <1>8, OneMoves, CountsAreNat DEF One
    <3>2. counter \in Nat /\ counter + Cardinality(Uncounted) <= Sum
      BY DEF SketchInv, RecordsOK, CountsOK, Sum
    <3> QED
      BY <1>1, <1>7, <3>1, <3>2, CountsAreNat
  <2>3. ASSUME NEW l \in Seen
        PROVE  fresh'[l] + Cardinality(CallsFor(l)') <= begun'[l]
    <3>1. Cardinality(CallsFor(l)') = Cardinality(CallsFor(l)) + One(l = k)
      BY <1>3, <1>8, OneMoves, CountsAreNat DEF One
    <3>2. begun'[l] = begun[l] + One(l = k)
      BY <1>4 DEF One
    <3>3. fresh[l] + Cardinality(CallsFor(l)) <= begun[l]
      BY DEF SketchInv, CountsOK
    <3>4. fresh[l] \in Nat /\ begun[l] \in Nat /\ One(l = k) \in Nat
      BY <1>4 DEF One
    <3> QED
      BY <1>1, <3>1, <3>2, <3>3, <3>4, CountsAreNat
  <2> QED
    BY <2>1, <2>2, <2>3 DEF CountsOK, Sum
<1>10. NothingLost'
  <2>1. \A l \in Seen, row \in RowNrs :
          Cardinality(Counted(l, row)') = Cardinality(Counted(l, row))
    BY <1>3, <1>8, OneMoves, CountsAreNat DEF One
  <2> QED
    BY <1>1, <2>1 DEF SketchInv, NothingLost, At
<1>11. NothingGained'
  <2> SUFFICES ASSUME NEW l \in Seen, NEW row \in RowNrs, Unshared(l, row)'
               PROVE  /\ rows[At(l, row)] + Cardinality(Pending(l, row)') <= begun'[l]
                      /\ \A s \in CallsFor(l)' :
                           Loaded(s, row)' => rec'[s].min <= begun'[l]
    BY <1>1 DEF NothingGained, At
  <2>1. Unshared(l, row)
    <3>1. \A j \in Seen : begun'[j] = 0 => begun[j] = 0
      BY <1>4
    <3> QED
      BY <3>1 DEF Unshared, At, Of
  <2>2. /\ rows[At(l, row)] + Cardinality(Pending(l, row)) <= begun[l]
        /\ \A s \in CallsFor(l) : Loaded(s, row) => rec[s].min <= begun[l]
    BY <2>1 DEF SketchInv, NothingGained
  <2>3. begun'[l] = begun[l] + One(l = k) /\ begun[l] \in Nat /\ One(l = k) \in Nat
    BY <1>4 DEF One
  <2>4. Cardinality(Pending(l, row)') = Cardinality(Pending(l, row)) + One(l = k)
    BY <1>3, <1>8, OneMoves, CountsAreNat DEF One
  <2>5. rows[At(l, row)] \in Nat
    BY <1>0, RowsAreCells DEF SketchInv, RecordsOK
  <2>6. rows[At(l, row)] + Cardinality(Pending(l, row)') <= begun'[l]
    BY <2>2, <2>3, <2>4, <2>5, CountsAreNat
  <2>7. ASSUME NEW s \in CallsFor(l)', Loaded(s, row)'
        PROVE  rec'[s].min <= begun'[l]
    <3>1. s # r
      <4>1. ~(0 > row)
        BY <1>0 DEF RowNrs
      <4> QED
        BY <1>3, <1>5, <2>7, <4>1 DEF Loaded, Adding
    <3>2. s \in Recorders /\ rec'[s] = rec[s]
      BY <1>3, <3>1 DEF CallsFor
    <3>3. s \in CallsFor(l) /\ Loaded(s, row)
      BY <2>7, <3>2 DEF CallsFor, In, Loaded, Adding
    <3>4. rec[s].min <= begun[l]
      BY <2>2, <3>3
    <3>5. rec[s].min \in 0 .. Saturation
      BY <3>2, <3>3 DEF SketchInv, RecordsOK, CallsFor, In, NotIn, Calls
    <3> QED
      BY <1>0, <2>3, <3>2, <3>4, <3>5
  <2> QED
    BY <2>6, <2>7
<1> QED
  BY <1>6, <1>9, <1>10, <1>11 DEF SketchInv

(* What a call in progress has.                                             *)
LEMMA CallTyped ==
  ASSUME RecordsOK, NEW r \in Recorders, In(r)
  PROVE  /\ rec[r] \in Calls /\ rec[r].key \in Seen /\ rec[r].row \in Nat
         /\ rec[r].min \in 0 .. Saturation /\ rec[r].spoilt \in BOOLEAN
         /\ Adding(r) => rec[r].row \in RowNrs
<1>1. rec[r] \in Calls
  BY DEF In, RecordsOK, NotIn
<1> QED
  BY <1>1 DEF Calls, RecordsOK

\* An increment that is pending becomes one that is counted.
LEMMA AddKeeps ==
  ASSUME SketchInv, NEW r \in Recorders, AddToCell(r)
  PROVE  SketchInv'
<1> DEFINE k == rec[r].key
           n == rec[r].row
           c == At(k, n)
<1>0. Saturation \in Nat \ {0} /\ Rows \in Nat \ {0}
  BY SketchAssumption
<1>1. /\ rec[r].at = "add" /\ rec' = [rec EXCEPT ![r].at = "load"]
      /\ rows' = [rows EXCEPT ![c] = PlusOne(@)]
      /\ counter' = counter /\ begun' = begun /\ fresh' = fresh
  BY DEF AddToCell, Cell, At
<1>2. In(r) /\ Adding(r)
  BY <1>1 DEF In, Adding
<1>3. /\ rec[r] \in Calls /\ k \in Seen /\ n \in RowNrs /\ c \in Cells
      /\ rec[r].spoilt \in BOOLEAN
  BY <1>2, CallTyped, RowsAreCells DEF SketchInv
<1>4. rec' = [rec EXCEPT ![r] = [rec[r] EXCEPT !.at = "load"]]
  BY <1>1
<1>5. /\ rec' \in [Recorders -> Calls \cup {NotIn}]
      /\ \A s \in Recorders : s # r => rec'[s] = rec[s]
      /\ rec'[r].at = "load" /\ rec'[r].key = k /\ rec'[r].row = n
      /\ rec'[r].min = rec[r].min /\ rec'[r].spoilt = rec[r].spoilt
  <2>1. [rec[r] EXCEPT !.at = "load"] \in Calls
    BY <1>3 DEF Calls
  <2>2. rec'[r] = [rec[r] EXCEPT !.at = "load"]
    BY <1>4 DEF SketchInv, RecordsOK
  <2>3. /\ rec'[r].at = "load" /\ rec'[r].key = k /\ rec'[r].row = n
        /\ rec'[r].min = rec[r].min /\ rec'[r].spoilt = rec[r].spoilt
    BY <1>3, <2>2 DEF Calls
  <2>4. rec' \in [Recorders -> Calls \cup {NotIn}]
    BY <1>4, <2>1 DEF SketchInv, RecordsOK
  <2>5. \A s \in Recorders : s # r => rec'[s] = rec[s]
    BY <1>4 DEF SketchInv, RecordsOK
  <2> QED
    BY <2>3, <2>4, <2>5
<1>6. /\ rows \in [Cells -> 0 .. Saturation] /\ rows' \in [Cells -> 0 .. Saturation]
      /\ \A d \in Cells : d # c => rows'[d] = rows[d]
      /\ rows'[c] = rows[c] + 1 \/ (rows'[c] = rows[c] /\ rows[c] = Saturation)
  <2>1. rows[c] \in 0 .. Saturation
    BY <1>3 DEF SketchInv, RecordsOK
  <2>2. PlusOne(rows[c]) \in 0 .. Saturation
    BY <1>0, <2>1 DEF PlusOne
  <2>3. PlusOne(rows[c]) = rows[c] + 1
        \/ (PlusOne(rows[c]) = rows[c] /\ rows[c] = Saturation)
    BY <1>0, <2>1 DEF PlusOne
  <2> HIDE DEF c
  <2> QED
    BY <1>1, <1>3, <2>2, <2>3 DEF SketchInv, RecordsOK
<1>7. r \in CallsFor(k) /\ begun[k] > 0 /\ begun[k] \in Nat
  BY <1>2, CallsBegan DEF SketchInv
<1> HIDE DEF k, n
<1>8. RecordsOK'
  BY <1>1, <1>2, <1>3, <1>5, <1>6 DEF SketchInv, RecordsOK, Adding
<1>9. /\ r \in Uncounted' /\ r \in Uncounted
      /\ \A l \in Seen : (r \in CallsFor(l) <=> l = k) /\ (r \in CallsFor(l)' <=> l = k)
      /\ \A l \in Seen, row \in RowNrs :
           /\ Passed(r, row) <=> n > row
           /\ Passed(r, row)' <=> n >= row
  <2>1. r \in Uncounted' /\ r \in Uncounted
    BY <1>2, <1>5 DEF Uncounted, Adding
  <2>2. \A l \in Seen : (r \in CallsFor(l) <=> l = k) /\ (r \in CallsFor(l)' <=> l = k)
    BY <1>2, <1>5 DEF CallsFor, In, k
  <2>3. \A l \in Seen, row \in RowNrs :
           /\ Passed(r, row) <=> n > row
           /\ Passed(r, row)' <=> n >= row
    BY <1>1, <1>5 DEF Passed, n
  <2> QED
    BY <2>1, <2>2, <2>3
<1>10. CountsOK'
  <2>1. Cardinality(Uncounted') = Cardinality(Uncounted)
    BY <1>5, <1>9, OneMoves, CountsAreNat DEF One
  <2>2. \A l \in Seen : Cardinality(CallsFor(l)') = Cardinality(CallsFor(l))
    BY <1>5, <1>9, OneMoves, CountsAreNat DEF One
  <2> QED
    BY <1>1, <2>1, <2>2 DEF SketchInv, CountsOK
<1>11. ASSUME NEW l \in Seen, NEW row \in RowNrs, At(l, row) # c
       PROVE  row # n \/ l # k
  BY <1>11 DEF k, n
<1>12. n \in Int /\ \A row \in RowNrs : row \in Int
  BY <1>0, <1>3 DEF RowNrs
<1>13. NothingLost'
  <2> SUFFICES ASSUME NEW l \in Seen, NEW row \in RowNrs
               PROVE  \/ rows'[At(l, row)] = Saturation
                      \/ rows'[At(l, row)] >= fresh[l] + Cardinality(Counted(l, row)')
    BY <1>1 DEF NothingLost, At
  <2> DEFINE d == At(l, row)
  <2>1. d \in Cells /\ rows[d] \in 0 .. Saturation /\ fresh[l] \in Nat
    BY RowsAreCells DEF SketchInv, RecordsOK
  <2>2. rows[d] = Saturation \/ rows[d] >= fresh[l] + Cardinality(Counted(l, row))
    BY DEF SketchInv, NothingLost
  <2>3. Cardinality(Counted(l, row)') = Cardinality(Counted(l, row))
           + One(r \in Counted(l, row)') - One(r \in Counted(l, row))
    BY <1>5, OneMoves
  <2>4. One(r \in Counted(l, row)') \in {0, 1} /\ One(r \in Counted(l, row)) \in {0, 1}
    BY DEF One
  <2>5. CASE d = c
    <3>1. rows'[d] = rows[d] + 1 \/ (rows'[d] = rows[d] /\ rows[d] = Saturation)
      BY <1>6, <2>5
    <3>2. rows'[d] \in 0 .. Saturation
      BY <1>6, <2>1
    <3>3. Cardinality(Counted(l, row)') <= Cardinality(Counted(l, row)) + 1
      BY <2>3, <2>4, CountsAreNat
    <3>4. \/ rows'[d] = Saturation
          \/ rows'[d] >= fresh[l] + Cardinality(Counted(l, row)')
      <4> DEFINE m == Cardinality(Counted(l, row)')
                 o == Cardinality(Counted(l, row))
      <4>1. m \in Int /\ o \in Nat /\ m <= o + 1
        <5>1. o \in Nat
          BY CountsAreNat
        <5>2. m = o + One(r \in Counted(l, row)') - One(r \in Counted(l, row))
          BY <2>3
        <5> HIDE DEF m, o
        <5> QED
          BY <2>4, <5>1, <5>2
      <4>2. rows[d] = Saturation \/ rows[d] >= fresh[l] + o
        BY <2>2
      <4> HIDE DEF d, m, o
      <4>3. rows'[d] = Saturation \/ rows'[d] >= fresh[l] + m
        BY <1>0, <2>1, <3>1, <3>2, <4>1, <4>2
      <4> QED
        BY <4>3 DEF m
    <3> QED
      BY <3>4
  <2>6. CASE d # c
    <3>1. rows'[d] = rows[d]
      BY <1>6, <2>1, <2>6
    <3>2. r \in Counted(l, row)' <=> r \in Counted(l, row)
      <4>1. l = k => (n > row <=> n >= row)
        BY <1>11, <1>12, <2>6
      <4> QED
        BY <1>5, <1>9, <4>1 DEF Counted
    <3>3. Cardinality(Counted(l, row)') = Cardinality(Counted(l, row))
      BY <2>3, <3>2, CountsAreNat DEF One
    <3> QED
      BY <2>2, <3>1, <3>3
  <2> QED
    BY <2>5, <2>6
<1>14. NothingGained'
  <2> SUFFICES ASSUME NEW l \in Seen, NEW row \in RowNrs, Unshared(l, row)'
               PROVE  /\ rows'[At(l, row)] + Cardinality(Pending(l, row)') <= begun[l]
                      /\ \A s \in CallsFor(l)' :
                           Loaded(s, row)' => rec'[s].min <= begun[l]
    BY <1>1 DEF NothingGained, At
  <2> DEFINE d == At(l, row)
  <2>1. Unshared(l, row)
    BY <1>1 DEF Unshared, At, Of
  <2>2. /\ rows[d] + Cardinality(Pending(l, row)) <= begun[l]
        /\ \A s \in CallsFor(l) : Loaded(s, row) => rec[s].min <= begun[l]
    BY <2>1 DEF SketchInv, NothingGained
  <2>3. /\ d \in Cells /\ rows[d] \in 0 .. Saturation /\ rows'[d] \in 0 .. Saturation
        /\ begun[l] \in Nat
    BY <1>6, RowsAreCells DEF SketchInv, RecordsOK
  <2>4. Cardinality(Pending(l, row)') = Cardinality(Pending(l, row))
           + One(r \in Pending(l, row)') - One(r \in Pending(l, row))
    BY <1>5, OneMoves
  <2>5. rows'[d] + Cardinality(Pending(l, row)') <= begun[l]
    <3>1. CASE d = c
      <4>1. l = k /\ row = n
        <5>1. row = n
          BY <3>1 DEF At, c
        <5>2. c \in Of(k)
          BY <1>3, RowsAreCells
        <5>3. l = k
          BY <1>3, <1>7, <2>1, <3>1, <5>2 DEF Unshared
        <5> QED
          BY <5>1, <5>3
      <4>2. r \in Pending(l, row) /\ r \notin Pending(l, row)'
        BY <1>9, <1>12, <4>1 DEF Pending
      <4>3. Cardinality(Pending(l, row)') = Cardinality(Pending(l, row)) - 1
        BY <2>4, <4>2, CountsAreNat DEF One
      <4>4. rows'[d] <= rows[d] + 1
        BY <1>6, <2>3, <3>1
      <4> HIDE DEF d
      <4> QED
        BY <2>2, <2>3, <4>3, <4>4, CountsAreNat
    <3>2. CASE d # c
      <4>1. l = k => (n > row <=> n >= row)
        BY <1>11, <1>12, <3>2
      <4>2. r \in Pending(l, row)' <=> r \in Pending(l, row)
        BY <1>9, <4>1 DEF Pending
      <4>3. Cardinality(Pending(l, row)') = Cardinality(Pending(l, row))
        BY <2>4, <4>2, CountsAreNat DEF One
      <4>4. rows'[d] = rows[d]
        BY <1>6, <2>3, <3>2
      <4> QED
        BY <2>2, <4>3, <4>4
    <3> QED
      BY <3>1, <3>2
  <2>6. ASSUME NEW s \in CallsFor(l)', Loaded(s, row)'
        PROVE  rec'[s].min <= begun[l]
    <3>1. s \in CallsFor(l) /\ Loaded(s, row) /\ rec'[s].min = rec[s].min
      <4>1. CASE s = r
        BY <1>1, <1>5, <1>9, <2>6, <4>1 DEF Loaded, Adding, n
      <4>2. CASE s # r
        <5>1. s \in Recorders /\ rec'[s] = rec[s]
          BY <1>5, <4>2 DEF CallsFor
        <5> QED
          BY <2>6, <5>1 DEF Loaded, Adding, CallsFor, In
      <4> QED
        BY <4>1, <4>2
    <3> QED
      BY <2>2, <3>1
  <2> QED
    BY <2>5, <2>6
<1> QED
  BY <1>8, <1>10, <1>13, <1>14 DEF SketchInv

\* A load sees no more than was recorded, where no key shares the cell.
LEMMA LoadKeeps ==
  ASSUME SketchInv, NEW r \in Recorders, LoadCell(r)
  PROVE  SketchInv'
<1> DEFINE k == rec[r].key
           n == rec[r].row
           c == At(k, n)
           x == [rec[r] EXCEPT !.at = IF n = Rows - 1 THEN "count" ELSE "add",
                               !.row = IF n = Rows - 1 THEN n ELSE n + 1,
                               !.min = Smaller(rec[r].min, rows[c])]
<1>0. Saturation \in Nat \ {0} /\ Rows \in Nat \ {0}
  BY SketchAssumption
<1>1. /\ rec[r].at = "load" /\ rows' = rows
      /\ counter' = counter /\ begun' = begun /\ fresh' = fresh
  BY DEF LoadCell
<1>2. In(r) /\ Adding(r)
  BY <1>1 DEF In, Adding
<1>3. /\ rec[r] \in Calls /\ k \in Seen /\ n \in RowNrs /\ c \in Cells
      /\ rec[r].min \in 0 .. Saturation
  BY <1>2, CallTyped, RowsAreCells DEF SketchInv
<1>4. rec' = [rec EXCEPT ![r] = x]
  <2>1. rec' = [rec EXCEPT
          ![r].at = IF rec[r].row = Rows - 1 THEN "count" ELSE "add",
          ![r].row = IF rec[r].row = Rows - 1 THEN @ ELSE @ + 1,
          ![r].min = Smaller(@, rows[Cell(r)])]
    BY DEF LoadCell
  <2>2. Cell(r) = c
    BY DEF Cell, At
  <2> QED
    BY <1>3, <2>1, <2>2 DEF SketchInv, RecordsOK, Calls
<1>5. /\ rec' \in [Recorders -> Calls \cup {NotIn}]
      /\ \A s \in Recorders : s # r => rec'[s] = rec[s]
      /\ rec'[r].at = (IF n = Rows - 1 THEN "count" ELSE "add")
      /\ rec'[r].row = (IF n = Rows - 1 THEN n ELSE n + 1)
      /\ rec'[r].key = k /\ rec'[r].spoilt = rec[r].spoilt
      /\ rec'[r].min <= rec[r].min /\ rec'[r].min <= rows[c]
  <2>1. rows[c] \in 0 .. Saturation
    BY <1>3 DEF SketchInv, RecordsOK
  <2>2. /\ Smaller(rec[r].min, rows[c]) \in 0 .. Saturation
        /\ Smaller(rec[r].min, rows[c]) <= rec[r].min
        /\ Smaller(rec[r].min, rows[c]) <= rows[c]
    BY <1>0, <1>3, <2>1 DEF Smaller
  <2>3. (IF n = Rows - 1 THEN n ELSE n + 1) \in Nat
    BY <1>3 DEF RowNrs
  <2>4. x \in Calls
    BY <1>3, <2>2, <2>3 DEF Calls
  <2>5. /\ x.at = (IF n = Rows - 1 THEN "count" ELSE "add")
        /\ x.row = (IF n = Rows - 1 THEN n ELSE n + 1)
        /\ x.key = k /\ x.spoilt = rec[r].spoilt
        /\ x.min = Smaller(rec[r].min, rows[c])
    BY <1>3 DEF Calls
  <2> HIDE DEF x
  <2>6. rec'[r] = x /\ rec' \in [Recorders -> Calls \cup {NotIn}]
    BY <1>4, <2>4 DEF SketchInv, RecordsOK
  <2>7. \A s \in Recorders : s # r => rec'[s] = rec[s]
    BY <1>4 DEF SketchInv, RecordsOK
  <2> QED
    BY <2>2, <2>5, <2>6, <2>7
<1>6. r \in CallsFor(k)
  BY <1>2 DEF CallsFor
<1> HIDE DEF k, n, c, x
<1>7. n \in Nat /\ n <= Rows - 1 /\ \A row \in RowNrs : row \in Nat /\ row <= Rows - 1
  BY <1>0, <1>3 DEF RowNrs
<1>8. RecordsOK'
  <2>1. Adding(r)' => rec'[r].row \in RowNrs
    BY <1>0, <1>3, <1>5 DEF Adding, RowNrs
  <2>2. rec'[r].at = "count" => rec'[r].row = Rows - 1
    BY <1>5
  <2>3. \A s \in Recorders :
          /\ Adding(s)' => rec'[s].row \in RowNrs
          /\ rec'[s].at = "count" => rec'[s].row = Rows - 1
    BY <1>5, <2>1, <2>2 DEF SketchInv, RecordsOK, Adding
  <2> QED
    BY <1>1, <1>5, <2>3 DEF SketchInv, RecordsOK
<1>9. /\ r \in Uncounted' /\ r \in Uncounted
      /\ \A l \in Seen : r \in CallsFor(l)' <=> r \in CallsFor(l)
      /\ \A row \in RowNrs :
           /\ Passed(r, row) <=> n >= row
           /\ Passed(r, row)' <=> n >= row
  <2>1. r \in Uncounted' /\ r \in Uncounted
    BY <1>2, <1>5 DEF Uncounted, Adding
  <2>2. \A l \in Seen : r \in CallsFor(l)' <=> r \in CallsFor(l)
    BY <1>2, <1>5 DEF CallsFor, In, k
  <2>3. ASSUME NEW row \in RowNrs
        PROVE  Passed(r, row) <=> n >= row
    BY <1>1 DEF Passed, n
  <2>4. ASSUME NEW row \in RowNrs
        PROVE  Passed(r, row)' <=> n >= row
    <3>1. CASE n = Rows - 1
      BY <1>5, <1>7, <3>1 DEF Passed
    <3>2. CASE n # Rows - 1
      <4>1. n + 1 > row <=> n >= row
        BY <1>7
      <4> QED
        BY <1>5, <3>2, <4>1 DEF Passed
    <3> QED
      BY <3>1, <3>2
  <2> QED
    BY <2>1, <2>2, <2>3, <2>4
<1>10. /\ Cardinality(Uncounted') = Cardinality(Uncounted)
       /\ \A l \in Seen : Cardinality(CallsFor(l)') = Cardinality(CallsFor(l))
  BY <1>5, <1>9, OneMoves, CountsAreNat DEF One
<1>11. \A l \in Seen, row \in RowNrs :
         /\ r \in Counted(l, row)' <=> r \in Counted(l, row)
         /\ r \in Pending(l, row)' <=> r \in Pending(l, row)
  BY <1>5, <1>9 DEF Counted, Pending
<1>12. \A l \in Seen, row \in RowNrs :
         /\ Cardinality(Counted(l, row)') = Cardinality(Counted(l, row))
         /\ Cardinality(Pending(l, row)') = Cardinality(Pending(l, row))
  BY <1>5, <1>11, OneMoves, CountsAreNat DEF One
<1>13. CountsOK' /\ NothingLost'
  BY <1>1, <1>10, <1>12 DEF SketchInv, CountsOK, NothingLost, At
<1>14. NothingGained'
  <2> SUFFICES ASSUME NEW l \in Seen, NEW row \in RowNrs, Unshared(l, row)'
               PROVE  /\ rows[At(l, row)] + Cardinality(Pending(l, row)') <= begun[l]
                      /\ \A s \in CallsFor(l)' :
                           Loaded(s, row)' => rec'[s].min <= begun[l]
    BY <1>1 DEF NothingGained, At
  <2>1. Unshared(l, row)
    BY <1>1 DEF Unshared, At, Of
  <2>2. /\ rows[At(l, row)] + Cardinality(Pending(l, row)) <= begun[l]
        /\ \A s \in CallsFor(l) : Loaded(s, row) => rec[s].min <= begun[l]
    BY <2>1 DEF SketchInv, NothingGained
  <2>3. rows[At(l, row)] \in 0 .. Saturation /\ begun[l] \in Nat
    BY RowsAreCells DEF SketchInv, RecordsOK
  <2>4. ASSUME NEW s \in CallsFor(l)', Loaded(s, row)'
        PROVE  rec'[s].min <= begun[l]
    <3>1. CASE s # r
      <4>1. s \in Recorders /\ rec'[s] = rec[s]
        BY <1>5, <3>1 DEF CallsFor
      <4> QED
        BY <2>2, <2>4, <4>1 DEF Loaded, Adding, CallsFor, In
    <3>2. CASE s = r
      <4>1. l = k
        BY <1>5, <2>4, <3>2 DEF CallsFor
      <4>2. rec'[r].min \in 0 .. Saturation
        BY <1>5, <2>4, <3>2 DEF CallsFor, In, Calls, NotIn
      <4>3. CASE row = n
        <5>1. rec'[r].min <= rows[At(l, row)]
          BY <1>5, <4>1, <4>3 DEF c
        <5> QED
          BY <1>0, <2>2, <2>3, <3>2, <4>2, <5>1, CountsAreNat
      <4>4. CASE row # n
        <5>1. n > row
          <6>1. CASE n = Rows - 1
            BY <1>7, <4>4, <6>1
          <6>2. CASE n # Rows - 1
            <7>1. n + 1 > row
              BY <1>5, <2>4, <3>2, <6>2 DEF Loaded, Adding
            <7> QED
              BY <1>7, <4>4, <7>1
          <6> QED
            BY <6>1, <6>2
        <5>2. rec[r].min <= begun[l]
          BY <1>6, <2>2, <4>1, <5>1 DEF Loaded, n
        <5> QED
          BY <1>0, <1>3, <1>5, <2>3, <3>2, <4>2, <5>2
      <4> QED
        BY <4>3, <4>4
    <3> QED
      BY <3>1, <3>2
  <2> QED
    BY <1>12, <2>2, <2>4
<1> QED
  BY <1>8, <1>13, <1>14 DEF SketchInv

\* The counter of the decay lags behind what was begun.
LEMMA CountKeeps ==
  ASSUME SketchInv, NEW r \in Recorders, CountUp(r)
  PROVE  SketchInv'
<1> DEFINE x == IF counter' % Period = 0
                THEN [rec[r] EXCEPT !.at = "decay", !.row = 0]
                ELSE [rec[r] EXCEPT !.at = "done"]
<1>1. /\ rec[r].at = "count" /\ rows' = rows /\ begun' = begun /\ fresh' = fresh
      /\ counter' = counter + 1 /\ rec' = [rec EXCEPT ![r] = x]
  BY DEF CountUp
<1>2. In(r)
  BY <1>1 DEF In
<1>3. rec[r] \in Calls
  BY <1>2, CallTyped DEF SketchInv
<1>4. /\ x \in Calls /\ x.at \in {"decay", "done"} /\ x.key = rec[r].key
      /\ x.min = rec[r].min /\ x.spoilt = rec[r].spoilt
  BY <1>3 DEF Calls
<1> HIDE DEF x
<1>5. /\ rec' \in [Recorders -> Calls \cup {NotIn}] /\ rec'[r] = x
      /\ \A s \in Recorders : s # r => rec'[s] = rec[s]
  BY <1>1, <1>4 DEF SketchInv, RecordsOK
<1>6. counter \in Nat
  BY DEF SketchInv, RecordsOK
<1>7. RecordsOK'
  BY <1>1, <1>4, <1>5, <1>6 DEF SketchInv, RecordsOK, Adding
<1>8. r \in Uncounted /\ r \notin Uncounted'
  BY <1>1, <1>4, <1>5 DEF Uncounted, Adding
<1>9. \A l \in Seen : CallsFor(l)' = CallsFor(l)
  <2>1. \A l \in Seen, s \in Recorders : s \in CallsFor(l)' <=> s \in CallsFor(l)
    BY <1>2, <1>4, <1>5 DEF CallsFor, In
  <2> QED
    BY <2>1 DEF CallsFor
<1>10. \A row, s : s \in Recorders =>
         /\ Passed(s, row)' <=> Passed(s, row)
         /\ Loaded(s, row)' <=> Loaded(s, row)
  BY <1>1, <1>4, <1>5 DEF Passed, Loaded, Adding
<1>11. \A s \in Recorders : In(s) => rec'[s].min = rec[s].min /\ rec'[s].spoilt = rec[s].spoilt
  BY <1>4, <1>5
<1>12. \A l \in Seen : \A s \in CallsFor(l) : s \in Recorders /\ In(s)
  BY DEF CallsFor
<1>13. \A l \in Seen, row \in RowNrs :
         Counted(l, row)' = Counted(l, row) /\ Pending(l, row)' = Pending(l, row)
  BY <1>9, <1>10, <1>11, <1>12 DEF Counted, Pending
<1>14. CountsOK'
  <2>1. Cardinality(Uncounted') = Cardinality(Uncounted) - 1
    BY <1>5, <1>8, OneMoves, CountsAreNat DEF One
  <2>2. counter + Cardinality(Uncounted) <= SumFunctionOnSet(begun, Seen)
    BY DEF SketchInv, CountsOK
  <2>3. counter' + Cardinality(Uncounted') = counter + Cardinality(Uncounted)
    BY <1>1, <1>6, <2>1, CountsAreNat
  <2> QED
    BY <1>1, <1>9, <2>2, <2>3 DEF SketchInv, CountsOK
<1>15. NothingLost'
  BY <1>1, <1>13 DEF SketchInv, NothingLost, At
<1>16. NothingGained'
  <2>1. \A l \in Seen, row \in RowNrs : Unshared(l, row)' => Unshared(l, row)
    BY <1>1 DEF Unshared, At, Of
  <2> QED
    BY <1>1, <1>9, <1>10, <1>11, <1>12, <1>13, <2>1 DEF SketchInv, NothingGained, At
<1> QED
  BY <1>7, <1>14, <1>15, <1>16 DEF SketchInv

\* A cell is halved, and no record from before is counted on.
LEMMA DecayKeeps ==
  ASSUME SketchInv, NEW r \in Recorders, DecayCell(r)
  PROVE  SketchInv'
<1>0. Saturation \in Nat \ {0} /\ Rows \in Nat \ {0}
  BY SketchAssumption
<1>1. /\ rec[r].at = "decay" /\ counter' = counter /\ begun' = begun
      /\ fresh' = [k \in Seen |-> 0]
      /\ rows' = [rows EXCEPT ![Nth(rec[r].row)] = Halved(@)]
  BY DEF DecayCell
<1> DEFINE x == [rec[r] EXCEPT !.spoilt = TRUE, !.row = @ + 1,
                   !.at = IF rec[r].row + 1 = Rows * Width THEN "done" ELSE "decay"]
<1>2. In(r)
  BY <1>1 DEF In
<1>3. rec[r] \in Calls /\ rec[r].row + 1 \in Nat
  BY <1>2, CallTyped DEF SketchInv
<1>4. /\ x \in Calls /\ x.at \in {"decay", "done"} /\ x.key = rec[r].key
      /\ x.min = rec[r].min /\ x.spoilt = TRUE
  BY <1>3 DEF Calls
<1>5. \A s \in Recorders :
        rec'[s] = IF s = r THEN x
                  ELSE IF rec[s] = NotIn THEN NotIn ELSE [rec[s] EXCEPT !.spoilt = TRUE]
  BY DEF DecayCell
<1> HIDE DEF x
<1>6. ASSUME NEW s \in Recorders
      PROVE  /\ rec'[s] \in Calls \cup {NotIn}
             /\ In(s)' <=> In(s)
             /\ In(s) => /\ rec'[s].key = rec[s].key /\ rec'[s].min = rec[s].min
                         /\ rec'[s].spoilt = TRUE
             /\ s # r => rec'[s].at = rec[s].at
             /\ s # r /\ In(s) => rec'[s].row = rec[s].row
  <2>1. CASE s = r
    BY <1>2, <1>4, <1>5, <2>1 DEF In
  <2>2. CASE s # r /\ rec[s] = NotIn
    BY <1>5, <2>2 DEF In, NotIn
  <2>3. CASE s # r /\ rec[s] # NotIn
    <3>1. rec[s] \in Calls
      BY <2>3 DEF SketchInv, RecordsOK
    <3>2. rec'[s] = [rec[s] EXCEPT !.spoilt = TRUE]
      BY <1>5, <2>3
    <3>3. In(s) /\ In(s)'
      BY <3>1, <3>2 DEF In, Calls
    <3> QED
      BY <2>3, <3>1, <3>2, <3>3 DEF Calls
  <2> QED
    BY <2>1, <2>2, <2>3
<1>7. rec'[r].at \in {"decay", "done"}
  BY <1>4, <1>5
<1>8. \A s \in Recorders :
        /\ Adding(s)' <=> Adding(s)
        /\ rec'[s].at = "count" <=> rec[s].at = "count"
        /\ \A row : (Passed(s, row)' <=> Passed(s, row)) /\ (Loaded(s, row)' <=> Loaded(s, row))
  BY <1>1, <1>6, <1>7 DEF Adding, Passed, Loaded, In
<1>9. /\ rows' \in [Cells -> 0 .. Saturation]
      /\ \A c \in Cells : rows'[c] <= rows[c]
  <2>1. \A v \in 0 .. Saturation : Halved(v) \in 0 .. Saturation /\ Halved(v) <= v
    BY <1>0 DEF Halved
  <2>2. rows \in [Cells -> 0 .. Saturation]
    BY DEF SketchInv, RecordsOK
  <2> DEFINE d == Nth(rec[r].row)
  <2>3. ASSUME NEW c \in Cells
        PROVE  rows'[c] \in 0 .. Saturation /\ rows'[c] <= rows[c]
    <3>1. rows'[c] = IF c = d THEN Halved(rows[c]) ELSE rows[c]
      BY <1>1, <2>2
    <3>2. rows[c] \in 0 .. Saturation /\ rows[c] <= rows[c]
      BY <1>0, <2>2
    <3> QED
      BY <2>1, <3>1, <3>2
  <2>4. rows' = [c \in Cells |-> rows'[c]]
    BY <1>1, <2>2
  <2> QED
    BY <2>3, <2>4
<1>10. RecordsOK'
  <2>1. rec' \in [Recorders -> Calls \cup {NotIn}]
    <3>1. rec' = [s \in Recorders |-> rec'[s]]
      BY DEF DecayCell
    <3> QED
      BY <1>6, <3>1
  <2>2. \A s \in Recorders :
          /\ Adding(s)' => rec'[s].row \in RowNrs
          /\ rec'[s].at = "count" => rec'[s].row = Rows - 1
    BY <1>6, <1>7, <1>8 DEF SketchInv, RecordsOK, Adding, In
  <2>3. fresh' \in [Seen -> Nat]
    BY <1>1
  <2> QED
    BY <1>1, <1>9, <2>1, <2>2, <2>3 DEF SketchInv, RecordsOK
<1>11. Uncounted' = Uncounted /\ \A k \in Seen : CallsFor(k)' = CallsFor(k)
  <2>1. \A s \in Recorders : s \in Uncounted' <=> s \in Uncounted
    BY <1>8 DEF Uncounted
  <2>2. \A k \in Seen, s \in Recorders : s \in CallsFor(k)' <=> s \in CallsFor(k)
    BY <1>6 DEF CallsFor
  <2> QED
    BY <2>1, <2>2 DEF Uncounted, CallsFor
<1>12. \A k \in Seen : \A s \in CallsFor(k) : s \in Recorders /\ In(s)
  BY DEF CallsFor
<1>13. \A k \in Seen, row \in RowNrs :
         Counted(k, row)' = {} /\ Pending(k, row)' = Pending(k, row)
  BY <1>6, <1>8, <1>11, <1>12 DEF Counted, Pending
<1>14. CountsOK'
  <2>1. ASSUME NEW k \in Seen
        PROVE  fresh'[k] + Cardinality(CallsFor(k)') <= begun'[k]
    <3>1. fresh[k] + Cardinality(CallsFor(k)) <= begun[k] /\ fresh[k] \in Nat
          /\ begun[k] \in Nat
      BY DEF SketchInv, CountsOK, RecordsOK
    <3> QED
      BY <1>1, <1>11, <3>1, CountsAreNat
  <2> QED
    BY <1>1, <1>11, <2>1 DEF SketchInv, CountsOK
<1>15. NothingLost'
  <2>1. \A k \in Seen, row \in RowNrs : rows'[At(k, row)] \in 0 .. Saturation
    BY <1>9, RowsAreCells
  <2>2. Cardinality({}) = 0
    BY FS_EmptySet
  <2>3. \A k \in Seen, row \in RowNrs :
          rows'[At(k, row)] >= fresh'[k] + Cardinality(Counted(k, row)')
    BY <1>0, <1>1, <1>13, <2>1, <2>2
  <2> QED
    BY <2>3 DEF NothingLost, At
<1>16. NothingGained'
  <2> SUFFICES ASSUME NEW k \in Seen, NEW row \in RowNrs, Unshared(k, row)'
               PROVE  /\ rows'[At(k, row)] + Cardinality(Pending(k, row)') <= begun[k]
                      /\ \A s \in CallsFor(k)' :
                           Loaded(s, row)' => rec'[s].min <= begun[k]
    BY <1>1 DEF NothingGained, At
  <2>1. Unshared(k, row)
    BY <1>1 DEF Unshared, At, Of
  <2>2. /\ rows[At(k, row)] + Cardinality(Pending(k, row)) <= begun[k]
        /\ \A s \in CallsFor(k) : Loaded(s, row) => rec[s].min <= begun[k]
    BY <2>1 DEF SketchInv, NothingGained
  <2> DEFINE c == At(k, row)
  <2>3. /\ rows[c] \in 0 .. Saturation /\ rows'[c] \in 0 .. Saturation
        /\ rows'[c] <= rows[c] /\ begun[k] \in Nat
    BY <1>9, RowsAreCells DEF SketchInv, RecordsOK
  <2>4. rows'[c] + Cardinality(Pending(k, row)) <= begun[k]
    <3> HIDE DEF c
    <3>1. rows[c] + Cardinality(Pending(k, row)) <= begun[k]
      BY <2>2 DEF c
    <3> QED
      BY <1>0, <2>3, <3>1, CountsAreNat
  <2> QED
    BY <1>6, <1>8, <1>11, <1>12, <1>13, <2>2, <2>4
<1> QED
  BY <1>10, <1>14, <1>15, <1>16 DEF SketchInv

\* A Record that ends leaves its increments in the cells.
LEMMA RecordedKeeps ==
  ASSUME SketchInv, NEW r \in Recorders, Recorded(r)
  PROVE  SketchInv'
<1> DEFINE k == rec[r].key
<1>1. /\ rec[r].at = "done" /\ rows' = rows /\ counter' = counter
      /\ begun' = begun /\ rec' = [rec EXCEPT ![r] = NotIn]
      /\ fresh' = IF rec[r].spoilt THEN fresh ELSE [fresh EXCEPT ![k] = @ + 1]
  BY DEF Recorded
<1>2. In(r)
  BY <1>1 DEF In
<1>3. k \in Seen /\ rec[r].spoilt \in BOOLEAN /\ NotIn.at = "out"
  BY <1>2, CallTyped DEF SketchInv, NotIn
<1>4. /\ rec' \in [Recorders -> Calls \cup {NotIn}] /\ rec'[r] = NotIn
      /\ \A s \in Recorders : s # r => rec'[s] = rec[s]
  BY <1>1 DEF SketchInv, RecordsOK
<1> DEFINE sound == ~rec[r].spoilt
<1>5. /\ fresh \in [Seen -> Nat] /\ fresh' \in [Seen -> Nat]
      /\ \A l \in Seen : fresh'[l] = fresh[l] + One(l = k /\ sound)
  <2>1. fresh \in [Seen -> Nat]
    BY DEF SketchInv, RecordsOK
  <2>2. CASE sound
    BY <1>1, <1>3, <2>1, <2>2 DEF One
  <2>3. CASE ~sound
    BY <1>1, <2>1, <2>3 DEF One
  <2> QED
    BY <2>1, <2>2, <2>3
<1>6. /\ r \notin Uncounted /\ r \notin Uncounted'
      /\ \A l \in Seen : (r \in CallsFor(l) <=> l = k) /\ r \notin CallsFor(l)'
      /\ \A l \in Seen, row \in RowNrs :
           /\ r \notin Pending(l, row) /\ r \notin Pending(l, row)'
           /\ r \in Counted(l, row) <=> l = k /\ sound
           /\ r \notin Counted(l, row)'
  <2>1. r \notin Uncounted /\ r \notin Uncounted'
    BY <1>1, <1>3, <1>4 DEF Uncounted, Adding
  <2>2. \A l \in Seen : (r \in CallsFor(l) <=> l = k) /\ r \notin CallsFor(l)'
    BY <1>2, <1>3, <1>4 DEF CallsFor, In
  <2>3. \A row : Passed(r, row)
    BY <1>1 DEF Passed
  <2> QED
    BY <2>1, <2>2, <2>3 DEF Pending, Counted
<1> HIDE DEF k, sound
<1>7. RecordsOK'
  BY <1>1, <1>3, <1>4, <1>5 DEF SketchInv, RecordsOK, Adding
<1>8. Cardinality(Uncounted') = Cardinality(Uncounted)
  BY <1>4, <1>6, OneMoves, CountsAreNat DEF One
<1>9. \A l \in Seen : Cardinality(CallsFor(l)') = Cardinality(CallsFor(l)) - One(l = k)
  BY <1>4, <1>6, OneMoves, CountsAreNat DEF One
<1>10. \A l \in Seen, row \in RowNrs :
         /\ Cardinality(Pending(l, row)') = Cardinality(Pending(l, row))
         /\ Cardinality(Counted(l, row)') =
              Cardinality(Counted(l, row)) - One(l = k /\ sound)
  BY <1>4, <1>6, OneMoves, CountsAreNat DEF One
<1>11. CountsOK'
  <2>1. ASSUME NEW l \in Seen
        PROVE  fresh'[l] + Cardinality(CallsFor(l)') <= begun'[l]
    <3>1. /\ fresh[l] + Cardinality(CallsFor(l)) <= begun[l]
          /\ fresh[l] \in Nat /\ begun[l] \in Nat
      BY DEF SketchInv, CountsOK, RecordsOK
    <3>2. One(l = k /\ sound) <= One(l = k) /\ One(l = k) \in Nat
          /\ One(l = k /\ sound) \in Nat
      BY DEF One
    <3>3. /\ fresh'[l] = fresh[l] + One(l = k /\ sound)
          /\ Cardinality(CallsFor(l)') = Cardinality(CallsFor(l)) - One(l = k)
      BY <1>5, <1>9
    <3> QED
      BY <1>1, <3>1, <3>2, <3>3, CountsAreNat
  <2> QED
    BY <1>1, <1>8, <2>1 DEF SketchInv, CountsOK
<1>12. NothingLost'
  <2> SUFFICES ASSUME NEW l \in Seen, NEW row \in RowNrs
               PROVE  \/ rows[At(l, row)] = Saturation
                      \/ rows[At(l, row)] >= fresh'[l] + Cardinality(Counted(l, row)')
    BY <1>1 DEF NothingLost, At
  <2>1. \/ rows[At(l, row)] = Saturation
        \/ rows[At(l, row)] >= fresh[l] + Cardinality(Counted(l, row))
    BY DEF SketchInv, NothingLost
  <2>2. fresh[l] \in Nat /\ One(l = k /\ sound) \in Nat
    BY <1>5 DEF One
  <2>3. fresh'[l] + Cardinality(Counted(l, row)') =
          fresh[l] + Cardinality(Counted(l, row))
    BY <1>5, <1>10, <2>2, CountsAreNat
  <2> QED
    BY <2>1, <2>3
<1>13. NothingGained'
  <2>1. \A l \in Seen, row \in RowNrs : Unshared(l, row)' => Unshared(l, row)
    BY <1>1 DEF Unshared, At, Of
  <2>2. \A l \in Seen, row \in RowNrs : \A s \in CallsFor(l)' :
          s \in CallsFor(l) /\ rec'[s] = rec[s] /\ (Loaded(s, row)' => Loaded(s, row))
    <3>1. \A l \in Seen : \A s \in CallsFor(l)' : s \in Recorders /\ s # r
      BY <1>6 DEF CallsFor
    <3> QED
      BY <1>4, <3>1 DEF CallsFor, In, Loaded, Adding
  <2> QED
    BY <1>1, <1>10, <2>1, <2>2 DEF SketchInv, NothingGained, At
<1> QED
  BY <1>7, <1>11, <1>12, <1>13 DEF SketchInv

\* Every step keeps the invariant of the sketch.
LEMMA SketchStep ==
  ASSUME SketchInv, [SketchNext]_sketchVars
  PROVE  SketchInv'
<1>1. CASE UNCHANGED sketchVars
  BY <1>1 DEF sketchVars, SketchInv, RecordsOK, CountsOK, NothingLost, NothingGained,
     Adding, In, Passed, Loaded, CallsFor, Counted, Pending, Uncounted, At, Unshared, Of
<1> QED
  BY <1>1, RecordKeeps, AddKeeps, LoadKeeps, CountKeeps, DecayKeeps, RecordedKeeps
     DEF SketchNext

(* SketchInv holds in every state of the sketch, however increments and     *)
(* decays of tinylfu.go overlap.                                            *)
THEOREM SketchInvariant == SketchSpec => []SketchInv
<1>1. SketchInit => SketchInv
  BY SketchInitInv
<1>2. SketchInv /\ [SketchNext]_sketchVars => SketchInv'
  BY SketchStep
<1> QED
  BY <1>1, <1>2, PTL DEF SketchSpec

(* The compare-and-swap of a cell (tinylfu.go:288-296) loses no increment:  *)
(* whatever was recorded since the last decay is in every cell of its key.  *)
THEOREM HotAlwaysAdmitted == SketchSpec => []HotKeysAreAdmitted
<1>1. SketchInv => HotKeysAreAdmitted
  <2> SUFFICES ASSUME SketchInv
               PROVE  HotKeysAreAdmitted
    OBVIOUS
  <2>0. Saturation \in Nat /\ MaxRecords \in Nat /\ IsFiniteSet(Seen)
    BY SketchAssumption
  <2>1. /\ begun \in [Seen -> Nat] /\ fresh \in [Seen -> Nat] /\ counter \in Nat
        /\ rows \in [Cells -> 0 .. Saturation]
    BY DEF SketchInv, RecordsOK
  <2> DEFINE sum == SumFunctionOnSet(begun, Seen)
  <2>2. sum \in Nat /\ sum <= MaxRecords
    BY <2>0, <2>1, SumType DEF SketchInv, CountsOK
  <2>3. counter \in 0 .. MaxRecords
    <3>1. counter + Cardinality(Uncounted) <= sum
      BY DEF SketchInv, CountsOK
    <3> HIDE DEF sum
    <3> QED
      BY <2>0, <2>1, <2>2, <3>1, CountsAreNat
  <2>4. ASSUME NEW k \in Seen
        PROVE  begun[k] \in 0 .. MaxRecords /\ fresh[k] \in 0 .. MaxRecords
    <3>1. begun[k] <= sum
      BY <2>0, <2>1, SumRemove
    <3>2. fresh[k] + Cardinality(CallsFor(k)) <= begun[k]
      BY DEF SketchInv, CountsOK
    <3>3. begun[k] \in Nat /\ fresh[k] \in Nat
      BY <2>1
    <3> HIDE DEF sum
    <3> QED
      BY <2>0, <2>2, <3>1, <3>2, <3>3, CountsAreNat
  <2>5. begun \in [Seen -> 0 .. MaxRecords] /\ fresh \in [Seen -> 0 .. MaxRecords]
    BY <2>1, <2>4
  <2>6. \A r \in Recorders : rec[r].at \in {"out", "add", "load", "count", "decay", "done"}
    BY DEF SketchInv, RecordsOK, Calls, NotIn
  <2>7. ASSUME NEW k \in Seen, NEW c \in Of(k)
        PROVE  rows[c] >= Min({fresh[k], Saturation})
    <3>1. PICK row \in RowNrs : c = At(k, row)
      BY DEF Of, At, RowNrs
    <3>2. rows[c] = Saturation \/ rows[c] >= fresh[k] + Cardinality(Counted(k, row))
      BY <3>1 DEF SketchInv, NothingLost
    <3>3. rows[c] \in 0 .. Saturation /\ fresh[k] \in Nat
      BY <2>1, <3>1, RowsAreCells
    <3>4. Min({fresh[k], Saturation}) <= fresh[k] /\ Min({fresh[k], Saturation}) <= Saturation
          /\ Min({fresh[k], Saturation}) \in {fresh[k], Saturation}
      <4>1. \E m \in {fresh[k], Saturation} : \A y \in {fresh[k], Saturation} : m <= y
        <5>1. CASE fresh[k] <= Saturation
          BY <2>0, <3>3, <5>1
        <5>2. CASE ~(fresh[k] <= Saturation)
          BY <2>0, <3>3, <5>2
        <5> QED
          BY <5>1, <5>2
      <4> QED
        BY <4>1 DEF Min
    <3>5. fresh[k] + Cardinality(Counted(k, row)) >= fresh[k]
      BY <3>3, CountsAreNat
    <3> QED
      BY <2>0, <3>2, <3>3, <3>4, <3>5, CountsAreNat
  <2>8. SketchTypeOK
    BY <2>1, <2>3, <2>5, <2>6 DEF SketchTypeOK
  <2> QED
    BY <2>7, <2>8 DEF HotKeysAreAdmitted
<1> QED
  BY <1>1, SketchInvariant, PTL

(* The least of the cells (tinylfu.go:297-299) exceeds what a key was       *)
(* recorded only where each cell is shared with another recorded key.       *)
THEOREM ColdAlwaysRefused == SketchSpec => []ColdKeysAreRefused
<1>1. SketchInv => ColdKeysAreRefused
  <2> SUFFICES ASSUME SketchInv, NEW r \in Recorders, Admitted(r),
                      begun[rec[r].key] < Threshold, NEW c \in Of(rec[r].key),
                      ~\E k \in Seen \ {rec[r].key} : c \in Of(k) /\ begun[k] > 0
               PROVE  FALSE
    BY DEF ColdKeysAreRefused
  <2> DEFINE k == rec[r].key
  <2>0. Threshold \in Nat /\ Saturation \in Nat
    BY SketchAssumption
  <2>1. rec[r].at = "done" /\ rec[r].min >= Threshold /\ In(r)
    BY DEF Admitted, In
  <2>2. /\ k \in Seen /\ r \in CallsFor(k) /\ begun[k] \in Nat
        /\ rec[r].min \in 0 .. Saturation
    BY <2>1, CallsBegan, CallTyped DEF SketchInv
  <2>3. PICK row \in RowNrs : c = At(k, row)
    BY DEF Of, At, RowNrs
  <2>4. Unshared(k, row)
    <3>1. \A l \in Seen : begun[l] \in Nat
      BY DEF SketchInv, RecordsOK
    <3> QED
      BY <2>3, <3>1 DEF Unshared
  <2>5. Loaded(r, row)
    BY <2>1 DEF Loaded, Adding
  <2>6. rec[r].min <= begun[k]
    BY <2>2, <2>4, <2>5 DEF SketchInv, NothingGained
  <2> HIDE DEF k
  <2>7. begun[k] < Threshold
    BY DEF k
  <2> QED
    BY <2>0, <2>1, <2>2, <2>6, <2>7
<1> QED
  BY <1>1, SketchInvariant, PTL
=============================================================================
