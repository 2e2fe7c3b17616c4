--------------------------- MODULE QueryWalkProofs ---------------------------
(***************************************************************************)
(* The walk of QueryPaging goes up, skips no steady row and returns only     *)
(* rows that match, for any keys, values, limits, writes and expiries.       *)
(***************************************************************************)
EXTENDS QueryPaging, DataLemmas

Queries == [by : {"generated", "admin"}, unique : BOOLEAN,
            where : Seq(Conditions), limit : Limits]
Pages == Seq([pk : Pks, row : Records, then : Records \cup {None}])
Iterators ==
  [keys : SUBSET Pks, snap : [Pks -> Records \cup {None}],
   pos : Pks \cup {0, None}, resumed : BOOLEAN, evict : Pks \cup {None},
   kept : SUBSET Pks]

Shape ==
  /\ query \in Queries
  /\ query.by = "admin" => query.where = <<>>
  /\ rows \in [Pks -> Records \cup {None}]
  /\ after \in Pks \cup {0}
  /\ iter # None => iter \in Iterators
  /\ page \in Pages /\ Len(page) <= query.limit
  /\ done \in BOOLEAN
  /\ events \in 0 .. MaxEvents
  /\ seen \in Seq(Pks)
  /\ steady \subseteq Pks

(* What write guarantees of a table with a unique index on F.               *)
UniqueRows ==
  query.unique => \A p, q \in Pks :
    p # q /\ rows[p] # None /\ rows[q] # None => rows[p].f # rows[q].f

SeenAscends ==
  /\ \A i \in DOMAIN seen : seen[i] <= after
  /\ \A i, j \in DOMAIN seen : i < j => seen[i] < seen[j]

(* Where the iterator stands.                                               *)
PositionOK ==
  /\ iter.resumed =>
       after # 0 /\ page = <<>> /\ iter.pos = PastCursor(iter.keys)
  /\ ~iter.resumed => iter.pos # None /\ iter.pos >= after

(* The entries of an index are those of the rows the iterator began with.   *)
KeysOK ==
  Indexed =>
    /\ \A k \in iter.keys :
         iter.snap[k] # None /\ iter.snap[k].f = query.where[1].value
    /\ query.unique => \A j, k \in iter.keys : j = k

(* The page lies behind the cursor and not behind the iterator.             *)
PageInOrder ==
  /\ \A i \in DOMAIN page :
       page[i].pk \in iter.keys /\ page[i].pk > after /\ page[i].pk <= iter.pos
  /\ \A i, j \in DOMAIN page : i < j => page[i].pk < page[j].pk
  /\ query.by = "generated" => Len(page) < query.limit

Returned(p) == \E i \in DOMAIN page : page[i].pk = p

(* A steady row matches, in the table as in the snapshot; it is in the page *)
(* once the iterator has passed it, and seen once the cursor has.           *)
SteadyRow(p) ==
  /\ rows[p] # None /\ ~rows[p].old /\ MatchesFrom(1, rows[p])
  /\ done \/ p <= after => p \in ToSet(seen)
  /\ Indexed /\ query.unique /\ after # 0 => p <= after

SteadyKey(p) ==
  /\ p \in iter.keys /\ p # iter.evict
  /\ iter.snap[p] # None /\ ~iter.snap[p].old /\ MatchesFrom(1, iter.snap[p])
  /\ ~iter.resumed /\ p > after /\ p <= iter.pos => Returned(p)

Walk ==
  /\ UniqueRows
  /\ SeenAscends
  /\ iter # None => PositionOK /\ KeysOK /\ PageInOrder
  /\ \A p \in steady : SteadyRow(p) /\ (iter # None => SteadyKey(p))
  /\ ResultsMatch

-----------------------------------------------------------------------------
\* FirstOf is the least key of a set, and None of the empty set.
LEMMA FirstIsLeast ==
  ASSUME NEW S \in SUBSET Pks
  PROVE  /\ S = {} => FirstOf(S) = None
         /\ S # {} => /\ FirstOf(S) \in S
                      /\ FirstOf(S) # None
                      /\ \A y \in S : FirstOf(S) <= y
<1> SUFFICES ASSUME S # {}
             PROVE  FirstOf(S) \in S /\ \A y \in S : FirstOf(S) <= y
  BY PagingAssumption DEF FirstOf
<1>1. \E x \in S : \A y \in S : x <= y
  BY LeastExists, PagingAssumption
<1> QED
  BY <1>1 DEF FirstOf, Min

-----------------------------------------------------------------------------
\* A walk starts before the first key with nothing returned.
LEMMA InitInv == Init => Shape /\ Walk
<1> SUFFICES ASSUME Init PROVE Shape /\ Walk
  OBVIOUS
<1>1. Wheres \subseteq Seq(Conditions)
  <2>2. ASSUME NEW a \in Conditions, NEW b \in Conditions
        PROVE  <<a, b>> \in Seq(Conditions) /\ <<a>> \in Seq(Conditions)
    OBVIOUS
  <2>3. ASSUME NEW w \in Wheres
        PROVE  w \in Seq(Conditions)
    <3>1. CASE w = <<>>
      BY <3>1
    <3>2. CASE \E a \in Conditions : w = <<a>>
      BY <3>2, <2>2
    <3>3. CASE \E a, b \in Conditions : w = <<a, b>>
      BY <3>3, <2>2
    <3> QED
      BY <3>1, <3>2, <3>3, <2>3 DEF Wheres
  <2> QED
    BY <2>3
<1>2. Len(page) = 0 /\ DOMAIN page = {} /\ DOMAIN seen = {}
  BY DEF Init
<1>3. steady = {p \in Pks : rows[p] # None /\ MatchesFrom(1, rows[p])}
  BY DEF Init, Matching
<1>4. Shape
  <2>1. query \in Queries /\ (query.by = "admin" => query.where = <<>>)
    BY <1>1 DEF Init, Queries
  <2>2. rows \in [Pks -> Records \cup {None}]
    BY DEF Init, NewRows
  <2>3. page \in Pages /\ Len(page) <= query.limit
    <3>1. query.limit \in Nat /\ page = <<>>
      BY <2>1, PagingAssumption DEF Init, Queries
    <3> QED
      BY <1>2, <3>1 DEF Pages
  <2>4. seen \in Seq(Pks) /\ steady \subseteq Pks
    BY <1>3 DEF Init
  <2>5. after \in Pks \cup {0} /\ iter = None /\ done \in BOOLEAN
    BY DEF Init
  <2>6. events \in 0 .. MaxEvents
    BY PagingAssumption DEF Init
  <2> QED
    BY <2>1, <2>2, <2>3, <2>4, <2>5, <2>6 DEF Shape
<1>5. \A p \in steady : SteadyRow(p)
  BY <1>3, PagingAssumption DEF Init, SteadyRow, NewRows
<1> QED
  BY <1>2, <1>4, <1>5
  DEF Init, Walk, UniqueRows, SeenAscends, ResultsMatch

(* The iterator passes no steady row on its way to the next key.            *)
LEMMA KeyIsNext ==
  ASSUME Shape, Walk, iter # None
  PROVE  /\ Key # None =>
              /\ Key \in iter.keys /\ Key \in Pks /\ Key > after
              /\ ~iter.resumed => Key > iter.pos
         /\ \A p \in steady : p > after /\ (Key = None \/ p < Key) => Returned(p)
<1>1. /\ PositionOK /\ KeysOK
      /\ \A p \in steady : SteadyRow(p) /\ SteadyKey(p)
  BY DEF Walk
<1> /\ iter \in Iterators /\ query \in Queries
    /\ steady \subseteq Pks /\ Pks \subseteq Nat \ {0}
    /\ after \in Nat
  BY PagingAssumption DEF Shape
<1>2. iter.keys \subseteq Pks
  BY <1>1 DEF Iterators
<1>3. CASE iter.resumed
  <2> DEFINE T == {k \in iter.keys : Suffix(k) > after}
  <2>1. Key = FirstOf(T) /\ after # 0
    BY <1>1, <1>3 DEF Key, PositionOK, PastCursor
  <2>2. T \in SUBSET Pks
    BY <1>2
  <2>3. \A k \in T : k \in iter.keys /\ k > after
    BY <1>1, <1>2 DEF Suffix
  <2>4. ASSUME NEW p \in steady, p > after
        PROVE  p \in T
    <3>1. p \in iter.keys /\ p \in Nat
      BY <2>4, <1>1 DEF SteadyKey
    <3>2. ~(Indexed /\ query.unique)
      BY <2>1, <2>4, <3>1, <1>1 DEF SteadyRow
    <3> QED
      BY <2>4, <3>1, <3>2 DEF Suffix
  <2> HIDE DEF T
  <2>5. T # {} => Key \in T /\ Key # None /\ \A y \in T : Key <= y
    BY <2>1, <2>2, FirstIsLeast
  <2>6. T = {} => Key = None
    BY <2>1, <2>2, FirstIsLeast
  <2>7. ASSUME NEW p \in steady, p > after, Key = None \/ p < Key
        PROVE  FALSE
    <3>1. p \in T /\ Key # None /\ Key <= p /\ Key \in T
      BY <2>4, <2>5, <2>7
    <3>2. p \in Nat /\ Key \in Nat
      BY <3>1, <2>2, <1>1
    <3> QED
      BY <2>7, <3>1, <3>2
  <2> QED
    BY <2>2, <2>3, <2>5, <2>6, <2>7, <1>3
<1>4. CASE ~iter.resumed
  <2> DEFINE T == {k \in iter.keys : k > iter.pos}
  <2>1. Key = FirstOf(T)
    BY <1>4 DEF Key, Following
  <2>2. T \in SUBSET Pks
    BY <1>2
  <2>3. iter.pos \in Nat /\ iter.pos >= after
    <3>1. iter.pos \in Pks \cup {0, None}
      BY DEF Iterators
    <3>2. iter.pos # None /\ iter.pos >= after
      BY <1>1, <1>4 DEF PositionOK
    <3>3. CASE iter.pos \in Pks
      BY <3>2, <3>3
    <3>4. CASE iter.pos = 0
      BY <3>2, <3>4
    <3> QED
      BY <3>1, <3>2, <3>3, <3>4
  <2>4. \A k \in T : k \in iter.keys /\ k > iter.pos /\ k \in Nat
    BY <1>1, <1>2
  <2>5. ASSUME NEW p \in steady
        PROVE  p \in Nat /\ (p > iter.pos => p \in T)
    BY <1>1 DEF SteadyKey
  <2> HIDE DEF T
  <2>6. T # {} => Key \in T /\ Key # None /\ \A y \in T : Key <= y
    BY <2>1, <2>2, FirstIsLeast
  <2>7. T = {} => Key = None
    BY <2>1, <2>2, FirstIsLeast
  <2>8. ASSUME NEW p \in steady, p > after, Key = None \/ p < Key
        PROVE  Returned(p)
    <3>1. CASE p > iter.pos
      <4>1. p \in T /\ Key \in T /\ Key # None /\ Key <= p
        BY <3>1, <2>5, <2>6
      <4> QED
        BY <4>1, <2>4, <2>5, <2>8
    <3>2. CASE p <= iter.pos
      BY <3>2, <1>1, <1>4, <2>8 DEF SteadyKey
    <3> QED
      BY <3>1, <3>2, <2>3, <2>5
  <2>9. ASSUME Key # None
        PROVE  Key \in iter.keys /\ Key \in Pks /\ Key > after /\ Key > iter.pos
    <3>1. Key \in T
      BY <2>6, <2>7, <2>9
    <3> QED
      BY <3>1, <2>2, <2>3, <2>4, <1>1
  <2> QED
    BY <2>8, <2>9
<1> QED
  BY <1>3, <1>4

-----------------------------------------------------------------------------
(* What ResultsMatch says of one row.                                       *)
RowMatches(found) ==
  /\ ~Old(found.row)
  /\ MatchesFrom(2, found.row)
  /\ query.where # <<>> =>
       \/ Compare(found.row, query.where[1])
       \/ Indexed /\ Compare(found.then, query.where[1])

(* What a page must have for its end to keep the invariant.                 *)
PageComplete(returned, last) ==
  /\ returned \in Pages /\ Len(returned) <= query.limit
  /\ \A i \in DOMAIN returned :
       returned[i].pk \in iter.keys /\ returned[i].pk > after
  /\ \A i, j \in DOMAIN returned : i < j => returned[i].pk < returned[j].pk
  /\ \A p \in steady :
       /\ p > after
       /\ last \/ (returned # <<>> /\ p <= Last(returned).pk)
       => \E i \in DOMAIN returned : returned[i].pk = p
  /\ query.by = "generated" => \A i \in DOMAIN returned : RowMatches(returned[i])

\* A complete page moves the cursor to its last row and no further.
LEMMA ClosePageInv ==
  ASSUME Shape, Walk, iter # None, NEW returned, NEW last \in BOOLEAN,
         PageComplete(returned, last), ClosePage(returned, last),
         UNCHANGED <<rows, query, steady>>, events' \in 0 .. MaxEvents
  PROVE  (Shape /\ Walk)'
<1> DEFINE n   == Len(returned)
           pks == [i \in DOMAIN returned |-> returned[i].pk]
<1>1. /\ n \in Nat /\ DOMAIN returned = 1 .. n /\ (n = 0 <=> returned = <<>>)
      /\ \A i \in 1 .. n : returned[i].pk \in Pks
  <2> DEFINE R == [pk : Pks, row : Records, then : Records \cup {None}]
  <2>1. returned \in Seq(R)
    BY DEF PageComplete, Pages
  <2>2. \A r \in R : r.pk \in Pks
    OBVIOUS
  <2> HIDE DEF R
  <2> QED
    BY <2>1, <2>2, ElementOfSeq, LenProperties, EmptySeq
<1>2. /\ pks \in Seq(Pks) /\ Len(pks) = n /\ DOMAIN pks = 1 .. n
      /\ \A i \in 1 .. n : pks[i] = returned[i].pk
  <2>1. pks = [i \in 1 .. n |-> returned[i].pk]
    BY <1>1
  <2>2. pks \in [1 .. n -> Pks]
    BY <1>1, <2>1
  <2>3. pks \in Seq(Pks)
    BY <1>1, <2>2, SeqDef
  <2> QED
    BY <1>1, <2>1, <2>2, <2>3, LenProperties
<1> HIDE DEF pks
<1>3. seen' = seen \o pks
  BY DEF ClosePage, pks
<1>4. /\ seen \in Seq(Pks) /\ after \in Pks \cup {0} /\ after \in Nat
      /\ Pks \subseteq Nat \ {0}
  BY PagingAssumption DEF Shape
<1>5. /\ seen' \in Seq(Pks)
      /\ ToSet(seen') = ToSet(seen) \cup ToSet(pks)
  BY <1>2, <1>3, <1>4, ToSetConcat
<1>6. /\ Len(seen) \in Nat /\ DOMAIN seen = 1 .. Len(seen)
      /\ DOMAIN seen' = 1 .. Len(seen) + n
      /\ \A i \in 1 .. Len(seen) : seen'[i] = seen[i] /\ seen[i] \in Pks
      /\ \A i \in Len(seen) + 1 .. Len(seen) + n : seen'[i] = pks[i - Len(seen)]
  <2>1. Len(seen) \in Nat /\ DOMAIN seen = 1 .. Len(seen)
    BY <1>4, LenProperties
  <2>2. /\ Len(seen') = Len(seen) + n
        /\ \A i \in 1 .. Len(seen) : seen'[i] = seen[i]
        /\ \A i \in Len(seen) + 1 .. Len(seen) + n : seen'[i] = pks[i - Len(seen)]
    <3>1. /\ Len(seen \o pks) = Len(seen) + Len(pks)
          /\ \A i \in 1 .. Len(seen) : (seen \o pks)[i] = seen[i]
          /\ \A i \in Len(seen) + 1 .. Len(seen) + Len(pks) :
               (seen \o pks)[i] = pks[i - Len(seen)]
      <4>1. pks \in Seq(Pks) /\ seen \in Seq(Pks)
        BY <1>2, <1>4
      <4> QED
        BY <4>1, ConcatProperties
    <3> QED
      BY <3>1, <1>2, <1>3
  <2>3. DOMAIN seen' = 1 .. Len(seen')
    BY <1>5, LenProperties
  <2>4. \A i \in 1 .. Len(seen) : seen[i] \in Pks
    BY <1>4, <2>1, ElementOfSeq
  <2> QED
    BY <2>1, <2>2, <2>3, <2>4
<1>7. /\ after' \in Pks \cup {0} /\ after' >= after
      /\ \A i \in 1 .. n : returned[i].pk <= after'
      /\ n = 0 => after' = after
      /\ n # 0 => after' = returned[n].pk /\ after' = Last(returned).pk
  <2>1. CASE n = 0
    BY <2>1, <1>1, <1>4 DEF ClosePage
  <2>2. CASE n # 0
    <3>1. after' = returned[n].pk /\ after' = Last(returned).pk
      BY <2>2, <1>1 DEF ClosePage, Last
    <3>2. n \in 1 .. n /\ returned[n].pk > after /\ returned[n].pk \in Pks
      BY <2>2, <1>1 DEF PageComplete
    <3>4. returned[n].pk >= after
      <4>1. returned[n].pk \in Nat /\ after \in Nat
        BY <3>2, <1>4
      <4> QED
        BY <3>2, <4>1
    <3>3. ASSUME NEW i \in 1 .. n
          PROVE  returned[i].pk <= returned[n].pk
      <4>1. i < n => returned[i].pk < returned[n].pk
        BY <1>1, <3>2 DEF PageComplete
      <4>2. returned[i].pk \in Nat /\ returned[n].pk \in Nat
        BY <1>1, <1>4, <3>2
      <4> QED
        BY <4>1, <4>2, <1>1
    <3> QED
      BY <3>1, <3>2, <3>3, <3>4, <2>2
  <2> QED
    BY <2>1, <2>2
<1>8. SeenAscends'
  <2>1. ASSUME NEW i \in 1 .. Len(seen) + n
        PROVE  seen'[i] <= after'
    <3>1. CASE i \in 1 .. Len(seen)
      <4>1. seen'[i] <= after /\ seen'[i] \in Nat
        BY <3>1, <1>4, <1>6 DEF Walk, SeenAscends
      <4> QED
        BY <4>1, <1>4, <1>7
    <3>2. CASE i \notin 1 .. Len(seen)
      <4>1. i - Len(seen) \in 1 .. n /\ i \in Len(seen) + 1 .. Len(seen) + n
        BY <3>2, <1>1, <1>6
      <4>2. seen'[i] = returned[i - Len(seen)].pk
        BY <4>1, <1>2, <1>6
      <4> QED
        BY <4>1, <4>2, <1>7
    <3> QED
      BY <3>1, <3>2
  <2>2. ASSUME NEW i \in 1 .. Len(seen) + n, NEW j \in 1 .. Len(seen) + n, i < j
        PROVE  seen'[i] < seen'[j]
    <3>1. CASE j \in 1 .. Len(seen)
      BY <3>1, <2>2, <1>6 DEF Walk, SeenAscends
    <3>2. CASE i \in 1 .. Len(seen) /\ j \notin 1 .. Len(seen)
      <4>1. seen'[i] <= after /\ seen'[i] \in Nat
        BY <3>2, <1>4, <1>6 DEF Walk, SeenAscends
      <4>2. j - Len(seen) \in 1 .. n /\ seen'[j] = returned[j - Len(seen)].pk
        BY <3>2, <1>1, <1>2, <1>6
      <4>3. seen'[j] > after /\ seen'[j] \in Nat
        BY <4>2, <1>1, <1>4 DEF PageComplete
      <4> QED
        BY <4>1, <4>3, <1>4
    <3>3. CASE i \notin 1 .. Len(seen)
      <4>1. /\ i - Len(seen) \in 1 .. n /\ seen'[i] = returned[i - Len(seen)].pk
            /\ j - Len(seen) \in 1 .. n /\ seen'[j] = returned[j - Len(seen)].pk
            /\ i - Len(seen) < j - Len(seen)
        BY <3>3, <2>2, <1>1, <1>2, <1>6
      <4> QED
        BY <4>1, <1>1 DEF PageComplete
    <3> QED
      BY <3>1, <3>2, <3>3, <2>2, <1>6
  <2> QED
    BY <2>1, <2>2, <1>6 DEF SeenAscends
<1>9. ASSUME NEW p \in steady
      PROVE  SteadyRow(p)'
  <2>1. p \in Nat /\ SteadyRow(p) /\ SteadyKey(p)
    BY <1>4, <1>9 DEF Shape, Walk
  <2>2. ASSUME last \/ p <= after'
        PROVE  p \in ToSet(seen')
    <3>1. CASE p <= after
      BY <3>1, <2>1, <1>5 DEF SteadyRow
    <3>2. CASE p > after
      <4>1. last \/ (returned # <<>> /\ p <= Last(returned).pk)
        <5>1. CASE n = 0
          BY <5>1, <3>2, <2>1, <2>2, <1>4, <1>7
        <5>2. CASE n # 0
          BY <5>2, <2>2, <1>1, <1>7
        <5> QED
          BY <5>1, <5>2
      <4>2. PICK i \in DOMAIN returned : returned[i].pk = p
        BY <3>2, <4>1 DEF PageComplete
      <4>3. p \in ToSet(pks)
        BY <4>2, <1>1, <1>2 DEF ToSet
      <4> QED
        BY <4>3, <1>5
    <3> QED
      BY <3>1, <3>2, <2>1, <1>4
  <2>3. ASSUME Indexed, query.unique, after' # 0
        PROVE  p <= after'
    <3>1. CASE n = 0
      BY <3>1, <2>1, <2>3, <1>7 DEF SteadyRow
    <3>2. CASE n # 0
      <4>1. n \in DOMAIN returned
        BY <3>2, <1>1
      <4>2. returned[n].pk \in iter.keys /\ p \in iter.keys
        BY <4>1, <2>1 DEF PageComplete, SteadyKey
      <4>3. \A j, k \in iter.keys : j = k
        BY <2>3 DEF Walk, KeysOK
      <4> QED
        BY <3>2, <4>2, <4>3, <2>1, <1>7
    <3> QED
      BY <3>1, <3>2
  <2>4. done' = last /\ rows' = rows /\ query' = query
    BY DEF ClosePage
  <2>5. rows[p] # None /\ ~rows[p].old /\ MatchesFrom(1, rows[p])
    BY <2>1 DEF SteadyRow
  <2> QED
    BY <2>2, <2>3, <2>4, <2>5 DEF SteadyRow, Indexed, MatchesFrom
<1>10. iter' = None /\ page' = returned
  BY DEF ClosePage
<1>11. Shape'
  BY <1>5, <1>7, <1>10 DEF Shape, PageComplete, ClosePage
<1>12. ResultsMatch'
  BY <1>10 DEF PageComplete, RowMatches, ResultsMatch, MatchesFrom, Indexed
<1>13. UniqueRows'
  BY DEF Walk, UniqueRows
<1> QED
  BY <1>8, <1>9, <1>10, <1>11, <1>12, <1>13 DEF Walk

-----------------------------------------------------------------------------
(* A page that lies between the cursor and the next key.                    *)
UpToKey(q) ==
  /\ q \in Pages
  /\ \A i \in DOMAIN q : q[i].pk \in iter.keys /\ q[i].pk > after /\ q[i].pk <= Key
  /\ \A i, j \in DOMAIN q : i < j => q[i].pk < q[j].pk
  /\ query.by = "generated" => \A i \in DOMAIN q : RowMatches(q[i])

\* Keys, cursors and positions are numbers.
LEMMA Numbers ==
  ASSUME Shape
  PROVE  /\ Pks \subseteq Nat /\ after \in Nat /\ steady \subseteq Nat
         /\ iter # None => /\ iter.keys \subseteq Nat
                           /\ iter.pos # None => iter.pos \in Nat
<1>1. Pks \subseteq Nat /\ 0 \in Nat
  BY PagingAssumption
<1>2. after \in Nat /\ steady \subseteq Nat
  BY <1>1 DEF Shape
<1>3. ASSUME iter # None
      PROVE  iter.keys \subseteq Pks /\ iter.pos \in Pks \cup {0, None}
  BY <1>3 DEF Shape, Iterators
<1> QED
  BY <1>1, <1>2, <1>3

\* The page has every steady row before the next key, and none from it on.
LEMMA PageIsUpToKey ==
  ASSUME Shape, Walk, iter # None, Key # None
  PROVE  UpToKey(page) /\ \A i \in DOMAIN page : page[i].pk < Key
<1>1. PositionOK /\ PageInOrder /\ ResultsMatch /\ page \in Pages
  BY DEF Shape, Walk
<1>2. ASSUME NEW i \in DOMAIN page
      PROVE  page[i].pk < Key /\ page[i].pk <= Key
  <2>1. page # <<>>
    BY <1>2
  <2>2. ~iter.resumed /\ iter.pos # None
    BY <1>1, <2>1 DEF PositionOK
  <2>3. page[i].pk <= iter.pos /\ page[i].pk \in iter.keys
    BY <1>1 DEF PageInOrder
  <2>4. Key \in Pks /\ Key > iter.pos
    BY <2>2, KeyIsNext
  <2>5. page[i].pk \in Nat /\ iter.pos \in Nat /\ Key \in Nat
    BY <2>2, <2>3, <2>4, Numbers
  <2> QED
    BY <2>3, <2>4, <2>5
<1> QED
  BY <1>1, <1>2 DEF UpToKey, PageInOrder, ResultsMatch, RowMatches

\* With a row of the next key it has those up to that key.
LEMMA AppendIsUpToKey ==
  ASSUME Shape, Walk, iter # None, Key # None,
         NEW found \in [pk : Pks, row : Records, then : Records \cup {None}],
         found.pk = Key, query.by = "generated" => RowMatches(found)
  PROVE  /\ UpToKey(Append(page, found))
         /\ Len(Append(page, found)) = Len(page) + 1
         /\ Append(page, found) # <<>> /\ Last(Append(page, found)).pk = Key
         /\ \A p \in steady : p > after /\ p <= Key =>
              \E i \in DOMAIN Append(page, found) : Append(page, found)[i].pk = p
<1> DEFINE q == Append(page, found)
           n == Len(page)
<1>1. page \in Pages /\ n \in Nat /\ DOMAIN page = 1 .. n
  BY LenProperties DEF Shape, Pages
<1>2. /\ q \in Pages /\ Len(q) = n + 1 /\ DOMAIN q = 1 .. n + 1
      /\ q[n + 1] = found /\ \A i \in 1 .. n : q[i] = page[i]
  BY <1>1, AppendProperties, LenProperties DEF Pages
<1>3. q # <<>> /\ Last(q) = found
  BY <1>1, <1>2 DEF Last
<1> HIDE DEF q, n
<1>4. Key \in iter.keys /\ Key \in Pks /\ Key > after /\ Key \in Nat
  BY KeyIsNext, PagingAssumption
<1>5. UpToKey(page) /\ \A i \in 1 .. n : page[i].pk < Key
  BY <1>1, PageIsUpToKey
<1>6. ASSUME NEW i \in 1 .. n + 1
      PROVE  /\ q[i].pk \in iter.keys /\ q[i].pk > after /\ q[i].pk <= Key
             /\ query.by = "generated" => RowMatches(q[i])
  <2>1. CASE i \in 1 .. n
    BY <2>1, <1>1, <1>2, <1>5 DEF UpToKey
  <2>2. CASE i \notin 1 .. n
    <3>1. q[i] = found
      BY <2>2, <1>1, <1>2
    <3> QED
      BY <3>1, <1>4
  <2> QED
    BY <2>1, <2>2
<1>7. ASSUME NEW i \in 1 .. n + 1, NEW j \in 1 .. n + 1, i < j
      PROVE  q[i].pk < q[j].pk
  <2>1. i \in 1 .. n /\ (j \in 1 .. n \/ j = n + 1)
    BY <1>1, <1>7
  <2> QED
    BY <2>1, <1>1, <1>2, <1>5, <1>7 DEF UpToKey
<1>8. UpToKey(q)
  BY <1>2, <1>6, <1>7 DEF UpToKey
<1>9. ASSUME NEW p \in steady, p > after, p <= Key
      PROVE  \E i \in DOMAIN q : q[i].pk = p
  <2>1. CASE p = Key
    <3>1. n + 1 \in DOMAIN q /\ q[n + 1].pk = p
      BY <2>1, <1>1, <1>2
    <3> QED
      BY <3>1
  <2>2. CASE p # Key
    <3>1. p \in Nat
      BY PagingAssumption DEF Shape
    <3>2. Returned(p)
      BY <3>1, <2>2, <1>4, <1>9, KeyIsNext
    <3>3. PICK i \in 1 .. n : page[i].pk = p
      BY <3>2, <1>1 DEF Returned
    <3>4. i \in DOMAIN q /\ q[i].pk = p
      BY <3>3, <1>1, <1>2
    <3> QED
      BY <3>4
  <2> QED
    BY <2>1, <2>2
<1> QED
  BY <1>2, <1>3, <1>8, <1>9 DEF q, n

(* The iterator moves to the next key and stays open.                       *)
LEMMA MoveInv ==
  ASSUME Shape, Walk, iter # None, Key # None,
         UNCHANGED <<rows, query, after, done, seen>>,
         events' \in 0 .. MaxEvents,
         iter' \in Iterators, iter'.keys = iter.keys, iter'.snap = iter.snap,
         iter'.pos = Key, iter'.resumed = FALSE, iter'.evict \notin steady',
         UpToKey(page'), Len(page') <= query.limit,
         query.by = "generated" => Len(page') < query.limit,
         steady' \subseteq steady,
         \A p \in steady' : p > after /\ p <= Key =>
           \E i \in DOMAIN page' : page'[i].pk = p
  PROVE  (Shape /\ Walk)'
<1>1. Shape'
  BY DEF Shape, UpToKey
<1>2. UniqueRows' /\ SeenAscends'
  BY DEF Walk, UniqueRows, SeenAscends
<1>3. PositionOK'
  <2>1. Key > after /\ Key \in Nat /\ after \in Nat
    BY KeyIsNext, Numbers
  <2>2. iter'.pos # None /\ iter'.pos >= after'
    BY <2>1
  <2> QED
    BY <2>2 DEF PositionOK
<1>4. KeysOK'
  BY DEF Walk, KeysOK, Indexed
<1>5. PageInOrder'
  BY DEF UpToKey, PageInOrder
<1>6. ASSUME NEW p \in steady'
      PROVE  SteadyRow(p)' /\ SteadyKey(p)'
  <2>1. SteadyRow(p) /\ SteadyKey(p)
    BY <1>6 DEF Walk
  <2>2. SteadyRow(p)'
    BY <2>1 DEF SteadyRow, MatchesFrom, Indexed
  <2>3. p > after' /\ p <= iter'.pos => Returned(p)'
    BY <1>6 DEF Returned
  <2>4. p # iter'.evict
    BY <1>6
  <2> QED
    BY <2>1, <2>2, <2>3, <2>4 DEF SteadyKey, MatchesFrom
<1>7. ResultsMatch'
  BY DEF UpToKey, RowMatches, ResultsMatch, MatchesFrom, Indexed
<1> QED
  BY <1>1, <1>2, <1>3, <1>4, <1>5, <1>6, <1>7 DEF Walk

-----------------------------------------------------------------------------
\* A page opens an iterator just behind the cursor.
LEMMA OpenPageInv ==
  ASSUME Shape, Walk, OpenPage
  PROVE  (Shape /\ Walk)'
<1>1. /\ UNCHANGED <<rows, query, after, done, events, seen, steady>>
      /\ page' = <<>> /\ DOMAIN page' = {} /\ Len(page') = 0
      /\ iter' = [keys |-> InPrefix, snap |-> rows,
                  pos |-> IF after = 0 THEN 0 ELSE PastCursor(InPrefix),
                  resumed |-> after # 0, evict |-> None, kept |-> Pks]
  BY DEF OpenPage
<1>2. InPrefix \subseteq Pks
  BY DEF InPrefix
<1>3. PastCursor(InPrefix) \in Pks \cup {None}
  <2>1. {k \in InPrefix : Suffix(k) > after} \in SUBSET Pks
    BY <1>2
  <2> QED
    BY <2>1, FirstIsLeast DEF PastCursor
<1>4. iter' \in Iterators
  BY <1>1, <1>2, <1>3 DEF Shape, Iterators
<1>5. query.limit \in Nat /\ query.limit # 0
  BY PagingAssumption DEF Shape, Queries
<1>6. Shape'
  BY <1>1, <1>4, <1>5 DEF Shape, Pages
<1>7. UniqueRows' /\ SeenAscends'
  BY <1>1 DEF Walk, UniqueRows, SeenAscends
<1>8. PositionOK'
  <2>1. iter'.keys = InPrefix /\ iter'.resumed = (after' # 0)
    BY <1>1
  <2>2. CASE after = 0
    <3>1. iter'.pos = 0 /\ after' = 0 /\ 0 # None
      BY <1>1, <2>2, PagingAssumption
    <3>2. ~iter'.resumed
      BY <1>1, <2>2
    <3>3. iter'.pos # None /\ iter'.pos >= after'
      BY <3>1
    <3> QED
      BY <3>2, <3>3 DEF PositionOK
  <2>3. CASE after # 0
    <3>1. iter'.pos = PastCursor(InPrefix) /\ page' = <<>> /\ after' # 0
      BY <1>1, <2>3
    <3>2. PastCursor(iter.keys)' = FirstOf({k \in InPrefix : Suffix(k) > after})
      BY <1>1, <2>1 DEF PastCursor, Suffix, Indexed
    <3> QED
      BY <2>1, <3>1, <3>2 DEF PositionOK, PastCursor
  <2> QED
    BY <2>2, <2>3
<1>9. KeysOK'
  BY <1>1 DEF Walk, UniqueRows, KeysOK, InPrefix, Indexed
<1>10. PageInOrder'
  BY <1>1, <1>5 DEF PageInOrder
<1>11. ASSUME NEW p \in steady'
       PROVE  SteadyRow(p)' /\ SteadyKey(p)'
  <2>1. SteadyRow(p) /\ p \in Pks /\ p \in Nat
    BY <1>1, <1>11, Numbers DEF Shape, Walk
  <2>2. SteadyRow(p)'
    BY <1>1, <2>1 DEF SteadyRow, MatchesFrom, Indexed
  <2>3. p \in InPrefix
    <3>1. CASE Indexed
      <4>1. query.where \in Seq(Conditions) /\ query.where # <<>>
        BY <3>1 DEF Indexed, Shape, Queries
      <4>2. 1 \in 1 .. Len(query.where)
        BY <4>1, LenProperties, EmptySeq
      <4>3. Compare(rows[p], query.where[1])
        BY <4>2, <2>1 DEF SteadyRow, MatchesFrom
      <4>4. query.where[1].op = "=" /\ query.where[1].field = "f"
        BY <3>1 DEF Indexed
      <4>5. rows[p].f = query.where[1].value
        BY <4>3, <4>4 DEF Compare
      <4> QED
        BY <4>5, <2>1 DEF InPrefix, SteadyRow
    <3>2. CASE ~Indexed
      BY <3>2, <2>1 DEF InPrefix, SteadyRow
    <3> QED
      BY <3>1, <3>2
  <2>4. /\ iter'.keys = InPrefix /\ iter'.snap = rows /\ iter'.evict = None
        /\ ~iter'.resumed => iter'.pos = 0 /\ after' = 0
    BY <1>1
  <2>5. None # p
    BY <2>1, PagingAssumption
  <2> QED
    BY <1>1, <2>1, <2>2, <2>3, <2>4, <2>5 DEF SteadyKey, SteadyRow, MatchesFrom
<1>12. ResultsMatch'
  BY <1>1 DEF ResultsMatch
<1> QED
  BY <1>6, <1>7, <1>8, <1>9, <1>10, <1>11, <1>12 DEF Walk

\* A page that gets no iterator is empty and ends the walk.
LEMMA OpenFailsInv ==
  ASSUME Shape, Walk, OpenFails
  PROVE  (Shape /\ Walk)'
<1>1. /\ UNCHANGED <<rows, query, after, iter, events, seen>>
      /\ iter = None /\ done' = TRUE /\ steady' = {}
      /\ page' = <<>> /\ DOMAIN page' = {} /\ Len(page') = 0
  BY DEF OpenFails
<1>2. query.limit \in Nat
  BY PagingAssumption DEF Shape, Queries
<1>3. Shape'
  BY <1>1, <1>2 DEF Shape, Pages
<1> QED
  BY <1>1, <1>3 DEF Walk, UniqueRows, SeenAscends, ResultsMatch

\* A page that meets the end of the keys has every steady row.
LEMMA EndOfKeysInv ==
  ASSUME Shape, Walk, EndOfKeys
  PROVE  (Shape /\ Walk)'
<1>1. /\ iter # None /\ Key = None /\ ClosePage(page, TRUE)
      /\ UNCHANGED <<rows, query, events, steady>>
  BY DEF EndOfKeys, Reading, Exhausted
<1>2. \A p \in steady : p > after => \E i \in DOMAIN page : page[i].pk = p
  BY <1>1, KeyIsNext DEF Returned
<1>3. PageComplete(page, TRUE)
  BY <1>1, <1>2
  DEF Shape, Walk, PageInOrder, ResultsMatch, PageComplete, RowMatches
<1>4. events' \in 0 .. MaxEvents
  BY <1>1 DEF Shape
<1> QED
  BY <1>1, <1>3, <1>4, ClosePageInv

\* The listing ends a full page without looking further.
LEMMA AdminCutInv ==
  ASSUME Shape, Walk, AdminCut
  PROVE  (Shape /\ Walk)'
<1>1. /\ iter # None /\ Key # None /\ ClosePage(page, FALSE)
      /\ UNCHANGED <<rows, query, events, steady>>
      /\ query.by = "admin"
  BY DEF AdminCut, Reading, Exhausted
<1>2. UpToKey(page) /\ \A i \in DOMAIN page : page[i].pk < Key
  BY <1>1, PageIsUpToKey
<1>3. ASSUME NEW p \in steady, p > after, page # <<>>, p <= Last(page).pk
      PROVE  \E i \in DOMAIN page : page[i].pk = p
  <2>1. /\ Len(page) \in Nat /\ DOMAIN page = 1 .. Len(page)
        /\ Len(page) \in DOMAIN page
    BY <1>3, LenProperties, EmptySeq DEF Shape, Pages
  <2>2. Last(page).pk < Key /\ Last(page).pk \in iter.keys
    BY <2>1, <1>2 DEF Last, UpToKey
  <2>3. p \in Nat /\ Last(page).pk \in Nat /\ Key \in Nat
    BY <1>1, <2>2, Numbers, KeyIsNext
  <2> QED
    BY <1>1, <1>3, <2>2, <2>3, KeyIsNext DEF Returned
<1>4. PageComplete(page, FALSE)
  BY <1>1, <1>2, <1>3 DEF Shape, PageComplete, UpToKey
<1>5. events' \in 0 .. MaxEvents
  BY <1>1 DEF Shape
<1> QED
  BY <1>1, <1>4, <1>5, ClosePageInv

\* What an answer is, and what an outdated one costs.
LEMMA AnswerCosts ==
  ASSUME Shape, Walk, iter # None, Key # None, NEW row \in Answers
  PROVE  /\ row \in Records \cup {None}
         /\ EventOnlyIf(Outdated(row)) => events' \in 0 .. MaxEvents
<1>1. Key \in Pks /\ iter \in Iterators
  BY KeyIsNext DEF Shape
<1>2. RowAtHand \in Records \cup {None}
  BY <1>1 DEF RowAtHand, Shape, Iterators
<1>3. row = RowAtHand \/ (row \in Records /\ events < MaxEvents)
  BY DEF Answers
<1>4. events \in 0 .. MaxEvents /\ MaxEvents \in Nat
  BY PagingAssumption DEF Shape
<1>5. EventOnlyIf(Outdated(row)) => events' \in 0 .. MaxEvents
  BY <1>3, <1>4 DEF EventOnlyIf, Outdated
<1> QED
  BY <1>2, <1>3, <1>5

\* A steady row is up to date where it is read: it matches and is not old.
LEMMA SteadyAtHand ==
  ASSUME Shape, Walk, iter # None, Key # None, Key \in steady
  PROVE  ~Old(RowAtHand) /\ Accepted(RowAtHand)
<1>1. SteadyRow(Key) /\ SteadyKey(Key)
  BY DEF Walk
<1>2. RowAtHand # None /\ MatchesFrom(1, RowAtHand) /\ ~Old(RowAtHand)
  BY <1>1 DEF RowAtHand, SteadyRow, SteadyKey, Old
<1>3. MatchesFrom(IF Indexed THEN 2 ELSE 1, RowAtHand)
  BY <1>2, LenProperties DEF MatchesFrom, Shape, Queries
<1> QED
  BY <1>2, <1>3 DEF Accepted

\* A row that matches is appended to the page.
LEMMA TakeInv ==
  ASSUME Shape, Walk, Take
  PROVE  (Shape /\ Walk)'
<1>0. PICK row \in Answers :
        LET found == IF Accepted(row)
                     THEN Append(page,
                            [pk |-> Key, row |-> row, then |-> iter.snap[Key]])
                     ELSE page IN
        /\ ~ToBeEvicted(row)
        /\ IF query.by = "generated" /\ Full(found)
           THEN ClosePage(found, FALSE)
           ELSE page' = found /\ iter' = Moved /\ UNCHANGED <<after, done, seen>>
        /\ EventOnlyIf(Outdated(row))
        /\ LostIf(Outdated(row) /\ ~Accepted(row))
  BY Zenon DEF Take
<1> DEFINE entry == [pk |-> Key, row |-> row, then |-> iter.snap[Key]]
           found == IF Accepted(row) THEN Append(page, entry) ELSE page
<1>1. /\ iter # None /\ iter.evict = None /\ Key # None
      /\ ~ToBeEvicted(row)
      /\ query.by = "admin" => ~Full(page)
      /\ UNCHANGED <<rows, query>>
      /\ IF query.by = "generated" /\ Full(found)
         THEN ClosePage(found, FALSE)
         ELSE page' = found /\ iter' = Moved /\ UNCHANGED <<after, done, seen>>
      /\ EventOnlyIf(Outdated(row))
      /\ LostIf(Outdated(row) /\ ~Accepted(row))
  BY <1>0 DEF Take, Reading, Exhausted
<1>2. /\ Key \in iter.keys /\ Key \in Pks /\ iter \in Iterators
      /\ query.by \in {"generated", "admin"} /\ query.limit \in Nat
      /\ page \in Pages /\ Len(page) \in Nat
  BY <1>1, KeyIsNext, LenProperties, PagingAssumption DEF Shape, Queries, Pages
<1>3. /\ row \in Records \cup {None} /\ events' \in 0 .. MaxEvents
      /\ iter.snap[Key] \in Records \cup {None}
  BY <1>1, <1>2, AnswerCosts DEF Iterators
<1>4. Len(page) <= query.limit - 1
  <2>1. query.by = "generated" => Len(page) < query.limit
    BY <1>1 DEF Walk, PageInOrder
  <2>2. query.by = "admin" => ~(Len(page) >= query.limit)
    BY <1>1 DEF Full
  <2> QED
    BY <1>2, <2>1, <2>2
<1>5. ASSUME Accepted(row)
      PROVE  /\ UpToKey(found) /\ Len(found) = Len(page) + 1
             /\ found # <<>> /\ Last(found).pk = Key
             /\ \A p \in steady : p > after /\ p <= Key =>
                  \E i \in DOMAIN found : found[i].pk = p
  <2>1. entry \in [pk : Pks, row : Records, then : Records \cup {None}]
    BY <1>2, <1>3, <1>5 DEF Accepted
  <2>2. query.by = "generated" => RowMatches(entry)
    <3> SUFFICES ASSUME query.by = "generated" PROVE RowMatches(entry)
      OBVIOUS
    <3>1. ~Old(row)
      BY <1>1 DEF ToBeEvicted
    <3>2. MatchesFrom(IF Indexed THEN 2 ELSE 1, row)
      BY <1>5 DEF Accepted
    <3>3. query.where # <<>> => 1 \in 1 .. Len(query.where)
      BY LenProperties, EmptySeq DEF Shape, Queries
    <3>4. CASE Indexed
      <4>1. iter.snap[Key].f = query.where[1].value
        BY <3>4, <1>1, <1>2 DEF Walk, KeysOK
      <4>2. query.where[1].op = "=" /\ query.where[1].field = "f"
        BY <3>4 DEF Indexed
      <4>3. Compare(entry.then, query.where[1])
        BY <4>1, <4>2 DEF Compare
      <4> QED
        BY <3>1, <3>2, <3>4, <4>3 DEF RowMatches
    <3>5. CASE ~Indexed
      <4>1. MatchesFrom(1, row)
        BY <3>2, <3>5
      <4>2. MatchesFrom(2, row)
        BY <4>1, LenProperties DEF MatchesFrom, Shape, Queries
      <4>3. query.where # <<>> => Compare(row, query.where[1])
        BY <3>3, <4>1 DEF MatchesFrom
      <4> QED
        BY <3>1, <4>2, <4>3 DEF RowMatches
    <3> QED
      BY <3>4, <3>5
  <2>3. found = Append(page, entry) /\ entry.pk = Key
    BY <1>5
  <2> HIDE DEF entry, found
  <2> QED
    BY <1>1, <2>1, <2>2, <2>3, AppendIsUpToKey
<1>6. ASSUME ~Accepted(row)
      PROVE  /\ UpToKey(found) /\ Len(found) = Len(page)
             /\ \A p \in steady' : p > after /\ p <= Key =>
                  \E i \in DOMAIN found : found[i].pk = p
  <2>1. found = page
    BY <1>6
  <2>2. Key \notin steady'
    <3>1. CASE Outdated(row)
      BY <3>1, <1>1, <1>6 DEF LostIf
    <3>2. CASE ~Outdated(row)
      <4>1. ~Accepted(RowAtHand) /\ steady' = steady
        BY <3>2, <1>1, <1>6 DEF Outdated, LostIf
      <4> QED
        BY <4>1, <1>1, SteadyAtHand
    <3> QED
      BY <3>1, <3>2
  <2>3. ASSUME NEW p \in steady', p > after, p <= Key
        PROVE  \E i \in DOMAIN page : page[i].pk = p
    <3>1. p \in steady /\ p # Key
      BY <1>1, <2>2, <2>3 DEF LostIf
    <3>2. p \in Nat /\ Key \in Nat
      BY <1>2, <3>1, Numbers
    <3> QED
      BY <1>1, <2>3, <3>1, <3>2, KeyIsNext DEF Returned
  <2> QED
    BY <1>1, <2>1, <2>3, PageIsUpToKey
<1> HIDE DEF entry, found
<1>7. UpToKey(found) /\ Len(found) \in Nat /\ Len(found) <= query.limit
  BY <1>2, <1>4, <1>5, <1>6
<1>8. CASE query.by = "generated" /\ Full(found)
  <2>1. Accepted(row)
    BY <1>2, <1>4, <1>6, <1>8 DEF Full
  <2>2. PageComplete(found, FALSE)
    BY <1>5, <1>7, <2>1 DEF PageComplete, UpToKey
  <2>3. UNCHANGED <<rows, query, steady>> /\ ClosePage(found, FALSE)
    BY <1>1, <1>8, <2>1 DEF LostIf
  <2> QED
    BY <1>1, <1>3, <2>2, <2>3, ClosePageInv
<1>9. CASE ~(query.by = "generated" /\ Full(found))
  <2>1. /\ page' = found /\ iter' = Moved
        /\ UNCHANGED <<rows, query, after, done, seen>>
    BY <1>1, <1>9
  <2>2. /\ iter' \in Iterators /\ iter'.keys = iter.keys
        /\ iter'.snap = iter.snap /\ iter'.pos = Key
        /\ iter'.resumed = FALSE /\ iter'.evict = None
    BY <1>1, <1>2, <2>1 DEF Moved, Iterators
  <2>3. steady' \subseteq steady
    BY <1>1 DEF LostIf
  <2>8. iter'.evict \notin steady'
    BY <2>2, <2>3, PagingAssumption DEF Shape
  <2>4. query.by = "generated" => Len(page') < query.limit
    BY <1>2, <1>7, <1>9, <2>1 DEF Full
  <2>6. \A p \in steady' : p > after /\ p <= Key =>
          \E i \in DOMAIN page' : page'[i].pk = p
    BY <1>5, <1>6, <2>1, <2>3
  <2>7. UpToKey(page') /\ Len(page') <= query.limit
    BY <1>7, <2>1
  <2> QED
    BY <1>1, <1>3, <2>1, <2>2, <2>3, <2>4, <2>6, <2>7, <2>8, MoveInv
<1> QED
  BY <1>8, <1>9

\* A query that meets an expired row is about to delete it.
LEMMA MeetInv ==
  ASSUME Shape, Walk, Meet
  PROVE  (Shape /\ Walk)'
<1>0. PICK row \in Answers :
        /\ ToBeEvicted(row)
        /\ EventOnlyIf(Outdated(row))
        /\ LostIf(Outdated(row))
  BY Zenon DEF Meet
<1>1. /\ iter # None /\ Key # None
      /\ iter' = [Moved EXCEPT !.evict = Key]
      /\ UNCHANGED <<rows, query, after, page, done, seen>>
      /\ steady' \subseteq steady
  BY <1>0 DEF Meet, Reading, Exhausted, LostIf
<1>2. Key \in iter.keys /\ Key \in Pks /\ iter \in Iterators
  BY <1>1, KeyIsNext DEF Shape
<1>3. /\ iter' \in Iterators /\ iter'.keys = iter.keys
      /\ iter'.snap = iter.snap /\ iter'.pos = Key
      /\ iter'.resumed = FALSE /\ iter'.evict = Key
  BY <1>1, <1>2 DEF Moved, Iterators
<1>4. Key \notin steady'
  <2>1. CASE Outdated(row)
    BY <2>1, <1>0 DEF LostIf
  <2>2. CASE ~Outdated(row)
    <3>1. Old(RowAtHand) /\ steady' = steady
      BY <2>2, <1>0 DEF Outdated, LostIf, ToBeEvicted
    <3> QED
      BY <3>1, <1>1, SteadyAtHand
  <2> QED
    BY <2>1, <2>2
<1>5. UpToKey(page)
  BY <1>1, PageIsUpToKey
<1>6. ASSUME NEW p \in steady', p > after, p <= Key
      PROVE  \E i \in DOMAIN page : page[i].pk = p
  <2>1. p \in steady /\ p # Key
    BY <1>1, <1>4, <1>6
  <2>2. p \in Nat /\ Key \in Nat
    BY <1>2, <2>1, Numbers
  <2> QED
    BY <1>1, <1>6, <2>1, <2>2, KeyIsNext DEF Returned
<1>7. /\ events' \in 0 .. MaxEvents /\ UpToKey(page') /\ Len(page') <= query.limit
      /\ query.by = "generated" => Len(page') < query.limit
      /\ iter'.evict \notin steady'
      /\ \A p \in steady' : p > after /\ p <= Key =>
           \E i \in DOMAIN page' : page'[i].pk = p
  BY <1>0, <1>1, <1>3, <1>4, <1>5, <1>6, AnswerCosts DEF Shape, Walk, PageInOrder
<1> QED
  BY <1>1, <1>3, <1>7, MoveInv

\* A row that cannot be read is passed over and is steady no more.
LEMMA ReadFailsInv ==
  ASSUME Shape, Walk, ReadFails
  PROVE  (Shape /\ Walk)'
<1>1. /\ iter # None /\ iter.evict = None /\ Key # None
      /\ iter' = Moved
      /\ events < MaxEvents /\ events' = events + 1
      /\ steady' = steady \ {Key}
      /\ UNCHANGED <<rows, query, after, page, done, seen>>
  BY DEF ReadFails, Reading, Exhausted
<1>2. Key \in iter.keys /\ Key \in Pks /\ iter \in Iterators
  BY <1>1, KeyIsNext DEF Shape
<1>3. /\ iter' \in Iterators /\ iter'.keys = iter.keys
      /\ iter'.snap = iter.snap /\ iter'.pos = Key
      /\ iter'.resumed = FALSE /\ iter'.evict = None
  BY <1>1, <1>2 DEF Moved, Iterators
<1>4. UpToKey(page)
  BY <1>1, PageIsUpToKey
<1>5. ASSUME NEW p \in steady', p > after, p <= Key
      PROVE  \E i \in DOMAIN page : page[i].pk = p
  <2>1. p \in steady /\ p # Key /\ p \in Nat /\ Key \in Nat
    BY <1>1, <1>2, <1>5, Numbers
  <2> QED
    BY <1>1, <1>5, <2>1, KeyIsNext DEF Returned
<1>6. events' \in 0 .. MaxEvents
  BY <1>1, PagingAssumption DEF Shape
<1>7. iter'.evict \notin steady'
  BY <1>1, <1>3, PagingAssumption DEF Shape
<1>8. /\ UpToKey(page') /\ Len(page') <= query.limit
      /\ query.by = "generated" => Len(page') < query.limit
      /\ steady' \subseteq steady
      /\ \A p \in steady' : p > after /\ p <= Key =>
           \E i \in DOMAIN page' : page'[i].pk = p
  BY <1>1, <1>4, <1>5 DEF Shape, Walk, PageInOrder
<1> QED
  BY <1>1, <1>3, <1>6, <1>7, <1>8, MoveInv

(* The table changes, and the snapshot in what is old; nothing moves.       *)
LEMMA TableInv ==
  ASSUME Shape, Walk,
         UNCHANGED <<query, after, page, done, seen>>,
         events' \in 0 .. MaxEvents,
         rows' \in [Pks -> Records \cup {None}], UniqueRows',
         steady' \subseteq steady,
         \A p \in steady' :
           rows'[p] # None /\ ~rows'[p].old /\ MatchesFrom(1, rows'[p]),
         iter = None => iter' = None,
         iter # None =>
           /\ iter' \in Iterators
           /\ iter'.keys = iter.keys /\ iter'.pos = iter.pos
           /\ iter'.resumed = iter.resumed /\ iter'.evict \in {iter.evict, None}
           /\ \A k \in Pks :
                \/ iter'.snap[k] = iter.snap[k]
                \/ /\ k \notin steady'
                   /\ iter.snap[k] # None
                   /\ iter'.snap[k] # None /\ iter'.snap[k].f = iter.snap[k].f
  PROVE  (Shape /\ Walk)'
<1>1. Shape'
  BY DEF Shape
<1>2. SeenAscends' /\ ResultsMatch'
  BY DEF Walk, SeenAscends, ResultsMatch, MatchesFrom, Indexed
<1>3. ASSUME iter' # None
      PROVE  PositionOK' /\ KeysOK' /\ PageInOrder'
  <2>1. iter # None /\ PositionOK /\ KeysOK /\ PageInOrder
    BY <1>3 DEF Walk
  <2>2. iter.keys \subseteq Pks
    BY <2>1 DEF Shape, Iterators
  <2>3. KeysOK'
    BY <2>1, <2>2 DEF KeysOK, Indexed
  <2>4. PositionOK'
    BY <2>1 DEF PositionOK, PastCursor, Suffix, Indexed
  <2>5. PageInOrder'
    BY <2>1 DEF PageInOrder
  <2> QED
    BY <2>3, <2>4, <2>5
<1>4. ASSUME NEW p \in steady'
      PROVE  SteadyRow(p)' /\ (iter' # None => SteadyKey(p)')
  <2>1. p \in steady /\ p \in Pks /\ SteadyRow(p) /\ (iter # None => SteadyKey(p))
    BY <1>4 DEF Shape, Walk
  <2>2. SteadyRow(p)'
    BY <1>4, <2>1 DEF SteadyRow, MatchesFrom, Indexed
  <2>3. ASSUME iter' # None
        PROVE  SteadyKey(p)'
    <3>1. iter # None /\ SteadyKey(p)
      BY <2>1, <2>3
    <3>2. iter'.snap[p] = iter.snap[p]
      BY <1>4, <2>1, <3>1
    <3>3. p # iter'.evict
      BY <2>1, <3>1, PagingAssumption DEF SteadyKey
    <3> QED
      BY <3>1, <3>2, <3>3 DEF SteadyKey, MatchesFrom, Returned
  <2> QED
    BY <2>2, <2>3
<1> QED
  BY <1>1, <1>2, <1>3, <1>4 DEF Walk

\* An expired row is deleted, and no steady row with it.
LEMMA EvictInv ==
  ASSUME Shape, Walk, Evict
  PROVE  (Shape /\ Walk)'
<1>1. /\ iter # None /\ iter.evict # None
      /\ rows' = rows \/ rows' = [rows EXCEPT ![iter.evict] = None]
      /\ iter' = [iter EXCEPT !.evict = None]
      /\ UNCHANGED <<query, after, page, done, events, seen, steady>>
  BY DEF Evict
<1>2. /\ iter \in Iterators /\ iter.evict \in Pks
      /\ rows \in [Pks -> Records \cup {None}]
  BY <1>1 DEF Shape, Iterators
<1>3. rows' \in [Pks -> Records \cup {None}] /\ events' \in 0 .. MaxEvents
  BY <1>1, <1>2 DEF Shape
<1>4. \A p \in Pks : rows'[p] = rows[p] \/ (p = iter.evict /\ rows'[p] = None)
  BY <1>1, <1>2
<1>5. UniqueRows'
  BY <1>1, <1>4 DEF Walk, UniqueRows
<1>6. ASSUME NEW p \in steady'
      PROVE  rows'[p] # None /\ ~rows'[p].old /\ MatchesFrom(1, rows'[p])
  <2>1. SteadyRow(p) /\ p # iter.evict /\ p \in Pks
    BY <1>1, <1>6 DEF Shape, Walk, SteadyKey
  <2> QED
    BY <1>4, <2>1 DEF SteadyRow
<1>7. /\ iter' \in Iterators
      /\ iter'.keys = iter.keys /\ iter'.pos = iter.pos
      /\ iter'.resumed = iter.resumed /\ iter'.evict = None
      /\ iter'.snap = iter.snap
  BY <1>1, <1>2 DEF Iterators
<1> QED
  BY <1>1, <1>3, <1>5, <1>6, <1>7, TableInv

\* A write during the walk may end the steadiness of its row only.
LEMMA WriteInv ==
  ASSUME Shape, Walk, Write
  PROVE  (Shape /\ Walk)'
<1>1. /\ events < MaxEvents /\ events' = events + 1
      /\ UNCHANGED <<query, after, page, done, seen>>
      /\ steady' = steady \cap Matching'
  BY DEF Write
<1>2. PICK p \in Pks, r \in NewRows \cup {None} :
        /\ r # None /\ query.unique =>
             \A q \in Pks \ {p} : rows[q] # None => rows[q].f # r.f
        /\ rows' = [rows EXCEPT ![p] = r]
        /\ iter' = IF iter = None THEN None ELSE [iter EXCEPT !.kept = @ \ {p}]
  BY DEF Write
<1>3. rows \in [Pks -> Records \cup {None}] /\ r \in Records \cup {None}
  BY DEF Shape, NewRows
<1>4. rows' \in [Pks -> Records \cup {None}] /\ events' \in 0 .. MaxEvents
  BY <1>1, <1>2, <1>3, PagingAssumption DEF Shape
<1>5. \A q \in Pks : rows'[q] = IF q = p THEN r ELSE rows[q]
  BY <1>2, <1>3
<1>6. UniqueRows'
  BY <1>1, <1>2, <1>5 DEF Walk, UniqueRows
<1>7. ASSUME NEW q \in steady'
      PROVE  rows'[q] # None /\ ~rows'[q].old /\ MatchesFrom(1, rows'[q])
  <2>1. q \in steady /\ q \in Pks /\ SteadyRow(q)
    BY <1>1, <1>7 DEF Shape, Walk
  <2>2. rows'[q] # None /\ MatchesFrom(1, rows'[q])
    BY <1>1, <1>7 DEF Matching, MatchesFrom
  <2>3. ~rows'[q].old
    BY <1>5, <2>1, <2>2 DEF SteadyRow, NewRows
  <2> QED
    BY <2>2, <2>3
<1>8. ASSUME iter # None
      PROVE  /\ iter' \in Iterators
             /\ iter'.keys = iter.keys /\ iter'.pos = iter.pos
             /\ iter'.resumed = iter.resumed /\ iter'.evict = iter.evict
             /\ iter'.snap = iter.snap
  BY <1>2, <1>8 DEF Shape, Iterators
<1>9. (iter = None => iter' = None) /\ steady' \subseteq steady
  BY <1>1, <1>2
<1> QED
  BY <1>1, <1>4, <1>6, <1>7, <1>8, <1>9, TableInv

\* Expiry changes nothing that an index condition looks at.
LEMMA AgedTable ==
  ASSUME NEW table \in [Pks -> Records \cup {None}], NEW p \in Pks
  PROVE  /\ Aged(table, p) \in [Pks -> Records \cup {None}]
         /\ \A q \in Pks :
              \/ Aged(table, p)[q] = table[q]
              \/ /\ q = p /\ table[q] # None
                 /\ Aged(table, p)[q] # None /\ Aged(table, p)[q].f = table[q].f
<1>1. CASE table[p] = None
  BY <1>1 DEF Aged
<1>2. CASE table[p] # None
  <2>1. table[p] \in Records
    BY <1>2
  <2>2. [table[p] EXCEPT !.old = TRUE] \in Records
    BY <2>1 DEF Records
  <2>3. [table[p] EXCEPT !.old = TRUE].f = table[p].f
    BY <2>1 DEF Records
  <2>4. Aged(table, p) = [table EXCEPT ![p] = [table[p] EXCEPT !.old = TRUE]]
    BY <1>2 DEF Aged
  <2>5. None \notin Records
    BY PagingAssumption
  <2> HIDE DEF Records
  <2> QED
    BY <1>2, <2>2, <2>3, <2>4, <2>5
<1> QED
  BY <1>1, <1>2

\* A row that expires during the walk is steady no more.
LEMMA ExpireInv ==
  ASSUME Shape, Walk, Expire
  PROVE  (Shape /\ Walk)'
<1>1. /\ events < MaxEvents /\ events' = events + 1
      /\ UNCHANGED <<query, after, page, done, seen>>
  BY DEF Expire
<1>2. PICK p \in Pks :
        /\ rows' = Aged(rows, p) \/ rows' = rows
        /\ iter' = IF iter = None THEN None ELSE [iter EXCEPT !.snap = Aged(@, p)]
        /\ steady' = steady \ {p}
  BY DEF Expire
<1>3. rows \in [Pks -> Records \cup {None}]
  BY DEF Shape
<1>4. /\ rows' \in [Pks -> Records \cup {None}]
      /\ \A q \in Pks :
           \/ rows'[q] = rows[q]
           \/ /\ q = p /\ rows[q] # None /\ rows'[q] # None
              /\ rows'[q].f = rows[q].f
  BY <1>2, <1>3, AgedTable
<1>5. events' \in 0 .. MaxEvents
  BY <1>1, PagingAssumption DEF Shape
<1>6. UniqueRows'
  BY <1>1, <1>4 DEF Walk, UniqueRows
<1>7. ASSUME NEW q \in steady'
      PROVE  rows'[q] # None /\ ~rows'[q].old /\ MatchesFrom(1, rows'[q])
  <2>1. q # p /\ q \in Pks /\ SteadyRow(q)
    BY <1>2, <1>7 DEF Shape, Walk
  <2> QED
    BY <1>4, <2>1 DEF SteadyRow
<1>8. ASSUME iter # None
      PROVE  /\ iter' \in Iterators
             /\ iter'.keys = iter.keys /\ iter'.pos = iter.pos
             /\ iter'.resumed = iter.resumed /\ iter'.evict = iter.evict
             /\ \A k \in Pks :
                  \/ iter'.snap[k] = iter.snap[k]
                  \/ /\ k \notin steady' /\ iter.snap[k] # None
                     /\ iter'.snap[k] # None /\ iter'.snap[k].f = iter.snap[k].f
  <2>1. iter \in Iterators /\ iter.snap \in [Pks -> Records \cup {None}]
    BY <1>8 DEF Shape, Iterators
  <2>2. iter' = [iter EXCEPT !.snap = Aged(iter.snap, p)]
    BY <1>2, <1>8
  <2>3. Aged(iter.snap, p) \in [Pks -> Records \cup {None}]
    BY <2>1, AgedTable
  <2>4. /\ iter' \in Iterators
        /\ iter'.keys = iter.keys /\ iter'.pos = iter.pos
        /\ iter'.resumed = iter.resumed /\ iter'.evict = iter.evict
        /\ iter'.snap = Aged(iter.snap, p)
    BY <2>1, <2>2, <2>3 DEF Iterators
  <2> QED
    BY <1>2, <2>1, <2>4, AgedTable
<1>9. (iter = None => iter' = None) /\ steady' \subseteq steady
  BY <1>2
<1> QED
  BY <1>1, <1>4, <1>5, <1>6, <1>7, <1>8, <1>9, TableInv

-----------------------------------------------------------------------------
\* A stutter changes nothing.
LEMMA StutterInv ==
  ASSUME Shape, Walk, UNCHANGED vars
  PROVE  (Shape /\ Walk)'
<1>1. /\ UNCHANGED <<rows, query, after, iter, page, done, events, seen, steady>>
  BY DEF vars
<1>2. Shape'
  BY <1>1 DEF Shape
<1>3. \A p \in steady : rows[p] # None /\ ~rows[p].old /\ MatchesFrom(1, rows[p])
  BY DEF Walk, SteadyRow
<1>4. UniqueRows'
  BY <1>1 DEF Walk, UniqueRows
<1>5. events' \in 0 .. MaxEvents /\ rows' \in [Pks -> Records \cup {None}]
  BY <1>1 DEF Shape
<1>6. iter # None => iter' \in Iterators
  BY <1>1 DEF Shape
<1> QED
  BY <1>1, <1>3, <1>4, <1>5, <1>6, TableInv

\* The invariant of the walk holds in every execution.
LEMMA WalkInvariant == Spec => [](Shape /\ Walk)
<1>1. Shape /\ Walk /\ [Next]_vars => (Shape /\ Walk)'
  BY OpenPageInv, OpenFailsInv, TakeInv, MeetInv, EvictInv, ReadFailsInv,
     EndOfKeysInv, AdminCutInv, WriteInv, ExpireInv, StutterInv DEF Next
<1> QED
  BY <1>1, InitInv, PTL DEF Spec

(* api.md:228, ops.md:84-85: no walk returns a row twice or goes back, and   *)
(* no page exceeds its limit.                                               *)
THEOREM WalksAscend == Spec => []WalkAscends
<1>1. Shape => TypeOK
  <2> SUFFICES ASSUME Shape PROVE TypeOK
    OBVIOUS
  <2>1. iter = None \/ iter.pos \in Pks \cup {0, None}
    BY DEF Shape, Iterators
  <2> QED
    BY <2>1 DEF Shape, TypeOK
<1>2. Shape /\ Walk => WalkAscends
  BY <1>1 DEF Walk, SeenAscends, WalkAscends
<1> QED
  BY <1>2, WalkInvariant, PTL

(* db.go:400-416, query.go: a row that has matched since the walk began is   *)
(* neither passed over nor deleted, whatever others do, unless it or a       *)
(* version of it expired, it could not be read, or the hot cache answered    *)
(* with an outdated version that does not match.                             *)
THEOREM WalksSkipNothing == Spec => []NoSteadyRowSkipped
<1>1. Shape /\ Walk => NoSteadyRowSkipped
  BY DEF Shape, Walk, SteadyRow, NoSteadyRowSkipped, Matching
<1> QED
  BY <1>1, WalkInvariant, PTL

(* query.go:140-175: what a page returns had not expired when it was read    *)
(* and matches, but for an index's condition, which held when it began.      *)
THEOREM WalksReturnMatches == Spec => []ResultsMatch
<1>1. Walk => ResultsMatch
  BY DEF Walk
<1> QED
  BY <1>1, WalkInvariant, PTL
=============================================================================
