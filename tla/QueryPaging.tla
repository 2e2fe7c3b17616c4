----------------------------- MODULE QueryPaging ----------------------------
(***************************************************************************)
(* A caller walks the pages of a query while others write.  The pages come  *)
(* from the code internal/codegen/query.go generates (Exec chooses between  *)
(* the index and a full scan, After resumes behind a primary key) or from   *)
(* the key listing of sqlitex-admin, both over the iterator of db.go, whose *)
(* keys are a snapshot.  An index scan reads the rows themselves with       *)
(* DB.Get: as they are by then, or as the hot cache still has them          *)
(* (StaleOnlyAfterRace of SqliteXDB says when that is an outdated version). *)
(*                                                                         *)
(* Rows expire at any moment; a query deletes the expired rows it meets.    *)
(* The index entries are those of the table (IndexedStore says but for      *)
(* which races).  Primary keys are numbers: their encoding keeps the order  *)
(* (KeySpace).                                                              *)
(***************************************************************************)
EXTENDS Integers, Sequences, FiniteSets, SequencesExt, FiniteSetsExt

CONSTANTS
  Pks,         \* primary keys
  Values,      \* values of the indexed field F and of the plain field G
  None,        \* no row; no iterator
  Limits,      \* page sizes
  MaxEvents    \* bound on the writes, expiries, failures and outdated reads
               \* during the walk

Records == [f : Values, g : Values, old : BOOLEAN]
NewRows == {r \in Records : ~r.old}

ASSUME PagingAssumption ==
  /\ Pks \subseteq Nat \ {0}
  /\ Values \subseteq Nat
  /\ Limits \subseteq Nat \ {0}
  /\ MaxEvents \in Nat
  /\ None \notin Nat \cup Records

VARIABLES
  rows,        \* the table; a row is old once its time is over
  query,       \* who lists, the kind of F's index, where and limit
  after,       \* the cursor: the last primary key of the pages so far, or 0
  iter,        \* the iterator of the page being read
  page,        \* the page: keys, rows, and (history) the rows when it began
  done,        \* the caller has seen the last page
  events,
  seen,        \* history: the primary keys returned, over all pages
  steady       \* history: the rows that matched ever since the walk began,
               \* without an expired version, a failed read or an outdated
               \* one that does not match

vars == <<rows, query, after, iter, page, done, events, seen, steady>>

-----------------------------------------------------------------------------
(* Conditions                                                               *)

(* A >= that every value meets is left out.                                 *)
Bounds     == {v \in Values : \E w \in Values : w < v}
AtLeast(field) == [field : {field}, op : {">="}, value : Bounds]
Equal(field)   == [field : {field}, op : {"="}, value : Values]
Conditions == UNION {AtLeast(field) \cup Equal(field) : field \in {"f", "g"}}

(* compareX looks its argument up by field and operator: no Query has two   *)
(* conditions with the same (api.md:228 asks callers not to repeat them).   *)
Wheres ==
  {<<>>} \cup {<<a>> : a \in Conditions}
    \cup {w \in {<<a, b>> : a, b \in Conditions} :
            w[1].field # w[2].field \/ w[1].op # w[2].op}

Compare(row, c) ==
  CASE c.op = "="  -> row[c.field] = c.value
    [] c.op = ">=" -> row[c.field] >= c.value

(* matchWhere is MatchesFrom 1, matchWhereTail is MatchesFrom 2.            *)
MatchesFrom(i, row) ==
  \A j \in i .. Len(query.where) : Compare(row, query.where[j])

(* Exec: an equality on the indexed field, if it is the first condition.    *)
Indexed ==
  /\ query.by = "generated"
  /\ query.where # <<>>
  /\ query.where[1].field = "f"
  /\ query.where[1].op = "="

Old(row) == row # None /\ row.old

Matching == {p \in Pks : rows[p] # None /\ MatchesFrom(1, rows[p])}

Init ==
  /\ rows \in [Pks -> NewRows \cup {None}]
  /\ query \in [by : {"generated", "admin"}, unique : BOOLEAN, where : Wheres,
                limit : Limits]
  /\ query.by = "admin" => query.where = <<>> /\ ~query.unique
  /\ query.unique => \A p, q \in Pks :
       p # q /\ rows[p] # None /\ rows[q] # None => rows[p].f # rows[q].f
  /\ after = 0
  /\ iter = None
  /\ page = <<>>
  /\ done = FALSE
  /\ events = 0
  /\ seen = <<>>
  /\ steady = Matching

-----------------------------------------------------------------------------
(* The iterator                                                             *)

(* The keys under the prefix, in order.  An index entry ends in the primary *)
(* key of its row, but that of a unique index ends before it.               *)
InPrefix ==
  {p \in Pks : rows[p] # None /\ (Indexed => rows[p].f = query.where[1].value)}
Suffix(p) == IF Indexed /\ query.unique THEN 0 ELSE p

(* An iterator stands on a key, before the first, which is 0, or at None:   *)
(* there is no further key.                                                 *)
FirstOf(keys) == IF keys = {} THEN None ELSE Min(keys)

(* SeekAfter: the first key not below the cursor, and not the cursor.       *)
AtCursor(keys)   ==                             \* slip: the cursor again
  FirstOf({k \in keys : Suffix(k) >= after})
PastCursor(keys) == FirstOf({k \in keys : Suffix(k) > after})

OpenPage ==
  /\ iter = None
  /\ ~done
  /\ iter' = [keys |-> InPrefix, snap |-> rows,
              pos |-> IF after = 0 THEN 0 ELSE PastCursor(InPrefix),
              resumed |-> after # 0, evict |-> None, kept |-> Pks]
  /\ page' = <<>>
  /\ UNCHANGED <<rows, query, after, done, events, seen, steady>>

(* Iterate gives no iterator: the page of a query is empty, as if it were    *)
(* the last, where the admin tool reports an error.                         *)
OpenFails ==
  /\ iter = None
  /\ ~done
  /\ query.by = "generated"
  /\ done' = TRUE
  /\ page' = <<>>
  /\ steady' = {}
  /\ UNCHANGED <<rows, query, after, iter, events, seen>>

(* PrefixIterator.Next: after SeekAfter the first call does not advance.    *)
Following == FirstOf({k \in iter.keys : k > iter.pos})
Advanced  ==                                    \* slip: it always advances
  IF iter.pos = None THEN None ELSE Following
Key       == IF iter.resumed THEN iter.pos ELSE Following

Reading   == iter # None /\ iter.evict = None
Exhausted == Key = None
Moved     == [iter EXCEPT !.pos = Key, !.resumed = FALSE]

(* The row at hand: a full scan has the snapshot's, an index scan asks      *)
(* DB.Get, which may know a version that is no more (an event).             *)
RowAtHand == IF Indexed THEN rows[Key] ELSE iter.snap[Key]
Answers   ==
  {RowAtHand} \cup IF Indexed /\ events < MaxEvents THEN Records ELSE {}

Outdated(row)      == row # RowAtHand
EventOnlyIf(event) == events' = IF event THEN events + 1 ELSE events
LostIf(lost)       == steady' = IF lost THEN steady \ {Key} ELSE steady

(* An index scan trusts its entry for the first condition.                  *)
AnyRow(row)   == row # None                     \* slip: the tail is forgotten
Accepted(row) ==
  /\ row # None
  /\ query.by = "admin" \/ MatchesFrom(IF Indexed THEN 2 ELSE 1, row)

(* The page is over.  Its last key is the next cursor.                      *)
ClosePage(returned, last) ==
  /\ iter' = None
  /\ page' = returned
  /\ done' = last
  /\ after' = IF returned = <<>> THEN after ELSE Last(returned).pk
  /\ seen' = seen \o [i \in DOMAIN returned |-> returned[i].pk]

Full(found) == Len(found) >= query.limit

(* Exec stops at the limit, and a caller asks on after a full page; the     *)
(* admin listing looks for one key more and says if there is none.          *)
EndOfKeys ==
  /\ Reading
  /\ Exhausted
  /\ ClosePage(page, TRUE)
  /\ UNCHANGED <<rows, query, events, steady>>

AdminCut ==
  /\ Reading
  /\ query.by = "admin"
  /\ ~Exhausted
  /\ Full(page)
  /\ ClosePage(page, FALSE)
  /\ UNCHANGED <<rows, query, events, steady>>

(* The admin listing shows an expired row; a query deletes it.              *)
ToBeEvicted(row) == query.by = "generated" /\ Old(row)

Take ==
  /\ Reading
  /\ ~Exhausted
  /\ query.by = "admin" => ~Full(page)
  /\ \E row \in Answers :
       LET found == IF Accepted(row)
                    THEN Append(page,
                           [pk |-> Key, row |-> row, then |-> iter.snap[Key]])
                    ELSE page IN
       /\ ~ToBeEvicted(row)
       /\ IF query.by = "generated" /\ Full(found)
          THEN ClosePage(found, FALSE)
          ELSE page' = found /\ iter' = Moved /\ UNCHANGED <<after, done, seen>>
       /\ EventOnlyIf(Outdated(row))
       /\ LostIf(Outdated(row) /\ ~Accepted(row))
  /\ UNCHANGED <<rows, query>>

Meet ==
  /\ Reading
  /\ ~Exhausted
  /\ \E row \in Answers :
       /\ ToBeEvicted(row)
       /\ EventOnlyIf(Outdated(row))
       /\ LostIf(Outdated(row))
  /\ iter' = [Moved EXCEPT !.evict = Key]
  /\ UNCHANGED <<rows, query, after, page, done, seen>>

(* deleteWithIndexes, by primary key, of what was seen expired, whatever    *)
(* the row is by now; its error is ignored.                                 *)
Evict ==
  /\ iter # None
  /\ iter.evict # None
  /\ rows' \in {rows, [rows EXCEPT ![iter.evict] = None]}
  /\ iter' = [iter EXCEPT !.evict = None]
  /\ UNCHANGED <<query, after, page, done, events, seen, steady>>

(* The DB.Get of an index scan fails, or what a query read does not         *)
(* deserialize: the row is passed over.                                     *)
ReadFails ==
  /\ Reading
  /\ ~Exhausted
  /\ query.by = "generated"
  /\ events < MaxEvents
  /\ events' = events + 1
  /\ iter' = Moved
  /\ steady' = steady \ {Key}
  /\ UNCHANGED <<rows, query, after, page, done, seen>>

-----------------------------------------------------------------------------
(* Others create, change and delete rows, between pages and within one.     *)

Write ==
  /\ ~done
  /\ events < MaxEvents
  /\ events' = events + 1
  /\ \E p \in Pks, r \in NewRows \cup {None} :
       /\ r # None /\ query.unique =>
            \A q \in Pks \ {p} : rows[q] # None => rows[q].f # r.f
       /\ rows' = [rows EXCEPT ![p] = r]
       /\ iter' = IF iter = None THEN None ELSE [iter EXCEPT !.kept = @ \ {p}]
  /\ UNCHANGED <<query, after, page, done, seen>>
  /\ steady' = steady \cap Matching'

(* The time of a row is over, or only that of the version in the snapshot,  *)
(* if the row was saved since and thereby renewed.                          *)
Aged(table, p) ==
  IF table[p] = None THEN table ELSE [table EXCEPT ![p].old = TRUE]

Expire ==
  /\ ~done
  /\ events < MaxEvents
  /\ events' = events + 1
  /\ \E p \in Pks :
       /\ \/ rows[p] # None /\ ~Old(rows[p]) /\ rows' = Aged(rows, p)
          \/ /\ iter # None
             /\ p \notin iter.kept
             /\ iter.snap[p] # None /\ ~Old(iter.snap[p])
             /\ rows' = rows
       /\ iter' = IF iter = None THEN None ELSE [iter EXCEPT !.snap = Aged(@, p)]
       /\ steady' = steady \ {p}
  /\ UNCHANGED <<query, after, page, done, seen>>

Next ==
  \/ OpenPage \/ OpenFails \/ Take \/ Meet \/ Evict \/ ReadFails
  \/ EndOfKeys \/ AdminCut
  \/ Write \/ Expire

Spec == Init /\ [][Next]_vars

-----------------------------------------------------------------------------
(* Properties                                                               *)

TypeOK ==
  /\ rows \in [Pks -> Records \cup {None}]
  /\ after \in Pks \cup {0}
  /\ iter = None \/ iter.pos \in Pks \cup {0, None}
  /\ Len(page) <= query.limit
  /\ done \in BOOLEAN
  /\ events \in 0 .. MaxEvents
  /\ seen \in Seq(Pks)
  /\ steady \subseteq Pks

(* api.md:228, ops.md:84-85: a walk goes up in primary keys and returns no  *)
(* row twice, whatever is written or deleted meanwhile, the row of the      *)
(* cursor included; a page never exceeds its limit (TypeOK).                *)
WalkAscends ==
  /\ TypeOK
  /\ \A i, j \in DOMAIN seen : i < j => seen[i] < seen[j]

(* The same for omissions: a row that has matched ever since the walk began *)
(* is returned by the time the walk has passed it, and is not deleted by    *)
(* it: unless meanwhile a version of it expired, it could not be read, or   *)
(* the walk read an outdated version that does not match.  ttl.md:86        *)
(* promises more, but the walk may have seen an expired version of a row    *)
(* that was renewed.                                                        *)
NoSteadyRowSkipped ==
  \A p \in steady :
    /\ p \in Matching
    /\ done \/ p <= after => p \in ToSet(seen)

(* query.go:140-175: a row of the page matches the conditions; behind an    *)
(* index the first of them held when the page began and may be gone, since  *)
(* the row is read later.  The version that was read had not expired        *)
(* (ttl.md:97).                                                             *)
ResultsMatch ==
  query.by = "generated" => \A i \in DOMAIN page :
    /\ ~Old(page[i].row)
    /\ MatchesFrom(2, page[i].row)
    /\ query.where # <<>> =>
         \/ Compare(page[i].row, query.where[1])
         \/ Indexed /\ Compare(page[i].then, query.where[1])
=============================================================================
