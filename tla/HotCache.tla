------------------------------ MODULE HotCache ------------------------------
(***************************************************************************)
(* internal/cache/tinylfu.go: a map and a list of entries under one lock,  *)
(* a byte budget, and an expiry that a hit renews without the lock.  Get    *)
(* looks up under the read lock and finishes later, either renewing the     *)
(* entry it holds a pointer to or evicting what it saw expired; Set,        *)
(* Delete and the sweeper are one step each, under the write lock.  Whether *)
(* a key is admitted is the caller's choice; FrequencySketch has what       *)
(* Record makes of it.                                                      *)
(***************************************************************************)
EXTENDS Integers, Sequences, FiniteSets, FiniteSetsExt, SequencesExt, Functions

CONSTANTS
  Keys,
  Entries,     \* the entry structs: bounds how many are in use
  None,        \* no entry
  Getters,     \* goroutines that call Get
  Sizes,       \* len(key) + len(value) + entryOverhead of what is Set
  MaxBytes,
  MaxItemBytes,
  TTL,
  MaxTime      \* bound on the clock

ASSUME CacheAssumption ==
  /\ None \notin Entries
  /\ Sizes \subseteq Nat \ {0}
  /\ {MaxBytes, MaxItemBytes, TTL, MaxTime} \subseteq Nat \ {0}

VARIABLES
  cache,       \* TinyLFU.cache: the map from keys to entries
  lru,         \* TinyLFU.lru: the list, front first
  curBytes,
  entry,       \* the entry structs; one that left the list is blank
  get,         \* get[g]: what g's Get has found
  clock,
  running,     \* the sweeper has not been stopped
  renewed      \* history: the entries in the list that a Get has renewed

dataVars == <<cache, lru, curBytes, entry>>
vars == <<cache, lru, curBytes, entry, get, clock, running, renewed>>

Idle   == [at |-> "idle"]
Listed == ToSet(lru)
Held   == {get[g].ent : g \in {h \in Getters : get[h].at = "hit"}}
Blank  == [key |-> None, size |-> 0, expiresAt |-> 0]

Init ==
  /\ cache = [k \in Keys |-> None]
  /\ lru = <<>>
  /\ curBytes = 0
  /\ entry = [e \in Entries |-> Blank]
  /\ get = [g \in Getters |-> Idle]
  /\ clock = 0
  /\ running = TRUE
  /\ renewed = {}

Total(S) == SumFunctionOnSet([e \in Entries |-> entry[e].size], S)

Expired(e, now) == now > entry[e].expiresAt

(* The list becomes q, with nothing in it that was not there before; what   *)
(* is no longer listed leaves the map and the budget as well.               *)
Gone(q)       == Listed \ ToSet(q)
BytesKept(q)  == curBytes                  \* slip: the count is forgotten
BytesLeft(q)  == curBytes - Total(Gone(q))
Unmapped(q)   == [k \in Keys |->
                    IF \E e \in Gone(q) : entry[e].key = k THEN None ELSE cache[k]]
Blanked(q)    == [e \in Entries |-> IF e \in Gone(q) THEN Blank ELSE entry[e]]

Leave(q) ==
  /\ lru' = q
  /\ cache' = Unmapped(q)
  /\ curBytes' = BytesLeft(q)
  /\ entry' = Blanked(q)
  /\ renewed' = renewed \cap ToSet(q)

(* One entry is taken out of the list, or its tail after the n-th.          *)
Without(e) == RemoveAt(lru, CHOOSE i \in DOMAIN lru : lru[i] = e)
UpTo(q, n) == SubSeq(q, 1, n)

(* What Set leaves of the list to make room for `size` bytes: the old entry *)
(* of the key is out first, then it evicts from the tail, one at a time,    *)
(* until there is room or nothing is left.                                  *)
FullOnly(q, size) == BytesLeft(q) <= MaxBytes   \* slip: without the item
Fits(q, size)     == BytesLeft(q) + size <= MaxBytes

Rest(k) == IF cache[k] = None THEN lru ELSE Without(cache[k])

Kept(k, size) ==
  UpTo(Rest(k), Max({0} \cup {n \in 1 .. Len(Rest(k)) : Fits(UpTo(Rest(k), n), size)}))

(* PushFront.                                                               *)
PushBack(e, q)  == Append(q, e)            \* slip: at the tail
PushFront(e, q) == <<e>> \o q

(* e is a new struct: neither the list nor a Get refers to it.              *)
Set(k, size, e) ==
  /\ e \notin Listed \cup Held
  /\ size <= MaxItemBytes
  /\ LET q == Kept(k, size) IN
       /\ lru' = PushFront(e, q)
       /\ cache' = [Unmapped(q) EXCEPT ![k] = e]
       /\ curBytes' = BytesLeft(q) + size
       /\ entry' = [Blanked(q) EXCEPT ![e] =
            [key |-> k, size |-> size, expiresAt |-> clock + TTL]]
       /\ renewed' = renewed \cap ToSet(q)
  /\ UNCHANGED <<get, clock, running>>

Delete(k) ==
  /\ cache[k] # None
  /\ Leave(Without(cache[k]))
  /\ UNCHANGED <<get, clock, running>>

(* Get under the read lock; a miss changes nothing.                         *)
GetFinds(g, k) ==
  /\ get[g] = Idle
  /\ cache[k] # None
  /\ get' = [get EXCEPT ![g] =
       IF Expired(cache[k], clock)
       THEN [at |-> "expired", key |-> k, now |-> clock]
       ELSE [at |-> "hit", ent |-> cache[k], now |-> clock]]
  /\ UNCHANGED <<dataVars, clock, running, renewed>>

(* The renewal, without the lock, with the time of the lookup.  On an entry *)
(* that has left the list it has no effect.                                 *)
GetRenews(g) ==
  /\ get[g].at = "hit"
  /\ entry' = [e \in Entries |->
       IF e = get[g].ent /\ e \in Listed
       THEN [entry[e] EXCEPT !.expiresAt = get[g].now + TTL] ELSE entry[e]]
  /\ renewed' = renewed \cup ({get[g].ent} \cap Listed)
  /\ get' = [get EXCEPT ![g] = Idle]
  /\ UNCHANGED <<cache, lru, curBytes, clock, running>>

(* Under the write lock the key is looked up again.                         *)
NoRecheck(e, now)    == TRUE               \* slip: evicts what replaced it
StillExpired(e, now) == Expired(e, now)

GetEvicts(g) ==
  /\ get[g].at = "expired"
  /\ LET e == cache[get[g].key] IN
       IF e # None /\ StillExpired(e, get[g].now)
       THEN Leave(Without(e)) ELSE UNCHANGED <<dataVars, renewed>>
  /\ get' = [get EXCEPT ![g] = Idle]
  /\ UNCHANGED <<clock, running>>

(* The sweeper takes expired entries from the tail up to the first that is  *)
(* not.                                                                     *)
Sweep ==
  /\ running
  /\ \E n \in 0 .. Len(lru) - 1 :
       /\ \A i \in n + 1 .. Len(lru) : Expired(lru[i], clock)
       /\ n > 0 => ~Expired(lru[n], clock)
       /\ Leave(UpTo(lru, n))
  /\ UNCHANGED <<get, clock, running>>

Close ==
  /\ running
  /\ running' = FALSE
  /\ UNCHANGED <<dataVars, get, clock, renewed>>

Tick ==
  /\ clock < MaxTime
  /\ clock' = clock + 1
  /\ UNCHANGED <<dataVars, get, running, renewed>>

Next ==
  \/ \E k \in Keys : Delete(k)
  \/ \E k \in Keys, size \in Sizes, e \in Entries : Set(k, size, e)
  \/ \E g \in Getters, k \in Keys : GetFinds(g, k)
  \/ \E g \in Getters : GetRenews(g) \/ GetEvicts(g)
  \/ Sweep
  \/ Close
  \/ Tick

Spec == Init /\ [][Next]_vars

-----------------------------------------------------------------------------
(* Properties                                                               *)

TypeOK ==
  /\ cache \in [Keys -> Entries \cup {None}]
  /\ lru \in Seq(Entries)
  /\ curBytes \in Nat
  /\ \A e \in Entries :
       /\ entry[e].key \in Keys \cup {None}
       /\ entry[e].size \in Sizes \cup {0}
       /\ entry[e].expiresAt \in 0 .. MaxTime + TTL
  /\ \A g \in Getters : get[g].at \in {"idle", "hit", "expired"}
  /\ clock \in 0 .. MaxTime
  /\ running \in BOOLEAN
  /\ renewed \subseteq Entries

(* Five code paths take entries out and each updates the map, the list and  *)
(* the byte count by hand: they keep their types and agree after any        *)
(* interleaving.                                                            *)
MapListAndBytesAgree ==
  /\ TypeOK
  /\ IsInjective(lru)
  /\ \A e \in Listed : cache[entry[e].key] = e
  /\ \A k \in Keys : cache[k] # None => cache[k] \in Listed
  /\ curBytes = Total(Listed)

(* tinylfu.go:33, 146: Set makes room first, so the budget is kept, but for *)
(* one item that alone exceeds it (MaxItemBytes above MaxBytes, which       *)
(* db.go:84-95 never configures).                                           *)
BudgetKept ==
  curBytes <= MaxBytes \/ (Len(lru) = 1 /\ MaxItemBytes > MaxBytes)

(* tinylfu.go:206-219: the sweep stops at the first entry that has not      *)
(* expired, as those nearer the front are younger.  Nothing moves an entry  *)
(* that is used to the front, so an expired one is passed over, but only    *)
(* behind an entry that a Get has renewed, however late the renewal landed. *)
SweepMissesOnlyBehindRenewed ==
  \A i, j \in DOMAIN lru :
    i < j /\ Expired(lru[i], clock) /\ ~Expired(lru[j], clock)
      => lru[j] \in renewed

(* tinylfu.go:109-121: expiry takes only entries that are expired when they *)
(* are taken, though Get decided on a lookup that others have overtaken.    *)
OnlyExpiredExpire ==
  [][Sweep \/ (\E g \in Getters : GetEvicts(g))
     => \A e \in Listed : e \notin Listed' => Expired(e, clock)]_vars
=============================================================================
