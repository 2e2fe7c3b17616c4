---------------------------- MODULE IndexedStore ----------------------------
(***************************************************************************)
(* The store that internal/codegen/store.go generates for a table with a    *)
(* unique index, a normal index and a TTL: goroutines Create, Update,       *)
(* Delete, Get and PurgeExpired records through one DB.  Nothing locks a    *)
(* call: it reads the old record, deletes it if it is expired, looks up the *)
(* unique entry, and commits one batch made from what it read.              *)
(*                                                                         *)
(* Rows and unique entries are read by DB.Get, through the hot cache: what  *)
(* Pebble answered lands there later, and a WriteBatch, which is atomic     *)
(* (DatabaseProofs), drops its keys from there one by one after its commit. *)
(* Keys and values are abstract: there are rows, unique entries and normal  *)
(* entries.                                                                 *)
(***************************************************************************)
EXTENDS Integers, FiniteSets, Functions

CONSTANTS
  Clients,
  Pks,
  Uniques,     \* values of the field with INDEX_UNIQUE
  Normals,     \* values of the field with INDEX_NORMAL
  None,        \* no row, no holder
  TTL,         \* 0 for a table without TTL
  MaxOps,      \* bound on the calls
  MaxTime      \* bound on the clock

Records == [u : Uniques, n : Normals, expiresAt : 0 .. MaxTime + TTL]

ASSUME StoreAssumption ==
  /\ None \notin Pks \cup Records
  /\ Pks \cap Uniques = {}
  /\ {TTL, MaxOps, MaxTime} \subseteq Nat

VARIABLES
  rows,        \* the data rows
  uniq,        \* the entries of the unique index: the holder of each value
  norm,        \* the entries of the normal index
  cached,      \* what the hot cache may still hold of rows and unique entries
  call,        \* call[c]: where c stands and what it has read
  count,       \* how many calls have begun
  suspect,     \* history: records with overlapping calls or an unread old row
  contested,   \* history: unique values two Saves found free at a time
  overtaken,   \* history: unique values whose entry changed while a look-up
               \* was bringing it into the cache
  clock

dataVars == <<rows, uniq, norm>>
history  == <<suspect, contested, overtaken>>
vars == <<dataVars, cached, call, count, history, clock>>

Idle == [at |-> "idle", pks |-> {}]
Busy(c) == call[c].at # "idle"

Expired(r) == r # None /\ r.expiresAt > 0 /\ clock > r.expiresAt

-----------------------------------------------------------------------------
(* The batch of a Create, an Update, a Delete or an expiry: row p becomes   *)
(* `new`; the index entries of `old` go and those of `new` come.            *)

UniqueValues(r)     == IF r = None THEN {} ELSE {r.u}
NormalEntries(p, r) == IF r = None THEN {} ELSE {<<r.n, p>>}

OldKept(p, old, new)   ==                      \* slip: old entries stay
  norm \cup NormalEntries(p, new)
PutsFirst(p, old, new) ==                      \* slip: the deletes come last
  (norm \cup NormalEntries(p, new)) \ NormalEntries(p, old)
NormAfter(p, old, new) ==
  (norm \ NormalEntries(p, old)) \cup NormalEntries(p, new)

Batch(p, old, new) ==
  /\ rows' = [rows EXCEPT ![p] = new]
  /\ norm' = NormAfter(p, old, new)
  /\ uniq' = [v \in Uniques |->
       IF v \in UniqueValues(new) THEN p
       ELSE IF v \in UniqueValues(old) THEN None ELSE uniq[v]]

(* The keys of the batch the hot cache can hold: no normal entry is read.   *)
RowOnly(p, old, new) == {p}                    \* slip: cached entries stay
Dropped(p, old, new) == {p} \cup UniqueValues(old) \cup UniqueValues(new)

-----------------------------------------------------------------------------
(* Calls.  Create and Update do the same: a Save.                           *)

Goes(c, step) == call' = [call EXCEPT ![c] = step] /\ UNCHANGED <<count, clock>>

(* The expiry of a new record is set before anything is read.               *)
TTLTwice  == IF TTL = 0 THEN 0 ELSE clock + 2 * TTL   \* slip: added twice
NewExpiry == IF TTL = 0 THEN 0 ELSE clock + TTL
NewRecord(v, x) == [u |-> v, n |-> x, expiresAt |-> NewExpiry]

(* The store is opened on rows saved before, whose entries are exact.       *)
Init ==
  /\ clock = 0
  /\ rows \in [Pks -> {None} \cup {NewRecord(v, x) : v \in Uniques, x \in Normals}]
  /\ uniq \in [Uniques -> Pks \cup {None}]
  /\ \A p \in Pks : \A v \in UniqueValues(rows[p]) : uniq[v] = p
  /\ \A v \in Uniques : uniq[v] # None => v \in UniqueValues(rows[uniq[v]])
  /\ norm = UNION {NormalEntries(p, rows[p]) : p \in Pks}
  /\ cached = [k \in Pks \cup Uniques |-> None]
  /\ call = [c \in Clients |-> Idle]
  /\ count = 0
  /\ suspect = {}
  /\ contested = {}
  /\ overtaken = {}

Called(c, kind, ps, new) ==
  /\ call' = [call EXCEPT ![c] = [at |-> "read", kind |-> kind, pks |-> ps,
                 new |-> new, seen |-> [p \in ps |-> None],
                 found |-> None, drop |-> {}]]
  /\ suspect' = suspect \cup UNION {ps \cap call[d].pks : d \in Clients}

Begin(c) ==
  /\ ~Busy(c)
  /\ count < MaxOps
  /\ count' = count + 1
  /\ \/ \E p \in Pks, v \in Uniques, x \in Normals :
          Called(c, "save", {p}, NewRecord(v, x))
     \/ \E p \in Pks, kind \in {"delete", "get"} : Called(c, kind, {p}, None)
     \/ TTL # 0 /\ Called(c, "purge", Pks, None)
  /\ UNCHANGED <<dataVars, cached, contested, overtaken, clock>>

(* What comes after the old record is known: the look-up of a Save, the     *)
(* batch of a Delete; a Get and a PurgeExpired are done.                    *)
Onward(step) ==
  CASE step.kind = "save"   -> [step EXCEPT !.at = "check"]
    [] step.kind = "delete" -> [step EXCEPT !.at = "commit"]
    [] OTHER -> Idle

(* DB.Get of the row: the hot cache has it, or Pebble, and then it is on    *)
(* its way into the cache.  The cache may have forgotten any entry (and     *)
(* forgets one that Pebble has not), so that a look-up may always miss.     *)
(* PurgeExpired iterates over a snapshot.                                   *)
Read(c) ==
  /\ call[c].at = "read"
  /\ \/ /\ call[c].kind # "purge"
        /\ \A p \in call[c].pks : cached[p] # None
        /\ Goes(c, [call[c] EXCEPT !.at = "judge",
                                   !.seen = Restrict(cached, call[c].pks)])
     \/ Goes(c, [call[c] EXCEPT
             !.at = IF call[c].kind # "purge"
                       /\ \A p \in call[c].pks : rows[p] # None
                    THEN "fill" ELSE "judge",
             !.seen = Restrict(rows, call[c].pks)])
  /\ UNCHANGED <<dataVars, cached, history>>

(* The sketch decides whether what was read enters the cache.               *)
FillRow(c) ==
  /\ call[c].at = "fill"
  /\ Goes(c, [call[c] EXCEPT !.at = "judge"])
  /\ \E p \in call[c].pks :
       cached' \in {cached, [cached EXCEPT ![p] = call[c].seen[p]]}
  /\ UNCHANGED <<dataVars, history>>

(* DB.Get fails.  Save and Delete ignore the error and go on as if there    *)
(* were no row.                                                             *)
ReadFails(c) ==
  /\ call[c].at = "read"
  /\ Goes(c, Onward(call[c]))
  /\ suspect' = IF call[c].kind \in {"save", "delete"}
                THEN suspect \cup call[c].pks ELSE suspect
  /\ UNCHANGED <<dataVars, cached, contested, overtaken>>

(* time.Now is compared with the expiry that was read.                      *)
Judge(c) ==
  /\ call[c].at = "judge"
  /\ LET expired == {p \in call[c].pks : Expired(call[c].seen[p])} IN
       Goes(c, IF expired = {} THEN Onward(call[c])
               ELSE [call[c] EXCEPT !.at = "evict", !.pks = expired])
  /\ UNCHANGED <<dataVars, cached, history>>

(* The next expired record, if there is one; the old record is no more.     *)
NextExpired(step) ==
  LET left == {p \in step.pks : step.seen[p] # None} IN
  IF left = {} THEN Onward(step) ELSE [step EXCEPT !.at = "evict", !.pks = left]

(* deleteWithIndexes of an expired record, with the index values that were  *)
(* read.  Its error is ignored: the index entries then stay too.            *)
Evict(c) ==
  /\ call[c].at = "evict"
  /\ \E p \in call[c].pks :
       LET gone == [call[c] EXCEPT !.seen[p] = None] IN
       \/ /\ Batch(p, call[c].seen[p], None)
          /\ Goes(c, [gone EXCEPT !.at = "evicted",
                        !.drop = Dropped(p, call[c].seen[p], None)])
          /\ UNCHANGED suspect
       \/ /\ Goes(c, NextExpired(gone))
          /\ suspect' = suspect \cup {p}
          /\ UNCHANGED dataVars
  /\ UNCHANGED <<cached, contested, overtaken>>

(* The unique entry of the new value: there is none, or it is the record's. *)
Free(c, holder) == holder \in {None} \cup call[c].pks

(* ErrDuplicateKey if the value is another record's: nothing is written.    *)
Decided(c, holder) ==
  IF Free(c, holder) THEN [call[c] EXCEPT !.at = "commit", !.found = None]
  ELSE Idle

(* A Save that has found its value free and has not committed.              *)
Taking(c) ==
  /\ call[c].at \in {"found", "commit"}
  /\ call[c].kind = "save"
  /\ Free(c, call[c].found)

Contested(c, holder) ==
  {call[c].new.u : d \in {e \in Clients : Taking(e) /\ Free(c, holder)
                                     /\ call[e].new.u = call[c].new.u}}

(* DB.Get of the unique entry, from the cache or from Pebble, as in Read.   *)
Check(c) ==
  /\ call[c].at = "check"
  /\ LET v == call[c].new.u IN
     \/ /\ cached[v] # None
        /\ Goes(c, Decided(c, cached[v]))
        /\ contested' = contested \cup Contested(c, cached[v])
     \/ /\ Goes(c, IF uniq[v] = None THEN Decided(c, None)
                    ELSE [call[c] EXCEPT !.at = "found", !.found = uniq[v]])
        /\ contested' = contested \cup Contested(c, uniq[v])
  /\ UNCHANGED <<dataVars, cached, suspect, overtaken>>

(* The entry that Pebble had reaches the cache, whatever is true by now.    *)
FillEntry(c) ==
  /\ call[c].at = "found"
  /\ Goes(c, Decided(c, call[c].found))
  /\ LET v == call[c].new.u IN
     \/ UNCHANGED <<cached, overtaken>>
     \/ /\ cached' = [cached EXCEPT ![v] = call[c].found]
        /\ overtaken' = IF uniq[v] = call[c].found THEN overtaken
                        ELSE overtaken \cup {v}
  /\ UNCHANGED <<dataVars, suspect, contested>>

(* The error of the look-up.                                                *)
CheckFails(c) ==
  /\ call[c].at = "check"
  /\ Goes(c, Idle)
  /\ UNCHANGED <<dataVars, cached, history>>

(* WriteBatch, which may fail.                                              *)
Commit(c) ==
  /\ call[c].at = "commit"
  /\ \/ \E p \in call[c].pks :
          /\ Batch(p, call[c].seen[p], call[c].new)
          /\ Goes(c, [call[c] EXCEPT !.at = "committed",
                        !.drop = Dropped(p, call[c].seen[p], call[c].new)])
     \/ Goes(c, Idle) /\ UNCHANGED dataVars
  /\ UNCHANGED <<cached, history>>

(* After the commit WriteBatch drops its keys from the cache, one by one,   *)
(* the row's first; then the call goes on or returns.                       *)
Forget(c) ==
  /\ call[c].at \in {"evicted", "committed"}
  /\ \E k \in call[c].drop :
       /\ k \in Pks \/ call[c].drop \cap Pks = {}
       /\ LET step == [call[c] EXCEPT !.drop = @ \ {k}] IN
          /\ cached' = [cached EXCEPT ![k] = None]
          /\ Goes(c, IF step.drop # {} THEN step
                     ELSE IF step.at = "committed" THEN Idle ELSE NextExpired(step))
  /\ UNCHANGED <<dataVars, history>>

Tick ==
  /\ clock < MaxTime
  /\ clock' = clock + 1
  /\ UNCHANGED <<dataVars, cached, call, count, history>>

Next ==
  \/ \E c \in Clients :
       \/ Begin(c) \/ Read(c) \/ FillRow(c) \/ ReadFails(c) \/ Judge(c)
       \/ Evict(c) \/ Check(c) \/ FillEntry(c) \/ CheckFails(c)
       \/ Commit(c) \/ Forget(c)
  \/ Tick

Spec == Init /\ [][Next]_vars

-----------------------------------------------------------------------------
(* Properties                                                               *)

TypeOK ==
  /\ rows \in [Pks -> Records \cup {None}]
  /\ uniq \in [Uniques -> Pks \cup {None}]
  /\ norm \subseteq Normals \X Pks
  /\ DOMAIN cached = Pks \cup Uniques
  /\ \A p \in Pks : cached[p] \in Records \cup {None}
  /\ \A v \in Uniques : cached[v] \in Pks \cup {None}
  /\ \A c \in Clients :
       /\ call[c].pks \subseteq Pks
       /\ Busy(c) =>
            /\ call[c].new \in Records \cup {None}
            /\ \A p \in call[c].pks : call[c].seen[p] \in Records \cup {None}
            /\ call[c].found \in Pks \cup {None}
            /\ call[c].drop \subseteq Pks \cup Uniques
  /\ count \in 0 .. MaxOps
  /\ suspect \subseteq Pks
  /\ contested \cup overtaken \subseteq Uniques
  /\ clock \in 0 .. MaxTime

(* store.go:149-265, 364-389: whatever calls overlap, expire, read nothing  *)
(* or fail, a row that is stored is found through its normal index.         *)
RowsAreIndexed ==
  \A p \in Pks : NormalEntries(p, rows[p]) \subseteq norm

(* store.go:158-174, 221-248, 273-291: no entry is left of an old version   *)
(* of a record, in either index, through renewals, expiry, purges and reads *)
(* through the cache; only overlapping calls on that record, or a read or   *)
(* an expiry that failed, can leave one.                                    *)
EntriesExactUnlessRaced ==
  \A p \in Pks \ suspect :
    /\ {e \in norm : e[2] = p} = NormalEntries(p, rows[p])
    /\ \A v \in Uniques : uniq[v] = p => v \in UniqueValues(rows[p])

(* schema.md:73-78 says that two records share a unique value only if two   *)
(* Saves of that value both looked it up before either committed.  There    *)
(* are two more ways: a race on some record left its entries wrong, or the  *)
(* entry changed under a look-up, whose old holder, once cached, passes the *)
(* look-up of a later Save as its own (store.go:189, 248; db.go:201-205).   *)
UniqueUnlessRaced ==
  \A p, q \in Pks :
    p # q /\ UniqueValues(rows[p]) \cap UniqueValues(rows[q]) # {} =>
      suspect # {} \/ rows[p].u \in contested \cup overtaken

(* ttl.md:86: PurgeExpired deletes no record that is not expired.            *)
PurgeSparesFresh ==
  [][\A c \in Clients : Evict(c) /\ call[c].kind = "purge" =>
       \A p \in Pks :
         rows[p] # None /\ rows'[p] = None => Expired(rows[p])]_vars
=============================================================================
