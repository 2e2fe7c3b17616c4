----------------------------- MODULE SqliteXDB ------------------------------
(***************************************************************************)
(* db.go: goroutines call Put and Delete (through the write queue), PutSync *)
(* and WriteBatch (straight into Pebble), Get (through the hot cache),      *)
(* Checkpoint and Close on one handle.  db.mu is a sync.RWMutex: Close      *)
(* writes, the direct paths read, Put and Delete do not take it; closed is  *)
(* an atomic flag, the hot cache has a lock of its own.                     *)
(*                                                                         *)
(* The write queue is here what AtomicWrites promises of it (WriteQueue     *)
(* implements it): a submitted write is refused, or commits at some instant *)
(* before it is answered; once stopped the queue may also refuse what is    *)
(* pending; Stop returns when nothing is.  A group that commits at once is  *)
(* committed here one by one, which only shows readers more.  The hot cache *)
(* may admit or not, and may forget an entry at any time.                   *)
(***************************************************************************)
EXTENDS Integers, Sequences, FiniteSets, SequencesExt, Functions

CONSTANTS
  Procs,      \* goroutines
  Keys,       \* valid keys
  EmptyKey,   \* the key of length zero, which every operation rejects
  Absent,     \* what Pebble holds for a key that is not there
  NoEntry,    \* what the hot cache holds for a key that it does not
  MaxLen,     \* Config.MaxQueueLen
  MemLimited, \* Config.MaxMemMB is set: the queue's monitor samples memory
  MaxOps      \* bound on the calls one goroutine makes

ASSUME DBAssumption ==
  /\ EmptyKey \notin Keys
  /\ Absent # NoEntry
  /\ MaxLen \in Nat \ {0}
  /\ MemLimited \in BOOLEAN
  /\ MaxOps \in Nat

Requests == Procs \X (1 .. MaxOps)
Contents == Requests \cup {Absent}    \* a put stores its own identity

ASSUME FreshContents == {Absent, NoEntry} \cap Requests = {}

VARIABLES
  pc,          \* pc[p]: where goroutine p stands
  count,       \* count[p]: how many calls p has begun
  carry,       \* carry[p]: the keys of p's call, with what it writes or read
  readers,     \* db.mu: the goroutines that hold the read lock
  closed,      \* DB.closed
  qStopped,    \* Queue.stopped
  memExceeded, \* Queue.memExceeded
  pebbleOpen,  \* Pebble has not been closed
  store,       \* what Pebble holds
  cache,       \* what the hot cache holds
  raced,       \* history: keys whose entry was overtaken before it was filled
  late,        \* history: the calls begun after Close had returned
  log,         \* history: the committed writes in order
  outcome      \* history: what each write returned

callVars == <<count, late>>
dataVars == <<store, cache, raced, log>>
flagVars == <<closed, qStopped, memExceeded, pebbleOpen>>
vars == <<pc, count, carry, readers, closed, qStopped, memExceeded, pebbleOpen,
          store, cache, raced, late, log, outcome>>

Entries == {"put", "direct", "get", "close", "backup", "iterate"}
Writing == {"put", "submit", "pending", "direct", "commit", "invalidate"}
Refusals == {"ErrDBClosed", "ErrInvalidKey", "ErrWriteThrottled", "ErrStopped",
             "fail"}

Req(p)   == <<p, count[p]>>
Pending  == {p \in Procs : pc[p] = "pending"}

(* A goroutine waiting for the write lock turns new readers away.           *)
WriteClaimed == \E p \in Procs : pc[p] \in {"want", "closing", "stopping"}

Init ==
  /\ pc = [p \in Procs |-> "idle"]
  /\ count = [p \in Procs |-> 0]
  /\ carry = [p \in Procs |-> <<>>]
  /\ readers = {}
  /\ closed = FALSE
  /\ qStopped = FALSE
  /\ memExceeded = FALSE
  /\ pebbleOpen = TRUE
  /\ store = [k \in Keys |-> Absent]
  /\ cache = [k \in Keys |-> NoEntry]
  /\ raced = {}
  /\ late = {}
  /\ log = <<>>
  /\ outcome = [r \in Requests |-> "none"]

-----------------------------------------------------------------------------
(* Calls begin and return                                                   *)

(* Put, Delete and PutSync take one key, WriteBatch any, each put or        *)
(* deleted; Get reads one.                                                  *)
Arguments(entry, r) ==
  LET Given == Keys \cup {EmptyKey}
      Sets == IF entry = "direct" THEN SUBSET Given \ {{}}
              ELSE IF entry \in {"put", "get"} THEN {{k} : k \in Given}
              ELSE {{}}
      Written == IF entry = "get" THEN {Absent} ELSE {r, Absent}
  IN UNION {[K -> Written] : K \in Sets}

Begin(p) ==
  /\ pc[p] = "idle"
  /\ count[p] < MaxOps
  /\ count' = [count EXCEPT ![p] = @ + 1]
  /\ \E entry \in Entries :
       /\ pc' = [pc EXCEPT ![p] = entry]
       /\ \E a \in Arguments(entry, Req(p)') : carry' = [carry EXCEPT ![p] = a]
  /\ late' = IF pebbleOpen THEN late ELSE late \cup {Req(p)'}
  /\ UNCHANGED <<readers, flagVars, dataVars, outcome>>

(* Return, with the deferred RUnlock.  Only writes have a recorded outcome. *)
KeptByEvict(p) == IF pc[p] = "evict" THEN readers ELSE readers \ {p} \* slip
Unlocked(p)    == readers \ {p}

Return(p, e) ==
  /\ pc' = [pc EXCEPT ![p] = "idle"]
  /\ carry' = [carry EXCEPT ![p] = <<>>]
  /\ readers' = Unlocked(p)
  /\ outcome' = IF pc[p] \in Writing THEN [outcome EXCEPT ![Req(p)] = e]
                                     ELSE outcome
  /\ UNCHANGED callVars

(* p returns, or goes on, without touching the data or the flags.           *)
Ends(p, e)  == Return(p, e) /\ UNCHANGED <<flagVars, dataVars>>
Goes(p, to) ==
  /\ pc' = [pc EXCEPT ![p] = to]
  /\ UNCHANGED <<callVars, carry, flagVars, dataVars, outcome>>

(* The closed flag and the key are looked at, in that order.                *)
KeyOnly(p) ==                                  \* slip: closed is not read
  IF EmptyKey \in DOMAIN carry[p] THEN {"ErrInvalidKey"} ELSE {}
Rejected(p) ==
  IF closed THEN {"ErrDBClosed"}
  ELSE IF EmptyKey \in DOMAIN carry[p] THEN {"ErrInvalidKey"} ELSE {}

-----------------------------------------------------------------------------
(* Put and Delete: submit reads the closed flag without db.mu.              *)

PutReject(p)  == pc[p] = "put" /\ \E e \in Rejected(p) : Ends(p, e)
PutChecked(p) ==
  pc[p] = "put" /\ Rejected(p) = {} /\ Goes(p, "submit") /\ UNCHANGED readers

(* Queue.Submit.  Any refusal becomes ErrWriteThrottled.  What the consumer *)
(* took out of the channel is pending too, so there may be room for more    *)
(* than MaxLen.                                                             *)
Backpressure == Cardinality(Pending) >= MaxLen \/ memExceeded

SubmitRefused(p) ==
  /\ pc[p] = "submit"
  /\ qStopped \/ Backpressure
  /\ Ends(p, "ErrWriteThrottled")

Submitted(p) ==
  /\ pc[p] = "submit"
  /\ ~qStopped
  /\ ~memExceeded
  /\ Goes(p, "pending")
  /\ UNCHANGED readers

(* Pebble takes p's write, for the consumer or in PutSync and WriteBatch:   *)
(* all its keys at once, and p goes on to invalidate them.                  *)
Commit(p) ==
  /\ pc[p] \in {"pending", "commit"}
  /\ store' = [k \in Keys |-> IF k \in DOMAIN carry[p] THEN carry[p][k]
                                                      ELSE store[k]]
  /\ log' = Append(log, Req(p))
  /\ pc' = [pc EXCEPT ![p] = "invalidate"]
  /\ UNCHANGED <<callVars, carry, readers, cache, raced, flagVars, outcome>>

CommitFails(p) == pc[p] \in {"pending", "commit"} /\ Ends(p, "fail")

(* Stop's drain answers what the consumer has not taken.                    *)
DrainedAs == "ErrStopped"

Drained(p) == pc[p] = "pending" /\ qStopped /\ Ends(p, DrainedAs)

(* hotCache.Delete of one key after the other, then the return.             *)
Forgotten(k) == cache' = [cache EXCEPT ![k] = NoEntry] /\ raced' = raced \ {k}

FirstOnly(p, k) == Return(p, "nil")            \* slip: one key is enough
NextKey(p, k) ==
  IF DOMAIN carry[p] = {k} THEN Return(p, "nil")
  ELSE /\ carry' = [carry EXCEPT ![p] = Restrict(@, DOMAIN @ \ {k})]
       /\ UNCHANGED <<pc, readers, outcome, callVars>>

Invalidate(p) ==
  /\ pc[p] = "invalidate"
  /\ \E k \in DOMAIN carry[p] : Forgotten(k) /\ NextKey(p, k)
  /\ UNCHANGED <<store, log, flagVars>>

-----------------------------------------------------------------------------
(* PutSync, WriteBatch and Get hold the read lock until they return.  The   *)
(* flag cannot change under it, so it is read where the lock is taken.      *)

ReadLock(p) == ~WriteClaimed /\ readers' = readers \cup {p}

DirectReject(p) ==
  pc[p] = "direct" /\ ~WriteClaimed /\ \E e \in Rejected(p) : Ends(p, e)

DirectChecked(p) ==
  pc[p] = "direct" /\ ReadLock(p) /\ Rejected(p) = {} /\ Goes(p, "commit")

Cached(p) == \A k \in DOMAIN carry[p] : cache[k] # NoEntry

GetReject(p) ==
  pc[p] = "get" /\ ~WriteClaimed /\ Rejected(p) # {} /\ Ends(p, "none")

GetHit(p) ==
  /\ pc[p] = "get"
  /\ ~WriteClaimed
  /\ Rejected(p) = {}
  /\ Cached(p)
  /\ Ends(p, "none")

GetMiss(p) ==
  /\ pc[p] = "get"
  /\ ReadLock(p)
  /\ Rejected(p) = {}
  /\ ~Cached(p)
  /\ Goes(p, "read")

(* pebble.Get: the value is copied, or the key is not there.                *)
AlwaysFill(found) == "fill"              \* slip: not found is a value as well
AfterRead(found)  == IF Absent \in Range(found) THEN "evict" ELSE "fill"

GetRead(p) ==
  /\ pc[p] = "read"
  /\ LET found == [k \in DOMAIN carry[p] |-> store[k]] IN
       /\ carry' = [carry EXCEPT ![p] = found]
       /\ pc' = [pc EXCEPT ![p] = AfterRead(found)]
  /\ UNCHANGED <<callVars, readers, flagVars, dataVars, outcome>>

(* The key is not there: drop what the cache may still hold of it.          *)
GetEvict(p) ==
  /\ pc[p] = "evict"
  /\ \E k \in DOMAIN carry[p] : Forgotten(k)
  /\ Return(p, "none")
  /\ UNCHANGED <<store, log, flagVars>>

(* Record, and Set when it admits the key, with the value read above.       *)
GetFill(p) ==
  /\ pc[p] = "fill"
  /\ \/ \E k \in DOMAIN carry[p] :
          /\ cache' = [cache EXCEPT ![k] = carry[p][k]]
          /\ raced' = IF carry[p][k] = store[k] THEN raced \ {k}
                                                ELSE raced \cup {k}
     \/ UNCHANGED <<cache, raced>>
  /\ Return(p, "none")
  /\ UNCHANGED <<store, log, flagVars>>

-----------------------------------------------------------------------------
(* Close                                                                    *)

CloseWant(p) ==
  pc[p] = "close" /\ ~WriteClaimed /\ Goes(p, "want") /\ UNCHANGED readers

(* The write lock is granted; a second Close returns ErrDBClosed.           *)
NotGuarded  == TRUE                            \* slip: Close does not wait
ReadersGone == readers = {}

CloseAgain(p) ==
  pc[p] = "want" /\ ReadersGone /\ closed /\ Ends(p, "ErrDBClosed")

CloseMark(p) ==
  /\ pc[p] = "want"
  /\ ReadersGone
  /\ ~closed
  /\ closed' = TRUE
  /\ pc' = [pc EXCEPT ![p] = "closing"]
  /\ UNCHANGED <<callVars, carry, readers, qStopped, memExceeded, pebbleOpen,
                 dataVars, outcome>>

(* queue.Stop: refuse new writes, answer the pending ones, wait for the     *)
(* consumer; then pebble.Close and the return.                              *)
CloseStop(p) ==
  /\ pc[p] = "closing"
  /\ qStopped' = TRUE
  /\ pc' = [pc EXCEPT ![p] = "stopping"]
  /\ UNCHANGED <<callVars, carry, readers, closed, memExceeded, pebbleOpen,
                 dataVars, outcome>>

NoneAwaited == TRUE                            \* slip: Close does not drain
AllSettled  == Pending = {}

ClosePebble(p) ==
  /\ pc[p] = "stopping"
  /\ AllSettled
  /\ pebbleOpen' = FALSE
  /\ Return(p, "nil")
  /\ UNCHANGED <<closed, qStopped, memExceeded, dataVars>>

-----------------------------------------------------------------------------
(* Checkpoint (BackupTo calls it) and the disk gauge of the metrics: closed *)
(* is read, and Pebble is used without db.mu.                               *)

BackupReject(p) == pc[p] = "backup" /\ closed /\ Ends(p, "none")
BackupStart(p)  ==
  pc[p] = "backup" /\ ~closed /\ Goes(p, "unlocked") /\ UNCHANGED readers

(* Iterate holds the read lock while it opens the iterator, but not while   *)
(* the caller, such as a generated query, walks and closes it.  There is no *)
(* iterator on a closed database, nor if Pebble fails to open one.          *)
IterNil(p)  == pc[p] = "iterate" /\ ~WriteClaimed /\ Ends(p, "none")
IterOpen(p) ==
  /\ pc[p] = "iterate"
  /\ ~WriteClaimed
  /\ ~closed
  /\ Goes(p, "unlocked")
  /\ UNCHANGED readers

UseEnds(p) == pc[p] = "unlocked" /\ Ends(p, "none")

-----------------------------------------------------------------------------
(* The hot cache evicts or expires an entry; the monitor samples memory.    *)

CacheForgets ==
  /\ \E k \in Keys : cache[k] # NoEntry /\ Forgotten(k)
  /\ UNCHANGED <<pc, callVars, carry, readers, store, log, flagVars, outcome>>

MemorySampled ==
  /\ MemLimited
  /\ memExceeded' \in BOOLEAN
  /\ UNCHANGED <<pc, callVars, carry, readers, closed, qStopped, pebbleOpen,
                 dataVars, outcome>>

-----------------------------------------------------------------------------
(* A `slip` is the form a definition would take after a plausible mistake;  *)
(* nothing uses it.                                                         *)

(* The steps that leave Pebble's contents and the answers of writes that     *)
(* took effect alone.                                                       *)
Elsewhere(p) ==
  \/ PutReject(p) \/ PutChecked(p) \/ SubmitRefused(p) \/ Submitted(p)
  \/ CommitFails(p) \/ Drained(p)
  \/ DirectReject(p) \/ DirectChecked(p)
  \/ GetReject(p) \/ GetHit(p) \/ GetMiss(p) \/ GetRead(p) \/ GetEvict(p)
  \/ GetFill(p)
  \/ CloseWant(p) \/ CloseAgain(p) \/ CloseMark(p) \/ CloseStop(p)
  \/ BackupReject(p) \/ BackupStart(p) \/ IterNil(p) \/ IterOpen(p)
  \/ UseEnds(p)

Proceed(p) == Commit(p) \/ Invalidate(p) \/ ClosePebble(p) \/ Elsewhere(p)

Next ==
  \/ \E p \in Procs : Begin(p) \/ Proceed(p)
  \/ CacheForgets
  \/ MemorySampled

Spec == Init /\ [][Next]_vars

(* A goroutine in a call runs on, the queue answers (WriteQueue!CallsReturn) *)
(* and Pebble calls return.  Nobody is obliged to call.                      *)
FairSpec == Spec /\ \A p \in Procs : WF_vars(Proceed(p))

-----------------------------------------------------------------------------
(* Properties                                                               *)

TypeOK ==
  /\ pc \in [Procs -> Entries \cup Writing \cup
                      {"idle", "read", "fill", "evict", "want", "closing",
                       "stopping", "unlocked"}]
  /\ count \in [Procs -> 0 .. MaxOps]
  /\ \A p \in Procs :
       carry[p] \in [DOMAIN carry[p] -> Contents]
         /\ DOMAIN carry[p] \subseteq Keys \cup {EmptyKey}
  /\ readers \subseteq Procs
  /\ {closed, qStopped, memExceeded, pebbleOpen} \subseteq BOOLEAN
  /\ store \in [Keys -> Contents]
  /\ cache \in [Keys -> Requests \cup {NoEntry}]
  /\ raced \subseteq Keys
  /\ late \subseteq Requests
  /\ log \in Seq(Requests)
  /\ outcome \in [Requests -> {"none", "nil"} \cup Refusals]

(* api.md:273: Close waits for the reads and writes under way, so none of   *)
(* them touches Pebble after it was closed: neither a reader or a writer    *)
(* under db.mu, nor the queue's consumer, which does not take it.           *)
PebbleOpenWhileUsed ==
  \A p \in Procs : pc[p] \in {"read", "commit", "pending"} => pebbleOpen

(* db.go:138-145, 205-208, 302-307: an entry of the hot cache differs from  *)
(* Pebble only while a writer that committed the key has yet to invalidate  *)
(* it, or because a Get read it, was overtaken by a write that committed    *)
(* and then filled what it had read.  No other order of the steps of puts,  *)
(* batches, reads, evictions and a Close leaves a stale entry behind.       *)
StaleOnlyAfterRace ==
  \A k \in Keys : cache[k] \notin {NoEntry, store[k]} =>
    \/ k \in raced
    \/ \E p \in Procs : pc[p] = "invalidate" /\ k \in DOMAIN carry[p]

(* api.md:273: a write called after Close returned says ErrDBClosed.        *)
LateWritesSayClosed ==
  \A r \in late : outcome[r] \in {"none", "ErrDBClosed"}

(* Every call returns: Close, which holds the write lock while it waits for *)
(* the queue, and the callers of the queue never wait on each other.        *)
CallsReturn == \A p \in Procs : pc[p] # "idle" ~> pc[p] = "idle"

(* api.md:35: no stale value stays in the hot cache once the writes that    *)
(* replaced it, and every other call, have returned.                        *)
CacheCoherentAtRest ==
  (\A p \in Procs : pc[p] = "idle") =>
    \A k \in Keys : cache[k] \in {NoEntry, store[k]}

(* api.md:273, db.go:27: Close waits for the reads under way, so that       *)
(* nobody finds Pebble closed after a check of the flag: a Checkpoint, or   *)
(* whoever walks an iterator, no more than a Get.                           *)
NobodyMeetsClosedPebble ==
  \A p \in Procs : pc[p] = "unlocked" => pebbleOpen
=============================================================================
