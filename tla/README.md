# SQLiteX: TLA+ models and proofs

SQLiteX stores protobuf messages in Pebble: a code generator turns a message
into a typed store with indexes, TTL and queries, and a small runtime (`db.go`)
puts a write queue and a hot read cache in front of Pebble.  This directory
holds a TLA+ model of that code, the TLC configurations that check it on small
instances, and theorems that TLAPS proves for all sizes.  Every definition is
translated from the Go source; `PROJECT.json` says from which lines
(`map`), which mistakes the code is exposed to (`hazards`), and which property
watches over which of them.

Run a model with `tlc -config db_calls.cfg MCDurability`, a proof with
`tlapm DatabaseProofs.tla`; the module of each run is in `PROJECT.json`.

## The system

| Component | State | Operations | Hard about it | Module |
|---|---|---|---|---|
| Write queue, `internal/writequeue/queue.go`, and `db.submit` | buffered channel of pooled `WriteOp`s, `stopped`, `memExceeded`, an RWMutex | Submit, Stop, the consumer loops (alone or grouped), group commit and its one-by-one form, the memory monitor | a pooled op is shared by caller, channel and consumer; a send must not meet the closed channel; Stop drains while the consumer receives | `WriteQueue` |
| Database handle, `db.go` | `db.mu`, the atomic `closed`, Pebble with its WAL, the hot cache | Open, Put, Delete (queued), PutSync, WriteBatch (direct), Get, Iterate, Close | Put and Delete do not take `db.mu`; Get fills the cache with what it read earlier; Close holds the lock while it waits for the queue; which acknowledged writes a crash may take depends on the entry point and the configuration | `SqliteXDB`, `Durability`, iterator in `QueryPaging` |
| Hot cache, `internal/cache/tinylfu.go` | map, list, byte count, expiries, count-min sketch | Get, Set, Delete, Record, sweeper, Close | five places update map, list and count by hand; expiry is renewed without the lock; the sketch is added to and halved cell by cell without one | `HotCache`, `FrequencySketch` |
| Backup, metrics: `backup.go`, `metrics.go` | none of their own | Checkpoint, BackupTo, the disk gauge | use Pebble behind a check of `closed` that no lock covers; a checkpoint copies what is on disk | `SqliteXDB`, `Durability` |
| Key encoding, `internal/encoding` | none | data, normal and unique index keys, and their decoding | order of signed numbers, prefixes of prefixes, width of lengths | `KeySpace` |
| Generated store, `internal/codegen/store.go` | rows and index entries in Pebble and the hot cache | Create, Update, Delete, Get, PurgeExpired | read, look up, then write, with nothing locked, and what is read may come from a cache that is filled late; expiry deletes on the way | `IndexedStore` |
| Generated queries, `internal/codegen/query.go` | a cursor in the caller's hands | Where, After, Limit, Exec, First, Count | pages over a table that changes; index and full scan must agree; an index scan reads each row later, through the hot cache | `QueryPaging` |
| Generated serializer, `internal/codegen/serializer.go` | none | Serialize, Size, Deserialize | buffers sized before compression; rows outlive their schema | `ValueLayout` |
| Schema compiler, `internal/codegen/ir.go` and the rest | none | BuildIR, text templates | defaults, limits, TTL parsing, table ids by hash | `SchemaIR`, sizes in `ValueLayout` |
| Admin tool, `cmd/sqlitex-admin` | the imported schema: a map by hash and a list | import, clear, key listing with cursor, decoding of keys and values | reads the same bytes by its own reading of the schema; looks the schema up twice for one entry while others import | `AdminSchema`, `QueryPaging`, `KeySpace`, `ValueLayout` |
| Configuration, `options.go` | the WAL modes, limits | | which modes exclude each other | `Durability`; limits are constants |
| Benchmark, protoc plugin, web page, examples | | | no logic of their own | not modelled |

How they interact: the generated store and queries call `DB`.  `DB.Put` and
`DB.Delete` hand a pooled op to the queue and wait on its channel; the queue's
consumer calls back into `pebblePutter`, which writes to Pebble.  `PutSync` and
`WriteBatch` write under the read half of `db.mu`, `Get` reads under it.  Writers
delete from the hot cache after the commit, readers fill it.  `Close` takes the
write half, sets `closed`, stops the queue, closes Pebble.  `Checkpoint` and the
disk gauge look at `closed` and use Pebble.  The admin tool opens Pebble through
`DB` and iterates.

What makes each part correct is what its properties say; the list is under
"What the runs check".

## Modules

| Module | Models | Correspondence |
|---|---|---|
| `AtomicWrites` | the promise of the write path | abstract: a write is called, takes effect at one instant or never, and its answer is the truth |
| `DurableWrites` | the same promise on a disk | abstract, extends `AtomicWrites`: a crash keeps a prefix of the writes that took effect, and no write that asked to be forced and returned nil is beyond it |
| `WriteQueue` | `queue.go`, `db.submit` | `pc[c]` is a caller's place in `db.submit`; `done[s]` the Done channel of op `s` ("none" while the op is in the pool); `chan`, `closed`, `stopped`, `memExceeded` the fields of `Queue`; `consumer`, `batch`, `err`, `lastBatch` the locals of the consumer loop; `stopper[t]` a place in `Stop`, which gives the RWMutex too. `Submit`'s checks and its send are two steps, because the channel may change in between; the lock is what keeps Stop out |
| `SqliteXDB` | `db.go`, `backup.go`, the disk gauge | one `pc[p]` per goroutine; `readers` and the places "want", "closing", "stopping" are `db.mu`; "unlocked" is the use of Pebble without it, by a backup or an open iterator; `carry[p]` the keys of the call with what it writes or has read; the queue is the abstract one: a pending write commits, fails, or is refused by the drain |
| `Durability` | `db.Open`'s WAL options, crash, restart, what a checkpoint finds | extends `SqliteXDB`: `wal` and the length `durable` of its prefix on disk; `forced` the writes committed with `pebble.Sync`; the actions of `SqliteXDB` conjoined with what they do to the WAL; `Restart` at any moment, possibly with another configuration |
| `HotCache` | `tinylfu.go` without the sketch | `cache`, `lru`, `curBytes`, and the entry structs, to which a Get keeps a pointer after it let the lock go |
| `FrequencySketch` | the count-min sketch of `tinylfu.go` | `rec[r]` is a place in `Record`: add to a cell, load it, next row, count up, halve the cells one by one; every step is one atomic operation of the code |
| `IndexedStore` | the generated store with a unique and a normal index and a TTL, through the hot cache | `call[c]` is where a call stands: "read" (the old row), "fill" (what Pebble had is on its way into the cache), "judge" (is it expired), "evict" (delete it with its entries), "check" (the unique entry), "found" (that entry is on its way into the cache), "commit" (one WriteBatch), "evicted" and "committed" (the keys of the batch leave the cache one by one). `cached` is what the cache may still hold; any read may miss it, so forgetting takes no step. Create and Update do the same, a save |
| `QueryPaging` | generated queries, the admin listing, `PrefixIterator` | a caller asks page after page; a page is an iterator over a snapshot, with the flag that makes the first `Next` after `SeekAfter` stay; `iter.evict` is the expired row the query is about to delete, `iter.kept` the rows nobody saved since the snapshot. The row an index scan reads is one of `Answers`: the row as it is, or, as an event, any other version the hot cache may have kept |
| `KeySpace` | `internal/encoding`, the admin key decoder | keys are sequences of bytes of `Bits` bits; `disk` is what Pebble holds in key order |
| `ValueLayout` | the generated serializer, its sizes from `ir.go`, the admin value decoder | values are sequences of bytes; `schema` is what the program was compiled from last, `made` what the row was written from. A row stays while the schema gains or loses last fields |
| `SchemaIR` | `ir.go` | operators: from the messages of a proto file to its tables, or to a refusal |
| `AdminSchema` | the schema store of the admin tool and the requests on it | `tables` and `list` are the map and the list of `schemaStore`; `handler[h]` is where a request stands: compiled and before the lock, between the lookup for a key and the lookup for what it stores, in a listing or in the request for one key (`alone`) |
| `Numbers` | `encoding/binary`, as far as both codecs use it | powers, the digits of a number and the number they make |
| `DataLemmas` | | lemmas on sequences, on least elements and order, on sums, on powers and digits |
| `WriteQueueProofs`, `DatabaseProofs`, `CacheProofs`, `StoreProofs`, `QueryWalkProofs`, `KeySpaceProofs` (keys and the admin tool's table), `ValueLayoutProofs` | | theorems |

`WriteQueue` implements `AtomicWrites`, and `SqliteXDB` on a disk, which is
`Durability`, implements `DurableWrites` for both of its write paths (both checked
and proved).  `SqliteXDB` builds on the promise of the queue, `IndexedStore` on
that of the database: atomic batches, and a cache that is filled and
invalidated as `StaleOnlyAfterRace` describes; `QueryPaging` on the key order of
`KeySpace`, the exact indexes of `IndexedStore` and the same cache, of which it
assumes nothing but that it may answer with an outdated version.  Composing along the promises instead
of the modules themselves is what keeps every run small.

`MC*` modules hold the symmetry sets and the sample values of the instances.
`MCHotCache` and `MCKeySpace` hold two modules each that share no state (the
cache and its sketch, the keys and the admin tool's schema): one run explores
each of the two from the initial state of the other, which is the union of
their states and not the product.
In the component modules a definition marked `slip` is what its neighbour would
be after a plausible mistake.  Nothing uses it; replacing the neighbour by it
breaks the property that watches it, and the `mutants` of `PROJECT.json` list
these pairs, one for each property of each passing run.

## What the runs check

Safety runs use symmetry for what is interchangeable; runs with liveness do
not.  Runs whose goroutines have a bounded number of calls may come to rest, so
they do not check deadlock; that nobody waits for ever is checked by the
liveness properties instead.  Each module has one type invariant; where no proof
is about the module it is the first conjunct of one of its properties.

| Run | Instance | Shows |
|---|---|---|
| `wq_group` | 3 callers with 2 writes each, channel of 2, groups of up to 3, one Stop; 0.7 M states | ops are never shared or lost (`InFlightShellsAreOwned`, `NoAcceptedWriteLost`), answers are true (`OutcomeIsTruthful`), the channel's order is kept (`AppliedInOrder`), the queue is atomic (`ImplementsAtomicWrites`). The channel fills up, groups of one, two and three are formed, the third caller reuses released ops |
| `wq_stop` | 2 callers, 2 Stops, memory limit, putter without batches; fair | no send meets a closed channel (`NoSendOnClosed`), Stop leaves nobody behind (`StopIsFinal`), every call and every Stop returns |
| `db_calls` | 3 goroutines, a call each of any kind, 2 keys, 3 WAL configurations, one crash or restart; 1.8 M states, two to three minutes | a stale cache entry only through an overtaken fill (`StaleOnlyAfterRace`), Pebble open while it is used (`PebbleOpenWhileUsed`), late writes refused (`LateWritesSayClosed`), forced writes survive (`ForcedIsDurable`), a clean restart is complete (`CleanRestartLosesNothing`), the promise to callers (`ImplementsDurableWrites`). Three calls are enough for fill against write against eviction, and for a write that commits while Close runs; two keys make batches that are half invalidated; goroutines that have not called yet do so after the restart, and their fills and invalidations meet a replayed store |
| `db_live` | 3 goroutines, one call each, memory limit; fair | `CallsReturn`, with Close waiting for the queue under `db.mu` |
| `hc_safe` | cache: 3 keys, 3 entry structs, 2 Gets, sizes 1 and 2 of 3 bytes, clock to 3; sketch: 2 goroutines, 3 keys that collide in one row each, decay every 2 of 4 records | `MapListAndBytesAgree`, `BudgetKept`, `SweepMissesOnlyBehindRenewed`, `OnlyExpiredExpire`: a Set can evict none, one or two entries, both Gets can be overtaken by a replacement. `HotKeysAreAdmitted`, `ColdKeysAreRefused`: counters saturate at 3, and a decay meets increments half-way |
| `store_calls` | 2 goroutines, 4 calls in all, an opened table of 3 records, 2 unique and 2 normal values, TTL 1; 2.1 M states, one to two minutes | `RowsAreIndexed`, `EntriesExactUnlessRaced`, `UniqueUnlessRaced`. Four calls on three records are what it takes to share a unique value through a stale entry of the cache: a save whose look-up is overtaken by a delete of the holder and a save of another record, then a save of the old holder. `Bounded` in `MCIndexedStore` makes the bounds add up: all four calls at the time 0; one less where a second unique value is in use or time passes; two less where both do, with a third record after the first tick, or with a second normal value (which is left to the time 0) |
| `query_walk` | every table over 3 keys and two fields of 2 values, every query of at most two conditions on distinct fields or operators, pages of 1 and 2, 2 writes, expiries, failed or outdated reads; 8.3 M states | a walk never repeats (`WalkAscends`), neither skips nor deletes what matched throughout and was read as it is (`NoSteadyRowSkipped`), and returns live matches (`ResultsMatch`). Two events are an expiry and the renewal that the deletion overtakes |
| `key_space` | keys: pairs of entries of 2 tables, 2 fields, 13 values, 6 keys, bytes of 2 bits | `ScansExact`, `ScansInPkOrder`, `KeysDecode`. With 2 bits a length needs its second uvarint byte from 2 on, and the fields 1 and 5 agree in a byte. Schema table: 3552 proto files (one table of one or two fields with every combination of marks and TTLs, or two messages, two names with one hash), 2 imports, 2 requests for a page or for one key: `TablesAreSound`, `MapAndListAgree`, `EntryOfOneSchema` |
| `value_layout` | every schema of up to 3 fields with and without TTL and compression, 2 numbers, 3 texts; 0.1 M states | buffers suffice (`WritesFit`), rows are read back or rejected (`RowsReadBack`), the page agrees (`PageShowsRow`) |
| `db_stale` | violated | `CacheCoherentAtRest`, finding below |
| `db_backup` | violated | `NobodyMeetsClosedPebble`, finding below |
| `store_purge` | violated | `PurgeSparesFresh`, finding below |

Bounds: `MaxReq` caps the calls of a goroutine, `MaxOps` those in `SqliteXDB` and, in
`IndexedStore`, those of all together, `MaxEvents` what goes wrong or what others
do during a walk, `MaxTime` the clock, `MaxEntries` the entries of a key
space, `MaxFields` the fields of a schema,
`MaxRestarts` the crashes and restarts, `MaxRecords` the recorded accesses,
`MaxUploads` the imported files.  They cap history, not concurrency:
every pair of operations can overlap in every order, and every operation can
follow every other one.

### Fairness

`WriteQueue!FairSpec` and `SqliteXDB!FairSpec` assume weak fairness of each
goroutine that is inside a call, of the consumer and of the monitor's exit: Go
runs a runnable goroutine, a Pebble call returns, and a blocked lock is granted
once it is free for good (a waiting writer keeps new readers out of a
`sync.RWMutex`, so weak fairness is enough; the models contain that rule).
Nobody has to call, to close, or to meet a tick of the memory monitor.

## What is proved

All theorems hold for every value of the constants under the stated
assumptions: `QueueAssumption` (a channel has room for one; `New` sees to it),
`DBAssumption`, `DurabilityAssumption`, `FreshContents`, `StoreAssumption`,
`PagingAssumption`, `CacheAssumption`, `SketchAssumption`, `KeyAssumption`,
`LayoutAssumption`, `SchemaAssumption` and `AdminAssumption`.  Most of it is typing: keys and limits of a walk are positive
numbers, entries have a size, the markers for "nothing" are not data, settings
are booleans, times and bounds numbers.  What says more: finitely many
goroutines and keys meet the sketch, whose threshold a counter can reach (both
are `uint32`, and counters saturate at its greatest value); a byte has at least
two bits, hashes and primary keys fit their widths, and no field has both a
normal and a unique index; numbers and expiries fit their width, the length of a
text fits a `uint32`, and zstd, which may make any bytes of a text, makes
different ones of different texts; and the proto parser accepts no field name twice in one
message (`WellFormed`).

* **`WriteQueueProofs`**: `TypeCorrect`, `SendsOnlyWhileOpen`,
  `ShellDiscipline`, `StopSettlesEverything`, `OutcomesAreTruthful`,
  `NothingAcceptedIsLost`, `AppliesInOrder`.
  The inductive invariant is in three layers.  `Shape`: each caller in a call owns
  one op and nobody else does (`CallsOwnShells`), ops in flight are owned and
  have room for the answer, stopped comes before closed and one Stop does both
  (`StopOrder`), the consumer holds a group exactly between receive and answer
  (`ConsumerOrder`).  None of the safety invariants is inductive alone: that a
  send never meets a closed channel needs that a caller between check and send
  has seen `~stopped` under a lock Stop has to wait for; that an answer never
  blocks needs the ownership of ops.  On top of it, `Truth` relates the log, the
  answers on their way and the answers given.  The order of the log is not
  inductive either: `Order` adds that a request is sent once (`NotYetSent`), that whatever is in
  flight or applied was sent (`AllSent`), that the channel and the group the
  consumer holds are in sending order, the group before the channel
  (`LineInOrder`), and that what is applied was sent before all of them
  (`AppliedFirst`).  A group that fails as a batch is applied one by one, which is
  where the order could go wrong.
  Last, `QueueImplementsAtomicWrites` is the refinement `Spec => Service!ASpec`,
  step by step: the acquisition of an op is a Call, a group commit one
  TakeEffect, a release a Return, all else stutters.
* **`DatabaseProofs`**: `PebbleStaysOpen`, `LateWritesRefused`, `StaleOnlyByRace`.
  `DBInv` adds to the types: whoever reads or commits
  directly holds the read lock and `closed` is not set (`ReadersInside`);
  closing goes through its stages in order, and with Pebble closed no write is
  pending (`CloseOrder`); a call begun later has not passed the check of
  `closed` (`LateAreOutside`).  The invariant is needed because the queue's
  consumer and a `submit` that has passed its check do not hold `db.mu`: they
  are covered by the stop flag of the queue and by the wait of Stop instead.
  `StaleOnlyAfterRace` is inductive over `DBInv` as it stands: a key whose entry
  differs from Pebble has a writer that has still to invalidate it, or an
  overtaken fill.
* **`DatabaseProofs`**, on a disk: `DurableTypeCorrect`, `AcknowledgedSurvives`,
  `CleanRestartComplete`, `StaleOnlyByRaceOnDisk`.  `DiskInv` is `DBInv` with
  `AcknowledgedOnDisk` (forced and acknowledged means within the durable prefix),
  `StoreIsReplay` (Pebble shows what replaying the whole log would give, which is
  what makes a restart comparable with the state before it) and `ClosedOnDisk`
  (with a WAL, the whole log is on disk once Pebble is closed).  `DBInv` holds
  across a restart because nobody is inside a call then.
  `HandleKeepsPromise` is the refinement
  `DurableSpec => Promise!MSpec`.  `Effects` says when a write is in the log: not
  before its commit, always between commit and return, and never if it was not
  called.  Begin is a Call, a commit one TakeEffect, the end of the invalidation
  or a refusal a Return, flushes and Close harden the log, a restart is a crash.
* **`CacheProofs`**, the cache: `MapAndListAgreeAlways`, `BudgetIsKept`,
  `OnlyRenewedShield`, `ExpiryTakesExpired`.  `CacheInv` is `Agree` (map and list
  hold the same entries, each once, and `curBytes` is the sum of their sizes),
  `GetsOK` (a Get holds a time that has been) and `Aged`, which the sweep needs.
  `Agree` is a statement about any map, list, count and structs, so that two
  lemmas carry every action: what remains after a part of the list leaves
  (`AgreeLeave`: Delete, expiry, sweep, eviction and the first half of Set) and a
  push in front (`AgreePush`).  The list is in order of expiry but for renewals,
  and a renewal happens after the lock was released; so `Aged` also bounds what a
  Get in progress is about to store, and says nothing of the entries in
  `renewed`.
* **`CacheProofs`**, the sketch: `HotAlwaysAdmitted`, `ColdAlwaysRefused`.
  Between two atomic operations a recorder has counted in some rows and not in
  others, so `SketchInv` counts the recorders themselves: a cell is saturated or
  at least the finished records of its key plus those under way that have passed
  the row and met no decay (`NothingLost`); where no other key shares the
  cell, the cell and the records that have yet to pass it are together no more
  than what was begun (`NothingGained`).  `CountsOK` keeps the decay counter and what
  a key has counted behind the records that were begun.
* **`StoreProofs`**: `StoreTypeCorrect`, `RowsStayIndexed`, `EntriesStayExact`,
  `UniqueStaysUnique`.  `StoreInv` adds: calls that overlap on a record make it
  suspect (`Alone`), what a call has read of an unsuspected record is still true
  (`Fresh`), an uncontested value has one taker and, where no look-up of it was
  overtaken, stays free for it (`OneTaker`, `StillFree`), and each such row owns
  its unique entry (`Owned`).  The hot cache enters through `CachedRows` and
  `CachedEntries`: what it holds of an unsuspected record or undoubted value is
  what Pebble holds, or the call that changed Pebble has still to drop the key.
  For a row that suffices, since nobody else reads the record meanwhile.  A
  unique entry is looked up by Saves of other records too, so `CachedEntries`
  says more: the stale entry names a record of that very call, hence of nobody
  else, and such a look-up is refused where it would have been allowed, not the
  other way round.

* **`QueryWalkProofs`**: `WalksAscend`, `WalksSkipNothing`, `WalksReturnMatches`.
  What a caller has seen says nothing about the page being read, so `Walk` says
  where the iterator stands: before the cursor's next key when it was just opened,
  else not before the cursor (`PositionOK`); the page lies between the cursor and
  the iterator, in order (`PageInOrder`); an index entry is that of the row the
  page began with (`KeysOK`); a steady row is among the iterator's keys, matches
  in its snapshot, is not about to be deleted, and is in the page once the
  iterator is past it (`SteadyKey`).  The core is `KeyIsNext`: no steady row lies
  between what was returned and the next key.  It needs the least key of a set to
  exist, which follows from the well-foundedness of the naturals.
* **`KeySpaceProofs`**: `ScansExactAlways`, `ScansInPkOrderAlways`,
  `KeysDecodeAlways`.  Most of it is about the encoding.  A number is split into
  its leading digits (`TopIs`), which is what `FromBigEndian` computes byte by
  byte and what decides the order of two numbers at the first byte where they
  differ (`BigEndianOrder`).  The bytes of a uvarint are marked but for the last,
  and its digits sum up to the number (`UvarintDecodes`).  So an index key decodes
  to its parts whatever follows it (`IndexKeyDecodes`), and that alone makes the
  prefixes of different values incomparable (`UnderIndexPrefix`): if one key
  continued two of them, it would decode to two values.  `KeyInv` adds what the
  writes keep: each key on disk is that of an entry and holds the primary key of
  one that has this key, and a unique value has one holder.  Two normal entries
  may have one key, when the numbers of their fields agree in a byte and value
  and primary key are the same; that is why the theorem speaks of the entries
  that are `Alone`.  Powers and sums of digits are recursive functions here, not
  `^` and folds, about which the prover knows nothing.
* **`KeySpaceProofs`**, the schema table: `TablesAreSoundAlways`, `MapAndListAgreeAlways`,
  `EntriesOfOneSchema`.  `BuildSound` is about the compiler: from any file comes a
  refusal or a list of tables that are sound and whose ids differ.  The map is
  always the one that is made of the list (`tables = ById(list)`), and nothing is
  hidden in it since ids differ.  For a listing between its two lookups the
  invariant has to say which table its key was found in (`HandlerOK`): the one
  the schema has now, unless the request is in `moved`.

* **`ValueLayoutProofs`**: `WritesFitAlways`, `RowsReadBackAlways`,
  `PageShowsRowAlways`, and the invariant under them, `LayoutInvariant`.
  `LayoutInv` says that the row is what `Serialize` makes of the remembered
  record and expiry under the remembered schema, and that this schema has the
  table's options of now; none of the three properties is inductive without it, as they
  compare bytes and schemas and a change of the schema moves only the latter.
  All about the bytes goes along one relation, `Holds(data, off, t)`: the bytes
  of `t` stand in `data` from `off` on.  The content of a row holds its header
  and each field behind the fields before it (`FieldStands`); a row holds its
  content and behind it only zeros (`RowIs`), which is where the buffer has to be
  large enough (`FieldsFit`, field by field from `FieldFits`, where zstd comes
  in: what is kept of a text is never longer than the text).  A decoder that meets
  an encoded field gets the value and stands behind it (`FieldDecodes`); this
  needs that the two lengths of a compressed field tell whether zstd was used
  (`KeptIs`).  So a decoder compiled from another schema reads the common
  fields (`CommonDecodes`) and leaves them alone afterwards (`ReachedNext`);
  once it is behind the content, what it reads is zero and it stays behind
  (`ZeroField`), so new fields never take up old bytes.  `PageShowsRow` needs
  less: the page's decoder and the generated one are the same function then,
  whatever bytes they are given (`PageFieldIs`, `PageDecodes`).

`DataLemmas` has what these proofs share: `ToSet`, `IsInjective`, concatenation and
parts of lists; the least and the greatest element of a set of numbers and the
listing of such a set in order; sums over finite sets, `SumSplit` above all; and
powers, digits and the number they make, which keys and values both rest on.
The induction theorems of the library are out of the prover's reach, so the
lemmas that need induction take a least counterexample, which exists because
the naturals are well-founded, or show that a set holds 0 and with each number
the next (`SetInduction`).

Only model-checked: liveness (`CallsReturn`, `StopReturns`), as temporal
reasoning with ENABLED is out of the prover's reach.  Every safety invariant,
action property and refinement of a passing run is a theorem.  What a recursive
definition computes is not proved by the library's induction either: the
recursive functions of the models (digits, the bytes of a row, decoding) are
characterised by a function that satisfies the recursion, whose existence is
shown by `SetInduction`, and nothing else is used of them.

## Where code and documents disagree

Each of the three violated runs states what the repository says and finds an
execution of the code that does otherwise.

* `db_stale`: `docs/api.md:35` calls the race between a read that refills the
  hot cache and a write that invalidates it fixed.  `get` still reads Pebble and
  fills later with nothing in between.  `StaleOnlyAfterRace` says that this is
  the only way.
* `db_backup`: `docs/api.md:273` says that Close waits for the reads under way and
  `db.go:27` that `mu` protects Pebble against it.  `Checkpoint` and the disk gauge
  do not take `mu`; `Iterate` releases it before the iterator is walked, so that a
  query can go on while Close closes Pebble.
* `store_purge`: `docs/ttl.md:86` says PurgeExpired deletes nothing that is not
  expired.  It deletes by primary key what its snapshot showed expired.  A query
  on a table with TTL does the same on its way; in `query_walk` the row it loses
  thus is not `steady`.  So does a read of an expired version that the hot cache
  still holds of a row renewed since.

Met on the way, and not the subject of a run:

* The unique look-up (`store.go:189`, `248`) is answered from the hot cache.  A
  Save that has read the entry of a value and not yet cached it can be overtaken
  by a Delete of the holder and a Save of the value by another record; the old
  entry then lands in the cache, and a later Save of the old holder takes it for
  its own.  Two records share the value, although no two Saves found it free at
  a time, which `docs/schema.md:78` gives as the only way.  `UniqueUnlessRaced`
  names such values (`overtaken`); without them `store_calls` finds the execution
  in four calls.
* The row behind an index entry (`query.go:161`) comes from the hot cache, too.
  An outdated version there lets a query leave out a row that matches, or delete
  one that was renewed, and stays for as long as the cache keeps it:
  `NoSteadyRowSkipped` excludes the rows that were read so.
* `encoding.EncodeIndexKey` writes the field number as one byte
  (`encode.go:91`) and nothing limits the numbers: fields 1 and 257 of a table
  share their index entries.  `ScansExact` speaks of the entries that no other
  field's number meets (`Alone`), and the instance has such a pair.
* `backup.go:19` and `docs/ops.md:20` promise a snapshot with every committed
  write.  `Checkpoint` does not flush the WAL first (`backup.go:32`), so that
  under `AsyncWAL` it may lack acknowledged writes; those that were forced are in
  it (`ForcedIsDurable`).
* `DisableWAL` without `AsyncWAL` makes every write fail, as Pebble refuses to
  sync a WAL there is not; with `AsyncWAL` it does so for `PutSync`.  `options.go`
  warns only of crashes, but without a WAL a Close loses what is in memory too,
  so that "clean restart: all data" (`docs/ops.md:120`) needs a WAL.
* `docs/ops.md:75` derives a table's hash from `go_package` and the message;
  `ir.go` takes the proto package.
* The map behind the mock stores refuses a Create on an existing key, which the
  real store overwrites.
* The admin tool decodes a key and what it stores by two lookups, on a page of
  keys (`main.go:290-300`) as for one key (`main.go:326-338`), and an import can
  come between them; `EntryOfOneSchema` says that nothing else makes them differ.
  It answers an import with a snapshot that may be a later one.
* The generator emits `raw :=` and `origLen :=` once for every compressed field:
  a table with two of them does not compile, the example of `docs/schema.md:36-44`
  among them.  The threshold of `docs/schema.md:33` is read and never used.
  `ValueLayout!Compiles` leaves such tables out.
* The admin tool decides on decompression by the option of the field alone
  (`schema.go:408`), the generator by that of the table too: the fields of a
  table with `compress = true` are shown shifted, where `docs/ops.md:75` promises
  the same reading.  `PageShowsRow` states the case in which they agree.
* `parseTTL` multiplies days without a check (`ir.go:210`): from `106752d` on the
  duration is negative and records are born expired, from `213504d` on it is
  positive again and short.  `TablesAreSound` names these as the only ways.
* `docs/schema.md:78` says that of two records with one unique value the later
  holds the entry.  If the earlier is then updated or deleted, nobody does.
* A write that the stopping queue drains is answered with ErrStopped, where the
  comment at `db.go:111` speaks of waiting for pending writes; a write refused
  because the queue is stopped is reported as ErrWriteThrottled
  (`db.go:327-330`), which `errors.go:17` describes as backpressure.
* The expiry of a hot entry can move back, when two hits store their renewals in
  the other order (`tinylfu.go:128`); the sweeper stops at the first entry that
  is not expired though renewals break the order of the list
  (`tinylfu.go:209-219`); eviction takes the oldest insertion, since a hit does
  not move the entry (`tinylfu.go:146`).
* A failing read in an index scan passes the row over in silence
  (`query.go:162`), as does a row that does not deserialize (`query.go:165`,
  `199`), and a query that gets no iterator, on a closed database for
  one, answers with an empty page and no error (`query.go:153`, `187`): to the
  caller the walk is over.
* `compareX` looks its argument up by field and operator, so that a second
  condition with the same field and operator tests the first argument again; and
  a query on a unique index finds nothing behind any cursor, because the index
  key ends before the primary key.  `QueryPaging` leaves out the first and
  models the second.

## Not modelled, and why

* Text generation, HTTP handlers, the web page, flags, Prometheus counters, the
  benchmark and the examples: no state that the properties could be about.
* Parsing of protobuf files, zstd, Pebble and the Go runtime are taken as what
  the code expects them to be: `Zstd` is any injective map on texts, a Pebble
  batch is atomic or fails, an iterator is a snapshot.
* The mock stores: a map under a lock.
* `Open` failing half-way: it returns an error and no handle, and nothing else
  sees its state.  `Seek` and `SeekLT` of the iterator have no caller.

## State and plan

Modelled, checked and proved: the queue and its promise; the database handle, in
memory and on disk; the hot cache with its sketch; the store with its indexes;
queries and listings, with expiry; keys; values; the schema compiler and the admin
tool's table.

What could follow: `PurgeSparesFresh` and the lost row of a query as one
statement about deletions decided on a stale version; `Seek` and `SeekLT`, once
the repository calls them.
