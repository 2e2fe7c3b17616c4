----------------------------- MODULE Durability -----------------------------
(***************************************************************************)
(* The database handle of SqliteXDB on a disk: the WAL modes that db.Open   *)
(* derives from Config.AsyncWAL and Config.DisableWAL, crashes, restarts    *)
(* after a Close, and what a checkpoint copies.                             *)
(*                                                                         *)
(* Pebble (external) keeps the committed writes in a log of which a prefix  *)
(* is on disk.  A write is visible from its commit on; a commit with        *)
(* pebble.Sync returns only when the prefix covers it.  A crash keeps a     *)
(* prefix at least as long as the one on disk.                              *)
(***************************************************************************)
EXTENDS SqliteXDB

CONSTANTS
  Configs,    \* the settings of <<AsyncWAL, DisableWAL>> the database opens with
  MaxRestarts \* bound on crashes and restarts

ASSUME DurabilityAssumption ==
  Configs \subseteq BOOLEAN \X BOOLEAN /\ MaxRestarts \in Nat

VARIABLES
  config,     \* the settings of the handle that is open now
  forced,     \* the writes that were to be committed with pebble.Sync
  wal,        \* what each write of log wrote
  durable,    \* the length of the prefix of log and wal that is on disk
  restarts    \* how often the database was opened again

diskVars == <<config, forced, wal, durable, restarts>>
allVars  == <<vars, config, forced, wal, durable, restarts>>

AsyncWAL   == config[1]
DisableWAL == config[2]

DurableInit ==
  /\ Init
  /\ config \in Configs
  /\ forced = {}
  /\ wal = <<>>
  /\ durable = 0
  /\ restarts = 0

-----------------------------------------------------------------------------
(* The log on disk                                                          *)

(* What Open rebuilds from a log: of each key, the last write.              *)
Replay(w) ==
  [k \in Keys |-> LET at == {i \in DOMAIN w : k \in DOMAIN w[i]} IN
                  IF at = {} THEN Absent ELSE w[Max(at)][k]]

(* The prefixes of the log that a crash, or a checkpoint, may find on disk: *)
(* neither flushes the WAL first.                                           *)
OnDisk == durable .. Len(log)

(* pebble.Sync: the queue's putter and WriteBatch take it from the          *)
(* configuration, PutSync, which puts one key, commits with it always.      *)
SyncOptions(entry, a) ==
  IF entry \notin {"put", "direct"} THEN {FALSE}
  ELSE {~AsyncWAL} \cup
         {TRUE : k \in {k \in DOMAIN a : entry = "direct"
                                           /\ DOMAIN a = {k} /\ a[k] # Absent}}

FollowsConfig(p) == ~AsyncWAL                  \* slip: PutSync does so as well
SyncWrite(p)     == Req(p) \in forced

VisibleOnly(p) == SyncWrite(p) => Req(p) \in ToSet(log)    \* slip: no fsync
Synced(p)      == SyncWrite(p) => Req(p) \in ToSet(SubSeq(log, 1, durable))

-----------------------------------------------------------------------------
(* Actions                                                                  *)

BeginWrite(p) ==
  /\ Begin(p)
  /\ \E sync \in SyncOptions(pc'[p], carry'[p]) :
       forced' = IF sync THEN forced \cup {Req(p)'} ELSE forced
  /\ UNCHANGED <<config, wal, durable, restarts>>

(* Without a WAL Pebble refuses to commit with pebble.Sync.                 *)
CommitLogged(p) ==
  /\ Commit(p)
  /\ ~(SyncWrite(p) /\ DisableWAL)
  /\ wal' = Append(wal, carry[p])
  /\ UNCHANGED <<config, forced, durable, restarts>>

(* The commit has returned: what follows it in the caller.                  *)
InvalidateSynced(p) ==
  Invalidate(p) /\ Synced(p) /\ UNCHANGED diskVars

(* Stop waits for the consumer's commits to return.  Closing Pebble writes  *)
(* the WAL out; without one, what is in memory only is lost.                *)
CloseFlushes(p) ==
  /\ ClosePebble(p)
  /\ \A q \in Procs : pc[q] = "invalidate" => Synced(q)
  /\ durable' \in IF DisableWAL THEN OnDisk ELSE {Len(log)}
  /\ UNCHANGED <<config, forced, wal, restarts>>

(* The WAL is synced, for a writer or in the background, or a memtable is   *)
(* flushed.                                                                 *)
Flush ==
  /\ pebbleOpen
  /\ durable' \in OnDisk \ {durable}
  /\ UNCHANGED <<vars, config, forced, wal, restarts>>

(* The process dies, at any moment, or ends after a Close; then db.Open     *)
(* replays the log and starts with an empty cache.  Calls under way never   *)
(* return.                                                                  *)
Restart ==
  /\ restarts < MaxRestarts
  /\ restarts' = restarts + 1
  /\ config' \in Configs
  /\ durable' \in OnDisk
  /\ log' = SubSeq(log, 1, durable')
  /\ wal' = SubSeq(wal, 1, durable')
  /\ store' = Replay(wal')
  /\ cache' = [k \in Keys |-> NoEntry]
  /\ pc' = [p \in Procs |-> "idle"]
  /\ carry' = [p \in Procs |-> <<>>]
  /\ readers' = {}
  /\ closed' = FALSE
  /\ qStopped' = FALSE
  /\ memExceeded' = FALSE
  /\ pebbleOpen' = TRUE
  /\ raced' = {}
  /\ late' = {}
  /\ UNCHANGED <<count, outcome, forced>>

DurableNext ==
  \/ \E p \in Procs :
       \/ BeginWrite(p) \/ CommitLogged(p) \/ InvalidateSynced(p)
       \/ CloseFlushes(p)
       \/ Elsewhere(p) /\ UNCHANGED diskVars
  \/ (CacheForgets \/ MemorySampled) /\ UNCHANGED diskVars
  \/ Flush
  \/ Restart

DurableSpec == DurableInit /\ [][DurableNext]_allVars

-----------------------------------------------------------------------------
(* Properties                                                               *)

DurableTypeOK ==
  /\ TypeOK
  /\ config \in Configs
  /\ forced \subseteq Requests
  /\ Len(wal) = Len(log)
  /\ durable \in 0 .. Len(log)
  /\ restarts \in 0 .. MaxRestarts

(* ops.md:117-131, backup.go:19: a write that returned nil and was to be    *)
(* synced, by PutSync or because AsyncWAL is off, is in whatever a crash    *)
(* leaves and in whatever a checkpoint copies, in every mode and after any  *)
(* number of restarts.                                                      *)
Acknowledged == {r \in forced : outcome[r] = "nil"}

ForcedIsDurable ==
  \A n \in OnDisk : Acknowledged \subseteq ToSet(SubSeq(log, 1, n))

(* ops.md:120: with a WAL, a restart after Close finds everything that was  *)
(* ever visible, synced or not, whoever was writing while Close ran.        *)
CleanRestartLosesNothing ==
  [][restarts' # restarts /\ ~pebbleOpen /\ ~DisableWAL => store' = store]_allVars

(* The handle on a disk does what DurableWrites promises its callers.       *)
Promise == INSTANCE DurableWrites WITH
  open <- {Req(p) : p \in {q \in Procs : pc[q] \in Writing}},
  safe <- durable

ImplementsDurableWrites == Promise!MSpec
=============================================================================
