----------------------------- MODULE WriteQueue -----------------------------
(***************************************************************************)
(* internal/writequeue/queue.go with the only way db.go uses it            *)
(* (db.submit, db.go:314-334): callers take a pooled WriteOp, Submit it    *)
(* under the read lock, wait on its Done channel and release it; one       *)
(* consumer goroutine drains the channel, alone or in groups; Stop marks,  *)
(* drains and closes under the write lock; a monitor samples memory.       *)
(*                                                                         *)
(* A WriteOp is a shell from the pool: the caller, the channel and the     *)
(* consumer hold the same pointer, so a shell released too early would be  *)
(* refilled under the consumer's feet.  The Done channel (capacity 1) is a *)
(* cell of the shell.                                                      *)
(***************************************************************************)
EXTENDS Integers, Sequences, SequencesExt

CONSTANTS
  Clients,     \* goroutines that call db.submit
  Stoppers,    \* goroutines that call Queue.Stop
  Shells,      \* the WriteOp structs sync.Pool can hand out
  NoShell,     \* what a client outside a call holds
  MaxLen,      \* Config.MaxLen, the capacity of the channel
  BatchSize,   \* Config.BatchSize, 0 for one write at a time
  Bulk,        \* the Putter implements BatchPutter
  MemLimited,  \* Config.MaxMemMB > 0
  MaxReq       \* bound on the writes one client makes

ASSUME QueueAssumption ==
  /\ NoShell \notin Shells
  /\ MaxLen \in Nat \ {0}       \* New replaces 0 and less by 1024
  /\ BatchSize \in Nat
  /\ Bulk \in BOOLEAN
  /\ MemLimited \in BOOLEAN
  /\ MaxReq \in Nat

VARIABLES
  pc,          \* pc[c]: where client c stands in db.submit
  count,       \* count[c]: how many writes c has begun
  own,         \* own[c]: the shell c holds, NoShell when it is idle
  content,     \* content[s]: the request whose Key/Value/Op shell s carries
  done,        \* done[s]: the Done channel of s
  chan,        \* Queue.queue: the buffered channel of shells
  closed,      \* the channel is closed
  stopped,     \* Queue.stopped (memStop is closed with it)
  memExceeded, \* Queue.memExceeded
  monitor,     \* memMonitorLoop: "running" or "exited"
  stopper,     \* stopper[t]: where t stands in Stop
  consumer,    \* where the consumer goroutine stands
  batch,       \* the shells the consumer has received and not answered
  err,         \* the result of the write the consumer is about to report
  lastBatch,   \* the consumer saw the close while it collected `batch`
  sent,        \* history: requests in the order they entered the channel
  applied,     \* history: requests the Putter applied, in order
  outcome      \* history: what each request returned to its caller

clientVars == <<pc, count, own, content, outcome>>
flowVars   == <<done, chan, sent, applied>>
stopVars   == <<stopper, stopped, closed>>
memVars    == <<memExceeded, monitor>>
workVars   == <<consumer, batch, err, lastBatch>>
vars == <<pc, count, own, content, done, chan, closed, stopped, memExceeded,
          monitor, stopper, consumer, batch, err, lastBatch, sent, applied,
          outcome>>

Requests == Clients \X (1 .. MaxReq)
Req(c)   == <<c, count[c]>>
NoReq    == <<>>                                  \* a released shell

Refusals == {"ErrStopped", "ErrFull", "ErrMemExceeded", "fail"}
Results  == Refusals \cup {"nil"}

(* The most shells the consumer takes before it writes.                     *)
GroupLimit == IF BatchSize = 0 THEN 1 ELSE BatchSize

(* Queue.mu.  A client holds the read lock between its checks and its send; *)
(* a stopper is next for the write lock in "want", holds it in "draining",  *)
(* and keeps new readers out in both (sync.RWMutex).                        *)
ReadLocked  == \E c \in Clients : pc[c] = "locked"
WriteClaimed == \E t \in Stoppers : stopper[t] \in {"want", "draining"}

Init ==
  /\ pc = [c \in Clients |-> "idle"]
  /\ count = [c \in Clients |-> 0]
  /\ own = [c \in Clients |-> NoShell]
  /\ content = [s \in Shells |-> NoReq]
  /\ done = [s \in Shells |-> "none"]
  /\ chan = <<>>
  /\ closed = FALSE
  /\ stopped = FALSE
  /\ memExceeded = FALSE
  /\ monitor = IF MemLimited THEN "running" ELSE "exited"
  /\ stopper = [t \in Stoppers |-> "idle"]
  /\ consumer = "receive"
  /\ batch = <<>>
  /\ err = "nil"
  /\ lastBatch = FALSE
  /\ sent = <<>>
  /\ applied = <<>>
  /\ outcome = [r \in Requests |-> "none"]

-----------------------------------------------------------------------------
(* Callers: db.submit, AcquireWriteOp, Submit, ReleaseWriteOp               *)

(* A shell is in the pool exactly when it has no Done channel.              *)
InAnyState(s) == TRUE                       \* slip: released twice, handed out
InPool(s)     == done[s] = "none"

Acquire(c) ==
  /\ pc[c] = "idle"
  /\ count[c] < MaxReq
  /\ \E s \in Shells :
       /\ InPool(s)
       /\ own' = [own EXCEPT ![c] = s]
       /\ content' = [content EXCEPT ![s] = <<c, count[c] + 1>>]
       /\ done' = [done EXCEPT ![s] = "empty"]
  /\ pc' = [pc EXCEPT ![c] = "filled"]
  /\ count' = [count EXCEPT ![c] = @ + 1]
  /\ UNCHANGED <<chan, sent, applied, outcome, stopVars, memVars, workVars>>

(* c's call returns e and its shell goes back to the pool.                  *)
Release(c, e) ==
  /\ outcome' = [outcome EXCEPT ![Req(c)] = e]
  /\ content' = [content EXCEPT ![own[c]] = NoReq]
  /\ done' = [done EXCEPT ![own[c]] = "none"]
  /\ own' = [own EXCEPT ![c] = NoShell]
  /\ pc' = [pc EXCEPT ![c] = "idle"]
  /\ UNCHANGED <<count, chan, sent, applied, stopVars, memVars, workVars>>

(* Submit's checks under the read lock, in the order of the code.           *)
SubmitRefused(c) ==
  /\ pc[c] = "filled"
  /\ ~WriteClaimed
  /\ \/ stopped /\ Release(c, "ErrStopped")
     \/ ~stopped /\ memExceeded /\ Release(c, "ErrMemExceeded")

SubmitChecked(c) ==
  /\ pc[c] = "filled"
  /\ ~WriteClaimed
  /\ ~stopped
  /\ ~memExceeded
  /\ pc' = [pc EXCEPT ![c] = "locked"]
  /\ UNCHANGED <<count, own, content, outcome, flowVars, stopVars, memVars,
                 workVars>>

(* The non-blocking send, then the unlock: the op is queued, or refused.    *)
HasOneMore == Len(chan) <= MaxLen                       \* slip: off by one
HasRoom    == Len(chan) < MaxLen

Send(c) ==
  /\ pc[c] = "locked"
  /\ HasRoom
  /\ chan' = Append(chan, own[c])
  /\ sent' = Append(sent, content[own[c]])
  /\ pc' = [pc EXCEPT ![c] = "waiting"]
  /\ UNCHANGED <<count, own, content, done, applied, outcome, stopVars,
                 memVars, workVars>>

SendFull(c) == pc[c] = "locked" /\ ~HasRoom /\ Release(c, "ErrFull")

(* err := <-op.Done, then ReleaseWriteOp.                                   *)
Await(c) ==
  /\ pc[c] = "waiting"
  /\ done[own[c]] \in Results
  /\ Release(c, done[own[c]])

-----------------------------------------------------------------------------
(* Stop                                                                     *)

StopCall(t) ==
  /\ stopper[t] = "idle"
  /\ stopper' = [stopper EXCEPT ![t] = "called"]
  /\ UNCHANGED <<clientVars, flowVars, closed, stopped, memVars, workVars>>

(* t is next for the write lock and turns new readers away.                 *)
StopClaim(t) ==
  /\ stopper[t] = "called"
  /\ ~WriteClaimed
  /\ stopper' = [stopper EXCEPT ![t] = "want"]
  /\ UNCHANGED <<clientVars, flowVars, closed, stopped, memVars, workVars>>

(* The write lock is granted.  A second Stop returns at once.               *)
NoLock    == TRUE                            \* slip: Stop without the lock
LockFreed == ~ReadLocked

StopLock(t) ==
  /\ stopper[t] = "want"
  /\ LockFreed
  /\ stopper' = [stopper EXCEPT ![t] = IF stopped THEN "returned"
                                                  ELSE "draining"]
  /\ stopped' = TRUE
  /\ UNCHANGED <<clientVars, flowVars, closed, memVars, workVars>>

(* One turn of the drain loop; the consumer may be receiving meanwhile.  A  *)
(* Done channel without room would block the send.                          *)
Unreplied == done                            \* slip: drained without a reply
Drained   == [done EXCEPT ![Head(chan)] = "ErrStopped"]

StopDrain(t) ==
  /\ stopper[t] = "draining"
  /\ chan # <<>>
  /\ done[Head(chan)] = "empty"
  /\ done' = Drained
  /\ chan' = Tail(chan)
  /\ UNCHANGED <<clientVars, sent, applied, stopVars, memVars, workVars>>

StopClose(t) ==
  /\ stopper[t] = "draining"
  /\ chan = <<>>
  /\ closed' = TRUE
  /\ stopper' = [stopper EXCEPT ![t] = "waiting"]
  /\ UNCHANGED <<clientVars, flowVars, stopped, memVars, workVars>>

(* wg.Wait                                                                  *)
MonitorGone == monitor = "exited"          \* slip: the consumer is not counted
AllGone     == monitor = "exited" /\ consumer = "exited"

StopWait(t) ==
  /\ stopper[t] = "waiting"
  /\ AllGone
  /\ stopper' = [stopper EXCEPT ![t] = "returned"]
  /\ UNCHANGED <<clientVars, flowVars, closed, stopped, memVars, workVars>>

-----------------------------------------------------------------------------
(* memMonitorLoop: a tick samples the heap; the select may still choose a   *)
(* tick that is due after memStop was closed.                               *)

MonitorTick ==
  /\ monitor = "running"
  /\ memExceeded' \in BOOLEAN
  /\ UNCHANGED <<clientVars, flowVars, monitor, stopVars, workVars>>

MonitorExit ==
  /\ monitor = "running"
  /\ stopped
  /\ monitor' = "exited"
  /\ UNCHANGED <<clientVars, flowVars, memExceeded, stopVars, workVars>>

-----------------------------------------------------------------------------
(* consumeLoop (BatchSize = 0) and consumeBatchLoop                         *)

Overtaking == <<Head(chan)>> \o batch           \* slip: the later op goes first
Joined     == Append(batch, Head(chan))

(* Block for the first op.                                                  *)
Receive ==
  /\ consumer = "receive"
  /\ chan # <<>>
  /\ batch' = <<Head(chan)>>
  /\ chan' = Tail(chan)
  /\ consumer' = "collect"
  /\ UNCHANGED <<clientVars, done, err, lastBatch, sent, applied, stopVars,
                 memVars>>

(* The channel is closed and empty: the loop ends.                          *)
AfterCloseSpin == "receive"                  \* slip: continue instead of return
AfterClose     == "exited"

ReceiveClosed ==
  /\ consumer = "receive"
  /\ chan = <<>>
  /\ closed
  /\ consumer' = AfterClose
  /\ UNCHANGED <<clientVars, flowVars, batch, err, lastBatch, stopVars,
                 memVars>>

(* Take what is there without blocking.                                     *)
Collect ==
  /\ consumer = "collect"
  /\ Len(batch) < GroupLimit
  /\ chan # <<>>
  /\ batch' = Joined
  /\ chan' = Tail(chan)
  /\ UNCHANGED <<clientVars, done, consumer, err, lastBatch, sent, applied,
                 stopVars, memVars>>

CollectEnd ==
  /\ consumer = "collect"
  /\ Len(batch) >= GroupLimit \/ chan = <<>>
  /\ lastBatch' = (Len(batch) < GroupLimit /\ closed)
  /\ consumer' = IF Bulk /\ Len(batch) > 1 THEN "applyAll" ELSE "apply"
  /\ UNCHANGED <<clientVars, flowVars, batch, err, stopVars, memVars>>

(* putter.Set or putter.Delete of one op; Pebble may fail.                  *)
ApplyOne ==
  /\ consumer = "apply"
  /\ \/ /\ err' = "nil"
        /\ applied' = Append(applied, content[batch[1]])
     \/ /\ err' = "fail"
        /\ UNCHANGED applied
  /\ consumer' = "answer"
  /\ UNCHANGED <<clientVars, done, chan, batch, lastBatch, sent, stopVars,
                 memVars>>

(* BatchPutter.ApplyBatch: one Pebble batch, all of it or none.             *)
LeftPartly == Append(applied, content[batch[1]])   \* slip: a torn batch
LeftByFail == applied

ApplyAll ==
  /\ consumer = "applyAll"
  /\ \/ /\ err' = "nil"
        /\ applied' = applied \o [i \in 1 .. Len(batch) |-> content[batch[i]]]
     \/ /\ err' = "fail"
        /\ applied' = LeftByFail
  /\ consumer' = "answerAll"
  /\ UNCHANGED <<clientVars, done, chan, batch, lastBatch, sent, stopVars,
                 memVars>>

(* op.Done <- err for the first unanswered op.  After the last one the loop *)
(* comes round, or ends if the close was seen while collecting.             *)
NextOfGroup == IF consumer = "answer" THEN "apply" ELSE "answerAll"

LostError == "nil"                             \* slip: the error is dropped
Reply     == err

Answer ==
  /\ consumer \in {"answer", "answerAll"}
  /\ done[batch[1]] = "empty"
  /\ done' = [done EXCEPT ![batch[1]] = Reply]
  /\ batch' = Tail(batch)
  /\ consumer' = IF Len(batch) > 1 THEN NextOfGroup
                 ELSE IF lastBatch THEN "exited" ELSE "receive"
  /\ err' = IF consumer' = "answerAll" THEN err ELSE "nil"
  /\ UNCHANGED <<clientVars, chan, lastBatch, sent, applied, stopVars, memVars>>

-----------------------------------------------------------------------------
(* A `slip` above is the form a definition would take after a plausible     *)
(* mistake; nothing uses it, and each property fails with one of them.      *)

ClientStep(c) ==
  \/ Acquire(c)
  \/ SubmitRefused(c) \/ SubmitChecked(c)
  \/ Send(c) \/ SendFull(c) \/ Await(c)

StopperStep(t) ==
  \/ StopCall(t) \/ StopClaim(t) \/ StopLock(t)
  \/ StopDrain(t) \/ StopClose(t) \/ StopWait(t)

ConsumerStep ==
  \/ Receive \/ ReceiveClosed \/ Collect \/ CollectEnd
  \/ ApplyOne \/ ApplyAll \/ Answer

Next ==
  \/ \E c \in Clients : ClientStep(c)
  \/ \E t \in Stoppers : StopperStep(t)
  \/ ConsumerStep
  \/ MonitorTick \/ MonitorExit

Spec == Init /\ [][Next]_vars

(* Goroutines that can run do: a caller past its Acquire finishes its call, *)
(* a Stop that was called goes on, the consumer and the monitor run.        *)
(* Nobody is obliged to write or to stop, nor the ticker to fire.  A Pebble *)
(* call returns.                                                            *)
Finish(c) ==
  SubmitRefused(c) \/ SubmitChecked(c) \/ Send(c) \/ SendFull(c) \/ Await(c)

ProceedStop(t) ==
  StopClaim(t) \/ StopLock(t) \/ StopDrain(t) \/ StopClose(t) \/ StopWait(t)

Fairness ==
  /\ \A c \in Clients : WF_vars(Finish(c))
  /\ \A t \in Stoppers : WF_vars(ProceedStop(t))
  /\ WF_vars(ConsumerStep)
  /\ WF_vars(MonitorExit)

FairSpec == Spec /\ Fairness

-----------------------------------------------------------------------------
(* Properties                                                               *)

InFlight == ToSet(chan) \cup ToSet(batch)
Applied  == ToSet(applied)

TypeOK ==
  /\ pc \in [Clients -> {"idle", "filled", "locked", "waiting"}]
  /\ count \in [Clients -> 0 .. MaxReq]
  /\ own \in [Clients -> Shells \cup {NoShell}]
  /\ content \in [Shells -> Requests \cup {NoReq}]
  /\ done \in [Shells -> {"none", "empty"} \cup Results]
  /\ chan \in Seq(Shells)
  /\ Len(chan) <= MaxLen
  /\ closed \in BOOLEAN
  /\ stopped \in BOOLEAN
  /\ memExceeded \in BOOLEAN
  /\ monitor \in {"running", "exited"}
  /\ stopper \in [Stoppers -> {"idle", "called", "want", "draining", "waiting",
                               "returned"}]
  /\ consumer \in {"receive", "collect", "apply", "applyAll", "answer",
                   "answerAll", "exited"}
  /\ batch \in Seq(Shells)
  /\ err \in {"nil", "fail"}
  /\ lastBatch \in BOOLEAN
  /\ sent \in Seq(Requests)
  /\ applied \in Seq(Requests)
  /\ outcome \in [Requests -> {"none"} \cup Results]

(* queue.go:102-105: a Submit that passed its checks never meets a closed   *)
(* channel (Go panics on such a send), because the check and the send share *)
(* a read lock that Stop's close waits for.                                 *)
NoSendOnClosed == \A c \in Clients : pc[c] = "locked" => ~closed

(* The pooled shells: one that is still to be answered is in one place, its *)
(* owner waits on it, and its Done channel has room.  So no answer blocks   *)
(* the consumer or Stop, none goes to another call's channel, and no shell  *)
(* is refilled while the queue still reads it (queue.go:19-47).             *)
InFlightShellsAreOwned ==
  /\ IsInjective(chan)
  /\ IsInjective(batch)
  /\ ToSet(chan) \cap ToSet(batch) = {}
  /\ \A s \in InFlight :
       /\ done[s] = "empty"
       /\ \E c \in Clients :
            pc[c] = "waiting" /\ own[c] = s /\ content[s] = Req(c)

(* queue.go:173: an op that entered the queue is answered by the consumer   *)
(* or by Stop's drain.  Until it is, it is in the channel or in the         *)
(* consumer's hands: none is lost, whatever Stop interrupts.                *)
NoAcceptedWriteLost ==
  \A c \in Clients : pc[c] = "waiting" /\ done[own[c]] = "empty" =>
    own[c] \in InFlight

(* A caller is told nil exactly for a write the Putter applied, and a write *)
(* whose caller got an error (refused, drained by Stop, failed alone or     *)
(* with its group) is never applied, not even later.                        *)
OutcomeIsTruthful ==
  \A r \in Requests :
    /\ outcome[r] = "nil" => r \in Applied
    /\ outcome[r] \in Refusals => r \notin Applied

(* Writes are applied in the order they entered the queue, across groups,   *)
(* failures and the ops a drain takes from between them.                    *)
AppliedInOrder ==
  \A i, j \in DOMAIN applied : \A m, n \in DOMAIN sent :
    applied[i] = sent[m] /\ applied[j] = sent[n] /\ i < j => m < n

(* What db.Close relies on when it closes Pebble after queue.Stop: once the *)
(* Stop that closed the channel has returned, the consumer is gone and no   *)
(* caller waits without an answer.                                          *)
StopIsFinal ==
  /\ \E t \in Stoppers : stopper[t] = "returned"
  /\ \A t \in Stoppers : stopper[t] \notin {"draining", "waiting"}
  => /\ consumer = "exited"
     /\ \A c \in Clients : pc[c] = "waiting" => done[own[c]] # "empty"

(* The queue keeps the promise of AtomicWrites.                             *)
Service == INSTANCE AtomicWrites WITH
  open <- {Req(c) : c \in {d \in Clients : pc[d] # "idle"}},
  log  <- applied

ImplementsAtomicWrites == Service!ASpec

(* Every call returns (queue.go:173), whether or not anybody ever stops.    *)
CallsReturn ==
  \A c \in Clients : pc[c] # "idle" ~> pc[c] = "idle"

(* Stop returns: the drain ends, the consumer and the monitor leave, and    *)
(* nobody holds the lock for ever.                                          *)
StopReturns ==
  \A t \in Stoppers : stopper[t] = "called" ~> stopper[t] = "returned"
=============================================================================
