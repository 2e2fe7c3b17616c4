-------------------------- MODULE WriteQueueProofs --------------------------
(***************************************************************************)
(* What TLAPS proves of the write queue for any number of callers and      *)
(* stoppers and any queue length, group size and putter.                   *)
(***************************************************************************)
EXTENDS WriteQueue, DataLemmas

-----------------------------------------------------------------------------
(* The inductive invariant                                                  *)

(* A caller in a call owns a shell that carries its request and that nobody *)
(* else owns.                                                               *)
CallsOwnShells ==
  /\ \A c \in Clients : pc[c] # "idle" =>
       /\ own[c] \in Shells
       /\ content[own[c]] = Req(c)
       /\ count[c] \in 1 .. MaxReq
       /\ done[own[c]] # "none"
       /\ pc[c] # "waiting" => done[own[c]] = "empty"
  /\ \A c, d \in Clients :
       pc[c] # "idle" /\ pc[d] # "idle" /\ own[c] = own[d] => c = d

(* Stopped before closed, by one stopper, and with no reader inside.        *)
StopOrder ==
  /\ \A c \in Clients : pc[c] = "locked" => ~stopped
  /\ \A t \in Stoppers :
       stopper[t] \in {"draining", "waiting", "returned"} => stopped
  /\ \A t, u \in Stoppers :
       /\ stopper[t] \in {"draining", "waiting"}
       /\ stopper[u] \in {"draining", "waiting"}
       => t = u
  /\ closed => stopped /\ chan = <<>>

(* The consumer holds a group exactly between its receive and its last      *)
(* answer, and leaves only after the close.                                 *)
ConsumerOrder ==
  /\ batch = <<>> <=> consumer \in {"receive", "exited"}
  /\ lastBatch \/ consumer = "exited" => closed
  /\ stopped => \/ \E t \in Stoppers : stopper[t] \in {"draining", "waiting"}
                \/ consumer = "exited"

Shape ==
  TypeOK /\ CallsOwnShells /\ InFlightShellsAreOwned /\ StopOrder
    /\ ConsumerOrder /\ NoAcceptedWriteLost

-----------------------------------------------------------------------------
\* A new queue has all ops in the pool and nobody inside.
LEMMA InitShape == Init => Shape
<1> SUFFICES ASSUME Init PROVE Shape
  OBVIOUS
<1>1. TypeOK
  <2>1. chan \in Seq(Shells) /\ batch \in Seq(Shells)
    BY DEF Init
  <2>2. sent \in Seq(Requests) /\ applied \in Seq(Requests)
    BY DEF Init
  <2>3. Len(chan) <= MaxLen /\ 0 \in 0 .. MaxReq
    BY QueueAssumption DEF Init
  <2> QED
    BY <2>1, <2>2, <2>3 DEF Init, TypeOK
<1>2. CallsOwnShells /\ StopOrder /\ ConsumerOrder /\ NoAcceptedWriteLost
  BY DEF Init, CallsOwnShells, StopOrder, ConsumerOrder, NoAcceptedWriteLost
<1>3. InFlightShellsAreOwned
  BY ToSetEmpty DEF Init, InFlightShellsAreOwned, InFlight
<1> QED
  BY <1>1, <1>2, <1>3 DEF Shape

\* An op is taken from the pool by one caller.
LEMMA AcquireShape ==
  ASSUME Shape, NEW c \in Clients, Acquire(c)
  PROVE  Shape'
<1>1. PICK s \in Shells :
        /\ done[s] = "none"
        /\ own' = [own EXCEPT ![c] = s]
        /\ content' = [content EXCEPT ![s] = <<c, count[c] + 1>>]
        /\ done' = [done EXCEPT ![s] = "empty"]
  BY DEF Acquire, InPool
<1>2. count[c] + 1 \in 1 .. MaxReq
  BY QueueAssumption DEF Acquire, Shape, TypeOK
<1>3. TypeOK'
  BY <1>1, <1>2
     DEF Acquire, Shape, TypeOK, Requests, stopVars, memVars, workVars
<1>4. s \notin InFlight /\ \A d \in Clients : pc[d] # "idle" => own[d] # s
  BY <1>1 DEF Shape, InFlightShellsAreOwned, CallsOwnShells
<1>5. CallsOwnShells'
  BY <1>1, <1>2, <1>4 DEF Acquire, Shape, TypeOK, CallsOwnShells, Req
<1>6. InFlight' = InFlight
  BY DEF Acquire, InFlight, workVars
<1>7. InFlightShellsAreOwned'
  BY <1>1, <1>4, <1>6
     DEF Acquire, Shape, TypeOK, InFlightShellsAreOwned, Req, workVars,
         InFlight
<1>8. StopOrder' /\ ConsumerOrder' /\ NoAcceptedWriteLost'
  BY <1>1, <1>4, <1>6
     DEF Acquire, Shape, TypeOK, StopOrder, ConsumerOrder, NoAcceptedWriteLost,
         workVars, stopVars
<1> QED
  BY <1>3, <1>5, <1>7, <1>8 DEF Shape

(* A call returns an error or its answer; the shell is no longer in flight. *)
LEMMA ReleaseShape ==
  ASSUME Shape, NEW c \in Clients, NEW e \in Results, Release(c, e),
         pc[c] # "idle", own[c] \notin InFlight
  PROVE  Shape'
<1>1. own[c] \in Shells /\ Req(c) \in Requests
  BY DEF Shape, CallsOwnShells, Req, Requests
<1>2. TypeOK'
  BY <1>1 DEF Release, Shape, TypeOK, stopVars, memVars, workVars
<1>3. \A d \in Clients : d # c /\ pc[d] # "idle" => own[d] # own[c]
  BY DEF Shape, CallsOwnShells
<1>4. CallsOwnShells'
  BY <1>1, <1>3
     DEF Release, Shape, TypeOK, CallsOwnShells, Req, stopVars, memVars,
         workVars
<1>5. InFlight' = InFlight
  BY DEF Release, InFlight, workVars
<1>6. InFlightShellsAreOwned'
  BY <1>1, <1>3, <1>5
     DEF Release, Shape, TypeOK, InFlightShellsAreOwned, Req, workVars,
         stopVars, memVars
<1>7. StopOrder' /\ ConsumerOrder' /\ NoAcceptedWriteLost'
  BY <1>1, <1>3, <1>5
     DEF Release, Shape, TypeOK, CallsOwnShells, StopOrder, ConsumerOrder,
         NoAcceptedWriteLost, workVars, stopVars, memVars
<1> QED
  BY <1>2, <1>4, <1>6, <1>7 DEF Shape

(* Only a waiting caller's shell is in flight, and only unanswered.         *)
LEMMA NotInFlight ==
  ASSUME Shape, NEW c \in Clients, pc[c] # "idle",
         pc[c] # "waiting" \/ done[own[c]] # "empty"
  PROVE  own[c] \notin InFlight
  BY DEF Shape, CallsOwnShells, InFlightShellsAreOwned

\* A caller that passed the checks has seen the queue running.
LEMMA CheckedShape ==
  ASSUME Shape, NEW c \in Clients, SubmitChecked(c)
  PROVE  Shape'
<1>1. TypeOK'
  BY DEF SubmitChecked, Shape, TypeOK, stopVars, memVars, workVars, flowVars
<1>2. InFlight' = InFlight
  BY DEF SubmitChecked, InFlight, workVars, flowVars
<1>3. CallsOwnShells' /\ InFlightShellsAreOwned' /\ NoAcceptedWriteLost'
  BY <1>2
     DEF SubmitChecked, Shape, TypeOK, CallsOwnShells, Req, workVars,
         InFlightShellsAreOwned, NoAcceptedWriteLost, flowVars
<1>4. StopOrder' /\ ConsumerOrder'
  BY
     DEF SubmitChecked, Shape, TypeOK, StopOrder, ConsumerOrder, workVars,
         stopVars, flowVars
<1> QED
  BY <1>1, <1>3, <1>4 DEF Shape

\* A send hands an owned op to the channel, which is open.
LEMMA SendShape ==
  ASSUME Shape, NEW c \in Clients, Send(c)
  PROVE  Shape'
<1>1. /\ own[c] \in Shells /\ own[c] \notin InFlight
      /\ content[own[c]] = Req(c) /\ Req(c) \in Requests
      /\ done[own[c]] = "empty"
  BY NotInFlight DEF Send, Shape, CallsOwnShells, Req, Requests, HasRoom
<1>2. /\ chan' \in Seq(Shells) /\ Len(chan') <= MaxLen
      /\ ToSet(chan') = ToSet(chan) \cup {own[c]}
      /\ IsInjective(chan')
  BY <1>1, ToSetAppend, AppendProperties, QueueAssumption
     DEF Send, Shape, TypeOK, InFlight, InFlightShellsAreOwned, HasRoom
<1>3. sent' \in Seq(Requests)
  BY <1>1, AppendProperties DEF Send, Shape, TypeOK, HasRoom
<1>4. TypeOK'
  BY <1>2, <1>3 DEF Send, Shape, TypeOK, stopVars, memVars, workVars, HasRoom
<1>5. CallsOwnShells'
  BY <1>1 DEF Send, Shape, TypeOK, CallsOwnShells, Req, HasRoom
<1>6. InFlightShellsAreOwned' /\ NoAcceptedWriteLost'
  BY <1>1, <1>2
     DEF Send, Shape, TypeOK, InFlightShellsAreOwned, InFlight,
         NoAcceptedWriteLost, Req, workVars, HasRoom
<1>7. StopOrder' /\ ConsumerOrder'
  BY
     DEF Send, Shape, TypeOK, StopOrder, ConsumerOrder, workVars, stopVars,
         HasRoom
<1> QED
  BY <1>4, <1>5, <1>6, <1>7 DEF Shape

\* Every step of a caller keeps the shape.
LEMMA ClientShape ==
  ASSUME Shape, NEW c \in Clients, ClientStep(c)
  PROVE  Shape'
<1>1. CASE Acquire(c)
  BY <1>1, AcquireShape
<1>2. CASE SubmitRefused(c)
  BY <1>2, ReleaseShape, NotInFlight DEF SubmitRefused, Results, Refusals
<1>4. CASE SubmitChecked(c)
  BY <1>4, CheckedShape
<1>5. CASE Send(c)
  BY <1>5, SendShape
<1>6. CASE SendFull(c)
  BY <1>6, ReleaseShape, NotInFlight DEF SendFull, Results, Refusals
<1>7. CASE Await(c)
  <2>1. done[own[c]] \in Results /\ done[own[c]] # "empty"
    BY <1>7 DEF Await, Results, Refusals
  <2> QED
    BY <1>7, <2>1, ReleaseShape, NotInFlight DEF Await
<1> QED
  BY <1>1, <1>2, <1>4, <1>5, <1>6, <1>7 DEF ClientStep

-----------------------------------------------------------------------------
\* Stop sets stopped, closes the channel once, and drains it.
LEMMA StopperShape ==
  ASSUME Shape, NEW t \in Stoppers, StopperStep(t)
  PROVE  Shape'
<1> USE DEF clientVars, memVars, workVars
<1>1. CASE StopCall(t) \/ StopClaim(t) \/ StopLock(t)
  <2>1. /\ UNCHANGED <<clientVars, done, chan, closed, sent, applied,
                       memVars, workVars>>
        /\ InFlight' = InFlight
    BY <1>1 DEF StopCall, StopClaim, StopLock, InFlight, flowVars, LockFreed
  <2>2. TypeOK'
    BY <1>1, <2>1
       DEF StopCall, StopClaim, StopLock, Shape, TypeOK, flowVars, LockFreed
  <2>3. CallsOwnShells' /\ InFlightShellsAreOwned' /\ NoAcceptedWriteLost'
    BY <2>1 DEF Shape, CallsOwnShells, InFlightShellsAreOwned,
                NoAcceptedWriteLost, Req
  <2>4. StopOrder' /\ ConsumerOrder'
    BY <1>1, <2>1
       DEF StopCall, StopClaim, StopLock, Shape, TypeOK, StopOrder,
           ConsumerOrder, ReadLocked, flowVars, LockFreed
  <2> QED
    BY <2>2, <2>3, <2>4 DEF Shape
<1>2. CASE StopDrain(t)
  <2> DEFINE s == Head(chan)
  <2>1. /\ s \in Shells /\ s \in InFlight
        /\ chan' \in Seq(Shells) /\ Len(chan') <= MaxLen
        /\ ToSet(chan) = {s} \cup ToSet(chan')
        /\ IsInjective(chan') /\ s \notin ToSet(chan')
    BY <1>2, ToSetTail, QueueAssumption, LenProperties
       DEF StopDrain, Shape, TypeOK, InFlight, InFlightShellsAreOwned, Drained
  <2>2. TypeOK'
    BY <1>2, <2>1
       DEF StopDrain, Shape, TypeOK, stopVars, Results, Refusals, Drained
  <2>3. /\ InFlight' = InFlight \ {s}
        /\ done' = [done EXCEPT ![s] = "ErrStopped"]
    BY <1>2, <2>1
       DEF StopDrain, InFlight, Shape, InFlightShellsAreOwned, Drained
  <2>4. \A c \in Clients : pc[c] # "idle" /\ own[c] = s => pc[c] = "waiting"
    BY <2>1, NotInFlight
  <2>5. CallsOwnShells'
    BY <1>2, <2>1, <2>3, <2>4
       DEF StopDrain, Shape, TypeOK, CallsOwnShells, Req, Drained
  <2>6. InFlightShellsAreOwned' /\ NoAcceptedWriteLost'
    BY <1>2, <2>1, <2>3
       DEF StopDrain, Shape, TypeOK, InFlightShellsAreOwned,
           NoAcceptedWriteLost, Req, InFlight, Drained
  <2>7. StopOrder' /\ ConsumerOrder'
    BY <1>2, <2>1
       DEF StopDrain, Shape, TypeOK, StopOrder, ConsumerOrder, stopVars,
           Drained
  <2> QED
    BY <2>2, <2>5, <2>6, <2>7 DEF Shape
<1>3. CASE StopClose(t) \/ StopWait(t)
  <2>1. /\ UNCHANGED <<clientVars, done, chan, stopped, sent, applied,
                       memVars, workVars>>
        /\ InFlight' = InFlight
    BY <1>3 DEF StopClose, StopWait, InFlight, flowVars, AllGone
  <2>2. TypeOK'
    BY <1>3, <2>1 DEF StopClose, StopWait, Shape, TypeOK, flowVars, AllGone
  <2>3. CallsOwnShells' /\ InFlightShellsAreOwned' /\ NoAcceptedWriteLost'
    BY <2>1 DEF Shape, CallsOwnShells, InFlightShellsAreOwned,
                NoAcceptedWriteLost, Req
  <2>4. StopOrder' /\ ConsumerOrder'
    BY <1>3, <2>1
       DEF StopClose, StopWait, Shape, TypeOK, StopOrder, ConsumerOrder,
           flowVars, AllGone
  <2> QED
    BY <2>2, <2>3, <2>4 DEF Shape
<1> QED
  BY <1>1, <1>2, <1>3 DEF StopperStep

\* The memory monitor touches its flag alone.
LEMMA MonitorShape ==
  ASSUME Shape, MonitorTick \/ MonitorExit
  PROVE  Shape'
<1>1. /\ UNCHANGED <<clientVars, done, chan, sent, applied, stopVars,
                     workVars>>
      /\ InFlight' = InFlight
  BY DEF MonitorTick, MonitorExit, InFlight, workVars, flowVars
<1>2. TypeOK'
  BY <1>1
     DEF MonitorTick, MonitorExit, Shape, TypeOK, clientVars, stopVars,
         workVars, flowVars
<1>3. /\ CallsOwnShells' /\ InFlightShellsAreOwned' /\ NoAcceptedWriteLost'
      /\ StopOrder' /\ ConsumerOrder'
  BY <1>1 DEF Shape, CallsOwnShells, InFlightShellsAreOwned, StopOrder,
              ConsumerOrder, NoAcceptedWriteLost, Req, clientVars, stopVars,
              workVars
<1> QED
  BY <1>2, <1>3 DEF Shape

(* The head of the channel moves to the end of the group.                   *)
LEMMA TakeShape ==
  ASSUME Shape, chan # <<>>, chan' = Tail(chan), batch' = Append(batch, Head(chan)),
         consumer' = "collect", consumer \in {"receive", "collect"},
         UNCHANGED <<clientVars, done, err, lastBatch, sent, applied,
                     stopVars, memVars>>
  PROVE  Shape'
<1> USE DEF clientVars, stopVars, memVars
<1> DEFINE s == Head(chan)
<1>1. /\ s \in Shells
      /\ chan' \in Seq(Shells) /\ Len(chan') <= MaxLen
      /\ ToSet(chan) = {s} \cup ToSet(chan')
      /\ IsInjective(chan') /\ s \notin ToSet(chan')
  BY ToSetTail, QueueAssumption, LenProperties
     DEF Shape, TypeOK, InFlightShellsAreOwned
<1>2. s \notin ToSet(batch)
  BY <1>1 DEF Shape, InFlightShellsAreOwned
<1>3. /\ batch' \in Seq(Shells) /\ batch' # <<>>
      /\ ToSet(batch') = ToSet(batch) \cup {s}
      /\ IsInjective(batch')
  <2>1. batch \in Seq(Shells) /\ IsInjective(batch) /\ batch' = Append(batch, s)
    BY DEF Shape, TypeOK, InFlightShellsAreOwned
  <2>2. batch' \in Seq(Shells) /\ batch' # <<>>
    BY <1>1, <2>1, AppendProperties
  <2> QED
    BY <1>1, <1>2, <2>1, <2>2, ToSetAppend
<1>4. InFlight' = InFlight
  BY <1>1, <1>3 DEF InFlight
<1>5. TypeOK'
  BY <1>1, <1>3 DEF Shape, TypeOK
<1>6. CallsOwnShells' /\ NoAcceptedWriteLost'
  BY <1>4 DEF Shape, CallsOwnShells, NoAcceptedWriteLost, Req
<1>8. ToSet(chan') \cap ToSet(batch') = {}
  BY <1>1, <1>3 DEF Shape, InFlightShellsAreOwned
<1>9. \A x \in InFlight' :
        /\ done'[x] = "empty"
        /\ \E c \in Clients :
             pc'[c] = "waiting" /\ own'[c] = x /\ content'[x] = Req(c)'
  BY <1>4 DEF Shape, InFlightShellsAreOwned, Req
<1>10. InFlightShellsAreOwned'
  BY <1>1, <1>3, <1>8, <1>9 DEF InFlightShellsAreOwned
<1>7. StopOrder' /\ ConsumerOrder'
  BY <1>1, <1>3 DEF Shape, TypeOK, StopOrder, ConsumerOrder
<1> QED
  BY <1>5, <1>6, <1>7, <1>10 DEF Shape

(* The consumer works on its group without touching shells or channel.      *)
LEMMA WorkShape ==
  ASSUME Shape, UNCHANGED <<clientVars, done, chan, batch, sent,
                            stopVars, memVars>>,
         err' \in {"nil", "fail"}, applied' \in Seq(Requests),
         consumer \in {"collect", "apply", "applyAll"},
         consumer' \in {"apply", "applyAll", "answer", "answerAll"},
         lastBatch' \in BOOLEAN, lastBatch' => closed
  PROVE  Shape'
<1> USE DEF clientVars, stopVars, memVars
<1>1. TypeOK'
  BY DEF Shape, TypeOK
<1>2. /\ CallsOwnShells' /\ InFlightShellsAreOwned' /\ NoAcceptedWriteLost'
      /\ StopOrder' /\ ConsumerOrder'
  BY DEF Shape, CallsOwnShells, InFlightShellsAreOwned, NoAcceptedWriteLost,
         Req, InFlight, StopOrder, ConsumerOrder
<1> QED
  BY <1>1, <1>2 DEF Shape

(* The shells of the group carry requests.                                  *)
LEMMA GroupContent ==
  ASSUME Shape
  PROVE  /\ \A i \in 1 .. Len(batch) :
              batch[i] \in Shells /\ content[batch[i]] \in Requests
         /\ [i \in 1 .. Len(batch) |-> content[batch[i]]] \in Seq(Requests)
<1>1. Len(batch) \in Nat /\ DOMAIN batch = 1 .. Len(batch)
  BY LenProperties DEF Shape, TypeOK
<1>2. \A i \in 1 .. Len(batch) : batch[i] \in ToSet(batch) /\ batch[i] \in Shells
  BY <1>1, ElementOfSeq DEF Shape, TypeOK, ToSet
<1>3. \A i \in 1 .. Len(batch) : content[batch[i]] \in Requests
  <2> SUFFICES ASSUME NEW i \in 1 .. Len(batch)
               PROVE  content[batch[i]] \in Requests
    OBVIOUS
  <2>1. PICK c \in Clients : pc[c] = "waiting" /\ content[batch[i]] = Req(c)
    BY <1>2 DEF Shape, InFlightShellsAreOwned, InFlight
  <2> QED
    BY <2>1 DEF Shape, CallsOwnShells, Req, Requests
<1> QED
  BY <1>1, <1>2, <1>3, IsASeq

\* The consumer takes, applies and answers ops that callers own.
LEMMA ConsumerShape ==
  ASSUME Shape, ConsumerStep
  PROVE  Shape'
<1>1. CASE Receive
  <2>1. batch' = Append(batch, Head(chan))
    <3>1. batch = <<>>
      BY <1>1 DEF Receive, Shape, ConsumerOrder
    <3>2. batch' = <<Head(chan)>>
      BY <1>1 DEF Receive
    <3> QED
      BY <3>1, <3>2
  <2> QED
    BY <1>1, <2>1, TakeShape DEF Receive
<1>2. CASE ReceiveClosed
  <2>1. /\ UNCHANGED <<clientVars, done, chan, batch, err, lastBatch, sent,
                       applied, stopVars, memVars>>
        /\ InFlight' = InFlight
    BY <1>2 DEF ReceiveClosed, InFlight, flowVars, AfterClose
  <2>2. TypeOK'
    BY <1>2, <2>1
       DEF ReceiveClosed, Shape, TypeOK, clientVars, stopVars, memVars,
           flowVars, AfterClose
  <2>3. /\ CallsOwnShells' /\ InFlightShellsAreOwned' /\ NoAcceptedWriteLost'
        /\ StopOrder' /\ ConsumerOrder'
    BY <1>2, <2>1
       DEF ReceiveClosed, Shape, CallsOwnShells, StopOrder,
           InFlightShellsAreOwned, NoAcceptedWriteLost, Req, ConsumerOrder,
           clientVars, stopVars, memVars, flowVars, AfterClose
  <2> QED
    BY <2>2, <2>3 DEF Shape
<1>3. CASE Collect
  BY <1>3, TakeShape DEF Collect, Joined
<1>4. CASE CollectEnd
  BY <1>4, WorkShape DEF CollectEnd, Shape, TypeOK, flowVars
<1>5. CASE ApplyOne
  <2>1. Len(batch) \in Nat /\ Len(batch) # 0
    BY <1>5, EmptySeq, LenProperties DEF ApplyOne, Shape, TypeOK, ConsumerOrder
  <2>2. content[batch[1]] \in Requests
    BY <2>1, GroupContent
  <2>3. applied' \in Seq(Requests)
    <3>1. applied \in Seq(Requests)
      BY DEF Shape, TypeOK
    <3>2. applied' = Append(applied, content[batch[1]]) \/ applied' = applied
      BY <1>5 DEF ApplyOne
    <3> QED
      BY <2>2, <3>1, <3>2, AppendProperties
  <2>4. /\ err' \in {"nil", "fail"}
        /\ lastBatch' \in BOOLEAN /\ (lastBatch' => closed)
    BY <1>5 DEF ApplyOne, Shape, TypeOK, ConsumerOrder
  <2> QED
    BY <1>5, <2>3, <2>4, WorkShape DEF ApplyOne
<1>6. CASE ApplyAll
  <2>1. applied' \in Seq(Requests)
    <3>1. applied \in Seq(Requests)
      BY DEF Shape, TypeOK
    <3>2. \/ applied' = applied \o [i \in 1 .. Len(batch) |-> content[batch[i]]]
          \/ applied' = applied
      BY <1>6 DEF ApplyAll, LeftByFail
    <3> QED
      BY <3>1, <3>2, GroupContent, ConcatProperties
  <2>2. /\ err' \in {"nil", "fail"}
        /\ lastBatch' \in BOOLEAN /\ (lastBatch' => closed)
    BY <1>6 DEF ApplyAll, Shape, TypeOK, ConsumerOrder, LeftByFail
  <2> QED
    BY <1>6, <2>1, <2>2, WorkShape DEF ApplyAll, LeftByFail
<1>7. CASE Answer
  <2> USE DEF clientVars, stopVars, memVars
  <2> DEFINE s == batch[1]
  <2>1. batch # <<>> /\ Len(batch) \in Nat /\ s = Head(batch)
    BY <1>7, LenProperties, EmptySeq, HeadTailProperties
       DEF Answer, Shape, TypeOK, ConsumerOrder, Reply, NextOfGroup
  <2>2. /\ s \in Shells /\ s \in InFlight
        /\ batch' \in Seq(Shells) /\ Len(batch') = Len(batch) - 1
        /\ ToSet(batch) = {s} \cup ToSet(batch')
        /\ IsInjective(batch') /\ s \notin ToSet(batch')
    BY <1>7, <2>1, ToSetTail
       DEF Answer, Shape, TypeOK, InFlight, InFlightShellsAreOwned, Reply,
           NextOfGroup
  <2>3. batch' = <<>> <=> ~(Len(batch) > 1)
    BY <2>1, <2>2, EmptySeq, LenProperties
  <2>4. TypeOK'
    BY <1>7, <2>2
       DEF Answer, Shape, TypeOK, Results, Refusals, Reply, NextOfGroup
  <2>5. /\ InFlight' = InFlight \ {s}
        /\ done' = [done EXCEPT ![s] = err]
        /\ err \notin {"none", "empty"}
    BY <1>7, <2>2
       DEF Answer, InFlight, Shape, TypeOK, InFlightShellsAreOwned, Reply,
           NextOfGroup
  <2>6. \A c \in Clients : pc[c] # "idle" /\ own[c] = s => pc[c] = "waiting"
    BY <2>2, NotInFlight
  <2>7. CallsOwnShells'
    BY <1>7, <2>2, <2>5, <2>6
       DEF Answer, Shape, TypeOK, CallsOwnShells, Req, Reply, NextOfGroup
  <2>8. InFlightShellsAreOwned' /\ NoAcceptedWriteLost'
    BY <1>7, <2>2, <2>5
       DEF Answer, Shape, TypeOK, InFlightShellsAreOwned, NoAcceptedWriteLost,
           Req, InFlight, Reply, NextOfGroup
  <2>9. StopOrder' /\ ConsumerOrder'
    BY <1>7, <2>3
       DEF Answer, Shape, TypeOK, StopOrder, ConsumerOrder, Reply, NextOfGroup
  <2> QED
    BY <2>4, <2>7, <2>8, <2>9 DEF Shape
<1> QED
  BY <1>1, <1>2, <1>3, <1>4, <1>5, <1>6, <1>7 DEF ConsumerStep

-----------------------------------------------------------------------------
\* Every step keeps the shape.
LEMMA NextShape == Shape /\ [Next]_vars => Shape'
<1> SUFFICES ASSUME Shape, [Next]_vars PROVE Shape'
  OBVIOUS
<1>1. CASE UNCHANGED vars
  BY <1>1 DEF vars, Shape, TypeOK, CallsOwnShells, InFlightShellsAreOwned,
     StopOrder, ConsumerOrder, NoAcceptedWriteLost, InFlight, Req
<1> QED
  BY <1>1, ClientShape, StopperShape, ConsumerShape, MonitorShape DEF Next

\* The shape holds in every execution.
LEMMA ShapeInvariant == Spec => []Shape
  BY InitShape, NextShape, PTL DEF Spec

(* Every variable keeps its type; the channel never exceeds Config.MaxLen.  *)
THEOREM TypeCorrect == Spec => []TypeOK
  BY ShapeInvariant, PTL DEF Shape

(* queue.go:102-105: no Submit sends on a channel Stop has closed.          *)
THEOREM SendsOnlyWhileOpen == Spec => []NoSendOnClosed
<1>1. Shape => NoSendOnClosed
  BY DEF Shape, StopOrder, NoSendOnClosed
<1> QED
  BY <1>1, ShapeInvariant, PTL

(* queue.go:19-47, 173: a queued shell is in one place, has one owner, room *)
(* for its answer, and stays so until it is answered.                       *)
THEOREM ShellDiscipline ==
  Spec => [](InFlightShellsAreOwned /\ NoAcceptedWriteLost)
<1>1. Shape => InFlightShellsAreOwned /\ NoAcceptedWriteLost
  BY DEF Shape
<1> QED
  BY <1>1, ShapeInvariant, PTL

(* queue.go:173: an accepted write without an answer is in the channel or   *)
(* in the consumer's hands, whatever Stop interrupts.                       *)
THEOREM NothingAcceptedIsLost == Spec => []NoAcceptedWriteLost
  BY ShapeInvariant, PTL DEF Shape

(* db.go:121-122: after the closing Stop nothing is applied or unanswered.  *)
THEOREM StopSettlesEverything == Spec => []StopIsFinal
<1>1. Shape => StopIsFinal
  <2> SUFFICES ASSUME Shape, NEW t \in Stoppers, stopper[t] = "returned",
                      \A u \in Stoppers : stopper[u] \notin {"draining", "waiting"}
               PROVE  /\ consumer = "exited"
                      /\ \A c \in Clients : pc[c] = "waiting" => done[own[c]] # "empty"
    BY DEF StopIsFinal
  <2>1. consumer = "exited"
    BY DEF Shape, StopOrder, ConsumerOrder
  <2>2. chan = <<>> /\ batch = <<>>
    BY <2>1 DEF Shape, StopOrder, ConsumerOrder
  <2>3. InFlight = {}
    BY <2>2, ToSetEmpty DEF InFlight
  <2> QED
    BY <2>1, <2>3 DEF Shape, NoAcceptedWriteLost
<1> QED
  BY <1>1, ShapeInvariant, PTL

-----------------------------------------------------------------------------
(* The second layer: who has been applied, told by where a request stands.  *)

NotYetCalled ==
  \A c \in Clients, n \in 1 .. MaxReq : n > count[c] =>
    outcome[<<c, n>>] = "none" /\ <<c, n>> \notin Applied

NotYetApplied ==
  /\ \A c \in Clients : pc[c] \in {"filled", "locked"} => Req(c) \notin Applied
  /\ \A s \in ToSet(chan) : content[s] \notin Applied
  /\ consumer \in {"collect", "apply", "applyAll"} =>
       \A s \in ToSet(batch) : content[s] \notin Applied
  /\ consumer = "answer" =>
       \A s \in ToSet(Tail(batch)) : content[s] \notin Applied

AnswersAreTruthful ==
  /\ consumer = "answer" => (content[batch[1]] \in Applied <=> err = "nil")
  /\ consumer = "answerAll" =>
       \A s \in ToSet(batch) : content[s] \in Applied <=> err = "nil"
  /\ \A c \in Clients : pc[c] = "waiting" /\ done[own[c]] # "empty" =>
       (Req(c) \in Applied <=> done[own[c]] = "nil")

OpenHasNoOutcome ==
  \A c \in Clients : pc[c] # "idle" => outcome[Req(c)] = "none"

Truth ==
  /\ NotYetCalled /\ NotYetApplied /\ AnswersAreTruthful
  /\ OpenHasNoOutcome /\ OutcomeIsTruthful

\* Nothing is applied and nobody answered.
LEMMA InitTruth == Init => Truth
<1> SUFFICES ASSUME Init PROVE Truth
  OBVIOUS
<1>1. Applied = {} /\ ToSet(chan) = {}
  BY ToSetEmpty DEF Init, Applied
<1>2. NotYetCalled /\ OpenHasNoOutcome /\ OutcomeIsTruthful
  BY <1>1 DEF Init, NotYetCalled, OpenHasNoOutcome, OutcomeIsTruthful, Requests,
              Refusals
<1>3. NotYetApplied /\ AnswersAreTruthful
  BY <1>1 DEF Init, NotYetApplied, AnswersAreTruthful
<1> QED
  BY <1>2, <1>3 DEF Truth

(* A shell in flight and its owner determine one another.                   *)
LEMMA OwnerOf ==
  ASSUME Shape, NEW s \in InFlight
  PROVE  \E c \in Clients :
           /\ pc[c] = "waiting" /\ own[c] = s /\ content[s] = Req(c)
           /\ \A d \in Clients : pc[d] # "idle" /\ own[d] = s => d = c
  BY DEF Shape, InFlightShellsAreOwned, CallsOwnShells

\* A request is in the op of its own caller and in no other.
LEMMA ContentDetermines ==
  ASSUME Shape, NEW s \in InFlight,
         NEW c \in Clients, pc[c] # "idle", content[s] = Req(c)
  PROVE  own[c] = s
<1>1. PICK d \in Clients : pc[d] = "waiting" /\ own[d] = s /\ content[s] = Req(d)
  BY OwnerOf
<1>2. c = d
  BY <1>1 DEF Req
<1> QED
  BY <1>1, <1>2

(* The shells of the channel and of the group, head and rest, are in flight. *)
LEMMA PartsInFlight ==
  ASSUME Shape
  PROVE  /\ ToSet(chan) \subseteq InFlight
         /\ ToSet(batch) \subseteq InFlight
         /\ consumer \notin {"receive", "exited"} =>
              /\ batch # <<>> /\ batch[1] = Head(batch)
              /\ ToSet(batch) = {batch[1]} \cup ToSet(Tail(batch))
              /\ batch[1] \notin ToSet(Tail(batch))
<1>1. /\ batch \in Seq(Shells) /\ IsInjective(batch)
      /\ consumer \notin {"receive", "exited"} => batch # <<>>
  BY DEF Shape, TypeOK, InFlightShellsAreOwned, ConsumerOrder
<1>2. batch # <<>> => batch[1] = Head(batch)
  BY <1>1, HeadTailProperties
<1> QED
  BY <1>1, <1>2, ToSetTail DEF InFlight

(* When nothing in flight changes and nothing is applied, only the caller's *)
(* own part of the invariant is at stake.                                   *)
LEMMA SameWork ==
  ASSUME Shape, Truth, UNCHANGED <<chan, applied, workVars>>,
         \A s \in InFlight : content'[s] = content[s]
  PROVE  /\ Applied' = Applied
         /\ \A s \in ToSet(chan') : content'[s] \notin Applied'
         /\ consumer' \in {"collect", "apply", "applyAll"} =>
              \A s \in ToSet(batch') : content'[s] \notin Applied'
         /\ consumer' = "answer" =>
              /\ \A s \in ToSet(Tail(batch')) : content'[s] \notin Applied'
              /\ content'[batch'[1]] \in Applied' <=> err' = "nil"
         /\ consumer' = "answerAll" =>
              \A s \in ToSet(batch') : content'[s] \in Applied' <=> err' = "nil"
  BY PartsInFlight
     DEF Truth, NotYetApplied, AnswersAreTruthful, Applied, workVars

\* A new request is not applied yet.
LEMMA AcquireTruth ==
  ASSUME Shape, Truth, NEW c \in Clients, Acquire(c)
  PROVE  Truth'
<1>1. PICK s \in Shells :
        /\ done[s] = "none"
        /\ own' = [own EXCEPT ![c] = s]
        /\ content' = [content EXCEPT ![s] = <<c, count[c] + 1>>]
        /\ done' = [done EXCEPT ![s] = "empty"]
  BY DEF Acquire, InPool
<1>2. /\ s \notin InFlight
      /\ \A d \in Clients : pc[d] # "idle" => own[d] # s
  BY <1>1 DEF Shape, InFlightShellsAreOwned, CallsOwnShells
<1>3. /\ count[c] + 1 \in 1 .. MaxReq /\ count[c] \in Nat
      /\ count' = [count EXCEPT ![c] = @ + 1]
      /\ pc' = [pc EXCEPT ![c] = "filled"]
      /\ UNCHANGED <<chan, sent, applied, outcome, workVars>>
  BY QueueAssumption DEF Acquire, Shape, TypeOK
<1>4. /\ outcome[<<c, count[c] + 1>>] = "none"
      /\ <<c, count[c] + 1>> \notin Applied
  BY <1>3 DEF Truth, NotYetCalled
<1>5. Applied' = Applied
  BY <1>3 DEF Applied
<1>6. /\ Req(c)' = <<c, count[c] + 1>>
      /\ \A d \in Clients : d # c => Req(d)' = Req(d) /\ own'[d] = own[d]
  BY <1>1, <1>3 DEF Req, Shape, TypeOK
<1>7. \A x \in InFlight : content'[x] = content[x]
  BY <1>1, <1>2 DEF Shape, TypeOK, InFlight
<1>8. NotYetCalled' /\ OutcomeIsTruthful'
  BY <1>3, <1>5 DEF Truth, NotYetCalled, OutcomeIsTruthful, Shape, TypeOK
<1>9. OpenHasNoOutcome'
  BY <1>3, <1>4, <1>6 DEF Truth, OpenHasNoOutcome, Shape, TypeOK
<1>10. \A d \in Clients : pc'[d] \in {"filled", "locked"} => Req(d)' \notin Applied'
  BY <1>3, <1>4, <1>5, <1>6 DEF Truth, NotYetApplied, Shape, TypeOK
<1>11. \A d \in Clients : pc'[d] = "waiting" =>
         d # c /\ pc[d] = "waiting" /\ done'[own'[d]] = done[own[d]]
  BY <1>1, <1>2, <1>3, <1>6 DEF Shape, TypeOK, CallsOwnShells
<1>12. NotYetApplied' /\ AnswersAreTruthful'
  BY <1>3, <1>5, <1>6, <1>7, <1>10, <1>11, SameWork
     DEF Truth, NotYetApplied, AnswersAreTruthful
<1> QED
  BY <1>8, <1>9, <1>12 DEF Truth

(* A call returns e, nil exactly when its request was applied.              *)
LEMMA ReleaseTruth ==
  ASSUME Shape, Truth, NEW c \in Clients, NEW e \in Results, Release(c, e),
         pc[c] # "idle", own[c] \notin InFlight,
         Req(c) \in Applied <=> e = "nil"
  PROVE  Truth'
<1>1. /\ own[c] \in Shells /\ Req(c) \in Requests
      /\ \A d \in Clients : d # c /\ pc[d] # "idle" => own[d] # own[c]
  BY DEF Shape, CallsOwnShells, Req, Requests
<1>2. /\ pc' = [pc EXCEPT ![c] = "idle"]
      /\ own' = [own EXCEPT ![c] = NoShell]
      /\ outcome' = [outcome EXCEPT ![Req(c)] = e]
      /\ \A s \in Shells \ {own[c]} : content'[s] = content[s] /\ done'[s] = done[s]
      /\ UNCHANGED <<count, chan, applied, workVars>>
  BY DEF Release, Shape, TypeOK
<1>3. \A d \in Clients : pc'[d] # "idle" =>
        /\ d # c /\ pc'[d] = pc[d] /\ own'[d] = own[d] /\ own[d] \in Shells
        /\ done'[own'[d]] = done[own[d]]
  BY <1>1, <1>2 DEF Shape, TypeOK, CallsOwnShells
<1>4. \A d \in Clients : Req(d)' = Req(d) /\ (d # c => Req(d) # Req(c))
  BY <1>2 DEF Req
<1>5. \A s \in InFlight : content'[s] = content[s]
  <2>1. InFlight \subseteq Shells
    BY ToSetSubset DEF Shape, TypeOK, InFlight
  <2> QED
    BY <1>2, <2>1
<1>6. Applied' = Applied
  BY <1>2 DEF Applied
<1>7. NotYetCalled'
  <2>1. \A d \in Clients, n \in 1 .. MaxReq : n > count[d] =>
          <<d, n>> # Req(c) /\ <<d, n>> \in Requests
    BY DEF Shape, TypeOK, Req, Requests
  <2> QED
    BY <1>2, <1>6, <2>1 DEF Truth, NotYetCalled, Shape, TypeOK
<1>8. OpenHasNoOutcome'
  <2>1. \A d \in Clients : pc[d] # "idle" => Req(d) \in Requests
    BY DEF Shape, CallsOwnShells, Req, Requests
  <2> QED
    BY <1>2, <1>3, <1>4, <2>1 DEF Truth, OpenHasNoOutcome, Shape, TypeOK
<1>9. OutcomeIsTruthful'
  BY <1>1, <1>2, <1>6
     DEF Truth, OutcomeIsTruthful, Shape, TypeOK, Results, Refusals
<1>10. NotYetApplied' /\ AnswersAreTruthful'
  BY <1>2, <1>3, <1>4, <1>5, <1>6, SameWork
     DEF Truth, NotYetApplied, AnswersAreTruthful
<1> QED
  BY <1>7, <1>8, <1>9, <1>10 DEF Truth

\* Callers pass on the answer that they were given.
LEMMA ClientTruth ==
  ASSUME Shape, Truth, NEW c \in Clients, ClientStep(c)
  PROVE  Truth'
<1>1. CASE Acquire(c)
  BY <1>1, AcquireTruth
<1>2. pc[c] \in {"filled", "locked"} => Req(c) \notin Applied
  BY DEF Truth, NotYetApplied
<1>3. CASE SubmitRefused(c)
  BY <1>2, <1>3, ReleaseTruth, NotInFlight DEF SubmitRefused, Results, Refusals
<1>5. CASE SendFull(c)
  BY <1>2, <1>5, ReleaseTruth, NotInFlight DEF SendFull, Results, Refusals
<1>6. CASE Await(c)
  <2>1. done[own[c]] \in Results /\ done[own[c]] # "empty"
    BY <1>6 DEF Await, Results, Refusals
  <2>2. Req(c) \in Applied <=> done[own[c]] = "nil"
    BY <1>6, <2>1 DEF Await, Truth, AnswersAreTruthful
  <2> QED
    BY <1>6, <2>1, <2>2, ReleaseTruth, NotInFlight DEF Await
<1>7. CASE SubmitChecked(c)
  <2>1. /\ UNCHANGED <<count, own, content, done, chan, applied, outcome, workVars>>
        /\ \A d \in Clients : \/ pc'[d] = pc[d]
                              \/ pc[d] = "filled" /\ pc'[d] = "locked"
    BY <1>7 DEF SubmitChecked, Shape, TypeOK, flowVars
  <2> QED
    BY <2>1, SameWork
       DEF Truth, NotYetCalled, NotYetApplied, AnswersAreTruthful,
           OpenHasNoOutcome, OutcomeIsTruthful, Applied, Req
<1>8. CASE Send(c)
  <2>1. /\ UNCHANGED <<count, own, content, done, applied, outcome, workVars>>
        /\ \A d \in Clients : IF d = c THEN pc'[d] = "waiting" ELSE pc'[d] = pc[d]
        /\ pc[c] = "locked" /\ chan' = Append(chan, own[c])
    BY <1>8 DEF Send, Shape, TypeOK, HasRoom
  <2>2. /\ content[own[c]] = Req(c) /\ own[c] \in Shells
        /\ done[own[c]] = "empty"
    BY <2>1 DEF Shape, CallsOwnShells
  <2>3. ToSet(chan') = ToSet(chan) \cup {own[c]}
    BY <2>1, <2>2, ToSetAppend DEF Shape, TypeOK
  <2>4. NotYetCalled' /\ OpenHasNoOutcome' /\ OutcomeIsTruthful'
    BY <2>1 DEF Truth, NotYetCalled, OpenHasNoOutcome, OutcomeIsTruthful, Applied,
                Req
  <2>5. NotYetApplied'
    BY <1>2, <2>1, <2>2, <2>3 DEF Truth, NotYetApplied, Applied, Req, workVars
  <2>6. AnswersAreTruthful'
    BY <2>1, <2>2 DEF Truth, AnswersAreTruthful, Applied, Req, workVars
  <2> QED
    BY <2>4, <2>5, <2>6 DEF Truth
<1> QED
  BY <1>1, <1>3, <1>5, <1>6, <1>7, <1>8 DEF ClientStep

\* What Stop drains was not applied, and is told so.
LEMMA StopperTruth ==
  ASSUME Shape, Truth, NEW t \in Stoppers, StopperStep(t)
  PROVE  Truth'
<1> USE DEF clientVars, workVars
<1>1. CASE StopDrain(t)
  <2> DEFINE s == Head(chan)
  <2>1. /\ UNCHANGED <<pc, count, own, content, batch, consumer, err, applied, outcome>>
        /\ done' = [done EXCEPT ![s] = "ErrStopped"]
        /\ chan' = Tail(chan) /\ chan # <<>>
    BY <1>1 DEF StopDrain, Drained
  <2>2. s \in Shells /\ s \in ToSet(chan) /\ ToSet(chan') \subseteq ToSet(chan)
    BY <2>1, ToSetTail DEF Shape, TypeOK
  <2>3. content[s] \notin Applied /\ s \in InFlight
    BY <2>2 DEF Truth, NotYetApplied, InFlight
  <2>4. PICK c \in Clients :
          /\ content[s] = Req(c)
          /\ \A d \in Clients : pc[d] # "idle" /\ own[d] = s => d = c
    BY <2>3, OwnerOf
  <2>5. \A d \in Clients : pc[d] = "waiting" /\ own[d] # s =>
          done'[own'[d]] = done[own[d]]
    BY <2>1, <2>2 DEF Shape, TypeOK, CallsOwnShells
  <2>6. AnswersAreTruthful'
    <3>1. ASSUME NEW d \in Clients, pc[d] = "waiting", own[d] = s
          PROVE  Req(d)' \notin Applied' /\ done'[own'[d]] = "ErrStopped"
      BY <3>1, <2>1, <2>2, <2>3, <2>4 DEF Applied, Req, Shape, TypeOK
    <3> QED
      BY <2>1, <2>5, <3>1 DEF Truth, AnswersAreTruthful, Applied, Req
  <2>7. /\ NotYetCalled' /\ NotYetApplied' /\ OpenHasNoOutcome'
        /\ OutcomeIsTruthful'
    BY <2>1, <2>2 DEF Truth, NotYetCalled, NotYetApplied, OpenHasNoOutcome,
                      OutcomeIsTruthful, Applied, Req
  <2> QED
    BY <2>6, <2>7 DEF Truth
<1>2. CASE StopCall(t) \/ StopClaim(t) \/ StopLock(t) \/ StopClose(t) \/ StopWait(t)
  <2>1. UNCHANGED <<clientVars, done, chan, workVars, applied>>
    BY <1>2
       DEF StopCall, StopClaim, StopLock, StopClose, StopWait, flowVars,
           LockFreed, AllGone
  <2> QED
    BY <2>1 DEF Truth, NotYetCalled, NotYetApplied, AnswersAreTruthful,
                OpenHasNoOutcome, OutcomeIsTruthful, Applied, Req
<1> QED
  BY <1>1, <1>2 DEF StopperStep

(* The consumer goes from one phase to the next without applying anything.  *)
LEMMA ReceiveTruth ==
  ASSUME Shape, Truth,
         Receive \/ Collect \/ ReceiveClosed \/ CollectEnd
  PROVE  Truth'
<1> USE DEF clientVars
<1>1. /\ UNCHANGED <<clientVars, done, err, applied>>
      /\ Applied' = Applied
      /\ \A c \in Clients : Req(c)' = Req(c)
  BY
     DEF Receive, Collect, ReceiveClosed, CollectEnd, Applied, Req, Joined,
         flowVars, AfterClose
<1>2. /\ ToSet(chan') \subseteq ToSet(chan)
      /\ ToSet(batch') \subseteq ToSet(batch) \cup ToSet(chan)
      /\ ToSet(batch') # ToSet(batch) => consumer \in {"receive", "collect"}
  <2>1. CASE Receive \/ Collect
    <3>1. batch' = Append(batch, Head(chan)) /\ chan # <<>> /\ chan' = Tail(chan)
      <4>1. CASE Receive
        <5>1. batch = <<>> /\ batch' = <<Head(chan)>>
          BY <4>1 DEF Receive, Shape, ConsumerOrder
        <5> QED
          BY <4>1, <5>1 DEF Receive
      <4>2. CASE Collect
        BY <4>2 DEF Collect, Joined
      <4> QED
        BY <2>1, <4>1, <4>2
    <3> QED
      BY <2>1, <3>1, ToSetTail, ToSetAppend
         DEF Shape, TypeOK, Receive, Collect, Joined
  <2>2. CASE ReceiveClosed \/ CollectEnd
    BY <2>2 DEF ReceiveClosed, CollectEnd, flowVars, AfterClose
  <2> QED
    BY <2>1, <2>2
<1>3. /\ consumer = "receive" => batch = <<>> /\ ToSet(batch) = {}
      /\ consumer \in {"receive", "collect"}
      /\ consumer' \in {"collect", "exited", "apply", "applyAll"}
  BY ToSetEmpty
     DEF Receive, Collect, ReceiveClosed, CollectEnd, Shape, ConsumerOrder,
         Joined, flowVars, AfterClose
<1>4. \A s \in ToSet(batch) \cup ToSet(chan) : content[s] \notin Applied
  BY <1>3 DEF Truth, NotYetApplied
<1>5. NotYetApplied' /\ AnswersAreTruthful'
  BY <1>1, <1>2, <1>3, <1>4 DEF Truth, NotYetApplied, AnswersAreTruthful
<1>6. NotYetCalled' /\ OpenHasNoOutcome' /\ OutcomeIsTruthful'
  BY <1>1 DEF Truth, NotYetCalled, OpenHasNoOutcome, OutcomeIsTruthful
<1> QED
  BY <1>5, <1>6 DEF Truth

(* The requests of `group`, a set of shells the consumer holds, are applied *)
(* and nothing else changes but the consumer's phase.                       *)
LEMMA AppliedGrows ==
  ASSUME Shape, Truth, NEW group \in SUBSET ToSet(batch),
         UNCHANGED <<clientVars, done, chan, batch>>,
         Applied' = Applied \cup {content[s] : s \in group}
  PROVE  /\ NotYetCalled' /\ OpenHasNoOutcome' /\ OutcomeIsTruthful'
         /\ \A c \in Clients : pc[c] # "idle" /\ own[c] \notin group =>
              (Req(c)' \in Applied' <=> Req(c) \in Applied)
         /\ \A s \in InFlight \ group :
              content[s] \in Applied' <=> content[s] \in Applied
<1> USE DEF clientVars
<1>1. \A s \in group : s \in InFlight
  BY PartsInFlight
<1>2. ASSUME NEW s \in group
      PROVE  \E c \in Clients : pc[c] = "waiting" /\ own[c] = s /\ content[s] = Req(c)
  BY <1>1, <1>2, OwnerOf
<1>3. NotYetCalled'
  BY <1>2 DEF Truth, NotYetCalled, Req, Shape, TypeOK
<1>4. OpenHasNoOutcome'
  BY DEF Truth, OpenHasNoOutcome, Req
<1>5. OutcomeIsTruthful'
  BY <1>2 DEF Truth, OutcomeIsTruthful, OpenHasNoOutcome, Refusals
<1>6. \A c \in Clients : pc[c] # "idle" /\ own[c] \notin group =>
        (Req(c)' \in Applied' <=> Req(c) \in Applied)
  BY <1>1, ContentDetermines DEF Req
<1>7. ASSUME NEW s \in InFlight \ group
      PROVE  content[s] \in Applied' <=> content[s] \in Applied
  <2>1. PICK c \in Clients : pc[c] = "waiting" /\ own[c] = s /\ content[s] = Req(c)
    BY OwnerOf
  <2>2. \A x \in group : content[x] # Req(c)
    BY <1>1, <2>1, ContentDetermines
  <2> QED
    BY <2>1, <2>2
<1> QED
  BY <1>3, <1>4, <1>5, <1>6, <1>7

(* What ApplyOne and ApplyAll add to the applied requests.                  *)
LEMMA AppliedOne ==
  ASSUME Shape, NEW s \in InFlight, applied' = Append(applied, content[s])
  PROVE  Applied' = Applied \cup {content[s]}
<1>1. content[s] \in Requests
  <2>1. PICK c \in Clients : pc[c] = "waiting" /\ content[s] = Req(c)
    BY OwnerOf
  <2> QED
    BY <2>1 DEF Shape, CallsOwnShells, Req, Requests
<1>2. applied \in Seq(Requests)
  BY DEF Shape, TypeOK
<1>3. ToSet(Append(applied, content[s])) = ToSet(applied) \cup {content[s]}
  BY <1>1, <1>2, ToSetAppend
<1> QED
  BY <1>3 DEF Applied

\* A group that is applied adds the requests in it, and no others.
LEMMA AppliedGroup ==
  ASSUME Shape,
         applied' = applied \o [i \in 1 .. Len(batch) |-> content[batch[i]]]
  PROVE  Applied' = Applied \cup {content[s] : s \in ToSet(batch)}
<1> DEFINE group == [i \in 1 .. Len(batch) |-> content[batch[i]]]
<1>1. group \in Seq(Requests) /\ applied \in Seq(Requests)
  BY GroupContent DEF Shape, TypeOK
<1>2. DOMAIN batch = 1 .. Len(batch)
  BY LenProperties DEF Shape, TypeOK
<1>3. ToSet(group) = {content[s] : s \in ToSet(batch)}
  BY <1>2 DEF ToSet
<1>4. Applied' = Applied \cup ToSet(group)
  BY <1>1, ToSetConcat DEF Applied
<1> QED
  BY <1>3, <1>4

\* The error the consumer keeps tells what was applied.
LEMMA ApplyTruth ==
  ASSUME Shape, Truth, ApplyOne \/ ApplyAll
  PROVE  Truth'
<1> USE DEF clientVars
<1>1. /\ UNCHANGED <<clientVars, done, chan, batch>>
      /\ consumer \in {"apply", "applyAll"}
      /\ consumer' = IF consumer = "apply" THEN "answer" ELSE "answerAll"
  BY DEF ApplyOne, ApplyAll, LeftByFail
<1>2. /\ batch[1] \in ToSet(batch) /\ batch[1] \in InFlight
      /\ ToSet(chan) \subseteq InFlight /\ ToSet(batch) \subseteq InFlight
      /\ ToSet(Tail(batch)) \subseteq ToSet(batch)
      /\ batch[1] \notin ToSet(Tail(batch))
      /\ ToSet(chan) \cap ToSet(batch) = {}
  BY <1>1, PartsInFlight DEF Shape, InFlightShellsAreOwned
<1>3. \A s \in ToSet(batch) \cup ToSet(chan) : content[s] \notin Applied
  BY <1>1 DEF Truth, NotYetApplied
<1>4. CASE err' = "fail"
  <2>1. Applied' = Applied
    BY <1>4 DEF ApplyOne, ApplyAll, Applied, LeftByFail
  <2>2. NotYetApplied' /\ AnswersAreTruthful'
    BY <1>1, <1>2, <1>3, <1>4, <2>1
       DEF Truth, NotYetApplied, AnswersAreTruthful, Req
  <2>3. NotYetCalled' /\ OpenHasNoOutcome' /\ OutcomeIsTruthful'
    BY <1>1, <2>1 DEF Truth, NotYetCalled, OpenHasNoOutcome, OutcomeIsTruthful, Req
  <2> QED
    BY <2>2, <2>3 DEF Truth
<1>5. CASE err' = "nil"
  <2> DEFINE group == IF consumer = "apply" THEN {batch[1]} ELSE ToSet(batch)
  <2>1. Applied' = Applied \cup {content[s] : s \in group}
    <3>1. CASE ApplyOne
      <4>1. applied' = Append(applied, content[batch[1]]) /\ consumer = "apply"
        BY <1>5, <3>1 DEF ApplyOne
      <4> QED
        BY <4>1, <1>2, AppliedOne
    <3>2. CASE ApplyAll
      <4>1. /\ applied' = applied \o [i \in 1 .. Len(batch) |-> content[batch[i]]]
            /\ consumer # "apply"
        BY <1>5, <3>2 DEF ApplyAll, LeftByFail
      <4> QED
        BY <4>1, AppliedGroup
    <3> QED
      BY <3>1, <3>2
  <2>2. group \in SUBSET ToSet(batch)
    BY <1>2
  <2>3. /\ NotYetCalled' /\ OpenHasNoOutcome' /\ OutcomeIsTruthful'
        /\ \A c \in Clients : pc[c] # "idle" /\ own[c] \notin group =>
             (Req(c)' \in Applied' <=> Req(c) \in Applied)
        /\ \A s \in InFlight \ group :
             content[s] \in Applied' <=> content[s] \in Applied
    BY <1>1, <2>1, <2>2, AppliedGrows
  <2>4. \A c \in Clients : pc[c] # "idle" /\ own[c] \in group =>
          pc[c] = "waiting" /\ done[own[c]] = "empty"
    BY <1>2, <2>2, NotInFlight
  <2>5. NotYetApplied'
    BY <1>1, <1>2, <1>3, <2>2, <2>3, <2>4 DEF Truth, NotYetApplied
  <2>6. AnswersAreTruthful'
    BY <1>1, <1>5, <2>1, <2>3, <2>4 DEF Truth, AnswersAreTruthful
  <2> QED
    BY <2>3, <2>5, <2>6 DEF Truth
<1> QED
  BY <1>4, <1>5 DEF ApplyOne, ApplyAll, LeftByFail

\* It is the answer to every op of the group.
LEMMA AnswerTruth ==
  ASSUME Shape, Truth, Answer
  PROVE  Truth'
<1> USE DEF clientVars
<1> DEFINE s == batch[1]
<1>1. /\ UNCHANGED <<clientVars, chan, applied>>
      /\ consumer \in {"answer", "answerAll"}
      /\ done' = [done EXCEPT ![s] = err]
      /\ batch' = Tail(batch)
      /\ Applied' = Applied
  BY DEF Answer, Applied, Reply, NextOfGroup
<1>2. /\ ToSet(batch) = {s} \cup ToSet(batch') /\ s \notin ToSet(batch')
      /\ s \in InFlight /\ s \in Shells
  <2>1. s \in ToSet(batch) /\ ToSet(batch) \subseteq Shells
    BY <1>1, PartsInFlight, ToSetSubset DEF Shape, TypeOK
  <2> QED
    BY <1>1, <2>1, PartsInFlight
<1>3. content[s] \in Applied <=> err = "nil"
  BY <1>1, <1>2 DEF Truth, AnswersAreTruthful
<1>4. PICK c \in Clients :
        /\ content[s] = Req(c)
        /\ \A d \in Clients : pc[d] # "idle" /\ own[d] = s => d = c
  BY <1>2, OwnerOf
<1>5. \A d \in Clients : Req(d)' = Req(d)
  BY <1>1 DEF Req
<1>6. \A d \in Clients : pc[d] = "waiting" =>
        IF own[d] = s THEN d = c /\ done'[own'[d]] = err
                      ELSE done'[own'[d]] = done[own[d]]
  BY <1>1, <1>2, <1>4 DEF Shape, TypeOK, CallsOwnShells
<1>7. \A d \in Clients : pc'[d] = "waiting" /\ done'[own'[d]] # "empty" =>
          (Req(d)' \in Applied' <=> done'[own'[d]] = "nil")
  <2> SUFFICES ASSUME NEW d \in Clients, pc[d] = "waiting",
                      done'[own'[d]] # "empty"
               PROVE  Req(d) \in Applied <=> done'[own'[d]] = "nil"
    BY <1>1, <1>5
  <2>1. CASE own[d] = s
    BY <2>1, <1>3, <1>4, <1>6
  <2>2. CASE own[d] # s
    BY <2>2, <1>6 DEF Truth, AnswersAreTruthful
  <2> QED
    BY <2>1, <2>2
<1>8. consumer' \in {"apply", "answerAll", "exited", "receive"}
  BY DEF Answer, Reply, NextOfGroup
<1>9. AnswersAreTruthful'
  <2>1. consumer' = "answerAll" => consumer = "answerAll" /\ err' = err
    BY DEF Answer, Reply, NextOfGroup
  <2>2. consumer' = "answerAll" =>
          \A x \in ToSet(batch') : content'[x] \in Applied' <=> err' = "nil"
    BY <1>1, <1>2, <2>1 DEF Truth, AnswersAreTruthful
  <2> QED
    BY <1>7, <1>8, <2>2 DEF AnswersAreTruthful
<1>10. NotYetApplied'
  <2>1. consumer' = "apply" => consumer = "answer"
    BY DEF Answer, Reply, NextOfGroup
  <2> QED
    BY <1>1, <1>5, <1>8, <2>1 DEF Truth, NotYetApplied
<1>11. NotYetCalled' /\ OpenHasNoOutcome' /\ OutcomeIsTruthful'
  BY <1>1, <1>5 DEF Truth, NotYetCalled, OpenHasNoOutcome, OutcomeIsTruthful
<1> QED
  BY <1>9, <1>10, <1>11 DEF Truth

\* Every step keeps the truth.
LEMMA NextTruth == Shape /\ Truth /\ [Next]_vars => Truth'
<1> SUFFICES ASSUME Shape, Truth, [Next]_vars PROVE Truth'
  OBVIOUS
<1>1. CASE UNCHANGED vars
  BY <1>1 DEF vars, Truth, NotYetCalled, NotYetApplied, AnswersAreTruthful,
              OpenHasNoOutcome, OutcomeIsTruthful, Applied, Req
<1>2. CASE ConsumerStep
  BY <1>2, ReceiveTruth, ApplyTruth, AnswerTruth DEF ConsumerStep
<1>3. CASE MonitorTick \/ MonitorExit
  <2>1. UNCHANGED <<clientVars, done, chan, workVars, applied>>
    BY <1>3 DEF MonitorTick, MonitorExit, flowVars
  <2> QED
    BY <2>1 DEF clientVars, workVars, Truth, NotYetCalled, NotYetApplied,
         AnswersAreTruthful, OpenHasNoOutcome, OutcomeIsTruthful, Applied, Req
<1> QED
  BY <1>1, <1>2, <1>3, ClientTruth, StopperTruth DEF Next

\* Shape and truth hold in every execution.
LEMMA TruthInvariant == Spec => [](Shape /\ Truth)
  BY InitShape, NextShape, InitTruth, NextTruth, PTL DEF Spec

(* db.go:326-333: a caller is told nil exactly when its write was applied,  *)
(* and a write that was refused, drained or failed is never applied.        *)
THEOREM OutcomesAreTruthful == Spec => []OutcomeIsTruthful
<1>1. Truth => OutcomeIsTruthful
  BY DEF Truth
<1> QED
  BY <1>1, TruthInvariant, PTL

-----------------------------------------------------------------------------
(* The third layer: writes are applied in the order they were sent.         *)

(* Request a was sent before request b, as far as both were sent.           *)
Earlier(a, b) ==
  \A m, n \in DOMAIN sent : sent[m] = a /\ sent[n] = b => m < n

(* A request is sent once.                                                  *)
NotYetSent ==
  /\ \A c \in Clients, n \in 1 .. MaxReq :
       n > count[c] => <<c, n>> \notin ToSet(sent)
  /\ \A c \in Clients : pc[c] \in {"filled", "locked"} => Req(c) \notin ToSet(sent)

InLine(q) ==
  \A i, j \in DOMAIN q : i < j => Earlier(content[q[i]], content[q[j]])

(* The group was sent before the channel's ops, each in its own order.      *)
LineInOrder ==
  /\ InLine(batch) /\ InLine(chan)
  /\ \A s \in ToSet(batch), t \in ToSet(chan) : Earlier(content[s], content[t])

(* Whatever is in flight or applied was sent.                               *)
AllSent ==
  /\ \A s \in InFlight : content[s] \in ToSet(sent)
  /\ Applied \subseteq ToSet(sent)

(* What has been applied was sent before all that may still be.             *)
AppliedFirst ==
  \A a \in Applied :
    /\ \A s \in ToSet(chan) : Earlier(a, content[s])
    /\ consumer \in {"collect", "apply", "applyAll"} =>
         \A s \in ToSet(batch) : Earlier(a, content[s])
    /\ consumer = "answer" =>
         \A s \in ToSet(Tail(batch)) : Earlier(a, content[s])

Order ==
  NotYetSent /\ AllSent /\ LineInOrder /\ AppliedFirst /\ AppliedInOrder

-----------------------------------------------------------------------------
\* An empty line is in order.
LEMMA InitOrder == Init => Order
<1> SUFFICES ASSUME Init PROVE Order
  OBVIOUS
<1>1. /\ ToSet(chan) = {} /\ ToSet(batch) = {} /\ ToSet(sent) = {} /\ Applied = {}
      /\ DOMAIN chan = {} /\ DOMAIN batch = {} /\ DOMAIN applied = {}
  BY ToSetEmpty DEF Init, Applied
<1> QED
  BY <1>1 DEF Order, NotYetSent, AllSent, InFlight, LineInOrder, InLine,
              AppliedFirst, AppliedInOrder

\* The tail of a line is in order, and behind its head.
LEMMA InLineTail ==
  ASSUME NEW q \in Seq(Shells), q # <<>>, InLine(q)
  PROVE  /\ InLine(Tail(q))
         /\ \A s \in ToSet(Tail(q)) : Earlier(content[Head(q)], content[s])
<1>1. /\ Len(q) \in Nat /\ DOMAIN q = 1 .. Len(q) /\ 1 \in DOMAIN q
      /\ Head(q) = q[1]
      /\ DOMAIN Tail(q) = 1 .. Len(q) - 1
      /\ \A i \in 1 .. Len(q) - 1 : Tail(q)[i] = q[i + 1]
  BY ToSetTail, HeadTailProperties, LenProperties, EmptySeq
<1>2. \A i \in DOMAIN Tail(q) : i + 1 \in DOMAIN q /\ 1 < i + 1 /\ i \in Int
  BY <1>1
<1>3. InLine(Tail(q))
  BY <1>1, <1>2 DEF InLine
<1>4. ASSUME NEW s \in ToSet(Tail(q)) PROVE Earlier(content[Head(q)], content[s])
  <2>1. PICK i \in DOMAIN Tail(q) : s = Tail(q)[i]
    BY <1>4 DEF ToSet
  <2> QED
    BY <2>1, <1>1, <1>2 DEF InLine
<1> QED
  BY <1>3, <1>4

\* A line with a later op behind it is in order.
LEMMA InLineAppend ==
  ASSUME NEW q \in Seq(Shells), NEW s \in Shells, InLine(q),
         \A x \in ToSet(q) : Earlier(content[x], content[s])
  PROVE  InLine(Append(q, s))
<1>1. /\ Len(q) \in Nat /\ DOMAIN q = 1 .. Len(q)
      /\ DOMAIN Append(q, s) = 1 .. Len(q) + 1
      /\ \A i \in 1 .. Len(q) : Append(q, s)[i] = q[i]
      /\ Append(q, s)[Len(q) + 1] = s
  BY AppendProperties, LenProperties
<1>2. \A i \in DOMAIN q : q[i] \in ToSet(q)
  BY DEF ToSet
<1>3. SUFFICES ASSUME NEW i \in DOMAIN Append(q, s), NEW j \in DOMAIN Append(q, s),
                      i < j
               PROVE  Earlier(content[Append(q, s)[i]], content[Append(q, s)[j]])
  BY DEF InLine
<1>4. i \in DOMAIN q
  BY <1>1, <1>3
<1>5. CASE j \in DOMAIN q
  BY <1>1, <1>3, <1>4, <1>5 DEF InLine
<1>6. CASE j = Len(q) + 1
  BY <1>1, <1>2, <1>4, <1>6
<1> QED
  BY <1>1, <1>5, <1>6

(* When nothing is sent and what is in flight keeps its contents, the order *)
(* of the line stays.                                                       *)
LEMMA SameLine ==
  ASSUME Shape, LineInOrder, UNCHANGED <<sent, chan, batch>>,
         \A s \in InFlight : content'[s] = content[s]
  PROVE  LineInOrder'
<1>1. /\ \A i \in DOMAIN chan : chan[i] \in InFlight
      /\ \A i \in DOMAIN batch : batch[i] \in InFlight
      /\ ToSet(chan) \subseteq InFlight /\ ToSet(batch) \subseteq InFlight
  BY DEF InFlight, ToSet
<1> QED
  BY <1>1 DEF LineInOrder, InLine, Earlier

\* Order lasts while neither the log nor the ops in flight change.
LEMMA SameApplied ==
  ASSUME Shape, AppliedFirst, AppliedInOrder,
         UNCHANGED <<sent, applied, chan, workVars>>,
         \A s \in InFlight : content'[s] = content[s]
  PROVE  AppliedFirst' /\ AppliedInOrder'
<1>1. /\ ToSet(chan) \subseteq InFlight /\ ToSet(batch) \subseteq InFlight
      /\ consumer = "answer" => ToSet(Tail(batch)) \subseteq InFlight
  BY PartsInFlight
<1> QED
  BY <1>1 DEF AppliedFirst, AppliedInOrder, Applied, Earlier, workVars

(* A step that sends and applies nothing and moves nothing in the line.     *)
LEMMA StillOrder ==
  ASSUME Shape, Order, NotYetSent',
         UNCHANGED <<sent, applied, chan, workVars>>,
         \A s \in InFlight : content'[s] = content[s]
  PROVE  Order'
<1>1. LineInOrder' /\ AppliedFirst' /\ AppliedInOrder'
  BY SameLine, SameApplied DEF Order, workVars
<1>2. InFlight' = InFlight
  BY DEF InFlight, workVars
<1>3. AllSent'
  BY <1>2 DEF Order, AllSent, Applied
<1> QED
  BY <1>1, <1>3 DEF Order

\* The steps of a caller other than Send leave the line alone.
LEMMA CallerOrder ==
  ASSUME Shape, Order, NEW c \in Clients, ClientStep(c), ~Send(c)
  PROVE  Order'
<1>1. CASE Acquire(c)
  <2>1. PICK s \in Shells :
          /\ done[s] = "none"
          /\ content' = [content EXCEPT ![s] = <<c, count[c] + 1>>]
    BY <1>1 DEF Acquire, InPool
  <2>2. s \notin InFlight
    BY <2>1 DEF Shape, InFlightShellsAreOwned
  <2>3. \A x \in InFlight : content'[x] = content[x]
    BY <2>1, <2>2 DEF Shape, TypeOK
  <2>4. count[c] + 1 \in 1 .. MaxReq /\ count[c] \in Nat /\ count[c] + 1 > count[c]
    BY <1>1, QueueAssumption DEF Acquire, Shape, TypeOK
  <2>5. <<c, count[c] + 1>> \notin ToSet(sent)
    BY <2>4 DEF Order, NotYetSent
  <2>6. /\ count' = [count EXCEPT ![c] = @ + 1] /\ pc' = [pc EXCEPT ![c] = "filled"]
        /\ sent' = sent /\ \A d \in Clients : count[d] \in Nat
    BY <1>1, QueueAssumption DEF Acquire, Shape, TypeOK
  <2>7. NotYetSent'
    <3>1. ASSUME NEW d \in Clients, NEW n \in 1 .. MaxReq, n > count'[d]
          PROVE  <<d, n>> \notin ToSet(sent)
      <4>1. n > count[d]
        BY <2>6, <3>1 DEF Shape, TypeOK
      <4> QED
        BY <4>1 DEF Order, NotYetSent
    <3>2. ASSUME NEW d \in Clients, pc'[d] \in {"filled", "locked"}
          PROVE  <<d, count'[d]>> \notin ToSet(sent)
      BY <2>5, <2>6, <3>2 DEF Shape, TypeOK, Order, NotYetSent, Req
    <3> QED
      BY <2>6, <3>1, <3>2 DEF NotYetSent, Req
  <2> QED
    BY <1>1, <2>3, <2>7, StillOrder DEF Acquire
<1>2. ASSUME NEW e, Release(c, e), own[c] \notin InFlight, pc[c] # "idle"
      PROVE  Order'
  <2>1. \A x \in InFlight : content'[x] = content[x]
    BY <1>2 DEF Release, Shape, TypeOK, InFlight
  <2>2. NotYetSent'
    BY <1>2 DEF Release, Shape, TypeOK, Order, NotYetSent, Req
  <2> QED
    BY <1>2, <2>1, <2>2, StillOrder DEF Release
<1>3. CASE SubmitRefused(c)
  BY <1>2, <1>3, NotInFlight DEF SubmitRefused
<1>4. CASE SendFull(c)
  BY <1>2, <1>4, NotInFlight DEF SendFull
<1>5. CASE Await(c)
  <2>1. done[own[c]] # "empty" /\ pc[c] # "idle"
    BY <1>5 DEF Await, Results, Refusals
  <2> QED
    BY <1>2, <1>5, <2>1, NotInFlight DEF Await
<1>6. CASE SubmitChecked(c)
  <2>1. NotYetSent'
    BY <1>6 DEF SubmitChecked, Shape, TypeOK, Order, NotYetSent, Req, flowVars
  <2> QED
    BY <1>6, <2>1, StillOrder DEF SubmitChecked, flowVars
<1> QED
  BY <1>1, <1>3, <1>4, <1>5, <1>6 DEF ClientStep

(* The new request comes after all that were sent, whose order stays.       *)
LEMMA SentGrows ==
  ASSUME NEW r \in Requests, sent \in Seq(Requests), r \notin ToSet(sent),
         sent' = Append(sent, r)
  PROVE  /\ ToSet(sent') = ToSet(sent) \cup {r}
         /\ \A a, b \in ToSet(sent) : Earlier(a, b) => Earlier(a, b)'
         /\ \A a \in ToSet(sent) : Earlier(a, r)'
<1>1. /\ Len(sent) \in Nat /\ DOMAIN sent = 1 .. Len(sent)
      /\ DOMAIN sent' = 1 .. Len(sent) + 1
      /\ \A i \in 1 .. Len(sent) : sent'[i] = sent[i]
      /\ sent'[Len(sent) + 1] = r
  BY AppendProperties, LenProperties
<1>2. ToSet(sent') = ToSet(sent) \cup {r}
  BY ToSetAppend
<1>3. \A a \in ToSet(sent), m \in DOMAIN sent' : sent'[m] = a => m \in DOMAIN sent
  BY <1>1
<1>4. ASSUME NEW a \in ToSet(sent), NEW b \in ToSet(sent), Earlier(a, b)
      PROVE  Earlier(a, b)'
  BY <1>1, <1>3, <1>4 DEF Earlier
<1>5. \A i \in DOMAIN sent : sent[i] # r
  BY DEF ToSet
<1>6. \A n \in DOMAIN sent' : sent'[n] = r => n = Len(sent) + 1
  BY <1>1, <1>5
<1>7. \A a \in ToSet(sent) : Earlier(a, r)'
  BY <1>1, <1>3, <1>6 DEF Earlier
<1> QED
  BY <1>2, <1>4, <1>7

\* What is sent is behind all that was sent.
LEMMA SendOrder ==
  ASSUME Shape, Order, NEW c \in Clients, Send(c)
  PROVE  Order'
<1> DEFINE s == own[c]
<1>0. PICK r : r = Req(c)
  OBVIOUS
<1>1. /\ s \in Shells /\ s \notin InFlight /\ content[s] = r /\ r \in Requests
      /\ r \notin ToSet(sent)
  BY <1>0, NotInFlight
     DEF Send, Shape, CallsOwnShells, Req, Requests, Order, NotYetSent
<1>2. /\ chan \in Seq(Shells) /\ batch \in Seq(Shells) /\ sent \in Seq(Requests)
      /\ ToSet(chan) \subseteq InFlight /\ ToSet(batch) \subseteq InFlight
      /\ consumer = "answer" => ToSet(Tail(batch)) \subseteq InFlight
  BY PartsInFlight DEF Shape, TypeOK
<1>3. /\ sent' = Append(sent, r) /\ chan' = Append(chan, s)
      /\ UNCHANGED <<count, content, applied, consumer, batch>>
      /\ pc' = [pc EXCEPT ![c] = "waiting"]
  BY <1>1 DEF Send, workVars
<1>4. /\ ToSet(sent') = ToSet(sent) \cup {r}
      /\ \A a, b \in ToSet(sent) : Earlier(a, b) => Earlier(a, b)'
      /\ \A a \in ToSet(sent) : Earlier(a, r)'
  BY <1>1, <1>2, <1>3, SentGrows
<1>5. ToSet(chan') = ToSet(chan) \cup {s}
  BY <1>1, <1>2, <1>3, ToSetAppend
<1>6. /\ \A x \in InFlight : content[x] \in ToSet(sent)
      /\ Applied \subseteq ToSet(sent) /\ Applied' = Applied
  BY <1>3 DEF Order, AllSent, Applied
<1>7. NotYetSent'
  <2>1. \A d \in Clients, n \in 1 .. MaxReq : n > count[d] => <<d, n>> # r
    BY <1>0 DEF Shape, TypeOK, Req
  <2>2. \A d \in Clients : d # c => Req(d) # r
    BY <1>0 DEF Req
  <2>3. \A d \in Clients : pc'[d] \in {"filled", "locked"} => d # c /\ pc[d] = pc'[d]
    BY <1>3 DEF Shape, TypeOK
  <2> QED
    BY <1>3, <1>4, <2>1, <2>2, <2>3 DEF Order, NotYetSent, Req
<1>8. AllSent'
  <2>1. InFlight' = InFlight \cup {s}
    BY <1>3, <1>5 DEF InFlight
  <2> QED
    BY <2>1, <1>1, <1>3, <1>4, <1>6 DEF AllSent
<1>9. LineInOrder'
  <2>1. InLine(batch)'
    <3>1. \A i \in DOMAIN batch : content[batch[i]] \in ToSet(sent)
      BY <1>2, <1>6 DEF ToSet
    <3> QED
      BY <3>1, <1>3, <1>4 DEF Order, LineInOrder, InLine
  <2>2. InLine(chan)'
    <3>1. /\ Len(chan) \in Nat /\ DOMAIN chan = 1 .. Len(chan)
          /\ DOMAIN chan' = 1 .. Len(chan) + 1
          /\ \A i \in 1 .. Len(chan) : chan'[i] = chan[i]
          /\ chan'[Len(chan) + 1] = s
      BY <1>1, <1>2, <1>3, AppendProperties, LenProperties
    <3>2. \A i \in DOMAIN chan : content[chan[i]] \in ToSet(sent)
      BY <1>2, <1>6 DEF ToSet
    <3>3. SUFFICES ASSUME NEW i \in DOMAIN chan', NEW j \in DOMAIN chan', i < j
                   PROVE  Earlier(content[chan[i]], content[chan[j]])'
      BY <1>3 DEF InLine
    <3>4. i \in DOMAIN chan
      BY <3>1, <3>3
    <3>5. CASE j \in DOMAIN chan
      <4>1. Earlier(content[chan[i]], content[chan[j]])
        BY <3>3, <3>4, <3>5 DEF Order, LineInOrder, InLine
      <4> QED
        BY <4>1, <3>1, <3>2, <3>4, <3>5, <1>3, <1>4
    <3>6. CASE j = Len(chan) + 1
      BY <3>1, <3>2, <3>4, <3>6, <1>1, <1>3, <1>4
    <3> QED
      BY <3>1, <3>5, <3>6
  <2>3. \A x \in ToSet(batch), y \in ToSet(chan') : Earlier(content[x], content[y])'
    BY <1>1, <1>2, <1>3, <1>4, <1>5, <1>6 DEF Order, LineInOrder
  <2> QED
    BY <1>3, <2>1, <2>2, <2>3 DEF LineInOrder, InLine
<1>10. AppliedFirst'
  BY <1>1, <1>2, <1>3, <1>4, <1>5, <1>6 DEF Order, AppliedFirst
<1>11. AppliedInOrder'
  <2>1. \A i \in DOMAIN applied : applied[i] \in ToSet(sent)
    BY <1>6 DEF Applied, ToSet
  <2>2. \A i, j \in DOMAIN applied : i < j => Earlier(applied[i], applied[j])
    BY DEF Order, AppliedInOrder, Earlier
  <2>3. \A i, j \in DOMAIN applied : i < j => Earlier(applied[i], applied[j])'
    BY <2>1, <2>2, <1>3, <1>4
  <2> QED
    BY <2>3, <1>3 DEF AppliedInOrder, Earlier
<1> QED
  BY <1>7, <1>8, <1>9, <1>10, <1>11 DEF Order

\* Stop takes ops off the front of the line.
LEMMA StopperOrder ==
  ASSUME Shape, Order, NEW t \in Stoppers, StopperStep(t)
  PROVE  Order'
<1> USE DEF clientVars, workVars
<1>1. UNCHANGED <<pc, count, sent, applied, content, batch, consumer>>
  BY DEF StopperStep, StopCall, StopClaim, StopLock, StopDrain, StopClose,
         StopWait, flowVars
<1>2. NotYetSent'
  BY <1>1 DEF Order, NotYetSent, Req
<1>3. CASE StopDrain(t)
  <2>1. /\ chan \in Seq(Shells) /\ chan # <<>> /\ chan' = Tail(chan)
        /\ ToSet(chan') \subseteq ToSet(chan)
    BY <1>3, ToSetTail DEF StopDrain, Shape, TypeOK
  <2>2. InLine(chan')
    BY <2>1, InLineTail DEF Order, LineInOrder
  <2>3. InFlight' \subseteq InFlight /\ Applied' = Applied
    BY <1>1, <2>1 DEF InFlight, Applied
  <2>4. LineInOrder' /\ AllSent'
    BY <1>1, <2>1, <2>2, <2>3 DEF Order, LineInOrder, InLine, Earlier, AllSent
  <2>5. AppliedFirst' /\ AppliedInOrder'
    BY <1>1, <2>1, <2>3 DEF Order, AppliedFirst, AppliedInOrder, Earlier
  <2> QED
    BY <1>2, <2>4, <2>5 DEF Order
<1>4. CASE ~StopDrain(t)
  <2>1. UNCHANGED <<chan, workVars>>
    BY <1>4 DEF StopperStep, StopCall, StopClaim, StopLock, StopClose, StopWait,
                flowVars
  <2> QED
    BY <1>1, <1>2, <2>1, StillOrder
<1> QED
  BY <1>3, <1>4

(* The consumer takes the head of the channel behind its group.             *)
LEMMA TakeOrder ==
  ASSUME Shape, Order, consumer' = "collect", consumer \in {"receive", "collect"},
         chan # <<>>, chan' = Tail(chan), batch' = Append(batch, Head(chan)),
         UNCHANGED <<pc, count, content, sent, applied>>
  PROVE  Order'
<1> DEFINE s == Head(chan)
<1>1. /\ chan \in Seq(Shells) /\ batch \in Seq(Shells) /\ s \in Shells
      /\ s \in ToSet(chan) /\ ToSet(chan') \subseteq ToSet(chan)
  BY ToSetTail DEF Shape, TypeOK
<1>2. ToSet(batch') = ToSet(batch) \cup {s}
  BY <1>1, ToSetAppend
<1>3. /\ InLine(chan') /\ \A y \in ToSet(chan') : Earlier(content[s], content[y])
  BY <1>1, InLineTail DEF Order, LineInOrder
<1>4. InLine(batch')
  BY <1>1, InLineAppend DEF Order, LineInOrder
<1>5. LineInOrder'
  <2>1. \A x \in ToSet(batch'), y \in ToSet(chan') : Earlier(content[x], content[y])
    BY <1>1, <1>2, <1>3 DEF Order, LineInOrder
  <2>2. \A x \in ToSet(batch'), y \in ToSet(chan') :
          Earlier(content[x], content[y])'
    BY <2>1 DEF Earlier
  <2>3. InLine(batch)' /\ InLine(chan)'
    BY <1>3, <1>4 DEF InLine, Earlier
  <2> QED
    BY <2>2, <2>3 DEF LineInOrder
<1>6. InFlight' \subseteq InFlight /\ Applied' = Applied
  BY <1>1, <1>2 DEF InFlight, Applied
<1>7. AllSent' /\ NotYetSent'
  BY <1>6 DEF Order, AllSent, NotYetSent, Req
<1>8. consumer = "receive" => ToSet(batch) = {}
  BY ToSetEmpty DEF Shape, ConsumerOrder
<1>9. ASSUME NEW a \in Applied
      PROVE  /\ \A x \in ToSet(chan') : Earlier(a, content[x])
             /\ \A x \in ToSet(batch') : Earlier(a, content[x])
  BY <1>1, <1>2, <1>8 DEF Order, AppliedFirst
<1>10. AppliedFirst' /\ AppliedInOrder'
  BY <1>6, <1>9 DEF Order, AppliedFirst, AppliedInOrder, Earlier
<1> QED
  BY <1>5, <1>7, <1>10 DEF Order

\* What is applied was sent before what is still in line.
LEMMA ApplyOrder ==
  ASSUME Shape, Order, ApplyOne \/ ApplyAll
  PROVE  Order'
<1> USE DEF clientVars
<1> DEFINE group == [i \in 1 .. Len(batch) |-> content[batch[i]]]
<1>1. /\ UNCHANGED <<pc, count, content, sent, chan, batch>>
      /\ consumer \in {"apply", "applyAll"}
      /\ consumer' = IF consumer = "apply" THEN "answer" ELSE "answerAll"
  BY DEF ApplyOne, ApplyAll, LeftByFail
<1>2. /\ batch[1] \in ToSet(batch) /\ ToSet(Tail(batch)) \subseteq ToSet(batch)
      /\ batch \in Seq(Shells) /\ batch # <<>> /\ batch[1] = Head(batch)
      /\ ToSet(batch) \subseteq InFlight /\ applied \in Seq(Requests)
  BY <1>1, PartsInFlight DEF Shape, TypeOK
<1>3. LineInOrder' /\ NotYetSent'
  BY <1>1 DEF Order, LineInOrder, InLine, Earlier, NotYetSent, Req
<1>4. ASSUME NEW a \in Applied
      PROVE  /\ \A x \in ToSet(chan) : Earlier(a, content[x])
             /\ \A x \in ToSet(batch) : Earlier(a, content[x])
  BY <1>1 DEF Order, AppliedFirst
<1>5. \A i, j \in DOMAIN applied : i < j => Earlier(applied[i], applied[j])
  BY DEF Order, AppliedInOrder, Earlier
<1>6. CASE UNCHANGED applied
  <2>1. Applied' = Applied /\ InFlight' = InFlight
    BY <1>1, <1>6 DEF Applied, InFlight
  <2>2. AllSent' /\ AppliedFirst' /\ AppliedInOrder'
    BY <1>1, <1>2, <1>4, <1>6, <2>1
       DEF Order, AllSent, AppliedFirst, AppliedInOrder, Earlier
  <2> QED
    BY <1>3, <2>2 DEF Order
<1>7. CASE consumer = "apply" /\ applied' = Append(applied, content[batch[1]])
  <2> DEFINE s == batch[1]
  <2>1. /\ Applied' = Applied \cup {content[s]} /\ InFlight' = InFlight
        /\ content[s] \in Requests
    BY <1>1, <1>2, <1>7, AppliedOne, GroupContent, LenProperties, EmptySeq DEF InFlight
  <2>2. /\ \A x \in ToSet(chan) : Earlier(content[s], content[x])
        /\ \A x \in ToSet(Tail(batch)) : Earlier(content[s], content[x])
    BY <1>2, InLineTail DEF Order, LineInOrder
  <2>3. AllSent'
    BY <1>1, <1>2, <2>1 DEF Order, AllSent
  <2>4. AppliedFirst'
    BY <1>1, <1>2, <1>4, <1>7, <2>1, <2>2 DEF AppliedFirst, Earlier
  <2>5. /\ Len(applied) \in Nat /\ DOMAIN applied = 1 .. Len(applied)
        /\ DOMAIN applied' = 1 .. Len(applied) + 1
        /\ \A i \in 1 .. Len(applied) : applied'[i] = applied[i]
        /\ applied'[Len(applied) + 1] = content[s]
    BY <1>2, <1>7, <2>1, AppendProperties, LenProperties
  <2>6. \A i \in DOMAIN applied : Earlier(applied[i], content[s])
    BY <1>2, <1>4 DEF Applied, ToSet
  <2>7. \A i, j \in DOMAIN applied' : i < j => Earlier(applied'[i], applied'[j])
    <3>1. SUFFICES ASSUME NEW i \in DOMAIN applied', NEW j \in DOMAIN applied', i < j
                   PROVE  Earlier(applied'[i], applied'[j])
      OBVIOUS
    <3>2. i \in DOMAIN applied
      BY <2>5, <3>1
    <3>3. CASE j \in DOMAIN applied
      BY <2>5, <3>1, <3>2, <3>3, <1>5
    <3>4. CASE j = Len(applied) + 1
      BY <2>5, <2>6, <3>2, <3>4
    <3> QED
      BY <2>5, <3>3, <3>4
  <2>8. AppliedInOrder'
    BY <1>1, <2>7 DEF AppliedInOrder, Earlier
  <2> QED
    BY <1>3, <2>3, <2>4, <2>8 DEF Order
<1>8. CASE consumer = "applyAll" /\ applied' = applied \o group
  <2>1. /\ Applied' = Applied \cup {content[x] : x \in ToSet(batch)}
        /\ InFlight' = InFlight /\ group \in Seq(Requests)
    BY <1>1, <1>8, AppliedGroup, GroupContent DEF InFlight
  <2>2. AllSent'
    BY <1>1, <1>2, <2>1 DEF Order, AllSent
  <2>3. ASSUME NEW a \in Applied', NEW x \in ToSet(chan)
        PROVE  Earlier(a, content[x])
    BY <1>4, <2>1 DEF Order, LineInOrder
  <2>4. AppliedFirst'
    BY <1>1, <1>8, <2>3 DEF AppliedFirst, Earlier
  <2>5. /\ Len(applied) \in Nat /\ DOMAIN applied = 1 .. Len(applied)
        /\ Len(batch) \in Nat /\ DOMAIN batch = 1 .. Len(batch)
        /\ Len(group) = Len(batch)
    BY <1>2, <2>1, LenProperties
  <2>6. /\ DOMAIN applied' = 1 .. Len(applied) + Len(batch)
        /\ \A i \in 1 .. Len(applied) : applied'[i] = applied[i]
        /\ \A i \in Len(applied) + 1 .. Len(applied) + Len(batch) :
              applied'[i] = group[i - Len(applied)]
    BY <1>2, <1>8, <2>1, <2>5, ConcatProperties
  <2>7. \A i \in DOMAIN applied, k \in DOMAIN batch :
          Earlier(applied[i], content[batch[k]])
    BY <1>4 DEF Applied, ToSet
  <2>8. \A i, j \in DOMAIN applied' : i < j => Earlier(applied'[i], applied'[j])
    <3>1. SUFFICES ASSUME NEW i \in DOMAIN applied', NEW j \in DOMAIN applied', i < j
                   PROVE  Earlier(applied'[i], applied'[j])
      OBVIOUS
    <3>2. CASE j \in DOMAIN applied
      <4>1. i \in DOMAIN applied
        BY <2>5, <2>6, <3>1, <3>2
      <4> QED
        BY <2>5, <2>6, <3>1, <3>2, <4>1, <1>5
    <3>3. CASE j \notin DOMAIN applied
      <4>1. /\ j - Len(applied) \in DOMAIN batch
            /\ applied'[j] = content[batch[j - Len(applied)]]
        <5>1. j \in Len(applied) + 1 .. Len(applied) + Len(batch)
          BY <2>5, <2>6, <3>3
        <5>2. j - Len(applied) \in 1 .. Len(batch)
          BY <2>5, <5>1
        <5> QED
          BY <2>5, <2>6, <5>1, <5>2
      <4>2. CASE i \in DOMAIN applied
        BY <2>5, <2>6, <2>7, <4>1, <4>2
      <4>3. CASE i \notin DOMAIN applied
        <5>1. /\ i - Len(applied) \in DOMAIN batch
              /\ applied'[i] = content[batch[i - Len(applied)]]
              /\ i - Len(applied) < j - Len(applied)
          <6>1. /\ i \in Len(applied) + 1 .. Len(applied) + Len(batch)
                /\ j \in Len(applied) + 1 .. Len(applied) + Len(batch)
            BY <2>5, <2>6, <3>3, <4>3
          <6>2. i - Len(applied) \in 1 .. Len(batch) /\ i - Len(applied) < j - Len(applied)
            BY <2>5, <3>1, <6>1
          <6> QED
            BY <2>5, <2>6, <6>1, <6>2
        <5> QED
          BY <4>1, <5>1 DEF Order, LineInOrder, InLine
      <4> QED
        BY <4>2, <4>3
    <3> QED
      BY <3>2, <3>3
  <2>9. AppliedInOrder'
    BY <1>1, <2>8 DEF AppliedInOrder, Earlier
  <2> QED
    BY <1>3, <2>2, <2>4, <2>9 DEF Order
<1> QED
  BY <1>6, <1>7, <1>8 DEF ApplyOne, ApplyAll, LeftByFail

\* An answer leaves the line alone.
LEMMA AnswerOrder ==
  ASSUME Shape, Order, Answer
  PROVE  Order'
<1> USE DEF clientVars
<1>1. /\ UNCHANGED <<pc, count, content, sent, chan, applied>>
      /\ batch' = Tail(batch)
      /\ consumer \in {"answer", "answerAll"}
      /\ consumer' \in {"apply", "collect"} => consumer = "answer"
      /\ consumer' \in {"apply", "answerAll", "exited", "receive"}
  BY DEF Answer, NextOfGroup
<1>2. /\ batch \in Seq(Shells) /\ batch # <<>>
      /\ ToSet(Tail(batch)) \subseteq ToSet(batch)
  BY <1>1, PartsInFlight DEF Shape, TypeOK
<1>3. InLine(batch') /\ InFlight' \subseteq InFlight /\ Applied' = Applied
  BY <1>1, <1>2, InLineTail DEF Order, LineInOrder, InFlight, Applied
<1>4. LineInOrder'
  BY <1>1, <1>2, <1>3 DEF Order, LineInOrder, InLine, Earlier
<1>5. AllSent' /\ NotYetSent'
  BY <1>1, <1>3 DEF Order, AllSent, NotYetSent, Req
<1>6. AppliedFirst' /\ AppliedInOrder'
  BY <1>1, <1>3 DEF Order, AppliedFirst, AppliedInOrder, Earlier
<1> QED
  BY <1>4, <1>5, <1>6 DEF Order

\* The consumer takes the front of the line.
LEMMA ConsumerOrdered ==
  ASSUME Shape, Order, ConsumerStep
  PROVE  Order'
<1> USE DEF clientVars
<1>1. CASE Receive
  <2>1. batch = <<>> /\ <<Head(chan)>> = Append(batch, Head(chan))
    BY <1>1 DEF Receive, Shape, ConsumerOrder
  <2> QED
    BY <1>1, <2>1, TakeOrder DEF Receive
<1>2. CASE Collect
  BY <1>2, TakeOrder DEF Collect, Joined
<1>3. CASE ReceiveClosed \/ CollectEnd
  <2>1. /\ UNCHANGED <<pc, count, content, sent, chan, batch, applied>>
        /\ consumer' \in {"apply", "applyAll"} => consumer = "collect"
        /\ consumer' \in {"apply", "applyAll", "exited"}
        /\ Applied' = Applied /\ InFlight' = InFlight
    BY <1>3 DEF ReceiveClosed, CollectEnd, AfterClose, flowVars, Applied, InFlight
  <2>2. LineInOrder' /\ AllSent' /\ NotYetSent'
    BY <2>1 DEF Order, LineInOrder, InLine, Earlier, AllSent, NotYetSent, Req
  <2>3. AppliedFirst' /\ AppliedInOrder'
    BY <2>1 DEF Order, AppliedFirst, AppliedInOrder, Earlier
  <2> QED
    BY <2>2, <2>3 DEF Order
<1> QED
  BY <1>1, <1>2, <1>3, ApplyOrder, AnswerOrder DEF ConsumerStep

\* Every step keeps the order.
LEMMA NextOrder == Shape /\ Order /\ [Next]_vars => Order'
<1> SUFFICES ASSUME Shape, Order, [Next]_vars PROVE Order'
  OBVIOUS
<1>1. CASE UNCHANGED vars \/ MonitorTick \/ MonitorExit
  <2>1. UNCHANGED <<pc, count, content, sent, applied, chan, workVars>>
    BY <1>1 DEF vars, MonitorTick, MonitorExit, clientVars, flowVars, workVars
  <2>2. NotYetSent'
    BY <2>1 DEF Order, NotYetSent, Req
  <2> QED
    BY <2>1, <2>2, StillOrder
<1> QED
  BY <1>1, CallerOrder, SendOrder, StopperOrder, ConsumerOrdered DEF Next

(* queue.go:267-310: whatever the grouping, the failures and the drain of   *)
(* Stop, no write is applied before one that was sent earlier.              *)
THEOREM AppliesInOrder == Spec => []AppliedInOrder
<1>1. Order => AppliedInOrder
  BY DEF Order
<1> QED
  BY <1>1, InitOrder, NextOrder, ShapeInvariant, PTL DEF Spec

-----------------------------------------------------------------------------
(* The write queue implements AtomicWrites: each of its steps is a Call, a  *)
(* TakeEffect, a Return, or changes nothing a caller can see.               *)

OpenCalls == {Req(c) : c \in {d \in Clients : pc[d] # "idle"}}

(* The abstract specification reads sequences with the same operators.      *)
LEMMA SameOperators ==
  \A q : Service!ToSet(q) = ToSet(q) /\ Service!IsInjective(q) = IsInjective(q)
  BY DEF Service!ToSet, ToSet, Service!IsInjective, IsInjective

\* A new queue is a new AtomicWrites.
LEMMA InitRefines == Init => Service!AInit
  BY DEF Init, Service!AInit

(* A caller that begins a call opens a request nobody has made before.      *)
LEMMA AcquireRefines ==
  ASSUME Shape, Truth, NEW c \in Clients, Acquire(c)
  PROVE  \E r \in Requests : Service!Call(r)
<1> DEFINE r == <<c, count[c] + 1>>
<1>1. /\ count[c] + 1 \in 1 .. MaxReq /\ count[c] \in Nat /\ pc[c] = "idle"
      /\ count' = [count EXCEPT ![c] = @ + 1]
      /\ pc' = [pc EXCEPT ![c] = "filled"]
      /\ UNCHANGED <<applied, outcome>>
  BY QueueAssumption DEF Acquire, Shape, TypeOK, InPool
<1>2. r \in Requests /\ outcome[r] = "none"
  BY <1>1 DEF Requests, Truth, NotYetCalled
<1>3. r \notin OpenCalls
  BY <1>1 DEF OpenCalls, Req
<1>4. /\ Req(c)' = r
      /\ \A d \in Clients : d # c => Req(d)' = Req(d) /\ pc'[d] = pc[d]
      /\ pc'[c] # "idle"
  BY <1>1 DEF Req, Shape, TypeOK
<1>5. OpenCalls' = OpenCalls \cup {r}
  BY <1>1, <1>4 DEF OpenCalls
<1> QED
  BY <1>1, <1>2, <1>3, <1>5 DEF Service!Call, OpenCalls

(* A call that returns closes its request with what was decided about it.   *)
LEMMA ReleaseRefines ==
  ASSUME Shape, Truth, NEW c \in Clients, NEW e \in Results, Release(c, e),
         pc[c] # "idle", Req(c) \in Applied <=> e = "nil"
  PROVE  Service!Return(Req(c), e) /\ Req(c) \in Requests
<1>1. /\ pc' = [pc EXCEPT ![c] = "idle"] /\ count' = count
      /\ outcome' = [outcome EXCEPT ![Req(c)] = e] /\ UNCHANGED applied
  BY DEF Release
<1>2. Req(c) \in OpenCalls /\ Req(c) \in Requests
  BY DEF OpenCalls, Shape, CallsOwnShells, Req, Requests
<1>3. \A d \in Clients : Req(d)' = Req(d) /\ (d # c => Req(d) # Req(c))
  BY <1>1 DEF Req
<1>4. \A d \in Clients : pc'[d] = IF d = c THEN "idle" ELSE pc[d]
  BY <1>1 DEF Shape, TypeOK
<1>5. OpenCalls' = OpenCalls \ {Req(c)}
  BY <1>3, <1>4 DEF OpenCalls
<1> QED
  BY <1>1, <1>2, <1>5, SameOperators
     DEF Service!Return, Service!Effective, OpenCalls, Applied

(* A group that is applied takes effect as a whole, of open requests none   *)
(* of which had taken effect.                                               *)
LEMMA GroupRefines ==
  ASSUME Shape, Truth, NEW group \in Seq(Requests), IsInjective(group),
         group # <<>>, applied' = applied \o group,
         UNCHANGED <<clientVars>>,
         \A i \in DOMAIN group : \E s \in InFlight :
           group[i] = content[s] /\ content[s] \notin Applied
  PROVE  Service!ANext
<1>1. applied \in Seq(Requests)
  BY DEF Shape, TypeOK
<1>2. /\ Len(group) \in Nat /\ Len(group) # 0 /\ Len(applied) \in Nat
      /\ Len(applied') = Len(applied) + Len(group)
  BY <1>1, EmptySeq, LenProperties, ConcatProperties
<1>3. SubSeq(applied', Len(applied) + 1, Len(applied')) = SubSeq(group, 1, Len(group))
  BY <1>1, <1>2, SubSeqOfConcat2
<1>4. SubSeq(applied', Len(applied) + 1, Len(applied')) = group
  BY <1>3, SubSeqFull
<1>5. ToSet(group) \subseteq OpenCalls \ Applied
  <2>1. ASSUME NEW x \in ToSet(group)
        PROVE  x \in OpenCalls \ Applied
    <3>1. PICK i \in DOMAIN group : x = group[i]
      BY <2>1 DEF ToSet
    <3>2. PICK s \in InFlight : x = content[s] /\ x \notin Applied
      BY <3>1
    <3>3. PICK c \in Clients : pc[c] = "waiting" /\ content[s] = Req(c)
      BY OwnerOf
    <3> QED
      BY <3>2, <3>3 DEF OpenCalls
  <2> QED
    BY <2>1
<1>6. OpenCalls' = OpenCalls
  BY DEF OpenCalls, clientVars, Req
<1>7. Service!TakeEffect(SubSeq(applied', Len(applied) + 1, Len(applied')))
  <2>1. /\ ToSet(group) \subseteq {Req(c) : c \in {d \in Clients : pc[d] # "idle"}}
                                  \ Service!Effective
        /\ Service!IsInjective(group) /\ Service!ToSet(group) = ToSet(group)
    BY <1>5, SameOperators DEF Service!Effective, OpenCalls, Applied
  <2> QED
    BY <1>4, <1>6, <2>1 DEF Service!TakeEffect, OpenCalls, clientVars
<1>8. Len(applied) < Len(applied')
  BY <1>2
<1> QED
  BY <1>7, <1>8 DEF Service!ANext

\* A group that is applied takes effect at that instant.
LEMMA ApplyRefines ==
  ASSUME Shape, Truth, ApplyOne \/ ApplyAll
  PROVE  [Service!ANext]_(Service!avars)
<1>1. UNCHANGED <<clientVars>> /\ consumer \in {"apply", "applyAll"}
  BY DEF ApplyOne, ApplyAll, LeftByFail
<1>2. \A s \in ToSet(batch) : s \in InFlight /\ content[s] \notin Applied
  BY <1>1, PartsInFlight DEF Truth, NotYetApplied
<1>3. /\ batch \in Seq(Shells) /\ batch # <<>> /\ DOMAIN batch = 1 .. Len(batch)
      /\ Len(batch) \in Nat /\ Len(batch) # 0
  BY <1>1, EmptySeq, LenProperties DEF Shape, TypeOK, ConsumerOrder
<1>4. CASE UNCHANGED applied
  BY <1>1, <1>4 DEF Service!avars, clientVars, Req
<1>5. CASE applied' = Append(applied, content[batch[1]])
  <2>1. content[batch[1]] \in Requests /\ batch[1] \in ToSet(batch)
    BY <1>3, GroupContent DEF ToSet
  <2> DEFINE group == <<content[batch[1]]>>
  <2>2. /\ group \in Seq(Requests) /\ IsInjective(group) /\ group # <<>>
        /\ \A i \in DOMAIN group : group[i] = content[batch[1]]
    BY <2>1 DEF IsInjective
  <2>3. applied' = applied \o group
    BY <1>5, <2>1, AppendIsConcat DEF Shape, TypeOK
  <2> QED
    BY <1>1, <1>2, <2>1, <2>2, <2>3, GroupRefines
<1>6. CASE applied' = applied \o [i \in 1 .. Len(batch) |-> content[batch[i]]]
  <2> DEFINE group == [i \in 1 .. Len(batch) |-> content[batch[i]]]
  <2>1. group \in Seq(Requests)
    BY GroupContent
  <2>2. \A i \in 1 .. Len(batch) : batch[i] \in ToSet(batch)
    BY <1>3 DEF ToSet
  <2>3. \A i, j \in 1 .. Len(batch) : group[i] = group[j] => i = j
    <3> SUFFICES ASSUME NEW i \in 1 .. Len(batch), NEW j \in 1 .. Len(batch),
                        content[batch[i]] = content[batch[j]]
                 PROVE  i = j
      OBVIOUS
    <3>1. PICK c \in Clients :
            pc[c] = "waiting" /\ own[c] = batch[i] /\ content[batch[i]] = Req(c)
      BY <1>2, <2>2, OwnerOf
    <3>2. batch[j] = batch[i]
      BY <1>2, <2>2, <3>1, ContentDetermines
    <3> QED
      BY <1>3, <3>2 DEF Shape, InFlightShellsAreOwned, IsInjective
  <2>4. IsInjective(group) /\ group # <<>>
    BY <1>3, <2>3 DEF IsInjective
  <2> QED
    BY <1>1, <1>2, <1>6, <2>1, <2>2, <2>4, GroupRefines
<1> QED
  BY <1>4, <1>5, <1>6 DEF ApplyOne, ApplyAll, LeftByFail

\* Every step of the queue is one of AtomicWrites or a stutter.
LEMMA StepRefines ==
  ASSUME Shape, Truth, [Next]_vars
  PROVE  [Service!ANext]_(Service!avars)
<1>1. ASSUME NEW c \in Clients, ClientStep(c)
      PROVE  [Service!ANext]_(Service!avars)
  <2>1. pc[c] \in {"filled", "locked"} => Req(c) \notin Applied
    BY DEF Truth, NotYetApplied
  <2>2. CASE Acquire(c)
    BY <2>2, AcquireRefines DEF Service!ANext
  <2>3. ASSUME NEW e \in Results, Release(c, e), pc[c] # "idle",
               Req(c) \in Applied <=> e = "nil"
        PROVE  Service!ANext
    BY <2>3, ReleaseRefines DEF Service!ANext, Results
  <2>4. CASE SubmitRefused(c)
    BY <2>1, <2>3, <2>4 DEF SubmitRefused, Results, Refusals
  <2>6. CASE SendFull(c)
    BY <2>1, <2>3, <2>6 DEF SendFull, Results, Refusals
  <2>7. CASE Await(c)
    <3>1. done[own[c]] \in Results /\ done[own[c]] # "empty"
      BY <2>7 DEF Await, Results, Refusals
    <3>2. Req(c) \in Applied <=> done[own[c]] = "nil"
      BY <2>7, <3>1 DEF Await, Truth, AnswersAreTruthful
    <3> QED
      BY <2>3, <2>7, <3>1, <3>2 DEF Await
  <2>8. CASE SubmitChecked(c) \/ Send(c)
    <3>1. /\ \A d \in Clients : pc'[d] # "idle" <=> pc[d] # "idle"
          /\ UNCHANGED <<count, applied, outcome>>
      BY <2>8 DEF SubmitChecked, Send, Shape, TypeOK, flowVars, HasRoom
    <3> QED
      BY <3>1 DEF Service!avars, Req
  <2> QED
    BY <1>1, <2>2, <2>4, <2>6, <2>7, <2>8 DEF ClientStep
<1>2. CASE ApplyOne \/ ApplyAll
  BY <1>2, ApplyRefines
<1>3. ASSUME UNCHANGED <<clientVars, applied>>
      PROVE  [Service!ANext]_(Service!avars)
  BY <1>3 DEF Service!avars, clientVars, Req
<1>4. CASE \E t \in Stoppers : StopperStep(t)
  BY <1>3, <1>4
     DEF StopperStep, StopCall, StopClaim, StopLock, StopDrain, StopClose,
         StopWait, flowVars, LockFreed, Drained, AllGone
<1>5. CASE MonitorTick \/ MonitorExit \/ UNCHANGED vars
  BY <1>3, <1>5 DEF MonitorTick, MonitorExit, vars, clientVars, flowVars
<1>6. CASE Receive \/ ReceiveClosed \/ Collect \/ CollectEnd \/ Answer
  BY <1>3, <1>6
     DEF Receive, ReceiveClosed, Collect, CollectEnd, Answer, flowVars,
         AfterClose, Joined, Reply, NextOfGroup
<1> QED
  BY <1>1, <1>2, <1>4, <1>5, <1>6 DEF Next, ConsumerStep

(* db.go:140-148, 216-224, 314-334 over queue.go: a write takes effect at   *)
(* one instant between its call and its return, returns nil only if it did, *)
(* and an error means that it never does.                                   *)
THEOREM QueueImplementsAtomicWrites == Spec => ImplementsAtomicWrites
<1>1. Shape /\ Truth /\ [Next]_vars => [Service!ANext]_(Service!avars)
  BY StepRefines
<1> QED
  BY <1>1, InitRefines, TruthInvariant, PTL
     DEF Spec, ImplementsAtomicWrites, Service!ASpec
=============================================================================
