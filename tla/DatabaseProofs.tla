--------------------------- MODULE DatabaseProofs ---------------------------
(***************************************************************************)
(* What TLAPS proves of the database handle, in memory and then on a disk,  *)
(* for any number of goroutines, keys, calls and restarts, any queue length *)
(* and any set of configurations.                                           *)
(***************************************************************************)
EXTENDS Durability, DataLemmas

-----------------------------------------------------------------------------
(* The inductive invariant                                                  *)

(* A call has its number, and only keys that were let in reach Pebble and   *)
(* the cache.                                                               *)
CallsOK ==
  /\ DOMAIN carry = Procs
  /\ \A p \in Procs :
       /\ pc[p] # "idle" => count[p] \in 1 .. MaxOps
       /\ pc[p] = "read" => EmptyKey \notin DOMAIN carry[p]
       /\ pc[p] = "fill" => /\ DOMAIN carry[p] \subseteq Keys
                            /\ carry[p] \in [DOMAIN carry[p] -> Requests]
       /\ \A n \in 1 .. MaxOps : n > count[p] => outcome[<<p, n>>] = "none"

(* Who is inside Pebble under db.mu holds the read lock, and nobody is once *)
(* closed is set.                                                           *)
ReadersInside ==
  \A p \in Procs : pc[p] \in {"read", "commit"} => p \in readers /\ ~closed

(* Closing goes through its stages in order, and what it has ruled out      *)
(* stays so.                                                                *)
CloseOrder ==
  /\ \A p \in Procs : pc[p] \in {"closing", "stopping"} => closed
  /\ \A p \in Procs : pc[p] = "stopping" => qStopped
  /\ ~pebbleOpen => closed /\ qStopped /\ Pending = {}

(* A late write has not got past the check of closed.                       *)
LateAreOutside ==
  /\ late # {} => ~pebbleOpen
  /\ \A p \in Procs : Req(p) \in late /\ pc[p] \in Writing =>
       pc[p] \in {"put", "direct"}

DBInv ==
  /\ TypeOK /\ CallsOK
  /\ ReadersInside /\ CloseOrder
  /\ LateAreOutside /\ LateWritesSayClosed

Places == Entries \cup Writing \cup
            {"idle", "read", "fill", "evict", "want", "closing", "stopping",
             "unlocked"}

-----------------------------------------------------------------------------
\* A goroutine outside a call carries nothing, of any type.
LEMMA NothingCarried ==
  ASSUME NEW S
  PROVE  <<>> \in [DOMAIN <<>> -> S] /\ DOMAIN <<>> = {}
<1>1. <<>> \in Seq(S) /\ Len(<<>>) = 0
  OBVIOUS
<1> QED
  BY <1>1, LenProperties, SMT

\* A handle just opened has nobody inside.
LEMMA InitDB == Init => DBInv
<1> SUFFICES ASSUME Init PROVE DBInv
  OBVIOUS
<1>1. TypeOK
  <2>1. 0 \in 0 .. MaxOps
    BY DBAssumption
  <2>2. \A p \in Procs :
          carry[p] \in [DOMAIN carry[p] -> Contents]
            /\ DOMAIN carry[p] \subseteq Keys \cup {EmptyKey}
    <3> TAKE p \in Procs
    <3>1. carry[p] = <<>>
      BY DEF Init
    <3> QED
      BY <3>1, NothingCarried
  <2>3. log \in Seq(Requests) /\ Absent \in Contents
    BY DEF Init, Contents
  <2> QED
    BY <2>1, <2>2, <2>3 DEF Init, TypeOK, Entries
<1>2. CallsOK
  BY DEF Init, CallsOK, Requests
<1>3. ReadersInside /\ CloseOrder /\ LateAreOutside /\ LateWritesSayClosed
  BY DEF Init, ReadersInside, CloseOrder, LateAreOutside, LateWritesSayClosed,
         Pending
<1> QED
  BY <1>1, <1>2, <1>3 DEF DBInv

\* A call that begins finds closed as it is, and is late if it is set.
LEMMA BeginDB ==
  ASSUME DBInv, NEW p \in Procs, Begin(p)
  PROVE  DBInv'
<1>1. /\ count' = [count EXCEPT ![p] = @ + 1]
      /\ count[p] \in 0 .. MaxOps
      /\ count'[p] = count[p] + 1
      /\ count'[p] \in 1 .. MaxOps
      /\ count' \in [Procs -> 0 .. MaxOps]
  BY DBAssumption DEF Begin, DBInv, TypeOK
<1>2. Req(p)' = <<p, count[p] + 1>> /\ Req(p)' \in Requests
  BY <1>1 DEF Req, Requests
<1>3. PICK entry \in Entries :
        /\ pc' = [pc EXCEPT ![p] = entry]
        /\ \E a \in Arguments(entry, <<p, count[p] + 1>>) :
             carry' = [carry EXCEPT ![p] = a]
  BY <1>2 DEF Begin
<1>4. PICK a \in Arguments(entry, <<p, count[p] + 1>>) :
        carry' = [carry EXCEPT ![p] = a]
  BY <1>3
<1>5. /\ a \in [DOMAIN a -> Contents]
      /\ DOMAIN a \subseteq Keys \cup {EmptyKey}
  BY <1>2 DEF Arguments, Contents
<1>6. TypeOK'
  <2>1. \A q \in Procs :
          carry'[q] \in [DOMAIN carry'[q] -> Contents]
            /\ DOMAIN carry'[q] \subseteq Keys \cup {EmptyKey}
    BY <1>4, <1>5 DEF DBInv, TypeOK, CallsOK
  <2>2. late' \subseteq Requests
    BY <1>2 DEF Begin, DBInv, TypeOK
  <2> QED
    BY <1>1, <1>3, <2>1, <2>2 DEF Begin, DBInv, TypeOK, flagVars, dataVars
<1>7. CallsOK'
  <2>1. pc'[p] = entry /\ entry \notin {"idle", "read", "fill"}
    BY <1>3 DEF DBInv, TypeOK, Entries
  <2>2. \A q \in Procs : q # p =>
          pc'[q] = pc[q] /\ carry'[q] = carry[q] /\ count'[q] = count[q]
    BY <1>1, <1>3, <1>4 DEF DBInv, TypeOK, CallsOK
  <2>3. DOMAIN carry' = Procs /\ outcome' = outcome
    BY <1>4 DEF Begin, DBInv, CallsOK
  <2> QED
    BY <1>1, <2>1, <2>2, <2>3 DEF DBInv, CallsOK
<1>8. ReadersInside' /\ CloseOrder'
  BY <1>3 DEF Begin, DBInv, TypeOK, Entries, ReadersInside, CloseOrder, Pending,
              flagVars
<1>9. LateAreOutside' /\ LateWritesSayClosed'
  <2>1. \A q \in Procs : q # p =>
          pc'[q] = pc[q] /\ Req(q)' = Req(q) /\ Req(q)' # Req(p)'
    BY <1>1, <1>2, <1>3 DEF DBInv, TypeOK, Req
  <2>2. pc'[p] \in Entries
    BY <1>3 DEF DBInv, TypeOK
  <2>3. outcome'[Req(p)'] = "none"
    BY <1>1, <1>2 DEF Begin, DBInv, CallsOK
  <2>4. late' = IF pebbleOpen THEN late ELSE late \cup {Req(p)'}
    BY DEF Begin
  <2>5. outcome' = outcome /\ pebbleOpen' = pebbleOpen
    BY DEF Begin, flagVars
  <2>6. LateAreOutside'
    BY <2>1, <2>2, <2>4, <2>5 DEF DBInv, LateAreOutside, Entries, Writing
  <2>7. LateWritesSayClosed'
    BY <2>3, <2>4, <2>5 DEF DBInv, LateWritesSayClosed
  <2> QED
    BY <2>6, <2>7
<1> QED
  BY <1>6, <1>7, <1>8, <1>9 DEF DBInv

(* A call returns; Pebble may be closed by it, as the last to need it.      *)
LEMMA ReturnDB ==
  ASSUME DBInv, NEW p \in Procs, pc[p] # "idle",
         NEW e \in {"none", "nil"} \cup Refusals, Return(p, e),
         UNCHANGED <<closed, qStopped, memExceeded>>,
         store' \in [Keys -> Contents],
         cache' \in [Keys -> Requests \cup {NoEntry}],
         raced' \subseteq Keys, log' \in Seq(Requests),
         pc[p] \in {"put", "direct"} /\ closed => e = "ErrDBClosed",
         \/ pebbleOpen' = pebbleOpen
         \/ pebbleOpen' = FALSE /\ pc[p] = "stopping" /\ Pending = {}
  PROVE  DBInv'
<1>1. /\ pc' = [pc EXCEPT ![p] = "idle"]
      /\ carry' = [carry EXCEPT ![p] = <<>>]
      /\ readers' = readers \ {p}
      /\ count' = count /\ late' = late
  BY DEF Return, Unlocked, callVars
<1>2. /\ pc'[p] = "idle"
      /\ \A q \in Procs : q # p => pc'[q] = pc[q] /\ carry'[q] = carry[q]
      /\ carry'[p] = <<>> /\ DOMAIN carry' = Procs
  BY <1>1 DEF DBInv, TypeOK, CallsOK
<1>3. outcome' \in [Requests -> {"none", "nil"} \cup Refusals]
  BY DEF Return, DBInv, TypeOK
<1>4. TypeOK'
  <2>1. <<>> \in [DOMAIN <<>> -> Contents] /\ DOMAIN <<>> = {}
    BY NothingCarried
  <2>2. \A q \in Procs :
          carry'[q] \in [DOMAIN carry'[q] -> Contents]
            /\ DOMAIN carry'[q] \subseteq Keys \cup {EmptyKey}
    BY <1>2, <2>1 DEF DBInv, TypeOK
  <2>3. {closed', qStopped', memExceeded', pebbleOpen'} \subseteq BOOLEAN
    BY DEF DBInv, TypeOK
  <2> QED
    BY <1>1, <1>3, <2>2, <2>3 DEF DBInv, TypeOK
<1>5. \A r \in Requests : outcome'[r] =
        IF r = Req(p) /\ pc[p] \in Writing THEN e ELSE outcome[r]
  BY DEF Return, DBInv, TypeOK
<1>6. CallsOK'
  <2>1. \A q \in Procs, n \in 1 .. MaxOps : n > count[q] =>
          <<q, n>> # Req(p) /\ <<q, n>> \in Requests
    BY DEF DBInv, TypeOK, Req, Requests
  <2> QED
    BY <1>1, <1>2, <1>5, <2>1 DEF DBInv, CallsOK
<1>7. ReadersInside'
  BY <1>1, <1>2 DEF DBInv, ReadersInside
<1>8. CloseOrder'
  BY <1>1, <1>2 DEF DBInv, CloseOrder, Pending
<1>9. LateAreOutside'
  BY <1>1, <1>2 DEF DBInv, LateAreOutside, Req, Writing, CloseOrder
<1>10. LateWritesSayClosed'
  <2>1. Req(p) \in late /\ pc[p] \in Writing => e = "ErrDBClosed"
    BY DEF DBInv, LateAreOutside, CloseOrder
  <2> QED
    BY <1>1, <1>5, <2>1 DEF DBInv, TypeOK, LateWritesSayClosed
<1> QED
  BY <1>4, <1>6, <1>7, <1>8, <1>9, <1>10 DEF DBInv

(* A call goes on without touching the data or the flags.                   *)
LEMMA MoveDB ==
  ASSUME DBInv, NEW p \in Procs,
         NEW to \in {"submit", "pending", "commit", "read", "want", "unlocked"},
         Goes(p, to), pc[p] # "idle",
         readers' = readers \/ readers' = readers \cup {p},
         to \in Writing => pebbleOpen,
         to \in {"read", "commit"} => p \in readers' /\ ~closed,
         to = "read" => EmptyKey \notin DOMAIN carry[p]
  PROVE  DBInv'
<1>1. /\ pc' = [pc EXCEPT ![p] = to] /\ outcome' = outcome
      /\ UNCHANGED <<carry, count, late, closed, qStopped, memExceeded>>
      /\ UNCHANGED <<pebbleOpen, store, cache, raced, log>>
  BY DEF Goes, callVars, flagVars, dataVars
<1>2. pc'[p] = to /\ \A q \in Procs : q # p => pc'[q] = pc[q]
  BY <1>1 DEF DBInv, TypeOK
<1>3. TypeOK'
  BY <1>1 DEF DBInv, TypeOK, Writing
<1>4. CallsOK'
  BY <1>1, <1>2 DEF DBInv, CallsOK
<1>5. ReadersInside'
  BY <1>1, <1>2 DEF DBInv, ReadersInside
<1>6. CloseOrder'
  BY <1>1, <1>2 DEF DBInv, CloseOrder, Pending, Writing
<1>7. LateAreOutside'
  BY <1>1, <1>2 DEF DBInv, LateAreOutside, Req
<1>8. LateWritesSayClosed'
  BY <1>1 DEF DBInv, LateWritesSayClosed
<1> QED
  BY <1>3, <1>4, <1>5, <1>6, <1>7, <1>8 DEF DBInv

(* Whoever may write to Pebble, or waits for it, finds it open.             *)
LEMMA OpenInside ==
  ASSUME DBInv, NEW p \in Procs, pc[p] \in {"read", "commit", "pending"}
  PROVE  pebbleOpen
<1>1. pc[p] = "pending" => p \in Pending
  BY DEF Pending
<1> QED
  BY <1>1 DEF DBInv, TypeOK, ReadersInside, CloseOrder

\* A commit happens inside, with Pebble open.
LEMMA CommitDB ==
  ASSUME DBInv, NEW p \in Procs, Commit(p)
  PROVE  DBInv'
<1>1. /\ pc' = [pc EXCEPT ![p] = "invalidate"] /\ outcome' = outcome
      /\ UNCHANGED <<carry, count, late, closed, qStopped, memExceeded>>
      /\ UNCHANGED <<pebbleOpen, readers, cache, raced>>
      /\ log' = Append(log, Req(p)) /\ pc[p] \in {"pending", "commit"}
  BY DEF Commit, callVars, flagVars
<1>2. /\ pc'[p] = "invalidate"
      /\ \A q \in Procs : q # p => pc'[q] = pc[q]
      /\ count[p] \in 1 .. MaxOps
  BY <1>1 DEF DBInv, TypeOK, CallsOK
<1>3. pebbleOpen
  BY <1>1, OpenInside
<1>4. TypeOK'
  <2>1. Req(p) \in Requests
    BY <1>2 DEF Req, Requests
  <2>2. log' \in Seq(Requests)
    BY <1>1, <2>1 DEF DBInv, TypeOK
  <2>3. store' \in [Keys -> Contents]
    <3>1. \A k \in DOMAIN carry[p] : carry[p][k] \in Contents
      BY DEF DBInv, TypeOK
    <3> QED
      BY <3>1 DEF Commit, DBInv, TypeOK
  <2> QED
    BY <1>1, <2>2, <2>3 DEF DBInv, TypeOK, Writing
<1>5. CallsOK'
  BY <1>1, <1>2 DEF DBInv, CallsOK
<1>6. ReadersInside' /\ CloseOrder'
  BY <1>1, <1>2 DEF DBInv, ReadersInside, CloseOrder, Pending
<1>7. LateAreOutside' /\ LateWritesSayClosed'
  BY <1>1, <1>3 DEF DBInv, LateAreOutside, LateWritesSayClosed
<1> QED
  BY <1>4, <1>5, <1>6, <1>7 DEF DBInv

\* Taking a key out of the cache keeps the types.
LEMMA ForgottenTyped ==
  ASSUME DBInv, NEW k, Forgotten(k)
  PROVE  /\ cache' \in [Keys -> Requests \cup {NoEntry}]
         /\ raced' \subseteq Keys
  BY DEF DBInv, TypeOK, Forgotten

\* A writer takes its keys out of the cache one by one.
LEMMA InvalidateDB ==
  ASSUME DBInv, NEW p \in Procs, Invalidate(p)
  PROVE  DBInv'
<1>1. PICK k \in DOMAIN carry[p] : Forgotten(k) /\ NextKey(p, k)
  BY DEF Invalidate
<1>2. /\ pc[p] = "invalidate" /\ UNCHANGED <<store, log>>
      /\ UNCHANGED <<closed, qStopped, memExceeded, pebbleOpen>>
  BY DEF Invalidate, flagVars
<1>3. /\ cache' \in [Keys -> Requests \cup {NoEntry}]
      /\ raced' \subseteq Keys
  BY <1>1, ForgottenTyped
<1>4. CASE Return(p, "nil")
  <2>1. store' \in [Keys -> Contents] /\ log' \in Seq(Requests)
    BY <1>2 DEF DBInv, TypeOK
  <2> QED
    BY <1>2, <1>3, <1>4, <2>1, ReturnDB
<1>5. CASE /\ carry' = [carry EXCEPT ![p] = Restrict(@, DOMAIN @ \ {k})]
           /\ UNCHANGED <<pc, readers, outcome, callVars>>
  <2>1. /\ DOMAIN carry' = Procs
        /\ \A q \in Procs : q # p => carry'[q] = carry[q]
        /\ carry'[p] = Restrict(carry[p], DOMAIN carry[p] \ {k})
    BY <1>5 DEF DBInv, CallsOK
  <2>2. /\ DOMAIN carry'[p] = DOMAIN carry[p] \ {k}
        /\ carry'[p] \in [DOMAIN carry'[p] -> Contents]
    BY <2>1 DEF Restrict, DBInv, TypeOK
  <2>3. TypeOK'
    <3>1. \A q \in Procs :
            carry'[q] \in [DOMAIN carry'[q] -> Contents]
              /\ DOMAIN carry'[q] \subseteq Keys \cup {EmptyKey}
      BY <2>1, <2>2 DEF DBInv, TypeOK
    <3> QED
      BY <1>2, <1>3, <1>5, <3>1 DEF DBInv, TypeOK, callVars
  <2>4. CallsOK'
    BY <1>2, <1>5, <2>1 DEF DBInv, CallsOK, callVars
  <2>5. /\ ReadersInside' /\ CloseOrder'
        /\ LateAreOutside' /\ LateWritesSayClosed'
    BY <1>2, <1>5 DEF DBInv, ReadersInside, CloseOrder, Pending, LateAreOutside,
                      LateWritesSayClosed, Req, callVars
  <2> QED
    BY <2>3, <2>4, <2>5 DEF DBInv
<1> QED
  BY <1>1, <1>4, <1>5 DEF NextKey

\* A read of Pebble is under the read lock.
LEMMA GetReadDB ==
  ASSUME DBInv, NEW p \in Procs, GetRead(p)
  PROVE  DBInv'
<1> DEFINE found == [k \in DOMAIN carry[p] |-> store[k]]
<1>1. /\ pc[p] = "read" /\ outcome' = outcome
      /\ carry' = [carry EXCEPT ![p] = found]
      /\ pc' = [pc EXCEPT ![p] = AfterRead(found)]
      /\ UNCHANGED <<count, late, readers, closed, qStopped, memExceeded>>
      /\ UNCHANGED <<pebbleOpen, store, cache, raced, log>>
  BY DEF GetRead, callVars, flagVars, dataVars
<1>2. DOMAIN carry[p] \subseteq Keys
  BY <1>1 DEF DBInv, TypeOK, CallsOK
<1>3. DOMAIN found = DOMAIN carry[p] /\ found \in [DOMAIN found -> Contents]
  BY <1>2 DEF DBInv, TypeOK
<1>4. ASSUME AfterRead(found) = "fill" PROVE found \in [DOMAIN found -> Requests]
  <2>1. Absent \notin Range(found)
    BY <1>4 DEF AfterRead
  <2>2. \A k \in DOMAIN found : found[k] \in Range(found)
    BY DEF Range
  <2>3. \A k \in DOMAIN found : found[k] \in Requests
    BY <2>1, <2>2, <1>3 DEF Contents
  <2> QED
    BY <2>3, <1>3
<1>5. AfterRead(found) \in {"fill", "evict"}
  BY DEF AfterRead
<1> HIDE DEF found
<1>6. /\ pc'[p] \in {"fill", "evict"} /\ carry'[p] = found
      /\ pc'[p] = "fill" => found \in [DOMAIN found -> Requests]
      /\ DOMAIN carry' = Procs
      /\ \A q \in Procs : q # p => pc'[q] = pc[q] /\ carry'[q] = carry[q]
  BY <1>1, <1>4, <1>5 DEF DBInv, TypeOK, CallsOK
<1>7. TypeOK'
  <2>1. \A q \in Procs :
          carry'[q] \in [DOMAIN carry'[q] -> Contents]
            /\ DOMAIN carry'[q] \subseteq Keys \cup {EmptyKey}
    BY <1>2, <1>3, <1>6 DEF DBInv, TypeOK
  <2> QED
    BY <1>1, <1>5, <2>1 DEF DBInv, TypeOK
<1>8. CallsOK'
  BY <1>1, <1>2, <1>3, <1>6 DEF DBInv, CallsOK
<1>9. ReadersInside' /\ CloseOrder'
  BY <1>1, <1>6 DEF DBInv, ReadersInside, CloseOrder, Pending
<1>10. LateAreOutside' /\ LateWritesSayClosed'
  BY <1>1, <1>6 DEF DBInv, LateAreOutside, LateWritesSayClosed, Req, Writing
<1> QED
  BY <1>7, <1>8, <1>9, <1>10 DEF DBInv

\* A Get that read nothing drops the key from the cache.
LEMMA GetEvictDB ==
  ASSUME DBInv, NEW p \in Procs, GetEvict(p)
  PROVE  DBInv'
<1>1. PICK k \in DOMAIN carry[p] : Forgotten(k)
  BY DEF GetEvict
<1>2. /\ cache' \in [Keys -> Requests \cup {NoEntry}]
      /\ raced' \subseteq Keys
  BY <1>1, ForgottenTyped
<1>3. /\ pc[p] = "evict" /\ Return(p, "none")
      /\ UNCHANGED <<store, log, closed, qStopped, memExceeded, pebbleOpen>>
  BY DEF GetEvict, flagVars
<1>4. store' \in [Keys -> Contents] /\ log' \in Seq(Requests)
  BY <1>3 DEF DBInv, TypeOK
<1> QED
  BY <1>2, <1>3, <1>4, ReturnDB

\* A fill stores what was read, and is raced if a write came between.
LEMMA GetFillDB ==
  ASSUME DBInv, NEW p \in Procs, GetFill(p)
  PROVE  DBInv'
<1>1. /\ pc[p] = "fill" /\ Return(p, "none")
      /\ UNCHANGED <<store, log, closed, qStopped, memExceeded, pebbleOpen>>
  BY DEF GetFill, flagVars
<1>2. /\ DOMAIN carry[p] \subseteq Keys
      /\ \A k \in DOMAIN carry[p] : carry[p][k] \in Requests
  BY <1>1 DEF DBInv, CallsOK
<1>3. /\ cache' \in [Keys -> Requests \cup {NoEntry}]
      /\ raced' \subseteq Keys
  BY <1>2 DEF GetFill, DBInv, TypeOK
<1>4. store' \in [Keys -> Contents] /\ log' \in Seq(Requests)
  BY <1>1 DEF DBInv, TypeOK
<1> QED
  BY <1>1, <1>3, <1>4, ReturnDB

(* A call that ends having changed neither the data nor the flags.          *)
LEMMA EndsDB ==
  ASSUME DBInv, NEW p \in Procs, pc[p] # "idle",
         NEW e \in {"none", "nil"} \cup Refusals, Ends(p, e),
         pc[p] \in {"put", "direct"} /\ closed => e = "ErrDBClosed"
  PROVE  DBInv'
<1>1. /\ Return(p, e)
      /\ UNCHANGED <<closed, qStopped, memExceeded, pebbleOpen>>
      /\ UNCHANGED <<store, cache, raced, log>>
  BY DEF Ends, flagVars, dataVars
<1>2. /\ store' \in [Keys -> Contents]
      /\ cache' \in [Keys -> Requests \cup {NoEntry}]
      /\ raced' \subseteq Keys /\ log' \in Seq(Requests)
  BY <1>1 DEF DBInv, TypeOK
<1> QED
  BY <1>1, <1>2, ReturnDB

\* Close goes through its stages: the flag, the queue, Pebble.
LEMMA CloseDB ==
  ASSUME DBInv, NEW p \in Procs,
         CloseMark(p) \/ CloseStop(p) \/ ClosePebble(p)
  PROVE  DBInv'
<1>1. CASE CloseMark(p)
  <2>1. /\ pc[p] = "want" /\ readers = {} /\ closed' = TRUE
        /\ pc' = [pc EXCEPT ![p] = "closing"] /\ outcome' = outcome
        /\ UNCHANGED <<carry, count, late, readers, qStopped, memExceeded>>
        /\ UNCHANGED <<pebbleOpen, store, cache, raced, log>>
    BY <1>1 DEF CloseMark, ReadersGone, callVars, dataVars
  <2>2. /\ pc'[p] = "closing"
        /\ \A q \in Procs : q # p => pc'[q] = pc[q]
    BY <2>1 DEF DBInv, TypeOK
  <2>3. TypeOK' /\ CallsOK'
    BY <2>1, <2>2 DEF DBInv, TypeOK, CallsOK
  <2>4. ReadersInside' /\ CloseOrder'
    BY <2>1, <2>2 DEF DBInv, ReadersInside, CloseOrder, Pending
  <2>5. LateAreOutside' /\ LateWritesSayClosed'
    BY <2>1, <2>2 DEF DBInv, LateAreOutside, LateWritesSayClosed, Req, Writing
  <2> QED
    BY <2>3, <2>4, <2>5 DEF DBInv
<1>2. CASE CloseStop(p)
  <2>1. /\ pc[p] = "closing" /\ qStopped' = TRUE
        /\ pc' = [pc EXCEPT ![p] = "stopping"] /\ outcome' = outcome
        /\ UNCHANGED <<carry, count, late, readers, closed, memExceeded>>
        /\ UNCHANGED <<pebbleOpen, store, cache, raced, log>>
    BY <1>2 DEF CloseStop, callVars, dataVars
  <2>2. /\ pc'[p] = "stopping"
        /\ \A q \in Procs : q # p => pc'[q] = pc[q]
    BY <2>1 DEF DBInv, TypeOK
  <2>3. TypeOK' /\ CallsOK'
    BY <2>1, <2>2 DEF DBInv, TypeOK, CallsOK
  <2>4. ReadersInside' /\ CloseOrder'
    BY <2>1, <2>2 DEF DBInv, ReadersInside, CloseOrder, Pending
  <2>5. LateAreOutside' /\ LateWritesSayClosed'
    BY <2>1, <2>2 DEF DBInv, LateAreOutside, LateWritesSayClosed, Req, Writing
  <2> QED
    BY <2>3, <2>4, <2>5 DEF DBInv
<1>3. CASE ClosePebble(p)
  <2>1. /\ pc[p] = "stopping" /\ Pending = {} /\ Return(p, "nil")
        /\ pebbleOpen' = FALSE
        /\ UNCHANGED <<closed, qStopped, memExceeded>>
        /\ UNCHANGED <<store, cache, raced, log>>
    BY <1>3 DEF ClosePebble, AllSettled, dataVars
  <2>2. /\ store' \in [Keys -> Contents]
        /\ cache' \in [Keys -> Requests \cup {NoEntry}]
        /\ raced' \subseteq Keys /\ log' \in Seq(Requests)
    BY <2>1 DEF DBInv, TypeOK
  <2> QED
    BY <2>1, <2>2, ReturnDB
<1> QED
  BY <1>1, <1>2, <1>3

\* A goroutine inside a call goes on.
LEMMA ProceedDB ==
  ASSUME DBInv, NEW p \in Procs, Proceed(p)
  PROVE  DBInv'
<1>1. ASSUME NEW e \in Rejected(p)
      PROVE  /\ e \in {"none", "nil"} \cup Refusals
             /\ closed => e = "ErrDBClosed"
  BY DEF Rejected, Refusals
<1>2. closed \in BOOLEAN /\ (~closed => pebbleOpen)
  BY DEF DBInv, TypeOK, CloseOrder
<1>3. /\ "none" \in {"none", "nil"} \cup Refusals
      /\ {"fail", "ErrWriteThrottled", "ErrStopped", "ErrDBClosed"}
           \subseteq {"none", "nil"} \cup Refusals
  BY DEF Refusals
<1>4. CASE PutReject(p) \/ DirectReject(p)
  <2>1. PICK e \in Rejected(p) : Ends(p, e)
    BY <1>4 DEF PutReject, DirectReject
  <2>2. /\ e \in {"none", "nil"} \cup Refusals
        /\ closed => e = "ErrDBClosed"
    BY <1>1
  <2>3. pc[p] \in {"put", "direct"}
    BY <1>4 DEF PutReject, DirectReject
  <2> QED
    BY <2>1, <2>2, <2>3, EndsDB
<1>5. CASE PutChecked(p)
  BY <1>2, <1>5, MoveDB DEF PutChecked, Rejected
<1>6. CASE SubmitRefused(p) \/ CommitFails(p) \/ Drained(p)
  <2>1. pc[p] \notin {"idle", "put", "direct"}
    BY <1>6 DEF SubmitRefused, CommitFails, Drained
  <2>2. \/ Ends(p, "ErrWriteThrottled") \/ Ends(p, "fail")
        \/ Ends(p, "ErrStopped")
    BY <1>6 DEF SubmitRefused, CommitFails, Drained, DrainedAs
  <2> QED
    BY <1>3, <2>1, <2>2, EndsDB
<1>7. CASE Submitted(p)
  <2>1. pebbleOpen
    BY <1>7 DEF Submitted, DBInv, TypeOK, CloseOrder
  <2> QED
    BY <1>7, <2>1, MoveDB DEF Submitted
<1>8. CASE DirectChecked(p)
  BY <1>2, <1>8, MoveDB DEF DirectChecked, Rejected, ReadLock
<1>9. CASE GetMiss(p)
  <2>1. EmptyKey \notin DOMAIN carry[p] /\ ~closed
    BY <1>9 DEF GetMiss, Rejected
  <2> QED
    BY <1>9, <2>1, MoveDB DEF GetMiss, ReadLock, Writing
<1>10. CASE \/ GetReject(p) \/ GetHit(p)
            \/ BackupReject(p) \/ IterNil(p) \/ UseEnds(p)
  BY <1>3, <1>10, EndsDB DEF GetReject, GetHit, BackupReject, IterNil, UseEnds
<1>11. CASE CloseAgain(p)
  BY <1>3, <1>11, EndsDB DEF CloseAgain
<1>12. CASE CloseWant(p)
  BY <1>12, MoveDB DEF CloseWant, Writing
<1>13. CASE BackupStart(p) \/ IterOpen(p)
  BY <1>13, MoveDB DEF BackupStart, IterOpen, Writing
<1>14. CASE Commit(p) \/ Invalidate(p)
  BY <1>14, CommitDB, InvalidateDB
<1>15. CASE GetRead(p) \/ GetEvict(p) \/ GetFill(p)
  BY <1>15, GetReadDB, GetEvictDB, GetFillDB
<1>16. CASE CloseMark(p) \/ CloseStop(p) \/ ClosePebble(p)
  BY <1>16, CloseDB
<1> QED
  BY <1>4, <1>5, <1>6, <1>7, <1>8, <1>9, <1>10, <1>11, <1>12, <1>13, <1>14,
     <1>15, <1>16 DEF Proceed, Elsewhere

\* Every step keeps the invariant of the handle.
LEMMA NextDB == DBInv /\ [Next]_vars => DBInv'
<1> SUFFICES ASSUME DBInv, [Next]_vars PROVE DBInv'
  OBVIOUS
<1>1. CASE \E p \in Procs : Begin(p) \/ Proceed(p)
  BY <1>1, BeginDB, ProceedDB
<1>2. CASE CacheForgets
  <2>1. PICK k \in Keys : Forgotten(k)
    BY <1>2 DEF CacheForgets
  <2>2. /\ cache' \in [Keys -> Requests \cup {NoEntry}]
        /\ raced' \subseteq Keys
    BY <2>1, ForgottenTyped
  <2>3. TypeOK'
    BY <1>2, <2>2 DEF CacheForgets, DBInv, TypeOK, callVars, flagVars
  <2>4. CallsOK' /\ ReadersInside' /\ CloseOrder'
    BY <1>2 DEF CacheForgets, DBInv, CallsOK, ReadersInside, CloseOrder,
                Pending, callVars, flagVars
  <2>5. LateAreOutside' /\ LateWritesSayClosed'
    BY <1>2 DEF CacheForgets, DBInv, LateAreOutside, LateWritesSayClosed, Req,
                callVars, flagVars
  <2> QED
    BY <2>3, <2>4, <2>5 DEF DBInv
<1>3. CASE MemorySampled
  <2>1. TypeOK'
    BY <1>3 DEF MemorySampled, DBInv, TypeOK, callVars, dataVars
  <2>2. CallsOK' /\ ReadersInside' /\ CloseOrder'
    BY <1>3 DEF MemorySampled, DBInv, CallsOK, ReadersInside, CloseOrder,
                Pending, callVars
  <2>3. LateAreOutside' /\ LateWritesSayClosed'
    BY <1>3 DEF MemorySampled, DBInv, LateAreOutside, LateWritesSayClosed, Req,
                callVars
  <2> QED
    BY <2>1, <2>2, <2>3 DEF DBInv
<1>4. CASE UNCHANGED vars
  <2>1. TypeOK' /\ CallsOK'
    BY <1>4 DEF vars, DBInv, TypeOK, CallsOK
  <2>2. ReadersInside' /\ CloseOrder'
    BY <1>4 DEF vars, DBInv, ReadersInside, CloseOrder, Pending
  <2>3. LateAreOutside' /\ LateWritesSayClosed'
    BY <1>4 DEF vars, DBInv, LateAreOutside, LateWritesSayClosed, Req
  <2> QED
    BY <2>1, <2>2, <2>3 DEF DBInv
<1> QED
  BY <1>1, <1>2, <1>3, <1>4 DEF Next

\* The invariant of the handle holds in every execution.
LEMMA DBInvariant == Spec => []DBInv
  BY InitDB, NextDB, PTL DEF Spec

-----------------------------------------------------------------------------
(* The hot cache                                                            *)

(* A key is not stale after a step if its entry is gone, holds what Pebble  *)
(* does or is marked, and nobody who is about to drop another forgets it.   *)
LEMMA StaleKept ==
  ASSUME StaleOnlyAfterRace, store' = store,
         \A k \in Keys : \/ cache'[k] \in {NoEntry, store[k]} \/ k \in raced'
                         \/ cache'[k] = cache[k] /\ (k \in raced => k \in raced'),
         \A q \in Procs : pc[q] = "invalidate" => \A k \in DOMAIN carry[q] :
           \/ cache'[k] = NoEntry
           \/ pc'[q] = "invalidate" /\ k \in DOMAIN carry'[q]
  PROVE  StaleOnlyAfterRace'
<1>1. SUFFICES ASSUME NEW k \in Keys, cache'[k] \notin {NoEntry, store[k]},
                      k \notin raced'
               PROVE  \E p \in Procs : pc'[p] = "invalidate" /\ k \in DOMAIN carry'[p]
  BY DEF StaleOnlyAfterRace
<1>2. cache[k] \notin {NoEntry, store[k]} /\ k \notin raced
  BY <1>1
<1>3. PICK p \in Procs : pc[p] = "invalidate" /\ k \in DOMAIN carry[p]
  BY <1>2 DEF StaleOnlyAfterRace
<1> QED
  BY <1>1, <1>3

(* A step of one goroutine leaves the calls of the others alone.            *)
LEMMA OthersGoOn ==
  ASSUME DBInv, NEW p \in Procs, Elsewhere(p) \/ Begin(p)
  PROVE  /\ store' = store /\ pc[p] # "invalidate"
         /\ \A q \in Procs : q # p => pc'[q] = pc[q] /\ carry'[q] = carry[q]
<1> USE DEF DBInv, TypeOK, CallsOK, dataVars
<1>1. ASSUME NEW e, Return(p, e)
      PROVE  \A q \in Procs : q # p => pc'[q] = pc[q] /\ carry'[q] = carry[q]
  BY <1>1 DEF Return
<1>2. CASE Begin(p)
  BY <1>2 DEF Begin
<1>3. CASE \/ PutReject(p) \/ SubmitRefused(p) \/ CommitFails(p) \/ Drained(p)
           \/ DirectReject(p) \/ GetReject(p) \/ GetHit(p) \/ CloseAgain(p)
           \/ BackupReject(p) \/ IterNil(p) \/ UseEnds(p)
  BY <1>1, <1>3
     DEF PutReject, SubmitRefused, CommitFails, Drained, DirectReject, GetReject,
         GetHit, CloseAgain, BackupReject, IterNil, UseEnds, Ends
<1>4. CASE \/ PutChecked(p) \/ Submitted(p) \/ DirectChecked(p) \/ GetMiss(p)
           \/ CloseWant(p) \/ BackupStart(p) \/ IterOpen(p)
  BY <1>4
     DEF PutChecked, Submitted, DirectChecked, GetMiss, CloseWant, BackupStart,
         IterOpen, Goes
<1>5. CASE GetRead(p)
  <2>1. /\ pc[p] = "read" /\ store' = store
        /\ \E to, a : /\ pc' = [pc EXCEPT ![p] = to]
                      /\ carry' = [carry EXCEPT ![p] = a]
    BY <1>5 DEF GetRead
  <2> QED
    BY <2>1
<1>6. CASE GetEvict(p) \/ GetFill(p)
  BY <1>1, <1>6 DEF GetEvict, GetFill
<1>7. CASE CloseMark(p) \/ CloseStop(p)
  BY <1>7 DEF CloseMark, CloseStop
<1> QED
  BY <1>2, <1>3, <1>4, <1>5, <1>6, <1>7 DEF Elsewhere

\* A key becomes stale only behind a writer or an overtaken fill.
LEMMA NextStale ==
  ASSUME DBInv, StaleOnlyAfterRace, [Next]_vars
  PROVE  StaleOnlyAfterRace'
<1> USE DEF DBInv, TypeOK, CallsOK
<1>1. ASSUME NEW p \in Procs, Elsewhere(p) \/ Begin(p) PROVE StaleOnlyAfterRace'
  <2>1. /\ store' = store /\ pc[p] # "invalidate"
        /\ \A q \in Procs : q # p => pc'[q] = pc[q] /\ carry'[q] = carry[q]
    BY <1>1, OthersGoOn
  <2>2. \A k \in Keys : \/ cache'[k] \in {NoEntry, store[k]} \/ k \in raced'
                        \/ cache'[k] = cache[k] /\ (k \in raced => k \in raced')
    <3>1. CASE GetEvict(p)
      BY <3>1 DEF GetEvict, Forgotten
    <3>2. CASE GetFill(p)
      BY <3>2 DEF GetFill
    <3>3. CASE UNCHANGED <<cache, raced>>
      BY <3>3
    <3>4. UNCHANGED dataVars => UNCHANGED <<cache, raced>>
      BY DEF dataVars
    <3>5. GetEvict(p) \/ GetFill(p) \/ UNCHANGED dataVars
      BY <1>1
         DEF Begin, Elsewhere, PutReject, SubmitRefused, CommitFails, Drained,
             DirectReject, GetReject, GetHit, CloseAgain, BackupReject, IterNil,
             UseEnds, Ends, PutChecked, Submitted, DirectChecked, GetMiss,
             CloseWant, BackupStart, IterOpen, Goes, GetRead, CloseMark, CloseStop
    <3> QED
      BY <3>1, <3>2, <3>3, <3>4, <3>5
  <2>3. \A q \in Procs : pc[q] = "invalidate" => \A k \in DOMAIN carry[q] :
          pc'[q] = "invalidate" /\ k \in DOMAIN carry'[q]
    BY <2>1
  <2> QED
    BY <2>1, <2>2, <2>3, StaleKept
<1>2. ASSUME NEW p \in Procs, Commit(p) PROVE StaleOnlyAfterRace'
  <2>1. /\ pc' = [pc EXCEPT ![p] = "invalidate"]
        /\ UNCHANGED <<carry, cache, raced>>
        /\ \A k \in Keys : k \notin DOMAIN carry[p] => store'[k] = store[k]
    BY <1>2 DEF Commit
  <2>2. \A q \in Procs : pc[q] = "invalidate" \/ q = p => pc'[q] = "invalidate"
    BY <2>1
  <2> QED
    BY <2>1, <2>2 DEF StaleOnlyAfterRace
<1>3. ASSUME NEW p \in Procs, Invalidate(p) PROVE StaleOnlyAfterRace'
  <2>1. PICK k \in DOMAIN carry[p] : Forgotten(k) /\ NextKey(p, k)
    BY <1>3 DEF Invalidate
  <2>2. store' = store
    BY <1>3 DEF Invalidate
  <2>3. /\ \A x \in Keys : x # k => cache'[x] = cache[x]
        /\ k \in Keys => cache'[k] = NoEntry
        /\ \A x \in Keys : x # k => (x \in raced => x \in raced')
    BY <2>1 DEF Forgotten
  <2>4. \A q \in Procs : q # p => pc'[q] = pc[q] /\ carry'[q] = carry[q]
    BY <2>1 DEF NextKey, Return
  <2>5. \A x \in DOMAIN carry[p] : x # k => pc'[p] = pc[p] /\ x \in DOMAIN carry'[p]
    BY <2>1 DEF NextKey, Restrict
  <2>6. ASSUME NEW x \in Keys, cache'[x] \notin {NoEntry, store[x]}, x \notin raced'
        PROVE  \E q \in Procs : pc'[q] = "invalidate" /\ x \in DOMAIN carry'[q]
    <3>1. x # k /\ cache[x] \notin {NoEntry, store[x]} /\ x \notin raced
      BY <2>3, <2>6
    <3>2. PICK q \in Procs : pc[q] = "invalidate" /\ x \in DOMAIN carry[q]
      BY <3>1 DEF StaleOnlyAfterRace
    <3> QED
      BY <2>4, <2>5, <3>1, <3>2
  <2> QED
    BY <2>2, <2>6 DEF StaleOnlyAfterRace
<1>4. ASSUME NEW p \in Procs, ClosePebble(p) PROVE StaleOnlyAfterRace'
  <2>1. /\ UNCHANGED <<store, cache, raced>> /\ pc[p] = "stopping"
        /\ \A q \in Procs : q # p => pc'[q] = pc[q] /\ carry'[q] = carry[q]
    BY <1>4 DEF ClosePebble, Return, dataVars
  <2> QED
    BY <2>1, StaleKept
<1>5. CASE CacheForgets
  <2>1. PICK k \in Keys : Forgotten(k)
    BY <1>5 DEF CacheForgets
  <2>2. UNCHANGED <<store, pc, carry>>
    BY <1>5 DEF CacheForgets
  <2>3. \A x \in Keys : \/ cache'[x] \in {NoEntry, store[x]} \/ x \in raced'
                        \/ cache'[x] = cache[x] /\ (x \in raced => x \in raced')
    BY <2>1 DEF Forgotten
  <2> QED
    BY <2>2, <2>3, StaleKept
<1>6. CASE MemorySampled \/ UNCHANGED vars
  <2>1. UNCHANGED <<store, cache, raced, pc, carry>>
    BY <1>6 DEF MemorySampled, vars, dataVars
  <2> QED
    BY <2>1, StaleKept
<1> QED
  BY <1>1, <1>2, <1>3, <1>4, <1>5, <1>6 DEF Next, Proceed

-----------------------------------------------------------------------------
(* The theorems                                                             *)

(* The state of the handle is what db.go declares it to be: the calls, the  *)
(* lock, the three flags, Pebble, the hot cache and the answers.            *)
THEOREM DBTypeCorrect == Spec => []TypeOK
<1>1. DBInv => TypeOK
  BY DEF DBInv
<1> QED
  BY <1>1, DBInvariant, PTL

(* db.go:113-128: Close closes Pebble only when nobody under db.mu reads or *)
(* writes it and the queue's consumer, which does not take the lock, has    *)
(* nothing left to commit.                                                  *)
THEOREM PebbleStaysOpen == Spec => []PebbleOpenWhileUsed
<1>1. DBInv => PebbleOpenWhileUsed
  BY OpenInside DEF PebbleOpenWhileUsed
<1> QED
  BY <1>1, DBInvariant, PTL

(* db.go:234-236, 273-275, 315-317: a write called after Close returned is  *)
(* told ErrDBClosed, whichever way it goes.                                 *)
THEOREM LateWritesRefused == Spec => []LateWritesSayClosed
<1>1. DBInv => LateWritesSayClosed
  BY DEF DBInv
<1> QED
  BY <1>1, DBInvariant, PTL

(* db.go:138-145, 205-208, 302-307: whatever puts, batches, reads and       *)
(* evictions interleave, an entry of the hot cache is wrong only while its  *)
(* key waits to be invalidated, or because a Get was overtaken between its  *)
(* read and its fill.                                                       *)
THEOREM StaleOnlyByRace == Spec => []StaleOnlyAfterRace
<1>1. Init => StaleOnlyAfterRace
  BY DEF Init, StaleOnlyAfterRace
<1>2. DBInv /\ StaleOnlyAfterRace /\ [Next]_vars => StaleOnlyAfterRace'
  BY NextStale
<1> QED
  BY <1>1, <1>2, DBInvariant, PTL DEF Spec

-----------------------------------------------------------------------------
(* Prefixes and the replay of a log                                         *)

Prefix(n) == ToSet(SubSeq(log, 1, n))
Writes    == UNION {[K -> Contents] : K \in SUBSET (Keys \cup {EmptyKey})}

(* The writes to k among the first n of w, and that one of them is last.    *)
At(w, k, n) == {i \in 1 .. n : k \in DOMAIN w[i]}
HasLast(w)  ==
  \A k \in Keys, n \in 0 .. Len(w) :
    At(w, k, n) # {} => \E i \in At(w, k, n) : \A j \in At(w, k, n) : j <= i

\* The first n elements of a sequence are a sequence of n elements.
LEMMA PrefixSeq ==
  ASSUME NEW S, NEW q \in Seq(S), NEW n \in 0 .. Len(q)
  PROVE  /\ SubSeq(q, 1, n) \in Seq(S)
         /\ Len(SubSeq(q, 1, n)) = n
         /\ \A i \in 1 .. n : SubSeq(q, 1, n)[i] = q[i]
         /\ DOMAIN SubSeq(q, 1, n) = 1 .. n
<1>1. Len(q) \in Nat /\ n \in Int /\ \A i \in 1 .. n : q[i] \in S
  BY LenProperties, ElementOfSeq
<1>2. /\ SubSeq(q, 1, n) \in Seq(S)
      /\ Len(SubSeq(q, 1, n)) = IF 1 <= n THEN n - 1 + 1 ELSE 0
      /\ \A i \in 1 .. n - 1 + 1 : SubSeq(q, 1, n)[i] = q[1 + i - 1]
  BY <1>1, SubSeqProperties
<1>3. Len(SubSeq(q, 1, n)) = n /\ \A i \in 1 .. n : SubSeq(q, 1, n)[i] = q[i]
  BY <1>1, <1>2
<1> QED
  BY <1>2, <1>3, LenProperties

\* Their set.
LEMMA PrefixElements ==
  ASSUME NEW S, NEW q \in Seq(S), NEW n \in 0 .. Len(q)
  PROVE  ToSet(SubSeq(q, 1, n)) = {q[i] : i \in 1 .. n}
  BY PrefixSeq DEF ToSet

\* A longer prefix has what a shorter one has.
LEMMA PrefixGrows ==
  ASSUME NEW S, NEW q \in Seq(S), NEW n \in 0 .. Len(q), NEW m \in 0 .. n
  PROVE  ToSet(SubSeq(q, 1, m)) \subseteq ToSet(SubSeq(q, 1, n))
<1>1. Len(q) \in Nat /\ m \in 0 .. Len(q) /\ 1 .. m \subseteq 1 .. n
  BY LenProperties
<1> QED
  BY <1>1, PrefixElements

\* Appending to the log leaves its prefixes alone.
LEMMA PrefixOfAppend ==
  ASSUME NEW S, NEW q \in Seq(S), NEW x \in S, NEW n \in 0 .. Len(q)
  PROVE  ToSet(SubSeq(Append(q, x), 1, n)) = ToSet(SubSeq(q, 1, n))
<1>1. /\ Append(q, x) \in Seq(S) /\ Len(Append(q, x)) = Len(q) + 1
      /\ \A i \in 1 .. Len(q) : Append(q, x)[i] = q[i]
      /\ Len(q) \in Nat
  BY AppendProperties, LenProperties
<1>2. n \in 0 .. Len(Append(q, x))
  BY <1>1
<1>3. ToSet(SubSeq(Append(q, x), 1, n)) = {Append(q, x)[i] : i \in 1 .. n}
  BY <1>1, <1>2, PrefixElements
<1>4. {Append(q, x)[i] : i \in 1 .. n} = {q[i] : i \in 1 .. n}
  BY <1>1
<1> QED
  BY <1>3, <1>4, PrefixElements

\* A prefix of a prefix is a prefix.
LEMMA PrefixOfPrefix ==
  ASSUME NEW S, NEW q \in Seq(S), NEW n \in 0 .. Len(q), NEW m \in 0 .. n
  PROVE  ToSet(SubSeq(SubSeq(q, 1, n), 1, m)) = ToSet(SubSeq(q, 1, m))
<1>1. /\ SubSeq(q, 1, n) \in Seq(S) /\ Len(SubSeq(q, 1, n)) = n
      /\ \A i \in 1 .. n : SubSeq(q, 1, n)[i] = q[i]
      /\ Len(q) \in Nat
  BY PrefixSeq, LenProperties
<1>2. m \in 0 .. Len(SubSeq(q, 1, n)) /\ m \in 0 .. Len(q)
  BY <1>1
<1>3. ToSet(SubSeq(SubSeq(q, 1, n), 1, m)) = {SubSeq(q, 1, n)[i] : i \in 1 .. m}
  BY <1>1, <1>2, PrefixElements
<1>4. {SubSeq(q, 1, n)[i] : i \in 1 .. m} = {q[i] : i \in 1 .. m}
  BY <1>1
<1>5. ToSet(SubSeq(q, 1, m)) = {q[i] : i \in 1 .. m}
  BY <1>2, PrefixElements
<1> QED
  BY <1>3, <1>4, <1>5

\* A log with a last write of each key has one after an append.
LEMMA LastOfAppend ==
  ASSUME NEW w \in Seq(Writes), NEW c \in Writes, HasLast(w)
  PROVE  HasLast(Append(w, c))
<1>1. /\ Len(Append(w, c)) = Len(w) + 1 /\ Len(w) \in Nat
      /\ \A i \in 1 .. Len(w) : Append(w, c)[i] = w[i]
      /\ Append(w, c)[Len(w) + 1] = c
  BY AppendProperties, LenProperties
<1> DEFINE v == Append(w, c)
<1>2. \A k \in Keys, n \in 0 .. Len(w) : At(v, k, n) = At(w, k, n)
  BY <1>1 DEF At
<1>3. ASSUME NEW k \in Keys, k \in DOMAIN c
      PROVE  /\ Len(w) + 1 \in At(v, k, Len(w) + 1)
             /\ \A j \in At(v, k, Len(w) + 1) : j <= Len(w) + 1
  BY <1>1, <1>3 DEF At
<1>4. ASSUME NEW k \in Keys, k \notin DOMAIN c
      PROVE  At(v, k, Len(w) + 1) = At(w, k, Len(w))
  BY <1>1, <1>4 DEF At
<1>5. Len(w) \in 0 .. Len(w) /\ 0 .. Len(v) = 0 .. Len(w) \cup {Len(w) + 1}
  BY <1>1
<1> HIDE DEF v
<1> SUFFICES ASSUME NEW k \in Keys, NEW n \in 0 .. Len(v), At(v, k, n) # {}
             PROVE  \E i \in At(v, k, n) : \A j \in At(v, k, n) : j <= i
  BY DEF HasLast, v
<1>6. CASE n \in 0 .. Len(w)
  BY <1>2, <1>6 DEF HasLast
<1>7. CASE n = Len(w) + 1
  BY <1>3, <1>4, <1>5, <1>7 DEF HasLast
<1> QED
  BY <1>5, <1>6, <1>7

\* So has each of its prefixes.
LEMMA LastOfPrefix ==
  ASSUME NEW w \in Seq(Writes), NEW n \in 0 .. Len(w), HasLast(w)
  PROVE  HasLast(SubSeq(w, 1, n))
<1> DEFINE v == SubSeq(w, 1, n)
<1>1. /\ Len(v) = n /\ \A i \in 1 .. n : v[i] = w[i]
      /\ Len(w) \in Nat
  BY PrefixSeq, LenProperties
<1> HIDE DEF v
<1>2. \A k \in Keys, m \in 0 .. n : At(v, k, m) = At(w, k, m)
  BY <1>1 DEF At
<1>3. 0 .. n \subseteq 0 .. Len(w)
  BY <1>1
<1> QED
  BY <1>1, <1>2, <1>3 DEF HasLast, v

(* Replay, with the writes to a key named.                                  *)
LEMMA ReplayAt ==
  ASSUME NEW w \in Seq(Writes), NEW k \in Keys
  PROVE  Replay(w)[k] =
           IF At(w, k, Len(w)) = {} THEN Absent
           ELSE w[Max(At(w, k, Len(w)))][k]
<1>1. {i \in DOMAIN w : k \in DOMAIN w[i]} = At(w, k, Len(w))
  BY LenProperties DEF At
<1> QED
  BY <1>1 DEF Replay

\* Replaying a log gives each key its last write.
LEMMA ReplayLast ==
  ASSUME NEW w \in Seq(Writes), HasLast(w), NEW k \in Keys,
         At(w, k, Len(w)) # {}
  PROVE  \E i \in At(w, k, Len(w)) :
           Replay(w)[k] = w[i][k] /\ \A j \in At(w, k, Len(w)) : j <= i
<1>1. Len(w) \in 0 .. Len(w)
  BY LenProperties
<1>2. \E i \in At(w, k, Len(w)) : \A j \in At(w, k, Len(w)) : j <= i
  BY <1>1 DEF HasLast
<1> QED
  BY <1>2, ReplayAt DEF Max

\* Replaying a log gives contents.
LEMMA ReplayTyped ==
  ASSUME NEW w \in Seq(Writes), HasLast(w)
  PROVE  Replay(w) \in [Keys -> Contents]
<1>1. ASSUME NEW k \in Keys
      PROVE  Replay(w)[k] \in Contents
  <2>1. CASE At(w, k, Len(w)) = {}
    BY <2>1, ReplayAt DEF Contents
  <2>2. CASE At(w, k, Len(w)) # {}
    <3>1. PICK i \in At(w, k, Len(w)) : Replay(w)[k] = w[i][k]
      BY <2>2, ReplayLast
    <3>2. w[i] \in Writes /\ k \in DOMAIN w[i]
      BY <3>1, ElementOfSeq DEF At
    <3> QED
      BY <3>1, <3>2 DEF Writes
  <2> QED
    BY <2>1, <2>2
<1> QED
  BY <1>1 DEF Replay

(* One more write in the log is one more write to the store.                *)
LEMMA ReplayAppend ==
  ASSUME NEW w \in Seq(Writes), NEW c \in Writes, HasLast(w)
  PROVE  Replay(Append(w, c)) =
           [k \in Keys |-> IF k \in DOMAIN c THEN c[k] ELSE Replay(w)[k]]
<1> DEFINE v == Append(w, c)
           N == Len(w)
<1>1. /\ v \in Seq(Writes) /\ Len(v) = N + 1 /\ N \in Nat
      /\ \A i \in 1 .. N : v[i] = w[i]
      /\ v[N + 1] = c
  BY AppendProperties, LenProperties
<1>2. HasLast(v)
  BY LastOfAppend
<1> HIDE DEF v, N
<1>3. ASSUME NEW k \in Keys
      PROVE  Replay(v)[k] = IF k \in DOMAIN c THEN c[k] ELSE Replay(w)[k]
  <2>1. CASE k \in DOMAIN c
    <3>1. N + 1 \in At(v, k, Len(v)) /\ \A j \in At(v, k, Len(v)) : j <= N + 1
      BY <1>1, <2>1 DEF At
    <3>2. PICK i \in At(v, k, Len(v)) :
            Replay(v)[k] = v[i][k] /\ \A j \in At(v, k, Len(v)) : j <= i
      BY <1>1, <1>2, <3>1, ReplayLast
    <3>3. i = N + 1
      BY <1>1, <3>1, <3>2 DEF At
    <3> QED
      BY <1>1, <2>1, <3>2, <3>3
  <2>2. CASE k \notin DOMAIN c
    <3>1. At(v, k, Len(v)) = At(w, k, N)
      BY <1>1, <2>2 DEF At
    <3>2. CASE At(w, k, N) = {}
      BY <1>1, <2>2, <3>1, <3>2, ReplayAt DEF N
    <3>3. CASE At(w, k, N) # {}
      <4>1. PICK i \in At(v, k, Len(v)) :
              Replay(v)[k] = v[i][k] /\ \A j \in At(v, k, Len(v)) : j <= i
        BY <1>1, <1>2, <3>1, <3>3, ReplayLast
      <4>2. PICK h \in At(w, k, N) :
              Replay(w)[k] = w[h][k] /\ \A j \in At(w, k, N) : j <= h
        BY <3>3, ReplayLast DEF N
      <4>3. i = h
        BY <1>1, <3>1, <4>1, <4>2 DEF At
      <4> QED
        BY <1>1, <2>2, <4>1, <4>2, <4>3 DEF At
    <3> QED
      BY <3>2, <3>3
  <2> QED
    BY <2>1, <2>2
<1>4. Replay(v) = [k \in Keys |-> Replay(v)[k]]
  BY DEF Replay
<1> QED
  BY <1>3, <1>4 DEF v

-----------------------------------------------------------------------------
(* The inductive invariant                                                  *)

DiskTyped ==
  /\ config \in Configs
  /\ forced \subseteq Requests
  /\ wal \in Seq(Writes) /\ Len(wal) = Len(log) /\ HasLast(wal)
  /\ durable \in 0 .. Len(log)
  /\ restarts \in 0 .. MaxRestarts

(* A write that returned nil and was to be synced is on disk.               *)
AcknowledgedOnDisk == Acknowledged \subseteq Prefix(durable)

(* Readers see what a restart would rebuild from the whole log.             *)
StoreIsReplay == store = Replay(wal)

(* Once Pebble is closed, with a WAL, the whole log is on disk.             *)
ClosedOnDisk == ~pebbleOpen /\ ~DisableWAL => durable = Len(log)

DiskInv ==
  DBInv /\ DiskTyped /\ AcknowledgedOnDisk /\ StoreIsReplay /\ ClosedOnDisk

\* A new database has an empty log and nothing acknowledged.
LEMMA InitDisk == DurableInit => DiskInv
<1> SUFFICES ASSUME DurableInit PROVE DiskInv
  OBVIOUS
<1>1. DBInv
  BY InitDB DEF DurableInit
<1>2. wal \in Seq(Writes) /\ Len(wal) = 0 /\ Len(log) = 0 /\ wal = <<>>
  BY EmptySeq DEF DurableInit, Init
<1>3. \A k \in Keys, n \in 0 .. 0 : At(wal, k, n) = {}
  BY DEF At
<1>4. HasLast(wal)
  BY <1>2, <1>3 DEF HasLast
<1>5. StoreIsReplay
  <2>1. ASSUME NEW k \in Keys PROVE Replay(wal)[k] = Absent
    <3>1. At(wal, k, Len(wal)) = {}
      BY <1>2, <1>3
    <3> QED
      BY <1>2, <3>1, ReplayAt
  <2>2. Replay(wal) = [k \in Keys |-> Replay(wal)[k]]
    BY DEF Replay
  <2> QED
    BY <2>1, <2>2 DEF StoreIsReplay, DurableInit, Init
<1>6. AcknowledgedOnDisk /\ ClosedOnDisk
  BY DEF AcknowledgedOnDisk, Acknowledged, ClosedOnDisk, DurableInit, Init
<1> QED
  BY <1>1, <1>2, <1>4, <1>5, <1>6, DurabilityAssumption
     DEF DiskInv, DiskTyped, DurableInit

(* A step that leaves the log alone and acknowledges nothing that is not on *)
(* disk.                                                                    *)
LEMMA KeepDisk ==
  ASSUME DiskInv, DBInv',
         UNCHANGED <<config, wal, restarts, log, store>>,
         forced' \subseteq Requests,
         durable' \in durable .. Len(log),
         ~pebbleOpen' /\ ~DisableWAL => durable' = Len(log),
         \A r \in forced' : outcome'[r] = "nil" =>
           r \in Prefix(durable) \/ r \in Acknowledged
  PROVE  DiskInv'
<1>1. log \in Seq(Requests) /\ Len(log) \in Nat
  BY LenProperties DEF DiskInv, DBInv, TypeOK
<1>2. durable' \in 0 .. Len(log) /\ durable \in 0 .. durable'
  BY <1>1 DEF DiskInv, DiskTyped
<1>3. DiskTyped'
  BY <1>2 DEF DiskInv, DiskTyped, HasLast
<1>4. Prefix(durable) \subseteq Prefix(durable)'
  BY <1>1, <1>2, PrefixGrows DEF Prefix
<1>5. AcknowledgedOnDisk'
  BY <1>4 DEF DiskInv, AcknowledgedOnDisk, Acknowledged
<1>6. StoreIsReplay' /\ ClosedOnDisk'
  BY DEF DiskInv, StoreIsReplay, ClosedOnDisk, DisableWAL
<1> QED
  BY <1>3, <1>5, <1>6 DEF DiskInv

\* A call that begins leaves the disk alone.
LEMMA BeginDisk ==
  ASSUME DiskInv, NEW p \in Procs, BeginWrite(p)
  PROVE  DiskInv'
<1>1. DBInv'
  BY BeginDB DEF DiskInv, BeginWrite
<1>2. /\ UNCHANGED <<config, wal, restarts, log, store, durable, outcome>>
      /\ pebbleOpen' = pebbleOpen
  BY DEF BeginWrite, Begin, dataVars, flagVars
<1>3. count[p] \in 0 .. MaxOps /\ count'[p] = count[p] + 1 /\ count[p] < MaxOps
  BY DBAssumption DEF BeginWrite, Begin, DiskInv, DBInv, TypeOK
<1>4. Req(p)' \in Requests /\ outcome[Req(p)'] = "none"
  BY <1>3, DBAssumption DEF DiskInv, DBInv, CallsOK, Req, Requests
<1>5. forced' \subseteq forced \cup {Req(p)'}
  BY DEF BeginWrite
<1>6. durable \in durable .. Len(log)
  BY DEF DiskInv, DiskTyped
<1>7. \A r \in forced' : outcome'[r] = "nil" => r \in Acknowledged
  BY <1>2, <1>4, <1>5 DEF Acknowledged
<1>8. forced' \subseteq Requests
  BY <1>4, <1>5 DEF DiskInv, DiskTyped
<1>9. ~pebbleOpen' /\ ~DisableWAL => durable' = Len(log)
  BY <1>2 DEF DiskInv, ClosedOnDisk
<1> QED
  BY <1>1, <1>2, <1>6, <1>7, <1>8, <1>9, KeepDisk

\* A commit appends to the log, and forces it if it is synced.
LEMMA CommitDisk ==
  ASSUME DiskInv, NEW p \in Procs, CommitLogged(p)
  PROVE  DiskInv'
<1>1. DBInv'
  BY CommitDB DEF DiskInv, CommitLogged
<1>2. /\ pc[p] \in {"pending", "commit"}
      /\ UNCHANGED <<config, forced, restarts, durable, outcome, pebbleOpen>>
      /\ log' = Append(log, Req(p)) /\ wal' = Append(wal, carry[p])
      /\ store' = [k \in Keys |-> IF k \in DOMAIN carry[p] THEN carry[p][k]
                                                           ELSE store[k]]
  BY DEF CommitLogged, Commit, flagVars
<1>3. pebbleOpen
  BY <1>2, OpenInside DEF DiskInv
<1>4. carry[p] \in Writes
  <2>1. /\ carry[p] \in [DOMAIN carry[p] -> Contents]
        /\ DOMAIN carry[p] \in SUBSET (Keys \cup {EmptyKey})
    BY DEF DiskInv, DBInv, TypeOK
  <2> QED
    BY <2>1 DEF Writes
<1>5. Req(p) \in Requests
  BY <1>2 DEF DiskInv, DBInv, CallsOK, Req, Requests
<1>6. /\ log \in Seq(Requests) /\ Len(log) \in Nat
      /\ wal \in Seq(Writes) /\ Len(wal) = Len(log) /\ HasLast(wal)
      /\ durable \in 0 .. Len(log)
  BY LenProperties DEF DiskInv, DBInv, TypeOK, DiskTyped
<1>7. /\ Len(log') = Len(log) + 1
      /\ wal' \in Seq(Writes) /\ Len(wal') = Len(wal) + 1
  BY <1>2, <1>4, <1>5, <1>6, AppendProperties
<1>8. HasLast(wal')
  BY <1>2, <1>4, <1>6, LastOfAppend
<1>9. DiskTyped'
  <2>1. HasLast(wal)'
    BY <1>8 DEF HasLast
  <2>2. durable' \in 0 .. Len(log')
    BY <1>2, <1>6, <1>7
  <2> QED
    BY <1>2, <1>6, <1>7, <2>1, <2>2 DEF DiskInv, DiskTyped
<1>10. Prefix(durable)' = Prefix(durable)
  BY <1>2, <1>5, <1>6, PrefixOfAppend DEF Prefix
<1>11. AcknowledgedOnDisk'
  BY <1>2, <1>10 DEF DiskInv, AcknowledgedOnDisk, Acknowledged
<1>12. StoreIsReplay'
  <2>1. Replay(wal') =
          [k \in Keys |-> IF k \in DOMAIN carry[p] THEN carry[p][k]
                                                   ELSE Replay(wal)[k]]
    BY <1>2, <1>4, <1>6, ReplayAppend
  <2>2. store = Replay(wal)
    BY DEF DiskInv, StoreIsReplay
  <2>3. Replay(wal)' = Replay(wal')
    BY DEF Replay
  <2> QED
    BY <1>2, <2>1, <2>2, <2>3 DEF StoreIsReplay
<1>13. ClosedOnDisk'
  BY <1>2, <1>3 DEF ClosedOnDisk
<1> QED
  BY <1>1, <1>9, <1>11, <1>12, <1>13 DEF DiskInv

\* A synced write is acknowledged only when it is on disk.
LEMMA InvalidateDisk ==
  ASSUME DiskInv, NEW p \in Procs, InvalidateSynced(p)
  PROVE  DiskInv'
<1>1. DBInv'
  BY InvalidateDB DEF DiskInv, InvalidateSynced
<1>2. /\ UNCHANGED <<config, forced, wal, restarts, log, store, durable>>
      /\ pebbleOpen' = pebbleOpen
      /\ Req(p) \in forced => Req(p) \in Prefix(durable)
  BY DEF InvalidateSynced, Invalidate, flagVars, diskVars, Synced, SyncWrite,
         Prefix
<1>3. \A r \in Requests : r # Req(p) => outcome'[r] = outcome[r]
  BY DEF InvalidateSynced, Invalidate, NextKey, Return, DiskInv, DBInv, TypeOK
<1>4. forced' \subseteq Requests /\ durable' \in durable .. Len(log)
  BY <1>2 DEF DiskInv, DiskTyped
<1>5. \A r \in forced' : outcome'[r] = "nil" =>
        r \in Prefix(durable) \/ r \in Acknowledged
  BY <1>2, <1>3, <1>4 DEF Acknowledged
<1>6. ~pebbleOpen' /\ ~DisableWAL => durable' = Len(log)
  BY <1>2 DEF DiskInv, ClosedOnDisk
<1> QED
  BY <1>1, <1>2, <1>4, <1>5, <1>6, KeepDisk

\* Close puts the whole log on disk, where there is one.
LEMMA CloseDisk ==
  ASSUME DiskInv, NEW p \in Procs, CloseFlushes(p)
  PROVE  DiskInv'
<1>1. DBInv'
  BY CloseDB DEF DiskInv, CloseFlushes
<1>2. /\ UNCHANGED <<config, forced, wal, restarts, log, store>>
      /\ outcome' = outcome
  BY DEF CloseFlushes, ClosePebble, Return, Writing, dataVars
<1>3. Len(log) \in Nat /\ durable \in 0 .. Len(log)
  BY LenProperties DEF DiskInv, DBInv, TypeOK, DiskTyped
<1>4. /\ durable' \in durable .. Len(log)
      /\ ~DisableWAL => durable' = Len(log)
  BY <1>3 DEF CloseFlushes, OnDisk
<1>5. \A r \in forced' : outcome'[r] = "nil" => r \in Acknowledged
  BY <1>2 DEF Acknowledged
<1> QED
  BY <1>1, <1>2, <1>4, <1>5, KeepDisk DEF DiskInv, DiskTyped

(* The other steps of a call leave the log alone and return nil to nobody   *)
(* who writes.                                                              *)
LEMMA ElsewhereFrame ==
  ASSUME DBInv, NEW p \in Procs, Elsewhere(p)
  PROVE  /\ UNCHANGED <<log, store, pebbleOpen>>
         /\ \A r \in Requests : outcome'[r] = "nil" => outcome[r] = "nil"
<1>1. ASSUME NEW e, e # "nil", Ends(p, e)
      PROVE  /\ UNCHANGED <<log, store, pebbleOpen>>
             /\ \A r \in Requests : outcome'[r] = "nil" => outcome[r] = "nil"
  BY <1>1 DEF Ends, Return, dataVars, flagVars, DBInv, TypeOK
<1>2. ASSUME NEW to, Goes(p, to)
      PROVE  UNCHANGED <<log, store, pebbleOpen, outcome>>
  BY <1>2 DEF Goes, dataVars, flagVars
<1>3. \A e \in Rejected(p) : e # "nil"
  BY DEF Rejected
<1>4. CASE \/ PutReject(p) \/ SubmitRefused(p) \/ CommitFails(p) \/ Drained(p)
           \/ DirectReject(p) \/ GetReject(p) \/ GetHit(p) \/ CloseAgain(p)
           \/ BackupReject(p) \/ IterNil(p) \/ UseEnds(p)
  <2>1. \E e : e # "nil" /\ Ends(p, e)
    BY <1>3, <1>4 DEF PutReject, SubmitRefused, CommitFails, Drained, DrainedAs,
       DirectReject, GetReject, GetHit, CloseAgain, BackupReject, IterNil,
       UseEnds
  <2> QED
    BY <1>1, <2>1
<1>5. CASE \/ PutChecked(p) \/ Submitted(p) \/ DirectChecked(p) \/ GetMiss(p)
           \/ CloseWant(p) \/ BackupStart(p) \/ IterOpen(p)
  <2>1. \E to : Goes(p, to)
    BY <1>5 DEF PutChecked, Submitted, DirectChecked, GetMiss, CloseWant,
                BackupStart, IterOpen
  <2> QED
    BY <1>2, <2>1
<1>6. CASE GetRead(p) \/ CloseMark(p) \/ CloseStop(p)
  BY <1>6 DEF GetRead, CloseMark, CloseStop, dataVars, flagVars
<1>7. CASE GetEvict(p) \/ GetFill(p)
  <2>1. pc[p] \in {"evict", "fill"} /\ Return(p, "none")
    BY <1>7 DEF GetEvict, GetFill
  <2>2. UNCHANGED <<log, store, pebbleOpen>>
    BY <1>7 DEF GetEvict, GetFill, flagVars
  <2>3. outcome' = outcome
    BY <2>1 DEF Return, Writing
  <2> QED
    BY <2>2, <2>3
<1> QED
  BY <1>4, <1>5, <1>6, <1>7 DEF Elsewhere

\* All other steps leave the disk alone.
LEMMA ElsewhereDisk ==
  ASSUME DiskInv, NEW p \in Procs, Elsewhere(p), UNCHANGED diskVars
  PROVE  DiskInv'
<1>1. DBInv'
  BY ProceedDB DEF DiskInv, Proceed
<1>2. /\ UNCHANGED <<log, store, pebbleOpen>>
      /\ \A r \in Requests : outcome'[r] = "nil" => outcome[r] = "nil"
  BY ElsewhereFrame DEF DiskInv
<1>3. UNCHANGED <<config, forced, wal, durable, restarts>>
  BY DEF diskVars
<1>4. forced' \subseteq Requests /\ durable' \in durable .. Len(log)
  BY <1>3 DEF DiskInv, DiskTyped
<1>5. \A r \in forced' : outcome'[r] = "nil" => r \in Acknowledged
  BY <1>2, <1>3, <1>4 DEF Acknowledged
<1>6. ~pebbleOpen' /\ ~DisableWAL => durable' = Len(log)
  BY <1>2, <1>3 DEF DiskInv, ClosedOnDisk
<1> QED
  BY <1>1, <1>2, <1>3, <1>4, <1>5, <1>6, KeepDisk

(* A crash or a restart loses no more than what was not on disk.            *)
LEMMA RestartDisk ==
  ASSUME DiskInv, Restart
  PROVE  DiskInv'
<1> DEFINE n == durable'
<1>1. /\ log \in Seq(Requests) /\ Len(log) \in Nat
      /\ wal \in Seq(Writes) /\ Len(wal) = Len(log) /\ HasLast(wal)
      /\ durable \in 0 .. Len(log)
  BY LenProperties DEF DiskInv, DBInv, TypeOK, DiskTyped
<1>2. /\ n \in 0 .. Len(log) /\ durable \in 0 .. n
      /\ log' = SubSeq(log, 1, n) /\ wal' = SubSeq(wal, 1, n)
      /\ store' = Replay(wal')
  BY <1>1 DEF Restart, OnDisk
<1> HIDE DEF n
<1>3. /\ log' \in Seq(Requests) /\ Len(log') = n
      /\ wal' \in Seq(Writes) /\ Len(wal') = n /\ HasLast(wal')
  BY <1>1, <1>2, PrefixSeq, LastOfPrefix
<1>4. store' \in [Keys -> Contents]
  BY <1>2, <1>3, ReplayTyped
<1>5. TypeOK'
  <2>1. \A p \in Procs :
          carry'[p] \in [DOMAIN carry'[p] -> Contents]
            /\ DOMAIN carry'[p] \subseteq Keys \cup {EmptyKey}
    BY NothingCarried DEF Restart
  <2> QED
    BY <1>3, <1>4, <2>1 DEF Restart, DiskInv, DBInv, TypeOK
<1>6. CallsOK' /\ ReadersInside' /\ CloseOrder'
  BY DEF Restart, DiskInv, DBInv, CallsOK, ReadersInside, CloseOrder, Pending
<1>7. LateAreOutside' /\ LateWritesSayClosed'
  BY DEF Restart, LateAreOutside, LateWritesSayClosed
<1>8. DiskTyped'
  <2>1. HasLast(wal)'
    BY <1>3 DEF HasLast
  <2>2. restarts' \in 0 .. MaxRestarts
    BY DurabilityAssumption DEF Restart, DiskInv, DiskTyped
  <2>3. durable' \in 0 .. Len(log')
    <3>1. n \in 0 .. n /\ Len(log') = n
      BY <1>1, <1>2, <1>3
    <3>2. n \in 0 .. Len(log')
      BY <3>1
    <3> QED
      BY <3>2 DEF n
  <2> QED
    BY <1>3, <2>1, <2>2, <2>3 DEF Restart, DiskInv, DiskTyped
<1>9. AcknowledgedOnDisk'
  <2>1. Prefix(durable) \subseteq ToSet(SubSeq(log, 1, n))
    BY <1>1, <1>2, PrefixGrows DEF Prefix
  <2>2. n \in 0 .. n
    BY <1>2
  <2>3. ToSet(SubSeq(log', 1, n)) = ToSet(SubSeq(log, 1, n))
    BY <1>1, <1>2, <2>2, PrefixOfPrefix
  <2>4. Acknowledged' = Acknowledged
    BY DEF Acknowledged, Restart
  <2>5. Prefix(durable)' = ToSet(SubSeq(log', 1, n))
    BY DEF Prefix, n
  <2> QED
    BY <2>1, <2>3, <2>4, <2>5 DEF DiskInv, AcknowledgedOnDisk
<1>10. StoreIsReplay'
  BY <1>2 DEF StoreIsReplay, Replay
<1>11. ClosedOnDisk'
  BY <1>3 DEF ClosedOnDisk, n
<1> QED
  BY <1>5, <1>6, <1>7, <1>8, <1>9, <1>10, <1>11 DEF DiskInv, DBInv

\* Every step, crash and restart keeps the invariant of the disk.
LEMMA NextDisk == DiskInv /\ [DurableNext]_allVars => DiskInv'
<1> SUFFICES ASSUME DiskInv, [DurableNext]_allVars PROVE DiskInv'
  OBVIOUS
<1>1. ASSUME NEW p \in Procs,
             \/ BeginWrite(p) \/ CommitLogged(p) \/ InvalidateSynced(p)
             \/ CloseFlushes(p)
             \/ Elsewhere(p) /\ UNCHANGED diskVars
      PROVE  DiskInv'
  BY <1>1, BeginDisk, CommitDisk, InvalidateDisk, CloseDisk, ElsewhereDisk
<1>2. durable \in 0 .. Len(log) /\ forced \subseteq Requests /\ Len(log) \in Nat
  BY LenProperties DEF DiskInv, DBInv, TypeOK, DiskTyped
<1>3. \A r \in forced : outcome[r] = "nil" => r \in Acknowledged
  BY DEF Acknowledged
<1>4. CASE (CacheForgets \/ MemorySampled) /\ UNCHANGED diskVars
  <2>1. DBInv'
    BY <1>4, NextDB DEF Next, DiskInv
  <2>2. UNCHANGED <<config, forced, wal, restarts, log, store, durable, outcome,
                    pebbleOpen>>
    BY <1>4 DEF CacheForgets, MemorySampled, diskVars, flagVars, dataVars
  <2>3. ~pebbleOpen' /\ ~DisableWAL => durable' = Len(log)
    BY <2>2 DEF DiskInv, ClosedOnDisk
  <2> QED
    BY <1>2, <1>3, <2>1, <2>2, <2>3, KeepDisk
<1>5. CASE Flush
  <2>1. DBInv'
    BY <1>5, NextDB DEF Flush, DiskInv
  <2>2. /\ UNCHANGED <<config, forced, wal, restarts, log, store, outcome>>
        /\ pebbleOpen'
        /\ durable' \in durable .. Len(log)
    BY <1>5 DEF Flush, OnDisk, vars
  <2> QED
    BY <1>2, <1>3, <2>1, <2>2, KeepDisk
<1>6. CASE Restart
  BY <1>6, RestartDisk
<1>7. CASE UNCHANGED allVars
  <2>1. UNCHANGED vars /\ UNCHANGED <<config, forced, wal, durable, restarts>>
    BY <1>7 DEF allVars
  <2>2. DBInv'
    BY <2>1, NextDB DEF DiskInv
  <2>3. UNCHANGED <<log, store, outcome, pebbleOpen>>
    BY <2>1 DEF vars
  <2>4. ~pebbleOpen' /\ ~DisableWAL => durable' = Len(log)
    BY <2>1, <2>3 DEF DiskInv, ClosedOnDisk
  <2> QED
    BY <1>2, <1>3, <2>1, <2>2, <2>3, <2>4, KeepDisk
<1> QED
  BY <1>1, <1>4, <1>5, <1>6, <1>7 DEF DurableNext

\* The invariant of the disk holds in every execution.
LEMMA DiskInvariant == DurableSpec => []DiskInv
  BY InitDisk, NextDisk, PTL DEF DurableSpec

-----------------------------------------------------------------------------
(* The theorems                                                             *)

(* db.go:44-75: the handle and its log are what they are declared to be,    *)
(* through crashes and restarts.                                            *)
THEOREM DurableTypeCorrect == DurableSpec => []DurableTypeOK
<1>1. DiskInv => DurableTypeOK
  BY DEF DiskInv, DBInv, DiskTyped, DurableTypeOK
<1> QED
  BY <1>1, DiskInvariant, PTL

(* ops.md:117-131, db.go:229-246: a write that returned nil from PutSync,   *)
(* or while AsyncWAL was off, is in whatever a crash leaves or a checkpoint *)
(* copies, in every WAL mode and after any number of restarts.              *)
THEOREM AcknowledgedSurvives == DurableSpec => []ForcedIsDurable
<1>1. ASSUME DiskInv PROVE ForcedIsDurable
  <2>1. /\ log \in Seq(Requests) /\ Len(log) \in Nat
        /\ durable \in 0 .. Len(log)
    BY <1>1, LenProperties DEF DiskInv, DBInv, TypeOK, DiskTyped
  <2>2. ASSUME NEW n \in OnDisk
        PROVE  Acknowledged \subseteq ToSet(SubSeq(log, 1, n))
    <3>1. n \in 0 .. Len(log) /\ durable \in 0 .. n
      BY <2>1, <2>2 DEF OnDisk
    <3>2. Prefix(durable) \subseteq ToSet(SubSeq(log, 1, n))
      BY <2>1, <3>1, PrefixGrows DEF Prefix
    <3> QED
      BY <1>1, <3>2 DEF DiskInv, AcknowledgedOnDisk
  <2> QED
    BY <2>2 DEF ForcedIsDurable
<1> QED
  BY <1>1, DiskInvariant, PTL

(* ops.md:120, db.go:113-128: with a WAL, opening the database after a      *)
(* Close shows exactly what was last visible.                               *)
THEOREM CleanRestartComplete == DurableSpec => CleanRestartLosesNothing
<1>1. ASSUME DiskInv, [DurableNext]_allVars
      PROVE  [restarts' # restarts /\ ~pebbleOpen /\ ~DisableWAL
                => store' = store]_allVars
  <2>1. CASE Restart
    <3>1. /\ log \in Seq(Requests) /\ Len(log) \in Nat
          /\ wal \in Seq(Writes) /\ Len(wal) = Len(log)
      BY <1>1, LenProperties DEF DiskInv, DBInv, TypeOK, DiskTyped
    <3>2. ASSUME ~pebbleOpen, ~DisableWAL PROVE store' = store
      <4>1. durable' = Len(wal)
        BY <1>1, <2>1, <3>1, <3>2 DEF DiskInv, ClosedOnDisk, Restart, OnDisk
      <4>2. wal' = wal
        BY <2>1, <3>1, <4>1, SubSeqFull DEF Restart
      <4>3. store = Replay(wal)
        BY <1>1 DEF DiskInv, StoreIsReplay
      <4> QED
        BY <2>1, <4>2, <4>3 DEF Restart
    <3> QED
      BY <3>2
  <2>2. CASE ~Restart
    <3>1. restarts' = restarts
      BY <1>1, <2>2 DEF DurableNext, BeginWrite, CommitLogged, InvalidateSynced,
         CloseFlushes, Flush, diskVars, allVars
    <3> QED
      BY <3>1
  <2> QED
    BY <2>1, <2>2
<1> QED
  BY <1>1, DiskInvariant, PTL DEF DurableSpec, CleanRestartLosesNothing

(* db.go:205-208, 302-307: a restart starts with an empty cache, and        *)
(* between restarts an entry is wrong only as StaleOnlyByRace says.         *)
THEOREM StaleOnlyByRaceOnDisk == DurableSpec => []StaleOnlyAfterRace
<1>1. DurableInit => StaleOnlyAfterRace
  BY DEF DurableInit, Init, StaleOnlyAfterRace
<1>2. ASSUME DiskInv, StaleOnlyAfterRace, [DurableNext]_allVars
      PROVE  StaleOnlyAfterRace'
  <2>1. CASE Restart
    BY <2>1 DEF Restart, StaleOnlyAfterRace
  <2>2. CASE [Next]_vars
    BY <1>2, <2>2, NextStale DEF DiskInv
  <2>3. Restart \/ [Next]_vars
    BY <1>2
       DEF DurableNext, BeginWrite, CommitLogged, InvalidateSynced, CloseFlushes,
           Flush, allVars, Next, Proceed
  <2> QED
    BY <2>1, <2>2, <2>3
<1> QED
  BY <1>1, <1>2, DiskInvariant, PTL DEF DurableSpec

-----------------------------------------------------------------------------
(* The database handle on a disk implements DurableWrites: each of its      *)
(* steps is a call, a write that takes effect, a return, a hardening of the *)
(* log, a crash, or changes nothing a caller can see.                       *)

OpenCalls == {Req(p) : p \in {q \in Procs : pc[q] \in Writing}}
Early     == Writing \ {"invalidate"}

(* A write is in the log once its caller has passed the commit, not before, *)
(* and no write is there that was not called.                               *)
Effects ==
  /\ \A p \in Procs : pc[p] \in Early => Req(p) \notin ToSet(log)
  /\ \A p \in Procs : pc[p] = "invalidate" => Req(p) \in ToSet(log)
  /\ \A p \in Procs, n \in 1 .. MaxOps :
       n > count[p] => <<p, n>> \notin ToSet(log)

(* The abstract specification reads sequences with the same operators.      *)
LEMMA SameReading ==
  \A q : Promise!ToSet(q) = ToSet(q) /\ Promise!IsInjective(q) = IsInjective(q)
  BY DEF Promise!ToSet, ToSet, Promise!IsInjective, IsInjective

\* A new database is a new DurableWrites.
LEMMA InitPromise == DurableInit => Promise!MInit /\ Effects
<1> SUFFICES ASSUME DurableInit PROVE Promise!MInit /\ Effects
  OBVIOUS
<1>1. OpenCalls = {} /\ ToSet(log) = {}
  BY ToSetEmpty DEF DurableInit, Init, OpenCalls, Writing
<1>2. Promise!MInit
  BY <1>1 DEF DurableInit, Init, Promise!MInit, Promise!AInit, OpenCalls
<1>3. Effects
  BY <1>1 DEF DurableInit, Init, Effects, Early, Writing
<1> QED
  BY <1>2, <1>3

(* One goroutine moves to `to`; the others stay where they are.             *)
LEMMA OpenAfter ==
  ASSUME DBInv, NEW p \in Procs, NEW to, pc' = [pc EXCEPT ![p] = to],
         count' = count
  PROVE  /\ OpenCalls' = IF to \in Writing THEN OpenCalls \cup {Req(p)}
                                          ELSE OpenCalls \ {Req(p)}
         /\ pc[p] \in Writing => Req(p) \in OpenCalls
         /\ pc[p] \notin Writing => Req(p) \notin OpenCalls
<1>1. \A q \in Procs : Req(q)' = Req(q) /\ (q # p => Req(q) # Req(p))
  BY DEF Req
<1>2. \A q \in Procs : pc'[q] = IF q = p THEN to ELSE pc[q]
  BY DEF DBInv, TypeOK
<1> QED
  BY <1>1, <1>2 DEF OpenCalls

(* What a step without effect on the log does to a call: it refuses a write *)
(* that has not committed, or leaves every answer alone.                    *)
LEMMA ElsewhereCall ==
  ASSUME DBInv, NEW p \in Procs, Elsewhere(p)
  PROVE  /\ UNCHANGED <<count, log>>
         /\ \E to :
              /\ pc' = [pc EXCEPT ![p] = to]
              /\ \/ /\ pc[p] \in Early /\ to = "idle"
                    /\ \E e \in Refusals : outcome' = [outcome EXCEPT ![Req(p)] = e]
                 \/ /\ pc[p] \in Early /\ to \in Early /\ outcome' = outcome
                 \/ /\ pc[p] \notin Writing /\ to \notin Writing
                    /\ outcome' = outcome
<1> USE DEF Writing, Early
<1>1. ASSUME NEW e, Ends(p, e)
      PROVE  /\ UNCHANGED <<count, log>>
             /\ pc' = [pc EXCEPT ![p] = "idle"]
             /\ outcome' = IF pc[p] \in Writing
                           THEN [outcome EXCEPT ![Req(p)] = e] ELSE outcome
  BY <1>1 DEF Ends, Return, dataVars, flagVars, callVars
<1>2. ASSUME NEW to, Goes(p, to)
      PROVE  UNCHANGED <<count, log, outcome>> /\ pc' = [pc EXCEPT ![p] = to]
  BY <1>2 DEF Goes, dataVars, flagVars, callVars
<1>3. \A e \in Rejected(p) : e \in Refusals
  BY DEF Rejected, Refusals
<1>4. CASE PutReject(p) \/ SubmitRefused(p) \/ CommitFails(p) \/ Drained(p)
             \/ DirectReject(p)
  <2>1. pc[p] \in Early /\ \E e \in Refusals : Ends(p, e)
    BY <1>3, <1>4 DEF PutReject, SubmitRefused, CommitFails, Drained, DrainedAs,
       DirectReject, Refusals
  <2> QED
    BY <1>1, <2>1
<1>5. CASE GetReject(p) \/ GetHit(p) \/ CloseAgain(p) \/ BackupReject(p)
             \/ IterNil(p) \/ UseEnds(p)
  <2>1. pc[p] \notin Writing /\ \E e : Ends(p, e)
    BY <1>5 DEF GetReject, GetHit, CloseAgain, BackupReject, IterNil, UseEnds
  <2> QED
    BY <1>1, <2>1
<1>6. CASE PutChecked(p) \/ Submitted(p) \/ DirectChecked(p)
  <2>1. pc[p] \in Early /\ \E to \in Early : Goes(p, to)
    BY <1>6 DEF PutChecked, Submitted, DirectChecked
  <2> QED
    BY <1>2, <2>1
<1>7. CASE GetMiss(p) \/ CloseWant(p) \/ BackupStart(p) \/ IterOpen(p)
  <2>1. pc[p] \notin Writing /\ \E to : to \notin Writing /\ Goes(p, to)
    BY <1>7 DEF GetMiss, CloseWant, BackupStart, IterOpen
  <2> QED
    BY <1>2, <2>1
<1>8. CASE GetRead(p)
  <2>1. /\ pc[p] = "read" /\ UNCHANGED <<count, log, outcome>>
        /\ \E found : pc' = [pc EXCEPT ![p] = AfterRead(found)]
    BY <1>8 DEF GetRead, dataVars, callVars
  <2>2. \A found : AfterRead(found) \notin Writing
    BY DEF AfterRead
  <2> QED
    BY <2>1, <2>2
<1>9. CASE CloseMark(p) \/ CloseStop(p)
  BY <1>9 DEF CloseMark, CloseStop, dataVars, callVars
<1>10. CASE GetEvict(p) \/ GetFill(p)
  BY <1>10 DEF GetEvict, GetFill, Return, callVars
<1> QED
  BY <1>4, <1>5, <1>6, <1>7, <1>8, <1>9, <1>10 DEF Elsewhere

\* What is not a write nor reaches the disk is a stutter or a return.
LEMMA ElsewhereRefines ==
  ASSUME DiskInv, Effects, NEW p \in Procs, Elsewhere(p), UNCHANGED diskVars
  PROVE  Effects' /\ [Promise!MNext]_(Promise!mvars)
<1>1. /\ UNCHANGED <<count, log, forced, durable>>
      /\ DBInv
      /\ Req(p) \in Requests \/ pc[p] = "idle"
  BY ElsewhereCall DEF DiskInv, diskVars, DBInv, CallsOK, Req, Requests
<1>2. PICK to :
        /\ pc' = [pc EXCEPT ![p] = to]
        /\ \/ /\ pc[p] \in Early /\ to = "idle"
              /\ \E e \in Refusals : outcome' = [outcome EXCEPT ![Req(p)] = e]
           \/ /\ pc[p] \in Early /\ to \in Early /\ outcome' = outcome
           \/ /\ pc[p] \notin Writing /\ to \notin Writing /\ outcome' = outcome
  BY ElsewhereCall DEF DiskInv
<1>3. /\ \A q \in Procs : pc'[q] = IF q = p THEN to ELSE pc[q]
      /\ \A q \in Procs : Req(q)' = Req(q)
  BY <1>1, <1>2 DEF DiskInv, DBInv, TypeOK, Req
<1>4. Effects'
  BY <1>1, <1>2, <1>3 DEF Effects, Early, Writing
<1>5. /\ OpenCalls' = IF to \in Writing THEN OpenCalls \cup {Req(p)}
                                       ELSE OpenCalls \ {Req(p)}
      /\ pc[p] \in Writing => Req(p) \in OpenCalls
      /\ pc[p] \notin Writing => Req(p) \notin OpenCalls
  BY <1>1, <1>2, OpenAfter DEF DiskInv
<1>6. CASE /\ outcome' = outcome
           /\ \/ pc[p] \in Early /\ to \in Early
              \/ pc[p] \notin Writing /\ to \notin Writing
  <2>1. OpenCalls' = OpenCalls
    BY <1>5, <1>6 DEF Early
  <2> QED
    BY <1>1, <1>4, <1>6, <2>1 DEF Promise!mvars, OpenCalls
<1>7. ASSUME NEW e \in Refusals, pc[p] \in Early, to = "idle",
             outcome' = [outcome EXCEPT ![Req(p)] = e]
      PROVE  Promise!MNext
  <2>0. PICK r : r = Req(p)
    OBVIOUS
  <2>1. /\ OpenCalls' = OpenCalls \ {r} /\ r \in OpenCalls
        /\ r \notin ToSet(log) /\ e # "nil" /\ r \in Requests
        /\ outcome' = [outcome EXCEPT ![r] = e]
    BY <1>1, <1>5, <1>7, <2>0 DEF Early, Writing, Effects, Refusals
  <2>2. Promise!MReturn(r, e)
    <3>1. Promise!Return(r, e)
      BY <1>1, <1>7, <2>1, SameReading
         DEF Promise!Return, Promise!Effective, OpenCalls
    <3> QED
      BY <1>1, <2>1, <3>1 DEF Promise!MReturn
  <2> QED
    BY <2>1, <2>2 DEF Promise!MNext
<1> QED
  BY <1>2, <1>4, <1>6, <1>7

\* The begin of a write is a Call.
LEMMA BeginRefines ==
  ASSUME DiskInv, Effects, NEW p \in Procs, BeginWrite(p)
  PROVE  Effects' /\ [Promise!MNext]_(Promise!mvars)
<1>1. /\ pc[p] = "idle" /\ count[p] \in 0 .. MaxOps
      /\ count' = [count EXCEPT ![p] = @ + 1] /\ count[p] + 1 \in 1 .. MaxOps
      /\ UNCHANGED <<log, outcome, durable>>
      /\ count \in [Procs -> 0 .. MaxOps]
      /\ pc \in [Procs -> Places]
  BY DBAssumption
     DEF BeginWrite, Begin, DiskInv, DBInv, TypeOK, dataVars, Places
<1>2. PICK r : r = <<p, count[p] + 1>>
  OBVIOUS
<1>3. Req(p)' = r /\ r \in Requests /\ outcome[r] = "none" /\ r \notin ToSet(log)
  <2>1. count[p] + 1 > count[p]
    BY <1>1
  <2> QED
    BY <1>1, <1>2, <2>1 DEF Req, Requests, DiskInv, DBInv, CallsOK, Effects
<1>4. PICK entry \in Entries : pc' = [pc EXCEPT ![p] = entry]
  BY DEF BeginWrite, Begin
<1>5. /\ \A q \in Procs : pc'[q] = IF q = p THEN entry ELSE pc[q]
      /\ \A q \in Procs : q # p => Req(q)' = Req(q) /\ Req(q) # r
      /\ \A q \in Procs : count'[q] = IF q = p THEN count[p] + 1 ELSE count[q]
  BY <1>1, <1>2, <1>4 DEF Req
<1>6. Effects'
  <2>1. \A q \in Procs, n \in 1 .. MaxOps : n > count'[q] => n > count[q]
    BY <1>1, <1>5
  <2> QED
    BY <1>1, <1>3, <1>4, <1>5, <2>1 DEF Effects, Early, Writing, Entries
<1>7. r \notin OpenCalls
  <2>1. Req(p) # r
    BY <1>1, <1>2 DEF Req
  <2> QED
    BY <1>5, <2>1 DEF OpenCalls
<1>8. OpenCalls' = IF entry \in Writing THEN OpenCalls \cup {r} ELSE OpenCalls
  <2>1. \A q \in Procs : pc'[q] \in Writing <=>
          IF q = p THEN entry \in Writing ELSE pc[q] \in Writing
    BY <1>5
  <2>2. pc[p] \notin Writing
    BY <1>1 DEF Writing
  <2> QED
    BY <1>3, <1>5, <2>1, <2>2 DEF OpenCalls
<1>9. /\ forced' \in {forced, forced \cup {r}}
      /\ entry \notin Writing => forced' = forced
  <2>1. pc'[p] = entry
    BY <1>5
  <2>2. PICK sync \in SyncOptions(pc'[p], carry'[p]) :
          forced' = IF sync THEN forced \cup {r} ELSE forced
    BY <1>3 DEF BeginWrite
  <2>3. entry \notin Writing => ~sync
    BY <2>1, <2>2 DEF SyncOptions, Writing, Entries
  <2> QED
    BY <2>2, <2>3
<1>10. CASE entry \in Writing
  <2>1. Promise!Call(r)
    BY <1>1, <1>3, <1>7, <1>8, <1>10 DEF Promise!Call, OpenCalls
  <2>2. Promise!MCall(r)
    BY <1>1, <1>9, <2>1 DEF Promise!MCall
  <2> QED
    BY <1>3, <1>6, <2>2 DEF Promise!MNext
<1>11. CASE entry \notin Writing
  BY <1>1, <1>6, <1>8, <1>9, <1>11 DEF Promise!mvars, OpenCalls
<1> QED
  BY <1>10, <1>11

\* A commit is the instant at which the write takes effect.
LEMMA CommitRefines ==
  ASSUME DiskInv, Effects, NEW p \in Procs, CommitLogged(p)
  PROVE  Effects' /\ [Promise!MNext]_(Promise!mvars)
<1>1. /\ pc[p] \in Early /\ pc' = [pc EXCEPT ![p] = "invalidate"]
      /\ log' = Append(log, Req(p))
      /\ UNCHANGED <<count, outcome, forced, durable>>
      /\ log \in Seq(Requests) /\ Len(log) \in Nat
      /\ count[p] \in 1 .. MaxOps
  BY LenProperties
     DEF CommitLogged, Commit, callVars, Early, Writing, DiskInv, DBInv, TypeOK,
         CallsOK
<1>2. PICK r : r = Req(p)
  OBVIOUS
<1>3. r \in Requests /\ r \notin ToSet(log)
  BY <1>1, <1>2 DEF Req, Requests, Effects
<1>4. /\ \A q \in Procs : pc'[q] = IF q = p THEN "invalidate" ELSE pc[q]
      /\ \A q \in Procs : Req(q)' = Req(q) /\ (q # p => Req(q) # r)
  BY <1>1, <1>2 DEF DiskInv, DBInv, TypeOK, Req
<1>5. ToSet(log') = ToSet(log) \cup {r}
  BY <1>1, <1>2, <1>3, ToSetAppend
<1>6. Effects'
  <2>1. \A q \in Procs, n \in 1 .. MaxOps : n > count[q] => <<q, n>> # r
    BY <1>1, <1>2 DEF Req
  <2> QED
    BY <1>1, <1>2, <1>4, <1>5, <2>1 DEF Effects, Early
<1>7. OpenCalls' = OpenCalls /\ r \in OpenCalls
  <2>1. "invalidate" \in Writing /\ pc[p] \in Writing
    BY <1>1 DEF Early, Writing
  <2>2. OpenCalls' = OpenCalls \cup {Req(p)} /\ Req(p) \in OpenCalls
    BY <1>1, <2>1, OpenAfter DEF DiskInv
  <2> QED
    BY <1>2, <2>2
<1>8. /\ Len(log') = Len(log) + 1 /\ Len(log) < Len(log')
      /\ SubSeq(log', Len(log) + 1, Len(log')) = <<r>>
      /\ log' = log \o <<r>>
  <2>1. /\ log' \in Seq(Requests) /\ Len(log') = Len(log) + 1
    BY <1>1, <1>2, <1>3, AppendProperties
  <2>2. log' = log \o <<r>> /\ <<r>> \in Seq(Requests) /\ Len(<<r>>) = 1
    BY <1>1, <1>2, <1>3, AppendIsConcat
  <2>3. SubSeq(log', Len(log) + 1, Len(log')) = SubSeq(<<r>>, 1, 1)
    BY <1>1, <2>1, <2>2, SubSeqOfConcat2
  <2>4. SubSeq(log', Len(log) + 1, Len(log')) = <<r>>
    BY <2>2, <2>3, SubSeqFull
  <2> QED
    BY <1>1, <2>1, <2>2, <2>4
<1>9. Promise!TakeEffect(<<r>>)
  <2>1. ToSet(<<r>>) = {r} /\ IsInjective(<<r>>)
    BY DEF ToSet, IsInjective
  <2> QED
    BY <1>1, <1>3, <1>7, <1>8, <2>1, SameReading
       DEF Promise!TakeEffect, Promise!Effective, OpenCalls
<1>10. Promise!MTakeEffect(<<r>>)
  BY <1>1, <1>9 DEF Promise!MTakeEffect
<1> QED
  BY <1>6, <1>8, <1>10 DEF Promise!MNext

\* The end of the invalidation is a Return.
LEMMA InvalidateRefines ==
  ASSUME DiskInv, Effects, NEW p \in Procs, InvalidateSynced(p)
  PROVE  Effects' /\ [Promise!MNext]_(Promise!mvars)
<1>1. /\ pc[p] = "invalidate" /\ UNCHANGED <<count, log, forced, durable>>
      /\ Synced(p)
  BY DEF InvalidateSynced, Invalidate, NextKey, Return, callVars, diskVars
<1>2. PICK r : r = Req(p)
  OBVIOUS
<1>3. /\ r \in Requests /\ r \in ToSet(log)
      /\ r \in forced => r \in ToSet(SubSeq(log, 1, durable))
  BY <1>1, <1>2
     DEF Effects, DiskInv, DBInv, CallsOK, Req, Requests, Synced, SyncWrite
<1>4. CASE UNCHANGED <<pc, outcome>>
  <2>1. \A q \in Procs : Req(q)' = Req(q)
    BY <1>1 DEF Req
  <2>2. OpenCalls' = OpenCalls
    BY <1>4, <2>1 DEF OpenCalls
  <2> QED
    BY <1>1, <1>4, <2>1, <2>2 DEF Effects, Promise!mvars, OpenCalls
<1>5. CASE /\ pc' = [pc EXCEPT ![p] = "idle"]
           /\ outcome' = [outcome EXCEPT ![Req(p)] = "nil"]
  <2>1. \A q \in Procs : /\ pc'[q] = IF q = p THEN "idle" ELSE pc[q]
                         /\ Req(q)' = Req(q)
    BY <1>1, <1>5 DEF DiskInv, DBInv, TypeOK, Req
  <2>2. Effects'
    BY <1>1, <2>1 DEF Effects, Early, Writing
  <2>3. "idle" \notin Writing /\ pc[p] \in Writing
    BY <1>1 DEF Writing
  <2>4. OpenCalls' = OpenCalls \ {Req(p)} /\ Req(p) \in OpenCalls
    BY <1>1, <1>5, <2>3, OpenAfter DEF DiskInv
  <2>5. Promise!Return(r, "nil")
    BY <1>1, <1>2, <1>3, <1>5, <2>4, SameReading
       DEF Promise!Return, Promise!Effective, OpenCalls
  <2>6. Promise!MReturn(r, "nil")
    BY <1>1, <1>3, <2>5, SameReading DEF Promise!MReturn, Promise!Safe
  <2> QED
    BY <1>3, <2>2, <2>6 DEF Promise!MNext
<1> QED
  BY <1>1, <1>4, <1>5
     DEF InvalidateSynced, Invalidate, NextKey, Return, Writing

(* The close, and the flushes, harden the log.                              *)
LEMMA HardenRefines ==
  ASSUME DiskInv, Effects, UNCHANGED <<count, log, outcome, forced>>,
         OpenCalls' = OpenCalls,
         \A q \in Procs : pc'[q] \in Writing => pc'[q] = pc[q],
         durable' \in OnDisk
  PROVE  Effects' /\ [Promise!MNext]_(Promise!mvars)
<1>1. Effects'
  BY DEF Effects, Early, Writing, Req
<1>2. Promise!Harden
  BY DEF Promise!Harden, OnDisk, OpenCalls
<1> QED
  BY <1>1, <1>2 DEF Promise!MNext

\* Close hardens the log.
LEMMA CloseRefines ==
  ASSUME DiskInv, Effects, NEW p \in Procs, CloseFlushes(p)
  PROVE  Effects' /\ [Promise!MNext]_(Promise!mvars)
<1>1. /\ pc[p] = "stopping" /\ pc' = [pc EXCEPT ![p] = "idle"]
      /\ UNCHANGED <<count, log, outcome, forced>>
  BY DEF CloseFlushes, ClosePebble, Return, Writing, dataVars, callVars
<1>2. "stopping" \notin Writing /\ "idle" \notin Writing
  BY DEF Writing
<1>3. OpenCalls' = OpenCalls
  BY <1>1, <1>2, OpenAfter DEF DiskInv
<1>4. \A q \in Procs : pc'[q] \in Writing => pc'[q] = pc[q]
  BY <1>1, <1>2 DEF DiskInv, DBInv, TypeOK
<1>5. durable' \in OnDisk
  <2>1. Len(log) \in Nat /\ durable \in 0 .. Len(log)
    BY LenProperties DEF DiskInv, DBInv, TypeOK, DiskTyped
  <2> QED
    BY <2>1 DEF CloseFlushes, OnDisk
<1> QED
  BY <1>1, <1>3, <1>4, <1>5, HardenRefines

\* A restart is a crash that keeps a prefix.
LEMMA RestartRefines ==
  ASSUME DiskInv, Effects, Restart
  PROVE  Effects' /\ [Promise!MNext]_(Promise!mvars)
<1>1. /\ durable' \in durable .. Len(log) /\ log' = SubSeq(log, 1, durable')
      /\ UNCHANGED <<count, outcome, forced>>
      /\ \A q \in Procs : pc'[q] = "idle"
  BY DEF Restart, OnDisk
<1>2. ToSet(log') \subseteq ToSet(log)
  <2>1. /\ log \in Seq(Requests) /\ Len(log) \in Nat
        /\ durable \in 0 .. Len(log)
    BY LenProperties DEF DiskInv, DBInv, TypeOK, DiskTyped
  <2>2. durable' \in 0 .. Len(log) /\ DOMAIN log = 1 .. Len(log)
    BY <1>1, <2>1, LenProperties
  <2>3. ToSet(log') = {log[i] : i \in 1 .. durable'}
    BY <1>1, <2>1, <2>2, PrefixElements
  <2>4. 1 .. durable' \subseteq DOMAIN log
    BY <2>1, <2>2
  <2> QED
    BY <2>3, <2>4 DEF ToSet
<1>3. "idle" \notin Writing
  BY DEF Writing
<1>4. OpenCalls' = {}
  BY <1>1, <1>3 DEF OpenCalls
<1>5. Effects'
  BY <1>1, <1>2, <1>3 DEF Effects, Early, Writing
<1>6. Promise!Crash
  BY <1>1, <1>4 DEF Promise!Crash, OpenCalls
<1> QED
  BY <1>5, <1>6 DEF Promise!MNext

\* Every step of the handle is one of DurableWrites or a stutter.
LEMMA StepPromise ==
  ASSUME DiskInv, Effects, [DurableNext]_allVars
  PROVE  Effects' /\ [Promise!MNext]_(Promise!mvars)
<1>1. ASSUME NEW p \in Procs,
             \/ BeginWrite(p) \/ CommitLogged(p) \/ InvalidateSynced(p)
             \/ CloseFlushes(p)
             \/ Elsewhere(p) /\ UNCHANGED diskVars
      PROVE  Effects' /\ [Promise!MNext]_(Promise!mvars)
  BY <1>1, BeginRefines, CommitRefines, InvalidateRefines, CloseRefines,
     ElsewhereRefines
<1>2. CASE Flush
  <2>1. UNCHANGED <<pc, count, log, outcome, forced>> /\ durable' \in OnDisk
    BY <1>2 DEF Flush, vars
  <2>2. OpenCalls' = OpenCalls
    BY <2>1 DEF OpenCalls, Req
  <2> QED
    BY <2>1, <2>2, HardenRefines
<1>3. CASE Restart
  BY <1>3, RestartRefines
<1>4. CASE \/ (CacheForgets \/ MemorySampled) /\ UNCHANGED diskVars
           \/ UNCHANGED allVars
  <2>1. UNCHANGED <<pc, count, log, outcome, forced, durable>>
    BY <1>4 DEF CacheForgets, MemorySampled, diskVars, allVars, vars, callVars,
                dataVars
  <2>2. OpenCalls' = OpenCalls
    BY <2>1 DEF OpenCalls, Req
  <2> QED
    BY <2>1, <2>2 DEF Effects, Req, Promise!mvars, OpenCalls
<1> QED
  BY <1>1, <1>2, <1>3, <1>4 DEF DurableNext

(* db.go:138-148, 229-246, 302-307 under the WAL modes of db.go:44-75: each *)
(* write takes effect at one instant or is refused; a crash keeps a prefix  *)
(* of the writes, in which everything acknowledged as synced is.            *)
THEOREM HandleKeepsPromise == DurableSpec => ImplementsDurableWrites
<1>1. DiskInv /\ Effects /\ [DurableNext]_allVars =>
        Effects' /\ [Promise!MNext]_(Promise!mvars)
  BY StepPromise
<1> QED
  BY <1>1, InitPromise, DiskInvariant, PTL
     DEF DurableSpec, ImplementsDurableWrites, Promise!MSpec
=============================================================================
