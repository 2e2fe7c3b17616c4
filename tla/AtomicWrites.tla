---------------------------- MODULE AtomicWrites ----------------------------
(***************************************************************************)
(* What the write path promises its callers (db.Put, db.Delete through     *)
(* db.submit), whatever the queue between them and Pebble does: a write    *)
(* takes effect at one instant between its call and its return, it returns *)
(* nil only if it did, and a write that returned an error never takes      *)
(* effect, neither before nor after the error is seen.  Several writes may *)
(* take effect in one step (group commit), and then all of them do.        *)
(***************************************************************************)
EXTENDS Integers, Sequences, SequencesExt

CONSTANTS
  Requests,   \* the write requests callers may make, each at most once
  Refusals    \* the errors a write may return; neither "none" nor "nil"

VARIABLES
  open,       \* the requests called and not returned
  log,        \* the requests that took effect, in the order they did
  outcome     \* what each request returned, "none" before it did

avars == <<open, log, outcome>>

Effective == ToSet(log)

AInit ==
  /\ open = {}
  /\ log = <<>>
  /\ outcome = [r \in Requests |-> "none"]

Call(r) ==
  /\ r \notin open
  /\ outcome[r] = "none"
  /\ open' = open \cup {r}
  /\ UNCHANGED <<log, outcome>>

(* The requests of `group`, all open and none effective, take effect in that *)
(* order and without anything in between.                                    *)
TakeEffect(group) ==
  /\ ToSet(group) \subseteq open \ Effective
  /\ IsInjective(group)
  /\ log' = log \o group
  /\ UNCHANGED <<open, outcome>>

Return(r, e) ==
  /\ r \in open
  /\ IF e = "nil" THEN r \in Effective ELSE r \notin Effective
  /\ open' = open \ {r}
  /\ outcome' = [outcome EXCEPT ![r] = e]
  /\ UNCHANGED log

(* The group that takes effect is read off the step, so that the next-state *)
(* relation needs no enumeration of sequences.                              *)
ANext ==
  \/ \E r \in Requests : Call(r)
  \/ /\ Len(log) < Len(log')
     /\ TakeEffect(SubSeq(log', Len(log) + 1, Len(log')))
  \/ \E r \in Requests, e \in Refusals \cup {"nil"} : Return(r, e)

ASpec == AInit /\ [][ANext]_avars
=============================================================================
