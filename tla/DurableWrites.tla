---------------------------- MODULE DurableWrites ---------------------------
(***************************************************************************)
(* AtomicWrites on a medium that may fail: what the write path promises of  *)
(* a crash.  A crash keeps some prefix of the writes that took effect, cuts *)
(* off the calls under way, and never loses a write that was asked to be    *)
(* forced to the medium and returned nil.                                   *)
(***************************************************************************)
EXTENDS AtomicWrites

VARIABLES
  forced,     \* the writes that must be safe before they return nil
  safe        \* how many writes of the log no crash can lose

mvars == <<open, log, outcome, forced, safe>>

Safe == ToSet(SubSeq(log, 1, safe))

MInit == AInit /\ forced = {} /\ safe = 0

MCall(r) ==
  /\ Call(r)
  /\ forced' \in {forced, forced \cup {r}}
  /\ UNCHANGED safe

MTakeEffect(group) == TakeEffect(group) /\ UNCHANGED <<forced, safe>>

MReturn(r, e) ==
  /\ Return(r, e)
  /\ e = "nil" /\ r \in forced => r \in Safe
  /\ UNCHANGED <<forced, safe>>

(* More of the log reaches the medium, possibly as the last act of a call   *)
(* that is none of the writes.                                              *)
Harden ==
  /\ safe' \in safe .. Len(log)
  /\ UNCHANGED <<open, log, outcome, forced>>

(* What is left of the log is on the medium.                                *)
Crash ==
  /\ safe' \in safe .. Len(log)
  /\ log' = SubSeq(log, 1, safe')
  /\ open' = {}
  /\ UNCHANGED <<outcome, forced>>

MNext ==
  \/ \E r \in Requests : MCall(r)
  \/ /\ Len(log) < Len(log')
     /\ MTakeEffect(SubSeq(log', Len(log) + 1, Len(log')))
  \/ \E r \in Requests, e \in Refusals \cup {"nil"} : MReturn(r, e)
  \/ Harden
  \/ Crash

MSpec == MInit /\ [][MNext]_mvars
=============================================================================
