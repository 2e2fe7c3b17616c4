---------------------------- MODULE MCWriteQueue ----------------------------
(* Small instances of the write queue.  Shells are interchangeable (the     *)
(* pool hands out any), and so are callers: safety runs use both symmetries. *)
EXTENDS WriteQueue, TLC

Symmetry == Permutations(Clients) \cup Permutations(Shells)
=============================================================================
