----------------------------- MODULE MCHotCache -----------------------------
(* Small instances of the hot cache and of the sketch that advises it.      *)
(* They share no state (Record only tells the caller of Set whether to), so *)
(* each is explored from the initial state of the other.  Keys, entry       *)
(* structs and getters of the cache are interchangeable.                    *)
EXTENDS HotCache, FrequencySketch, TLC

(* Keys 1 and 2 share a cell of the first row, 2 and 3 one of the second.   *)
MCHash1 == [k \in Seen |-> IF k = 3 THEN 1 ELSE 0]
MCHash2 == [k \in Seen |-> IF k = 2 THEN 1 ELSE 0]

Symmetry ==
  Permutations(Keys) \cup Permutations(Entries) \cup Permutations(Getters)

MCInit == Init /\ SketchInit

MCNext ==
  \/ SketchInit /\ Next /\ UNCHANGED sketchVars
  \/ Init /\ SketchNext /\ UNCHANGED vars

MCSpec == MCInit /\ [][MCNext]_<<vars, sketchVars>>
=============================================================================
