--------------------------- MODULE MCIndexedStore ---------------------------
(* Small instances of the generated store.  Clients, records and index      *)
(* values are interchangeable.                                              *)
EXTENDS IndexedStore, TLC

Symmetry ==
  Permutations(Clients) \cup Permutations(Pks) \cup Permutations(Uniques)
    \cup Permutations(Normals)

(* The bounds add up.  MaxOps calls may name any number of records at the   *)
(* time 0; it is one call less where a second unique value is in use or     *)
(* time passes, and two less where both do, with a third record after the   *)
(* first tick, or with a second normal value, which is left to the time 0.  *)
Callers == {c \in Clients : Busy(c)}
Named   == {p \in Pks : rows[p] # None} \cup
             UNION {call[c].pks : c \in {d \in Callers : call[d].kind # "purge"}}
Used    == ({rows[p] : p \in Pks} \cup {call[c].new : c \in Callers}) \ {None}

Several(S) == Cardinality(S) > 1

Bounded ==
  /\ clock > 0 => count <= MaxOps - 1
  /\ clock > 0 /\ Cardinality(Named) > 2 => count <= MaxOps - 2
  /\ Several({r.u : r \in Used}) =>
       count <= IF clock > 0 THEN MaxOps - 2 ELSE MaxOps - 1
  /\ Several({r.n : r \in Used}) => clock = 0 /\ count <= MaxOps - 2
=============================================================================
