---------------------------- MODULE MCSqliteXDB -----------------------------
(* Small instances of the database handle.  Goroutines are interchangeable, *)
(* and so are keys.                                                         *)
EXTENDS SqliteXDB, TLC

Symmetry == Permutations(Procs) \cup Permutations(Keys)
=============================================================================
