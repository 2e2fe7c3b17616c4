---------------------------- MODULE MCDurability ----------------------------
(* Small instances of the database handle on a disk.  Goroutines are        *)
(* interchangeable, and so are keys.                                        *)
EXTENDS Durability, TLC

Symmetry == Permutations(Procs) \cup Permutations(Keys)

(* The default, AsyncWAL, and DisableWAL with AsyncWAL.                     *)
MCConfigs == {<<FALSE, FALSE>>, <<TRUE, FALSE>>, <<TRUE, TRUE>>}
=============================================================================
