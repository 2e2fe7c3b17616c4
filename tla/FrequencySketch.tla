-------------------------- MODULE FrequencySketch ---------------------------
(***************************************************************************)
(* internal/cache/tinylfu.go: the count-min sketch that decides which keys  *)
(* the hot cache admits.  Goroutines add to one cell of each row and read   *)
(* it back, cell by cell and without a lock; whoever makes the count of     *)
(* increments a multiple of the period halves all cells, one by one, while  *)
(* others go on adding.  Cells are narrow here: the code's saturate at      *)
(* 2^32 - 1 and are halved every million increments.                        *)
(***************************************************************************)
EXTENDS Integers, FiniteSets, FiniteSetsExt, Functions

CONSTANTS
  Recorders,   \* goroutines that call Record
  Seen,        \* the keys they record
  Rows,        \* the number of rows, 4 in the code
  Width,       \* cells in a row
  Hash1, Hash2, \* the two hashes of a key
  Saturation,  \* counterSaturation
  Period,      \* increments between two decays
  Threshold,   \* admThreshold
  MaxRecords   \* bound on the calls of Record

ASSUME SketchAssumption ==
  /\ IsFiniteSet(Recorders) /\ IsFiniteSet(Seen)
  /\ {Rows, Width, Saturation, Period, Threshold} \subseteq Nat \ {0}
  /\ MaxRecords \in Nat
  /\ {Hash1, Hash2} \subseteq [Seen -> Nat]
  /\ Threshold <= Saturation

Cells == (0 .. Rows - 1) \X (0 .. Width - 1)

Index(k, row) == (Hash1[k] + row * Hash2[k]) % Width
Of(k)         == {<<row, Index(k, row)>> : row \in 0 .. Rows - 1}

VARIABLES
  rows,        \* countMinSketch.rows
  counter,     \* countMinSketch.counter
  rec,         \* rec[r]: where r stands in Record
  begun,       \* history: the Records of each key that were begun
  fresh        \* history: those begun and ended since a cell was last halved

sketchVars == <<rows, counter, rec, begun, fresh>>

NotIn == [at |-> "out"]

SketchInit ==
  /\ rows = [c \in Cells |-> 0]
  /\ counter = 0
  /\ rec = [r \in Recorders |-> NotIn]
  /\ begun = [k \in Seen |-> 0]
  /\ fresh = [k \in Seen |-> 0]

(* `spoilt`: a cell was halved since the call began.                        *)
Record(r, k) ==
  /\ rec[r] = NotIn
  /\ SumFunctionOnSet(begun, Seen) < MaxRecords
  /\ begun' = [begun EXCEPT ![k] = @ + 1]
  /\ rec' = [rec EXCEPT ![r] =
       [at |-> "add", key |-> k, row |-> 0, min |-> Saturation, spoilt |-> FALSE]]
  /\ UNCHANGED <<rows, counter, fresh>>

Cell(r) == <<rec[r].row, Index(rec[r].key, rec[r].row)>>

(* The CAS loop adds one to a cell that is not saturated.                   *)
Wrapping(n)  == (n + 1) % (Saturation + 1) \* slip: an atomic Add
PlusOne(n)   == IF n >= Saturation THEN n ELSE n + 1

AddToCell(r) ==
  /\ rec[r].at = "add"
  /\ rows' = [rows EXCEPT ![Cell(r)] = PlusOne(@)]
  /\ rec' = [rec EXCEPT ![r].at = "load"]
  /\ UNCHANGED <<counter, begun, fresh>>

Larger(m, n)  == IF n > m THEN n ELSE m    \* slip: the maximum
Smaller(m, n) == IF n < m THEN n ELSE m

LoadCell(r) ==
  /\ rec[r].at = "load"
  /\ rec' = [rec EXCEPT
       ![r].at  = IF rec[r].row = Rows - 1 THEN "count" ELSE "add",
       ![r].row = IF rec[r].row = Rows - 1 THEN @ ELSE @ + 1,
       ![r].min = Smaller(@, rows[Cell(r)])]
  /\ UNCHANGED <<rows, counter, begun, fresh>>

(* The increment that completes a period decays before it returns.          *)
CountUp(r) ==
  /\ rec[r].at = "count"
  /\ counter' = counter + 1
  /\ rec' = [rec EXCEPT ![r] =
       IF counter' % Period = 0 THEN [@ EXCEPT !.at = "decay", !.row = 0]
                                ELSE [@ EXCEPT !.at = "done"]]
  /\ UNCHANGED <<rows, begun, fresh>>

(* The cells in the order in which decay halves them.                       *)
Nth(n)    == <<n \div Width, n % Width>>
Halved(n) == n \div 2

DecayCell(r) ==
  /\ rec[r].at = "decay"
  /\ rows' = [rows EXCEPT ![Nth(rec[r].row)] = Halved(@)]
  /\ rec' = [s \in Recorders |->
       IF s = r THEN [rec[r] EXCEPT !.spoilt = TRUE, !.row = @ + 1,
                        !.at = IF rec[r].row + 1 = Rows * Width THEN "done"
                                                               ELSE "decay"]
       ELSE IF rec[s] = NotIn THEN NotIn ELSE [rec[s] EXCEPT !.spoilt = TRUE]]
  /\ fresh' = [k \in Seen |-> 0]
  /\ UNCHANGED <<counter, begun>>

(* Record returns; the caller fills the cache if the key is admitted.       *)
Admitted(r) == rec[r].at = "done" /\ rec[r].min >= Threshold

Recorded(r) ==
  /\ rec[r].at = "done"
  /\ fresh' = IF rec[r].spoilt THEN fresh ELSE [fresh EXCEPT ![rec[r].key] = @ + 1]
  /\ rec' = [rec EXCEPT ![r] = NotIn]
  /\ UNCHANGED <<rows, counter, begun>>

SketchNext ==
  \E r \in Recorders :
    \/ \E k \in Seen : Record(r, k)
    \/ AddToCell(r) \/ LoadCell(r) \/ CountUp(r) \/ DecayCell(r) \/ Recorded(r)

SketchSpec == SketchInit /\ [][SketchNext]_sketchVars

-----------------------------------------------------------------------------
(* Properties                                                               *)

SketchTypeOK ==
  /\ rows \in [Cells -> 0 .. Saturation]
  /\ counter \in 0 .. MaxRecords
  /\ begun \in [Seen -> 0 .. MaxRecords]
  /\ fresh \in [Seen -> 0 .. MaxRecords]
  /\ \A r \in Recorders :
       rec[r].at \in {"out", "add", "load", "count", "decay", "done"}

(* tinylfu.go:136-140, 284-307: no increment is lost to another, so a key   *)
(* that was recorded often enough since the last decay is admitted the next *)
(* time, whoever recorded it and whatever was recorded besides.             *)
(* And no counter passes its saturation.                                    *)
HotKeysAreAdmitted ==
  /\ SketchTypeOK
  /\ \A k \in Seen : \A c \in Of(k) : rows[c] >= Min({fresh[k], Saturation})

(* A key that was recorded less often than the threshold is admitted only   *)
(* if each of its cells is shared with a key recorded as well.              *)
ColdKeysAreRefused ==
  \A r \in Recorders : Admitted(r) /\ begun[rec[r].key] < Threshold =>
    \A c \in Of(rec[r].key) :
      \E k \in Seen \ {rec[r].key} : c \in Of(k) /\ begun[k] > 0
=============================================================================
