---------------------------- MODULE StoreProofs -----------------------------
(***************************************************************************)
(* What TLAPS proves of the generated store for any number of goroutines,   *)
(* records, index values and calls, and any TTL.                            *)
(***************************************************************************)
EXTENDS IndexedStore, TLAPS

-----------------------------------------------------------------------------
(* The inductive invariant                                                  *)

Places == {"read", "fill", "judge", "evict", "evicted", "check", "found",
           "commit", "committed"}

Steps(S) ==
  [at : Places, kind : {"save", "delete", "get", "purge"},
   pks : SUBSET S, new : Records \cup {None}, seen : [S -> Records \cup {None}],
   found : Pks \cup {None}, drop : SUBSET (Pks \cup Uniques)]

(* A call is idle or a step on some records; only a Save carries a new      *)
(* record, for one record, and only it looks up the unique index.           *)
CallsOK ==
  /\ DOMAIN call = Clients
  /\ \A c \in Clients : call[c] # Idle =>
       /\ \E S \in SUBSET Pks : call[c] \in Steps(S)
       /\ call[c].kind = "save" <=> call[c].new # None
       /\ call[c].kind = "save" => \A p, q \in call[c].pks : p = q
       /\ call[c].at \in {"check", "found"} => call[c].kind = "save"
       /\ call[c].at # "found" => call[c].found = None

(* Two calls on a record make it suspect.                                   *)
Alone ==
  \A c, d \in Clients : c # d => call[c].pks \cap call[d].pks \subseteq suspect

(* What a call has read of a record that is not suspect is still true.      *)
Fresh ==
  \A c \in Clients : Busy(c) /\ call[c].at \notin {"read", "committed"} =>
    \A p \in call[c].pks \ suspect : call[c].seen[p] = rows[p]

(* An uncontested value has at most one taker, for whom it stays free if    *)
(* no look-up of it was overtaken.                                          *)
OneTaker ==
  \A c, d \in Clients :
    /\ Taking(c) /\ Taking(d)
    /\ call[c].new.u = call[d].new.u
    /\ call[c].new.u \notin contested
    => c = d

Doubtful == contested \cup overtaken

StillFree ==
  suspect = {} => \A c \in Clients : Taking(c) /\ call[c].new.u \notin Doubtful =>
    uniq[call[c].new.u] \in {None} \cup call[c].pks

(* A row whose value is not in doubt holds the entry of the value.          *)
Owned ==
  suspect = {} => \A p \in Pks :
    rows[p] # None /\ rows[p].u \notin Doubtful => uniq[rows[p].u] = p

Data == RowsAreIndexed /\ EntriesExactUnlessRaced /\ Owned

(* What the hot cache holds is true, or the call that made it untrue is     *)
(* about to drop it; an entry then names a record of that very call.        *)
Forgetting(d, k) ==
  call[d].at \in {"evicted", "committed"} /\ k \in call[d].drop

CachedRows ==
  \A p \in Pks \ suspect :
    \/ cached[p] \in {None, rows[p]}
    \/ \E d \in Clients : Forgetting(d, p) /\ p \in call[d].pks

CachedEntries ==
  suspect = {} => \A v \in Uniques \ Doubtful :
    \/ cached[v] \in {None, uniq[v]}
    \/ \E d \in Clients : Forgetting(d, v) /\ cached[v] \in call[d].pks

Cache == CachedRows /\ CachedEntries

StoreInv ==
  /\ TypeOK /\ CallsOK /\ Alone /\ Fresh /\ OneTaker /\ StillFree
  /\ Data /\ Cache

-----------------------------------------------------------------------------
\* A store is opened on exact entries, with no call and nothing cached.
LEMMA InitInv == Init => StoreInv
<1> SUFFICES ASSUME Init PROVE StoreInv
  OBVIOUS
<1>1. \A p \in Pks : rows[p] \in Records \cup {None}
  <2>1. NewExpiry \in 0 .. MaxTime + TTL
    BY StoreAssumption DEF Init, NewExpiry
  <2>2. \A v \in Uniques, x \in Normals : NewRecord(v, x) \in Records
    BY <2>1 DEF NewRecord, Records
  <2> QED
    BY <2>2 DEF Init
<1>2. \A p \in Pks : NormalEntries(p, rows[p]) \subseteq Normals \X {p}
  BY <1>1 DEF NormalEntries, Records
<1>3. \A q \in Pks : {e \in norm : e[2] = q} = NormalEntries(q, rows[q])
  <2> TAKE q \in Pks
  <2>1. norm = UNION {NormalEntries(p, rows[p]) : p \in Pks}
    BY DEF Init
  <2>2. \A p \in Pks : \A e \in NormalEntries(p, rows[p]) : e[2] = p
    BY <1>2
  <2> QED
    BY <2>1, <2>2
<1>4. TypeOK
  <2>1. norm \subseteq Normals \X Pks
    BY <1>2 DEF Init
  <2>2. rows \in [Pks -> Records \cup {None}]
    BY <1>1 DEF Init
  <2>3. 0 \in 0 .. MaxOps /\ 0 \in 0 .. MaxTime
    BY StoreAssumption
  <2> QED
    BY <2>1, <2>2, <2>3 DEF Init, TypeOK, Idle, Busy
<1>5. CallsOK /\ Alone /\ Fresh /\ OneTaker /\ StillFree
  BY DEF Init, Idle, Busy, CallsOK, Alone, Fresh, OneTaker, StillFree, Taking
<1>6. RowsAreIndexed
  BY DEF Init, RowsAreIndexed
<1>7. Owned
  BY DEF Init, Owned, UniqueValues
<1>8. EntriesExactUnlessRaced
  <2>1. \A v \in Uniques : uniq[v] # None => v \in UniqueValues(rows[uniq[v]])
    BY DEF Init
  <2> QED
    BY <1>3, <2>1, StoreAssumption DEF EntriesExactUnlessRaced
<1>9. Cache
  BY DEF Init, Cache, CachedRows, CachedEntries
<1> QED
  BY <1>4, <1>5, <1>6, <1>7, <1>8, <1>9 DEF StoreInv, Data

(* The batch of a call on one of its records, made from what it has read.   *)
LEMMA BatchTypes ==
  ASSUME TypeOK, NEW p \in Pks, NEW old \in Records \cup {None},
         NEW new \in Records \cup {None}, Batch(p, old, new)
  PROVE  /\ rows' \in [Pks -> Records \cup {None}]
         /\ uniq' \in [Uniques -> Pks \cup {None}]
         /\ norm' \subseteq Normals \X Pks
<1>1. NormalEntries(p, new) \subseteq Normals \X Pks
  BY DEF NormalEntries, Records
<1> QED
  BY <1>1 DEF TypeOK, Batch, NormAfter

\* A batch leaves each row its normal index entry.
LEMMA BatchIndexes ==
  ASSUME TypeOK, RowsAreIndexed, NEW p \in Pks,
         NEW old \in Records \cup {None}, NEW new \in Records \cup {None},
         Batch(p, old, new)
  PROVE  RowsAreIndexed'
<1> SUFFICES ASSUME NEW q \in Pks PROVE (NormalEntries(q, rows[q]) \subseteq norm)'
  BY DEF RowsAreIndexed
<1>1. CASE q = p
  BY <1>1 DEF TypeOK, Batch, NormAfter, NormalEntries
<1>2. CASE q # p
  <2>1. rows'[q] = rows[q]
    BY <1>2 DEF TypeOK, Batch
  <2>2. NormalEntries(q, rows[q]) \cap NormalEntries(p, old) = {}
    BY <1>2 DEF NormalEntries
  <2> QED
    BY <2>1, <2>2 DEF RowsAreIndexed, Batch, NormAfter, NormalEntries
<1> QED
  BY <1>1, <1>2

\* A batch with the true old row leaves exactly the entries of the rows.
LEMMA BatchExact ==
  ASSUME TypeOK, EntriesExactUnlessRaced, NEW p \in Pks,
         NEW old \in Records \cup {None}, NEW new \in Records \cup {None},
         Batch(p, old, new), suspect' = suspect, p \in suspect \/ old = rows[p]
  PROVE  EntriesExactUnlessRaced'
<1> SUFFICES ASSUME NEW q \in Pks \ suspect
             PROVE  /\ {e \in norm' : e[2] = q} = NormalEntries(q, rows'[q])
                    /\ \A v \in Uniques : uniq'[v] = q =>
                         v \in UniqueValues(rows'[q])
  BY DEF EntriesExactUnlessRaced, NormalEntries, UniqueValues
<1>1. /\ {e \in norm : e[2] = q} = NormalEntries(q, rows[q])
      /\ \A v \in Uniques : uniq[v] = q => v \in UniqueValues(rows[q])
  BY DEF EntriesExactUnlessRaced
<1>2. \A e \in NormalEntries(p, old) \cup NormalEntries(p, new) : e[2] = p
  BY DEF NormalEntries
<1>3. \A v \in Uniques : uniq'[v] =
        IF v \in UniqueValues(new) THEN p
        ELSE IF v \in UniqueValues(old) THEN None ELSE uniq[v]
  BY DEF Batch
<1>4. CASE q = p
  <2>1. rows'[q] = new /\ old = rows[q]
    BY <1>4 DEF TypeOK, Batch
  <2>2. {e \in norm' : e[2] = q} = NormalEntries(q, new)
    BY <1>1, <1>2, <1>4, <2>1 DEF Batch, NormAfter
  <2> QED
    BY <1>1, <1>3, <1>4, <2>1, <2>2, StoreAssumption
<1>5. CASE q # p
  <2>1. rows'[q] = rows[q]
    BY <1>5 DEF TypeOK, Batch
  <2>2. {e \in norm' : e[2] = q} = {e \in norm : e[2] = q}
    BY <1>2, <1>5 DEF Batch, NormAfter
  <2> QED
    BY <1>1, <1>3, <1>5, <2>1, <2>2, StoreAssumption
<1> QED
  BY <1>4, <1>5

\* A batch that takes a free value leaves each row its unique entry.
LEMMA BatchOwned ==
  ASSUME TypeOK, Owned, NEW p \in Pks,
         NEW old \in Records \cup {None}, NEW new \in Records \cup {None},
         Batch(p, old, new), UNCHANGED history,
         p \in suspect \/ old = rows[p],
         suspect = {} /\ new # None /\ new.u \notin Doubtful =>
           uniq[new.u] \in {None, p}
  PROVE  Owned'
<1> SUFFICES ASSUME suspect = {}, NEW q \in Pks, rows'[q] # None,
                    rows'[q].u \notin Doubtful
             PROVE  uniq'[rows'[q].u] = q
  BY DEF Owned, Doubtful, history
<1>1. \A v \in Uniques : uniq'[v] =
        IF v \in UniqueValues(new) THEN p
        ELSE IF v \in UniqueValues(old) THEN None ELSE uniq[v]
  BY DEF Batch
<1>2. rows'[q] \in Records /\ rows'[q].u \in Uniques
  BY BatchTypes DEF Records
<1>3. CASE q = p
  BY <1>1, <1>2, <1>3 DEF TypeOK, Batch, UniqueValues
<1>4. CASE q # p
  <2>1. rows'[q] = rows[q] /\ uniq[rows[q].u] = q
    BY <1>4 DEF TypeOK, Batch, Owned
  <2>2. rows[q].u \notin UniqueValues(new)
    BY <1>4, <2>1, StoreAssumption DEF UniqueValues
  <2>3. rows[q].u \notin UniqueValues(old)
    BY <1>4, <2>1, StoreAssumption DEF UniqueValues, Owned
  <2> QED
    BY <1>1, <1>2, <2>1, <2>2, <2>3
<1> QED
  BY <1>3, <1>4

(* What is untouched stays true while the races that are known grow.        *)
LEMMA DataKept ==
  ASSUME Data, UNCHANGED dataVars, suspect \subseteq suspect',
         Doubtful \subseteq Doubtful'
  PROVE  Data'
<1> USE DEF dataVars
<1>1. RowsAreIndexed'
  BY DEF Data, RowsAreIndexed, NormalEntries
<1>2. EntriesExactUnlessRaced'
  BY DEF Data, EntriesExactUnlessRaced, NormalEntries, UniqueValues
<1>3. Owned'
  <2> HIDE DEF Doubtful
  <2> QED
    BY DEF Data, Owned
<1> QED
  BY <1>1, <1>2, <1>3 DEF Data

\* So does the cache, unless a call that is about to drop a key does not.
LEMMA CacheKept ==
  ASSUME Cache, UNCHANGED <<dataVars, cached>>, suspect \subseteq suspect',
         Doubtful \subseteq Doubtful',
         \A d \in Clients : \A k : Forgetting(d, k) =>
           Forgetting(d, k)' /\ call'[d].pks = call[d].pks
  PROVE  Cache'
<1>1. CachedRows'
  BY DEF Cache, CachedRows, dataVars
<1>2. CachedEntries'
  <2> HIDE DEF Doubtful
  <2> QED
    BY DEF Cache, CachedEntries, dataVars
<1> QED
  BY <1>1, <1>2 DEF Cache

-----------------------------------------------------------------------------
(* Steps of a call                                                          *)

(* `step` is where the call of c may go after its begin.                    *)
Continues(c, step) ==
  \/ step = Idle
  \/ /\ \E S \in SUBSET Pks : step \in Steps(S)
     /\ step.at # "read"
     /\ step.pks \subseteq call[c].pks
     /\ step.kind = call[c].kind
     /\ step.new = call[c].new
     /\ step.at \in {"check", "found"} => step.kind = "save"
     /\ step.at # "found" => step.found = None

(* `step` is the step of c with another old record.                         *)
Knows(c, step) ==
  /\ \E S \in SUBSET Pks : step \in Steps(S)
  /\ step.pks \subseteq call[c].pks
  /\ step.kind = call[c].kind
  /\ step.new = call[c].new
  /\ step.found = None

(* What `next` is after `step`: at a place where it takes and forgets       *)
(* nothing, with the old records of `step`.                                 *)
After(step, next) ==
  \/ next = Idle
  \/ /\ next.at \in {"evict", "check", "commit"}
     /\ next.at = "commit" => next.kind # "save"
     /\ next.pks \subseteq step.pks
     /\ next.seen = step.seen

\* A call that goes on is at a place a call can be in.
LEMMA OnwardContinues ==
  ASSUME NEW c \in Clients, NEW step, Knows(c, step)
  PROVE  Continues(c, Onward(step)) /\ After(step, Onward(step))
<1>1. PICK S \in SUBSET Pks : step \in Steps(S)
  BY DEF Knows
<1>2. CASE step.kind = "save"
  <2> DEFINE r == [step EXCEPT !.at = "check"]
  <2>1. Onward(step) = r
    BY <1>2 DEF Onward
  <2>2. /\ r \in Steps(S)
        /\ r.at = "check" /\ r.seen = step.seen /\ r.found = step.found
        /\ r.kind = "save" /\ r.pks = step.pks /\ r.new = step.new
    BY <1>1, <1>2 DEF Steps, Places
  <2> HIDE DEF r
  <2> QED
    BY <1>2, <2>1, <2>2 DEF Continues, After, Knows
<1>3. CASE step.kind = "delete"
  <2> DEFINE r == [step EXCEPT !.at = "commit"]
  <2>1. Onward(step) = r
    BY <1>3 DEF Onward
  <2>2. /\ r \in Steps(S)
        /\ r.at = "commit" /\ r.seen = step.seen /\ r.found = step.found
        /\ r.kind = "delete" /\ r.pks = step.pks /\ r.new = step.new
    BY <1>1, <1>3 DEF Steps, Places
  <2> HIDE DEF r
  <2> QED
    BY <1>3, <2>1, <2>2 DEF Continues, After, Knows
<1>4. CASE step.kind \notin {"save", "delete"}
  BY <1>4 DEF Onward, Continues, After
<1> QED
  BY <1>2, <1>3, <1>4

\* The same after the expiry of a record.
LEMMA NextExpiredContinues ==
  ASSUME NEW c \in Clients, NEW step, Knows(c, step)
  PROVE  Continues(c, NextExpired(step)) /\ After(step, NextExpired(step))
<1> DEFINE left == {p \in step.pks : step.seen[p] # None}
<1>1. PICK S \in SUBSET Pks : step \in Steps(S)
  BY DEF Knows
<1>2. CASE left = {}
  BY <1>2, OnwardContinues DEF NextExpired
<1>3. CASE left # {}
  <2> DEFINE r == [step EXCEPT !.at = "evict", !.pks = left]
  <2>1. NextExpired(step) = r
    BY <1>3 DEF NextExpired
  <2>2. /\ r \in Steps(S)
        /\ r.at = "evict" /\ r.seen = step.seen /\ r.found = step.found
        /\ r.kind = step.kind /\ r.pks = left /\ r.new = step.new
    BY <1>1 DEF Steps, Places
  <2>3. left \subseteq step.pks
    OBVIOUS
  <2> HIDE DEF r, left
  <2> QED
    BY <2>1, <2>2, <2>3 DEF Continues, After, Knows
<1> QED
  BY <1>2, <1>3

(* The facts about the calls that any step of one call keeps.               *)
LEMMA CallsStep ==
  ASSUME CallsOK, Alone, NEW c \in Clients, call[c] # Idle,
         NEW step, Continues(c, step), Goes(c, step),
         suspect \subseteq suspect'
  PROVE  /\ CallsOK' /\ Alone'
         /\ call'[c] = step
         /\ \A d \in Clients : d # c => call'[d] = call[d]
<1>1. /\ DOMAIN call' = Clients
      /\ call'[c] = step
      /\ \A d \in Clients : d # c => call'[d] = call[d]
  BY DEF Goes, CallsOK
<1>2. \A d \in Clients : call'[d].pks \subseteq call[d].pks
  BY <1>1 DEF Continues, Idle
<1>3. Alone'
  BY <1>2 DEF Alone
<1>4. CallsOK'
  <2> SUFFICES ASSUME NEW d \in Clients, call'[d] # Idle
               PROVE  /\ \E S \in SUBSET Pks : call'[d] \in Steps(S)
                      /\ call'[d].kind = "save" <=> call'[d].new # None
                      /\ call'[d].kind = "save" =>
                           \A p, q \in call'[d].pks : p = q
                      /\ call'[d].at \in {"check", "found"} =>
                           call'[d].kind = "save"
                      /\ call'[d].at # "found" => call'[d].found = None
    BY <1>1 DEF CallsOK, Steps, Records
  <2>1. CASE d = c
    BY <1>1, <2>1 DEF CallsOK, Continues
  <2>2. CASE d # c
    BY <1>1, <2>2 DEF CallsOK
  <2> QED
    BY <2>1, <2>2
<1> QED
  BY <1>1, <1>3, <1>4

\* What a call has read and is about to write has its types.
LEMMA CallTypes ==
  ASSUME CallsOK, NEW c \in Clients
  PROVE  /\ call[c].at \in {"idle"} \cup Places
         /\ call[c].pks \subseteq Pks
         /\ Busy(c) <=> call[c] # Idle
         /\ Busy(c) =>
              /\ call[c].new \in Records \cup {None}
              /\ \A p \in call[c].pks : call[c].seen[p] \in Records \cup {None}
              /\ call[c].found \in Pks \cup {None}
              /\ call[c].drop \subseteq Pks \cup Uniques
  BY DEF CallsOK, Busy, Idle, Steps, Places

(* A call goes on and leaves alone what the other calls have read.          *)
LEMMA StepInv ==
  ASSUME StoreInv, NEW c \in Clients, call[c] # Idle,
         NEW step, Continues(c, step), Goes(c, step),
         suspect \subseteq suspect', suspect' \subseteq Pks,
         Doubtful' \subseteq Uniques,
         rows' \in [Pks -> Records \cup {None}],
         uniq' \in [Uniques -> Pks \cup {None}],
         norm' \subseteq Normals \X Pks,
         DOMAIN cached' = Pks \cup Uniques,
         \A p \in Pks : cached'[p] \in Records \cup {None},
         \A v \in Uniques : cached'[v] \in Pks \cup {None},
         \A d \in Clients : d # c =>
           \A p \in call[d].pks \ suspect' : rows'[p] = rows[p],
         step # Idle /\ step.at # "committed" =>
           \A p \in step.pks \ suspect' : step.seen[p] = rows'[p],
         OneTaker', StillFree', Data', Cache'
  PROVE  StoreInv'
<1>1. /\ CallsOK' /\ Alone'
      /\ call'[c] = step
      /\ \A d \in Clients : d # c => call'[d] = call[d]
  BY CallsStep DEF StoreInv
<1>2. Fresh'
  BY <1>1 DEF StoreInv, Fresh, Busy, Idle
<1>3. \A d \in Clients :
        /\ call'[d].pks \subseteq Pks
        /\ Busy(d)' =>
             /\ call'[d].new \in Records \cup {None}
             /\ \A p \in call'[d].pks : call'[d].seen[p] \in Records \cup {None}
             /\ call'[d].found \in Pks \cup {None}
             /\ call'[d].drop \subseteq Pks \cup Uniques
  BY <1>1 DEF CallsOK, Busy, Idle, Steps, Places
<1>4. TypeOK'
  BY <1>3 DEF StoreInv, TypeOK, Goes, Records, Busy, Doubtful
<1> QED
  BY <1>1, <1>2, <1>4 DEF StoreInv

(* A call that takes no unique value it did not take leaves the takers of   *)
(* other values alone.                                                      *)
LEMMA TakersKept ==
  ASSUME StoreInv, NEW c \in Clients, call[c] # Idle,
         NEW step, Continues(c, step), Goes(c, step),
         suspect \subseteq suspect', contested \subseteq contested',
         overtaken \subseteq overtaken',
         Taking(c)' => Taking(c) /\ step.pks = call[c].pks,
         \A d \in Clients : Taking(d)' /\ Taking(d) /\ call[d].new.u \notin Doubtful =>
           uniq'[call[d].new.u] \in {None, uniq[call[d].new.u]}
  PROVE  OneTaker' /\ StillFree'
<1>1. /\ call'[c] = step
      /\ \A d \in Clients : d # c => call'[d] = call[d]
  BY CallsStep DEF StoreInv
<1>2. \A d \in Clients : Taking(d)' =>
        /\ Taking(d)
        /\ call'[d].new = call[d].new /\ call'[d].pks = call[d].pks
  <2>1. Taking(c)' => step # Idle
    BY <1>1 DEF Taking, Idle
  <2> QED
    BY <1>1, <2>1 DEF Taking, Free, Continues
<1>3. OneTaker'
  BY <1>2 DEF StoreInv, OneTaker
<1>4. StillFree'
  <2>1. suspect' = {} => suspect = {}
    OBVIOUS
  <2>2. Doubtful \subseteq Doubtful'
    BY DEF Doubtful
  <2> HIDE DEF Doubtful
  <2> QED
    BY <1>2, <2>1, <2>2 DEF StoreInv, StillFree
<1> QED
  BY <1>3, <1>4

(* A step that touches no data.                                             *)
LEMMA QuietStep ==
  ASSUME StoreInv, NEW c \in Clients, call[c] # Idle,
         NEW step, Continues(c, step), Goes(c, step),
         UNCHANGED <<dataVars, cached, contested, overtaken>>,
         suspect \subseteq suspect', suspect' \subseteq Pks,
         call[c].at \notin {"evicted", "committed"},
         step = Idle \/ ~(step.at \in {"found", "commit"} /\ step.kind = "save"),
         step # Idle =>
           \A p \in step.pks \ suspect' : step.seen[p] = rows[p]
  PROVE  StoreInv'
<1> USE DEF dataVars
<1>1. /\ call'[c] = step
      /\ \A d \in Clients : d # c => call'[d] = call[d]
  BY CallsStep DEF StoreInv
<1>2. OneTaker' /\ StillFree'
  <2>1. ~Taking(c)'
    BY <1>1 DEF Taking, Idle
  <2> QED
    BY <2>1, TakersKept
<1>3. Doubtful' = Doubtful
  BY DEF Doubtful
<1>4. Data'
  BY <1>3, DataKept DEF StoreInv
<1>5. Cache'
  <2>1. \A d \in Clients : \A k : Forgetting(d, k) =>
          Forgetting(d, k)' /\ call'[d].pks = call[d].pks
    BY <1>1 DEF Forgetting
  <2> QED
    BY <1>3, <2>1, CacheKept DEF StoreInv
<1>6. /\ rows' \in [Pks -> Records \cup {None}]
      /\ uniq' \in [Uniques -> Pks \cup {None}]
      /\ norm' \subseteq Normals \X Pks
      /\ DOMAIN cached' = Pks \cup Uniques
      /\ \A p \in Pks : cached'[p] \in Records \cup {None}
      /\ \A v \in Uniques : cached'[v] \in Pks \cup {None}
      /\ Doubtful' \subseteq Uniques
  BY <1>3 DEF StoreInv, TypeOK, Doubtful
<1>7. rows' = rows
  OBVIOUS
<1> HIDE DEF dataVars
<1> QED
  BY <1>2, <1>4, <1>5, <1>6, <1>7, StepInv

\* A call may end anywhere.
LEMMA IdleContinues ==
  ASSUME NEW c \in Clients
  PROVE  Continues(c, Idle)
  BY DEF Continues
(* The batch of a record: the call is about to drop its keys.               *)
LEMMA BatchStep ==
  ASSUME StoreInv, NEW c \in Clients, call[c].at \in {"evict", "commit"},
         NEW step, Continues(c, step), Goes(c, step),
         NEW p \in call[c].pks, NEW new \in Records \cup {None},
         Batch(p, call[c].seen[p], new),
         UNCHANGED <<cached, history>>,
         new # None => Taking(c) /\ new = call[c].new /\ call[c].pks = {p},
         step.at \in {"evicted", "committed"}, step.pks = call[c].pks,
         Dropped(p, call[c].seen[p], new) \subseteq step.drop,
         step.at = "evicted" =>
           \A q \in step.pks \ suspect : step.seen[q] = rows'[q]
  PROVE  StoreInv'
<1> DEFINE old == call[c].seen[p]
<1>1. /\ p \in Pks /\ old \in Records \cup {None}
      /\ Busy(c) /\ call[c] # Idle
  BY CallTypes DEF StoreInv, Busy
<1>2. p \in suspect \/ old = rows[p]
  BY <1>1 DEF StoreInv, Fresh
<1>3. Batch(p, old, new) /\ Dropped(p, old, new) \subseteq step.drop
  OBVIOUS
<1> HIDE DEF old
<1>4. Doubtful' = Doubtful /\ suspect' = suspect
  BY DEF Doubtful, history
<1>5. suspect = {} /\ new # None /\ new.u \notin Doubtful =>
        uniq[new.u] \in {None, p}
  BY DEF StoreInv, StillFree
<1>6. Data'
  BY <1>1, <1>2, <1>3, <1>4, <1>5, BatchIndexes, BatchExact, BatchOwned
     DEF StoreInv, Data
<1>7. /\ rows' \in [Pks -> Records \cup {None}]
      /\ uniq' \in [Uniques -> Pks \cup {None}]
      /\ norm' \subseteq Normals \X Pks
      /\ Doubtful' \subseteq Uniques
      /\ suspect' \subseteq Pks
      /\ DOMAIN cached' = Pks \cup Uniques
      /\ \A q \in Pks : cached'[q] \in Records \cup {None}
      /\ \A v \in Uniques : cached'[v] \in Pks \cup {None}
  BY <1>1, <1>3, <1>4, BatchTypes DEF StoreInv, TypeOK, Doubtful
<1>8. \A d \in Clients : d # c =>
        \A q \in call[d].pks \ suspect' : rows'[q] = rows[q]
  BY <1>3, <1>4, CallTypes DEF StoreInv, TypeOK, Alone, Batch
<1>9. /\ call'[c] = step
      /\ \A d \in Clients : d # c => call'[d] = call[d]
  BY <1>1, <1>4, CallsStep DEF StoreInv
<1>10. OneTaker' /\ StillFree'
  <2>1. ~Taking(c)'
    BY <1>9 DEF Taking
  <2>2. ASSUME NEW d \in Clients, Taking(d)', Taking(d), call[d].new.u \notin Doubtful
        PROVE  uniq'[call[d].new.u] \in {None, uniq[call[d].new.u]}
    <3>1. d # c
      BY <2>1, <2>2
    <3>2. call[d].new.u \in Uniques
      BY <2>2, CallTypes
         DEF StoreInv, CallsOK, Taking, Busy, Idle, Records, Places
    <3>3. call[d].new.u \notin UniqueValues(new)
      BY <2>2, <3>1 DEF UniqueValues, StoreInv, OneTaker, Doubtful
    <3> QED
      BY <1>3, <3>2, <3>3 DEF Batch
  <2> QED
    BY <1>1, <1>4, <2>1, <2>2, TakersKept DEF history
<1>11. \A d \in Clients : \A k : Forgetting(d, k) =>
         Forgetting(d, k)' /\ call'[d].pks = call[d].pks
  BY <1>9 DEF Forgetting
<1>12. p \in call'[c].pks /\ \A k \in Dropped(p, old, new) : Forgetting(c, k)'
  BY <1>3, <1>9 DEF Forgetting
<1>13. CachedRows'
  <2> SUFFICES ASSUME NEW q \in Pks \ suspect
               PROVE  \/ cached[q] \in {None, rows'[q]}
                      \/ \E d \in Clients : Forgetting(d, q)' /\ q \in call'[d].pks
    BY <1>4 DEF CachedRows
  <2>1. CASE q = p
    BY <1>12, <2>1 DEF Dropped
  <2>2. CASE q # p
    <3>1. rows'[q] = rows[q]
      BY <1>3, <2>2 DEF Batch, StoreInv, TypeOK
    <3> QED
      BY <1>11, <3>1 DEF StoreInv, Cache, CachedRows
  <2> QED
    BY <2>1, <2>2
<1>14. CachedEntries'
  <2> SUFFICES ASSUME suspect = {}, NEW v \in Uniques \ Doubtful
               PROVE  \/ cached[v] \in {None, uniq'[v]}
                      \/ \E d \in Clients :
                           Forgetting(d, v)' /\ cached[v] \in call'[d].pks
    BY <1>4 DEF CachedEntries
  <2>1. CASE \E d \in Clients : Forgetting(d, v) /\ cached[v] \in call[d].pks
    BY <1>11, <2>1
  <2>2. CASE cached[v] \in {None, uniq[v]}
    <3>1. uniq'[v] = IF v \in UniqueValues(new) THEN p
                     ELSE IF v \in UniqueValues(old) THEN None ELSE uniq[v]
      BY <1>3 DEF Batch
    <3>2. CASE v \in UniqueValues(new) \cup UniqueValues(old)
      <4>1. uniq[v] \in {None, p}
        BY <1>1, <1>2, <1>5, <3>2 DEF UniqueValues, StoreInv, Data, Owned
      <4>2. Forgetting(c, v)'
        BY <1>12, <3>2 DEF Dropped
      <4> QED
        BY <1>12, <2>2, <4>1, <4>2
    <3>3. CASE v \notin UniqueValues(new) \cup UniqueValues(old)
      BY <2>2, <3>1, <3>3
    <3> QED
      BY <3>2, <3>3
  <2> QED
    BY <2>1, <2>2 DEF StoreInv, Cache, CachedEntries
<1>15. step # Idle /\ step.at # "committed" =>
         \A q \in step.pks \ suspect' : step.seen[q] = rows'[q]
  BY <1>4
<1> QED
  BY <1>1, <1>4, <1>6, <1>7, <1>8, <1>10, <1>13, <1>14, <1>15, StepInv DEF Cache

(* A step that changes the cache of rows and entries and nothing else that  *)
(* is stored.                                                               *)
LEMMA CachingStep ==
  ASSUME StoreInv, NEW c \in Clients, call[c] # Idle,
         NEW step, Continues(c, step), Goes(c, step),
         UNCHANGED <<dataVars, suspect, contested>>,
         overtaken \subseteq overtaken', overtaken' \subseteq Uniques,
         NEW k \in Pks \cup Uniques, NEW value, cached' = [cached EXCEPT ![k] = value],
         k \in Pks =>
           /\ value \in Records \cup {None}
           /\ k \notin suspect => value \in {None, rows[k]},
         k \in Uniques =>
           /\ value \in Pks \cup {None}
           /\ k \notin overtaken' => value \in {None, uniq[k]},
         \A j : j # k /\ Forgetting(c, j) =>
           Forgetting(c, j)' /\ step.pks = call[c].pks,
         Taking(c)' => Taking(c) /\ step.pks = call[c].pks,
         step # Idle /\ step.at # "committed" =>
           \A p \in step.pks \ suspect : step.seen[p] = rows[p]
  PROVE  StoreInv'
<1> USE DEF dataVars
<1>1. /\ call'[c] = step
      /\ \A d \in Clients : d # c => call'[d] = call[d]
  BY CallsStep DEF StoreInv
<1>2. OneTaker' /\ StillFree'
  BY TakersKept
<1>3. Doubtful \subseteq Doubtful' /\ Doubtful' \subseteq Uniques
  BY DEF Doubtful, StoreInv, TypeOK
<1>4. Data'
  BY <1>3, DataKept DEF StoreInv
<1>5. \A j : j # k => cached'[j] = cached[j]
  OBVIOUS
<1>6. \A d \in Clients : \A j : j # k /\ Forgetting(d, j) =>
        Forgetting(d, j)' /\ call'[d].pks = call[d].pks
  BY <1>1 DEF Forgetting
<1>7. DOMAIN cached = Pks \cup Uniques
  BY DEF StoreInv, TypeOK
<1>8. cached'[k] = value
  BY <1>7
<1>9. CachedRows'
  BY <1>5, <1>6, <1>8 DEF StoreInv, Cache, CachedRows
<1>10. CachedEntries'
  <2> SUFFICES ASSUME suspect = {}, NEW v \in Uniques \ Doubtful'
               PROVE  \/ cached'[v] \in {None, uniq[v]}
                      \/ \E d \in Clients :
                           Forgetting(d, v)' /\ cached'[v] \in call'[d].pks
    BY DEF CachedEntries
  <2>1. CASE v = k
    BY <1>8, <2>1 DEF Doubtful
  <2>2. CASE v # k
    BY <1>3, <1>5, <1>6, <2>2 DEF StoreInv, Cache, CachedEntries
  <2> QED
    BY <2>1, <2>2
<1>11. /\ DOMAIN cached' = Pks \cup Uniques
       /\ \A p \in Pks : cached'[p] \in Records \cup {None}
       /\ \A v \in Uniques : cached'[v] \in Pks \cup {None}
  BY <1>5, <1>7, <1>8 DEF StoreInv, TypeOK
<1>12. /\ rows' \in [Pks -> Records \cup {None}]
       /\ uniq' \in [Uniques -> Pks \cup {None}]
       /\ norm' \subseteq Normals \X Pks
       /\ suspect' \subseteq Pks
  BY DEF StoreInv, TypeOK
<1>13. rows' = rows /\ suspect' = suspect
  OBVIOUS
<1> HIDE DEF dataVars
<1> QED
  BY <1>2, <1>3, <1>4, <1>9, <1>10, <1>11, <1>12, <1>13, StepInv DEF Cache

-----------------------------------------------------------------------------
(* The actions                                                              *)

\* A call that overlaps another on a record makes it suspect.
LEMMA BeginInv ==
  ASSUME StoreInv, NEW c \in Clients, Begin(c)
  PROVE  StoreInv'
<1>1. PICK kind \in {"save", "delete", "get", "purge"},
           ps \in SUBSET Pks, new \in Records \cup {None} :
        /\ Called(c, kind, ps, new)
        /\ kind = "save" <=> new # None
        /\ kind = "save" => \A p, q \in ps : p = q
  <2>1. NewExpiry \in 0 .. MaxTime + TTL
    BY StoreAssumption DEF NewExpiry, StoreInv, TypeOK
  <2>2. \A v \in Uniques, x \in Normals : NewRecord(v, x) \in Records
    BY <2>1 DEF NewRecord, Records
  <2>3. CASE \E p \in Pks, v \in Uniques, x \in Normals :
               Called(c, "save", {p}, NewRecord(v, x))
    <3>1. PICK p \in Pks, v \in Uniques, x \in Normals :
            Called(c, "save", {p}, NewRecord(v, x))
      BY <2>3
    <3>2. NewRecord(v, x) \in Records /\ NewRecord(v, x) # None
      BY <2>2, StoreAssumption
    <3> QED
      BY <3>1, <3>2
  <2>4. CASE \E p \in Pks, kind \in {"delete", "get"} : Called(c, kind, {p}, None)
    BY <2>4
  <2>5. CASE Called(c, "purge", Pks, None)
    BY <2>5
  <2> QED
    BY <2>3, <2>4, <2>5 DEF Begin
<1> DEFINE step == [at |-> "read", kind |-> kind, pks |-> ps, new |-> new,
                    seen |-> [p \in ps |-> None], found |-> None,
                    drop |-> {}]
<1>2. step \in Steps(ps)
  BY DEF Steps, Places
<1>3. /\ DOMAIN call' = Clients
      /\ call'[c] = step
      /\ \A d \in Clients : d # c => call'[d] = call[d]
  BY <1>1 DEF Called, StoreInv, CallsOK
<1>4. /\ step.at = "read" /\ step.kind = kind /\ step.new = new /\ step.pks = ps
      /\ step.found = None
  OBVIOUS
<1> HIDE DEF step
<1>5. CallsOK'
  BY <1>1, <1>2, <1>3, <1>4 DEF StoreInv, CallsOK
<1>6. suspect' = suspect \cup UNION {ps \cap call[d].pks : d \in Clients}
  BY <1>1 DEF Called
<1>7. Alone'
  BY <1>3, <1>4, <1>6 DEF StoreInv, Alone
<1>8. Fresh' /\ OneTaker' /\ StillFree'
  <2>1. \A d \in Clients : Taking(d)' <=> Taking(d) /\ d # c
    BY <1>3, <1>4 DEF Taking, Begin, Busy, Free
  <2>2. suspect \subseteq suspect' /\ Doubtful' = Doubtful
    BY <1>6 DEF Begin, Doubtful
  <2>3. Fresh'
    BY <1>3, <1>4, <2>2 DEF Begin, dataVars, StoreInv, Fresh, Busy
  <2> HIDE DEF Doubtful
  <2>4. OneTaker' /\ StillFree'
    BY <1>3, <2>1, <2>2 DEF Begin, dataVars, StoreInv, OneTaker, StillFree
  <2> QED
    BY <2>3, <2>4
<1>9. Data' /\ Cache'
  <2>1. \A d \in Clients : \A k : Forgetting(d, k) =>
          Forgetting(d, k)' /\ call'[d].pks = call[d].pks
    BY <1>3 DEF Forgetting, Begin, Busy
  <2>2. suspect \subseteq suspect' /\ Doubtful' = Doubtful
    BY <1>6 DEF Begin, Doubtful
  <2> QED
    BY <2>1, <2>2, DataKept, CacheKept DEF Begin, StoreInv
<1>10. count' \in 0 .. MaxOps
  BY StoreAssumption DEF Begin, StoreInv, TypeOK
<1>11. \A d \in Clients :
        /\ call'[d].pks \subseteq Pks
        /\ Busy(d)' =>
             /\ call'[d].new \in Records \cup {None}
             /\ \A p \in call'[d].pks : call'[d].seen[p] \in Records \cup {None}
             /\ call'[d].found \in Pks \cup {None}
             /\ call'[d].drop \subseteq Pks \cup Uniques
  BY <1>5 DEF CallsOK, Busy, Idle, Steps, Places, Records
<1>12. TypeOK'
  BY <1>6, <1>10, <1>11
     DEF Begin, dataVars, StoreInv, TypeOK, Places, Records, Busy
<1> QED
  BY <1>5, <1>7, <1>8, <1>9, <1>12 DEF StoreInv

\* What is read of an unsuspected record is true, also from the cache.
LEMMA ReadInv ==
  ASSUME StoreInv, NEW c \in Clients, Read(c)
  PROVE  StoreInv'
<1>1. call[c] # Idle /\ call[c].at = "read"
  BY DEF Read, Idle
<1>2. PICK S \in SUBSET Pks : call[c] \in Steps(S)
  BY <1>1 DEF StoreInv, CallsOK
<1>3. call[c].pks \in SUBSET Pks /\ call[c].found = None
  BY <1>1, <1>2 DEF Steps, StoreInv, CallsOK
<1>4. PICK at \in {"fill", "judge"}, table \in {rows, cached} :
        /\ Goes(c, [call[c] EXCEPT !.at = at, !.seen = Restrict(table, call[c].pks)])
        /\ \/ table = rows
           \/ table = cached /\ \A p \in call[c].pks : cached[p] # None
  <2> DEFINE At(table) == [call[c] EXCEPT !.at = "judge",
                                          !.seen = Restrict(table, call[c].pks)]
  <2>1. CASE Goes(c, At(cached)) /\ \A p \in call[c].pks : cached[p] # None
    BY <2>1
  <2>2. CASE Goes(c, At(rows))
    BY <2>2
  <2>3. CASE Goes(c, [call[c] EXCEPT !.at = "fill",
                                     !.seen = Restrict(rows, call[c].pks)])
    BY <2>3
  <2>4. CASE call[c].kind # "purge" /\ \A p \in call[c].pks : rows[p] # None
    BY <2>1, <2>3, <2>4 DEF Read
  <2>5. CASE ~(call[c].kind # "purge" /\ \A p \in call[c].pks : rows[p] # None)
    BY <2>1, <2>2, <2>5 DEF Read
  <2> QED
    BY <2>4, <2>5
<1> DEFINE step == [call[c] EXCEPT !.at = at, !.seen = Restrict(table, call[c].pks)]
<1>5. /\ \A p \in call[c].pks : Restrict(table, call[c].pks)[p] = table[p]
      /\ Restrict(table, call[c].pks) \in [call[c].pks -> Records \cup {None}]
  BY <1>3 DEF Restrict, StoreInv, TypeOK
<1>6. /\ step \in Steps(call[c].pks)
      /\ step.at \in {"fill", "judge"} /\ step.seen = Restrict(table, call[c].pks)
      /\ step.kind = call[c].kind /\ step.pks = call[c].pks
      /\ step.new = call[c].new /\ step.found = call[c].found
  BY <1>2, <1>5 DEF Steps, Places
<1>7. Goes(c, step) /\ UNCHANGED <<dataVars, cached, history>>
  BY <1>4 DEF Read
<1> HIDE DEF step
<1>8. Continues(c, step)
  BY <1>3, <1>6 DEF Continues
<1>9. \A p \in step.pks \ suspect : step.seen[p] = rows[p]
  <2> SUFFICES ASSUME NEW p \in call[c].pks \ suspect, cached[p] # None
               PROVE  cached[p] = rows[p]
    BY <1>4, <1>5, <1>6
  <2>1. ASSUME NEW d \in Clients, Forgetting(d, p), p \in call[d].pks
        PROVE  FALSE
    BY <1>1, <2>1 DEF Forgetting, StoreInv, Alone
  <2> QED
    BY <1>3, <2>1 DEF StoreInv, Cache, CachedRows
<1>10. suspect' = suspect /\ suspect \subseteq Pks
  BY <1>7 DEF StoreInv, TypeOK, history
<1> QED
  BY <1>1, <1>6, <1>7, <1>8, <1>9, <1>10, QuietStep DEF history

\* Where nothing is known of the old record, the record is suspect.
LEMMA ReadFailsInv ==
  ASSUME StoreInv, NEW c \in Clients, ReadFails(c)
  PROVE  StoreInv'
<1>1. call[c] # Idle /\ call[c].at = "read"
  BY DEF ReadFails, Idle
<1>2. call[c].pks \in SUBSET Pks
  BY CallTypes DEF StoreInv
<1>3. Knows(c, call[c])
  BY <1>1 DEF Knows, StoreInv, CallsOK
<1>4. PICK step : step = Onward(call[c])
  OBVIOUS
<1>5. Continues(c, step) /\ After(call[c], step)
  BY <1>3, <1>4, OnwardContinues
<1>6. step # Idle => call[c].kind \in {"save", "delete"}
  BY <1>4 DEF Onward
<1>7. suspect \subseteq suspect' /\ suspect' \subseteq Pks
  BY <1>2 DEF ReadFails, StoreInv, TypeOK
<1>8. step # Idle => step.pks \subseteq suspect'
  BY <1>5, <1>6 DEF ReadFails, After
<1>9. Goes(c, step) /\ UNCHANGED <<dataVars, cached, contested, overtaken>>
  BY <1>4 DEF ReadFails
<1> QED
  BY <1>1, <1>5, <1>7, <1>8, <1>9, QuietStep DEF After

\* Expiry is judged on the row that was read.
LEMMA JudgeInv ==
  ASSUME StoreInv, NEW c \in Clients, Judge(c)
  PROVE  StoreInv'
<1> DEFINE expired == {p \in call[c].pks : Expired(call[c].seen[p])}
<1>1. call[c] # Idle /\ Busy(c) /\ call[c].at = "judge"
  BY DEF Judge, Idle, Busy
<1>2. PICK S \in SUBSET Pks : call[c] \in Steps(S)
  BY <1>1 DEF StoreInv, CallsOK
<1>3. \A p \in call[c].pks \ suspect : call[c].seen[p] = rows[p]
  BY <1>1 DEF StoreInv, Fresh
<1>4. suspect' = suspect /\ suspect \subseteq Pks
  BY DEF Judge, StoreInv, TypeOK, history
<1>5. UNCHANGED <<dataVars, cached, contested, overtaken>>
  BY DEF Judge, history
<1>6. CASE expired = {}
  <2>1. PICK step : step = Onward(call[c])
    OBVIOUS
  <2>2. Goes(c, step)
    BY <1>6, <2>1 DEF Judge
  <2>3. Knows(c, call[c])
    BY <1>1 DEF Knows, StoreInv, CallsOK
  <2>4. Continues(c, step) /\ After(call[c], step)
    BY <2>1, <2>3, OnwardContinues
  <2> HIDE DEF expired
  <2> QED
    BY <1>1, <1>3, <1>4, <1>5, <2>2, <2>4, QuietStep DEF After
<1>7. CASE expired # {}
  <2> DEFINE step == [call[c] EXCEPT !.at = "evict", !.pks = expired]
  <2>1. Goes(c, step)
    BY <1>7 DEF Judge
  <2>2. /\ step \in Steps(S)
        /\ step.at = "evict" /\ step.pks = expired
        /\ step.seen = call[c].seen /\ step.found = call[c].found
        /\ step.kind = call[c].kind /\ step.new = call[c].new
    BY <1>2 DEF Steps, Places
  <2>3. expired \subseteq call[c].pks
    OBVIOUS
  <2> HIDE DEF step, expired
  <2>4. Continues(c, step)
    BY <1>1, <2>2, <2>3 DEF Continues, StoreInv, CallsOK
  <2> QED
    BY <1>1, <1>3, <1>4, <1>5, <2>1, <2>2, <2>3, <2>4, QuietStep
<1> QED
  BY <1>6, <1>7

\* An expired row is deleted with the entries of what was read.
LEMMA EvictInv ==
  ASSUME StoreInv, NEW c \in Clients, Evict(c)
  PROVE  StoreInv'
<1>1. call[c] # Idle /\ Busy(c) /\ call[c].at = "evict"
  BY DEF Evict, Idle, Busy
<1>2. PICK S \in SUBSET Pks : call[c] \in Steps(S)
  BY <1>1 DEF StoreInv, CallsOK
<1>3. /\ call[c].pks \in SUBSET Pks /\ call[c].found = None
      /\ call[c].seen \in [S -> Records \cup {None}]
  BY <1>1, <1>2 DEF Steps, StoreInv, CallsOK
<1>4. \A q \in call[c].pks \ suspect : call[c].seen[q] = rows[q]
  BY <1>1 DEF StoreInv, Fresh
<1>5. UNCHANGED <<cached, contested, overtaken>>
  BY DEF Evict
<1>6. ASSUME NEW p \in call[c].pks,
             Batch(p, call[c].seen[p], None),
             Goes(c, [[call[c] EXCEPT !.seen[p] = None] EXCEPT !.at = "evicted",
                        !.drop = Dropped(p, call[c].seen[p], None)]),
             UNCHANGED suspect
      PROVE  StoreInv'
  <2> DEFINE seen == [call[c].seen EXCEPT ![p] = None]
  <2> DEFINE drop == Dropped(p, call[c].seen[p], None)
  <2> DEFINE step == [call[c] EXCEPT !.at = "evicted", !.seen = seen, !.drop = drop]
  <2>1. seen \in [S -> Records \cup {None}]
    BY <1>3
  <2>2. \A q \in call[c].pks : seen[q] = IF q = p THEN None ELSE call[c].seen[q]
    BY <1>2 DEF Steps
  <2>3. drop \subseteq Pks \cup Uniques
    BY <1>1, <1>3, CallTypes DEF StoreInv, Dropped, UniqueValues, Records
  <2>4. Goes(c, step)
    BY <1>2, <1>6 DEF Steps
  <2> HIDE DEF seen, drop
  <2>5. /\ step \in Steps(S)
        /\ step.at = "evicted" /\ step.seen = seen /\ step.drop = drop
        /\ step.pks = call[c].pks /\ step.found = call[c].found
        /\ step.kind = call[c].kind /\ step.new = call[c].new
    BY <1>2, <2>1, <2>3 DEF Steps, Places
  <2> HIDE DEF step
  <2>6. Continues(c, step)
    BY <1>3, <2>5 DEF Continues
  <2>7. \A q \in Pks : rows'[q] = IF q = p THEN None ELSE rows[q]
    BY <1>3, <1>6 DEF Batch, StoreInv, TypeOK
  <2>8. \A q \in step.pks \ suspect : step.seen[q] = rows'[q]
    BY <1>3, <1>4, <2>2, <2>5, <2>7
  <2>9. Dropped(p, call[c].seen[p], None) \subseteq step.drop
    BY <2>5 DEF drop
  <2> QED
    BY <1>1, <1>5, <1>6, <2>4, <2>5, <2>6, <2>8, <2>9, BatchStep DEF history
<1>7. ASSUME NEW p \in call[c].pks,
             Goes(c, NextExpired([call[c] EXCEPT !.seen[p] = None])),
             suspect' = suspect \cup {p},
             UNCHANGED dataVars
      PROVE  StoreInv'
  <2> DEFINE seen == [call[c].seen EXCEPT ![p] = None]
  <2> DEFINE gone == [call[c] EXCEPT !.seen = seen]
  <2>1. seen \in [S -> Records \cup {None}]
    BY <1>3
  <2>2. \A q \in call[c].pks : q # p => seen[q] = call[c].seen[q]
    BY <1>2 DEF Steps
  <2>3. Goes(c, NextExpired(gone))
    BY <1>2, <1>7 DEF Steps
  <2> HIDE DEF seen
  <2>4. /\ gone \in Steps(S)
        /\ gone.seen = seen /\ gone.pks = call[c].pks
        /\ gone.found = call[c].found
        /\ gone.kind = call[c].kind /\ gone.new = call[c].new
    BY <1>2, <2>1 DEF Steps, Places
  <2> HIDE DEF gone
  <2>5. Knows(c, gone)
    BY <1>3, <2>4 DEF Knows
  <2>6. PICK step : step = NextExpired(gone)
    OBVIOUS
  <2>7. Continues(c, step) /\ After(gone, step) /\ Goes(c, step)
    BY <2>3, <2>5, <2>6, NextExpiredContinues
  <2>8. suspect \subseteq suspect' /\ suspect' \subseteq Pks
    BY <1>3, <1>7 DEF StoreInv, TypeOK
  <2>9. step # Idle =>
          \A q \in step.pks \ suspect' : step.seen[q] = rows[q]
    BY <1>4, <1>7, <2>2, <2>4, <2>7 DEF After
  <2> QED
    BY <1>1, <1>5, <1>7, <2>7, <2>8, <2>9, QuietStep DEF After
<1> QED
  BY <1>6, <1>7 DEF Evict

\* The row that reaches the cache is true, or the record suspect.
LEMMA FillRowInv ==
  ASSUME StoreInv, NEW c \in Clients, FillRow(c)
  PROVE  StoreInv'
<1> DEFINE step == [call[c] EXCEPT !.at = "judge"]
<1>1. call[c] # Idle /\ Busy(c) /\ call[c].at = "fill"
  BY DEF FillRow, Idle, Busy
<1>2. PICK S \in SUBSET Pks : call[c] \in Steps(S)
  BY <1>1 DEF StoreInv, CallsOK
<1>3. /\ step \in Steps(S)
      /\ step.at = "judge" /\ step.seen = call[c].seen
      /\ step.pks = call[c].pks /\ step.found = call[c].found
      /\ step.kind = call[c].kind /\ step.new = call[c].new
  BY <1>2 DEF Steps, Places
<1>4. Goes(c, step) /\ UNCHANGED <<dataVars, history>>
  BY DEF FillRow
<1> HIDE DEF step
<1>5. Continues(c, step)
  BY <1>1, <1>3 DEF Continues, StoreInv, CallsOK
<1>6. \A p \in step.pks \ suspect : step.seen[p] = rows[p]
  BY <1>1, <1>3 DEF StoreInv, Fresh
<1>7. suspect' = suspect /\ contested' = contested /\ overtaken' = overtaken
  BY <1>4 DEF history
<1>8. suspect \subseteq Pks /\ overtaken \subseteq Uniques
  BY DEF StoreInv, TypeOK
<1>9. CASE cached' = cached
  BY <1>1, <1>3, <1>4, <1>5, <1>6, <1>7, <1>8, <1>9, QuietStep
<1>10. CASE cached' # cached
  <2>1. PICK p \in call[c].pks : cached' = [cached EXCEPT ![p] = call[c].seen[p]]
    BY <1>10 DEF FillRow
  <2>2. /\ p \in Pks /\ p \notin Uniques
        /\ call[c].seen[p] \in Records \cup {None}
        /\ p \notin suspect => call[c].seen[p] = rows[p]
    BY <1>1, <1>3, <1>6, CallTypes, StoreAssumption DEF StoreInv
  <2>3. call'[c] = step
    BY <1>1, <1>4, <1>5, <1>7, CallsStep DEF StoreInv
  <2>4. ~Taking(c)'
    BY <1>3, <2>3 DEF Taking
  <2>5. \A j : ~Forgetting(c, j)
    BY <1>1 DEF Forgetting
  <2> QED
    BY <1>1, <1>4, <1>5, <1>6, <1>7, <1>8, <2>1, <2>2, <2>4, <2>5, CachingStep
<1> QED
  BY <1>9, <1>10

\* A look-up that finds its value free leads to the commit.
LEMMA DecidedContinues ==
  ASSUME CallsOK, NEW c \in Clients, call[c].at \in {"check", "found"},
         NEW holder
  PROVE  /\ Continues(c, Decided(c, holder))
         /\ IF Free(c, holder)
            THEN /\ Decided(c, holder) # Idle
                 /\ Decided(c, holder).at = "commit"
                 /\ Decided(c, holder).kind = "save"
                 /\ Decided(c, holder).found = None
                 /\ Decided(c, holder).new = call[c].new
                 /\ Decided(c, holder).pks = call[c].pks
                 /\ Decided(c, holder).seen = call[c].seen
            ELSE Decided(c, holder) = Idle
<1>1. call[c] # Idle /\ call[c].kind = "save"
  BY DEF CallsOK, Idle
<1>2. PICK S \in SUBSET Pks : call[c] \in Steps(S)
  BY <1>1 DEF CallsOK
<1> DEFINE r == [call[c] EXCEPT !.at = "commit", !.found = None]
<1>3. Decided(c, holder) = IF Free(c, holder) THEN r ELSE Idle
  BY DEF Decided
<1>4. /\ r \in Steps(S)
      /\ r.at = "commit" /\ r.seen = call[c].seen /\ r.found = None
      /\ r.kind = "save" /\ r.pks = call[c].pks /\ r.new = call[c].new
  BY <1>1, <1>2 DEF Steps, Places
<1>5. call[c].pks \in SUBSET Pks
  BY <1>2 DEF Steps
<1> HIDE DEF r
<1>6. r # Idle
  BY <1>4 DEF Idle
<1> QED
  BY <1>1, <1>3, <1>4, <1>5, <1>6 DEF Continues

\* A save that finds its value free takes it, or contests it.
LEMMA CheckInv ==
  ASSUME StoreInv, NEW c \in Clients, Check(c)
  PROVE  StoreInv'
<1> DEFINE v == call[c].new.u
<1>1. call[c] # Idle /\ Busy(c) /\ call[c].at = "check" /\ call[c].kind = "save"
  BY DEF Check, Idle, Busy, StoreInv, CallsOK
<1>2. PICK S \in SUBSET Pks : call[c] \in Steps(S)
  BY <1>1 DEF StoreInv, CallsOK
<1>3. v \in Uniques /\ call[c].pks \in SUBSET Pks
  BY <1>1, <1>2 DEF StoreInv, CallsOK, Steps, Records
<1>4. UNCHANGED <<dataVars, cached, suspect, overtaken>>
  BY DEF Check
(* The step, and the holder on which it rests.                              *)
<1> DEFINE Rests(holder, step) ==
      /\ Goes(c, step)
      /\ contested' = contested \cup Contested(c, holder)
      /\ holder = uniq[v] \/ holder # None
      /\ Continues(c, step)
      /\ step # Idle =>
           /\ step.at \in {"commit", "found"}
           /\ step.kind = "save" /\ step.new = call[c].new
           /\ step.pks = call[c].pks /\ step.seen = call[c].seen
           /\ Free(c, step.found) <=> Free(c, holder)
<1>5. PICK holder \in {cached[v], uniq[v]} : \E step : Rests(holder, step)
  <2>1. CASE \/ /\ cached[v] # None
                /\ Goes(c, Decided(c, cached[v]))
                /\ contested' = contested \cup Contested(c, cached[v])
             \/ /\ uniq[v] = None
                /\ Goes(c, Decided(c, uniq[v]))
                /\ contested' = contested \cup Contested(c, uniq[v])
    <3>1. PICK h \in {cached[v], uniq[v]} :
            /\ Goes(c, Decided(c, h))
            /\ contested' = contested \cup Contested(c, h)
            /\ h = uniq[v] \/ h # None
      BY <2>1
    <3>2. Free(c, None)
      BY DEF Free
    <3>3. Rests(h, Decided(c, h))
      BY <1>1, <3>1, <3>2, DecidedContinues DEF StoreInv
    <3> QED
      BY <3>3
  <2>2. CASE /\ uniq[v] # None
             /\ Goes(c, [call[c] EXCEPT !.at = "found", !.found = uniq[v]])
             /\ contested' = contested \cup Contested(c, uniq[v])
    <3> DEFINE r == [call[c] EXCEPT !.at = "found", !.found = uniq[v]]
    <3>1. uniq[v] \in Pks \cup {None}
      BY <1>3 DEF StoreInv, TypeOK
    <3>2. /\ r \in Steps(S)
          /\ r.at = "found" /\ r.seen = call[c].seen /\ r.found = uniq[v]
          /\ r.kind = "save" /\ r.pks = call[c].pks /\ r.new = call[c].new
      BY <1>1, <1>2, <3>1 DEF Steps, Places
    <3>3. Goes(c, r) /\ contested' = contested \cup Contested(c, uniq[v])
      BY <2>2
    <3> HIDE DEF r
    <3>4. Continues(c, r)
      BY <1>1, <1>3, <3>2 DEF Continues
    <3>5. Rests(uniq[v], r)
      BY <3>2, <3>3, <3>4
    <3> QED
      BY <3>5
  <2> QED
    BY <2>1, <2>2 DEF Check
<1>5a. PICK step : Rests(holder, step)
  BY <1>5
<1> HIDE DEF v
<1>6. /\ call'[c] = step
      /\ \A d \in Clients : d # c => call'[d] = call[d]
  BY <1>1, <1>4, <1>5a, CallsStep DEF StoreInv
<1>7. contested' \subseteq contested \cup {v} /\ contested \subseteq contested'
  BY <1>5a DEF Contested, v
<1>8. Doubtful \subseteq Doubtful' /\ Doubtful' \subseteq Uniques
  BY <1>3, <1>4, <1>7 DEF Doubtful, StoreInv, TypeOK
(* c takes its value only if it rests on a holder that leaves it free.      *)
<1>9. Taking(c)' => Free(c, holder) /\ step.new = call[c].new /\ step.pks = call[c].pks
  BY <1>5a, <1>6 DEF Taking, Idle, Free
<1>10. \A d \in Clients :
         Taking(d) /\ call[d].new.u = v /\ Free(c, holder) => v \in contested'
  BY <1>5a DEF Contested, v
<1>11. \A d \in Clients : d # c =>
         /\ Taking(d)' <=> Taking(d)
         /\ call'[d] = call[d]
  BY <1>6 DEF Taking, Free
<1>12. OneTaker'
  <2> SUFFICES ASSUME NEW d \in Clients, NEW e \in Clients, d # e,
                      Taking(d)', Taking(e)', call'[d].new.u = call'[e].new.u,
                      call'[d].new.u \notin contested'
               PROVE  FALSE
    BY DEF OneTaker
  <2>1. d = c \/ e = c
    BY <1>7, <1>11 DEF StoreInv, OneTaker
  <2> QED
    BY <1>6, <1>9, <1>10, <1>11, <2>1 DEF v
<1>13. StillFree'
  <2> SUFFICES ASSUME suspect = {}, NEW d \in Clients, Taking(d)',
                      call'[d].new.u \notin Doubtful'
               PROVE  uniq[call'[d].new.u] \in {None} \cup call'[d].pks
    BY <1>4 DEF StillFree, dataVars
  <2>1. CASE d # c
    BY <1>8, <1>11, <2>1 DEF StoreInv, StillFree
  <2>2. CASE d = c
    <3>1. /\ Free(c, holder) /\ call'[d].new.u = v /\ call'[d].pks = call[c].pks
      BY <1>6, <1>9, <2>2 DEF v
    <3>2. CASE holder = uniq[v]
      BY <3>1, <3>2 DEF Free
    <3>3. CASE holder # uniq[v]
      <4>1. holder = cached[v] /\ holder \in call[c].pks /\ v \notin Doubtful
        BY <1>5a, <1>8, <3>1, <3>3 DEF Free
      <4>2. PICK e \in Clients : Forgetting(e, v) /\ holder \in call[e].pks
        BY <1>3, <1>5a, <3>3, <4>1 DEF StoreInv, Cache, CachedEntries
      <4>3. e # c
        BY <1>1, <4>2 DEF Forgetting
      <4> QED
        BY <4>1, <4>2, <4>3 DEF StoreInv, Alone
    <3> QED
      BY <3>2, <3>3
  <2> QED
    BY <2>1, <2>2
<1>14. Data'
  BY <1>4, <1>8, DataKept DEF StoreInv
<1>15. Cache'
  <2>1. \A d \in Clients : \A k : Forgetting(d, k) =>
          Forgetting(d, k)' /\ call'[d].pks = call[d].pks
    BY <1>1, <1>6 DEF Forgetting
  <2> QED
    BY <1>4, <1>8, <2>1, CacheKept DEF StoreInv
<1>16. /\ rows' \in [Pks -> Records \cup {None}]
       /\ uniq' \in [Uniques -> Pks \cup {None}]
       /\ norm' \subseteq Normals \X Pks
       /\ DOMAIN cached' = Pks \cup Uniques
       /\ \A p \in Pks : cached'[p] \in Records \cup {None}
       /\ \A u \in Uniques : cached'[u] \in Pks \cup {None}
       /\ suspect' \subseteq Pks /\ suspect' = suspect /\ rows' = rows
  BY <1>4 DEF StoreInv, TypeOK, dataVars
<1>17. step # Idle => \A p \in step.pks \ suspect : step.seen[p] = rows[p]
  BY <1>1, <1>5a DEF StoreInv, Fresh
<1> QED
  BY <1>1, <1>5a, <1>8, <1>12, <1>13, <1>14, <1>15, <1>16, <1>17, StepInv

\* The entry that reaches the cache is true, or its value in doubt.
LEMMA FillEntryInv ==
  ASSUME StoreInv, NEW c \in Clients, FillEntry(c)
  PROVE  StoreInv'
<1>1. call[c] # Idle /\ Busy(c) /\ call[c].at = "found" /\ call[c].kind = "save"
  BY DEF FillEntry, Idle, Busy, StoreInv, CallsOK
<1>2. PICK step : step = Decided(c, call[c].found)
  OBVIOUS
<1>3. /\ Continues(c, step)
      /\ step # Idle =>
           /\ Free(c, call[c].found)
           /\ step.at = "commit" /\ step.pks = call[c].pks /\ step.seen = call[c].seen
  BY <1>1, <1>2, DecidedContinues DEF StoreInv
<1>4. Goes(c, step) /\ UNCHANGED <<dataVars, suspect, contested>>
  BY <1>2 DEF FillEntry
<1>5. call'[c] = step
  BY <1>1, <1>3, <1>4, CallsStep DEF StoreInv
<1>6. Taking(c)' => Taking(c) /\ step.pks = call[c].pks
  BY <1>1, <1>3, <1>5 DEF Taking, Idle
<1>7. step # Idle => \A p \in step.pks \ suspect : step.seen[p] = rows[p]
  BY <1>1, <1>3 DEF StoreInv, Fresh
<1>8. \A j : ~Forgetting(c, j)
  BY <1>1 DEF Forgetting
<1>9. PICK v \in Uniques : v = call[c].new.u
  BY <1>1, CallTypes DEF StoreInv, CallsOK, Records
<1>10. /\ v \notin Pks /\ overtaken \subseteq Uniques
       /\ cached[v] \in Pks \cup {None} /\ call[c].found \in Pks \cup {None}
  BY <1>1, <1>9, CallTypes, StoreAssumption DEF StoreInv, TypeOK
<1>11. CASE UNCHANGED <<cached, overtaken>>
  <2>1. OneTaker' /\ StillFree'
    BY <1>1, <1>3, <1>4, <1>6, <1>11, TakersKept DEF dataVars
  <2>2. Doubtful' = Doubtful
    BY <1>4, <1>11 DEF Doubtful
  <2>3. Data'
    BY <1>4, <2>2, DataKept DEF StoreInv
  <2>4. \A d \in Clients : d # c => call'[d] = call[d]
    BY <1>1, <1>3, <1>4, CallsStep DEF StoreInv
  <2>5. \A d \in Clients : \A k : Forgetting(d, k) =>
          Forgetting(d, k)' /\ call'[d].pks = call[d].pks
    BY <1>8, <2>4 DEF Forgetting
  <2>6. Cache'
    BY <1>4, <1>11, <2>2, <2>5, CacheKept DEF StoreInv
  <2>7. /\ rows' \in [Pks -> Records \cup {None}]
        /\ uniq' \in [Uniques -> Pks \cup {None}]
        /\ norm' \subseteq Normals \X Pks
        /\ DOMAIN cached' = Pks \cup Uniques
        /\ \A p \in Pks : cached'[p] \in Records \cup {None}
        /\ \A u \in Uniques : cached'[u] \in Pks \cup {None}
        /\ suspect' \subseteq Pks /\ suspect' = suspect /\ rows' = rows
        /\ Doubtful' \subseteq Uniques
    BY <1>4, <1>11, <2>2 DEF StoreInv, TypeOK, dataVars, Doubtful
  <2> QED
    BY <1>1, <1>3, <1>4, <1>7, <2>1, <2>3, <2>6, <2>7, StepInv
<1>12. CASE /\ cached' = [cached EXCEPT ![v] = call[c].found]
            /\ overtaken' = IF uniq[v] = call[c].found THEN overtaken
                            ELSE overtaken \cup {v}
  BY <1>1, <1>3, <1>4, <1>6, <1>7, <1>8, <1>10, <1>12, CachingStep
<1> QED
  BY <1>9, <1>11, <1>12 DEF FillEntry

\* The look-up fails, or the batch does.
LEMMA FailInv ==
  ASSUME StoreInv, NEW c \in Clients,
         \/ CheckFails(c)
         \/ Commit(c) /\ Goes(c, Idle) /\ UNCHANGED dataVars
  PROVE  StoreInv'
<1>1. /\ call[c] # Idle /\ Goes(c, Idle)
      /\ call[c].at \notin {"evicted", "committed"}
  <2>1. call[c].at \in {"check", "commit"} /\ Goes(c, Idle)
    BY DEF CheckFails, Commit
  <2> QED
    BY <2>1 DEF Idle
<1>2. UNCHANGED <<dataVars, cached, history>> /\ suspect \subseteq Pks
  BY DEF StoreInv, TypeOK, CheckFails, Commit
<1> QED
  BY <1>1, <1>2, IdleContinues, QuietStep DEF history

\* A Save or a Delete commits its batch.
LEMMA CommitInv ==
  ASSUME StoreInv, NEW c \in Clients, Commit(c)
  PROVE  StoreInv'
<1>1. call[c] # Idle /\ Busy(c) /\ call[c].at = "commit"
  <2>1. call[c].at = "commit"
    BY DEF Commit
  <2> QED
    BY <2>1 DEF Idle, Busy
<1>2. PICK S \in SUBSET Pks : call[c] \in Steps(S)
  BY <1>1 DEF StoreInv, CallsOK
<1>3. ASSUME NEW p \in call[c].pks,
             Batch(p, call[c].seen[p], call[c].new),
             Goes(c, [call[c] EXCEPT !.at = "committed",
                        !.drop = Dropped(p, call[c].seen[p], call[c].new)])
      PROVE  StoreInv'
  <2> DEFINE drop == Dropped(p, call[c].seen[p], call[c].new)
  <2> DEFINE step == [call[c] EXCEPT !.at = "committed", !.drop = drop]
  <2>1. call[c].new \in Records \cup {None} /\ call[c].pks \subseteq Pks
    BY <1>1, CallTypes DEF StoreInv
  <2>2. drop \subseteq Pks \cup Uniques
    BY <1>1, <2>1, CallTypes DEF StoreInv, Dropped, UniqueValues, Records
  <2>3. Goes(c, step)
    BY <1>3
  <2> HIDE DEF drop
  <2>4. /\ step \in Steps(S)
        /\ step.at = "committed" /\ step.drop = drop
        /\ step.pks = call[c].pks /\ step.found = call[c].found
        /\ step.kind = call[c].kind /\ step.new = call[c].new
    BY <1>2, <2>2 DEF Steps, Places
  <2> HIDE DEF step
  <2>5. Continues(c, step)
    BY <1>1, <2>4 DEF Continues, StoreInv, CallsOK
  <2>6. call[c].new # None => Taking(c) /\ call[c].pks = {p}
    BY <1>1 DEF StoreInv, CallsOK, Taking, Free
  <2>7. Dropped(p, call[c].seen[p], call[c].new) \subseteq step.drop
    BY <2>4 DEF drop
  <2>8. UNCHANGED <<cached, history>>
    BY DEF Commit
  <2> QED
    BY <1>1, <1>3, <2>1, <2>3, <2>4, <2>5, <2>6, <2>7, <2>8, BatchStep
<1> QED
  BY <1>3, FailInv DEF Commit

\* A key the call has changed is dropped from the cache.
LEMMA ForgetInv ==
  ASSUME StoreInv, NEW c \in Clients, Forget(c)
  PROVE  StoreInv'
<1>1. call[c] # Idle /\ Busy(c) /\ call[c].at \in {"evicted", "committed"}
  BY DEF Forget, Idle, Busy
<1>2. PICK S \in SUBSET Pks : call[c] \in Steps(S)
  BY <1>1 DEF StoreInv, CallsOK
<1>3. call[c].found = None /\ call[c].drop \subseteq Pks \cup Uniques
  BY <1>1, <1>2 DEF StoreInv, CallsOK, Steps
<1>4. PICK k \in call[c].drop :
        LET kept == [call[c] EXCEPT !.drop = @ \ {k}] IN
        /\ cached' = [cached EXCEPT ![k] = None]
        /\ Goes(c, IF kept.drop # {} THEN kept
                   ELSE IF kept.at = "committed" THEN Idle ELSE NextExpired(kept))
  BY DEF Forget
<1> DEFINE kept == [call[c] EXCEPT !.drop = @ \ {k}]
<1>5. PICK step : step = IF kept.drop # {} THEN kept
                         ELSE IF kept.at = "committed" THEN Idle ELSE NextExpired(kept)
  OBVIOUS
<1>6. Goes(c, step) /\ cached' = [cached EXCEPT ![k] = None]
  BY <1>4, <1>5
<1>7. /\ kept \in Steps(S)
      /\ kept.at = call[c].at /\ kept.drop = call[c].drop \ {k}
      /\ kept.pks = call[c].pks /\ kept.found = None /\ kept.seen = call[c].seen
      /\ kept.kind = call[c].kind /\ kept.new = call[c].new
  BY <1>2, <1>3 DEF Steps, Places
<1> HIDE DEF kept
<1>8. call[c].pks \subseteq Pks
  BY <1>2 DEF Steps
<1>9. Knows(c, kept) /\ Continues(c, kept)
  BY <1>1, <1>7, <1>8 DEF Knows, Continues
<1>10. /\ Continues(c, step)
       /\ \/ step = kept
          \/ call[c].drop \subseteq {k} /\ After(kept, step)
  BY <1>5, <1>7, <1>9, IdleContinues, NextExpiredContinues DEF After
<1>11. UNCHANGED <<dataVars, history>>
  BY DEF Forget
<1>12. suspect' = suspect /\ contested' = contested /\ overtaken' = overtaken
  BY <1>11 DEF history
<1>13. call'[c] = step
  BY <1>1, <1>6, <1>10, <1>12, CallsStep DEF StoreInv
<1>14. ~Taking(c)'
  BY <1>1, <1>7, <1>10, <1>13 DEF After, Taking, Idle
<1>15. \A j : j # k /\ Forgetting(c, j) => Forgetting(c, j)' /\ step.pks = call[c].pks
  BY <1>7, <1>10, <1>13 DEF Forgetting
<1>16. step # Idle /\ step.at # "committed" =>
         \A p \in step.pks \ suspect : step.seen[p] = rows[p]
  <2>1. call[c].at # "committed" =>
          \A p \in call[c].pks \ suspect : call[c].seen[p] = rows[p]
    BY <1>1 DEF StoreInv, Fresh
  <2>2. call[c].at = "committed" => step = kept \/ step = Idle
    BY <1>5, <1>7
  <2> QED
    BY <1>7, <1>10, <2>1, <2>2 DEF After
<1>17. overtaken \subseteq Uniques
  BY DEF StoreInv, TypeOK
<1> QED
  BY <1>1, <1>3, <1>6, <1>10, <1>11, <1>12, <1>14, <1>15, <1>16, <1>17, CachingStep

\* Time changes no row.
LEMMA TickInv ==
  ASSUME StoreInv, Tick
  PROVE  StoreInv'
<1>1. clock' \in 0 .. MaxTime
  BY StoreAssumption DEF Tick, StoreInv, TypeOK
<1>2. TypeOK'
  BY <1>1 DEF Tick, dataVars, history, StoreInv, TypeOK, Busy
<1>3. Data'
  BY DataKept DEF Tick, StoreInv, history, Doubtful
<1> QED
  BY <1>2, <1>3
     DEF Tick, dataVars, history, StoreInv, CallsOK, Busy, Alone, Fresh, OneTaker,
         StillFree, Taking, Free, Doubtful, Cache, CachedRows, CachedEntries,
         Forgetting

\* Every step keeps the invariant of the store.
LEMMA NextInv == StoreInv /\ [Next]_vars => StoreInv'
<1> SUFFICES ASSUME StoreInv, [Next]_vars PROVE StoreInv'
  OBVIOUS
<1>1. CASE UNCHANGED vars
  BY <1>1
     DEF vars, dataVars, history, StoreInv, TypeOK, CallsOK, Busy, Alone, Fresh,
         OneTaker, StillFree, Taking, Free, Doubtful, Data, RowsAreIndexed,
         EntriesExactUnlessRaced, Owned, NormalEntries, UniqueValues, Cache,
         CachedRows, CachedEntries, Forgetting
<1>2. ASSUME NEW c \in Clients,
             \/ Begin(c) \/ Read(c) \/ FillRow(c) \/ ReadFails(c) \/ Judge(c)
             \/ Evict(c) \/ Check(c) \/ FillEntry(c) \/ CheckFails(c)
             \/ Commit(c) \/ Forget(c)
      PROVE  StoreInv'
  BY <1>2, BeginInv, ReadInv, FillRowInv, ReadFailsInv, JudgeInv, EvictInv,
     CheckInv, FillEntryInv, FailInv, CommitInv, ForgetInv
<1> QED
  BY <1>1, <1>2, TickInv DEF Next

\* The invariant of the store holds in every execution.
LEMMA StoreInvariant == Spec => []StoreInv
  BY InitInv, NextInv, PTL DEF Spec

-----------------------------------------------------------------------------
(* The type of the store's state.                                           *)
THEOREM StoreTypeCorrect == Spec => []TypeOK
<1>1. StoreInv => TypeOK
  BY DEF StoreInv
<1> QED
  BY <1>1, StoreInvariant, PTL

(* A stored row is found through its normal index, whatever calls overlap,  *)
(* expire, read nothing or fail (store.go:149-265, 364-389).                *)
THEOREM RowsStayIndexed == Spec => []RowsAreIndexed
<1>1. StoreInv => RowsAreIndexed
  BY DEF StoreInv, Data
<1> QED
  BY <1>1, StoreInvariant, PTL

(* The indexes hold exactly the entries of the current version of every     *)
(* record that no overlapping call and no failed read or expiry touched     *)
(* (store.go:158-174, 221-248, 273-291).                                    *)
THEOREM EntriesStayExact == Spec => []EntriesExactUnlessRaced
<1>1. StoreInv => EntriesExactUnlessRaced
  BY DEF StoreInv, Data
<1> QED
  BY <1>1, StoreInvariant, PTL

(* Without such a race, a unique value is shared only after two Saves both  *)
(* found it free before either committed (schema.md:73-78), or after the    *)
(* entry of the value changed while a look-up was bringing it into the hot  *)
(* cache (store.go:189, 248; db.go:201-205).                                *)
THEOREM UniqueStaysUnique == Spec => []UniqueUnlessRaced
<1>1. StoreInv => UniqueUnlessRaced
  <2> SUFFICES ASSUME StoreInv, NEW p \in Pks, NEW q \in Pks, p # q,
                      UniqueValues(rows[p]) \cap UniqueValues(rows[q]) # {},
                      suspect = {}, rows[p].u \notin Doubtful
               PROVE  FALSE
    BY DEF UniqueUnlessRaced, Doubtful
  <2>1. rows[p] # None /\ rows[q] # None /\ rows[p].u = rows[q].u
    BY DEF UniqueValues
  <2> QED
    BY <2>1 DEF StoreInv, Data, Owned
<1> QED
  BY <1>1, StoreInvariant, PTL
=============================================================================
