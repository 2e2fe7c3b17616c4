---------------------------- MODULE AdminSchema -----------------------------
(***************************************************************************)
(* cmd/sqlitex-admin: the schema table behind its lock.  Requests import a  *)
(* proto file, clear the table, list keys or show one; net/http serves them *)
(* side by side.  The table of a key is looked up to decode the key, and    *)
(* again to decode what it stores; each lookup is under the lock, the pair  *)
(* is not.                                                                  *)
(***************************************************************************)
EXTENDS SchemaIR

CONSTANTS
  Handlers,    \* goroutines that serve a request
  Files,       \* the proto files somebody may upload
  Sources,     \* their names
  Stored,      \* the keys that a listing meets, in order: kind and table id
  NoTable,     \* nothing: no such table, no file imported
  MaxUploads   \* bound on the imports

ASSUME AdminAssumption ==
  /\ MaxUploads \in Nat /\ NoTable \notin Sources
  /\ \A file \in Files :
       file \in Seq(ToSet(file)) /\ \A msg \in ToSet(file) : WellFormed(msg)
  /\ Stored \in Seq(ToSet(Stored))

VARIABLES
  source, tables, list,  \* schemaStore
  handler,     \* handler[h]: the request h serves
  uploads,
  moved        \* history: requests whose key was decoded by an earlier schema

store     == <<source, tables, list>>
adminVars == <<source, tables, list, handler, uploads, moved>>

Ids      == {Hash[name] : name \in DOMAIN Hash} \cup {s.id : s \in ToSet(Stored)}
Waiting  == [at |-> "idle"]
Builds   == {BuildIR(file) : file \in Files}

(* importProto builds the new map from the list.                            *)
Merged(new) == [id \in Ids |->                 \* slip: old tables stay
  LET of == {t \in ToSet(new) : t.id = id}
  IN IF of = {} THEN tables[id] ELSE CHOOSE t \in of : TRUE]
ById(new) == [id \in Ids |->
  LET of == {t \in ToSet(new) : t.id = id}
  IN IF of = {} THEN NoTable ELSE CHOOSE t \in of : TRUE]

AdminInit ==
  /\ source = NoTable
  /\ list = <<>>
  /\ tables = [id \in Ids |-> NoTable]
  /\ handler = [h \in Handlers |-> Waiting]
  /\ uploads = 0
  /\ moved = {}

(* POST: parsed and compiled before the lock is taken.                      *)
Upload(h) ==
  /\ handler[h] = Waiting
  /\ uploads < MaxUploads
  /\ uploads' = uploads + 1
  /\ \E name \in Sources, built \in Builds :
       handler' = [handler EXCEPT ![h] =
         [at |-> "import", source |-> name, built |-> built]]
  /\ UNCHANGED <<store, moved>>

Refuse(h) ==
  /\ handler[h].at = "import"
  /\ handler[h].built = {}
  /\ handler' = [handler EXCEPT ![h] = Waiting]
  /\ UNCHANGED <<store, uploads, moved>>

Between == {h \in Handlers : handler[h].at = "row"}

(* The answer to a POST is a snapshot of its own, whose reader is the page. *)
Swap(h) ==
  /\ handler[h].at = "import"
  /\ \E new \in handler[h].built : list' = new /\ tables' = ById(new)
  /\ source' = handler[h].source
  /\ handler' = [handler EXCEPT ![h] = Waiting]
  /\ moved' = moved \cup Between
  /\ UNCHANGED uploads

(* DELETE.                                                                  *)
Clear ==
  /\ source # NoTable
  /\ source' = NoTable
  /\ list' = <<>>
  /\ tables' = [id \in Ids |-> NoTable]
  /\ moved' = moved \cup Between
  /\ UNCHANGED <<handler, uploads>>

(* GET of a page of keys with their rows, entry by entry, or of one key     *)
(* alone.                                                                   *)
Onward(i, alone) ==
  IF alone \/ i = Len(Stored) THEN Waiting
  ELSE [at |-> "key", i |-> i + 1, alone |-> FALSE]

List(h) ==
  /\ handler[h] = Waiting
  /\ handler' = [handler EXCEPT ![h] = Onward(0, FALSE)]
  /\ UNCHANGED <<store, uploads, moved>>

ShowOne(h) ==
  /\ handler[h] = Waiting
  /\ \E i \in DOMAIN Stored :
       handler' = [handler EXCEPT ![h] = [at |-> "key", i |-> i, alone |-> TRUE]]
  /\ UNCHANGED <<store, uploads, moved>>

Table(kind, id) == IF kind = "other" THEN NoTable ELSE tables[id]

(* What a key stores is decoded too: the row of a known table, and, where   *)
(* it is shown alone, the primary key behind an index entry, whose table    *)
(* may be unknown.                                                          *)
Decodes(key, t, alone) ==
  \/ key.kind = "data" /\ t # NoTable
  \/ key.kind = "index" /\ alone

(* decodeKey: the table that the key belongs to.                            *)
LookUpKey(h) ==
  /\ handler[h].at = "key"
  /\ LET i     == handler[h].i
         alone == handler[h].alone
         t     == Table(Stored[i].kind, Stored[i].id)
     IN handler' = [handler EXCEPT ![h] =
          IF Decodes(Stored[i], t, alone)
          THEN [at |-> "row", i |-> i, alone |-> alone, by |-> t]
          ELSE Onward(i, alone)]
  /\ moved' = moved \ {h}
  /\ UNCHANGED <<store, uploads>>

(* tableOf, tableOfIndex: what is stored is decoded by what the schema      *)
(* holds by now.                                                            *)
OnlyTable(s) == IF list = <<>> THEN NoTable ELSE list[1]   \* slip: the first
TableOf(s)   == tables[s.id]

LookUpRow(h) ==
  /\ handler[h].at = "row"
  /\ handler' = [handler EXCEPT ![h] =
       [at |-> "entry", i |-> @.i, alone |-> @.alone, by |-> @.by,
        row |-> TableOf(Stored[@.i])]]
  /\ UNCHANGED <<store, uploads, moved>>

(* The entry is part of the page, or the answer is written.                 *)
AppendEntry(h) ==
  /\ handler[h].at = "entry"
  /\ handler' = [handler EXCEPT ![h] = Onward(@.i, @.alone)]
  /\ moved' = moved \ {h}
  /\ UNCHANGED <<store, uploads>>

AdminNext ==
  \/ \E h \in Handlers :
       \/ Upload(h) \/ Refuse(h) \/ Swap(h)
       \/ List(h) \/ ShowOne(h)
       \/ LookUpKey(h) \/ LookUpRow(h) \/ AppendEntry(h)
  \/ Clear

AdminSpec == AdminInit /\ [][AdminNext]_adminVars

-----------------------------------------------------------------------------
(* Properties                                                               *)

Durations == -(MaxDuration + 1) .. MaxDuration

AdminTypeOK ==
  /\ source \in Sources \cup {NoTable}
  /\ \A t \in ToSet(list) :
       /\ t.message \in DOMAIN Hash
       /\ t.ttl \in Durations \cup {NoTTL}
  /\ \A h \in Handlers :
       handler[h].at \in {"idle", "import", "key", "row", "entry"}
  /\ uploads \in 0 .. MaxUploads
  /\ moved \subseteq Handlers

(* ir.go:82-198: whatever is uploaded, a table that gets through has its    *)
(* primary key among its fields and no index on it, and its records do not  *)
(* expire before they are written, unless its days overflow.                *)
Overflowed == {Wrapped(n * Day) : n \in {t.n : t \in
                 {u \in UNION {{f.ttl : f \in ToSet(m.fields)} :
                               m \in UNION {ToSet(file) : file \in Files}} :
                    u # NoTTL /\ u.unit = "d" /\ u.n * Day > MaxDuration}}}

TablesAreSound ==
  /\ AdminTypeOK
  /\ \A t \in ToSet(list) :
       /\ t.pk \in t.fields
       /\ t.indexed \subseteq t.fields \ {t.pk}
       /\ t.ttl = NoTTL \/ t.ttl > 0 \/ t.ttl \in Overflowed

(* schema.go:148-161, 245: keys are decoded by the map, the page shows the  *)
(* list.  However imports overlap, both hold the tables of one file, and no *)
(* table is hidden by another of the same hash.                             *)
MapAndListAgree ==
  /\ \A i \in DOMAIN list : tables[list[i].id] = list[i]
  /\ \A id \in Ids : tables[id] # NoTable => tables[id] \in ToSet(list)
  /\ source = NoTable => list = <<>>

(* main.go:290-300, 326-338: what a key stores is shown by the table that   *)
(* the key itself was found in, on a page of keys as for a key alone, unless *)
(* an import or a DELETE came between the two lookups.                      *)
EntryOfOneSchema ==
  \A h \in Handlers :
    handler[h].at = "entry" /\ h \notin moved => handler[h].row = handler[h].by
=============================================================================
