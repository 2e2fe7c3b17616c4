------------------------------ MODULE SchemaIR ------------------------------
(***************************************************************************)
(* internal/codegen/ir.go: which tables a set of proto files declares, or   *)
(* that it is refused.  A file is the sequence of its messages; names are   *)
(* full names, hashes and durations are narrow.  How wide a field is and    *)
(* whether it is compressed is in ValueLayout.                              *)
(***************************************************************************)
EXTENDS Integers, Sequences, FiniteSets, SequencesExt, FiniteSetsExt

CONSTANTS
  Hash,        \* fnv1a64 of the full names of messages
  Day,         \* 24 hours in nanoseconds
  MaxDuration, \* the greatest time.Duration
  NoTTL,       \* no ttl option
  NoOption     \* no table option

ASSUME SchemaAssumption == {Day, MaxDuration} \subseteq Nat \ {0}

(* What the parser of proto files lets through: a field name is used once   *)
(* in a message.                                                            *)
WellFormed(msg) ==
  /\ msg.name \in DOMAIN Hash
  /\ msg.fields \in Seq(ToSet(msg.fields))
  /\ \A i, j \in DOMAIN msg.fields :
       msg.fields[i].name = msg.fields[j].name => i = j
  /\ \A f \in ToSet(msg.fields) :
       f.ttl # NoTTL => f.ttl.unit \in {"d", "ns"} /\ f.ttl.n \in Int

(* int64 arithmetic.                                                        *)
Wrapped(n) ==
  ((n + MaxDuration + 1) % (2 * (MaxDuration + 1))) - (MaxDuration + 1)

(* A result is a set of one element, or empty for an error.  Days are       *)
(* multiplied as they are; ParseDuration knows what does not fit.           *)
ParseTTL(t) ==
  IF t.n <= 0 THEN {}
  ELSE IF t.unit = "d" THEN {Wrapped(t.n * Day)}
  ELSE {n \in {t.n} : n <= MaxDuration}

(* The primary key is marked on the field or named by the table.            *)
Marked(msg, f) == f.primary \/ f.name = msg.option.primary_key

PrimaryKeys(msg) == {i \in DOMAIN msg.fields : Marked(msg, msg.fields[i])}

AnyField(msg)      == {f \in ToSet(msg.fields) : f.index}  \* slip: with the key
IndexedFields(msg) ==
  {f \in ToSet(msg.fields) : f.index /\ ~Marked(msg, f)}

(* The first field with a ttl decides, whether it parses or not.            *)
TTL(msg) ==
  LET declared == {i \in DOMAIN msg.fields : msg.fields[i].ttl # NoTTL}
  IN IF declared = {} THEN {NoTTL} ELSE ParseTTL(msg.fields[Min(declared)].ttl)

Supported(msg) == \A f \in ToSet(msg.fields) : f.type # "other" /\ ~f.repeated

(* The table id comes from the name alone.                                  *)
TableId(msgs, i) == Hash[msgs[i].name]

BuildTable(msg, id) ==
  LET keys == IF Supported(msg) THEN PrimaryKeys(msg) ELSE {}
      Table(i, d) == [message |-> msg.name, id |-> id, pk |-> msg.fields[i].name,
                      fields  |-> {f.name : f \in ToSet(msg.fields)},
                      indexed |-> {f.name : f \in IndexedFields(msg)},
                      ttl     |-> d]
  IN IF Cardinality(keys) = 1 THEN {Table(i, d) : i \in keys, d \in TTL(msg)}
     ELSE {}

(* Two tables of one hash are refused.                                      *)
Apart(msgs) == IsInjective([i \in DOMAIN msgs |-> TableId(msgs, i)])

Tagged(msg) == ~msg.internal /\ msg.option # NoOption

(* They keep the order of the file.                                         *)
TaggedOf(file) ==
  LET tagged == {i \in DOMAIN file : Tagged(file[i])}
      order  == CHOOSE s \in [1 .. Cardinality(tagged) -> tagged] :
                  \A j, k \in DOMAIN s : j < k => s[j] < s[k]
  IN [k \in DOMAIN order |-> file[order[k]]]

BuildIR(file) ==
  LET msgs  == TaggedOf(file)
      built == [i \in DOMAIN msgs |-> BuildTable(msgs[i], TableId(msgs, i))]
  IN IF Apart(msgs) /\ {} \notin Range(built)
     THEN {[i \in DOMAIN msgs |-> CHOOSE t \in built[i] : TRUE]}
     ELSE {}
=============================================================================
