------------------------------ MODULE KeySpace ------------------------------
(***************************************************************************)
(* internal/encoding/encode.go: rows and index entries of all tables share  *)
(* one ordered space of byte strings.  Entries are written by the           *)
(* generated store and found again by prefix scans, by their order and by   *)
(* decoding the key.                                                        *)
(*                                                                         *)
(* A byte has Bits bits (8 in Go), so that the boundaries of bytes, of the  *)
(* fixed widths and of the uvarint are met by small numbers.                *)
(***************************************************************************)
EXTENDS Integers, Sequences, FiniteSets, SequencesExt, Functions, Numbers

CONSTANTS
  Bits,          \* bits of a byte
  HashBytes,     \* width of a TableHash (8 in Go)
  PkBytes,       \* width of an integer primary key (4 or 8 in Go)
  Hashes,        \* the TableHashes in use
  NormalFields,  \* the numbers of the fields with a normal index
  UniqueFields,  \* the numbers of the fields with a unique index
  FieldValues,   \* encoded values of those fields: sequences of bytes
  Pks,           \* signed primary keys
  MaxEntries     \* bound on the entries written

Radix == Power(2, Bits)

ASSUME KeyAssumption ==
  /\ {Bits, HashBytes, PkBytes} \subseteq Nat \ {0}
  /\ Bits > 1
  /\ Hashes \subseteq 0 .. Power(Radix, HashBytes) - 1
  /\ NormalFields \cap UniqueFields = {}
  /\ NormalFields \cup UniqueFields \subseteq Nat \ {0}
  /\ FieldValues \subseteq Seq(0 .. Radix - 1)
  /\ Pks \subseteq -(Power(Radix, PkBytes) \div 2)
                    .. Power(Radix, PkBytes) \div 2 - 1
  /\ MaxEntries \in Nat

VARIABLES
  entries,  \* the rows and index entries that were written
  disk      \* what Pebble holds: a function from keys to values

vars == <<entries, disk>>

-----------------------------------------------------------------------------
(* Encoding                                                                 *)

DataPrefix  == 0
IndexPrefix == Radix - 1

BigEndian(n, width) ==
  [i \in 1 .. width |-> (n \div Power(Radix, width - i)) % Radix]

(* EncodeOrderedInt: the two's complement with its sign bit flipped.        *)
HalfRange      == Power(Radix, PkBytes) \div 2
SignKept(v)    == BigEndian(v % (2 * HalfRange), PkBytes)        \* slip
SignFlipped(v) == BigEndian((v + HalfRange) % (2 * HalfRange), PkBytes)

(* binary.PutUvarint: the low digits first, each but the last marked.       *)
Digit == Radix \div 2
UvarintLen(n) ==
  CHOOSE l \in 1 .. n + 1 :
    n < Power(Digit, l) /\ \A k \in 1 .. l - 1 : Power(Digit, k) <= n
Uvarint(n) ==
  [i \in 1 .. UvarintLen(n) |->
     LET left == n \div Power(Digit, i - 1)
     IN IF left < Digit THEN left ELSE Digit + (left % Digit)]

EncodeKey(hash, pk) == <<DataPrefix>> \o BigEndian(hash, HashBytes) \o pk

(* The number of the field is cut to a byte.                                *)
Unmeasured(hash, field, value) ==              \* slip: no ValueLen
  <<IndexPrefix>> \o BigEndian(hash, HashBytes) \o <<field % Radix>> \o value
EncodeIndexPrefix(hash, field, value) ==
  <<IndexPrefix>> \o BigEndian(hash, HashBytes) \o <<field % Radix>>
    \o Uvarint(Len(value)) \o value

EncodeIndexKey(hash, field, value, pk) ==
  EncodeIndexPrefix(hash, field, value) \o pk

Rows == [kind : {"row"}, hash : Hashes, pk : Pks]
IndexEntries ==
  LET Entries(kind, fields) ==
        [kind : {kind}, hash : Hashes, field : fields, value : FieldValues,
         pk : Pks]
  IN Entries("normal", NormalFields) \cup Entries("unique", UniqueFields)

KeyOf(e) ==
  CASE e.kind = "row"    -> EncodeKey(e.hash, SignFlipped(e.pk))
    [] e.kind = "normal" ->
         EncodeIndexKey(e.hash, e.field, e.value, SignFlipped(e.pk))
    [] e.kind = "unique" -> EncodeIndexPrefix(e.hash, e.field, e.value)

-----------------------------------------------------------------------------
(* Decoding                                                                 *)

Malformed == [kind |-> "malformed"]

FromBigEndian(b) ==
  LET v[i \in 0 .. Len(b)] == IF i = 0 THEN 0 ELSE v[i - 1] * Radix + b[i]
  IN v[Len(b)]

DecodeKey(raw) ==
  IF Len(raw) < 1 + HashBytes \/ raw[1] # DataPrefix THEN Malformed
  ELSE [kind |-> "row", hash |-> FromBigEndian(SubSeq(raw, 2, 1 + HashBytes)),
        pk |-> SubSeq(raw, 2 + HashBytes, Len(raw))]

(* The sign bit is flipped back and the bits are read as a signed number.   *)
DecodeOrdered(b) ==
  LET bits == (FromBigEndian(b) + HalfRange) % (2 * HalfRange)
  IN IF bits < HalfRange THEN bits ELSE bits - 2 * HalfRange

(* binary.Uvarint: the value and how many bytes it takes, 0 if it is cut.   *)
HighFirst(b) ==                                \* slip: the digits reversed
  LET v[i \in 0 .. Len(b)] ==
        IF i = 0 THEN 0 ELSE v[i - 1] * Digit + (b[i] % Digit)
  IN v[Len(b)]
LowFirst(b) == FromDigits([i \in DOMAIN b |-> b[i] % Digit], Digit)

DecodeUvarint(b) ==
  LET ends == {i \in DOMAIN b : b[i] < Digit}
      n    == CHOOSE i \in ends : \A j \in ends : i <= j
  IN IF ends = {} THEN [len |-> 0, value |-> 0]
     ELSE [len |-> n, value |-> LowFirst(SubSeq(b, 1, n))]

DecodeIndexKey(raw) ==
  IF Len(raw) < 2 + HashBytes \/ raw[1] # IndexPrefix THEN Malformed
  ELSE LET rest == SubSeq(raw, 3 + HashBytes, Len(raw))
           vLen == DecodeUvarint(rest)
           from == vLen.len
       IN IF from = 0 \/ Len(rest) - from < vLen.value THEN Malformed
          ELSE [kind |-> "index",
                hash |-> FromBigEndian(SubSeq(raw, 2, 1 + HashBytes)),
                field |-> raw[2 + HashBytes],
                value |-> SubSeq(rest, from + 1, from + vLen.value),
                pk |-> SubSeq(rest, from + vLen.value + 1, Len(rest))]

-----------------------------------------------------------------------------
(* Writing and scanning                                                     *)

Init ==
  /\ entries = {}
  /\ disk = <<>>

(* A unique entry replaces the one of the same value; the value on disk is  *)
(* the primary key of the holder (of a row, the record, which is left out). *)
Replaced(e) ==
  IF e.kind # "unique" THEN {e}
  ELSE {[e EXCEPT !.pk = p] : p \in Pks}

Write(e) ==
  /\ Cardinality(entries) < MaxEntries
  /\ entries' = (entries \ Replaced(e)) \cup {e}
  /\ disk' = [k \in DOMAIN disk \cup {KeyOf(e)} |->
                IF k = KeyOf(e) THEN SignFlipped(e.pk) ELSE disk[k]]

Next == \E e \in Rows \cup IndexEntries : Write(e)

Spec == Init /\ [][Next]_vars

(* PrefixIterator.Valid                                                     *)
Scan(prefix) == {k \in DOMAIN disk : IsPrefix(prefix, k)}

(* bytes.Compare, the order of Pebble.                                      *)
Less(s, t) ==
  \/ IsStrictPrefix(s, t)
  \/ \E i \in DOMAIN s \cap DOMAIN t :
       SubSeq(s, 1, i - 1) = SubSeq(t, 1, i - 1) /\ s[i] < t[i]

-----------------------------------------------------------------------------
(* Properties                                                               *)

TypeOK ==
  /\ entries \subseteq Rows \cup IndexEntries
  /\ \A k \in DOMAIN disk :
       /\ k \in Seq(0 .. Radix - 1)
       /\ disk[k] \in Seq(0 .. Radix - 1) /\ Len(disk[k]) = PkBytes

(* encode.go:7-14: an index scan of a value and a table scan find exactly   *)
(* the entries and rows that were written there: no other value, field or   *)
(* table has a key under that prefix, and none was overwritten by another,  *)
(* but for fields whose numbers agree in a byte (encode.go:91).             *)
Alone(e) ==
  \A x \in entries \ Rows :
    x.hash = e.hash /\ x.field # e.field => x.field % Radix # e.field % Radix

ScansExact ==
  /\ \A e \in {x \in entries \ Rows : Alone(x)} :
       {disk[k] : k \in Scan(EncodeIndexPrefix(e.hash, e.field, e.value))} =
         {SignFlipped(d.pk) : d \in {x \in entries \ Rows :
            x.hash = e.hash /\ x.field = e.field /\ x.value = e.value}}
  /\ \A h \in Hashes :
       {disk[k] : k \in Scan(EncodeKey(h, <<>>))} =
         {SignFlipped(d.pk) : d \in {x \in entries \cap Rows : x.hash = h}}

(* schema.md:107: scans go up in the number of the primary key, negative    *)
(* ones included: what keyset paging builds on.                             *)
ScansInPkOrder ==
  \A a, b \in entries :
    /\ a.kind = b.kind /\ a.kind # "unique" /\ a.hash = b.hash
    /\ a.kind = "normal" => a.field = b.field /\ a.value = b.value
    => (Less(KeyOf(a), KeyOf(b)) <=> a.pk < b.pk)

(* encode.go:99-121, 148-156: a key decodes to what it was made from, the    *)
(* number of the field cut to a byte, and no row is taken for an index entry *)
(* or the other way round.                                                  *)
KeysDecode ==
  /\ TypeOK
  /\ \A e \in entries :
       IF e.kind = "row"
       THEN /\ DecodeIndexKey(KeyOf(e)) = Malformed
            /\ DecodeKey(KeyOf(e)) =
                 [kind |-> "row", hash |-> e.hash, pk |-> SignFlipped(e.pk)]
            /\ DecodeOrdered(DecodeKey(KeyOf(e)).pk) = e.pk
       ELSE /\ DecodeKey(KeyOf(e)) = Malformed
            /\ DecodeIndexKey(KeyOf(e)) =
                 [kind |-> "index", hash |-> e.hash, field |-> e.field % Radix,
                  value |-> e.value,
                  pk |-> IF e.kind = "unique" THEN <<>> ELSE SignFlipped(e.pk)]
=============================================================================
