---------------------------- MODULE ValueLayout -----------------------------
(***************************************************************************)
(* The value of a row: the Serialize, Size and Deserialize that            *)
(* internal/codegen generates from a schema, and the reading of the same   *)
(* bytes by the admin tool.  A schema is compiled again and again while    *)
(* the rows stay: fields are added at its end and the last one removed.    *)
(*                                                                         *)
(* Bytes have Radix values, an int64 has IntBytes of them and a uint32     *)
(* LenBytes; "int" stands for the numeric types and the enums, "string"    *)
(* for string and bytes.                                                   *)
(***************************************************************************)
EXTENDS Integers, Sequences, FiniteSets, SequencesExt, Functions, Numbers

CONSTANTS
  Radix, IntBytes, LenBytes,
  Ints,       \* values of an int field
  Texts,      \* values of a string field
  Zstd,        \* Zstd[t]: what zstd makes of t
  Expiries,   \* expiry times, 0 for none
  MaxFields   \* bound on the fields of a schema

Byte == 0 .. Radix - 1

ASSUME LayoutAssumption ==
  /\ {Radix, IntBytes, LenBytes, MaxFields} \subseteq Nat \ {0}
  /\ Radix > 1
  /\ \A t \in Texts : t \in Seq(Byte) /\ Len(t) < Power(Radix, LenBytes)
  /\ DOMAIN Zstd = Texts /\ IsInjective(Zstd)
  /\ \A t \in Texts : Zstd[t] \in Seq(Byte)
  /\ Ints \cup Expiries \subseteq -(Power(Radix, IntBytes) \div 2)
                                    .. Power(Radix, IntBytes) \div 2 - 1

-----------------------------------------------------------------------------
(* Schemas.  The first field is the primary key.                            *)

Fields == [type : {"bool", "int", "string"}, compress : BOOLEAN]

(* A field is compressed for its own option or for its table's.             *)
Compressed(s, f) == f.type = "string" /\ (f.compress \/ s.compress)

(* Serialize declares `raw` for each compressed field: two do not compile.  *)
Compiles(s) ==
  Cardinality({i \in DOMAIN s.fields : Compressed(s, s.fields[i])}) <= 1

Schemas ==
  {s \in [fields : UNION {[1 .. n -> Fields] : n \in 1 .. MaxFields},
          compress : BOOLEAN, ttl : BOOLEAN] :
     s.fields[1] = [type |-> "int", compress |-> FALSE] /\ Compiles(s)}

FixedSize(f) ==
  CASE f.type = "bool" -> 1 [] f.type = "int" -> IntBytes [] OTHER -> 0

Values(f) ==
  CASE f.type = "bool" -> BOOLEAN [] f.type = "int" -> Ints [] OTHER -> Texts

Zero(f) ==
  CASE f.type = "bool" -> FALSE [] f.type = "int" -> 0 [] OTHER -> <<>>

(* A record is the sequence of its fields' values.                          *)
Longer(M, f) == {Append(m, v) : m \in M, v \in Values(f)}
Records(s) ==
  LET upTo[i \in 0 .. Len(s.fields)] ==
        IF i = 0 THEN {<<>>} ELSE Longer(upTo[i - 1], s.fields[i])
  IN upTo[Len(s.fields)]

HeaderBytes(s) == IF s.ttl THEN IntBytes ELSE 0

Packed(s) ==                       \* slip: no room for the second length
  SumFunction([i \in DOMAIN s.fields |-> FixedSize(s.fields[i])])
MinSize(s) ==
  SumFunction([i \in DOMAIN s.fields |->
    FixedSize(s.fields[i])
      + (IF Compressed(s, s.fields[i]) THEN 2 * LenBytes ELSE 0)])

Size(s, m) ==
  HeaderBytes(s) + MinSize(s)
    + SumFunction([i \in DOMAIN s.fields |->
        IF s.fields[i].type = "string" THEN LenBytes + Len(m[i]) ELSE 0])

-----------------------------------------------------------------------------
(* Serialize                                                                *)

(* uint64(x) and uint32(x), as bytes.                                       *)
LittleEndian(x, w) == ToDigits(x % Power(Radix, w), Radix, w)

Length(t) == LittleEndian(Len(t), LenBytes)

(* zstd is used only where it makes the text shorter.                       *)
Deflated(t) ==
  LET z == IF Len(Zstd[t]) < Len(t) THEN Zstd[t] ELSE t
  IN Length(z) \o Length(t) \o z

EncodeField(s, f, v) ==
  CASE f.type = "bool"  -> <<IF v THEN 1 ELSE 0>>
    [] f.type = "int"   -> LittleEndian(v, IntBytes)
    [] Compressed(s, f) -> Deflated(v)
    [] OTHER            -> Length(v) \o v

Content(s, m, e) ==
  LittleEndian(e, HeaderBytes(s))
    \o FlattenSeq([i \in DOMAIN m |-> EncodeField(s, s.fields[i], m[i])])

(* The buffer is made with Size bytes, all zero, and filled from the front. *)
Serialize(s, m, e) ==
  LET c == Content(s, m, e)
  IN [i \in 1 .. Size(s, m) |-> IF i <= Len(c) THEN c[i] ELSE 0]

-----------------------------------------------------------------------------
(* Deserialize and the page.  A result is a set of one element, or empty    *)
(* for an error.                                                            *)

Unsigned(bytes) == FromDigits(bytes, Radix)

(* int64(x) of a uint64.                                                    *)
Signed(x) ==
  IF 2 * x >= Power(Radix, IntBytes) THEN x - Power(Radix, IntBytes) ELSE x

(* The n bytes from off on, if there are as many.                           *)
Chunk(data, off, n) ==
  IF off + n > Len(data) THEN {} ELSE {SubSeq(data, off + 1, off + n)}

Decoded(v, off) == [val |-> v, off |-> off]

FixedField(f, data, off) ==
  {Decoded(IF f.type = "bool" THEN b[1] # 0 ELSE Signed(Unsigned(b)),
           off + FixedSize(f)) : b \in Chunk(data, off, FixedSize(f))}

PlainField(data, off) ==
  LET start == off + LenBytes
  IN UNION {{Decoded(t, start + Len(t)) :
               t \in Chunk(data, start, Unsigned(h))} :
            h \in Chunk(data, off, LenBytes)}

Unzip(z) == {t \in Texts : Zstd[t] = z}

AlwaysUnzip(z, length) == Unzip(z)             \* slip: kept raw is forgotten
Inflated(z, length)    == IF Len(z) = length THEN {z} ELSE Unzip(z)

ZippedField(data, off) ==
  LET start == off + 2 * LenBytes
      Lens(h) == [held |-> Unsigned(SubSeq(h, 1, LenBytes)),
                  of   |-> Unsigned(SubSeq(h, LenBytes + 1, 2 * LenBytes))]
  IN UNION {UNION {{Decoded(t, start + Len(z)) :
                      t \in Inflated(z, Lens(h).of)} :
                   z \in Chunk(data, start, Lens(h).held)} :
            h \in Chunk(data, off, 2 * LenBytes)}

GeneratedField(s, f, data, off) ==
  IF f.type # "string" THEN FixedField(f, data, off)
  ELSE IF Compressed(s, f) THEN ZippedField(data, off)
  ELSE PlainField(data, off)

(* decodeOneField knows the option of the field, not the table's.           *)
SizeFirst(s, f, data, off) ==                  \* slip: no second length
  IF f.type # "string" THEN FixedField(f, data, off) ELSE PlainField(data, off)
PageField(s, f, data, off) ==
  IF f.type # "string" /\ ~f.compress THEN FixedField(f, data, off)
  ELSE IF f.compress THEN ZippedField(data, off)
  ELSE PlainField(data, off)

(* The next field, if all before it were decoded, and this one is.          *)
DecodeNext(page, s, data, done, f) ==
  LET d == IF page THEN PageField(s, f, data, done.off)
                   ELSE GeneratedField(s, f, data, done.off)
      r == CHOOSE r \in d : TRUE
  IN IF ~done.ok THEN done
     ELSE IF d = {} THEN [done EXCEPT !.ok = FALSE]
     ELSE [ok |-> TRUE, off |-> r.off, vals |-> Append(done.vals, r.val)]

(* Field by field, up to the first that cannot be decoded, by the page or   *)
(* by the generated code.                                                   *)
Decode(page, s, data) ==
  LET done[i \in 0 .. Len(s.fields)] ==
        IF i = 0 THEN [ok |-> TRUE, off |-> HeaderBytes(s), vals |-> <<>>]
        ELSE DecodeNext(page, s, data, done[i - 1], s.fields[i])
  IN done[Len(s.fields)]

Expiry(s, data) == Signed(Unsigned(SubSeq(data, 1, HeaderBytes(s))))

Deserialize(s, data) ==
  LET d == Decode(FALSE, s, data)
  IN IF Len(data) < MinSize(s) + HeaderBytes(s) \/ ~d.ok THEN {}
     ELSE {[record |-> d.vals, expiry |-> Expiry(s, data)]}

(* decodeValue: what the page shows.                                        *)
Shown(s, data) ==
  IF Len(data) < HeaderBytes(s) THEN [record |-> <<>>, expiry |-> 0]
  ELSE [record |-> Decode(TRUE, s, data).vals, expiry |-> Expiry(s, data)]

-----------------------------------------------------------------------------
VARIABLES
  schema,     \* the schema the running program was compiled from
  row,        \* the value stored for one key, a sequence of bytes
  made        \* history: the schema, record and expiry the row was made of

vars == <<schema, row, made>>

Put(m, e) ==
  /\ row' = Serialize(schema, m, e)
  /\ made' = [schema |-> schema, record |-> m, expiry |-> e]

Init ==
  /\ schema \in Schemas
  /\ \E m \in Records(schema) :
       /\ row = Serialize(schema, m, 0)
       /\ made = [schema |-> schema, record |-> m, expiry |-> 0]

Save ==
  /\ \E m \in Records(schema), e \in IF schema.ttl THEN Expiries ELSE {0} :
       Put(m, e)
  /\ UNCHANGED schema

(* The message gets a new last field, or loses its last one; the tag numbers *)
(* of the others stay, as protobuf wants it.                                 *)
Regenerate ==
  /\ \/ \E f \in Fields : schema' = [schema EXCEPT !.fields = Append(@, f)]
     \/ schema' = [schema EXCEPT !.fields = Front(@)]
  /\ schema' \in Schemas
  /\ UNCHANGED <<row, made>>

Next == Save \/ Regenerate

Spec == Init /\ [][Next]_vars

-----------------------------------------------------------------------------
(* Properties                                                               *)

TypeOK ==
  /\ schema \in Schemas
  /\ row \in Seq(Byte)
  /\ made.schema \in Schemas
  /\ made.record \in Records(made.schema)
  /\ made.expiry \in Expiries \cup {0}

(* serializer.go:156-219, 389-398: Size is enough for what Serialize writes, *)
(* whether zstd shortened the text or not; beyond it Go would panic.         *)
WritesFit ==
  /\ TypeOK
  /\ Len(Content(made.schema, made.record, made.expiry)) <= Len(row)

(* The fields two schemas have in common at their start.                    *)
Common(s, t) ==
  {i \in DOMAIN s.fields \cap DOMAIN t.fields :
     \A j \in 1 .. i : s.fields[j] = t.fields[j]}

(* serializer.go:221-387: a row is read back as it was saved.  Read by a     *)
(* program compiled from a later schema, which added fields at the end or    *)
(* removed the last ones, it is rejected, or the old fields have their       *)
(* values and the new ones are zero; they never take up stray bytes.  What   *)
(* only lost fields is not rejected.                                         *)
RowsReadBack ==
  LET same == Common(schema, made.schema)
      read == Deserialize(schema, row)
  IN /\ same = DOMAIN schema.fields => read # {}
     /\ \A r \in read :
          /\ r.expiry = made.expiry
          /\ \A i \in same : r.record[i] = made.record[i]
          /\ same = DOMAIN made.schema.fields =>
               \A i \in DOMAIN schema.fields \ same :
                 r.record[i] = Zero(schema.fields[i])

(* ops.md:75-78: the page shows what the program reads, as long as the       *)
(* option of each field alone says whether it is compressed.                 *)
PageShowsRow ==
  (\A f \in ToSet(schema.fields) : f.compress <=> Compressed(schema, f)) =>
    \A r \in Deserialize(schema, row) : Shown(schema, row) = r
=============================================================================
