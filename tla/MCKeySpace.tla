----------------------------- MODULE MCKeySpace -----------------------------
(* Small instances of the key space and of the schema table by which the    *)
(* admin tool reads it.  The table is looked up by the hash alone, so each  *)
(* is explored from the initial state of the other.                         *)
EXTENDS KeySpace, AdminSchema

(* Bytes of two bits: a uvarint takes a second byte from length two on,     *)
(* every value a byte can take appears in the field values, and the unique  *)
(* field 5 agrees with the normal field 1 in a byte.                        *)
SomeFieldValues ==
  {<<>>, <<0>>, <<1>>, <<2>>, <<3>>, <<0, 0>>, <<0, 1>>, <<1, 0>>, <<2, 1>>,
   <<3, 3>>, <<0, 1, 2>>, <<2, 1, 0>>, <<1, 1, 1, 1>>}
SomePks == {-8, -3, -1, 0, 1, 7}

(* A and C have one hash.  A day is 3 and a duration ends at 7: two days    *)
(* fit, three are negative, six are two.                                    *)
MCHash == [name \in {"A", "B", "C"} |-> IF name = "B" THEN 8 ELSE 9]

TTLs == {NoTTL} \cup [unit : {"d"}, n : {0, 2, 3, 6}]
                \cup [unit : {"ns"}, n : {-1, 5, 9}]
FieldsOf(name, types, repeats) ==
  [name : {name}, type : types, repeated : repeats, primary : BOOLEAN,
   index : BOOLEAN, ttl : TTLs]
Plain(name) == [name |-> name, type |-> "int", repeated |-> FALSE,
                primary |-> FALSE, index |-> TRUE, ttl |-> NoTTL]

(* One table of one or two fields, or up to two plain messages.             *)
OneTable ==
  {<<[name |-> "A", internal |-> FALSE, option |-> [primary_key |-> pk],
      fields |-> fields]>> :
   pk \in {"x", "y", ""},
   fields \in
     {<<f>> : f \in FieldsOf("x", {"int", "other"}, BOOLEAN)} \cup
     {<<f, g>> : f \in FieldsOf("x", {"int"}, {FALSE}),
                 g \in FieldsOf("y", {"int"}, {FALSE})}}
Messages ==
  [name : {"A", "B", "C"}, internal : BOOLEAN,
   option : {NoOption, [primary_key |-> "x"]},
   fields : {<<Plain("x"), Plain("y")>>}]

MCFiles ==
  OneTable \cup
    {file \in Messages \X Messages : file[1].name # file[2].name}

MCStored == <<[kind |-> "data", id |-> 8], [kind |-> "index", id |-> 8],
              [kind |-> "data", id |-> 9], [kind |-> "other", id |-> 9]>>

MCInit == Init /\ AdminInit

MCNext ==
  \/ AdminInit /\ Next /\ UNCHANGED adminVars
  \/ Init /\ AdminNext /\ UNCHANGED vars

MCSpec == MCInit /\ [][MCNext]_<<vars, adminVars>>
=============================================================================
