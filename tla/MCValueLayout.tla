--------------------------- MODULE MCValueLayout ----------------------------
(* Bytes of two bits, numbers of two bytes, lengths of two: a text that     *)
(* zstd shortens, one it would lengthen, and the empty one.                 *)
EXTENDS ValueLayout

MCTexts == {<<>>, <<1>>, <<2, 2, 2, 2, 2>>}
MCZstd   == [t \in MCTexts |->
              CASE t = <<>> -> <<>> [] t = <<1>> -> <<3, 0, 1>>
                [] OTHER -> <<3, 2>>]
MCInts     == {-1, 6}
MCExpiries == {0, 5}
=============================================================================
