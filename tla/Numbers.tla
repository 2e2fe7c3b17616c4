------------------------------ MODULE Numbers -------------------------------
(* Powers and digits, for the codecs of keys and values.                    *)
EXTENDS Integers, Sequences

Power(base, n) ==
  LET p[i \in Nat] == IF i = 0 THEN 1 ELSE base * p[i - 1] IN p[n]

(* The w low digits of a number, and the number that digits make, both with *)
(* the lowest digit first.                                                  *)
ToDigits(n, base, w) == [i \in 1 .. w |-> (n \div Power(base, i - 1)) % base]
FromDigits(d, base) ==
  LET v[i \in 0 .. Len(d)] ==
        IF i = 0 THEN 0 ELSE v[i - 1] + d[i] * Power(base, i - 1)
  IN v[Len(d)]
=============================================================================
