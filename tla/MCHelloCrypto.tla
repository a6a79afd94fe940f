--------------------------- MODULE MCHelloCrypto ---------------------------
(* The curve -x^2 + y^2 = 1 + 6 x^2 y^2 over the field of 13 elements: 20  *)
(* points, B = (4, 8) of order 5.  13 is 5 modulo 8 as 2^255 - 19 is, and  *)
(* the exponents of fe_invert and fe_pow22523 come out as 13 - 2 and       *)
(* (13 - 5) / 8 modulo 12.  Scalars have 16 bits.                          *)
EXTENDS HelloCrypto, SequencesExt

(* Any function would do for SHA-512. *)
MCSha512(s) ==
    LET mix == FoldLeft(LAMBDA acc, x : (acc * 31 + 7 * x + 11) % 65521, 1009, s)
    IN [lo |-> mix, hi |-> (mix * 29 + 17) % 65521]

(* The point of order 1 as y = p + 1, a point of order 2, one of order 20, *)
(* and what is no point.                                                   *)
MCStrangeKeys == {Encoding(14, 0), Encoding(12, 1), Encoding(2, 1), Encoding(3, 0)}
MCStrangeR == [y : {1, 8, 9, 12, 14}, sign : {0, 1}]
=============================================================================
