---------------------------- MODULE MCArithmetic ----------------------------
(* The field of 2^26 - 5 in limbs of 7 and 6 bits; the order 2^24 + 883 in *)
(* limbs of 2; Poly1305 modulo 2^30 - 5 in words of 7; blocks of 8 bytes   *)
(* that leave room for 2, of which the length takes 1.                     *)
EXTENDS Arithmetic

MCLoads == [i \in 0..3 |-> 2^(<<0, 8, 14, 20>>[i + 1])]
MCTop == <<1, -1, 1, -2, 1, -1>>

(* 0, 1, the prime - 1, the prime and above it, all ones, 2^26 (the bit    *)
(* that is left out), some between, and two just below 2^25, whose limbs   *)
(* add up to the prime and above.                                          *)
MCFieldNumbers == {0, 1, 67108858, 67108859, 67108862, 67108863, 67108865,
                   33554428, 33554431, 33554432, 11184810, 49811217}

(* 24 limbs of digits that a linear congruence yields; the top one is      *)
(* wider, as that of a hash is.                                            *)
Digits(seed, n, wide) ==
    LET X[i \in 0..n] == IF i = 0 THEN seed ELSE (X[i - 1] * 421 + 1663) % 7875
    IN [k \in 0..n - 1 |-> (X[k + 1] \div 13) % (IF k = n - 1 THEN wide ELSE 4)]
Flat(n, digit, wide) == [k \in 0..n - 1 |-> IF k = n - 1 THEN wide ELSE digit]
(* The order - 1, the order, the order + 1, in radix 4. *)
Number(v, n) == [k \in 0..n - 1 |-> IF k = 11 THEN v \div 4^11 ELSE IF k > 11 THEN 0 ELSE (v \div 4^k) % 4]
Edges == {Order - 1, Order, Order + 1, 2^24 - 1, 2^24, 2^24 + 1, 0, 2 * Order}
MCHashes ==
    {Digits(seed, 24, 16) : seed \in 1..400} \union {Number(v, 24) : v \in Edges}
        \union {Flat(24, 3, 15), Flat(24, 0, 15), Flat(24, 3, 0)}
MCScalarTexts ==
    {Digits(seed, 12, 16) : seed \in 1..6} \union {Number(v, 12) : v \in {0, Order - 1, 2^24}}
        \union {Flat(12, 3, 15)}

MCKeys == {<<15, 127, 127, 127>>, <<7, 4, 0, 4>>, <<1, 0, 0, 0>>, <<5, 4, 4, 0>>}
MCPads == {<<0, 0, 0, 0>>, <<127, 127, 127, 127>>, <<3, 90, 0, 64>>}
MCPolyBlocks == {<<0, 0, 0, 0>>, <<127, 127, 127, 127>>, <<123, 127, 127, 127>>, <<100, 3, 64, 9>>, <<5, 0, 0, 0>>}
=============================================================================
