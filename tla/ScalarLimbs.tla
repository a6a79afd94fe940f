---------------------------- MODULE ScalarLimbs ----------------------------
(***************************************************************************)
(* orlp/sc.c: scalars modulo the order of B as 12 limbs below Radix (2^21) *)
(* once carried; a product or a hash has 24.  The order is Radix^12 minus  *)
(* the number whose limbs are Top, which is negative.                      *)
(***************************************************************************)
EXTENDS MixedRadix

CONSTANTS Radix, \* 2^21
          Top    \* 666643, 470296, 654183, -997805, 136657, -683901

ScalarRadix == [i \in 0..23 |-> Radix]
TopNumber == Worth([i \in 0..5 |-> Top[i + 1]], ScalarRadix, 6)

ASSUME ScalarLimbsAssumption ==
    /\ Radix \in Nat \ {0} /\ Radix % 2 = 0
    /\ Top \in [1..6 -> Int] /\ \A i \in 1..6 : 2 * Top[i] \in -Radix..Radix
    /\ TopNumber <= 0

(* Mutant: what is folded in is taken away where it should be added. *)
FoldBack(s, k) ==
    [i \in DOMAIN s |->
        IF i = k THEN 0
        ELSE IF i \in k - 12..k - 7 THEN s[i] - s[k] * Top[i - k + 13]
        ELSE s[i]]

(* s_k is worth Top in the limbs k - 12 to k - 7. *)
FoldDown(s, k) ==
    [i \in DOMAIN s |->
        IF i = k THEN 0
        ELSE IF i \in k - 12..k - 7 THEN s[i] + s[k] * Top[i - k + 13]
        ELSE s[i]]

CarryBy(s, k, c) == [s EXCEPT ![k] = @ - c * Radix, ![k + 1] = @ + c]

(* A carry that leaves s_k between - Radix / 2 and Radix / 2, and one that *)
(* leaves it from 0 to Radix - 1.                                          *)
CarryNearest(s, k) == CarryBy(s, k, (s[k] + Radix \div 2) \div Radix)
CarryDown(s, k) == CarryBy(s, k, s[k] \div Radix)

(* Step at from, from + by, ... : n times *)
Through(Step(_, _), s, from, by, n) ==
    LET Done[j \in 0..n] == IF j = 0 THEN s ELSE Step(Done[j - 1], from + by * (j - 1))
    IN Done[n]

(* What sc_reduce and sc_muladd have in common: 24 limbs to 18 and to 12,  *)
(* then twice what the carries have left above the twelfth.                *)
FoldHighHalf(s24) ==
    LET a == Through(FoldDown, s24, 23, -1, 6)
        b == Through(CarryNearest, Through(CarryNearest, a, 6, 2, 6), 7, 2, 5)
    IN Through(FoldDown, b, 17, -1, 6)

FoldLeftOver(s) ==
    LET a == Through(CarryNearest, Through(CarryNearest, s, 0, 2, 6), 1, 2, 6)
        b == Through(CarryDown, FoldDown(a, 12), 0, 1, 12)
    IN Through(CarryDown, FoldDown(b, 12), 0, 1, 11)

ScReduceLimbs(s) == FoldLeftOver(FoldHighHalf(s))

(* a * b + c in 24 limbs *)
MulAddLimbs(a, b, c) ==
    [k \in 0..23 |->
        (IF k < 12 THEN c[k] ELSE 0) +
        SumTo([i \in 0..11 |-> IF k - i \in 0..11 THEN a[i] * b[k - i] ELSE 0], 12)]

ScMulAddLimbs(a, b, c) ==
    LET s == Through(CarryNearest, MulAddLimbs(a, b, c), 0, 2, 12)
    IN ScReduceLimbs(Through(CarryNearest, s, 1, 2, 11))
=============================================================================
