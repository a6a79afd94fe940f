--------------------------- MODULE Poly1305Limbs ---------------------------
(***************************************************************************)
(* The arithmetic of poly1305.c: the accumulator as five words, each below *)
(* Word (2^32), of which the fifth holds what is above Word^4 (2^128).     *)
(***************************************************************************)
EXTENDS Naturals, Sequences

CONSTANT Word

ASSUME WordAssumption == Word \in Nat /\ Word >= 128 /\ Word % 16 = 0

Full == Word * Word * Word * Word
PolyPrime == 4 * Full - 5

(* (uint32_t) d, d >> 32, and a d of 64 bits. *)
Lo(d) == d % Word
Hi(d) == d \div Word
Wide(d) == d % (Word * Word)

(* Four sums are carried into four words and what is left. *)
Rippled(d) ==
    LET c1 == Hi(Wide(d[1]))
        c2 == Hi(Wide(d[2] + c1))
        c3 == Hi(Wide(d[3] + c2))
    IN [words |-> <<Lo(d[1]), Lo(d[2] + c1), Lo(d[3] + c2), Lo(d[4] + c3)>>,
        carry |-> Hi(Wide(d[4] + c3))]

(* mbedtls_poly1305_starts: r &= 0x0ffffffc0ffffffc0ffffffc0fffffff.       *)
ClampR(key) == [i \in 1..4 |-> LET top == key[i] % (Word \div 16)
                               IN IF i = 1 THEN top ELSE 4 * (top \div 4)]

PolyZero == <<0, 0, 0, 0, 0>>

AddBlock(acc, block, padding) ==
    LET s == Rippled([i \in 1..4 |-> acc[i] + block[i]])
    IN Append(s.words, Lo(acc[5] + s.carry + padding))

(* acc * r: a product that reaches 2^130 counts five quarters, rs.         *)
TimesR(acc, r) ==
    LET rs(i) == r[i + 1] + (r[i + 1] \div 4)
        factor(i, k) == IF i <= k THEN r[k - i + 1] ELSE rs(4 - (i - k))
        d == [k \in 1..4 |-> Wide(acc[1] * factor(1, k) + acc[2] * factor(2, k)
                                + acc[3] * factor(3, k) + acc[4] * factor(4, k)
                                + (IF k = 1 THEN 0 ELSE acc[5] * rs(k - 1)))]
        s == Rippled(d)
    IN Append(s.words, Lo(s.carry + acc[5] * r[1]))

(* Mutant: what is above 2^130 counts four times, not five. *)
NoQuarter(acc) ==
    LET top == acc[5]
        s == Rippled([acc EXCEPT ![1] = @ + (top - (top % 4))])
    IN Append(s.words, (top % 4) + s.carry)

(* acc %= 2^130 - 5, in part: what is above 2^130 comes back five times.   *)
PartReduced(acc) ==
    LET top == acc[5]
        s == Rippled([acc EXCEPT ![1] = @ + (top \div 4) + (top - (top % 4))])
    IN Append(s.words, (top % 4) + s.carry)

(* poly1305_process, one block. *)
ProcessBlock(acc, r, block, padding) == PartReduced(TimesR(AddBlock(acc, block, padding), r))

(* poly1305_compute_mac: acc or acc - prime, plus s.                       *)
ComputeMac(acc, s) ==
    LET g == Rippled([acc EXCEPT ![1] = @ + 5])
        reduced == IF acc[5] + g.carry >= 4 THEN g.words ELSE acc
    IN Rippled([i \in 1..4 |-> reduced[i] + s[i]]).words
=============================================================================
