--------------------------------- MODULE Fe ---------------------------------
(***************************************************************************)
(* Field elements as the curve code sees them: residues modulo the prime.  *)
(* fe.c keeps ten limbs, which module FeLimbs shows to be the same thing.  *)
(* Inversion and the square root are the addition chains of the code.      *)
(***************************************************************************)
EXTENDS Naturals

CONSTANT Prime \* 2^255 - 19

ASSUME PrimeAssumption == Prime \in Nat /\ Prime > 2

(* n rounds of Step, which is given the state so far and the number of the *)
(* round, from 0.                                                          *)
Rounds(Step(_, _), start, n) ==
    LET After[k \in 0..n] == IF k = 0 THEN start ELSE Step(After[k - 1], k - 1)
    IN After[n]

FeAdd(f, g) == (f + g) % Prime
FeSub(f, g) == (f + (Prime - g)) % Prime
FeNeg(f) == (Prime - f) % Prime
FeMul(f, g) == (f * g) % Prime
FeSq(f) == (f * f) % Prime
FeSq2(f) == (2 * f * f) % Prime

(* fe_sq, n times over; the rounds are counted in halves.                  *)
SqTimes(f, n) ==
    LET Sq[t \in 0..Prime - 1, k \in 0..n] ==
            IF k = 0 THEN t
            ELSE IF k = 1 THEN FeSq(t)
            ELSE Sq[Sq[t, k \div 2], k - k \div 2]
    IN Sq[f, n]

(* f^(2^n) * g: what every link of both chains does. *)
Link(f, n, g) == FeMul(SqTimes(f, n), g)

(* z^9 and z^11, where both chains begin. *)
Pow9(z) == Link(FeSq(z), 2, z)
Pow11(z) == FeMul(FeSq(z), Pow9(z))

(* z^(2^250 - 1), by way of z^(2^n - 1) for these n, each from the one     *)
(* before it and, for what is missing, another of them.                    *)
Before(n) == CHOOSE m \in {5, 10, 20, 40, 50, 100, 200} :
                 m < n /\ \A k \in {10, 20, 40, 50, 100, 200} : k < n => k <= m

Pow250(z) ==
    LET Z[n \in 5..250] == IF n = 5 THEN Link(Pow11(z), 1, Pow9(z))
                           ELSE Link(Z[Before(n)], n - Before(n), Z[n - Before(n)])
    IN Z[250]

(* z^(2^255 - 21), which is 1/z, and z^(2^252 - 3) for the square root.    *)
Inverses == [z \in 0..Prime - 1 |-> Link(Pow250(z), 5, Pow11(z))]
Roots == [z \in 0..Prime - 1 |-> Link(Pow250(z), 2, z)]
FeInvert(z) == Inverses[z]
FePow22523(z) == Roots[z]

FeIsNegative(f) == f % 2

(* 2^255 - 19 is prime, and the exponents of the chains are 2 below it and *)
(* (2^255 - 19 - 5) / 8: a power of (p - 1) / 2 of a square is 1.          *)
Residues == 0..Prime - 1
ASSUME InverseAssumption ==
    /\ FeInvert(0) = 0
    /\ \A z \in Residues \ {0} : FeInvert(z) \in Residues /\ FeMul(z, FeInvert(z)) = 1
ASSUME RootAssumption ==
    /\ \A z \in Residues : FePow22523(z) \in Residues
    /\ \A s \in Residues \ {0} :
          LET z == FeSq(s)
          IN FeSq(FeMul(FeSq(FePow22523(z)), z)) = 1
=============================================================================
