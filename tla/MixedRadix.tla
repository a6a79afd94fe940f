----------------------------- MODULE MixedRadix -----------------------------
(***************************************************************************)
(* What limbs stand for: limb i counts as the product of the widths of the *)
(* limbs below it.                                                         *)
(***************************************************************************)
EXTENDS Integers

(* f[0] + ... + f[n - 1] *)
SumTo(f, n) ==
    LET S[i \in 0..n] == IF i = 0 THEN 0 ELSE S[i - 1] + f[i - 1] IN S[n]

Place(radix, n) ==
    LET P[i \in 0..n] == IF i = 0 THEN 1 ELSE P[i - 1] * radix[i - 1] IN P[n]

Worth(limbs, radix, n) == SumTo([i \in 0..n - 1 |-> limbs[i] * Place(radix, i)], n)
=============================================================================
