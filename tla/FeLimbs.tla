------------------------------ MODULE FeLimbs ------------------------------
(***************************************************************************)
(* orlp/fe.c: a field element as Limbs signed limbs (10) of alternately    *)
(* 26 and 25 bits, not unique and only now and then carried.  The prime is *)
(* 2^255 - Excess.                                                         *)
(***************************************************************************)
EXTENDS MixedRadix

CONSTANTS Limbs,    \* 10
          OddRadix, \* 2^25; the limbs at even places have one bit more
          Excess,   \* 19
          Factor,   \* 121666
          Loads     \* fe_frombytes: 2^n for the bit n at which the bytes of each limb begin

Index == 0..Limbs - 1
FieldRadix == [i \in Index |-> IF i % 2 = 0 THEN 2 * OddRadix ELSE OddRadix]
Weight(i) == Place(FieldRadix, i)
AllWeight == Weight(Limbs)
LoadsEnd(i) == IF i = Limbs - 1 THEN AllWeight ELSE Loads[i + 1]

ASSUME FeLimbsAssumption ==
    /\ Limbs \in Nat /\ Limbs % 2 = 0 /\ Limbs >= 4
    /\ OddRadix \in Nat \ {0} /\ OddRadix % 2 = 0
    /\ Excess \in Nat /\ Factor \in Nat /\ Excess < AllWeight
    /\ Loads \in [Index -> Nat \ {0}] /\ Loads[0] = 1
    /\ \A i \in Index : LoadsEnd(i) % Loads[i] = 0 /\ Loads[i] % Weight(i) = 0

Add(f, g) == [i \in Index |-> f[i] + g[i]]
Sub(f, g) == [i \in Index |-> f[i] - g[i]]
Neg(f) == [i \in Index |-> -f[i]]

(* Limb i of h is brought to its width around 0, and what is carried goes  *)
(* to the next limb; from the last one it comes back times Excess.         *)
Carry(h, i) ==
    LET c == (h[i] + FieldRadix[i] \div 2) \div FieldRadix[i] IN
    IF i = Limbs - 1 THEN [h EXCEPT ![i] = @ - c * FieldRadix[i], ![0] = @ + c * Excess]
    ELSE [h EXCEPT ![i] = @ - c * FieldRadix[i], ![i + 1] = @ + c]

(* order[1], ..., order[n] are carried. *)
CarryAll(h, order, n) ==
    LET Done[m \in 0..n] == IF m = 0 THEN h ELSE Carry(Done[m - 1], order[m])
    IN Done[n]

(* 0, 4, 1, 5, 2, 6, 3, 7, 4, 8, 9, 0 *)
ProductOrder ==
    LET half == (Limbs - 2) \div 2 IN
    [n \in 1..Limbs + 2 |-> IF n <= Limbs THEN ((n - 1) \div 2) + ((n - 1) % 2) * half
                            ELSE IF n = Limbs + 1 THEN Limbs - 1 ELSE 0]
(* 9, 1, 3, 5, 7, 0, 2, 4, 6, 8 *)
OddFirst ==
    LET half == Limbs \div 2 IN
    [n \in 1..Limbs |-> IF n = 1 THEN Limbs - 1
                        ELSE IF n <= half THEN 2 * n - 3 ELSE 2 * (n - half) - 2]

(* Mutant: never twice. *)
TermOnce(f, g, i, j) == f[i] * g[j] * (IF i + j >= Limbs THEN Excess ELSE 1)

(* f_i g_j in the sum for limb (i + j) % Limbs: twice when both widths are *)
(* short, times Excess when it wraps around.                               *)
Term(f, g, i, j) ==
    f[i] * g[j] * (IF i % 2 = 1 /\ j % 2 = 1 THEN 2 ELSE 1)
                * (IF i + j >= Limbs THEN Excess ELSE 1)

Product(f, g) ==
    [k \in Index |->
        SumTo([i \in Index |-> Term(f, g, i, (k - i) % Limbs)], Limbs)]

(* The same sums for g = f, every pair once. *)
Square(f) ==
    [k \in Index |->
        SumTo([i \in Index |->
                   LET j == (k - i) % Limbs
                   IN (IF i = j THEN 1 ELSE IF i < j THEN 2 ELSE 0) * Term(f, f, i, j)], Limbs)]

CarryProduct(h) == CarryAll(h, ProductOrder, Limbs + 2)
Mul(f, g) == CarryProduct(Product(f, g))
Sq(f) == CarryProduct(Square(f))
Sq2(f) == CarryProduct([k \in Index |-> 2 * Square(f)[k]])
MulFactor(f) == CarryAll([k \in Index |-> f[k] * Factor], OddFirst, Limbs)

(* The bits of s from Loads[i] up to the next limb's, moved up to where    *)
(* limb i begins; the top bit of s is left out.                            *)
FromBytes(s) ==
    LET bits(i) == (s \div Loads[i]) % (LoadsEnd(i) \div Loads[i])
    IN CarryAll([i \in Index |-> bits(i) * (Loads[i] \div Weight(i))], OddFirst, Limbs)

(* How many times the prime is in h: what is carried out of the top when   *)
(* h + Excess 2^-25 h9 + 1/2 is carried through.                           *)
Quotient(h) ==
    LET Q[i \in 0..Limbs] ==
            IF i = 0 THEN (Excess * h[Limbs - 1] + OddRadix \div 2) \div OddRadix
            ELSE (h[i - 1] + Q[i - 1]) \div FieldRadix[i - 1]
    IN Q[Limbs]

(* The limbs of h - q * prime, carried so that none is negative, as one    *)
(* number; the carry out of the top limb is dropped.                       *)
ToBytes(h) ==
    LET h0 == [h EXCEPT ![0] = @ + Excess * Quotient(h)]
        C[i \in 0..Limbs] == IF i = 0 THEN 0
                             ELSE (h0[i - 1] + C[i - 1]) \div FieldRadix[i - 1]
    IN Worth([i \in Index |-> (h0[i] + C[i]) % FieldRadix[i]], FieldRadix, Limbs)

IsNegative(f) == ToBytes(f) % 2
IsNonzero(f) == ToBytes(f) # 0
=============================================================================
