----------------------------- MODULE Arithmetic -----------------------------
(***************************************************************************)
(* The numbers under the cryptography, as the C code holds them: limbs,    *)
(* words and buffers, each beside the number or the message it stands for. *)
(* A behaviour works on one of four things: an element of the field        *)
(* (fe.c), a scalar (sc.c), a Poly1305 accumulator, a SHA-512 context.     *)
(***************************************************************************)
EXTENDS FeLimbs, ScalarLimbs, Poly1305Limbs, Sha512, SequencesExt

CONSTANTS FieldNumbers, \* what fe_frombytes is given
          MaxOps,       \* operations on one element
          Hashes,       \* inputs of sc_reduce: 24 limbs
          ScalarTexts,  \* inputs of sc_muladd: 12 limbs
          Keys,         \* r of a Poly1305 key, before it is clamped
          Pads,         \* s of a Poly1305 key
          PolyBlocks, MaxPolyBlocks,
          Pieces,       \* sizes of the inputs of sha512_update
          MaxBytes

ASSUME ArithmeticAssumption ==
    /\ Keys \cup Pads \cup PolyBlocks \subseteq [1..4 -> 0..Word - 1]
    /\ Pieces \subseteq Nat /\ MaxBytes \in Nat

VARIABLE work

-----------------------------------------------------------------------------
(* What the limbs stand for. *)

FieldPrime == AllWeight - Excess
(* the order of B *)
Order == Place(ScalarRadix, 12) - TopNumber

(* fe_frombytes ignores the top bit. *)
Residue(s) == (s % AllWeight) % FieldPrime
FieldValue(h) == Worth(h, FieldRadix, Limbs)
PolyValue(w) ==
    w[1] + Word * (w[2] + Word * (w[3] + Word * (w[4] + Word * (IF 5 \in DOMAIN w THEN w[5] ELSE 0))))

(* a * b % m by doubling, so that no number exceeds 2 m. *)
TimesMod(a, b, m) ==
    LET P[n \in 0..b] ==
            IF n = 0 THEN 0
            ELSE (((2 * P[n \div 2]) % m) + (IF n % 2 = 1 THEN a % m ELSE 0)) % m
    IN P[b]

(* The limbs s[lo..hi] modulo the order, from the top one down. *)
ScalarValue(s, lo, hi) ==
    LET V[n \in 0..hi - lo + 1] ==
            IF n = 0 THEN 0 ELSE (V[n - 1] * Radix + s[hi + 1 - n]) % Order
    IN V[hi - lo + 1]

-----------------------------------------------------------------------------
(* degree: how many carried elements were added up in f. *)
Element(f, number, degree, ops) ==
    [unit |-> "field", f |-> f, number |-> number % FieldPrime, degree |-> degree,
     other |-> work.other, otherNumber |-> work.otherNumber, ops |-> ops]

FieldInit ==
    \E s, t \in FieldNumbers :
        work = [unit |-> "field", f |-> FromBytes(s), number |-> Residue(s), degree |-> 1,
                other |-> FromBytes(t), otherNumber |-> Residue(t), ops |-> 0]

ScalarInit ==
    \/ \E s \in Hashes :
        work = [unit |-> "scalar", out |-> ScReduceLimbs(s), number |-> ScalarValue(s, 0, 23)]
    \/ \E a, b, c \in ScalarTexts :
        work = [unit |-> "scalar", out |-> ScMulAddLimbs(a, b, c),
                number |-> (TimesMod(ScalarValue(a, 0, 11), ScalarValue(b, 0, 11), Order)
                            + ScalarValue(c, 0, 11)) % Order]

MacInit ==
    \E key \in Keys, s \in Pads :
        work = [unit |-> "mac", r |-> ClampR(key), s |-> s, acc |-> PolyZero,
                number |-> 0, blocks |-> 0]

HashInit == work = [unit |-> "hash", md |-> ShaInit, input |-> <<>>, final |-> FALSE]

Init == FieldInit \/ ScalarInit \/ MacInit \/ HashInit

-----------------------------------------------------------------------------
(* Actions *)

(* fe_add, fe_sub of the element and the other one. *)
FieldSum ==
    /\ work.unit = "field" /\ work.ops < MaxOps /\ work.degree < 3
    /\ \/ work' = Element(Add(work.f, work.other), work.number + work.otherNumber,
                          work.degree + 1, work.ops + 1)
       \/ work' = Element(Sub(work.f, work.other), work.number - work.otherNumber,
                          work.degree + 1, work.ops + 1)
       \/ work' = Element(Neg(work.f), -work.number, work.degree, work.ops + 1)

(* fe_mul, fe_sq, fe_sq2, fe_mul121666. *)
FieldProduct ==
    /\ work.unit = "field" /\ work.ops < MaxOps
    /\ LET square == TimesMod(work.number, work.number, FieldPrime) IN
       \/ work' = Element(Mul(work.f, work.other),
                          TimesMod(work.number, work.otherNumber, FieldPrime), 1, work.ops + 1)
       \/ work' = Element(Sq(work.f), square, 1, work.ops + 1)
       \/ work' = Element(Sq2(work.f), 2 * square, 1, work.ops + 1)
       \/ /\ work.degree <= 2
          /\ work' = Element(MulFactor(work.f),
                             TimesMod(work.number, Factor, FieldPrime), 1, work.ops + 1)

(* poly1305_process: padding is 0 when the last block was filled up.       *)
MacBlock ==
    /\ work.unit = "mac" /\ work.blocks < MaxPolyBlocks
    /\ \E block \in PolyBlocks, padding \in {0, 1} :
        work' = [work EXCEPT
                    !.acc = ProcessBlock(@, work.r, block, padding),
                    !.number = TimesMod(@ + PolyValue(block) + padding * Full,
                                        PolyValue(work.r), PolyPrime),
                    !.blocks = @ + 1]

(* The bytes are numbered, so that each is told from the others. *)
HashUpdate ==
    /\ work.unit = "hash" /\ ~work.final
    /\ \E n \in Pieces :
        LET piece == [i \in 1..n |-> Len(work.input) + i] IN
        /\ Len(work.input) + n <= MaxBytes
        /\ work' = [work EXCEPT !.md = ShaUpdate(@, piece), !.input = @ \o piece]

HashFinal ==
    /\ work.unit = "hash" /\ ~work.final
    /\ work' = [work EXCEPT !.md.blocks = ShaFinal(work.md), !.final = TRUE]

Next == FieldSum \/ FieldProduct \/ MacBlock \/ HashUpdate \/ HashFinal

Spec == Init /\ [][Next]_work

-----------------------------------------------------------------------------
(* Properties *)

(* However the carries went, the limbs are the number they should be, and  *)
(* fe_tobytes, fe_isnegative and fe_isnonzero see its one representative   *)
(* below the prime, as long as no more than two carried elements were      *)
(* added up.                                                               *)
FieldMatches ==
    work.unit = "field" =>
        /\ FieldValue(work.f) % FieldPrime = work.number
        /\ work.degree <= 2 =>
            /\ ToBytes(work.f) = work.number
            /\ IsNegative(work.f) = work.number % 2
            /\ IsNonzero(work.f) = (work.number # 0)

(* sc_reduce and sc_muladd return the one representative below the order,  *)
(* in limbs that fill their bytes without overlap.                         *)
ScalarsReduced ==
    work.unit = "scalar" =>
        /\ \A k \in 0..10 : work.out[k] \in 0..Radix - 1
        /\ work.out[11] >= 0
        /\ Worth(work.out, ScalarRadix, 12) = work.number

(* The accumulator is only partly reduced, yet it is the polynomial so     *)
(* far; the tag is the polynomial modulo the prime, plus s, modulo 2^128,  *)
(* also where the accumulator is at the prime or just above it.            *)
TagMatches ==
    work.unit = "mac" =>
        /\ work.acc[5] <= 4
        /\ PolyValue(work.acc) % PolyPrime = work.number
        /\ PolyValue(ComputeMac(work.acc, work.s))
               = ((work.number % Full) + PolyValue(work.s)) % Full

(* Whatever the pieces were, what is compressed is the message, one mark,  *)
(* the fewest zeros that leave room for the length, and the length; before *)
(* that, the message and no more, with a buffer that is never full.        *)
PaddedOnce ==
    work.unit = "hash" =>
        LET stream == FlattenSeq(work.md.blocks)
            size == Len(work.input)
            zeros == CHOOSE z \in Room - LenBytes..Room - LenBytes + Block - 1 :
                         (size + 1 + z + LenBytes) % Block = 0
        IN /\ \A i \in 1..Len(work.md.blocks) : Len(work.md.blocks[i]) = Block
           /\ Len(work.md.buf) < Block
           /\ IF work.final
              THEN stream = work.input \o <<One>> \o ShaZeros(zeros)
                                       \o [i \in 1..LenBytes |-> 8 * size]
              ELSE stream \o work.md.buf = work.input
=============================================================================
