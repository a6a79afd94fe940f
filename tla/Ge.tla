--------------------------------- MODULE Ge ---------------------------------
(***************************************************************************)
(* The group of Ed25519 as orlp/ge.c computes in it: the points            *)
(* -x^2 + y^2 = 1 + d x^2 y^2 in four coordinate systems.  BoringSSL's     *)
(* x25519_ge_* functions are the same code under other names.              *)
(*                                                                         *)
(* Scaled by constants: a scalar has Digits hexadecimal digits (64), the   *)
(* prime, d and the base point are those of a small curve.                 *)
(***************************************************************************)
EXTENDS Fe, Integers, Sequences

CONSTANTS D, SqrtM1,    \* the constants d and sqrtm1
          BaseX, BaseY, \* the base point B
          Digits        \* hexadecimal digits of a scalar

ASSUME GeAssumption == /\ {D, SqrtM1, BaseX, BaseY} \subseteq 0..Prime - 1
                       /\ Digits \in Nat /\ Digits > 0 /\ Digits % 2 = 0

ScalarBits == 4 * Digits

(* The powers of 2. *)
Two == [n \in 0..ScalarBits |-> Rounds(LAMBDA x, i : 2 * x, 1, n)]
Bit(a, i) == (a \div Two[i]) % 2

-----------------------------------------------------------------------------
(* The group law in affine coordinates: what the tables hold.              *)
Affine(x, y) == [x |-> x, y |-> y]
AddAffine(p, q) ==
    LET xy == FeMul(FeMul(p.x, q.y), FeMul(q.x, p.y))
        k  == FeMul(D, xy) IN
    Affine(FeMul(FeAdd(FeMul(p.x, q.y), FeMul(q.x, p.y)), FeInvert(FeAdd(1, k))),
           FeMul(FeAdd(FeMul(p.y, q.y), FeMul(p.x, q.x)), FeInvert(FeSub(1, k))))

Multiples(p, n) == Rounds(LAMBDA q, i : AddAffine(q, p), Affine(0, 1), n)

(* precomp_data.h: (y + x, y - x, 2dxy) of a point.                        *)
Precomp(p) == [yplusx |-> FeAdd(p.y, p.x), yminusx |-> FeSub(p.y, p.x),
               xy2d |-> FeMul(FeMul(p.x, p.y), FeAdd(D, D))]

B == Affine(BaseX, BaseY)

OnCurve(p) == FeSub(FeSq(p.y), FeSq(p.x)) = FeAdd(1, FeMul(D, FeMul(FeSq(p.x), FeSq(p.y))))
Curve == {p \in [x : Residues, y : Residues] : OnCurve(p)}

(* -1 has a root and d has none, so the law is complete; the points of the *)
(* curve are a group under it.                                             *)
ASSUME CurveAssumption ==
    /\ FeSq(SqrtM1) = FeNeg(1) /\ OnCurve(B)
    /\ \A p, q \in Curve :
          LET k == FeMul(D, FeMul(FeMul(p.x, q.y), FeMul(q.x, p.y)))
          IN FeAdd(1, k) # 0 /\ FeSub(1, k) # 0 /\ AddAffine(p, q) \in Curve
    /\ \A p, q, r \in Curve :
          AddAffine(AddAffine(p, q), r) = AddAffine(p, AddAffine(q, r))

(* 256 * p *)
Shift8(p) == Rounds(LAMBDA q, i : AddAffine(q, q), p, 8)
base == [pos \in 0..(Digits \div 2) - 1 |->
            LET p == Rounds(LAMBDA q, i : Shift8(q), B, pos)
            IN [j \in 1..8 |-> Precomp(Multiples(p, j))]]
Bi == [j \in 0..7 |-> Precomp(Multiples(B, 2 * j + 1))]

-----------------------------------------------------------------------------
P2(x, y, z) == [X |-> x, Y |-> y, Z |-> z]
P3(x, y, z, t) == [X |-> x, Y |-> y, Z |-> z, T |-> t]
P1P1(x, y, z, t) == [X |-> x, Y |-> y, Z |-> z, T |-> t]

(* The last four lines of every addition. *)
Sum(a, b, zz, c) == P1P1(FeSub(a, b), FeAdd(a, b), FeAdd(zz, c), FeSub(zz, c))

YPlusX(p)  == FeAdd(p.Y, p.X)
YMinusX(p) == FeSub(p.Y, p.X)

GeAdd(p, q) ==
    Sum(FeMul(YPlusX(p), q.YplusX), FeMul(YMinusX(p), q.YminusX),
        FeMul(2, FeMul(p.Z, q.Z)), FeMul(q.T2d, p.T))

GeSub(p, q) ==
    Sum(FeMul(YPlusX(p), q.YminusX), FeMul(YMinusX(p), q.YplusX),
        FeMul(2, FeMul(p.Z, q.Z)), FeNeg(FeMul(q.T2d, p.T)))

GeMadd(p, q) ==
    Sum(FeMul(YPlusX(p), q.yplusx), FeMul(YMinusX(p), q.yminusx),
        FeAdd(p.Z, p.Z), FeMul(q.xy2d, p.T))

GeMsub(p, q) ==
    Sum(FeMul(YPlusX(p), q.yminusx), FeMul(YMinusX(p), q.yplusx),
        FeAdd(p.Z, p.Z), FeNeg(FeMul(q.xy2d, p.T)))

P1P1ToP2(p) == P2(FeMul(p.X, p.T), FeMul(p.Y, p.Z), FeMul(p.Z, p.T))
P1P1ToP3(p) == P3(FeMul(p.X, p.T), FeMul(p.Y, p.Z), FeMul(p.Z, p.T), FeMul(p.X, p.Y))

P2Zero == P2(0, 1, 1)
P3Zero == P3(0, 1, 1, 0)

GeP2Dbl(p) ==
    LET yy == FeSq(p.Y)   xx == FeSq(p.X)
        sum == FeAdd(yy, xx)   diff == FeSub(yy, xx) IN
    P1P1(FeSub(FeSq(FeAdd(p.X, p.Y)), sum), sum, diff, FeSub(FeSq2(p.Z), diff))

P3ToP2(p) == P2(p.X, p.Y, p.Z)
GeP3Dbl(p) == GeP2Dbl(P3ToP2(p))

P3ToCached(p) == [YplusX |-> YPlusX(p), YminusX |-> YMinusX(p), Z |-> p.Z,
                  T2d |-> FeMul(p.T, FeAdd(D, D))]

-----------------------------------------------------------------------------
(* An encoded point: y, which is not reduced, and the sign of x.           *)
Encoding(y, sign) == [y |-> y, sign |-> sign]

GeToBytes(p) ==
    LET recip == FeInvert(p.Z)
    IN Encoding(FeMul(p.Y, recip), FeIsNegative(FeMul(p.X, recip)))

NoPoint == [X |-> 0, Y |-> 0, Z |-> 0, T |-> 0]

(* -P for the P whose encoding is s; NoPoint when there is none.           *)
GeFromBytesNegate(s) ==
    LET Y == s.y % Prime
        u == FeSub(FeSq(Y), 1)
        v == FeAdd(FeMul(FeSq(Y), D), 1)
        v3 == FeMul(FeSq(v), v)
        uv7 == FeMul(FeMul(FeSq(v3), v), u)
        root == FeMul(FeMul(FePow22523(uv7), v3), u)
        vxx == FeMul(FeSq(root), v)
        X == IF vxx = u THEN root ELSE FeMul(root, SqrtM1)
        signed == IF FeIsNegative(X) = s.sign THEN FeNeg(X) ELSE X
    IN IF vxx # u /\ FeAdd(vxx, u) # 0 THEN NoPoint
       ELSE P3(signed, Y, 1, FeMul(signed, Y))

-----------------------------------------------------------------------------
(* select: the b-th multiple of 256^pos B, for b in -8..8.                 *)
Select(pos, b) ==
    LET t == IF b = 0 THEN [yplusx |-> 1, yminusx |-> 1, xy2d |-> 0]
             ELSE base[pos][IF b < 0 THEN -b ELSE b]
    IN IF b < 0 THEN [yplusx |-> t.yminusx, yminusx |-> t.yplusx, xy2d |-> FeNeg(t.xy2d)]
       ELSE t

(* Mutant: the carry out of a digit is forgotten. *)
NoCarry(e, i) == [e EXCEPT ![i] = IF @ >= 8 THEN @ - 16 ELSE @]
(* A digit of 8 or more becomes negative and is carried into the next.     *)
CarryDigit(e, i) ==
    IF e[i] + 8 >= 16 THEN [e EXCEPT ![i] = @ - 16, ![i + 1] = @ + 1] ELSE e

SignedDigits(a) ==
    Rounds(CarryDigit, [i \in 0..Digits - 1 |-> (a \div Two[4 * i]) % 16], Digits - 1)

(* h + the multiples that the digits from, from + 2, ... select. *)
AddDigits(h, e, from) ==
    Rounds(LAMBDA p, i : P1P1ToP3(GeMadd(p, Select(i, e[2 * i + from]))), h, Digits \div 2)

(* a * B: the odd digits, times 16, then the even ones. *)
GeScalarMultBase(a) ==
    LET e == SignedDigits(a)
        odd == AddDigits(P3Zero, e, 1)
        times8 == Rounds(LAMBDA p, i : P1P1ToP2(GeP2Dbl(p)), P3ToP2(odd), 3)
    IN AddDigits(P1P1ToP3(GeP2Dbl(times8)), e, 0)

-----------------------------------------------------------------------------
(* slide: a as digits 0, +-1, +-3, ... +-15, one per bit.                  *)
Least(S) == CHOOSE i \in S : \A j \in S : i <= j

(* 1 is added at bit k: the ones from there on become 0, the first 0 a 1;  *)
(* when there is no 0 it is lost.                                          *)
Propagate(r, k) ==
    LET zeros == {i \in k..ScalarBits - 1 : r[i] = 0}
        stop == IF zeros = {} THEN ScalarBits ELSE Least(zeros)
    IN [i \in DOMAIN r |-> IF i \in k..stop - 1 THEN 0 ELSE IF i = stop THEN 1 ELSE r[i]]

(* Bit i + b is taken into digit i, if it fits; the loop over b ends when  *)
(* it does not.                                                            *)
TakeBit(s, i, b) ==
    LET r == s.r   w == r[i + b] * Two[b] IN
    IF s.done \/ i + b >= ScalarBits \/ r[i + b] = 0 THEN s
    ELSE IF r[i] + w <= 15 THEN [s EXCEPT !.r[i] = @ + w, !.r[i + b] = 0]
    ELSE IF r[i] - w >= -15 THEN [s EXCEPT !.r = Propagate([r EXCEPT ![i] = @ - w], i + b)]
    ELSE [s EXCEPT !.done = TRUE]

SlideAt(r, i) ==
    IF r[i] = 0 THEN r
    ELSE Rounds(LAMBDA s, b : TakeBit(s, i, b + 1), [r |-> r, done |-> FALSE], 6).r

Slide(a) == Rounds(SlideAt, [i \in 0..ScalarBits - 1 |-> Bit(a, i)], ScalarBits)

(* A, 3A, 5A, ... 15A *)
OddMultiples(A) ==
    LET A2 == P1P1ToP3(GeP3Dbl(A))
        Further(Ai, i) == P3ToCached(P1P1ToP3(GeAdd(A2, Ai)))
    IN [j \in 0..7 |-> Rounds(Further, P3ToCached(A), j)]

AddSigned(t, digit, Add(_, _), Sub(_, _), entry(_)) ==
    IF digit > 0 THEN Add(P1P1ToP3(t), entry(digit \div 2))
    ELSE IF digit < 0 THEN Sub(P1P1ToP3(t), entry((-digit) \div 2))
    ELSE t

(* a * A + b * B, from the highest digit of either that is not 0.          *)
GeDoubleScalarMult(a, A, b) ==
    LET aslide == Slide(a)   bslide == Slide(b)   Ai == OddMultiples(A)
        top == {i \in 0..ScalarBits - 1 : aslide[i] # 0 \/ bslide[i] # 0}
        n == IF top = {} THEN 0 ELSE (CHOOSE i \in top : \A j \in top : j <= i) + 1
        Round(r, k) ==
            LET i == n - 1 - k
                t == AddSigned(GeP2Dbl(r), aslide[i], GeAdd, GeSub, LAMBDA j : Ai[j])
            IN P1P1ToP2(AddSigned(t, bslide[i], GeMadd, GeMsub, LAMBDA j : Bi[j]))
    IN Rounds(Round, P2Zero, n)
=============================================================================
