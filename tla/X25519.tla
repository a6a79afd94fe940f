------------------------------- MODULE X25519 -------------------------------
(***************************************************************************)
(* Diffie-Hellman on the Montgomery form of the curve: BoringSSL's X25519, *)
(* which the handshake uses, and ed25519_key_exchange, which runs the same *)
(* ladder on a static key.                                                 *)
(***************************************************************************)
EXTENDS Ge

CONSTANT C121666 \* (A + 2) / 4 of the Montgomery curve

ASSUME MontgomeryAssumption == C121666 \in Residues /\ FeMul(C121666, FeAdd(1, D)) = 1

(* What a scalar is made of when it is used: e[0] &= 248, e[31] &= 63 or   *)
(* 127, e[31] |= 64.                                                       *)
Clamp(e) == Two[ScalarBits - 2] + 8 * ((e % Two[ScalarBits - 2]) \div 8)

(* Mutant: the two z stay where they are. *)
SwapsXOnly(s, flag) ==
    IF flag = 1 THEN [s EXCEPT !.x2 = s.x3, !.x3 = s.x2] ELSE s
FeCSwap(s, flag) ==
    IF flag = 1 THEN [s EXCEPT !.x2 = s.x3, !.z2 = s.z3, !.x3 = s.x2, !.z3 = s.z2] ELSE s

(* (x2 : z2) is doubled and (x3 : z3) becomes the sum of the two, whose    *)
(* difference is x1.                                                       *)
LadderStep(s, x1) ==
    LET da == FeMul(FeSub(s.x3, s.z3), FeAdd(s.x2, s.z2))
        cb == FeMul(FeAdd(s.x3, s.z3), FeSub(s.x2, s.z2))
        bb == FeSq(FeSub(s.x2, s.z2))
        aa == FeSq(FeAdd(s.x2, s.z2))
        e  == FeSub(aa, bb) IN
    [s EXCEPT !.x3 = FeSq(FeAdd(da, cb)), !.z3 = FeMul(x1, FeSq(FeSub(da, cb))),
              !.x2 = FeMul(aa, bb), !.z2 = FeMul(e, FeAdd(bb, FeMul(C121666, e)))]

(* The u-coordinate of e times the point with u-coordinate x1; the bits of *)
(* e from ScalarBits - 2 (254) down.                                       *)
Ladder(e, x1) ==
    LET Round(s, i) ==
            LET b == Bit(e, ScalarBits - 2 - i)
            IN LadderStep([FeCSwap(s, (s.swap + b) % 2) EXCEPT !.swap = b], x1)
        s == Rounds(Round, [x2 |-> 1, z2 |-> 0, x3 |-> x1, z3 |-> 1, swap |-> 0],
                    ScalarBits - 1)
        last == FeCSwap(s, s.swap) \* never a swap: the last bits are 0
    IN FeMul(last.x2, FeInvert(last.z2))

ScalarMultGeneric(scalar, point) == Ladder(Clamp(scalar), point % Prime)

(* X25519_public_from_private multiplies on the Edwards curve, whose y     *)
(* becomes u = (1 + y) / (1 - y).                                          *)
PublicFromPrivate(private) ==
    LET A == GeScalarMultBase(Clamp(private))
    IN FeMul(FeAdd(A.Z, A.Y), FeInvert(FeSub(A.Z, A.Y)))

(* X25519_keypair: the private key is made to look unclamped.              *)
X25519Keypair(random) ==
    LET private == Two[ScalarBits - 1] + 8 * ((random % Two[ScalarBits - 2]) \div 8) + 7
    IN [pub |-> PublicFromPrivate(private), priv |-> private]

(* The key, and whether it is one: it is all zeros for a point of small    *)
(* order.                                                                  *)
X25519Shared(private, peerPublic) ==
    LET key == ScalarMultGeneric(private, peerPublic) IN [key |-> key, ok |-> key # 0]

(* ed25519_key_exchange: an Ed25519 public key is used for its y alone.    *)
KeyExchange(pub, private) ==
    LET y == pub.y % Prime
    IN Ladder(Clamp(private), FeMul(FeAdd(y, 1), FeInvert(FeSub(1, y))))
=============================================================================
