------------------------------ MODULE Ed25519 ------------------------------
(***************************************************************************)
(* The calls of orlp's ed25519.h.  SHA-512 is a function of the sequence   *)
(* it is given, whose 64 bytes are the scalars lo + 2^256 hi; sc_reduce    *)
(* and sc_muladd are what they compute (module Scalars is about how).      *)
(***************************************************************************)
EXTENDS X25519

CONSTANTS Sha512(_), \* a sequence of numbers to [lo, hi]
          L          \* the order of B

ASSUME OrderAssumption == /\ L \in Nat /\ 1 < L /\ L < Two[ScalarBits - 3]
                          /\ Multiples(B, L) = Affine(0, 1)

ScReduce(h) == (h.lo + (Two[ScalarBits] % L) * h.hi) % L
ScMulAdd(a, b, c) == (a * b + c) % L

Bytes(s) == <<s.y, s.sign>>

CreateKeypair(seed) ==
    LET h == Sha512(<<seed>>)   a == Clamp(h.lo)
    IN [pub |-> GeToBytes(GeScalarMultBase(a)), priv |-> [a |-> a, prefix |-> h.hi]]

Sign(message, pub, priv) ==
    LET r == ScReduce(Sha512(<<priv.prefix>> \o message))
        R == GeToBytes(GeScalarMultBase(r))
        hram == ScReduce(Sha512(Bytes(R) \o Bytes(pub) \o message))
    IN [R |-> R, S |-> ScMulAdd(hram, priv.a, r)]

(* Mutant: any S will do. *)
NeverTooLarge(S) == FALSE
(* signature[63] & 224 *)
TooLarge(S) == S >= Two[ScalarBits - 3]

Verify(sig, message, pub) ==
    LET A == GeFromBytesNegate(pub)
        h == ScReduce(Sha512(Bytes(sig.R) \o Bytes(pub) \o message))
    IN /\ ~TooLarge(sig.S)
       /\ A # NoPoint
       /\ GeToBytes(GeDoubleScalarMult(h, A, sig.S)) = sig.R

(* ed25519_add_scalar clears the top bit of the scalar. *)
TopBitCleared(scalar) == scalar % Two[ScalarBits - 1]

(* ... with the private key; the prefix is replaced as well.               *)
AddScalarPrivate(priv, scalar) ==
    [a |-> ScMulAdd(1, TopBitCleared(scalar), priv.a),
     prefix |-> Sha512(<<priv.prefix, scalar>>).lo]

PublicOf(priv) == GeToBytes(GeScalarMultBase(priv.a))

(* ... and with the public key alone.  Nothing looks at whether it is one. *)
AddScalarPublic(pub, scalar) ==
    LET A  == GeFromBytesNegate(pub)
        T  == [A EXCEPT !.X = FeNeg(@), !.T = FeNeg(@)]
        nB == GeScalarMultBase(TopBitCleared(scalar))
    IN GeToBytes(P1P1ToP3(GeAdd(nB, P3ToCached(T))))
=============================================================================
