---------------------------- MODULE HelloCrypto ----------------------------
(***************************************************************************)
(* What the handshake of ChatSession rests on, computed instead of         *)
(* assumed: the static key pairs, the two HelloPackets with their          *)
(* signatures, and the secret each side derives.  A static key may have    *)
(* been moved by ed25519_add_scalar, by its owner with the private key and *)
(* by the other side with the public key alone.                            *)
(***************************************************************************)
EXTENDS Ed25519

CONSTANTS Seeds,      \* what the static key pairs are made from
          Scalars,    \* what ed25519_add_scalar is given
          Randoms,    \* what X25519_keypair draws
          StrangeKeys, \* further keys in the peer list of the server
          StrangeR, StrangeS, StrangeU, \* what a peer that is not enchat sends
          None

(* Scalars and what is drawn are unsigned bytes, and so is what SHA-512    *)
(* makes of a seed; what a stranger sends has the form of a HelloPacket.   *)
Encodings == [y : Nat, sign : {0, 1}]
ASSUME HelloAssumption ==
    /\ Scalars \subseteq Nat /\ Seeds \subseteq Nat /\ Randoms \subseteq Nat
    /\ \A seed \in Seeds : Sha512(<<seed>>) \in [lo : Nat, hi : Nat]
    /\ StrangeKeys \subseteq Encodings /\ StrangeR \subseteq Encodings
    /\ StrangeS \subseteq Nat /\ StrangeU \subseteq Nat

Side == {"cli", "srv"}
Other(e) == IF e = "cli" THEN "srv" ELSE "cli"

VARIABLES static,  \* static[e]: the key pair of e
          peerKey, \* peerKey[e]: the key e knows the other by
          moved,   \* moved[e]: ed25519_add_scalar has been called on it
          eph,     \* eph[e]: the ephemeral key pair of e's session
          hello,   \* hello[e]: the HelloPacket e was sent
          outcome, \* outcome[e]: what onHandShake made of it
          shared   \* shared[e]: what ed25519_key_exchange gave e

vars == <<static, peerKey, moved, eph, hello, outcome, shared>>

Init ==
    /\ static = [e \in Side |-> None] /\ peerKey = [e \in Side |-> None]
    /\ moved = [e \in Side |-> FALSE]
    /\ eph = [e \in Side |-> None] /\ hello = [e \in Side |-> None]
    /\ outcome = [e \in Side |-> None] /\ shared = [e \in Side |-> None]

Ready == None \notin {static[e] : e \in Side}

(* A key pair is made and its public half is given to the other side.      *)
CreateStatic(e, seed) ==
    LET pair == CreateKeypair(seed) IN
    /\ static[e] = None
    /\ static' = [static EXCEPT ![e] = pair]
    /\ peerKey' = [peerKey EXCEPT ![Other(e)] = pair.pub]
    /\ UNCHANGED <<moved, eph, hello, outcome, shared>>

(* Both holders of the key of e move it by the same scalar. *)
AddScalar(e, scalar) ==
    /\ static[e] # None /\ ~moved[e] /\ static[Other(e)] = None
    /\ LET priv == AddScalarPrivate(static[e].priv, scalar)
       IN static' = [static EXCEPT ![e] = [pub |-> PublicOf(priv), priv |-> priv]]
    /\ peerKey' = [peerKey EXCEPT ![Other(e)] = AddScalarPublic(@, scalar)]
    /\ moved' = [moved EXCEPT ![e] = TRUE]
    /\ UNCHANGED <<eph, hello, outcome, shared>>

(* The constructor of a ChatSession; what the other side has read before   *)
(* was not from this session.                                              *)
NewSession(e, random) ==
    /\ Ready /\ eph[e] = None /\ hello[Other(e)] = None
    /\ shared = [s \in Side |-> None]
    /\ eph' = [eph EXCEPT ![e] = X25519Keypair(random)]
    /\ UNCHANGED <<static, peerKey, moved, hello, outcome, shared>>

(* What is signed of a HelloPacket. *)
SignedPart(pub, ephemeral) == Bytes(pub) \o <<ephemeral>>

Hello(pub, ephemeral, sig) == [pub |-> pub, ephemeral |-> ephemeral, sig |-> sig]

SignedHello(e) ==
    LET pub == static[e].pub IN
    Hello(pub, eph[e].pub, Sign(SignedPart(pub, eph[e].pub), pub, static[e].priv))

SendHandshake(e) ==
    /\ eph[e] # None /\ hello[Other(e)] = None
    /\ hello' = [hello EXCEPT ![Other(e)] = SignedHello(e)]
    /\ UNCHANGED <<static, peerKey, moved, eph, outcome, shared>>

(* A session reads whatever bytes come where a HelloPacket should. *)
StrangeHello(e, pub, R, S, u) ==
    /\ eph[e] # None /\ eph[Other(e)] = None /\ hello[e] = None
    /\ pub \in StrangeKeys => e = "srv"
    /\ hello' = [hello EXCEPT ![e] = Hello(pub, u, [R |-> R, S |-> S])]
    /\ UNCHANGED <<static, peerKey, moved, eph, outcome, shared>>

(* The server takes the key out of the HelloPacket, when its list has it.  *)
KeyFor(e) == IF e = "srv" THEN hello[e].pub ELSE peerKey[e]

Verified(e) == Verify(hello[e].sig, SignedPart(hello[e].pub, hello[e].ephemeral), KeyFor(e))

(* onHandShake, from ed25519_verify to X25519. *)
OnHandShake(e) ==
    /\ eph[e] # None /\ hello[e] # None /\ outcome[e] = None
    /\ outcome' = [outcome EXCEPT ![e] =
           [verified |-> Verified(e),
            secret |-> IF Verified(e) THEN X25519Shared(eph[e].priv, hello[e].ephemeral)
                       ELSE None]]
    /\ UNCHANGED <<static, peerKey, moved, eph, hello, shared>>

(* ed25519_key_exchange, which enchat does not call. *)
ExchangeStatic(e) ==
    /\ Ready /\ shared[e] = None /\ eph = [s \in Side |-> None]
    /\ shared' = [shared EXCEPT ![e] = KeyExchange(peerKey[e], static[e].priv.a)]
    /\ UNCHANGED <<static, peerKey, moved, eph, hello, outcome>>

Next == \E e \in Side :
    \/ \E seed \in Seeds : CreateStatic(e, seed)
    \/ \E scalar \in Scalars : AddScalar(e, scalar)
    \/ \E random \in Randoms : NewSession(e, random)
    \/ SendHandshake(e)
    \/ \E pub \in StrangeKeys \cup {peerKey[e]}, R \in StrangeR, S \in StrangeS, u \in StrangeU :
           StrangeHello(e, pub, R, S, u)
    \/ OnHandShake(e)
    \/ ExchangeStatic(e)

Spec == Init /\ [][Next]_vars

-----------------------------------------------------------------------------
(* The reference: everything in affine coordinates.                        *)
Times(p, n) == Multiples(p, n)
EncodeAffine(p) == Encoding(p.y, FeIsNegative(p.x))
NegAffine(p) == Affine(FeNeg(p.x), p.y)
Decoded(s) == {p \in [x : Residues, y : {s.y % Prime}] :
                   OnCurve(p) /\ (p.x = 0 \/ FeIsNegative(p.x) = s.sign)}
MontgomeryU(p) == FeMul(FeAdd(1, p.y), FeInvert(FeSub(1, p.y)))

(* A key pair stays one: after any ed25519_add_scalar the public key is    *)
(* still that of the private one, and whoever moved the public key alone   *)
(* has the same.                                                           *)
KeysMatch ==
    \A e \in Side : static[e] # None =>
        /\ static[e].pub = EncodeAffine(Times(B, static[e].priv.a % L))
        /\ peerKey[Other(e)] = static[e].pub

(* ed25519_verify accepts exactly the solutions of S B = R + h A with S    *)
(* below 2^253, whatever bytes it is given: the sliding windows, the       *)
(* tables, the encodings that are not canonical and the points of small    *)
(* order make no difference.                                               *)
VerifyIsEquation ==
    \A e \in Side : (hello[e] # None /\ outcome[e] # None) =>
        LET sig == hello[e].sig
            message == SignedPart(hello[e].pub, hello[e].ephemeral)
            h == ScReduce(Sha512(Bytes(sig.R) \o Bytes(KeyFor(e)) \o message))
            Holds(A) == EncodeAffine(AddAffine(Times(B, sig.S % L), NegAffine(Times(A, h)))) = sig.R
        IN outcome[e].verified <=>
               /\ sig.S < Two[ScalarBits - 3]
               /\ \E A \in Decoded(KeyFor(e)) : Holds(A)

(* Between two programs that follow the protocol no signature is refused,  *)
(* and the two secrets are one: the u-coordinate of the product of the two *)
(* private keys times B.  The same for ed25519_key_exchange, as long as    *)
(* neither key was moved: a moved scalar is no longer clamped, and         *)
(* clamping it changes it.                                                 *)
Product(a, b) == MontgomeryU(Times(B, (Clamp(a) * (Clamp(b) % L)) % L))

Honest(e) == None \notin {eph["cli"], eph["srv"]} /\ hello[e] = SignedHello(Other(e))

OneSecret ==
    /\ \A e \in Side : (outcome[e] # None /\ Honest(e)) =>
           LET product == Product(eph["cli"].priv, eph["srv"].priv)
           IN outcome[e] = [verified |-> TRUE,
                            secret |-> [key |-> product, ok |-> product # 0]]
    /\ (None \notin {shared["cli"], shared["srv"]} /\ ~moved["cli"] /\ ~moved["srv"]) =>
           \A e \in Side :
               shared[e] = Product(static["cli"].priv.a, static["srv"].priv.a)
=============================================================================
