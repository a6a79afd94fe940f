----------------------------- MODULE ChaChaPoly -----------------------------
(***************************************************************************)
(* An mbedtls_chachapoly_context: the piecewise calls starts, update_aad,  *)
(* update and finish in any order and with inputs of any size, the one-    *)
(* shot encrypt_and_tag and auth_decrypt, and the state that decides which *)
(* of them are refused.  ChatSession is to move to this cipher (the TODO   *)
(* in writeMsg); so far it calls ChaCha20 alone.                           *)
(*                                                                         *)
(* A byte is a name and the set of keystream bytes it is masked with, so   *)
(* that xor is a symmetric difference.  The ChaCha20 context is its key,   *)
(* its nonce and the number of keystream bytes used (ChaCha20Proofs proves *)
(* that nothing else matters), the Poly1305 context is that of module      *)
(* Poly1305.                                                               *)
(***************************************************************************)
EXTENDS Poly1305, FiniteSets

CONSTANTS Key, Nonce,
          NoKey,       \* no key has been set
          KB,          \* the size of a ChaCha20 block (64)
          MaxLen,      \* bound: bytes of additional data and of text
          MaxSealed,   \* bound: messages that have been encrypted
          MaxAgain     \* bound: calls of finish after the first one

ASSUME AeadAssumption ==
    /\ KB \in Nat \ {0}
    /\ NoKey \notin Key
    /\ MaxLen \in Nat /\ MaxSealed \in Nat /\ MaxAgain \in Nat

VARIABLES
    ctx,      \* the context
    ret,      \* what the last call returned: "0" or an error
    aad,      \* additional data given to this operation
    input,    \* text or ciphertext given to this operation
    output,   \* what update wrote for it
    again,    \* how often finish has succeeded for it
    sealed,   \* the tags encryption gave out, each with its message
    opened    \* if the last call was auth_decrypt: what it was given and what came out

vars == <<ctx, ret, aad, input, output, again, sealed, opened>>

-----------------------------------------------------------------------------
Byte(name) == <<name, {}>>
AadByte(i) == Byte(<<"aad", i>>)
TextByte(i) == Byte(<<"text", i>>)
LenByte(a, n, i) == Byte(<<"len", a, n, i>>)
Tampered(byte) == <<<<"tampered">>, byte[2]>>
Xor(byte, k) == <<byte[1], IF k \in byte[2] THEN byte[2] \ {k} ELSE byte[2] \cup {k}>>

AadBytes(first, n) == [i \in 1..n |-> AadByte(first + i)]
TextBytes(first, n) == [i \in 1..n |-> TextByte(first + i)]
LenBlock(a, n) == [i \in 1..P |-> LenByte(a, n, i)]

(* mbedtls_chacha20_update at the position of the context. *)
Masked(c, in) == [i \in 1..Len(in) |-> Xor(in[i], <<c.key, c.nonce, c.pos + i - 1>>)]

(* chachapoly_pad_aad and chachapoly_pad_ciphertext. *)
Pad(n) == IF n % P = 0 THEN <<>> ELSE Zeros(P - (n % P))

Fresh(key) == [state |-> "INIT", mode |-> "ENCRYPT", key |-> key, nonce |-> NoKey, pos |-> 0,
               poly |-> PolyStarts(<<NoKey, NoKey>>), aadLen |-> 0, ctLen |-> 0]

(* Mutant: the rest of the block the Poly1305 key came from is not thrown  *)
(* away, the text is masked from there on.                                 *)
StartedEarly(c, n, m) ==
    [state |-> "AAD", mode |-> m, key |-> c.key, nonce |-> n, pos |-> 0,
     poly |-> PolyStarts(<<c.key, n>>), aadLen |-> 0, ctLen |-> 0]

(* starts: the first ChaCha20 block makes the Poly1305 key.                *)
Started(c, n, m) ==
    [state |-> "AAD", mode |-> m, key |-> c.key, nonce |-> n, pos |-> KB,
     poly |-> PolyStarts(<<c.key, n>>), aadLen |-> 0, ctLen |-> 0]

WithAad(c, a) == [c EXCEPT !.aadLen = @ + Len(a), !.poly = PolyUpdate(@, a)]

(* The first update pads the additional data. *)
AadClosed(c) == IF c.state = "AAD"
                THEN [c EXCEPT !.state = "CIPHERTEXT", !.poly = PolyUpdate(@, Pad(c.aadLen))]
                ELSE c

(* Mutant: the input is authenticated in both modes. *)
MacsInput(c, in) ==
    [AadClosed(c) EXCEPT !.ctLen = @ + Len(in), !.pos = @ + Len(in), !.poly = PolyUpdate(@, in)]

(* update: the ciphertext is authenticated, whichever side it is on.       *)
WithText(c, in) ==
    LET cipher == IF c.mode = "ENCRYPT" THEN Masked(c, in) ELSE in IN
    [AadClosed(c) EXCEPT !.ctLen = @ + Len(in), !.pos = @ + Len(in),
                         !.poly = PolyUpdate(@, cipher)]

(* Mutant: the padding of a message without text is forgotten.             *)
FinishedUnpadded(c) ==
    LET pad == IF c.state = "CIPHERTEXT" THEN Pad(c.ctLen) ELSE <<>>
        lengths == PolyUpdate(PolyUpdate(c.poly, pad), LenBlock(c.aadLen, c.ctLen)) IN
    [c EXCEPT !.state = "FINISHED", !.poly = PolyFinish(lengths, Byte(<<"one">>))]

(* finish pads what came last and appends the two lengths.                 *)
Finished(c) ==
    LET pad == IF c.state = "AAD" THEN Pad(c.aadLen)
               ELSE IF c.state = "CIPHERTEXT" THEN Pad(c.ctLen) ELSE <<>>
        lengths == PolyUpdate(PolyUpdate(c.poly, pad), LenBlock(c.aadLen, c.ctLen)) IN
    [c EXCEPT !.state = "FINISHED", !.poly = PolyFinish(lengths, Byte(<<"one">>))]

Tag(c) == PolyMac(c.poly)

Nothing == [ok |-> FALSE, key |-> NoKey, nonce |-> NoKey, aad |-> <<>>, cipher |-> <<>>,
            tag |-> PolyMac(PolyStarts(<<NoKey, NoKey>>)), output |-> <<>>]

(* A tag, what it was given out for, and how many came before it.          *)
Sealed(key, nonce, a, text, cipher, tag, n) ==
    [key |-> key, nonce |-> nonce, aad |-> a, text |-> text, cipher |-> cipher, tag |-> tag,
     again |-> n]

Init ==
    /\ ctx = Fresh(NoKey) /\ ret = "0"
    /\ aad = <<>> /\ input = <<>> /\ output = <<>>
    /\ again = 0 /\ sealed = {} /\ opened = Nothing

-----------------------------------------------------------------------------
Streaming == ctx.state \in {"AAD", "CIPHERTEXT"}

(* Bound: another message may be sealed. *)
MaySeal == Cardinality({s \in sealed : s.again = 0}) < MaxSealed

SetKey(k) ==
    /\ ~Streaming /\ ctx.key # k
    /\ ctx' = [ctx EXCEPT !.key = k]
    /\ ret' = "0"
    /\ opened' = Nothing
    /\ UNCHANGED <<aad, input, output, again, sealed>>

Starts(n, m) ==
    /\ ctx.key # NoKey
    /\ ctx' = Started(ctx, n, m)
    /\ ret' = "0"
    /\ aad' = <<>> /\ input' = <<>> /\ output' = <<>> /\ again' = 0
    /\ opened' = Nothing
    /\ UNCHANGED sealed

Refused == /\ ret' = "BAD_STATE" /\ opened' = Nothing
           /\ UNCHANGED <<ctx, aad, input, output, again, sealed>>

UpdateAad(n) ==
    LET a == AadBytes(Len(aad), n) IN
    /\ Len(aad) + n <= MaxLen
    /\ IF ctx.state = "AAD"
       THEN /\ ctx' = WithAad(ctx, a)
            /\ aad' = aad \o a
            /\ ret' = "0"
            /\ opened' = Nothing
            /\ UNCHANGED <<input, output, again, sealed>>
       ELSE Refused

(* In decryption the input is what encryption would have made of a text.   *)
Update(n) ==
    LET text == TextBytes(Len(input), n)
        in == IF ctx.mode = "ENCRYPT" THEN text ELSE Masked(ctx, text) IN
    /\ Len(input) + n <= MaxLen
    /\ IF Streaming
       THEN /\ ctx' = WithText(ctx, in)
            /\ input' = input \o in
            /\ output' = output \o Masked(ctx, in)
            /\ ret' = "0"
            /\ opened' = Nothing
            /\ UNCHANGED <<aad, again, sealed>>
       ELSE Refused

(* Only a context that has not been started is refused: a finished one     *)
(* gives out another tag.  (starts chose the key of the tag.)              *)
Finish ==
    /\ again <= MaxAgain /\ (ctx.mode = "ENCRYPT" /\ Streaming => MaySeal)
    /\ IF ctx.state = "INIT" THEN Refused
       ELSE /\ ctx' = Finished(ctx)
            /\ ret' = "0"
            /\ again' = again + 1
            /\ sealed' = IF ctx.mode = "ENCRYPT"
                         THEN sealed \cup {Sealed(ctx.poly.key[1], ctx.nonce, aad, input, output,
                                                  Tag(Finished(ctx)), again)}
                         ELSE sealed
            /\ opened' = Nothing
            /\ UNCHANGED <<aad, input, output>>

-----------------------------------------------------------------------------
(* chachapoly_crypt_and_tag *)
CryptAndTag(c, m, n, a, in) == Finished(WithText(WithAad(Started(c, n, m), a), in))
CryptOutput(c, m, n, in) == Masked(Started(c, n, m), in)

EncryptAndTag(n, la, lt) ==
    LET a == AadBytes(0, la)
        text == TextBytes(0, lt)
        c == CryptAndTag(ctx, "ENCRYPT", n, a, text)
        cipher == CryptOutput(ctx, "ENCRYPT", n, text) IN
    /\ ctx.key # NoKey /\ MaySeal
    /\ ctx' = c
    /\ ret' = "0"
    /\ aad' = a /\ input' = text /\ output' = cipher /\ again' = 1
    /\ sealed' = sealed \cup {Sealed(ctx.key, n, a, text, cipher, Tag(c), 0)}
    /\ opened' = Nothing

(* What the caller gets in the output buffer. *)
Released(ok, out) == IF ok THEN out ELSE Zeros(Len(out))

(* auth_decrypt of additional data a, ciphertext in and a tag *)
AuthDecrypt(n, a, in, tag) ==
    LET c == CryptAndTag(ctx, "DECRYPT", n, a, in)
        ok == Tag(c) = tag
        out == Released(ok, CryptOutput(ctx, "DECRYPT", n, in)) IN
    /\ ctx.key # NoKey
    /\ ctx' = c
    /\ ret' = IF ok THEN "0" ELSE "AUTH_FAILED"
    /\ aad' = a /\ input' = in /\ output' = out /\ again' = 1
    /\ opened' = [ok |-> ok, key |-> ctx.key, nonce |-> n, aad |-> a,
                  cipher |-> in, tag |-> tag, output |-> out]
    /\ UNCHANGED sealed

(* free, and then init *)
Reset ==
    /\ ctx' = Fresh(NoKey)
    /\ ret' = "0"
    /\ aad' = <<>> /\ input' = <<>> /\ output' = <<>> /\ again' = 0
    /\ opened' = Nothing
    /\ UNCHANGED sealed

(* The bytes as they were sent, with one of them changed, one lost or one more. *)
Variants(bytes) ==
    {bytes, Append(bytes, ZeroByte)}
    \cup {[bytes EXCEPT ![i] = Tampered(@)] : i \in DOMAIN bytes}
    \cup {RemoveAt(bytes, i) : i \in DOMAIN bytes}

(* What may arrive for a message: its additional data or its ciphertext    *)
(* altered, or the boundary between the two moved.                         *)
Arriving(s) ==
    ({s.aad} \X Variants(s.cipher)) \cup (Variants(s.aad) \X {s.cipher})
    \cup {<<Append(s.aad, Head(c)), Tail(c)>> : c \in {s.cipher} \ {<<>>}}

Next ==
    \/ \E k \in Key : SetKey(k)
    \/ \E n \in Nonce, m \in {"ENCRYPT", "DECRYPT"} : Starts(n, m)
    \/ \E n \in 0..MaxLen : UpdateAad(n) \/ Update(n)
    \/ Finish \/ Reset
    \/ \E n \in Nonce, a, t \in 0..MaxLen : EncryptAndTag(n, a, t)
    \/ \E n \in Nonce, s \in sealed :
           \E m \in Arriving(s) : AuthDecrypt(n, m[1], m[2], s.tag)

Spec == Init /\ [][Next]_vars

-----------------------------------------------------------------------------
(* Every variable has its type. *)
TypeOK ==
    /\ ctx.state \in {"INIT", "AAD", "CIPHERTEXT", "FINISHED"}
    /\ ctx.mode \in {"ENCRYPT", "DECRYPT"}
    /\ ctx.key \in Key \cup {NoKey} /\ ctx.nonce \in Nonce \cup {NoKey}
    /\ ctx.pos \in Nat /\ ctx.aadLen \in Nat /\ ctx.ctLen \in Nat
    /\ Len(ctx.poly.queue) < P
    /\ \A i \in DOMAIN ctx.poly.blocks : Len(ctx.poly.blocks[i].data) = P
    /\ ret \in {"0", "BAD_STATE", "AUTH_FAILED"}
    /\ again \in 0..(MaxAgain + 1)

(* The layout of RFC 8439: additional data, ciphertext, both padded to     *)
(* blocks, and their lengths.                                              *)
Layout(a, cipher) ==
    a \o Pad(Len(a)) \o cipher \o Pad(Len(cipher)) \o LenBlock(Len(a), Len(cipher))

(* The tag of n calls of finish before: each has added the lengths.        *)
Reference(key, nonce, a, cipher, n) ==
    [key |-> <<key, nonce>>,
     blocks |-> FullBlocks(Layout(a, cipher))
                \o [i \in 1..n |-> PolyBlock(LenBlock(Len(a), Len(cipher)), TRUE)]]

(* What Poly1305 has been given so far is a beginning of that layout, in   *)
(* whatever pieces it came, and the text is masked with the keystream from *)
(* the second block on.                                                    *)
StreamsTheLayout ==
    LET cipher == IF ctx.mode = "ENCRYPT" THEN output ELSE input IN
    /\ ctx.state = "AAD" => PolyInput(ctx.poly) = aad
    /\ ctx.state = "CIPHERTEXT" => PolyInput(ctx.poly) = aad \o Pad(Len(aad)) \o cipher
    /\ Streaming => ctx.pos = KB + Len(input)

(* A tag that encryption returns 0 with is that of the layout and never    *)
(* ends in a partial block, so the piecewise and the one-shot encryption   *)
(* of a message agree; but for a tag that finish gives out again, although *)
(* its header says that it is refused then: that one is of another layout, *)
(* in which the lengths are repeated.                                      *)
TagOfLayout ==
    \A s \in sealed :
        /\ s.tag = Reference(s.key, s.nonce, s.aad, s.cipher, s.again)
        /\ s.cipher = [i \in DOMAIN s.text |-> Xor(s.text[i], <<s.key, s.nonce, KB + i - 1>>)]

(* auth_decrypt succeeds on exactly the messages that were sealed under    *)
(* the same key, with the tag given out first, and returns their text;     *)
(* otherwise it returns no text.                                           *)
OpensOnlySealed ==
    LET same(s) == /\ s.key = opened.key /\ s.nonce = opened.nonce /\ s.aad = opened.aad
                   /\ s.cipher = opened.cipher /\ s.tag = opened.tag /\ s.again = 0 IN
    opened # Nothing =>
        /\ opened.ok <=> \E s \in sealed : same(s)
        /\ opened.ok => \A s \in sealed : same(s) => opened.output = s.text
        /\ ~opened.ok => \A i \in DOMAIN opened.output : opened.output[i] = ZeroByte
=============================================================================
