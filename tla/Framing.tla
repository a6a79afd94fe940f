------------------------------ MODULE Framing ------------------------------
(***************************************************************************)
(* One direction of an open session at the level of bytes: sendTextMsg     *)
(* builds a frame in a buffer, writeMsg encrypts it and starts an          *)
(* async_write without waiting for the one before, and at the other end    *)
(* startRead, handleReadMsgHead and handleReadMsg take frames off the      *)
(* stream again.  Module ChatSession treats a frame as one item; here it   *)
(* is shown when that is right.                                            *)
(*                                                                         *)
(* Sizes are scaled: a byte has Base values, so that a size field of two   *)
(* bytes wraps at Wrap, and a buffer has BufSize bytes.  A byte on the     *)
(* wire is the plain byte and the place in the keystream it was encrypted  *)
(* with, 0 for a byte that is not encrypted.                               *)
(***************************************************************************)
EXTENDS Integers, Sequences, FiniteSets, SequencesExt

CONSTANTS Base,       \* values of a byte (256)
          BufSize,    \* bytes of a message buffer (4096)
          MaxIo,      \* bytes asio hands to one WSASend at most (65536)
          Texts,      \* UTF-8 texts: sequences of Char and Nul
          Char,       \* a byte of a text that is not a NUL
          Protocols,  \* values of the protocol field that may be sent
          MaxSend     \* bound: texts sent

Wrap == Base * Base
Nul == 0
Garbled == Base       \* a byte decrypted at another place of the keystream

ASSUME FramingAssumption ==
    /\ Base \in Nat \ {0, 1} /\ MaxSend \in Nat
    /\ BufSize \in 5..Wrap /\ MaxIo \in Nat /\ MaxIo >= BufSize
    /\ Char \in 1..(Base - 1)
    /\ \A t \in Texts : t \in Seq({Char, Nul})
    /\ Protocols \subseteq 0..(Base - 1) /\ 1 \in Protocols

VARIABLES
    sent,       \* what sendTextMsg was given, texts and protocols, in order, and
                \* the bytes of keystream used when it was
    overflowed, \* sendTextMsg has copied a text past the end of its buffer
    epos,       \* chacha_ectx_: bytes of keystream used
    writes,     \* outstanding async_writes: what each has not handed over yet
    wire,       \* bytes handed over and not yet received, in order
    rd,         \* which part of a frame is awaited: "head" or "body"
    msg,        \* the bytes of the frame received so far
    dpos,       \* chacha_dctx_: bytes of keystream used
    skipped,    \* bytes of the frames that handleReadMsg did not decrypt
    out         \* what onTextMsg was given

writer == <<sent, overflowed, epos>>
reader == <<rd, msg, dpos, skipped, out>>
vars == <<writer, writes, wire, reader>>

Init == /\ sent = <<>> /\ overflowed = FALSE
        /\ epos = 0 /\ dpos = 0
        /\ writes = <<>> /\ wire = <<>>
        /\ rd = "head" /\ msg = <<>>
        /\ skipped = 0 /\ out = <<>>

-----------------------------------------------------------------------------
Plain(b) == [byte |-> b, at |-> 0]
(* What an encrypted byte looks like to who does not decrypt it. *)
Raw(c) == (c.byte + c.at) % Base

(* Mutant: the size goes into one byte. *)
OneByteField(n) == <<Plain(n % Base), Plain(0)>>
(* A uint16_t in memory, and read back from there. *)
Field(n) == <<Plain(n % Base), Plain((n \div Base) % Base)>>
FieldAt(m, i) == Raw(m[i]) + Base * Raw(m[i + 1])

(* mbedtls_chacha20_update over the bytes of a text, from place p on. *)
Encrypt(t, p) == [i \in DOMAIN t |-> [byte |-> t[i], at |-> p + i]]
Decrypt(c, p) == [i \in DOMAIN c |-> IF c[i].at = p + i THEN c[i].byte ELSE Garbled]

(* static_cast<uint16_t>(u8text.size()): what of the text is sent. *)
Cut(t) == SubSeq(t, 1, Len(t) % Wrap)

(* The frame of a text, encrypted from a place of the keystream on:        *)
(* writeMsg after sendTextMsg.                                             *)
MakeFrame(t, p, place) == Field(Len(Cut(t))) \o Field(p) \o Encrypt(Cut(t), place)

(* Mutant: each write_some hands over as much as one head. *)
SmallTransfer(bytes) == IF Len(bytes) <= 4 THEN bytes ELSE SubSeq(bytes, 1, 4)
(* What one write_some of an async_write hands over. *)
Transfer(bytes) == IF Len(bytes) <= MaxIo THEN bytes ELSE SubSeq(bytes, 1, MaxIo)
Remaining(bytes) == SubSeq(bytes, Len(Transfer(bytes)) + 1, Len(bytes))
Unfinished(bytes) == IF bytes = <<>> THEN <<>> ELSE <<bytes>>

(* sendTextMsg for a session in the map: the text is copied into the       *)
(* buffer whatever its length, and writeMsg starts an async_write whatever *)
(* other one is under way.                                                 *)
SendTextMsg(t, p) ==
    LET frame == MakeFrame(t, p, epos) IN
    /\ Len(sent) < MaxSend
    /\ sent' = Append(sent, [text |-> t, protocol |-> p, at |-> epos])
    /\ overflowed' = (overflowed \/ Len(t) + 4 > BufSize)
    /\ epos' = epos + Len(Cut(t))
    /\ wire' = wire \o Transfer(frame)
    /\ writes' = writes \o Unfinished(Remaining(frame))
    /\ UNCHANGED reader

(* asio: an async_write that is not through hands over the next part.      *)
WriteSome(i) ==
    /\ wire' = wire \o Transfer(writes[i])
    /\ writes' = SubSeq(writes, 1, i - 1) \o Unfinished(Remaining(writes[i]))
                     \o SubSeq(writes, i + 1, Len(writes))
    /\ UNCHANGED <<writer, reader>>

-----------------------------------------------------------------------------
(* How many bytes the frame has, as far as the reader knows. *)
Wanted == IF rd = "head" THEN 2 ELSE FieldAt(msg, 1) + 4

(* asio: an async_read is given some of what has arrived.                  *)
ReadSome ==
    \E n \in 1..(Wanted - Len(msg)) :
        /\ n <= Len(wire)
        /\ msg' = msg \o SubSeq(wire, 1, n)
        /\ wire' = SubSeq(wire, n + 1, Len(wire))
        /\ UNCHANGED <<writer, writes, rd, dpos, skipped, out>>

HandleReadMsgHead ==
    /\ rd = "head" /\ Len(msg) = Wanted
    /\ rd' = "body"
    /\ UNCHANGED <<writer, writes, wire, msg, dpos, skipped, out>>

Body(m) == SubSeq(m, 5, Len(m))

(* Mutant: the buffer is not zeroed. *)
FromUtf8Unzeroed(t) ==
    [text |-> IF Contains(t, Nul) THEN SubSeq(t, 1, SelectInSeq(t, LAMBDA b : b = Nul) - 1) ELSE t,
     over |-> ~Contains(t, Nul)]

(* QString::fromUtf8 reads up to a NUL; the buffer was zeroed, so there is *)
(* one behind the text unless the text fills the buffer.                   *)
FromUtf8(t) ==
    LET hasNul == Contains(t, Nul) IN
    [text |-> IF hasNul THEN SubSeq(t, 1, SelectInSeq(t, LAMBDA b : b = Nul) - 1) ELSE t,
     over |-> ~hasNul /\ Len(t) + 4 >= BufSize]

IsTextMsg(m) == FieldAt(m, 3) = 1

(* Mutant: the head is decrypted with the text. *)
WholeFrame(m) == Len(m)
(* How many bytes mbedtls_chacha20_update is given. *)
Decrypted(m) == FieldAt(m, 1)

(* Mutant: the next frame is read into the same buffer, at its end. *)
KeepsBuffer == msg
(* startRead takes a new buffer. *)
StartRead == <<>>

(* handleReadMsg: a frame of protocol 1 is decrypted and handed over, any  *)
(* other is left alone; then the next head is read.                        *)
HandleReadMsg ==
    /\ rd = "body" /\ Len(msg) = Wanted
    /\ IF IsTextMsg(msg)
       THEN /\ out' = Append(out, FromUtf8(Decrypt(Body(msg), dpos)))
            /\ dpos' = dpos + Decrypted(msg)
            /\ UNCHANGED skipped
       ELSE /\ skipped' = skipped + FieldAt(msg, 1)
            /\ UNCHANGED <<dpos, out>>
    /\ rd' = "head" /\ msg' = StartRead
    /\ UNCHANGED <<writer, writes, wire>>

-----------------------------------------------------------------------------
Reader == ReadSome \/ HandleReadMsgHead \/ HandleReadMsg

Next == \/ \E t \in Texts, p \in Protocols : SendTextMsg(t, p)
        \/ \E i \in DOMAIN writes : WriteSome(i)
        \/ Reader

(* asio goes on with what was started, and the io thread runs the handlers *)
(* of what has completed; nobody has to send.                              *)
Spec == Init /\ [][Next]_vars /\ WF_vars(Reader)
             /\ WF_vars(\E i \in DOMAIN writes : WriteSome(i))

-----------------------------------------------------------------------------
(* What the application of the reader must be given for a frame. *)
Expected(f) == FromUtf8(Cut(f.text))
TextFrames == {i \in DOMAIN sent : sent[i].protocol = 1}
OnlyTextsTo(i) == 1..i \subseteq TextFrames

(* No two frames mix on the wire although several async_writes are         *)
(* outstanding at once (chatsession.h:143), and the reader never loses the *)
(* frame boundary: it hands over one text per frame of protocol 1, and     *)
(* until a frame of another protocol comes they are the texts that were    *)
(* sent, in order.  It takes a text that overran the writer's buffer to    *)
(* break this.                                                             *)
FramesKeptApart ==
    ~overflowed => /\ Len(out) <= Cardinality(TextFrames)
                   /\ \A i \in DOMAIN out : OnlyTextsTo(i) => out[i] = Expected(sent[i])

(* Two contexts that were never out of step decrypt every text to itself,  *)
(* cut where uint16_t and NUL cut it; a frame of another protocol puts     *)
(* them out of step by exactly its size, for good.                         *)
DriftIsSkipped ==
    (wire = <<>> /\ writes = <<>> /\ msg = <<>> /\ ~overflowed) => epos = dpos + skipped

(* handleReadMsgHead reads msgsize + 2 bytes into what is left of BufSize: *)
(* it is sendTextMsg's own overrun that makes it overrun its buffer.       *)
ReaderInBounds == Wanted > BufSize => overflowed

(* fromUtf8 runs past the end of the buffer for one length only: a text    *)
(* with no NUL in it that fills the buffer to the last byte.               *)
OverReadOnlyWhenFull ==
    ~overflowed =>
        \A i \in DOMAIN out :
            OnlyTextsTo(i) => (out[i].over <=> /\ Len(sent[i].text) = BufSize - 4
                                               /\ ~Contains(sent[i].text, Nul))

(* Every text that fits is handed over in the end, in whatever pieces it   *)
(* arrives.                                                                *)
EverythingArrives ==
    \A n \in 1..MaxSend :
        (Cardinality(TextFrames) = n) ~> (Len(out) >= n \/ overflowed)
=============================================================================
