--------------------------- MODULE FramingProofs ---------------------------
(***************************************************************************)
(* As long as no text has overrun its buffer, whatever the sizes of bytes, *)
(* buffers and texts, the bytes that have been received of the present     *)
(* frame and those still on the wire are the frames sendTextMsg has built  *)
(* and handleReadMsg has not handed over, one behind the other and whole.  *)
(* What the runs check of module Framing follows from that.                *)
(***************************************************************************)
EXTENDS Framing, FiniteSetTheorems, SequenceTheorems, WellFoundedInduction, TLAPS

WireByte == [byte : 0..(Base - 1), at : Nat]
Frame == [text : Texts, protocol : Protocols, at : Nat]
Given == [text : Seq(0..Base), over : BOOLEAN]

(* Every variable has its type; the head is awaited until two bytes of a   *)
(* frame are there, and no more of it is taken than the reader wants.      *)
TypeOK ==
    /\ sent \in Seq(Frame) /\ overflowed \in BOOLEAN /\ epos \in Nat
    /\ writes \in Seq(Seq(WireByte)) /\ wire \in Seq(WireByte)
    /\ rd \in {"head", "body"} /\ msg \in Seq(WireByte)
    /\ rd = "body" => Len(msg) >= 2
    /\ Len(msg) <= Wanted
    /\ dpos \in Nat /\ skipped \in Nat /\ out \in Seq(Given)

-----------------------------------------------------------------------------
(* The place in the keystream from which frame i is encrypted, and from    *)
(* which the next one will be if i is one more than there are.             *)
Place(i) == IF i <= Len(sent) THEN sent[i].at ELSE epos
Size(i) == Len(sent[i].text)
FrameOf(i) == MakeFrame(sent[i].text, sent[i].protocol, sent[i].at)

(* How many bytes of the stream are before frame i if d frames are over. *)
Before(d, i) == Place(i) - Place(d + 1) + 4 * (i - d - 1)

(* Every text fits its buffer and is encrypted from where the one before   *)
(* it ended.                                                               *)
PlaceInv ==
    /\ \A i \in 1..Len(sent) : Size(i) + 4 <= BufSize /\ Place(i + 1) = Place(i) + Size(i)
    /\ \A i, j \in 1..(Len(sent) + 1) : i <= j => Place(i) <= Place(j)

(* The bytes received of the present frame and those on the wire, ...      *)
Pending(k) == IF k <= Len(msg) THEN msg[k] ELSE wire[k - Len(msg)]

(* ... are the frames from d + 1 on. *)
Stream(d) ==
    /\ Len(msg) + Len(wire) = Before(d, Len(sent) + 1)
    /\ \A i \in (d + 1)..Len(sent) : \A j \in 1..(Size(i) + 4) :
           Pending(Before(d, i) + j) = FrameOf(i)[j]

(* The first d frames have been taken off the stream. *)
Taken(d) ==
    /\ dpos + skipped = Place(d + 1)
    /\ Len(out) = Cardinality(TextFrames \cap (1..d))
    /\ OnlyTextsTo(d) => skipped = 0
    /\ \A i \in 1..d :
           OnlyTextsTo(i) => i \in DOMAIN out /\ out[i] = Expected(sent[i])

FrameInv == /\ writes = <<>>
            /\ PlaceInv
            /\ \E d \in 0..Len(sent) : Stream(d) /\ Taken(d)

IInv == TypeOK /\ (~overflowed => FrameInv)

-----------------------------------------------------------------------------
(* What the operators of the model return. *)

(* A uint16_t is read back as it was written, wherever in a frame it is. *)
LEMMA FieldReadsBack ==
    ASSUME NEW n \in 0..(Wrap - 1), NEW m, NEW i \in Nat,
           m[i] = Field(n)[1], m[i + 1] = Field(n)[2]
    PROVE  FieldAt(m, i) = n
<1> DEFINE q == n \div Base
           r == n % Base
<1>1. Base \in Nat /\ Base > 1 /\ n \in Nat /\ n < Base * Base
  BY FramingAssumption DEF Wrap
<1>2. q \in Int /\ r \in 0..(Base - 1) /\ n = Base * q + r
  <2>1. q \in Int
    BY <1>1, SMTT(30)
  <2>2. r \in 0..(Base - 1)
    BY <1>1, SMTT(30)
  <2>3. n = Base * q + r
    BY <1>1, SMTT(30)
  <2> QED
    BY <2>1, <2>2, <2>3
<1> HIDE DEF q, r
<1>3. q >= 0
  <2>1. SUFFICES ASSUME q <= -1 PROVE FALSE
    BY <1>2
  <2>2. Base * q <= Base * (-1)
    BY <1>1, <1>2, <2>1
  <2> QED
    BY <1>1, <1>2, <2>2
<1>4. q <= Base - 1
  <2>1. SUFFICES ASSUME q >= Base PROVE FALSE
    BY <1>1, <1>2
  <2>2. Base * q >= Base * Base
    BY <1>1, <1>2, <2>1
  <2> QED
    BY <1>1, <1>2, <2>2
<1>5. q % Base = q /\ (r + 0) % Base = r /\ (q + 0) % Base = q
  BY <1>1, <1>2, <1>3, <1>4
<1>6. Raw(m[i]) = r /\ Raw(m[i + 1]) = q
  <2>1. m[i] = Plain(r) /\ m[i + 1] = Plain(q % Base)
    BY DEF Field, q, r
  <2> QED
    BY <2>1, <1>5 DEF Raw, Plain
<1> QED
  BY <1>1, <1>2, <1>3, <1>6 DEF FieldAt

(* Any two bytes off the wire are some uint16_t. *)
LEMMA FieldIsNat ==
    ASSUME NEW m \in Seq(WireByte), NEW i \in 1..Len(m), i + 1 <= Len(m)
    PROVE  FieldAt(m, i) \in Nat
<1>1. Base \in Nat /\ Base > 1
  BY FramingAssumption
<1>2. \A c \in WireByte : Raw(c) \in Nat
  BY <1>1 DEF WireByte, Raw
<1>3. m[i] \in WireByte /\ m[i + 1] \in WireByte
  OBVIOUS
<1>4. Raw(m[i]) \in Nat /\ Raw(m[i + 1]) \in Nat
  BY <1>2, <1>3
<1> QED
  BY <1>1, <1>4 DEF FieldAt

(* A uint16_t is two bytes that are not encrypted. *)
LEMMA FieldType ==
    ASSUME NEW n \in Nat
    PROVE  Field(n) \in Seq(WireByte) /\ Len(Field(n)) = 2
<1>1. Base \in Nat /\ Base > 1
  BY FramingAssumption
<1>2. n % Base \in 0..(Base - 1) /\ n \div Base \in Nat
  BY <1>1
<1>3. (n \div Base) % Base \in 0..(Base - 1)
  BY <1>1, <1>2
<1>4. Plain(n % Base) \in WireByte /\ Plain((n \div Base) % Base) \in WireByte
  BY <1>2, <1>3 DEF Plain, WireByte
<1> QED
  BY <1>4 DEF Field

(* What is sent of a text. *)
LEMMA CutType ==
    ASSUME NEW t \in Texts
    PROVE  /\ Cut(t) \in Seq({Char, Nul})
           /\ Len(t) + 4 <= BufSize => Cut(t) = t
<1>1. t \in Seq({Char, Nul}) /\ Base \in Nat /\ Base > 1 /\ BufSize <= Wrap
  BY FramingAssumption DEF Wrap
<1>2. Wrap \in Nat /\ Wrap > 0
  BY <1>1 DEF Wrap
<1>3. Len(t) % Wrap \in 0..Len(t)
  BY <1>1, <1>2
<1>4. Cut(t) \in Seq({Char, Nul})
  BY <1>1, <1>3 DEF Cut
<1>5. ASSUME Len(t) + 4 <= BufSize PROVE Cut(t) = t
  <2>1. Len(t) % Wrap = Len(t)
    BY <1>1, <1>2, <1>5, FramingAssumption
  <2> QED
    BY <1>1, <2>1, SubSeqFull DEF Cut
<1> QED
  BY <1>4, <1>5

(* The elements of a concatenation. *)
LEMMA Concat ==
    ASSUME NEW S, NEW f \in Seq(S), NEW g \in Seq(S)
    PROVE  /\ f \o g \in Seq(S) /\ Len(f \o g) = Len(f) + Len(g)
           /\ \A j \in 1..Len(f) : (f \o g)[j] = f[j]
           /\ \A j \in 1..Len(g) : (f \o g)[Len(f) + j] = g[j]
<1>1. f \o g \in Seq(S) /\ Len(f \o g) = Len(f) + Len(g)
  BY ConcatProperties
<1>2. ASSUME NEW j \in 1..Len(f) PROVE (f \o g)[j] = f[j]
  OBVIOUS
<1>3. ASSUME NEW j \in 1..Len(g) PROVE (f \o g)[Len(f) + j] = g[j]
  OBVIOUS
<1> QED
  BY <1>1, <1>2, <1>3

(* Two fields and what comes behind them. *)
LEMMA ThreeParts ==
    ASSUME NEW S, NEW f \in Seq(S), NEW g \in Seq(S), NEW e \in Seq(S),
           Len(f) = 2, Len(g) = 2
    PROVE  /\ (f \o g) \o e \in Seq(S) /\ Len((f \o g) \o e) = Len(e) + 4
           /\ \A j \in 1..2 : ((f \o g) \o e)[j] = f[j] /\ ((f \o g) \o e)[2 + j] = g[j]
           /\ \A j \in 1..Len(e) : ((f \o g) \o e)[4 + j] = e[j]
<1>1. PICK h : h = f \o g
  OBVIOUS
<1>2. h \in Seq(S) /\ Len(h) = 4
  <2>1. f \o g \in Seq(S) /\ Len(f \o g) = Len(f) + Len(g)
    BY Concat, Zenon
  <2> QED
    BY <1>1, <2>1
<1>3. h \o e \in Seq(S) /\ Len(h \o e) = Len(e) + 4
  <2>1. h \o e \in Seq(S) /\ Len(h \o e) = Len(h) + Len(e)
    BY <1>2, Concat, Zenon
  <2> QED
    BY <1>2, <2>1
<1>4. ASSUME NEW j \in 1..2 PROVE (h \o e)[j] = f[j] /\ (h \o e)[2 + j] = g[j]
  <2>1. j \in 1..Len(f) /\ j \in 1..Len(g) /\ Len(f) + j = 2 + j
    OBVIOUS
  <2>2. (f \o g)[j] = f[j] /\ (f \o g)[Len(f) + j] = g[j]
    BY <2>1, Concat
  <2>3. h[j] = f[j] /\ h[2 + j] = g[j]
    BY <1>1, <2>1, <2>2, Zenon
  <2>4. j \in 1..Len(h) /\ 2 + j \in 1..Len(h)
    BY <1>2
  <2>5. (h \o e)[j] = h[j]
    BY <1>2, <2>4, Concat, Zenon
  <2>6. (h \o e)[2 + j] = h[2 + j]
    BY <1>2, <2>4, Concat, Zenon
  <2> QED
    BY <2>3, <2>5, <2>6, Zenon
<1>5. ASSUME NEW j \in 1..Len(e) PROVE (h \o e)[4 + j] = e[j]
  <2>1. (h \o e)[Len(h) + j] = e[j]
    <3>1. h \in Seq(S)
      BY <1>2
    <3> QED
      BY <3>1, Concat
  <2>2. Len(h) + j = 4 + j
    BY <1>2
  <2> QED
    BY <2>1, <2>2, Zenon
<1> QED
  BY <1>1, <1>3, <1>4, <1>5, Zenon
(* A frame is two fields and the bytes of its text.  *)
LEMMA FrameType ==
    ASSUME NEW t \in Texts, NEW p \in Protocols, NEW q \in Nat
    PROVE  /\ MakeFrame(t, p, q) \in Seq(WireByte)
           /\ Len(MakeFrame(t, p, q)) = Len(Cut(t)) + 4
           /\ \A j \in 1..2 : MakeFrame(t, p, q)[j] = Field(Len(Cut(t)))[j]
           /\ \A j \in 1..2 : MakeFrame(t, p, q)[2 + j] = Field(p)[j]
           /\ \A j \in 1..Len(Cut(t)) :
                  MakeFrame(t, p, q)[4 + j] = [byte |-> Cut(t)[j], at |-> q + j]
<1> DEFINE c == Cut(t)
           e == Encrypt(c, q)
           f == Field(Len(c))
           g == Field(p)
<1>1. Base \in Nat /\ Base > 1 /\ Char \in 0..(Base - 1) /\ Nul \in 0..(Base - 1) /\ p \in Nat
  BY FramingAssumption DEF Nul
<1>2. c \in Seq({Char, Nul})
  BY CutType
<1>3. Len(c) \in Nat
  BY <1>2
<1>4. f \in Seq(WireByte) /\ Len(f) = 2 /\ g \in Seq(WireByte) /\ Len(g) = 2
  BY <1>1, <1>3, FieldType
<1>5. /\ e \in Seq(WireByte) /\ Len(e) = Len(c)
      /\ \A j \in 1..Len(c) : e[j] = [byte |-> c[j], at |-> q + j]
  <2>1. \A j \in 1..Len(c) : c[j] \in 0..(Base - 1)
    BY <1>1, <1>2
  <2>2. e = [j \in 1..Len(c) |-> [byte |-> c[j], at |-> q + j]]
    BY <1>2 DEF Encrypt
  <2>3. \A j \in 1..Len(c) : [byte |-> c[j], at |-> q + j] \in WireByte
    BY <2>1, <1>3 DEF WireByte
  <2> QED
    BY <1>3, <2>2, <2>3
<1>6. MakeFrame(t, p, q) = (f \o g) \o e
  BY DEF MakeFrame
<1> HIDE DEF c, e, f, g
<1>7. /\ (f \o g) \o e \in Seq(WireByte) /\ Len((f \o g) \o e) = Len(e) + 4
      /\ \A j \in 1..2 : ((f \o g) \o e)[j] = f[j] /\ ((f \o g) \o e)[2 + j] = g[j]
      /\ \A j \in 1..Len(e) : ((f \o g) \o e)[4 + j] = e[j]
  <2>1. e \in Seq(WireByte)
    BY <1>5
  <2> QED
    BY <1>4, <2>1, ThreeParts, SMTT(30)
<1> QED
  BY <1>5, <1>6, <1>7 DEF c, f, g

(* A frame that fits the buffer leaves in one piece; of a larger one the   *)
(* pieces are bytes of it.                                                 *)
LEMMA TransferType ==
    ASSUME NEW b \in Seq(WireByte)
    PROVE  /\ Transfer(b) \in Seq(WireByte)
           /\ Unfinished(Remaining(b)) \in Seq(Seq(WireByte))
           /\ Len(b) <= BufSize => Transfer(b) = b /\ Unfinished(Remaining(b)) = <<>>
<1>1. MaxIo \in Nat /\ MaxIo >= BufSize /\ BufSize \in Nat
  BY FramingAssumption DEF Wrap
<1>2. Transfer(b) \in Seq(WireByte) /\ Len(Transfer(b)) \in Nat
  BY <1>1, SubSeqProperties DEF Transfer
<1>3. Remaining(b) \in Seq(WireByte)
  BY <1>2, SubSeqProperties DEF Remaining
<1>4. Unfinished(Remaining(b)) \in Seq(Seq(WireByte))
  BY <1>3 DEF Unfinished
<1>5. ASSUME Len(b) <= BufSize PROVE Transfer(b) = b /\ Unfinished(Remaining(b)) = <<>>
  <2>1. Transfer(b) = b
    BY <1>1, <1>5 DEF Transfer
  <2>2. Remaining(b) = <<>>
    BY <2>1, SubSeqEmpty DEF Remaining
  <2> QED
    BY <2>1, <2>2 DEF Unfinished
<1> QED
  BY <1>2, <1>4, <1>5

(* A set of natural numbers has a least one. *)
LEMMA NatMin ==
    ASSUME NEW S \in SUBSET Nat, S # {}
    PROVE  Min(S) \in S
<1>1. \E x \in S : \A y \in S : ~(<<y, x>> \in OpToRel(<, Nat))
  BY NatLessThanWellFounded, WFMin
<1>2. \A x, y \in Nat : <<y, x>> \in OpToRel(<, Nat) <=> y < x
  BY DEF OpToRel
<1>3. \E x \in S : \A y \in S : x <= y
  <2>1. PICK x \in S : \A y \in S : ~(<<y, x>> \in OpToRel(<, Nat))
    BY <1>1
  <2>2. \A y \in S : ~(y < x)
    BY <1>2, <2>1
  <2>3. \A y \in S : x <= y
    BY <2>2
  <2> QED
    BY <2>3
<1> QED
  BY <1>3 DEF Min

(* What the application is given is bytes of the text it is cut from. *)
LEMMA FromUtf8Type ==
    ASSUME NEW t \in Seq(0..Base)
    PROVE  FromUtf8(t) \in Given
<1> DEFINE at == SelectInSeq(t, LAMBDA b : b = Nul)
           text == IF Contains(t, Nul) THEN SubSeq(t, 1, at - 1) ELSE t
<1>1. ASSUME Contains(t, Nul) PROVE SubSeq(t, 1, at - 1) \in Seq(0..Base)
  <2> DEFINE I == {i \in 1..Len(t) : t[i] = Nul}
  <2>1. I # {} /\ I \in SUBSET Nat
    BY <1>1 DEF Contains
  <2>2. at = Min(I)
    BY <2>1 DEF SelectInSeq
  <2>3. at \in 1..Len(t)
    BY <2>1, <2>2, NatMin
  <2>4. \A k \in 1..Len(t) : SubSeq(t, 1, k - 1) \in Seq(0..Base)
    <3>1. TAKE k \in 1..Len(t)
    <3>2. ASSUME NEW i \in 1..(k - 1) PROVE t[i] \in 0..Base
      <4>1. i \in 1..Len(t)
        OBVIOUS
      <4> QED
        BY <4>1, ElementOfSeq
    <3> QED
      BY <3>2, SubSeqProperties
  <2> QED
    BY <2>3, <2>4
<1>2. text \in Seq(0..Base)
  BY <1>1
<1>3. FromUtf8(t) = [text |-> text, over |-> ~Contains(t, Nul) /\ Len(t) + 4 >= BufSize]
  BY DEF FromUtf8
<1> HIDE DEF text
<1> QED
  BY <1>2, <1>3 DEF Given

(* Decrypting is byte by byte. *)
LEMMA DecryptType ==
    ASSUME NEW c \in Seq(WireByte), NEW q \in Nat
    PROVE  Decrypt(c, q) \in Seq(0..Base)
<1>1. Base \in Nat /\ Base > 1
  BY FramingAssumption
<1>2. \A i \in 1..Len(c) : (IF c[i].at = q + i THEN c[i].byte ELSE Garbled) \in 0..Base
  <2>1. TAKE i \in 1..Len(c)
  <2>2. c[i] \in WireByte
    BY ElementOfSeq
  <2>3. c[i].byte \in 0..Base /\ Garbled \in 0..Base
    BY <1>1, <2>2 DEF WireByte, Garbled
  <2> QED
    BY <2>3
<1>3. Decrypt(c, q) = [i \in 1..Len(c) |-> IF c[i].at = q + i THEN c[i].byte ELSE Garbled]
  BY DEF Decrypt
<1> QED
  BY <1>2, <1>3

-----------------------------------------------------------------------------
(* Type correctness. *)
LEMMA TypeInit == Init => TypeOK
<1> SUFFICES ASSUME Init PROVE TypeOK
  OBVIOUS
<1>1. /\ sent \in Seq(Frame) /\ writes \in Seq(Seq(WireByte)) /\ wire \in Seq(WireByte)
      /\ msg \in Seq(WireByte) /\ out \in Seq(Given) /\ Len(msg) = 0
  BY EmptySeq DEF Init
<1>2. /\ overflowed \in BOOLEAN /\ epos \in Nat /\ dpos \in Nat /\ skipped \in Nat
      /\ rd = "head"
  BY DEF Init
<1>3. Len(msg) <= Wanted
  BY <1>1, <1>2 DEF Wanted
<1> QED
  BY <1>1, <1>2, <1>3, Zenon DEF TypeOK

(* How much the reader wants is a number. *)
LEMMA WantedIsNat ==
    ASSUME TypeOK
    PROVE  Wanted \in Nat /\ (Len(msg) >= 2 => FieldAt(msg, 1) \in Nat)
<1>1. ASSUME Len(msg) >= 2 PROVE FieldAt(msg, 1) \in Nat
  <2>1. msg \in Seq(WireByte) /\ 1 \in 1..Len(msg) /\ 1 + 1 <= Len(msg)
    BY <1>1 DEF TypeOK
  <2> QED
    BY <2>1, FieldIsNat
<1> QED
  BY <1>1 DEF TypeOK, Wanted

LEMMA TypeStep == TypeOK /\ [Next]_vars => TypeOK'
<1> SUFFICES ASSUME TypeOK, [Next]_vars PROVE TypeOK'
  OBVIOUS
<1> USE DEF TypeOK
<1>1. ASSUME NEW t \in Texts, NEW p \in Protocols, SendTextMsg(t, p) PROVE TypeOK'
  <2> DEFINE f == MakeFrame(t, p, epos)
  <2>1. f \in Seq(WireByte) /\ Cut(t) \in Seq({Char, Nul})
    BY FrameType, CutType
  <2>2. Transfer(f) \in Seq(WireByte) /\ Unfinished(Remaining(f)) \in Seq(Seq(WireByte))
    BY <2>1, TransferType
  <2>3. wire' \in Seq(WireByte) /\ writes' \in Seq(Seq(WireByte))
    <3>1. wire' = wire \o Transfer(f) /\ writes' = writes \o Unfinished(Remaining(f))
      BY <1>1 DEF SendTextMsg
    <3> QED
      BY <2>2, <3>1, ConcatProperties
  <2>4. sent' \in Seq(Frame)
    <3>1. [text |-> t, protocol |-> p, at |-> epos] \in Frame
      BY DEF Frame
    <3> QED
      BY <1>1, <3>1, AppendProperties DEF SendTextMsg
  <2>5. epos' \in Nat /\ overflowed' \in BOOLEAN
    BY <1>1, <2>1 DEF SendTextMsg
  <2>6. UNCHANGED <<rd, msg, dpos, skipped, out>>
    BY <1>1 DEF SendTextMsg, reader
  <2> QED
    BY <2>3, <2>4, <2>5, <2>6 DEF Wanted
<1>2. ASSUME NEW i \in DOMAIN writes, WriteSome(i) PROVE TypeOK'
  <2>1. writes[i] \in Seq(WireByte)
    BY ElementOfSeq
  <2>2. /\ Transfer(writes[i]) \in Seq(WireByte)
        /\ Unfinished(Remaining(writes[i])) \in Seq(Seq(WireByte))
    BY <2>1, TransferType
  <2>3. wire' \in Seq(WireByte)
    BY <1>2, <2>2, ConcatProperties DEF WriteSome
  <2>4. writes' \in Seq(Seq(WireByte))
    <3> DEFINE u == Unfinished(Remaining(writes[i]))
               a == SubSeq(writes, 1, i - 1)
               b == SubSeq(writes, i + 1, Len(writes))
    <3>1. a \in Seq(Seq(WireByte)) /\ b \in Seq(Seq(WireByte))
      BY SubSeqProperties
    <3>2. writes' = (a \o u) \o b
      BY <1>2 DEF WriteSome
    <3> HIDE DEF a, b, u
    <3>3. u \in Seq(Seq(WireByte))
      BY <2>2 DEF u
    <3> QED
      BY <3>1, <3>2, <3>3, ConcatProperties
  <2>5. UNCHANGED <<sent, overflowed, epos, rd, msg, dpos, skipped, out>>
    BY <1>2 DEF WriteSome, writer, reader
  <2> QED
    BY <2>3, <2>4, <2>5 DEF Wanted
<1>3. CASE ReadSome
  <2>1. PICK n \in 1..(Wanted - Len(msg)) :
            /\ n <= Len(wire)
            /\ msg' = msg \o SubSeq(wire, 1, n)
            /\ wire' = SubSeq(wire, n + 1, Len(wire))
    BY <1>3 DEF ReadSome
  <2>2. UNCHANGED <<sent, overflowed, epos, writes, rd, dpos, skipped, out>>
    BY <1>3 DEF ReadSome, writer
  <2>3. SubSeq(wire, 1, n) \in Seq(WireByte) /\ Len(SubSeq(wire, 1, n)) = n
    BY <2>1, SubSeqProperties
  <2>4. /\ msg' \in Seq(WireByte) /\ Len(msg') = Len(msg) + n
        /\ \A k \in 1..Len(msg) : msg'[k] = msg[k]
    BY <2>1, <2>3, ConcatProperties
  <2>5. wire' \in Seq(WireByte)
    BY <2>1, SubSeqProperties
  <2>6. Wanted' = Wanted
    <3>1. CASE rd = "head"
      BY <2>2, <3>1 DEF Wanted
    <3>2. CASE rd = "body"
      <4>1. msg'[1] = msg[1] /\ msg'[1 + 1] = msg[1 + 1]
        BY <2>4, <3>2
      <4> QED
        BY <2>2, <4>1 DEF Wanted, FieldAt
    <3> QED
      BY <3>1, <3>2
  <2>7. Wanted \in Nat
    BY WantedIsNat
  <2> QED
    BY <2>1, <2>2, <2>4, <2>5, <2>6, <2>7
<1>4. CASE HandleReadMsgHead
  <2>1. UNCHANGED <<sent, overflowed, epos, writes, wire, msg, dpos, skipped, out>>
    BY <1>4 DEF HandleReadMsgHead, writer
  <2>2. rd' = "body" /\ Len(msg) = 2
    BY <1>4 DEF HandleReadMsgHead, Wanted
  <2>3. FieldAt(msg, 1) \in Nat
    BY <2>2, WantedIsNat
  <2> QED
    BY <2>1, <2>2, <2>3 DEF Wanted
<1>5. CASE HandleReadMsg
  <2>1. UNCHANGED <<sent, overflowed, epos, writes, wire>>
    BY <1>5 DEF HandleReadMsg, writer
  <2>2. rd' = "head" /\ msg' = <<>>
    BY <1>5 DEF HandleReadMsg, StartRead
  <2>3. FieldAt(msg, 1) \in Nat
    BY <1>5, WantedIsNat DEF HandleReadMsg
  <2>4. dpos' \in Nat /\ skipped' \in Nat
    BY <1>5, <2>3 DEF HandleReadMsg, Decrypted
  <2>5. out' \in Seq(Given)
    <3>1. CASE IsTextMsg(msg)
      <4>1. Body(msg) \in Seq(WireByte)
        BY SubSeqProperties DEF Body
      <4>2. FromUtf8(Decrypt(Body(msg), dpos)) \in Given
        BY <4>1, DecryptType, FromUtf8Type
      <4>3. \A g \in Given : Append(out, g) \in Seq(Given)
        BY AppendProperties
      <4>4. out' = Append(out, FromUtf8(Decrypt(Body(msg), dpos)))
        BY <1>5, <3>1 DEF HandleReadMsg
      <4> QED
        BY <4>2, <4>3, <4>4
    <3>2. CASE ~IsTextMsg(msg)
      BY <1>5, <3>2 DEF HandleReadMsg
    <3> QED
      BY <3>1, <3>2
  <2> QED
    BY <2>1, <2>2, <2>4, <2>5 DEF Wanted
<1>6. CASE UNCHANGED vars
  BY <1>6 DEF vars, writer, reader, Wanted
<1> QED
  BY <1>1, <1>2, <1>3, <1>4, <1>5, <1>6 DEF Next, Reader

-----------------------------------------------------------------------------
(* Where the frames are. *)
LEMMA BeforeFacts ==
    ASSUME TypeOK, PlaceInv, NEW d \in 0..Len(sent)
    PROVE  /\ \A i \in 1..(Len(sent) + 1) : Place(i) \in Nat
           /\ \A i \in 1..Len(sent) : Size(i) \in Nat
           /\ Before(d, d + 1) = 0
           /\ \A i \in (d + 1)..(Len(sent) + 1) :
                  Before(d, i) \in Nat /\ Before(d, i) <= Before(d, Len(sent) + 1)
           /\ \A i \in (d + 1)..Len(sent) : Before(d, i + 1) = Before(d, i) + Size(i) + 4
<1>1. Len(sent) \in Nat /\ epos \in Nat /\ \A i \in 1..Len(sent) : sent[i] \in Frame
  BY ElementOfSeq DEF TypeOK
<1>2. \A i \in 1..(Len(sent) + 1) : Place(i) \in Nat
  BY <1>1 DEF Place, Frame
<1>3. ASSUME NEW i \in 1..Len(sent) PROVE Size(i) \in Nat
  <2>1. sent[i].text \in Seq({Char, Nul})
    BY <1>1, FramingAssumption DEF Frame
  <2> QED
    BY <2>1 DEF Size
<1>4. Before(d, d + 1) = 0
  BY <1>1, <1>2 DEF Before
<1>5. ASSUME NEW i \in (d + 1)..(Len(sent) + 1)
      PROVE  Before(d, i) \in Nat /\ Before(d, i) <= Before(d, Len(sent) + 1)
  <2>1. /\ Place(d + 1) \in Nat /\ Place(i) \in Nat /\ Place(Len(sent) + 1) \in Nat
        /\ Place(d + 1) <= Place(i) /\ Place(i) <= Place(Len(sent) + 1)
    BY <1>1, <1>2 DEF PlaceInv
  <2> QED
    BY <1>1, <2>1 DEF Before
<1>6. ASSUME NEW i \in (d + 1)..Len(sent)
      PROVE  Before(d, i + 1) = Before(d, i) + Size(i) + 4
  <2>1. /\ Place(d + 1) \in Nat /\ Place(i) \in Nat /\ Place(i + 1) \in Nat /\ Size(i) \in Nat
        /\ Place(i + 1) = Place(i) + Size(i)
    BY <1>1, <1>2, <1>3 DEF PlaceInv
  <2> QED
    BY <1>1, <2>1 DEF Before
<1> QED
  BY <1>2, <1>3, <1>4, <1>5, <1>6

(* A frame that fits its buffer: two fields and the whole text. *)
LEMMA FrameShape ==
    ASSUME TypeOK, PlaceInv, NEW i \in 1..Len(sent)
    PROVE  /\ Cut(sent[i].text) = sent[i].text
           /\ \A j \in 1..2 : FrameOf(i)[j] = Field(Size(i))[j]
           /\ \A j \in 1..2 : FrameOf(i)[2 + j] = Field(sent[i].protocol)[j]
           /\ \A j \in 1..Size(i) :
                  FrameOf(i)[4 + j] = [byte |-> sent[i].text[j], at |-> sent[i].at + j]
<1>1. /\ sent[i].text \in Texts /\ sent[i].protocol \in Protocols /\ sent[i].at \in Nat
  <2>1. sent[i] \in Frame
    BY ElementOfSeq DEF TypeOK
  <2> QED
    BY <2>1 DEF Frame
<1>2. Cut(sent[i].text) = sent[i].text
  BY <1>1, CutType DEF PlaceInv, Size
<1> DEFINE t == sent[i].text
           f == MakeFrame(t, sent[i].protocol, sent[i].at)
<1>3. /\ \A j \in 1..2 : f[j] = Field(Len(Cut(t)))[j]
      /\ \A j \in 1..2 : f[2 + j] = Field(sent[i].protocol)[j]
      /\ \A j \in 1..Len(Cut(t)) : f[4 + j] = [byte |-> Cut(t)[j], at |-> sent[i].at + j]
  BY <1>1, FrameType
<1> QED
  BY <1>2, <1>3, Zenon DEF FrameOf, Size

(* What is at the beginning of the stream is the beginning of a frame. *)
LEMMA ReadingFrame ==
    ASSUME TypeOK, PlaceInv, NEW d \in 0..Len(sent), Stream(d), Len(msg) >= 2
    PROVE  /\ d + 1 \in 1..Len(sent)
           /\ FieldAt(msg, 1) = Size(d + 1)
           /\ \A j \in 1..(Size(d + 1) + 4) : j <= Len(msg) => msg[j] = FrameOf(d + 1)[j]
           /\ Size(d + 1) + 4 <= BufSize
<1>1. Len(sent) \in Nat /\ Len(msg) \in Nat /\ Len(wire) \in Nat
  BY DEF TypeOK
<1>2. d + 1 \in 1..Len(sent)
  <2>1. SUFFICES ASSUME d = Len(sent) PROVE FALSE
    BY <1>1
  <2>2. Before(d, Len(sent) + 1) = 0
    BY <2>1, BeforeFacts
  <2> QED
    BY <1>1, <2>2 DEF Stream
<1>3. Before(d, d + 1) = 0 /\ Size(d + 1) \in Nat
  BY <1>2, BeforeFacts
<1>4. Size(d + 1) + 4 <= BufSize
  BY <1>2 DEF PlaceInv
<1>5. ASSUME NEW j \in 1..(Size(d + 1) + 4), j <= Len(msg) PROVE msg[j] = FrameOf(d + 1)[j]
  <2>1. d + 1 \in (d + 1)..Len(sent) /\ Before(d, d + 1) + j = j
    BY <1>1, <1>2, <1>3
  <2>2. Pending(j) = FrameOf(d + 1)[j]
    BY <2>1 DEF Stream
  <2> QED
    BY <1>5, <2>2 DEF Pending
<1>6. FieldAt(msg, 1) = Size(d + 1)
  <2>1. BufSize \in Nat /\ Wrap \in Nat /\ BufSize <= Wrap
    BY FramingAssumption DEF Wrap
  <2>2. Size(d + 1) \in 0..(Wrap - 1)
    BY <1>3, <1>4, <2>1
  <2>3. 1 \in 1..(Size(d + 1) + 4) /\ 2 \in 1..(Size(d + 1) + 4)
    BY <1>3
  <2>4. msg[1] = FrameOf(d + 1)[1] /\ msg[2] = FrameOf(d + 1)[2]
    BY <1>1, <1>5, <2>3
  <2>5. FrameOf(d + 1)[1] = Field(Size(d + 1))[1] /\ FrameOf(d + 1)[2] = Field(Size(d + 1))[2]
    BY <1>2, FrameShape
  <2>6. msg[1] = Field(Size(d + 1))[1] /\ msg[1 + 1] = Field(Size(d + 1))[2]
    BY <2>4, <2>5
  <2> QED
    BY <2>2, <2>6, FieldReadsBack
<1> QED
  BY <1>2, <1>4, <1>5, <1>6

-----------------------------------------------------------------------------
LEMMA FrameInit == Init => FrameInv
<1> SUFFICES ASSUME Init PROVE FrameInv
  OBVIOUS
<1>1. Len(sent) = 0 /\ Len(msg) = 0 /\ Len(wire) = 0 /\ Len(out) = 0 /\ writes = <<>>
  BY DEF Init
<1>2. Place(1) = 0
  BY <1>1 DEF Place, Init
<1>3. PlaceInv
  BY <1>1, <1>2 DEF PlaceInv
<1>4. Stream(0)
  BY <1>1, <1>2 DEF Stream, Before
<1>5. Taken(0)
  <2>1. TextFrames \cap (1..0) = {}
    OBVIOUS
  <2> QED
    BY <1>1, <1>2, <2>1, FS_EmptySet DEF Taken, Init
<1> QED
  BY <1>1, <1>3, <1>4, <1>5 DEF FrameInv

(* A text that fits leaves as one more frame at the end of the stream. *)
LEMMA SendStep ==
    ASSUME TypeOK, TypeOK', FrameInv, NEW t \in Texts, NEW p \in Protocols,
           SendTextMsg(t, p), ~overflowed'
    PROVE  FrameInv'
<1> DEFINE f == MakeFrame(t, p, epos)
<1>0. PICK N \in Nat : N = Len(sent)
  BY DEF TypeOK
<1>1. PICK d \in 0..N : Stream(d) /\ Taken(d)
  BY <1>0 DEF FrameInv
<1>2. PlaceInv /\ writes = <<>>
  BY DEF FrameInv
<1>3. Len(msg) \in Nat /\ Len(wire) \in Nat /\ epos \in Nat
  BY DEF TypeOK
<1>4. Len(t) + 4 <= BufSize /\ Cut(t) = t /\ Len(t) \in Nat
  <2>1. t \in Seq({Char, Nul}) /\ BufSize \in Nat
    BY FramingAssumption DEF Wrap
  <2>2. ~(Len(t) + 4 > BufSize)
    BY Zenon DEF SendTextMsg
  <2>3. Len(t) + 4 <= BufSize
    BY <2>1, <2>2
  <2> QED
    BY <2>1, <2>3, CutType
<1>5. f \in Seq(WireByte) /\ Len(f) = Len(t) + 4
  BY <1>3, <1>4, FrameType
<1>6. writes' = <<>> /\ wire' = wire \o f
  <2>1. Transfer(f) = f /\ Unfinished(Remaining(f)) = <<>>
    BY <1>4, <1>5, TransferType
  <2>2. writes' = <<>> \o <<>>
    BY <1>2, <2>1 DEF SendTextMsg
  <2> QED
    BY <2>1, <2>2 DEF SendTextMsg
<1>7. /\ Len(wire') = Len(wire) + Len(f)
      /\ \A j \in 1..Len(wire) : wire'[j] = wire[j]
      /\ \A j \in 1..Len(f) : wire'[Len(wire) + j] = f[j]
  <2>1. wire \in Seq(WireByte)
    BY DEF TypeOK
  <2>2. f \in Seq(WireByte)
    BY <1>5
  <2>3. /\ Len(wire \o f) = Len(wire) + Len(f)
        /\ \A j \in 1..Len(wire) : (wire \o f)[j] = wire[j]
        /\ \A j \in 1..Len(f) : (wire \o f)[Len(wire) + j] = f[j]
    <3> HIDE DEF f
    <3> QED
      BY <2>1, <2>2, Concat
  <2> QED
    BY <1>6, <2>3, Zenon
<1>8. /\ Len(sent') = N + 1
      /\ \A i \in 1..N : sent'[i] = sent[i]
      /\ sent'[N + 1] = [text |-> t, protocol |-> p, at |-> epos]
  <2>1. [text |-> t, protocol |-> p, at |-> epos] \in Frame
    BY <1>3 DEF Frame
  <2>2. sent' = Append(sent, [text |-> t, protocol |-> p, at |-> epos]) /\ sent \in Seq(Frame)
    BY DEF SendTextMsg, TypeOK
  <2>3. /\ Len(sent') = Len(sent) + 1
        /\ \A i \in 1..Len(sent) : sent'[i] = sent[i]
        /\ sent'[Len(sent) + 1] = [text |-> t, protocol |-> p, at |-> epos]
    BY <2>1, <2>2, AppendProperties
  <2> QED
    BY <1>0, <2>3
<1>9. UNCHANGED <<msg, dpos, skipped, out>> /\ epos' = epos + Len(t)
  BY <1>4 DEF SendTextMsg, reader
<1> HIDE DEF f
<1>10. /\ \A i \in 1..(N + 1) : Place(i)' = Place(i)
       /\ Place(N + 2)' = Place(N + 1) + Len(t)
       /\ \A i \in 1..(N + 1) : Place(i) \in Nat
  <2>1. ASSUME NEW i \in 1..(N + 1) PROVE Place(i)' = Place(i)
    <3>1. CASE i \in 1..N
      BY <1>0, <1>3, <1>8, <3>1 DEF Place
    <3>2. CASE i = N + 1
      BY <1>0, <1>3, <1>8, <3>2 DEF Place
    <3> QED
      BY <1>0, <1>3, <3>1, <3>2
  <2>2. Place(N + 2)' = Place(N + 1) + Len(t)
    BY <1>0, <1>3, <1>8, <1>9 DEF Place
  <2>3. \A i \in 1..(N + 1) : Place(i) \in Nat
    BY <1>0, <1>2, <1>1, BeforeFacts
  <2> QED
    BY <2>1, <2>2, <2>3
<1>11. PlaceInv'
  <2>1. ASSUME NEW i \in 1..(N + 1)
        PROVE  Size(i)' + 4 <= BufSize /\ Place(i + 1)' = Place(i)' + Size(i)'
    <3>1. CASE i \in 1..N
      <4>1. Size(i)' = Size(i)
        BY <1>8, <3>1 DEF Size
      <4>2. Size(i) + 4 <= BufSize /\ Place(i + 1) = Place(i) + Size(i)
        BY <1>0, <1>2, <3>1 DEF PlaceInv
      <4>3. i + 1 \in 1..(N + 1)
        BY <1>0, <1>3, <3>1
      <4> QED
        BY <1>10, <4>1, <4>2, <4>3
    <3>2. CASE i = N + 1
      <4>1. Size(i)' = Len(t)
        BY <1>8, <3>2 DEF Size
      <4>2. i + 1 = N + 2
        BY <1>0, <1>3, <3>2
      <4> QED
        BY <1>4, <1>10, <3>2, <4>1, <4>2
    <3> QED
      BY <1>0, <1>3, <3>1, <3>2
  <2>2. ASSUME NEW i \in 1..(N + 2), NEW j \in 1..(N + 2), i <= j
        PROVE  Place(i)' <= Place(j)'
    <3>1. \A k \in 1..(N + 1) : Place(k) <= Place(N + 1)
      BY <1>0, <1>2, <1>3 DEF PlaceInv
    <3>2. CASE j \in 1..(N + 1)
      <4>1. i \in 1..(N + 1)
        BY <2>2, <3>2, <1>3
      <4>2. Place(i) <= Place(j)
        BY <1>0, <1>2, <2>2, <3>2, <4>1 DEF PlaceInv
      <4> QED
        BY <1>10, <3>2, <4>1, <4>2
    <3>3. CASE j = N + 2 /\ i \in 1..(N + 1)
      <4>1. Place(i) <= Place(N + 1) /\ Place(i) \in Nat /\ Place(N + 1) \in Nat
        BY <1>0, <1>3, <1>10, <3>1, <3>3
      <4> QED
        BY <1>4, <1>10, <3>3, <4>1
    <3>4. CASE j = N + 2 /\ i = N + 2
      <4>1. Place(N + 2)' \in Nat
        BY <1>0, <1>3, <1>4, <1>10
      <4> QED
        BY <3>4, <4>1
    <3> QED
      BY <1>0, <1>3, <3>2, <3>3, <3>4
  <2>3. Len(sent') + 1 = N + 2
    BY <1>0, <1>3, <1>8
  <2> QED
    BY <1>8, <2>1, <2>2, <2>3 DEF PlaceInv
<1>12. Stream(d)'
  <2>1. /\ \A i \in (d + 1)..(N + 1) : Before(d, i)' = Before(d, i) /\ Before(d, i) \in Nat
        /\ Before(d, N + 2)' = Before(d, N + 1) + Len(t) + 4
        /\ \A i \in (d + 1)..(N + 1) : Before(d, i) <= Before(d, N + 1)
        /\ \A i \in (d + 1)..N : Before(d, i + 1) = Before(d, i) + Size(i) + 4
    <3>1. /\ \A i \in (d + 1)..(N + 1) : Before(d, i) \in Nat /\ Before(d, i) <= Before(d, N + 1)
          /\ \A i \in (d + 1)..N : Before(d, i + 1) = Before(d, i) + Size(i) + 4
      BY <1>0, <1>2, BeforeFacts
    <3>2. ASSUME NEW i \in (d + 1)..(N + 1) PROVE Before(d, i)' = Before(d, i)
      <4>1. d + 1 \in 1..(N + 1) /\ i \in 1..(N + 1)
        BY <1>0, <1>3
      <4>2. Place(i)' = Place(i) /\ Place(d + 1)' = Place(d + 1)
        BY <1>10, <4>1
      <4> QED
        BY <4>2 DEF Before
    <3>3. Before(d, N + 2)' = Before(d, N + 1) + Len(t) + 4
      <4>1. /\ d + 1 \in 1..(N + 1) /\ Place(d + 1)' = Place(d + 1) /\ Place(d + 1) \in Nat
            /\ Place(N + 1) \in Nat /\ Place(N + 2)' = Place(N + 1) + Len(t)
        BY <1>0, <1>3, <1>10
      <4> QED
        BY <1>0, <1>3, <1>4, <4>1 DEF Before
    <3> QED
      BY <3>1, <3>2, <3>3
  <2>2. Len(msg) + Len(wire) = Before(d, N + 1)
    BY <1>0, <1>1 DEF Stream
  <2>3. Len(msg') + Len(wire') = Before(d, N + 2)'
    BY <1>0, <1>3, <1>4, <1>5, <1>7, <1>9, <2>1, <2>2
  <2>4. ASSUME NEW k \in 1..(Len(msg) + Len(wire)) PROVE Pending(k)' = Pending(k)
    <3>1. CASE k <= Len(msg)
      BY <1>9, <3>1 DEF Pending
    <3>2. CASE ~(k <= Len(msg))
      <4>1. k - Len(msg) \in 1..Len(wire)
        BY <1>0, <1>3, <3>2
      <4> QED
        BY <1>7, <1>9, <3>2, <4>1 DEF Pending
    <3> QED
      BY <3>1, <3>2
  <2>5. ASSUME NEW i \in (d + 1)..N, NEW j \in 1..(Size(i)' + 4)
        PROVE  Pending(Before(d, i) + j)' = FrameOf(i)'[j]
    <3>1. i \in 1..N /\ i \in (d + 1)..(N + 1) /\ i + 1 \in (d + 1)..(N + 1)
      BY <1>0, <1>3
    <3>2. Size(i)' = Size(i) /\ FrameOf(i)' = FrameOf(i) /\ Before(d, i)' = Before(d, i)
      BY <1>8, <2>1, <3>1 DEF Size, FrameOf, MakeFrame, Encrypt, Field, Plain, Cut
    <3>3. Size(i) \in Nat
      BY <1>0, <1>2, <3>1, BeforeFacts
    <3>4. Before(d, i) + j \in 1..(Len(msg) + Len(wire))
      <4>1. /\ Before(d, i) \in Nat /\ Before(d, i + 1) \in Nat
            /\ Before(d, i + 1) = Before(d, i) + Size(i) + 4
            /\ Before(d, i + 1) <= Len(msg) + Len(wire)
        BY <2>1, <2>2, <3>1
      <4>2. j \in 1..(Size(i) + 4)
        BY <3>2
      <4> QED
        BY <1>3, <3>3, <4>1, <4>2
    <3>5. Pending(Before(d, i) + j) = FrameOf(i)[j]
      BY <1>0, <1>1, <3>2 DEF Stream
    <3>6. PICK k \in 1..(Len(msg) + Len(wire)) : k = Before(d, i) + j
      BY <3>4
    <3>7. Before(d, i)' + j = k
      BY <3>2, <3>6
    <3>8. Pending(Before(d, i) + j)' = Pending(k)'
      BY <3>7 DEF Pending
    <3> QED
      BY <2>4, <3>2, <3>5, <3>6, <3>8
  <2>6. ASSUME NEW j \in 1..(Size(N + 1)' + 4)
        PROVE  Pending(Before(d, N + 1) + j)' = FrameOf(N + 1)'[j]
    <3>1. Size(N + 1)' = Len(t)
      BY <1>8 DEF Size
    <3>2. FrameOf(N + 1)' = f
      <4>1. /\ sent'[N + 1].text = t /\ sent'[N + 1].protocol = p
            /\ sent'[N + 1].at = epos
        BY <1>8
      <4> QED
        BY <4>1 DEF FrameOf, f
    <3>3. Before(d, N + 1)' = Len(msg) + Len(wire)
      BY <1>0, <1>3, <2>1, <2>2
    <3>4. j \in 1..Len(f)
      BY <1>5, <3>1
    <3>5. Pending(Before(d, N + 1) + j)' = wire'[Len(wire) + j]
      <4>1. PICK k \in Nat : k = Len(msg) + Len(wire) + j
        BY <1>3, <1>4, <3>1
      <4>2. Before(d, N + 1)' + j = k /\ ~(k <= Len(msg')) /\ k - Len(msg') = Len(wire) + j
        BY <1>3, <1>4, <1>9, <3>1, <3>3, <4>1
      <4>3. Pending(Before(d, N + 1) + j)' = Pending(k)'
        BY <4>2 DEF Pending
      <4>4. Pending(k)' = wire'[k - Len(msg')]
        BY <4>2 DEF Pending
      <4> QED
        BY <4>2, <4>3, <4>4
    <3> QED
      BY <1>7, <3>2, <3>4, <3>5
  <2>7. ASSUME NEW i \in (d + 1)..Len(sent')
        PROVE  \A j \in 1..(Size(i)' + 4) : Pending(Before(d, i) + j)' = FrameOf(i)'[j]
    <3>1. i \in (d + 1)..N \/ i = N + 1
      BY <1>0, <1>3, <1>8
    <3> QED
      BY <2>5, <2>6, <3>1
  <2>8. Len(sent') + 1 = N + 2
    BY <1>0, <1>3, <1>8
  <2> QED
    BY <2>3, <2>7, <2>8 DEF Stream
<1>13. Taken(d)'
  <2>1. Place(d + 1)' = Place(d + 1)
    BY <1>0, <1>10
  <2>2. sent \in Seq(Frame) /\ sent' \in Seq(Frame)
    BY DEF TypeOK
  <2>3. TextFrames' \cap (1..d) = TextFrames \cap (1..d)
    BY <1>0, <1>8, <2>2 DEF TextFrames
  <2>4. \A i \in 1..d : OnlyTextsTo(i)' <=> OnlyTextsTo(i)
    BY <1>0, <1>8, <2>2 DEF TextFrames, OnlyTextsTo
  <2>5. OnlyTextsTo(d)' <=> OnlyTextsTo(d)
    BY <1>0, <1>8, <2>2 DEF TextFrames, OnlyTextsTo
  <2>6. \A i \in 1..d : Expected(sent[i])' = Expected(sent[i])
    BY <1>0, <1>8 DEF Expected
  <2> QED
    BY <1>1, <1>9, <2>1, <2>3, <2>4, <2>5, <2>6 DEF Taken
<1>14. d \in 0..Len(sent')
  BY <1>0, <1>8
<1> QED
  BY <1>6, <1>11, <1>12, <1>13, <1>14 DEF FrameInv

(* Bytes go over from the wire to what has been received. *)
LEMMA ReadStep ==
    ASSUME TypeOK, FrameInv, ReadSome
    PROVE  FrameInv'
<1>1. PICK d \in 0..Len(sent) : Stream(d) /\ Taken(d)
  BY DEF FrameInv
<1>2. PlaceInv /\ writes = <<>>
  BY DEF FrameInv
<1>3. UNCHANGED <<sent, epos, writes, dpos, skipped, out>>
  BY DEF ReadSome, writer
<1>4. /\ sent \in Seq(Frame) /\ Len(sent) \in Nat
      /\ msg \in Seq(WireByte) /\ Len(msg) \in Nat
      /\ wire \in Seq(WireByte) /\ Len(wire) \in Nat
  BY DEF TypeOK
<1>5. PICK n \in Nat : /\ 1 <= n /\ n <= Len(wire)
                       /\ msg' = msg \o SubSeq(wire, 1, n)
                       /\ wire' = SubSeq(wire, n + 1, Len(wire))
  <2>1. Wanted \in Nat
    BY WantedIsNat
  <2>2. PICK n \in 1..(Wanted - Len(msg)) : /\ n <= Len(wire)
                                           /\ msg' = msg \o SubSeq(wire, 1, n)
                                           /\ wire' = SubSeq(wire, n + 1, Len(wire))
    BY DEF ReadSome
  <2>3. n \in Nat /\ 1 <= n
    BY <1>4, <2>1
  <2> QED
    BY <2>2, <2>3
<1> DEFINE piece == SubSeq(wire, 1, n)
<1>6. /\ piece \in Seq(WireByte) /\ Len(piece) = n
      /\ \A j \in 1..n : piece[j] = wire[j]
  BY <1>4, <1>5, SubSeqProperties
<1>7. /\ Len(wire') = Len(wire) - n
      /\ \A j \in 1..(Len(wire) - n) : wire'[j] = wire[n + j]
  BY <1>4, <1>5, SubSeqProperties
<1>8. /\ Len(msg') = Len(msg) + n
      /\ \A j \in 1..Len(msg) : msg'[j] = msg[j]
      /\ \A j \in 1..n : msg'[Len(msg) + j] = wire[j]
  <2>1. /\ Len(msg \o piece) = Len(msg) + Len(piece)
        /\ \A j \in 1..Len(msg) : (msg \o piece)[j] = msg[j]
        /\ \A j \in 1..Len(piece) : (msg \o piece)[Len(msg) + j] = piece[j]
    <3>1. piece \in Seq(WireByte)
      BY <1>6
    <3> HIDE DEF piece
    <3> QED
      BY <1>4, <3>1, Concat
  <2> HIDE DEF piece
  <2>2. msg' = msg \o piece
    BY <1>5 DEF piece
  <2> QED
    BY <1>6, <2>1, <2>2
<1>9. ASSUME NEW k \in 1..(Len(msg) + Len(wire)) PROVE Pending(k)' = Pending(k)
  <2>1. CASE k <= Len(msg)
    <3>1. k <= Len(msg') /\ k \in 1..Len(msg)
      BY <1>4, <1>5, <1>8, <2>1
    <3> QED
      BY <1>8, <2>1, <3>1 DEF Pending
  <2>2. CASE ~(k <= Len(msg)) /\ k <= Len(msg) + n
    <3>1. PICK j \in 1..n : k = Len(msg) + j
      <4>1. k - Len(msg) \in 1..n /\ k = Len(msg) + (k - Len(msg))
        BY <1>4, <1>5, <2>2
      <4> QED
        BY <4>1
    <3>2. k <= Len(msg') /\ k - Len(msg) = j
      BY <1>4, <1>5, <1>8, <2>2, <3>1
    <3> QED
      BY <1>8, <2>2, <3>1, <3>2 DEF Pending
  <2>3. CASE ~(k <= Len(msg) + n)
    <3>1. PICK j \in 1..(Len(wire) - n) : k = Len(msg) + n + j
      <4>1. /\ k - Len(msg) - n \in 1..(Len(wire) - n)
            /\ k = Len(msg) + n + (k - Len(msg) - n)
        BY <1>4, <1>5, <2>3
      <4> QED
        BY <4>1
    <3>2. ~(k <= Len(msg)) /\ ~(k <= Len(msg')) /\ k - Len(msg) = n + j /\ k - Len(msg') = j
      BY <1>4, <1>5, <1>8, <2>3, <3>1
    <3> QED
      BY <1>7, <3>1, <3>2 DEF Pending
  <2> QED
    BY <1>4, <1>5, <2>1, <2>2, <2>3
<1>10. /\ \A i \in 1..(Len(sent) + 1) : Place(i)' = Place(i)
       /\ \A i \in (d + 1)..(Len(sent) + 1) : Before(d, i)' = Before(d, i)
       /\ \A i \in 1..Len(sent) : Size(i)' = Size(i) /\ FrameOf(i)' = FrameOf(i)
  BY <1>3 DEF Place, Before, Size, FrameOf
<1>11. PlaceInv'
  BY <1>2, <1>3 DEF PlaceInv, Place, Size
<1>12. Stream(d)'
  <2>1. Len(msg') + Len(wire') = Before(d, Len(sent) + 1)
    <3>1. Len(msg') + Len(wire') = Len(msg) + Len(wire)
      <4>1. Len(msg') = Len(msg) + n /\ Len(wire') = Len(wire) - n
        BY <1>7, <1>8
      <4>2. n \in Nat
        OBVIOUS
      <4> QED
        BY <1>4, <4>1, <4>2
    <3> QED
      BY <1>1, <3>1 DEF Stream
  <2>2. Before(d, Len(sent) + 1)' = Before(d, Len(sent) + 1)
    BY <1>3 DEF Before, Place
  <2>3. ASSUME NEW i \in (d + 1)..Len(sent), NEW j \in 1..(Size(i) + 4)
        PROVE  Pending(Before(d, i) + j)' = FrameOf(i)[j]
    <3>1. Pending(Before(d, i) + j) = FrameOf(i)[j]
      BY <1>1 DEF Stream
    <3>2. i \in 1..Len(sent) /\ i \in (d + 1)..(Len(sent) + 1) /\ i + 1 \in (d + 1)..(Len(sent) + 1)
      BY <1>4
    <3>3. /\ Before(d, i) \in Nat /\ Before(d, i + 1) \in Nat /\ Size(i) \in Nat
          /\ Before(d, i + 1) = Before(d, i) + Size(i) + 4
          /\ Before(d, i + 1) <= Before(d, Len(sent) + 1)
      BY <1>2, <3>2, BeforeFacts
    <3>4. Len(msg) + Len(wire) = Before(d, Len(sent) + 1)
      BY <1>1 DEF Stream
    <3>5. Before(d, i) + j \in 1..(Len(msg) + Len(wire))
      BY <1>4, <3>3, <3>4
    <3>6. PICK k \in 1..(Len(msg) + Len(wire)) : k = Before(d, i) + j
      BY <3>5
    <3>7. Before(d, i)' + j = k
      BY <1>10, <3>2, <3>6
    <3>8. Pending(Before(d, i) + j)' = Pending(k)'
      BY <3>7 DEF Pending
    <3> QED
      BY <1>9, <3>1, <3>6, <3>8
  <2>4. ASSUME NEW i \in (d + 1)..Len(sent')
        PROVE  \A j \in 1..(Size(i)' + 4) : Pending(Before(d, i) + j)' = FrameOf(i)'[j]
    <3>1. i \in (d + 1)..Len(sent) /\ i \in 1..Len(sent)
      BY <1>3, <1>4
    <3> QED
      BY <1>10, <2>3, <3>1
  <2> QED
    BY <2>1, <2>2, <2>4 DEF Stream
<1>13. Taken(d)'
  BY <1>1, <1>3 DEF Taken, Place, TextFrames, OnlyTextsTo, Expected
<1> QED
  BY <1>2, <1>3, <1>11, <1>12, <1>13 DEF FrameInv

(* A whole frame is handed over, or left out. *)
LEMMA BodyStep ==
    ASSUME TypeOK, FrameInv, HandleReadMsg
    PROVE  FrameInv'
<1>0. PICK N \in Nat : N = Len(sent)
  BY DEF TypeOK
<1>1. PICK d \in 0..N : Stream(d) /\ Taken(d)
  BY <1>0 DEF FrameInv
<1>2. PlaceInv /\ writes = <<>>
  BY DEF FrameInv
<1>3. UNCHANGED <<sent, epos, writes, wire>> /\ msg' = <<>> /\ Len(msg') = 0
  <2>1. msg' = <<>>
    BY DEF HandleReadMsg, StartRead
  <2> QED
    BY <2>1, EmptySeq DEF HandleReadMsg, writer
<1>4. /\ sent \in Seq(Frame) /\ Len(msg) \in Nat /\ Len(wire) \in Nat
      /\ msg \in Seq(WireByte) /\ wire \in Seq(WireByte) /\ out \in Seq(Given)
      /\ dpos \in Nat /\ skipped \in Nat
  BY DEF TypeOK
<1>5. rd = "body" /\ Len(msg) = FieldAt(msg, 1) + 4 /\ Len(msg) >= 2
  BY DEF HandleReadMsg, Wanted, TypeOK
<1> DEFINE e == d + 1
<1>6. /\ e \in 1..N /\ FieldAt(msg, 1) = Size(e)
      /\ \A j \in 1..(Size(e) + 4) : j <= Len(msg) => msg[j] = FrameOf(e)[j]
  BY <1>0, <1>1, <1>2, <1>4, <1>5, ReadingFrame
<1>7. Size(e) \in Nat /\ Len(msg) = Size(e) + 4 /\ \A j \in 1..(Size(e) + 4) : msg[j] = FrameOf(e)[j]
  <2>1. Size(e) \in Nat
    BY <1>0, <1>1, <1>2, <1>6, BeforeFacts
  <2> QED
    BY <1>4, <1>5, <1>6, <2>1
<1>8. e \in 0..Len(sent')
  BY <1>0, <1>3, <1>6
<1>9. PlaceInv'
  BY <1>2, <1>3 DEF PlaceInv, Place, Size
<1>10. /\ \A i \in 1..(N + 1) : Place(i)' = Place(i) /\ Place(i) \in Nat
       /\ \A i \in 1..N : Size(i)' = Size(i) /\ FrameOf(i)' = FrameOf(i) /\ Size(i) \in Nat
       /\ Place(e + 1) = Place(e) + Size(e)
  <2>1. /\ \A i \in 1..(N + 1) : Place(i) \in Nat
        /\ \A i \in 1..N : Size(i) \in Nat
    BY <1>0, <1>1, <1>2, BeforeFacts
  <2>2. Place(e + 1) = Place(e) + Size(e)
    BY <1>0, <1>2, <1>6 DEF PlaceInv
  <2> QED
    BY <1>3, <2>1, <2>2 DEF Place, Size, FrameOf
<1>11. Stream(e)'
  <2>1. ASSUME NEW i \in (e + 1)..(N + 1)
        PROVE  /\ Before(e, i)' = Before(e, i)
               /\ Before(d, i) = Before(e, i) + Len(msg)
               /\ Before(e, i) \in Nat
    <3>1. i \in 1..(N + 1) /\ e \in 1..(N + 1) /\ e + 1 \in 1..(N + 1)
      BY <1>6
    <3>2. Place(i) \in Nat /\ Place(e) \in Nat /\ Place(e + 1) \in Nat
      BY <1>10, <3>1
    <3>3. Before(e, i)' = Before(e, i)
      BY <1>10, <3>1 DEF Before
    <3>4. Before(d, i) = Before(e, i) + Len(msg)
      BY <1>7, <1>10, <3>1, <3>2 DEF Before
    <3>5. Before(e, i) \in Nat
      <4>1. e \in 0..Len(sent) /\ i \in (e + 1)..(Len(sent) + 1)
        BY <1>0, <1>6
      <4> HIDE DEF e
      <4> QED
        BY <1>2, <4>1, BeforeFacts
    <3> QED
      BY <3>3, <3>4, <3>5
  <2>2. Len(msg') + Len(wire') = Before(e, N + 1)'
    <3>1. Len(msg) + Len(wire) = Before(d, N + 1)
      BY <1>0, <1>1 DEF Stream
    <3>2. N + 1 \in (e + 1)..(N + 1)
      BY <1>6
    <3>3. /\ Before(e, N + 1)' = Before(e, N + 1)
          /\ Before(d, N + 1) = Before(e, N + 1) + Len(msg)
          /\ Before(e, N + 1) \in Nat
      BY <2>1, <3>2
    <3>4. Len(wire) = Before(e, N + 1)
      BY <1>4, <3>1, <3>3
    <3> QED
      BY <1>3, <1>4, <3>3, <3>4
  <2>3. ASSUME NEW i \in (e + 1)..N, NEW j \in 1..(Size(i) + 4)
        PROVE  Pending(Before(e, i) + j)' = FrameOf(i)[j]
    <3>1. i \in (d + 1)..Len(sent) /\ i \in (e + 1)..(N + 1) /\ i \in 1..N
      BY <1>0, <1>6
    <3>2. Pending(Before(d, i) + j) = FrameOf(i)[j]
      BY <1>1, <3>1 DEF Stream
    <3>3. Size(i) \in Nat
      BY <1>10, <3>1
    <3>4. /\ Before(e, i)' = Before(e, i) /\ Before(d, i) = Before(e, i) + Len(msg)
          /\ Before(e, i) \in Nat
      BY <2>1, <3>1
    <3>5. PICK k \in Nat \ {0} : k = Before(e, i) + j
      BY <3>3, <3>4
    <3>6. /\ Before(d, i) + j = Len(msg) + k /\ ~(Len(msg) + k <= Len(msg))
          /\ Len(msg) + k - Len(msg) = k
      BY <1>4, <3>3, <3>4, <3>5
    <3>7. Pending(Before(d, i) + j) = wire[k]
      BY <3>6 DEF Pending
    <3>8. Before(e, i)' + j = k /\ ~(k <= Len(msg')) /\ k - Len(msg') = k
      BY <1>3, <3>4, <3>5
    <3>9. Pending(Before(e, i) + j)' = wire'[k]
      BY <3>8 DEF Pending
    <3> QED
      BY <1>3, <3>2, <3>7, <3>9
  <2>4. ASSUME NEW i \in (e + 1)..Len(sent')
        PROVE  \A j \in 1..(Size(i)' + 4) : Pending(Before(e, i) + j)' = FrameOf(i)'[j]
    <3>1. i \in (e + 1)..N /\ i \in 1..N
      BY <1>0, <1>3, <1>6
    <3> QED
      BY <1>10, <2>3, <3>1
  <2>5. Before(e, N + 1)' = Before(e, Len(sent) + 1)'
    BY <1>0, <1>3
  <2> QED
    BY <2>2, <2>4, <2>5 DEF Stream
<1>12. Taken(e)'
  <2>1. sent[e] \in Frame /\ sent[e].text \in Seq({Char, Nul})
    <3>1. sent[e] \in Frame
      BY <1>0, <1>4, <1>6, ElementOfSeq
    <3> QED
      BY <3>1, FramingAssumption DEF Frame
  <2>2. IsTextMsg(msg) <=> e \in TextFrames
    <3>1. sent[e].protocol \in 0..(Wrap - 1)
      <4>1. Base \in Nat /\ Base > 1 /\ sent[e].protocol \in 0..(Base - 1)
        <5>1. sent[e].protocol \in Protocols
          BY <2>1 DEF Frame
        <5>2. Base \in Nat /\ Base > 1
          BY FramingAssumption
        <5>3. Protocols \subseteq 0..(Base - 1)
          BY FramingAssumption
        <5> QED
          BY <5>1, <5>2, <5>3
      <4>2. Base <= Base * Base
        BY <4>1
      <4> QED
        BY <4>1, <4>2 DEF Wrap
    <3>2. msg[3] = FrameOf(e)[3] /\ msg[4] = FrameOf(e)[4]
      BY <1>7
    <3>3. /\ FrameOf(e)[3] = Field(sent[e].protocol)[1]
          /\ FrameOf(e)[4] = Field(sent[e].protocol)[2]
      <4>1. /\ FrameOf(e)[2 + 1] = Field(sent[e].protocol)[1]
            /\ FrameOf(e)[2 + 2] = Field(sent[e].protocol)[2]
        BY <1>0, <1>2, <1>6, FrameShape
      <4> QED
        BY <4>1
    <3>4. msg[3] = Field(sent[e].protocol)[1] /\ msg[3 + 1] = Field(sent[e].protocol)[2]
      BY <3>2, <3>3
    <3>5. FieldAt(msg, 3) = sent[e].protocol
      BY <3>1, <3>4, FieldReadsBack
    <3> QED
      BY <1>0, <1>4, <1>6, <3>5 DEF IsTextMsg, TextFrames
  <2>3. ASSUME dpos = sent[e].at PROVE Decrypt(Body(msg), dpos) = Cut(sent[e].text)
    <3>1. /\ Body(msg) \in Seq(WireByte) /\ Len(Body(msg)) = Size(e)
          /\ \A j \in 1..Size(e) : Body(msg)[j] = msg[4 + j]
      <4>1. \A j \in 5..Len(msg) : msg[j] \in WireByte
        BY <1>4, ElementOfSeq
      <4>2. /\ Body(msg) \in Seq(WireByte)
            /\ Len(Body(msg)) = IF 5 <= Len(msg) THEN Len(msg) - 5 + 1 ELSE 0
            /\ \A j \in 1..(Len(msg) - 5 + 1) : Body(msg)[j] = msg[5 + j - 1]
        BY <1>4, <4>1, SubSeqProperties DEF Body
      <4>3. Len(msg) - 5 + 1 = Size(e) /\ (~(5 <= Len(msg)) => Size(e) = 0)
        BY <1>7
      <4>4. ASSUME NEW j \in 1..Size(e) PROVE Body(msg)[j] = msg[4 + j]
        <5>1. j \in 1..(Len(msg) - 5 + 1) /\ 5 + j - 1 = 4 + j
          BY <1>7, <4>3
        <5> QED
          BY <4>2, <5>1
      <4> QED
        BY <4>2, <4>3, <4>4
    <3>2. ASSUME NEW j \in 1..Size(e)
          PROVE  Body(msg)[j] = [byte |-> sent[e].text[j], at |-> dpos + j]
      <4>1. 4 + j \in 1..(Size(e) + 4)
        BY <1>7
      <4>2. msg[4 + j] = FrameOf(e)[4 + j]
        BY <1>7, <4>1
      <4>3. FrameOf(e)[4 + j] = [byte |-> sent[e].text[j], at |-> sent[e].at + j]
        BY <1>0, <1>2, <1>6, FrameShape
      <4> QED
        BY <2>3, <3>1, <4>2, <4>3
    <3>3. Decrypt(Body(msg), dpos) = [j \in 1..Size(e) |-> sent[e].text[j]]
      BY <3>1, <3>2 DEF Decrypt
    <3>4. sent[e].text = [j \in 1..Size(e) |-> sent[e].text[j]]
      BY <2>1 DEF Size
    <3>5. Cut(sent[e].text) = sent[e].text
      BY <1>0, <1>2, <1>6, FrameShape
    <3> QED
      BY <3>3, <3>4, <3>5
  <2>4. /\ UNCHANGED TextFrames
        /\ \A i \in 1..e : OnlyTextsTo(i)' <=> OnlyTextsTo(i)
        /\ \A i \in 1..e : Expected(sent[i])' = Expected(sent[i])
        /\ Place(e + 1)' = Place(e) + Size(e)
    <3>1. Place(e + 1)' = Place(e + 1)
      BY <1>3 DEF Place
    <3> QED
      BY <1>3, <1>10, <3>1 DEF TextFrames, OnlyTextsTo, Expected
  <2>5. IsFiniteSet(TextFrames \cap (1..d)) /\ Cardinality(TextFrames \cap (1..d)) \in Nat
    <3>1. IsFiniteSet(1..d)
      BY FS_Interval
    <3>2. TextFrames \cap (1..d) \in SUBSET (1..d)
      OBVIOUS
    <3>3. IsFiniteSet(TextFrames \cap (1..d))
      BY <3>1, <3>2, FS_Subset
    <3> QED
      BY <3>3, FS_CardinalityType
  <2>6. /\ dpos + skipped = Place(e) /\ Len(out) = Cardinality(TextFrames \cap (1..d))
        /\ OnlyTextsTo(d) => skipped = 0
        /\ \A i \in 1..d : OnlyTextsTo(i) => i \in DOMAIN out /\ out[i] = Expected(sent[i])
    BY <1>1 DEF Taken
  <2>7. \A i \in 1..e : i \in 1..d \/ i = e
    OBVIOUS
  <2>8. CASE e \in TextFrames
    <3> DEFINE g == FromUtf8(Decrypt(Body(msg), dpos))
    <3>1. dpos' = dpos + Size(e) /\ skipped' = skipped /\ out' = Append(out, g)
      BY <1>6, <2>2, <2>8 DEF HandleReadMsg, Decrypted
    <3>2. /\ Len(out') = Len(out) + 1 /\ DOMAIN out' = 1..(Len(out) + 1)
          /\ \A i \in 1..Len(out) : out'[i] = out[i]
          /\ out'[Len(out) + 1] = g
      <4>1. g \in Given
        <5>1. Body(msg) \in Seq(WireByte)
          BY <1>4, SubSeqProperties DEF Body
        <5> QED
          BY <1>4, <5>1, DecryptType, FromUtf8Type
      <4>2. out' \in Seq(Given) /\ Len(out') = Len(out) + 1
        BY <1>4, <3>1, <4>1, AppendProperties
      <4> QED
        BY <1>4, <3>1, <4>1, <4>2, AppendProperties
    <3> HIDE DEF g
    <3>3. dpos' + skipped' = Place(e + 1)'
      BY <1>4, <1>7, <2>4, <2>6, <3>1
    <3>4. Len(out') = Cardinality(TextFrames' \cap (1..e))
      <4>1. TextFrames \cap (1..e) = (TextFrames \cap (1..d)) \cup {e}
        BY <2>8
      <4>2. e \notin TextFrames \cap (1..d)
        OBVIOUS
      <4>3. Cardinality(TextFrames \cap (1..e)) = Cardinality(TextFrames \cap (1..d)) + 1
        BY <2>5, <4>1, <4>2, FS_AddElement
      <4> QED
        BY <2>4, <2>6, <3>2, <4>3
    <3>5. ASSUME OnlyTextsTo(e) PROVE skipped = 0 /\ dpos = sent[e].at /\ Len(out) = d
      <4>1. OnlyTextsTo(d) /\ TextFrames \cap (1..d) = 1..d
        BY <3>5 DEF OnlyTextsTo
      <4>2. skipped = 0 /\ Len(out) = d
        <5>1. Cardinality(1..d) = d
          BY FS_Interval
        <5> QED
          BY <2>6, <4>1, <5>1
      <4>3. Place(e) = sent[e].at
        BY <1>0, <1>6 DEF Place
      <4> QED
        BY <1>4, <2>6, <4>2, <4>3
    <3>6. ASSUME NEW i \in 1..e, OnlyTextsTo(i)
          PROVE  i \in DOMAIN out' /\ out'[i] = Expected(sent[i])
      <4>1. CASE i \in 1..d
        <5>1. i \in 1..Len(out) /\ out[i] = Expected(sent[i])
          <6>1. DOMAIN out = 1..Len(out)
            BY <1>4
          <6>2. i \in DOMAIN out /\ out[i] = Expected(sent[i])
            BY <2>6, <3>6, <4>1
          <6> QED
            BY <6>1, <6>2
        <5> QED
          BY <1>4, <3>2, <5>1
      <4>2. CASE i = e
        <5>1. dpos = sent[e].at /\ Len(out) = d
          BY <3>5, <3>6, <4>2
        <5>2. g = Expected(sent[e])
          BY <2>3, <5>1 DEF g, Expected
        <5> QED
          BY <3>2, <4>2, <5>1, <5>2
      <4> QED
        BY <2>7, <4>1, <4>2
    <3> QED
      BY <2>4, <3>1, <3>3, <3>4, <3>5, <3>6 DEF Taken
  <2>9. CASE e \notin TextFrames
    <3>1. dpos' = dpos /\ skipped' = skipped + Size(e) /\ out' = out
      BY <1>6, <2>2, <2>9 DEF HandleReadMsg
    <3>2. dpos' + skipped' = Place(e + 1)'
      BY <1>4, <1>7, <2>4, <2>6, <3>1
    <3>3. TextFrames \cap (1..e) = TextFrames \cap (1..d)
      BY <2>9
    <3>4. ~OnlyTextsTo(e)
      BY <2>9 DEF OnlyTextsTo
    <3>5. ASSUME NEW i \in 1..e, OnlyTextsTo(i)
          PROVE  i \in DOMAIN out /\ out[i] = Expected(sent[i])
      BY <2>6, <2>7, <3>4, <3>5
    <3>6. Len(out') = Cardinality(TextFrames' \cap (1..e)) /\ ~OnlyTextsTo(e)'
      <4>1. e \in 1..e
        BY <1>6
      <4>2. ~OnlyTextsTo(e)'
        BY <2>4, <3>4, <4>1
      <4>3. Len(out') = Cardinality(TextFrames' \cap (1..e))
        BY <2>4, <2>6, <3>1, <3>3
      <4> QED
        BY <4>2, <4>3
    <3>7. \A i \in 1..e : OnlyTextsTo(i)' => i \in DOMAIN out' /\ out'[i] = Expected(sent[i])'
      BY <2>4, <3>1, <3>5
    <3> QED
      BY <3>2, <3>6, <3>7 DEF Taken
  <2> QED
    BY <2>8, <2>9
<1> QED
  BY <1>2, <1>3, <1>8, <1>9, <1>11, <1>12 DEF FrameInv

(* The frames do not depend on which part of one is awaited. *)
LEMMA SameFrames ==
    ASSUME FrameInv, UNCHANGED <<sent, epos, writes, wire, msg, dpos, skipped, out>>
    PROVE  FrameInv'
<1>1. PICK d \in 0..Len(sent) : Stream(d) /\ Taken(d)
  BY DEF FrameInv
<1>2. PlaceInv'
  BY DEF FrameInv, PlaceInv, Place, Size
<1>3. Stream(d)'
  BY <1>1 DEF Stream, Pending, Before, Place, Size, FrameOf
<1>4. Taken(d)'
  BY <1>1 DEF Taken, Place, TextFrames, OnlyTextsTo, Expected
<1> QED
  BY <1>2, <1>3, <1>4 DEF FrameInv

-----------------------------------------------------------------------------
(* The invariant. *)
LEMMA InvStep == IInv /\ [Next]_vars => IInv'
<1> SUFFICES ASSUME IInv, [Next]_vars PROVE IInv'
  OBVIOUS
<1>1. TypeOK /\ TypeOK'
  BY TypeStep DEF IInv
<1>2. SUFFICES ASSUME ~overflowed' PROVE FrameInv'
  BY <1>1 DEF IInv
<1>3. ~overflowed
  <2>1. overflowed \in BOOLEAN /\ (overflowed => overflowed')
    BY <1>1, Zenon DEF TypeOK, Next, Reader, SendTextMsg, WriteSome, ReadSome,
                       HandleReadMsgHead, HandleReadMsg, vars, writer
  <2> QED
    BY <1>2, <2>1
<1>4. FrameInv
  BY <1>3 DEF IInv
<1>5. ASSUME NEW t \in Texts, NEW p \in Protocols, SendTextMsg(t, p) PROVE FrameInv'
  BY <1>1, <1>2, <1>4, <1>5, SendStep
<1>6. ASSUME NEW i \in DOMAIN writes, WriteSome(i) PROVE FrameInv'
  BY <1>4, <1>6 DEF FrameInv
<1>7. CASE ReadSome
  BY <1>1, <1>4, <1>7, ReadStep
<1>8. CASE HandleReadMsgHead
  BY <1>4, <1>8, SameFrames DEF HandleReadMsgHead, writer
<1>9. CASE HandleReadMsg
  BY <1>1, <1>4, <1>9, BodyStep
<1>10. CASE UNCHANGED vars
  BY <1>4, <1>10, SameFrames DEF vars, writer, reader
<1> QED
  BY <1>5, <1>6, <1>7, <1>8, <1>9, <1>10 DEF Next, Reader

(* Every variable keeps its type, overrun or not, and until a text has     *)
(* overrun its buffer the stream is whole frames.                          *)
THEOREM InvariantHolds == Spec => [](TypeOK /\ (~overflowed => FrameInv))
<1>1. Init => IInv
  BY TypeInit, FrameInit DEF IInv
<1>2. IInv => TypeOK /\ (~overflowed => FrameInv)
  BY DEF IInv
<1> QED
  BY <1>1, <1>2, InvStep, PTL DEF Spec

(* No two frames mix on the wire, the reader stays on the frame boundary,  *)
(* and until a frame of another protocol comes it hands over the very      *)
(* texts that were sent.                                                   *)
THEOREM FramesStayApart == Spec => []FramesKeptApart
<1>1. IInv => FramesKeptApart
  <2> SUFFICES ASSUME IInv, ~overflowed PROVE FramesKeptApart
    BY DEF FramesKeptApart
  <2>1. TypeOK /\ FrameInv
    BY DEF IInv
  <2>2. PICK d \in 0..Len(sent) : Taken(d)
    BY <2>1 DEF FrameInv
  <2>3. Len(sent) \in Nat /\ DOMAIN sent = 1..Len(sent) /\ DOMAIN out = 1..Len(out) /\ Len(out) \in Nat
    BY <2>1 DEF TypeOK
  <2>4. IsFiniteSet(TextFrames) /\ Cardinality(TextFrames) \in Nat
    <3>1. TextFrames \in SUBSET (1..Len(sent)) /\ IsFiniteSet(1..Len(sent))
      BY <2>3, FS_Interval DEF TextFrames
    <3>2. IsFiniteSet(TextFrames)
      BY <3>1, FS_Subset
    <3> QED
      BY <3>2, FS_CardinalityType
  <2>5. Len(out) <= Cardinality(TextFrames)
    <3>1. TextFrames \cap (1..d) \in SUBSET TextFrames
      OBVIOUS
    <3> QED
      BY <2>2, <2>4, <3>1, FS_Subset DEF Taken
  <2>6. Len(out) <= d
    <3>1. TextFrames \cap (1..d) \in SUBSET (1..d) /\ IsFiniteSet(1..d) /\ Cardinality(1..d) = d
      BY FS_Interval
    <3>2. Cardinality(TextFrames \cap (1..d)) <= Cardinality(1..d)
      BY <3>1, FS_Subset
    <3> QED
      BY <2>2, <3>1, <3>2 DEF Taken
  <2>7. ASSUME NEW i \in DOMAIN out, OnlyTextsTo(i) PROVE out[i] = Expected(sent[i])
    <3>1. i \in 1..d
      BY <2>3, <2>6
    <3> QED
      BY <2>2, <2>7, <3>1 DEF Taken
  <2> QED
    BY <2>5, <2>7 DEF FramesKeptApart
<1> QED
  BY <1>1, InvariantHolds, PTL DEF IInv

(* The two contexts are apart by what was skipped, once all that was sent  *)
(* has been taken off the stream.                                          *)
THEOREM DriftStaysSkipped == Spec => []DriftIsSkipped
<1>1. IInv => DriftIsSkipped
  <2> SUFFICES ASSUME IInv, wire = <<>>, msg = <<>>, ~overflowed
               PROVE  epos = dpos + skipped
    BY DEF DriftIsSkipped
  <2>1. TypeOK /\ FrameInv
    BY DEF IInv
  <2>2. PICK d \in 0..Len(sent) : Stream(d) /\ Taken(d)
    BY <2>1 DEF FrameInv
  <2>3. Len(sent) \in Nat /\ Len(wire) = 0 /\ Len(msg) = 0
    BY <2>1 DEF TypeOK
  <2>4. Before(d, Len(sent) + 1) = 0
    BY <2>2, <2>3 DEF Stream
  <2>5. d = Len(sent)
    <3>1. SUFFICES ASSUME d + 1 \in 1..Len(sent) PROVE FALSE
      BY <2>3
    <3>2. d + 1 \in (d + 1)..Len(sent) /\ d + 2 \in (d + 1)..(Len(sent) + 1) /\ (d + 1) + 1 = d + 2
      BY <2>3, <3>1
    <3>3. /\ Before(d, d + 2) = Before(d, d + 1) + Size(d + 1) + 4 /\ Before(d, d + 1) = 0
          /\ Size(d + 1) \in Nat /\ Before(d, d + 2) <= Before(d, Len(sent) + 1)
      BY <2>1, <3>1, <3>2, BeforeFacts DEF FrameInv
    <3> QED
      BY <2>4, <3>3
  <2>6. Place(d + 1) = epos
    BY <2>3, <2>5 DEF Place
  <2> QED
    BY <2>2, <2>6 DEF Taken
<1> QED
  BY <1>1, InvariantHolds, PTL DEF IInv

(* Until a text has overrun the writer's buffer, no frame the reader waits *)
(* for is larger than its own.                                             *)
THEOREM ReaderStaysInBounds == Spec => []ReaderInBounds
<1>1. IInv => ReaderInBounds
  <2> SUFFICES ASSUME IInv, ~overflowed PROVE ~(Wanted > BufSize)
    BY DEF ReaderInBounds
  <2>1. TypeOK /\ FrameInv
    BY DEF IInv
  <2>2. BufSize \in Nat /\ BufSize >= 5
    BY FramingAssumption DEF Wrap
  <2>3. CASE rd = "head"
    BY <2>2, <2>3 DEF Wanted
  <2>4. CASE rd = "body"
    <3>1. PICK d \in 0..Len(sent) : Stream(d)
      BY <2>1 DEF FrameInv
    <3>2. PlaceInv /\ Len(msg) >= 2
      BY <2>1, <2>4 DEF FrameInv, TypeOK
    <3>3. d + 1 \in 1..Len(sent) /\ FieldAt(msg, 1) = Size(d + 1) /\ Size(d + 1) + 4 <= BufSize
      BY <2>1, <3>1, <3>2, ReadingFrame
    <3>4. Size(d + 1) \in Nat
      BY <2>1, <3>1, <3>2, <3>3, BeforeFacts
    <3>5. Wanted = Size(d + 1) + 4
      BY <2>4, <3>3 DEF Wanted
    <3> QED
      BY <2>2, <3>3, <3>4, <3>5
  <2> QED
    BY <2>1, <2>3, <2>4 DEF TypeOK
<1> QED
  BY <1>1, InvariantHolds, PTL DEF IInv

(* The application reads past the end of the buffer for one length of text *)
(* only.                                                                   *)
THEOREM OverReadIsRare == Spec => []OverReadOnlyWhenFull
<1>1. IInv /\ FramesKeptApart => OverReadOnlyWhenFull
  <2> SUFFICES ASSUME IInv, FramesKeptApart, ~overflowed,
                      NEW i \in DOMAIN out, OnlyTextsTo(i)
               PROVE  out[i].over <=> /\ Len(sent[i].text) = BufSize - 4
                                      /\ ~Contains(sent[i].text, Nul)
    BY DEF OverReadOnlyWhenFull
  <2>1. TypeOK /\ PlaceInv
    BY DEF IInv, FrameInv
  <2>2. i \in 1..Len(out) /\ Len(out) \in Nat
    BY <2>1 DEF TypeOK
  <2>3. i \in 1..Len(sent)
    <3>1. i \in TextFrames
      BY <2>2 DEF OnlyTextsTo
    <3> QED
      BY <2>1, <3>1 DEF TextFrames, TypeOK
  <2>4. out[i] = FromUtf8(sent[i].text)
    <3>1. Cut(sent[i].text) = sent[i].text
      BY <2>1, <2>3, FrameShape
    <3> QED
      BY <3>1 DEF FramesKeptApart, Expected
  <2>5. out[i].over <=> ~Contains(sent[i].text, Nul) /\ Len(sent[i].text) + 4 >= BufSize
    <3> DEFINE past == ~Contains(sent[i].text, Nul) /\ Len(sent[i].text) + 4 >= BufSize
    <3>1. FromUtf8(sent[i].text).over = past
      BY DEF FromUtf8
    <3> HIDE DEF past
    <3>2. out[i].over = past
      BY <2>4, <3>1
    <3> QED
      BY <3>2, Zenon DEF past
  <2>6. Size(i) \in Nat /\ Size(i) + 4 <= BufSize /\ BufSize \in Nat
    <3>1. 0 \in 0..Len(sent) /\ BufSize \in Nat
      BY <2>1, FramingAssumption DEF TypeOK, Wrap
    <3> QED
      BY <2>1, <2>3, <3>1, BeforeFacts DEF PlaceInv
  <2>7. Len(sent[i].text) + 4 >= BufSize <=> Len(sent[i].text) = BufSize - 4
    BY <2>6 DEF Size
  <2> QED
    BY <2>5, <2>7
<1> QED
  BY <1>1, InvariantHolds, FramesStayApart, PTL DEF IInv
=============================================================================
