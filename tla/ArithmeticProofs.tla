-------------------------- MODULE ArithmeticProofs --------------------------
(***************************************************************************)
(* The four units of Arithmetic, for every size of their parts.            *)
(* SHA-512 (orlp/sha512.c): the loop of sha512_update loses no byte, and   *)
(* sha512_final pads once.  Poly1305 (poly1305.c): the sums that are       *)
(* carried through words of 32 bits are a polynomial modulo the prime, and *)
(* no sum of 64 bits is cut.  Scalars (orlp/sc.c): each fold and each      *)
(* carry keeps the number modulo the order, the carries bound the limbs    *)
(* they have passed, and so the second fold settles what the first one     *)
(* leaves: sc_reduce and sc_muladd end below the order.  The field         *)
(* (orlp/fe.c): the sums of products and the carries keep the number       *)
(* modulo the prime, the carries bring each limb back to its width, and    *)
(* the rounded quotient of fe_tobytes is the true one.  Loops are          *)
(* recursive functions here, so that what they compute is found by         *)
(* induction on their rounds.                                              *)
(***************************************************************************)
EXTENDS Arithmetic, SequenceTheorems, WellFoundedInduction, TLAPS

-----------------------------------------------------------------------------
(* Induction, for a set of numbers. *)
Less == {p \in Nat \X Nat : p[1] < p[2]}

LEMMA LessIsWellFounded == IsWellFoundedOn(Less, Nat)
BY NatLessThanWellFounded DEF OpToRel, Less

LEMMA SetInduction ==
    ASSUME NEW A, 0 \in A, \A n \in Nat : n \in A => n + 1 \in A
    PROVE  \A n \in Nat : n \in A
<1> DEFINE T == Nat \ A
<1>1. SUFFICES ASSUME T # {} PROVE FALSE
  OBVIOUS
<1>2. PICK m \in T : \A y \in T : ~(<<y, m>> \in Less)
  <2> HIDE DEF T
  <2>1. T \subseteq Nat
    BY DEF T
  <2> QED
    BY <1>1, <2>1, LessIsWellFounded, WFMin
<1>3. m \in Nat /\ m # 0 /\ m \notin A
  OBVIOUS
<1>4. m - 1 \in Nat /\ m - 1 < m
  BY <1>3
<1>5. m - 1 \in A
  <2>1. SUFFICES ASSUME m - 1 \in T PROVE FALSE
    BY <1>4
  <2>2. <<m - 1, m>> \in Less
    BY <1>3, <1>4 DEF Less
  <2> QED
    BY <1>2, <2>1, <2>2
<1>6. (m - 1) + 1 \in A /\ (m - 1) + 1 = m
  BY <1>3, <1>4, <1>5
<1> QED
  BY <1>3, <1>6

-----------------------------------------------------------------------------
(* The flattening of a sequence of sequences, one at a time. *)
FlatBody(s, n, f) == [i \in 1..n |-> IF i = 1 THEN s[i] ELSE f[i - 1] \o s[i]]
Flat(s, n) == CHOOSE f : f = FlatBody(s, n, f)

LEMMA FlatExists ==
    ASSUME NEW s, NEW n \in Nat
    PROVE  \E f : f = FlatBody(s, n, f)
<1> DEFINE A == {m \in Nat : \E f : f = FlatBody(s, m, f)}
<1>1. 0 \in A
  <2> DEFINE f == [i \in 1..0 |-> 0]
  <2>1. f = FlatBody(s, 0, f)
    BY DEF FlatBody
  <2> QED
    BY <2>1
<1>2. ASSUME NEW m \in Nat, m \in A PROVE m + 1 \in A
  <2>1. PICK f : f = FlatBody(s, m, f)
    BY <1>2
  <2> DEFINE g == [i \in 1..m + 1 |-> IF i <= m THEN f[i]
                                      ELSE IF i = 1 THEN s[i] ELSE f[m] \o s[i]]
  <2>2. ASSUME NEW i \in 1..m + 1
        PROVE  g[i] = IF i = 1 THEN s[i] ELSE g[i - 1] \o s[i]
    <3>1. CASE i <= m
      <4>1. f[i] = IF i = 1 THEN s[i] ELSE f[i - 1] \o s[i]
        <5>1. i \in 1..m
          BY <3>1
        <5> QED
          BY <2>1, <5>1 DEF FlatBody
      <4>2. g[i] = f[i]
        BY <3>1
      <4>3. i # 1 => g[i - 1] = f[i - 1]
        BY <3>1
      <4> HIDE DEF g
      <4> QED
        BY <4>1, <4>2, <4>3
    <3>2. CASE i = m + 1
      <4>1. ~(i <= m) /\ i - 1 = m
        BY <3>2
      <4>2. g[i] = IF i = 1 THEN s[i] ELSE f[m] \o s[i]
        BY <4>1
      <4>3. i # 1 => g[m] = f[m]
        <5>1. i # 1 => m \in 1..m + 1 /\ m <= m
          BY <3>2
        <5> QED
          BY <5>1
      <4> HIDE DEF g
      <4> QED
        BY <4>1, <4>2, <4>3
    <3> QED
      BY <3>1, <3>2
  <2>3. g = [i \in 1..m + 1 |-> g[i]]
    OBVIOUS
  <2> HIDE DEF g
  <2>4. g = FlatBody(s, m + 1, g)
    BY <2>2, <2>3 DEF FlatBody
  <2> QED
    BY <2>4
<1> HIDE DEF A
<1>3. n \in A
  BY <1>1, <1>2, SetInduction
<1> QED
  BY <1>3 DEF A

LEMMA FlatIs ==
    ASSUME NEW s, NEW n \in Nat
    PROVE  \A i \in 1..n : Flat(s, n)[i] = IF i = 1 THEN s[i] ELSE Flat(s, n)[i - 1] \o s[i]
<1> DEFINE f == Flat(s, n)
<1>1. f = FlatBody(s, n, f)
  BY FlatExists DEF Flat
<1> HIDE DEF f
<1>2. \A i \in 1..n : f[i] = IF i = 1 THEN s[i] ELSE f[i - 1] \o s[i]
  <2>1. f = [i \in 1..n |-> IF i = 1 THEN s[i] ELSE f[i - 1] \o s[i]]
    BY <1>1 DEF FlatBody
  <2> QED
    BY <2>1
<1> QED
  BY <1>2 DEF f

(* It does not depend on what comes later. *)
LEMMA FlatPrefix ==
    ASSUME NEW s, NEW t, NEW m \in Nat, NEW n \in Nat, m <= n,
           \A i \in 1..m : s[i] = t[i]
    PROVE  \A i \in 1..m : Flat(s, m)[i] = Flat(t, n)[i]
<1> DEFINE f == Flat(s, m)
           g == Flat(t, n)
           A == {k \in Nat : k \in 1..m => f[k] = g[k]}
<1>1. \A i \in 1..m : f[i] = IF i = 1 THEN s[i] ELSE f[i - 1] \o s[i]
  BY FlatIs
<1>2. \A i \in 1..n : g[i] = IF i = 1 THEN t[i] ELSE g[i - 1] \o t[i]
  BY FlatIs
<1> HIDE DEF f, g
<1>3. 0 \in A
  OBVIOUS
<1>4. ASSUME NEW k \in Nat, k \in A PROVE k + 1 \in A
  <2>1. SUFFICES ASSUME k + 1 \in 1..m PROVE f[k + 1] = g[k + 1]
    OBVIOUS
  <2>2. k + 1 \in 1..n /\ s[k + 1] = t[k + 1]
    BY <2>1
  <2>3. PICK j : j = k + 1
    OBVIOUS
  <2>4. j \in 1..m /\ j \in 1..n /\ j - 1 = k /\ s[j] = t[j]
    BY <2>1, <2>2, <2>3
  <2>5. f[j] = (IF j = 1 THEN s[j] ELSE f[k] \o s[j])
        /\ g[j] = (IF j = 1 THEN t[j] ELSE g[k] \o t[j])
    BY <1>1, <1>2, <2>4
  <2>6. j # 1 => f[k] = g[k]
    BY <1>4, <2>4
  <2>7. f[j] = g[j]
    BY <2>4, <2>5, <2>6
  <2> QED
    BY <2>3, <2>7
<1> HIDE DEF A
<1>5. \A k \in Nat : k \in A
  BY <1>3, <1>4, SetInduction
<1>6. \A k \in 1..m : f[k] = g[k]
  BY <1>5 DEF A
<1> QED
  BY <1>6 DEF f, g

LEMMA FlattenIsFlat ==
    ASSUME NEW s, NEW n, n = Len(s), n # 0
    PROVE  FlattenSeq(s) = Flat(s, n)[n]
BY Zenon DEF FlattenSeq, Flat, FlatBody

(* A byte. *)
AnyByte == Nat \cup {One, Zero}
Text == Seq(AnyByte)

LEMMA FlattenNothing == FlattenSeq(<<>>) = <<>>
BY DEF FlattenSeq

LEMMA FlattenType ==
    ASSUME NEW s \in Seq(Text)
    PROVE  FlattenSeq(s) \in Text
<1> DEFINE n == Len(s)
           f == Flat(s, n)
           A == {k \in Nat : k \in 1..n => f[k] \in Text}
<1>1. n \in Nat /\ \A i \in 1..n : s[i] \in Text
  BY LenProperties, ElementOfSeq
<1>2. CASE n = 0
  <2>1. s = <<>>
    BY <1>2, EmptySeq
  <2>2. <<>> \in Text
    BY EmptySeq DEF Text
  <2> QED
    BY <2>1, <2>2, FlattenNothing
<1>3. CASE n # 0
  <2>1. \A i \in 1..n : f[i] = IF i = 1 THEN s[i] ELSE f[i - 1] \o s[i]
    BY <1>1, FlatIs
  <2>2. FlattenSeq(s) = f[n]
    BY <1>3, FlattenIsFlat
  <2> HIDE DEF f, n
  <2>3. 0 \in A
    OBVIOUS
  <2>4. ASSUME NEW k \in Nat, k \in A PROVE k + 1 \in A
    <3>1. SUFFICES ASSUME k + 1 \in 1..n PROVE f[k + 1] \in Text
      OBVIOUS
    <3>2. PICK j : j = k + 1
      OBVIOUS
    <3>3. j \in 1..n /\ j - 1 = k
      BY <3>1, <3>2
    <3>4. f[j] = (IF j = 1 THEN s[j] ELSE f[k] \o s[j]) /\ s[j] \in Text
      BY <1>1, <2>1, <3>3
    <3>5. j # 1 => f[k] \in Text
      BY <1>1, <2>4, <3>3
    <3>6. f[j] \in Text
      BY <3>4, <3>5, ConcatProperties DEF Text
    <3> QED
      BY <3>2, <3>6
  <2> HIDE DEF A
  <2>5. \A k \in Nat : k \in A
    BY <2>3, <2>4, SetInduction
  <2>6. f[n] \in Text
    BY <1>1, <1>3, <2>5 DEF A
  <2> QED
    BY <2>2, <2>6
<1> QED
  BY <1>2, <1>3

LEMMA FlattenAppend ==
    ASSUME NEW s \in Seq(Text), NEW b \in Text
    PROVE  FlattenSeq(Append(s, b)) = FlattenSeq(s) \o b
<1> DEFINE n == Len(s)
           t == Append(s, b)
<1>1. n \in Nat /\ t \in Seq(Text) /\ Len(t) = n + 1 /\ t[n + 1] = b
      /\ \A i \in 1..n : t[i] = s[i]
  BY LenProperties, AppendProperties
<1> HIDE DEF n, t
<1>2. n + 1 \in Nat /\ n + 1 # 0 /\ n + 1 \in 1..n + 1 /\ n <= n + 1 /\ (n + 1) - 1 = n
  BY <1>1
<1>3. FlattenSeq(t) = Flat(t, n + 1)[n + 1]
  <2>1. PICK k : k = n + 1
    OBVIOUS
  <2>2. FlattenSeq(t) = Flat(t, k)[k]
    BY <1>1, <1>2, <2>1, FlattenIsFlat
  <2> QED
    BY <2>1, <2>2
<1>4. Flat(t, n + 1)[n + 1] = IF n + 1 = 1 THEN t[n + 1] ELSE Flat(t, n + 1)[n] \o t[n + 1]
  <2>1. PICK k \in Nat : k = n + 1
    BY <1>2
  <2>2. Flat(t, k)[k] = IF k = 1 THEN t[k] ELSE Flat(t, k)[k - 1] \o t[k]
    BY <1>2, <2>1, FlatIs
  <2>3. k - 1 = n
    BY <1>1, <2>1
  <2> QED
    BY <2>1, <2>2, <2>3
<1>5. CASE n = 0
  <2>1. s = <<>>
    BY <1>5, EmptySeq DEF n
  <2>2. FlattenSeq(t) = b
    BY <1>1, <1>3, <1>4, <1>5
  <2>3. <<>> \o b = b
    BY ConcatEmptySeq DEF Text
  <2> QED
    BY <2>1, <2>2, <2>3, FlattenNothing DEF t
<1>6. CASE n # 0
  <2>1. n + 1 # 1 /\ n \in 1..n
    BY <1>1, <1>6
  <2>2. FlattenSeq(t) = Flat(t, n + 1)[n] \o b
    BY <1>1, <1>3, <1>4, <2>1
  <2>3. Flat(s, n)[n] = Flat(t, n + 1)[n]
    BY <1>1, <1>2, <2>1, FlatPrefix
  <2>4. FlattenSeq(s) = Flat(s, n)[n]
    BY <1>6, FlattenIsFlat DEF n
  <2> QED
    BY <2>2, <2>3, <2>4 DEF t
<1> QED
  BY <1>5, <1>6

-----------------------------------------------------------------------------
(* The context md has been given the bytes s: they are in its blocks and   *)
(* then in its buffer, which is not full, and length counts the bits of    *)
(* the blocks.                                                             *)
Blocks(md) ==
    /\ md.blocks \in Seq(Text)
    /\ \A i \in 1..Len(md.blocks) : Len(md.blocks[i]) = Block
    /\ \E k \in Nat : Len(FlattenSeq(md.blocks)) = Block * k

Holds(md, s) ==
    /\ DOMAIN md = {"blocks", "buf", "length"}
    /\ Blocks(md) /\ md.buf \in Text /\ Len(md.buf) < Block
    /\ FlattenSeq(md.blocks) \o md.buf = s
    /\ md.length = 8 * Len(FlattenSeq(md.blocks))

LEMMA ShaSizes == Block \in Nat /\ Room \in Nat /\ LenBytes \in Nat /\ Block > 0
                  /\ LenBytes > 0 /\ LenBytes <= Room /\ Room < Block
BY ShaAssumption

LEMMA TextFacts ==
    ASSUME NEW s \in Text, NEW t \in Text
    PROVE  Len(s) \in Nat /\ s \o t \in Text /\ Len(s \o t) = Len(s) + Len(t) /\ <<>> \in Text
           /\ Len(<<>>) = 0 /\ s \o <<>> = s /\ <<>> \o s = s
BY LenProperties, ConcatProperties, EmptySeq, ConcatEmptySeq DEF Text

LEMMA Assoc ==
    ASSUME NEW s \in Text, NEW t \in Text, NEW u \in Text
    PROVE  s \o (t \o u) = (s \o t) \o u
BY ConcatAssociative DEF Text

LEMMA CompressIs ==
    ASSUME NEW md, NEW b \in Text, DOMAIN md = {"blocks", "buf", "length"}, Blocks(md),
           Len(b) = Block
    PROVE  LET c == Compress(md, b) IN
           /\ DOMAIN c = DOMAIN md /\ c.buf = md.buf /\ c.length = md.length /\ Blocks(c)
           /\ FlattenSeq(c.blocks) = FlattenSeq(md.blocks) \o b
           /\ Len(FlattenSeq(c.blocks)) = Len(FlattenSeq(md.blocks)) + Block
<1> DEFINE c == Compress(md, b)
           s == md.blocks
           t == Append(s, b)
<1>1. DOMAIN c = DOMAIN md /\ c.buf = md.buf /\ c.length = md.length /\ c.blocks = t
  <2> HIDE DEF t
  <2>1. c = [md EXCEPT !.blocks = t]
    BY DEF Compress, t
  <2> QED
    BY <2>1
<1>2. s \in Seq(Text) /\ \A i \in 1..Len(s) : Len(s[i]) = Block
  BY DEF Blocks
<1>3. PICK k \in Nat : Len(FlattenSeq(s)) = Block * k
  BY DEF Blocks
<1>4. FlattenSeq(t) = FlattenSeq(s) \o b
  BY <1>2, FlattenAppend
<1>5. FlattenSeq(s) \in Text
  BY <1>2, FlattenType
<1>6. Len(FlattenSeq(t)) = Len(FlattenSeq(s)) + Block
  BY <1>4, <1>5, TextFacts
<1>7. Block * (k + 1) = Block * k + Block /\ k + 1 \in Nat
  BY ShaSizes
<1>8. t \in Seq(Text) /\ \A i \in 1..Len(t) : Len(t[i]) = Block
  <2>1. /\ t \in Seq(Text) /\ Len(t) = Len(s) + 1 /\ t[Len(s) + 1] = b
        /\ \A i \in 1..Len(s) : t[i] = s[i]
    BY <1>2, AppendProperties
  <2>2. Len(s) \in Nat
    BY <1>2, LenProperties
  <2> HIDE DEF s, t
  <2>3. ASSUME NEW i \in 1..Len(t) PROVE Len(t[i]) = Block
    <3>1. i \in 1..Len(s) \/ i = Len(s) + 1
      BY <2>1, <2>2
    <3> QED
      BY <1>2, <2>1, <3>1
  <2> QED
    BY <2>1, <2>3
<1> HIDE DEF c, t, s
<1>9. Blocks(c)
  BY <1>1, <1>3, <1>6, <1>7, <1>8 DEF Blocks
<1> QED
  BY <1>1, <1>4, <1>6, <1>9 DEF c, s

LEMMA CutAt ==
    ASSUME NEW in \in Text, NEW n \in Nat, n <= Len(in)
    PROVE  /\ SubSeq(in, 1, n) \in Text /\ Len(SubSeq(in, 1, n)) = n
           /\ SubSeq(in, n + 1, Len(in)) \in Text
           /\ Len(SubSeq(in, n + 1, Len(in))) = Len(in) - n
           /\ in = SubSeq(in, 1, n) \o SubSeq(in, n + 1, Len(in))
<1>0. Len(in) \in Nat
  BY LenProperties DEF Text
<1> DEFINE x == SubSeq(in, 1, n)
           y == SubSeq(in, n + 1, Len(in))
<1>1. \A i \in 1..Len(in) : in[i] \in AnyByte
  BY ElementOfSeq DEF Text
<1>2. x \in Text /\ Len(x) = n /\ \A i \in 1..n : x[i] = in[i]
  <2>1. \A i \in 1..n : in[i] \in AnyByte
    BY <1>0, <1>1
  <2>2. /\ x \in Text /\ Len(x) = (IF 1 <= n THEN n - 1 + 1 ELSE 0)
        /\ \A i \in 1..n - 1 + 1 : x[i] = in[1 + i - 1]
    BY <2>1, SubSeqProperties DEF Text
  <2> HIDE DEF x
  <2> QED
    BY <2>2
<1>3. y \in Text /\ Len(y) = Len(in) - n /\ \A i \in 1..Len(in) - n : y[i] = in[n + i]
  <2>1. \A i \in n + 1..Len(in) : in[i] \in AnyByte
    BY <1>0, <1>1
  <2>2. n + 1 \in Int /\ Len(in) \in Int
    BY <1>0
  <2>3. /\ y \in Text /\ Len(y) = (IF n + 1 <= Len(in) THEN Len(in) - (n + 1) + 1 ELSE 0)
        /\ \A i \in 1..Len(in) - (n + 1) + 1 : y[i] = in[n + 1 + i - 1]
    BY <2>1, <2>2, SubSeqProperties DEF Text
  <2> HIDE DEF y
  <2>4. Len(y) = Len(in) - n
    BY <1>0, <2>3
  <2>5. ASSUME NEW i \in 1..Len(in) - n PROVE y[i] = in[n + i]
    <3>1. i \in 1..Len(in) - (n + 1) + 1 /\ n + 1 + i - 1 = n + i
      BY <1>0
    <3> QED
      BY <2>3, <3>1
  <2> QED
    BY <2>3, <2>4, <2>5
<1> HIDE DEF x, y
<1>4. /\ x \o y \in Text /\ Len(x \o y) = Len(in)
      /\ \A i \in 1..Len(in) : (x \o y)[i] = IF i <= n THEN x[i] ELSE y[i - n]
  <2>1. /\ x \o y \in Text /\ Len(x \o y) = Len(x) + Len(y)
        /\ \A i \in 1..Len(x) + Len(y) :
              (x \o y)[i] = IF i <= Len(x) THEN x[i] ELSE y[i - Len(x)]
    BY <1>2, <1>3, ConcatProperties DEF Text
  <2>2. Len(x) = n /\ Len(x) + Len(y) = Len(in)
    BY <1>0, <1>2, <1>3
  <2> QED
    BY <2>1, <2>2
<1>5. ASSUME NEW i \in 1..Len(in) PROVE (x \o y)[i] = in[i]
  <2>1. CASE i <= n
    BY <1>0, <1>2, <1>4, <2>1
  <2>2. CASE ~(i <= n)
    <3>1. i - n \in 1..Len(in) - n /\ n + (i - n) = i
      BY <1>0, <2>2
    <3> QED
      BY <1>3, <1>4, <2>2, <3>1
  <2> QED
    BY <2>1, <2>2
<1>6. in = x \o y
  BY <1>4, <1>5, SeqEqual DEF Text
<1> QED
  BY <1>2, <1>3, <1>6 DEF x, y

(* One round of the loop takes a piece x of the input. *)
LEMMA RoundIs ==
    ASSUME NEW md, NEW s \in Text, Holds(md, s), NEW in \in Text, in # <<>>
    PROVE  \E x, y \in Text :
               /\ in = x \o y /\ Len(y) < Len(in)
               /\ UpdateRound(md, in).in = y /\ Holds(UpdateRound(md, in).md, s \o x)
<1> DEFINE r == UpdateRound(md, in)
           f == FlattenSeq(md.blocks)
<1>1. Len(in) \in Nat /\ Len(in) > 0
  BY EmptySeq DEF Text
<1>2. /\ DOMAIN md = {"blocks", "buf", "length"} /\ Blocks(md) /\ md.buf \in Text
      /\ Len(md.buf) \in Nat /\ Len(md.buf) < Block /\ f \in Text /\ Len(f) \in Nat
      /\ s = f \o md.buf /\ md.length = 8 * Len(f)
  BY TextFacts, FlattenType DEF Holds, Blocks
<1> HIDE DEF f
<1>3. CASE md.buf = <<>> /\ Len(in) >= Block
  <2> DEFINE x == SubSeq(in, 1, Block)
             y == SubSeq(in, Block + 1, Len(in))
             c == Compress(md, x)
             d == [c EXCEPT !.length = @ + 8 * Block]
  <2>1. r = [md |-> d, in |-> y]
    BY <1>3 DEF UpdateRound
  <2>2. /\ x \in Text /\ Len(x) = Block /\ y \in Text /\ Len(y) = Len(in) - Block
        /\ in = x \o y
    BY <1>3, ShaSizes, CutAt
  <2>3. Len(y) < Len(in)
    BY <1>1, <2>2, ShaSizes
  <2> HIDE DEF x, y
  <2>4. /\ DOMAIN c = DOMAIN md /\ c.buf = md.buf /\ c.length = md.length /\ Blocks(c)
        /\ FlattenSeq(c.blocks) = f \o x
        /\ Len(FlattenSeq(c.blocks)) = Len(f) + Block
    BY <1>2, <2>2, CompressIs DEF f
  <2> HIDE DEF c
  <2>5. /\ DOMAIN d = {"blocks", "buf", "length"} /\ d.blocks = c.blocks /\ d.buf = <<>>
        /\ d.length = 8 * Len(f) + 8 * Block
    BY <1>2, <1>3, <2>4
  <2> HIDE DEF d
  <2>6. Blocks(d)
    BY <2>4, <2>5 DEF Blocks
  <2>7. s \o x = f \o x
    BY <1>2, <1>3, TextFacts
  <2>8. f \o x \in Text /\ (f \o x) \o <<>> = f \o x /\ <<>> \in Text /\ Len(<<>>) = 0
    BY <1>2, <2>2, TextFacts
  <2>9. FlattenSeq(d.blocks) = f \o x /\ Len(FlattenSeq(d.blocks)) = Len(f) + Block
    BY <2>4, <2>5
  <2>10. d.length = 8 * Len(FlattenSeq(d.blocks))
    BY <1>2, <2>5, <2>9, ShaSizes
  <2>11. Holds(d, s \o x)
    BY <2>5, <2>6, <2>7, <2>8, <2>9, <2>10, ShaSizes DEF Holds
  <2>12. r.md = d /\ r.in = y
    BY <2>1
  <2> HIDE DEF r
  <2>13. r.in = y /\ Holds(r.md, s \o x)
    BY <2>11, <2>12
  <2> QED
    BY <2>2, <2>3, <2>13 DEF r
<1>4. CASE ~(md.buf = <<>> /\ Len(in) >= Block)
  <2> DEFINE n == Smaller(Len(in), Block - Len(md.buf))
             x == SubSeq(in, 1, n)
             y == SubSeq(in, n + 1, Len(in))
             buf == md.buf \o x
             d == IF Len(buf) < Block THEN [md EXCEPT !.buf = buf]
                  ELSE [Compress(md, buf) EXCEPT !.length = @ + 8 * Block, !.buf = <<>>]
  <2>1. r = [md |-> d, in |-> y]
    BY <1>4 DEF UpdateRound
  <2>2. n \in Nat /\ n >= 1 /\ n <= Len(in) /\ Len(md.buf) + n <= Block
    BY <1>1, <1>2, ShaSizes DEF Smaller
  <2> HIDE DEF n
  <2>3. /\ x \in Text /\ Len(x) = n /\ y \in Text /\ Len(y) = Len(in) - n /\ in = x \o y
    BY <2>2, CutAt
  <2>4. Len(y) < Len(in)
    BY <1>1, <2>2, <2>3
  <2> HIDE DEF x, y
  <2>5. buf \in Text /\ Len(buf) = Len(md.buf) + n
    BY <1>2, <2>3, TextFacts
  <2>6. s \o x = f \o buf
    BY <1>2, <2>3, ConcatAssociative DEF Text
  <2> HIDE DEF buf
  <2>7. Holds(d, s \o x)
    <3>1. CASE Len(buf) < Block
      <4>1. d = [md EXCEPT !.buf = buf]
        BY <3>1
      <4>2. /\ DOMAIN d = {"blocks", "buf", "length"} /\ d.blocks = md.blocks /\ d.buf = buf
            /\ d.length = md.length
        BY <1>2, <4>1
      <4> HIDE DEF d
      <4>3. Blocks(d)
        BY <1>2, <4>2 DEF Blocks
      <4> QED
        BY <1>2, <2>5, <2>6, <3>1, <4>2, <4>3 DEF Holds, f
    <3>2. CASE ~(Len(buf) < Block)
      <4> DEFINE c == Compress(md, buf)
      <4>1. Len(buf) = Block
        <5>1. Len(buf) <= Block /\ Len(buf) \in Nat
          BY <1>2, <2>2, <2>5
        <5> QED
          BY <3>2, <5>1, ShaSizes
      <4>2. /\ DOMAIN c = DOMAIN md /\ c.buf = md.buf /\ c.length = md.length /\ Blocks(c)
            /\ FlattenSeq(c.blocks) = f \o buf
            /\ Len(FlattenSeq(c.blocks)) = Len(f) + Block
        BY <1>2, <2>5, <4>1, CompressIs DEF f
      <4>3. d = [c EXCEPT !.length = @ + 8 * Block, !.buf = <<>>]
        BY <3>2
      <4> HIDE DEF c, d
      <4>4. /\ DOMAIN d = {"blocks", "buf", "length"} /\ d.blocks = c.blocks /\ d.buf = <<>>
            /\ d.length = 8 * Len(f) + 8 * Block
        BY <1>2, <4>2, <4>3
      <4>5. Blocks(d)
        BY <4>2, <4>4 DEF Blocks
      <4>6. /\ f \o buf \in Text /\ (f \o buf) \o <<>> = f \o buf /\ <<>> \in Text
            /\ Len(<<>>) = 0
        BY <1>2, <2>5, TextFacts
      <4>7. FlattenSeq(d.blocks) = f \o buf /\ Len(FlattenSeq(d.blocks)) = Len(f) + Block
        BY <4>2, <4>4
      <4>8. d.length = 8 * Len(FlattenSeq(d.blocks))
        BY <1>2, <4>4, <4>7, ShaSizes
      <4> QED
        BY <2>6, <4>4, <4>5, <4>6, <4>7, <4>8, ShaSizes DEF Holds
    <3> QED
      BY <3>1, <3>2
  <2>8. r.md = d /\ r.in = y
    BY <2>1
  <2> HIDE DEF r, d
  <2>9. r.in = y /\ Holds(r.md, s \o x)
    BY <2>7, <2>8
  <2> QED
    BY <2>3, <2>4, <2>9 DEF r
<1> QED
  BY <1>3, <1>4

(* The loop, as a function of the number of rounds. *)
LoopBody(md, input, n, f) ==
    [k \in 0..n |-> IF k = 0 THEN [md |-> md, in |-> input]
                    ELSE IF f[k - 1].in = <<>> THEN f[k - 1]
                    ELSE UpdateRound(f[k - 1].md, f[k - 1].in)]
Loop(md, input, n) == CHOOSE f : f = LoopBody(md, input, n, f)

LEMMA LoopExists ==
    ASSUME NEW md, NEW input, NEW n \in Nat
    PROVE  \E f : f = LoopBody(md, input, n, f)
<1> DEFINE Round(l) == IF l.in = <<>> THEN l ELSE UpdateRound(l.md, l.in)
           start == [md |-> md, in |-> input]
           A == {m \in Nat : \E f : f = LoopBody(md, input, m, f)}
<1>1. 0 \in A
  <2> DEFINE f == [k \in 0..0 |-> start]
  <2>1. f = LoopBody(md, input, 0, f)
    BY DEF LoopBody
  <2> QED
    BY <2>1
<1>2. ASSUME NEW m \in Nat, m \in A PROVE m + 1 \in A
  <2>1. PICK f : f = LoopBody(md, input, m, f)
    BY <1>2
  <2>2. PICK last : last = Round(f[m])
    OBVIOUS
  <2> DEFINE g == [k \in 0..m + 1 |-> IF k <= m THEN f[k] ELSE last]
  <2>3. \A k \in 0..m : f[k] = IF k = 0 THEN start ELSE Round(f[k - 1])
    <3>1. f = [k \in 0..m |-> IF k = 0 THEN start ELSE Round(f[k - 1])]
      BY <2>1 DEF LoopBody
    <3> HIDE DEF start, Round
    <3> QED
      BY <3>1
  <2> HIDE DEF start, Round
  <2>4. ASSUME NEW k \in 0..m + 1
        PROVE  g[k] = IF k = 0 THEN start ELSE Round(g[k - 1])
    <3>1. CASE k <= m
      <4>1. k \in 0..m /\ g[k] = f[k]
        BY <3>1
      <4>2. k # 0 => g[k - 1] = f[k - 1]
        BY <3>1
      <4> HIDE DEF g
      <4> QED
        BY <2>3, <4>1, <4>2
    <3>2. CASE ~(k <= m)
      <4>1. k = m + 1 /\ k - 1 = m /\ k # 0
        BY <3>2
      <4>2. g[k] = last /\ g[m] = f[m]
        BY <4>1
      <4> HIDE DEF g
      <4> QED
        BY <2>2, <4>1, <4>2
    <3> QED
      BY <3>1, <3>2
  <2>5. g = [k \in 0..m + 1 |-> g[k]]
    OBVIOUS
  <2> HIDE DEF g
  <2>6. g = [k \in 0..m + 1 |-> IF k = 0 THEN start ELSE Round(g[k - 1])]
    BY <2>4, <2>5
  <2>7. g = LoopBody(md, input, m + 1, g)
    BY <2>6 DEF LoopBody, start, Round
  <2> QED
    BY <2>7
<1> HIDE DEF A
<1>3. n \in A
  BY <1>1, <1>2, SetInduction
<1> QED
  BY <1>3 DEF A

LEMMA LoopIs ==
    ASSUME NEW md, NEW input, NEW n \in Nat
    PROVE  /\ Loop(md, input, n)[0] = [md |-> md, in |-> input]
           /\ \A k \in 1..n :
                 Loop(md, input, n)[k] =
                     IF Loop(md, input, n)[k - 1].in = <<>> THEN Loop(md, input, n)[k - 1]
                     ELSE UpdateRound(Loop(md, input, n)[k - 1].md, Loop(md, input, n)[k - 1].in)
<1> DEFINE f == Loop(md, input, n)
           Round(l) == IF l.in = <<>> THEN l ELSE UpdateRound(l.md, l.in)
           start == [md |-> md, in |-> input]
<1>1. f = LoopBody(md, input, n, f)
  BY LoopExists DEF Loop
<1> HIDE DEF f
<1>2. f = [k \in 0..n |-> IF k = 0 THEN start ELSE Round(f[k - 1])]
  BY <1>1 DEF LoopBody
<1> HIDE DEF start, Round
<1>3. f[0] = start /\ \A k \in 1..n : f[k] = Round(f[k - 1])
  BY <1>2
<1> QED
  BY <1>3 DEF f, start, Round

LEMMA ShaUpdateIsLoop ==
    ASSUME NEW md, NEW input, NEW n, n = Len(input)
    PROVE  ShaUpdate(md, input) = Loop(md, input, n)[n].md
BY Zenon DEF ShaUpdate, Loop, LoopBody

(* sha512_update: the bytes of the input come after those of before. *)
LEMMA ShaUpdateIs ==
    ASSUME NEW md, NEW s \in Text, Holds(md, s), NEW input \in Text
    PROVE  Holds(ShaUpdate(md, input), s \o input)
<1> DEFINE n == Len(input)
           f == Loop(md, input, n)
           Round(l) == IF l.in = <<>> THEN l ELSE UpdateRound(l.md, l.in)
           Good(k) == \E x, y \in Text :
                          /\ input = x \o y /\ f[k].in = y /\ Holds(f[k].md, s \o x)
                          /\ y = <<>> \/ Len(y) <= n - k
           A == {k \in Nat : k <= n => Good(k)}
<1>1. n \in Nat /\ <<>> \in Text
  BY TextFacts
<1>2. f[0] = [md |-> md, in |-> input] /\ \A k \in 1..n : f[k] = Round(f[k - 1])
  BY <1>1, LoopIs
<1>3. ShaUpdate(md, input) = f[n].md
  BY ShaUpdateIsLoop
<1> HIDE DEF f
<1>4. 0 \in A
  <2>1. input = <<>> \o input /\ s \o <<>> = s
    BY TextFacts
  <2>2. f[0].in = input /\ f[0].md = md
    BY <1>2
  <2>3. Len(input) <= n - 0
    BY <1>1
  <2>4. Holds(f[0].md, s \o <<>>)
    BY <2>1, <2>2
  <2>5. Good(0)
    BY <1>1, <2>1, <2>2, <2>3, <2>4
  <2> QED
    BY <2>5
<1>5. ASSUME NEW k \in Nat, k \in A PROVE k + 1 \in A
  <2> HIDE DEF Good
  <2>1. SUFFICES ASSUME k + 1 <= n PROVE Good(k + 1)
    OBVIOUS
  <2> USE DEF Good
  <2>2. PICK j : j = k + 1
    OBVIOUS
  <2>3. j \in 1..n /\ j - 1 = k /\ k <= n /\ j \in Nat
    BY <1>1, <2>1, <2>2
  <2>4. PICK x, y \in Text :
            /\ input = x \o y /\ f[k].in = y /\ Holds(f[k].md, s \o x)
            /\ y = <<>> \/ Len(y) <= n - k
    BY <1>5, <2>3
  <2>5. f[j] = Round(f[k])
    BY <1>2, <2>3
  <2>6. CASE y = <<>>
    <3>1. f[j] = f[k]
      BY <2>4, <2>5, <2>6
    <3>2. Good(j)
      BY <2>4, <2>6, <3>1
    <3> QED
      BY <2>2, <3>2
  <2>7. CASE y # <<>>
    <3>1. f[j] = UpdateRound(f[k].md, y)
      BY <2>4, <2>5, <2>7
    <3>2. s \o x \in Text
      BY TextFacts
    <3>3. PICK u, v \in Text :
              /\ y = u \o v /\ Len(v) < Len(y)
              /\ UpdateRound(f[k].md, y).in = v
              /\ Holds(UpdateRound(f[k].md, y).md, (s \o x) \o u)
      BY <2>4, <2>7, <3>2, RoundIs
    <3>4. f[j].in = v /\ Holds(f[j].md, (s \o x) \o u)
      BY <3>1, <3>3
    <3>5. x \o u \in Text /\ input = (x \o u) \o v /\ (s \o x) \o u = s \o (x \o u)
      <4>1. x \o u \in Text
        BY TextFacts
      <4>2. input = x \o (u \o v)
        BY <2>4, <3>3
      <4>3. x \o (u \o v) = (x \o u) \o v
        BY Assoc
      <4>4. s \o (x \o u) = (s \o x) \o u
        BY Assoc
      <4> QED
        BY <4>1, <4>2, <4>3, <4>4
    <3>6. Len(v) <= n - j
      <4>1. Len(v) \in Nat /\ Len(y) \in Nat
        BY TextFacts
      <4> QED
        BY <1>1, <2>2, <2>4, <2>7, <3>3, <4>1
    <3>7. Good(j)
      BY <3>4, <3>5, <3>6
    <3> QED
      BY <2>2, <3>7
  <2> QED
    BY <2>6, <2>7
<1>6. \A k \in Nat : k \in A
  <2> HIDE DEF A
  <2> QED
    BY <1>4, <1>5, SetInduction
<1>7. PICK x, y \in Text :
          /\ input = x \o y /\ f[n].in = y /\ Holds(f[n].md, s \o x)
          /\ y = <<>> \/ Len(y) <= n - n
  <2>1. n \in A
    BY <1>1, <1>6
  <2>2. n <= n
    BY <1>1
  <2>3. Good(n)
    <3> HIDE DEF Good
    <3> QED
      BY <2>1, <2>2
  <2> QED
    BY <2>3
<1>8. y = <<>>
  <2>1. SUFFICES ASSUME Len(y) <= n - n PROVE y = <<>>
    BY <1>7
  <2>2. Len(y) \in Nat
    BY TextFacts
  <2>3. Len(y) = 0
    BY <1>1, <2>1, <2>2
  <2> QED
    BY <2>3, EmptySeq DEF Text
<1>9. x = input
  BY <1>7, <1>8, TextFacts
<1> QED
  BY <1>3, <1>7, <1>9

-----------------------------------------------------------------------------
(* The padding. *)

LEMMA Multiple ==
    ASSUME NEW x \in Nat
    PROVE  x % Block = 0 <=> \E k \in Nat : x = Block * k
<1> DEFINE q == x \div Block
           r == x % Block
<1>1. Block \in Nat /\ Block > 0
  BY ShaSizes
<1>2. q \in Int /\ r \in 0..Block - 1 /\ x = Block * q + r
  <2>1. q \in Int
    BY <1>1, SMTT(30)
  <2>2. r \in 0..Block - 1
    BY <1>1, SMTT(30)
  <2>3. x = Block * q + r
    BY <1>1, SMTT(30)
  <2> QED
    BY <2>1, <2>2, <2>3
<1> HIDE DEF q, r
<1>3. ASSUME r = 0 PROVE \E k \in Nat : x = Block * k
  <2>1. x = Block * q
    <3>1. PICK p \in Int : p = Block * q
      BY <1>1, <1>2
    <3> QED
      BY <1>2, <1>3, <3>1
  <2>2. ~(q <= -1)
    <3>1. SUFFICES ASSUME q <= -1 PROVE FALSE
      OBVIOUS
    <3>2. Block * q <= Block * (-1)
      BY <1>1, <1>2, <3>1
    <3> QED
      BY <1>1, <2>1, <3>2
  <2>3. q \in Nat
    BY <1>2, <2>2
  <2> QED
    BY <2>1, <2>3
<1>4. ASSUME NEW k \in Nat, x = Block * k PROVE r = 0
  <2>1. ~(q >= k + 1)
    <3>1. SUFFICES ASSUME q >= k + 1 PROVE FALSE
      OBVIOUS
    <3>2. Block * q >= Block * (k + 1) /\ Block * (k + 1) = Block * k + Block
      BY <1>1, <1>2, <3>1
    <3> QED
      BY <1>1, <1>2, <1>4, <3>2
  <2>2. ~(k >= q + 1)
    <3>1. SUFFICES ASSUME k >= q + 1 PROVE FALSE
      OBVIOUS
    <3>2. Block * k >= Block * (q + 1) /\ Block * (q + 1) = Block * q + Block
      BY <1>1, <1>2, <3>1
    <3> QED
      BY <1>1, <1>2, <1>4, <3>2
  <2>3. q = k
    BY <1>2, <2>1, <2>2
  <2>4. PICK p \in Nat : p = Block * k
    BY <1>1
  <2>5. x = p /\ x = p + r
    BY <1>2, <1>4, <2>3, <2>4
  <2> QED
    BY <1>2, <2>5
<1> QED
  BY <1>3, <1>4 DEF r

(* Within one block's length, one number of zeros fills the last block. *)
LEMMA OneFits ==
    ASSUME NEW w \in Nat, NEW c \in Nat, NEW z \in w..w + Block - 1, (c + z) % Block = 0,
           NEW y \in w..w + Block - 1, (c + y) % Block = 0
    PROVE  z = y
<1>1. /\ Block \in Nat /\ Block > 0 /\ z \in Nat /\ y \in Nat
      /\ c + z \in Nat /\ c + y \in Nat
  BY ShaSizes
<1>2. PICK k \in Nat : c + z = Block * k
  BY <1>1, Multiple
<1>3. PICK m \in Nat : c + y = Block * m
  BY <1>1, Multiple
<1>4. ~(k >= m + 1)
  <2>1. SUFFICES ASSUME k >= m + 1 PROVE FALSE
    OBVIOUS
  <2>2. Block * k >= Block * (m + 1) /\ Block * (m + 1) = Block * m + Block
    BY <1>1, <2>1
  <2> QED
    BY <1>1, <1>2, <1>3, <2>2
<1>5. ~(m >= k + 1)
  <2>1. SUFFICES ASSUME m >= k + 1 PROVE FALSE
    OBVIOUS
  <2>2. Block * m >= Block * (k + 1) /\ Block * (k + 1) = Block * k + Block
    BY <1>1, <2>1
  <2> QED
    BY <1>1, <1>2, <1>3, <2>2
<1>6. k = m
  BY <1>4, <1>5
<1> QED
  BY <1>1, <1>2, <1>3, <1>6

LEMMA ZerosFacts ==
    ASSUME NEW m \in Nat
    PROVE  ShaZeros(m) \in Text /\ Len(ShaZeros(m)) = m
<1>1. ShaZeros(m) \in [1..m -> AnyByte]
  BY DEF ShaZeros, AnyByte
<1>2. ShaZeros(m) \in Text
  BY <1>1, SeqDef DEF Text
<1>3. DOMAIN ShaZeros(m) = 1..m /\ DOMAIN ShaZeros(m) = 1..Len(ShaZeros(m))
      /\ Len(ShaZeros(m)) \in Nat
  BY <1>1, <1>2, LenProperties DEF Text
<1> QED
  BY <1>2, <1>3

LEMMA ZerosConcat ==
    ASSUME NEW m \in Nat, NEW n \in Nat
    PROVE  ShaZeros(m) \o ShaZeros(n) = ShaZeros(m + n)
<1> DEFINE a == ShaZeros(m)
           b == ShaZeros(n)
           c == ShaZeros(m + n)
<1>1. /\ a \in Text /\ Len(a) = m /\ b \in Text /\ Len(b) = n
      /\ c \in Text /\ Len(c) = m + n
  BY ZerosFacts
<1>2. /\ \A i \in 1..m : a[i] = Zero
      /\ \A i \in 1..n : b[i] = Zero
      /\ \A i \in 1..m + n : c[i] = Zero
  BY DEF ShaZeros
<1> HIDE DEF a, b, c
<1>3. /\ a \o b \in Text /\ Len(a \o b) = m + n
      /\ \A i \in 1..m + n : (a \o b)[i] = IF i <= m THEN a[i] ELSE b[i - m]
  BY <1>1, ConcatProperties DEF Text
<1>4. ASSUME NEW i \in 1..m + n PROVE (a \o b)[i] = c[i]
  <2>1. CASE i <= m
    BY <1>2, <1>3, <2>1
  <2>2. CASE ~(i <= m)
    <3>1. i - m \in 1..n
      BY <2>2
    <3> QED
      BY <1>2, <1>3, <2>2, <3>1
  <2> QED
    BY <2>1, <2>2
<1>5. a \o b = c
  BY <1>1, <1>3, <1>4, SeqEqual DEF Text
<1> QED
  BY <1>5 DEF a, b, c

LEMMA MarkFacts ==
    ASSUME NEW b \in Text
    PROVE  /\ <<One>> \in Text /\ Len(<<One>>) = 1
           /\ Append(b, One) = b \o <<One>>
           /\ Append(b, One) \in Text /\ Len(Append(b, One)) = Len(b) + 1
<1>1. One \in AnyByte
  BY DEF AnyByte
<1>2. <<One>> \in Text /\ Len(<<One>>) = 1 /\ <<One>>[1] = One
  BY <1>1 DEF Text
<1>3. /\ Append(b, One) \in Text /\ Len(Append(b, One)) = Len(b) + 1
      /\ \A i \in 1..Len(b) : Append(b, One)[i] = b[i]
      /\ Append(b, One)[Len(b) + 1] = One
  BY <1>1, AppendProperties DEF Text
<1> DEFINE m == <<One>>
           a == Append(b, One)
<1>4. Len(b) \in Nat
  BY TextFacts
<1>5. m \in Text /\ Len(m) = 1 /\ m[1] = One
  BY <1>2
<1>6. /\ a \in Text /\ Len(a) = Len(b) + 1 /\ \A i \in 1..Len(b) : a[i] = b[i]
      /\ a[Len(b) + 1] = One
  BY <1>3
<1> HIDE DEF m, a
<1>7. /\ b \o m \in Text /\ Len(b \o m) = Len(b) + 1
      /\ \A i \in 1..Len(b) + 1 : (b \o m)[i] = IF i <= Len(b) THEN b[i] ELSE m[i - Len(b)]
  <2>1. /\ b \o m \in Text /\ Len(b \o m) = Len(b) + Len(m)
        /\ \A i \in 1..Len(b) + Len(m) :
              (b \o m)[i] = IF i <= Len(b) THEN b[i] ELSE m[i - Len(b)]
    BY <1>5, ConcatProperties DEF Text
  <2>2. Len(b) + Len(m) = Len(b) + 1
    BY <1>5
  <2> QED
    BY <2>1, <2>2
<1>8. ASSUME NEW i \in 1..Len(b) + 1 PROVE a[i] = (b \o m)[i]
  <2>1. CASE i <= Len(b)
    BY <1>4, <1>6, <1>7, <2>1
  <2>2. CASE ~(i <= Len(b))
    <3>1. i = Len(b) + 1 /\ i - Len(b) = 1
      BY <1>4, <2>2
    <3> QED
      BY <1>5, <1>6, <1>7, <2>2, <3>1
  <2> QED
    BY <2>1, <2>2
<1>9. a = b \o m
  BY <1>6, <1>7, <1>8, SeqEqual DEF Text
<1> QED
  BY <1>5, <1>6, <1>9 DEF a, m

LengthOf(x) == [i \in 1..LenBytes |-> x]

LEMMA LengthFacts ==
    ASSUME NEW x \in Nat
    PROVE  LengthOf(x) \in Text /\ Len(LengthOf(x)) = LenBytes
<1>0. LenBytes \in Nat
  BY ShaSizes
<1>1. LengthOf(x) \in [1..LenBytes -> AnyByte]
  BY DEF LengthOf, AnyByte
<1>2. LengthOf(x) \in Text
  BY <1>0, <1>1, SeqDef DEF Text
<1>3. DOMAIN LengthOf(x) = 1..LenBytes /\ DOMAIN LengthOf(x) = 1..Len(LengthOf(x))
      /\ Len(LengthOf(x)) \in Nat
  BY <1>1, <1>2, LenProperties DEF Text
<1> QED
  BY <1>0, <1>2, <1>3

(* The message s, its mark, z zeros and the length, in whole blocks. *)
Padded(s, z) == s \o <<One>> \o ShaZeros(z) \o LengthOf(8 * Len(s))

(* The blocks f hold s, padded so that it takes the fewest of them. *)
IsPadded(f, s) ==
    /\ \A i \in 1..Len(f) : Len(f[i]) = Block
    /\ \E z \in Room - LenBytes..Room - LenBytes + Block - 1 :
          FlattenSeq(f) = Padded(s, z) /\ (Len(s) + 1 + z + LenBytes) % Block = 0

(* The last block, whose first bytes are in the buffer. *)
LEMMA LastBlock ==
    ASSUME NEW md, DOMAIN md = {"blocks", "buf", "length"}, Blocks(md), md.buf \in Text,
           Len(md.buf) <= Block - LenBytes, md.length \in Nat
    PROVE  LET zeros == ShaZeros(Block - LenBytes - Len(md.buf))
               last == md.buf \o zeros \o LengthBytes(md)
               c == Compress(md, last) IN
           /\ Blocks(c)
           /\ FlattenSeq(c.blocks)
                = FlattenSeq(md.blocks) \o md.buf \o zeros \o LengthOf(md.length)
           /\ Len(FlattenSeq(c.blocks)) = Len(FlattenSeq(md.blocks)) + Block
<1> DEFINE n == Block - LenBytes - Len(md.buf)
           z == ShaZeros(n)
           l == LengthOf(md.length)
           last == md.buf \o z \o l
           f == FlattenSeq(md.blocks)
           c == Compress(md, last)
<1>1. n \in Nat /\ Len(md.buf) \in Nat /\ Len(md.buf) + n + LenBytes = Block
  BY ShaSizes, TextFacts
<1>2. f \in Text
  BY FlattenType DEF Blocks
<1>3. z \in Text /\ Len(z) = n /\ l \in Text /\ Len(l) = LenBytes
  BY <1>1, ZerosFacts, LengthFacts
<1>4. LengthBytes(md) = l
  BY DEF LengthBytes, LengthOf
<1> HIDE DEF n, z, l, f
<1>5. md.buf \o z \in Text /\ Len(md.buf \o z) = Len(md.buf) + n
  BY <1>3, TextFacts
<1>6. last \in Text /\ Len(last) = Block
  BY <1>1, <1>3, <1>5, TextFacts
<1>7. f \o last = f \o md.buf \o z \o l
  <2>1. f \o ((md.buf \o z) \o l) = (f \o (md.buf \o z)) \o l
    BY <1>2, <1>3, <1>5, Assoc
  <2>2. f \o (md.buf \o z) = (f \o md.buf) \o z
    BY <1>2, <1>3, Assoc
  <2> QED
    BY <2>1, <2>2
<1> HIDE DEF last
<1>8. /\ Blocks(c) /\ FlattenSeq(c.blocks) = f \o last
      /\ Len(FlattenSeq(c.blocks)) = Len(f) + Block
  BY <1>6, CompressIs DEF f
<1> HIDE DEF c
<1>9. /\ Blocks(c) /\ FlattenSeq(c.blocks) = f \o md.buf \o z \o l
      /\ Len(FlattenSeq(c.blocks)) = Len(f) + Block
  BY <1>7, <1>8
<1> QED
  BY <1>4, <1>9 DEF c, last, f, z, n, l

(* sha512_final: the message is padded, whether or not its last bytes      *)
(* leave room for the length.                                              *)
LEMMA ShaFinalIs ==
    ASSUME NEW md, NEW s \in Text, Holds(md, s)
    PROVE  IsPadded(ShaFinal(md), s)
<1> DEFINE f == FlattenSeq(md.blocks)
           m == <<One>>
           b == Append(md.buf, One)
           sized == [md EXCEPT !.length = @ + 8 * Len(md.buf), !.buf = Append(@, One)]
           flushed == IF Len(sized.buf) <= LastFill THEN sized
                      ELSE [Compress(sized, sized.buf \o ShaZeros(Block - Len(sized.buf)))
                               EXCEPT !.buf = <<>>]
           low == Room - LenBytes
           Done(d, z) ==
               /\ DOMAIN d = {"blocks", "buf", "length"} /\ Blocks(d) /\ d.buf \in Text
               /\ Len(d.buf) <= Block - LenBytes /\ d.length = 8 * Len(s)
               /\ z \in low..low + Block - 1
               /\ FlattenSeq(d.blocks) \o d.buf \o ShaZeros(Block - LenBytes - Len(d.buf))
                    = s \o m \o ShaZeros(z)
               /\ (Len(s) + 1 + z + LenBytes) % Block = 0
<1>1. /\ DOMAIN md = {"blocks", "buf", "length"} /\ Blocks(md) /\ md.buf \in Text
      /\ Len(md.buf) \in Nat /\ Len(md.buf) < Block /\ f \in Text /\ Len(f) \in Nat
      /\ s = f \o md.buf /\ md.length = 8 * Len(f)
  BY TextFacts, FlattenType DEF Holds, Blocks
<1>2. /\ m \in Text /\ b = md.buf \o m /\ b \in Text /\ Len(b) = Len(md.buf) + 1
  BY <1>1, MarkFacts
<1>3. PICK k \in Nat : Len(f) = Block * k
  BY <1>1 DEF Blocks
<1> HIDE DEF f, m, b
<1>4. f \o b = s \o m /\ s \o m \in Text
  <2>1. f \o (md.buf \o m) = (f \o md.buf) \o m
    BY <1>1, <1>2, Assoc
  <2> QED
    BY <1>1, <1>2, <2>1, TextFacts
<1>5. Len(s) = Len(f) + Len(md.buf) /\ Len(s) \in Nat
  BY <1>1, TextFacts
<1>6. /\ DOMAIN sized = {"blocks", "buf", "length"} /\ sized.blocks = md.blocks
      /\ sized.buf = b /\ sized.length = 8 * Len(s)
  <2>1. sized = [md EXCEPT !.length = @ + 8 * Len(md.buf), !.buf = b]
    BY DEF b
  <2> HIDE DEF sized
  <2>2. /\ DOMAIN sized = {"blocks", "buf", "length"} /\ sized.blocks = md.blocks
        /\ sized.buf = b /\ sized.length = md.length + 8 * Len(md.buf)
    BY <1>1, <2>1
  <2> QED
    BY <1>1, <1>5, <2>2
<1> HIDE DEF sized
<1>7. Blocks(sized)
  BY <1>1, <1>6 DEF Blocks
<1>8. low \in Nat /\ LastFill = Block - Room
  BY ShaSizes DEF LastFill
<1>9. ASSUME Len(b) <= LastFill PROVE \E z : Done(flushed, z)
  <2> DEFINE z == Block - LenBytes - Len(b)
  <2>1. z \in Nat /\ z \in low..low + Block - 1 /\ Len(b) + z + LenBytes = Block
    BY <1>1, <1>2, <1>8, <1>9, ShaSizes
  <2>2. Block - LenBytes - Len(sized.buf) = z
    BY <1>6
  <2> HIDE DEF z
  <2>3. (Len(s) + 1 + z + LenBytes) % Block = 0
    <3>1. PICK p \in Nat : p = Block * k
      BY ShaSizes
    <3>2. Block * (k + 1) = p + Block /\ k + 1 \in Nat
      BY <3>1, ShaSizes
    <3>3. Len(s) + 1 + z + LenBytes = p + Block
      <4>1. Len(f) = p
        BY <1>3, <3>1
      <4>2. Len(s) = p + Len(md.buf) /\ Len(b) = Len(md.buf) + 1 /\ Len(md.buf) \in Nat
        BY <1>1, <1>2, <1>5, <4>1
      <4> QED
        <5>1. Block \in Nat /\ LenBytes \in Nat /\ z \in Nat /\ p \in Nat
              /\ Len(b) + z + LenBytes = Block
          BY <2>1, <3>1, ShaSizes
        <5> QED
          BY <4>2, <5>1
    <3>4. PICK x \in Nat : x = Len(s) + 1 + z + LenBytes
      BY <1>5, <2>1, ShaSizes
    <3>5. x = Block * (k + 1)
      BY <3>2, <3>3, <3>4
    <3> QED
      BY <3>2, <3>4, <3>5, Multiple
  <2>4. flushed = sized
    BY <1>6, <1>9
  <2>5. Len(b) <= Block - LenBytes
    BY <1>1, <1>2, <1>8, <1>9, ShaSizes
  <2> HIDE DEF flushed, low
  <2>6. FlattenSeq(sized.blocks) \o sized.buf = s \o m
    BY <1>4, <1>6 DEF f
  <2>7. Done(sized, z)
    BY <1>2, <1>6, <1>7, <2>1, <2>2, <2>3, <2>5, <2>6
  <2> HIDE DEF Done
  <2> QED
    BY <2>4, <2>7
<1>10. ASSUME ~(Len(b) <= LastFill) PROVE \E z : Done(flushed, z)
  <2> DEFINE p == Block - Len(b)
             q == Block - LenBytes
             z == p + q
             full == b \o ShaZeros(p)
             c == Compress(sized, full)
             d == [c EXCEPT !.buf = <<>>]
  <2>1. /\ p \in Nat /\ q \in Nat /\ z \in Nat /\ z \in low..low + Block - 1
        /\ Len(b) + p = Block /\ q + LenBytes = Block
    BY <1>1, <1>2, <1>8, <1>10, ShaSizes
  <2>2. flushed = d
    BY <1>6, <1>10
  <2>3. ShaZeros(p) \o ShaZeros(q) = ShaZeros(z)
    BY <2>1, ZerosConcat
  <2>4. z = p + q
    OBVIOUS
  <2>5. ShaZeros(p) \in Text /\ Len(ShaZeros(p)) = p /\ ShaZeros(q) \in Text
    BY <2>1, ZerosFacts
  <2>6. q - 0 = q /\ 0 <= q
    BY <2>1
  <2>7. Block - LenBytes = q
    OBVIOUS
  <2> HIDE DEF flushed, low, p, q, z
  <2>8. (Len(s) + 1 + z + LenBytes) % Block = 0
    <3>1. PICK n \in Nat : n = Block * k
      BY ShaSizes
    <3>2. Block * (k + 2) = n + Block + Block /\ k + 2 \in Nat
      BY <3>1, ShaSizes
    <3>3. Len(s) + 1 + z + LenBytes = n + Block + Block
      BY <1>1, <1>2, <1>3, <1>5, <2>1, <2>4, <3>1, ShaSizes
    <3>4. PICK x \in Nat : x = Len(s) + 1 + z + LenBytes
      BY <1>5, <2>1, ShaSizes
    <3>5. x = Block * (k + 2)
      BY <3>2, <3>3, <3>4
    <3> QED
      BY <3>2, <3>4, <3>5, Multiple
  <2>9. full \in Text /\ Len(full) = Block
    <3>1. full \in Text /\ Len(full) = Len(b) + Len(ShaZeros(p))
      BY <1>2, <2>5, TextFacts
    <3> QED
      BY <2>1, <2>5, <3>1
  <2> HIDE DEF full
  <2>10. /\ DOMAIN c = DOMAIN sized /\ c.length = sized.length /\ Blocks(c)
         /\ FlattenSeq(c.blocks) = FlattenSeq(sized.blocks) \o full
    BY <1>6, <1>7, <2>9, CompressIs
  <2> HIDE DEF c
  <2>11. /\ DOMAIN d = {"blocks", "buf", "length"} /\ d.blocks = c.blocks /\ d.buf = <<>>
         /\ d.length = 8 * Len(s)
    BY <1>6, <2>10
  <2> HIDE DEF d
  <2>12. Blocks(d)
    BY <2>10, <2>11 DEF Blocks
  <2>13. FlattenSeq(d.blocks) = (s \o m) \o ShaZeros(p)
    <3>1. f \o full = (f \o b) \o ShaZeros(p)
      <4>1. f \o (b \o ShaZeros(p)) = (f \o b) \o ShaZeros(p)
        <5>1. f \in Text /\ b \in Text /\ ShaZeros(p) \in Text
          BY <1>1, <1>2, <2>5
        <5> QED
          BY <5>1, Assoc
      <4> QED
        BY <4>1 DEF full
    <3>2. FlattenSeq(d.blocks) = f \o full
      BY <1>6, <2>10, <2>11 DEF f
    <3> QED
      BY <1>4, <3>1, <3>2
  <2>14. /\ FlattenSeq(d.blocks) \o d.buf = (s \o m) \o ShaZeros(p)
         /\ d.buf \in Text /\ Len(d.buf) = 0
    <3>1. (s \o m) \o ShaZeros(p) \in Text
      BY <1>4, <2>5, TextFacts
    <3>2. ((s \o m) \o ShaZeros(p)) \o <<>> = (s \o m) \o ShaZeros(p)
      BY <3>1, TextFacts
    <3>3. <<>> \in Text /\ Len(<<>>) = 0
      BY <1>4, TextFacts
    <3> QED
      BY <2>11, <2>13, <3>2, <3>3
  <2>15. ((s \o m) \o ShaZeros(p)) \o ShaZeros(q) = s \o m \o ShaZeros(z)
    <3>1. (s \o m) \o (ShaZeros(p) \o ShaZeros(q)) = ((s \o m) \o ShaZeros(p)) \o ShaZeros(q)
      BY <1>4, <2>5, Assoc
    <3> QED
      BY <2>3, <3>1
  <2>16. Block - LenBytes - Len(d.buf) = q /\ Len(d.buf) <= Block - LenBytes
    BY <2>6, <2>7, <2>14
  <2>17. Done(d, z)
    BY <2>1, <2>8, <2>11, <2>12, <2>14, <2>15, <2>16
  <2> HIDE DEF Done
  <2> QED
    BY <2>2, <2>17
<1>11. PICK z : Done(flushed, z)
  BY <1>9, <1>10
<1> DEFINE zeros == ShaZeros(Block - LenBytes - Len(flushed.buf))
           c == Compress(flushed, flushed.buf \o zeros \o LengthBytes(flushed))
<1>12. ShaFinal(md) = c.blocks
  BY DEF ShaFinal, sized
<1> HIDE DEF flushed
<1>13. flushed.length \in Nat
  BY <1>5, <1>11
<1>14. /\ Blocks(c)
       /\ FlattenSeq(c.blocks)
            = FlattenSeq(flushed.blocks) \o flushed.buf \o zeros \o LengthOf(flushed.length)
  BY <1>11, <1>13, LastBlock
<1> HIDE DEF c
<1>15. FlattenSeq(c.blocks) = Padded(s, z)
  BY <1>11, <1>14 DEF Padded, m
<1>16. \A i \in 1..Len(c.blocks) : Len(c.blocks[i]) = Block
  BY <1>14 DEF Blocks
<1> QED
  BY <1>11, <1>12, <1>15, <1>16 DEF IsPadded

-----------------------------------------------------------------------------
(* What holds of the context between two calls; the other three things a   *)
(* behaviour may work on never turn into one.                              *)
HashInv ==
    /\ "unit" \in DOMAIN work
    /\ work.unit = "hash" =>
        /\ DOMAIN work = {"unit", "md", "input", "final"}
        /\ work.input \in Text
        /\ work.final => IsPadded(work.md.blocks, work.input) /\ Len(work.md.buf) < Block
        /\ ~work.final => Holds(work.md, work.input)

LEMMA InitHash == Init => HashInv
<1> SUFFICES ASSUME Init PROVE HashInv
  OBVIOUS
<1>1. CASE FieldInit
  <2>1. work.unit = "field" /\ "unit" \in DOMAIN work
    BY <1>1 DEF FieldInit
  <2> QED
    BY <2>1 DEF HashInv
<1>2. CASE ScalarInit
  <2>1. work.unit = "scalar" /\ "unit" \in DOMAIN work
    BY <1>2 DEF ScalarInit
  <2> QED
    BY <2>1 DEF HashInv
<1>3. CASE MacInit
  <2>1. work.unit = "mac" /\ "unit" \in DOMAIN work
    BY <1>3 DEF MacInit
  <2> QED
    BY <2>1 DEF HashInv
<1>4. CASE HashInit
  <2>1. PICK e \in Text : e = <<>>
    BY EmptySeq DEF Text
  <2>2. /\ DOMAIN work = {"unit", "md", "input", "final"} /\ work.md = ShaInit
        /\ work.input = e /\ work.final = FALSE
    BY <1>4, <2>1 DEF HashInit
  <2>3. Holds(ShaInit, e)
    <3>1. /\ DOMAIN ShaInit = {"blocks", "buf", "length"} /\ ShaInit.blocks = <<>>
          /\ ShaInit.buf = <<>> /\ ShaInit.length = 0
      BY DEF ShaInit
    <3>2. <<>> \in Seq(Text) /\ Len(<<>>) = 0 /\ FlattenSeq(<<>>) = e
      BY <2>1, EmptySeq, FlattenNothing
    <3>3. Block * 0 = 0 /\ 8 * 0 = 0 /\ 0 < Block
      BY ShaSizes
    <3>4. Blocks(ShaInit)
      BY <2>1, <3>1, <3>2, <3>3 DEF Blocks
    <3>5. e \o e = e
      BY <2>1, TextFacts
    <3> QED
      BY <2>1, <3>1, <3>2, <3>3, <3>4, <3>5 DEF Holds
  <2> QED
    BY <2>2, <2>3 DEF HashInv
<1> QED
  BY <1>1, <1>2, <1>3, <1>4 DEF Init

LEMMA HashStep == HashInv /\ [Next]_work => HashInv'
<1> SUFFICES ASSUME HashInv, [Next]_work PROVE HashInv'
  OBVIOUS
<1>0. "unit" \in DOMAIN work
  BY DEF HashInv
<1>1. CASE FieldSum
  <2>1. work'.unit = "field" /\ "unit" \in DOMAIN work'
    BY <1>1 DEF FieldSum, Element
  <2> QED
    BY <2>1 DEF HashInv
<1>2. CASE FieldProduct
  <2>1. work'.unit = "field" /\ "unit" \in DOMAIN work'
    BY <1>2 DEF FieldProduct, Element
  <2> QED
    BY <2>1 DEF HashInv
<1>3. CASE MacBlock
  <2>1. work'.unit = "mac" /\ "unit" \in DOMAIN work'
    BY <1>0, <1>3 DEF MacBlock
  <2> QED
    BY <2>1 DEF HashInv
<1>4. CASE HashUpdate
  <2> DEFINE in == work.input
             size == Len(in)
  <2>1. /\ DOMAIN work = {"unit", "md", "input", "final"} /\ in \in Text
        /\ ~work.final /\ work.unit = "hash" /\ Holds(work.md, in)
    BY <1>4 DEF HashInv, HashUpdate
  <2>2. PICK n \in Pieces :
            work' = [work EXCEPT !.md = ShaUpdate(@, [i \in 1..n |-> size + i]),
                                 !.input = @ \o [i \in 1..n |-> size + i]]
    BY <1>4 DEF HashUpdate
  <2>3. n \in Nat /\ size \in Nat
    BY <2>1, ArithmeticAssumption, TextFacts
  <2> DEFINE piece == [i \in 1..n |-> size + i]
  <2>4. piece \in Text
    <3>1. piece \in [1..n -> AnyByte]
      BY <2>3 DEF AnyByte
    <3> QED
      BY <2>3, <3>1, SeqDef DEF Text
  <2>5. work' = [work EXCEPT !.md = ShaUpdate(@, piece), !.input = @ \o piece]
    BY <2>2
  <2> HIDE DEF piece
  <2>6. /\ DOMAIN work' = {"unit", "md", "input", "final"} /\ work'.unit = "hash"
        /\ work'.md = ShaUpdate(work.md, piece) /\ work'.input = in \o piece
        /\ work'.final = work.final
    BY <2>1, <2>5
  <2>7. in \o piece \in Text /\ Holds(ShaUpdate(work.md, piece), in \o piece)
    <3> HIDE DEF in
    <3> QED
      BY <2>1, <2>4, TextFacts, ShaUpdateIs
  <2> QED
    BY <2>1, <2>6, <2>7 DEF HashInv
<1>5. CASE HashFinal
  <2>1. /\ DOMAIN work = {"unit", "md", "input", "final"} /\ work.input \in Text
        /\ ~work.final /\ work.unit = "hash" /\ Holds(work.md, work.input)
    BY <1>5 DEF HashInv, HashFinal
  <2>2. DOMAIN work.md = {"blocks", "buf", "length"} /\ Len(work.md.buf) < Block
    BY <2>1 DEF Holds
  <2>3. work' = [work EXCEPT !.md.blocks = ShaFinal(work.md), !.final = TRUE]
    BY <1>5 DEF HashFinal
  <2>4. /\ DOMAIN work' = {"unit", "md", "input", "final"} /\ work'.unit = "hash"
        /\ work'.input = work.input /\ work'.final = TRUE
        /\ work'.md.buf = work.md.buf /\ work'.md.blocks = ShaFinal(work.md)
    BY <2>1, <2>2, <2>3
  <2>5. IsPadded(ShaFinal(work.md), work.input)
    BY <2>1, ShaFinalIs
  <2> QED
    BY <2>1, <2>2, <2>4, <2>5 DEF HashInv
<1>6. CASE UNCHANGED work
  BY <1>6 DEF HashInv
<1> QED
  BY <1>1, <1>2, <1>3, <1>4, <1>5, <1>6 DEF Next

LEMMA HashIsPadded == HashInv => PaddedOnce
<1> SUFFICES ASSUME HashInv, work.unit = "hash" PROVE PaddedOnce
  BY DEF PaddedOnce
<1> DEFINE s == work.input
           f == work.md.blocks
           size == Len(s)
           low == Room - LenBytes
           Fits(z) == (size + 1 + z + LenBytes) % Block = 0
           zeros == CHOOSE z \in low..low + Block - 1 : Fits(z)
           padding == [i \in 1..LenBytes |-> 8 * size]
           Right ==
               /\ \A i \in 1..Len(f) : Len(f[i]) = Block
               /\ Len(work.md.buf) < Block
               /\ IF work.final
                  THEN FlattenSeq(f) = s \o <<One>> \o ShaZeros(zeros) \o padding
                  ELSE FlattenSeq(f) \o work.md.buf = s
<1>1. s \in Text /\ size \in Nat
  BY TextFacts DEF HashInv
<1>2. Right => PaddedOnce
  BY DEF PaddedOnce
<1>3. CASE ~work.final
  <2>1. Holds(work.md, s)
    BY <1>3 DEF HashInv
  <2>2. Right
    BY <1>3, <2>1 DEF Holds, Blocks
  <2> QED
    BY <1>2, <2>2
<1>4. CASE work.final
  <2>1. IsPadded(f, s) /\ Len(work.md.buf) < Block
    BY <1>4 DEF HashInv
  <2> HIDE DEF s, f
  <2>2. PICK z \in low..low + Block - 1 : FlattenSeq(f) = Padded(s, z) /\ Fits(z)
    BY <2>1 DEF IsPadded
  <2>3. low \in Nat /\ size + 1 + LenBytes \in Nat
    BY <1>1, ShaSizes
  <2>4. ASSUME NEW y \in low..low + Block - 1, Fits(y) PROVE y = z
    <3>1. /\ size + 1 + z + LenBytes = (size + 1 + LenBytes) + z
          /\ size + 1 + y + LenBytes = (size + 1 + LenBytes) + y
      BY <1>1, <2>3, ShaSizes
    <3> DEFINE c == size + 1 + LenBytes
    <3>2. (c + z) % Block = 0 /\ (c + y) % Block = 0 /\ c \in Nat
      BY <2>2, <2>3, <2>4, <3>1
    <3> HIDE DEF c, low
    <3> QED
      BY <2>2, <2>3, <2>4, <3>2, OneFits
  <2>5. zeros = z
    <3> HIDE DEF Fits, low
    <3>1. zeros \in low..low + Block - 1 /\ Fits(zeros)
      BY <2>2
    <3> QED
      BY <2>4, <3>1
  <2>6. padding = LengthOf(8 * size)
    BY DEF LengthOf
  <2> HIDE DEF zeros, padding
  <2>7. FlattenSeq(f) = s \o <<One>> \o ShaZeros(zeros) \o padding
    BY <2>2, <2>5, <2>6 DEF Padded
  <2>8. \A i \in 1..Len(f) : Len(f[i]) = Block
    BY <2>1 DEF IsPadded
  <2>9. Right
    BY <1>4, <2>1, <2>7, <2>8
  <2> QED
    BY <1>2, <2>9 DEF s, f, zeros, padding
<1> QED
  BY <1>3, <1>4

(* Whatever the sizes of the pieces sha512_update was given, what          *)
(* sha512_final leaves compressed is the message, one mark, the fewest     *)
(* zeros that fill the last block, and the length; and no call leaves the  *)
(* buffer full.                                                            *)
THEOREM PadsOnce == Spec => []PaddedOnce
<1>1. Spec => []HashInv
  BY InitHash, HashStep, PTL DEF Spec
<1> QED
  BY <1>1, HashIsPadded, PTL

-----------------------------------------------------------------------------
(* Remainders. *)
LEMMA RemainderIs ==
    ASSUME NEW m \in Nat, m > 0, NEW x \in Int
    PROVE  x \div m \in Int /\ x % m \in 0..m - 1 /\ x = m * (x \div m) + (x % m)
<1>1. x \div m \in Int
  BY SMTT(30)
<1>2. x % m \in 0..m - 1
  BY SMTT(30)
<1>3. x = m * (x \div m) + (x % m)
  BY SMTT(30)
<1> QED
  BY <1>1, <1>2, <1>3

LEMMA RemainderUnique ==
    ASSUME NEW m \in Nat, m > 0, NEW q \in Int, NEW r \in 0..m - 1, NEW x \in Int, x = m * q + r
    PROVE  x \div m = q /\ x % m = r
<1> DEFINE a == x \div m
           b == x % m
<1>1. a \in Int /\ b \in 0..m - 1 /\ x = m * a + b
  BY RemainderIs
<1> HIDE DEF a, b
<1>2. ~(a >= q + 1)
  <2>1. SUFFICES ASSUME a >= q + 1 PROVE FALSE
    OBVIOUS
  <2>2. m * a >= m * (q + 1) /\ m * (q + 1) = m * q + m
    BY <1>1, <2>1
  <2> QED
    BY <1>1, <2>2
<1>3. ~(q >= a + 1)
  <2>1. SUFFICES ASSUME q >= a + 1 PROVE FALSE
    OBVIOUS
  <2>2. m * q >= m * (a + 1) /\ m * (a + 1) = m * a + m
    BY <1>1, <2>1
  <2> QED
    BY <1>1, <2>2
<1>4. a = q
  BY <1>1, <1>2, <1>3
<1>5. b = r
  <2>1. PICK p \in Int : p = m * q
    OBVIOUS
  <2> QED
    BY <1>1, <1>4, <2>1
<1> QED
  BY <1>4, <1>5 DEF a, b

LEMMA SameRemainder ==
    ASSUME NEW m \in Nat, m > 0, NEW x \in Int, NEW k \in Int
    PROVE  (x + m * k) % m = x % m
<1>1. PICK q \in Int : q = x \div m
  BY RemainderIs
<1>2. PICK r \in 0..m - 1 : r = x % m
  BY RemainderIs
<1>3. x = m * q + r
  BY <1>1, <1>2, RemainderIs
<1>4. x + m * k = m * (q + k) + r /\ q + k \in Int /\ x + m * k \in Int
  BY <1>3
<1>5. (x + m * k) % m = r
  BY <1>4, RemainderUnique
<1> QED
  BY <1>2, <1>5

LEMMA RemainderOfSum ==
    ASSUME NEW m \in Nat, m > 0, NEW x \in Int, NEW y \in Int
    PROVE  ((x % m) + y) % m = (x + y) % m
<1>1. PICK q \in Int : q = x \div m
  BY RemainderIs
<1>2. PICK r \in 0..m - 1 : r = x % m
  BY RemainderIs
<1>3. x = m * q + r
  BY <1>1, <1>2, RemainderIs
<1>4. x + y = (r + y) + m * q /\ r + y \in Int
  BY <1>3
<1>5. (x + y) % m = (r + y) % m
  BY <1>4, SameRemainder
<1> QED
  BY <1>2, <1>5

LEMMA RemainderOfProduct ==
    ASSUME NEW m \in Nat, m > 0, NEW x \in Int, NEW y \in Int
    PROVE  ((x % m) * y) % m = (x * y) % m
<1>1. PICK q \in Int : q = x \div m
  BY RemainderIs
<1>2. PICK r \in 0..m - 1 : r = x % m
  BY RemainderIs
<1>3. x = m * q + r
  BY <1>1, <1>2, RemainderIs
<1>4. x * y = r * y + m * (q * y) /\ r * y \in Int /\ q * y \in Int
  BY <1>3
<1>5. (x * y) % m = (r * y) % m
  BY <1>4, SameRemainder
<1> QED
  BY <1>2, <1>5

(* TimesMod: one doubling for each bit of b. *)
Doubling(a, m, x, n) == (((2 * x) % m) + (IF n % 2 = 1 THEN a % m ELSE 0)) % m
TimesBody(a, b, m, f) ==
    [n \in 0..b |-> IF n = 0 THEN 0
                    ELSE (((2 * f[n \div 2]) % m) + (IF n % 2 = 1 THEN a % m ELSE 0)) % m]
Times(a, b, m) == CHOOSE f : f = TimesBody(a, b, m, f)

LEMMA Halves ==
    ASSUME NEW n \in Nat, n # 0
    PROVE  n \div 2 \in Nat /\ n \div 2 < n /\ n % 2 \in {0, 1} /\ n = 2 * (n \div 2) + (n % 2)
<1> DEFINE h == n \div 2
           r == n % 2
<1>1. h \in Int /\ r \in 0..2 - 1 /\ n = 2 * h + r
  BY RemainderIs
<1> HIDE DEF h, r
<1>2. h \in Nat /\ h < n /\ r \in {0, 1}
  BY <1>1
<1> QED
  BY <1>1, <1>2 DEF h, r

LEMMA TimesExists ==
    ASSUME NEW a, NEW m, NEW b \in Nat
    PROVE  \E f : f = TimesBody(a, b, m, f)
<1> DEFINE Next2(x, n) == Doubling(a, m, x, n)
           A == {k \in Nat : \E f : f = TimesBody(a, k, m, f)}
<1>1. 0 \in A
  <2> DEFINE f == [n \in 0..0 |-> 0]
  <2>1. f = TimesBody(a, 0, m, f)
    BY DEF TimesBody
  <2> QED
    BY <2>1
<1>2. ASSUME NEW k \in Nat, k \in A PROVE k + 1 \in A
  <2>1. PICK f : f = TimesBody(a, k, m, f)
    BY <1>2
  <2>2. PICK last : last = Next2(f[(k + 1) \div 2], k + 1)
    OBVIOUS
  <2> DEFINE g == [n \in 0..k + 1 |-> IF n <= k THEN f[n] ELSE last]
  <2>3. \A n \in 0..k : f[n] = IF n = 0 THEN 0 ELSE Next2(f[n \div 2], n)
    <3>1. f = [n \in 0..k |-> IF n = 0 THEN 0 ELSE Next2(f[n \div 2], n)]
      BY <2>1 DEF TimesBody, Doubling
    <3> HIDE DEF Next2
    <3> QED
      BY <3>1
  <2> HIDE DEF Next2
  <2>4. ASSUME NEW n \in 0..k + 1
        PROVE  g[n] = IF n = 0 THEN 0 ELSE Next2(g[n \div 2], n)
    <3>1. n # 0 => n \div 2 \in 0..k /\ n \div 2 <= k
      BY Halves
    <3>2. n # 0 => g[n \div 2] = f[n \div 2]
      BY <3>1
    <3>3. CASE n <= k
      <4>1. n \in 0..k /\ g[n] = f[n]
        BY <3>3
      <4> HIDE DEF g
      <4> QED
        BY <2>3, <3>2, <4>1
    <3>4. CASE ~(n <= k)
      <4>1. n = k + 1 /\ n # 0
        BY <3>4
      <4>2. g[n] = last
        BY <3>4
      <4> HIDE DEF g
      <4> QED
        BY <2>2, <3>2, <4>1, <4>2
    <3> QED
      BY <3>3, <3>4
  <2>5. g = [n \in 0..k + 1 |-> g[n]]
    OBVIOUS
  <2> HIDE DEF g
  <2>6. g = [n \in 0..k + 1 |-> IF n = 0 THEN 0 ELSE Next2(g[n \div 2], n)]
    BY <2>4, <2>5
  <2>7. g = TimesBody(a, k + 1, m, g)
    BY <2>6 DEF TimesBody, Next2, Doubling
  <2> QED
    BY <2>7
<1> HIDE DEF A
<1>3. b \in A
  BY <1>1, <1>2, SetInduction
<1> QED
  BY <1>3 DEF A

LEMMA DoublingIs ==
    ASSUME NEW a \in Nat, NEW m \in Nat, m > 0, NEW n \in Nat, n # 0
    PROVE  Doubling(a, m, (a * (n \div 2)) % m, n) = (a * n) % m
<1>1. PICK h \in Nat : h = n \div 2
  BY Halves
<1>2. PICK bit \in {0, 1} : bit = n % 2
  BY Halves
<1>3. n = 2 * h + bit
  BY <1>1, <1>2, Halves
<1>4. PICK p \in Int : p = a * h
  OBVIOUS
<1>5. PICK r \in Int : r = p % m
  BY RemainderIs
<1>6. (2 * r) % m = (2 * p) % m
  <2>1. (r * 2) % m = (p * 2) % m
    <3>1. 2 \in Int
      OBVIOUS
    <3>2. ((p % m) * 2) % m = (p * 2) % m
      BY <3>1, RemainderOfProduct
    <3> QED
      BY <1>5, <3>2
  <2>2. r * 2 = 2 * r /\ p * 2 = 2 * p
    OBVIOUS
  <2> QED
    BY <2>1, <2>2
<1>7. PICK c \in Int : c = IF bit = 1 THEN a % m ELSE 0
  <2>1. a % m \in Int
    BY RemainderIs
  <2> QED
    BY <2>1
<1>8. (((2 * p) % m) + c) % m = (2 * p + c) % m
  <2>1. PICK x \in Int : x = 2 * p
    OBVIOUS
  <2>2. ((x % m) + c) % m = (x + c) % m
    BY RemainderOfSum
  <2> QED
    BY <2>1, <2>2
<1>9. (2 * p + c) % m = (a * n) % m
  <2>1. CASE bit = 1
    <3>1. c = a % m
      BY <1>7, <2>1
    <3>2. ((a % m) + 2 * p) % m = (a + 2 * p) % m
      <4>1. PICK x \in Int : x = 2 * p
        OBVIOUS
      <4>2. a \in Int
        OBVIOUS
      <4>3. ((a % m) + x) % m = (a + x) % m
        BY <4>2, RemainderOfSum
      <4> QED
        BY <4>1, <4>3
    <3>3. a * n = a + 2 * p
      <4>1. a * n = a * (2 * h + 1)
        BY <1>3, <2>1
      <4> QED
        BY <1>4, <4>1
    <3>4. 2 * p + c = (a % m) + 2 * p
      BY <3>1
    <3> QED
      BY <3>2, <3>3, <3>4
  <2>2. CASE bit = 0
    <3>1. c = 0
      BY <1>7, <2>2
    <3>2. a * n = 2 * p
      <4>1. a * n = a * (2 * h)
        BY <1>3, <2>2
      <4> QED
        BY <1>4, <4>1
    <3> QED
      BY <3>1, <3>2
  <2> QED
    BY <2>1, <2>2
<1>10. Doubling(a, m, r, n) = (((2 * r) % m) + c) % m
  BY <1>2, <1>7 DEF Doubling
<1> QED
  BY <1>1, <1>4, <1>5, <1>6, <1>8, <1>9, <1>10

LEMMA TimesModIs ==
    ASSUME NEW a \in Nat, NEW b \in Nat, NEW m \in Nat, m > 0
    PROVE  TimesMod(a, b, m) = (a * b) % m
<1> DEFINE f == Times(a, b, m)
           A == {k \in Nat : \A n \in 0..k : n <= b => f[n] = (a * n) % m}
<1>1. f = TimesBody(a, b, m, f)
  BY TimesExists DEF Times
<1>2. TimesMod(a, b, m) = f[b]
  BY Zenon DEF TimesMod, Times, TimesBody
<1> HIDE DEF f
<1>3. \A n \in 0..b : f[n] = IF n = 0 THEN 0 ELSE Doubling(a, m, f[n \div 2], n)
  <2> DEFINE D(x, n) == Doubling(a, m, x, n)
  <2>1. f = [n \in 0..b |-> IF n = 0 THEN 0 ELSE D(f[n \div 2], n)]
    BY <1>1 DEF TimesBody, Doubling
  <2> HIDE DEF D
  <2>2. \A n \in 0..b : f[n] = IF n = 0 THEN 0 ELSE D(f[n \div 2], n)
    BY <2>1
  <2> QED
    BY <2>2 DEF D
<1>4. 0 % m = 0
  <2>1. 0 = m * 0 + 0
    OBVIOUS
  <2> QED
    BY <2>1, RemainderUnique
<1>5. 0 \in A
  <2>1. a * 0 = 0 /\ 0 \in 0..b
    OBVIOUS
  <2>2. f[0] = (a * 0) % m
    BY <1>3, <1>4, <2>1
  <2> QED
    BY <2>2
<1>6. ASSUME NEW k \in Nat, k \in A PROVE k + 1 \in A
  <2>1. SUFFICES ASSUME k + 1 <= b PROVE f[k + 1] = (a * (k + 1)) % m
    <3>1. ASSUME NEW n \in 0..k + 1, n <= b PROVE n \in 0..k \/ n = k + 1
      OBVIOUS
    <3>2. ASSUME NEW n \in 0..k, n <= b PROVE f[n] = (a * n) % m
      BY <1>6, <3>2
    <3> QED
      BY <3>1, <3>2
  <2>2. PICK n \in Nat : n = k + 1
    OBVIOUS
  <2>3. n # 0 /\ n \in 0..b
    BY <2>1, <2>2
  <2>4. PICK h \in Nat : h = n \div 2 /\ h < n
    BY <2>3, Halves
  <2>5. h \in 0..k /\ h <= b
    BY <2>1, <2>2, <2>4
  <2>6. f[h] = (a * h) % m
    BY <1>6, <2>5
  <2>7. f[n] = Doubling(a, m, f[h], n)
    BY <1>3, <2>3, <2>4
  <2>8. f[n] = (a * n) % m
    <3>1. Doubling(a, m, (a * (n \div 2)) % m, n) = (a * n) % m
      BY <2>3, DoublingIs
    <3> QED
      BY <2>4, <2>6, <2>7, <3>1
  <2> QED
    BY <2>2, <2>8
<1> HIDE DEF A
<1>7. b \in A
  BY <1>5, <1>6, SetInduction
<1>8. b \in 0..b /\ b <= b
  OBVIOUS
<1> QED
  BY <1>2, <1>7, <1>8 DEF A

-----------------------------------------------------------------------------
(* Words of Poly1305. *)
Digit == 0..Word - 1
Low(w) == w[1] + Word * (w[2] + Word * (w[3] + Word * w[4]))

LEMMA WordFacts ==
    /\ Word \in Nat /\ Word >= 128 /\ Word > 0
    /\ Full \in Nat /\ Full >= 2 * Word /\ Full > 0
    /\ PolyPrime \in Nat /\ PolyPrime > 0
    /\ \E v \in Nat : Word = 16 * v
<1>1. Word \in Nat /\ Word >= 128 /\ Word % 16 = 0
  BY WordAssumption
<1>2. \E v \in Nat : Word = 16 * v
  <2>1. PICK v \in Int : v = Word \div 16 /\ Word = 16 * v + 0
    BY <1>1, RemainderIs
  <2>2. v \in Nat /\ Word = 16 * v
    BY <1>1, <2>1
  <2> QED
    BY <2>2
<1>3. PICK x \in Nat : x = Word * Word /\ x >= 2 * Word
  <2>1. Word * Word \in Nat
    BY <1>1
  <2>2. Word * Word >= Word * 2
    BY <1>1
  <2> QED
    BY <1>1, <2>1, <2>2
<1>4. PICK y \in Nat : y = x * Word /\ y >= x
  <2>1. x * Word \in Nat /\ x * Word >= x * 1
    BY <1>1
  <2> QED
    BY <2>1
<1>5. PICK z \in Nat : z = y * Word /\ z >= y
  <2>1. y * Word \in Nat /\ y * Word >= y * 1
    BY <1>1
  <2> QED
    BY <2>1
<1>6. Full = z
  BY <1>3, <1>4, <1>5 DEF Full
<1> QED
  BY <1>1, <1>2, <1>3, <1>4, <1>5, <1>6 DEF PolyPrime

(* A sum of 64 bits that is not cut: its low word and what is carried. *)
LEMMA SplitIs ==
    ASSUME NEW x \in Nat, x < Word * Word
    PROVE  /\ Wide(x) = x /\ Lo(x) \in Digit /\ Hi(Wide(x)) \in Digit
           /\ x = Word * Hi(Wide(x)) + Lo(x)
<1>1. Word \in Nat /\ Word > 0
  BY WordFacts
<1>2. Wide(x) = x
  <2>1. PICK m \in Nat : m = Word * Word
    BY <1>1
  <2>2. m > 0 /\ x \in 0..m - 1 /\ x = m * 0 + x
    BY <2>1
  <2>3. x % m = x
    BY <2>2, RemainderUnique
  <2> QED
    BY <2>1, <2>3 DEF Wide
<1>3. /\ x \div Word \in Int /\ x % Word \in 0..Word - 1
      /\ x = Word * (x \div Word) + (x % Word)
  BY <1>1, RemainderIs
<1>4. PICK q \in Int : q = x \div Word
  BY <1>3
<1>5. PICK r \in 0..Word - 1 : r = x % Word
  BY <1>3
<1>6. x = Word * q + r
  BY <1>3, <1>4, <1>5
<1>7. ~(q <= -1)
  <2>1. SUFFICES ASSUME q <= -1 PROVE FALSE
    OBVIOUS
  <2>2. Word * q <= Word * (-1)
    BY <1>1, <2>1
  <2> QED
    BY <1>1, <1>6, <2>2
<1>8. ~(q >= Word)
  <2>1. SUFFICES ASSUME q >= Word PROVE FALSE
    OBVIOUS
  <2>2. Word * q >= Word * Word
    BY <1>1, <2>1
  <2> QED
    BY <1>1, <1>6, <2>2
<1>9. q \in Digit /\ r \in Digit
  BY <1>1, <1>7, <1>8 DEF Digit
<1> QED
  BY <1>2, <1>4, <1>5, <1>6, <1>9 DEF Lo, Hi

(* The carries of four sums lose nothing as long as no sum outgrows 64     *)
(* bits, and what is carried out is as small as the sums are.              *)
LEMMA RippledIs ==
    ASSUME NEW d, NEW h \in 1..Word, \A i \in 1..4 : d[i] \in 0..(Word - 1) * h
    PROVE  LET s == Rippled(d) IN
           /\ s.words \in [1..4 -> Digit]
           /\ s.carry \in Nat /\ s.carry < h
           /\ Low(s.words) + Full * s.carry = Low(d)
<1> DEFINE s == Rippled(d)
           c1 == Hi(Wide(d[1]))
           c2 == Hi(Wide(d[2] + c1))
           c3 == Hi(Wide(d[3] + c2))
           c4 == Hi(Wide(d[4] + c3))
           w1 == Lo(d[1])
           w2 == Lo(d[2] + c1)
           w3 == Lo(d[3] + c2)
           w4 == Lo(d[4] + c3)
<1>1. Word \in Nat /\ Word >= 128
  BY WordFacts
<1>2. PICK t \in Nat : t = (Word - 1) * h
  BY <1>1
<1>3. t <= Word * Word - Word
  <2>1. (Word - 1) * h <= (Word - 1) * Word
    BY <1>1
  <2>2. (Word - 1) * Word = Word * Word - Word
    BY <1>1
  <2> QED
    BY <1>1, <1>2, <2>1, <2>2
<1>4. d[1] \in 0..t /\ d[2] \in 0..t /\ d[3] \in 0..t /\ d[4] \in 0..t
  BY <1>2
(* Each carry is below h. *)
<1>5. ASSUME NEW x \in 0..t, NEW c \in 0..h - 1
      PROVE  /\ Lo(x + c) \in Digit /\ Hi(Wide(x + c)) \in 0..h - 1
             /\ x + c = Word * Hi(Wide(x + c)) + Lo(x + c)
  <2>1. PICK y \in Nat : y = x + c
    OBVIOUS
  <2>2. y < Word * Word
    <3>1. c < Word
      BY <1>1
    <3> QED
      BY <1>1, <1>3, <2>1, <3>1
  <2>3. /\ Lo(y) \in Digit /\ Hi(Wide(y)) \in Digit /\ y = Word * Hi(Wide(y)) + Lo(y)
    BY <2>2, SplitIs
  <2>4. PICK q \in Nat : q = Hi(Wide(y))
    BY <1>1, <2>3 DEF Digit
  <2>5. PICK r \in Nat : r = Lo(y)
    BY <1>1, <2>3 DEF Digit
  <2>6. ~(q >= h)
    <3>1. SUFFICES ASSUME q >= h PROVE FALSE
      OBVIOUS
    <3>2. Word * q >= Word * h
      BY <1>1, <3>1
    <3>3. (Word - 1) * h = Word * h - h
      BY <1>1
    <3>4. PICK p \in Nat : p = Word * h
      BY <1>1
    <3> QED
      BY <1>1, <1>2, <2>1, <2>3, <2>4, <2>5, <3>2, <3>3, <3>4
  <2> QED
    BY <2>1, <2>3, <2>4, <2>6
<1>6. w1 \in Digit /\ c1 \in 0..h - 1 /\ d[1] = Word * c1 + w1
  <2>1. 0 \in 0..h - 1 /\ d[1] + 0 = d[1]
    BY <1>4
  <2> QED
    BY <1>4, <1>5, <2>1
<1> HIDE DEF c1, w1
<1>7. w2 \in Digit /\ c2 \in 0..h - 1 /\ d[2] + c1 = Word * c2 + w2
  BY <1>4, <1>5, <1>6
<1> HIDE DEF c2, w2
<1>8. w3 \in Digit /\ c3 \in 0..h - 1 /\ d[3] + c2 = Word * c3 + w3
  BY <1>4, <1>5, <1>7
<1> HIDE DEF c3, w3
<1>9. w4 \in Digit /\ c4 \in 0..h - 1 /\ d[4] + c3 = Word * c4 + w4
  BY <1>4, <1>5, <1>8
<1> HIDE DEF c4, w4
<1>10. s = [words |-> <<w1, w2, w3, w4>>, carry |-> c4]
  BY DEF Rippled, w1, w2, w3, w4, c1, c2, c3, c4
<1> DEFINE w == <<w1, w2, w3, w4>>
<1>11. s.words = w /\ s.carry = c4
  BY <1>10
<1>12. w \in [1..4 -> Digit] /\ w[1] = w1 /\ w[2] = w2 /\ w[3] = w3 /\ w[4] = w4
  BY <1>6, <1>7, <1>8, <1>9
<1> HIDE DEF w, s
<1>13. /\ w1 + Word * (w2 + Word * (w3 + Word * w4)) + Full * c4
            = d[1] + Word * (d[2] + Word * (d[3] + Word * d[4]))
  <2>1. c1 \in Int /\ c2 \in Int /\ c3 \in Int /\ c4 \in Int
        /\ w1 \in Int /\ w2 \in Int /\ w3 \in Int /\ w4 \in Int
    BY <1>1, <1>6, <1>7, <1>8, <1>9 DEF Digit
  <2>2. d[2] = Word * c2 + w2 - c1
    BY <1>1, <1>4, <1>7, <2>1
  <2>3. d[3] = Word * c3 + w3 - c2
    BY <1>1, <1>4, <1>8, <2>1
  <2>4. d[4] = Word * c4 + w4 - c3
    BY <1>1, <1>4, <1>9, <2>1
  <2> QED
    BY <1>1, <1>6, <2>1, <2>2, <2>3, <2>4 DEF Full
<1>14. Low(w) + Full * c4 = Low(d)
  BY <1>12, <1>13 DEF Low
<1>15. c4 \in Nat /\ c4 < h
  BY <1>9
<1> QED
  BY <1>11, <1>12, <1>14, <1>15 DEF s

(* The accumulator as a number; r as starts leaves it. *)
Value(w) == Low(w) + Full * w[5]
Clamped(r) ==
    /\ r \in [1..4 -> Nat] /\ \A i \in 1..4 : 16 * r[i] < Word
    /\ \A i \in 2..4 : r[i] = 4 * (r[i] \div 4)
IsAcc(w, top) == w \in [1..5 -> Digit] /\ w[5] <= top

LEMMA PolyValueIs ==
    ASSUME NEW w
    PROVE  /\ w \in [1..5 -> Digit] => PolyValue(w) = Value(w)
           /\ w \in [1..4 -> Digit] => PolyValue(w) = Low(w)
<1>0. Word \in Nat
  BY WordFacts
<1>1. ASSUME w \in [1..5 -> Digit] PROVE PolyValue(w) = Value(w)
  <2>1. 5 \in DOMAIN w /\ \A i \in 1..5 : w[i] \in Int
    BY <1>0, <1>1 DEF Digit
  <2>2. w[1] \in Int /\ w[2] \in Int /\ w[3] \in Int /\ w[4] \in Int /\ w[5] \in Int
    BY <2>1
  <2> QED
    BY <1>0, <2>1, <2>2 DEF PolyValue, Value, Low, Full
<1>2. ASSUME w \in [1..4 -> Digit] PROVE PolyValue(w) = Low(w)
  <2>1. ~(5 \in DOMAIN w) /\ \A i \in 1..4 : w[i] \in Int
    BY <1>0, <1>2 DEF Digit
  <2>2. w[1] \in Int /\ w[2] \in Int /\ w[3] \in Int /\ w[4] \in Int
    BY <2>1
  <2> QED
    BY <1>0, <2>1, <2>2 DEF PolyValue, Low
<1> QED
  BY <1>1, <1>2

LEMMA AppendDigit ==
    ASSUME NEW w \in [1..4 -> Digit], NEW x \in Digit
    PROVE  /\ Append(w, x) \in [1..5 -> Digit] /\ Append(w, x)[5] = x
           /\ Low(Append(w, x)) = Low(w)
<1> DEFINE a == Append(w, x)
<1>1. w \in Seq(Digit) /\ 4 \in Nat
  BY SeqDef
<1>2. Len(w) = 4
  <2>1. DOMAIN w = 1..Len(w) /\ Len(w) \in Nat /\ DOMAIN w = 1..4
    BY <1>1, LenProperties
  <2> QED
    BY <2>1
<1>3. /\ a \in Seq(Digit) /\ Len(a) = 5 /\ a[5] = x
      /\ \A i \in 1..4 : a[i] = w[i]
  <2>1. /\ a \in Seq(Digit) /\ Len(a) = Len(w) + 1 /\ a[Len(w) + 1] = x
        /\ \A i \in 1..Len(w) : a[i] = w[i]
    BY <1>1, AppendProperties
  <2> HIDE DEF a
  <2> QED
    BY <1>2, <2>1
<1> HIDE DEF a
<1>4. a \in [1..5 -> Digit]
  BY <1>3, LenProperties
<1>5. Low(a) = Low(w)
  <2>1. a[1] = w[1] /\ a[2] = w[2] /\ a[3] = w[3] /\ a[4] = w[4]
    BY <1>3
  <2> QED
    BY <2>1 DEF Low
<1> QED
  BY <1>3, <1>4, <1>5 DEF a

LEMMA LowType ==
    ASSUME NEW w, \A i \in 1..4 : w[i] \in Digit
    PROVE  Low(w) \in Nat /\ Low(w) < Full
<1>1. Word \in Nat /\ Word >= 128
  BY WordFacts
<1>2. w[1] \in Digit /\ w[2] \in Digit /\ w[3] \in Digit /\ w[4] \in Digit
  OBVIOUS
<1>3. ASSUME NEW d \in Digit, NEW x \in Nat, NEW m \in Nat, x < m
      PROVE  d + Word * x \in Nat /\ d + Word * x < Word * m
  <2>1. Word * (x + 1) <= Word * m /\ Word * (x + 1) = Word * x + Word /\ Word * x \in Nat
    BY <1>1, <1>3
  <2>2. PICK p \in Nat : p = Word * x
    BY <2>1
  <2>3. Word * m \in Nat
    BY <1>1
  <2> QED
    BY <1>1, <2>1, <2>2, <2>3 DEF Digit
<1>4. w[4] \in Nat /\ w[4] < Word
  BY <1>1, <1>2 DEF Digit
<1>5. PICK x \in Nat : x = w[3] + Word * w[4] /\ x < Word * Word
  BY <1>1, <1>2, <1>3, <1>4
<1>6. Word * Word \in Nat /\ Word * (Word * Word) \in Nat
  BY <1>1
<1>7. PICK y \in Nat : y = w[2] + Word * x /\ y < Word * (Word * Word)
  BY <1>2, <1>3, <1>5, <1>6
<1>8. w[1] + Word * y \in Nat /\ w[1] + Word * y < Word * (Word * (Word * Word))
  BY <1>2, <1>3, <1>6, <1>7
<1>9. Full = Word * (Word * (Word * Word))
  BY <1>1 DEF Full
<1> QED
  BY <1>5, <1>7, <1>8, <1>9 DEF Low

(* poly1305_process, first part: acc += block. *)
LEMMA AddBlockIs ==
    ASSUME NEW acc, IsAcc(acc, 4), NEW block \in [1..4 -> Digit], NEW padding \in {0, 1}
    PROVE  LET a == AddBlock(acc, block, padding) IN
           /\ IsAcc(a, 6)
           /\ Value(a) = Value(acc) + Low(block) + padding * Full
<1> DEFINE d == [i \in 1..4 |-> acc[i] + block[i]]
           s == Rippled(d)
           top == acc[5] + s.carry + padding
           a == AddBlock(acc, block, padding)
<1>1. Word \in Nat /\ Word >= 128 /\ Full \in Nat
  BY WordFacts
<1>2. \A i \in 1..5 : acc[i] \in Digit
  BY DEF IsAcc
<1>3. ASSUME NEW i \in 1..4 PROVE d[i] \in 0..(Word - 1) * 2
  <2>1. acc[i] \in Digit /\ block[i] \in Digit /\ d[i] = acc[i] + block[i]
    BY <1>2
  <2> HIDE DEF d
  <2> QED
    BY <1>1, <2>1 DEF Digit
<1>4. Low(d) = Low(acc) + Low(block)
  <2>1. /\ d[1] = acc[1] + block[1] /\ d[2] = acc[2] + block[2]
        /\ d[3] = acc[3] + block[3] /\ d[4] = acc[4] + block[4]
    OBVIOUS
  <2>2. /\ acc[1] \in Int /\ acc[2] \in Int /\ acc[3] \in Int /\ acc[4] \in Int
        /\ block[1] \in Int /\ block[2] \in Int /\ block[3] \in Int /\ block[4] \in Int
    BY <1>1, <1>2 DEF Digit
  <2> HIDE DEF d
  <2> QED
    BY <1>1, <2>1, <2>2 DEF Low
<1> HIDE DEF d
<1>5. /\ s.words \in [1..4 -> Digit] /\ s.carry \in Nat /\ s.carry < 2
      /\ Low(s.words) + Full * s.carry = Low(d)
  <2>1. 2 \in 1..Word
    BY <1>1
  <2> QED
    BY <1>3, <2>1, RippledIs
<1> HIDE DEF s
<1>6. top \in Nat /\ top <= 6 /\ Lo(top) = top /\ top \in Digit
  <2>1. acc[5] \in Nat /\ acc[5] <= 4
    BY <1>1, <1>2 DEF Digit, IsAcc
  <2>2. top \in Nat /\ top <= 6
    BY <1>5, <2>1
  <2> HIDE DEF top
  <2>3. top \in 0..Word - 1 /\ top = Word * 0 + top
    BY <1>1, <2>2
  <2>4. top % Word = top
    BY <1>1, <2>2, <2>3, RemainderUnique
  <2> QED
    BY <2>2, <2>3, <2>4 DEF Lo, Digit
<1>7. a = Append(s.words, top)
  BY <1>6 DEF AddBlock, s, d
<1>8. a \in [1..5 -> Digit] /\ a[5] = top /\ Low(a) = Low(s.words)
  <2> HIDE DEF top, a
  <2>1. /\ Append(s.words, top) \in [1..5 -> Digit] /\ Append(s.words, top)[5] = top
        /\ Low(Append(s.words, top)) = Low(s.words)
    BY <1>5, <1>6, AppendDigit
  <2> QED
    BY <1>7, <2>1
<1>9. Value(a) = Value(acc) + Low(block) + padding * Full
  <2>1. PICK x \in Nat : x = Low(acc)
    BY <1>2, LowType
  <2>2. PICK y \in Nat : y = Low(block)
    BY LowType
  <2>3. PICK z \in Nat : z = Low(s.words)
    BY <1>5, LowType
  <2>4. z = x + y - Full * s.carry
    <3>1. Full * s.carry \in Nat
      BY <1>1, <1>5
    <3> QED
      BY <1>4, <1>5, <2>1, <2>2, <2>3, <3>1
  <2>5. Full * top = Full * acc[5] + Full * s.carry + padding * Full
    <3>1. acc[5] \in Nat
      BY <1>1, <1>2 DEF Digit
    <3> QED
      BY <1>1, <1>5, <3>1
  <2>6. /\ Full * top \in Int /\ Full * acc[5] \in Int /\ Full * s.carry \in Int
        /\ padding * Full \in Int
    <3>1. acc[5] \in Nat
      BY <1>1, <1>2 DEF Digit
    <3> HIDE DEF top
    <3>2. Full * top \in Int
      BY <1>1, <1>6
    <3>3. Full * s.carry \in Int /\ Full * acc[5] \in Int /\ padding * Full \in Int
      BY <1>1, <1>5, <3>1
    <3> QED
      BY <3>2, <3>3
  <2>7. Value(a) = z + Full * top
    BY <1>8, <2>3 DEF Value
  <2>8. Value(acc) = x + Full * acc[5]
    BY <2>1 DEF Value
  <2> HIDE DEF a, top
  <2> QED
    BY <2>2, <2>4, <2>5, <2>6, <2>7, <2>8
<1>10. IsAcc(a, 6)
  BY <1>6, <1>8 DEF IsAcc
<1> QED
  BY <1>9, <1>10

(* mbedtls_poly1305_starts: r is small, and all of its words but the first *)
(* are multiples of four.                                                  *)
LEMMA ClampRIs ==
    ASSUME NEW key \in [1..4 -> Digit]
    PROVE  Clamped(ClampR(key))
<1> DEFINE r == ClampR(key)
<1>1. PICK v \in Nat : Word = 16 * v /\ v > 0 /\ Word \div 16 = v
  <2>1. PICK v \in Nat : Word = 16 * v /\ Word >= 128
    BY WordFacts
  <2>2. v > 0 /\ Word \div 16 = v
    <3>1. Word = 16 * v + 0 /\ 0 \in 0..16 - 1 /\ 16 > 0 /\ Word \in Int
      BY <2>1
    <3>2. Word \div 16 = v
      BY <3>1, RemainderUnique
    <3> QED
      BY <2>1, <3>2
  <2> QED
    BY <2>1, <2>2
<1>2. \A i \in 1..4 : r[i] = IF i = 1 THEN key[i] % v ELSE 4 * ((key[i] % v) \div 4)
  BY <1>1 DEF ClampR
<1>3. DOMAIN r = 1..4
  BY DEF ClampR
<1>4. r = [i \in 1..4 |-> r[i]]
  BY DEF ClampR
<1> HIDE DEF r
<1>5. ASSUME NEW i \in 1..4
      PROVE  /\ r[i] \in Nat /\ r[i] < v
             /\ i # 1 => r[i] = 4 * (r[i] \div 4)
  <2>1. PICK x \in Int : x = key[i]
    BY WordFacts DEF Digit
  <2>2. PICK y \in 0..v - 1 : y = x % v
    BY <1>1, RemainderIs
  <2>3. PICK t \in Int : t = y \div 4
    BY RemainderIs
  <2>4. PICK b \in 0..4 - 1 : b = y % 4 /\ y = 4 * t + b
    BY <2>3, RemainderIs
  <2>5. t \in Nat /\ 4 * t <= y
    BY <2>4
  <2>6. r[i] = IF i = 1 THEN y ELSE 4 * t
    BY <1>2, <2>1, <2>2, <2>3
  <2>7. (4 * t) \div 4 = t
    BY <2>5
  <2> QED
    BY <1>1, <2>5, <2>6, <2>7
<1>6. r \in [1..4 -> Nat]
  BY <1>4, <1>5
<1>7. \A i \in 1..4 : 16 * r[i] < Word
  BY <1>1, <1>5
<1>8. \A i \in 2..4 : r[i] = 4 * (r[i] \div 4)
  BY <1>5
<1> QED
  BY <1>6, <1>7, <1>8 DEF Clamped, r

(* 2^128 of the product are worth five quarters, modulo the prime.         *)
LEMMA ProductFolds ==
    ASSUME NEW w \in Int, NEW a1 \in Int, NEW a2 \in Int, NEW a3 \in Int, NEW a4 \in Int,
           NEW a5 \in Int, NEW r1 \in Int, NEW t2 \in Int, NEW t3 \in Int, NEW t4 \in Int
    PROVE  (a1 + w * (a2 + w * (a3 + w * (a4 + w * a5))))
              * (r1 + w * (4 * t2 + w * (4 * t3 + w * (4 * t4))))
           = ((a1 * r1 + a2 * (5 * t4) + a3 * (5 * t3) + a4 * (5 * t2))
              + w * ((a1 * (4 * t2) + a2 * r1 + a3 * (5 * t4) + a4 * (5 * t3) + a5 * (5 * t2))
              + w * ((a1 * (4 * t3) + a2 * (4 * t2) + a3 * r1 + a4 * (5 * t4) + a5 * (5 * t3))
              + w * (a1 * (4 * t4) + a2 * (4 * t3) + a3 * (4 * t2) + a4 * r1 + a5 * (5 * t4)))))
             + (w * w * w * w) * (a5 * r1)
             + (4 * (w * w * w * w) - 5)
                 * (t4 * (a2 + w * (a3 + w * (a4 + w * a5))) + t3 * (a3 + w * (a4 + w * a5))
                    + t2 * (a4 + w * a5))
OBVIOUS

(* poly1305_process, second part: acc *= r.  No sum outgrows 64 bits, and  *)
(* the fifth word does not outgrow 32.                                     *)
LEMMA TimesRIs ==
    ASSUME NEW acc, IsAcc(acc, 6), NEW r, Clamped(r)
    PROVE  LET a == TimesR(acc, r) IN
           /\ IsAcc(a, Word - 1)
           /\ \E k \in Nat : Value(acc) * Low(r) = Value(a) + PolyPrime * k
<1>1. PICK v \in Nat : Word = 16 * v /\ v >= 8
  <2>1. PICK v \in Nat : Word = 16 * v /\ Word >= 128
    BY WordFacts
  <2> QED
    BY <2>1
<1> DEFINE a1 == acc[1]
           a2 == acc[2]
           a3 == acc[3]
           a4 == acc[4]
           a5 == acc[5]
           r1 == r[1]
           t2 == r[2] \div 4
           t3 == r[3] \div 4
           t4 == r[4] \div 4
<1>2. /\ a1 \in Nat /\ a2 \in Nat /\ a3 \in Nat /\ a4 \in Nat /\ a5 \in Nat
      /\ a1 <= Word - 1 /\ a2 <= Word - 1 /\ a3 <= Word - 1 /\ a4 <= Word - 1 /\ a5 <= 6
  <2>1. \A i \in 1..5 : acc[i] \in Digit
    BY DEF IsAcc
  <2>2. \A i \in 1..5 : acc[i] \in Nat /\ acc[i] <= Word - 1
    BY <1>1, <2>1 DEF Digit
  <2>3. acc[5] <= 6
    BY DEF IsAcc
  <2> QED
    BY <2>2, <2>3
<1>3. /\ r1 \in Nat /\ t2 \in Nat /\ t3 \in Nat /\ t4 \in Nat
      /\ r[2] = 4 * t2 /\ r[3] = 4 * t3 /\ r[4] = 4 * t4
      /\ r1 <= v - 1 /\ 4 * t2 <= v - 1 /\ 4 * t3 <= v - 1 /\ 4 * t4 <= v - 1
  <2>1. \A i \in 1..4 : r[i] \in Nat /\ 16 * r[i] < Word
    BY DEF Clamped
  <2>2. \A i \in 1..4 : r[i] <= v - 1
    BY <1>1, <2>1
  <2>3. ASSUME NEW i \in 2..4
        PROVE  r[i] \div 4 \in Nat /\ r[i] = 4 * (r[i] \div 4)
    <3>1. r[i] \in Nat /\ r[i] = 4 * (r[i] \div 4)
      BY DEF Clamped
    <3>2. PICK t \in Int : t = r[i] \div 4
      BY <3>1, RemainderIs
    <3> QED
      BY <3>1, <3>2
  <2>4. t2 \in Nat /\ r[2] = 4 * t2
    BY <2>3
  <2>5. t3 \in Nat /\ r[3] = 4 * t3
    BY <2>3
  <2>6. t4 \in Nat /\ r[4] = 4 * t4
    BY <2>3
  <2>7. r1 \in Nat /\ r1 <= v - 1 /\ r[2] <= v - 1 /\ r[3] <= v - 1 /\ r[4] <= v - 1
    BY <2>1, <2>2
  <2> QED
    BY <2>4, <2>5, <2>6, <2>7
<1> DEFINE s1 == a1 * r1 + a2 * (5 * t4) + a3 * (5 * t3) + a4 * (5 * t2)
           s2 == a1 * (4 * t2) + a2 * r1 + a3 * (5 * t4) + a4 * (5 * t3) + a5 * (5 * t2)
           s3 == a1 * (4 * t3) + a2 * (4 * t2) + a3 * r1 + a4 * (5 * t4) + a5 * (5 * t3)
           s4 == a1 * (4 * t4) + a2 * (4 * t3) + a3 * (4 * t2) + a4 * r1 + a5 * (5 * t4)
           bound == (Word - 1) * (8 * v)
           d == [k \in 1..4 |-> IF k = 1 THEN s1 ELSE IF k = 2 THEN s2 ELSE IF k = 3 THEN s3 ELSE s4]
           s == Rippled(d)
           top == s.carry + a5 * r1
           a == TimesR(acc, r)
<1> HIDE DEF a1, a2, a3, a4, a5, r1, t2, t3, t4
<1>5. /\ s1 \in Nat /\ s1 <= bound /\ s2 \in Nat /\ s2 <= bound
      /\ s3 \in Nat /\ s3 <= bound /\ s4 \in Nat /\ s4 <= bound
  <2> DEFINE F == 2 * v - 2
             B == (Word - 1) * F
  <2>1. ASSUME NEW x \in Nat, x <= Word - 1, NEW f \in Nat, f <= F
        PROVE  x * f \in Nat /\ x * f <= B
    <3>1. x * f <= (Word - 1) * f
      BY <1>1, <2>1
    <3>2. (Word - 1) * f <= (Word - 1) * F
      BY <1>1, <2>1
    <3>3. x * f \in Nat /\ (Word - 1) * f \in Nat /\ B \in Nat
      BY <1>1
    <3> QED
      BY <3>1, <3>2, <3>3
  <2>2. ASSUME NEW f \in Nat, f <= F PROVE a5 * f \in Nat /\ a5 * f <= 6 * F
    <3>1. a5 * f <= 6 * f
      BY <1>2, <2>2
    <3> QED
      BY <1>1, <1>2, <2>2, <3>1
  <2>3. 4 * B + 6 * F <= bound
    <3>1. B = 2 * ((Word - 1) * v) - 2 * (Word - 1)
      BY <1>1
    <3>2. bound = 8 * ((Word - 1) * v)
      BY <1>1
    <3>3. PICK p \in Nat : p = (Word - 1) * v
      BY <1>1
    <3> HIDE DEF B, bound
    <3> QED
      BY <1>1, <3>1, <3>2, <3>3
  <2>4. /\ r1 <= F /\ 4 * t2 <= F /\ 4 * t3 <= F /\ 4 * t4 <= F
        /\ 5 * t2 <= F /\ 5 * t3 <= F /\ 5 * t4 <= F
    BY <1>1, <1>3
  <2>5. B \in Nat /\ F \in Nat /\ bound \in Nat
    BY <1>1
  <2>6. /\ 4 * t2 \in Nat /\ 4 * t3 \in Nat /\ 4 * t4 \in Nat
        /\ 5 * t2 \in Nat /\ 5 * t3 \in Nat /\ 5 * t4 \in Nat
    BY <1>3
  <2> HIDE DEF B, F, bound
  <2>a. ASSUME NEW p \in Nat, NEW q \in Nat, NEW x \in Nat, NEW y \in Nat, NEW z \in Nat,
               p <= B, q <= B, x <= B, y <= B, z <= 6 * F
        PROVE  p + q + x + y + z \in Nat /\ p + q + x + y + z <= bound
    BY <2>3, <2>5, <2>a
  <2>7. s1 \in Nat /\ s1 <= bound
    <3>1. /\ a1 * r1 \in Nat /\ a1 * r1 <= B
          /\ a2 * (5 * t4) \in Nat /\ a2 * (5 * t4) <= B
          /\ a3 * (5 * t3) \in Nat /\ a3 * (5 * t3) <= B
          /\ a4 * (5 * t2) \in Nat /\ a4 * (5 * t2) <= B
      BY <1>2, <1>3, <2>1, <2>4, <2>6
    <3>2. 0 \in Nat /\ 0 <= 6 * F
      BY <2>5
    <3>3. s1 + 0 \in Nat /\ s1 + 0 <= bound
      BY <2>a, <3>1, <3>2
    <3>4. s1 \in Int
      BY <3>1
    <3> HIDE DEF s1
    <3> QED
      BY <3>3, <3>4
  <2>8. s2 \in Nat /\ s2 <= bound
    <3>1. /\ a1 * (4 * t2) \in Nat /\ a1 * (4 * t2) <= B
          /\ a2 * r1 \in Nat /\ a2 * r1 <= B
          /\ a3 * (5 * t4) \in Nat /\ a3 * (5 * t4) <= B
          /\ a4 * (5 * t3) \in Nat /\ a4 * (5 * t3) <= B
          /\ a5 * (5 * t2) \in Nat /\ a5 * (5 * t2) <= 6 * F
      BY <1>2, <1>3, <2>1, <2>2, <2>4, <2>6
    <3> QED
      BY <2>a, <3>1
  <2>9. s3 \in Nat /\ s3 <= bound
    <3>1. /\ a1 * (4 * t3) \in Nat /\ a1 * (4 * t3) <= B
          /\ a2 * (4 * t2) \in Nat /\ a2 * (4 * t2) <= B
          /\ a3 * r1 \in Nat /\ a3 * r1 <= B
          /\ a4 * (5 * t4) \in Nat /\ a4 * (5 * t4) <= B
          /\ a5 * (5 * t3) \in Nat /\ a5 * (5 * t3) <= 6 * F
      BY <1>2, <1>3, <2>1, <2>2, <2>4, <2>6
    <3> QED
      BY <2>a, <3>1
  <2>10. s4 \in Nat /\ s4 <= bound
    <3>1. /\ a1 * (4 * t4) \in Nat /\ a1 * (4 * t4) <= B
          /\ a2 * (4 * t3) \in Nat /\ a2 * (4 * t3) <= B
          /\ a3 * (4 * t2) \in Nat /\ a3 * (4 * t2) <= B
          /\ a4 * r1 \in Nat /\ a4 * r1 <= B
          /\ a5 * (5 * t4) \in Nat /\ a5 * (5 * t4) <= 6 * F
      BY <1>2, <1>3, <2>1, <2>2, <2>4, <2>6
    <3> QED
      BY <2>a, <3>1
  <2> HIDE DEF s1, s2, s3, s4
  <2> QED
    BY <2>7, <2>8, <2>9, <2>10
<1>6. a5 * r1 \in Nat /\ a5 * r1 <= 6 * (v - 1)
  <2>1. a5 * r1 <= 6 * r1 /\ a5 * r1 \in Nat
    BY <1>2, <1>3
  <2>2. PICK p \in Nat : p = a5 * r1
    BY <2>1
  <2> QED
    BY <1>1, <1>3, <2>1, <2>2
<1> HIDE DEF s1, s2, s3, s4
<1>7. bound < Word * Word
  <2>1. (Word - 1) * (8 * v) <= (Word - 1) * Word
    BY <1>1
  <2>2. (Word - 1) * Word = Word * Word - Word /\ Word * Word \in Nat
    BY <1>1
  <2>3. bound \in Nat
    BY <1>1
  <2>4. PICK p \in Nat : p = Word * Word
    BY <2>2
  <2>5. PICK q \in Nat : q = (Word - 1) * Word
    BY <2>2, <1>1
  <2> HIDE DEF bound
  <2>6. bound <= q
    BY <2>1, <2>5 DEF bound
  <2> QED
    BY <1>1, <2>2, <2>3, <2>4, <2>5, <2>6
<1>8. Wide(s1) = s1 /\ Wide(s2) = s2 /\ Wide(s3) = s3 /\ Wide(s4) = s4
  <2>1. Word * Word \in Nat /\ bound \in Nat
    BY <1>1
  <2> HIDE DEF bound
  <2>2. s1 < Word * Word /\ s2 < Word * Word /\ s3 < Word * Word /\ s4 < Word * Word
    <3>1. PICK p \in Nat : p = Word * Word
      BY <2>1
    <3> QED
      BY <1>5, <1>7, <2>1, <3>1
  <2> QED
    BY <1>5, <2>2, SplitIs
<1>9. ASSUME NEW k \in 1..4 PROVE d[k] \in 0..(Word - 1) * (8 * v)
  <2>1. d[k] \in {s1, s2, s3, s4}
    OBVIOUS
  <2>2. bound \in Nat
    BY <1>1
  <2> HIDE DEF d, bound
  <2>3. d[k] \in 0..bound
    BY <1>5, <2>1, <2>2
  <2> QED
    BY <2>3 DEF bound
<1>10. d[1] = s1 /\ d[2] = s2 /\ d[3] = s3 /\ d[4] = s4
  OBVIOUS
<1>11. a = Append(s.words, Lo(top))
  <2> DEFINE rs(i) == r[i + 1] + (r[i + 1] \div 4)
             factor(i, k) == IF i <= k THEN r[k - i + 1] ELSE rs(4 - (i - k))
             sum(k) == acc[1] * factor(1, k) + acc[2] * factor(2, k)
                         + acc[3] * factor(3, k) + acc[4] * factor(4, k)
                         + (IF k = 1 THEN 0 ELSE acc[5] * rs(k - 1))
             D == [k \in 1..4 |-> Wide(sum(k))]
  <2>1. TimesR(acc, r) = Append(Rippled(D).words, Lo(Rippled(D).carry + acc[5] * r[1]))
    BY DEF TimesR
  <2>2. rs(1) = 5 * t2 /\ rs(2) = 5 * t3 /\ rs(3) = 5 * t4
    <3>1. rs(1) = r[2] + t2 /\ rs(2) = r[3] + t3 /\ rs(3) = r[4] + t4
      BY DEF t2, t3, t4
    <3> HIDE DEF rs
    <3> QED
      BY <1>3, <3>1
  <2> HIDE DEF rs
  <2>3. /\ factor(1, 1) = r1 /\ factor(2, 1) = 5 * t4
        /\ factor(3, 1) = 5 * t3 /\ factor(4, 1) = 5 * t2
    BY <2>2 DEF r1
  <2>4. /\ factor(1, 2) = 4 * t2 /\ factor(2, 2) = r1
        /\ factor(3, 2) = 5 * t4 /\ factor(4, 2) = 5 * t3
    BY <1>3, <2>2 DEF r1
  <2>5. /\ factor(1, 3) = 4 * t3 /\ factor(2, 3) = 4 * t2
        /\ factor(3, 3) = r1 /\ factor(4, 3) = 5 * t4
    BY <1>3, <2>2 DEF r1
  <2>6. /\ factor(1, 4) = 4 * t4 /\ factor(2, 4) = 4 * t3
        /\ factor(3, 4) = 4 * t2 /\ factor(4, 4) = r1
    BY <1>3, <2>2 DEF r1
  <2> HIDE DEF factor
  <2>7. sum(1) = s1
    <3>1. sum(1) = s1 + 0
      BY <2>3 DEF s1, a1, a2, a3, a4
    <3> QED
      BY <1>5, <3>1
  <2>8. sum(2) = s2
    BY <2>2, <2>4 DEF s2, a1, a2, a3, a4, a5
  <2>9. sum(3) = s3
    BY <2>2, <2>5 DEF s3, a1, a2, a3, a4, a5
  <2>10. sum(4) = s4
    BY <2>2, <2>6 DEF s4, a1, a2, a3, a4, a5
  <2> HIDE DEF sum
  <2>11. D = d
    <3>1. ASSUME NEW k \in 1..4 PROVE D[k] = d[k]
      <4>1. k = 1 \/ k = 2 \/ k = 3 \/ k = 4
        OBVIOUS
      <4>2. D[k] = Wide(sum(k))
        OBVIOUS
      <4> HIDE DEF D, d
      <4> QED
        BY <1>8, <1>10, <2>7, <2>8, <2>9, <2>10, <4>1, <4>2
    <3> QED
      BY <3>1
  <2> HIDE DEF D, d
  <2> QED
    BY <2>1, <2>11 DEF a5, r1
<1> HIDE DEF d
<1>12. /\ s.words \in [1..4 -> Digit] /\ s.carry \in Nat /\ s.carry < 8 * v
       /\ Low(s.words) + Full * s.carry = Low(d)
  <2>1. 8 * v \in 1..Word
    BY <1>1
  <2> QED
    BY <1>9, <2>1, RippledIs
<1> HIDE DEF s
<1>13. top \in Digit /\ Lo(top) = top /\ top <= Word - 1
  <2>1. top \in 0..Word - 1
    <3>1. PICK p \in Nat : p = a5 * r1
      BY <1>6
    <3> QED
      BY <1>1, <1>6, <1>12, <3>1
  <2> HIDE DEF top
  <2>2. top = Word * 0 + top /\ top \in Int /\ Word \in Nat /\ Word > 0
    BY <1>1, <2>1
  <2>3. top % Word = top
    BY <2>1, <2>2, RemainderUnique
  <2> QED
    BY <1>1, <2>1, <2>3 DEF Lo, Digit
<1>14. a \in [1..5 -> Digit] /\ a[5] = top /\ Low(a) = Low(s.words)
  <2> HIDE DEF top, a
  <2>1. /\ Append(s.words, top) \in [1..5 -> Digit] /\ Append(s.words, top)[5] = top
        /\ Low(Append(s.words, top)) = Low(s.words)
    BY <1>12, <1>13, AppendDigit
  <2> QED
    BY <1>11, <1>13, <2>1
<1> DEFINE k == t4 * (a2 + Word * (a3 + Word * (a4 + Word * a5)))
                  + t3 * (a3 + Word * (a4 + Word * a5)) + t2 * (a4 + Word * a5)
<1>15. k \in Nat
  BY <1>1, <1>2, <1>3
<1>16. Value(acc) * Low(r) = Low(d) + Full * (a5 * r1) + PolyPrime * k
  <2>1. Low(d) = s1 + Word * (s2 + Word * (s3 + Word * s4))
    BY <1>10 DEF Low
  <2>2. Low(r) = r1 + Word * (4 * t2 + Word * (4 * t3 + Word * (4 * t4)))
    BY <1>3 DEF Low, r1
  <2>3. Value(acc) = a1 + Word * (a2 + Word * (a3 + Word * (a4 + Word * a5)))
    <3>1. Value(acc) = a1 + Word * (a2 + Word * (a3 + Word * a4))
                          + (Word * Word * Word * Word) * a5
      BY DEF Value, Low, Full, a1, a2, a3, a4, a5
    <3> QED
      BY <1>1, <1>2, <3>1
  <2>4. (a1 + Word * (a2 + Word * (a3 + Word * (a4 + Word * a5))))
              * (r1 + Word * (4 * t2 + Word * (4 * t3 + Word * (4 * t4))))
        = (s1 + Word * (s2 + Word * (s3 + Word * s4)))
          + (Word * Word * Word * Word) * (a5 * r1)
          + (4 * (Word * Word * Word * Word) - 5) * k
    <3>1. /\ Word \in Int /\ a1 \in Int /\ a2 \in Int /\ a3 \in Int /\ a4 \in Int /\ a5 \in Int
          /\ r1 \in Int /\ t2 \in Int /\ t3 \in Int /\ t4 \in Int
      BY <1>1, <1>2, <1>3
    <3> QED
      BY <3>1, ProductFolds DEF s1, s2, s3, s4
  <2> HIDE DEF k
  <2> QED
    BY <2>1, <2>2, <2>3, <2>4 DEF Full, PolyPrime
<1> HIDE DEF k
<1>17. Value(acc) * Low(r) = Value(a) + PolyPrime * k
  <2>1. Value(a) = Low(s.words) + Full * top
    BY <1>14 DEF Value
  <2>2. Full * top = Full * s.carry + Full * (a5 * r1)
    <3>1. Full \in Nat
      BY WordFacts
    <3>2. PICK p \in Nat : p = a5 * r1
      BY <1>6
    <3>3. Full * (s.carry + p) = Full * s.carry + Full * p
      BY <1>12, <3>1
    <3> QED
      BY <3>2, <3>3
  <2>3. PICK x \in Nat : x = Low(s.words)
    BY <1>12, LowType
  <2>4. PICK y, z \in Nat : y = Full * s.carry /\ z = Full * (a5 * r1)
    BY <1>6, <1>12, WordFacts
  <2>5. Low(d) = x + y
    BY <1>12, <2>3, <2>4
  <2>6. Value(a) = x + (y + z)
    BY <2>1, <2>2, <2>3, <2>4
  <2>7. Value(acc) * Low(r) = (x + y) + z + PolyPrime * k
    BY <1>16, <2>4, <2>5
  <2> HIDE DEF a
  <2> QED
    BY <2>6, <2>7
<1>18. IsAcc(a, Word - 1)
  BY <1>13, <1>14 DEF IsAcc
<1> QED
  BY <1>15, <1>17, <1>18

(* A number added to the first word is added to the number of the words.   *)
LEMMA AddFirst ==
    ASSUME NEW acc \in [1..5 -> Digit], NEW x \in Nat
    PROVE  LET d == [acc EXCEPT ![1] = @ + x] IN
           /\ d[1] = acc[1] + x /\ d[2] = acc[2] /\ d[3] = acc[3] /\ d[4] = acc[4]
           /\ Low(d) = Low(acc) + x
<1> DEFINE d == [acc EXCEPT ![1] = @ + x]
<1>1. d[1] = acc[1] + x /\ d[2] = acc[2] /\ d[3] = acc[3] /\ d[4] = acc[4]
  OBVIOUS
<1>2. /\ acc[1] \in Int /\ acc[2] \in Int /\ acc[3] \in Int /\ acc[4] \in Int
      /\ Word \in Int
  BY WordFacts DEF Digit
<1> HIDE DEF d
<1>3. Low(d) = Low(acc) + x
  BY <1>1, <1>2 DEF Low
<1> QED
  BY <1>1, <1>3 DEF d

(* poly1305_process, third part: what is above 2^130 comes back five       *)
(* times, and the fifth word is at most 4 again.                           *)
LEMMA PartReducedIs ==
    ASSUME NEW acc, IsAcc(acc, Word - 1)
    PROVE  LET a == PartReduced(acc) IN
           /\ IsAcc(a, 4)
           /\ \E q \in Nat : Value(acc) = Value(a) + PolyPrime * q
<1>1. Word \in Nat /\ Word >= 128 /\ Full \in Nat /\ Full >= 2 * Word
  BY WordFacts
<1>2. \A i \in 1..5 : acc[i] \in Nat /\ acc[i] <= Word - 1
  BY <1>1 DEF IsAcc, Digit
<1>3. PICK top \in Nat : top = acc[5] /\ top <= Word - 1
  BY <1>2
<1>4. PICK q \in Int : q = top \div 4
  BY RemainderIs
<1>5. PICK t \in 0..4 - 1 : t = top % 4 /\ top = 4 * q + t
  BY <1>4, RemainderIs
<1>6. q \in Nat /\ 4 * q <= Word - 1
  BY <1>1, <1>3, <1>4, <1>5
<1> DEFINE d == [acc EXCEPT ![1] = @ + 5 * q]
           s == Rippled(d)
           a == PartReduced(acc)
<1>7. a = Append(s.words, t + s.carry)
  <2>1. acc[1] + q + (top - t) = acc[1] + 5 * q
    BY <1>2, <1>5, <1>6
  <2>2. [acc EXCEPT ![1] = @ + (top \div 4) + (top - (top % 4))] = d
    BY <1>4, <1>5, <2>1
  <2> QED
    BY <1>3, <1>5, <2>2 DEF PartReduced
<1>8. /\ d[1] = acc[1] + 5 * q /\ d[2] = acc[2] /\ d[3] = acc[3] /\ d[4] = acc[4]
      /\ Low(d) = Low(acc) + 5 * q
  <2>1. 5 * q \in Nat /\ acc \in [1..5 -> Digit]
    BY <1>6 DEF IsAcc
  <2> QED
    BY <2>1, AddFirst
<1> HIDE DEF d
<1>9. ASSUME NEW i \in 1..4 PROVE d[i] \in 0..(Word - 1) * 3
  <2>1. i = 1 \/ i = 2 \/ i = 3 \/ i = 4
    OBVIOUS
  <2>2. /\ acc[1] \in 0..Word - 1 /\ acc[2] \in 0..Word - 1
        /\ acc[3] \in 0..Word - 1 /\ acc[4] \in 0..Word - 1
    BY <1>1, <1>2
  <2> QED
    BY <1>1, <1>6, <1>8, <2>1, <2>2
<1>10. /\ s.words \in [1..4 -> Digit] /\ s.carry \in Nat /\ s.carry < 3
       /\ Low(s.words) + Full * s.carry = Low(d)
  <2>1. 3 \in 1..Word
    BY <1>1
  <2> QED
    BY <1>9, <2>1, RippledIs
<1> HIDE DEF s
<1>11. PICK x \in Nat : x = Low(acc) /\ x < Full
  <2>1. \A i \in 1..4 : acc[i] \in Digit
    BY <1>1, <1>2 DEF Digit
  <2> QED
    BY <2>1, LowType
<1>12. PICK y \in Nat : y = Low(s.words)
  BY <1>10, LowType
<1>13. y + Full * s.carry = x + 5 * q
  BY <1>8, <1>10, <1>11, <1>12
<1>14. s.carry \in {0, 1}
  <2>1. SUFFICES ASSUME s.carry = 2 PROVE FALSE
    BY <1>10
  <2>2. y + Full * 2 = x + 5 * q
    BY <1>13, <2>1
  <2> QED
    BY <1>1, <1>6, <1>11, <1>12, <2>2
<1>15. t + s.carry \in Digit /\ t + s.carry <= 4
  BY <1>1, <1>14 DEF Digit
<1>16. a \in [1..5 -> Digit] /\ a[5] = t + s.carry /\ Low(a) = y
  <2> HIDE DEF a
  <2>1. PICK z \in Digit : z = t + s.carry
    BY <1>15
  <2>2. /\ Append(s.words, z) \in [1..5 -> Digit] /\ Append(s.words, z)[5] = z
        /\ Low(Append(s.words, z)) = Low(s.words)
    BY <1>10, AppendDigit
  <2> QED
    BY <1>7, <1>12, <2>1, <2>2
<1> HIDE DEF a
<1>17. Value(acc) = Value(a) + PolyPrime * q
  <2>1. Value(a) = y + Full * (t + s.carry)
    BY <1>16 DEF Value
  <2>2. Value(acc) = x + Full * (4 * q + t)
    BY <1>3, <1>5, <1>11 DEF Value
  <2>3. PolyPrime * q = (4 * Full - 5) * q
    BY DEF PolyPrime
  <2>4. PICK f, g, h \in Int : f = Full * q /\ g = Full * t /\ h = Full * s.carry
    <3>1. Full * q \in Int
      BY <1>1, <1>6
    <3>2. Full * t \in Int
      BY <1>1
    <3>3. Full * s.carry \in Int
      BY <1>1, <1>10
    <3> QED
      BY <3>1, <3>2, <3>3
  <2>5. Full * (t + s.carry) = g + h
    BY <1>1, <1>10, <2>4
  <2>6. Full * (4 * q + t) = 4 * f + g
    BY <1>1, <1>6, <2>4
  <2>7. (4 * Full - 5) * q = 4 * f - 5 * q
    BY <1>1, <1>6, <2>4
  <2>8. y + h = x + 5 * q
    BY <1>13, <2>4
  <2> QED
    BY <1>6, <1>11, <1>12, <2>1, <2>2, <2>3, <2>4, <2>5, <2>6, <2>7, <2>8
<1>18. IsAcc(a, 4)
  BY <1>15, <1>16 DEF IsAcc
<1> QED
  BY <1>6, <1>17, <1>18 DEF a

LEMMA ValueType ==
    ASSUME NEW acc, NEW top, IsAcc(acc, top)
    PROVE  Value(acc) \in Nat
<1>1. acc[5] \in Nat /\ Full \in Nat
  BY WordFacts DEF IsAcc, Digit
<1>2. PICK x \in Nat : x = Low(acc)
  BY LowType DEF IsAcc
<1>3. Full * acc[5] \in Nat
  BY <1>1
<1> QED
  BY <1>2, <1>3 DEF Value

(* poly1305_process: the accumulator stays small, and is the polynomial    *)
(* modulo the prime.                                                       *)
LEMMA ProcessBlockIs ==
    ASSUME NEW acc, IsAcc(acc, 4), NEW r, Clamped(r), NEW block \in [1..4 -> Digit],
           NEW padding \in {0, 1}
    PROVE  LET a == ProcessBlock(acc, r, block, padding) IN
           /\ IsAcc(a, 4)
           /\ Value(a) % PolyPrime
                = ((Value(acc) + Low(block) + padding * Full) * Low(r)) % PolyPrime
<1> DEFINE b == AddBlock(acc, block, padding)
           c == TimesR(b, r)
           a == PartReduced(c)
           total == Value(acc) + Low(block) + padding * Full
<1>1. IsAcc(b, 6) /\ Value(b) = total
  BY AddBlockIs
<1> HIDE DEF b, total
<1>2. IsAcc(c, Word - 1) /\ \E k \in Nat : Value(b) * Low(r) = Value(c) + PolyPrime * k
  BY <1>1, TimesRIs
<1>3. PICK k \in Nat : Value(b) * Low(r) = Value(c) + PolyPrime * k
  BY <1>2
<1> HIDE DEF c
<1>4. IsAcc(a, 4) /\ \E q \in Nat : Value(c) = Value(a) + PolyPrime * q
  BY <1>2, PartReducedIs
<1>5. PICK q \in Nat : Value(c) = Value(a) + PolyPrime * q
  BY <1>4
<1> HIDE DEF a
<1>6. PICK x \in Nat : x = Value(a)
  BY <1>4, ValueType
<1>7. PolyPrime \in Nat /\ PolyPrime > 0
  BY WordFacts
<1>8. total * Low(r) = x + PolyPrime * (q + k)
  <2>1. PICK y, z \in Int : y = PolyPrime * q /\ z = PolyPrime * k
    BY <1>7
  <2>2. PolyPrime * (q + k) = y + z
    BY <1>7, <2>1
  <2>3. total * Low(r) = (x + y) + z
    BY <1>1, <1>3, <1>5, <1>6, <2>1
  <2> QED
    BY <2>1, <2>2, <2>3
<1>9. (x + PolyPrime * (q + k)) % PolyPrime = x % PolyPrime
  <2>1. PICK n \in Int : n = q + k
    OBVIOUS
  <2>2. (x + PolyPrime * n) % PolyPrime = x % PolyPrime
    <3>1. x \in Int /\ n \in Int
      OBVIOUS
    <3> QED
      BY <1>7, <3>1, SameRemainder
  <2> QED
    BY <2>1, <2>2
<1>10. Value(a) % PolyPrime = (total * Low(r)) % PolyPrime
  BY <1>6, <1>8, <1>9
<1>11. a = ProcessBlock(acc, r, block, padding)
  BY DEF ProcessBlock, a, b, c
<1> QED
  BY <1>4, <1>10, <1>11 DEF total

(* poly1305_compute_mac: acc + 5 reaches 2^130 just when acc is not below  *)
(* the prime, and s is added to what is left, modulo 2^128.                *)
LEMMA ComputeMacIs ==
    ASSUME NEW acc, IsAcc(acc, 4), NEW p \in [1..4 -> Digit]
    PROVE  PolyValue(ComputeMac(acc, p))
               = (((Value(acc) % PolyPrime) % Full) + PolyValue(p)) % Full
<1> DEFINE d == [acc EXCEPT ![1] = @ + 5]
           g == Rippled(d)
           reduced == IF acc[5] + g.carry >= 4 THEN g.words ELSE acc
           sum == [i \in 1..4 |-> reduced[i] + p[i]]
           s == Rippled(sum)
<1>1. Word \in Nat /\ Word >= 128 /\ Full \in Nat /\ Full >= 2 * Word /\ Full > 0
  BY WordFacts
<1>2. \A i \in 1..5 : acc[i] \in Digit /\ acc[i] \in 0..Word - 1
  BY DEF IsAcc, Digit
<1>3. ComputeMac(acc, p) = s.words
  BY DEF ComputeMac
<1>4. /\ d[1] = acc[1] + 5 /\ d[2] = acc[2] /\ d[3] = acc[3] /\ d[4] = acc[4]
      /\ Low(d) = Low(acc) + 5
  <2>1. 5 \in Nat /\ acc \in [1..5 -> Digit]
    BY DEF IsAcc
  <2> QED
    BY <2>1, AddFirst
<1> HIDE DEF d
<1>5. ASSUME NEW i \in 1..4 PROVE d[i] \in 0..(Word - 1) * 2
  <2>1. i = 1 \/ i = 2 \/ i = 3 \/ i = 4
    OBVIOUS
  <2>2. /\ acc[1] \in 0..Word - 1 /\ acc[2] \in 0..Word - 1
        /\ acc[3] \in 0..Word - 1 /\ acc[4] \in 0..Word - 1
    BY <1>2
  <2> QED
    BY <1>1, <1>4, <2>1, <2>2
<1>6. /\ g.words \in [1..4 -> Digit] /\ g.carry \in Nat /\ g.carry < 2
      /\ Low(g.words) + Full * g.carry = Low(d)
  <2>1. 2 \in 1..Word
    BY <1>1
  <2> QED
    BY <1>5, <2>1, RippledIs
<1> HIDE DEF g
<1>7. PICK x \in Nat : x = Low(acc) /\ x < Full
  BY <1>2, LowType
<1>8. PICK y \in Nat : y = Low(g.words) /\ y < Full
  BY <1>6, LowType
<1>9. PICK n \in Nat : n = acc[5] /\ n <= 4
  BY <1>1, <1>2 DEF IsAcc
<1>10. y + Full * g.carry = x + 5
  BY <1>4, <1>6, <1>7, <1>8
<1>11. Value(acc) = x + Full * n
  BY <1>7, <1>9 DEF Value
<1>12. /\ \A i \in 1..4 : reduced[i] \in Digit
       /\ Low(reduced) = (Value(acc) % PolyPrime) % Full
  <2>1. PICK f \in Nat : f = Full /\ f >= 256
    BY <1>1
  <2>2. PolyPrime = 4 * f - 5 /\ PolyPrime \in Nat /\ PolyPrime > 0
    BY <2>1 DEF PolyPrime
  <2>3. CASE n + g.carry >= 4
    <3>1. reduced = g.words
      BY <1>9, <2>3
    <3>2. PICK m \in Nat : m = y + Full * (n + g.carry - 4) /\ m < PolyPrime
                           /\ x + Full * n = PolyPrime * 1 + m
      <4>1. (n = 4 /\ g.carry = 0) \/ (n = 4 /\ g.carry = 1) \/ (n = 3 /\ g.carry = 1)
        BY <1>6, <1>9, <2>3
      <4> QED
        BY <1>7, <1>8, <1>10, <2>1, <2>2, <4>1
    <3>3. Value(acc) % PolyPrime = m
      <4>1. m \in 0..PolyPrime - 1 /\ x + Full * n \in Int
        BY <1>1, <2>2, <3>2
      <4> QED
        BY <1>11, <2>2, <3>2, <4>1, RemainderUnique
    <3>4. m % Full = y
      <4>1. PICK k \in Int : k = n + g.carry - 4
        BY <1>6
      <4>2. m = Full * k + y /\ y \in 0..Full - 1
        BY <1>1, <1>8, <3>2, <4>1
      <4> QED
        BY <1>1, <4>2, RemainderUnique
    <3> HIDE DEF reduced
    <3> QED
      BY <1>6, <1>8, <3>1, <3>3, <3>4
  <2>4. CASE ~(n + g.carry >= 4)
    <3>1. reduced = acc
      BY <1>9, <2>4
    <3>2. PICK m \in Nat : m = x + Full * n /\ m < PolyPrime
      <4>1. \/ n = 0 \/ n = 1 \/ n = 2 \/ (n = 3 /\ g.carry = 0)
        BY <1>6, <1>9, <2>4
      <4> QED
        BY <1>7, <1>8, <1>10, <2>1, <2>2, <4>1
    <3>3. Value(acc) % PolyPrime = m
      <4>1. m \in 0..PolyPrime - 1 /\ m = PolyPrime * 0 + m
        BY <2>2, <3>2
      <4>2. m % PolyPrime = m
        BY <2>2, <4>1, RemainderUnique
      <4> QED
        BY <1>11, <3>2, <4>2
    <3>4. m % Full = x
      <4>1. m = Full * n + x /\ x \in 0..Full - 1
        BY <1>1, <1>7, <3>2
      <4> QED
        BY <1>1, <4>1, RemainderUnique
    <3> HIDE DEF reduced
    <3> QED
      BY <1>2, <1>7, <3>1, <3>3, <3>4
  <2> QED
    BY <2>3, <2>4
<1> HIDE DEF reduced
<1>13. /\ sum[1] = reduced[1] + p[1] /\ sum[2] = reduced[2] + p[2]
       /\ sum[3] = reduced[3] + p[3] /\ sum[4] = reduced[4] + p[4]
  OBVIOUS
<1>14. ASSUME NEW i \in 1..4 PROVE sum[i] \in 0..(Word - 1) * 2
  <2>1. reduced[i] \in Digit /\ p[i] \in Digit /\ sum[i] = reduced[i] + p[i]
    BY <1>12
  <2> HIDE DEF sum
  <2> QED
    BY <1>1, <2>1 DEF Digit
<1> HIDE DEF sum
<1>15. Low(sum) = Low(reduced) + Low(p)
  <2>1. /\ reduced[1] \in Int /\ reduced[2] \in Int /\ reduced[3] \in Int /\ reduced[4] \in Int
        /\ p[1] \in Int /\ p[2] \in Int /\ p[3] \in Int /\ p[4] \in Int
    BY <1>1, <1>12 DEF Digit
  <2> QED
    BY <1>1, <1>13, <2>1 DEF Low
<1>16. /\ s.words \in [1..4 -> Digit] /\ s.carry \in Nat /\ s.carry < 2
       /\ Low(s.words) + Full * s.carry = Low(sum)
  <2>1. 2 \in 1..Word
    BY <1>1
  <2> QED
    BY <1>14, <2>1, RippledIs
<1> HIDE DEF s
<1>17. PICK z \in Nat : z = Low(s.words) /\ z < Full
  BY <1>16, LowType
<1>18. PICK u \in Nat : u = Low(reduced)
  BY <1>12, LowType
<1>19. PICK v \in Nat : v = Low(p)
  BY LowType
<1>20. (u + v) % Full = z
  <2>1. u + v = Full * s.carry + z
    <3>1. Full * s.carry \in Nat
      BY <1>1, <1>16
    <3> QED
      BY <1>15, <1>16, <1>17, <1>18, <1>19, <3>1
  <2>2. s.carry \in Int /\ z \in 0..Full - 1 /\ u + v \in Int
    BY <1>1, <1>16, <1>17
  <2> QED
    BY <1>1, <2>1, <2>2, RemainderUnique
<1>21. PolyValue(s.words) = z /\ PolyValue(p) = v
  BY <1>16, <1>17, <1>19, PolyValueIs
<1> QED
  BY <1>3, <1>12, <1>18, <1>20, <1>21

-----------------------------------------------------------------------------
(* The accumulator is the polynomial so far, modulo the prime.             *)
MacInv ==
    /\ "unit" \in DOMAIN work
    /\ work.unit = "mac" =>
        /\ DOMAIN work = {"unit", "r", "s", "acc", "number", "blocks"}
        /\ Clamped(work.r) /\ work.s \in [1..4 -> Digit] /\ IsAcc(work.acc, 4)
        /\ work.number = Value(work.acc) % PolyPrime

LEMMA ClampedType ==
    ASSUME NEW r, Clamped(r)
    PROVE  PolyValue(r) = Low(r) /\ Low(r) \in Nat
<1>1. r \in [1..4 -> Digit]
  <2>1. Word \in Nat /\ Word >= 128
    BY WordFacts
  <2>2. \A i \in 1..4 : r[i] \in Digit
    BY <2>1 DEF Clamped, Digit
  <2>3. r = [i \in 1..4 |-> r[i]]
    BY DEF Clamped
  <2> QED
    BY <2>2, <2>3
<1> QED
  BY <1>1, PolyValueIs, LowType

LEMMA MacInit0 == MacInit => MacInv
<1>1. SUFFICES ASSUME MacInit PROVE MacInv
  OBVIOUS
<1>2. PICK key \in Keys, p \in Pads :
        work = [unit |-> "mac", r |-> ClampR(key), s |-> p, acc |-> PolyZero,
                number |-> 0, blocks |-> 0]
  BY <1>1 DEF MacInit
<1>3. key \in [1..4 -> Digit] /\ p \in [1..4 -> Digit]
  BY ArithmeticAssumption DEF Digit
<1>4. /\ DOMAIN work = {"unit", "r", "s", "acc", "number", "blocks"}
      /\ work.unit = "mac" /\ work.r = ClampR(key) /\ work.s = p /\ work.acc = PolyZero
      /\ work.number = 0
  BY <1>2
<1>5. Clamped(work.r)
  BY <1>3, <1>4, ClampRIs
<1>6. Word \in Nat /\ Word >= 128 /\ Full \in Nat /\ PolyPrime \in Nat /\ PolyPrime > 0
  BY WordFacts
<1>7. IsAcc(PolyZero, 4)
  <2>1. 0 \in Digit
    BY <1>6 DEF Digit
  <2> QED
    BY <2>1 DEF PolyZero, IsAcc
<1>8. Value(PolyZero) = 0
  BY <1>6 DEF PolyZero, Value, Low
<1>9. 0 % PolyPrime = 0
  <2>1. 0 = PolyPrime * 0 + 0 /\ 0 \in 0..PolyPrime - 1
    BY <1>6
  <2> QED
    BY <1>6, <2>1, RemainderUnique
<1> QED
  BY <1>3, <1>4, <1>5, <1>7, <1>8, <1>9 DEF MacInv

LEMMA InitMac == Init => MacInv
<1> SUFFICES ASSUME Init PROVE MacInv
  OBVIOUS
<1>1. CASE FieldInit
  <2>1. "unit" \in DOMAIN work /\ work.unit = "field"
    BY <1>1 DEF FieldInit
  <2> QED
    BY <2>1 DEF MacInv
<1>2. CASE ScalarInit
  <2>1. "unit" \in DOMAIN work /\ work.unit = "scalar"
    BY <1>2 DEF ScalarInit
  <2> QED
    BY <2>1 DEF MacInv
<1>3. CASE MacInit
  BY <1>3, MacInit0
<1>4. CASE HashInit
  <2>1. "unit" \in DOMAIN work /\ work.unit = "hash"
    BY <1>4 DEF HashInit
  <2> QED
    BY <2>1 DEF MacInv
<1> QED
  BY <1>1, <1>2, <1>3, <1>4 DEF Init

(* A block is counted the same way by the limbs and by the number.         *)
LEMMA MacBlockIs ==
    ASSUME NEW acc, IsAcc(acc, 4), NEW r, Clamped(r), NEW block \in [1..4 -> Digit],
           NEW padding \in {0, 1}
    PROVE  TimesMod((Value(acc) % PolyPrime) + PolyValue(block) + padding * Full,
                    PolyValue(r), PolyPrime)
             = Value(ProcessBlock(acc, r, block, padding)) % PolyPrime
<1>1. PolyPrime \in Nat /\ PolyPrime > 0 /\ Full \in Nat
  BY WordFacts
<1>2. PICK x \in Nat : x = Value(acc)
  BY ValueType
<1>3. PICK y \in Nat : y = Low(block) /\ y = PolyValue(block)
  BY LowType, PolyValueIs
<1>4. PICK z \in Nat : z = padding * Full
  BY <1>1
<1>5. PICK u \in Nat : u = Low(r) /\ u = PolyValue(r)
  BY ClampedType
<1>6. PICK m \in 0..PolyPrime - 1 : m = x % PolyPrime
  BY <1>1, RemainderIs
<1>7. PICK n \in Nat : n = y + z
  OBVIOUS
<1>8. m + y + z = m + n /\ x + y + z = x + n
  BY <1>1, <1>7
<1>13. x \in Int /\ n \in Int /\ u \in Int
  OBVIOUS
<1>9. TimesMod(m + n, u, PolyPrime) = ((m + n) * u) % PolyPrime
  <2>1. m + n \in Nat
    BY <1>1
  <2> QED
    BY <1>1, <2>1, TimesModIs
<1>10. (m + n) % PolyPrime = (x + n) % PolyPrime
  BY <1>1, <1>6, <1>13, RemainderOfSum
<1>11. ((m + n) * u) % PolyPrime = ((x + n) * u) % PolyPrime
  <2>1. PICK a, b \in Int : a = m + n /\ b = x + n
    BY <1>1
  <2>2. ((a % PolyPrime) * u) % PolyPrime = (a * u) % PolyPrime
    BY <1>1, <1>13, RemainderOfProduct
  <2>3. ((b % PolyPrime) * u) % PolyPrime = (b * u) % PolyPrime
    BY <1>1, <1>13, RemainderOfProduct
  <2> QED
    BY <1>10, <2>1, <2>2, <2>3
<1>12. Value(ProcessBlock(acc, r, block, padding)) % PolyPrime = ((x + n) * u) % PolyPrime
  <2>1. Value(ProcessBlock(acc, r, block, padding)) % PolyPrime
            = ((Value(acc) + Low(block) + padding * Full) * Low(r)) % PolyPrime
    BY ProcessBlockIs
  <2> QED
    BY <1>2, <1>3, <1>4, <1>5, <1>8, <2>1
<1> QED
  BY <1>2, <1>3, <1>4, <1>5, <1>6, <1>8, <1>9, <1>11, <1>12

LEMMA MacStep == MacInv /\ [Next]_work => MacInv'
<1> SUFFICES ASSUME MacInv, [Next]_work PROVE MacInv'
  OBVIOUS
<1>0. "unit" \in DOMAIN work
  BY DEF MacInv
<1>1. CASE FieldSum
  <2>1. "unit" \in DOMAIN work' /\ work'.unit = "field"
    BY <1>1 DEF FieldSum, Element
  <2> QED
    BY <2>1 DEF MacInv
<1>2. CASE FieldProduct
  <2>1. "unit" \in DOMAIN work' /\ work'.unit = "field"
    BY <1>2 DEF FieldProduct, Element
  <2> QED
    BY <2>1 DEF MacInv
<1>3. CASE MacBlock
  <2>1. PICK block \in PolyBlocks, padding \in {0, 1} :
            work' = [work EXCEPT
                        !.acc = ProcessBlock(@, work.r, block, padding),
                        !.number = TimesMod(@ + PolyValue(block) + padding * Full,
                                            PolyValue(work.r), PolyPrime),
                        !.blocks = @ + 1]
    BY <1>3 DEF MacBlock
  <2>2. /\ DOMAIN work = {"unit", "r", "s", "acc", "number", "blocks"}
        /\ Clamped(work.r) /\ work.s \in [1..4 -> Digit] /\ IsAcc(work.acc, 4)
        /\ work.number = Value(work.acc) % PolyPrime
    BY <1>3 DEF MacInv, MacBlock
  <2>3. block \in [1..4 -> Digit]
    BY ArithmeticAssumption DEF Digit
  <2>4. /\ DOMAIN work' = DOMAIN work /\ work'.unit = work.unit
        /\ work'.r = work.r /\ work'.s = work.s
        /\ work'.acc = ProcessBlock(work.acc, work.r, block, padding)
        /\ work'.number = TimesMod(work.number + PolyValue(block) + padding * Full,
                                   PolyValue(work.r), PolyPrime)
    BY <2>1, <2>2
  <2>5. IsAcc(work'.acc, 4)
    BY <2>2, <2>3, <2>4, ProcessBlockIs
  <2>6. work'.number = Value(work'.acc) % PolyPrime
    BY <2>2, <2>3, <2>4, MacBlockIs
  <2> QED
    BY <2>2, <2>4, <2>5, <2>6 DEF MacInv
<1>4. CASE HashUpdate
  <2>1. DOMAIN work' = DOMAIN work /\ work'.unit = "hash"
    BY <1>0, <1>4 DEF HashUpdate
  <2> QED
    BY <1>0, <2>1 DEF MacInv
<1>5. CASE HashFinal
  <2>1. DOMAIN work' = DOMAIN work /\ work'.unit = "hash"
    BY <1>0, <1>5 DEF HashFinal
  <2> QED
    BY <1>0, <2>1 DEF MacInv
<1>6. CASE UNCHANGED work
  BY <1>6 DEF MacInv
<1> QED
  BY <1>1, <1>2, <1>3, <1>4, <1>5, <1>6 DEF Next

LEMMA MacIsRight == MacInv => TagMatches
<1> SUFFICES ASSUME MacInv, work.unit = "mac" PROVE TagMatches
  BY DEF TagMatches
<1>1. /\ work.s \in [1..4 -> Digit] /\ IsAcc(work.acc, 4)
      /\ work.number = Value(work.acc) % PolyPrime
  BY DEF MacInv
<1>2. work.acc \in [1..5 -> Digit] /\ work.acc[5] <= 4
  BY <1>1 DEF IsAcc
<1>3. PolyValue(work.acc) = Value(work.acc)
  BY <1>2, PolyValueIs
<1>4. PolyValue(ComputeMac(work.acc, work.s))
          = ((work.number % Full) + PolyValue(work.s)) % Full
  BY <1>1, ComputeMacIs
<1> QED
  BY <1>1, <1>2, <1>3, <1>4 DEF TagMatches

(* Whatever the key, the blocks and the width of a word, the carried words *)
(* of poly1305_process are the polynomial of the blocks at r, and          *)
(* poly1305_compute_mac returns it modulo 2^130 - 5, plus s, modulo 2^128. *)
THEOREM TagsAreRight == Spec => []TagMatches
<1>1. Spec => []MacInv
  BY InitMac, MacStep, PTL DEF Spec
<1> QED
  BY <1>1, MacIsRight, PTL

-----------------------------------------------------------------------------
(* Recursion over typed values: the function exists. *)
Follows(g, T, n, z, h) ==
    g \in [0..n -> T] /\ g[0] = z /\ \A j \in 1..n : g[j] = h[<<g[j - 1], j>>]

LEMMA Recursion ==
    ASSUME NEW T, NEW n \in Nat, NEW z \in T, NEW h \in [T \X (1..n) -> T]
    PROVE  \E g : Follows(g, T, n, z, h)
<1> DEFINE A == {m \in Nat : m <= n => \E g : Follows(g, T, m, z, h)}
<1>1. 0 \in A
  <2> DEFINE g == [j \in 0..0 |-> z]
  <2>1. Follows(g, T, 0, z, h)
    BY DEF Follows
  <2> QED
    BY <2>1
<1>2. ASSUME NEW m \in Nat, m \in A PROVE m + 1 \in A
  <2>1. SUFFICES ASSUME m + 1 <= n PROVE \E g : Follows(g, T, m + 1, z, h)
    OBVIOUS
  <2>2. PICK f : Follows(f, T, m, z, h)
    BY <1>2, <2>1
  <2>3. f \in [0..m -> T] /\ f[0] = z /\ \A j \in 1..m : f[j] = h[<<f[j - 1], j>>]
    BY <2>2 DEF Follows
  <2> DEFINE x == h[<<f[m], m + 1>>]
             g == [j \in 0..m + 1 |-> IF j = m + 1 THEN x ELSE f[j]]
  <2>4. x \in T
    <3>1. f[m] \in T /\ m + 1 \in 1..n
      BY <2>1, <2>3
    <3> QED
      BY <3>1
  <2> HIDE DEF x
  <2>5. g \in [0..m + 1 -> T]
    BY <2>3, <2>4
  <2>6. g[0] = z
    BY <2>3
  <2>7. ASSUME NEW j \in 1..m + 1 PROVE g[j] = h[<<g[j - 1], j>>]
    <3>1. CASE j = m + 1
      <4>1. g[j] = x /\ g[j - 1] = f[m]
        BY <3>1
      <4> QED
        BY <3>1, <4>1 DEF x
    <3>2. CASE j # m + 1
      <4>1. g[j] = f[j] /\ g[j - 1] = f[j - 1] /\ j \in 1..m
        BY <3>2
      <4> QED
        BY <2>3, <4>1
    <3> QED
      BY <3>1, <3>2
  <2> HIDE DEF g
  <2>8. Follows(g, T, m + 1, z, h)
    BY <2>5, <2>6, <2>7 DEF Follows
  <2> QED
    BY <2>8
<1> HIDE DEF A
<1>3. n \in A
  BY <1>1, <1>2, SetInduction
<1> QED
  BY <1>3 DEF A

-----------------------------------------------------------------------------
(* Sums. *)
SumBody(f, n, S) == [i \in 0..n |-> IF i = 0 THEN 0 ELSE S[i - 1] + f[i - 1]]
Sums(f, n) == CHOOSE S : S = SumBody(f, n, S)

LEMMA SumsIs ==
    ASSUME NEW n \in Nat, NEW f, \A i \in 0..n - 1 : f[i] \in Int
    PROVE  /\ Sums(f, n) \in [0..n -> Int]
           /\ Sums(f, n)[0] = 0
           /\ \A i \in 1..n : Sums(f, n)[i] = Sums(f, n)[i - 1] + f[i - 1]
<1> DEFINE h == [p \in Int \X (1..n) |-> p[1] + f[p[2] - 1]]
           G == Sums(f, n)
<1>1. h \in [Int \X (1..n) -> Int]
  <2>1. ASSUME NEW p \in Int \X (1..n) PROVE p[1] + f[p[2] - 1] \in Int
    <3>1. p[1] \in Int /\ p[2] - 1 \in 0..n - 1
      OBVIOUS
    <3> QED
      BY <3>1
  <2> QED
    BY <2>1
<1>2. \A x \in Int, j \in 1..n : h[<<x, j>>] = x + f[j - 1]
  OBVIOUS
<1> HIDE DEF h
<1>3. PICK g : Follows(g, Int, n, 0, h)
  <2>1. 0 \in Int
    OBVIOUS
  <2> QED
    BY <1>1, <2>1, Recursion
<1>4. g \in [0..n -> Int] /\ g[0] = 0 /\ \A j \in 1..n : g[j] = h[<<g[j - 1], j>>]
  BY <1>3 DEF Follows
<1>5. g = SumBody(f, n, g)
  <2>1. \A j \in 0..n : g[j] = IF j = 0 THEN 0 ELSE g[j - 1] + f[j - 1]
    <3>1. ASSUME NEW j \in 0..n, j # 0 PROVE h[<<g[j - 1], j>>] = g[j - 1] + f[j - 1]
      <4>1. g[j - 1] \in Int /\ j \in 1..n
        BY <1>4, <3>1
      <4> QED
        BY <1>2, <4>1
    <3>2. ASSUME NEW j \in 0..n PROVE g[j] = IF j = 0 THEN 0 ELSE g[j - 1] + f[j - 1]
      <4>1. j # 0 => j \in 1..n
        OBVIOUS
      <4> QED
        BY <1>4, <3>1, <4>1
    <3> QED
      BY <3>2
  <2>2. DOMAIN g = 0..n /\ g = [j \in DOMAIN g |-> g[j]]
    BY <1>4
  <2> QED
    BY <2>1, <2>2 DEF SumBody
<1>6. G = SumBody(f, n, G)
  BY <1>5 DEF Sums
<1> HIDE DEF G
<1>7. G = [i \in 0..n |-> IF i = 0 THEN 0 ELSE G[i - 1] + f[i - 1]]
  BY <1>6 DEF SumBody
<1>8. \A i \in 0..n : G[i] = IF i = 0 THEN 0 ELSE G[i - 1] + f[i - 1]
  BY <1>7
<1>9. G[0] = 0 /\ \A i \in 1..n : G[i] = G[i - 1] + f[i - 1]
  BY <1>8
<1>10. DOMAIN G = 0..n
  BY <1>7
<1>11. \A i \in 0..n : G[i] \in Int
  <2> DEFINE A == {m \in Nat : m <= n => G[m] \in Int}
  <2>1. 0 \in A
    BY <1>9
  <2>2. ASSUME NEW m \in Nat, m \in A PROVE m + 1 \in A
    <3>1. SUFFICES ASSUME m + 1 <= n PROVE G[m + 1] \in Int
      OBVIOUS
    <3>2. G[m + 1] = G[m] + f[m]
      BY <1>9, <3>1
    <3>3. G[m] \in Int /\ f[m] \in Int
      BY <2>2, <3>1
    <3> QED
      BY <3>2, <3>3
  <2> HIDE DEF A
  <2>3. \A m \in Nat : m \in A
    BY <2>1, <2>2, SetInduction
  <2> QED
    BY <2>3 DEF A
<1>12. G \in [0..n -> Int]
  BY <1>7, <1>10, <1>11
<1> QED
  BY <1>9, <1>12 DEF G

LEMMA SumsAgree ==
    ASSUME NEW n \in Nat, NEW m \in Nat, n <= m, NEW f, NEW g,
           \A i \in 0..n - 1 : f[i] = g[i] /\ f[i] \in Int,
           \A i \in 0..m - 1 : g[i] \in Int
    PROVE  \A j \in 0..n : Sums(f, n)[j] = Sums(g, m)[j]
<1> DEFINE F == Sums(f, n)
           G == Sums(g, m)
           A == {j \in Nat : j <= n => F[j] = G[j]}
<1>1. F[0] = 0 /\ \A i \in 1..n : F[i] = F[i - 1] + f[i - 1]
  BY SumsIs
<1>2. G[0] = 0 /\ \A i \in 1..m : G[i] = G[i - 1] + g[i - 1]
  BY SumsIs
<1> HIDE DEF F, G
<1>3. 0 \in A
  BY <1>1, <1>2
<1>4. ASSUME NEW j \in Nat, j \in A PROVE j + 1 \in A
  <2>1. SUFFICES ASSUME j + 1 <= n PROVE F[j + 1] = G[j + 1]
    OBVIOUS
  <2>2. F[j + 1] = F[j] + f[j] /\ G[j + 1] = G[j] + g[j]
    BY <1>1, <1>2, <2>1
  <2>3. F[j] = G[j] /\ f[j] = g[j]
    BY <1>4, <2>1
  <2> QED
    BY <2>2, <2>3
<1> HIDE DEF A
<1>5. \A j \in Nat : j \in A
  BY <1>3, <1>4, SetInduction
<1>6. \A j \in 0..n : F[j] = G[j]
  BY <1>5 DEF A
<1> QED
  BY <1>6 DEF F, G

LEMMA SumToIs ==
    ASSUME NEW n, NEW f
    PROVE  SumTo(f, n) = Sums(f, n)[n]
BY DEF SumTo, Sums, SumBody

LEMMA SumZero == ASSUME NEW f PROVE SumTo(f, 0) = 0
<1>1. 0 \in Nat /\ \A i \in 0..0 - 1 : f[i] \in Int
  OBVIOUS
<1> QED
  BY <1>1, SumsIs, SumToIs

LEMMA SumType ==
    ASSUME NEW n \in Nat, NEW f, \A i \in 0..n - 1 : f[i] \in Int
    PROVE  SumTo(f, n) \in Int
<1>1. Sums(f, n) \in [0..n -> Int]
  BY SumsIs
<1> QED
  BY <1>1, SumToIs

LEMMA SumStep ==
    ASSUME NEW n \in Nat, NEW f, \A i \in 0..n : f[i] \in Int
    PROVE  SumTo(f, n + 1) = SumTo(f, n) + f[n]
<1>1. \A i \in 0..(n + 1) - 1 : f[i] \in Int
  OBVIOUS
<1>2. \A i \in 0..n - 1 : f[i] = f[i] /\ f[i] \in Int
  OBVIOUS
<1>3. n + 1 \in Nat /\ n <= n + 1 /\ n + 1 \in 1..n + 1 /\ n \in 0..n /\ (n + 1) - 1 = n
  OBVIOUS
<1>4. Sums(f, n + 1)[n + 1] = Sums(f, n + 1)[n] + f[n]
  <2>1. \A i \in 1..n + 1 : Sums(f, n + 1)[i] = Sums(f, n + 1)[i - 1] + f[i - 1]
    BY <1>1, <1>3, SumsIs
  <2> QED
    BY <1>3, <2>1
<1>5. Sums(f, n)[n] = Sums(f, n + 1)[n]
  BY <1>1, <1>2, <1>3, SumsAgree
<1> QED
  BY <1>4, <1>5, SumToIs

LEMMA SumSame ==
    ASSUME NEW n \in Nat, NEW f, NEW g, \A i \in 0..n - 1 : f[i] = g[i] /\ f[i] \in Int
    PROVE  SumTo(f, n) = SumTo(g, n)
<1>1. n <= n /\ n \in 0..n /\ \A i \in 0..n - 1 : g[i] \in Int
  OBVIOUS
<1>2. Sums(f, n)[n] = Sums(g, n)[n]
  BY <1>1, SumsAgree
<1> QED
  BY <1>2, SumToIs

(* A sum of sums. *)
LEMMA SumPlus ==
    ASSUME NEW n \in Nat, NEW f, NEW g, NEW h,
           \A i \in 0..n - 1 : f[i] \in Int /\ g[i] \in Int /\ h[i] = f[i] + g[i]
    PROVE  SumTo(h, n) = SumTo(f, n) + SumTo(g, n)
<1> DEFINE A == {m \in Nat : m <= n => SumTo(h, m) = SumTo(f, m) + SumTo(g, m)}
<1>1. 0 \in A
  BY SumZero
<1>2. ASSUME NEW m \in Nat, m \in A PROVE m + 1 \in A
  <2>1. SUFFICES ASSUME m + 1 <= n
                 PROVE  SumTo(h, m + 1) = SumTo(f, m + 1) + SumTo(g, m + 1)
    OBVIOUS
  <2>2. /\ \A i \in 0..m : f[i] \in Int
        /\ \A i \in 0..m : g[i] \in Int
        /\ \A i \in 0..m : h[i] \in Int
    BY <2>1
  <2>3. /\ SumTo(f, m + 1) = SumTo(f, m) + f[m]
        /\ SumTo(g, m + 1) = SumTo(g, m) + g[m]
        /\ SumTo(h, m + 1) = SumTo(h, m) + h[m]
    BY <2>2, SumStep
  <2>4. SumTo(f, m) \in Int /\ SumTo(g, m) \in Int
    <3>1. (\A i \in 0..m - 1 : f[i] \in Int) /\ (\A i \in 0..m - 1 : g[i] \in Int)
      BY <2>2
    <3> QED
      BY <3>1, SumType
  <2>5. f[m] \in Int /\ g[m] \in Int /\ h[m] = f[m] + g[m]
    BY <2>1
  <2> QED
    BY <1>2, <2>1, <2>3, <2>4, <2>5
<1> HIDE DEF A
<1>3. n \in A
  BY <1>1, <1>2, SetInduction
<1> QED
  BY <1>3 DEF A

LEMMA SumTimes ==
    ASSUME NEW n \in Nat, NEW f, NEW h, NEW x \in Int,
           \A i \in 0..n - 1 : f[i] \in Int /\ h[i] = x * f[i]
    PROVE  SumTo(h, n) = x * SumTo(f, n)
<1> DEFINE A == {m \in Nat : m <= n => SumTo(h, m) = x * SumTo(f, m)}
<1>1. 0 \in A
  BY SumZero
<1>2. ASSUME NEW m \in Nat, m \in A PROVE m + 1 \in A
  <2>1. SUFFICES ASSUME m + 1 <= n PROVE SumTo(h, m + 1) = x * SumTo(f, m + 1)
    OBVIOUS
  <2>2. (\A i \in 0..m : f[i] \in Int) /\ (\A i \in 0..m : h[i] \in Int)
    BY <2>1
  <2>3. /\ SumTo(f, m + 1) = SumTo(f, m) + f[m]
        /\ SumTo(h, m + 1) = SumTo(h, m) + h[m]
    BY <2>2, SumStep
  <2>4. SumTo(f, m) \in Int
    <3>1. \A i \in 0..m - 1 : f[i] \in Int
      BY <2>2
    <3> QED
      BY <3>1, SumType
  <2>5. f[m] \in Int /\ h[m] = x * f[m]
    BY <2>1
  <2>6. SumTo(h, m) = x * SumTo(f, m)
    BY <1>2, <2>1
  <2>7. ASSUME NEW y \in Int, NEW z \in Int PROVE x * y + x * z = x * (y + z)
    OBVIOUS
  <2> QED
    BY <2>3, <2>4, <2>5, <2>6, <2>7
<1> HIDE DEF A
<1>3. n \in A
  BY <1>1, <1>2, SetInduction
<1> QED
  BY <1>3 DEF A

(* Only term k differs. *)
LEMMA SumChange ==
    ASSUME NEW n \in Nat, NEW f, NEW g, NEW k \in 0..n - 1,
           \A i \in 0..n - 1 : f[i] \in Int /\ g[i] \in Int /\ (i # k => g[i] = f[i])
    PROVE  SumTo(g, n) = SumTo(f, n) + (g[k] - f[k])
<1> DEFINE A == {m \in Nat : m <= n => SumTo(g, m) = SumTo(f, m) + (IF k < m THEN g[k] - f[k] ELSE 0)}
<1>0. f[k] \in Int /\ g[k] \in Int
  OBVIOUS
<1>1. 0 \in A
  BY SumZero
<1>2. ASSUME NEW m \in Nat, m \in A PROVE m + 1 \in A
  <2>1. SUFFICES ASSUME m + 1 <= n
                 PROVE  SumTo(g, m + 1) = SumTo(f, m + 1) + (IF k < m + 1 THEN g[k] - f[k] ELSE 0)
    OBVIOUS
  <2>2. (\A i \in 0..m : f[i] \in Int) /\ (\A i \in 0..m : g[i] \in Int)
    BY <2>1
  <2>3. /\ SumTo(f, m + 1) = SumTo(f, m) + f[m]
        /\ SumTo(g, m + 1) = SumTo(g, m) + g[m]
    BY <2>2, SumStep
  <2>4. SumTo(f, m) \in Int /\ SumTo(g, m) \in Int
    <3>1. (\A i \in 0..m - 1 : f[i] \in Int) /\ (\A i \in 0..m - 1 : g[i] \in Int)
      BY <2>2
    <3> QED
      BY <3>1, SumType
  <2>5. f[m] \in Int /\ g[m] \in Int /\ (m # k => g[m] = f[m])
    BY <2>1
  <2>6. SumTo(g, m) = SumTo(f, m) + (IF k < m THEN g[k] - f[k] ELSE 0)
    BY <1>2, <2>1
  <2>7. CASE m = k
    BY <2>3, <2>4, <2>5, <2>6, <2>7
  <2>8. CASE m # k
    <3>1. k < m + 1 <=> k < m
      BY <2>8
    <3> QED
      BY <1>0, <2>3, <2>4, <2>5, <2>6, <2>8, <3>1
  <2> QED
    BY <2>7, <2>8
<1> HIDE DEF A
<1>3. n \in A
  BY <1>1, <1>2, SetInduction
<1>4. k < n
  OBVIOUS
<1> QED
  BY <1>3, <1>4 DEF A


-----------------------------------------------------------------------------
(* Places. *)
Positive == Nat \ {0}
PlaceBody(radix, n, P) == [i \in 0..n |-> IF i = 0 THEN 1 ELSE P[i - 1] * radix[i - 1]]
Places(radix, n) == CHOOSE P : P = PlaceBody(radix, n, P)

LEMMA TimesPositive == ASSUME NEW x \in Positive, NEW y \in Positive PROVE x * y \in Positive
BY DEF Positive

LEMMA PlacesIs ==
    ASSUME NEW n \in Nat, NEW radix, \A i \in 0..n - 1 : radix[i] \in Positive
    PROVE  /\ Places(radix, n) \in [0..n -> Positive]
           /\ Places(radix, n)[0] = 1
           /\ \A i \in 1..n : Places(radix, n)[i] = Places(radix, n)[i - 1] * radix[i - 1]
<1> DEFINE h == [p \in Positive \X (1..n) |-> p[1] * radix[p[2] - 1]]
           G == Places(radix, n)
<1>1. h \in [Positive \X (1..n) -> Positive]
  <2>1. ASSUME NEW p \in Positive \X (1..n) PROVE p[1] * radix[p[2] - 1] \in Positive
    <3>1. p[1] \in Positive /\ p[2] - 1 \in 0..n - 1
      OBVIOUS
    <3> QED
      BY <3>1, TimesPositive
  <2> QED
    BY <2>1
<1>2. \A x \in Positive, j \in 1..n : h[<<x, j>>] = x * radix[j - 1]
  OBVIOUS
<1> HIDE DEF h
<1>3. PICK g : Follows(g, Positive, n, 1, h)
  <2>1. 1 \in Positive
    BY DEF Positive
  <2> QED
    BY <1>1, <2>1, Recursion
<1>4. g \in [0..n -> Positive] /\ g[0] = 1 /\ \A j \in 1..n : g[j] = h[<<g[j - 1], j>>]
  BY <1>3 DEF Follows
<1>5. g = PlaceBody(radix, n, g)
  <2>1. ASSUME NEW j \in 0..n PROVE g[j] = IF j = 0 THEN 1 ELSE g[j - 1] * radix[j - 1]
    <3>1. CASE j = 0
      BY <1>4, <3>1
    <3>2. CASE j # 0
      <4>1. j \in 1..n /\ j - 1 \in 0..n
        BY <3>2
      <4>2. g[j - 1] \in Positive
        BY <1>4, <4>1
      <4> QED
        BY <1>2, <1>4, <3>2, <4>1, <4>2
    <3> QED
      BY <3>1, <3>2
  <2>2. DOMAIN g = 0..n /\ g = [j \in DOMAIN g |-> g[j]]
    BY <1>4
  <2> QED
    BY <2>1, <2>2 DEF PlaceBody
<1>6. G = PlaceBody(radix, n, G)
  BY <1>5 DEF Places
<1> HIDE DEF G
<1>7. G = [i \in 0..n |-> IF i = 0 THEN 1 ELSE G[i - 1] * radix[i - 1]]
  BY <1>6 DEF PlaceBody
<1>8. \A i \in 0..n : G[i] = IF i = 0 THEN 1 ELSE G[i - 1] * radix[i - 1]
  BY <1>7
<1>9. G[0] = 1 /\ \A i \in 1..n : G[i] = G[i - 1] * radix[i - 1]
  BY <1>8
<1>10. DOMAIN G = 0..n
  BY <1>7
<1>11. \A i \in 0..n : G[i] \in Positive
  <2> DEFINE A == {m \in Nat : m <= n => G[m] \in Positive}
  <2>1. 0 \in A
    BY <1>9 DEF Positive
  <2>2. ASSUME NEW m \in Nat, m \in A PROVE m + 1 \in A
    <3>1. SUFFICES ASSUME m + 1 <= n PROVE G[m + 1] \in Positive
      OBVIOUS
    <3>2. G[m + 1] = G[m] * radix[m]
      BY <1>9, <3>1
    <3>3. G[m] \in Positive /\ radix[m] \in Positive
      BY <2>2, <3>1
    <3> QED
      BY <3>2, <3>3, TimesPositive
  <2> HIDE DEF A
  <2>3. \A m \in Nat : m \in A
    BY <2>1, <2>2, SetInduction
  <2> QED
    BY <2>3 DEF A
<1>12. G \in [0..n -> Positive]
  BY <1>7, <1>10, <1>11
<1> QED
  BY <1>9, <1>12 DEF G

LEMMA PlaceIs ==
    ASSUME NEW n, NEW radix
    PROVE  Place(radix, n) = Places(radix, n)[n]
BY DEF Place, Places, PlaceBody

LEMMA PlacesAgree ==
    ASSUME NEW n \in Nat, NEW m \in Nat, n <= m, NEW radix,
           \A i \in 0..m - 1 : radix[i] \in Positive
    PROVE  \A j \in 0..n : Places(radix, n)[j] = Places(radix, m)[j]
<1> DEFINE F == Places(radix, n)
           G == Places(radix, m)
           A == {j \in Nat : j <= n => F[j] = G[j]}
<1>0. \A i \in 0..n - 1 : radix[i] \in Positive
  OBVIOUS
<1>1. F[0] = 1 /\ \A i \in 1..n : F[i] = F[i - 1] * radix[i - 1]
  BY <1>0, PlacesIs
<1>2. G[0] = 1 /\ \A i \in 1..m : G[i] = G[i - 1] * radix[i - 1]
  BY PlacesIs
<1> HIDE DEF F, G
<1>3. 0 \in A
  BY <1>1, <1>2
<1>4. ASSUME NEW j \in Nat, j \in A PROVE j + 1 \in A
  <2>1. SUFFICES ASSUME j + 1 <= n PROVE F[j + 1] = G[j + 1]
    OBVIOUS
  <2>2. F[j + 1] = F[j] * radix[j] /\ G[j + 1] = G[j] * radix[j]
    BY <1>1, <1>2, <2>1
  <2>3. F[j] = G[j]
    BY <1>4, <2>1
  <2> QED
    BY <2>2, <2>3
<1> HIDE DEF A
<1>5. \A j \in Nat : j \in A
  BY <1>3, <1>4, SetInduction
<1>6. \A j \in 0..n : F[j] = G[j]
  BY <1>5 DEF A
<1> QED
  BY <1>6 DEF F, G

LEMMA PlaceZero == ASSUME NEW radix PROVE Place(radix, 0) = 1
<1>1. 0 \in Nat /\ \A i \in 0..0 - 1 : radix[i] \in Positive
  OBVIOUS
<1> QED
  BY <1>1, PlacesIs, PlaceIs

LEMMA PlaceType ==
    ASSUME NEW n \in Nat, NEW radix, \A i \in 0..n - 1 : radix[i] \in Positive
    PROVE  Place(radix, n) \in Positive
<1>1. Places(radix, n) \in [0..n -> Positive]
  BY PlacesIs
<1> QED
  BY <1>1, PlaceIs

LEMMA PlaceStep ==
    ASSUME NEW n \in Nat, NEW radix, \A i \in 0..n : radix[i] \in Positive
    PROVE  Place(radix, n + 1) = Place(radix, n) * radix[n]
<1>1. \A i \in 0..(n + 1) - 1 : radix[i] \in Positive
  OBVIOUS
<1>2. n + 1 \in Nat /\ n <= n + 1 /\ n + 1 \in 1..n + 1 /\ n \in 0..n /\ (n + 1) - 1 = n
  OBVIOUS
<1>3. Places(radix, n + 1)[n + 1] = Places(radix, n + 1)[n] * radix[n]
  <2>1. \A i \in 1..n + 1 : Places(radix, n + 1)[i] = Places(radix, n + 1)[i - 1] * radix[i - 1]
    BY <1>1, <1>2, PlacesIs
  <2> QED
    BY <1>2, <2>1
<1>4. Places(radix, n)[n] = Places(radix, n + 1)[n]
  BY <1>1, <1>2, PlacesAgree
<1> QED
  BY <1>3, <1>4, PlaceIs

-----------------------------------------------------------------------------
(* What limbs are worth. *)
IsRadix(radix, n) == \A i \in 0..n - 1 : radix[i] \in Positive
Terms(s, radix, n) == [i \in 0..n - 1 |-> s[i] * Place(radix, i)]

LEMMA PlacesOf ==
    ASSUME NEW n \in Nat, NEW radix, IsRadix(radix, n)
    PROVE  \A i \in 0..n : Place(radix, i) \in Positive
<1>1. ASSUME NEW i \in 0..n PROVE Place(radix, i) \in Positive
  <2>1. i \in Nat /\ \A j \in 0..i - 1 : radix[j] \in Positive
    BY DEF IsRadix
  <2> QED
    BY <2>1, PlaceType
<1> QED
  BY <1>1

LEMMA TermsIs ==
    ASSUME NEW n \in Nat, NEW radix, IsRadix(radix, n), NEW s, \A i \in 0..n - 1 : s[i] \in Int
    PROVE  \A i \in 0..n - 1 : /\ Terms(s, radix, n)[i] = s[i] * Place(radix, i)
                                /\ Terms(s, radix, n)[i] \in Int
<1>1. ASSUME NEW i \in 0..n - 1 PROVE s[i] * Place(radix, i) \in Int
  <2>1. s[i] \in Int /\ Place(radix, i) \in Int
    BY PlacesOf DEF Positive
  <2> QED
    BY <2>1
<1>2. \A i \in 0..n - 1 : Terms(s, radix, n)[i] = s[i] * Place(radix, i)
  BY DEF Terms
<1> QED
  BY <1>1, <1>2

LEMMA WorthIs ==
    ASSUME NEW n, NEW radix, NEW s
    PROVE  Worth(s, radix, n) = SumTo(Terms(s, radix, n), n)
BY DEF Worth, Terms

LEMMA WorthType ==
    ASSUME NEW n \in Nat, NEW radix, IsRadix(radix, n), NEW s, \A i \in 0..n - 1 : s[i] \in Int
    PROVE  Worth(s, radix, n) \in Int
BY TermsIs, SumType, WorthIs

LEMMA WorthZero == ASSUME NEW radix, NEW s PROVE Worth(s, radix, 0) = 0
BY SumZero, WorthIs

LEMMA WorthSame ==
    ASSUME NEW n \in Nat, NEW radix, IsRadix(radix, n), NEW s, NEW t,
           \A i \in 0..n - 1 : s[i] \in Int /\ s[i] = t[i]
    PROVE  Worth(s, radix, n) = Worth(t, radix, n)
<1>1. \A i \in 0..n - 1 : s[i] \in Int
  OBVIOUS
<1>2. \A i \in 0..n - 1 : t[i] \in Int
  OBVIOUS
<1>3. \A i \in 0..n - 1 : /\ Terms(s, radix, n)[i] = s[i] * Place(radix, i)
                            /\ Terms(s, radix, n)[i] \in Int
  BY <1>1, TermsIs
<1>4. \A i \in 0..n - 1 : Terms(t, radix, n)[i] = t[i] * Place(radix, i)
  BY <1>2, TermsIs
<1>5. \A i \in 0..n - 1 : /\ Terms(s, radix, n)[i] = Terms(t, radix, n)[i]
                            /\ Terms(s, radix, n)[i] \in Int
  BY <1>3, <1>4
<1> HIDE DEF IsRadix
<1> QED
  BY <1>5, SumSame, WorthIs

LEMMA WorthStep ==
    ASSUME NEW n \in Nat, NEW radix, IsRadix(radix, n + 1), NEW s, \A i \in 0..n : s[i] \in Int
    PROVE  Worth(s, radix, n + 1) = Worth(s, radix, n) + s[n] * Place(radix, n)
<1> DEFINE F == Terms(s, radix, n + 1)
           G == Terms(s, radix, n)
<1>1. n + 1 \in Nat /\ \A i \in 0..(n + 1) - 1 : s[i] \in Int
  OBVIOUS
<1>2. \A i \in 0..(n + 1) - 1 : F[i] = s[i] * Place(radix, i) /\ F[i] \in Int
  BY <1>1, TermsIs
<1>3. \A i \in 0..n - 1 : G[i] = s[i] * Place(radix, i) /\ G[i] \in Int
  <2>1. IsRadix(radix, n) /\ \A i \in 0..n - 1 : s[i] \in Int
    BY DEF IsRadix
  <2> QED
    BY <2>1, TermsIs
<1> HIDE DEF F, G
<1>4. \A i \in 0..n : F[i] \in Int
  BY <1>2
<1>5. SumTo(F, n + 1) = SumTo(F, n) + F[n]
  BY <1>4, SumStep
<1>6. \A i \in 0..n - 1 : G[i] = F[i] /\ G[i] \in Int
  BY <1>2, <1>3
<1>7. SumTo(G, n) = SumTo(F, n)
  BY <1>6, SumSame
<1>8. F[n] = s[n] * Place(radix, n)
  BY <1>2
<1> QED
  BY <1>5, <1>7, <1>8, WorthIs DEF F, G

LEMMA WorthChange ==
    ASSUME NEW n \in Nat, NEW radix, IsRadix(radix, n), NEW s, NEW t, NEW k \in 0..n - 1,
           \A i \in 0..n - 1 : s[i] \in Int /\ t[i] \in Int /\ (i # k => t[i] = s[i])
    PROVE  Worth(t, radix, n) = Worth(s, radix, n) + (t[k] - s[k]) * Place(radix, k)
<1> DEFINE F == Terms(s, radix, n)
           G == Terms(t, radix, n)
<1>1. (\A i \in 0..n - 1 : s[i] \in Int) /\ (\A i \in 0..n - 1 : t[i] \in Int)
  OBVIOUS
<1>2. \A i \in 0..n - 1 : F[i] = s[i] * Place(radix, i) /\ F[i] \in Int
  BY <1>1, TermsIs
<1>3. \A i \in 0..n - 1 : G[i] = t[i] * Place(radix, i) /\ G[i] \in Int
  BY <1>1, TermsIs
<1> HIDE DEF F, G
<1>4. \A i \in 0..n - 1 : F[i] \in Int /\ G[i] \in Int /\ (i # k => G[i] = F[i])
  BY <1>2, <1>3
<1>5. SumTo(G, n) = SumTo(F, n) + (G[k] - F[k])
  BY <1>4, SumChange
<1>6. s[k] \in Int /\ t[k] \in Int /\ Place(radix, k) \in Int
  BY PlacesOf DEF Positive
<1>7. \A x, y, z \in Int : x * z - y * z = (x - y) * z
  OBVIOUS
<1>8. G[k] - F[k] = (t[k] - s[k]) * Place(radix, k)
  BY <1>2, <1>3, <1>6, <1>7
<1> QED
  BY <1>5, <1>8, WorthIs DEF F, G

LEMMA WorthPlus ==
    ASSUME NEW n \in Nat, NEW radix, IsRadix(radix, n), NEW s, NEW t, NEW u,
           \A i \in 0..n - 1 : s[i] \in Int /\ t[i] \in Int /\ u[i] = s[i] + t[i]
    PROVE  Worth(u, radix, n) = Worth(s, radix, n) + Worth(t, radix, n)
<1> DEFINE F == Terms(s, radix, n)
           G == Terms(t, radix, n)
           H == Terms(u, radix, n)
<1>1. /\ \A i \in 0..n - 1 : s[i] \in Int
      /\ \A i \in 0..n - 1 : t[i] \in Int
      /\ \A i \in 0..n - 1 : u[i] \in Int
  OBVIOUS
<1>2. /\ \A i \in 0..n - 1 : F[i] = s[i] * Place(radix, i) /\ F[i] \in Int
      /\ \A i \in 0..n - 1 : G[i] = t[i] * Place(radix, i) /\ G[i] \in Int
      /\ \A i \in 0..n - 1 : H[i] = u[i] * Place(radix, i) /\ H[i] \in Int
  BY <1>1, TermsIs
<1> HIDE DEF F, G, H
<1>3. ASSUME NEW i \in 0..n - 1 PROVE H[i] = F[i] + G[i]
  <2>1. s[i] \in Int /\ t[i] \in Int /\ Place(radix, i) \in Int /\ u[i] = s[i] + t[i]
    BY PlacesOf DEF Positive
  <2>2. \A x, y, z \in Int : (x + y) * z = x * z + y * z
    OBVIOUS
  <2> QED
    BY <1>2, <2>1, <2>2
<1>4. \A i \in 0..n - 1 : F[i] \in Int /\ G[i] \in Int /\ H[i] = F[i] + G[i]
  BY <1>2, <1>3
<1>5. SumTo(H, n) = SumTo(F, n) + SumTo(G, n)
  BY <1>4, SumPlus
<1> QED
  BY <1>5, WorthIs DEF F, G, H

LEMMA WorthTimes ==
    ASSUME NEW n \in Nat, NEW radix, IsRadix(radix, n), NEW s, NEW u, NEW x \in Int,
           \A i \in 0..n - 1 : s[i] \in Int /\ u[i] = x * s[i]
    PROVE  Worth(u, radix, n) = x * Worth(s, radix, n)
<1> DEFINE F == Terms(s, radix, n)
           H == Terms(u, radix, n)
<1>1. /\ \A i \in 0..n - 1 : s[i] \in Int
      /\ \A i \in 0..n - 1 : u[i] \in Int
  <2>1. ASSUME NEW i \in 0..n - 1 PROVE s[i] \in Int /\ u[i] \in Int
    <3>1. s[i] \in Int /\ u[i] = x * s[i]
      OBVIOUS
    <3>2. \A y \in Int : x * y \in Int
      OBVIOUS
    <3> QED
      BY <3>1, <3>2
  <2> QED
    BY <2>1
<1>2. /\ \A i \in 0..n - 1 : F[i] = s[i] * Place(radix, i) /\ F[i] \in Int
      /\ \A i \in 0..n - 1 : H[i] = u[i] * Place(radix, i) /\ H[i] \in Int
  BY <1>1, TermsIs
<1> HIDE DEF F, H
<1>3. ASSUME NEW i \in 0..n - 1 PROVE H[i] = x * F[i]
  <2>1. s[i] \in Int /\ Place(radix, i) \in Int /\ u[i] = x * s[i]
    BY PlacesOf DEF Positive
  <2>2. \A y, z \in Int : (x * y) * z = x * (y * z)
    OBVIOUS
  <2> QED
    BY <1>2, <2>1, <2>2
<1>4. \A i \in 0..n - 1 : F[i] \in Int /\ H[i] = x * F[i]
  BY <1>2, <1>3
<1>5. SumTo(H, n) = x * SumTo(F, n)
  BY <1>4, SumTimes
<1> QED
  BY <1>5, WorthIs DEF F, H

(* Digits are worth less than the next place. *)
LEMMA WorthDigits ==
    ASSUME NEW n \in Nat, NEW radix, IsRadix(radix, n), NEW s,
           \A i \in 0..n - 1 : s[i] \in 0..radix[i] - 1
    PROVE  Worth(s, radix, n) \in 0..Place(radix, n) - 1
<1> DEFINE A == {m \in Nat : m <= n => Worth(s, radix, m) \in 0..Place(radix, m) - 1}
<1>1. 0 \in A
  BY WorthZero, PlaceZero
<1>2. ASSUME NEW m \in Nat, m \in A PROVE m + 1 \in A
  <2>1. SUFFICES ASSUME m + 1 <= n
                 PROVE  Worth(s, radix, m + 1) \in 0..Place(radix, m + 1) - 1
    OBVIOUS
  <2>2. radix[m] \in Positive /\ s[m] \in 0..radix[m] - 1
    BY <2>1 DEF IsRadix
  <2>3. IsRadix(radix, m + 1) /\ \A i \in 0..m : radix[i] \in Positive
    BY <2>1 DEF IsRadix
  <2>4. \A i \in 0..m : s[i] \in Int
    BY <2>1, <2>3 DEF Positive
  <2>5. Worth(s, radix, m + 1) = Worth(s, radix, m) + s[m] * Place(radix, m)
    BY <2>3, <2>4, WorthStep
  <2>6. Place(radix, m + 1) = Place(radix, m) * radix[m]
    BY <2>3, PlaceStep
  <2>7. Worth(s, radix, m) \in 0..Place(radix, m) - 1
    BY <1>2, <2>1
  <2>8. Place(radix, m) \in Positive
    BY <2>1, PlacesOf
  <2>9. ASSUME NEW w \in Int, NEW p \in Int, NEW d \in Int, NEW r \in Int,
               p >= 1, w >= 0, w <= p - 1, d >= 0, d <= r - 1
        PROVE  w + d * p >= 0 /\ w + d * p <= p * r - 1
    <3>1. d * p >= 0
      BY <2>9
    <3>2. (r - 1 - d) * p >= 0
      BY <2>9
    <3>3. (r - 1 - d) * p = p * r - p - d * p
      OBVIOUS
    <3>4. PICK x \in Int : x = d * p
      OBVIOUS
    <3>5. PICK y \in Int : y = p * r
      OBVIOUS
    <3> QED
      BY <2>9, <3>1, <3>2, <3>3, <3>4, <3>5
  <2>10. /\ Worth(s, radix, m) + s[m] * Place(radix, m) >= 0
         /\ Worth(s, radix, m) + s[m] * Place(radix, m) <= Place(radix, m) * radix[m] - 1
    <3>1. /\ Worth(s, radix, m) \in Int /\ Place(radix, m) \in Int /\ s[m] \in Int /\ radix[m] \in Int
          /\ Place(radix, m) >= 1 /\ Worth(s, radix, m) >= 0 /\ Worth(s, radix, m) <= Place(radix, m) - 1
          /\ s[m] >= 0 /\ s[m] <= radix[m] - 1
      BY <2>2, <2>7, <2>8 DEF Positive
    <3> QED
      BY <2>9, <3>1
  <2>11. Worth(s, radix, m + 1) \in Int /\ Place(radix, m + 1) \in Int
    <3>1. m + 1 \in Nat /\ \A i \in 0..(m + 1) - 1 : s[i] \in Int
      BY <2>4
    <3>2. Place(radix, m + 1) \in Positive
      BY <2>1, PlacesOf
    <3> QED
      BY <2>3, <3>1, <3>2, WorthType DEF Positive
  <2> QED
    BY <2>5, <2>6, <2>10, <2>11
<1> HIDE DEF A
<1>3. n \in A
  BY <1>1, <1>2, SetInduction
<1> QED
  BY <1>3 DEF A

(* Where every radix is at least 2, limbs up to b are worth at most twice  *)
(* b in the highest place.                                                 *)
LEMMA WorthBound ==
    ASSUME NEW n \in Nat, NEW radix, IsRadix(radix, n + 1), \A i \in 0..n : radix[i] >= 2,
           NEW b \in Nat, NEW s, \A i \in 0..n : s[i] \in Int /\ -b <= s[i] /\ s[i] <= b
    PROVE  /\ Worth(s, radix, n + 1) <= 2 * b * Place(radix, n)
           /\ -(2 * b * Place(radix, n)) <= Worth(s, radix, n + 1)
<1> DEFINE A == {m \in Nat : m <= n => /\ Worth(s, radix, m + 1) <= 2 * b * Place(radix, m)
                                        /\ -(2 * b * Place(radix, m)) <= Worth(s, radix, m + 1)}
<1>1. 0 \in A
  <2>1. IsRadix(radix, 0 + 1) /\ 0 \in Nat /\ \A i \in 0..0 : s[i] \in Int
    BY DEF IsRadix
  <2>2. Worth(s, radix, 0 + 1) = Worth(s, radix, 0) + s[0] * Place(radix, 0)
    BY <2>1, WorthStep
  <2>3. Worth(s, radix, 0 + 1) = s[0]
    BY <2>1, <2>2, WorthZero, PlaceZero
  <2>4. s[0] \in Int /\ -b <= s[0] /\ s[0] <= b
    OBVIOUS
  <2> QED
    BY <2>3, <2>4, PlaceZero
<1>2. ASSUME NEW m \in Nat, m \in A PROVE m + 1 \in A
  <2>1. SUFFICES ASSUME m + 1 <= n
                 PROVE  /\ Worth(s, radix, (m + 1) + 1) <= 2 * b * Place(radix, m + 1)
                        /\ -(2 * b * Place(radix, m + 1)) <= Worth(s, radix, (m + 1) + 1)
    OBVIOUS
  <2>2. /\ IsRadix(radix, (m + 1) + 1) /\ IsRadix(radix, m + 1)
        /\ \A i \in 0..m : radix[i] \in Positive
    BY <2>1 DEF IsRadix
  <2>3. (\A i \in 0..m + 1 : s[i] \in Int) /\ (\A i \in 0..(m + 1) - 1 : s[i] \in Int)
    BY <2>1
  <2>4. Worth(s, radix, (m + 1) + 1) = Worth(s, radix, m + 1) + s[m + 1] * Place(radix, m + 1)
    BY <2>2, <2>3, WorthStep
  <2>5. Place(radix, m + 1) = Place(radix, m) * radix[m]
    BY <2>2, PlaceStep
  <2>6. PICK p \in Int : p = Place(radix, m) /\ p >= 1
    BY <2>1, PlacesOf DEF Positive
  <2>7. PICK q \in Int : q = Place(radix, m + 1) /\ q >= 1
    BY <2>1, PlacesOf DEF Positive
  <2>8. PICK r \in Int : r = radix[m] /\ r >= 2
    BY <2>1, <2>2 DEF Positive
  <2>9. PICK w \in Int : w = Worth(s, radix, m + 1)
    BY <2>2, <2>3, WorthType
  <2>10. PICK d \in Int : d = s[m + 1] /\ -b <= d /\ d <= b
    BY <2>1
  <2>11. w <= 2 * b * p /\ -(2 * b * p) <= w
    BY <1>2, <2>1, <2>6, <2>9
  <2>12. q >= 2 * p
    <3>1. q = p * r
      BY <2>5, <2>6, <2>7, <2>8
    <3>2. p * (r - 2) >= 0 /\ p * (r - 2) = p * r - 2 * p
      BY <2>6, <2>8
    <3> QED
      BY <3>1, <3>2
  <2>13. 2 * b * p <= b * q
    <3>1. b * (q - 2 * p) >= 0 /\ b * (q - 2 * p) = b * q - 2 * b * p
      BY <2>12
    <3> QED
      BY <3>1
  <2>14. d * q <= b * q /\ -(b * q) <= d * q
    <3>1. (b - d) * q >= 0 /\ (b - d) * q = b * q - d * q
      BY <2>7, <2>10
    <3>2. (b + d) * q >= 0 /\ (b + d) * q = b * q + d * q
      BY <2>7, <2>10
    <3> QED
      BY <3>1, <3>2
  <2>15. w + d * q <= 2 * b * q /\ -(2 * b * q) <= w + d * q
    <3>1. PICK x \in Int : x = d * q
      OBVIOUS
    <3>2. PICK y \in Int : y = b * q
      OBVIOUS
    <3>3. 2 * b * q = 2 * y
      BY <3>2
    <3>4. PICK z \in Int : z = 2 * b * p
      OBVIOUS
    <3> QED
      BY <2>11, <2>13, <2>14, <3>1, <3>2, <3>3, <3>4
  <2> QED
    BY <2>4, <2>7, <2>9, <2>10, <2>15
<1> HIDE DEF A
<1>3. n \in A
  BY <1>1, <1>2, SetInduction
<1> QED
  BY <1>3 DEF A


-----------------------------------------------------------------------------
(* Scalars: the places of a radix that is everywhere the same. *)
Half == Radix \div 2
At(i) == Place(ScalarRadix, i)
Scalar24 == [0..23 -> Int]
Of24(s) == Worth(s, ScalarRadix, 24)

LEMMA RadixFacts == /\ Radix \in Int /\ Radix >= 2 /\ Radix \in Positive
                    /\ Half \in Int /\ Half >= 1 /\ 2 * Half = Radix
<1>1. Radix \in Nat \ {0} /\ Radix % 2 = 0
  BY ScalarLimbsAssumption
<1>2. 2 * (Radix \div 2) = Radix /\ Radix \div 2 \in Int
  BY <1>1
<1> QED
  BY <1>1, <1>2 DEF Half, Positive

LEMMA ScalarRadixIs == \A n \in 0..24 : IsRadix(ScalarRadix, n)
BY RadixFacts DEF IsRadix, ScalarRadix

LEMMA AtIs ==
    /\ At(0) = 1
    /\ \A i \in 0..24 : At(i) \in Int /\ At(i) >= 1
    /\ \A i \in 0..23 : At(i + 1) = At(i) * Radix
<1>1. At(0) = 1
  BY PlaceZero DEF At
<1>2. \A i \in 0..24 : At(i) \in Positive
  <2>1. 24 \in Nat /\ 24 \in 0..24
    OBVIOUS
  <2> QED
    BY <2>1, ScalarRadixIs, PlacesOf DEF At
<1>3. ASSUME NEW i \in 0..23 PROVE At(i + 1) = At(i) * Radix
  <2>1. i \in Nat /\ \A j \in 0..i : ScalarRadix[j] \in Positive
    BY RadixFacts DEF ScalarRadix
  <2>2. ScalarRadix[i] = Radix
    BY DEF ScalarRadix
  <2> QED
    BY <2>1, <2>2, PlaceStep DEF At
<1> QED
  BY <1>1, <1>2, <1>3 DEF Positive

LEMMA AtSum ==
    ASSUME NEW i \in 0..24, NEW j \in 0..24, i + j <= 24
    PROVE  At(i + j) = At(i) * At(j)
<1> DEFINE A == {m \in Nat : i + m <= 24 => At(i + m) = At(i) * At(m)}
<1>1. 0 \in A
  <2>1. At(i) * At(0) = At(i) /\ i + 0 = i
    BY AtIs
  <2> QED
    BY <2>1
<1>2. ASSUME NEW m \in Nat, m \in A PROVE m + 1 \in A
  <2>1. SUFFICES ASSUME i + (m + 1) <= 24 PROVE At(i + (m + 1)) = At(i) * At(m + 1)
    OBVIOUS
  <2>2. i + m \in 0..23 /\ m \in 0..23 /\ i + (m + 1) = (i + m) + 1
    BY <2>1
  <2>3. At((i + m) + 1) = At(i + m) * Radix /\ At(m + 1) = At(m) * Radix
    BY <2>2, AtIs
  <2>4. At(i + m) = At(i) * At(m)
    BY <1>2, <2>2
  <2>5. At(i) \in Int /\ At(m) \in Int /\ Radix \in Int
    BY <2>2, AtIs, RadixFacts
  <2>6. \A x, y, z \in Int : (x * y) * z = x * (y * z)
    OBVIOUS
  <2> QED
    BY <2>2, <2>3, <2>4, <2>5, <2>6
<1> HIDE DEF A
<1>3. j \in A
  BY <1>1, <1>2, SetInduction
<1> QED
  BY <1>3 DEF A

LEMMA Of24Type == ASSUME NEW s \in Scalar24 PROVE Of24(s) \in Int
<1>1. 24 \in Nat /\ 24 \in 0..24 /\ \A i \in 0..24 - 1 : s[i] \in Int
  BY DEF Scalar24
<1> QED
  BY <1>1, ScalarRadixIs, WorthType DEF Of24

LEMMA Of24Change ==
    ASSUME NEW s \in Scalar24, NEW t \in Scalar24, NEW k \in 0..23,
           \A i \in 0..23 : i # k => t[i] = s[i]
    PROVE  Of24(t) = Of24(s) + (t[k] - s[k]) * At(k)
<1>1. 24 \in Nat /\ IsRadix(ScalarRadix, 24) /\ k \in 0..24 - 1
  BY ScalarRadixIs
<1>2. \A i \in 0..24 - 1 : s[i] \in Int /\ t[i] \in Int /\ (i # k => t[i] = s[i])
  BY DEF Scalar24
<1>3. \A n \in Nat : n = 24 =>
         Worth(t, ScalarRadix, n) = Worth(s, ScalarRadix, n) + (t[k] - s[k]) * Place(ScalarRadix, k)
  <2>1. SUFFICES ASSUME NEW n \in Nat, n = 24
                 PROVE  Worth(t, ScalarRadix, n)
                            = Worth(s, ScalarRadix, n) + (t[k] - s[k]) * Place(ScalarRadix, k)
    OBVIOUS
  <2>2. IsRadix(ScalarRadix, n) /\ k \in 0..n - 1
    BY <1>1, <2>1
  <2>3. \A i \in 0..n - 1 : s[i] \in Int /\ t[i] \in Int /\ (i # k => t[i] = s[i])
    BY <1>2, <2>1
  <2> QED
    BY <2>2, <2>3, WorthChange
<1> QED
  BY <1>1, <1>3 DEF Of24, At

(* A carry moves no worth. *)
CarriedBy(s, t, k, c) ==
    /\ t \in Scalar24
    /\ t[k] = s[k] - c * Radix
    /\ t[k + 1] = s[k + 1] + c
    /\ \A i \in 0..23 : i # k /\ i # k + 1 => t[i] = s[i]
    /\ Of24(t) = Of24(s)

LEMMA CarryByIs ==
    ASSUME NEW s \in Scalar24, NEW k \in 0..22, NEW c \in Int
    PROVE  CarriedBy(s, CarryBy(s, k, c), k, c)
<1> DEFINE u == [s EXCEPT ![k] = @ - c * Radix]
           t == CarryBy(s, k, c)
<1>1. c * Radix \in Int /\ s[k] \in Int /\ s[k + 1] \in Int /\ k \in 0..23 /\ k + 1 \in 0..23 /\ k + 1 # k
  <2>1. \A x, y \in Int : x * y \in Int
    OBVIOUS
  <2> QED
    BY <2>1, RadixFacts DEF Scalar24
<1>2. u \in Scalar24 /\ u[k] = s[k] - c * Radix /\ \A i \in 0..23 : i # k => u[i] = s[i]
  BY <1>1 DEF Scalar24
<1>3. t = [u EXCEPT ![k + 1] = @ + c]
  <2>1. u[k + 1] = s[k + 1]
    BY <1>1, <1>2
  <2> QED
    BY <2>1 DEF CarryBy
<1> HIDE DEF u, t
<1>4. t \in Scalar24 /\ t[k + 1] = u[k + 1] + c /\ \A i \in 0..23 : i # k + 1 => t[i] = u[i]
  BY <1>1, <1>2, <1>3 DEF Scalar24
<1>5. Of24(u) = Of24(s) + (u[k] - s[k]) * At(k)
  BY <1>1, <1>2, Of24Change
<1>6. Of24(t) = Of24(u) + (t[k + 1] - u[k + 1]) * At(k + 1)
  BY <1>1, <1>2, <1>4, Of24Change
<1>7. At(k + 1) = At(k) * Radix /\ At(k) \in Int /\ Radix \in Int
  BY AtIs, RadixFacts
<1>8. u[k + 1] = s[k + 1]
  BY <1>1, <1>2
<1>9. Of24(t) = Of24(s)
  <2>1. u[k] - s[k] = -(c * Radix) /\ t[k + 1] - u[k + 1] = c
    BY <1>1, <1>2, <1>4, <1>8
  <2>2. \A x, y, z \in Int : (-(x * y)) * z + x * (z * y) = 0
    OBVIOUS
  <2>3. (-(c * Radix)) * At(k) + c * (At(k) * Radix) = 0
    BY <1>7, <2>2
  <2>4. PICK x \in Int : x = (-(c * Radix)) * At(k)
    BY <1>1, <1>7
  <2>5. PICK y \in Int : y = c * (At(k) * Radix)
    BY <1>1, <1>7
  <2>6. Of24(s) \in Int
    BY Of24Type
  <2> QED
    BY <1>5, <1>6, <1>7, <2>1, <2>3, <2>4, <2>5, <2>6
<1>10. t[k] = s[k] - c * Radix
  BY <1>1, <1>2, <1>4
<1>11. \A i \in 0..23 : i # k /\ i # k + 1 => t[i] = s[i]
  BY <1>2, <1>4
<1>12. t[k + 1] = s[k + 1] + c
  BY <1>4, <1>8
<1> QED
  BY <1>4, <1>9, <1>10, <1>11, <1>12 DEF CarriedBy, t

(* Folding a limb down takes a multiple of the order away. *)
FoldedDown(s, t, k) ==
    /\ t \in Scalar24
    /\ t[k] = 0
    /\ \A i \in k - 12..k - 7 : t[i] = s[i] + s[k] * Top[i - k + 13]
    /\ \A i \in 0..23 : i # k /\ i \notin k - 12..k - 7 => t[i] = s[i]
    /\ Of24(t) = Of24(s) - (s[k] * At(k - 12)) * Order

TopLimbs == [i \in 0..5 |-> Top[i + 1]]

LEMMA TopFacts == /\ \A i \in 1..6 : Top[i] \in Int /\ -Half <= Top[i] /\ Top[i] <= Half
                  /\ \A i \in 0..5 : TopLimbs[i] \in Int
                  /\ TopNumber \in Int /\ TopNumber <= 0
                  /\ Order \in Int /\ Order >= At(12) /\ Order = At(12) - TopNumber
<1>1. ASSUME NEW i \in 1..6 PROVE Top[i] \in Int /\ -Half <= Top[i] /\ Top[i] <= Half
  <2>1. Top[i] \in Int /\ 2 * Top[i] \in -Radix..Radix
    BY ScalarLimbsAssumption
  <2> QED
    BY <2>1, RadixFacts
<1>2. \A i \in 0..5 : TopLimbs[i] \in Int
  BY <1>1 DEF TopLimbs
<1>3. TopNumber \in Int /\ TopNumber <= 0
  <2>1. 6 \in Nat /\ 6 \in 0..24 /\ \A i \in 0..6 - 1 : TopLimbs[i] \in Int
    BY <1>2
  <2>2. Worth(TopLimbs, ScalarRadix, 6) \in Int
    BY <2>1, ScalarRadixIs, WorthType
  <2> QED
    BY <2>2, ScalarLimbsAssumption DEF TopNumber, TopLimbs
<1>4. At(12) \in Int /\ At(12) >= 1
  BY AtIs
<1>5. Order = At(12) - TopNumber
  BY DEF Order, At
<1> QED
  BY <1>1, <1>2, <1>3, <1>4, <1>5

LEMMA FoldDownIs ==
    ASSUME NEW s \in Scalar24, NEW k \in 12..23
    PROVE  FoldedDown(s, FoldDown(s, k), k)
<1> DEFINE t == FoldDown(s, k)
           b == k - 12
           x == s[k]
<1>1. x \in Int /\ k \in 0..23 /\ b \in 0..11 /\ k = b + 12
  BY DEF Scalar24
<1>2. \A i \in 0..23 : s[i] \in Int
  BY DEF Scalar24
<1>3. ASSUME NEW i \in b..b + 5 PROVE x * Top[i - k + 13] \in Int
  <2>1. Top[i - k + 13] \in Int
    BY <1>1, TopFacts
  <2>2. \A y, z \in Int : y * z \in Int
    OBVIOUS
  <2> QED
    BY <1>1, <2>1, <2>2
<1>4. t = [i \in 0..23 |-> IF i = k THEN 0 ELSE IF i \in b..b + 5 THEN s[i] + x * Top[i - k + 13] ELSE s[i]]
  <2>1. DOMAIN s = 0..23 /\ k - 7 = b + 5
    BY DEF Scalar24
  <2> QED
    BY <2>1 DEF FoldDown
<1> HIDE DEF t
<1>5. \A i \in 0..23 : t[i] = IF i = k THEN 0 ELSE IF i \in b..b + 5 THEN s[i] + x * Top[i - k + 13] ELSE s[i]
  BY <1>4
<1>6. t \in Scalar24
  <2>1. ASSUME NEW i \in 0..23
        PROVE  (IF i = k THEN 0 ELSE IF i \in b..b + 5 THEN s[i] + x * Top[i - k + 13] ELSE s[i]) \in Int
    <3>1. s[i] \in Int
      BY <1>2
    <3>2. CASE i \in b..b + 5
      <4>1. PICK y \in Int : y = x * Top[i - k + 13]
        BY <1>3, <3>2
      <4>2. s[i] + x * Top[i - k + 13] \in Int
        BY <3>1, <4>1
      <4> QED
        BY <3>1, <4>2
    <3> QED
      BY <3>1, <3>2
  <2> QED
    BY <1>4, <2>1 DEF Scalar24
<1>7. t[k] = 0 /\ \A i \in 0..23 : i # k /\ i \notin b..b + 5 => t[i] = s[i]
  BY <1>1, <1>5
<1>8. \A i \in b..b + 5 : t[i] = s[i] + x * Top[i - k + 13]
  BY <1>1, <1>5
<1> DEFINE u(j) == [i \in 0..23 |-> IF i \in b..b + j - 1 THEN t[i] ELSE s[i]]
           W(j) == Worth(TopLimbs, ScalarRadix, j)
           A == {j \in Nat : j <= 6 => Of24(u(j)) = Of24(s) + (x * At(b)) * W(j)}
<1> HIDE DEF x, b
<1>9. \A j \in 0..6 : W(j) \in Int
  <2>1. ASSUME NEW j \in 0..6 PROVE Worth(TopLimbs, ScalarRadix, j) \in Int
    <3>1. j \in Nat /\ j \in 0..24 /\ \A i \in 0..j - 1 : TopLimbs[i] \in Int
      BY TopFacts
    <3> QED
      BY <3>1, ScalarRadixIs, WorthType
  <2> QED
    BY <2>1
<1>10. \A j \in 0..6 : u(j) \in Scalar24
  BY <1>2, <1>6 DEF Scalar24
<1>11. At(b) \in Int /\ Of24(s) \in Int /\ x * At(b) \in Int
  <2>1. At(b) \in Int
    BY <1>1, AtIs
  <2> QED
    BY <1>1, <2>1, Of24Type
<1>12. 0 \in A
  <2>1. u(0) = s
    <3>1. \A i \in 0..23 : u(0)[i] = s[i]
      BY <1>1
    <3>2. DOMAIN s = 0..23 /\ s = [i \in DOMAIN s |-> s[i]]
      BY DEF Scalar24
    <3> QED
      BY <1>1, <3>1, <3>2
  <2>2. (x * At(b)) * W(0) = 0
    BY <1>11, WorthZero
  <2> HIDE DEF u, W
  <2> QED
    BY <1>11, <2>1, <2>2
<1>13. ASSUME NEW j \in Nat, j \in A PROVE j + 1 \in A
  <2>1. SUFFICES ASSUME j + 1 <= 6 PROVE Of24(u(j + 1)) = Of24(s) + (x * At(b)) * W(j + 1)
    OBVIOUS
  <2>2. u(j) \in Scalar24 /\ u(j + 1) \in Scalar24 /\ j \in 0..5
    BY <1>10, <2>1
  <2>3. b + j \in 0..23 /\ \A i \in 0..23 : i # b + j => u(j + 1)[i] = u(j)[i]
    BY <1>1, <2>1
  <2>4. u(j + 1)[b + j] = t[b + j] /\ u(j)[b + j] = s[b + j]
    BY <1>1, <2>1
  <2>5. Of24(u(j + 1)) = Of24(u(j)) + (u(j + 1)[b + j] - u(j)[b + j]) * At(b + j)
    <3> HIDE DEF u
    <3> QED
      BY <2>2, <2>3, Of24Change
  <2>6. t[b + j] = s[b + j] + x * Top[j + 1]
    <3>1. (b + j) - k + 13 = j + 1 /\ b + j \in b..b + 5
      BY <1>1, <2>1
    <3> QED
      BY <1>8, <3>1
  <2>7. At(b + j) = At(b) * At(j)
    BY <1>1, <2>2, AtSum
  <2>8. Top[j + 1] \in Int /\ At(j) \in Int /\ s[b + j] \in Int /\ x * Top[j + 1] \in Int
    <3>1. Top[j + 1] \in Int
      BY <2>2, TopFacts
    <3> QED
      BY <1>1, <1>2, <2>2, <2>3, <3>1, AtIs
  <2>9. W(j + 1) = W(j) + Top[j + 1] * At(j)
    <3>1. IsRadix(ScalarRadix, j + 1) /\ \A i \in 0..j : TopLimbs[i] \in Int
      BY <2>2, ScalarRadixIs, TopFacts
    <3>2. TopLimbs[j] = Top[j + 1]
      BY <2>2 DEF TopLimbs
    <3> QED
      BY <3>1, <3>2, WorthStep DEF At
  <2>10. Of24(u(j)) = Of24(s) + (x * At(b)) * W(j)
    BY <1>13, <2>1
  <2>11. u(j + 1)[b + j] - u(j)[b + j] = x * Top[j + 1]
    <3> HIDE DEF u
    <3> QED
      BY <2>4, <2>6, <2>8
  <2> HIDE DEF u, W
  <2>12. Of24(u(j + 1)) = Of24(u(j)) + (x * Top[j + 1]) * (At(b) * At(j))
    BY <2>5, <2>7, <2>11
  <2>13. W(j) \in Int
    BY <1>9, <2>2
  <2>14. (Of24(s) + (x * At(b)) * W(j)) + (x * Top[j + 1]) * (At(b) * At(j))
             = Of24(s) + (x * At(b)) * (W(j) + Top[j + 1] * At(j))
    <3>1. PICK v \in Int : v = Of24(s)
      BY <1>11
    <3>2. PICK p \in Int : p = At(b)
      BY <1>11
    <3>3. PICK w \in Int : w = W(j)
      BY <2>13
    <3>4. PICK q \in Int : q = Top[j + 1]
      BY <2>8
    <3>5. PICK g \in Int : g = At(j)
      BY <2>8
    <3>6. (v + (x * p) * w) + (x * q) * (p * g) = v + (x * p) * (w + q * g)
      BY <1>1
    <3> QED
      BY <3>1, <3>2, <3>3, <3>4, <3>5, <3>6
  <2> QED
    BY <2>9, <2>10, <2>12, <2>14
<1>14. Of24(u(6)) = Of24(s) + (x * At(b)) * TopNumber
  <2> HIDE DEF A
  <2>1. 6 \in A
    BY <1>12, <1>13, SetInduction
  <2>2. W(6) = TopNumber
    BY DEF TopNumber, TopLimbs
  <2> QED
    BY <2>1, <2>2 DEF A
<1>15. u(6) \in Scalar24 /\ u(6)[k] = x /\ \A i \in 0..23 : i # k => t[i] = u(6)[i]
  <2>1. u(6) \in Scalar24
    BY <1>10
  <2>2. u(6)[k] = s[k]
    BY <1>1
  <2>3. \A i \in 0..23 : i # k => t[i] = u(6)[i]
    BY <1>1, <1>7
  <2> QED
    BY <2>1, <2>2, <2>3 DEF x
<1> HIDE DEF u, A, W
<1>16. Of24(t) = Of24(u(6)) + (t[k] - u(6)[k]) * At(k)
  BY <1>1, <1>6, <1>15, Of24Change
<1>17. At(k) = At(b) * At(12)
  BY <1>1, AtSum
<1>18. Of24(t) = Of24(s) - (x * At(b)) * Order
  <2>1. At(12) \in Int /\ TopNumber \in Int /\ Order = At(12) - TopNumber
    BY AtIs, TopFacts
  <2>2. (Of24(s) + (x * At(b)) * TopNumber) + (0 - x) * (At(b) * At(12))
            = Of24(s) - (x * At(b)) * (At(12) - TopNumber)
    <3>1. PICK v \in Int : v = Of24(s)
      BY <1>11
    <3>2. PICK p \in Int : p = At(b)
      BY <1>11
    <3>3. PICK n \in Int : n = TopNumber
      BY <2>1
    <3>4. PICK q \in Int : q = At(12)
      BY <2>1
    <3>5. (v + (x * p) * n) + (0 - x) * (p * q) = v - (x * p) * (q - n)
      BY <1>1
    <3> QED
      BY <3>1, <3>2, <3>3, <3>4, <3>5
  <2> QED
    BY <1>7, <1>14, <1>15, <1>16, <1>17, <2>1, <2>2
<1>19. \A i \in k - 12..k - 7 : t[i] = s[i] + s[k] * Top[i - k + 13]
  BY <1>1, <1>8 DEF x, b
<1>20. \A i \in 0..23 : i # k /\ i \notin k - 12..k - 7 => t[i] = s[i]
  BY <1>1, <1>7 DEF b
<1> QED
  BY <1>6, <1>7, <1>18, <1>19, <1>20 DEF FoldedDown, t, x, b


-----------------------------------------------------------------------------
(* The passes of sc_reduce: what comes after each step of one. *)
QuotientOf(x) == (x + Half) \div Radix

LEMMA DivType == ASSUME NEW x \in Int PROVE x \div Radix \in Int /\ QuotientOf(x) \in Int
BY RadixFacts DEF QuotientOf

LEMMA NearestIs ==
    ASSUME NEW s \in Scalar24, NEW k \in 0..22
    PROVE  CarriedBy(s, CarryNearest(s, k), k, QuotientOf(s[k]))
<1>1. s[k] \in Int
  BY DEF Scalar24
<1>2. QuotientOf(s[k]) \in Int
  BY <1>1, DivType
<1>3. CarryNearest(s, k) = CarryBy(s, k, QuotientOf(s[k]))
  BY DEF CarryNearest, QuotientOf, Half
<1> QED
  BY <1>2, <1>3, CarryByIs

LEMMA DownIs ==
    ASSUME NEW s \in Scalar24, NEW k \in 0..22
    PROVE  CarriedBy(s, CarryDown(s, k), k, s[k] \div Radix)
<1>1. s[k] \in Int
  BY DEF Scalar24
<1>2. s[k] \div Radix \in Int
  BY <1>1, DivType
<1>3. CarryDown(s, k) = CarryBy(s, k, s[k] \div Radix)
  BY DEF CarryDown
<1> QED
  BY <1>2, <1>3, CarryByIs

NearestAt(D, j, from) == CarryNearest(D[j - 1], from + 2 * (j - 1))
NearestBody(s, from, n, D) == [j \in 0..n |-> IF j = 0 THEN s ELSE NearestAt(D, j, from)]
NearestRun(s, from, n) == CHOOSE D : D = NearestBody(s, from, n, D)
IsNearestRun(D, s, from, n) ==
    D \in [0..n -> Scalar24] /\ D[0] = s /\ \A j \in 1..n : D[j] = NearestAt(D, j, from)

LEMMA NearestRunIs ==
    ASSUME NEW s \in Scalar24, NEW from \in Int, NEW n \in Nat,
           \A j \in 1..n : from + 2 * (j - 1) \in 0..22
    PROVE  /\ IsNearestRun(NearestRun(s, from, n), s, from, n)
           /\ Through(CarryNearest, s, from, 2, n) = NearestRun(s, from, n)[n]
<1> DEFINE at(j) == from + 2 * (j - 1)
           h == [p \in Scalar24 \X (1..n) |-> CarryNearest(p[1], at(p[2]))]
           G == NearestRun(s, from, n)
<1>1. \A x \in Scalar24, j \in 1..n : CarryNearest(x, at(j)) \in Scalar24
  BY NearestIs DEF CarriedBy
<1>2. h \in [Scalar24 \X (1..n) -> Scalar24]
  <2>1. ASSUME NEW p \in Scalar24 \X (1..n) PROVE CarryNearest(p[1], at(p[2])) \in Scalar24
    <3>1. p[1] \in Scalar24 /\ p[2] \in 1..n
      OBVIOUS
    <3> HIDE DEF at
    <3> QED
      BY <1>1, <3>1
  <2> HIDE DEF at
  <2> QED
    BY <2>1
<1>3. \A x \in Scalar24, j \in 1..n : h[<<x, j>>] = CarryNearest(x, at(j))
  <2> HIDE DEF at
  <2> QED
    OBVIOUS
<1> HIDE DEF h, at
<1>4. PICK g : Follows(g, Scalar24, n, s, h)
  BY <1>2, Recursion
<1>5. g \in [0..n -> Scalar24] /\ g[0] = s /\ \A j \in 1..n : g[j] = h[<<g[j - 1], j>>]
  BY <1>4 DEF Follows
<1>6. g = NearestBody(s, from, n, g)
  <2>1. ASSUME NEW j \in 0..n PROVE g[j] = IF j = 0 THEN s ELSE NearestAt(g, j, from)
    <3>1. CASE j = 0
      BY <1>5, <3>1
    <3>2. CASE j # 0
      <4>1. j \in 1..n /\ j - 1 \in 0..n
        BY <3>2
      <4>2. g[j - 1] \in Scalar24
        BY <1>5, <4>1
      <4>3. g[j] = CarryNearest(g[j - 1], at(j))
        BY <1>3, <1>5, <4>1, <4>2
      <4> QED
        BY <3>2, <4>3 DEF NearestAt, at
    <3> QED
      BY <3>1, <3>2
  <2>2. DOMAIN g = 0..n /\ g = [j \in DOMAIN g |-> g[j]]
    BY <1>5
  <2> QED
    BY <2>1, <2>2 DEF NearestBody
<1>7. G = NearestBody(s, from, n, G)
  BY <1>6 DEF NearestRun
<1> HIDE DEF G
<1>8. G = [j \in 0..n |-> IF j = 0 THEN s ELSE NearestAt(G, j, from)]
  BY <1>7 DEF NearestBody
<1>9. \A j \in 0..n : G[j] = IF j = 0 THEN s ELSE NearestAt(G, j, from)
  BY <1>8
<1>10. G[0] = s /\ \A j \in 1..n : G[j] = NearestAt(G, j, from)
  BY <1>9
<1>11. \A j \in 0..n : G[j] \in Scalar24
  <2> DEFINE A == {m \in Nat : m <= n => G[m] \in Scalar24}
  <2>1. 0 \in A
    BY <1>10
  <2>2. ASSUME NEW m \in Nat, m \in A PROVE m + 1 \in A
    <3>1. SUFFICES ASSUME m + 1 <= n PROVE G[m + 1] \in Scalar24
      OBVIOUS
    <3>2. m + 1 \in 1..n /\ (m + 1) - 1 = m
      BY <3>1
    <3>3. G[m + 1] = CarryNearest(G[m], at(m + 1))
      BY <1>10, <3>2 DEF NearestAt, at
    <3>4. G[m] \in Scalar24
      BY <2>2, <3>1
    <3> QED
      BY <1>1, <3>2, <3>3, <3>4
  <2> HIDE DEF A
  <2>3. \A m \in Nat : m \in A
    BY <2>1, <2>2, SetInduction
  <2> QED
    BY <2>3 DEF A
<1>12. G \in [0..n -> Scalar24]
  <2>1. DOMAIN G = 0..n /\ G = [j \in DOMAIN G |-> G[j]]
    BY <1>8
  <2> QED
    BY <1>11, <2>1
<1>13. IsNearestRun(G, s, from, n)
  BY <1>10, <1>12 DEF IsNearestRun
<1>14. Through(CarryNearest, s, from, 2, n) = NearestRun(s, from, n)[n]
  BY DEF Through, NearestRun, NearestBody, NearestAt
<1> QED
  BY <1>13, <1>14 DEF G

DownAt(D, j, from) == CarryDown(D[j - 1], from + 1 * (j - 1))
DownBody(s, from, n, D) == [j \in 0..n |-> IF j = 0 THEN s ELSE DownAt(D, j, from)]
DownRun(s, from, n) == CHOOSE D : D = DownBody(s, from, n, D)
IsDownRun(D, s, from, n) ==
    D \in [0..n -> Scalar24] /\ D[0] = s /\ \A j \in 1..n : D[j] = DownAt(D, j, from)

LEMMA DownRunIs ==
    ASSUME NEW s \in Scalar24, NEW from \in Int, NEW n \in Nat,
           \A j \in 1..n : from + 1 * (j - 1) \in 0..22
    PROVE  /\ IsDownRun(DownRun(s, from, n), s, from, n)
           /\ Through(CarryDown, s, from, 1, n) = DownRun(s, from, n)[n]
<1> DEFINE at(j) == from + 1 * (j - 1)
           h == [p \in Scalar24 \X (1..n) |-> CarryDown(p[1], at(p[2]))]
           G == DownRun(s, from, n)
<1>1. \A x \in Scalar24, j \in 1..n : CarryDown(x, at(j)) \in Scalar24
  BY DownIs DEF CarriedBy
<1>2. h \in [Scalar24 \X (1..n) -> Scalar24]
  <2>1. ASSUME NEW p \in Scalar24 \X (1..n) PROVE CarryDown(p[1], at(p[2])) \in Scalar24
    <3>1. p[1] \in Scalar24 /\ p[2] \in 1..n
      OBVIOUS
    <3> HIDE DEF at
    <3> QED
      BY <1>1, <3>1
  <2> HIDE DEF at
  <2> QED
    BY <2>1
<1>3. \A x \in Scalar24, j \in 1..n : h[<<x, j>>] = CarryDown(x, at(j))
  <2> HIDE DEF at
  <2> QED
    OBVIOUS
<1> HIDE DEF h, at
<1>4. PICK g : Follows(g, Scalar24, n, s, h)
  BY <1>2, Recursion
<1>5. g \in [0..n -> Scalar24] /\ g[0] = s /\ \A j \in 1..n : g[j] = h[<<g[j - 1], j>>]
  BY <1>4 DEF Follows
<1>6. g = DownBody(s, from, n, g)
  <2>1. ASSUME NEW j \in 0..n PROVE g[j] = IF j = 0 THEN s ELSE DownAt(g, j, from)
    <3>1. CASE j = 0
      BY <1>5, <3>1
    <3>2. CASE j # 0
      <4>1. j \in 1..n /\ j - 1 \in 0..n
        BY <3>2
      <4>2. g[j - 1] \in Scalar24
        BY <1>5, <4>1
      <4>3. g[j] = CarryDown(g[j - 1], at(j))
        BY <1>3, <1>5, <4>1, <4>2
      <4> QED
        BY <3>2, <4>3 DEF DownAt, at
    <3> QED
      BY <3>1, <3>2
  <2>2. DOMAIN g = 0..n /\ g = [j \in DOMAIN g |-> g[j]]
    BY <1>5
  <2> QED
    BY <2>1, <2>2 DEF DownBody
<1>7. G = DownBody(s, from, n, G)
  BY <1>6 DEF DownRun
<1> HIDE DEF G
<1>8. G = [j \in 0..n |-> IF j = 0 THEN s ELSE DownAt(G, j, from)]
  BY <1>7 DEF DownBody
<1>9. \A j \in 0..n : G[j] = IF j = 0 THEN s ELSE DownAt(G, j, from)
  BY <1>8
<1>10. G[0] = s /\ \A j \in 1..n : G[j] = DownAt(G, j, from)
  BY <1>9
<1>11. \A j \in 0..n : G[j] \in Scalar24
  <2> DEFINE A == {m \in Nat : m <= n => G[m] \in Scalar24}
  <2>1. 0 \in A
    BY <1>10
  <2>2. ASSUME NEW m \in Nat, m \in A PROVE m + 1 \in A
    <3>1. SUFFICES ASSUME m + 1 <= n PROVE G[m + 1] \in Scalar24
      OBVIOUS
    <3>2. m + 1 \in 1..n /\ (m + 1) - 1 = m
      BY <3>1
    <3>3. G[m + 1] = CarryDown(G[m], at(m + 1))
      BY <1>10, <3>2 DEF DownAt, at
    <3>4. G[m] \in Scalar24
      BY <2>2, <3>1
    <3> QED
      BY <1>1, <3>2, <3>3, <3>4
  <2> HIDE DEF A
  <2>3. \A m \in Nat : m \in A
    BY <2>1, <2>2, SetInduction
  <2> QED
    BY <2>3 DEF A
<1>12. G \in [0..n -> Scalar24]
  <2>1. DOMAIN G = 0..n /\ G = [j \in DOMAIN G |-> G[j]]
    BY <1>8
  <2> QED
    BY <1>11, <2>1
<1>13. IsDownRun(G, s, from, n)
  BY <1>10, <1>12 DEF IsDownRun
<1>14. Through(CarryDown, s, from, 1, n) = DownRun(s, from, n)[n]
  BY DEF Through, DownRun, DownBody, DownAt
<1> QED
  BY <1>13, <1>14 DEF G

FoldAt(D, j, from) == FoldDown(D[j - 1], from + (-1) * (j - 1))
FoldBody(s, from, n, D) == [j \in 0..n |-> IF j = 0 THEN s ELSE FoldAt(D, j, from)]
FoldRun(s, from, n) == CHOOSE D : D = FoldBody(s, from, n, D)
IsFoldRun(D, s, from, n) ==
    D \in [0..n -> Scalar24] /\ D[0] = s /\ \A j \in 1..n : D[j] = FoldAt(D, j, from)

LEMMA FoldRunIs ==
    ASSUME NEW s \in Scalar24, NEW from \in Int, NEW n \in Nat,
           \A j \in 1..n : from + (-1) * (j - 1) \in 12..23
    PROVE  /\ IsFoldRun(FoldRun(s, from, n), s, from, n)
           /\ Through(FoldDown, s, from, (-1), n) = FoldRun(s, from, n)[n]
<1> DEFINE at(j) == from + (-1) * (j - 1)
           h == [p \in Scalar24 \X (1..n) |-> FoldDown(p[1], at(p[2]))]
           G == FoldRun(s, from, n)
<1>1. \A x \in Scalar24, j \in 1..n : FoldDown(x, at(j)) \in Scalar24
  BY FoldDownIs DEF FoldedDown
<1>2. h \in [Scalar24 \X (1..n) -> Scalar24]
  <2>1. ASSUME NEW p \in Scalar24 \X (1..n) PROVE FoldDown(p[1], at(p[2])) \in Scalar24
    <3>1. p[1] \in Scalar24 /\ p[2] \in 1..n
      OBVIOUS
    <3> HIDE DEF at
    <3> QED
      BY <1>1, <3>1
  <2> HIDE DEF at
  <2> QED
    BY <2>1
<1>3. \A x \in Scalar24, j \in 1..n : h[<<x, j>>] = FoldDown(x, at(j))
  <2> HIDE DEF at
  <2> QED
    OBVIOUS
<1> HIDE DEF h, at
<1>4. PICK g : Follows(g, Scalar24, n, s, h)
  BY <1>2, Recursion
<1>5. g \in [0..n -> Scalar24] /\ g[0] = s /\ \A j \in 1..n : g[j] = h[<<g[j - 1], j>>]
  BY <1>4 DEF Follows
<1>6. g = FoldBody(s, from, n, g)
  <2>1. ASSUME NEW j \in 0..n PROVE g[j] = IF j = 0 THEN s ELSE FoldAt(g, j, from)
    <3>1. CASE j = 0
      BY <1>5, <3>1
    <3>2. CASE j # 0
      <4>1. j \in 1..n /\ j - 1 \in 0..n
        BY <3>2
      <4>2. g[j - 1] \in Scalar24
        BY <1>5, <4>1
      <4>3. g[j] = FoldDown(g[j - 1], at(j))
        BY <1>3, <1>5, <4>1, <4>2
      <4> QED
        BY <3>2, <4>3 DEF FoldAt, at
    <3> QED
      BY <3>1, <3>2
  <2>2. DOMAIN g = 0..n /\ g = [j \in DOMAIN g |-> g[j]]
    BY <1>5
  <2> QED
    BY <2>1, <2>2 DEF FoldBody
<1>7. G = FoldBody(s, from, n, G)
  BY <1>6 DEF FoldRun
<1> HIDE DEF G
<1>8. G = [j \in 0..n |-> IF j = 0 THEN s ELSE FoldAt(G, j, from)]
  BY <1>7 DEF FoldBody
<1>9. \A j \in 0..n : G[j] = IF j = 0 THEN s ELSE FoldAt(G, j, from)
  BY <1>8
<1>10. G[0] = s /\ \A j \in 1..n : G[j] = FoldAt(G, j, from)
  BY <1>9
<1>11. \A j \in 0..n : G[j] \in Scalar24
  <2> DEFINE A == {m \in Nat : m <= n => G[m] \in Scalar24}
  <2>1. 0 \in A
    BY <1>10
  <2>2. ASSUME NEW m \in Nat, m \in A PROVE m + 1 \in A
    <3>1. SUFFICES ASSUME m + 1 <= n PROVE G[m + 1] \in Scalar24
      OBVIOUS
    <3>2. m + 1 \in 1..n /\ (m + 1) - 1 = m
      BY <3>1
    <3>3. G[m + 1] = FoldDown(G[m], at(m + 1))
      BY <1>10, <3>2 DEF FoldAt, at
    <3>4. G[m] \in Scalar24
      BY <2>2, <3>1
    <3> QED
      BY <1>1, <3>2, <3>3, <3>4
  <2> HIDE DEF A
  <2>3. \A m \in Nat : m \in A
    BY <2>1, <2>2, SetInduction
  <2> QED
    BY <2>3 DEF A
<1>12. G \in [0..n -> Scalar24]
  <2>1. DOMAIN G = 0..n /\ G = [j \in DOMAIN G |-> G[j]]
    BY <1>8
  <2> QED
    BY <1>11, <2>1
<1>13. IsFoldRun(G, s, from, n)
  BY <1>10, <1>12 DEF IsFoldRun
<1>14. Through(FoldDown, s, from, (-1), n) = FoldRun(s, from, n)[n]
  BY DEF Through, FoldRun, FoldBody, FoldAt
<1> QED
  BY <1>13, <1>14 DEF G


-----------------------------------------------------------------------------
(* The passes as a whole. *)
LEMMA QuotientBounds ==
    ASSUME NEW x \in Int
    PROVE  /\ QuotientOf(x) \in Int
           /\ -Half <= x - QuotientOf(x) * Radix /\ x - QuotientOf(x) * Radix <= Half
           /\ \A e \in Nat : -(e * Radix) <= x /\ x <= e * Radix => -e <= QuotientOf(x) /\ QuotientOf(x) <= e
<1> DEFINE q == QuotientOf(x)
<1>1. PICK r \in Int : r = Radix /\ r >= 2
  BY RadixFacts
<1>2. PICK y \in Int : y = x + Half
  BY RadixFacts
<1>3. q = y \div r
  BY <1>1, <1>2 DEF QuotientOf
<1>4. q \in Int /\ y - q * r >= 0 /\ y - q * r < r
  <2>1. y \div r \in Int /\ y = (y \div r) * r + (y % r) /\ y % r >= 0 /\ y % r < r
    BY <1>1
  <2>2. PICK z \in Int : z = y \div r
    BY <2>1
  <2>3. PICK p \in Int : p = z * r
    BY <2>1, <2>2
  <2>4. PICK m \in Int : m = y % r /\ m >= 0 /\ m < r
    BY <1>1, <2>1
  <2>5. y = p + m
    BY <2>1, <2>2, <2>3, <2>4
  <2>6. z \in Int /\ y - z * r >= 0 /\ y - z * r < r
    BY <1>1, <2>3, <2>4, <2>5
  <2> QED
    BY <1>3, <2>2, <2>6
<1> HIDE DEF q
<1>5. PICK p \in Int : p = q * r
  BY <1>4
<1>6. 2 * Half = r /\ Half \in Int /\ Half >= 1
  BY <1>1, RadixFacts
<1>7. ASSUME NEW e \in Nat, -(e * r) <= x, x <= e * r PROVE -e <= q /\ q <= e
  <2>1. PICK z \in Int : z = e * r
    OBVIOUS
  <2>2. SUFFICES ASSUME q <= -e - 1 \/ q >= e + 1 PROVE FALSE
    BY <1>4
  <2>3. CASE q >= e + 1
    <3>1. (q - e - 1) * r >= 0 /\ (q - e - 1) * r = q * r - e * r - r
      BY <1>1, <1>4, <2>3
    <3>2. p >= z + r
      BY <1>5, <2>1, <3>1
    <3> QED
      BY <1>2, <1>4, <1>5, <1>6, <1>7, <2>1, <3>2
  <2>4. CASE q <= -e - 1
    <3>1. (-e - 1 - q) * r >= 0 /\ (-e - 1 - q) * r = -(e * r) - r - q * r
      BY <1>1, <1>4, <2>4
    <3>2. p <= -z - r
      BY <1>5, <2>1, <3>1
    <3> QED
      BY <1>2, <1>4, <1>5, <1>6, <1>7, <2>1, <3>2
  <2> QED
    BY <2>2, <2>3, <2>4
<1>8. -Half <= x - q * r /\ x - q * r <= Half
  BY <1>2, <1>4, <1>5, <1>6
<1> QED
  BY <1>1, <1>4, <1>7, <1>8 DEF q

Passed(s, t, from, n) ==
    /\ t \in Scalar24
    /\ \A j \in 0..n - 1 :
           /\ t[from + 2 * j] = s[from + 2 * j] - QuotientOf(s[from + 2 * j]) * Radix
           /\ t[from + 2 * j + 1] = s[from + 2 * j + 1] + QuotientOf(s[from + 2 * j])
    /\ \A i \in 0..23 : i < from \/ i >= from + 2 * n => t[i] = s[i]
    /\ Of24(t) = Of24(s)

LEMMA NearestPass ==
    ASSUME NEW s \in Scalar24, NEW from \in Nat, NEW n \in Nat, from + 2 * n <= 24
    PROVE  Passed(s, Through(CarryNearest, s, from, 2, n), from, n)
<1> DEFINE D == NearestRun(s, from, n)
           A == {m \in Nat : m <= n => Passed(s, D[m], from, m)}
<1>1. \A j \in 1..n : from + 2 * (j - 1) \in 0..22
  OBVIOUS
<1>2. IsNearestRun(D, s, from, n) /\ Through(CarryNearest, s, from, 2, n) = D[n]
  BY <1>1, NearestRunIs
<1> HIDE DEF D
<1>3. D \in [0..n -> Scalar24] /\ D[0] = s /\ \A j \in 1..n : D[j] = CarryNearest(D[j - 1], from + 2 * (j - 1))
  BY <1>2 DEF IsNearestRun, NearestAt
<1>4. 0 \in A
  BY <1>3 DEF Passed
<1>5. ASSUME NEW m \in Nat, m \in A PROVE m + 1 \in A
  <2>1. SUFFICES ASSUME m + 1 <= n PROVE Passed(s, D[m + 1], from, m + 1)
    OBVIOUS
  <2> DEFINE d == D[m]
             t == D[m + 1]
             k == from + 2 * m
             q == QuotientOf(d[k])
  <2>2. k \in 0..22 /\ k + 1 \in 0..23
    BY <2>1
  <2>3. d \in Scalar24 /\ t = CarryNearest(d, k)
    <3>1. m + 1 \in 1..n /\ m \in 0..n /\ (m + 1) - 1 = m
      BY <2>1
    <3> QED
      BY <1>3, <3>1
  <2>4. Passed(s, d, from, m)
    BY <1>5, <2>1
  <2> HIDE DEF d, t
  <2>5. CarriedBy(d, t, k, q)
    BY <2>2, <2>3, NearestIs
  <2>6. d[k] = s[k] /\ d[k + 1] = s[k + 1]
    BY <2>2, <2>4 DEF Passed
  <2>7. /\ t \in Scalar24 /\ t[k] = d[k] - q * Radix /\ t[k + 1] = d[k + 1] + q
        /\ \A i \in 0..23 : i # k /\ i # k + 1 => t[i] = d[i]
        /\ Of24(t) = Of24(d)
    BY <2>5 DEF CarriedBy
  <2>8. q = QuotientOf(s[k])
    BY <2>6
  <2> HIDE DEF q
  <2>9. ASSUME NEW j \in 0..(m + 1) - 1
        PROVE  /\ t[from + 2 * j] = s[from + 2 * j] - QuotientOf(s[from + 2 * j]) * Radix
               /\ t[from + 2 * j + 1] = s[from + 2 * j + 1] + QuotientOf(s[from + 2 * j])
    <3>1. CASE j = m
      BY <2>6, <2>7, <2>8, <3>1
    <3>2. CASE j # m
      <4>1. j \in 0..m - 1
        BY <3>2
      <4>2. /\ d[from + 2 * j] = s[from + 2 * j] - QuotientOf(s[from + 2 * j]) * Radix
            /\ d[from + 2 * j + 1] = s[from + 2 * j + 1] + QuotientOf(s[from + 2 * j])
        BY <2>4, <4>1 DEF Passed
      <4>3. t[from + 2 * j] = d[from + 2 * j] /\ t[from + 2 * j + 1] = d[from + 2 * j + 1]
        <5>1. from + 2 * j \in 0..23 /\ from + 2 * j + 1 \in 0..23 /\ from + 2 * j + 1 < k
          BY <2>1, <4>1
        <5> QED
          BY <2>7, <5>1
      <4> QED
        BY <4>2, <4>3
    <3> QED
      BY <3>1, <3>2
  <2>10. ASSUME NEW i \in 0..23, i < from \/ i >= from + 2 * (m + 1) PROVE t[i] = s[i]
    <3>1. i # k /\ i # k + 1 /\ (i < from \/ i >= from + 2 * m)
      BY <2>10
    <3>2. d[i] = s[i]
      BY <2>4, <3>1 DEF Passed
    <3> QED
      BY <2>7, <3>1, <3>2
  <2>11. Of24(t) = Of24(s)
    BY <2>4, <2>7 DEF Passed
  <2> QED
    BY <2>7, <2>9, <2>10, <2>11 DEF Passed, t
<1> HIDE DEF A
<1>6. n \in A
  BY <1>4, <1>5, SetInduction
<1> QED
  BY <1>2, <1>6 DEF A

(* Limb k is brought to its width, and limb k + 1 takes what is carried. *)
LEMMA PassedBounds ==
    ASSUME NEW s \in Scalar24, NEW t, NEW from \in Nat, NEW n \in Nat, from + 2 * n <= 24,
           Passed(s, t, from, n), NEW k \in from..from + 2 * n - 1, (k - from) % 2 = 0
    PROVE  /\ -Half <= t[k] /\ t[k] <= Half
           /\ \A e \in Nat : -(e * Radix) <= s[k] /\ s[k] <= e * Radix =>
                  -e <= t[k + 1] - s[k + 1] /\ t[k + 1] - s[k + 1] <= e
<1>1. PICK j \in 0..n - 1 : k = from + 2 * j
  <2>1. (k - from) \div 2 \in 0..n - 1 /\ k = from + 2 * ((k - from) \div 2)
    OBVIOUS
  <2> QED
    BY <2>1
<1>2. k \in 0..23 /\ k + 1 \in 0..23 /\ s[k] \in Int /\ s[k + 1] \in Int
  BY <1>1 DEF Scalar24
<1>3. t[k] = s[k] - QuotientOf(s[k]) * Radix /\ t[k + 1] = s[k + 1] + QuotientOf(s[k])
  BY <1>1 DEF Passed
<1>4. PICK x \in Int : x = s[k]
  BY <1>2
<1>5. PICK q \in Int : q = QuotientOf(x)
  BY <1>4, QuotientBounds
<1>6. /\ -Half <= x - q * Radix /\ x - q * Radix <= Half
      /\ \A e \in Nat : -(e * Radix) <= x /\ x <= e * Radix => -e <= q /\ q <= e
  BY <1>5, QuotientBounds
<1>7. t[k + 1] - s[k + 1] = q
  BY <1>2, <1>3, <1>4, <1>5
<1> QED
  BY <1>3, <1>4, <1>5, <1>6, <1>7

PassedDown(s, t, n) ==
    /\ t \in Scalar24
    /\ \A i \in 0..n - 1 : t[i] \in 0..Radix - 1
    /\ \A i \in 0..23 : i > n => t[i] = s[i]
    /\ Of24(t) = Of24(s)

LEMMA DownPass ==
    ASSUME NEW s \in Scalar24, NEW n \in 0..23
    PROVE  PassedDown(s, Through(CarryDown, s, 0, 1, n), n)
<1> DEFINE D == DownRun(s, 0, n)
           A == {m \in Nat : m <= n => PassedDown(s, D[m], m)}
<1>1. 0 \in Int /\ n \in Nat /\ \A j \in 1..n : 0 + 1 * (j - 1) \in 0..22
  OBVIOUS
<1>2. IsDownRun(D, s, 0, n) /\ Through(CarryDown, s, 0, 1, n) = D[n]
  BY <1>1, DownRunIs
<1> HIDE DEF D
<1>3. D \in [0..n -> Scalar24] /\ D[0] = s /\ \A j \in 1..n : D[j] = CarryDown(D[j - 1], 0 + 1 * (j - 1))
  BY <1>2 DEF IsDownRun, DownAt
<1>4. 0 \in A
  BY <1>3 DEF PassedDown
<1>5. ASSUME NEW m \in Nat, m \in A PROVE m + 1 \in A
  <2>1. SUFFICES ASSUME m + 1 <= n PROVE PassedDown(s, D[m + 1], m + 1)
    OBVIOUS
  <2> DEFINE d == D[m]
             t == D[m + 1]
             q == d[m] \div Radix
  <2>2. m \in 0..22 /\ m + 1 \in 0..23
    BY <2>1
  <2>3. d \in Scalar24 /\ t = CarryDown(d, m)
    <3>1. m + 1 \in 1..n /\ m \in 0..n /\ 0 + 1 * ((m + 1) - 1) = m /\ (m + 1) - 1 = m
      BY <2>1
    <3> QED
      BY <1>3, <3>1
  <2>4. PassedDown(s, d, m)
    BY <1>5, <2>1
  <2> HIDE DEF d, t
  <2>5. CarriedBy(d, t, m, q)
    BY <2>2, <2>3, DownIs
  <2>6. /\ t \in Scalar24 /\ t[m] = d[m] - q * Radix
        /\ \A i \in 0..23 : i # m /\ i # m + 1 => t[i] = d[i]
        /\ Of24(t) = Of24(d)
    BY <2>5 DEF CarriedBy
  <2>7. t[m] \in 0..Radix - 1
    <3>1. PICK r \in Int : r = Radix /\ r >= 2
      BY RadixFacts
    <3>2. PICK x \in Int : x = d[m]
      BY <2>2, <2>3 DEF Scalar24
    <3>3. x \div r \in Int /\ x = (x \div r) * r + (x % r) /\ x % r >= 0 /\ x % r < r /\ x % r \in Int
      BY <3>1
    <3>4. PICK y \in Int : y = (x \div r) * r
      BY <3>3, <3>1
    <3>5. x - y \in 0..r - 1
      BY <3>3, <3>4
    <3> QED
      BY <2>6, <3>1, <3>2, <3>4, <3>5
  <2> HIDE DEF q
  <2>8. ASSUME NEW i \in 0..(m + 1) - 1 PROVE t[i] \in 0..Radix - 1
    <3>1. CASE i = m
      BY <2>7, <3>1
    <3>2. CASE i # m
      <4>1. i \in 0..m - 1 /\ i \in 0..23 /\ i # m + 1
        BY <2>2, <3>2
      <4>2. d[i] \in 0..Radix - 1
        BY <2>4, <4>1 DEF PassedDown
      <4> QED
        BY <2>6, <3>2, <4>1, <4>2
    <3> QED
      BY <3>1, <3>2
  <2>9. ASSUME NEW i \in 0..23, i > m + 1 PROVE t[i] = s[i]
    <3>1. i # m /\ i # m + 1 /\ i > m
      BY <2>9
    <3>2. d[i] = s[i]
      BY <2>4, <3>1 DEF PassedDown
    <3> QED
      BY <2>6, <3>1, <3>2
  <2>10. Of24(t) = Of24(s)
    BY <2>4, <2>6 DEF PassedDown
  <2> QED
    BY <2>6, <2>8, <2>9, <2>10 DEF PassedDown, t
<1> HIDE DEF A
<1>6. n \in A
  BY <1>1, <1>4, <1>5, SetInduction
<1> QED
  BY <1>2, <1>6 DEF A

Within(s, lo, hi, b) == \A i \in lo..hi : -b <= s[i] /\ s[i] <= b

LEMMA ProductBound ==
    ASSUME NEW x \in Int, NEW y \in Int, NEW b \in Int, NEW c \in Int,
           -b <= x, x <= b, -c <= y, y <= c
    PROVE  -(b * c) <= x * y /\ x * y <= b * c
<1>1. (b - x) * (c + y) >= 0 /\ (b + x) * (c - y) >= 0 /\ (b - x) * (c - y) >= 0 /\ (b + x) * (c + y) >= 0
  OBVIOUS
<1>2. PICK p \in Int : p = x * y
  OBVIOUS
<1>3. PICK q \in Int : q = b * c
  OBVIOUS
<1>4. PICK u \in Int : u = b * y
  OBVIOUS
<1>5. PICK v \in Int : v = x * c
  OBVIOUS
<1>6. /\ (b - x) * (c + y) = q + u - v - p
      /\ (b + x) * (c - y) = q - u + v - p
      /\ (b - x) * (c - y) = q - u - v + p
      /\ (b + x) * (c + y) = q + u + v + p
  BY <1>2, <1>3, <1>4, <1>5
<1> QED
  BY <1>1, <1>2, <1>3, <1>6

(* Six limbs are folded down from top; f bounds what a limb takes each time. *)
PassedFolds(s, t, top, b, f, n) ==
    /\ t \in Scalar24
    /\ \A i \in top - n + 1..top : t[i] = 0
    /\ \A i \in top - 6..top - n : t[i] = s[i]
    /\ \A i \in 0..23 : i > top => t[i] = s[i]
    /\ Within(t, 0, top - 6, b + n * f)
    /\ \E q \in Int : Of24(t) = Of24(s) + q * Order

LEMMA FoldPass ==
    ASSUME NEW s \in Scalar24, NEW top \in 17..23, NEW b \in Nat, NEW e \in Nat,
           Within(s, 0, top - 6, b), Within(s, top - 5, top, e)
    PROVE  PassedFolds(s, Through(FoldDown, s, top, -1, 6), top, b, e * Half, 6)
<1> DEFINE D == FoldRun(s, top, 6)
           f == e * Half
           A == {m \in Nat : m <= 6 => PassedFolds(s, D[m], top, b, f, m)}
<1>1. \A j \in 1..6 : top + (-1) * (j - 1) \in 12..23
  OBVIOUS
<1>2. IsFoldRun(D, s, top, 6) /\ Through(FoldDown, s, top, -1, 6) = D[6]
  BY <1>1, FoldRunIs
<1> HIDE DEF D
<1>3. D \in [0..6 -> Scalar24] /\ D[0] = s /\ \A j \in 1..6 : D[j] = FoldDown(D[j - 1], top + (-1) * (j - 1))
  BY <1>2 DEF IsFoldRun, FoldAt
<1>4. f \in Int /\ f >= 0
  BY RadixFacts
<1> HIDE DEF f
<1>5. 0 \in A
  <2>1. Of24(s) = Of24(s) + 0 * Order
    <3>1. Of24(s) \in Int /\ Order \in Int
      BY Of24Type, TopFacts
    <3> QED
      BY <3>1
  <2>2. Within(s, 0, top - 6, b + 0 * f)
    BY <1>4
  <2>3. PassedFolds(s, s, top, b, f, 0)
    <3>1. \E q \in Int : Of24(s) = Of24(s) + q * Order
      BY <2>1
    <3> QED
      BY <2>2, <3>1 DEF PassedFolds
  <2> QED
    BY <1>3, <2>3
<1>6. ASSUME NEW m \in Nat, m \in A PROVE m + 1 \in A
  <2>1. SUFFICES ASSUME m + 1 <= 6 PROVE PassedFolds(s, D[m + 1], top, b, f, m + 1)
    OBVIOUS
  <2> DEFINE d == D[m]
             t == D[m + 1]
             k == top - m
  <2>2. k \in 12..23 /\ k >= top - 5 /\ k <= top
    BY <2>1
  <2>3. d \in Scalar24 /\ t = FoldDown(d, k)
    <3>1. m + 1 \in 1..6 /\ m \in 0..6 /\ top + (-1) * ((m + 1) - 1) = k /\ (m + 1) - 1 = m
      BY <2>1
    <3> QED
      BY <1>3, <3>1
  <2>4. PassedFolds(s, d, top, b, f, m)
    BY <1>6, <2>1
  <2> HIDE DEF d, t
  <2>5. FoldedDown(d, t, k)
    BY <2>2, <2>3, FoldDownIs
  <2>6. /\ t \in Scalar24 /\ t[k] = 0
        /\ \A i \in k - 12..k - 7 : t[i] = d[i] + d[k] * Top[i - k + 13]
        /\ \A i \in 0..23 : i # k /\ i \notin k - 12..k - 7 => t[i] = d[i]
        /\ Of24(t) = Of24(d) - (d[k] * At(k - 12)) * Order
    BY <2>5 DEF FoldedDown
  <2>7. d[k] = s[k] /\ d[k] \in Int /\ -e <= d[k] /\ d[k] <= e
    <3>1. k \in top - 6..top - m /\ k \in top - 5..top /\ k \in 0..23
      BY <2>2
    <3>2. d[k] = s[k]
      BY <2>4, <3>1 DEF PassedFolds
    <3> QED
      BY <2>3, <3>1, <3>2 DEF Within, Scalar24
  <2>8. ASSUME NEW i \in 0..top - 6 PROVE -(b + (m + 1) * f) <= t[i] /\ t[i] <= b + (m + 1) * f
    <3>1. PICK g \in Int : g = m * f
      BY <1>4
    <3>2. (m + 1) * f = g + f
      BY <1>4, <3>1
    <3>3. PICK x \in Int : x = d[i]
      BY <2>3 DEF Scalar24
    <3>4. -(b + g) <= x /\ x <= b + g
      BY <2>4, <3>1, <3>3 DEF PassedFolds, Within
    <3>5. CASE i \in k - 12..k - 7
      <4>1. Top[i - k + 13] \in Int /\ -Half <= Top[i - k + 13] /\ Top[i - k + 13] <= Half /\ Half \in Int
        BY <2>2, <3>5, TopFacts, RadixFacts
      <4>2. -f <= d[k] * Top[i - k + 13] /\ d[k] * Top[i - k + 13] <= f
        BY <2>7, <4>1, ProductBound DEF f
      <4>3. PICK z \in Int : z = d[k] * Top[i - k + 13]
        BY <2>7, <4>1
      <4>4. t[i] = x + z
        BY <2>6, <3>3, <3>5, <4>3
      <4> QED
        BY <1>4, <3>2, <3>4, <4>2, <4>3, <4>4
    <3>6. CASE i \notin k - 12..k - 7
      <4>1. t[i] = x
        BY <2>2, <2>6, <3>3, <3>6
      <4> QED
        BY <1>4, <3>2, <3>4, <4>1
    <3> QED
      BY <3>5, <3>6
  <2>9. ASSUME NEW i \in top - (m + 1) + 1..top PROVE t[i] = 0
    <3>1. CASE i = k
      BY <2>6, <3>1
    <3>2. CASE i # k
      <4>1. i \in top - m + 1..top /\ i \in 0..23 /\ i \notin k - 12..k - 7
        BY <2>2, <3>2
      <4>2. d[i] = 0
        BY <2>4, <4>1 DEF PassedFolds
      <4> QED
        BY <2>6, <3>2, <4>1, <4>2
    <3> QED
      BY <3>1, <3>2
  <2>10. ASSUME NEW i \in top - 6..top - (m + 1) PROVE t[i] = s[i]
    <3>1. i \in top - 6..top - m /\ i \in 0..23 /\ i # k /\ i \notin k - 12..k - 7
      BY <2>1, <2>2
    <3>2. d[i] = s[i]
      BY <2>4, <3>1 DEF PassedFolds
    <3> QED
      BY <2>6, <3>1, <3>2
  <2>11. ASSUME NEW i \in 0..23, i > top PROVE t[i] = s[i]
    <3>1. i # k /\ i \notin k - 12..k - 7
      BY <2>2, <2>11
    <3>2. d[i] = s[i]
      BY <2>4, <2>11 DEF PassedFolds
    <3> QED
      BY <2>6, <3>1, <3>2
  <2>12. \E q \in Int : Of24(t) = Of24(s) + q * Order
    <3>1. PICK q \in Int : Of24(d) = Of24(s) + q * Order
      BY <2>4 DEF PassedFolds
    <3>2. At(k - 12) \in Int /\ Order \in Int /\ Of24(s) \in Int
      <4>1. k - 12 \in 0..24
        BY <2>2
      <4> QED
        BY <4>1, AtIs, TopFacts, Of24Type
    <3>3. PICK p \in Int : p = d[k] * At(k - 12)
      BY <2>7, <3>2
    <3>4. PICK o \in Int : o = Order
      BY <3>2
    <3>5. (Of24(s) + q * o) - p * o = Of24(s) + (q - p) * o
      BY <3>2
    <3>6. q - p \in Int
      OBVIOUS
    <3> QED
      BY <2>6, <3>1, <3>3, <3>4, <3>5, <3>6
  <2>13. Within(t, 0, top - 6, b + (m + 1) * f)
    BY <2>8 DEF Within
  <2> QED
    BY <2>6, <2>9, <2>10, <2>11, <2>12, <2>13 DEF PassedFolds, t
<1> HIDE DEF A
<1>7. 6 \in A
  BY <1>5, <1>6, SetInduction
<1> QED
  BY <1>2, <1>7 DEF A, f


-----------------------------------------------------------------------------
(* sc_reduce, for limbs up to c times the radix: every limb stays within   *)
(* the bounds that the carries and the folds give it.                      *)
Fits(c) == c \in Nat /\ c >= 1 /\ 132 * c < Radix

(* c times the radix, and times its square. *)
Once(c) == c * Radix
Squared(c) == Once(c) * Radix

LEMMA FitsIs ==
    ASSUME NEW c, Fits(c)
    PROVE  /\ c \in Nat /\ c >= 1 /\ 132 * c < Radix
           /\ Once(c) \in Nat /\ Squared(c) \in Nat
           /\ Once(c) >= Radix /\ Squared(c) >= 132 * Once(c)
           /\ 2 * (Once(c) * Half) = Squared(c)
           /\ Once(c) * Half \in Int
<1>1. PICK r \in Int : r = Radix /\ r >= 2
  BY RadixFacts
<1>2. PICK h \in Int : h = Half /\ 2 * h = r
  BY <1>1, RadixFacts
<1>3. c \in Nat /\ c >= 1 /\ 132 * c < r
  BY <1>1 DEF Fits
<1>4. PICK p \in Int : p = c * r
  BY <1>3
<1>5. p >= r
  <2>1. (c - 1) * r >= 0 /\ (c - 1) * r = c * r - r
    BY <1>1, <1>3
  <2> QED
    BY <1>4, <2>1
<1>6. PICK q \in Int : q = p * r
  OBVIOUS
<1>7. q >= 132 * p
  <2>1. (r - 132) * p >= 0 /\ (r - 132) * p = p * r - 132 * p
    BY <1>1, <1>3, <1>5
  <2> QED
    BY <1>6, <2>1
<1>8. 2 * (p * h) = q
  BY <1>2, <1>6
<1>9. Once(c) = p /\ Squared(c) = q
  BY <1>1, <1>4, <1>6 DEF Once, Squared
<1>10. p \in Nat /\ q \in Nat /\ p * h \in Int
  BY <1>1, <1>5, <1>7
<1> QED
  BY <1>1, <1>2, <1>3, <1>5, <1>7, <1>8, <1>9, <1>10

(* Below the twelfth limb, and the eleventh is small. *)
HalfFolded(s, t, c) ==
    /\ t \in Scalar24
    /\ \A i \in 12..23 : t[i] = 0
    /\ Within(t, 0, 10, 19 * Squared(c))
    /\ Within(t, 11, 11, 5 * Once(c))
    /\ \E q \in Int : Of24(t) = Of24(s) + q * Order

LEMMA AddMultiples ==
    ASSUME NEW v \in Int, NEW p \in Int, NEW q \in Int
    PROVE  (v + p * Order) + q * Order = v + (p + q) * Order
<1>1. PICK o \in Int : o = Order
  BY TopFacts
<1>2. (v + p * o) + q * o = v + (p + q) * o
  OBVIOUS
<1> QED
  BY <1>1, <1>2

LEMMA HighHalfIs ==
    ASSUME NEW c, Fits(c), NEW s \in Scalar24, Within(s, 0, 23, Once(c))
    PROVE  HalfFolded(s, FoldHighHalf(s), c)
<1> DEFINE a == Through(FoldDown, s, 23, -1, 6)
           b == Through(CarryNearest, a, 6, 2, 6)
           d == Through(CarryNearest, b, 7, 2, 5)
           t == Through(FoldDown, d, 17, -1, 6)
           P == Once(c)
           Q == Squared(c)
<1>1. /\ P \in Nat /\ Q \in Nat /\ P >= Radix /\ Q >= 132 * P /\ 2 * (P * Half) = Q
      /\ P * Half \in Int /\ Q = P * Radix
  BY FitsIs DEF Squared
<1>2. /\ Radix \in Int /\ Half \in Int /\ 2 * Half = Radix /\ Half >= 1
  BY RadixFacts
<1>3. PICK F \in Int : F = P * Half /\ 2 * F = Q
  BY <1>1
<1>4. t = FoldHighHalf(s)
  BY DEF FoldHighHalf
<1> HIDE DEF P, Q, t
<1>5. Within(s, 0, 23, P)
  BY DEF P
<1>6. PassedFolds(s, a, 23, P, F, 6)
  <2>1. Within(s, 0, 23 - 6, P) /\ Within(s, 23 - 5, 23, P)
    BY <1>5 DEF Within
  <2>2. 23 \in 17..23
    OBVIOUS
  <2>3. PassedFolds(s, a, 23, P, P * Half, 6)
    BY <1>1, <2>1, <2>2, FoldPass
  <2> QED
    BY <1>3, <2>3
<1> HIDE DEF a
<1>7. /\ a \in Scalar24 /\ \A i \in 18..23 : a[i] = 0
      /\ a[17] = s[17] /\ Within(a, 0, 17, P + 6 * F)
  BY <1>6 DEF PassedFolds
<1>8. PICK qa \in Int : Of24(a) = Of24(s) + qa * Order
  BY <1>6 DEF PassedFolds
<1>9. \A i \in 0..23 : a[i] \in Int /\ s[i] \in Int
  BY <1>7 DEF Scalar24
<1>10. \A i \in 0..17 : -(P + 3 * Q) <= a[i] /\ a[i] <= P + 3 * Q
  BY <1>1, <1>3, <1>7 DEF Within
<1>11. -P <= a[17] /\ a[17] <= P
  BY <1>5, <1>7 DEF Within
<1>12. Passed(a, b, 6, 6)
  <2>1. 6 \in Nat /\ 6 + 2 * 6 <= 24
    OBVIOUS
  <2> QED
    BY <1>7, <2>1, NearestPass
<1> HIDE DEF b
<1>13. /\ b \in Scalar24 /\ Of24(b) = Of24(a)
       /\ \A i \in 0..5 : b[i] = a[i]
       /\ \A i \in 18..23 : b[i] = a[i]
  BY <1>12 DEF Passed
<1>14. \A i \in 0..23 : b[i] \in Int
  BY <1>13 DEF Scalar24
<1>15. ASSUME NEW k \in 6..17, (k - 6) % 2 = 0
       PROVE  /\ -Half <= b[k] /\ b[k] <= Half
              /\ -(4 * P) <= b[k + 1] - a[k + 1] /\ b[k + 1] - a[k + 1] <= 4 * P
  <2>1. k \in 6..6 + 2 * 6 - 1 /\ 6 \in Nat /\ 6 + 2 * 6 <= 24
    OBVIOUS
  <2>2. /\ -Half <= b[k] /\ b[k] <= Half
        /\ \A e \in Nat : -(e * Radix) <= a[k] /\ a[k] <= e * Radix =>
               -e <= b[k + 1] - a[k + 1] /\ b[k + 1] - a[k + 1] <= e
    BY <1>7, <1>12, <1>15, <2>1, PassedBounds
  <2>3. (4 * P) * Radix = 4 * Q /\ 4 * P \in Nat
    BY <1>1, <1>2
  <2>4. -(4 * Q) <= a[k] /\ a[k] <= 4 * Q
    BY <1>1, <1>2, <1>9, <1>10
  <2> QED
    BY <2>2, <2>3, <2>4
<1>16. \A k \in 7..15 : (k - 7) % 2 = 0 => -(4 * Q) <= b[k] /\ b[k] <= 4 * Q
  <2>1. SUFFICES ASSUME NEW k \in 7..15, (k - 7) % 2 = 0 PROVE -(4 * Q) <= b[k] /\ b[k] <= 4 * Q
    OBVIOUS
  <2>2. k - 1 \in 6..17 /\ ((k - 1) - 6) % 2 = 0 /\ (k - 1) + 1 = k
    BY <2>1
  <2>3. -(4 * P) <= b[k] - a[k] /\ b[k] - a[k] <= 4 * P
    BY <1>15, <2>2
  <2>4. -(P + 3 * Q) <= a[k] /\ a[k] <= P + 3 * Q /\ a[k] \in Int /\ b[k] \in Int
    BY <1>9, <1>10, <1>14
  <2> QED
    BY <1>1, <2>3, <2>4
<1>17. -(5 * P) <= b[17] /\ b[17] <= 5 * P
  <2>1. 16 \in 6..17 /\ (16 - 6) % 2 = 0 /\ 16 + 1 = 17
    OBVIOUS
  <2>2. -(4 * P) <= b[17] - a[17] /\ b[17] - a[17] <= 4 * P
    BY <1>15, <2>1
  <2> QED
    BY <1>1, <1>9, <1>11, <1>14, <2>2
<1>18. Passed(b, d, 7, 5)
  <2>1. 7 \in Nat /\ 5 \in Nat /\ 7 + 2 * 5 <= 24
    OBVIOUS
  <2> QED
    BY <1>13, <2>1, NearestPass
<1> HIDE DEF d
<1>19. /\ d \in Scalar24 /\ Of24(d) = Of24(b)
       /\ \A i \in 0..6 : d[i] = b[i]
       /\ \A i \in 17..23 : d[i] = b[i]
  BY <1>18 DEF Passed
<1>20. \A i \in 0..23 : d[i] \in Int
  BY <1>19 DEF Scalar24
<1>21. ASSUME NEW k \in 7..16, (k - 7) % 2 = 0
       PROVE  /\ -Half <= d[k] /\ d[k] <= Half
              /\ -(4 * P) <= d[k + 1] - b[k + 1] /\ d[k + 1] - b[k + 1] <= 4 * P
  <2>1. k \in 7..7 + 2 * 5 - 1 /\ 7 \in Nat /\ 5 \in Nat /\ 7 + 2 * 5 <= 24 /\ k \in 7..15
    BY <1>21
  <2>2. /\ -Half <= d[k] /\ d[k] <= Half
        /\ \A e \in Nat : -(e * Radix) <= b[k] /\ b[k] <= e * Radix =>
               -e <= d[k + 1] - b[k + 1] /\ d[k + 1] - b[k + 1] <= e
    BY <1>13, <1>18, <1>21, <2>1, PassedBounds
  <2>3. (4 * P) * Radix = 4 * Q /\ 4 * P \in Nat
    BY <1>1, <1>2
  <2>4. -(4 * Q) <= b[k] /\ b[k] <= 4 * Q
    BY <1>16, <1>21, <2>1
  <2> QED
    BY <2>2, <2>3, <2>4
<1>22. \A k \in 6..17 : -(5 * P) <= d[k] /\ d[k] <= 5 * P
  <2>1. SUFFICES ASSUME NEW k \in 6..17 PROVE -(5 * P) <= d[k] /\ d[k] <= 5 * P
    OBVIOUS
  <2>2. CASE k = 17
    BY <1>17, <1>19, <2>2
  <2>3. CASE k = 6
    <3>1. 6 \in 6..17 /\ (6 - 6) % 2 = 0
      OBVIOUS
    <3>2. -Half <= b[6] /\ b[6] <= Half /\ d[6] = b[6] /\ b[6] \in Int
      BY <1>14, <1>15, <1>19, <3>1
    <3> QED
      BY <1>1, <1>2, <2>3, <3>2
  <2>4. CASE k \in 7..16 /\ (k - 7) % 2 = 0
    BY <1>1, <1>2, <1>20, <1>21, <2>4
  <2>5. CASE k \in 7..16 /\ (k - 7) % 2 # 0
    <3>1. k - 1 \in 7..16 /\ ((k - 1) - 7) % 2 = 0 /\ (k - 1) + 1 = k /\ (k - 6) % 2 = 0
      BY <2>5
    <3>2. -(4 * P) <= d[k] - b[k] /\ d[k] - b[k] <= 4 * P
      BY <1>21, <3>1
    <3>3. -Half <= b[k] /\ b[k] <= Half
      BY <1>15, <3>1
    <3> QED
      BY <1>1, <1>2, <1>14, <1>20, <3>2, <3>3
  <2> QED
    BY <2>2, <2>3, <2>4, <2>5
<1>23. Within(d, 0, 11, 4 * Q) /\ Within(d, 12, 17, 5 * P)
  <2>1. ASSUME NEW i \in 0..11 PROVE -(4 * Q) <= d[i] /\ d[i] <= 4 * Q
    <3>1. CASE i \in 0..5
      <4>1. d[i] = a[i] /\ a[i] \in Int
        BY <1>9, <1>13, <1>19, <3>1
      <4> QED
        BY <1>1, <1>10, <3>1, <4>1
    <3>2. CASE i \in 6..11
      BY <1>1, <1>20, <1>22, <3>2
    <3> QED
      BY <3>1, <3>2
  <2> QED
    BY <1>22, <2>1 DEF Within
<1>24. PassedFolds(d, t, 17, 4 * Q, (5 * P) * Half, 6)
  <2>1. 17 \in 17..23 /\ 17 - 6 = 11 /\ 17 - 5 = 12 /\ 4 * Q \in Nat /\ 5 * P \in Nat
    BY <1>1
  <2> QED
    BY <1>19, <1>23, <2>1, FoldPass DEF t
<1>25. (5 * P) * Half = 5 * F
  BY <1>1, <1>2, <1>3
<1>26. /\ t \in Scalar24 /\ \A i \in 12..17 : t[i] = 0
       /\ t[11] = d[11] /\ \A i \in 18..23 : t[i] = d[i]
       /\ Within(t, 0, 11, 4 * Q + 6 * (5 * F))
  BY <1>24, <1>25 DEF PassedFolds
<1>27. PICK qt \in Int : Of24(t) = Of24(d) + qt * Order
  BY <1>24 DEF PassedFolds
<1>28. \E q \in Int : Of24(t) = Of24(s) + q * Order
  <2>1. qa + qt \in Int /\ Of24(s) \in Int
    BY Of24Type
  <2>2. Of24(t) = (Of24(s) + qa * Order) + qt * Order
    BY <1>8, <1>13, <1>19, <1>27
  <2>3. (Of24(s) + qa * Order) + qt * Order = Of24(s) + (qa + qt) * Order
    BY <2>1, AddMultiples
  <2> QED
    BY <2>1, <2>2, <2>3
<1>29. \A i \in 12..23 : t[i] = 0
  BY <1>7, <1>13, <1>19, <1>26
<1>30. Within(t, 0, 10, 19 * Q) /\ Within(t, 11, 11, 5 * P)
  <2>1. 4 * Q + 6 * (5 * F) = 19 * Q
    BY <1>1, <1>3
  <2>2. -(5 * P) <= t[11] /\ t[11] <= 5 * P
    BY <1>22, <1>26
  <2> QED
    BY <1>26, <2>1, <2>2 DEF Within
<1>31. HalfFolded(s, t, c)
  BY <1>26, <1>28, <1>29, <1>30 DEF HalfFolded, P, Q
<1> QED
  BY <1>4, <1>31


WorthTo(s, n) == Worth(s, ScalarRadix, n)

LEMMA WorthToIs ==
    ASSUME NEW s \in Scalar24
    PROVE  /\ \A n \in 0..24 : WorthTo(s, n) \in Int
           /\ \A n \in 0..23 : WorthTo(s, n + 1) = WorthTo(s, n) + s[n] * At(n)
           /\ WorthTo(s, 24) = Of24(s)
<1>1. ASSUME NEW n \in 0..24 PROVE WorthTo(s, n) \in Int
  <2>1. n \in Nat /\ \A i \in 0..n - 1 : s[i] \in Int
    BY DEF Scalar24
  <2> QED
    BY <2>1, ScalarRadixIs, WorthType DEF WorthTo
<1>2. ASSUME NEW n \in 0..23 PROVE WorthTo(s, n + 1) = WorthTo(s, n) + s[n] * At(n)
  <2>1. n \in Nat /\ n + 1 \in 0..24 /\ \A i \in 0..n : s[i] \in Int
    BY DEF Scalar24
  <2> QED
    BY <2>1, ScalarRadixIs, WorthStep DEF WorthTo, At
<1> QED
  BY <1>1, <1>2 DEF WorthTo, Of24

(* Zeros above are worth nothing. *)
LEMMA ZerosAbove ==
    ASSUME NEW s \in Scalar24, NEW n \in 0..24, \A i \in n..23 : s[i] = 0
    PROVE  Of24(s) = WorthTo(s, n)
<1> DEFINE A == {m \in Nat : n + m <= 24 => WorthTo(s, n + m) = WorthTo(s, n)}
<1>1. 0 \in A
  OBVIOUS
<1>2. ASSUME NEW m \in Nat, m \in A PROVE m + 1 \in A
  <2>1. SUFFICES ASSUME n + (m + 1) <= 24 PROVE WorthTo(s, n + (m + 1)) = WorthTo(s, n)
    OBVIOUS
  <2>2. n + m \in 0..23 /\ n + m \in 0..24 /\ n + m \in n..23 /\ n + (m + 1) = (n + m) + 1
    BY <2>1
  <2>3. WorthTo(s, (n + m) + 1) = WorthTo(s, n + m) + s[n + m] * At(n + m)
    BY <2>2, WorthToIs
  <2>4. s[n + m] = 0 /\ At(n + m) \in Int /\ WorthTo(s, n + m) \in Int
    BY <2>2, AtIs, WorthToIs
  <2>5. WorthTo(s, (n + m) + 1) = WorthTo(s, n + m)
    BY <2>3, <2>4
  <2> QED
    BY <1>2, <2>2, <2>5
<1> HIDE DEF A
<1>3. \A m \in Nat : m \in A
  BY <1>1, <1>2, SetInduction
<1>4. 24 - n \in Nat /\ n + (24 - n) = 24
  OBVIOUS
<1>5. WorthTo(s, n + (24 - n)) = WorthTo(s, n)
  BY <1>3, <1>4 DEF A
<1> QED
  BY <1>4, <1>5, WorthToIs

LEMMA DigitsTo ==
    ASSUME NEW s \in Scalar24, NEW n \in 0..24, \A i \in 0..n - 1 : s[i] \in 0..Radix - 1
    PROVE  WorthTo(s, n) \in 0..At(n) - 1
<1>1. n \in Nat /\ IsRadix(ScalarRadix, n)
  BY ScalarRadixIs
<1>2. \A i \in 0..n - 1 : s[i] \in 0..ScalarRadix[i] - 1
  BY DEF ScalarRadix
<1> QED
  BY <1>1, <1>2, WorthDigits DEF WorthTo, At

(* The one representative below the order. *)
Reduced(v, out) ==
    /\ out \in Scalar24
    /\ \A k \in 0..10 : out[k] \in 0..Radix - 1
    /\ out[11] \in Nat
    /\ WorthTo(out, 12) \in 0..Order - 1
    /\ \E q \in Int : WorthTo(out, 12) = v + q * Order

(* Carried to between - Radix / 2 and Radix / 2, folded once: more than    *)
(* minus the order and less than the order is what is left.                *)
NearlyReduced(s, t) ==
    /\ t \in Scalar24
    /\ \A i \in 12..23 : t[i] = 0
    /\ -At(12) < Of24(t) /\ Of24(t) < At(12)
    /\ \E q \in Int : Of24(t) = Of24(s) + q * Order

LEMMA SmallTop ==
    ASSUME NEW c, Fits(c), NEW t \in Scalar24, \A i \in 12..23 : t[i] = 0,
           Within(t, 0, 10, 33 * Once(c)), Within(t, 11, 11, Half)
    PROVE  -At(12) < Of24(t) /\ Of24(t) < At(12)
<1>1. PICK w \in Int : w = At(10) /\ w >= 1
  BY AtIs
<1>2. PICK x \in Int : x = At(11) /\ x >= 1
  BY AtIs
<1>3. PICK r \in Int : r = Radix /\ r >= 2
  BY RadixFacts
<1>4. PICK h \in Int : h = Half /\ 2 * h = r
  BY <1>3, RadixFacts
<1>5. c \in Nat /\ c >= 1 /\ 132 * c < r
  BY <1>3 DEF Fits
<1>6. x = w * r
  <2>1. 10 \in 0..23 /\ 10 + 1 = 11
    OBVIOUS
  <2> QED
    BY <1>1, <1>2, <1>3, <2>1, AtIs
<1>7. At(12) = x * r
  <2>1. 11 \in 0..23 /\ 11 + 1 = 12
    OBVIOUS
  <2> QED
    BY <1>2, <1>3, <2>1, AtIs
<1>8. PICK b \in Nat : b = 33 * Once(c)
  BY FitsIs
<1>9. b = 33 * (c * r)
  BY <1>3, <1>8 DEF Once
<1>10. WorthTo(t, 11) <= 2 * b * w /\ -(2 * b * w) <= WorthTo(t, 11)
  <2>1. 10 \in Nat /\ 10 + 1 = 11 /\ IsRadix(ScalarRadix, 10 + 1)
    BY ScalarRadixIs
  <2>2. \A i \in 0..10 : ScalarRadix[i] >= 2
    BY RadixFacts DEF ScalarRadix
  <2>3. \A i \in 0..10 : t[i] \in Int /\ -b <= t[i] /\ t[i] <= b
    BY <1>8 DEF Within, Scalar24
  <2>4. /\ Worth(t, ScalarRadix, 10 + 1) <= 2 * b * Place(ScalarRadix, 10)
        /\ -(2 * b * Place(ScalarRadix, 10)) <= Worth(t, ScalarRadix, 10 + 1)
    BY <2>1, <2>2, <2>3, WorthBound
  <2> QED
    BY <1>1, <2>1, <2>4 DEF WorthTo, At
<1>11. 2 * b * w = 66 * (c * x)
  BY <1>5, <1>6, <1>9
<1>12. PICK l \in Int : l = WorthTo(t, 11)
  BY WorthToIs
<1>13. PICK d \in Int : d = t[11] /\ -h <= d /\ d <= h
  BY <1>4 DEF Within, Scalar24
<1>14. Of24(t) = l + d * x
  <2>1. 12 \in 0..24 /\ 11 \in 0..23 /\ 11 + 1 = 12 /\ 11 \in 0..24
    OBVIOUS
  <2>2. Of24(t) = WorthTo(t, 12)
    BY <2>1, ZerosAbove
  <2>3. WorthTo(t, 11 + 1) = WorthTo(t, 11) + t[11] * At(11)
    BY <2>1, WorthToIs
  <2> QED
    BY <1>2, <1>12, <1>13, <2>1, <2>2, <2>3
<1>15. d * x <= h * x /\ -(h * x) <= d * x
  <2>1. (h - d) * x >= 0 /\ (h - d) * x = h * x - d * x
    BY <1>2, <1>13
  <2>2. (h + d) * x >= 0 /\ (h + d) * x = h * x + d * x
    BY <1>2, <1>13
  <2> QED
    BY <2>1, <2>2
<1>16. 2 * (h * x) + 132 * (c * x) < 2 * (x * r)
  <2>1. (r - 132 * c) * x >= x /\ (r - 132 * c) * x = x * r - 132 * (c * x)
    <3>1. (r - 132 * c - 1) * x >= 0 /\ (r - 132 * c - 1) * x = (r - 132 * c) * x - x
      BY <1>2, <1>5
    <3> QED
      BY <1>2, <1>5, <3>1
  <2>2. 2 * (h * x) = x * r
    BY <1>4
  <2>3. PICK p \in Int : p = c * x
    BY <1>5
  <2>4. PICK q \in Int : q = x * r
    OBVIOUS
  <2>5. PICK z \in Int : z = h * x
    OBVIOUS
  <2>6. q - 132 * p >= x
    <3>1. PICK y \in Int : y = (r - 132 * c) * x
      BY <1>5
    <3> QED
      BY <2>1, <2>3, <2>4, <3>1
  <2>7. 2 * z = q
    BY <2>2, <2>4, <2>5
  <2>8. 2 * z + 132 * p < 2 * q
    BY <1>2, <2>6, <2>7
  <2> QED
    BY <2>3, <2>4, <2>5, <2>8
<1>17. PICK hx \in Int : hx = h * x
  OBVIOUS
<1>18. PICK cx \in Int : cx = c * x
  BY <1>5
<1>19. PICK xr \in Int : xr = x * r
  OBVIOUS
<1>20. PICK dx \in Int : dx = d * x
  OBVIOUS
<1>21. -xr < l + dx /\ l + dx < xr
  BY <1>1, <1>2, <1>10, <1>11, <1>12, <1>15, <1>16, <1>17, <1>18, <1>19, <1>20
<1> QED
  BY <1>7, <1>14, <1>19, <1>20, <1>21


(* The carries of sc_reduce over the twelve limbs, and the first fold of   *)
(* the limb above them.                                                    *)
CarriedOver(s) == Through(CarryNearest, Through(CarryNearest, s, 0, 2, 6), 1, 2, 6)

LEMMA CarriedOverIs ==
    ASSUME NEW c, Fits(c), NEW s \in Scalar24, \A i \in 12..23 : s[i] = 0,
           Within(s, 0, 10, 19 * Squared(c)), Within(s, 11, 11, 5 * Once(c))
    PROVE  /\ CarriedOver(s) \in Scalar24 /\ Of24(CarriedOver(s)) = Of24(s)
           /\ \A i \in 13..23 : CarriedOver(s)[i] = 0
           /\ Within(CarriedOver(s), 0, 10, 21 * Once(c))
           /\ Within(CarriedOver(s), 11, 11, Half)
           /\ Within(CarriedOver(s), 12, 12, 24 * c)
<1> DEFINE b == Through(CarryNearest, s, 0, 2, 6)
           d == Through(CarryNearest, b, 1, 2, 6)
           P == Once(c)
           Q == Squared(c)
<1>1. /\ P \in Nat /\ Q \in Nat /\ P >= Radix /\ Q >= 132 * P /\ Q = P * Radix
      /\ c \in Nat /\ P = c * Radix
  BY FitsIs DEF Squared, Once
<1>2. /\ Radix \in Int /\ Half \in Int /\ 2 * Half = Radix /\ Half >= 1
  BY RadixFacts
<1>3. /\ \A i \in 0..10 : -(19 * Q) <= s[i] /\ s[i] <= 19 * Q
      /\ -(5 * P) <= s[11] /\ s[11] <= 5 * P
  BY DEF Within
<1>4. d = CarriedOver(s)
  BY DEF CarriedOver
<1> HIDE DEF P, Q, d
<1>5. Passed(s, b, 0, 6)
  <2>1. 0 \in Nat /\ 6 \in Nat /\ 0 + 2 * 6 <= 24
    OBVIOUS
  <2> QED
    BY <2>1, NearestPass
<1> HIDE DEF b
<1>6. b \in Scalar24 /\ Of24(b) = Of24(s) /\ \A i \in 12..23 : b[i] = s[i]
  BY <1>5 DEF Passed
<1>7. \A i \in 0..23 : s[i] \in Int /\ b[i] \in Int
  BY <1>6 DEF Scalar24
<1>8. ASSUME NEW k \in 0..10, k % 2 = 0
      PROVE  /\ -Half <= b[k] /\ b[k] <= Half
             /\ -(19 * P) <= b[k + 1] - s[k + 1] /\ b[k + 1] - s[k + 1] <= 19 * P
  <2>1. k \in 0..0 + 2 * 6 - 1 /\ (k - 0) % 2 = 0 /\ 0 \in Nat /\ 6 \in Nat /\ 0 + 2 * 6 <= 24
    BY <1>8
  <2>2. /\ -Half <= b[k] /\ b[k] <= Half
        /\ \A e \in Nat : -(e * Radix) <= s[k] /\ s[k] <= e * Radix =>
               -e <= b[k + 1] - s[k + 1] /\ b[k + 1] - s[k + 1] <= e
    BY <1>5, <2>1, PassedBounds
  <2>3. (19 * P) * Radix = 19 * Q /\ 19 * P \in Nat
    BY <1>1, <1>2
  <2> QED
    BY <1>3, <2>2, <2>3
<1>9. ASSUME NEW k \in 1..9, k % 2 = 1 PROVE -(20 * Q) <= b[k] /\ b[k] <= 20 * Q
  <2>1. k - 1 \in 0..10 /\ (k - 1) % 2 = 0 /\ (k - 1) + 1 = k
    BY <1>9
  <2>2. -(19 * P) <= b[k] - s[k] /\ b[k] - s[k] <= 19 * P
    BY <1>8, <2>1
  <2>3. -(19 * Q) <= s[k] /\ s[k] <= 19 * Q
    BY <1>3
  <2> QED
    BY <1>1, <1>7, <2>2, <2>3
<1>10. -(24 * P) <= b[11] /\ b[11] <= 24 * P
  <2>1. 10 \in 0..10 /\ 10 % 2 = 0 /\ 10 + 1 = 11
    OBVIOUS
  <2>2. -(19 * P) <= b[11] - s[11] /\ b[11] - s[11] <= 19 * P
    BY <1>8, <2>1
  <2> QED
    BY <1>1, <1>3, <1>7, <2>2
<1>11. Passed(b, d, 1, 6)
  <2>1. 1 \in Nat /\ 6 \in Nat /\ 1 + 2 * 6 <= 24
    OBVIOUS
  <2> QED
    BY <1>6, <2>1, NearestPass DEF d
<1>12. d \in Scalar24 /\ Of24(d) = Of24(b) /\ d[0] = b[0] /\ \A i \in 13..23 : d[i] = b[i]
  BY <1>11 DEF Passed
<1>13. \A i \in 0..23 : d[i] \in Int
  BY <1>12 DEF Scalar24
<1>14. ASSUME NEW k \in 1..11, k % 2 = 1
       PROVE  /\ -Half <= d[k] /\ d[k] <= Half
              /\ \A e \in Nat : -(e * Radix) <= b[k] /\ b[k] <= e * Radix =>
                     -e <= d[k + 1] - b[k + 1] /\ d[k + 1] - b[k + 1] <= e
  <2>1. k \in 1..1 + 2 * 6 - 1 /\ (k - 1) % 2 = 0 /\ 1 \in Nat /\ 6 \in Nat /\ 1 + 2 * 6 <= 24
    BY <1>14
  <2> QED
    BY <1>6, <1>11, <2>1, PassedBounds
<1>15. ASSUME NEW k \in 0..10 PROVE -(21 * P) <= d[k] /\ d[k] <= 21 * P
  <2>1. CASE k = 0
    <3>1. 0 \in 0..10 /\ 0 % 2 = 0
      OBVIOUS
    <3>2. -Half <= b[0] /\ b[0] <= Half
      BY <1>8, <3>1
    <3> QED
      BY <1>1, <1>2, <1>7, <1>12, <2>1, <3>2
  <2>2. CASE k % 2 = 1
    <3>1. k \in 1..11
      BY <2>2
    <3>2. -Half <= d[k] /\ d[k] <= Half
      BY <1>14, <2>2, <3>1
    <3>3. d[k] \in Int
      BY <1>13
    <3> QED
      BY <1>1, <1>2, <3>2, <3>3
  <2>3. CASE k # 0 /\ k % 2 = 0
    <3>1. k - 1 \in 1..9 /\ k - 1 \in 1..11 /\ (k - 1) % 2 = 1 /\ (k - 1) + 1 = k
      BY <2>3
    <3>2. -(20 * Q) <= b[k - 1] /\ b[k - 1] <= 20 * Q
      BY <1>9, <3>1
    <3>3. (20 * P) * Radix = 20 * Q /\ 20 * P \in Nat
      BY <1>1, <1>2
    <3>4. \A e \in Nat : -(e * Radix) <= b[k - 1] /\ b[k - 1] <= e * Radix =>
              -e <= d[k] - b[k] /\ d[k] - b[k] <= e
      BY <1>14, <3>1
    <3>5. -(20 * P) <= d[k] - b[k] /\ d[k] - b[k] <= 20 * P
      BY <3>2, <3>3, <3>4
    <3>6. -Half <= b[k] /\ b[k] <= Half
      BY <1>8, <2>3
    <3> QED
      BY <1>1, <1>2, <1>7, <1>13, <3>5, <3>6
  <2>4. k % 2 = 0 \/ k % 2 = 1
    OBVIOUS
  <2> QED
    BY <2>1, <2>2, <2>3, <2>4
<1>16. -Half <= d[11] /\ d[11] <= Half
  <2>1. 11 \in 1..11 /\ 11 % 2 = 1
    OBVIOUS
  <2> QED
    BY <1>14, <2>1
<1>17. -(24 * c) <= d[12] /\ d[12] <= 24 * c
  <2>1. 11 \in 1..11 /\ 11 % 2 = 1 /\ 11 + 1 = 12
    OBVIOUS
  <2>2. \A e \in Nat : -(e * Radix) <= b[11] /\ b[11] <= e * Radix =>
            -e <= d[12] - b[12] /\ d[12] - b[12] <= e
    BY <1>14, <2>1
  <2>3. (24 * c) * Radix = 24 * P /\ 24 * c \in Nat
    BY <1>1, <1>2
  <2>4. -(24 * c) <= d[12] - b[12] /\ d[12] - b[12] <= 24 * c
    BY <1>10, <2>2, <2>3
  <2>5. b[12] = 0
    BY <1>6
  <2> QED
    BY <1>13, <2>4, <2>5
<1>18. \A i \in 13..23 : d[i] = 0
  BY <1>6, <1>12
<1>19. Within(d, 0, 10, 21 * P) /\ Within(d, 11, 11, Half) /\ Within(d, 12, 12, 24 * c)
  BY <1>15, <1>16, <1>17 DEF Within
<1> QED
  BY <1>4, <1>6, <1>12, <1>18, <1>19 DEF P

LEMMA NearlyIs ==
    ASSUME NEW c, Fits(c), NEW s \in Scalar24, \A i \in 12..23 : s[i] = 0,
           Within(s, 0, 10, 19 * Squared(c)), Within(s, 11, 11, 5 * Once(c))
    PROVE  NearlyReduced(s, FoldDown(CarriedOver(s), 12))
<1> DEFINE d == CarriedOver(s)
           t == FoldDown(d, 12)
<1>1. /\ d \in Scalar24 /\ Of24(d) = Of24(s)
      /\ \A i \in 13..23 : d[i] = 0
      /\ Within(d, 0, 10, 21 * Once(c)) /\ Within(d, 11, 11, Half) /\ Within(d, 12, 12, 24 * c)
  BY CarriedOverIs
<1> HIDE DEF d
<1>2. FoldedDown(d, t, 12)
  BY <1>1, FoldDownIs
<1> HIDE DEF t
<1>3. /\ t \in Scalar24 /\ t[12] = 0
      /\ \A i \in 0..5 : t[i] = d[i] + d[12] * Top[i + 1]
      /\ \A i \in 0..23 : i # 12 /\ i \notin 0..5 => t[i] = d[i]
      /\ Of24(t) = Of24(d) - (d[12] * At(0)) * Order
  <2>1. /\ t \in Scalar24 /\ t[12] = 0
        /\ \A i \in 12 - 12..12 - 7 : t[i] = d[i] + d[12] * Top[i - 12 + 13]
        /\ \A i \in 0..23 : i # 12 /\ i \notin 12 - 12..12 - 7 => t[i] = d[i]
        /\ Of24(t) = Of24(d) - (d[12] * At(12 - 12)) * Order
    BY <1>2 DEF FoldedDown
  <2>2. 12 - 12 = 0 /\ 12 - 7 = 5 /\ \A i \in 0..5 : i - 12 + 13 = i + 1
    OBVIOUS
  <2> QED
    BY <2>1, <2>2
<1>4. /\ Once(c) \in Nat /\ c \in Nat /\ Once(c) = c * Radix /\ 2 * (24 * c * Half) = 24 * Once(c)
      /\ 24 * c \in Int
  <2>1. c \in Nat /\ Once(c) \in Nat
    BY FitsIs
  <2>2. Radix \in Int /\ Half \in Int /\ 2 * Half = Radix
    BY RadixFacts
  <2>3. 2 * (24 * c * Half) = 24 * (c * (2 * Half))
    BY <2>1, <2>2
  <2> QED
    BY <2>1, <2>2, <2>3 DEF Once
<1>5. \A i \in 0..23 : d[i] \in Int
  BY <1>1 DEF Scalar24
<1>6. \A i \in 12..23 : t[i] = 0
  BY <1>1, <1>3
<1>7. ASSUME NEW i \in 0..10 PROVE -(33 * Once(c)) <= t[i] /\ t[i] <= 33 * Once(c)
  <2>1. -(21 * Once(c)) <= d[i] /\ d[i] <= 21 * Once(c)
    BY <1>1 DEF Within
  <2>2. CASE i \in 0..5
    <3>1. Top[i + 1] \in Int /\ -Half <= Top[i + 1] /\ Top[i + 1] <= Half /\ Half \in Int
      BY <2>2, TopFacts, RadixFacts
    <3>2. -(24 * c) <= d[12] /\ d[12] <= 24 * c /\ d[12] \in Int
      BY <1>1, <1>5 DEF Within
    <3>3. -((24 * c) * Half) <= d[12] * Top[i + 1] /\ d[12] * Top[i + 1] <= (24 * c) * Half
      BY <1>4, <3>1, <3>2, ProductBound
    <3>4. PICK z \in Int : z = d[12] * Top[i + 1]
      BY <3>1, <3>2
    <3>5. PICK f \in Int : f = (24 * c) * Half
      BY <1>4, <3>1
    <3>6. 2 * f = 24 * Once(c)
      BY <1>4, <3>5
    <3>7. t[i] = d[i] + z
      BY <1>3, <2>2, <3>4
    <3> QED
      BY <1>4, <1>5, <2>1, <3>3, <3>4, <3>5, <3>6, <3>7
  <2>3. CASE i \notin 0..5
    BY <1>3, <1>4, <1>5, <2>1, <2>3
  <2> QED
    BY <2>2, <2>3
<1>8. Within(t, 11, 11, Half)
  BY <1>1, <1>3 DEF Within
<1>9. -At(12) < Of24(t) /\ Of24(t) < At(12)
  <2>1. Within(t, 0, 10, 33 * Once(c))
    BY <1>7 DEF Within
  <2> QED
    BY <1>3, <1>6, <1>8, <2>1, SmallTop
<1>10. \E q \in Int : Of24(t) = Of24(s) + q * Order
  <2>1. d[12] \in Int /\ At(0) = 1 /\ Of24(s) \in Int
    BY <1>5, AtIs, Of24Type
  <2>2. PICK o \in Int : o = Order
    BY TopFacts
  <2>3. PICK x \in Int : x = d[12]
    BY <2>1
  <2>4. Of24(s) - (x * 1) * o = Of24(s) + (-x) * o /\ -x \in Int
    BY <2>1
  <2> QED
    BY <1>1, <1>3, <2>1, <2>2, <2>3, <2>4
<1> QED
  BY <1>3, <1>6, <1>9, <1>10 DEF NearlyReduced, t, d


LEMMA LeftOverIs ==
    ASSUME NEW c, Fits(c), NEW s \in Scalar24, \A i \in 12..23 : s[i] = 0,
           Within(s, 0, 10, 19 * Squared(c)), Within(s, 11, 11, 5 * Once(c))
    PROVE  Reduced(Of24(s), FoldLeftOver(s))
<1> DEFINE t == FoldDown(CarriedOver(s), 12)
           u == Through(CarryDown, t, 0, 1, 12)
           v == FoldDown(u, 12)
           w == Through(CarryDown, v, 0, 1, 11)
<1>1. w = FoldLeftOver(s)
  BY DEF FoldLeftOver, CarriedOver
<1>2. NearlyReduced(s, t)
  BY NearlyIs
<1> HIDE DEF t
<1>3. /\ t \in Scalar24 /\ \A i \in 12..23 : t[i] = 0
      /\ -At(12) < Of24(t) /\ Of24(t) < At(12)
  BY <1>2 DEF NearlyReduced
<1>4. PICK qt \in Int : Of24(t) = Of24(s) + qt * Order
  BY <1>2 DEF NearlyReduced
<1>5. PassedDown(t, u, 12)
  <2>1. 12 \in 0..23
    OBVIOUS
  <2> QED
    BY <1>3, <2>1, DownPass
<1> HIDE DEF u
<1>6. /\ u \in Scalar24 /\ Of24(u) = Of24(t)
      /\ \A i \in 0..11 : u[i] \in 0..Radix - 1
      /\ \A i \in 13..23 : u[i] = 0
  BY <1>3, <1>5 DEF PassedDown
<1>7. PICK x \in Int : x = At(12) /\ x >= 1
  BY AtIs
<1>8. PICK d \in Int : d = WorthTo(u, 12) /\ d >= 0 /\ d <= x - 1
  <2>1. 12 \in 0..24 /\ \A i \in 0..12 - 1 : u[i] \in 0..Radix - 1
    BY <1>6
  <2>2. WorthTo(u, 12) \in 0..At(12) - 1
    BY <1>6, <2>1, DigitsTo
  <2> QED
    BY <1>7, <2>2
<1>9. PICK y \in Int : y = u[12]
  BY <1>6 DEF Scalar24
<1>10. Of24(t) = d + y * x
  <2>1. 13 \in 0..24 /\ 12 \in 0..23 /\ 12 + 1 = 13
    OBVIOUS
  <2>2. Of24(u) = WorthTo(u, 13)
    BY <1>6, <2>1, ZerosAbove
  <2>3. WorthTo(u, 12 + 1) = WorthTo(u, 12) + u[12] * At(12)
    BY <1>6, <2>1, WorthToIs
  <2> QED
    BY <1>6, <1>7, <1>8, <1>9, <2>1, <2>2, <2>3
<1>11. y = 0 \/ y = -1
  <2>1. -x < d + y * x /\ d + y * x < x
    BY <1>3, <1>7, <1>10
  <2>2. CASE y >= 1
    <3>1. (y - 1) * x >= 0 /\ (y - 1) * x = y * x - x
      BY <1>7, <2>2
    <3>2. PICK z \in Int : z = y * x
      OBVIOUS
    <3> QED
      BY <1>8, <2>1, <3>1, <3>2
  <2>3. CASE y <= -2
    <3>1. (-2 - y) * x >= 0 /\ (-2 - y) * x = -(2 * x) - y * x
      BY <1>7, <2>3
    <3>2. PICK z \in Int : z = y * x
      OBVIOUS
    <3> QED
      BY <1>7, <1>8, <2>1, <3>1, <3>2
  <2> QED
    BY <2>2, <2>3
<1>12. FoldedDown(u, v, 12)
  <2>1. 12 \in 12..23
    OBVIOUS
  <2> QED
    BY <1>6, <2>1, FoldDownIs
<1> HIDE DEF v
<1>13. /\ v \in Scalar24 /\ v[12] = 0
       /\ \A i \in 0..23 : i # 12 /\ i \notin 0..5 => v[i] = u[i]
       /\ Of24(v) = Of24(u) - (u[12] * At(0)) * Order
  <2>1. 12 - 12 = 0 /\ 12 - 7 = 5
    OBVIOUS
  <2> QED
    BY <1>12, <2>1 DEF FoldedDown
<1>14. PICK o \in Int : o = Order /\ o >= x
  BY <1>7, TopFacts
<1>15. Of24(v) = Of24(t) - y * o
  <2>1. u[12] * At(0) = y
    BY <1>9, AtIs
  <2> QED
    BY <1>6, <1>13, <1>14, <2>1
<1>16. \A i \in 12..23 : v[i] = 0
  BY <1>6, <1>13
<1>17. PassedDown(v, w, 11)
  <2>1. 11 \in 0..23
    OBVIOUS
  <2> QED
    BY <1>13, <2>1, DownPass
<1> HIDE DEF w
<1>18. /\ w \in Scalar24 /\ Of24(w) = Of24(v)
       /\ \A i \in 0..10 : w[i] \in 0..Radix - 1
       /\ \A i \in 12..23 : w[i] = 0
  BY <1>16, <1>17 DEF PassedDown
<1>19. WorthTo(w, 12) = Of24(t) - y * o
  <2>1. 12 \in 0..24
    OBVIOUS
  <2> QED
    BY <1>15, <1>18, <2>1, ZerosAbove
<1>20. WorthTo(w, 12) \in 0..Order - 1
  <2>1. CASE y = 0
    <3>1. y * o = 0 /\ y * x = 0
      BY <2>1
    <3>2. WorthTo(w, 12) = d
      BY <1>8, <1>10, <1>19, <3>1
    <3> QED
      BY <1>7, <1>8, <1>14, <3>2
  <2>2. CASE y = -1
    <3>1. y * o = -o /\ y * x = -x
      BY <2>2
    <3>2. WorthTo(w, 12) = d - x + o
      BY <1>8, <1>10, <1>14, <1>19, <3>1
    <3> QED
      BY <1>7, <1>8, <1>14, <3>2
  <2> QED
    BY <1>11, <2>1, <2>2
<1>21. w[11] \in Nat
  <2>1. PICK a \in Int : a = At(11) /\ a >= 1
    BY AtIs
  <2>2. PICK e \in Int : e = WorthTo(w, 11) /\ e <= a - 1
    <3>1. 11 \in 0..24 /\ \A i \in 0..11 - 1 : w[i] \in 0..Radix - 1
      BY <1>18
    <3>2. WorthTo(w, 11) \in 0..At(11) - 1
      BY <1>18, <3>1, DigitsTo
    <3> QED
      BY <2>1, <3>2
  <2>3. PICK z \in Int : z = w[11]
    BY <1>18 DEF Scalar24
  <2>4. e + z * a >= 0
    <3>1. 11 \in 0..23 /\ 11 + 1 = 12
      OBVIOUS
    <3>2. WorthTo(w, 11 + 1) = WorthTo(w, 11) + w[11] * At(11)
      BY <1>18, <3>1, WorthToIs
    <3>3. WorthTo(w, 12) >= 0
      BY <1>14, <1>20
    <3> QED
      BY <2>1, <2>2, <2>3, <3>1, <3>2, <3>3
  <2>5. SUFFICES ASSUME z <= -1 PROVE FALSE
    BY <2>3
  <2>6. (-1 - z) * a >= 0 /\ (-1 - z) * a = -a - z * a
    BY <2>1, <2>5
  <2>7. PICK p \in Int : p = z * a
    OBVIOUS
  <2> QED
    BY <2>1, <2>2, <2>4, <2>6, <2>7
<1>22. \E q \in Int : WorthTo(w, 12) = Of24(s) + q * Order
  <2>1. PICK a \in Int : a = Of24(s)
    BY Of24Type
  <2>2. WorthTo(w, 12) = (a + qt * o) - y * o
    BY <1>4, <1>14, <1>19, <2>1
  <2>3. (a + qt * o) - y * o = a + (qt - y) * o /\ qt - y \in Int
    OBVIOUS
  <2> QED
    BY <1>14, <2>1, <2>2, <2>3
<1>23. Reduced(Of24(s), w)
  BY <1>18, <1>20, <1>21, <1>22 DEF Reduced
<1> QED
  BY <1>1, <1>23

LEMMA ScReduceIs ==
    ASSUME NEW c, Fits(c), NEW s \in Scalar24, Within(s, 0, 23, Once(c))
    PROVE  Reduced(Of24(s), ScReduceLimbs(s))
<1> DEFINE t == FoldHighHalf(s)
           u == FoldLeftOver(t)
<1>1. HalfFolded(s, t, c)
  BY HighHalfIs
<1>2. u = ScReduceLimbs(s)
  BY DEF ScReduceLimbs
<1> HIDE DEF t
<1>3. /\ t \in Scalar24 /\ \A i \in 12..23 : t[i] = 0
      /\ Within(t, 0, 10, 19 * Squared(c)) /\ Within(t, 11, 11, 5 * Once(c))
  BY <1>1 DEF HalfFolded
<1>4. PICK p \in Int : Of24(t) = Of24(s) + p * Order
  BY <1>1 DEF HalfFolded
<1>5. Reduced(Of24(t), u)
  BY <1>3, LeftOverIs
<1> HIDE DEF u
<1>6. PICK q \in Int : WorthTo(u, 12) = Of24(t) + q * Order
  BY <1>5 DEF Reduced
<1>7. Of24(s) \in Int /\ p + q \in Int
  BY Of24Type
<1>8. (Of24(s) + p * Order) + q * Order = Of24(s) + (p + q) * Order
  BY <1>7, AddMultiples
<1>9. WorthTo(u, 12) = Of24(s) + (p + q) * Order
  BY <1>4, <1>6, <1>8
<1>10. Reduced(Of24(s), u)
  BY <1>5, <1>7, <1>9 DEF Reduced
<1> QED
  BY <1>2, <1>10


-----------------------------------------------------------------------------
(* sc_muladd: the sums of products are worth the product.                  *)
Scalar12 == [0..11 -> Int]

(* The lowest m limbs of b, j limbs higher up. *)
Shifted(b, j, m) == [k \in 0..23 |-> IF k - j \in 0..m - 1 THEN b[k - j] ELSE 0]

LEMMA ShiftedType ==
    ASSUME NEW b \in Scalar12, NEW j \in 0..11, NEW m \in 0..12
    PROVE  Shifted(b, j, m) \in Scalar24
<1>1. ASSUME NEW k \in 0..23 PROVE (IF k - j \in 0..m - 1 THEN b[k - j] ELSE 0) \in Int
  <2>1. CASE k - j \in 0..m - 1
    <3>1. k - j \in 0..11
      BY <2>1
    <3> QED
      BY <2>1, <3>1 DEF Scalar12
  <2> QED
    BY <2>1
<1> QED
  BY <1>1 DEF Shifted, Scalar24

LEMMA Worth12 ==
    ASSUME NEW b \in Scalar12
    PROVE  /\ \A m \in 0..12 : WorthTo(b, m) \in Int
           /\ \A m \in 0..11 : WorthTo(b, m + 1) = WorthTo(b, m) + b[m] * At(m)
           /\ WorthTo(b, 0) = 0
<1>1. ASSUME NEW m \in 0..12 PROVE WorthTo(b, m) \in Int
  <2>1. m \in Nat /\ m \in 0..24 /\ \A i \in 0..m - 1 : b[i] \in Int
    BY DEF Scalar12
  <2> QED
    BY <2>1, ScalarRadixIs, WorthType DEF WorthTo
<1>2. ASSUME NEW m \in 0..11 PROVE WorthTo(b, m + 1) = WorthTo(b, m) + b[m] * At(m)
  <2>1. m \in Nat /\ m + 1 \in 0..24 /\ \A i \in 0..m : b[i] \in Int
    BY DEF Scalar12
  <2> QED
    BY <2>1, ScalarRadixIs, WorthStep DEF WorthTo, At
<1>3. WorthTo(b, 0) = 0
  BY WorthZero DEF WorthTo
<1> QED
  BY <1>1, <1>2, <1>3

LEMMA NothingIs ==
    ASSUME NEW z \in Scalar24, \A k \in 0..23 : z[k] = 0
    PROVE  Of24(z) = 0
<1>1. 0 \in 0..24 /\ \A i \in 0..23 : z[i] = 0
  OBVIOUS
<1>2. Of24(z) = WorthTo(z, 0)
  BY <1>1, ZerosAbove
<1> QED
  BY <1>2, WorthZero DEF WorthTo

LEMMA ShiftedIs ==
    ASSUME NEW b \in Scalar12, NEW j \in 0..11
    PROVE  Of24(Shifted(b, j, 12)) = At(j) * WorthTo(b, 12)
<1> DEFINE S(m) == Shifted(b, j, m)
           A == {m \in Nat : m <= 12 => Of24(S(m)) = At(j) * WorthTo(b, m)}
<1>1. \A m \in 0..12 : S(m) \in Scalar24 /\ \A k \in 0..23 : S(m)[k] = IF k - j \in 0..m - 1 THEN b[k - j] ELSE 0
  BY ShiftedType DEF Shifted
<1>2. At(j) \in Int
  BY AtIs
<1> HIDE DEF S
<1>3. 0 \in A
  <2>1. S(0) \in Scalar24 /\ \A k \in 0..23 : S(0)[k] = 0
    BY <1>1
  <2>2. Of24(S(0)) = 0
    BY <2>1, NothingIs
  <2> QED
    BY <1>2, <2>2, Worth12
<1>4. ASSUME NEW m \in Nat, m \in A PROVE m + 1 \in A
  <2>1. SUFFICES ASSUME m + 1 <= 12 PROVE Of24(S(m + 1)) = At(j) * WorthTo(b, m + 1)
    OBVIOUS
  <2>2. m \in 0..11 /\ m \in 0..12 /\ m + 1 \in 0..12 /\ j + m \in 0..23
    BY <2>1
  <2>3. S(m) \in Scalar24 /\ S(m + 1) \in Scalar24
    BY <1>1, <2>2
  <2>4. \A k \in 0..23 : k # j + m => S(m + 1)[k] = S(m)[k]
    <3>1. SUFFICES ASSUME NEW k \in 0..23, k # j + m PROVE S(m + 1)[k] = S(m)[k]
      OBVIOUS
    <3>2. k - j \in 0..(m + 1) - 1 <=> k - j \in 0..m - 1
      BY <3>1, <2>2
    <3> QED
      BY <1>1, <2>2, <3>2
  <2>5. S(m + 1)[j + m] = b[m] /\ S(m)[j + m] = 0
    <3>1. (j + m) - j = m /\ m \in 0..(m + 1) - 1 /\ m \notin 0..m - 1
      BY <2>2
    <3> QED
      BY <1>1, <2>2, <3>1
  <2>6. Of24(S(m + 1)) = Of24(S(m)) + (S(m + 1)[j + m] - S(m)[j + m]) * At(j + m)
    BY <2>2, <2>3, <2>4, Of24Change
  <2>7. At(j + m) = At(j) * At(m)
    BY <2>2, AtSum
  <2>8. PICK x \in Int : x = b[m]
    BY <2>2 DEF Scalar12
  <2>9. PICK p \in Int : p = At(j)
    BY <1>2
  <2>10. PICK q \in Int : q = At(m)
    BY <2>2, AtIs
  <2>11. PICK w \in Int : w = WorthTo(b, m)
    BY <2>2, Worth12
  <2>12. Of24(S(m)) = p * w
    BY <1>4, <2>2, <2>9, <2>11
  <2>13. WorthTo(b, m + 1) = w + x * q
    BY <2>2, <2>8, <2>10, <2>11, Worth12
  <2>14. Of24(S(m + 1)) = p * w + x * (p * q)
    BY <2>5, <2>6, <2>7, <2>8, <2>9, <2>10, <2>12
  <2>15. p * w + x * (p * q) = p * (w + x * q)
    OBVIOUS
  <2> QED
    BY <2>9, <2>13, <2>14, <2>15
<1> HIDE DEF A
<1>5. 12 \in A
  BY <1>3, <1>4, SetInduction
<1> QED
  BY <1>5 DEF A, S

(* The sums of the first n products. *)
Column(a, b, k) == [i \in 0..11 |-> IF k - i \in 0..11 THEN a[i] * b[k - i] ELSE 0]
Partial(a, b, n) == [k \in 0..23 |-> SumTo(Column(a, b, k), n)]

LEMMA ColumnType ==
    ASSUME NEW a \in Scalar12, NEW b \in Scalar12, NEW k \in 0..23
    PROVE  \A i \in 0..11 : /\ Column(a, b, k)[i] \in Int
                             /\ Column(a, b, k)[i] = IF k - i \in 0..11 THEN a[i] * b[k - i] ELSE 0
<1>1. ASSUME NEW i \in 0..11 PROVE (IF k - i \in 0..11 THEN a[i] * b[k - i] ELSE 0) \in Int
  <2>1. \A x, y \in Int : x * y \in Int
    OBVIOUS
  <2>2. a[i] \in Int
    BY DEF Scalar12
  <2>3. k - i \in 0..11 => b[k - i] \in Int
    BY DEF Scalar12
  <2> QED
    BY <2>1, <2>2, <2>3
<1> QED
  BY <1>1 DEF Column

LEMMA PartialType ==
    ASSUME NEW a \in Scalar12, NEW b \in Scalar12, NEW n \in 0..12
    PROVE  Partial(a, b, n) \in Scalar24
<1>1. ASSUME NEW k \in 0..23 PROVE SumTo(Column(a, b, k), n) \in Int
  <2>1. n \in Nat /\ \A i \in 0..n - 1 : Column(a, b, k)[i] \in Int
    BY ColumnType
  <2> QED
    BY <2>1, SumType
<1> QED
  BY <1>1 DEF Partial, Scalar24

LEMMA Of24Plus ==
    ASSUME NEW s \in Scalar24, NEW t \in Scalar24, NEW u, \A k \in 0..23 : u[k] = s[k] + t[k]
    PROVE  Of24(u) = Of24(s) + Of24(t)
<1>1. \A n \in Nat : n = 24 =>
         Worth(u, ScalarRadix, n) = Worth(s, ScalarRadix, n) + Worth(t, ScalarRadix, n)
  <2>1. SUFFICES ASSUME NEW n \in Nat, n = 24
                 PROVE  Worth(u, ScalarRadix, n) = Worth(s, ScalarRadix, n) + Worth(t, ScalarRadix, n)
    OBVIOUS
  <2>2. IsRadix(ScalarRadix, n)
    BY <2>1, ScalarRadixIs
  <2>3. \A i \in 0..n - 1 : s[i] \in Int /\ t[i] \in Int /\ u[i] = s[i] + t[i]
    BY <2>1 DEF Scalar24
  <2> QED
    BY <2>2, <2>3, WorthPlus
<1> QED
  BY <1>1 DEF Of24

LEMMA Of24Times ==
    ASSUME NEW s \in Scalar24, NEW x \in Int, NEW u, \A k \in 0..23 : u[k] = x * s[k]
    PROVE  Of24(u) = x * Of24(s)
<1>1. \A n \in Nat : n = 24 => Worth(u, ScalarRadix, n) = x * Worth(s, ScalarRadix, n)
  <2>1. SUFFICES ASSUME NEW n \in Nat, n = 24
                 PROVE  Worth(u, ScalarRadix, n) = x * Worth(s, ScalarRadix, n)
    OBVIOUS
  <2>2. IsRadix(ScalarRadix, n)
    BY <2>1, ScalarRadixIs
  <2>3. \A i \in 0..n - 1 : s[i] \in Int /\ u[i] = x * s[i]
    BY <2>1 DEF Scalar24
  <2> QED
    BY <2>2, <2>3, WorthTimes
<1> QED
  BY <1>1 DEF Of24

LEMMA ProductIs ==
    ASSUME NEW a \in Scalar12, NEW b \in Scalar12
    PROVE  Of24(Partial(a, b, 12)) = WorthTo(a, 12) * WorthTo(b, 12)
<1> DEFINE S(n) == Partial(a, b, n)
           B == WorthTo(b, 12)
           A == {n \in Nat : n <= 12 => Of24(S(n)) = WorthTo(a, n) * B}
<1>1. B \in Int
  BY Worth12
<1>2. \A n \in 0..12 : S(n) \in Scalar24 /\ \A k \in 0..23 : S(n)[k] = SumTo(Column(a, b, k), n)
  BY PartialType DEF Partial
<1> HIDE DEF S, B
<1>3. 0 \in A
  <2>1. S(0) \in Scalar24 /\ \A k \in 0..23 : S(0)[k] = 0
    BY <1>2, SumZero
  <2>2. Of24(S(0)) = 0
    BY <2>1, NothingIs
  <2> QED
    BY <1>1, <2>2, Worth12
<1>4. ASSUME NEW n \in Nat, n \in A PROVE n + 1 \in A
  <2>1. SUFFICES ASSUME n + 1 <= 12 PROVE Of24(S(n + 1)) = WorthTo(a, n + 1) * B
    OBVIOUS
  <2> DEFINE sh == Shifted(b, n, 12)
             x == a[n]
             T == [k \in 0..23 |-> x * sh[k]]
  <2>2. n \in 0..11 /\ n \in 0..12 /\ n + 1 \in 0..12
    BY <2>1
  <2>3. x \in Int
    BY <2>2 DEF Scalar12
  <2>4. sh \in Scalar24
    <3>1. 12 \in 0..12
      OBVIOUS
    <3> QED
      BY <2>2, <3>1, ShiftedType
  <2>5. \A k \in 0..23 : sh[k] = IF k - n \in 0..11 THEN b[k - n] ELSE 0
    BY DEF Shifted
  <2>6. Of24(sh) = At(n) * B
    BY <2>2, ShiftedIs DEF B
  <2> HIDE DEF sh, x
  <2>7. \A k \in 0..23 : T[k] = x * sh[k]
    OBVIOUS
  <2>8. T \in Scalar24
    <3>1. \A k \in 0..23 : sh[k] \in Int
      BY <2>4 DEF Scalar24
    <3>2. \A y, z \in Int : y * z \in Int
      OBVIOUS
    <3> QED
      BY <2>3, <3>1, <3>2 DEF Scalar24
  <2> HIDE DEF T
  <2>9. Of24(T) = x * Of24(sh)
    BY <2>3, <2>4, <2>7, Of24Times
  <2>10. ASSUME NEW k \in 0..23 PROVE S(n + 1)[k] = S(n)[k] + T[k]
    <3>1. n \in Nat /\ \A i \in 0..n : Column(a, b, k)[i] \in Int
      BY <2>2, ColumnType
    <3>2. SumTo(Column(a, b, k), n + 1) = SumTo(Column(a, b, k), n) + Column(a, b, k)[n]
      BY <3>1, SumStep
    <3>3. Column(a, b, k)[n] = T[k]
      <4>1. Column(a, b, k)[n] = IF k - n \in 0..11 THEN a[n] * b[k - n] ELSE 0
        BY <2>2, ColumnType
      <4>2. T[k] = IF k - n \in 0..11 THEN x * b[k - n] ELSE 0
        <5>1. x * 0 = 0
          BY <2>3
        <5> QED
          BY <2>5, <2>7, <5>1
      <4> QED
        BY <4>1, <4>2 DEF x
    <3> QED
      BY <1>2, <2>2, <3>2, <3>3
  <2>11. S(n) \in Scalar24
    BY <1>2, <2>2
  <2>12. Of24(S(n + 1)) = Of24(S(n)) + Of24(T)
    BY <2>8, <2>10, <2>11, Of24Plus
  <2>13. WorthTo(a, n + 1) = WorthTo(a, n) + x * At(n)
    BY <2>2, Worth12 DEF x
  <2>14. PICK p \in Int : p = At(n)
    BY <2>2, AtIs
  <2>15. PICK w \in Int : w = WorthTo(a, n)
    BY <2>2, Worth12
  <2>16. Of24(S(n)) = w * B
    BY <1>4, <2>2, <2>15
  <2>17. Of24(S(n + 1)) = w * B + x * (p * B)
    BY <2>6, <2>9, <2>12, <2>14, <2>16
  <2>18. w * B + x * (p * B) = (w + x * p) * B
    BY <1>1, <2>3
  <2> QED
    BY <2>13, <2>14, <2>15, <2>17, <2>18
<1> HIDE DEF A
<1>5. 12 \in A
  BY <1>3, <1>4, SetInduction
<1> QED
  BY <1>5 DEF A, S, B

LEMMA MulAddIs ==
    ASSUME NEW a \in Scalar12, NEW b \in Scalar12, NEW c \in Scalar12
    PROVE  /\ MulAddLimbs(a, b, c) \in Scalar24
           /\ Of24(MulAddLimbs(a, b, c)) = WorthTo(a, 12) * WorthTo(b, 12) + WorthTo(c, 12)
<1> DEFINE m == MulAddLimbs(a, b, c)
           p == Partial(a, b, 12)
           q == Shifted(c, 0, 12)
<1>1. p \in Scalar24 /\ q \in Scalar24
  <2>1. 12 \in 0..12 /\ 0 \in 0..11
    OBVIOUS
  <2> QED
    BY <2>1, PartialType, ShiftedType
<1>2. m = [k \in 0..23 |-> (IF k < 12 THEN c[k] ELSE 0) + SumTo(Column(a, b, k), 12)]
  BY DEF MulAddLimbs, Column
<1>3. \A k \in 0..23 : p[k] = SumTo(Column(a, b, k), 12)
  BY DEF Partial
<1>4. \A k \in 0..23 : q[k] = IF k < 12 THEN c[k] ELSE 0
  <2>1. SUFFICES ASSUME NEW k \in 0..23 PROVE q[k] = IF k < 12 THEN c[k] ELSE 0
    OBVIOUS
  <2>2. k - 0 = k /\ (k \in 0..12 - 1 <=> k < 12)
    OBVIOUS
  <2> QED
    BY <2>2 DEF Shifted
<1>5. Of24(p) = WorthTo(a, 12) * WorthTo(b, 12)
  BY ProductIs
<1>6. Of24(q) = WorthTo(c, 12)
  <2>1. 0 \in 0..11 /\ At(0) = 1 /\ WorthTo(c, 12) \in Int
    BY AtIs, Worth12
  <2>2. Of24(q) = At(0) * WorthTo(c, 12)
    BY <2>1, ShiftedIs
  <2> QED
    BY <2>1, <2>2
<1> HIDE DEF m, p, q
<1>7. \A k \in 0..23 : p[k] \in Int /\ q[k] \in Int
  BY <1>1 DEF Scalar24
<1>8. \A k \in 0..23 : m[k] = p[k] + q[k]
  <2>1. \A k \in 0..23 : m[k] = (IF k < 12 THEN c[k] ELSE 0) + SumTo(Column(a, b, k), 12)
    BY <1>2
  <2>2. \A k \in 0..23 : m[k] = q[k] + p[k]
    BY <1>3, <1>4, <2>1
  <2> QED
    BY <1>7, <2>2
<1>9. m \in Scalar24
  <2>1. DOMAIN m = 0..23 /\ m = [k \in DOMAIN m |-> m[k]]
    BY <1>2
  <2>2. \A k \in 0..23 : m[k] \in Int
    BY <1>7, <1>8
  <2> QED
    BY <2>1, <2>2 DEF Scalar24
<1>10. Of24(m) = Of24(p) + Of24(q)
  BY <1>1, <1>8, Of24Plus
<1> QED
  BY <1>5, <1>6, <1>9, <1>10 DEF m


LEMMA SumBound ==
    ASSUME NEW n \in Nat, NEW f, NEW b \in Nat,
           \A i \in 0..n - 1 : f[i] \in Int /\ -b <= f[i] /\ f[i] <= b
    PROVE  -(n * b) <= SumTo(f, n) /\ SumTo(f, n) <= n * b
<1> DEFINE A == {m \in Nat : m <= n => -(m * b) <= SumTo(f, m) /\ SumTo(f, m) <= m * b}
<1>1. 0 \in A
  BY SumZero
<1>2. ASSUME NEW m \in Nat, m \in A PROVE m + 1 \in A
  <2>1. SUFFICES ASSUME m + 1 <= n
                 PROVE  -((m + 1) * b) <= SumTo(f, m + 1) /\ SumTo(f, m + 1) <= (m + 1) * b
    OBVIOUS
  <2>2. (\A i \in 0..m : f[i] \in Int) /\ (\A i \in 0..m - 1 : f[i] \in Int)
    BY <2>1
  <2>3. SumTo(f, m + 1) = SumTo(f, m) + f[m]
    BY <2>2, SumStep
  <2>4. PICK x \in Int : x = SumTo(f, m)
    BY <2>2, SumType
  <2>5. PICK y \in Int : y = f[m] /\ -b <= y /\ y <= b
    BY <2>1
  <2>6. PICK p \in Int : p = m * b
    OBVIOUS
  <2>7. (m + 1) * b = p + b
    BY <2>6
  <2>8. -p <= x /\ x <= p
    BY <1>2, <2>1, <2>4, <2>6
  <2> QED
    BY <2>3, <2>4, <2>5, <2>7, <2>8
<1> HIDE DEF A
<1>3. n \in A
  BY <1>1, <1>2, SetInduction
<1> QED
  BY <1>3 DEF A

LEMMA FitsLess ==
    ASSUME NEW e \in Nat, e >= 1, Fits(15 * e)
    PROVE  Fits(e) /\ Once(15 * e) = 15 * Once(e)
<1>1. PICK r \in Int : r = Radix /\ r >= 2
  BY RadixFacts
<1>2. 132 * (15 * e) < r
  BY <1>1 DEF Fits
<1>3. 132 * e < r
  BY <1>2
<1>4. (15 * e) * r = 15 * (e * r)
  OBVIOUS
<1> QED
  BY <1>1, <1>3, <1>4 DEF Fits, Once

(* Limbs up to d times the radix, and what carrying makes of the products. *)
LEMMA MulAddBounds ==
    ASSUME NEW d \in Nat, d >= 1, Fits(15 * (d * d)),
           NEW a \in Scalar12, NEW b \in Scalar12, NEW c \in Scalar12,
           Within(a, 0, 11, d * Radix), Within(b, 0, 11, d * Radix), Within(c, 0, 11, d * Radix)
    PROVE  /\ Within(MulAddLimbs(a, b, c), 0, 22, 13 * Squared(d * d))
           /\ MulAddLimbs(a, b, c)[23] = 0
<1> DEFINE m == MulAddLimbs(a, b, c)
           e == d * d
<1>1. PICK r \in Int : r = Radix /\ r >= 2
  BY RadixFacts
<1>2. PICK x \in Int : x = d * r
  OBVIOUS
<1>3. x >= 0
  <2>1. d * r >= 0
    BY <1>1
  <2> QED
    BY <1>2, <2>1
<1>4. PICK Q \in Int : Q = Squared(e)
  BY <1>1 DEF Squared, Once
<1>5. Q = x * x
  BY <1>1, <1>2, <1>4 DEF Squared, Once
<1>6. x <= Q
  <2>1. x >= 1
    <3>1. (d - 1) * r >= 0 /\ (d - 1) * r = d * r - r
      BY <1>1
    <3> QED
      BY <1>1, <1>2, <3>1
  <2>2. (x - 1) * x >= 0 /\ (x - 1) * x = x * x - x
    BY <2>1
  <2> QED
    BY <1>5, <2>2
<1>7. m = [k \in 0..23 |-> (IF k < 12 THEN c[k] ELSE 0) + SumTo(Column(a, b, k), 12)]
  BY DEF MulAddLimbs, Column
<1> HIDE DEF m
<1>8. \A k \in 0..23 : m[k] = (IF k < 12 THEN c[k] ELSE 0) + SumTo(Column(a, b, k), 12)
  BY <1>7
<1>9. ASSUME NEW k \in 0..23
      PROVE  /\ SumTo(Column(a, b, k), 12) \in Int
             /\ -(12 * Q) <= SumTo(Column(a, b, k), 12) /\ SumTo(Column(a, b, k), 12) <= 12 * Q
  <2> DEFINE f == Column(a, b, k)
  <2>1. \A i \in 0..11 : f[i] \in Int /\ f[i] = IF k - i \in 0..11 THEN a[i] * b[k - i] ELSE 0
    BY ColumnType
  <2> HIDE DEF f
  <2>2. ASSUME NEW i \in 0..11 PROVE -Q <= f[i] /\ f[i] <= Q
    <3>1. CASE k - i \in 0..11
      <4>1. a[i] \in Int /\ b[k - i] \in Int
        BY <3>1 DEF Scalar12
      <4>2. -x <= a[i] /\ a[i] <= x /\ -x <= b[k - i] /\ b[k - i] <= x
        BY <1>1, <1>2, <3>1 DEF Within
      <4>3. -(x * x) <= a[i] * b[k - i] /\ a[i] * b[k - i] <= x * x
        BY <4>1, <4>2, ProductBound
      <4> QED
        BY <1>5, <2>1, <3>1, <4>3
    <3>2. CASE k - i \notin 0..11
      BY <1>3, <1>6, <2>1, <3>2
    <3> QED
      BY <3>1, <3>2
  <2>3. 12 \in Nat /\ Q \in Nat /\ \A i \in 0..12 - 1 : f[i] \in Int /\ -Q <= f[i] /\ f[i] <= Q
    BY <1>3, <1>6, <2>1, <2>2
  <2>4. -(12 * Q) <= SumTo(f, 12) /\ SumTo(f, 12) <= 12 * Q
    BY <2>3, SumBound
  <2>5. SumTo(f, 12) \in Int
    BY <2>3, SumType
  <2> QED
    BY <2>4, <2>5 DEF f
<1>10. ASSUME NEW k \in 0..22 PROVE -(13 * Q) <= m[k] /\ m[k] <= 13 * Q
  <2>1. PICK y \in Int : y = SumTo(Column(a, b, k), 12) /\ -(12 * Q) <= y /\ y <= 12 * Q
    BY <1>9
  <2>2. CASE k < 12
    <3>1. c[k] \in Int /\ -x <= c[k] /\ c[k] <= x
      BY <1>1, <1>2, <2>2 DEF Within, Scalar12
    <3> QED
      BY <1>3, <1>6, <1>8, <2>1, <2>2, <3>1
  <2>3. CASE k >= 12
    BY <1>3, <1>6, <1>8, <2>1, <2>3
  <2> QED
    BY <2>2, <2>3
<1>11. m[23] = 0
  <2>1. \A i \in 0..11 : Column(a, b, 23)[i] = 0
    <3>1. \A i \in 0..11 : 23 - i \notin 0..11
      OBVIOUS
    <3> QED
      BY <3>1, ColumnType
  <2>2. 12 \in Nat /\ 0 \in Nat /\ \A i \in 0..12 - 1 : /\ Column(a, b, 23)[i] \in Int
                                                     /\ -0 <= Column(a, b, 23)[i]
                                                     /\ Column(a, b, 23)[i] <= 0
    BY <2>1
  <2>3. SumTo(Column(a, b, 23), 12) \in Int
    BY <2>2, SumType
  <2>4. -(12 * 0) <= SumTo(Column(a, b, 23), 12) /\ SumTo(Column(a, b, 23), 12) <= 12 * 0
    BY <2>2, SumBound
  <2> QED
    BY <1>8, <2>3, <2>4
<1>12. Within(m, 0, 22, 13 * Q)
  BY <1>10 DEF Within
<1> QED
  BY <1>4, <1>11, <1>12 DEF m

LEMMA ScMulAddIs ==
    ASSUME NEW d \in Nat, d >= 1, Fits(15 * (d * d)),
           NEW a \in Scalar12, NEW b \in Scalar12, NEW c \in Scalar12,
           Within(a, 0, 11, d * Radix), Within(b, 0, 11, d * Radix), Within(c, 0, 11, d * Radix)
    PROVE  Reduced(WorthTo(a, 12) * WorthTo(b, 12) + WorthTo(c, 12), ScMulAddLimbs(a, b, c))
<1> DEFINE s == MulAddLimbs(a, b, c)
           t == Through(CarryNearest, s, 0, 2, 12)
           u == Through(CarryNearest, t, 1, 2, 11)
           e == d * d
           P == Once(e)
           Q == Squared(e)
           v == WorthTo(a, 12) * WorthTo(b, 12) + WorthTo(c, 12)
<1>1. ScReduceLimbs(u) = ScMulAddLimbs(a, b, c)
  BY DEF ScMulAddLimbs
<1>2. s \in Scalar24 /\ Of24(s) = v
  BY MulAddIs
<1>3. e \in Nat /\ e >= 1
  <2>1. d * d >= d /\ d * d \in Int
    <3>1. (d - 1) * d >= 0 /\ (d - 1) * d = d * d - d
      OBVIOUS
    <3> QED
      BY <3>1
  <2> QED
    BY <2>1
<1>4. Within(s, 0, 22, 13 * Q) /\ s[23] = 0
  BY MulAddBounds
<1> HIDE DEF s, v
<1>5. Fits(15 * e)
  OBVIOUS
<1> HIDE DEF e
<1>6. Fits(e) /\ Once(15 * e) = 15 * P
  BY <1>3, <1>5, FitsLess
<1>7. /\ P \in Nat /\ Q \in Nat /\ P >= Radix /\ Q >= 132 * P /\ Q = P * Radix
  BY <1>6, FitsIs DEF Squared
<1>8. /\ Radix \in Int /\ Half \in Int /\ 2 * Half = Radix /\ Half >= 1
  BY RadixFacts
<1> HIDE DEF P, Q
<1>9. Passed(s, t, 0, 12)
  <2>1. 0 \in Nat /\ 12 \in Nat /\ 0 + 2 * 12 <= 24
    OBVIOUS
  <2> QED
    BY <1>2, <2>1, NearestPass
<1> HIDE DEF t
<1>10. t \in Scalar24 /\ Of24(t) = Of24(s)
  BY <1>9 DEF Passed
<1>11. \A i \in 0..23 : s[i] \in Int /\ t[i] \in Int
  BY <1>2, <1>10 DEF Scalar24
<1>12. \A i \in 0..22 : -(13 * Q) <= s[i] /\ s[i] <= 13 * Q
  BY <1>4 DEF Within
<1>13. ASSUME NEW k \in 0..22, k % 2 = 0
       PROVE  /\ -Half <= t[k] /\ t[k] <= Half
              /\ -(13 * P) <= t[k + 1] - s[k + 1] /\ t[k + 1] - s[k + 1] <= 13 * P
  <2>1. k \in 0..0 + 2 * 12 - 1 /\ (k - 0) % 2 = 0 /\ 0 \in Nat /\ 12 \in Nat /\ 0 + 2 * 12 <= 24
    BY <1>13
  <2>2. /\ -Half <= t[k] /\ t[k] <= Half
        /\ \A x \in Nat : -(x * Radix) <= s[k] /\ s[k] <= x * Radix =>
               -x <= t[k + 1] - s[k + 1] /\ t[k + 1] - s[k + 1] <= x
    BY <1>2, <1>9, <2>1, PassedBounds
  <2>3. (13 * P) * Radix = 13 * Q /\ 13 * P \in Nat
    BY <1>7, <1>8
  <2> QED
    BY <1>12, <2>2, <2>3
<1>14. ASSUME NEW k \in 1..21, k % 2 = 1 PROVE -(14 * Q) <= t[k] /\ t[k] <= 14 * Q
  <2>1. k - 1 \in 0..22 /\ (k - 1) % 2 = 0 /\ (k - 1) + 1 = k
    BY <1>14
  <2>2. -(13 * P) <= t[k] - s[k] /\ t[k] - s[k] <= 13 * P
    BY <1>13, <2>1
  <2>3. -(13 * Q) <= s[k] /\ s[k] <= 13 * Q
    BY <1>12
  <2> QED
    BY <1>7, <1>11, <2>2, <2>3
<1>15. -(13 * P) <= t[23] /\ t[23] <= 13 * P
  <2>1. 22 \in 0..22 /\ 22 % 2 = 0 /\ 22 + 1 = 23
    OBVIOUS
  <2>2. -(13 * P) <= t[23] - s[23] /\ t[23] - s[23] <= 13 * P
    BY <1>13, <2>1
  <2> QED
    BY <1>4, <1>7, <1>11, <2>2
<1>16. Passed(t, u, 1, 11)
  <2>1. 1 \in Nat /\ 11 \in Nat /\ 1 + 2 * 11 <= 24
    OBVIOUS
  <2> QED
    BY <1>10, <2>1, NearestPass
<1> HIDE DEF u
<1>17. u \in Scalar24 /\ Of24(u) = Of24(t) /\ u[0] = t[0] /\ u[23] = t[23]
  BY <1>16 DEF Passed
<1>18. \A i \in 0..23 : u[i] \in Int
  BY <1>17 DEF Scalar24
<1>19. ASSUME NEW k \in 1..21, k % 2 = 1
       PROVE  /\ -Half <= u[k] /\ u[k] <= Half
              /\ -(14 * P) <= u[k + 1] - t[k + 1] /\ u[k + 1] - t[k + 1] <= 14 * P
  <2>1. k \in 1..1 + 2 * 11 - 1 /\ (k - 1) % 2 = 0 /\ 1 \in Nat /\ 11 \in Nat /\ 1 + 2 * 11 <= 24
    BY <1>19
  <2>2. /\ -Half <= u[k] /\ u[k] <= Half
        /\ \A x \in Nat : -(x * Radix) <= t[k] /\ t[k] <= x * Radix =>
               -x <= u[k + 1] - t[k + 1] /\ u[k + 1] - t[k + 1] <= x
    BY <1>10, <1>16, <2>1, PassedBounds
  <2>3. (14 * P) * Radix = 14 * Q /\ 14 * P \in Nat
    BY <1>7, <1>8
  <2>4. -(14 * Q) <= t[k] /\ t[k] <= 14 * Q
    BY <1>14, <1>19
  <2> QED
    BY <2>2, <2>3, <2>4
<1>20. ASSUME NEW k \in 0..23 PROVE -(15 * P) <= u[k] /\ u[k] <= 15 * P
  <2>1. CASE k = 0
    <3>1. 0 \in 0..22 /\ 0 % 2 = 0
      OBVIOUS
    <3>2. -Half <= t[0] /\ t[0] <= Half
      BY <1>13, <3>1
    <3> QED
      BY <1>7, <1>8, <1>11, <1>17, <2>1, <3>2
  <2>2. CASE k = 23
    BY <1>7, <1>11, <1>15, <1>17, <2>2
  <2>3. CASE k # 23 /\ k % 2 = 1
    <3>1. k \in 1..21
      BY <2>3
    <3>2. -Half <= u[k] /\ u[k] <= Half
      BY <1>19, <2>3, <3>1
    <3> QED
      BY <1>7, <1>8, <1>18, <3>2
  <2>4. CASE k # 0 /\ k % 2 = 0
    <3>1. k - 1 \in 1..21 /\ (k - 1) % 2 = 1 /\ (k - 1) + 1 = k /\ k \in 0..22
      BY <2>4
    <3>2. -(14 * P) <= u[k] - t[k] /\ u[k] - t[k] <= 14 * P
      BY <1>19, <3>1
    <3>3. -Half <= t[k] /\ t[k] <= Half
      BY <1>13, <2>4, <3>1
    <3> QED
      BY <1>7, <1>8, <1>11, <1>18, <3>2, <3>3
  <2>5. k % 2 = 0 \/ k % 2 = 1
    OBVIOUS
  <2> QED
    BY <2>1, <2>2, <2>3, <2>4, <2>5
<1>21. Within(u, 0, 23, Once(15 * e))
  BY <1>6, <1>20 DEF Within
<1>22. Reduced(Of24(u), ScReduceLimbs(u))
  BY <1>5, <1>17, <1>21, ScReduceIs
<1>23. Reduced(v, ScMulAddLimbs(a, b, c))
  BY <1>1, <1>2, <1>10, <1>17, <1>22
<1> QED
  BY <1>23 DEF v

-----------------------------------------------------------------------------
(* The specification's own way to a scalar's number: Horner's rule, with a *)
(* remainder at each limb.                                                 *)
HornerBody(s, hi, V) ==
    [n \in 0..hi - 0 + 1 |-> IF n = 0 THEN 0 ELSE (V[n - 1] * Radix + s[hi + 1 - n]) % Order]
Horners(s, hi) == CHOOSE V : V = HornerBody(s, hi, V)

LEMMA HornersIs ==
    ASSUME NEW m \in 1..24, NEW s, \A i \in 0..m - 1 : s[i] \in Int
    PROVE  /\ Horners(s, m - 1) \in [0..m -> 0..Order - 1]
           /\ Horners(s, m - 1)[0] = 0
           /\ \A n \in 1..m : Horners(s, m - 1)[n]
                                  = (Horners(s, m - 1)[n - 1] * Radix + s[m - n]) % Order
           /\ ScalarValue(s, 0, m - 1) = Horners(s, m - 1)[m]
<1> DEFINE T == 0..Order - 1
           h == [p \in T \X (1..m) |-> (p[1] * Radix + s[m - p[2]]) % Order]
           G == Horners(s, m - 1)
<1>1. Order \in Nat /\ Order > 0 /\ 0 \in T /\ Radix \in Int /\ m \in Nat
  <2>1. Order \in Int /\ Order >= At(12) /\ At(12) \in Int /\ At(12) >= 1 /\ Radix \in Int
    <3>1. 12 \in 0..24
      OBVIOUS
    <3> QED
      BY <3>1, TopFacts, AtIs, RadixFacts
  <2> QED
    BY <2>1
<1>2. ASSUME NEW x \in T, NEW n \in 1..m PROVE (x * Radix + s[m - n]) % Order \in T
  <2>1. m - n \in 0..m - 1 /\ x \in Int
    BY <1>1
  <2>2. x * Radix \in Int /\ s[m - n] \in Int
    BY <1>1, <2>1
  <2>3. x * Radix + s[m - n] \in Int
    BY <2>2
  <2> QED
    BY <1>1, <2>3, RemainderIs
<1>3. h \in [T \X (1..m) -> T]
  <2>1. ASSUME NEW p \in T \X (1..m) PROVE (p[1] * Radix + s[m - p[2]]) % Order \in T
    <3>1. p[1] \in T /\ p[2] \in 1..m
      OBVIOUS
    <3> HIDE DEF T
    <3> QED
      BY <1>2, <3>1
  <2> HIDE DEF T
  <2> QED
    BY <2>1
<1>4. \A x \in T, n \in 1..m : h[<<x, n>>] = (x * Radix + s[m - n]) % Order
  <2> HIDE DEF T
  <2> QED
    OBVIOUS
<1> HIDE DEF h, T
<1>5. PICK g : Follows(g, T, m, 0, h)
  BY <1>1, <1>3, Recursion
<1>6. g \in [0..m -> T] /\ g[0] = 0 /\ \A n \in 1..m : g[n] = h[<<g[n - 1], n>>]
  BY <1>5 DEF Follows
<1>7. (m - 1) - 0 + 1 = m /\ \A n \in 0..m : (m - 1) + 1 - n = m - n
  BY <1>1
<1>8. ASSUME NEW n \in 1..m PROVE g[n] = (g[n - 1] * Radix + s[m - n]) % Order
  <2>1. g[n - 1] \in T
    BY <1>6
  <2> QED
    BY <1>4, <1>6, <2>1
<1>9. g = HornerBody(s, m - 1, g)
  <2>1. ASSUME NEW n \in 0..m
        PROVE  g[n] = IF n = 0 THEN 0 ELSE (g[n - 1] * Radix + s[(m - 1) + 1 - n]) % Order
    <3>1. n # 0 => n \in 1..m
      OBVIOUS
    <3> QED
      BY <1>6, <1>7, <1>8, <3>1
  <2>2. DOMAIN g = 0..m /\ g = [n \in DOMAIN g |-> g[n]]
    BY <1>6
  <2> QED
    BY <1>7, <2>1, <2>2 DEF HornerBody
<1>10. G = HornerBody(s, m - 1, G)
  BY <1>9 DEF Horners
<1>11. ScalarValue(s, 0, m - 1) = G[m]
  BY <1>7 DEF ScalarValue, Horners, HornerBody
<1> HIDE DEF G
<1>12. G = [n \in 0..m |-> IF n = 0 THEN 0 ELSE (G[n - 1] * Radix + s[m - n]) % Order]
  BY <1>7, <1>10 DEF HornerBody
<1>13. G[0] = 0 /\ \A n \in 1..m : G[n] = (G[n - 1] * Radix + s[m - n]) % Order
  <2>1. 0 \in 0..m /\ \A n \in 1..m : n \in 0..m /\ n # 0
    BY <1>1
  <2> QED
    BY <1>12, <2>1
<1>14. \A n \in 0..m : G[n] \in T
  <2> DEFINE A == {n \in Nat : n \in 0..m => G[n] \in T}
  <2>1. 0 \in A
    BY <1>1, <1>13
  <2>2. ASSUME NEW n \in Nat, n \in A PROVE n + 1 \in A
    <3>1. SUFFICES ASSUME n + 1 \in 0..m PROVE G[n + 1] \in T
      OBVIOUS
    <3>2. n + 1 \in 1..m /\ (n + 1) - 1 = n /\ n \in 0..m
      BY <1>1, <3>1
    <3>3. G[n] \in T
      BY <2>2, <3>2
    <3>4. (G[n] * Radix + s[m - (n + 1)]) % Order \in T
      BY <1>2, <3>2, <3>3
    <3> QED
      BY <1>13, <3>2, <3>4
  <2> HIDE DEF A
  <2>3. \A n \in Nat : n \in A
    BY <2>1, <2>2, SetInduction
  <2> QED
    BY <2>3 DEF A
<1>15. G \in [0..m -> T]
  BY <1>12, <1>14
<1> QED
  BY <1>11, <1>13, <1>15 DEF G, T

LEMMA ScalarValueIs ==
    ASSUME NEW m \in 1..24, NEW s, \A i \in 0..m - 1 : s[i] \in Int
    PROVE  /\ WorthTo(s, m) \in Int
           /\ ScalarValue(s, 0, m - 1) = WorthTo(s, m) % Order
<1> DEFINE V == Horners(s, m - 1)
           W == WorthTo(s, m)
           Left(n) == V[n] * At(m - n) + WorthTo(s, m - n)
<1>1. Order \in Nat /\ Order > 0 /\ Radix \in Int
  <2>1. Order \in Int /\ Order >= At(12) /\ At(12) \in Int /\ At(12) >= 1 /\ Radix \in Int
    <3>1. 12 \in 0..24
      OBVIOUS
    <3> QED
      BY <3>1, TopFacts, AtIs, RadixFacts
  <2> QED
    BY <2>1
<1>2. V \in [0..m -> 0..Order - 1] /\ V[0] = 0
  BY HornersIs
<1>3. \A n \in 1..m : V[n] = (V[n - 1] * Radix + s[m - n]) % Order
  BY HornersIs
<1>4. ScalarValue(s, 0, m - 1) = V[m]
  BY HornersIs
<1>5. \A k \in 0..m : WorthTo(s, k) \in Int
  <2>1. ASSUME NEW k \in 0..m PROVE Worth(s, ScalarRadix, k) \in Int
    <3>1. k \in Nat /\ k \in 0..24 /\ \A i \in 0..k - 1 : s[i] \in Int
      OBVIOUS
    <3>2. IsRadix(ScalarRadix, k)
      BY <3>1, ScalarRadixIs
    <3> QED
      BY <3>1, <3>2, WorthType
  <2> QED
    BY <2>1 DEF WorthTo
<1>6. \A k \in 0..m - 1 : WorthTo(s, k + 1) = WorthTo(s, k) + s[k] * At(k)
  <2>1. ASSUME NEW k \in 0..m - 1
        PROVE  Worth(s, ScalarRadix, k + 1) = Worth(s, ScalarRadix, k) + s[k] * Place(ScalarRadix, k)
    <3>1. k \in Nat /\ k + 1 \in 0..24 /\ \A i \in 0..k : s[i] \in Int
      OBVIOUS
    <3>2. IsRadix(ScalarRadix, k + 1)
      BY <3>1, ScalarRadixIs
    <3> QED
      BY <3>1, <3>2, WorthStep
  <2> QED
    BY <2>1 DEF WorthTo, At
<1>7. WorthTo(s, 0) = 0
  BY WorthZero DEF WorthTo
<1> HIDE DEF V, Left
<1> DEFINE A == {n \in Nat : n \in 0..m => \E q \in Int : W = Left(n) + q * Order}
<1>8. 0 \in A
  <2>1. m - 0 = m /\ m \in 0..m /\ m \in 0..24
    OBVIOUS
  <2>2. W \in Int /\ At(m) \in Int
    BY <1>5, <2>1, AtIs
  <2>3. Left(0) = W
    <3>1. Left(0) = 0 * At(m) + W
      BY <1>2, <2>1 DEF Left
    <3> HIDE DEF W
    <3> QED
      BY <2>2, <3>1
  <2>4. W = Left(0) + 0 * Order /\ 0 \in Int
    <3> HIDE DEF W
    <3> QED
      BY <1>1, <2>2, <2>3
  <2> QED
    BY <2>4
<1>9. ASSUME NEW n \in Nat, n \in A PROVE n + 1 \in A
  <2>1. SUFFICES ASSUME n + 1 \in 0..m PROVE \E q \in Int : W = Left(n + 1) + q * Order
    OBVIOUS
  <2>2. n \in 0..m /\ m \in Nat
    BY <2>1
  <2>3. PICK q \in Int : W = Left(n) + q * Order
    BY <1>9, <2>2
  <2>4. PICK k \in 0..m - 1 : k = m - (n + 1)
    BY <2>1, <2>2
  <2>5. k + 1 = m - n /\ k \in 0..23 /\ k \in 0..m /\ k \in 0..24
    BY <2>2, <2>4
  <2>6. PICK a \in Int : a = At(k)
    BY <2>5, AtIs
  <2>7. At(m - n) = a * Radix
    BY <2>5, <2>6, AtIs
  <2>8. PICK v \in Int : v = V[n]
    BY <1>2, <2>2
  <2>9. PICK w \in Int : w = WorthTo(s, k)
    BY <1>5, <2>5
  <2>10. PICK l \in Int : l = s[k]
    OBVIOUS
  <2>11. WorthTo(s, m - n) = w + l * a
    BY <1>6, <2>5, <2>6, <2>9, <2>10
  <2>12. PICK x \in Int : x = v * Radix + l
    BY <1>1, <2>8, <2>10
  <2>13. V[n + 1] = x % Order
    <3>1. n + 1 \in 1..m /\ (n + 1) - 1 = n
      BY <2>1
    <3> QED
      BY <1>3, <2>4, <2>8, <2>10, <2>12, <3>1
  <2>14. PICK c, u \in Int : x = Order * c + u /\ u = V[n + 1]
    BY <1>1, <2>13, RemainderIs
  <2>15. Left(n + 1) = u * a + w
    BY <2>4, <2>6, <2>9, <2>14 DEF Left
  <2>16. Left(n) = v * (a * Radix) + (w + l * a)
    BY <2>7, <2>8, <2>11 DEF Left
  <2>17. v * (a * Radix) + (w + l * a) = (v * Radix + l) * a + w
    BY <1>1
  <2>18. (v * Radix + l) * a = (Order * c + u) * a
    BY <2>12, <2>14
  <2>19. PICK e \in Int : e = c * a
    OBVIOUS
  <2>20. (Order * c + u) * a = e * Order + u * a
    BY <1>1, <2>19
  <2>21. Left(n) = e * Order + (u * a + w)
    BY <1>1, <2>16, <2>17, <2>18, <2>20
  <2>22. W = (u * a + w) + (q + e) * Order
    <3> HIDE DEF W
    <3> QED
      BY <1>1, <2>3, <2>21
  <2>23. q + e \in Int
    OBVIOUS
  <2> QED
    BY <2>15, <2>22, <2>23
<1> HIDE DEF A
<1>10. \A n \in Nat : n \in A
  BY <1>8, <1>9, SetInduction
<1>11. m \in Nat /\ m \in 0..m /\ m - m = 0 /\ 0 \in 0..24
  OBVIOUS
<1>12. PICK q \in Int : W = Left(m) + q * Order
  BY <1>10, <1>11 DEF A
<1>13. PICK v \in 0..Order - 1 : v = V[m]
  BY <1>2, <1>11
<1>14. Left(m) = v
  <2>1. Left(m) = v * 1 + 0
    BY <1>7, <1>11, <1>13, AtIs DEF Left
  <2> QED
    BY <1>1, <1>13, <2>1
<1>15. W \in Int
  BY <1>5, <1>11
<1>16. W = Order * q + v
  <2> HIDE DEF W
  <2> QED
    BY <1>1, <1>12, <1>13, <1>14
<1>17. W % Order = v
  <2> HIDE DEF W
  <2> QED
    BY <1>1, <1>15, <1>16, RemainderUnique
<1> QED
  BY <1>4, <1>13, <1>15, <1>17

LEMMA OrderIsPositive == Order \in Nat /\ Order > 0
<1>1. 12 \in 0..24
  OBVIOUS
<1>2. Order \in Int /\ Order >= At(12) /\ At(12) \in Int /\ At(12) >= 1
  BY <1>1, TopFacts, AtIs
<1> QED
  BY <1>2

(* What is reduced is the remainder.                                       *)
LEMMA ReducedIsRemainder ==
    ASSUME NEW v \in Int, NEW out, Reduced(v, out)
    PROVE  WorthTo(out, 12) = v % Order
<1>1. PICK w \in 0..Order - 1 : w = WorthTo(out, 12)
  BY DEF Reduced
<1>2. PICK q \in Int : w = v + q * Order
  BY <1>1 DEF Reduced
<1>3. v = Order * (-q) + w /\ -q \in Int
  BY <1>1, <1>2, OrderIsPositive
<1>4. v % Order = w
  BY <1>3, OrderIsPositive, RemainderUnique
<1> QED
  BY <1>1, <1>4

(* A product and a sum of remainders.                                      *)
LEMMA MulAddNumber ==
    ASSUME NEW x \in Int, NEW y \in Int, NEW z \in Int
    PROVE  (TimesMod(x % Order, y % Order, Order) + (z % Order)) % Order = (x * y + z) % Order
<1>0. Order \in Nat /\ Order > 0
  BY OrderIsPositive
<1>1. PICK a \in 0..Order - 1 : a = x % Order
  BY <1>0, RemainderIs
<1>2. PICK b \in 0..Order - 1 : b = y % Order
  BY <1>0, RemainderIs
<1>3. PICK c \in 0..Order - 1 : c = z % Order
  BY <1>0, RemainderIs
<1>4. a \in Nat /\ b \in Nat /\ c \in Nat /\ a \in Int /\ b \in Int /\ c \in Int
  BY <1>0
<1>5. TimesMod(a, b, Order) = (a * b) % Order
  BY <1>0, <1>4, TimesModIs
<1>6. (a * b) % Order = (x * y) % Order
  <2>1. ((x % Order) * b) % Order = (x * b) % Order
    BY <1>0, <1>4, RemainderOfProduct
  <2>2. ((y % Order) * x) % Order = (y * x) % Order
    BY <1>0, RemainderOfProduct
  <2>3. b * x = x * b /\ y * x = x * y
    BY <1>4
  <2> QED
    BY <1>1, <1>2, <2>1, <2>2, <2>3
<1>7. PICK p \in Int : p = x * y
  OBVIOUS
<1>8. PICK e \in 0..Order - 1 : e = p % Order
  BY <1>0, RemainderIs
<1>9. (e + c) % Order = (p + z) % Order
  <2>1. (e + c) % Order = (p + c) % Order
    BY <1>0, <1>4, <1>8, RemainderOfSum
  <2>2. ((z % Order) + p) % Order = (z + p) % Order
    BY <1>0, RemainderOfSum
  <2>3. c + p = p + c /\ z + p = p + z
    BY <1>4
  <2> QED
    BY <1>3, <2>1, <2>2, <2>3
<1>10. TimesMod(x % Order, y % Order, Order) = e
  <2>1. TimesMod(x % Order, y % Order, Order) = TimesMod(a, b, Order)
    BY <1>1, <1>2
  <2>2. TimesMod(a, b, Order) = p % Order
    BY <1>5, <1>6, <1>7
  <2> QED
    BY <1>8, <2>1, <2>2
<1>11. (TimesMod(x % Order, y % Order, Order) + (z % Order)) % Order = (e + c) % Order
  BY <1>3, <1>10
<1>12. (x * y + z) % Order = (p + z) % Order
  BY <1>7
<1> QED
  BY <1>9, <1>11, <1>12

-----------------------------------------------------------------------------
(* The widths of the code: a limb of 2^21; a hash of 64 bytes, whose top   *)
(* limb has 29 bits; scalars of 32 bytes, whose top limb has 25.           *)
ScalarsFit ==
    /\ Radix > 132 * 15 * 256
    /\ Hashes \subseteq [0..23 -> 0..256 * Radix]
    /\ ScalarTexts \subseteq [0..11 -> 0..16 * Radix]

LEMMA HashReduced ==
    ASSUME ScalarsFit, NEW s \in Hashes
    PROVE  /\ Reduced(WorthTo(s, 24), ScReduceLimbs(s))
           /\ WorthTo(ScReduceLimbs(s), 12) = ScalarValue(s, 0, 23)
<1>1. Radix \in Nat /\ Radix >= 132 * 15 * 256
  BY RadixFacts DEF ScalarsFit
<1>2. s \in [0..23 -> 0..256 * Radix]
  BY DEF ScalarsFit
<1>3. \A i \in 0..23 : s[i] \in Int /\ 0 <= s[i] /\ s[i] <= 256 * Radix
  BY <1>1, <1>2
<1>4. s \in Scalar24
  BY <1>2, <1>3 DEF Scalar24
<1>5. Fits(256)
  BY <1>1 DEF Fits
<1>6. Within(s, 0, 23, Once(256))
  BY <1>1, <1>3 DEF Within, Once
<1>7. Reduced(Of24(s), ScReduceLimbs(s)) /\ WorthTo(s, 24) = Of24(s)
  BY <1>4, <1>5, <1>6, ScReduceIs, WorthToIs
<1>8. 24 \in 1..24 /\ 24 - 1 = 23
  OBVIOUS
<1>9. WorthTo(s, 24) \in Int /\ ScalarValue(s, 0, 23) = WorthTo(s, 24) % Order
  BY <1>3, <1>8, ScalarValueIs
<1> QED
  BY <1>7, <1>9, ReducedIsRemainder

LEMMA ProductReduced ==
    ASSUME ScalarsFit, NEW a \in ScalarTexts, NEW b \in ScalarTexts, NEW c \in ScalarTexts
    PROVE  /\ Reduced(WorthTo(a, 12) * WorthTo(b, 12) + WorthTo(c, 12), ScMulAddLimbs(a, b, c))
           /\ WorthTo(ScMulAddLimbs(a, b, c), 12)
                  = (TimesMod(ScalarValue(a, 0, 11), ScalarValue(b, 0, 11), Order)
                     + ScalarValue(c, 0, 11)) % Order
<1>1. Radix \in Nat /\ Radix > 132 * 15 * 256
  BY RadixFacts DEF ScalarsFit
<1>2. ASSUME NEW s \in ScalarTexts
      PROVE  /\ s \in Scalar12 /\ Within(s, 0, 11, 16 * Radix)
             /\ WorthTo(s, 12) \in Int /\ ScalarValue(s, 0, 11) = WorthTo(s, 12) % Order
  <2>1. s \in [0..11 -> 0..16 * Radix]
    BY DEF ScalarsFit
  <2>2. \A i \in 0..11 : s[i] \in Int /\ 0 <= s[i] /\ s[i] <= 16 * Radix
    BY <1>1, <2>1
  <2>3. s \in Scalar12 /\ Within(s, 0, 11, 16 * Radix)
    BY <1>1, <2>1, <2>2 DEF Scalar12, Within
  <2>4. 12 \in 1..24 /\ 12 - 1 = 11
    OBVIOUS
  <2>5. WorthTo(s, 12) \in Int /\ ScalarValue(s, 0, 11) = WorthTo(s, 12) % Order
    BY <2>2, <2>4, ScalarValueIs
  <2> QED
    BY <2>3, <2>5
<1>3. 16 \in Nat /\ 16 >= 1 /\ Fits(15 * (16 * 16))
  BY <1>1 DEF Fits
<1>4. PICK x, y, z \in Int : x = WorthTo(a, 12) /\ y = WorthTo(b, 12) /\ z = WorthTo(c, 12)
  BY <1>2
<1>5. Reduced(x * y + z, ScMulAddLimbs(a, b, c))
  BY <1>2, <1>3, <1>4, ScMulAddIs
<1>6. WorthTo(ScMulAddLimbs(a, b, c), 12) = (x * y + z) % Order
  <2>1. x * y + z \in Int
    OBVIOUS
  <2> QED
    BY <1>5, <2>1, ReducedIsRemainder
<1>7. (TimesMod(x % Order, y % Order, Order) + (z % Order)) % Order = (x * y + z) % Order
  BY MulAddNumber
<1>8. /\ ScalarValue(a, 0, 11) = x % Order /\ ScalarValue(b, 0, 11) = y % Order
      /\ ScalarValue(c, 0, 11) = z % Order
  BY <1>2, <1>4
<1>9. (TimesMod(ScalarValue(a, 0, 11), ScalarValue(b, 0, 11), Order)
           + ScalarValue(c, 0, 11)) % Order
          = (TimesMod(x % Order, y % Order, Order) + (z % Order)) % Order
  BY <1>8
<1>10. Reduced(WorthTo(a, 12) * WorthTo(b, 12) + WorthTo(c, 12), ScMulAddLimbs(a, b, c))
  BY <1>4, <1>5
<1> QED
  BY <1>6, <1>7, <1>9, <1>10

(* No step makes a scalar: what it was reduced to is what it stays.        *)
ScalarInv == "unit" \in DOMAIN work /\ ScalarsReduced

LEMMA ScalarAtFirst ==
    ASSUME ScalarsFit, ScalarInit
    PROVE  ScalarInv
<1>1. ASSUME NEW v, Reduced(v, work.out), WorthTo(work.out, 12) = work.number
      PROVE  ScalarsReduced
  <2>1. (\A k \in 0..10 : work.out[k] \in 0..Radix - 1) /\ work.out[11] >= 0
    BY <1>1 DEF Reduced
  <2> QED
    BY <1>1, <2>1 DEF ScalarsReduced, WorthTo
<1>2. CASE \E s \in Hashes :
             work = [unit |-> "scalar", out |-> ScReduceLimbs(s), number |-> ScalarValue(s, 0, 23)]
  <2>1. PICK s \in Hashes :
            work = [unit |-> "scalar", out |-> ScReduceLimbs(s), number |-> ScalarValue(s, 0, 23)]
    BY <1>2
  <2>2. /\ "unit" \in DOMAIN work
        /\ work.out = ScReduceLimbs(s) /\ work.number = ScalarValue(s, 0, 23)
    BY <2>1
  <2>3. Reduced(WorthTo(s, 24), work.out) /\ WorthTo(work.out, 12) = work.number
    BY <2>2, HashReduced
  <2> QED
    BY <1>1, <2>2, <2>3 DEF ScalarInv
<1>3. CASE \E a, b, c \in ScalarTexts :
             work = [unit |-> "scalar", out |-> ScMulAddLimbs(a, b, c),
                     number |-> (TimesMod(ScalarValue(a, 0, 11), ScalarValue(b, 0, 11), Order)
                                 + ScalarValue(c, 0, 11)) % Order]
  <2>1. PICK a, b, c \in ScalarTexts :
            work = [unit |-> "scalar", out |-> ScMulAddLimbs(a, b, c),
                    number |-> (TimesMod(ScalarValue(a, 0, 11), ScalarValue(b, 0, 11), Order)
                                + ScalarValue(c, 0, 11)) % Order]
    BY <1>3
  <2>2. /\ "unit" \in DOMAIN work
        /\ work.out = ScMulAddLimbs(a, b, c)
        /\ work.number = (TimesMod(ScalarValue(a, 0, 11), ScalarValue(b, 0, 11), Order)
                          + ScalarValue(c, 0, 11)) % Order
    BY <2>1
  <2>3. /\ Reduced(WorthTo(a, 12) * WorthTo(b, 12) + WorthTo(c, 12), work.out)
        /\ WorthTo(work.out, 12) = work.number
    BY <2>2, ProductReduced
  <2> QED
    BY <1>1, <2>2, <2>3 DEF ScalarInv
<1> QED
  BY <1>2, <1>3 DEF ScalarInit

LEMMA InitScalar == ASSUME ScalarsFit PROVE Init => ScalarInv
<1> SUFFICES ASSUME Init PROVE ScalarInv
  OBVIOUS
<1>1. CASE FieldInit
  <2>1. "unit" \in DOMAIN work /\ work.unit = "field"
    BY <1>1 DEF FieldInit
  <2> QED
    BY <2>1 DEF ScalarInv, ScalarsReduced
<1>2. CASE ScalarInit
  BY <1>2, ScalarAtFirst
<1>3. CASE MacInit
  <2>1. "unit" \in DOMAIN work /\ work.unit = "mac"
    BY <1>3 DEF MacInit
  <2> QED
    BY <2>1 DEF ScalarInv, ScalarsReduced
<1>4. CASE HashInit
  <2>1. "unit" \in DOMAIN work /\ work.unit = "hash"
    BY <1>4 DEF HashInit
  <2> QED
    BY <2>1 DEF ScalarInv, ScalarsReduced
<1> QED
  BY <1>1, <1>2, <1>3, <1>4 DEF Init

LEMMA ScalarStep == ScalarInv /\ [Next]_work => ScalarInv'
<1> SUFFICES ASSUME ScalarInv, [Next]_work PROVE ScalarInv'
  OBVIOUS
<1>0. "unit" \in DOMAIN work
  BY DEF ScalarInv
<1>1. CASE FieldSum
  <2>1. "unit" \in DOMAIN work' /\ work'.unit = "field"
    BY <1>1 DEF FieldSum, Element
  <2> QED
    BY <2>1 DEF ScalarInv, ScalarsReduced
<1>2. CASE FieldProduct
  <2>1. "unit" \in DOMAIN work' /\ work'.unit = "field"
    BY <1>2 DEF FieldProduct, Element
  <2> QED
    BY <2>1 DEF ScalarInv, ScalarsReduced
<1>3. CASE MacBlock
  <2>1. DOMAIN work' = DOMAIN work /\ work'.unit = "mac"
    BY <1>0, <1>3 DEF MacBlock
  <2> QED
    BY <1>0, <2>1 DEF ScalarInv, ScalarsReduced
<1>4. CASE HashUpdate
  <2>1. DOMAIN work' = DOMAIN work /\ work'.unit = "hash"
    BY <1>0, <1>4 DEF HashUpdate
  <2> QED
    BY <1>0, <2>1 DEF ScalarInv, ScalarsReduced
<1>5. CASE HashFinal
  <2>1. DOMAIN work' = DOMAIN work /\ work'.unit = "hash"
    BY <1>0, <1>5 DEF HashFinal
  <2> QED
    BY <1>0, <2>1 DEF ScalarInv, ScalarsReduced
<1>6. CASE UNCHANGED work
  BY <1>6 DEF ScalarInv, ScalarsReduced, Worth, SumTo, Place
<1> QED
  BY <1>1, <1>2, <1>3, <1>4, <1>5, <1>6 DEF Next

(* For limbs as wide as the code's and any order of the form sc.c takes,   *)
(* whatever the hash or the scalars: the folds and carries of sc_reduce    *)
(* and sc_muladd end at the one representative below the order, in limbs   *)
(* that fill their bytes without overlap.                                  *)
THEOREM ScalarsAreReduced == ScalarsFit => (Spec => []ScalarsReduced)
<1> SUFFICES ASSUME ScalarsFit PROVE Spec => []ScalarsReduced
  OBVIOUS
<1>1. Init => ScalarInv
  BY InitScalar
<1>2. ScalarInv => ScalarsReduced
  BY DEF ScalarInv
<1> QED
  BY <1>1, <1>2, ScalarStep, PTL DEF Spec

-----------------------------------------------------------------------------
(* The field: numbers that are the same modulo the prime. *)
Same(x, y) == \E q \in Int : x = y + q * FieldPrime

(* The places of fe.c go on above the top limb: one turn is AllWeight. *)
WideRadix(e) == IF e % 2 = 0 THEN 2 * OddRadix ELSE OddRadix
WideWeight(e) == IF e < Limbs THEN Weight(e) ELSE AllWeight * Weight(e - Limbs)

LEMMA LimbsFacts ==
    /\ Limbs \in Nat /\ Limbs >= 4 /\ Limbs % 2 = 0
    /\ OddRadix \in Nat /\ OddRadix >= 2 /\ OddRadix % 2 = 0
    /\ Excess \in Nat /\ Factor \in Nat
BY FeLimbsAssumption

LEMMA FieldRadixIs ==
    /\ \A i \in Index : FieldRadix[i] = WideRadix(i)
    /\ \A e \in Nat : WideRadix(e) \in Positive /\ WideRadix(e) % 2 = 0
    /\ \A n \in 0..Limbs : IsRadix(FieldRadix, n)
<1>1. \A i \in Index : FieldRadix[i] = WideRadix(i)
  BY DEF FieldRadix, WideRadix
<1>2. \A e \in Nat : WideRadix(e) \in Positive /\ WideRadix(e) % 2 = 0
  BY LimbsFacts DEF WideRadix, Positive
<1>3. \A n \in 0..Limbs : \A i \in 0..n - 1 : i \in Index /\ i \in Nat
  BY LimbsFacts DEF Index
<1> QED
  BY <1>1, <1>2, <1>3 DEF IsRadix

LEMMA WeightIs ==
    /\ Weight(0) = 1
    /\ \A i \in 0..Limbs : Weight(i) \in Positive
    /\ \A i \in Index : Weight(i + 1) = Weight(i) * WideRadix(i)
<1>1. Weight(0) = 1
  BY PlaceZero DEF Weight
<1>2. \A i \in 0..Limbs : Weight(i) \in Positive
  <2>1. Limbs \in Nat /\ Limbs \in 0..Limbs
    BY LimbsFacts
  <2> QED
    BY <2>1, FieldRadixIs, PlacesOf DEF Weight
<1>3. ASSUME NEW i \in Index PROVE Weight(i + 1) = Weight(i) * WideRadix(i)
  <2>1. i \in Nat /\ \A j \in 0..i : j \in Index /\ j \in Nat
    BY LimbsFacts DEF Index
  <2>2. \A j \in 0..i : FieldRadix[j] \in Positive
    BY <2>1, FieldRadixIs
  <2> QED
    BY <2>1, <2>2, FieldRadixIs, PlaceStep DEF Weight
<1> QED
  BY <1>1, <1>2, <1>3

LEMMA PrimeIs ==
    /\ AllWeight \in Nat /\ FieldPrime \in Nat /\ FieldPrime > 0
    /\ AllWeight = FieldPrime + Excess
<1>1. Limbs \in 0..Limbs
  BY LimbsFacts
<1>2. AllWeight \in Nat /\ AllWeight > 0
  BY <1>1, WeightIs DEF AllWeight, Positive
<1>3. Excess < AllWeight
  BY FeLimbsAssumption
<1> QED
  BY <1>2, <1>3, LimbsFacts DEF FieldPrime

LEMMA SameItself == ASSUME NEW x \in Int PROVE Same(x, x)
<1>1. x = x + 0 * FieldPrime /\ 0 \in Int
  BY PrimeIs
<1> QED
  BY <1>1 DEF Same

LEMMA SameThrough ==
    ASSUME NEW x \in Int, NEW y \in Int, NEW z \in Int, Same(x, y), Same(y, z)
    PROVE  Same(x, z)
<1>1. PICK q \in Int : x = y + q * FieldPrime
  BY DEF Same
<1>2. PICK r \in Int : y = z + r * FieldPrime
  BY DEF Same
<1>3. x = z + (q + r) * FieldPrime /\ q + r \in Int
  BY <1>1, <1>2, PrimeIs
<1> QED
  BY <1>3 DEF Same

LEMMA SamePlus ==
    ASSUME NEW x \in Int, NEW y \in Int, NEW u \in Int, NEW v \in Int, Same(x, y), Same(u, v)
    PROVE  Same(x + u, y + v)
<1>1. PICK q \in Int : x = y + q * FieldPrime
  BY DEF Same
<1>2. PICK r \in Int : u = v + r * FieldPrime
  BY DEF Same
<1>3. x + u = (y + v) + (q + r) * FieldPrime /\ q + r \in Int
  BY <1>1, <1>2, PrimeIs
<1> QED
  BY <1>3 DEF Same

LEMMA SameTimes ==
    ASSUME NEW x \in Int, NEW y \in Int, NEW u \in Int, Same(x, y)
    PROVE  Same(x * u, y * u)
<1>1. PICK q \in Int : x = y + q * FieldPrime
  BY DEF Same
<1>2. PICK r \in Int : r = q * u
  OBVIOUS
<1>3. (y + q * FieldPrime) * u = y * u + (q * u) * FieldPrime
  BY PrimeIs
<1>4. x * u = y * u + r * FieldPrime
  BY <1>1, <1>2, <1>3
<1> QED
  BY <1>4 DEF Same

LEMMA SameIsRemainder ==
    ASSUME NEW x \in Int, NEW y \in Int
    PROVE  Same(x, y) <=> x % FieldPrime = y % FieldPrime
<1>0. FieldPrime \in Nat /\ FieldPrime > 0
  BY PrimeIs
<1>1. PICK a \in Int, b \in 0..FieldPrime - 1 : x = FieldPrime * a + b /\ b = x % FieldPrime
  BY <1>0, RemainderIs
<1>2. PICK c \in Int, d \in 0..FieldPrime - 1 : y = FieldPrime * c + d /\ d = y % FieldPrime
  BY <1>0, RemainderIs
<1>3. ASSUME Same(x, y) PROVE x % FieldPrime = y % FieldPrime
  <2>1. PICK q \in Int : x = y + q * FieldPrime
    BY <1>3 DEF Same
  <2>2. FieldPrime * (c + q) = FieldPrime * c + q * FieldPrime
    BY <1>0
  <2>6. PICK u, v \in Int : u = FieldPrime * c /\ v = q * FieldPrime
    BY <1>0
  <2>4. x = FieldPrime * (c + q) + d /\ c + q \in Int
    <3>1. y = u + d /\ x = y + v
      BY <1>2, <2>1, <2>6
    <3>2. FieldPrime * (c + q) = u + v
      BY <2>2, <2>6
    <3> QED
      BY <3>1, <3>2
  <2>3. x % FieldPrime = d
    BY <1>0, <2>4, RemainderUnique
  <2> QED
    BY <1>2, <2>3
<1>4. ASSUME b = d PROVE Same(x, y)
  <2>1. x = y + (a - c) * FieldPrime /\ a - c \in Int
    BY <1>0, <1>1, <1>2, <1>4
  <2> QED
    BY <2>1 DEF Same
<1> QED
  BY <1>1, <1>2, <1>3, <1>4

LEMMA WideWeightIs ==
    /\ \A e \in 0..2 * Limbs - 1 : WideWeight(e) \in Nat
    /\ \A e \in 0..2 * Limbs - 2 : WideWeight(e + 1) = WideWeight(e) * WideRadix(e)
<1>0. Limbs \in Nat /\ Limbs >= 4 /\ Limbs % 2 = 0
  BY LimbsFacts
<1>1. PICK m \in Nat : m = AllWeight
  BY PrimeIs
<1>2. ASSUME NEW e \in 0..2 * Limbs - 1 PROVE WideWeight(e) \in Nat
  <2>1. CASE e < Limbs
    <3>1. e \in 0..Limbs
      BY <1>0, <2>1
    <3> QED
      BY <2>1, <3>1, WeightIs DEF WideWeight, Positive
  <2>2. CASE ~(e < Limbs)
    <3>1. e - Limbs \in 0..Limbs
      BY <1>0, <2>2
    <3>2. PICK w \in Nat : w = Weight(e - Limbs)
      BY <3>1, WeightIs DEF Positive
    <3>3. m * w \in Nat
      OBVIOUS
    <3> QED
      BY <1>1, <2>2, <3>2, <3>3 DEF WideWeight
  <2> QED
    BY <2>1, <2>2
<1>3. ASSUME NEW e \in 0..2 * Limbs - 2 PROVE WideWeight(e + 1) = WideWeight(e) * WideRadix(e)
  <2>1. CASE e + 1 < Limbs
    <3>1. e < Limbs /\ e \in Index
      BY <1>0, <2>1 DEF Index
    <3> QED
      BY <2>1, <3>1, WeightIs DEF WideWeight
  <2>2. CASE e + 1 = Limbs
    <3>1. e < Limbs /\ e \in Index /\ ~(e + 1 < Limbs) /\ (e + 1) - Limbs = 0
      BY <1>0, <2>2 DEF Index
    <3>2. WideWeight(e + 1) = AllWeight
      BY <1>1, <3>1, WeightIs DEF WideWeight
    <3>3. AllWeight = Weight(e) * WideRadix(e)
      BY <2>2, <3>1, WeightIs DEF AllWeight
    <3> QED
      BY <3>1, <3>2, <3>3 DEF WideWeight
  <2>3. CASE e >= Limbs
    <3>1. PICK i \in Index : i = e - Limbs
      BY <1>0, <2>3 DEF Index
    <3>2. ~(e < Limbs) /\ ~(e + 1 < Limbs) /\ (e + 1) - Limbs = i + 1 /\ i \in Nat /\ i \in 0..Limbs
      BY <1>0, <2>3, <3>1 DEF Index
    <3>3. i % 2 = 0 <=> e % 2 = 0
      BY <1>0, <3>1, <3>2
    <3>4. WideRadix(i) = WideRadix(e)
      BY <3>3 DEF WideRadix
    <3>5. PICK w \in Nat : w = Weight(i)
      BY <3>2, WeightIs DEF Positive
    <3>6. PICK r \in Nat : r = WideRadix(i)
      BY <3>2, FieldRadixIs DEF Positive
    <3>7. Weight(i + 1) = w * r
      BY <3>5, <3>6, WeightIs
    <3>8. m * (w * r) = (m * w) * r
      OBVIOUS
    <3> QED
      BY <1>1, <3>1, <3>2, <3>4, <3>5, <3>6, <3>7, <3>8 DEF WideWeight
  <2> QED
    BY <1>0, <2>1, <2>2, <2>3
<1> QED
  BY <1>2, <1>3

-----------------------------------------------------------------------------
(* Products of limbs. *)
Twice(i, j) == IF i % 2 = 1 /\ j % 2 = 1 THEN 2 ELSE 1

LEMMA TwiceIs ==
    ASSUME NEW i \in Nat, NEW j \in Nat
    PROVE  Twice(i, j) * WideRadix(j) = Twice(i, j + 1) * WideRadix(i + j)
<1>0. OddRadix \in Nat
  BY LimbsFacts
<1>1. CASE i % 2 = 0
  <2>1. (i + j) % 2 = 0 <=> j % 2 = 0
    BY <1>1
  <2> QED
    BY <1>0, <1>1, <2>1 DEF Twice, WideRadix
<1>2. CASE i % 2 = 1 /\ j % 2 = 0
  <2>1. (i + j) % 2 = 1 /\ (j + 1) % 2 = 1
    BY <1>2
  <2> QED
    BY <1>0, <1>2, <2>1 DEF Twice, WideRadix
<1>3. CASE i % 2 = 1 /\ j % 2 = 1
  <2>1. (i + j) % 2 = 0 /\ (j + 1) % 2 = 0
    BY <1>3
  <2> QED
    BY <1>0, <1>3, <2>1 DEF Twice, WideRadix
<1>4. (i % 2 = 0 \/ i % 2 = 1) /\ (j % 2 = 0 \/ j % 2 = 1)
  OBVIOUS
<1> QED
  BY <1>1, <1>2, <1>3, <1>4

LEMMA WeightProduct ==
    ASSUME NEW i \in Index, NEW j \in Index
    PROVE  Weight(i) * Weight(j) = Twice(i, j) * WideWeight(i + j)
<1>0. Limbs \in Nat /\ Limbs >= 4 /\ i \in Nat /\ i < Limbs
  BY LimbsFacts DEF Index
<1> DEFINE A == {m \in Nat : m < Limbs => Weight(i) * Weight(m) = Twice(i, m) * WideWeight(i + m)}
<1>1. 0 \in A
  <2>1. Twice(i, 0) = 1 /\ i + 0 = i
    BY <1>0 DEF Twice
  <2>2. WideWeight(i) = Weight(i)
    BY <1>0 DEF WideWeight
  <2>3. PICK w \in Nat : w = Weight(i)
    <3>1. i \in 0..Limbs
      BY <1>0
    <3> QED
      BY <3>1, WeightIs DEF Positive
  <2>4. Weight(i) * Weight(0) = w * 1
    BY <2>3, WeightIs
  <2>5. Twice(i, 0) * WideWeight(i + 0) = 1 * w
    BY <2>1, <2>2, <2>3
  <2> QED
    BY <2>4, <2>5
<1>2. ASSUME NEW m \in Nat, m \in A PROVE m + 1 \in A
  <2>1. SUFFICES ASSUME m + 1 < Limbs
                 PROVE  Weight(i) * Weight(m + 1) = Twice(i, m + 1) * WideWeight(i + (m + 1))
    OBVIOUS
  <2>2. Weight(i) * Weight(m) = Twice(i, m) * WideWeight(i + m)
    BY <1>0, <1>2, <2>1
  <2>3. m \in Index /\ m \in 0..Limbs /\ i \in 0..Limbs /\ i + m \in 0..2 * Limbs - 2
        /\ i + m \in 0..2 * Limbs - 1 /\ i + (m + 1) = (i + m) + 1 /\ i + m \in Nat
    BY <1>0, <2>1 DEF Index
  <2>4. PICK w, v \in Nat : w = Weight(i) /\ v = Weight(m)
    BY <2>3, WeightIs DEF Positive
  <2>5. PICK u \in Nat : u = WideWeight(i + m)
    BY <2>3, WideWeightIs
  <2>6. PICK r, s \in Nat : r = WideRadix(m) /\ s = WideRadix(i + m)
    BY <2>3, FieldRadixIs DEF Positive
  <2>7. PICK a, b \in Nat : a = Twice(i, m) /\ b = Twice(i, m + 1)
    BY DEF Twice
  <2>8. a * r = b * s
    BY <1>0, <2>6, <2>7, TwiceIs
  <2>9. Weight(m + 1) = v * r /\ WideWeight(i + (m + 1)) = u * s
    BY <2>3, <2>4, <2>5, <2>6, WeightIs, WideWeightIs
  <2>10. w * v = a * u
    BY <2>2, <2>4, <2>5, <2>7
  <2>11. w * (v * r) = (w * v) * r
    OBVIOUS
  <2>12. (a * u) * r = (a * r) * u
    OBVIOUS
  <2>13. (b * s) * u = b * (u * s)
    OBVIOUS
  <2>14. w * (v * r) = b * (u * s)
    BY <2>8, <2>10, <2>11, <2>12, <2>13
  <2> QED
    BY <2>4, <2>7, <2>9, <2>14
<1> HIDE DEF A
<1>3. \A m \in Nat : m \in A
  BY <1>1, <1>2, SetInduction
<1>4. j \in Nat /\ j < Limbs
  BY <1>0 DEF Index
<1> QED
  BY <1>3, <1>4 DEF A

(* A remainder of indices goes once around at most. *)
Around(n) == IF n < 0 THEN n + Limbs ELSE IF n >= Limbs THEN n - Limbs ELSE n

LEMMA AroundIs ==
    /\ \A k \in Index, i \in Index : (k - i) % Limbs = Around(k - i) /\ Around(k - i) \in Index
    /\ \A i \in Index, j \in Index : Around(i + j) \in Index
    /\ \A k \in Index, i \in Index, j \in Index : Around(k - i) = j <=> k = Around(i + j)
    /\ \A k \in Index, i \in Index : Around(k - Around(k - i)) = i
<1>0. Limbs \in Nat /\ Limbs > 0
  BY LimbsFacts
<1>1. ASSUME NEW k \in Index, NEW i \in Index
      PROVE  (k - i) % Limbs = Around(k - i) /\ Around(k - i) \in Index
  <2>1. k \in Int /\ i \in Int /\ Around(k - i) \in 0..Limbs - 1
    BY <1>0 DEF Index, Around
  <2>2. CASE k - i < 0
    <3>1. k - i = Limbs * (-1) + Around(k - i)
      BY <1>0, <2>1, <2>2 DEF Around
    <3> QED
      BY <1>0, <2>1, <3>1, RemainderUnique DEF Index
  <2>3. CASE k - i >= 0
    <3>1. k - i = Limbs * 0 + Around(k - i)
      BY <1>0, <2>1, <2>3 DEF Index, Around
    <3> QED
      BY <1>0, <2>1, <3>1, RemainderUnique DEF Index
  <2> QED
    BY <2>1, <2>2, <2>3
<1>2. \A i \in Index, j \in Index : Around(i + j) \in Index
  BY <1>0 DEF Index, Around
<1>3. \A k \in Index, i \in Index, j \in Index : Around(k - i) = j <=> k = Around(i + j)
  BY <1>0 DEF Index, Around
<1>4. \A k \in Index, i \in Index : Around(k - Around(k - i)) = i
  BY <1>0 DEF Index, Around
<1> QED
  BY <1>1, <1>2, <1>3, <1>4

Limbed == [Index -> Int]

LEMMA TermType ==
    ASSUME NEW f \in Limbed, NEW g \in Limbed, NEW i \in Index, NEW j \in Index
    PROVE  Term(f, g, i, j) \in Int
<1>1. PICK x, y \in Int : x = f[i] /\ y = g[j]
  BY DEF Limbed
<1>2. PICK z \in Int : z = x * y
  OBVIOUS
<1>3. PICK t \in Int : t = (IF i % 2 = 1 /\ j % 2 = 1 THEN 2 ELSE 1)
  OBVIOUS
<1>4. PICK e \in Int : e = (IF i + j >= Limbs THEN Excess ELSE 1)
  BY LimbsFacts
<1>5. z * t * e \in Int
  OBVIOUS
<1> QED
  BY <1>1, <1>2, <1>3, <1>4, <1>5 DEF Term

(* A product of limbs counts what the limbs count, modulo the prime. *)
LEMMA TermIs ==
    ASSUME NEW f \in Limbed, NEW g \in Limbed, NEW i \in Index, NEW j \in Index
    PROVE  Same(Term(f, g, i, j) * Weight(Around(i + j)), (f[i] * Weight(i)) * (g[j] * Weight(j)))
<1>0. Limbs \in Nat /\ Excess \in Nat /\ FieldPrime \in Nat /\ AllWeight \in Nat
      /\ AllWeight = FieldPrime + Excess /\ i \in 0..Limbs /\ j \in 0..Limbs /\ i \in Nat /\ j \in Nat
  BY LimbsFacts, PrimeIs DEF Index
<1>1. PICK x, y \in Int : x = f[i] /\ y = g[j]
  BY DEF Limbed
<1>2. PICK v, w \in Nat : v = Weight(i) /\ w = Weight(j)
  BY <1>0, WeightIs DEF Positive
<1>3. PICK t \in Nat : t = Twice(i, j)
  BY DEF Twice
<1>4. PICK u \in Nat : u = Weight(Around(i + j))
  <2>1. Around(i + j) \in 0..Limbs
    BY <1>0, AroundIs DEF Index
  <2> QED
    BY <2>1, WeightIs DEF Positive
<1>5. v * w = t * WideWeight(i + j)
  BY <1>2, <1>3, WeightProduct
<1>6. (x * v) * (y * w) = (x * y) * (v * w)
  OBVIOUS
<1>7. PICK z \in Int : z = x * y
  OBVIOUS
<1>8. PICK p \in Int : p = (z * t) * u
  OBVIOUS
<1>9. CASE i + j < Limbs
  <2>1. WideWeight(i + j) = u /\ Term(f, g, i, j) = z * t * 1
    <3>1. Around(i + j) = i + j /\ ~(i + j >= Limbs)
      BY <1>0, <1>9 DEF Around
    <3>2. WideWeight(i + j) = u
      BY <1>4, <1>9, <3>1 DEF WideWeight
    <3>3. Term(f, g, i, j) = z * t * 1
      BY <1>1, <1>3, <1>7, <3>1 DEF Term, Twice
    <3> QED
      BY <3>2, <3>3
  <2>2. z * t * 1 * u = p /\ z * (t * u) = p
    BY <1>8
  <2>3. Term(f, g, i, j) * u = (x * v) * (y * w)
    BY <1>5, <1>6, <1>7, <2>1, <2>2
  <2>4. (x * v) * (y * w) \in Int
    OBVIOUS
  <2> QED
    BY <1>1, <1>2, <1>4, <2>3, <2>4, SameItself
<1>10. CASE ~(i + j < Limbs)
  <2>1. Around(i + j) = (i + j) - Limbs /\ i + j >= Limbs
    BY <1>0, <1>10 DEF Around
  <2>2. WideWeight(i + j) = AllWeight * u
    BY <1>4, <1>10, <2>1 DEF WideWeight
  <2>3. Term(f, g, i, j) = z * t * Excess
    BY <1>1, <1>3, <1>7, <2>1 DEF Term, Twice
  <2>4. (z * t * Excess) * u = p * Excess
    BY <1>0, <1>8
  <2>5. z * (t * (AllWeight * u)) = p * AllWeight
    BY <1>0, <1>8
  <2>6. (x * v) * (y * w) = p * AllWeight
    BY <1>5, <1>6, <1>7, <2>2, <2>5
  <2>7. p * Excess = p * AllWeight + (-p) * FieldPrime
    BY <1>0
  <2>8. Term(f, g, i, j) * u = (x * v) * (y * w) + (-p) * FieldPrime /\ -p \in Int
    BY <2>3, <2>4, <2>6, <2>7
  <2> QED
    BY <1>1, <1>2, <1>4, <2>8 DEF Same
<1> QED
  BY <1>9, <1>10

-----------------------------------------------------------------------------
(* The sums of products of fe_mul. *)
FieldTo(f, n) == Worth(f, FieldRadix, n)

LEMMA FieldToIs ==
    ASSUME NEW f \in Limbed
    PROVE  /\ \A n \in 0..Limbs : FieldTo(f, n) \in Int
           /\ FieldTo(f, 0) = 0
           /\ \A n \in Index : FieldTo(f, n + 1) = FieldTo(f, n) + f[n] * Weight(n)
           /\ FieldTo(f, Limbs) = FieldValue(f)
<1>0. Limbs \in Nat
  BY LimbsFacts
<1>1. ASSUME NEW n \in 0..Limbs PROVE FieldTo(f, n) \in Int
  <2>1. n \in Nat /\ \A i \in 0..n - 1 : f[i] \in Int
    BY <1>0 DEF Limbed, Index
  <2> QED
    BY <2>1, FieldRadixIs, WorthType DEF FieldTo
<1>2. FieldTo(f, 0) = 0
  BY WorthZero DEF FieldTo
<1>3. ASSUME NEW n \in Index PROVE FieldTo(f, n + 1) = FieldTo(f, n) + f[n] * Weight(n)
  <2>1. n \in Nat /\ n + 1 \in 0..Limbs /\ \A i \in 0..n : f[i] \in Int
    BY <1>0 DEF Limbed, Index
  <2> QED
    BY <2>1, FieldRadixIs, WorthStep DEF FieldTo, Weight
<1> QED
  BY <1>1, <1>2, <1>3 DEF FieldTo, FieldValue

LEMMA FieldValueType == ASSUME NEW f \in Limbed PROVE FieldValue(f) \in Int
<1>1. Limbs \in 0..Limbs
  BY LimbsFacts
<1> QED
  BY <1>1, FieldToIs

LEMMA FieldChange ==
    ASSUME NEW f \in Limbed, NEW g \in Limbed, NEW k \in Index, \A i \in Index : i # k => g[i] = f[i]
    PROVE  FieldValue(g) = FieldValue(f) + (g[k] - f[k]) * Weight(k)
<1>1. Limbs \in Nat /\ Limbs \in 0..Limbs /\ k \in 0..Limbs - 1
  BY LimbsFacts DEF Index
<1>2. \A i \in 0..Limbs - 1 : f[i] \in Int /\ g[i] \in Int /\ (i # k => g[i] = f[i])
  BY DEF Limbed, Index
<1>3. IsRadix(FieldRadix, Limbs)
  BY <1>1, FieldRadixIs
<1>4. Worth(g, FieldRadix, Limbs) = Worth(f, FieldRadix, Limbs) + (g[k] - f[k]) * Place(FieldRadix, k)
  BY <1>1, <1>2, <1>3, WorthChange
<1> QED
  BY <1>4 DEF FieldValue, Weight

(* The products of limb i of f with the lowest m limbs of g. *)
Row(f, g, i, m) == [k \in Index |-> IF Around(k - i) < m THEN Term(f, g, i, Around(k - i)) ELSE 0]

LEMMA RowType ==
    ASSUME NEW f \in Limbed, NEW g \in Limbed, NEW i \in Index, NEW m \in 0..Limbs
    PROVE  Row(f, g, i, m) \in Limbed
<1>1. \A k \in Index : Around(k - i) \in Index
  BY AroundIs
<1>2. \A k \in Index : Term(f, g, i, Around(k - i)) \in Int
  BY <1>1, TermType
<1>3. \A k \in Index : (IF Around(k - i) < m THEN Term(f, g, i, Around(k - i)) ELSE 0) \in Int
  BY <1>2
<1> QED
  BY <1>3 DEF Row, Limbed

LEMMA RowIs ==
    ASSUME NEW f \in Limbed, NEW g \in Limbed, NEW i \in Index
    PROVE  Same(FieldValue(Row(f, g, i, Limbs)), (f[i] * Weight(i)) * FieldValue(g))
<1>0. Limbs \in Nat /\ Limbs > 0 /\ i \in 0..Limbs
  BY LimbsFacts DEF Index
<1>1. PICK a \in Int : a = f[i] * Weight(i)
  <2>1. f[i] \in Int /\ Weight(i) \in Int
    BY <1>0, WeightIs DEF Limbed, Positive
  <2> QED
    BY <2>1
<1> DEFINE A == {m \in Nat : m <= Limbs => Same(FieldValue(Row(f, g, i, m)), a * FieldTo(g, m))}
<1>2. 0 \in A
  <2>1. 0 \in 0..Limbs /\ 0 \in Int
    BY <1>0
  <2>2. Row(f, g, i, 0) \in Limbed
    BY <2>1, RowType
  <2>3. \A k \in Index : Row(f, g, i, 0)[k] = 0
    <3>2. \A k \in Index : Around(k - i) \in Index
      BY AroundIs
    <3>3. \A x \in Index : ~(x < 0)
      BY <1>0 DEF Index
    <3>1. \A k \in Index : ~(Around(k - i) < 0)
      BY <3>2, <3>3
    <3> QED
      BY <3>1 DEF Row
  <2> DEFINE z == Row(f, g, i, 0)
  <2> HIDE DEF z
  <2>4. FieldValue(z) = 0 * FieldValue(z)
    <3>1. \A k \in 0..Limbs - 1 : z[k] \in Int /\ z[k] = 0 * z[k]
      BY <2>2, <2>3 DEF z, Limbed, Index
    <3>2. Limbs \in 0..Limbs /\ 0 \in Int
      BY <1>0
    <3> QED
      BY <1>0, <3>1, <3>2, FieldRadixIs, WorthTimes DEF FieldValue
  <2>5. FieldValue(z) \in Int
    BY <2>2, FieldValueType DEF z
  <2>6. FieldValue(z) = 0
    BY <2>4, <2>5
  <2>7. a * FieldTo(g, 0) = 0
    BY FieldToIs
  <2> QED
    BY <2>1, <2>6, <2>7, SameItself DEF z
<1>3. ASSUME NEW m \in Nat, m \in A PROVE m + 1 \in A
  <2>1. SUFFICES ASSUME m + 1 <= Limbs
                 PROVE  Same(FieldValue(Row(f, g, i, m + 1)), a * FieldTo(g, m + 1))
    OBVIOUS
  <2>2. m \in Index /\ m \in 0..Limbs /\ m + 1 \in 0..Limbs
    BY <1>0, <2>1 DEF Index
  <2> DEFINE k == Around(i + m)
             s == Row(f, g, i, m)
             t == Row(f, g, i, m + 1)
  <2>3. k \in Index /\ Around(k - i) = m /\ \A j \in Index : Around(j - i) = m => j = k
    <3>1. k \in Index
      BY <2>2, AroundIs
    <3>2. \A j \in Index : Around(j - i) = m <=> j = k
      BY <2>2, AroundIs
    <3> QED
      BY <3>1, <3>2
  <2>4. s \in Limbed /\ t \in Limbed
    BY <2>2, RowType
  <2>5. s[k] = 0 /\ t[k] = Term(f, g, i, m)
    <3>1. ~(m < m) /\ m < m + 1
      OBVIOUS
    <3> HIDE DEF k
    <3> QED
      BY <2>3, <3>1 DEF Row
  <2>6. \A j \in Index : j # k => t[j] = s[j]
    <3>1. \A j \in Index : Around(j - i) \in Index
      BY AroundIs
    <3>3. \A x \in Index : x # m => (x < m + 1 <=> x < m)
      BY <1>0, <2>2 DEF Index
    <3>2. \A j \in Index : j # k => (Around(j - i) < m + 1 <=> Around(j - i) < m)
      BY <2>3, <3>1, <3>3
    <3> HIDE DEF k
    <3> QED
      BY <3>2 DEF Row
  <2> HIDE DEF s, t
  <2>7. FieldValue(t) = FieldValue(s) + (t[k] - s[k]) * Weight(k)
    <3> HIDE DEF k
    <3> QED
      BY <2>3, <2>4, <2>6, FieldChange
  <2>8. Same(Term(f, g, i, m) * Weight(k), a * (g[m] * Weight(m)))
    BY <1>1, <2>2, TermIs
  <2>9. PICK x, y \in Int : x = FieldValue(s) /\ y = FieldValue(t)
    BY <2>4, FieldValueType
  <2>10. PICK u \in Int : u = Term(f, g, i, m) * Weight(k)
    <3>1. Term(f, g, i, m) \in Int /\ k \in 0..Limbs
      BY <1>0, <2>2, <2>3, TermType DEF Index
    <3>2. Weight(k) \in Int
      BY <3>1, WeightIs DEF Positive
    <3> QED
      BY <3>1, <3>2
  <2>11. y = x + u
    <3>1. PICK c \in Int : c = Term(f, g, i, m)
      BY <2>2, TermType
    <3>2. (t[k] - s[k]) = c
      BY <2>5, <3>1
    <3> QED
      BY <2>7, <2>9, <2>10, <3>1, <3>2
  <2>12. PICK v, w \in Int : v = FieldTo(g, m) /\ w = g[m] * Weight(m)
    <3>1. g[m] \in Int /\ Weight(m) \in Int
      BY <2>2, WeightIs DEF Limbed, Positive
    <3> QED
      BY <2>2, <3>1, FieldToIs
  <2>13. FieldTo(g, m + 1) = v + w
    BY <2>2, <2>12, FieldToIs
  <2>14. Same(x, a * v)
    <3>1. Same(FieldValue(Row(f, g, i, m)), a * FieldTo(g, m))
      BY <1>0, <1>3, <2>1
    <3> QED
      BY <2>9, <2>12, <3>1 DEF s
  <2>15. Same(u, a * w)
    BY <2>8, <2>10, <2>12
  <2>16. PICK b, c \in Int : b = a * v /\ c = a * w
    OBVIOUS
  <2>17. Same(x + u, b + c)
    BY <2>14, <2>15, <2>16, SamePlus
  <2>18. a * (v + w) = b + c
    BY <2>16
  <2> QED
    BY <2>9, <2>11, <2>13, <2>17, <2>18 DEF t
<1> HIDE DEF A
<1>4. \A m \in Nat : m \in A
  BY <1>2, <1>3, SetInduction
<1>5. Limbs \in A
  BY <1>0, <1>4
<1> QED
  BY <1>0, <1>1, <1>5, FieldToIs DEF A

LEMMA FieldPlus ==
    ASSUME NEW f \in Limbed, NEW g \in Limbed, NEW h, \A i \in Index : h[i] = f[i] + g[i]
    PROVE  FieldValue(h) = FieldValue(f) + FieldValue(g)
<1>1. Limbs \in Nat /\ Limbs \in 0..Limbs
  BY LimbsFacts
<1>2. \A i \in 0..Limbs - 1 : f[i] \in Int /\ g[i] \in Int /\ h[i] = f[i] + g[i]
  BY DEF Limbed, Index
<1>3. IsRadix(FieldRadix, Limbs)
  BY <1>1, FieldRadixIs
<1>4. Worth(h, FieldRadix, Limbs) = Worth(f, FieldRadix, Limbs) + Worth(g, FieldRadix, Limbs)
  BY <1>1, <1>2, <1>3, WorthPlus
<1> QED
  BY <1>4 DEF FieldValue

LEMMA FieldTimes ==
    ASSUME NEW f \in Limbed, NEW x \in Int, NEW h, \A i \in Index : h[i] = x * f[i]
    PROVE  FieldValue(h) = x * FieldValue(f)
<1>1. Limbs \in Nat /\ Limbs \in 0..Limbs
  BY LimbsFacts
<1>2. \A i \in 0..Limbs - 1 : f[i] \in Int /\ h[i] = x * f[i]
  BY DEF Limbed, Index
<1>3. IsRadix(FieldRadix, Limbs)
  BY <1>1, FieldRadixIs
<1>4. Worth(h, FieldRadix, Limbs) = x * Worth(f, FieldRadix, Limbs)
  BY <1>1, <1>2, <1>3, WorthTimes
<1> QED
  BY <1>4 DEF FieldValue

FieldColumn(f, g, k) == [i \in Index |-> Term(f, g, i, (k - i) % Limbs)]
FieldPartial(f, g, n) == [k \in Index |-> SumTo(FieldColumn(f, g, k), n)]

LEMMA FieldColumnIs ==
    ASSUME NEW f \in Limbed, NEW g \in Limbed, NEW k \in Index
    PROVE  \A i \in Index : /\ FieldColumn(f, g, k)[i] = Term(f, g, i, Around(k - i))
                            /\ FieldColumn(f, g, k)[i] \in Int
<1>1. \A i \in Index : (k - i) % Limbs = Around(k - i) /\ Around(k - i) \in Index
  BY AroundIs
<1>2. \A i \in Index : Term(f, g, i, Around(k - i)) \in Int
  BY <1>1, TermType
<1> QED
  BY <1>1, <1>2 DEF FieldColumn

LEMMA FieldPartialIs ==
    ASSUME NEW f \in Limbed, NEW g \in Limbed, NEW n \in 0..Limbs
    PROVE  /\ FieldPartial(f, g, n) \in Limbed
           /\ n < Limbs => \A k \in Index : FieldPartial(f, g, n + 1)[k]
                               = FieldPartial(f, g, n)[k] + Row(f, g, n, Limbs)[k]
<1>0. Limbs \in Nat /\ n \in Nat
  BY LimbsFacts
<1>1. ASSUME NEW k \in Index PROVE SumTo(FieldColumn(f, g, k), n) \in Int
  <2>1. \A i \in 0..n - 1 : i \in Index
    BY <1>0 DEF Index
  <2>2. \A i \in 0..n - 1 : FieldColumn(f, g, k)[i] \in Int
    BY <2>1, FieldColumnIs
  <2> QED
    BY <1>0, <2>2, SumType
<1>2. ASSUME n < Limbs, NEW k \in Index
      PROVE  FieldPartial(f, g, n + 1)[k] = FieldPartial(f, g, n)[k] + Row(f, g, n, Limbs)[k]
  <2>1. n \in Index /\ \A i \in 0..n : i \in Index
    BY <1>0, <1>2 DEF Index
  <2>2. \A i \in 0..n : FieldColumn(f, g, k)[i] \in Int
    BY <2>1, FieldColumnIs
  <2>3. SumTo(FieldColumn(f, g, k), n + 1) = SumTo(FieldColumn(f, g, k), n) + FieldColumn(f, g, k)[n]
    BY <1>0, <2>2, SumStep
  <2>4. FieldColumn(f, g, k)[n] = Row(f, g, n, Limbs)[k]
    <3>1. FieldColumn(f, g, k)[n] = Term(f, g, n, Around(k - n))
      BY <2>1, FieldColumnIs
    <3>2. Around(k - n) \in Index
      BY <2>1, AroundIs
    <3>3. \A x \in Index : x < Limbs
      BY <1>0 DEF Index
    <3>4. Around(k - n) < Limbs
      BY <3>2, <3>3
    <3> QED
      BY <3>1, <3>4 DEF Row
  <2> QED
    BY <2>3, <2>4 DEF FieldPartial
<1> QED
  BY <1>1, <1>2 DEF FieldPartial, Limbed

LEMMA PartialValue ==
    ASSUME NEW f \in Limbed, NEW g \in Limbed
    PROVE  Same(FieldValue(FieldPartial(f, g, Limbs)), FieldValue(f) * FieldValue(g))
<1>0. Limbs \in Nat /\ 0 \in 0..Limbs
  BY LimbsFacts
<1>1. PICK y \in Int : y = FieldValue(g)
  BY FieldValueType
<1> DEFINE A == {n \in Nat : n <= Limbs => Same(FieldValue(FieldPartial(f, g, n)), FieldTo(f, n) * y)}
<1>2. 0 \in A
  <2> DEFINE z == FieldPartial(f, g, 0)
  <2>1. z \in Limbed
    BY <1>0, FieldPartialIs
  <2>2. \A k \in Index : z[k] = 0 * z[k]
    <3>1. \A k \in Index : z[k] = 0
      BY SumZero DEF FieldPartial
    <3> HIDE DEF z
    <3> QED
      BY <3>1
  <2>3. FieldValue(z) \in Int /\ FieldValue(z) = 0 * FieldValue(z)
    <3>1. 0 \in Int
      OBVIOUS
    <3> HIDE DEF z
    <3> QED
      BY <2>1, <2>2, <3>1, FieldTimes, FieldValueType
  <2>4. FieldValue(z) = 0
    <3> HIDE DEF z
    <3> QED
      BY <2>3
  <2>5. FieldTo(f, 0) * y = 0 /\ 0 \in Int
    BY FieldToIs
  <2> QED
    BY <2>4, <2>5, SameItself
<1>3. ASSUME NEW n \in Nat, n \in A PROVE n + 1 \in A
  <2>1. SUFFICES ASSUME n + 1 <= Limbs
                 PROVE  Same(FieldValue(FieldPartial(f, g, n + 1)), FieldTo(f, n + 1) * y)
    OBVIOUS
  <2>2. n \in Index /\ n \in 0..Limbs /\ n + 1 \in 0..Limbs /\ n < Limbs /\ Limbs \in 0..Limbs
    BY <1>0, <2>1 DEF Index
  <2> DEFINE s == FieldPartial(f, g, n)
             r == Row(f, g, n, Limbs)
             t == FieldPartial(f, g, n + 1)
  <2>3. s \in Limbed /\ t \in Limbed /\ r \in Limbed
    BY <2>2, FieldPartialIs, RowType
  <2>4. \A k \in Index : t[k] = s[k] + r[k]
    BY <2>2, FieldPartialIs
  <2>5. Same(FieldValue(s), FieldTo(f, n) * y)
    BY <1>0, <1>3, <2>2
  <2>6. Same(FieldValue(r), (f[n] * Weight(n)) * y)
    BY <1>1, <2>2, RowIs
  <2> HIDE DEF s, r, t
  <2>7. FieldValue(t) = FieldValue(s) + FieldValue(r)
    BY <2>3, <2>4, FieldPlus
  <2>8. PICK u, v \in Int : u = FieldValue(s) /\ v = FieldValue(r)
    BY <2>3, FieldValueType
  <2>9. PICK a, b \in Int : a = FieldTo(f, n) /\ b = f[n] * Weight(n)
    <3>1. f[n] \in Int /\ Weight(n) \in Int
      BY <2>2, WeightIs DEF Limbed, Positive
    <3> QED
      BY <2>2, <3>1, FieldToIs
  <2>10. FieldTo(f, n + 1) = a + b
    BY <2>2, <2>9, FieldToIs
  <2>11. PICK c, d \in Int : c = a * y /\ d = b * y
    OBVIOUS
  <2>12. Same(u, c)
    BY <2>5, <2>8, <2>9, <2>11
  <2>13. Same(v, d)
    BY <2>6, <2>8, <2>9, <2>11
  <2>14. Same(u + v, c + d)
    BY <2>12, <2>13, SamePlus
  <2>15. (a + b) * y = c + d
    BY <2>11
  <2> QED
    BY <2>7, <2>8, <2>10, <2>14, <2>15 DEF t
<1> HIDE DEF A
<1>4. \A n \in Nat : n \in A
  BY <1>2, <1>3, SetInduction
<1>5. Limbs \in A
  BY <1>0, <1>4
<1> QED
  BY <1>0, <1>1, <1>5, FieldToIs DEF A

LEMMA FieldProductIs ==
    ASSUME NEW f \in Limbed, NEW g \in Limbed
    PROVE  /\ Product(f, g) \in Limbed
           /\ Same(FieldValue(Product(f, g)), FieldValue(f) * FieldValue(g))
<1>1. Product(f, g) = FieldPartial(f, g, Limbs)
  BY DEF Product, FieldPartial, FieldColumn
<1>2. Limbs \in 0..Limbs
  BY LimbsFacts
<1> QED
  BY <1>1, <1>2, FieldPartialIs, PartialValue

-----------------------------------------------------------------------------
(* fe_sq: every pair of limbs once, with a factor. *)
SquareTerm(f, k, i) ==
    LET j == (k - i) % Limbs IN (IF i = j THEN 1 ELSE IF i < j THEN 2 ELSE 0) * Term(f, f, i, j)

(* The pairs whose lower limb is below m are counted as fe_sq does. *)
Paired(f, k, m) ==
    [i \in Index |-> IF i < m \/ Around(k - i) < m THEN SquareTerm(f, k, i)
                     ELSE Term(f, f, i, Around(k - i))]

LEMMA TermSwaps ==
    ASSUME NEW f \in Limbed, NEW i \in Index, NEW j \in Index
    PROVE  Term(f, f, i, j) = Term(f, f, j, i)
<1>0. Limbs \in Nat /\ i \in Nat /\ j \in Nat
  BY LimbsFacts DEF Index
<1>1. PICK x, y \in Int : x = f[i] /\ y = f[j]
  BY DEF Limbed
<1>2. i + j = j + i /\ x * y = y * x
  BY <1>0
<1> QED
  BY <1>1, <1>2 DEF Term

LEMMA SquareTermIs ==
    ASSUME NEW f \in Limbed, NEW k \in Index, NEW i \in Index
    PROVE  LET j == Around(k - i)
               t == Term(f, f, i, j)
           IN  /\ j \in Index /\ Around(k - j) = i /\ t \in Int
               /\ t = Term(f, f, j, Around(k - j))
               /\ SquareTerm(f, k, i) = IF i = j THEN t ELSE IF i < j THEN 2 * t ELSE 0
<1> DEFINE j == Around(k - i)
<1>1. j \in Index /\ Around(k - j) = i /\ (k - i) % Limbs = j
  BY AroundIs
<1> HIDE DEF j
<1>2. PICK t \in Int : t = Term(f, f, i, j)
  BY <1>1, TermType
<1>3. t = Term(f, f, j, Around(k - j))
  BY <1>1, <1>2, TermSwaps
<1>4. SquareTerm(f, k, i) = (IF i = j THEN 1 ELSE IF i < j THEN 2 ELSE 0) * t
  BY <1>1, <1>2 DEF SquareTerm
<1>5. SquareTerm(f, k, i) = IF i = j THEN t ELSE IF i < j THEN 2 * t ELSE 0
  BY <1>4
<1> QED
  BY <1>1, <1>2, <1>3, <1>5 DEF j

LEMMA PairedType ==
    ASSUME NEW f \in Limbed, NEW k \in Index, NEW m \in Nat
    PROVE  \A i \in Index : Paired(f, k, m)[i] \in Int
<1> SUFFICES ASSUME NEW i \in Index PROVE Paired(f, k, m)[i] \in Int
  OBVIOUS
<1>1. PICK j, t : /\ j = Around(k - i) /\ t = Term(f, f, i, j) /\ t \in Int
                  /\ SquareTerm(f, k, i) = IF i = j THEN t ELSE IF i < j THEN 2 * t ELSE 0
  BY SquareTermIs
<1>2. SquareTerm(f, k, i) \in Int
  BY <1>1
<1> QED
  BY <1>1, <1>2 DEF Paired

LEMMA PairedStep ==
    ASSUME NEW f \in Limbed, NEW k \in Index, NEW m \in Index
    PROVE  SumTo(Paired(f, k, m + 1), Limbs) = SumTo(Paired(f, k, m), Limbs)
<1>0. Limbs \in Nat /\ m \in Nat /\ m + 1 \in Nat /\ Index = 0..Limbs - 1
  BY LimbsFacts DEF Index
<1> DEFINE p == Paired(f, k, m)
           q == Paired(f, k, m + 1)
<1>1. PICK j, t : /\ j = Around(k - m) /\ j \in Index /\ Around(k - j) = m
                  /\ t = Term(f, f, m, j) /\ t \in Int
                  /\ t = Term(f, f, j, m)
                  /\ SquareTerm(f, k, m) = IF m = j THEN t ELSE IF m < j THEN 2 * t ELSE 0
  BY SquareTermIs
<1>2. \A i \in Index : (Around(k - i) = m <=> i = j) /\ (Around(k - i) = j <=> i = m)
  <2>1. \A i \in Index : Around(k - Around(k - i)) = i
    BY AroundIs
  <2>2. ASSUME NEW i \in Index PROVE (Around(k - i) = m <=> i = j) /\ (Around(k - i) = j <=> i = m)
    <3>1. Around(k - i) = m => i = j
      BY <1>1, <2>1
    <3>2. Around(k - i) = j => i = m
      BY <1>1, <2>1
    <3> QED
      BY <1>1, <3>1, <3>2
  <2> QED
    BY <2>2
<1>3. \A i \in Index : Around(k - i) \in Index
  BY AroundIs
<1>4. \A i \in Index : p[i] \in Int /\ q[i] \in Int
  BY <1>0, PairedType
<1>5. \A i \in Index : i # m /\ i # j => q[i] = p[i]
  <2>1. ASSUME NEW i \in Index, i # m, i # j
        PROVE  (i < m + 1 \/ Around(k - i) < m + 1) <=> (i < m \/ Around(k - i) < m)
    <3>1. PICK x \in Index : x = Around(k - i)
      BY <1>3
    <3>2. x # m
      BY <1>2, <2>1, <3>1
    <3>3. (i < m + 1 \/ x < m + 1) <=> (i < m \/ x < m)
      BY <1>0, <2>1, <3>2
    <3> QED
      BY <3>1, <3>3
  <2> QED
    BY <2>1 DEF Paired
<1>6. CASE j < m
  <2>1. p[m] = q[m] /\ p[j] = q[j]
    <3>1. /\ m < m + 1 /\ j < m + 1 /\ (m < m \/ j < m) /\ (j < m \/ m < m)
      BY <1>0, <1>1, <1>6
    <3> QED
      BY <1>1, <3>1 DEF Paired
  <2>2. \A i \in 0..Limbs - 1 : q[i] = p[i] /\ q[i] \in Int
    BY <1>0, <1>4, <1>5, <2>1
  <2> HIDE DEF p, q
  <2>3. SumTo(q, Limbs) = SumTo(p, Limbs)
    BY <1>0, <2>2, SumSame
  <2> QED
    BY <2>3 DEF p, q
<1>7. CASE j = m
  <2>1. p[m] = t /\ q[m] = t
    <3>1. ~(m < m) /\ m < m + 1
      BY <1>0
    <3> QED
      BY <1>1, <1>7, <3>1 DEF Paired
  <2>2. \A i \in 0..Limbs - 1 : q[i] = p[i] /\ q[i] \in Int
    BY <1>0, <1>4, <1>5, <1>7, <2>1
  <2> HIDE DEF p, q
  <2>3. SumTo(q, Limbs) = SumTo(p, Limbs)
    BY <1>0, <2>2, SumSame
  <2> QED
    BY <2>3 DEF p, q
<1>8. CASE m < j
  <2>1. p[m] = t /\ p[j] = t /\ q[m] = 2 * t /\ q[j] = 0
    <3>1. ~(m < m) /\ ~(j < m) /\ m < m + 1 /\ m # j /\ j # m /\ ~(j < m) /\ ~(j = m)
      BY <1>0, <1>1, <1>8
    <3>2. SquareTerm(f, k, m) = 2 * t
      BY <1>1, <1>8, <3>1
    <3>3. SquareTerm(f, k, j) = 0
      <4>1. SquareTerm(f, k, j)
                = LET x == Around(k - j)
                      y == Term(f, f, j, x)
                  IN IF j = x THEN y ELSE IF j < x THEN 2 * y ELSE 0
        BY <1>1, SquareTermIs
      <4> QED
        BY <1>1, <3>1, <4>1
    <3>4. p[m] = t
      BY <1>1, <3>1 DEF Paired
    <3>5. p[j] = t
      BY <1>1, <3>1 DEF Paired
    <3>6. q[m] = 2 * t
      BY <3>1, <3>2 DEF Paired
    <3>7. q[j] = 0
      BY <1>1, <3>1, <3>3 DEF Paired
    <3> QED
      BY <3>4, <3>5, <3>6, <3>7
  <2> DEFINE u == [i \in Index |-> IF i = m THEN 2 * t ELSE p[i]]
  <2> HIDE DEF p, q
  <2>2. /\ u[m] = 2 * t /\ \A i \in Index : u[i] \in Int /\ (i # m => u[i] = p[i])
    BY <1>1, <1>4
  <2>3. u[j] = t /\ \A i \in Index : i # j => q[i] = u[i]
    BY <1>1, <1>5, <1>8, <2>1, <2>2
  <2> HIDE DEF u
  <2>4. SumTo(u, Limbs) = SumTo(p, Limbs) + (u[m] - p[m])
    <3>1. m \in 0..Limbs - 1
          /\ \A i \in 0..Limbs - 1 : p[i] \in Int /\ u[i] \in Int /\ (i # m => u[i] = p[i])
      BY <1>0, <1>4, <2>2
    <3> QED
      BY <1>0, <3>1, SumChange
  <2>5. SumTo(q, Limbs) = SumTo(u, Limbs) + (q[j] - u[j])
    <3>1. j \in 0..Limbs - 1
          /\ \A i \in 0..Limbs - 1 : u[i] \in Int /\ q[i] \in Int /\ (i # j => q[i] = u[i])
      BY <1>0, <1>1, <1>4, <2>2, <2>3
    <3> QED
      BY <1>0, <3>1, SumChange
  <2>6. SumTo(p, Limbs) \in Int
    <3>1. \A i \in 0..Limbs - 1 : p[i] \in Int
      BY <1>0, <1>4
    <3> QED
      BY <1>0, <3>1, SumType
  <2>7. SumTo(q, Limbs) = SumTo(p, Limbs)
    <3>1. u[m] - p[m] = t /\ q[j] - u[j] = -t
      BY <1>1, <2>1, <2>2, <2>3
    <3>2. PICK x \in Int : x = SumTo(p, Limbs)
      BY <2>6
    <3>3. SumTo(u, Limbs) = x + t
      BY <2>4, <3>1, <3>2
    <3>4. SumTo(q, Limbs) = (x + t) + (-t)
      BY <2>5, <3>1, <3>3
    <3> QED
      BY <1>1, <3>2, <3>4
  <2> QED
    BY <2>7 DEF p, q
<1>9. j < m \/ j = m \/ m < j
  BY <1>0, <1>1
<1> QED
  BY <1>6, <1>7, <1>8, <1>9

LEMMA SquareIs ==
    ASSUME NEW f \in Limbed, NEW k \in Index
    PROVE  Square(f)[k] = Product(f, f)[k]
<1>0. Limbs \in Nat /\ Index = 0..Limbs - 1
  BY LimbsFacts DEF Index
<1> DEFINE A == {m \in Nat : m <= Limbs =>
                     SumTo(Paired(f, k, m), Limbs) = SumTo(Paired(f, k, 0), Limbs)}
<1>1. 0 \in A
  OBVIOUS
<1>2. ASSUME NEW m \in Nat, m \in A PROVE m + 1 \in A
  <2>1. SUFFICES ASSUME m + 1 <= Limbs
                 PROVE  SumTo(Paired(f, k, m + 1), Limbs) = SumTo(Paired(f, k, 0), Limbs)
    OBVIOUS
  <2>2. m \in Index /\ m <= Limbs
    BY <1>0, <2>1
  <2>3. SumTo(Paired(f, k, m + 1), Limbs) = SumTo(Paired(f, k, m), Limbs)
    BY <2>2, PairedStep
  <2> QED
    BY <1>2, <2>2, <2>3
<1> HIDE DEF A
<1>3. \A m \in Nat : m \in A
  BY <1>1, <1>2, SetInduction
<1>4. SumTo(Paired(f, k, Limbs), Limbs) = SumTo(Paired(f, k, 0), Limbs)
  <2>1. Limbs \in A
    BY <1>0, <1>3
  <2> QED
    BY <1>0, <2>1 DEF A
<1>5. SumTo(Paired(f, k, 0), Limbs) = Product(f, f)[k]
  <2> DEFINE c == [i \in Index |-> Term(f, f, i, (k - i) % Limbs)]
             p == Paired(f, k, 0)
  <2>1. \A i \in Index : p[i] = c[i] /\ p[i] \in Int
    <3>1. ASSUME NEW i \in Index PROVE p[i] = c[i]
      <4>1. (k - i) % Limbs = Around(k - i) /\ Around(k - i) \in Index
        BY AroundIs
      <4>2. \A x \in Index : ~(x < 0)
        BY <1>0
      <4>3. ~(i < 0 \/ Around(k - i) < 0)
        BY <4>1, <4>2
      <4> QED
        BY <4>1, <4>3 DEF Paired
    <3>2. 0 \in Nat
      OBVIOUS
    <3> HIDE DEF c
    <3> QED
      BY <3>1, <3>2, PairedType
  <2> HIDE DEF c, p
  <2>2. \A i \in 0..Limbs - 1 : p[i] = c[i] /\ p[i] \in Int
    BY <1>0, <2>1
  <2>3. SumTo(p, Limbs) = SumTo(c, Limbs)
    BY <1>0, <2>2, SumSame
  <2> QED
    BY <2>3 DEF c, p, Product
<1>6. SumTo(Paired(f, k, Limbs), Limbs) = Square(f)[k]
  <2> DEFINE c == [i \in Index |->
                      LET j == (k - i) % Limbs
                      IN (IF i = j THEN 1 ELSE IF i < j THEN 2 ELSE 0) * Term(f, f, i, j)]
             p == Paired(f, k, Limbs)
  <2>1. \A i \in Index : p[i] = c[i] /\ p[i] \in Int
    <3>1. ASSUME NEW i \in Index PROVE p[i] = c[i]
      <4>1. i < Limbs
        BY <1>0
      <4>2. p[i] = SquareTerm(f, k, i)
        BY <4>1 DEF Paired
      <4> QED
        BY <4>2 DEF SquareTerm
    <3> HIDE DEF c
    <3> QED
      BY <1>0, <3>1, PairedType
  <2> HIDE DEF c, p
  <2>2. \A i \in 0..Limbs - 1 : p[i] = c[i] /\ p[i] \in Int
    BY <1>0, <2>1
  <2>3. SumTo(p, Limbs) = SumTo(c, Limbs)
    BY <1>0, <2>2, SumSame
  <2> QED
    BY <2>3 DEF c, p, Square
<1> QED
  BY <1>4, <1>5, <1>6

LEMMA FieldSquareIs ==
    ASSUME NEW f \in Limbed
    PROVE  Square(f) = Product(f, f)
<1>1. DOMAIN Square(f) = Index /\ Square(f) = [k \in Index |-> Square(f)[k]]
  BY DEF Square
<1>2. DOMAIN Product(f, f) = Index /\ Product(f, f) = [k \in Index |-> Product(f, f)[k]]
  BY DEF Product
<1>3. \A k \in Index : Square(f)[k] = Product(f, f)[k]
  BY SquareIs
<1> HIDE DEF Square, Product
<1> QED
  BY <1>1, <1>2, <1>3

-----------------------------------------------------------------------------
(* Carries: one limb gives, the next one takes. *)
Moved(h, t, i, a, j, b) ==
    /\ t \in Limbed /\ t[i] = h[i] - a /\ t[j] = h[j] + b
    /\ \A k \in Index : k # i /\ k # j => t[k] = h[k]
    /\ FieldValue(t) = FieldValue(h) + (b * Weight(j) - a * Weight(i))

LEMMA MovedIs ==
    ASSUME NEW h \in Limbed, NEW i \in Index, NEW j \in Index, i # j, NEW a \in Int, NEW b \in Int
    PROVE  Moved(h, [h EXCEPT ![i] = @ - a, ![j] = @ + b], i, a, j, b)
<1> DEFINE u == [h EXCEPT ![i] = @ - a]
           t == [h EXCEPT ![i] = @ - a, ![j] = @ + b]
<1>1. u \in Limbed /\ u[i] = h[i] - a /\ (\A k \in Index : k # i => u[k] = h[k])
      /\ \A k \in Index : h[k] \in Int
  BY DEF Limbed
<1>2. t = [u EXCEPT ![j] = @ + b]
  <2>1. u[j] = h[j]
    BY <1>1
  <2> QED
    BY <2>1
<1> HIDE DEF u, t
<1>3. t \in Limbed /\ t[j] = u[j] + b /\ (\A k \in Index : k # j => t[k] = u[k])
      /\ \A k \in Index : u[k] \in Int
  BY <1>1, <1>2 DEF Limbed
<1>4. FieldValue(u) = FieldValue(h) + (u[i] - h[i]) * Weight(i)
  BY <1>1, FieldChange
<1>5. FieldValue(t) = FieldValue(u) + (t[j] - u[j]) * Weight(j)
  BY <1>1, <1>3, FieldChange
<1>6. u[i] - h[i] = -a /\ t[j] - u[j] = b
  BY <1>1, <1>3
<1>7. PICK x, y, w, v \in Int : x = Weight(i) /\ y = Weight(j) /\ w = FieldValue(h) /\ v = FieldValue(u)
  <2>1. i \in 0..Limbs /\ j \in 0..Limbs
    BY LimbsFacts DEF Index
  <2> QED
    BY <1>1, <2>1, WeightIs, FieldValueType DEF Positive
<1>8. PICK p, q \in Int : p = a * x /\ q = b * y
  OBVIOUS
<1>9. (-a) * x = -p
  BY <1>8
<1>10. FieldValue(t) = w + (q - p)
  <2>1. v = w + (-a) * x
    BY <1>4, <1>6, <1>7
  <2>2. FieldValue(t) = v + b * y
    BY <1>5, <1>6, <1>7
  <2> QED
    BY <1>8, <1>9, <2>1, <2>2
<1>11. t[i] = h[i] - a /\ t[j] = h[j] + b /\ \A k \in Index : k # i /\ k # j => t[k] = h[k]
  BY <1>1, <1>3
<1> QED
  BY <1>3, <1>7, <1>8, <1>10, <1>11 DEF Moved, t

After(i) == IF i = Limbs - 1 THEN 0 ELSE i + 1
Gain(i, c) == IF i = Limbs - 1 THEN c * Excess ELSE c

(* c is carried from limb i of h, which leaves t. *)
FieldCarried(h, t, i, c) ==
    /\ t \in Limbed
    /\ t[i] = h[i] - c * WideRadix(i)
    /\ -WideRadix(i) <= 2 * t[i] /\ 2 * t[i] <= WideRadix(i)
    /\ t[After(i)] = h[After(i)] + Gain(i, c)
    /\ \A k \in Index : k # i /\ k # After(i) => t[k] = h[k]
    /\ Same(FieldValue(t), FieldValue(h))

LEMMA AfterIs == \A i \in Index : After(i) \in Index /\ After(i) # i
BY LimbsFacts DEF Index, After

LEMMA CarryIs ==
    ASSUME NEW h \in Limbed, NEW i \in Index
    PROVE  \E c \in Int : FieldCarried(h, Carry(h, i), i, c)
<1>0. /\ Limbs \in Nat /\ i \in Nat /\ i \in 0..Limbs /\ Excess \in Nat
      /\ FieldPrime \in Nat /\ AllWeight = FieldPrime + Excess
  BY LimbsFacts, PrimeIs DEF Index
<1>1. PICK r \in Nat : r = WideRadix(i) /\ r = FieldRadix[i] /\ r > 0 /\ r % 2 = 0
  BY <1>0, FieldRadixIs DEF Positive
<1>2. PICK l \in Int : l = h[i]
  BY DEF Limbed
<1>3. PICK e \in Nat : e = r \div 2 /\ 2 * e = r
  BY <1>1
<1>4. PICK c \in Int, d \in 0..r - 1 : c = (l + e) \div r /\ l + e = r * c + d
  <2>1. l + e \in Int
    OBVIOUS
  <2> QED
    BY <1>1, <2>1, RemainderIs
<1>5. PICK a \in Int : a = c * r
  OBVIOUS
<1>6. -r <= 2 * (l - a) /\ 2 * (l - a) <= r
  <2>1. r * c = a
    BY <1>5
  <2>2. l + e = a + d
    BY <1>4, <2>1
  <2>4. d \in Int /\ 0 <= d /\ d <= r - 1
    BY <1>1
  <2>3. l - a = d - e
    BY <2>2, <2>4
  <2> QED
    BY <1>1, <1>3, <2>3, <2>4
<1>7. Carry(h, i) = [h EXCEPT ![i] = @ - a, ![After(i)] = @ + Gain(i, c)]
  <2>1. CASE i = Limbs - 1
    BY <1>1, <1>2, <1>3, <1>4, <1>5, <2>1 DEF Carry, After, Gain
  <2>2. CASE i # Limbs - 1
    BY <1>1, <1>2, <1>3, <1>4, <1>5, <2>2 DEF Carry, After, Gain
  <2> QED
    BY <2>1, <2>2
<1>8. PICK b \in Int : b = Gain(i, c)
  <2>1. c * Excess \in Int
    BY <1>0
  <2> QED
    BY <2>1 DEF Gain
<1> DEFINE t == Carry(h, i)
<1>9. Moved(h, t, i, a, After(i), b)
  <2>1. After(i) \in Index /\ i # After(i)
    BY AfterIs
  <2>2. Moved(h, [h EXCEPT ![i] = @ - a, ![After(i)] = @ + b], i, a, After(i), b)
    BY <2>1, MovedIs
  <2> QED
    BY <1>7, <1>8, <2>2
<1> HIDE DEF t
<1>10. /\ t \in Limbed /\ t[i] = h[i] - a /\ t[After(i)] = h[After(i)] + b
       /\ \A k \in Index : k # i /\ k # After(i) => t[k] = h[k]
       /\ FieldValue(t) = FieldValue(h) + (b * Weight(After(i)) - a * Weight(i))
  BY <1>9 DEF Moved
<1>11. PICK w \in Int : w = Weight(i)
  BY <1>0, WeightIs DEF Positive
<1>12. Weight(i + 1) = w * r
  BY <1>1, <1>11, WeightIs
<1>13. PICK v, u \in Int : v = FieldValue(h) /\ u = FieldValue(t)
  BY <1>10, FieldValueType
<1>14. PICK x \in Int : x = c * (w * r)
  OBVIOUS
<1>15. a * w = x
  <2>1. (c * r) * w = c * (w * r)
    OBVIOUS
  <2> QED
    BY <1>5, <1>14, <2>1
<1>16. Same(u, v)
  <2>1. CASE i = Limbs - 1
    <3>1. b = c * Excess /\ After(i) = 0 /\ Weight(After(i)) = 1 /\ w * r = AllWeight
      <4>1. i + 1 = Limbs
        BY <1>0, <2>1
      <4>2. w * r = AllWeight
        BY <1>12, <4>1 DEF AllWeight
      <4> QED
        BY <1>8, <2>1, <4>2, WeightIs DEF After, Gain
    <3>2. PICK y \in Int : y = c * Excess
      BY <1>0
    <3>3. u = v + (y * 1 - x)
      BY <1>10, <1>11, <1>13, <1>15, <3>1, <3>2
    <3>4. c * AllWeight = c * FieldPrime + c * Excess
      BY <1>0
    <3>5. PICK z \in Int : z = c * FieldPrime
      BY <1>0
    <3>6. u = v - z
      BY <1>14, <3>1, <3>2, <3>3, <3>4, <3>5
    <3>7. (-c) * FieldPrime = -z
      BY <1>0, <3>5
    <3>8. u = v + (-c) * FieldPrime /\ -c \in Int
      BY <3>6, <3>7
    <3> QED
      BY <3>8 DEF Same
  <2>2. CASE i # Limbs - 1
    <3>1. b = c /\ After(i) = i + 1
      BY <1>8, <2>2 DEF After, Gain
    <3>2. u = v + (x - x)
      BY <1>10, <1>11, <1>12, <1>13, <1>14, <1>15, <3>1
    <3> QED
      BY <3>2, SameItself
  <2> QED
    BY <2>1, <2>2
<1>17. t[i] = h[i] - c * WideRadix(i)
  BY <1>1, <1>5, <1>10
<1>18. -WideRadix(i) <= 2 * t[i] /\ 2 * t[i] <= WideRadix(i)
  BY <1>1, <1>2, <1>6, <1>10
<1>19. t[After(i)] = h[After(i)] + Gain(i, c)
  BY <1>8, <1>10
<1>20. Same(FieldValue(t), FieldValue(h))
  BY <1>13, <1>16
<1>21. FieldCarried(h, t, i, c)
  BY <1>10, <1>17, <1>18, <1>19, <1>20 DEF FieldCarried
<1> QED
  BY <1>21 DEF t

(* What was within x times its width gives x at most. *)
LEMMA CarryBound ==
    ASSUME NEW h \in Limbed, NEW t, NEW i \in Index, NEW c \in Int, FieldCarried(h, t, i, c),
           NEW x \in Nat, -(x * WideRadix(i)) <= h[i], h[i] <= x * WideRadix(i)
    PROVE  -x <= c /\ c <= x
<1>1. PICK r \in Nat : r = WideRadix(i) /\ r > 0
  <2>1. i \in Nat
    BY LimbsFacts DEF Index
  <2> QED
    BY <2>1, FieldRadixIs DEF Positive
<1>2. PICK l, d \in Int : l = h[i] /\ d = t[i]
  BY DEF Limbed, FieldCarried
<1>3. d = l - c * r /\ -r <= 2 * d /\ 2 * d <= r
  BY <1>1, <1>2 DEF FieldCarried
<1>4. PICK p, q \in Int : p = c * r /\ q = x * r
  OBVIOUS
<1>5. -q <= l /\ l <= q /\ 2 * (p - q) <= r /\ 2 * (-q - p) <= r
  BY <1>1, <1>2, <1>3, <1>4
<1>6. (c - x) * r = p - q /\ (-x - c) * r = -q - p
  BY <1>4
<1>7. ASSUME NEW y \in Int, 2 * (y * r) <= r PROVE y <= 0
  <2>1. SUFFICES ASSUME y >= 1 PROVE FALSE
    OBVIOUS
  <2>2. y * r >= r
    BY <1>1, <2>1
  <2> QED
    BY <1>1, <1>7, <2>2
<1>8. c - x <= 0 /\ -x - c <= 0
  BY <1>5, <1>6, <1>7
<1> QED
  BY <1>8

(* A sequence of carries. *)
OrderBody(h, order, n, D) == [m \in 0..n |-> IF m = 0 THEN h ELSE Carry(D[m - 1], order[m])]
Orders(h, order, n) == CHOOSE D : D = OrderBody(h, order, n, D)

InOrder(D, h, order, n) ==
    /\ D \in [0..n -> Limbed] /\ D[0] = h
    /\ \A m \in 1..n : D[m] = Carry(D[m - 1], order[m])

LEMMA OrdersIs ==
    ASSUME NEW n \in Nat, NEW h \in Limbed, NEW order \in [1..n -> Index]
    PROVE  InOrder(Orders(h, order, n), h, order, n)
<1> DEFINE step == [p \in Limbed \X (1..n) |-> Carry(p[1], order[p[2]])]
           G == Orders(h, order, n)
<1>1. ASSUME NEW f \in Limbed, NEW i \in Index PROVE Carry(f, i) \in Limbed
  <2>1. PICK c \in Int : FieldCarried(f, Carry(f, i), i, c)
    BY CarryIs
  <2> QED
    BY <2>1 DEF FieldCarried
<1>2. step \in [Limbed \X (1..n) -> Limbed]
  <2>1. ASSUME NEW p \in Limbed \X (1..n) PROVE Carry(p[1], order[p[2]]) \in Limbed
    <3>1. p[1] \in Limbed /\ order[p[2]] \in Index
      OBVIOUS
    <3> QED
      BY <1>1, <3>1
  <2> QED
    BY <2>1
<1>3. \A f \in Limbed, m \in 1..n : step[<<f, m>>] = Carry(f, order[m])
  OBVIOUS
<1> HIDE DEF step
<1>4. PICK g : Follows(g, Limbed, n, h, step)
  BY <1>2, Recursion
<1>5. g \in [0..n -> Limbed] /\ g[0] = h /\ \A m \in 1..n : g[m] = step[<<g[m - 1], m>>]
  BY <1>4 DEF Follows
<1>6. \A m \in 1..n : g[m - 1] \in Limbed /\ g[m] = Carry(g[m - 1], order[m])
  <2>1. ASSUME NEW m \in 1..n PROVE g[m - 1] \in Limbed /\ g[m] = Carry(g[m - 1], order[m])
    <3>1. g[m - 1] \in Limbed
      BY <1>5
    <3> QED
      BY <1>3, <1>5, <3>1
  <2> QED
    BY <2>1
<1>7. g = OrderBody(h, order, n, g)
  <2>1. ASSUME NEW m \in 0..n PROVE g[m] = IF m = 0 THEN h ELSE Carry(g[m - 1], order[m])
    <3>1. m # 0 => m \in 1..n
      OBVIOUS
    <3> QED
      BY <1>5, <1>6, <3>1
  <2>2. DOMAIN g = 0..n /\ g = [m \in DOMAIN g |-> g[m]]
    BY <1>5
  <2> QED
    BY <2>1, <2>2 DEF OrderBody
<1>8. G = OrderBody(h, order, n, G)
  BY <1>7 DEF Orders
<1> HIDE DEF G
<1>9. G = [m \in 0..n |-> IF m = 0 THEN h ELSE Carry(G[m - 1], order[m])]
  BY <1>8 DEF OrderBody
<1>10. G[0] = h /\ \A m \in 1..n : G[m] = Carry(G[m - 1], order[m])
  <2>1. 0 \in 0..n /\ \A m \in 1..n : m \in 0..n /\ m # 0
    OBVIOUS
  <2> QED
    BY <1>9, <2>1
<1> DEFINE A == {m \in Nat : m <= n => G[m] \in Limbed}
<1>11. 0 \in A
  BY <1>10
<1>12. ASSUME NEW m \in Nat, m \in A PROVE m + 1 \in A
  <2>1. SUFFICES ASSUME m + 1 <= n PROVE G[m + 1] \in Limbed
    OBVIOUS
  <2>2. m + 1 \in 1..n /\ (m + 1) - 1 = m /\ m <= n
    BY <2>1
  <2>3. G[m + 1] = Carry(G[m], order[m + 1]) /\ G[m] \in Limbed /\ order[m + 1] \in Index
    BY <1>10, <1>12, <2>2
  <2> QED
    BY <1>1, <2>3
<1> HIDE DEF A
<1>13. \A m \in Nat : m \in A
  BY <1>11, <1>12, SetInduction
<1>14. \A m \in 0..n : G[m] \in Limbed
  <2>1. \A m \in 0..n : m \in Nat /\ m <= n
    OBVIOUS
  <2> QED
    BY <1>13, <2>1 DEF A
<1>15. G \in [0..n -> Limbed]
  BY <1>9, <1>14
<1> QED
  BY <1>10, <1>15 DEF InOrder, G

LEMMA CarryAllIs ==
    ASSUME NEW n \in Nat, NEW h \in Limbed, NEW order \in [1..n -> Index]
    PROVE  /\ CarryAll(h, order, n) = Orders(h, order, n)[n]
           /\ CarryAll(h, order, n) \in Limbed
           /\ Same(FieldValue(CarryAll(h, order, n)), FieldValue(h))
<1>1. CarryAll(h, order, n) = Orders(h, order, n)[n]
  BY DEF CarryAll, Orders, OrderBody
<1> DEFINE G == Orders(h, order, n)
<1>2. /\ G \in [0..n -> Limbed] /\ G[0] = h
      /\ \A m \in 1..n : G[m] = Carry(G[m - 1], order[m])
  BY OrdersIs DEF InOrder
<1> HIDE DEF G
<1> DEFINE A == {m \in Nat : m <= n => Same(FieldValue(G[m]), FieldValue(h))}
<1>3. 0 \in A
  BY <1>2, FieldValueType, SameItself
<1>4. ASSUME NEW m \in Nat, m \in A PROVE m + 1 \in A
  <2>1. SUFFICES ASSUME m + 1 <= n PROVE Same(FieldValue(G[m + 1]), FieldValue(h))
    OBVIOUS
  <2>2. m + 1 \in 1..n /\ (m + 1) - 1 = m /\ m \in 0..n /\ m + 1 \in 0..n /\ m <= n
    BY <2>1
  <2>3. /\ G[m + 1] = Carry(G[m], order[m + 1]) /\ order[m + 1] \in Index
        /\ G[m] \in Limbed /\ G[m + 1] \in Limbed
    BY <1>2, <2>2
  <2>4. Same(FieldValue(G[m + 1]), FieldValue(G[m]))
    <3>1. PICK c \in Int : FieldCarried(G[m], G[m + 1], order[m + 1], c)
      BY <2>3, CarryIs
    <3> QED
      BY <3>1 DEF FieldCarried
  <2>5. Same(FieldValue(G[m]), FieldValue(h))
    BY <1>4, <2>2
  <2> QED
    BY <2>3, <2>4, <2>5, FieldValueType, SameThrough
<1> HIDE DEF A
<1>5. \A m \in Nat : m \in A
  BY <1>3, <1>4, SetInduction
<1>6. Same(FieldValue(G[n]), FieldValue(h))
  <2>1. n \in A
    BY <1>5
  <2> QED
    BY <2>1 DEF A
<1>7. G[n] \in Limbed
  BY <1>2
<1> QED
  BY <1>1, <1>6, <1>7 DEF G

LEMMA OrdersAre ==
    /\ ProductOrder \in [1..Limbs + 2 -> Index] /\ Limbs + 2 \in Nat
    /\ OddFirst \in [1..Limbs -> Index] /\ Limbs \in Nat
<1>0. Limbs \in Nat /\ Limbs >= 4 /\ Limbs % 2 = 0
  BY LimbsFacts
<1>1. PICK half \in Nat : 2 * half = Limbs /\ half = Limbs \div 2 /\ half - 1 = (Limbs - 2) \div 2
  BY <1>0
<1>2. ASSUME NEW n \in 1..Limbs + 2 PROVE ProductOrder[n] \in Index
  <2>1. ProductOrder[n] = IF n <= Limbs THEN ((n - 1) \div 2) + ((n - 1) % 2) * (half - 1)
                          ELSE IF n = Limbs + 1 THEN Limbs - 1 ELSE 0
    BY <1>1 DEF ProductOrder
  <2>2. CASE n <= Limbs
    <3>1. PICK m \in Nat, b \in 0..1 : m = (n - 1) \div 2 /\ b = (n - 1) % 2 /\ n - 1 = 2 * m + b
      <4>1. n - 1 \in Nat
        OBVIOUS
      <4> QED
        BY <4>1
    <3>2. b = 0 \/ b = 1
      OBVIOUS
    <3>3. m + b * (half - 1) \in 0..Limbs - 1
      <4>1. CASE b = 0
        BY <1>0, <1>1, <2>2, <3>1, <4>1
      <4>2. CASE b = 1
        BY <1>0, <1>1, <2>2, <3>1, <4>2
      <4> QED
        BY <3>2, <4>1, <4>2
    <3> QED
      BY <2>1, <2>2, <3>1, <3>3 DEF Index
  <2>3. CASE ~(n <= Limbs)
    BY <1>0, <2>1, <2>3 DEF Index
  <2> QED
    BY <2>2, <2>3
<1>3. ASSUME NEW n \in 1..Limbs PROVE OddFirst[n] \in Index
  <2>1. OddFirst[n] = IF n = 1 THEN Limbs - 1
                      ELSE IF n <= half THEN 2 * n - 3 ELSE 2 * (n - half) - 2
    BY <1>1 DEF OddFirst
  <2> QED
    BY <1>0, <1>1, <2>1 DEF Index
<1> QED
  BY <1>0, <1>2, <1>3 DEF ProductOrder, OddFirst

-----------------------------------------------------------------------------
(* How large the limbs are, for ten limbs. *)

(* What is left over half a width in a limb that a carry went into last is *)
(* at most Slack, and that is at most a quarter of any width.              *)
Slack == (Excess + 1) * (720 * Excess + 2 * Factor + 129)
FieldFits ==
    /\ Limbs = 10 /\ Excess >= 1 /\ 2 * Slack <= OddRadix
    /\ \A i \in Index : LoadsEnd(i) <= (128 * WideRadix(i)) * Weight(i)
    /\ FieldNumbers \subseteq Nat

Loose(f, d) == f \in Limbed /\ \A i \in Index : -(d * WideRadix(i)) <= f[i] /\ f[i] <= d * WideRadix(i)

LEMMA TenLimbs ==
    ASSUME FieldFits
    PROVE  /\ Index = 0..9 /\ Limbs = 10
           /\ \E s \in Nat : OddRadix = 2 * s /\ s >= 1
           /\ \A i \in Index : WideRadix(i) = IF i \in {0, 2, 4, 6, 8} THEN 2 * OddRadix ELSE OddRadix
           /\ \A i \in Index : After(i) = IF i = 9 THEN 0 ELSE i + 1
<1>1. Limbs = 10 /\ Index = 0..9
  BY DEF FieldFits, Index
<1>2. \E s \in Nat : OddRadix = 2 * s /\ s >= 1
  BY LimbsFacts
<1>3. \A i \in 0..9 : i % 2 = 0 <=> i \in {0, 2, 4, 6, 8}
  OBVIOUS
<1>4. \A i \in Index : WideRadix(i) = IF i \in {0, 2, 4, 6, 8} THEN 2 * OddRadix ELSE OddRadix
  BY <1>1, <1>3 DEF WideRadix
<1>5. \A i \in Index : After(i) = IF i = 9 THEN 0 ELSE i + 1
  BY <1>1 DEF After
<1> QED
  BY <1>1, <1>2, <1>4, <1>5

(* Limb i of h is carried, and x at most goes to the next one. *)
Stepped(h, t, i, x) ==
    /\ -WideRadix(i) <= 2 * t[i] /\ 2 * t[i] <= WideRadix(i)
    /\ h[After(i)] - Gain(i, x) <= t[After(i)] /\ t[After(i)] <= h[After(i)] + Gain(i, x)
    /\ \A k \in Index : k # i /\ k # After(i) => t[k] = h[k]

LEMMA SteppedIs ==
    ASSUME NEW h \in Limbed, NEW i \in Index, NEW x \in Nat,
           -(x * WideRadix(i)) <= h[i], h[i] <= x * WideRadix(i)
    PROVE  Stepped(h, Carry(h, i), i, x)
<1> DEFINE t == Carry(h, i)
<1>1. PICK c \in Int : FieldCarried(h, t, i, c)
  BY CarryIs
<1> HIDE DEF t
<1>2. -x <= c /\ c <= x
  BY <1>1, CarryBound
<1>3. PICK p, q \in Int : p = Gain(i, c) /\ q = Gain(i, x) /\ -q <= p /\ p <= q
  <2>1. PICK e \in Nat : e = Excess
    BY LimbsFacts
  <2>2. PICK u, v \in Int : u = c * e /\ v = x * e
    OBVIOUS
  <2>3. u <= v
    BY <1>2, <2>2
  <2>4. -v <= u
    BY <1>2, <2>2
  <2>5. Gain(i, c) = (IF i = Limbs - 1 THEN u ELSE c) /\ Gain(i, x) = (IF i = Limbs - 1 THEN v ELSE x)
    BY <2>1, <2>2 DEF Gain
  <2> QED
    BY <1>2, <2>3, <2>4, <2>5
<1>4. t[After(i)] = h[After(i)] + p /\ h[After(i)] \in Int
  BY <1>1, <1>3, AfterIs DEF FieldCarried, Limbed
<1>5. h[After(i)] - Gain(i, x) <= t[After(i)] /\ t[After(i)] <= h[After(i)] + Gain(i, x)
  BY <1>3, <1>4
<1>6. Stepped(h, t, i, x)
  BY <1>1, <1>5 DEF Stepped, FieldCarried
<1> QED
  BY <1>6 DEF t

(* The carries of fe_mul, fe_sq and fe_sq2. *)
Bounded(h, u0, u1, u2, u3, u4, u5, u6, u7, u8, u9) ==
    /\ h \in Limbed
    /\ -u0 <= h[0] /\ h[0] <= u0 /\ -u1 <= h[1] /\ h[1] <= u1
    /\ -u2 <= h[2] /\ h[2] <= u2 /\ -u3 <= h[3] /\ h[3] <= u3
    /\ -u4 <= h[4] /\ h[4] <= u4 /\ -u5 <= h[5] /\ h[5] <= u5
    /\ -u6 <= h[6] /\ h[6] <= u6 /\ -u7 <= h[7] /\ h[7] <= u7
    /\ -u8 <= h[8] /\ h[8] <= u8 /\ -u9 <= h[9] /\ h[9] <= u9

LEMMA ProductCarried ==
    ASSUME FieldFits, NEW h \in Limbed,
           \A k \in Index : -((720 * Excess * OddRadix) * OddRadix) <= h[k]
                            /\ h[k] <= (720 * Excess * OddRadix) * OddRadix
    PROVE  Loose(CarryProduct(h), 1)
<1>1. PICK B \in Nat, s \in Nat : B = OddRadix /\ B = 2 * s /\ s >= 1
  BY TenLimbs
<1>2. PICK E \in Nat : E = Excess /\ E >= 1
  BY LimbsFacts DEF FieldFits
<1>3. PICK C \in Nat : C = 720 * E
  OBVIOUS
<1>4. PICK Z \in Nat : Z = E * (C + 1)
  OBVIOUS
<1>5. Z + 1 <= s /\ C + 2 <= s
  <2>1. PICK F \in Nat : F = 2 * Factor + 129 /\ F >= 129
    BY LimbsFacts
  <2>2. 720 * Excess + 2 * Factor + 129 = C + F
    BY <1>2, <1>3, <2>1, LimbsFacts
  <2>3. Slack = (E + 1) * (C + F)
    BY <1>2, <2>2 DEF Slack
  <2>4. (E + 1) * (C + F) = E * (C + 1) + E * (F - 1) + C + F
    BY <2>1
  <2>5. PICK y \in Nat : y = E * (F - 1)
    BY <2>1
  <2>6. Slack = Z + y + C + F
    BY <1>4, <2>3, <2>4, <2>5
  <2>7. 2 * Slack <= OddRadix
    BY DEF FieldFits
  <2> QED
    BY <1>1, <2>1, <2>6, <2>7
<1>6. PICK X, P, Q, EX \in Nat : X = (C + 1) * B /\ P = (C * B) * B /\ Q = X * B /\ EX = X * E
  OBVIOUS
<1>7. P + X <= Q
  <2>1. ((C + 1) * B) * B = (C * B) * B + B * B
    OBVIOUS
  <2>2. (C + 1) * B <= B * B
    BY <1>1, <1>5
  <2>3. PICK y \in Nat : y = B * B
    OBVIOUS
  <2> QED
    BY <1>6, <2>1, <2>2, <2>3
<1>8. B + X = (C + 2) * B /\ B + EX = (Z + 1) * B
  <2>1. B + (C + 1) * B = (C + 2) * B
    OBVIOUS
  <2>2. ((C + 1) * B) * E = (E * (C + 1)) * B
    OBVIOUS
  <2>3. (Z + 1) * B = Z * B + B
    OBVIOUS
  <2>4. PICK y \in Nat : y = Z * B
    OBVIOUS
  <2> QED
    BY <1>4, <1>6, <2>1, <2>2, <2>3, <2>4
<1>9. /\ \A k \in Index : P + X <= X * WideRadix(k)
      /\ B + X <= (C + 2) * WideRadix(4) /\ B + EX <= (Z + 1) * WideRadix(0)
  <2>1. ASSUME NEW k \in Index PROVE P + X <= X * WideRadix(k)
    <3>1. WideRadix(k) = B \/ WideRadix(k) = 2 * B
      BY <1>1, <2>1, TenLimbs
    <3>2. X * B = Q /\ X * (2 * B) = 2 * Q
      BY <1>6
    <3> QED
      BY <1>7, <3>1, <3>2
  <2>2. WideRadix(4) = 2 * B /\ WideRadix(0) = 2 * B
    BY <1>1, TenLimbs
  <2>3. (C + 2) * (2 * B) = 2 * ((C + 2) * B) /\ (Z + 1) * (2 * B) = 2 * ((Z + 1) * B)
    OBVIOUS
  <2> QED
    BY <1>8, <2>1, <2>2, <2>3
<1> DEFINE D == Orders(h, ProductOrder, 12)
<1>10. /\ D \in [0..12 -> Limbed] /\ D[0] = h /\ CarryProduct(h) = D[12]
       /\ \A m \in 1..12 : D[m] = Carry(D[m - 1], ProductOrder[m])
  <2>1. Limbs + 2 = 12 /\ 12 \in Nat
    BY TenLimbs
  <2>2. ProductOrder \in [1..12 -> Index]
    BY <2>1, OrdersAre
  <2> QED
    <3>1. CarryProduct(h) = CarryAll(h, ProductOrder, 12)
      BY <2>1 DEF CarryProduct
    <3>2. CarryAll(h, ProductOrder, 12) = D[12]
      BY <2>1, <2>2, CarryAllIs
    <3>3. InOrder(D, h, ProductOrder, 12)
      BY <2>1, <2>2, OrdersIs
    <3> QED
      BY <3>1, <3>2, <3>3 DEF InOrder
<1> HIDE DEF D
<1>11. /\ ProductOrder[1] = 0 /\ ProductOrder[2] = 4 /\ ProductOrder[3] = 1
       /\ ProductOrder[4] = 5 /\ ProductOrder[5] = 2 /\ ProductOrder[6] = 6
       /\ ProductOrder[7] = 3 /\ ProductOrder[8] = 7 /\ ProductOrder[9] = 4
       /\ ProductOrder[10] = 8 /\ ProductOrder[11] = 9 /\ ProductOrder[12] = 0
  BY TenLimbs DEF ProductOrder
<1>12. /\ D[1] = Carry(D[0], 0) /\ D[2] = Carry(D[1], 4) /\ D[3] = Carry(D[2], 1)
       /\ D[4] = Carry(D[3], 5) /\ D[5] = Carry(D[4], 2) /\ D[6] = Carry(D[5], 6)
       /\ D[7] = Carry(D[6], 3) /\ D[8] = Carry(D[7], 7) /\ D[9] = Carry(D[8], 4)
       /\ D[10] = Carry(D[9], 8) /\ D[11] = Carry(D[10], 9) /\ D[12] = Carry(D[11], 0)
  <2>1. \A m \in 1..12 : D[m] = Carry(D[m - 1], ProductOrder[m])
    BY <1>10
  <2> QED
    BY <1>11, <2>1
<1>13. \A m \in 0..12 : D[m] \in Limbed
  BY <1>10
<1>14. Index = 0..9 /\ Limbs = 10
  BY TenLimbs
<1>15. Bounded(D[0], P, P, P, P, P, P, P, P, P, P)
  BY <1>1, <1>2, <1>3, <1>6, <1>10, <1>14 DEF Bounded
<1>16. Bounded(D[1], B, P + X, P, P, P, P, P, P, P, P)
  <2>1. 0 \in Index /\ 1 \in Index /\ After(0) = 1 /\ Gain(0, X) = X
    BY <1>2, <1>6, <1>14 DEF After, Gain
  <2>2. -((X) * WideRadix(0)) <= D[0][0] /\ D[0][0] <= (X) * WideRadix(0)
    <3>1. D[0][0] \in Int /\ P + X <= (X) * WideRadix(0) /\ WideRadix(0) \in Int
      BY <1>1, <1>6, <1>8, <1>9, <1>13, <2>1, TenLimbs DEF Limbed
    <3>2. -(P + X) <= D[0][0] /\ D[0][0] <= P + X
      BY <1>6, <1>15, <3>1 DEF Bounded
    <3> QED
      BY <1>1, <1>2, <1>3, <1>4, <1>6, <3>1, <3>2
  <2>3. Stepped(D[0], D[1], 0, X)
    BY <1>12, <1>13, <2>1, <2>2, SteppedIs
  <2> QED
    BY <1>1, <1>9, <1>13, <1>14, <1>15, <2>1, <2>3, TenLimbs DEF Bounded, Stepped, Limbed
<1>17. Bounded(D[2], B, P + X, P, P, B, P + X, P, P, P, P)
  <2>1. 4 \in Index /\ 5 \in Index /\ After(4) = 5 /\ Gain(4, X) = X
    BY <1>2, <1>6, <1>14 DEF After, Gain
  <2>2. -((X) * WideRadix(4)) <= D[1][4] /\ D[1][4] <= (X) * WideRadix(4)
    <3>1. D[1][4] \in Int /\ P + X <= (X) * WideRadix(4) /\ WideRadix(4) \in Int
      BY <1>1, <1>6, <1>8, <1>9, <1>13, <2>1, TenLimbs DEF Limbed
    <3>2. -(P + X) <= D[1][4] /\ D[1][4] <= P + X
      BY <1>6, <1>16, <3>1 DEF Bounded
    <3> QED
      BY <1>1, <1>2, <1>3, <1>4, <1>6, <3>1, <3>2
  <2>3. Stepped(D[1], D[2], 4, X)
    BY <1>12, <1>13, <2>1, <2>2, SteppedIs
  <2> QED
    BY <1>1, <1>9, <1>13, <1>14, <1>16, <2>1, <2>3, TenLimbs DEF Bounded, Stepped, Limbed
<1>18. Bounded(D[3], B, s, P + X, P, B, P + X, P, P, P, P)
  <2>1. 1 \in Index /\ 2 \in Index /\ After(1) = 2 /\ Gain(1, X) = X
    BY <1>2, <1>6, <1>14 DEF After, Gain
  <2>2. -((X) * WideRadix(1)) <= D[2][1] /\ D[2][1] <= (X) * WideRadix(1)
    <3>1. D[2][1] \in Int /\ P + X <= (X) * WideRadix(1) /\ WideRadix(1) \in Int
      BY <1>1, <1>6, <1>8, <1>9, <1>13, <2>1, TenLimbs DEF Limbed
    <3>2. -(P + X) <= D[2][1] /\ D[2][1] <= P + X
      BY <1>6, <1>17, <3>1 DEF Bounded
    <3> QED
      BY <1>1, <1>2, <1>3, <1>4, <1>6, <3>1, <3>2
  <2>3. Stepped(D[2], D[3], 1, X)
    BY <1>12, <1>13, <2>1, <2>2, SteppedIs
  <2> QED
    BY <1>1, <1>9, <1>13, <1>14, <1>17, <2>1, <2>3, TenLimbs DEF Bounded, Stepped, Limbed
<1>19. Bounded(D[4], B, s, P + X, P, B, s, P + X, P, P, P)
  <2>1. 5 \in Index /\ 6 \in Index /\ After(5) = 6 /\ Gain(5, X) = X
    BY <1>2, <1>6, <1>14 DEF After, Gain
  <2>2. -((X) * WideRadix(5)) <= D[3][5] /\ D[3][5] <= (X) * WideRadix(5)
    <3>1. D[3][5] \in Int /\ P + X <= (X) * WideRadix(5) /\ WideRadix(5) \in Int
      BY <1>1, <1>6, <1>8, <1>9, <1>13, <2>1, TenLimbs DEF Limbed
    <3>2. -(P + X) <= D[3][5] /\ D[3][5] <= P + X
      BY <1>6, <1>18, <3>1 DEF Bounded
    <3> QED
      BY <1>1, <1>2, <1>3, <1>4, <1>6, <3>1, <3>2
  <2>3. Stepped(D[3], D[4], 5, X)
    BY <1>12, <1>13, <2>1, <2>2, SteppedIs
  <2> QED
    BY <1>1, <1>9, <1>13, <1>14, <1>18, <2>1, <2>3, TenLimbs DEF Bounded, Stepped, Limbed
<1>20. Bounded(D[5], B, s, B, P + X, B, s, P + X, P, P, P)
  <2>1. 2 \in Index /\ 3 \in Index /\ After(2) = 3 /\ Gain(2, X) = X
    BY <1>2, <1>6, <1>14 DEF After, Gain
  <2>2. -((X) * WideRadix(2)) <= D[4][2] /\ D[4][2] <= (X) * WideRadix(2)
    <3>1. D[4][2] \in Int /\ P + X <= (X) * WideRadix(2) /\ WideRadix(2) \in Int
      BY <1>1, <1>6, <1>8, <1>9, <1>13, <2>1, TenLimbs DEF Limbed
    <3>2. -(P + X) <= D[4][2] /\ D[4][2] <= P + X
      BY <1>6, <1>19, <3>1 DEF Bounded
    <3> QED
      BY <1>1, <1>2, <1>3, <1>4, <1>6, <3>1, <3>2
  <2>3. Stepped(D[4], D[5], 2, X)
    BY <1>12, <1>13, <2>1, <2>2, SteppedIs
  <2> QED
    BY <1>1, <1>9, <1>13, <1>14, <1>19, <2>1, <2>3, TenLimbs DEF Bounded, Stepped, Limbed
<1>21. Bounded(D[6], B, s, B, P + X, B, s, B, P + X, P, P)
  <2>1. 6 \in Index /\ 7 \in Index /\ After(6) = 7 /\ Gain(6, X) = X
    BY <1>2, <1>6, <1>14 DEF After, Gain
  <2>2. -((X) * WideRadix(6)) <= D[5][6] /\ D[5][6] <= (X) * WideRadix(6)
    <3>1. D[5][6] \in Int /\ P + X <= (X) * WideRadix(6) /\ WideRadix(6) \in Int
      BY <1>1, <1>6, <1>8, <1>9, <1>13, <2>1, TenLimbs DEF Limbed
    <3>2. -(P + X) <= D[5][6] /\ D[5][6] <= P + X
      BY <1>6, <1>20, <3>1 DEF Bounded
    <3> QED
      BY <1>1, <1>2, <1>3, <1>4, <1>6, <3>1, <3>2
  <2>3. Stepped(D[5], D[6], 6, X)
    BY <1>12, <1>13, <2>1, <2>2, SteppedIs
  <2> QED
    BY <1>1, <1>9, <1>13, <1>14, <1>20, <2>1, <2>3, TenLimbs DEF Bounded, Stepped, Limbed
<1>22. Bounded(D[7], B, s, B, s, B + X, s, B, P + X, P, P)
  <2>1. 3 \in Index /\ 4 \in Index /\ After(3) = 4 /\ Gain(3, X) = X
    BY <1>2, <1>6, <1>14 DEF After, Gain
  <2>2. -((X) * WideRadix(3)) <= D[6][3] /\ D[6][3] <= (X) * WideRadix(3)
    <3>1. D[6][3] \in Int /\ P + X <= (X) * WideRadix(3) /\ WideRadix(3) \in Int
      BY <1>1, <1>6, <1>8, <1>9, <1>13, <2>1, TenLimbs DEF Limbed
    <3>2. -(P + X) <= D[6][3] /\ D[6][3] <= P + X
      BY <1>6, <1>21, <3>1 DEF Bounded
    <3> QED
      BY <1>1, <1>2, <1>3, <1>4, <1>6, <3>1, <3>2
  <2>3. Stepped(D[6], D[7], 3, X)
    BY <1>12, <1>13, <2>1, <2>2, SteppedIs
  <2> QED
    BY <1>1, <1>9, <1>13, <1>14, <1>21, <2>1, <2>3, TenLimbs DEF Bounded, Stepped, Limbed
<1>23. Bounded(D[8], B, s, B, s, B + X, s, B, s, P + X, P)
  <2>1. 7 \in Index /\ 8 \in Index /\ After(7) = 8 /\ Gain(7, X) = X
    BY <1>2, <1>6, <1>14 DEF After, Gain
  <2>2. -((X) * WideRadix(7)) <= D[7][7] /\ D[7][7] <= (X) * WideRadix(7)
    <3>1. D[7][7] \in Int /\ P + X <= (X) * WideRadix(7) /\ WideRadix(7) \in Int
      BY <1>1, <1>6, <1>8, <1>9, <1>13, <2>1, TenLimbs DEF Limbed
    <3>2. -(P + X) <= D[7][7] /\ D[7][7] <= P + X
      BY <1>6, <1>22, <3>1 DEF Bounded
    <3> QED
      BY <1>1, <1>2, <1>3, <1>4, <1>6, <3>1, <3>2
  <2>3. Stepped(D[7], D[8], 7, X)
    BY <1>12, <1>13, <2>1, <2>2, SteppedIs
  <2> QED
    BY <1>1, <1>9, <1>13, <1>14, <1>22, <2>1, <2>3, TenLimbs DEF Bounded, Stepped, Limbed
<1>24. Bounded(D[9], B, s, B, s, B, s + (C + 2), B, s, P + X, P)
  <2>1. 4 \in Index /\ 5 \in Index /\ After(4) = 5 /\ Gain(4, C + 2) = C + 2
    BY <1>2, <1>6, <1>14 DEF After, Gain
  <2>2. -((C + 2) * WideRadix(4)) <= D[8][4] /\ D[8][4] <= (C + 2) * WideRadix(4)
    <3>1. D[8][4] \in Int /\ B + X <= (C + 2) * WideRadix(4) /\ WideRadix(4) \in Int
      BY <1>1, <1>6, <1>8, <1>9, <1>13, <2>1, TenLimbs DEF Limbed
    <3>2. -(B + X) <= D[8][4] /\ D[8][4] <= B + X
      BY <1>6, <1>23, <3>1 DEF Bounded
    <3> QED
      BY <1>1, <1>2, <1>3, <1>4, <1>6, <3>1, <3>2
  <2>3. Stepped(D[8], D[9], 4, C + 2)
    BY <1>12, <1>13, <2>1, <2>2, SteppedIs
  <2> QED
    BY <1>1, <1>9, <1>13, <1>14, <1>23, <2>1, <2>3, TenLimbs DEF Bounded, Stepped, Limbed
<1>25. Bounded(D[10], B, s, B, s, B, s + (C + 2), B, s, B, P + X)
  <2>1. 8 \in Index /\ 9 \in Index /\ After(8) = 9 /\ Gain(8, X) = X
    BY <1>2, <1>6, <1>14 DEF After, Gain
  <2>2. -((X) * WideRadix(8)) <= D[9][8] /\ D[9][8] <= (X) * WideRadix(8)
    <3>1. D[9][8] \in Int /\ P + X <= (X) * WideRadix(8) /\ WideRadix(8) \in Int
      BY <1>1, <1>6, <1>8, <1>9, <1>13, <2>1, TenLimbs DEF Limbed
    <3>2. -(P + X) <= D[9][8] /\ D[9][8] <= P + X
      BY <1>6, <1>24, <3>1 DEF Bounded
    <3> QED
      BY <1>1, <1>2, <1>3, <1>4, <1>6, <3>1, <3>2
  <2>3. Stepped(D[9], D[10], 8, X)
    BY <1>12, <1>13, <2>1, <2>2, SteppedIs
  <2> QED
    BY <1>1, <1>9, <1>13, <1>14, <1>24, <2>1, <2>3, TenLimbs DEF Bounded, Stepped, Limbed
<1>26. Bounded(D[11], B + EX, s, B, s, B, s + (C + 2), B, s, B, s)
  <2>1. 9 \in Index /\ 0 \in Index /\ After(9) = 0 /\ Gain(9, X) = EX
    BY <1>2, <1>6, <1>14 DEF After, Gain
  <2>2. -((X) * WideRadix(9)) <= D[10][9] /\ D[10][9] <= (X) * WideRadix(9)
    <3>1. D[10][9] \in Int /\ P + X <= (X) * WideRadix(9) /\ WideRadix(9) \in Int
      BY <1>1, <1>6, <1>8, <1>9, <1>13, <2>1, TenLimbs DEF Limbed
    <3>2. -(P + X) <= D[10][9] /\ D[10][9] <= P + X
      BY <1>6, <1>25, <3>1 DEF Bounded
    <3> QED
      BY <1>1, <1>2, <1>3, <1>4, <1>6, <3>1, <3>2
  <2>3. Stepped(D[10], D[11], 9, X)
    BY <1>12, <1>13, <2>1, <2>2, SteppedIs
  <2> QED
    BY <1>1, <1>9, <1>13, <1>14, <1>25, <2>1, <2>3, TenLimbs DEF Bounded, Stepped, Limbed
<1>27. Bounded(D[12], B, s + (Z + 1), B, s, B, s + (C + 2), B, s, B, s)
  <2>1. 0 \in Index /\ 1 \in Index /\ After(0) = 1 /\ Gain(0, Z + 1) = Z + 1
    BY <1>2, <1>6, <1>14 DEF After, Gain
  <2>2. -((Z + 1) * WideRadix(0)) <= D[11][0] /\ D[11][0] <= (Z + 1) * WideRadix(0)
    <3>1. D[11][0] \in Int /\ B + EX <= (Z + 1) * WideRadix(0) /\ WideRadix(0) \in Int
      BY <1>1, <1>6, <1>8, <1>9, <1>13, <2>1, TenLimbs DEF Limbed
    <3>2. -(B + EX) <= D[11][0] /\ D[11][0] <= B + EX
      BY <1>6, <1>26, <3>1 DEF Bounded
    <3> QED
      BY <1>1, <1>2, <1>3, <1>4, <1>6, <3>1, <3>2
  <2>3. Stepped(D[11], D[12], 0, Z + 1)
    BY <1>12, <1>13, <2>1, <2>2, SteppedIs
  <2> QED
    BY <1>1, <1>9, <1>13, <1>14, <1>26, <2>1, <2>3, TenLimbs DEF Bounded, Stepped, Limbed
<1>28. \A k \in 0..9 : -WideRadix(k) <= D[12][k] /\ D[12][k] <= WideRadix(k)
  BY <1>1, <1>5, <1>13, <1>14, <1>27, TenLimbs DEF Bounded, Limbed
<1>29. \A k \in Index : WideRadix(k) \in Int
  BY <1>1, TenLimbs
<1>30. \A k \in Index : -(1 * WideRadix(k)) <= D[12][k] /\ D[12][k] <= 1 * WideRadix(k)
  BY <1>14, <1>28, <1>29
<1> QED
  BY <1>10, <1>13, <1>30 DEF Loose

(* The carries of fe_frombytes and fe_mul121666. *)
LEMMA OddCarried ==
    ASSUME FieldFits, NEW h, Loose(h, 2 * Factor + 128)
    PROVE  Loose(CarryAll(h, OddFirst, Limbs), 1)
<1>1. PICK B \in Nat, s \in Nat : B = OddRadix /\ B = 2 * s /\ s >= 1
  BY TenLimbs
<1>2. PICK E \in Nat : E = Excess /\ E >= 1
  BY LimbsFacts DEF FieldFits
<1>3. PICK K \in Nat : K = 2 * Factor + 128
  BY LimbsFacts
<1>4. PICK P, EK \in Nat : P = K * B /\ EK = K * E
  OBVIOUS
<1>5. K + 1 <= s /\ EK <= s
  <2>1. PICK C \in Nat : C = 720 * E
    OBVIOUS
  <2>2. 720 * Excess + 2 * Factor + 129 = C + K + 1
    BY <1>2, <1>3, <2>1, LimbsFacts
  <2>3. Slack = (E + 1) * (C + K + 1)
    BY <1>2, <2>2 DEF Slack
  <2>4. (E + 1) * (C + K + 1) = E * C + K * E + E + C + K + 1
    OBVIOUS
  <2>5. PICK y \in Nat : y = E * C
    OBVIOUS
  <2>6. Slack = y + EK + E + C + K + 1
    BY <1>4, <2>3, <2>4, <2>5
  <2>7. 2 * Slack <= OddRadix
    BY DEF FieldFits
  <2> QED
    BY <1>1, <2>1, <2>6, <2>7
<1>6. h \in Limbed /\ \A k \in Index : h[k] \in Int
  BY DEF Loose, Limbed
<1>7. /\ \A k \in {1, 3, 5, 7, 9} : WideRadix(k) = B /\ K * WideRadix(k) = P
      /\ \A k \in {0, 2, 4, 6, 8} : WideRadix(k) = 2 * B /\ K * WideRadix(k) = 2 * P
                                 /\ (K + 1) * WideRadix(k) = 2 * P + 2 * B
  <2>1. ASSUME NEW k \in {1, 3, 5, 7, 9} PROVE WideRadix(k) = B /\ K * WideRadix(k) = P
    <3>1. WideRadix(k) = B
      BY <1>1, TenLimbs
    <3> QED
      BY <1>4, <3>1
  <2>2. ASSUME NEW k \in {0, 2, 4, 6, 8}
        PROVE  WideRadix(k) = 2 * B /\ K * WideRadix(k) = 2 * P
               /\ (K + 1) * WideRadix(k) = 2 * P + 2 * B
    <3>1. WideRadix(k) = 2 * B
      BY <1>1, TenLimbs
    <3>2. K * (2 * B) = 2 * (K * B) /\ (K + 1) * (2 * B) = 2 * (K * B) + 2 * B
      OBVIOUS
    <3> QED
      BY <1>4, <3>1, <3>2
  <2> QED
    BY <2>1, <2>2
<1> DEFINE D == Orders(h, OddFirst, 10)
<1>10. /\ D \in [0..10 -> Limbed] /\ D[0] = h /\ CarryAll(h, OddFirst, Limbs) = D[10]
       /\ \A m \in 1..10 : D[m] = Carry(D[m - 1], OddFirst[m])
  <2>1. Limbs = 10 /\ 10 \in Nat
    BY TenLimbs
  <2>2. OddFirst \in [1..10 -> Index]
    BY <2>1, OrdersAre
  <2>3. CarryAll(h, OddFirst, 10) = D[10]
    BY <1>6, <2>1, <2>2, CarryAllIs
  <2>4. InOrder(D, h, OddFirst, 10)
    BY <1>6, <2>1, <2>2, OrdersIs
  <2> QED
    BY <2>1, <2>3, <2>4 DEF InOrder
<1> HIDE DEF D
<1>11. /\ OddFirst[1] = 9 /\ OddFirst[2] = 1 /\ OddFirst[3] = 3
       /\ OddFirst[4] = 5 /\ OddFirst[5] = 7 /\ OddFirst[6] = 0
       /\ OddFirst[7] = 2 /\ OddFirst[8] = 4 /\ OddFirst[9] = 6
       /\ OddFirst[10] = 8
  BY TenLimbs DEF OddFirst
<1>12. /\ D[1] = Carry(D[0], 9) /\ D[2] = Carry(D[1], 1) /\ D[3] = Carry(D[2], 3)
       /\ D[4] = Carry(D[3], 5) /\ D[5] = Carry(D[4], 7) /\ D[6] = Carry(D[5], 0)
       /\ D[7] = Carry(D[6], 2) /\ D[8] = Carry(D[7], 4) /\ D[9] = Carry(D[8], 6)
       /\ D[10] = Carry(D[9], 8)
  <2>1. \A m \in 1..10 : D[m] = Carry(D[m - 1], OddFirst[m])
    BY <1>10
  <2> QED
    BY <1>11, <2>1
<1>13. \A m \in 0..10 : D[m] \in Limbed
  BY <1>10
<1>14. Index = 0..9 /\ Limbs = 10
  BY TenLimbs
<1>15. Bounded(D[0], 2 * P, P, 2 * P, P, 2 * P, P, 2 * P, P, 2 * P, P)
  <2>1. \A k \in Index : -(K * WideRadix(k)) <= h[k] /\ h[k] <= K * WideRadix(k)
    BY <1>3 DEF Loose
  <2> QED
    BY <1>6, <1>7, <1>10, <1>14, <2>1 DEF Bounded
<1>16. Bounded(D[1], 2 * P + EK, P, 2 * P, P, 2 * P, P, 2 * P, P, 2 * P, s)
  <2>1. 9 \in Index /\ 0 \in Index /\ After(9) = 0 /\ Gain(9, K) = EK
    BY <1>2, <1>4, <1>14 DEF After, Gain
  <2>2. (K) * WideRadix(9) = P /\ D[0][9] \in Int
    BY <1>7, <1>13, <2>1 DEF Limbed
  <2>3. -((K) * WideRadix(9)) <= D[0][9] /\ D[0][9] <= (K) * WideRadix(9)
    BY <1>1, <1>5, <1>15, <2>2 DEF Bounded
  <2>4. Stepped(D[0], D[1], 9, K)
    BY <1>12, <1>13, <2>1, <2>3, SteppedIs
  <2> QED
    BY <1>1, <1>7, <1>13, <1>14, <1>15, <2>1, <2>4, TenLimbs DEF Bounded, Stepped, Limbed
<1>17. Bounded(D[2], 2 * P + EK, s, 2 * P + K, P, 2 * P, P, 2 * P, P, 2 * P, s)
  <2>1. 1 \in Index /\ 2 \in Index /\ After(1) = 2 /\ Gain(1, K) = K
    BY <1>2, <1>4, <1>14 DEF After, Gain
  <2>2. (K) * WideRadix(1) = P /\ D[1][1] \in Int
    BY <1>7, <1>13, <2>1 DEF Limbed
  <2>3. -((K) * WideRadix(1)) <= D[1][1] /\ D[1][1] <= (K) * WideRadix(1)
    BY <1>1, <1>5, <1>16, <2>2 DEF Bounded
  <2>4. Stepped(D[1], D[2], 1, K)
    BY <1>12, <1>13, <2>1, <2>3, SteppedIs
  <2> QED
    BY <1>1, <1>7, <1>13, <1>14, <1>16, <2>1, <2>4, TenLimbs DEF Bounded, Stepped, Limbed
<1>18. Bounded(D[3], 2 * P + EK, s, 2 * P + K, s, 2 * P + K, P, 2 * P, P, 2 * P, s)
  <2>1. 3 \in Index /\ 4 \in Index /\ After(3) = 4 /\ Gain(3, K) = K
    BY <1>2, <1>4, <1>14 DEF After, Gain
  <2>2. (K) * WideRadix(3) = P /\ D[2][3] \in Int
    BY <1>7, <1>13, <2>1 DEF Limbed
  <2>3. -((K) * WideRadix(3)) <= D[2][3] /\ D[2][3] <= (K) * WideRadix(3)
    BY <1>1, <1>5, <1>17, <2>2 DEF Bounded
  <2>4. Stepped(D[2], D[3], 3, K)
    BY <1>12, <1>13, <2>1, <2>3, SteppedIs
  <2> QED
    BY <1>1, <1>7, <1>13, <1>14, <1>17, <2>1, <2>4, TenLimbs DEF Bounded, Stepped, Limbed
<1>19. Bounded(D[4], 2 * P + EK, s, 2 * P + K, s, 2 * P + K, s, 2 * P + K, P, 2 * P, s)
  <2>1. 5 \in Index /\ 6 \in Index /\ After(5) = 6 /\ Gain(5, K) = K
    BY <1>2, <1>4, <1>14 DEF After, Gain
  <2>2. (K) * WideRadix(5) = P /\ D[3][5] \in Int
    BY <1>7, <1>13, <2>1 DEF Limbed
  <2>3. -((K) * WideRadix(5)) <= D[3][5] /\ D[3][5] <= (K) * WideRadix(5)
    BY <1>1, <1>5, <1>18, <2>2 DEF Bounded
  <2>4. Stepped(D[3], D[4], 5, K)
    BY <1>12, <1>13, <2>1, <2>3, SteppedIs
  <2> QED
    BY <1>1, <1>7, <1>13, <1>14, <1>18, <2>1, <2>4, TenLimbs DEF Bounded, Stepped, Limbed
<1>20. Bounded(D[5], 2 * P + EK, s, 2 * P + K, s, 2 * P + K, s, 2 * P + K, s, 2 * P + K, s)
  <2>1. 7 \in Index /\ 8 \in Index /\ After(7) = 8 /\ Gain(7, K) = K
    BY <1>2, <1>4, <1>14 DEF After, Gain
  <2>2. (K) * WideRadix(7) = P /\ D[4][7] \in Int
    BY <1>7, <1>13, <2>1 DEF Limbed
  <2>3. -((K) * WideRadix(7)) <= D[4][7] /\ D[4][7] <= (K) * WideRadix(7)
    BY <1>1, <1>5, <1>19, <2>2 DEF Bounded
  <2>4. Stepped(D[4], D[5], 7, K)
    BY <1>12, <1>13, <2>1, <2>3, SteppedIs
  <2> QED
    BY <1>1, <1>7, <1>13, <1>14, <1>19, <2>1, <2>4, TenLimbs DEF Bounded, Stepped, Limbed
<1>21. Bounded(D[6], B, s + (K + 1), 2 * P + K, s, 2 * P + K, s, 2 * P + K, s, 2 * P + K, s)
  <2>1. 0 \in Index /\ 1 \in Index /\ After(0) = 1 /\ Gain(0, K + 1) = K + 1
    BY <1>2, <1>4, <1>14 DEF After, Gain
  <2>2. (K + 1) * WideRadix(0) = 2 * P + 2 * B /\ D[5][0] \in Int
    BY <1>7, <1>13, <2>1 DEF Limbed
  <2>3. -((K + 1) * WideRadix(0)) <= D[5][0] /\ D[5][0] <= (K + 1) * WideRadix(0)
    BY <1>1, <1>5, <1>20, <2>2 DEF Bounded
  <2>4. Stepped(D[5], D[6], 0, K + 1)
    BY <1>12, <1>13, <2>1, <2>3, SteppedIs
  <2> QED
    BY <1>1, <1>7, <1>13, <1>14, <1>20, <2>1, <2>4, TenLimbs DEF Bounded, Stepped, Limbed
<1>22. Bounded(D[7], B, s + (K + 1), B, s + (K + 1), 2 * P + K, s, 2 * P + K, s, 2 * P + K, s)
  <2>1. 2 \in Index /\ 3 \in Index /\ After(2) = 3 /\ Gain(2, K + 1) = K + 1
    BY <1>2, <1>4, <1>14 DEF After, Gain
  <2>2. (K + 1) * WideRadix(2) = 2 * P + 2 * B /\ D[6][2] \in Int
    BY <1>7, <1>13, <2>1 DEF Limbed
  <2>3. -((K + 1) * WideRadix(2)) <= D[6][2] /\ D[6][2] <= (K + 1) * WideRadix(2)
    BY <1>1, <1>5, <1>21, <2>2 DEF Bounded
  <2>4. Stepped(D[6], D[7], 2, K + 1)
    BY <1>12, <1>13, <2>1, <2>3, SteppedIs
  <2> QED
    BY <1>1, <1>7, <1>13, <1>14, <1>21, <2>1, <2>4, TenLimbs DEF Bounded, Stepped, Limbed
<1>23. Bounded(D[8], B, s + (K + 1), B, s + (K + 1), B, s + (K + 1), 2 * P + K, s, 2 * P + K, s)
  <2>1. 4 \in Index /\ 5 \in Index /\ After(4) = 5 /\ Gain(4, K + 1) = K + 1
    BY <1>2, <1>4, <1>14 DEF After, Gain
  <2>2. (K + 1) * WideRadix(4) = 2 * P + 2 * B /\ D[7][4] \in Int
    BY <1>7, <1>13, <2>1 DEF Limbed
  <2>3. -((K + 1) * WideRadix(4)) <= D[7][4] /\ D[7][4] <= (K + 1) * WideRadix(4)
    BY <1>1, <1>5, <1>22, <2>2 DEF Bounded
  <2>4. Stepped(D[7], D[8], 4, K + 1)
    BY <1>12, <1>13, <2>1, <2>3, SteppedIs
  <2> QED
    BY <1>1, <1>7, <1>13, <1>14, <1>22, <2>1, <2>4, TenLimbs DEF Bounded, Stepped, Limbed
<1>24. Bounded(D[9], B, s + (K + 1), B, s + (K + 1), B, s + (K + 1), B, s + (K + 1), 2 * P + K, s)
  <2>1. 6 \in Index /\ 7 \in Index /\ After(6) = 7 /\ Gain(6, K + 1) = K + 1
    BY <1>2, <1>4, <1>14 DEF After, Gain
  <2>2. (K + 1) * WideRadix(6) = 2 * P + 2 * B /\ D[8][6] \in Int
    BY <1>7, <1>13, <2>1 DEF Limbed
  <2>3. -((K + 1) * WideRadix(6)) <= D[8][6] /\ D[8][6] <= (K + 1) * WideRadix(6)
    BY <1>1, <1>5, <1>23, <2>2 DEF Bounded
  <2>4. Stepped(D[8], D[9], 6, K + 1)
    BY <1>12, <1>13, <2>1, <2>3, SteppedIs
  <2> QED
    BY <1>1, <1>7, <1>13, <1>14, <1>23, <2>1, <2>4, TenLimbs DEF Bounded, Stepped, Limbed
<1>25. Bounded(D[10], B, s + (K + 1), B, s + (K + 1), B, s + (K + 1), B, s + (K + 1), B, s + (K + 1))
  <2>1. 8 \in Index /\ 9 \in Index /\ After(8) = 9 /\ Gain(8, K + 1) = K + 1
    BY <1>2, <1>4, <1>14 DEF After, Gain
  <2>2. (K + 1) * WideRadix(8) = 2 * P + 2 * B /\ D[9][8] \in Int
    BY <1>7, <1>13, <2>1 DEF Limbed
  <2>3. -((K + 1) * WideRadix(8)) <= D[9][8] /\ D[9][8] <= (K + 1) * WideRadix(8)
    BY <1>1, <1>5, <1>24, <2>2 DEF Bounded
  <2>4. Stepped(D[9], D[10], 8, K + 1)
    BY <1>12, <1>13, <2>1, <2>3, SteppedIs
  <2> QED
    BY <1>1, <1>7, <1>13, <1>14, <1>24, <2>1, <2>4, TenLimbs DEF Bounded, Stepped, Limbed
<1>26. \A k \in 0..9 : -WideRadix(k) <= D[10][k] /\ D[10][k] <= WideRadix(k)
  BY <1>1, <1>5, <1>13, <1>14, <1>25, TenLimbs DEF Bounded, Limbed
<1>27. \A k \in Index : WideRadix(k) \in Int
  BY <1>1, TenLimbs
<1>28. \A k \in Index : -(1 * WideRadix(k)) <= D[10][k] /\ D[10][k] <= 1 * WideRadix(k)
  BY <1>14, <1>26, <1>27
<1> QED
  BY <1>10, <1>13, <1>28 DEF Loose

(* What ten products of limbs add up to, when each element is the sum of three. *)
LEMMA TermBound ==
    ASSUME FieldFits, NEW f, Loose(f, 3), NEW g, Loose(g, 3), NEW i \in Index, NEW j \in Index
    PROVE  /\ -(36 * Excess * (OddRadix * OddRadix)) <= Term(f, g, i, j)
           /\ Term(f, g, i, j) <= 36 * Excess * (OddRadix * OddRadix)
<1>1. PICK B \in Nat : B = OddRadix
  BY LimbsFacts
<1>2. PICK E \in Nat : E = Excess /\ E >= 1
  BY LimbsFacts DEF FieldFits
<1>3. PICK x, y \in Int : x = f[i] /\ y = g[j]
  BY DEF Loose, Limbed
<1>4. PICK r, s \in Nat : r = WideRadix(i) /\ s = WideRadix(j)
  BY <1>1 DEF WideRadix
<1>5. PICK t \in 1..2 : t = (IF i % 2 = 1 /\ j % 2 = 1 THEN 2 ELSE 1)
  OBVIOUS
<1>6. PICK e \in Nat : e = (IF i + j >= Limbs THEN Excess ELSE 1) /\ e <= E
  BY <1>2
<1>7. PICK W \in Nat : W = B * B
  OBVIOUS
<1>8. PICK z, p \in Int : z = x * y /\ p = r * s
  OBVIOUS
<1>9. -(9 * p) <= z /\ z <= 9 * p
  <2>1. -(3 * r) <= x /\ x <= 3 * r /\ -(3 * s) <= y /\ y <= 3 * s /\ 3 * r \in Int /\ 3 * s \in Int
    BY <1>3, <1>4 DEF Loose
  <2>2. -((3 * r) * (3 * s)) <= x * y /\ x * y <= (3 * r) * (3 * s)
    BY <2>1, ProductBound
  <2>3. (3 * r) * (3 * s) = 9 * (r * s)
    OBVIOUS
  <2> QED
    BY <1>8, <2>2, <2>3
<1>10. p * t <= 4 * W /\ p >= 0
  <2>1. r = (IF i % 2 = 0 THEN 2 * B ELSE B) /\ s = (IF j % 2 = 0 THEN 2 * B ELSE B)
    BY <1>1, <1>4 DEF WideRadix
  <2>2. B * B = W /\ (2 * B) * B = 2 * W /\ B * (2 * B) = 2 * W /\ (2 * B) * (2 * B) = 4 * W
    BY <1>7
  <2>3. /\ i % 2 = 0 /\ j % 2 = 0 => p = 4 * W
        /\ i % 2 = 0 /\ j % 2 # 0 => p = 2 * W
        /\ i % 2 # 0 /\ j % 2 = 0 => p = 2 * W
        /\ i % 2 # 0 /\ j % 2 # 0 => p = W
    BY <1>8, <2>1, <2>2
  <2>4. /\ i % 2 = 0 \/ i % 2 = 1
        /\ j % 2 = 0 \/ j % 2 = 1
        /\ i % 2 = 0 => t = 1
        /\ j % 2 = 0 => t = 1
    BY <1>5 DEF Index
  <2> QED
    BY <1>5, <2>3, <2>4
<1>11. PICK v, q \in Int : v = z * t /\ q = p * t
  OBVIOUS
<1>12. -(9 * q) <= v /\ v <= 9 * q
  BY <1>5, <1>9, <1>11
<1>13. -(36 * W) <= v /\ v <= 36 * W
  BY <1>10, <1>11, <1>12
<1>14. PICK l, m \in Int : l = v * e /\ m = W * E
  OBVIOUS
<1>15. -(36 * m) <= l /\ l <= 36 * m
  <2>1. -((36 * W) * E) <= v * e /\ v * e <= (36 * W) * E
    <3>1. -E <= e /\ e <= E /\ 36 * W \in Int
      BY <1>6
    <3> QED
      BY <1>13, <3>1, ProductBound
  <2>2. (36 * W) * E = 36 * m
    BY <1>14
  <2> QED
    BY <1>14, <2>1, <2>2
<1>16. Term(f, g, i, j) = l
  BY <1>3, <1>5, <1>6, <1>8, <1>11, <1>14 DEF Term
<1>17. 36 * Excess * (OddRadix * OddRadix) = 36 * m
  <2>1. 36 * E * W = 36 * (W * E)
    OBVIOUS
  <2> QED
    BY <1>1, <1>2, <1>7, <1>14, <2>1
<1> QED
  BY <1>15, <1>16, <1>17

LEMMA FieldProductBound ==
    ASSUME FieldFits, NEW f, Loose(f, 3), NEW g, Loose(g, 3), NEW k \in Index
    PROVE  /\ -((360 * Excess * OddRadix) * OddRadix) <= Product(f, g)[k]
           /\ Product(f, g)[k] <= (360 * Excess * OddRadix) * OddRadix
<1>1. PICK B, E \in Nat : B = OddRadix /\ E = Excess
  BY LimbsFacts
<1>2. PICK b \in Nat : b = 36 * Excess * (OddRadix * OddRadix)
  BY <1>1
<1>3. (360 * Excess * OddRadix) * OddRadix = 10 * b
  <2>1. (360 * E * B) * B = 10 * (36 * E * (B * B))
    OBVIOUS
  <2> QED
    BY <1>1, <1>2, <2>1
<1>4. f \in Limbed /\ g \in Limbed
  BY DEF Loose
<1> DEFINE c == FieldColumn(f, g, k)
<1>5. \A i \in 0..10 - 1 : c[i] \in Int /\ -b <= c[i] /\ c[i] <= b
  <2>1. ASSUME NEW i \in Index PROVE c[i] \in Int /\ -b <= c[i] /\ c[i] <= b
    <3>1. Around(k - i) \in Index
      BY AroundIs
    <3>2. c[i] = Term(f, g, i, Around(k - i)) /\ c[i] \in Int
      BY <1>4, FieldColumnIs
    <3> HIDE DEF c
    <3> QED
      BY <1>2, <3>1, <3>2, TermBound
  <2> HIDE DEF c
  <2> QED
    BY <2>1, TenLimbs
<1> HIDE DEF c
<1>6. -(10 * b) <= SumTo(c, 10) /\ SumTo(c, 10) <= 10 * b
  BY <1>5, SumBound
<1>7. Product(f, g)[k] = SumTo(c, 10)
  BY TenLimbs DEF Product, FieldColumn, c
<1> QED
  BY <1>3, <1>6, <1>7

(* The carries bring every product back to one width. *)
LEMMA MulBounds ==
    ASSUME FieldFits, NEW f, Loose(f, 3), NEW g, Loose(g, 3)
    PROVE  Loose(Mul(f, g), 1) /\ Loose(Sq(f), 1) /\ Loose(Sq2(f), 1)
<1>1. PICK B, E \in Nat : B = OddRadix /\ E = Excess
  BY LimbsFacts
<1>2. PICK b \in Nat : b = (360 * Excess * OddRadix) * OddRadix
  BY <1>1
<1>3. (720 * Excess * OddRadix) * OddRadix = 2 * b
  <2>1. (720 * E * B) * B = 2 * ((360 * E * B) * B)
    OBVIOUS
  <2> QED
    BY <1>1, <1>2, <2>1
<1>4. f \in Limbed /\ g \in Limbed
  BY DEF Loose
<1>5. Product(f, g) \in Limbed /\ Product(f, f) \in Limbed
  BY <1>4, FieldProductIs
<1> DEFINE d == [k \in Index |-> 2 * Square(f)[k]]
<1>6. \A k \in Index : Product(f, g)[k] \in Int /\ -b <= Product(f, g)[k] /\ Product(f, g)[k] <= b
  BY <1>2, <1>5, FieldProductBound DEF Limbed
<1>7. \A k \in Index : Product(f, f)[k] \in Int /\ -b <= Product(f, f)[k] /\ Product(f, f)[k] <= b
  BY <1>2, <1>5, FieldProductBound DEF Limbed
<1>8. d \in Limbed /\ \A k \in Index : d[k] = 2 * Product(f, f)[k]
  <2>1. Square(f) = Product(f, f)
    BY <1>4, FieldSquareIs
  <2>2. \A k \in Index : d[k] = 2 * Product(f, f)[k]
    BY <2>1
  <2>3. \A k \in Index : 2 * Square(f)[k] \in Int
    BY <1>7, <2>1
  <2> QED
    BY <2>2, <2>3 DEF Limbed
<1> HIDE DEF d
<1>9. Loose(CarryProduct(Product(f, g)), 1)
  <2>1. \A k \in Index : -((720 * Excess * OddRadix) * OddRadix) <= Product(f, g)[k]
                         /\ Product(f, g)[k] <= (720 * Excess * OddRadix) * OddRadix
    BY <1>3, <1>6
  <2> QED
    BY <1>5, <2>1, ProductCarried
<1>10. Loose(CarryProduct(Product(f, f)), 1)
  <2>1. \A k \in Index : -((720 * Excess * OddRadix) * OddRadix) <= Product(f, f)[k]
                         /\ Product(f, f)[k] <= (720 * Excess * OddRadix) * OddRadix
    BY <1>3, <1>7
  <2> QED
    BY <1>5, <2>1, ProductCarried
<1>11. Loose(CarryProduct(d), 1)
  <2>1. \A k \in Index : -((720 * Excess * OddRadix) * OddRadix) <= d[k]
                         /\ d[k] <= (720 * Excess * OddRadix) * OddRadix
    BY <1>3, <1>7, <1>8
  <2> QED
    BY <1>8, <2>1, ProductCarried
<1>12. Square(f) = Product(f, f)
  BY <1>4, FieldSquareIs
<1> QED
  BY <1>9, <1>10, <1>11, <1>12 DEF Mul, Sq, Sq2, d

(* fe_mul121666, of the sum of two. *)
LEMMA MulFactorBounds ==
    ASSUME FieldFits, NEW f, Loose(f, 2)
    PROVE  Loose(MulFactor(f), 1)
<1>1. PICK F \in Nat : F = Factor
  BY LimbsFacts
<1>2. f \in Limbed /\ \A k \in Index : f[k] \in Int
  BY DEF Loose, Limbed
<1> DEFINE d == [k \in Index |-> f[k] * Factor]
<1>3. d \in Limbed /\ \A k \in Index : d[k] = f[k] * F
  BY <1>1, <1>2 DEF Limbed
<1> HIDE DEF d
<1>4. ASSUME NEW k \in Index
      PROVE  -((2 * Factor + 128) * WideRadix(k)) <= d[k] /\ d[k] <= (2 * Factor + 128) * WideRadix(k)
  <2>1. PICK r \in Nat : r = WideRadix(k)
    BY LimbsFacts DEF WideRadix
  <2>2. PICK x \in Int : x = f[k] /\ -(2 * r) <= x /\ x <= 2 * r
    BY <1>2, <2>1 DEF Loose
  <2>3. PICK p \in Nat : p = r * F
    OBVIOUS
  <2>4. (2 * F + 128) * r = 2 * p + 128 * r
    BY <2>3
  <2>5. -(2 * p) <= x * F /\ x * F <= 2 * p
    <3>1. -((2 * r) * F) <= x * F /\ x * F <= (2 * r) * F
      <4>1. -F <= F /\ F <= F /\ 2 * r \in Int /\ F \in Int
        OBVIOUS
      <4> QED
        BY <2>2, <4>1, ProductBound
    <3>2. (2 * r) * F = 2 * p
      BY <2>3
    <3> QED
      BY <3>1, <3>2
  <2>6. PICK y \in Int : y = x * F
    OBVIOUS
  <2>7. d[k] = y
    BY <1>3, <2>2, <2>6
  <2> QED
    BY <1>1, <2>1, <2>4, <2>5, <2>6, <2>7
<1>5. Loose(d, 2 * Factor + 128)
  BY <1>3, <1>4 DEF Loose
<1> QED
  BY <1>5, OddCarried DEF MulFactor, d

-----------------------------------------------------------------------------
(* The operations, as numbers. *)
LEMMA ProductsAre ==
    ASSUME NEW f \in Limbed, NEW g \in Limbed
    PROVE  /\ Mul(f, g) \in Limbed /\ Same(FieldValue(Mul(f, g)), FieldValue(f) * FieldValue(g))
           /\ Sq(f) \in Limbed /\ Same(FieldValue(Sq(f)), FieldValue(f) * FieldValue(f))
           /\ Sq2(f) \in Limbed /\ Same(FieldValue(Sq2(f)), 2 * (FieldValue(f) * FieldValue(f)))
           /\ MulFactor(f) \in Limbed /\ Same(FieldValue(MulFactor(f)), FieldValue(f) * Factor)
<1>0. /\ ProductOrder \in [1..Limbs + 2 -> Index] /\ Limbs + 2 \in Nat
      /\ OddFirst \in [1..Limbs -> Index] /\ Limbs \in Nat
  BY OrdersAre
<1>1. PICK x, y \in Int : x = FieldValue(f) /\ y = FieldValue(g)
  BY FieldValueType
<1>2. /\ Product(f, g) \in Limbed /\ Same(FieldValue(Product(f, g)), x * y)
      /\ Product(f, f) \in Limbed /\ Same(FieldValue(Product(f, f)), x * x)
  BY <1>1, FieldProductIs
<1>3. ASSUME NEW h \in Limbed, NEW z \in Int, Same(FieldValue(h), z)
      PROVE  CarryProduct(h) \in Limbed /\ Same(FieldValue(CarryProduct(h)), z)
  <2>1. CarryProduct(h) \in Limbed /\ Same(FieldValue(CarryProduct(h)), FieldValue(h))
    BY <1>0, CarryAllIs DEF CarryProduct
  <2> QED
    BY <1>3, <2>1, FieldValueType, SameThrough
<1>4. PICK a, b \in Int : a = x * y /\ b = x * x
  OBVIOUS
<1>5. Mul(f, g) \in Limbed /\ Same(FieldValue(Mul(f, g)), a)
  BY <1>2, <1>3, <1>4 DEF Mul
<1>6. Square(f) = Product(f, f)
  BY FieldSquareIs
<1>7. Sq(f) \in Limbed /\ Same(FieldValue(Sq(f)), b)
  BY <1>2, <1>3, <1>4, <1>6 DEF Sq
<1> DEFINE d == [k \in Index |-> 2 * Square(f)[k]]
           m == [k \in Index |-> f[k] * Factor]
<1>8. d \in Limbed /\ \A k \in Index : d[k] = 2 * Product(f, f)[k]
  <2>1. \A k \in Index : d[k] = 2 * Product(f, f)[k]
    BY <1>6
  <2>2. \A k \in Index : 2 * Square(f)[k] \in Int
    BY <1>2, <1>6 DEF Limbed
  <2> QED
    BY <2>1, <2>2 DEF Limbed
<1>9. m \in Limbed /\ \A k \in Index : m[k] = Factor * f[k]
  <2>1. PICK F \in Int : F = Factor
    BY LimbsFacts
  <2>2. \A k \in Index : f[k] * F \in Int /\ f[k] * F = F * f[k]
    BY DEF Limbed
  <2> QED
    BY <2>1, <2>2 DEF Limbed
<1> HIDE DEF d, m
<1>10. Same(FieldValue(d), 2 * b)
  <2>1. FieldValue(d) = 2 * FieldValue(Product(f, f))
    <3>1. 2 \in Int
      OBVIOUS
    <3> QED
      BY <1>2, <1>8, <3>1, FieldTimes
  <2>2. PICK z \in Int : z = FieldValue(Product(f, f))
    BY <1>2, FieldValueType
  <2>3. Same(z, b)
    BY <1>2, <1>4, <2>2
  <2>4. Same(z * 2, b * 2)
    BY <2>3, SameTimes
  <2>5. z * 2 = 2 * z /\ b * 2 = 2 * b
    OBVIOUS
  <2> QED
    BY <2>1, <2>2, <2>4, <2>5
<1>11. Sq2(f) \in Limbed /\ Same(FieldValue(Sq2(f)), 2 * b)
  <2>1. 2 * b \in Int
    OBVIOUS
  <2> QED
    BY <1>3, <1>8, <1>10, <2>1 DEF Sq2, d
<1>12. MulFactor(f) \in Limbed /\ Same(FieldValue(MulFactor(f)), x * Factor)
  <2>1. Factor \in Int
    BY LimbsFacts
  <2>2. FieldValue(m) = x * Factor
    <3>1. FieldValue(m) = Factor * x
      BY <1>1, <1>9, <2>1, FieldTimes
    <3>2. PICK F \in Int : F = Factor
      BY <2>1
    <3> QED
      BY <3>1, <3>2
  <2>3. CarryAll(m, OddFirst, Limbs) \in Limbed
        /\ Same(FieldValue(CarryAll(m, OddFirst, Limbs)), FieldValue(m))
    BY <1>0, <1>9, CarryAllIs
  <2> QED
    BY <2>2, <2>3 DEF MulFactor, m
<1> QED
  BY <1>1, <1>4, <1>5, <1>7, <1>11, <1>12

LEMMA SumsAre ==
    ASSUME NEW f, NEW g, NEW d \in Nat, Loose(f, d), Loose(g, 1)
    PROVE  /\ Loose(Add(f, g), d + 1) /\ FieldValue(Add(f, g)) = FieldValue(f) + FieldValue(g)
           /\ Loose(Sub(f, g), d + 1) /\ FieldValue(Sub(f, g)) = FieldValue(f) - FieldValue(g)
           /\ Loose(Neg(f), d) /\ FieldValue(Neg(f)) = -FieldValue(f)
<1>1. f \in Limbed /\ g \in Limbed /\ \A k \in Index : f[k] \in Int /\ g[k] \in Int
  BY DEF Loose, Limbed
<1>2. Add(f, g) \in Limbed /\ \A k \in Index : Add(f, g)[k] = f[k] + g[k]
  BY <1>1 DEF Limbed, Add
<1>3. Sub(f, g) \in Limbed /\ \A k \in Index : Sub(f, g)[k] = f[k] - g[k]
  BY <1>1 DEF Limbed, Sub
<1>4. Neg(f) \in Limbed /\ \A k \in Index : Neg(f)[k] = -f[k]
  BY <1>1 DEF Limbed, Neg
<1>5. Neg(g) \in Limbed /\ \A k \in Index : Neg(g)[k] = -g[k]
  BY <1>1 DEF Limbed, Neg
<1>6. ASSUME NEW k \in Index
      PROVE  /\ -((d + 1) * WideRadix(k)) <= Add(f, g)[k] /\ Add(f, g)[k] <= (d + 1) * WideRadix(k)
             /\ -((d + 1) * WideRadix(k)) <= Sub(f, g)[k] /\ Sub(f, g)[k] <= (d + 1) * WideRadix(k)
             /\ -(d * WideRadix(k)) <= Neg(f)[k] /\ Neg(f)[k] <= d * WideRadix(k)
  <2>1. PICK r \in Nat : r = WideRadix(k)
    BY LimbsFacts DEF WideRadix
  <2>2. PICK p \in Nat : p = d * r
    OBVIOUS
  <2>3. (d + 1) * r = p + r /\ 1 * r = r
    BY <2>2
  <2>4. -p <= f[k] /\ f[k] <= p /\ -(1 * r) <= g[k] /\ g[k] <= 1 * r
    BY <2>1, <2>2 DEF Loose
  <2> QED
    BY <1>1, <1>2, <1>3, <1>4, <2>1, <2>2, <2>3, <2>4
<1>7. FieldValue(Add(f, g)) = FieldValue(f) + FieldValue(g)
  BY <1>1, <1>2, FieldPlus
<1>8. PICK x, y \in Int : x = FieldValue(f) /\ y = FieldValue(g)
  BY <1>1, FieldValueType
<1>9. -1 \in Int /\ \A k \in Index : Neg(f)[k] = (-1) * f[k] /\ Neg(g)[k] = (-1) * g[k]
  BY <1>1, <1>4, <1>5
<1>10. FieldValue(Neg(f)) = (-1) * x /\ FieldValue(Neg(g)) = (-1) * y
  BY <1>1, <1>8, <1>9, FieldTimes
<1>11. FieldValue(Neg(f)) = -x /\ FieldValue(Neg(g)) = -y
  BY <1>10
<1>12. \A k \in Index : Sub(f, g)[k] = f[k] + Neg(g)[k]
  BY <1>1, <1>3, <1>5
<1>13. FieldValue(Sub(f, g)) = x + (-y)
  BY <1>1, <1>5, <1>8, <1>11, <1>12, FieldPlus
<1>14. FieldValue(Sub(f, g)) = x - y
  BY <1>13
<1> QED
  BY <1>2, <1>3, <1>4, <1>6, <1>7, <1>8, <1>11, <1>14 DEF Loose

LEMMA ExactQuotient ==
    ASSUME NEW l \in Nat, NEW w \in Nat, w > 0, l % w = 0
    PROVE  \E d \in Nat : d = l \div w /\ l = w * d /\ (l > 0 => d > 0)
<1>1. PICK d \in Int : d = l \div w /\ l = w * d
  <2>1. l \div w \in Int /\ l = w * (l \div w) + (l % w)
    BY RemainderIs
  <2>2. PICK d \in Int : d = l \div w
    BY <2>1
  <2>3. PICK p \in Int : p = w * d
    OBVIOUS
  <2>4. l = p + 0
    BY <2>1, <2>2, <2>3
  <2> QED
    BY <2>2, <2>3, <2>4
<1>2. d < 0 => w * d < 0
  OBVIOUS
<1>3. d = 0 => w * d = 0
  OBVIOUS
<1> QED
  BY <1>1, <1>2, <1>3

(* fe_frombytes: no bit is lost but the top one, and none is read twice. *)
LEMMA SplitRemainder ==
    ASSUME NEW s \in Nat, NEW l \in Nat, l > 0, NEW m \in Nat, m > 0, m % l = 0
    PROVE  /\ s % m = (s % l) + ((s \div l) % (m \div l)) * l
           /\ ((s \div l) % (m \div l)) * l \in 0..m - 1
<1>1. PICK d \in Nat : d = m \div l /\ m = l * d /\ d > 0
  BY ExactQuotient
<1>2. d \in Nat /\ d > 0
  BY <1>1
<1>3. PICK a \in Int, b \in 0..l - 1 : a = s \div l /\ b = s % l /\ s = l * a + b
  BY RemainderIs
<1>4. PICK q \in Int, r \in 0..d - 1 : r = a % d /\ a = d * q + r
  BY <1>2, RemainderIs
<1>5. PICK z \in Int : z = r * l
  OBVIOUS
<1>6. 0 <= z /\ z <= m - l
  <2>1. 0 <= r * l
    BY <1>2
  <2>2. (d - 1 - r) * l >= 0
    BY <1>2
  <2>3. (d - 1 - r) * l = l * d - l - r * l
    BY <1>2
  <2> QED
    BY <1>1, <1>5, <2>1, <2>2, <2>3
<1>7. s = m * q + (z + b)
  <2>1. l * (d * q + r) = (l * d) * q + r * l
    BY <1>2
  <2>2. PICK p \in Int : p = m * q
    OBVIOUS
  <2>3. (l * d) * q = p
    BY <1>1, <2>2
  <2>4. l * a = p + z
    BY <1>4, <1>5, <2>1, <2>3
  <2> QED
    BY <1>3, <2>2, <2>4
<1>8. z + b \in 0..m - 1
  BY <1>6
<1>9. s % m = z + b
  BY <1>7, <1>8, RemainderUnique
<1>10. z \in 0..m - 1
  BY <1>6
<1>11. ((s \div l) % (m \div l)) * l = z
  BY <1>1, <1>3, <1>4, <1>5
<1> QED
  BY <1>3, <1>9, <1>10, <1>11

(* Where the bytes of limb n begin, or end. *)
LoadsAt(n) == IF n = Limbs THEN AllWeight ELSE Loads[n]

LEMMA LoadsAtIs ==
    /\ \A n \in 0..Limbs : LoadsAt(n) \in Nat /\ LoadsAt(n) > 0
    /\ LoadsAt(0) = 1
    /\ \A i \in Index : /\ LoadsAt(i) = Loads[i] /\ LoadsAt(i + 1) = LoadsEnd(i)
                         /\ LoadsAt(i + 1) % LoadsAt(i) = 0 /\ LoadsAt(i) % Weight(i) = 0
<1>0. Limbs \in Nat /\ Limbs >= 4 /\ Limbs \in 0..Limbs
  BY LimbsFacts
<1>1. /\ Loads \in [Index -> Nat \ {0}] /\ Loads[0] = 1
      /\ \A i \in Index : LoadsEnd(i) % Loads[i] = 0 /\ Loads[i] % Weight(i) = 0
  BY FeLimbsAssumption
<1>2. \A n \in 0..Limbs : n # Limbs => n \in Index
  BY <1>0 DEF Index
<1>3. AllWeight \in Nat /\ AllWeight > 0
  BY <1>0, WeightIs DEF AllWeight, Positive
<1>4. \A n \in 0..Limbs : LoadsAt(n) \in Nat /\ LoadsAt(n) > 0
  BY <1>1, <1>2, <1>3 DEF LoadsAt
<1>5. LoadsAt(0) = 1
  BY <1>0, <1>1 DEF LoadsAt
<1>6. \A i \in Index : LoadsAt(i) = Loads[i] /\ LoadsAt(i + 1) = LoadsEnd(i)
  <2>1. \A i \in Index : i # Limbs /\ (i + 1 = Limbs <=> i = Limbs - 1)
    BY <1>0 DEF Index
  <2> QED
    BY <2>1 DEF LoadsAt, LoadsEnd
<1> QED
  BY <1>1, <1>4, <1>5, <1>6

Raw(s) == [i \in Index |-> ((s \div Loads[i]) % (LoadsEnd(i) \div Loads[i])) * (Loads[i] \div Weight(i))]

LEMMA RawIs ==
    ASSUME NEW s \in Nat, NEW i \in Index
    PROVE  /\ Raw(s)[i] \in Nat /\ Raw(s)[i] * Weight(i) <= LoadsEnd(i)
           /\ s % LoadsAt(i + 1) = (s % LoadsAt(i)) + Raw(s)[i] * Weight(i)
<1>1. Limbs \in Nat /\ i \in Nat /\ i \in 0..Limbs /\ i + 1 \in 0..Limbs
  BY LimbsFacts DEF Index
<1>2. PICK l, m \in Nat : l = LoadsAt(i) /\ m = LoadsAt(i + 1) /\ l > 0 /\ m > 0
  BY <1>1, LoadsAtIs
<1>3. PICK w \in Nat : w = Weight(i) /\ w > 0
  BY <1>1, WeightIs DEF Positive
<1>4. l = Loads[i] /\ m = LoadsEnd(i) /\ m % l = 0 /\ l % w = 0
  BY <1>2, <1>3, LoadsAtIs
<1>5. PICK d \in Nat : d = l \div w /\ l = w * d
  BY <1>3, <1>4, ExactQuotient
<1>6. PICK c \in Nat : c = (s \div l) % (m \div l)
  <2>1. PICK a \in Int : a = s \div l
    BY <1>2, RemainderIs
  <2>3. PICK n \in Nat : n = m \div l /\ n > 0
    BY <1>2, <1>4, ExactQuotient
  <2>4. PICK c \in 0..n - 1 : c = a % n
    BY <2>3, RemainderIs
  <2>5. c \in Nat
    BY <2>3, <2>4
  <2>6. c = (s \div l) % (m \div l)
    BY <2>1, <2>3, <2>4, Zenon
  <2> QED
    BY <2>5, <2>6
<1>7. s % m = (s % l) + c * l /\ c * l \in 0..m - 1
  <2>1. /\ s % m = (s % l) + ((s \div l) % (m \div l)) * l
        /\ ((s \div l) % (m \div l)) * l \in 0..m - 1
    <3>1. m % l = 0 /\ l > 0 /\ m > 0
      BY <1>2, <1>4
    <3> QED
      BY <3>1, SplitRemainder, Zenon
  <2> QED
    BY <1>6, <2>1, Zenon
<1>8. Raw(s)[i] = c * d
  BY <1>3, <1>4, <1>5, <1>6 DEF Raw
<1>9. (c * d) * w = c * l /\ c * d \in Nat
  <2>1. (c * d) * w = c * (w * d) /\ c * d \in Nat
    OBVIOUS
  <2>2. w * d = l
    BY <1>5
  <2> QED
    BY <2>1, <2>2
<1>10. Raw(s)[i] \in Nat /\ Raw(s)[i] * Weight(i) = c * l
  BY <1>3, <1>8, <1>9
<1>11. c * l <= m
  BY <1>7
<1> QED
  BY <1>2, <1>4, <1>7, <1>10, <1>11

LEMMA FromBytesIs ==
    ASSUME NEW s \in Nat
    PROVE  /\ FromBytes(s) \in Limbed /\ Same(FieldValue(FromBytes(s)), s % AllWeight)
           /\ FieldFits => Loose(FromBytes(s), 1)
<1>0. /\ OddFirst \in [1..Limbs -> Index] /\ Limbs \in Nat /\ Limbs \in 0..Limbs
      /\ FromBytes(s) = CarryAll(Raw(s), OddFirst, Limbs)
  BY OrdersAre DEF FromBytes, Raw
<1>1. Raw(s) \in Limbed
  <2>1. \A i \in Index : Raw(s)[i] \in Int
    BY RawIs
  <2>2. Raw(s) = [i \in Index |-> Raw(s)[i]]
    BY DEF Raw
  <2> QED
    BY <2>1, <2>2 DEF Limbed
<1> DEFINE A == {n \in Nat : n <= Limbs => FieldTo(Raw(s), n) = s % LoadsAt(n)}
<1>2. 0 \in A
  <2>1. 0 \in 0..1 - 1 /\ s = 1 * s + 0 /\ 1 \in Nat /\ 1 > 0
    OBVIOUS
  <2>2. s % 1 = 0
    BY <2>1, RemainderUnique
  <2> QED
    BY <1>1, <2>2, FieldToIs, LoadsAtIs
<1>3. ASSUME NEW n \in Nat, n \in A PROVE n + 1 \in A
  <2>1. SUFFICES ASSUME n + 1 <= Limbs PROVE FieldTo(Raw(s), n + 1) = s % LoadsAt(n + 1)
    OBVIOUS
  <2>2. n \in Index /\ n <= Limbs
    BY <1>0, <2>1 DEF Index
  <2>3. FieldTo(Raw(s), n + 1) = FieldTo(Raw(s), n) + Raw(s)[n] * Weight(n)
    BY <1>1, <2>2, FieldToIs
  <2>4. FieldTo(Raw(s), n) = s % LoadsAt(n)
    BY <1>3, <2>2
  <2>5. s % LoadsAt(n + 1) = (s % LoadsAt(n)) + Raw(s)[n] * Weight(n)
    BY <2>2, RawIs
  <2> QED
    BY <2>3, <2>4, <2>5
<1> HIDE DEF A
<1>4. FieldValue(Raw(s)) = s % AllWeight
  <2>1. Limbs \in A
    BY <1>0, <1>2, <1>3, SetInduction
  <2>2. FieldTo(Raw(s), Limbs) = s % LoadsAt(Limbs)
    BY <1>0, <2>1 DEF A
  <2>3. LoadsAt(Limbs) = AllWeight
    BY DEF LoadsAt
  <2> QED
    BY <1>1, <2>2, <2>3, FieldToIs
<1>5. FromBytes(s) \in Limbed /\ Same(FieldValue(FromBytes(s)), s % AllWeight)
  BY <1>0, <1>1, <1>4, CarryAllIs
<1>6. ASSUME FieldFits PROVE Loose(FromBytes(s), 1)
  <2>1. ASSUME NEW i \in Index
        PROVE  -((2 * Factor + 128) * WideRadix(i)) <= Raw(s)[i]
               /\ Raw(s)[i] <= (2 * Factor + 128) * WideRadix(i)
    <3>1. i \in 0..Limbs /\ i \in Nat
      BY <1>0 DEF Index
    <3>2. PICK w \in Nat : w = Weight(i) /\ w > 0
      BY <3>1, WeightIs DEF Positive
    <3>3. PICK r \in Nat : r = WideRadix(i)
      BY LimbsFacts DEF WideRadix
    <3>4. PICK c \in Nat : c = Raw(s)[i]
      BY RawIs
    <3>5. c * w <= LoadsEnd(i)
      BY <3>2, <3>4, RawIs
    <3>6. LoadsEnd(i) <= (128 * r) * w
      BY <1>6, <3>2, <3>3 DEF FieldFits
    <3>7. LoadsEnd(i) \in Nat
      <4>1. i + 1 \in 0..Limbs
        BY <1>0 DEF Index
      <4> QED
        BY <4>1, LoadsAtIs
    <3>8. c * w <= (128 * r) * w
      BY <3>5, <3>6, <3>7
    <3>9. c <= 128 * r
      <4>1. SUFFICES ASSUME c >= 128 * r + 1 PROVE FALSE
        OBVIOUS
      <4>2. c * w >= (128 * r + 1) * w
        BY <3>2, <4>1
      <4>3. (128 * r + 1) * w = (128 * r) * w + w
        OBVIOUS
      <4>4. PICK p \in Nat : p = (128 * r) * w
        OBVIOUS
      <4> QED
        BY <3>2, <3>8, <4>2, <4>3, <4>4
    <3>10. PICK F \in Nat : F = Factor
      BY LimbsFacts
    <3>11. PICK q \in Nat : q = F * r
      OBVIOUS
    <3>12. (2 * F + 128) * r = 2 * q + 128 * r
      BY <3>11
    <3> QED
      BY <3>3, <3>4, <3>9, <3>10, <3>12
  <2>2. Loose(Raw(s), 2 * Factor + 128)
    BY <1>1, <2>1 DEF Loose
  <2> QED
    BY <1>0, <1>6, <2>2, OddCarried
<1> QED
  BY <1>5, <1>6

-----------------------------------------------------------------------------
(* fe_tobytes: r goes into limb 0, and what a limb cannot hold goes on. *)
FloorsBody(f, r, C) ==
    [i \in 0..Limbs |-> IF i = 0 THEN r ELSE (f[i - 1] + C[i - 1]) \div FieldRadix[i - 1]]
Floors(f, r) == CHOOSE C : C = FloorsBody(f, r, C)
Kept(f, r) == [i \in Index |-> (f[i] + Floors(f, r)[i]) % FieldRadix[i]]

LEMMA FloorsIs ==
    ASSUME NEW f \in Limbed, NEW r \in Int
    PROVE  /\ Floors(f, r) \in [0..Limbs -> Int] /\ Floors(f, r)[0] = r
           /\ \A i \in Index : Floors(f, r)[i + 1] = (f[i] + Floors(f, r)[i]) \div FieldRadix[i]
<1>0. Limbs \in Nat
  BY LimbsFacts
<1> DEFINE n == Limbs
           h == [p \in Int \X (1..n) |-> (f[p[2] - 1] + p[1]) \div FieldRadix[p[2] - 1]]
           G == Floors(f, r)
<1>a. ASSUME NEW x \in Int, NEW i \in Index PROVE (f[i] + x) \div FieldRadix[i] \in Int
  <2>1. f[i] + x \in Int
    BY DEF Limbed
  <2>2. FieldRadix[i] \in Nat /\ FieldRadix[i] > 0
    <3>1. i \in Nat
      BY <1>0 DEF Index
    <3> QED
      BY <3>1, FieldRadixIs DEF Positive
  <2> QED
    BY <2>1, <2>2, RemainderIs
<1>1. h \in [Int \X (1..n) -> Int]
  <2>1. ASSUME NEW p \in Int \X (1..n) PROVE (f[p[2] - 1] + p[1]) \div FieldRadix[p[2] - 1] \in Int
    <3>1. p[1] \in Int /\ p[2] - 1 \in Index
      BY <1>0 DEF Index
    <3> QED
      BY <1>a, <3>1
  <2> QED
    BY <2>1
<1>2. \A x \in Int, j \in 1..n : h[<<x, j>>] = (f[j - 1] + x) \div FieldRadix[j - 1]
  OBVIOUS
<1> HIDE DEF h
<1>3. PICK g : Follows(g, Int, n, r, h)
  BY <1>0, <1>1, Recursion
<1>4. g \in [0..n -> Int] /\ g[0] = r /\ \A j \in 1..n : g[j] = h[<<g[j - 1], j>>]
  BY <1>3 DEF Follows
<1>5. g = FloorsBody(f, r, g)
  <2>1. ASSUME NEW j \in 0..n
        PROVE  g[j] = IF j = 0 THEN r ELSE (f[j - 1] + g[j - 1]) \div FieldRadix[j - 1]
    <3>1. CASE j = 0
      BY <1>4, <3>1
    <3>2. CASE j # 0
      <4>1. g[j - 1] \in Int /\ j \in 1..n
        BY <1>0, <1>4, <3>2
      <4>2. g[j] = h[<<g[j - 1], j>>]
        BY <1>4, <4>1
      <4>3. h[<<g[j - 1], j>>] = (f[j - 1] + g[j - 1]) \div FieldRadix[j - 1]
        BY <1>2, <4>1
      <4> QED
        BY <3>2, <4>2, <4>3
    <3> QED
      BY <3>1, <3>2
  <2>2. DOMAIN g = 0..n /\ g = [j \in DOMAIN g |-> g[j]]
    BY <1>4
  <2> QED
    BY <2>1, <2>2 DEF FloorsBody
<1>6. G = FloorsBody(f, r, G)
  BY <1>5 DEF Floors
<1> HIDE DEF G
<1>7. G = [i \in 0..n |-> IF i = 0 THEN r ELSE (f[i - 1] + G[i - 1]) \div FieldRadix[i - 1]]
  BY <1>6 DEF FloorsBody
<1>8. \A i \in 0..n : G[i] = IF i = 0 THEN r ELSE (f[i - 1] + G[i - 1]) \div FieldRadix[i - 1]
  BY <1>7
<1>9. G[0] = r /\ \A i \in Index : G[i + 1] = (f[i] + G[i]) \div FieldRadix[i]
  <2>1. 0 \in 0..n
    BY <1>0
  <2>2. ASSUME NEW i \in Index PROVE G[i + 1] = (f[i] + G[i]) \div FieldRadix[i]
    <3>1. i + 1 \in 0..n /\ i + 1 # 0 /\ (i + 1) - 1 = i
      BY <1>0 DEF Index
    <3> QED
      BY <1>8, <3>1
  <2> QED
    BY <1>8, <2>1, <2>2
<1>10. \A i \in 0..n : G[i] \in Int
  <2> DEFINE A == {m \in Nat : m <= n => G[m] \in Int}
  <2>1. 0 \in A
    BY <1>9
  <2>2. ASSUME NEW m \in Nat, m \in A PROVE m + 1 \in A
    <3>1. SUFFICES ASSUME m + 1 <= n PROVE G[m + 1] \in Int
      OBVIOUS
    <3>2. m \in Index /\ m <= n
      BY <1>0, <3>1 DEF Index
    <3>3. G[m] \in Int
      BY <2>2, <3>2
    <3> QED
      BY <1>9, <1>a, <3>2, <3>3
  <2> HIDE DEF A
  <2>3. \A m \in Nat : m \in A
    BY <2>1, <2>2, SetInduction
  <2> QED
    BY <1>0, <2>3 DEF A
<1>11. G \in [0..n -> Int]
  BY <1>7, <1>10
<1> QED
  BY <1>9, <1>11 DEF G

(* What goes on, and what is kept. *)
LEMMA FloorsKeep ==
    ASSUME NEW f \in Limbed, NEW r \in Int
    PROVE  /\ Floors(f, r)[Limbs] \in Int
           /\ FieldValue(Kept(f, r)) \in 0..AllWeight - 1
           /\ r + FieldValue(f) = AllWeight * Floors(f, r)[Limbs] + FieldValue(Kept(f, r))
<1>0. Limbs \in Nat /\ Limbs \in 0..Limbs
  BY LimbsFacts
<1> DEFINE C == Floors(f, r)
           D == Kept(f, r)
<1>1. /\ C \in [0..Limbs -> Int] /\ C[0] = r
      /\ \A i \in Index : C[i + 1] = (f[i] + C[i]) \div FieldRadix[i]
  BY FloorsIs
<1>2. \A i \in Index : D[i] = (f[i] + C[i]) % FieldRadix[i]
  BY DEF Kept
<1> HIDE DEF C, D
<1>3. ASSUME NEW i \in Index
      PROVE  /\ D[i] \in 0..FieldRadix[i] - 1 /\ D[i] \in Int
             /\ f[i] + C[i] = FieldRadix[i] * C[i + 1] + D[i]
  <2>1. i \in Nat /\ i \in 0..Limbs
    BY <1>0 DEF Index
  <2>2. PICK m \in Nat : m = FieldRadix[i] /\ m > 0
    BY <2>1, FieldRadixIs DEF Positive
  <2>3. PICK x \in Int : x = f[i] + C[i]
    BY <1>1, <2>1 DEF Limbed
  <2>4. x \div m \in Int /\ x % m \in 0..m - 1 /\ x = m * (x \div m) + (x % m)
    BY <2>2, RemainderIs
  <2>5. C[i + 1] = x \div m /\ D[i] = x % m
    BY <1>1, <1>2, <2>2, <2>3
  <2> QED
    BY <2>2, <2>3, <2>4, <2>5
<1>4. D \in Limbed
  <2>1. D = [i \in Index |-> D[i]]
    BY DEF D, Kept
  <2> QED
    BY <1>3, <2>1 DEF Limbed
<1> DEFINE A == {n \in Nat : n <= Limbs => r + FieldTo(f, n) = Weight(n) * C[n] + FieldTo(D, n)}
<1>5. 0 \in A
  <2>1. FieldTo(f, 0) = 0 /\ FieldTo(D, 0) = 0 /\ Weight(0) = 1
    BY <1>4, FieldToIs, WeightIs
  <2> QED
    BY <1>1, <2>1
<1>6. ASSUME NEW n \in Nat, n \in A PROVE n + 1 \in A
  <2>1. SUFFICES ASSUME n + 1 <= Limbs
                 PROVE  r + FieldTo(f, n + 1) = Weight(n + 1) * C[n + 1] + FieldTo(D, n + 1)
    OBVIOUS
  <2>2. n \in Index /\ n \in 0..Limbs /\ n + 1 \in 0..Limbs /\ n <= Limbs
    BY <1>0, <2>1 DEF Index
  <2>3. PICK w, m \in Nat : w = Weight(n) /\ m = FieldRadix[n]
    BY <2>2, WeightIs, FieldRadixIs DEF Positive
  <2>4. Weight(n + 1) = w * m
    BY <2>2, <2>3, WeightIs, FieldRadixIs
  <2>5. PICK x, y \in Int : x = FieldTo(f, n) /\ y = FieldTo(D, n)
    BY <1>4, <2>2, FieldToIs
  <2>6. PICK a, b, c, d \in Int : a = f[n] /\ b = C[n] /\ c = C[n + 1] /\ d = D[n]
    BY <1>1, <1>3, <2>2 DEF Limbed
  <2>7. FieldTo(f, n + 1) = x + a * w /\ FieldTo(D, n + 1) = y + d * w
    BY <1>4, <2>2, <2>3, <2>5, <2>6, FieldToIs
  <2>8. r + x = w * b + y
    BY <1>6, <2>2, <2>3, <2>5, <2>6
  <2>9. a + b = m * c + d
    BY <1>3, <2>2, <2>3, <2>6
  <2>10. a = (m * c + d) - b
    <3>1. PICK p \in Int : p = m * c
      OBVIOUS
    <3> QED
      BY <2>9, <3>1
  <2>11. ((m * c + d) - b) * w = (w * m) * c + d * w - w * b
    OBVIOUS
  <2>12. PICK u, v, s \in Int : u = (w * m) * c /\ v = d * w /\ s = w * b
    OBVIOUS
  <2>13. a * w = u + v - s
    BY <2>10, <2>11, <2>12
  <2>14. r + FieldTo(f, n + 1) = u + FieldTo(D, n + 1)
    BY <2>7, <2>8, <2>12, <2>13
  <2> QED
    BY <2>4, <2>6, <2>12, <2>14
<1> HIDE DEF A
<1>7. r + FieldValue(f) = AllWeight * C[Limbs] + FieldValue(D)
  <2>1. Limbs \in A
    BY <1>0, <1>5, <1>6, SetInduction
  <2>2. r + FieldTo(f, Limbs) = Weight(Limbs) * C[Limbs] + FieldTo(D, Limbs)
    BY <1>0, <2>1 DEF A
  <2> QED
    BY <1>4, <2>2, FieldToIs DEF AllWeight
<1>8. FieldValue(D) \in 0..AllWeight - 1
  <2>1. IsRadix(FieldRadix, Limbs) /\ \A i \in 0..Limbs - 1 : D[i] \in 0..FieldRadix[i] - 1
    BY <1>0, <1>3, FieldRadixIs DEF Index
  <2> QED
    BY <1>0, <2>1, WorthDigits DEF FieldValue, AllWeight, Weight
<1>9. C[Limbs] \in Int
  BY <1>0, <1>1
<1> QED
  BY <1>7, <1>8, <1>9 DEF C, D

(* A multiple of m strictly between multiples of m. *)
LEMMA Between ==
    ASSUME NEW m \in Nat, NEW x \in Int, NEW y \in Int, m * x < m * y
    PROVE  x < y
<1>1. SUFFICES ASSUME x >= y PROVE FALSE
  OBVIOUS
<1>2. m * (x - y) >= 0
  BY <1>1
<1>3. m * (x - y) = m * x - m * y
  OBVIOUS
<1> QED
  BY <1>2, <1>3

(* The top limb, times Excess and rounded, is close to Excess times the    *)
(* quotient.                                                               *)
LEMMA RoundedTop ==
    ASSUME NEW s \in Nat, NEW t \in Nat, NEW e \in Nat, NEW m \in Nat, m = (2 * s) * t,
           e >= 1, t >= e, s >= 9 * e,
           NEW h \in Int, NEW u \in Int, NEW q \in Int, NEW r \in Int,
           h * t + u = (m - e) * q + r, 0 <= r, r <= m - e - 1,
           -(4 * t) <= u, u <= 4 * t, -5 <= q, q <= 5,
           NEW x \in Int, NEW d \in Int, e * h + s = (2 * s) * x + d, 0 <= d, d <= 2 * s - 1
    PROVE  0 <= x - e * q /\ x - e * q <= e
<1>1. PICK st, et, ee \in Nat : st = s * t /\ et = e * t /\ ee = e * e
  OBVIOUS
<1>2. m = 2 * st /\ ee <= et /\ 9 * et <= st /\ et >= 1 /\ t >= 1
  <2>1. (2 * s) * t = 2 * (s * t)
    OBVIOUS
  <2>2. e * e <= e * t
    OBVIOUS
  <2>3. (9 * e) * t <= s * t
    OBVIOUS
  <2>4. (9 * e) * t = 9 * (e * t)
    OBVIOUS
  <2>5. e * t >= 1
    OBVIOUS
  <2> QED
    BY <1>1, <2>1, <2>2, <2>3, <2>4, <2>5
<1>3. PICK z \in Int : z = e * q
  OBVIOUS
<1>4. PICK a, b, c, g \in Int : a = ee * q /\ b = e * r /\ c = e * u /\ g = d * t
  OBVIOUS
<1>5. -(5 * ee) <= a /\ a <= 5 * ee
  <2>1. ee * q <= ee * 5 /\ ee * q >= ee * (-5)
    OBVIOUS
  <2> QED
    BY <1>4, <2>1
<1>6. 0 <= b /\ b <= e * m - ee - e
  <2>1. e * r >= 0
    OBVIOUS
  <2>2. e * r <= e * (m - e - 1)
    OBVIOUS
  <2>3. e * (m - e - 1) = e * m - e * e - e
    OBVIOUS
  <2> QED
    BY <1>1, <1>4, <2>1, <2>2, <2>3
<1>7. -(4 * et) <= c /\ c <= 4 * et
  <2>1. e * u <= e * (4 * t) /\ e * u >= e * (-(4 * t))
    OBVIOUS
  <2>2. e * (4 * t) = 4 * (e * t) /\ e * (-(4 * t)) = -(4 * (e * t))
    OBVIOUS
  <2> QED
    BY <1>1, <1>4, <2>1, <2>2
<1>8. 0 <= g /\ g <= 2 * st - t
  <2>1. d * t >= 0
    OBVIOUS
  <2>2. d * t <= (2 * s - 1) * t
    OBVIOUS
  <2>3. (2 * s - 1) * t = 2 * (s * t) - t
    OBVIOUS
  <2> QED
    BY <1>1, <1>4, <2>1, <2>2, <2>3
<1>9. m * (x - z) = b - a - c + st - g
  <2>1. (e * h + s) * t = e * (h * t) + s * t
    OBVIOUS
  <2>2. ((2 * s) * x + d) * t = ((2 * s) * t) * x + d * t
    OBVIOUS
  <2>3. PICK v \in Int : v = h * t
    OBVIOUS
  <2>4. PICK y \in Int : y = m * q
    OBVIOUS
  <2>5. (m - e) * q = y - z
    BY <1>3, <2>4
  <2>6. v = y - z + r - u
    BY <2>3, <2>5
  <2>7. e * v = e * y - e * z + b - c
    <3>1. e * (y - z + r - u) = e * y - e * z + e * r - e * u
      OBVIOUS
    <3> QED
      BY <1>4, <2>6, <3>1
  <2>8. e * y = m * z /\ e * z = a
    <3>1. e * (m * q) = m * (e * q) /\ e * (e * q) = (e * e) * q
      OBVIOUS
    <3> QED
      BY <1>1, <1>3, <1>4, <2>4, <3>1
  <2>9. PICK k, l \in Int : k = m * z /\ l = m * x
    OBVIOUS
  <2>10. e * v + st = l + g
    <3>1. (e * h + s) * t = ((2 * s) * x + d) * t
      OBVIOUS
    <3> QED
      BY <1>1, <1>4, <2>1, <2>2, <2>3, <2>9, <3>1
  <2>11. e * v = k - a + b - c
    <3>1. PICK ey, ez \in Int : ey = e * y /\ ez = e * z
      OBVIOUS
    <3> QED
      BY <2>7, <2>8, <2>9, <3>1
  <2>12. m * (x - z) = l - k
    BY <2>9
  <2>13. PICK w \in Int : w = e * v
    OBVIOUS
  <2> QED
    BY <2>10, <2>11, <2>12, <2>13
<1>10. PICK n \in Int : n = m * (x - z)
  BY <1>3
<1>11. PICK em \in Int : em = e * m
  OBVIOUS
<1>12. m * (-1) < m * (x - z)
  <2>1. -m < n
    BY <1>2, <1>5, <1>6, <1>7, <1>8, <1>9, <1>10
  <2> QED
    BY <1>10, <2>1
<1>13. m * (x - z) < m * (e + 1)
  <2>1. n < em + m
    BY <1>2, <1>5, <1>6, <1>7, <1>8, <1>9, <1>10, <1>11
  <2>2. m * (e + 1) = em + m
    BY <1>11
  <2> QED
    BY <1>10, <2>1, <2>2
<1>14. -1 < x - z /\ x - z < e + 1
  BY <1>12, <1>13, Between
<1> QED
  BY <1>3, <1>14

(* Limbs of twice their width are worth four times the place above them. *)
LEMMA RestBound ==
    ASSUME NEW f, Loose(f, 2), NEW n \in 0..Limbs
    PROVE  -(4 * Weight(n)) <= FieldTo(f, n) /\ FieldTo(f, n) <= 4 * Weight(n)
<1>0. Limbs \in Nat /\ f \in Limbed
  BY LimbsFacts DEF Loose
<1> DEFINE A == {m \in Nat : m <= Limbs => /\ -(4 * Weight(m)) <= FieldTo(f, m)
                                            /\ FieldTo(f, m) <= 4 * Weight(m)}
<1>1. 0 \in A
  <2>1. FieldTo(f, 0) = 0 /\ Weight(0) = 1
    BY <1>0, FieldToIs, WeightIs
  <2> QED
    BY <2>1
<1>2. ASSUME NEW m \in Nat, m \in A PROVE m + 1 \in A
  <2>1. SUFFICES ASSUME m + 1 <= Limbs
                 PROVE  /\ -(4 * Weight(m + 1)) <= FieldTo(f, m + 1)
                        /\ FieldTo(f, m + 1) <= 4 * Weight(m + 1)
    OBVIOUS
  <2>2. m \in Index /\ m \in 0..Limbs /\ m <= Limbs
    BY <1>0, <2>1 DEF Index
  <2>3. PICK w \in Nat : w = Weight(m)
    BY <2>2, WeightIs DEF Positive
  <2>4. PICK r \in Nat : r = WideRadix(m) /\ r >= 2
    BY LimbsFacts DEF WideRadix
  <2>5. PICK x, a \in Int : x = FieldTo(f, m) /\ a = f[m]
    BY <1>0, <2>2, FieldToIs DEF Limbed
  <2>6. Weight(m + 1) = w * r /\ FieldTo(f, m + 1) = x + a * w
    BY <1>0, <2>2, <2>3, <2>4, <2>5, WeightIs, FieldToIs
  <2>7. -(4 * w) <= x /\ x <= 4 * w
    BY <1>2, <2>2, <2>3, <2>5
  <2>8. -(2 * r) <= a /\ a <= 2 * r
    BY <2>2, <2>4, <2>5 DEF Loose
  <2>9. PICK p, b \in Int : p = w * r /\ b = a * w
    OBVIOUS
  <2>10. 2 * w <= p
    <3>1. w * 2 <= w * r
      BY <2>4
    <3> QED
      BY <2>9, <3>1
  <2>11. -(2 * p) <= b /\ b <= 2 * p
    <3>1. -w <= w /\ w <= w /\ 2 * r \in Int
      OBVIOUS
    <3>2. -((2 * r) * w) <= a * w /\ a * w <= (2 * r) * w
      BY <2>8, <3>1, ProductBound
    <3>3. (2 * r) * w = 2 * (w * r)
      OBVIOUS
    <3> QED
      BY <2>9, <3>2, <3>3
  <2> QED
    BY <2>6, <2>7, <2>9, <2>10, <2>11
<1> HIDE DEF A
<1>3. \A m \in Nat : m \in A
  BY <1>1, <1>2, SetInduction
<1>4. n \in Nat /\ n <= Limbs /\ n \in A
  BY <1>0, <1>3
<1> QED
  BY <1>4 DEF A

LEMMA TopWeight ==
    ASSUME FieldFits
    PROVE  Weight(9) \in Nat /\ OddRadix <= Weight(9) /\ AllWeight = Weight(9) * OddRadix
<1>1. PICK B \in Nat : B = OddRadix /\ B >= 1
  BY LimbsFacts
<1>2. Index = 0..9 /\ Limbs = 10 /\ WideRadix(8) = 2 * B /\ WideRadix(9) = B
  BY <1>1, TenLimbs
<1>3. PICK v \in Nat : v = Weight(8) /\ v >= 1
  <2>1. 8 \in 0..Limbs
    BY <1>2
  <2> QED
    BY <2>1, WeightIs DEF Positive
<1>4. Weight(9) = v * (2 * B)
  <2>1. 8 \in Index /\ 8 + 1 = 9
    BY <1>2
  <2>2. Weight(8 + 1) = Weight(8) * WideRadix(8)
    BY <2>1, WeightIs
  <2> QED
    BY <1>2, <1>3, <2>1, <2>2
<1>5. v * (2 * B) >= B /\ v * (2 * B) \in Nat
  <2>1. v * (2 * B) >= 1 * (2 * B)
    BY <1>3
  <2> QED
    BY <2>1
<1>6. AllWeight = Weight(9) * WideRadix(9)
  <2>1. 9 \in Index /\ 9 + 1 = Limbs
    BY <1>2
  <2>2. Weight(9 + 1) = Weight(9) * WideRadix(9)
    BY <2>1, WeightIs
  <2> QED
    BY <2>1, <2>2 DEF AllWeight
<1> QED
  BY <1>1, <1>2, <1>4, <1>5, <1>6

LEMMA QuotientIs ==
    ASSUME FieldFits, NEW f, Loose(f, 2), NEW q \in Int, NEW r \in 0..FieldPrime - 1,
           FieldValue(f) = FieldPrime * q + r
    PROVE  Quotient(f) = q
<1>1. PICK s \in Nat : OddRadix = 2 * s
  BY TenLimbs
<1>2. PICK e \in Nat : e = Excess /\ e >= 1
  BY LimbsFacts DEF FieldFits
<1>3. s >= 9 * e
  <2>1. PICK c \in Nat : c = 720 * Excess + 2 * Factor + 129 /\ c >= 129
    BY <1>2, LimbsFacts
  <2>2. (e + 1) * c >= (e + 1) * 129
    BY <2>1
  <2>3. Slack = (e + 1) * c
    BY <1>2, <2>1 DEF Slack
  <2>4. 2 * Slack <= OddRadix
    BY DEF FieldFits
  <2>5. PICK y \in Nat : y = (e + 1) * c
    BY <2>1
  <2> QED
    BY <1>1, <2>2, <2>3, <2>4, <2>5
<1>4. PICK t \in Nat : t = Weight(9) /\ t >= 2 * s /\ AllWeight = t * (2 * s)
  BY <1>1, TopWeight
<1>5. PICK m \in Nat : m = AllWeight /\ m = (2 * s) * t
  <2>1. t * (2 * s) = (2 * s) * t /\ (2 * s) * t \in Nat
    OBVIOUS
  <2> QED
    BY <1>4, <2>1
<1>6. FieldPrime = m - e /\ m - e > 0
  <2>1. PICK p \in Nat : p = FieldPrime /\ p > 0
    BY PrimeIs
  <2>2. AllWeight = FieldPrime + Excess
    BY PrimeIs
  <2>3. m = p + e
    BY <1>2, <1>5, <2>1, <2>2
  <2> QED
    BY <2>1, <2>3
<1>7. f \in Limbed /\ Limbs = 10 /\ 9 \in Index /\ 9 \in 0..Limbs /\ Limbs \in 0..Limbs /\ Limbs - 1 = 9
  BY TenLimbs DEF Loose
<1>8. PICK h, u \in Int : h = f[9] /\ u = FieldTo(f, 9)
  BY <1>7, FieldToIs DEF Limbed
<1>9. FieldValue(f) = u + h * t
  <2>1. FieldTo(f, 9 + 1) = FieldTo(f, 9) + f[9] * Weight(9)
    BY <1>7, FieldToIs
  <2>2. 9 + 1 = Limbs
    BY <1>7
  <2> QED
    BY <1>4, <1>7, <1>8, <2>1, <2>2, FieldToIs
<1>10. -(4 * t) <= u /\ u <= 4 * t
  BY <1>4, <1>7, <1>8, RestBound
<1>11. PICK v \in Int : v = FieldValue(f) /\ -(4 * m) <= v /\ v <= 4 * m
  <2>1. -(4 * Weight(Limbs)) <= FieldTo(f, Limbs) /\ FieldTo(f, Limbs) <= 4 * Weight(Limbs)
    BY <1>7, RestBound
  <2>2. FieldTo(f, Limbs) = FieldValue(f) /\ FieldValue(f) \in Int
    BY <1>7, FieldToIs, FieldValueType
  <2> QED
    BY <1>5, <2>1, <2>2 DEF AllWeight
<1>12. v = (m - e) * q + r /\ r \in Int /\ 0 <= r /\ r <= m - e - 1
  BY <1>6, <1>11
<1>13. m >= 9 * e /\ t >= e
  <2>1. (2 * s) * t >= (2 * s) * 1
    <3>1. t >= 1
      BY <1>2, <1>3, <1>4
    <3> QED
      BY <3>1
  <2> QED
    BY <1>2, <1>3, <1>4, <1>5, <2>1
<1>14. -5 <= q /\ q <= 5
  <2>1. (m - e) * q <= 4 * m /\ (m - e) * q > -(5 * m)
    <3>1. PICK y \in Int : y = (m - e) * q
      OBVIOUS
    <3> QED
      BY <1>11, <1>12, <3>1, <1>2
  <2>2. (m - e) * 6 = 6 * m - 6 * e /\ (m - e) * (-6) = 6 * e - 6 * m
    OBVIOUS
  <2>3. (m - e) * q < (m - e) * 6 /\ (m - e) * (-6) < (m - e) * q
    <3>1. PICK y \in Int : y = (m - e) * q
      OBVIOUS
    <3> QED
      BY <1>2, <1>13, <2>1, <2>2, <3>1
  <2>4. q < 6 /\ -6 < q
    <3>1. m - e \in Nat /\ 6 \in Int /\ -6 \in Int
      BY <1>6
    <3> QED
      BY <2>3, <3>1, Between
  <2> QED
    BY <2>4
<1>15. PICK b \in Nat : b = OddRadix /\ b = 2 * s /\ b > 0 /\ b \div 2 = s
  <2>1. (2 * s) \div 2 = s
    OBVIOUS
  <2> QED
    BY <1>1, <1>2, <1>3, <2>1
<1>16. PICK y \in Int : y = e * h + s
  OBVIOUS
<1>17. PICK x \in Int, d \in 0..b - 1 : x = y \div b /\ y = b * x + d
  BY <1>15, RemainderIs
<1>18. 0 <= x - e * q /\ x - e * q <= e
  <2>1. h * t + u = (m - e) * q + r
    <3>1. PICK z, w \in Int : z = h * t /\ w = (m - e) * q
      OBVIOUS
    <3> QED
      BY <1>9, <1>11, <1>12, <3>1
  <2>2. e * h + s = (2 * s) * x + d /\ d \in Int /\ 0 <= d /\ d <= 2 * s - 1
    BY <1>15, <1>16, <1>17
  <2> QED
    BY <1>2, <1>3, <1>5, <1>10, <1>12, <1>13, <1>14, <2>1, <2>2, RoundedTop
<1>19. Quotient(f) = Floors(f, x)[Limbs]
  <2>1. x = (Excess * f[Limbs - 1] + OddRadix \div 2) \div OddRadix
    BY <1>2, <1>7, <1>8, <1>15, <1>16, <1>17
  <2> QED
    BY <2>1 DEF Quotient, Floors, FloorsBody
<1>20. PICK a \in Int, k \in 0..m - 1 : a = Floors(f, x)[Limbs] /\ x + v = m * a + k
  <2>1. /\ Floors(f, x)[Limbs] \in Int /\ FieldValue(Kept(f, x)) \in 0..AllWeight - 1
        /\ x + FieldValue(f) = AllWeight * Floors(f, x)[Limbs] + FieldValue(Kept(f, x))
    BY <1>7, FloorsKeep
  <2> QED
    BY <1>5, <1>11, <2>1
<1>21. PICK z \in Int : z = x - e * q
  OBVIOUS
<1>22. x + v = m * q + (r + z)
  <2>1. (m - e) * q = m * q - e * q
    OBVIOUS
  <2>2. PICK g, l \in Int : g = m * q /\ l = e * q
    OBVIOUS
  <2> QED
    BY <1>12, <1>21, <2>1, <2>2
<1>23. r + z \in 0..m - 1
  BY <1>12, <1>18, <1>21
<1>24. m > 0 /\ x + v \in Int
  BY <1>2, <1>6
<1>25. (x + v) \div m = q
  BY <1>22, <1>23, <1>24, RemainderUnique
<1>26. (x + v) \div m = a
  BY <1>20, <1>24, RemainderUnique
<1> QED
  BY <1>19, <1>20, <1>25, <1>26

(* fe_tobytes: the one representative below the prime. *)
LEMMA ToBytesIs ==
    ASSUME FieldFits, NEW f, Loose(f, 2)
    PROVE  ToBytes(f) = FieldValue(f) % FieldPrime
<1>1. PICK p \in Nat : p = FieldPrime /\ p > 0
  BY PrimeIs
<1>2. f \in Limbed /\ 0 \in Index /\ f[0] \in Int
  <2>1. f \in Limbed /\ 0 \in Index
    BY TenLimbs DEF Loose
  <2> QED
    BY <2>1 DEF Limbed
<1>3. PICK v \in Int : v = FieldValue(f)
  BY <1>2, FieldValueType
<1>4. PICK q \in Int, r \in 0..p - 1 : v = p * q + r /\ r = v % p
  BY <1>1, RemainderIs
<1>5. Quotient(f) = q
  BY <1>1, <1>3, <1>4, QuotientIs
<1>6. PICK m, e \in Nat : m = AllWeight /\ e = Excess /\ m = p + e
  BY <1>1, PrimeIs, LimbsFacts
<1>7. PICK z \in Int : z = e * q
  OBVIOUS
<1>17. PICK w \in Int : w = v + z
  OBVIOUS
<1> DEFINE g == [f EXCEPT ![0] = @ + Excess * Quotient(f)]
<1>8. g \in Limbed /\ g[0] = f[0] + z /\ \A k \in Index : k # 0 => g[k] = f[k]
  <2>1. g = [f EXCEPT ![0] = @ + z]
    BY <1>5, <1>6, <1>7
  <2> HIDE DEF g
  <2> QED
    BY <1>2, <2>1 DEF Limbed
<1> HIDE DEF g
<1>9. FieldValue(g) = w
  <2>1. FieldValue(g) = FieldValue(f) + (g[0] - f[0]) * Weight(0)
    BY <1>2, <1>8, FieldChange
  <2>2. g[0] - f[0] = z
    BY <1>2, <1>8
  <2> QED
    BY <1>3, <1>17, <2>1, <2>2, WeightIs
<1>10. 0 \in Int
  OBVIOUS
<1>11. PICK a \in Int, k \in 0..m - 1 : k = FieldValue(Kept(g, 0)) /\ w = m * a + k
  <2>1. /\ Floors(g, 0)[Limbs] \in Int /\ FieldValue(Kept(g, 0)) \in 0..AllWeight - 1
        /\ 0 + FieldValue(g) = AllWeight * Floors(g, 0)[Limbs] + FieldValue(Kept(g, 0))
    BY <1>8, <1>10, FloorsKeep
  <2>2. PICK a \in Int : a = Floors(g, 0)[Limbs]
    BY <2>1
  <2>3. PICK k \in 0..m - 1 : k = FieldValue(Kept(g, 0))
    BY <1>6, <2>1
  <2>4. PICK x \in Int : x = m * a
    OBVIOUS
  <2>5. w = x + k
    BY <1>6, <1>9, <2>1, <2>2, <2>3, <2>4
  <2>6. w = m * a + k
    BY <2>4, <2>5
  <2> QED
    BY <2>3, <2>6
<1>12. w = m * q + r
  <2>1. (p + e) * q = p * q + e * q
    OBVIOUS
  <2>2. PICK x \in Int : x = p * q
    OBVIOUS
  <2>3. m * q = x + z
    BY <1>6, <1>7, <2>1, <2>2
  <2>4. v = x + r /\ r \in Int
    BY <1>1, <1>4, <2>2
  <2>5. w = x + z + r
    BY <1>17, <2>4
  <2> QED
    BY <2>3, <2>4, <2>5
<1>13. r \in 0..m - 1 /\ m > 0
  BY <1>1, <1>6
<1>14. w % m = k
  <2>1. w = m * a + k
    BY <1>11
  <2>2. m > 0
    BY <1>13
  <2> QED
    BY <2>1, <2>2, RemainderUnique
<1>15. w % m = r
  <2>1. PICK k1 \in 0..m - 1 : k1 = r
    BY <1>13
  <2>2. w = m * q + k1
    BY <1>12, <2>1
  <2>3. w % m = k1
    BY <1>13, <2>2, RemainderUnique
  <2> QED
    BY <2>1, <2>3
<1>16. ToBytes(f) = FieldValue(Kept(g, 0))
  BY DEF ToBytes, FieldValue, Kept, Floors, FloorsBody, g
<1> QED
  BY <1>1, <1>3, <1>4, <1>11, <1>14, <1>15, <1>16

-----------------------------------------------------------------------------
(* The number beside an element, and how far from carried the element is. *)
Stands(f, n, d) == n \in 0..FieldPrime - 1 /\ Loose(f, d) /\ Same(FieldValue(f), n)

LEMMA Looser ==
    ASSUME NEW f, NEW d \in Nat, NEW e \in Nat, d <= e, Loose(f, d)
    PROVE  Loose(f, e)
<1>1. f \in Limbed /\ \A k \in Index : f[k] \in Int
  BY DEF Loose, Limbed
<1>2. ASSUME NEW k \in Index PROVE -(e * WideRadix(k)) <= f[k] /\ f[k] <= e * WideRadix(k)
  <2>1. PICK r \in Nat : r = WideRadix(k)
    BY LimbsFacts DEF WideRadix
  <2>2. -(d * r) <= f[k] /\ f[k] <= d * r
    BY <2>1 DEF Loose
  <2>3. d * r <= e * r
    OBVIOUS
  <2>4. PICK p, q \in Nat : p = d * r /\ q = e * r
    OBVIOUS
  <2> QED
    BY <1>1, <2>1, <2>2, <2>3, <2>4
<1> QED
  BY <1>1, <1>2 DEF Loose

LEMMA SameRest ==
    ASSUME NEW n \in Int
    PROVE  n % FieldPrime \in 0..FieldPrime - 1 /\ Same(n, n % FieldPrime)
<1>1. PICK p \in Nat : p = FieldPrime /\ p > 0
  BY PrimeIs
<1>2. PICK q \in Int, r \in 0..p - 1 : r = n % p /\ n = p * q + r
  BY <1>1, RemainderIs
<1>3. n = r + q * FieldPrime
  <2>1. p * q = q * p
    OBVIOUS
  <2>2. PICK y \in Int : y = p * q
    OBVIOUS
  <2> QED
    BY <1>1, <1>2, <2>1, <2>2
<1> QED
  BY <1>1, <1>2, <1>3 DEF Same

LEMMA StandsFor ==
    ASSUME NEW f, NEW d, Loose(f, d), NEW n \in Int, Same(FieldValue(f), n)
    PROVE  Stands(f, n % FieldPrime, d)
<1>1. n % FieldPrime \in 0..FieldPrime - 1 /\ Same(n, n % FieldPrime)
  BY SameRest
<1>2. FieldValue(f) \in Int /\ n % FieldPrime \in Int
  BY <1>1, PrimeIs, FieldValueType DEF Loose
<1>3. Same(FieldValue(f), n % FieldPrime)
  BY <1>1, <1>2, SameThrough
<1> QED
  BY <1>1, <1>3 DEF Stands

LEMMA SumStands ==
    ASSUME NEW f, NEW g, NEW n, NEW m, NEW d \in Nat, Stands(f, n, d), Stands(g, m, 1)
    PROVE  /\ Stands(Add(f, g), (n + m) % FieldPrime, d + 1)
           /\ Stands(Sub(f, g), (n - m) % FieldPrime, d + 1)
           /\ Stands(Neg(f), (-n) % FieldPrime, d)
<1>1. n \in Int /\ m \in Int /\ Loose(f, d) /\ Loose(g, 1) /\ f \in Limbed /\ g \in Limbed
  BY PrimeIs DEF Stands, Loose
<1>2. PICK x, y \in Int : x = FieldValue(f) /\ y = FieldValue(g)
  BY <1>1, FieldValueType
<1>3. Same(x, n) /\ Same(y, m)
  BY <1>2 DEF Stands
<1>4. Same(x + y, n + m)
  BY <1>1, <1>3, SamePlus
<1>5. Same(-x, -n) /\ Same(-y, -m)
  <2>1. -1 \in Int
    OBVIOUS
  <2>2. Same(x * (-1), n * (-1)) /\ Same(y * (-1), m * (-1))
    BY <1>1, <1>3, <2>1, SameTimes
  <2>3. x * (-1) = -x /\ n * (-1) = -n /\ y * (-1) = -y /\ m * (-1) = -m
    BY <1>1
  <2> QED
    BY <2>2, <2>3
<1>6. Same(x - y, n - m)
  <2>1. -y \in Int /\ -m \in Int
    BY <1>1
  <2>2. Same(x + (-y), n + (-m))
    BY <1>1, <1>3, <1>5, <2>1, SamePlus
  <2>3. x + (-y) = x - y /\ n + (-m) = n - m
    BY <1>1
  <2> QED
    BY <2>2, <2>3
<1>7. /\ Loose(Add(f, g), d + 1) /\ FieldValue(Add(f, g)) = x + y
      /\ Loose(Sub(f, g), d + 1) /\ FieldValue(Sub(f, g)) = x - y
      /\ Loose(Neg(f), d) /\ FieldValue(Neg(f)) = -x
  BY <1>1, <1>2, SumsAre
<1>8. n + m \in Int /\ n - m \in Int /\ -n \in Int
  BY <1>1
<1> QED
  BY <1>4, <1>5, <1>6, <1>7, <1>8, StandsFor

LEMMA ProductStands ==
    ASSUME FieldFits, NEW f, NEW g, NEW n, NEW m, NEW d \in 1..3, Stands(f, n, d), Stands(g, m, 1)
    PROVE  /\ Stands(Mul(f, g), TimesMod(n, m, FieldPrime) % FieldPrime, 1)
           /\ Stands(Sq(f), TimesMod(n, n, FieldPrime) % FieldPrime, 1)
           /\ Stands(Sq2(f), (2 * TimesMod(n, n, FieldPrime)) % FieldPrime, 1)
           /\ d <= 2 => Stands(MulFactor(f), TimesMod(n, Factor, FieldPrime) % FieldPrime, 1)
<1>1. n \in Nat /\ m \in Nat /\ Loose(f, d) /\ Loose(g, 1) /\ f \in Limbed /\ g \in Limbed
  BY PrimeIs DEF Stands, Loose
<1>2. Loose(f, 3) /\ Loose(g, 3) /\ (d <= 2 => Loose(f, 2))
  <2>1. d \in Nat /\ d <= 3 /\ 1 \in Nat /\ 2 \in Nat /\ 3 \in Nat /\ 1 <= 3
    OBVIOUS
  <2> QED
    BY <1>1, <2>1, Looser
<1>3. PICK x, y \in Int : x = FieldValue(f) /\ y = FieldValue(g)
  BY <1>1, FieldValueType
<1>4. Same(x, n) /\ Same(y, m) /\ n \in Int /\ m \in Int
  BY <1>1, <1>3 DEF Stands
<1>5. PICK F \in Nat : F = Factor
  BY LimbsFacts
<1>6. PICK p \in Nat : p = FieldPrime /\ p > 0
  BY PrimeIs
<1>7. PICK xy, xx, xf, nm, nn, nf, ny \in Int :
        /\ xy = x * y /\ xx = x * x /\ xf = x * F
        /\ nm = n * m /\ nn = n * n /\ nf = n * F /\ ny = n * y
  BY <1>4
<1>8. Same(xy, nm)
  <2>1. Same(x * y, n * y) /\ Same(y * n, m * n)
    BY <1>4, SameTimes
  <2>2. y * n = ny /\ m * n = nm
    BY <1>4, <1>7
  <2> QED
    BY <1>7, <2>1, <2>2, SameThrough
<1>9. Same(xx, nn)
  <2>1. Same(x * x, n * x) /\ Same(x * n, n * n)
    BY <1>4, SameTimes
  <2>2. PICK nx \in Int : nx = n * x /\ nx = x * n
    BY <1>4
  <2> QED
    BY <1>7, <2>1, <2>2, SameThrough
<1>10. Same(xf, nf)
  <2>1. F \in Int
    OBVIOUS
  <2> QED
    BY <1>4, <1>7, <2>1, SameTimes
<1>11. ASSUME NEW h, Loose(h, 1), NEW a \in Int, NEW b \in Nat, NEW c \in Nat,
              Same(FieldValue(h), a), Same(a, b * c)
       PROVE  /\ TimesMod(b, c, p) \in Int /\ Same(a, TimesMod(b, c, p))
              /\ Stands(h, TimesMod(b, c, p) % p, 1)
  <2>1. PICK bc \in Int : bc = b * c
    OBVIOUS
  <2>2. TimesMod(b, c, p) = bc % p
    BY <1>6, <2>1, TimesModIs
  <2>3. bc % p \in 0..p - 1 /\ Same(bc, bc % p)
    BY <1>6, SameRest
  <2>4. PICK t \in Int : t = bc % p
    BY <2>3
  <2>5. Same(a, t)
    BY <1>11, <2>1, <2>3, <2>4, SameThrough
  <2>6. FieldValue(h) \in Int
    BY <1>11, FieldValueType DEF Loose
  <2>7. Same(FieldValue(h), t)
    BY <1>11, <2>5, <2>6, SameThrough
  <2>8. Stands(h, t % p, 1)
    BY <1>6, <1>11, <2>7, StandsFor
  <2> QED
    BY <2>2, <2>4, <2>5, <2>8
<1>12. Loose(Mul(f, g), 1) /\ Loose(Sq(f), 1) /\ Loose(Sq2(f), 1)
  BY <1>2, MulBounds
<1>13. /\ Same(FieldValue(Mul(f, g)), xy) /\ Same(FieldValue(Sq(f)), xx)
       /\ Same(FieldValue(Sq2(f)), 2 * xx) /\ Same(FieldValue(MulFactor(f)), xf)
       /\ Sq2(f) \in Limbed
  BY <1>1, <1>3, <1>5, <1>7, ProductsAre
<1>14. Stands(Mul(f, g), TimesMod(n, m, p) % p, 1)
  BY <1>1, <1>7, <1>8, <1>11, <1>12, <1>13
<1>15. Stands(Sq(f), TimesMod(n, n, p) % p, 1) /\ TimesMod(n, n, p) \in Int /\ Same(xx, TimesMod(n, n, p))
  BY <1>1, <1>7, <1>9, <1>11, <1>12, <1>13
<1>16. Stands(Sq2(f), (2 * TimesMod(n, n, p)) % p, 1)
  <2>1. PICK t \in Int : t = TimesMod(n, n, p)
    BY <1>15
  <2>2. Same(xx * 2, t * 2)
    <3>1. 2 \in Int
      OBVIOUS
    <3> QED
      BY <1>15, <2>1, <3>1, SameTimes
  <2>3. PICK a, b \in Int : a = 2 * xx /\ b = 2 * t /\ a = xx * 2 /\ b = t * 2
    OBVIOUS
  <2>4. FieldValue(Sq2(f)) \in Int
    BY <1>13, FieldValueType
  <2>5. Same(FieldValue(Sq2(f)), b)
    BY <1>13, <2>2, <2>3, <2>4, SameThrough
  <2>6. Stands(Sq2(f), b % FieldPrime, 1)
    BY <1>12, <2>5, StandsFor
  <2> QED
    BY <1>6, <2>1, <2>3, <2>6
<1>17. ASSUME d <= 2 PROVE Stands(MulFactor(f), TimesMod(n, F, p) % p, 1)
  <2>1. Loose(MulFactor(f), 1)
    BY <1>2, <1>17, MulFactorBounds
  <2> QED
    BY <1>1, <1>7, <1>10, <1>11, <1>13, <2>1
<1> QED
  BY <1>5, <1>6, <1>14, <1>15, <1>16, <1>17

LEMMA BytesStand ==
    ASSUME FieldFits, NEW s \in FieldNumbers
    PROVE  Stands(FromBytes(s), Residue(s), 1)
<1>1. s \in Nat
  BY DEF FieldFits
<1>2. s % AllWeight \in Int
  <2>1. AllWeight \in Nat /\ AllWeight > 0
    <3>1. Limbs \in 0..Limbs
      BY LimbsFacts
    <3> QED
      BY <3>1, WeightIs DEF AllWeight, Positive
  <2>2. s % AllWeight \in 0..AllWeight - 1
    BY <1>1, <2>1, RemainderIs
  <2> QED
    BY <2>1, <2>2
<1>3. Loose(FromBytes(s), 1) /\ Same(FieldValue(FromBytes(s)), s % AllWeight)
  BY <1>1, FromBytesIs
<1> QED
  BY <1>2, <1>3, StandsFor DEF Residue

-----------------------------------------------------------------------------
(* Each number stands beside its element, whatever has been added up since *)
(* the last carries.                                                       *)
FieldInv ==
    /\ "unit" \in DOMAIN work
    /\ work.unit = "field" =>
        /\ work.degree \in 1..3
        /\ Stands(work.f, work.number, work.degree)
        /\ Stands(work.other, work.otherNumber, 1)

LEMMA InitField == ASSUME FieldFits PROVE Init => FieldInv
<1> SUFFICES ASSUME Init PROVE FieldInv
  OBVIOUS
<1>1. CASE FieldInit
  <2>1. PICK s, t \in FieldNumbers :
            work = [unit |-> "field", f |-> FromBytes(s), number |-> Residue(s), degree |-> 1,
                    other |-> FromBytes(t), otherNumber |-> Residue(t), ops |-> 0]
    BY <1>1 DEF FieldInit
  <2>2. /\ "unit" \in DOMAIN work /\ work.degree = 1
        /\ work.f = FromBytes(s) /\ work.number = Residue(s)
        /\ work.other = FromBytes(t) /\ work.otherNumber = Residue(t)
    BY <2>1
  <2>3. Stands(FromBytes(s), Residue(s), 1) /\ Stands(FromBytes(t), Residue(t), 1)
    BY BytesStand
  <2> QED
    BY <2>2, <2>3 DEF FieldInv
<1>2. CASE ScalarInit
  <2>1. "unit" \in DOMAIN work /\ work.unit = "scalar"
    BY <1>2 DEF ScalarInit
  <2> QED
    BY <2>1 DEF FieldInv
<1>3. CASE MacInit
  <2>1. "unit" \in DOMAIN work /\ work.unit = "mac"
    BY <1>3 DEF MacInit
  <2> QED
    BY <2>1 DEF FieldInv
<1>4. CASE HashInit
  <2>1. "unit" \in DOMAIN work /\ work.unit = "hash"
    BY <1>4 DEF HashInit
  <2> QED
    BY <2>1 DEF FieldInv
<1> QED
  BY <1>1, <1>2, <1>3, <1>4 DEF Init

LEMMA FieldStep == ASSUME FieldFits PROVE FieldInv /\ [Next]_work => FieldInv'
<1> SUFFICES ASSUME FieldInv, [Next]_work PROVE FieldInv'
  OBVIOUS
<1>0. "unit" \in DOMAIN work
  BY DEF FieldInv
(* What Element leaves is as the invariant wants it. *)
<1>1. ASSUME work.unit = "field", NEW f, NEW n, NEW d \in 1..3, NEW ops,
             Stands(f, n % FieldPrime, d), work' = Element(f, n, d, ops)
      PROVE  FieldInv'
  <2>1. /\ "unit" \in DOMAIN work' /\ work'.f = f /\ work'.number = n % FieldPrime
        /\ work'.degree = d /\ work'.other = work.other /\ work'.otherNumber = work.otherNumber
    BY <1>1 DEF Element
  <2>2. Stands(work.other, work.otherNumber, 1)
    BY <1>1 DEF FieldInv
  <2>3. Stands(work'.f, work'.number, work'.degree) /\ Stands(work'.other, work'.otherNumber, 1)
    BY <1>1, <2>1, <2>2
  <2> QED
    BY <1>1, <2>1, <2>3 DEF FieldInv
<1>2. CASE FieldSum
  <2>1. work.unit = "field" /\ work.degree < 3
    BY <1>2 DEF FieldSum
  <2>2. /\ work.degree \in 1..3 /\ work.degree \in Nat /\ work.degree + 1 \in 1..3
        /\ Stands(work.f, work.number, work.degree) /\ Stands(work.other, work.otherNumber, 1)
    BY <2>1 DEF FieldInv
  <2>3. /\ Stands(Add(work.f, work.other), (work.number + work.otherNumber) % FieldPrime, work.degree + 1)
        /\ Stands(Sub(work.f, work.other), (work.number - work.otherNumber) % FieldPrime, work.degree + 1)
        /\ Stands(Neg(work.f), (-work.number) % FieldPrime, work.degree)
    BY <2>2, SumStands
  <2>4. CASE work' = Element(Add(work.f, work.other), work.number + work.otherNumber,
                             work.degree + 1, work.ops + 1)
    BY <1>1, <2>1, <2>2, <2>3, <2>4
  <2>5. CASE work' = Element(Sub(work.f, work.other), work.number - work.otherNumber,
                             work.degree + 1, work.ops + 1)
    BY <1>1, <2>1, <2>2, <2>3, <2>5
  <2>6. CASE work' = Element(Neg(work.f), -work.number, work.degree, work.ops + 1)
    BY <1>1, <2>1, <2>2, <2>3, <2>6
  <2> QED
    BY <1>2, <2>4, <2>5, <2>6 DEF FieldSum
<1>3. CASE FieldProduct
  <2>1. work.unit = "field"
    BY <1>3 DEF FieldProduct
  <2>2. /\ work.degree \in 1..3 /\ 1 \in 1..3
        /\ Stands(work.f, work.number, work.degree) /\ Stands(work.other, work.otherNumber, 1)
    BY <2>1 DEF FieldInv
  <2> DEFINE square == TimesMod(work.number, work.number, FieldPrime)
  <2>3. /\ Stands(Mul(work.f, work.other), TimesMod(work.number, work.otherNumber, FieldPrime) % FieldPrime, 1)
        /\ Stands(Sq(work.f), square % FieldPrime, 1)
        /\ Stands(Sq2(work.f), (2 * square) % FieldPrime, 1)
        /\ work.degree <= 2 =>
             Stands(MulFactor(work.f), TimesMod(work.number, Factor, FieldPrime) % FieldPrime, 1)
    BY <2>2, ProductStands
  <2> HIDE DEF square
  <2>4. CASE work' = Element(Mul(work.f, work.other),
                             TimesMod(work.number, work.otherNumber, FieldPrime), 1, work.ops + 1)
    BY <1>1, <2>1, <2>2, <2>3, <2>4
  <2>5. CASE work' = Element(Sq(work.f), square, 1, work.ops + 1)
    BY <1>1, <2>1, <2>2, <2>3, <2>5
  <2>6. CASE work' = Element(Sq2(work.f), 2 * square, 1, work.ops + 1)
    BY <1>1, <2>1, <2>2, <2>3, <2>6
  <2>7. CASE /\ work.degree <= 2
             /\ work' = Element(MulFactor(work.f),
                                TimesMod(work.number, Factor, FieldPrime), 1, work.ops + 1)
    BY <1>1, <2>1, <2>2, <2>3, <2>7
  <2> QED
    BY <1>3, <2>4, <2>5, <2>6, <2>7 DEF FieldProduct, square
<1>4. CASE MacBlock
  <2>1. DOMAIN work' = DOMAIN work /\ work'.unit = "mac"
    BY <1>0, <1>4 DEF MacBlock
  <2> QED
    BY <1>0, <2>1 DEF FieldInv
<1>5. CASE HashUpdate
  <2>1. DOMAIN work' = DOMAIN work /\ work'.unit = "hash"
    BY <1>0, <1>5 DEF HashUpdate
  <2> QED
    BY <1>0, <2>1 DEF FieldInv
<1>6. CASE HashFinal
  <2>1. DOMAIN work' = DOMAIN work /\ work'.unit = "hash"
    BY <1>0, <1>6 DEF HashFinal
  <2> QED
    BY <1>0, <2>1 DEF FieldInv
<1>7. CASE UNCHANGED work
  BY <1>7 DEF FieldInv
<1> QED
  BY <1>2, <1>3, <1>4, <1>5, <1>6, <1>7 DEF Next

LEMMA FieldIsNumber == ASSUME FieldFits PROVE FieldInv => FieldMatches
<1> SUFFICES ASSUME FieldInv, work.unit = "field" PROVE FieldMatches
  BY DEF FieldMatches
<1>1. work.degree \in 1..3 /\ Stands(work.f, work.number, work.degree)
  BY DEF FieldInv
<1>2. PICK p \in Nat : p = FieldPrime /\ p > 0
  BY PrimeIs
<1>3. work.number \in 0..p - 1 /\ Loose(work.f, work.degree) /\ Same(FieldValue(work.f), work.number)
  BY <1>1, <1>2 DEF Stands
<1>4. work.number % p = work.number
  <2>1. work.number = p * 0 + work.number /\ work.number \in Int
    BY <1>2, <1>3
  <2> QED
    BY <1>2, <1>3, <2>1, RemainderUnique
<1>5. FieldValue(work.f) % FieldPrime = work.number
  <2>1. FieldValue(work.f) \in Int /\ work.number \in Int
    BY <1>2, <1>3, FieldValueType DEF Loose
  <2>2. FieldValue(work.f) % FieldPrime = work.number % FieldPrime
    BY <1>3, <2>1, SameIsRemainder
  <2> QED
    BY <1>2, <1>4, <2>2
<1>6. ASSUME work.degree <= 2 PROVE ToBytes(work.f) = work.number
  <2>1. Loose(work.f, 2)
    <3>1. work.degree \in Nat /\ 2 \in Nat
      BY <1>1
    <3> QED
      BY <1>3, <1>6, <3>1, Looser
  <2> QED
    BY <1>5, <2>1, ToBytesIs
<1> QED
  BY <1>5, <1>6 DEF FieldMatches, IsNegative, IsNonzero

(* For ten limbs as wide as the code's, whatever elements fe_frombytes is  *)
(* given and however many operations follow: the products wrap around, the *)
(* carries lose nothing and bring every limb back to its width, and        *)
(* fe_tobytes, fe_isnegative and fe_isnonzero see the one representative   *)
(* below the prime.                                                        *)
THEOREM FieldIsRight == FieldFits => (Spec => []FieldMatches)
<1> SUFFICES ASSUME FieldFits PROVE Spec => []FieldMatches
  OBVIOUS
<1>1. Init => FieldInv
  BY InitField
<1>2. FieldInv /\ [Next]_work => FieldInv'
  BY FieldStep
<1>3. FieldInv => FieldMatches
  BY FieldIsNumber
<1> QED
  BY <1>1, <1>2, <1>3, PTL DEF Spec
=============================================================================
