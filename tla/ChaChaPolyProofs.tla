-------------------------- MODULE ChaChaPolyProofs --------------------------
(***************************************************************************)
(* Whatever the sizes of blocks and of the pieces, the Poly1305 context    *)
(* of a ChaCha20-Poly1305 operation is determined by what it was given     *)
(* since it was started, the tag is that of the padded layout, the layout  *)
(* tells messages apart, and so auth_decrypt releases the text of sealed   *)
(* messages only.                                                          *)
(***************************************************************************)
EXTENDS ChaChaPoly, Integers, FiniteSetTheorems, SequenceTheorems, TLAPS

-----------------------------------------------------------------------------
(* Sequences of anything. *)
IsSeq(s) == \E S : s \in Seq(S)

LEMMA SeqFacts ==
    ASSUME NEW s, IsSeq(s)
    PROVE  Len(s) \in Nat /\ DOMAIN s = 1..Len(s) /\ s = [i \in 1..Len(s) |-> s[i]]
<1>1. PICK S : s \in Seq(S)
  BY DEF IsSeq
<1> QED
  BY <1>1, LenProperties

LEMMA SeqOfFunction ==
    ASSUME NEW n \in Nat, NEW s, s = [i \in 1..n |-> s[i]]
    PROVE  IsSeq(s) /\ Len(s) = n
<1> DEFINE S == {s[i] : i \in 1..n}
<1>1. s \in [1..n -> S]
  <2>1. \A i \in 1..n : s[i] \in S
    OBVIOUS
  <2> HIDE DEF S
  <2> QED
    BY <2>1
<1>2. s \in Seq(S)
  BY <1>1, SeqDef
<1>3. Len(s) = n
  <2>1. DOMAIN s = 1..n /\ DOMAIN s = 1..Len(s) /\ Len(s) \in Nat
    BY <1>1, <1>2, LenProperties
  <2> QED
    BY <2>1
<1> QED
  BY <1>2, <1>3 DEF IsSeq

LEMMA SeqsEqual ==
    ASSUME NEW s, NEW t, IsSeq(s), IsSeq(t), Len(s) = Len(t),
           \A i \in 1..Len(s) : s[i] = t[i]
    PROVE  s = t
<1>1. s = [i \in 1..Len(s) |-> s[i]] /\ t = [i \in 1..Len(t) |-> t[i]]
  BY SeqFacts
<1>2. [i \in 1..Len(s) |-> s[i]] = [i \in 1..Len(s) |-> t[i]]
  OBVIOUS
<1> QED
  BY <1>1, <1>2, Zenon

LEMMA ConcatSeqs ==
    ASSUME NEW s, NEW t, IsSeq(s), IsSeq(t)
    PROVE  /\ IsSeq(s \o t) /\ Len(s \o t) = Len(s) + Len(t)
           /\ \A i \in 1..Len(s) : (s \o t)[i] = s[i]
           /\ \A i \in 1..Len(t) : (s \o t)[Len(s) + i] = t[i]
<1>1. PICK S : s \in Seq(S)
  BY DEF IsSeq
<1>2. PICK T : t \in Seq(T)
  BY DEF IsSeq
<1>3. PICK U : U = S \cup T
  OBVIOUS
<1>4. s \in Seq(U) /\ t \in Seq(U)
  BY <1>1, <1>2, <1>3, SeqMonotonic
<1>5. s \o t \in Seq(U) /\ Len(s \o t) = Len(s) + Len(t)
  BY <1>4, ConcatProperties
<1>6. ASSUME NEW i \in 1..Len(s) PROVE (s \o t)[i] = s[i]
  BY <1>4
<1>7. ASSUME NEW i \in 1..Len(t) PROVE (s \o t)[Len(s) + i] = t[i]
  BY <1>4
<1> QED
  BY <1>5, <1>6, <1>7 DEF IsSeq

LEMMA SubSeqFacts ==
    ASSUME NEW s, IsSeq(s), NEW m \in Nat, m >= 1, NEW n \in Nat, n <= Len(s), m <= n + 1
    PROVE  /\ IsSeq(SubSeq(s, m, n)) /\ Len(SubSeq(s, m, n)) = n - m + 1
           /\ \A i \in 1..(n - m + 1) : SubSeq(s, m, n)[i] = s[m + i - 1]
<1>1. PICK S : s \in Seq(S)
  BY DEF IsSeq
<1>2. \A i \in m..n : s[i] \in S
  BY <1>1
<1>3. /\ SubSeq(s, m, n) \in Seq(S)
      /\ Len(SubSeq(s, m, n)) = IF m <= n THEN n - m + 1 ELSE 0
      /\ \A i \in 1..(n - m + 1) : SubSeq(s, m, n)[i] = s[m + i - 1]
  BY <1>2, SubSeqProperties
<1>4. Len(SubSeq(s, m, n)) = n - m + 1
  BY <1>3
<1>5. IsSeq(SubSeq(s, m, n))
  BY <1>3 DEF IsSeq
<1> QED
  BY <1>3, <1>4, <1>5, Zenon

LEMMA NoBytes == IsSeq(<<>>) /\ Len(<<>>) = 0
BY EmptySeq DEF IsSeq

-----------------------------------------------------------------------------
(* Division by the size of a block. *)
LEMMA Division ==
    ASSUME NEW x \in Nat
    PROVE  x \div P \in Nat /\ x % P \in 0..(P - 1) /\ x = P * (x \div P) + (x % P)
<1> DEFINE q == x \div P
           r == x % P
<1>1. P \in Nat /\ P > 0
  BY PolyAssumption
<1>2. q \in Int /\ r \in 0..(P - 1) /\ x = P * q + r
  <2>1. q \in Int
    BY <1>1, SMTT(30)
  <2>2. r \in 0..(P - 1)
    BY <1>1, SMTT(30)
  <2>3. x = P * q + r
    BY <1>1, SMTT(30)
  <2> QED
    BY <2>1, <2>2, <2>3
<1> HIDE DEF q, r
<1>3. q >= 0
  <2>1. SUFFICES ASSUME q <= -1 PROVE FALSE
    BY <1>2
  <2>2. P * q <= P * (-1)
    BY <1>1, <1>2, <2>1
  <2> QED
    BY <1>1, <1>2, <2>2
<1> QED
  BY <1>2, <1>3 DEF q, r

LEMMA Quotient ==
    ASSUME NEW q \in Nat, NEW r \in 0..(P - 1), NEW x \in Nat, x = P * q + r
    PROVE  x \div P = q /\ x % P = r
<1> DEFINE a == x \div P
           b == x % P
<1>1. P \in Nat /\ P > 0
  BY PolyAssumption
<1>2. a \in Nat /\ b \in 0..(P - 1) /\ x = P * a + b
  BY Division
<1> HIDE DEF a, b
<1>3. ~(a >= q + 1)
  <2>1. SUFFICES ASSUME a >= q + 1 PROVE FALSE
    OBVIOUS
  <2>2. P * a >= P * (q + 1) /\ P * (q + 1) = P * q + P
    BY <1>1, <1>2, <2>1
  <2> QED
    BY <1>1, <1>2, <2>2
<1>4. ~(q >= a + 1)
  <2>1. SUFFICES ASSUME q >= a + 1 PROVE FALSE
    OBVIOUS
  <2>2. P * q >= P * (a + 1) /\ P * (a + 1) = P * a + P
    BY <1>1, <1>2, <2>1
  <2> QED
    BY <1>1, <1>2, <2>2
<1>5. a = q
  BY <1>2, <1>3, <1>4
<1>6. b = r
  <2>1. P * a = P * q /\ P * q \in Int
    BY <1>1, <1>5
  <2> QED
    BY <1>2, <2>1
<1> QED
  BY <1>5, <1>6 DEF a, b

-----------------------------------------------------------------------------
(* What the Poly1305 context p is after it has been given the bytes s. *)
Absorbed(p, K, s) ==
    /\ DOMAIN p = {"key", "blocks", "queue"}
    /\ p.key = K /\ p.blocks = FullBlocks(s) /\ p.queue = Rest(s)

LEMMA RestFacts ==
    ASSUME NEW s, IsSeq(s)
    PROVE  /\ IsSeq(Rest(s)) /\ Len(Rest(s)) = Len(s) % P
           /\ \A i \in 1..(Len(s) % P) : Rest(s)[i] = s[P * (Len(s) \div P) + i]
<1> DEFINE q == Len(s) \div P
           r == Len(s) % P
<1>1. Len(s) \in Nat /\ P \in Nat
  BY SeqFacts, PolyAssumption
<1>2. q \in Nat /\ r \in 0..(P - 1) /\ Len(s) = P * q + r
  BY <1>1, Division
<1>3. P * q \in Nat
  BY <1>1, <1>2
<1>4. Rest(s) = SubSeq(s, Len(s) - r + 1, Len(s))
  BY DEF Rest
<1> HIDE DEF q, r
<1>5. Len(s) - r + 1 \in Nat /\ Len(s) - r + 1 >= 1 /\ Len(s) - r + 1 <= Len(s) + 1
  BY <1>1, <1>2, <1>3
<1>6. Len(s) - (Len(s) - r + 1) + 1 = r
  BY <1>1, <1>2, <1>3
<1>7. /\ IsSeq(Rest(s)) /\ Len(Rest(s)) = r
      /\ \A i \in 1..r : Rest(s)[i] = s[(Len(s) - r + 1) + i - 1]
  <2> DEFINE m == Len(s) - r + 1
             t == SubSeq(s, m, Len(s))
  <2>1. m \in Nat /\ m >= 1 /\ m <= Len(s) + 1 /\ Len(s) <= Len(s)
    BY <1>1, <1>5
  <2>2. Len(s) - m + 1 = r
    BY <1>6
  <2> HIDE DEF m
  <2>3. /\ IsSeq(t) /\ Len(t) = Len(s) - m + 1
        /\ \A i \in 1..(Len(s) - m + 1) : t[i] = s[m + i - 1]
    BY <2>1, <1>1, SubSeqFacts
  <2>4. Rest(s) = t
    BY <1>4 DEF m
  <2> HIDE DEF t
  <2>5. /\ IsSeq(Rest(s)) /\ Len(Rest(s)) = r
        /\ \A i \in 1..r : Rest(s)[i] = s[m + i - 1]
    BY <2>2, <2>3, <2>4
  <2> QED
    BY <2>5 DEF m
<1>8. ASSUME NEW i \in 1..r PROVE (Len(s) - r + 1) + i - 1 = P * q + i
  BY <1>1, <1>2, <1>3
<1>9. \A i \in 1..r : Rest(s)[i] = s[P * q + i]
  BY <1>7, <1>8
<1> QED
  BY <1>7, <1>9 DEF q, r

(* B are the full blocks of s. *)
IsCut(B, s) ==
    /\ IsSeq(B) /\ Len(B) = Len(s) \div P
    /\ \A i \in 1..(Len(s) \div P) :
          /\ B[i] = PolyBlock(B[i].data, TRUE)
          /\ IsSeq(B[i].data) /\ Len(B[i].data) = P
          /\ \A j \in 1..P : B[i].data[j] = s[P * (i - 1) + j]

LEMMA BlockFacts ==
    ASSUME NEW s, IsSeq(s)
    PROVE  IsCut(FullBlocks(s), s)
<1> DEFINE q == Len(s) \div P
           r == Len(s) % P
           B == FullBlocks(s)
<1>1. Len(s) \in Nat /\ P \in Nat /\ P > 0
  BY SeqFacts, PolyAssumption
<1>2. q \in Nat /\ r \in 0..(P - 1) /\ Len(s) = P * q + r
  BY <1>1, Division
<1>3. B = [i \in 1..q |-> PolyBlock(SubSeq(s, (i - 1) * P + 1, i * P), TRUE)]
  BY DEF FullBlocks
<1> HIDE DEF q, r, B
<1>4. B = [i \in 1..q |-> B[i]]
  BY <1>3
<1>5. IsSeq(B) /\ Len(B) = q
  BY <1>2, <1>4, SeqOfFunction
<1>6. ASSUME NEW i \in 1..q
      PROVE  /\ B[i] = PolyBlock(B[i].data, TRUE)
             /\ IsSeq(B[i].data) /\ Len(B[i].data) = P
             /\ \A j \in 1..P : B[i].data[j] = s[P * (i - 1) + j]
  <2> DEFINE m == (i - 1) * P + 1
             n == i * P
             t == SubSeq(s, m, n)
  <2>1. B[i] = PolyBlock(t, TRUE)
    BY <1>3
  <2>2. B[i].data = t
    <3> HIDE DEF t
    <3>1. PolyBlock(t, TRUE).data = t
      BY DEF PolyBlock
    <3> QED
      BY <2>1, <3>1, Zenon
  <2>3. m = P * (i - 1) + 1 /\ n = P * (i - 1) + P
    BY <1>1, <1>2
  <2>4. P * (i - 1) \in Nat /\ P * (i - 1) + P <= P * q
    <3>1. i - 1 \in Nat /\ i \in Nat /\ i <= q
      BY <1>2
    <3>2. P * (i - 1) \in Nat /\ P * (i - 1) + P = P * i
      BY <1>1, <3>1
    <3>3. P * i <= P * q
      BY <1>1, <1>2, <3>1
    <3> QED
      BY <3>2, <3>3
  <2>5. PICK k \in Nat : k = P * (i - 1)
    BY <2>4
  <2>6. P * q \in Nat
    BY <1>1, <1>2
  <2> HIDE DEF m, n
  <2>7. m = k + 1 /\ n = k + P /\ n <= Len(s)
    <3>1. m = k + 1 /\ n = k + P
      BY <2>3, <2>5
    <3>2. k + P <= P * q
      BY <2>4, <2>5
    <3> QED
      BY <3>1, <3>2, <2>6, <1>1, <1>2
  <2>8. m \in Nat /\ m >= 1 /\ n \in Nat /\ n <= Len(s) /\ m <= n + 1 /\ n - m + 1 = P
    BY <2>7, <1>1
  <2>9. /\ IsSeq(t) /\ Len(t) = n - m + 1
        /\ \A j \in 1..(n - m + 1) : t[j] = s[m + j - 1]
    BY <2>8, SubSeqFacts
  <2>10. IsSeq(t) /\ Len(t) = P /\ \A j \in 1..P : t[j] = s[m + j - 1]
    BY <2>8, <2>9
  <2>11. ASSUME NEW j \in 1..P PROVE m + j - 1 = P * (i - 1) + j
    <3>1. m + j - 1 = k + j
      BY <2>7, <1>1
    <3> QED
      BY <3>1, <2>5
  <2> HIDE DEF t
  <2>12. \A j \in 1..P : t[j] = s[P * (i - 1) + j]
    BY <2>10, <2>11
  <2> QED
    BY <2>1, <2>2, <2>10, <2>12
<1> QED
  BY <1>5, <1>6 DEF q, B, IsCut

(* There is one way to cut it. *)
LEMMA SameBlocks ==
    ASSUME NEW s, IsSeq(s), NEW B, IsCut(B, s)
    PROVE  B = FullBlocks(s)
<1> DEFINE F == FullBlocks(s)
           n == Len(s) \div P
<1>0. IsCut(F, s)
  BY BlockFacts
<1> HIDE DEF F
<1>1. /\ IsSeq(F) /\ Len(F) = Len(B)
      /\ IsSeq(B) /\ Len(B) = n
      /\ \A i \in 1..n :
             /\ F[i] = PolyBlock(F[i].data, TRUE) /\ B[i] = PolyBlock(B[i].data, TRUE)
             /\ IsSeq(F[i].data) /\ Len(F[i].data) = P
             /\ IsSeq(B[i].data) /\ Len(B[i].data) = P
             /\ \A j \in 1..P : F[i].data[j] = B[i].data[j]
  BY <1>0 DEF IsCut
<1> HIDE DEF n
<1>2. ASSUME NEW i \in 1..Len(B) PROVE B[i] = F[i]
  <2>1. \A j \in 1..P : B[i].data[j] = F[i].data[j]
    BY <1>1
  <2>2. IsSeq(B[i].data) /\ IsSeq(F[i].data) /\ Len(B[i].data) = Len(F[i].data)
        /\ Len(B[i].data) = P
    BY <1>1
  <2>3. B[i].data = F[i].data
    BY <2>1, <2>2, SeqsEqual
  <2> QED
    BY <1>1, <2>3
<1>3. B = F
  BY <1>1, <1>2, SeqsEqual
<1> QED
  BY <1>3 DEF F

(* The bytes st are the first bytes of s, done of them, and then all.      *)
Parts(s, st, done, all) ==
    /\ IsSeq(all) /\ done \in Nat /\ Len(st) = done + Len(all)
    /\ \A i \in 1..done : st[i] = s[i]
    /\ \A i \in 1..Len(all) : st[done + i] = all[i]

LEMMA Waiting ==
    ASSUME NEW s, NEW t, IsSeq(s), IsSeq(t)
    PROVE  Parts(s, s \o t, P * (Len(s) \div P), Rest(s) \o t)
<1> DEFINE q == Len(s) \div P
           r == Len(s) % P
           R == Rest(s)
           all == R \o t
           st == s \o t
           done == P * q
<1>1. Len(s) \in Nat /\ Len(t) \in Nat /\ P \in Nat
  BY SeqFacts, PolyAssumption
<1>2. q \in Nat /\ r \in 0..(P - 1) /\ Len(s) = done + r
  BY <1>1, Division
<1>3. done \in Nat
  BY <1>1, <1>2
<1>4. IsSeq(R) /\ Len(R) = r /\ \A i \in 1..r : R[i] = s[done + i]
  BY RestFacts
<1>5. /\ IsSeq(all) /\ Len(all) = Len(R) + Len(t)
      /\ \A i \in 1..Len(R) : all[i] = R[i]
      /\ \A i \in 1..Len(t) : all[Len(R) + i] = t[i]
  <2> HIDE DEF R
  <2> QED
    BY <1>4, ConcatSeqs
<1>6. /\ Len(st) = Len(s) + Len(t)
      /\ \A i \in 1..Len(s) : st[i] = s[i]
      /\ \A i \in 1..Len(t) : st[Len(s) + i] = t[i]
  BY ConcatSeqs
<1> HIDE DEF q, r, R, all, st, done
<1>7. Len(st) = done + Len(all)
  BY <1>1, <1>2, <1>3, <1>4, <1>5, <1>6
<1>8. \A i \in 1..done : st[i] = s[i]
  BY <1>1, <1>2, <1>3, <1>6
<1>9. ASSUME NEW i \in 1..Len(all) PROVE st[done + i] = all[i]
  <2>1. CASE i <= r
    <3>1. i \in 1..r /\ i \in 1..Len(R) /\ done + i \in 1..Len(s)
      BY <1>1, <1>2, <1>3, <1>4, <2>1
    <3> QED
      BY <3>1, <1>4, <1>5, <1>6
  <2>2. CASE i > r
    <3>1. i \in Int /\ i <= r + Len(t)
      BY <1>1, <1>2, <1>4, <1>5
    <3>2. i - r \in 1..Len(t) /\ Len(R) + (i - r) = i /\ Len(s) + (i - r) = done + i
      BY <1>1, <1>2, <1>3, <1>4, <2>2, <3>1
    <3>3. all[Len(R) + (i - r)] = t[i - r] /\ st[Len(s) + (i - r)] = t[i - r]
      BY <1>5, <1>6, <3>2
    <3> QED
      BY <3>2, <3>3
  <2> QED
    BY <1>2, <2>1, <2>2
<1>10. Parts(s, st, done, all)
  BY <1>3, <1>5, <1>7, <1>8, <1>9 DEF Parts
<1> QED
  BY <1>10 DEF q, R, all, st, done

(* Giving t to a context that has been given s. *)
LEMMA AbsorbedStep ==
    ASSUME NEW p, NEW K, NEW s, NEW t, IsSeq(s), IsSeq(t), Absorbed(p, K, s)
    PROVE  Absorbed(PolyUpdate(p, t), K, s \o t)
<1> DEFINE R == Rest(s)
           all == R \o t
           st == s \o t
           q == Len(s) \div P
           d == Len(all) \div P
           done == P * q
           B == FullBlocks(s) \o FullBlocks(all)
<1>1. CASE t = <<>>
  <2>1. s \o t = s
    <3>1. Len(s \o t) = Len(s) /\ IsSeq(s \o t) /\ \A i \in 1..Len(s) : (s \o t)[i] = s[i]
      <4>1. Len(s \o t) = Len(s) + Len(t) /\ IsSeq(s \o t)
            /\ \A i \in 1..Len(s) : (s \o t)[i] = s[i]
        BY ConcatSeqs
      <4>2. Len(t) = 0 /\ Len(s) \in Nat
        BY <1>1, NoBytes, SeqFacts
      <4> QED
        BY <4>1, <4>2
    <3> QED
      BY <3>1, SeqsEqual
  <2> QED
    BY <1>1, <2>1 DEF PolyUpdate
<1>2. CASE t # <<>>
  <2>1. /\ IsSeq(all) /\ done \in Nat /\ Len(st) = done + Len(all)
        /\ \A i \in 1..done : st[i] = s[i]
        /\ \A i \in 1..Len(all) : st[done + i] = all[i]
    <3>1. Parts(s, st, done, all)
      BY Waiting
    <3> HIDE DEF st, done, all
    <3> QED
      BY <3>1 DEF Parts
  <2>2. IsSeq(st) /\ IsSeq(R)
    BY ConcatSeqs, RestFacts
  <2>3. P \in Nat /\ P > 0 /\ Len(s) \in Nat /\ Len(all) \in Nat /\ Len(st) \in Nat
    BY <2>1, <2>2, SeqFacts, PolyAssumption
  <2>4. q \in Nat
    BY <2>3, Division
  <2>5. d \in Nat /\ Len(all) % P \in 0..(P - 1) /\ Len(all) = P * d + (Len(all) % P)
    BY <2>3, Division
  <2>6. Len(st) = P * (q + d) + (Len(all) % P)
    <3> HIDE DEF all, st, q, d
    <3>1. Len(st) = P * q + (P * d + (Len(all) % P))
      BY <2>1, <2>5
    <3>2. P * (q + d) = P * q + P * d /\ P * q \in Nat /\ P * d \in Nat
      BY <2>3, <2>4, <2>5
    <3> QED
      BY <3>1, <3>2, <2>5
  <2>7. Len(st) \div P = q + d /\ Len(st) % P = Len(all) % P
    <3> HIDE DEF all, st, q, d
    <3>1. q + d \in Nat
      BY <2>4, <2>5
    <3> QED
      BY <2>3, <2>5, <2>6, <3>1, Quotient
  <2>8. B = FullBlocks(st)
    <3> DEFINE F == FullBlocks(s)
               G == FullBlocks(all)
    <3>0. IsCut(F, s) /\ IsCut(G, all)
      <4> HIDE DEF all
      <4> QED
        BY <2>1, BlockFacts
    <3> HIDE DEF F, G
    <3>1. /\ IsSeq(F) /\ Len(F) = q
          /\ \A i \in 1..q :
                /\ F[i] = PolyBlock(F[i].data, TRUE)
                /\ IsSeq(F[i].data) /\ Len(F[i].data) = P
                /\ \A j \in 1..P : F[i].data[j] = s[P * (i - 1) + j]
      BY <3>0 DEF IsCut
    <3>2. /\ IsSeq(G) /\ Len(G) = d
          /\ \A i \in 1..d :
                /\ G[i] = PolyBlock(G[i].data, TRUE)
                /\ IsSeq(G[i].data) /\ Len(G[i].data) = P
                /\ \A j \in 1..P : G[i].data[j] = all[P * (i - 1) + j]
      <4> HIDE DEF all
      <4> QED
        BY <3>0 DEF IsCut
    <3>3. /\ IsSeq(B) /\ Len(B) = Len(F) + Len(G)
          /\ \A i \in 1..Len(F) : B[i] = F[i]
          /\ \A i \in 1..Len(G) : B[Len(F) + i] = G[i]
      BY <3>1, <3>2, ConcatSeqs DEF F, G
    <3>4. Len(B) = Len(st) \div P
      <4> HIDE DEF B, st, q, d
      <4> QED
        BY <2>7, <3>1, <3>2, <3>3
    <3>5. ASSUME NEW i \in 1..Len(B)
          PROVE  /\ B[i] = PolyBlock(B[i].data, TRUE)
                 /\ IsSeq(B[i].data) /\ Len(B[i].data) = P
                 /\ \A j \in 1..P : B[i].data[j] = st[P * (i - 1) + j]
      <4> HIDE DEF B, st, q, d, all, R, done
      <4>1. CASE i <= q
        <5>1. i \in 1..q /\ B[i] = F[i]
          BY <2>4, <2>5, <3>1, <3>2, <3>3, <4>1
        <5>2. ASSUME NEW j \in 1..P PROVE st[P * (i - 1) + j] = s[P * (i - 1) + j]
          <6>1. i - 1 \in Nat /\ i \in Nat /\ i <= q /\ i >= 1
            BY <5>1, <2>4
          <6>2. P * (i - 1) \in Nat /\ P * (i - 1) + P = P * i
            BY <2>3, <6>1
          <6>3. P * i <= P * q
            BY <2>3, <2>4, <6>1
          <6>4. P * (i - 1) + j \in 1..done
            <7>1. PICK k \in Nat : k = P * (i - 1)
              BY <6>2
            <7>2. k + P <= done /\ done \in Nat
              BY <7>1, <6>2, <6>3, <2>1 DEF done
            <7>3. k + j \in 1..done
              BY <7>2, <2>3
            <7> QED
              BY <7>1, <7>3
          <6> QED
            BY <6>4, <2>1
        <5> QED
          BY <3>1, <5>1, <5>2
      <4>2. CASE i > q
        <5>1. PICK h \in 1..d : i = q + h
          <6>1. i \in Int /\ i <= q + d
            BY <2>4, <2>5, <3>1, <3>2, <3>3
          <6>2. i - q \in 1..d /\ i = q + (i - q)
            BY <6>1, <2>4, <2>5, <4>2
          <6> QED
            BY <6>2
        <5>2. B[i] = G[h]
          BY <5>1, <3>1, <3>2, <3>3
        <5>3. ASSUME NEW j \in 1..P PROVE st[P * (i - 1) + j] = all[P * (h - 1) + j]
          <6>1. h \in Nat /\ h - 1 \in Nat /\ h <= d /\ i - 1 = q + (h - 1)
            BY <5>1, <2>4, <2>5
          <6>2. P * (i - 1) = P * q + P * (h - 1)
            BY <6>1, <2>3, <2>4
          <6>3. P * (h - 1) \in Nat /\ P * (h - 1) + P = P * h
            BY <2>3, <6>1
          <6>4. P * h <= P * d
            BY <2>3, <2>5, <6>1
          <6>5. P * d \in Nat
            BY <2>3, <2>5
          <6>6. PICK k \in Nat : k = P * (h - 1)
            BY <6>3
          <6>7. k + j \in 1..Len(all)
            <7>1. k + P <= P * d
              BY <6>3, <6>4, <6>6
            <7>2. k + P <= Len(all)
              BY <7>1, <6>5, <2>3, <2>5
            <7> QED
              BY <7>2, <2>3
          <6>8. st[done + (k + j)] = all[k + j]
            BY <6>7, <2>1
          <6>9. P * (i - 1) + j = done + (k + j)
            <7>1. P * (i - 1) = done + k
              BY <6>2, <6>6 DEF done
            <7> QED
              BY <7>1, <2>1
          <6> QED
            BY <6>6, <6>8, <6>9
        <5> QED
          BY <3>2, <5>1, <5>2, <5>3
      <4>3. i <= q \/ i > q
        BY <2>4, <3>3
      <4> QED
        BY <4>1, <4>2, <4>3
    <3> HIDE DEF B, st
    <3>6. IsCut(B, st)
      BY <3>3, <3>4, <3>5 DEF IsCut
    <3> QED
      BY <2>2, <3>6, SameBlocks
  <2>9. Rest(all) = Rest(st)
    <3> DEFINE r == Len(all) % P
    <3>1. /\ IsSeq(Rest(all)) /\ Len(Rest(all)) = r
          /\ \A i \in 1..r : Rest(all)[i] = all[P * d + i]
      BY <2>1, RestFacts
    <3>2. /\ IsSeq(Rest(st)) /\ Len(Rest(st)) = Len(st) % P
          /\ \A i \in 1..(Len(st) % P) : Rest(st)[i] = st[P * (Len(st) \div P) + i]
      BY <2>2, RestFacts
    <3>3. r \in 0..(P - 1) /\ Len(all) = P * d + r /\ Len(st) % P = r
      BY <2>5, <2>7
    <3>4. /\ IsSeq(Rest(st)) /\ Len(Rest(st)) = r
          /\ \A i \in 1..r : Rest(st)[i] = st[P * (q + d) + i]
      BY <3>2, <2>7
    <3> HIDE DEF r, all, st, q, d, R, done
    <3>5. ASSUME NEW i \in 1..r PROVE st[P * (q + d) + i] = all[P * d + i]
      <4>1. P * d \in Nat /\ P * (q + d) = done + P * d
        BY <2>3, <2>4, <2>5 DEF done
      <4>2. PICK k \in Nat : k = P * d
        BY <4>1
      <4>3. k + i \in 1..Len(all) /\ P * (q + d) + i = done + (k + i)
        <5>1. P * (q + d) = done + k /\ Len(all) = k + r
          BY <4>1, <4>2, <3>3
        <5> QED
          BY <5>1, <3>3, <2>1, <2>3
      <4> QED
        BY <4>2, <4>3, <2>1
    <3>6. \A i \in 1..r : Rest(all)[i] = Rest(st)[i]
      BY <3>1, <3>4, <3>5
    <3> QED
      BY <3>1, <3>4, <3>6, SeqsEqual
  <2>10. PolyUpdate(p, t) = [p EXCEPT !.blocks = @ \o FullBlocks(all), !.queue = Rest(all)]
    <3>1. p.queue = R
      BY DEF Absorbed
    <3> HIDE DEF R
    <3> QED
      BY <1>2, <3>1 DEF PolyUpdate
  <2>11. p.blocks \o FullBlocks(all) = B
    <3>1. p.blocks = FullBlocks(s)
      BY DEF Absorbed
    <3> HIDE DEF all
    <3> QED
      BY <3>1
  <2> DEFINE p2 == PolyUpdate(p, t)
  <2>12. /\ DOMAIN p2 = {"key", "blocks", "queue"} /\ p2.key = K
         /\ p2.blocks = B /\ p2.queue = Rest(all)
    <3> HIDE DEF B, all
    <3> QED
      BY <2>10, <2>11 DEF Absorbed
  <2> HIDE DEF B, st, all, p2
  <2>13. Absorbed(p2, K, st)
    BY <2>8, <2>9, <2>12 DEF Absorbed
  <2> QED
    BY <2>13 DEF p2, st
<1> QED
  BY <1>1, <1>2

LEMMA EmptyIs ==
    ASSUME NEW s, IsSeq(s), Len(s) = 0
    PROVE  s = <<>>
<1>1. IsSeq(<<>>) /\ Len(<<>>) = Len(s) /\ \A i \in 1..Len(s) : s[i] = <<>>[i]
  BY NoBytes
<1> QED
  BY <1>1, NoBytes, SeqsEqual

LEMMA AbsorbedNothing ==
    ASSUME NEW K
    PROVE  Absorbed(PolyStarts(K), K, <<>>)
<1>1. Len(<<>>) \div P = 0 /\ Len(<<>>) % P = 0
  <2>1. P \in Nat /\ P > 0 /\ 0 = P * 0 + 0 /\ 0 \in 0..(P - 1)
    BY PolyAssumption
  <2>2. 0 \div P = 0 /\ 0 % P = 0
    BY <2>1, Quotient
  <2> QED
    BY <2>2, NoBytes
<1>2. FullBlocks(<<>>) = <<>>
  <2>1. IsCut(FullBlocks(<<>>), <<>>)
    BY NoBytes, BlockFacts
  <2>2. IsSeq(FullBlocks(<<>>)) /\ Len(FullBlocks(<<>>)) = 0
    BY <1>1, <2>1 DEF IsCut
  <2> QED
    BY <2>2, EmptyIs
<1>3. Rest(<<>>) = <<>>
  <2>1. IsSeq(Rest(<<>>)) /\ Len(Rest(<<>>)) = 0
    BY <1>1, NoBytes, RestFacts
  <2> QED
    BY <2>1, EmptyIs
<1> QED
  BY <1>2, <1>3 DEF Absorbed, PolyStarts

(* A message of whole blocks leaves nothing to close with a 1. *)
LEMMA FinishWhole ==
    ASSUME NEW p, NEW K, NEW s, IsSeq(s), Absorbed(p, K, s), Len(s) % P = 0, NEW one
    PROVE  PolyFinish(p, one) = p
<1>1. IsSeq(Rest(s)) /\ Len(Rest(s)) = 0
  BY RestFacts
<1>2. p.queue = <<>>
  BY <1>1, EmptyIs DEF Absorbed
<1> QED
  BY <1>2 DEF PolyFinish

(* Nothing that was given is lost or reordered. *)
LEMMA InputOfAbsorbed ==
    ASSUME NEW p, NEW K, NEW s, IsSeq(s), Absorbed(p, K, s)
    PROVE  PolyInput(p) = s
<1> DEFINE q == Len(s) \div P
           r == Len(s) % P
           F == FullBlocks(s)
           R == Rest(s)
           in == [k \in 1..Len(s) |->
                    IF k <= P * q THEN F[((k - 1) \div P) + 1].data[((k - 1) % P) + 1]
                    ELSE R[k - P * q]]
<1>1. P \in Nat /\ P > 0 /\ Len(s) \in Nat
  BY SeqFacts, PolyAssumption
<1>2. q \in Nat /\ r \in 0..(P - 1) /\ Len(s) = P * q + r
  BY <1>1, Division
<1>3. IsSeq(R) /\ Len(R) = r /\ \A i \in 1..r : R[i] = s[P * q + i]
  BY RestFacts
<1>4. Len(F) = q /\ \A i \in 1..q : \A j \in 1..P : F[i].data[j] = s[P * (i - 1) + j]
  <2>1. IsCut(F, s)
    BY BlockFacts
  <2> HIDE DEF F
  <2> QED
    BY <2>1 DEF IsCut
<1>5. p.blocks = F /\ p.queue = R
  BY DEF Absorbed
<1>6. PolyInput(p) = in
  <2> HIDE DEF F, R, q, r
  <2>1. P * Len(p.blocks) = P * q /\ P * Len(p.blocks) + Len(p.queue) = Len(s)
    BY <1>1, <1>2, <1>3, <1>4, <1>5
  <2>2. PolyInput(p) = [k \in 1..(P * Len(p.blocks) + Len(p.queue)) |->
                          IF k <= P * Len(p.blocks)
                          THEN p.blocks[((k - 1) \div P) + 1].data[((k - 1) % P) + 1]
                          ELSE p.queue[k - P * Len(p.blocks)]]
    BY DEF PolyInput
  <2> QED
    BY <1>5, <2>1, <2>2
<1> HIDE DEF F, R, q, r
<1>7. ASSUME NEW k \in 1..Len(s) PROVE in[k] = s[k]
  <2>0. P * q \in Nat
    BY <1>1, <1>2
  <2>1. CASE k <= P * q
    <3>1. k - 1 \in Nat
      BY <1>1
    <3>2. PICK a \in Nat, b \in 0..(P - 1) :
              a = (k - 1) \div P /\ b = (k - 1) % P /\ k - 1 = P * a + b
      BY <3>1, Division
    <3>3. a + 1 \in 1..q
      <4>1. SUFFICES ASSUME a >= q PROVE FALSE
        BY <1>2, <3>2
      <4>2. P * a >= P * q /\ P * a \in Nat
        BY <1>1, <1>2, <3>2, <4>1
      <4>3. PICK c \in Nat : c = P * a
        BY <4>2
      <4>4. PICK e \in Nat : e = P * q
        BY <2>0
      <4>5. c >= e /\ k <= e /\ k - 1 = c + b
        BY <4>2, <4>3, <4>4, <2>1, <3>2
      <4> QED
        BY <4>5, <3>1, <3>2, <1>1
    <3>4. b + 1 \in 1..P
      BY <1>1, <3>2
    <3>5. F[a + 1].data[b + 1] = s[P * ((a + 1) - 1) + (b + 1)]
      BY <1>4, <3>3, <3>4
    <3>6. P * ((a + 1) - 1) + (b + 1) = k
      <4>1. (a + 1) - 1 = a
        BY <3>2
      <4>2. PICK c \in Int : c = P * a
        BY <1>1, <3>2
      <4>3. c + (b + 1) = k
        BY <4>2, <3>1, <3>2, <1>1
      <4> QED
        BY <4>1, <4>2, <4>3
    <3>7. in[k] = F[a + 1].data[b + 1]
      BY <2>1, <3>2
    <3> QED
      BY <3>5, <3>6, <3>7
  <2>2. CASE ~(k <= P * q)
    <3>1. k - P * q \in 1..r /\ P * q + (k - P * q) = k
      BY <1>1, <1>2, <2>0, <2>2
    <3>2. R[k - P * q] = s[P * q + (k - P * q)]
      BY <1>3, <3>1
    <3>3. in[k] = R[k - P * q]
      BY <2>2
    <3> QED
      BY <3>1, <3>2, <3>3
  <2> QED
    BY <2>1, <2>2
<1>8. in = [k \in 1..Len(s) |-> s[k]]
  BY <1>7
<1>9. s = [k \in 1..Len(s) |-> s[k]]
  BY SeqFacts
<1> QED
  BY <1>6, <1>8, <1>9

-----------------------------------------------------------------------------
(* The layout. *)
LEMMA WholeSum ==
    ASSUME NEW m \in Nat, NEW n \in Nat, m % P = 0, n % P = 0
    PROVE  (m + n) % P = 0
<1>1. PICK a \in Nat, b \in Nat : m = P * a + 0 /\ n = P * b + 0
  BY Division
<1>2. P \in Nat /\ P > 0 /\ a + b \in Nat /\ m + n \in Nat
  BY <1>1, PolyAssumption
<1>3. m + n = P * (a + b) + 0
  <2>1. P * (a + b) = P * a + P * b /\ P * a \in Nat /\ P * b \in Nat
    BY <1>2
  <2> QED
    BY <1>1, <2>1
<1>4. PICK x \in Nat, q \in Nat : x = m + n /\ q = a + b
  BY <1>2
<1>5. 0 \in 0..(P - 1) /\ x = P * q + 0
  BY <1>2, <1>3, <1>4
<1>6. x % P = 0
  BY <1>5, Quotient
<1> QED
  BY <1>4, <1>6

LEMMA ZerosType ==
    ASSUME NEW n \in Nat
    PROVE  IsSeq(Zeros(n)) /\ Len(Zeros(n)) = n
<1> DEFINE z == Zeros(n)
<1>1. z = [i \in 1..n |-> z[i]]
  BY DEF Zeros
<1> HIDE DEF z
<1>2. IsSeq(z) /\ Len(z) = n
  BY <1>1, SeqOfFunction
<1> QED
  BY <1>2 DEF z

LEMMA PadFacts ==
    ASSUME NEW n \in Nat
    PROVE  IsSeq(Pad(n)) /\ Len(Pad(n)) \in Nat /\ (n + Len(Pad(n))) % P = 0
<1>1. P \in Nat /\ P > 0
  BY PolyAssumption
<1>2. PICK a \in Nat, b \in 0..(P - 1) : a = n \div P /\ b = n % P /\ n = P * a + b
  BY Division
<1>3. CASE b = 0
  <2>1. Pad(n) = <<>>
    BY <1>2, <1>3 DEF Pad
  <2> QED
    BY <1>2, <1>3, <2>1, NoBytes
<1>4. CASE b # 0
  <2>1. Pad(n) = Zeros(P - b)
    BY <1>2, <1>4 DEF Pad
  <2>2. P - b \in Nat
    BY <1>1, <1>2
  <2>3. IsSeq(Pad(n)) /\ Len(Pad(n)) = P - b
    BY <2>1, <2>2, ZerosType
  <2>4. n + (P - b) = P * (a + 1) + 0 /\ a + 1 \in Nat /\ 0 \in 0..(P - 1)
    <3>1. P * (a + 1) = P * a + P /\ P * a \in Nat
      BY <1>1, <1>2
    <3> QED
      BY <1>1, <1>2, <3>1
  <2>5. n + (P - b) \in Nat
    BY <2>2
  <2>6. (n + (P - b)) % P = 0
    BY <2>4, <2>5, Quotient
  <2> QED
    BY <2>2, <2>3, <2>6
<1> QED
  BY <1>3, <1>4

LEMMA LenBlockFacts ==
    ASSUME NEW m, NEW n
    PROVE  /\ IsSeq(LenBlock(m, n)) /\ Len(LenBlock(m, n)) = P /\ P % P = 0
           /\ LenBlock(m, n)[1] = LenByte(m, n, 1)
<1> DEFINE b == LenBlock(m, n)
<1>1. P \in Nat /\ P > 0
  BY PolyAssumption
<1>2. b = [i \in 1..P |-> b[i]]
  BY DEF LenBlock
<1>3. b[1] = LenByte(m, n, 1)
  BY <1>1 DEF LenBlock
<1> HIDE DEF b
<1>4. IsSeq(b) /\ Len(b) = P
  BY <1>1, <1>2, SeqOfFunction
<1>5. P % P = 0
  <2>1. P = P * 1 + 0 /\ 0 \in 0..(P - 1)
    BY <1>1
  <2> QED
    BY <1>1, <2>1, Quotient
<1> QED
  BY <1>3, <1>4, <1>5 DEF b

LEMMA LenByteNames ==
    ASSUME NEW m, NEW n, NEW i, NEW j, LenByte(m, n, 1) = LenByte(i, j, 1)
    PROVE  m = i /\ n = j
BY DEF LenByte, Byte

(* The additional data with its padding, and the ciphertext with its own. *)
Padded(s) == s \o Pad(Len(s))
Before(a, c) == Padded(a) \o c

LEMMA PaddedFacts ==
    ASSUME NEW s, IsSeq(s)
    PROVE  /\ IsSeq(Padded(s)) /\ Len(Padded(s)) = Len(s) + Len(Pad(Len(s)))
           /\ Len(Pad(Len(s))) \in Nat /\ Len(Padded(s)) \in Nat /\ Len(Padded(s)) % P = 0
           /\ \A i \in 1..Len(s) : Padded(s)[i] = s[i]
<1>1. Len(s) \in Nat
  BY SeqFacts
<1> DEFINE t == Pad(Len(s))
<1>2. IsSeq(t) /\ Len(t) \in Nat /\ (Len(s) + Len(t)) % P = 0
  BY <1>1, PadFacts
<1>3. Padded(s) = s \o t
  BY DEF Padded
<1> HIDE DEF t
<1>4. /\ IsSeq(s \o t) /\ Len(s \o t) = Len(s) + Len(t)
      /\ \A i \in 1..Len(s) : (s \o t)[i] = s[i]
  BY <1>2, ConcatSeqs
<1>5. /\ IsSeq(Padded(s)) /\ Len(Padded(s)) = Len(s) + Len(t)
      /\ Len(t) \in Nat /\ Len(Padded(s)) \in Nat /\ Len(Padded(s)) % P = 0
      /\ \A i \in 1..Len(s) : Padded(s)[i] = s[i]
  BY <1>1, <1>2, <1>3, <1>4
<1> QED
  BY <1>5 DEF t

LEMMA LayoutFacts ==
    ASSUME NEW a, NEW c, IsSeq(a), IsSeq(c)
    PROVE  /\ IsSeq(Layout(a, c)) /\ Len(Layout(a, c)) % P = 0
           /\ Len(Layout(a, c)) = Len(Padded(a)) + Len(Padded(c)) + P
           /\ \A i \in 1..Len(a) : Layout(a, c)[i] = a[i]
           /\ \A i \in 1..Len(c) : Layout(a, c)[Len(Padded(a)) + i] = c[i]
           /\ Layout(a, c)[Len(Padded(a)) + Len(Padded(c)) + 1] = LenByte(Len(a), Len(c), 1)
<1> DEFINE pa == Padded(a)
           pc == Pad(Len(c))
           lb == LenBlock(Len(a), Len(c))
           x == pa \o c
           y == x \o pc
           l == y \o lb
<1>1. Layout(a, c) = l
  BY DEF Layout, Padded
<1>2. /\ IsSeq(pa) /\ Len(pa) \in Nat /\ Len(pa) % P = 0
      /\ Len(a) \in Nat /\ Len(pa) >= Len(a) /\ \A i \in 1..Len(a) : pa[i] = a[i]
  <2>1. /\ IsSeq(pa) /\ Len(pa) = Len(a) + Len(Pad(Len(a)))
        /\ Len(Pad(Len(a))) \in Nat /\ Len(pa) \in Nat /\ Len(pa) % P = 0
        /\ \A i \in 1..Len(a) : pa[i] = a[i]
    BY PaddedFacts
  <2>2. Len(a) \in Nat
    BY SeqFacts
  <2> HIDE DEF pa
  <2> QED
    BY <2>1, <2>2
<1>3. /\ IsSeq(pc) /\ Len(pc) \in Nat /\ Len(c) \in Nat /\ (Len(c) + Len(pc)) % P = 0
      /\ Len(Padded(c)) = Len(c) + Len(pc)
  <2>1. Len(c) \in Nat
    BY SeqFacts
  <2>2. IsSeq(pc) /\ Len(pc) \in Nat /\ (Len(c) + Len(pc)) % P = 0
    BY <2>1, PadFacts
  <2>3. Len(Padded(c)) = Len(c) + Len(pc)
    BY PaddedFacts
  <2> QED
    BY <2>1, <2>2, <2>3
<1>4. /\ IsSeq(lb) /\ Len(lb) = P /\ P % P = 0 /\ P \in Nat /\ P > 0
      /\ lb[1] = LenByte(Len(a), Len(c), 1)
  BY LenBlockFacts, PolyAssumption
<1> HIDE DEF pa, pc, lb
<1>5. /\ IsSeq(x) /\ Len(x) = Len(pa) + Len(c)
      /\ \A i \in 1..Len(pa) : x[i] = pa[i]
      /\ \A i \in 1..Len(c) : x[Len(pa) + i] = c[i]
  BY <1>2, ConcatSeqs
<1> HIDE DEF x
<1>6. /\ IsSeq(y) /\ Len(y) = Len(x) + Len(pc)
      /\ \A i \in 1..Len(x) : y[i] = x[i]
  BY <1>3, <1>5, ConcatSeqs
<1> HIDE DEF y
<1>7. /\ IsSeq(l) /\ Len(l) = Len(y) + Len(lb)
      /\ \A i \in 1..Len(y) : l[i] = y[i]
      /\ \A i \in 1..Len(lb) : l[Len(y) + i] = lb[i]
  BY <1>4, <1>6, ConcatSeqs
<1> HIDE DEF l
<1>8. Len(y) = Len(pa) + Len(Padded(c)) /\ Len(y) \in Nat
  BY <1>2, <1>3, <1>5, <1>6
<1>9. Len(l) = Len(pa) + Len(Padded(c)) + P
  BY <1>4, <1>7, <1>8
<1>10. Len(l) % P = 0
  <2>1. Len(Padded(c)) \in Nat /\ Len(Padded(c)) % P = 0
    BY PaddedFacts
  <2>2. (Len(pa) + Len(Padded(c))) % P = 0
    BY <1>2, <2>1, WholeSum
  <2>3. (Len(y) + P) % P = 0
    BY <1>4, <1>8, <2>2, WholeSum
  <2> QED
    BY <1>4, <1>7, <2>3
<1>11. ASSUME NEW i \in 1..Len(a) PROVE l[i] = a[i]
  <2>1. i \in 1..Len(pa) /\ i \in 1..Len(x) /\ i \in 1..Len(y)
    BY <1>2, <1>3, <1>5, <1>6
  <2> QED
    BY <2>1, <1>2, <1>5, <1>6, <1>7
<1>12. ASSUME NEW i \in 1..Len(c) PROVE l[Len(pa) + i] = c[i]
  <2>1. Len(pa) + i \in 1..Len(x) /\ Len(pa) + i \in 1..Len(y)
    BY <1>2, <1>3, <1>5, <1>6
  <2> QED
    BY <2>1, <1>5, <1>6, <1>7
<1>13. l[Len(pa) + Len(Padded(c)) + 1] = LenByte(Len(a), Len(c), 1)
  <2>1. 1 \in 1..Len(lb)
    BY <1>4
  <2>2. l[Len(y) + 1] = lb[1]
    BY <1>7, <2>1
  <2> QED
    BY <1>4, <1>8, <2>2
<1> QED
  BY <1>1, <1>7, <1>9, <1>10, <1>11, <1>12, <1>13 DEF pa

(* The layout says where the additional data ends. *)
LEMMA LayoutTellsApart ==
    ASSUME NEW a, NEW c, NEW b, NEW d, IsSeq(a), IsSeq(b), IsSeq(c), IsSeq(d),
           Layout(a, c) = Layout(b, d)
    PROVE  a = b /\ c = d
<1> DEFINE l == Layout(a, c)
           m == Len(Padded(a)) + Len(Padded(c))
           n == Len(Padded(b)) + Len(Padded(d))
<1>1. /\ Len(l) = m + P
      /\ \A i \in 1..Len(a) : l[i] = a[i]
      /\ \A i \in 1..Len(c) : l[Len(Padded(a)) + i] = c[i]
      /\ l[m + 1] = LenByte(Len(a), Len(c), 1)
  BY LayoutFacts
<1>2. /\ Len(Layout(b, d)) = n + P
      /\ \A i \in 1..Len(b) : Layout(b, d)[i] = b[i]
      /\ \A i \in 1..Len(d) : Layout(b, d)[Len(Padded(b)) + i] = d[i]
      /\ Layout(b, d)[n + 1] = LenByte(Len(b), Len(d), 1)
  BY LayoutFacts
<1>3. m \in Nat /\ n \in Nat /\ P \in Nat
  <2>1. Len(Padded(a)) \in Nat /\ Len(Padded(b)) \in Nat
        /\ Len(Padded(c)) \in Nat /\ Len(Padded(d)) \in Nat
    BY PaddedFacts
  <2> QED
    BY <2>1, PolyAssumption
<1>4. /\ Len(l) = n + P
      /\ \A i \in 1..Len(b) : l[i] = b[i]
      /\ \A i \in 1..Len(d) : l[Len(Padded(b)) + i] = d[i]
      /\ l[n + 1] = LenByte(Len(b), Len(d), 1)
  BY <1>2
<1> HIDE DEF l, m, n
<1>5. m = n
  BY <1>1, <1>3, <1>4
<1>6. Len(a) = Len(b) /\ Len(c) = Len(d)
  BY <1>1, <1>4, <1>5, LenByteNames
<1>7. Len(Padded(a)) = Len(Padded(b))
  <2>1. Len(Padded(a)) = Len(a) + Len(Pad(Len(a))) /\ Len(Padded(b)) = Len(b) + Len(Pad(Len(b)))
    BY PaddedFacts
  <2> QED
    BY <1>6, <2>1
<1>8. a = b
  BY <1>1, <1>4, <1>6, SeqsEqual
<1>9. c = d
  BY <1>1, <1>4, <1>6, <1>7, SeqsEqual
<1> QED
  BY <1>8, <1>9

(* The blocks of a message of whole blocks give its bytes. *)
LEMMA BlocksTellApart ==
    ASSUME NEW s, NEW t, IsSeq(s), IsSeq(t), Len(s) % P = 0, Len(t) % P = 0,
           FullBlocks(s) = FullBlocks(t)
    PROVE  s = t
<1> DEFINE p == [key |-> 0, blocks |-> FullBlocks(s), queue |-> Rest(s)]
<1>1. Rest(s) = Rest(t)
  <2>1. IsSeq(Rest(s)) /\ Len(Rest(s)) = 0 /\ IsSeq(Rest(t)) /\ Len(Rest(t)) = 0
    BY RestFacts
  <2>2. Rest(s) = <<>> /\ Rest(t) = <<>>
    BY <2>1, EmptyIs
  <2> QED
    BY <2>2
<1>2. Absorbed(p, 0, s)
  BY DEF Absorbed
<1>3. Absorbed(p, 0, t)
  BY <1>1 DEF Absorbed
<1> HIDE DEF p
<1>4. PolyInput(p) = s /\ PolyInput(p) = t
  BY <1>2, <1>3, InputOfAbsorbed
<1> QED
  BY <1>4

LEMMA ConcatNothing ==
    ASSUME NEW s, IsSeq(s)
    PROVE  s \o <<>> = s
<1>1. PICK S : s \in Seq(S)
  BY DEF IsSeq
<1> QED
  BY <1>1, ConcatEmptySeq

LEMMA NothingConcat ==
    ASSUME NEW s, IsSeq(s)
    PROVE  <<>> \o s = s
<1>1. PICK S : s \in Seq(S)
  BY DEF IsSeq
<1> QED
  BY <1>1, ConcatEmptySeq

LEMMA ConcatAssociates ==
    ASSUME NEW s, NEW t, NEW u, IsSeq(s), IsSeq(t), IsSeq(u)
    PROVE  (s \o t) \o u = s \o (t \o u)
<1> DEFINE l == (s \o t) \o u
           r == s \o (t \o u)
<1>1. Len(s) \in Nat /\ Len(t) \in Nat /\ Len(u) \in Nat
  BY SeqFacts
<1> DEFINE st == s \o t
           tu == t \o u
<1>2. /\ IsSeq(st) /\ Len(st) = Len(s) + Len(t)
      /\ \A i \in 1..Len(s) : st[i] = s[i]
      /\ \A i \in 1..Len(t) : st[Len(s) + i] = t[i]
  BY ConcatSeqs
<1>3. /\ IsSeq(tu) /\ Len(tu) = Len(t) + Len(u)
      /\ \A i \in 1..Len(t) : tu[i] = t[i]
      /\ \A i \in 1..Len(u) : tu[Len(t) + i] = u[i]
  BY ConcatSeqs
<1> HIDE DEF st, tu
<1>4. /\ IsSeq(st \o u) /\ Len(st \o u) = Len(st) + Len(u)
      /\ \A i \in 1..Len(st) : (st \o u)[i] = st[i]
      /\ \A i \in 1..Len(u) : (st \o u)[Len(st) + i] = u[i]
  <2>1. IsSeq(st)
    BY <1>2
  <2> QED
    BY <2>1, ConcatSeqs
<1>5. /\ IsSeq(s \o tu) /\ Len(s \o tu) = Len(s) + Len(tu)
      /\ \A i \in 1..Len(s) : (s \o tu)[i] = s[i]
      /\ \A i \in 1..Len(tu) : (s \o tu)[Len(s) + i] = tu[i]
  BY <1>3, ConcatSeqs
<1>6. PICK x, y : x = st \o u /\ y = s \o tu
  OBVIOUS
<1>7. /\ IsSeq(x) /\ IsSeq(y) /\ Len(x) = Len(y) /\ Len(x) = Len(s) + Len(t) + Len(u)
  BY <1>1, <1>2, <1>3, <1>4, <1>5, <1>6
<1>8. ASSUME NEW i \in 1..Len(x) PROVE x[i] = y[i]
  <2>1. CASE i <= Len(s)
    <3>1. i \in 1..Len(s) /\ i \in 1..Len(st)
      BY <1>1, <1>2, <1>7, <2>1
    <3> QED
      BY <3>1, <1>2, <1>4, <1>5, <1>6
  <2>2. CASE i > Len(s) /\ i <= Len(s) + Len(t)
    <3>1. PICK j \in 1..Len(t) : i = Len(s) + j
      <4>1. i - Len(s) \in 1..Len(t) /\ i = Len(s) + (i - Len(s))
        BY <1>1, <1>7, <2>2
      <4> QED
        BY <4>1
    <3>2. Len(s) + j \in 1..Len(st) /\ j \in 1..Len(tu)
      BY <1>1, <1>2, <1>3
    <3>3. (st \o u)[Len(s) + j] = t[j] /\ (s \o tu)[Len(s) + j] = t[j]
      BY <3>2, <1>2, <1>3, <1>4, <1>5
    <3> QED
      BY <3>1, <3>3, <1>6
  <2>3. CASE i > Len(s) + Len(t)
    <3>1. PICK j \in 1..Len(u) : i = Len(s) + Len(t) + j
      <4>1. i - (Len(s) + Len(t)) \in 1..Len(u) /\ i = Len(s) + Len(t) + (i - (Len(s) + Len(t)))
        BY <1>1, <1>7, <2>3
      <4> QED
        BY <4>1
    <3>2. /\ Len(t) + j \in 1..Len(tu) /\ Len(s) + (Len(t) + j) = i /\ Len(st) + j = i
      BY <1>1, <1>2, <1>3, <3>1
    <3>3. (st \o u)[i] = u[j]
      BY <3>2, <1>4
    <3>4. (s \o tu)[i] = u[j]
      BY <3>2, <1>3, <1>5
    <3> QED
      BY <3>3, <3>4, <1>6
  <2> QED
    BY <1>1, <1>7, <2>1, <2>2, <2>3
<1>9. x = y
  BY <1>7, <1>8, SeqsEqual
<1> QED
  BY <1>6, <1>9 DEF st, tu

-----------------------------------------------------------------------------
(* Masking. *)
IsByte(b) == \E name, mask : b = <<name, mask>>

LEMMA XorTwice ==
    ASSUME NEW b, NEW k, IsByte(b)
    PROVE  IsByte(Xor(b, k)) /\ Xor(Xor(b, k), k) = b
<1>1. PICK name, mask : b = <<name, mask>>
  BY DEF IsByte
<1> DEFINE x == IF k \in mask THEN mask \ {k} ELSE mask \cup {k}
           y == IF k \in x THEN x \ {k} ELSE x \cup {k}
<1>2. Xor(b, k) = <<name, x>>
  BY <1>1 DEF Xor
<1>3. Xor(<<name, x>>, k) = <<name, y>>
  <2> HIDE DEF x
  <2> QED
    BY DEF Xor
<1>4. y = mask
  <2>1. CASE k \in mask
    <3>1. x = mask \ {k}
      BY <2>1
    <3> HIDE DEF x
    <3>2. y = x \cup {k}
      BY <3>1
    <3> HIDE DEF y
    <3> QED
      BY <2>1, <3>1, <3>2
  <2>2. CASE k \notin mask
    <3>1. x = mask \cup {k}
      BY <2>2
    <3> HIDE DEF x
    <3>2. y = x \ {k}
      BY <3>1
    <3> HIDE DEF y
    <3> QED
      BY <2>2, <3>1, <3>2
  <2> QED
    BY <2>1, <2>2
<1> HIDE DEF x, y
<1> QED
  BY <1>1, <1>2, <1>3, <1>4 DEF IsByte

LEMMA MaskedFacts ==
    ASSUME NEW c, NEW in, IsSeq(in)
    PROVE  /\ IsSeq(Masked(c, in)) /\ Len(Masked(c, in)) = Len(in)
           /\ \A i \in 1..Len(in) :
                 Masked(c, in)[i] = Xor(in[i], <<c.key, c.nonce, c.pos + i - 1>>)
<1> DEFINE m == Masked(c, in)
<1>1. Len(in) \in Nat
  BY SeqFacts
<1>2. \A i \in 1..Len(in) : m[i] = Xor(in[i], <<c.key, c.nonce, c.pos + i - 1>>)
  BY DEF Masked
<1>3. m = [i \in 1..Len(in) |-> m[i]]
  BY DEF Masked
<1> HIDE DEF m
<1>4. IsSeq(m) /\ Len(m) = Len(in)
  BY <1>1, <1>3, SeqOfFunction
<1> QED
  BY <1>2, <1>4 DEF m

-----------------------------------------------------------------------------
(* The phases of an operation: c has been given the additional data a, and *)
(* then x to authenticate.                                                 *)
CtxFields == {"state", "mode", "key", "nonce", "pos", "poly", "aadLen", "ctLen"}

InAad(c, a) ==
    /\ DOMAIN c = CtxFields /\ c.state = "AAD"
    /\ Absorbed(c.poly, <<c.key, c.nonce>>, a)
    /\ c.aadLen = Len(a) /\ c.ctLen = 0 /\ c.pos = KB

InText(c, a, x) ==
    /\ DOMAIN c = CtxFields /\ c.state = "CIPHERTEXT"
    /\ Absorbed(c.poly, <<c.key, c.nonce>>, Before(a, x))
    /\ c.aadLen = Len(a) /\ c.ctLen = Len(x) /\ c.pos = KB + Len(x)

InStream(c, a, x) == (InAad(c, a) /\ x = <<>>) \/ InText(c, a, x)

(* A context that takes no more input holds whole blocks. *)
Idle(c) == /\ DOMAIN c = CtxFields
           /\ \E K, s : IsSeq(s) /\ Len(s) % P = 0 /\ Absorbed(c.poly, K, s)

(* d belongs to the same operation as c. *)
SameRun(c, d) == d.mode = c.mode /\ d.key = c.key /\ d.nonce = c.nonce

LEMMA StartedIs ==
    ASSUME NEW c, NEW n, NEW m
    PROVE  /\ InAad(Started(c, n, m), <<>>)
           /\ Started(c, n, m).mode = m /\ Started(c, n, m).key = c.key
           /\ Started(c, n, m).nonce = n
<1> DEFINE d == Started(c, n, m)
<1>1. /\ DOMAIN d = CtxFields /\ d.state = "AAD" /\ d.mode = m /\ d.key = c.key /\ d.nonce = n
      /\ d.poly = PolyStarts(<<c.key, n>>) /\ d.aadLen = 0 /\ d.ctLen = 0 /\ d.pos = KB
  BY DEF Started, CtxFields
<1> HIDE DEF d
<1>2. Absorbed(d.poly, <<d.key, d.nonce>>, <<>>)
  BY <1>1, AbsorbedNothing
<1>3. Len(<<>>) = 0
  BY NoBytes
<1> QED
  BY <1>1, <1>2, <1>3 DEF InAad, d

LEMMA WithAadIs ==
    ASSUME NEW c, NEW a, NEW b, IsSeq(a), IsSeq(b), InAad(c, a)
    PROVE  InAad(WithAad(c, b), a \o b) /\ SameRun(c, WithAad(c, b))
<1> DEFINE d == WithAad(c, b)
           p == PolyUpdate(c.poly, b)
<1>1. DOMAIN c = CtxFields
  BY DEF InAad
<1>2. /\ DOMAIN d = CtxFields /\ d.state = c.state /\ d.mode = c.mode /\ d.key = c.key
      /\ d.nonce = c.nonce /\ d.poly = p /\ d.ctLen = c.ctLen /\ d.pos = c.pos
      /\ d.aadLen = c.aadLen + Len(b)
  <2> HIDE DEF p
  <2>1. d = [c EXCEPT !.aadLen = @ + Len(b), !.poly = p]
    BY DEF WithAad, p
  <2> QED
    BY <1>1, <2>1 DEF CtxFields
<1>3. Absorbed(p, <<c.key, c.nonce>>, a \o b)
  BY AbsorbedStep DEF InAad
<1>4. Len(a \o b) = Len(a) + Len(b)
  BY ConcatSeqs
<1> HIDE DEF d, p
<1>5. InAad(d, a \o b) /\ SameRun(c, d)
  BY <1>2, <1>3, <1>4 DEF InAad, SameRun
<1> QED
  BY <1>5 DEF d

(* Input given to the cipher so far is a sequence in every phase. *)
LEMMA BeforeIs ==
    ASSUME NEW a, NEW x, IsSeq(a), IsSeq(x)
    PROVE  /\ IsSeq(Before(a, x)) /\ Before(a, <<>>) = Padded(a)
           /\ \A y : IsSeq(y) => Before(a, x) \o y = Before(a, x \o y)
<1>1. IsSeq(Padded(a))
  BY PaddedFacts
<1>2. IsSeq(Before(a, x))
  BY <1>1, ConcatSeqs DEF Before
<1>3. Before(a, <<>>) = Padded(a)
  BY <1>1, ConcatNothing DEF Before
<1>4. ASSUME NEW y, IsSeq(y) PROVE Before(a, x) \o y = Before(a, x \o y)
  BY <1>1, <1>4, ConcatAssociates DEF Before
<1> QED
  BY <1>2, <1>3, <1>4

LEMMA AadClosedIs ==
    ASSUME NEW c, NEW a, NEW x, IsSeq(a), IsSeq(x), InStream(c, a, x)
    PROVE  InText(AadClosed(c), a, x) /\ SameRun(c, AadClosed(c))
<1>1. CASE InText(c, a, x)
  <2>1. AadClosed(c) = c
    BY <1>1 DEF InText, AadClosed
  <2> QED
    BY <1>1, <2>1 DEF SameRun
<1>2. CASE InAad(c, a) /\ x = <<>>
  <2> DEFINE d == AadClosed(c)
             p == PolyUpdate(c.poly, Pad(c.aadLen))
  <2>1. DOMAIN c = CtxFields /\ c.state = "AAD" /\ c.aadLen = Len(a) /\ c.ctLen = 0 /\ c.pos = KB
    BY <1>2 DEF InAad
  <2>2. /\ DOMAIN d = CtxFields /\ d.state = "CIPHERTEXT" /\ d.mode = c.mode /\ d.key = c.key
        /\ d.nonce = c.nonce /\ d.poly = p /\ d.ctLen = 0 /\ d.pos = KB /\ d.aadLen = Len(a)
    <3>1. d = [c EXCEPT !.state = "CIPHERTEXT", !.poly = PolyUpdate(@, Pad(c.aadLen))]
      BY <2>1 DEF AadClosed
    <3>2. d = [c EXCEPT !.state = "CIPHERTEXT", !.poly = p]
      BY <3>1
    <3> HIDE DEF p, d
    <3> QED
      BY <2>1, <3>2 DEF CtxFields
  <2>3. IsSeq(Pad(Len(a))) /\ Len(a) \in Nat
    BY SeqFacts, PadFacts
  <2>4. Absorbed(PolyUpdate(c.poly, Pad(Len(a))), <<c.key, c.nonce>>, a \o Pad(Len(a)))
    BY <1>2, <2>3, AbsorbedStep DEF InAad
  <2>5. a \o Pad(Len(a)) = Before(a, <<>>)
    BY BeforeIs DEF Padded
  <2>6. Absorbed(p, <<c.key, c.nonce>>, Before(a, x))
    BY <1>2, <2>1, <2>4, <2>5
  <2>7. Len(x) = 0 /\ KB + Len(x) = KB
    BY <1>2, NoBytes, AeadAssumption
  <2> HIDE DEF d, p
  <2>8. InText(d, a, x) /\ SameRun(c, d)
    BY <2>2, <2>6, <2>7 DEF InText, SameRun
  <2> QED
    BY <2>8 DEF d
<1> QED
  BY <1>1, <1>2 DEF InStream

CipherOf(c, in) == IF c.mode = "ENCRYPT" THEN Masked(c, in) ELSE in

LEMMA CipherType ==
    ASSUME NEW c, NEW in, IsSeq(in)
    PROVE  IsSeq(CipherOf(c, in)) /\ Len(CipherOf(c, in)) = Len(in)
BY MaskedFacts DEF CipherOf

LEMMA WithTextIs ==
    ASSUME NEW c, NEW a, NEW x, NEW in, IsSeq(a), IsSeq(x), IsSeq(in), InStream(c, a, x)
    PROVE  InText(WithText(c, in), a, x \o CipherOf(c, in)) /\ SameRun(c, WithText(c, in))
<1> DEFINE d == WithText(c, in)
           e == AadClosed(c)
           y == CipherOf(c, in)
           p == PolyUpdate(e.poly, y)
<1>1. InText(e, a, x) /\ SameRun(c, e)
  BY AadClosedIs
<1>2. IsSeq(y) /\ Len(y) = Len(in)
  BY CipherType
<1>3. d = [e EXCEPT !.ctLen = @ + Len(in), !.pos = @ + Len(in), !.poly = p]
  BY DEF WithText, CipherOf
<1> HIDE DEF d, e, y, p
<1>4. /\ DOMAIN d = CtxFields /\ d.state = e.state /\ d.mode = e.mode /\ d.key = e.key
      /\ d.nonce = e.nonce /\ d.poly = p /\ d.aadLen = e.aadLen
      /\ d.ctLen = e.ctLen + Len(in) /\ d.pos = e.pos + Len(in)
  BY <1>1, <1>3 DEF InText, CtxFields
<1>5. Absorbed(p, <<e.key, e.nonce>>, Before(a, x \o y))
  <2>1. IsSeq(Before(a, x)) /\ Before(a, x) \o y = Before(a, x \o y)
    BY <1>2, BeforeIs
  <2>2. Absorbed(e.poly, <<e.key, e.nonce>>, Before(a, x))
    BY <1>1 DEF InText
  <2>3. Absorbed(PolyUpdate(e.poly, y), <<e.key, e.nonce>>, Before(a, x) \o y)
    BY <1>2, <2>1, <2>2, AbsorbedStep
  <2> QED
    BY <2>1, <2>3 DEF p
<1>6. Len(x \o y) = Len(x) + Len(in) /\ Len(x) \in Nat /\ Len(in) \in Nat
  BY <1>2, ConcatSeqs, SeqFacts
<1>7. (KB + Len(x)) + Len(in) = KB + (Len(x) + Len(in))
  BY <1>6, AeadAssumption
<1>8. /\ e.aadLen = Len(a) /\ e.ctLen = Len(x) /\ e.pos = KB + Len(x) /\ e.state = "CIPHERTEXT"
  BY <1>1 DEF InText
<1>9. InText(d, a, x \o y)
  BY <1>4, <1>5, <1>6, <1>7, <1>8 DEF InText
<1>10. SameRun(c, d)
  BY <1>1, <1>4 DEF SameRun
<1> QED
  BY <1>9, <1>10 DEF d, y

(* finish makes the layout whole, whichever call came last. *)
LEMMA FinishedIs ==
    ASSUME NEW c, NEW a, NEW x, IsSeq(a), IsSeq(x), InStream(c, a, x)
    PROVE  /\ Absorbed(Finished(c).poly, <<c.key, c.nonce>>, Layout(a, x))
           /\ DOMAIN Finished(c) = CtxFields /\ Finished(c).state = "FINISHED"
           /\ Finished(c).pos = c.pos /\ Finished(c).aadLen = c.aadLen
           /\ Finished(c).ctLen = c.ctLen /\ SameRun(c, Finished(c))
<1> DEFINE d == Finished(c)
           K == <<c.key, c.nonce>>
           pad == IF c.state = "AAD" THEN Pad(c.aadLen)
                  ELSE IF c.state = "CIPHERTEXT" THEN Pad(c.ctLen) ELSE <<>>
           lb == LenBlock(c.aadLen, c.ctLen)
           p == PolyUpdate(c.poly, pad)
           q == PolyUpdate(p, lb)
<1>1. Len(a) \in Nat /\ Len(x) \in Nat
  BY SeqFacts
<1>2. c.aadLen = Len(a) /\ c.ctLen = Len(x) /\ DOMAIN c = CtxFields
  BY NoBytes DEF InStream, InAad, InText
<1>3. Absorbed(p, K, Before(a, x) \o Pad(Len(x)))
  <2>1. CASE InText(c, a, x)
    <3>1. pad = Pad(Len(x))
      BY <1>2, <2>1 DEF InText
    <3>2. Absorbed(c.poly, K, Before(a, x))
      BY <2>1 DEF InText
    <3>3. IsSeq(Before(a, x)) /\ IsSeq(Pad(Len(x)))
      BY <1>1, BeforeIs, PadFacts
    <3> HIDE DEF K, pad
    <3> QED
      BY <3>1, <3>2, <3>3, AbsorbedStep
  <2>2. CASE InAad(c, a) /\ x = <<>>
    <3>1. pad = Pad(Len(a))
      BY <1>2, <2>2 DEF InAad
    <3>2. Absorbed(c.poly, K, a)
      BY <2>2 DEF InAad
    <3>3. IsSeq(Pad(Len(a)))
      BY <1>1, PadFacts
    <3>4. Absorbed(p, K, Padded(a))
      <4> HIDE DEF K, pad
      <4> QED
        BY <3>1, <3>2, <3>3, AbsorbedStep DEF Padded
    <3>5. Pad(Len(x)) = <<>>
      <4>1. Len(x) = 0 /\ 0 % P = 0
        <5>1. P \in Nat /\ P > 0 /\ 0 = P * 0 + 0 /\ 0 \in 0..(P - 1)
          BY PolyAssumption
        <5>2. 0 % P = 0
          BY <5>1, Quotient
        <5> QED
          BY <2>2, <5>2, NoBytes
      <4> QED
        BY <4>1 DEF Pad
    <3>6. Before(a, x) \o Pad(Len(x)) = Padded(a)
      BY <2>2, <3>5, PaddedFacts, ConcatNothing DEF Before
    <3> HIDE DEF K, p
    <3> QED
      BY <3>4, <3>6
  <2> QED
    BY <2>1, <2>2 DEF InStream
<1>4. /\ IsSeq(lb) /\ lb = LenBlock(Len(a), Len(x))
  BY <1>2, LenBlockFacts
<1>5. Absorbed(q, K, Layout(a, x))
  <2>1. IsSeq(Before(a, x) \o Pad(Len(x)))
    BY <1>1, BeforeIs, PadFacts, ConcatSeqs
  <2>2. (Before(a, x) \o Pad(Len(x))) \o lb = Layout(a, x)
    BY <1>4 DEF Before, Padded, Layout
  <2> HIDE DEF K, p, lb
  <2>3. Absorbed(q, K, (Before(a, x) \o Pad(Len(x))) \o lb)
    BY <1>3, <1>4, <2>1, AbsorbedStep
  <2> QED
    BY <2>2, <2>3
<1>6. IsSeq(Layout(a, x)) /\ Len(Layout(a, x)) % P = 0
  BY LayoutFacts
<1> HIDE DEF K
<1>7. PolyFinish(q, Byte(<<"one">>)) = q
  <2> HIDE DEF q
  <2> QED
    BY <1>5, <1>6, FinishWhole
<1>8. d = [c EXCEPT !.state = "FINISHED", !.poly = PolyFinish(q, Byte(<<"one">>))]
  BY DEF Finished
<1> HIDE DEF q, d
<1>9. /\ DOMAIN d = CtxFields /\ d.state = "FINISHED" /\ d.poly = q /\ d.mode = c.mode
      /\ d.key = c.key /\ d.nonce = c.nonce /\ d.pos = c.pos /\ d.aadLen = c.aadLen
      /\ d.ctLen = c.ctLen
  BY <1>2, <1>7, <1>8 DEF CtxFields
<1> QED
  BY <1>5, <1>9 DEF SameRun, d, K

(* So the first tag is that of the layout. *)
LEMMA TagIs ==
    ASSUME NEW c, NEW a, NEW x, IsSeq(a), IsSeq(x), InStream(c, a, x)
    PROVE  Tag(Finished(c)) = Reference(c.key, c.nonce, a, x, 0)
<1> DEFINE p == Finished(c).poly
           F == FullBlocks(Layout(a, x))
           none == [i \in 1..0 |-> PolyBlock(LenBlock(Len(a), Len(x)), TRUE)]
<1>1. Absorbed(p, <<c.key, c.nonce>>, Layout(a, x))
  BY FinishedIs
<1>2. Tag(Finished(c)) = [key |-> p.key, blocks |-> p.blocks]
  BY DEF Tag, PolyMac
<1> HIDE DEF p
<1>3. p.key = <<c.key, c.nonce>> /\ p.blocks = F
  BY <1>1 DEF Absorbed
<1>4. Reference(c.key, c.nonce, a, x, 0) = [key |-> <<c.key, c.nonce>>, blocks |-> F \o none]
  BY DEF Reference
<1>5. IsSeq(F)
  <2>1. IsSeq(Layout(a, x)) /\ IsCut(F, Layout(a, x))
    BY LayoutFacts, BlockFacts
  <2> QED
    BY <2>1 DEF IsCut
<1>6. none = <<>>
  OBVIOUS
<1>7. F \o none = F
  <2> HIDE DEF F, none
  <2> QED
    BY <1>5, <1>6, ConcatNothing
<1> HIDE DEF F, none
<1> QED
  BY <1>2, <1>3, <1>4, <1>7

(* The lengths are one block. *)
LEMMA LengthsAreABlock ==
    ASSUME NEW m, NEW n
    PROVE  /\ IsSeq(FullBlocks(LenBlock(m, n))) /\ Len(FullBlocks(LenBlock(m, n))) = 1
           /\ FullBlocks(LenBlock(m, n))[1] = PolyBlock(LenBlock(m, n), TRUE)
<1> DEFINE lb == LenBlock(m, n)
           B == FullBlocks(lb)
<1>1. IsSeq(lb) /\ Len(lb) = P /\ P \in Nat /\ P > 0
  BY LenBlockFacts, PolyAssumption
<1>2. IsCut(B, lb)
  BY <1>1, BlockFacts
<1>3. P \div P = 1
  <2>1. P = P * 1 + 0 /\ 0 \in 0..(P - 1)
    BY <1>1
  <2> QED
    BY <1>1, <2>1, Quotient
<1> HIDE DEF B, lb
<1>4. /\ IsSeq(B) /\ Len(B) = 1 /\ B[1] = PolyBlock(B[1].data, TRUE)
      /\ IsSeq(B[1].data) /\ Len(B[1].data) = P
      /\ \A j \in 1..P : B[1].data[j] = lb[P * (1 - 1) + j]
  <2>1. Len(lb) \div P = 1 /\ 1 \in 1..1
    BY <1>1, <1>3
  <2>2. /\ IsSeq(B) /\ Len(B) = 1
        /\ \A i \in 1..1 :
              /\ B[i] = PolyBlock(B[i].data, TRUE)
              /\ IsSeq(B[i].data) /\ Len(B[i].data) = P
              /\ \A j \in 1..P : B[i].data[j] = lb[P * (i - 1) + j]
    BY <1>2, <2>1 DEF IsCut
  <2> QED
    BY <2>1, <2>2
<1>5. ASSUME NEW j \in 1..P PROVE B[1].data[j] = lb[j]
  <2>1. P * (1 - 1) + j = j
    BY <1>1
  <2> QED
    BY <1>4, <2>1
<1>6. B[1].data = lb
  BY <1>1, <1>4, <1>5, SeqsEqual
<1> QED
  BY <1>4, <1>6 DEF B, lb

(* Finishing again appends the lengths again, a whole block. *)
LEMMA FinishedAgain ==
    ASSUME NEW c, Idle(c), c.state = "FINISHED"
    PROVE  /\ Idle(Finished(c)) /\ Finished(c).state = "FINISHED" /\ SameRun(c, Finished(c))
           /\ Finished(c).pos = c.pos /\ Finished(c).aadLen = c.aadLen
           /\ Finished(c).ctLen = c.ctLen
           /\ Finished(c).poly.key = c.poly.key
           /\ Finished(c).poly.blocks = c.poly.blocks \o FullBlocks(LenBlock(c.aadLen, c.ctLen))
<1> DEFINE d == Finished(c)
           lb == LenBlock(c.aadLen, c.ctLen)
           p == PolyUpdate(c.poly, <<>>)
           q == PolyUpdate(p, lb)
<1>1. PICK K, s : IsSeq(s) /\ Len(s) % P = 0 /\ Absorbed(c.poly, K, s)
  BY DEF Idle
<1>2. p = c.poly
  BY DEF PolyUpdate
<1>3. /\ IsSeq(lb) /\ Len(lb) = P /\ P % P = 0 /\ P \in Nat /\ P > 0
  BY LenBlockFacts, PolyAssumption
<1> HIDE DEF lb, p
<1>10. q.key = c.poly.key /\ q.blocks = c.poly.blocks \o FullBlocks(lb)
  <2>1. DOMAIN p = {"key", "blocks", "queue"} /\ p.queue = <<>>
    <3>1. IsSeq(Rest(s)) /\ Len(Rest(s)) = 0
      BY <1>1, RestFacts
    <3>2. Rest(s) = <<>>
      BY <3>1, EmptyIs
    <3> QED
      BY <1>1, <1>2, <3>2 DEF Absorbed
  <2>2. lb # <<>> /\ <<>> \o lb = lb
    BY <1>3, NoBytes, NothingConcat
  <2>3. q = [p EXCEPT !.blocks = @ \o FullBlocks(lb), !.queue = Rest(lb)]
    BY <2>1, <2>2 DEF PolyUpdate
  <2> QED
    BY <1>2, <2>1, <2>3
<1>4. Absorbed(q, K, s \o lb)
  BY <1>1, <1>2, <1>3, AbsorbedStep
<1>5. IsSeq(s \o lb) /\ Len(s \o lb) % P = 0
  <2>1. IsSeq(s \o lb) /\ Len(s \o lb) = Len(s) + Len(lb) /\ Len(s) \in Nat
    BY <1>1, <1>3, ConcatSeqs, SeqFacts
  <2>2. (Len(s) + P) % P = 0
    BY <1>1, <1>3, <2>1, WholeSum
  <2> QED
    BY <1>3, <2>1, <2>2
<1> HIDE DEF q
<1>6. PolyFinish(q, Byte(<<"one">>)) = q
  BY <1>4, <1>5, FinishWhole
<1>7. d = [c EXCEPT !.state = "FINISHED", !.poly = PolyFinish(q, Byte(<<"one">>))]
  BY DEF Finished, lb, p, q
<1> HIDE DEF d
<1>8. /\ DOMAIN d = CtxFields /\ d.state = "FINISHED" /\ d.poly = q /\ d.mode = c.mode
      /\ d.key = c.key /\ d.nonce = c.nonce /\ d.pos = c.pos /\ d.aadLen = c.aadLen
      /\ d.ctLen = c.ctLen
  BY <1>6, <1>7 DEF Idle, CtxFields
<1>9. Idle(d)
  BY <1>4, <1>5, <1>8 DEF Idle
<1> QED
  BY <1>8, <1>9, <1>10 DEF SameRun, d, lb

(* One sequence is the concatenation of two if it is as long as both and    *)
(* has the elements of each in turn.                                        *)
LEMMA ConcatIs ==
    ASSUME NEW s, NEW t, NEW u, IsSeq(s), IsSeq(t), IsSeq(u), Len(u) = Len(s) + Len(t),
           \A i \in 1..Len(s) : u[i] = s[i],
           \A i \in 1..Len(t) : u[Len(s) + i] = t[i]
    PROVE  u = s \o t
<1>1. Len(s) \in Nat /\ Len(t) \in Nat
  BY SeqFacts
<1>2. PICK v : v = s \o t
  OBVIOUS
<1>3. IsSeq(v)
  BY <1>2, ConcatSeqs
<1>4. Len(v) = Len(s) + Len(t)
  BY <1>2, ConcatSeqs
<1>5. \A i \in 1..Len(s) : v[i] = s[i]
  BY <1>2, ConcatSeqs
<1>6. \A i \in 1..Len(t) : v[Len(s) + i] = t[i]
  BY <1>2, ConcatSeqs
<1>7. ASSUME NEW i \in 1..(Len(s) + Len(t)) PROVE u[i] = v[i]
  <2>1. CASE i \in 1..Len(s)
    BY <1>5, <2>1
  <2>2. CASE i \notin 1..Len(s)
    <3>1. i - Len(s) \in 1..Len(t) /\ i = Len(s) + (i - Len(s))
      BY <1>1, <2>2
    <3>2. PICK o \in 1..Len(t) : i = Len(s) + o
      BY <3>1
    <3> QED
      BY <1>6, <3>2
  <2> QED
    BY <2>1, <2>2
<1>8. u = v
  BY <1>3, <1>4, <1>7, SeqsEqual
<1> QED
  BY <1>2, <1>8

(* A block repeated. *)
Repeats(s, m, b) == IsSeq(s) /\ Len(s) = m /\ \A i \in 1..m : s[i] = b

LEMMA Repeated ==
    ASSUME NEW b, NEW m \in Nat
    PROVE  Repeats([i \in 1..m |-> b], m, b)
<1> DEFINE old == [i \in 1..m |-> b]
<1>1. old = [i \in 1..m |-> old[i]] /\ \A i \in 1..m : old[i] = b
  OBVIOUS
<1> HIDE DEF old
<1>2. IsSeq(old) /\ Len(old) = m
  BY <1>1, SeqOfFunction
<1>3. Repeats(old, m, b)
  BY <1>1, <1>2 DEF Repeats
<1> QED
  BY <1>3 DEF old

(* Repeated once more it is as before with one more after it. *)
LEMMA OneMoreBlock ==
    ASSUME NEW F, NEW b, NEW one, NEW m \in Nat, NEW old, NEW new, IsSeq(F),
           Repeats(one, 1, b), Repeats(old, m, b), Repeats(new, m + 1, b)
    PROVE  (F \o old) \o one = F \o new
<1>1. IsSeq(one) /\ IsSeq(old) /\ IsSeq(new)
  BY DEF Repeats
<1>2. new = old \o one
  <2>1. Len(new) = Len(old) + Len(one)
    BY DEF Repeats
  <2>2. \A i \in 1..Len(old) : new[i] = old[i]
    BY DEF Repeats
  <2>3. \A i \in 1..Len(one) : new[Len(old) + i] = one[i]
    BY DEF Repeats
  <2> QED
    BY <1>1, <2>1, <2>2, <2>3, ConcatIs
<1> QED
  BY <1>1, <1>2, ConcatAssociates

OneMoreIn(tag, next, one) == next = [key |-> tag.key, blocks |-> tag.blocks \o one]

LEMMA OneMoreReference ==
    ASSUME NEW k, NEW n, NEW a, NEW x, NEW m \in Nat, NEW l, l = m + 1,
           IsSeq(a), IsSeq(x)
    PROVE  OneMoreIn(Reference(k, n, a, x, m), Reference(k, n, a, x, l),
                     FullBlocks(LenBlock(Len(a), Len(x))))
<1>1. PICK F : F = FullBlocks(Layout(a, x))
  OBVIOUS
<1>2. PICK b : b = PolyBlock(LenBlock(Len(a), Len(x)), TRUE)
  OBVIOUS
<1>3. PICK one : one = FullBlocks(LenBlock(Len(a), Len(x)))
  OBVIOUS
<1>4. PICK old, new : old = [i \in 1..m |-> b] /\ new = [i \in 1..(m + 1) |-> b]
  OBVIOUS
<1>5. /\ Reference(k, n, a, x, m) = [key |-> <<k, n>>, blocks |-> F \o old]
      /\ Reference(k, n, a, x, l) = [key |-> <<k, n>>, blocks |-> F \o new]
  BY <1>1, <1>2, <1>4, Zenon DEF Reference
<1>6. Repeats(one, 1, b)
  <2>1. IsSeq(one) /\ Len(one) = 1 /\ one[1] = b
    BY <1>2, <1>3, LengthsAreABlock
  <2>2. \A i \in 1..1 : one[i] = b
    BY <2>1
  <2> QED
    BY <2>1, <2>2 DEF Repeats
<1>7. IsSeq(F)
  <2>1. IsSeq(Layout(a, x)) /\ IsCut(F, Layout(a, x))
    BY <1>1, LayoutFacts, BlockFacts
  <2> QED
    BY <2>1 DEF IsCut
<1>8. Repeats(old, m, b) /\ Repeats(new, m + 1, b)
  <2>1. m + 1 \in Nat
    OBVIOUS
  <2>2. Repeats(old, m, b)
    BY <1>4, Repeated
  <2>3. Repeats(new, m + 1, b)
    BY <1>4, <2>1, Repeated
  <2> QED
    BY <2>2, <2>3
<1>9. (F \o old) \o one = F \o new
  BY <1>6, <1>7, <1>8, OneMoreBlock
<1>10. /\ Reference(k, n, a, x, m).key = <<k, n>>
       /\ Reference(k, n, a, x, m).blocks = F \o old
  BY <1>5
<1> QED
  BY <1>3, <1>5, <1>9, <1>10, Zenon DEF OneMoreIn

(* So the next tag is that of one repetition more. *)
LEMMA OneMoreTag ==
    ASSUME NEW c, Idle(c), c.state = "FINISHED",
           NEW k, NEW n, NEW a, NEW x, NEW m \in Nat, IsSeq(a), IsSeq(x),
           c.aadLen = Len(a), c.ctLen = Len(x), Tag(c) = Reference(k, n, a, x, m)
    PROVE  Tag(Finished(c)) = Reference(k, n, a, x, m + 1)
<1>1. /\ c.poly.key = <<k, n>>
      /\ c.poly.blocks = Reference(k, n, a, x, m).blocks
  BY DEF Tag, PolyMac, Reference
<1>2. PICK one : one = FullBlocks(LenBlock(Len(a), Len(x)))
  OBVIOUS
<1>3. PICK l : l = m + 1
  OBVIOUS
<1>4. OneMoreIn(Reference(k, n, a, x, m), Reference(k, n, a, x, l), one)
  BY <1>2, <1>3, OneMoreReference
<1>5. PICK p, q : p = Reference(k, n, a, x, m) /\ q = Reference(k, n, a, x, l)
  OBVIOUS
<1>6. p.key = <<k, n>>
  BY <1>5 DEF Reference
<1>7. /\ Finished(c).poly.key = <<k, n>>
      /\ Finished(c).poly.blocks = p.blocks \o one
  BY <1>1, <1>2, <1>5, FinishedAgain
<1>8. Tag(Finished(c)) = [key |-> Finished(c).poly.key, blocks |-> Finished(c).poly.blocks]
  BY DEF Tag, PolyMac
<1>9. q = [key |-> p.key, blocks |-> p.blocks \o one]
  BY <1>4, <1>5, Zenon DEF OneMoreIn
<1>10. Tag(Finished(c)) = q
  BY <1>6, <1>7, <1>8, <1>9, Zenon
<1> QED
  BY <1>3, <1>5, <1>10

-----------------------------------------------------------------------------
(* The inductive invariant. *)
CtxInv ==
    /\ ctx.state \in {"INIT", "AAD", "CIPHERTEXT", "FINISHED"}
    /\ ctx.mode \in {"ENCRYPT", "DECRYPT"}
    /\ ctx.key \in Key \cup {NoKey} /\ ctx.nonce \in Nonce \cup {NoKey}
    /\ ctx.pos \in Nat /\ ctx.aadLen \in Nat /\ ctx.ctLen \in Nat
    /\ ret \in {"0", "BAD_STATE", "AUTH_FAILED"} /\ again \in 0..(MaxAgain + 1)

CipherSoFar == IF ctx.mode = "ENCRYPT" THEN output ELSE input

StreamInv ==
    /\ IsSeq(aad) /\ IsSeq(input) /\ IsSeq(output) /\ Len(output) = Len(input)
    /\ Streaming => InStream(ctx, aad, CipherSoFar)
    /\ ctx.state = "AAD" => input = <<>> /\ output = <<>>
    /\ ~Streaming => Idle(ctx)

(* While encrypting, what is read back is what goes into a sealed message. *)
MaskInv ==
    Streaming /\ ctx.mode = "ENCRYPT" =>
        \A i \in 1..Len(input) :
            /\ IsByte(input[i])
            /\ output[i] = Xor(input[i], <<ctx.key, ctx.nonce, KB + i - 1>>)

GoodMessage(s) ==
    /\ IsSeq(s.aad) /\ IsSeq(s.text) /\ IsSeq(s.cipher) /\ Len(s.cipher) = Len(s.text)
    /\ \A i \in 1..Len(s.text) :
          /\ IsByte(s.text[i])
          /\ s.cipher[i] = Xor(s.text[i], <<s.key, s.nonce, KB + i - 1>>)
    /\ s.again \in Nat /\ s.tag = Reference(s.key, s.nonce, s.aad, s.cipher, s.again)

SealedInv == \A s \in sealed : GoodMessage(s)

(* A finished encryption holds its last tag and what the next one is for,  *)
(* whatever key has been set meanwhile.                                    *)
Key1 == ctx.poly.key[1]

AgainInv ==
    /\ Streaming => again = 0
    /\ ctx.state = "FINISHED" /\ ctx.mode = "ENCRYPT" =>
          /\ again > 0 /\ ctx.aadLen = Len(aad) /\ ctx.ctLen = Len(output)
          /\ GoodMessage(Sealed(Key1, ctx.nonce, aad, input, output, Tag(ctx), again - 1))

IInv == CtxInv /\ StreamInv /\ MaskInv /\ AgainInv /\ SealedInv /\ OpensOnlySealed

LEMMA Bytes ==
    ASSUME NEW first \in Nat, NEW n \in Nat
    PROVE  /\ IsSeq(AadBytes(first, n)) /\ Len(AadBytes(first, n)) = n
           /\ IsSeq(TextBytes(first, n)) /\ Len(TextBytes(first, n)) = n
           /\ \A i \in 1..n : IsByte(TextBytes(first, n)[i])
<1> DEFINE a == AadBytes(first, n)
           t == TextBytes(first, n)
<1>1. a = [i \in 1..n |-> a[i]]
  BY DEF AadBytes
<1>2. t = [i \in 1..n |-> t[i]]
  BY DEF TextBytes
<1>3. ASSUME NEW i \in 1..n PROVE IsByte(t[i])
  <2>1. t[i] = <<<<"text", first + i>>, {}>>
    BY DEF TextBytes, TextByte, Byte
  <2> QED
    BY <2>1 DEF IsByte
<1> HIDE DEF a, t
<1>4. IsSeq(a) /\ Len(a) = n
  BY <1>1, SeqOfFunction
<1>5. IsSeq(t) /\ Len(t) = n
  BY <1>2, SeqOfFunction
<1> QED
  BY <1>3, <1>4, <1>5 DEF a, t

LEMMA AppendIs ==
    ASSUME NEW s, IsSeq(s), NEW e
    PROVE  IsSeq(Append(s, e))
<1>1. PICK S : s \in Seq(S)
  BY DEF IsSeq
<1>2. s \in Seq(S \cup {e}) /\ e \in S \cup {e}
  BY <1>1, SeqMonotonic
<1>3. Append(s, e) \in Seq(S \cup {e})
  BY <1>2, AppendProperties
<1> QED
  BY <1>3 DEF IsSeq

LEMMA TailIs ==
    ASSUME NEW s, IsSeq(s), s # <<>>
    PROVE  IsSeq(Tail(s))
<1>1. PICK S : s \in Seq(S)
  BY DEF IsSeq
<1>2. Tail(s) \in Seq(S)
  BY <1>1, HeadTailProperties
<1> QED
  BY <1>2 DEF IsSeq

LEMMA VariantsAre ==
    ASSUME NEW s, IsSeq(s), NEW v \in Variants(s)
    PROVE  IsSeq(v)
<1>1. PICK S : s \in Seq(S)
  BY DEF IsSeq
<1>2. Len(s) \in Nat /\ DOMAIN s = 1..Len(s)
  BY SeqFacts
<1>3. CASE v = s
  BY <1>3
<1>4. CASE v = Append(s, ZeroByte)
  BY <1>4, AppendIs
<1>5. ASSUME NEW i \in DOMAIN s, v = [s EXCEPT ![i] = Tampered(@)]
      PROVE  IsSeq(v)
  <2>1. PICK e : e = Tampered(s[i])
    OBVIOUS
  <2>2. v = [s EXCEPT ![i] = e]
    BY <1>5, <2>1
  <2>3. s \in Seq(S \cup {e}) /\ e \in S \cup {e}
    BY <1>1, SeqMonotonic
  <2>4. v \in Seq(S \cup {e})
    BY <1>2, <2>2, <2>3, ExceptSeq
  <2> QED
    BY <2>4 DEF IsSeq
<1>6. ASSUME NEW i \in DOMAIN s, v = RemoveAt(s, i)
      PROVE  IsSeq(v)
  <2>1. v = SubSeq(s, 1, i - 1) \o SubSeq(s, i + 1, Len(s))
    BY <1>6 DEF RemoveAt
  <2>2. i \in Nat /\ i >= 1 /\ i <= Len(s)
    BY <1>2
  <2>3. IsSeq(SubSeq(s, 1, i - 1))
    <3>1. i - 1 \in Nat /\ i - 1 <= Len(s) /\ 1 <= (i - 1) + 1
      BY <1>2, <2>2
    <3> QED
      BY <3>1, SubSeqFacts
  <2>4. IsSeq(SubSeq(s, i + 1, Len(s)))
    <3>1. i + 1 \in Nat /\ i + 1 >= 1 /\ i + 1 <= Len(s) + 1 /\ Len(s) <= Len(s)
      BY <1>2, <2>2
    <3> QED
      BY <1>2, <3>1, SubSeqFacts
  <2> QED
    BY <2>1, <2>3, <2>4, ConcatSeqs
<1> QED
  BY <1>3, <1>4, <1>5, <1>6 DEF Variants

(* What arrives is made of sequences, as the messages are. *)
LEMMA ArrivingAre ==
    ASSUME NEW s, IsSeq(s.aad), IsSeq(s.cipher), NEW m \in Arriving(s)
    PROVE  IsSeq(m[1]) /\ IsSeq(m[2])
<1>1. CASE m \in {s.aad} \X Variants(s.cipher)
  BY <1>1, VariantsAre
<1>2. CASE m \in Variants(s.aad) \X {s.cipher}
  BY <1>2, VariantsAre
<1>3. CASE m \in {<<Append(s.aad, Head(c)), Tail(c)>> : c \in {s.cipher} \ {<<>>}}
  <2>1. s.cipher # <<>> /\ m = <<Append(s.aad, Head(s.cipher)), Tail(s.cipher)>>
    BY <1>3
  <2>2. m[1] = Append(s.aad, Head(s.cipher)) /\ m[2] = Tail(s.cipher)
    BY <2>1
  <2> QED
    BY <2>1, <2>2, AppendIs, TailIs
<1> QED
  BY <1>1, <1>2, <1>3 DEF Arriving

(* What the context of a state of the invariant looks like. *)
LEMMA AbsorbedType ==
    ASSUME NEW p, NEW K, NEW s, IsSeq(s), Absorbed(p, K, s)
    PROVE  Len(p.queue) < P /\ \A i \in DOMAIN p.blocks : Len(p.blocks[i].data) = P
<1>1. P \in Nat /\ P > 0 /\ Len(s) \in Nat
  BY PolyAssumption, SeqFacts
<1>2. Len(s) % P \in 0..(P - 1)
  BY <1>1, Division
<1>3. Len(p.queue) < P
  <2>1. Len(Rest(s)) = Len(s) % P
    BY RestFacts
  <2> QED
    BY <1>1, <1>2, <2>1 DEF Absorbed
<1> DEFINE F == FullBlocks(s)
<1>4. p.blocks = F /\ IsCut(F, s)
  BY BlockFacts DEF Absorbed
<1> HIDE DEF F
<1>5. IsSeq(F) /\ Len(F) = Len(s) \div P /\ \A i \in 1..Len(F) : Len(F[i].data) = P
  BY <1>4 DEF IsCut
<1>6. DOMAIN F = 1..Len(F)
  BY <1>5, SeqFacts
<1> QED
  BY <1>3, <1>4, <1>5, <1>6

-----------------------------------------------------------------------------
LEMMA FreshIs ==
    ASSUME NEW k
    PROVE  /\ Idle(Fresh(k)) /\ Fresh(k).state = "INIT" /\ Fresh(k).mode = "ENCRYPT"
           /\ Fresh(k).key = k /\ Fresh(k).nonce = NoKey /\ Fresh(k).pos = 0
           /\ Fresh(k).aadLen = 0 /\ Fresh(k).ctLen = 0
<1> DEFINE c == Fresh(k)
           p == PolyStarts(<<NoKey, NoKey>>)
<1>1. /\ DOMAIN c = CtxFields /\ c.state = "INIT" /\ c.mode = "ENCRYPT" /\ c.key = k
      /\ c.nonce = NoKey /\ c.pos = 0 /\ c.poly = p /\ c.aadLen = 0 /\ c.ctLen = 0
  BY DEF Fresh, CtxFields
<1>2. Absorbed(p, <<NoKey, NoKey>>, <<>>)
  BY AbsorbedNothing
<1>3. IsSeq(<<>>) /\ Len(<<>>) % P = 0
  <2>1. P \in Nat /\ P > 0 /\ 0 = P * 0 + 0 /\ 0 \in 0..(P - 1)
    BY PolyAssumption
  <2>2. 0 % P = 0
    BY <2>1, Quotient
  <2> QED
    BY <2>2, NoBytes
<1> HIDE DEF c, p
<1>4. Idle(c)
  BY <1>1, <1>2, <1>3 DEF Idle
<1> QED
  BY <1>1, <1>4 DEF c

(* The start, and free and init again. *)
LEMMA FreshInv ==
    ASSUME ctx' = Fresh(NoKey), ret' = "0", aad' = <<>>, input' = <<>>, output' = <<>>, again' = 0
    PROVE  CtxInv' /\ StreamInv' /\ MaskInv' /\ AgainInv'
<1>1. /\ Idle(ctx') /\ ctx'.state = "INIT" /\ ctx'.mode = "ENCRYPT"
      /\ ctx'.key = NoKey /\ ctx'.nonce = NoKey /\ ctx'.pos = 0
      /\ ctx'.aadLen = 0 /\ ctx'.ctLen = 0
  BY FreshIs
<1>2. CtxInv'
  BY <1>1, AeadAssumption DEF CtxInv
<1>3. StreamInv'
  BY <1>1, NoBytes DEF StreamInv, Streaming
<1>4. MaskInv' /\ AgainInv'
  BY <1>1 DEF MaskInv, AgainInv, Streaming
<1> QED
  BY <1>2, <1>3, <1>4

LEMMA InitIInv == Init => IInv
<1> SUFFICES ASSUME Init PROVE IInv
  OBVIOUS
<1>1. /\ Idle(ctx) /\ ctx.state = "INIT" /\ ctx.mode = "ENCRYPT"
      /\ ctx.key = NoKey /\ ctx.nonce = NoKey /\ ctx.pos = 0
      /\ ctx.aadLen = 0 /\ ctx.ctLen = 0
  BY FreshIs DEF Init
<1>2. CtxInv
  BY <1>1, AeadAssumption DEF CtxInv, Init
<1>3. StreamInv
  BY <1>1, NoBytes DEF StreamInv, Streaming, Init
<1>4. MaskInv /\ AgainInv
  BY <1>1 DEF MaskInv, AgainInv, Streaming
<1>5. SealedInv
  BY DEF SealedInv, Init
<1>6. OpensOnlySealed
  BY DEF OpensOnlySealed, Init
<1> QED
  BY <1>2, <1>3, <1>4, <1>5, <1>6 DEF IInv

LEMMA NothingOpened ==
    ASSUME opened' = Nothing
    PROVE  OpensOnlySealed'
BY DEF OpensOnlySealed

LEMMA SameSealed ==
    ASSUME SealedInv, sealed' = sealed
    PROVE  SealedInv'
BY DEF SealedInv

LEMMA OneMoreSealed ==
    ASSUME SealedInv, NEW s, GoodMessage(s), sealed' = sealed \cup {s}
    PROVE  SealedInv'
BY DEF SealedInv

LEMMA RefusedStep == IInv /\ Refused => IInv'
<1> SUFFICES ASSUME IInv, Refused PROVE IInv'
  OBVIOUS
<1>1. ret' = "BAD_STATE" /\ opened' = Nothing
      /\ ctx' = ctx /\ aad' = aad /\ input' = input /\ output' = output /\ sealed' = sealed
      /\ again' = again
  BY DEF Refused
<1>2. CtxInv'
  BY <1>1 DEF IInv, CtxInv
<1>3. StreamInv'
  BY <1>1 DEF IInv, StreamInv, Streaming, CipherSoFar
<1>4. MaskInv' /\ AgainInv'
  BY <1>1 DEF IInv, MaskInv, AgainInv, Streaming, Key1
<1> QED
  BY <1>1, <1>2, <1>3, <1>4, NothingOpened, SameSealed DEF IInv

LEMMA SetKeyStep ==
    ASSUME IInv, NEW k \in Key, SetKey(k)
    PROVE  IInv'
<1>1. /\ ~Streaming /\ ctx' = [ctx EXCEPT !.key = k] /\ ret' = "0" /\ opened' = Nothing
      /\ aad' = aad /\ input' = input /\ output' = output /\ sealed' = sealed /\ again' = again
  BY DEF SetKey
<1>2. Idle(ctx)
  BY <1>1 DEF IInv, StreamInv
<1>3. /\ DOMAIN ctx' = CtxFields /\ ctx'.key = k /\ ctx'.state = ctx.state
      /\ ctx'.mode = ctx.mode /\ ctx'.nonce = ctx.nonce /\ ctx'.pos = ctx.pos
      /\ ctx'.poly = ctx.poly /\ ctx'.aadLen = ctx.aadLen /\ ctx'.ctLen = ctx.ctLen
  BY <1>1, <1>2 DEF Idle, CtxFields
<1>4. Idle(ctx')
  BY <1>2, <1>3 DEF Idle
<1>5. ~Streaming' /\ ctx'.state # "AAD"
  BY <1>1, <1>3 DEF Streaming
<1>6. CtxInv'
  BY <1>1, <1>3 DEF IInv, CtxInv
<1>7. StreamInv'
  BY <1>1, <1>4, <1>5 DEF IInv, StreamInv
<1>8. MaskInv'
  BY <1>5 DEF MaskInv
<1>9. AgainInv'
  BY <1>1, <1>3, <1>5 DEF IInv, AgainInv, Key1, Tag
<1> QED
  BY <1>1, <1>6, <1>7, <1>8, <1>9, NothingOpened, SameSealed DEF IInv

LEMMA StartsStep ==
    ASSUME IInv, NEW n \in Nonce, NEW m \in {"ENCRYPT", "DECRYPT"}, Starts(n, m)
    PROVE  IInv'
<1>1. /\ ctx' = Started(ctx, n, m) /\ ret' = "0" /\ opened' = Nothing
      /\ aad' = <<>> /\ input' = <<>> /\ output' = <<>> /\ sealed' = sealed /\ again' = 0
  BY DEF Starts
<1>2. /\ InAad(ctx', <<>>) /\ ctx'.mode = m /\ ctx'.key = ctx.key /\ ctx'.nonce = n
  BY <1>1, StartedIs
<1>3. /\ ctx'.state = "AAD" /\ ctx'.aadLen = 0 /\ ctx'.ctLen = 0 /\ ctx'.pos = KB
  BY <1>2, NoBytes DEF InAad
<1>4. CtxInv'
  BY <1>1, <1>2, <1>3, AeadAssumption DEF IInv, CtxInv
<1>5. InStream(ctx', aad', CipherSoFar')
  BY <1>1, <1>2 DEF InStream, CipherSoFar
<1>6. StreamInv'
  BY <1>1, <1>3, <1>5, NoBytes DEF StreamInv, Streaming
<1>7. MaskInv' /\ AgainInv'
  BY <1>1, <1>3, NoBytes DEF MaskInv, AgainInv
<1> QED
  BY <1>1, <1>4, <1>6, <1>7, NothingOpened, SameSealed DEF IInv

LEMMA ResetStep == IInv /\ Reset => IInv'
<1> SUFFICES ASSUME IInv, Reset PROVE IInv'
  OBVIOUS
<1>1. /\ ctx' = Fresh(NoKey) /\ ret' = "0" /\ aad' = <<>> /\ input' = <<>> /\ output' = <<>>
      /\ opened' = Nothing /\ sealed' = sealed /\ again' = 0
  BY DEF Reset
<1> QED
  BY <1>1, FreshInv, NothingOpened, SameSealed DEF IInv

LEMMA UpdateAadStep ==
    ASSUME IInv, NEW n \in 0..MaxLen, UpdateAad(n)
    PROVE  IInv'
<1> DEFINE a == AadBytes(Len(aad), n)
<1>1. CASE Refused
  BY <1>1, RefusedStep
<1>2. CASE /\ ctx.state = "AAD" /\ ctx' = WithAad(ctx, a) /\ aad' = aad \o a
           /\ ret' = "0" /\ opened' = Nothing
           /\ input' = input /\ output' = output /\ sealed' = sealed /\ again' = again
  <2>1. n \in Nat /\ IsSeq(aad) /\ Len(aad) \in Nat
    BY SeqFacts, AeadAssumption DEF IInv, StreamInv
  <2>2. IsSeq(a) /\ Len(a) = n
    BY <2>1, Bytes
  <2> HIDE DEF a
  <2>3. InAad(ctx, aad) /\ input = <<>> /\ output = <<>>
    BY <1>2 DEF IInv, StreamInv, Streaming, InStream, InText
  <2>4. InAad(ctx', aad \o a) /\ SameRun(ctx, ctx')
    BY <1>2, <2>1, <2>2, <2>3, WithAadIs
  <2>5. IsSeq(aad \o a) /\ Len(aad \o a) \in Nat
    BY <2>1, <2>2, ConcatSeqs, SeqFacts
  <2>6. CtxInv'
    BY <1>2, <2>4, <2>5, AeadAssumption DEF IInv, CtxInv, InAad, SameRun
  <2>7. InStream(ctx', aad', CipherSoFar')
    BY <1>2, <2>3, <2>4 DEF InStream, CipherSoFar
  <2>8. ctx'.state = "AAD"
    BY <2>4 DEF InAad
  <2>9. StreamInv'
    BY <1>2, <2>3, <2>5, <2>7, <2>8, NoBytes DEF StreamInv, Streaming
  <2>10. MaskInv'
    BY <1>2, <2>3, NoBytes DEF MaskInv
  <2>11. AgainInv'
    BY <1>2, <2>8 DEF IInv, AgainInv, Streaming
  <2> QED
    BY <1>2, <2>6, <2>9, <2>10, <2>11, NothingOpened, SameSealed DEF IInv
<1> QED
  BY <1>1, <1>2 DEF UpdateAad

LEMMA UpdateStep ==
    ASSUME IInv, NEW n \in 0..MaxLen, Update(n)
    PROVE  IInv'
<1> DEFINE text == TextBytes(Len(input), n)
           in == IF ctx.mode = "ENCRYPT" THEN text ELSE Masked(ctx, text)
           out == Masked(ctx, in)
<1>1. CASE Refused
  BY <1>1, RefusedStep
<1>2. CASE /\ Streaming /\ ctx' = WithText(ctx, in)
           /\ input' = input \o in /\ output' = output \o out
           /\ ret' = "0" /\ opened' = Nothing /\ aad' = aad /\ sealed' = sealed /\ again' = again
  <2>1. /\ n \in Nat /\ IsSeq(aad) /\ IsSeq(input) /\ IsSeq(output)
        /\ Len(input) \in Nat /\ Len(output) = Len(input)
    BY SeqFacts, AeadAssumption DEF IInv, StreamInv
  <2>2. IsSeq(text) /\ Len(text) = n /\ \A i \in 1..n : IsByte(text[i])
    BY <2>1, Bytes
  <2>3. IsSeq(in) /\ Len(in) = n /\ (ctx.mode = "ENCRYPT" => in = text)
    <3> HIDE DEF text
    <3> QED
      BY <2>2, MaskedFacts
  <2> HIDE DEF text, in
  <2>4. /\ IsSeq(out) /\ Len(out) = n
        /\ \A i \in 1..n : out[i] = Xor(in[i], <<ctx.key, ctx.nonce, ctx.pos + i - 1>>)
    BY <2>3, MaskedFacts
  <2>5. out = Masked(ctx, in)
    OBVIOUS
  <2> HIDE DEF out
  <2>6. PICK x : x = CipherSoFar
    OBVIOUS
  <2>7. IsSeq(x) /\ InStream(ctx, aad, x)
    BY <1>2, <2>1, <2>6 DEF IInv, StreamInv, CipherSoFar
  <2>8. InText(ctx', aad, x \o CipherOf(ctx, in)) /\ SameRun(ctx, ctx')
    BY <1>2, <2>1, <2>3, <2>7, WithTextIs
  <2>9. CipherSoFar' = x \o CipherOf(ctx, in)
    BY <1>2, <2>5, <2>6, <2>8 DEF CipherSoFar, CipherOf, SameRun
  <2>10. /\ IsSeq(input') /\ Len(input') = Len(input) + n
         /\ \A i \in 1..Len(input) : input'[i] = input[i]
         /\ \A i \in 1..n : input'[Len(input) + i] = in[i]
    <3>1. /\ IsSeq(input \o in) /\ Len(input \o in) = Len(input) + Len(in)
          /\ \A i \in 1..Len(input) : (input \o in)[i] = input[i]
          /\ \A i \in 1..Len(in) : (input \o in)[Len(input) + i] = in[i]
      BY <2>1, <2>3, ConcatSeqs
    <3> QED
      BY <1>2, <2>3, <3>1
  <2>11. /\ IsSeq(output') /\ Len(output') = Len(input) + n
         /\ \A i \in 1..Len(input) : output'[i] = output[i]
         /\ \A i \in 1..n : output'[Len(input) + i] = out[i]
    <3>1. /\ IsSeq(output \o out) /\ Len(output \o out) = Len(output) + Len(out)
          /\ \A i \in 1..Len(output) : (output \o out)[i] = output[i]
          /\ \A i \in 1..Len(out) : (output \o out)[Len(output) + i] = out[i]
      BY <2>1, <2>4, ConcatSeqs
    <3> QED
      BY <1>2, <2>1, <2>4, <3>1
  <2>12. ctx'.state = "CIPHERTEXT"
    BY <2>8 DEF InText
  <2>13. CtxInv'
    <3>1. IsSeq(x \o CipherOf(ctx, in)) /\ IsSeq(aad)
      BY <2>1, <2>3, <2>7, CipherType, ConcatSeqs
    <3>2. Len(x \o CipherOf(ctx, in)) \in Nat /\ Len(aad) \in Nat
      BY <3>1, SeqFacts
    <3>3. ctx'.pos \in Nat /\ ctx'.aadLen \in Nat /\ ctx'.ctLen \in Nat
      BY <2>8, <3>2, AeadAssumption DEF InText
    <3> QED
      BY <1>2, <2>8, <2>12, <3>3 DEF IInv, CtxInv, SameRun
  <2>14. StreamInv'
    <3>1. InStream(ctx', aad', CipherSoFar')
      BY <1>2, <2>8, <2>9 DEF InStream
    <3> QED
      BY <1>2, <2>1, <2>10, <2>11, <2>12, <3>1 DEF StreamInv, Streaming
  <2>15. MaskInv'
    <3>1. SUFFICES ASSUME ctx'.mode = "ENCRYPT", NEW i \in 1..(Len(input) + n)
                   PROVE  /\ IsByte(input'[i])
                          /\ output'[i] = Xor(input'[i], <<ctx'.key, ctx'.nonce, KB + i - 1>>)
      BY <2>10 DEF MaskInv
    <3>2. ctx.mode = "ENCRYPT" /\ ctx'.key = ctx.key /\ ctx'.nonce = ctx.nonce
      BY <2>8, <3>1 DEF SameRun
    <3>3. ctx.pos = KB + Len(input)
      <4>1. x = output
        BY <2>6, <3>2 DEF CipherSoFar
      <4>2. CASE InText(ctx, aad, x)
        BY <2>1, <4>1, <4>2 DEF InText
      <4>3. CASE InAad(ctx, aad) /\ x = <<>>
        <5>1. Len(input) = 0
          BY <2>1, <4>1, <4>3, NoBytes
        <5> QED
          BY <4>3, <5>1, AeadAssumption DEF InAad
      <4> QED
        BY <2>7, <4>2, <4>3 DEF InStream
    <3>4. CASE i <= Len(input)
      <4>1. i \in 1..Len(input)
        BY <2>1, <3>4
      <4>2. /\ IsByte(input[i])
            /\ output[i] = Xor(input[i], <<ctx.key, ctx.nonce, KB + i - 1>>)
        BY <1>2, <3>2, <4>1 DEF IInv, MaskInv
      <4> QED
        BY <2>10, <2>11, <3>2, <4>1, <4>2
    <3>5. CASE i > Len(input)
      <4>1. PICK j \in 1..n : i = Len(input) + j
        <5>1. i - Len(input) \in 1..n /\ i = Len(input) + (i - Len(input))
          BY <2>1, <3>5
        <5> QED
          BY <5>1
      <4>2. input'[i] = in[j] /\ output'[i] = out[j]
        BY <2>10, <2>11, <4>1
      <4>3. IsByte(in[j])
        BY <2>2, <2>3, <3>2
      <4>4. ctx.pos + j - 1 = KB + i - 1
        BY <2>1, <3>3, <4>1, AeadAssumption
      <4>5. out[j] = Xor(in[j], <<ctx.key, ctx.nonce, KB + i - 1>>)
        BY <2>4, <4>4
      <4> QED
        BY <3>2, <4>2, <4>3, <4>5
    <3> QED
      BY <2>1, <3>4, <3>5
  <2>16. AgainInv'
    BY <1>2, <2>12 DEF IInv, AgainInv, Streaming
  <2> QED
    BY <1>2, <2>13, <2>14, <2>15, <2>16, NothingOpened, SameSealed DEF IInv
<1> QED
  BY <1>1, <1>2 DEF Update

(* What an encryption puts into a message, from the pieces of its state. *)
LEMMA SealedIsGood ==
    ASSUME NEW k, NEW n, NEW a, NEW text, NEW cipher, NEW tag, NEW m \in Nat,
           IsSeq(a), IsSeq(text), IsSeq(cipher), Len(cipher) = Len(text),
           \A i \in 1..Len(text) :
               IsByte(text[i]) /\ cipher[i] = Xor(text[i], <<k, n, KB + i - 1>>),
           tag = Reference(k, n, a, cipher, m)
    PROVE  GoodMessage(Sealed(k, n, a, text, cipher, tag, m))
<1> DEFINE s == Sealed(k, n, a, text, cipher, tag, m)
<1>1. /\ s.key = k /\ s.nonce = n /\ s.aad = a /\ s.text = text /\ s.cipher = cipher
      /\ s.tag = tag /\ s.again = m
  BY DEF Sealed
<1> HIDE DEF s
<1>2. GoodMessage(s)
  BY <1>1 DEF GoodMessage
<1> QED
  BY <1>2 DEF s

(* The other way round.                                                    *)
LEMMA GoodIsSealed ==
    ASSUME NEW k, NEW n, NEW a, NEW text, NEW cipher, NEW tag, NEW m,
           GoodMessage(Sealed(k, n, a, text, cipher, tag, m))
    PROVE  /\ IsSeq(a) /\ IsSeq(text) /\ IsSeq(cipher) /\ Len(cipher) = Len(text)
           /\ \A i \in 1..Len(text) :
                 IsByte(text[i]) /\ cipher[i] = Xor(text[i], <<k, n, KB + i - 1>>)
           /\ m \in Nat /\ tag = Reference(k, n, a, cipher, m)
<1> DEFINE s == Sealed(k, n, a, text, cipher, tag, m)
<1>1. /\ s.key = k /\ s.nonce = n /\ s.aad = a /\ s.text = text /\ s.cipher = cipher
      /\ s.tag = tag /\ s.again = m
  BY DEF Sealed
<1>2. GoodMessage(s)
  OBVIOUS
<1> HIDE DEF s
<1> QED
  BY <1>1, <1>2 DEF GoodMessage

(* What a step of finish has to leave: g is what goes into the message.    *)
LEMMA FinishStep == IInv /\ Finish => IInv'
<1> SUFFICES ASSUME IInv, Finish PROVE IInv'
  OBVIOUS
<1>1. CASE Refused
  BY <1>1, RefusedStep
<1> DEFINE g == Sealed(Key1, ctx.nonce, aad, input, output, Tag(Finished(ctx)), again)
<1>2. CASE /\ ctx.state # "INIT" /\ ctx' = Finished(ctx)
           /\ ret' = "0" /\ opened' = Nothing /\ again <= MaxAgain /\ again' = again + 1
           /\ sealed' = IF ctx.mode = "ENCRYPT" THEN sealed \cup {g} ELSE sealed
           /\ aad' = aad /\ input' = input /\ output' = output
  <2>1. /\ IsSeq(aad) /\ IsSeq(input) /\ IsSeq(output) /\ Len(output) = Len(input)
    BY DEF IInv, StreamInv
  <2>2. again \in Nat /\ again' \in 0..(MaxAgain + 1) /\ again' > 0 /\ again' - 1 = again
    BY <1>2, AeadAssumption DEF IInv, CtxInv
  <2>3. ASSUME Idle(ctx'), ctx'.state = "FINISHED", SameRun(ctx, ctx'), ctx'.pos = ctx.pos,
               ctx'.aadLen = ctx.aadLen, ctx'.ctLen = ctx.ctLen, ctx'.poly.key = ctx.poly.key,
               ctx.mode = "ENCRYPT" =>
                   ctx.aadLen = Len(aad) /\ ctx.ctLen = Len(output) /\ GoodMessage(g)
        PROVE  IInv'
    <3>1. CtxInv'
      BY <1>2, <2>2, <2>3 DEF IInv, CtxInv, SameRun
    <3>2. ~Streaming' /\ ctx'.state # "AAD"
      BY <2>3 DEF Streaming
    <3>3. StreamInv' /\ MaskInv'
      BY <1>2, <2>1, <2>3, <3>2 DEF StreamInv, MaskInv
    <3>4. ctx'.mode = ctx.mode /\ ctx'.nonce = ctx.nonce
      BY <2>3 DEF SameRun
    <3>5. AgainInv'
      <4>1. Sealed(Key1', ctx'.nonce, aad', input', output', Tag(ctx'), again' - 1) = g
        BY <1>2, <2>2, <2>3, <3>4 DEF Key1
      <4> HIDE DEF g
      <4>2. ctx'.mode = "ENCRYPT" =>
                /\ ctx'.aadLen = Len(aad') /\ ctx'.ctLen = Len(output')
                /\ GoodMessage(Sealed(Key1', ctx'.nonce, aad', input', output', Tag(ctx'), again' - 1))
        BY <1>2, <2>3, <3>4, <4>1
      <4> QED
        BY <2>2, <3>2, <4>2 DEF AgainInv, Tag, GoodMessage
    <3>6. SealedInv'
      <4> HIDE DEF g
      <4>1. CASE ctx.mode = "ENCRYPT"
        BY <1>2, <2>3, <4>1, OneMoreSealed DEF IInv
      <4>2. CASE ctx.mode # "ENCRYPT"
        BY <1>2, <4>2, SameSealed DEF IInv
      <4> QED
        BY <4>1, <4>2
    <3> QED
      BY <1>2, <3>1, <3>3, <3>5, <3>6, NothingOpened DEF IInv
  <2>4. CASE Streaming
    <3>1. PICK x : x = CipherSoFar
      OBVIOUS
    <3>2. IsSeq(x) /\ InStream(ctx, aad, x)
      BY <2>1, <2>4, <3>1 DEF IInv, StreamInv, CipherSoFar
    <3>3. /\ Absorbed(ctx'.poly, <<ctx.key, ctx.nonce>>, Layout(aad, x))
          /\ DOMAIN ctx' = CtxFields /\ ctx'.state = "FINISHED"
          /\ ctx'.pos = ctx.pos /\ ctx'.aadLen = ctx.aadLen
          /\ ctx'.ctLen = ctx.ctLen /\ SameRun(ctx, ctx')
      BY <1>2, <2>1, <3>2, FinishedIs
    <3>4. Idle(ctx')
      <4>1. IsSeq(Layout(aad, x)) /\ Len(Layout(aad, x)) % P = 0
        BY <2>1, <3>2, LayoutFacts
      <4> QED
        BY <3>3, <4>1 DEF Idle
    <3>5. ctx.poly.key = <<ctx.key, ctx.nonce>> /\ ctx'.poly.key = ctx.poly.key
          /\ ctx.aadLen = Len(aad) /\ ctx.ctLen = Len(x)
      BY <3>2, <3>3, NoBytes DEF InStream, InAad, InText, Absorbed
    <3>6. ASSUME ctx.mode = "ENCRYPT"
          PROVE  ctx.aadLen = Len(aad) /\ ctx.ctLen = Len(output) /\ GoodMessage(g)
      <4>1. x = output /\ again = 0
        BY <2>4, <3>1, <3>6 DEF CipherSoFar, IInv, AgainInv
      <4>2. Tag(Finished(ctx)) = Reference(ctx.key, ctx.nonce, aad, output, again)
        BY <2>1, <3>2, <4>1, TagIs
      <4>3. \A i \in 1..Len(input) :
               /\ IsByte(input[i])
               /\ output[i] = Xor(input[i], <<ctx.key, ctx.nonce, KB + i - 1>>)
        BY <2>4, <3>6 DEF IInv, MaskInv
      <4>4. Key1 = ctx.key
        BY <3>5 DEF Key1
      <4>5. GoodMessage(Sealed(ctx.key, ctx.nonce, aad, input, output, Tag(Finished(ctx)), again))
        BY <2>1, <2>2, <4>2, <4>3, SealedIsGood
      <4> QED
        BY <3>5, <4>1, <4>4, <4>5
    <3> QED
      BY <2>3, <3>3, <3>4, <3>5, <3>6
  <2>5. CASE ~Streaming
    <3>1. Idle(ctx)
      BY <2>5 DEF IInv, StreamInv
    <3>2. ctx.state = "FINISHED"
      BY <1>2, <2>5 DEF IInv, CtxInv, Streaming
    <3>3. /\ Idle(ctx') /\ ctx'.state = "FINISHED" /\ SameRun(ctx, ctx')
          /\ ctx'.pos = ctx.pos /\ ctx'.aadLen = ctx.aadLen /\ ctx'.ctLen = ctx.ctLen
          /\ ctx'.poly.key = ctx.poly.key
      BY <1>2, <3>1, <3>2, FinishedAgain
    <3>4. ASSUME ctx.mode = "ENCRYPT"
          PROVE  ctx.aadLen = Len(aad) /\ ctx.ctLen = Len(output) /\ GoodMessage(g)
      <4>1. /\ again > 0 /\ ctx.aadLen = Len(aad) /\ ctx.ctLen = Len(output)
            /\ GoodMessage(Sealed(Key1, ctx.nonce, aad, input, output, Tag(ctx), again - 1))
        BY <3>2, <3>4 DEF IInv, AgainInv
      <4>2. /\ \A i \in 1..Len(input) :
                  IsByte(input[i]) /\ output[i] = Xor(input[i], <<Key1, ctx.nonce, KB + i - 1>>)
            /\ again - 1 \in Nat /\ Tag(ctx) = Reference(Key1, ctx.nonce, aad, output, again - 1)
        BY <4>1, GoodIsSealed
      <4>3. Tag(Finished(ctx)) = Reference(Key1, ctx.nonce, aad, output, (again - 1) + 1)
        BY <2>1, <3>1, <3>2, <4>1, <4>2, OneMoreTag
      <4>4. (again - 1) + 1 = again
        BY <2>2
      <4>5. GoodMessage(g)
        BY <2>1, <2>2, <4>2, <4>3, <4>4, SealedIsGood
      <4> QED
        BY <4>1, <4>5
    <3> QED
      BY <2>3, <3>3, <3>4
  <2> QED
    BY <2>4, <2>5
<1> QED
  BY <1>1, <1>2 DEF Finish, Key1

(* The context d and the output of a one-shot call: those of the piecewise *)
(* calls in a row.                                                         *)
OneShot(d, out, key, m, n, a, in) ==
    /\ Idle(d) /\ d.state = "FINISHED" /\ d.mode = m /\ d.key = key /\ d.nonce = n
    /\ d.pos = KB + Len(in) /\ d.aadLen = Len(a) /\ d.ctLen = Len(in)
    /\ Tag(d) = Reference(key, n, a, IF m = "ENCRYPT" THEN out ELSE in, 0)
    /\ d.poly.key = <<key, n>>
    /\ IsSeq(out) /\ Len(out) = Len(in)
    /\ \A i \in 1..Len(in) : out[i] = Xor(in[i], <<key, n, KB + i - 1>>)

LEMMA CryptAndTagIs ==
    ASSUME NEW c, NEW m, NEW n, NEW a, NEW in, IsSeq(a), IsSeq(in)
    PROVE  OneShot(CryptAndTag(c, m, n, a, in), CryptOutput(c, m, n, in), c.key, m, n, a, in)
<1> DEFINE c1 == Started(c, n, m)
           c2 == WithAad(c1, a)
           c3 == WithText(c2, in)
           d == Finished(c3)
           out == Masked(c1, in)
           x == IF m = "ENCRYPT" THEN out ELSE in
<1>1. d = CryptAndTag(c, m, n, a, in) /\ out = CryptOutput(c, m, n, in)
  BY DEF CryptAndTag, CryptOutput
<1>2. InAad(c1, <<>>) /\ c1.mode = m /\ c1.key = c.key /\ c1.nonce = n
  BY StartedIs
<1> HIDE DEF c1
<1>3. InAad(c2, <<>> \o a) /\ SameRun(c1, c2)
  BY <1>2, NoBytes, WithAadIs
<1>4. <<>> \o a = a
  BY NothingConcat
<1> HIDE DEF c2
<1>5. InAad(c2, a) /\ InStream(c2, a, <<>>) /\ c2.mode = m /\ c2.key = c.key /\ c2.nonce = n
  BY <1>2, <1>3, <1>4 DEF InStream, SameRun
<1>6. InText(c3, a, <<>> \o CipherOf(c2, in)) /\ SameRun(c2, c3)
  BY <1>5, NoBytes, WithTextIs
<1>7. c1.pos = KB /\ c2.pos = KB
  BY <1>2, <1>5 DEF InAad
<1>8. CipherOf(c2, in) = x
  <2>1. Masked(c2, in) = out
    BY <1>2, <1>5, <1>7 DEF Masked
  <2> QED
    BY <1>5, <2>1 DEF CipherOf
<1>9. /\ IsSeq(out) /\ Len(out) = Len(in)
      /\ \A i \in 1..Len(in) : out[i] = Xor(in[i], <<c.key, n, KB + i - 1>>)
  BY <1>2, <1>7, MaskedFacts
<1> HIDE DEF out
<1>10. IsSeq(x) /\ Len(x) = Len(in)
  BY <1>9
<1> HIDE DEF x
<1>11. InText(c3, a, x)
  BY <1>6, <1>8, <1>10, NothingConcat
<1> HIDE DEF c3
<1>12. InStream(c3, a, x) /\ c3.mode = m /\ c3.key = c.key /\ c3.nonce = n
  BY <1>5, <1>6, <1>11 DEF InStream, SameRun
<1>13. /\ Absorbed(d.poly, <<c3.key, c3.nonce>>, Layout(a, x))
       /\ DOMAIN d = CtxFields /\ d.state = "FINISHED" /\ d.pos = c3.pos
       /\ d.aadLen = c3.aadLen /\ d.ctLen = c3.ctLen /\ SameRun(c3, d)
  BY <1>10, <1>12, FinishedIs
<1>14. Tag(d) = Reference(c.key, n, a, x, 0) /\ d.poly.key = <<c.key, n>>
  BY <1>10, <1>12, <1>13, TagIs DEF Absorbed
<1> HIDE DEF d
<1>15. IsSeq(Layout(a, x)) /\ Len(Layout(a, x)) % P = 0
  BY <1>10, LayoutFacts
<1>16. Idle(d)
  BY <1>13, <1>15 DEF Idle
<1>17. d.pos = KB + Len(in) /\ d.aadLen = Len(a) /\ d.ctLen = Len(in)
  BY <1>10, <1>11, <1>13 DEF InText
<1>18. d.mode = m /\ d.key = c.key /\ d.nonce = n
  BY <1>12, <1>13 DEF SameRun
<1>19. OneShot(d, out, c.key, m, n, a, in)
  BY <1>9, <1>13, <1>14, <1>16, <1>17, <1>18 DEF OneShot, x
<1> QED
  BY <1>1, <1>19

LEMMA EncryptStep ==
    ASSUME IInv, NEW n \in Nonce, NEW la \in 0..MaxLen, NEW lt \in 0..MaxLen,
           EncryptAndTag(n, la, lt)
    PROVE  IInv'
<1> DEFINE a == AadBytes(0, la)
           text == TextBytes(0, lt)
           c == CryptAndTag(ctx, "ENCRYPT", n, a, text)
           cipher == CryptOutput(ctx, "ENCRYPT", n, text)
           s == Sealed(ctx.key, n, a, text, cipher, Tag(c), 0)
<1>1. /\ ctx' = c /\ ret' = "0"
      /\ aad' = a /\ input' = text /\ output' = cipher /\ again' = 1
      /\ sealed' = sealed \cup {s} /\ opened' = Nothing
  BY DEF EncryptAndTag
<1>2. la \in Nat /\ lt \in Nat
  BY AeadAssumption
<1>3. /\ IsSeq(a) /\ IsSeq(text) /\ Len(text) = lt
      /\ \A i \in 1..lt : IsByte(text[i])
  BY <1>2, Bytes
<1> HIDE DEF a, text
<1>4. OneShot(c, cipher, ctx.key, "ENCRYPT", n, a, text)
  BY <1>3, CryptAndTagIs
<1> HIDE DEF c, cipher
<1>5. /\ Idle(c) /\ c.state = "FINISHED" /\ c.mode = "ENCRYPT" /\ c.key = ctx.key
      /\ c.nonce = n /\ c.pos = KB + Len(text) /\ c.aadLen = Len(a) /\ c.ctLen = Len(text)
      /\ Tag(c) = Reference(ctx.key, n, a, cipher, 0) /\ c.poly.key = <<ctx.key, n>>
      /\ IsSeq(cipher) /\ Len(cipher) = Len(text)
      /\ \A i \in 1..Len(text) : cipher[i] = Xor(text[i], <<ctx.key, n, KB + i - 1>>)
  BY <1>4 DEF OneShot
<1>6. CtxInv'
  <2>1. Len(a) \in Nat /\ Len(text) \in Nat /\ KB + Len(text) \in Nat
    BY <1>2, <1>3, SeqFacts, AeadAssumption
  <2>2. again' \in 0..(MaxAgain + 1)
    BY <1>1, AeadAssumption
  <2> QED
    BY <1>1, <1>5, <2>1, <2>2 DEF IInv, CtxInv
<1>7. StreamInv' /\ MaskInv'
  <2>1. ~Streaming' /\ ctx'.state # "AAD"
    BY <1>1, <1>5 DEF Streaming
  <2> QED
    BY <1>1, <1>3, <1>5, <2>1 DEF StreamInv, MaskInv
<1>8. GoodMessage(s)
  BY <1>3, <1>5, SealedIsGood
<1>10. AgainInv'
  <2>1. Sealed(Key1', ctx'.nonce, aad', input', output', Tag(ctx'), again' - 1) = s
    <3>1. Key1' = ctx.key /\ ctx'.nonce = n
      BY <1>1, <1>5 DEF Key1
    <3>2. again' - 1 = 0
      BY <1>1
    <3> HIDE DEF s
    <3> QED
      BY <1>1, <3>1, <3>2 DEF s
  <2> HIDE DEF s
  <2>2. /\ again' > 0 /\ ctx'.aadLen = Len(aad') /\ ctx'.ctLen = Len(output')
        /\ GoodMessage(Sealed(Key1', ctx'.nonce, aad', input', output', Tag(ctx'), again' - 1))
    BY <1>1, <1>5, <1>8, <2>1
  <2>3. ~Streaming'
    BY <1>1, <1>5 DEF Streaming
  <2> QED
    BY <2>2, <2>3 DEF AgainInv, Tag, GoodMessage
<1> HIDE DEF s
<1>9. SealedInv'
  BY <1>1, <1>8, OneMoreSealed DEF IInv
<1> QED
  BY <1>1, <1>6, <1>7, <1>9, <1>10, NothingOpened DEF IInv

(* A tag belongs to one message under one key and nonce; and a tag that    *)
(* was given out again is not the tag of any message.                      *)
LEMMA ReferenceTellsApart ==
    ASSUME NEW k, NEW n, NEW a, NEW c, NEW l, NEW m, NEW b, NEW d, NEW r \in Nat,
           IsSeq(a), IsSeq(b), IsSeq(c), IsSeq(d),
           Reference(k, n, a, c, 0) = Reference(l, m, b, d, r)
    PROVE  k = l /\ n = m /\ a = b /\ c = d /\ r = 0
<1> DEFINE x == Layout(a, c)
           y == Layout(b, d)
           F == FullBlocks(x)
           G == FullBlocks(y)
           lb == LenBlock(Len(b), Len(d))
           none == [i \in 1..0 |-> PolyBlock(LenBlock(Len(a), Len(c)), TRUE)]
           tail == [i \in 1..r |-> PolyBlock(lb, TRUE)]
<1>1. k = l /\ n = m /\ F \o none = G \o tail
  <2> HIDE DEF F, G
  <2>1. [key |-> <<k, n>>, blocks |-> F \o none] = [key |-> <<l, m>>, blocks |-> G \o tail]
    BY DEF Reference, F, G
  <2> HIDE DEF none, tail
  <2> QED
    BY <2>1
<1>2. /\ IsSeq(x) /\ IsSeq(y) /\ Len(x) % P = 0 /\ Len(y) % P = 0
      /\ IsCut(F, x) /\ IsCut(G, y)
  BY LayoutFacts, BlockFacts
<1>3. /\ IsSeq(F) /\ IsSeq(G) /\ Len(F) = Len(x) \div P /\ Len(G) = Len(y) \div P
  BY <1>2 DEF IsCut
<1>4. none = <<>>
  OBVIOUS
<1>5. IsSeq(tail) /\ Len(tail) = r /\ \A i \in 1..r : tail[i] = PolyBlock(lb, TRUE)
  <2>1. tail = [i \in 1..r |-> tail[i]] /\ \A i \in 1..r : tail[i] = PolyBlock(lb, TRUE)
    OBVIOUS
  <2> HIDE DEF tail
  <2> QED
    BY <2>1, SeqOfFunction
<1>6. F = G \o tail
  <2> HIDE DEF F, G, none, tail
  <2> QED
    BY <1>1, <1>3, <1>4, ConcatNothing
<1>7. CASE r = 0
  <2>1. tail = <<>>
    BY <1>7
  <2>2. F = G
    <3> HIDE DEF F, G, tail
    <3> QED
      BY <1>3, <1>6, <2>1, ConcatNothing
  <2>3. x = y
    <3> HIDE DEF x, y
    <3> QED
      BY <1>2, <2>2, BlocksTellApart
  <2> QED
    BY <1>1, <1>7, <2>3, LayoutTellsApart
<1>8. CASE r > 0
  <2>1. PICK q : q = Len(F)
    OBVIOUS
  <2>2. q = Len(G) + r /\ Len(G) \in Nat /\ q \in Nat /\ q > 0 /\ F[q] = PolyBlock(lb, TRUE)
    <3> HIDE DEF F, G, tail
    <3>0. IsSeq(G) /\ IsSeq(tail)
      BY <1>3, <1>5
    <3>1. /\ Len(G \o tail) = Len(G) + Len(tail) /\ Len(G) \in Nat
          /\ \A i \in 1..Len(tail) : (G \o tail)[Len(G) + i] = tail[i]
      <4>1. Len(G) \in Nat
        BY <3>0, SeqFacts
      <4> QED
        BY <3>0, <4>1, ConcatSeqs
    <3>2. r \in 1..Len(tail)
      BY <1>5, <1>8
    <3>3. (G \o tail)[Len(G) + r] = PolyBlock(lb, TRUE)
      BY <1>5, <3>1, <3>2
    <3>4. q = Len(G) + r
      BY <1>5, <1>6, <2>1, <3>1
    <3>5. F[q] = PolyBlock(lb, TRUE)
      BY <1>6, <3>3, <3>4
    <3> QED
      BY <1>8, <3>1, <3>4, <3>5
  <2>3. /\ P \in Nat /\ P > 0 /\ Len(x) \in Nat /\ Len(y) \in Nat
        /\ Len(x) = P * q /\ Len(y) = P * Len(G)
    <3>1. P \in Nat /\ P > 0 /\ Len(x) \in Nat /\ Len(y) \in Nat
      BY <1>2, SeqFacts, PolyAssumption
    <3> HIDE DEF x, y, F, G
    <3>2. Len(x) = P * (Len(x) \div P) + (Len(x) % P) /\ Len(y) = P * (Len(y) \div P) + (Len(y) % P)
      BY <3>1, Division
    <3> QED
      BY <1>2, <1>3, <2>1, <2>2, <3>1, <3>2
  <2>4. F[q].data[1] = x[P * (q - 1) + 1]
    <3>1. q \in 1..(Len(x) \div P) /\ 1 \in 1..P
      BY <1>3, <2>1, <2>2, <2>3
    <3> HIDE DEF x, F
    <3> QED
      BY <1>2, <3>1 DEF IsCut
  <2>5. PolyBlock(lb, TRUE).data[1] = LenByte(Len(b), Len(d), 1)
    BY LenBlockFacts DEF PolyBlock
  <2>6. x[P * (q - 1) + 1] = LenByte(Len(a), Len(c), 1)
    <3>1. /\ Len(x) = Len(Padded(a)) + Len(Padded(c)) + P
          /\ x[Len(Padded(a)) + Len(Padded(c)) + 1] = LenByte(Len(a), Len(c), 1)
      BY LayoutFacts
    <3>2. Len(Padded(a)) \in Nat /\ Len(Padded(c)) \in Nat
      BY PaddedFacts
    <3>3. P * (q - 1) = P * q - P
      BY <2>2, <2>3
    <3>4. P * (q - 1) + 1 = Len(Padded(a)) + Len(Padded(c)) + 1
      <4> HIDE DEF x
      <4>1. P * q \in Nat /\ Len(x) = P * q
        BY <2>2, <2>3
      <4>2. PICK z \in Nat : z = P * q
        BY <4>1
      <4>3. PICK u \in Nat, v \in Nat : u = Len(Padded(a)) /\ v = Len(Padded(c))
        BY <3>2
      <4>4. z = u + v + P /\ P * (q - 1) = z - P
        BY <3>1, <3>3, <4>1, <4>2, <4>3
      <4> QED
        BY <2>3, <4>3, <4>4
    <3> QED
      BY <3>1, <3>4
  <2>7. Len(a) = Len(b) /\ Len(c) = Len(d)
    <3> HIDE DEF x, F
    <3>1. LenByte(Len(b), Len(d), 1) = LenByte(Len(a), Len(c), 1)
      BY <2>2, <2>4, <2>5, <2>6
    <3> QED
      BY <3>1, LenByteNames
  <2>8. Len(x) = Len(y)
    <3>1. /\ Len(x) = Len(Padded(a)) + Len(Padded(c)) + P
          /\ Len(y) = Len(Padded(b)) + Len(Padded(d)) + P
      BY LayoutFacts
    <3>2. /\ Len(Padded(a)) = Len(a) + Len(Pad(Len(a))) /\ Len(Padded(b)) = Len(b) + Len(Pad(Len(b)))
          /\ Len(Padded(c)) = Len(c) + Len(Pad(Len(c))) /\ Len(Padded(d)) = Len(d) + Len(Pad(Len(d)))
      BY PaddedFacts
    <3> HIDE DEF x, y
    <3> QED
      BY <2>7, <3>1, <3>2
  <2>9. Len(F) = Len(G)
    BY <1>3, <2>8
  <2>10. FALSE
    <3> HIDE DEF F, G
    <3>1. PICK g : g = Len(G)
      OBVIOUS
    <3>2. q = g + r /\ g \in Nat
      BY <2>2, <3>1
    <3>3. q = g
      BY <2>1, <2>9, <3>1
    <3> QED
      BY <1>8, <3>2, <3>3
  <2> QED
    BY <2>10
<1> QED
  BY <1>7, <1>8

(* Masking a message again gives its text. *)
LEMMA MaskedBack ==
    ASSUME NEW s, GoodMessage(s), NEW out, IsSeq(out), Len(out) = Len(s.cipher),
           \A i \in 1..Len(out) : out[i] = Xor(s.cipher[i], <<s.key, s.nonce, KB + i - 1>>)
    PROVE  out = s.text
<1>1. /\ IsSeq(s.text) /\ Len(s.text) = Len(out)
      /\ \A i \in 1..Len(out) :
            /\ IsByte(s.text[i])
            /\ s.cipher[i] = Xor(s.text[i], <<s.key, s.nonce, KB + i - 1>>)
  BY DEF GoodMessage
<1>2. ASSUME NEW i \in 1..Len(out) PROVE out[i] = s.text[i]
  <2>1. PICK k : k = <<s.key, s.nonce, KB + i - 1>>
    OBVIOUS
  <2>2. out[i] = Xor(Xor(s.text[i], k), k) /\ IsByte(s.text[i])
    BY <1>1, <2>1
  <2> QED
    BY <2>2, XorTwice
<1> QED
  BY <1>1, <1>2, SeqsEqual

LEMMA DecryptStep ==
    ASSUME IInv, NEW n \in Nonce, NEW s0 \in sealed, NEW m \in Arriving(s0),
           AuthDecrypt(n, m[1], m[2], s0.tag)
    PROVE  IInv'
<1> DEFINE a == m[1]
           in == m[2]
           c == CryptAndTag(ctx, "DECRYPT", n, a, in)
           text == CryptOutput(ctx, "DECRYPT", n, in)
           ok == Tag(c) = s0.tag
           out == Released(ok, text)
           o == [ok |-> ok, key |-> ctx.key, nonce |-> n, aad |-> a,
                 cipher |-> in, tag |-> s0.tag, output |-> out]
<1>1. /\ ctx' = c /\ ret' = (IF ok THEN "0" ELSE "AUTH_FAILED")
      /\ aad' = a /\ input' = in /\ output' = out /\ opened' = o /\ sealed' = sealed
      /\ again' = 1
  BY DEF AuthDecrypt
<1>2. GoodMessage(s0)
  BY DEF IInv, SealedInv
<1>3. IsSeq(a) /\ IsSeq(in)
  BY <1>2, ArrivingAre DEF GoodMessage
<1> HIDE DEF a, in
<1>4. OneShot(c, text, ctx.key, "DECRYPT", n, a, in)
  BY <1>3, CryptAndTagIs
<1> HIDE DEF c, text
<1>5. /\ Idle(c) /\ c.state = "FINISHED" /\ c.mode = "DECRYPT" /\ c.key = ctx.key
      /\ c.nonce = n /\ c.pos = KB + Len(in) /\ c.aadLen = Len(a) /\ c.ctLen = Len(in)
      /\ Tag(c) = Reference(ctx.key, n, a, in, 0)
      /\ IsSeq(text) /\ Len(text) = Len(in)
      /\ \A i \in 1..Len(in) : text[i] = Xor(in[i], <<ctx.key, n, KB + i - 1>>)
  BY <1>4 DEF OneShot
<1>6. Len(a) \in Nat /\ Len(in) \in Nat /\ KB + Len(in) \in Nat
  BY <1>3, SeqFacts, AeadAssumption
<1>7. ok => out = text
  BY DEF Released
<1>8. ~ok => out = Zeros(Len(in))
  BY <1>5 DEF Released
<1>9. o.ok = ok /\ o.key = ctx.key /\ o.nonce = n /\ o.aad = a /\ o.cipher = in
      /\ o.tag = s0.tag /\ o.output = out
  OBVIOUS
<1> HIDE DEF ok, out, o
<1>10. IsSeq(out) /\ Len(out) = Len(in)
  BY <1>5, <1>6, <1>7, <1>8, ZerosType
<1>11. CtxInv'
  BY <1>1, <1>5, <1>6, AeadAssumption DEF IInv, CtxInv
<1>17. AgainInv'
  BY <1>1, <1>5 DEF AgainInv, Streaming
<1>12. StreamInv' /\ MaskInv'
  <2>1. ~Streaming' /\ ctx'.state # "AAD"
    BY <1>1, <1>5 DEF Streaming
  <2> QED
    BY <1>1, <1>3, <1>5, <1>10, <2>1 DEF StreamInv, MaskInv
<1> DEFINE Same(s) == /\ s.key = o.key /\ s.nonce = o.nonce /\ s.aad = o.aad
                      /\ s.cipher = o.cipher /\ s.tag = o.tag /\ s.again = 0
<1>13. ASSUME NEW s \in sealed, Same(s)
       PROVE  ok /\ (ok => out = s.text)
  <2>1. GoodMessage(s)
    BY DEF IInv, SealedInv
  <2>2. s.key = ctx.key /\ s.nonce = n /\ s.aad = a /\ s.cipher = in /\ s.tag = s0.tag
        /\ s.again = 0
    BY <1>9, <1>13
  <2>3. ok
    BY <1>5, <2>1, <2>2 DEF ok, GoodMessage
  <2>4. text = s.text
    BY <1>5, <2>1, <2>2, MaskedBack
  <2> QED
    BY <1>7, <2>3, <2>4
<1>14. ASSUME ok PROVE Same(s0)
  <2>1. Reference(ctx.key, n, a, in, 0) = Reference(s0.key, s0.nonce, s0.aad, s0.cipher, s0.again)
    BY <1>2, <1>5, <1>14 DEF ok, GoodMessage
  <2>2. s0.key = ctx.key /\ s0.nonce = n /\ s0.aad = a /\ s0.cipher = in /\ s0.again = 0
    BY <1>2, <1>3, <2>1, ReferenceTellsApart DEF GoodMessage
  <2> QED
    BY <1>9, <2>2
<1>15. ~ok => \A i \in DOMAIN out : out[i] = ZeroByte
  <2>1. SUFFICES ASSUME ~ok PROVE \A i \in DOMAIN out : out[i] = ZeroByte
    OBVIOUS
  <2>2. out = [i \in 1..Len(in) |-> ZeroByte]
    BY <1>8, <2>1 DEF Zeros
  <2> QED
    BY <2>2
<1>16. OpensOnlySealed'
  <2>1. o.ok <=> \E s \in sealed : Same(s)
    BY <1>9, <1>13, <1>14
  <2>2. o.ok => \A s \in sealed : Same(s) => o.output = s.text
    BY <1>9, <1>13
  <2>3. ~o.ok => \A i \in DOMAIN o.output : o.output[i] = ZeroByte
    BY <1>9, <1>15
  <2> QED
    BY <1>1, <2>1, <2>2, <2>3 DEF OpensOnlySealed
<1> QED
  BY <1>1, <1>11, <1>12, <1>16, <1>17, SameSealed DEF IInv

LEMMA NextStep == IInv /\ [Next]_vars => IInv'
<1> SUFFICES ASSUME IInv, [Next]_vars PROVE IInv'
  OBVIOUS
<1>1. ASSUME NEW k \in Key, SetKey(k) PROVE IInv'
  BY <1>1, SetKeyStep
<1>2. ASSUME NEW n \in Nonce, NEW m \in {"ENCRYPT", "DECRYPT"}, Starts(n, m) PROVE IInv'
  BY <1>2, StartsStep
<1>3. ASSUME NEW n \in 0..MaxLen, UpdateAad(n) PROVE IInv'
  BY <1>3, UpdateAadStep
<1>4. ASSUME NEW n \in 0..MaxLen, Update(n) PROVE IInv'
  BY <1>4, UpdateStep
<1>5. CASE Finish
  BY <1>5, FinishStep
<1>6. CASE Reset
  BY <1>6, ResetStep
<1>7. ASSUME NEW n \in Nonce, NEW a \in 0..MaxLen, NEW t \in 0..MaxLen, EncryptAndTag(n, a, t)
      PROVE  IInv'
  BY <1>7, EncryptStep
<1>8. ASSUME NEW n \in Nonce, NEW s \in sealed, NEW m \in Arriving(s),
             AuthDecrypt(n, m[1], m[2], s.tag)
      PROVE  IInv'
  BY <1>8, DecryptStep
<1>9. CASE UNCHANGED vars
  <2>1. /\ ctx' = ctx /\ ret' = ret /\ aad' = aad /\ input' = input /\ output' = output
        /\ sealed' = sealed /\ opened' = opened /\ again' = again
    BY <1>9 DEF vars
  <2>2. CtxInv' /\ MaskInv' /\ AgainInv'
    BY <2>1 DEF IInv, CtxInv, MaskInv, AgainInv, Streaming, Key1
  <2>3. StreamInv'
    BY <2>1 DEF IInv, StreamInv, Streaming, CipherSoFar
  <2>4. OpensOnlySealed'
    BY <2>1 DEF IInv, OpensOnlySealed
  <2> QED
    BY <2>1, <2>2, <2>3, <2>4, SameSealed DEF IInv
<1> QED
  BY <1>1, <1>2, <1>3, <1>4, <1>5, <1>6, <1>7, <1>8, <1>9 DEF Next

-----------------------------------------------------------------------------
(* The invariant holds in every reachable state, for every block size, key *)
(* set, bound and piece size: mbedtls_chachapoly and mbedtls_poly1305.     *)
THEOREM InvariantHolds == Spec => []IInv
<1>1. Init => IInv
  BY InitIInv
<1>2. IInv /\ [Next]_vars => IInv'
  BY NextStep
<1> QED
  BY <1>1, <1>2, PTL DEF Spec

LEMMA TypeOKFollows == IInv => TypeOK
<1> SUFFICES ASSUME IInv PROVE TypeOK
  OBVIOUS
<1>1. \E K, s : IsSeq(s) /\ Absorbed(ctx.poly, K, s)
  <2>1. CASE Streaming
    <3>1. IsSeq(aad) /\ IsSeq(CipherSoFar) /\ InStream(ctx, aad, CipherSoFar)
      BY <2>1 DEF IInv, StreamInv, CipherSoFar
    <3>2. IsSeq(Before(aad, CipherSoFar))
      BY <3>1, BeforeIs
    <3> QED
      BY <3>1, <3>2 DEF InStream, InAad, InText
  <2>2. CASE ~Streaming
    BY <2>2 DEF IInv, StreamInv, Idle
  <2> QED
    BY <2>1, <2>2
<1>2. Len(ctx.poly.queue) < P /\ \A i \in DOMAIN ctx.poly.blocks : Len(ctx.poly.blocks[i].data) = P
  BY <1>1, AbsorbedType
<1> QED
  BY <1>2 DEF TypeOK, IInv, CtxInv, SealedInv

(* Every variable has its type; in particular no block and no queue of the *)
(* Poly1305 context outgrows its buffer.                                   *)
THEOREM TypeCorrect == Spec => []TypeOK
<1>1. IInv => TypeOK
  BY TypeOKFollows
<1> QED
  BY <1>1, InvariantHolds, PTL

LEMMA StreamsFollows == IInv => StreamsTheLayout
<1> SUFFICES ASSUME IInv PROVE StreamsTheLayout
  OBVIOUS
<1>1. /\ IsSeq(aad) /\ IsSeq(input) /\ IsSeq(output) /\ Len(output) = Len(input)
      /\ Streaming => InStream(ctx, aad, CipherSoFar)
      /\ ctx.state = "AAD" => input = <<>> /\ output = <<>>
  BY DEF IInv, StreamInv
<1>2. PICK x : x = CipherSoFar
  OBVIOUS
<1>3. IsSeq(x) /\ Len(x) = Len(input) /\ Len(input) \in Nat
  BY <1>1, <1>2, SeqFacts DEF CipherSoFar
<1>4. ASSUME ctx.state = "AAD"
      PROVE  PolyInput(ctx.poly) = aad /\ ctx.pos = KB + Len(input)
  <2>1. InAad(ctx, aad)
    BY <1>1, <1>4 DEF Streaming, InStream, InText
  <2>2. PolyInput(ctx.poly) = aad
    BY <1>1, <2>1, InputOfAbsorbed DEF InAad
  <2>3. Len(input) = 0
    BY <1>1, <1>4, NoBytes
  <2> QED
    BY <2>1, <2>2, <2>3, AeadAssumption DEF InAad
<1>5. ASSUME ctx.state = "CIPHERTEXT"
      PROVE  PolyInput(ctx.poly) = Before(aad, x) /\ ctx.pos = KB + Len(input)
  <2>1. InText(ctx, aad, x)
    BY <1>1, <1>2, <1>5 DEF Streaming, InStream, InAad
  <2>2. IsSeq(Before(aad, x))
    BY <1>1, <1>3, BeforeIs
  <2>3. PolyInput(ctx.poly) = Before(aad, x)
    BY <2>1, <2>2, InputOfAbsorbed DEF InText
  <2> QED
    BY <1>3, <2>1, <2>3 DEF InText
<1>6. ctx.state = "CIPHERTEXT" => PolyInput(ctx.poly) = aad \o Pad(Len(aad)) \o CipherSoFar
  BY <1>2, <1>5 DEF Before, Padded
<1> QED
  BY <1>4, <1>5, <1>6 DEF StreamsTheLayout, Streaming, CipherSoFar

(* However the additional data and the text are cut into calls, Poly1305   *)
(* has been given a beginning of the layout, and the keystream position is *)
(* one block and the text on: update_aad, update.                          *)
THEOREM LayoutIsStreamed == Spec => []StreamsTheLayout
<1>1. IInv => StreamsTheLayout
  BY StreamsFollows
<1> QED
  BY <1>1, InvariantHolds, PTL

LEMMA TagFollows == IInv => TagOfLayout
<1> SUFFICES ASSUME IInv, NEW s \in sealed
             PROVE  /\ s.tag = Reference(s.key, s.nonce, s.aad, s.cipher, s.again)
                    /\ s.cipher = [i \in DOMAIN s.text |->
                                     Xor(s.text[i], <<s.key, s.nonce, KB + i - 1>>)]
  BY DEF TagOfLayout
<1>1. GoodMessage(s)
  BY DEF IInv, SealedInv
<1>2. /\ IsSeq(s.text) /\ IsSeq(s.cipher) /\ Len(s.cipher) = Len(s.text)
      /\ \A i \in 1..Len(s.text) :
            s.cipher[i] = Xor(s.text[i], <<s.key, s.nonce, KB + i - 1>>)
      /\ s.tag = Reference(s.key, s.nonce, s.aad, s.cipher, s.again)
  BY <1>1 DEF GoodMessage
<1>3. DOMAIN s.text = 1..Len(s.text) /\ s.cipher = [i \in 1..Len(s.text) |-> s.cipher[i]]
  BY <1>2, SeqFacts
<1> QED
  BY <1>2, <1>3

(* Every tag that encryption returns 0 with, in pieces or in one call, is  *)
(* that of the padded layout of its additional data and ciphertext; the    *)
(* n-th after the first, which the header says is refused, is that of the  *)
(* layout with the lengths repeated n times (TagOfLayout).                 *)
THEOREM TagsOfLayouts == Spec => []TagOfLayout
<1>1. IInv => TagOfLayout
  BY TagFollows
<1> QED
  BY <1>1, InvariantHolds, PTL

(* auth_decrypt accepts exactly what was sealed under this key and nonce   *)
(* with the first tag of its message, returns its text, and otherwise no   *)
(* byte of it (OpensOnlySealed).                                           *)
THEOREM OnlySealedOpens == Spec => []OpensOnlySealed
<1>1. IInv => OpensOnlySealed
  BY DEF IInv
<1> QED
  BY <1>1, InvariantHolds, PTL
=============================================================================
