--------------------------- MODULE ChaCha20Proofs ---------------------------
(***************************************************************************)
(* The keystream position of ChaCha20, for every block size, counter       *)
(* width, key, nonce and cutting of the input into updates.                *)
(***************************************************************************)
EXTENDS ChaCha20, TLAPS

(* Division by the block size, for a number given as quotient and rest.    *)
LEMMA DivMod ==
    ASSUME NEW d \in Nat \ {0}, NEW q \in Nat, NEW r \in 0..(d - 1)
    PROVE  (d * q + r) \div d = q /\ (d * q + r) % d = r
  OBVIOUS

(* The counter may be reduced at every step or once.                       *)
LEMMA ModSuccessor ==
    ASSUME NEW d \in Nat \ {0}, NEW x \in Nat
    PROVE  ((x % d) + 1) % d = (x + 1) % d
<1> DEFINE q == x \div d
           r == x % d
<1>1. q \in Nat /\ r \in 0..(d - 1) /\ x = d * q + r
  OBVIOUS
<1> HIDE DEF q, r
<1>2. CASE r + 1 < d
  <2>1. (d * q + (r + 1)) % d = r + 1
    BY <1>1, <1>2, DivMod
  <2>2. (d * 0 + (r + 1)) % d = r + 1
    BY <1>1, <1>2, DivMod
  <2>3. x + 1 = d * q + (r + 1) /\ r + 1 = d * 0 + (r + 1)
    BY <1>1
  <2> QED BY <2>1, <2>2, <2>3 DEF r
<1>3. CASE r + 1 = d
  <2>1. (d * (q + 1) + 0) % d = 0
    BY <1>1, DivMod
  <2>2. (d * 1 + 0) % d = 0
    BY <1>1, DivMod
  <2>3. x + 1 = d * (q + 1) + 0 /\ r + 1 = d * 1 + 0
    BY <1>1, <1>3
  <2> QED BY <2>1, <2>2, <2>3 DEF r
<1> QED BY <1>1, <1>2, <1>3

-----------------------------------------------------------------------------
(* Bytes 1..n of block n-th of the stream, counted from 0, are bytes       *)
(* B*n + 1 .. of the keystream.                                            *)
LEMMA KeystreamOfBlock ==
    ASSUME ChaChaAssumption, NEW b \in BlockType, NEW n \in Nat, NEW j \in 0..(B - 1)
    PROVE  Keystream(b, B * n + j + 1) = <<[b EXCEPT !.ctr = (@ + n) % M], j>>
<1>1. (B * n + j + 1) - 1 = B * n + j
  BY DEF ChaChaAssumption
<1>2. (B * n + j) \div B = n /\ (B * n + j) % B = j
  BY DivMod DEF ChaChaAssumption
<1> QED BY <1>1, <1>2 DEF Keystream

(* What is the i-th element of two sequences one after the other.          *)
LEMMA Concatenation ==
    ASSUME NEW S, NEW s \in Seq(S), NEW t \in Seq(S)
    PROVE  /\ Len(s \o t) = Len(s) + Len(t)
           /\ \A i \in 1..Len(s) : (s \o t)[i] = s[i]
           /\ \A i \in (Len(s) + 1)..(Len(s) + Len(t)) : (s \o t)[i] = t[i - Len(s)]
  OBVIOUS

(* A multiple of B is no smaller than its factor.                          *)
LEMMA Multiples ==
    ASSUME NEW d \in Nat \ {0}, NEW n \in Nat
    PROVE  /\ d * n \in Nat /\ d * n >= n
           /\ d * (n + 1) = d * n + d
  OBVIOUS

LEMMA InitHolds == Init => TypeOK /\ IInv
  BY ChaChaAssumption DEF Init, TypeOK, IInv, StreamInOrder, BlockType, ChaChaAssumption

(* A block that would be made now is a block. *)
LEMMA BlockIsTyped == TypeOK => Block \in BlockType
  BY DEF TypeOK, Block, BlockType

LEMMA TypeStep == TypeOK /\ [Next]_vars => TypeOK'
<1> SUFFICES ASSUME TypeOK, [Next]_vars PROVE TypeOK'
  OBVIOUS
<1> USE ChaChaAssumption DEF ChaChaAssumption
<1>0. Block \in BlockType
  BY BlockIsTyped
<1>1. ASSUME NEW k \in Key, SetKey(k) PROVE TypeOK'
  BY <1>1 DEF TypeOK, SetKey, BlockType
<1>2. ASSUME NEW n \in Nonce, NEW c \in StartCounters, Starts(n, c) PROVE TypeOK'
  BY <1>2 DEF TypeOK, Starts, BlockType
<1>3. CASE Free
  BY <1>3 DEF TypeOK, Free, BlockType
<1>4. CASE Reinit
  BY <1>4 DEF TypeOK, Reinit, BlockType
<1>5. ASSUME NEW size \in 0..MaxBytes, Update(size) PROVE TypeOK'
  BY <1>5 DEF TypeOK, Update, state, BlockType
<1>6. CASE Leftover
  <2>1. <<ks, used>> \in (BlockType \cup {Zero}) \X (0..(B - 1))
    BY <1>6 DEF TypeOK, Leftover
  <2>2. out' \in Seq((BlockType \cup {Zero}) \X (0..(B - 1)))
    BY <1>6, <2>1 DEF TypeOK, Leftover
  <2> QED BY <1>6, <2>2 DEF TypeOK, Leftover, state, BlockType
<1>7. ASSUME NEW n \in 1..B, out' = out \o BytesOf(Block, n), NewBlock
      PROVE  /\ out' \in Seq((BlockType \cup {Zero}) \X (0..(B - 1)))
             /\ ctr' \in 0..(M - 1) /\ ks' \in BlockType
             /\ key' = key /\ nonce' = nonce /\ base' = base
  <2>1. BytesOf(Block, n) \in Seq((BlockType \cup {Zero}) \X (0..(B - 1)))
    <3>1. BytesOf(Block, n) \in [1..n -> (BlockType \cup {Zero}) \X (0..(B - 1))]
      BY <1>0 DEF BytesOf
    <3> QED BY <3>1
  <2>2. out' \in Seq((BlockType \cup {Zero}) \X (0..(B - 1)))
    BY <1>7, <2>1 DEF TypeOK
  <2> QED BY <1>7, <1>0, <2>2 DEF NewBlock, TypeOK
<1>8. CASE FullBlock
  <2>1. B \in 1..B /\ left' \in Nat /\ used' = used
    BY <1>8 DEF FullBlock, TypeOK
  <2>2. out' = out \o BytesOf(Block, B) /\ NewBlock
    BY <1>8 DEF FullBlock
  <2>3. /\ out' \in Seq((BlockType \cup {Zero}) \X (0..(B - 1)))
        /\ ctr' \in 0..(M - 1) /\ ks' \in BlockType
        /\ key' = key /\ nonce' = nonce /\ base' = base
    BY <2>1, <2>2, <1>7
  <2> QED BY <2>1, <2>3 DEF TypeOK, BlockType
<1>9. CASE LastBlock
  <2>1. left \in 1..B
    BY <1>9 DEF LastBlock, TypeOK
  <2> QED BY <1>9, <1>7, <2>1 DEF LastBlock, TypeOK, BlockType
<1>10. CASE UNCHANGED vars
  BY <1>10 DEF vars, state, TypeOK, BlockType
<1> QED BY <1>1, <1>2, <1>3, <1>4, <1>5, <1>6, <1>8, <1>9, <1>10 DEF Next, Loop

(* Every variable of a context keeps its type: keystream8 is never indexed *)
(* past its end.                                                           *)
THEOREM TypeCorrect == Spec => []TypeOK
<1>1. Init => TypeOK
  BY InitHolds
<1> QED BY <1>1, TypeStep, PTL DEF Spec

-----------------------------------------------------------------------------
(* A piece of a block behind a stream of which n blocks have been made.    *)
LEMMA AppendedPiece ==
    ASSUME TypeOK, IInv, base # Zero, NewBlock, NEW n \in Nat, Position(n), used = B,
           NEW m \in 1..B, out' = out \o BytesOf(Block, m), used' = m
    PROVE  IInv' /\ Len(out') = Len(out) + m
<1> USE ChaChaAssumption DEF ChaChaAssumption
<1>1. /\ base \in BlockType /\ base' = base /\ key' = key /\ nonce' = nonce
      /\ base.key = key /\ base.nonce = nonce
  BY DEF NewBlock, TypeOK, IInv
<1>2. Len(out) = B * n /\ Len(out) \in Nat
  BY DEF Position, TypeOK
<1>3. Block = [base EXCEPT !.ctr = (@ + n) % M]
  <2>1. [base EXCEPT !.ctr = (@ + n) % M]
          = [key |-> base.key, nonce |-> base.nonce, ctr |-> (base.ctr + n) % M]
    BY <1>1 DEF BlockType
  <2> QED BY <1>1, <2>1 DEF Block, Position
<1>4. /\ Len(BytesOf(Block, m)) = m
      /\ BytesOf(Block, m) \in Seq((BlockType \cup {Zero}) \X (0..(B - 1)))
      /\ \A j \in 1..m : BytesOf(Block, m)[j] = <<Block, j - 1>>
  <2>1. BytesOf(Block, m) \in [1..m -> (BlockType \cup {Zero}) \X (0..(B - 1))]
    BY BlockIsTyped DEF BytesOf
  <2>2. \A j \in 1..m : BytesOf(Block, m)[j] = <<Block, j - 1>>
    BY DEF BytesOf
  <2>3. DOMAIN BytesOf(Block, m) = 1..m
    BY DEF BytesOf
  <2> QED BY <2>1, <2>2, <2>3
<1>5. /\ Len(out') = Len(out) + m
      /\ \A i \in 1..Len(out) : out'[i] = out[i]
      /\ \A i \in (Len(out) + 1)..(Len(out) + m) : out'[i] = BytesOf(Block, m)[i - Len(out)]
  <2> DEFINE T == (BlockType \cup {Zero}) \X (0..(B - 1))
             t == BytesOf(Block, m)
  <2>1. out \in Seq(T) /\ t \in Seq(T) /\ Len(t) = m /\ out' = out \o t
    BY <1>4 DEF TypeOK
  <2> HIDE DEF T, t
  <2>2. /\ Len(out \o t) = Len(out) + Len(t)
        /\ \A i \in 1..Len(out) : (out \o t)[i] = out[i]
        /\ \A i \in (Len(out) + 1)..(Len(out) + Len(t)) : (out \o t)[i] = t[i - Len(out)]
    BY <2>1, Concatenation
  <2>3. /\ Len(out') = Len(out) + m
        /\ \A i \in 1..Len(out) : out'[i] = out[i]
        /\ \A i \in (Len(out) + 1)..(Len(out) + m) : out'[i] = t[i - Len(out)]
    BY <2>1, <2>2
  <2> QED BY <2>3 DEF t
<1>6. \A i \in 1..Len(out') : out'[i] = Keystream(base, i)
  <2> SUFFICES ASSUME NEW i \in 1..Len(out') PROVE out'[i] = Keystream(base, i)
    OBVIOUS
  <2>1. CASE i <= Len(out)
    <3>1. out'[i] = out[i]
      BY <2>1, <1>5, <1>2
    <3> QED BY <3>1, <2>1, <1>2 DEF IInv, StreamInOrder
  <2>2. CASE i > Len(out)
    <3> DEFINE j == i - Len(out)
    <3>1. j \in 1..m
      BY <2>2, <1>2, <1>5
    <3>2. out'[i] = <<Block, j - 1>>
      <4>1. i \in (Len(out) + 1)..(Len(out) + m)
        BY <2>2, <1>2, <1>5
      <4>2. out'[i] = BytesOf(Block, m)[i - Len(out)]
        BY <4>1, <1>5
      <4>3. BytesOf(Block, m)[j] = <<Block, j - 1>>
        BY <3>1, <1>4
      <4> QED BY <4>2, <4>3
    <3>3. j - 1 \in 0..(B - 1) /\ i = B * n + (j - 1) + 1
      BY <3>1, <1>2
    <3>4. Keystream(base, B * n + (j - 1) + 1) = <<[base EXCEPT !.ctr = (@ + n) % M], j - 1>>
      BY <3>3, <1>1, KeystreamOfBlock
    <3> QED BY <3>2, <3>3, <3>4, <1>3
  <2> QED BY <1>2, <1>5, <2>1, <2>2
<1>7. /\ Len(out') + B - used' = B * (n + 1)
      /\ n + 1 \in 0..(Len(out') + B) /\ n + 1 > 0
  <2> DEFINE p == B * n
             q == B * (n + 1)
  <2>1. p \in Nat /\ p >= n /\ q = p + B
    BY Multiples
  <2>2. Len(out) = p
    BY <1>2
  <2> HIDE DEF p, q
  <2>3. Len(out') + B - used' = q /\ n + 1 \in 0..(Len(out') + B) /\ n + 1 > 0
    BY <1>5, <2>1, <2>2
  <2> QED BY <2>3 DEF q
<1>8. ctr' = (base.ctr + (n + 1)) % M
  <2>1. base.ctr + n \in Nat
    BY <1>1 DEF BlockType
  <2>2. ctr' = (((base.ctr + n) % M) + 1) % M
    BY DEF NewBlock, Position
  <2>3. (((base.ctr + n) % M) + 1) % M = ((base.ctr + n) + 1) % M
    BY <2>1, ModSuccessor
  <2>4. (base.ctr + n) + 1 = base.ctr + (n + 1)
    BY <1>1 DEF BlockType
  <2> QED BY <2>2, <2>3, <2>4
<1>9. ks' = [base EXCEPT !.ctr = (@ + (n + 1) - 1) % M]
  <2>1. base.ctr + (n + 1) - 1 = base.ctr + n
    BY <1>1 DEF BlockType
  <2> QED BY <1>3, <2>1 DEF NewBlock
<1>10. Position(n + 1)'
  BY <1>1, <1>7, <1>8, <1>9 DEF Position
<1> QED BY <1>1, <1>5, <1>6, <1>7, <1>10 DEF IInv, StreamInOrder

LEMMA StreamStep == TypeOK /\ IInv /\ [Next]_vars => IInv'
<1> SUFFICES ASSUME TypeOK, IInv, [Next]_vars PROVE IInv'
  OBVIOUS
<1> USE ChaChaAssumption DEF ChaChaAssumption
<1>1. ASSUME NEW k \in Key, SetKey(k) PROVE IInv'
  BY <1>1 DEF SetKey, IInv, StreamInOrder
<1>2. ASSUME NEW n \in Nonce, NEW c \in StartCounters, Starts(n, c) PROVE IInv'
  <2>1. base' = [key |-> key, nonce |-> n, ctr |-> c] /\ key' = key /\ nonce' = n
        /\ ctr' = c /\ used' = B /\ out' = <<>> /\ left' = 0 /\ Len(out') = 0
    BY <1>2 DEF Starts
  <2>2. (base'.ctr + 0) % M = c
    <3>1. c \in 0..(M - 1) /\ (M * 0 + c) % M = c
      BY DivMod
    <3> QED BY <2>1, <3>1
  <2>3. Position(0)'
    BY <2>1, <2>2 DEF Position
  <2> QED BY <2>1, <2>3 DEF IInv, StreamInOrder
<1>3. CASE Free
  BY <1>3 DEF Free, IInv, StreamInOrder
<1>4. CASE Reinit
  BY <1>4 DEF Reinit, IInv, StreamInOrder
<1>5. ASSUME NEW size \in 0..MaxBytes, Update(size) PROVE IInv'
  BY <1>5 DEF Update, state, IInv, StreamInOrder, Position
<1>6. ASSUME left > 0 PROVE base # Zero /\ base \in BlockType
  BY <1>6 DEF IInv, TypeOK
<1>7. ASSUME left > 0 PROVE \E n \in Nat : Position(n)
  <2>1. Len(out) \in Nat
    BY DEF TypeOK
  <2> QED BY <1>6, <1>7, <2>1 DEF IInv
<1>8. CASE Leftover
  <2>1. base # Zero /\ base \in BlockType /\ base' = base
    BY <1>6, <1>8 DEF Leftover
  <2>2. PICK n \in Nat : Position(n)
    BY <1>7, <1>8 DEF Leftover
  <2>3. /\ Len(out) \in Nat /\ Len(out') = Len(out) + 1
        /\ out'[Len(out) + 1] = <<ks, used>>
        /\ \A i \in 1..Len(out) : out'[i] = out[i]
    BY <1>8 DEF TypeOK, Leftover
  <2>4. n > 0 /\ ks = [base EXCEPT !.ctr = (@ + n - 1) % M] /\ used \in 0..(B - 1)
    BY <1>8, <2>2 DEF Position, Leftover, TypeOK
  <2>5. Len(out) + 1 = B * (n - 1) + used + 1
    <3>1. B * n = B * (n - 1) + B
      OBVIOUS
    <3> QED BY <2>2, <2>3, <2>4, <3>1 DEF Position
  <2>6. Keystream(base, Len(out) + 1) = <<ks, used>>
    <3>1. n - 1 \in Nat /\ base.ctr + n - 1 = base.ctr + (n - 1)
      BY <2>1, <2>4 DEF BlockType
    <3>2. Keystream(base, B * (n - 1) + used + 1)
            = <<[base EXCEPT !.ctr = (@ + (n - 1)) % M], used>>
      BY <3>1, <2>1, <2>4, KeystreamOfBlock
    <3> QED BY <2>4, <2>5, <3>1, <3>2
  <2>7. \A i \in 1..Len(out') : out'[i] = Keystream(base, i)
    BY <2>1, <2>3, <2>6 DEF IInv, StreamInOrder
  <2>8. Position(n)'
    BY <1>8, <2>1, <2>2, <2>3, <2>4 DEF Position, Leftover, state
  <2>9. n \in 0..(Len(out') + B)
    <3> DEFINE p == B * (n - 1)
    <3>1. p \in Nat /\ p >= n - 1
      BY <2>4, Multiples
    <3>2. Len(out) + 1 = p + used + 1
      BY <2>5
    <3> HIDE DEF p
    <3> QED BY <3>1, <3>2, <2>3, <2>4
  <2> QED BY <1>8, <2>1, <2>7, <2>8, <2>9 DEF IInv, StreamInOrder, Leftover, state
<1>9. CASE FullBlock
  <2>1. left > 0 /\ used = B /\ used' = B /\ NewBlock
        /\ out' = out \o BytesOf(Block, B) /\ B \in 1..B
    BY <1>9 DEF FullBlock, TypeOK
  <2>2. PICK n \in Nat : Position(n)
    BY <1>7, <2>1
  <2> QED BY <1>6, <2>1, <2>2, AppendedPiece
<1>10. CASE LastBlock
  <2>1. PICK n \in Nat : Position(n)
    BY <1>7, <1>10 DEF LastBlock
  <2>2. left \in 1..B
    BY <1>10 DEF LastBlock, TypeOK
  <2> QED BY <1>6, <1>10, <2>1, <2>2, AppendedPiece DEF LastBlock
<1>11. CASE UNCHANGED vars
  BY <1>11 DEF vars, state, IInv, StreamInOrder, Position
<1> QED BY <1>1, <1>2, <1>3, <1>4, <1>5, <1>8, <1>9, <1>10, <1>11 DEF Next, Loop

(* The inductive invariant holds, *)
THEOREM PositionKept == Spec => []IInv
<1>1. Init => TypeOK /\ IInv
  BY InitHolds
<1>2. TypeOK /\ IInv /\ [Next]_vars => TypeOK' /\ IInv'
  BY TypeStep, StreamStep
<1> QED BY <1>1, <1>2, PTL DEF Spec

(* and with it piecewise processing uses the keystream in order.           *)
THEOREM PiecewiseIsOneStream == Spec => []StreamInOrder
<1>1. IInv => StreamInOrder
  BY DEF IInv
<1> QED BY <1>1, PositionKept, PTL
(* Two numbers with one rest are a divisor apart.                          *)
LEMMA SameRest ==
    ASSUME NEW d \in Nat \ {0}, NEW x \in Nat, NEW y \in Nat, x < y, x % d = y % d
    PROVE  /\ y - x = d * ((y \div d) - (x \div d))
           /\ (y \div d) - (x \div d) \in Nat \ {0}
           /\ y - x >= d
<1> DEFINE qx == x \div d
           qy == y \div d
           r == x % d
<1>1. /\ qx \in Nat /\ qy \in Nat /\ r \in 0..(d - 1)
      /\ x = d * qx + r /\ y = d * qy + r
  OBVIOUS
<1> HIDE DEF qx, qy, r
<1>2. qx < qy
  <2> SUFFICES ASSUME qy <= qx PROVE FALSE
    BY <1>1
  <2>1. d * qy <= d * qx
    BY <1>1
  <2> QED BY <1>1, <2>1
<1>3. d * qy - d * qx = d * (qy - qx) /\ qy - qx \in Nat \ {0}
  BY <1>1, <1>2
<1>4. d * (qy - qx) >= d
  BY <1>3
<1>5. y - x = d * (qy - qx)
  BY <1>1, <1>3
<1> QED BY <1>3, <1>4, <1>5 DEF qx, qy

(* The keystream repeats itself after B * M bytes at the earliest.         *)
LEMMA KeystreamIsFresh ==
    ASSUME ChaChaAssumption, NEW b \in BlockType,
           NEW i \in Nat \ {0}, NEW j \in Nat \ {0}, i < j, j - i < B * M
    PROVE  Keystream(b, i) # Keystream(b, j)
<1> USE ChaChaAssumption DEF ChaChaAssumption
<1> SUFFICES ASSUME Keystream(b, i) = Keystream(b, j) PROVE FALSE
  OBVIOUS
<1> DEFINE qi == (i - 1) \div B
           qj == (j - 1) \div B
<1>1. /\ (i - 1) % B = (j - 1) % B
      /\ [b EXCEPT !.ctr = (@ + qi) % M] = [b EXCEPT !.ctr = (@ + qj) % M]
  BY DEF Keystream
<1>2. (b.ctr + qi) % M = (b.ctr + qj) % M
  BY <1>1 DEF BlockType
<1>3. /\ (j - 1) - (i - 1) = B * (qj - qi)
      /\ qj - qi \in Nat \ {0}
  BY <1>1, SameRest
<1>4. qi \in Nat /\ qj \in Nat /\ b.ctr \in Nat
  BY DEF BlockType
<1> HIDE DEF qi, qj
<1>5. (b.ctr + qj) - (b.ctr + qi) >= M
  <2>1. b.ctr + qi \in Nat /\ b.ctr + qj \in Nat /\ b.ctr + qi < b.ctr + qj
    BY <1>3, <1>4
  <2> QED BY <1>2, <2>1, SameRest
<1>6. qj - qi >= M
  BY <1>4, <1>5
<1>7. B * (qj - qi) >= B * M
  BY <1>3, <1>6
<1> QED BY <1>3, <1>7

(* No byte of the keystream is used twice before the counter wraps.        *)
THEOREM KeystreamUsedOnce == Spec => []UsedOnce
<1>1. TypeOK /\ StreamInOrder => UsedOnce
  <2> SUFFICES ASSUME TypeOK, StreamInOrder, base # Zero,
                      NEW i \in 1..Len(out), NEW j \in 1..Len(out), i < j, j - i < B * M
               PROVE  out[i] # out[j]
    BY DEF UsedOnce
  <2>1. base \in BlockType /\ i \in Nat \ {0} /\ j \in Nat \ {0}
    BY DEF TypeOK
  <2>2. Keystream(base, i) # Keystream(base, j)
    BY <2>1, ChaChaAssumption, KeystreamIsFresh
  <2> QED BY <2>2 DEF StreamInOrder
<1> QED BY <1>1, TypeCorrect, PiecewiseIsOneStream, PTL
=============================================================================
