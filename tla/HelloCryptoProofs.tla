-------------------------- MODULE HelloCryptoProofs --------------------------
(***************************************************************************)
(* The handshake's cryptography, for every field and curve that satisfy    *)
(* the facts assumed of them: a static key pair stays a pair, and what the *)
(* other side has of it stays its public half, through every               *)
(* ed25519_create_keypair and ed25519_add_scalar (KeysStayPairs);          *)
(* ed25519_verify accepts the solutions of its equation and nothing else   *)
(* (VerifyDecides); and two sides that follow the protocol accept each     *)
(* other and have one secret (SecretIsShared).                             *)
(* The way there is the correctness of the curve code below, from the      *)
(* field up.  A residue stands for an integer modulo the prime (Is), and   *)
(* the functions of fe.c for its operations.  A point in projective        *)
(* coordinates stands for a point of the curve (StandsP3, StandsP2,        *)
(* StandsP1P1), and ge_madd, ge_add and ge_p2_dbl for the addition law,    *)
(* whose denominators are never zero and which is associative by           *)
(* assumption.  The multiples of the base point are then counted by        *)
(* integers (G), the table holds those it should, and the signed digits of *)
(* a scalar add up to it: so ge_scalarmult_base multiplies.  Decoding      *)
(* finds the point it was written from, negated, so adding a scalar to the *)
(* private half and its multiple to the public half keeps them a pair.     *)
(* For verifying, the digits of slide are worth the scalar they were made  *)
(* from (Value), and each round of ge_double_scalarmult_vartime doubles a  *)
(* sum of two multiples (Both) and adds a digit of either.                 *)
(* For the secret, a pair (X : Z) of the Montgomery ladder stands for a    *)
(* point whose y is (X - Z) / (X + Z) (StandsU): the ladder's doubling and *)
(* its differential addition are those of the Edwards curve                *)
(* (LadderDoubleIs, LadderAddIs), so its two pairs stand for two multiples *)
(* next to each other (LadderAt), and it ends with the one that the scalar *)
(* says (LadderIs).                                                        *)
(***************************************************************************)
EXTENDS HelloCrypto, WellFoundedInduction, TLAPS

-----------------------------------------------------------------------------
(* Induction, for a set of numbers. *)
Less == {p \in Nat \X Nat : p[1] < p[2]}

LEMMA LessIsWellFounded == IsWellFoundedOn(Less, Nat)
BY NatLessThanWellFounded DEF OpToRel, Less

LEMMA SetInduction ==
    ASSUME NEW A, 0 \in A, \A n \in Nat : n \in A => n + 1 \in A
    PROVE  \A n \in Nat : n \in A
<1> DEFINE T == Nat \ A
<1>1. SUFFICES ASSUME T # {} PROVE FALSE
  OBVIOUS
<1>2. PICK m \in T : \A y \in T : ~(<<y, m>> \in Less)
  <2> HIDE DEF T
  <2>1. T \subseteq Nat
    BY DEF T
  <2> QED
    BY <1>1, <2>1, LessIsWellFounded, WFMin
<1>3. m \in Nat /\ m # 0 /\ m \notin A
  OBVIOUS
<1>4. m - 1 \in Nat /\ m - 1 < m
  BY <1>3
<1>5. m - 1 \in A
  BY <1>2, <1>4 DEF Less
<1> QED
  BY <1>3, <1>4, <1>5

-----------------------------------------------------------------------------
(* Rounds: n applications of a function to the state so far and the number *)
(* of the round.                                                           *)
RunBody(h, z, n, A) == [k \in 0..n |-> IF k = 0 THEN z ELSE h[<<A[k - 1], k - 1>>]]
Runs(h, z, n) == CHOOSE A : A = RunBody(h, z, n, A)
Run(h, z, n) == Runs(h, z, n)[n]

IsRun(g, h, T, z, n) ==
    g \in [0..n -> T] /\ g[0] = z /\ \A j \in 1..n : g[j] = h[<<g[j - 1], j - 1>>]

(* There is such a sequence of states, there is only one, and so CHOOSE    *)
(* finds it; the rounds of Ge are one of them.                             *)
LEMMA RunExists ==
    ASSUME NEW T, NEW n \in Nat, NEW z \in T, NEW h \in [T \X Nat -> T]
    PROVE  \E g : IsRun(g, h, T, z, n)
<1> DEFINE A == {m \in Nat : \E g : IsRun(g, h, T, z, m)}
<1>1. 0 \in A
  <2> DEFINE g == [j \in 0..0 |-> z]
  <2>1. IsRun(g, h, T, z, 0)
    BY DEF IsRun
  <2> QED
    BY <2>1
<1>2. ASSUME NEW m \in Nat, m \in A PROVE m + 1 \in A
  <2>2. PICK f : IsRun(f, h, T, z, m)
    BY <1>2
  <2>3. f \in [0..m -> T] /\ f[0] = z /\ \A j \in 1..m : f[j] = h[<<f[j - 1], j - 1>>]
    BY <2>2 DEF IsRun
  <2> DEFINE x == h[<<f[m], m>>]
             g == [j \in 0..m + 1 |-> IF j = m + 1 THEN x ELSE f[j]]
  <2>4. x \in T
    <3>1. f[m] \in T
      BY <2>3
    <3> QED
      BY <3>1
  <2> HIDE DEF x
  <2>5. g \in [0..m + 1 -> T]
    BY <2>3, <2>4
  <2>6. g[0] = z
    BY <2>3
  <2>7. ASSUME NEW j \in 1..m + 1 PROVE g[j] = h[<<g[j - 1], j - 1>>]
    <3>1. CASE j = m + 1
      <4>1. g[j] = x /\ g[j - 1] = f[m] /\ j - 1 = m
        BY <3>1
      <4> QED
        BY <4>1 DEF x
    <3>2. CASE j # m + 1
      <4>1. g[j] = f[j] /\ g[j - 1] = f[j - 1] /\ j \in 1..m
        BY <3>2
      <4> QED
        BY <2>3, <4>1
    <3> QED
      BY <3>1, <3>2
  <2> HIDE DEF g
  <2>8. IsRun(g, h, T, z, m + 1)
    BY <2>5, <2>6, <2>7 DEF IsRun
  <2> QED
    BY <2>8
<1> HIDE DEF A
<1>3. n \in A
  BY <1>1, <1>2, SetInduction
<1> QED
  BY <1>3 DEF A

Obeys(F, h, T, z, n) ==
    F[0] = z /\ \A j \in 1..n : F[j - 1] \in T => F[j] = h[<<F[j - 1], j - 1>>]
Agree(F, g, T, n) == \A j \in 0..n : F[j] = g[j] /\ F[j] \in T

(* Two sequences that obey the same rule are the same; the second is known *)
(* to obey it only where its values are typed.                             *)
LEMMA RunUnique ==
    ASSUME NEW T, NEW m \in Nat, NEW n \in Nat, n <= m, NEW z \in T, NEW h \in [T \X Nat -> T],
           NEW g, IsRun(g, h, T, z, m),
           NEW F, Obeys(F, h, T, z, n)
    PROVE  Agree(F, g, T, n)
<1>0. F[0] = z /\ \A j \in 1..n : F[j - 1] \in T => F[j] = h[<<F[j - 1], j - 1>>]
  BY DEF Obeys
<1> DEFINE A == {j \in Nat : j <= n => F[j] = g[j] /\ F[j] \in T}
<1>1. g \in [0..m -> T] /\ g[0] = z /\ \A j \in 1..m : g[j] = h[<<g[j - 1], j - 1>>]
  BY DEF IsRun
<1>2. 0 \in A
  BY <1>0, <1>1
<1>3. ASSUME NEW j \in Nat, j \in A PROVE j + 1 \in A
  <2>1. SUFFICES ASSUME j + 1 <= n PROVE F[j + 1] = g[j + 1] /\ F[j + 1] \in T
    OBVIOUS
  <2>2. F[j] = g[j] /\ F[j] \in T
    BY <1>3, <2>1
  <2>3. j + 1 \in 1..n /\ j + 1 \in 1..m /\ (j + 1) - 1 = j /\ j + 1 \in 0..m
    BY <2>1
  <2>4. F[j + 1] = h[<<F[j], j>>] /\ g[j + 1] = h[<<g[j], j>>]
    BY <1>0, <1>1, <2>2, <2>3
  <2> QED
    BY <1>1, <2>2, <2>3, <2>4
<1> HIDE DEF A
<1>4. \A j \in Nat : j \in A
  BY <1>2, <1>3, SetInduction
<1> QED
  BY <1>4 DEF A, Agree

LEMMA RunsIs ==
    ASSUME NEW T, NEW n \in Nat, NEW z \in T, NEW h \in [T \X Nat -> T]
    PROVE  IsRun(Runs(h, z, n), h, T, z, n)
<1> DEFINE G == Runs(h, z, n)
<1>1. PICK g : IsRun(g, h, T, z, n)
  BY RunExists
<1>2. g \in [0..n -> T] /\ g[0] = z /\ \A j \in 1..n : g[j] = h[<<g[j - 1], j - 1>>]
  BY <1>1 DEF IsRun
<1>3. g = RunBody(h, z, n, g)
  <2>1. \A j \in 0..n : g[j] = IF j = 0 THEN z ELSE h[<<g[j - 1], j - 1>>]
    <3>1. ASSUME NEW j \in 0..n PROVE g[j] = IF j = 0 THEN z ELSE h[<<g[j - 1], j - 1>>]
      <4>1. j # 0 => j \in 1..n
        OBVIOUS
      <4> QED
        BY <1>2, <4>1
    <3> QED
      BY <3>1
  <2>2. DOMAIN g = 0..n /\ g = [j \in DOMAIN g |-> g[j]]
    BY <1>2
  <2> QED
    BY <2>1, <2>2 DEF RunBody
<1>4. G = RunBody(h, z, n, G)
  BY <1>3 DEF Runs
<1> HIDE DEF G
<1>5. G = [j \in 0..n |-> IF j = 0 THEN z ELSE h[<<G[j - 1], j - 1>>]]
  BY <1>4 DEF RunBody
<1>6. \A j \in 0..n : G[j] = IF j = 0 THEN z ELSE h[<<G[j - 1], j - 1>>]
  BY <1>5
<1>7. G[0] = z /\ \A j \in 1..n : G[j] = h[<<G[j - 1], j - 1>>]
  <2>1. 0 \in 0..n /\ \A j \in 1..n : j \in 0..n /\ j # 0
    OBVIOUS
  <2>2. G[0] = z
    BY <1>6, <2>1
  <2>3. \A j \in 1..n : G[j] = h[<<G[j - 1], j - 1>>]
    BY <1>6, <2>1
  <2> QED
    BY <2>2, <2>3
<1>8. DOMAIN G = 0..n
  BY <1>5
<1>9. \A j \in 1..n : G[j - 1] \in T => G[j] = h[<<G[j - 1], j - 1>>]
  BY <1>7
<1>10. \A j \in 0..n : G[j] \in T
  <2>1. n <= n /\ Obeys(G, h, T, z, n)
    BY <1>7, <1>9 DEF Obeys
  <2>2. Agree(G, g, T, n)
    BY <1>1, <2>1, RunUnique
  <2> QED
    BY <2>2 DEF Agree
<1>11. G \in [0..n -> T]
  BY <1>5, <1>8, <1>10
<1> QED
  BY <1>7, <1>11 DEF G, IsRun

IsStep(h, T) == h \in [T \X Nat -> T]
Turns(h, z, n, T) ==
    /\ Run(h, z, 0) = z
    /\ Run(h, z, n) \in T
    /\ Run(h, z, n + 1) = h[<<Run(h, z, n), n>>]

LEMMA RunIs ==
    ASSUME NEW T, NEW n \in Nat, NEW z \in T, NEW h, IsStep(h, T)
    PROVE  Turns(h, z, n, T)
<1>0. h \in [T \X Nat -> T]
  BY DEF IsStep
<1> DEFINE f == Runs(h, z, n)
           g == Runs(h, z, n + 1)
           e == Runs(h, z, 0)
<1>1. 0 \in Nat /\ n + 1 \in Nat /\ n <= n + 1 /\ n + 1 \in 1..n + 1 /\ (n + 1) - 1 = n /\ n \in 0..n
  OBVIOUS
<1>2. IsRun(e, h, T, z, 0) /\ IsRun(f, h, T, z, n) /\ IsRun(g, h, T, z, n + 1)
  BY <1>0, <1>1, RunsIs
<1> HIDE DEF e, f, g
<1>3. f \in [0..n -> T] /\ f[0] = z /\ \A j \in 1..n : f[j] = h[<<f[j - 1], j - 1>>]
  BY <1>2 DEF IsRun
<1>4. \A j \in 0..n : f[j] = g[j]
  <2>1. Obeys(f, h, T, z, n)
    BY <1>3 DEF Obeys
  <2>2. Agree(f, g, T, n)
    BY <1>0, <1>1, <1>2, <2>1, RunUnique
  <2> QED
    BY <2>2 DEF Agree
<1>5. g[n + 1] = h[<<g[n], n>>] /\ e[0] = z
  BY <1>1, <1>2 DEF IsRun
<1>6. f[n] = g[n] /\ f[n] \in T
  BY <1>1, <1>3, <1>4
<1> QED
  BY <1>5, <1>6 DEF Turns, Run, e, f, g

LEMMA RunSame ==
    ASSUME NEW T, NEW n \in Nat, NEW z \in T, NEW h, IsStep(h, T), NEW F, Obeys(F, h, T, z, n)
    PROVE  Agree(F, Runs(h, z, n), T, n)
<1>1. h \in [T \X Nat -> T] /\ n <= n
  BY DEF IsStep
<1>2. IsRun(Runs(h, z, n), h, T, z, n)
  BY <1>1, RunsIs
<1> QED
  BY <1>1, <1>2, RunUnique

-----------------------------------------------------------------------------
(* The field: numbers that are the same modulo the prime.  Residue f       *)
(* stands for number u when Is(f, u).                                      *)
Same(x, y) == \E q \in Int : x = y + q * Prime
Is(f, u) == f \in Residues /\ u \in Int /\ Same(f, u)

LEMMA PrimeIs == Prime \in Nat /\ Prime > 2
BY PrimeAssumption

LEMMA RemainderIs ==
    ASSUME NEW m \in Nat, m > 0, NEW x \in Int
    PROVE  x \div m \in Int /\ x % m \in 0..m - 1 /\ x = m * (x \div m) + (x % m)
<1>1. x \div m \in Int
  BY SMTT(30)
<1>2. x % m \in 0..m - 1
  BY SMTT(30)
<1>3. x = m * (x \div m) + (x % m)
  BY SMTT(30)
<1> QED
  BY <1>1, <1>2, <1>3

(* A quotient and a remainder are determined by the number.                *)
LEMMA RemainderUnique ==
    ASSUME NEW m \in Nat, m > 0, NEW q \in Int, NEW r \in 0..m - 1, NEW x \in Int, x = m * q + r
    PROVE  x \div m = q /\ x % m = r
<1> DEFINE a == x \div m
           b == x % m
<1>1. a \in Int /\ b \in 0..m - 1 /\ x = m * a + b
  BY RemainderIs
<1> HIDE DEF a, b
<1>2. ~(a >= q + 1)
  <2>1. SUFFICES ASSUME a >= q + 1 PROVE FALSE
    OBVIOUS
  <2>2. m * a >= m * (q + 1) /\ m * (q + 1) = m * q + m
    BY <1>1, <2>1
  <2> QED
    BY <1>1, <2>2
<1>3. ~(q >= a + 1)
  <2>1. SUFFICES ASSUME q >= a + 1 PROVE FALSE
    OBVIOUS
  <2>2. m * q >= m * (a + 1) /\ m * (a + 1) = m * a + m
    BY <1>1, <2>1
  <2> QED
    BY <1>1, <2>2
<1>4. a = q
  BY <1>1, <1>2, <1>3
<1>5. b = r
  <2>1. PICK p \in Int : p = m * q
    OBVIOUS
  <2> QED
    BY <1>1, <1>4, <2>1
<1> QED
  BY <1>4, <1>5 DEF a, b

LEMMA SameItself == ASSUME NEW x \in Int PROVE Same(x, x)
<1>1. x = x + 0 * Prime /\ 0 \in Int
  BY PrimeIs
<1> QED
  BY <1>1 DEF Same

LEMMA SameBack == ASSUME NEW x \in Int, NEW y \in Int, Same(x, y) PROVE Same(y, x)
<1>1. PICK q \in Int : x = y + q * Prime
  BY DEF Same
<1>2. y = x + (-q) * Prime /\ -q \in Int
  BY <1>1, PrimeIs
<1> QED
  BY <1>2 DEF Same

(* The numbers that are the same modulo the prime: an equivalence that sums *)
(* and products respect.                                                   *)
LEMMA SameThrough ==
    ASSUME NEW x \in Int, NEW y \in Int, NEW z \in Int, Same(x, y), Same(y, z)
    PROVE  Same(x, z)
<1>1. PICK q \in Int : x = y + q * Prime
  BY DEF Same
<1>2. PICK r \in Int : y = z + r * Prime
  BY DEF Same
<1>3. x = z + (q + r) * Prime /\ q + r \in Int
  BY <1>1, <1>2, PrimeIs
<1> QED
  BY <1>3 DEF Same

LEMMA SamePlus ==
    ASSUME NEW x \in Int, NEW y \in Int, NEW u \in Int, NEW v \in Int, Same(x, y), Same(u, v)
    PROVE  Same(x + u, y + v) /\ Same(x - u, y - v)
<1>1. PICK q \in Int : x = y + q * Prime
  BY DEF Same
<1>2. PICK r \in Int : u = v + r * Prime
  BY DEF Same
<1>3. x + u = (y + v) + (q + r) * Prime /\ q + r \in Int
  BY <1>1, <1>2, PrimeIs
<1>4. x - u = (y - v) + (q - r) * Prime /\ q - r \in Int
  BY <1>1, <1>2, PrimeIs
<1> QED
  BY <1>3, <1>4 DEF Same

LEMMA SameProduct ==
    ASSUME NEW x \in Int, NEW y \in Int, NEW u \in Int, NEW v \in Int, Same(x, y), Same(u, v)
    PROVE  Same(x * u, y * v)
<1>1. PICK q \in Int : x = y + q * Prime
  BY DEF Same
<1>2. PICK r \in Int : u = v + r * Prime
  BY DEF Same
<1>3. PICK p \in Int : p = Prime
  BY PrimeIs
<1>4. PICK s \in Int : s = y * r + q * v + (q * p) * r
  OBVIOUS
<1>5. (y + q * p) * (v + r * p) = y * v + (y * r + q * v + (q * p) * r) * p
  OBVIOUS
<1>6. x * u = y * v + s * Prime
  BY <1>1, <1>2, <1>3, <1>4, <1>5
<1> QED
  BY <1>6 DEF Same

(* Every number has one residue.                                           *)
LEMMA SameRemainder ==
    ASSUME NEW x \in Int
    PROVE  x % Prime \in Residues /\ Same(x % Prime, x)
<1>1. PICK q \in Int, r \in 0..Prime - 1 : q = x \div Prime /\ r = x % Prime /\ x = Prime * q + r
  BY PrimeIs, RemainderIs
<1>2. r = x + (-q) * Prime /\ -q \in Int
  BY <1>1, PrimeIs
<1> QED
  BY <1>1, <1>2 DEF Same, Residues

LEMMA SameResidue ==
    ASSUME NEW f \in Residues, NEW g \in Residues, Same(f, g)
    PROVE  f = g
<1>1. PICK q \in Int : f = g + q * Prime
  BY DEF Same
<1>2. PICK p \in Int : p = Prime /\ p > 2
  BY PrimeIs
<1>3. f \in 0..p - 1 /\ g \in 0..p - 1
  BY <1>2 DEF Residues
<1>4. ~(q >= 1)
  <2>1. SUFFICES ASSUME q >= 1 PROVE FALSE
    OBVIOUS
  <2>2. q * p >= p
    BY <1>2, <2>1
  <2> QED
    BY <1>1, <1>2, <1>3, <2>2
<1>5. ~(q <= -1)
  <2>1. SUFFICES ASSUME q <= -1 PROVE FALSE
    OBVIOUS
  <2>2. q * p <= -p
    BY <1>2, <2>1
  <2> QED
    BY <1>1, <1>2, <1>3, <2>2
<1>6. q = 0
  BY <1>4, <1>5
<1> QED
  BY <1>1, <1>2, <1>3, <1>6

LEMMA ResidueIsInt == ASSUME NEW f \in Residues PROVE f \in Int
BY PrimeIs DEF Residues

LEMMA IsItself == ASSUME NEW f \in Residues PROVE Is(f, f)
BY ResidueIsInt, SameItself DEF Is

LEMMA IsThrough ==
    ASSUME NEW f, NEW u, Is(f, u), NEW v \in Int, Same(u, v)
    PROVE  Is(f, v)
<1>1. f \in Residues /\ f \in Int /\ u \in Int /\ Same(f, u)
  BY ResidueIsInt DEF Is
<1> QED
  BY <1>1, SameThrough DEF Is

LEMMA IsEqual ==
    ASSUME NEW f, NEW g, NEW u, NEW v, Is(f, u), Is(g, v), Same(u, v)
    PROVE  f = g
<1>1. f \in Residues /\ g \in Residues /\ f \in Int /\ g \in Int /\ u \in Int /\ v \in Int
      /\ Same(f, u) /\ Same(g, v)
  BY ResidueIsInt DEF Is
<1>2. Same(f, v) /\ Same(v, g)
  BY <1>1, SameThrough, SameBack
<1>3. Same(f, g)
  BY <1>1, <1>2, SameThrough
<1> QED
  BY <1>1, <1>3, SameResidue

LEMMA IsRemainder == ASSUME NEW x \in Int, NEW u \in Int, Same(x, u) PROVE Is(x % Prime, u)
<1>1. x % Prime \in Residues /\ Same(x % Prime, x)
  BY SameRemainder
<1>2. x % Prime \in Int
  BY <1>1, ResidueIsInt
<1> QED
  BY <1>1, <1>2, SameThrough DEF Is

(* What the operations are. *)
LEMMA OpsAre ==
    ASSUME NEW f, NEW u, NEW g, NEW v, Is(f, u), Is(g, v)
    PROVE  /\ Is(FeAdd(f, g), u + v) /\ Is(FeSub(f, g), u - v) /\ Is(FeMul(f, g), u * v)
           /\ Is(FeNeg(f), -u) /\ Is(FeSq(f), u * u) /\ Is(FeSq2(f), 2 * (u * u))
<1>1. f \in Int /\ g \in Int /\ u \in Int /\ v \in Int /\ Same(f, u) /\ Same(g, v)
  BY ResidueIsInt DEF Is
<1>2. PICK p \in Int : p = Prime
  BY PrimeIs
<1>3. Same(p, 0)
  <2>1. p = 0 + 1 * Prime /\ 1 \in Int
    BY <1>2
  <2> QED
    BY <2>1 DEF Same
<1>4. Is(FeAdd(f, g), u + v)
  <2>1. Same(f + g, u + v) /\ f + g \in Int /\ u + v \in Int
    BY <1>1, SamePlus
  <2> QED
    BY <2>1, IsRemainder DEF FeAdd
<1>5. Is(FeSub(f, g), u - v)
  <2>1. Same(p - g, 0 - v) /\ p - g \in Int /\ 0 - v \in Int
    BY <1>1, <1>3, SamePlus
  <2>2. Same(f + (p - g), u + (0 - v)) /\ f + (p - g) \in Int /\ u + (0 - v) \in Int
    BY <1>1, <2>1, SamePlus
  <2>3. u + (0 - v) = u - v
    BY <1>1
  <2>4. Is((f + (p - g)) % Prime, u - v)
    BY <2>2, <2>3, IsRemainder
  <2> QED
    BY <1>2, <2>4 DEF FeSub
<1>6. Is(FeNeg(f), -u)
  <2>1. Same(p - f, 0 - u) /\ p - f \in Int /\ 0 - u \in Int /\ 0 - u = -u
    BY <1>1, <1>3, SamePlus
  <2>2. Is((p - f) % Prime, -u)
    BY <2>1, IsRemainder
  <2> QED
    BY <1>2, <2>2 DEF FeNeg
<1>7. Is(FeMul(f, g), u * v)
  <2>1. Same(f * g, u * v) /\ f * g \in Int /\ u * v \in Int
    BY <1>1, SameProduct
  <2> QED
    BY <2>1, IsRemainder DEF FeMul
<1>8. Same(f * f, u * u) /\ f * f \in Int /\ u * u \in Int
  BY <1>1, SameProduct
<1>9. Is(FeSq(f), u * u)
  BY <1>8, IsRemainder DEF FeSq
<1>10. Is(FeSq2(f), 2 * (u * u))
  <2>1. PICK a, b \in Int : a = f * f /\ b = u * u
    BY <1>8
  <2>2. 2 * a \in Int /\ 2 * b \in Int /\ Same(2 * a, 2 * b)
    <3>1. Same(2, 2) /\ 2 \in Int
      BY SameItself
    <3>2. Same(a, b)
      BY <1>8, <2>1
    <3> QED
      BY <3>1, <3>2, SameProduct
  <2>3. 2 * f * f = 2 * a
    <3>1. 2 * f * f = 2 * (f * f)
      BY <1>1
    <3> QED
      BY <2>1, <3>1
  <2>4. Is((2 * a) % Prime, 2 * b)
    BY <2>2, IsRemainder
  <2> QED
    BY <2>1, <2>3, <2>4 DEF FeSq2
<1> QED
  BY <1>4, <1>5, <1>6, <1>7, <1>9, <1>10

-----------------------------------------------------------------------------
(* Division. *)
Zero(u) == Same(u, 0)

LEMMA SmallNumbers == 0 \in Residues /\ 1 \in Residues /\ 2 \in Residues
BY PrimeIs DEF Residues

(* Zero is the residue of the multiples of the prime alone, and every other *)
(* residue has the inverse that fe_invert finds.                           *)
LEMMA ZeroIs == ASSUME NEW f, NEW u, Is(f, u) PROVE f = 0 <=> Zero(u)
<1>1. Is(0, 0)
  BY SmallNumbers, IsItself
<1>2. u \in Int /\ f \in Int /\ Same(f, u)
  BY ResidueIsInt DEF Is
<1>3. ASSUME f = 0 PROVE Zero(u)
  BY <1>2, <1>3, SameBack DEF Zero
<1>4. ASSUME Zero(u) PROVE f = 0
  BY <1>1, <1>4, IsEqual DEF Zero
<1> QED
  BY <1>3, <1>4

LEMMA NumbersDiffer == ~Zero(1) /\ ~Zero(2)
<1>1. Is(1, 1) /\ Is(2, 2)
  BY SmallNumbers, IsItself
<1> QED
  BY <1>1, ZeroIs

LEMMA InverseIs ==
    ASSUME NEW f, NEW u, Is(f, u), ~Zero(u)
    PROVE  FeInvert(f) \in Residues /\ Same(u * FeInvert(f), 1)
<1>1. f \in Residues \ {0}
  BY ZeroIs DEF Is
<1>2. FeInvert(f) \in Residues /\ FeMul(f, FeInvert(f)) = 1
  BY <1>1, InverseAssumption
<1> DEFINE v == FeInvert(f)
<1> HIDE DEF v
<1>3. Is(v, v) /\ v \in Int
  BY <1>2, IsItself, ResidueIsInt DEF v
<1>4. Is(FeMul(f, v), u * v)
  BY <1>3, OpsAre
<1>5. Is(1, u * v)
  BY <1>2, <1>4 DEF v
<1>6. Same(u * v, 1)
  BY <1>5, SameBack DEF Is
<1> QED
  BY <1>2, <1>6 DEF v

LEMMA HasInverse == ASSUME NEW u \in Int, ~Zero(u) PROVE \E v \in Int : Same(u * v, 1)
<1>1. Is(u % Prime, u)
  BY SameItself, IsRemainder
<1>2. FeInvert(u % Prime) \in Int /\ Same(u * FeInvert(u % Prime), 1)
  BY <1>1, InverseIs, ResidueIsInt
<1> QED
  BY <1>2

(* So a factor may be cancelled, and a product is zero when a factor is.   *)
LEMMA Cancel ==
    ASSUME NEW u \in Int, NEW v \in Int, NEW z \in Int, ~Zero(z), Same(u * z, v * z)
    PROVE  Same(u, v)
<1>1. PICK w \in Int : Same(z * w, 1)
  BY HasInverse
<1>2. PICK a, b, c \in Int : a = u * z /\ b = v * z /\ c = z * w
  OBVIOUS
<1>3. Same(a * w, b * w)
  BY <1>2, SameItself, SameProduct
<1>4. a * w = u * c /\ b * w = v * c
  <2>1. (u * z) * w = u * (z * w) /\ (v * z) * w = v * (z * w)
    OBVIOUS
  <2> QED
    BY <1>2, <2>1
<1>5. Same(u * c, u * 1) /\ Same(v * c, v * 1)
  <2>1. Same(c, 1) /\ Same(u, u) /\ Same(v, v) /\ 1 \in Int
    BY <1>1, <1>2, SameItself
  <2> QED
    BY <2>1, SameProduct
<1>6. u * 1 = u /\ v * 1 = v
  OBVIOUS
<1>7. Same(u, u * c) /\ Same(u * c, v * c) /\ Same(v * c, v) /\ u * c \in Int /\ v * c \in Int
  BY <1>3, <1>4, <1>5, <1>6, SameBack
<1> QED
  BY <1>7, SameThrough

LEMMA NonzeroProduct ==
    ASSUME NEW u \in Int, NEW v \in Int, ~Zero(u), ~Zero(v)
    PROVE  ~Zero(u * v)
<1>1. SUFFICES ASSUME Zero(u * v) PROVE Zero(u)
  OBVIOUS
<1>2. 0 * v = 0 /\ 0 \in Int
  OBVIOUS
<1>3. Same(u * v, 0 * v)
  BY <1>1, <1>2 DEF Zero
<1> QED
  BY <1>2, <1>3, Cancel DEF Zero

LEMMA ZeroSame == ASSUME NEW u \in Int, NEW v \in Int, Same(u, v) PROVE Zero(u) <=> Zero(v)
BY SameThrough, SameBack DEF Zero

(* A quotient. *)
LEMMA QuotientIs ==
    ASSUME NEW f, NEW u, Is(f, u), NEW g, NEW v, Is(g, v), ~Zero(v)
    PROVE  FeMul(f, FeInvert(g)) \in Residues /\ Same(FeMul(f, FeInvert(g)) * v, u)
<1>1. PICK w \in Int : w = FeInvert(g) /\ w \in Residues /\ Same(v * w, 1)
  BY InverseIs, ResidueIsInt
<1>2. Is(FeMul(f, w), u * w)
  BY <1>1, IsItself, OpsAre
<1>3. PICK q \in Int : q = FeMul(f, w) /\ q \in Residues /\ Same(q, u * w)
  BY <1>2, ResidueIsInt DEF Is
<1>4. u \in Int /\ v \in Int
  BY DEF Is
<1>5. PICK a, b \in Int : a = u * w /\ b = v * w
  BY <1>4
<1>6. Same(q * v, a * v)
  BY <1>3, <1>4, <1>5, SameItself, SameProduct
<1>7. a * v = u * b
  <2>1. (u * w) * v = u * (v * w)
    BY <1>4
  <2> QED
    BY <1>5, <2>1
<1>8. Same(u * b, u * 1) /\ u * 1 = u /\ u * b \in Int /\ q * v \in Int
  <2>1. Same(b, 1) /\ Same(u, u) /\ 1 \in Int
    BY <1>1, <1>4, <1>5, SameItself
  <2>2. Same(u * b, u * 1)
    BY <1>4, <2>1, SameProduct
  <2> QED
    BY <1>3, <1>4, <1>5, <2>2
<1>9. Same(q * v, u)
  BY <1>4, <1>6, <1>7, <1>8, SameThrough
<1> QED
  BY <1>1, <1>3, <1>9

-----------------------------------------------------------------------------
(* Points. *)
LEMMA ConstantsAre ==
    /\ D \in Residues /\ SqrtM1 \in Residues /\ BaseX \in Residues /\ BaseY \in Residues
    /\ D \in Int /\ Digits \in Nat /\ Digits > 0 /\ Digits % 2 = 0
BY GeAssumption, ResidueIsInt DEF Residues

(* The coordinates of a point of the curve, and the equation they satisfy. *)
LEMMA PointIs ==
    ASSUME NEW a \in Curve
    PROVE  /\ a.x \in Residues /\ a.y \in Residues /\ a.x \in Int /\ a.y \in Int
           /\ a = Affine(a.x, a.y)
           /\ Same(a.y * a.y - a.x * a.x, 1 + D * ((a.x * a.x) * (a.y * a.y)))
<1>1. a \in [x : Residues, y : Residues] /\ OnCurve(a)
  BY DEF Curve
<1>2. a.x \in Residues /\ a.y \in Residues /\ a = Affine(a.x, a.y)
  BY <1>1 DEF Affine
<1>3. PICK x, y \in Residues : x = a.x /\ y = a.y
  BY <1>2
<1>4. x \in Int /\ y \in Int /\ Is(x, x) /\ Is(y, y) /\ Is(1, 1) /\ Is(D, D)
  BY <1>3, SmallNumbers, IsItself, ResidueIsInt, ConstantsAre
<1>5. Is(FeSq(y), y * y) /\ Is(FeSq(x), x * x)
  BY <1>4, OpsAre
<1>6. Is(FeSub(FeSq(y), FeSq(x)), y * y - x * x)
  BY <1>5, OpsAre
<1>7. Is(FeMul(D, FeMul(FeSq(x), FeSq(y))), D * ((x * x) * (y * y)))
  BY <1>4, <1>5, OpsAre
<1>8. Is(FeAdd(1, FeMul(D, FeMul(FeSq(x), FeSq(y)))), 1 + D * ((x * x) * (y * y)))
  BY <1>4, <1>7, OpsAre
<1>9. FeSub(FeSq(y), FeSq(x)) = FeAdd(1, FeMul(D, FeMul(FeSq(x), FeSq(y))))
  BY <1>1, <1>3 DEF OnCurve
<1>10. Same(y * y - x * x, 1 + D * ((x * x) * (y * y)))
  <2>1. PICK f \in Int, u, v \in Int : /\ u = y * y - x * x /\ v = 1 + D * ((x * x) * (y * y))
                                       /\ Same(f, u) /\ Same(f, v)
    BY <1>6, <1>8, <1>9, ResidueIsInt DEF Is
  <2>2. Same(u, v)
    BY <2>1, SameThrough, SameBack
  <2> QED
    BY <2>1, <2>2
<1> QED
  BY <1>2, <1>3, <1>4, <1>10

(* The denominators of the addition law are never zero, so its quotients are *)
(* what they say.                                                          *)
LEMMA AddAffineIs ==
    ASSUME NEW a \in Curve, NEW b \in Curve, NEW k \in Int, k = D * ((a.x * b.y) * (b.x * a.y))
    PROVE  /\ AddAffine(a, b) \in Curve
           /\ ~Zero(1 + k) /\ ~Zero(1 - k)
           /\ Same(AddAffine(a, b).x * (1 + k), a.x * b.y + b.x * a.y)
           /\ Same(AddAffine(a, b).y * (1 - k), a.y * b.y + a.x * b.x)
<1>1. PICK ax, ay, bx, by \in Residues : ax = a.x /\ ay = a.y /\ bx = b.x /\ by = b.y
  BY PointIs
<1>2. /\ ax \in Int /\ ay \in Int /\ bx \in Int /\ by \in Int
      /\ Is(ax, ax) /\ Is(ay, ay) /\ Is(bx, bx) /\ Is(by, by) /\ Is(1, 1) /\ Is(D, D)
  BY <1>1, SmallNumbers, IsItself, ResidueIsInt, ConstantsAre
<1> DEFINE f == FeMul(D, FeMul(FeMul(ax, by), FeMul(bx, ay)))
           xn == FeAdd(FeMul(ax, by), FeMul(bx, ay))
           yn == FeAdd(FeMul(ay, by), FeMul(ax, bx))
<1>3. /\ Is(FeMul(ax, by), ax * by) /\ Is(FeMul(bx, ay), bx * ay)
      /\ Is(FeMul(ay, by), ay * by) /\ Is(FeMul(ax, bx), ax * bx)
  BY <1>2, OpsAre
<1>4. Is(xn, ax * by + bx * ay) /\ Is(yn, ay * by + ax * bx)
  BY <1>3, OpsAre
<1>5. Is(f, k)
  <2>1. Is(FeMul(FeMul(ax, by), FeMul(bx, ay)), (ax * by) * (bx * ay))
    BY <1>3, OpsAre
  <2> QED
    BY <1>1, <1>2, <2>1, OpsAre
<1>6. AddAffine(a, b) = Affine(FeMul(xn, FeInvert(FeAdd(1, f))), FeMul(yn, FeInvert(FeSub(1, f))))
  BY <1>1 DEF AddAffine
<1>7. AddAffine(a, b) \in Curve /\ FeAdd(1, f) # 0 /\ FeSub(1, f) # 0
  BY <1>1, CurveAssumption
<1> HIDE DEF f, xn, yn
<1>8. Is(FeAdd(1, f), 1 + k) /\ Is(FeSub(1, f), 1 - k)
  BY <1>2, <1>5, OpsAre
<1>9. ~Zero(1 + k) /\ ~Zero(1 - k)
  BY <1>7, <1>8, ZeroIs
<1>10. AddAffine(a, b).x = FeMul(xn, FeInvert(FeAdd(1, f))) /\ AddAffine(a, b).y = FeMul(yn, FeInvert(FeSub(1, f)))
  BY <1>6 DEF Affine
<1>11. Same(FeMul(xn, FeInvert(FeAdd(1, f))) * (1 + k), ax * by + bx * ay)
  BY <1>4, <1>8, <1>9, QuotientIs
<1>12. Same(FeMul(yn, FeInvert(FeSub(1, f))) * (1 - k), ay * by + ax * bx)
  BY <1>4, <1>8, <1>9, QuotientIs
<1> QED
  BY <1>1, <1>7, <1>9, <1>10, <1>11, <1>12

-----------------------------------------------------------------------------
(* What the coordinates of ge.c stand for. *)
P2s == [X : Residues, Y : Residues, Z : Residues]
P3s == [X : Residues, Y : Residues, Z : Residues, T : Residues]

StandsP2(p, a) ==
    /\ p \in P2s /\ a \in Curve /\ ~Zero(p.Z)
    /\ Same(p.X, a.x * p.Z) /\ Same(p.Y, a.y * p.Z)
StandsP3(p, a) ==
    /\ p \in P3s /\ a \in Curve /\ ~Zero(p.Z)
    /\ Same(p.X, a.x * p.Z) /\ Same(p.Y, a.y * p.Z) /\ Same(p.T, (a.x * a.y) * p.Z)
StandsP1P1(p, a) ==
    /\ p \in P3s /\ a \in Curve /\ ~Zero(p.Z) /\ ~Zero(p.T)
    /\ Same(p.X, a.x * p.Z) /\ Same(p.Y, a.y * p.T)

LEMMA P3Make ==
    ASSUME NEW x \in Residues, NEW y \in Residues, NEW z \in Residues, NEW t \in Residues
    PROVE  /\ P3(x, y, z, t) \in P3s /\ P1P1(x, y, z, t) \in P3s /\ P2(x, y, z) \in P2s
           /\ P3(x, y, z, t).X = x /\ P3(x, y, z, t).Y = y /\ P3(x, y, z, t).Z = z /\ P3(x, y, z, t).T = t
           /\ P1P1(x, y, z, t).X = x /\ P1P1(x, y, z, t).Y = y
           /\ P1P1(x, y, z, t).Z = z /\ P1P1(x, y, z, t).T = t
           /\ P2(x, y, z).X = x /\ P2(x, y, z).Y = y /\ P2(x, y, z).Z = z
BY DEF P3, P1P1, P2, P3s, P2s

LEMMA P3Parts ==
    ASSUME NEW p \in P3s
    PROVE  /\ p.X \in Residues /\ p.Y \in Residues /\ p.Z \in Residues /\ p.T \in Residues
           /\ p.X \in Int /\ p.Y \in Int /\ p.Z \in Int /\ p.T \in Int
BY ResidueIsInt DEF P3s

LEMMA P2Parts ==
    ASSUME NEW p \in P2s
    PROVE  /\ p.X \in Residues /\ p.Y \in Residues /\ p.Z \in Residues
           /\ p.X \in Int /\ p.Y \in Int /\ p.Z \in Int
BY ResidueIsInt DEF P2s

LEMMA IsProduct3 ==
    ASSUME NEW f, NEW u, Is(f, u), NEW g, NEW v, Is(g, v), NEW w \in Int, u * v = w
    PROVE  Is(FeMul(f, g), w)
BY OpsAre

(* ge_p1p1_to_p3, ge_p1p1_to_p2 and ge_p3_to_p2 change the coordinates of a *)
(* point and not the point.                                                *)
LEMMA FromP1P1Is ==
    ASSUME NEW p, NEW a, StandsP1P1(p, a)
    PROVE  StandsP3(P1P1ToP3(p), a) /\ StandsP2(P1P1ToP2(p), a)
<1>1. PICK X, Y, Z, T \in Residues : X = p.X /\ Y = p.Y /\ Z = p.Z /\ T = p.T
  BY P3Parts DEF StandsP1P1
<1>2. PICK x, y \in Int : x = a.x /\ y = a.y
  BY PointIs DEF StandsP1P1
<1>3. X \in Int /\ Y \in Int /\ Z \in Int /\ T \in Int
  BY ResidueIsInt
<1>4. Same(X, x * Z) /\ Same(Y, y * T) /\ ~Zero(Z) /\ ~Zero(T) /\ a \in Curve
  BY <1>1, <1>2 DEF StandsP1P1
<1>5. PICK xz, yt, zt, xy \in Int : xz = x * Z /\ yt = y * T /\ zt = Z * T /\ xy = x * y
  BY <1>3
<1>6. Is(X, xz) /\ Is(Y, yt) /\ Is(Z, Z) /\ Is(T, T)
  BY <1>3, <1>4, <1>5, IsItself DEF Is
<1>7. Is(FeMul(X, T), x * zt)
  <2>1. (x * Z) * T = x * (Z * T) /\ x * (Z * T) \in Int
    BY <1>3
  <2> QED
    BY <1>5, <1>6, <2>1, IsProduct3
<1>8. Is(FeMul(Y, Z), y * zt)
  <2>1. (y * T) * Z = y * (Z * T) /\ y * (Z * T) \in Int
    BY <1>3
  <2> QED
    BY <1>5, <1>6, <2>1, IsProduct3
<1>9. Is(FeMul(Z, T), zt)
  BY <1>5, <1>6, OpsAre
<1>10. Is(FeMul(X, Y), xy * zt)
  <2>1. (x * Z) * (y * T) = (x * y) * (Z * T) /\ (x * y) * (Z * T) \in Int
    BY <1>3
  <2> QED
    BY <1>5, <1>6, <2>1, IsProduct3
<1>11. ~Zero(zt)
  BY <1>3, <1>4, <1>5, NonzeroProduct
<1>12. PICK Xn, Yn, Zn, Tn \in Residues :
          Xn = FeMul(X, T) /\ Yn = FeMul(Y, Z) /\ Zn = FeMul(Z, T) /\ Tn = FeMul(X, Y)
  BY <1>7, <1>8, <1>9, <1>10 DEF Is
<1>13. Xn \in Int /\ Yn \in Int /\ Zn \in Int /\ Tn \in Int
  BY ResidueIsInt
<1>14. Same(Xn, x * zt) /\ Same(Yn, y * zt) /\ Same(Zn, zt) /\ Same(Tn, xy * zt)
  BY <1>7, <1>8, <1>9, <1>10, <1>12 DEF Is
<1>15. Same(zt, Zn)
  BY <1>13, <1>14, SameBack
<1>16. Same(x, x) /\ Same(y, y) /\ Same(xy, xy)
  BY SameItself
<1>17. Same(x * zt, x * Zn) /\ Same(y * zt, y * Zn) /\ Same(xy * zt, xy * Zn)
  BY <1>13, <1>15, <1>16, SameProduct
<1>18. /\ x * zt \in Int /\ y * zt \in Int /\ xy * zt \in Int
       /\ x * Zn \in Int /\ y * Zn \in Int /\ xy * Zn \in Int
  BY <1>13
<1>19. Same(Xn, x * Zn)
  BY <1>13, <1>14, <1>17, <1>18, SameThrough
<1>20. Same(Yn, y * Zn)
  BY <1>13, <1>14, <1>17, <1>18, SameThrough
<1>21. Same(Tn, xy * Zn)
  BY <1>13, <1>14, <1>17, <1>18, SameThrough
<1>22. ~Zero(Zn)
  BY <1>11, <1>13, <1>14, ZeroSame
<1>23. P1P1ToP3(p) = P3(Xn, Yn, Zn, Tn) /\ P1P1ToP2(p) = P2(Xn, Yn, Zn)
  BY <1>1, <1>12 DEF P1P1ToP3, P1P1ToP2
<1>24. StandsP3(P3(Xn, Yn, Zn, Tn), a)
  <2> DEFINE q == P3(Xn, Yn, Zn, Tn)
  <2>1. q \in P3s /\ q.X = Xn /\ q.Y = Yn /\ q.Z = Zn /\ q.T = Tn
    BY P3Make
  <2> HIDE DEF q
  <2>2. StandsP3(q, a)
    BY <1>2, <1>4, <1>5, <1>19, <1>20, <1>21, <1>22, <2>1 DEF StandsP3
  <2> QED
    BY <2>2 DEF q
<1>25. StandsP2(P2(Xn, Yn, Zn), a)
  <2> DEFINE q == P2(Xn, Yn, Zn)
  <2>1. q \in P2s /\ q.X = Xn /\ q.Y = Yn /\ q.Z = Zn
    BY P3Make
  <2> HIDE DEF q
  <2>2. StandsP2(q, a)
    BY <1>2, <1>4, <1>19, <1>20, <1>22, <2>1 DEF StandsP2
  <2> QED
    BY <2>2 DEF q
<1> QED
  BY <1>23, <1>24, <1>25

LEMMA P3ToP2Is == ASSUME NEW p, NEW a, StandsP3(p, a) PROVE StandsP2(P3ToP2(p), a)
<1>1. p \in P3s
  BY DEF StandsP3
<1> QED
  <2> DEFINE q == P2(p.X, p.Y, p.Z)
  <2>1. q \in P2s /\ q.X = p.X /\ q.Y = p.Y /\ q.Z = p.Z
    BY <1>1, P3Parts, P3Make
  <2> HIDE DEF q
  <2>2. StandsP2(q, a)
    BY <2>1 DEF StandsP2, StandsP3
  <2> QED
    BY <2>2 DEF q, P3ToP2

(* Four sums, of multiples of one number w. *)
LEMMA P1P1Is ==
    ASSUME NEW x, NEW y, NEW z, NEW t, NEW w \in Int, NEW m \in Int, NEW n \in Int,
           NEW u \in Int, NEW v \in Int, NEW c \in Curve,
           Is(x, w * m), Is(y, w * n), Is(z, w * u), Is(t, w * v),
           ~Zero(w), ~Zero(u), ~Zero(v), Same(c.x * u, m), Same(c.y * v, n)
    PROVE  StandsP1P1(P1P1(x, y, z, t), c)
<1>1. PICK cx, cy \in Int : cx = c.x /\ cy = c.y
  BY PointIs
<1>2. /\ x \in Residues /\ y \in Residues /\ z \in Residues /\ t \in Residues
      /\ x \in Int /\ y \in Int /\ z \in Int /\ t \in Int
  BY ResidueIsInt DEF Is
<1>3. ASSUME NEW f \in Int, NEW g \in Int, NEW e \in Int, NEW q \in Int, NEW r \in Int,
             Same(f, w * q), Same(g, w * r), Same(e * r, q)
      PROVE  Same(f, e * g)
  <2>1. PICK wq, wr, er, eg \in Int : wq = w * q /\ wr = w * r /\ er = e * r /\ eg = e * g
    OBVIOUS
  <2>2. Same(w, w) /\ Same(e, e)
    BY SameItself
  <2>3. Same(w * er, wq)
    BY <1>3, <2>1, <2>2, SameProduct
  <2>4. Same(eg, e * wr)
    BY <1>3, <2>1, <2>2, SameProduct
  <2>5. w * er = e * wr
    <3>1. w * (e * r) = e * (w * r)
      OBVIOUS
    <3> QED
      BY <2>1, <3>1
  <2>6. PICK h \in Int : h = e * wr
    OBVIOUS
  <2>7. Same(h, wq) /\ Same(eg, h)
    BY <2>3, <2>4, <2>5, <2>6
  <2>8. Same(eg, wq) /\ Same(f, wq)
    BY <1>3, <2>1, <2>7, SameThrough
  <2>9. Same(f, eg)
    BY <2>8, SameBack, SameThrough
  <2> QED
    BY <2>1, <2>9
<1>4. Same(x, w * m) /\ Same(y, w * n) /\ Same(z, w * u) /\ Same(t, w * v)
  BY DEF Is
<1>5. Same(x, cx * z)
  BY <1>1, <1>2, <1>3, <1>4
<1>6. Same(y, cy * t)
  BY <1>1, <1>2, <1>3, <1>4
<1>7. w * u \in Int /\ w * v \in Int /\ ~Zero(w * u) /\ ~Zero(w * v)
  BY NonzeroProduct
<1>8. ~Zero(z) /\ ~Zero(t)
  BY <1>2, <1>4, <1>7, ZeroSame
<1> QED
  <2> DEFINE q == P1P1(x, y, z, t)
  <2>1. q \in P3s /\ q.X = x /\ q.Y = y /\ q.Z = z /\ q.T = t
    BY <1>2, P3Make
  <2> HIDE DEF q
  <2>2. StandsP1P1(q, c)
    BY <1>1, <1>2, <1>5, <1>6, <1>8, <2>1 DEF StandsP1P1
  <2> QED
    BY <2>2 DEF q

(* The sums and differences of ge_madd are those of the addition law.      *)
LEMMA AddIdentity ==
    ASSUME NEW x \in Int, NEW y \in Int, NEW v \in Int, NEW w \in Int, NEW d \in Int,
           NEW z \in Int, NEW s \in Int
    PROVE  /\ (y * z + x * z) * ((w + v) * s) - (y * z - x * z) * ((w - v) * s)
                = (2 * (z * s)) * (x * w + v * y)
           /\ (y * z + x * z) * ((w + v) * s) + (y * z - x * z) * ((w - v) * s)
                = (2 * (z * s)) * (y * w + x * v)
           /\ 2 * (z * s) + ((2 * (d * (v * w))) * s) * ((x * y) * z)
                = (2 * (z * s)) * (1 + d * ((x * w) * (v * y)))
           /\ 2 * (z * s) - ((2 * (d * (v * w))) * s) * ((x * y) * z)
                = (2 * (z * s)) * (1 - d * ((x * w) * (v * y)))
<1>1. (y * z + x * z) * ((w + v) * s) - (y * z - x * z) * ((w - v) * s)
                = (2 * (z * s)) * (x * w + v * y)
  OBVIOUS
<1>2. (y * z + x * z) * ((w + v) * s) + (y * z - x * z) * ((w - v) * s)
                = (2 * (z * s)) * (y * w + x * v)
  OBVIOUS
<1>3. 2 * (z * s) + ((2 * (d * (v * w))) * s) * ((x * y) * z)
                = (2 * (z * s)) * (1 + d * ((x * w) * (v * y)))
  OBVIOUS
<1>4. 2 * (z * s) - ((2 * (d * (v * w))) * s) * ((x * y) * z)
                = (2 * (z * s)) * (1 - d * ((x * w) * (v * y)))
  OBVIOUS
<1> QED
  BY <1>1, <1>2, <1>3, <1>4

(* The common part of ge_add and ge_madd adds two points.                  *)
LEMMA SumIs ==
    ASSUME NEW p, NEW a, StandsP3(p, a), NEW b \in Curve, NEW s \in Int, ~Zero(s),
           NEW yp, NEW ym, NEW td, NEW zz,
           Is(yp, (b.y + b.x) * s), Is(ym, (b.y - b.x) * s),
           Is(td, (2 * (D * (b.x * b.y))) * s), Is(zz, 2 * (p.Z * s))
    PROVE  StandsP1P1(Sum(FeMul(YPlusX(p), yp), FeMul(YMinusX(p), ym), zz, FeMul(td, p.T)),
                      AddAffine(a, b))
<1>1. PICK x, y, v, w, d, z \in Int :
         x = a.x /\ y = a.y /\ v = b.x /\ w = b.y /\ d = D /\ z = p.Z
  BY PointIs, ConstantsAre, P3Parts DEF StandsP3
<1>2. PICK X, Y, T \in Residues : X = p.X /\ Y = p.Y /\ T = p.T /\ z \in Residues
  BY <1>1, P3Parts DEF StandsP3
<1>3. PICK xz, yz, tz \in Int : xz = x * z /\ yz = y * z /\ tz = (x * y) * z
  OBVIOUS
<1>4. Is(X, xz) /\ Is(Y, yz) /\ Is(T, tz) /\ Is(z, z) /\ ~Zero(z) /\ a \in Curve
  BY <1>1, <1>2, <1>3, IsItself DEF StandsP3, Is
<1>5. PICK bp, bm, bt, bz \in Int :
         bp = (w + v) * s /\ bm = (w - v) * s /\ bt = (2 * (d * (v * w))) * s /\ bz = 2 * (z * s)
  OBVIOUS
<1>6. Is(yp, bp) /\ Is(ym, bm) /\ Is(td, bt) /\ Is(zz, bz)
  BY <1>1, <1>5
<1> DEFINE A == FeMul(YPlusX(p), yp)
           E == FeMul(YMinusX(p), ym)
           C == FeMul(td, p.T)
<1>7. Is(A, (yz + xz) * bp)
  <2>1. Is(FeAdd(Y, X), yz + xz)
    BY <1>4, OpsAre
  <2> QED
    BY <1>2, <1>6, <2>1, OpsAre DEF YPlusX
<1>8. Is(E, (yz - xz) * bm)
  <2>1. Is(FeSub(Y, X), yz - xz)
    BY <1>4, OpsAre
  <2> QED
    BY <1>2, <1>6, <2>1, OpsAre DEF YMinusX
<1>9. Is(C, bt * tz)
  BY <1>2, <1>4, <1>6, OpsAre
<1> HIDE DEF A, E, C
<1>10. PICK ra, re, rc \in Int : ra = (yz + xz) * bp /\ re = (yz - xz) * bm /\ rc = bt * tz
  OBVIOUS
<1>11. /\ Is(FeSub(A, E), ra - re) /\ Is(FeAdd(A, E), ra + re)
       /\ Is(FeAdd(zz, C), bz + rc) /\ Is(FeSub(zz, C), bz - rc)
  BY <1>6, <1>7, <1>8, <1>9, <1>10, OpsAre
<1>12. PICK k \in Int : k = d * ((x * w) * (v * y))
  OBVIOUS
<1>13. PICK m, n, u, h \in Int : m = x * w + v * y /\ n = y * w + x * v /\ u = 1 + k /\ h = 1 - k
  OBVIOUS
<1>14. /\ ra - re = bz * m /\ ra + re = bz * n
       /\ bz + rc = bz * u /\ bz - rc = bz * h
  BY <1>3, <1>5, <1>10, <1>12, <1>13, AddIdentity
<1>15. PICK c \in Curve : /\ c = AddAffine(a, b) /\ ~Zero(u) /\ ~Zero(h)
                          /\ Same(c.x * u, m) /\ Same(c.y * h, n)
  BY <1>1, <1>4, <1>12, <1>13, AddAffineIs
<1>16. ~Zero(bz)
  BY <1>4, <1>5, NumbersDiffer, NonzeroProduct
<1>17. StandsP1P1(P1P1(FeSub(A, E), FeAdd(A, E), FeAdd(zz, C), FeSub(zz, C)), c)
  <2>1. /\ Is(FeSub(A, E), bz * m) /\ Is(FeAdd(A, E), bz * n)
        /\ Is(FeAdd(zz, C), bz * u) /\ Is(FeSub(zz, C), bz * h)
    BY <1>11, <1>14
  <2>2. ~Zero(u) /\ ~Zero(h) /\ Same(c.x * u, m) /\ Same(c.y * h, n)
    BY <1>15
  <2> QED
    BY <1>16, <2>1, <2>2, P1P1Is
<1> QED
  BY <1>15, <1>17 DEF Sum, A, E, C

LEMMA PrecompIs ==
    ASSUME NEW b \in Curve
    PROVE  /\ Is(Precomp(b).yplusx, b.y + b.x) /\ Is(Precomp(b).yminusx, b.y - b.x)
           /\ Is(Precomp(b).xy2d, 2 * (D * (b.x * b.y)))
<1>1. PICK x, y \in Residues : x = b.x /\ y = b.y
  BY PointIs
<1>2. x \in Int /\ y \in Int /\ Is(x, x) /\ Is(y, y) /\ Is(D, D)
  BY ResidueIsInt, IsItself, ConstantsAre
<1>3. Is(FeAdd(y, x), y + x) /\ Is(FeSub(y, x), y - x)
  BY <1>2, OpsAre
<1>4. PICK d \in Int : d = D
  BY ConstantsAre
<1>5. Is(FeMul(FeMul(x, y), FeAdd(D, D)), 2 * (d * (x * y)))
  <2>1. Is(FeMul(x, y), x * y) /\ Is(FeAdd(D, D), d + d)
    BY <1>2, <1>4, OpsAre
  <2>2. (x * y) * (d + d) = 2 * (d * (x * y)) /\ 2 * (d * (x * y)) \in Int
    BY <1>2
  <2> QED
    BY <2>1, <2>2, IsProduct3
<1> QED
  BY <1>1, <1>3, <1>4, <1>5 DEF Precomp

(* ge_madd adds. *)
LEMMA MaddIs ==
    ASSUME NEW p, NEW a, StandsP3(p, a), NEW b \in Curve
    PROVE  StandsP1P1(GeMadd(p, Precomp(b)), AddAffine(a, b))
<1>1. PICK q : q = Precomp(b)
  OBVIOUS
<1>2. b.y + b.x \in Int /\ b.y - b.x \in Int /\ 2 * (D * (b.x * b.y)) \in Int /\ p.Z \in Int
  BY PointIs, ConstantsAre, P3Parts DEF StandsP3
<1>3. PICK e, f, g \in Int : e = b.y + b.x /\ f = b.y - b.x /\ g = 2 * (D * (b.x * b.y))
  BY <1>2
<1>4. Is(q.yplusx, e * 1) /\ Is(q.yminusx, f * 1) /\ Is(q.xy2d, g * 1)
  <2>1. e * 1 = e /\ f * 1 = f /\ g * 1 = g
    OBVIOUS
  <2> QED
    BY <1>1, <1>3, <2>1, PrecompIs
<1>5. Is(FeAdd(p.Z, p.Z), 2 * (p.Z * 1))
  <2>1. PICK z \in Residues : z = p.Z /\ z \in Int
    BY P3Parts DEF StandsP3
  <2>2. Is(FeAdd(z, z), z + z) /\ z + z = 2 * (z * 1)
    BY <2>1, IsItself, OpsAre
  <2> QED
    BY <2>1, <2>2
<1>6. StandsP1P1(Sum(FeMul(YPlusX(p), q.yplusx), FeMul(YMinusX(p), q.yminusx),
                     FeAdd(p.Z, p.Z), FeMul(q.xy2d, p.T)), AddAffine(a, b))
  <2>1. 1 \in Int /\ ~Zero(1)
    BY NumbersDiffer
  <2> QED
    BY <1>3, <1>4, <1>5, <2>1, SumIs
<1> QED
  BY <1>1, <1>6 DEF GeMadd

(* ge_add adds. *)
LEMMA AddIs ==
    ASSUME NEW p, NEW a, StandsP3(p, a), NEW q, NEW b, StandsP3(q, b)
    PROVE  StandsP1P1(GeAdd(p, P3ToCached(q)), AddAffine(a, b))
<1>1. PICK X, Y, Z, T \in Residues : X = q.X /\ Y = q.Y /\ Z = q.Z /\ T = q.T
  BY P3Parts DEF StandsP3
<1>2. PICK x, y, d, z \in Int : x = b.x /\ y = b.y /\ d = D /\ z = p.Z /\ z \in Residues
  BY PointIs, P3Parts, ConstantsAre DEF StandsP3
<1>3. Z \in Int /\ Is(Z, Z) /\ Is(D, d) /\ Is(z, z) /\ Is(2, 2)
  BY <1>2, ResidueIsInt, IsItself, ConstantsAre, SmallNumbers
<1>4. PICK xz, yz, tz \in Int : xz = x * Z /\ yz = y * Z /\ tz = (x * y) * Z
  BY <1>3
<1>5. Is(X, xz) /\ Is(Y, yz) /\ Is(T, tz) /\ ~Zero(Z) /\ b \in Curve
  BY <1>1, <1>2, <1>4 DEF StandsP3, Is
<1>6. Is(FeAdd(Y, X), (y + x) * Z) /\ Is(FeSub(Y, X), (y - x) * Z)
  <2>1. (y + x) * Z = yz + xz /\ (y - x) * Z = yz - xz
    BY <1>3, <1>4
  <2> QED
    BY <1>5, <2>1, OpsAre
<1>7. Is(FeMul(T, FeAdd(D, D)), (2 * (d * (x * y))) * Z)
  <2>1. Is(FeAdd(D, D), d + d)
    BY <1>3, OpsAre
  <2>2. tz * (d + d) = (2 * (d * (x * y))) * Z /\ (2 * (d * (x * y))) * Z \in Int
    <3>1. ((x * y) * Z) * (d + d) = (2 * (d * (x * y))) * Z /\ (2 * (d * (x * y))) * Z \in Int
      BY <1>3
    <3> QED
      BY <1>4, <3>1
  <2> QED
    BY <1>5, <2>1, <2>2, IsProduct3
<1>8. Is(FeMul(2, FeMul(z, Z)), 2 * (z * Z))
  BY <1>3, OpsAre
<1>9. P3ToCached(q) = [YplusX |-> FeAdd(Y, X), YminusX |-> FeSub(Y, X), Z |-> Z,
                       T2d |-> FeMul(T, FeAdd(D, D))]
  BY <1>1 DEF P3ToCached, YPlusX, YMinusX
<1>10. StandsP1P1(Sum(FeMul(YPlusX(p), FeAdd(Y, X)), FeMul(YMinusX(p), FeSub(Y, X)),
                      FeMul(2, FeMul(p.Z, Z)), FeMul(FeMul(T, FeAdd(D, D)), p.T)), AddAffine(a, b))
  BY <1>2, <1>3, <1>5, <1>6, <1>7, <1>8, SumIs
<1> QED
  BY <1>9, <1>10 DEF GeAdd

(* ge_p2_dbl doubles: the equation of the curve stands in for d. *)
LEMMA DoubleIs ==
    ASSUME NEW p, NEW a, StandsP2(p, a)
    PROVE  StandsP1P1(GeP2Dbl(p), AddAffine(a, a))
<1>1. PICK X, Y, Z \in Residues : X = p.X /\ Y = p.Y /\ Z = p.Z
  BY P2Parts DEF StandsP2
<1>2. PICK x, y, d \in Int : x = a.x /\ y = a.y /\ d = D
  BY PointIs, ConstantsAre DEF StandsP2
<1>3. Z \in Int /\ Is(Z, Z)
  BY ResidueIsInt, IsItself
<1>4. PICK xz, yz \in Int : xz = x * Z /\ yz = y * Z
  BY <1>3
<1>5. Is(X, xz) /\ Is(Y, yz) /\ ~Zero(Z) /\ a \in Curve
  BY <1>1, <1>2, <1>4 DEF StandsP2, Is
<1> DEFINE yy == FeSq(Y)
           xx == FeSq(X)
           sum == FeAdd(yy, xx)
           diff == FeSub(yy, xx)
<1>6. Is(yy, yz * yz) /\ Is(xx, xz * xz)
  BY <1>5, OpsAre
<1>7. Is(sum, yz * yz + xz * xz) /\ Is(diff, yz * yz - xz * xz)
  BY <1>6, OpsAre
<1> HIDE DEF yy, xx, sum, diff
<1>8. Is(FeSq(FeAdd(X, Y)), (xz + yz) * (xz + yz))
  BY <1>5, OpsAre
<1>9. Is(FeSub(FeSq(FeAdd(X, Y)), sum), (xz + yz) * (xz + yz) - (yz * yz + xz * xz))
  BY <1>7, <1>8, OpsAre
<1>10. Is(FeSub(FeSq2(Z), diff), 2 * (Z * Z) - (yz * yz - xz * xz))
  BY <1>3, <1>7, OpsAre
<1>11. PICK w, m, n, u, v, k \in Int :
          /\ w = Z * Z /\ m = x * y + x * y /\ n = y * y + x * x
          /\ u = y * y - x * x /\ v = 2 - (y * y - x * x) /\ k = d * ((x * y) * (x * y))
  BY <1>3
<1>12. /\ (xz + yz) * (xz + yz) - (yz * yz + xz * xz) = w * m
       /\ yz * yz + xz * xz = w * n
       /\ yz * yz - xz * xz = w * u
       /\ 2 * (Z * Z) - (yz * yz - xz * xz) = w * v
  <2>1. /\ (x * Z + y * Z) * (x * Z + y * Z) - ((y * Z) * (y * Z) + (x * Z) * (x * Z))
             = (Z * Z) * (x * y + x * y)
        /\ (y * Z) * (y * Z) + (x * Z) * (x * Z) = (Z * Z) * (y * y + x * x)
        /\ (y * Z) * (y * Z) - (x * Z) * (x * Z) = (Z * Z) * (y * y - x * x)
        /\ 2 * (Z * Z) - ((y * Z) * (y * Z) - (x * Z) * (x * Z)) = (Z * Z) * (2 - (y * y - x * x))
    BY <1>3
  <2> QED
    BY <1>4, <1>11, <2>1
<1>13. Same(u, 1 + k) /\ Same(v, 1 - k)
  <2>1. Same(y * y - x * x, 1 + d * ((x * x) * (y * y)))
    BY <1>2, <1>5, PointIs
  <2>2. d * ((x * x) * (y * y)) = d * ((x * y) * (x * y))
    OBVIOUS
  <2>3. Same(u, 1 + k)
    BY <1>11, <2>1, <2>2
  <2>4. Same(2, 2) /\ 2 \in Int /\ 1 + k \in Int
    BY SameItself
  <2>5. Same(2 - u, 2 - (1 + k))
    BY <2>3, <2>4, SamePlus
  <2>6. 2 - u = v /\ 2 - (1 + k) = 1 - k
    BY <1>11
  <2> QED
    BY <2>3, <2>5, <2>6
<1>14. PICK c \in Curve : /\ c = AddAffine(a, a) /\ ~Zero(1 + k) /\ ~Zero(1 - k)
                          /\ Same(c.x * (1 + k), m) /\ Same(c.y * (1 - k), n)
  BY <1>2, <1>5, <1>11, AddAffineIs
<1>15. c.x \in Int /\ c.y \in Int
  BY PointIs
<1>16. Same(c.x * u, m) /\ Same(c.y * v, n) /\ ~Zero(u) /\ ~Zero(v)
  <2>1. PICK e, f \in Int : e = 1 + k /\ f = 1 - k
    OBVIOUS
  <2>2. Same(c.x, c.x) /\ Same(c.y, c.y)
    BY <1>15, SameItself
  <2>3. Same(c.x * u, c.x * e) /\ Same(c.y * v, c.y * f)
    BY <1>13, <1>15, <2>1, <2>2, SameProduct
  <2>4. c.x * u \in Int /\ c.x * e \in Int /\ c.y * v \in Int /\ c.y * f \in Int
    BY <1>15
  <2>5. Same(c.x * u, m) /\ Same(c.y * v, n)
    BY <1>14, <2>1, <2>3, <2>4, SameThrough
  <2> QED
    BY <1>13, <1>14, <2>1, <2>5, ZeroSame
<1>17. ~Zero(w)
  BY <1>3, <1>5, <1>11, NonzeroProduct
<1>18. StandsP1P1(P1P1(FeSub(FeSq(FeAdd(X, Y)), sum), sum, diff, FeSub(FeSq2(Z), diff)), c)
  <2>1. /\ Is(FeSub(FeSq(FeAdd(X, Y)), sum), w * m) /\ Is(sum, w * n)
        /\ Is(diff, w * u) /\ Is(FeSub(FeSq2(Z), diff), w * v)
    BY <1>7, <1>9, <1>10, <1>12
  <2> QED
    BY <1>16, <1>17, <2>1, P1P1Is
<1> QED
  BY <1>1, <1>14, <1>18 DEF GeP2Dbl, yy, xx, sum, diff

-----------------------------------------------------------------------------
(* The group. *)
Origin == Affine(0, 1)

LEMMA AffineIs == ASSUME NEW x, NEW y PROVE Affine(x, y).x = x /\ Affine(x, y).y = y
BY DEF Affine

LEMMA OnCurveIs ==
    ASSUME NEW x \in Residues, NEW y \in Residues,
           Same(y * y - x * x, 1 + D * ((x * x) * (y * y)))
    PROVE  Affine(x, y) \in Curve
<1>1. x \in Int /\ y \in Int /\ Is(x, x) /\ Is(y, y) /\ Is(1, 1) /\ Is(D, D) /\ D \in Int
  BY SmallNumbers, IsItself, ResidueIsInt, ConstantsAre
<1>2. Is(FeSq(y), y * y) /\ Is(FeSq(x), x * x)
  BY <1>1, OpsAre
<1>3. Is(FeSub(FeSq(y), FeSq(x)), y * y - x * x)
  BY <1>2, OpsAre
<1>4. Is(FeMul(D, FeMul(FeSq(x), FeSq(y))), D * ((x * x) * (y * y)))
  BY <1>1, <1>2, OpsAre
<1>5. Is(FeAdd(1, FeMul(D, FeMul(FeSq(x), FeSq(y)))), 1 + D * ((x * x) * (y * y)))
  BY <1>1, <1>4, OpsAre
<1>6. FeSub(FeSq(y), FeSq(x)) = FeAdd(1, FeMul(D, FeMul(FeSq(x), FeSq(y))))
  BY <1>3, <1>5, IsEqual
<1>7. OnCurve(Affine(x, y)) /\ Affine(x, y) \in [x : Residues, y : Residues]
  BY <1>6, AffineIs DEF OnCurve, Affine
<1> QED
  BY <1>7 DEF Curve

LEMMA OriginIs == Origin \in Curve /\ Origin.x = 0 /\ Origin.y = 1
<1>1. 1 * 1 - 0 * 0 = 1 /\ 1 + D * ((0 * 0) * (1 * 1)) = 1
  BY ConstantsAre
<1>2. Same(1 * 1 - 0 * 0, 1 + D * ((0 * 0) * (1 * 1)))
  BY <1>1, SameItself
<1> QED
  BY <1>2, SmallNumbers, OnCurveIs, AffineIs DEF Origin

LEMMA BaseIs == B \in Curve
<1>1. B = Affine(BaseX, BaseY) /\ OnCurve(B)
  BY CurveAssumption DEF B
<1> QED
  BY <1>1, ConstantsAre DEF Affine, Curve

(* A sum is determined by what its coordinates are the quotients of. *)
LEMMA SumUnique ==
    ASSUME NEW a \in Curve, NEW b \in Curve, NEW k \in Int, k = D * ((a.x * b.y) * (b.x * a.y)),
           NEW c \in Curve, Same(c.x * (1 + k), a.x * b.y + b.x * a.y),
           Same(c.y * (1 - k), a.y * b.y + a.x * b.x)
    PROVE  AddAffine(a, b) = c
<1>1. PICK s \in Curve : /\ s = AddAffine(a, b) /\ ~Zero(1 + k) /\ ~Zero(1 - k)
                         /\ Same(s.x * (1 + k), a.x * b.y + b.x * a.y)
                         /\ Same(s.y * (1 - k), a.y * b.y + a.x * b.x)
  BY AddAffineIs
<1>2. /\ a.x * b.y + b.x * a.y \in Int /\ a.y * b.y + a.x * b.x \in Int
      /\ s.x \in Residues /\ s.y \in Residues /\ c.x \in Residues /\ c.y \in Residues
      /\ s.x \in Int /\ s.y \in Int /\ c.x \in Int /\ c.y \in Int
      /\ s = Affine(s.x, s.y) /\ c = Affine(c.x, c.y)
  BY PointIs
<1>3. PICK m, n, u, v \in Int : /\ m = a.x * b.y + b.x * a.y /\ n = a.y * b.y + a.x * b.x
                                /\ u = 1 + k /\ v = 1 - k
  BY <1>2
<1>4. /\ Same(s.x * u, m) /\ Same(c.x * u, m) /\ s.x * u \in Int /\ c.x * u \in Int /\ ~Zero(u)
      /\ Same(s.y * v, n) /\ Same(c.y * v, n) /\ s.y * v \in Int /\ c.y * v \in Int /\ ~Zero(v)
  BY <1>1, <1>2, <1>3
<1>5. Same(s.x * u, c.x * u) /\ Same(s.y * v, c.y * v)
  BY <1>4, SameThrough, SameBack
<1>6. Same(s.x, c.x) /\ Same(s.y, c.y)
  BY <1>2, <1>4, <1>5, Cancel
<1>7. s.x = c.x /\ s.y = c.y
  BY <1>2, <1>6, SameResidue
<1> QED
  BY <1>1, <1>2, <1>7

LEMMA AddNothing == ASSUME NEW a \in Curve PROVE AddAffine(a, Origin) = a
<1>1. PICK x, y, d \in Int : x = a.x /\ y = a.y /\ d = D
  BY PointIs, ConstantsAre
<1>2. /\ d * ((x * 1) * (0 * y)) = 0 /\ x * (1 + 0) = x * 1 + 0 * y /\ y * (1 - 0) = y * 1 + x * 0
  OBVIOUS
<1>3. /\ 0 = D * ((a.x * Origin.y) * (Origin.x * a.y))
      /\ a.x * (1 + 0) = a.x * Origin.y + Origin.x * a.y
      /\ a.y * (1 - 0) = a.y * Origin.y + a.x * Origin.x
  BY <1>1, <1>2, OriginIs
<1>4. a.x * (1 + 0) \in Int /\ a.y * (1 - 0) \in Int /\ 0 \in Int
  BY <1>1
<1>5. /\ Same(a.x * (1 + 0), a.x * Origin.y + Origin.x * a.y)
      /\ Same(a.y * (1 - 0), a.y * Origin.y + a.x * Origin.x)
  BY <1>3, <1>4, SameItself
<1> QED
  BY <1>3, <1>4, <1>5, OriginIs, SumUnique

LEMMA AddCommutes == ASSUME NEW a \in Curve, NEW b \in Curve PROVE AddAffine(a, b) = AddAffine(b, a)
<1>1. PICK x, y, v, w, d \in Int : x = a.x /\ y = a.y /\ v = b.x /\ w = b.y /\ d = D
  BY PointIs, ConstantsAre
<1>2. /\ d * ((x * w) * (v * y)) = d * ((v * y) * (x * w))
      /\ x * w + v * y = v * y + x * w /\ y * w + x * v = w * y + v * x
  OBVIOUS
<1>3. PICK k \in Int : k = d * ((x * w) * (v * y))
  OBVIOUS
<1>4. PICK c \in Curve : /\ c = AddAffine(b, a)
                         /\ Same(c.x * (1 + k), v * y + x * w)
                         /\ Same(c.y * (1 - k), w * y + v * x)
  <2>1. k = D * ((b.x * a.y) * (a.x * b.y))
    BY <1>1, <1>2, <1>3
  <2> QED
    BY <1>1, <2>1, AddAffineIs
<1>5. /\ k = D * ((a.x * b.y) * (b.x * a.y))
      /\ Same(c.x * (1 + k), a.x * b.y + b.x * a.y) /\ Same(c.y * (1 - k), a.y * b.y + a.x * b.x)
  BY <1>1, <1>2, <1>3, <1>4
<1> QED
  BY <1>4, <1>5, SumUnique

LEMMA AddAssoc ==
    ASSUME NEW a \in Curve, NEW b \in Curve, NEW c \in Curve
    PROVE  /\ AddAffine(AddAffine(a, b), c) = AddAffine(a, AddAffine(b, c))
           /\ AddAffine(a, b) \in Curve
BY CurveAssumption

-----------------------------------------------------------------------------
(* Multiples. *)
MultipleStep(p) == [s \in Curve \X Nat |-> AddAffine(s[1], p)]

(* The multiples of a point, by rounds of the law; they add and multiply as *)
(* their numbers do.                                                       *)
LEMMA MultiplesIsRun ==
    ASSUME NEW p \in Curve, NEW n \in Nat
    PROVE  Multiples(p, n) = Run(MultipleStep(p), Affine(0, 1), n)
<1> DEFINE T == Curve
           h == MultipleStep(p)
           z == Affine(0, 1)
           g == Runs(h, z, n)
           Body(A) == [k \in 0..n |-> IF k = 0 THEN z ELSE AddAffine(A[k - 1], p)]
           F == CHOOSE A : A = Body(A)
<1>1. Multiples(p, n) = F[n]
  BY DEF Multiples, Rounds
<1>2. n \in Nat /\ z \in T /\ h \in [T \X Nat -> T]
  <2>1. \A s \in Curve \X Nat : AddAffine(s[1], p) \in Curve
    BY AddAssoc
  <2> QED
    BY <2>1, OriginIs DEF MultipleStep, Origin
<1>3. \A x \in T, j \in 1..n : h[<<x, j - 1>>] = AddAffine(x, p)
  BY DEF MultipleStep
<1> HIDE DEF T, h, z
<1>4. IsRun(g, h, T, z, n)
  BY <1>2, RunsIs
<1> HIDE DEF g
<1>5. g \in [0..n -> T] /\ g[0] = z /\ \A j \in 1..n : g[j] = h[<<g[j - 1], j - 1>>]
  BY <1>4 DEF IsRun
<1>6. g = Body(g)
  <2>1. ASSUME NEW j \in 0..n PROVE g[j] = IF j = 0 THEN z ELSE AddAffine(g[j - 1], p)
    <3>1. j # 0 => j \in 1..n /\ g[j - 1] \in T
      BY <1>2, <1>5
    <3> QED
      BY <1>3, <1>5, <3>1
  <2>2. DOMAIN g = 0..n /\ g = [j \in DOMAIN g |-> g[j]]
    BY <1>5
  <2> QED
    BY <2>1, <2>2
<1>7. F = Body(F)
  <2> HIDE DEF Body
  <2> QED
    BY <1>6
<1> HIDE DEF F
<1>8. \A j \in 0..n : F[j] = IF j = 0 THEN z ELSE AddAffine(F[j - 1], p)
  BY <1>7
<1>9. Obeys(F, h, T, z, n)
  <2>1. 0 \in 0..n /\ \A j \in 1..n : j \in 0..n /\ j # 0
    BY <1>2
  <2>2. F[0] = z
    BY <1>8, <2>1
  <2>3. ASSUME NEW j \in 1..n, F[j - 1] \in T PROVE F[j] = h[<<F[j - 1], j - 1>>]
    <3>1. F[j] = AddAffine(F[j - 1], p)
      BY <1>8, <2>1
    <3> QED
      BY <1>3, <2>3, <3>1
  <2> QED
    BY <2>2, <2>3 DEF Obeys
<1>10. Agree(F, Runs(h, z, n), T, n)
  <2>1. n \in Nat /\ z \in T /\ IsStep(h, T)
    BY <1>2 DEF IsStep
  <2> QED
    BY <1>9, <2>1, RunSame
<1>11. F[n] = g[n]
  BY <1>2, <1>10 DEF Agree, g
<1> QED
  BY <1>1, <1>11 DEF Run, g, h, z

LEMMA MultiplesIs ==
    ASSUME NEW p \in Curve, NEW n \in Nat
    PROVE  /\ Multiples(p, 0) = Origin /\ Multiples(p, n) \in Curve
           /\ Multiples(p, n + 1) = AddAffine(Multiples(p, n), p)
<1> DEFINE h == MultipleStep(p)
<1>0. IsStep(h, Curve)
  <2>1. \A s \in Curve \X Nat : AddAffine(s[1], p) \in Curve
    BY AddAssoc
  <2> QED
    BY <2>1 DEF MultipleStep, IsStep
<1>1. \A x \in Curve, k \in Nat : h[<<x, k>>] = AddAffine(x, p)
  BY DEF MultipleStep
<1>2. /\ Multiples(p, 0) = Run(h, Affine(0, 1), 0) /\ Multiples(p, n) = Run(h, Affine(0, 1), n)
      /\ Multiples(p, n + 1) = Run(h, Affine(0, 1), n + 1)
  BY MultiplesIsRun
<1> HIDE DEF h
<1>3. Affine(0, 1) \in Curve
  BY OriginIs DEF Origin
<1>4. Turns(h, Affine(0, 1), n, Curve)
  BY <1>0, <1>3, RunIs
<1> QED
  BY <1>1, <1>2, <1>4 DEF Turns, Origin

LEMMA MultiplesAdd ==
    ASSUME NEW p \in Curve, NEW m \in Nat, NEW n \in Nat
    PROVE  Multiples(p, m + n) = AddAffine(Multiples(p, m), Multiples(p, n))
<1> DEFINE A == {j \in Nat : Multiples(p, m + j) = AddAffine(Multiples(p, m), Multiples(p, j))}
<1>1. 0 \in A
  <2>1. m + 0 = m /\ Multiples(p, 0) = Origin /\ Multiples(p, m) \in Curve
    BY MultiplesIs
  <2> QED
    BY <2>1, AddNothing
<1>2. ASSUME NEW j \in Nat, j \in A PROVE j + 1 \in A
  <2>1. m + (j + 1) = (m + j) + 1 /\ m + j \in Nat
    OBVIOUS
  <2>2. /\ Multiples(p, (m + j) + 1) = AddAffine(Multiples(p, m + j), p)
        /\ Multiples(p, j + 1) = AddAffine(Multiples(p, j), p)
        /\ Multiples(p, m) \in Curve /\ Multiples(p, j) \in Curve
    BY <2>1, MultiplesIs
  <2>3. Multiples(p, m + j) = AddAffine(Multiples(p, m), Multiples(p, j))
    BY <1>2
  <2>4. AddAffine(AddAffine(Multiples(p, m), Multiples(p, j)), p)
          = AddAffine(Multiples(p, m), AddAffine(Multiples(p, j), p))
    BY <2>2, AddAssoc
  <2> QED
    BY <2>1, <2>2, <2>3, <2>4
<1> HIDE DEF A
<1>3. n \in A
  BY <1>1, <1>2, SetInduction
<1> QED
  BY <1>3 DEF A

LEMMA MultiplesTimes ==
    ASSUME NEW p \in Curve, NEW m \in Nat, NEW n \in Nat
    PROVE  Multiples(Multiples(p, m), n) = Multiples(p, m * n)
<1>0. PICK q \in Curve : q = Multiples(p, m)
  BY MultiplesIs
<1> DEFINE A == {j \in Nat : Multiples(q, j) = Multiples(p, m * j)}
<1>1. 0 \in A
  <2>1. m * 0 = 0
    OBVIOUS
  <2> QED
    BY <2>1, MultiplesIs
<1>2. ASSUME NEW j \in Nat, j \in A PROVE j + 1 \in A
  <2>1. PICK i \in Nat : i = m * j
    OBVIOUS
  <2>2. m * (j + 1) = i + m
    BY <2>1
  <2>3. Multiples(q, j) = Multiples(p, i)
    BY <1>2, <2>1
  <2>4. Multiples(q, j + 1) = AddAffine(Multiples(q, j), q)
    BY MultiplesIs
  <2>5. Multiples(p, i + m) = AddAffine(Multiples(p, i), q)
    BY <1>0, MultiplesAdd
  <2> QED
    BY <2>2, <2>3, <2>4, <2>5
<1> HIDE DEF A
<1>3. n \in A
  BY <1>1, <1>2, SetInduction
<1> QED
  BY <1>0, <1>3 DEF A

-----------------------------------------------------------------------------
(* The multiples of B, for every integer. *)
G(n) == Multiples(B, n % L)
NegOf(p) == Affine(FeNeg(p.x), p.y)

LEMMA OrderIs == L \in Nat /\ L > 1 /\ Multiples(B, L) = Origin
BY OrderAssumption DEF Origin

LEMMA RemainderInNat == ASSUME NEW n \in Int PROVE n % L \in Nat /\ n % L < L
<1>1. PICK l \in Nat : l = L /\ l > 0
  BY OrderIs
<1>2. n % l \in 0..l - 1
  BY <1>1, RemainderIs
<1>3. PICK r \in 0..l - 1 : r = n % L
  BY <1>1, <1>2
<1>4. r \in Nat /\ r < L
  BY <1>1
<1> QED
  BY <1>3, <1>4

LEMMA GIsPoint == ASSUME NEW n \in Int PROVE G(n) \in Curve
BY RemainderInNat, BaseIs, MultiplesIs DEF G

LEMMA OriginMultiples == ASSUME NEW n \in Nat PROVE Multiples(Origin, n) = Origin
<1>1. Multiples(B, 0) = Origin
  BY BaseIs, MultiplesIs
<1>2. Multiples(Multiples(B, 0), n) = Multiples(B, 0 * n)
  BY BaseIs, MultiplesTimes
<1>3. 0 * n = 0
  OBVIOUS
<1> QED
  BY <1>1, <1>2, <1>3

(* The order of the base point brings its multiples round, so they may be  *)
(* counted by any integer: negative ones are the negated points.           *)
LEMMA WholeTurns ==
    ASSUME NEW r \in Nat, NEW q \in Nat
    PROVE  Multiples(B, r + L * q) = Multiples(B, r)
<1>1. PICK l \in Nat : l = L /\ Multiples(B, l) = Origin
  BY OrderIs
<1>2. PICK m \in Nat : m = l * q
  BY <1>1
<1>3. Multiples(B, m) = Origin
  BY <1>1, <1>2, BaseIs, MultiplesTimes, OriginMultiples
<1>4. Multiples(B, r + m) = AddAffine(Multiples(B, r), Origin) /\ Multiples(B, r) \in Curve
  BY <1>3, BaseIs, MultiplesAdd, MultiplesIs
<1> QED
  BY <1>1, <1>2, <1>4, AddNothing

LEMMA GOfNat == ASSUME NEW n \in Nat PROVE G(n) = Multiples(B, n)
<1>1. PICK l \in Nat : l = L /\ l > 0
  BY OrderIs
<1>2. /\ n \div l \in Int /\ n % l \in 0..l - 1 /\ n = l * (n \div l) + (n % l)
  BY <1>1, RemainderIs
<1>3. PICK q \in Int, r \in 0..l - 1 : q = n \div l /\ r = n % l
  BY <1>2
<1>4. n = l * q + r
  BY <1>2, <1>3
<1>5. q >= 0
  <2>1. SUFFICES ASSUME q <= -1 PROVE FALSE
    OBVIOUS
  <2>2. l * q <= -l
    BY <1>1, <2>1
  <2> QED
    BY <1>4, <2>2
<1>6. n = r + L * q /\ q \in Nat /\ r \in Nat
  <2>1. PICK m \in Int : m = l * q
    OBVIOUS
  <2>2. n = r + m
    BY <1>4, <2>1
  <2> QED
    BY <1>1, <1>5, <2>1, <2>2
<1>7. Multiples(B, n) = Multiples(B, r)
  BY <1>6, WholeTurns
<1>8. n % L = r
  BY <1>1, <1>3
<1> QED
  BY <1>7, <1>8 DEF G

LEMMA SameRemainderWholeTurns ==
    ASSUME NEW m \in Int, NEW n \in Int
    PROVE  ((m % L) + (n % L)) % L = (m + n) % L
<1>1. PICK l \in Nat : l = L /\ l > 0
  BY OrderIs
<1>2. /\ m \div l \in Int /\ m % l \in 0..l - 1 /\ m = l * (m \div l) + (m % l)
      /\ n \div l \in Int /\ n % l \in 0..l - 1 /\ n = l * (n \div l) + (n % l)
  BY <1>1, RemainderIs
<1>3. PICK a, b \in Int, r, s \in 0..l - 1 : a = m \div l /\ r = m % l /\ b = n \div l /\ s = n % l
  BY <1>2
<1>4. m = l * a + r /\ n = l * b + s
  BY <1>2, <1>3
<1>5. r + s \in Int /\ (r + s) \div l \in Int /\ (r + s) % l \in 0..l - 1
      /\ r + s = l * ((r + s) \div l) + ((r + s) % l)
  <2>1. r + s \in Int
    OBVIOUS
  <2> QED
    BY <1>1, <2>1, RemainderIs
<1>6. PICK c \in Int, t \in 0..l - 1 : c = (r + s) \div l /\ t = (r + s) % l
  BY <1>5
<1>7. r + s = l * c + t
  BY <1>5, <1>6
<1>8. m + n = l * (a + b + c) + t
  <2>1. PICK x, y, z \in Int : x = l * a /\ y = l * b /\ z = l * c
    OBVIOUS
  <2>2. l * (a + b + c) = x + y + z
    BY <2>1
  <2>3. m = x + r /\ n = y + s /\ r + s = z + t
    BY <1>4, <1>7, <2>1
  <2> QED
    BY <2>2, <2>3
<1>9. (m + n) % l = t
  <2>1. PICK x, y \in Int : x = m + n /\ y = a + b + c
    OBVIOUS
  <2>2. x = l * y + t
    BY <1>8, <2>1
  <2>3. x % l = t
    BY <1>1, <2>2, RemainderUnique
  <2> QED
    BY <2>1, <2>3, Zenon
<1>10. ((m % l) + (n % l)) % l = t
  <2>1. m % l = r /\ n % l = s
    BY <1>3
  <2>2. (r + s) % l = t
    BY <1>6
  <2> QED
    BY <2>1, <2>2, Zenon
<1> QED
  BY <1>1, <1>9, <1>10, Zenon

(* The multiples of the base point are a group homomorphism from the integers. *)
LEMMA GAdds ==
    ASSUME NEW m \in Int, NEW n \in Int
    PROVE  G(m + n) = AddAffine(G(m), G(n))
<1>1. PICK a, b \in Nat : a = m % L /\ b = n % L
  BY RemainderInNat
<1>2. G(m) = Multiples(B, a) /\ G(n) = Multiples(B, b)
  BY <1>1 DEF G
<1>3. a + b \in Nat /\ G(a + b) = Multiples(B, a + b)
  <2>1. a + b \in Nat
    OBVIOUS
  <2> QED
    BY <2>1, GOfNat
<1>4. Multiples(B, a + b) = AddAffine(Multiples(B, a), Multiples(B, b))
  BY BaseIs, MultiplesAdd
<1>5. (a + b) % L = (m + n) % L
  <2>1. ((m % L) + (n % L)) % L = (m + n) % L
    BY SameRemainderWholeTurns
  <2> QED
    BY <1>1, <2>1, Zenon
<1>6. G(m + n) = G(a + b)
  BY <1>5, Zenon DEF G
<1> QED
  BY <1>2, <1>3, <1>4, <1>6

LEMMA GOfNone == G(0) = Origin
<1>1. 0 \in Nat
  OBVIOUS
<1> QED
  BY <1>1, GOfNat, BaseIs, MultiplesIs

LEMMA NegIs == ASSUME NEW a \in Curve PROVE NegOf(a) \in Curve /\ AddAffine(a, NegOf(a)) = Origin
<1>1. PICK x, y, d \in Int : /\ x = a.x /\ y = a.y /\ d = D
                             /\ Same(y * y - x * x, 1 + d * ((x * x) * (y * y)))
  BY PointIs, ConstantsAre
<1>2. a.x \in Residues /\ a.y \in Residues
  BY PointIs
<1>3. PICK u \in Residues : u = FeNeg(a.x) /\ u \in Int /\ Same(u, -x)
  <2>1. Is(a.x, x)
    BY <1>1, <1>2, IsItself
  <2>2. Is(FeNeg(a.x), -x)
    BY <2>1, OpsAre
  <2> QED
    BY <2>2, ResidueIsInt DEF Is
<1>4. NegOf(a) = Affine(u, a.y) /\ NegOf(a).x = u /\ NegOf(a).y = a.y
  BY <1>3, AffineIs DEF NegOf
<1>5. PICK xx, uu, yy, xy, uy, yx, ux \in Int : /\ xx = x * x /\ uu = u * u /\ yy = y * y /\ xy = x * y
                                /\ uy = u * y /\ ux = u * x
  BY <1>3
<1>6. Same(uu, xx) /\ Same(uy, -xy) /\ Same(ux, -xx)
  <2>1. (-x) * (-x) = xx /\ (-x) * y = -xy /\ (-x) * x = -xx /\ -x \in Int
    BY <1>5
  <2>2. Same(y, y) /\ Same(x, x)
    BY SameItself
  <2>3. Same(u * u, (-x) * (-x)) /\ Same(u * y, (-x) * y) /\ Same(u * x, (-x) * x)
    BY <1>3, <2>1, <2>2, SameProduct
  <2> QED
    BY <1>5, <2>1, <2>3
<1>7. NegOf(a) \in Curve
  <2>1. PICK m, n \in Int : m = d * (xx * yy) /\ n = d * (uu * yy)
    BY <1>5
  <2>2. Same(uu * yy, xx * yy)
    BY <1>5, <1>6, SameItself, SameProduct
  <2>3. Same(n, m)
    <3>1. uu * yy \in Int /\ xx * yy \in Int /\ Same(d, d)
      BY SameItself
    <3> QED
      BY <2>1, <2>2, <3>1, SameProduct
  <2>4. Same(1 + n, 1 + m) /\ Same(yy - uu, yy - xx) /\ Same(yy - xx, 1 + m)
        /\ 1 + n \in Int /\ 1 + m \in Int /\ yy - uu \in Int /\ yy - xx \in Int
    <3>1. Same(1, 1) /\ Same(yy, yy) /\ 1 \in Int
      BY SameItself
    <3>2. Same(1 + n, 1 + m) /\ Same(yy - uu, yy - xx)
      BY <1>6, <2>3, <3>1, SamePlus
    <3>3. Same(yy - xx, 1 + m)
      BY <1>1, <1>5, <2>1
    <3> QED
      BY <3>2, <3>3
  <2>5. Same(yy - uu, 1 + n)
    BY <2>4, SameThrough, SameBack
  <2>6. Same(a.y * a.y - u * u, 1 + D * ((u * u) * (a.y * a.y)))
    BY <1>1, <1>5, <2>1, <2>5
  <2> QED
    BY <1>2, <1>4, <2>6, OnCurveIs
<1>8. AddAffine(a, NegOf(a)) = Origin
  <2>1. PICK k \in Int : k = d * ((x * y) * (u * y))
    BY <1>3
  <2>2. k = D * ((a.x * NegOf(a).y) * (NegOf(a).x * a.y))
    BY <1>1, <1>4, <2>1
  <2>3. Same(Origin.x * (1 + k), a.x * NegOf(a).y + NegOf(a).x * a.y)
    <3>1. Same(xy + uy, xy + (-xy)) /\ xy + (-xy) = 0 /\ xy + uy \in Int
      BY <1>6, SameItself, SamePlus
    <3>2. Same(0, xy + uy)
      BY <3>1, SameBack
    <3>3. Origin.x * (1 + k) = 0
      BY <2>1, OriginIs
    <3>4. a.x * NegOf(a).y + NegOf(a).x * a.y = xy + uy
      BY <1>1, <1>4, <1>5
    <3> QED
      BY <3>2, <3>3, <3>4
  <2>4. Same(Origin.y * (1 - k), a.y * NegOf(a).y + a.x * NegOf(a).x)
    <3>1. PICK m \in Int : m = d * (xx * yy)
      BY <1>5
    <3>2. Same(yy - xx, 1 + m)
      BY <1>1, <1>5, <3>1
    <3>3. Same(k, -m)
      <4>1. (x * y) * (u * y) = xy * uy /\ xy * (-xy) = -(xx * yy)
        BY <1>3, <1>5
      <4>2. Same(xy * uy, xy * (-xy))
        <5>1. -xy \in Int /\ Same(xy, xy) /\ Same(uy, -xy)
          BY <1>6, SameItself
        <5> QED
          BY <5>1, SameProduct
      <4>3. PICK p, q \in Int : p = xy * uy /\ q = xx * yy
        OBVIOUS
      <4>4. Same(p, -q) /\ k = d * p /\ -m = d * (-q) /\ -q \in Int /\ Same(d, d)
        BY <2>1, <3>1, <4>1, <4>2, <4>3, SameItself
      <4>5. Same(d * p, d * (-q))
        BY <4>4, SameProduct
      <4> QED
        BY <4>4, <4>5
    <3>4. Same(1 - k, 1 - (-m)) /\ 1 - (-m) = 1 + m
      <4>1. Same(1, 1) /\ 1 \in Int /\ -m \in Int
        BY SameItself
      <4> QED
        BY <3>3, <4>1, SamePlus
    <3>5. Same(yy + ux, yy + (-xx)) /\ yy + (-xx) = yy - xx
      <4>1. Same(yy, yy)
        BY SameItself
      <4> QED
        BY <1>6, <4>1, SamePlus
    <3>6. Same(1 - k, yy + ux)
      <4>1. 1 - k \in Int /\ 1 + m \in Int /\ yy - xx \in Int /\ yy + ux \in Int
        OBVIOUS
      <4>2. Same(1 - k, 1 + m) /\ Same(1 + m, yy - xx) /\ Same(yy - xx, yy + ux)
        BY <3>2, <3>4, <3>5, <4>1, SameBack
      <4> QED
        BY <4>1, <4>2, SameThrough
    <3>7. Origin.y * (1 - k) = 1 - k
      BY <2>1, OriginIs
    <3>8. a.y * NegOf(a).y + a.x * NegOf(a).x = yy + ux
      BY <1>1, <1>3, <1>4, <1>5
    <3> QED
      BY <3>6, <3>7, <3>8
  <2> QED
    BY <1>7, <2>2, <2>3, <2>4, OriginIs, SumUnique
<1> QED
  BY <1>7, <1>8

LEMMA GOfNeg == ASSUME NEW n \in Int PROVE G(-n) = NegOf(G(n))
<1>1. PICK p, q, r \in Curve : p = G(n) /\ q = G(-n) /\ r = NegOf(p)
  <2>1. -n \in Int
    OBVIOUS
  <2> QED
    BY <2>1, GIsPoint, NegIs
<1>2. AddAffine(p, q) = Origin
  <2>1. -n \in Int /\ n + (-n) = 0
    OBVIOUS
  <2> QED
    BY <1>1, <2>1, GAdds, GOfNone
<1>3. AddAffine(r, p) = Origin
  BY <1>1, NegIs, AddCommutes
<1>4. AddAffine(AddAffine(r, p), q) = AddAffine(r, AddAffine(p, q))
  BY AddAssoc
<1>5. AddAffine(Origin, q) = q /\ AddAffine(r, Origin) = r
  BY OriginIs, AddNothing, AddCommutes
<1> QED
  BY <1>1, <1>2, <1>3, <1>4, <1>5

-----------------------------------------------------------------------------
(* The powers of 2. *)
Half == Digits \div 2

LEMMA DigitsAre ==
    /\ Half \in Nat /\ Half > 0 /\ Digits = 2 * Half /\ ScalarBits = 8 * Half
    /\ ScalarBits \in Nat /\ ScalarBits >= 8
<1>1. PICK n \in Nat : n = Digits /\ n > 0 /\ n % 2 = 0
  BY ConstantsAre
<1>2. 2 \in Nat /\ 2 > 0 /\ n \in Int
  OBVIOUS
<1>3. n \div 2 \in Int /\ n = 2 * (n \div 2) + (n % 2)
  BY <1>2, RemainderIs
<1>4. PICK h \in Int : h = n \div 2
  BY <1>3
<1>5. n = 2 * h /\ h > 0
  BY <1>1, <1>3, <1>4
<1>6. Half = h
  BY <1>1, <1>4 DEF Half
<1> QED
  BY <1>1, <1>5, <1>6 DEF ScalarBits

TwoRounds(n) == Rounds(LAMBDA x, i : 2 * x, 1, n)
TwoStep == [s \in (Nat \ {0}) \X Nat |-> 2 * s[1]]

LEMMA TwoIsRun ==
    ASSUME NEW n \in Nat
    PROVE  TwoRounds(n) = Run(TwoStep, 1, n)
<1> DEFINE T == Nat \ {0}
           h == TwoStep
           z == 1
           g == Runs(h, z, n)
           Body(A) == [k \in 0..n |-> IF k = 0 THEN z ELSE 2 * A[k - 1]]
           F == CHOOSE A : A = Body(A)
<1>1. TwoRounds(n) = F[n]
  BY DEF TwoRounds, Rounds
<1>2. n \in Nat /\ z \in T /\ h \in [T \X Nat -> T]
  <2>1. \A s \in (Nat \ {0}) \X Nat : 2 * s[1] \in Nat \ {0}
    OBVIOUS
  <2> QED
    BY <2>1 DEF TwoStep
<1>3. \A x \in T, j \in 1..n : h[<<x, j - 1>>] = 2 * x
  BY DEF TwoStep
<1> HIDE DEF T, h, z
<1>4. IsRun(g, h, T, z, n)
  BY <1>2, RunsIs
<1> HIDE DEF g
<1>5. g \in [0..n -> T] /\ g[0] = z /\ \A j \in 1..n : g[j] = h[<<g[j - 1], j - 1>>]
  BY <1>4 DEF IsRun
<1>6. g = Body(g)
  <2>1. ASSUME NEW j \in 0..n PROVE g[j] = IF j = 0 THEN z ELSE 2 * g[j - 1]
    <3>1. j # 0 => j \in 1..n /\ g[j - 1] \in T
      BY <1>2, <1>5
    <3> QED
      BY <1>3, <1>5, <3>1
  <2>2. DOMAIN g = 0..n /\ g = [j \in DOMAIN g |-> g[j]]
    BY <1>5
  <2> QED
    BY <2>1, <2>2
<1>7. F = Body(F)
  <2> HIDE DEF Body
  <2> QED
    BY <1>6
<1> HIDE DEF F
<1>8. \A j \in 0..n : F[j] = IF j = 0 THEN z ELSE 2 * F[j - 1]
  BY <1>7
<1>9. Obeys(F, h, T, z, n)
  <2>1. 0 \in 0..n /\ \A j \in 1..n : j \in 0..n /\ j # 0
    BY <1>2
  <2>2. F[0] = z
    BY <1>8, <2>1
  <2>3. ASSUME NEW j \in 1..n, F[j - 1] \in T PROVE F[j] = h[<<F[j - 1], j - 1>>]
    <3>1. F[j] = 2 * F[j - 1]
      BY <1>8, <2>1
    <3> QED
      BY <1>3, <2>3, <3>1
  <2> QED
    BY <2>2, <2>3 DEF Obeys
<1>10. Agree(F, Runs(h, z, n), T, n)
  <2>1. n \in Nat /\ z \in T /\ IsStep(h, T)
    BY <1>2 DEF IsStep
  <2> QED
    BY <1>9, <2>1, RunSame
<1>11. F[n] = g[n]
  BY <1>2, <1>10 DEF Agree, g
<1> QED
  BY <1>1, <1>11 DEF Run, g, h, z

LEMMA TwoIs ==
    /\ Two[0] = 1
    /\ \A n \in 0..ScalarBits : Two[n] \in Nat /\ Two[n] > 0
    /\ \A n \in 0..ScalarBits - 1 : Two[n + 1] = 2 * Two[n]
<1> DEFINE T == Nat \ {0}
<1>1. ASSUME NEW n \in Nat
      PROVE  /\ TwoRounds(0) = 1 /\ TwoRounds(n) \in Nat /\ TwoRounds(n) > 0
             /\ TwoRounds(n + 1) = 2 * TwoRounds(n)
  <2>1. IsStep(TwoStep, T)
    <3>1. \A s \in T \X Nat : 2 * s[1] \in T
      OBVIOUS
    <3> QED
      BY <3>1 DEF TwoStep, IsStep
  <2>2. TwoRounds(0) = Run(TwoStep, 1, 0) /\ TwoRounds(n) = Run(TwoStep, 1, n)
        /\ TwoRounds(n + 1) = Run(TwoStep, 1, n + 1)
    BY TwoIsRun
  <2>3. 1 \in T
    OBVIOUS
  <2>4. \A x \in T, k \in Nat : TwoStep[<<x, k>>] = 2 * x
    BY DEF TwoStep
  <2> HIDE DEF T
  <2>5. Turns(TwoStep, 1, n, T)
    BY <2>1, <2>3, RunIs
  <2>6. TwoRounds(n) \in T /\ TwoRounds(n + 1) = 2 * TwoRounds(n) /\ TwoRounds(0) = 1
    BY <2>2, <2>4, <2>5 DEF Turns
  <2> QED
    BY <2>6 DEF T
<1>2. \A n \in 0..ScalarBits : Two[n] = TwoRounds(n) /\ n \in Nat
  <2>1. \A n \in 0..ScalarBits : n \in Nat
    BY DigitsAre
  <2>2. Two = [n \in 0..ScalarBits |-> TwoRounds(n)]
    BY Zenon DEF Two, TwoRounds
  <2> QED
    BY <2>1, <2>2
<1>3. 0 \in 0..ScalarBits /\ \A n \in 0..ScalarBits - 1 : n \in 0..ScalarBits /\ n + 1 \in 0..ScalarBits
  BY DigitsAre
<1> QED
  BY <1>1, <1>2, <1>3

LEMMA EightTwos ==
    ASSUME NEW n \in Nat, n + 8 <= ScalarBits
    PROVE  Two[n + 4] = 16 * Two[n] /\ Two[n + 8] = 256 * Two[n] /\ Two[n] \in Nat /\ Two[n] > 0
<1>1. PICK m \in Nat : m = ScalarBits
  BY DigitsAre
<1>2. \A k \in {0, 1, 2, 3, 4, 5, 6, 7} : n + k \in 0..m - 1 /\ (n + k) + 1 = n + (k + 1)
  BY <1>1
<1>3. \A k \in {0, 1, 2, 3, 4, 5, 6, 7} : Two[n + (k + 1)] = 2 * Two[n + k]
  BY <1>1, <1>2, TwoIs
<1>4. n + 0 = n /\ n \in 0..m
  BY <1>1
<1>5. Two[n] \in Nat /\ Two[n] > 0
  BY <1>1, <1>4, TwoIs
<1>6. PICK t \in Nat : t = Two[n]
  BY <1>5
<1>7. Two[n + 1] = 2 * t
  BY <1>3, <1>4, <1>6
<1>8. Two[n + 2] = 4 * t
  BY <1>3, <1>7
<1>9. Two[n + 3] = 8 * t
  BY <1>3, <1>8
<1>10. Two[n + 4] = 16 * t
  BY <1>3, <1>9
<1>11. Two[n + 5] = 32 * t
  BY <1>3, <1>10
<1>12. Two[n + 6] = 64 * t
  BY <1>3, <1>11
<1>13. Two[n + 7] = 128 * t
  BY <1>3, <1>12
<1>14. Two[n + 8] = 256 * t
  BY <1>3, <1>13
<1> QED
  BY <1>5, <1>6, <1>10, <1>14

-----------------------------------------------------------------------------
(* The tables. *)
LEMMA GDoubles == ASSUME NEW n \in Int PROVE AddAffine(G(n), G(n)) = G(2 * n)
<1>1. n + n = 2 * n
  OBVIOUS
<1> QED
  BY <1>1, GAdds

LEMMA GOfOne == B = G(1)
<1>1. 0 \in Nat /\ 0 + 1 = 1 /\ 1 \in Nat
  OBVIOUS
<1>2. Multiples(B, 1) = AddAffine(Multiples(B, 0), B) /\ Multiples(B, 0) = Origin
  BY <1>1, BaseIs, MultiplesIs
<1>3. AddAffine(Origin, B) = B
  BY BaseIs, OriginIs, AddCommutes, AddNothing
<1> QED
  BY <1>1, <1>2, <1>3, GOfNat

DoubleStep == [s \in Curve \X Nat |-> AddAffine(s[1], s[1])]

(* Eight doublings multiply by 256, and row pos of the table of            *)
(* precomp_data.h starts at the base point times 256^pos.                  *)
LEMMA ShiftIsRun ==
    ASSUME NEW p \in Curve
    PROVE  Shift8(p) = Run(DoubleStep, p, 8)
<1> DEFINE T == Curve
           h == DoubleStep
           z == p
           g == Runs(h, z, 8)
           Body(A) == [k \in 0..8 |-> IF k = 0 THEN z ELSE AddAffine(A[k - 1], A[k - 1])]
           F == CHOOSE A : A = Body(A)
<1>1. Shift8(p) = F[8]
  BY DEF Shift8, Rounds
<1>2. 8 \in Nat /\ z \in T /\ h \in [T \X Nat -> T]
  <2>1. \A s \in Curve \X Nat : AddAffine(s[1], s[1]) \in Curve
    BY AddAssoc
  <2> QED
    BY <2>1 DEF DoubleStep
<1>3. \A x \in T, j \in 1..8 : h[<<x, j - 1>>] = AddAffine(x, x)
  BY DEF DoubleStep
<1> HIDE DEF T, h, z
<1>4. IsRun(g, h, T, z, 8)
  BY <1>2, RunsIs
<1> HIDE DEF g
<1>5. g \in [0..8 -> T] /\ g[0] = z /\ \A j \in 1..8 : g[j] = h[<<g[j - 1], j - 1>>]
  BY <1>4 DEF IsRun
<1>6. g = Body(g)
  <2>1. ASSUME NEW j \in 0..8 PROVE g[j] = IF j = 0 THEN z ELSE AddAffine(g[j - 1], g[j - 1])
    <3>1. j # 0 => j \in 1..8 /\ g[j - 1] \in T
      BY <1>2, <1>5
    <3> QED
      BY <1>3, <1>5, <3>1
  <2>2. DOMAIN g = 0..8 /\ g = [j \in DOMAIN g |-> g[j]]
    BY <1>5
  <2> QED
    BY <2>1, <2>2
<1>7. F = Body(F)
  <2> HIDE DEF Body
  <2> QED
    BY <1>6
<1> HIDE DEF F
<1>8. \A j \in 0..8 : F[j] = IF j = 0 THEN z ELSE AddAffine(F[j - 1], F[j - 1])
  BY <1>7
<1>9. Obeys(F, h, T, z, 8)
  <2>1. 0 \in 0..8 /\ \A j \in 1..8 : j \in 0..8 /\ j # 0
    BY <1>2
  <2>2. F[0] = z
    BY <1>8, <2>1
  <2>3. ASSUME NEW j \in 1..8, F[j - 1] \in T PROVE F[j] = h[<<F[j - 1], j - 1>>]
    <3>1. F[j] = AddAffine(F[j - 1], F[j - 1])
      BY <1>8, <2>1
    <3> QED
      BY <1>3, <2>3, <3>1
  <2> QED
    BY <2>2, <2>3 DEF Obeys
<1>10. Agree(F, Runs(h, z, 8), T, 8)
  <2>1. 8 \in Nat /\ z \in T /\ IsStep(h, T)
    BY <1>2 DEF IsStep
  <2> QED
    BY <1>9, <2>1, RunSame
<1>11. F[8] = g[8]
  BY <1>2, <1>10 DEF Agree, g
<1> QED
  BY <1>1, <1>11 DEF Run, g, h, z

LEMMA DoubleTurns ==
    ASSUME NEW p \in Curve, NEW n \in Nat
    PROVE  /\ Run(DoubleStep, p, 0) = p /\ Run(DoubleStep, p, n) \in Curve
           /\ Run(DoubleStep, p, n + 1) = AddAffine(Run(DoubleStep, p, n), Run(DoubleStep, p, n))
<1>1. IsStep(DoubleStep, Curve)
  <2>1. \A s \in Curve \X Nat : AddAffine(s[1], s[1]) \in Curve
    BY AddAssoc
  <2> QED
    BY <2>1 DEF DoubleStep, IsStep
<1>2. \A x \in Curve, k \in Nat : DoubleStep[<<x, k>>] = AddAffine(x, x)
  BY DEF DoubleStep
<1>3. Turns(DoubleStep, p, n, Curve)
  BY <1>1, RunIs
<1> QED
  BY <1>2, <1>3 DEF Turns

LEMMA ShiftIsPoint == ASSUME NEW p \in Curve PROVE Shift8(p) \in Curve
BY ShiftIsRun, DoubleTurns

LEMMA ShiftIs == ASSUME NEW n \in Int PROVE Shift8(G(n)) = G(256 * n)
<1>1. PICK p \in Curve : p = G(n)
  BY GIsPoint
<1> DEFINE r(k) == Run(DoubleStep, p, k)
<1>2. \A k \in {0, 1, 2, 3, 4, 5, 6, 7} : r(k + 1) = AddAffine(r(k), r(k)) /\ r(0) = p
  BY DoubleTurns
<1> HIDE DEF r
<1>3. r(1) = G(2 * n)
  BY <1>1, <1>2, GDoubles
<1>4. r(2) = G(4 * n)
  <2>1. 2 * n \in Int /\ 2 * (2 * n) = 4 * n
    OBVIOUS
  <2> QED
    BY <1>2, <1>3, <2>1, GDoubles
<1>5. r(3) = G(8 * n)
  <2>1. 4 * n \in Int /\ 2 * (4 * n) = 8 * n
    OBVIOUS
  <2> QED
    BY <1>2, <1>4, <2>1, GDoubles
<1>6. r(4) = G(16 * n)
  <2>1. 8 * n \in Int /\ 2 * (8 * n) = 16 * n
    OBVIOUS
  <2> QED
    BY <1>2, <1>5, <2>1, GDoubles
<1>7. r(5) = G(32 * n)
  <2>1. 16 * n \in Int /\ 2 * (16 * n) = 32 * n
    OBVIOUS
  <2> QED
    BY <1>2, <1>6, <2>1, GDoubles
<1>8. r(6) = G(64 * n)
  <2>1. 32 * n \in Int /\ 2 * (32 * n) = 64 * n
    OBVIOUS
  <2> QED
    BY <1>2, <1>7, <2>1, GDoubles
<1>9. r(7) = G(128 * n)
  <2>1. 64 * n \in Int /\ 2 * (64 * n) = 128 * n
    OBVIOUS
  <2> QED
    BY <1>2, <1>8, <2>1, GDoubles
<1>10. r(8) = G(256 * n)
  <2>1. 128 * n \in Int /\ 2 * (128 * n) = 256 * n
    OBVIOUS
  <2> QED
    BY <1>2, <1>9, <2>1, GDoubles
<1> QED
  BY <1>1, <1>10, ShiftIsRun DEF r

Row(n) == Rounds(LAMBDA q, i : Shift8(q), B, n)
RowStep == [s \in Curve \X Nat |-> Shift8(s[1])]

LEMMA RowIsRun ==
    ASSUME NEW n \in Nat
    PROVE  Row(n) = Run(RowStep, B, n)
<1> DEFINE T == Curve
           h == RowStep
           z == B
           g == Runs(h, z, n)
           Body(A) == [k \in 0..n |-> IF k = 0 THEN z ELSE Shift8(A[k - 1])]
           F == CHOOSE A : A = Body(A)
<1>1. Row(n) = F[n]
  BY DEF Row, Rounds
<1>2. n \in Nat /\ z \in T /\ h \in [T \X Nat -> T]
  <2>1. \A s \in Curve \X Nat : Shift8(s[1]) \in Curve
    BY ShiftIsPoint
  <2> QED
    BY <2>1, BaseIs DEF RowStep
<1>3. \A x \in T, j \in 1..n : h[<<x, j - 1>>] = Shift8(x)
  BY DEF RowStep
<1> HIDE DEF T, h, z
<1>4. IsRun(g, h, T, z, n)
  BY <1>2, RunsIs
<1> HIDE DEF g
<1>5. g \in [0..n -> T] /\ g[0] = z /\ \A j \in 1..n : g[j] = h[<<g[j - 1], j - 1>>]
  BY <1>4 DEF IsRun
<1>6. g = Body(g)
  <2>1. ASSUME NEW j \in 0..n PROVE g[j] = IF j = 0 THEN z ELSE Shift8(g[j - 1])
    <3>1. j # 0 => j \in 1..n /\ g[j - 1] \in T
      BY <1>2, <1>5
    <3> QED
      BY <1>3, <1>5, <3>1
  <2>2. DOMAIN g = 0..n /\ g = [j \in DOMAIN g |-> g[j]]
    BY <1>5
  <2> QED
    BY <2>1, <2>2
<1>7. F = Body(F)
  <2> HIDE DEF Body
  <2> QED
    BY <1>6
<1> HIDE DEF F
<1>8. \A j \in 0..n : F[j] = IF j = 0 THEN z ELSE Shift8(F[j - 1])
  BY <1>7
<1>9. Obeys(F, h, T, z, n)
  <2>1. 0 \in 0..n /\ \A j \in 1..n : j \in 0..n /\ j # 0
    BY <1>2
  <2>2. F[0] = z
    BY <1>8, <2>1
  <2>3. ASSUME NEW j \in 1..n, F[j - 1] \in T PROVE F[j] = h[<<F[j - 1], j - 1>>]
    <3>1. F[j] = Shift8(F[j - 1])
      BY <1>8, <2>1
    <3> QED
      BY <1>3, <2>3, <3>1
  <2> QED
    BY <2>2, <2>3 DEF Obeys
<1>10. Agree(F, Runs(h, z, n), T, n)
  <2>1. n \in Nat /\ z \in T /\ IsStep(h, T)
    BY <1>2 DEF IsStep
  <2> QED
    BY <1>9, <2>1, RunSame
<1>11. F[n] = g[n]
  BY <1>2, <1>10 DEF Agree, g
<1> QED
  BY <1>1, <1>11 DEF Run, g, h, z

LEMMA RowIs == \A n \in 0..Half - 1 : Row(n) = G(Two[8 * n])
<1> DEFINE A == {n \in Nat : n < Half => Row(n) = G(Two[8 * n])}
<1>0. IsStep(RowStep, Curve)
  <2>1. \A s \in Curve \X Nat : Shift8(s[1]) \in Curve
    BY ShiftIsPoint
  <2> QED
    BY <2>1 DEF RowStep, IsStep
<1>1. \A x \in Curve, k \in Nat : RowStep[<<x, k>>] = Shift8(x)
  BY DEF RowStep
<1>2. ASSUME NEW n \in Nat PROVE Row(0) = B /\ Row(n + 1) = Shift8(Row(n))
  <2>1. Turns(RowStep, B, n, Curve)
    BY <1>0, BaseIs, RunIs
  <2>2. Row(0) = Run(RowStep, B, 0) /\ Row(n) = Run(RowStep, B, n) /\ Row(n + 1) = Run(RowStep, B, n + 1)
    BY RowIsRun
  <2> QED
    BY <1>1, <2>1, <2>2 DEF Turns
<1>3. 0 \in A
  <2>1. Two[8 * 0] = 1
    BY TwoIs
  <2> QED
    BY <1>2, <2>1, GOfOne
<1>4. ASSUME NEW n \in Nat, n \in A PROVE n + 1 \in A
  <2>1. SUFFICES ASSUME n + 1 < Half PROVE Row(n + 1) = G(Two[8 * (n + 1)])
    OBVIOUS
  <2>2. PICK m \in Nat : m = 8 * n /\ m + 8 <= ScalarBits /\ 8 * (n + 1) = m + 8 /\ n < Half
    BY <2>1, DigitsAre
  <2>3. Two[m + 8] = 256 * Two[m] /\ Two[m] \in Nat
    BY <2>2, EightTwos
  <2>4. Row(n) = G(Two[m])
    BY <1>4, <2>2
  <2>5. Row(n + 1) = G(256 * Two[m])
    <3>1. PICK t \in Int : t = Two[m]
      BY <2>3
    <3> QED
      BY <1>2, <2>4, <3>1, ShiftIs
  <2> QED
    BY <2>2, <2>3, <2>5
<1> HIDE DEF A
<1>5. \A n \in Nat : n \in A
  BY <1>3, <1>4, SetInduction
<1>6. \A n \in 0..Half - 1 : n \in Nat /\ n < Half
  BY DigitsAre
<1> QED
  BY <1>5, <1>6 DEF A

(* An entry of the table is the multiple that its place says, and select   *)
(* finds the one of a digit, negated when the digit is.                    *)
LEMMA BaseTableIs ==
    ASSUME NEW pos \in 0..Half - 1, NEW j \in 1..8
    PROVE  base[pos][j] = Precomp(G(Two[8 * pos] * j))
<1>1. base[pos][j] = Precomp(Multiples(Row(pos), j))
  BY DEF base, Row, Half
<1>2. PICK t \in Nat : t = Two[8 * pos] /\ Row(pos) = G(t)
  <2>1. 8 * pos \in 0..ScalarBits
    BY DigitsAre
  <2> QED
    BY <2>1, TwoIs, RowIs
<1>3. Row(pos) = Multiples(B, t)
  BY <1>2, GOfNat
<1>4. Multiples(Row(pos), j) = Multiples(B, t * j) /\ t * j \in Nat
  <2>1. j \in Nat
    OBVIOUS
  <2> QED
    BY <1>3, <2>1, BaseIs, MultiplesTimes
<1> QED
  BY <1>1, <1>2, <1>4, GOfNat

-----------------------------------------------------------------------------
(* Negation swaps the two sums of a table entry. *)
LEMMA PrecompOfNeg ==
    ASSUME NEW a \in Curve
    PROVE  /\ Precomp(NegOf(a)).yplusx = Precomp(a).yminusx
           /\ Precomp(NegOf(a)).yminusx = Precomp(a).yplusx
           /\ Precomp(NegOf(a)).xy2d = FeNeg(Precomp(a).xy2d)
<1>1. PICK c \in Curve : c = NegOf(a)
  BY NegIs
<1>2. /\ Is(Precomp(a).yplusx, a.y + a.x) /\ Is(Precomp(a).yminusx, a.y - a.x)
      /\ Is(Precomp(a).xy2d, 2 * (D * (a.x * a.y)))
  BY PrecompIs
<1>3. /\ Is(Precomp(c).yplusx, c.y + c.x) /\ Is(Precomp(c).yminusx, c.y - c.x)
      /\ Is(Precomp(c).xy2d, 2 * (D * (c.x * c.y)))
  BY PrecompIs
<1>4. PICK x, y, u, d \in Int : x = a.x /\ y = a.y /\ u = c.x /\ c.y = y /\ d = D /\ Same(u, -x)
  <2>1. c.x = FeNeg(a.x) /\ c.y = a.y
    BY <1>1, AffineIs DEF NegOf
  <2>2. Is(FeNeg(a.x), -a.x)
    BY PointIs, IsItself, OpsAre
  <2> QED
    BY <2>1, <2>2, PointIs, ConstantsAre DEF Is
<1>5. Same(y + u, y - x) /\ Same(y - u, y + x) /\ y + u \in Int /\ y - u \in Int /\ y + x \in Int /\ y - x \in Int
  <2>1. Same(y, y) /\ -x \in Int /\ y + (-x) = y - x /\ y - (-x) = y + x
    BY SameItself
  <2>2. Same(y + u, y + (-x)) /\ Same(y - u, y - (-x))
    BY <1>4, <2>1, SamePlus
  <2> QED
    BY <2>1, <2>2
<1>6. PICK p, q \in Int : p = 2 * (d * (x * y)) /\ q = 2 * (d * (u * y)) /\ Same(q, -p)
  <2>1. Same(y, y) /\ Same(d, d) /\ Same(2, 2) /\ 2 \in Int
    BY SameItself
  <2>2. PICK m, n \in Int : m = x * y /\ n = u * y
    OBVIOUS
  <2>3. Same(n, -m) /\ -m \in Int
    <3>1. (-x) * y = -m /\ -x \in Int
      BY <2>2
    <3>2. Same(u * y, (-x) * y)
      BY <1>4, <2>1, <3>1, SameProduct
    <3> QED
      BY <2>2, <3>1, <3>2
  <2>4. Same(d * n, d * (-m)) /\ d * n \in Int /\ d * (-m) \in Int
    BY <2>1, <2>3, SameProduct
  <2>5. Same(2 * (d * n), 2 * (d * (-m)))
    BY <2>1, <2>4, SameProduct
  <2>6. 2 * (d * (-m)) = -(2 * (d * m)) /\ 2 * (d * m) \in Int /\ 2 * (d * n) \in Int
    OBVIOUS
  <2> QED
    BY <2>2, <2>5, <2>6
<1>7. Precomp(c).yplusx = Precomp(a).yminusx
  <2>1. Is(Precomp(c).yplusx, y + u) /\ Is(Precomp(a).yminusx, y - x)
    BY <1>2, <1>3, <1>4
  <2> QED
    BY <1>5, <2>1, IsEqual
<1>8. Precomp(c).yminusx = Precomp(a).yplusx
  <2>1. Is(Precomp(c).yminusx, y - u) /\ Is(Precomp(a).yplusx, y + x)
    BY <1>2, <1>3, <1>4
  <2> QED
    BY <1>5, <2>1, IsEqual
<1>9. Precomp(c).xy2d = FeNeg(Precomp(a).xy2d)
  <2>1. Is(Precomp(c).xy2d, q) /\ Is(Precomp(a).xy2d, p)
    BY <1>2, <1>3, <1>4, <1>6
  <2>2. Is(FeNeg(Precomp(a).xy2d), -p)
    BY <2>1, OpsAre
  <2> QED
    BY <1>6, <2>1, <2>2, IsEqual
<1> QED
  BY <1>1, <1>7, <1>8, <1>9

LEMMA PrecompFields ==
    ASSUME NEW a
    PROVE  Precomp(a) = [yplusx |-> Precomp(a).yplusx, yminusx |-> Precomp(a).yminusx, xy2d |-> Precomp(a).xy2d]
BY DEF Precomp

LEMMA PrecompOfOrigin == Precomp(Origin) = [yplusx |-> 1, yminusx |-> 1, xy2d |-> 0]
<1>1. Is(Precomp(Origin).yplusx, 1) /\ Is(Precomp(Origin).yminusx, 1) /\ Is(Precomp(Origin).xy2d, 0)
  <2>1. 1 + 0 = 1 /\ 1 - 0 = 1 /\ 2 * (D * (0 * 1)) = 0
    BY ConstantsAre
  <2> QED
    BY <2>1, OriginIs, PrecompIs
<1>2. Is(1, 1) /\ Is(0, 0) /\ Same(1, 1) /\ Same(0, 0)
  BY SmallNumbers, IsItself, SameItself
<1>3. Precomp(Origin).yplusx = 1 /\ Precomp(Origin).yminusx = 1 /\ Precomp(Origin).xy2d = 0
  BY <1>1, <1>2, IsEqual
<1> QED
  BY <1>3, PrecompFields

LEMMA SelectIs ==
    ASSUME NEW pos \in 0..Half - 1, NEW b \in -8..8
    PROVE  Select(pos, b) = Precomp(G(Two[8 * pos] * b))
<1>0. PICK t \in Int : t = Two[8 * pos]
  <2>1. 8 * pos \in 0..ScalarBits
    BY DigitsAre
  <2> QED
    BY <2>1, TwoIs
<1>1. CASE b = 0
  <2>1. t * b = 0
    BY <1>1
  <2>2. Select(pos, b) = [yplusx |-> 1, yminusx |-> 1, xy2d |-> 0]
    BY <1>1 DEF Select
  <2> QED
    BY <1>0, <2>1, <2>2, GOfNone, PrecompOfOrigin
<1>2. CASE b > 0
  <2>1. b \in 1..8 /\ b # 0 /\ ~(b < 0)
    BY <1>2
  <2>2. Select(pos, b) = base[pos][b]
    BY <2>1 DEF Select
  <2> QED
    BY <2>1, <2>2, BaseTableIs
<1>3. CASE b < 0
  <2>1. -b \in 1..8 /\ b # 0
    BY <1>3
  <2>2. PICK q : q = Precomp(G(t * (-b)))
    OBVIOUS
  <2>3. base[pos][-b] = q
    BY <1>0, <2>1, <2>2, BaseTableIs
  <2>4. Select(pos, b) = [yplusx |-> q.yminusx, yminusx |-> q.yplusx, xy2d |-> FeNeg(q.xy2d)]
    BY <1>3, <2>1, <2>3 DEF Select
  <2>5. PICK n \in Int : n = t * (-b) /\ t * b = -n
    OBVIOUS
  <2>6. G(t * b) = NegOf(G(n)) /\ G(n) \in Curve
    BY <2>5, GOfNeg, GIsPoint
  <2>7. Precomp(G(t * b)) = [yplusx |-> q.yminusx, yminusx |-> q.yplusx, xy2d |-> FeNeg(q.xy2d)]
    <3>1. PICK c : c = NegOf(G(n)) /\ c = G(t * b)
      BY <2>6
    <3>2. Precomp(c).yplusx = q.yminusx /\ Precomp(c).yminusx = q.yplusx
          /\ Precomp(c).xy2d = FeNeg(q.xy2d)
      BY <2>2, <2>5, <2>6, <3>1, PrecompOfNeg
    <3> QED
      BY <3>1, <3>2, PrecompFields
  <2> QED
    BY <1>0, <2>4, <2>7
<1> QED
  BY <1>1, <1>2, <1>3

-----------------------------------------------------------------------------
(* What stands for a point, whichever. *)
Standing2 == {p \in P2s : \E a \in Curve : StandsP2(p, a)}
Standing3 == {p \in P3s : \E a \in Curve : StandsP3(p, a)}

LEMMA Standing2Is == ASSUME NEW p, NEW a, StandsP2(p, a) PROVE p \in Standing2
BY DEF Standing2, StandsP2

LEMMA Standing3Is == ASSUME NEW p, NEW a, StandsP3(p, a) PROVE p \in Standing3
BY DEF Standing3, StandsP3

LEMMA ZeroStands == StandsP3(P3Zero, Origin)
<1>1. /\ P3Zero \in P3s /\ P3Zero.X = 0 /\ P3Zero.Y = 1 /\ P3Zero.Z = 1 /\ P3Zero.T = 0
  BY SmallNumbers, P3Make DEF P3Zero
<1>2. /\ 0 = Origin.x * 1 /\ 1 = Origin.y * 1 /\ 0 = (Origin.x * Origin.y) * 1
  BY OriginIs
<1>3. Same(0, 0) /\ Same(1, 1)
  BY SameItself
<1> QED
  BY <1>1, <1>2, <1>3, OriginIs, NumbersDiffer DEF StandsP3

(* Adding a multiple of B from the table. *)
LEMMA SelectedAdds ==
    ASSUME NEW p, NEW n \in Int, StandsP3(p, G(n)), NEW pos \in 0..Half - 1, NEW b \in -8..8
    PROVE  StandsP3(P1P1ToP3(GeMadd(p, Select(pos, b))), G(n + Two[8 * pos] * b))
<1>1. PICK m \in Int : m = Two[8 * pos] * b
  <2>1. 8 * pos \in 0..ScalarBits
    BY DigitsAre
  <2>2. PICK t \in Int : t = Two[8 * pos]
    BY <2>1, TwoIs
  <2> QED
    BY <2>2
<1>2. Select(pos, b) = Precomp(G(m)) /\ G(m) \in Curve
  BY <1>1, SelectIs, GIsPoint
<1>3. StandsP1P1(GeMadd(p, Precomp(G(m))), AddAffine(G(n), G(m)))
  BY <1>2, MaddIs
<1> QED
  BY <1>1, <1>2, <1>3, GAdds, FromP1P1Is

LEMMA SelectedStands ==
    ASSUME NEW p \in Standing3, NEW pos \in 0..Half - 1, NEW b \in -8..8
    PROVE  P1P1ToP3(GeMadd(p, Select(pos, b))) \in Standing3
<1>1. PICK a \in Curve : StandsP3(p, a)
  BY DEF Standing3
<1>2. PICK m \in Int : m = Two[8 * pos] * b
  <2>1. 8 * pos \in 0..ScalarBits
    BY DigitsAre
  <2>2. PICK t \in Int : t = Two[8 * pos]
    BY <2>1, TwoIs
  <2> QED
    BY <2>2
<1>3. Select(pos, b) = Precomp(G(m)) /\ G(m) \in Curve
  BY <1>2, SelectIs, GIsPoint
<1>4. StandsP1P1(GeMadd(p, Precomp(G(m))), AddAffine(a, G(m)))
  BY <1>1, <1>3, MaddIs
<1>5. StandsP3(P1P1ToP3(GeMadd(p, Select(pos, b))), AddAffine(a, G(m)))
  BY <1>3, <1>4, FromP1P1Is
<1> QED
  BY <1>5, Standing3Is

AreDigits(e, from) == \A i \in 0..Half - 1 : e[2 * i + from] \in -8..8
AddStep(e, from) ==
    [s \in Standing3 \X Nat |->
        IF s[2] < Half THEN P1P1ToP3(GeMadd(s[1], Select(s[2], e[2 * s[2] + from]))) ELSE s[1]]

LEMMA AddStepIs ==
    ASSUME NEW e, NEW from, AreDigits(e, from)
    PROVE  IsStep(AddStep(e, from), Standing3)
<1>1. ASSUME NEW s \in Standing3 \X Nat
      PROVE  (IF s[2] < Half THEN P1P1ToP3(GeMadd(s[1], Select(s[2], e[2 * s[2] + from]))) ELSE s[1])
                  \in Standing3
  <2>1. PICK p \in Standing3, i \in Nat : s[1] = p /\ s[2] = i
    BY <1>1
  <2>2. CASE i < Half
    <3>1. i \in 0..Half - 1
      BY <2>2, DigitsAre
    <3>2. PICK b \in -8..8 : b = e[2 * i + from]
      BY <3>1 DEF AreDigits
    <3>3. P1P1ToP3(GeMadd(p, Select(i, b))) \in Standing3
      BY <3>1, SelectedStands
    <3> QED
      BY <2>1, <2>2, <3>2, <3>3
  <2>3. CASE ~(i < Half)
    BY <2>1, <2>3
  <2> QED
    BY <2>2, <2>3
<1> QED
  BY <1>1 DEF AddStep, IsStep

LEMMA AddDigitsIsRun ==
    ASSUME NEW h0 \in Standing3, NEW e, NEW from, AreDigits(e, from)
    PROVE  AddDigits(h0, e, from) = Run(AddStep(e, from), h0, Half)
<1> DEFINE T == Standing3
           h == AddStep(e, from)
           z == h0
           g == Runs(h, z, Half)
           Body(A) == [k \in 0..Half |-> IF k = 0 THEN z ELSE P1P1ToP3(GeMadd(A[k - 1], Select(k - 1, e[2 * (k - 1) + from])))]
           F == CHOOSE A : A = Body(A)
<1>1. AddDigits(h0, e, from) = F[Half]
  BY DEF AddDigits, Rounds, Half
<1>2. Half \in Nat /\ z \in T /\ h \in [T \X Nat -> T]
  BY DigitsAre, AddStepIs DEF IsStep
<1>3. \A x \in T, j \in 1..Half : h[<<x, j - 1>>] = P1P1ToP3(GeMadd(x, Select(j - 1, e[2 * (j - 1) + from])))
  <2>1. \A j \in 1..Half : j - 1 \in Nat /\ j - 1 < Half
    BY DigitsAre
  <2> QED
    BY <2>1 DEF AddStep
<1> HIDE DEF T, h, z
<1>4. IsRun(g, h, T, z, Half)
  BY <1>2, RunsIs
<1> HIDE DEF g
<1>5. g \in [0..Half -> T] /\ g[0] = z /\ \A j \in 1..Half : g[j] = h[<<g[j - 1], j - 1>>]
  BY <1>4 DEF IsRun
<1>6. g = Body(g)
  <2>1. ASSUME NEW j \in 0..Half PROVE g[j] = IF j = 0 THEN z ELSE P1P1ToP3(GeMadd(g[j - 1], Select(j - 1, e[2 * (j - 1) + from])))
    <3>1. j # 0 => j \in 1..Half /\ g[j - 1] \in T
      BY <1>2, <1>5
    <3> QED
      BY <1>3, <1>5, <3>1
  <2>2. DOMAIN g = 0..Half /\ g = [j \in DOMAIN g |-> g[j]]
    BY <1>5
  <2> QED
    BY <2>1, <2>2
<1>7. F = Body(F)
  <2> HIDE DEF Body
  <2> QED
    BY <1>6
<1> HIDE DEF F
<1>8. \A j \in 0..Half : F[j] = IF j = 0 THEN z ELSE P1P1ToP3(GeMadd(F[j - 1], Select(j - 1, e[2 * (j - 1) + from])))
  BY <1>7
<1>9. Obeys(F, h, T, z, Half)
  <2>1. 0 \in 0..Half /\ \A j \in 1..Half : j \in 0..Half /\ j # 0
    BY <1>2
  <2>2. F[0] = z
    BY <1>8, <2>1
  <2>3. ASSUME NEW j \in 1..Half, F[j - 1] \in T PROVE F[j] = h[<<F[j - 1], j - 1>>]
    <3>1. F[j] = P1P1ToP3(GeMadd(F[j - 1], Select(j - 1, e[2 * (j - 1) + from])))
      BY <1>8, <2>1
    <3> QED
      BY <1>3, <2>3, <3>1
  <2> QED
    BY <2>2, <2>3 DEF Obeys
<1>10. Agree(F, Runs(h, z, Half), T, Half)
  <2>1. Half \in Nat /\ z \in T /\ IsStep(h, T)
    BY <1>2 DEF IsStep
  <2> QED
    BY <1>9, <2>1, RunSame
<1>11. F[Half] = g[Half]
  BY <1>2, <1>10 DEF Agree, g
<1> QED
  BY <1>1, <1>11 DEF Run, g, h, z

(* The sums that the digits are the increments of. *)
IsPartial(w, z, e, from) ==
    /\ w \in [0..Half -> Int] /\ w[0] = z
    /\ \A i \in 0..Half - 1 : w[i + 1] = w[i] + Two[8 * i] * e[2 * i + from]

LEMMA PartialExists ==
    ASSUME NEW z \in Int, NEW e, NEW from, AreDigits(e, from)
    PROVE  \E w : IsPartial(w, z, e, from)
<1> DEFINE h == [s \in Int \X Nat |->
                    IF s[2] < Half THEN s[1] + Two[8 * s[2]] * e[2 * s[2] + from] ELSE 0]
<1>1. ASSUME NEW s \in Int \X Nat
      PROVE  (IF s[2] < Half THEN s[1] + Two[8 * s[2]] * e[2 * s[2] + from] ELSE 0) \in Int
  <2>1. PICK x \in Int, i \in Nat : s[1] = x /\ s[2] = i
    BY <1>1
  <2>2. CASE i < Half
    <3>1. i \in 0..Half - 1 /\ 8 * i \in 0..ScalarBits
      BY <2>2, DigitsAre
    <3>2. PICK b \in -8..8 : b = e[2 * i + from]
      BY <3>1 DEF AreDigits
    <3>3. PICK t \in Int : t = Two[8 * i]
      BY <3>1, TwoIs
    <3>4. x + t * b \in Int
      OBVIOUS
    <3> QED
      BY <2>1, <2>2, <3>2, <3>3, <3>4
  <2>3. CASE ~(i < Half)
    BY <2>1, <2>3
  <2> QED
    BY <2>2, <2>3
<1>2. IsStep(h, Int)
  BY <1>1 DEF IsStep
<1>3. \A x \in Int, i \in 0..Half - 1 : h[<<x, i>>] = x + Two[8 * i] * e[2 * i + from]
  <2>1. \A i \in 0..Half - 1 : i \in Nat /\ i < Half
    BY DigitsAre
  <2> QED
    BY <2>1
<1> HIDE DEF h
<1>4. PICK w : IsRun(w, h, Int, z, Half)
  BY <1>2, DigitsAre, RunExists DEF IsStep
<1>5. w \in [0..Half -> Int] /\ w[0] = z /\ \A j \in 1..Half : w[j] = h[<<w[j - 1], j - 1>>]
  BY <1>4 DEF IsRun
<1>6. ASSUME NEW i \in 0..Half - 1 PROVE w[i + 1] = w[i] + Two[8 * i] * e[2 * i + from]
  <2>1. i + 1 \in 1..Half /\ (i + 1) - 1 = i /\ i \in 0..Half
    BY DigitsAre
  <2>2. w[i + 1] = h[<<w[i], i>>] /\ w[i] \in Int
    BY <1>5, <2>1
  <2> QED
    BY <1>3, <2>2
<1> QED
  BY <1>5, <1>6 DEF IsPartial

LEMMA AddDigitsIs ==
    ASSUME NEW h0, NEW z \in Int, StandsP3(h0, G(z)), NEW e, NEW from, AreDigits(e, from),
           NEW w, IsPartial(w, z, e, from)
    PROVE  StandsP3(AddDigits(h0, e, from), G(w[Half]))
<1>1. w \in [0..Half -> Int] /\ w[0] = z
      /\ \A i \in 0..Half - 1 : w[i + 1] = w[i] + Two[8 * i] * e[2 * i + from]
  BY DEF IsPartial
<1>2. h0 \in Standing3
  BY Standing3Is
<1> DEFINE r(k) == Run(AddStep(e, from), h0, k)
           A == {k \in Nat : k <= Half => StandsP3(r(k), G(w[k]))}
<1>3. \A k \in Nat : Turns(AddStep(e, from), h0, k, Standing3)
  BY <1>2, AddStepIs, RunIs
<1>4. \A k \in Nat : r(0) = h0 /\ r(k) \in Standing3 /\ r(k + 1) = AddStep(e, from)[<<r(k), k>>]
  BY <1>3 DEF Turns
<1> HIDE DEF r
<1>5. 0 \in A
  BY <1>1, <1>4
<1>6. ASSUME NEW k \in Nat, k \in A PROVE k + 1 \in A
  <2>1. SUFFICES ASSUME k + 1 <= Half PROVE StandsP3(r(k + 1), G(w[k + 1]))
    OBVIOUS
  <2>2. k \in 0..Half - 1 /\ k < Half /\ k <= Half /\ k \in 0..Half /\ 8 * k \in 0..ScalarBits
    BY <2>1, DigitsAre
  <2>3. PICK n \in Int, b \in -8..8 : n = w[k] /\ b = e[2 * k + from]
    BY <1>1, <2>2 DEF AreDigits
  <2>4. StandsP3(r(k), G(n))
    BY <1>6, <2>2, <2>3
  <2>5. r(k + 1) = P1P1ToP3(GeMadd(r(k), Select(k, b)))
    BY <1>4, <2>2, <2>3 DEF AddStep
  <2>6. StandsP3(r(k + 1), G(n + Two[8 * k] * b))
    BY <2>2, <2>4, <2>5, SelectedAdds
  <2>7. w[k + 1] = n + Two[8 * k] * b
    BY <1>1, <2>2, <2>3
  <2> QED
    BY <2>6, <2>7
<1> HIDE DEF A
<1>7. Half \in A
  BY <1>5, <1>6, DigitsAre, SetInduction
<1>8. StandsP3(r(Half), G(w[Half]))
  BY <1>7, DigitsAre DEF A
<1>9. AddDigits(h0, e, from) = r(Half)
  BY <1>2, AddDigitsIsRun DEF r
<1> QED
  BY <1>8, <1>9

-----------------------------------------------------------------------------
(* Three doublings, and the fourth. *)
DblStep == [s \in Standing2 \X Nat |-> P1P1ToP2(GeP2Dbl(s[1]))]
Times8(p) == Rounds(LAMBDA q, i : P1P1ToP2(GeP2Dbl(q)), p, 3)

(* The doublings between the two loops of ge_scalarmult_base.              *)
LEMMA DblStands ==
    ASSUME NEW p, NEW n \in Int, StandsP2(p, G(n))
    PROVE  StandsP2(P1P1ToP2(GeP2Dbl(p)), G(2 * n)) /\ StandsP3(P1P1ToP3(GeP2Dbl(p)), G(2 * n))
<1>1. StandsP1P1(GeP2Dbl(p), AddAffine(G(n), G(n)))
  BY DoubleIs
<1> QED
  BY <1>1, GDoubles, FromP1P1Is

LEMMA DblStepIs == IsStep(DblStep, Standing2)
<1>1. ASSUME NEW s \in Standing2 \X Nat PROVE P1P1ToP2(GeP2Dbl(s[1])) \in Standing2
  <2>1. PICK p \in Standing2 : s[1] = p
    BY <1>1
  <2>2. PICK a \in Curve : StandsP2(p, a)
    BY DEF Standing2
  <2>3. StandsP2(P1P1ToP2(GeP2Dbl(p)), AddAffine(a, a))
    BY <2>2, DoubleIs, FromP1P1Is
  <2> QED
    BY <2>1, <2>3, Standing2Is
<1> QED
  BY <1>1 DEF DblStep, IsStep

LEMMA Times8IsRun ==
    ASSUME NEW p \in Standing2
    PROVE  Times8(p) = Run(DblStep, p, 3)
<1> DEFINE T == Standing2
           h == DblStep
           z == p
           g == Runs(h, z, 3)
           Body(A) == [k \in 0..3 |-> IF k = 0 THEN z ELSE P1P1ToP2(GeP2Dbl(A[k - 1]))]
           F == CHOOSE A : A = Body(A)
<1>1. Times8(p) = F[3]
  BY DEF Times8, Rounds
<1>2. 3 \in Nat /\ z \in T /\ h \in [T \X Nat -> T]
  BY DblStepIs DEF IsStep
<1>3. \A x \in T, j \in 1..3 : h[<<x, j - 1>>] = P1P1ToP2(GeP2Dbl(x))
  BY DEF DblStep
<1> HIDE DEF T, h, z
<1>4. IsRun(g, h, T, z, 3)
  BY <1>2, RunsIs
<1> HIDE DEF g
<1>5. g \in [0..3 -> T] /\ g[0] = z /\ \A j \in 1..3 : g[j] = h[<<g[j - 1], j - 1>>]
  BY <1>4 DEF IsRun
<1>6. g = Body(g)
  <2>1. ASSUME NEW j \in 0..3 PROVE g[j] = IF j = 0 THEN z ELSE P1P1ToP2(GeP2Dbl(g[j - 1]))
    <3>1. j # 0 => j \in 1..3 /\ g[j - 1] \in T
      BY <1>2, <1>5
    <3> QED
      BY <1>3, <1>5, <3>1
  <2>2. DOMAIN g = 0..3 /\ g = [j \in DOMAIN g |-> g[j]]
    BY <1>5
  <2> QED
    BY <2>1, <2>2
<1>7. F = Body(F)
  <2> HIDE DEF Body
  <2> QED
    BY <1>6
<1> HIDE DEF F
<1>8. \A j \in 0..3 : F[j] = IF j = 0 THEN z ELSE P1P1ToP2(GeP2Dbl(F[j - 1]))
  BY <1>7
<1>9. Obeys(F, h, T, z, 3)
  <2>1. 0 \in 0..3 /\ \A j \in 1..3 : j \in 0..3 /\ j # 0
    BY <1>2
  <2>2. F[0] = z
    BY <1>8, <2>1
  <2>3. ASSUME NEW j \in 1..3, F[j - 1] \in T PROVE F[j] = h[<<F[j - 1], j - 1>>]
    <3>1. F[j] = P1P1ToP2(GeP2Dbl(F[j - 1]))
      BY <1>8, <2>1
    <3> QED
      BY <1>3, <2>3, <3>1
  <2> QED
    BY <2>2, <2>3 DEF Obeys
<1>10. Agree(F, Runs(h, z, 3), T, 3)
  <2>1. 3 \in Nat /\ z \in T /\ IsStep(h, T)
    BY <1>2 DEF IsStep
  <2> QED
    BY <1>9, <2>1, RunSame
<1>11. F[3] = g[3]
  BY <1>2, <1>10 DEF Agree, g
<1> QED
  BY <1>1, <1>11 DEF Run, g, h, z

LEMMA Times8Is ==
    ASSUME NEW p, NEW n \in Int, StandsP2(p, G(n))
    PROVE  StandsP2(Times8(p), G(8 * n))
<1>1. p \in Standing2
  BY Standing2Is
<1> DEFINE r(k) == Run(DblStep, p, k)
<1>2. \A k \in Nat : Turns(DblStep, p, k, Standing2)
  BY <1>1, DblStepIs, RunIs
<1>3. \A x \in Standing2, k \in Nat : DblStep[<<x, k>>] = P1P1ToP2(GeP2Dbl(x))
  BY DEF DblStep
<1>4. \A k \in Nat : r(0) = p /\ r(k + 1) = P1P1ToP2(GeP2Dbl(r(k)))
  BY <1>2, <1>3 DEF Turns
<1> HIDE DEF r
<1>5. r(1) = P1P1ToP2(GeP2Dbl(p)) /\ r(2) = P1P1ToP2(GeP2Dbl(r(1))) /\ r(3) = P1P1ToP2(GeP2Dbl(r(2)))
  <2>1. r(0 + 1) = P1P1ToP2(GeP2Dbl(r(0))) /\ r(1 + 1) = P1P1ToP2(GeP2Dbl(r(1)))
        /\ r(2 + 1) = P1P1ToP2(GeP2Dbl(r(2))) /\ r(0) = p
    BY <1>4
  <2>2. 0 + 1 = 1 /\ 1 + 1 = 2 /\ 2 + 1 = 3
    OBVIOUS
  <2> QED
    BY <2>1, <2>2
<1>6. StandsP2(r(1), G(2 * n))
  BY <1>5, DblStands
<1>7. StandsP2(r(2), G(4 * n))
  <2>1. 2 * n \in Int /\ 2 * (2 * n) = 4 * n
    OBVIOUS
  <2>2. StandsP2(P1P1ToP2(GeP2Dbl(r(1))), G(2 * (2 * n)))
    BY <1>6, <2>1, DblStands
  <2> QED
    BY <1>5, <2>1, <2>2
<1>8. StandsP2(r(3), G(8 * n))
  <2>1. 4 * n \in Int /\ 2 * (4 * n) = 8 * n
    OBVIOUS
  <2>2. StandsP2(P1P1ToP2(GeP2Dbl(r(2))), G(2 * (4 * n)))
    BY <1>7, <2>1, DblStands
  <2> QED
    BY <1>5, <2>1, <2>2
<1> QED
  BY <1>1, <1>8, Times8IsRun DEF r

-----------------------------------------------------------------------------
(* The digits of a scalar. *)
Short(a) == a \in Nat /\ a < Two[ScalarBits - 1]
Quot(a, j) == a \div Two[4 * j]

(* The quotients of the scalar by the powers of 16, whose remainders are the *)
(* unsigned digits.                                                        *)
LEMMA FourBits ==
    ASSUME NEW j \in 0..Digits - 1
    PROVE  /\ Two[4 * (j + 1)] = 16 * Two[4 * j] /\ Two[4 * j] \in Nat /\ Two[4 * j] > 0
<1>1. PICK n \in Nat : n = 4 * j
  BY DigitsAre
<1>2. PICK m \in Nat : m = ScalarBits /\ n + 4 <= m /\ 4 * (j + 1) = n + 4
  BY <1>1, DigitsAre DEF ScalarBits
<1>3. \A k \in {0, 1, 2, 3} : n + k \in 0..m - 1 /\ (n + k) + 1 = n + (k + 1)
  BY <1>2
<1>4. \A k \in {0, 1, 2, 3} : Two[n + (k + 1)] = 2 * Two[n + k]
  BY <1>2, <1>3, TwoIs
<1>5. n + 0 = n /\ n \in 0..m
  BY <1>2
<1>6. PICK t \in Nat : t = Two[n] /\ t > 0
  BY <1>2, <1>5, TwoIs
<1>7. Two[n + 1] = 2 * t
  BY <1>4, <1>5, <1>6
<1>8. Two[n + 2] = 4 * t
  BY <1>4, <1>7
<1>9. Two[n + 3] = 8 * t
  BY <1>4, <1>8
<1>10. Two[n + 4] = 16 * t
  BY <1>4, <1>9
<1> QED
  BY <1>1, <1>2, <1>6, <1>10

LEMMA QuotientNat ==
    ASSUME NEW a \in Nat, NEW t \in Nat, t > 0
    PROVE  a \div t \in Nat /\ a = t * (a \div t) + (a % t) /\ a % t \in 0..t - 1
<1>1. a \div t \in Int /\ a % t \in 0..t - 1 /\ a = t * (a \div t) + (a % t)
  BY RemainderIs
<1>2. PICK q \in Int, r \in 0..t - 1 : q = a \div t /\ r = a % t
  BY <1>1
<1>3. a = t * q + r
  BY <1>1, <1>2
<1>4. q >= 0
  <2>1. SUFFICES ASSUME q <= -1 PROVE FALSE
    OBVIOUS
  <2>2. t * q <= -t
    BY <2>1
  <2> QED
    BY <1>3, <2>2
<1> QED
  BY <1>1, <1>2, <1>4

LEMMA QuotIs ==
    ASSUME NEW a \in Nat
    PROVE  /\ Quot(a, 0) = a
           /\ \A j \in 0..Digits : Quot(a, j) \in Nat
           /\ \A j \in 0..Digits - 1 :
                 Quot(a, j) % 16 \in 0..15 /\ Quot(a, j) = 16 * Quot(a, j + 1) + (Quot(a, j) % 16)
<1>1. Quot(a, 0) = a
  <2>1. Two[4 * 0] = 1 /\ 1 \in Nat /\ 1 > 0 /\ a \in Int /\ 0 \in 0..1 - 1 /\ a = 1 * a + 0
    BY TwoIs
  <2>2. a \div 1 = a
    BY <2>1, RemainderUnique
  <2> QED
    BY <2>1, <2>2 DEF Quot
<1>2. ASSUME NEW j \in 0..Digits PROVE Quot(a, j) \in Nat
  <2>1. 4 * j \in 0..ScalarBits
    BY DigitsAre DEF ScalarBits
  <2>2. PICK t \in Nat : t = Two[4 * j] /\ t > 0
    BY <2>1, TwoIs
  <2>3. a \div t \in Nat
    BY <2>2, QuotientNat
  <2> QED
    BY <2>2, <2>3 DEF Quot
<1>3. ASSUME NEW j \in 0..Digits - 1
      PROVE  Quot(a, j) % 16 \in 0..15 /\ Quot(a, j) = 16 * Quot(a, j + 1) + (Quot(a, j) % 16)
  <2>1. PICK t \in Nat : t = Two[4 * j] /\ t > 0 /\ Two[4 * (j + 1)] = 16 * t
    BY FourBits
  <2>2. PICK q \in Nat, r \in 0..t - 1 : q = a \div t /\ r = a % t /\ a = t * q + r
    <3>1. a \div t \in Nat /\ a = t * (a \div t) + (a % t) /\ a % t \in 0..t - 1
      BY <2>1, QuotientNat
    <3> QED
      BY <3>1
  <2>3. PICK p \in Nat, d \in 0..15 : p = q \div 16 /\ d = q % 16 /\ q = 16 * p + d
    <3>1. q \div 16 \in Nat /\ q = 16 * (q \div 16) + (q % 16) /\ q % 16 \in 0..16 - 1
      BY QuotientNat
    <3> QED
      BY <3>1
  <2>4. a \div (16 * t) = p
    <3>1. PICK u \in Nat : u = 16 * t /\ u > 0
      BY <2>1
    <3>2. PICK s \in Int : s = t * d + r
      BY <2>1
    <3>3. s \in 0..u - 1
      <4>1. t * d <= t * 15 /\ t * d >= 0
        BY <2>1
      <4> QED
        BY <3>1, <3>2, <4>1
    <3>4. a = u * p + s
      <4>1. t * (16 * p + d) = (16 * t) * p + t * d
        BY <2>1
      <4>2. PICK x, y, z \in Int : x = t * q /\ y = u * p /\ z = t * d
        BY <2>1, <3>1
      <4>3. x = y + z
        BY <2>3, <3>1, <4>1, <4>2
      <4>4. a = x + r /\ s = z + r
        BY <2>2, <3>2, <4>2
      <4>5. a = y + s
        BY <4>2, <4>3, <4>4
      <4> QED
        BY <4>2, <4>5
    <3>5. a \div u = p
      BY <3>1, <3>3, <3>4, RemainderUnique
    <3> QED
      BY <3>1, <3>5, Zenon
  <2>5. Quot(a, j) = q
    BY <2>1, <2>2 DEF Quot
  <2>6. Quot(a, j + 1) = p
    BY <2>1, <2>4, Zenon DEF Quot
  <2>7. Quot(a, j) % 16 = d
    BY <2>3, <2>5, Zenon
  <2> QED
    BY <2>3, <2>5, <2>6, <2>7
<1> QED
  BY <1>1, <1>2, <1>3

LEMMA TopQuot ==
    ASSUME NEW a, Short(a)
    PROVE  Quot(a, Digits - 1) \in 0..7 /\ Quot(a, Digits) = 0
<1>0. a \in Nat /\ a < Two[ScalarBits - 1]
  BY DEF Short
<1>1. PICK n \in Nat : n = ScalarBits - 4 /\ n >= 0 /\ n = 4 * (Digits - 1) /\ ScalarBits = 4 * Digits
  BY DigitsAre DEF ScalarBits
<1>2. PICK t \in Nat : t = Two[n] /\ t > 0
  <2>1. n \in 0..ScalarBits
    BY <1>1
  <2> QED
    BY <2>1, TwoIs
<1>3. Two[ScalarBits - 1] = 8 * t
  <2>1. PICK m \in Nat : m = ScalarBits
    BY DigitsAre
  <2>2. n \in 0..m - 1 /\ n + 1 \in 0..m - 1 /\ n + 2 \in 0..m - 1 /\ (n + 1) + 1 = n + 2 /\ (n + 2) + 1 = m - 1
    BY <1>1, <2>1
  <2>3. Two[n + 1] = 2 * t
    BY <1>2, <2>1, <2>2, TwoIs
  <2>4. Two[n + 2] = 4 * t
    BY <2>1, <2>2, <2>3, TwoIs
  <2>5. Two[m - 1] = 8 * t
    BY <2>1, <2>2, <2>4, TwoIs
  <2> QED
    BY <2>1, <2>5
<1>4. PICK q \in Nat, r \in 0..t - 1 : q = a \div t /\ a = t * q + r
  <2>1. a \div t \in Nat /\ a = t * (a \div t) + (a % t) /\ a % t \in 0..t - 1
    BY <1>0, <1>2, QuotientNat
  <2> QED
    BY <2>1
<1>5. q <= 7
  <2>1. SUFFICES ASSUME q >= 8 PROVE FALSE
    OBVIOUS
  <2>2. t * q >= t * 8
    BY <1>2, <2>1
  <2> QED
    BY <1>0, <1>2, <1>3, <1>4, <2>2
<1>6. Quot(a, Digits - 1) = q
  BY <1>1, <1>2, <1>4 DEF Quot
<1>7. Quot(a, Digits) = 0
  <2>1. PICK k \in Nat : k = Digits - 1 /\ k \in 0..Digits - 1 /\ k + 1 = Digits
    BY DigitsAre
  <2>2. PICK p \in Nat : p = Quot(a, Digits)
    BY <1>0, DigitsAre, QuotIs
  <2>3. Quot(a, k) % 16 \in 0..15 /\ Quot(a, k) = 16 * p + (Quot(a, k) % 16)
    BY <1>0, <2>1, <2>2, QuotIs
  <2>4. PICK d \in 0..15 : d = Quot(a, k) % 16
    BY <2>3
  <2>5. q = 16 * p + d
    BY <1>6, <2>1, <2>3, <2>4
  <2>6. p = 0
    BY <1>5, <2>5
  <2> QED
    BY <2>2, <2>6
<1> QED
  BY <1>4, <1>5, <1>6, <1>7

-----------------------------------------------------------------------------
(* What is left of the scalar above each digit once the carries are in. *)
Rest(r, a) ==
    /\ r \in [0..Digits -> Int] /\ r[0] = a /\ r[Digits] = 0
    /\ \A j \in 0..Digits - 1 : r[j] = Quot(a, j) \/ r[j] = Quot(a, j) + 1
    /\ \A j \in 0..Digits - 2 :
          r[j + 1] = Quot(a, j + 1) + (IF r[j] - 16 * Quot(a, j + 1) >= 8 THEN 1 ELSE 0)

(* The carries: r[j] is what remains of the scalar above the digits below j, *)
(* rounded to the nearest.                                                 *)
LEMMA RestExists == ASSUME NEW a, Short(a) PROVE \E r : Rest(r, a)
<1> DEFINE h == [s \in Int \X Nat |->
                    IF s[2] < Digits - 1
                    THEN Quot(a, s[2] + 1) + (IF s[1] - 16 * Quot(a, s[2] + 1) >= 8 THEN 1 ELSE 0)
                    ELSE 0]
<1>0. a \in Nat /\ Quot(a, 0) = a
  BY QuotIs DEF Short
<1>1. ASSUME NEW s \in Int \X Nat
      PROVE  (IF s[2] < Digits - 1
              THEN Quot(a, s[2] + 1) + (IF s[1] - 16 * Quot(a, s[2] + 1) >= 8 THEN 1 ELSE 0)
              ELSE 0) \in Int
  <2>1. PICK x \in Int, i \in Nat : s[1] = x /\ s[2] = i
    BY <1>1
  <2>2. CASE i < Digits - 1
    <3>1. i + 1 \in 0..Digits
      BY <2>2, DigitsAre
    <3>2. PICK q \in Nat : q = Quot(a, i + 1)
      BY <1>0, <3>1, QuotIs
    <3>3. q + (IF x - 16 * q >= 8 THEN 1 ELSE 0) \in Int
      OBVIOUS
    <3> QED
      BY <2>1, <2>2, <3>2, <3>3
  <2>3. CASE ~(i < Digits - 1)
    BY <2>1, <2>3
  <2> QED
    BY <2>2, <2>3
<1>2. IsStep(h, Int)
  BY <1>1 DEF IsStep
<1>3. \A x \in Int, i \in Nat :
        h[<<x, i>>] = IF i < Digits - 1
                      THEN Quot(a, i + 1) + (IF x - 16 * Quot(a, i + 1) >= 8 THEN 1 ELSE 0)
                      ELSE 0
  OBVIOUS
<1> HIDE DEF h
<1>4. PICK r : IsRun(r, h, Int, a, Digits)
  <2>1. a \in Int /\ Digits \in Nat
    BY <1>0, DigitsAre
  <2> QED
    BY <1>2, <2>1, RunExists DEF IsStep
<1>5. r \in [0..Digits -> Int] /\ r[0] = a /\ \A j \in 1..Digits : r[j] = h[<<r[j - 1], j - 1>>]
  BY <1>4 DEF IsRun
<1>6. ASSUME NEW j \in 0..Digits - 2
      PROVE  r[j + 1] = Quot(a, j + 1) + (IF r[j] - 16 * Quot(a, j + 1) >= 8 THEN 1 ELSE 0)
  <2>1. j + 1 \in 1..Digits /\ (j + 1) - 1 = j /\ j \in Nat /\ j \in 0..Digits /\ j < Digits - 1
    BY DigitsAre
  <2>2. r[j + 1] = h[<<r[j], j>>] /\ r[j] \in Int
    BY <1>5, <2>1
  <2> QED
    BY <1>3, <2>1, <2>2
<1>7. r[Digits] = 0
  <2>1. PICK k \in Nat : k = Digits - 1 /\ Digits \in 1..Digits /\ k \in 0..Digits /\ ~(k < Digits - 1)
    BY DigitsAre
  <2>2. r[Digits] = h[<<r[k], k>>] /\ r[k] \in Int
    BY <1>5, <2>1
  <2> QED
    BY <1>3, <2>1, <2>2
<1>8. ASSUME NEW j \in 0..Digits - 1 PROVE r[j] = Quot(a, j) \/ r[j] = Quot(a, j) + 1
  <2>1. CASE j = 0
    BY <1>0, <1>5, <2>1
  <2>2. CASE j # 0
    <3>1. PICK k \in 0..Digits - 2 : k = j - 1 /\ k + 1 = j
      BY <2>2, DigitsAre
    <3>2. PICK q \in Nat : q = Quot(a, j)
      <4>1. j \in 0..Digits
        BY DigitsAre
      <4> QED
        BY <1>0, <4>1, QuotIs
    <3>3. r[j] = q + (IF r[k] - 16 * q >= 8 THEN 1 ELSE 0)
      BY <1>6, <3>1, <3>2
    <3> QED
      BY <3>2, <3>3
  <2> QED
    BY <2>1, <2>2
<1> QED
  BY <1>5, <1>6, <1>7, <1>8 DEF Rest

(* After k rounds. *)
Carried(e, r, a, k) ==
    /\ e \in [0..Digits - 1 -> Int]
    /\ \A j \in 0..k - 1 : e[j] = r[j] - 16 * r[j + 1] /\ e[j] \in -8..7
    /\ e[k] = r[k] - 16 * Quot(a, k + 1)
    /\ \A j \in k + 1..Digits - 1 : e[j] = Quot(a, j) % 16

Plain(a) == [i \in 0..Digits - 1 |-> Quot(a, i) % 16]

(* The loop of carries makes signed digits out of the unsigned ones; the   *)
(* last carry is absorbed because the scalar's top bit is clear.           *)
LEMMA CarriedFirst ==
    ASSUME NEW a, Short(a), NEW r, Rest(r, a)
    PROVE  Carried(Plain(a), r, a, 0)
<1>0. a \in Nat
  BY DEF Short
<1>1. Plain(a) \in [0..Digits - 1 -> Int]
  <2>1. \A i \in 0..Digits - 1 : Quot(a, i) % 16 \in Int
    BY <1>0, QuotIs
  <2> QED
    BY <2>1 DEF Plain
<1>2. 0 \in 0..Digits - 1 /\ 0 + 1 = 1
  BY DigitsAre
<1>3. PICK q, p \in Nat, d \in 0..15 : q = Quot(a, 0) /\ p = Quot(a, 1) /\ d = Quot(a, 0) % 16 /\ q = 16 * p + d
  <2>1. 0 \in 0..Digits /\ 1 \in 0..Digits
    BY DigitsAre
  <2>2. Quot(a, 0) % 16 \in 0..15 /\ Quot(a, 0) = 16 * Quot(a, 1) + (Quot(a, 0) % 16)
        /\ Quot(a, 0) \in Nat /\ Quot(a, 1) \in Nat
    BY <1>0, <1>2, <2>1, QuotIs
  <2> QED
    BY <2>2
<1>4. r[0] = q
  BY <1>0, <1>3, QuotIs DEF Rest
<1>5. Plain(a)[0] = d
  BY <1>2, <1>3 DEF Plain
<1>6. Plain(a)[0] = r[0] - 16 * Quot(a, 0 + 1)
  BY <1>2, <1>3, <1>4, <1>5
<1>7. \A j \in 0 + 1..Digits - 1 : Plain(a)[j] = Quot(a, j) % 16
  BY DigitsAre DEF Plain
<1>8. 0..0 - 1 = {}
  OBVIOUS
<1> QED
  BY <1>1, <1>6, <1>7, <1>8 DEF Carried

(* The value of a digit with its carry in. *)
LEMMA DigitValue ==
    ASSUME NEW a, Short(a), NEW r, Rest(r, a), NEW k \in 0..Digits - 1
    PROVE  /\ r[k] - 16 * Quot(a, k + 1) \in 0..16
           /\ Quot(a, k + 1) \in Nat /\ r[k] \in Int
<1>0. a \in Nat
  BY DEF Short
<1>1. PICK q, p \in Nat, d \in 0..15 : q = Quot(a, k) /\ p = Quot(a, k + 1) /\ q = 16 * p + d
  <2>1. k \in 0..Digits /\ k + 1 \in 0..Digits
    BY DigitsAre
  <2>2. Quot(a, k) % 16 \in 0..15 /\ Quot(a, k) = 16 * Quot(a, k + 1) + (Quot(a, k) % 16)
        /\ Quot(a, k) \in Nat /\ Quot(a, k + 1) \in Nat
    BY <1>0, <2>1, QuotIs
  <2> QED
    BY <2>2
<1>2. r[k] = q \/ r[k] = q + 1
  BY <1>1 DEF Rest
<1>3. PICK x \in Int : x = r[k] /\ (x = q \/ x = q + 1)
  BY <1>2
<1>4. x - 16 * p \in 0..16
  BY <1>1, <1>3
<1> QED
  BY <1>1, <1>3, <1>4

LEMMA CarriedNext ==
    ASSUME NEW a, Short(a), NEW r, Rest(r, a), NEW k \in 0..Digits - 2, NEW e, Carried(e, r, a, k)
    PROVE  Carried(CarryDigit(e, k), r, a, k + 1)
<1>0. a \in Nat /\ k \in 0..Digits - 1 /\ k + 1 \in 0..Digits - 1 /\ k # k + 1 /\ (k + 1) - 1 = k /\ k \in Nat
  BY DigitsAre DEF Short
<1>1. e \in [0..Digits - 1 -> Int] /\ e[k] = r[k] - 16 * Quot(a, k + 1)
  BY DEF Carried
<1>2. PICK x, p \in Int : x = r[k] /\ p = Quot(a, k + 1) /\ x - 16 * p \in 0..16
  BY <1>0, DigitValue
<1>3. PICK v \in 0..16 : v = x - 16 * p /\ e[k] = v
  BY <1>1, <1>2
<1>4. PICK y \in Int : y = r[k + 1] /\ y = p + (IF v >= 8 THEN 1 ELSE 0)
  BY <1>2, <1>3 DEF Rest
<1>5. PICK c \in 0..1 : c = (IF v >= 8 THEN 1 ELSE 0) /\ y = p + c
  BY <1>4
<1>6. PICK f : f = CarryDigit(e, k)
  OBVIOUS
<1>7. /\ f \in [0..Digits - 1 -> Int] /\ f[k] = v - 16 * c /\ f[k + 1] = e[k + 1] + c
      /\ \A j \in 0..Digits - 1 : j # k /\ j # k + 1 => f[j] = e[j]
  <2>1. CASE v >= 8
    <3>1. c = 1 /\ e[k] + 8 >= 16
      BY <1>3, <1>5, <2>1
    <3>2. f = [e EXCEPT ![k] = @ - 16, ![k + 1] = @ + 1]
      BY <1>6, <3>1 DEF CarryDigit
    <3>3. e[k + 1] \in Int /\ e[k] - 16 \in Int
      BY <1>0, <1>1
    <3> QED
      BY <1>0, <1>1, <1>3, <3>1, <3>2, <3>3
  <2>2. CASE ~(v >= 8)
    <3>1. c = 0 /\ ~(e[k] + 8 >= 16)
      BY <1>3, <1>5, <2>2
    <3>2. f = e
      BY <1>6, <3>1 DEF CarryDigit
    <3>3. e[k + 1] \in Int
      BY <1>0, <1>1
    <3> QED
      BY <1>1, <1>3, <3>1, <3>2, <3>3
  <2> QED
    BY <2>1, <2>2
<1>8. ASSUME NEW j \in 0..(k + 1) - 1 PROVE f[j] = r[j] - 16 * r[j + 1] /\ f[j] \in -8..7
  <2>1. CASE j = k
    <3>1. v - 16 * c = x - 16 * y /\ v - 16 * c \in -8..7
      BY <1>3, <1>5
    <3> QED
      BY <1>2, <1>4, <1>7, <2>1, <3>1
  <2>2. CASE j # k
    <3>1. j \in 0..k - 1 /\ j # k + 1 /\ j \in 0..Digits - 1
      <4>1. PICK n \in Nat : n = Digits /\ k \in 0..n - 2
        BY DigitsAre
      <4> QED
        BY <1>0, <2>2, <4>1
    <3>2. e[j] = r[j] - 16 * r[j + 1] /\ e[j] \in -8..7
      BY <3>1 DEF Carried
    <3> QED
      BY <1>7, <2>2, <3>1, <3>2
  <2> QED
    BY <2>1, <2>2
<1>9. f[k + 1] = r[k + 1] - 16 * Quot(a, (k + 1) + 1)
  <2>1. PICK q \in Nat, d \in 0..15 : q = Quot(a, (k + 1) + 1) /\ p = 16 * q + d /\ e[k + 1] = d
    <3>1. k + 1 \in 0..Digits /\ (k + 1) + 1 \in 0..Digits /\ k + 1 \in k + 1..Digits - 1
      BY <1>0, DigitsAre
    <3>2. Quot(a, k + 1) % 16 \in 0..15 /\ Quot(a, k + 1) = 16 * Quot(a, (k + 1) + 1) + (Quot(a, k + 1) % 16)
          /\ Quot(a, (k + 1) + 1) \in Nat
      BY <1>0, <3>1, QuotIs
    <3>3. e[k + 1] = Quot(a, k + 1) % 16
      BY <3>1 DEF Carried
    <3> QED
      BY <1>2, <3>2, <3>3
  <2>2. d + c = y - 16 * q
    BY <1>5, <2>1
  <2> QED
    BY <1>4, <1>7, <2>1, <2>2
<1>10. ASSUME NEW j \in (k + 1) + 1..Digits - 1 PROVE f[j] = Quot(a, j) % 16
  <2>1. j \in k + 1..Digits - 1 /\ j # k /\ j # k + 1 /\ j \in 0..Digits - 1
    BY <1>0
  <2>2. e[j] = Quot(a, j) % 16
    BY <2>1 DEF Carried
  <2>3. f[j] = e[j]
    BY <1>7, <2>1
  <2> QED
    BY <2>2, <2>3
<1>11. Carried(f, r, a, k + 1)
  BY <1>7, <1>8, <1>9, <1>10 DEF Carried
<1> QED
  BY <1>6, <1>11

Carrying == [0..Digits - 1 -> Int]
CarryStep == [s \in Carrying \X Nat |-> IF s[2] < Digits - 1 THEN CarryDigit(s[1], s[2]) ELSE s[1]]

LEMMA CarryStepIs == IsStep(CarryStep, Carrying)
<1>1. ASSUME NEW s \in Carrying \X Nat
      PROVE  (IF s[2] < Digits - 1 THEN CarryDigit(s[1], s[2]) ELSE s[1]) \in Carrying
  <2>1. PICK e \in Carrying, i \in Nat : s[1] = e /\ s[2] = i
    BY <1>1
  <2>2. CASE i < Digits - 1
    <3>1. i \in 0..Digits - 1 /\ i + 1 \in 0..Digits - 1
      BY <2>2, DigitsAre
    <3>2. e[i] \in Int /\ e[i + 1] \in Int
      BY <3>1 DEF Carrying
    <3>3. [e EXCEPT ![i] = @ - 16, ![i + 1] = @ + 1] \in Carrying
      <4>1. e[i] - 16 \in Int /\ e[i + 1] + 1 \in Int /\ i # i + 1
        BY <3>1, <3>2
      <4> QED
        BY <3>1, <4>1 DEF Carrying
    <3>4. CarryDigit(e, i) \in Carrying
      BY <3>3 DEF CarryDigit
    <3> QED
      BY <2>1, <2>2, <3>4
  <2>3. CASE ~(i < Digits - 1)
    BY <2>1, <2>3
  <2> QED
    BY <2>2, <2>3
<1> QED
  BY <1>1 DEF CarryStep, IsStep

LEMMA SignedDigitsIsRun ==
    ASSUME NEW a, Plain(a) \in Carrying
    PROVE  SignedDigits(a) = Run(CarryStep, Plain(a), (Digits - 1))
<1> DEFINE T == Carrying
           h == CarryStep
           z == Plain(a)
           g == Runs(h, z, (Digits - 1))
           Body(A) == [k \in 0..(Digits - 1) |-> IF k = 0 THEN z ELSE CarryDigit(A[k - 1], k - 1)]
           F == CHOOSE A : A = Body(A)
<1>1. SignedDigits(a) = F[(Digits - 1)]
  BY DEF SignedDigits, Rounds, Plain, Quot
<1>2. (Digits - 1) \in Nat /\ z \in T /\ h \in [T \X Nat -> T]
  BY DigitsAre, CarryStepIs DEF IsStep
<1>3. \A x \in T, j \in 1..(Digits - 1) : h[<<x, j - 1>>] = CarryDigit(x, j - 1)
  <2>1. \A j \in 1..Digits - 1 : j - 1 \in Nat /\ j - 1 < Digits - 1
    BY DigitsAre
  <2> QED
    BY <2>1 DEF CarryStep
<1> HIDE DEF T, h, z
<1>4. IsRun(g, h, T, z, (Digits - 1))
  BY <1>2, RunsIs
<1> HIDE DEF g
<1>5. g \in [0..(Digits - 1) -> T] /\ g[0] = z /\ \A j \in 1..(Digits - 1) : g[j] = h[<<g[j - 1], j - 1>>]
  BY <1>4 DEF IsRun
<1>6. g = Body(g)
  <2>1. ASSUME NEW j \in 0..(Digits - 1) PROVE g[j] = IF j = 0 THEN z ELSE CarryDigit(g[j - 1], j - 1)
    <3>1. j # 0 => j \in 1..(Digits - 1) /\ g[j - 1] \in T
      BY <1>2, <1>5
    <3> QED
      BY <1>3, <1>5, <3>1
  <2>2. DOMAIN g = 0..(Digits - 1) /\ g = [j \in DOMAIN g |-> g[j]]
    BY <1>5
  <2> QED
    BY <2>1, <2>2
<1>7. F = Body(F)
  <2> HIDE DEF Body
  <2> QED
    BY <1>6
<1> HIDE DEF F
<1>8. \A j \in 0..(Digits - 1) : F[j] = IF j = 0 THEN z ELSE CarryDigit(F[j - 1], j - 1)
  BY <1>7
<1>9. Obeys(F, h, T, z, (Digits - 1))
  <2>1. 0 \in 0..(Digits - 1) /\ \A j \in 1..(Digits - 1) : j \in 0..(Digits - 1) /\ j # 0
    BY <1>2
  <2>2. F[0] = z
    BY <1>8, <2>1
  <2>3. ASSUME NEW j \in 1..(Digits - 1), F[j - 1] \in T PROVE F[j] = h[<<F[j - 1], j - 1>>]
    <3>1. F[j] = CarryDigit(F[j - 1], j - 1)
      BY <1>8, <2>1
    <3> QED
      BY <1>3, <2>3, <3>1
  <2> QED
    BY <2>2, <2>3 DEF Obeys
<1>10. Agree(F, Runs(h, z, (Digits - 1)), T, (Digits - 1))
  <2>1. (Digits - 1) \in Nat /\ z \in T /\ IsStep(h, T)
    BY <1>2 DEF IsStep
  <2> QED
    BY <1>9, <2>1, RunSame
<1>11. F[(Digits - 1)] = g[(Digits - 1)]
  BY <1>2, <1>10 DEF Agree, g
<1> QED
  BY <1>1, <1>11 DEF Run, g, h, z

(* The digits sum up to the scalar, and every one of them is in the tables. *)
LEMMA SignedDigitsAre ==
    ASSUME NEW a, Short(a)
    PROVE  \E r : /\ r \in [0..Digits -> Int] /\ r[0] = a /\ r[Digits] = 0
                  /\ \A j \in 0..Digits - 1 : /\ SignedDigits(a)[j] \in -8..8
                                              /\ SignedDigits(a)[j] = r[j] - 16 * r[j + 1]
<1>1. PICK r : Rest(r, a)
  BY RestExists
<1>2. r \in [0..Digits -> Int] /\ r[0] = a /\ r[Digits] = 0
  BY <1>1 DEF Rest
<1>3. Plain(a) \in Carrying
  BY <1>1, CarriedFirst DEF Carried, Carrying
<1> DEFINE e(k) == Run(CarryStep, Plain(a), k)
           A == {k \in Nat : k <= Digits - 1 => Carried(e(k), r, a, k)}
<1>4. \A k \in Nat : Turns(CarryStep, Plain(a), k, Carrying)
  BY <1>3, CarryStepIs, RunIs
<1>5. \A k \in Nat : e(0) = Plain(a) /\ e(k) \in Carrying /\ e(k + 1) = CarryStep[<<e(k), k>>]
  BY <1>4 DEF Turns
<1> HIDE DEF e
<1>6. 0 \in A
  BY <1>1, <1>5, CarriedFirst
<1>7. ASSUME NEW k \in Nat, k \in A PROVE k + 1 \in A
  <2>1. SUFFICES ASSUME k + 1 <= Digits - 1 PROVE Carried(e(k + 1), r, a, k + 1)
    OBVIOUS
  <2>2. k \in 0..Digits - 2 /\ k < Digits - 1 /\ k <= Digits - 1
    BY <2>1, DigitsAre
  <2>3. e(k + 1) = CarryDigit(e(k), k)
    BY <1>5, <2>2 DEF CarryStep
  <2>4. Carried(e(k), r, a, k)
    BY <1>7, <2>2
  <2> QED
    BY <1>1, <2>2, <2>3, <2>4, CarriedNext
<1> HIDE DEF A
<1>8. PICK n \in Nat : n = Digits - 1 /\ n \in 0..Digits - 1 /\ n + 1 = Digits /\ n <= n
  BY DigitsAre
<1>9. \A k \in Nat : k \in A
  BY <1>6, <1>7, SetInduction
<1>10. Carried(e(n), r, a, n)
  BY <1>8, <1>9 DEF A
<1>11. SignedDigits(a) = e(n)
  BY <1>3, <1>8, SignedDigitsIsRun DEF e
<1>12. PICK d : d = SignedDigits(a) /\ Carried(d, r, a, n)
  BY <1>10, <1>11
<1>13. d[n] \in 0..8 /\ d[n] = r[n] - 16 * r[n + 1]
  <2>1. d[n] = r[n] - 16 * Quot(a, n + 1)
    BY <1>12 DEF Carried
  <2>2. Quot(a, n) \in 0..7 /\ Quot(a, n + 1) = 0
    BY <1>8, TopQuot
  <2>3. r[n] = Quot(a, n) \/ r[n] = Quot(a, n) + 1
    BY <1>1, <1>8 DEF Rest
  <2>4. PICK q \in 0..7, x \in Int : q = Quot(a, n) /\ x = r[n] /\ (x = q \/ x = q + 1)
    BY <2>2, <2>3
  <2>5. d[n] = x - 16 * 0
    BY <2>1, <2>2, <2>4
  <2>6. r[n + 1] = 0
    BY <1>2, <1>8
  <2>7. d[n] = x /\ x \in 0..8
    BY <2>4, <2>5
  <2>8. x = x - 16 * 0
    BY <2>4
  <2> QED
    BY <2>4, <2>6, <2>7, <2>8
<1>14. ASSUME NEW j \in 0..Digits - 1 PROVE d[j] \in -8..8 /\ d[j] = r[j] - 16 * r[j + 1]
  <2>1. CASE j = n
    BY <1>13, <2>1
  <2>2. CASE j # n
    <3>1. j \in 0..n - 1
      BY <1>8, <2>2
    <3>2. d[j] = r[j] - 16 * r[j + 1] /\ d[j] \in -8..7
      BY <1>12, <3>1 DEF Carried
    <3> QED
      BY <3>2
  <2> QED
    BY <2>1, <2>2
<1> QED
  BY <1>2, <1>12, <1>14

-----------------------------------------------------------------------------
Falls(e, r, a) ==
    /\ r \in [0..Digits -> Int] /\ r[0] = a /\ r[Digits] = 0
    /\ \A j \in 0..Digits - 1 : e[j] \in -8..8 /\ e[j] = r[j] - 16 * r[j + 1]

(* The odd digits times 16 and the even digits make up the scalar.         *)
LEMMA PartialSums ==
    ASSUME NEW a \in Int, NEW e, NEW r, Falls(e, r, a), NEW v, IsPartial(v, 0, e, 1), NEW w, IsPartial(w, 16 * v[Half], e, 0)
    PROVE  w[Half] = a
<1>0. /\ r \in [0..Digits -> Int] /\ r[0] = a /\ r[Digits] = 0
      /\ \A j \in 0..Digits - 1 : e[j] \in -8..8 /\ e[j] = r[j] - 16 * r[j + 1]
  BY DEF Falls
<1>1. v \in [0..Half -> Int] /\ v[0] = 0
      /\ \A i \in 0..Half - 1 : v[i + 1] = v[i] + Two[8 * i] * e[2 * i + 1]
  BY DEF IsPartial
<1>2. w \in [0..Half -> Int] /\ w[0] = 16 * v[Half]
      /\ \A i \in 0..Half - 1 : w[i + 1] = w[i] + Two[8 * i] * e[2 * i + 0]
  BY DEF IsPartial
<1>3. PICK h \in Nat : h = Half /\ h > 0 /\ Digits = 2 * h /\ ScalarBits = 8 * h
  BY DigitsAre
<1>4. PICK s \in Int : s = v[h]
  BY <1>1, <1>3
<1> DEFINE A == {k \in Nat : k <= h => w[k] - 16 * s + 16 * v[k] = a - Two[8 * k] * r[2 * k]}
<1>5. 0 \in A
  <2>1. 8 * 0 = 0 /\ 2 * 0 = 0
    OBVIOUS
  <2>2. Two[0] = 1 /\ r[0] = a
    BY <1>0, TwoIs
  <2>3. w[0] = 16 * s /\ v[0] = 0
    BY <1>1, <1>2, <1>3, <1>4
  <2>4. 16 * s - 16 * s + 16 * 0 = a - 1 * a
    OBVIOUS
  <2> QED
    BY <2>1, <2>2, <2>3, <2>4
<1>6. ASSUME NEW k \in Nat, k \in A PROVE k + 1 \in A
  <2>1. SUFFICES ASSUME k + 1 <= h
                 PROVE  w[k + 1] - 16 * s + 16 * v[k + 1] = a - Two[8 * (k + 1)] * r[2 * (k + 1)]
    OBVIOUS
  <2>2. /\ k \in 0..h - 1 /\ k + 1 \in 0..h /\ k \in 0..h /\ k <= h
        /\ 2 * k \in 0..Digits - 1 /\ 2 * k + 1 \in 0..Digits - 1 /\ 2 * k + 0 = 2 * k
        /\ (2 * k + 1) + 1 = 2 * (k + 1) /\ 2 * (k + 1) \in 0..Digits /\ 2 * k + 1 \in 0..Digits
        /\ 2 * k \in 0..Digits /\ 8 * (k + 1) = 8 * k + 8 /\ 8 * k + 8 <= ScalarBits /\ 8 * k \in Nat
    BY <1>3, <2>1
  <2>3. PICK t \in Int : t = Two[8 * k] /\ Two[8 * (k + 1)] = 256 * t
    <3>1. Two[8 * k + 8] = 256 * Two[8 * k] /\ Two[8 * k] \in Nat
      BY <2>2, EightTwos
    <3> QED
      BY <2>2, <3>1
  <2>4. PICK x, y, z \in Int : x = r[2 * k] /\ y = r[2 * k + 1] /\ z = r[2 * (k + 1)]
    BY <1>0, <2>2
  <2>5. PICK b, c \in Int : b = e[2 * k] /\ c = e[2 * k + 1] /\ b = x - 16 * y /\ c = y - 16 * z
    <3>1. e[2 * k] \in -8..8 /\ e[2 * k] = x - 16 * y
      BY <1>0, <2>2, <2>4
    <3>2. e[2 * k + 1] \in -8..8 /\ e[2 * k + 1] = y - 16 * z
      BY <1>0, <2>2, <2>4
    <3> QED
      BY <3>1, <3>2
  <2>6. PICK m, n \in Int : m = w[k] /\ n = v[k]
    BY <1>1, <1>2, <1>3, <2>2
  <2>7. w[k + 1] = m + t * b
    <3>1. k \in 0..Half - 1
      BY <1>3, <2>2
    <3>2. w[k + 1] = w[k] + Two[8 * k] * e[2 * k + 0]
      BY <1>2, <3>1
    <3>3. e[2 * k + 0] = b
      BY <2>2, <2>5
    <3> QED
      BY <2>3, <2>6, <3>2, <3>3
  <2>8. v[k + 1] = n + t * c
    <3>1. k \in 0..Half - 1
      BY <1>3, <2>2
    <3>2. v[k + 1] = v[k] + Two[8 * k] * e[2 * k + 1]
      BY <1>1, <3>1
    <3> QED
      BY <2>3, <2>5, <2>6, <3>2
  <2>9. m - 16 * s + 16 * n = a - t * x
    BY <1>6, <2>2, <2>3, <2>4, <2>6
  <2>10. (m + t * b) - 16 * s + 16 * (n + t * c) = a - (256 * t) * z
    <3>1. t * (x - 16 * y) + 16 * (t * (y - 16 * z)) = t * x - (256 * t) * z
      OBVIOUS
    <3>2. PICK p, q, o, u \in Int : p = t * b /\ q = t * c /\ o = t * x /\ u = (256 * t) * z
      OBVIOUS
    <3>3. p + 16 * q = o - u
      BY <2>5, <3>1, <3>2
    <3>4. m - 16 * s + 16 * n = a - o
      BY <2>9, <3>2
    <3>5. (m + p) - 16 * s + 16 * (n + q) = a - u
      BY <3>3, <3>4
    <3> QED
      BY <3>2, <3>5
  <2> QED
    BY <2>3, <2>4, <2>7, <2>8, <2>10
<1> HIDE DEF A
<1>7. h \in A
  BY <1>5, <1>6, SetInduction
<1>8. h <= h /\ w[h] - 16 * s + 16 * v[h] = a - Two[8 * h] * r[2 * h]
  BY <1>7 DEF A
<1>9. r[2 * h] = 0 /\ w[h] \in Int
  BY <1>0, <1>2, <1>3
<1>10. PICK t \in Int : t = Two[8 * h]
  <2>1. ScalarBits \in 0..ScalarBits
    BY DigitsAre
  <2>2. Two[ScalarBits] \in Int
    BY <2>1, TwoIs
  <2> QED
    BY <1>3, <2>2
<1>11. Two[8 * h] * r[2 * h] = 0
  BY <1>9, <1>10
<1>12. PICK m \in Int : m = w[h]
  BY <1>9
<1>13. m - 16 * s + 16 * s = a - 0
  BY <1>4, <1>8, <1>11, <1>12
<1> QED
  BY <1>3, <1>12, <1>13

(* a * B. *)
LEMMA ScalarMultBaseIs ==
    ASSUME NEW a, Short(a)
    PROVE  StandsP3(GeScalarMultBase(a), G(a))
<1> DEFINE e == SignedDigits(a)
           odd == AddDigits(P3Zero, e, 1)
           times8 == Times8(P3ToP2(odd))
           times16 == P1P1ToP3(GeP2Dbl(times8))
<1>0. a \in Int
  BY DEF Short
<1>1. GeScalarMultBase(a) = AddDigits(times16, e, 0)
  BY DEF GeScalarMultBase, Times8
<1>2. PICK r : /\ r \in [0..Digits -> Int] /\ r[0] = a /\ r[Digits] = 0
               /\ \A j \in 0..Digits - 1 : e[j] \in -8..8 /\ e[j] = r[j] - 16 * r[j + 1]
  BY SignedDigitsAre
<1> HIDE DEF e
<1>3. AreDigits(e, 1) /\ AreDigits(e, 0)
  <2>1. \A i \in 0..Half - 1 : 2 * i + 1 \in 0..Digits - 1 /\ 2 * i + 0 \in 0..Digits - 1
    BY DigitsAre
  <2> QED
    BY <1>2, <2>1 DEF AreDigits
<1>4. PICK v : IsPartial(v, 0, e, 1)
  BY <1>3, PartialExists
<1>5. PICK n \in Int : n = v[Half]
  <2>1. Half \in 0..Half
    BY DigitsAre
  <2> QED
    BY <1>4, <2>1 DEF IsPartial
<1>6. StandsP3(odd, G(n))
  <2>1. StandsP3(P3Zero, G(0)) /\ 0 \in Int
    BY ZeroStands, GOfNone
  <2> QED
    BY <1>3, <1>4, <1>5, <2>1, AddDigitsIs
<1> HIDE DEF odd
<1>7. StandsP2(times8, G(8 * n))
  BY <1>5, <1>6, P3ToP2Is, Times8Is
<1> HIDE DEF times8
<1>8. StandsP3(times16, G(16 * n))
  <2>1. 8 * n \in Int /\ 2 * (8 * n) = 16 * n
    OBVIOUS
  <2> QED
    BY <1>7, <2>1, DblStands
<1> HIDE DEF times16
<1>9. PICK w : IsPartial(w, 16 * n, e, 0)
  <2>1. 16 * n \in Int
    OBVIOUS
  <2> QED
    BY <1>3, <2>1, PartialExists
<1>10. StandsP3(AddDigits(times16, e, 0), G(w[Half]))
  <2>1. 16 * n \in Int
    OBVIOUS
  <2> QED
    BY <1>3, <1>8, <1>9, <2>1, AddDigitsIs
<1>11. w[Half] = a
  <2>1. IsPartial(w, 16 * v[Half], e, 0)
    BY <1>5, <1>9
  <2>2. Falls(e, r, a)
    BY <1>2 DEF Falls
  <2> QED
    BY <1>0, <1>4, <2>1, <2>2, PartialSums
<1> QED
  BY <1>1, <1>10, <1>11

-----------------------------------------------------------------------------
(* Encodings. *)
LEMMA ToBytesOfP2 ==
    ASSUME NEW p, NEW a, StandsP2(p, a)
    PROVE  GeToBytes(p) = EncodeAffine(a)
<1>1. p \in P2s /\ a \in Curve /\ ~Zero(p.Z) /\ Same(p.X, a.x * p.Z) /\ Same(p.Y, a.y * p.Z)
  BY DEF StandsP2
<1>2. /\ p.X \in Residues /\ p.Y \in Residues /\ p.Z \in Residues
      /\ p.X \in Int /\ p.Y \in Int /\ p.Z \in Int
  BY <1>1, P2Parts
<1>3. a.x \in Residues /\ a.y \in Residues /\ a.x \in Int /\ a.y \in Int
  BY <1>1, PointIs
<1>4. Is(p.X, p.X) /\ Is(p.Y, p.Y) /\ Is(p.Z, p.Z)
  BY <1>2, IsItself
<1>5. PICK x, y \in Residues : /\ x = FeMul(p.X, FeInvert(p.Z)) /\ Same(x * p.Z, p.X)
                               /\ y = FeMul(p.Y, FeInvert(p.Z)) /\ Same(y * p.Z, p.Y)
  BY <1>1, <1>4, QuotientIs
<1>6. x \in Int /\ y \in Int
  BY ResidueIsInt
<1>7. x * p.Z \in Int /\ y * p.Z \in Int /\ a.x * p.Z \in Int /\ a.y * p.Z \in Int
  BY <1>2, <1>3, <1>6
<1>8. Same(x * p.Z, a.x * p.Z) /\ Same(y * p.Z, a.y * p.Z)
  BY <1>1, <1>2, <1>5, <1>7, SameThrough
<1>9. Same(x, a.x) /\ Same(y, a.y)
  BY <1>1, <1>2, <1>3, <1>6, <1>8, Cancel
<1>10. x = a.x /\ y = a.y
  BY <1>3, <1>9, SameResidue
<1> QED
  BY <1>5, <1>10 DEF GeToBytes, EncodeAffine

LEMMA ToBytesIs ==
    ASSUME NEW p, NEW a, StandsP3(p, a)
    PROVE  GeToBytes(p) = EncodeAffine(a)
<1>1. PICK q : q = P3ToP2(p) /\ StandsP2(q, a)
  BY P3ToP2Is
<1>2. q.X = p.X /\ q.Y = p.Y /\ q.Z = p.Z
  BY <1>1 DEF P3ToP2, P2
<1>3. GeToBytes(p) = GeToBytes(q)
  BY <1>2 DEF GeToBytes
<1> QED
  BY <1>1, <1>3, ToBytesOfP2

-----------------------------------------------------------------------------
(* Signs. *)
LEMMA FactorZero ==
    ASSUME NEW u \in Int, NEW v \in Int, Zero(u * v)
    PROVE  Zero(u) \/ Zero(v)
BY NonzeroProduct

LEMMA SquaresSame ==
    ASSUME NEW u \in Int, NEW v \in Int, Same(u * u, v * v)
    PROVE  Same(u, v) \/ Same(u, -v)
<1>1. (u - v) * (u + v) = u * u - v * v /\ u - v \in Int /\ u + v \in Int
  OBVIOUS
<1>2. PICK q \in Int : u * u = v * v + q * Prime
  BY DEF Same
<1>3. u * u - v * v = 0 + q * Prime
  <2>1. PICK a, b, c \in Int : a = u * u /\ b = v * v /\ c = q * Prime
    BY PrimeIs
  <2> QED
    BY <1>2, <2>1
<1>4. Zero((u - v) * (u + v))
  BY <1>1, <1>3 DEF Zero, Same
<1>5. CASE Zero(u - v)
  <2>1. PICK p \in Int : u - v = 0 + p * Prime
    BY <1>5 DEF Zero, Same
  <2>2. PICK c \in Int : c = p * Prime
    BY PrimeIs
  <2>3. u = v + p * Prime
    BY <2>1, <2>2
  <2> QED
    BY <2>3 DEF Same
<1>6. CASE Zero(u + v)
  <2>1. PICK p \in Int : u + v = 0 + p * Prime
    BY <1>6 DEF Zero, Same
  <2>2. PICK c \in Int : c = p * Prime
    BY PrimeIs
  <2>3. u = -v + p * Prime
    BY <2>1, <2>2
  <2> QED
    BY <2>3 DEF Same
<1> QED
  BY <1>1, <1>4, <1>5, <1>6, FactorZero

LEMMA PrimeIsOdd == Prime % 2 = 1
<1>1. PICK p \in Nat : p = Prime /\ p > 2
  BY PrimeIs
<1>2. p \div 2 \in Int /\ p % 2 \in 0..1 /\ p = 2 * (p \div 2) + (p % 2)
  <2>1. 2 \in Nat /\ 2 > 0 /\ p \in Int
    OBVIOUS
  <2>2. p \div 2 \in Int /\ p % 2 \in 0..2 - 1 /\ p = 2 * (p \div 2) + (p % 2)
    BY <2>1, RemainderIs
  <2> QED
    BY <2>2
<1>3. PICK h \in Int : h = p \div 2
  BY <1>2
<1>4. p % 2 # 0
  <2>1. SUFFICES ASSUME p % 2 = 0 PROVE FALSE
    OBVIOUS
  <2>2. p = 2 * h /\ h > 0 /\ h < p
    BY <1>1, <1>2, <1>3, <2>1
  <2>3. h \in Residues /\ h # 0
    BY <1>1, <2>2 DEF Residues
  <2>4. ~Zero(h)
    BY <2>3, IsItself, ZeroIs
  <2>5. Zero(2 * h)
    <3>1. 2 * h = 0 + 1 * Prime
      BY <1>1, <2>2
    <3> QED
      BY <3>1 DEF Zero, Same
  <2>6. 2 \in Int
    OBVIOUS
  <2> QED
    BY <2>4, <2>5, <2>6, FactorZero, NumbersDiffer
<1>5. p % 2 = 1
  BY <1>2, <1>4
<1> QED
  BY <1>1, <1>5

LEMMA SignsDiffer ==
    ASSUME NEW f \in Residues
    PROVE  /\ f = 0 => FeNeg(f) = 0 /\ FeIsNegative(f) = 0
           /\ f # 0 => FeIsNegative(FeNeg(f)) # FeIsNegative(f)
<1>1. PICK p \in Nat : p = Prime /\ p > 2 /\ f \in 0..p - 1
  BY PrimeIs DEF Residues
<1>2. PICK h \in Int : p = 2 * h + 1
  <2>1. 2 \in Nat /\ 2 > 0 /\ p \in Int
    OBVIOUS
  <2>2. p \div 2 \in Int /\ p = 2 * (p \div 2) + (p % 2)
    BY <2>1, RemainderIs
  <2>3. p % 2 = 1
    BY <1>1, PrimeIsOdd
  <2> QED
    BY <2>2, <2>3
<1>3. CASE f = 0
  <2>1. p - 0 = p * 1 + 0 /\ 0 \in 0..p - 1 /\ p - 0 \in Int
    BY <1>1
  <2>2. (p - 0) % p = 0
    BY <1>1, <2>1, RemainderUnique
  <2>3. 0 = 2 * 0 + 0 /\ 0 \in 0..2 - 1 /\ 2 \in Nat /\ 2 > 0 /\ 0 \in Int
    OBVIOUS
  <2>4. 0 % 2 = 0
    BY <2>3, RemainderUnique
  <2>5. FeNeg(f) = 0
    BY <1>1, <1>3, <2>2, Zenon DEF FeNeg
  <2>6. FeIsNegative(f) = 0
    BY <1>3, <2>4, Zenon DEF FeIsNegative
  <2> QED
    BY <1>3, <2>5, <2>6
<1>4. CASE f # 0
  <2>1. PICK g \in Int : g = p - f
    BY <1>1
  <2>2. g = p * 0 + g /\ g \in 0..p - 1 /\ 0 \in Int
    BY <1>1, <1>4, <2>1
  <2>3. g % p = g
    BY <1>1, <2>2, RemainderUnique
  <2>4. FeNeg(f) = g
    BY <1>1, <2>1, <2>3, Zenon DEF FeNeg
  <2>5. PICK r, s \in 0..1, a, b \in Int : r = f % 2 /\ s = g % 2 /\ f = 2 * a + r /\ g = 2 * b + s
    <3>1. 2 \in Nat /\ 2 > 0 /\ f \in Int /\ g \in Int
      BY <1>1
    <3>2. f \div 2 \in Int /\ f % 2 \in 0..2 - 1 /\ f = 2 * (f \div 2) + (f % 2)
      BY <3>1, RemainderIs
    <3>3. g \div 2 \in Int /\ g % 2 \in 0..2 - 1 /\ g = 2 * (g \div 2) + (g % 2)
      BY <3>1, RemainderIs
    <3> QED
      BY <3>2, <3>3
  <2>6. r # s
    BY <1>1, <1>2, <2>1, <2>5
  <2>7. FeIsNegative(f) = r
    BY <2>5 DEF FeIsNegative
  <2>8. FeIsNegative(FeNeg(f)) = s
    BY <2>4, <2>5, Zenon DEF FeIsNegative
  <2> QED
    BY <1>4, <2>6, <2>7, <2>8
<1> QED
  BY <1>3, <1>4

-----------------------------------------------------------------------------
(* The x that goes with a y. *)
LEMMA DenominatorIs ==
    ASSUME NEW x \in Int, NEW y \in Int, NEW v \in Int, v = (y * y) * D + 1,
           Same(y * y - x * x, 1 + D * ((x * x) * (y * y)))
    PROVE  ~Zero(v) /\ Same(y * y - 1, (x * x) * v)
<1>1. PICK d, xx, yy \in Int : d = D /\ xx = x * x /\ yy = y * y
  BY ConstantsAre
<1>2. PICK q \in Int : yy - xx = (1 + d * (xx * yy)) + q * Prime
  BY <1>1 DEF Same
<1>3. PICK c \in Int : c = q * Prime
  BY PrimeIs
<1>4. xx * (yy * d + 1) = d * (xx * yy) + xx
  OBVIOUS
<1>5. yy - 1 = xx * v + q * Prime
  <2>1. v = yy * d + 1
    BY <1>1
  <2>2. PICK m, n \in Int : m = d * (xx * yy) /\ n = xx * v
    OBVIOUS
  <2>3. n = m + xx
    BY <1>4, <2>1, <2>2
  <2> QED
    BY <1>2, <1>3, <2>2, <2>3
<1>6. Same(yy - 1, xx * v)
  BY <1>5 DEF Same
<1>7. ~Zero(v)
  <2>1. SUFFICES ASSUME Zero(v) PROVE FALSE
    OBVIOUS
  <2>2. Same(v, 0)
    BY <2>1 DEF Zero
  <2>3. Same(xx * v, xx * 0) /\ xx * 0 = 0 /\ xx * v \in Int
    <3>1. 0 \in Int /\ Same(xx, xx) /\ xx * 0 = 0 /\ xx * v \in Int
      BY SameItself
    <3>2. Same(xx * v, xx * 0)
      BY <2>2, <3>1, SameProduct
    <3> QED
      BY <3>1, <3>2
  <2>4. Same(yy - 1, 0) /\ yy - 1 \in Int
    BY <1>6, <2>3, SameThrough
  <2>5. PICK m \in Int : yy - 1 = 0 + m * Prime
    BY <2>4 DEF Same
  <2>6. PICK n \in Int : v = 0 + n * Prime
    BY <2>2 DEF Same
  <2>7. PICK p \in Int : p = Prime
    BY PrimeIs
  <2>8. d + 1 = 0 + (n - d * m) * p
    <3>1. yy = m * p + 1 /\ yy * d + 1 = n * p
      <4>1. PICK k, j \in Int : k = m * p /\ j = n * p
        OBVIOUS
      <4>2. yy = k + 1
        BY <2>5, <2>7, <4>1
      <4>3. v = j
        BY <2>6, <2>7, <4>1
      <4> QED
        BY <1>1, <4>1, <4>2, <4>3
    <3>2. (m * p + 1) * d + 1 = (d * m) * p + d + 1
      OBVIOUS
    <3>3. (n - d * m) * p = n * p - (d * m) * p
      OBVIOUS
    <3>4. PICK k, j, i \in Int : k = n * p /\ j = (d * m) * p /\ i = (n - d * m) * p
      OBVIOUS
    <3>5. j + d + 1 = k
      BY <3>1, <3>2, <3>4
    <3>6. i = k - j
      BY <3>3, <3>4
    <3> QED
      BY <3>4, <3>5, <3>6
  <2>9. Same(d + 1, 0)
    <3>1. n - d * m \in Int
      OBVIOUS
    <3> QED
      BY <2>7, <2>8, <3>1 DEF Same
  <2>10. C121666 \in Residues /\ FeMul(C121666, FeAdd(1, D)) = 1
    BY MontgomeryAssumption
  <2>11. C121666 \in Int /\ Is(C121666, C121666)
    BY <2>10, ResidueIsInt, IsItself
  <2>12. Is(FeAdd(1, D), 1 + d)
    BY <1>1, SmallNumbers, ConstantsAre, IsItself, OpsAre
  <2>13. Is(1, C121666 * (1 + d))
    BY <2>10, <2>11, <2>12, OpsAre
  <2>14. Same(1, C121666 * (1 + d))
    BY <2>13 DEF Is
  <2>15. Same(C121666 * (1 + d), C121666 * 0) /\ C121666 * 0 = 0 /\ C121666 * (1 + d) \in Int
    <3>1. 1 + d = d + 1 /\ 1 + d \in Int
      OBVIOUS
    <3> QED
      BY <2>9, <2>11, <3>1, SameItself, SameProduct
  <2>16. Same(1, 0)
    BY <2>14, <2>15, SameThrough
  <2> QED
    BY <2>16, NumbersDiffer DEF Zero
<1> QED
  BY <1>1, <1>6, <1>7

-----------------------------------------------------------------------------
LEMMA SameTimes ==
    ASSUME NEW x \in Int, NEW y \in Int, NEW z \in Int, Same(x, y)
    PROVE  Same(z * x, z * y) /\ Same(x * z, y * z)
BY SameItself, SameProduct

(* ge_frombytes_negate_vartime finds a root. *)
RootOf(Y) ==
    LET u == FeSub(FeSq(Y), 1)
        v == FeAdd(FeMul(FeSq(Y), D), 1)
        v3 == FeMul(FeSq(v), v)
        uv7 == FeMul(FeMul(FeSq(v3), v), u)
        root == FeMul(FeMul(FePow22523(uv7), v3), u)
        vxx == FeMul(FeSq(root), v)
    IN [root |-> root, u |-> u, v |-> v, vxx |-> vxx,
        X |-> IF vxx = u THEN root ELSE FeMul(root, SqrtM1)]

LEMMA MinusOne == Same(SqrtM1 * SqrtM1, -1)
<1>1. Is(SqrtM1, SqrtM1) /\ Is(1, 1)
  BY SmallNumbers, ConstantsAre, IsItself
<1>2. Is(FeSq(SqrtM1), SqrtM1 * SqrtM1) /\ Is(FeNeg(1), -1)
  BY <1>1, OpsAre
<1>3. FeSq(SqrtM1) = FeNeg(1)
  BY CurveAssumption
<1>4. Same(FeSq(SqrtM1), SqrtM1 * SqrtM1) /\ Same(FeSq(SqrtM1), -1)
      /\ FeSq(SqrtM1) \in Int /\ SqrtM1 * SqrtM1 \in Int /\ -1 \in Int
  BY <1>2, <1>3, ResidueIsInt DEF Is
<1> QED
  BY <1>4, SameThrough, SameBack

(* With x = 0 everything is 0; else u v^7 is the square of x v^4. *)
LEMMA RootSquared ==
    ASSUME NEW x \in Int, NEW v \in Int, NEW z, ~Zero(v), Is(z, (x * x) * (v * v * v * v * v * v * v * v))
    PROVE  /\ FePow22523(z) \in Residues
           /\ ~Zero(x) => \E e \in Int : /\ e = 1 \/ e = -1
                                         /\ Same((FePow22523(z) * FePow22523(z)) * z, e)
<1>1. PICK v4 \in Int : v4 = v * v * v * v
  OBVIOUS
<1>2. PICK xv \in Int : xv = x * v4
  OBVIOUS
<1>3. PICK s \in Residues : s = xv % Prime /\ Is(s, xv)
  BY SameRemainder, SameItself, IsRemainder DEF Is
<1>4. xv * xv = (x * x) * (v * v * v * v * v * v * v * v)
  BY <1>1, <1>2
<1>5. Is(FeSq(s), xv * xv) /\ xv * xv \in Int
  <2>1. Is(s, xv)
    BY <1>3
  <2> QED
    BY <2>1, OpsAre
<1>6. FeSq(s) = z
  <2>1. Same(xv * xv, xv * xv) /\ Is(z, xv * xv)
    BY <1>4, <1>5, SameItself
  <2> QED
    BY <1>5, <2>1, IsEqual
<1>7. PICK w \in Residues : w = FePow22523(z) /\ (s # 0 => FeSq(FeMul(FeSq(w), z)) = 1)
  BY <1>6, RootAssumption DEF Is
<1>8. ASSUME ~Zero(x)
      PROVE  \E e \in Int : (e = 1 \/ e = -1) /\ Same((w * w) * z, e)
  <2>1. ~Zero(v4)
    <3>1. PICK v2, v3 \in Int : v2 = v * v /\ v3 = v2 * v /\ v4 = v3 * v
      BY <1>1
    <3> QED
      BY <3>1, NonzeroProduct
  <2>2. s # 0
    BY <1>2, <1>3, <1>8, <2>1, NonzeroProduct, ZeroIs
  <2>3. z \in Residues /\ z \in Int /\ w \in Int /\ Is(z, z) /\ Is(w, w)
    BY ResidueIsInt, IsItself DEF Is
  <2>4. Is(FeSq(w), w * w)
    BY <2>3, OpsAre
  <2>5. Is(FeMul(FeSq(w), z), (w * w) * z)
    BY <2>3, <2>4, OpsAre
  <2>6. PICK m \in Int : m = (w * w) * z
    BY <2>3
  <2>7. Is(1, m * m)
    <3>1. Is(FeSq(FeMul(FeSq(w), z)), m * m)
      BY <2>5, <2>6, OpsAre
    <3> QED
      BY <1>7, <2>2, <3>1
  <2>8. Same(m * m, 1 * 1)
    <3>1. Same(1, m * m) /\ 1 * 1 = 1 /\ m * m \in Int
      BY <2>7 DEF Is
    <3> QED
      BY <3>1, SameBack
  <2>9. Same(m, 1) \/ Same(m, -1)
    BY <2>8, SquaresSame
  <2> QED
    BY <2>6, <2>9
<1> QED
  BY <1>7, <1>8

LEMMA SameSquare == ASSUME NEW x \in Int, NEW y \in Int, Same(x, y) PROVE Same(x * x, y * y)
BY SameProduct

(* X is a root of u / v. *)
LEMMA RootFound ==
    ASSUME NEW a \in Curve, NEW o, o = RootOf(a.y)
    PROVE  /\ o.vxx = o.u \/ FeAdd(o.vxx, o.u) = 0
           /\ o.X \in Residues
           /\ Same(o.X * o.X, a.x * a.x)
<1>1. PICK x, y, d \in Int : /\ x = a.x /\ y = a.y /\ d = D
                             /\ Same(y * y - x * x, 1 + d * ((x * x) * (y * y)))
  BY PointIs, ConstantsAre
<1>2. a.x \in Residues /\ a.y \in Residues /\ Is(a.y, y)
  BY <1>1, PointIs, IsItself
<1> DEFINE u == FeSub(FeSq(a.y), 1)
           v == FeAdd(FeMul(FeSq(a.y), D), 1)
           v3 == FeMul(FeSq(v), v)
           uv7 == FeMul(FeMul(FeSq(v3), v), u)
           root == FeMul(FeMul(FePow22523(uv7), v3), u)
           vxx == FeMul(FeSq(root), v)
           X == IF vxx = u THEN root ELSE FeMul(root, SqrtM1)
<1>3. o.u = u /\ o.vxx = vxx /\ o.X = X
  BY DEF RootOf
<1>4. PICK V \in Int : V = (y * y) * D + 1 /\ ~Zero(V) /\ Same(y * y - 1, (x * x) * V)
  <2>1. (y * y) * D + 1 \in Int /\ Same(y * y - x * x, 1 + D * ((x * x) * (y * y)))
    BY <1>1
  <2>2. PICK V \in Int : V = (y * y) * D + 1
    BY <2>1
  <2>3. ~Zero(V) /\ Same(y * y - 1, (x * x) * V)
    BY <2>1, <2>2, DenominatorIs
  <2> QED
    BY <2>2, <2>3
<1>5. Is(FeSq(a.y), y * y) /\ Is(1, 1) /\ Is(D, D)
  BY <1>2, SmallNumbers, ConstantsAre, IsItself, OpsAre
<1>6. PICK U \in Int : U = (x * x) * V
  OBVIOUS
<1>7. Is(u, U)
  <2>1. Is(u, y * y - 1)
    BY <1>5, OpsAre
  <2> QED
    BY <1>4, <1>6, <2>1, IsThrough
<1>8. Is(v, V)
  <2>1. Is(FeMul(FeSq(a.y), D), (y * y) * D)
    BY <1>5, OpsAre
  <2>2. Is(v, (y * y) * D + 1)
    BY <1>5, <2>1, OpsAre
  <2> QED
    BY <1>4, <2>2
<1> HIDE DEF u, v
<1>9. PICK V3 \in Int : V3 = (V * V) * V
  OBVIOUS
<1>10. Is(v3, V3)
  <2>1. Is(FeSq(v), V * V)
    BY <1>8, OpsAre
  <2> QED
    BY <1>8, <1>9, <2>1, OpsAre
<1> HIDE DEF v3
<1>11. Is(uv7, (x * x) * (V * V * V * V * V * V * V * V))
  <2>1. Is(FeSq(v3), V3 * V3)
    BY <1>10, OpsAre
  <2>2. Is(FeMul(FeSq(v3), v), (V3 * V3) * V)
    BY <1>8, <2>1, OpsAre
  <2>3. Is(uv7, ((V3 * V3) * V) * U)
    BY <1>7, <2>2, OpsAre
  <2>4. ((V3 * V3) * V) * U = (x * x) * (V * V * V * V * V * V * V * V)
    BY <1>6, <1>9
  <2> QED
    BY <2>3, <2>4
<1> HIDE DEF uv7
<1>12. PICK w \in Residues : /\ w = FePow22523(uv7)
                             /\ ~Zero(x) => \E e \in Int : /\ e = 1 \/ e = -1
                                                           /\ Same((w * w) * uv7, e)
  BY <1>4, <1>11, RootSquared
<1>13. w \in Int /\ Is(w, w) /\ uv7 \in Residues /\ uv7 \in Int /\ u \in Residues /\ u \in Int
  BY <1>7, <1>11, ResidueIsInt, IsItself DEF Is
<1>14. PICK R \in Int : R = (w * V3) * U
  BY <1>13
<1>15. Is(root, R)
  <2>1. Is(FeMul(w, v3), w * V3)
    BY <1>10, <1>13, OpsAre
  <2> QED
    BY <1>7, <1>12, <1>14, <2>1, OpsAre
<1> HIDE DEF root
<1>16. Is(vxx, (R * R) * V)
  <2>1. Is(FeSq(root), R * R)
    BY <1>15, OpsAre
  <2> QED
    BY <1>8, <2>1, OpsAre
<1> HIDE DEF vxx
<1>17. PICK e \in Int : (e = 1 \/ e = -1) /\ Same((R * R) * V, e * U)
  <2>1. CASE Zero(x)
    <3>1. Same(x, 0)
      BY <2>1 DEF Zero
    <3>2. Same(x * x, 0 * 0) /\ 0 * 0 = 0 /\ 0 \in Int /\ x * x \in Int
      BY <3>1, SameSquare
    <3>3. Same((x * x) * V, 0 * V) /\ 0 * V = 0
      <4>1. 0 \in Int /\ 0 * V = 0 /\ x * x \in Int /\ Same(x * x, 0)
        BY <3>2
      <4>2. Same((x * x) * V, 0 * V)
        BY <4>1, SameTimes
      <4> QED
        BY <4>1, <4>2
    <3>4. Same(U, 0)
      BY <1>6, <3>3
    <3>5. PICK k \in Int : k = ((w * V3) * R) * V
      BY <1>13
    <3>6. (R * R) * V = k * U
      BY <1>13, <1>14, <3>5
    <3>7. Same(k * U, k * 0) /\ k * 0 = 0 /\ k * U \in Int
      <4>1. 0 \in Int /\ k * 0 = 0 /\ k * U \in Int
        OBVIOUS
      <4>2. Same(k * U, k * 0)
        BY <3>4, <4>1, SameTimes
      <4> QED
        BY <4>1, <4>2
    <3>8. Same(0, 1 * U) /\ 1 * U = U
      BY <3>4, SameBack
    <3>9. Same((R * R) * V, 1 * U)
      BY <3>6, <3>7, <3>8, SameThrough
    <3> QED
      BY <3>9
  <2>2. CASE ~Zero(x)
    <3>1. PICK e \in Int : (e = 1 \/ e = -1) /\ Same((w * w) * uv7, e)
      BY <1>12, <2>2
    <3>2. PICK Z \in Int : Z = (x * x) * (V * V * V * V * V * V * V * V) /\ Same(uv7, Z)
      BY <1>11 DEF Is
    <3>3. PICK W \in Int : W = w * w
      BY <1>13
    <3>4. Same(W * uv7, W * Z) /\ W * uv7 \in Int /\ W * Z \in Int
      <4>1. W \in Int /\ Z \in Int /\ uv7 \in Int /\ Same(uv7, Z)
        BY <1>13, <3>2
      <4>2. Same(W * uv7, W * Z)
        BY <4>1, SameTimes
      <4> QED
        BY <4>1, <4>2
    <3>5. Same(W * Z, e)
      BY <3>1, <3>3, <3>4, SameThrough, SameBack
    <3>6. Same((W * Z) * U, e * U)
      BY <3>4, <3>5, SameItself, SameProduct
    <3>7. (R * R) * V = (W * Z) * U
      <4>1. R * R = W * ((V3 * V3) * (U * U))
        BY <1>13, <1>14, <3>3
      <4>2. ((V3 * V3) * (U * U)) * V = Z * U
        BY <1>6, <1>9, <3>2
      <4>3. PICK m, n \in Int : m = (V3 * V3) * (U * U) /\ n = R * R
        OBVIOUS
      <4>4. (W * m) * V = W * (m * V) /\ W * (Z * U) = (W * Z) * U
        OBVIOUS
      <4> QED
        BY <4>1, <4>2, <4>3, <4>4
    <3> QED
      BY <3>1, <3>6, <3>7
  <2> QED
    BY <2>1, <2>2
<1>18. PICK Q \in Int : Q = (R * R) * V
  OBVIOUS
<1>19. Is(vxx, e * U) /\ e * U \in Int
  BY <1>16, <1>17, IsThrough
<1>20. vxx = u \/ FeAdd(vxx, u) = 0
  <2>1. CASE e = 1
    <3>1. e * U = U /\ Same(U, U)
      BY <2>1, SameItself
    <3> QED
      BY <1>7, <1>19, <3>1, IsEqual
  <2>2. CASE e = -1
    <3>1. Is(FeAdd(vxx, u), e * U + U) /\ e * U + U = 0
      BY <1>7, <1>19, <2>2, OpsAre
    <3>2. Zero(0)
      BY SameItself DEF Zero
    <3> QED
      BY <3>1, <3>2, ZeroIs
  <2> QED
    BY <1>17, <2>1, <2>2
<1>21. PICK S \in Int : Is(X, S) /\ Same((S * S) * V, U)
  <2>1. CASE vxx = u
    <3>1. Is(X, R)
      BY <1>15, <2>1
    <3>2. Same((R * R) * V, U)
      <4>1. Same(vxx, Q) /\ Same(vxx, U) /\ vxx \in Int
        BY <1>7, <1>13, <1>16, <1>18, <2>1 DEF Is
      <4> QED
        BY <1>18, <4>1, SameThrough, SameBack
    <3> QED
      BY <3>1, <3>2
  <2>2. CASE vxx # u
    <3>1. e = -1
      <4>1. e = 1 => e * U = U
        OBVIOUS
      <4>2. Same(U, U)
        BY SameItself
      <4> QED
        BY <1>7, <1>17, <1>19, <2>2, <4>1, <4>2, IsEqual
    <3>2. Is(SqrtM1, SqrtM1) /\ SqrtM1 \in Int
      BY ConstantsAre, IsItself, ResidueIsInt
    <3>3. PICK i \in Int : i = SqrtM1 /\ Same(i * i, -1)
      BY <3>2, MinusOne
    <3>4. Is(X, R * i)
      BY <1>15, <2>2, <3>2, <3>3, OpsAre
    <3>5. ((R * i) * (R * i)) * V = (i * i) * Q
      BY <1>18
    <3>6. Same((i * i) * Q, (-1) * (-U))
      <4>1. e * U = -U /\ -U \in Int /\ -1 \in Int /\ i * i \in Int
        BY <3>1
      <4>2. Same(Q, -U)
        BY <1>17, <1>18, <4>1
      <4> QED
        BY <3>3, <4>1, <4>2, SameProduct
    <3>7. (-1) * (-U) = U /\ R * i \in Int
      OBVIOUS
    <3> QED
      BY <3>4, <3>5, <3>6, <3>7
  <2> QED
    BY <2>1, <2>2
<1> HIDE DEF X
<1>22. X \in Residues /\ X \in Int /\ Same(X, S)
  BY <1>21, ResidueIsInt DEF Is
<1>23. Same(X * X, x * x)
  <2>1. Same((S * S) * V, (x * x) * V) /\ S * S \in Int /\ x * x \in Int
    BY <1>6, <1>21
  <2>2. Same(S * S, x * x)
    BY <1>4, <2>1, Cancel
  <2>3. Same(X * X, S * S) /\ X * X \in Int
    BY <1>22, SameSquare
  <2> QED
    BY <2>1, <2>2, <2>3, SameThrough
<1> QED
  BY <1>1, <1>3, <1>20, <1>22, <1>23

-----------------------------------------------------------------------------
LEMMA NegFieldIs ==
    ASSUME NEW f \in Residues
    PROVE  FeNeg(f) \in Residues /\ FeNeg(f) \in Int /\ Same(FeNeg(f), -f) /\ FeNeg(FeNeg(f)) = f
<1>1. f \in Int /\ Is(f, f)
  BY ResidueIsInt, IsItself
<1>2. Is(FeNeg(f), -f)
  BY <1>1, OpsAre
<1>3. Is(FeNeg(FeNeg(f)), -(-f)) /\ -(-f) = f
  BY <1>1, <1>2, OpsAre
<1>4. FeNeg(FeNeg(f)) = f
  BY <1>1, <1>3, SameItself, IsEqual
<1> QED
  BY <1>2, <1>4, ResidueIsInt DEF Is

LEMMA NegNeg == ASSUME NEW a \in Curve PROVE NegOf(NegOf(a)) = a
<1>1. a.x \in Residues /\ a = Affine(a.x, a.y)
  BY PointIs
<1>2. FeNeg(FeNeg(a.x)) = a.x
  BY <1>1, NegFieldIs
<1> QED
  BY <1>1, <1>2, AffineIs DEF NegOf

LEMMA ResidueRemainder == ASSUME NEW f \in Residues PROVE f % Prime = f
<1>1. f \in Int /\ f % Prime \in Residues /\ Same(f % Prime, f)
  BY ResidueIsInt, SameRemainder
<1> QED
  BY <1>1, SameResidue

(* A point comes out of whatever has its y, reduced, and its sign; a point *)
(* with x = 0 comes out with either sign.                                  *)
LEMMA DecodeAs ==
    ASSUME NEW a \in Curve, NEW s, s.y % Prime = a.y, a.x = 0 \/ FeIsNegative(a.x) = s.sign
    PROVE  /\ GeFromBytesNegate(s) = P3(FeNeg(a.x), a.y, 1, FeMul(FeNeg(a.x), a.y))
           /\ StandsP3(GeFromBytesNegate(s), NegOf(a))
<1>1. a.x \in Residues /\ a.y \in Residues /\ a.x \in Int /\ a.y \in Int
  BY PointIs
<1>4. PICK o : o = RootOf(a.y)
  OBVIOUS
<1>5. (o.vxx = o.u \/ FeAdd(o.vxx, o.u) = 0) /\ o.X \in Residues /\ Same(o.X * o.X, a.x * a.x)
  BY <1>4, RootFound
<1> DEFINE signed == IF FeIsNegative(o.X) = s.sign THEN FeNeg(o.X) ELSE o.X
<1>6. GeFromBytesNegate(s) = P3(signed, a.y, 1, FeMul(signed, a.y))
  <2>1. GeFromBytesNegate(s) = IF o.vxx # o.u /\ FeAdd(o.vxx, o.u) # 0 THEN NoPoint
                               ELSE P3(signed, a.y, 1, FeMul(signed, a.y))
    BY <1>4 DEF GeFromBytesNegate, RootOf
  <2> QED
    BY <1>5, <2>1
<1>7. signed = FeNeg(a.x)
  <2>1. o.X = a.x \/ o.X = FeNeg(a.x)
    <3>1. o.X \in Int
      BY <1>5, ResidueIsInt
    <3>2. Same(o.X, a.x) \/ Same(o.X, -a.x)
      BY <1>1, <1>5, <3>1, SquaresSame
    <3>3. CASE Same(o.X, a.x)
      BY <1>1, <1>5, <3>3, SameResidue
    <3>4. CASE Same(o.X, -a.x)
      <4>2. -a.x \in Int
        BY <1>1
      <4>4. FeNeg(a.x) \in Residues /\ Same(FeNeg(a.x), -a.x)
        BY <1>1, NegFieldIs
      <4>1. Is(o.X, -a.x) /\ Is(FeNeg(a.x), -a.x)
        BY <1>5, <3>4, <4>2, <4>4 DEF Is
      <4>3. Same(-a.x, -a.x)
        BY <4>2, SameItself
      <4> QED
        BY <4>1, <4>3, IsEqual
    <3> QED
      BY <3>2, <3>3, <3>4
  <2>2. CASE a.x = 0
    <3>1. FeNeg(a.x) = 0
      BY <1>1, <2>2, SignsDiffer
    <3> QED
      BY <2>1, <2>2, <3>1
  <2>3. CASE a.x # 0 /\ o.X = a.x
    BY <2>3
  <2>4. CASE a.x # 0 /\ o.X = FeNeg(a.x) /\ o.X # a.x
    <3>1. FeIsNegative(o.X) # s.sign
      BY <1>1, <2>4, SignsDiffer
    <3> QED
      BY <2>4, <3>1
  <2> QED
    BY <2>1, <2>2, <2>3, <2>4
<1> HIDE DEF signed
<1>8. PICK x, y, t \in Residues : x = FeNeg(a.x) /\ y = a.y /\ t = FeMul(x, y) /\ Is(t, x * y) /\ x \in Int /\ y \in Int
  <2>1. FeNeg(a.x) \in Residues
    BY <1>1, NegFieldIs
  <2>2. Is(FeMul(FeNeg(a.x), a.y), FeNeg(a.x) * a.y)
    BY <1>1, <2>1, IsItself, OpsAre
  <2> QED
    BY <1>1, <2>1, <2>2, ResidueIsInt DEF Is
<1>9. GeFromBytesNegate(s) = P3(x, y, 1, t)
  BY <1>6, <1>7, <1>8
<1>10. /\ P3(x, y, 1, t) \in P3s /\ P3(x, y, 1, t).X = x /\ P3(x, y, 1, t).Y = y
       /\ P3(x, y, 1, t).Z = 1 /\ P3(x, y, 1, t).T = t
  BY SmallNumbers, P3Make
<1>11. NegOf(a).x = x /\ NegOf(a).y = y /\ NegOf(a) \in Curve
  BY <1>8, AffineIs, NegIs DEF NegOf
<1>12. x * 1 = x /\ y * 1 = y /\ (x * y) * 1 = x * y /\ x * y \in Int
  BY <1>8
<1>13. Same(x, x * 1) /\ Same(y, y * 1) /\ Same(t, (x * y) * 1)
  BY <1>8, <1>12, SameItself DEF Is
<1>14. StandsP3(GeFromBytesNegate(s), NegOf(a))
  BY <1>9, <1>10, <1>11, <1>13, NumbersDiffer DEF StandsP3
<1> QED
  BY <1>6, <1>7, <1>14

LEMMA DecodeIs ==
    ASSUME NEW a \in Curve
    PROVE  StandsP3(GeFromBytesNegate(EncodeAffine(a)), NegOf(a))
<1>1. a.y \in Residues
  BY PointIs
<1>2. PICK s : s = EncodeAffine(a) /\ s.y = a.y /\ s.sign = FeIsNegative(a.x)
  <2>1. EncodeAffine(a).y = a.y /\ EncodeAffine(a).sign = FeIsNegative(a.x)
    BY DEF EncodeAffine, Encoding
  <2> QED
    BY <2>1
<1>3. s.y % Prime = a.y
  BY <1>1, <1>2, ResidueRemainder
<1> QED
  BY <1>2, <1>3, DecodeAs

(* ed25519_add_scalar negates it back.                                     *)
LEMMA NegStands ==
    ASSUME NEW p, NEW a, StandsP3(p, a)
    PROVE  StandsP3([p EXCEPT !.X = FeNeg(@), !.T = FeNeg(@)], NegOf(a))
<1>1. p \in P3s /\ a \in Curve /\ ~Zero(p.Z)
      /\ Same(p.X, a.x * p.Z) /\ Same(p.Y, a.y * p.Z) /\ Same(p.T, (a.x * a.y) * p.Z)
  BY DEF StandsP3
<1>2. /\ p.X \in Residues /\ p.Y \in Residues /\ p.Z \in Residues /\ p.T \in Residues
      /\ p.X \in Int /\ p.Y \in Int /\ p.Z \in Int /\ p.T \in Int
  BY <1>1, P3Parts
<1>3. a.x \in Residues /\ a.y \in Residues /\ a.x \in Int /\ a.y \in Int
  BY <1>1, PointIs
<1>4. PICK x, t, u \in Residues : /\ x = FeNeg(p.X) /\ t = FeNeg(p.T) /\ u = FeNeg(a.x)
                                  /\ Same(x, -p.X) /\ Same(t, -p.T) /\ Same(u, -a.x)
                                  /\ x \in Int /\ t \in Int /\ u \in Int
  BY <1>2, <1>3, NegFieldIs
<1> DEFINE q == [p EXCEPT !.X = FeNeg(@), !.T = FeNeg(@)]
<1>5. q.X = x /\ q.Y = p.Y /\ q.Z = p.Z /\ q.T = t /\ q \in P3s
  BY <1>1, <1>4 DEF P3s
<1> HIDE DEF q
<1>6. NegOf(a).x = u /\ NegOf(a).y = a.y /\ NegOf(a) \in Curve
  BY <1>1, <1>4, AffineIs, NegIs DEF NegOf
<1>7. PICK X, Tp, Zp, b, c \in Int : X = p.X /\ Tp = p.T /\ Zp = p.Z /\ b = a.x /\ c = a.y
                                     /\ Same(X, b * Zp) /\ Same(Tp, (b * c) * Zp)
                                     /\ Same(x, -X) /\ Same(t, -Tp) /\ Same(u, -b)
  BY <1>1, <1>2, <1>3, <1>4
<1>8. PICK m, n, k, j \in Int : m = b * Zp /\ n = (b * c) * Zp /\ k = u * Zp /\ j = (u * c) * Zp
  BY <1>4
<1>9. Same(k, -m)
  <2>1. -b \in Int /\ (-b) * Zp = -m
    BY <1>8
  <2>2. Same(u * Zp, (-b) * Zp)
    BY <1>4, <1>7, <2>1, SameTimes
  <2> QED
    BY <1>8, <2>1, <2>2
<1>10. Same(j, -n)
  <2>1. -b \in Int /\ -m \in Int /\ (-m) * c = -n /\ k * c = j
    BY <1>4, <1>8
  <2>2. Same(k * c, (-m) * c)
    BY <1>9, <2>1, SameTimes
  <2> QED
    BY <2>1, <2>2
<1>11. Same(-X, -m) /\ Same(-Tp, -n) /\ -X \in Int /\ -Tp \in Int /\ -m \in Int /\ -n \in Int
  <2>1. Same(0, 0) /\ 0 \in Int
    BY SameItself
  <2>2. Same(0 - X, 0 - m) /\ Same(0 - Tp, 0 - n)
    BY <1>7, <1>8, <2>1, SamePlus
  <2>3. 0 - X = -X /\ 0 - m = -m /\ 0 - Tp = -Tp /\ 0 - n = -n
    OBVIOUS
  <2> QED
    BY <2>2, <2>3
<1>12. Same(x, k) /\ Same(t, j)
  <2>1. Same(x, -m) /\ Same(t, -n)
    BY <1>4, <1>7, <1>11, SameThrough
  <2>2. Same(-m, k) /\ Same(-n, j)
    BY <1>9, <1>10, <1>11, SameBack
  <2> QED
    BY <1>4, <1>11, <2>1, <2>2, SameThrough
<1>13. Same(q.X, NegOf(a).x * q.Z) /\ Same(q.T, (NegOf(a).x * NegOf(a).y) * q.Z)
  BY <1>5, <1>6, <1>7, <1>8, <1>12
<1>14. Same(q.Y, NegOf(a).y * q.Z) /\ ~Zero(q.Z)
  BY <1>1, <1>5, <1>6
<1>15. StandsP3(q, NegOf(a))
  BY <1>5, <1>6, <1>13, <1>14 DEF StandsP3
<1> QED
  BY <1>15 DEF q

-----------------------------------------------------------------------------
(* The scalars of the key pairs. *)
LEMMA PublicIs == ASSUME NEW a, Short(a) PROVE GeToBytes(GeScalarMultBase(a)) = EncodeAffine(G(a))
BY ScalarMultBaseIs, ToBytesIs

LEMMA TopTwos ==
    /\ Two[ScalarBits - 1] = 2 * Two[ScalarBits - 2] /\ Two[ScalarBits - 2] = 2 * Two[ScalarBits - 3]
    /\ Two[ScalarBits - 3] \in Nat /\ Two[ScalarBits - 3] > 0
    /\ Two[ScalarBits - 2] \in Nat /\ Two[ScalarBits - 2] > 0
    /\ Two[ScalarBits - 1] \in Nat /\ Two[ScalarBits - 1] > 0
<1>1. PICK m \in Nat : m = ScalarBits /\ m >= 8
  BY DigitsAre
<1>2. /\ m - 3 \in 0..m - 1 /\ m - 2 \in 0..m - 1 /\ (m - 3) + 1 = m - 2 /\ (m - 2) + 1 = m - 1
      /\ m - 3 \in 0..m /\ m - 2 \in 0..m /\ m - 1 \in 0..m
  BY <1>1
<1> QED
  BY <1>1, <1>2, TwoIs

(* The scalars that reach ge_scalarmult_base have their top bit clear: the *)
(* clamped hash, the scalar added, the sum reduced modulo the order.       *)
LEMMA ClampIsShort == ASSUME NEW e \in Nat PROVE Short(Clamp(e))
<1>1. PICK t \in Nat : t = Two[ScalarBits - 2] /\ t > 0 /\ Two[ScalarBits - 1] = 2 * t
  BY TopTwos
<1>2. e % t \in 0..t - 1
  BY <1>1, QuotientNat
<1>3. PICK r \in Nat : r = e % t /\ r < t
  BY <1>2
<1>4. PICK q \in Nat : q = r \div 8 /\ 8 * q <= r
  <2>1. r \div 8 \in Nat /\ r = 8 * (r \div 8) + (r % 8) /\ r % 8 \in 0..8 - 1
    BY QuotientNat
  <2>2. PICK q \in Nat, s \in 0..7 : q = r \div 8 /\ s = r % 8
    BY <2>1
  <2>3. r = 8 * q + s
    BY <2>1, <2>2
  <2> QED
    BY <2>2, <2>3
<1>5. Clamp(e) = t + 8 * q
  BY <1>1, <1>3, <1>4, Zenon DEF Clamp
<1>6. t + 8 * q \in Nat /\ t + 8 * q < 2 * t
  BY <1>3, <1>4
<1> QED
  BY <1>1, <1>5, <1>6 DEF Short

LEMMA TopBitIsShort == ASSUME NEW e \in Nat PROVE Short(TopBitCleared(e))
<1>1. PICK t \in Nat : t = Two[ScalarBits - 1] /\ t > 0
  BY TopTwos
<1>2. e % t \in 0..t - 1
  BY <1>1, QuotientNat
<1>3. e % t \in Nat /\ e % t < t
  BY <1>1, <1>2
<1> QED
  BY <1>1, <1>3 DEF Short, TopBitCleared

LEMMA ReducedIsShort == ASSUME NEW n \in Int PROVE Short(n % L)
<1>1. PICK r \in Nat : r = n % L /\ r < L
  BY RemainderInNat
<1>2. PICK l \in Nat : l = L /\ l < Two[ScalarBits - 3]
  BY OrderAssumption
<1>3. PICK t \in Nat : t = Two[ScalarBits - 3] /\ Two[ScalarBits - 1] = 2 * (2 * t)
  BY TopTwos
<1>4. r < 2 * (2 * t)
  BY <1>1, <1>2, <1>3
<1> QED
  BY <1>1, <1>3, <1>4 DEF Short

(* ed25519_add_scalar, on either key. *)
LEMMA MovedPublic ==
    ASSUME NEW a, Short(a), NEW scalar \in Nat
    PROVE  /\ AddScalarPublic(EncodeAffine(G(a)), scalar) = EncodeAffine(G(TopBitCleared(scalar) + a))
           /\ TopBitCleared(scalar) + a \in Int
<1>1. a \in Int
  BY DEF Short
<1>2. PICK t \in Int : t = TopBitCleared(scalar) /\ Short(t)
  BY TopBitIsShort DEF Short
<1>3. G(a) \in Curve
  BY <1>1, GIsPoint
<1> DEFINE A == GeFromBytesNegate(EncodeAffine(G(a)))
           T == [A EXCEPT !.X = FeNeg(@), !.T = FeNeg(@)]
           nB == GeScalarMultBase(t)
<1>4. StandsP3(A, NegOf(G(a)))
  BY <1>3, DecodeIs
<1>5. StandsP3(T, G(a))
  <2> HIDE DEF A
  <2>1. StandsP3(T, NegOf(NegOf(G(a))))
    BY <1>4, NegStands
  <2> QED
    BY <1>3, <2>1, NegNeg
<1>6. StandsP3(nB, G(t))
  BY <1>2, ScalarMultBaseIs
<1>7. AddScalarPublic(EncodeAffine(G(a)), scalar) = GeToBytes(P1P1ToP3(GeAdd(nB, P3ToCached(T))))
  BY <1>2 DEF AddScalarPublic
<1> HIDE DEF T, nB
<1>8. StandsP1P1(GeAdd(nB, P3ToCached(T)), AddAffine(G(t), G(a)))
  BY <1>5, <1>6, AddIs
<1>9. StandsP3(P1P1ToP3(GeAdd(nB, P3ToCached(T))), G(t + a))
  BY <1>1, <1>8, FromP1P1Is, GAdds
<1>10. GeToBytes(P1P1ToP3(GeAdd(nB, P3ToCached(T)))) = EncodeAffine(G(t + a))
  BY <1>9, ToBytesIs
<1> QED
  BY <1>1, <1>2, <1>7, <1>10

LEMMA GOfRemainder == ASSUME NEW n \in Int PROVE G(n % L) = G(n)
<1>1. PICK r \in Nat : r = n % L
  BY RemainderInNat
<1>2. G(r) = Multiples(B, r)
  BY GOfNat
<1> QED
  BY <1>1, <1>2 DEF G

LEMMA MovedPrivate ==
    ASSUME NEW priv, Short(priv.a), NEW scalar \in Nat
    PROVE  /\ Short(AddScalarPrivate(priv, scalar).a)
           /\ G(AddScalarPrivate(priv, scalar).a) = G(TopBitCleared(scalar) + priv.a)
           /\ PublicOf(AddScalarPrivate(priv, scalar)) = EncodeAffine(G(TopBitCleared(scalar) + priv.a))
<1>1. PICK a, t \in Int : a = priv.a /\ t = TopBitCleared(scalar)
  BY TopBitIsShort DEF Short
<1>2. PICK q : q = AddScalarPrivate(priv, scalar)
  OBVIOUS
<1>3. q.a = (1 * t + a) % L
  BY <1>1, <1>2 DEF AddScalarPrivate, ScMulAdd
<1>4. 1 * t + a = t + a /\ t + a \in Int
  OBVIOUS
<1>5. q.a = (t + a) % L
  BY <1>3, <1>4, Zenon
<1>6. Short(q.a)
  BY <1>4, <1>5, ReducedIsShort
<1>7. G(q.a) = G(t + a)
  BY <1>4, <1>5, GOfRemainder
<1>8. PublicOf(q) = EncodeAffine(G(q.a))
  BY <1>6, PublicIs DEF PublicOf
<1> QED
  BY <1>1, <1>2, <1>6, <1>7, <1>8

-----------------------------------------------------------------------------
(* A key pair: the scalar is one that ge_scalarmult_base takes, and the    *)
(* public key is what it gives, on both sides.                             *)
PairIs(pair, known) ==
    /\ Short(pair.priv.a)
    /\ pair.pub = EncodeAffine(G(pair.priv.a))
    /\ known = pair.pub

PairsInv == \A e \in Side :
    static[e] # None => PairIs(static[e], peerKey[Other(e)])
HoldersInv == DOMAIN static = Side /\ DOMAIN peerKey = Side
KeysInv == HoldersInv /\ PairsInv

LEMMA SidesAre == \A e \in Side : Other(e) \in Side /\ Other(e) # e /\ Other(Other(e)) = e
BY DEF Side, Other

(* A pair is one when it is made, and after a scalar was added to it.      *)
LEMMA CreatedIs ==
    ASSUME NEW seed \in Seeds
    PROVE  PairIs(CreateKeypair(seed), CreateKeypair(seed).pub)
<1>1. PICK a : a = Clamp(Sha512(<<seed>>).lo) /\ Short(a)
  BY HelloAssumption, ClampIsShort
<1>2. CreateKeypair(seed).pub = GeToBytes(GeScalarMultBase(a)) /\ CreateKeypair(seed).priv.a = a
  BY <1>1 DEF CreateKeypair
<1> QED
  BY <1>1, <1>2, PublicIs DEF PairIs

LEMMA MovedIs ==
    ASSUME NEW pair, NEW known, PairIs(pair, known), NEW scalar \in Scalars,
           NEW priv, priv = AddScalarPrivate(pair.priv, scalar)
    PROVE  PairIs([pub |-> PublicOf(priv), priv |-> priv], AddScalarPublic(known, scalar))
<1>1. Short(pair.priv.a) /\ known = EncodeAffine(G(pair.priv.a)) /\ scalar \in Nat
  BY HelloAssumption DEF PairIs
<1>2. PICK n : n = TopBitCleared(scalar) + pair.priv.a
  OBVIOUS
<1>3. AddScalarPublic(known, scalar) = EncodeAffine(G(n)) /\ n \in Int
  BY <1>1, <1>2, MovedPublic
<1>4. Short(priv.a) /\ PublicOf(priv) = EncodeAffine(G(n)) /\ G(priv.a) = G(n)
  BY <1>1, <1>2, MovedPrivate
<1> QED
  BY <1>3, <1>4 DEF PairIs

(* The invariant, at first and over each action that writes a key.         *)
LEMMA KeysInitially == Init => KeysInv
<1>1. SUFFICES ASSUME Init PROVE KeysInv
  OBVIOUS
<1>2. static = [e \in Side |-> None] /\ peerKey = [e \in Side |-> None]
  BY <1>1 DEF Init
<1> QED
  BY <1>2 DEF KeysInv, HoldersInv, PairsInv

LEMMA CreateStaticKeeps ==
    ASSUME KeysInv, NEW e \in Side, NEW seed \in Seeds, CreateStatic(e, seed)
    PROVE  KeysInv'
<1>1. PICK pair : pair = CreateKeypair(seed) /\ PairIs(pair, pair.pub)
  BY CreatedIs
<1>2. static' = [static EXCEPT ![e] = pair] /\ peerKey' = [peerKey EXCEPT ![Other(e)] = pair.pub]
  BY <1>1 DEF CreateStatic
<1>3. DOMAIN static = Side /\ DOMAIN peerKey = Side
  BY DEF KeysInv, HoldersInv
<1>4. HoldersInv'
  BY <1>2, <1>3 DEF HoldersInv
<1>5. ASSUME NEW s \in Side, static'[s] # None PROVE PairIs(static'[s], peerKey'[Other(s)])
  <2>1. CASE s = e
    <3>1. static'[s] = pair /\ peerKey'[Other(s)] = pair.pub
      BY <1>2, <1>3, <2>1, SidesAre
    <3> QED
      BY <1>1, <3>1
  <2>2. CASE s # e
    <3>1. Other(s) = e /\ Other(s) # Other(e)
      BY <2>2 DEF Side, Other
    <3>2. static'[s] = static[s] /\ peerKey'[Other(s)] = peerKey[Other(s)]
      BY <1>2, <1>3, <2>2, <3>1, SidesAre
    <3> QED
      BY <1>5, <3>2 DEF KeysInv, PairsInv
  <2> QED
    BY <2>1, <2>2
<1>6. PairsInv'
  BY <1>5 DEF PairsInv
<1> QED
  BY <1>4, <1>6 DEF KeysInv

LEMMA AddScalarKeeps ==
    ASSUME KeysInv, NEW e \in Side, NEW scalar \in Scalars, AddScalar(e, scalar)
    PROVE  KeysInv'
<1>1. PICK priv : priv = AddScalarPrivate(static[e].priv, scalar)
  OBVIOUS
<1>2. PICK pair : pair = [pub |-> PublicOf(priv), priv |-> priv]
  OBVIOUS
<1>3. /\ static[e] # None
      /\ static' = [static EXCEPT ![e] = pair]
      /\ peerKey' = [peerKey EXCEPT ![Other(e)] = AddScalarPublic(@, scalar)]
  BY <1>1, <1>2 DEF AddScalar
<1>4. DOMAIN static = Side /\ DOMAIN peerKey = Side
  BY DEF KeysInv, HoldersInv
<1>5. HoldersInv'
  BY <1>3, <1>4 DEF HoldersInv
<1>6. ASSUME NEW s \in Side, static'[s] # None PROVE PairIs(static'[s], peerKey'[Other(s)])
  <2>1. CASE s = e
    <3>1. static'[s] = pair /\ peerKey'[Other(s)] = AddScalarPublic(peerKey[Other(e)], scalar)
      BY <1>3, <1>4, <2>1, SidesAre
    <3>2. PairIs(static[e], peerKey[Other(e)])
      BY <1>3 DEF KeysInv, PairsInv
    <3>3. PairIs(pair, AddScalarPublic(peerKey[Other(e)], scalar))
      BY <1>1, <1>2, <3>2, MovedIs
    <3> QED
      BY <3>1, <3>3
  <2>2. CASE s # e
    <3>1. Other(s) = e /\ Other(s) # Other(e)
      BY <2>2 DEF Side, Other
    <3>2. static'[s] = static[s] /\ peerKey'[Other(s)] = peerKey[Other(s)]
      BY <1>3, <1>4, <2>2, <3>1, SidesAre
    <3> QED
      BY <1>6, <3>2 DEF KeysInv, PairsInv
  <2> QED
    BY <2>1, <2>2
<1>7. PairsInv'
  BY <1>6 DEF PairsInv
<1> QED
  BY <1>5, <1>7 DEF KeysInv

LEMMA KeysUntouched ==
    ASSUME KeysInv, UNCHANGED <<static, peerKey>>
    PROVE  KeysInv'
BY DEF KeysInv, HoldersInv, PairsInv

LEMMA KeysNext == KeysInv /\ [Next]_vars => KeysInv'
<1>1. SUFFICES ASSUME KeysInv, [Next]_vars PROVE KeysInv'
  OBVIOUS
<1>2. CASE UNCHANGED vars
  BY <1>1, <1>2, KeysUntouched DEF vars
<1>3. CASE Next
  <2>1. PICK e \in Side :
            \/ \E seed \in Seeds : CreateStatic(e, seed)
            \/ \E scalar \in Scalars : AddScalar(e, scalar)
            \/ \E random \in Randoms : NewSession(e, random)
            \/ SendHandshake(e)
            \/ \E pub \in StrangeKeys \cup {peerKey[e]}, R \in StrangeR, S \in StrangeS, u \in StrangeU :
                   StrangeHello(e, pub, R, S, u)
            \/ OnHandShake(e)
            \/ ExchangeStatic(e)
    BY <1>3 DEF Next
  <2>2. CASE \E seed \in Seeds : CreateStatic(e, seed)
    BY <1>1, <2>2, CreateStaticKeeps
  <2>3. CASE \E scalar \in Scalars : AddScalar(e, scalar)
    BY <1>1, <2>3, AddScalarKeeps
  <2>4. CASE \E random \in Randoms : NewSession(e, random)
    BY <1>1, <2>4, KeysUntouched DEF NewSession
  <2>5. CASE SendHandshake(e)
    BY <1>1, <2>5, KeysUntouched DEF SendHandshake
  <2>6. CASE \E pub \in StrangeKeys \cup {peerKey[e]}, R \in StrangeR, S \in StrangeS, u \in StrangeU :
                 StrangeHello(e, pub, R, S, u)
    BY <1>1, <2>6, KeysUntouched DEF StrangeHello
  <2>7. CASE OnHandShake(e)
    BY <1>1, <2>7, KeysUntouched DEF OnHandShake
  <2>8. CASE ExchangeStatic(e)
    BY <1>1, <2>8, KeysUntouched DEF ExchangeStatic
  <2> QED
    BY <2>1, <2>2, <2>3, <2>4, <2>5, <2>6, <2>7, <2>8
<1> QED
  BY <1>1, <1>2, <1>3

LEMMA KeysInvMatches == KeysInv => KeysMatch
BY DEF KeysInv, PairsInv, PairIs, KeysMatch, Times, G

(* KeysMatch: whatever scalars either side adds and whatever is said to it, *)
(* what a side knows of the other's static key is the public half of what  *)
(* the other signs with, and that is its scalar's multiple of the base point. *)
THEOREM KeysStayPairs == Spec => []KeysMatch
<1> QED
  BY KeysInitially, KeysNext, KeysInvMatches, PTL DEF Spec

-----------------------------------------------------------------------------
(* The multiples of any point, counted by integers. *)
Pos(n) == IF n > 0 THEN n ELSE 0
Mul(a, n) == AddAffine(Multiples(a, Pos(n)), Multiples(NegOf(a), Pos(-n)))

(* Sums of four may be taken in any order.                                 *)
LEMMA AddFour ==
    ASSUME NEW a \in Curve, NEW b \in Curve, NEW c \in Curve, NEW d \in Curve
    PROVE  AddAffine(AddAffine(a, b), AddAffine(c, d)) = AddAffine(AddAffine(a, c), AddAffine(b, d))
<1>1. PICK ab, bc, cd, bd, ac, x, y \in Curve :
         /\ ab = AddAffine(a, b) /\ bc = AddAffine(b, c) /\ cd = AddAffine(c, d)
         /\ bd = AddAffine(b, d) /\ ac = AddAffine(a, c)
         /\ x = AddAffine(b, cd) /\ y = AddAffine(c, bd)
  <2>1. PICK ab, bc \in Curve : ab = AddAffine(a, b) /\ bc = AddAffine(b, c)
    BY AddAssoc
  <2>2. PICK cd, bd, ac \in Curve : cd = AddAffine(c, d) /\ bd = AddAffine(b, d) /\ ac = AddAffine(a, c)
    BY AddAssoc
  <2>3. PICK x, y \in Curve : x = AddAffine(b, cd) /\ y = AddAffine(c, bd)
    BY <2>2, AddAssoc
  <2> QED
    BY <2>1, <2>2, <2>3
<1>2. AddAffine(ab, cd) = AddAffine(a, x)
  BY <1>1, AddAssoc
<1>3. x = AddAffine(bc, d)
  BY <1>1, AddAssoc
<1>4. y = AddAffine(bc, d)
  BY <1>1, AddAssoc, AddCommutes
<1>5. AddAffine(ac, bd) = AddAffine(a, y)
  BY <1>1, AddAssoc
<1> QED
  BY <1>1, <1>2, <1>3, <1>4, <1>5

(* A point has one negative.                                               *)
LEMMA NegUnique ==
    ASSUME NEW p \in Curve, NEW q \in Curve, AddAffine(p, q) = Origin
    PROVE  q = NegOf(p)
<1>1. PICK r \in Curve : r = NegOf(p) /\ AddAffine(p, r) = Origin
  BY NegIs
<1>2. AddAffine(r, p) = Origin
  BY <1>1, AddCommutes
<1>3. AddAffine(AddAffine(r, p), q) = AddAffine(r, AddAffine(p, q))
  BY AddAssoc
<1>4. AddAffine(Origin, q) = q /\ AddAffine(r, Origin) = r
  BY OriginIs, AddNothing, AddCommutes
<1> QED
  BY <1>1, <1>2, <1>3, <1>4

(* The multiples of a point and those of its negative cancel.              *)
LEMMA NegMultiples ==
    ASSUME NEW a \in Curve, NEW n \in Nat
    PROVE  /\ Multiples(a, n) \in Curve /\ Multiples(NegOf(a), n) \in Curve
           /\ AddAffine(Multiples(a, n), Multiples(NegOf(a), n)) = Origin
<1>1. PICK b \in Curve : b = NegOf(a) /\ AddAffine(a, b) = Origin
  BY NegIs
<1> DEFINE A == {m \in Nat : AddAffine(Multiples(a, m), Multiples(b, m)) = Origin}
<1>2. 0 \in A
  <2>1. Multiples(a, 0) = Origin /\ Multiples(b, 0) = Origin
    BY MultiplesIs
  <2> QED
    BY <2>1, OriginIs, AddNothing
<1>3. ASSUME NEW m \in Nat, m \in A PROVE m + 1 \in A
  <2>1. PICK p, q \in Curve : p = Multiples(a, m) /\ q = Multiples(b, m)
    BY MultiplesIs
  <2>2. Multiples(a, m + 1) = AddAffine(p, a) /\ Multiples(b, m + 1) = AddAffine(q, b)
    BY <2>1, MultiplesIs
  <2>3. AddAffine(AddAffine(p, a), AddAffine(q, b)) = AddAffine(AddAffine(p, q), AddAffine(a, b))
    BY AddFour
  <2>4. AddAffine(p, q) = Origin
    BY <1>3, <2>1
  <2>5. AddAffine(Origin, Origin) = Origin
    BY OriginIs, AddNothing
  <2> QED
    BY <1>1, <2>2, <2>3, <2>4, <2>5
<1> HIDE DEF A
<1>4. n \in A
  BY <1>2, <1>3, SetInduction
<1> QED
  BY <1>1, <1>4, MultiplesIs DEF A

(* m - k times a point: m times it and k times its negative.               *)
LEMMA MulOf ==
    ASSUME NEW a \in Curve, NEW m \in Nat, NEW k \in Nat
    PROVE  Mul(a, m - k) = AddAffine(Multiples(a, m), Multiples(NegOf(a), k)) /\ Mul(a, m - k) \in Curve
<1>0. PICK b \in Curve : b = NegOf(a)
  BY NegIs
<1>1. ASSUME NEW p \in Nat, NEW q \in Nat, NEW j \in Nat
      PROVE  AddAffine(Multiples(a, p + j), Multiples(b, q + j)) = AddAffine(Multiples(a, p), Multiples(b, q))
  <2>1. PICK ap, aj, bq, bj \in Curve : /\ ap = Multiples(a, p) /\ aj = Multiples(a, j)
                                        /\ bq = Multiples(b, q) /\ bj = Multiples(b, j)
    BY MultiplesIs
  <2>2. Multiples(a, p + j) = AddAffine(ap, aj) /\ Multiples(b, q + j) = AddAffine(bq, bj)
    BY <2>1, MultiplesAdd
  <2>3. AddAffine(AddAffine(ap, aj), AddAffine(bq, bj)) = AddAffine(AddAffine(ap, bq), AddAffine(aj, bj))
    BY AddFour
  <2>4. AddAffine(aj, bj) = Origin
    BY <1>0, <2>1, NegMultiples
  <2>5. AddAffine(AddAffine(ap, bq), Origin) = AddAffine(ap, bq)
    BY AddAssoc, AddNothing
  <2> QED
    BY <2>1, <2>2, <2>3, <2>4, <2>5
<1>2. Pos(m - k) \in Nat /\ Pos(-(m - k)) \in Nat
  BY DEF Pos
<1>3. Mul(a, m - k) = AddAffine(Multiples(a, Pos(m - k)), Multiples(b, Pos(-(m - k))))
  BY <1>0 DEF Mul
<1>4. CASE m >= k
  <2>1. PICK j \in Nat : j = m - k /\ Pos(m - k) = j /\ Pos(-(m - k)) = 0 /\ m = j + k /\ k = 0 + k
    BY <1>4 DEF Pos
  <2>2. AddAffine(Multiples(a, j + k), Multiples(b, 0 + k)) = AddAffine(Multiples(a, j), Multiples(b, 0))
    BY <1>1
  <2> QED
    BY <1>0, <1>3, <2>1, <2>2, NegMultiples, AddAssoc
<1>5. CASE m < k
  <2>1. PICK j \in Nat : j = k - m /\ Pos(m - k) = 0 /\ Pos(-(m - k)) = j /\ k = j + m /\ m = 0 + m
    BY <1>5 DEF Pos
  <2>2. AddAffine(Multiples(a, 0 + m), Multiples(b, j + m)) = AddAffine(Multiples(a, 0), Multiples(b, j))
    BY <1>1
  <2> QED
    BY <1>0, <1>3, <2>1, <2>2, NegMultiples, AddAssoc
<1> QED
  BY <1>4, <1>5

(* Multiples add up.                                                       *)
LEMMA MulAdds ==
    ASSUME NEW a \in Curve, NEW m \in Int, NEW n \in Int
    PROVE  Mul(a, m) \in Curve /\ Mul(a, m + n) = AddAffine(Mul(a, m), Mul(a, n))
<1>0. PICK b \in Curve : b = NegOf(a)
  BY NegIs
<1>1. PICK p, q, r, s \in Nat : m = p - q /\ n = r - s
  <2>1. \E p, q \in Nat : m = p - q
    <3>1. CASE m >= 0
      <4>1. m \in Nat /\ 0 \in Nat /\ m = m - 0
        BY <3>1
      <4> QED
        BY <4>1
    <3>2. CASE m < 0
      <4>1. -m \in Nat /\ 0 \in Nat /\ m = 0 - (-m)
        BY <3>2
      <4> QED
        BY <4>1
    <3> QED
      BY <3>1, <3>2
  <2>2. \E p, q \in Nat : n = p - q
    <3>1. CASE n >= 0
      <4>1. n \in Nat /\ 0 \in Nat /\ n = n - 0
        BY <3>1
      <4> QED
        BY <4>1
    <3>2. CASE n < 0
      <4>1. -n \in Nat /\ 0 \in Nat /\ n = 0 - (-n)
        BY <3>2
      <4> QED
        BY <4>1
    <3> QED
      BY <3>1, <3>2
  <2> QED
    BY <2>1, <2>2
<1>2. PICK ap, bq, ar, bs \in Curve : /\ ap = Multiples(a, p) /\ bq = Multiples(b, q)
                                      /\ ar = Multiples(a, r) /\ bs = Multiples(b, s)
  BY MultiplesIs
<1>3. Mul(a, m) = AddAffine(ap, bq) /\ Mul(a, n) = AddAffine(ar, bs) /\ Mul(a, m) \in Curve
  BY <1>0, <1>1, <1>2, MulOf
<1>4. m + n = (p + r) - (q + s) /\ p + r \in Nat /\ q + s \in Nat
  BY <1>1
<1>5. Mul(a, m + n) = AddAffine(Multiples(a, p + r), Multiples(b, q + s))
  BY <1>0, <1>4, MulOf
<1>6. Multiples(a, p + r) = AddAffine(ap, ar) /\ Multiples(b, q + s) = AddAffine(bq, bs)
  BY <1>2, MultiplesAdd
<1> QED
  BY <1>3, <1>5, <1>6, AddFour

LEMMA MulOfNat ==
    ASSUME NEW a \in Curve, NEW n \in Nat
    PROVE  Mul(a, n) = Multiples(a, n)
<1>1. Mul(a, n - 0) = AddAffine(Multiples(a, n), Multiples(NegOf(a), 0)) /\ n - 0 = n
  BY MulOf
<1> QED
  BY <1>1, MultiplesIs, NegIs, AddNothing

LEMMA MulSmall == ASSUME NEW a \in Curve PROVE Mul(a, 0) = Origin /\ Mul(a, 1) = a
<1>1. Multiples(a, 0) = Origin /\ Multiples(a, 0 + 1) = AddAffine(Multiples(a, 0), a) /\ 0 + 1 = 1
  BY MultiplesIs
<1>2. AddAffine(Origin, a) = a
  BY OriginIs, AddNothing, AddCommutes
<1> QED
  BY <1>1, <1>2, MulOfNat

LEMMA MulOfMinus ==
    ASSUME NEW a \in Curve, NEW n \in Int
    PROVE  Mul(a, -n) = NegOf(Mul(a, n))
<1>1. -n \in Int /\ n + (-n) = 0
  OBVIOUS
<1>2. PICK p, q \in Curve : p = Mul(a, n) /\ q = Mul(a, -n)
  BY <1>1, MulAdds
<1>3. AddAffine(p, q) = Origin
  BY <1>1, <1>2, MulAdds, MulSmall
<1> QED
  BY <1>2, <1>3, NegUnique

LEMMA MulOfNeg ==
    ASSUME NEW a \in Curve, NEW n \in Nat
    PROVE  Mul(NegOf(a), n) = NegOf(Multiples(a, n))
<1>1. Mul(NegOf(a), n) = Multiples(NegOf(a), n)
  BY NegIs, MulOfNat
<1> QED
  BY <1>1, NegMultiples, NegUnique

(* Two multiples added up: s of a and t of b. *)
Both(a, b, s, t) == AddAffine(Mul(a, s), Mul(b, t))

(* Double both scalars, or raise one.                                      *)
LEMMA BothIs ==
    ASSUME NEW a \in Curve, NEW b \in Curve, NEW s \in Int, NEW t \in Int, NEW d \in Int
    PROVE  /\ Both(a, b, s, t) \in Curve
           /\ Both(a, b, 0, 0) = Origin
           /\ AddAffine(Both(a, b, s, t), Both(a, b, s, t)) = Both(a, b, 2 * s, 2 * t)
           /\ AddAffine(Both(a, b, s, t), Mul(a, d)) = Both(a, b, s + d, t)
           /\ AddAffine(Both(a, b, s, t), Mul(b, d)) = Both(a, b, s, t + d)
<1>1. PICK p, q, c, e \in Curve : p = Mul(a, s) /\ q = Mul(b, t) /\ c = Mul(a, d) /\ e = Mul(b, d)
  BY MulAdds
<1>2. PICK r \in Curve : r = AddAffine(p, q) /\ r = Both(a, b, s, t)
  BY <1>1, AddAssoc DEF Both
<1>3. Both(a, b, 0, 0) = Origin
  BY MulSmall, OriginIs, AddNothing DEF Both
<1>4. AddAffine(r, r) = Both(a, b, 2 * s, 2 * t)
  <2>1. AddAffine(p, p) = Mul(a, s + s) /\ AddAffine(q, q) = Mul(b, t + t)
    BY <1>1, MulAdds
  <2>2. s + s = 2 * s /\ t + t = 2 * t
    OBVIOUS
  <2>3. AddAffine(AddAffine(p, q), AddAffine(p, q)) = AddAffine(AddAffine(p, p), AddAffine(q, q))
    BY AddFour
  <2> QED
    BY <1>2, <2>1, <2>2, <2>3 DEF Both
<1>5. AddAffine(r, c) = Both(a, b, s + d, t)
  <2>1. AddAffine(p, c) = Mul(a, s + d)
    BY <1>1, MulAdds
  <2>2. AddAffine(q, c) = AddAffine(c, q)
    BY AddCommutes
  <2>3. AddAffine(AddAffine(p, q), c) = AddAffine(p, AddAffine(q, c)) /\ AddAffine(AddAffine(p, c), q) = AddAffine(p, AddAffine(c, q))
    BY AddAssoc
  <2> QED
    BY <1>1, <1>2, <2>1, <2>2, <2>3 DEF Both
<1>6. AddAffine(r, e) = Both(a, b, s, t + d)
  <2>1. AddAffine(q, e) = Mul(b, t + d)
    BY <1>1, MulAdds
  <2>2. AddAffine(AddAffine(p, q), e) = AddAffine(p, AddAffine(q, e))
    BY AddAssoc
  <2> QED
    BY <1>1, <1>2, <2>1, <2>2 DEF Both
<1> QED
  BY <1>1, <1>2, <1>3, <1>4, <1>5, <1>6

(* What the tables of points are used for: subtracting is adding the       *)
(* negative.                                                               *)
LEMMA Flips ==
    ASSUME NEW f \in Residues, NEW g \in Residues
    PROVE  /\ FeMul(FeNeg(f), g) = FeNeg(FeMul(f, g))
           /\ FeAdd(f, FeNeg(g)) = FeSub(f, g) /\ FeSub(f, FeNeg(g)) = FeAdd(f, g)
<1>1. Is(f, f) /\ Is(g, g) /\ f \in Int /\ g \in Int
  BY IsItself, ResidueIsInt
<1>2. Is(FeNeg(f), -f) /\ Is(FeNeg(g), -g) /\ Is(FeMul(f, g), f * g) /\ Is(FeSub(f, g), f - g) /\ Is(FeAdd(f, g), f + g)
  BY <1>1, OpsAre
<1>3. Is(FeMul(FeNeg(f), g), (-f) * g) /\ Is(FeNeg(FeMul(f, g)), -(f * g))
      /\ Is(FeAdd(f, FeNeg(g)), f + (-g)) /\ Is(FeSub(f, FeNeg(g)), f - (-g))
  BY <1>1, <1>2, OpsAre
<1>4. (-f) * g = -(f * g) /\ f + (-g) = f - g /\ f - (-g) = f + g /\ -(f * g) \in Int /\ f - g \in Int /\ f + g \in Int
  BY <1>1
<1>5. Same(-(f * g), -(f * g)) /\ Same(f - g, f - g) /\ Same(f + g, f + g)
  BY <1>4, SameItself
<1> QED
  BY <1>2, <1>3, <1>4, <1>5, IsEqual

NegP3(q) == [q EXCEPT !.X = FeNeg(@), !.T = FeNeg(@)]

(* ge_sub adds the negative.                                               *)
LEMMA SubIsAdd ==
    ASSUME NEW p \in P3s, NEW q \in P3s
    PROVE  GeSub(p, P3ToCached(q)) = GeAdd(p, P3ToCached(NegP3(q)))
<1>1. PICK x, y, z, t, pt \in Residues : x = q.X /\ y = q.Y /\ z = q.Z /\ t = q.T /\ pt = p.T
  BY P3Parts
<1>2. NegP3(q).X = FeNeg(x) /\ NegP3(q).Y = y /\ NegP3(q).Z = z /\ NegP3(q).T = FeNeg(t)
  BY <1>1 DEF NegP3, P3s
<1>3. PICK dd \in Residues : dd = FeAdd(D, D)
  BY ConstantsAre, IsItself, OpsAre DEF Is
<1>4. PICK m \in Residues : m = FeMul(t, dd)
  BY IsItself, OpsAre DEF Is
<1>5. FeAdd(y, FeNeg(x)) = FeSub(y, x) /\ FeSub(y, FeNeg(x)) = FeAdd(y, x) /\ FeMul(FeNeg(t), dd) = FeNeg(m)
      /\ FeMul(FeNeg(m), pt) = FeNeg(FeMul(m, pt))
  BY <1>4, Flips
<1> DEFINE c == P3ToCached(q)
           n == P3ToCached(NegP3(q))
<1>6. c.YplusX = FeAdd(y, x) /\ c.YminusX = FeSub(y, x) /\ c.Z = z /\ c.T2d = m
  BY <1>1, <1>3, <1>4 DEF P3ToCached, YPlusX, YMinusX
<1>7. n.YplusX = FeSub(y, x) /\ n.YminusX = FeAdd(y, x) /\ n.Z = z /\ n.T2d = FeNeg(m)
  BY <1>2, <1>3, <1>5 DEF P3ToCached, YPlusX, YMinusX
<1> HIDE DEF c, n
<1>8. GeSub(p, c) = GeAdd(p, n)
  BY <1>1, <1>5, <1>6, <1>7 DEF GeSub, GeAdd
<1> QED
  BY <1>8 DEF c, n

StandsCached(c, a) == \E q : StandsP3(q, a) /\ c = P3ToCached(q)

(* ge_add and ge_sub, the second operand from the table of the point.      *)
LEMMA CachedAdds ==
    ASSUME NEW p, NEW a, StandsP3(p, a), NEW c, NEW b, StandsCached(c, b)
    PROVE  /\ a \in Curve /\ b \in Curve
           /\ StandsP1P1(GeAdd(p, c), AddAffine(a, b))
           /\ StandsP1P1(GeSub(p, c), AddAffine(a, NegOf(b)))
<1>1. PICK q : StandsP3(q, b) /\ c = P3ToCached(q)
  BY DEF StandsCached
<1>2. p \in P3s /\ q \in P3s /\ a \in Curve /\ b \in Curve
  BY <1>1 DEF StandsP3
<1>3. StandsP3(NegP3(q), NegOf(b))
  BY <1>1, NegStands DEF NegP3
<1>4. GeSub(p, c) = GeAdd(p, P3ToCached(NegP3(q)))
  BY <1>1, <1>2, SubIsAdd
<1>5. StandsP1P1(GeAdd(p, P3ToCached(NegP3(q))), AddAffine(a, NegOf(b)))
  BY <1>3, AddIs
<1>6. StandsP1P1(GeAdd(p, P3ToCached(q)), AddAffine(a, b))
  BY <1>1, AddIs
<1> QED
  BY <1>1, <1>2, <1>4, <1>5, <1>6

(* ge_madd and ge_msub, the second operand from the table of B.            *)
LEMMA PrecompAdds ==
    ASSUME NEW p, NEW a, StandsP3(p, a), NEW b \in Curve
    PROVE  /\ a \in Curve
           /\ StandsP1P1(GeMadd(p, Precomp(b)), AddAffine(a, b))
           /\ StandsP1P1(GeMsub(p, Precomp(b)), AddAffine(a, NegOf(b)))
<1>1. p \in P3s /\ a \in Curve
  BY DEF StandsP3
<1>2. PICK c \in Curve : c = NegOf(b)
  BY NegIs
<1>3. /\ Precomp(c).yplusx = Precomp(b).yminusx
      /\ Precomp(c).yminusx = Precomp(b).yplusx
      /\ Precomp(c).xy2d = FeNeg(Precomp(b).xy2d)
  BY <1>2, PrecompOfNeg
<1>4. p.T \in Residues /\ Precomp(b).xy2d \in Residues
  BY <1>1, P3Parts, PrecompIs DEF Is
<1>5. FeMul(FeNeg(Precomp(b).xy2d), p.T) = FeNeg(FeMul(Precomp(b).xy2d, p.T))
  BY <1>4, Flips
<1>6. GeMsub(p, Precomp(b)) = GeMadd(p, Precomp(c))
  BY <1>3, <1>5 DEF GeMsub, GeMadd
<1>7. StandsP1P1(GeMadd(p, Precomp(c)), AddAffine(a, c))
  BY MaddIs
<1>8. StandsP1P1(GeMadd(p, Precomp(b)), AddAffine(a, b))
  BY MaddIs
<1> QED
  BY <1>1, <1>2, <1>6, <1>7, <1>8

-----------------------------------------------------------------------------
(* The two tables of odd multiples. *)
Cacheds == {c \in {P3ToCached(q) : q \in P3s} : \E a : StandsCached(c, a)}

(* What the table of odd multiples is made of.                             *)
LEMMA CachedIs == ASSUME NEW c, NEW a, StandsCached(c, a) PROVE c \in Cacheds
<1>1. PICK q : StandsP3(q, a) /\ c = P3ToCached(q)
  BY DEF StandsCached
<1>2. q \in P3s
  BY <1>1 DEF StandsP3
<1> QED
  BY <1>1, <1>2 DEF Cacheds

NextMultiple(A2, c) == P3ToCached(P1P1ToP3(GeAdd(A2, c)))
TableStep(A2) == [s \in Cacheds \X Nat |-> NextMultiple(A2, s[1])]

LEMMA NextMultipleIs ==
    ASSUME NEW A2, NEW a, StandsP3(A2, a), NEW c, NEW b, StandsCached(c, b)
    PROVE  StandsCached(NextMultiple(A2, c), AddAffine(a, b))
<1>1. StandsP1P1(GeAdd(A2, c), AddAffine(a, b))
  BY CachedAdds
<1>2. StandsP3(P1P1ToP3(GeAdd(A2, c)), AddAffine(a, b))
  BY <1>1, FromP1P1Is
<1> QED
  BY <1>2 DEF StandsCached, NextMultiple

LEMMA TableStepIs ==
    ASSUME NEW A2, NEW a, StandsP3(A2, a)
    PROVE  IsStep(TableStep(A2), Cacheds)
<1>1. ASSUME NEW s \in Cacheds \X Nat PROVE NextMultiple(A2, s[1]) \in Cacheds
  <2>1. PICK c \in Cacheds : s[1] = c
    BY <1>1
  <2>2. PICK b : StandsCached(c, b)
    BY DEF Cacheds
  <2>3. NextMultiple(A2, c) \in Cacheds
    BY <2>2, NextMultipleIs, CachedIs
  <2> QED
    BY <2>1, <2>3
<1> QED
  BY <1>1 DEF TableStep, IsStep

TableRounds(A2, c, n) == Rounds(LAMBDA Ai, i : P3ToCached(P1P1ToP3(GeAdd(A2, Ai))), c, n)

LEMMA TableIsRun ==
    ASSUME NEW A2, NEW a, StandsP3(A2, a), NEW c \in Cacheds, NEW m \in Nat
    PROVE  TableRounds(A2, c, m) = Run(TableStep(A2), c, m)
<1> DEFINE T == Cacheds
           h == TableStep(A2)
           z == c
           g == Runs(h, z, m)
           Body(A) == [k \in 0..m |-> IF k = 0 THEN z ELSE NextMultiple(A2, A[k - 1])]
           F == CHOOSE A : A = Body(A)
<1>1. TableRounds(A2, c, m) = F[m]
  BY DEF TableRounds, Rounds, NextMultiple
<1>2. m \in Nat /\ z \in T /\ h \in [T \X Nat -> T]
  BY TableStepIs DEF IsStep
<1>3. \A x \in T, j \in 1..m : h[<<x, j - 1>>] = NextMultiple(A2, x)
  BY DEF TableStep
<1> HIDE DEF T, h, z
<1>4. IsRun(g, h, T, z, m)
  BY <1>2, RunsIs
<1> HIDE DEF g
<1>5. g \in [0..m -> T] /\ g[0] = z /\ \A j \in 1..m : g[j] = h[<<g[j - 1], j - 1>>]
  BY <1>4 DEF IsRun
<1>6. g = Body(g)
  <2>1. ASSUME NEW j \in 0..m PROVE g[j] = IF j = 0 THEN z ELSE NextMultiple(A2, g[j - 1])
    <3>1. j # 0 => j \in 1..m /\ g[j - 1] \in T
      BY <1>2, <1>5
    <3> QED
      BY <1>3, <1>5, <3>1
  <2>2. DOMAIN g = 0..m /\ g = [j \in DOMAIN g |-> g[j]]
    BY <1>5
  <2> QED
    BY <2>1, <2>2
<1>7. F = Body(F)
  <2> HIDE DEF Body
  <2> QED
    BY <1>6
<1> HIDE DEF F
<1>8. \A j \in 0..m : F[j] = IF j = 0 THEN z ELSE NextMultiple(A2, F[j - 1])
  BY <1>7
<1>9. Obeys(F, h, T, z, m)
  <2>1. 0 \in 0..m /\ \A j \in 1..m : j \in 0..m /\ j # 0
    BY <1>2
  <2>2. F[0] = z
    BY <1>8, <2>1
  <2>3. ASSUME NEW j \in 1..m, F[j - 1] \in T PROVE F[j] = h[<<F[j - 1], j - 1>>]
    <3>1. F[j] = NextMultiple(A2, F[j - 1])
      BY <1>8, <2>1
    <3> QED
      BY <1>3, <2>3, <3>1
  <2> QED
    BY <2>2, <2>3 DEF Obeys
<1>10. Agree(F, Runs(h, z, m), T, m)
  <2>1. m \in Nat /\ z \in T /\ IsStep(h, T)
    BY <1>2 DEF IsStep
  <2> QED
    BY <1>9, <2>1, RunSame
<1>11. F[m] = g[m]
  BY <1>2, <1>10 DEF Agree, g
<1> QED
  BY <1>1, <1>11 DEF Run, g, h, z

(* Entry j is (2j + 1) A.                                                  *)
LEMMA OddMultiplesAre ==
    ASSUME NEW A, NEW a, StandsP3(A, a), NEW j \in 0..7
    PROVE  StandsCached(OddMultiples(A)[j], Mul(a, 2 * j + 1))
<1>0. a \in Curve
  BY DEF StandsP3
<1> DEFINE A2 == P1P1ToP3(GeP3Dbl(A))
<1>1. StandsP3(A2, AddAffine(a, a))
  <2>1. StandsP2(P3ToP2(A), a)
    BY P3ToP2Is
  <2>2. StandsP1P1(GeP3Dbl(A), AddAffine(a, a))
    BY <2>1, DoubleIs DEF GeP3Dbl
  <2> QED
    BY <2>2, FromP1P1Is
<1>2. OddMultiples(A)[j] = TableRounds(A2, P3ToCached(A), j)
  BY DEF OddMultiples, TableRounds
<1> HIDE DEF A2
<1>3. PICK c \in Cacheds : c = P3ToCached(A) /\ StandsCached(c, a)
  <2>1. StandsCached(P3ToCached(A), a)
    BY DEF StandsCached
  <2> QED
    BY <2>1, CachedIs
<1> DEFINE r(k) == Run(TableStep(A2), c, k)
           S == {k \in Nat : StandsCached(r(k), Mul(a, 2 * k + 1))}
<1>4. \A k \in Nat : Turns(TableStep(A2), c, k, Cacheds)
  BY <1>1, TableStepIs, RunIs
<1>5. \A x \in Cacheds, k \in Nat : TableStep(A2)[<<x, k>>] = NextMultiple(A2, x)
  BY DEF TableStep
<1>6. \A k \in Nat : r(0) = c /\ r(k + 1) = NextMultiple(A2, r(k))
  BY <1>4, <1>5 DEF Turns
<1> HIDE DEF r
<1>7. 0 \in S
  <2>1. 2 * 0 + 1 = 1
    OBVIOUS
  <2> QED
    BY <1>0, <1>3, <1>6, <2>1, MulSmall
<1>8. ASSUME NEW k \in Nat, k \in S PROVE k + 1 \in S
  <2>1. PICK m \in Int : m = 2 * k + 1 /\ 2 * (k + 1) + 1 = 2 + m
    OBVIOUS
  <2>2. StandsCached(r(k), Mul(a, m))
    BY <1>8, <2>1
  <2>3. StandsCached(NextMultiple(A2, r(k)), AddAffine(AddAffine(a, a), Mul(a, m)))
    BY <1>1, <2>2, NextMultipleIs
  <2>4. AddAffine(a, a) = Mul(a, 2)
    <3>1. 1 \in Int /\ 1 + 1 = 2 /\ Mul(a, 1) = a
      BY <1>0, MulSmall
    <3>2. Mul(a, 1 + 1) = AddAffine(Mul(a, 1), Mul(a, 1))
      BY <1>0, <3>1, MulAdds
    <3> QED
      BY <3>1, <3>2
  <2>5. AddAffine(Mul(a, 2), Mul(a, m)) = Mul(a, 2 + m)
    BY <1>0, MulAdds
  <2> QED
    BY <1>6, <2>1, <2>3, <2>4, <2>5
<1> HIDE DEF S
<1>9. j \in S /\ j \in Nat
  BY <1>7, <1>8, SetInduction
<1>10. StandsCached(r(j), Mul(a, 2 * j + 1))
  BY <1>9 DEF S
<1>11. TableRounds(A2, c, j) = r(j)
  BY <1>1, <1>9, TableIsRun DEF r
<1> QED
  BY <1>2, <1>3, <1>10, <1>11

(* Entry j of Bi is (2j + 1) B.                                            *)
LEMMA BiIs == ASSUME NEW j \in 0..7 PROVE Bi[j] = Precomp(Mul(B, 2 * j + 1))
<1>1. 2 * j + 1 \in Nat
  OBVIOUS
<1> QED
  BY <1>1, BaseIs, MulOfNat DEF Bi

-----------------------------------------------------------------------------
(* A digit of slide: 0 or odd, from -15 to 15. *)
IsDigit(d) == d = 0 \/ \E j \in 0..7 : d = 2 * j + 1 \/ d = -(2 * j + 1)

LEMMA HalfOfOdd == ASSUME NEW j \in 0..7 PROVE (2 * j + 1) \div 2 = j
<1>1. 2 \in Nat /\ 2 > 0 /\ j \in Int /\ 1 \in 0..2 - 1 /\ 2 * j + 1 \in Int
  OBVIOUS
<1> QED
  BY <1>1, RemainderUnique

AddToA(t, d, Ai) == AddSigned(t, d, GeAdd, GeSub, LAMBDA j : Ai[j])
AddToB(t, d) == AddSigned(t, d, GeMadd, GeMsub, LAMBDA j : Bi[j])

(* A digit adds that multiple of A, or nothing.                            *)
LEMMA SignedA ==
    ASSUME NEW t, NEW c, StandsP1P1(t, c), NEW A, NEW a, StandsP3(A, a), NEW d, IsDigit(d)
    PROVE  StandsP1P1(AddToA(t, d, OddMultiples(A)), AddAffine(c, Mul(a, d)))
<1>0. a \in Curve /\ c \in Curve
  BY DEF StandsP3, StandsP1P1
<1> DEFINE Ai == OddMultiples(A)
<1>1. StandsP3(P1P1ToP3(t), c)
  BY FromP1P1Is
<1>2. CASE d = 0
  BY <1>0, <1>2, MulSmall, AddNothing DEF AddToA, AddSigned
<1>3. ASSUME NEW j \in 0..7, d = 2 * j + 1
      PROVE  StandsP1P1(AddToA(t, d, OddMultiples(A)), AddAffine(c, Mul(a, d)))
  <2>1. d > 0 /\ d \div 2 = j
    BY <1>3, HalfOfOdd
  <2>2. AddToA(t, d, Ai) = GeAdd(P1P1ToP3(t), Ai[j])
    BY <2>1 DEF AddToA, AddSigned
  <2>3. StandsCached(Ai[j], Mul(a, d))
    BY <1>3, OddMultiplesAre
  <2> QED
    BY <1>1, <2>2, <2>3, CachedAdds
<1>4. ASSUME NEW j \in 0..7, d = -(2 * j + 1)
      PROVE  StandsP1P1(AddToA(t, d, OddMultiples(A)), AddAffine(c, Mul(a, d)))
  <2>1. ~(d > 0) /\ d < 0 /\ -d = 2 * j + 1 /\ d \in Int /\ 2 * j + 1 \in Int
    BY <1>4
  <2>2. (-d) \div 2 = j
    BY <2>1, HalfOfOdd
  <2>3. AddToA(t, d, Ai) = GeSub(P1P1ToP3(t), Ai[j])
    BY <2>1, <2>2 DEF AddToA, AddSigned
  <2>4. StandsCached(Ai[j], Mul(a, 2 * j + 1))
    BY OddMultiplesAre
  <2>5. StandsP1P1(GeSub(P1P1ToP3(t), Ai[j]), AddAffine(c, NegOf(Mul(a, 2 * j + 1))))
    BY <1>1, <2>4, CachedAdds
  <2>6. Mul(a, d) = NegOf(Mul(a, 2 * j + 1))
    BY <1>0, <1>4, <2>1, MulOfMinus
  <2> QED
    BY <2>3, <2>5, <2>6
<1> QED
  BY <1>2, <1>3, <1>4 DEF IsDigit

(* The same for B.                                                         *)
LEMMA SignedB ==
    ASSUME NEW t, NEW c, StandsP1P1(t, c), NEW d, IsDigit(d)
    PROVE  StandsP1P1(AddToB(t, d), AddAffine(c, Mul(B, d)))
<1>0. c \in Curve /\ B \in Curve
  BY BaseIs DEF StandsP1P1
<1>1. StandsP3(P1P1ToP3(t), c)
  BY FromP1P1Is
<1>2. CASE d = 0
  BY <1>0, <1>2, MulSmall, AddNothing DEF AddToB, AddSigned
<1>3. ASSUME NEW j \in 0..7, d = 2 * j + 1
      PROVE  StandsP1P1(AddToB(t, d), AddAffine(c, Mul(B, d)))
  <2>1. d > 0 /\ d \div 2 = j /\ d \in Int
    BY <1>3, HalfOfOdd
  <2>2. AddToB(t, d) = GeMadd(P1P1ToP3(t), Bi[j])
    BY <2>1 DEF AddToB, AddSigned
  <2>3. Bi[j] = Precomp(Mul(B, d)) /\ Mul(B, d) \in Curve
    BY <1>0, <1>3, <2>1, BiIs, MulAdds
  <2> QED
    BY <1>1, <2>2, <2>3, PrecompAdds
<1>4. ASSUME NEW j \in 0..7, d = -(2 * j + 1)
      PROVE  StandsP1P1(AddToB(t, d), AddAffine(c, Mul(B, d)))
  <2>1. ~(d > 0) /\ d < 0 /\ -d = 2 * j + 1 /\ d \in Int /\ 2 * j + 1 \in Int
    BY <1>4
  <2>2. (-d) \div 2 = j
    BY <2>1, HalfOfOdd
  <2>3. AddToB(t, d) = GeMsub(P1P1ToP3(t), Bi[j])
    BY <2>1, <2>2 DEF AddToB, AddSigned
  <2>4. Bi[j] = Precomp(Mul(B, 2 * j + 1)) /\ Mul(B, 2 * j + 1) \in Curve
    BY <1>0, <2>1, BiIs, MulAdds
  <2>5. StandsP1P1(GeMsub(P1P1ToP3(t), Bi[j]), AddAffine(c, NegOf(Mul(B, 2 * j + 1))))
    BY <1>1, <2>4, PrecompAdds
  <2>6. Mul(B, d) = NegOf(Mul(B, 2 * j + 1))
    BY <1>0, <1>4, <2>1, MulOfMinus
  <2> QED
    BY <2>3, <2>5, <2>6
<1> QED
  BY <1>2, <1>3, <1>4 DEF IsDigit

-----------------------------------------------------------------------------
(* What a sequence of digits is worth, one digit per bit. *)
DigitSeq == [0..ScalarBits - 1 -> Int]

AreSums(v, r) ==
    /\ v \in [0..ScalarBits -> Int] /\ v[0] = 0
    /\ \A j \in 0..ScalarBits - 1 : v[j + 1] = v[j] + Two[j] * r[j]
SumsOf(r) == CHOOSE v : AreSums(v, r)
Value(r) == SumsOf(r)[ScalarBits]

LEMMA BitsAre ==
    ASSUME NEW i \in 0..ScalarBits - 1
    PROVE  /\ i \in Nat /\ i < ScalarBits /\ i + 1 \in 0..ScalarBits /\ i \in 0..ScalarBits
           /\ Two[i] \in Int /\ Two[i] > 0 /\ Two[i + 1] = 2 * Two[i] /\ Two[i + 1] \in Int
<1>1. i \in Nat /\ i < ScalarBits /\ i + 1 \in 0..ScalarBits /\ i \in 0..ScalarBits
  BY DigitsAre
<1> QED
  BY <1>1, TwoIs

(* Every sequence of digits has its partial sums.                          *)
LEMMA SumsExist ==
    ASSUME NEW r \in DigitSeq
    PROVE  AreSums(SumsOf(r), r)
<1> DEFINE h == [s \in Int \X Nat |-> IF s[2] < ScalarBits THEN s[1] + Two[s[2]] * r[s[2]] ELSE 0]
<1>1. ASSUME NEW s \in Int \X Nat
      PROVE  (IF s[2] < ScalarBits THEN s[1] + Two[s[2]] * r[s[2]] ELSE 0) \in Int
  <2>1. PICK x \in Int, i \in Nat : s[1] = x /\ s[2] = i
    BY <1>1
  <2>2. CASE i < ScalarBits
    <3>1. i \in 0..ScalarBits - 1
      BY <2>2, DigitsAre
    <3>2. PICK t, d \in Int : t = Two[i] /\ d = r[i]
      BY <3>1, BitsAre DEF DigitSeq
    <3>3. x + t * d \in Int
      OBVIOUS
    <3> QED
      BY <2>1, <2>2, <3>2, <3>3
  <2>3. CASE ~(i < ScalarBits)
    BY <2>1, <2>3
  <2> QED
    BY <2>2, <2>3
<1>2. IsStep(h, Int)
  BY <1>1 DEF IsStep
<1>3. \A x \in Int, i \in 0..ScalarBits - 1 : h[<<x, i>>] = x + Two[i] * r[i]
  <2>1. \A i \in 0..ScalarBits - 1 : i \in Nat /\ i < ScalarBits
    BY DigitsAre
  <2> QED
    BY <2>1
<1> HIDE DEF h
<1>4. PICK v : IsRun(v, h, Int, 0, ScalarBits)
  <2>1. 0 \in Int
    OBVIOUS
  <2> QED
    BY <1>2, <2>1, DigitsAre, RunExists DEF IsStep
<1>5. v \in [0..ScalarBits -> Int] /\ v[0] = 0 /\ \A j \in 1..ScalarBits : v[j] = h[<<v[j - 1], j - 1>>]
  BY <1>4 DEF IsRun
<1>6. ASSUME NEW i \in 0..ScalarBits - 1 PROVE v[i + 1] = v[i] + Two[i] * r[i]
  <2>1. i + 1 \in 1..ScalarBits /\ (i + 1) - 1 = i /\ i \in 0..ScalarBits
    BY DigitsAre
  <2>2. v[i + 1] = h[<<v[i], i>>] /\ v[i] \in Int
    BY <1>5, <2>1
  <2> QED
    BY <1>3, <2>2
<1>7. AreSums(v, r)
  BY <1>5, <1>6 DEF AreSums
<1> QED
  BY <1>7 DEF SumsOf

(* And only one value.                                                     *)
LEMMA SumsAre ==
    ASSUME NEW r \in DigitSeq
    PROVE  /\ SumsOf(r)[0] = 0 /\ Value(r) = SumsOf(r)[ScalarBits] /\ Value(r) \in Int
           /\ \A j \in 0..ScalarBits : SumsOf(r)[j] \in Int
           /\ \A j \in 0..ScalarBits - 1 : SumsOf(r)[j + 1] = SumsOf(r)[j] + Two[j] * r[j]
<1>1. ScalarBits \in 0..ScalarBits
  BY DigitsAre
<1> QED
  BY <1>1, SumsExist DEF AreSums, Value

(* A change that the partial sums account for at every digit. *)
LEMMA ValueChanges ==
    ASSUME NEW r \in DigitSeq, NEW q \in DigitSeq, NEW d, d \in [0..ScalarBits -> Int], d[0] = 0,
           \A j \in 0..ScalarBits - 1 : d[j + 1] = d[j] + Two[j] * (q[j] - r[j])
    PROVE  Value(q) = Value(r) + d[ScalarBits]
<1> DEFINE A == {k \in Nat : k <= ScalarBits => SumsOf(q)[k] = SumsOf(r)[k] + d[k]}
<1>1. 0 \in A
  <2>1. SumsOf(q)[0] = 0 /\ SumsOf(r)[0] = 0
    BY SumsAre
  <2> QED
    BY <2>1
<1>2. ASSUME NEW k \in Nat, k \in A PROVE k + 1 \in A
  <2>1. SUFFICES ASSUME k + 1 <= ScalarBits PROVE SumsOf(q)[k + 1] = SumsOf(r)[k + 1] + d[k + 1]
    OBVIOUS
  <2>2. k \in 0..ScalarBits - 1 /\ k \in 0..ScalarBits /\ k <= ScalarBits
    BY <2>1, DigitsAre
  <2>3. PICK t, x, y, v, w, e \in Int : /\ t = Two[k] /\ x = q[k] /\ y = r[k]
                                        /\ v = SumsOf(q)[k] /\ w = SumsOf(r)[k] /\ e = d[k]
    BY <2>2, BitsAre, SumsAre DEF DigitSeq
  <2>4. v = w + e
    BY <1>2, <2>2, <2>3
  <2>5. SumsOf(q)[k + 1] = v + t * x /\ SumsOf(r)[k + 1] = w + t * y
    BY <2>2, <2>3, SumsAre
  <2>6. d[k + 1] = e + t * (x - y)
    BY <2>2, <2>3
  <2>7. (w + e) + t * x = (w + t * y) + (e + t * (x - y))
    <3>1. PICK m, n \in Int : m = t * x /\ n = t * y
      OBVIOUS
    <3>2. t * (x - y) = m - n
      BY <3>1
    <3>3. (w + e) + m = (w + n) + (e + (m - n))
      OBVIOUS
    <3> QED
      BY <3>1, <3>2, <3>3
  <2> QED
    BY <2>4, <2>5, <2>6, <2>7
<1> HIDE DEF A
<1>3. ScalarBits \in A
  BY <1>1, <1>2, DigitsAre, SetInduction
<1> QED
  BY <1>3, SumsAre, DigitsAre DEF A

(* One digit is changed. *)
LEMMA OneChanges ==
    ASSUME NEW r \in DigitSeq, NEW i \in 0..ScalarBits - 1, NEW x \in Int
    PROVE  /\ [r EXCEPT ![i] = x] \in DigitSeq
           /\ Value([r EXCEPT ![i] = x]) = Value(r) + Two[i] * (x - r[i])
<1>1. PICK t, y, c \in Int : t = Two[i] /\ y = r[i] /\ c = t * (x - y)
  BY BitsAre DEF DigitSeq
<1> DEFINE q == [r EXCEPT ![i] = x]
           d == [j \in 0..ScalarBits |-> IF j > i THEN c ELSE 0]
<1>2. q \in DigitSeq /\ q[i] = x /\ \A j \in 0..ScalarBits - 1 : j # i => q[j] = r[j]
  BY DEF DigitSeq
<1> HIDE DEF q
<1>3. d \in [0..ScalarBits -> Int] /\ d[0] = 0
  BY <1>1, DigitsAre
<1>4. ASSUME NEW j \in 0..ScalarBits - 1 PROVE d[j + 1] = d[j] + Two[j] * (q[j] - r[j])
  <2>1. j + 1 \in 0..ScalarBits /\ j \in 0..ScalarBits /\ j \in Nat /\ i \in Nat
    BY DigitsAre
  <2>2. d[j + 1] = (IF j + 1 > i THEN c ELSE 0) /\ d[j] = (IF j > i THEN c ELSE 0)
    BY <2>1
  <2>3. CASE j = i
    <3>1. d[j + 1] = c /\ d[j] = 0
      BY <2>1, <2>2, <2>3
    <3> QED
      BY <1>1, <1>2, <2>3, <3>1
  <2>4. CASE j # i
    <3>1. PICK m, u \in Int : m = r[j] /\ u = Two[j]
      BY BitsAre DEF DigitSeq
    <3>2. q[j] = m
      BY <1>2, <2>4, <3>1
    <3>3. d[j + 1] = d[j] /\ d[j] \in Int
      BY <1>1, <2>1, <2>2, <2>4
    <3>4. d[j] + u * (m - m) = d[j]
      BY <3>3
    <3> QED
      BY <3>1, <3>2, <3>3, <3>4
  <2> QED
    BY <2>3, <2>4
<1>5. d[ScalarBits] = c
  BY DigitsAre
<1> HIDE DEF d
<1>6. Value(q) = Value(r) + d[ScalarBits]
  BY <1>2, <1>3, <1>4, ValueChanges
<1> QED
  BY <1>1, <1>2, <1>5, <1>6 DEF q

(* Two digits are changed.                                                 *)
LEMMA TwoAdds ==
    ASSUME NEW i \in Nat, NEW b \in 0..7, i + b < ScalarBits
    PROVE  Two[i + b] = Two[i] * Two[b] /\ Two[i] \in Int /\ Two[b] \in Int
<1>1. i \in 0..ScalarBits - 1 /\ b \in 0..ScalarBits - 1
  BY DigitsAre
<1> DEFINE A == {k \in Nat : i + k < ScalarBits /\ k < ScalarBits => Two[i + k] = Two[i] * Two[k]}
<1>2. PICK t \in Int : t = Two[i]
  BY <1>1, BitsAre
<1>3. 0 \in A
  BY <1>2, TwoIs
<1>4. ASSUME NEW k \in Nat, k \in A PROVE k + 1 \in A
  <2>1. SUFFICES ASSUME i + (k + 1) < ScalarBits, k + 1 < ScalarBits PROVE Two[i + (k + 1)] = Two[i] * Two[k + 1]
    OBVIOUS
  <2>2. i + k \in 0..ScalarBits - 1 /\ k \in 0..ScalarBits - 1 /\ i + k < ScalarBits /\ k < ScalarBits /\ i + (k + 1) = (i + k) + 1
    BY <2>1, DigitsAre
  <2>3. PICK u, s \in Int : u = Two[k] /\ s = Two[i + k] /\ Two[k + 1] = 2 * u /\ Two[(i + k) + 1] = 2 * s
    BY <2>2, BitsAre
  <2>4. s = t * u
    BY <1>2, <1>4, <2>2, <2>3
  <2>5. 2 * (t * u) = t * (2 * u)
    BY <1>2, <2>3
  <2> QED
    BY <1>2, <2>2, <2>3, <2>4, <2>5
<1> HIDE DEF A
<1>5. b \in A /\ b \in Nat
  BY <1>3, <1>4, SetInduction
<1> QED
  BY <1>1, <1>5, BitsAre DEF A

LEMMA FirstTwos == Two[1] = 2 /\ Two[2] = 4 /\ Two[3] = 8 /\ Two[4] = 16 /\ Two[5] = 32 /\ Two[6] = 64
<1>1. \A i \in 0..6 : i \in 0..ScalarBits - 1
  BY DigitsAre
<1>2. \A i \in 0..6 : Two[i + 1] = 2 * Two[i]
  BY <1>1, BitsAre
<1>3. Two[0 + 1] = 2 * Two[0] /\ Two[1 + 1] = 2 * Two[1] /\ Two[2 + 1] = 2 * Two[2]
      /\ Two[3 + 1] = 2 * Two[3] /\ Two[4 + 1] = 2 * Two[4] /\ Two[5 + 1] = 2 * Two[5]
  BY <1>2
<1>4. 0 + 1 = 1 /\ 1 + 1 = 2 /\ 2 + 1 = 3 /\ 3 + 1 = 4 /\ 4 + 1 = 5 /\ 5 + 1 = 6
  OBVIOUS
<1> QED
  BY <1>3, <1>4, TwoIs

-----------------------------------------------------------------------------
(* The least member that Least takes is there. *)
LEMMA LeastIs ==
    ASSUME NEW S, S \subseteq Nat, S # {}
    PROVE  Least(S) \in S /\ \A j \in S : Least(S) <= j
<1> DEFINE Has == \E i \in S : \A j \in S : i <= j
           A == {n \in Nat : (\E m \in S : m <= n) => Has}
<1>1. 0 \in A
  <2>1. SUFFICES ASSUME NEW m \in S, m <= 0 PROVE Has
    OBVIOUS
  <2>2. m = 0 /\ \A j \in S : m <= j
    BY <2>1
  <2> QED
    BY <2>2
<1>2. ASSUME NEW n \in Nat, n \in A PROVE n + 1 \in A
  <2>1. SUFFICES ASSUME NEW m \in S, m <= n + 1 PROVE Has
    OBVIOUS
  <2>2. CASE \E k \in S : k <= n
    BY <1>2, <2>2
  <2>3. CASE ~\E k \in S : k <= n
    <3>1. \A j \in S : j \in Nat /\ ~(j <= n)
      BY <2>3
    <3>2. \A j \in S : m <= j
      BY <2>1, <3>1
    <3> QED
      BY <3>2
  <2> QED
    BY <2>2, <2>3
<1> HIDE DEF Has, A
<1>3. PICK m \in S : m \in Nat
  OBVIOUS
<1>4. m \in A
  BY <1>1, <1>2, <1>3, SetInduction
<1>5. Has
  <2>1. m <= m
    BY <1>3
  <2> QED
    BY <1>3, <1>4, <2>1 DEF A
<1>6. \E i \in S : \A j \in S : i <= j
  BY <1>5 DEF Has
<1> QED
  BY <1>6 DEF Least

Upper(r, i) == \A j \in i..ScalarBits - 1 : r[j] \in {0, 1}
Lower(r, i) == \A j \in 0..i - 1 : IsDigit(r[j])
Free(r, i) == r[ScalarBits - 1] = 0 \/ \A j \in i..ScalarBits - 2 : r[j] = 0

(* The carry of slide.                                                     *)
LEMMA PropagateTyped == ASSUME NEW r \in DigitSeq, NEW k PROVE Propagate(r, k) \in DigitSeq
<1>1. DOMAIN r = 0..ScalarBits - 1 /\ \A i \in 0..ScalarBits - 1 : r[i] \in Int
  BY DEF DigitSeq
<1> QED
  BY <1>1 DEF Propagate, DigitSeq

(* The carry is worth what it carries, and stops.                          *)
LEMMA PropagateIs ==
    ASSUME NEW r \in DigitSeq, NEW k \in 0..ScalarBits - 1, Upper(r, k), r[ScalarBits - 1] = 0
    PROVE  /\ Propagate(r, k) \in DigitSeq
           /\ Value(Propagate(r, k)) = Value(r) + Two[k]
           /\ \A j \in 0..k - 1 : Propagate(r, k)[j] = r[j]
           /\ Upper(Propagate(r, k), k) /\ Free(Propagate(r, k), k)
<1> DEFINE zeros == {i \in k..ScalarBits - 1 : r[i] = 0}
<1>1. zeros \subseteq Nat /\ zeros # {}
  <2>1. ScalarBits - 1 \in k..ScalarBits - 1 /\ k \in Nat
    BY DigitsAre
  <2> QED
    BY <2>1
<1>2. PICK e \in k..ScalarBits - 1 : /\ e = Least(zeros) /\ r[e] = 0
                                     /\ \A j \in k..ScalarBits - 1 : r[j] = 0 => e <= j
  <2>1. Least(zeros) \in zeros /\ \A j \in zeros : Least(zeros) <= j
    BY <1>1, LeastIs
  <2> QED
    BY <2>1
<1> DEFINE q == Propagate(r, k)
<1>3. q = [i \in DOMAIN r |-> IF i \in k..e - 1 THEN 0 ELSE IF i = e THEN 1 ELSE r[i]]
  BY <1>1, <1>2 DEF Propagate
<1> HIDE DEF q, zeros
<1>4. q \in DigitSeq
  BY PropagateTyped DEF q
<1>5. DOMAIN r = 0..ScalarBits - 1 /\ \A j \in 0..ScalarBits - 1 : r[j] \in Int
  BY DEF DigitSeq
<1>6. \A i \in 0..ScalarBits - 1 : q[i] = IF i \in k..e - 1 THEN 0 ELSE IF i = e THEN 1 ELSE r[i]
  BY <1>3, <1>5
<1>7. k \in Nat /\ e \in Nat /\ k <= e /\ e \in 0..ScalarBits - 1 /\ e < ScalarBits /\ k \in 0..ScalarBits
  BY <1>2, DigitsAre
<1>8. \A j \in k..e - 1 : j \in 0..ScalarBits - 1 /\ r[j] = 1
  <2>1. \A j \in k..e - 1 : j \in k..ScalarBits - 1 /\ j \in 0..ScalarBits - 1 /\ ~(e <= j)
    BY <1>7, DigitsAre
  <2> QED
    BY <1>2, <2>1 DEF Upper
<1>9. PICK t \in Int : t = Two[k]
  BY BitsAre
<1> DEFINE d == [j \in 0..ScalarBits |-> IF j <= k THEN 0 ELSE IF j <= e THEN t - Two[j] ELSE t]
<1>10. \A j \in 0..ScalarBits : j \in Int /\ Two[j] \in Int
  BY TwoIs
<1>11. d \in [0..ScalarBits -> Int] /\ d[0] = 0 /\ d[ScalarBits] = t
  <2>1. \A j \in 0..ScalarBits : d[j] \in Int
    BY <1>10
  <2>2. 0 \in 0..ScalarBits /\ 0 <= k /\ ScalarBits \in 0..ScalarBits /\ ~(ScalarBits <= k) /\ ~(ScalarBits <= e)
    BY <1>7, DigitsAre
  <2> QED
    BY <2>1, <2>2
<1>12. ASSUME NEW j \in 0..ScalarBits - 1 PROVE d[j + 1] = d[j] + Two[j] * (q[j] - r[j])
  <2>1. j + 1 \in 0..ScalarBits /\ j \in 0..ScalarBits /\ j \in Nat
    BY DigitsAre
  <2>2. PICK u, x \in Int : u = Two[j] /\ x = r[j] /\ Two[j + 1] = 2 * u
    BY <1>5, BitsAre
  <2>3. /\ d[j + 1] = (IF j + 1 <= k THEN 0 ELSE IF j + 1 <= e THEN t - Two[j + 1] ELSE t)
        /\ d[j] = (IF j <= k THEN 0 ELSE IF j <= e THEN t - Two[j] ELSE t)
    BY <2>1
  <2>4. CASE j < k
    <3>1. q[j] = x /\ d[j + 1] = 0 /\ d[j] = 0
      BY <1>6, <1>7, <2>1, <2>2, <2>3, <2>4
    <3>2. 0 = 0 + u * (x - x)
      OBVIOUS
    <3> QED
      BY <2>2, <3>1, <3>2
  <2>5. CASE j \in k..e - 1
    <3>1. q[j] = 0 /\ x = 1
      BY <1>6, <1>8, <2>2, <2>5
    <3>2. d[j + 1] = t - 2 * u
      BY <1>7, <2>1, <2>2, <2>3, <2>5
    <3>3. d[j] = t - u
      BY <1>7, <1>9, <2>1, <2>2, <2>3, <2>5
    <3>4. t - 2 * u = (t - u) + u * (0 - 1)
      OBVIOUS
    <3> QED
      BY <2>2, <3>1, <3>2, <3>3, <3>4
  <2>6. CASE j = e
    <3>1. q[j] = 1 /\ x = 0
      BY <1>2, <1>6, <1>7, <2>2, <2>6
    <3>2. d[j + 1] = t
      BY <1>7, <2>1, <2>3, <2>6
    <3>3. d[j] = t - u
      BY <1>7, <1>9, <2>1, <2>2, <2>3, <2>6
    <3>4. t = (t - u) + u * (1 - 0)
      OBVIOUS
    <3> QED
      BY <2>2, <3>1, <3>2, <3>3, <3>4
  <2>7. CASE j > e
    <3>1. q[j] = x /\ d[j + 1] = t /\ d[j] = t
      BY <1>6, <1>7, <2>1, <2>2, <2>3, <2>7
    <3>2. t = t + u * (x - x)
      OBVIOUS
    <3> QED
      BY <2>2, <3>1, <3>2
  <2>8. j < k \/ j \in k..e - 1 \/ j = e \/ j > e
    BY <1>7, <2>1
  <2> QED
    BY <2>4, <2>5, <2>6, <2>7, <2>8
<1> HIDE DEF d
<1>13. Value(q) = Value(r) + t
  BY <1>4, <1>11, <1>12, ValueChanges
<1>14. \A j \in 0..k - 1 : q[j] = r[j]
  <2>1. \A j \in 0..k - 1 : j \in 0..ScalarBits - 1 /\ j \notin k..e - 1 /\ j # e
    BY <1>7, DigitsAre
  <2> QED
    BY <1>6, <2>1
<1>15. Upper(q, k)
  <2>1. \A j \in k..ScalarBits - 1 : j \in 0..ScalarBits - 1
    BY <1>7, DigitsAre
  <2> QED
    BY <1>6, <2>1 DEF Upper
<1>16. Free(q, k)
  <2>1. CASE e = ScalarBits - 1
    <3>1. \A j \in k..ScalarBits - 2 : j \in 0..ScalarBits - 1 /\ j \in k..e - 1
      BY <1>7, <2>1, DigitsAre
    <3> QED
      BY <1>6, <3>1 DEF Free
  <2>2. CASE e # ScalarBits - 1
    <3>1. ScalarBits - 1 \in 0..ScalarBits - 1 /\ ScalarBits - 1 \notin k..e - 1
      BY <1>7, <2>2, DigitsAre
    <3> QED
      BY <1>6, <2>2, <3>1 DEF Free
  <2> QED
    BY <2>1, <2>2
<1> QED
  BY <1>4, <1>9, <1>13, <1>14, <1>15, <1>16 DEF q

-----------------------------------------------------------------------------
(* One bit is taken. *)
Taking == [r : DigitSeq, done : BOOLEAN]
Skips(s, i, b) == s.done \/ i + b >= ScalarBits \/ s.r[i + b] = 0

TakenAs(s, i, b, q, r, w) ==
    /\ q \in Taking
    /\ Skips(s, i, b) => q = s
    /\ ~Skips(s, i, b) /\ r[i] + w <= 15 =>
          q.r = [[r EXCEPT ![i] = r[i] + w] EXCEPT ![i + b] = 0] /\ q.done = s.done
    /\ ~Skips(s, i, b) /\ ~(r[i] + w <= 15) /\ r[i] - w >= -15 =>
          q.r = Propagate([r EXCEPT ![i] = r[i] - w], i + b) /\ q.done = s.done
    /\ ~Skips(s, i, b) /\ ~(r[i] + w <= 15) /\ ~(r[i] - w >= -15) => q.r = r

(* A bit is skipped, added, subtracted with a carry, or ends the loop.     *)
LEMMA TakeBitIs ==
    ASSUME NEW s \in Taking, NEW i \in 0..ScalarBits - 1, NEW b \in Nat, b > 0, NEW q, q = TakeBit(s, i, b),
           NEW r, r = s.r, NEW w, w = r[i + b] * Two[b]
    PROVE  TakenAs(s, i, b, q, r, w)
<1>1. r \in DigitSeq /\ s.done \in BOOLEAN
  BY DEF Taking
<1>2. CASE Skips(s, i, b)
  BY <1>2 DEF TakeBit, Skips, TakenAs
<1>3. CASE ~Skips(s, i, b)
  <2>1. i + b \in 0..ScalarBits - 1 /\ b \in 0..ScalarBits - 1 /\ i # i + b
    BY <1>3, DigitsAre DEF Skips
  <2>2. r[i] \in Int /\ r[i + b] \in Int /\ Two[b] \in Int
    BY <1>1, <2>1, BitsAre DEF DigitSeq
  <2>3. w \in Int
    BY <2>2
  <2>4. q = (IF r[i] + w <= 15 THEN [s EXCEPT !.r[i] = @ + w, !.r[i + b] = 0]
             ELSE IF r[i] - w >= -15 THEN [s EXCEPT !.r = Propagate([r EXCEPT ![i] = @ - w], i + b)]
             ELSE [s EXCEPT !.done = TRUE])
    BY <1>3 DEF TakeBit, Skips
  <2>5. CASE r[i] + w <= 15
    <3>1. q = [s EXCEPT !.r[i] = @ + w, !.r[i + b] = 0]
      BY <2>4, <2>5
    <3> DEFINE f == [[r EXCEPT ![i] = r[i] + w] EXCEPT ![i + b] = 0]
    <3>2. f \in DigitSeq
      <4>1. r[i] + w \in Int /\ 0 \in Int
        BY <2>2, <2>3
      <4>2. [r EXCEPT ![i] = r[i] + w] \in DigitSeq
        BY <1>1, <4>1, OneChanges
      <4> QED
        BY <2>1, <4>1, <4>2, OneChanges
    <3>3. q.r = f /\ q.done = s.done
      BY <1>1, <3>1 DEF Taking
    <3>4. q \in Taking
      <4> HIDE DEF f
      <4>1. q = [s EXCEPT !.r = f]
        BY <3>1 DEF f, Taking
      <4> QED
        BY <1>1, <3>2, <4>1 DEF Taking
    <3> QED
      BY <1>3, <2>5, <3>3, <3>4 DEF TakenAs
  <2>6. CASE ~(r[i] + w <= 15) /\ r[i] - w >= -15
    <3> DEFINE f == Propagate([r EXCEPT ![i] = r[i] - w], i + b)
    <3>1. q = [s EXCEPT !.r = f]
      BY <2>4, <2>6
    <3>2. f \in DigitSeq
      <4>1. r[i] - w \in Int
        BY <2>2, <2>3
      <4>2. [r EXCEPT ![i] = r[i] - w] \in DigitSeq
        BY <1>1, <4>1, OneChanges
      <4> QED
        BY <4>2, PropagateTyped
    <3> HIDE DEF f
    <3>3. q \in Taking /\ q.r = f /\ q.done = s.done
      BY <1>1, <3>1, <3>2 DEF Taking
    <3> QED
      BY <1>3, <2>6, <3>3 DEF f, TakenAs
  <2>7. CASE ~(r[i] + w <= 15) /\ ~(r[i] - w >= -15)
    <3>1. q = [s EXCEPT !.done = TRUE]
      BY <2>4, <2>7
    <3>2. q \in Taking /\ q.r = r
      BY <1>1, <3>1 DEF Taking
    <3> QED
      BY <1>3, <2>7, <3>2 DEF TakenAs
  <2> QED
    BY <2>5, <2>6, <2>7
<1> QED
  BY <1>2, <1>3

(* Digits below i are done, those from i on are bits. *)
Slid(r, a, i) == r \in DigitSeq /\ Value(r) = a /\ Lower(r, i) /\ Upper(r, i) /\ Free(r, i)

(* While digit i grows, k of the bits above it are gone. *)
Grown(r, a, i, k, c) ==
    /\ r \in DigitSeq /\ Value(r) = a /\ Lower(r, i) /\ Upper(r, i + 1) /\ r[ScalarBits - 1] = 0
    /\ \A j \in i + 1..i + k : j < ScalarBits => r[j] = 0
    /\ \E m \in 0..c - 1 : r[i] = 2 * m + 1

(* Bits taken into digit i, up to the fifth.                               *)
LEMMA GrowStep ==
    ASSUME NEW s \in Taking, ~s.done, NEW a, NEW i \in 0..ScalarBits - 2, NEW b \in 1..3, NEW c \in {1, 2, 4},
           Two[b] = 2 * c, Grown(s.r, a, i, b - 1, c), NEW q, q = TakeBit(s, i, b)
    PROVE  q \in Taking /\ ~q.done /\ Grown(q.r, a, i, b, 2 * c)
<1> DEFINE r == s.r
<1>1. /\ r \in DigitSeq /\ Value(r) = a /\ Lower(r, i) /\ Upper(r, i + 1) /\ r[ScalarBits - 1] = 0
      /\ \A j \in i + 1..i + (b - 1) : j < ScalarBits => r[j] = 0
  BY DEF Grown
<1>2. PICK m \in 0..c - 1 : r[i] = 2 * m + 1
  BY DEF Grown
<1> HIDE DEF r
<1>3. i \in 0..ScalarBits - 1 /\ i \in Nat /\ b \in Nat /\ b > 0 /\ i # ScalarBits - 1
  BY DigitsAre
<1> DEFINE w == r[i + b] * Two[b]
<1>4. /\ q \in Taking
      /\ Skips(s, i, b) => q = s
      /\ ~Skips(s, i, b) /\ r[i] + w <= 15 =>
            q.r = [[r EXCEPT ![i] = r[i] + w] EXCEPT ![i + b] = 0] /\ q.done = s.done
  <2>1. TakenAs(s, i, b, q, r, w)
    BY <1>3, TakeBitIs DEF r
  <2> QED
    BY <2>1 DEF TakenAs
<1>5. CASE Skips(s, i, b)
  <2>1. q.r = r /\ ~q.done /\ (i + b < ScalarBits => r[i + b] = 0)
    BY <1>3, <1>4, <1>5, DigitsAre DEF Skips, r
  <2>2. ASSUME NEW j \in i + 1..i + b, j < ScalarBits PROVE r[j] = 0
    <3>1. j = i + b \/ j \in i + 1..i + (b - 1)
      BY <1>3
    <3> QED
      BY <1>1, <2>1, <2>2, <3>1
  <2>3. m \in 0..2 * c - 1
    OBVIOUS
  <2>4. Grown(r, a, i, b, 2 * c)
    BY <1>1, <1>2, <2>2, <2>3 DEF Grown
  <2> QED
    BY <1>4, <2>1, <2>4
<1>6. CASE ~Skips(s, i, b)
  <2>1. i + b \in 0..ScalarBits - 1 /\ i + b \in i + 1..ScalarBits - 1 /\ i + b < ScalarBits /\ i # i + b /\ r[i + b] # 0
    BY <1>3, <1>6, DigitsAre DEF Skips, r
  <2>2. r[i + b] = 1
    BY <1>1, <2>1 DEF Upper
  <2>3. w = 2 * c
    BY <2>2
  <2>4. r[i] + w = 2 * (m + c) + 1 /\ r[i] + w <= 15 /\ m + c \in 0..2 * c - 1 /\ r[i] + w \in Int /\ m \in Int
    BY <1>2, <2>3
  <2> DEFINE f1 == [r EXCEPT ![i] = r[i] + w]
             f == [f1 EXCEPT ![i + b] = 0]
  <2>5. q.r = f /\ ~q.done
    BY <1>4, <1>6, <2>4
  <2>6. f1 \in DigitSeq /\ Value(f1) = Value(r) + Two[i] * ((r[i] + w) - r[i])
    BY <1>1, <1>3, <2>4, OneChanges
  <2>7. f \in DigitSeq /\ Value(f) = Value(f1) + Two[i + b] * (0 - f1[i + b])
    <3> HIDE DEF f1
    <3>1. 0 \in Int
      OBVIOUS
    <3> QED
      BY <2>1, <2>6, <3>1, OneChanges
  <2>8. f1[i + b] = 1 /\ f[i] = 2 * (m + c) + 1 /\ f[i + b] = 0
        /\ \A j \in 0..ScalarBits - 1 : j # i /\ j # i + b => f[j] = r[j]
    BY <1>1, <1>3, <2>1, <2>2, <2>4 DEF DigitSeq
  <2> HIDE DEF f, f1, w
  <2>9. Value(f) = a
    <3>1. PICK t, v \in Int : t = Two[i] /\ v = Value(r)
      BY <1>1, <1>3, BitsAre, SumsAre
    <3>2. Two[i + b] = t * (2 * c)
      <4>1. b \in 0..7
        OBVIOUS
      <4> QED
        BY <1>3, <2>1, <3>1, <4>1, TwoAdds
    <3>3. (r[i] + w) - r[i] = 2 * c
      BY <1>2, <2>3
    <3>4. Value(f) = (v + t * (2 * c)) + (t * (2 * c)) * (0 - 1)
      BY <2>6, <2>7, <2>8, <3>1, <3>2, <3>3
    <3>5. PICK x \in Int : x = t * (2 * c)
      BY <3>1
    <3>6. (v + x) + x * (0 - 1) = v
      OBVIOUS
    <3> QED
      BY <1>1, <3>1, <3>4, <3>5, <3>6
  <2>10. Lower(f, i)
    <3>1. \A j \in 0..i - 1 : j \in 0..ScalarBits - 1 /\ j # i /\ j # i + b
      BY <1>3, DigitsAre
    <3> QED
      BY <1>1, <2>8, <3>1 DEF Lower
  <2>11. Upper(f, i + 1)
    <3>1. \A j \in i + 1..ScalarBits - 1 : j \in 0..ScalarBits - 1 /\ j # i
      BY <1>3, DigitsAre
    <3> QED
      BY <1>1, <2>8, <3>1 DEF Upper
  <2>12. f[ScalarBits - 1] = 0
    <3>1. ScalarBits - 1 \in 0..ScalarBits - 1
      BY DigitsAre
    <3> QED
      BY <1>1, <1>3, <2>8, <3>1
  <2>13. ASSUME NEW j \in i + 1..i + b, j < ScalarBits PROVE f[j] = 0
    <3>1. j = i + b \/ (j \in i + 1..i + (b - 1) /\ j \in 0..ScalarBits - 1 /\ j # i /\ j # i + b)
      BY <1>3, <2>13, DigitsAre
    <3> QED
      BY <1>1, <2>8, <2>13, <3>1
  <2>14. Grown(f, a, i, b, 2 * c)
    BY <2>4, <2>7, <2>8, <2>9, <2>10, <2>11, <2>12, <2>13 DEF Grown
  <2> QED
    BY <1>4, <2>5, <2>14
<1> QED
  BY <1>5, <1>6

(* The sixth.                                                              *)
LEMMA LastStep ==
    ASSUME NEW s \in Taking, ~s.done, NEW a, NEW i \in 0..ScalarBits - 2,
           Grown(s.r, a, i, 3, 8), NEW q, q = TakeBit(s, i, 4)
    PROVE  q \in Taking /\ Slid(q.r, a, i + 1)
<1> DEFINE r == s.r
<1>1. /\ r \in DigitSeq /\ Value(r) = a /\ Lower(r, i) /\ Upper(r, i + 1) /\ r[ScalarBits - 1] = 0
      /\ \A j \in i + 1..i + 3 : j < ScalarBits => r[j] = 0
  BY DEF Grown
<1>2. PICK m \in 0..7 : r[i] = 2 * m + 1
  <2>1. PICK m \in 0..8 - 1 : r[i] = 2 * m + 1
    BY DEF Grown
  <2>2. m \in 0..7
    OBVIOUS
  <2> QED
    BY <2>1, <2>2
<1> HIDE DEF r
<1>3. i \in 0..ScalarBits - 1 /\ i \in Nat /\ 4 \in Nat /\ 4 > 0 /\ i # ScalarBits - 1
  BY DigitsAre
<1>w. PICK w : w = r[i + 4] * Two[4]
  OBVIOUS
<1>4. /\ q \in Taking
      /\ Skips(s, i, 4) => q = s
      /\ ~Skips(s, i, 4) /\ ~(r[i] + w <= 15) /\ r[i] - w >= -15 =>
            q.r = Propagate([r EXCEPT ![i] = r[i] - w], i + 4) /\ q.done = s.done
  <2>1. TakenAs(s, i, 4, q, r, w)
    BY <1>3, <1>w, TakeBitIs DEF r
  <2> QED
    BY <2>1 DEF TakenAs
<1>5. CASE Skips(s, i, 4)
  <2>1. q.r = r
    BY <1>4, <1>5 DEF r
  <2>2. Lower(r, i + 1)
    <3>1. \A j \in 0..(i + 1) - 1 : j = i \/ j \in 0..i - 1
      BY <1>3
    <3>2. IsDigit(r[i])
      BY <1>2 DEF IsDigit
    <3> QED
      BY <1>1, <3>1, <3>2 DEF Lower
  <2>3. Slid(r, a, i + 1)
    BY <1>1, <2>2 DEF Slid, Free
  <2> QED
    BY <1>4, <2>1, <2>3
<1>6. CASE ~Skips(s, i, 4)
  <2>1. i + 4 \in 0..ScalarBits - 1 /\ i + 4 \in i + 1..ScalarBits - 1 /\ i + 4 < ScalarBits /\ r[i + 4] # 0
    BY <1>3, <1>6, DigitsAre DEF Skips, r
  <2>2. r[i + 4] = 1
    BY <1>1, <2>1 DEF Upper
  <2>3. w = 16
    BY <1>w, <2>2, FirstTwos
  <2>4. ~(r[i] + w <= 15) /\ r[i] - w >= -15 /\ r[i] - w = -(2 * (7 - m) + 1) /\ 7 - m \in 0..7 /\ r[i] - w \in Int
    BY <1>2, <2>3
  <2> DEFINE f == [r EXCEPT ![i] = r[i] - w]
  <2>5. q.r = Propagate(f, i + 4)
    BY <1>4, <1>6, <2>4
  <2>6. f \in DigitSeq /\ Value(f) = Value(r) + Two[i] * ((r[i] - w) - r[i])
    BY <1>1, <1>3, <2>4, OneChanges
  <2>7. f[i] = r[i] - w /\ \A j \in 0..ScalarBits - 1 : j # i => f[j] = r[j]
    BY <1>1, <1>3 DEF DigitSeq
  <2> HIDE DEF f
  <2>8. Upper(f, i + 4) /\ f[ScalarBits - 1] = 0
    <3>1. \A j \in i + 4..ScalarBits - 1 : j \in 0..ScalarBits - 1 /\ j # i /\ j \in i + 1..ScalarBits - 1
      BY <1>3, DigitsAre
    <3>2. ScalarBits - 1 \in 0..ScalarBits - 1
      BY DigitsAre
    <3> QED
      BY <1>1, <1>3, <2>7, <3>1, <3>2 DEF Upper
  <2>9. PICK g \in DigitSeq : g = q.r /\ Value(g) = Value(f) + Two[i + 4] /\ Upper(g, i + 4) /\ Free(g, i + 4)
                              /\ \A j \in 0..(i + 4) - 1 : g[j] = f[j]
    BY <2>1, <2>5, <2>6, <2>8, PropagateIs
  <2>10. Value(g) = a
    <3>1. PICK t, v \in Int : t = Two[i] /\ v = Value(r)
      BY <1>1, <1>3, BitsAre, SumsAre
    <3>2. Two[i + 4] = t * 16
      <4>1. 4 \in 0..7
        OBVIOUS
      <4> QED
        BY <1>3, <2>1, <3>1, <4>1, TwoAdds, FirstTwos
    <3>3. (r[i] - w) - r[i] = -16
      BY <1>2, <2>3
    <3>4. Value(g) = (v + t * (-16)) + t * 16
      BY <2>6, <2>9, <3>1, <3>2, <3>3
    <3>5. (v + t * (-16)) + t * 16 = v
      OBVIOUS
    <3> QED
      BY <1>1, <3>1, <3>4, <3>5
  <2>11. Lower(g, i + 1)
    <3>1. \A j \in 0..(i + 1) - 1 : j \in 0..(i + 4) - 1 /\ j \in 0..ScalarBits - 1 /\ (j = i \/ (j \in 0..i - 1 /\ j # i))
      BY <1>3, DigitsAre
    <3>2. IsDigit(r[i] - w)
      BY <2>4 DEF IsDigit
    <3>3. \A j \in 0..i - 1 : IsDigit(r[j])
      BY <1>1 DEF Lower
    <3>4. \A j \in 0..(i + 1) - 1 : g[j] = f[j] /\ (j = i \/ f[j] = r[j])
      BY <2>7, <2>9, <3>1
    <3> QED
      BY <2>7, <3>1, <3>2, <3>3, <3>4 DEF Lower
  <2>12. \A j \in i + 1..i + 3 : g[j] = 0
    <3>1. \A j \in i + 1..i + 3 : j \in 0..(i + 4) - 1 /\ j \in 0..ScalarBits - 1 /\ j # i /\ j < ScalarBits
      BY <1>3, <2>1, DigitsAre
    <3> QED
      BY <1>1, <2>7, <2>9, <3>1
  <2>13. Upper(g, i + 1)
    <3>1. \A j \in i + 1..ScalarBits - 1 : j \in i + 1..i + 3 \/ j \in i + 4..ScalarBits - 1
      BY <1>3, DigitsAre
    <3> QED
      BY <2>9, <2>12, <3>1 DEF Upper
  <2>14. Free(g, i + 1)
    <3>1. \A j \in i + 1..ScalarBits - 2 : j \in i + 1..i + 3 \/ j \in i + 4..ScalarBits - 2
      BY <1>3, DigitsAre
    <3> QED
      BY <2>9, <2>12, <3>1 DEF Free
  <2>15. Slid(g, a, i + 1)
    BY <2>9, <2>10, <2>11, <2>13, <2>14 DEF Slid
  <2> QED
    BY <1>4, <2>9, <2>15
<1> QED
  BY <1>5, <1>6

(* Once the loop over b is done nothing changes.                           *)
LEMMA QuietStep ==
    ASSUME NEW s \in Taking, NEW a, NEW i \in 0..ScalarBits - 1, Slid(s.r, a, i + 1),
           NEW b \in Nat, b > 0, b \in 5..6 \/ i + b >= ScalarBits, NEW q, q = TakeBit(s, i, b)
    PROVE  q \in Taking /\ q.r = s.r
<1> DEFINE r == s.r
<1>w. PICK w : w = r[i + b] * Two[b]
  OBVIOUS
<1>1. /\ q \in Taking
      /\ Skips(s, i, b) => q = s
      /\ ~Skips(s, i, b) /\ ~(r[i] + w <= 15) /\ ~(r[i] - w >= -15) => q.r = r
  <2>1. TakenAs(s, i, b, q, r, w)
    BY <1>w, TakeBitIs
  <2> QED
    BY <2>1 DEF TakenAs
<1>2. CASE Skips(s, i, b)
  BY <1>1, <1>2
<1>3. CASE ~Skips(s, i, b)
  <2>1. b \in 5..6 /\ i + b \in i + 1..ScalarBits - 1 /\ r[i + b] # 0 /\ i \in 0..(i + 1) - 1
    BY <1>3, DigitsAre DEF Skips
  <2>2. r[i + b] = 1 /\ IsDigit(r[i])
    BY <2>1 DEF Slid, Upper, Lower
  <2>3. w = 32 \/ w = 64
    BY <1>w, <2>1, <2>2, FirstTwos
  <2>4. r[i] \in -15..15
    BY <2>2 DEF IsDigit
  <2>5. ~(r[i] + w <= 15) /\ ~(r[i] - w >= -15)
    <3> HIDE DEF r
    <3> QED
      BY <2>3, <2>4
  <2> QED
    BY <1>1, <1>3, <2>5
<1> QED
  BY <1>2, <1>3

-----------------------------------------------------------------------------
(* One digit is made. *)
TakeStep(i) == [s \in Taking \X Nat |-> TakeBit(s[1], i, s[2] + 1)]

LEMMA TakeStepIs == ASSUME NEW i \in 0..ScalarBits - 1 PROVE IsStep(TakeStep(i), Taking)
<1>1. ASSUME NEW s \in Taking \X Nat PROVE TakeBit(s[1], i, s[2] + 1) \in Taking
  <2>1. PICK x \in Taking, k \in Nat : s[1] = x /\ s[2] = k /\ k + 1 \in Nat /\ k + 1 > 0
    BY <1>1
  <2>2. TakeBit(x, i, k + 1) \in Taking
    BY <2>1, TakeBitIs DEF TakenAs
  <2> QED
    BY <2>1, <2>2
<1> QED
  BY <1>1 DEF TakeStep, IsStep

Started(r) == [r |-> r, done |-> FALSE]
SlideRounds(r, i) == Rounds(LAMBDA s, b : TakeBit(s, i, b + 1), Started(r), 6)

LEMMA StartedIs == ASSUME NEW r \in DigitSeq PROVE Started(r) \in Taking /\ Started(r).r = r /\ ~Started(r).done
  BY DEF Started, Taking

LEMMA SlideRoundsIsRun ==
    ASSUME NEW r \in DigitSeq, NEW i \in 0..ScalarBits - 1
    PROVE  SlideRounds(r, i) = Run(TakeStep(i), Started(r), 6)
<1> DEFINE T == Taking
           h == TakeStep(i)
           z == Started(r)
           g == Runs(h, z, 6)
           Body(A) == [k \in 0..6 |-> IF k = 0 THEN z ELSE TakeBit(A[k - 1], i, (k - 1) + 1)]
           F == CHOOSE A : A = Body(A)
<1>1. SlideRounds(r, i) = F[6]
  BY DEF SlideRounds, Rounds
<1>2. 6 \in Nat /\ z \in T /\ h \in [T \X Nat -> T]
  BY StartedIs, TakeStepIs DEF IsStep
<1>3. \A x \in T, j \in 1..6 : h[<<x, j - 1>>] = TakeBit(x, i, (j - 1) + 1)
  BY DEF TakeStep
<1> HIDE DEF T, h, z
<1>4. IsRun(g, h, T, z, 6)
  BY <1>2, RunsIs
<1> HIDE DEF g
<1>5. g \in [0..6 -> T] /\ g[0] = z /\ \A j \in 1..6 : g[j] = h[<<g[j - 1], j - 1>>]
  BY <1>4 DEF IsRun
<1>6. g = Body(g)
  <2>1. ASSUME NEW j \in 0..6 PROVE g[j] = IF j = 0 THEN z ELSE TakeBit(g[j - 1], i, (j - 1) + 1)
    <3>1. j # 0 => j \in 1..6 /\ g[j - 1] \in T
      BY <1>2, <1>5
    <3> QED
      BY <1>3, <1>5, <3>1
  <2>2. DOMAIN g = 0..6 /\ g = [j \in DOMAIN g |-> g[j]]
    BY <1>5
  <2> QED
    BY <2>1, <2>2
<1>7. F = Body(F)
  <2> HIDE DEF Body
  <2> QED
    BY <1>6
<1> HIDE DEF F
<1>8. \A j \in 0..6 : F[j] = IF j = 0 THEN z ELSE TakeBit(F[j - 1], i, (j - 1) + 1)
  BY <1>7
<1>9. Obeys(F, h, T, z, 6)
  <2>1. 0 \in 0..6 /\ \A j \in 1..6 : j \in 0..6 /\ j # 0
    BY <1>2
  <2>2. F[0] = z
    BY <1>8, <2>1
  <2>3. ASSUME NEW j \in 1..6, F[j - 1] \in T PROVE F[j] = h[<<F[j - 1], j - 1>>]
    <3>1. F[j] = TakeBit(F[j - 1], i, (j - 1) + 1)
      BY <1>8, <2>1
    <3> QED
      BY <1>3, <2>3, <3>1
  <2> QED
    BY <2>2, <2>3 DEF Obeys
<1>10. Agree(F, Runs(h, z, 6), T, 6)
  <2>1. 6 \in Nat /\ z \in T /\ IsStep(h, T)
    BY <1>2 DEF IsStep
  <2> QED
    BY <1>9, <2>1, RunSame
<1>11. F[6] = g[6]
  BY <1>2, <1>10 DEF Agree, g
<1> QED
  BY <1>1, <1>11 DEF Run, g, h, z

(* Digit i is made, and the worth stays.                                   *)
LEMMA SlideAtIs ==
    ASSUME NEW r, NEW a, NEW i \in 0..ScalarBits - 1, Slid(r, a, i)
    PROVE  Slid(SlideAt(r, i), a, i + 1)
<1>1. r \in DigitSeq /\ Value(r) = a /\ Lower(r, i) /\ Upper(r, i) /\ Free(r, i)
  BY DEF Slid
<1>2. i \in i..ScalarBits - 1 /\ i \in Nat
  BY DigitsAre
<1>3. r[i] = 0 \/ r[i] = 1
  BY <1>1, <1>2 DEF Upper
<1>4. Upper(r, i + 1)
  <2>1. \A j \in i + 1..ScalarBits - 1 : j \in i..ScalarBits - 1
    BY <1>2, DigitsAre
  <2> QED
    BY <1>1, <2>1 DEF Upper
<1>5. Slid(r, a, i + 1)
  <2>1. \A j \in 0..(i + 1) - 1 : j = i \/ j \in 0..i - 1
    BY <1>2
  <2>2. IsDigit(r[i])
    <3>1. 0 \in 0..7 /\ 1 = 2 * 0 + 1
      OBVIOUS
    <3> QED
      BY <1>3, <3>1 DEF IsDigit
  <2>3. Lower(r, i + 1)
    BY <1>1, <2>1, <2>2 DEF Lower
  <2>4. Free(r, i + 1)
    <3>1. \A j \in i + 1..ScalarBits - 2 : j \in i..ScalarBits - 2
      BY <1>2, DigitsAre
    <3> QED
      BY <1>1, <3>1 DEF Free
  <2> QED
    BY <1>1, <1>4, <2>3, <2>4 DEF Slid
<1>6. CASE r[i] = 0
  BY <1>5, <1>6 DEF SlideAt
<1>7. CASE r[i] # 0
  <2>1. SlideAt(r, i) = SlideRounds(r, i).r
    BY <1>7 DEF SlideAt, SlideRounds, Started
  <2> DEFINE g(k) == Run(TakeStep(i), Started(r), k)
  <2>2. \A k \in Nat : Turns(TakeStep(i), Started(r), k, Taking)
    BY <1>1, StartedIs, TakeStepIs, RunIs
  <2>3. \A x \in Taking, k \in Nat : TakeStep(i)[<<x, k>>] = TakeBit(x, i, k + 1)
    BY DEF TakeStep
  <2>4. \A k \in Nat : g(0) = Started(r) /\ g(k) \in Taking /\ g(k + 1) = TakeBit(g(k), i, k + 1)
    BY <2>2, <2>3 DEF Turns
  <2>5. SlideRounds(r, i) = g(6)
    BY <1>1, SlideRoundsIsRun
  <2> HIDE DEF g
  <2>6. /\ g(1) = TakeBit(g(0), i, 1) /\ g(2) = TakeBit(g(1), i, 2) /\ g(3) = TakeBit(g(2), i, 3)
        /\ g(4) = TakeBit(g(3), i, 4) /\ g(5) = TakeBit(g(4), i, 5) /\ g(6) = TakeBit(g(5), i, 6)
    <3>1. /\ g(0 + 1) = TakeBit(g(0), i, 0 + 1) /\ g(1 + 1) = TakeBit(g(1), i, 1 + 1)
          /\ g(2 + 1) = TakeBit(g(2), i, 2 + 1) /\ g(3 + 1) = TakeBit(g(3), i, 3 + 1)
          /\ g(4 + 1) = TakeBit(g(4), i, 4 + 1) /\ g(5 + 1) = TakeBit(g(5), i, 5 + 1)
      BY <2>4
    <3>2. 0 + 1 = 1 /\ 1 + 1 = 2 /\ 2 + 1 = 3 /\ 3 + 1 = 4 /\ 4 + 1 = 5 /\ 5 + 1 = 6
      OBVIOUS
    <3> QED
      BY <3>1, <3>2
  <2>7. g(0) \in Taking /\ g(1) \in Taking /\ g(2) \in Taking /\ g(3) \in Taking /\ g(4) \in Taking
        /\ g(5) \in Taking /\ g(6) \in Taking
    BY <2>4
  <2>8. g(0).r = r /\ ~g(0).done
    BY <1>1, <2>4, StartedIs
  <2>9. CASE i = ScalarBits - 1
    <3>1. \A b \in 1..6 : b \in Nat /\ b > 0 /\ i + b >= ScalarBits
      BY <2>9, DigitsAre
    <3>2. \A s \in Taking, b \in 1..6 : s.r = r => TakeBit(s, i, b).r = r
      BY <1>5, <3>1, QuietStep
    <3>3. 1 \in 1..6 /\ 2 \in 1..6 /\ 3 \in 1..6 /\ 4 \in 1..6 /\ 5 \in 1..6 /\ 6 \in 1..6
      OBVIOUS
    <3>4. g(1).r = r
      BY <2>6, <2>7, <2>8, <3>2, <3>3
    <3>5. g(2).r = r
      BY <2>6, <2>7, <3>4, <3>2, <3>3
    <3>6. g(3).r = r
      BY <2>6, <2>7, <3>5, <3>2, <3>3
    <3>7. g(4).r = r
      BY <2>6, <2>7, <3>6, <3>2, <3>3
    <3>8. g(5).r = r
      BY <2>6, <2>7, <3>7, <3>2, <3>3
    <3>9. g(6).r = r
      BY <2>6, <2>7, <3>8, <3>2, <3>3
    <3> QED
      BY <1>5, <2>1, <2>5, <3>9
  <2>10. CASE i # ScalarBits - 1
    <3>1. i \in 0..ScalarBits - 2 /\ i \in i..ScalarBits - 2
      BY <2>10, DigitsAre
    <3>2. r[ScalarBits - 1] = 0
      BY <1>1, <1>7, <3>1 DEF Free
    <3>3. Grown(r, a, i, 0, 1)
      <4>1. \A j \in i + 1..i + 0 : FALSE
        BY <1>2
      <4>2. 0 \in 0..1 - 1 /\ r[i] = 2 * 0 + 1
        BY <1>3, <1>7
      <4> QED
        BY <1>1, <1>4, <3>2, <4>1, <4>2 DEF Grown
    <3>4. Grown(g(1).r, a, i, 1, 2) /\ ~g(1).done
      <4>1. 1 \in 1..3 /\ 1 \in {1, 2, 4} /\ Two[1] = 2 * 1 /\ 1 - 1 = 0 /\ 2 * 1 = 2
        BY FirstTwos
      <4>2. Grown(g(0).r, a, i, 1 - 1, 1)
        BY <2>8, <3>3, <4>1
      <4>3. Grown(g(1).r, a, i, 1, 2 * 1) /\ ~g(1).done
        BY <2>6, <2>7, <2>8, <3>1, <4>1, <4>2, GrowStep
      <4> QED
        BY <4>1, <4>3
    <3>5. Grown(g(2).r, a, i, 2, 4) /\ ~g(2).done
      <4>1. 2 \in 1..3 /\ 2 \in {1, 2, 4} /\ Two[2] = 2 * 2 /\ 2 - 1 = 1 /\ 2 * 2 = 4
        BY FirstTwos
      <4>2. Grown(g(1).r, a, i, 2 - 1, 2)
        BY <3>4, <4>1
      <4>3. Grown(g(2).r, a, i, 2, 2 * 2) /\ ~g(2).done
        BY <2>6, <2>7, <3>1, <3>4, <4>1, <4>2, GrowStep
      <4> QED
        BY <4>1, <4>3
    <3>6. Grown(g(3).r, a, i, 3, 8) /\ ~g(3).done
      <4>1. 3 \in 1..3 /\ 4 \in {1, 2, 4} /\ Two[3] = 2 * 4 /\ 3 - 1 = 2 /\ 2 * 4 = 8
        BY FirstTwos
      <4>2. Grown(g(2).r, a, i, 3 - 1, 4)
        BY <3>5, <4>1
      <4>3. Grown(g(3).r, a, i, 3, 2 * 4) /\ ~g(3).done
        BY <2>6, <2>7, <3>1, <3>5, <4>1, <4>2, GrowStep
      <4> QED
        BY <4>1, <4>3
    <3>7. Slid(g(4).r, a, i + 1)
      BY <2>6, <2>7, <3>1, <3>6, LastStep
    <3>8. Slid(g(5).r, a, i + 1)
      <4>1. 5 \in Nat /\ 5 > 0 /\ 5 \in 5..6
        OBVIOUS
      <4> QED
        BY <2>6, <2>7, <3>7, <4>1, QuietStep
    <3>9. Slid(g(6).r, a, i + 1)
      <4>1. 6 \in Nat /\ 6 > 0 /\ 6 \in 5..6
        OBVIOUS
      <4> QED
        BY <2>6, <2>7, <3>8, <4>1, QuietStep
    <3> QED
      BY <2>1, <2>5, <3>9
  <2> QED
    BY <2>9, <2>10
<1> QED
  BY <1>6, <1>7

-----------------------------------------------------------------------------
(* The bits that slide begins with. *)
Bits(a) == [i \in 0..ScalarBits - 1 |-> Bit(a, i)]
Above(a, k) == a \div Two[k]

(* A bit, between the numbers above it.                                    *)
LEMMA BitIs ==
    ASSUME NEW a \in Nat, NEW k \in 0..ScalarBits - 1
    PROVE  /\ Above(a, k) \in Nat /\ Above(a, k + 1) \in Nat /\ Bit(a, k) \in {0, 1}
           /\ Above(a, k) = 2 * Above(a, k + 1) + Bit(a, k)
<1>1. PICK t \in Nat : t = Two[k] /\ t > 0 /\ Two[k + 1] = 2 * t
  BY TwoIs, DigitsAre
<1>2. PICK u, m \in Nat : u = a \div t /\ m = a % t /\ a = t * u + m /\ m \in 0..t - 1
  <2>1. a \div t \in Nat /\ a = t * (a \div t) + (a % t) /\ a % t \in 0..t - 1
    BY <1>1, QuotientNat
  <2>2. PICK u \in Nat : u = a \div t
    BY <2>1
  <2>3. PICK m \in Nat : m = a % t /\ m \in 0..t - 1
    BY <1>1, <2>1
  <2>4. a = t * u + m
    BY <2>1, <2>2, <2>3
  <2> QED
    BY <2>2, <2>3, <2>4
<1>3. PICK h, e \in Nat : h = u \div 2 /\ e = u % 2 /\ u = 2 * h + e /\ e \in 0..2 - 1
  <2>1. 2 \in Nat /\ 2 > 0
    OBVIOUS
  <2> QED
    BY <2>1, QuotientNat
<1>4. a = (2 * t) * h + (t * e + m)
  <2>1. t * (2 * h + e) + m = (2 * t) * h + (t * e + m)
    OBVIOUS
  <2> QED
    BY <1>2, <1>3, <2>1
<1>5. t * e + m \in 0..(2 * t) - 1
  <2>0. m \in Nat /\ t \in Nat /\ m < t
    BY <1>1, <1>2
  <2>1. CASE e = 0
    <3>1. t * e = 0
      BY <2>1
    <3> QED
      BY <2>0, <3>1
  <2>2. CASE e = 1
    <3>1. t * e = t
      BY <2>2
    <3> QED
      BY <2>0, <3>1
  <2> QED
    BY <1>3, <2>1, <2>2
<1>6. a \div (2 * t) = h
  <2>1. 2 * t \in Nat /\ 2 * t > 0 /\ h \in Int /\ a \in Int
    BY <1>1
  <2> QED
    BY <1>4, <1>5, <2>1, RemainderUnique
<1>7. Above(a, k) = u /\ Above(a, k + 1) = h /\ Bit(a, k) = e
  BY <1>1, <1>2, <1>3, <1>6 DEF Above, Bit
<1> QED
  BY <1>3, <1>7

(* The bits of a are worth a.                                              *)
LEMMA BitsSlid == ASSUME NEW a, Short(a) PROVE Slid(Bits(a), a, 0)
<1>1. a \in Nat /\ a < Two[ScalarBits - 1]
  BY DEF Short
<1> DEFINE r == Bits(a)
<1>2. \A k \in 0..ScalarBits - 1 : r[k] = Bit(a, k) /\ r[k] \in {0, 1}
  BY <1>1, BitIs DEF Bits
<1>3. r \in DigitSeq
  BY <1>1, BitIs DEF Bits, DigitSeq
<1> HIDE DEF r
<1> DEFINE A == {k \in Nat : k <= ScalarBits => SumsOf(r)[k] + Two[k] * Above(a, k) = a}
<1>4. 0 \in A
  <2>1. a \div 1 = a
    <3>1. 1 \in Nat /\ 1 > 0 /\ a \in Int /\ 0 \in 0..1 - 1 /\ a = 1 * a + 0
      BY <1>1
    <3> QED
      BY <3>1, RemainderUnique
  <2>2. Two[0] = 1 /\ SumsOf(r)[0] = 0 /\ Above(a, 0) = a
    BY <1>3, <2>1, TwoIs, SumsAre DEF Above
  <2>3. 0 + 1 * a = a
    BY <1>1
  <2> QED
    BY <2>2, <2>3
<1>5. ASSUME NEW k \in Nat, k \in A PROVE k + 1 \in A
  <2>1. SUFFICES ASSUME k + 1 <= ScalarBits PROVE SumsOf(r)[k + 1] + Two[k + 1] * Above(a, k + 1) = a
    OBVIOUS
  <2>2. k \in 0..ScalarBits - 1 /\ k \in 0..ScalarBits /\ k <= ScalarBits
    BY <2>1, DigitsAre
  <2>3. PICK t, v, h, e \in Int : /\ t = Two[k] /\ v = SumsOf(r)[k] /\ h = Above(a, k + 1) /\ e = r[k]
                                  /\ Above(a, k) = 2 * h + e /\ Two[k + 1] = 2 * t
                                  /\ SumsOf(r)[k + 1] = v + t * e
    <3>1. Above(a, k) \in Nat /\ Above(a, k + 1) \in Nat /\ Above(a, k) = 2 * Above(a, k + 1) + r[k] /\ r[k] \in {0, 1}
      BY <1>1, <1>2, <2>2, BitIs
    <3>2. Two[k] \in Int /\ Two[k + 1] = 2 * Two[k]
      BY <2>2, BitsAre
    <3>3. SumsOf(r)[k] \in Int /\ SumsOf(r)[k + 1] = SumsOf(r)[k] + Two[k] * r[k]
      BY <1>3, <2>2, SumsAre
    <3>4. r[k] \in Int
      BY <3>1
    <3> QED
      BY <3>1, <3>2, <3>3, <3>4
  <2>4. v + t * (2 * h + e) = a
    BY <1>5, <2>2, <2>3
  <2>5. (v + t * e) + (2 * t) * h = v + t * (2 * h + e)
    OBVIOUS
  <2> QED
    BY <2>3, <2>4, <2>5
<1> HIDE DEF A
<1>6. ScalarBits \in A
  BY <1>4, <1>5, DigitsAre, SetInduction
<1>7. ScalarBits - 1 \in 0..ScalarBits - 1 /\ (ScalarBits - 1) + 1 = ScalarBits
  BY DigitsAre
<1>8. Above(a, ScalarBits - 1) = 0
  <2>1. PICK t \in Nat : t = Two[ScalarBits - 1] /\ t > 0
    BY TopTwos
  <2>2. 0 \in Int /\ a \in 0..t - 1 /\ a = t * 0 + a /\ a \in Int
    BY <1>1, <2>1
  <2>3. a \div t = 0
    BY <2>1, <2>2, RemainderUnique
  <2> QED
    BY <2>1, <2>3 DEF Above
<1>9. Above(a, ScalarBits) = 0 /\ r[ScalarBits - 1] = 0
  <2>1. PICK h, e \in Nat : /\ h = Above(a, ScalarBits) /\ e = Bit(a, ScalarBits - 1)
                            /\ Above(a, ScalarBits - 1) = 2 * h + e
    <3>1. LET k == ScalarBits - 1
          IN  /\ Above(a, k + 1) \in Nat /\ Bit(a, k) \in {0, 1}
              /\ Above(a, k) = 2 * Above(a, k + 1) + Bit(a, k)
      BY <1>1, <1>7, BitIs
    <3>2. Above(a, ScalarBits) \in Nat /\ Bit(a, ScalarBits - 1) \in Nat
      BY <1>7, <3>1
    <3> QED
      BY <1>7, <3>1, <3>2
  <2>2. h = 0 /\ e = 0
    BY <1>8, <2>1
  <2> QED
    BY <1>2, <1>7, <2>1, <2>2
<1>10. Value(r) = a
  <2>1. SumsOf(r)[ScalarBits] + Two[ScalarBits] * Above(a, ScalarBits) = a
    BY <1>6, DigitsAre DEF A
  <2>2. PICK t, v \in Int : t = Two[ScalarBits] /\ v = SumsOf(r)[ScalarBits]
    BY <1>3, TwoIs, SumsAre, DigitsAre
  <2>3. v + t * 0 = v
    OBVIOUS
  <2> QED
    BY <1>3, <1>9, <2>1, <2>2, <2>3, SumsAre
<1>11. Lower(r, 0) /\ Upper(r, 0) /\ Free(r, 0)
  <2>1. \A j \in 0..0 - 1 : FALSE
    OBVIOUS
  <2> QED
    BY <1>2, <1>9, <2>1 DEF Lower, Upper, Free
<1> QED
  BY <1>3, <1>10, <1>11 DEF Slid, r

-----------------------------------------------------------------------------
(* slide as a whole. *)
LEMMA SlideAtTyped == ASSUME NEW r \in DigitSeq, NEW i \in 0..ScalarBits - 1 PROVE SlideAt(r, i) \in DigitSeq
<1>1. CASE r[i] = 0
  BY <1>1 DEF SlideAt
<1>2. CASE r[i] # 0
  <2>1. SlideAt(r, i) = SlideRounds(r, i).r
    BY <1>2 DEF SlideAt, SlideRounds, Started
  <2>2. 6 \in Nat /\ Turns(TakeStep(i), Started(r), 6, Taking)
    BY StartedIs, TakeStepIs, RunIs
  <2>3. SlideRounds(r, i) \in Taking
    BY <2>2, SlideRoundsIsRun DEF Turns
  <2> QED
    BY <2>1, <2>3 DEF Taking
<1> QED
  BY <1>1, <1>2

SlideStep == [s \in DigitSeq \X Nat |-> IF s[2] < ScalarBits THEN SlideAt(s[1], s[2]) ELSE s[1]]

LEMMA SlideStepIs == IsStep(SlideStep, DigitSeq)
<1>1. ASSUME NEW s \in DigitSeq \X Nat PROVE (IF s[2] < ScalarBits THEN SlideAt(s[1], s[2]) ELSE s[1]) \in DigitSeq
  <2>1. PICK x \in DigitSeq, k \in Nat : s[1] = x /\ s[2] = k
    BY <1>1
  <2>2. CASE k < ScalarBits
    <3>1. k \in 0..ScalarBits - 1
      BY <2>2, DigitsAre
    <3>2. SlideAt(x, k) \in DigitSeq
      BY <3>1, SlideAtTyped
    <3> QED
      BY <2>1, <2>2, <3>2
  <2>3. CASE ~(k < ScalarBits)
    BY <2>1, <2>3
  <2> QED
    BY <2>2, <2>3
<1> QED
  BY <1>1 DEF SlideStep, IsStep

LEMMA SlideIsRun ==
    ASSUME NEW a, Bits(a) \in DigitSeq
    PROVE  Slide(a) = Run(SlideStep, Bits(a), ScalarBits)
<1> DEFINE T == DigitSeq
           h == SlideStep
           z == Bits(a)
           g == Runs(h, z, ScalarBits)
           Body(A) == [k \in 0..ScalarBits |-> IF k = 0 THEN z ELSE SlideAt(A[k - 1], k - 1)]
           F == CHOOSE A : A = Body(A)
<1>1. Slide(a) = F[ScalarBits]
  BY DEF Slide, Rounds, Bits
<1>2. ScalarBits \in Nat /\ z \in T /\ h \in [T \X Nat -> T]
  BY DigitsAre, SlideStepIs DEF IsStep
<1>3. \A x \in T, j \in 1..ScalarBits : h[<<x, j - 1>>] = SlideAt(x, j - 1)
  <2>1. \A j \in 1..ScalarBits : j - 1 \in Nat /\ j - 1 < ScalarBits
    BY DigitsAre
  <2> QED
    BY <2>1 DEF SlideStep
<1> HIDE DEF T, h, z
<1>4. IsRun(g, h, T, z, ScalarBits)
  BY <1>2, RunsIs
<1> HIDE DEF g
<1>5. g \in [0..ScalarBits -> T] /\ g[0] = z /\ \A j \in 1..ScalarBits : g[j] = h[<<g[j - 1], j - 1>>]
  BY <1>4 DEF IsRun
<1>6. g = Body(g)
  <2>1. ASSUME NEW j \in 0..ScalarBits PROVE g[j] = IF j = 0 THEN z ELSE SlideAt(g[j - 1], j - 1)
    <3>1. j # 0 => j \in 1..ScalarBits /\ g[j - 1] \in T
      BY <1>2, <1>5
    <3> QED
      BY <1>3, <1>5, <3>1
  <2>2. DOMAIN g = 0..ScalarBits /\ g = [j \in DOMAIN g |-> g[j]]
    BY <1>5
  <2> QED
    BY <2>1, <2>2
<1>7. F = Body(F)
  <2> HIDE DEF Body
  <2> QED
    BY <1>6
<1> HIDE DEF F
<1>8. \A j \in 0..ScalarBits : F[j] = IF j = 0 THEN z ELSE SlideAt(F[j - 1], j - 1)
  BY <1>7
<1>9. Obeys(F, h, T, z, ScalarBits)
  <2>1. 0 \in 0..ScalarBits /\ \A j \in 1..ScalarBits : j \in 0..ScalarBits /\ j # 0
    BY <1>2
  <2>2. F[0] = z
    BY <1>8, <2>1
  <2>3. ASSUME NEW j \in 1..ScalarBits, F[j - 1] \in T PROVE F[j] = h[<<F[j - 1], j - 1>>]
    <3>1. F[j] = SlideAt(F[j - 1], j - 1)
      BY <1>8, <2>1
    <3> QED
      BY <1>3, <2>3, <3>1
  <2> QED
    BY <2>2, <2>3 DEF Obeys
<1>10. Agree(F, Runs(h, z, ScalarBits), T, ScalarBits)
  <2>1. ScalarBits \in Nat /\ z \in T /\ IsStep(h, T)
    BY <1>2 DEF IsStep
  <2> QED
    BY <1>9, <2>1, RunSame
<1>11. F[ScalarBits] = g[ScalarBits]
  BY <1>2, <1>10 DEF Agree, g
<1> QED
  BY <1>1, <1>11 DEF Run, g, h, z

(* The digits of slide are 0 or odd, from -15 to 15, and are worth a.      *)
LEMMA SlideIs ==
    ASSUME NEW a, Short(a)
    PROVE  /\ Slide(a) \in DigitSeq /\ Value(Slide(a)) = a
           /\ \A j \in 0..ScalarBits - 1 : IsDigit(Slide(a)[j])
<1>1. Slid(Bits(a), a, 0) /\ Bits(a) \in DigitSeq
  BY BitsSlid DEF Slid
<1> DEFINE g(k) == Run(SlideStep, Bits(a), k)
           A == {k \in Nat : k <= ScalarBits => Slid(g(k), a, k)}
<1>2. \A k \in Nat : Turns(SlideStep, Bits(a), k, DigitSeq)
  BY <1>1, SlideStepIs, RunIs
<1>3. \A x \in DigitSeq, k \in 0..ScalarBits - 1 : SlideStep[<<x, k>>] = SlideAt(x, k)
  <2>1. \A k \in 0..ScalarBits - 1 : k \in Nat /\ k < ScalarBits
    BY DigitsAre
  <2> QED
    BY <2>1 DEF SlideStep
<1>4. \A k \in Nat : g(0) = Bits(a) /\ g(k) \in DigitSeq /\ g(k + 1) = SlideStep[<<g(k), k>>]
  BY <1>2 DEF Turns
<1>5. Slide(a) = g(ScalarBits)
  BY <1>1, SlideIsRun
<1> HIDE DEF g
<1>6. 0 \in A
  BY <1>1, <1>4
<1>7. ASSUME NEW k \in Nat, k \in A PROVE k + 1 \in A
  <2>1. SUFFICES ASSUME k + 1 <= ScalarBits PROVE Slid(g(k + 1), a, k + 1)
    OBVIOUS
  <2>2. k \in 0..ScalarBits - 1 /\ k <= ScalarBits
    BY <2>1, DigitsAre
  <2>3. g(k + 1) = SlideAt(g(k), k) /\ Slid(g(k), a, k)
    BY <1>3, <1>4, <1>7, <2>2
  <2> QED
    BY <2>2, <2>3, SlideAtIs
<1> HIDE DEF A
<1>8. ScalarBits \in A
  BY <1>6, <1>7, DigitsAre, SetInduction
<1>9. Slid(Slide(a), a, ScalarBits)
  BY <1>5, <1>8, DigitsAre DEF A
<1> QED
  BY <1>9 DEF Slid, Lower

-----------------------------------------------------------------------------
(* One round of ge_double_scalarmult_vartime. *)
DoubleRound(Ai, x, y, n, r, k) ==
    P1P1ToP2(AddToB(AddToA(GeP2Dbl(r), x[n - 1 - k], Ai), y[n - 1 - k]))

LEMMA DigitIsInt == ASSUME NEW d, IsDigit(d) PROVE d \in Int
  BY DEF IsDigit

(* The point is doubled and the two digits are added.                      *)
LEMMA RoundIs ==
    ASSUME NEW A, NEW a, StandsP3(A, a), NEW r, NEW s \in Int, NEW t \in Int,
           StandsP2(r, Both(a, B, s, t)), NEW d, IsDigit(d), NEW e, IsDigit(e)
    PROVE  StandsP2(P1P1ToP2(AddToB(AddToA(GeP2Dbl(r), d, OddMultiples(A)), e)), Both(a, B, 2 * s + d, 2 * t + e))
<1>0. a \in Curve /\ B \in Curve /\ d \in Int /\ e \in Int
  BY BaseIs, DigitIsInt DEF StandsP3
<1>1. StandsP1P1(GeP2Dbl(r), Both(a, B, 2 * s, 2 * t))
  <2>1. StandsP1P1(GeP2Dbl(r), AddAffine(Both(a, B, s, t), Both(a, B, s, t)))
    BY DoubleIs
  <2> QED
    BY <1>0, <2>1, BothIs
<1>2. PICK m, n \in Int : m = 2 * s /\ n = 2 * t
  OBVIOUS
<1>3. StandsP1P1(AddToA(GeP2Dbl(r), d, OddMultiples(A)), Both(a, B, m + d, n))
  <2>1. StandsP1P1(AddToA(GeP2Dbl(r), d, OddMultiples(A)), AddAffine(Both(a, B, m, n), Mul(a, d)))
    BY <1>1, <1>2, SignedA
  <2>2. AddAffine(Both(a, B, m, n), Mul(a, d)) = Both(a, B, m + d, n)
    BY <1>0, BothIs
  <2> QED
    BY <2>1, <2>2
<1>4. StandsP1P1(AddToB(AddToA(GeP2Dbl(r), d, OddMultiples(A)), e), Both(a, B, m + d, n + e))
  <2>1. PICK u \in Int : u = m + d
    BY <1>0
  <2>2. StandsP1P1(AddToB(AddToA(GeP2Dbl(r), d, OddMultiples(A)), e), AddAffine(Both(a, B, u, n), Mul(B, e)))
    BY <1>3, <2>1, SignedB
  <2>3. AddAffine(Both(a, B, u, n), Mul(B, e)) = Both(a, B, u, n + e)
    BY <1>0, BothIs
  <2> QED
    BY <2>1, <2>2, <2>3
<1> QED
  BY <1>2, <1>4, FromP1P1Is

AreSlides(x, y) ==
    /\ x \in DigitSeq /\ y \in DigitSeq
    /\ \A j \in 0..ScalarBits - 1 : IsDigit(x[j]) /\ IsDigit(y[j])

DoubleStep2(Ai, x, y, n) ==
    [s \in Standing2 \X Nat |-> IF s[2] < n THEN DoubleRound(Ai, x, y, n, s[1], s[2]) ELSE s[1]]

LEMMA DoubleStep2Is ==
    ASSUME NEW A, NEW a, StandsP3(A, a), NEW x, NEW y, AreSlides(x, y), NEW n \in 0..ScalarBits
    PROVE  IsStep(DoubleStep2(OddMultiples(A), x, y, n), Standing2)
<1> DEFINE Ai == OddMultiples(A)
<1>1. ASSUME NEW s \in Standing2 \X Nat
      PROVE  (IF s[2] < n THEN DoubleRound(Ai, x, y, n, s[1], s[2]) ELSE s[1]) \in Standing2
  <2>1. PICK r \in Standing2, k \in Nat : s[1] = r /\ s[2] = k
    BY <1>1
  <2>2. CASE k < n
    <3>1. n - 1 - k \in 0..ScalarBits - 1
      BY <2>2, DigitsAre
    <3>2. PICK d, e : d = x[n - 1 - k] /\ e = y[n - 1 - k] /\ IsDigit(d) /\ IsDigit(e)
      BY <3>1 DEF AreSlides
    <3>3. PICK c \in Curve : StandsP2(r, c)
      BY DEF Standing2
    <3>4. StandsP1P1(GeP2Dbl(r), AddAffine(c, c))
      BY <3>3, DoubleIs
    <3>5. PICK f : StandsP1P1(AddToA(GeP2Dbl(r), d, Ai), f)
      BY <3>2, <3>4, SignedA
    <3>6. PICK h : StandsP1P1(AddToB(AddToA(GeP2Dbl(r), d, Ai), e), h)
      BY <3>2, <3>5, SignedB
    <3>7. P1P1ToP2(AddToB(AddToA(GeP2Dbl(r), d, Ai), e)) \in Standing2
      BY <3>6, FromP1P1Is, Standing2Is
    <3>8. DoubleRound(Ai, x, y, n, r, k) \in Standing2
      <4> HIDE DEF Ai
      <4> QED
        BY <3>2, <3>7 DEF DoubleRound
    <3> HIDE DEF Ai
    <3> QED
      BY <2>1, <2>2, <3>8
  <2>3. CASE ~(k < n)
    BY <2>1, <2>3
  <2> QED
    BY <2>2, <2>3
<1> HIDE DEF Ai
<1>2. IsStep(DoubleStep2(Ai, x, y, n), Standing2)
  BY <1>1 DEF DoubleStep2, IsStep
<1> QED
  BY <1>2 DEF Ai

DoubleRounds(Ai, x, y, n) == Rounds(LAMBDA r, k : DoubleRound(Ai, x, y, n, r, k), P2Zero, n)

LEMMA P2ZeroStands == StandsP2(P2Zero, Origin) /\ P2Zero \in Standing2
<1>1. StandsP2(P3ToP2(P3Zero), Origin)
  BY ZeroStands, P3ToP2Is
<1>2. P3ToP2(P3Zero) = P2Zero
  BY DEF P3ToP2, P3Zero, P2Zero, P3, P2
<1> QED
  BY <1>1, <1>2, Standing2Is

LEMMA DoubleIsRun ==
    ASSUME NEW A, NEW a, StandsP3(A, a), NEW x, NEW y, AreSlides(x, y), NEW n \in 0..ScalarBits,
           NEW Ai, Ai = OddMultiples(A)
    PROVE  DoubleRounds(Ai, x, y, n) = Run(DoubleStep2(Ai, x, y, n), P2Zero, n)
<1> DEFINE T == Standing2
           h == DoubleStep2(Ai, x, y, n)
           z == P2Zero
           g == Runs(h, z, n)
           Body(W) == [k \in 0..n |-> IF k = 0 THEN z ELSE DoubleRound(Ai, x, y, n, W[k - 1], k - 1)]
           F == CHOOSE W : W = Body(W)
<1>1. DoubleRounds(Ai, x, y, n) = F[n]
  BY DEF DoubleRounds, Rounds
<1>2. n \in Nat /\ z \in T /\ h \in [T \X Nat -> T]
  <2>1. IsStep(DoubleStep2(OddMultiples(A), x, y, n), Standing2)
    BY DoubleStep2Is
  <2>2. n \in Nat /\ P2Zero \in Standing2
    BY P2ZeroStands, DigitsAre
  <2> QED
    BY <2>1, <2>2 DEF IsStep
<1>3. \A v \in T, j \in 1..n : h[<<v, j - 1>>] = DoubleRound(Ai, x, y, n, v, j - 1)
  <2>1. \A j \in 1..n : j - 1 \in Nat /\ j - 1 < n
    BY DigitsAre
  <2> QED
    BY <2>1 DEF DoubleStep2
<1> HIDE DEF T, h, z
<1>4. IsRun(g, h, T, z, n)
  BY <1>2, RunsIs
<1> HIDE DEF g
<1>5. g \in [0..n -> T] /\ g[0] = z /\ \A j \in 1..n : g[j] = h[<<g[j - 1], j - 1>>]
  BY <1>4 DEF IsRun
<1>6. g = Body(g)
  <2>1. ASSUME NEW j \in 0..n PROVE g[j] = IF j = 0 THEN z ELSE DoubleRound(Ai, x, y, n, g[j - 1], j - 1)
    <3>1. j # 0 => j \in 1..n /\ g[j - 1] \in T
      BY <1>2, <1>5
    <3> QED
      BY <1>3, <1>5, <3>1
  <2>2. DOMAIN g = 0..n /\ g = [j \in DOMAIN g |-> g[j]]
    BY <1>5
  <2> QED
    BY <2>1, <2>2
<1>7. F = Body(F)
  <2> HIDE DEF Body
  <2> QED
    BY <1>6
<1> HIDE DEF F
<1>8. \A j \in 0..n : F[j] = IF j = 0 THEN z ELSE DoubleRound(Ai, x, y, n, F[j - 1], j - 1)
  BY <1>7
<1>9. Obeys(F, h, T, z, n)
  <2>1. 0 \in 0..n /\ \A j \in 1..n : j \in 0..n /\ j # 0
    BY <1>2
  <2>2. F[0] = z
    BY <1>8, <2>1
  <2>3. ASSUME NEW j \in 1..n, F[j - 1] \in T PROVE F[j] = h[<<F[j - 1], j - 1>>]
    <3>1. F[j] = DoubleRound(Ai, x, y, n, F[j - 1], j - 1)
      BY <1>8, <2>1
    <3> QED
      BY <1>3, <2>3, <3>1
  <2> QED
    BY <2>2, <2>3 DEF Obeys
<1>10. Agree(F, Runs(h, z, n), T, n)
  <2>1. n \in Nat /\ z \in T /\ IsStep(h, T)
    BY <1>2 DEF IsStep
  <2> QED
    BY <1>9, <2>1, RunSame
<1>11. F[n] = g[n]
  BY <1>2, <1>10 DEF Agree, g
<1> QED
  BY <1>1, <1>11 DEF Run, g, h, z

(* The rounds from digit n on down: Horner's rule on both scalars.         *)
LEMMA DoubleRoundsAre ==
    ASSUME NEW A, NEW a, StandsP3(A, a), NEW x, NEW y, AreSlides(x, y), NEW n \in 0..ScalarBits,
           \A j \in n..ScalarBits - 1 : x[j] = 0 /\ y[j] = 0
    PROVE  StandsP2(DoubleRounds(OddMultiples(A), x, y, n), Both(a, B, Value(x), Value(y)))
<1>0. a \in Curve /\ B \in Curve /\ n \in Nat /\ n <= ScalarBits
  BY BaseIs, DigitsAre DEF StandsP3
<1>1. x \in DigitSeq /\ y \in DigitSeq /\ \A j \in 0..ScalarBits - 1 : IsDigit(x[j]) /\ IsDigit(y[j])
  BY DEF AreSlides
<1> DEFINE Ai == OddMultiples(A)
           g(k) == Run(DoubleStep2(Ai, x, y, n), P2Zero, k)
           So(z, k, s) == s \in Int /\ Two[n - k] * s = Value(z) - SumsOf(z)[n - k]
           S == {k \in Nat : k <= n => \E s, t \in Int : So(x, k, s) /\ So(y, k, t) /\ StandsP2(g(k), Both(a, B, s, t))}
<1>2. \A k \in Nat : Turns(DoubleStep2(Ai, x, y, n), P2Zero, k, Standing2)
  BY DoubleStep2Is, P2ZeroStands, RunIs
<1>3. \A v \in Standing2, k \in 0..n - 1 : DoubleStep2(Ai, x, y, n)[<<v, k>>] = DoubleRound(Ai, x, y, n, v, k)
  <2>1. \A k \in 0..n - 1 : k \in Nat /\ k < n
    BY <1>0
  <2> QED
    BY <2>1 DEF DoubleStep2
<1>4. \A k \in Nat : g(0) = P2Zero /\ g(k) \in Standing2 /\ g(k + 1) = DoubleStep2(Ai, x, y, n)[<<g(k), k>>]
  BY <1>2 DEF Turns
<1>5. DoubleRounds(Ai, x, y, n) = g(n)
  BY DoubleIsRun
<1> HIDE DEF g, Ai
<1>6. ASSUME NEW z \in DigitSeq, \A j \in n..ScalarBits - 1 : z[j] = 0
      PROVE  SumsOf(z)[n] = Value(z)
  <2> DEFINE C == {m \in Nat : n + m <= ScalarBits => SumsOf(z)[n + m] = SumsOf(z)[n]}
  <2>1. 0 \in C
    BY <1>0
  <2>2. ASSUME NEW m \in Nat, m \in C PROVE m + 1 \in C
    <3>1. SUFFICES ASSUME n + (m + 1) <= ScalarBits PROVE SumsOf(z)[n + (m + 1)] = SumsOf(z)[n]
      OBVIOUS
    <3>2. n + m \in 0..ScalarBits - 1 /\ n + m \in n..ScalarBits - 1 /\ n + m <= ScalarBits /\ n + (m + 1) = (n + m) + 1
          /\ n + m \in 0..ScalarBits
      BY <1>0, <3>1, DigitsAre
    <3>3. PICK t, v \in Int : t = Two[n + m] /\ v = SumsOf(z)[n + m]
      BY <1>6, <3>2, BitsAre, SumsAre
    <3>4. SumsOf(z)[(n + m) + 1] = v + t * 0
      BY <1>6, <3>2, <3>3, SumsAre
    <3>5. v + t * 0 = v
      OBVIOUS
    <3> QED
      BY <2>2, <3>2, <3>3, <3>4, <3>5
  <2> HIDE DEF C
  <2>3. ScalarBits - n \in C /\ n + (ScalarBits - n) = ScalarBits
    <3>1. ScalarBits - n \in Nat /\ n + (ScalarBits - n) = ScalarBits
      BY <1>0, DigitsAre
    <3> QED
      BY <2>1, <2>2, <3>1, SetInduction
  <2> QED
    BY <1>6, <2>3, SumsAre, DigitsAre DEF C
<1>7. ASSUME NEW z \in DigitSeq, \A j \in n..ScalarBits - 1 : z[j] = 0
      PROVE  So(z, 0, 0)
  <2>1. n - 0 = n /\ 0 \in Int
    BY <1>0
  <2>2. PICK t, v \in Int : t = Two[n] /\ v = Value(z)
    BY <1>0, <1>7, TwoIs, SumsAre
  <2>3. t * 0 = v - v
    OBVIOUS
  <2> QED
    BY <1>6, <1>7, <2>1, <2>2, <2>3
<1>8. ASSUME NEW z \in DigitSeq, NEW k \in 0..n - 1, NEW s, So(z, k, s)
      PROVE  So(z, k + 1, 2 * s + z[n - 1 - k])
  <2>1. n - 1 - k \in 0..ScalarBits - 1 /\ (n - 1 - k) + 1 = n - k /\ n - (k + 1) = n - 1 - k
    BY <1>0, DigitsAre
  <2>2. PICK u, d, v, w \in Int : /\ u = Two[n - 1 - k] /\ d = z[n - 1 - k] /\ v = SumsOf(z)[n - 1 - k] /\ w = Value(z)
                                  /\ Two[n - k] = 2 * u /\ SumsOf(z)[n - k] = v + u * d
    <3>1. Two[n - 1 - k] \in Int /\ Two[(n - 1 - k) + 1] = 2 * Two[n - 1 - k]
      BY <2>1, BitsAre
    <3>2. z[n - 1 - k] \in Int
      BY <2>1 DEF DigitSeq
    <3>3. n - 1 - k \in 0..ScalarBits
      BY <2>1, DigitsAre
    <3>4. SumsOf(z)[n - 1 - k] \in Int /\ Value(z) \in Int
          /\ SumsOf(z)[(n - 1 - k) + 1] = SumsOf(z)[n - 1 - k] + Two[n - 1 - k] * z[n - 1 - k]
      BY <2>1, <3>3, SumsAre
    <3> QED
      BY <2>1, <3>1, <3>2, <3>4
  <2>3. s \in Int /\ (2 * u) * s = w - (v + u * d)
    BY <1>8, <2>2
  <2>4. u * (2 * s + d) = w - v
    <3>1. PICK p, q \in Int : p = u * s /\ q = u * d
      BY <2>3
    <3>2. (2 * u) * s = 2 * p /\ u * (2 * s + d) = 2 * p + q
      BY <2>3, <3>1
    <3>3. 2 * p = w - (v + q)
      BY <2>3, <3>1, <3>2
    <3>4. 2 * p + q = w - v
      BY <3>3
    <3> QED
      BY <3>2, <3>4
  <2> QED
    BY <2>1, <2>2, <2>3, <2>4
<1> HIDE DEF So
<1>9. 0 \in S
  <2>1. So(x, 0, 0) /\ So(y, 0, 0)
    BY <1>1, <1>7
  <2>2. StandsP2(g(0), Both(a, B, 0, 0))
    <3>1. 0 \in Int
      OBVIOUS
    <3>2. Both(a, B, 0, 0) = Origin
      BY <1>0, <3>1, BothIs
    <3> QED
      BY <1>4, <3>2, P2ZeroStands
  <2> QED
    BY <2>1, <2>2
<1>10. ASSUME NEW k \in Nat, k \in S PROVE k + 1 \in S
  <2>1. SUFFICES ASSUME k + 1 <= n
                 PROVE \E s, t \in Int : So(x, k + 1, s) /\ So(y, k + 1, t) /\ StandsP2(g(k + 1), Both(a, B, s, t))
    OBVIOUS
  <2>2. k \in 0..n - 1 /\ k <= n /\ n - 1 - k \in 0..ScalarBits - 1
    BY <1>0, <2>1, DigitsAre
  <2>3. PICK s, t \in Int : So(x, k, s) /\ So(y, k, t) /\ StandsP2(g(k), Both(a, B, s, t))
    BY <1>10, <2>2
  <2>4. PICK d, e \in Int : d = x[n - 1 - k] /\ e = y[n - 1 - k] /\ IsDigit(d) /\ IsDigit(e)
    BY <1>1, <2>2, DigitIsInt
  <2>5. StandsP2(P1P1ToP2(AddToB(AddToA(GeP2Dbl(g(k)), d, Ai), e)), Both(a, B, 2 * s + d, 2 * t + e))
    BY <2>3, <2>4, RoundIs DEF Ai
  <2>6. g(k + 1) = P1P1ToP2(AddToB(AddToA(GeP2Dbl(g(k)), d, Ai), e))
    BY <1>3, <1>4, <2>2, <2>4 DEF DoubleRound
  <2>7. So(x, k + 1, 2 * s + d) /\ So(y, k + 1, 2 * t + e)
    BY <1>1, <1>8, <2>2, <2>3, <2>4
  <2>8. 2 * s + d \in Int /\ 2 * t + e \in Int
    BY <2>3, <2>4
  <2> QED
    BY <2>5, <2>6, <2>7, <2>8
<1> HIDE DEF S
<1>11. n \in S
  BY <1>0, <1>9, <1>10, SetInduction
<1>12. PICK s, t \in Int : So(x, n, s) /\ So(y, n, t) /\ StandsP2(g(n), Both(a, B, s, t))
  <2>1. n <= n
    BY <1>0
  <2> QED
    BY <1>11, <2>1 DEF S
<1>13. ASSUME NEW z \in DigitSeq, NEW u \in Int, So(z, n, u) PROVE u = Value(z)
  <2>1. n - n = 0 /\ Two[0] = 1 /\ SumsOf(z)[0] = 0 /\ Value(z) \in Int
    BY <1>0, TwoIs, SumsAre
  <2>2. 1 * u = Value(z) - 0
    BY <1>13, <2>1 DEF So
  <2> QED
    BY <2>1, <2>2
<1>14. s = Value(x) /\ t = Value(y)
  BY <1>1, <1>12, <1>13
<1> QED
  BY <1>5, <1>12, <1>14 DEF Ai

(* The highest digit that is not 0.                                        *)
LEMMA GreatestIs ==
    ASSUME NEW m \in Nat, NEW S, S \subseteq 0..m, S # {}, NEW g, g = CHOOSE i \in S : \A j \in S : j <= i
    PROVE  g \in S /\ \A j \in S : j <= g
<1> DEFINE C == {m - j : j \in S}
<1>0. \A j \in S : j \in Int /\ 0 <= j /\ j <= m /\ m - j \in Nat
  OBVIOUS
<1>1. C \subseteq Nat /\ C # {}
  BY <1>0
<1>2. PICK c \in C : \A j \in C : c <= j
  BY <1>1, LeastIs
<1>3. PICK i \in S : c = m - i
  OBVIOUS
<1>4. \A j \in S : j <= i
  <2>1. ASSUME NEW j \in S PROVE j <= i
    <3>1. m - j \in C
      OBVIOUS
    <3>2. m - i <= m - j /\ i \in Int /\ j \in Int
      BY <1>0, <1>2, <1>3, <3>1
    <3> QED
      BY <3>2
  <2> QED
    BY <2>1
<1> QED
  BY <1>4

(* ge_double_scalarmult_vartime is a * A + b * B. *)
LEMMA DoubleScalarMultIs ==
    ASSUME NEW h, Short(h), NEW b, Short(b), NEW A, NEW a, StandsP3(A, a)
    PROVE  StandsP2(GeDoubleScalarMult(h, A, b), Both(a, B, h, b))
<1>1. PICK x, y : x = Slide(h) /\ y = Slide(b)
  OBVIOUS
<1>2. AreSlides(x, y) /\ Value(x) = h /\ Value(y) = b
  BY <1>1, SlideIs DEF AreSlides
<1> DEFINE top == {i \in 0..ScalarBits - 1 : x[i] # 0 \/ y[i] # 0}
           n == IF top = {} THEN 0 ELSE (CHOOSE i \in top : \A j \in top : j <= i) + 1
<1>3. n \in 0..ScalarBits /\ \A j \in n..ScalarBits - 1 : x[j] = 0 /\ y[j] = 0
  <2>1. CASE top = {}
    <3>1. n = 0
      BY <2>1
    <3>2. 0 \in 0..ScalarBits
      BY DigitsAre
    <3>3. \A j \in 0..ScalarBits - 1 : x[j] = 0 /\ y[j] = 0
      BY <2>1
    <3> HIDE DEF n
    <3> QED
      BY <3>1, <3>2, <3>3
  <2>2. CASE top # {}
    <3>1. PICK g : g = CHOOSE i \in top : \A j \in top : j <= i
      OBVIOUS
    <3>2. n = g + 1
      BY <2>2, <3>1
    <3>3. ScalarBits - 1 \in Nat /\ top \subseteq 0..ScalarBits - 1
      BY DigitsAre
    <3>4. g \in top /\ \A j \in top : j <= g
      <4> HIDE DEF top
      <4> QED
        BY <2>2, <3>1, <3>3, GreatestIs
    <3> HIDE DEF n
    <3>5. g \in 0..ScalarBits - 1 /\ g + 1 \in 0..ScalarBits
      BY <3>4, DigitsAre
    <3>6. \A j \in g + 1..ScalarBits - 1 : j \in 0..ScalarBits - 1 /\ ~(j <= g)
      BY <3>5, DigitsAre
    <3>7. \A j \in g + 1..ScalarBits - 1 : j \notin top
      BY <3>4, <3>6
    <3>8. \A j \in g + 1..ScalarBits - 1 : x[j] = 0 /\ y[j] = 0
      BY <3>6, <3>7
    <3> QED
      BY <3>2, <3>5, <3>8
  <2> QED
    BY <2>1, <2>2
<1>4. GeDoubleScalarMult(h, A, b) = DoubleRounds(OddMultiples(A), x, y, n)
  BY <1>1 DEF GeDoubleScalarMult, DoubleRounds, DoubleRound, AddToA, AddToB
<1> HIDE DEF n
<1>5. StandsP2(DoubleRounds(OddMultiples(A), x, y, n), Both(a, B, Value(x), Value(y)))
  BY <1>2, <1>3, DoubleRoundsAre
<1> QED
  BY <1>2, <1>4, <1>5

-----------------------------------------------------------------------------
(* What it finds a root for is on the curve. *)
LEMMA RootOnCurve ==
    ASSUME NEW Y \in Residues, NEW o, o = RootOf(Y), o.vxx = o.u \/ FeAdd(o.vxx, o.u) = 0
    PROVE  o.X \in Residues /\ Affine(o.X, Y) \in Curve
<1>1. PICK y, d \in Int : y = Y /\ d = D /\ Is(Y, y)
  BY ConstantsAre, ResidueIsInt, IsItself
<1> DEFINE u == FeSub(FeSq(Y), 1)
           v == FeAdd(FeMul(FeSq(Y), D), 1)
           v3 == FeMul(FeSq(v), v)
           uv7 == FeMul(FeMul(FeSq(v3), v), u)
           root == FeMul(FeMul(FePow22523(uv7), v3), u)
           vxx == FeMul(FeSq(root), v)
           X == IF vxx = u THEN root ELSE FeMul(root, SqrtM1)
<1>2. o.u = u /\ o.vxx = vxx /\ o.X = X
  BY DEF RootOf
<1>3. PICK U, V \in Int : U = y * y - 1 /\ V = (y * y) * d + 1
  OBVIOUS
<1>4. Is(FeSq(Y), y * y) /\ Is(1, 1) /\ Is(D, d)
  BY <1>1, SmallNumbers, ConstantsAre, IsItself, OpsAre
<1>5. Is(u, U)
  BY <1>3, <1>4, OpsAre
<1>6. Is(v, V)
  <2>1. Is(FeMul(FeSq(Y), D), (y * y) * d)
    BY <1>4, OpsAre
  <2> QED
    BY <1>3, <1>4, <2>1, OpsAre
<1> HIDE DEF u, v
<1>7. PICK k3 \in Int : Is(v3, k3)
  <2>1. Is(FeSq(v), V * V)
    BY <1>6, OpsAre
  <2> QED
    BY <1>6, <2>1, OpsAre DEF Is
<1> HIDE DEF v3
<1>8. uv7 \in Residues
  <2>1. Is(FeSq(v3), k3 * k3)
    BY <1>7, OpsAre
  <2>2. Is(FeMul(FeSq(v3), v), (k3 * k3) * V)
    BY <1>6, <2>1, OpsAre
  <2> QED
    BY <1>5, <2>2, OpsAre DEF Is
<1> HIDE DEF uv7
<1>9. PICK w \in Residues : w = FePow22523(uv7) /\ Is(w, w)
  BY <1>8, RootAssumption, IsItself
<1>10. PICK R \in Int : Is(root, R)
  <2>1. Is(FeMul(w, v3), w * k3)
    BY <1>7, <1>9, OpsAre
  <2>2. Is(root, (w * k3) * U)
    BY <1>5, <1>9, <2>1, OpsAre
  <2> QED
    BY <2>2 DEF Is
<1> HIDE DEF root
<1>11. Is(vxx, (R * R) * V)
  <2>1. Is(FeSq(root), R * R)
    BY <1>10, OpsAre
  <2> QED
    BY <1>6, <2>1, OpsAre
<1> HIDE DEF vxx
<1>12. PICK Q \in Int : Q = (R * R) * V
  OBVIOUS
<1>13. PICK S \in Int : Is(X, S) /\ Same((S * S) * V, U)
  <2>1. CASE vxx = u
    <3>1. Is(X, R)
      BY <1>10, <2>1
    <3>2. Same(Q, U)
      <4>1. Same(vxx, Q) /\ Same(vxx, U) /\ vxx \in Int
        BY <1>5, <1>11, <1>12, <2>1, ResidueIsInt DEF Is
      <4> QED
        BY <4>1, SameThrough, SameBack
    <3> QED
      BY <1>12, <3>1, <3>2
  <2>2. CASE vxx # u
    <3>1. FeAdd(vxx, u) = 0
      BY <1>2, <2>2
    <3>2. Is(FeAdd(vxx, u), Q + U)
      BY <1>5, <1>11, <1>12, OpsAre
    <3>3. Same(Q + U, 0)
      BY <3>1, <3>2, ZeroIs DEF Zero
    <3>4. Same(Q, -U)
      <4>1. Same(-U, -U) /\ -U \in Int /\ Q + U \in Int /\ 0 \in Int
        BY SameItself
      <4>2. Same((Q + U) + (-U), 0 + (-U))
        BY <3>3, <4>1, SamePlus
      <4>3. (Q + U) + (-U) = Q /\ 0 + (-U) = -U
        OBVIOUS
      <4> QED
        BY <4>2, <4>3
    <3>5. Is(SqrtM1, SqrtM1) /\ SqrtM1 \in Int
      BY ConstantsAre, IsItself, ResidueIsInt
    <3>6. PICK i \in Int : i = SqrtM1 /\ Same(i * i, -1)
      BY <3>5, MinusOne
    <3>7. Is(X, R * i)
      BY <1>10, <2>2, <3>5, <3>6, OpsAre
    <3>8. ((R * i) * (R * i)) * V = (i * i) * Q
      BY <1>12
    <3>9. Same((i * i) * Q, (-1) * (-U))
      <4>1. -U \in Int /\ -1 \in Int /\ i * i \in Int
        OBVIOUS
      <4> QED
        BY <3>4, <3>6, <4>1, SameProduct
    <3>10. (-1) * (-U) = U /\ R * i \in Int
      OBVIOUS
    <3> QED
      BY <3>7, <3>8, <3>9, <3>10
  <2> QED
    BY <2>1, <2>2
<1> HIDE DEF X
<1>14. PICK x \in Int : x = X /\ X \in Residues /\ Same(x, S)
  BY <1>13, ResidueIsInt DEF Is
<1>15. Same((x * x) * V, U)
  <2>1. Same(x * x, S * S) /\ x * x \in Int /\ S * S \in Int
    BY <1>14, SameSquare
  <2>2. PICK m, n, j, k \in Int : m = x * x /\ n = S * S /\ j = m * V /\ k = n * V
    BY <2>1
  <2>3. Same(m, n)
    BY <2>1, <2>2
  <2>4. Same(m * V, n * V)
    BY <2>3, SameTimes
  <2>5. Same(k, U)
    BY <1>13, <2>2
  <2>6. Same(j, U)
    BY <2>2, <2>4, <2>5, SameThrough
  <2> QED
    BY <2>2, <2>6
<1>16. Same(y * y - x * x, 1 + d * ((x * x) * (y * y)))
  <2>1. PICK q \in Int : (x * x) * V = U + q * Prime
    BY <1>15 DEF Same
  <2>2. PICK p \in Int : p = Prime
    BY PrimeIs
  <2>3. (x * x) * V = d * ((x * x) * (y * y)) + x * x
    BY <1>3
  <2>4. PICK m, n, a, b, c \in Int : m = x * x /\ n = y * y /\ a = (x * x) * V /\ b = d * ((x * x) * (y * y)) /\ c = q * p
    OBVIOUS
  <2>5. a = (n - 1) + c /\ a = b + m
    BY <1>3, <2>1, <2>2, <2>3, <2>4
  <2>6. n - m = (1 + b) + (-c)
    BY <2>5
  <2>7. (-q) * p = -c /\ -q \in Int
    BY <2>4
  <2>8. y * y - x * x = (1 + d * ((x * x) * (y * y))) + (-q) * Prime
    BY <2>2, <2>4, <2>6, <2>7
  <2> QED
    BY <2>7, <2>8 DEF Same
<1>17. Affine(X, Y) \in Curve
  BY <1>1, <1>14, <1>16, OnCurveIs
<1> QED
  BY <1>2, <1>14, <1>17

-----------------------------------------------------------------------------
(* Encodings, and the points they may stand for.                           *)
LEMMA SignIsBit == ASSUME NEW f \in Residues PROVE FeIsNegative(f) \in {0, 1}
<1>1. f \in Int /\ 2 \in Nat /\ 2 > 0
  BY ResidueIsInt
<1>2. f % 2 \in 0..2 - 1
  BY <1>1, RemainderIs
<1> QED
  BY <1>2 DEF FeIsNegative

LEMMA EncodingIs ==
    ASSUME NEW a \in Curve
    PROVE  EncodeAffine(a) \in Encodings
<1>1. a.x \in Residues /\ a.y \in Residues
  BY PointIs
<1>2. a.y \in Nat /\ FeIsNegative(a.x) \in {0, 1}
  BY <1>1, SignIsBit, PrimeIs DEF Residues
<1> QED
  BY <1>2 DEF EncodeAffine, Encoding, Encodings

(* The points that an encoding may stand for. *)
IsDecoded(p, s) == p \in Curve /\ p.y = s.y % Prime /\ (p.x = 0 \/ FeIsNegative(p.x) = s.sign)

LEMMA DecodedIs ==
    ASSUME NEW s \in Encodings, NEW p
    PROVE  p \in Decoded(s) <=> IsDecoded(p, s)
<1>1. s.y % Prime \in Residues
  <2>1. s.y \in Int
    BY DEF Encodings
  <2> QED
    BY <2>1, SameRemainder
<1>2. PICK Y \in Residues : Y = s.y % Prime
  BY <1>1
<1>3. p \in [x : Residues, y : {Y}] <=> p \in [x : Residues, y : Residues] /\ p.y = Y
  OBVIOUS
<1> QED
  BY <1>2, <1>3 DEF Decoded, IsDecoded, Curve

(* Decoding finds no point when there is none, and the only one otherwise. *)
Decodes(A, s) ==
    \/ A = NoPoint /\ Decoded(s) = {}
    \/ A # NoPoint /\ \E a \in Curve : Decoded(s) = {a} /\ StandsP3(A, NegOf(a))

(* There is a point.                                                       *)
LEMMA FoundIs ==
    ASSUME NEW s \in Encodings, NEW a \in Decoded(s)
    PROVE  Decodes(GeFromBytesNegate(s), s)
<1>1. IsDecoded(a, s)
  BY DecodedIs
<1>2. a \in Curve /\ s.y % Prime = a.y /\ (a.x = 0 \/ FeIsNegative(a.x) = s.sign)
  BY <1>1 DEF IsDecoded
<1>3. PICK A : A = GeFromBytesNegate(s) /\ StandsP3(A, NegOf(a)) /\ A.X = FeNeg(a.x)
  <2>1. GeFromBytesNegate(s) = P3(FeNeg(a.x), a.y, 1, FeMul(FeNeg(a.x), a.y)) /\ StandsP3(GeFromBytesNegate(s), NegOf(a))
    BY <1>2, DecodeAs
  <2>2. GeFromBytesNegate(s).X = FeNeg(a.x)
    BY <2>1 DEF P3
  <2> QED
    BY <2>1, <2>2
<1>4. A # NoPoint
  <2>1. ~Zero(A.Z)
    BY <1>3 DEF StandsP3
  <2>2. NoPoint.Z = 0 /\ Zero(0)
    <3>1. 0 \in Int
      OBVIOUS
    <3> QED
      BY <3>1, SameItself DEF NoPoint, Zero
  <2> QED
    BY <2>1, <2>2
<1>5. ASSUME NEW b \in Decoded(s) PROVE b = a
  <2>1. IsDecoded(b, s)
    BY DecodedIs
  <2>2. b \in Curve /\ s.y % Prime = b.y /\ (b.x = 0 \/ FeIsNegative(b.x) = s.sign)
    BY <2>1 DEF IsDecoded
  <2>3. GeFromBytesNegate(s) = P3(FeNeg(b.x), b.y, 1, FeMul(FeNeg(b.x), b.y))
    BY <2>2, DecodeAs
  <2>4. A.X = FeNeg(b.x)
    BY <1>3, <2>3 DEF P3
  <2>5. a.x \in Residues /\ b.x \in Residues /\ a = Affine(a.x, a.y) /\ b = Affine(b.x, b.y)
    BY <1>2, <2>2, PointIs
  <2>6. a.x = FeNeg(A.X) /\ b.x = FeNeg(A.X)
    BY <1>3, <2>4, <2>5, NegFieldIs
  <2> QED
    BY <1>2, <2>2, <2>5, <2>6
<1>6. Decoded(s) = {a}
  BY <1>5
<1> QED
  BY <1>2, <1>3, <1>4, <1>6 DEF Decodes

(* Whether or not there is one.                                            *)
LEMMA DecodingIs ==
    ASSUME NEW s \in Encodings
    PROVE  Decodes(GeFromBytesNegate(s), s)
<1>1. CASE Decoded(s) # {}
  BY <1>1, FoundIs
<1>2. CASE Decoded(s) = {}
  <2>1. PICK Y \in Residues : Y = s.y % Prime
    <3>1. s.y \in Int
      BY DEF Encodings
    <3> QED
      BY <3>1, SameRemainder
  <2>2. PICK o : o = RootOf(Y)
    OBVIOUS
  <2> DEFINE signed == IF FeIsNegative(o.X) = s.sign THEN FeNeg(o.X) ELSE o.X
  <2>3. GeFromBytesNegate(s) = IF o.vxx # o.u /\ FeAdd(o.vxx, o.u) # 0 THEN NoPoint
                               ELSE P3(signed, Y, 1, FeMul(signed, Y))
    BY <2>1, <2>2 DEF GeFromBytesNegate, RootOf
  <2>4. ~(o.vxx = o.u \/ FeAdd(o.vxx, o.u) = 0)
    <3>1. SUFFICES ASSUME o.vxx = o.u \/ FeAdd(o.vxx, o.u) = 0 PROVE FALSE
      OBVIOUS
    <3>2. PICK p \in Curve : p = Affine(o.X, Y) /\ p.x = o.X /\ p.y = Y /\ o.X \in Residues
      BY <2>2, <3>1, RootOnCurve, AffineIs
    <3>3. PICK n \in Curve : n = NegOf(p) /\ n.x = FeNeg(o.X) /\ n.y = Y
      BY <3>2, NegIs, AffineIs DEF NegOf
    <3>4. ~IsDecoded(p, s) /\ ~IsDecoded(n, s)
      BY <1>2, DecodedIs
    <3>5. o.X # 0 /\ FeIsNegative(o.X) # s.sign /\ FeIsNegative(n.x) # s.sign
      BY <2>1, <3>2, <3>3, <3>4 DEF IsDecoded
    <3>6. FeIsNegative(n.x) # FeIsNegative(o.X)
      BY <3>2, <3>3, <3>5, SignsDiffer
    <3>7. FeIsNegative(n.x) \in {0, 1} /\ FeIsNegative(o.X) \in {0, 1} /\ s.sign \in {0, 1}
      BY <3>2, <3>3, SignIsBit, PointIs DEF Encodings
    <3> QED
      BY <3>5, <3>6, <3>7
  <2> QED
    BY <1>2, <2>3, <2>4 DEF Decodes
<1> QED
  BY <1>1, <1>2

-----------------------------------------------------------------------------
(* ed25519_verify against the equation. *)
HashesAreNumbers == \A s \in Seq(Nat) : Sha512(s) \in [lo : Nat, hi : Nat]

IsMessage(message) == message \in Seq(Nat)
IsSignature(sig) == sig.R \in Encodings /\ sig.S \in Nat

LEMMA BytesAre == ASSUME NEW s \in Encodings PROVE Bytes(s) \in Seq(Nat)
BY DEF Bytes, Encodings

(* A hash, reduced, is a scalar that the curve code takes.                 *)
LEMMA HashReduced ==
    ASSUME HashesAreNumbers, NEW s \in Seq(Nat)
    PROVE  ScReduce(Sha512(s)) \in Nat /\ Short(ScReduce(Sha512(s)))
<1>1. PICK h : h = Sha512(s) /\ h.lo \in Nat /\ h.hi \in Nat
  BY DEF HashesAreNumbers
<1>2. PICK l \in Nat : l = L /\ l > 0
  BY OrderIs
<1>3. PICK t \in Nat : t = Two[ScalarBits]
  <2>1. PICK m \in Nat : m = ScalarBits
    BY DigitsAre
  <2>2. m \in 0..m
    BY <2>1
  <2> QED
    BY <2>1, <2>2, TwoIs
<1>4. PICK r \in Nat : r = t % l
  <2>1. t % l \in 0..l - 1
    BY <1>2, RemainderIs
  <2> QED
    BY <2>1, <1>2
<1>5. PICK n \in Int : n = h.lo + r * h.hi
  BY <1>1
<1>6. ScReduce(h) = n % L
  BY <1>2, <1>3, <1>4, <1>5 DEF ScReduce
<1> QED
  BY <1>1, <1>5, <1>6, ReducedIsShort DEF Short

(* What verifying is to decide. *)
Accepts(sig, message, pub) ==
    LET h == ScReduce(Sha512(Bytes(sig.R) \o Bytes(pub) \o message))
        Holds(A) == EncodeAffine(AddAffine(Times(B, sig.S % L), NegAffine(Times(A, h)))) = sig.R
    IN /\ sig.S < Two[ScalarBits - 3]
       /\ \E A \in Decoded(pub) : Holds(A)

(* ed25519_verify accepts exactly the solutions.                           *)
LEMMA VerifyIs ==
    ASSUME HashesAreNumbers, NEW sig, IsSignature(sig), NEW message, IsMessage(message), NEW pub \in Encodings
    PROVE  Verify(sig, message, pub) <=> Accepts(sig, message, pub)
<1>1. sig.R \in Encodings /\ sig.S \in Nat
  BY DEF IsSignature
<1>2. PICK h \in Nat : h = ScReduce(Sha512(Bytes(sig.R) \o Bytes(pub) \o message)) /\ Short(h)
  <2>1. Bytes(sig.R) \o Bytes(pub) \o message \in Seq(Nat)
    BY <1>1, BytesAre DEF IsMessage
  <2> QED
    BY <2>1, HashReduced
<1>3. PICK A : A = GeFromBytesNegate(pub) /\ Decodes(A, pub)
  BY DecodingIs
<1>4. PICK S \in Nat, t \in Nat : S = sig.S /\ t = Two[ScalarBits - 3] /\ Two[ScalarBits - 1] = 2 * (2 * t)
  BY <1>1, TopTwos
<1>5. Verify(sig, message, pub) <=> (S < t /\ A # NoPoint /\ GeToBytes(GeDoubleScalarMult(h, A, S)) = sig.R)
  BY <1>2, <1>3, <1>4 DEF Verify, TooLarge
<1>6. Accepts(sig, message, pub) <=>
          (S < t /\ \E a \in Decoded(pub) : EncodeAffine(AddAffine(Times(B, S % L), NegAffine(Times(a, h)))) = sig.R)
  BY <1>2, <1>4 DEF Accepts
<1>7. CASE A = NoPoint
  BY <1>3, <1>5, <1>6, <1>7 DEF Decodes
<1>8. CASE A # NoPoint /\ S < t
  <2>1. PICK a \in Curve : Decoded(pub) = {a} /\ StandsP3(A, NegOf(a))
    BY <1>3, <1>8 DEF Decodes
  <2>2. Short(S)
    BY <1>4, <1>8 DEF Short
  <2>3. StandsP2(GeDoubleScalarMult(h, A, S), Both(NegOf(a), B, h, S))
    BY <1>2, <2>1, <2>2, DoubleScalarMultIs
  <2>4. GeToBytes(GeDoubleScalarMult(h, A, S)) = EncodeAffine(Both(NegOf(a), B, h, S))
    BY <2>3, ToBytesOfP2
  <2>5. Both(NegOf(a), B, h, S) = AddAffine(NegOf(Multiples(a, h)), Multiples(B, S))
    BY BaseIs, MulOfNeg, MulOfNat DEF Both
  <2>6. Multiples(B, S % L) = Multiples(B, S) /\ Multiples(B, S) \in Curve
    BY GOfNat, BaseIs, MultiplesIs DEF G
  <2>7. NegOf(Multiples(a, h)) \in Curve
    BY NegIs, MultiplesIs
  <2>8. Both(NegOf(a), B, h, S) = AddAffine(Multiples(B, S % L), NegOf(Multiples(a, h)))
    BY <2>5, <2>6, <2>7, AddCommutes
  <2>9. AddAffine(Times(B, S % L), NegAffine(Times(a, h))) = Both(NegOf(a), B, h, S)
    BY <2>8 DEF Times, NegAffine, NegOf
  <2> QED
    BY <1>5, <1>6, <1>8, <2>1, <2>4, <2>9
<1>9. CASE ~(S < t)
  BY <1>5, <1>6, <1>9
<1> QED
  BY <1>7, <1>8, <1>9

-----------------------------------------------------------------------------
(* What is signed and sent has the form that is verified.                  *)
LEMMA SignatureIs ==
    ASSUME HashesAreNumbers, NEW message, IsMessage(message), NEW pub \in Encodings,
           NEW priv, Short(priv.a), priv.prefix \in Nat
    PROVE  IsSignature(Sign(message, pub, priv))
<1>1. PICK r \in Nat : r = ScReduce(Sha512(<<priv.prefix>> \o message)) /\ Short(r)
  <2>1. <<priv.prefix>> \o message \in Seq(Nat)
    BY DEF IsMessage
  <2> QED
    BY <2>1, HashReduced
<1>2. PICK R \in Encodings : R = GeToBytes(GeScalarMultBase(r))
  <2>1. r \in Int
    OBVIOUS
  <2> QED
    BY <1>1, <2>1, PublicIs, GIsPoint, EncodingIs
<1>3. PICK h \in Nat : h = ScReduce(Sha512(Bytes(R) \o Bytes(pub) \o message))
  <2>1. Bytes(R) \o Bytes(pub) \o message \in Seq(Nat)
    BY BytesAre DEF IsMessage
  <2> QED
    BY <2>1, HashReduced
<1>4. PICK n \in Int : n = h * priv.a + r
  BY DEF Short
<1>5. ScMulAdd(h, priv.a, r) \in Nat
  BY <1>4, RemainderInNat DEF ScMulAdd
<1>6. Sign(message, pub, priv).R = R /\ Sign(message, pub, priv).S = ScMulAdd(h, priv.a, r)
  BY <1>1, <1>2, <1>3 DEF Sign
<1> QED
  BY <1>5, <1>6 DEF IsSignature

LEMMA PartIsMessage ==
    ASSUME NEW pub \in Encodings, NEW ephemeral \in Nat
    PROVE  IsMessage(SignedPart(pub, ephemeral))
<1>1. Bytes(pub) \in Seq(Nat) /\ <<ephemeral>> \in Seq(Nat)
  BY BytesAre
<1> QED
  BY <1>1 DEF IsMessage, SignedPart

LEMMA ProductIsResidue == ASSUME NEW f \in Residues, NEW g \in Residues PROVE FeMul(f, g) \in Residues
<1>1. Is(FeMul(f, g), f * g)
  BY IsItself, OpsAre
<1> QED
  BY <1>1 DEF Is

LEMMA PrivateIs ==
    ASSUME NEW random \in Nat
    PROVE  Two[ScalarBits - 1] + 8 * ((random % Two[ScalarBits - 2]) \div 8) + 7 \in Nat
<1>1. PICK t, u \in Nat : t = Two[ScalarBits - 2] /\ t > 0 /\ u = Two[ScalarBits - 1]
  BY TopTwos
<1>2. PICK r \in Nat : r = random % t
  <2>1. random % t \in 0..t - 1
    BY <1>1, QuotientNat
  <2> QED
    BY <1>1, <2>1
<1>3. PICK q \in Nat : q = r \div 8
  BY QuotientNat
<1>4. u + 8 * q + 7 \in Nat
  OBVIOUS
<1> QED
  BY <1>1, <1>2, <1>3, <1>4

(* X25519_keypair gives a number.                                          *)
LEMMA EphemeralIs == ASSUME NEW random \in Nat PROVE X25519Keypair(random).pub \in Nat
<1>1. PICK private \in Nat : private = Two[ScalarBits - 1] + 8 * ((random % Two[ScalarBits - 2]) \div 8) + 7
  BY PrivateIs
<1>2. X25519Keypair(random).pub = PublicFromPrivate(private)
  BY <1>1 DEF X25519Keypair
<1>3. PICK A : A = GeScalarMultBase(Clamp(private)) /\ A \in P3s
  BY ClampIsShort, ScalarMultBaseIs DEF StandsP3
<1>4. A.Z \in Residues /\ A.Y \in Residues /\ Is(A.Z, A.Z) /\ Is(A.Y, A.Y)
  BY <1>3, P3Parts, IsItself
<1>5. FeAdd(A.Z, A.Y) \in Residues /\ FeSub(A.Z, A.Y) \in Residues
  <2>1. Is(FeAdd(A.Z, A.Y), A.Z + A.Y) /\ Is(FeSub(A.Z, A.Y), A.Z - A.Y)
    BY <1>4, OpsAre
  <2> QED
    BY <2>1 DEF Is
<1>6. FeInvert(FeSub(A.Z, A.Y)) \in Residues
  BY <1>5, InverseAssumption, SmallNumbers
<1>7. PublicFromPrivate(private) \in Residues
  BY <1>3, <1>5, <1>6, ProductIsResidue DEF PublicFromPrivate
<1> QED
  BY <1>2, <1>7, PrimeIs DEF Residues

-----------------------------------------------------------------------------
(* The invariant about the sessions: the keys no longer change once there  *)
(* is one, a HelloPacket stays once it is there, and what was made of it   *)
(* is what ed25519_verify says of it still.                                *)
TypedHello(h) == h.pub \in Encodings /\ h.ephemeral \in Nat /\ IsSignature(h.sig)

SessionsTyped == DOMAIN eph = Side /\ DOMAIN hello = Side /\ DOMAIN outcome = Side
PrefixesInv == \A e \in Side : static[e] # None => static[e].priv.prefix \in Nat
EphemeralsInv == \A e \in Side : eph[e] # None => Ready /\ eph[e].pub \in Nat
HellosInv == \A e \in Side : hello[e] # None => Ready /\ TypedHello(hello[e])
OutcomesInv == \A e \in Side : outcome[e] # None => /\ hello[e] # None
                                                    /\ outcome[e].verified = Verified(e)
SessionsInv == SessionsTyped /\ PrefixesInv /\ EphemeralsInv /\ HellosInv /\ OutcomesInv

(* The invariant, at first and over each action.                           *)
LEMMA SessionsInitially == Init => SessionsInv
<1>1. SUFFICES ASSUME Init PROVE SessionsInv
  OBVIOUS
<1>2. /\ static = [e \in Side |-> None] /\ eph = [e \in Side |-> None]
      /\ hello = [e \in Side |-> None] /\ outcome = [e \in Side |-> None]
  BY <1>1 DEF Init
<1>3. SessionsTyped /\ PrefixesInv
  BY <1>2 DEF SessionsTyped, PrefixesInv
<1>4. EphemeralsInv /\ HellosInv /\ OutcomesInv
  BY <1>2 DEF EphemeralsInv, HellosInv, OutcomesInv
<1> QED
  BY <1>3, <1>4 DEF SessionsInv

LEMMA ReadyIs == Ready <=> \A e \in Side : static[e] # None
BY DEF Ready

LEMMA SameVerified ==
    ASSUME NEW e \in Side, hello'[e] = hello[e], peerKey'[e] = peerKey[e]
    PROVE  Verified(e)' = Verified(e)
BY DEF Verified, KeyFor, SignedPart

(* Before both sides have their keys there is no session to disturb.       *)
LEMMA KeyWritten ==
    ASSUME SessionsInv, ~Ready, UNCHANGED <<eph, hello, outcome>>, PrefixesInv'
    PROVE  SessionsInv'
<1>1. \A e \in Side : eph[e] = None /\ hello[e] = None
  BY DEF SessionsInv, EphemeralsInv, HellosInv
<1>2. \A e \in Side : outcome[e] = None
  BY <1>1 DEF SessionsInv, OutcomesInv
<1>3. SessionsTyped'
  BY DEF SessionsInv, SessionsTyped
<1>4. EphemeralsInv' /\ HellosInv' /\ OutcomesInv'
  BY <1>1, <1>2 DEF EphemeralsInv, HellosInv, OutcomesInv
<1> QED
  BY <1>3, <1>4 DEF SessionsInv

LEMMA CreateStaticLeaves ==
    ASSUME KeysInv, SessionsInv, NEW e \in Side, NEW seed \in Seeds, CreateStatic(e, seed)
    PROVE  SessionsInv'
<1>1. PICK pair : pair = CreateKeypair(seed)
  OBVIOUS
<1>2. /\ static[e] = None /\ static' = [static EXCEPT ![e] = pair]
      /\ UNCHANGED <<eph, hello, outcome>>
  BY <1>1 DEF CreateStatic
<1>3. ~Ready
  BY <1>2, ReadyIs
<1>4. pair.priv.prefix \in Nat
  <2>1. Sha512(<<seed>>).hi \in Nat
    BY HelloAssumption
  <2>2. CreateKeypair(seed).priv.prefix = Sha512(<<seed>>).hi
    BY DEF CreateKeypair
  <2> QED
    BY <1>1, <2>1, <2>2
<1>5. \A s \in Side : static'[s] = IF s = e THEN pair ELSE static[s]
  BY <1>2 DEF KeysInv, HoldersInv
<1>6. PrefixesInv'
  BY <1>4, <1>5 DEF SessionsInv, PrefixesInv
<1> QED
  BY <1>2, <1>3, <1>6, KeyWritten

LEMMA AddScalarLeaves ==
    ASSUME HashesAreNumbers, KeysInv, SessionsInv, NEW e \in Side, NEW scalar \in Scalars, AddScalar(e, scalar)
    PROVE  SessionsInv'
<1>1. PICK priv : priv = AddScalarPrivate(static[e].priv, scalar)
  OBVIOUS
<1>2. PICK pair : pair = [pub |-> PublicOf(priv), priv |-> priv]
  OBVIOUS
<1>3. /\ static[e] # None /\ static[Other(e)] = None /\ static' = [static EXCEPT ![e] = pair]
      /\ UNCHANGED <<eph, hello, outcome>>
  BY <1>1, <1>2 DEF AddScalar
<1>4. ~Ready
  BY <1>3, ReadyIs, SidesAre
<1>5. pair.priv.prefix \in Nat
  <2>1. static[e].priv.prefix \in Nat /\ scalar \in Nat
    BY <1>3, HelloAssumption DEF SessionsInv, PrefixesInv
  <2>2. <<static[e].priv.prefix, scalar>> \in Seq(Nat)
    BY <2>1
  <2>3. Sha512(<<static[e].priv.prefix, scalar>>).lo \in Nat
    BY <2>2 DEF HashesAreNumbers
  <2>4. priv.prefix = Sha512(<<static[e].priv.prefix, scalar>>).lo
    BY <1>1 DEF AddScalarPrivate
  <2> QED
    BY <1>2, <2>3, <2>4
<1>6. \A s \in Side : static'[s] = IF s = e THEN pair ELSE static[s]
  BY <1>3 DEF KeysInv, HoldersInv
<1>7. PrefixesInv'
  BY <1>5, <1>6 DEF SessionsInv, PrefixesInv
<1> QED
  BY <1>3, <1>4, <1>7, KeyWritten

LEMMA NewSessionLeaves ==
    ASSUME SessionsInv, NEW e \in Side, NEW random \in Randoms, NewSession(e, random)
    PROVE  SessionsInv'
<1>1. PICK pair : pair = X25519Keypair(random) /\ pair.pub \in Nat
  BY HelloAssumption, EphemeralIs
<1>2. Ready /\ eph' = [eph EXCEPT ![e] = pair] /\ UNCHANGED <<static, peerKey, hello, outcome>>
  BY <1>1 DEF NewSession
<1>3. SessionsTyped'
  BY <1>2 DEF SessionsInv, SessionsTyped
<1>4. PrefixesInv' /\ Ready'
  BY <1>2 DEF SessionsInv, PrefixesInv, Ready
<1>5. \A s \in Side : eph'[s] = IF s = e THEN pair ELSE eph[s]
  BY <1>2 DEF SessionsInv, SessionsTyped
<1>6. EphemeralsInv'
  BY <1>1, <1>4, <1>5 DEF SessionsInv, EphemeralsInv
<1>7. HellosInv'
  BY <1>2, <1>4 DEF SessionsInv, HellosInv
<1>8. OutcomesInv'
  BY <1>2, SameVerified DEF SessionsInv, OutcomesInv
<1> QED
  BY <1>3, <1>4, <1>6, <1>7, <1>8 DEF SessionsInv

(* A HelloPacket arrives where there was none. *)
LEMMA HelloWritten ==
    ASSUME SessionsInv, NEW s \in Side, NEW h, TypedHello(h), Ready, hello[s] = None,
           hello' = [hello EXCEPT ![s] = h], UNCHANGED <<static, peerKey, eph, outcome>>
    PROVE  SessionsInv'
<1>1. SessionsTyped'
  BY DEF SessionsInv, SessionsTyped
<1>2. PrefixesInv' /\ Ready' /\ EphemeralsInv'
  BY DEF SessionsInv, PrefixesInv, EphemeralsInv, Ready
<1>3. \A e \in Side : hello'[e] = IF e = s THEN h ELSE hello[e]
  BY DEF SessionsInv, SessionsTyped
<1>4. HellosInv'
  <2>1. ASSUME NEW e \in Side, hello'[e] # None PROVE Ready' /\ TypedHello(hello'[e])
    BY <1>2, <1>3, <2>1 DEF SessionsInv, HellosInv
  <2> QED
    BY <2>1 DEF HellosInv, TypedHello
<1>5. OutcomesInv'
  <2>1. ASSUME NEW e \in Side, outcome'[e] # None
        PROVE  hello'[e] # None /\ outcome'[e].verified = Verified(e)'
    <3>1. outcome[e] # None /\ hello[e] # None /\ outcome[e].verified = Verified(e)
      BY <2>1 DEF SessionsInv, OutcomesInv
    <3>2. hello'[e] = hello[e] /\ peerKey'[e] = peerKey[e]
      BY <1>3, <3>1
    <3> QED
      BY <3>1, <3>2, SameVerified
  <2> QED
    BY <2>1 DEF OutcomesInv
<1> QED
  BY <1>1, <1>2, <1>4, <1>5 DEF SessionsInv

(* Once there are sessions every key is a point's encoding.                *)
LEMMA KeysAreEncodings ==
    ASSUME KeysInv, Ready, NEW e \in Side
    PROVE  /\ Short(static[e].priv.a) /\ static[e].pub \in Encodings /\ peerKey[e] \in Encodings
<1>1. ASSUME NEW s \in Side
      PROVE  Short(static[s].priv.a) /\ static[s].pub \in Encodings /\ peerKey[Other(s)] = static[s].pub
  <2>1. PairIs(static[s], peerKey[Other(s)])
    BY ReadyIs DEF KeysInv, PairsInv
  <2>2. static[s].priv.a \in Int /\ static[s].pub = EncodeAffine(G(static[s].priv.a))
    BY <2>1 DEF PairIs, Short
  <2> QED
    BY <2>1, <2>2, GIsPoint, EncodingIs DEF PairIs
<1>2. Other(e) \in Side /\ Other(Other(e)) = e
  BY SidesAre
<1> QED
  BY <1>1, <1>2

LEMMA SendHandshakeLeaves ==
    ASSUME HashesAreNumbers, KeysInv, SessionsInv, NEW e \in Side, SendHandshake(e)
    PROVE  SessionsInv'
<1>1. PICK h : h = SignedHello(e)
  OBVIOUS
<1>2. /\ eph[e] # None /\ hello[Other(e)] = None /\ hello' = [hello EXCEPT ![Other(e)] = h]
      /\ UNCHANGED <<static, peerKey, eph, outcome>>
  BY <1>1 DEF SendHandshake
<1>3. Ready /\ eph[e].pub \in Nat
  BY <1>2 DEF SessionsInv, EphemeralsInv
<1>4. PICK pub \in Encodings : pub = static[e].pub
  BY <1>3, KeysAreEncodings
<1>5. Short(static[e].priv.a) /\ static[e].priv.prefix \in Nat
  BY <1>3, KeysAreEncodings, ReadyIs DEF SessionsInv, PrefixesInv
<1>6. PICK sig : sig = Sign(SignedPart(pub, eph[e].pub), pub, static[e].priv) /\ IsSignature(sig)
  BY <1>3, <1>5, PartIsMessage, SignatureIs
<1>7. h.pub = pub /\ h.ephemeral = eph[e].pub /\ h.sig = sig
  BY <1>1, <1>4, <1>6 DEF SignedHello, Hello
<1>8. TypedHello(h)
  BY <1>3, <1>6, <1>7 DEF TypedHello
<1>9. Other(e) \in Side
  BY SidesAre
<1> QED
  BY <1>2, <1>3, <1>8, <1>9, HelloWritten

LEMMA StrangeHelloLeaves ==
    ASSUME KeysInv, SessionsInv, NEW e \in Side, NEW pub \in StrangeKeys \cup {peerKey[e]},
           NEW R \in StrangeR, NEW S \in StrangeS, NEW u \in StrangeU, StrangeHello(e, pub, R, S, u)
    PROVE  SessionsInv'
<1>1. PICK sig : sig = [R |-> R, S |-> S]
  OBVIOUS
<1>2. PICK h : h = Hello(pub, u, sig)
  OBVIOUS
<1>3. /\ eph[e] # None /\ hello[e] = None /\ hello' = [hello EXCEPT ![e] = h]
      /\ UNCHANGED <<static, peerKey, eph, outcome>>
  BY <1>1, <1>2 DEF StrangeHello
<1>4. Ready
  BY <1>3 DEF SessionsInv, EphemeralsInv
<1>5. pub \in Encodings
  BY <1>4, KeysAreEncodings, HelloAssumption
<1>6. IsSignature(sig)
  BY <1>1, HelloAssumption DEF IsSignature
<1>7. h.pub = pub /\ h.ephemeral = u /\ h.sig = sig
  BY <1>2 DEF Hello
<1>8. TypedHello(h)
  BY <1>5, <1>6, <1>7, HelloAssumption DEF TypedHello
<1> QED
  BY <1>3, <1>4, <1>8, HelloWritten

LEMMA OnHandShakeLeaves ==
    ASSUME SessionsInv, NEW e \in Side, OnHandShake(e)
    PROVE  SessionsInv'
<1>1. PICK o : o.verified = Verified(e) /\ outcome' = [outcome EXCEPT ![e] = o]
  <2>1. PICK o : o = [verified |-> Verified(e),
                      secret |-> IF Verified(e) THEN X25519Shared(eph[e].priv, hello[e].ephemeral) ELSE None]
    OBVIOUS
  <2>2. o.verified = Verified(e)
    BY <2>1
  <2>3. outcome' = [outcome EXCEPT ![e] = o]
    BY <2>1 DEF OnHandShake
  <2> QED
    BY <2>2, <2>3
<1>2. hello[e] # None /\ UNCHANGED <<static, peerKey, eph, hello>>
  BY DEF OnHandShake
<1>3. SessionsTyped' /\ PrefixesInv'
  BY <1>1, <1>2 DEF SessionsInv, SessionsTyped, PrefixesInv
<1>4. EphemeralsInv' /\ HellosInv'
  BY <1>2 DEF SessionsInv, EphemeralsInv, HellosInv, Ready, TypedHello
<1>5. \A s \in Side : outcome'[s] = IF s = e THEN o ELSE outcome[s]
  BY <1>1 DEF SessionsInv, SessionsTyped
<1>6. OutcomesInv'
  <2>1. ASSUME NEW s \in Side, outcome'[s] # None
        PROVE  hello'[s] # None /\ outcome'[s].verified = Verified(s)'
    <3>1. Verified(s)' = Verified(s)
      BY <1>2, SameVerified
    <3>2. CASE s = e
      BY <1>1, <1>2, <1>5, <3>1, <3>2
    <3>3. CASE s # e
      BY <1>2, <1>5, <2>1, <3>1, <3>3 DEF SessionsInv, OutcomesInv
    <3> QED
      BY <3>2, <3>3
  <2> QED
    BY <2>1 DEF OutcomesInv
<1> QED
  BY <1>3, <1>4, <1>6 DEF SessionsInv

LEMMA SessionsUntouched ==
    ASSUME SessionsInv, UNCHANGED <<static, peerKey, eph, hello, outcome>>
    PROVE  SessionsInv'
<1>1. SessionsTyped' /\ PrefixesInv' /\ Ready' = Ready
  BY DEF SessionsInv, SessionsTyped, PrefixesInv, Ready
<1>2. EphemeralsInv' /\ HellosInv'
  BY <1>1 DEF SessionsInv, EphemeralsInv, HellosInv, Ready, TypedHello
<1>3. OutcomesInv'
  BY SameVerified DEF SessionsInv, OutcomesInv
<1> QED
  BY <1>1, <1>2, <1>3 DEF SessionsInv

(* Every step keeps it.                                                    *)
LEMMA SessionsNext ==
    ASSUME HashesAreNumbers
    PROVE  KeysInv /\ SessionsInv /\ [Next]_vars => SessionsInv'
<1>1. SUFFICES ASSUME KeysInv, SessionsInv, [Next]_vars PROVE SessionsInv'
  OBVIOUS
<1>2. CASE UNCHANGED vars
  BY <1>1, <1>2, SessionsUntouched DEF vars
<1>3. CASE Next
  <2>1. PICK e \in Side :
            \/ \E seed \in Seeds : CreateStatic(e, seed)
            \/ \E scalar \in Scalars : AddScalar(e, scalar)
            \/ \E random \in Randoms : NewSession(e, random)
            \/ SendHandshake(e)
            \/ \E pub \in StrangeKeys \cup {peerKey[e]}, R \in StrangeR, S \in StrangeS, u \in StrangeU :
                   StrangeHello(e, pub, R, S, u)
            \/ OnHandShake(e)
            \/ ExchangeStatic(e)
    BY <1>3 DEF Next
  <2>2. CASE \E seed \in Seeds : CreateStatic(e, seed)
    BY <1>1, <2>2, CreateStaticLeaves
  <2>3. CASE \E scalar \in Scalars : AddScalar(e, scalar)
    BY <1>1, <2>3, AddScalarLeaves
  <2>4. CASE \E random \in Randoms : NewSession(e, random)
    BY <1>1, <2>4, NewSessionLeaves
  <2>5. CASE SendHandshake(e)
    BY <1>1, <2>5, SendHandshakeLeaves
  <2>6. CASE \E pub \in StrangeKeys \cup {peerKey[e]}, R \in StrangeR, S \in StrangeS, u \in StrangeU :
                 StrangeHello(e, pub, R, S, u)
    BY <1>1, <2>6, StrangeHelloLeaves
  <2>7. CASE OnHandShake(e)
    BY <1>1, <2>7, OnHandShakeLeaves
  <2>8. CASE ExchangeStatic(e)
    BY <1>1, <2>8, SessionsUntouched DEF ExchangeStatic
  <2> QED
    BY <2>1, <2>2, <2>3, <2>4, <2>5, <2>6, <2>7, <2>8
<1> QED
  BY <1>1, <1>2, <1>3

(* It says what verifying decides.                                         *)
LEMMA SessionsDecide ==
    ASSUME HashesAreNumbers, KeysInv, SessionsInv
    PROVE  VerifyIsEquation
<1>1. ASSUME NEW e \in Side, hello[e] # None, outcome[e] # None
      PROVE  outcome[e].verified <=>
                 Accepts(hello[e].sig, SignedPart(hello[e].pub, hello[e].ephemeral), KeyFor(e))
  <2>1. outcome[e].verified = Verified(e)
    BY <1>1 DEF SessionsInv, OutcomesInv
  <2>2. Ready /\ hello[e].pub \in Encodings /\ hello[e].ephemeral \in Nat /\ IsSignature(hello[e].sig)
    BY <1>1 DEF SessionsInv, HellosInv, TypedHello
  <2>3. KeyFor(e) \in Encodings
    BY <2>2, KeysAreEncodings DEF KeyFor
  <2>4. PICK message : message = SignedPart(hello[e].pub, hello[e].ephemeral) /\ IsMessage(message)
    BY <2>2, PartIsMessage
  <2>5. Verified(e) = Verify(hello[e].sig, message, KeyFor(e))
    BY <2>4 DEF Verified
  <2>6. Verify(hello[e].sig, message, KeyFor(e)) <=> Accepts(hello[e].sig, message, KeyFor(e))
    BY <2>2, <2>3, <2>4, VerifyIs
  <2> QED
    BY <2>1, <2>4, <2>5, <2>6
<1> QED
  BY <1>1 DEF VerifyIsEquation, Accepts

(* VerifyIsEquation, for every SHA-512 whose halves are numbers: whatever  *)
(* HelloPacket onHandShake is given, what it made of the signature is      *)
(* whether S is below 2^253 and some point that the key decodes to solves  *)
(* S B = R + h A.                                                          *)
THEOREM VerifyDecides == ASSUME HashesAreNumbers PROVE Spec => []VerifyIsEquation
<1>1. Init => KeysInv /\ SessionsInv
  BY KeysInitially, SessionsInitially
<1>2. KeysInv /\ SessionsInv /\ [Next]_vars => (KeysInv /\ SessionsInv)'
  BY KeysNext, SessionsNext
<1>3. KeysInv /\ SessionsInv => VerifyIsEquation
  BY SessionsDecide
<1> QED
  BY <1>1, <1>2, <1>3, PTL DEF Spec

-----------------------------------------------------------------------------
(* The Montgomery ladder.  What is zero modulo the prime may be added,     *)
(* subtracted and multiplied by anything.                                  *)
LEMMA ZeroOfDifference ==
    ASSUME NEW u \in Int, NEW v \in Int
    PROVE  Same(u, v) <=> Zero(u - v)
<1>1. ASSUME Same(u, v) PROVE Zero(u - v)
  <2>1. PICK q \in Int : u = v + q * Prime
    BY <1>1 DEF Same
  <2>2. PICK c \in Int : c = q * Prime
    BY PrimeIs
  <2>3. u - v = 0 + q * Prime
    BY <2>1, <2>2
  <2> QED
    BY <2>3 DEF Zero, Same
<1>2. ASSUME Zero(u - v) PROVE Same(u, v)
  <2>1. PICK q \in Int : u - v = 0 + q * Prime
    BY <1>2 DEF Zero, Same
  <2>2. PICK c \in Int : c = q * Prime
    BY PrimeIs
  <2>3. u = v + q * Prime
    BY <2>1, <2>2
  <2> QED
    BY <2>3 DEF Same
<1> QED
  BY <1>1, <1>2

LEMMA ZeroTimes ==
    ASSUME NEW u \in Int, NEW w \in Int, Zero(u)
    PROVE  Zero(w * u) /\ Zero(u * w)
<1>1. PICK q \in Int : u = 0 + q * Prime
  BY DEF Zero, Same
<1>2. PICK p \in Int : p = Prime
  BY PrimeIs
<1>3. w * (q * p) = (w * q) * p /\ w * q \in Int
  OBVIOUS
<1>4. w * u = u * w /\ u = q * p
  BY <1>1, <1>2
<1>5. w * u = 0 + (w * q) * Prime
  BY <1>2, <1>3, <1>4
<1> QED
  BY <1>3, <1>4, <1>5 DEF Zero, Same

LEMMA ZeroPlus ==
    ASSUME NEW u \in Int, NEW v \in Int, Zero(u), Zero(v)
    PROVE  Zero(u + v) /\ Zero(u - v)
<1>1. Same(u + v, 0 + 0) /\ Same(u - v, 0 - 0) /\ 0 + 0 = 0 /\ 0 - 0 = 0
  <2>1. 0 \in Int /\ Same(u, 0) /\ Same(v, 0)
    BY DEF Zero
  <2> QED
    BY <2>1, SamePlus
<1> QED
  BY <1>1 DEF Zero

LEMMA ZeroFactor ==
    ASSUME NEW u \in Int, NEW v \in Int, Zero(u * v), ~Zero(u)
    PROVE  Zero(v)
BY FactorZero

LEMMA SumNonzero ==
    ASSUME NEW u \in Int, NEW v \in Int, ~Zero(u), Zero(v)
    PROVE  ~Zero(u + v)
<1>1. SUFFICES ASSUME Zero(u + v) PROVE FALSE
  OBVIOUS
<1>2. (u + v) - v = u /\ u + v \in Int
  OBVIOUS
<1>3. Zero((u + v) - v)
  BY <1>1, <1>2, ZeroPlus
<1> QED
  BY <1>2, <1>3

-----------------------------------------------------------------------------
(* Doubling.  t and u are the squares of y and x, w is 1 + d t.            *)
LEMMA DoubleRing ==
    ASSUME NEW a \in Int, NEW t \in Int, NEW u \in Int, NEW d \in Int, NEW c \in Int
    PROVE  /\ (1 + d) * (a * (a * t) + (a - a * t) * (a * t + c * (a - a * t)))
                = (a * a) * ((1 + d * t) * (1 - d * (u * t)))
                  + ((a * a) * ((1 - t) * (1 - t)) * (c * (1 + d) - 1)
                     - (a * a) * (d * t) * ((t - u) - (1 + d * (u * t))))
           /\ (1 + d) * (a * (a * t) - (a - a * t) * (a * t + c * (a - a * t)))
                = (a * a) * ((1 + d * t) * (t + u))
                  + ((a * a) * ((t - u) - (1 + d * (u * t)))
                     - (a * a) * ((1 - t) * (1 - t)) * (c * (1 + d) - 1))
OBVIOUS

(* What doubling is given: k is d x^2 y^2, Y the y of the double, and X    *)
(* and Z are what the ladder computes, a the square of the sum it starts   *)
(* from, b that of the difference and e their difference.                  *)
Doubling(a, t, u, d, c, k, Y) ==
    /\ k = d * (u * t) /\ ~Zero(a) /\ ~Zero(1 - k) /\ ~Zero(1 + d * t) /\ ~Zero(1 + d)
    /\ Same(t - u, 1 + k) /\ Same(c * (1 + d), 1) /\ Same(Y * (1 - k), t + u)
Doubled(a, b, e, f, t, c) == b = a * t /\ e = a - b /\ f = b + c * e
IsU(X, Z, Y) == ~Zero(X + Z) /\ Same(X - Z, (X + Z) * Y)

(* The doubled pair, as integers.                                          *)
LEMMA LadderDoubles ==
    ASSUME NEW a \in Int, NEW t \in Int, NEW u \in Int, NEW d \in Int, NEW c \in Int, NEW k0 \in Int,
           NEW Y \in Int, Doubling(a, t, u, d, c, k0, Y),
           NEW b \in Int, NEW e \in Int, NEW f \in Int, Doubled(a, b, e, f, t, c),
           NEW x \in Int, x = a * b, NEW z \in Int, z = e * f
    PROVE  IsU(x, z, Y)
<1>a. PICK m, w \in Int : m = 1 - d * (u * t) /\ w = 1 + d * t
  OBVIOUS
<1>b. /\ ~Zero(a) /\ ~Zero(m) /\ ~Zero(w) /\ ~Zero(1 + d) /\ Same(t - u, 1 + d * (u * t))
      /\ Same(c * (1 + d), 1) /\ Same(Y * m, t + u)
  BY <1>a DEF Doubling
<1>c. x = a * (a * t) /\ z = (a - a * t) * (a * t + c * (a - a * t))
  BY DEF Doubled
<1>1. PICK g1, g2, g3 \in Int : g1 = (t - u) - (1 + d * (u * t)) /\ g2 = Y * m - (t + u) /\ g3 = c * (1 + d) - 1
  OBVIOUS
<1>2. Zero(g1) /\ Zero(g2) /\ Zero(g3)
  <2>1. /\ t - u \in Int /\ 1 + d * (u * t) \in Int /\ Y * m \in Int /\ t + u \in Int
        /\ c * (1 + d) \in Int /\ 1 \in Int
    OBVIOUS
  <2> QED
    BY <1>1, <1>a, <1>b, <2>1, ZeroOfDifference
<1>3. PICK f1, f2, f3 \in Int : f1 = (a * a) * ((1 - t) * (1 - t)) /\ f2 = (a * a) * (d * t) /\ f3 = a * a
  OBVIOUS
<1>4. PICK i, j \in Int : i = f1 * g3 - f2 * g1 /\ j = f3 * g1 - f1 * g3 /\ Zero(i) /\ Zero(j)
  <2>1. f1 * g3 \in Int /\ f2 * g1 \in Int /\ f3 * g1 \in Int
    OBVIOUS
  <2>2. Zero(f1 * g3) /\ Zero(f2 * g1) /\ Zero(f3 * g1)
    BY <1>2, ZeroTimes
  <2> QED
    BY <2>1, <2>2, ZeroPlus
<1>5. PICK k \in Int : k = f3 * w
  OBVIOUS
<1>6. (1 + d) * (x + z) = k * m + i
  <2>1. (1 + d) * (x + z) = (a * a) * (w * m) + i
    BY <1>1, <1>3, <1>4, <1>a, <1>c, DoubleRing
  <2>2. f3 * (w * m) = (f3 * w) * m
    OBVIOUS
  <2> QED
    BY <1>3, <1>5, <2>1, <2>2
<1>7. (1 + d) * (x - z) = k * (t + u) + j
  <2>1. (1 + d) * (x - z) = (a * a) * (w * (t + u)) + j
    BY <1>1, <1>3, <1>4, <1>a, <1>c, DoubleRing
  <2>2. f3 * (w * (t + u)) = (f3 * w) * (t + u)
    OBVIOUS
  <2> QED
    BY <1>3, <1>5, <2>1, <2>2
<1>8. ~Zero(k)
  BY <1>3, <1>5, <1>a, <1>b, NonzeroProduct
<1>9. ~Zero(k * m) /\ k * m \in Int
  BY <1>8, <1>b, NonzeroProduct
<1>10. ~Zero(x + z)
  <2>1. ~Zero(k * m + i)
    BY <1>4, <1>9, SumNonzero
  <2>2. Zero(x + z) => Zero((1 + d) * (x + z))
    <3>1. x + z \in Int /\ 1 + d \in Int
      OBVIOUS
    <3> QED
      BY <3>1, ZeroTimes
  <2> QED
    BY <1>6, <2>1, <2>2
<1>11. (1 + d) * ((x - z) - (x + z) * Y) = (j - i * Y) - k * g2
  <2>1. (1 + d) * ((x - z) - (x + z) * Y) = (1 + d) * (x - z) - ((1 + d) * (x + z)) * Y
    OBVIOUS
  <2>2. (k * (t + u) + j) - (k * m + i) * Y = (j - i * Y) - k * (Y * m - (t + u))
    OBVIOUS
  <2> QED
    BY <1>1, <1>6, <1>7, <2>1, <2>2
<1>12. Zero((j - i * Y) - k * g2)
  <2>0. Zero(i * Y) /\ Zero(k * g2)
    BY <1>2, <1>4, ZeroTimes
  <2>1. Zero(i * Y) /\ Zero(k * g2) /\ i * Y \in Int /\ k * g2 \in Int
    BY <2>0
  <2>2. Zero(j - i * Y) /\ j - i * Y \in Int
    BY <1>4, <2>1, ZeroPlus
  <2> QED
    BY <2>1, <2>2, ZeroPlus
<1>13. Zero((x - z) - (x + z) * Y)
  <2>1. PICK v, c1 \in Int : v = (x - z) - (x + z) * Y /\ c1 = 1 + d
    OBVIOUS
  <2>2. Zero(c1 * v) /\ ~Zero(c1)
    BY <1>11, <1>12, <1>b, <2>1
  <2>3. Zero(v)
    BY <2>2, ZeroFactor
  <2> QED
    BY <2>1, <2>3
<1>14. x - z \in Int /\ (x + z) * Y \in Int
  OBVIOUS
<1> QED
  BY <1>10, <1>13, <1>14, ZeroOfDifference DEF IsU

-----------------------------------------------------------------------------
(* Adding two points whose difference is known.  v is the product of the   *)
(* two y, g and h are their squares, xx is the square of the product of    *)
(* the two x.                                                              *)
SumDen(d, g, h) == (1 + d * g) * (1 + d * h)
SumScale(d, g, h) == (1 + d) * (1 + d * (g * h))

LEMMA SumCore ==
    ASSUME NEW v \in Int, NEW p \in Int, NEW s \in Int, NEW d \in Int
    PROVE  (1 + 2 * v + p) * (1 + d * s + (d * d) * p)
              = (s + 2 * v) * ((1 + d) * (1 + d * p)) + (1 - 2 * (d * v) + (d * d) * p) * ((p - s) + 1)
OBVIOUS

SumSplits(v, g, h, d) ==
    ((1 + v) * (1 + v)) * SumDen(d, g, h)
        = (g + h + 2 * v) * SumScale(d, g, h) + ((1 - d * v) * (1 - d * v)) * ((g - 1) * (h - 1))

LEMMA SumRing ==
    ASSUME NEW v \in Int, NEW g \in Int, NEW h \in Int, v * v = g * h, NEW d \in Int
    PROVE  SumSplits(v, g, h, d)
<1>1. PICK p, s \in Int : p = g * h /\ s = g + h
  OBVIOUS
<1>2. (1 + v) * (1 + v) = 1 + 2 * v + p
  <2>1. (1 + v) * (1 + v) = 1 + 2 * v + v * v
    OBVIOUS
  <2> QED
    BY <1>1, <2>1
<1>3. (1 - d * v) * (1 - d * v) = 1 - 2 * (d * v) + (d * d) * p
  <2>1. (1 - d * v) * (1 - d * v) = 1 - 2 * (d * v) + (d * d) * (v * v)
    OBVIOUS
  <2> QED
    BY <1>1, <2>1
<1>4. SumDen(d, g, h) = 1 + d * s + (d * d) * p
  <2>1. (1 + d * g) * (1 + d * h) = 1 + d * (g + h) + (d * d) * (g * h)
    OBVIOUS
  <2> QED
    BY <1>1, <2>1 DEF SumDen
<1>5. (g - 1) * (h - 1) = (p - s) + 1 /\ g + h + 2 * v = s + 2 * v
  <2>1. (g - 1) * (h - 1) = (g * h - (g + h)) + 1
    OBVIOUS
  <2> QED
    BY <1>1, <2>1
<1>6. SumScale(d, g, h) = (1 + d) * (1 + d * p)
  BY <1>1 DEF SumScale
<1>7. PICK t1, t2, t3, t4, t5, t6 \in Int :
        /\ t1 = 1 + 2 * v + p /\ t2 = 1 + d * s + (d * d) * p /\ t3 = s + 2 * v
        /\ t4 = (1 + d) * (1 + d * p) /\ t5 = 1 - 2 * (d * v) + (d * d) * p /\ t6 = (p - s) + 1
  OBVIOUS
<1>8. t1 * t2 = t3 * t4 + t5 * t6
  BY <1>7, SumCore
<1>9. /\ (1 + v) * (1 + v) = t1 /\ (1 - d * v) * (1 - d * v) = t5 /\ SumDen(d, g, h) = t2
      /\ (g - 1) * (h - 1) = t6 /\ g + h + 2 * v = t3 /\ SumScale(d, g, h) = t4
  BY <1>2, <1>3, <1>4, <1>5, <1>6, <1>7
<1> QED
  BY <1>8, <1>9 DEF SumSplits

(* The same modulo the prime, where xx * den is (g - 1) * (h - 1).         *)
LEMMA SumSquares ==
    ASSUME NEW v \in Int, NEW g \in Int, NEW h \in Int, v * v = g * h, NEW d \in Int,
           NEW xx \in Int, Same(xx * SumDen(d, g, h), (g - 1) * (h - 1)),
           NEW r \in Int, r = (1 + v) * (1 + v) - xx * ((1 - d * v) * (1 - d * v))
    PROVE  Same(r * SumDen(d, g, h), (g + h + 2 * v) * SumScale(d, g, h))
<1>1. PICK den, q, w, m, n \in Int :
        /\ den = SumDen(d, g, h) /\ q = (g + h + 2 * v) * SumScale(d, g, h)
        /\ w = (1 - d * v) * (1 - d * v) /\ m = (g - 1) * (h - 1) /\ n = (1 + v) * (1 + v)
  <2>1. SumDen(d, g, h) \in Int /\ SumScale(d, g, h) \in Int
    BY DEF SumDen, SumScale
  <2> QED
    BY <2>1
<1>2. n * den = q + w * m
  <2>1. SumSplits(v, g, h, d)
    BY SumRing
  <2> QED
    BY <1>1, <2>1 DEF SumSplits
<1>3. r * den = q - w * (xx * den - m)
  <2>1. (n - xx * w) * den = n * den - w * (xx * den - m) - w * m
    OBVIOUS
  <2> QED
    BY <1>1, <1>2, <2>1
<1>4. PICK g1, c \in Int : g1 = xx * den - m /\ c = xx * den
  OBVIOUS
<1>5. Zero(g1)
  <2>1. Same(c, m)
    BY <1>1, <1>4
  <2> QED
    BY <1>4, <2>1, ZeroOfDifference
<1>6. PICK e \in Int : e = r * den - q
  OBVIOUS
<1>7. e = (-w) * g1 /\ -w \in Int
  <2>1. (-w) * g1 = 0 - w * g1
    OBVIOUS
  <2> QED
    BY <1>3, <1>4, <1>6, <2>1
<1>8. Zero(e)
  BY <1>5, <1>7, ZeroTimes
<1>9. r * den \in Int
  OBVIOUS
<1> QED
  BY <1>1, <1>6, <1>8, <1>9, ZeroOfDifference

-----------------------------------------------------------------------------
(* u and u1 are (1 - k) times 1 plus and minus the y of the sum, c and c1  *)
(* are (1 + k) times 1 plus and minus the y of the difference.             *)
LEMMA AddsRing ==
    ASSUME NEW al \in Int, NEW be \in Int, NEW u \in Int, NEW u1 \in Int, NEW c \in Int, NEW c1 \in Int,
           NEW den \in Int, NEW e \in Int, NEW x \in Int,
           NEW g1 \in Int, g1 = (u * c) * den - al * e, NEW g2 \in Int, g2 = (u1 * c1) * den - be * e,
           NEW g3 \in Int, g3 = x * c1 - c
    PROVE  /\ e * (al + x * be) = ((u + u1) * c) * den + (((u1 * den) * g3 - g1) - x * g2)
           /\ e * (al * u1 - x * (be * u)) = ((x * u) * g2 - ((u * u1) * den) * g3) - u1 * g1
<1>1. al * e = (u * c) * den - g1 /\ be * e = (u1 * c1) * den - g2 /\ x * c1 = c + g3
  OBVIOUS
<1>2. e * (al + x * be) = al * e + x * (be * e)
  OBVIOUS
<1>3. x * ((u1 * c1) * den - g2) = (u1 * den) * (x * c1) - x * g2
  OBVIOUS
<1>4. (u1 * den) * (c + g3) = (u1 * c) * den + (u1 * den) * g3
  OBVIOUS
<1>5. ((u + u1) * c) * den = (u * c) * den + (u1 * c) * den
  OBVIOUS
<1>6. e * (al * u1 - x * (be * u)) = u1 * (al * e) - (x * u) * (be * e)
  OBVIOUS
<1>7. u1 * ((u * c) * den - g1) = ((u * u1) * den) * c - u1 * g1
  OBVIOUS
<1>8. (x * u) * ((u1 * c1) * den - g2) = ((u * u1) * den) * (x * c1) - (x * u) * g2
  OBVIOUS
<1>9. ((u * u1) * den) * (c + g3) = ((u * u1) * den) * c + ((u * u1) * den) * g3
  OBVIOUS
<1>10. e * (al + x * be) = ((u + u1) * c) * den + (((u1 * den) * g3 - g1) - x * g2)
  <2>1. PICK a1, a2, a3, a4, a5 \in Int :
          /\ a1 = (u * c) * den /\ a2 = (u1 * c) * den /\ a3 = (u1 * den) * g3 /\ a4 = x * g2
          /\ a5 = (u1 * den) * (x * c1)
    OBVIOUS
  <2>2. e * (al + x * be) = (a1 - g1) + (a5 - a4)
    BY <1>1, <1>2, <1>3, <2>1
  <2>3. a5 = a2 + a3
    BY <1>1, <1>4, <2>1
  <2>4. ((u + u1) * c) * den = a1 + a2
    BY <1>5, <2>1
  <2> QED
    BY <2>1, <2>2, <2>3, <2>4
<1>11. e * (al * u1 - x * (be * u)) = ((x * u) * g2 - ((u * u1) * den) * g3) - u1 * g1
  <2>1. PICK b1, b2, b3, b4, b5 \in Int :
          /\ b1 = ((u * u1) * den) * c /\ b2 = u1 * g1 /\ b3 = (x * u) * g2 /\ b4 = ((u * u1) * den) * g3
          /\ b5 = ((u * u1) * den) * (x * c1)
    OBVIOUS
  <2>2. e * (al * u1 - x * (be * u)) = (b1 - b2) - (b5 - b3)
    BY <1>1, <1>6, <1>7, <1>8, <2>1
  <2>3. b5 = b1 + b4
    BY <1>1, <1>9, <2>1
  <2> QED
    BY <2>1, <2>2, <2>3
<1> QED
  BY <1>10, <1>11

(* The sum of the ladder, up to a factor.                                  *)
LEMMA AddsCore ==
    ASSUME NEW al \in Int, NEW be \in Int, NEW u \in Int, NEW u1 \in Int, NEW c \in Int, NEW c1 \in Int,
           NEW den \in Int, NEW e \in Int, NEW x \in Int,
           Same((u * c) * den, al * e), Same((u1 * c1) * den, be * e), Same(x * c1, c),
           ~Zero(u + u1), ~Zero(c), ~Zero(den)
    PROVE  ~Zero(al + x * be) /\ Zero(al * u1 - x * (be * u))
<1>1. PICK g1, g2, g3 \in Int : g1 = (u * c) * den - al * e /\ g2 = (u1 * c1) * den - be * e /\ g3 = x * c1 - c
  OBVIOUS
<1>2. Zero(g1) /\ Zero(g2) /\ Zero(g3)
  <2>1. (u * c) * den \in Int /\ al * e \in Int /\ (u1 * c1) * den \in Int /\ be * e \in Int /\ x * c1 \in Int
    OBVIOUS
  <2> QED
    BY <1>1, <2>1, ZeroOfDifference
<1>3. PICK s, t \in Int : s = al + x * be /\ t = al * u1 - x * (be * u)
  OBVIOUS
<1>4. PICK m1, m2, m3, m4 \in Int : m1 = u1 * den /\ m2 = x * u /\ m3 = (u * u1) * den /\ m4 = (u + u1) * c
  OBVIOUS
<1>5. e * s = m4 * den + ((m1 * g3 - g1) - x * g2) /\ e * t = (m2 * g2 - m3 * g3) - u1 * g1
  BY <1>1, <1>3, <1>4, AddsRing
<1>6. PICK z1, z2, z3, z4, z5 \in Int : z1 = m1 * g3 /\ z2 = x * g2 /\ z3 = m2 * g2 /\ z4 = m3 * g3 /\ z5 = u1 * g1
  OBVIOUS
<1>7. Zero(z1) /\ Zero(z2) /\ Zero(z3) /\ Zero(z4) /\ Zero(z5)
  BY <1>2, <1>6, ZeroTimes
<1>8. Zero((z1 - g1) - z2) /\ (z1 - g1) - z2 \in Int
  <2>1. Zero(z1 - g1) /\ z1 - g1 \in Int
    BY <1>2, <1>7, ZeroPlus
  <2> QED
    BY <1>7, <2>1, ZeroPlus
<1>9. Zero((z3 - z4) - z5)
  <2>1. Zero(z3 - z4) /\ z3 - z4 \in Int
    BY <1>7, ZeroPlus
  <2> QED
    BY <1>7, <2>1, ZeroPlus
<1>10. ~Zero(m4) /\ ~Zero(m4 * den) /\ m4 * den \in Int
  <2>1. u + u1 \in Int
    OBVIOUS
  <2>2. ~Zero(m4)
    BY <1>4, <2>1, NonzeroProduct
  <2> QED
    BY <2>2, NonzeroProduct
<1>11. ~Zero(e * s) /\ e * t = (z3 - z4) - z5
  <2>1. e * s = m4 * den + ((z1 - g1) - z2)
    BY <1>5, <1>6
  <2>2. ~Zero(m4 * den + ((z1 - g1) - z2))
    BY <1>8, <1>10, SumNonzero
  <2> QED
    BY <1>5, <1>6, <2>1, <2>2
<1>12. ~Zero(s) /\ ~Zero(e)
  BY <1>11, ZeroTimes
<1>13. Zero(t)
  <2>1. Zero(e * t)
    BY <1>9, <1>11
  <2> QED
    BY <1>12, <2>1, ZeroFactor
<1> QED
  BY <1>3, <1>12, <1>13

(* What comes out stands for the sum. *)
LEMMA AddsScaled ==
    ASSUME NEW al \in Int, NEW be \in Int, NEW x \in Int, NEW u \in Int, NEW u1 \in Int,
           NEW m \in Int, NEW Y \in Int, Same(m * (1 + Y), u), Same(m * (1 - Y), u1),
           ~Zero(m), ~Zero(al + x * be), Zero(al * u1 - x * (be * u)),
           NEW r \in Int, ~Zero(r), NEW X \in Int, X = r * al, NEW Z \in Int, Z = x * (r * be)
    PROVE  ~Zero(X + Z) /\ Same(X - Z, (X + Z) * Y)
<1>1. PICK s, xb \in Int : xb = x * be /\ s = al + xb
  OBVIOUS
<1>2. X + Z = r * s /\ X - Z = r * (al - xb)
  <2>1. x * (r * be) = r * (x * be)
    OBVIOUS
  <2>2. r * al + r * xb = r * (al + xb) /\ r * al - r * xb = r * (al - xb)
    OBVIOUS
  <2> QED
    BY <1>1, <2>1, <2>2
<1>3. ~Zero(X + Z)
  BY <1>1, <1>2, NonzeroProduct
<1>4. PICK t, g1, g2 \in Int : t = al * u1 - xb * u /\ g1 = m * (1 + Y) - u /\ g2 = m * (1 - Y) - u1
  OBVIOUS
<1>5. Zero(g1) /\ Zero(g2) /\ Zero(t)
  <2>1. m * (1 + Y) \in Int /\ m * (1 - Y) \in Int
    OBVIOUS
  <2>2. x * (be * u) = (x * be) * u
    OBVIOUS
  <2> QED
    BY <1>1, <1>4, <2>1, <2>2, ZeroOfDifference
<1>6. PICK w \in Int : w = (al - xb) - s * Y
  OBVIOUS
<1>7. m * w = (t + al * g2) - xb * g1
  <2>1. (al - xb) - (al + xb) * Y = al * (1 - Y) - xb * (1 + Y)
    OBVIOUS
  <2>2. m * (al * (1 - Y) - xb * (1 + Y)) = al * (m * (1 - Y)) - xb * (m * (1 + Y))
    OBVIOUS
  <2>3. m * (1 - Y) = u1 + g2 /\ m * (1 + Y) = u + g1
    BY <1>4
  <2>4. al * (u1 + g2) - xb * (u + g1) = ((al * u1 - xb * u) + al * g2) - xb * g1
    OBVIOUS
  <2> QED
    BY <1>1, <1>4, <1>6, <2>1, <2>2, <2>3, <2>4
<1>8. Zero(w)
  <2>1. PICK z1, z2 \in Int : z1 = al * g2 /\ z2 = xb * g1
    OBVIOUS
  <2>2. Zero(z1) /\ Zero(z2)
    BY <1>5, <2>1, ZeroTimes
  <2>3. Zero(t + z1) /\ t + z1 \in Int
    BY <1>5, <2>2, ZeroPlus
  <2>4. Zero((t + z1) - z2)
    BY <2>2, <2>3, ZeroPlus
  <2>5. Zero(m * w)
    BY <1>7, <2>1, <2>4
  <2> QED
    BY <2>5, ZeroFactor
<1>9. (X - Z) - (X + Z) * Y = r * w
  <2>1. r * (al - xb) - (r * s) * Y = r * ((al - xb) - s * Y)
    OBVIOUS
  <2> QED
    BY <1>2, <1>6, <2>1
<1>10. X - Z \in Int /\ (X + Z) * Y \in Int /\ Zero(r * w)
  BY <1>8, ZeroTimes
<1> QED
  BY <1>3, <1>9, <1>10, ZeroOfDifference

-----------------------------------------------------------------------------
(* (X : Z) stands for u = (1 + y) / (1 - y), the y that of q.              *)
StandsU(X, Z, q) ==
    /\ X \in Residues /\ Z \in Residues /\ q \in Curve
    /\ IsU(X, Z, q.y)

(* A pair stands for a point when what it is worth does.                   *)
LEMMA StandsFrom ==
    ASSUME NEW X, NEW x, Is(X, x), NEW Z, NEW z, Is(Z, z), NEW q \in Curve,
           IsU(x, z, q.y)
    PROVE  StandsU(X, Z, q)
<1>1. /\ X \in Residues /\ Z \in Residues /\ X \in Int /\ Z \in Int /\ x \in Int /\ z \in Int
      /\ q.y \in Int /\ Same(X, x) /\ Same(Z, z)
  BY ResidueIsInt, PointIs DEF Is
<1>y. PICK y \in Int : y = q.y
  BY <1>1
<1>2. PICK S, s, V, v \in Int : S = X + Z /\ s = x + z /\ V = X - Z /\ v = x - z
  BY <1>1
<1>3. Same(S, s) /\ Same(V, v)
  BY <1>1, <1>2, SamePlus
<1>4. ~Zero(S)
  BY <1>2, <1>3, ZeroSame DEF IsU
<1>5. Same(S * y, s * y) /\ S * y \in Int /\ s * y \in Int
  BY <1>3, SameTimes
<1>6. Same(v, s * y)
  BY <1>2, <1>y DEF IsU
<1>7. Same(s * y, S * y)
  BY <1>5, SameBack
<1>8. Same(V, s * y)
  BY <1>3, <1>5, <1>6, SameThrough
<1>9. Same(V, S * y)
  BY <1>5, <1>7, <1>8, SameThrough
<1> QED
  BY <1>1, <1>2, <1>4, <1>9, <1>y DEF StandsU, IsU

(* What the ladder computes with, and what it is worth. *)
LEMMA SumsOfU ==
    ASSUME NEW X, NEW Z, NEW q, StandsU(X, Z, q), NEW s, s = X + Z
    PROVE  /\ s \in Int /\ ~Zero(s) /\ q \in Curve /\ q.y \in Int
           /\ Is(FeAdd(X, Z), s) /\ Is(FeSub(X, Z), s * q.y)
<1>1. Is(X, X) /\ Is(Z, Z) /\ X \in Int /\ Z \in Int /\ q \in Curve /\ q.y \in Int
  BY IsItself, ResidueIsInt, PointIs DEF StandsU
<1>2. s \in Int /\ ~Zero(s) /\ Same(X - Z, s * q.y) /\ s * q.y \in Int
  BY <1>1 DEF StandsU, IsU
<1>3. Is(FeAdd(X, Z), s) /\ Is(FeSub(X, Z), X - Z)
  BY <1>1, OpsAre
<1>4. Is(FeSub(X, Z), s * q.y)
  BY <1>2, <1>3, IsThrough
<1> QED
  BY <1>1, <1>2, <1>3, <1>4

DoubleX(X, Z) == FeMul(FeSq(FeAdd(X, Z)), FeSq(FeSub(X, Z)))
DoubleZ(X, Z) ==
    LET bb == FeSq(FeSub(X, Z))
        e  == FeSub(FeSq(FeAdd(X, Z)), bb)
    IN FeMul(e, FeAdd(bb, FeMul(C121666, e)))

LEMMA MontgomeryIs == C121666 \in Residues /\ C121666 \in Int /\ ~Zero(1 + D) /\ Same(C121666 * (1 + D), 1)
<1>1. /\ C121666 \in Residues /\ C121666 \in Int /\ 1 + D \in Int /\ D \in Int
      /\ Is(1, 1) /\ Is(D, D) /\ Is(C121666, C121666)
  BY MontgomeryAssumption, ConstantsAre, ResidueIsInt, SmallNumbers, IsItself
<1>2. Is(FeAdd(1, D), 1 + D)
  BY <1>1, OpsAre
<1>3. Is(FeMul(C121666, FeAdd(1, D)), C121666 * (1 + D))
  BY <1>1, <1>2, OpsAre
<1>4. PICK c \in Int : c = C121666 * (1 + D)
  BY <1>1
<1>5. Same(1, c)
  BY <1>3, <1>4, MontgomeryAssumption DEF Is
<1>6. Same(c, 1)
  BY <1>5, SameBack
<1>7. ~Zero(c)
  BY <1>6, ZeroSame, NumbersDiffer
<1>8. ~Zero(1 + D)
  BY <1>1, <1>4, <1>7, ZeroTimes
<1> QED
  BY <1>1, <1>4, <1>6, <1>8

(* The ladder's doubling doubles.                                          *)
LEMMA LadderDoubleIs ==
    ASSUME NEW X, NEW Z, NEW q, StandsU(X, Z, q)
    PROVE  StandsU(DoubleX(X, Z), DoubleZ(X, Z), AddAffine(q, q))
<1>1. PICK s \in Int : s = X + Z
  BY SumsOfU
<1>2. PICK y, x \in Int : y = q.y /\ x = q.x /\ q \in Curve
  BY PointIs DEF StandsU
<1>3. ~Zero(s) /\ Is(FeAdd(X, Z), s) /\ Is(FeSub(X, Z), s * y)
  BY <1>1, <1>2, SumsOfU
<1>4. PICK a, t, u, d, c \in Int : a = s * s /\ t = y * y /\ u = x * x /\ d = D /\ c = C121666
  BY ConstantsAre, MontgomeryIs
<1>5. PICK k, b, e, f \in Int : k = d * (u * t) /\ b = a * t /\ e = a - b /\ f = b + c * e
  OBVIOUS
<1>6. PICK aa, bb : aa = FeSq(FeAdd(X, Z)) /\ bb = FeSq(FeSub(X, Z))
  OBVIOUS
<1>7. Is(aa, a) /\ Is(bb, b)
  <2>1. Is(bb, (s * y) * (s * y)) /\ Is(aa, s * s)
    BY <1>3, <1>6, OpsAre
  <2>2. (s * y) * (s * y) = (s * s) * (y * y)
    OBVIOUS
  <2> QED
    BY <1>4, <1>5, <2>1, <2>2
<1>8. Is(FeSub(aa, bb), e)
  BY <1>5, <1>7, OpsAre
<1>9. Is(FeMul(C121666, FeSub(aa, bb)), c * e)
  <2>1. Is(C121666, c)
    BY <1>4, MontgomeryIs, IsItself
  <2> QED
    BY <1>8, <2>1, OpsAre
<1>10. Is(FeAdd(bb, FeMul(C121666, FeSub(aa, bb))), f)
  BY <1>5, <1>7, <1>9, OpsAre
<1>11. Is(DoubleX(X, Z), a * b) /\ Is(DoubleZ(X, Z), e * f)
  <2>1. DoubleX(X, Z) = FeMul(aa, bb) /\ DoubleZ(X, Z) = FeMul(FeSub(aa, bb), FeAdd(bb, FeMul(C121666, FeSub(aa, bb))))
    BY <1>6 DEF DoubleX, DoubleZ
  <2> QED
    BY <1>7, <1>8, <1>10, <2>1, OpsAre
<1>12. PICK S \in Curve : S = AddAffine(q, q) /\ ~Zero(1 - k) /\ Same(S.y * (1 - k), t + u)
  <2>1. PICK k0 \in Int : k0 = D * ((q.x * q.y) * (q.x * q.y))
    BY <1>2, ConstantsAre
  <2>2. /\ AddAffine(q, q) \in Curve /\ ~Zero(1 - k0)
        /\ Same(AddAffine(q, q).y * (1 - k0), q.y * q.y + q.x * q.x)
    BY <1>2, <2>1, AddAffineIs
  <2>3. k0 = k
    <3>1. (x * y) * (x * y) = (x * x) * (y * y)
      OBVIOUS
    <3> QED
      BY <1>2, <1>4, <1>5, <2>1, <3>1
  <2> QED
    BY <1>2, <1>4, <2>2, <2>3
<1>13. Same(t - u, 1 + k) /\ ~Zero(1 + d * t)
  <2>1. Same(q.y * q.y - q.x * q.x, 1 + D * ((q.x * q.x) * (q.y * q.y)))
    BY <1>2, PointIs
  <2>2. Same(t - u, 1 + k)
    BY <1>2, <1>4, <1>5, <2>1
  <2>3. Same(y * y - x * x, 1 + D * ((x * x) * (y * y)))
    BY <1>2, <2>1
  <2>4. PICK v \in Int : v = (y * y) * D + 1
    BY ConstantsAre
  <2>5. ~Zero(v)
    BY <2>3, <2>4, DenominatorIs
  <2>6. v = 1 + d * t
    BY <1>4, <2>4
  <2> QED
    BY <2>2, <2>5, <2>6
<1>14. ~Zero(a)
  BY <1>3, <1>4, NonzeroProduct
<1>15. PICK Y, xx, zz \in Int : Y = S.y /\ xx = a * b /\ zz = e * f
  BY <1>12, PointIs
<1>16. ~Zero(1 + d) /\ Same(c * (1 + d), 1)
  BY <1>4, MontgomeryIs
<1>17. IsU(xx, zz, Y)
  <2>1. Doubling(a, t, u, d, c, k, Y)
    BY <1>5, <1>12, <1>13, <1>14, <1>15, <1>16 DEF Doubling
  <2>2. Doubled(a, b, e, f, t, c)
    BY <1>5 DEF Doubled
  <2> QED
    BY <1>15, <2>1, <2>2, LadderDoubles
<1>18. Is(DoubleX(X, Z), xx) /\ Is(DoubleZ(X, Z), zz)
  BY <1>11, <1>15
<1>19. StandsU(DoubleX(X, Z), DoubleZ(X, Z), S)
  BY <1>15, <1>17, <1>18, StandsFrom
<1> QED
  BY <1>12, <1>19

-----------------------------------------------------------------------------
(* v is the product of the two y and w of the two x, Y is the y of the sum *)
(* and y1 that of the difference.                                          *)
LEMMA TimesOnePlus ==
    ASSUME NEW m \in Int, NEW y \in Int, NEW z \in Int, Same(y * m, z)
    PROVE  Same(m * (1 + y), m + z) /\ Same(m * (1 - y), m - z)
<1>1. PICK c \in Int : c = y * m
  OBVIOUS
<1>2. Same(m, m) /\ Same(c, z)
  BY <1>1, SameItself
<1>3. Same(m + c, m + z) /\ Same(m - c, m - z)
  BY <1>2, SamePlus
<1>4. m * (1 + y) = m + y * m /\ m * (1 - y) = m - y * m
  OBVIOUS
<1> QED
  BY <1>1, <1>3, <1>4

LEMMA DifferenceNotMinusOne ==
    ASSUME NEW x \in Int, NEW y1 \in Int, ~Zero(x), Same(x * (1 - y1), 1 + y1)
    PROVE  ~Zero(1 + y1)
<1>1. SUFFICES ASSUME Zero(1 + y1) PROVE FALSE
  OBVIOUS
<1>2. PICK c, a, b \in Int : c = x * (1 - y1) /\ a = 1 - y1 /\ b = 1 + y1
  OBVIOUS
<1>3. Same(c, b) /\ Zero(b)
  BY <1>1, <1>2
<1>4. Zero(c)
  BY <1>3, ZeroSame
<1>5. Zero(x * a)
  BY <1>2, <1>4
<1>6. Zero(a)
  BY <1>5, ZeroFactor
<1>7. Zero(a + b) /\ a + b = 2
  BY <1>2, <1>3, <1>6, ZeroPlus
<1> QED
  BY <1>7, NumbersDiffer

Adding(v, w, d, g, h, k, Y, y1, x) ==
    /\ v * v = g * h /\ k = d * (v * w)
    /\ Same((w * w) * SumDen(d, g, h), (g - 1) * (h - 1)) /\ ~Zero(SumDen(d, g, h))
    /\ ~Zero(1 - k) /\ ~Zero(1 + k) /\ Same(Y * (1 - k), v + w) /\ Same(y1 * (1 + k), v - w)
    /\ ~Zero(x) /\ Same(x * (1 - y1), 1 + y1)
IsSum(f, z, r, x, g, h, v) == f = r * (g + h + 2 * v) /\ z = x * (r * (g + h - 2 * v))

(* The ladder's sum, as integers.                                          *)
LEMMA LadderAdds ==
    ASSUME NEW v \in Int, NEW w \in Int, NEW d \in Int, NEW g \in Int, NEW h \in Int,
           NEW k \in Int, NEW Y \in Int, NEW y1 \in Int, NEW x \in Int,
           Adding(v, w, d, g, h, k, Y, y1, x),
           NEW r \in Int, ~Zero(r), NEW X \in Int, NEW Z \in Int, IsSum(X, Z, r, x, g, h, v)
    PROVE  IsU(X, Z, Y)
<1>a. v * v = g * h /\ k = d * (v * w)
  BY DEF Adding
<1>b. Same((w * w) * SumDen(d, g, h), (g - 1) * (h - 1)) /\ ~Zero(SumDen(d, g, h))
  BY DEF Adding
<1>c. ~Zero(1 - k) /\ ~Zero(1 + k) /\ Same(Y * (1 - k), v + w) /\ Same(y1 * (1 + k), v - w)
  BY DEF Adding
<1>d. ~Zero(x) /\ Same(x * (1 - y1), 1 + y1)
  BY DEF Adding
<1>e. X = r * (g + h + 2 * v) /\ Z = x * (r * (g + h - 2 * v))
  BY DEF IsSum
<1>1. PICK den, e \in Int : den = SumDen(d, g, h) /\ e = SumScale(d, g, h)
  <2>1. SumDen(d, g, h) \in Int /\ SumScale(d, g, h) \in Int
    BY DEF SumDen, SumScale
  <2> QED
    BY <2>1
<1>2. PICK u, u1, c, c1, al, be, ww \in Int :
        /\ u = (1 + v) + w * (1 - d * v) /\ c = (1 + v) - w * (1 - d * v)
        /\ u1 = (1 - v) - w * (1 + d * v) /\ c1 = (1 - v) + w * (1 + d * v)
        /\ al = g + h + 2 * v /\ be = g + h - 2 * v /\ ww = w * w
  OBVIOUS
<1>3. Same((u * c) * den, al * e)
  <2>1. PICK q \in Int : q = (1 + v) * (1 + v) - ww * ((1 - d * v) * (1 - d * v))
    OBVIOUS
  <2>2. u * c = q
    <3>1. PICK f, f1 \in Int : f = 1 + v /\ f1 = 1 - d * v
      OBVIOUS
    <3>2. (f + w * f1) * (f - w * f1) = f * f - (w * w) * (f1 * f1)
      OBVIOUS
    <3> QED
      BY <1>2, <2>1, <3>1, <3>2
  <2>3. Same(ww * SumDen(d, g, h), (g - 1) * (h - 1)) /\ v * v = g * h
    BY <1>2, <1>a, <1>b
  <2>4. Same(q * SumDen(d, g, h), (g + h + 2 * v) * SumScale(d, g, h))
    BY <2>1, <2>3, SumSquares
  <2> QED
    BY <1>1, <1>2, <2>2, <2>4
<1>4. Same((u1 * c1) * den, be * e)
  <2>1. PICK n \in Int : n = -v
    OBVIOUS
  <2>2. PICK q \in Int : q = (1 + n) * (1 + n) - ww * ((1 - d * n) * (1 - d * n))
    OBVIOUS
  <2>3. u1 * c1 = q
    <3>1. PICK f, f1 \in Int : f = 1 - v /\ f1 = 1 + d * v
      OBVIOUS
    <3>2. (f - w * f1) * (f + w * f1) = f * f - (w * w) * (f1 * f1)
      OBVIOUS
    <3>3. 1 + n = f /\ 1 - d * n = f1
      <4>1. d * (-v) = -(d * v)
        OBVIOUS
      <4> QED
        BY <2>1, <3>1, <4>1
    <3> QED
      BY <1>2, <2>2, <3>1, <3>2, <3>3
  <2>4. Same(ww * SumDen(d, g, h), (g - 1) * (h - 1)) /\ n * n = g * h
    <3>1. (-v) * (-v) = v * v
      OBVIOUS
    <3> QED
      BY <1>2, <1>a, <1>b, <2>1, <3>1
  <2>5. Same(q * SumDen(d, g, h), (g + h + 2 * n) * SumScale(d, g, h))
    BY <2>2, <2>4, SumSquares
  <2>6. g + h + 2 * n = be
    BY <1>2, <2>1
  <2> QED
    BY <1>1, <2>3, <2>5, <2>6
<1>5. u = (1 - k) + (v + w) /\ u1 = (1 - k) - (v + w) /\ c = (1 + k) + (v - w) /\ c1 = (1 + k) - (v - w)
  <2>1. w * (1 - d * v) = w - d * (v * w) /\ w * (1 + d * v) = w + d * (v * w)
    OBVIOUS
  <2> QED
    BY <1>2, <1>a, <2>1
<1>6. PICK m, n \in Int : m = 1 - k /\ n = 1 + k
  OBVIOUS
<1>7. Same(m * (1 + Y), u) /\ Same(m * (1 - Y), u1)
  <2>1. PICK z \in Int : z = v + w
    OBVIOUS
  <2>2. Same(Y * m, z)
    BY <1>6, <1>c, <2>1
  <2>3. Same(m * (1 + Y), m + z) /\ Same(m * (1 - Y), m - z)
    BY <2>2, TimesOnePlus
  <2> QED
    BY <1>5, <1>6, <2>1, <2>3
<1>8. Same(n * (1 + y1), c) /\ Same(n * (1 - y1), c1)
  <2>1. PICK z \in Int : z = v - w
    OBVIOUS
  <2>2. Same(y1 * n, z)
    BY <1>6, <1>c, <2>1
  <2>3. Same(n * (1 + y1), n + z) /\ Same(n * (1 - y1), n - z)
    BY <2>2, TimesOnePlus
  <2> QED
    BY <1>5, <1>6, <2>1, <2>3
<1>9. PICK a, b, na, nb \in Int : a = 1 + y1 /\ b = 1 - y1 /\ na = n * a /\ nb = n * b
  OBVIOUS
<1>10. Same(na, c) /\ Same(nb, c1) /\ Same(x * b, a) /\ ~Zero(a)
  BY <1>8, <1>9, <1>d, DifferenceNotMinusOne
<1>11. ~Zero(c)
  <2>1. ~Zero(na)
    BY <1>6, <1>9, <1>10, <1>c, NonzeroProduct
  <2> QED
    BY <1>10, <2>1, ZeroSame
<1>12. Same(x * c1, c)
  <2>1. PICK xb, t1, t2, t3 \in Int : xb = x * b /\ t1 = x * c1 /\ t2 = x * nb /\ t3 = n * xb
    OBVIOUS
  <2>2. Same(t2, t1)
    BY <1>10, <2>1, SameTimes
  <2>3. t2 = t3
    <3>1. x * (n * b) = n * (x * b)
      OBVIOUS
    <3> QED
      BY <1>9, <2>1, <3>1
  <2>4. Same(t3, na)
    <3>1. Same(xb, a)
      BY <1>10, <2>1
    <3> QED
      BY <1>9, <2>1, <3>1, SameTimes
  <2>5. Same(t1, t2)
    BY <2>2, SameBack
  <2>6. Same(t1, na)
    BY <2>3, <2>4, <2>5, SameThrough
  <2>7. Same(t1, c)
    BY <1>10, <2>6, SameThrough
  <2> QED
    BY <2>1, <2>7
<1>13. ~Zero(u + u1)
  <2>1. u + u1 = 2 * m
    BY <1>5, <1>6
  <2>2. ~Zero(2 * m)
    BY <1>6, <1>c, NumbersDiffer, NonzeroProduct
  <2> QED
    BY <2>1, <2>2
<1>14. ~Zero(den)
  BY <1>1, <1>b
<1>15. ~Zero(al + x * be) /\ Zero(al * u1 - x * (be * u))
  BY <1>3, <1>4, <1>11, <1>12, <1>13, <1>14, AddsCore
<1>16. ~Zero(m) /\ X = r * al /\ Z = x * (r * be)
  BY <1>2, <1>6, <1>c, <1>e
<1>17. ~Zero(X + Z) /\ Same(X - Z, (X + Z) * Y)
  BY <1>7, <1>15, <1>16, AddsScaled
<1> QED
  BY <1>17 DEF IsU

-----------------------------------------------------------------------------
LEMMA NegOfIs ==
    ASSUME NEW q \in Curve
    PROVE  /\ NegOf(q) \in Curve /\ NegOf(q).y = q.y /\ NegOf(q).x \in Int /\ Same(NegOf(q).x, -q.x)
<1>1. NegOf(q) \in Curve /\ q.x \in Residues
  BY NegIs, PointIs
<1>2. NegOf(q).y = q.y /\ NegOf(q).x = FeNeg(q.x)
  BY AffineIs DEF NegOf
<1> QED
  BY <1>1, <1>2, NegFieldIs

(* The y of a difference.                                                  *)
LEMMA DifferenceIs ==
    ASSUME NEW p \in Curve, NEW q \in Curve, NEW v \in Int, v = p.y * q.y, NEW w \in Int, w = p.x * q.x,
           NEW k \in Int, k = D * (v * w)
    PROVE  AddAffine(p, NegOf(q)).y \in Int /\ Same(AddAffine(p, NegOf(q)).y * (1 + k), v - w)
<1>1. PICK px, py, qx, qy, d \in Int : px = p.x /\ py = p.y /\ qx = q.x /\ qy = q.y /\ d = D
  BY PointIs, ConstantsAre
<1>2. PICK nx \in Int : nx = NegOf(q).x /\ NegOf(q) \in Curve /\ NegOf(q).y = qy /\ Same(nx, -qx)
  BY <1>1, NegOfIs
<1>3. PICK k0 \in Int : k0 = d * ((px * qy) * (nx * py))
  OBVIOUS
<1>4. PICK y1 \in Int : y1 = AddAffine(p, NegOf(q)).y /\ Same(y1 * (1 - k0), py * qy + px * nx)
  <2>1. k0 = D * ((p.x * NegOf(q).y) * (NegOf(q).x * p.y))
    BY <1>1, <1>2, <1>3
  <2>2. /\ AddAffine(p, NegOf(q)) \in Curve
        /\ Same(AddAffine(p, NegOf(q)).y * (1 - k0), p.y * NegOf(q).y + p.x * NegOf(q).x)
    BY <1>2, <2>1, AddAffineIs
  <2> QED
    BY <1>1, <1>2, <2>2, PointIs
<1>5. PICK m, mq, a, b \in Int : m = d * ((px * qy) * py) /\ mq = m * (-qx) /\ a = px * nx /\ b = px * (-qx)
  OBVIOUS
<1>6. k0 = m * nx /\ mq = -k /\ b = -w
  <2>1. d * ((px * qy) * (nx * py)) = (d * ((px * qy) * py)) * nx
    OBVIOUS
  <2>2. (d * ((px * qy) * py)) * (-qx) = -(d * ((py * qy) * (px * qx)))
    OBVIOUS
  <2>3. px * (-qx) = -(px * qx)
    OBVIOUS
  <2> QED
    BY <1>1, <1>3, <1>5, <2>1, <2>2, <2>3
<1>7. Same(k0, mq) /\ Same(a, b)
  <2>1. -qx \in Int
    OBVIOUS
  <2>2. Same(m * nx, m * (-qx)) /\ Same(px * nx, px * (-qx))
    BY <1>2, <2>1, SameTimes
  <2> QED
    BY <1>5, <1>6, <2>2
<1>8. Same(1 - k0, 1 + k) /\ Same(v + a, v - w)
  <2>1. Same(1, 1) /\ Same(v, v) /\ 1 \in Int
    BY SameItself
  <2>2. Same(1 - k0, 1 - mq) /\ Same(v + a, v + b)
    BY <1>7, <2>1, SamePlus
  <2> QED
    BY <1>6, <2>2
<1>9. PICK l, t1, t2, t3, t4 \in Int : l = 1 - k0 /\ t1 = y1 * l /\ t2 = y1 * (1 + k) /\ t3 = v + a /\ t4 = v - w
  OBVIOUS
<1>10. Same(t1, t2)
  <2>1. 1 + k \in Int /\ Same(l, 1 + k)
    BY <1>8, <1>9
  <2> QED
    BY <1>9, <2>1, SameTimes
<1>11. Same(t1, t3) /\ Same(t3, t4)
  <2>1. py * qy + px * nx = t3
    BY <1>1, <1>5, <1>9
  <2> QED
    BY <1>4, <1>8, <1>9, <2>1
<1>12. Same(t2, t1)
  BY <1>10, SameBack
<1>13. Same(t2, t3)
  BY <1>11, <1>12, SameThrough
<1>14. Same(t2, t4)
  BY <1>11, <1>13, SameThrough
<1> QED
  BY <1>4, <1>9, <1>14

-----------------------------------------------------------------------------
SumDA(X, Z, U, V) == FeMul(FeSub(U, V), FeAdd(X, Z))
SumCB(X, Z, U, V) == FeMul(FeAdd(U, V), FeSub(X, Z))
SumX(X, Z, U, V) == FeSq(FeAdd(SumDA(X, Z, U, V), SumCB(X, Z, U, V)))
SumZ(X, Z, U, V, x1) == FeMul(x1, FeSq(FeSub(SumDA(X, Z, U, V), SumCB(X, Z, U, V))))

SumFactors(r, s, t, v, g, h, y, z) == r = (s * t) * (s * t) /\ v = y * z /\ g = y * y /\ h = z * z

LEMMA SumFieldIs ==
    ASSUME NEW X, NEW Z, NEW q, StandsU(X, Z, q), NEW U, NEW V, NEW p, StandsU(U, V, p),
           NEW x1 \in Residues, NEW s \in Int, s = X + Z, NEW t \in Int, t = U + V,
           NEW yp \in Int, yp = p.y, NEW yq \in Int, yq = q.y,
           NEW r \in Int, NEW v \in Int, NEW g \in Int, NEW h \in Int, SumFactors(r, s, t, v, g, h, yp, yq),
           NEW m1 \in Int, NEW m2 \in Int, IsSum(m1, m2, r, x1, g, h, v)
    PROVE  Is(SumX(X, Z, U, V), m1) /\ Is(SumZ(X, Z, U, V, x1), m2)
<1>a. r = (s * t) * (s * t) /\ v = yp * yq /\ g = yp * yp /\ h = yq * yq
  BY DEF SumFactors
<1>1. Is(FeAdd(X, Z), s) /\ Is(FeSub(X, Z), s * yq) /\ Is(FeAdd(U, V), t) /\ Is(FeSub(U, V), t * yp)
  BY SumsOfU
<1>2. PICK da, cb : da = SumDA(X, Z, U, V) /\ cb = SumCB(X, Z, U, V)
  OBVIOUS
<1>3. PICK l, m, n \in Int : l = s * t /\ m = l * yp /\ n = l * yq
  <2>1. PICK l \in Int : l = s * t
    OBVIOUS
  <2>2. l * yp \in Int /\ l * yq \in Int
    OBVIOUS
  <2> QED
    BY <2>1, <2>2
<1>4. Is(da, m) /\ Is(cb, n)
  <2>1. Is(da, (t * yp) * s) /\ Is(cb, t * (s * yq))
    BY <1>1, <1>2, OpsAre DEF SumDA, SumCB
  <2>2. (t * yp) * s = (s * t) * yp /\ t * (s * yq) = (s * t) * yq
    OBVIOUS
  <2> QED
    BY <1>3, <2>1, <2>2
<1>5. Is(FeAdd(da, cb), m + n) /\ Is(FeSub(da, cb), m - n)
  BY <1>4, OpsAre
<1>6. Is(FeSq(FeAdd(da, cb)), (m + n) * (m + n)) /\ Is(FeSq(FeSub(da, cb)), (m - n) * (m - n))
  BY <1>5, OpsAre
<1>7. m1 = (m + n) * (m + n) /\ m2 = x1 * ((m - n) * (m - n))
  <2>1. /\ (l * yp + l * yq) * (l * yp + l * yq) = (l * l) * (yp * yp + yq * yq + 2 * (yp * yq))
        /\ (l * yp - l * yq) * (l * yp - l * yq) = (l * l) * (yp * yp + yq * yq - 2 * (yp * yq))
    OBVIOUS
  <2>2. l * l = r
    BY <1>3, <1>a
  <2>3. (m + n) * (m + n) = r * (g + h + 2 * v) /\ (m - n) * (m - n) = r * (g + h - 2 * v)
    BY <1>3, <1>a, <2>1, <2>2
  <2> QED
    BY <2>3 DEF IsSum
<1>8. Is(x1, x1)
  BY IsItself
<1>9. Is(FeMul(x1, FeSq(FeSub(da, cb))), x1 * ((m - n) * (m - n)))
  BY <1>6, <1>8, OpsAre
<1> QED
  BY <1>2, <1>6, <1>7, <1>9 DEF SumX, SumZ

(* The ladder's sum is the sum, given the u of the difference.             *)
LEMMA LadderAddIs ==
    ASSUME NEW X, NEW Z, NEW q, StandsU(X, Z, q), NEW U, NEW V, NEW p, StandsU(U, V, p),
           NEW x1 \in Residues, ~Zero(x1), NEW y1, y1 = AddAffine(p, NegOf(q)).y,
           Same(x1 * (1 - y1), 1 + y1)
    PROVE  StandsU(SumX(X, Z, U, V), SumZ(X, Z, U, V, x1), AddAffine(p, q))
<1>1. PICK s, t, x \in Int : s = X + Z /\ t = U + V /\ x = x1 /\ ~Zero(s) /\ ~Zero(t)
  BY SumsOfU, ResidueIsInt
<1>2. PICK yp, xp, yq, xq, d \in Int :
        yp = p.y /\ xp = p.x /\ yq = q.y /\ xq = q.x /\ d = D /\ p \in Curve /\ q \in Curve
  BY PointIs, ConstantsAre DEF StandsU
<1>3. PICK v, w, g, h \in Int : v = yp * yq /\ w = xp * xq /\ g = yp * yp /\ h = yq * yq
  OBVIOUS
<1>4. PICK r, k, l \in Int : l = s * t /\ r = l * l /\ k = d * (v * w)
  OBVIOUS
<1>5. ~Zero(r)
  <2>1. ~Zero(l)
    BY <1>1, <1>4, NonzeroProduct
  <2> QED
    BY <1>4, <2>1, NonzeroProduct
<1>6. y1 \in Int /\ Same(y1 * (1 + k), v - w)
  <2>1. v = p.y * q.y /\ w = p.x * q.x /\ k = D * (v * w)
    BY <1>2, <1>3, <1>4
  <2> QED
    BY <1>2, <2>1, DifferenceIs
<1>7. PICK S \in Curve : S = AddAffine(p, q) /\ ~Zero(1 + k) /\ ~Zero(1 - k) /\ Same(S.y * (1 - k), v + w)
  <2>1. (xp * yq) * (xq * yp) = (yp * yq) * (xp * xq)
    OBVIOUS
  <2>2. k = D * ((p.x * q.y) * (q.x * p.y))
    BY <1>2, <1>3, <1>4, <2>1
  <2>3. /\ AddAffine(p, q) \in Curve /\ ~Zero(1 + k) /\ ~Zero(1 - k)
        /\ Same(AddAffine(p, q).y * (1 - k), p.y * q.y + p.x * q.x)
    BY <1>2, <2>2, AddAffineIs
  <2> QED
    BY <1>2, <1>3, <2>3
<1>8. PICK a, b, u1, u2 \in Int : a = 1 + d * g /\ b = 1 + d * h /\ u1 = xp * xp /\ u2 = xq * xq
  OBVIOUS
<1>9. ~Zero(a) /\ ~Zero(b) /\ Same(g - 1, u1 * a) /\ Same(h - 1, u2 * b)
  <2>1. Same(yp * yp - xp * xp, 1 + D * ((xp * xp) * (yp * yp)))
    BY <1>2, PointIs
  <2>2. Same(yq * yq - xq * xq, 1 + D * ((xq * xq) * (yq * yq)))
    BY <1>2, PointIs
  <2>3. a = (yp * yp) * D + 1 /\ b = (yq * yq) * D + 1
    BY <1>2, <1>3, <1>8
  <2>4. ~Zero(a) /\ Same(yp * yp - 1, (xp * xp) * a)
    BY <2>1, <2>3, DenominatorIs
  <2>5. ~Zero(b) /\ Same(yq * yq - 1, (xq * xq) * b)
    BY <2>2, <2>3, DenominatorIs
  <2> QED
    BY <1>3, <1>8, <2>4, <2>5
<1>10. Same((w * w) * SumDen(d, g, h), (g - 1) * (h - 1)) /\ ~Zero(SumDen(d, g, h))
  <2>1. SumDen(d, g, h) = a * b
    BY <1>8 DEF SumDen
  <2>2. PICK f1, f2, f3, f4 \in Int : f1 = g - 1 /\ f2 = h - 1 /\ f3 = u1 * a /\ f4 = u2 * b
    OBVIOUS
  <2>3. Same(f1, f3) /\ Same(f2, f4)
    BY <1>9, <2>2
  <2>4. Same(f1 * f2, f3 * f4)
    BY <2>3, SameProduct
  <2>5. f3 * f4 = (w * w) * (a * b)
    <3>1. ((xp * xp) * a) * ((xq * xq) * b) = ((xp * xq) * (xp * xq)) * (a * b)
      OBVIOUS
    <3> QED
      BY <1>3, <1>8, <2>2, <3>1
  <2>6. PICK z1, z2 \in Int : z1 = f1 * f2 /\ z2 = (w * w) * (a * b)
    OBVIOUS
  <2>7. Same(z2, z1)
    BY <2>4, <2>5, <2>6, SameBack
  <2> QED
    BY <1>9, <2>1, <2>2, <2>6, <2>7, NonzeroProduct
<1>11. PICK Y, xx, zz \in Int : Y = S.y /\ xx = r * (g + h + 2 * v) /\ zz = x * (r * (g + h - 2 * v))
  BY <1>7, PointIs
<1>12. IsU(xx, zz, Y)
  <2>1. v * v = g * h
    <3>1. (yp * yq) * (yp * yq) = (yp * yp) * (yq * yq)
      OBVIOUS
    <3> QED
      BY <1>3, <3>1
  <2>2. Same(Y * (1 - k), v + w) /\ ~Zero(x) /\ Same(x * (1 - y1), 1 + y1)
    BY <1>1, <1>7, <1>11
  <2>3. Adding(v, w, d, g, h, k, Y, y1, x)
    BY <1>4, <1>6, <1>7, <1>10, <2>1, <2>2 DEF Adding
  <2>4. IsSum(xx, zz, r, x, g, h, v)
    BY <1>11 DEF IsSum
  <2> QED
    BY <1>5, <1>6, <1>11, <2>3, <2>4, LadderAdds
<1>13. Is(SumX(X, Z, U, V), xx) /\ Is(SumZ(X, Z, U, V, x1), zz)
  <2>1. SumFactors(r, s, t, v, g, h, yp, yq)
    BY <1>3, <1>4 DEF SumFactors
  <2>2. IsSum(xx, zz, r, x1, g, h, v)
    BY <1>1, <1>11 DEF IsSum
  <2>3. /\ s \in Int /\ t \in Int /\ yp \in Int /\ yq \in Int /\ r \in Int /\ v \in Int
        /\ g \in Int /\ h \in Int /\ xx \in Int /\ zz \in Int
    BY <1>1, <1>2, <1>3, <1>4, <1>11
  <2>4. s = X + Z /\ t = U + V /\ yp = p.y /\ yq = q.y
    BY <1>1, <1>2
  <2> QED
    BY <2>1, <2>2, <2>3, <2>4, SumFieldIs
<1>14. StandsU(SumX(X, Z, U, V), SumZ(X, Z, U, V, x1), S)
  BY <1>11, <1>12, <1>13, StandsFrom
<1> QED
  BY <1>7, <1>14

-----------------------------------------------------------------------------
(* Quotients of the same numbers are the same, of 0 by 0 as well. *)
LEMMA QuotientSame ==
    ASSUME NEW u \in Int, NEW v \in Int, NEW w \in Int, ~Zero(w),
           NEW f, Is(f, w * u), NEW g, Is(g, w * v), NEW f1, Is(f1, u), NEW g1, Is(g1, v)
    PROVE  FeMul(f, FeInvert(g)) = FeMul(f1, FeInvert(g1)) /\ FeMul(f1, FeInvert(g1)) \in Residues
<1>1. CASE Zero(v)
  <2>1. Zero(w * v) /\ w * v \in Int
    BY <1>1, ZeroTimes
  <2>2. g = 0 /\ g1 = 0
    BY <1>1, <2>1, ZeroIs
  <2>3. FeInvert(g) = 0 /\ FeInvert(g1) = 0
    BY <2>2, InverseAssumption
  <2>4. f \in Int /\ f1 \in Int
    BY ResidueIsInt DEF Is
  <2>5. f * 0 = 0 /\ f1 * 0 = 0
    BY <2>4
  <2>6. 0 % Prime = 0
    BY SmallNumbers, ResidueRemainder
  <2>7. FeMul(f, 0) = 0 /\ FeMul(f1, 0) = 0
    BY <2>5, <2>6 DEF FeMul
  <2> QED
    BY <2>3, <2>7, SmallNumbers
<1>2. CASE ~Zero(v)
  <2>1. ~Zero(w * v)
    BY <1>2, NonzeroProduct
  <2>2. PICK m, n \in Residues : m = FeMul(f, FeInvert(g)) /\ n = FeMul(f1, FeInvert(g1))
    BY <1>2, <2>1, QuotientIs
  <2>3. Same(m * (w * v), w * u) /\ Same(n * v, u)
    BY <1>2, <2>1, <2>2, QuotientIs
  <2>4. m \in Int /\ n \in Int
    BY ResidueIsInt
  <2>5. PICK a, b, c, z \in Int : z = w * v /\ a = m * z /\ b = n * z /\ c = w * u
    BY <2>4
  <2>6. PICK nv \in Int : nv = n * v
    BY <2>4
  <2>7. Same(w * nv, w * u)
    BY <2>3, <2>6, SameTimes
  <2>8. b = w * nv
    <3>1. n * (w * v) = w * (n * v)
      BY <2>4
    <3> QED
      BY <2>5, <2>6, <3>1
  <2>9. Same(a, c) /\ Same(b, c)
    BY <2>3, <2>5, <2>7, <2>8
  <2>10. Same(c, b)
    BY <2>9, SameBack
  <2>11. Same(a, b)
    BY <2>9, <2>10, SameThrough
  <2>12. Same(m, n)
    BY <2>1, <2>4, <2>5, <2>11, Cancel
  <2>13. m = n
    BY <2>12, SameResidue
  <2> QED
    BY <2>2, <2>13
<1> QED
  BY <1>1, <1>2

LEMMA SumsOfY ==
    ASSUME NEW q \in Curve
    PROVE  q.y \in Int /\ Is(FeAdd(1, q.y), 1 + q.y) /\ Is(FeSub(1, q.y), 1 - q.y)
<1>1. q.y \in Residues /\ q.y \in Int /\ Is(q.y, q.y) /\ Is(1, 1)
  BY PointIs, IsItself, SmallNumbers
<1> QED
  BY <1>1, OpsAre

LEMMA UIsResidue == ASSUME NEW q \in Curve PROVE MontgomeryU(q) \in Residues
<1>1. PICK u, v \in Int : u = 1 + q.y /\ v = 1 - q.y /\ Is(FeAdd(1, q.y), u) /\ Is(FeSub(1, q.y), v)
  BY SumsOfY
<1>2. 1 * u = u /\ 1 * v = v /\ 1 \in Int
  OBVIOUS
<1>3. Is(FeAdd(1, q.y), 1 * u) /\ Is(FeSub(1, q.y), 1 * v)
  BY <1>1, <1>2
<1> QED
  BY <1>1, <1>2, <1>3, NumbersDiffer, QuotientSame DEF MontgomeryU

(* What stands for u is u when it is divided. *)
LEMMA LadderQuotient ==
    ASSUME NEW X, NEW Z, NEW q, StandsU(X, Z, q)
    PROVE  FeMul(X, FeInvert(Z)) = MontgomeryU(q)
<1>1. PICK s, y, x, z \in Int : s = X + Z /\ y = q.y /\ x = X /\ z = Z /\ ~Zero(s) /\ q \in Curve
  BY SumsOfU, ResidueIsInt DEF StandsU
<1>2. PICK i \in Int : Same(2 * i, 1)
  <2>1. 2 \in Int /\ ~Zero(2)
    BY NumbersDiffer
  <2> QED
    BY <2>1, HasInverse
<1>3. PICK w, sy, two \in Int : w = i * s /\ sy = s * y /\ two = 2 * i
  OBVIOUS
<1>4. ~Zero(w)
  <2>1. ~Zero(i)
    <3>1. SUFFICES ASSUME Zero(i) PROVE FALSE
      OBVIOUS
    <3>2. Zero(2 * i) /\ 2 * i \in Int
      BY <3>1, ZeroTimes
    <3> QED
      BY <1>2, <3>2, ZeroSame, NumbersDiffer
  <2> QED
    BY <1>1, <1>3, <2>1, NonzeroProduct
<1>5. Same(x - z, sy)
  BY <1>1, <1>3 DEF StandsU, IsU
<1>6. Same(x, w * (1 + y)) /\ Same(z, w * (1 - y))
  <2>1. PICK dd, e1, e2 \in Int : dd = x - z /\ e1 = s + sy /\ e2 = s - sy
    OBVIOUS
  <2>2. Same(s + dd, e1) /\ Same(s - dd, e2)
    <3>1. Same(s, s) /\ Same(dd, sy)
      BY <1>5, <2>1, SameItself
    <3> QED
      BY <2>1, <3>1, SamePlus
  <2>3. s + dd = 2 * x /\ s - dd = 2 * z
    BY <1>1, <2>1
  <2>4. PICK x2, z2 \in Int : x2 = 2 * x /\ z2 = 2 * z
    OBVIOUS
  <2>5. Same(i * x2, i * e1) /\ Same(i * z2, i * e2)
    BY <2>2, <2>3, <2>4, SameTimes
  <2>6. i * x2 = two * x /\ i * z2 = two * z
    BY <1>3, <2>4
  <2>7. Same(two * x, x) /\ Same(two * z, z)
    <3>1. PICK one \in Int : one = 1
      OBVIOUS
    <3>2. Same(two, one) /\ one * x = x /\ one * z = z
      BY <1>2, <1>3, <3>1
    <3>3. Same(two * x, one * x) /\ Same(two * z, one * z)
      BY <3>2, SameTimes
    <3> QED
      BY <3>2, <3>3
  <2>8. i * e1 = w * (1 + y) /\ i * e2 = w * (1 - y)
    <3>1. i * (s + s * y) = (i * s) * (1 + y) /\ i * (s - s * y) = (i * s) * (1 - y)
      OBVIOUS
    <3> QED
      BY <1>3, <2>1, <3>1
  <2>9. PICK t1, t2, t3, t4 \in Int : t1 = two * x /\ t2 = two * z /\ t3 = i * e1 /\ t4 = i * e2
    OBVIOUS
  <2>10. Same(t1, x) /\ Same(t2, z) /\ Same(t1, t3) /\ Same(t2, t4)
    BY <2>5, <2>6, <2>7, <2>9
  <2>11. Same(x, t1) /\ Same(z, t2)
    BY <2>10, SameBack
  <2>12. Same(x, t3) /\ Same(z, t4)
    BY <2>10, <2>11, SameThrough
  <2> QED
    BY <2>8, <2>9, <2>12
<1>7. PICK u, v \in Int : u = 1 + y /\ v = 1 - y
  OBVIOUS
<1>8. Is(X, w * u) /\ Is(Z, w * v)
  <2>1. w * u \in Int /\ w * v \in Int
    OBVIOUS
  <2> QED
    BY <1>1, <1>6, <1>7, <2>1 DEF Is, StandsU
<1>9. Is(FeAdd(1, q.y), u) /\ Is(FeSub(1, q.y), v)
  BY <1>1, <1>7, SumsOfY
<1> QED
  BY <1>4, <1>8, <1>9, QuotientSame DEF MontgomeryU

-----------------------------------------------------------------------------
(* The rounds of the ladder. *)
LadderStates == [x2 : Residues, z2 : Residues, x3 : Residues, z3 : Residues, swap : {0, 1}]

(* The field operations stay in the field.                                 *)
LEMMA FieldOps ==
    ASSUME NEW f \in Residues, NEW g \in Residues
    PROVE  FeAdd(f, g) \in Residues /\ FeSub(f, g) \in Residues /\ FeMul(f, g) \in Residues /\ FeSq(f) \in Residues
<1>1. Is(f, f) /\ Is(g, g)
  BY IsItself
<1>2. /\ Is(FeAdd(f, g), f + g) /\ Is(FeSub(f, g), f - g) /\ Is(FeMul(f, g), f * g) /\ Is(FeSq(f), f * f)
  BY <1>1, OpsAre
<1> QED
  BY <1>2 DEF Is

LEMMA LadderFields ==
    ASSUME NEW X \in Residues, NEW Z \in Residues, NEW U \in Residues, NEW V \in Residues, NEW x1 \in Residues
    PROVE  /\ DoubleX(X, Z) \in Residues /\ DoubleZ(X, Z) \in Residues
           /\ SumX(X, Z, U, V) \in Residues /\ SumZ(X, Z, U, V, x1) \in Residues
<1>1. PICK aa, bb \in Residues : aa = FeSq(FeAdd(X, Z)) /\ bb = FeSq(FeSub(X, Z))
  BY FieldOps
<1>2. PICK e \in Residues : e = FeSub(aa, bb)
  BY FieldOps
<1>3. FeMul(C121666, e) \in Residues
  BY MontgomeryIs, FieldOps
<1>4. DoubleX(X, Z) \in Residues /\ DoubleZ(X, Z) \in Residues
  <2>1. DoubleX(X, Z) = FeMul(aa, bb) /\ DoubleZ(X, Z) = FeMul(e, FeAdd(bb, FeMul(C121666, e)))
    BY <1>1, <1>2 DEF DoubleX, DoubleZ
  <2>2. FeAdd(bb, FeMul(C121666, e)) \in Residues
    BY <1>1, <1>3, FieldOps
  <2> QED
    BY <1>1, <1>2, <2>1, <2>2, FieldOps
<1>5. PICK da, cb \in Residues : da = SumDA(X, Z, U, V) /\ cb = SumCB(X, Z, U, V)
  BY FieldOps DEF SumDA, SumCB
<1>6. FeAdd(da, cb) \in Residues /\ FeSq(FeSub(da, cb)) \in Residues
  BY FieldOps
<1> QED
  BY <1>4, <1>5, <1>6, FieldOps DEF SumX, SumZ

LEMMA StateParts ==
    ASSUME NEW s \in LadderStates
    PROVE  /\ s.x2 \in Residues /\ s.z2 \in Residues /\ s.x3 \in Residues /\ s.z3 \in Residues
           /\ s.swap \in {0, 1}
BY DEF LadderStates

(* One round, by its coordinates.                                          *)
LEMMA LadderStepIs ==
    ASSUME NEW s \in LadderStates, NEW x1 \in Residues, NEW q, q = LadderStep(s, x1)
    PROVE  /\ q \in LadderStates /\ q.swap = s.swap
           /\ q.x2 = DoubleX(s.x2, s.z2) /\ q.z2 = DoubleZ(s.x2, s.z2)
           /\ q.x3 = SumX(s.x2, s.z2, s.x3, s.z3) /\ q.z3 = SumZ(s.x2, s.z2, s.x3, s.z3, x1)
<1>1. PICK a, b, c, d \in Residues :
        /\ a = SumX(s.x2, s.z2, s.x3, s.z3) /\ b = SumZ(s.x2, s.z2, s.x3, s.z3, x1)
        /\ c = DoubleX(s.x2, s.z2) /\ d = DoubleZ(s.x2, s.z2)
  BY StateParts, LadderFields
<1>2. q = [s EXCEPT !.x3 = a, !.z3 = b, !.x2 = c, !.z2 = d]
  BY <1>1 DEF LadderStep, SumX, SumZ, SumDA, SumCB, DoubleX, DoubleZ
<1>3. q \in LadderStates /\ q.x3 = a /\ q.z3 = b /\ q.x2 = c /\ q.z2 = d /\ q.swap = s.swap
  <2>1. a \in Residues /\ b \in Residues /\ c \in Residues /\ d \in Residues
    BY <1>1
  <2> QED
    BY <1>2, <2>1 DEF LadderStates
<1> QED
  BY <1>1, <1>3

(* The exchange, as it is asked for by the bit of this round and the last. *)
Turned(s, b) == [FeCSwap(s, (s.swap + b) % 2) EXCEPT !.swap = b]
SwappedAs(q, s) == q.x2 = s.x3 /\ q.z2 = s.z3 /\ q.x3 = s.x2 /\ q.z3 = s.z2
KeptAs(q, s) == q.x2 = s.x2 /\ q.z2 = s.z2 /\ q.x3 = s.x3 /\ q.z3 = s.z3

(* fe_cswap.                                                               *)
LEMMA SwapIs ==
    ASSUME NEW s \in LadderStates, NEW flag \in {0, 1}, NEW q, q = FeCSwap(s, flag)
    PROVE  /\ q \in LadderStates /\ q.swap = s.swap
           /\ flag = 1 => SwappedAs(q, s)
           /\ flag = 0 => KeptAs(q, s)
<1>1. CASE flag = 0
  <2>1. q = s
    BY <1>1 DEF FeCSwap
  <2> QED
    BY <1>1, <2>1 DEF KeptAs
<1>2. CASE flag = 1
  <2>1. PICK a, b, c, d \in Residues : a = s.x2 /\ b = s.z2 /\ c = s.x3 /\ d = s.z3
    BY StateParts
  <2>2. q = [s EXCEPT !.x2 = c, !.z2 = d, !.x3 = a, !.z3 = b]
    BY <1>2, <2>1 DEF FeCSwap
  <2>3. q \in LadderStates /\ q.x2 = c /\ q.z2 = d /\ q.x3 = a /\ q.z3 = b /\ q.swap = s.swap
    BY <2>2 DEF LadderStates
  <2> QED
    BY <1>2, <2>1, <2>3 DEF SwappedAs
<1> QED
  BY <1>1, <1>2

(* The swap at the start of a round, which depends on two bits.            *)
LEMMA TurnedIs ==
    ASSUME NEW s \in LadderStates, NEW b \in {0, 1}, NEW q, q = Turned(s, b)
    PROVE  /\ q \in LadderStates /\ q.swap = b
           /\ s.swap # b => SwappedAs(q, s)
           /\ s.swap = b => KeptAs(q, s)
<1>1. PICK flag \in {0, 1} : flag = (s.swap + b) % 2 /\ (flag = 0 <=> s.swap = b)
  <2>1. s.swap \in {0, 1}
    BY StateParts
  <2>2. (0 + 0) % 2 = 0 /\ (0 + 1) % 2 = 1 /\ (1 + 0) % 2 = 1 /\ (1 + 1) % 2 = 0
    OBVIOUS
  <2> QED
    BY <2>1, <2>2
<1>2. PICK m : m = FeCSwap(s, flag)
  OBVIOUS
<1>3. m \in LadderStates /\ (flag = 1 => SwappedAs(m, s)) /\ (flag = 0 => KeptAs(m, s))
  BY <1>2, SwapIs
<1>4. q = [m EXCEPT !.swap = b]
  BY <1>1, <1>2 DEF Turned
<1>5. q \in LadderStates /\ q.swap = b /\ q.x2 = m.x2 /\ q.z2 = m.z2 /\ q.x3 = m.x3 /\ q.z3 = m.z3
  BY <1>3, <1>4 DEF LadderStates
<1> QED
  BY <1>1, <1>3, <1>5 DEF SwappedAs, KeptAs

LadderBit(e, i) == Bit(e, ScalarBits - 2 - i)
LadderRound(e, x1, s, i) == LadderStep(Turned(s, LadderBit(e, i)), x1)

(* Bits of scalars: the index counts up while the bit counts down. *)
LEMMA LadderBitIs ==
    ASSUME NEW e \in Nat, NEW i \in Nat, i < ScalarBits - 1
    PROVE  /\ LadderBit(e, i) \in {0, 1}
           /\ Above(e, ScalarBits - 1 - i) \in Nat
           /\ Above(e, ScalarBits - 1 - (i + 1)) = 2 * Above(e, ScalarBits - 1 - i) + LadderBit(e, i)
<1>1. PICK k \in 0..ScalarBits - 1 : k = ScalarBits - 2 - i
  BY DigitsAre
<1>2. k + 1 = ScalarBits - 1 - i /\ k = ScalarBits - 1 - (i + 1)
  BY <1>1, DigitsAre
<1>3. Above(e, k + 1) \in Nat /\ Bit(e, k) \in {0, 1} /\ Above(e, k) = 2 * Above(e, k + 1) + Bit(e, k)
  BY BitIs
<1> QED
  BY <1>1, <1>2, <1>3 DEF LadderBit

LEMMA LadderRoundTyped ==
    ASSUME NEW e \in Nat, NEW x1 \in Residues, NEW i \in Nat, i < ScalarBits - 1, NEW s \in LadderStates
    PROVE  LadderRound(e, x1, s, i) \in LadderStates
<1>1. LadderBit(e, i) \in {0, 1}
  BY LadderBitIs
<1>2. Turned(s, LadderBit(e, i)) \in LadderStates
  BY <1>1, TurnedIs
<1> QED
  BY <1>2, LadderStepIs DEF LadderRound

-----------------------------------------------------------------------------
LadderStart(x1) == [x2 |-> 1, z2 |-> 0, x3 |-> x1, z3 |-> 1, swap |-> 0]
LadderRounds(e, x1) ==
    [s \in LadderStates \X Nat |-> IF s[2] < ScalarBits - 1 THEN LadderRound(e, x1, s[1], s[2]) ELSE s[1]]
LadderLast(e, x1) == Rounds(LAMBDA s, i : LadderRound(e, x1, s, i), LadderStart(x1), ScalarBits - 1)

LEMMA LadderStartIs ==
    ASSUME NEW x1 \in Residues, NEW s, s = LadderStart(x1)
    PROVE  s \in LadderStates /\ s.x2 = 1 /\ s.z2 = 0 /\ s.x3 = x1 /\ s.z3 = 1 /\ s.swap = 0
BY SmallNumbers DEF LadderStart, LadderStates

LEMMA LadderRoundsIs ==
    ASSUME NEW e \in Nat, NEW x1 \in Residues
    PROVE  IsStep(LadderRounds(e, x1), LadderStates)
<1>1. ASSUME NEW s \in LadderStates \X Nat
      PROVE  (IF s[2] < ScalarBits - 1 THEN LadderRound(e, x1, s[1], s[2]) ELSE s[1]) \in LadderStates
  <2>1. PICK x \in LadderStates, k \in Nat : s[1] = x /\ s[2] = k
    BY <1>1
  <2>2. k < ScalarBits - 1 => LadderRound(e, x1, x, k) \in LadderStates
    BY LadderRoundTyped
  <2> QED
    BY <2>1, <2>2
<1> QED
  BY <1>1 DEF LadderRounds, IsStep

(* The ladder is a run of rounds.                                          *)
LEMMA LadderIsRun ==
    ASSUME NEW e \in Nat, NEW x1 \in Residues
    PROVE  LadderLast(e, x1) = Run(LadderRounds(e, x1), LadderStart(x1), (ScalarBits - 1))
<1> DEFINE T == LadderStates
           h == LadderRounds(e, x1)
           z == LadderStart(x1)
           g == Runs(h, z, (ScalarBits - 1))
           Body(A) == [k \in 0..(ScalarBits - 1) |-> IF k = 0 THEN z ELSE LadderRound(e, x1, A[k - 1], k - 1)]
           F == CHOOSE A : A = Body(A)
<1>1. LadderLast(e, x1) = F[(ScalarBits - 1)]
  BY DEF LadderLast, Rounds, LadderRound, Turned, LadderBit, LadderStart
<1>2. (ScalarBits - 1) \in Nat /\ z \in T /\ h \in [T \X Nat -> T]
  <2>1. (ScalarBits - 1) \in Nat
    BY DigitsAre
  <2>2. z \in T
    BY LadderStartIs
  <2>3. IsStep(h, T)
    BY LadderRoundsIs
  <2> QED
    BY <2>1, <2>2, <2>3 DEF IsStep
<1>3. \A x \in T, j \in 1..(ScalarBits - 1) : h[<<x, j - 1>>] = LadderRound(e, x1, x, j - 1)
  <2>1. \A j \in 1..(ScalarBits - 1) : j - 1 \in Nat /\ j - 1 < ScalarBits - 1
    BY DigitsAre
  <2> QED
    BY <2>1 DEF LadderRounds
<1> HIDE DEF T, h, z
<1>4. IsRun(g, h, T, z, (ScalarBits - 1))
  BY <1>2, RunsIs
<1> HIDE DEF g
<1>5. g \in [0..(ScalarBits - 1) -> T] /\ g[0] = z /\ \A j \in 1..(ScalarBits - 1) : g[j] = h[<<g[j - 1], j - 1>>]
  BY <1>4 DEF IsRun
<1>6. g = Body(g)
  <2>1. ASSUME NEW j \in 0..(ScalarBits - 1) PROVE g[j] = IF j = 0 THEN z ELSE LadderRound(e, x1, g[j - 1], j - 1)
    <3>1. j # 0 => j \in 1..(ScalarBits - 1) /\ g[j - 1] \in T
      BY <1>2, <1>5
    <3> QED
      BY <1>3, <1>5, <3>1
  <2>2. DOMAIN g = 0..(ScalarBits - 1) /\ g = [j \in DOMAIN g |-> g[j]]
    BY <1>5
  <2> QED
    BY <2>1, <2>2
<1>7. F = Body(F)
  <2> HIDE DEF Body
  <2> QED
    BY <1>6
<1> HIDE DEF F
<1>8. \A j \in 0..(ScalarBits - 1) : F[j] = IF j = 0 THEN z ELSE LadderRound(e, x1, F[j - 1], j - 1)
  BY <1>7
<1>9. Obeys(F, h, T, z, (ScalarBits - 1))
  <2>1. 0 \in 0..(ScalarBits - 1) /\ \A j \in 1..(ScalarBits - 1) : j \in 0..(ScalarBits - 1) /\ j # 0
    BY <1>2
  <2>2. F[0] = z
    BY <1>8, <2>1
  <2>3. ASSUME NEW j \in 1..(ScalarBits - 1), F[j - 1] \in T PROVE F[j] = h[<<F[j - 1], j - 1>>]
    <3>1. F[j] = LadderRound(e, x1, F[j - 1], j - 1)
      BY <1>8, <2>1
    <3> QED
      BY <1>3, <2>3, <3>1
  <2> QED
    BY <2>2, <2>3 DEF Obeys
<1>10. Agree(F, Runs(h, z, (ScalarBits - 1)), T, (ScalarBits - 1))
  <2>1. (ScalarBits - 1) \in Nat /\ z \in T /\ IsStep(h, T)
    BY <1>2 DEF IsStep
  <2> QED
    BY <1>9, <2>1, RunSame
<1>11. F[(ScalarBits - 1)] = g[(ScalarBits - 1)]
  BY <1>2, <1>10 DEF Agree, g
<1> QED
  BY <1>1, <1>11 DEF Run, g, h, z

(* The ladder is what the last round left, exchanged once more. *)
LEMMA LadderAs ==
    ASSUME NEW e, NEW x1, NEW s, s = LadderLast(e, x1), NEW q, q = FeCSwap(s, s.swap)
    PROVE  Ladder(e, x1) = FeMul(q.x2, FeInvert(q.z2))
BY DEF Ladder, LadderLast, LadderStart, LadderRound, Turned, LadderBit

(* Rounds, one at a time. *)
LEMMA LadderTurns ==
    ASSUME NEW e \in Nat, NEW x1 \in Residues, NEW i \in Nat, i < ScalarBits - 1,
           NEW s, s = Run(LadderRounds(e, x1), LadderStart(x1), i)
    PROVE  /\ s \in LadderStates
           /\ Run(LadderRounds(e, x1), LadderStart(x1), i + 1) = LadderRound(e, x1, s, i)
<1>1. PICK h, z : h = LadderRounds(e, x1) /\ z = LadderStart(x1) /\ IsStep(h, LadderStates) /\ z \in LadderStates
  BY LadderRoundsIs, LadderStartIs
<1>2. Turns(h, z, i, LadderStates)
  BY <1>1, RunIs
<1>3. s \in LadderStates /\ Run(h, z, i + 1) = h[<<s, i>>]
  BY <1>1, <1>2 DEF Turns
<1>4. h[<<s, i>>] = LadderRound(e, x1, s, i)
  <2>1. <<s, i>> \in LadderStates \X Nat /\ <<s, i>>[1] = s /\ <<s, i>>[2] = i
    BY <1>3
  <2> QED
    BY <1>1, <2>1 DEF LadderRounds
<1> QED
  BY <1>1, <1>3, <1>4

-----------------------------------------------------------------------------
(* What the ladder holds: two multiples that follow one another, the       *)
(* exchange that is asked for next taken into account.                     *)
AtPair(X, Z, U, V, p, m) == StandsU(X, Z, Multiples(p, m)) /\ StandsU(U, V, Multiples(p, m + 1))
LadderAt(s, p, m) ==
    /\ s.swap = 0 => AtPair(s.x2, s.z2, s.x3, s.z3, p, m)
    /\ s.swap = 1 => AtPair(s.x3, s.z3, s.x2, s.z2, p, m)

(* The difference of the two is p or its negation. *)
Neighbours(p, a, b) ==
    a \in Curve /\ b \in Curve /\ AddAffine(b, NegOf(a)).y = p.y /\ AddAffine(a, NegOf(b)).y = p.y

(* The difference of two neighbours is the point itself, or its negative.  *)
LEMMA NextDiffers ==
    ASSUME NEW p \in Curve, NEW m \in Nat
    PROVE  Neighbours(p, Multiples(p, m), Multiples(p, m + 1))
<1>0. PICK a, b : a = Multiples(p, m) /\ b = Multiples(p, m + 1)
  OBVIOUS
<1>1. m + 1 \in Nat
  OBVIOUS
<1>2. a \in Curve /\ b \in Curve /\ b = AddAffine(a, p)
  BY <1>0, <1>1, MultiplesIs
<1>3. b = AddAffine(p, a)
  BY <1>2, AddCommutes
<1>4. NegOf(a) \in Curve /\ AddAffine(a, NegOf(a)) = Origin /\ NegOf(b) \in Curve /\ AddAffine(b, NegOf(b)) = Origin
  BY <1>2, NegIs
<1>5. AddAffine(b, NegOf(a)) = p
  <2>1. AddAffine(AddAffine(p, a), NegOf(a)) = AddAffine(p, AddAffine(a, NegOf(a)))
    BY <1>2, <1>4, AddAssoc
  <2>2. AddAffine(p, Origin) = p
    BY AddNothing
  <2> QED
    BY <1>3, <1>4, <2>1, <2>2
<1>6. AddAffine(a, NegOf(b)) = NegOf(p)
  <2>1. AddAffine(AddAffine(p, a), NegOf(b)) = AddAffine(p, AddAffine(a, NegOf(b))) /\ AddAffine(a, NegOf(b)) \in Curve
    BY <1>2, <1>4, AddAssoc
  <2>2. AddAffine(p, AddAffine(a, NegOf(b))) = Origin
    BY <1>3, <1>4, <2>1
  <2> QED
    BY <2>1, <2>2, NegUnique
<1>7. NegOf(p).y = p.y
  BY NegOfIs
<1> QED
  BY <1>0, <1>2, <1>5, <1>6, <1>7 DEF Neighbours

LEMMA TurnedAt ==
    ASSUME NEW s \in LadderStates, NEW p, NEW m, LadderAt(s, p, m), NEW b \in {0, 1}, NEW t, t = Turned(s, b)
    PROVE  t \in LadderStates /\ t.swap = b /\ LadderAt(t, p, m)
<1>1. t \in LadderStates /\ t.swap = b /\ (s.swap # b => SwappedAs(t, s)) /\ (s.swap = b => KeptAs(t, s))
  BY TurnedIs
<1>2. s.swap \in {0, 1}
  BY StateParts
<1>3. CASE s.swap = b
  BY <1>1, <1>3 DEF LadderAt, KeptAs
<1>4. CASE s.swap # b
  BY <1>1, <1>2, <1>4 DEF LadderAt, SwappedAs
<1> QED
  BY <1>1, <1>3, <1>4

(* A round takes m and m + 1 to 2m + b and 2m + b + 1.                     *)
LEMMA LadderRoundIs ==
    ASSUME NEW p \in Curve, NEW x1 \in Residues, ~Zero(x1), Same(x1 * (1 - p.y), 1 + p.y),
           NEW s \in LadderStates, NEW m \in Nat, LadderAt(s, p, m), NEW b \in {0, 1},
           NEW q, q = LadderStep(Turned(s, b), x1)
    PROVE  q \in LadderStates /\ LadderAt(q, p, 2 * m + b)
<1>1. PICK t : t = Turned(s, b) /\ t \in LadderStates /\ t.swap = b /\ LadderAt(t, p, m)
  BY TurnedAt
<1>2. /\ q \in LadderStates /\ q.swap = b
      /\ q.x2 = DoubleX(t.x2, t.z2) /\ q.z2 = DoubleZ(t.x2, t.z2)
      /\ q.x3 = SumX(t.x2, t.z2, t.x3, t.z3) /\ q.z3 = SumZ(t.x2, t.z2, t.x3, t.z3, x1)
  BY <1>1, LadderStepIs
<1>3. PICK M, N : M = Multiples(p, m) /\ N = Multiples(p, m + 1)
  OBVIOUS
<1>4. M \in Curve /\ N \in Curve /\ AddAffine(N, NegOf(M)).y = p.y /\ AddAffine(M, NegOf(N)).y = p.y
  BY <1>3, NextDiffers DEF Neighbours
<1>5. /\ AddAffine(M, M) = Multiples(p, 2 * m) /\ AddAffine(N, N) = Multiples(p, 2 * m + 2)
      /\ AddAffine(N, M) = Multiples(p, 2 * m + 1) /\ AddAffine(M, N) = Multiples(p, 2 * m + 1)
  <2>1. PICK n \in Nat : n = m + 1
    OBVIOUS
  <2>2. /\ Multiples(p, m + m) = AddAffine(M, M) /\ Multiples(p, n + n) = AddAffine(N, N)
        /\ Multiples(p, n + m) = AddAffine(N, M) /\ Multiples(p, m + n) = AddAffine(M, N)
    BY <1>3, <2>1, MultiplesAdd
  <2>3. m + m = 2 * m /\ n + n = 2 * m + 2 /\ n + m = 2 * m + 1 /\ m + n = 2 * m + 1
    BY <2>1
  <2> QED
    BY <2>2, <2>3
<1>6. CASE b = 0
  <2>1. StandsU(t.x2, t.z2, M) /\ StandsU(t.x3, t.z3, N)
    BY <1>1, <1>3, <1>6 DEF LadderAt, AtPair
  <2>2. StandsU(q.x2, q.z2, AddAffine(M, M))
    BY <1>2, <2>1, LadderDoubleIs
  <2>3. StandsU(q.x3, q.z3, AddAffine(N, M))
    <3>1. PICK y1 : y1 = AddAffine(N, NegOf(M)).y
      OBVIOUS
    <3>2. Same(x1 * (1 - y1), 1 + y1)
      BY <1>4, <3>1
    <3> QED
      BY <1>2, <2>1, <3>1, <3>2, LadderAddIs
  <2>4. AtPair(q.x2, q.z2, q.x3, q.z3, p, 2 * m)
    BY <1>5, <2>2, <2>3 DEF AtPair
  <2>5. q.swap = 0 /\ 2 * m + b = 2 * m
    BY <1>2, <1>6
  <2> QED
    BY <1>2, <2>4, <2>5 DEF LadderAt
<1>7. CASE b = 1
  <2>1. StandsU(t.x2, t.z2, N) /\ StandsU(t.x3, t.z3, M)
    BY <1>1, <1>3, <1>7 DEF LadderAt, AtPair
  <2>2. StandsU(q.x2, q.z2, AddAffine(N, N))
    BY <1>2, <2>1, LadderDoubleIs
  <2>3. StandsU(q.x3, q.z3, AddAffine(M, N))
    <3>1. PICK y1 : y1 = AddAffine(M, NegOf(N)).y
      OBVIOUS
    <3>2. Same(x1 * (1 - y1), 1 + y1)
      BY <1>4, <3>1
    <3> QED
      BY <1>2, <2>1, <3>1, <3>2, LadderAddIs
  <2>4. AtPair(q.x3, q.z3, q.x2, q.z2, p, 2 * m + 1)
    <3>1. (2 * m + 1) + 1 = 2 * m + 2
      OBVIOUS
    <3> QED
      BY <1>5, <2>2, <2>3, <3>1 DEF AtPair
  <2>5. q.swap = 1 /\ 2 * m + b = 2 * m + 1
    BY <1>2, <1>7
  <2> QED
    BY <1>2, <2>4, <2>5 DEF LadderAt
<1> QED
  BY <1>6, <1>7

-----------------------------------------------------------------------------
LEMMA InverseTyped == \A z \in Residues : FeInvert(z) \in Residues
BY InverseAssumption, SmallNumbers

LEMMA TimesNothing ==
    ASSUME NEW f \in Residues
    PROVE  FeMul(f, 0) = 0 /\ FeMul(0, f) = 0
<1>1. f \in Int
  BY ResidueIsInt
<1>2. f * 0 = 0 /\ 0 * f = 0
  BY <1>1
<1>3. 0 % Prime = 0
  BY SmallNumbers, ResidueRemainder
<1> QED
  BY <1>2, <1>3 DEF FeMul

(* u itself, if it is not 0. *)
LEMMA UIs ==
    ASSUME NEW p \in Curve, NEW x1, x1 = MontgomeryU(p), x1 # 0
    PROVE  x1 \in Residues /\ ~Zero(x1) /\ Same(x1 * (1 - p.y), 1 + p.y) /\ IsU(x1, 1, p.y)
<1>1. PICK x, y, u, v \in Int :
        x = x1 /\ y = p.y /\ u = 1 + y /\ v = 1 - y /\ Is(FeAdd(1, p.y), u) /\ Is(FeSub(1, p.y), v) /\ x1 \in Residues
  BY UIsResidue, ResidueIsInt, SumsOfY
<1>2. ~Zero(x)
  <2>1. Is(x1, x)
    BY <1>1, IsItself
  <2> QED
    BY <2>1, ZeroIs
<1>3. ~Zero(v)
  <2>1. SUFFICES ASSUME Zero(v) PROVE FALSE
    OBVIOUS
  <2>2. FeSub(1, p.y) = 0
    BY <1>1, <2>1, ZeroIs
  <2>3. FeInvert(FeSub(1, p.y)) = 0
    BY <2>2, InverseAssumption
  <2>4. FeAdd(1, p.y) \in Residues
    BY <1>1 DEF Is
  <2>5. x1 = 0
    BY <2>3, <2>4, TimesNothing DEF MontgomeryU
  <2> QED
    BY <2>5
<1>4. Same(x * v, u)
  <2>1. Same(FeMul(FeAdd(1, p.y), FeInvert(FeSub(1, p.y))) * v, u)
    BY <1>1, <1>3, QuotientIs
  <2> QED
    BY <1>1, <2>1 DEF MontgomeryU
<1>5. PICK xv, g \in Int : xv = x * v /\ g = xv - u
  OBVIOUS
<1>6. Zero(g)
  BY <1>4, <1>5, ZeroOfDifference
<1>7. ~Zero(x + 1)
  <2>1. (x + 1) * v = 2 + g
    <3>1. (x + 1) * v = x * v + v
      OBVIOUS
    <3> QED
      BY <1>1, <1>5, <3>1
  <2>2. ~Zero(2 + g)
    BY <1>6, NumbersDiffer, SumNonzero
  <2>3. x + 1 \in Int
    OBVIOUS
  <2> QED
    BY <2>1, <2>2, <2>3, ZeroTimes
<1>8. Same(x - 1, (x + 1) * y)
  <2>1. (x - 1) - (x + 1) * y = x * (1 - y) - (1 + y)
    OBVIOUS
  <2>2. (x - 1) - (x + 1) * y = g
    BY <1>1, <1>5, <2>1
  <2>3. x - 1 \in Int /\ (x + 1) * y \in Int
    OBVIOUS
  <2> QED
    BY <1>6, <2>2, <2>3, ZeroOfDifference
<1> QED
  BY <1>1, <1>2, <1>4, <1>7, <1>8 DEF IsU

LEMMA FirstMultiple == ASSUME NEW p \in Curve PROVE Multiples(p, 0) = Origin /\ Multiples(p, 0 + 1) = p
<1>1. 0 \in Nat /\ Multiples(p, 0) = Origin /\ Multiples(p, 0 + 1) = AddAffine(Multiples(p, 0), p)
  BY MultiplesIs
<1>2. AddAffine(p, Origin) = p /\ AddAffine(Origin, p) = AddAffine(p, Origin)
  BY OriginIs, AddNothing, AddCommutes
<1> QED
  BY <1>1, <1>2

LEMMA AboveEnds ==
    ASSUME NEW e, Short(e)
    PROVE  Above(e, ScalarBits - 1) = 0 /\ Above(e, 0) = e
<1>1. PICK t \in Nat : t = Two[ScalarBits - 1] /\ t > 0 /\ e < t /\ e \in Nat
  BY TopTwos DEF Short
<1>2. e \div t = 0
  <2>1. 0 \in Int /\ e \in 0..t - 1 /\ e \in Int /\ e = t * 0 + e
    BY <1>1
  <2> QED
    BY <1>1, <2>1, RemainderUnique
<1>3. e \div 1 = e
  <2>1. 1 \in Nat /\ 1 > 0 /\ e \in Int /\ 0 \in 0..1 - 1 /\ e = 1 * e + 0
    BY <1>1
  <2> QED
    BY <2>1, RemainderUnique
<1> QED
  BY <1>1, <1>2, <1>3, TwoIs DEF Above

LEMMA LadderStartsAt ==
    ASSUME NEW p \in Curve, NEW x1, x1 = MontgomeryU(p), x1 # 0
    PROVE  LadderStart(x1) \in LadderStates /\ LadderAt(LadderStart(x1), p, 0)
<1>1. x1 \in Residues /\ IsU(x1, 1, p.y)
  BY UIs
<1>2. PICK s : s = LadderStart(x1) /\ s \in LadderStates /\ s.x2 = 1 /\ s.z2 = 0 /\ s.x3 = x1 /\ s.z3 = 1 /\ s.swap = 0
  BY <1>1, LadderStartIs
<1>3. StandsU(1, 0, Origin)
  <2>1. 1 + 0 = 1 /\ 1 - 0 = 1 /\ (1 + 0) * 1 = 1
    OBVIOUS
  <2>2. Same(1, 1)
    BY SameItself
  <2>3. IsU(1, 0, Origin.y)
    BY <2>1, <2>2, NumbersDiffer, OriginIs DEF IsU
  <2> QED
    BY <2>3, OriginIs, SmallNumbers DEF StandsU
<1>4. StandsU(x1, 1, p)
  BY <1>1, SmallNumbers DEF StandsU
<1> QED
  BY <1>2, <1>3, <1>4, FirstMultiple DEF LadderAt, AtPair

(* After all rounds the two are e and e + 1.                               *)
LEMMA LadderRuns ==
    ASSUME NEW e, Short(e), NEW p \in Curve, NEW x1, x1 = MontgomeryU(p), x1 # 0, NEW s, s = LadderLast(e, x1)
    PROVE  s \in LadderStates /\ LadderAt(s, p, e)
<1>1. e \in Nat /\ x1 \in Residues /\ ~Zero(x1) /\ Same(x1 * (1 - p.y), 1 + p.y)
  BY UIs DEF Short
<1>2. PICK n \in Nat : n = ScalarBits - 1
  BY DigitsAre
<1> DEFINE R(i) == Run(LadderRounds(e, x1), LadderStart(x1), i)
           Good(i) == R(i) \in LadderStates /\ LadderAt(R(i), p, Above(e, n - i))
           S == {i \in Nat : i <= n => Good(i)}
<1>3. Good(0)
  <2>1. R(0) = LadderStart(x1)
    <3>1. LadderStart(x1) \in LadderStates /\ IsStep(LadderRounds(e, x1), LadderStates) /\ 0 \in Nat
      BY <1>1, LadderStartIs, LadderRoundsIs
    <3>2. Turns(LadderRounds(e, x1), LadderStart(x1), 0, LadderStates)
      BY <3>1, RunIs
    <3> QED
      BY <3>2 DEF Turns
  <2>2. Above(e, n - 0) = 0
    BY <1>2, AboveEnds
  <2> QED
    BY <2>1, <2>2, LadderStartsAt
<1>4. ASSUME NEW i \in Nat, i < n, Good(i) PROVE Good(i + 1)
  <2>1. PICK q : q = R(i) /\ q \in LadderStates /\ LadderAt(q, p, Above(e, n - i))
    BY <1>4
  <2>2. i < ScalarBits - 1
    BY <1>2, <1>4
  <2>3. R(i + 1) = LadderRound(e, x1, q, i)
    BY <1>1, <2>1, <2>2, LadderTurns
  <2>4. PICK b \in {0, 1}, m \in Nat : b = LadderBit(e, i) /\ m = Above(e, n - i) /\ Above(e, n - (i + 1)) = 2 * m + b
    <3>1. /\ LadderBit(e, i) \in {0, 1} /\ Above(e, ScalarBits - 1 - i) \in Nat
          /\ Above(e, ScalarBits - 1 - (i + 1)) = 2 * Above(e, ScalarBits - 1 - i) + LadderBit(e, i)
      BY <1>1, <2>2, LadderBitIs
    <3> QED
      BY <1>2, <3>1
  <2>5. PICK r : r = LadderStep(Turned(q, b), x1)
    OBVIOUS
  <2>6. r \in LadderStates /\ LadderAt(r, p, 2 * m + b)
    BY <1>1, <2>1, <2>4, <2>5, LadderRoundIs
  <2>7. R(i + 1) = r
    BY <2>3, <2>4, <2>5 DEF LadderRound
  <2> QED
    BY <2>4, <2>6, <2>7
<1>5. \A i \in Nat : i \in S
  <2> HIDE DEF Good
  <2>1. 0 \in S
    BY <1>3
  <2>2. ASSUME NEW i \in Nat, i \in S PROVE i + 1 \in S
    <3>1. i + 1 \in Nat /\ (i + 1 <= n => i < n /\ i <= n)
      BY <1>2
    <3> QED
      BY <1>4, <2>2, <3>1
  <2> HIDE DEF S
  <2> QED
    BY <2>1, <2>2, SetInduction
<1>6. Good(n)
  <2> HIDE DEF Good
  <2>1. n \in S /\ n <= n
    BY <1>2, <1>5
  <2> QED
    BY <2>1
<1>7. R(n) = s
  BY <1>1, <1>2, LadderIsRun
<1>8. Above(e, n - n) = e
  <2>1. n - n = 0
    BY <1>2
  <2> QED
    BY <2>1, AboveEnds
<1> QED
  BY <1>6, <1>7, <1>8

-----------------------------------------------------------------------------
(* The points with x = 0, whose u is 0 in the code: 1 / 0 is 0 there. *)
LEMMA FlatSquare == ASSUME NEW q \in Curve, q.x = 0 PROVE Same(q.y * q.y, 1)
<1>1. q.y \in Int /\ D \in Int /\ Same(q.y * q.y - q.x * q.x, 1 + D * ((q.x * q.x) * (q.y * q.y)))
  BY PointIs, ConstantsAre
<1>2. PICK y, d \in Int : y = q.y /\ d = D
  BY <1>1
<1>3. y * y - 0 * 0 = y * y /\ 1 + d * ((0 * 0) * (y * y)) = 1
  OBVIOUS
<1> QED
  BY <1>1, <1>2, <1>3

LEMMA FlatU == ASSUME NEW q \in Curve, q.x = 0 PROVE MontgomeryU(q) = 0
<1>1. PICK y, u, v \in Int :
        y = q.y /\ u = 1 + y /\ v = 1 - y /\ Is(FeAdd(1, q.y), u) /\ Is(FeSub(1, q.y), v)
  BY SumsOfY
<1>2. FeAdd(1, q.y) \in Residues /\ FeSub(1, q.y) \in Residues
  BY <1>1 DEF Is
<1>3. Zero(u) \/ Zero(v)
  <2>1. PICK c, g \in Int : c = y * y /\ g = c - 1
    OBVIOUS
  <2>2. Same(c, 1)
    BY <1>1, <2>1, FlatSquare
  <2>3. Zero(g)
    BY <2>1, <2>2, ZeroOfDifference
  <2>4. u * (-v) = g
    <3>1. (1 + y) * (-(1 - y)) = y * y - 1
      OBVIOUS
    <3> QED
      BY <1>1, <2>1, <3>1
  <2>5. PICK w \in Int : w = -v
    OBVIOUS
  <2>6. Zero(u) \/ Zero(w)
    BY <2>3, <2>4, <2>5, FactorZero
  <2>7. (-1) * w = v /\ -1 \in Int
    BY <2>5
  <2>8. Zero(w) => Zero(v)
    BY <2>7, ZeroTimes
  <2> QED
    BY <2>6, <2>8
<1>4. CASE Zero(u)
  <2>1. FeAdd(1, q.y) = 0
    BY <1>1, <1>4, ZeroIs
  <2>2. FeInvert(FeSub(1, q.y)) \in Residues
    BY <1>2, InverseTyped
  <2> QED
    BY <2>1, <2>2, TimesNothing DEF MontgomeryU
<1>5. CASE Zero(v)
  <2>1. FeSub(1, q.y) = 0
    BY <1>1, <1>5, ZeroIs
  <2>2. FeInvert(FeSub(1, q.y)) = 0
    BY <2>1, InverseAssumption
  <2> QED
    BY <1>2, <2>2, TimesNothing DEF MontgomeryU
<1> QED
  BY <1>3, <1>4, <1>5

(* There are no other points with this u. *)
LEMMA UZeroIsFlat == ASSUME NEW q \in Curve, MontgomeryU(q) = 0 PROVE q.x = 0
<1>1. PICK x, y, u, v \in Int :
        x = q.x /\ y = q.y /\ u = 1 + y /\ v = 1 - y /\ Is(FeAdd(1, q.y), u) /\ Is(FeSub(1, q.y), v)
  BY SumsOfY, PointIs
<1>2. Zero(u * v)
  <2>1. CASE Zero(v)
    BY <2>1, ZeroTimes
  <2>2. CASE ~Zero(v)
    <3>1. Same(FeMul(FeAdd(1, q.y), FeInvert(FeSub(1, q.y))) * v, u)
      BY <1>1, <2>2, QuotientIs
    <3>2. Same(0 * v, u) /\ 0 * v = 0 /\ 0 \in Int
      BY <3>1 DEF MontgomeryU
    <3>3. Same(u, 0)
      BY <3>2, SameBack
    <3>4. Zero(u)
      BY <3>3 DEF Zero
    <3> QED
      BY <3>4, ZeroTimes
  <2> QED
    BY <2>1, <2>2
<1>3. PICK w, c, xx \in Int : w = (y * y) * D + 1 /\ xx = x * x /\ c = xx * w
  BY ConstantsAre
<1>4. ~Zero(w) /\ Same(y * y - 1, c)
  <2>1. Same(y * y - x * x, 1 + D * ((x * x) * (y * y)))
    BY <1>1, PointIs
  <2>2. ~Zero(w) /\ Same(y * y - 1, (x * x) * w)
    BY <1>3, <2>1, DenominatorIs
  <2> QED
    BY <1>3, <2>2
<1>5. Zero(c)
  <2>1. PICK g, h \in Int : g = y * y - 1 /\ h = u * v
    OBVIOUS
  <2>2. g = (-1) * h
    <3>1. y * y - 1 = (-1) * ((1 + y) * (1 - y))
      OBVIOUS
    <3> QED
      BY <1>1, <2>1, <3>1
  <2>3. Zero(h) /\ -1 \in Int
    BY <1>2, <2>1
  <2>4. Zero(g)
    BY <2>2, <2>3, ZeroTimes
  <2>5. Same(g, c)
    BY <1>4, <2>1
  <2> QED
    BY <2>4, <2>5, ZeroSame
<1>6. Zero(x)
  <2>1. Zero(xx) \/ Zero(w)
    BY <1>3, <1>5, FactorZero
  <2>2. Zero(x * x)
    BY <1>3, <1>4, <2>1
  <2> QED
    BY <2>2, FactorZero
<1>7. Is(q.x, x)
  BY <1>1, PointIs, IsItself
<1> QED
  BY <1>6, <1>7, ZeroIs

LEMMA FlatAdds == ASSUME NEW p \in Curve, NEW q \in Curve, p.x = 0, q.x = 0 PROVE AddAffine(p, q).x = 0
<1>1. PICK py, qy, d \in Int : py = p.y /\ qy = q.y /\ d = D
  BY PointIs, ConstantsAre
<1>2. d * ((0 * qy) * (0 * py)) = 0 /\ 0 * qy + 0 * py = 0 /\ 0 \in Int
  OBVIOUS
<1>3. 0 = D * ((p.x * q.y) * (q.x * p.y)) /\ p.x * q.y + q.x * p.y = 0
  BY <1>1, <1>2
<1>4. AddAffine(p, q) \in Curve /\ Same(AddAffine(p, q).x * (1 + 0), p.x * q.y + q.x * p.y)
  BY <1>2, <1>3, AddAffineIs
<1>5. PICK x \in Int : x = AddAffine(p, q).x /\ Is(AddAffine(p, q).x, x)
  BY <1>4, PointIs, IsItself
<1>6. x * (1 + 0) = x
  OBVIOUS
<1>7. Zero(x)
  BY <1>3, <1>4, <1>5, <1>6 DEF Zero
<1> QED
  BY <1>5, <1>7, ZeroIs

LEMMA FlatMultiples == ASSUME NEW p \in Curve, p.x = 0, NEW n \in Nat PROVE Multiples(p, n).x = 0
<1> DEFINE S == {k \in Nat : Multiples(p, k).x = 0}
<1>1. 0 \in S
  BY MultiplesIs, OriginIs
<1>2. \A k \in Nat : k \in S => k + 1 \in S
  <2>1. ASSUME NEW k \in Nat, k \in S PROVE k + 1 \in S
    <3>1. Multiples(p, k) \in Curve /\ Multiples(p, k + 1) = AddAffine(Multiples(p, k), p)
      BY MultiplesIs
    <3>2. Multiples(p, k + 1).x = 0
      BY <2>1, <3>1, FlatAdds
    <3> QED
      BY <3>2
  <2> QED
    BY <2>1
<1>3. n \in S
  <2> HIDE DEF S
  <2> QED
    BY <1>1, <1>2, SetInduction
<1> QED
  BY <1>3

-----------------------------------------------------------------------------
(* With x1 = 0 one of each pair stays 0, and so what comes out is. *)
Flat(X, Z) == X = 0 \/ Z = 0
BothFlat(s) == Flat(s.x2, s.z2) /\ Flat(s.x3, s.z3)

LEMMA FlatDoubles == ASSUME NEW X \in Residues, NEW Z \in Residues, Flat(X, Z) PROVE DoubleZ(X, Z) = 0
<1>1. PICK x, z \in Int : x = X /\ z = Z /\ Is(X, x) /\ Is(Z, z)
  BY ResidueIsInt, IsItself
<1>2. PICK aa, bb : aa = FeSq(FeAdd(X, Z)) /\ bb = FeSq(FeSub(X, Z))
  OBVIOUS
<1>3. Is(aa, (x + z) * (x + z)) /\ Is(bb, (x - z) * (x - z))
  <2>1. Is(FeAdd(X, Z), x + z) /\ Is(FeSub(X, Z), x - z)
    BY <1>1, OpsAre
  <2> QED
    BY <1>2, <2>1, OpsAre
<1>4. Is(FeSub(aa, bb), (x + z) * (x + z) - (x - z) * (x - z))
  BY <1>3, OpsAre
<1>5. (x + z) * (x + z) - (x - z) * (x - z) = 0
  <2>1. CASE x = 0
    <3>1. (0 + z) * (0 + z) - (0 - z) * (0 - z) = 0
      OBVIOUS
    <3> QED
      BY <2>1, <3>1
  <2>2. CASE z = 0
    <3>1. (x + 0) * (x + 0) - (x - 0) * (x - 0) = 0
      OBVIOUS
    <3> QED
      BY <2>2, <3>1
  <2> QED
    BY <1>1, <2>1, <2>2 DEF Flat
<1>6. FeSub(aa, bb) = 0
  <2>1. Is(FeSub(aa, bb), 0) /\ Zero(0)
    <3>1. 0 \in Int
      OBVIOUS
    <3> QED
      BY <1>4, <1>5, <3>1, SameItself DEF Zero
  <2> QED
    BY <2>1, ZeroIs
<1>7. FeAdd(bb, FeMul(C121666, 0)) \in Residues
  BY <1>3, MontgomeryIs, SmallNumbers, FieldOps DEF Is
<1> QED
  BY <1>2, <1>6, <1>7, TimesNothing DEF DoubleZ

(* From u = 0 one coordinate of each pair stays 0.                         *)
LEMMA FlatRound ==
    ASSUME NEW s \in LadderStates, BothFlat(s), NEW b \in {0, 1}, NEW q, q = LadderStep(Turned(s, b), 0)
    PROVE  q \in LadderStates /\ BothFlat(q)
<1>1. PICK t : t = Turned(s, b)
  OBVIOUS
<1>2. t \in LadderStates /\ (s.swap # b => SwappedAs(t, s)) /\ (s.swap = b => KeptAs(t, s))
  BY <1>1, TurnedIs
<1>3. Flat(t.x2, t.z2)
  BY <1>2 DEF BothFlat, SwappedAs, KeptAs
<1>4. /\ q \in LadderStates /\ q.z2 = DoubleZ(t.x2, t.z2)
      /\ q.z3 = SumZ(t.x2, t.z2, t.x3, t.z3, 0)
  BY <1>1, <1>2, SmallNumbers, LadderStepIs
<1>5. q.z2 = 0
  BY <1>2, <1>3, <1>4, StateParts, FlatDoubles
<1>6. q.z3 = 0
  <2>1. PICK da, cb \in Residues :
          da = SumDA(t.x2, t.z2, t.x3, t.z3) /\ cb = SumCB(t.x2, t.z2, t.x3, t.z3)
    BY <1>2, StateParts, FieldOps DEF SumDA, SumCB
  <2>2. FeSub(da, cb) \in Residues
    BY <2>1, FieldOps
  <2>3. FeSq(FeSub(da, cb)) \in Residues
    BY <2>2, FieldOps
  <2> QED
    BY <1>4, <2>1, <2>3, TimesNothing DEF SumZ
<1> QED
  BY <1>4, <1>5, <1>6 DEF BothFlat, Flat

LEMMA FlatRuns ==
    ASSUME NEW e \in Nat, NEW s, s = LadderLast(e, 0)
    PROVE  s \in LadderStates /\ BothFlat(s)
<1>1. 0 \in Residues
  BY SmallNumbers
<1>2. PICK n \in Nat : n = ScalarBits - 1
  BY DigitsAre
<1> DEFINE R(i) == Run(LadderRounds(e, 0), LadderStart(0), i)
           Good(i) == R(i) \in LadderStates /\ BothFlat(R(i))
           S == {i \in Nat : i <= n => Good(i)}
<1>3. Good(0)
  <2>1. PICK z : z = LadderStart(0) /\ z \in LadderStates /\ BothFlat(z)
    BY <1>1, LadderStartIs DEF BothFlat, Flat
  <2>2. IsStep(LadderRounds(e, 0), LadderStates) /\ 0 \in Nat
    BY <1>1, LadderRoundsIs
  <2>3. Turns(LadderRounds(e, 0), LadderStart(0), 0, LadderStates)
    BY <2>1, <2>2, RunIs
  <2>4. R(0) = z
    BY <2>1, <2>3 DEF Turns
  <2> QED
    BY <2>1, <2>4
<1>4. ASSUME NEW i \in Nat, i < n, Good(i) PROVE Good(i + 1)
  <2>1. PICK q : q = R(i) /\ q \in LadderStates /\ BothFlat(q)
    BY <1>4
  <2>2. i < ScalarBits - 1
    BY <1>2, <1>4
  <2>3. R(i + 1) = LadderRound(e, 0, q, i)
    BY <1>1, <2>1, <2>2, LadderTurns
  <2>4. LadderBit(e, i) \in {0, 1}
    BY <2>2, LadderBitIs
  <2>5. PICK r : r = LadderStep(Turned(q, LadderBit(e, i)), 0)
    OBVIOUS
  <2>6. r \in LadderStates /\ BothFlat(r)
    BY <2>1, <2>4, <2>5, FlatRound
  <2>7. R(i + 1) = r
    BY <2>3, <2>5 DEF LadderRound
  <2> QED
    BY <2>6, <2>7
<1>5. \A i \in Nat : i \in S
  <2> HIDE DEF Good
  <2>1. 0 \in S
    BY <1>3
  <2>2. ASSUME NEW i \in Nat, i \in S PROVE i + 1 \in S
    <3>1. i + 1 \in Nat /\ (i + 1 <= n => i < n /\ i <= n)
      BY <1>2
    <3> QED
      BY <1>4, <2>2, <3>1
  <2> HIDE DEF S
  <2> QED
    BY <2>1, <2>2, SetInduction
<1>6. Good(n)
  <2> HIDE DEF Good
  <2>1. n \in S /\ n <= n
    BY <1>2, <1>5
  <2> QED
    BY <2>1
<1>7. R(n) = s
  BY <1>1, <1>2, LadderIsRun
<1> QED
  BY <1>6, <1>7

(* The ladder multiplies. *)
LEMMA LadderIs ==
    ASSUME NEW e, Short(e), NEW p \in Curve
    PROVE  Ladder(e, MontgomeryU(p)) = MontgomeryU(Multiples(p, e))
<1>1. PICK x1 \in Residues : x1 = MontgomeryU(p)
  BY UIsResidue
<1>2. PICK s : s = LadderLast(e, x1)
  OBVIOUS
<1>3. PICK q : q = FeCSwap(s, s.swap)
  OBVIOUS
<1>4. Ladder(e, x1) = FeMul(q.x2, FeInvert(q.z2))
  BY <1>2, <1>3, LadderAs
<1>5. CASE x1 = 0
  <2>1. s \in LadderStates /\ BothFlat(s)
    BY <1>2, <1>5, FlatRuns DEF Short
  <2>2. s.swap \in {0, 1}
    BY <2>1, StateParts
  <2>3. q \in LadderStates /\ (s.swap = 1 => SwappedAs(q, s)) /\ (s.swap = 0 => KeptAs(q, s))
    BY <1>3, <2>1, <2>2, SwapIs
  <2>4. Flat(q.x2, q.z2)
    BY <2>1, <2>2, <2>3 DEF BothFlat, SwappedAs, KeptAs
  <2>5. q.x2 \in Residues /\ FeInvert(q.z2) \in Residues
    BY <2>3, StateParts, InverseTyped
  <2>6. FeMul(q.x2, FeInvert(q.z2)) = 0
    <3>1. CASE q.x2 = 0
      BY <2>5, <3>1, TimesNothing
    <3>2. CASE q.z2 = 0
      BY <2>5, <3>2, InverseAssumption, TimesNothing
    <3> QED
      BY <2>4, <3>1, <3>2 DEF Flat
  <2>7. Multiples(p, e) \in Curve /\ Multiples(p, e).x = 0
    <3>1. e \in Nat /\ p.x = 0
      BY <1>1, <1>5, UZeroIsFlat DEF Short
    <3> QED
      BY <3>1, MultiplesIs, FlatMultiples
  <2>8. MontgomeryU(Multiples(p, e)) = 0
    BY <2>7, FlatU
  <2> QED
    BY <1>1, <1>4, <2>6, <2>8
<1>6. CASE x1 # 0
  <2>1. s \in LadderStates /\ LadderAt(s, p, e)
    BY <1>1, <1>2, <1>6, LadderRuns
  <2>2. s.swap \in {0, 1}
    BY <2>1, StateParts
  <2>3. q \in LadderStates /\ (s.swap = 1 => SwappedAs(q, s)) /\ (s.swap = 0 => KeptAs(q, s))
    BY <1>3, <2>1, <2>2, SwapIs
  <2>4. StandsU(q.x2, q.z2, Multiples(p, e))
    BY <2>1, <2>2, <2>3 DEF LadderAt, AtPair, SwappedAs, KeptAs
  <2>5. FeMul(q.x2, FeInvert(q.z2)) = MontgomeryU(Multiples(p, e))
    BY <2>4, LadderQuotient
  <2> QED
    BY <1>1, <1>4, <2>5
<1> QED
  BY <1>5, <1>6

-----------------------------------------------------------------------------
(* Keys are multiples of the base point, by their u.                       *)
LEMMA PublicU ==
    ASSUME NEW private \in Nat
    PROVE  PublicFromPrivate(private) = MontgomeryU(G(Clamp(private)))
<1>1. PICK c : c = Clamp(private) /\ Short(c)
  BY ClampIsShort
<1>2. PICK A : A = GeScalarMultBase(c) /\ StandsP3(A, G(c))
  BY <1>1, ScalarMultBaseIs
<1>3. PICK a \in Curve : a = G(c)
  BY <1>2 DEF StandsP3
<1>4. A \in P3s /\ ~Zero(A.Z) /\ Same(A.Y, a.y * A.Z)
  BY <1>2, <1>3 DEF StandsP3
<1>5. PICK y, m, z \in Int : y = a.y /\ m = A.Z /\ z = A.Y
  BY <1>3, <1>4, P3Parts, SumsOfY
<1>6. Same(y * m, z)
  <2>1. y * m \in Int /\ Same(z, y * m)
    BY <1>4, <1>5
  <2> QED
    BY <1>5, <2>1, SameBack
<1>7. Same(m * (1 + y), m + z) /\ Same(m * (1 - y), m - z)
  BY <1>5, <1>6, TimesOnePlus
<1>8. PICK p, q \in Int : p = 1 + y /\ q = 1 - y
  BY <1>5
<1>9. Is(FeAdd(A.Z, A.Y), m * p) /\ Is(FeSub(A.Z, A.Y), m * q)
  <2>1. Is(A.Z, m) /\ Is(A.Y, z)
    BY <1>4, <1>5, P3Parts, IsItself
  <2>2. Is(FeAdd(A.Z, A.Y), m + z) /\ Is(FeSub(A.Z, A.Y), m - z)
    BY <2>1, OpsAre
  <2>3. PICK s, d \in Int : s = m + z /\ d = m - z
    BY <1>5
  <2>6. PICK k, l \in Int : k = m * p /\ l = m * q
    BY <1>5, <1>8
  <2>4. Same(k, s) /\ Same(l, d)
    BY <1>7, <1>8, <2>3, <2>6
  <2>5. Same(s, k) /\ Same(d, l)
    BY <2>3, <2>4, <2>6, SameBack
  <2> QED
    BY <2>2, <2>3, <2>5, <2>6, IsThrough
<1>10. Is(FeAdd(1, a.y), p) /\ Is(FeSub(1, a.y), q)
  BY <1>3, <1>5, <1>8, SumsOfY
<1>11. FeMul(FeAdd(A.Z, A.Y), FeInvert(FeSub(A.Z, A.Y))) = FeMul(FeAdd(1, a.y), FeInvert(FeSub(1, a.y)))
  <2>1. ~Zero(m)
    BY <1>4, <1>5
  <2> QED
    BY <1>5, <1>8, <1>9, <1>10, <2>1, QuotientSame
<1>12. PublicFromPrivate(private) = FeMul(FeAdd(A.Z, A.Y), FeInvert(FeSub(A.Z, A.Y)))
  BY <1>1, <1>2 DEF PublicFromPrivate
<1>13. MontgomeryU(a) = FeMul(FeAdd(1, a.y), FeInvert(FeSub(1, a.y)))
  BY DEF MontgomeryU
<1> QED
  BY <1>1, <1>3, <1>11, <1>12, <1>13

(* X25519 with the key of another. *)
LEMMA GenericIs ==
    ASSUME NEW scalar \in Nat, NEW p \in Curve
    PROVE  ScalarMultGeneric(scalar, MontgomeryU(p)) = MontgomeryU(Multiples(p, Clamp(scalar)))
<1>1. PICK u \in Residues : u = MontgomeryU(p)
  BY UIsResidue
<1>2. u % Prime = u
  BY <1>1, ResidueRemainder
<1>3. PICK c : c = Clamp(scalar) /\ Short(c)
  BY ClampIsShort
<1>4. ScalarMultGeneric(scalar, u) = Ladder(c, u)
  BY <1>2, <1>3 DEF ScalarMultGeneric
<1> QED
  BY <1>1, <1>3, <1>4, LadderIs

(* ed25519_key_exchange, which takes the y of an Ed25519 key to its u. *)
LEMMA ExchangeIs ==
    ASSUME NEW p \in Curve, NEW private \in Nat
    PROVE  KeyExchange(EncodeAffine(p), private) = MontgomeryU(Multiples(p, Clamp(private)))
<1>1. PICK y \in Residues : y = p.y
  BY PointIs
<1>2. y % Prime = y /\ y \in Int
  BY <1>1, ResidueRemainder, ResidueIsInt
<1>3. EncodeAffine(p).y = y
  BY <1>1 DEF EncodeAffine, Encoding
<1>4. PICK c : c = Clamp(private) /\ Short(c)
  BY ClampIsShort
<1>5. FeAdd(y, 1) = FeAdd(1, y)
  <2>1. y + 1 = 1 + y
    BY <1>2
  <2> QED
    BY <2>1, Zenon DEF FeAdd
<1>6. KeyExchange(EncodeAffine(p), private) = Ladder(c, FeMul(FeAdd(y, 1), FeInvert(FeSub(1, y))))
  BY <1>2, <1>3, <1>4 DEF KeyExchange
<1>7. MontgomeryU(p) = FeMul(FeAdd(1, y), FeInvert(FeSub(1, y)))
  BY <1>1 DEF MontgomeryU
<1>8. KeyExchange(EncodeAffine(p), private) = Ladder(c, MontgomeryU(p))
  BY <1>5, <1>6, <1>7
<1> QED
  BY <1>4, <1>8, LadderIs

(* A product of two keys, from either side. *)
LEMMA ProductIs ==
    ASSUME NEW a \in Nat, NEW b \in Nat
    PROVE  /\ Product(a, b) = MontgomeryU(Multiples(G(Clamp(b)), Clamp(a)))
           /\ Product(a, b) = MontgomeryU(Multiples(G(Clamp(a)), Clamp(b)))
<1>1. PICK c, d \in Nat : c = Clamp(a) /\ d = Clamp(b)
  BY ClampIsShort DEF Short
<1>2. PICK r \in Nat : r = d % L
  BY RemainderInNat
<1>3. PICK n, m, k \in Nat : n = c * r /\ m = c * d /\ k = r * c
  BY <1>1, <1>2
<1>4. Product(a, b) = MontgomeryU(Multiples(B, n % L))
  BY <1>1, <1>2, <1>3 DEF Product, Times
<1>5. Multiples(B, n % L) = Multiples(B, n)
  BY <1>3, GOfNat DEF G
<1>6. n = k
  BY <1>1, <1>2, <1>3
<1>7. Multiples(Multiples(B, r), c) = Multiples(B, k)
  BY <1>1, <1>2, <1>3, BaseIs, MultiplesTimes
<1>8. G(d) = Multiples(B, r) /\ G(d) = Multiples(B, d) /\ G(c) = Multiples(B, c)
  BY <1>1, <1>2, GOfNat DEF G
<1>9. Multiples(Multiples(B, c), d) = Multiples(B, m)
  BY <1>1, <1>3, BaseIs, MultiplesTimes
<1>10. Multiples(Multiples(B, d), c) = Multiples(B, m)
  <2>1. d * c = m
    BY <1>1, <1>3
  <2> QED
    BY <1>1, <2>1, BaseIs, MultiplesTimes
<1>11. Multiples(G(d), c) = Multiples(B, n % L)
  BY <1>5, <1>6, <1>7, <1>8
<1>12. Multiples(G(c), d) = Multiples(G(d), c)
  BY <1>8, <1>9, <1>10
<1>13. Product(a, b) = MontgomeryU(Multiples(G(d), c)) /\ Product(a, b) = MontgomeryU(Multiples(G(c), d))
  BY <1>4, <1>11, <1>12
<1> QED
  BY <1>1, <1>13

(* Clamping a clamped scalar leaves it. *)
LEMMA ClampTwice == ASSUME NEW e \in Nat PROVE Clamp(Clamp(e)) = Clamp(e)
<1>1. PICK t \in Nat : t = Two[ScalarBits - 2] /\ t > 0
  BY TopTwos
<1>2. PICK r \in Nat : r = e % t /\ r < t
  <2>1. e % t \in 0..t - 1
    BY <1>1, QuotientNat
  <2> QED
    BY <1>1, <2>1
<1>3. PICK q, s \in Nat : q = r \div 8 /\ s = r % 8 /\ r = 8 * q + s
  <2>1. r \div 8 \in Nat /\ r = 8 * (r \div 8) + (r % 8) /\ r % 8 \in 0..8 - 1
    BY QuotientNat
  <2>2. r % 8 \in Nat
    BY <2>1
  <2> QED
    BY <2>1, <2>2
<1>4. PICK c, o \in Nat : c = t + 8 * q /\ o = 8 * q
  BY <1>1, <1>3
<1>5. Clamp(e) = c
  BY <1>1, <1>2, <1>3, <1>4, Zenon DEF Clamp
<1>6. PICK one \in Int : one = 1
  OBVIOUS
<1>7. c % t = o
  <2>1. c = t * one + o /\ c \in Int /\ one \in Int
    BY <1>4, <1>6
  <2>2. o <= r
    BY <1>3, <1>4
  <2>3. o \in 0..t - 1
    BY <1>1, <1>2, <1>4, <2>2
  <2>4. t \in Nat /\ t > 0
    BY <1>1
  <2> QED
    BY <2>1, <2>3, <2>4, RemainderUnique
<1>8. o \div 8 = q
  <2>1. o \div 8 \in Nat /\ o = 8 * (o \div 8) + (o % 8) /\ o % 8 \in 0..8 - 1
    BY <1>4, QuotientNat
  <2>2. PICK x \in Nat, y \in 0..7 : x = o \div 8 /\ y = o % 8
    BY <2>1
  <2>3. o = 8 * x + y
    BY <2>1, <2>2
  <2>4. x = q
    BY <1>3, <1>4, <2>2, <2>3
  <2> QED
    BY <2>2, <2>4
<1>9. Clamp(c) = t + 8 * q
  BY <1>1, <1>7, <1>8, Zenon DEF Clamp
<1> QED
  BY <1>4, <1>5, <1>9

-----------------------------------------------------------------------------
(* What was signed is accepted: S B - h A = (h a + r) B - h (a B) = r B.   *)
SignedBy(n, a, h, r) == n = h * a + r

LEMMA SignedSum ==
    ASSUME NEW a \in Nat, NEW h \in Nat, NEW r \in Nat, NEW n \in Nat, SignedBy(n, a, h, r),
           NEW S, S = n % L
    PROVE  AddAffine(Times(B, S % L), NegAffine(Times(G(a), h))) = G(r)
<1>1. S \in Int
  BY RemainderInNat
<1>2. Times(B, S % L) = G(n)
  BY <1>1, GOfRemainder DEF Times, G
<1>3. PICK m \in Nat : m = a * h
  OBVIOUS
<1>4. Times(G(a), h) = G(m)
  <2>1. Multiples(Multiples(B, a), h) = Multiples(B, m)
    BY <1>3, BaseIs, MultiplesTimes
  <2> QED
    BY <1>3, <2>1, GOfNat DEF Times
<1>5. NegAffine(G(m)) = G(-m)
  <2>1. m \in Int
    OBVIOUS
  <2> QED
    BY <2>1, GOfNeg DEF NegAffine, NegOf
<1>6. n + (-m) = r
  <2>1. h * a = a * h
    OBVIOUS
  <2> QED
    BY <1>3, <2>1 DEF SignedBy
<1>7. G(n + (-m)) = AddAffine(G(n), G(-m))
  <2>1. n \in Int /\ -m \in Int
    OBVIOUS
  <2> QED
    BY <2>1, GAdds
<1> QED
  BY <1>2, <1>4, <1>5, <1>6, <1>7

(* A point is among those its encoding may stand for.                      *)
LEMMA EncodedDecodes ==
    ASSUME NEW p \in Curve
    PROVE  p \in Decoded(EncodeAffine(p))
<1>1. EncodeAffine(p) \in Encodings
  BY EncodingIs
<1>2. EncodeAffine(p).y = p.y /\ EncodeAffine(p).sign = FeIsNegative(p.x)
  BY DEF EncodeAffine, Encoding
<1>3. p.y % Prime = p.y
  BY PointIs, ResidueRemainder
<1>4. IsDecoded(p, EncodeAffine(p))
  BY <1>2, <1>3 DEF IsDecoded
<1> QED
  BY <1>1, <1>4, DecodedIs

(* A signature solves its equation.                                        *)
LEMMA SignedIsAccepted ==
    ASSUME HashesAreNumbers, NEW message, IsMessage(message), NEW pub \in Encodings,
           NEW priv, Short(priv.a), priv.prefix \in Nat, pub = EncodeAffine(G(priv.a))
    PROVE  Accepts(Sign(message, pub, priv), message, pub)
<1>1. PICK a \in Nat : a = priv.a
  BY DEF Short
<1>2. PICK r \in Nat : r = ScReduce(Sha512(<<priv.prefix>> \o message)) /\ Short(r)
  <2>1. <<priv.prefix>> \o message \in Seq(Nat)
    BY DEF IsMessage
  <2> QED
    BY <2>1, HashReduced
<1>3. PICK R \in Encodings : R = GeToBytes(GeScalarMultBase(r)) /\ R = EncodeAffine(G(r))
  <2>1. r \in Int
    OBVIOUS
  <2> QED
    BY <1>2, <2>1, PublicIs, GIsPoint, EncodingIs
<1>4. PICK h \in Nat : h = ScReduce(Sha512(Bytes(R) \o Bytes(pub) \o message))
  <2>1. Bytes(R) \o Bytes(pub) \o message \in Seq(Nat)
    BY BytesAre DEF IsMessage
  <2> QED
    BY <2>1, HashReduced
<1>5. PICK n \in Nat : n = h * a + r
  BY <1>1
<1>6. PICK S \in Nat : S = n % L /\ S < L
  BY RemainderInNat
<1>7. PICK sig : sig = Sign(message, pub, priv) /\ sig.R = R /\ sig.S = S
  <2>1. ScMulAdd(h, priv.a, r) = S
    BY <1>1, <1>5, <1>6 DEF ScMulAdd
  <2>2. Sign(message, pub, priv).R = R /\ Sign(message, pub, priv).S = ScMulAdd(h, priv.a, r)
    BY <1>2, <1>3, <1>4 DEF Sign
  <2> QED
    BY <2>1, <2>2
<1>8. S < Two[ScalarBits - 3]
  <2>1. PICK l \in Nat : l = L /\ l < Two[ScalarBits - 3]
    BY OrderAssumption
  <2>2. PICK t \in Nat : t = Two[ScalarBits - 3]
    BY TopTwos
  <2>3. S < t
    BY <1>6, <2>1, <2>2
  <2> QED
    BY <2>2, <2>3
<1>9. PICK A : A = G(a) /\ A \in Decoded(pub)
  <2>1. a \in Int
    OBVIOUS
  <2> QED
    BY <1>1, <2>1, GIsPoint, EncodedDecodes
<1>10. SignedBy(n, a, h, r)
  BY <1>5 DEF SignedBy
<1>11. AddAffine(Times(B, S % L), NegAffine(Times(A, h))) = G(r)
  BY <1>6, <1>9, <1>10, SignedSum
<1> QED
  BY <1>3, <1>4, <1>7, <1>8, <1>9, <1>11 DEF Accepts

(* So ed25519_verify accepts what ed25519_sign made.                       *)
LEMMA SignedVerifies ==
    ASSUME HashesAreNumbers, NEW message, IsMessage(message), NEW pub \in Encodings,
           NEW priv, Short(priv.a), priv.prefix \in Nat, pub = EncodeAffine(G(priv.a))
    PROVE  Verify(Sign(message, pub, priv), message, pub)
BY SignatureIs, SignedIsAccepted, VerifyIs

-----------------------------------------------------------------------------
(* The invariant about the secrets: what every key was made from, and what *)
(* onHandShake and ed25519_key_exchange then made of it.                   *)
Made(e) ==
    [verified |-> Verified(e),
     secret |-> IF Verified(e) THEN X25519Shared(eph[e].priv, hello[e].ephemeral) ELSE None]

EphemeralPair(pair) == pair.priv \in Nat /\ pair.pub = PublicFromPrivate(pair.priv)
Clamped(a) == \E n \in Nat : a = Clamp(n)

SecretsTyped == DOMAIN moved = Side /\ DOMAIN shared = Side
PairsOfSessionsInv == \A e \in Side : eph[e] # None => EphemeralPair(eph[e])
MadeInv == \A e \in Side : outcome[e] # None => eph[e] # None /\ outcome[e] = Made(e)
SharedInv == \A e \in Side : shared[e] # None => /\ Ready
                                                  /\ shared[e] = KeyExchange(peerKey[e], static[e].priv.a)
ClampedInv == \A e \in Side : (static[e] # None /\ ~moved[e]) => Clamped(static[e].priv.a)
SecretsInv == SecretsTyped /\ PairsOfSessionsInv /\ MadeInv /\ SharedInv /\ ClampedInv

(* The invariant, at first and over each action.                           *)
LEMMA SecretsInitially == Init => SecretsInv
<1>1. SUFFICES ASSUME Init PROVE SecretsInv
  OBVIOUS
<1>2. /\ static = [e \in Side |-> None] /\ eph = [e \in Side |-> None] /\ moved = [e \in Side |-> FALSE]
      /\ outcome = [e \in Side |-> None] /\ shared = [e \in Side |-> None]
  BY <1>1 DEF Init
<1>3. SecretsTyped /\ PairsOfSessionsInv
  BY <1>2 DEF SecretsTyped, PairsOfSessionsInv
<1>4. MadeInv /\ SharedInv /\ ClampedInv
  BY <1>2 DEF MadeInv, SharedInv, ClampedInv
<1> QED
  BY <1>3, <1>4 DEF SecretsInv

LEMMA SameMade ==
    ASSUME NEW e \in Side, hello'[e] = hello[e], peerKey'[e] = peerKey[e], eph'[e] = eph[e]
    PROVE  Made(e)' = Made(e)
<1>1. Verified(e)' = Verified(e)
  BY SameVerified
<1> QED
  BY <1>1 DEF Made

(* Before both sides have their keys nothing was made of them. *)
LEMMA SecretsWritten ==
    ASSUME SessionsInv, SecretsInv, ~Ready, UNCHANGED <<eph, hello, outcome, shared>>,
           DOMAIN moved' = Side, ClampedInv'
    PROVE  SecretsInv'
<1>1. \A e \in Side : eph[e] = None /\ hello[e] = None
  BY DEF SessionsInv, EphemeralsInv, HellosInv
<1>2. \A e \in Side : outcome[e] = None
  BY <1>1 DEF SessionsInv, OutcomesInv
<1>3. \A e \in Side : shared[e] = None
  BY DEF SecretsInv, SharedInv
<1>4. SecretsTyped'
  BY DEF SecretsInv, SecretsTyped
<1>5. PairsOfSessionsInv' /\ MadeInv' /\ SharedInv'
  BY <1>1, <1>2, <1>3 DEF PairsOfSessionsInv, MadeInv, SharedInv
<1> QED
  BY <1>4, <1>5 DEF SecretsInv

LEMMA CreateStaticClamps ==
    ASSUME KeysInv, SessionsInv, SecretsInv, NEW e \in Side, NEW seed \in Seeds, CreateStatic(e, seed)
    PROVE  SecretsInv'
<1>1. PICK pair : pair = CreateKeypair(seed)
  OBVIOUS
<1>2. /\ static[e] = None /\ static' = [static EXCEPT ![e] = pair]
      /\ UNCHANGED <<moved, eph, hello, outcome, shared>>
  BY <1>1 DEF CreateStatic
<1>3. ~Ready
  BY <1>2, ReadyIs
<1>4. Clamped(pair.priv.a)
  <2>1. Sha512(<<seed>>).lo \in Nat
    BY HelloAssumption
  <2>2. CreateKeypair(seed).priv.a = Clamp(Sha512(<<seed>>).lo)
    BY DEF CreateKeypair
  <2> QED
    BY <1>1, <2>1, <2>2 DEF Clamped
<1>5. \A s \in Side : static'[s] = IF s = e THEN pair ELSE static[s]
  BY <1>2 DEF KeysInv, HoldersInv
<1>6. ClampedInv' /\ DOMAIN moved' = Side
  <2>1. ASSUME NEW s \in Side, static'[s] # None, ~moved'[s] PROVE Clamped(static'[s].priv.a)
    <3>1. CASE s = e
      BY <1>4, <1>5, <3>1
    <3>2. CASE s # e
      BY <1>2, <1>5, <2>1, <3>2 DEF SecretsInv, ClampedInv
    <3> QED
      BY <3>1, <3>2
  <2> QED
    BY <1>2, <2>1 DEF ClampedInv, Clamped, SecretsInv, SecretsTyped
<1> QED
  BY <1>2, <1>3, <1>6, SecretsWritten

LEMMA AddScalarMoves ==
    ASSUME KeysInv, SessionsInv, SecretsInv, NEW e \in Side, NEW scalar \in Scalars, AddScalar(e, scalar)
    PROVE  SecretsInv'
<1>1. PICK priv : priv = AddScalarPrivate(static[e].priv, scalar)
  OBVIOUS
<1>2. PICK pair : pair = [pub |-> PublicOf(priv), priv |-> priv]
  OBVIOUS
<1>3. /\ static[e] # None /\ static[Other(e)] = None /\ static' = [static EXCEPT ![e] = pair]
      /\ moved' = [moved EXCEPT ![e] = TRUE]
      /\ UNCHANGED <<eph, hello, outcome, shared>>
  BY <1>1, <1>2 DEF AddScalar
<1>4. ~Ready
  BY <1>3, ReadyIs, SidesAre
<1>5. /\ \A s \in Side : s # e => static'[s] = static[s] /\ moved'[s] = moved[s]
      /\ moved'[e] = TRUE /\ DOMAIN moved' = Side
  BY <1>3 DEF KeysInv, HoldersInv, SecretsInv, SecretsTyped
<1>6. ClampedInv'
  <2>1. ASSUME NEW s \in Side, static'[s] # None, ~moved'[s] PROVE Clamped(static'[s].priv.a)
    BY <1>5, <2>1 DEF SecretsInv, ClampedInv
  <2> QED
    BY <2>1 DEF ClampedInv, Clamped
<1> QED
  BY <1>3, <1>4, <1>5, <1>6, SecretsWritten

(* When the static keys stay, so do they clamped. *)
LEMMA ClampedStay ==
    ASSUME SecretsInv, UNCHANGED <<static, moved>>
    PROVE  ClampedInv' /\ Ready' = Ready
BY DEF SecretsInv, ClampedInv, Clamped, Ready

LEMMA NewSessionPairs ==
    ASSUME SessionsInv, SecretsInv, NEW e \in Side, NEW random \in Randoms, NewSession(e, random)
    PROVE  SecretsInv'
<1>1. PICK pair : pair = X25519Keypair(random)
  OBVIOUS
<1>2. /\ eph[e] = None /\ eph' = [eph EXCEPT ![e] = pair]
      /\ UNCHANGED <<static, peerKey, moved, hello, outcome, shared>>
  BY <1>1 DEF NewSession
<1>3. EphemeralPair(pair)
  <2>1. PICK private \in Nat : private = Two[ScalarBits - 1] + 8 * ((random % Two[ScalarBits - 2]) \div 8) + 7
    BY HelloAssumption, PrivateIs
  <2>2. X25519Keypair(random).priv = private /\ X25519Keypair(random).pub = PublicFromPrivate(private)
    BY <2>1 DEF X25519Keypair
  <2> QED
    BY <1>1, <2>1, <2>2 DEF EphemeralPair
<1>4. SecretsTyped' /\ ClampedInv' /\ Ready' = Ready
  BY <1>2, ClampedStay DEF SecretsInv, SecretsTyped
<1>5. \A s \in Side : eph'[s] = IF s = e THEN pair ELSE eph[s]
  BY <1>2 DEF SessionsInv, SessionsTyped
<1>6. PairsOfSessionsInv'
  <2>1. ASSUME NEW s \in Side, eph'[s] # None PROVE EphemeralPair(eph'[s])
    BY <1>3, <1>5, <2>1 DEF SecretsInv, PairsOfSessionsInv
  <2> QED
    BY <2>1 DEF PairsOfSessionsInv, EphemeralPair
<1>7. MadeInv'
  <2>1. ASSUME NEW s \in Side, outcome'[s] # None PROVE eph'[s] # None /\ outcome'[s] = Made(s)'
    <3>1. eph[s] # None /\ outcome[s] = Made(s)
      BY <1>2, <2>1 DEF SecretsInv, MadeInv
    <3>2. eph'[s] = eph[s]
      BY <1>2, <1>5, <3>1
    <3>3. Made(s)' = Made(s)
      BY <1>2, <3>2, SameMade
    <3> QED
      BY <1>2, <3>1, <3>2, <3>3
  <2> QED
    BY <2>1 DEF MadeInv
<1>8. SharedInv'
  BY <1>2, <1>4 DEF SecretsInv, SharedInv
<1> QED
  BY <1>4, <1>6, <1>7, <1>8 DEF SecretsInv

(* A HelloPacket arrives where nothing was made of one. *)
LEMMA HelloLeavesSecrets ==
    ASSUME SessionsInv, SecretsInv, NEW s \in Side, NEW h, hello[s] = None,
           hello' = [hello EXCEPT ![s] = h], UNCHANGED <<static, peerKey, moved, eph, outcome, shared>>
    PROVE  SecretsInv'
<1>1. SecretsTyped' /\ ClampedInv' /\ Ready' = Ready
  BY ClampedStay DEF SecretsInv, SecretsTyped
<1>2. PairsOfSessionsInv'
  BY DEF SecretsInv, PairsOfSessionsInv, EphemeralPair
<1>3. \A e \in Side : e # s => hello'[e] = hello[e]
  BY DEF SessionsInv, SessionsTyped
<1>4. MadeInv'
  <2>1. ASSUME NEW e \in Side, outcome'[e] # None PROVE eph'[e] # None /\ outcome'[e] = Made(e)'
    <3>1. eph[e] # None /\ outcome[e] = Made(e) /\ hello[e] # None
      BY <2>1 DEF SecretsInv, MadeInv, SessionsInv, OutcomesInv
    <3>2. hello'[e] = hello[e]
      BY <1>3, <3>1
    <3>3. Made(e)' = Made(e)
      BY <3>2, SameMade
    <3> QED
      BY <3>1, <3>3
  <2> QED
    BY <2>1 DEF MadeInv
<1>5. SharedInv'
  BY <1>1 DEF SecretsInv, SharedInv
<1> QED
  BY <1>1, <1>2, <1>4, <1>5 DEF SecretsInv

LEMMA OnHandShakeMakes ==
    ASSUME SessionsInv, SecretsInv, NEW e \in Side, OnHandShake(e)
    PROVE  SecretsInv'
<1>1. /\ eph[e] # None /\ outcome' = [outcome EXCEPT ![e] = Made(e)]
      /\ UNCHANGED <<static, peerKey, moved, eph, hello, shared>>
  BY DEF OnHandShake, Made
<1>2. SecretsTyped' /\ ClampedInv' /\ Ready' = Ready
  BY <1>1, ClampedStay DEF SecretsInv, SecretsTyped
<1>3. PairsOfSessionsInv'
  BY <1>1 DEF SecretsInv, PairsOfSessionsInv, EphemeralPair
<1>4. \A s \in Side : outcome'[s] = IF s = e THEN Made(e) ELSE outcome[s]
  BY <1>1 DEF SessionsInv, SessionsTyped
<1>5. MadeInv'
  <2>1. ASSUME NEW s \in Side, outcome'[s] # None PROVE eph'[s] # None /\ outcome'[s] = Made(s)'
    <3>1. Made(s)' = Made(s)
      BY <1>1, SameMade
    <3>2. CASE s = e
      BY <1>1, <1>4, <3>1, <3>2
    <3>3. CASE s # e
      BY <1>1, <1>4, <2>1, <3>1, <3>3 DEF SecretsInv, MadeInv
    <3> QED
      BY <3>2, <3>3
  <2> QED
    BY <2>1 DEF MadeInv
<1>6. SharedInv'
  BY <1>1, <1>2 DEF SecretsInv, SharedInv
<1> QED
  BY <1>2, <1>3, <1>5, <1>6 DEF SecretsInv

LEMMA ExchangeStaticShares ==
    ASSUME SecretsInv, NEW e \in Side, ExchangeStatic(e)
    PROVE  SecretsInv'
<1>1. PICK k : k = KeyExchange(peerKey[e], static[e].priv.a)
  OBVIOUS
<1>2. /\ Ready /\ shared' = [shared EXCEPT ![e] = k]
      /\ UNCHANGED <<static, peerKey, moved, eph, hello, outcome>>
  BY <1>1 DEF ExchangeStatic
<1>3. SecretsTyped' /\ ClampedInv' /\ Ready' = Ready
  BY <1>2, ClampedStay DEF SecretsInv, SecretsTyped
<1>4. PairsOfSessionsInv'
  BY <1>2 DEF SecretsInv, PairsOfSessionsInv, EphemeralPair
<1>5. MadeInv'
  BY <1>2, SameMade DEF SecretsInv, MadeInv
<1>6. \A s \in Side : shared'[s] = IF s = e THEN k ELSE shared[s]
  BY <1>2 DEF SecretsInv, SecretsTyped
<1>7. SharedInv'
  <2>1. ASSUME NEW s \in Side, shared'[s] # None
        PROVE  Ready' /\ shared'[s] = KeyExchange(peerKey'[s], static'[s].priv.a)
    <3>1. CASE s = e
      BY <1>1, <1>2, <1>3, <1>6, <3>1
    <3>2. CASE s # e
      BY <1>2, <1>3, <1>6, <2>1, <3>2 DEF SecretsInv, SharedInv
    <3> QED
      BY <3>1, <3>2
  <2> QED
    BY <2>1 DEF SharedInv
<1> QED
  BY <1>3, <1>4, <1>5, <1>7 DEF SecretsInv

LEMMA SecretsUntouched ==
    ASSUME SecretsInv, UNCHANGED vars
    PROVE  SecretsInv'
<1>1. UNCHANGED <<static, peerKey, moved, eph, hello, outcome, shared>>
  BY DEF vars
<1>2. SecretsTyped' /\ ClampedInv' /\ Ready' = Ready
  BY <1>1, ClampedStay DEF SecretsInv, SecretsTyped
<1>3. PairsOfSessionsInv' /\ SharedInv'
  BY <1>1, <1>2 DEF SecretsInv, PairsOfSessionsInv, EphemeralPair, SharedInv
<1>4. MadeInv'
  BY <1>1, SameMade DEF SecretsInv, MadeInv
<1> QED
  BY <1>2, <1>3, <1>4 DEF SecretsInv

(* Every step keeps it.                                                    *)
LEMMA SecretsNext == KeysInv /\ SessionsInv /\ SecretsInv /\ [Next]_vars => SecretsInv'
<1>1. SUFFICES ASSUME KeysInv, SessionsInv, SecretsInv, [Next]_vars PROVE SecretsInv'
  OBVIOUS
<1>2. CASE UNCHANGED vars
  BY <1>1, <1>2, SecretsUntouched
<1>3. CASE Next
  <2>1. PICK e \in Side :
            \/ \E seed \in Seeds : CreateStatic(e, seed)
            \/ \E scalar \in Scalars : AddScalar(e, scalar)
            \/ \E random \in Randoms : NewSession(e, random)
            \/ SendHandshake(e)
            \/ \E pub \in StrangeKeys \cup {peerKey[e]}, R \in StrangeR, S \in StrangeS, u \in StrangeU :
                   StrangeHello(e, pub, R, S, u)
            \/ OnHandShake(e)
            \/ ExchangeStatic(e)
    BY <1>3 DEF Next
  <2>2. CASE \E seed \in Seeds : CreateStatic(e, seed)
    BY <1>1, <2>2, CreateStaticClamps
  <2>3. CASE \E scalar \in Scalars : AddScalar(e, scalar)
    BY <1>1, <2>3, AddScalarMoves
  <2>4. CASE \E random \in Randoms : NewSession(e, random)
    BY <1>1, <2>4, NewSessionPairs
  <2>5. CASE SendHandshake(e)
    <3>1. PICK h : h = SignedHello(e)
      OBVIOUS
    <3>2. /\ hello[Other(e)] = None /\ hello' = [hello EXCEPT ![Other(e)] = h]
          /\ UNCHANGED <<static, peerKey, moved, eph, outcome, shared>>
      BY <2>5, <3>1 DEF SendHandshake
    <3>3. Other(e) \in Side
      BY SidesAre
    <3> QED
      BY <1>1, <3>2, <3>3, HelloLeavesSecrets
  <2>6. CASE \E pub \in StrangeKeys \cup {peerKey[e]}, R \in StrangeR, S \in StrangeS, u \in StrangeU :
                 StrangeHello(e, pub, R, S, u)
    <3>1. PICK pub, R, S, u : StrangeHello(e, pub, R, S, u)
      BY <2>6
    <3>2. PICK h : h = Hello(pub, u, [R |-> R, S |-> S])
      OBVIOUS
    <3>3. /\ hello[e] = None /\ hello' = [hello EXCEPT ![e] = h]
          /\ UNCHANGED <<static, peerKey, moved, eph, outcome, shared>>
      BY <3>1, <3>2 DEF StrangeHello
    <3> QED
      BY <1>1, <3>3, HelloLeavesSecrets
  <2>7. CASE OnHandShake(e)
    BY <1>1, <2>7, OnHandShakeMakes
  <2>8. CASE ExchangeStatic(e)
    BY <1>1, <2>8, ExchangeStaticShares
  <2> QED
    BY <2>1, <2>2, <2>3, <2>4, <2>5, <2>6, <2>7, <2>8
<1> QED
  BY <1>1, <1>2, <1>3

-----------------------------------------------------------------------------
(* A HelloPacket that follows the protocol verifies, and both sides come to *)
(* the same product.                                                       *)
LEMMA HonestVerified ==
    ASSUME HashesAreNumbers, KeysInv, SessionsInv, SecretsInv, NEW e \in Side, Honest(e)
    PROVE  /\ Verified(e) = TRUE
           /\ hello[e].ephemeral = eph[Other(e)].pub
           /\ EphemeralPair(eph["cli"]) /\ EphemeralPair(eph["srv"])
<1>1. PICK o \in Side : o = Other(e)
  BY SidesAre
<1>2. eph["cli"] # None /\ eph["srv"] # None /\ "cli" \in Side /\ "srv" \in Side
  BY DEF Honest, Side
<1>3. EphemeralPair(eph["cli"]) /\ EphemeralPair(eph["srv"])
  BY <1>2 DEF SecretsInv, PairsOfSessionsInv
<1>4. Ready /\ eph[o] # None /\ eph[o].pub \in Nat
  BY <1>1, <1>2 DEF SessionsInv, EphemeralsInv, Side
<1>5. PICK pub \in Encodings : pub = static[o].pub
  BY <1>4, KeysAreEncodings
<1>6. PICK priv : priv = static[o].priv /\ Short(priv.a) /\ priv.prefix \in Nat
  BY <1>4, KeysAreEncodings, ReadyIs DEF SessionsInv, PrefixesInv
<1>7. pub = EncodeAffine(G(priv.a)) /\ peerKey[e] = pub
  <2>1. PairIs(static[o], peerKey[Other(o)]) /\ Other(o) = e
    BY <1>1, <1>4, ReadyIs, SidesAre DEF KeysInv, PairsInv
  <2> QED
    BY <1>5, <1>6, <2>1 DEF PairIs
<1>8. PICK message : message = SignedPart(pub, eph[o].pub) /\ IsMessage(message)
  BY <1>4, PartIsMessage
<1>9. PICK sig : sig = Sign(message, pub, priv)
  OBVIOUS
<1>10. hello[e].pub = pub /\ hello[e].ephemeral = eph[o].pub /\ hello[e].sig = sig
  <2>1. hello[e] = SignedHello(o)
    BY <1>1 DEF Honest
  <2>2. SignedHello(o) = Hello(pub, eph[o].pub, sig)
    BY <1>5, <1>6, <1>8, <1>9 DEF SignedHello
  <2> QED
    BY <2>1, <2>2 DEF Hello
<1>11. KeyFor(e) = pub
  BY <1>7, <1>10 DEF KeyFor
<1>12. Verify(sig, message, pub)
  BY <1>6, <1>7, <1>8, <1>9, SignedVerifies
<1>13. Verified(e) = Verify(sig, message, pub)
  BY <1>8, <1>10, <1>11 DEF Verified
<1>14. Verify(sig, message, pub) \in BOOLEAN
  BY DEF Verify
<1> QED
  BY <1>1, <1>3, <1>10, <1>12, <1>13, <1>14

(* X25519, from either side.                                               *)
LEMMA SharedSecretIs ==
    ASSUME NEW a \in Nat, NEW b \in Nat
    PROVE  /\ ScalarMultGeneric(a, PublicFromPrivate(b)) = Product(a, b)
           /\ ScalarMultGeneric(b, PublicFromPrivate(a)) = Product(a, b)
<1>1. PICK c, d \in Nat : c = Clamp(a) /\ d = Clamp(b)
  BY ClampIsShort DEF Short
<1>2. PICK p \in Curve, q \in Curve : p = G(c) /\ q = G(d)
  <2>1. c \in Int /\ d \in Int
    OBVIOUS
  <2> QED
    BY <2>1, GIsPoint
<1>3. PublicFromPrivate(a) = MontgomeryU(p) /\ PublicFromPrivate(b) = MontgomeryU(q)
  BY <1>1, <1>2, PublicU
<1>4. /\ ScalarMultGeneric(a, MontgomeryU(q)) = MontgomeryU(Multiples(q, c))
      /\ ScalarMultGeneric(b, MontgomeryU(p)) = MontgomeryU(Multiples(p, d))
  BY <1>1, GenericIs
<1>5. Product(a, b) = MontgomeryU(Multiples(q, c)) /\ Product(a, b) = MontgomeryU(Multiples(p, d))
  BY <1>1, <1>2, ProductIs
<1> QED
  BY <1>3, <1>4, <1>5

(* What onHandShake made of such a HelloPacket.                            *)
LEMMA HonestSecret ==
    ASSUME HashesAreNumbers, KeysInv, SessionsInv, SecretsInv, NEW e \in Side, outcome[e] # None, Honest(e),
           NEW product, product = Product(eph["cli"].priv, eph["srv"].priv)
    PROVE  outcome[e] = [verified |-> TRUE, secret |-> [key |-> product, ok |-> product # 0]]
<1>1. /\ Verified(e) = TRUE /\ hello[e].ephemeral = eph[Other(e)].pub
      /\ EphemeralPair(eph["cli"]) /\ EphemeralPair(eph["srv"])
  BY HonestVerified
<1>2. outcome[e] = Made(e)
  BY DEF SecretsInv, MadeInv
<1>3. Made(e) = [verified |-> TRUE, secret |-> X25519Shared(eph[e].priv, hello[e].ephemeral)]
  BY <1>1 DEF Made
<1>4. PICK a, b \in Nat : /\ a = eph["cli"].priv /\ b = eph["srv"].priv
                          /\ eph["cli"].pub = PublicFromPrivate(a) /\ eph["srv"].pub = PublicFromPrivate(b)
  BY <1>1 DEF EphemeralPair
<1>5. ScalarMultGeneric(eph[e].priv, hello[e].ephemeral) = product
  <2>1. CASE e = "cli"
    <3>1. Other(e) = "srv"
      BY <2>1 DEF Other
    <3> QED
      BY <1>1, <1>4, <2>1, <3>1, SharedSecretIs
  <2>2. CASE e = "srv"
    <3>1. Other(e) = "cli"
      BY <2>2 DEF Other
    <3> QED
      BY <1>1, <1>4, <2>2, <3>1, SharedSecretIs
  <2> QED
    BY <2>1, <2>2 DEF Side
<1>6. X25519Shared(eph[e].priv, hello[e].ephemeral) = [key |-> product, ok |-> product # 0]
  BY <1>5 DEF X25519Shared
<1> QED
  BY <1>2, <1>3, <1>6

(* And ed25519_key_exchange of two keys that were not moved.               *)
LEMMA StaticSecret ==
    ASSUME KeysInv, SecretsInv, shared["cli"] # None, shared["srv"] # None, ~moved["cli"], ~moved["srv"],
           NEW e \in Side
    PROVE  shared[e] = Product(static["cli"].priv.a, static["srv"].priv.a)
<1>1. "cli" \in Side /\ "srv" \in Side /\ Other("cli") = "srv" /\ Other("srv") = "cli"
  BY DEF Side, Other
<1>2. Ready /\ \A s \in Side : shared[s] = KeyExchange(peerKey[s], static[s].priv.a)
  <2>1. \A s \in Side : shared[s] # None
    BY DEF Side
  <2> QED
    BY <1>1, <2>1 DEF SecretsInv, SharedInv
<1>3. ASSUME NEW s \in Side
      PROVE  /\ static[s].priv.a \in Nat /\ Clamp(static[s].priv.a) = static[s].priv.a
             /\ peerKey[Other(s)] = EncodeAffine(G(static[s].priv.a))
  <2>1. static[s] # None /\ ~moved[s]
    BY <1>2, ReadyIs DEF Side
  <2>2. PICK n \in Nat : static[s].priv.a = Clamp(n)
    BY <2>1 DEF SecretsInv, ClampedInv, Clamped
  <2>3. PairIs(static[s], peerKey[Other(s)])
    BY <2>1 DEF KeysInv, PairsInv
  <2> QED
    BY <2>2, <2>3, ClampTwice DEF PairIs, Short
<1>4. PICK a, b \in Nat : /\ a = static["cli"].priv.a /\ b = static["srv"].priv.a
                          /\ Clamp(a) = a /\ Clamp(b) = b
                          /\ peerKey["srv"] = EncodeAffine(G(a)) /\ peerKey["cli"] = EncodeAffine(G(b))
  BY <1>1, <1>3
<1>5. PICK p \in Curve, q \in Curve : p = G(a) /\ q = G(b)
  <2>1. a \in Int /\ b \in Int
    OBVIOUS
  <2> QED
    BY <2>1, GIsPoint
<1>6. /\ KeyExchange(EncodeAffine(q), a) = MontgomeryU(Multiples(q, a))
      /\ KeyExchange(EncodeAffine(p), b) = MontgomeryU(Multiples(p, b))
  BY <1>4, ExchangeIs
<1>7. Product(a, b) = MontgomeryU(Multiples(q, a)) /\ Product(a, b) = MontgomeryU(Multiples(p, b))
  BY <1>4, <1>5, ProductIs
<1>8. shared["cli"] = Product(a, b) /\ shared["srv"] = Product(a, b)
  BY <1>1, <1>2, <1>4, <1>5, <1>6, <1>7
<1> QED
  BY <1>4, <1>8 DEF Side

(* It says that the secrets are one.                                       *)
LEMMA SecretsAreOne ==
    ASSUME HashesAreNumbers, KeysInv, SessionsInv, SecretsInv
    PROVE  OneSecret
<1>1. ASSUME NEW e \in Side, outcome[e] # None, Honest(e)
      PROVE  LET product == Product(eph["cli"].priv, eph["srv"].priv)
             IN outcome[e] = [verified |-> TRUE, secret |-> [key |-> product, ok |-> product # 0]]
  BY <1>1, HonestSecret
<1>2. ASSUME None \notin {shared["cli"], shared["srv"]}, ~moved["cli"], ~moved["srv"], NEW e \in Side
      PROVE  shared[e] = Product(static["cli"].priv.a, static["srv"].priv.a)
  BY <1>2, StaticSecret
<1> QED
  BY <1>1, <1>2 DEF OneSecret

(* OneSecret, for every SHA-512 whose halves are numbers: a HelloPacket    *)
(* that the other side signed is accepted whatever the keys and the        *)
(* randomness, the two sides' X25519 gives the same u, which is that of    *)
(* the product of their scalars, and ed25519_key_exchange does the same    *)
(* for two static keys that were not moved.                                *)
THEOREM SecretIsShared == ASSUME HashesAreNumbers PROVE Spec => []OneSecret
<1>1. Init => KeysInv /\ SessionsInv /\ SecretsInv
  BY KeysInitially, SessionsInitially, SecretsInitially
<1>2. KeysInv /\ SessionsInv /\ SecretsInv /\ [Next]_vars => (KeysInv /\ SessionsInv /\ SecretsInv)'
  BY KeysNext, SessionsNext, SecretsNext
<1>3. KeysInv /\ SessionsInv /\ SecretsInv => OneSecret
  BY SecretsAreOne
<1> QED
  BY <1>1, <1>2, <1>3, PTL DEF Spec
=============================================================================
