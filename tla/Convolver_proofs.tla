--------------------------- MODULE Convolver_proofs ---------------------------
(***************************************************************************)
(* Theorems about Convolver, for any number of threads and channels, any   *)
(* length of a block, of the impulse response, of the sound and of reads:  *)
(* what is read is the convolution, and the tail is whole.                 *)
(*                                                                         *)
(* The argument counts the blocks that were read.  After block b of the    *)
(* sound, or of the silence behind it, each channel has got b of them, or  *)
(* b - 1 while its task is queued or under way (Due); a channel that has   *)
(* got n blocks has the windows n, n - 1, ... in its line, and in its sum  *)
(* only terms of block n + 1, all those of each task that is done.         *)
(***************************************************************************)
EXTENDS Convolver, SequenceTheorems, FiniteSetTheorems, WellFoundedInduction, TLAPS

(* Numbers. *)

\* The least of two numbers.
LEMMA MinOfTwo ==
    ASSUME NEW a \in Int, NEW b \in Int
    PROVE  Min({a, b}) = IF a <= b THEN a ELSE b
<1> DEFINE z == IF a <= b THEN a ELSE b
<1>1. z \in {a, b} /\ \A y \in {a, b} : z <= y
  OBVIOUS
<1>2. \A x \in {a, b} : (\A y \in {a, b} : x <= y) => x = z
  OBVIOUS
<1> HIDE DEF z
<1>3. Min({a, b}) = z
  BY <1>1, <1>2 DEF Min
<1> QED
  BY <1>3 DEF z

\* The greatest of two numbers.
LEMMA MaxOfTwo ==
    ASSUME NEW a \in Int, NEW b \in Int
    PROVE  Max({a, b}) = IF a >= b THEN a ELSE b
<1> DEFINE z == IF a >= b THEN a ELSE b
<1>1. z \in {a, b} /\ \A y \in {a, b} : z >= y
  OBVIOUS
<1>2. \A x \in {a, b} : (\A y \in {a, b} : x >= y) => x = z
  OBVIOUS
<1> HIDE DEF z
<1>3. Max({a, b}) = z
  BY <1>1, <1>2 DEF Max
<1> QED
  BY <1>3 DEF z

\* A set of numbers that is not empty has its least one.
LEMMA MinOfSet ==
    ASSUME NEW T, T \subseteq Nat, T # {}
    PROVE  Min(T) \in T
<1>1. IsWellFoundedOn(OpToRel(<, Nat), Nat)
  BY NatLessThanWellFounded
<1>2. PICK n \in T : \A m \in T : ~(<<m, n>> \in OpToRel(<, Nat))
  BY <1>1, WFMin
<1>3. \A m \in T : ~(m < n)
  BY <1>2 DEF OpToRel
<1>4. \A m \in T : n <= m
  BY <1>3
<1> QED
  BY <1>4 DEF Min

\* A product is not less than its factor.
LEMMA ProductGrows ==
    ASSUME NEW a \in Nat, NEW b \in Nat, NEW k \in Nat, a < b
    PROVE  a * k + k <= b * k
<1>1. PICK d \in Nat : b = a + 1 + d
  <2>1. b - a - 1 \in Nat /\ b = a + 1 + (b - a - 1)
    OBVIOUS
  <2> QED
    BY <2>1
<1>2. b * k = a * k + k + d * k /\ d * k \in Nat /\ a * k \in Nat /\ b * k \in Nat
  BY <1>1
<1> QED
  BY <1>2

\* The quotient and the remainder of a division.
LEMMA DivMod ==
    ASSUME NEW n \in Nat, NEW k \in Nat \ {0}
    PROVE  /\ n \div k \in Nat /\ n % k \in 0 .. k - 1
           /\ n = (n \div k) * k + (n % k)
<1> DEFINE q == n \div k
<1> DEFINE m == n % k
<1>1. q \in Nat
  OBVIOUS
<1>2. m \in 0 .. k - 1
  OBVIOUS
<1>3. n = k * q + m
  OBVIOUS
<1> HIDE DEF q, m
<1>4. n = q * k + m
  BY <1>1, <1>2, <1>3
<1> QED
  BY <1>1, <1>2, <1>4 DEF q, m

LEMMA DivIs ==
    ASSUME NEW q \in Nat, NEW k \in Nat \ {0}, NEW r \in 0 .. k - 1
    PROVE  (q * k + r) \div k = q /\ (q * k + r) % k = r
<1> DEFINE n == q * k + r
<1>1. n \in Nat
  OBVIOUS
<1> DEFINE d == n \div k
<1> DEFINE m == n % k
<1>2. d \in Nat /\ m \in 0 .. k - 1 /\ n = d * k + m
  BY <1>1, DivMod
<1>3. d * k \in Nat /\ q * k \in Nat
  BY <1>2
<1> HIDE DEF d, m
<1>4. ~(d < q)
  <2> SUFFICES ASSUME d < q PROVE FALSE
    OBVIOUS
  <2>1. d * k + k <= q * k
    BY <1>2, ProductGrows
  <2> QED
    BY <1>2, <1>3, <2>1
<1>5. ~(q < d)
  <2> SUFFICES ASSUME q < d PROVE FALSE
    OBVIOUS
  <2>1. q * k + k <= d * k
    BY <1>2, ProductGrows
  <2> QED
    BY <1>2, <1>3, <2>1
<1>6. d = q
  BY <1>2, <1>4, <1>5
<1> QED
  BY <1>2, <1>3, <1>6 DEF d, m

\* Items that are shared: each is in the share of one task.
LEMMA CeilDivCovers ==
    ASSUME NEW n \in Nat, NEW k \in Nat \ {0}
    PROVE  CeilDiv(n, k) \in Nat /\ n <= k * CeilDiv(n, k)
<1> DEFINE s == CeilDiv(n, k)
<1>1. n + k - 1 \in Nat
  OBVIOUS
<1>2. s \in Nat /\ (n + k - 1) % k \in 0 .. k - 1 /\ n + k - 1 = s * k + ((n + k - 1) % k)
  BY <1>1, DivMod DEF CeilDiv
<1>3. s * k = k * s /\ s * k \in Nat
  BY <1>2
<1> HIDE DEF s
<1>4. n <= k * s
  BY <1>2, <1>3
<1> QED
  BY <1>2, <1>4 DEF s

LEMMA SharesCover ==
    ASSUME NEW n \in Nat, NEW k \in Nat \ {0}, NEW f \in Nat, NEW x \in f .. f + n - 1
    PROVE  \E id \in 0 .. k - 1 : x \in Share(id, k, f, n)
<1> DEFINE s == CeilDiv(n, k)
<1>1. s \in Nat /\ n <= k * s
  BY CeilDivCovers
<1>2. s # 0
  BY <1>1
<1> HIDE DEF s
<1> DEFINE y == x - f
<1> DEFINE id == y \div s
<1>3. y \in Nat /\ y < n /\ x = f + y
  OBVIOUS
<1> HIDE DEF y
<1> DEFINE m == y % s
<1>4. id \in Nat /\ m \in 0 .. s - 1 /\ y = id * s + m
  BY <1>1, <1>2, <1>3, DivMod
<1> HIDE DEF id, m
<1>5. id < k
  <2> SUFFICES ASSUME k <= id PROVE FALSE
    BY <1>4
  <2>1. k * s <= id * s
    <3>1. CASE k = id
      BY <1>1, <1>4, <3>1
    <3>2. CASE k < id
      <4>1. k * s + s <= id * s
        BY <1>1, <1>4, <3>2, ProductGrows
      <4> QED
        BY <1>1, <1>4, <4>1
    <3> QED
      BY <1>4, <3>1, <3>2
  <2>2. k * s \in Nat /\ id * s \in Nat
    BY <1>1, <1>4
  <2> QED
    BY <1>1, <1>3, <1>4, <2>1, <2>2
<1>6. (id + 1) * s = id * s + s /\ id * s \in Nat
  BY <1>1, <1>4
<1>7. x \in f + id * s .. f + (id + 1) * s - 1
  BY <1>1, <1>3, <1>4, <1>6
<1>8. x < f + n
  BY <1>3
<1>9. x \in Share(id, k, f, n)
  BY <1>7, <1>8 DEF Share, s
<1> QED
  BY <1>4, <1>5, <1>9

LEMMA SharesAreDisjoint ==
    ASSUME NEW n \in Nat, NEW k \in Nat \ {0}, NEW f \in Nat,
           NEW i \in 0 .. k - 1, NEW j \in 0 .. k - 1,
           NEW x, x \in Share(i, k, f, n), x \in Share(j, k, f, n)
    PROVE  i = j
<1> DEFINE s == CeilDiv(n, k)
<1>1. s \in Nat
  BY CeilDivCovers
<1> HIDE DEF s
<1>2. /\ x \in f + i * s .. f + (i + 1) * s - 1
      /\ x \in f + j * s .. f + (j + 1) * s - 1
  BY DEF Share, s
<1>3. /\ (i + 1) * s = i * s + s /\ i * s \in Nat
      /\ (j + 1) * s = j * s + s /\ j * s \in Nat
  BY <1>1
<1>4. ~(i < j)
  <2> SUFFICES ASSUME i < j PROVE FALSE
    OBVIOUS
  <2>1. i * s + s <= j * s
    BY <1>1, ProductGrows
  <2> QED
    BY <1>1, <1>2, <1>3, <2>1
<1>5. ~(j < i)
  <2> SUFFICES ASSUME j < i PROVE FALSE
    OBVIOUS
  <2>1. j * s + s <= i * s
    BY <1>1, ProductGrows
  <2> QED
    BY <1>1, <1>2, <1>3, <2>1
<1> QED
  BY <1>4, <1>5

LEMMA ShareWithin ==
    ASSUME NEW n \in Nat, NEW k \in Nat \ {0}, NEW f \in Nat, NEW id \in 0 .. k - 1
    PROVE  Share(id, k, f, n) \subseteq f .. f + n - 1
<1> DEFINE s == CeilDiv(n, k)
<1>1. s \in Nat
  BY CeilDivCovers
<1> HIDE DEF s
<1>2. (id + 1) * s \in Nat /\ id * s \in Nat
  BY <1>1
<1> QED
  BY <1>1, <1>2 DEF Share, s
------------------------------------------------------------------------------
(* Constants. *)

nTasks == m_nChannelThreads
ShareOf(id) == Share(id, nTasks, 0, Channels)
LastLength == IF IRLength % L # 0 THEN IRLength % L ELSE L

LEMMA ConstantFacts ==
    /\ L \in Nat /\ L >= 1 /\ P \in Nat /\ P >= 1
    /\ Channels \in Nat /\ Channels >= 1
    /\ InputLength \in Nat /\ Places \subseteq Nat /\ Wanted \subseteq Nat \ {0}
    /\ nTasks \in Nat /\ nTasks >= 1 /\ nTasks <= Channels
    /\ m_numThreads \in Nat /\ (P > 1 => m_numThreads >= 1) /\ (P = 1 => m_numThreads = 0)
<1>1. Cardinality(Threads) \in Nat /\ Cardinality(Threads) # 0
  BY ConvolverAssumption, FS_CardinalityType, FS_EmptySet
<1>2. m_nChannelThreads = IF Cardinality(Threads) <= Channels THEN Cardinality(Threads) ELSE Channels
  BY <1>1, MinOfTwo, ConvolverAssumption DEF m_nChannelThreads
<1>3. m_numThreads = IF Cardinality(Threads) <= P - 1 THEN Cardinality(Threads) ELSE P - 1
  BY <1>1, MinOfTwo, ConvolverAssumption DEF m_numThreads
<1> QED
  BY <1>1, <1>2, <1>3, ConvolverAssumption DEF nTasks

\* The part of the last block that the impulse response reaches.
LEMMA LastLengthIs ==
    LastLength \in 1 .. L /\ (P - 1) * L + LastLength = IRLength
<1> USE ConstantFacts
<1>1. IRLength \in (P - 1) * L + 1 .. P * L /\ (P - 1) * L \in Nat /\ P * L = (P - 1) * L + L /\ P - 1 \in Nat
  BY ConvolverAssumption
<1> DEFINE d == IRLength - (P - 1) * L
<1>2. d \in 1 .. L /\ IRLength = (P - 1) * L + d
  BY <1>1
<1> HIDE DEF d
<1>3. CASE d = L
  <2>1. IRLength = P * L + 0
    BY <1>1, <1>2, <1>3
  <2>2. IRLength % L = 0
    BY <2>1, DivIs
  <2> QED
    BY <1>1, <1>2, <1>3, <2>2 DEF LastLength
<1>4. CASE d # L
  <2>1. d \in 0 .. L - 1
    BY <1>2, <1>4
  <2>2. IRLength % L = d
    BY <1>1, <1>2, <2>1, DivIs
  <2> QED
    BY <1>1, <1>2, <2>1, <2>2 DEF LastLength
<1> QED
  BY <1>3, <1>4

\* Place k of block n.
LEMMA CeilDivIs ==
    ASSUME NEW n \in Nat \ {0}, NEW k \in 1 .. L
    PROVE  CeilDiv((n - 1) * L + k, L) = n
<1> USE ConstantFacts
<1>1. (n - 1) * L + k + L - 1 = n * L + (k - 1) /\ k - 1 \in 0 .. L - 1
  OBVIOUS
<1>2. (n * L + (k - 1)) \div L = n
  BY <1>1, DivIs
<1> QED
  BY <1>1, <1>2 DEF CeilDiv
------------------------------------------------------------------------------
(* Windows. *)

Windows == [1 .. 2 * L -> Nat]

\* Window n of the sound from p on.
WindowFrom(p, n) ==
    [k \in 1 .. 2 * L |->
        LET j == (n - 2) * L + k IN IF j >= 1 /\ p + j <= InputLength THEN p + j ELSE 0]

LEMMA WindowType ==
    ASSUME NEW p \in Nat, NEW n \in Int
    PROVE  WindowFrom(p, n) \in Windows
<1> DEFINE j(k) == (n - 2) * L + k
<1>1. \A k \in 1 .. 2 * L : j(k) \in Int
  BY ConstantFacts
<1>2. \A k \in 1 .. 2 * L : (IF j(k) >= 1 /\ p + j(k) <= InputLength THEN p + j(k) ELSE 0) \in Nat
  <2> HIDE DEF j
  <2> QED
    BY <1>1, ConstantFacts
<1> QED
  BY <1>2 DEF WindowFrom, Windows

LEMMA SoundWindowIs == \A n : SoundWindow(n) = WindowFrom(base, n)
BY DEF SoundWindow, WindowFrom

\* Before the first block is silence.
LEMMA SilentBefore ==
    ASSUME NEW p \in Nat, NEW n \in Int, n <= 0
    PROVE  WindowFrom(p, n) = Silence(2 * L)
<1>1. \A k \in 1 .. 2 * L : ~((n - 2) * L + k >= 1)
  <2> TAKE k \in 1 .. 2 * L
  <2>1. 0 - n \in Nat /\ (0 - n) * L \in Nat
    BY ConstantFacts
  <2>2. (n - 2) * L + k = k - 2 * L - (0 - n) * L
    BY ConstantFacts
  <2>3. (n - 2) * L \in Int /\ 2 * L \in Nat
    BY ConstantFacts
  <2> QED
    BY <2>1, <2>2, <2>3
<1> QED
  BY <1>1 DEF WindowFrom, Silence

LEMMA SilenceType ==
    ASSUME NEW n \in Nat
    PROVE  /\ Silence(n) \in Seq(Nat) /\ Len(Silence(n)) = n /\ Silence(n) \in [1 .. n -> Nat]
           /\ \A k \in 1 .. n : Silence(n)[k] = 0
BY DEF Silence

\* Three pieces make a window.
IsJoined(v, a, d, z, m) ==
    /\ v \in Windows
    /\ \A k \in 1 .. L : v[k] = a[k]
    /\ \A k \in 1 .. L : v[L + k] = IF k <= m THEN d[k] ELSE z[k - m]

LEMMA Joined ==
    ASSUME NEW a \in Seq(Nat), NEW d \in Seq(Nat), NEW z \in Seq(Nat),
           NEW m \in 0 .. L, Len(a) = L, Len(d) = m, Len(z) = L - m,
           NEW v, v = a \o d \o z
    PROVE  IsJoined(v, a, d, z, m)
<1> DEFINE b == a \o d
<1>1. L \in Nat /\ m \in Nat /\ L - m \in Nat /\ 2 * L = L + m + (L - m)
  BY ConstantFacts
<1>2. /\ b \in Seq(Nat) /\ Len(b) = L + m
      /\ \A i \in 1 .. L + m : b[i] = IF i <= L THEN a[i] ELSE d[i - L]
  <2>1. /\ b \in Seq(Nat) /\ Len(b) = Len(a) + Len(d)
        /\ \A i \in 1 .. Len(a) + Len(d) : b[i] = IF i <= Len(a) THEN a[i] ELSE d[i - Len(a)]
    BY ConcatProperties
  <2> HIDE DEF b
  <2> QED
    BY <2>1
<1> HIDE DEF b
<1>3. /\ v \in Seq(Nat) /\ Len(v) = 2 * L
      /\ \A i \in 1 .. 2 * L : v[i] = IF i <= L + m THEN b[i] ELSE z[i - (L + m)]
  <2>1. /\ v \in Seq(Nat) /\ Len(v) = Len(b) + Len(z)
        /\ \A i \in 1 .. Len(b) + Len(z) : v[i] = IF i <= Len(b) THEN b[i] ELSE z[i - Len(b)]
    <3>1. b \in Seq(Nat) /\ v = b \o z
      BY <1>2 DEF b
    <3> QED
      BY ONLY <3>1, z \in Seq(Nat), ConcatProperties
  <2>2. Len(b) + Len(z) = 2 * L
    BY <1>1, <1>2
  <2> QED
    BY <1>2, <2>1, <2>2
<1>4. v \in Windows
  BY <1>3, LenProperties DEF Windows
<1>5. \A k \in 1 .. L : v[k] = a[k]
  BY <1>1, <1>2, <1>3
<1>6. ASSUME NEW k \in 1 .. L
      PROVE  v[L + k] = IF k <= m THEN d[k] ELSE z[k - m]
  <2>0. L + k \in 1 .. 2 * L /\ (L + k <= L + m <=> k <= m)
    BY <1>1
  <2>1. CASE k <= m
    <3>1. L + k \in 1 .. L + m /\ L + k - L = k /\ ~(L + k <= L)
      BY <1>1, <2>1
    <3>2. v[L + k] = b[L + k]
      BY <1>3, <2>0, <2>1
    <3>3. b[L + k] = d[k]
      BY <1>1, <1>2, <3>1
    <3> QED
      BY <2>1, <3>2, <3>3
  <2>2. CASE ~(k <= m)
    <3> DEFINE i == L + k
    <3>1. i \in 1 .. 2 * L /\ ~(i <= L + m) /\ i - (L + m) = k - m
      BY <1>1, <2>0, <2>2
    <3> HIDE DEF i
    <3>2. v[i] = z[i - (L + m)]
      BY <1>3, <3>1
    <3>3. v[i] = z[k - m]
      BY <3>1, <3>2
    <3> QED
      BY <2>2, <3>3 DEF i
  <2> QED
    BY <2>1, <2>2
<1> QED
  BY <1>4, <1>5, <1>6 DEF IsJoined

LEMMA HalfOfWindow ==
    ASSUME NEW s \in Windows, NEW m \in 0 .. L
    PROVE  /\ SubSeq(s, L + m + 1, 2 * L) \in Seq(Nat)
           /\ Len(SubSeq(s, L + m + 1, 2 * L)) = L - m
           /\ \A k \in 1 .. L - m : SubSeq(s, L + m + 1, 2 * L)[k] = s[L + m + k]
<1>1. L \in Nat /\ 2 * L = L + L /\ 2 * L \in Nat
  BY ConstantFacts
<1>2. \A i \in L + m + 1 .. 2 * L : s[i] \in Nat
  BY <1>1 DEF Windows
<1>3. L + m + 1 \in Int /\ 2 * L \in Int /\ 2 * L - (L + m + 1) + 1 = L - m
  BY <1>1
<1>4. /\ SubSeq(s, L + m + 1, 2 * L) \in Seq(Nat)
      /\ Len(SubSeq(s, L + m + 1, 2 * L)) = IF L + m + 1 <= 2 * L THEN 2 * L - (L + m + 1) + 1 ELSE 0
      /\ \A i \in 1 .. 2 * L - (L + m + 1) + 1 : SubSeq(s, L + m + 1, 2 * L)[i] = s[L + m + 1 + i - 1]
  BY <1>2, <1>3, SubSeqProperties
<1>5. \A i \in 1 .. L - m : L + m + 1 + i - 1 = L + m + i
  BY <1>1
<1> QED
  BY <1>1, <1>3, <1>4, <1>5

\* The line is turned: what was at i is at i + 1.
LEMMA TurnedIs ==
    ASSUME NEW w \in [1 .. P -> Windows]
    PROVE  /\ Turned(w) \in [1 .. P -> Windows]
           /\ \A i \in 1 .. P - 1 : Turned(w)[i + 1] = w[i]
<1>1. P \in Nat /\ P >= 1
  BY ConstantFacts
<1>2. /\ SubSeq(w, 1, P - 1) \in Seq(Windows)
      /\ Len(SubSeq(w, 1, P - 1)) = P - 1
      /\ \A i \in 1 .. P - 1 : SubSeq(w, 1, P - 1)[i] = w[i]
  <2>1. \A i \in 1 .. P - 1 : w[i] \in Windows
    BY <1>1
  <2>2. 1 \in Int /\ P - 1 \in Int /\ P - 1 - 1 + 1 = P - 1
    BY <1>1
  <2>3. /\ SubSeq(w, 1, P - 1) \in Seq(Windows)
        /\ Len(SubSeq(w, 1, P - 1)) = IF 1 <= P - 1 THEN P - 1 - 1 + 1 ELSE 0
        /\ \A i \in 1 .. P - 1 - 1 + 1 : SubSeq(w, 1, P - 1)[i] = w[1 + i - 1]
    BY <2>1, <2>2, SubSeqProperties
  <2>4. \A i \in 1 .. P - 1 : 1 + i - 1 = i
    BY <1>1
  <2> QED
    BY <1>1, <2>2, <2>3, <2>4
<1>3. <<w[P]>> \in Seq(Windows) /\ Len(<<w[P]>>) = 1
  BY <1>1
<1> DEFINE r == SubSeq(w, 1, P - 1)
<1> DEFINE h == <<w[P]>>
<1> DEFINE u == h \o r
<1> HIDE DEF r, h
<1>4. /\ u \in Seq(Windows) /\ Len(u) = 1 + (P - 1)
      /\ \A i \in 1 .. 1 + (P - 1) : u[i] = IF i <= 1 THEN h[i] ELSE r[i - 1]
  BY <1>2, <1>3, ConcatProperties DEF r, h
<1> HIDE DEF u
<1>5. u \in [1 .. P -> Windows]
  <2>1. 1 + (P - 1) = P
    BY <1>1
  <2> QED
    BY <1>4, <2>1, LenProperties
<1>6. \A i \in 1 .. P - 1 : u[i + 1] = w[i]
  <2> TAKE i \in 1 .. P - 1
  <2>1. i + 1 \in 1 .. 1 + (P - 1) /\ ~(i + 1 <= 1) /\ i + 1 - 1 = i
    BY <1>1
  <2> QED
    BY <1>2, <1>4, <2>1 DEF r
<1> QED
  BY <1>5, <1>6 DEF Turned, u, h, r

\* The first half of a window is the second half of the one before; the second half is the block.
LEMMA WindowHalves ==
    ASSUME NEW p \in Nat, NEW n \in Nat \ {0}, NEW k \in 1 .. L
    PROVE  /\ WindowFrom(p, n)[k] = WindowFrom(p, n - 1)[L + k]
           /\ WindowFrom(p, n)[L + k] =
                  IF p + (n - 1) * L + k <= InputLength THEN p + (n - 1) * L + k ELSE 0
<1>1. L \in Nat /\ k \in 1 .. 2 * L /\ L + k \in 1 .. 2 * L /\ k \in Nat
  BY ConstantFacts
<1>2. /\ (n - 2) * L + k = (n - 1 - 2) * L + (L + k)
      /\ (n - 2) * L + (L + k) = (n - 1) * L + k
      /\ (n - 1) * L \in Nat /\ (n - 2) * L \in Int
  BY <1>1
<1>3. WindowFrom(p, n)[k] = IF (n - 2) * L + k >= 1 /\ p + ((n - 2) * L + k) <= InputLength
                            THEN p + ((n - 2) * L + k) ELSE 0
  BY <1>1 DEF WindowFrom
<1>4. WindowFrom(p, n - 1)[L + k] =
          IF (n - 1 - 2) * L + (L + k) >= 1 /\ p + ((n - 1 - 2) * L + (L + k)) <= InputLength
          THEN p + ((n - 1 - 2) * L + (L + k)) ELSE 0
  BY <1>1 DEF WindowFrom
<1>5. WindowFrom(p, n)[L + k] =
          IF (n - 2) * L + (L + k) >= 1 /\ p + ((n - 2) * L + (L + k)) <= InputLength
          THEN p + ((n - 2) * L + (L + k)) ELSE 0
  BY <1>1 DEF WindowFrom
<1> DEFINE j == (n - 1) * L
<1>6. j \in Nat
  BY <1>2
<1>7. WindowFrom(p, n)[L + k] = IF j + k >= 1 /\ p + (j + k) <= InputLength THEN p + (j + k) ELSE 0
  BY <1>2, <1>5
<1> HIDE DEF j
<1>8. WindowFrom(p, n)[L + k] = IF p + j + k <= InputLength THEN p + j + k ELSE 0
  BY <1>1, <1>6, <1>7
<1> QED
  BY <1>2, <1>3, <1>4, <1>8 DEF j

\* d is the block of window w, with silence behind it.
IsBlockOf(d, w) ==
    /\ \A k \in 1 .. Len(d) : d[k] = w[L + k]
    /\ \A k \in Len(d) + 1 .. L : w[L + k] = 0

LEMMA NextWindow ==
    ASSUME NEW p \in Nat, NEW n \in Nat \ {0}, NEW d \in Seq(Nat), Len(d) \in 0 .. L,
           IsBlockOf(d, WindowFrom(p, n))
    PROVE  SubSeq(WindowFrom(p, n - 1), L + 1, 2 * L) \o d \o Silence(L - Len(d)) = WindowFrom(p, n)
<1> DEFINE m == Len(d)
<1> DEFINE s == WindowFrom(p, n - 1)
<1>0. /\ m \in 0 .. L /\ Len(d) = m
      /\ \A k \in 1 .. m : d[k] = WindowFrom(p, n)[L + k]
      /\ \A k \in m + 1 .. L : WindowFrom(p, n)[L + k] = 0
  BY DEF IsBlockOf
<1> HIDE DEF m
<1>1. L \in Nat /\ s \in Windows /\ WindowFrom(p, n) \in Windows /\ 0 \in 0 .. L /\ L + 0 + 1 = L + 1
  BY <1>0, ConstantFacts, WindowType
<1> HIDE DEF s
<1> DEFINE a == SubSeq(s, L + 1, 2 * L)
<1> DEFINE z == Silence(L - m)
<1>2. a \in Seq(Nat) /\ Len(a) = L /\ \A k \in 1 .. L : a[k] = s[L + k]
  <2>1. /\ SubSeq(s, L + 0 + 1, 2 * L) \in Seq(Nat)
        /\ Len(SubSeq(s, L + 0 + 1, 2 * L)) = L - 0
        /\ \A k \in 1 .. L - 0 : SubSeq(s, L + 0 + 1, 2 * L)[k] = s[L + 0 + k]
    BY <1>1, HalfOfWindow
  <2>2. L - 0 = L /\ \A k \in 1 .. L : L + 0 + k = L + k
    BY <1>1
  <2> QED
    BY <1>1, <2>1, <2>2
<1>3. z \in Seq(Nat) /\ Len(z) = L - m /\ \A k \in 1 .. L - m : z[k] = 0
  <2>1. L - m \in Nat
    BY <1>0, <1>1
  <2> QED
    BY <2>1, SilenceType
<1> HIDE DEF a, z
<1> DEFINE v == a \o d \o z
<1>4. /\ v \in Windows
      /\ \A k \in 1 .. L : v[k] = a[k]
      /\ \A k \in 1 .. L : v[L + k] = IF k <= m THEN d[k] ELSE z[k - m]
  <2>1. a \in Seq(Nat) /\ z \in Seq(Nat) /\ Len(a) = L /\ Len(z) = L - m /\ v = a \o d \o z
    BY <1>2, <1>3
  <2> HIDE DEF v
  <2>2. IsJoined(v, a, d, z, m)
    BY <1>0, <2>1, Joined
  <2> QED
    BY <2>2 DEF IsJoined
<1> HIDE DEF v
<1>5. ASSUME NEW i \in 1 .. 2 * L
      PROVE  v[i] = WindowFrom(p, n)[i]
  <2>1. CASE i <= L
    <3>1. i \in 1 .. L
      BY <1>1, <2>1
    <3>2. v[i] = s[L + i]
      BY <1>2, <1>4, <3>1
    <3>3. WindowFrom(p, n)[i] = WindowFrom(p, n - 1)[L + i]
      BY <3>1, WindowHalves
    <3> QED
      BY <3>2, <3>3 DEF s
  <2>2. CASE ~(i <= L)
    <3> DEFINE k == i - L
    <3>1. k \in 1 .. L /\ i = L + k
      BY <1>1, <2>2
    <3> HIDE DEF k
    <3>2. v[i] = IF k <= m THEN d[k] ELSE z[k - m]
      BY <1>4, <3>1
    <3>3. CASE k <= m
      <4>1. k \in 1 .. m
        BY <1>0, <1>1, <3>1, <3>3
      <4> QED
        BY <1>0, <3>1, <3>2, <3>3, <4>1
    <3>4. CASE ~(k <= m)
      <4>1. k \in m + 1 .. L /\ k - m \in 1 .. L - m
        BY <1>0, <1>1, <3>1, <3>4
      <4> QED
        BY <1>0, <1>3, <3>1, <3>2, <3>4, <4>1
    <3> QED
      BY <3>3, <3>4
  <2> QED
    BY <2>1, <2>2
<1>6. v = WindowFrom(p, n)
  BY <1>1, <1>4, <1>5 DEF Windows
<1> QED
  BY <1>0, <1>6 DEF v, a, z, s

\* The buffer keeps the window, with a whole block.
LEMMA NextShift ==
    ASSUME NEW s \in Windows, NEW m \in 0 .. L, NEW d \in Seq(Nat), Len(d) = m
    PROVE  /\ SubSeq(s, L + 1, 2 * L) \o d \o SubSeq(s, L + m + 1, 2 * L) \in Windows
           /\ SubSeq(s, L + 1, 2 * L) \o d \o Silence(L - m) \in Windows
           /\ m = L => SubSeq(s, L + 1, 2 * L) \o d \o SubSeq(s, L + m + 1, 2 * L) =
                           SubSeq(s, L + 1, 2 * L) \o d \o Silence(L - m)
<1>1. L \in Nat /\ 0 \in 0 .. L /\ L + 0 + 1 = L + 1 /\ L - m \in Nat
  BY ConstantFacts
<1> DEFINE a == SubSeq(s, L + 1, 2 * L)
<1> DEFINE y == SubSeq(s, L + m + 1, 2 * L)
<1> DEFINE z == Silence(L - m)
<1>2. a \in Seq(Nat) /\ Len(a) = L
  <2>1. SubSeq(s, L + 0 + 1, 2 * L) \in Seq(Nat) /\ Len(SubSeq(s, L + 0 + 1, 2 * L)) = L - 0
    BY <1>1, HalfOfWindow
  <2> QED
    BY <1>1, <2>1
<1>3. z \in Seq(Nat) /\ Len(z) = L - m
  BY <1>1, SilenceType
<1>4. y \in Seq(Nat) /\ Len(y) = L - m
  BY HalfOfWindow
<1>5. ASSUME m = L PROVE y = z
  <2>1. Len(y) = 0 /\ Len(z) = 0
    BY <1>1, <1>3, <1>4, <1>5
  <2> HIDE DEF y, z
  <2> QED
    BY <1>3, <1>4, <2>1, EmptySeq
<1> HIDE DEF a, y, z
<1>6. \A v : v = a \o d \o y => v \in Windows
  BY <1>2, <1>4, Joined DEF IsJoined
<1>7. \A v : v = a \o d \o z => v \in Windows
  BY <1>2, <1>3, Joined DEF IsJoined
<1> QED
  BY <1>5, <1>6, <1>7 DEF a, y, z
------------------------------------------------------------------------------
(* The invariant. *)

\* The sound ends with a block, from wherever it is played.
WholeBlocks == \A p \in Places \cup {0} : p < InputLength => \E n \in Nat : InputLength = p + n * L

\* The last task, whose result the reader takes, has a channel.
LastTaskWorks == ShareOf(nTasks - 1) # {}

Sums == SUBSET ((0 .. P - 1) \X Windows)
Samples == [sum : Sums, at : Nat]
Frame == [Channel -> Samples]
Parts == 0 .. m_numThreads - 1
Tasks == 0 .. nTasks - 1
PartTask == [kind : {"part"}, channel : Channel, id : Parts]
QueuedTask == [kind : {"channels"}, id : Tasks, input : BOOLEAN]
BegunTask == [kind : {"channels"}, id : Tasks, input : BOOLEAN, l : 1 .. L,
              queues : Channel \cup {NoChannel}, left : SUBSET Channel]
ReaderState ==
    [at : {"idle"}, got : Seq(Frame)]
    \cup [at : {"copy"}, want : Nat \ {0}, got : Seq(Frame)]
    \cup [at : {"load", "wait"}, want : Nat \ {0}, got : Seq(Frame), rest : Nat, w : Nat]
    \cup [at : {"reset"}, to : Places, channel : Channel, got : Seq(Frame)]

\* Every variable keeps its type.
PoolTypes ==
    /\ m_queue \in Seq(PartTask \cup QueuedTask)
    /\ work \in [Threads -> {Idle} \cup PartTask \cup BegunTask]

ConvolverTypes ==
    /\ m_futures \in [Channel -> SUBSET Parts]
    /\ m_resetFlag \in [Channel -> BOOLEAN]
    /\ shift \in [Channel -> Windows]
    /\ line \in [Channel -> [1 .. P -> Windows]]
    /\ acc \in [Channel -> Sums]
    /\ tail \in [Channel -> Nat]
    /\ inOut \in [Channel -> [1 .. L -> Samples]]

ReaderTypes ==
    /\ m_eosTail \in BOOLEAN
    /\ out \in [buf : Seq(Frame), pos : 0 .. L, len : 1 .. L] /\ out.pos <= out.len
    /\ reader \in ReaderState
    /\ position \in Nat /\ base \in Places \cup {0} /\ total \in Nat

Types == PoolTypes /\ ConvolverTypes /\ ReaderTypes

\* A block of the sound is one of Blocks, or one of P silent ones behind them.
Blocks == BlocksOfSound
Terms(p, n, S) == UNION {Term(i, WindowFrom(p, n - i)) : i \in S}
Whole(p, n) == Terms(p, n, 0 .. P - 1)
PartShare(id) == Share(id, m_numThreads, 1, P - 1)

Queued(j, i) == m_queue[j].kind = "channels" /\ m_queue[j].id = i
Begins(t, i) == work[t].kind = "channels" /\ work[t].id = i

\* Each task of the reader is queued once, or on one thread, or has ended.
TasksOnce ==
    /\ \A i \in Tasks : \A j, k \in DOMAIN m_queue : Queued(j, i) /\ Queued(k, i) => j = k
    /\ \A i \in Tasks : \A t, u \in Threads : Begins(t, i) /\ Begins(u, i) => t = u
    /\ \A i \in Tasks : \A j \in DOMAIN m_queue : \A t \in Threads : ~(Queued(j, i) /\ Begins(t, i))
    /\ \A i \in Tasks : (\E j \in DOMAIN m_queue : Queued(j, i)) \/ (\E t \in Threads : Begins(t, i)) =>
           reader.at = "wait" /\ results[i] = -1

\* A channel whose task has not yet got the block that the reader waits for.
Due(c) ==
    \/ \E i \in Tasks : \E j \in DOMAIN m_queue : Queued(j, i) /\ c \in ShareOf(i)
    \/ \E t \in Threads : work[t].kind = "channels" /\ c \in work[t].left

Enqueues(c) == \E t \in Threads : work[t].kind = "channels" /\ work[t].queues = c

\* Channel c has got n blocks.
ChannelAt(c, n) ==
    /\ tail[c] = IF n <= Blocks THEN 0 ELSE n - Blocks
    /\ n < Blocks + P =>
           /\ shift[c] = WindowFrom(base, n)
           /\ \A i \in 1 .. P - 1 : line[c][i + 1] = WindowFrom(base, n + 1 - i)
           /\ acc[c] \subseteq Terms(base, n + 1, 1 .. P - 1)
           /\ \A id \in Parts : [channel |-> c, id |-> id] \in done =>
                  Terms(base, n + 1, PartShare(id)) \subseteq acc[c]
           /\ n > 0 /\ ~Enqueues(c) => m_futures[c] = Parts

\* ... of the b blocks that were read.
ChannelOK(c, b) ==
    /\ ~m_resetFlag[c]
    /\ ChannelAt(c, IF Due(c) THEN b - 1 ELSE b)
    /\ Due(c) /\ b <= Blocks => \A k \in 1 .. L : inOut[c][k].at = base + (b - 1) * L + k
    /\ ~Due(c) /\ b > 0 => inOut[c] = [k \in 1 .. L |-> [sum |-> Whole(base, b), at |-> k]]

Fresh(c) ==
    /\ ~m_resetFlag[c]
    /\ shift[c] = Silence(2 * L) /\ line[c] = Cleared[c] /\ acc[c] = {} /\ tail[c] = 0

ChannelsOK(b) ==
    /\ reader.at # "reset" => \A c \in Channel : ChannelOK(c, b)
    /\ reader.at = "reset" => \A c \in Channel : c < reader.channel => Fresh(c)
    /\ reader.at = "reset" => \A c \in Channel : c > reader.channel => ~m_resetFlag[c]

\* The tasks of the reader for block b.
LengthIn(b, begun) == IF b = Blocks + P /\ begun THEN LastLength ELSE L

TaskOK(t, b) ==
    work[t].kind = "channels" =>
        /\ work[t].input = (b <= Blocks)
        /\ work[t].left \subseteq ShareOf(work[t].id)
        /\ work[t].l = LengthIn(b, work[t].left # ShareOf(work[t].id))
        /\ work[t].queues # NoChannel =>
               /\ work[t].queues \in ShareOf(work[t].id) \ work[t].left
               /\ \E k \in Parts : m_futures[work[t].queues] = 0 .. k - 1

TasksOK(b) ==
    /\ \A t \in Threads : TaskOK(t, b)
    /\ \A j \in DOMAIN m_queue : m_queue[j].kind = "channels" => m_queue[j].input = (b <= Blocks)
    /\ reader.at = "wait" =>
           /\ b > 0 /\ lengthIn = L
           /\ results \in [Tasks -> {-1} \cup 1 .. L]
           /\ \A i \in Tasks : results[i] >= 0 => results[i] = LengthIn(b, ShareOf(i) # {})

\* The sound has been read up to block b, and the tail ends with the last of the silent ones.
BlocksOK(b) ==
    /\ b <= Blocks + P
    /\ position = base + (IF b <= Blocks THEN b ELSE Blocks) * L
    /\ reader.at = "load" => ~m_eosTail
    /\ IF reader.at = "wait" /\ \A c \in Channel : Due(c) THEN ~m_eosTail ELSE m_eosTail = (b = Blocks + P)

\* The samples that were read come from the n blocks that were loaded.
Loaded(b) == IF reader.at = "wait" THEN b - 1 ELSE b
Heard == IF reader.at = "idle" THEN total ELSE total + Len(reader.got)

\* The sample at place j of the convolution of the sound from p on.
ConvolvedFrom(p, j) ==
    LET n == CeilDiv(j, L) IN [sum |-> Whole(p, n), at |-> j - (n - 1) * L]

\* The samples are those of the convolution behind place h.
Right(p, got, h) == \A j \in 1 .. Len(got) : \A c \in Channel : got[j][c] = ConvolvedFrom(p, h + j)

\* m samples of block n in every channel.
BlockOf(p, n, m) == [k \in 1 .. m |-> [c \in Channel |-> [sum |-> Whole(p, n), at |-> k]]]

StreamOK(b) ==
    LET n == Loaded(b) IN
    /\ reader.at \in {"load", "wait"} => out.pos = out.len /\ reader.rest < reader.w
    /\ reader.at = "reset" => reader.got = <<>>
    /\ n = 0 => Heard = 0 /\ out.pos = out.len
    /\ n > 0 =>
           /\ Heard = (n - 1) * L + out.pos
           /\ out.buf = BlockOf(base, n, out.len)
    /\ n < Blocks + P => out.len = L
    /\ n = Blocks + P /\ LastTaskWorks => out.len = LastLength
    /\ Heard - Len(reader.got) \in Nat
    /\ Right(base, reader.got, Heard - Len(reader.got))

Inv(b) == Types /\ TasksOnce /\ ChannelsOK(b) /\ TasksOK(b) /\ BlocksOK(b) /\ StreamOK(b)

IInv == \E b \in Nat : Inv(b)
------------------------------------------------------------------------------
(* Blocks. *)

LEMMA BlocksFacts ==
    ASSUME WholeBlocks, base \in Places \cup {0}
    PROVE  /\ Blocks \in Nat /\ base \in Nat
           /\ base < InputLength => InputLength = base + Blocks * L
           /\ base >= InputLength => Blocks = 0
<1>1. base \in Nat /\ InputLength \in Nat /\ L \in Nat /\ L >= 1
  BY ConstantFacts
<1>2. CASE base < InputLength
  <2>1. PICK n \in Nat : InputLength = base + n * L
    BY <1>2 DEF WholeBlocks
  <2>2. n * L = InputLength - base /\ n # 0
    BY <1>1, <1>2, <2>1
  <2>3. (n - 1) * L + L = n * L
    BY <1>1, <2>1
  <2>4. CeilDiv(n * L, L) = n
    BY <1>1, <2>2, <2>3, CeilDivIs
  <2>5. Blocks = n
    BY <1>1, <1>2, <2>2, <2>4 DEF Blocks, BlocksOfSound
  <2> QED
    BY <1>1, <1>2, <2>1, <2>5
<1>3. CASE ~(base < InputLength)
  BY <1>1, <1>3 DEF Blocks, BlocksOfSound
<1> QED
  BY <1>2, <1>3

LEMMA BlocksKept ==
    ASSUME base' = base
    PROVE  Blocks' = Blocks
BY DEF Blocks, BlocksOfSound

LEMMA ConvolvedFromIs ==
    ASSUME NEW p, NEW n \in Nat \ {0}, NEW k \in 1 .. L
    PROVE  ConvolvedFrom(p, (n - 1) * L + k) = [sum |-> Whole(p, n), at |-> k]
<1> DEFINE j == (n - 1) * L + k
<1>1. CeilDiv(j, L) = n
  BY CeilDivIs
<1>2. j - (n - 1) * L = k
  <2>1. (n - 1) * L \in Int /\ k \in Int
    BY ConstantFacts
  <2> QED
    BY <2>1
<1> HIDE DEF j
<1>3. ConvolvedFrom(p, j) = [sum |-> Whole(p, n), at |-> j - (n - 1) * L]
  BY <1>1 DEF ConvolvedFrom
<1> QED
  BY <1>2, <1>3 DEF j

LEMMA ConvolvedIs == \A j : Convolved(j) = ConvolvedFrom(base, j)
BY SoundWindowIs DEF Convolved, ConvolvedFrom, Whole, Terms

\* What a read copies from a block.
Piece(p, n, len, pos, m) == SubSeq(BlockOf(p, n, len), pos + 1, pos + m)

LEMMA PieceOfBlock ==
    ASSUME NEW p, NEW n \in Nat \ {0}, NEW len \in 1 .. L, BlockOf(p, n, len) \in Seq(Frame),
           NEW pos \in 0 .. len, NEW m \in 0 .. len - pos
    PROVE  /\ Piece(p, n, len, pos, m) \in Seq(Frame)
           /\ Len(Piece(p, n, len, pos, m)) = m
           /\ Right(p, Piece(p, n, len, pos, m), (n - 1) * L + pos)
<1> DEFINE buf == BlockOf(p, n, len)
<1> DEFINE u == SubSeq(buf, pos + 1, pos + m)
<1>1. /\ L \in Nat /\ len \in Nat /\ pos \in Nat /\ m \in Nat
  BY ConstantFacts
<1>2. \A i \in 1 .. len : buf[i] \in Frame
  <2>1. DOMAIN buf = 1 .. len
    BY DEF BlockOf
  <2>2. Len(buf) \in Nat /\ DOMAIN buf = 1 .. Len(buf) /\ buf \in [1 .. Len(buf) -> Frame]
    BY LenProperties
  <2> QED
    BY <2>1, <2>2
<1>3. /\ u \in Seq(Frame)
      /\ Len(u) = IF pos + 1 <= pos + m THEN pos + m - (pos + 1) + 1 ELSE 0
      /\ \A i \in 1 .. pos + m - (pos + 1) + 1 : u[i] = buf[pos + 1 + i - 1]
  <2>1. \A i \in pos + 1 .. pos + m : buf[i] \in Frame
    BY <1>1, <1>2
  <2>2. pos + 1 \in Int /\ pos + m \in Int
    BY <1>1
  <2> QED
    BY <2>1, <2>2, SubSeqProperties
<1> HIDE DEF u
<1>4. pos + m - (pos + 1) + 1 = m /\ \A i \in 1 .. m : pos + 1 + i - 1 = pos + i
  BY <1>1
<1>5. Len(u) = m /\ \A i \in 1 .. m : u[i] = buf[pos + i]
  BY <1>1, <1>3, <1>4
<1>6. ASSUME NEW i \in 1 .. m, NEW c \in Channel
      PROVE  u[i][c] = ConvolvedFrom(p, (n - 1) * L + pos + i)
  <2> DEFINE k == pos + i
  <2>1. k \in 1 .. len /\ k \in 1 .. L
    BY <1>1
  <2> HIDE DEF k
  <2>2. buf[k][c] = [sum |-> Whole(p, n), at |-> k]
    BY <2>1 DEF BlockOf
  <2>3. ConvolvedFrom(p, (n - 1) * L + k) = [sum |-> Whole(p, n), at |-> k]
    BY <2>1, ConvolvedFromIs
  <2>4. (n - 1) * L + k = (n - 1) * L + pos + i
    <3>1. (n - 1) * L \in Int
      BY <1>1
    <3> QED
      BY <1>1, <3>1 DEF k
  <2> QED
    BY <1>5, <2>2, <2>3, <2>4 DEF k
<1> QED
  BY <1>3, <1>5, <1>6 DEF Right, Piece, u

\* A read that is right stays right when the samples that follow are appended.
LEMMA GotGrows ==
    ASSUME NEW p, NEW got \in Seq(Frame), NEW piece \in Seq(Frame), NEW h \in Nat,
           Right(p, got, h), Right(p, piece, h + Len(got))
    PROVE  /\ got \o piece \in Seq(Frame)
           /\ Len(got \o piece) = Len(got) + Len(piece)
           /\ Right(p, got \o piece, h)
<1> DEFINE v == got \o piece
<1>1. Len(got) \in Nat /\ Len(piece) \in Nat
  BY LenProperties
<1>2. /\ v \in Seq(Frame) /\ Len(v) = Len(got) + Len(piece)
      /\ \A i \in 1 .. Len(got) + Len(piece) : v[i] = IF i <= Len(got) THEN got[i] ELSE piece[i - Len(got)]
  BY ConcatProperties
<1> HIDE DEF v
<1>3. ASSUME NEW j \in 1 .. Len(v), NEW c \in Channel
      PROVE  v[j][c] = ConvolvedFrom(p, h + j)
  <2>1. CASE j <= Len(got)
    <3>1. j \in 1 .. Len(got)
      BY <1>1, <1>2, <2>1
    <3> QED
      BY <1>2, <2>1, <3>1 DEF Right
  <2>2. CASE ~(j <= Len(got))
    <3> DEFINE i == j - Len(got)
    <3>1. i \in 1 .. Len(piece) /\ h + Len(got) + i = h + j
      BY <1>1, <1>2, <2>2
    <3>2. v[j] = piece[i]
      BY <1>2, <2>2
    <3> HIDE DEF i
    <3>3. piece[i][c] = ConvolvedFrom(p, h + Len(got) + i)
      BY <3>1 DEF Right
    <3> QED
      BY <3>1, <3>2, <3>3
  <2> QED
    BY <2>1, <2>2
<1> QED
  BY <1>2, <1>3 DEF Right, v
------------------------------------------------------------------------------
(* What does not change. *)

LEMMA DueKept ==
    ASSUME UNCHANGED pool
    PROVE  \A c : (Due(c)' <=> Due(c)) /\ (Enqueues(c)' <=> Enqueues(c))
<1>1. m_queue' = m_queue /\ work' = work
  BY DEF pool
<1> QED
  BY <1>1 DEF Due, Enqueues, Queued

LEMMA ChannelKept ==
    ASSUME NEW b, UNCHANGED <<pool, convolvers, inOut, base>>, NEW c
    PROVE  ChannelOK(c, b)' <=> ChannelOK(c, b)
<1>1. /\ done' = done /\ m_futures' = m_futures /\ m_resetFlag' = m_resetFlag /\ shift' = shift
      /\ line' = line /\ acc' = acc /\ tail' = tail /\ inOut' = inOut /\ base' = base
  BY DEF pool, convolvers
<1>2. Blocks' = Blocks
  BY <1>1, BlocksKept
<1>3. (Due(c)' <=> Due(c)) /\ (Enqueues(c)' <=> Enqueues(c))
  BY DueKept
<1>4. \A n : ChannelAt(c, n)' <=> ChannelAt(c, n)
  BY <1>1, <1>2, <1>3 DEF ChannelAt
<1> QED
  BY <1>1, <1>2, <1>3, <1>4 DEF ChannelOK

LEMMA ConvolverTypesKept ==
    ASSUME UNCHANGED <<pool, convolvers, inOut>>, PoolTypes, ConvolverTypes
    PROVE  PoolTypes' /\ ConvolverTypes'
BY DEF pool, convolvers, PoolTypes, ConvolverTypes

\* The parts of the invariant when the reader makes a step that the pool does not take part in.
LEMMA PoolKept ==
    ASSUME NEW b, Inv(b), UNCHANGED <<pool, convolvers, inOut, base, lengthIn, results, position, m_eosTail>>,
           reader.at # "wait", reader'.at # "wait",
           reader.at # "reset", reader'.at # "reset",
           reader'.at = "load" => ~m_eosTail
    PROVE  TasksOnce' /\ ChannelsOK(b)' /\ TasksOK(b)' /\ BlocksOK(b)'
<1>1. /\ m_queue' = m_queue /\ work' = work /\ m_futures' = m_futures
      /\ base' = base /\ position' = position /\ m_eosTail' = m_eosTail
  BY DEF pool, convolvers
<1>2. Blocks' = Blocks
  BY <1>1, BlocksKept
<1>3. TasksOnce'
  BY <1>1 DEF Inv, TasksOnce, Queued, Begins
<1>4. ChannelsOK(b)'
  BY ChannelKept DEF Inv, ChannelsOK
<1>5. TasksOK(b)'
  BY <1>1, <1>2 DEF Inv, TasksOK, TaskOK, LengthIn
<1>6. BlocksOK(b)'
  BY <1>1, <1>2 DEF Inv, BlocksOK
<1> QED
  BY <1>3, <1>4, <1>5, <1>6
------------------------------------------------------------------------------
(* The steps of the reader. *)

LEMMA ReadKeeps ==
    ASSUME NEW b \in Nat, Inv(b), NEW n \in Wanted, Read(n)
    PROVE  Inv(b)'
<1>1. /\ reader.at = "idle" /\ reader' = [at |-> "copy", want |-> n, got |-> <<>>]
      /\ UNCHANGED <<pool, convolvers, inOut, lengthIn, results, m_eosTail, out, position, base, total, seeks>>
  BY DEF Read
<1>2. TasksOnce' /\ ChannelsOK(b)' /\ TasksOK(b)' /\ BlocksOK(b)'
  BY <1>1, PoolKept
<1>3. Types'
  <2>1. reader' \in ReaderState
    <3>1. <<>> \in Seq(Frame) /\ n \in Nat \ {0}
      BY ConstantFacts, EmptySeq
    <3> QED
      BY <1>1, <3>1 DEF ReaderState
  <2>2. ReaderTypes'
    BY <1>1, <2>1 DEF Inv, Types, ReaderTypes
  <2> QED
    BY <1>1, <2>2, ConvolverTypesKept DEF Inv, Types
<1>4. StreamOK(b)'
  <2>1. Blocks' = Blocks
    BY <1>1, BlocksKept
  <2>2. Loaded(b)' = b /\ Loaded(b) = b
    BY <1>1 DEF Loaded
  <2>3. Len(reader'.got) = 0 /\ reader'.at = "copy"
    BY <1>1
  <2>4. total \in Nat
    BY DEF Inv, Types, ReaderTypes
  <2>5. Heard' = Heard /\ Heard = total
    BY <1>1, <2>3, <2>4 DEF Heard
  <2>6. StreamOK(b)
    BY DEF Inv
  <2>7. \A h : Right(base', reader'.got, h)
    BY <2>3 DEF Right
  <2>8. Heard' - Len(reader'.got) \in Nat
    BY <2>3, <2>4, <2>5
  <2> QED
    BY <1>1, <2>1, <2>2, <2>3, <2>5, <2>6, <2>7, <2>8 DEF StreamOK
<1> QED
  BY <1>2, <1>3, <1>4 DEF Inv

LEMMA SeekKeeps ==
    ASSUME NEW b \in Nat, Inv(b), NEW p \in Places, Seek(p)
    PROVE  Inv(b)'
<1>1. /\ reader.at = "idle" /\ reader' = [at |-> "reset", to |-> p, channel |-> 0, got |-> <<>>]
      /\ m_resetFlag' = [m_resetFlag EXCEPT ![0] = TRUE]
      /\ m_queue' = m_queue /\ work' = work /\ m_futures' = m_futures /\ shift' = shift /\ line' = line
      /\ acc' = acc /\ tail' = tail /\ inOut' = inOut /\ m_eosTail' = m_eosTail /\ out' = out
      /\ position' = position /\ base' = base /\ total' = total
  BY DEF Seek, pool
<1>2. Blocks' = Blocks
  BY <1>1, BlocksKept
<1>3. TasksOnce'
  BY <1>1 DEF Inv, TasksOnce, Queued, Begins
<1>4. ChannelsOK(b)'
  <2>1. \A c \in Channel : ~m_resetFlag[c]
    BY <1>1 DEF Inv, ChannelsOK, ChannelOK
  <2>2. m_resetFlag \in [Channel -> BOOLEAN]
    BY DEF Inv, Types, ConvolverTypes
  <2>3. \A c \in Channel : c > 0 => ~m_resetFlag'[c]
    BY <1>1, <2>1, <2>2
  <2>4. \A c \in Channel : ~(c < 0)
    BY DEF Channel
  <2> QED
    BY <1>1, <2>3, <2>4 DEF ChannelsOK
<1>5. TasksOK(b)'
  BY <1>1, <1>2 DEF Inv, TasksOK, TaskOK, LengthIn
<1>6. BlocksOK(b)'
  BY <1>1, <1>2 DEF Inv, BlocksOK
<1>7. Types'
  <2>1. reader' \in ReaderState
    <3>1. <<>> \in Seq(Frame) /\ 0 \in Channel
      BY ConstantFacts, EmptySeq DEF Channel
    <3> QED
      BY <1>1, <3>1 DEF ReaderState
  <2>2. ReaderTypes'
    BY <1>1, <2>1 DEF Inv, Types, ReaderTypes
  <2>3. PoolTypes' /\ ConvolverTypes'
    BY <1>1 DEF Inv, Types, PoolTypes, ConvolverTypes
  <2> QED
    BY <2>2, <2>3 DEF Types
<1>8. StreamOK(b)'
  <2>2. Loaded(b)' = b /\ Loaded(b) = b
    BY <1>1 DEF Loaded
  <2>3. Len(reader'.got) = 0 /\ reader'.at = "reset" /\ reader'.got = <<>>
    BY <1>1
  <2>4. total \in Nat
    BY DEF Inv, Types, ReaderTypes
  <2>5. Heard' = Heard /\ Heard = total
    BY <1>1, <2>3, <2>4 DEF Heard
  <2>6. StreamOK(b)
    BY DEF Inv
  <2>7. \A h : Right(base', reader'.got, h)
    BY <2>3 DEF Right
  <2>8. Heard' - Len(reader'.got) \in Nat
    BY <2>3, <2>4, <2>5
  <2> QED
    BY <1>1, <1>2, <2>2, <2>3, <2>5, <2>6, <2>7, <2>8 DEF StreamOK
<1> QED
  BY <1>3, <1>4, <1>5, <1>6, <1>7, <1>8 DEF Inv

\* What a read appends of the block in the buffer.
LEMMA CopiedFromBlock ==
    ASSUME NEW b \in Nat, Inv(b), reader.at = "copy", NEW n \in 0 .. Rest,
           NEW got, got = reader.got \o SubSeq(out.buf, out.pos + 1, out.pos + n)
    PROVE  /\ got \in Seq(Frame) /\ Len(got) \in Nat
           /\ b = 0 => total + Len(got) = 0
           /\ b > 0 => total + Len(got) = (b - 1) * L + (out.pos + n)
           /\ Right(base, got, total)
<1> DEFINE pos == out.pos
<1> DEFINE len == out.len
<1> DEFINE start == (b - 1) * L
<1> DEFINE before == Len(reader.got)
<1> DEFINE piece == SubSeq(out.buf, out.pos + 1, out.pos + n)
<1>1. /\ out.buf \in Seq(Frame) /\ pos \in Nat /\ len \in 1 .. L /\ pos <= len
      /\ reader.got \in Seq(Frame) /\ total \in Nat /\ L \in Nat
  BY ConstantFacts DEF Inv, Types, ReaderTypes, ReaderState
<1>2. before \in Nat
  BY <1>1, LenProperties
<1>3. Heard = total + before /\ Loaded(b) = b
  BY DEF Heard, Loaded
<1>4. /\ b = 0 => Heard = 0 /\ pos = len
      /\ b > 0 => Heard = start + pos /\ out.buf = BlockOf(base, b, out.len)
      /\ Right(base, reader.got, Heard - before)
  BY <1>3 DEF Inv, StreamOK, BlockOf
<1>5. Heard - before = total
  <2> HIDE DEF before
  <2> QED
    BY <1>1, <1>2, <1>3
<1>6. Rest = len - pos /\ n \in Nat /\ n <= len - pos
  BY <1>1 DEF Rest
<1>7. /\ piece \in Seq(Frame) /\ Len(piece) = n /\ Right(base, piece, total + before)
  <2>1. CASE b = 0
    <3>1. n = 0 /\ out.pos + n < out.pos + 1
      BY <1>1, <1>4, <1>6, <2>1
    <3>2. out.pos + 1 \in Int /\ out.pos + n \in Int
      BY <1>1, <1>6
    <3>3. piece = <<>>
      BY <3>1, <3>2, SubSeqEmpty
    <3>4. piece \in Seq(Frame) /\ Len(piece) = 0
      BY <3>3, EmptySeq
    <3> HIDE DEF piece
    <3> QED
      BY <3>1, <3>4 DEF Right
  <2>2. CASE b # 0
    <3>1. b \in Nat \ {0} /\ out.pos \in 0 .. out.len /\ n \in 0 .. out.len - out.pos
      BY <1>1, <1>6, <2>2
    <3>2. out.buf = BlockOf(base, b, out.len)
      BY <1>4, <3>1
    <3> HIDE DEF piece
    <3>3. piece \in Seq(Frame) /\ Len(piece) = n /\ Right(base, piece, (b - 1) * L + out.pos)
      <4>1. BlockOf(base, b, out.len) \in Seq(Frame) /\ out.len \in 1 .. L
        BY <1>1, <3>2
      <4>2. piece = Piece(base, b, out.len, out.pos, n)
        BY <3>2 DEF piece, Piece
      <4> QED
        BY <3>1, <4>1, <4>2, PieceOfBlock
    <3>4. (b - 1) * L + out.pos = total + before
      BY <1>3, <1>4, <3>1
    <3> QED
      BY <3>3, <3>4
  <2> QED
    BY <2>1, <2>2
<1> HIDE DEF piece
<1>8. got = reader.got \o piece
  BY DEF piece
<1>9. Right(base, reader.got, total)
  BY <1>4, <1>5
<1>10. got \in Seq(Frame) /\ Len(got) = before + Len(piece) /\ Right(base, got, total)
  <2>1. /\ reader.got \in Seq(Frame) /\ piece \in Seq(Frame) /\ total \in Nat
        /\ Right(base, reader.got, total) /\ Right(base, piece, total + Len(reader.got))
    BY <1>1, <1>7, <1>9
  <2>2. /\ reader.got \o piece \in Seq(Frame)
        /\ Len(reader.got \o piece) = Len(reader.got) + Len(piece)
        /\ Right(base, reader.got \o piece, total)
    BY ONLY <2>1, GotGrows
  <2> QED
    BY <1>8, <2>2
<1>11. start \in Int
  BY <1>1
<1> HIDE DEF pos, len, start, before
<1>12. b > 0 => total + Len(got) = start + (pos + n)
  <2> SUFFICES ASSUME b > 0 PROVE total + Len(got) = start + (pos + n)
    OBVIOUS
  <2>1. total + before = start + pos /\ Len(got) = before + n
    BY <1>3, <1>4, <1>7, <1>10
  <2>2. total \in Nat /\ pos \in Nat
    BY <1>1
  <2> QED
    BY ONLY <1>2, <1>11, <2>1, <2>2, n \in Nat
<1>13. b = 0 => total + Len(got) = 0
  BY <1>1, <1>2, <1>3, <1>4, <1>6, <1>7, <1>10
<1>14. Len(got) \in Nat
  BY <1>2, <1>6, <1>7, <1>10
<1> QED
  BY <1>10, <1>12, <1>13, <1>14 DEF start, pos

LEMMA CopyKeeps ==
    ASSUME NEW b \in Nat, Inv(b), Copy
    PROVE  Inv(b)'
<1> DEFINE w == WriteLength(reader.want)
<1> DEFINE n == Min({w, Rest})
<1> DEFINE got == reader.got \o SubSeq(out.buf, out.pos + 1, out.pos + n)
<1>1. /\ reader.at = "copy" /\ out' = [out EXCEPT !.pos = @ + n]
      /\ IF Rest < w /\ ~m_eosTail
         THEN reader' = [at |-> "load", want |-> reader.want, got |-> got, rest |-> n, w |-> w] /\ total' = total
         ELSE reader' = [at |-> "idle", got |-> got] /\ total' = total + Len(got)
      /\ UNCHANGED <<pool, convolvers, inOut, lengthIn, results, m_eosTail, position, base, seeks>>
  BY DEF Copy
<1>2. /\ out \in [buf : Seq(Frame), pos : 0 .. L, len : 1 .. L] /\ out.pos <= out.len
      /\ reader.got \in Seq(Frame) /\ total \in Nat /\ L \in Nat /\ reader.want \in Nat /\ reader.want # 0
  BY <1>1, ConstantFacts DEF Inv, Types, ReaderTypes, ReaderState
<1>3. Rest \in Nat /\ Rest = out.len - out.pos
  BY <1>2 DEF Rest
<1>4. w \in Nat
  <2>1. out.len + Rest \in Nat
    BY <1>2, <1>3
  <2> QED
    BY <1>2, <2>1, MinOfTwo DEF WriteLength
<1> HIDE DEF w
<1>5. n \in 0 .. Rest /\ (Rest < w => n = Rest)
  BY <1>3, <1>4, MinOfTwo
<1> HIDE DEF n
<1>6. /\ got \in Seq(Frame) /\ Len(got) \in Nat
      /\ b = 0 => total + Len(got) = 0
      /\ b > 0 => total + Len(got) = (b - 1) * L + (out.pos + n)
      /\ Right(base, got, total)
  BY <1>1, <1>5, CopiedFromBlock
<1> HIDE DEF got
<1>7. /\ out'.pos = out.pos + n /\ out'.len = out.len /\ out'.buf = out.buf
      /\ out' \in [buf : Seq(Frame), pos : 0 .. L, len : 1 .. L] /\ out'.pos <= out'.len
  <2>1. out' = [out EXCEPT !.pos = out.pos + n]
    BY <1>1
  <2>2. out.pos + n \in 0 .. L /\ out.pos + n <= out.len
    BY <1>2, <1>3, <1>5
  <2> QED
    BY <1>2, <2>1, <2>2
<1>8. reader'.at \in {"load", "idle"} /\ reader'.got = got /\ (reader'.at = "load" => ~m_eosTail)
  BY <1>1
<1>9. TasksOnce' /\ ChannelsOK(b)' /\ TasksOK(b)' /\ BlocksOK(b)'
  BY <1>1, <1>8, PoolKept
<1>10. Types'
  <2>1. reader' \in ReaderState
    <3>1. CASE Rest < w /\ ~m_eosTail
      BY <1>1, <1>2, <1>3, <1>4, <1>5, <1>6, <3>1 DEF ReaderState
    <3>2. CASE ~(Rest < w /\ ~m_eosTail)
      BY <1>1, <1>6, <3>2 DEF ReaderState
    <3> QED
      BY <3>1, <3>2
  <2>2. total' \in Nat
    BY <1>1, <1>2, <1>6
  <2>3. ReaderTypes'
    BY <1>1, <1>7, <2>1, <2>2 DEF Inv, Types, ReaderTypes
  <2> QED
    BY <1>1, <2>3, ConvolverTypesKept DEF Inv, Types
<1>11. StreamOK(b)'
  <2>1. Blocks' = Blocks /\ base' = base
    BY <1>1, BlocksKept
  <2>2. Loaded(b)' = b /\ Loaded(b) = b
    BY <1>1, <1>8 DEF Loaded
  <2>3. Heard' = total + Len(got)
    <3>1. CASE Rest < w /\ ~m_eosTail
      BY <1>1, <3>1 DEF Heard
    <3>2. CASE ~(Rest < w /\ ~m_eosTail)
      BY <1>1, <3>2 DEF Heard
    <3> QED
      BY <3>1, <3>2
  <2>4. StreamOK(b)
    BY DEF Inv
  <2>5. Heard' - Len(reader'.got) = total
    BY <1>2, <1>6, <1>8, <2>3
  <2>6. reader'.at = "load" => out'.pos = out'.len /\ reader'.rest < reader'.w
    <3>1. CASE Rest < w /\ ~m_eosTail
      BY <1>1, <1>2, <1>3, <1>4, <1>5, <1>7, <3>1
    <3>2. CASE ~(Rest < w /\ ~m_eosTail)
      BY <1>1, <3>2
    <3> QED
      BY <3>1, <3>2
  <2>7. b = 0 => Heard' = 0 /\ out'.pos = out'.len
    <3> SUFFICES ASSUME b = 0 PROVE Heard' = 0 /\ out'.pos = out'.len
      OBVIOUS
    <3>1. out.pos = out.len
      BY <2>2, <2>4 DEF StreamOK
    <3>2. n = 0
      BY <1>2, <1>3, <1>5, <3>1
    <3> QED
      BY <1>2, <1>6, <1>7, <2>3, <3>1, <3>2
  <2>8. b > 0 => Heard' = (b - 1) * L + out'.pos
    BY <1>6, <1>7, <2>3
  <2>9. b > 0 => out'.buf = BlockOf(base', b, out'.len)
    BY <1>7, <2>1, <2>2, <2>4 DEF StreamOK
  <2>10. Right(base', reader'.got, Heard' - Len(reader'.got))
    BY <1>6, <1>8, <2>1, <2>5
  <2>11. /\ b < Blocks + P => out'.len = L
         /\ b = Blocks + P /\ LastTaskWorks => out'.len = LastLength
    BY <1>7, <2>2, <2>4 DEF StreamOK
  <2>12. reader'.at # "reset" /\ reader'.at # "wait"
    BY <1>8
  <2> QED
    BY <1>2, <2>1, <2>2, <2>5, <2>6, <2>7, <2>8, <2>9, <2>10, <2>11, <2>12 DEF StreamOK
<1> QED
  BY <1>9, <1>10, <1>11 DEF Inv

\* When all tasks have ended, none is queued or begun.
LEMMA NoTaskLeft ==
    ASSUME NEW b \in Nat, Inv(b), reader.at = "wait", \A i \in DOMAIN results : results[i] >= 0
    PROVE  /\ \A j \in DOMAIN m_queue : m_queue[j].kind # "channels"
           /\ \A t \in Threads : work[t].kind # "channels"
           /\ \A c \in Channel : ~Due(c) /\ ~Enqueues(c)
<1>1. DOMAIN results = Tasks /\ \A i \in Tasks : results[i] # -1
  <2>1. results \in [Tasks -> {-1} \cup 1 .. L]
    BY DEF Inv, TasksOK
  <2>2. \A i \in Tasks : results[i] >= 0
    BY <2>1
  <2>3. ~(-1 >= 0)
    OBVIOUS
  <2> QED
    BY <2>1, <2>2, <2>3
<1>2. ASSUME NEW j \in DOMAIN m_queue, m_queue[j].kind = "channels" PROVE FALSE
  <2>1. m_queue \in Seq(PartTask \cup QueuedTask)
    BY DEF Inv, Types, PoolTypes
  <2>2. m_queue[j] \in PartTask \cup QueuedTask
    BY <2>1
  <2>3. m_queue[j].id \in Tasks
    BY <1>2, <2>2 DEF PartTask, QueuedTask
  <2>4. Queued(j, m_queue[j].id)
    BY <1>2 DEF Queued
  <2> QED
    BY <1>1, <2>3, <2>4 DEF Inv, TasksOnce
<1>3. ASSUME NEW t \in Threads, work[t].kind = "channels" PROVE FALSE
  <2>1. work[t] \in {Idle} \cup PartTask \cup BegunTask
    BY DEF Inv, Types, PoolTypes
  <2>2. work[t].id \in Tasks
    BY <1>3, <2>1 DEF PartTask, BegunTask, Idle
  <2>3. Begins(t, work[t].id)
    BY <1>3 DEF Begins
  <2> QED
    BY <1>1, <2>2, <2>3 DEF Inv, TasksOnce
<1> QED
  BY <1>2, <1>3 DEF Due, Enqueues, Queued

LEMMA LengthInType ==
    ASSUME NEW b, NEW begun
    PROVE  LengthIn(b, begun) \in 1 .. L
BY LastLengthIs, ConstantFacts DEF LengthIn

LEMMA BlockLoadedKeeps ==
    ASSUME WholeBlocks, NEW b \in Nat, Inv(b), BlockLoaded
    PROVE  Inv(b)'
<1> DEFINE len == results[nTasks - 1]
<1> DEFINE buf == [k \in 1 .. len |-> [c \in Channel |-> inOut[c][k]]]
<1> DEFINE more == Min({reader.w - reader.rest, len})
<1> DEFINE want == reader.want - Min({reader.want, len + reader.rest})
<1> DEFINE got == reader.got \o SubSeq(buf, 1, more)
<1>1. /\ reader.at = "wait" /\ \A i \in DOMAIN results : results[i] >= 0
      /\ out' = [buf |-> buf, pos |-> more, len |-> len]
      /\ IF want > 0 THEN reader' = [at |-> "copy", want |-> want, got |-> got] /\ total' = total
                     ELSE reader' = [at |-> "idle", got |-> got] /\ total' = total + Len(got)
      /\ UNCHANGED <<pool, convolvers, inOut, lengthIn, results, m_eosTail, position, base, seeks>>
  BY DEF BlockLoaded, nTasks
<1>2. /\ \A j \in DOMAIN m_queue : m_queue[j].kind # "channels"
      /\ \A t \in Threads : work[t].kind # "channels"
      /\ \A c \in Channel : ~Due(c) /\ ~Enqueues(c)
  BY <1>1, NoTaskLeft
<1>3. /\ reader.got \in Seq(Frame) /\ reader.want \in Nat \ {0} /\ reader.rest \in Nat /\ reader.w \in Nat
      /\ total \in Nat /\ L \in Nat /\ b > 0 /\ base \in Nat
  <2>1. reader \in ReaderState /\ total \in Nat /\ base \in Places \cup {0}
    BY DEF Inv, Types, ReaderTypes
  <2>2. b > 0
    BY <1>1 DEF Inv, TasksOK
  <2> QED
    BY <1>1, <2>1, <2>2, ConstantFacts DEF ReaderState
<1>4. Blocks \in Nat
  BY BlocksFacts DEF Inv, Types, ReaderTypes
<1>5. /\ len = LengthIn(b, ShareOf(nTasks - 1) # {}) /\ len \in 1 .. L
      /\ results \in [Tasks -> {-1} \cup 1 .. L]
  <2>1. nTasks - 1 \in Tasks
    BY ConstantFacts DEF Tasks
  <2>2. /\ results \in [Tasks -> {-1} \cup 1 .. L]
        /\ \A i \in Tasks : results[i] >= 0 => results[i] = LengthIn(b, ShareOf(i) # {})
    BY <1>1 DEF Inv, TasksOK
  <2>3. len >= 0
    BY <1>1, <2>1, <2>2
  <2> QED
    BY <2>1, <2>2, <2>3, LengthInType
<1>6. buf = BlockOf(base, b, len)
  <2>1. \A c \in Channel : inOut[c] = [k \in 1 .. L |-> [sum |-> Whole(base, b), at |-> k]]
    BY <1>1, <1>2, <1>3 DEF Inv, ChannelsOK, ChannelOK
  <2>2. \A k \in 1 .. len : k \in 1 .. L
    BY <1>3, <1>5
  <2> QED
    <3>1. \A k \in 1 .. len : \A c \in Channel : inOut[c][k] = [sum |-> Whole(base, b), at |-> k]
      BY <2>1, <2>2
    <3>2. \A k \in 1 .. len : [c \in Channel |-> inOut[c][k]] = [c \in Channel |-> [sum |-> Whole(base, b), at |-> k]]
      BY <3>1
    <3> QED
      BY <3>2 DEF BlockOf
<1>7. BlockOf(base, b, len) \in Seq(Frame)
  <2>1. inOut \in [Channel -> [1 .. L -> Samples]]
    BY DEF Inv, Types, ConvolverTypes
  <2>2. \A k \in 1 .. len : [c \in Channel |-> inOut[c][k]] \in Frame
    <3>1. \A k \in 1 .. len : k \in 1 .. L
      BY <1>3, <1>5
    <3> QED
      BY <2>1, <3>1 DEF Frame
  <2>3. buf \in [1 .. len -> Frame]
    BY <2>2
  <2>4. len \in Nat
    BY <1>3, <1>5
  <2> HIDE DEF buf, len
  <2>5. buf \in Seq(Frame)
    BY <2>3, <2>4
  <2> QED
    BY <1>6, <2>5
<1>8. BlocksOK(b) /\ StreamOK(b)
  BY DEF Inv
<1>9. reader.rest < reader.w /\ out.pos = out.len
  BY <1>1, <1>8 DEF StreamOK
<1> HIDE DEF len, buf
<1>10. more \in 0 .. len
  BY <1>3, <1>5, <1>9, MinOfTwo
<1>11. want \in Nat
  <2>1. len + reader.rest \in Nat
    BY <1>3, <1>5
  <2> QED
    BY <1>3, <2>1, MinOfTwo
<1> HIDE DEF more, want
<1>12. total + Len(reader.got) = (b - 1) * L
  <2>1. Heard = total + Len(reader.got) /\ Loaded(b) = b - 1
    BY <1>1 DEF Heard, Loaded
  <2>2. CASE b = 1
    <3>1. Heard = 0
      BY <1>8, <2>1, <2>2 DEF StreamOK
    <3>2. (b - 1) * L = 0
      BY <1>3, <2>2
    <3> QED
      BY <2>1, <3>1, <3>2
  <2>3. CASE b # 1
    <3>1. b - 1 > 0 /\ b - 1 < Blocks + P
      BY <1>3, <1>4, <1>8, <2>3, ConstantFacts DEF BlocksOK
    <3>2. Heard = (b - 1 - 1) * L + out.pos /\ out.len = L
      BY <1>8, <2>1, <3>1 DEF StreamOK
    <3>3. (b - 1 - 1) * L + L = (b - 1) * L
      BY <1>3
    <3> QED
      BY <1>9, <2>1, <3>2, <3>3
  <2> QED
    BY <2>2, <2>3
<1>13. Len(reader.got) \in Nat
  BY <1>3, LenProperties
<1>14. Right(base, reader.got, total)
  <2>1. Heard = total + Len(reader.got)
    BY <1>1 DEF Heard
  <2>2. Heard - Len(reader.got) = total
    BY <1>3, <1>13, <2>1
  <2> QED
    BY <1>8, <2>2 DEF StreamOK
<1> DEFINE piece == SubSeq(buf, 1, more)
<1>15. piece \in Seq(Frame) /\ Len(piece) = more /\ Right(base, piece, total + Len(reader.got))
  <2>1. b \in Nat \ {0} /\ 0 \in 0 .. len /\ more \in 0 .. len - 0 /\ 0 + 1 = 1 /\ 0 + more = more
    BY <1>3, <1>5, <1>10
  <2>2. piece = Piece(base, b, len, 0, more)
    BY <1>6, <2>1 DEF Piece
  <2>3. (b - 1) * L + 0 = total + Len(reader.got)
    <3>1. (b - 1) * L \in Nat
      BY <1>3
    <3> QED
      BY <1>12, <3>1
  <2> HIDE DEF piece
  <2> QED
    BY <1>5, <1>7, <2>1, <2>2, <2>3, PieceOfBlock
<1>16. got \in Seq(Frame) /\ Len(got) = Len(reader.got) + more /\ Right(base, got, total)
  <2>1. got = reader.got \o piece
    OBVIOUS
  <2> HIDE DEF got, piece
  <2>2. reader.got \in Seq(Frame) /\ total \in Nat
    BY <1>3
  <2>3. /\ reader.got \o piece \in Seq(Frame)
        /\ Len(reader.got \o piece) = Len(reader.got) + Len(piece)
        /\ Right(base, reader.got \o piece, total)
    BY ONLY <1>14, <1>15, <2>2, GotGrows
  <2> QED
    BY <1>15, <2>1, <2>3
<1> HIDE DEF got, piece
<1>17. Len(got) \in Nat /\ total + Len(got) = (b - 1) * L + more
  <2>1. (b - 1) * L \in Nat /\ more \in Nat
    BY <1>3, <1>5, <1>10
  <2>2. total \in Nat /\ Len(got) = Len(reader.got) + more
    BY <1>3, <1>16
  <2> QED
    BY ONLY <1>12, <1>13, <2>1, <2>2
<1>18. reader'.at \in {"copy", "idle"} /\ reader'.got = got
  BY <1>1
<1>19. /\ m_queue' = m_queue /\ work' = work /\ m_futures' = m_futures
       /\ base' = base /\ position' = position /\ m_eosTail' = m_eosTail
  BY <1>1 DEF pool, convolvers
<1>20. Blocks' = Blocks
  BY <1>19, BlocksKept
<1>21. TasksOnce'
  BY <1>2, <1>19 DEF TasksOnce, Queued, Begins
<1>22. ChannelsOK(b)'
  BY <1>1, <1>18, ChannelKept DEF Inv, ChannelsOK
<1>23. TasksOK(b)'
  BY <1>2, <1>18, <1>19 DEF TasksOK, TaskOK
<1>24. BlocksOK(b)'
  <2>1. 0 \in Channel
    BY ConstantFacts DEF Channel
  <2>2. m_eosTail = (b = Blocks + P)
    BY <1>2, <1>8, <2>1 DEF BlocksOK
  <2> QED
    BY <1>8, <1>18, <1>19, <1>20, <2>2 DEF BlocksOK
<1>25. Types'
  <2>1. reader' \in ReaderState
    BY <1>1, <1>11, <1>16 DEF ReaderState
  <2>2. total' \in Nat
    BY <1>1, <1>3, <1>17
  <2>3. out' \in [buf : Seq(Frame), pos : 0 .. L, len : 1 .. L] /\ out'.pos <= out'.len
    <3>1. more \in 0 .. L /\ more <= len
      BY <1>3, <1>5, <1>10
    <3> QED
      BY <1>1, <1>5, <1>6, <1>7, <3>1
  <2>4. ReaderTypes'
    BY <1>19, <2>1, <2>2, <2>3 DEF Inv, Types, ReaderTypes
  <2> QED
    BY <1>1, <2>4, ConvolverTypesKept DEF Inv, Types
<1>26. StreamOK(b)'
  <2>1. Loaded(b)' = b /\ reader'.at \notin {"load", "wait", "reset"}
    BY <1>18 DEF Loaded
  <2>2. Heard' = total + Len(got)
    BY <1>1 DEF Heard
  <2>3. Heard' - Len(reader'.got) = total
    BY <1>3, <1>17, <1>18, <2>2
  <2>4. b # 0 /\ (b > 0 => Heard' = (b - 1) * L + out'.pos)
    BY <1>1, <1>3, <1>17, <2>2
  <2>5. out'.buf = BlockOf(base', b, out'.len)
    BY <1>1, <1>6, <1>19
  <2>6. b < Blocks + P => out'.len = L
    BY <1>1, <1>4, <1>5, ConstantFacts DEF LengthIn
  <2>7. b = Blocks + P /\ LastTaskWorks => out'.len = LastLength
    BY <1>1, <1>5 DEF LengthIn, LastTaskWorks
  <2>8. Right(base', reader'.got, Heard' - Len(reader'.got))
    BY <1>16, <1>18, <1>19, <2>3
  <2> QED
    BY <1>3, <1>20, <2>1, <2>3, <2>4, <2>5, <2>6, <2>7, <2>8 DEF StreamOK
<1> QED
  BY <1>21, <1>22, <1>23, <1>24, <1>25, <1>26 DEF Inv

\* Outside of the wait for a block no task of the reader is queued or begun.
LEMMA NoTask ==
    ASSUME NEW b \in Nat, Inv(b), reader.at # "wait"
    PROVE  /\ \A j \in DOMAIN m_queue : m_queue[j].kind # "channels"
           /\ \A t \in Threads : work[t].kind # "channels"
           /\ \A c \in Channel : ~Due(c) /\ ~Enqueues(c)
<1>2. ASSUME NEW j \in DOMAIN m_queue, m_queue[j].kind = "channels" PROVE FALSE
  <2>1. m_queue \in Seq(PartTask \cup QueuedTask)
    BY DEF Inv, Types, PoolTypes
  <2>2. m_queue[j] \in PartTask \cup QueuedTask
    BY <2>1
  <2>3. m_queue[j].id \in Tasks
    BY <1>2, <2>2 DEF PartTask, QueuedTask
  <2>4. Queued(j, m_queue[j].id)
    BY <1>2 DEF Queued
  <2> QED
    BY <2>3, <2>4 DEF Inv, TasksOnce
<1>3. ASSUME NEW t \in Threads, work[t].kind = "channels" PROVE FALSE
  <2>1. work[t] \in {Idle} \cup PartTask \cup BegunTask
    BY DEF Inv, Types, PoolTypes
  <2>2. work[t].id \in Tasks
    BY <1>3, <2>1 DEF PartTask, BegunTask, Idle
  <2>3. Begins(t, work[t].id)
    BY <1>3 DEF Begins
  <2> QED
    BY <2>2, <2>3 DEF Inv, TasksOnce
<1> QED
  BY <1>2, <1>3 DEF Due, Enqueues, Queued

\* The tasks that the reader queues.
NewTasks(input) == [i \in 1 .. nTasks |-> [kind |-> "channels", id |-> i - 1, input |-> input]]

\* They stand behind the first n places of the queue.
TasksBehind(q, n, input) ==
    /\ q \in Seq(PartTask \cup QueuedTask)
    /\ \A j \in DOMAIN q : q[j].kind = "channels" => q[j].input = input
    /\ \A i \in Tasks : \A j \in DOMAIN q : q[j].kind = "channels" /\ q[j].id = i <=> j = n + 1 + i
    /\ \A i \in Tasks : n + 1 + i \in DOMAIN q

LEMMA TasksQueued ==
    ASSUME NEW q \in Seq(PartTask \cup QueuedTask), NEW input \in BOOLEAN,
           \A j \in DOMAIN q : q[j].kind # "channels"
    PROVE  TasksBehind(q \o NewTasks(input), Len(q), input)
<1> DEFINE n == NewTasks(input)
<1> DEFINE S == PartTask \cup QueuedTask
<1> DEFINE r == q \o n
<1>1. n \in Seq(S) /\ Len(n) = nTasks
  <2>1. \A i \in 1 .. nTasks : [kind |-> "channels", id |-> i - 1, input |-> input] \in S
    BY ConstantFacts DEF QueuedTask, Tasks
  <2> QED
    BY <2>1, ConstantFacts DEF NewTasks
<1>2. Len(q) \in Nat /\ nTasks \in Nat /\ DOMAIN q = 1 .. Len(q)
  BY ConstantFacts, LenProperties
<1>3. /\ r \in Seq(S) /\ Len(r) = Len(q) + Len(n)
      /\ \A j \in 1 .. Len(q) + Len(n) : r[j] = IF j <= Len(q) THEN q[j] ELSE n[j - Len(q)]
  <2> HIDE DEF n, S
  <2> QED
    BY <1>1, ConcatProperties DEF S
<1> HIDE DEF r
<1>4. DOMAIN r = 1 .. Len(q) + nTasks
  <2>1. DOMAIN r = 1 .. Len(r)
    BY <1>3, LenProperties
  <2> QED
    BY <1>1, <1>3, <2>1
<1>5. ASSUME NEW j \in DOMAIN r
      PROVE  /\ r[j].kind = "channels" => r[j].input = input
             /\ \A i \in Tasks : r[j].kind = "channels" /\ r[j].id = i <=> j = Len(q) + 1 + i
  <2>1. CASE j <= Len(q)
    <3>1. j \in DOMAIN q /\ r[j] = q[j]
      BY <1>1, <1>2, <1>3, <1>4, <2>1
    <3>2. r[j].kind # "channels"
      BY <3>1
    <3>3. \A i \in Tasks : j # Len(q) + 1 + i
      BY <1>2, <2>1 DEF Tasks
    <3> QED
      BY <3>2, <3>3
  <2>2. CASE ~(j <= Len(q))
    <3> DEFINE k == j - Len(q)
    <3>1. k \in 1 .. nTasks /\ r[j] = n[k]
      BY <1>1, <1>2, <1>3, <1>4, <2>2
    <3>2. r[j] = [kind |-> "channels", id |-> k - 1, input |-> input]
      BY <3>1 DEF NewTasks
    <3>3. \A i \in Tasks : k - 1 = i <=> j = Len(q) + 1 + i
      BY <1>2, <1>4, <2>2 DEF Tasks
    <3> HIDE DEF k
    <3> QED
      BY <3>2, <3>3
  <2> QED
    BY <2>1, <2>2
<1>6. \A i \in Tasks : Len(q) + 1 + i \in DOMAIN r
  BY <1>2, <1>4 DEF Tasks
<1> QED
  BY <1>3, <1>5, <1>6 DEF r, TasksBehind

\* A block of the sound is whole, and behind its end nothing is read.
LEMMA BlockLength ==
    ASSUME WholeBlocks, NEW b \in Nat, Inv(b), b < Blocks + P
    PROVE  LET n == Max({0, Min({L, InputLength - position})}) IN
           /\ n = IF b + 1 <= Blocks THEN L ELSE 0
           /\ position + n = base + (IF b + 1 <= Blocks THEN b + 1 ELSE Blocks) * L
           /\ b + 1 <= Blocks => position = base + b * L
<1> DEFINE m == InputLength - position
<1>1. /\ position = base + (IF b <= Blocks THEN b ELSE Blocks) * L
      /\ position \in Nat /\ base \in Places \cup {0}
  BY DEF Inv, BlocksOK, Types, ReaderTypes
<1>2. /\ Blocks \in Nat /\ base \in Nat
      /\ base < InputLength => InputLength = base + Blocks * L
      /\ base >= InputLength => Blocks = 0
  BY <1>1, BlocksFacts
<1>3. L \in Nat /\ L >= 1 /\ InputLength \in Nat /\ P \in Nat /\ m \in Int
  BY <1>1, ConstantFacts
<1>4. Max({0, Min({L, m})}) = IF L <= m THEN L ELSE IF m >= 0 THEN m ELSE 0
  <2>1. Min({L, m}) = IF L <= m THEN L ELSE m
    BY <1>3, MinOfTwo
  <2> HIDE DEF m
  <2>2. Min({L, m}) \in Int
    BY <1>3, <2>1
  <2>3. Max({0, Min({L, m})}) = IF 0 >= Min({L, m}) THEN 0 ELSE Min({L, m})
    BY <2>2, MaxOfTwo
  <2> QED
    BY <1>3, <2>1, <2>3
<1>5. CASE b + 1 <= Blocks
  <2>1. b * L + L <= Blocks * L /\ b * L \in Nat /\ Blocks * L \in Nat /\ (b + 1) * L = b * L + L
    BY <1>2, <1>3, <1>5, ProductGrows
  <2>2. base < InputLength /\ b <= Blocks
    BY <1>2, <1>3, <1>5
  <2>3. position = base + b * L
    BY <1>1, <2>2
  <2>4. L <= m
    BY <1>2, <1>3, <2>1, <2>2, <2>3
  <2>5. position + L = base + (b + 1) * L
    BY <1>2, <1>3, <2>1, <2>3
  <2> HIDE DEF m
  <2> QED
    BY <1>4, <1>5, <2>3, <2>4, <2>5 DEF m
<1>6. CASE ~(b + 1 <= Blocks)
  <2>1. position = base + Blocks * L /\ Blocks * L \in Nat
    <3>1. CASE b <= Blocks
      <4>1. b = Blocks
        BY <1>2, <1>6, <3>1
      <4> QED
        BY <1>1, <1>2, <1>3, <4>1
    <3>2. CASE ~(b <= Blocks)
      BY <1>1, <1>2, <1>3, <3>2
    <3> QED
      BY <3>1, <3>2
  <2>2. m <= 0
    <3>1. CASE base < InputLength
      BY <1>2, <1>3, <2>1, <3>1
    <3>2. CASE ~(base < InputLength)
      <4>1. Blocks * L = 0
        BY <1>2, <1>3, <3>2
      <4> QED
        BY <1>2, <1>3, <2>1, <3>2, <4>1
    <3> QED
      BY <3>1, <3>2
  <2>3. Max({0, Min({L, m})}) = 0
    <3> HIDE DEF m
    <3> QED
      BY <1>3, <1>4, <2>2
  <2>4. position + 0 = base + Blocks * L
    BY <1>1, <2>1
  <2> QED
    BY <1>6, <2>3, <2>4
<1> QED
  BY <1>5, <1>6

\* Each channel belongs to a task.
LEMMA ChannelHasTask ==
    ASSUME NEW c \in Channel
    PROVE  \E i \in Tasks : c \in ShareOf(i)
<1>1. c \in 0 .. 0 + Channels - 1 /\ 0 \in Nat /\ Channels \in Nat /\ nTasks \in Nat \ {0}
  BY ConstantFacts DEF Channel
<1>2. \E i \in 0 .. nTasks - 1 : c \in Share(i, nTasks, 0, Channels)
  BY <1>1, SharesCover
<1> QED
  BY <1>2 DEF Tasks, ShareOf

LEMMA LoadBufferKeeps ==
    ASSUME WholeBlocks, NEW b \in Nat, Inv(b), LoadBuffer
    PROVE  b + 1 \in Nat /\ Inv(b + 1)'
<1> DEFINE n == Max({0, Min({L, InputLength - position})})
<1>1. /\ reader.at = "load"
      /\ lengthIn' = IF n > 0 THEN n ELSE L
      /\ inOut' = [c \in Channel |-> [k \in 1 .. L |-> IF k <= n THEN Input(position + k) ELSE inOut[c][k]]]
      /\ position' = position + n
      /\ m_queue' = m_queue \o NewTasks(n > 0)
      /\ results' = [i \in Tasks |-> -1]
      /\ reader' = [reader EXCEPT !.at = "wait"]
      /\ UNCHANGED <<work, done, convolvers, m_eosTail, out, base, total, seeks>>
  BY DEF LoadBuffer, NewTasks, Tasks, nTasks
<1>2. /\ work' = work /\ done' = done /\ m_eosTail' = m_eosTail /\ out' = out /\ base' = base /\ total' = total
      /\ m_futures' = m_futures /\ m_resetFlag' = m_resetFlag /\ shift' = shift /\ line' = line
      /\ acc' = acc /\ tail' = tail
  BY <1>1 DEF convolvers
<1>3. Blocks' = Blocks /\ Blocks \in Nat
  BY <1>2, BlocksKept, BlocksFacts DEF Inv, Types, ReaderTypes
<1>4. b < Blocks + P /\ ~m_eosTail
  <2>1. BlocksOK(b)
    BY DEF Inv
  <2>2. ~m_eosTail /\ b # Blocks + P /\ b <= Blocks + P
    BY <1>1, <2>1 DEF BlocksOK
  <2> QED
    BY <1>3, <2>2, ConstantFacts
<1>5. /\ n = IF b + 1 <= Blocks THEN L ELSE 0
      /\ position' = base + (IF b + 1 <= Blocks THEN b + 1 ELSE Blocks) * L
      /\ b + 1 <= Blocks => position = base + b * L
  BY <1>1, <1>4, BlockLength
<1> HIDE DEF n
<1>6. L \in Nat /\ L >= 1 /\ position \in Nat /\ base \in Nat /\ (n > 0) \in BOOLEAN /\ ((n > 0) = (b + 1 <= Blocks))
  BY <1>5, ConstantFacts DEF Inv, Types, ReaderTypes
<1>7. /\ \A j \in DOMAIN m_queue : m_queue[j].kind # "channels"
      /\ \A t \in Threads : work[t].kind # "channels"
      /\ \A c \in Channel : ~Due(c) /\ ~Enqueues(c)
  BY <1>1, NoTask
<1>8. m_queue \in Seq(PartTask \cup QueuedTask)
  BY DEF Inv, Types, PoolTypes
<1>9. TasksBehind(m_queue', Len(m_queue), n > 0)
  <2>1. TasksBehind(m_queue \o NewTasks(n > 0), Len(m_queue), n > 0)
    BY <1>6, <1>7, <1>8, TasksQueued
  <2> QED
    BY <1>1, <2>1
<1>0. /\ m_queue' \in Seq(PartTask \cup QueuedTask)
      /\ \A j \in DOMAIN m_queue' : m_queue'[j].kind = "channels" => m_queue'[j].input = (n > 0)
  BY <1>9 DEF TasksBehind
<1>10. /\ reader' \in [at : {"wait"}, want : Nat \ {0}, got : Seq(Frame), rest : Nat, w : Nat]
       /\ reader'.at = "wait" /\ reader'.got = reader.got /\ reader'.rest = reader.rest /\ reader'.w = reader.w
  <2>1. reader \in [at : {"load", "wait"}, want : Nat \ {0}, got : Seq(Frame), rest : Nat, w : Nat]
    BY <1>1 DEF Inv, Types, ReaderTypes, ReaderState
  <2> QED
    BY <1>1, <2>1
<1>11. \A c \in Channel : Due(c)' /\ ~Enqueues(c)'
  <2> TAKE c \in Channel
  <2>1. PICK i \in Tasks : c \in ShareOf(i)
    BY ChannelHasTask
  <2>2. PICK j \in DOMAIN m_queue' : j = Len(m_queue) + 1 + i
    BY <1>9 DEF TasksBehind
  <2>3. m_queue'[j].kind = "channels" /\ m_queue'[j].id = i
    BY <1>9, <2>2 DEF TasksBehind
  <2>5. Due(c)'
    BY <2>1, <2>3 DEF Due, Queued
  <2>6. ~Enqueues(c)'
    BY <1>2, <1>7 DEF Enqueues
  <2> QED
    BY <2>5, <2>6
<1>12. TasksOnce'
  <2>1. \A i \in Tasks : \A j \in DOMAIN m_queue' : Queued(j, i)' <=> j = Len(m_queue) + 1 + i
    BY <1>9 DEF Queued, TasksBehind
  <2>2. \A t \in Threads : \A i : ~Begins(t, i)'
    BY <1>2, <1>7 DEF Begins
  <2>3. \A i \in Tasks : results'[i] = -1
    BY <1>1
  <2> QED
    BY <1>10, <2>1, <2>2, <2>3 DEF TasksOnce
<1>13. ChannelsOK(b + 1)'
  <2> SUFFICES ASSUME NEW c \in Channel PROVE ChannelOK(c, b + 1)'
    BY <1>10 DEF ChannelsOK
  <2>1. ChannelOK(c, b)
    BY <1>1 DEF Inv, ChannelsOK
  <2>2. ~m_resetFlag'[c] /\ ChannelAt(c, b)
    BY <1>2, <1>7, <2>1 DEF ChannelOK
  <2>3. ChannelAt(c, b)'
    BY <1>2, <1>3, <1>7, <1>11, <2>2 DEF ChannelAt
  <2>4. b + 1 - 1 = b
    OBVIOUS
  <2>5. b + 1 <= Blocks => \A k \in 1 .. L : inOut'[c][k].at = base + b * L + k
    <3> SUFFICES ASSUME b + 1 <= Blocks, NEW k \in 1 .. L
                 PROVE  inOut'[c][k].at = base + b * L + k
      OBVIOUS
    <3>1. k <= n
      BY <1>5, <1>6
    <3>2. inOut'[c][k] = Input(position + k)
      BY <1>1, <3>1
    <3>3. inOut'[c][k].at = position + k
      BY <3>2 DEF Input
    <3> QED
      BY <1>5, <3>3
  <2> QED
    BY <1>2, <1>3, <1>11, <2>2, <2>3, <2>4, <2>5 DEF ChannelOK
<1>14. TasksOK(b + 1)'
  <2>1. \A t \in Threads : work'[t].kind # "channels"
    BY <1>2, <1>7
  <2>2. lengthIn' = L
    BY <1>1, <1>5, <1>6
  <2>3. b + 1 > 0
    OBVIOUS
  <2>4. \A i \in Tasks : ~(results'[i] >= 0)
    BY <1>1
  <2>5. results' \in [Tasks -> {-1} \cup 1 .. L]
    BY <1>1
  <2>6. \A j \in DOMAIN m_queue' : m_queue'[j].kind = "channels" => m_queue'[j].input = (b + 1 <= Blocks)
    BY <1>0, <1>6
  <2> QED
    BY <1>3, <2>1, <2>2, <2>3, <2>4, <2>5, <2>6 DEF TasksOK, TaskOK
<1>15. BlocksOK(b + 1)'
  <2>1. b + 1 <= Blocks + P
    BY <1>3, <1>4, ConstantFacts
  <2> QED
    BY <1>2, <1>3, <1>4, <1>5, <1>10, <1>11, <2>1 DEF BlocksOK
<1>16. Types'
  <2>1. inOut' \in [Channel -> [1 .. L -> Samples]]
    <3>1. inOut \in [Channel -> [1 .. L -> Samples]]
      BY DEF Inv, Types, ConvolverTypes
    <3>2. \A k \in 1 .. L : Input(position + k) \in Samples
      BY <1>6 DEF Input, Samples, Sums
    <3> QED
      BY <1>1, <3>1, <3>2
  <2>2. PoolTypes' /\ ConvolverTypes'
    BY <1>2, <1>0, <2>1 DEF Inv, Types, PoolTypes, ConvolverTypes
  <2>3. position' \in Nat
    BY <1>1, <1>5, <1>6
  <2>4. reader' \in ReaderState
    BY <1>10 DEF ReaderState
  <2>5. ReaderTypes'
    BY <1>2, <2>3, <2>4 DEF Inv, Types, ReaderTypes
  <2> QED
    BY <2>2, <2>5 DEF Types
<1>17. StreamOK(b + 1)'
  <2>1. Loaded(b + 1)' = b /\ Loaded(b) = b
    BY <1>1, <1>10 DEF Loaded
  <2>2. Heard' = Heard
    BY <1>1, <1>2, <1>10 DEF Heard
  <2>3. StreamOK(b)
    BY DEF Inv
  <2> QED
    BY <1>1, <1>2, <1>3, <1>10, <2>1, <2>2, <2>3 DEF StreamOK
<1> QED
  BY <1>12, <1>13, <1>14, <1>15, <1>16, <1>17 DEF Inv
------------------------------------------------------------------------------
(* The steps of the pool. *)

LEMMA StreamKept ==
    ASSUME NEW b, UNCHANGED <<reader, out, base, total>>
    PROVE  StreamOK(b)' <=> StreamOK(b)
<1>1. reader' = reader /\ out' = out /\ base' = base /\ total' = total
  OBVIOUS
<1>2. Blocks' = Blocks
  BY <1>1, BlocksKept
<1>3. Loaded(b)' = Loaded(b) /\ Heard' = Heard
  BY <1>1 DEF Loaded, Heard
<1> QED
  BY <1>1, <1>2, <1>3 DEF StreamOK

\* A thread that works on a task of the reader.
LEMMA TaskFacts ==
    ASSUME NEW b \in Nat, Inv(b), NEW t \in Threads, work[t].kind = "channels"
    PROVE  /\ work[t] \in BegunTask /\ work[t].id \in Tasks /\ Begins(t, work[t].id)
           /\ reader.at = "wait" /\ b > 0 /\ results[work[t].id] = -1
           /\ lengthIn = L /\ results \in [Tasks -> {-1} \cup 1 .. L]
<1>1. work[t] \in {Idle} \cup PartTask \cup BegunTask
  BY DEF Inv, Types, PoolTypes
<1>2. work[t] \in BegunTask /\ work[t].id \in Tasks
  BY <1>1 DEF Idle, PartTask, BegunTask
<1>3. Begins(t, work[t].id)
  BY DEF Begins
<1>4. reader.at = "wait" /\ results[work[t].id] = -1
  BY <1>2, <1>3 DEF Inv, TasksOnce
<1> QED
  BY <1>2, <1>3, <1>4 DEF Inv, TasksOK

LEMMA EndTaskKeeps ==
    ASSUME NEW b \in Nat, Inv(b), NEW t \in Threads, EndTask(t)
    PROVE  Inv(b)'
<1>1. /\ work[t].kind = "channels" /\ work[t].queues = NoChannel /\ work[t].left = {}
      /\ results' = [results EXCEPT ![work[t].id] = work[t].l]
      /\ work' = [work EXCEPT ![t] = Idle]
      /\ UNCHANGED <<m_queue, done, convolvers, inOut, lengthIn, m_eosTail, out, reader, position, base, total, seeks>>
  BY DEF EndTask
<1>2. /\ m_queue' = m_queue /\ done' = done /\ m_futures' = m_futures /\ m_resetFlag' = m_resetFlag
      /\ shift' = shift /\ line' = line /\ acc' = acc /\ tail' = tail /\ inOut' = inOut /\ lengthIn' = lengthIn
      /\ m_eosTail' = m_eosTail /\ out' = out /\ reader' = reader /\ position' = position /\ base' = base
      /\ total' = total
  BY <1>1 DEF convolvers
<1>3. Blocks' = Blocks
  BY <1>2, BlocksKept
<1>4. /\ work[t] \in BegunTask /\ work[t].id \in Tasks /\ Begins(t, work[t].id)
      /\ reader.at = "wait" /\ b > 0 /\ results[work[t].id] = -1
      /\ results \in [Tasks -> {-1} \cup 1 .. L] /\ lengthIn = L
  BY <1>1, TaskFacts
<1>5. work \in [Threads -> {Idle} \cup PartTask \cup BegunTask]
  BY DEF Inv, Types, PoolTypes
<1>6. work'[t] = Idle /\ \A u \in Threads : u # t => work'[u] = work[u]
  BY <1>1, <1>5
<1>7. work'[t].kind # "channels"
  BY <1>6 DEF Idle
<1>8. \A i \in Tasks : i # work[t].id => results'[i] = results[i]
  BY <1>1, <1>4
<1>9. results'[work[t].id] = work[t].l /\ results' \in [Tasks -> {-1} \cup 1 .. L]
  BY <1>1, <1>4 DEF BegunTask
<1>10. \A u \in Threads : \A i : Begins(u, i)' => u # t /\ Begins(u, i)
  BY <1>6, <1>7 DEF Begins
<1>11. \A j, i : Queued(j, i)' <=> Queued(j, i)
  BY <1>2 DEF Queued
<1>12. TasksOnce'
  <2>1. TasksOnce
    BY DEF Inv
  <2>2. ASSUME NEW i \in Tasks,
               (\E j \in DOMAIN m_queue : Queued(j, i)) \/ (\E u \in Threads : Begins(u, i)')
        PROVE  results'[i] = -1
    <3>1. i # work[t].id
      BY <1>4, <1>10, <2>1, <2>2 DEF TasksOnce
    <3>2. results[i] = -1
      BY <1>10, <2>1, <2>2 DEF TasksOnce
    <3> QED
      BY <1>8, <3>1, <3>2
  <2> QED
    BY <1>2, <1>4, <1>10, <1>11, <2>1, <2>2 DEF TasksOnce
<1>13. \A c \in Channel : (Due(c)' <=> Due(c)) /\ (Enqueues(c)' <=> Enqueues(c))
  <2> TAKE c \in Channel
  <2>1. Due(c)' <=> Due(c)
    BY <1>1, <1>2, <1>6, <1>7, <1>11 DEF Due
  <2>2. c # NoChannel
    BY ConstantFacts DEF Channel, NoChannel
  <2>3. Enqueues(c)' <=> Enqueues(c)
    BY <1>1, <1>6, <1>7, <2>2 DEF Enqueues
  <2> QED
    BY <2>1, <2>3
<1>14. ChannelsOK(b)'
  <2>1. ASSUME NEW c \in Channel PROVE ChannelOK(c, b)'
    <3>1. ChannelOK(c, b)
      BY <1>4 DEF Inv, ChannelsOK
    <3>2. \A n : ChannelAt(c, n)' <=> ChannelAt(c, n)
      BY <1>2, <1>3, <1>13 DEF ChannelAt
    <3> QED
      BY <1>2, <1>3, <1>13, <3>1, <3>2 DEF ChannelOK
  <2> QED
    BY <1>2, <1>4, <2>1 DEF ChannelsOK
<1>15. TasksOK(b)'
  <2>1. TasksOK(b)
    BY DEF Inv
  <2>2. \A u \in Threads : TaskOK(u, b)'
    BY <1>2, <1>3, <1>6, <1>7, <2>1 DEF TasksOK, TaskOK, LengthIn
  <2>3. TaskOK(t, b)
    BY <2>1 DEF TasksOK
  <2>4. work[t].l = LengthIn(b, ShareOf(work[t].id) # {})
    BY <1>1, <2>3 DEF TaskOK, LengthIn
  <2>5. \A begun : LengthIn(b, begun)' = LengthIn(b, begun)
    BY <1>3 DEF LengthIn
  <2>6. \A i \in Tasks : results'[i] >= 0 => results'[i] = LengthIn(b, ShareOf(i) # {})
    BY <1>4, <1>8, <1>9, <2>1, <2>4 DEF TasksOK
  <2> QED
    BY <1>2, <1>3, <1>4, <1>9, <2>1, <2>2, <2>5, <2>6 DEF TasksOK
<1>16. BlocksOK(b)'
  BY <1>2, <1>3, <1>13 DEF Inv, BlocksOK
<1>17. Types'
  <2>1. work' \in [Threads -> {Idle} \cup PartTask \cup BegunTask]
    BY <1>1, <1>5
  <2> QED
    BY <1>2, <2>1 DEF Inv, Types, PoolTypes, ConvolverTypes, ReaderTypes
<1>18. StreamOK(b)'
  BY <1>2, StreamKept DEF Inv
<1> QED
  BY <1>12, <1>14, <1>15, <1>16, <1>17, <1>18 DEF Inv

\* A thread takes the first task: the others move up.
LEMMA TakeTaskKeeps ==
    ASSUME NEW b \in Nat, Inv(b), NEW t \in Threads, TakeTask(t)
    PROVE  Inv(b)'
<1> DEFINE h == m_queue[1]
<1>1. /\ work[t] = Idle /\ m_queue # <<>>
      /\ work' = [work EXCEPT ![t] = Begun(h)]
      /\ m_queue' = Tail(m_queue)
      /\ UNCHANGED <<done, convolvers, inOut, lengthIn, results, m_eosTail, out, reader, position, base, total, seeks>>
  BY DEF TakeTask, Head
<1>2. /\ done' = done /\ m_futures' = m_futures /\ m_resetFlag' = m_resetFlag
      /\ shift' = shift /\ line' = line /\ acc' = acc /\ tail' = tail /\ inOut' = inOut /\ lengthIn' = lengthIn
      /\ results' = results
      /\ m_eosTail' = m_eosTail /\ out' = out /\ reader' = reader /\ position' = position /\ base' = base
      /\ total' = total
  BY <1>1 DEF convolvers
<1>3. Blocks' = Blocks
  BY <1>2, BlocksKept
<1>4. /\ work \in [Threads -> {Idle} \cup PartTask \cup BegunTask]
      /\ m_queue \in Seq(PartTask \cup QueuedTask)
  BY DEF Inv, Types, PoolTypes
<1>5. /\ 1 \in DOMAIN m_queue
      /\ m_queue' \in Seq(PartTask \cup QueuedTask)
      /\ \A j \in DOMAIN m_queue' : j + 1 \in DOMAIN m_queue /\ j + 1 # 1 /\ m_queue'[j] = m_queue[j + 1]
      /\ \A j \in DOMAIN m_queue : j # 1 => j - 1 \in DOMAIN m_queue' /\ m_queue'[j - 1] = m_queue[j]
  <2>1. /\ Len(m_queue) \in Nat /\ Len(m_queue) # 0 /\ DOMAIN m_queue = 1 .. Len(m_queue)
    BY <1>1, <1>4, EmptySeq
  <2>2. /\ m_queue' \in Seq(PartTask \cup QueuedTask)
        /\ Len(m_queue') = Len(m_queue) - 1
        /\ \A j \in 1 .. Len(m_queue') : m_queue'[j] = m_queue[j + 1]
    BY <1>1, <1>4, HeadTailProperties
  <2>3. DOMAIN m_queue' = 1 .. Len(m_queue')
    BY <2>2
  <2> QED
    BY <2>1, <2>2, <2>3
<1>6. h \in PartTask \cup QueuedTask
  BY <1>4, <1>5
<1>7. work'[t] = Begun(h) /\ \A u \in Threads : u # t => work'[u] = work[u]
  BY <1>1, <1>4
<1>8. work[t].kind # "channels"
  BY <1>1 DEF Idle
<1>9. \A i : \A j \in DOMAIN m_queue' : Queued(j, i)' => j + 1 \in DOMAIN m_queue /\ Queued(j + 1, i) /\ j + 1 # 1
  BY <1>5 DEF Queued
<1>10. \A i : \A j \in DOMAIN m_queue : Queued(j, i) =>
            j = 1 \/ (\E k \in DOMAIN m_queue' : m_queue'[k].kind = "channels" /\ m_queue'[k].id = i)
  BY <1>5 DEF Queued
<1>11. \A i : Begins(t, i)' <=> Queued(1, i)
  BY <1>6, <1>7 DEF Begins, Queued, Begun, PartTask, QueuedTask
<1>12. \A u \in Threads : \A i : u # t => (Begins(u, i)' <=> Begins(u, i))
  BY <1>7 DEF Begins
<1>13. \A i : ~Begins(t, i)
  BY <1>8 DEF Begins
<1>14. h.kind = "channels" => /\ h \in QueuedTask
                              /\ work'[t] = [kind |-> "channels", id |-> h.id, input |-> h.input, l |-> lengthIn,
                                             queues |-> NoChannel, left |-> ShareOf(h.id)]
                              /\ work'[t].left = ShareOf(h.id) /\ work'[t].queues = NoChannel
                              /\ reader.at = "wait" /\ lengthIn = L /\ h.input = (b <= Blocks)
  <2> SUFFICES ASSUME h.kind = "channels"
               PROVE  /\ h \in QueuedTask
                      /\ work'[t] = [kind |-> "channels", id |-> h.id, input |-> h.input, l |-> lengthIn,
                                             queues |-> NoChannel, left |-> ShareOf(h.id)]
                      /\ reader.at = "wait" /\ lengthIn = L /\ h.input = (b <= Blocks)
    OBVIOUS
  <2>1. h \in QueuedTask
    BY <1>6 DEF PartTask
  <2>2. work'[t] = [kind |-> "channels", id |-> h.id, input |-> h.input, l |-> lengthIn,
                    queues |-> NoChannel, left |-> ShareOf(h.id)]
    BY <1>7 DEF Begun, ShareOf, nTasks
  <2>3. h.id \in Tasks /\ Queued(1, h.id)
    BY <2>1 DEF QueuedTask, Queued
  <2>4. reader.at = "wait"
    BY <1>5, <2>3 DEF Inv, TasksOnce
  <2> QED
    BY <1>5, <2>1, <2>2, <2>4 DEF Inv, TasksOK
<1>15. h.kind # "channels" => work'[t] = h /\ h \in PartTask
  BY <1>6, <1>7 DEF Begun, PartTask, QueuedTask
<1> HIDE DEF h
<1>16. TasksOnce'
  <2>1. TasksOnce
    BY DEF Inv
  <2>2. ASSUME NEW i \in Tasks, NEW j \in DOMAIN m_queue', NEW k \in DOMAIN m_queue', Queued(j, i)', Queued(k, i)'
        PROVE  j = k
    <3>1. j + 1 = k + 1
      BY <1>9, <2>1, <2>2 DEF TasksOnce
    <3>2. j \in Nat /\ k \in Nat
      BY <1>5
    <3> QED
      BY <3>1, <3>2
  <2>3. ASSUME NEW i \in Tasks, NEW u \in Threads, NEW v \in Threads, Begins(u, i)', Begins(v, i)'
        PROVE  u = v
    BY <1>5, <1>11, <1>12, <2>1, <2>3 DEF TasksOnce
  <2>4. ASSUME NEW i \in Tasks, NEW j \in DOMAIN m_queue', NEW u \in Threads, Queued(j, i)', Begins(u, i)'
        PROVE  FALSE
    BY <1>5, <1>9, <1>11, <1>12, <2>1, <2>4 DEF TasksOnce
  <2>5. ASSUME NEW i \in Tasks, (\E j \in DOMAIN m_queue' : Queued(j, i)') \/ (\E u \in Threads : Begins(u, i)')
        PROVE  reader.at = "wait" /\ results[i] = -1
    BY <1>5, <1>9, <1>11, <1>12, <2>1, <2>5 DEF TasksOnce
  <2> QED
    BY <1>2, <2>2, <2>3, <2>4, <2>5 DEF TasksOnce
<1>17. \A c \in Channel : (Due(c)' <=> Due(c)) /\ (Enqueues(c)' <=> Enqueues(c))
  <2> TAKE c \in Channel
  <2>1. Due(c)' => Due(c)
    <3> SUFFICES ASSUME Due(c)' PROVE Due(c)
      OBVIOUS
    <3>1. CASE \E i \in Tasks : \E j \in DOMAIN m_queue' : Queued(j, i)' /\ c \in ShareOf(i)
      BY <1>9, <3>1 DEF Due
    <3>2. CASE \E u \in Threads : work'[u].kind = "channels" /\ c \in work'[u].left
      <4>1. PICK u \in Threads : work'[u].kind = "channels" /\ c \in work'[u].left
        BY <3>2
      <4>2. CASE u = t
        <5>1. h.kind = "channels"
          BY <1>15, <4>1, <4>2
        <5>2. h.id \in Tasks /\ Queued(1, h.id) /\ c \in ShareOf(h.id)
          BY <1>14, <4>1, <4>2, <5>1 DEF QueuedTask, Queued, h
        <5> QED
          BY <1>5, <5>2 DEF Due
      <4>3. CASE u # t
        BY <1>7, <4>1, <4>3 DEF Due
      <4> QED
        BY <4>2, <4>3
    <3> QED
      BY <3>1, <3>2 DEF Due
  <2>2. Due(c) => Due(c)'
    <3> SUFFICES ASSUME Due(c) PROVE Due(c)'
      OBVIOUS
    <3>1. CASE \E i \in Tasks : \E j \in DOMAIN m_queue : Queued(j, i) /\ c \in ShareOf(i)
      <4>1. PICK i \in Tasks, j \in DOMAIN m_queue : Queued(j, i) /\ c \in ShareOf(i)
        BY <3>1
      <4>2. CASE j = 1
        <5>1. h.kind = "channels" /\ h.id = i
          BY <4>1, <4>2 DEF Queued, h
        <5>2. work'[t].kind = "channels" /\ c \in work'[t].left
          BY <1>14, <4>1, <5>1
        <5> QED
          BY <5>2 DEF Due
      <4>3. CASE j # 1
        <5>1. PICK k \in DOMAIN m_queue' : m_queue'[k].kind = "channels" /\ m_queue'[k].id = i
          BY <1>10, <4>1, <4>3
        <5> QED
          BY <4>1, <5>1 DEF Due, Queued
      <4> QED
        BY <4>2, <4>3
    <3>2. CASE \E u \in Threads : work[u].kind = "channels" /\ c \in work[u].left
      BY <1>7, <1>8, <3>2 DEF Due
    <3> QED
      BY <3>1, <3>2 DEF Due
  <2>3. c # NoChannel
    BY ConstantFacts DEF Channel, NoChannel
  <2>4. Enqueues(c)' <=> Enqueues(c)
    <3>1. ~(work'[t].kind = "channels" /\ work'[t].queues = c)
      BY <1>14, <1>15, <2>3 DEF PartTask
    <3> QED
      BY <1>7, <1>8, <3>1 DEF Enqueues
  <2> QED
    BY <2>1, <2>2, <2>4
<1>18. ChannelsOK(b)'
  <2>1. \A c \in Channel : ChannelOK(c, b) => ChannelOK(c, b)'
    <3> TAKE c \in Channel
    <3>1. \A n : ChannelAt(c, n)' <=> ChannelAt(c, n)
      BY <1>2, <1>3, <1>17 DEF ChannelAt
    <3> QED
      BY <1>2, <1>3, <1>17, <3>1 DEF ChannelOK
  <2> QED
    BY <1>2, <2>1 DEF Inv, ChannelsOK, Fresh
<1>19. TasksOK(b)'
  <2>1. TasksOK(b)
    BY DEF Inv
  <2>2. ASSUME NEW u \in Threads, u # t PROVE TaskOK(u, b)'
    BY <1>2, <1>3, <1>7, <2>1, <2>2 DEF TasksOK, TaskOK, LengthIn
  <2>3. TaskOK(t, b)'
    <3>1. CASE h.kind = "channels"
      BY <1>3, <1>14, <3>1 DEF TaskOK, LengthIn
    <3>2. CASE h.kind # "channels"
      BY <1>15, <3>2 DEF TaskOK, PartTask
    <3> QED
      BY <3>1, <3>2
  <2>4. \A j \in DOMAIN m_queue' : m_queue'[j].kind = "channels" => m_queue'[j].input = (b <= Blocks)
    BY <1>5, <2>1 DEF TasksOK
  <2>5. \A begun : LengthIn(b, begun)' = LengthIn(b, begun)
    BY <1>3 DEF LengthIn
  <2> QED
    BY <1>2, <1>3, <2>1, <2>2, <2>3, <2>4, <2>5 DEF TasksOK
<1>20. BlocksOK(b)'
  BY <1>2, <1>3, <1>17 DEF Inv, BlocksOK
<1>21. Types'
  <2>1. Begun(h) \in PartTask \cup BegunTask
    <3>1. CASE h.kind = "channels"
      <4>1. ShareOf(h.id) \subseteq Channel
        <5>1. 0 \in Nat /\ Channels \in Nat /\ nTasks \in Nat \ {0} /\ h.id \in 0 .. nTasks - 1
          BY <1>14, <3>1, ConstantFacts DEF QueuedTask, Tasks
        <5>2. Share(h.id, nTasks, 0, Channels) \subseteq 0 .. 0 + Channels - 1
          BY <5>1, ShareWithin
        <5> QED
          BY <5>1, <5>2 DEF ShareOf, Channel
      <4>2. L \in 1 .. L
        BY ConstantFacts
      <4> QED
        BY <1>7, <1>14, <3>1, <4>1, <4>2 DEF QueuedTask, BegunTask
    <3>2. CASE h.kind # "channels"
      BY <1>7, <1>15, <3>2
    <3> QED
      BY <3>1, <3>2
  <2>2. work' \in [Threads -> {Idle} \cup PartTask \cup BegunTask]
    BY <1>1, <1>4, <2>1 DEF h
  <2> QED
    BY <1>2, <1>5, <2>2 DEF Inv, Types, PoolTypes, ConvolverTypes, ReaderTypes
<1>22. StreamOK(b)'
  BY <1>2, StreamKept DEF Inv
<1> QED
  BY <1>16, <1>18, <1>19, <1>20, <1>21, <1>22 DEF Inv

\* The older parts of the impulse response that a task adds.
LEMMA PartShareWithin ==
    ASSUME NEW id \in Parts
    PROVE  PartShare(id) \subseteq 1 .. P - 1
<1>1. m_numThreads \in Nat \ {0} /\ P - 1 \in Nat /\ 1 + (P - 1) - 1 = P - 1 /\ id \in 0 .. m_numThreads - 1
  BY ConstantFacts DEF Parts
<1>2. Share(id, m_numThreads, 1, P - 1) \subseteq 1 .. 1 + (P - 1) - 1
  BY <1>1, ShareWithin
<1> QED
  BY <1>1, <1>2 DEF PartShare

LEMMA TermType ==
    ASSUME NEW i \in 0 .. P - 1, NEW w \in Windows
    PROVE  Term(i, w) \in Sums
BY DEF Term, Sums

LEMMA TermsType ==
    ASSUME NEW p \in Nat, NEW n \in Nat, NEW S \in SUBSET (0 .. P - 1)
    PROVE  Terms(p, n, S) \in Sums
<1>1. ASSUME NEW i \in S PROVE Term(i, WindowFrom(p, n - i)) \in Sums
  <2>1. n - i \in Int
    BY ConstantFacts
  <2>2. WindowFrom(p, n - i) \in Windows
    BY <2>1, WindowType
  <2> QED
    BY <2>2, TermType
<1> QED
  BY <1>1 DEF Terms, Sums

\* A task that adds a part makes no difference to the tasks of the reader.
LEMMA SumPartsKeeps ==
    ASSUME NEW b \in Nat, Inv(b), NEW t \in Threads, SumParts(t)
    PROVE  Inv(b)'
<1> DEFINE a == work[t].channel
<1> DEFINE id == work[t].id
<1> DEFINE terms == UNION {Term(i, line[a][i + 1]) : i \in PartShare(id)}
<1>1. /\ work[t].kind = "part"
      /\ acc' = [acc EXCEPT ![a] = IF m_resetFlag[a] THEN acc[a] ELSE acc[a] \cup terms]
      /\ done' = done \cup {[channel |-> a, id |-> id]}
      /\ work' = [work EXCEPT ![t] = Idle]
      /\ UNCHANGED <<m_queue, m_futures, m_resetFlag, shift, line, tail, inOut, lengthIn, results, m_eosTail,
                     out, reader, position, base, total, seeks>>
  BY DEF SumParts, PartShare
<1>2. /\ m_queue' = m_queue /\ m_futures' = m_futures /\ m_resetFlag' = m_resetFlag
      /\ shift' = shift /\ line' = line /\ tail' = tail /\ inOut' = inOut /\ lengthIn' = lengthIn
      /\ results' = results
      /\ m_eosTail' = m_eosTail /\ out' = out /\ reader' = reader /\ position' = position /\ base' = base
      /\ total' = total
  BY <1>1
<1>3. Blocks' = Blocks
  BY <1>2, BlocksKept
<1>4. /\ work \in [Threads -> {Idle} \cup PartTask \cup BegunTask]
      /\ acc \in [Channel -> Sums] /\ line \in [Channel -> [1 .. P -> Windows]]
      /\ base \in Nat
  BY ConstantFacts DEF Inv, Types, PoolTypes, ConvolverTypes, ReaderTypes
<1>5. work[t] \in PartTask /\ a \in Channel /\ id \in Parts
  BY <1>1, <1>4 DEF Idle, PartTask, BegunTask
<1>6. work'[t] = Idle /\ \A u \in Threads : u # t => work'[u] = work[u]
  BY <1>1, <1>4
<1>7. \A u \in Threads : /\ work'[u].kind = "channels" <=> work[u].kind = "channels"
                         /\ work[u].kind = "channels" => work'[u] = work[u]
  BY <1>1, <1>6 DEF Idle
<1>8. PartShare(id) \subseteq 1 .. P - 1
  BY <1>5, PartShareWithin
<1>9. terms \in Sums
  <2>1. ASSUME NEW i \in PartShare(id) PROVE Term(i, line[a][i + 1]) \in Sums
    <3>1. i \in 0 .. P - 1 /\ i + 1 \in 1 .. P
      BY <1>8, ConstantFacts
    <3>2. line[a][i + 1] \in Windows
      BY <1>4, <1>5, <3>1
    <3> QED
      BY <3>1, <3>2, TermType
  <2> QED
    BY <2>1 DEF Sums
<1> HIDE DEF a, id
<1>10. TasksOnce'
  BY <1>2, <1>7 DEF Inv, TasksOnce, Queued, Begins
<1>11. \A c \in Channel : (Due(c)' <=> Due(c)) /\ (Enqueues(c)' <=> Enqueues(c))
  BY <1>2, <1>7 DEF Due, Enqueues, Queued
<1>12. \A c \in Channel : c # a => acc'[c] = acc[c]
  BY <1>1, <1>4
<1>13. acc'[a] = IF m_resetFlag[a] THEN acc[a] ELSE acc[a] \cup terms
  BY <1>1, <1>4, <1>5
<1> HIDE DEF terms
<1>14. ASSUME NEW c \in Channel, NEW n \in Int, ChannelAt(c, n), ~m_resetFlag[c]
       PROVE  ChannelAt(c, n)'
  <2>1. n < Blocks + P =>
           /\ acc'[c] \subseteq Terms(base, n + 1, 1 .. P - 1)
           /\ \A k \in Parts : [channel |-> c, id |-> k] \in done' =>
                  Terms(base, n + 1, PartShare(k)) \subseteq acc'[c]
    <3> SUFFICES ASSUME n < Blocks + P
                 PROVE  /\ acc'[c] \subseteq Terms(base, n + 1, 1 .. P - 1)
                        /\ \A k \in Parts : [channel |-> c, id |-> k] \in done' =>
                               Terms(base, n + 1, PartShare(k)) \subseteq acc'[c]
      OBVIOUS
    <3>1. CASE c # a
      <4>1. \A k \in Parts : [channel |-> c, id |-> k] \in done' => [channel |-> c, id |-> k] \in done
        BY <1>1, <3>1
      <4> QED
        BY <1>12, <1>14, <3>1, <4>1 DEF ChannelAt
    <3>2. CASE c = a
      <4>1. \A i \in 1 .. P - 1 : line[c][i + 1] = WindowFrom(base, n + 1 - i)
        BY <1>14 DEF ChannelAt
      <4> DEFINE S == PartShare(id)
      <4> DEFINE v(i) == Term(i, line[a][i + 1])
      <4> DEFINE u(i) == Term(i, WindowFrom(base, (n + 1) - i))
      <4>a. \A i \in S : v(i) = u(i)
        <5>1. \A i \in 1 .. P - 1 : n + 1 - i = (n + 1) - i
          BY ConstantFacts
        <5> QED
          BY <1>8, <3>2, <4>1, <5>1
      <4>b. terms = UNION {v(i) : i \in S}
        BY DEF terms
      <4>d. Terms(base, n + 1, S) = UNION {u(i) : i \in S}
        BY DEF Terms
      <4> HIDE DEF v, u, S
      <4>c. {v(i) : i \in S} = {u(i) : i \in S}
        BY <4>a
      <4>2. terms = Terms(base, n + 1, PartShare(id))
        BY <4>b, <4>c, <4>d DEF S
      <4>3. Terms(base, n + 1, PartShare(id)) \subseteq Terms(base, n + 1, 1 .. P - 1)
        BY <1>8 DEF Terms
      <4>4. acc'[c] = acc[c] \cup Terms(base, n + 1, PartShare(id))
        BY <1>13, <1>14, <3>2, <4>2
      <4>5. \A k \in Parts : [channel |-> c, id |-> k] \in done' => [channel |-> c, id |-> k] \in done \/ k = id
        BY <1>1, <3>2
      <4> QED
        BY <1>14, <4>3, <4>4, <4>5 DEF ChannelAt
    <3> QED
      BY <3>1, <3>2
  <2> QED
    BY <1>2, <1>3, <1>11, <1>14, <2>1 DEF ChannelAt
<1>15. ChannelsOK(b)'
  <2>1. CASE reader.at # "reset"
    <3> SUFFICES ASSUME NEW c \in Channel PROVE ChannelOK(c, b)'
      BY <1>2, <2>1 DEF ChannelsOK
    <3>1. ChannelOK(c, b)
      BY <2>1 DEF Inv, ChannelsOK
    <3>2. ChannelAt(c, IF Due(c) THEN b - 1 ELSE b)'
      BY <1>11, <1>14, <3>1 DEF ChannelOK
    <3> QED
      BY <1>2, <1>3, <1>11, <3>1, <3>2 DEF ChannelOK
  <2>2. CASE reader.at = "reset"
    <3>1. ASSUME NEW c \in Channel, Fresh(c) PROVE Fresh(c)'
      <4>1. c = a => terms = {}
        <5> SUFFICES ASSUME c = a, NEW i \in PartShare(id) PROVE Term(i, line[a][i + 1]) = {}
          BY DEF terms
        <5>1. i + 1 \in 1 .. P
          BY <1>8, ConstantFacts
        <5>2. line[a][i + 1] = Silence(2 * L)
          BY <1>5, <3>1, <5>1 DEF Fresh, Cleared
        <5> QED
          BY <5>2 DEF Term
      <4>2. acc'[c] = {}
        BY <1>12, <1>13, <3>1, <4>1 DEF Fresh
      <4> QED
        BY <1>2, <3>1, <4>2 DEF Fresh
    <3> QED
      BY <1>2, <2>2, <3>1 DEF Inv, ChannelsOK
  <2> QED
    BY <2>1, <2>2
<1>16. TasksOK(b)'
  BY <1>2, <1>3, <1>7 DEF Inv, TasksOK, TaskOK, LengthIn
<1>17. BlocksOK(b)'
  BY <1>2, <1>3, <1>11 DEF Inv, BlocksOK
<1>18. Types'
  <2>1. work' \in [Threads -> {Idle} \cup PartTask \cup BegunTask]
    BY <1>1, <1>4
  <2>2. acc' \in [Channel -> Sums]
    <3>1. acc[a] \cup terms \in Sums /\ acc[a] \in Sums
      BY <1>4, <1>5, <1>9 DEF Sums
    <3> QED
      BY <1>1, <1>4, <3>1
  <2> QED
    BY <1>2, <2>1, <2>2 DEF Inv, Types, PoolTypes, ConvolverTypes, ReaderTypes
<1>19. StreamOK(b)'
  BY <1>2, StreamKept DEF Inv
<1> QED
  BY <1>10, <1>15, <1>16, <1>17, <1>18, <1>19 DEF Inv

\* Two threads do not work for the same channel.
LEMMA OneTaskPerChannel ==
    ASSUME NEW b \in Nat, Inv(b), NEW c \in Channel,
           NEW t \in Threads, work[t].kind = "channels", c \in ShareOf(work[t].id)
    PROVE  /\ \A u \in Threads : work[u].kind = "channels" /\ c \in ShareOf(work[u].id) => u = t
           /\ \A i \in Tasks : \A j \in DOMAIN m_queue : Queued(j, i) => c \notin ShareOf(i)
<1>1. work[t].id \in Tasks /\ Begins(t, work[t].id)
  BY TaskFacts
<1>2. \A i, k \in Tasks : c \in ShareOf(i) /\ c \in ShareOf(k) => i = k
  <2> SUFFICES ASSUME NEW i \in Tasks, NEW k \in Tasks, c \in ShareOf(i), c \in ShareOf(k) PROVE i = k
    OBVIOUS
  <2>1. /\ Channels \in Nat /\ nTasks \in Nat \ {0} /\ 0 \in Nat
        /\ i \in 0 .. nTasks - 1 /\ k \in 0 .. nTasks - 1
        /\ c \in Share(i, nTasks, 0, Channels) /\ c \in Share(k, nTasks, 0, Channels)
    BY ConstantFacts DEF Tasks, ShareOf
  <2> QED
    BY <2>1, SharesAreDisjoint
<1>3. TasksOnce
  BY DEF Inv
<1>4. ASSUME NEW u \in Threads, work[u].kind = "channels", c \in ShareOf(work[u].id) PROVE u = t
  <2>1. work[u].id \in Tasks /\ Begins(u, work[u].id)
    BY <1>4, TaskFacts
  <2>2. work[u].id = work[t].id
    BY <1>1, <1>2, <1>4, <2>1
  <2> QED
    BY <1>1, <1>3, <2>1, <2>2 DEF TasksOnce
<1>5. ASSUME NEW i \in Tasks, NEW j \in DOMAIN m_queue, Queued(j, i), c \in ShareOf(i) PROVE FALSE
  <2>1. i = work[t].id
    BY <1>1, <1>2, <1>5
  <2> QED
    BY <1>1, <1>3, <1>5, <2>1 DEF TasksOnce
<1> QED
  BY <1>4, <1>5

\* A thread queues a task for the block to come.
LEMMA EnqueueKeeps ==
    ASSUME NEW b \in Nat, Inv(b), NEW t \in Threads, Enqueue(t)
    PROVE  Inv(b)'
<1> DEFINE a == work[t].queues
<1> DEFINE id == Cardinality(m_futures[a])
<1> DEFINE new == [kind |-> "part", channel |-> a, id |-> id]
<1> DEFINE rest == IF id + 1 < m_numThreads THEN a ELSE NoChannel
<1>1. /\ work[t].kind = "channels" /\ a # NoChannel
      /\ m_queue' = Append(m_queue, new)
      /\ m_futures' = [m_futures EXCEPT ![a] = m_futures[a] \cup {id}]
      /\ work' = [work EXCEPT ![t].queues = rest]
      /\ UNCHANGED <<done, m_resetFlag, shift, line, acc, tail, inOut, lengthIn, results, m_eosTail, out,
                   reader, position, base, total, seeks>>
  BY DEF Enqueue
<1>2. /\ done' = done /\ m_resetFlag' = m_resetFlag
      /\ shift' = shift /\ line' = line /\ acc' = acc /\ tail' = tail /\ inOut' = inOut /\ lengthIn' = lengthIn
      /\ results' = results
      /\ m_eosTail' = m_eosTail /\ out' = out /\ reader' = reader /\ position' = position /\ base' = base
      /\ total' = total
  BY <1>1
<1>3. Blocks' = Blocks
  BY <1>2, BlocksKept
<1>4. /\ work \in [Threads -> {Idle} \cup PartTask \cup BegunTask]
      /\ m_queue \in Seq(PartTask \cup QueuedTask)
      /\ m_futures \in [Channel -> SUBSET Parts]
  BY DEF Inv, Types, PoolTypes, ConvolverTypes
<1>5. /\ work[t] \in BegunTask /\ reader.at = "wait" /\ a \in Channel
  BY <1>1, TaskFacts DEF BegunTask
<1>6. TaskOK(t, b)
  BY DEF Inv, TasksOK
<1>7. a \in ShareOf(work[t].id) /\ a \notin work[t].left
  BY <1>1, <1>6 DEF TaskOK
<1>8. PICK k \in Parts : m_futures[a] = 0 .. k - 1
  BY <1>1, <1>6 DEF TaskOK
<1>9. id = k /\ k \in 0 .. m_numThreads - 1
  <2>1. k \in Nat /\ k \in 0 .. m_numThreads - 1
    BY ConstantFacts DEF Parts
  <2>2. Cardinality(0 .. k - 1) = IF 0 > k - 1 THEN 0 ELSE k - 1 - 0 + 1
    BY <2>1, FS_Interval
  <2> QED
    BY <1>8, <2>1, <2>2
<1>10. new \in PartTask
  BY <1>5, <1>9 DEF PartTask, Parts
<1>11. /\ \A u \in Threads : u # t => work'[u] = work[u]
       /\ work'[t] = [work[t] EXCEPT !.queues = rest]
  BY <1>1, <1>4
<1> HIDE DEF a, id, new
<1>12. /\ work'[t].kind = "channels" /\ work'[t].id = work[t].id /\ work'[t].input = work[t].input
       /\ work'[t].l = work[t].l /\ work'[t].left = work[t].left /\ work'[t].queues = rest
       /\ work'[t] \in BegunTask
  <2>1. rest \in Channel \cup {NoChannel}
    BY <1>5
  <2> HIDE DEF rest
  <2>2. work'[t] \in BegunTask
    BY <1>5, <1>11, <2>1 DEF BegunTask
  <2> QED
    BY <1>1, <1>5, <1>11, <2>2 DEF BegunTask
<1>13. /\ m_queue' \in Seq(PartTask \cup QueuedTask)
       /\ DOMAIN m_queue \subseteq DOMAIN m_queue'
       /\ \A j \in DOMAIN m_queue : m_queue'[j] = m_queue[j]
       /\ \A j \in DOMAIN m_queue' : j \in DOMAIN m_queue \/ m_queue'[j] = new
  <2>1. Len(m_queue) \in Nat /\ DOMAIN m_queue = 1 .. Len(m_queue)
    BY <1>4
  <2>2. /\ m_queue' \in Seq(PartTask \cup QueuedTask)
        /\ Len(m_queue') = Len(m_queue) + 1
        /\ \A j \in 1 .. Len(m_queue) : m_queue'[j] = m_queue[j]
        /\ m_queue'[Len(m_queue) + 1] = new
    BY <1>1, <1>4, <1>10, AppendProperties
  <2>3. DOMAIN m_queue' = 1 .. Len(m_queue')
    BY <2>2
  <2> QED
    BY <2>1, <2>2, <2>3
<1>14. new.kind # "channels"
  BY <1>10 DEF PartTask
<1>15. /\ \A i : \A j \in DOMAIN m_queue' : Queued(j, i)' => j \in DOMAIN m_queue /\ Queued(j, i)
       /\ \A i : \A j \in DOMAIN m_queue : Queued(j, i) => j \in DOMAIN m_queue' /\ Queued(j, i)'
  BY <1>13, <1>14 DEF Queued
<1>16. \A u \in Threads : \A i : Begins(u, i)' <=> Begins(u, i)
  BY <1>1, <1>11, <1>12 DEF Begins
<1>17. TasksOnce'
  BY <1>2, <1>15, <1>16 DEF Inv, TasksOnce
<1>18. \A c \in Channel : Due(c)' <=> Due(c)
  <2> TAKE c \in Channel
  <2>1. (\E i \in Tasks : \E j \in DOMAIN m_queue' : Queued(j, i)' /\ c \in ShareOf(i)) <=>
        (\E i \in Tasks : \E j \in DOMAIN m_queue : Queued(j, i) /\ c \in ShareOf(i))
    BY <1>15
  <2>2. (\E u \in Threads : work'[u].kind = "channels" /\ c \in work'[u].left) <=>
        (\E u \in Threads : work[u].kind = "channels" /\ c \in work[u].left)
    BY <1>1, <1>11, <1>12
  <2> QED
    BY <2>1, <2>2 DEF Due
<1>19. \A c \in Channel : c # a => (Enqueues(c)' <=> Enqueues(c)) /\ m_futures'[c] = m_futures[c]
  <2> TAKE c \in Channel
  <2> SUFFICES ASSUME c # a PROVE (Enqueues(c)' <=> Enqueues(c)) /\ m_futures'[c] = m_futures[c]
    OBVIOUS
  <2>1. c # NoChannel
    BY ConstantFacts DEF Channel, NoChannel
  <2>2. work'[t].queues # c /\ work[t].queues # c
    BY <1>12, <2>1 DEF a
  <2>3. Enqueues(c)' <=> Enqueues(c)
    BY <1>11, <2>2 DEF Enqueues
  <2> QED
    BY <1>1, <1>4, <2>3
<1>20. m_futures'[a] = 0 .. (k + 1) - 1
  <2>1. m_futures'[a] = (0 .. k - 1) \cup {k}
    BY <1>1, <1>4, <1>5, <1>8, <1>9
  <2>2. (0 .. k - 1) \cup {k} = 0 .. (k + 1) - 1
    BY <1>9, ConstantFacts
  <2> QED
    BY <2>1, <2>2
<1>21. \A c \in Channel : c = a /\ ~Enqueues(c)' => m_futures'[c] = Parts
  <2> SUFFICES ASSUME NEW c \in Channel, c = a, ~Enqueues(c)' PROVE m_futures'[a] = Parts
    OBVIOUS
  <2>1. rest # a
    BY <1>12 DEF Enqueues
  <2>2. k + 1 = m_numThreads
    BY <1>9, <2>1, ConstantFacts
  <2>3. (k + 1) - 1 = m_numThreads - 1
    BY <2>2
  <2> QED
    BY <1>20, <2>3 DEF Parts
<1>22. ChannelsOK(b)'
  <2> SUFFICES ASSUME NEW c \in Channel PROVE ChannelOK(c, b)'
    BY <1>2, <1>5 DEF ChannelsOK
  <2>1. ChannelOK(c, b)
    BY <1>5 DEF Inv, ChannelsOK
  <2>2. ~Enqueues(c)' => m_futures'[c] = Parts \/ (~Enqueues(c) /\ m_futures'[c] = m_futures[c])
    <3>1. CASE c = a
      BY <1>21, <3>1
    <3>2. CASE c # a
      BY <1>19, <3>2
    <3> QED
      BY <3>1, <3>2
  <2>3. \A n : ChannelAt(c, n) => ChannelAt(c, n)'
    BY <1>2, <1>3, <2>2 DEF ChannelAt
  <2> QED
    BY <1>2, <1>3, <1>18, <2>1, <2>3 DEF ChannelOK
<1>23. TasksOK(b)'
  <2>1. TasksOK(b)
    BY DEF Inv
  <2>2. ASSUME NEW u \in Threads, u # t PROVE TaskOK(u, b)'
    <3>1. TaskOK(u, b)
      BY <2>1 DEF TasksOK
    <3>2. ASSUME work[u].kind = "channels", work[u].queues # NoChannel
          PROVE  \E i \in Parts : m_futures'[work[u].queues] = 0 .. i - 1
      <4>1. work[u].queues \in ShareOf(work[u].id)
        BY <3>1, <3>2 DEF TaskOK
      <4>2. work[u].queues # a
        BY <1>1, <1>5, <1>7, <2>2, <3>2, <4>1, OneTaskPerChannel
      <4>3. work[u].queues \in Channel
        BY <3>2, TaskFacts DEF BegunTask
      <4> QED
        BY <1>19, <3>1, <3>2, <4>2, <4>3 DEF TaskOK
    <3> QED
      BY <1>2, <1>3, <1>11, <2>2, <3>1, <3>2 DEF TaskOK, LengthIn
  <2>3. TaskOK(t, b)'
    <3>1. rest # NoChannel => rest = a /\ k + 1 \in Parts
      BY <1>9, ConstantFacts DEF Parts
    <3>2. rest # NoChannel => \E i \in Parts : m_futures'[rest] = 0 .. i - 1
      BY <1>20, <3>1
    <3> HIDE DEF rest
    <3>3. work'[t].queues # NoChannel => \E i \in Parts : m_futures'[work'[t].queues] = 0 .. i - 1
      BY <1>12, <3>2
    <3>4. LengthIn(b, work[t].left # ShareOf(work[t].id))' = LengthIn(b, work'[t].left # ShareOf(work'[t].id))
      BY <1>3 DEF LengthIn
    <3> QED
      BY <1>1, <1>3, <1>6, <1>7, <1>12, <3>1, <3>3, <3>4 DEF TaskOK
  <2>4. \A j \in DOMAIN m_queue' : m_queue'[j].kind = "channels" => m_queue'[j].input = (b <= Blocks)
    BY <1>13, <1>14, <2>1 DEF TasksOK
  <2>5. \A begun : LengthIn(b, begun)' = LengthIn(b, begun)
    BY <1>3 DEF LengthIn
  <2> QED
    BY <1>2, <1>3, <2>1, <2>2, <2>3, <2>4, <2>5 DEF TasksOK
<1>24. BlocksOK(b)'
  BY <1>2, <1>3, <1>18 DEF Inv, BlocksOK
<1>25. Types'
  <2>1. work' \in [Threads -> {Idle} \cup PartTask \cup BegunTask]
    <3>1. work' = [work EXCEPT ![t] = work'[t]]
      BY <1>1, <1>4, <1>11
    <3> QED
      BY <1>4, <1>12, <3>1
  <2>2. m_futures' \in [Channel -> SUBSET Parts]
    BY <1>1, <1>4, <1>5, <1>9 DEF Parts
  <2> QED
    BY <1>2, <1>13, <2>1, <2>2 DEF Inv, Types, PoolTypes, ConvolverTypes, ReaderTypes
<1>26. StreamOK(b)'
  BY <1>2, StreamKept DEF Inv
<1> QED
  BY <1>17, <1>22, <1>23, <1>24, <1>25, <1>26 DEF Inv
------------------------------------------------------------------------------
(* The next block of a channel. *)

\* The tasks for the older parts have all the parts between them.
LEMMA PartsAreAll ==
    ASSUME NEW p, NEW n, NEW A, \A id \in Parts : Terms(p, n, PartShare(id)) \subseteq A
    PROVE  Terms(p, n, 1 .. P - 1) \subseteq A
<1> SUFFICES ASSUME NEW i \in 1 .. P - 1 PROVE Term(i, WindowFrom(p, n - i)) \subseteq A
  BY DEF Terms
<1>1. i \in 1 .. 1 + (P - 1) - 1 /\ P - 1 \in Nat /\ 1 \in Nat /\ m_numThreads \in Nat \ {0}
  BY ConstantFacts
<1>2. PICK id \in 0 .. m_numThreads - 1 : i \in Share(id, m_numThreads, 1, P - 1)
  BY <1>1, SharesCover
<1>3. id \in Parts /\ i \in PartShare(id)
  BY <1>2 DEF Parts, PartShare
<1>4. Term(i, WindowFrom(p, n - i)) \subseteq Terms(p, n, PartShare(id))
  BY <1>3 DEF Terms
<1> QED
  BY <1>3, <1>4

\* Before the first block is silence, which adds nothing.
LEMMA NoOlderTerms ==
    ASSUME NEW p \in Nat, NEW S \in SUBSET (1 .. P - 1)
    PROVE  Terms(p, 1, S) = {}
<1>1. ASSUME NEW i \in S PROVE Term(i, WindowFrom(p, 1 - i)) = {}
  <2>1. 1 - i \in Int /\ 1 - i <= 0
    BY ConstantFacts
  <2>2. WindowFrom(p, 1 - i) = Silence(2 * L)
    BY <2>1, SilentBefore
  <2> QED
    BY <2>2 DEF Term
<1> QED
  BY <1>1 DEF Terms

\* The newest part completes the sum.
LEMMA WholeSum ==
    ASSUME NEW p \in Nat, NEW n \in Nat
    PROVE  Terms(p, n, 1 .. P - 1) \cup Term(0, WindowFrom(p, n)) = Whole(p, n)
<1>1. 0 .. P - 1 = {0} \cup (1 .. P - 1) /\ n - 0 = n
  BY ConstantFacts
<1> QED
  BY <1>1 DEF Terms, Whole

LEMMA ShareOfType ==
    ASSUME NEW i \in Tasks
    PROVE  ShareOf(i) \subseteq Channel
<1>1. 0 \in Nat /\ Channels \in Nat /\ nTasks \in Nat \ {0} /\ i \in 0 .. nTasks - 1
  BY ConstantFacts DEF Tasks
<1>2. Share(i, nTasks, 0, Channels) \subseteq 0 .. 0 + Channels - 1
  BY <1>1, ShareWithin
<1> QED
  BY <1>1, <1>2 DEF ShareOf, Channel

\* Who gets the next block.
LEMMA GetsNext ==
    ASSUME NEW b \in Nat, Inv(b), NEW t \in Threads, Getting(t), NEW c, c = Min(work[t].left)
    PROVE  /\ c \in Channel /\ c \in work[t].left /\ c \in ShareOf(work[t].id)
           /\ Due(c) /\ ~Enqueues(c) /\ ChannelOK(c, b)
<1>1. work[t].kind = "channels" /\ work[t].queues = NoChannel /\ work[t].left # {}
  BY DEF Getting
<1>2. work[t] \in BegunTask /\ reader.at = "wait"
  BY <1>1, TaskFacts
<1>3. work[t].left \subseteq Nat /\ work[t].left \subseteq Channel
  BY <1>2, ConstantFacts DEF BegunTask, Channel
<1>4. c \in work[t].left
  BY <1>1, <1>3, MinOfSet
<1>5. TaskOK(t, b)
  BY DEF Inv, TasksOK
<1>6. c \in ShareOf(work[t].id)
  BY <1>1, <1>4, <1>5 DEF TaskOK
<1>7. c \in Channel
  BY <1>3, <1>4
<1>8. ~Enqueues(c)
  <2> SUFFICES ASSUME NEW u \in Threads, work[u].kind = "channels", work[u].queues = c PROVE FALSE
    BY DEF Enqueues
  <2>1. c # NoChannel
    BY <1>7, ConstantFacts DEF Channel, NoChannel
  <2>2. TaskOK(u, b)
    BY DEF Inv, TasksOK
  <2>3. c \in ShareOf(work[u].id)
    BY <2>1, <2>2 DEF TaskOK
  <2>4. u = t
    BY <1>1, <1>6, <1>7, <2>3, OneTaskPerChannel
  <2> QED
    BY <1>1, <2>1, <2>4
<1>9. Due(c)
  BY <1>1, <1>4 DEF Due
<1>10. ChannelOK(c, b)
  BY <1>2, <1>7 DEF Inv, ChannelsOK
<1> QED
  BY <1>4, <1>6, <1>7, <1>8, <1>9, <1>10

\* The sum of the older parts is complete when the channel has waited for its tasks.
LEMMA OlderParts ==
    ASSUME NEW b \in Nat, Inv(b), NEW c \in Channel, ChannelOK(c, b), Due(c), ~Enqueues(c), Finished(c),
           b > 0, b <= Blocks + P, Blocks \in Nat
    PROVE  acc[c] = Terms(base, b, 1 .. P - 1)
<1>1. b - 1 \in Nat /\ b - 1 < Blocks + P /\ (b - 1) + 1 = b
  BY ConstantFacts
<1>2. ChannelAt(c, b - 1)
  BY DEF ChannelOK
<1>3. /\ acc[c] \subseteq Terms(base, b, 1 .. P - 1)
      /\ \A id \in Parts : [channel |-> c, id |-> id] \in done => Terms(base, b, PartShare(id)) \subseteq acc[c]
      /\ b - 1 > 0 => m_futures[c] = Parts
  BY <1>1, <1>2 DEF ChannelAt
<1>4. CASE b = 1
  <2>1. base \in Nat
    BY ConstantFacts DEF Inv, Types, ReaderTypes
  <2>2. Terms(base, 1, 1 .. P - 1) = {}
    BY <2>1, NoOlderTerms
  <2> QED
    BY <1>3, <1>4, <2>2
<1>5. CASE b # 1
  <2>1. m_futures[c] = Parts
    BY <1>3, <1>5
  <2>2. \A id \in Parts : Terms(base, b, PartShare(id)) \subseteq acc[c]
    BY <1>3, <2>1 DEF Finished
  <2>3. Terms(base, b, 1 .. P - 1) \subseteq acc[c]
    BY <2>2, PartsAreAll
  <2> QED
    BY <1>3, <2>3
<1> QED
  BY <1>4, <1>5

\* What the channel is given: a block of the sound, or silence.
BlockData(input, l, c) == IF input THEN [k \in 1 .. l |-> inOut[c][k].at] ELSE Silence(l)

LEMMA NextData ==
    ASSUME WholeBlocks, NEW b \in Nat \ {0}, Inv(b), NEW c \in Channel, ChannelOK(c, b), Due(c),
           NEW l \in 1 .. L, b < Blocks + P => l = L, NEW d, d = BlockData(b <= Blocks, l, c)
    PROVE  /\ d \in Seq(Nat) /\ Len(d) = l
           /\ \A k \in 1 .. l : d[k] = WindowFrom(base, b)[L + k]
           /\ \A k \in l + 1 .. L : WindowFrom(base, b)[L + k] = 0
<1>1. /\ base \in Nat /\ L \in Nat /\ L >= 1 /\ l \in Nat /\ Blocks \in Nat /\ InputLength \in Nat /\ P \in Nat /\ P >= 1
      /\ base < InputLength => InputLength = base + Blocks * L
      /\ base >= InputLength => Blocks = 0
      /\ inOut \in [Channel -> [1 .. L -> Samples]]
  <2>1. base \in Places \cup {0} /\ inOut \in [Channel -> [1 .. L -> Samples]]
    BY DEF Inv, Types, ReaderTypes, ConvolverTypes
  <2> QED
    BY <2>1, BlocksFacts, ConstantFacts
<1>2. \A k \in 1 .. L : WindowFrom(base, b)[L + k] =
                  IF base + (b - 1) * L + k <= InputLength THEN base + (b - 1) * L + k ELSE 0
  <2> TAKE k \in 1 .. L
  <2>1. base \in Nat /\ b \in Nat \ {0} /\ k \in 1 .. L
    BY <1>1
  <2> QED
    BY ONLY <2>1, WindowHalves
<1>3. (b - 1) * L + L = b * L /\ (b - 1) * L \in Nat /\ b * L \in Nat /\ Blocks * L \in Nat
  BY <1>1
<1>4. CASE b <= Blocks
  <2>1. l = L
    BY <1>1, <1>4
  <2>2. d = [k \in 1 .. L |-> inOut[c][k].at]
    BY <1>4, <2>1 DEF BlockData
  <2>3. \A k \in 1 .. L : inOut[c][k].at = base + (b - 1) * L + k
    BY <1>4 DEF ChannelOK
  <2>4. b * L <= Blocks * L
    <3>1. CASE b = Blocks
      BY <1>3, <3>1
    <3>2. CASE b < Blocks
      <4>1. b * L + L <= Blocks * L
        BY <1>1, <3>2, ProductGrows
      <4> QED
        BY <1>1, <1>3, <4>1
    <3> QED
      BY <1>1, <1>4, <3>1, <3>2
  <2>5. InputLength = base + Blocks * L
    BY <1>1, <1>4
  <2>6. \A k \in 1 .. L : base + (b - 1) * L + k <= InputLength
    <3> TAKE k \in 1 .. L
    <3> DEFINE x == (b - 1) * L
    <3> DEFINE y == b * L
    <3> DEFINE z == Blocks * L
    <3>1. x \in Nat /\ y \in Nat /\ z \in Nat /\ x + L = y /\ y <= z /\ InputLength = base + z
      BY <1>3, <2>4, <2>5
    <3>2. base \in Nat /\ L \in Nat /\ k \in 1 .. L
      BY <1>1
    <3> HIDE DEF x, y, z
    <3>3. base + x + k <= InputLength
      BY ONLY <3>1, <3>2
    <3> QED
      BY <3>3 DEF x
  <2>7. \A k \in 1 .. L : d[k] = base + (b - 1) * L + k
    BY <2>2, <2>3
  <2>8. d \in [1 .. L -> Nat]
    BY <1>1, <2>2 DEF Samples
  <2>9. d \in Seq(Nat) /\ Len(d) = L
    BY <1>1, <2>8
  <2>10. \A k \in l + 1 .. L : FALSE
    BY <1>1, <2>1
  <2> QED
    BY <1>2, <2>1, <2>6, <2>7, <2>9, <2>10
<1>5. CASE ~(b <= Blocks)
  <2>1. d = Silence(l)
    BY <1>5 DEF BlockData
  <2>2. /\ d \in Seq(Nat) /\ Len(d) = l
        /\ \A k \in 1 .. l : d[k] = 0
    BY <1>1, <2>1, SilenceType
  <2>3. Blocks * L + L <= b * L
    BY <1>1, <1>5, ProductGrows
  <2>4. InputLength <= base + Blocks * L
    BY <1>1
  <2>5. \A k \in 1 .. L : ~(base + (b - 1) * L + k <= InputLength)
    BY <1>1, <1>3, <2>3, <2>4
  <2>6. \A k \in 1 .. L : WindowFrom(base, b)[L + k] = 0
    BY <1>2, <2>5
  <2>7. /\ \A k \in 1 .. l : k \in 1 .. L
        /\ \A k \in l + 1 .. L : k \in 1 .. L
    BY <1>1
  <2> QED
    BY <2>2, <2>6, <2>7
<1> QED
  BY <1>4, <1>5

LEMMA NextWindows ==
    ASSUME WholeBlocks, NEW b \in Nat \ {0}, Inv(b), NEW c \in Channel, ChannelOK(c, b), Due(c),
           NEW l \in 1 .. L, b < Blocks + P => l = L, NEW d, d = BlockData(b <= Blocks, l, c)
    PROVE  /\ Window(c, d) \in Windows /\ Shifted(c, d) \in Windows
           /\ b <= Blocks + P => Window(c, d) = WindowFrom(base, b)
           /\ b < Blocks + P => Shifted(c, d) = WindowFrom(base, b)
<1>1. /\ d \in Seq(Nat) /\ Len(d) = l
      /\ \A k \in 1 .. l : d[k] = WindowFrom(base, b)[L + k]
      /\ \A k \in l + 1 .. L : WindowFrom(base, b)[L + k] = 0
  BY NextData
<1>2. l \in 0 .. L /\ base \in Nat /\ Blocks \in Nat
  <2>1. base \in Places \cup {0}
    BY DEF Inv, Types, ReaderTypes
  <2> QED
    BY <2>1, BlocksFacts, ConstantFacts
<1>3. shift[c] \in Windows
  BY DEF Inv, Types, ConvolverTypes
<1> DEFINE s == shift[c]
<1>4. /\ Window(c, d) = SubSeq(s, L + 1, 2 * L) \o d \o Silence(L - l)
      /\ Shifted(c, d) = SubSeq(s, L + 1, 2 * L) \o d \o SubSeq(s, L + l + 1, 2 * L)
  BY <1>1 DEF Window, Shifted
<1> HIDE DEF s
<1>5. /\ SubSeq(s, L + 1, 2 * L) \o d \o SubSeq(s, L + l + 1, 2 * L) \in Windows
      /\ SubSeq(s, L + 1, 2 * L) \o d \o Silence(L - l) \in Windows
      /\ l = L => SubSeq(s, L + 1, 2 * L) \o d \o SubSeq(s, L + l + 1, 2 * L) =
                      SubSeq(s, L + 1, 2 * L) \o d \o Silence(L - l)
  <2>1. s \in Windows
    BY <1>3 DEF s
  <2> QED
    BY <1>1, <1>2, <2>1, NextShift
<1>6. ASSUME b <= Blocks + P PROVE Window(c, d) = WindowFrom(base, b)
  <2>1. ChannelAt(c, b - 1) /\ b - 1 < Blocks + P
    BY <1>2, <1>6, ConstantFacts DEF ChannelOK
  <2>2. s = WindowFrom(base, b - 1)
    BY <2>1 DEF ChannelAt, s
  <2>3. SubSeq(s, L + 1, 2 * L) \o d \o Silence(L - l) = WindowFrom(base, b)
    <3>1. IsBlockOf(d, WindowFrom(base, b)) /\ Len(d) \in 0 .. L
      BY <1>1, <1>2 DEF IsBlockOf
    <3>2. SubSeq(WindowFrom(base, b - 1), L + 1, 2 * L) \o d \o Silence(L - Len(d)) = WindowFrom(base, b)
      BY <1>1, <1>2, <3>1, NextWindow
    <3> QED
      BY <1>1, <2>2, <3>2
  <2> QED
    BY <1>4, <2>3
<1>7. ASSUME b < Blocks + P PROVE Shifted(c, d) = WindowFrom(base, b)
  <2>1. Window(c, d) = WindowFrom(base, b)
    BY <1>2, <1>6, <1>7, ConstantFacts
  <2>2. l = L
    BY <1>7
  <2>3. Shifted(c, d) = Window(c, d)
    BY <1>4, <1>5, <2>2
  <2> QED
    BY <2>1, <2>3
<1> QED
  BY <1>4, <1>5, <1>6, <1>7

\* The tail of a channel is counted from the last block of the sound on.
Counted(input, c) == IF input THEN tail[c] ELSE tail[c] + 1

LEMMA NextCount ==
    ASSUME NEW b \in Nat \ {0}, NEW c \in Channel, ChannelOK(c, b), Due(c), Blocks \in Nat, b <= Blocks + P
    PROVE  /\ Counted(b <= Blocks, c) = IF b <= Blocks THEN 0 ELSE b - Blocks
           /\ LastBlock(b <= Blocks, Counted(b <= Blocks, c)) <=> b = Blocks + P
<1>1. tail[c] = IF b - 1 <= Blocks THEN 0 ELSE b - 1 - Blocks
  BY DEF ChannelOK, ChannelAt
<1>2. P \in Nat /\ P >= 1
  BY ConstantFacts
<1>3. CASE b <= Blocks
  BY <1>1, <1>2, <1>3 DEF Counted, LastBlock
<1>4. CASE ~(b <= Blocks)
  <2>1. Counted(b <= Blocks, c) = b - Blocks
    BY <1>1, <1>4 DEF Counted
  <2> QED
    BY <1>2, <1>4, <2>1 DEF LastBlock
<1> QED
  BY <1>3, <1>4

LEMMA GetNextKeeps ==
    ASSUME WholeBlocks, NEW b \in Nat, Inv(b), NEW t \in Threads, GetNext(t)
    PROVE  Inv(b)'
<1> DEFINE a == Min(work[t].left)
<1> DEFINE in == work[t].input
<1> DEFINE data == BlockData(in, work[t].l, a)
<1> DEFINE sum == acc[a] \cup Term(0, Window(a, data))
<1> DEFINE count == Counted(in, a)
<1> DEFINE last == LastBlock(in, count)
<1> DEFINE queues == IF last \/ m_numThreads = 0 THEN NoChannel ELSE a
<1> DEFINE l == IF last /\ IRLength % L # 0 THEN IRLength % L ELSE L
<1> DEFINE newLine == Turned([line[a] EXCEPT ![1] = Window(a, data)])
<1>1. /\ Getting(t) /\ Finished(a)
      /\ shift' = [shift EXCEPT ![a] = Shifted(a, data)]
      /\ line' = [line EXCEPT ![a] = newLine]
      /\ inOut' = [inOut EXCEPT ![a] = [k \in 1 .. L |-> [sum |-> sum, at |-> k]]]
      /\ acc' = [acc EXCEPT ![a] = {}]
      /\ tail' = [tail EXCEPT ![a] = count]
      /\ m_eosTail' = last
      /\ m_futures' = [m_futures EXCEPT ![a] = {}]
      /\ done' = {d \in done : d.channel # a}
      /\ work' = [work EXCEPT ![t].left = work[t].left \ {a}, ![t].queues = queues, ![t].l = l]
      /\ UNCHANGED <<m_queue, m_resetFlag, lengthIn, results, out, reader, position, base, total, seeks>>
  BY DEF GetNext, BlockData, Counted
<1>2. /\ m_queue' = m_queue /\ m_resetFlag' = m_resetFlag /\ lengthIn' = lengthIn /\ results' = results
      /\ out' = out /\ reader' = reader /\ position' = position /\ base' = base /\ total' = total
  BY <1>1
<1>3. Blocks' = Blocks /\ Blocks \in Nat /\ base \in Nat
  <2>1. base \in Places \cup {0}
    BY DEF Inv, Types, ReaderTypes
  <2> QED
    BY <1>2, <2>1, BlocksKept, BlocksFacts
<1>4. work[t].kind = "channels" /\ work[t].queues = NoChannel
  BY <1>1 DEF Getting
<1>5. work[t] \in BegunTask /\ work[t].id \in Tasks /\ reader.at = "wait" /\ b > 0
  BY <1>4, TaskFacts
<1>6. b \in Nat \ {0} /\ b <= Blocks + P
  BY <1>5 DEF Inv, BlocksOK
<1>7. /\ work \in [Threads -> {Idle} \cup PartTask \cup BegunTask]
      /\ m_futures \in [Channel -> SUBSET Parts] /\ shift \in [Channel -> Windows]
      /\ line \in [Channel -> [1 .. P -> Windows]] /\ acc \in [Channel -> Sums] /\ tail \in [Channel -> Nat]
      /\ inOut \in [Channel -> [1 .. L -> Samples]]
  BY DEF Inv, Types, PoolTypes, ConvolverTypes
<1> HIDE DEF a
<1>8. /\ a \in Channel /\ a \in work[t].left /\ a \in ShareOf(work[t].id)
      /\ Due(a) /\ ~Enqueues(a) /\ ChannelOK(a, b)
  BY <1>1, GetsNext DEF a
<1>9. TaskOK(t, b)
  BY DEF Inv, TasksOK
<1>10. in = (b <= Blocks) /\ work[t].l \in 1 .. L /\ (b < Blocks + P => work[t].l = L)
  <2>1. work[t].l = LengthIn(b, work[t].left # ShareOf(work[t].id)) /\ in = (b <= Blocks)
    BY <1>4, <1>9 DEF TaskOK
  <2>2. b < Blocks + P => b # Blocks + P
    BY <1>3, <1>6, ConstantFacts
  <2> QED
    BY <1>5, <2>1, <2>2 DEF BegunTask, LengthIn
<1>11. /\ Window(a, data) \in Windows /\ Shifted(a, data) \in Windows
       /\ Window(a, data) = WindowFrom(base, b)
       /\ b < Blocks + P => Shifted(a, data) = WindowFrom(base, b)
  <2>1. data = BlockData(b <= Blocks, work[t].l, a)
    BY <1>10
  <2> HIDE DEF data
  <2> QED
    BY <1>6, <1>8, <1>10, <2>1, NextWindows
<1> HIDE DEF data
<1>12. acc[a] = Terms(base, b, 1 .. P - 1)
  BY <1>1, <1>3, <1>5, <1>6, <1>8, OlderParts
<1>13. sum = Whole(base, b)
  BY <1>3, <1>6, <1>11, <1>12, WholeSum
<1>14. /\ count = IF b <= Blocks THEN 0 ELSE b - Blocks
       /\ last <=> b = Blocks + P
  <2>1. /\ count = Counted(b <= Blocks, a)
        /\ last <=> LastBlock(b <= Blocks, Counted(b <= Blocks, a))
    BY <1>10
  <2> HIDE DEF count, last
  <2> QED
    BY <1>3, <1>6, <1>8, <2>1, NextCount
<1>15. last \in BOOLEAN
  BY DEF LastBlock
<1> HIDE DEF sum, count, last, in
<1>16. l = LengthIn(b, TRUE)
  BY <1>14 DEF LengthIn, LastLength
<1>17. l \in 1 .. L
  BY <1>16, LengthInType
<1>18. /\ newLine \in [1 .. P -> Windows]
       /\ \A i \in 1 .. P - 1 : newLine[i + 1] = [line[a] EXCEPT ![1] = Window(a, data)][i]
  <2> DEFINE w == [line[a] EXCEPT ![1] = Window(a, data)]
  <2>1. w \in [1 .. P -> Windows]
    BY <1>7, <1>8, <1>11
  <2> HIDE DEF w
  <2>2. Turned(w) \in [1 .. P -> Windows] /\ \A i \in 1 .. P - 1 : Turned(w)[i + 1] = w[i]
    BY <2>1, TurnedIs
  <2> QED
    BY <2>2 DEF w
<1> HIDE DEF newLine
<1>19. /\ shift'[a] = Shifted(a, data) /\ line'[a] = newLine /\ acc'[a] = {} /\ tail'[a] = count
       /\ m_futures'[a] = {} /\ inOut'[a] = [k \in 1 .. L |-> [sum |-> Whole(base, b), at |-> k]]
  BY <1>1, <1>7, <1>8, <1>13
<1>20. \A c \in Channel : c # a =>
          /\ shift'[c] = shift[c] /\ line'[c] = line[c] /\ acc'[c] = acc[c] /\ tail'[c] = tail[c]
          /\ m_futures'[c] = m_futures[c] /\ inOut'[c] = inOut[c]
  BY <1>1, <1>7
<1>21. \A u \in Threads : u # t => work'[u] = work[u]
  BY <1>1, <1>7
<1>22. /\ work'[t].kind = "channels" /\ work'[t].id = work[t].id /\ work'[t].input = work[t].input
       /\ work'[t].l = l /\ work'[t].left = work[t].left \ {a} /\ work'[t].queues = queues
       /\ work'[t] \in BegunTask
  <2>1. work'[t] = [work[t] EXCEPT !.left = work[t].left \ {a}, !.queues = queues, !.l = l]
    BY <1>1, <1>7
  <2>2. queues \in Channel \cup {NoChannel}
    BY <1>8
  <2> HIDE DEF queues, l
  <2>3. work'[t] \in BegunTask
    BY <1>5, <1>17, <2>1, <2>2 DEF BegunTask
  <2> QED
    BY <1>4, <1>5, <2>1, <2>3 DEF BegunTask
<1> HIDE DEF l
<1>23. /\ \A u \in Threads : work[u].kind = "channels" /\ a \in ShareOf(work[u].id) => u = t
       /\ \A i \in Tasks : \A j \in DOMAIN m_queue : Queued(j, i) => a \notin ShareOf(i)
  BY <1>4, <1>8, OneTaskPerChannel
<1>24. \A j, i : Queued(j, i)' <=> Queued(j, i)
  BY <1>2 DEF Queued
<1>25. \A u \in Threads : \A i : Begins(u, i)' <=> Begins(u, i)
  BY <1>4, <1>21, <1>22 DEF Begins
<1>26. ASSUME NEW c \in Channel, c = a PROVE ~Due(c)'
  <2>1. \A i \in Tasks : \A j \in DOMAIN m_queue' : Queued(j, i)' => c \notin ShareOf(i)
    BY <1>2, <1>23, <1>24, <1>26
  <2>2. ASSUME NEW u \in Threads, work'[u].kind = "channels", c \in work'[u].left PROVE FALSE
    <3>1. CASE u = t
      BY <1>22, <1>26, <2>2, <3>1
    <3>2. CASE u # t
      <4>1. work[u].kind = "channels" /\ a \in work[u].left
        BY <1>21, <1>26, <2>2, <3>2
      <4>2. TaskOK(u, b)
        BY DEF Inv, TasksOK
      <4>3. a \in ShareOf(work[u].id)
        BY <4>1, <4>2 DEF TaskOK
      <4> QED
        BY <1>23, <3>2, <4>1, <4>3
    <3> QED
      BY <3>1, <3>2
  <2> QED
    BY <2>1, <2>2 DEF Due
<1>27. ASSUME NEW c \in Channel, c # a PROVE (Due(c)' <=> Due(c)) /\ (Enqueues(c)' <=> Enqueues(c))
  <2>1. (\E i \in Tasks : \E j \in DOMAIN m_queue' : Queued(j, i)' /\ c \in ShareOf(i)) <=>
        (\E i \in Tasks : \E j \in DOMAIN m_queue : Queued(j, i) /\ c \in ShareOf(i))
    BY <1>2, <1>24
  <2>2. (\E u \in Threads : work'[u].kind = "channels" /\ c \in work'[u].left) <=>
        (\E u \in Threads : work[u].kind = "channels" /\ c \in work[u].left)
    BY <1>4, <1>21, <1>22, <1>27
  <2>3. c # NoChannel
    BY ConstantFacts DEF Channel, NoChannel
  <2>4. work'[t].queues # c
    BY <1>22, <1>27, <2>3
  <2>5. Enqueues(c)' <=> Enqueues(c)
    BY <1>4, <1>21, <2>3, <2>4 DEF Enqueues
  <2> QED
    BY <2>1, <2>2, <2>5 DEF Due
<1>28. TasksOnce'
  BY <1>2, <1>24, <1>25 DEF Inv, TasksOnce
<1>29. ChannelsOK(b)'
  <2> SUFFICES ASSUME NEW c \in Channel PROVE ChannelOK(c, b)'
    BY <1>2, <1>5 DEF ChannelsOK
  <2>1. CASE c # a
    <3>1. ChannelOK(c, b)
      BY <1>5 DEF Inv, ChannelsOK
    <3>2. \A id : [channel |-> c, id |-> id] \in done' => [channel |-> c, id |-> id] \in done
      BY <1>1
    <3>3. \A n : ChannelAt(c, n) => ChannelAt(c, n)'
      BY <1>2, <1>3, <1>20, <1>27, <2>1, <3>2 DEF ChannelAt
    <3> QED
      BY <1>2, <1>3, <1>20, <1>27, <2>1, <3>1, <3>3 DEF ChannelOK
  <2>2. CASE c = a
    <3>1. ~Due(c)' /\ ~m_resetFlag'[c]
      BY <1>2, <1>8, <1>26, <2>2 DEF ChannelOK
    <3>2. inOut'[c] = [k \in 1 .. L |-> [sum |-> Whole(base', b), at |-> k]]
      BY <1>2, <1>19, <2>2
    <3>3. ASSUME b < Blocks + P
          PROVE  /\ shift'[c] = WindowFrom(base, b)
                 /\ \A i \in 1 .. P - 1 : line'[c][i + 1] = WindowFrom(base, b + 1 - i)
                 /\ acc'[c] = {}
                 /\ \A id : [channel |-> c, id |-> id] \notin done'
                 /\ ~Enqueues(c)' => m_futures'[c] = Parts
      <4>1. ASSUME NEW i \in 1 .. P - 1 PROVE line'[c][i + 1] = WindowFrom(base, b + 1 - i)
        <5>1. line'[c][i + 1] = [line[a] EXCEPT ![1] = Window(a, data)][i]
          BY <1>18, <1>19, <2>2
        <5>2. i \in 1 .. P /\ 1 \in 1 .. P /\ P \in Nat
          BY ConstantFacts
        <5>3. CASE i = 1
          <6>1. b + 1 - i = b
            BY <5>3
          <6> QED
            BY <1>7, <1>8, <1>11, <5>1, <5>2, <5>3, <6>1
        <5>4. CASE i # 1
          <6>1. line'[c][i + 1] = line[a][i]
            BY <1>7, <1>8, <5>1, <5>2, <5>4
          <6>2. i - 1 \in 1 .. P - 1 /\ (i - 1) + 1 = i /\ b - 1 + 1 - (i - 1) = b + 1 - i
            BY <5>2, <5>4
          <6>3. ChannelAt(a, b - 1) /\ b - 1 < Blocks + P
            BY <1>3, <1>6, <1>8, <5>2 DEF ChannelOK
          <6>4. line[a][(i - 1) + 1] = WindowFrom(base, b - 1 + 1 - (i - 1))
            BY <6>2, <6>3 DEF ChannelAt
          <6> QED
            BY <6>1, <6>2, <6>4
        <5> QED
          BY <5>3, <5>4
      <4>2. \A id : [channel |-> c, id |-> id] \notin done'
        BY <1>1, <2>2
      <4>3. ~Enqueues(c)' => m_futures'[c] = Parts
        <5>1. b # Blocks + P
          BY <1>3, <1>6, <3>3, ConstantFacts
        <5>2. ~last
          BY <1>14, <1>15, <5>1
        <5>3. CASE m_numThreads = 0
          <6>1. Parts = {}
            BY <5>3 DEF Parts
          <6> QED
            BY <1>19, <2>2, <6>1
        <5>4. CASE m_numThreads # 0
          <6>1. work'[t].queues = c
            BY <1>22, <2>2, <5>2, <5>4
          <6> QED
            BY <1>22, <6>1 DEF Enqueues
        <5> QED
          BY <5>3, <5>4
      <4> QED
        BY <1>11, <1>19, <2>2, <3>3, <4>1, <4>2, <4>3
    <3>4. tail'[c] = IF b <= Blocks THEN 0 ELSE b - Blocks
      BY <1>14, <1>19, <2>2
    <3>5. ChannelAt(c, b)'
      BY <1>2, <1>3, <3>3, <3>4 DEF ChannelAt
    <3> QED
      BY <3>1, <3>2, <3>5 DEF ChannelOK
  <2> QED
    BY <2>1, <2>2
<1>30. TasksOK(b)'
  <2>1. TasksOK(b)
    BY DEF Inv
  <2>2. ASSUME NEW u \in Threads, u # t PROVE TaskOK(u, b)'
    <3>1. TaskOK(u, b)
      BY <2>1 DEF TasksOK
    <3>2. ASSUME work[u].kind = "channels", work[u].queues # NoChannel
          PROVE  \E i \in Parts : m_futures'[work[u].queues] = 0 .. i - 1
      <4>1. work[u].queues \in ShareOf(work[u].id)
        BY <3>1, <3>2 DEF TaskOK
      <4>2. work[u].queues # a
        BY <1>23, <2>2, <3>2, <4>1
      <4>3. work[u].queues \in Channel
        BY <3>2, TaskFacts DEF BegunTask
      <4> QED
        BY <1>20, <3>1, <3>2, <4>2, <4>3 DEF TaskOK
    <3> QED
      BY <1>2, <1>3, <1>21, <2>2, <3>1, <3>2 DEF TaskOK, LengthIn
  <2>3. TaskOK(t, b)'
    <3>1. queues # NoChannel => queues = a /\ 0 \in Parts
      BY ConstantFacts DEF Parts
    <3>2. queues # NoChannel => \E i \in Parts : m_futures'[queues] = 0 .. i - 1
      <4>1. 0 .. 0 - 1 = {}
        OBVIOUS
      <4> QED
        BY <1>19, <3>1, <4>1
    <3>3. queues # NoChannel => queues \in ShareOf(work[t].id) \ (work[t].left \ {a})
      BY <1>8, <3>1
    <3> HIDE DEF queues
    <3>4. work'[t].left # ShareOf(work'[t].id) /\ work'[t].left \subseteq ShareOf(work'[t].id)
      BY <1>4, <1>8, <1>9, <1>22 DEF TaskOK
    <3>5. work'[t].l = LengthIn(b, TRUE)
      BY <1>16, <1>22
    <3>6. work'[t].l = IF b = Blocks' + P /\ work'[t].left # ShareOf(work'[t].id) THEN LastLength ELSE L
      BY <1>3, <3>4, <3>5 DEF LengthIn
    <3>7. work'[t].input = (b <= Blocks')
      BY <1>3, <1>4, <1>9, <1>22 DEF TaskOK
    <3>8. work'[t].queues # NoChannel =>
               /\ work'[t].queues \in ShareOf(work'[t].id) \ work'[t].left
               /\ \E k \in Parts : m_futures'[work'[t].queues] = 0 .. k - 1
      BY <1>22, <3>2, <3>3
    <3> QED
      BY <3>4, <3>6, <3>7, <3>8 DEF TaskOK, LengthIn
  <2>4. \A begun : LengthIn(b, begun)' = LengthIn(b, begun)
    BY <1>3 DEF LengthIn
  <2> QED
    BY <1>2, <1>3, <2>1, <2>2, <2>3, <2>4 DEF TasksOK
<1>31. BlocksOK(b)'
  <2>1. ~(\A c \in Channel : Due(c)')
    BY <1>8, <1>26
  <2>2. m_eosTail' = (b = Blocks + P)
    BY <1>1, <1>14, <1>15 DEF last
  <2> QED
    BY <1>2, <1>3, <1>5, <2>1, <2>2 DEF Inv, BlocksOK
<1>32. Types'
  <2>1. work' \in [Threads -> {Idle} \cup PartTask \cup BegunTask]
    <3>1. work' = [work EXCEPT ![t] = work'[t]]
      BY <1>1, <1>7, <1>21
    <3> QED
      BY <1>7, <1>22, <3>1
  <2>2. m_futures' \in [Channel -> SUBSET Parts] /\ shift' \in [Channel -> Windows] /\ tail' \in [Channel -> Nat]
    <3>1. count \in Nat
      BY <1>3, <1>6, <1>14
    <3> QED
      BY <1>1, <1>7, <1>8, <1>11, <3>1
  <2>3. line' \in [Channel -> [1 .. P -> Windows]]
    BY <1>1, <1>7, <1>8, <1>18
  <2>4. acc' \in [Channel -> Sums]
    <3>1. {} \in Sums
      BY DEF Sums
    <3> QED
      BY <1>1, <1>7, <1>8, <3>1
  <2>5. inOut' \in [Channel -> [1 .. L -> Samples]]
    <3>1. Whole(base, b) \in Sums
      BY <1>3, TermsType DEF Whole
    <3>2. [k \in 1 .. L |-> [sum |-> Whole(base, b), at |-> k]] \in [1 .. L -> Samples]
      BY <3>1, ConstantFacts DEF Samples
    <3> QED
      BY <1>1, <1>7, <1>8, <1>13, <3>2
  <2>6. ConvolverTypes'
    BY <1>2, <2>2, <2>3, <2>4, <2>5 DEF Inv, Types, ConvolverTypes
  <2>7. m_eosTail' \in BOOLEAN
    BY <1>1, <1>15 DEF last
  <2> QED
    BY <1>2, <2>1, <2>6, <2>7 DEF Inv, Types, PoolTypes, ReaderTypes
<1>33. StreamOK(b)'
  BY <1>2, StreamKept DEF Inv
<1> QED
  BY <1>28, <1>29, <1>30, <1>31, <1>32, <1>33 DEF Inv
------------------------------------------------------------------------------
(* The first block, at the beginning and after a seek. *)

\* The blocks of the sound from a place on.
BlocksFrom(p) == IF p >= InputLength THEN 0 ELSE CeilDiv(InputLength - p, L)

LEMMA BlocksFromType ==
    ASSUME NEW p \in Nat
    PROVE  BlocksFrom(p) \in Nat /\ BlocksFrom(p) + P > 0
<1>1. BlocksFrom(p) \in Nat
  <2>1. CASE p >= InputLength
    BY <2>1 DEF BlocksFrom
  <2>2. CASE ~(p >= InputLength)
    <3>1. InputLength - p \in Nat /\ L \in Nat \ {0}
      BY <2>2, ConstantFacts
    <3> QED
      BY <2>2, <3>1, CeilDivCovers DEF BlocksFrom
  <2> QED
    BY <2>1, <2>2
<1> QED
  BY <1>1, ConstantFacts

\* Silence is what the channels have got before the first block.
LEMMA FirstWindows ==
    ASSUME NEW p \in Nat
    PROVE  /\ Silence(2 * L) = WindowFrom(p, 0)
           /\ \A c \in Channel : \A i \in 1 .. P - 1 : Cleared[c][i + 1] = WindowFrom(p, 0 + 1 - i)
           /\ \A id \in Parts : Terms(p, 0 + 1, PartShare(id)) = {}
           /\ Silence(2 * L) \in Windows /\ Cleared \in [Channel -> [1 .. P -> Windows]]
<1>1. Silence(2 * L) = WindowFrom(p, 0)
  BY SilentBefore
<1>2. ASSUME NEW c \in Channel, NEW i \in 1 .. P - 1 PROVE Cleared[c][i + 1] = WindowFrom(p, 0 + 1 - i)
  <2>1. 0 + 1 - i \in Int /\ 0 + 1 - i <= 0 /\ i + 1 \in 1 .. P
    BY ConstantFacts
  <2> QED
    BY <2>1, SilentBefore DEF Cleared
<1>3. ASSUME NEW id \in Parts PROVE Terms(p, 0 + 1, PartShare(id)) = {}
  <2>1. PartShare(id) \in SUBSET (1 .. P - 1) /\ 0 + 1 = 1
    BY PartShareWithin
  <2> QED
    BY <2>1, NoOlderTerms
<1>4. Silence(2 * L) \in Windows
  BY <1>1, WindowType
<1> QED
  BY <1>1, <1>2, <1>3, <1>4 DEF Cleared

LEMMA InitKeeps ==
    ASSUME Init
    PROVE  Inv(0)
<1> USE DEF Init
<1>1. base = 0 /\ base \in Nat /\ Blocks = BlocksFrom(base) /\ Blocks \in Nat /\ Blocks + P > 0 /\ 0 \in Nat
  BY BlocksFromType DEF Blocks, BlocksOfSound, BlocksFrom
<1>2. DOMAIN m_queue = {} /\ \A t \in Threads : work[t] = Idle
  OBVIOUS
<1>3. \A t \in Threads : work[t].kind # "channels"
  BY <1>2 DEF Idle
<1>4. \A c \in Channel : ~Due(c) /\ ~Enqueues(c)
  BY <1>2, <1>3 DEF Due, Enqueues
<1>5. TasksOnce
  BY <1>2, <1>3 DEF TasksOnce, Begins
<1>6. ChannelsOK(0)
  <2> SUFFICES ASSUME NEW c \in Channel PROVE ChannelOK(c, 0)
    BY DEF ChannelsOK
  <2>1. /\ shift[c] = WindowFrom(base, 0)
        /\ \A i \in 1 .. P - 1 : line[c][i + 1] = WindowFrom(base, 0 + 1 - i)
        /\ acc[c] = {} /\ tail[c] = 0 /\ ~m_resetFlag[c] /\ done = {}
    BY <1>1, FirstWindows
  <2>2. ChannelAt(c, 0)
    BY <1>1, <2>1 DEF ChannelAt
  <2> QED
    BY <1>4, <2>1, <2>2 DEF ChannelOK
<1>7. TasksOK(0)
  BY <1>2, <1>3 DEF TasksOK, TaskOK
<1>8. BlocksOK(0)
  <2>1. (IF 0 <= Blocks THEN 0 ELSE Blocks) * L = 0
    BY <1>1, ConstantFacts
  <2>2. base + 0 = base /\ 0 <= Blocks + P /\ 0 # Blocks + P /\ position = base
    BY <1>1, ConstantFacts
  <2>3. reader.at = "idle" /\ m_eosTail = FALSE
    OBVIOUS
  <2> QED
    BY ONLY <2>1, <2>2, <2>3 DEF BlocksOK
<1>9. Types
  <2>1. PoolTypes
    BY DEF PoolTypes
  <2>2. inOut \in [Channel -> [1 .. L -> Samples]]
    <3>1. Input(0) \in Samples
      BY DEF Input, Samples, Sums
    <3> QED
      BY <3>1
  <2>3. shift \in [Channel -> Windows] /\ line \in [Channel -> [1 .. P -> Windows]]
    BY <1>1, FirstWindows
  <2>4. ConvolverTypes
    BY <2>2, <2>3 DEF ConvolverTypes, Sums
  <2>5. ReaderTypes
    <3>1. <<>> \in Seq(Frame)
      BY EmptySeq
    <3>2. L \in 0 .. L /\ L \in 1 .. L
      BY ConstantFacts
    <3>3. out \in [buf : Seq(Frame), pos : 0 .. L, len : 1 .. L] /\ out.pos <= out.len
      BY <3>1, <3>2
    <3>4. reader \in ReaderState
      BY <3>1 DEF ReaderState
    <3> QED
      BY <3>3, <3>4 DEF ReaderTypes
  <2> QED
    BY <2>1, <2>4, <2>5 DEF Types
<1>10. StreamOK(0)
  <2>1. Len(reader.got) = 0 /\ Heard = 0 /\ Loaded(0) = 0 /\ out.pos = out.len /\ out.len = L
    BY DEF Heard, Loaded
  <2>2. Right(base, reader.got, 0)
    BY <2>1 DEF Right
  <2> QED
    BY <1>1, <2>1, <2>2 DEF StreamOK
<1> QED
  BY <1>5, <1>6, <1>7, <1>8, <1>9, <1>10 DEF Inv

\* A channel that was reset is as it was at the beginning; after the last one the sound begins anew.
LEMMA ResetKeeps ==
    ASSUME NEW b \in Nat, Inv(b), Reset
    PROVE  Inv(b)' \/ Inv(0)'
<1> DEFINE a == reader.channel
<1>1. /\ reader.at = "reset"
      /\ m_futures' = [m_futures EXCEPT ![a] = {}]
      /\ done' = {d \in done : d.channel # a}
      /\ shift' = [shift EXCEPT ![a] = Silence(2 * L)]
      /\ line' = [line EXCEPT ![a] = Cleared[a]]
      /\ acc' = [acc EXCEPT ![a] = {}] /\ tail' = [tail EXCEPT ![a] = 0]
      /\ UNCHANGED <<m_queue, work, inOut, lengthIn, results>>
  BY DEF Reset
<1>2. \/ /\ a + 1 \in Channel
         /\ reader' = [reader EXCEPT !.channel = a + 1]
         /\ m_resetFlag' = [m_resetFlag EXCEPT ![a] = FALSE, ![a + 1] = TRUE]
         /\ UNCHANGED <<m_eosTail, out, position, base, total, seeks>>
      \/ /\ a + 1 \notin Channel
         /\ reader' = [at |-> "idle", got |-> <<>>]
         /\ m_resetFlag' = [m_resetFlag EXCEPT ![a] = FALSE]
         /\ m_eosTail' = FALSE
         /\ out' = [out EXCEPT !.pos = L, !.len = L]
         /\ position' = reader.to /\ base' = reader.to /\ total' = 0 /\ seeks' = seeks + 1
  BY DEF Reset
<1>3. /\ reader \in [at : {"reset"}, to : Places, channel : Channel, got : Seq(Frame)]
      /\ reader.to \in Nat /\ a \in Channel
  <2>1. reader \in [at : {"reset"}, to : Places, channel : Channel, got : Seq(Frame)]
    BY <1>1 DEF Inv, Types, ReaderTypes, ReaderState
  <2> QED
    BY <2>1, ConstantFacts
<1>4. /\ work \in [Threads -> {Idle} \cup PartTask \cup BegunTask]
      /\ m_futures \in [Channel -> SUBSET Parts] /\ shift \in [Channel -> Windows]
      /\ line \in [Channel -> [1 .. P -> Windows]] /\ acc \in [Channel -> Sums] /\ tail \in [Channel -> Nat]
      /\ inOut \in [Channel -> [1 .. L -> Samples]] /\ m_resetFlag \in [Channel -> BOOLEAN]
      /\ out \in [buf : Seq(Frame), pos : 0 .. L, len : 1 .. L]
  BY DEF Inv, Types, PoolTypes, ConvolverTypes, ReaderTypes
<1>5. /\ \A j \in DOMAIN m_queue : m_queue[j].kind # "channels"
      /\ \A t \in Threads : work[t].kind # "channels"
  BY <1>1, NoTask
<1> HIDE DEF a
<1>6. /\ m_queue' = m_queue /\ work' = work /\ inOut' = inOut
  BY <1>1
<1>7. \A c \in Channel : ~Due(c)' /\ ~Enqueues(c)'
  BY <1>5, <1>6 DEF Due, Enqueues, Queued
<1>8. /\ shift'[a] = Silence(2 * L) /\ line'[a] = Cleared[a] /\ acc'[a] = {} /\ tail'[a] = 0
      /\ \A c \in Channel : c # a => /\ shift'[c] = shift[c] /\ line'[c] = line[c]
                                     /\ acc'[c] = acc[c] /\ tail'[c] = tail[c]
  BY <1>1, <1>3, <1>4
<1>9. \A c \in Channel : c < a => /\ ~m_resetFlag[c]
                                  /\ shift[c] = Silence(2 * L) /\ line[c] = Cleared[c] /\ acc[c] = {} /\ tail[c] = 0
  BY <1>1 DEF Inv, ChannelsOK, Fresh, a
<1>10. \A c \in Channel : c > a => ~m_resetFlag[c]
  BY <1>1 DEF Inv, ChannelsOK, a
<1>11. \A c \in Channel : c <= a =>
          shift'[c] = Silence(2 * L) /\ line'[c] = Cleared[c] /\ acc'[c] = {} /\ tail'[c] = 0
  <2> TAKE c \in Channel
  <2>1. c <= a => c = a \/ c < a
    BY <1>3, ConstantFacts DEF Channel
  <2>2. c < a => c # a
    BY <1>3, ConstantFacts DEF Channel
  <2> QED
    BY <1>8, <1>9, <2>1, <2>2
<1>12. ConvolverTypes' /\ PoolTypes'
  <2>1. shift' \in [Channel -> Windows] /\ line' \in [Channel -> [1 .. P -> Windows]]
    BY <1>1, <1>3, <1>4, FirstWindows
  <2>2. acc' \in [Channel -> Sums] /\ tail' \in [Channel -> Nat] /\ m_futures' \in [Channel -> SUBSET Parts]
    <3>1. {} \in Sums
      BY DEF Sums
    <3> QED
      BY <1>1, <1>3, <1>4, <3>1
  <2>3. m_resetFlag' \in [Channel -> BOOLEAN]
    BY <1>2, <1>3, <1>4
  <2> QED
    BY <1>6, <2>1, <2>2, <2>3 DEF Inv, Types, PoolTypes, ConvolverTypes
<1>13. TasksOnce'
  BY <1>5, <1>6 DEF TasksOnce, Queued, Begins
<1>14. CASE a + 1 \in Channel
  <2>1. /\ reader' = [reader EXCEPT !.channel = a + 1]
        /\ m_resetFlag' = [m_resetFlag EXCEPT ![a] = FALSE, ![a + 1] = TRUE]
        /\ m_eosTail' = m_eosTail /\ out' = out /\ position' = position /\ base' = base /\ total' = total
    BY <1>2, <1>14
  <2>2. Blocks' = Blocks
    BY <2>1, BlocksKept
  <2>3. /\ reader' \in [at : {"reset"}, to : Places, channel : Channel, got : Seq(Frame)]
        /\ reader'.at = "reset" /\ reader'.channel = a + 1 /\ reader'.got = reader.got
    BY <1>3, <1>14, <2>1
  <2>4. ChannelsOK(b)'
    <3>1. ASSUME NEW c \in Channel, c < a + 1 PROVE Fresh(c)'
      <4>1. c <= a /\ c # a + 1
        BY <1>3, <3>1, ConstantFacts DEF Channel
      <4>2. ~m_resetFlag'[c]
        <5>1. CASE c = a
          BY <1>3, <1>4, <2>1, <4>1, <5>1
        <5>2. CASE c # a
          <6>1. c < a
            BY <1>3, <4>1, <5>2, ConstantFacts DEF Channel
          <6> QED
            BY <1>4, <1>9, <2>1, <4>1, <5>2, <6>1
        <5> QED
          BY <5>1, <5>2
      <4> QED
        BY <1>11, <4>1, <4>2 DEF Fresh
    <3>2. ASSUME NEW c \in Channel, c > a + 1 PROVE ~m_resetFlag'[c]
      <4>1. c > a /\ c # a /\ c # a + 1
        BY <1>3, <3>2, ConstantFacts DEF Channel
      <4> QED
        BY <1>4, <1>10, <2>1, <4>1
    <3> QED
      BY <2>3, <3>1, <3>2 DEF ChannelsOK
  <2>5. TasksOK(b)'
    BY <1>5, <1>6, <2>3 DEF TasksOK, TaskOK
  <2>6. BlocksOK(b)'
    BY <1>1, <2>1, <2>2, <2>3 DEF Inv, BlocksOK
  <2>7. Types'
    BY <1>12, <2>1, <2>3 DEF Inv, Types, ReaderTypes, ReaderState
  <2>8. StreamOK(b)'
    <3>1. Loaded(b)' = Loaded(b) /\ Heard' = Heard
      BY <1>1, <2>1, <2>3 DEF Loaded, Heard
    <3> QED
      BY <1>1, <2>1, <2>2, <2>3, <3>1 DEF Inv, StreamOK
  <2> QED
    BY <1>13, <2>4, <2>5, <2>6, <2>7, <2>8 DEF Inv
<1>15. CASE a + 1 \notin Channel
  <2> DEFINE p == reader.to
  <2>1. /\ reader' = [at |-> "idle", got |-> <<>>]
        /\ m_resetFlag' = [m_resetFlag EXCEPT ![a] = FALSE]
        /\ m_eosTail' = FALSE
        /\ out' = [out EXCEPT !.pos = L, !.len = L]
        /\ position' = p /\ base' = p /\ total' = 0
    BY <1>2, <1>15
  <2>2. p \in Nat /\ p \in Places
    BY <1>3
  <2> HIDE DEF p
  <2>3. Blocks' = BlocksFrom(p) /\ BlocksFrom(p) \in Nat /\ BlocksFrom(p) + P > 0
    BY <2>1, <2>2, BlocksFromType DEF Blocks, BlocksOfSound, BlocksFrom
  <2>4. reader'.at = "idle" /\ reader'.got = <<>> /\ Len(reader'.got) = 0
    BY <2>1
  <2>5. \A c \in Channel : c <= a /\ ~m_resetFlag'[c]
    <3> TAKE c \in Channel
    <3>1. c <= a
      BY <1>3, <1>15, ConstantFacts DEF Channel
    <3>2. CASE c = a
      BY <1>3, <1>4, <2>1, <3>1, <3>2
    <3>3. CASE c # a
      <4>1. c < a
        BY <1>3, <3>1, <3>3, ConstantFacts DEF Channel
      <4> QED
        BY <1>4, <1>9, <2>1, <3>1, <3>3, <4>1
    <3> QED
      BY <3>2, <3>3
  <2>6. ChannelsOK(0)'
    <3> SUFFICES ASSUME NEW c \in Channel PROVE ChannelOK(c, 0)'
      BY <2>4 DEF ChannelsOK
    <3>1. /\ shift'[c] = WindowFrom(p, 0)
          /\ \A i \in 1 .. P - 1 : line'[c][i + 1] = WindowFrom(p, 0 + 1 - i)
          /\ acc'[c] = {} /\ tail'[c] = 0 /\ ~m_resetFlag'[c]
          /\ \A id \in Parts : Terms(p, 0 + 1, PartShare(id)) = {}
      BY <1>11, <2>2, <2>5, FirstWindows
    <3>2. ChannelAt(c, 0)'
      BY <2>1, <2>3, <3>1 DEF ChannelAt
    <3> QED
      BY <1>7, <3>1, <3>2 DEF ChannelOK
  <2>7. TasksOK(0)'
    BY <1>5, <1>6, <2>4 DEF TasksOK, TaskOK
  <2>8. BlocksOK(0)'
    <3>1. (IF 0 <= BlocksFrom(p) THEN 0 ELSE BlocksFrom(p)) * L = 0
      BY <2>3, ConstantFacts
    <3>2. p + 0 = p /\ 0 <= BlocksFrom(p) + P /\ 0 # BlocksFrom(p) + P
      BY <2>2, <2>3, ConstantFacts
    <3> QED
      BY <2>1, <2>3, <2>4, <3>1, <3>2 DEF BlocksOK
  <2>9. Types'
    <3>1. reader' \in ReaderState
      BY <2>1, EmptySeq DEF ReaderState
    <3>2. L \in 0 .. L /\ L \in 1 .. L
      BY ConstantFacts
    <3>3. out' \in [buf : Seq(Frame), pos : 0 .. L, len : 1 .. L] /\ out'.pos <= out'.len
      <4>1. out.buf \in Seq(Frame) /\ out' = [buf |-> out.buf, pos |-> L, len |-> L]
        BY <1>4, <2>1
      <4>2. L <= L
        BY ConstantFacts
      <4> QED
        BY <3>2, <4>1, <4>2
    <3> QED
      BY <1>12, <2>1, <2>2, <3>1, <3>3 DEF Types, ReaderTypes
  <2>10. StreamOK(0)'
    <3>1. Heard' = 0 /\ Loaded(0)' = 0 /\ out'.pos = out'.len /\ out'.len = L
      BY <1>4, <2>1, <2>4 DEF Heard, Loaded
    <3>2. \A h : Right(p, reader'.got, h)
      BY <2>4 DEF Right
    <3>3. ~(BlocksFrom(p) + P = 0) /\ 0 - 0 = 0
      BY <2>3, ConstantFacts
    <3> QED
      BY <2>1, <2>3, <2>4, <3>1, <3>2, <3>3 DEF StreamOK
  <2> QED
    BY <1>13, <2>6, <2>7, <2>8, <2>9, <2>10 DEF Inv
<1> QED
  BY <1>14, <1>15
------------------------------------------------------------------------------
(* The theorems. *)

LEMMA StutterKeeps ==
    ASSUME NEW b \in Nat, Inv(b), UNCHANGED vars
    PROVE  Inv(b)'
<1>1. UNCHANGED <<pool, convolvers, inOut, lengthIn, results, m_eosTail, out, reader, position, base, total, seeks>>
  BY DEF vars
<1>2. /\ m_queue' = m_queue /\ work' = work /\ m_futures' = m_futures /\ m_resetFlag' = m_resetFlag
      /\ shift' = shift /\ line' = line /\ acc' = acc /\ tail' = tail
  BY <1>1 DEF pool, convolvers
<1>3. Blocks' = Blocks
  BY <1>1, BlocksKept
<1>4. \A c : (Due(c)' <=> Due(c)) /\ (Enqueues(c)' <=> Enqueues(c))
  BY <1>1, DueKept
<1>5. TasksOnce'
  BY <1>1, <1>2 DEF Inv, TasksOnce, Queued, Begins
<1>6. ChannelsOK(b)'
  <2>1. \A c : ChannelOK(c, b)' <=> ChannelOK(c, b)
    BY <1>1, ChannelKept
  <2> QED
    BY <1>1, <1>2, <2>1 DEF Inv, ChannelsOK, Fresh
<1>7. TasksOK(b)'
  BY <1>1, <1>2, <1>3 DEF Inv, TasksOK, TaskOK, LengthIn
<1>8. BlocksOK(b)'
  BY <1>1, <1>3, <1>4 DEF Inv, BlocksOK
<1>9. Types'
  BY <1>1, <1>2 DEF Inv, Types, PoolTypes, ConvolverTypes, ReaderTypes
<1>10. StreamOK(b)'
  BY <1>1, StreamKept DEF Inv
<1> QED
  BY <1>5, <1>6, <1>7, <1>8, <1>9, <1>10 DEF Inv

\* Each step keeps the invariant, some of them for the next block or for the first one.
LEMMA NextKeeps ==
    ASSUME WholeBlocks, IInv, [Next]_vars
    PROVE  IInv'
<1>1. PICK b \in Nat : Inv(b)
  BY DEF IInv
<1>2. Inv(b)' => IInv'
  BY DEF IInv
<1>3. Inv(b + 1)' /\ b + 1 \in Nat => IInv'
  BY DEF IInv
<1>4. Inv(0)' => IInv'
  BY DEF IInv
<1>5. ASSUME NEW n \in Wanted, Read(n) PROVE IInv'
  BY <1>1, <1>2, <1>5, ReadKeeps
<1>6. ASSUME NEW p \in Places, Seek(p) PROVE IInv'
  BY <1>1, <1>2, <1>6, SeekKeeps
<1>7. CASE Copy
  BY <1>1, <1>2, <1>7, CopyKeeps
<1>8. CASE LoadBuffer
  BY <1>1, <1>3, <1>8, LoadBufferKeeps
<1>9. CASE BlockLoaded
  BY <1>1, <1>2, <1>9, BlockLoadedKeeps
<1>10. CASE Reset
  BY <1>1, <1>2, <1>4, <1>10, ResetKeeps
<1>11. ASSUME NEW t \in Threads, Pool(t) PROVE IInv'
  <2>1. CASE TakeTask(t)
    BY <1>1, <1>2, <2>1, TakeTaskKeeps
  <2>2. CASE SumParts(t)
    BY <1>1, <1>2, <2>2, SumPartsKeeps
  <2>3. CASE GetNext(t)
    BY <1>1, <1>2, <2>3, GetNextKeeps
  <2>4. CASE Enqueue(t)
    BY <1>1, <1>2, <2>4, EnqueueKeeps
  <2>5. CASE EndTask(t)
    BY <1>1, <1>2, <2>5, EndTaskKeeps
  <2> QED
    BY <1>11, <2>1, <2>2, <2>3, <2>4, <2>5 DEF Pool
<1>12. CASE UNCHANGED vars
  BY <1>1, <1>2, <1>12, StutterKeeps
<1> QED
  BY <1>5, <1>6, <1>7, <1>8, <1>9, <1>10, <1>11, <1>12 DEF Next, Reader

LEMMA SpecIInv ==
    ASSUME WholeBlocks
    PROVE  Spec => []IInv
<1>1. Init => IInv
  BY InitKeeps DEF IInv
<1>2. IInv /\ [Next]_vars => IInv'
  BY NextKeeps
<1> QED
  BY <1>1, <1>2, PTL DEF Spec

\* What a read returns is the convolution, in whatever order the tasks have run, and with
\* nothing of what was there before a seek (of a sound that ends with a whole block).
THEOREM ConvolverOutputIsConvolution == WholeBlocks => (Spec => []OutputIsConvolution)
<1> SUFFICES ASSUME WholeBlocks PROVE Spec => []OutputIsConvolution
  OBVIOUS
<1>1. IInv => OutputIsConvolution
  <2> SUFFICES ASSUME IInv, reader.at = "idle", NEW j \in DOMAIN reader.got, NEW c \in Channel
               PROVE  reader.got[j][c] = Convolved(total - Len(reader.got) + j)
    BY DEF OutputIsConvolution
  <2>1. PICK b \in Nat : Inv(b)
    BY DEF IInv
  <2>2. reader \in ReaderState
    BY <2>1 DEF Inv, Types, ReaderTypes
  <2>3. reader.got \in Seq(Frame)
    BY <2>2 DEF ReaderState
  <2>4. j \in 1 .. Len(reader.got)
    BY <2>3
  <2>5. Heard = total
    BY DEF Heard
  <2>6. Right(base, reader.got, total - Len(reader.got))
    BY <2>1, <2>5 DEF Inv, StreamOK
  <2>7. reader.got[j][c] = ConvolvedFrom(base, total - Len(reader.got) + j)
    BY <2>4, <2>6 DEF Right
  <2> QED
    BY <2>7, ConvolvedIs
<1> QED
  BY <1>1, SpecIInv, PTL

\* The output ends exactly when the impulse response has passed the last block (of a sound
\* that ends with a whole block, when the last of the tasks for the channels has a channel).
THEOREM ConvolverTailIsWhole == WholeBlocks /\ LastTaskWorks => (Spec => []TailIsWhole)
<1> SUFFICES ASSUME WholeBlocks, LastTaskWorks PROVE Spec => []TailIsWhole
  OBVIOUS
<1>1. IInv => TailIsWhole
  <2> SUFFICES ASSUME IInv PROVE TailIsWhole
    OBVIOUS
  <2>1. PICK b \in Nat : Inv(b)
    BY DEF IInv
  <2> DEFINE n == Loaded(b)
  <2> DEFINE x == Blocks * L
  <2> DEFINE y == (P - 1) * L
  <2> DEFINE z == (n - 1) * L
  <2>2. /\ reader \in ReaderState /\ total \in Nat /\ base \in Places \cup {0} /\ m_eosTail \in BOOLEAN
        /\ out \in [buf : Seq(Frame), pos : 0 .. L, len : 1 .. L] /\ out.pos <= out.len
    BY <2>1 DEF Inv, Types, ReaderTypes
  <2>3. Blocks \in Nat /\ L \in Nat /\ L >= 1 /\ P \in Nat /\ P >= 1
    BY <2>2, BlocksFacts, ConstantFacts
  <2>4. out.pos \in Nat /\ out.len \in Nat /\ LastLength \in Nat /\ LastLength >= 1
    BY <2>2, <2>3, LastLengthIs
  <2>5. reader.got \in Seq(Frame) /\ Len(reader.got) \in Nat
    BY <2>2 DEF ReaderState
  <2>6. total <= Heard /\ Heard \in Nat /\ (reader.at = "idle" => Heard = total)
    BY <2>2, <2>5 DEF Heard
  <2>7. /\ n = 0 => Heard = 0
        /\ n > 0 => Heard = z + out.pos
        /\ n < Blocks + P => out.len = L
        /\ n = Blocks + P => out.len = LastLength
    BY <2>1 DEF Inv, StreamOK
  <2>8. b <= Blocks + P /\ (reader.at = "wait" => b > 0)
    BY <2>1 DEF Inv, BlocksOK, TasksOK
  <2>9. n \in Nat /\ n <= b
    BY <2>8 DEF Loaded
  <2>10. IRLength = y + LastLength
    BY LastLengthIs
  <2>11. x \in Nat /\ y \in Nat /\ z \in Int
    BY <2>3, <2>9
  <2>12. n = Blocks + P => z = x + y
    BY <2>3, <2>9
  <2>13. n > 0 /\ n < Blocks + P => z + L <= x + y
    <3> SUFFICES ASSUME n > 0, n < Blocks + P PROVE z + L <= x + y
      OBVIOUS
    <3> DEFINE m == n - 1
    <3> DEFINE k == Blocks + P - 1
    <3>1. m \in Nat /\ k \in Nat /\ m < k
      BY <2>3, <2>9
    <3>2. k * L = x + y /\ m * L = z
      BY <2>3, <2>9
    <3> HIDE DEF m, k
    <3>3. m * L + L <= k * L
      BY <2>3, <3>1, ProductGrows
    <3> QED
      BY <3>2, <3>3
  <2> HIDE DEF n, x, y, z
  <2>14. Heard <= x + IRLength
    <3>1. CASE n = 0
      BY <2>4, <2>6, <2>7, <2>10, <2>11, <3>1
    <3>2. CASE n > 0 /\ n < Blocks + P
      BY <2>2, <2>3, <2>4, <2>6, <2>7, <2>10, <2>11, <2>13, <3>2
    <3>3. CASE n > 0 /\ n = Blocks + P
      BY <2>2, <2>3, <2>4, <2>6, <2>7, <2>10, <2>11, <2>12, <3>3
    <3> QED
      BY <2>3, <2>8, <2>9, <3>1, <3>2, <3>3
  <2>15. total <= x + IRLength
    BY <2>2, <2>4, <2>6, <2>10, <2>11, <2>14
  <2>16. ASSUME m_eosTail, reader.at = "idle" PROVE total + Rest = x + IRLength
    <3>1. b = Blocks + P
      BY <2>1, <2>16 DEF Inv, BlocksOK
    <3>2. n = b
      BY <2>16 DEF Loaded, n
    <3>3. total = z + out.pos /\ out.len = LastLength /\ z = x + y
      BY <2>3, <2>6, <2>7, <2>12, <2>16, <3>1, <3>2
    <3> QED
      BY <2>4, <2>10, <2>11, <3>3 DEF Rest
  <2> QED
    BY <2>15, <2>16 DEF TailIsWhole, Blocks, x
<1> QED
  BY <1>1, SpecIInv, PTL
=============================================================================
