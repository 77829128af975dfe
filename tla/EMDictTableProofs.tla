------------------------- MODULE EMDictTableProofs -------------------------
(****************************************************************************)
(* The hash table of EMDict apart from its history: every probe sequence    *)
(* visits every slot, a table that is not full has a free slot on each, and *)
(* em_dict_resize() carries every entry over, once.                         *)
(*                                                                          *)
(* The provers have no induction over data, but for the least element of a  *)
(* set of numbers, which follows from the library's finite sets; powers of  *)
(* two are counted as sets of subsets.                                      *)
(****************************************************************************)
EXTENDS EMDict, ValuesFileProofs, FiniteSetTheorems, FunctionTheorems, SequenceTheorems

-----------------------------------------------------------------------------
(* Numbers.                                                                 *)

LEMMA LeastElement ==
  ASSUME NEW S, S \subseteq Nat, S # {}
  PROVE  \E m \in S : \A n \in S : m <= n
<1> DEFINE T == {0 .. n : n \in S}
<1>1. IsWellFoundedOn(StrictSubsetOrdering(Nat), FiniteSubsetsOf(Nat))
  BY FS_StrictSubsetOrderingWellFounded
<1>2. T \subseteq FiniteSubsetsOf(Nat)
  <2>1. ASSUME NEW n \in S PROVE 0 .. n \in SUBSET Nat /\ IsFiniteSet(0 .. n)
    <3>1. 0 \in Int /\ n \in Int
      OBVIOUS
    <3> QED BY <3>1, FS_Interval
  <2> QED BY <2>1 DEF FiniteSubsetsOf
<1>3. T # {}
  OBVIOUS
<1>4. PICK X \in T : \A Y \in T : ~ (<<Y, X>> \in StrictSubsetOrdering(Nat))
  <2> HIDE DEF T
  <2> QED BY <1>1, <1>2, <1>3, WFMin
<1>5. PICK m \in S : X = 0 .. m
  BY <1>4
<1>6. ASSUME NEW n \in S, n < m PROVE FALSE
  <2>1. 0 .. n \in T /\ 0 .. n \subseteq 0 .. m /\ 0 .. n # 0 .. m
    <3>1. m \in 0 .. m /\ m \notin 0 .. n
      BY <1>6
    <3> QED BY <1>6, <3>1
  <2>2. 0 .. n \in SUBSET Nat /\ 0 .. m \in SUBSET Nat
    OBVIOUS
  <2> QED BY <2>1, <2>2, <1>4, <1>5 DEF StrictSubsetOrdering
<1> QED BY <1>6

LEMMA PowerOfTwo ==
  ASSUME NEW n \in Nat
  PROVE  2 ^ n \in Nat \ {0} /\ 2 ^ (n + 1) = 2 * 2 ^ n
<1> DEFINE A == SUBSET (1 .. n)
           B == {X \cup {n + 1} : X \in A}
           f == [X \in A |-> X \cup {n + 1}]
<1>1. IsFiniteSet(1 .. n) /\ Cardinality(1 .. n) = n /\ IsFiniteSet(1 .. n + 1) /\ Cardinality(1 .. n + 1) = n + 1
  BY FS_Interval
<1>2. IsFiniteSet(A) /\ Cardinality(A) = 2 ^ n /\ Cardinality(A) \in Nat
  BY <1>1, FS_SUBSET, FS_CardinalityType
<1>3. Cardinality(SUBSET (1 .. n + 1)) = 2 ^ (n + 1)
  BY <1>1, FS_SUBSET
<1>4. IsFiniteSet(B) /\ Cardinality(B) = Cardinality(A)
  <2>1. f \in Bijection(A, B)
    <3>1. f \in [A -> B]
      OBVIOUS
    <3>2. ASSUME NEW X \in A, NEW Y \in A, f[X] = f[Y] PROVE X = Y
      <4>1. n + 1 \notin X /\ n + 1 \notin Y
        OBVIOUS
      <4>2. X = (X \cup {n + 1}) \ {n + 1} /\ Y = (Y \cup {n + 1}) \ {n + 1}
        BY <4>1
      <4> QED BY <3>2, <4>2
    <3>3. \A Z \in B : \E X \in A : f[X] = Z
      OBVIOUS
    <3> QED BY <3>1, <3>2, <3>3 DEF Bijection, Injection, Surjection, IsInjective
  <2> QED BY <2>1, <1>2, FS_Bijection DEF ExistsBijection
<1>5. A \cap B = {}
  OBVIOUS
<1>6. A \cup B = SUBSET (1 .. n + 1)
  <2>1. ASSUME NEW X \in SUBSET (1 .. n + 1) PROVE X \in A \cup B
    <3>1. CASE n + 1 \in X
      <4>1. X \ {n + 1} \in A /\ X = (X \ {n + 1}) \cup {n + 1}
        BY <3>1
      <4> QED BY <4>1
    <3>2. CASE n + 1 \notin X
      BY <3>2
    <3> QED BY <3>1, <3>2
  <2>2. ASSUME NEW X \in A PROVE X \subseteq 1 .. n + 1 /\ X \cup {n + 1} \subseteq 1 .. n + 1
    <3>1. 1 .. n \subseteq 1 .. n + 1 /\ n + 1 \in 1 .. n + 1
      OBVIOUS
    <3> QED BY <3>1
  <2>3. A \cup B \subseteq SUBSET (1 .. n + 1)
    BY <2>2
  <2> QED BY <2>1, <2>3
<1>7. 2 ^ (n + 1) = 2 ^ n + 2 ^ n
  <2> HIDE DEF B, f
  <2>1. Cardinality(A \cup B) = Cardinality(A) + Cardinality(B) - Cardinality(A \cap B)
    BY <1>2, <1>4, FS_Union
  <2>2. Cardinality(A \cap B) = 0
    BY <1>5, FS_EmptySet
  <2>3. Cardinality(A \cup B) = 2 ^ (n + 1)
    BY <1>3, <1>6
  <2>4. PICK p, q : p = 2 ^ n /\ q = 2 ^ (n + 1)
    OBVIOUS
  <2>5. q = p + p
    BY <1>2, <1>4, <2>1, <2>2, <2>3, <2>4
  <2> QED BY <2>4, <2>5
<1>8. 2 ^ n # 0
  <2>1. {} \in A
    OBVIOUS
  <2> QED BY <2>1, <1>2, FS_EmptySet
<1> QED BY <1>2, <1>7, <1>8

LEMMA NatSetInduction ==
  ASSUME NEW S, 0 \in S, \A n \in S \cap Nat : n + 1 \in S
  PROVE  Nat \subseteq S
<1> SUFFICES ASSUME Nat \ S # {} PROVE FALSE
  OBVIOUS
<1>1. PICK m \in Nat \ S : \A n \in Nat \ S : m <= n
  BY LeastElement
<1>2. m # 0 /\ m - 1 \in Nat /\ m - 1 < m
  BY <1>1
<1>3. m - 1 \in S
  BY <1>1, <1>2
<1> QED
  BY <1>1, <1>2, <1>3

(* The remainder is determined by the quotient's equation.                  *)
LEMMA ModUnique ==
  ASSUME NEW m \in Nat \ {0}, NEW q \in Nat, NEW r \in 0 .. m - 1
  PROVE  (m * q + r) % m = r
<1>1. PICK a \in Nat : a = m * q + r
  OBVIOUS
<1>2. PICK b \in Nat : b = a \div m /\ a = (m * b) + (a % m) /\ a % m \in 0 .. m - 1
  BY <1>1
<1>3. CASE b < q
  <2>1. PICK d \in Nat : q = b + d + 1
    BY <1>3
  <2>2. m * q = m * b + m * d + m
    BY <2>1
  <2>3. m * d >= 0
    OBVIOUS
  <2> QED
    BY <1>1, <1>2, <2>2, <2>3
<1>4. CASE b > q
  <2>1. PICK d \in Nat : b = q + d + 1
    BY <1>4
  <2>2. m * b = m * q + m * d + m
    BY <2>1
  <2>3. m * d >= 0
    OBVIOUS
  <2> QED
    BY <1>1, <1>2, <2>2, <2>3
<1> QED
  BY <1>1, <1>2, <1>3, <1>4

LEMMA DivMod ==
  ASSUME NEW a \in Nat, NEW m \in Nat \ {0}
  PROVE  \E q \in Nat : a = m * q + (a % m) /\ a % m \in 0 .. m - 1
<1>1. a = (m * (a \div m)) + (a % m) /\ a \div m \in Nat /\ a % m \in 0 .. m - 1
  OBVIOUS
<1> QED
  BY <1>1

(* One step of the recurrence commutes with the remainder.                  *)
LEMMA StepMod ==
  ASSUME NEW a \in Nat, NEW m \in Nat \ {0}
  PROVE  (5 * (a % m) + 1) % m = (5 * a + 1) % m
<1>1. PICK q \in Nat : a = m * q + (a % m) /\ a % m \in 0 .. m - 1
  BY DivMod
<1>2. PICK r \in Nat : r = a % m
  BY <1>1
<1>3. PICK t \in Nat : t = 5 * r + 1
  OBVIOUS
<1>4. PICK p \in Nat : t = m * p + (t % m) /\ t % m \in 0 .. m - 1
  BY DivMod
<1>5. PICK s \in 0 .. m - 1 : s = t % m
  BY <1>4
<1>6. PICK z \in Nat : z = 5 * q + p
  OBVIOUS
<1>7. m * z = 5 * (m * q) + m * p
  BY <1>6
<1>8. 5 * a + 1 = m * z + s
  <2>1. PICK x, y, w \in Int : x = m * q /\ y = m * p /\ w = m * z
    OBVIOUS
  <2>2. a = x + r
    BY <1>1, <1>2, <2>1
  <2>3. t = y + s
    BY <1>4, <1>5, <2>1
  <2>4. w = 5 * x + y
    BY <1>7, <2>1
  <2>5. 5 * a + 1 = w + s
    BY <1>3, <2>2, <2>3, <2>4
  <2> QED
    BY <2>1, <2>5
<1>9. (m * z + s) % m = s
  BY ModUnique
<1> QED
  BY <1>2, <1>3, <1>5, <1>8, <1>9

(* A function defined by recursion over an interval exists.                 *)
IsRecursive(g, N, S, s0, F) ==
  /\ g \in [0 .. N -> S]
  /\ g[0] = s0
  /\ \A i \in 1 .. N : g[i] = F[i][g[i - 1]]

LEMMA Recursion ==
  ASSUME NEW N \in Nat, NEW S, NEW s0 \in S, NEW F \in [1 .. N -> [S -> S]]
  PROVE  \E g : IsRecursive(g, N, S, s0, F)
<1> DEFINE Upto(n) == {g \in [0 .. n -> S] :
                         g[0] = s0 /\ \A i \in 1 .. n : g[i] = F[i][g[i - 1]]}
           I == {n \in Nat : n <= N => Upto(n) # {}}
<1>1. 0 \in I
  <2>1. [i \in 0 .. 0 |-> s0] \in Upto(0)
    OBVIOUS
  <2> QED
    BY <2>1
<1>2. ASSUME NEW n \in I, n + 1 <= N
      PROVE  Upto(n + 1) # {}
  <2>1. PICK g \in [0 .. n -> S] : g[0] = s0 /\ \A i \in 1 .. n : g[i] = F[i][g[i - 1]]
    BY <1>2
  <2>2. F[n + 1][g[n]] \in S
    BY <1>2, <2>1
  <2>3. PICK x \in S : x = F[n + 1][g[n]]
    BY <2>2
  <2> DEFINE h == [i \in 0 .. n + 1 |-> IF i = n + 1 THEN x ELSE g[i]]
  <2>4. h \in [0 .. n + 1 -> S]
    BY <2>1
  <2>5. \A i \in 0 .. n : h[i] = g[i]
    BY <1>2
  <2>6. h[n + 1] = F[n + 1][h[n]]
    BY <1>2, <2>3, <2>5
  <2>7. ASSUME NEW i \in 1 .. n + 1
        PROVE  h[i] = F[i][h[i - 1]]
    <3>1. CASE i = n + 1
      BY <1>2, <2>6, <3>1
    <3>2. CASE i \in 1 .. n
      <4>1. i \in 0 .. n /\ i - 1 \in 0 .. n
        BY <1>2, <3>2
      <4>2. h[i] = g[i] /\ h[i - 1] = g[i - 1] /\ g[i] = F[i][g[i - 1]]
        BY <2>1, <2>5, <3>2, <4>1
      <4> QED
        BY <4>2
    <3> QED
      BY <1>2, <3>1, <3>2
  <2>8. h[0] = s0
    BY <1>2, <2>1, <2>5
  <2>9. h \in Upto(n + 1)
    <3> HIDE DEF h
    <3> QED
      BY <2>4, <2>7, <2>8
  <2> HIDE DEF h
  <2> QED
    BY <2>9
<1>3. \A n \in I \cap Nat : n + 1 \in I
  <2>1. \A n \in I : n + 1 <= N => Upto(n + 1) # {}
    BY <1>2
  <2> HIDE DEF Upto
  <2> QED
    BY <2>1
<1>4. N \in I
  <2> HIDE DEF I
  <2> QED
    BY <1>1, <1>3, NatSetInduction
<1>5. PICK g \in [0 .. N -> S] : g[0] = s0 /\ \A i \in 1 .. N : g[i] = F[i][g[i - 1]]
  BY <1>4
<1> QED
  BY <1>5 DEF IsRecursive

-----------------------------------------------------------------------------
(* Probe sequences.                                                         *)

(* y is an orbit of the recurrence once perturb is 0, without the mask.     *)
IsOrbit(y, N) ==
  /\ y \in [0 .. N -> Nat]
  /\ \A i \in 0 .. N - 1 : y[i + 1] = 5 * y[i] + 1

(* 2^k steps from x lead to x + 2^k * (4 * x + 1) times an odd number.      *)
LEMMA Jump ==
  ASSUME NEW N \in Nat, NEW y, IsOrbit(y, N), NEW k \in Nat
  PROVE  \E v \in Nat : \A n \in Nat :
           n + 2 ^ k <= N => y[n + 2 ^ k] = y[n] + 2 ^ k * ((2 * v + 1) * (4 * y[n] + 1))
<1> DEFINE Jumps(p, v) ==
             \A n \in Nat : n + p <= N => y[n + p] = y[n] + p * ((2 * v + 1) * (4 * y[n] + 1))
           K == {j \in Nat : \E v \in Nat : Jumps(2 ^ j, v)}
<1>1. 0 \in K
  <2>1. Jumps(1, 0)
    <3> SUFFICES ASSUME NEW n \in Nat, n + 1 <= N
                 PROVE  y[n + 1] = y[n] + 1 * ((2 * 0 + 1) * (4 * y[n] + 1))
      OBVIOUS
    <3>1. y[n] \in Nat /\ y[n + 1] = 5 * y[n] + 1
      BY DEF IsOrbit
    <3> QED
      BY <3>1
  <2>2. 2 ^ 0 = 1
    OBVIOUS
  <2> HIDE DEF Jumps
  <2> QED
    BY <2>1, <2>2
<1>2. ASSUME NEW j \in Nat, NEW v \in Nat, NEW p \in Nat \ {0}, Jumps(p, v)
      PROVE  \E w \in Nat : Jumps(2 * p, w)
  <2> DEFINE c == 2 * v + 1
             b == p * c
             w == v + b * c
  <2>1. c \in Nat /\ b \in Nat /\ w \in Nat
    OBVIOUS
  <2>2. ASSUME NEW n \in Nat, n + 2 * p <= N
        PROVE  y[n + 2 * p] = y[n] + 2 * p * ((2 * w + 1) * (4 * y[n] + 1))
    <3>1. PICK x0, x1, x2 \in Nat : x0 = y[n] /\ x1 = y[n + p] /\ x2 = y[(n + p) + p]
      <4>1. n \in 0 .. N /\ n + p \in 0 .. N /\ (n + p) + p \in 0 .. N
        BY <2>2
      <4>2. y[n] \in Nat /\ y[n + p] \in Nat /\ y[(n + p) + p] \in Nat
        BY <4>1 DEF IsOrbit
      <4> QED
        BY <4>2
    <3>2. x1 = x0 + p * (c * (4 * x0 + 1)) /\ x2 = x1 + p * (c * (4 * x1 + 1))
      <4>1. n + p \in Nat /\ n + p <= N /\ (n + p) + p <= N
        BY <2>2
      <4> QED
        BY <1>2, <3>1, <4>1
    <3> HIDE DEF c
    <3>3. PICK z \in Nat : z = 4 * x0 + 1
      OBVIOUS
    <3>4. x1 = x0 + b * z
      BY <2>1, <3>2, <3>3
    <3>5. 4 * x1 + 1 = z + 4 * (b * z)
      BY <2>1, <3>3, <3>4
    <3>6. x2 = x0 + b * z + b * (z + 4 * (b * z))
      BY <2>1, <3>2, <3>4, <3>5
    <3>7. b * (z + 4 * (b * z)) = b * z + 4 * (b * (b * z))
      BY <2>1
    <3>8. x2 = x0 + 2 * (b * z) + 4 * (b * (b * z))
      BY <2>1, <3>6, <3>7
    <3>9. (2 * w + 1) * z = c * z + 2 * ((b * c) * z)
      BY <2>1 DEF c
    <3>10. 2 * p * ((2 * w + 1) * z) = 2 * (b * z) + 4 * (b * (b * z))
      <4>1. p * (c * z) = b * z
        BY <2>1
      <4>2. p * ((b * c) * z) = b * (b * z)
        BY <2>1
      <4>3. 2 * p * (c * z + 2 * ((b * c) * z)) = 2 * (p * (c * z)) + 4 * (p * ((b * c) * z))
        BY <2>1
      <4> QED
        BY <3>9, <4>1, <4>2, <4>3
    <3>11. y[n + 2 * p] = x2
      <4>1. (n + p) + p = n + 2 * p
        OBVIOUS
      <4> QED
        BY <3>1, <4>1
    <3> HIDE DEF b, w
    <3>12. PICK q, r \in Int : q = b * z /\ r = b * (b * z)
      BY <2>1
    <3>13. x2 = x0 + 2 * p * ((2 * w + 1) * z)
      <4>1. x2 = x0 + (2 * q + 4 * r)
        BY <3>8, <3>12
      <4> QED
        BY <3>10, <3>12, <4>1
    <3>14. z = 4 * y[n] + 1 /\ x0 = y[n]
      BY <3>1, <3>3
    <3> QED
      BY <3>11, <3>13, <3>14
  <2> HIDE DEF w
  <2> QED
    BY <2>1, <2>2
<1>3. \A j \in K \cap Nat : j + 1 \in K
  <2> SUFFICES ASSUME NEW j \in Nat, NEW v \in Nat, Jumps(2 ^ j, v)
               PROVE  \E w \in Nat : Jumps(2 ^ (j + 1), w)
    OBVIOUS
  <2> HIDE DEF Jumps
  <2> QED
    BY <1>2, PowerOfTwo
<1>4. k \in K
  <2> HIDE DEF K
  <2> QED
    BY <1>1, <1>3, NatSetInduction
<1> QED
  BY <1>4

PowersOfTwo == {2 ^ k : k \in Nat}

HasRemainders(y, m) ==
  \A r \in 0 .. m - 1 : \E i \in 0 .. m - 1, q \in Nat : y[i] = m * q + r

(* 2^k successive elements of an orbit have all the remainders modulo 2^k.  *)
LEMMA OrbitCovers ==
  ASSUME NEW N \in Nat, NEW y, IsOrbit(y, N), NEW m \in PowersOfTwo, m <= N + 1
  PROVE  HasRemainders(y, m)
<1> DEFINE Covers(p) == \A r \in 0 .. p - 1 : \E i \in 0 .. p - 1, q \in Nat : y[i] = p * q + r
           K == {j \in Nat : 2 ^ j <= N + 1 => Covers(2 ^ j)}
<1>1. 0 \in K
  <2>1. Covers(1)
    <3> SUFFICES ASSUME NEW r \in 0 .. 0
                 PROVE  \E i \in 0 .. 0, q \in Nat : y[i] = 1 * q + r
      OBVIOUS
    <3>1. y[0] \in Nat /\ y[0] = 1 * y[0] + r
      BY DEF IsOrbit
    <3> QED
      BY <3>1
  <2>2. 2 ^ 0 = 1
    OBVIOUS
  <2> HIDE DEF Covers
  <2> QED
    BY <2>1, <2>2
<1>2. ASSUME NEW j \in Nat, NEW p \in Nat \ {0}, p = 2 ^ j, Covers(p), 2 * p <= N + 1
      PROVE  Covers(2 * p)
  <2> SUFFICES ASSUME NEW r \in 0 .. 2 * p - 1
               PROVE  \E i \in 0 .. 2 * p - 1, q \in Nat : y[i] = 2 * p * q + r
    OBVIOUS
  <2>1. PICK r0 \in 0 .. p - 1, s \in {0, 1} : r = r0 + p * s
    <3>1. CASE r < p
      <4>1. r \in 0 .. p - 1 /\ r = r + p * 0
        BY <3>1
      <4> QED
        BY <4>1
    <3>2. CASE r >= p
      <4>1. r - p \in 0 .. p - 1 /\ r = (r - p) + p * 1
        BY <3>2
      <4> QED
        BY <4>1
    <3> QED
      BY <3>1, <3>2
  <2>2. PICK i \in 0 .. p - 1, q \in Nat : y[i] = p * q + r0
    BY <1>2
  <2>3. PICK v \in Nat : \A n \in Nat :
          n + p <= N => y[n + p] = y[n] + p * ((2 * v + 1) * (4 * y[n] + 1))
    BY <1>2, Jump
  <2>4. y[i] \in Nat
    <3>1. i \in 0 .. N
      BY <1>2
    <3> QED
      BY <3>1 DEF IsOrbit
  <2>5. PICK w \in Nat : (2 * v + 1) * (4 * y[i] + 1) = 2 * w + 1
    <3>1. (2 * v + 1) * (4 * y[i] + 1) = 2 * (4 * (v * y[i]) + v + 2 * y[i]) + 1
      BY <2>4
    <3>2. 4 * (v * y[i]) + v + 2 * y[i] \in Nat
      BY <2>4
    <3> QED
      BY <3>1, <3>2
  <2>6. y[i + p] = y[i] + p * (2 * w + 1)
    <3>1. i \in Nat /\ i + p <= N
      BY <1>2
    <3> QED
      BY <2>3, <2>5, <3>1
  <2>7. y[i + p] = p * (q + 2 * w + 1) + r0
    <3>1. p * (q + 2 * w + 1) = p * q + p * (2 * w + 1)
      OBVIOUS
    <3>2. PICK a, b, c \in Int : a = p * q /\ b = p * (2 * w + 1) /\ c = p * (q + 2 * w + 1)
      OBVIOUS
    <3> QED
      BY <2>2, <2>4, <2>6, <3>1, <3>2
  <2>8. i \in 0 .. 2 * p - 1 /\ i + p \in 0 .. 2 * p - 1
    OBVIOUS
  <2>9. PICK t \in Nat, e \in {0, 1} : q = 2 * t + e
    <3>1. q = 2 * (q \div 2) + (q % 2) /\ q \div 2 \in Nat /\ q % 2 \in {0, 1}
      OBVIOUS
    <3> QED
      BY <3>1
  <2>10. CASE e = s
    <3>1. p * q + r0 = 2 * p * t + r
      <4>1. p * q = 2 * p * t + p * s
        BY <2>9, <2>10
      <4>2. PICK a, b, c \in Int : a = p * q /\ b = 2 * p * t /\ c = p * s
        OBVIOUS
      <4> QED
        BY <2>1, <4>1, <4>2
    <3> QED
      BY <2>2, <2>8, <3>1
  <2>11. CASE e # s
    <3>1. PICK u \in Nat : q + 2 * w + 1 = 2 * u + s
      <4>1. CASE s = 0
        <5>1. q + 2 * w + 1 = 2 * (t + w + 1) + s
          BY <2>9, <2>11, <4>1
        <5>2. t + w + 1 \in Nat
          OBVIOUS
        <5> QED
          BY <5>1, <5>2
      <4>2. CASE s = 1
        <5>1. q + 2 * w + 1 = 2 * (t + w) + s
          BY <2>9, <2>11, <4>2
        <5>2. t + w \in Nat
          OBVIOUS
        <5> QED
          BY <5>1, <5>2
      <4> QED
        BY <4>1, <4>2
    <3>2. p * (q + 2 * w + 1) + r0 = 2 * p * u + r
      <4>1. p * (q + 2 * w + 1) = 2 * p * u + p * s
        BY <3>1
      <4>2. PICK a, b, c \in Int : a = p * (q + 2 * w + 1) /\ b = 2 * p * u /\ c = p * s
        OBVIOUS
      <4> QED
        BY <2>1, <4>1, <4>2
    <3> QED
      BY <2>7, <2>8, <3>2
  <2> QED
    BY <2>10, <2>11
<1>3. ASSUME NEW j \in Nat, 2 ^ j <= N + 1 => Covers(2 ^ j), 2 ^ (j + 1) <= N + 1
      PROVE  Covers(2 ^ (j + 1))
  <2>1. PICK p \in Nat \ {0} : p = 2 ^ j /\ 2 ^ (j + 1) = 2 * p
    BY PowerOfTwo
  <2>2. p <= N + 1 /\ 2 * p <= N + 1
    BY <1>3, <2>1
  <2>3. Covers(p)
    <3> HIDE DEF Covers
    <3> QED
      BY <1>3, <2>1, <2>2
  <2> HIDE DEF Covers
  <2> QED
    BY <1>2, <2>1, <2>2, <2>3
<1>4. \A j \in K \cap Nat : j + 1 \in K
  <2> HIDE DEF Covers
  <2> QED
    BY <1>3
<1>5. \A k \in Nat : 2 ^ k <= N + 1 => Covers(2 ^ k)
  <2>1. Nat \subseteq K
    <3> HIDE DEF K
    <3> QED
      BY <1>1, <1>4, NatSetInduction
  <2> HIDE DEF Covers
  <2> QED
    BY <2>1
<1>6. Covers(m)
  <2> HIDE DEF Covers
  <2> QED
    BY <1>5 DEF PowersOfTwo
<1> QED
  BY <1>6 DEF HasRemainders

LEMMA MaskFacts ==
  ASSUME NEW mask \in Masks
  PROVE  /\ mask \in Nat /\ mask + 1 <= MaxEnts
         /\ \E k \in 0 .. MaxEnts : mask + 1 = 2 ^ k
<1>1. MaxEnts \in Nat /\ mask \in 0 .. MaxEnts - 1
  BY DictAssumption DEF Masks
<1>2. PICK k \in 0 .. MaxEnts : mask = 2 ^ k - 1
  BY DEF Masks
<1>3. 2 ^ k \in Nat
  BY <1>1, PowerOfTwo
<1>4. mask + 1 = 2 ^ k
  BY <1>1, <1>2, <1>3
<1> QED
  BY <1>1, <1>4

LEMMA HashFacts ==
  ASSUME NEW h \in HashValues
  PROVE  h \in Nat
<1>1. PICK f \in Hashes, k \in Key : h = f[k]
  BY DEF HashValues
<1>2. MaxShifts \in Nat
  BY DictAssumption
<1>3. 2 ^ (PERTURB_SHIFT * MaxShifts) \in Nat
  BY <1>2, PowerOfTwo DEF PERTURB_SHIFT
<1>4. f[k] \in 0 .. 2 ^ (PERTURB_SHIFT * MaxShifts) - 1
  BY DictAssumption
<1> QED
  BY <1>1, <1>3, <1>4

LEMMA PerturbFacts ==
  ASSUME NEW h \in HashValues, NEW n \in Nat
  PROVE  Perturb(h, n) \in Nat /\ (n >= MaxShifts => Perturb(h, n) = 0)
<1>1. h \in Nat /\ MaxShifts \in Nat
  BY HashFacts, DictAssumption
<1>2. PICK p \in Nat \ {0} : p = 2 ^ (PERTURB_SHIFT * n)
  <2>1. PERTURB_SHIFT * n \in Nat
    BY DEF PERTURB_SHIFT
  <2> QED
    BY <2>1, PowerOfTwo
<1>3. h \div p \in Nat
  BY <1>1
<1> QED
  BY <1>1, <1>2, <1>3 DEF Perturb

(* Slot[mask][h] is what the code's loop computes.                          *)
LEMMA ProbeRecurrence ==
  ASSUME NEW mask \in Masks, NEW h \in HashValues
  PROVE  /\ Slot[mask][h] \in [Probes(mask) -> 0 .. mask]
         /\ \A n \in Probes(mask) \ {0} :
              Slot[mask][h][n] = (5 * Slot[mask][h][n - 1] + Perturb(h, n - 1) + 1) % (mask + 1)
<1> DEFINE N == MaxShifts + mask + 1
           Loop(a) == a = [n \in Probes(mask) |->
                             IF n = 0 THEN h % (mask + 1)
                             ELSE (5 * a[n - 1] + Perturb(h, n - 1) + 1) % (mask + 1)]
           F == [n \in 1 .. N |->
                   [x \in 0 .. mask |-> (5 * x + Perturb(h, n - 1) + 1) % (mask + 1)]]
<1>1. mask \in Nat /\ h \in Nat /\ MaxShifts \in Nat /\ N \in Nat /\ Probes(mask) = 0 .. N
  BY MaskFacts, HashFacts, DictAssumption DEF Probes
<1>2. h % (mask + 1) \in 0 .. mask
  BY <1>1
<1>3. ASSUME NEW n \in 1 .. N, NEW x \in 0 .. mask
      PROVE  (5 * x + Perturb(h, n - 1) + 1) % (mask + 1) \in 0 .. mask
  <2>1. PICK p \in Nat : p = Perturb(h, n - 1)
    BY <1>1, PerturbFacts
  <2>2. (5 * x + p + 1) % (mask + 1) \in 0 .. mask
    BY <1>1
  <2> QED
    BY <2>1, <2>2
<1>4. F \in [1 .. N -> [0 .. mask -> 0 .. mask]]
  BY <1>3
<1>5. \E a : Loop(a)
  <2>1. PICK s0 \in 0 .. mask : s0 = h % (mask + 1)
    BY <1>2
  <2>2. PICK g : IsRecursive(g, N, 0 .. mask, s0, F)
    <3> HIDE DEF F, N
    <3> QED
      BY <1>1, <1>4, Recursion
  <2>3. g \in [0 .. N -> 0 .. mask] /\ g[0] = s0
    BY <2>2 DEF IsRecursive
  <2>4. ASSUME NEW n \in 1 .. N
        PROVE  g[n] = (5 * g[n - 1] + Perturb(h, n - 1) + 1) % (mask + 1)
    <3>1. n - 1 \in 0 .. N
      BY <1>1
    <3>2. g[n - 1] \in 0 .. mask
      BY <2>3, <3>1
    <3>3. g[n] = F[n][g[n - 1]]
      <4> HIDE DEF F
      <4> QED
        BY <2>2 DEF IsRecursive
    <3> QED
      BY <3>2, <3>3
  <2>5. Loop(g)
    <3> HIDE DEF F
    <3>1. \A n \in 0 .. N : g[n] = IF n = 0 THEN h % (mask + 1)
                         ELSE (5 * g[n - 1] + Perturb(h, n - 1) + 1) % (mask + 1)
      BY <1>1, <2>1, <2>3, <2>4
    <3> HIDE DEF N
    <3> QED
      BY <1>1, <2>3, <3>1
  <2> QED
    BY <2>5
<1>6. PICK a : a = CHOOSE b : Loop(b)
  OBVIOUS
<1>7. Loop(a)
  <2> HIDE DEF Loop
  <2> QED
    BY <1>5, <1>6
<1>8. Slot[mask][h] = [n \in Probes(mask) |-> a[n]]
  BY <1>6 DEF Slot, ProbeSequence
<1>9. Slot[mask][h] = a
  BY <1>7, <1>8
<1>10. \A n \in 0 .. N : a[n] = IF n = 0 THEN h % (mask + 1)
                                ELSE (5 * a[n - 1] + Perturb(h, n - 1) + 1) % (mask + 1)
  <2> HIDE DEF N
  <2> QED
    BY <1>1, <1>7
<1>11. \A n \in 0 .. N : a[n] \in 0 .. mask
  <2> DEFINE I == {n \in Nat : n <= N => a[n] \in 0 .. mask}
  <2>1. 0 \in I
    BY <1>1, <1>2, <1>10
  <2>2. ASSUME NEW n \in I \cap Nat, n + 1 <= N
        PROVE  a[n + 1] \in 0 .. mask
    <3>1. n + 1 \in 1 .. N /\ n \in 0 .. N /\ a[n] \in 0 .. mask /\ (n + 1) - 1 = n
      BY <1>1, <2>2
    <3>2. a[n + 1] = (5 * a[n] + Perturb(h, n) + 1) % (mask + 1)
      BY <1>10, <3>1
    <3> QED
      BY <1>3, <3>1, <3>2
  <2>3. \A n \in I \cap Nat : n + 1 \in I
    BY <2>2
  <2>4. Nat \subseteq I
    <3> HIDE DEF I
    <3> QED
      BY <2>1, <2>3, NatSetInduction
  <2> QED
    BY <1>1, <2>4
<1> HIDE DEF N
<1> QED
  BY <1>1, <1>7, <1>9, <1>10, <1>11

(* Every probe sequence visits every slot: past the perturbed part it goes  *)
(* through one whole period (em_dict.c:230, `guaranteeing that the resize   *)
(* invariant is always obeyed, also guarantees termination').               *)
THEOREM ProbesCover ==
  ASSUME NEW mask \in Masks, NEW h \in HashValues, NEW i \in 0 .. mask
  PROVE  \E n \in Probes(mask) : Slot[mask][h][n] = i
<1> DEFINE at == Slot[mask][h]
           M == mask + 1
<1>1. mask \in Nat /\ MaxShifts \in Nat
  BY MaskFacts, DictAssumption
<1>2. M \in PowersOfTwo
  BY <1>1, MaskFacts DEF PowersOfTwo
<1>3. /\ \A n \in 0 .. MaxShifts + M : at[n] \in 0 .. mask
      /\ \A n \in 1 .. MaxShifts + M : at[n] = (5 * at[n - 1] + Perturb(h, n - 1) + 1) % M
  <2>1. Probes(mask) = 0 .. MaxShifts + M
    BY <1>1 DEF Probes
  <2> QED
    BY <1>1, <2>1, ProbeRecurrence
<1> HIDE DEF at
<1>4. PICK y : IsOrbit(y, mask) /\ y[0] = at[MaxShifts]
  <2>1. PICK s0 \in Nat : s0 = at[MaxShifts]
    BY <1>1, <1>3
  <2> DEFINE F == [n \in 1 .. mask |-> [x \in Nat |-> 5 * x + 1]]
  <2>2. F \in [1 .. mask -> [Nat -> Nat]]
    OBVIOUS
  <2>3. PICK g : IsRecursive(g, mask, Nat, s0, F)
    <3> HIDE DEF F
    <3> QED
      BY <1>1, <2>2, Recursion
  <2>4. g \in [0 .. mask -> Nat] /\ g[0] = s0
    BY <2>3 DEF IsRecursive
  <2>5. ASSUME NEW n \in 0 .. mask - 1
        PROVE  g[n + 1] = 5 * g[n] + 1
    <3>1. n + 1 \in 1 .. mask /\ n \in 0 .. mask /\ (n + 1) - 1 = n /\ n + 1 # 0 /\ n + 1 \in 0 .. mask
      BY <1>1
    <3>2. g[n + 1] = F[n + 1][g[n]]
      <4> HIDE DEF F
      <4> QED
        BY <2>3, <3>1 DEF IsRecursive
    <3>3. g[n] \in Nat
      BY <2>4, <3>1
    <3> QED
      BY <3>1, <3>2, <3>3
  <2> QED
    BY <2>1, <2>4, <2>5 DEF IsOrbit
<1>5. \A n \in 0 .. mask : at[MaxShifts + n] = y[n] % M
  <2> DEFINE I == {n \in Nat : n <= mask => at[MaxShifts + n] = y[n] % M}
  <2>1. 0 \in I
    <3>1. at[MaxShifts] \in 0 .. mask /\ MaxShifts + 0 = MaxShifts
      BY <1>1, <1>3
    <3>2. \A x \in 0 .. mask : x % M = x
      BY <1>1
    <3> QED
      BY <1>1, <1>4, <3>1, <3>2
  <2>2. ASSUME NEW n \in Nat, n \in I, n + 1 <= mask
        PROVE  at[MaxShifts + (n + 1)] = y[n + 1] % M
    <3>1. y[n] \in Nat /\ y[n + 1] = 5 * y[n] + 1
      BY <1>1, <1>4, <2>2 DEF IsOrbit
    <3>2. at[MaxShifts + n] = y[n] % M
      BY <1>1, <2>2
    <3>3. Perturb(h, MaxShifts + n) = 0
      BY <1>1, PerturbFacts
    <3>4. at[MaxShifts + (n + 1)] = (5 * at[MaxShifts + n] + Perturb(h, MaxShifts + n) + 1) % M
      <4>1. MaxShifts + (n + 1) \in 1 .. MaxShifts + M /\ (MaxShifts + (n + 1)) - 1 = MaxShifts + n
        BY <1>1, <2>2
      <4> QED
        BY <1>3, <4>1
    <3>5. at[MaxShifts + n] \in Nat
      <4>1. MaxShifts + n \in 0 .. MaxShifts + M
        BY <1>1, <2>2
      <4> QED
        BY <1>1, <1>3, <4>1
    <3>6. at[MaxShifts + (n + 1)] = (5 * at[MaxShifts + n] + 1) % M
      BY <3>3, <3>4, <3>5
    <3>7. (5 * (y[n] % M) + 1) % M = (5 * y[n] + 1) % M
      <4>1. M \in Nat \ {0}
        BY <1>1
      <4> HIDE DEF M
      <4> QED
        BY <3>1, <4>1, StepMod
    <3> QED
      BY <3>1, <3>2, <3>6, <3>7
  <2>3. \A n \in I \cap Nat : n + 1 \in I
    BY <2>2
  <2>4. Nat \subseteq I
    <3> HIDE DEF I
    <3> QED
      BY <2>1, <2>3, NatSetInduction
  <2> QED
    BY <1>1, <2>4
<1>6. PICK n \in 0 .. mask, q \in Nat : y[n] = M * q + i
  <2>1. M = mask + 1
    OBVIOUS
  <2> HIDE DEF M
  <2>2. M \in Nat /\ M <= mask + 1 /\ M - 1 = mask
    BY <1>1, <2>1
  <2>3. HasRemainders(y, M)
    BY <1>1, <1>2, <1>4, <2>2, OrbitCovers
  <2> QED
    BY <2>2, <2>3 DEF HasRemainders
<1>7. y[n] % M = i
  <2>1. M \in Nat \ {0} /\ i \in 0 .. M - 1
    BY <1>1
  <2> HIDE DEF M
  <2> QED
    BY <1>6, <2>1, ModUnique
<1>8. MaxShifts + n \in Probes(mask) /\ at[MaxShifts + n] = i
  BY <1>1, <1>5, <1>7 DEF Probes
<1> QED
  BY <1>8 DEF at

-----------------------------------------------------------------------------
(* Tables.                                                                  *)

(* The entries a table may hold while "values.bin" has n chunks.            *)
Entries(n) == [hash : HashValues, key : Key, value_pos : 1 .. n]

Tables(mask, n) ==
  [mask : {mask}, used : Nat, ent : [0 .. mask -> Entries(n) \cup {Free}]]

IsTable(t, n) == t.mask \in Masks /\ t \in Tables(t.mask, n)

(* Entry i is where a lookup of its hash comes before any free slot.        *)
Reachable(t, i) ==
  \E n \in Probes(t.mask) :
    /\ Slot[t.mask][t.ent[i].hash][n] = i
    /\ \A m \in 0 .. n - 1 : t.ent[Slot[t.mask][t.ent[i].hash][m]] # Free

AllReachable(t) == \A i \in Occupied(t) : Reachable(t, i)

NoTwins(t) == \A i, j \in Occupied(t) : t.ent[i] = t.ent[j] => i = j

LEMMA FreeIsNoEntry ==
  ASSUME NEW n, NEW e \in Entries(n)
  PROVE  e # Free /\ e.key # Free.key
<1>1. e.key \in Key /\ Free.key = NULL
  BY DEF Entries, Free
<1> QED
  BY <1>1, DictAssumption

LEMMA MinFacts ==
  ASSUME NEW S, S \subseteq Nat, S # {}
  PROVE  Min(S) \in S /\ \A x \in S : Min(S) <= x
<1>1. \E m \in S : \A x \in S : m <= x
  BY LeastElement
<1> QED
  BY <1>1 DEF Min

LEMMA AboveExponent ==
  ASSUME NEW n \in Nat
  PROVE  n < 2 ^ n
<1> DEFINE I == {k \in Nat : k < 2 ^ k}
<1>1. 0 \in I
  <2>1. 2 ^ 0 = 1
    OBVIOUS
  <2> QED
    BY <2>1
<1>2. ASSUME NEW k \in I \cap Nat PROVE k + 1 \in I
  <2>1. PICK p \in Nat : p = 2 ^ k /\ 2 ^ (k + 1) = 2 * p
    BY PowerOfTwo
  <2>2. k < p
    BY <2>1
  <2>3. k + 1 < 2 * p
    BY <2>2
  <2> QED
    BY <2>1, <2>3
<1> HIDE DEF I
<1>3. n \in I
  BY <1>1, <1>2, NatSetInduction
<1> QED
  BY <1>3 DEF I

LEMMA DoubledMask ==
  ASSUME NEW mask \in Masks, 2 * (mask + 1) <= MaxEnts
  PROVE  2 * mask + 1 \in Masks
<1>1. mask \in Nat /\ MaxEnts \in Nat
  BY MaskFacts, DictAssumption
<1>2. PICK k \in 0 .. MaxEnts : mask + 1 = 2 ^ k
  BY MaskFacts
<1>3. PICK p \in Nat : p = 2 ^ (k + 1) /\ p = 2 * (mask + 1)
  BY <1>1, <1>2, PowerOfTwo
<1>4. k + 1 < p
  BY <1>1, <1>3, AboveExponent
<1>5. k + 1 \in 0 .. MaxEnts /\ 2 * mask + 1 = 2 ^ (k + 1) - 1
  BY <1>1, <1>3, <1>4
<1>6. 2 * mask + 1 \in 0 .. MaxEnts - 1
  BY <1>1
<1> QED
  BY <1>5, <1>6 DEF Masks

LEMMA InitMask ==
  InitEnts - 1 \in Masks /\ InitEnts \in Nat \ {0}
<1>1. PICK k \in 0 .. MaxEnts : InitEnts = 2 ^ k
  BY DictAssumption
<1>2. MaxEnts \in Nat /\ InitEnts <= MaxEnts /\ InitEnts \in Nat \ {0}
  BY <1>1, DictAssumption, PowerOfTwo
<1>3. InitEnts - 1 \in 0 .. MaxEnts - 1 /\ InitEnts - 1 = 2 ^ k - 1
  BY <1>1, <1>2
<1> QED
  BY <1>2, <1>3 DEF Masks

LEMMA TableFacts ==
  ASSUME NEW t, NEW n, IsTable(t, n)
  PROVE  /\ t.mask \in Masks /\ t.mask \in Nat /\ t.used \in Nat
         /\ t.ent \in [0 .. t.mask -> Entries(n) \cup {Free}]
         /\ t = [mask |-> t.mask, used |-> t.used, ent |-> t.ent]
         /\ Occupied(t) \subseteq 0 .. t.mask
         /\ \A i \in Occupied(t) : t.ent[i] \in Entries(n) /\ t.ent[i].hash \in HashValues
<1>1. t.mask \in Masks /\ t \in Tables(t.mask, n)
  BY DEF IsTable
<1>2. t.mask \in Nat
  BY <1>1, MaskFacts
<1>3. t.ent \in [0 .. t.mask -> Entries(n) \cup {Free}] /\ t.used \in Nat
  BY <1>1 DEF Tables
<1> QED
  BY <1>1, <1>2, <1>3 DEF Tables, Occupied, Entries

LEMMA OccupiedIsFinite ==
  ASSUME NEW t, NEW n, IsTable(t, n)
  PROVE  IsFiniteSet(Occupied(t)) /\ Cardinality(Occupied(t)) \in 0 .. t.mask + 1
<1>1. t.mask \in Nat /\ Occupied(t) \in SUBSET (0 .. t.mask)
  BY TableFacts
<1>2. IsFiniteSet(0 .. t.mask) /\ Cardinality(0 .. t.mask) = t.mask + 1
  BY <1>1, FS_Interval
<1>3. IsFiniteSet(Occupied(t)) /\ Cardinality(Occupied(t)) <= t.mask + 1
  BY <1>1, <1>2, FS_Subset
<1> QED
  BY <1>1, <1>3, FS_CardinalityType

(* In a table that is not full every probe sequence meets a free slot.      *)
LEMMA FreeSlotMet ==
  ASSUME NEW t, NEW n, IsTable(t, n), Cardinality(Occupied(t)) < t.mask + 1,
         NEW h \in HashValues
  PROVE  \E p \in Probes(t.mask) : t.ent[Slot[t.mask][h][p]] = Free
<1>1. t.mask \in Nat /\ t.mask \in Masks /\ Occupied(t) \subseteq 0 .. t.mask
  BY TableFacts
<1>2. PICK i \in 0 .. t.mask : i \notin Occupied(t)
  <2>1. Cardinality(0 .. t.mask) = t.mask + 1
    BY <1>1, FS_Interval
  <2>2. Occupied(t) # 0 .. t.mask
    BY <1>1, <2>1
  <2> QED
    BY <1>1, <2>2
<1>3. t.ent[i] = Free
  BY <1>2 DEF Occupied
<1> QED
  BY <1>1, <1>3, ProbesCover

(* The first free slot on the way, as em_dict_resize() finds it.            *)
FirstFreeProbe(t, h) == Min({q \in Probes(t.mask) : t.ent[Slot[t.mask][h][q]] = Free})

LEMMA FirstFree ==
  ASSUME NEW t, NEW n, IsTable(t, n), Cardinality(Occupied(t)) < t.mask + 1,
         NEW h \in HashValues, NEW p, p = FirstFreeProbe(t, h)
  PROVE  /\ p \in Probes(t.mask) /\ Slot[t.mask][h][p] \in 0 .. t.mask
         /\ t.ent[Slot[t.mask][h][p]] = Free
         /\ \A m \in 0 .. p - 1 : /\ m \in Probes(t.mask) /\ Slot[t.mask][h][m] \in 0 .. t.mask
                                  /\ t.ent[Slot[t.mask][h][m]] # Free
<1> DEFINE P == {q \in Probes(t.mask) : t.ent[Slot[t.mask][h][q]] = Free}
<1>1. t.mask \in Nat /\ t.mask \in Masks /\ MaxShifts \in Nat
  BY TableFacts, DictAssumption
<1>2. Probes(t.mask) = 0 .. MaxShifts + t.mask + 1
  BY DEF Probes
<1>3. P \subseteq Nat /\ P # {}
  <2>1. \E q \in Probes(t.mask) : t.ent[Slot[t.mask][h][q]] = Free
    BY FreeSlotMet
  <2> QED
    BY <1>1, <1>2, <2>1
<1>4. p \in P /\ \A q \in P : p <= q
  <2> HIDE DEF P
  <2>1. Min(P) \in P /\ \A q \in P : Min(P) <= q
    BY <1>3, MinFacts
  <2>2. p = Min(P)
    BY DEF P, FirstFreeProbe
  <2> QED
    BY <2>1, <2>2
<1>5. \A m \in 0 .. p - 1 : m \in Probes(t.mask) /\ m \notin P
  <2>1. p \in 0 .. MaxShifts + t.mask + 1
    BY <1>2, <1>4
  <2> HIDE DEF P
  <2> QED
    BY <1>1, <1>2, <1>4, <2>1
<1>6. Slot[t.mask][h] \in [Probes(t.mask) -> 0 .. t.mask]
  BY <1>1, ProbeRecurrence
<1> QED
  BY <1>4, <1>5, <1>6

(* An entry put into the first free slot on its way, or over one of the     *)
(* same hash, leaves every entry where it can be reached.                   *)
LEMMA PutKeepsReachable ==
  ASSUME NEW t, NEW n, IsTable(t, n), AllReachable(t),
         NEW i \in 0 .. t.mask, NEW e \in Entries(n),
         i \in Occupied(t) => e.hash = t.ent[i].hash,
         NEW p \in Probes(t.mask), Slot[t.mask][e.hash][p] = i,
         \A m \in 0 .. p - 1 : t.ent[Slot[t.mask][e.hash][m]] # Free,
         NEW s, IsTable(s, n), s.mask = t.mask, s.ent = [t.ent EXCEPT ![i] = e]
  PROVE  AllReachable(s) /\ Occupied(s) = Occupied(t) \cup {i}
<1>1. t.mask \in Nat /\ t.mask \in Masks /\ t.ent \in [0 .. t.mask -> Entries(n) \cup {Free}]
      /\ MaxShifts \in Nat
  BY TableFacts, DictAssumption
<1>2. e # Free /\ s.ent[i] = e /\ \A j \in 0 .. t.mask : j # i => s.ent[j] = t.ent[j]
  BY <1>1, FreeIsNoEntry
<1>3. Occupied(s) = Occupied(t) \cup {i}
  BY <1>2 DEF Occupied
<1>4. ASSUME NEW h \in HashValues, NEW m \in Probes(t.mask), t.ent[Slot[t.mask][h][m]] # Free
      PROVE  s.ent[Slot[t.mask][h][m]] # Free
  <2>1. Slot[t.mask][h][m] \in 0 .. t.mask
    BY <1>1, ProbeRecurrence
  <2> QED
    BY <1>2, <1>4, <2>1
<1>5. \A q \in Probes(t.mask) : \A m \in 0 .. q - 1 : m \in Probes(t.mask)
  BY <1>1 DEF Probes
<1>6. ASSUME NEW j \in Occupied(s)
      PROVE  Reachable(s, j)
  <2>1. CASE j = i
    <3>1. e.hash \in HashValues
      BY DEF Entries
    <3>2. \A m \in 0 .. p - 1 : s.ent[Slot[t.mask][e.hash][m]] # Free
      BY <1>4, <1>5, <3>1
    <3> QED
      BY <1>2, <2>1, <3>2 DEF Reachable
  <2>2. CASE j # i
    <3>1. j \in Occupied(t) /\ s.ent[j] = t.ent[j] /\ t.ent[j].hash \in HashValues
      BY <1>2, <1>3, <2>2, TableFacts
    <3>2. PICK q \in Probes(t.mask) :
            /\ Slot[t.mask][t.ent[j].hash][q] = j
            /\ \A m \in 0 .. q - 1 : t.ent[Slot[t.mask][t.ent[j].hash][m]] # Free
      BY <3>1 DEF AllReachable, Reachable
    <3>3. \A m \in 0 .. q - 1 : s.ent[Slot[t.mask][t.ent[j].hash][m]] # Free
      BY <1>4, <1>5, <3>1, <3>2
    <3> QED
      BY <3>1, <3>2, <3>3 DEF Reachable
  <2> QED
    BY <2>1, <2>2
<1> QED
  BY <1>3, <1>6 DEF AllReachable

(* One step of the rehash: an entry moves into the first free slot.         *)
LEMMA PlacedFacts ==
  ASSUME NEW t, NEW n, IsTable(t, n), Cardinality(Occupied(t)) < t.mask + 1,
         NEW e \in Entries(n)
  PROVE  LET s == Placed(t, e)
         IN  /\ IsTable(s, n) /\ s.mask = t.mask /\ s.used = t.used + 1
             /\ \E i \in 0 .. t.mask : /\ i \notin Occupied(t)
                                       /\ s.ent = [t.ent EXCEPT ![i] = e]
                                       /\ Occupied(s) = Occupied(t) \cup {i}
             /\ Cardinality(Occupied(s)) = Cardinality(Occupied(t)) + 1
             /\ AllReachable(t) => AllReachable(s)
<1> DEFINE s == Placed(t, e)
<1>1. e.hash \in HashValues
  BY DEF Entries
<1>2. PICK p : p = FirstFreeProbe(t, e.hash)
  OBVIOUS
<1>3. PICK i : i = Slot[t.mask][e.hash][p]
  OBVIOUS
<1>4. /\ p \in Probes(t.mask) /\ i \in 0 .. t.mask /\ t.ent[i] = Free
      /\ \A m \in 0 .. p - 1 : t.ent[Slot[t.mask][e.hash][m]] # Free
  BY <1>1, <1>2, <1>3, FirstFree
<1>5. i \notin Occupied(t)
  BY <1>4 DEF Occupied
<1>6. t = [mask |-> t.mask, used |-> t.used, ent |-> t.ent] /\ t.used \in Nat /\ t.mask \in Masks
      /\ t.ent \in [0 .. t.mask -> Entries(n) \cup {Free}]
  BY TableFacts
<1>7. s = [t EXCEPT !.ent[i] = e, !.used = @ + 1]
  BY <1>2, <1>3 DEF Placed, FirstFreeProbe
<1>8. s = [mask |-> t.mask, used |-> t.used + 1, ent |-> [t.ent EXCEPT ![i] = e]]
  BY <1>6, <1>7
<1>9. s.mask = t.mask /\ s.used = t.used + 1 /\ s.ent = [t.ent EXCEPT ![i] = e]
  BY <1>8
<1>10. IsTable(s, n)
  <2>1. [t.ent EXCEPT ![i] = e] \in [0 .. t.mask -> Entries(n) \cup {Free}]
    BY <1>4, <1>6
  <2> QED
    BY <1>6, <1>8, <1>9, <2>1 DEF IsTable, Tables
<1> HIDE DEF s
<1>11. Occupied(s) = Occupied(t) \cup {i}
  <2>1. s.ent[i] # Free /\ \A j \in 0 .. t.mask : j # i => s.ent[j] = t.ent[j]
    BY <1>4, <1>6, <1>9, FreeIsNoEntry
  <2> QED
    BY <1>9, <1>4, <2>1 DEF Occupied
<1>12. Cardinality(Occupied(s)) = Cardinality(Occupied(t)) + 1
  BY <1>5, <1>11, OccupiedIsFinite, FS_AddElement
<1>13. AllReachable(t) => AllReachable(s)
  BY <1>3, <1>4, <1>5, <1>9, <1>10, PutKeepsReachable
<1> QED
  BY <1>4, <1>5, <1>9, <1>10, <1>11, <1>12, <1>13 DEF s

-----------------------------------------------------------------------------
(* The rehash.                                                              *)

(* What em_dict_resize() does with entry i - 1 of the old index.            *)
RehashStep(i, s) ==
  IF index.ent[i - 1] = Free THEN s ELSE Placed(s, index.ent[i - 1])

(* The new index s once the first i slots of the old one are dealt with.    *)
Carried(i, s) ==
  /\ \A j \in Occupied(s) : \E l \in Occupied(index) : l < i /\ s.ent[j] = index.ent[l]
  /\ \A l \in Occupied(index) : l < i => \E j \in Occupied(s) : s.ent[j] = index.ent[l]

HalfRehashed(i, s, n) ==
  /\ IsTable(s, n) /\ s.mask = 2 * index.mask + 1
  /\ s.used = Cardinality(Occupied(s)) /\ s.used <= i
  /\ AllReachable(s)
  /\ Carried(i, s)
  /\ NoTwins(index) => NoTwins(s)

LEMMA RehashStart ==
  ASSUME NEW n, IsTable(index, n), 2 * (index.mask + 1) <= MaxEnts
  PROVE  HalfRehashed(0, EmptyIndex(2 * (index.mask + 1)), n)
<1>1. index.mask \in Nat /\ index.mask \in Masks /\ Occupied(index) \subseteq 0 .. index.mask
  BY TableFacts
<1>2. 2 * index.mask + 1 \in Masks /\ 2 * (index.mask + 1) - 1 = 2 * index.mask + 1
  BY <1>1, DoubledMask
<1>3. PICK s : s = EmptyIndex(2 * (index.mask + 1))
  OBVIOUS
<1>4. s = [mask |-> 2 * index.mask + 1, used |-> 0, ent |-> [i \in 0 .. 2 * index.mask + 1 |-> Free]]
  BY <1>2, <1>3 DEF EmptyIndex
<1>5. IsTable(s, n) /\ s.mask = 2 * index.mask + 1 /\ s.used = 0
  BY <1>2, <1>4 DEF IsTable, Tables
<1>6. Occupied(s) = {}
  BY <1>4 DEF Occupied
<1>7. Cardinality(Occupied(s)) = 0
  BY <1>6, FS_EmptySet
<1>8. AllReachable(s) /\ Carried(0, s) /\ NoTwins(s)
  BY <1>1, <1>6 DEF AllReachable, Carried, NoTwins
<1> QED
  BY <1>3, <1>5, <1>7, <1>8 DEF HalfRehashed

LEMMA RehashGoesOn ==
  ASSUME NEW n, IsTable(index, n), NEW i \in 1 .. index.mask + 1, NEW s,
         HalfRehashed(i - 1, s, n)
  PROVE  HalfRehashed(i, RehashStep(i, s), n)
<1>1. index.mask \in Nat /\ Occupied(index) \subseteq 0 .. index.mask
      /\ index.ent \in [0 .. index.mask -> Entries(n) \cup {Free}]
  BY TableFacts
<1>2. i - 1 \in 0 .. index.mask
  BY <1>1
<1>3. \A l \in Occupied(index) : l < i <=> (l < i - 1 \/ l = i - 1)
  BY <1>1
<1>4. s.used \in Nat /\ s.used <= i - 1
  BY TableFacts DEF HalfRehashed
<1>5. CASE index.ent[i - 1] = Free
  <2>1. i - 1 \notin Occupied(index)
    BY <1>5 DEF Occupied
  <2>2. Carried(i, s)
    BY <1>3, <2>1 DEF HalfRehashed, Carried
  <2>3. RehashStep(i, s) = s
    BY <1>5 DEF RehashStep
  <2> QED
    BY <1>1, <1>4, <2>2, <2>3 DEF HalfRehashed
<1>6. CASE index.ent[i - 1] # Free
  <2>1. i - 1 \in Occupied(index)
    BY <1>2, <1>6 DEF Occupied
  <2>2. PICK e \in Entries(n) : e = index.ent[i - 1]
    BY <1>1, <1>2, <1>6
  <2>3. PICK u : u = Placed(s, e)
    OBVIOUS
  <2>4. Cardinality(Occupied(s)) < s.mask + 1
    BY <1>1, <1>4 DEF HalfRehashed
  <2>5. /\ IsTable(u, n) /\ u.mask = s.mask /\ u.used = s.used + 1
        /\ \E j \in 0 .. s.mask : /\ j \notin Occupied(s)
                                  /\ u.ent = [s.ent EXCEPT ![j] = e]
                                  /\ Occupied(u) = Occupied(s) \cup {j}
        /\ Cardinality(Occupied(u)) = Cardinality(Occupied(s)) + 1
        /\ AllReachable(u)
    BY <2>3, <2>4, PlacedFacts DEF HalfRehashed
  <2>6. PICK j \in 0 .. s.mask : /\ j \notin Occupied(s)
                                 /\ u.ent = [s.ent EXCEPT ![j] = e]
                                 /\ Occupied(u) = Occupied(s) \cup {j}
    BY <2>5
  <2>7. u.ent[j] = e /\ \A k \in Occupied(s) : u.ent[k] = s.ent[k]
    BY <2>6, TableFacts DEF HalfRehashed
  <2>8. Carried(i, u)
    BY <1>3, <2>1, <2>2, <2>6, <2>7 DEF HalfRehashed, Carried
  <2>9. ASSUME NoTwins(index)
        PROVE  NoTwins(u)
    <3>1. ASSUME NEW k \in Occupied(s) PROVE s.ent[k] # e
      <4>1. PICK l \in Occupied(index) : l < i - 1 /\ s.ent[k] = index.ent[l]
        BY DEF HalfRehashed, Carried
      <4>2. l # i - 1
        BY <1>1, <4>1
      <4> QED
        BY <2>1, <2>2, <2>9, <4>1, <4>2 DEF NoTwins
    <3>2. NoTwins(s)
      BY <2>9 DEF HalfRehashed
    <3> QED
      BY <2>6, <2>7, <3>1, <3>2 DEF NoTwins
  <2>10. RehashStep(i, s) = u
    BY <1>6, <2>2, <2>3 DEF RehashStep
  <2>11. u.used <= i /\ u.used = Cardinality(Occupied(u)) /\ u.mask = 2 * index.mask + 1
    BY <1>1, <1>4, <2>5 DEF HalfRehashed
  <2> QED
    BY <2>5, <2>8, <2>9, <2>10, <2>11 DEF HalfRehashed
<1> QED
  BY <1>5, <1>6

(* em_dict_resize() carries every entry over, once, to where a lookup       *)
(* finds it, and counts them.                                               *)
THEOREM RehashCarriesAll ==
  ASSUME NEW n, IsTable(index, n), 2 * (index.mask + 1) <= MaxEnts
  PROVE  HalfRehashed(index.mask + 1, Rehashed, n)
<1> DEFINE N == index.mask + 1
           E == EmptyIndex(2 * (index.mask + 1))
           S == Tables(2 * index.mask + 1, n)
           F == [i \in 1 .. N |->
                   [s \in S |-> IF RehashStep(i, s) \in S THEN RehashStep(i, s) ELSE s]]
           Loop(u) == u = [i \in 0 .. index.mask + 1 |->
                             IF i = 0 THEN EmptyIndex(2 * (index.mask + 1))
                             ELSE IF index.ent[i - 1] = Free THEN u[i - 1]
                             ELSE Placed(u[i - 1], index.ent[i - 1])]
           Good(u) == \A i \in 0 .. N : HalfRehashed(i, u[i], n)
<1>1. N \in Nat /\ index.mask \in Nat
  BY TableFacts
<1>2. HalfRehashed(0, E, n)
  BY RehashStart
<1>3. \A i, s : HalfRehashed(i, s, n) => s \in S
  BY DEF HalfRehashed, IsTable
<1>4. ASSUME NEW u, u[0] = E,
             \A i \in 1 .. N : HalfRehashed(i - 1, u[i - 1], n) => u[i] = RehashStep(i, u[i - 1])
      PROVE  Good(u)
  <2> DEFINE I == {i \in Nat : i <= N => HalfRehashed(i, u[i], n)}
  <2>1. 0 \in I
    BY <1>2, <1>4
  <2>2. ASSUME NEW i \in Nat, HalfRehashed(i, u[i], n), i + 1 <= N
        PROVE  HalfRehashed(i + 1, u[i + 1], n)
    <3>1. PICK j \in 1 .. N : j = i + 1 /\ j - 1 = i
      BY <1>1, <2>2
    <3>2. HalfRehashed(j - 1, u[j - 1], n)
      BY <2>2, <3>1
    <3>3. u[j] = RehashStep(j, u[j - 1])
      BY <1>4, <3>2
    <3>4. HalfRehashed(j, RehashStep(j, u[j - 1]), n)
      BY <3>2, RehashGoesOn
    <3> QED
      BY <3>1, <3>3, <3>4
  <2>3. \A i \in I \cap Nat : i + 1 \in I
    <3> HIDE DEF N
    <3> QED
      BY <1>1, <2>2
  <2>4. Nat \subseteq I
    <3> HIDE DEF I
    <3> QED
      BY <2>1, <2>3, NatSetInduction
  <2> QED
    BY <1>1, <2>4
<1>5. \E u : Loop(u)
  <2>1. E \in S
    BY <1>2, <1>3
  <2>2. F \in [1 .. N -> [S -> S]]
    OBVIOUS
  <2>3. PICK g : IsRecursive(g, N, S, E, F)
    <3> HIDE DEF F, N, S, E
    <3> QED
      BY <1>1, <2>1, <2>2, Recursion
  <2>4. /\ g \in [0 .. N -> S] /\ g[0] = E
        /\ \A i \in 1 .. N : g[i] = F[i][g[i - 1]]
    BY <2>3 DEF IsRecursive
  <2>5. ASSUME NEW i \in 1 .. N, HalfRehashed(i - 1, g[i - 1], n)
        PROVE  g[i] = RehashStep(i, g[i - 1])
    <3>1. g[i - 1] \in S
      BY <1>3, <2>5
    <3>2. RehashStep(i, g[i - 1]) \in S
      BY <1>3, <2>5, RehashGoesOn
    <3>3. F[i][g[i - 1]] = IF RehashStep(i, g[i - 1]) \in S THEN RehashStep(i, g[i - 1]) ELSE g[i - 1]
      <4> HIDE DEF S
      <4> QED
        BY <3>1
    <3> QED
      BY <2>4, <3>2, <3>3
  <2>6. Good(g)
    BY <1>4, <2>4, <2>5
  <2>7. \A i \in 0 .. N : g[i] = IF i = 0 THEN E ELSE RehashStep(i, g[i - 1])
    <3>1. \A i \in 1 .. N : i - 1 \in 0 .. N
      BY <1>1
    <3> QED
      BY <1>1, <2>4, <2>5, <2>6, <3>1
  <2>8. Loop(g)
    <3>1. g = [i \in 0 .. N |-> IF i = 0 THEN E ELSE RehashStep(i, g[i - 1])]
      <4> HIDE DEF N, E, S
      <4> QED
        BY <2>4, <2>7
    <3> QED
      BY <3>1 DEF RehashStep
  <2> QED
    BY <2>8
<1>6. PICK u : u = CHOOSE w : Loop(w)
  OBVIOUS
<1>7. Loop(u)
  <2> HIDE DEF Loop
  <2> QED
    BY <1>5, <1>6
<1>8. Rehashed = u[N]
  BY <1>6 DEF Rehashed
<1>9. u[0] = E /\ \A i \in 1 .. N : u[i] = RehashStep(i, u[i - 1])
  BY <1>1, <1>7 DEF RehashStep
<1>10. Good(u)
  BY <1>4, <1>9
<1> QED
  BY <1>1, <1>8, <1>10
=============================================================================
