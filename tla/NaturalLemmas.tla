--------------------------- MODULE NaturalLemmas ---------------------------
(***************************************************************************)
(* Facts about natural numbers that the proofs of several components use:  *)
(* induction in a form the provers can apply (over a set, not over an      *)
(* operator), powers of two, and a step round a ring.                      *)
(***************************************************************************)
EXTENDS Integers, FiniteSetTheorems, TLAPS

(* A set of natural numbers that is not empty has a least element. *)
LEMMA LeastElement ==
    ASSUME NEW S \in SUBSET Nat, S # {}
    PROVE  \E m \in S : \A k \in S : m <= k
<1>1. IsWellFoundedOn({ss \in Nat \X Nat : ss[1] < ss[2]}, Nat)
  BY NatLessThanWellFounded, Zenon DEF OpToRel
<1>2. PICK m \in S : \A y \in S : ~(<<y, m>> \in {ss \in Nat \X Nat : ss[1] < ss[2]})
  BY <1>1, WFMin, Zenon
<1>3. \A k \in S : ~(k < m)
  BY <1>2
<1>4. QED
  BY <1>3

(* Induction: a set that holds 0 and, with a number, the next, holds all. *)
LEMMA InductionOverSet ==
    ASSUME NEW S, 0 \in S, \A n \in Nat : n \in S => n + 1 \in S
    PROVE  Nat \subseteq S
<1>1. SUFFICES ASSUME Nat \ S # {}
               PROVE  FALSE
  OBVIOUS
<1>2. PICK m \in Nat \ S : \A k \in Nat \ S : m <= k
  BY <1>1, LeastElement
<1>3. m - 1 \in Nat /\ m - 1 \in S
  BY <1>2
<1>4. QED
  BY <1>2, <1>3

(* Course-of-values induction: a number is in the set when all the smaller *)
(* ones are.                                                               *)
LEMMA CourseOfValues ==
    ASSUME NEW S, \A n \in Nat : (\A m \in 0 .. n - 1 : m \in S) => n \in S
    PROVE  Nat \subseteq S
<1>1. SUFFICES ASSUME Nat \ S # {}
               PROVE  FALSE
  OBVIOUS
<1>2. PICK m \in Nat \ S : \A k \in Nat \ S : m <= k
  BY <1>1, LeastElement
<1>3. \A k \in 0 .. m - 1 : k \in S
  BY <1>2
<1>4. QED
  BY <1>2, <1>3

(* 2^n counts the subsets of a set of n elements.  The provers know no     *)
(* arithmetic of powers, and learn it from this.                           *)
LEMMA SubsetsOfInterval ==
    ASSUME NEW n \in Nat
    PROVE  IsFiniteSet(SUBSET (1 .. n)) /\ Cardinality(SUBSET (1 .. n)) = 2 ^ n
<1>1. IsFiniteSet(1 .. n) /\ Cardinality(1 .. n) = n
  BY FS_Interval
<1>2. QED
  BY <1>1, FS_SUBSET

(* The powers of two are positive.                                         *)
LEMMA PowerPositive ==
    \A n \in Nat : 2 ^ n \in Nat \ {0}
<1>1. SUFFICES ASSUME NEW n \in Nat
               PROVE  2 ^ n \in Nat \ {0}
  OBVIOUS
<1>2. IsFiniteSet(SUBSET (1 .. n)) /\ Cardinality(SUBSET (1 .. n)) = 2 ^ n
  BY SubsetsOfInterval
<1>3. {} \in SUBSET (1 .. n)
  OBVIOUS
<1>4. QED
  BY <1>2, <1>3, FS_CardinalityType, FS_EmptySet

(* The first of them.                                                      *)
LEMMA PowerZero == 2 ^ 0 = 1
  OBVIOUS

(* The subsets of 1 .. n + 1 without n + 1 are as many as those with it.   *)
LEMMA PowerNext ==
    \A n \in Nat : 2 ^ (n + 1) = 2 * 2 ^ n
<1> SUFFICES ASSUME NEW n \in Nat
             PROVE  2 ^ (n + 1) = 2 * 2 ^ n
  OBVIOUS
<1> DEFINE Without == SUBSET (1 .. n)
           With    == {A \union {n + 1} : A \in Without}
           add     == [A \in Without |-> A \union {n + 1}]
<1>1. IsFiniteSet(Without) /\ Cardinality(Without) = 2 ^ n
  BY SubsetsOfInterval
<1>2. IsFiniteSet(With) /\ Cardinality(With) = Cardinality(Without)
  <2>1. add \in Bijection(Without, With)
    <3>1. add \in [Without -> With]
      OBVIOUS
    <3>2. ASSUME NEW A \in Without, NEW B \in Without, add[A] = add[B]
          PROVE  A = B
      BY <3>2, n + 1 \notin 1 .. n
    <3>3. \A C \in With : \E A \in Without : add[A] = C
      OBVIOUS
    <3> HIDE DEF Without, With, add
    <3>4. QED
      BY <3>1, <3>2, <3>3 DEF Bijection, Injection, Surjection, IsInjective
  <2> HIDE DEF Without, With, add
  <2>2. ExistsBijection(Without, With)
    BY <2>1 DEF ExistsBijection
  <2>3. QED
    BY <1>1, <2>2, FS_Bijection
<1>3. SUBSET (1 .. n + 1) = Without \union With
  <2>1. 1 .. n + 1 = (1 .. n) \union {n + 1}
    OBVIOUS
  <2>2. ASSUME NEW A \in SUBSET (1 .. n + 1), n + 1 \in A
        PROVE  A \in With
    <3>1. A \ {n + 1} \in Without /\ (A \ {n + 1}) \union {n + 1} = A
      BY <2>1, <2>2
    <3>2. QED
      BY <3>1
  <2>3. \A A \in SUBSET (1 .. n + 1) : n + 1 \notin A => A \in Without
    BY <2>1
  <2>4. Without \union With \subseteq SUBSET (1 .. n + 1)
    BY <2>1
  <2>5. QED
    BY <2>2, <2>3, <2>4
<1>4. Without \intersect With = {}
  BY n + 1 \notin 1 .. n
<1>5. Cardinality(SUBSET (1 .. n + 1)) = 2 ^ (n + 1)
  BY SubsetsOfInterval
<1> HIDE DEF Without, With
<1>6. Cardinality(Without \union With) = 2 ^ n + 2 ^ n
  BY <1>1, <1>2, <1>4, FS_Union, FS_EmptySet, PowerPositive
<1>7. Cardinality(SUBSET (1 .. n + 1)) = 2 ^ n + 2 ^ n
  BY <1>3, <1>6
<1>8. 2 ^ n \in Nat
  BY PowerPositive
<1>9. QED
  BY <1>5, <1>7, <1>8

(* Powers grow, and faster than their exponents. *)
LEMMA PowerExceeds ==
    \A n \in Nat : n < 2 ^ n
<1> DEFINE S == {n \in Nat : n < 2 ^ n}
<1>1. 0 \in S
  BY PowerZero
<1>2. \A n \in Nat : n \in S => n + 1 \in S
  BY PowerNext, PowerPositive
<1> HIDE DEF S
<1>3. Nat \subseteq S
  BY <1>1, <1>2, InductionOverSet
<1>4. QED
  BY <1>3 DEF S

(* They grow.                                                              *)
LEMMA PowerMonotone ==
    \A m, n \in Nat : m <= n => 2 ^ m <= 2 ^ n
<1> SUFFICES ASSUME NEW m \in Nat
             PROVE  \A n \in Nat : m <= n => 2 ^ m <= 2 ^ n
  OBVIOUS
<1> DEFINE S == {n \in Nat : m <= n => 2 ^ m <= 2 ^ n}
<1>1. 0 \in S
  <2>1. CASE m = 0
    BY <2>1, PowerZero
  <2>2. CASE m # 0
    BY <2>2
  <2>3. QED
    BY <2>1, <2>2
<1>2. ASSUME NEW n \in Nat, n \in S
      PROVE  n + 1 \in S
  <2>1. CASE m = n + 1
    BY <2>1, PowerPositive
  <2>2. CASE m # n + 1
    <3>1. m <= n + 1 => 2 ^ m <= 2 ^ n
      BY <1>2, <2>2
    <3>2. QED
      BY <3>1, PowerNext, PowerPositive
  <2>3. QED
    BY <2>1, <2>2
<1> HIDE DEF S
<1>3. Nat \subseteq S
  BY <1>1, <1>2, InductionOverSet
<1>4. QED
  BY <1>3 DEF S

(* Exponents add up.                                                       *)
LEMMA PowerSum ==
    \A m, n \in Nat : 2 ^ (m + n) = 2 ^ m * 2 ^ n
<1> SUFFICES ASSUME NEW m \in Nat
             PROVE  \A n \in Nat : 2 ^ (m + n) = 2 ^ m * 2 ^ n
  OBVIOUS
<1> DEFINE S == {n \in Nat : 2 ^ (m + n) = 2 ^ m * 2 ^ n}
<1>1. 0 \in S
  <2>1. m + 0 = m /\ 2 ^ m * 1 = 2 ^ m
    BY PowerPositive
  <2>2. QED
    BY <2>1, PowerZero
<1>2. ASSUME NEW n \in Nat, n \in S
      PROVE  n + 1 \in S
  <2>1. 2 ^ (m + (n + 1)) = 2 * 2 ^ (m + n)
    <3>1. m + n \in Nat /\ m + (n + 1) = (m + n) + 1
      OBVIOUS
    <3>2. QED
      BY <3>1, PowerNext
  <2>2. 2 ^ (n + 1) = 2 * 2 ^ n
    BY PowerNext
  <2>3. 2 ^ m \in Nat /\ 2 ^ n \in Nat
    BY PowerPositive
  <2>4. \A a, b \in Nat : 2 * (a * b) = a * (2 * b)
    OBVIOUS
  <2>5. QED
    BY <1>2, <2>1, <2>2, <2>3, <2>4
<1> HIDE DEF S
<1>3. Nat \subseteq S
  BY <1>1, <1>2, InductionOverSet
<1>4. QED
  BY <1>3 DEF S

(* Every number from 1 on is an odd one times a power of two.              *)
LEMMA OddPart ==
    \A n \in Nat \ {0} : \E k, j \in Nat : n = 2 ^ k * (2 * j + 1)
<1> DEFINE S == {n \in Nat : n # 0 => \E k, j \in Nat : n = 2 ^ k * (2 * j + 1)}
<1>1. ASSUME NEW n \in Nat, \A m \in 0 .. n - 1 : m \in S, n # 0
      PROVE  \E k, j \in Nat : n = 2 ^ k * (2 * j + 1)
  <2>1. CASE \E j \in Nat : n = 2 * j + 1
    <3>1. PICK j \in Nat : n = 2 * j + 1
      BY <2>1
    <3>2. n = 2 ^ 0 * (2 * j + 1)
      BY <3>1, PowerZero
    <3>3. QED
      BY <3>2
  <2>2. CASE ~\E j \in Nat : n = 2 * j + 1
    <3>1. PICK m \in 0 .. n - 1 : n = 2 * m /\ m # 0
      <4>1. n \div 2 \in Nat /\ (n = 2 * (n \div 2) \/ n = 2 * (n \div 2) + 1)
        OBVIOUS
      <4>2. n = 2 * (n \div 2)
        BY <2>2, <4>1
      <4>3. n \div 2 \in 0 .. n - 1 /\ n \div 2 # 0
        BY <1>1, <4>1, <4>2
      <4>4. QED
        BY <4>2, <4>3
    <3>2. PICK k \in Nat, j \in Nat : m = 2 ^ k * (2 * j + 1)
      BY <1>1, <3>1
    <3>3. 2 ^ (k + 1) = 2 * 2 ^ k /\ 2 ^ k \in Nat
      BY PowerNext, PowerPositive
    <3>4. \A a, b \in Nat : 2 * (a * b) = (2 * a) * b
      OBVIOUS
    <3>5. n = 2 ^ (k + 1) * (2 * j + 1)
      BY <3>1, <3>2, <3>3, <3>4
    <3>6. QED
      BY <3>5
  <2>3. QED
    BY <2>1, <2>2
<1>2. \A n \in Nat : (\A m \in 0 .. n - 1 : m \in S) => n \in S
  BY <1>1
<1> HIDE DEF S
<1>3. Nat \subseteq S
  BY <1>2, CourseOfValues
<1>4. QED
  BY <1>3 DEF S

(* That power of two is the only one that divides with an odd quotient.    *)
LEMMA OddPartUnique ==
    ASSUME NEW k \in Nat, NEW j \in Nat, NEW m \in Nat,
           (2 ^ k * (2 * j + 1)) % 2 ^ m = 0,
           ((2 ^ k * (2 * j + 1)) \div 2 ^ m) % 2 = 1
    PROVE  m = k
<1>1. 2 ^ k \in Nat \ {0} /\ 2 ^ m \in Nat \ {0}
  BY PowerPositive
<1>2. PICK q \in Nat : q = (2 ^ k * (2 * j + 1)) \div 2 ^ m /\ q % 2 = 1
                       /\ 2 ^ k * (2 * j + 1) = 2 ^ m * q
  <2>1. \A a \in Nat, b \in Nat \ {0} : a % b = 0 => a \div b \in Nat /\ a = b * (a \div b)
    OBVIOUS
  <2>2. 2 ^ k * (2 * j + 1) \in Nat
    BY <1>1
  <2>3. QED
    BY <1>1, <2>1, <2>2
<1>3. PICK i \in Nat : q = 2 * i + 1
  <2>1. q = 2 * (q \div 2) + 1 /\ q \div 2 \in Nat
    BY <1>2
  <2>2. QED
    BY <2>1
(* With different powers one side would be odd and the other even.         *)
<1>4. ASSUME NEW a \in Nat, NEW b \in Nat, NEW x \in Nat, NEW y \in Nat, a < b,
             2 ^ a * (2 * x + 1) = 2 ^ b * (2 * y + 1)
      PROVE  FALSE
  <2>1. PICK d \in Nat : b = a + (d + 1)
    <3>1. b - a - 1 \in Nat /\ b = a + ((b - a - 1) + 1)
      BY <1>4
    <3>2. QED
      BY <3>1
  <2>2. 2 ^ b = 2 ^ a * (2 * 2 ^ d)
    <3>1. d + 1 \in Nat /\ 2 ^ (d + 1) = 2 * 2 ^ d
      BY PowerNext
    <3>2. 2 ^ (a + (d + 1)) = 2 ^ a * 2 ^ (d + 1)
      BY <3>1, PowerSum
    <3>3. QED
      BY <2>1, <3>1, <3>2
  <2>3. PICK A \in Nat \ {0} : A = 2 ^ a
    BY PowerPositive
  <2>4. PICK D \in Nat : D = 2 ^ d
    BY PowerPositive
  <2>5. A * (2 * x + 1) = A * ((2 * D) * (2 * y + 1))
    <3>1. \A u, v, w \in Nat : (u * v) * w = u * (v * w)
      OBVIOUS
    <3>2. 2 * D \in Nat /\ 2 * y + 1 \in Nat /\ A \in Nat
      BY <2>3, <2>4
    <3>3. (A * (2 * D)) * (2 * y + 1) = A * ((2 * D) * (2 * y + 1))
      BY <3>1, <3>2
    <3>4. A * (2 * x + 1) = (A * (2 * D)) * (2 * y + 1)
      BY <1>4, <2>2, <2>3, <2>4
    <3>5. QED
      BY <3>3, <3>4
  <2>6. \A u, v \in Nat : A * u = A * v => u = v
    BY <2>3
  <2>7. 2 * x + 1 = (2 * D) * (2 * y + 1)
    BY <2>5, <2>6
  <2>8. 2 * x + 1 = 2 * (D * (2 * y + 1)) /\ D * (2 * y + 1) \in Nat
    BY <2>7
  <2>9. QED
    BY <2>8
<1>5. 2 ^ k * (2 * j + 1) = 2 ^ m * (2 * i + 1)
  BY <1>2, <1>3
<1>6. ~(k < m) /\ ~(m < k)
  BY <1>4, <1>5
<1>7. QED
  BY <1>6

(* d places round a ring of s is one to one, and reaches every place.      *)
LEMMA RingStep ==
    ASSUME NEW s \in Nat \ {0}, NEW d \in 0 .. s - 1
    PROVE  /\ \A a \in 0 .. s - 1 : (a + d) % s \in 0 .. s - 1
           /\ \A a, b \in 0 .. s - 1 : (a + d) % s = (b + d) % s => a = b
           /\ \A b \in 0 .. s - 1 : \E a \in 0 .. s - 1 : (a + d) % s = b
<1>1. \A a \in 0 .. s - 1 : (a + d) % s = IF a + d < s THEN a + d ELSE a + d - s
  <2>1. \A x \in Nat : x < s => x % s = x
    OBVIOUS
  <2>2. \A x \in Nat : x >= s /\ x < s + s => x % s = x - s
    OBVIOUS
  <2>3. QED
    BY <2>1, <2>2
<1>2. ASSUME NEW b \in 0 .. s - 1
      PROVE  \E a \in 0 .. s - 1 : (a + d) % s = b
  <2>1. CASE d <= b
    <3>1. b - d \in 0 .. s - 1 /\ ((b - d) + d) % s = b
      BY <2>1, <1>1
    <3>2. QED
      BY <3>1
  <2>2. CASE ~(d <= b)
    <3>1. b - d + s \in 0 .. s - 1 /\ ((b - d + s) + d) % s = b
      BY <2>2, <1>1
    <3>2. QED
      BY <3>1
  <2>3. QED
    BY <2>1, <2>2
<1>3. QED
  BY <1>1, <1>2

(* Two steps round a ring that do not pass its start twice are one.        *)
LEMMA RingSteps ==
    ASSUME NEW s \in Nat \ {0}, NEW a \in 0 .. s - 1, NEW d \in Nat, NEW e \in Nat,
           d + e < s
    PROVE  (((a + d) % s) + e) % s = (a + (d + e)) % s
<1>1. \A x \in Nat : x < s => x % s = x
  OBVIOUS
<1>2. \A x \in Nat : x >= s /\ x < s + s => x % s = x - s
  OBVIOUS
<1>3. CASE a + d < s
  BY <1>1, <1>3
<1>4. CASE ~(a + d < s)
  <2>1. (a + d) % s = a + d - s
    BY <1>2, <1>4
  <2>2. ((a + d - s) + e) % s = a + d - s + e
    BY <1>1, <1>4
  <2>3. (a + (d + e)) % s = a + (d + e) - s
    BY <1>2, <1>4
  <2>4. QED
    BY <2>1, <2>2, <2>3
<1>5. QED
  BY <1>3, <1>4

(* The members of an active set, a stride apart: an index has one rank,    *)
(* and the rank gives the index back.                                      *)
LEMMA StridedRanks ==
    ASSUME NEW start \in Nat, NEW stride \in Nat \ {0}
    PROVE  /\ \A i \in Nat : ((start + i * stride) - start) \div stride = i
           /\ \A i, j \in Nat : start + i * stride = start + j * stride => i = j
<1>1. \A i \in Nat : i * stride \in Nat /\ (i * stride) \div stride = i
  OBVIOUS
<1>2. \A i \in Nat : (start + i * stride) - start = i * stride
  BY <1>1
<1>3. \A i \in Nat : ((start + i * stride) - start) \div stride = i
  BY <1>1, <1>2
<1>4. QED
  BY <1>3

=============================================================================
