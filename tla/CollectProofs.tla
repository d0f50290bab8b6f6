---------------------------- MODULE CollectProofs ----------------------------
(***************************************************************************)
(* The collect puts every slice of a leaf where it belongs, passes on the  *)
(* right offsets and leaves no slice behind, for every active set and all  *)
(* contributions.  The offsets form a wave: members get them in PE order,  *)
(* and until a member has its own nothing else can be in its pSync, for    *)
(* its children cannot poke it before the wave has passed them.  Behind    *)
(* the wave the same word counts the pokes of the closing barrier.  It is  *)
(* cleared while its children may have poked already, so pokes are lost;   *)
(* what holds is a bound: none is counted twice, and a member that sees as *)
(* many as it waits for has heard from everybody it waits for.             *)
(***************************************************************************)
EXTENDS Collect, TreeBarrierProofs

(* Sums over finite sets of members.  The community modules define a sum   *)
(* through a function that is recursive over subsets: that there is such a *)
(* function, and that the order of adding does not matter, is shown first. *)
PickOf(s) == CHOOSE x \in s : TRUE

SumsOver(f, S, iter) ==
    iter = [s \in SUBSET S |-> IF s = {} THEN 0 ELSE f[PickOf(s)] + iter[s \ {PickOf(s)}]]

SumOf(f, S) == (CHOOSE iter : SumsOver(f, S, iter))[S]

(* The sum of the model is such a function.                                *)
LEMMA SumIsSumOf ==
    ASSUME NEW f, NEW S
    PROVE  MapThenSumSet(LAMBDA q : f[q], S) = SumOf(f, S)
BY DEF SumOf, SumsOver, PickOf, MapThenSumSet, MapThenFoldSet

(* A finite set without one of its elements.                               *)
LEMMA OneLess ==
    ASSUME NEW S, IsFiniteSet(S), NEW x \in S
    PROVE  IsFiniteSet(S \ {x}) /\ Cardinality(S \ {x}) \in Nat
        /\ Cardinality(S) = Cardinality(S \ {x}) + 1
<1>1. IsFiniteSet(S \ {x}) /\ Cardinality(S \ {x}) = Cardinality(S) - 1
  BY FS_RemoveElement, Zenon
<1>2. Cardinality(S) \in Nat /\ Cardinality(S \ {x}) \in Nat
  BY <1>1, FS_CardinalityType, Zenon
<1>3. QED
  BY <1>1, <1>2

(* The element the sum adds next is one of the set.                        *)
LEMMA PickIn == ASSUME NEW S, S # {} PROVE PickOf(S) \in S
BY DEF PickOf

(* Two such functions agree where both are defined.                        *)
LEMMA SumsAgree ==
    ASSUME NEW f, NEW S, NEW T, IsFiniteSet(S), S \subseteq T,
           NEW g, SumsOver(f, S, g), NEW h, SumsOver(f, T, h)
    PROVE  \A s \in SUBSET S : g[s] = h[s]
<1> DEFINE W == {n \in Nat : \A s \in SUBSET S : Cardinality(s) = n => g[s] = h[s]}
<1>1. \A s \in SUBSET S : IsFiniteSet(s) /\ Cardinality(s) \in Nat
  BY FS_Subset, FS_CardinalityType
<1>2. \A s \in SUBSET S : /\ g[s] = IF s = {} THEN 0 ELSE f[PickOf(s)] + g[s \ {PickOf(s)}]
                          /\ h[s] = IF s = {} THEN 0 ELSE f[PickOf(s)] + h[s \ {PickOf(s)}]
  <2>1. \A s \in SUBSET S : g[s] = IF s = {} THEN 0 ELSE f[PickOf(s)] + g[s \ {PickOf(s)}]
    BY Zenon DEF SumsOver
  <2>2. \A s \in SUBSET T : h[s] = IF s = {} THEN 0 ELSE f[PickOf(s)] + h[s \ {PickOf(s)}]
    BY Zenon DEF SumsOver
  <2>3. QED
    BY <2>1, <2>2
<1>3. 0 \in W
  BY <1>1, <1>2, FS_EmptySet
<1>4. ASSUME NEW n \in Nat, n \in W
      PROVE  n + 1 \in W
  <2> SUFFICES ASSUME NEW s \in SUBSET S, Cardinality(s) = n + 1
               PROVE  g[s] = h[s]
    OBVIOUS
  <2>1. s # {}
    BY FS_EmptySet
  <2>2. PickOf(s) \in s
    BY <2>1, PickIn
  <2>3. IsFiniteSet(s)
    BY <1>1
  <2>4. Cardinality(s \ {PickOf(s)}) = n /\ s \ {PickOf(s)} \in SUBSET S
    BY <2>2, <2>3, OneLess
  <2>5. g[s \ {PickOf(s)}] = h[s \ {PickOf(s)}]
    BY <1>4, <2>4
  <2>6. QED
    BY <1>2, <2>1, <2>5
<1>5. Nat \subseteq W
  <2> HIDE DEF W
  <2> QED BY <1>3, <1>4, InductionOverSet
<1>6. QED
  BY <1>1, <1>5

(* There is one for every finite set.                                      *)
LEMMA SumsExist ==
    ASSUME NEW f, NEW S, IsFiniteSet(S)
    PROVE  SumsOver(f, S, CHOOSE iter : SumsOver(f, S, iter))
<1> DEFINE W == {n \in Nat : \A s \in SUBSET S : Cardinality(s) \in 0 .. n => \E g : SumsOver(f, s, g)}
<1>1. \A s \in SUBSET S : IsFiniteSet(s) /\ Cardinality(s) \in Nat
  BY FS_Subset, FS_CardinalityType
<1>2. 0 \in W
  <2> SUFFICES ASSUME NEW s \in SUBSET S, Cardinality(s) \in 0 .. 0
               PROVE  \E g : SumsOver(f, s, g)
    OBVIOUS
  <2>1. s = {}
    BY <1>1, FS_EmptySet
  <2>2. SumsOver(f, s, [t \in SUBSET s |-> 0])
    BY <2>1 DEF SumsOver
  <2>3. QED
    BY <2>2
<1>3. ASSUME NEW n \in Nat, n \in W
      PROVE  n + 1 \in W
  <2> SUFFICES ASSUME NEW s \in SUBSET S, Cardinality(s) \in 0 .. n + 1
               PROVE  \E g : SumsOver(f, s, g)
    OBVIOUS
  <2>1. CASE s = {}
    BY <1>3, <2>1, FS_EmptySet
  <2>2. CASE s # {}
    <3> DEFINE F(t) == CHOOSE iter : SumsOver(f, t, iter)
               new == [t \in SUBSET s |->
                         IF t = s THEN f[PickOf(s)] + F(s \ {PickOf(s)})[s \ {PickOf(s)}] ELSE F(t)[t]]
    <3>1. ASSUME NEW t \in SUBSET s, t # s
          PROVE  SumsOver(f, t, F(t))
      <4>1. Cardinality(t) < Cardinality(s)
        BY <1>1, <3>1, FS_Subset
      <4>2. Cardinality(t) \in 0 .. n
        BY <1>1, <4>1
      <4>3. \E g : SumsOver(f, t, g)
        BY <1>3, <4>2
      <4>4. QED
        BY <4>3, Zenon
    <3>2. PickOf(s) \in s
      BY <2>2, PickIn
    <3>3. ASSUME NEW t \in SUBSET s
          PROVE  new[t] = IF t = {} THEN 0 ELSE f[PickOf(t)] + new[t \ {PickOf(t)}]
      <4>1. CASE t = s
        <5>1. s \ {PickOf(s)} # s /\ s \ {PickOf(s)} \in SUBSET s
          BY <3>2
        <5>2. QED
          BY <2>2, <4>1, <5>1
      <4>2. CASE t # s
        <5>1. SumsOver(f, t, F(t))
          BY <3>1, <4>2
        <5> DEFINE u == t \ {PickOf(t)}
        <5>2. F(t)[t] = IF t = {} THEN 0 ELSE f[PickOf(t)] + F(t)[u]
          BY <5>1, Zenon DEF SumsOver
        <5>3. u \in SUBSET s /\ u # s /\ u \subseteq t /\ IsFiniteSet(u)
          BY <1>1, <4>2
        <5>4. SumsOver(f, u, F(u))
          BY <3>1, <5>3
        <5>5. F(u)[u] = F(t)[u]
          <6> HIDE DEF F, u
          <6>1. \A v \in SUBSET u : F(u)[v] = F(t)[v]
            BY <5>1, <5>3, <5>4, SumsAgree
          <6>2. QED
            BY <6>1
        <5>6. new[t] = F(t)[t] /\ new[u] = F(u)[u]
          BY <4>2, <5>3
        <5>7. QED
          BY <5>2, <5>5, <5>6
      <4>3. QED
        BY <4>1, <4>2
    <3>4. SumsOver(f, s, new)
      <4> DEFINE rec == [t \in SUBSET s |-> IF t = {} THEN 0 ELSE f[PickOf(t)] + new[t \ {PickOf(t)}]]
      <4>1. \A t \in SUBSET s : new[t] = rec[t]
        BY <3>3
      <4>2. new = rec
        BY <4>1
      <4>3. QED
        BY <4>2, Zenon DEF SumsOver
    <3>5. QED
      BY <3>4
  <2>3. QED
    BY <2>1, <2>2
<1>4. Nat \subseteq W
  <2> HIDE DEF W
  <2> QED BY <1>2, <1>3, InductionOverSet
<1>5. Cardinality(S) \in W /\ Cardinality(S) \in 0 .. Cardinality(S)
  BY <1>1, <1>4
<1>6. \E g : SumsOver(f, S, g)
  BY <1>5
<1>7. QED
  BY <1>6, Zenon

(* The sum over no member is zero.                                         *)
LEMMA SumEmpty == ASSUME NEW f PROVE SumOf(f, {}) = 0
<1>1. SumsOver(f, {}, CHOOSE iter : SumsOver(f, {}, iter))
  BY SumsExist, FS_EmptySet
<1>2. QED
  BY <1>1 DEF SumOf, SumsOver

(* The sum over a set is one element and the sum over the others.          *)
LEMMA SumUnfold ==
    ASSUME NEW f, NEW S, IsFiniteSet(S), S # {}
    PROVE  SumOf(f, S) = f[PickOf(S)] + SumOf(f, S \ {PickOf(S)})
<1> DEFINE F(t) == CHOOSE iter : SumsOver(f, t, iter)
           u == S \ {PickOf(S)}
<1>1. SumsOver(f, S, F(S)) /\ IsFiniteSet(u) /\ u \subseteq S
  BY SumsExist, FS_Subset
<1>2. SumsOver(f, u, F(u))
  BY <1>1, SumsExist
<1>3. F(S)[S] = IF S = {} THEN 0 ELSE f[PickOf(S)] + F(S)[u]
  BY <1>1, Zenon DEF SumsOver
<1>4. F(u)[u] = F(S)[u]
  <2> HIDE DEF F, u
  <2> QED BY <1>1, <1>2, SumsAgree
<1>5. QED
  BY <1>3, <1>4 DEF SumOf

(* Any element may be the one that is added last.                          *)
LEMMA SumSplits ==
    ASSUME NEW D, NEW f \in [D -> Nat]
    PROVE  \A S \in SUBSET D : IsFiniteSet(S) =>
              SumOf(f, S) \in Nat /\ \A y \in S : SumOf(f, S) = f[y] + SumOf(f, S \ {y})
<1> DEFINE P(S) == SumOf(f, S) \in Nat
    /\ \A y \in S : SumOf(f, S) = f[y] + SumOf(f, S \ {y})
           W == {n \in Nat : \A S \in SUBSET D : IsFiniteSet(S) /\ Cardinality(S) \in 0 .. n => P(S)}
<1>1. 0 \in W
  BY SumEmpty, FS_EmptySet
<1>2. ASSUME NEW n \in Nat, n \in W
      PROVE  n + 1 \in W
  <2> SUFFICES ASSUME NEW S \in SUBSET D, IsFiniteSet(S), Cardinality(S) \in 0 .. n + 1
               PROVE  P(S)
    OBVIOUS
  <2> SUFFICES ASSUME S # {} PROVE P(S)
    BY SumEmpty
  <2> DEFINE x == PickOf(S)
  <2>1. x \in S
    BY PickIn
  <2>2. SumOf(f, S) = f[x] + SumOf(f, S \ {x})
    BY <2>1, SumUnfold
  <2> HIDE DEF x
  <2>3. \A y \in S : S \ {y} \in SUBSET D /\ IsFiniteSet(S \ {y})
      /\ Cardinality(S \ {y}) \in 0 .. n
    BY OneLess
  <2>4. \A y \in S : P(S \ {y})
    <3> HIDE DEF P
    <3> QED BY <1>2, <2>3
  <2>5. SumOf(f, S \ {x}) \in Nat /\ \A y \in S : f[y] \in Nat
    BY <2>1, <2>4
  <2>6. ASSUME NEW y \in S, y # x
        PROVE  SumOf(f, S) = f[y] + SumOf(f, S \ {y})
    <3>1. y \in S \ {x} /\ x \in S \ {y} /\ (S \ {x}) \ {y} = (S \ {y}) \ {x}
      BY <2>1, <2>6
    <3>2. SumOf(f, S \ {x}) = f[y] + SumOf(f, (S \ {x}) \ {y})
      BY <2>1, <2>4, <3>1
    <3>3. SumOf(f, S \ {y}) = f[x] + SumOf(f, (S \ {y}) \ {x})
      BY <2>4, <3>1
    <3>4. IsFiniteSet((S \ {x}) \ {y}) /\ Cardinality((S \ {x}) \ {y}) \in 0 .. n
      <4>1. IsFiniteSet(S \ {x}) /\ Cardinality(S \ {x}) \in 0 .. n
        BY <2>1, <2>3
      <4>2. QED
        BY <3>1, <4>1, OneLess
    <3>5. SumOf(f, (S \ {x}) \ {y}) \in Nat
      BY <1>2, <3>4
    <3>6. QED
      BY <2>1, <2>2, <2>5, <3>1, <3>2, <3>3, <3>5
  <2>7. QED
    BY <2>1, <2>2, <2>5, <2>6
<1>3. Nat \subseteq W
  <2> HIDE DEF W
  <2> QED BY <1>1, <1>2, InductionOverSet
<1>4. QED
  BY <1>3, FS_CardinalityType

(* What is added does not make the sum smaller.                            *)
LEMMA SumGrows ==
    ASSUME NEW D, NEW f \in [D -> Nat]
    PROVE  \A T \in SUBSET D : IsFiniteSet(T) =>
              \A S \in SUBSET T : SumOf(f, S) <= SumOf(f, T)
<1> DEFINE P(T) == \A S \in SUBSET T : SumOf(f, S) <= SumOf(f, T)
           W == {n \in Nat : \A T \in SUBSET D : IsFiniteSet(T) /\ Cardinality(T) \in 0 .. n => P(T)}
<1>1. \A T \in SUBSET D : IsFiniteSet(T) =>
          SumOf(f, T) \in Nat /\ \A y \in T : SumOf(f, T) = f[y] + SumOf(f, T \ {y})
  BY SumSplits
<1>2. 0 \in W
  <2> SUFFICES ASSUME NEW T \in SUBSET D, IsFiniteSet(T), Cardinality(T) \in 0 .. 0,
      NEW S \in SUBSET T
               PROVE  SumOf(f, S) <= SumOf(f, T)
    OBVIOUS
  <2>1. T = {} /\ S = {}
    BY FS_EmptySet
  <2>2. QED
    BY <1>1, <2>1
<1>3. ASSUME NEW n \in Nat, n \in W
      PROVE  n + 1 \in W
  <2> SUFFICES ASSUME NEW T \in SUBSET D, IsFiniteSet(T),
      Cardinality(T) \in 0 .. n + 1, NEW S \in SUBSET T
               PROVE  SumOf(f, S) <= SumOf(f, T)
    OBVIOUS
  <2>1. CASE S = T
    BY <1>1, <2>1
  <2>2. CASE S # T
    <3>1. PICK y \in T : y \notin S
      BY <2>2
    <3>2. IsFiniteSet(T \ {y}) /\ Cardinality(T \ {y}) \in 0 .. n
        /\ T \ {y} \in SUBSET D
      BY OneLess
    <3>3. S \in SUBSET (T \ {y}) /\ IsFiniteSet(S)
      BY <3>1, FS_Subset
    <3>4. SumOf(f, S) <= SumOf(f, T \ {y})
      BY <1>3, <3>2, <3>3
    <3>5. SumOf(f, T) = f[y] + SumOf(f, T \ {y}) /\ SumOf(f, T \ {y}) \in Nat
        /\ f[y] \in Nat
      BY <1>1, <3>2
    <3>6. SumOf(f, S) \in Nat
      BY <1>1, <3>3
    <3>7. QED
      BY <3>4, <3>5, <3>6
  <2>3. QED
    BY <2>1, <2>2
<1>4. Nat \subseteq W
  <2> HIDE DEF W
  <2> QED BY <1>2, <1>3, InductionOverSet
<1>5. QED
  BY <1>4, FS_CardinalityType

-----------------------------------------------------------------------------
(* The members in a row.                                                   *)
LeftOf(p) == p - stride

LEMMA InARow ==
    /\ Members \subseteq Nat /\ stride \in Nat \ {0} /\ Root \in Members
    /\ \A p \in Members : Root <= p
    /\ \A p, q \in Members : p < q <=> Index(p) < Index(q)
    /\ \A p \in Members : p < last_pe =>
          p + stride \in Members /\ p + stride # Root /\ LeftOf(p + stride) = p
    /\ \A c \in Below : /\ LeftOf(c) \in Members /\ LeftOf(c) < c /\ ParentOf(c) < c
                        /\ \A q \in Members : q < c => q <= LeftOf(c)
<1>1. start \in Nat /\ stride \in Nat \ {0} /\ size \in Nat \ {0}
  BY ActiveSetAssumption, PowerPositive DEF stride
<1>2. \A i \in Nat : Rank(i) \in Nat /\ Rank(i + 1) = Rank(i) + stride
  BY <1>1 DEF Rank
<1>3. \A i, j \in Nat : i < j => Rank(i) < Rank(j)
  <2> SUFFICES ASSUME NEW i \in Nat, NEW j \in Nat, i < j
               PROVE  Rank(i) < Rank(j)
    OBVIOUS
  <2>1. PICK k \in Nat : j = i + 1 + k
    <3> WITNESS j - i - 1 \in Nat
    <3> QED OBVIOUS
  <2>2. j * stride = i * stride + stride + k * stride /\ i * stride \in Nat
      /\ k * stride \in Nat
    BY <1>1, <2>1
  <2>3. QED
    BY <1>1, <2>2 DEF Rank
<1>4. \A p \in Members : Index(p) \in 0 .. size - 1 /\ Rank(Index(p)) = p
  BY ActiveSet
<1>5. Members \subseteq Nat /\ Root \in Members
  BY <1>1, <1>2, ActiveSet DEF Members
<1>6. \A p, q \in Members : p < q <=> Index(p) < Index(q)
  <2> SUFFICES ASSUME NEW p \in Members, NEW q \in Members
               PROVE  p < q <=> Index(p) < Index(q)
    OBVIOUS
  <2>1. p \in Nat /\ q \in Nat /\ Index(p) \in Nat /\ Index(q) \in Nat
    BY <1>1, <1>4, <1>5
  <2>2. Index(p) < Index(q) => p < q
    BY <1>3, <1>4, <2>1
  <2>3. Index(q) < Index(p) => q < p
    BY <1>3, <1>4, <2>1
  <2>4. Index(p) = Index(q) => p = q
    BY <1>4
  <2>5. QED
    BY <2>1, <2>2, <2>3, <2>4
<1>7. \A p \in Members : Root <= p
  <2> SUFFICES ASSUME NEW p \in Members
               PROVE  Root <= p
    OBVIOUS
  <2>1. ~(Index(p) < Index(Root))
    BY <1>1, <1>4, ActiveSet
  <2>2. QED
    BY <1>5, <1>6, <2>1
<1>8. ASSUME NEW p \in Members, p < last_pe
      PROVE  p + stride \in Members /\ p + stride # Root /\ LeftOf(p + stride) = p
  <2>1. last_pe = Rank(size - 1) /\ size - 1 \in 0 .. size - 1
    BY <1>1 DEF last_pe, Rank
  <2>2. last_pe \in Members /\ Index(last_pe) = size - 1
    BY <2>1, ActiveSet
  <2>3. Index(p) < size - 1
    BY <1>6, <1>8, <2>2
  <2>4. Index(p) + 1 \in 0 .. size - 1
    BY <1>1, <1>4, <2>3
  <2>5. Rank(Index(p) + 1) = p + stride
    BY <1>1, <1>2, <1>4
  <2>6. p + stride \in Members
    BY <2>4, <2>5, ActiveSet
  <2>7. QED
    BY <1>1, <1>5, <1>7, <2>6 DEF LeftOf
<1>9. ASSUME NEW c \in Below
      PROVE  /\ LeftOf(c) \in Members /\ LeftOf(c) < c /\ ParentOf(c) < c
             /\ \A q \in Members : q < c => q <= LeftOf(c)
  <2>1. c \in Members /\ Index(c) \in 1 .. size - 1
    BY ActiveSet
  <2>2. Rank(Index(c) - 1) = LeftOf(c)
    <3>1. Rank((Index(c) - 1) + 1) = Rank(Index(c) - 1) + stride
        /\ (Index(c) - 1) + 1 = Index(c)
      BY <1>1, <1>2, <2>1
    <3>2. Rank(Index(c) - 1) \in Nat
      BY <1>1, <1>2, <2>1
    <3>3. QED
      BY <1>1, <1>4, <2>1, <3>1, <3>2 DEF LeftOf
  <2>3. LeftOf(c) \in Members /\ Index(LeftOf(c)) = Index(c) - 1
    <3>1. Index(c) - 1 \in 0 .. size - 1
      BY <1>1, <2>1
    <3>2. QED
      BY <2>2, <3>1, ActiveSet
  <2>4. \A q \in Members : q < c => q <= LeftOf(c)
    <3> SUFFICES ASSUME NEW q \in Members, q < c
                 PROVE  q <= LeftOf(c)
      OBVIOUS
    <3>1. ~(Index(LeftOf(c)) < Index(q))
      BY <1>1, <1>4, <1>6, <2>1, <2>3
    <3>2. ~(LeftOf(c) < q)
      BY <1>6, <2>3, <3>1
    <3>3. LeftOf(c) \in Nat /\ q \in Nat
      BY <1>5, <2>3
    <3>4. QED
      BY <3>2, <3>3
  <2>5. ParentOf(c) \in Members /\ Index(ParentOf(c)) \in 0 .. Index(c) - 1
    BY ParentIs
  <2>6. ParentOf(c) < c
    BY <1>6, <2>1, <2>5
  <2>7. LeftOf(c) < c
    BY <1>1, <1>5, <2>1 DEF LeftOf
  <2>8. QED
    BY <2>3, <2>4, <2>6, <2>7
<1>10. QED
  BY <1>1, <1>5, <1>6, <1>7, <1>8, <1>9

(* The offset of a member is the sum up to its left neighbour, and that    *)
(* neighbour's contribution.                                               *)
LEMMA Offsets ==
    /\ Total \in Nat /\ OffsetOf(Root) = 0
    /\ \A p \in Members : OffsetOf(p) \in Nat /\ nelems[p] \in Nat
        /\ OffsetOf(p) + nelems[p] <= Total
    /\ \A p \in Members : p < last_pe => OffsetOf(p + stride) = OffsetOf(p) + nelems[p]
<1> DEFINE Up2(p) == {q \in Members : q < p}
<1>1. IsFiniteSet(Members)
  <2> DEFINE top == Rank(size - 1)
  <2>1. top \in Members /\ Index(top) = size - 1 /\ size \in Nat
    BY ActiveSet, ActiveSetAssumption
  <2> HIDE DEF top
  <2>2. \A p \in Members : p \in Nat /\ p \in 0 .. top
    <3>1. \A p \in Members : ~(top < p)
      BY <2>1, ActiveSet, InARow
    <3>2. QED
      BY <2>1, <3>1, InARow
  <2>3. IsFiniteSet(0 .. top) /\ Members \in SUBSET (0 .. top)
    BY <2>1, <2>2, FS_Interval, InARow
  <2>4. QED
    BY <2>3, FS_Subset
<1>2. Total = SumOf(nelems, Members)
  BY SumIsSumOf, Zenon DEF Total
<1>3. \A p : OffsetOf(p) = SumOf(nelems, Up2(p))
  BY SumIsSumOf, Zenon DEF OffsetOf
<1>4. nelems \in [Members -> Nat]
  BY NelemsAssumption
<1>5. \A S \in SUBSET Members : IsFiniteSet(S)
  BY <1>1, FS_Subset
<1>6. \A S \in SUBSET Members :
         SumOf(nelems, S) \in Nat
             /\ \A y \in S : SumOf(nelems, S) = nelems[y] + SumOf(nelems, S \ {y})
  BY <1>4, <1>5, SumSplits
<1>7. \A S \in SUBSET Members : SumOf(nelems, S) <= SumOf(nelems, Members)
  BY <1>1, <1>4, SumGrows
<1>8. OffsetOf(Root) = 0
  <2>1. \A q \in Members : ~(q < Root)
    BY InARow
  <2>2. QED
    BY <1>3, <2>1, SumEmpty, Up2(Root) = {}
<1>9. ASSUME NEW p \in Members
      PROVE  /\ OffsetOf(p) \in Nat /\ nelems[p] \in Nat
             /\ OffsetOf(p) + nelems[p] <= Total
             /\ p < last_pe => OffsetOf(p + stride) = OffsetOf(p) + nelems[p]
  <2> DEFINE S == {q \in Members : q < p} \union {p}
  <2>1. S \in SUBSET Members /\ p \in S /\ S \ {p} = Up2(p)
    BY InARow
  <2>2. SumOf(nelems, S) = nelems[p] + OffsetOf(p)
    BY <1>3, <1>6, <2>1
  <2>3. OffsetOf(p) \in Nat /\ nelems[p] \in Nat
    BY <1>3, <1>4, <1>6
  <2>4. p < last_pe => Up2(p + stride) = S
    <3> SUFFICES ASSUME p < last_pe
                 PROVE  Up2(p + stride) = S
      OBVIOUS
    <3>1. p + stride \in Below /\ LeftOf(p + stride) = p /\ p < p + stride
      BY InARow DEF Below
    <3>2. \A q \in Members : q < p + stride => q <= p
      BY <3>1, InARow
    <3>3. \A q \in Members : q \in Nat
      BY InARow
    <3>4. \A q \in Members : q < p + stride <=> q < p \/ q = p
      BY <3>1, <3>2, <3>3, InARow
    <3>5. QED
      BY <3>4
  <2>5. SumOf(nelems, S) <= Total
    BY <1>2, <1>7, <2>1
  <2>6. QED
    BY <1>3, <2>2, <2>3, <2>4, <2>5
<1>10. QED
  BY <1>2, <1>6, <1>8, <1>9

-----------------------------------------------------------------------------
(* How far a member is in its one call: it has its offset; it has told its *)
(* right neighbour; it has cleared pSync of the offset; its children have  *)
(* poked it; it has poked its parent; it has been poked.                   *)
Inside(p, stages) == entered[p] = 1 /\ pc[p] \in stages

Closing == {"quiet", "enter", "gather", "up", "down", "clear", "poke", "out"}

Started(p)  == Inside(p, {"forward", "index", "send", "cleanup"} \union Closing)
Passed(p)   == Inside(p, {"index", "send", "cleanup"} \union Closing)
Cleaned(p)  == Inside(p, Closing)
Gathered(p) == Inside(p, {"up", "down", "clear", "poke", "out"})
Climbed(p)  == Inside(p, {"down", "clear", "poke", "out"})
Awake(p)    == Inside(p, {"clear", "poke", "out"})

(* A member's parent has posted its poke; that poke has arrived.           *)
Sent(c) ==
    \/ Inside(ParentOf(c), {"out"})
    \/ Inside(ParentOf(c), {"poke"}) /\ child[ParentOf(c)] > Index(c)

Got(c) == Sent(c) /\ c \notin pokes

OneCollect == \A p \in Members :
    /\ pc[p] # "out" => entered[p] = 1 /\ left[p] = 0
    /\ pc[p] = "out" => left[p] = entered[p]

LoopInv ==
    /\ kind = [e \in 1 .. MaxEpisodes |-> "barrier"]
    /\ pc[Root] \notin {"up", "down"}
    /\ \A p \in Members : pc[p] = "poke" =>
          child[p] \in childrenBegin(Index(p)) .. childrenEnd(Index(p))

(* The wave: nobody has an offset before all to its left have passed it    *)
(* on, and until a member has its offset nothing else is in its pSync.  A  *)
(* leaf has nothing else there until it puts its slice.                    *)
OrderInv == \A p, q \in Members : p < q /\ Started(q) => Passed(p)

HeldInv == \A p \in Members :
    /\ ~Started(p) =>
          \/ pSync[p] = 0
          \/ p # Root /\ pSync[p] = OffsetOf(p) /\ Passed(LeftOf(p))
              /\ \A o \in offs : o.to # p
    /\ pc[p] = "forward" => pSync[p] = OffsetOf(p)
    /\ ChildrenOf(p) = {} /\ pc[p] = "index" => pSync[p] = OffsetOf(p)

OffsInv == \A o \in offs :
    /\ o.val = OffsetOf(o.to) /\ o.to # Root
    /\ ~Started(o.to) /\ Passed(LeftOf(o.to)) /\ pSync[o.to] = 0

(* The barrier: pokes may be wiped out, but none is ever counted twice.    *)
One(b) == IF b THEN 1 ELSE 0
Base(p) == IF Cleaned(p) THEN 0 ELSE OffsetOf(p)
ByKid(p, k) == One(HasKid(p, k) /\ Climbed(Kid(p, k)))
ByParent(p) == One(p # Root /\ Got(p))

CountBound ==
    \A p \in Members : pSync[p] <= Base(p) + ByKid(p, 1) + ByKid(p, 2) + ByParent(p)

PokesInv ==
    /\ \A p \in pokes : p # Root /\ Sent(p)
    /\ \A c \in Below : Gathered(ParentOf(c)) => Climbed(c)
    /\ \A c \in Below : Awake(c) => Sent(c)

SliceInv == \A w \in writes : w.ep = 1 /\ Inside(w.from, {"cleanup", "quiet"})

WaveTypeOK ==
    /\ CallsTypeOK
    /\ pc \in [Members -> {"out", "init", "forward", "index", "send", "cleanup",
                           "quiet", "enter", "gather", "up", "down", "clear", "poke"}]
    /\ pSync \in [Members -> Nat]
    /\ child \in [Members -> -1 .. size]
    /\ pokes \in SUBSET Members
    /\ offs \in SUBSET [to : Members, val : 0 .. Total]
    /\ tidx \in [Members -> -1 .. Total + tree_degree + 1]

WaveInv ==
    /\ WaveTypeOK /\ OneCollect /\ LoopInv
    /\ OrderInv /\ HeldInv /\ OffsInv
    /\ CountBound /\ PokesInv /\ SliceInv /\ LeavesInOrder

(* What the counts are made of.                                            *)
LEMMA CountsAreSmall ==
    ASSUME WaveInv
    PROVE  \A p \in Members :
              /\ pSync[p] \in Nat /\ Base(p) \in 0 .. Total
              /\ ByKid(p, 1) \in 0 .. 1 /\ ByKid(p, 2) \in 0 .. 1
                  /\ ByParent(p) \in 0 .. 1
              /\ pSync[p] \in 0 .. Total + tree_degree + 1
<1>1. ASSUME NEW p \in Members
      PROVE  /\ pSync[p] \in Nat /\ Base(p) \in 0 .. Total
             /\ ByKid(p, 1) \in 0 .. 1 /\ ByKid(p, 2) \in 0 .. 1
                 /\ ByParent(p) \in 0 .. 1
  <2>1. pSync[p] \in Nat
    BY DEF WaveInv, WaveTypeOK
  <2>2. OffsetOf(p) \in 0 .. Total
    BY Offsets
  <2>3. Base(p) \in 0 .. Total
    BY <2>2, Offsets DEF Base
  <2>4. ByKid(p, 1) \in 0 .. 1 /\ ByKid(p, 2) \in 0 .. 1 /\ ByParent(p) \in 0 .. 1
    BY DEF ByKid, ByParent, One
  <2>5. QED
    BY <2>1, <2>3, <2>4
<1>2. ASSUME NEW p \in Members
      PROVE  pSync[p] \in 0 .. Total + tree_degree + 1
  <2>1. pSync[p] <= Base(p) + ByKid(p, 1) + ByKid(p, 2) + ByParent(p)
    BY DEF WaveInv, CountBound
  <2>2. QED
    BY <1>1, <2>1, Offsets DEF tree_degree
<1>3. QED
  BY <1>1, <1>2

(* Nobody has an offset and nothing is in flight before the first call.    *)
LEMMA WaveInit == CollectInit => WaveInv
<1> SUFFICES ASSUME CollectInit
             PROVE  WaveInv
  OBVIOUS
<1> USE OneCall DEF CollectInit, Init, CallsInit
<1>1. WaveTypeOK
  BY Offsets, ActiveSetAssumption DEF WaveTypeOK, CallsTypeOK, SHMEM_SYNC_VALUE,
     tree_degree
<1>2. \A p \in Members : pc[p] = "out" /\ entered[p] = 0 /\ left[p] = 0
    /\ pSync[p] = 0 /\ tidx[p] = -1
  BY DEF SHMEM_SYNC_VALUE
<1>3. \A p \in Members : \A S : ~Inside(p, S)
  BY <1>2 DEF Inside
<1>4. \A p \in Members : ~Started(p) /\ ~Passed(p) /\ ~Climbed(p) /\ ~Gathered(p)
    /\ ~Awake(p)
  BY <1>3 DEF Started, Passed, Climbed, Gathered, Awake
<1>5. OneCollect /\ LoopInv
  BY <1>2, ActiveSet DEF OneCollect, LoopInv
<1>6. OrderInv /\ HeldInv /\ OffsInv
  BY <1>2, <1>4 DEF OrderInv, HeldInv, OffsInv
<1>7. CountBound
  BY <1>2, Offsets DEF CountBound, Base, ByKid, ByParent, One
<1>8. PokesInv /\ SliceInv /\ LeavesInOrder
  BY <1>2, <1>4, ActiveSet, ParentIs DEF PokesInv, SliceInv, LeavesInOrder
<1>9. QED
  BY <1>1, <1>5, <1>6, <1>7, <1>8 DEF WaveInv

-----------------------------------------------------------------------------
(* A member's step changes nothing about where the others are.             *)
LEMMA OthersStay ==
    ASSUME NEW p \in Members,
           \A q \in Members : q # p =>
               pc'[q] = pc[q] /\ entered'[q] = entered[q] /\ child'[q] = child[q]
    PROVE  /\ \A q \in Members : q # p =>
                 /\ Started(q)' <=> Started(q)
                 /\ Passed(q)' <=> Passed(q)
                 /\ Cleaned(q)' <=> Cleaned(q)
                 /\ Gathered(q)' <=> Gathered(q)
                 /\ Climbed(q)' <=> Climbed(q)
                 /\ Awake(q)' <=> Awake(q)
           /\ \A c \in Below : ParentOf(c) # p => (Sent(c)' <=> Sent(c))
<1>1. \A c \in Below : ParentOf(c) \in Members
  BY ParentIs
<1>2. \A q \in Members : q # p =>
                 /\ Started(q)' <=> Started(q)
                 /\ Passed(q)' <=> Passed(q)
                 /\ Cleaned(q)' <=> Cleaned(q)
                 /\ Gathered(q)' <=> Gathered(q)
                 /\ Climbed(q)' <=> Climbed(q)
                 /\ Awake(q)' <=> Awake(q)
  BY DEF Started, Passed, Cleaned, Gathered, Climbed, Awake, Inside
<1>3. \A c \in Below : ParentOf(c) # p => (Sent(c)' <=> Sent(c))
  BY <1>1 DEF Sent, Inside
<1>4. QED
  BY <1>2, <1>3

(* Steps behind the wave leave it alone ...                                *)
LEMMA WaveKept ==
    ASSUME WaveInv, UNCHANGED offs,
           \A q \in Members : Started(q)' <=> Started(q),
           \A q \in Members : Passed(q)' <=> Passed(q),
           \A q \in Members : pc'[q] \in {"forward", "index"} => pc'[q] = pc[q],
           \A q \in Members :
              ~Started(q) \/ pc[q] = "forward" \/ (pc[q] = "index" /\ ChildrenOf(q) = {})
                 => pSync'[q] = pSync[q]
    PROVE  OrderInv' /\ HeldInv' /\ OffsInv'
<1>1. OrderInv'
  BY DEF WaveInv, OrderInv
<1>2. HeldInv'
  <2>1. \A c \in Below : LeftOf(c) \in Members
    BY InARow
  <2> SUFFICES ASSUME NEW p \in Members
               PROVE  /\ ~Started(p)' =>
                            \/ pSync'[p] = 0
                            \/ /\ p # Root /\ pSync'[p] = OffsetOf(p)
                                /\ Passed(LeftOf(p))'
                               /\ \A o \in offs : o.to # p
                      /\ pc'[p] = "forward" => pSync'[p] = OffsetOf(p)
                      /\ ChildrenOf(p) = {} /\ pc'[p] = "index"
                          => pSync'[p] = OffsetOf(p)
    BY DEF HeldInv
  <2>2. /\ ~Started(p) =>
              \/ pSync[p] = 0
              \/ /\ p # Root /\ pSync[p] = OffsetOf(p) /\ Passed(LeftOf(p))
                 /\ \A o \in offs : o.to # p
        /\ pc[p] = "forward" => pSync[p] = OffsetOf(p)
        /\ ChildrenOf(p) = {} /\ pc[p] = "index" => pSync[p] = OffsetOf(p)
    BY DEF WaveInv, HeldInv
  <2>3. p # Root => LeftOf(p) \in Members
    BY <2>1 DEF Below
  <2>4. QED
    BY <2>2, <2>3
<1>3. OffsInv'
  <2> SUFFICES ASSUME NEW o \in offs
               PROVE  /\ o.val = OffsetOf(o.to) /\ o.to # Root
                      /\ ~Started(o.to)' /\ Passed(LeftOf(o.to))' /\ pSync'[o.to] = 0
    BY DEF OffsInv
  <2>1. /\ o.val = OffsetOf(o.to) /\ o.to # Root
        /\ ~Started(o.to) /\ Passed(LeftOf(o.to)) /\ pSync[o.to] = 0
    BY DEF WaveInv, OffsInv
  <2>2. o.to \in Members
    BY DEF WaveInv, WaveTypeOK
  <2>3. LeftOf(o.to) \in Members
    BY <2>1, <2>2, InARow DEF Below
  <2>4. QED
    BY <2>1, <2>2, <2>3
<1>4. QED
  BY <1>1, <1>2, <1>3

(* ... steps that only go forward keep what bounds the counts ...          *)
LEMMA BoundKept ==
    ASSUME WaveInv, NEW p \in Members, pSync'[p] \in Nat, pSync'[p] <= pSync[p],
           Cleaned(p)' <=> Cleaned(p),
           \A q \in Members : Climbed(q) => Climbed(q)',
           p \in Below /\ Got(p) => Got(p)'
    PROVE  pSync'[p] <= Base(p)' + ByKid(p, 1)' + ByKid(p, 2)' + ByParent(p)'
<1>1. pSync[p] <= Base(p) + ByKid(p, 1) + ByKid(p, 2) + ByParent(p)
  BY DEF WaveInv, CountBound
<1>2. Base(p)' = Base(p)
  BY DEF Base
<1>3. ByKid(p, 1)' \in 0 .. 1 /\ ByKid(p, 1) <= ByKid(p, 1)'
  BY KidsOf DEF ByKid, One
<1>4. ByKid(p, 2)' \in 0 .. 1 /\ ByKid(p, 2) <= ByKid(p, 2)'
  BY KidsOf DEF ByKid, One
<1>5. ByParent(p)' \in 0 .. 1 /\ ByParent(p) <= ByParent(p)'
  BY DEF ByParent, One, Below
<1>6. pSync[p] \in Int /\ Base(p) \in Int /\ ByKid(p, 1) \in Int
    /\ ByKid(p, 2) \in Int /\ ByParent(p) \in Int
  BY CountsAreSmall, Offsets
<1>7. QED
  BY <1>1, <1>2, <1>3, <1>4, <1>5, <1>6

(* ... and steps before it leave the barrier alone.                        *)
LEMMA PokesKept ==
    ASSUME WaveInv, UNCHANGED pokes,
           \A q \in Members : Gathered(q)' <=> Gathered(q),
           \A q \in Members : Climbed(q)' <=> Climbed(q),
           \A q \in Members : Awake(q)' <=> Awake(q),
           \A c \in Below : Sent(c)' <=> Sent(c)
    PROVE  PokesInv'
<1>1. \A c \in Below : ParentOf(c) \in Members /\ c \in Members
  BY ParentIs, ActiveSet
<1>2. \A p \in pokes : p # Root /\ p \in Below
  BY DEF WaveInv, PokesInv, WaveTypeOK, Below
<1>3. QED
  BY <1>1, <1>2 DEF WaveInv, PokesInv

(* Steps on which nothing of this depends.                                 *)
LEMMA AllKept ==
    ASSUME WaveInv, WaveTypeOK', OneCollect', LoopInv', SliceInv', LeavesInOrder',
           UNCHANGED <<offs, pSync, pokes>>, NEW p \in Members,
           \A q \in Members : q # p =>
               pc'[q] = pc[q] /\ entered'[q] = entered[q] /\ child'[q] = child[q],
           pc'[p] \notin {"forward", "index"},
           Started(p)' <=> Started(p), Passed(p)' <=> Passed(p), Cleaned(p)'
               <=> Cleaned(p),
           Gathered(p)' <=> Gathered(p), Climbed(p)' <=> Climbed(p), Awake(p)'
               <=> Awake(p),
           \A c \in Below : ParentOf(c) = p => (Sent(c)' <=> Sent(c))
    PROVE  WaveInv'
<1>1. /\ \A q \in Members : q # p =>
               /\ Started(q)' <=> Started(q)
               /\ Passed(q)' <=> Passed(q)
               /\ Cleaned(q)' <=> Cleaned(q)
               /\ Gathered(q)' <=> Gathered(q)
               /\ Climbed(q)' <=> Climbed(q)
               /\ Awake(q)' <=> Awake(q)
      /\ \A c \in Below : ParentOf(c) # p => (Sent(c)' <=> Sent(c))
  BY OthersStay, Zenon
<1>2. /\ \A q \in Members : Started(q)' <=> Started(q)
      /\ \A q \in Members : Passed(q)' <=> Passed(q)
      /\ \A q \in Members : Cleaned(q)' <=> Cleaned(q)
      /\ \A q \in Members : Gathered(q)' <=> Gathered(q)
      /\ \A q \in Members : Climbed(q)' <=> Climbed(q)
      /\ \A q \in Members : Awake(q)' <=> Awake(q)
      /\ \A c \in Below : Sent(c)' <=> Sent(c)
  BY <1>1, Zenon
<1>3. OrderInv' /\ HeldInv' /\ OffsInv'
  <2>1. \A q \in Members : pc'[q] \in {"forward", "index"} => pc'[q] = pc[q]
    OBVIOUS
  <2>2. UNCHANGED offs /\ \A q \in Members : pSync'[q] = pSync[q]
    OBVIOUS
  <2>3. QED
    BY <1>2, <2>1, <2>2, WaveKept, Zenon
<1>4. \A q \in Members : pSync'[q] \in Nat /\ pSync'[q] <= pSync[q]
  BY DEF WaveInv, WaveTypeOK
<1>5. \A q \in Members : q \in Below /\ Got(q) => Got(q)'
  BY <1>2 DEF Got
<1>6. \A q \in Members : pSync'[q] <= Base(q)' + ByKid(q, 1)' + ByKid(q, 2)' + ByParent(q)'
  BY <1>2, <1>4, <1>5, BoundKept, Zenon
<1>7. CountBound'
  BY <1>6 DEF CountBound
<1>8. PokesInv'
  <2>1. UNCHANGED pokes
    OBVIOUS
  <2>2. QED
    BY <1>2, <2>1, PokesKept, Zenon
<1>9. QED
  BY <1>3, <1>7, <1>8 DEF WaveInv

(* A member calls shmem_collect.                                           *)
LEMMA CallCollectKeeps ==
    ASSUME WaveInv, NEW p \in Members, CallCollect(p)
    PROVE  WaveInv'
<1>1. /\ pc[p] = "out" /\ pc' = [pc EXCEPT ![p] = "init"]
      /\ entered[p] = 0 /\ entered' = [entered EXCEPT ![p] = @ + 1]
      /\ tidx' = [tidx EXCEPT ![p] = -1]
      /\ UNCHANGED <<kind, left, writes, pSync, child, pokes, offs>>
  BY OneCall DEF CallCollect, Goto, WaveInv, WaveTypeOK, CallsTypeOK
<1>2. WaveTypeOK'
  BY <1>1, OneCall, Offsets DEF WaveInv, WaveTypeOK, CallsTypeOK, tree_degree
<1>3. entered'[p] = 1 /\ pc'[p] = "init"
  BY <1>1 DEF WaveInv, WaveTypeOK, CallsTypeOK
<1>4. OneCollect' /\ LoopInv'
  BY <1>1, <1>3 DEF WaveInv, WaveTypeOK, CallsTypeOK, OneCollect, LoopInv
<1>5. SliceInv'
  BY <1>1 DEF WaveInv, WaveTypeOK, CallsTypeOK, SliceInv, Inside
<1>6. LeavesInOrder'
  <2>1. \A q \in Members : tidx'[q] \in {-1, tidx[q]}
    BY <1>1 DEF WaveInv, WaveTypeOK
  <2>2. QED
    BY <2>1 DEF WaveInv, LeavesInOrder
<1>7. \A q \in Members : q # p =>
          pc'[q] = pc[q] /\ entered'[q] = entered[q] /\ child'[q] = child[q]
  BY <1>1 DEF WaveInv, WaveTypeOK, CallsTypeOK
<1>8. /\ Started(p)' <=> Started(p)
      /\ Passed(p)' <=> Passed(p)
      /\ Cleaned(p)' <=> Cleaned(p)
      /\ Gathered(p)' <=> Gathered(p)
      /\ Climbed(p)' <=> Climbed(p)
      /\ Awake(p)' <=> Awake(p)
  BY <1>1, <1>3 DEF Started, Passed, Cleaned, Gathered, Climbed, Awake, Inside, Closing
<1>9. \A c \in Below : ParentOf(c) = p => (Sent(c)' <=> Sent(c))
  BY <1>1, <1>3 DEF Sent, Inside
<1>10. QED
  BY <1>1, <1>2, <1>3, <1>4, <1>5, <1>6, <1>7, <1>8, <1>9, AllKept

(* Taking the place, putting the slice, the flush, and a member with       *)
(* children entering the barrier.                                          *)
LEMMA QuietMoves ==
    ASSUME WaveInv, NEW p \in Members, NEW to,
           \/ pc[p] = "index" /\ to = "send"
           \/ pc[p] = "send" /\ to = "cleanup"
           \/ pc[p] = "quiet" /\ to = "enter"
           \/ pc[p] = "enter" /\ to = "gather",
           pc' = [pc EXCEPT ![p] = to],
           UNCHANGED <<kind, entered, left, pSync, child, pokes, offs>>,
           writes' \in SUBSET [from : Members, ep : 1 .. MaxEpisodes],
           SliceInv', LeavesInOrder',
               tidx' \in [Members -> -1 .. Total + tree_degree + 1]
    PROVE  WaveInv'
<1>1. pc'[p] = to /\ entered[p] = 1 /\ entered'[p] = 1
  BY DEF WaveInv, WaveTypeOK, OneCollect
<1>2. WaveTypeOK'
  BY DEF WaveInv, WaveTypeOK, CallsTypeOK
<1>3. OneCollect' /\ LoopInv'
  BY <1>1 DEF WaveInv, WaveTypeOK, CallsTypeOK, OneCollect, LoopInv
<1>4. \A q \in Members : q # p =>
          pc'[q] = pc[q] /\ entered'[q] = entered[q] /\ child'[q] = child[q]
  BY DEF WaveInv, WaveTypeOK
<1>5. /\ Started(p)' <=> Started(p)
      /\ Passed(p)' <=> Passed(p)
      /\ Cleaned(p)' <=> Cleaned(p)
      /\ Gathered(p)' <=> Gathered(p)
      /\ Climbed(p)' <=> Climbed(p)
      /\ Awake(p)' <=> Awake(p)
  BY <1>1 DEF Started, Passed, Cleaned, Gathered, Climbed, Awake, Inside, Closing
<1>6. \A c \in Below : ParentOf(c) = p => (Sent(c)' <=> Sent(c))
  BY <1>1 DEF Sent, Inside
<1>7. QED
  BY <1>1, <1>2, <1>3, <1>4, <1>5, <1>6, AllKept

(* A member reads its offset: a leaf reads it from an untouched word.      *)
LEMMA ReadIndexKeeps ==
    ASSUME WaveInv, NEW p \in Members, ReadIndex(p)
    PROVE  WaveInv'
<1>1. /\ pc[p] = "index" /\ pc' = [pc EXCEPT ![p] = "send"]
      /\ tidx' = [tidx EXCEPT ![p] = pSync[p]]
      /\ UNCHANGED <<kind, entered, left, writes, pSync, child, pokes, offs>>
  BY DEF ReadIndex, Within, Goto
<1>2. tidx' \in [Members -> -1 .. Total + tree_degree + 1]
  BY <1>1, CountsAreSmall, Offsets DEF WaveInv, WaveTypeOK, tree_degree
<1>3. SliceInv'
  BY <1>1 DEF WaveInv, WaveTypeOK, CallsTypeOK, SliceInv, Inside
<1>4. LeavesInOrder'
  <2>1. ChildrenOf(p) = {} => pSync[p] = OffsetOf(p)
    BY <1>1 DEF WaveInv, HeldInv
  <2>2. \A q \in Members : tidx'[q] = IF q = p THEN pSync[p] ELSE tidx[q]
    BY <1>1 DEF WaveInv, WaveTypeOK
  <2>3. QED
    BY <2>1, <2>2 DEF WaveInv, LeavesInOrder
<1>5. QED
  BY <1>1, <1>2, <1>3, <1>4, QuietMoves DEF WaveInv, WaveTypeOK, CallsTypeOK

(* A member puts its slice to everybody.                                   *)
LEMMA SendSliceKeeps ==
    ASSUME WaveInv, NEW p \in Members, SendSlice(p)
    PROVE  WaveInv'
<1>1. /\ pc[p] = "send" /\ pc' = [pc EXCEPT ![p] = "cleanup"]
      /\ writes' = writes \union {[from |-> p, ep |-> entered[p]]}
      /\ UNCHANGED <<kind, entered, left, pSync, child, pokes, offs, tidx>>
  BY DEF SendSlice, Goto
<1>2. entered[p] = 1
  BY <1>1 DEF WaveInv, OneCollect
<1>3. writes' \in SUBSET [from : Members, ep : 1 .. MaxEpisodes]
  BY <1>1, <1>2, OneCall DEF WaveInv, WaveTypeOK, CallsTypeOK
<1>4. SliceInv'
  <2>1. \A q \in Members : pc'[q] = IF q = p THEN "cleanup" ELSE pc[q]
    BY <1>1 DEF WaveInv, WaveTypeOK
  <2>2. ASSUME NEW w \in writes'
        PROVE  w.ep = 1 /\ Inside(w.from, {"cleanup", "quiet"})'
    <3>1. CASE w \in writes
      BY <1>1, <2>1, <3>1 DEF WaveInv, WaveTypeOK, CallsTypeOK, SliceInv, Inside
    <3>2. CASE w = [from |-> p, ep |-> entered[p]]
      BY <1>1, <1>2, <2>1, <3>2 DEF Inside
    <3>3. QED
      BY <1>1, <3>1, <3>2
  <2>3. QED
    BY <2>2 DEF SliceInv
<1>5. QED
  BY <1>1, <1>3, <1>4, QuietMoves DEF WaveInv, WaveTypeOK, LeavesInOrder

(* The closing barrier has flushed the slice and the offset.               *)
LEMMA QuietSlicesKeeps ==
    ASSUME WaveInv, NEW p \in Members, QuietSlices(p)
    PROVE  WaveInv'
<1>1. /\ pc[p] = "quiet" /\ pc' = [pc EXCEPT ![p] = "enter"]
      /\ kind[entered[p]] = "barrier" => \A w \in writes : w.from # p
      /\ UNCHANGED <<kind, entered, left, writes, pSync, child, pokes, offs, tidx>>
  BY DEF QuietSlices, Quiet, Goto
<1>2. entered[p] = 1 /\ kind[1] = "barrier"
  BY <1>1, OneCall DEF WaveInv, OneCollect, LoopInv
<1>3. SliceInv'
  BY <1>1, <1>2 DEF WaveInv, WaveTypeOK, CallsTypeOK, SliceInv, Inside
<1>4. QED
  BY <1>1, <1>3, QuietMoves DEF WaveInv, WaveTypeOK, CallsTypeOK, LeavesInOrder

(* The steps of the wave and of the barrier that stay in the call.         *)
LEMMA FrameKept ==
    ASSUME WaveInv, NEW p \in Members,
           NEW to \in {"forward", "index", "quiet", "up", "down", "clear", "poke"},
           pc[p] # "out", pc' = [pc EXCEPT ![p] = to],
           pc[p] \in {"cleanup", "quiet"} => to = "quiet",
           p = Root => to \notin {"up", "down"},
           UNCHANGED <<kind, entered, left, writes, tidx>>,
           pSync' \in [Members -> Nat], child' \in [Members -> -1 .. size],
           \A q \in Members : q # p => child'[q] = child[q],
           to = "poke" => child'[p] \in childrenBegin(Index(p)) .. childrenEnd(Index(p)),
           pokes' \in SUBSET Members, offs' \in SUBSET [to : Members, val : 0 .. Total]
    PROVE  WaveTypeOK' /\ OneCollect' /\ LoopInv' /\ SliceInv' /\ LeavesInOrder'
<1>1. \A q \in Members : pc'[q] = IF q = p THEN to ELSE pc[q]
  BY DEF WaveInv, WaveTypeOK
<1>2. WaveTypeOK'
  BY DEF WaveInv, WaveTypeOK, CallsTypeOK
<1>3. OneCollect'
  BY <1>1 DEF WaveInv, OneCollect
<1>4. LoopInv'
  <2>1. /\ kind' = [e \in 1 .. MaxEpisodes |-> "barrier"]
        /\ pc'[Root] \notin {"up", "down"}
    BY <1>1, ActiveSet DEF WaveInv, LoopInv
  <2>2. ASSUME NEW q \in Members, pc'[q] = "poke"
        PROVE  child'[q] \in childrenBegin(Index(q)) .. childrenEnd(Index(q))
    BY <1>1, <2>2 DEF WaveInv, LoopInv
  <2>3. QED
    BY <2>1, <2>2 DEF LoopInv
<1>5. SliceInv'
  BY <1>1 DEF WaveInv, SliceInv, Inside, WaveTypeOK, CallsTypeOK
<1>6. LeavesInOrder'
  BY DEF WaveInv, LeavesInOrder
<1>7. QED
  BY <1>2, <1>3, <1>4, <1>5, <1>6

(* A member learns where its slice goes.                                   *)
LEMMA StartKeeps ==
    ASSUME WaveInv, NEW p \in Members,
           pc[p] = "init", pc' = [pc EXCEPT ![p] = "forward"],
           UNCHANGED <<kind, entered, left, writes, pSync, child, pokes, offs, tidx>>,
           pSync[p] = OffsetOf(p), p # Root => Passed(LeftOf(p)),
               \A o \in offs : o.to # p
    PROVE  WaveInv'
<1>1. WaveTypeOK' /\ OneCollect' /\ LoopInv' /\ SliceInv' /\ LeavesInOrder'
  BY FrameKept DEF WaveInv, WaveTypeOK
<1>2. \A q \in Members : q # p =>
          pc'[q] = pc[q] /\ entered'[q] = entered[q] /\ child'[q] = child[q]
  BY DEF WaveInv, WaveTypeOK
<1>3. /\ ~Started(p) /\ ~Passed(p) /\ ~Cleaned(p) /\ ~Gathered(p) /\ ~Climbed(p)
      /\ ~Awake(p)
      /\ ~Passed(p)' /\ ~Cleaned(p)' /\ ~Gathered(p)' /\ ~Climbed(p)' /\ ~Awake(p)'
      /\ pc'[p] = "forward"
  BY DEF Started, Passed, Cleaned, Gathered, Climbed, Awake, Inside, Closing, WaveInv,
     WaveTypeOK
<1>4. \A c \in Below : ParentOf(c) = p => (Sent(c)' <=> Sent(c))
  BY <1>3 DEF Sent, Inside
<1>5. /\ \A q \in Members : q # p => (Started(q)' <=> Started(q))
      /\ \A q \in Members : Passed(q)' <=> Passed(q)
      /\ \A q \in Members : Cleaned(q)' <=> Cleaned(q)
      /\ \A q \in Members : Gathered(q)' <=> Gathered(q)
      /\ \A q \in Members : Climbed(q)' <=> Climbed(q)
      /\ \A q \in Members : Awake(q)' <=> Awake(q)
      /\ \A c \in Below : Sent(c)' <=> Sent(c)
  <2>1. /\ \A q \in Members : q # p =>
               /\ Started(q)' <=> Started(q)
               /\ Passed(q)' <=> Passed(q)
               /\ Cleaned(q)' <=> Cleaned(q)
               /\ Gathered(q)' <=> Gathered(q)
               /\ Climbed(q)' <=> Climbed(q)
               /\ Awake(q)' <=> Awake(q)
        /\ \A c \in Below : ParentOf(c) # p => (Sent(c)' <=> Sent(c))
    BY <1>2, OthersStay, Zenon
  <2>2. QED
    BY <1>3, <1>4, <2>1, Zenon
<1>6. OrderInv'
  <2> SUFFICES ASSUME NEW a \in Members, NEW b \in Members, a < b, Started(b)'
               PROVE  Passed(a)
    BY <1>5 DEF OrderInv
  <2>1. CASE b # p
    BY <1>5, <2>1 DEF WaveInv, OrderInv
  <2>2. CASE b = p
    <3>1. a \in Nat /\ p \in Nat /\ Root \in Nat /\ Root <= a
      BY InARow
    <3>2. p # Root
      BY <2>2, <3>1
    <3>3. p \in Below /\ LeftOf(p) \in Members /\ a <= LeftOf(p)
      BY <2>2, <3>2, InARow DEF Below
    <3>4. Passed(LeftOf(p)) /\ Started(LeftOf(p))
      BY <3>2 DEF Passed, Started, Inside
    <3>5. a = LeftOf(p) \/ a < LeftOf(p)
      <4>1. LeftOf(p) \in Nat
        BY <3>3, InARow
      <4>2. QED
        BY <3>1, <3>3, <4>1
    <3>6. QED
      BY <3>3, <3>4, <3>5 DEF WaveInv, OrderInv
  <2>3. QED
    BY <2>1, <2>2
<1>7. HeldInv'
  <2> SUFFICES ASSUME NEW q \in Members
               PROVE  /\ ~Started(q)' =>
                            \/ pSync'[q] = 0
                            \/ /\ q # Root /\ pSync'[q] = OffsetOf(q)
                                /\ Passed(LeftOf(q))'
                               /\ \A o \in offs' : o.to # q
                      /\ pc'[q] = "forward" => pSync'[q] = OffsetOf(q)
                      /\ ChildrenOf(q) = {} /\ pc'[q] = "index"
                          => pSync'[q] = OffsetOf(q)
    BY DEF HeldInv
  <2>1. /\ ~Started(q) =>
              \/ pSync[q] = 0
              \/ /\ q # Root /\ pSync[q] = OffsetOf(q) /\ Passed(LeftOf(q))
                 /\ \A o \in offs : o.to # q
        /\ pc[q] = "forward" => pSync[q] = OffsetOf(q)
        /\ ChildrenOf(q) = {} /\ pc[q] = "index" => pSync[q] = OffsetOf(q)
    BY DEF WaveInv, HeldInv
  <2>2. CASE q = p
    <3>1. Started(p)'
      BY <1>1, <1>3 DEF Started, Inside, OneCollect
    <3>2. QED
      BY <1>3, <2>2, <3>1
  <2>3. CASE q # p
    <3>1. Started(q)' <=> Started(q)
      BY <1>5, <2>3
    <3>2. q # Root => (Passed(LeftOf(q))' <=> Passed(LeftOf(q)))
      BY <1>5, InARow DEF Below
    <3>3. pc'[q] = pc[q]
      BY <1>2, <2>3
    <3>4. QED
      BY <2>1, <3>1, <3>2, <3>3
  <2>4. QED
    BY <2>2, <2>3
<1>8. OffsInv'
  <2> SUFFICES ASSUME NEW o \in offs
               PROVE  /\ o.val = OffsetOf(o.to) /\ o.to # Root
                      /\ ~Started(o.to)' /\ Passed(LeftOf(o.to))' /\ pSync'[o.to] = 0
    BY DEF OffsInv
  <2>1. /\ o.val = OffsetOf(o.to) /\ o.to # Root
        /\ ~Started(o.to) /\ Passed(LeftOf(o.to)) /\ pSync[o.to] = 0
    BY DEF WaveInv, OffsInv
  <2>2. o.to \in Members /\ o.to # p
    BY DEF WaveInv, WaveTypeOK
  <2>3. LeftOf(o.to) \in Members
    BY <2>1, <2>2, InARow DEF Below
  <2>4. QED
    BY <1>5, <2>1, <2>2, <2>3
<1>9. CountBound'
  <2>1. \A q \in Members : pSync'[q] \in Nat /\ pSync'[q] <= pSync[q]
    BY DEF WaveInv, WaveTypeOK
  <2>2. \A q \in Members : q \in Below /\ Got(q) => Got(q)'
    BY <1>5 DEF Got
  <2>3. \A q \in Members : pSync'[q] <= Base(q)' + ByKid(q, 1)' + ByKid(q, 2)' + ByParent(q)'
    BY <1>5, <2>1, <2>2, BoundKept, Zenon
  <2>4. QED
    BY <2>3 DEF CountBound
<1>10. PokesInv'
  <2>1. UNCHANGED pokes
    OBVIOUS
  <2>2. QED
    BY <1>5, <2>1, PokesKept, Zenon
<1>11. QED
  BY <1>1, <1>6, <1>7, <1>8, <1>9, <1>10 DEF WaveInv

(* The left-most member starts at 0.                                       *)
LEMMA InitLeftMostKeeps ==
    ASSUME WaveInv, NEW p \in Members, InitLeftMost(p)
    PROVE  WaveInv'
<1>1. /\ p = Root /\ pc[p] = "init" /\ pc' = [pc EXCEPT ![p] = "forward"]
      /\ pSync' = [pSync EXCEPT ![p] = 0]
      /\ UNCHANGED <<kind, entered, left, writes, child, pokes, offs, tidx>>
  BY DEF InitLeftMost, Within, Goto, Root
<1>2. pSync[p] = 0
  BY <1>1 DEF WaveInv, HeldInv, Started, Inside, Closing
<1>3. pSync' = pSync
  BY <1>1, <1>2 DEF WaveInv, WaveTypeOK
<1>4. pSync[p] = OffsetOf(p)
  BY <1>1, <1>2, Offsets
<1>5. \A o \in offs : o.to # p
  BY <1>1 DEF WaveInv, OffsInv
<1>6. QED
  BY <1>1, <1>3, <1>4, <1>5, StartKeeps

(* A member sees the offset its left neighbour has put.                    *)
LEMMA WaitOffsetKeeps ==
    ASSUME WaveInv, NEW p \in Members, WaitOffset(p)
    PROVE  WaveInv'
<1>1. /\ p # Root /\ pSync[p] # 0 /\ pc[p] = "init"
      /\ pc' = [pc EXCEPT ![p] = "forward"]
      /\ UNCHANGED <<kind, entered, left, writes, pSync, child, pokes, offs, tidx>>
  BY DEF WaitOffset, Within, Goto, Root, SHMEM_SYNC_VALUE
<1>2. ~Started(p)
  BY <1>1 DEF Started, Inside, Closing
<1>3. pSync[p] = OffsetOf(p) /\ Passed(LeftOf(p)) /\ \A o \in offs : o.to # p
  BY <1>1, <1>2 DEF WaveInv, HeldInv
<1>4. QED
  BY <1>1, <1>3, StartKeeps

(* A member passes the wave on to its right neighbour.                     *)
LEMMA ForwardOffsetKeeps ==
    ASSUME WaveInv, NEW p \in Members, ForwardOffset(p)
    PROVE  WaveInv'
<1> DEFINE r == p + stride
           o1 == [to |-> r, val |-> OffsetOf(r)]
<1>1. /\ pc[p] = "forward" /\ pc' = [pc EXCEPT ![p] = "index"]
      /\ offs' = IF p < last_pe THEN offs \union {[to |-> r, val |-> pSync[p] + nelems[p]]} ELSE offs
      /\ UNCHANGED <<kind, entered, left, writes, pSync, child, pokes, tidx>>
  BY DEF ForwardOffset, Within, Goto
<1>2. pSync[p] = OffsetOf(p) /\ ~Passed(p) /\ entered[p] = 1
  BY <1>1 DEF WaveInv, HeldInv, Passed, Inside, Closing, OneCollect
<1>3. p < last_pe => /\ r \in Members /\ r \in Below /\ LeftOf(r) = p /\ p < r
                     /\ OffsetOf(r) = OffsetOf(p) + nelems[p]
                         /\ OffsetOf(r) \in 0 .. Total
  <2>1. p < last_pe => r \in Members /\ r # Root /\ LeftOf(r) = p
    BY InARow
  <2>2. p < last_pe => p < r
    BY <2>1, InARow DEF Below
  <2>3. p < last_pe => OffsetOf(r) = OffsetOf(p) + nelems[p]
    BY Offsets
  <2>4. p < last_pe => OffsetOf(r) \in Nat /\ nelems[r] \in Nat
      /\ OffsetOf(r) + nelems[r] <= Total
    BY <2>1, Offsets
  <2>5. p < last_pe => OffsetOf(r) \in 0 .. Total
    BY <2>4, Offsets
  <2>6. QED
    BY <2>1, <2>2, <2>3, <2>5 DEF Below
<1> HIDE DEF r
<1>4. offs' = IF p < last_pe THEN offs \union {o1} ELSE offs
  BY <1>1, <1>2, <1>3
<1>5. p < last_pe => ~Started(r) /\ pSync[r] = 0
  <2>1. p < last_pe => ~Started(r)
    BY <1>2, <1>3 DEF WaveInv, OrderInv
  <2>2. QED
    BY <1>2, <1>3, <2>1 DEF WaveInv, HeldInv
<1>6. offs' \in SUBSET [to : Members, val : 0 .. Total]
  BY <1>3, <1>4 DEF WaveInv, WaveTypeOK
<1>7. WaveTypeOK' /\ OneCollect' /\ LoopInv' /\ SliceInv' /\ LeavesInOrder'
  BY <1>1, <1>6, FrameKept DEF WaveInv, WaveTypeOK
<1>8. \A q \in Members : q # p =>
          pc'[q] = pc[q] /\ entered'[q] = entered[q] /\ child'[q] = child[q]
  BY <1>1 DEF WaveInv, WaveTypeOK
<1>9. pc'[p] = "index" /\ entered'[p] = 1
  BY <1>1, <1>2 DEF WaveInv, WaveTypeOK
<1>10. /\ Started(p) /\ ~Cleaned(p) /\ ~Gathered(p) /\ ~Climbed(p) /\ ~Awake(p)
       /\ Started(p)' /\ Passed(p)' /\ ~Cleaned(p)' /\ ~Gathered(p)' /\ ~Climbed(p)'
           /\ ~Awake(p)'
  BY <1>1, <1>2, <1>9 DEF Started, Passed, Cleaned, Gathered, Climbed, Awake, Inside,
     Closing
<1>11. \A c \in Below : ParentOf(c) = p => (Sent(c)' <=> Sent(c))
  BY <1>1, <1>9 DEF Sent, Inside
<1>12. /\ \A q \in Members : Started(q)' <=> Started(q)
       /\ \A q \in Members : q # p => (Passed(q)' <=> Passed(q))
       /\ \A q \in Members : Cleaned(q)' <=> Cleaned(q)
       /\ \A q \in Members : Gathered(q)' <=> Gathered(q)
       /\ \A q \in Members : Climbed(q)' <=> Climbed(q)
       /\ \A q \in Members : Awake(q)' <=> Awake(q)
       /\ \A c \in Below : Sent(c)' <=> Sent(c)
  <2>1. /\ \A q \in Members : q # p =>
               /\ Started(q)' <=> Started(q)
               /\ Passed(q)' <=> Passed(q)
               /\ Cleaned(q)' <=> Cleaned(q)
               /\ Gathered(q)' <=> Gathered(q)
               /\ Climbed(q)' <=> Climbed(q)
               /\ Awake(q)' <=> Awake(q)
        /\ \A c \in Below : ParentOf(c) # p => (Sent(c)' <=> Sent(c))
    BY <1>8, OthersStay, Zenon
  <2>2. QED
    BY <1>10, <1>11, <2>1, Zenon
<1>13. \A q \in Members : Passed(q) => Passed(q)'
  BY <1>10, <1>12
<1>14. OrderInv'
  BY <1>12, <1>13 DEF WaveInv, OrderInv
<1>15. HeldInv'
  <2> SUFFICES ASSUME NEW q \in Members
               PROVE  /\ ~Started(q)' =>
                            \/ pSync'[q] = 0
                            \/ /\ q # Root /\ pSync'[q] = OffsetOf(q)
                                /\ Passed(LeftOf(q))'
                               /\ \A o \in offs' : o.to # q
                      /\ pc'[q] = "forward" => pSync'[q] = OffsetOf(q)
                      /\ ChildrenOf(q) = {} /\ pc'[q] = "index"
                          => pSync'[q] = OffsetOf(q)
    BY DEF HeldInv
  <2>1. /\ ~Started(q) =>
              \/ pSync[q] = 0
              \/ /\ q # Root /\ pSync[q] = OffsetOf(q) /\ Passed(LeftOf(q))
                 /\ \A o \in offs : o.to # q
        /\ pc[q] = "forward" => pSync[q] = OffsetOf(q)
        /\ ChildrenOf(q) = {} /\ pc[q] = "index" => pSync[q] = OffsetOf(q)
    BY DEF WaveInv, HeldInv
  <2>2. ~Started(q)' /\ pSync[q] # 0 =>
           q # Root /\ pSync[q] = OffsetOf(q) /\ Passed(LeftOf(q))'
               /\ \A o \in offs' : o.to # q
    <3> SUFFICES ASSUME ~Started(q)', pSync[q] # 0
                 PROVE  q # Root /\ pSync[q] = OffsetOf(q) /\ Passed(LeftOf(q))'
                     /\ \A o \in offs' : o.to # q
      OBVIOUS
    <3>1. q # Root /\ pSync[q] = OffsetOf(q) /\ Passed(LeftOf(q))
        /\ \A o \in offs : o.to # q
      BY <1>12, <2>1
    <3>2. LeftOf(q) \in Members
      BY <3>1, InARow DEF Below
    <3>3. p < last_pe => q # r
      BY <1>5
    <3>4. \A o \in offs' : o.to # q
      BY <1>4, <3>1, <3>3
    <3>5. QED
      BY <1>13, <3>1, <3>2, <3>4
  <2>3. pSync'[q] = pSync[q]
    BY <1>1
  <2>4. pc'[q] = "forward" => pSync[q] = OffsetOf(q)
    BY <1>8, <1>9, <2>1
  <2>5. ChildrenOf(q) = {} /\ pc'[q] = "index" => pSync[q] = OffsetOf(q)
    BY <1>2, <1>8, <2>1
  <2>6. QED
    BY <2>2, <2>3, <2>4, <2>5
<1>16. OffsInv'
  <2> SUFFICES ASSUME NEW o \in offs'
               PROVE  /\ o.val = OffsetOf(o.to) /\ o.to # Root
                      /\ ~Started(o.to)' /\ Passed(LeftOf(o.to))' /\ pSync'[o.to] = 0
    BY DEF OffsInv
  <2>1. CASE o \in offs
    <3>1. /\ o.val = OffsetOf(o.to) /\ o.to # Root
          /\ ~Started(o.to) /\ Passed(LeftOf(o.to)) /\ pSync[o.to] = 0
      BY <2>1 DEF WaveInv, OffsInv
    <3>2. o.to \in Members
      BY <2>1 DEF WaveInv, WaveTypeOK
    <3>3. LeftOf(o.to) \in Members
      BY <3>1, <3>2, InARow DEF Below
    <3>4. QED
      BY <1>1, <1>12, <1>13, <3>1, <3>2, <3>3
  <2>2. CASE p < last_pe /\ o = o1
    <3>1. o.to = r /\ o.val = OffsetOf(r)
      BY <2>2
    <3>2. r # Root /\ ~Started(r)' /\ Passed(LeftOf(r))' /\ pSync'[r] = 0
      BY <1>1, <1>3, <1>5, <1>10, <1>12, <2>2 DEF Below
    <3>3. QED
      BY <3>1, <3>2
  <2>3. QED
    BY <1>4, <2>1, <2>2
<1>17. CountBound'
  <2>1. \A q \in Members : pSync'[q] \in Nat /\ pSync'[q] <= pSync[q]
    BY <1>1 DEF WaveInv, WaveTypeOK
  <2>2. \A q \in Members : q \in Below /\ Got(q) => Got(q)'
    BY <1>1, <1>12 DEF Got
  <2>3. \A q \in Members : pSync'[q] <= Base(q)' + ByKid(q, 1)' + ByKid(q, 2)' + ByParent(q)'
    BY <1>12, <2>1, <2>2, BoundKept, Zenon
  <2>4. QED
    BY <2>3 DEF CountBound
<1>18. PokesInv'
  <2>1. UNCHANGED pokes
    BY <1>1
  <2>2. QED
    BY <1>12, <2>1, PokesKept, Zenon
<1>19. QED
  BY <1>7, <1>14, <1>15, <1>16, <1>17, <1>18 DEF WaveInv

(* The barrier: what a step of p does to the counts of the others, when it *)
(* moves p on behind the wave and leaves their words and pokes alone.      *)
LEMMA BehindWave ==
    ASSUME WaveInv, NEW p \in Members, UNCHANGED offs,
           \A q \in Members : q # p =>
               pc'[q] = pc[q] /\ entered'[q] = entered[q] /\ child'[q] = child[q],
           Passed(p), pc[p] # "index", Started(p)', Passed(p)',
               pc'[p] \notin {"forward", "index"},
           \A q \in Members : q # p => pSync'[q] = pSync[q]
    PROVE  OrderInv' /\ HeldInv' /\ OffsInv'
<1>1. Started(p) /\ pc[p] # "forward"
  BY DEF Started, Passed, Inside, Closing
<1>2. \A q \in Members : q # p =>
               /\ Started(q)' <=> Started(q)
               /\ Passed(q)' <=> Passed(q)
               /\ Cleaned(q)' <=> Cleaned(q)
               /\ Gathered(q)' <=> Gathered(q)
               /\ Climbed(q)' <=> Climbed(q)
               /\ Awake(q)' <=> Awake(q)
  BY OthersStay, Zenon
<1>3. /\ \A q \in Members : Started(q)' <=> Started(q)
      /\ \A q \in Members : Passed(q)' <=> Passed(q)
  BY <1>1, <1>2, Zenon
<1>4. \A q \in Members : pc'[q] \in {"forward", "index"} => pc'[q] = pc[q]
  OBVIOUS
<1>5. \A q \in Members :
          ~Started(q) \/ pc[q] = "forward" \/ (pc[q] = "index" /\ ChildrenOf(q) = {})
             => pSync'[q] = pSync[q]
  BY <1>1
<1>6. QED
  BY <1>3, <1>4, <1>5, WaveKept, Zenon

(* A member clears its word, and whatever pokes are counted in it.         *)
LEMMA CleanUpKeeps ==
    ASSUME WaveInv, NEW p \in Members, CleanUp(p)
    PROVE  WaveInv'
<1>1. /\ pc[p] = "cleanup" /\ pc' = [pc EXCEPT ![p] = "quiet"]
      /\ pSync' = [pSync EXCEPT ![p] = 0]
      /\ UNCHANGED <<kind, entered, left, writes, child, pokes, offs, tidx>>
  BY DEF CleanUp, Within, Goto, SHMEM_SYNC_VALUE
<1>2. WaveTypeOK' /\ OneCollect' /\ LoopInv' /\ SliceInv' /\ LeavesInOrder'
  BY <1>1, FrameKept DEF WaveInv, WaveTypeOK
<1>3. \A q \in Members : q # p =>
          /\ pc'[q] = pc[q] /\ entered'[q] = entered[q] /\ child'[q] = child[q]
          /\ pSync'[q] = pSync[q]
  BY <1>1 DEF WaveInv, WaveTypeOK
<1>4. pc'[p] = "quiet" /\ entered[p] = 1 /\ entered'[p] = 1 /\ pSync'[p] = 0
  BY <1>1 DEF WaveInv, WaveTypeOK, OneCollect
<1>5. /\ Passed(p) /\ ~Gathered(p) /\ ~Climbed(p) /\ ~Awake(p)
      /\ Started(p)' /\ Passed(p)' /\ Cleaned(p)' /\ ~Gathered(p)' /\ ~Climbed(p)'
          /\ ~Awake(p)'
  BY <1>1, <1>4 DEF Started, Passed, Cleaned, Gathered, Climbed, Awake, Inside, Closing
<1>6. OrderInv' /\ HeldInv' /\ OffsInv'
  <2>1. UNCHANGED offs
    BY <1>1
  <2>2. QED
    BY <1>1, <1>3, <1>4, <1>5, <2>1, BehindWave
<1>7. \A c \in Below : ParentOf(c) = p => (Sent(c)' <=> Sent(c))
  BY <1>1, <1>4 DEF Sent, Inside
<1>8. /\ \A q \in Members : q # p => (Cleaned(q)' <=> Cleaned(q))
      /\ \A q \in Members : Gathered(q)' <=> Gathered(q)
      /\ \A q \in Members : Climbed(q)' <=> Climbed(q)
      /\ \A q \in Members : Awake(q)' <=> Awake(q)
      /\ \A c \in Below : Sent(c)' <=> Sent(c)
  <2>1. /\ \A q \in Members : q # p =>
               /\ Started(q)' <=> Started(q)
               /\ Passed(q)' <=> Passed(q)
               /\ Cleaned(q)' <=> Cleaned(q)
               /\ Gathered(q)' <=> Gathered(q)
               /\ Climbed(q)' <=> Climbed(q)
               /\ Awake(q)' <=> Awake(q)
        /\ \A c \in Below : ParentOf(c) # p => (Sent(c)' <=> Sent(c))
    BY <1>3, OthersStay, Zenon
  <2>2. QED
    BY <1>5, <1>7, <2>1, Zenon
<1>9. CountBound'
  <2>1. ASSUME NEW q \in Members
        PROVE  pSync'[q] <= Base(q)' + ByKid(q, 1)' + ByKid(q, 2)' + ByParent(q)'
    <3>1. CASE q = p
      <4>1. Base(p)' = 0
        BY <1>5 DEF Base
      <4>2. ByKid(p, 1)' \in 0 .. 1 /\ ByKid(p, 2)' \in 0 .. 1
          /\ ByParent(p)' \in 0 .. 1
        BY DEF ByKid, ByParent, One
      <4>3. QED
        BY <1>4, <3>1, <4>1, <4>2
    <3>2. CASE q # p
      <4>1. pSync'[q] \in Nat /\ pSync'[q] <= pSync[q]
        BY <1>3, <3>2 DEF WaveInv, WaveTypeOK
      <4>2. q \in Below /\ Got(q) => Got(q)'
        BY <1>1, <1>8 DEF Got
      <4>3. QED
        BY <1>8, <3>2, <4>1, <4>2, BoundKept, Zenon
    <3>3. QED
      BY <3>1, <3>2
  <2>2. QED
    BY <2>1 DEF CountBound
<1>10. PokesInv'
  <2>1. UNCHANGED pokes
    BY <1>1
  <2>2. QED
    BY <1>8, <2>1, PokesKept, Zenon
<1>11. QED
  BY <1>2, <1>6, <1>9, <1>10 DEF WaveInv

(* A step of p within the barrier, and what remains to be shown of it.     *)
LEMMA ClosingStep ==
    ASSUME WaveInv, NEW p \in Members, NEW to \in {"up", "down", "clear", "poke"},
           pc[p] \in {"enter", "gather", "up", "down", "clear", "poke"},
           pc' = [pc EXCEPT ![p] = to], p = Root => to \notin {"up", "down"},
           UNCHANGED <<kind, entered, left, writes, tidx, offs>>,
           pSync' \in [Members -> Nat], child' \in [Members -> -1 .. size],
           \A q \in Members : q # p => child'[q] = child[q],
           to = "poke" => child'[p] \in childrenBegin(Index(p)) .. childrenEnd(Index(p)),
           pokes' \in SUBSET Members,
           \A q \in Members : q = p \/ pSync'[q] = pSync[q] \/ (Passed(q) /\ ChildrenOf(q) # {})
    PROVE  /\ WaveTypeOK' /\ OneCollect' /\ LoopInv' /\ SliceInv' /\ LeavesInOrder'
           /\ OrderInv' /\ HeldInv' /\ OffsInv'
           /\ \A q \in Members : Cleaned(q)' <=> Cleaned(q)
           /\ \A q \in Members : q # p =>
                 /\ Gathered(q)' <=> Gathered(q)
                 /\ Climbed(q)' <=> Climbed(q)
                 /\ Awake(q)' <=> Awake(q)
           /\ \A c \in Below : ParentOf(c) # p => (Sent(c)' <=> Sent(c))
           /\ Cleaned(p) /\ Cleaned(p)' /\ Gathered(p)' /\ pc'[p] = to
           /\ entered[p] = 1 /\ entered'[p] = 1
           /\ Climbed(p)' <=> to # "up"
           /\ Awake(p)' <=> to \in {"clear", "poke"}
           /\ Gathered(p) <=> pc[p] \notin {"enter", "gather"}
           /\ Climbed(p) <=> pc[p] \notin {"enter", "gather", "up"}
           /\ Awake(p) <=> pc[p] \in {"clear", "poke"}
<1>1. WaveTypeOK' /\ OneCollect' /\ LoopInv' /\ SliceInv' /\ LeavesInOrder'
  <2>1. offs' \in SUBSET [to : Members, val : 0 .. Total]
    BY DEF WaveInv, WaveTypeOK
  <2>2. QED
    BY <2>1, FrameKept
<1>2. \A q \in Members : q # p =>
          pc'[q] = pc[q] /\ entered'[q] = entered[q] /\ child'[q] = child[q]
  BY DEF WaveInv, WaveTypeOK
<1>3. pc'[p] = to /\ entered[p] = 1 /\ entered'[p] = 1
  BY DEF WaveInv, WaveTypeOK, OneCollect
<1>4. /\ Started(p) /\ Passed(p) /\ Cleaned(p)
      /\ Started(p)' /\ Passed(p)' /\ Cleaned(p)' /\ Gathered(p)'
      /\ Climbed(p)' <=> to # "up"
      /\ Awake(p)' <=> to \in {"clear", "poke"}
      /\ Gathered(p) <=> pc[p] \notin {"enter", "gather"}
      /\ Climbed(p) <=> pc[p] \notin {"enter", "gather", "up"}
      /\ Awake(p) <=> pc[p] \in {"clear", "poke"}
  BY <1>3 DEF Started, Passed, Cleaned, Gathered, Climbed, Awake, Inside, Closing
<1>5. /\ \A q \in Members : q # p =>
             /\ Started(q)' <=> Started(q)
             /\ Passed(q)' <=> Passed(q)
             /\ Cleaned(q)' <=> Cleaned(q)
             /\ Gathered(q)' <=> Gathered(q)
             /\ Climbed(q)' <=> Climbed(q)
             /\ Awake(q)' <=> Awake(q)
      /\ \A c \in Below : ParentOf(c) # p => (Sent(c)' <=> Sent(c))
  BY <1>2, OthersStay, Zenon
<1>6. OrderInv' /\ HeldInv' /\ OffsInv'
  <2>1. /\ \A q \in Members : Started(q)' <=> Started(q)
        /\ \A q \in Members : Passed(q)' <=> Passed(q)
    BY <1>4, <1>5, Zenon
  <2>2. \A q \in Members : pc'[q] \in {"forward", "index"} => pc'[q] = pc[q]
    BY <1>2, <1>3
  <2>3. \A q \in Members : Passed(q) => Started(q) /\ pc[q] # "forward"
    BY DEF Started, Passed, Inside, Closing
  <2>4. \A q \in Members :
            ~Started(q) \/ pc[q] = "forward" \/ (pc[q] = "index" /\ ChildrenOf(q) = {})
               => pSync'[q] = pSync[q]
    BY <1>4, <2>3
  <2>5. UNCHANGED offs
    OBVIOUS
  <2>6. QED
    BY <2>1, <2>2, <2>4, <2>5, WaveKept, Zenon
<1>7. QED
  BY <1>1, <1>3, <1>4, <1>5, <1>6

(* All the children of a member have poked it.                             *)
LEMMA ArriveKeeps ==
    ASSUME WaveInv, NEW p \in Members, pc[p] \in {"enter", "gather"},
           \A c \in Below : ParentOf(c) = p => Climbed(c),
           pc' = [pc EXCEPT ![p] = IF p # Root THEN "up" ELSE "clear"],
           UNCHANGED <<kind, entered, left, writes, pSync, child, pokes, offs, tidx>>
    PROVE  WaveInv'
<1> DEFINE to == IF p # Root THEN "up" ELSE "clear"
<1>1. /\ WaveTypeOK' /\ OneCollect' /\ LoopInv' /\ SliceInv' /\ LeavesInOrder'
      /\ OrderInv' /\ HeldInv' /\ OffsInv'
      /\ \A q \in Members : Cleaned(q)' <=> Cleaned(q)
      /\ \A q \in Members : q # p =>
            /\ Gathered(q)' <=> Gathered(q)
            /\ Climbed(q)' <=> Climbed(q)
            /\ Awake(q)' <=> Awake(q)
      /\ \A c \in Below : ParentOf(c) # p => (Sent(c)' <=> Sent(c))
      /\ pc'[p] = to /\ ~Climbed(p) /\ ~Awake(p)
      /\ Awake(p)' <=> to \in {"clear", "poke"}
  <2>1. /\ to \in {"up", "down", "clear", "poke"} /\ pc' = [pc EXCEPT ![p] = to]
        /\ p = Root => to \notin {"up", "down"}
        /\ to # "poke"
    OBVIOUS
  <2>2. pSync' \in [Members -> Nat] /\ child' \in [Members -> -1 .. size]
      /\ pokes' \in SUBSET Members
    BY DEF WaveInv, WaveTypeOK
  <2> HIDE DEF to
  <2>3. QED
    BY <2>1, <2>2, ClosingStep
<1>2. \A c \in Below : ParentOf(c) = p => (Sent(c)' <=> Sent(c))
  BY <1>1 DEF Sent, Inside
<1>3. \A c \in Below : (Sent(c)' <=> Sent(c)) /\ c \in Members
    /\ ParentOf(c) \in Members
  BY <1>1, <1>2, ActiveSet, ParentIs
<1>4. CountBound'
  <2>1. \A q \in Members : pSync'[q] \in Nat /\ pSync'[q] <= pSync[q]
    BY DEF WaveInv, WaveTypeOK
  <2>2. \A q \in Members : q \in Below /\ Got(q) => Got(q)'
    BY <1>3 DEF Got
  <2>3. \A q \in Members : Climbed(q) => Climbed(q)'
    BY <1>1
  <2>4. \A q \in Members : pSync'[q] <= Base(q)' + ByKid(q, 1)' + ByKid(q, 2)' + ByParent(q)'
    BY <1>1, <2>1, <2>2, <2>3, BoundKept, Zenon
  <2>5. QED
    BY <2>4 DEF CountBound
<1>5. PokesInv'
  <2>1. \A q \in pokes' : q # Root /\ Sent(q)'
    BY <1>3 DEF WaveInv, PokesInv, WaveTypeOK, Below
  <2>2. ASSUME NEW c \in Below, Gathered(ParentOf(c))'
        PROVE  Climbed(c)'
    <3>1. Climbed(c)
      BY <1>1, <1>3, <2>2 DEF WaveInv, PokesInv
    <3>2. QED
      BY <1>1, <1>3, <3>1
  <2>3. \A c \in Below : Awake(c)' => Sent(c)'
    BY <1>1, <1>3 DEF WaveInv, PokesInv, Below
  <2>4. QED
    BY <2>1, <2>2, <2>3 DEF PokesInv
<1>6. QED
  BY <1>1, <1>4, <1>5 DEF WaveInv

(* A count no smaller than the number of children: unless the parent's     *)
(* poke is in it, all the children have poked.                             *)
LEMMA CountTells ==
    ASSUME WaveInv, NEW p \in Members, Cleaned(p)
    PROVE  /\ pSync[p] <= npokes(p) + ByParent(p)
           /\ pSync[p] = npokes(p) /\ ByParent(p) = 0 =>
                 \A c \in Below : ParentOf(c) = p => Climbed(c)
<1>1. pSync[p] <= ByKid(p, 1) + ByKid(p, 2) + ByParent(p)
  BY CountsAreSmall DEF WaveInv, CountBound, Base
<1>2. npokes(p) = (IF HasKid(p, 1) THEN 1 ELSE 0) + (IF HasKid(p, 2) THEN 1 ELSE 0)
  BY ChildRange
<1>3. /\ ByKid(p, 1) \in 0 .. (IF HasKid(p, 1) THEN 1 ELSE 0)
      /\ ByKid(p, 2) \in 0 .. (IF HasKid(p, 2) THEN 1 ELSE 0)
      /\ ByParent(p) \in 0 .. 1
  BY DEF ByKid, ByParent, One
<1>4. pSync[p] \in Nat
  BY CountsAreSmall
<1>5. pSync[p] <= npokes(p) + ByParent(p)
  BY <1>1, <1>2, <1>3, <1>4
<1>6. ASSUME pSync[p] = npokes(p), ByParent(p) = 0, NEW c \in Below, ParentOf(c) = p
      PROVE  Climbed(c)
  <2>1. PICK k \in {1, 2} : HasKid(p, k) /\ Kid(p, k) = c
    BY <1>6, ParentIs
  <2>2. /\ HasKid(p, 1) => ByKid(p, 1) = 1
        /\ HasKid(p, 2) => ByKid(p, 2) = 1
    BY <1>1, <1>2, <1>3, <1>4, <1>6
  <2>3. ByKid(p, k) = 1
    BY <2>1, <2>2
  <2>4. QED
    BY <2>1, <2>3 DEF ByKid, One
<1>7. QED
  BY <1>5, <1>6

(* A member without children has nothing to gather.                        *)
LEMMA BeginKeeps ==
    ASSUME WaveInv, NEW p \in Members, Begin(p), UNCHANGED <<offs, tidx>>
    PROVE  WaveInv'
<1>1. /\ pc[p] = "enter"
      /\ pc' = [pc EXCEPT ![p] = IF npokes(p) # 0 THEN "gather" ELSE IF p # Root THEN "up" ELSE "clear"]
      /\ UNCHANGED <<kind, entered, left, writes, pSync, child, pokes, offs, tidx>>
  BY DEF Begin, Within, Goto
<1>2. CASE npokes(p) # 0
  <2>1. pc' = [pc EXCEPT ![p] = "gather"]
    BY <1>1, <1>2
  <2>2. SliceInv'
    BY <1>1, <2>1 DEF WaveInv, WaveTypeOK, CallsTypeOK, SliceInv, Inside
  <2>3. LeavesInOrder'
    BY <1>1 DEF WaveInv, LeavesInOrder
  <2>4. /\ writes' \in SUBSET [from : Members, ep : 1 .. MaxEpisodes]
        /\ tidx' \in [Members -> -1 .. Total + tree_degree + 1]
    BY <1>1 DEF WaveInv, WaveTypeOK, CallsTypeOK
  <2>5. QED
    BY <1>1, <2>1, <2>2, <2>3, <2>4, QuietMoves
<1>3. CASE npokes(p) = 0
  <2>1. pc' = [pc EXCEPT ![p] = IF p # Root THEN "up" ELSE "clear"]
    BY <1>1, <1>3
  <2>2. \A c \in Below : ParentOf(c) # p
    <3>1. ~HasKid(p, 1) /\ ~HasKid(p, 2)
      BY <1>3, ChildRange
    <3>2. QED
      BY <3>1, ParentIs
  <2>3. QED
    BY <1>1, <2>1, <2>2, ArriveKeeps
<1>4. QED
  BY <1>2, <1>3

(* A member has counted as many pokes as it has children.                  *)
LEMMA GatherKeeps ==
    ASSUME WaveInv, NEW p \in Members, Gather(p), UNCHANGED <<offs, tidx>>
    PROVE  WaveInv'
<1>1. /\ pc[p] = "gather"
      /\ pc' = [pc EXCEPT ![p] = IF p # Root THEN "up" ELSE "clear"]
      /\ UNCHANGED <<kind, entered, left, writes, pSync, child, pokes, offs, tidx>>
  BY DEF Gather, Within, Goto
<1>2. pSync[p] = npokes(p)
  BY ChildRange DEF Gather, SHMEM_SYNC_VALUE
<1>3. Cleaned(p) /\ ~Climbed(p)
  BY <1>1 DEF Cleaned, Climbed, Inside, Closing, WaveInv, OneCollect
<1>4. ByParent(p) = 0
  <2>1. SUFFICES ASSUME p # Root, Got(p)
                 PROVE  FALSE
    BY DEF ByParent, One
  <2>2. Gathered(ParentOf(p))
    BY <2>1 DEF Got, Sent, Gathered, Inside
  <2>3. QED
    BY <1>3, <2>1, <2>2 DEF WaveInv, PokesInv, Below
<1>5. \A c \in Below : ParentOf(c) = p => Climbed(c)
  BY <1>2, <1>3, <1>4, CountTells
<1>6. QED
  BY <1>1, <1>5, ArriveKeeps

(* A member pokes its parent and lets its own word restart.                *)
LEMMA PokeParentKeeps ==
    ASSUME WaveInv, NEW p \in Members, PokeParent(p), UNCHANGED <<offs, tidx>>
    PROVE  WaveInv'
<1> DEFINE par == ParentOf(p)
<1>1. /\ pc[p] = "up" /\ pc' = [pc EXCEPT ![p] = "down"]
      /\ pSync' = [pSync EXCEPT ![par] = @ + 1]
      /\ UNCHANGED <<kind, entered, left, writes, child, pokes, offs, tidx>>
  BY DEF PokeParent, Within, Goto
<1>2. p # Root /\ p \in Below
  BY <1>1 DEF WaveInv, LoopInv, Below
<1>3. par \in Members /\ par # p /\ par < p /\ ChildrenOf(par) # {}
  BY <1>2, ParentIs, InARow DEF ChildrenOf, Below
<1>4. Passed(par)
  <2>1. Started(p)
    BY <1>1 DEF Started, Inside, Closing, WaveInv, OneCollect
  <2>2. QED
    BY <1>3, <2>1 DEF WaveInv, OrderInv
<1>5. pSync' \in [Members -> Nat] /\ child' \in [Members -> -1 .. size]
    /\ pokes' \in SUBSET Members
  BY <1>1, <1>3 DEF WaveInv, WaveTypeOK
<1>6. /\ pSync'[par] = pSync[par] + 1
      /\ \A q \in Members : q # par => pSync'[q] = pSync[q]
  BY <1>1, <1>3 DEF WaveInv, WaveTypeOK
<1>7. /\ WaveTypeOK' /\ OneCollect' /\ LoopInv' /\ SliceInv' /\ LeavesInOrder'
      /\ OrderInv' /\ HeldInv' /\ OffsInv'
      /\ \A q \in Members : Cleaned(q)' <=> Cleaned(q)
      /\ \A q \in Members : q # p =>
            /\ Gathered(q)' <=> Gathered(q)
            /\ Climbed(q)' <=> Climbed(q)
            /\ Awake(q)' <=> Awake(q)
      /\ \A c \in Below : ParentOf(c) # p => (Sent(c)' <=> Sent(c))
      /\ pc'[p] = "down" /\ Gathered(p) /\ ~Climbed(p) /\ Climbed(p)' /\ ~Awake(p)
          /\ ~Awake(p)'
  <2>1. \A q \in Members : q = p \/ pSync'[q] = pSync[q] \/ (Passed(q) /\ ChildrenOf(q) # {})
    BY <1>3, <1>4, <1>6
  <2>2. QED
    BY <1>1, <1>2, <1>5, <2>1, ClosingStep
<1>8. \A c \in Below : ParentOf(c) = p => (Sent(c)' <=> Sent(c))
  BY <1>1, <1>7 DEF Sent, Inside
<1>9. \A c \in Below : (Sent(c)' <=> Sent(c)) /\ c \in Members
    /\ ParentOf(c) \in Members
  BY <1>7, <1>8, ActiveSet, ParentIs
<1>10. /\ \A q \in Members : Climbed(q) => Climbed(q)'
       /\ \A q \in Members : q \in Below => (Got(q) <=> Got(q)')
  BY <1>1, <1>7, <1>9 DEF Got
<1>11. CountBound'
  <2>1. ASSUME NEW q \in Members, q # par
        PROVE  pSync'[q] <= Base(q)' + ByKid(q, 1)' + ByKid(q, 2)' + ByParent(q)'
    <3>1. pSync'[q] \in Nat /\ pSync'[q] <= pSync[q]
      BY <1>6, <2>1 DEF WaveInv, WaveTypeOK
    <3>2. QED
      BY <1>7, <1>10, <3>1, BoundKept, Zenon
  <2>2. pSync'[par] <= Base(par)' + ByKid(par, 1)' + ByKid(par, 2)' + ByParent(par)'
    <3>1. PICK k \in {1, 2} : HasKid(par, k) /\ Kid(par, k) = p
      BY <1>2, ParentIs
    <3> HIDE DEF par
    <3>2. pSync[par] <= Base(par) + ByKid(par, 1) + ByKid(par, 2) + ByParent(par)
      BY <1>3 DEF WaveInv, CountBound
    <3>3. Base(par)' = Base(par)
      BY <1>3, <1>7 DEF Base
    <3>4. ByKid(par, k) = 0 /\ ByKid(par, k)' = 1
      BY <1>7, <3>1 DEF ByKid, One
    <3>5. ASSUME NEW j \in {1, 2}
          PROVE  ByKid(par, j)' \in 0 .. 1 /\ ByKid(par, j) \in 0 .. 1
              /\ ByKid(par, j) <= ByKid(par, j)'
      BY <1>3, <1>10, KidsOf DEF ByKid, One
    <3>6. ByParent(par)' = ByParent(par)
      BY <1>3, <1>10 DEF ByParent, One, Below
    <3>7. pSync[par] \in Nat /\ Base(par) \in 0 .. Total /\ ByParent(par) \in 0 .. 1
      BY <1>3, CountsAreSmall
    <3>8. Total \in Nat
      BY Offsets
    <3>9. ByKid(par, 1) + ByKid(par, 2) + 1 <= ByKid(par, 1)' + ByKid(par, 2)'
      BY <3>4, <3>5
    <3>10. QED
      BY <1>6, <3>2, <3>3, <3>5, <3>6, <3>7, <3>8, <3>9
  <2>3. QED
    BY <2>1, <2>2 DEF CountBound
<1>12. PokesInv'
  <2>1. \A q \in pokes' : q # Root /\ Sent(q)'
    BY <1>1, <1>9 DEF WaveInv, PokesInv, WaveTypeOK, Below
  <2>2. \A c \in Below : Gathered(ParentOf(c))' => Climbed(c)'
    BY <1>7, <1>9, <1>10 DEF WaveInv, PokesInv
  <2>3. \A c \in Below : Awake(c)' => Sent(c)'
    BY <1>7, <1>9 DEF WaveInv, PokesInv
  <2>4. QED
    BY <2>1, <2>2, <2>3 DEF PokesInv
<1>13. QED
  BY <1>7, <1>11, <1>12 DEF WaveInv

(* A member is woken by its parent, and by nobody else.                    *)
LEMMA WaitParentKeeps ==
    ASSUME WaveInv, NEW p \in Members, WaitParent(p), UNCHANGED <<offs, tidx>>
    PROVE  WaveInv'
<1>1. /\ pc[p] = "down" /\ pc' = [pc EXCEPT ![p] = "clear"]
      /\ UNCHANGED <<kind, entered, left, writes, pSync, child, pokes, offs, tidx>>
  BY DEF WaitParent, Within, Goto
<1>2. pSync[p] = npokes(p) + 1
  BY ChildRange DEF WaitParent, SHMEM_SYNC_VALUE
<1>3. pSync' \in [Members -> Nat] /\ child' \in [Members -> -1 .. size]
    /\ pokes' \in SUBSET Members
  BY <1>1 DEF WaveInv, WaveTypeOK
<1>4. /\ WaveTypeOK' /\ OneCollect' /\ LoopInv' /\ SliceInv' /\ LeavesInOrder'
      /\ OrderInv' /\ HeldInv' /\ OffsInv'
      /\ \A q \in Members : Cleaned(q)' <=> Cleaned(q)
      /\ \A q \in Members : q # p =>
            /\ Gathered(q)' <=> Gathered(q)
            /\ Climbed(q)' <=> Climbed(q)
            /\ Awake(q)' <=> Awake(q)
      /\ \A c \in Below : ParentOf(c) # p => (Sent(c)' <=> Sent(c))
      /\ pc'[p] = "clear" /\ Cleaned(p) /\ Gathered(p) /\ Gathered(p)' /\ Climbed(p)
          /\ Climbed(p)'
  BY <1>1, <1>3, ClosingStep
<1>5. p # Root /\ Sent(p)
  <2>1. pSync[p] <= npokes(p) + ByParent(p)
    BY <1>4, CountTells
  <2>2. npokes(p) \in Nat /\ ByParent(p) \in {0, 1}
    BY ChildRange DEF ByParent, One
  <2>3. ByParent(p) = 1
    BY <1>2, <2>1, <2>2
  <2>4. QED
    BY <2>3 DEF ByParent, One, Got
<1>6. \A c \in Below : ParentOf(c) = p => (Sent(c)' <=> Sent(c))
  BY <1>1, <1>4 DEF Sent, Inside
<1>7. \A c \in Below : (Sent(c)' <=> Sent(c)) /\ c \in Members
    /\ ParentOf(c) \in Members
  BY <1>4, <1>6, ActiveSet, ParentIs
<1>8. /\ \A q \in Members : Climbed(q)' <=> Climbed(q)
      /\ \A q \in Members : Gathered(q)' <=> Gathered(q)
  BY <1>4
<1>9. CountBound'
  <2>1. \A q \in Members : pSync'[q] \in Nat /\ pSync'[q] <= pSync[q]
    BY <1>1 DEF WaveInv, WaveTypeOK
  <2>2. \A q \in Members : q \in Below /\ Got(q) => Got(q)'
    BY <1>1, <1>7 DEF Got
  <2>3. \A q \in Members : pSync'[q] <= Base(q)' + ByKid(q, 1)' + ByKid(q, 2)' + ByParent(q)'
    BY <1>4, <1>8, <2>1, <2>2, BoundKept, Zenon
  <2>4. QED
    BY <2>3 DEF CountBound
<1>10. PokesInv'
  <2>1. \A q \in pokes' : q # Root /\ Sent(q)'
    BY <1>1, <1>7 DEF WaveInv, PokesInv, WaveTypeOK, Below
  <2>2. \A c \in Below : Gathered(ParentOf(c))' => Climbed(c)'
    BY <1>7, <1>8 DEF WaveInv, PokesInv
  <2>3. \A c \in Below : Awake(c)' => Sent(c)'
    BY <1>4, <1>5, <1>7 DEF WaveInv, PokesInv
  <2>4. QED
    BY <2>1, <2>2, <2>3 DEF PokesInv
<1>11. QED
  BY <1>4, <1>9, <1>10 DEF WaveInv

(* A member takes the pokes off its word.                                  *)
LEMMA ClearKeeps ==
    ASSUME WaveInv, NEW p \in Members, Clear(p), UNCHANGED <<offs, tidx>>
    PROVE  WaveInv'
<1>1. /\ pc[p] = "clear" /\ pc' = [pc EXCEPT ![p] = "poke"]
      /\ pSync' = [pSync EXCEPT ![p] = 0]
      /\ child' = [child EXCEPT ![p] = childrenBegin(Index(p))]
      /\ UNCHANGED <<kind, entered, left, writes, pokes, offs, tidx>>
  BY DEF Clear, Within, Goto, SHMEM_SYNC_VALUE
<1>2. pSync' \in [Members -> Nat] /\ child' \in [Members -> -1 .. size]
    /\ pokes' \in SUBSET Members
  BY <1>1, ChildRange DEF WaveInv, WaveTypeOK
<1>3. /\ pSync'[p] = 0 /\ child'[p] = childrenBegin(Index(p))
      /\ \A q \in Members : q # p => pSync'[q] = pSync[q] /\ child'[q] = child[q]
  BY <1>1 DEF WaveInv, WaveTypeOK
<1>4. child'[p] \in childrenBegin(Index(p)) .. childrenEnd(Index(p))
  BY <1>3, ChildRange
<1>5. /\ WaveTypeOK' /\ OneCollect' /\ LoopInv' /\ SliceInv' /\ LeavesInOrder'
      /\ OrderInv' /\ HeldInv' /\ OffsInv'
      /\ \A q \in Members : Cleaned(q)' <=> Cleaned(q)
      /\ \A q \in Members : q # p =>
            /\ Gathered(q)' <=> Gathered(q)
            /\ Climbed(q)' <=> Climbed(q)
            /\ Awake(q)' <=> Awake(q)
      /\ \A c \in Below : ParentOf(c) # p => (Sent(c)' <=> Sent(c))
      /\ pc'[p] = "poke" /\ Gathered(p) /\ Gathered(p)' /\ Climbed(p) /\ Climbed(p)'
      /\ Awake(p) /\ Awake(p)'
  BY <1>1, <1>2, <1>3, <1>4, ClosingStep
<1>6. \A c \in Below : ParentOf(c) = p => ~Sent(c)' /\ ~Sent(c)
  <2> SUFFICES ASSUME NEW c \in Below, ParentOf(c) = p
               PROVE  ~Sent(c)' /\ ~Sent(c)
    OBVIOUS
  <2>1. Index(c) \in childrenBegin(Index(p)) .. childrenEnd(Index(p)) - 1
    BY ChildRange
  <2>2. childrenBegin(Index(p)) \in Int /\ Index(c) \in Int /\ ~(child'[p] > Index(c))
    BY <1>3, <2>1, ChildRange
  <2>3. ~Sent(c)
    BY <1>1 DEF Sent, Inside
  <2>4. ~Sent(c)'
    BY <1>5, <2>2 DEF Sent, Inside
  <2>5. QED
    BY <2>3, <2>4
<1>7. /\ \A q \in Members : Gathered(q)' <=> Gathered(q)
      /\ \A q \in Members : Climbed(q)' <=> Climbed(q)
      /\ \A q \in Members : Awake(q)' <=> Awake(q)
      /\ \A c \in Below : Sent(c)' <=> Sent(c)
  BY <1>5, <1>6, Zenon
<1>8. CountBound'
  <2>1. \A q \in Members : pSync'[q] \in Nat /\ pSync'[q] <= pSync[q]
    BY <1>3 DEF WaveInv, WaveTypeOK
  <2>2. \A q \in Members : q \in Below /\ Got(q) => Got(q)'
    BY <1>1, <1>7 DEF Got
  <2>3. \A q \in Members : pSync'[q] <= Base(q)' + ByKid(q, 1)' + ByKid(q, 2)' + ByParent(q)'
    BY <1>5, <1>7, <2>1, <2>2, BoundKept, Zenon
  <2>4. QED
    BY <2>3 DEF CountBound
<1>9. PokesInv'
  <2>1. UNCHANGED pokes
    BY <1>1
  <2>2. QED
    BY <1>7, <2>1, PokesKept, Zenon
<1>10. QED
  BY <1>5, <1>8, <1>9 DEF WaveInv

(* A member wakes its next child.                                          *)
LEMMA PokeChildKeeps ==
    ASSUME WaveInv, NEW p \in Members, PokeChild(p), UNCHANGED <<offs, tidx>>
    PROVE  WaveInv'
<1>1. /\ pc[p] = "poke" /\ pc' = [pc EXCEPT ![p] = "poke"]
      /\ child[p] # childrenEnd(Index(p))
      /\ pokes' = pokes \union {Rank(child[p])}
      /\ child' = [child EXCEPT ![p] = @ + 1]
      /\ UNCHANGED <<kind, entered, left, writes, pSync, offs, tidx>>
  BY DEF PokeChild, Within, Goto
<1>2. child[p] \in childrenBegin(Index(p)) .. childrenEnd(Index(p))
  BY <1>1 DEF WaveInv, LoopInv
<1>3. /\ childrenBegin(Index(p)) \in -1 .. size /\ childrenEnd(Index(p)) \in -1 .. size
      /\ child[p] \in childrenBegin(Index(p)) .. childrenEnd(Index(p)) - 1
  BY <1>1, <1>2, ChildRange
<1>4. PICK k \in Below : /\ k = Rank(child[p])
                         /\ k \in Members /\ ParentOf(k) = p /\ Index(k) = child[p]
                             /\ k # p
  <2>1. PICK j \in {1, 2} : HasKid(p, j) /\ child[p] = Index(p) * 2 + j
    BY <1>3, ChildRange
  <2>2. Rank(child[p]) = Kid(p, j)
    BY <2>1 DEF Kid, tree_degree
  <2>3. QED
    BY <2>1, <2>2, KidsOf
<1>5. /\ child'[p] = child[p] + 1
      /\ \A q \in Members : q # p => child'[q] = child[q]
  BY <1>1 DEF WaveInv, WaveTypeOK
<1>6. child'[p] \in childrenBegin(Index(p)) .. childrenEnd(Index(p))
    /\ child'[p] \in -1 .. size
  BY <1>3, <1>5, ActiveSetAssumption
<1>7. pSync' \in [Members -> Nat] /\ child' \in [Members -> -1 .. size]
    /\ pokes' \in SUBSET Members
  BY <1>1, <1>4, <1>5, <1>6 DEF WaveInv, WaveTypeOK
<1>8. /\ WaveTypeOK' /\ OneCollect' /\ LoopInv' /\ SliceInv' /\ LeavesInOrder'
      /\ OrderInv' /\ HeldInv' /\ OffsInv'
      /\ \A q \in Members : Cleaned(q)' <=> Cleaned(q)
      /\ \A q \in Members : q # p =>
            /\ Gathered(q)' <=> Gathered(q)
            /\ Climbed(q)' <=> Climbed(q)
            /\ Awake(q)' <=> Awake(q)
      /\ \A c \in Below : ParentOf(c) # p => (Sent(c)' <=> Sent(c))
      /\ pc'[p] = "poke" /\ entered[p] = 1 /\ entered'[p] = 1
      /\ Gathered(p) /\ Gathered(p)' /\ Climbed(p) /\ Climbed(p)' /\ Awake(p)
          /\ Awake(p)'
  BY <1>1, <1>5, <1>6, <1>7, ClosingStep
<1>9. /\ \A q \in Members : Gathered(q)' <=> Gathered(q)
      /\ \A q \in Members : Climbed(q)' <=> Climbed(q)
      /\ \A q \in Members : Awake(q)' <=> Awake(q)
  BY <1>8, Zenon
<1>10. /\ Sent(k)' /\ ~Sent(k)
       /\ \A c \in Below : c # k => (Sent(c)' <=> Sent(c))
  <2>1. \A c \in Below : ParentOf(c) = p => (Sent(c) <=> child[p] > Index(c))
      /\ (Sent(c)' <=> child'[p] > Index(c))
    BY <1>1, <1>8 DEF Sent, Inside
  <2>2. \A c \in Below : Index(c) \in Int /\ (c # k => Index(c) # Index(k))
    BY <1>4, ActiveSet
  <2>3. child[p] \in Int
    BY <1>3
  <2>4. Sent(k)' /\ ~Sent(k)
    BY <1>4, <1>5, <2>1, <2>3
  <2>5. ASSUME NEW c \in Below, c # k
        PROVE  Sent(c)' <=> Sent(c)
    <3>1. CASE ParentOf(c) # p
      BY <1>8, <3>1
    <3>2. CASE ParentOf(c) = p
      <4>1. child[p] > Index(c) <=> child'[p] > Index(c)
        BY <1>4, <1>5, <2>2, <2>3, <2>5
      <4>2. QED
        BY <2>1, <3>2, <4>1
    <3>3. QED
      BY <3>1, <3>2
  <2>6. QED
    BY <2>4, <2>5
<1>11. CountBound'
  <2>1. \A q \in Members : pSync'[q] \in Nat /\ pSync'[q] <= pSync[q]
    BY <1>1 DEF WaveInv, WaveTypeOK
  <2>2. \A q \in Members : q \in Below /\ Got(q) => Got(q)'
    <3> SUFFICES ASSUME NEW q \in Below, Sent(q), q \notin pokes
                 PROVE  Sent(q)' /\ q \notin pokes'
      BY DEF Got
    <3>1. q # k
      BY <1>10
    <3>2. QED
      BY <1>1, <1>4, <1>10, <3>1
  <2>3. \A q \in Members : pSync'[q] <= Base(q)' + ByKid(q, 1)' + ByKid(q, 2)' + ByParent(q)'
    BY <1>8, <1>9, <2>1, <2>2, BoundKept, Zenon
  <2>4. QED
    BY <2>3 DEF CountBound
<1>12. PokesInv'
  <2>1. \A c \in Below : c \in Members /\ ParentOf(c) \in Members
    BY ActiveSet, ParentIs
  <2>2. \A q \in pokes' : q # Root /\ Sent(q)'
    BY <1>1, <1>4, <1>10 DEF WaveInv, PokesInv, WaveTypeOK, Below
  <2>3. \A c \in Below : Gathered(ParentOf(c))' => Climbed(c)'
    BY <1>9, <2>1 DEF WaveInv, PokesInv
  <2>4. \A c \in Below : Awake(c)' => Sent(c)'
    BY <1>9, <1>10, <2>1 DEF WaveInv, PokesInv
  <2>5. QED
    BY <2>2, <2>3, <2>4 DEF PokesInv
<1>13. QED
  BY <1>8, <1>11, <1>12 DEF WaveInv

(* A member has woken its children and returns.                            *)
LEMMA DoneKeeps ==
    ASSUME WaveInv, NEW p \in Members, Done(p), UNCHANGED <<offs, tidx>>
    PROVE  WaveInv'
<1>1. /\ pc[p] = "poke" /\ pc' = [pc EXCEPT ![p] = "out"]
      /\ child[p] = childrenEnd(Index(p))
      /\ left' = [left EXCEPT ![p] = @ + 1]
      /\ UNCHANGED <<kind, entered, writes, pSync, child, pokes, offs, tidx>>
  BY DEF Done, Return, Goto
<1>2. pc'[p] = "out" /\ entered[p] = 1 /\ entered'[p] = 1 /\ left[p] = 0 /\ left'[p] = 1
  BY <1>1 DEF WaveInv, WaveTypeOK, CallsTypeOK, OneCollect
<1>3. \A q \in Members : q # p =>
          /\ pc'[q] = pc[q] /\ entered'[q] = entered[q] /\ child'[q] = child[q]
          /\ left'[q] = left[q]
  BY <1>1 DEF WaveInv, WaveTypeOK, CallsTypeOK
<1>4. WaveTypeOK'
  BY <1>1, <1>2, OneCall DEF WaveInv, WaveTypeOK, CallsTypeOK
<1>5. OneCollect'
  BY <1>1, <1>2, <1>3 DEF WaveInv, OneCollect
<1>6. LoopInv'
  BY <1>1, <1>2, <1>3, ActiveSet DEF WaveInv, LoopInv
<1>7. SliceInv'
  BY <1>1 DEF WaveInv, WaveTypeOK, CallsTypeOK, SliceInv, Inside
<1>8. LeavesInOrder'
  BY <1>1 DEF WaveInv, LeavesInOrder
<1>9. /\ Started(p)' <=> Started(p)
      /\ Passed(p)' <=> Passed(p)
      /\ Cleaned(p)' <=> Cleaned(p)
      /\ Gathered(p)' <=> Gathered(p)
      /\ Climbed(p)' <=> Climbed(p)
      /\ Awake(p)' <=> Awake(p)
  BY <1>1, <1>2 DEF Started, Passed, Cleaned, Gathered, Climbed, Awake, Inside, Closing
<1>10. \A c \in Below : ParentOf(c) = p => (Sent(c)' <=> Sent(c))
  <2> SUFFICES ASSUME NEW c \in Below, ParentOf(c) = p
               PROVE  Sent(c)' /\ Sent(c)
    OBVIOUS
  <2>1. Index(c) < childrenEnd(Index(p))
    BY ChildRange, ActiveSet
  <2>2. child[p] > Index(c)
    BY <1>1, <2>1, ChildRange, ActiveSet
  <2>3. QED
    BY <1>1, <1>2, <2>2 DEF Sent, Inside
<1>11. QED
  BY <1>1, <1>2, <1>3, <1>4, <1>5, <1>6, <1>7, <1>8, <1>9, <1>10, AllKept

-----------------------------------------------------------------------------
(* What arrives moves nobody.                                              *)
LEMMA NobodyMoves ==
    ASSUME UNCHANGED <<pc, entered, child>>
    PROVE  /\ \A q \in Members : Started(q)' <=> Started(q)
           /\ \A q \in Members : Passed(q)' <=> Passed(q)
           /\ \A q \in Members : Cleaned(q)' <=> Cleaned(q)
           /\ \A q \in Members : Gathered(q)' <=> Gathered(q)
           /\ \A q \in Members : Climbed(q)' <=> Climbed(q)
           /\ \A q \in Members : Awake(q)' <=> Awake(q)
           /\ \A c \in Below : Sent(c)' <=> Sent(c)
BY DEF Started, Passed, Cleaned, Gathered, Climbed, Awake, Sent, Inside

(* A poke of a parent arrives: it has not arrived before.                  *)
LEMMA DeliverPokeKeeps ==
    ASSUME WaveInv, NEW p \in pokes, DeliverPoke(p), UNCHANGED <<offs, tidx>>
    PROVE  WaveInv'
<1>1. /\ pokes' = pokes \ {p}
      /\ pSync' = [pSync EXCEPT ![p] = @ + 1]
      /\ UNCHANGED <<kind, pc, entered, left, writes, child, offs, tidx>>
  BY DEF DeliverPoke, callVars
<1>2. p \in Below /\ p \in Members /\ p # Root /\ Sent(p)
  BY DEF WaveInv, PokesInv, WaveTypeOK, Below
<1>3. /\ pSync'[p] = pSync[p] + 1
      /\ \A q \in Members : q # p => pSync'[q] = pSync[q]
  BY <1>1, <1>2 DEF WaveInv, WaveTypeOK
<1>4. WaveTypeOK'
  <2>1. pSync' \in [Members -> Nat]
    BY <1>1, <1>2 DEF WaveInv, WaveTypeOK
  <2>2. QED
    BY <1>1, <2>1 DEF WaveInv, WaveTypeOK, CallsTypeOK
<1>5. OneCollect' /\ LoopInv' /\ LeavesInOrder'
  BY <1>1 DEF WaveInv, OneCollect, LoopInv, LeavesInOrder
<1>6. SliceInv'
  BY <1>1 DEF WaveInv, SliceInv, Inside
<1>7. /\ \A q \in Members : Started(q)' <=> Started(q)
      /\ \A q \in Members : Passed(q)' <=> Passed(q)
      /\ \A q \in Members : Cleaned(q)' <=> Cleaned(q)
      /\ \A q \in Members : Gathered(q)' <=> Gathered(q)
      /\ \A q \in Members : Climbed(q)' <=> Climbed(q)
      /\ \A q \in Members : Awake(q)' <=> Awake(q)
      /\ \A c \in Below : Sent(c)' <=> Sent(c)
  BY <1>1, NobodyMoves, Zenon
<1>8. Climbed(p) /\ Started(p) /\ pc[p] \notin {"forward", "index"}
  <2>1. Gathered(ParentOf(p))
    BY <1>2 DEF Sent, Gathered, Inside
  <2>2. Climbed(p)
    BY <1>2, <2>1 DEF WaveInv, PokesInv
  <2>3. QED
    BY <2>2 DEF Climbed, Started, Inside, Closing
<1>9. OrderInv' /\ HeldInv' /\ OffsInv'
  <2>1. \A q \in Members : pc'[q] \in {"forward", "index"} => pc'[q] = pc[q]
    BY <1>1
  <2>2. UNCHANGED offs
    BY <1>1
  <2>3. \A q \in Members :
            ~Started(q) \/ pc[q] = "forward" \/ (pc[q] = "index" /\ ChildrenOf(q) = {})
               => pSync'[q] = pSync[q]
    BY <1>3, <1>8
  <2>4. QED
    BY <1>7, <2>1, <2>2, <2>3, WaveKept, Zenon
<1>10. CountBound'
  <2>1. ASSUME NEW q \in Members, q # p
        PROVE  pSync'[q] <= Base(q)' + ByKid(q, 1)' + ByKid(q, 2)' + ByParent(q)'
    <3>1. pSync'[q] \in Nat /\ pSync'[q] <= pSync[q]
      BY <1>3, <2>1 DEF WaveInv, WaveTypeOK
    <3>2. q \in Below /\ Got(q) => Got(q)'
      BY <1>1, <1>7 DEF Got
    <3>3. QED
      BY <1>7, <3>1, <3>2, BoundKept, Zenon
  <2>2. pSync'[p] <= Base(p)' + ByKid(p, 1)' + ByKid(p, 2)' + ByParent(p)'
    <3>1. pSync[p] <= Base(p) + ByKid(p, 1) + ByKid(p, 2) + ByParent(p)
      BY <1>2 DEF WaveInv, CountBound
    <3>2. Base(p)' = Base(p)
      BY <1>2, <1>7 DEF Base
    <3>3. ASSUME NEW j \in {1, 2}
          PROVE  ByKid(p, j)' \in 0 .. 1 /\ ByKid(p, j) = ByKid(p, j)'
      BY <1>2, <1>7, KidsOf DEF ByKid, One
    <3>4. ByParent(p) = 0 /\ ByParent(p)' = 1
      BY <1>1, <1>2, <1>7 DEF ByParent, One, Got
    <3>5. pSync[p] \in Nat /\ Base(p) \in 0 .. Total /\ Total \in Nat
      BY <1>2, CountsAreSmall, Offsets
    <3>6. QED
      BY <1>3, <3>1, <3>2, <3>3, <3>4, <3>5
  <2>3. QED
    BY <2>1, <2>2 DEF CountBound
<1>11. PokesInv'
  <2>1. \A c \in Below : c \in Members /\ ParentOf(c) \in Members
    BY ActiveSet, ParentIs
  <2>2. \A q \in pokes' : q # Root /\ Sent(q)'
    BY <1>1, <1>7 DEF WaveInv, PokesInv, WaveTypeOK, Below
  <2>3. \A c \in Below : Gathered(ParentOf(c))' => Climbed(c)'
    BY <1>7, <2>1 DEF WaveInv, PokesInv
  <2>4. \A c \in Below : Awake(c)' => Sent(c)'
    BY <1>7, <2>1 DEF WaveInv, PokesInv
  <2>5. QED
    BY <2>2, <2>3, <2>4 DEF PokesInv
<1>12. QED
  BY <1>4, <1>5, <1>6, <1>9, <1>10, <1>11 DEF WaveInv

(* A slice arrives.                                                        *)
LEMMA DeliverWriteKeeps ==
    ASSUME WaveInv, NEW w \in writes, DeliverWrite(w),
           UNCHANGED <<pSync, child, pokes, offs, tidx>>
    PROVE  WaveInv'
<1>1. /\ writes' = writes \ {w}
      /\ UNCHANGED <<kind, pc, entered, left, pSync, child, pokes, offs, tidx>>
  BY DEF DeliverWrite
<1>2. WaveTypeOK'
  BY <1>1 DEF WaveInv, WaveTypeOK, CallsTypeOK
<1>3. OneCollect' /\ LoopInv' /\ LeavesInOrder'
  BY <1>1 DEF WaveInv, OneCollect, LoopInv, LeavesInOrder
<1>4. SliceInv'
  BY <1>1 DEF WaveInv, SliceInv, Inside
<1>5. OrderInv' /\ HeldInv' /\ OffsInv' /\ CountBound' /\ PokesInv'
  BY <1>1 DEF WaveInv, OrderInv, HeldInv, OffsInv, CountBound, PokesInv, Base, ByKid,
     ByParent, One,
              Got, Started, Passed, Cleaned, Gathered, Climbed, Awake, Sent, Inside
<1>6. QED
  BY <1>2, <1>3, <1>4, <1>5 DEF WaveInv

(* An offset arrives in a word that holds nothing yet.                     *)
LEMMA DeliverOffsetKeeps ==
    ASSUME WaveInv, NEW o \in offs, DeliverOffset(o)
    PROVE  WaveInv'
<1>1. /\ offs' = offs \ {o}
      /\ pSync' = [pSync EXCEPT ![o.to] = o.val]
      /\ UNCHANGED <<kind, pc, entered, left, writes, child, pokes, tidx>>
  BY DEF DeliverOffset, callVars
<1>2. PICK r \in Members : r = o.to
  BY DEF WaveInv, WaveTypeOK
<1>3. /\ o.val = OffsetOf(r) /\ r # Root /\ r \in Below
      /\ ~Started(r) /\ Passed(LeftOf(r)) /\ pSync[r] = 0
  BY <1>2 DEF WaveInv, OffsInv, Below
<1>4. /\ OffsetOf(r) \in Nat
      /\ pSync'[r] = OffsetOf(r)
      /\ \A q \in Members : q # r => pSync'[q] = pSync[q]
  BY <1>1, <1>2, <1>3, Offsets DEF WaveInv, WaveTypeOK
<1>5. \A x \in offs' : x.to # r
  <2>1. \A x \in offs : x = [to |-> x.to, val |-> x.val]
    BY DEF WaveInv, WaveTypeOK
  <2>2. \A x \in offs : x.val = OffsetOf(x.to)
    BY DEF WaveInv, OffsInv
  <2>3. QED
    BY <1>1, <1>2, <2>1, <2>2
<1>6. WaveTypeOK'
  <2>1. pSync' \in [Members -> Nat]
    BY <1>1, <1>2, <1>3, <1>4 DEF WaveInv, WaveTypeOK
  <2>2. QED
    BY <1>1, <2>1 DEF WaveInv, WaveTypeOK, CallsTypeOK
<1>7. OneCollect' /\ LoopInv' /\ LeavesInOrder'
  BY <1>1 DEF WaveInv, OneCollect, LoopInv, LeavesInOrder
<1>8. SliceInv'
  BY <1>1 DEF WaveInv, SliceInv, Inside
<1>9. /\ \A q \in Members : Started(q)' <=> Started(q)
      /\ \A q \in Members : Passed(q)' <=> Passed(q)
      /\ \A q \in Members : Cleaned(q)' <=> Cleaned(q)
      /\ \A q \in Members : Gathered(q)' <=> Gathered(q)
      /\ \A q \in Members : Climbed(q)' <=> Climbed(q)
      /\ \A q \in Members : Awake(q)' <=> Awake(q)
      /\ \A c \in Below : Sent(c)' <=> Sent(c)
  BY <1>1, NobodyMoves, Zenon
<1>10. OrderInv'
  BY <1>9 DEF WaveInv, OrderInv
<1>11. \A q \in Members : q # Root => LeftOf(q) \in Members
  BY InARow DEF Below
<1>12. HeldInv'
  <2> SUFFICES ASSUME NEW q \in Members
               PROVE  /\ ~Started(q)' =>
                            \/ pSync'[q] = 0
                            \/ /\ q # Root /\ pSync'[q] = OffsetOf(q)
                                /\ Passed(LeftOf(q))'
                               /\ \A x \in offs' : x.to # q
                      /\ pc'[q] = "forward" => pSync'[q] = OffsetOf(q)
                      /\ ChildrenOf(q) = {} /\ pc'[q] = "index"
                          => pSync'[q] = OffsetOf(q)
    BY DEF HeldInv
  <2>1. CASE q = r
    <3>1. Passed(LeftOf(r))'
      BY <1>3, <1>9, <1>11
    <3>2. QED
      BY <1>3, <1>4, <1>5, <2>1, <3>1
  <2>2. CASE q # r
    <3>1. /\ ~Started(q) =>
                \/ pSync[q] = 0
                \/ /\ q # Root /\ pSync[q] = OffsetOf(q) /\ Passed(LeftOf(q))
                   /\ \A x \in offs : x.to # q
          /\ pc[q] = "forward" => pSync[q] = OffsetOf(q)
          /\ ChildrenOf(q) = {} /\ pc[q] = "index" => pSync[q] = OffsetOf(q)
      BY DEF WaveInv, HeldInv
    <3>2. q # Root => (Passed(LeftOf(q))' <=> Passed(LeftOf(q)))
      BY <1>9, <1>11
    <3>3. pc'[q] = pc[q] /\ pSync'[q] = pSync[q] /\ offs' \subseteq offs
      BY <1>1, <1>4, <2>2
    <3>4. QED
      BY <1>9, <3>1, <3>2, <3>3
  <2>3. QED
    BY <2>1, <2>2
<1>13. OffsInv'
  <2> SUFFICES ASSUME NEW x \in offs'
               PROVE  /\ x.val = OffsetOf(x.to) /\ x.to # Root
                      /\ ~Started(x.to)' /\ Passed(LeftOf(x.to))' /\ pSync'[x.to] = 0
    BY DEF OffsInv
  <2>1. /\ x.val = OffsetOf(x.to) /\ x.to # Root /\ x.to \in Members
        /\ ~Started(x.to) /\ Passed(LeftOf(x.to)) /\ pSync[x.to] = 0
    BY <1>1 DEF WaveInv, OffsInv, WaveTypeOK
  <2>2. LeftOf(x.to) \in Members /\ x.to # r
    BY <1>5, <1>11, <2>1
  <2>3. QED
    BY <1>4, <1>9, <2>1, <2>2
<1>14. CountBound'
  <2>1. ASSUME NEW q \in Members, q # r
        PROVE  pSync'[q] <= Base(q)' + ByKid(q, 1)' + ByKid(q, 2)' + ByParent(q)'
    <3>1. pSync'[q] \in Nat /\ pSync'[q] <= pSync[q]
      BY <1>4, <2>1 DEF WaveInv, WaveTypeOK
    <3>2. q \in Below /\ Got(q) => Got(q)'
      BY <1>1, <1>9 DEF Got
    <3>3. QED
      BY <1>9, <3>1, <3>2, BoundKept, Zenon
  <2>2. pSync'[r] <= Base(r)' + ByKid(r, 1)' + ByKid(r, 2)' + ByParent(r)'
    <3>1. ~Cleaned(r)'
      BY <1>3, <1>9 DEF Cleaned, Started, Inside
    <3>2. Base(r)' = OffsetOf(r)
      BY <3>1 DEF Base
    <3>3. ByKid(r, 1)' \in 0 .. 1 /\ ByKid(r, 2)' \in 0 .. 1 /\ ByParent(r)' \in 0 .. 1
      BY DEF ByKid, ByParent, One
    <3>4. QED
      BY <1>4, <3>2, <3>3
  <2>3. QED
    BY <2>1, <2>2 DEF CountBound
<1>15. PokesInv'
  <2>1. UNCHANGED pokes
    BY <1>1
  <2>2. QED
    BY <1>9, <2>1, PokesKept, Zenon
<1>16. QED
  BY <1>6, <1>7, <1>8, <1>10, <1>12, <1>13, <1>14, <1>15 DEF WaveInv

(* Every step keeps the invariant.                                         *)
LEMMA WaveNext == WaveInv /\ [CollectNext]_collectVars => WaveInv'
<1> SUFFICES ASSUME WaveInv, [CollectNext]_collectVars
             PROVE  WaveInv'
  OBVIOUS
<1>1. ASSUME NEW p \in Members, CollectStep(p)
      PROVE  WaveInv'
  <2>1. CASE CallCollect(p)
    BY <2>1, CallCollectKeeps
  <2>2. CASE InitLeftMost(p)
    BY <2>2, InitLeftMostKeeps
  <2>3. CASE WaitOffset(p)
    BY <2>3, WaitOffsetKeeps
  <2>4. CASE ForwardOffset(p)
    BY <2>4, ForwardOffsetKeeps
  <2>5. CASE ReadIndex(p)
    BY <2>5, ReadIndexKeeps
  <2>6. CASE SendSlice(p)
    BY <2>6, SendSliceKeeps
  <2>7. CASE CleanUp(p)
    BY <2>7, CleanUpKeeps
  <2>8. CASE QuietSlices(p)
    BY <2>8, QuietSlicesKeeps
  <2>9. CASE Begin(p) /\ UNCHANGED <<offs, tidx>>
    BY <2>9, BeginKeeps
  <2>10. CASE Gather(p) /\ UNCHANGED <<offs, tidx>>
    BY <2>10, GatherKeeps
  <2>11. CASE PokeParent(p) /\ UNCHANGED <<offs, tidx>>
    BY <2>11, PokeParentKeeps
  <2>12. CASE WaitParent(p) /\ UNCHANGED <<offs, tidx>>
    BY <2>12, WaitParentKeeps
  <2>13. CASE Clear(p) /\ UNCHANGED <<offs, tidx>>
    BY <2>13, ClearKeeps
  <2>14. CASE PokeChild(p) /\ UNCHANGED <<offs, tidx>>
    BY <2>14, PokeChildKeeps
  <2>15. CASE Done(p) /\ UNCHANGED <<offs, tidx>>
    BY <2>15, DoneKeeps
  <2>16. QED
    BY <1>1, <2>1, <2>2, <2>3, <2>4, <2>5, <2>6, <2>7, <2>8, <2>9, <2>10,
       <2>11, <2>12, <2>13, <2>14, <2>15 DEF CollectStep, Step
<1>2. ASSUME CollectDeliver
      PROVE  WaveInv'
  BY <1>2, DeliverPokeKeeps, DeliverWriteKeeps, DeliverOffsetKeeps DEF CollectDeliver,
     Deliver
<1>3. ASSUME UNCHANGED collectVars
      PROVE  WaveInv'
  <2>1. UNCHANGED <<kind, pc, entered, left, writes, pSync, child, pokes, offs, tidx>>
    BY <1>3 DEF collectVars, vars, callVars
  <2>2. WaveTypeOK' /\ OneCollect' /\ LoopInv' /\ LeavesInOrder'
    BY <2>1 DEF WaveInv, WaveTypeOK, CallsTypeOK, OneCollect, LoopInv, LeavesInOrder
  <2>3. OrderInv' /\ HeldInv' /\ OffsInv' /\ CountBound' /\ PokesInv' /\ SliceInv'
    BY <2>1 DEF WaveInv, OrderInv, HeldInv, OffsInv, CountBound, PokesInv, SliceInv,
       Base, ByKid,
                ByParent, One, Got, Started, Passed, Cleaned, Gathered, Climbed, Awake,
                    Sent, Inside
  <2>4. QED
    BY <2>2, <2>3 DEF WaveInv
<1>4. QED
  BY <1>1, <1>2, <1>3 DEF CollectNext

-----------------------------------------------------------------------------
(* If a member is out, the root has been poked by all its children, they   *)
(* by theirs, and so has everybody.                                        *)
LEMMA AllHaveGathered ==
    ASSUME WaveInv, NEW p \in Members, Awake(p)
    PROVE  \A q \in Members : Gathered(q)
<1>1. \A q \in Members : Index(q) \in Nat /\ (q # Root => q \in Below)
  BY ActiveSet DEF Below
<1>2. \A c \in Below : ParentOf(c) \in Members
    /\ Index(ParentOf(c)) \in 0 .. Index(c) - 1
  BY ParentIs
<1>3. Awake(Root)
  <2> DEFINE W == {n \in Nat : \A q \in Members : Index(q) = n /\ Awake(q) => Awake(Root)}
  <2>1. ASSUME NEW n \in Nat, \A m \in 0 .. n - 1 : m \in W
        PROVE  n \in W
    <3> SUFFICES ASSUME NEW q \in Members, Index(q) = n, Awake(q)
                 PROVE  Awake(Root)
      OBVIOUS
    <3>1. CASE q = Root
      BY <3>1
    <3>2. CASE q # Root
      <4>1. q \in Below /\ Sent(q)
        BY <1>1, <3>2 DEF WaveInv, PokesInv
      <4>2. Awake(ParentOf(q))
        BY <4>1 DEF Sent, Awake, Inside
      <4>3. QED
        BY <1>2, <2>1, <4>1, <4>2
    <3>3. QED
      BY <3>1, <3>2
  <2>2. Nat \subseteq W
    <3> HIDE DEF W
    <3> QED BY <2>1, CourseOfValues
  <2>3. QED
    BY <1>1, <2>2
<1>4. Gathered(Root)
  BY <1>3 DEF Awake, Gathered, Inside
<1> DEFINE W == {n \in Nat : \A q \in Members : Index(q) = n => Gathered(q)}
<1>5. ASSUME NEW n \in Nat, \A m \in 0 .. n - 1 : m \in W
      PROVE  n \in W
  <2> SUFFICES ASSUME NEW q \in Members, Index(q) = n
               PROVE  Gathered(q)
    OBVIOUS
  <2>1. CASE q = Root
    BY <1>4, <2>1
  <2>2. CASE q # Root
    <3>1. q \in Below /\ Gathered(ParentOf(q))
      BY <1>1, <1>2, <1>5, <2>2
    <3>2. Climbed(q)
      BY <3>1 DEF WaveInv, PokesInv
    <3>3. QED
      BY <3>2 DEF Climbed, Gathered, Inside
  <2>3. QED
    BY <2>1, <2>2
<1>6. Nat \subseteq W
  <2> HIDE DEF W
  <2> QED BY <1>5, CourseOfValues
<1>7. QED
  BY <1>1, <1>6

(* The invariant contains what is claimed of the collect.                  *)
LEMMA WaveMeans ==
    WaveInv => CollectTypeOK /\ OffsetsInOrder /\ LeavesInOrder /\ FlushedOnReturn
<1> SUFFICES ASSUME WaveInv
             PROVE  CollectTypeOK /\ OffsetsInOrder /\ LeavesInOrder /\ FlushedOnReturn
  OBVIOUS
<1>1. CollectTypeOK
  <2>1. \A p \in Members : pSync[p] \in 0 .. Total + tree_degree + 1
    BY CountsAreSmall
  <2>2. pSync \in [Members -> 0 .. Total + tree_degree + 1]
    BY <2>1 DEF WaveInv, WaveTypeOK
  <2>3. QED
    BY <2>2 DEF WaveInv, WaveTypeOK, CollectTypeOK
<1>2. OffsetsInOrder /\ LeavesInOrder
  BY DEF WaveInv, OffsInv, OffsetsInOrder
<1>3. FlushedOnReturn
  <2> SUFFICES ASSUME NEW w \in writes, NEW p \in Members
               PROVE  left[p] < w.ep
    BY DEF FlushedOnReturn
  <2>1. w.ep = 1 /\ Inside(w.from, {"cleanup", "quiet"}) /\ w.from \in Members
    BY DEF WaveInv, SliceInv, WaveTypeOK, CallsTypeOK
  <2>2. left[p] \in {0, 1} /\ entered[p] \in {0, 1}
    BY OneCall DEF WaveInv, WaveTypeOK, CallsTypeOK
  <2>3. left[p] # 1
    <3>1. SUFFICES ASSUME left[p] = 1
                   PROVE  FALSE
      OBVIOUS
    <3>2. Awake(p)
      BY <2>2, <3>1 DEF WaveInv, OneCollect, Awake, Inside
    <3>3. Gathered(w.from)
      BY <2>1, <3>2, AllHaveGathered
    <3>4. QED
      BY <2>1, <3>3 DEF Gathered, Inside
  <2>4. QED
    BY <2>1, <2>2, <2>3
<1>4. QED
  BY <1>1, <1>2, <1>3

(* Every word of pSync holds at most an offset and the pokes of the        *)
(* barrier, and every slice starts within the target.                      *)
THEOREM CollectTypes == CollectSpec => []CollectTypeOK
<1>1. QED
  BY WaveInit, WaveNext, WaveMeans, PTL DEF CollectSpec

(* What a member tells its right neighbour is what all to the left of it   *)
(* contribute.                                                             *)
THEOREM OffsetsCorrect == CollectSpec => []OffsetsInOrder
<1>1. QED
  BY WaveInit, WaveNext, WaveMeans, PTL DEF CollectSpec

(* A member nobody pokes in the closing barrier puts its slice at its      *)
(* place.                                                                  *)
THEOREM LeavesCorrect == CollectSpec => []LeavesInOrder
<1>1. QED
  BY WaveInit, WaveNext, WaveMeans, PTL DEF CollectSpec

(* Nobody returns from the collect before every slice has arrived.         *)
THEOREM SlicesArrive == CollectSpec => []FlushedOnReturn
<1>1. QED
  BY WaveInit, WaveNext, WaveMeans, PTL DEF CollectSpec

=============================================================================
