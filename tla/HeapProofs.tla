----------------------------- MODULE HeapProofs -----------------------------
(***************************************************************************)
(* Proofs about SymmetricHeap.  For every size of the segment, every       *)
(* number of PEs, pointers and calls: the heaps stay sound, every free     *)
(* chunk can be found again; and, where the segments begin on pages and no *)
(* alignment is above the page, a pointer that a PE may use is the same    *)
(* block on all PEs.                                                       *)
(*                                                                         *)
(* Sound(h) is the invariant of one heap: the chunks tile the segment from *)
(* the malloc_state to the top (Shaped), and the bins and the designated   *)
(* victim hold exactly the free ones.  What a function writes is stated    *)
(* once for each (WriteIs to SetFreeWithPinuseIs); Retiled says that a     *)
(* heap drawn anew from a to b keeps its shape when that part has it, and  *)
(* OneChunk, TwoChunks, TopAlone and UsedAndTop are the parts there are.   *)
(* In between, a chunk is free but not binned: Holds.  From these follow   *)
(* malloc (TakeChunkGot), free (DisposeIs), realloc (ReallocIs) and        *)
(* memalign (MemalignGot), and for each call CallOwns: the PE's pointers   *)
(* are blocks of their own, and no block but the call's own moves.         *)
(*                                                                         *)
(* That is inductive for each PE alone (TypeInv).  That the PEs agree is   *)
(* not: a PE's heap says nothing of another's.  HistoryInv says that there *)
(* is one history of numbered calls, heaps and pointers in which every PE  *)
(* has its place, and counts the barriers of the calls up to it.  A call   *)
(* in the stretch between two PEs that was about a pointer one of them may *)
(* use would have had a barrier that holds one of them back.  The history  *)
(* is that of a segment at Home; SameAnywhere says when a call does the    *)
(* same to a heap elsewhere.                                               *)
(***************************************************************************)
EXTENDS SymmetricHeap, NaturalLemmas, SequenceTheorems

-----------------------------------------------------------------------------
(* Lists without repetitions: a bin, and what the allocator does to it.    *)
ListOf(s, D, S) == s \in Seq(D) /\ IsInjective(s) /\ ToSet(s) = S

(* What a list without repetitions is, element by element.                 *)
LEMMA ListIs ==
    ASSUME NEW D, NEW s \in Seq(D)
    PROVE  /\ Len(s) \in Nat /\ DOMAIN s = 1 .. Len(s)
           /\ \A i \in 1 .. Len(s) : s[i] \in D
           /\ \A e : e \in ToSet(s) <=> \E i \in 1 .. Len(s) : s[i] = e
           /\ IsInjective(s) <=> \A i, j \in 1 .. Len(s) : s[i] = s[j] => i = j
<1>1. Len(s) \in Nat /\ DOMAIN s = 1 .. Len(s) /\ \A i \in 1 .. Len(s) : s[i] \in D
  BY LenProperties, ElementOfSeq, Zenon
<1>2. QED
  BY <1>1, Zenon DEF ToSet, IsInjective

(* What inserts p in place k of a list.                                    *)
LEMMA Inserted ==
    ASSUME NEW D, NEW S, NEW s, ListOf(s, D, S), NEW p \in D, p \notin S,
           NEW t \in Seq(D), Len(t) = Len(s) + 1, NEW k \in 1 .. Len(t),
           \A i \in 1 .. Len(t) : t[i] = IF i < k THEN s[i] ELSE IF i = k THEN p ELSE s[i - 1]
    PROVE  ListOf(t, D, S \union {p})
<1>1. /\ Len(s) \in Nat /\ \A e : e \in S <=> \E i \in 1 .. Len(s) : s[i] = e
      /\ \A i, j \in 1 .. Len(s) : s[i] = s[j] => i = j
  BY ListIs, Zenon DEF ListOf
<1>2. \A i \in 1 .. Len(s) : s[i] # p
  BY <1>1
<1>3. ASSUME NEW i \in 1 .. Len(t), NEW j \in 1 .. Len(t), t[i] = t[j]
      PROVE  i = j
  <2>1. \A x \in 1 .. Len(t) : x < k => x \in 1 .. Len(s) /\ t[x] = s[x]
    BY <1>1
  <2>2. \A x \in 1 .. Len(t) : x > k => x - 1 \in 1 .. Len(s) /\ t[x] = s[x - 1]
    BY <1>1
  <2>3. \A x \in 1 .. Len(t) : x # k => t[x] # p
    <3>1. \A x \in 1 .. Len(t) : x < k \/ x = k \/ x > k
      BY <1>1
    <3>2. QED
      BY <1>2, <2>1, <2>2, <3>1, Zenon
  <2>4. t[k] = p
    BY <1>1
  <2>5. CASE i = k \/ j = k
    BY <1>3, <2>3, <2>4, <2>5, Zenon
  <2>6. CASE i < k /\ j < k
    BY <1>1, <1>3, <2>1, <2>6, Zenon
  <2>7. CASE i > k /\ j > k
    <3>1. i - 1 = j - 1
      <4>1. i - 1 \in 1 .. Len(s) /\ j - 1 \in 1 .. Len(s) /\ t[i] = s[i - 1] /\ t[j] = s[j - 1]
        BY <2>2, <2>7
      <4>2. QED
        BY <1>1, <1>3, <4>1, Zenon
    <3>2. QED
      BY <3>1
  <2>8. CASE i < k /\ j > k
    <3>1. i = j - 1
      <4>1. i \in 1 .. Len(s) /\ j - 1 \in 1 .. Len(s) /\ t[i] = s[i] /\ t[j] = s[j - 1]
        BY <2>1, <2>2, <2>8
      <4>2. QED
        BY <1>1, <1>3, <4>1, Zenon
    <3>2. QED
      BY <2>8, <3>1
  <2>9. CASE i > k /\ j < k
    <3>1. i - 1 = j
      <4>1. i - 1 \in 1 .. Len(s) /\ j \in 1 .. Len(s) /\ t[i] = s[i - 1] /\ t[j] = s[j]
        BY <2>1, <2>2, <2>9
      <4>2. QED
        BY <1>1, <1>3, <4>1, Zenon
    <3>2. QED
      BY <2>9, <3>1
  <2>10. QED
    BY <1>1, <2>5, <2>6, <2>7, <2>8, <2>9
<1>4. \A e : (\E i \in 1 .. Len(t) : t[i] = e) <=> e \in S \union {p}
  <2>1. ASSUME NEW e \in S
        PROVE  \E i \in 1 .. Len(t) : t[i] = e
    <3>1. PICK i \in 1 .. Len(s) : s[i] = e
      BY <1>1
    <3>2. CASE i < k
      <4>1. i \in 1 .. Len(t) /\ t[i] = e
        BY <1>1, <3>1, <3>2
      <4>2. QED
        BY <4>1, Zenon
    <3>3. CASE i >= k
      <4>1. i + 1 \in 1 .. Len(t) /\ t[i + 1] = e
        BY <1>1, <3>1, <3>3
      <4>2. QED
        BY <4>1, Zenon
    <3>4. i < k \/ i >= k
      BY <1>1
    <3>5. QED
      BY <3>2, <3>3, <3>4, Zenon
  <2>2. t[k] = p
    BY <1>1
  <2>3. ASSUME NEW i \in 1 .. Len(t)
        PROVE  t[i] \in S \union {p}
    <3>1. i < k => i \in 1 .. Len(s)
      BY <1>1
    <3>2. i > k => i - 1 \in 1 .. Len(s)
      BY <1>1
    <3>3. QED
      BY <1>1, <3>1, <3>2
  <2>4. QED
    BY <2>1, <2>2, <2>3
<1>5. IsInjective(t)
  BY <1>3, ListIs, Zenon
<1>6. \A e : e \in ToSet(t) <=> e \in S \union {p}
  <2>1. \A e : e \in ToSet(t) <=> \E i \in 1 .. Len(t) : t[i] = e
    BY ListIs, Zenon
  <2>2. QED
    BY <1>4, <2>1, Zenon
<1>7. QED
  BY <1>5, <1>6 DEF ListOf

(* What removes the element at place k.                                    *)
LEMMA Removed ==
    ASSUME NEW D, NEW S, NEW s, ListOf(s, D, S), NEW k \in 1 .. Len(s),
           NEW t \in Seq(D), Len(t) = Len(s) - 1,
           \A i \in 1 .. Len(t) : t[i] = IF i < k THEN s[i] ELSE s[i + 1]
    PROVE  ListOf(t, D, S \ {s[k]})
<1>1. /\ Len(s) \in Nat /\ \A e : e \in S <=> \E i \in 1 .. Len(s) : s[i] = e
      /\ \A i, j \in 1 .. Len(s) : s[i] = s[j] => i = j
  BY ListIs, ZenonT(60) DEF ListOf
<1>2. \A i, j \in 1 .. Len(t) : t[i] = t[j] => i = j
  BY <1>1
<1>3. \A e : (\E i \in 1 .. Len(t) : t[i] = e) <=> e \in S \ {s[k]}
  <2>1. ASSUME NEW e \in S, e # s[k]
        PROVE  \E i \in 1 .. Len(t) : t[i] = e
    <3>1. PICK i \in 1 .. Len(s) : s[i] = e
      BY <1>1
    <3>2. CASE i < k
      <4>1. i \in 1 .. Len(t) /\ t[i] = e
        BY <1>1, <3>1, <3>2
      <4>2. QED
        BY <4>1, Zenon
    <3>3. CASE i > k
      <4>1. i - 1 \in 1 .. Len(t) /\ t[i - 1] = e
        BY <1>1, <3>1, <3>3
      <4>2. QED
        BY <4>1, Zenon
    <3>4. i < k \/ i > k
      BY <1>1, <2>1, <3>1
    <3>5. QED
      BY <3>2, <3>3, <3>4, Zenon
  <2>2. ASSUME NEW i \in 1 .. Len(t)
        PROVE  t[i] \in S \ {s[k]}
    <3>1. i < k => i \in 1 .. Len(s)
      BY <1>1
    <3>2. i >= k => i + 1 \in 1 .. Len(s)
      BY <1>1
    <3>3. QED
      BY <1>1, <3>1, <3>2
  <2>3. QED
    BY <2>1, <2>2
<1>4. QED
  BY <1>2, <1>3, ListIs, ZenonT(60) DEF ListOf

(* The first of a list that is put behind its head, or in front of it.     *)
LEMMA PushedInFront ==
    ASSUME NEW D, NEW S, NEW s, ListOf(s, D, S), NEW p \in D, p \notin S
    PROVE  ListOf(<<p>> \o s, D, S \union {p})
<1>1. s \in Seq(D) /\ <<p>> \in Seq(D) /\ Len(<<p>>) = 1 /\ Len(s) \in Nat
  BY LenProperties DEF ListOf
<1>2. /\ <<p>> \o s \in Seq(D) /\ Len(<<p>> \o s) = 1 + Len(s)
      /\ \A i \in 1 .. 1 + Len(s) : (<<p>> \o s)[i] = IF i <= 1 THEN <<p>>[i] ELSE s[i - 1]
  BY <1>1, ConcatProperties
<1>3. QED
  <2> DEFINE t == <<p>> \o s
  <2>1. /\ t \in Seq(D) /\ Len(t) = Len(s) + 1 /\ 1 \in 1 .. Len(t)
        /\ \A i \in 1 .. Len(t) : t[i] = IF i < 1 THEN s[i] ELSE IF i = 1 THEN p ELSE s[i - 1]
    BY <1>1, <1>2
  <2> HIDE DEF t
  <2>2. ListOf(t, D, S \union {p})
    BY <2>1, Inserted
  <2>3. QED
    BY <2>2 DEF t

(* A chunk that goes right behind the node of its ring.                    *)
LEMMA PushedSecond ==
    ASSUME NEW D, NEW S, NEW s, ListOf(s, D, S), s # << >>, NEW p \in D, p \notin S
    PROVE  ListOf(<<Head(s), p>> \o Tail(s), D, S \union {p})
<1>1. s \in Seq(D) /\ Len(s) \in Nat \ {0}
  BY EmptySeq DEF ListOf
<1>2. /\ Head(s) \in D /\ Tail(s) \in Seq(D) /\ Len(Tail(s)) = Len(s) - 1
      /\ \A i \in 1 .. Len(Tail(s)) : Tail(s)[i] = s[i + 1]
  BY <1>1, HeadTailProperties
<1>3. Head(s) = s[1]
  BY <1>1
<1>4. <<Head(s), p>> \in Seq(D) /\ Len(<<Head(s), p>>) = 2
  BY <1>2
<1>5. /\ <<Head(s), p>> \o Tail(s) \in Seq(D) /\ Len(<<Head(s), p>> \o Tail(s)) = 2 + Len(Tail(s))
      /\ \A i \in 1 .. 2 + Len(Tail(s)) : (<<Head(s), p>> \o Tail(s))[i] =
            IF i <= 2 THEN <<Head(s), p>>[i] ELSE Tail(s)[i - 2]
  BY <1>2, <1>4, ConcatProperties
<1>6. QED
  <2> DEFINE t == <<Head(s), p>> \o Tail(s)
  <2>1. t \in Seq(D) /\ Len(t) = Len(s) + 1 /\ 2 \in 1 .. Len(t)
    BY <1>1, <1>2, <1>5
  <2>2. ASSUME NEW i \in 1 .. Len(t)
        PROVE  t[i] = IF i < 2 THEN s[i] ELSE IF i = 2 THEN p ELSE s[i - 1]
    <3>1. t[i] = IF i <= 2 THEN <<Head(s), p>>[i] ELSE Tail(s)[i - 2]
      BY <1>1, <1>2, <1>5
    <3>2. i > 2 => Tail(s)[i - 2] = s[i - 1]
      BY <1>1, <1>2, <2>1
    <3>3. QED
      BY <1>1, <1>3, <2>1, <3>1, <3>2
  <2> HIDE DEF t
  <2>3. ListOf(t, D, S \union {p})
    BY <2>1, <2>2, Inserted
  <2>4. QED
    BY <2>3 DEF t

(* A chunk that is unlinked.                                               *)
LEMMA RemovedFirst ==
    ASSUME NEW D, NEW S, NEW s, ListOf(s, D, S), NEW p \in S
    PROVE  ListOf(RemoveFirst(s, p), D, S \ {p})
<1>1. /\ s \in Seq(D) /\ Len(s) \in Nat /\ \A e : e \in S <=> \E i \in 1 .. Len(s) : s[i] = e
      /\ \A i \in 1 .. Len(s) : s[i] \in D
  BY ListIs, Zenon DEF ListOf
<1>2. PICK k \in 1 .. Len(s) : s[k] = p /\ RemoveFirst(s, p) = RemoveAt(s, k)
  <2> DEFINE I == {i \in 1 .. Len(s) : s[i] = p}
  <2>1. I # {} /\ I \in SUBSET Nat
    BY <1>1
  <2>2. \E k \in I : \A i \in I : k <= i
    BY <2>1, LeastElement
  <2>3. Min(I) \in I
    BY <2>2 DEF Min
  <2>4. RemoveFirst(s, p) = RemoveAt(s, Min(I))
    BY <2>1 DEF RemoveFirst, SelectInSeq
  <2>5. QED
    BY <2>3, <2>4
<1>3. /\ SubSeq(s, 1, k - 1) \in Seq(D) /\ Len(SubSeq(s, 1, k - 1)) = k - 1
      /\ \A i \in 1 .. k - 1 : SubSeq(s, 1, k - 1)[i] = s[i]
  <2>1. 1 \in Int /\ k - 1 \in Int /\ \A i \in 1 .. k - 1 : s[i] \in D
    BY <1>1
  <2>2. /\ SubSeq(s, 1, k - 1) \in Seq(D)
        /\ Len(SubSeq(s, 1, k - 1)) = IF 1 <= k - 1 THEN (k - 1) - 1 + 1 ELSE 0
        /\ \A i \in 1 .. (k - 1) - 1 + 1 : SubSeq(s, 1, k - 1)[i] = s[1 + i - 1]
    BY <2>1, SubSeqProperties
  <2>3. QED
    BY <1>1, <2>2
<1>4. /\ SubSeq(s, k + 1, Len(s)) \in Seq(D) /\ Len(SubSeq(s, k + 1, Len(s))) = Len(s) - k
      /\ \A i \in 1 .. Len(s) - k : SubSeq(s, k + 1, Len(s))[i] = s[k + i]
  <2>1. k + 1 \in Int /\ Len(s) \in Int /\ \A i \in k + 1 .. Len(s) : s[i] \in D
    BY <1>1
  <2>2. /\ SubSeq(s, k + 1, Len(s)) \in Seq(D)
        /\ Len(SubSeq(s, k + 1, Len(s))) = IF k + 1 <= Len(s) THEN Len(s) - (k + 1) + 1 ELSE 0
        /\ \A i \in 1 .. Len(s) - (k + 1) + 1 : SubSeq(s, k + 1, Len(s))[i] = s[k + 1 + i - 1]
    BY <2>1, SubSeqProperties
  <2> DEFINE u == SubSeq(s, k + 1, Len(s))
             n == Len(s)
  <2>3. u \in Seq(D) /\ Len(u) = (IF k + 1 <= n THEN n - (k + 1) + 1 ELSE 0)
        /\ \A i \in 1 .. n - (k + 1) + 1 : u[i] = s[k + 1 + i - 1]
    BY <2>2
  <2> HIDE DEF u
  <2>4. n \in Nat /\ k \in 1 .. n
    BY <1>1
  <2> HIDE DEF n
  <2>5. Len(u) = n - k
    BY <2>3, <2>4
  <2>6. ASSUME NEW i \in 1 .. n - k
        PROVE  u[i] = s[k + i]
    <3>1. i \in 1 .. n - (k + 1) + 1 /\ k + 1 + i - 1 = k + i
      BY <2>4
    <3>2. QED
      BY <2>3, <3>1
  <2>7. QED
    BY <2>3, <2>5, <2>6 DEF u, n
<1>5. QED
  <2> DEFINE t == RemoveAt(s, k)
  <2>1. /\ t \in Seq(D) /\ Len(t) = (k - 1) + (Len(s) - k)
        /\ \A i \in 1 .. (k - 1) + (Len(s) - k) : t[i] =
              IF i <= k - 1 THEN SubSeq(s, 1, k - 1)[i] ELSE SubSeq(s, k + 1, Len(s))[i - (k - 1)]
    <3>1. t = SubSeq(s, 1, k - 1) \o SubSeq(s, k + 1, Len(s))
      BY DEF RemoveAt
    <3> DEFINE a == SubSeq(s, 1, k - 1)
               b == SubSeq(s, k + 1, Len(s))
    <3>2. /\ t \in Seq(D) /\ Len(t) = Len(a) + Len(b)
          /\ \A i \in 1 .. Len(a) + Len(b) : t[i] = IF i <= Len(a) THEN a[i] ELSE b[i - Len(a)]
      <4>1. a \in Seq(D) /\ b \in Seq(D)
        BY <1>3, <1>4
      <4> HIDE DEF a, b, t
      <4>2. t = a \o b
        BY <3>1 DEF a, b
      <4>3. QED
        BY <4>1, <4>2, ConcatProperties, Zenon
    <3>3. QED
      BY <1>3, <1>4, <3>2
  <2>2. Len(t) = Len(s) - 1
    BY <1>1, <2>1
  <2>3. ASSUME NEW i \in 1 .. Len(t)
        PROVE  t[i] = IF i < k THEN s[i] ELSE s[i + 1]
    <3>1. t[i] = IF i <= k - 1 THEN SubSeq(s, 1, k - 1)[i]
                 ELSE SubSeq(s, k + 1, Len(s))[i - (k - 1)]
      BY <2>1, <2>2
    <3>2. i < k => SubSeq(s, 1, k - 1)[i] = s[i]
      BY <1>1, <1>3, <2>2
    <3>3. i >= k => i - (k - 1) \in 1 .. Len(s) - k /\ k + (i - (k - 1)) = i + 1
      BY <1>1, <2>2
    <3>4. QED
      BY <1>1, <1>4, <2>2, <3>1, <3>2, <3>3
  <2> HIDE DEF t
  <2>4. ListOf(t, D, S \ {s[k]})
    BY <2>1, <2>2, <2>3, Removed
  <2>5. QED
    BY <1>2, <2>4 DEF t

(* The last of a ring that takes the place of the first.                   *)
LEMMA LastToFront ==
    ASSUME NEW D, NEW S, NEW s, ListOf(s, D, S), Len(s) > 1
    PROVE  ListOf(<<Last(s)>> \o Front(Tail(s)), D, S \ {Head(s)})
<1>1. /\ s \in Seq(D) /\ Len(s) \in Nat
      /\ \A e : e \in S <=> \E i \in 1 .. Len(s) : s[i] = e
      /\ \A i \in 1 .. Len(s) : s[i] \in D
      /\ \A i, j \in 1 .. Len(s) : s[i] = s[j] => i = j
  BY ListIs, Zenon DEF ListOf
<1>12. s # << >>
  BY <1>1
<1>2. /\ Head(s) = s[1] /\ Tail(s) \in Seq(D) /\ Len(Tail(s)) = Len(s) - 1
      /\ \A i \in 1 .. Len(Tail(s)) : Tail(s)[i] = s[i + 1]
  BY <1>1, <1>12, HeadTailProperties
<1>3. ListOf(Tail(s), D, S \ {s[1]})
  <2> DEFINE t == Tail(s)
  <2>1. /\ t \in Seq(D) /\ Len(t) = Len(s) - 1 /\ 1 \in 1 .. Len(s)
        /\ \A i \in 1 .. Len(t) : t[i] = IF i < 1 THEN s[i] ELSE s[i + 1]
    BY <1>1, <1>2
  <2> HIDE DEF t
  <2>2. ListOf(t, D, S \ {s[1]})
    BY <2>1, Removed
  <2>3. QED
    BY <2>2 DEF t
<1> DEFINE u == Tail(s)
           w == SubSeq(u, 1, Len(u) - 1)
<1>4. /\ u \in Seq(D) /\ Len(u) \in Nat \ {0} /\ Len(u) = Len(s) - 1
      /\ \A i \in 1 .. Len(u) : u[i] \in D
      /\ u[Len(u)] = s[Len(s)]
  BY <1>1, <1>2
<1>5. ListOf(u, D, S \ {s[1]})
  BY <1>3
<1> HIDE DEF u
<1>6. w \in Seq(D) /\ Len(w) = Len(u) - 1 /\ \A i \in 1 .. Len(w) : w[i] = u[i]
  <2>1. 1 \in Int /\ Len(u) - 1 \in Int /\ \A i \in 1 .. Len(u) - 1 : u[i] \in D
    BY <1>4
  <2>2. /\ w \in Seq(D)
        /\ Len(w) = IF 1 <= Len(u) - 1 THEN (Len(u) - 1) - 1 + 1 ELSE 0
        /\ \A i \in 1 .. (Len(u) - 1) - 1 + 1 : w[i] = u[1 + i - 1]
    BY <2>1, SubSeqProperties
  <2>3. QED
    BY <1>4, <2>2
<1> HIDE DEF w
<1>7. ListOf(w, D, (S \ {s[1]}) \ {s[Len(s)]})
  <2>1. /\ Len(u) \in 1 .. Len(u)
        /\ \A i \in 1 .. Len(w) : w[i] = IF i < Len(u) THEN u[i] ELSE u[i + 1]
    BY <1>4, <1>6
  <2>2. QED
    BY <1>4, <1>5, <1>6, <2>1, Removed
<1>8. s[Len(s)] \in D /\ s[Len(s)] \in S /\ s[Len(s)] # s[1]
  BY <1>1
<1>9. ListOf(<<s[Len(s)]>> \o w, D, ((S \ {s[1]}) \ {s[Len(s)]}) \union {s[Len(s)]})
  BY <1>7, <1>8, PushedInFront
<1>10. ((S \ {s[1]}) \ {s[Len(s)]}) \union {s[Len(s)]} = S \ {s[1]}
  BY <1>8
<1>11. QED
  BY <1>2, <1>9, <1>10 DEF Last, Front, w, u

-----------------------------------------------------------------------------
(* Heaps, and what writing headers does to them.                           *)
HeadRec == [size : Nat, cinuse : BOOLEAN, pinuse : BOOLEAN, prev_foot : Nat]
Places == 0 .. HeapSize - 1

HeapRec ==
    [head : UNION {[D -> HeadRec] : D \in SUBSET Places}, bins : [Sizes -> Seq(Places)],
     dv : Nat, dvsize : Nat, top : Nat, topsize : Nat]

SameBooks(h, w) == w.bins = h.bins /\ w.dv = h.dv /\ w.dvsize = h.dvsize
SameTop(h, w) == w.top = h.top /\ w.topsize = h.topsize

prev_foot(h, p) == HeadOf(h, p).prev_foot

(* The constants, as the assumption gives them.                            *)
LEMMA ConstantsAre ==
    /\ HeapSize \in Nat /\ MstateSize \in Nat /\ MinLarge \in Nat
    /\ MstateSize > 0 /\ HeapSize > MstateSize /\ MinLarge > 2 /\ MinLarge <= HeapSize
    /\ MIN_CHUNK_SIZE = 2 /\ NULL = 0 /\ Sizes = 2 .. HeapSize
BY MspaceAssumption DEF MIN_CHUNK_SIZE, NULL, Sizes

(* The types of a heap's parts.                                            *)
LEMMA HeapIs ==
    ASSUME NEW h \in HeapRec
    PROVE  /\ Chunks(h) \subseteq Places /\ Chunks(h) \subseteq Nat
           /\ h.head \in [Chunks(h) -> HeadRec]
           /\ h.bins \in [Sizes -> Seq(Places)]
           /\ h.dv \in Nat /\ h.dvsize \in Nat /\ h.top \in Nat /\ h.topsize \in Nat
           /\ \A q : HeadOf(h, q) \in HeadRec
           /\ \A q : /\ chunksize(h, q) \in Nat /\ prev_foot(h, q) \in Nat
                     /\ cinuse(h, q) \in BOOLEAN /\ pinuse(h, q) \in BOOLEAN
           /\ \A q : HeadOf(h, q) = [size |-> chunksize(h, q), cinuse |-> cinuse(h, q),
                                     pinuse |-> pinuse(h, q), prev_foot |-> prev_foot(h, q)]
<1>1. PICK D \in SUBSET Places : h.head \in [D -> HeadRec]
  BY DEF HeapRec
<1>2. Chunks(h) = D
  BY <1>1 DEF Chunks
<1>3. Blank \in HeadRec
  BY DEF Blank, HeadRec
<1>4. \A q : HeadOf(h, q) \in HeadRec
  BY <1>1, <1>2, <1>3 DEF HeadOf, Chunks
<1>5. Places \subseteq Nat
  BY ConstantsAre DEF Places
<1>6. /\ h.bins \in [Sizes -> Seq(Places)]
      /\ h.dv \in Nat /\ h.dvsize \in Nat /\ h.top \in Nat /\ h.topsize \in Nat
  BY DEF HeapRec
<1>7. \A q : /\ chunksize(h, q) \in Nat /\ prev_foot(h, q) \in Nat
             /\ cinuse(h, q) \in BOOLEAN /\ pinuse(h, q) \in BOOLEAN
  BY <1>4 DEF HeadRec, chunksize, prev_foot, cinuse, pinuse
<1>8. \A q : HeadOf(h, q) = [size |-> chunksize(h, q), cinuse |-> cinuse(h, q),
                             pinuse |-> pinuse(h, q), prev_foot |-> prev_foot(h, q)]
  BY <1>4 DEF HeadRec, chunksize, prev_foot, cinuse, pinuse
<1>9. QED
  BY <1>1, <1>2, <1>4, <1>5, <1>6, <1>7, <1>8, Zenon

(* What is left of the headers when that of p is written.                  *)
LEMMA WriteIs ==
    ASSUME NEW h \in HeapRec, NEW p \in Places, NEW hd \in HeadRec
    PROVE  /\ Write(h, p, hd) \in HeapRec
           /\ SameBooks(h, Write(h, p, hd)) /\ SameTop(h, Write(h, p, hd))
           /\ Chunks(Write(h, p, hd)) = {p} \union (Chunks(h) \ (p + 1 .. p + hd.size - 1))
           /\ HeadOf(Write(h, p, hd), p) = hd
           /\ \A q \in Chunks(Write(h, p, hd)) : q # p => HeadOf(Write(h, p, hd), q) = HeadOf(h, q)
           /\ \A q : q # p /\ q \notin Chunks(h) => HeadOf(Write(h, p, hd), q) = Blank
<1> DEFINE E == {p} \union (Chunks(h) \ (p + 1 .. p + hd.size - 1))
           f == [q \in E |-> IF q = p THEN hd ELSE h.head[q]]
           w == Write(h, p, hd)
<1>1. w = [h EXCEPT !.head = f]
  BY DEF Write, Chunks
<1>2. Chunks(h) \subseteq Places /\ h.head \in [Chunks(h) -> HeadRec]
  BY HeapIs, Zenon
<1>3. E \in SUBSET Places /\ f \in [E -> HeadRec] /\ DOMAIN f = E
  BY <1>2
<1> HIDE DEF f, w
<1>4. w.head = f /\ w \in HeapRec /\ SameBooks(h, w) /\ SameTop(h, w)
  <2>1. w.head = f /\ SameBooks(h, w) /\ SameTop(h, w)
    BY <1>1 DEF HeapRec, SameBooks, SameTop
  <2>2. f \in UNION {[D -> HeadRec] : D \in SUBSET Places}
    BY <1>3
  <2>3. QED
    BY <1>1, <2>1, <2>2 DEF HeapRec
<1>5. Chunks(w) = E
  BY <1>3, <1>4 DEF Chunks
<1>6. HeadOf(w, p) = hd
  BY <1>4, <1>5 DEF HeadOf, Chunks, f
<1>7. ASSUME NEW q \in E, q # p
      PROVE  HeadOf(w, q) = HeadOf(h, q)
  BY <1>4, <1>5, <1>7 DEF HeadOf, Chunks, f
<1>8. \A q : q \notin E => HeadOf(w, q) = Blank
  BY <1>5 DEF HeadOf, Chunks
<1>9. QED
  BY <1>4, <1>5, <1>6, <1>7, <1>8 DEF w

(* The header of p says s, and that of p + s what p is; no other changes   *)
(* and what was between them is hidden.                                    *)
Wrote(h, w, p, s) ==
    /\ w \in HeapRec /\ SameBooks(h, w) /\ SameTop(h, w)
    /\ Chunks(w) = {p, p + s} \union (Chunks(h) \ (p + 1 .. p + s - 1))
    /\ chunksize(w, p) = s
    /\ chunksize(w, p + s) = chunksize(h, p + s) /\ cinuse(w, p + s) = cinuse(h, p + s)
    /\ \A q \in Chunks(w) : q # p /\ q # p + s => HeadOf(w, q) = HeadOf(h, q)

(* Nothing is inside the chunk at b.                                       *)
Solid(h, b) == \A q \in Chunks(h) : ~(b < q /\ q < b + chunksize(h, b))

(* Two headers written after one another.                                  *)
LEMMA WriteTwo ==
    ASSUME NEW h \in HeapRec, NEW p \in Places, NEW s \in Nat, s > 0, p + s \in Places,
           Solid(h, p + s), NEW hd \in HeadRec, hd.size = s,
           NEW he \in HeadRec, he.size = chunksize(h, p + s), he.cinuse = cinuse(h, p + s)
    PROVE  /\ Wrote(h, Write(Write(h, p, hd), p + s, he), p, s)
           /\ HeadOf(Write(Write(h, p, hd), p + s, he), p) = hd
           /\ HeadOf(Write(Write(h, p, hd), p + s, he), p + s) = he
           /\ HeadOf(Write(h, p, hd), p + s) = HeadOf(h, p + s)
<1> DEFINE b == p + s
           v == Write(h, p, hd)
           w == Write(v, b, he)
<1>1. p \in Nat /\ b \in Nat /\ b # p /\ b \in Places /\ Chunks(h) \subseteq Nat
  BY HeapIs DEF Places
<1>2. /\ v \in HeapRec /\ SameBooks(h, v) /\ SameTop(h, v)
      /\ Chunks(v) = {p} \union (Chunks(h) \ (p + 1 .. p + s - 1))
      /\ HeadOf(v, p) = hd
      /\ \A q \in Chunks(v) : q # p => HeadOf(v, q) = HeadOf(h, q)
      /\ \A q : q # p /\ q \notin Chunks(h) => HeadOf(v, q) = Blank
  <2>1. /\ v \in HeapRec /\ SameBooks(h, v) /\ SameTop(h, v)
        /\ Chunks(v) = {p} \union (Chunks(h) \ (p + 1 .. p + hd.size - 1))
        /\ HeadOf(v, p) = hd
        /\ \A q \in Chunks(v) : q # p => HeadOf(v, q) = HeadOf(h, q)
        /\ \A q : q # p /\ q \notin Chunks(h) => HeadOf(v, q) = Blank
    BY WriteIs
  <2>2. QED
    BY <2>1, Zenon
<1>3. HeadOf(v, b) = HeadOf(h, b)
  <2>1. CASE b \in Chunks(h)
    <3>1. b \in Chunks(v)
      BY <1>1, <1>2, <2>1
    <3>2. QED
      BY <1>1, <1>2, <3>1
  <2>2. CASE b \notin Chunks(h)
    <3>1. HeadOf(h, b) = Blank
      BY <2>2 DEF HeadOf, Chunks
    <3>2. QED
      BY <1>1, <1>2, <2>2, <3>1
  <2>3. QED
    BY <2>1, <2>2
<1> HIDE DEF b, v
<1>11. v \in HeapRec /\ b \in Places
  BY <1>1, <1>2
<1>4. /\ w \in HeapRec /\ SameBooks(v, w) /\ SameTop(v, w)
      /\ Chunks(w) = {b} \union (Chunks(v) \ (b + 1 .. b + he.size - 1))
      /\ HeadOf(w, b) = he
      /\ \A q \in Chunks(w) : q # b => HeadOf(w, q) = HeadOf(v, q)
      /\ \A q : q # b /\ q \notin Chunks(v) => HeadOf(w, q) = Blank
  BY <1>11, WriteIs
<1> HIDE DEF w
<1>5. Chunks(w) = {p, b} \union (Chunks(h) \ (p + 1 .. p + s - 1))
  <2>1. p < b /\ he.size \in Nat
    BY <1>1 DEF b, HeadRec
  <2>2. \A q \in Chunks(h) : q \notin b + 1 .. b + he.size - 1
    BY <1>1, <2>1 DEF Solid, b
  <2>3. p \notin b + 1 .. b + he.size - 1
    BY <1>1, <2>1
  <2>4. QED
    BY <1>2, <1>4, <2>2, <2>3
<1>6. HeadOf(w, p) = hd
  BY <1>1, <1>2, <1>4, <1>5
<1>7. \A q \in Chunks(w) : q # p /\ q # b => HeadOf(w, q) = HeadOf(h, q)
  BY <1>2, <1>4, <1>5
<1>8. chunksize(w, p) = s /\ chunksize(w, b) = chunksize(h, b) /\ cinuse(w, b) = cinuse(h, b)
  BY <1>4, <1>6 DEF chunksize, cinuse, b
<1>9. SameBooks(h, w) /\ SameTop(h, w)
  BY <1>2, <1>4 DEF SameBooks, SameTop
<1>10. QED
  BY <1>3, <1>4, <1>5, <1>6, <1>7, <1>8, <1>9 DEF Wrote, w, v, b

(* What set_inuse writes.                                                  *)
LEMMA SetInuseIs ==
    ASSUME NEW h \in HeapRec, NEW p \in Places, NEW s \in Nat, s > 0, p + s \in Places,
           Solid(h, p + s)
    PROVE  /\ Wrote(h, set_inuse(h, p, s), p, s)
           /\ cinuse(set_inuse(h, p, s), p)
           /\ pinuse(set_inuse(h, p, s), p) = pinuse(h, p)
           /\ prev_foot(set_inuse(h, p, s), p) = prev_foot(h, p)
           /\ pinuse(set_inuse(h, p, s), p + s)
<1> DEFINE hd == [HeadOf(h, p) EXCEPT !.size = s, !.cinuse = TRUE]
           he == [HeadOf(h, p + s) EXCEPT !.pinuse = TRUE, !.prev_foot = 0]
<1>1. HeadOf(h, p) \in HeadRec /\ HeadOf(h, p + s) \in HeadRec
  BY HeapIs, Zenon
<1>2. hd \in HeadRec /\ hd.size = s /\ hd.cinuse = TRUE /\ hd.pinuse = pinuse(h, p)
      /\ hd.prev_foot = prev_foot(h, p)
  BY <1>1 DEF HeadRec, pinuse, prev_foot
<1>3. he \in HeadRec /\ he.size = chunksize(h, p + s) /\ he.cinuse = cinuse(h, p + s)
      /\ he.pinuse = TRUE
  BY <1>1 DEF HeadRec, chunksize, cinuse
<1> DEFINE w == Write(Write(h, p, hd), p + s, he)
<1> HIDE DEF hd, he
<1>7. hd \in HeadRec /\ hd.size = s /\ he \in HeadRec /\ he.size = chunksize(h, p + s)
  BY <1>2, <1>3
<1>8. he.cinuse = cinuse(h, p + s)
  BY <1>3
<1>4. /\ Wrote(h, w, p, s) /\ HeadOf(w, p) = hd /\ HeadOf(w, p + s) = he
      /\ HeadOf(Write(h, p, hd), p + s) = HeadOf(h, p + s)
  BY <1>7, <1>8, WriteTwo
<1>5. set_inuse(h, p, s) = w
  BY <1>4 DEF set_inuse, set_pinuse, hd, he
<1> HIDE DEF w
<1>6. QED
  BY <1>2, <1>3, <1>4, <1>5 DEF cinuse, pinuse, prev_foot

(* What set_size_and_pinuse_of_free_chunk writes: the foot too.            *)
LEMMA SetFreeIs ==
    ASSUME NEW h \in HeapRec, NEW p \in Places, NEW s \in Nat, s > 0, p + s \in Places,
           Solid(h, p + s)
    PROVE  /\ Wrote(h, set_size_and_pinuse_of_free_chunk(h, p, s), p, s)
           /\ ~cinuse(set_size_and_pinuse_of_free_chunk(h, p, s), p)
           /\ pinuse(set_size_and_pinuse_of_free_chunk(h, p, s), p)
           /\ pinuse(set_size_and_pinuse_of_free_chunk(h, p, s), p + s) = pinuse(h, p + s)
           /\ prev_foot(set_size_and_pinuse_of_free_chunk(h, p, s), p + s) = s
<1> DEFINE hd == [HeadOf(h, p) EXCEPT !.size = s, !.cinuse = FALSE, !.pinuse = TRUE]
           he == [HeadOf(h, p + s) EXCEPT !.prev_foot = s]
<1>1. HeadOf(h, p) \in HeadRec /\ HeadOf(h, p + s) \in HeadRec
  BY HeapIs, Zenon
<1>2. hd \in HeadRec /\ hd.size = s /\ hd.cinuse = FALSE /\ hd.pinuse = TRUE
  BY <1>1 DEF HeadRec
<1>3. he \in HeadRec /\ he.size = chunksize(h, p + s) /\ he.cinuse = cinuse(h, p + s)
      /\ he.pinuse = pinuse(h, p + s) /\ he.prev_foot = s
  BY <1>1 DEF HeadRec, chunksize, cinuse, pinuse
<1> DEFINE w == Write(Write(h, p, hd), p + s, he)
<1> HIDE DEF hd, he
<1>4. /\ Wrote(h, w, p, s) /\ HeadOf(w, p) = hd /\ HeadOf(w, p + s) = he
      /\ HeadOf(Write(h, p, hd), p + s) = HeadOf(h, p + s)
  <2>1. hd \in HeadRec /\ hd.size = s /\ he \in HeadRec /\ he.size = chunksize(h, p + s)
    BY <1>2, <1>3
  <2>2. he.cinuse = cinuse(h, p + s)
    BY <1>3
  <2>3. QED
    BY <2>1, <2>2, WriteTwo
<1>5. set_size_and_pinuse_of_free_chunk(h, p, s) = w
  BY <1>4 DEF set_size_and_pinuse_of_free_chunk, set_foot, hd, he
<1> HIDE DEF w
<1>6. QED
  BY <1>2, <1>3, <1>4, <1>5 DEF cinuse, pinuse, prev_foot

(* The chunk that is taken, whose neighbour before it is in use.           *)
LEMMA SetInuseOfChunkIs ==
    ASSUME NEW h \in HeapRec, NEW p \in Places, NEW s \in Nat
    PROVE  LET w == set_size_and_pinuse_of_inuse_chunk(h, p, s) IN
           /\ w \in HeapRec /\ SameBooks(h, w) /\ SameTop(h, w)
           /\ Chunks(w) = {p} \union (Chunks(h) \ (p + 1 .. p + s - 1))
           /\ chunksize(w, p) = s /\ cinuse(w, p) /\ pinuse(w, p)
           /\ \A q \in Chunks(w) : q # p => HeadOf(w, q) = HeadOf(h, q)
           /\ \A q : q # p /\ q \notin Chunks(h) => HeadOf(w, q) = Blank
<1> DEFINE hd == [HeadOf(h, p) EXCEPT !.size = s, !.cinuse = TRUE, !.pinuse = TRUE]
           w == Write(h, p, hd)
<1>1. HeadOf(h, p) \in HeadRec
  BY HeapIs, Zenon
<1>2. hd \in HeadRec /\ hd.size = s /\ hd.cinuse = TRUE /\ hd.pinuse = TRUE
  BY <1>1 DEF HeadRec
<1>3. set_size_and_pinuse_of_inuse_chunk(h, p, s) = w
  BY DEF set_size_and_pinuse_of_inuse_chunk
<1> HIDE DEF hd
<1>4. /\ w \in HeapRec /\ SameBooks(h, w) /\ SameTop(h, w)
      /\ Chunks(w) = {p} \union (Chunks(h) \ (p + 1 .. p + s - 1))
      /\ HeadOf(w, p) = hd
      /\ \A q \in Chunks(w) : q # p => HeadOf(w, q) = HeadOf(h, q)
      /\ \A q : q # p /\ q \notin Chunks(h) => HeadOf(w, q) = Blank
  <2>1. hd \in HeadRec /\ hd.size = s
    BY <1>2
  <2>2. QED
    BY <2>1, WriteIs
<1> HIDE DEF w
<1>5. chunksize(w, p) = s /\ cinuse(w, p) /\ pinuse(w, p)
  BY <1>2, <1>4 DEF chunksize, cinuse, pinuse
<1>6. QED
  BY <1>3, <1>4, <1>5, Zenon

(* What set_inuse_and_pinuse writes: three headers, one after the other.   *)
LEMMA SetInuseAndPinuseIs ==
    ASSUME NEW h \in HeapRec, NEW p \in Places, NEW s \in Nat, s > 0, p + s \in Places,
           Solid(h, p + s)
    PROVE  /\ Wrote(h, set_inuse_and_pinuse(h, p, s), p, s)
           /\ cinuse(set_inuse_and_pinuse(h, p, s), p)
           /\ pinuse(set_inuse_and_pinuse(h, p, s), p)
           /\ pinuse(set_inuse_and_pinuse(h, p, s), p + s)
<1> DEFINE v == set_size_and_pinuse_of_inuse_chunk(h, p, s)
           w == set_inuse(v, p, s)
<1>1. p \in Nat /\ p + s \in Nat /\ p + s # p /\ Chunks(h) \subseteq Nat
  BY HeapIs DEF Places
<1>2. /\ v \in HeapRec /\ SameBooks(h, v) /\ SameTop(h, v)
      /\ Chunks(v) = {p} \union (Chunks(h) \ (p + 1 .. p + s - 1))
      /\ chunksize(v, p) = s /\ cinuse(v, p) /\ pinuse(v, p)
      /\ \A q \in Chunks(v) : q # p => HeadOf(v, q) = HeadOf(h, q)
      /\ \A q : q # p /\ q \notin Chunks(h) => HeadOf(v, q) = Blank
  BY SetInuseOfChunkIs
<1> HIDE DEF v
<1>3. HeadOf(v, p + s) = HeadOf(h, p + s)
  <2>1. p + s \in Chunks(h) => p + s \in Chunks(v)
    BY <1>1, <1>2
  <2>2. p + s \notin Chunks(h) => HeadOf(h, p + s) = Blank
    BY DEF HeadOf, Chunks
  <2>3. QED
    BY <1>1, <1>2, <2>1, <2>2
<1>4. chunksize(v, p + s) = chunksize(h, p + s) /\ cinuse(v, p + s) = cinuse(h, p + s)
  BY <1>3 DEF chunksize, cinuse
<1>5. Solid(v, p + s)
  BY <1>1, <1>2, <1>4 DEF Solid
<1>6. /\ Wrote(v, w, p, s) /\ cinuse(w, p) /\ pinuse(w, p) = pinuse(v, p) /\ pinuse(w, p + s)
  BY <1>2, <1>5, SetInuseIs
<1> HIDE DEF w
<1>7. Chunks(w) = {p, p + s} \union (Chunks(h) \ (p + 1 .. p + s - 1))
  BY <1>1, <1>2, <1>6 DEF Wrote
<1>8. \A q \in Chunks(w) : q # p /\ q # p + s => HeadOf(w, q) = HeadOf(h, q)
  BY <1>2, <1>6, <1>7 DEF Wrote
<1>9. w \in HeapRec /\ SameBooks(h, w) /\ SameTop(h, w)
  BY <1>2, <1>6 DEF Wrote, SameBooks, SameTop
<1>10. Wrote(h, w, p, s)
  BY <1>4, <1>6, <1>7, <1>8, <1>9 DEF Wrote
<1>11. set_inuse_and_pinuse(h, p, s) = w
  BY DEF set_inuse_and_pinuse, w, v
<1>12. QED
  BY <1>2, <1>6, <1>10, <1>11

(* clear_pinuse writes nothing but that bit.                               *)
LEMMA ClearPinuseIs ==
    ASSUME NEW h \in HeapRec, NEW n \in Places, Solid(h, n), n \in Chunks(h)
    PROVE  LET w == clear_pinuse(h, n) IN
           /\ w \in HeapRec /\ SameBooks(h, w) /\ SameTop(h, w)
           /\ Chunks(w) = Chunks(h)
           /\ chunksize(w, n) = chunksize(h, n) /\ cinuse(w, n) = cinuse(h, n) /\ ~pinuse(w, n)
           /\ prev_foot(w, n) = prev_foot(h, n)
           /\ \A q : q # n => HeadOf(w, q) = HeadOf(h, q)
<1> DEFINE hd == [HeadOf(h, n) EXCEPT !.pinuse = FALSE]
           w == Write(h, n, hd)
<1>1. HeadOf(h, n) \in HeadRec
  BY HeapIs, Zenon
<1>2. hd \in HeadRec /\ hd.size = chunksize(h, n) /\ hd.cinuse = cinuse(h, n)
      /\ hd.pinuse = FALSE /\ hd.prev_foot = prev_foot(h, n)
  BY <1>1 DEF HeadRec, chunksize, cinuse, prev_foot
<1>3. clear_pinuse(h, n) = w
  BY DEF clear_pinuse
<1> HIDE DEF hd
<1>4. /\ w \in HeapRec /\ SameBooks(h, w) /\ SameTop(h, w)
      /\ Chunks(w) = {n} \union (Chunks(h) \ (n + 1 .. n + chunksize(h, n) - 1))
      /\ HeadOf(w, n) = hd
      /\ \A q \in Chunks(w) : q # n => HeadOf(w, q) = HeadOf(h, q)
      /\ \A q : q # n /\ q \notin Chunks(h) => HeadOf(w, q) = Blank
  <2>1. hd \in HeadRec /\ hd.size = chunksize(h, n)
    BY <1>2
  <2>2. QED
    BY <2>1, WriteIs
<1> HIDE DEF w
<1>5. Chunks(w) = Chunks(h)
  <2>1. Chunks(h) \subseteq Nat /\ n \in Nat /\ chunksize(h, n) \in Nat
    BY HeapIs
  <2>2. \A q \in Chunks(h) : q \notin n + 1 .. n + chunksize(h, n) - 1
    BY <2>1 DEF Solid
  <2>3. QED
    BY <1>4, <2>2
<1>6. \A q : q \notin Chunks(h) => HeadOf(h, q) = Blank
  BY DEF HeadOf, Chunks
<1>7. \A q : q # n => HeadOf(w, q) = HeadOf(h, q)
  BY <1>4, <1>5, <1>6
<1>8. /\ chunksize(w, n) = chunksize(h, n) /\ cinuse(w, n) = cinuse(h, n) /\ ~pinuse(w, n)
      /\ prev_foot(w, n) = prev_foot(h, n)
  BY <1>2, <1>4 DEF chunksize, cinuse, pinuse, prev_foot
<1>9. QED
  BY <1>3, <1>4, <1>5, <1>7, <1>8, Zenon

(* What set_free_with_pinuse writes.                                       *)
LEMMA SetFreeWithPinuseIs ==
    ASSUME NEW h \in HeapRec, NEW p \in Places, NEW s \in Nat, s > 0, p + s \in Chunks(h),
           Solid(h, p + s)
    PROVE  LET w == set_free_with_pinuse(h, p, s, p + s) IN
           /\ Wrote(h, w, p, s) /\ ~cinuse(w, p) /\ pinuse(w, p)
           /\ ~pinuse(w, p + s) /\ prev_foot(w, p + s) = s
<1> DEFINE n == p + s
           v == clear_pinuse(h, n)
           w == set_size_and_pinuse_of_free_chunk(v, p, s)
<1>1. p \in Nat /\ n \in Nat /\ n # p /\ n \in Places
  BY HeapIs DEF Places
<1>2. /\ v \in HeapRec /\ SameBooks(h, v) /\ SameTop(h, v)
      /\ Chunks(v) = Chunks(h)
      /\ chunksize(v, n) = chunksize(h, n) /\ cinuse(v, n) = cinuse(h, n) /\ ~pinuse(v, n)
      /\ \A q : q # n => HeadOf(v, q) = HeadOf(h, q)
  BY <1>1, ClearPinuseIs
<1> HIDE DEF v
<1>3. Solid(v, n)
  BY <1>2 DEF Solid
<1>4. /\ Wrote(v, w, p, s) /\ ~cinuse(w, p) /\ pinuse(w, p)
      /\ pinuse(w, n) = pinuse(v, n) /\ prev_foot(w, n) = s
  BY <1>1, <1>2, <1>3, SetFreeIs
<1> HIDE DEF w
<1>5. Wrote(h, w, p, s)
  BY <1>2, <1>4 DEF Wrote, SameBooks, SameTop
<1>6. set_free_with_pinuse(h, p, s, p + s) = w
  BY DEF set_free_with_pinuse, w, v
<1>7. QED
  BY <1>2, <1>4, <1>5, <1>6

-----------------------------------------------------------------------------
(* The shape of a heap between two operations.                             *)
Tile(h, p) ==
    /\ chunksize(h, p) > 0 /\ p + chunksize(h, p) \in Chunks(h)
    /\ pinuse(h, p + chunksize(h, p)) = cinuse(h, p)
    /\ ~cinuse(h, p) => prev_foot(h, p + chunksize(h, p)) = chunksize(h, p)
    /\ \A q \in Chunks(h) : ~(p < q /\ q < p + chunksize(h, p))

Whole(h, p) == ~cinuse(h, p) => pinuse(h, p) /\ (p # h.top => chunksize(h, p) >= 2)

TopEnds(h) ==
    /\ h.top \in Chunks(h) /\ ~cinuse(h, h.top) /\ chunksize(h, h.top) = h.topsize
    /\ h.topsize > 0 /\ h.top + h.topsize = HeapSize
    /\ \A p \in Chunks(h) : p <= h.top

Shaped(h) ==
    /\ h \in HeapRec /\ TopEnds(h)
    /\ 0 \in Chunks(h) /\ cinuse(h, 0)
    /\ \A p \in Chunks(h) : (p # h.top => Tile(h, p)) /\ Whole(h, p)

(* Only the chunks from a to b are drawn anew.                             *)
Redrawn(h, w, a, b) ==
    /\ w \in HeapRec /\ a \in Chunks(w)
    /\ \A q : q \notin a .. b - 1 => (q \in Chunks(w) <=> q \in Chunks(h))
    /\ \A q \in Chunks(w) : q \notin a .. b => HeadOf(w, q) = HeadOf(h, q)
    /\ chunksize(w, b) = chunksize(h, b) /\ cinuse(w, b) = cinuse(h, b)
    /\ pinuse(w, a) = pinuse(h, a)
    /\ ~pinuse(h, a) => prev_foot(w, a) = prev_foot(h, a)

(* A heap is well shaped when what was drawn anew is.                      *)
LEMMA Retiled ==
    ASSUME NEW h, Shaped(h), NEW w, NEW a \in Chunks(h), NEW b \in Nat, a # 0, a < b,
           Redrawn(h, w, a, b), TopEnds(w),
           \/ b \in Chunks(h) /\ w.top = h.top
           \/ b = HeapSize /\ w.top >= a,
           \A q \in Chunks(w) : q \in a .. b - 1 => (q # w.top => Tile(w, q)) /\ Whole(w, q),
           b \in Chunks(h) => Whole(w, b)
    PROVE  Shaped(w)
<1>1. /\ h \in HeapRec /\ w \in HeapRec
      /\ Chunks(h) \subseteq Nat /\ Chunks(w) \subseteq Nat
      /\ \A q \in Chunks(h) : q < HeapSize
      /\ \A q : chunksize(h, q) \in Nat /\ chunksize(w, q) \in Nat
      /\ HeapSize \in Nat /\ h.top \in Nat /\ w.top \in Nat
  <2>1. h \in HeapRec /\ w \in HeapRec
    BY DEF Shaped, Redrawn
  <2>2. QED
    BY <2>1, HeapIs, ConstantsAre DEF Places
<1>2. /\ \A q : q \notin a .. b - 1 => (q \in Chunks(w) <=> q \in Chunks(h))
      /\ \A q \in Chunks(w) : q \notin a .. b =>
            /\ chunksize(w, q) = chunksize(h, q) /\ cinuse(w, q) = cinuse(h, q)
            /\ pinuse(w, q) = pinuse(h, q) /\ prev_foot(w, q) = prev_foot(h, q)
      /\ chunksize(w, b) = chunksize(h, b) /\ cinuse(w, b) = cinuse(h, b)
      /\ a \in Chunks(w) /\ pinuse(w, a) = pinuse(h, a)
      /\ ~pinuse(h, a) => prev_foot(w, a) = prev_foot(h, a)
  BY DEF Redrawn, chunksize, cinuse, pinuse, prev_foot
<1>3. \A q \in Chunks(h) : q < HeapSize
  BY <1>1
<1>4. ASSUME NEW q \in Chunks(w), q < a
      PROVE  (q # w.top => Tile(w, q)) /\ Whole(w, q)
  <2>1. q \in Chunks(h) /\ q # h.top /\ q # w.top /\ q \notin a .. b
    BY <1>1, <1>2, <1>4 DEF Shaped, TopEnds
  <2>2. Tile(h, q) /\ Whole(h, q)
    BY <2>1 DEF Shaped
  <2> DEFINE n == q + chunksize(h, q)
  <2>3. chunksize(w, q) = chunksize(h, q) /\ n <= a /\ n \in Nat
    BY <1>1, <1>2, <1>4, <2>1, <2>2 DEF Tile
  <2>4. n \in Chunks(w) /\ pinuse(w, n) = pinuse(h, n)
        /\ (~pinuse(h, n) => prev_foot(w, n) = prev_foot(h, n))
    <3>1. CASE n = a
      BY <1>2, <3>1
    <3>2. CASE n < a
      <4>1. n \in Chunks(h) /\ n \notin a .. b
        BY <1>1, <2>2, <3>2 DEF Tile
      <4>2. n \notin a .. b - 1
        BY <1>1, <2>3, <3>2
      <4>3. QED
        BY <1>2, <4>1, <4>2
    <3>3. QED
      BY <1>1, <2>3, <3>1, <3>2
  <2>5. \A r \in Chunks(w) : ~(q < r /\ r < n)
    <3>1. \A r \in Chunks(w) : r < a => r \in Chunks(h)
      BY <1>1, <1>2
    <3>2. QED
      BY <1>1, <2>2, <2>3, <3>1 DEF Tile
  <2>6. cinuse(w, q) = cinuse(h, q) /\ pinuse(w, q) = pinuse(h, q)
    BY <1>2, <2>1
  <2>7. Tile(w, q)
    BY <2>2, <2>3, <2>4, <2>5, <2>6 DEF Tile
  <2>8. QED
    BY <2>1, <2>2, <2>3, <2>6, <2>7 DEF Whole
<1>5. ASSUME NEW q \in Chunks(w), q >= b
      PROVE  (q # w.top => Tile(w, q)) /\ Whole(w, q)
  <2>1. q \in Chunks(h) /\ b \in Chunks(h) /\ w.top = h.top
    <3>1. q \in Chunks(h)
      BY <1>1, <1>2, <1>5
    <3>2. QED
      BY <1>1, <1>5, <3>1
  <2>2. chunksize(w, q) = chunksize(h, q) /\ cinuse(w, q) = cinuse(h, q)
        /\ (q # b => pinuse(w, q) = pinuse(h, q))
    BY <1>1, <1>2, <1>5
  <2>3. Whole(w, q)
    <3>1. q # b => Whole(h, q)
      BY <2>1 DEF Shaped
    <3>2. QED
      BY <2>1, <2>2, <3>1 DEF Whole
  <2>4. ASSUME q # w.top
        PROVE  Tile(w, q)
    <3>1. Tile(h, q)
      BY <2>1, <2>4 DEF Shaped
    <3> DEFINE n == q + chunksize(h, q)
    <3>2. n \in Chunks(w) /\ n > b /\ n \in Nat
      BY <1>1, <1>2, <1>5, <3>1 DEF Tile
    <3>3. pinuse(w, n) = pinuse(h, n) /\ prev_foot(w, n) = prev_foot(h, n)
      <4>1. n \notin a .. b
        BY <1>1, <3>2
      <4>2. QED
        BY <1>2, <3>2, <4>1
    <3>4. \A r \in Chunks(w) : r > q => r \in Chunks(h)
      BY <1>1, <1>2, <1>5
    <3>5. QED
      BY <2>2, <3>1, <3>2, <3>3, <3>4 DEF Tile
  <2>5. QED
    BY <2>3, <2>4
<1>6. ASSUME NEW q \in Chunks(w)
      PROVE  (q # w.top => Tile(w, q)) /\ Whole(w, q)
  <2>1. q < a \/ q \in a .. b - 1 \/ q >= b
    BY <1>1
  <2>2. QED
    BY <1>4, <1>5, <2>1
<1>7. 0 \in Chunks(w) /\ cinuse(w, 0)
  <2>1. 0 \in Chunks(h) /\ cinuse(h, 0) /\ 0 \notin a .. b - 1 /\ 0 \notin a .. b
    BY <1>1 DEF Shaped
  <2>2. QED
    BY <1>2, <2>1
<1>8. QED
  BY <1>1, <1>6, <1>7 DEF Shaped

(* What a chunk is to its neighbours.                                      *)
LEMMA ShapedIs ==
    ASSUME NEW h, Shaped(h)
    PROVE  /\ h \in HeapRec /\ Chunks(h) \subseteq Nat /\ Chunks(h) \subseteq Places
           /\ \A q : chunksize(h, q) \in Nat /\ prev_foot(h, q) \in Nat
           /\ \A q : cinuse(h, q) \in BOOLEAN /\ pinuse(h, q) \in BOOLEAN
           /\ HeapSize \in Nat /\ h.top \in Chunks(h) /\ h.top \in Nat
           /\ h.top # 0 /\ 0 \in Chunks(h) /\ cinuse(h, 0) /\ ~cinuse(h, h.top)
           /\ \A p \in Chunks(h) : p <= h.top
           /\ \A p \in Chunks(h) : p # h.top =>
                /\ chunksize(h, p) > 0 /\ p + chunksize(h, p) \in Chunks(h)
                /\ pinuse(h, p + chunksize(h, p)) = cinuse(h, p)
                /\ ~cinuse(h, p) =>
                    /\ prev_foot(h, p + chunksize(h, p)) = chunksize(h, p)
                    /\ chunksize(h, p) >= 2 /\ p # 0
                    /\ cinuse(h, p + chunksize(h, p)) /\ p + chunksize(h, p) # h.top
           /\ \A p \in Chunks(h) : ~cinuse(h, p) => pinuse(h, p)
           /\ \A p \in Chunks(h) : Solid(h, p)
<1>1. /\ h \in HeapRec /\ Chunks(h) \subseteq Nat /\ Chunks(h) \subseteq Places
      /\ \A q : chunksize(h, q) \in Nat /\ prev_foot(h, q) \in Nat
      /\ \A q : cinuse(h, q) \in BOOLEAN /\ pinuse(h, q) \in BOOLEAN
      /\ HeapSize \in Nat /\ h.top \in Nat
  <2>1. h \in HeapRec
    BY DEF Shaped
  <2>2. QED
    BY <2>1, HeapIs, ConstantsAre, Zenon
<1>2. /\ h.top \in Chunks(h) /\ h.top # 0 /\ 0 \in Chunks(h) /\ cinuse(h, 0) /\ ~cinuse(h, h.top)
      /\ \A p \in Chunks(h) : p <= h.top
  BY DEF Shaped, TopEnds
<1>3. \A p \in Chunks(h) : ~cinuse(h, p) => pinuse(h, p)
  BY DEF Shaped, Whole
<1>4. ASSUME NEW p \in Chunks(h), p # h.top
      PROVE  /\ chunksize(h, p) > 0 /\ p + chunksize(h, p) \in Chunks(h)
             /\ pinuse(h, p + chunksize(h, p)) = cinuse(h, p)
             /\ ~cinuse(h, p) =>
                    /\ prev_foot(h, p + chunksize(h, p)) = chunksize(h, p)
                    /\ chunksize(h, p) >= 2 /\ p # 0
                    /\ cinuse(h, p + chunksize(h, p)) /\ p + chunksize(h, p) # h.top
  <2>1. Tile(h, p) /\ Whole(h, p)
    BY <1>4 DEF Shaped
  <2>2. QED
    BY <1>2, <1>3, <1>4, <2>1 DEF Tile, Whole
<1>5. ASSUME NEW p \in Chunks(h)
      PROVE  Solid(h, p)
  <2>1. CASE p = h.top
    BY <1>1, <1>2, <2>1 DEF Solid
  <2>2. CASE p # h.top
    BY <2>2 DEF Solid, Shaped, Tile
  <2>3. QED
    BY <2>1, <2>2
<1>6. QED
  BY <1>1, <1>2, <1>3, <1>4, <1>5, Zenon

(* Every chunk but the malloc_state begins where another one ends.         *)
LEMMA Predecessor ==
    ASSUME NEW h, Shaped(h), NEW p \in Chunks(h), p # 0
    PROVE  \E r \in Chunks(h) : r # h.top /\ r < p /\ r + chunksize(h, r) = p
<1> DEFINE D == {p - r : r \in {c \in Chunks(h) : c < p}}
<1>1. /\ Chunks(h) \subseteq Nat /\ 0 \in Chunks(h)
      /\ \A q \in Chunks(h) : q <= h.top
      /\ \A q : chunksize(h, q) \in Nat
  BY ShapedIs
<1>2. D \in SUBSET Nat /\ p - 0 \in D
  BY <1>1
<1>3. PICK d \in D : \A k \in D : d <= k
  <2> HIDE DEF D
  <2>1. QED
    BY <1>2, LeastElement
<1>4. PICK r \in Chunks(h) : r < p /\ d = p - r
  BY <1>3
<1>5. \A c \in Chunks(h) : c < p => c <= r
  BY <1>1, <1>3, <1>4
<1>6. r # h.top
  BY <1>1, <1>4
<1>7. chunksize(h, r) > 0 /\ r + chunksize(h, r) \in Chunks(h)
      /\ ~(r < p /\ p < r + chunksize(h, r))
  BY <1>4, <1>6 DEF Shaped, Tile
<1>8. r + chunksize(h, r) = p
  BY <1>1, <1>4, <1>5, <1>7
<1>9. QED
  BY <1>4, <1>6, <1>8

(* Outside of a .. b - 1 the chunks are the same.                          *)
SameOutside(h, w, a, b) ==
    \A q : q \notin a .. b - 1 =>
        /\ q \in Chunks(w) <=> q \in Chunks(h)
        /\ q \in Chunks(w) => chunksize(w, q) = chunksize(h, q) /\ cinuse(w, q) = cinuse(h, q)

(* Outside of what was drawn anew everything is the same.                  *)
LEMMA RedrawnIs ==
    ASSUME NEW h, NEW w, NEW a \in Nat, NEW b \in Nat, Redrawn(h, w, a, b)
    PROVE  SameOutside(h, w, a, b)
<1>1. ASSUME NEW q \in Chunks(w), q \notin a .. b - 1
      PROVE  chunksize(w, q) = chunksize(h, q) /\ cinuse(w, q) = cinuse(h, q)
  <2>1. CASE q = b
    BY <2>1 DEF Redrawn
  <2>2. CASE q # b
    <3>1. q \notin a .. b
      BY <1>1, <2>2
    <3>2. QED
      BY <3>1 DEF Redrawn, chunksize, cinuse
  <2>3. QED
    BY <2>1, <2>2
<1>2. QED
  BY <1>1 DEF SameOutside, Redrawn

(* One chunk from a to a + s.                                              *)
LEMMA OneChunk ==
    ASSUME NEW h, Shaped(h), NEW a \in Chunks(h), a # 0, NEW s \in Nat, s > 0,
           a + s \in Chunks(h), NEW w, Wrote(h, w, a, s),
           pinuse(w, a) = pinuse(h, a), ~pinuse(h, a) => prev_foot(w, a) = prev_foot(h, a),
           pinuse(w, a + s) = cinuse(w, a),
           ~cinuse(w, a) => /\ prev_foot(w, a + s) = s /\ s >= 2
                            /\ pinuse(h, a) /\ cinuse(h, a + s)
    PROVE  /\ Shaped(w) /\ SameOutside(h, w, a, a + s)
           /\ \A q \in Chunks(w) : q \in a .. a + s - 1 => q = a
<1> DEFINE b == a + s
<1>1. /\ h \in HeapRec /\ w \in HeapRec /\ SameTop(h, w)
      /\ Chunks(h) \subseteq Nat /\ b \in Nat /\ a \in Nat
      /\ Chunks(w) = {a, b} \union (Chunks(h) \ (a + 1 .. b - 1))
      /\ \A q : cinuse(w, q) \in BOOLEAN /\ pinuse(w, q) \in BOOLEAN /\ chunksize(w, q) \in Nat
      /\ h.top \in Nat /\ h.top >= b
  <2>1. /\ h \in HeapRec /\ Chunks(h) \subseteq Nat /\ h.top \in Nat /\ h.top >= b
    BY ShapedIs
  <2>2. /\ w \in HeapRec /\ SameTop(h, w)
        /\ Chunks(w) = {a, b} \union (Chunks(h) \ (a + 1 .. b - 1))
    <3>1. /\ w \in HeapRec /\ SameTop(h, w)
          /\ Chunks(w) = {a, a + s} \union (Chunks(h) \ (a + 1 .. a + s - 1))
      BY Zenon DEF Wrote
    <3>2. a + s - 1 = b - 1
      BY <2>1
    <3>3. QED
      BY <3>1, <3>2
  <2>3. \A q : cinuse(w, q) \in BOOLEAN /\ pinuse(w, q) \in BOOLEAN /\ chunksize(w, q) \in Nat
    BY <2>2, HeapIs, Zenon
  <2>4. QED
    BY <2>1, <2>2, <2>3
<1>2. /\ chunksize(w, a) = s
      /\ chunksize(w, b) = chunksize(h, b) /\ cinuse(w, b) = cinuse(h, b)
      /\ \A q \in Chunks(w) : q # a /\ q # b => HeadOf(w, q) = HeadOf(h, q)
  BY DEF Wrote
<1>3. Redrawn(h, w, a, b)
  <2>1. \A q : q \notin a .. b - 1 => (q \in Chunks(w) <=> q \in Chunks(h))
    BY <1>1
  <2>2. \A q \in Chunks(w) : q \notin a .. b => q # a /\ q # b
    BY <1>1
  <2>3. a \in Chunks(w)
    BY <1>1
  <2>4. QED
    BY <1>1, <1>2, <2>1, <2>2, <2>3 DEF Redrawn
<1>4. \A q \in Chunks(w) : q \in a .. b - 1 => q = a
  BY <1>1
<1>5. Tile(w, a)
  <2>1. b \in Chunks(w) /\ \A q \in Chunks(w) : ~(a < q /\ q < b)
    BY <1>1
  <2>2. QED
    BY <1>1, <1>2, <2>1 DEF Tile
<1>6. Whole(w, a)
  BY <1>2 DEF Whole
<1>7. Whole(w, b)
  <2>1. Whole(h, b)
    BY DEF Shaped
  <2>2. ~cinuse(h, b) => pinuse(w, b)
    BY <1>1
  <2>3. QED
    BY <1>1, <1>2, <2>1, <2>2 DEF Whole, SameTop
<1>8. TopEnds(w)
  <2>1. TopEnds(h)
    BY DEF Shaped
  <2>2. w.top \notin a .. b - 1
    BY <1>1 DEF SameTop
  <2>3. SameOutside(h, w, a, b)
    BY <1>1, <1>3, RedrawnIs
  <2>4. w.top \in Chunks(w) /\ ~cinuse(w, w.top) /\ chunksize(w, w.top) = w.topsize
    BY <1>1, <2>1, <2>2, <2>3 DEF SameOutside, TopEnds, SameTop
  <2>5. \A p \in Chunks(w) : p <= w.top
    BY <1>1, <2>1 DEF TopEnds, SameTop
  <2>6. QED
    BY <1>1, <2>1, <2>4, <2>5 DEF TopEnds, SameTop
<1>9. Shaped(w)
  <2>1. b \in Chunks(h) /\ w.top = h.top /\ a < b
    BY <1>1 DEF SameTop
  <2>2. \A q \in Chunks(w) : q \in a .. b - 1 => (q # w.top => Tile(w, q)) /\ Whole(w, q)
    BY <1>4, <1>5, <1>6, Zenon
  <2> HIDE DEF b
  <2>3. QED
    BY <1>1, <1>3, <1>7, <1>8, <2>1, <2>2, Retiled
<1>10. QED
  BY <1>1, <1>3, <1>4, <1>9, RedrawnIs

(* Two chunks from a to b, that meet at m; the first is in use.            *)
Halves(h, w, a, m, b) ==
    /\ w \in HeapRec /\ SameBooks(h, w) /\ SameTop(h, w)
    /\ Chunks(w) = {a, m, b} \union (Chunks(h) \ (a .. b))
    /\ chunksize(w, a) = m - a /\ cinuse(w, a)
    /\ pinuse(w, a) = pinuse(h, a) /\ (~pinuse(h, a) => prev_foot(w, a) = prev_foot(h, a))
    /\ chunksize(w, m) = b - m /\ pinuse(w, m)
    /\ chunksize(w, b) = chunksize(h, b) /\ cinuse(w, b) = cinuse(h, b)
    /\ pinuse(w, b) = cinuse(w, m) /\ (~cinuse(w, m) => prev_foot(w, b) = b - m)
    /\ \A q \in Chunks(w) : q \notin {a, m, b} => HeadOf(w, q) = HeadOf(h, q)

(* From a to b, two chunks that meet at m.                                 *)
LEMMA TwoChunks ==
    ASSUME NEW h, Shaped(h), NEW a \in Chunks(h), a # 0, NEW b \in Chunks(h), NEW m \in Nat,
           a < m, m < b, NEW w, Halves(h, w, a, m, b),
           ~cinuse(w, m) => b - m >= 2 /\ cinuse(h, b)
    PROVE  /\ Shaped(w) /\ SameOutside(h, w, a, b)
           /\ \A q \in Chunks(w) : q \in a .. b - 1 => q = a \/ q = m
<1>1. /\ h \in HeapRec /\ Chunks(h) \subseteq Nat /\ a \in Nat /\ b \in Nat
      /\ h.top \in Nat /\ h.top >= b
  BY ShapedIs
<1>2. /\ w \in HeapRec /\ SameTop(h, w)
      /\ Chunks(w) = {a, m, b} \union (Chunks(h) \ (a .. b))
      /\ chunksize(w, a) = m - a /\ cinuse(w, a)
      /\ pinuse(w, a) = pinuse(h, a) /\ (~pinuse(h, a) => prev_foot(w, a) = prev_foot(h, a))
      /\ chunksize(w, m) = b - m /\ pinuse(w, m)
      /\ chunksize(w, b) = chunksize(h, b) /\ cinuse(w, b) = cinuse(h, b)
      /\ pinuse(w, b) = cinuse(w, m) /\ (~cinuse(w, m) => prev_foot(w, b) = b - m)
      /\ \A q \in Chunks(w) : q \notin {a, m, b} => HeadOf(w, q) = HeadOf(h, q)
  BY Zenon DEF Halves
<1>3. \A q : cinuse(w, q) \in BOOLEAN /\ pinuse(w, q) \in BOOLEAN /\ chunksize(w, q) \in Nat
  BY <1>2, HeapIs, Zenon
<1>4. Redrawn(h, w, a, b)
  <2>1. \A q : q \notin a .. b - 1 => (q \in Chunks(w) <=> q \in Chunks(h))
    BY <1>1, <1>2
  <2>2. \A q \in Chunks(w) : q \notin a .. b => q \notin {a, m, b}
    BY <1>1
  <2>3. a \in Chunks(w)
    BY <1>2
  <2>4. QED
    BY <1>2, <2>1, <2>2, <2>3 DEF Redrawn
<1>5. \A q \in Chunks(w) : q \in a .. b - 1 => q = a \/ q = m
  BY <1>1, <1>2
<1>6. Tile(w, a) /\ Tile(w, m)
  <2>1. a + (m - a) = m /\ m + (b - m) = b /\ m \in Chunks(w) /\ b \in Chunks(w)
        /\ m - a > 0 /\ b - m > 0
    BY <1>1, <1>2
  <2>2. \A q \in Chunks(w) : ~(a < q /\ q < m) /\ ~(m < q /\ q < b)
    BY <1>1, <1>2
  <2>3. a + chunksize(w, a) = m /\ m + chunksize(w, m) = b
    BY <1>2, <2>1
  <2>4. Tile(w, a)
    BY <1>2, <1>3, <2>1, <2>2, <2>3 DEF Tile
  <2>5. Tile(w, m)
    BY <1>2, <1>3, <2>1, <2>2, <2>3 DEF Tile
  <2>6. QED
    BY <2>4, <2>5
<1>7. Whole(w, a) /\ Whole(w, m)
  BY <1>2 DEF Whole
<1>8. Whole(w, b)
  <2>1. Whole(h, b)
    BY DEF Shaped
  <2>2. ~cinuse(h, b) => pinuse(w, b)
    BY <1>2, <1>3
  <2>3. QED
    BY <1>2, <2>1, <2>2 DEF Whole, SameTop
<1>9. TopEnds(w)
  <2>1. TopEnds(h)
    BY DEF Shaped
  <2>2. w.top \notin a .. b - 1
    BY <1>1, <1>2 DEF SameTop
  <2>3. SameOutside(h, w, a, b)
    BY <1>1, <1>4, RedrawnIs
  <2>4. w.top \in Chunks(w) /\ ~cinuse(w, w.top) /\ chunksize(w, w.top) = w.topsize
    BY <1>2, <2>1, <2>2, <2>3 DEF SameOutside, TopEnds, SameTop
  <2>5. \A p \in Chunks(w) : p <= w.top
    BY <1>1, <1>2, <2>1 DEF TopEnds, SameTop
  <2>6. QED
    BY <1>2, <2>1, <2>4, <2>5 DEF TopEnds, SameTop
<1>10. Shaped(w)
  <2>1. b \in Chunks(h) /\ w.top = h.top /\ a < b
    BY <1>1, <1>2 DEF SameTop
  <2>2. \A q \in Chunks(w) : q \in a .. b - 1 => (q # w.top => Tile(w, q)) /\ Whole(w, q)
    BY <1>5, <1>6, <1>7, Zenon
  <2>3. QED
    BY <1>1, <1>4, <1>8, <1>9, <2>1, <2>2, Retiled
<1>11. QED
  BY <1>1, <1>4, <1>5, <1>10, RedrawnIs

(* From a on, the top alone.                                               *)
LEMMA TopAlone ==
    ASSUME NEW h, Shaped(h), NEW a \in Chunks(h), a # 0, pinuse(h, a), NEW w \in HeapRec,
           Chunks(w) = {a} \union (Chunks(h) \ (a .. HeapSize - 1)),
           \A q \in Chunks(w) : q # a => HeadOf(w, q) = HeadOf(h, q),
           chunksize(w, a) = HeapSize - a, ~cinuse(w, a), pinuse(w, a),
           w.top = a, w.topsize = HeapSize - a
    PROVE  /\ Shaped(w) /\ SameOutside(h, w, a, HeapSize)
           /\ \A q \in Chunks(w) : q \in a .. HeapSize - 1 => q = a
<1>1. /\ h \in HeapRec /\ Chunks(h) \subseteq Nat /\ a \in Nat /\ HeapSize \in Nat
      /\ \A q \in Chunks(h) : q < HeapSize
  BY ShapedIs DEF Places
<1>2. HeapSize \notin Chunks(h) /\ HeapSize \notin Chunks(w) /\ a < HeapSize
  BY <1>1
<1>3. chunksize(w, HeapSize) = chunksize(h, HeapSize) /\ cinuse(w, HeapSize) = cinuse(h, HeapSize)
  BY <1>2 DEF chunksize, cinuse, HeadOf, Chunks
<1>4. \A q \in Chunks(w) : q \in a .. HeapSize - 1 => q = a
  BY <1>1
<1>5. \A q \in Chunks(w) : q <= a /\ (q \notin a .. HeapSize => q # a)
  BY <1>1
<1>6. Redrawn(h, w, a, HeapSize)
  <2>1. \A q : q \notin a .. HeapSize - 1 => (q \in Chunks(w) <=> q \in Chunks(h))
    BY <1>1
  <2>2. pinuse(w, a) = pinuse(h, a)
    <3>1. pinuse(w, a) \in BOOLEAN /\ pinuse(h, a) \in BOOLEAN
      BY <1>1, HeapIs
    <3>2. QED
      BY <3>1
  <2>3. QED
    BY <1>3, <1>5, <2>1, <2>2 DEF Redrawn
<1>7. TopEnds(w)
  <2>1. HeapSize - a > 0 /\ a + (HeapSize - a) = HeapSize /\ a \in Chunks(w)
    BY <1>1, <1>2
  <2>2. QED
    BY <1>5, <2>1 DEF TopEnds
<1>8. Whole(w, a)
  BY DEF Whole
<1>9. Shaped(w)
  <2>1. \A q \in Chunks(w) : q \in a .. HeapSize - 1 => (q # w.top => Tile(w, q)) /\ Whole(w, q)
    BY <1>4, <1>8, Zenon
  <2>2. w.top >= a /\ HeapSize \in Nat /\ a < HeapSize
    BY <1>1, <1>2
  <2>3. QED
    BY <1>1, <1>2, <1>6, <1>7, <2>1, <2>2, Retiled
<1>10. QED
  BY <1>1, <1>4, <1>6, <1>9, RedrawnIs

(* From a on, a chunk in use and the top, at m.                            *)
LEMMA UsedAndTop ==
    ASSUME NEW h, Shaped(h), NEW a \in Chunks(h), a # 0, NEW m \in Nat, a < m, m < HeapSize,
           NEW w \in HeapRec, Chunks(w) = {a, m} \union (Chunks(h) \ (a .. HeapSize - 1)),
           \A q \in Chunks(w) : q # a /\ q # m => HeadOf(w, q) = HeadOf(h, q),
           chunksize(w, a) = m - a, cinuse(w, a), pinuse(w, a) = pinuse(h, a),
           ~pinuse(h, a) => prev_foot(w, a) = prev_foot(h, a),
           chunksize(w, m) = HeapSize - m, ~cinuse(w, m), pinuse(w, m),
           w.top = m, w.topsize = HeapSize - m
    PROVE  /\ Shaped(w) /\ SameOutside(h, w, a, HeapSize)
           /\ \A q \in Chunks(w) : q \in a .. HeapSize - 1 => q = a \/ q = m
<1>1. /\ h \in HeapRec /\ Chunks(h) \subseteq Nat /\ a \in Nat /\ HeapSize \in Nat
      /\ \A q \in Chunks(h) : q < HeapSize
  BY ShapedIs DEF Places
<1>2. HeapSize \notin Chunks(h) /\ HeapSize \notin Chunks(w) /\ a < HeapSize
  BY <1>1
<1>3. chunksize(w, HeapSize) = chunksize(h, HeapSize) /\ cinuse(w, HeapSize) = cinuse(h, HeapSize)
  BY <1>2 DEF chunksize, cinuse, HeadOf, Chunks
<1>4. \A q \in Chunks(w) : q \in a .. HeapSize - 1 => q = a \/ q = m
  BY <1>1
<1>5. \A q \in Chunks(w) : q <= m /\ (q \notin a .. HeapSize => q # a /\ q # m)
  BY <1>1
<1>6. Redrawn(h, w, a, HeapSize)
  <2>1. \A q : q \notin a .. HeapSize - 1 => (q \in Chunks(w) <=> q \in Chunks(h))
    BY <1>1
  <2>2. a \in Chunks(w)
    BY <1>1
  <2>3. QED
    BY <1>3, <1>5, <2>1, <2>2 DEF Redrawn
<1>7. TopEnds(w)
  <2>1. HeapSize - m > 0 /\ m + (HeapSize - m) = HeapSize /\ m \in Chunks(w)
    BY <1>1
  <2>2. QED
    BY <1>5, <2>1 DEF TopEnds
<1>8. Whole(w, a) /\ Whole(w, m)
  BY DEF Whole
<1>9. Tile(w, a)
  <2>1. a + chunksize(w, a) = m /\ m \in Chunks(w) /\ chunksize(w, a) > 0
    BY <1>1
  <2>2. \A q \in Chunks(w) : ~(a < q /\ q < m)
    BY <1>1
  <2>3. pinuse(w, m) \in BOOLEAN /\ cinuse(w, a) \in BOOLEAN
    BY HeapIs
  <2>4. QED
    BY <2>1, <2>2, <2>3 DEF Tile
<1>10. Shaped(w)
  <2>1. \A q \in Chunks(w) : q \in a .. HeapSize - 1 => (q # w.top => Tile(w, q)) /\ Whole(w, q)
    BY <1>4, <1>8, <1>9, Zenon
  <2>2. w.top >= a /\ HeapSize \in Nat /\ a < HeapSize
    BY <1>1, <1>2
  <2>3. QED
    BY <1>1, <1>2, <1>6, <1>7, <2>1, <2>2, Retiled
<1>11. QED
  BY <1>1, <1>4, <1>6, <1>10, RedrawnIs

-----------------------------------------------------------------------------
(* The books: every free chunk but the top is the designated victim or in  *)
(* the bin of its size.                                                    *)
Free(h) == {p \in Chunks(h) \ {h.top} : ~cinuse(h, p)}
Used(h) == {p \in Chunks(h) : cinuse(h, p)}

OfSize(h, G, s) == {p \in G : chunksize(h, p) = s}

(* The bins hold the chunks of G.                                          *)
BinsAre(h, G) ==
    /\ \A s \in Sizes : ListOf(h.bins[s], Places, OfSize(h, G, s))
    /\ \A p \in G : chunksize(h, p) \in Sizes

DvIs(h) ==
    \/ h.dv = NULL /\ h.dvsize = 0
    \/ h.dv \in Free(h) /\ h.dvsize = chunksize(h, h.dv)

Sound(h) == Shaped(h) /\ BinsAre(h, Free(h) \ {h.dv}) /\ DvIs(h)

(* Bins do not depend on the headers of chunks that are not in them.       *)
LEMMA BinsMove ==
    ASSUME NEW h, NEW w, NEW G, BinsAre(h, G), w.bins = h.bins,
           \A p \in G : chunksize(w, p) = chunksize(h, p)
    PROVE  BinsAre(w, G)
<1>1. \A s : OfSize(w, G, s) = OfSize(h, G, s)
  BY DEF OfSize
<1>2. QED
  BY <1>1 DEF BinsAre

(* The same headers say the same.                                          *)
LEMMA SameHead ==
    ASSUME NEW h, NEW w, w.head = h.head
    PROVE  /\ Chunks(w) = Chunks(h)
           /\ \A q : /\ HeadOf(w, q) = HeadOf(h, q) /\ chunksize(w, q) = chunksize(h, q)
                     /\ cinuse(w, q) = cinuse(h, q) /\ pinuse(w, q) = pinuse(h, q)
                     /\ prev_foot(w, q) = prev_foot(h, q)
BY DEF Chunks, HeadOf, chunksize, cinuse, pinuse, prev_foot

(* The shape is a matter of the headers and the top.                       *)
LEMMA SameShape ==
    ASSUME NEW h, NEW w \in HeapRec, w.head = h.head, SameTop(h, w), Shaped(h)
    PROVE  Shaped(w) /\ Free(w) = Free(h) /\ Used(w) = Used(h)
<1>1. /\ Chunks(w) = Chunks(h)
      /\ \A q : /\ chunksize(w, q) = chunksize(h, q)
                /\ cinuse(w, q) = cinuse(h, q) /\ pinuse(w, q) = pinuse(h, q)
                /\ prev_foot(w, q) = prev_foot(h, q)
  BY SameHead, Zenon
<1>2. TopEnds(w)
  BY <1>1 DEF Shaped, TopEnds, SameTop
<1>3. \A p \in Chunks(h) : Tile(h, p) => Tile(w, p)
  BY <1>1, Zenon DEF Tile
<1>4. \A p \in Chunks(h) : Whole(h, p) => Whole(w, p)
  BY <1>1 DEF Whole, SameTop
<1>5. QED
  BY <1>1, <1>2, <1>3, <1>4 DEF Shaped, SameTop, Free, Used

(* What changes only the bin of size s.                                    *)
Rebinned(h, w) ==
    /\ w \in HeapRec /\ w.head = h.head /\ SameTop(h, w)
    /\ w.dv = h.dv /\ w.dvsize = h.dvsize

(* A bin that changes by itself.                                           *)
LEMMA BinChanged ==
    ASSUME NEW h \in HeapRec, NEW s \in Sizes, NEW t, NEW G, NEW K, BinsAre(h, G),
           ListOf(t, Places, OfSize(h, K, s)), \A p \in K : chunksize(h, p) \in Sizes,
           \A u \in Sizes : u # s => OfSize(h, G, u) = OfSize(h, K, u)
    PROVE  Rebinned(h, [h EXCEPT !.bins[s] = t]) /\ BinsAre([h EXCEPT !.bins[s] = t], K)
<1> DEFINE w == [h EXCEPT !.bins[s] = t]
<1>1. h.bins \in [Sizes -> Seq(Places)] /\ t \in Seq(Places)
  BY HeapIs DEF ListOf
<1>2. [h.bins EXCEPT ![s] = t] \in [Sizes -> Seq(Places)]
  BY <1>1
<1>3. /\ w.bins = [h.bins EXCEPT ![s] = t] /\ w.head = h.head
      /\ w.dv = h.dv /\ w.dvsize = h.dvsize /\ w.top = h.top /\ w.topsize = h.topsize
  BY DEF HeapRec
<1>4. w \in HeapRec
  BY <1>2, <1>3 DEF HeapRec
<1>5. /\ \A u \in Sizes : u # s => w.bins[u] = h.bins[u]
      /\ w.bins[s] = t
  BY <1>1, <1>3
<1> HIDE DEF w
<1>6. \A u : OfSize(w, K, u) = OfSize(h, K, u)
  BY <1>3, SameHead DEF OfSize
<1>7. ASSUME NEW u \in Sizes
      PROVE  ListOf(w.bins[u], Places, OfSize(w, K, u))
  <2>1. CASE u = s
    BY <1>5, <1>6, <2>1
  <2>2. CASE u # s
    <3>1. ListOf(h.bins[u], Places, OfSize(h, G, u))
      BY DEF BinsAre
    <3>2. w.bins[u] = h.bins[u] /\ OfSize(w, K, u) = OfSize(h, G, u)
      BY <1>5, <1>6, <2>2
    <3>3. QED
      BY <3>1, <3>2
  <2>3. QED
    BY <2>1, <2>2
<1>8. \A p \in K : chunksize(w, p) \in Sizes
  BY <1>3, SameHead
<1>9. BinsAre(w, K) /\ Rebinned(h, w)
  BY <1>3, <1>4, <1>7, <1>8 DEF BinsAre, Rebinned, SameTop
<1>10. QED
  BY <1>9 DEF w

(* insert_small_chunk adds the chunk to the bins.                          *)
LEMMA InsertSmallIs ==
    ASSUME NEW h \in HeapRec, NEW G, BinsAre(h, G), NEW p \in Places, p \notin G,
           chunksize(h, p) \in Sizes
    PROVE  LET w == insert_small_chunk(h, p, chunksize(h, p))
           IN  Rebinned(h, w) /\ BinsAre(w, G \union {p})
<1> DEFINE s == chunksize(h, p)
           K == G \union {p}
           t == <<p>> \o h.bins[s]
<1>1. /\ s \in Sizes
      /\ OfSize(h, K, s) = OfSize(h, G, s) \union {p} /\ p \notin OfSize(h, G, s)
      /\ \A u \in Sizes : u # s => OfSize(h, G, u) = OfSize(h, K, u)
      /\ \A q \in K : chunksize(h, q) \in Sizes
      /\ ListOf(h.bins[s], Places, OfSize(h, G, s))
  BY DEF OfSize, BinsAre
<1> HIDE DEF s, K
<1>2. ListOf(t, Places, OfSize(h, K, s))
  BY <1>1, PushedInFront
<1>3. insert_small_chunk(h, p, s) = [h EXCEPT !.bins[s] = t]
  BY DEF insert_small_chunk
<1> HIDE DEF t
<1>4. Rebinned(h, [h EXCEPT !.bins[s] = t]) /\ BinsAre([h EXCEPT !.bins[s] = t], K)
  BY <1>1, <1>2, BinChanged
<1>5. QED
  BY <1>3, <1>4 DEF s, K

(* insert_chunk adds the chunk to the bins, whatever its size.             *)
LEMMA InsertIs ==
    ASSUME NEW h \in HeapRec, NEW G, BinsAre(h, G), NEW p \in Places, p \notin G,
           chunksize(h, p) \in Sizes
    PROVE  LET w == insert_chunk(h, p, chunksize(h, p))
           IN  Rebinned(h, w) /\ BinsAre(w, G \union {p})
<1> DEFINE s == chunksize(h, p)
           K == G \union {p}
           t == IF h.bins[s] = << >> THEN <<p>> ELSE <<Head(h.bins[s]), p>> \o Tail(h.bins[s])
<1>1. /\ s \in Sizes
      /\ OfSize(h, K, s) = OfSize(h, G, s) \union {p} /\ p \notin OfSize(h, G, s)
      /\ \A u \in Sizes : u # s => OfSize(h, G, u) = OfSize(h, K, u)
      /\ \A q \in K : chunksize(h, q) \in Sizes
      /\ ListOf(h.bins[s], Places, OfSize(h, G, s))
  BY DEF OfSize, BinsAre
<1>2. CASE is_small(s)
  <2>1. insert_chunk(h, p, s) = insert_small_chunk(h, p, s)
    BY <1>2 DEF insert_chunk
  <2>2. QED
    BY <2>1, InsertSmallIs
<1>3. CASE ~is_small(s)
  <2> HIDE DEF s, K
  <2>1. ListOf(t, Places, OfSize(h, K, s))
    <3>1. CASE h.bins[s] = << >>
      <4>1. ListOf(<<p>> \o h.bins[s], Places, OfSize(h, G, s) \union {p})
        BY <1>1, PushedInFront
      <4>2. <<p>> \o << >> = <<p>>
        BY ConcatEmptySeq
      <4>3. QED
        BY <1>1, <3>1, <4>1, <4>2
    <3>2. CASE h.bins[s] # << >>
      <4>1. ListOf(<<Head(h.bins[s]), p>> \o Tail(h.bins[s]), Places,
                   OfSize(h, G, s) \union {p})
        BY <1>1, <3>2, PushedSecond
      <4>2. QED
        BY <1>1, <3>2, <4>1
    <3>3. QED
      BY <3>1, <3>2
  <2>2. insert_chunk(h, p, s) = [h EXCEPT !.bins[s] = t]
    BY <1>3 DEF insert_chunk, insert_large_chunk
  <2> HIDE DEF t
  <2>3. Rebinned(h, [h EXCEPT !.bins[s] = t]) /\ BinsAre([h EXCEPT !.bins[s] = t], K)
    BY <1>1, <2>1, BinChanged
  <2>4. QED
    BY <2>2, <2>3 DEF s, K
<1>4. QED
  BY <1>2, <1>3

(* unlink_chunk takes the chunk out of the bins, whatever its size.        *)
LEMMA UnlinkIs ==
    ASSUME NEW h \in HeapRec, NEW G, BinsAre(h, G), NEW p \in G
    PROVE  LET w == unlink_chunk(h, p, chunksize(h, p))
           IN  Rebinned(h, w) /\ BinsAre(w, G \ {p})
<1> DEFINE s == chunksize(h, p)
           K == G \ {p}
           l == h.bins[s]
           t == IF ~is_small(s) /\ p = Head(l) /\ Len(l) > 1
                THEN <<Last(l)>> \o Front(Tail(l)) ELSE RemoveFirst(l, p)
<1>1. /\ s \in Sizes
      /\ OfSize(h, K, s) = OfSize(h, G, s) \ {p} /\ p \in OfSize(h, G, s)
      /\ \A u \in Sizes : u # s => OfSize(h, G, u) = OfSize(h, K, u)
      /\ \A q \in K : chunksize(h, q) \in Sizes
      /\ ListOf(l, Places, OfSize(h, G, s))
  BY DEF OfSize, BinsAre
<1>2. unlink_chunk(h, p, s) = [h EXCEPT !.bins[s] = t]
  BY DEF unlink_chunk, unlink_small_chunk, unlink_large_chunk
<1> HIDE DEF s, K, l
<1>3. ListOf(t, Places, OfSize(h, K, s))
  <2>1. CASE ~is_small(s) /\ p = Head(l) /\ Len(l) > 1
    <3>1. ListOf(<<Last(l)>> \o Front(Tail(l)), Places, OfSize(h, G, s) \ {Head(l)})
      BY <1>1, <2>1, LastToFront
    <3>2. QED
      BY <1>1, <2>1, <3>1
  <2>2. CASE ~(~is_small(s) /\ p = Head(l) /\ Len(l) > 1)
    <3>1. ListOf(RemoveFirst(l, p), Places, OfSize(h, G, s) \ {p})
      BY <1>1, RemovedFirst
    <3>2. QED
      BY <1>1, <2>2, <3>1
  <2>3. QED
    BY <2>1, <2>2
<1> HIDE DEF t
<1>4. Rebinned(h, [h EXCEPT !.bins[s] = t]) /\ BinsAre([h EXCEPT !.bins[s] = t], K)
  BY <1>1, <1>3, BinChanged
<1>5. QED
  BY <1>2, <1>4 DEF s, K

-----------------------------------------------------------------------------
(* What a call may do to the chunks in use, but for those of P.            *)
Keeps(h, w, P) ==
    \A q \in Used(h) \ P : q \in Used(w) /\ chunksize(w, q) = chunksize(h, q)

(* A call that asks for nb units gets a new chunk, or it fails.            *)
Got(h, r, nb) ==
    /\ Sound(r.heap) /\ Keeps(h, r.heap, {})
    /\ r.mem # NULL => /\ mem2chunk(r.mem) \in Used(r.heap) \ Used(h)
                       /\ chunksize(r.heap, mem2chunk(r.mem)) >= nb

(* A free chunk is between two that are in use, and the one behind knows   *)
(* its size.                                                               *)
LEMMA FreeIs ==
    ASSUME NEW h, Shaped(h), NEW p \in Free(h)
    PROVE  /\ p \in Chunks(h) /\ p \in Places /\ p \in Nat /\ p # 0 /\ p # h.top /\ ~cinuse(h, p)
           /\ pinuse(h, p) /\ chunksize(h, p) \in Sizes /\ chunksize(h, p) \in Nat
           /\ chunksize(h, p) >= 2 /\ p + chunksize(h, p) \in Chunks(h)
           /\ p + chunksize(h, p) \in Nat
           /\ cinuse(h, p + chunksize(h, p))
           /\ ~pinuse(h, p + chunksize(h, p))
           /\ prev_foot(h, p + chunksize(h, p)) = chunksize(h, p)
<1>1. p \in Chunks(h) /\ p # h.top /\ ~cinuse(h, p)
  BY DEF Free
<1>2. /\ p \in Places /\ p \in Nat /\ p # 0 /\ pinuse(h, p)
      /\ chunksize(h, p) \in Nat /\ chunksize(h, p) >= 2
      /\ p + chunksize(h, p) \in Places /\ p + chunksize(h, p) \in Chunks(h)
      /\ cinuse(h, p + chunksize(h, p)) /\ ~pinuse(h, p + chunksize(h, p))
      /\ prev_foot(h, p + chunksize(h, p)) = chunksize(h, p)
  BY <1>1, ShapedIs
<1>3. chunksize(h, p) \in Sizes /\ p + chunksize(h, p) \in Nat
  BY <1>2, ConstantsAre DEF Places
<1>4. QED
  BY <1>1, <1>2, <1>3

(* The chunks that are the same because they are elsewhere.                *)
SameElsewhere(h, w, a, b) ==
    \A q : q \notin a .. b - 1 =>
        /\ q \in Free(w) <=> q \in Free(h)
        /\ q \in Used(w) <=> q \in Used(h)
        /\ q \in Chunks(w) => chunksize(w, q) = chunksize(h, q)

(* What is elsewhere is as free, or as much in use, as it was.             *)
LEMMA OutsideIs ==
    ASSUME NEW h, NEW w, NEW a \in Nat, NEW b \in Nat, SameOutside(h, w, a, b),
           \A q : q \notin a .. b - 1 => (q = w.top <=> q = h.top)
    PROVE  SameElsewhere(h, w, a, b)
BY Zenon DEF SameElsewhere, SameOutside, Free, Used

(* Nothing begins inside of a chunk.                                       *)
LEMMA InsideIs ==
    ASSUME NEW h, Shaped(h), NEW p \in Chunks(h), NEW q \in Chunks(h),
           q \in p .. p + chunksize(h, p) - 1
    PROVE  q = p
<1>1. /\ p \in Nat /\ q \in Nat /\ Solid(h, p) /\ chunksize(h, p) \in Nat
  BY ShapedIs
<1>2. QED
  BY <1>1 DEF Solid

(* A free chunk that is put to use as a whole.                             *)
LEMMA TakenWhole ==
    ASSUME NEW h, Shaped(h), NEW p \in Free(h), NEW w,
           w = set_inuse_and_pinuse(h, p, chunksize(h, p))
    PROVE  /\ Shaped(w) /\ SameBooks(h, w)
           /\ Free(w) = Free(h) \ {p} /\ Used(w) = Used(h) \union {p}
           /\ \A q \in Free(h) \union Used(h) : chunksize(w, q) = chunksize(h, q)
<1> DEFINE s == chunksize(h, p)
<1>1. /\ p \in Chunks(h) /\ p \in Places /\ p # 0 /\ pinuse(h, p) /\ s \in Nat /\ s > 0
      /\ p + s \in Chunks(h) /\ p + s \in Places /\ p \in Nat /\ p + s \in Nat
      /\ h \in HeapRec /\ Solid(h, p + s) /\ p # h.top
  BY FreeIs, ShapedIs
<1>2. /\ Wrote(h, w, p, s) /\ cinuse(w, p) /\ pinuse(w, p) /\ pinuse(w, p + s)
  <2>1. s \in Nat
    BY <1>1
  <2> HIDE DEF s
  <2>2. QED
    BY <1>1, <2>1, SetInuseAndPinuseIs DEF s
<1> HIDE DEF s
<1>3. /\ Shaped(w) /\ SameOutside(h, w, p, p + s)
      /\ \A q \in Chunks(w) : q \in p .. p + s - 1 => q = p
  <2>1. w \in HeapRec
    BY <1>2 DEF Wrote
  <2>2. pinuse(w, p) = pinuse(h, p) /\ pinuse(w, p + s) = cinuse(w, p)
    <3>1. pinuse(w, p) \in BOOLEAN /\ pinuse(h, p) \in BOOLEAN
          /\ pinuse(w, p + s) \in BOOLEAN /\ cinuse(w, p) \in BOOLEAN
      BY <1>1, <2>1, HeapIs
    <3>2. QED
      BY <1>1, <1>2, <3>1
  <2>3. /\ ~pinuse(h, p) => prev_foot(w, p) = prev_foot(h, p)
        /\ ~cinuse(w, p) => /\ prev_foot(w, p + s) = s /\ s >= 2
                            /\ pinuse(h, p) /\ cinuse(h, p + s)
    BY <1>1, <1>2
  <2>4. QED
    BY <1>1, <1>2, <2>2, <2>3, OneChunk, ZenonT(60)
<1>4. SameBooks(h, w) /\ w.top = h.top /\ chunksize(w, p) = s /\ p \in Chunks(w)
  BY <1>2 DEF Wrote, SameTop
<1>5. \A q : q \notin p .. p + s - 1 =>
            /\ q \in Free(w) <=> q \in Free(h)
            /\ q \in Used(w) <=> q \in Used(h)
            /\ q \in Chunks(w) => chunksize(w, q) = chunksize(h, q)
  <2>1. SameElsewhere(h, w, p, p + s)
    BY <1>1, <1>3, <1>4, OutsideIs
  <2>2. (p + s) - 1 = p + s - 1
    BY <1>1
  <2>3. QED
    BY <2>1, <2>2 DEF SameElsewhere
<1>6. \A q \in Chunks(h) : q \in p .. p + s - 1 => q = p
  BY <1>1, InsideIs DEF s
<1>7. p \in Used(w) /\ p \notin Free(w) /\ p \notin Used(h)
  BY <1>2, <1>4 DEF Used, Free
<1>8. Free(h) \subseteq Chunks(h) /\ Used(h) \subseteq Chunks(h)
      /\ Free(w) \subseteq Chunks(w) /\ Used(w) \subseteq Chunks(w)
  BY DEF Free, Used
<1>9. Free(w) = Free(h) \ {p} /\ Used(w) = Used(h) \union {p}
  BY <1>3, <1>5, <1>6, <1>7, <1>8
<1>10. \A q \in Free(h) \union Used(h) : chunksize(w, q) = chunksize(h, q)
  BY <1>4, <1>5, <1>6, <1>8, <1>9 DEF s
<1>11. QED
  BY <1>3, <1>4, <1>9, <1>10

(* A free chunk that is split: the first part is put to use, the rest is   *)
(* free.                                                                   *)
LEMMA TakenPart ==
    ASSUME NEW h, Shaped(h), NEW p \in Free(h), NEW m \in Nat, p < m,
           m + 2 <= p + chunksize(h, p), NEW w, Halves(h, w, p, m, p + chunksize(h, p)),
           ~cinuse(w, m)
    PROVE  /\ Shaped(w) /\ SameBooks(h, w) /\ m \notin Chunks(h) /\ m \in Places
           /\ Free(w) = (Free(h) \ {p}) \union {m} /\ Used(w) = Used(h) \union {p}
           /\ chunksize(w, p) = m - p /\ chunksize(w, m) = p + chunksize(h, p) - m
           /\ chunksize(w, m) \in Sizes /\ m # NULL
           /\ \A q \in Free(h) \union Used(h) : q # p => chunksize(w, q) = chunksize(h, q)
<1> DEFINE s == chunksize(h, p)
           b == p + s
<1>1. /\ p \in Chunks(h) /\ p # 0 /\ s \in Nat /\ b \in Chunks(h) /\ b \in Places
      /\ p \in Nat /\ b \in Nat /\ p # h.top /\ cinuse(h, b)
  BY FreeIs, ShapedIs
<1> HIDE DEF s, b
<1>2. Halves(h, w, p, m, b) /\ m + 2 <= b
  BY DEF s, b
<1>3. /\ Shaped(w) /\ SameOutside(h, w, p, b)
      /\ \A q \in Chunks(w) : q \in p .. b - 1 => q = p \/ q = m
  <2>1. m < b /\ b - m >= 2
    BY <1>1, <1>2
  <2>2. QED
    BY <1>1, <1>2, <2>1, TwoChunks
<1>4. /\ SameBooks(h, w) /\ w.top = h.top /\ p \in Chunks(w) /\ m \in Chunks(w)
      /\ chunksize(w, p) = m - p /\ chunksize(w, m) = b - m /\ cinuse(w, p)
  BY <1>2 DEF Halves, SameTop
<1>5. \A q : q \notin p .. b - 1 =>
            /\ q \in Free(w) <=> q \in Free(h)
            /\ q \in Used(w) <=> q \in Used(h)
            /\ q \in Chunks(w) => chunksize(w, q) = chunksize(h, q)
  <2>1. p \in Nat /\ b \in Nat /\ SameOutside(h, w, p, b) /\ w.top = h.top
    BY <1>1, <1>3, <1>4
  <2>2. SameElsewhere(h, w, p, b)
    BY <2>1, OutsideIs
  <2>3. QED
    BY <2>2 DEF SameElsewhere
<1>6. \A q \in Chunks(h) : q \in p .. b - 1 => q = p
  <2>1. b - 1 = p + s - 1
    BY <1>1 DEF b
  <2>2. QED
    BY <1>1, <2>1, InsideIs DEF s
<1>7. m \in p .. b - 1 /\ p \in p .. b - 1 /\ m # p
  BY <1>1, <1>2
<1>8. m # w.top
  <2>1. h.top \in Nat /\ b <= h.top
    BY <1>1, ShapedIs
  <2>2. QED
    BY <1>1, <1>4, <1>7, <2>1
<1>9. p \in Used(w) /\ p \notin Free(w) /\ p \notin Used(h) /\ m \in Free(w) /\ m \notin Used(w)
  BY <1>4, <1>8 DEF Used, Free
<1>10. Free(h) \subseteq Chunks(h) /\ Used(h) \subseteq Chunks(h)
      /\ Free(w) \subseteq Chunks(w) /\ Used(w) \subseteq Chunks(w)
  BY DEF Free, Used
<1>11. m \notin Chunks(h)
  BY <1>6, <1>7
<1>12. Free(w) = (Free(h) \ {p}) \union {m} /\ Used(w) = Used(h) \union {p}
  BY <1>3, <1>5, <1>6, <1>7, <1>9, <1>10, <1>11
<1>13. \A q \in Free(h) \union Used(h) : q # p => chunksize(w, q) = chunksize(h, q)
  BY <1>5, <1>6, <1>7, <1>10, <1>11, <1>12
<1>14. chunksize(w, m) \in Sizes /\ m \in Places /\ m # NULL
  BY <1>1, <1>3, <1>9, FreeIs, ConstantsAre
<1>15. chunksize(w, m) = p + chunksize(h, p) - m
  BY <1>1, <1>4 DEF s, b
<1>16. QED
  BY <1>3, <1>4, <1>11, <1>12, <1>13, <1>14, <1>15

(* A free chunk whose first nb units are taken.                            *)
LEMMA SplitIs ==
    ASSUME NEW h, Shaped(h), NEW p \in Free(h), NEW nb \in Nat, nb > 0,
           nb + 2 <= chunksize(h, p)
    PROVE  LET w == Split(h, p, nb, chunksize(h, p) - nb)
           IN  /\ Halves(h, w, p, p + nb, p + chunksize(h, p))
               /\ ~cinuse(w, p + nb)
<1> DEFINE s == chunksize(h, p)
           r == s - nb
           m == p + nb
           b == p + s
           v == set_size_and_pinuse_of_inuse_chunk(h, p, nb)
           w == set_size_and_pinuse_of_free_chunk(v, m, r)
<1>1. /\ p \in Chunks(h) /\ p \in Places /\ p # 0 /\ pinuse(h, p) /\ s \in Nat
      /\ b \in Chunks(h) /\ b \in Places /\ p \in Nat /\ b \in Nat
      /\ h \in HeapRec /\ Solid(h, b) /\ Solid(h, p) /\ Chunks(h) \subseteq Nat
  BY FreeIs, ShapedIs
<1>2. /\ m \in Nat /\ r \in Nat /\ r >= 2 /\ m + r = b /\ p < m /\ m < b /\ m \in Places
      /\ r = b - m /\ nb = m - p
  BY <1>1, ConstantsAre DEF Places
<1>3. \A q \in Chunks(h) : q \in p .. b - 1 => q = p
  <2>1. b - 1 = p + s - 1
    BY <1>1
  <2>2. QED
    BY <1>1, <2>1, InsideIs
<1>4. /\ v \in HeapRec /\ SameBooks(h, v) /\ SameTop(h, v)
      /\ Chunks(v) = {p} \union (Chunks(h) \ (p + 1 .. p + nb - 1))
      /\ chunksize(v, p) = nb /\ cinuse(v, p) /\ pinuse(v, p)
      /\ \A q \in Chunks(v) : q # p => HeadOf(v, q) = HeadOf(h, q)
  BY <1>1, SetInuseOfChunkIs
<1> HIDE DEF v
<1>5. Chunks(v) = Chunks(h)
  <2>1. \A q \in Chunks(h) : q \notin p + 1 .. p + nb - 1
    BY <1>1, <1>2, <1>3
  <2>2. QED
    BY <1>1, <1>4, <2>1
<1>6. chunksize(v, b) = chunksize(h, b) /\ cinuse(v, b) = cinuse(h, b) /\ b # p
  <2>1. b # p
    BY <1>1, <1>2
  <2>2. HeadOf(v, b) = HeadOf(h, b)
    BY <1>1, <1>4, <1>5, <2>1
  <2>3. QED
    BY <2>1, <2>2 DEF chunksize, cinuse
<1>7. Solid(v, m + r)
  BY <1>1, <1>2, <1>5, <1>6 DEF Solid
<1>8. /\ Wrote(v, w, m, r) /\ ~cinuse(w, m) /\ pinuse(w, m) /\ prev_foot(w, m + r) = r
      /\ pinuse(w, m + r) = pinuse(v, m + r)
  <2> HIDE DEF m, r
  <2>1. r > 0 /\ m + r \in Places
    BY <1>1, <1>2
  <2>2. QED
    BY <1>2, <1>4, <1>7, <2>1, SetFreeIs
<1> HIDE DEF w
<1>9. /\ w \in HeapRec /\ SameBooks(v, w) /\ SameTop(v, w)
      /\ Chunks(w) = {m, m + r} \union (Chunks(v) \ (m + 1 .. m + r - 1))
      /\ chunksize(w, m) = r
      /\ chunksize(w, m + r) = chunksize(v, m + r) /\ cinuse(w, m + r) = cinuse(v, m + r)
      /\ \A q \in Chunks(w) : q # m /\ q # m + r => HeadOf(w, q) = HeadOf(v, q)
  BY <1>8, Zenon DEF Wrote
<1>10. Chunks(w) = {p, m, b} \union (Chunks(h) \ (p .. b))
  <2>1. \A q \in Chunks(h) : q \in p .. b => q = p \/ q = b
    BY <1>1, <1>3
  <2>2. p \notin m + 1 .. m + r - 1 /\ \A q : q \in m + 1 .. m + r - 1 => q \in p .. b /\ q # b
    BY <1>1, <1>2
  <2>3. QED
    BY <1>1, <1>2, <1>5, <1>9, <2>1, <2>2
<1>11. HeadOf(w, p) = HeadOf(v, p)
  BY <1>1, <1>2, <1>9, <1>10
<1>12. pinuse(w, b) = cinuse(w, m)
  <2>1. b \in Chunks(v) /\ b # p
    BY <1>1, <1>5, <1>6
  <2>2. pinuse(v, b) = pinuse(h, b)
    BY <1>4, <2>1 DEF pinuse
  <2>3. ~pinuse(h, b)
    BY FreeIs
  <2>4. cinuse(w, m) \in BOOLEAN /\ pinuse(w, b) \in BOOLEAN
    BY <1>9, HeapIs
  <2>5. QED
    BY <1>2, <1>8, <2>2, <2>3, <2>4
<1>13. /\ chunksize(w, p) = nb /\ cinuse(w, p) /\ pinuse(w, p) = pinuse(h, p)
  <2>1. pinuse(w, p) \in BOOLEAN /\ pinuse(h, p) \in BOOLEAN
    BY <1>1, <1>9, HeapIs
  <2>2. QED
    BY <1>1, <1>4, <1>11, <2>1 DEF chunksize, cinuse, pinuse
<1>14. \A q \in Chunks(w) : q \notin {p, m, b} => HeadOf(w, q) = HeadOf(h, q)
  BY <1>2, <1>4, <1>5, <1>9, <1>10
<1>15. SameBooks(h, w) /\ SameTop(h, w)
  BY <1>4, <1>9 DEF SameBooks, SameTop
<1> HIDE DEF m, b, r
<1>16. Halves(h, w, p, m, b)
  BY <1>1, <1>2, <1>6, <1>8, <1>9, <1>10, <1>12, <1>13, <1>14, <1>15 DEF Halves
<1>17. Split(h, p, nb, s - nb) = w
  BY DEF Split, w, v, m, r
<1>18. QED
  BY <1>8, <1>16, <1>17 DEF m, b

(* A new designated victim.                                                *)
DvSet(h, w, p, s) == w = [h EXCEPT !.dv = p, !.dvsize = s]

(* Another designated victim, and nothing else.                            *)
LEMMA NewDv ==
    ASSUME NEW h \in HeapRec, NEW p \in Nat, NEW s \in Nat,
           NEW w, DvSet(h, w, p, s)
    PROVE  /\ w \in HeapRec /\ w.head = h.head /\ w.bins = h.bins
           /\ SameTop(h, w) /\ w.dv = p /\ w.dvsize = s
BY DEF HeapRec, SameTop, DvSet

(* p is neither binned nor the designated victim: it is in a function's    *)
(* hands.                                                                  *)
Holds(h, p) ==
    /\ Shaped(h) /\ p \in Free(h) /\ p # h.dv /\ DvIs(h)
    /\ BinsAre(h, Free(h) \ {p, h.dv})

(* The designated victim is a free chunk, or there is none.                *)
LEMMA DvIsFree ==
    ASSUME NEW h, Shaped(h), DvIs(h)
    PROVE  /\ h.dv # NULL => h.dv \in Free(h)
           /\ h.dvsize # 0 => h.dv \in Free(h) /\ h.dvsize = chunksize(h, h.dv)
           /\ h.dv = NULL => h.dvsize = 0 /\ h.dv \notin Free(h)
           /\ h.dv \in Free(h) => h.dvsize = chunksize(h, h.dv)
<1>1. NULL \notin Free(h)
  BY FreeIs, ConstantsAre
<1>2. QED
  BY <1>1 DEF DvIs

(* The held chunk is what a call asked for.                                *)
LEMMA HeldWhole ==
    ASSUME NEW h, NEW p, Holds(h, p), NEW w,
           w = set_inuse_and_pinuse(h, p, chunksize(h, p))
    PROVE  Sound(w) /\ Keeps(h, w, {}) /\ p \in Used(w) \ Used(h)
           /\ chunksize(w, p) = chunksize(h, p)
<1>1. Shaped(h) /\ p \in Free(h) /\ p # h.dv /\ DvIs(h) /\ BinsAre(h, Free(h) \ {p, h.dv})
  BY DEF Holds
<1>2. /\ Shaped(w) /\ SameBooks(h, w)
      /\ Free(w) = Free(h) \ {p} /\ Used(w) = Used(h) \union {p}
      /\ \A q \in Free(h) \union Used(h) : chunksize(w, q) = chunksize(h, q)
  BY <1>1, TakenWhole
<1>3. BinsAre(w, Free(h) \ {p, h.dv})
  BY <1>1, <1>2, BinsMove DEF SameBooks
<1>4. Free(w) \ {w.dv} = Free(h) \ {p, h.dv}
  BY <1>2 DEF SameBooks
<1>5. DvIs(w)
  BY <1>1, <1>2 DEF DvIs, SameBooks
<1>6. p \notin Used(h)
  BY <1>1 DEF Free, Used
<1>7. Keeps(h, w, {})
  BY <1>2 DEF Keeps
<1>8. QED
  BY <1>1, <1>2, <1>3, <1>4, <1>5, <1>6, <1>7 DEF Sound

(* Its rest goes to a bin, or is the new designated victim.                *)
LEMMA HeldSplit ==
    ASSUME NEW h, NEW p, Holds(h, p), NEW nb \in Nat, nb > 0, nb + 2 <= chunksize(h, p),
           NEW v, v = Split(h, p, nb, chunksize(h, p) - nb)
    PROVE  /\ Shaped(v) /\ SameBooks(h, v) /\ DvIs(v) /\ h.dv # p + nb
           /\ p + nb \in Free(v) /\ p + nb \in Places /\ p + nb # NULL
           /\ chunksize(v, p + nb) = chunksize(h, p) - nb /\ chunksize(v, p + nb) \in Sizes
           /\ BinsAre(v, Free(v) \ {p + nb, h.dv})
           /\ Keeps(h, v, {}) /\ p \in Used(v) \ Used(h) /\ chunksize(v, p) = nb
<1> DEFINE m == p + nb
           s == chunksize(h, p)
<1>1. Shaped(h) /\ p \in Free(h) /\ p # h.dv /\ DvIs(h) /\ BinsAre(h, Free(h) \ {p, h.dv})
  BY DEF Holds
<1>2. /\ p \in Nat /\ s \in Nat /\ m \in Nat /\ p < m /\ m + 2 <= p + s
      /\ p + s - m = s - nb /\ m - p = nb
  BY <1>1, FreeIs
<1>3. Halves(h, v, p, m, p + s) /\ ~cinuse(v, m)
  BY <1>1, SplitIs
<1> HIDE DEF m, s
<1>4. /\ Shaped(v) /\ SameBooks(h, v) /\ m \notin Chunks(h) /\ m \in Places
      /\ Free(v) = (Free(h) \ {p}) \union {m} /\ Used(v) = Used(h) \union {p}
      /\ chunksize(v, p) = m - p /\ chunksize(v, m) = p + s - m
      /\ chunksize(v, m) \in Sizes /\ m # NULL
      /\ \A q \in Free(h) \union Used(h) : q # p => chunksize(v, q) = chunksize(h, q)
  <2>1. m + 2 <= p + chunksize(h, p) /\ Halves(h, v, p, m, p + chunksize(h, p))
    BY <1>2, <1>3 DEF s
  <2>2. QED
    BY <1>1, <1>2, <1>3, <2>1, TakenPart DEF s
<1>5. p \notin Used(h) /\ m \notin Free(h)
  BY <1>1, <1>4 DEF Free, Used
<1>6. h.dv # m
  BY <1>1, <1>4, <1>5, DvIsFree
<1>7. BinsAre(v, Free(h) \ {p, h.dv})
  <2>1. \A q \in Free(h) \ {p, h.dv} : chunksize(v, q) = chunksize(h, q)
    BY <1>4
  <2>2. QED
    BY <1>1, <1>4, <2>1, BinsMove DEF SameBooks
<1>8. Free(v) \ {m, h.dv} = Free(h) \ {p, h.dv}
  BY <1>4, <1>5
<1>9. DvIs(v)
  <2>1. CASE h.dv = NULL /\ h.dvsize = 0
    BY <1>4, <2>1 DEF DvIs, SameBooks
  <2>2. CASE h.dv \in Free(h) /\ h.dvsize = chunksize(h, h.dv)
    BY <1>1, <1>4, <2>2 DEF DvIs, SameBooks
  <2>3. QED
    BY <1>1, <2>1, <2>2 DEF DvIs
<1>10. Keeps(h, v, {})
  BY <1>4, <1>5 DEF Keeps
<1>11. m \in Free(v) /\ chunksize(v, m) = s - nb /\ p \in Used(v) \ Used(h) /\ chunksize(v, p) = nb
  BY <1>2, <1>4, <1>5
<1>12. QED
  BY <1>4, <1>6, <1>7, <1>8, <1>9, <1>10, <1>11 DEF m, s

(* From a chunk in its hands the allocator gets what was asked for.        *)
LEMMA SplitUnlinkedIs ==
    ASSUME NEW h, NEW p, Holds(h, p), NEW nb \in Nat, nb > 0, nb <= chunksize(h, p),
           NEW keep \in {"dv", "bin"}
    PROVE  Got(h, SplitUnlinked(h, p, chunksize(h, p), nb, keep), nb)
<1> DEFINE s == chunksize(h, p)
           m == p + nb
           r == SplitUnlinked(h, p, s, nb, keep)
<1> SUFFICES Got(h, r, nb)
  OBVIOUS
<1>1. p \in Nat /\ s \in Nat /\ p + 1 # NULL /\ p + 1 - 1 = p
  <2>1. Shaped(h) /\ p \in Free(h)
    BY DEF Holds
  <2>2. QED
    BY <2>1, FreeIs, ConstantsAre
<1>2. ASSUME NEW w, r = Given(w, p), Sound(w), Keeps(h, w, {}), p \in Used(w) \ Used(h),
             chunksize(w, p) >= nb
      PROVE  Got(h, r, nb)
  <2>1. r.heap = w /\ r.mem = p + 1
    BY <1>2 DEF Given, chunk2mem
  <2>2. mem2chunk(r.mem) = p
    BY <1>1, <2>1 DEF mem2chunk
  <2> HIDE DEF r
  <2>3. QED
    BY <1>2, <2>1, <2>2 DEF Got
<1>3. CASE ~IsChunk(s - nb)
  <2> DEFINE w == set_inuse_and_pinuse(h, p, s)
  <2>1. Sound(w) /\ Keeps(h, w, {}) /\ p \in Used(w) \ Used(h) /\ chunksize(w, p) = s
    BY HeldWhole
  <2>2. r = Given(w, p)
    BY <1>3 DEF SplitUnlinked
  <2> HIDE DEF r, w
  <2>3. QED
    BY <1>2, <2>1, <2>2
<1>4. CASE IsChunk(s - nb)
  <2> DEFINE v == Split(h, p, nb, s - nb)
  <2>1. nb + 2 <= s
    BY <1>1, <1>4, ConstantsAre DEF IsChunk
  <2>2. /\ Shaped(v) /\ SameBooks(h, v) /\ DvIs(v) /\ h.dv # m
        /\ m \in Free(v) /\ m \in Places /\ m # NULL
        /\ chunksize(v, m) = s - nb /\ chunksize(v, m) \in Sizes
        /\ BinsAre(v, Free(v) \ {m, h.dv})
        /\ Keeps(h, v, {}) /\ p \in Used(v) \ Used(h) /\ chunksize(v, p) = nb
    BY <2>1, HeldSplit
  <2>3. v \in HeapRec /\ m \in Nat /\ s - nb \in Nat
    BY <1>1, <2>2, ShapedIs
  <2> HIDE DEF v, m
  (* Whatever becomes of the bins, the chunks stay. *)
  <2>4. ASSUME NEW w \in HeapRec, w.head = v.head, SameTop(v, w)
        PROVE  /\ Shaped(w) /\ Free(w) = Free(v)
               /\ Keeps(h, w, {}) /\ p \in Used(w) \ Used(h) /\ chunksize(w, p) >= nb
    <3>1. Shaped(w) /\ Free(w) = Free(v) /\ Used(w) = Used(v)
      BY <2>2, <2>4, SameShape
    <3>2. \A q : chunksize(w, q) = chunksize(v, q)
      BY <2>4, SameHead
    <3>3. QED
      BY <2>2, <3>1, <3>2 DEF Keeps
  <2>5. CASE keep = "bin"
    <3> DEFINE w == insert_chunk(v, m, chunksize(v, m))
    <3>1. Rebinned(v, w) /\ BinsAre(w, (Free(v) \ {m, h.dv}) \union {m})
      BY <2>2, <2>3, InsertIs
    <3>2. r = Given(w, p)
      BY <1>4, <2>2, <2>5 DEF SplitUnlinked, v, m
    <3> HIDE DEF w, r
    <3>3. /\ w \in HeapRec /\ w.head = v.head /\ SameTop(v, w)
          /\ w.dv = h.dv /\ w.dvsize = h.dvsize
      BY <2>2, <3>1 DEF Rebinned, SameBooks
    <3>4. /\ Shaped(w) /\ Free(w) = Free(v)
          /\ Keeps(h, w, {}) /\ p \in Used(w) \ Used(h) /\ chunksize(w, p) >= nb
      BY <2>4, <3>3
    <3>5. (Free(v) \ {m, h.dv}) \union {m} = Free(w) \ {w.dv}
      BY <2>2, <3>3, <3>4
    <3>6. DvIs(w)
      <4>1. \A q : chunksize(w, q) = chunksize(v, q)
        BY <3>3, SameHead
      <4>2. QED
        BY <2>2, <3>3, <3>4, <4>1 DEF DvIs, SameBooks
    <3>7. Sound(w)
      BY <3>1, <3>4, <3>5, <3>6 DEF Sound
    <3>8. QED
      BY <1>2, <3>2, <3>4, <3>7
  <2>6. CASE keep = "dv"
    <3> DEFINE u == IF v.dvsize # 0 THEN insert_small_chunk(v, v.dv, v.dvsize) ELSE v
               w == [u EXCEPT !.dv = m, !.dvsize = s - nb]
    <3>1. v.dv = h.dv
      BY <2>2 DEF SameBooks
    <3>2. u \in HeapRec /\ u.head = v.head /\ SameTop(v, u) /\ BinsAre(u, Free(v) \ {m})
      <4>1. CASE v.dvsize # 0
        <5>1. v.dv \in Free(v) /\ v.dvsize = chunksize(v, v.dv)
          BY <2>2, <4>1, DvIsFree
        <5>2. v.dv \in Places /\ chunksize(v, v.dv) \in Sizes
          BY <2>2, <5>1, FreeIs
        <5>3. v.dv \notin Free(v) \ {m, h.dv}
          BY <3>1
        <5>4. /\ Rebinned(v, insert_small_chunk(v, v.dv, chunksize(v, v.dv)))
              /\ BinsAre(insert_small_chunk(v, v.dv, chunksize(v, v.dv)),
                         (Free(v) \ {m, h.dv}) \union {v.dv})
          BY <2>2, <2>3, <5>2, <5>3, InsertSmallIs
        <5>5. (Free(v) \ {m, h.dv}) \union {v.dv} = Free(v) \ {m}
          BY <2>2, <3>1, <5>1
        <5>6. u = insert_small_chunk(v, v.dv, chunksize(v, v.dv))
          BY <4>1, <5>1
        <5> HIDE DEF u
        <5>7. QED
          BY <5>4, <5>5, <5>6 DEF Rebinned
      <4>2. CASE v.dvsize = 0
        <5>1. v.dv \notin Free(v)
          <6>1. v.dv \in Free(v) => chunksize(v, v.dv) >= 2 /\ v.dvsize = chunksize(v, v.dv)
            BY <2>2, DvIsFree, FreeIs
          <6>2. QED
            BY <4>2, <6>1
        <5>2. Free(v) \ {m, h.dv} = Free(v) \ {m}
          BY <3>1, <5>1
        <5>3. u = v
          BY <4>2
        <5>4. QED
          BY <2>2, <2>3, <5>2, <5>3 DEF SameTop
      <4>3. QED
        BY <4>1, <4>2
    <3>3. r = Given(w, p)
      BY <1>4, <2>6 DEF SplitUnlinked, replace_dv, v, m
    <3> HIDE DEF u
    <3>4. /\ w \in HeapRec /\ w.head = u.head /\ w.bins = u.bins
          /\ SameTop(u, w) /\ w.dv = m /\ w.dvsize = s - nb
      <4>1. u \in HeapRec /\ DvSet(u, w, m, s - nb)
        BY <3>2 DEF DvSet
      <4> HIDE DEF w
      <4>2. QED
        BY <2>3, <4>1, NewDv
    <3> HIDE DEF w, r
    <3>5. w.head = v.head /\ SameTop(v, w)
      BY <3>2, <3>4 DEF SameTop
    <3>6. /\ Shaped(w) /\ Free(w) = Free(v)
          /\ Keeps(h, w, {}) /\ p \in Used(w) \ Used(h) /\ chunksize(w, p) >= nb
      BY <2>4, <3>4, <3>5
    <3>7. \A q : chunksize(w, q) = chunksize(u, q) /\ chunksize(w, q) = chunksize(v, q)
      BY <3>4, <3>5, SameHead
    <3>8. BinsAre(w, Free(w) \ {w.dv})
      BY <3>2, <3>4, <3>6, <3>7, BinsMove
    <3>9. DvIs(w)
      BY <2>2, <3>4, <3>6, <3>7 DEF DvIs
    <3>10. Sound(w)
      BY <3>6, <3>8, <3>9 DEF Sound
    <3>11. QED
      BY <1>2, <3>3, <3>6, <3>10
  <2>7. QED
    BY <2>5, <2>6
<1>5. QED
  BY <1>3, <1>4

(* A change of the bins changes no chunk.                                  *)
LEMMA RebinnedIs ==
    ASSUME NEW h, Shaped(h), NEW v, Rebinned(h, v)
    PROVE  /\ Shaped(v) /\ Free(v) = Free(h) /\ Used(v) = Used(h) /\ v.dv = h.dv
           /\ \A q : chunksize(v, q) = chunksize(h, q)
           /\ DvIs(h) => DvIs(v)
<1>1. /\ v \in HeapRec /\ v.head = h.head /\ SameTop(h, v)
      /\ v.dv = h.dv /\ v.dvsize = h.dvsize
  BY DEF Rebinned
<1>2. Shaped(v) /\ Free(v) = Free(h) /\ Used(v) = Used(h)
  BY <1>1, SameShape
<1>3. \A q : chunksize(v, q) = chunksize(h, q)
  BY <1>1, SameHead
<1>4. QED
  BY <1>1, <1>2, <1>3 DEF DvIs

(* A binned chunk that is unlinked is held.                                *)
LEMMA Unlinked ==
    ASSUME NEW h, Sound(h), NEW p \in Free(h), p # h.dv, NEW v,
           v = unlink_chunk(h, p, chunksize(h, p))
    PROVE  Rebinned(h, v) /\ Holds(v, p) /\ chunksize(v, p) = chunksize(h, p)
<1>1. Shaped(h) /\ h \in HeapRec /\ DvIs(h) /\ BinsAre(h, Free(h) \ {h.dv})
  BY ShapedIs DEF Sound
<1>2. Rebinned(h, v) /\ BinsAre(v, (Free(h) \ {h.dv}) \ {p})
  BY <1>1, UnlinkIs
<1>3. /\ Shaped(v) /\ Free(v) = Free(h) /\ v.dv = h.dv /\ DvIs(v)
      /\ chunksize(v, p) = chunksize(h, p)
  BY <1>1, <1>2, RebinnedIs
<1>4. (Free(h) \ {h.dv}) \ {p} = Free(v) \ {p, v.dv}
  BY <1>3
<1>5. QED
  BY <1>2, <1>3, <1>4 DEF Holds

(* What is got from a heap that was only binned anew is got from the heap. *)
LEMMA GotFrom ==
    ASSUME NEW h, Shaped(h), NEW v, Rebinned(h, v), NEW r, NEW nb, Got(v, r, nb)
    PROVE  Got(h, r, nb)
<1>1. Used(v) = Used(h) /\ \A q : chunksize(v, q) = chunksize(h, q)
  BY RebinnedIs
<1>2. QED
  BY <1>1 DEF Got, Keeps

(* The first chunk of a bin that is not empty.                             *)
LEMMA SplitBinnedIs ==
    ASSUME NEW h, Sound(h), NEW s \in Sizes, h.bins[s] # << >>,
           NEW nb \in Nat, nb > 0, nb <= s, NEW keep \in {"dv", "bin"}
    PROVE  Got(h, SplitBinned(h, s, nb, keep), nb)
<1> DEFINE p == Head(h.bins[s])
           v == unlink_chunk(h, p, s)
<1>1. Shaped(h) /\ ListOf(h.bins[s], Places, OfSize(h, Free(h) \ {h.dv}, s))
  BY DEF Sound, BinsAre
<1>2. p \in OfSize(h, Free(h) \ {h.dv}, s)
  <2> DEFINE l == h.bins[s]
  <2>1. l \in Seq(Places) /\ l # << >> /\ ToSet(l) = OfSize(h, Free(h) \ {h.dv}, s)
    BY <1>1 DEF ListOf
  <2>2. p = l[1] /\ Len(l) \in Nat \ {0}
    BY <2>1, EmptySeq
  <2> HIDE DEF l, p
  <2>3. \A e : e \in ToSet(l) <=> \E i \in 1 .. Len(l) : l[i] = e
    BY <2>1, ListIs, Zenon
  <2>4. 1 \in 1 .. Len(l)
    BY <2>2
  <2>5. p \in ToSet(l)
    BY <2>2, <2>3, <2>4
  <2>6. QED
    BY <2>1, <2>5
<1>3. p \in Free(h) /\ p # h.dv /\ chunksize(h, p) = s
  BY <1>2 DEF OfSize
<1>4. SplitBinned(h, s, nb, keep) = SplitUnlinked(v, p, s, nb, keep)
  BY DEF SplitBinned
<1> HIDE DEF p, v
<1>5. Rebinned(h, v) /\ Holds(v, p) /\ chunksize(v, p) = s
  <2>1. v = unlink_chunk(h, p, chunksize(h, p))
    BY <1>3 DEF v
  <2>2. QED
    BY <1>3, <2>1, Unlinked
<1>6. Got(v, SplitUnlinked(v, p, s, nb, keep), nb)
  <2>1. Got(v, SplitUnlinked(v, p, chunksize(v, p), nb, keep), nb)
    BY <1>5, SplitUnlinkedIs
  <2>2. QED
    BY <1>5, <2>1
<1>7. QED
  BY <1>1, <1>4, <1>5, <1>6, GotFrom

(* The least bin that fits is one of them: there is a least element.       *)
LEMMA LeastFilled ==
    ASSUME NEW h, NEW nb \in Nat, Filled(h, nb, HeapSize) # {}
    PROVE  LET s == Least(Filled(h, nb, HeapSize))
           IN  s \in Sizes /\ s >= nb /\ h.bins[s] # << >>
<1> DEFINE S == Filled(h, nb, HeapSize)
<1>1. S \in SUBSET Nat /\ S # {}
  BY ConstantsAre DEF Filled
<1>2. \A s \in S : s \in Sizes /\ s >= nb /\ h.bins[s] # << >>
  BY ConstantsAre DEF Filled
<1> HIDE DEF S
<1>3. \E m \in S : \A k \in S : m <= k
  BY <1>1, LeastElement
<1>4. Least(S) \in S
  BY <1>3 DEF Least
<1>5. QED
  BY <1>2, <1>4 DEF S

(* The same, written from the other end.                                   *)
LEMMA SplitDvIs ==
    ASSUME NEW h, Shaped(h), NEW p \in Free(h), NEW nb \in Nat, nb > 0,
           nb + 2 <= chunksize(h, p)
    PROVE  LET w == set_size_and_pinuse_of_inuse_chunk(
                        set_size_and_pinuse_of_free_chunk(h, p + nb, chunksize(h, p) - nb), p, nb)
           IN  /\ Halves(h, w, p, p + nb, p + chunksize(h, p))
               /\ ~cinuse(w, p + nb)
<1> DEFINE s == chunksize(h, p)
           r == s - nb
           m == p + nb
           b == p + s
           v == set_size_and_pinuse_of_free_chunk(h, m, r)
           w == set_size_and_pinuse_of_inuse_chunk(v, p, nb)
<1>1. /\ p \in Chunks(h) /\ p \in Places /\ p # 0 /\ pinuse(h, p) /\ s \in Nat
      /\ b \in Chunks(h) /\ b \in Places /\ p \in Nat /\ b \in Nat
      /\ h \in HeapRec /\ Solid(h, b) /\ Solid(h, p) /\ Chunks(h) \subseteq Nat
  BY FreeIs, ShapedIs
<1>2. /\ m \in Nat /\ r \in Nat /\ r >= 2 /\ m + r = b /\ p < m /\ m < b /\ m \in Places
      /\ r = b - m /\ nb = m - p
  BY <1>1, ConstantsAre DEF Places
<1>3. \A q \in Chunks(h) : q \in p .. b - 1 => q = p
  <2>1. b - 1 = p + s - 1
    BY <1>1
  <2>2. QED
    BY <1>1, <2>1, InsideIs
<1>4. /\ Wrote(h, v, m, r) /\ ~cinuse(v, m) /\ pinuse(v, m) /\ prev_foot(v, m + r) = r
      /\ pinuse(v, m + r) = pinuse(h, m + r)
  <2> HIDE DEF m, r
  <2>1. r > 0 /\ m + r \in Places /\ Solid(h, m + r)
    BY <1>1, <1>2
  <2>2. QED
    BY <1>1, <1>2, <2>1, SetFreeIs
<1> HIDE DEF v
<1>5. /\ v \in HeapRec /\ SameBooks(h, v) /\ SameTop(h, v)
      /\ Chunks(v) = {m, m + r} \union (Chunks(h) \ (m + 1 .. m + r - 1))
      /\ chunksize(v, m) = r
      /\ chunksize(v, m + r) = chunksize(h, m + r) /\ cinuse(v, m + r) = cinuse(h, m + r)
      /\ \A q \in Chunks(v) : q # m /\ q # m + r => HeadOf(v, q) = HeadOf(h, q)
  BY <1>4, Zenon DEF Wrote
<1>6. /\ w \in HeapRec /\ SameBooks(v, w) /\ SameTop(v, w)
      /\ Chunks(w) = {p} \union (Chunks(v) \ (p + 1 .. p + nb - 1))
      /\ chunksize(w, p) = nb /\ cinuse(w, p) /\ pinuse(w, p)
      /\ \A q \in Chunks(w) : q # p => HeadOf(w, q) = HeadOf(v, q)
  <2>1. v \in HeapRec /\ p \in Places
    BY <1>1, <1>5
  <2>2. QED
    BY <2>1, SetInuseOfChunkIs, Zenon
<1> HIDE DEF w
<1>7. Chunks(w) = {p, m, b} \union (Chunks(h) \ (p .. b))
  <2>1. \A q \in Chunks(h) : q \in p .. b => q = p \/ q = b
    BY <1>1, <1>3
  <2>2. \A q : q \in m + 1 .. m + r - 1 \/ q \in p + 1 .. p + nb - 1 =>
            q \in p .. b /\ q # b /\ q # p /\ q # m
    BY <1>1, <1>2
  <2>3. QED
    BY <1>1, <1>2, <1>5, <1>6, <2>1, <2>2
<1>8. HeadOf(w, m) = HeadOf(v, m) /\ HeadOf(w, b) = HeadOf(v, b)
  BY <1>1, <1>2, <1>6, <1>7
<1>9. pinuse(w, b) = cinuse(w, m)
  <2>1. ~pinuse(h, b)
    BY FreeIs
  <2>2. cinuse(w, m) \in BOOLEAN /\ pinuse(w, b) \in BOOLEAN
    BY <1>6, HeapIs
  <2>3. ~pinuse(w, b) /\ ~cinuse(w, m)
    BY <1>2, <1>4, <1>8, <2>1 DEF pinuse, cinuse
  <2>4. QED
    BY <2>2, <2>3
<1>10. pinuse(w, p) = pinuse(h, p)
  <2>1. pinuse(w, p) \in BOOLEAN /\ pinuse(h, p) \in BOOLEAN
    BY <1>1, <1>6, HeapIs
  <2>2. QED
    BY <1>1, <1>6, <2>1
<1>11. /\ chunksize(w, m) = r /\ ~cinuse(w, m) /\ pinuse(w, m) /\ prev_foot(w, b) = r
       /\ chunksize(w, b) = chunksize(h, b) /\ cinuse(w, b) = cinuse(h, b)
  BY <1>2, <1>4, <1>5, <1>8 DEF chunksize, cinuse, pinuse, prev_foot
<1>12. \A q \in Chunks(w) : q \notin {p, m, b} => HeadOf(w, q) = HeadOf(h, q)
  BY <1>2, <1>5, <1>6, <1>7
<1>13. SameBooks(h, w) /\ SameTop(h, w)
  BY <1>5, <1>6 DEF SameBooks, SameTop
<1> HIDE DEF m, b, r
<1>14. Halves(h, w, p, m, b)
  BY <1>1, <1>2, <1>6, <1>7, <1>9, <1>10, <1>11, <1>12, <1>13 DEF Halves
<1>15. QED
  BY <1>11, <1>14 DEF w, v, m, b, r

(* The designated victim, or a part of it.                                 *)
LEMMA SplitDvGot ==
    ASSUME NEW h, Sound(h), NEW nb \in Nat, nb > 0, nb <= h.dvsize
    PROVE  Got(h, SplitDv(h, nb), nb)
<1> DEFINE p == h.dv
           s == chunksize(h, p)
           m == p + nb
           r == SplitDv(h, nb)
<1> SUFFICES Got(h, r, nb)
  OBVIOUS
<1>1. Shaped(h) /\ DvIs(h) /\ BinsAre(h, Free(h) \ {h.dv}) /\ h \in HeapRec /\ h.dvsize \in Nat
  BY ShapedIs, HeapIs DEF Sound
<1>2. p \in Free(h) /\ h.dvsize = s
  BY <1>1, DvIsFree
<1>3. p \in Nat /\ s \in Nat /\ p # NULL /\ p \notin Used(h) /\ m \in Nat /\ s - nb \in Nat
  <2>1. p \in Nat /\ s \in Nat /\ p # 0 /\ ~cinuse(h, p)
    BY <1>1, <1>2, FreeIs
  <2>2. QED
    BY <1>2, <2>1, ConstantsAre DEF Used
<1>4. ASSUME NEW w, r = Given(w, p), Sound(w), Keeps(h, w, {}), p \in Used(w) \ Used(h),
             chunksize(w, p) >= nb
      PROVE  Got(h, r, nb)
  <2>1. r.heap = w /\ r.mem = p + 1
    BY <1>4 DEF Given, chunk2mem
  <2>2. mem2chunk(r.mem) = p
    BY <1>3, <2>1 DEF mem2chunk
  <2> HIDE DEF r
  <2>3. QED
    BY <1>4, <2>1, <2>2 DEF Got
<1>5. CASE IsChunk(h.dvsize - nb)
  <2> DEFINE v == set_size_and_pinuse_of_inuse_chunk(
                      set_size_and_pinuse_of_free_chunk(h, m, s - nb), p, nb)
             w == [v EXCEPT !.dv = m, !.dvsize = s - nb]
  <2>1. r = Given(w, p)
    BY <1>2, <1>5 DEF SplitDv
  <2> HIDE DEF r
  <2>2. nb + 2 <= s
    BY <1>2, <1>3, <1>5, ConstantsAre DEF IsChunk
  <2>3. Halves(h, v, p, m, p + s) /\ ~cinuse(v, m)
    BY <1>1, <1>2, <2>2, SplitDvIs
  <2> HIDE DEF v
  <2>4. p < m /\ m + 2 <= p + s /\ p + s - m = s - nb /\ m - p = nb
    BY <1>3, <2>2
  <2>5. /\ Shaped(v) /\ SameBooks(h, v) /\ m \notin Chunks(h) /\ m \in Places
        /\ Free(v) = (Free(h) \ {p}) \union {m} /\ Used(v) = Used(h) \union {p}
        /\ chunksize(v, p) = m - p /\ chunksize(v, m) = p + s - m
        /\ \A q \in Free(h) \union Used(h) : q # p => chunksize(v, q) = chunksize(h, q)
    BY <1>1, <1>2, <1>3, <2>3, <2>4, TakenPart
  <2>6. v \in HeapRec
    BY <2>5, ShapedIs
  <2>7. DvSet(v, w, m, s - nb)
    BY DEF DvSet
  <2> HIDE DEF w
  <2>8. /\ w \in HeapRec /\ w.head = v.head /\ w.bins = v.bins
        /\ SameTop(v, w) /\ w.dv = m /\ w.dvsize = s - nb
    BY <1>3, <2>6, <2>7, NewDv
  <2>9. Shaped(w) /\ Free(w) = Free(v) /\ Used(w) = Used(v)
    BY <2>5, <2>8, SameShape
  <2>10. \A q : chunksize(w, q) = chunksize(v, q)
    BY <2>8, SameHead
  <2>11. m \notin Free(h) /\ \A q \in Used(h) : q # p
    BY <1>3, <2>5 DEF Free
  <2>12. Free(w) \ {w.dv} = Free(h) \ {h.dv}
    BY <2>5, <2>8, <2>9, <2>11
  <2>13. BinsAre(w, Free(h) \ {h.dv})
    <3>1. \A q \in Free(h) \ {h.dv} : chunksize(w, q) = chunksize(h, q)
      BY <2>5, <2>10
    <3>2. w.bins = h.bins
      BY <2>5, <2>8 DEF SameBooks
    <3>3. QED
      BY <1>1, <3>1, <3>2, BinsMove
  <2>14. DvIs(w)
    BY <2>4, <2>5, <2>8, <2>9, <2>10 DEF DvIs
  <2>15. Sound(w)
    BY <2>9, <2>12, <2>13, <2>14 DEF Sound
  <2>16. Keeps(h, w, {})
    BY <2>5, <2>9, <2>10, <2>11 DEF Keeps
  <2>17. p \in Used(w) \ Used(h) /\ chunksize(w, p) >= nb
    BY <1>3, <2>4, <2>5, <2>9, <2>10
  <2>18. QED
    BY <1>4, <2>1, <2>15, <2>16, <2>17
<1>6. CASE ~IsChunk(h.dvsize - nb)
  <2> DEFINE v == set_inuse_and_pinuse(h, p, s)
             w == [v EXCEPT !.dv = NULL, !.dvsize = 0]
  <2>1. r = Given(w, p)
    BY <1>2, <1>6 DEF SplitDv
  <2> HIDE DEF r
  <2>2. /\ Shaped(v) /\ SameBooks(h, v)
        /\ Free(v) = Free(h) \ {p} /\ Used(v) = Used(h) \union {p}
        /\ \A q \in Free(h) \union Used(h) : chunksize(v, q) = chunksize(h, q)
    BY <1>1, <1>2, TakenWhole
  <2> HIDE DEF v
  <2>3. v \in HeapRec /\ NULL \in Nat /\ 0 \in Nat
    BY <2>2, ShapedIs, ConstantsAre
  <2>4. DvSet(v, w, NULL, 0)
    BY DEF DvSet
  <2> HIDE DEF w
  <2>5. /\ w \in HeapRec /\ w.head = v.head /\ w.bins = v.bins
        /\ SameTop(v, w) /\ w.dv = NULL /\ w.dvsize = 0
    BY <2>3, <2>4, NewDv
  <2>6. Shaped(w) /\ Free(w) = Free(v) /\ Used(w) = Used(v)
    BY <2>2, <2>5, SameShape
  <2>7. \A q : chunksize(w, q) = chunksize(v, q)
    BY <2>5, SameHead
  <2>8. DvIs(w) /\ NULL \notin Free(w)
    <3>1. DvIs(w)
      BY <2>5 DEF DvIs
    <3>2. QED
      BY <2>5, <2>6, <3>1, DvIsFree
  <2>9. Free(w) \ {w.dv} = Free(h) \ {h.dv}
    BY <2>2, <2>5, <2>6, <2>8
  <2>10. BinsAre(w, Free(h) \ {h.dv})
    <3>1. \A q \in Free(h) \ {h.dv} : chunksize(w, q) = chunksize(h, q)
      BY <2>2, <2>7
    <3>2. w.bins = h.bins
      BY <2>2, <2>5 DEF SameBooks
    <3>3. QED
      BY <1>1, <3>1, <3>2, BinsMove
  <2>11. Sound(w)
    BY <2>6, <2>8, <2>9, <2>10 DEF Sound
  <2>12. Keeps(h, w, {})
    BY <2>2, <2>6, <2>7 DEF Keeps
  <2>13. p \in Used(w) \ Used(h) /\ chunksize(w, p) >= nb
    BY <1>2, <1>3, <2>2, <2>6, <2>7
  <2>14. QED
    BY <1>4, <2>1, <2>11, <2>12, <2>13
<1>7. QED
  BY <1>5, <1>6

(* What set_top writes.                                                    *)
LEMMA SetTopIs ==
    ASSUME NEW h \in HeapRec, NEW p \in Places, NEW s \in Nat
    PROVE  LET w == set_top(h, p, s) IN
           /\ w \in HeapRec /\ SameBooks(h, w) /\ w.top = p /\ w.topsize = s
           /\ Chunks(w) = {p} \union (Chunks(h) \ (p + 1 .. p + s - 1))
           /\ chunksize(w, p) = s /\ ~cinuse(w, p) /\ pinuse(w, p)
           /\ \A q \in Chunks(w) : q # p => HeadOf(w, q) = HeadOf(h, q)
           /\ \A q : q # p /\ q \notin Chunks(h) => HeadOf(w, q) = Blank
<1> DEFINE hd == [size |-> s, cinuse |-> FALSE, pinuse |-> TRUE, prev_foot |-> 0]
           v == Write(h, p, hd)
           w == [v EXCEPT !.top = p, !.topsize = s]
<1>1. hd \in HeadRec /\ hd.size = s /\ hd.cinuse = FALSE /\ hd.pinuse = TRUE
  BY DEF HeadRec
<1>2. set_top(h, p, s) = w
  BY DEF set_top
<1> HIDE DEF hd
<1>3. /\ v \in HeapRec /\ SameBooks(h, v) /\ SameTop(h, v)
      /\ Chunks(v) = {p} \union (Chunks(h) \ (p + 1 .. p + s - 1))
      /\ HeadOf(v, p) = hd
      /\ \A q \in Chunks(v) : q # p => HeadOf(v, q) = HeadOf(h, q)
      /\ \A q : q # p /\ q \notin Chunks(h) => HeadOf(v, q) = Blank
  BY <1>1, WriteIs
<1> HIDE DEF v
<1>4. /\ w \in HeapRec /\ w.head = v.head /\ w.bins = v.bins /\ w.dv = v.dv
      /\ w.dvsize = v.dvsize /\ w.top = p /\ w.topsize = s
  <2>1. p \in Nat
    BY ConstantsAre DEF Places
  <2>2. QED
    BY <1>3, <2>1 DEF HeapRec
<1> HIDE DEF w
<1>5. Chunks(w) = Chunks(v) /\ \A q : HeadOf(w, q) = HeadOf(v, q)
  BY <1>4, SameHead
<1>6. chunksize(w, p) = s /\ ~cinuse(w, p) /\ pinuse(w, p)
  BY <1>1, <1>3, <1>5 DEF chunksize, cinuse, pinuse
<1>7. SameBooks(h, w)
  BY <1>3, <1>4 DEF SameBooks
<1>8. QED
  BY <1>2, <1>3, <1>4, <1>5, <1>6, <1>7, Zenon

(* Chunks are binned as before when none of the free ones changes.         *)
LEMMA StillSound ==
    ASSUME NEW h, Sound(h), NEW w, Shaped(w), SameBooks(h, w), Free(w) = Free(h),
           \A q \in Free(h) : chunksize(w, q) = chunksize(h, q)
    PROVE  Sound(w)
<1>1. BinsAre(w, Free(w) \ {w.dv})
  BY BinsMove DEF Sound, SameBooks
<1>2. DvIs(w)
  BY DEF Sound, DvIs, SameBooks
<1>3. QED
  BY <1>1, <1>2 DEF Sound

(* From the top, too, a request gets a chunk; the top shrinks but stays.   *)
LEMMA SplitTopGot ==
    ASSUME NEW h, Sound(h), NEW nb \in Nat, nb > 0, FitsTop(h, nb)
    PROVE  Got(h, SplitTop(h, nb), nb)
<1> DEFINE p == h.top
           m == p + nb
           v == set_top(h, m, h.topsize - nb)
           w == set_size_and_pinuse_of_inuse_chunk(v, p, nb)
           r == SplitTop(h, nb)
<1>1. /\ Shaped(h) /\ h \in HeapRec /\ p \in Chunks(h) /\ p # 0 /\ ~cinuse(h, p)
      /\ pinuse(h, p) /\ p \in Nat /\ p \in Places
      /\ h.topsize \in Nat /\ p + h.topsize = HeapSize /\ HeapSize \in Nat
      /\ Chunks(h) \subseteq Nat /\ \A q \in Chunks(h) : q <= p
  <2>1. Shaped(h)
    BY DEF Sound
  <2>2. QED
    BY <2>1, ShapedIs, HeapIs DEF Shaped, TopEnds
<1>2. /\ m \in Nat /\ p < m /\ m < HeapSize /\ m \in Places
      /\ h.topsize - nb \in Nat /\ h.topsize - nb = HeapSize - m /\ nb = m - p
  BY <1>1 DEF FitsTop, Places
<1>3. SplitTop(h, nb) = Given(w, p)
  BY DEF SplitTop
<1>4. /\ v \in HeapRec /\ SameBooks(h, v) /\ v.top = m /\ v.topsize = h.topsize - nb
      /\ Chunks(v) = {m} \union (Chunks(h) \ (m + 1 .. m + (h.topsize - nb) - 1))
      /\ chunksize(v, m) = h.topsize - nb /\ ~cinuse(v, m) /\ pinuse(v, m)
      /\ \A q \in Chunks(v) : q # m => HeadOf(v, q) = HeadOf(h, q)
  <2> HIDE DEF m
  <2> DEFINE t == h.topsize - nb
  <2>1. t \in Nat
    BY <1>2
  <2> HIDE DEF t
  <2> DEFINE z == set_top(h, m, t)
  <2>2. v = z
    BY DEF t
  <2> HIDE DEF v
  <2>3. /\ z \in HeapRec /\ SameBooks(h, z) /\ z.top = m /\ z.topsize = t
        /\ Chunks(z) = {m} \union (Chunks(h) \ (m + 1 .. m + t - 1))
        /\ chunksize(z, m) = t /\ ~cinuse(z, m) /\ pinuse(z, m)
        /\ \A q \in Chunks(z) : q # m => HeadOf(z, q) = HeadOf(h, q)
    <3>1. h \in HeapRec /\ m \in Places
      BY <1>1, <1>2
    <3>2. z \in HeapRec
      BY <2>1, <3>1, SetTopIs
    <3>3. SameBooks(h, z)
      BY <2>1, <3>1, SetTopIs
    <3>4. z.top = m
      BY <2>1, <3>1, SetTopIs
    <3>5. z.topsize = t
      BY <2>1, <3>1, SetTopIs
    <3>6. Chunks(z) = {m} \union (Chunks(h) \ (m + 1 .. m + t - 1))
      BY <2>1, <3>1, SetTopIs
    <3>7. chunksize(z, m) = t /\ ~cinuse(z, m) /\ pinuse(z, m)
      BY <2>1, <3>1, SetTopIs
    <3>8. \A q \in Chunks(z) : q # m => HeadOf(z, q) = HeadOf(h, q)
      BY <2>1, <3>1, SetTopIs
    <3> HIDE DEF z
    <3>9. QED
      BY <3>2, <3>3, <3>4, <3>5, <3>6, <3>7, <3>8
  <2> HIDE DEF z
  <2>4. QED
    BY <2>2, <2>3 DEF t
<1>5. Chunks(v) = {m} \union Chunks(h)
  <2>1. \A q \in Chunks(h) : q \notin m + 1 .. m + (h.topsize - nb) - 1
    BY <1>1, <1>2
  <2>2. QED
    BY <1>4, <2>1
<1> HIDE DEF v
<1>6. /\ w \in HeapRec /\ SameBooks(v, w) /\ SameTop(v, w)
      /\ Chunks(w) = {p} \union (Chunks(v) \ (p + 1 .. p + nb - 1))
      /\ chunksize(w, p) = nb /\ cinuse(w, p) /\ pinuse(w, p)
      /\ \A q \in Chunks(w) : q # p => HeadOf(w, q) = HeadOf(v, q)
  BY <1>1, <1>4, SetInuseOfChunkIs
<1> HIDE DEF w
<1>7. Chunks(w) = {p, m} \union (Chunks(h) \ (p .. HeapSize - 1))
  <2>1. \A q \in Chunks(h) : q \in p .. HeapSize - 1 <=> q = p
    BY <1>1, <1>2
  <2>2. p \notin p + 1 .. p + nb - 1 /\ m \notin p + 1 .. p + nb - 1
    BY <1>1, <1>2
  <2>3. \A q \in Chunks(h) : q \notin p + 1 .. p + nb - 1
    BY <1>1
  <2>4. QED
    BY <1>5, <1>6, <2>1, <2>2, <2>3
<1>8. /\ \A q \in Chunks(w) : q # p /\ q # m => HeadOf(w, q) = HeadOf(h, q)
      /\ HeadOf(w, m) = HeadOf(v, m)
  BY <1>2, <1>4, <1>5, <1>6, <1>7
<1>9. chunksize(w, m) = HeapSize - m /\ ~cinuse(w, m) /\ pinuse(w, m)
      /\ w.top = m /\ w.topsize = HeapSize - m /\ chunksize(w, p) = m - p
  BY <1>2, <1>4, <1>6, <1>8 DEF chunksize, cinuse, pinuse, SameTop
<1> HIDE DEF m
<1>10. pinuse(w, p) = pinuse(h, p)
  <2>1. pinuse(w, p) \in BOOLEAN /\ pinuse(h, p) \in BOOLEAN
    BY <1>1, <1>6, HeapIs
  <2>2. QED
    BY <1>1, <1>6, <2>1
<1>11. /\ Shaped(w) /\ SameOutside(h, w, p, HeapSize)
       /\ \A q \in Chunks(w) : q \in p .. HeapSize - 1 => q = p \/ q = m
  <2>1. ~pinuse(h, p) => prev_foot(w, p) = prev_foot(h, p)
    BY <1>1
  <2> HIDE DEF p
  <2>2. QED
    BY <1>1, <1>2, <1>6, <1>7, <1>8, <1>9, <1>10, <2>1, UsedAndTop
<1>12. SameElsewhere(h, w, p, HeapSize)
  <2>1. \A q : q \notin p .. HeapSize - 1 => (q = w.top <=> q = h.top)
    BY <1>1, <1>2, <1>9
  <2>2. QED
    BY <1>1, <1>11, <2>1, OutsideIs
<1>13. /\ Free(h) \subseteq Chunks(h) /\ Free(w) \subseteq Chunks(w)
       /\ Used(h) \subseteq Chunks(h) /\ Used(w) \subseteq Chunks(w)
       /\ p \notin Free(h) /\ p \notin Free(w) /\ m \notin Free(w)
       /\ p \in Used(w) /\ p \notin Used(h)
  BY <1>1, <1>6, <1>7, <1>9 DEF Free, Used
<1>14. \A q \in Chunks(h) : q \in p .. HeapSize - 1 => q = p
  BY <1>1
<1>15. Free(w) = Free(h) /\ \A q \in Free(h) : chunksize(w, q) = chunksize(h, q)
  BY <1>11, <1>12, <1>13, <1>14 DEF SameElsewhere
<1>16. Sound(w)
  <2>1. SameBooks(h, w)
    BY <1>4, <1>6 DEF SameBooks
  <2>2. QED
    BY <1>11, <1>15, <2>1, StillSound
<1>17. Keeps(h, w, {})
  BY <1>13, <1>14, <1>12 DEF Keeps, SameElsewhere
<1>18. r.heap = w /\ mem2chunk(r.mem) = p
  BY <1>1, <1>3 DEF Given, chunk2mem, mem2chunk
<1>19. chunksize(w, p) >= nb
  BY <1>6
<1> HIDE DEF r
<1>20. Got(h, r, nb)
  BY <1>13, <1>16, <1>17, <1>18, <1>19 DEF Got
<1>21. QED
  BY <1>20 DEF r

(* What mspace_malloc promises.                                            *)
LEMMA TakeChunkGot ==
    ASSUME NEW h, Sound(h), NEW nb \in Nat, nb >= 2
    PROVE  Got(h, TakeChunk(h, nb), nb)
<1> DEFINE A == is_small(nb) /\ h.bins[nb] # << >>
           E == is_small(nb) /\ h.bins[nb] = << >> /\ nb > h.dvsize
                    /\ Filled(h, nb, HeapSize) # {}
           C == ~is_small(nb) /\ BinBeatsDv(h, nb)
<1>1. nb > 0
  OBVIOUS
<1>2. CASE A
  <2>1. nb \in Sizes
    BY <1>2, ConstantsAre DEF is_small
  <2>2. Got(h, SplitBinned(h, nb, nb, "dv"), nb)
    BY <1>1, <1>2, <2>1, SplitBinnedIs
  <2>3. TakeChunk(h, nb) = SplitBinned(h, nb, nb, "dv")
    BY <1>2 DEF TakeChunk
  <2>4. QED
    BY <2>2, <2>3
<1>3. ASSUME Filled(h, nb, HeapSize) # {}
      PROVE  Got(h, tmalloc_small(h, nb), nb) /\ Got(h, tmalloc_large(h, nb), nb)
  <2> DEFINE s == Least(Filled(h, nb, HeapSize))
  <2>1. s \in Sizes /\ s >= nb /\ h.bins[s] # << >>
    BY <1>3, LeastFilled
  <2> HIDE DEF s
  <2>2. nb <= s
    BY <2>1, ConstantsAre
  <2>3. Got(h, SplitBinned(h, s, nb, "dv"), nb) /\ Got(h, SplitBinned(h, s, nb, "bin"), nb)
    BY <1>1, <2>1, <2>2, SplitBinnedIs
  <2>4. QED
    BY <2>3 DEF tmalloc_small, tmalloc_large, s
<1>4. CASE ~A /\ E
  <2>1. TakeChunk(h, nb) = tmalloc_small(h, nb)
    BY <1>4 DEF TakeChunk
  <2>2. QED
    BY <1>3, <1>4, <2>1
<1>5. CASE ~A /\ ~E /\ C
  <2>1. TakeChunk(h, nb) = tmalloc_large(h, nb)
    BY <1>5 DEF TakeChunk
  <2>2. Filled(h, nb, HeapSize) # {}
    BY <1>5 DEF BinBeatsDv
  <2>3. QED
    BY <1>3, <2>1, <2>2
<1>6. CASE ~A /\ ~E /\ ~C
  <2>1. TakeChunk(h, nb) = IF nb <= h.dvsize THEN SplitDv(h, nb)
                           ELSE IF FitsTop(h, nb) THEN SplitTop(h, nb) ELSE Failed(h)
    BY <1>6 DEF TakeChunk
  <2>2. nb <= h.dvsize => Got(h, SplitDv(h, nb), nb)
    BY <1>1, SplitDvGot
  <2>3. FitsTop(h, nb) => Got(h, SplitTop(h, nb), nb)
    BY <1>1, SplitTopGot
  <2>4. Got(h, Failed(h), nb)
    BY DEF Got, Failed, Keeps
  <2>5. QED
    BY <2>1, <2>2, <2>3, <2>4
<1>7. QED
  BY <1>2, <1>4, <1>5, <1>6

(* A request is at least as large as the least chunk.                      *)
LEMMA RequestIs ==
    ASSUME NEW bytes \in Nat
    PROVE  request2size(bytes) \in Nat /\ request2size(bytes) >= 2
<1>1. (bytes + 23) \div 16 \in Nat
  OBVIOUS
<1>2. QED
  BY <1>1, ConstantsAre DEF request2size, Larger

(* mspace_malloc gets a new chunk as large as asked, or fails.             *)
LEMMA MallocGot ==
    ASSUME NEW h, Sound(h), NEW bytes \in Nat
    PROVE  Got(h, mspace_malloc(h, bytes), request2size(bytes))
BY RequestIs, TakeChunkGot DEF mspace_malloc

-----------------------------------------------------------------------------
(* Giving back.  What is held of the heap before it is given: p begins a   *)
(* free chunk that is not binned, or one in use, and up to p + s there is  *)
(* nothing but what is in use.                                             *)
Gives(h, p, s) ==
    /\ Shaped(h) /\ p \in Chunks(h) /\ p # 0 /\ pinuse(h, p) /\ s \in Nat /\ s >= 2
    /\ p + s \in Chunks(h)
    /\ \A q \in Free(h) : q \in p .. p + s - 1 => q = p
    /\ BinsAre(h, Free(h) \ {p, h.dv}) /\ DvIs(h)

(* The chunks from p to p + s are given back.                              *)
GivenBack(h, w, p, s) ==
    /\ Sound(w)
    /\ \A q \in Used(h) : q \notin p .. p + s - 1 =>
            q \in Used(w) /\ chunksize(w, q) = chunksize(h, q)

(* The chunk that is free now is kept as the victim or in a bin.           *)
LEMMA KeptIs ==
    ASSUME NEW h, Shaped(h), NEW p \in Free(h),
           BinsAre(h, Free(h) \ {p, h.dv}),
           h.dv # p => DvIs(h)
    PROVE  LET w == Kept(h, p, chunksize(h, p))
           IN  /\ Sound(w) /\ Used(w) = Used(h)
               /\ \A q : chunksize(w, q) = chunksize(h, q)
<1> DEFINE s == chunksize(h, p)
           w == Kept(h, p, s)
<1>1. h \in HeapRec /\ p \in Places /\ p \in Nat /\ s \in Sizes /\ s \in Nat
  BY FreeIs, ShapedIs
<1>2. CASE p = h.dv
  <2>1. w = [h EXCEPT !.dvsize = s]
    BY <1>2 DEF Kept
  <2>2. /\ w \in HeapRec /\ w.head = h.head /\ SameTop(h, w) /\ w.bins = h.bins
        /\ w.dv = h.dv /\ w.dvsize = s
    BY <1>1, <2>1 DEF HeapRec, SameTop
  <2> HIDE DEF w
  <2>3. Shaped(w) /\ Free(w) = Free(h) /\ Used(w) = Used(h)
    BY <2>2, SameShape
  <2>4. \A q : chunksize(w, q) = chunksize(h, q)
    BY <2>2, SameHead
  <2>5. BinsAre(w, Free(w) \ {w.dv})
    <3>1. Free(w) \ {w.dv} = Free(h) \ {p, h.dv}
      BY <1>2, <2>2, <2>3
    <3>2. QED
      BY <2>2, <2>4, <3>1, BinsMove
  <2>6. DvIs(w)
    BY <1>2, <2>2, <2>3, <2>4 DEF DvIs
  <2>7. QED
    BY <2>3, <2>4, <2>5, <2>6 DEF Sound, w
<1>3. CASE p # h.dv
  <2>1. w = insert_chunk(h, p, s)
    BY <1>3 DEF Kept
  <2>2. Rebinned(h, w) /\ BinsAre(w, (Free(h) \ {p, h.dv}) \union {p})
    BY <1>1, <2>1, InsertIs
  <2> HIDE DEF w
  <2>3. /\ Shaped(w) /\ Free(w) = Free(h) /\ Used(w) = Used(h) /\ w.dv = h.dv /\ DvIs(w)
        /\ \A q : chunksize(w, q) = chunksize(h, q)
    BY <1>3, <2>2, RebinnedIs
  <2>4. (Free(h) \ {p, h.dv}) \union {p} = Free(w) \ {w.dv}
    BY <1>3, <2>3
  <2>5. QED
    BY <2>2, <2>3, <2>4 DEF Sound, w
<1>4. QED
  BY <1>2, <1>3

(* From p to p + s there is one chunk now, that is free.                   *)
OneFree(h, w, p, s) ==
    /\ Shaped(w) /\ SameBooks(h, w)
    /\ p \in Free(w) /\ chunksize(w, p) = s
    /\ \A q \in Free(w) : q # p => q \in Free(h) /\ q \notin p .. p + s - 1
    /\ \A q \in Free(h) : q \notin p .. p + s - 1 => q \in Free(w)
    /\ \A q \in Used(h) : q \notin p .. p + s - 1 => q \in Used(w)
    /\ \A q \in Free(h) \union Used(h) : q \notin p .. p + s - 1 =>
            chunksize(w, q) = chunksize(h, q)

(* The chunks from p to p + s become one free chunk.                       *)
LEMMA FreedIs ==
    ASSUME NEW h, Shaped(h), NEW p \in Chunks(h), p # 0, pinuse(h, p), NEW s \in Nat, s >= 2,
           p + s \in Chunks(h), cinuse(h, p + s), NEW w, Wrote(h, w, p, s),
           ~cinuse(w, p), pinuse(w, p), ~pinuse(w, p + s), prev_foot(w, p + s) = s
    PROVE  OneFree(h, w, p, s)
<1>1. p \in Nat /\ p + s \in Nat /\ s > 0 /\ h \in HeapRec /\ h.top \in Nat /\ p + s <= h.top
  BY ShapedIs
<1>2. w \in HeapRec /\ SameBooks(h, w) /\ SameTop(h, w) /\ chunksize(w, p) = s /\ p \in Chunks(w)
  BY DEF Wrote
<1>3. /\ Shaped(w) /\ SameOutside(h, w, p, p + s)
      /\ \A q \in Chunks(w) : q \in p .. p + s - 1 => q = p
  <2>1. pinuse(w, p) = pinuse(h, p) /\ pinuse(w, p + s) = cinuse(w, p)
    <3>1. pinuse(w, p) \in BOOLEAN /\ pinuse(h, p) \in BOOLEAN
          /\ pinuse(w, p + s) \in BOOLEAN /\ cinuse(w, p) \in BOOLEAN
      BY <1>1, <1>2, HeapIs
    <3>2. QED
      BY <3>1
  <2>2. /\ ~pinuse(h, p) => prev_foot(w, p) = prev_foot(h, p)
        /\ ~cinuse(w, p) => /\ prev_foot(w, p + s) = s /\ s >= 2
                            /\ pinuse(h, p) /\ cinuse(h, p + s)
    OBVIOUS
  <2>3. QED
    BY <1>1, <2>1, <2>2, OneChunk, Zenon
<1>4. SameElsewhere(h, w, p, p + s)
  BY <1>1, <1>2, <1>3, OutsideIs DEF SameTop
<1>5. p + s - 1 = (p + s) - 1
  BY <1>1
<1>6. \A q : q \notin p .. p + s - 1 =>
        /\ q \in Free(w) <=> q \in Free(h)
        /\ q \in Used(w) <=> q \in Used(h)
        /\ q \in Chunks(w) => chunksize(w, q) = chunksize(h, q)
  BY <1>4, <1>5 DEF SameElsewhere
<1>7. Free(w) \subseteq Chunks(w) /\ Used(w) \subseteq Chunks(w)
  BY DEF Free, Used
<1>8. p \in Free(w)
  BY <1>1, <1>2 DEF Free, SameTop
<1>9. \A q \in Free(w) : q # p => q \in Free(h) /\ q \notin p .. p + s - 1
  BY <1>3, <1>6, <1>7
<1>10. \A q \in Free(h) \union Used(h) : q \notin p .. p + s - 1 =>
            chunksize(w, q) = chunksize(h, q)
  BY <1>6, <1>7
<1>11. QED
  BY <1>2, <1>3, <1>6, <1>8, <1>9, <1>10 DEF OneFree

(* The free chunk gets its place in the books.                             *)
LEMMA FreedAndKept ==
    ASSUME NEW h, NEW p, NEW s \in Nat, NEW t \in Nat, t <= s, p \in Nat,
           NEW v, OneFree(h, v, p, s),
           \A q \in Used(h) : q \in p .. p + s - 1 => q \in p .. p + t - 1,
           NEW G, BinsAre(v, G), G = {q \in Free(h) : q \notin p .. p + s - 1 /\ q # v.dv},
           v.dv # p => DvIs(v)
    PROVE  GivenBack(h, Kept(v, p, s), p, t)
<1>1. /\ Shaped(v) /\ p \in Free(v) /\ chunksize(v, p) = s
      /\ \A q \in Free(v) : q # p => q \in Free(h) /\ q \notin p .. p + s - 1
      /\ \A q \in Free(h) : q \notin p .. p + s - 1 => q \in Free(v)
      /\ \A q \in Used(h) : q \notin p .. p + s - 1 =>
            q \in Used(v) /\ chunksize(v, q) = chunksize(h, q)
  BY DEF OneFree
<1>2. Free(v) \ {p, v.dv} = G
  <2>1. p \in p .. p + s - 1
    <3>1. s >= 2
      BY <1>1, FreeIs
    <3>2. QED
      BY <3>1
  <2>2. QED
    BY <1>1, <2>1
<1>3. /\ Sound(Kept(v, p, s)) /\ Used(Kept(v, p, s)) = Used(v)
      /\ \A q : chunksize(Kept(v, p, s), q) = chunksize(v, q)
  BY <1>1, <1>2, KeptIs
<1>4. \A q \in Used(h) : q \notin p .. p + t - 1 =>
        q \in Used(v) /\ chunksize(v, q) = chunksize(h, q)
  BY <1>1
<1>5. QED
  BY <1>3, <1>4 DEF GivenBack

(* The same with the free chunk that begins at p + s.                      *)
Merges(h, w, p, s, t) ==
    /\ t = s + chunksize(h, p + s)
    /\ w = set_size_and_pinuse_of_free_chunk(h, p, t)

(* And with the free chunk behind them, a larger one.                      *)
LEMMA MergedIs ==
    ASSUME NEW h, Shaped(h), NEW p \in Chunks(h), p # 0, pinuse(h, p), NEW s \in Nat, s >= 2,
           p + s \in Free(h), NEW t, NEW w, Merges(h, w, p, s, t)
    PROVE  /\ t \in Nat /\ t >= s
           /\ \A q \in Chunks(h) : q \in p .. p + t - 1 => q \in p .. p + s - 1 \/ q = p + s
           /\ p + s \in p .. p + t - 1
           /\ OneFree(h, w, p, t)
<1> DEFINE n == p + s
           c == chunksize(h, n)
<1>1. /\ p \in Nat /\ p \in Places /\ n \in Nat /\ n \in Chunks(h) /\ c \in Nat /\ c >= 2
      /\ n + c \in Chunks(h) /\ n + c \in Places /\ cinuse(h, n + c) /\ ~pinuse(h, n + c)
      /\ h \in HeapRec /\ Solid(h, n + c) /\ Solid(h, n) /\ Chunks(h) \subseteq Nat
  BY FreeIs, ShapedIs
<1>2. t \in Nat /\ t >= s /\ t >= 2 /\ t > 0 /\ p + t = n + c
  BY <1>1 DEF Merges
<1>3. \A q \in Chunks(h) : q \in p .. p + t - 1 => q \in p .. p + s - 1 \/ q = n
  BY <1>1, <1>2 DEF Solid
<1>4. n \in p .. p + t - 1
  BY <1>1, <1>2
<1>5. p + t \in Chunks(h) /\ p + t \in Places /\ cinuse(h, p + t) /\ ~pinuse(h, p + t)
      /\ Solid(h, p + t)
  BY <1>1, <1>2
<1>6. /\ Wrote(h, w, p, t) /\ ~cinuse(w, p) /\ pinuse(w, p) /\ prev_foot(w, p + t) = t
      /\ pinuse(w, p + t) = pinuse(h, p + t)
  <2> HIDE DEF n, c
  <2>1. w = set_size_and_pinuse_of_free_chunk(h, p, t)
    BY DEF Merges
  <2>2. QED
    BY <1>1, <1>2, <1>5, <2>1, SetFreeIs
<1>7. ~pinuse(w, p + t)
  BY <1>5, <1>6
<1>8. OneFree(h, w, p, t)
  BY <1>1, <1>2, <1>5, <1>6, <1>7, FreedIs
<1>9. QED
  BY <1>2, <1>3, <1>4, <1>8, Zenon

(* Wherever the chunk behind is (in use, the top, the victim, a bin), the  *)
(* heap is sound when it has been looked at.                               *)
LEMMA ConsolidateIs ==
    ASSUME NEW h, NEW p, NEW s, Gives(h, p, s)
    PROVE  GivenBack(h, Consolidate(h, p, s), p, s)
<1> DEFINE n == p + s
           t == s + chunksize(h, n)
<1>1. /\ Shaped(h) /\ p \in Chunks(h) /\ p # 0 /\ pinuse(h, p) /\ s \in Nat /\ s >= 2
      /\ n \in Chunks(h) /\ DvIs(h)
      /\ \A q \in Free(h) : q \in p .. p + s - 1 => q = p
      /\ BinsAre(h, Free(h) \ {p, h.dv})
  BY Zenon DEF Gives
<1>2. /\ p \in Nat /\ p \in Places /\ n \in Nat /\ h \in HeapRec /\ Chunks(h) \subseteq Nat
      /\ Solid(h, n) /\ \A q : chunksize(h, q) \in Nat
  BY <1>1, ShapedIs
<1>3. Used(h) \subseteq Chunks(h) /\ Free(h) \subseteq Chunks(h)
  BY DEF Used, Free
<1>4. CASE cinuse(h, n)
  <2> DEFINE w == set_free_with_pinuse(h, p, s, n)
  <2>1. /\ Wrote(h, w, p, s) /\ ~cinuse(w, p) /\ pinuse(w, p)
        /\ ~pinuse(w, p + s) /\ prev_foot(w, p + s) = s
    <3>1. s > 0
      BY <1>1
    <3>2. QED
      BY <1>1, <1>2, <3>1, SetFreeWithPinuseIs
  <2>2. Consolidate(h, p, s) = Kept(w, p, s)
    BY <1>4 DEF Consolidate
  <2> HIDE DEF w
  <2>31. OneFree(h, w, p, s)
    BY <1>1, <1>4, <2>1, FreedIs
  <2>3. /\ Shaped(w) /\ SameBooks(h, w)
        /\ p \in Free(w) /\ chunksize(w, p) = s
        /\ \A q \in Free(w) : q # p => q \in Free(h) /\ q \notin p .. p + s - 1
        /\ \A q \in Free(h) : q \notin p .. p + s - 1 => q \in Free(w)
        /\ \A q \in Used(h) : q \notin p .. p + s - 1 => q \in Used(w)
        /\ \A q \in Free(h) \union Used(h) : q \notin p .. p + s - 1 =>
                    chunksize(w, q) = chunksize(h, q)
    BY <2>31 DEF OneFree
  <2> DEFINE G == Free(h) \ {p, h.dv}
  <2>4. w.dv = h.dv /\ w.dvsize = h.dvsize /\ w.bins = h.bins
    BY <2>3 DEF SameBooks
  <2>5. p \in p .. p + s - 1
    BY <1>1, <1>2
  <2>6. G = {q \in Free(h) : q \notin p .. p + s - 1 /\ q # w.dv}
    BY <1>1, <2>4, <2>5
  <2>7. BinsAre(w, G)
    <3>1. \A q \in G : chunksize(w, q) = chunksize(h, q)
      BY <1>1, <2>3
    <3>2. QED
      BY <1>1, <2>4, <3>1, BinsMove
  <2>8. w.dv # p => DvIs(w)
    BY <1>1, <2>3, <2>4 DEF DvIs
  <2> HIDE DEF G
  <2>9. \A q \in Used(h) : q \in p .. p + s - 1 => q \in p .. p + s - 1
    OBVIOUS
  <2>10. s <= s
    BY <1>1
  <2>11. GivenBack(h, Kept(w, p, s), p, s)
    BY <1>1, <1>2, <2>31, <2>6, <2>7, <2>8, <2>9, <2>10, FreedAndKept, Zenon
  <2>12. QED
    BY <2>2, <2>11
<1>5. CASE ~cinuse(h, n) /\ n = h.top
  <2> DEFINE w == set_top(h, p, t)
             u == [w EXCEPT !.dv = IF @ = p THEN NULL ELSE @,
                            !.dvsize = IF h.dv = p THEN 0 ELSE @]
  <2>1. chunksize(h, n) = h.topsize /\ n + h.topsize = HeapSize /\ HeapSize \in Nat
        /\ \A q \in Chunks(h) : q <= n /\ q < HeapSize
    BY <1>1, <1>2, <1>5, ShapedIs DEF Shaped, TopEnds, Places
  <2>2. t = HeapSize - p /\ t \in Nat /\ p + t = HeapSize /\ p + t - 1 = HeapSize - 1 /\ p < HeapSize
    BY <1>1, <1>2, <2>1
  <2> HIDE DEF t
  <2>3. /\ w \in HeapRec /\ SameBooks(h, w) /\ w.top = p /\ w.topsize = t
    <3>1. w.top = p
      BY <1>2, <2>2, SetTopIs
    <3>2. w.topsize = t
      <4>1. h \in HeapRec /\ p \in Places /\ t \in Nat
        BY <1>2, <2>2
      <4>2. QED
        BY <4>1, SetTopIs
    <3>3. w \in HeapRec /\ SameBooks(h, w)
      BY <1>2, <2>2, SetTopIs
    <3>4. QED
      BY <3>1, <3>2, <3>3
  <2>4. /\ Chunks(w) = {p} \union (Chunks(h) \ (p + 1 .. p + t - 1))
        /\ chunksize(w, p) = t /\ ~cinuse(w, p) /\ pinuse(w, p)
        /\ \A q \in Chunks(w) : q # p => HeadOf(w, q) = HeadOf(h, q)
    BY <1>2, <2>2, SetTopIs, ZenonT(60)
  <2>5. Consolidate(h, p, s) = u
    BY <1>5 DEF Consolidate, t
  <2> HIDE DEF w
  <2>6. Chunks(w) = {p} \union (Chunks(h) \ (p .. HeapSize - 1))
    BY <1>1, <1>2, <2>2, <2>4
  <2>7. /\ Shaped(w) /\ SameOutside(h, w, p, HeapSize)
        /\ \A q \in Chunks(w) : q \in p .. HeapSize - 1 => q = p
    <3>1. chunksize(w, p) = HeapSize - p /\ w.topsize = HeapSize - p
      BY <2>2, <2>3, <2>4
    <3>2. QED
      BY <1>1, <2>3, <2>4, <2>6, <3>1, TopAlone
  <2>8. SameElsewhere(h, w, p, HeapSize)
    <3>1. \A q : q \notin p .. HeapSize - 1 => (q = w.top <=> q = h.top)
      <4>1. n \in p .. HeapSize - 1 /\ p \in p .. HeapSize - 1
        BY <1>1, <1>2, <2>1, <2>2
      <4>2. QED
        BY <1>5, <2>3, <4>1
    <3>2. QED
      BY <1>2, <2>1, <2>7, <3>1, OutsideIs
  <2>9. p \notin Free(w) /\ p \notin Used(w) /\ Free(w) \subseteq Chunks(w)
        /\ Used(w) \subseteq Chunks(w)
    BY <2>3, <2>4 DEF Free, Used
  <2>10. \A q \in Free(h) : q \in p .. HeapSize - 1 => q = p
    <3>1. \A q \in Free(h) : q # n
      BY <1>5 DEF Free
    <3>2. \A q \in Chunks(h) : q \in p .. HeapSize - 1 => q \in p .. p + s - 1 \/ q = n
      BY <1>1, <1>2, <2>1
    <3>3. QED
      BY <1>1, <1>3, <3>1, <3>2
  <2>11. Free(w) = Free(h) \ {p} /\ \A q \in Free(w) : chunksize(w, q) = chunksize(h, q)
    BY <2>7, <2>8, <2>9, <2>10 DEF SameElsewhere
  <2> DEFINE d == IF h.dv = p THEN NULL ELSE h.dv
             e == IF h.dv = p THEN 0 ELSE h.dvsize
  <2>12. d \in Nat /\ e \in Nat
    BY <1>2, HeapIs, ConstantsAre
  <2>13. DvSet(w, u, d, e)
    <3>1. w.dv = h.dv /\ w.dvsize = h.dvsize
      BY <2>3 DEF SameBooks
    <3>2. u = [w EXCEPT !.dv = d, !.dvsize = e]
      BY <2>3, <3>1 DEF HeapRec
    <3>3. QED
      BY <3>2 DEF DvSet
  <2> HIDE DEF u
  <2>14. /\ u \in HeapRec /\ u.head = w.head /\ u.bins = w.bins
         /\ SameTop(w, u) /\ u.dv = d /\ u.dvsize = e
    <3> HIDE DEF d, e
    <3>1. QED
      BY <2>3, <2>12, <2>13, NewDv
  <2>15. Shaped(u) /\ Free(u) = Free(w) /\ Used(u) = Used(w)
    BY <2>7, <2>14, SameShape
  <2>16. \A q : chunksize(u, q) = chunksize(w, q)
    BY <2>14, SameHead
  <2>17. DvIs(u)
    BY <1>1, <2>11, <2>14, <2>15, <2>16 DEF DvIs
  <2>18. Free(u) \ {u.dv} = Free(h) \ {p, h.dv}
    <3>1. CASE h.dv = p
      <4>1. NULL \notin Free(u)
        BY <2>14, <2>15, <2>17, <3>1, DvIsFree
      <4>2. QED
        BY <2>11, <2>14, <2>15, <3>1, <4>1
    <3>2. CASE h.dv # p
      BY <2>11, <2>14, <2>15, <3>2
    <3>3. QED
      BY <3>1, <3>2
  <2>19. BinsAre(u, Free(h) \ {p, h.dv})
    <3>1. u.bins = h.bins
      BY <2>3, <2>14 DEF SameBooks
    <3>2. \A q \in Free(h) \ {p, h.dv} : chunksize(u, q) = chunksize(h, q)
      BY <2>11, <2>16
    <3>3. QED
      BY <1>1, <3>1, <3>2, BinsMove
  <2>20. Sound(u)
    BY <2>15, <2>17, <2>18, <2>19 DEF Sound
  <2>21. ASSUME NEW q \in Used(h), q \notin p .. p + s - 1
         PROVE  q \in Used(u) /\ chunksize(u, q) = chunksize(h, q)
    <3>1. q # n /\ q <= n /\ q \in Nat
      BY <1>2, <1>3, <1>5, <2>1 DEF Used
    <3>2. q \notin p .. HeapSize - 1
      BY <1>1, <1>2, <2>1, <2>21, <3>1
    <3>3. QED
      BY <2>8, <2>9, <2>15, <2>16, <3>2 DEF SameElsewhere
  <2>22. QED
    BY <2>5, <2>20, <2>21 DEF GivenBack
<1>6. CASE ~cinuse(h, n) /\ n # h.top /\ n = h.dv
  <2> DEFINE w == set_size_and_pinuse_of_free_chunk(h, p, t)
             u == [w EXCEPT !.dv = p, !.dvsize = t]
  <2>1. n \in Free(h)
    BY <1>1, <1>6 DEF Free
  <2>2. Consolidate(h, p, s) = u
    BY <1>6 DEF Consolidate
  <2> HIDE DEF w
  <2>3. /\ t \in Nat /\ t >= s
        /\ \A q \in Chunks(h) : q \in p .. p + t - 1 => q \in p .. p + s - 1 \/ q = n
        /\ n \in p .. p + t - 1
        /\ OneFree(h, w, p, t)
    <3>1. Merges(h, w, p, s, t)
      BY DEF w, Merges
    <3> HIDE DEF t
    <3>2. QED
      BY <1>1, <2>1, <3>1, MergedIs
  <2>17. /\ Shaped(w) /\ SameBooks(h, w)
         /\ p \in Free(w) /\ chunksize(w, p) = t
         /\ \A q \in Free(w) : q # p => q \in Free(h) /\ q \notin p .. p + t - 1
         /\ \A q \in Free(h) : q \notin p .. p + t - 1 => q \in Free(w)
         /\ \A q \in Used(h) : q \notin p .. p + t - 1 => q \in Used(w)
         /\ \A q \in Free(h) \union Used(h) : q \notin p .. p + t - 1 =>
                     chunksize(w, q) = chunksize(h, q)
    BY <2>3 DEF OneFree
  <2>4. w \in HeapRec
    BY <2>3, <2>17, ShapedIs
  <2>5. DvSet(w, u, p, t)
    BY DEF DvSet
  <2> HIDE DEF u, t
  <2>6. /\ u \in HeapRec /\ u.head = w.head /\ u.bins = w.bins
        /\ SameTop(w, u) /\ u.dv = p /\ u.dvsize = t
    BY <1>2, <2>3, <2>17, <2>4, <2>5, NewDv
  <2>7. Shaped(u) /\ Free(u) = Free(w) /\ Used(u) = Used(w)
    BY <2>3, <2>17, <2>6, SameShape
  <2>8. \A q : chunksize(u, q) = chunksize(w, q)
    BY <2>6, SameHead
  <2>9. \A q \in Free(h) : q \in p .. p + t - 1 => q = p \/ q = n
    BY <1>1, <1>3, <2>3, <2>17
  <2>10. p \in p .. p + t - 1 /\ n \in p .. p + t - 1
    BY <1>1, <1>2, <2>3
  <2>11. Free(u) \ {u.dv} = Free(h) \ {p, h.dv}
    BY <1>6, <2>17, <2>6, <2>7, <2>9, <2>10
  <2>12. BinsAre(u, Free(h) \ {p, h.dv})
    <3>1. u.bins = h.bins
      BY <2>3, <2>17, <2>6 DEF SameBooks
    <3>2. \A q \in Free(h) \ {p, h.dv} : chunksize(u, q) = chunksize(h, q)
      BY <1>6, <2>17, <2>8, <2>9
    <3>3. QED
      BY <1>1, <3>1, <3>2, BinsMove
  <2>13. DvIs(u)
    BY <2>3, <2>17, <2>6, <2>7, <2>8 DEF DvIs
  <2>14. Sound(u)
    BY <2>7, <2>11, <2>12, <2>13 DEF Sound
  <2>15. ASSUME NEW q \in Used(h), q \notin p .. p + s - 1
         PROVE  q \in Used(u) /\ chunksize(u, q) = chunksize(h, q)
    <3>1. q # n
      BY <1>6 DEF Used
    <3>2. q \notin p .. p + t - 1
      BY <1>3, <2>3, <2>17, <2>15, <3>1
    <3>3. QED
      BY <2>3, <2>7, <2>8, <2>15, <3>2 DEF OneFree
  <2>16. QED
    BY <2>2, <2>14, <2>15 DEF GivenBack
<1>7. CASE ~cinuse(h, n) /\ n # h.top /\ n # h.dv
  <2> DEFINE v == unlink_chunk(h, n, chunksize(h, n))
             w == set_size_and_pinuse_of_free_chunk(v, p, t)
  <2>1. n \in Free(h) /\ n # p
    BY <1>1, <1>2, <1>7 DEF Free
  <2>2. Consolidate(h, p, s) = Kept(w, p, t)
    <3>1. t - s = chunksize(h, n)
      BY <1>1, <1>2
    <3>2. QED
      BY <1>7, <3>1 DEF Consolidate
  <2>3. Rebinned(h, v) /\ BinsAre(v, (Free(h) \ {p, h.dv}) \ {n})
    <3>1. n \in Free(h) \ {p, h.dv}
      BY <1>7, <2>1
    <3>2. QED
      BY <1>1, <1>2, <3>1, UnlinkIs
  <2> HIDE DEF v
  <2>4. /\ Shaped(v) /\ Free(v) = Free(h) /\ Used(v) = Used(h) /\ v.dv = h.dv /\ DvIs(v)
        /\ \A q : chunksize(v, q) = chunksize(h, q)
    BY <1>1, <2>3, RebinnedIs
  <2>5. Chunks(v) = Chunks(h) /\ pinuse(v, p)
    BY <1>1, <2>3, SameHead DEF Rebinned
  <2> HIDE DEF w
  <2>6. /\ t \in Nat /\ t >= s
        /\ \A q \in Chunks(v) : q \in p .. p + t - 1 => q \in p .. p + s - 1 \/ q = n
        /\ n \in p .. p + t - 1
        /\ OneFree(v, w, p, t)
    <3>1. Merges(v, w, p, s, t) /\ p + s \in Free(v) /\ p \in Chunks(v)
      BY <1>1, <2>1, <2>4, <2>5 DEF w, Merges
    <3> HIDE DEF t
    <3>2. QED
      BY <1>1, <2>4, <2>5, <3>1, MergedIs
  <2>21. /\ Shaped(w) /\ SameBooks(v, w)
         /\ p \in Free(w) /\ chunksize(w, p) = t
         /\ \A q \in Free(w) : q # p => q \in Free(v) /\ q \notin p .. p + t - 1
         /\ \A q \in Free(v) : q \notin p .. p + t - 1 => q \in Free(w)
         /\ \A q \in Used(v) : q \notin p .. p + t - 1 => q \in Used(w)
         /\ \A q \in Free(v) \union Used(v) : q \notin p .. p + t - 1 =>
                     chunksize(w, q) = chunksize(v, q)
    BY <2>6 DEF OneFree
  <2> DEFINE G == (Free(h) \ {p, h.dv}) \ {n}
  <2> HIDE DEF t
  <2>7. w.dv = h.dv /\ w.dvsize = v.dvsize /\ w.bins = v.bins
    BY <2>4, <2>6, <2>21 DEF SameBooks
  <2>8. \A q \in Free(h) : q \in p .. p + t - 1 => q = p \/ q = n
    BY <1>1, <1>3, <2>5, <2>6, <2>21
  <2>9. p \in p .. p + t - 1
    BY <1>1, <1>2, <2>6, <2>21
  <2>10. G = {q \in Free(h) : q \notin p .. p + t - 1 /\ q # w.dv}
    BY <2>6, <2>21, <2>7, <2>8, <2>9
  <2>11. BinsAre(w, G)
    <3>1. \A q \in G : chunksize(w, q) = chunksize(v, q)
      BY <2>4, <2>8, <2>21
    <3>2. QED
      BY <2>3, <2>7, <3>1, BinsMove
  <2>12. w.dv # p => DvIs(w)
    <3>1. ASSUME w.dv # p, v.dv \in Free(v) PROVE w.dv \in Free(w) /\ chunksize(w, w.dv) = chunksize(v, v.dv)
      BY <1>7, <2>4, <2>7, <2>8, <2>21, <3>1
    <3>2. QED
      BY <2>4, <2>7, <3>1 DEF DvIs
  <2> HIDE DEF G
  <2>13. \A q \in Used(h) : q \in p .. p + t - 1 => q \in p .. p + s - 1
    <3>1. \A q \in Used(h) : q # n
      BY <1>7 DEF Used
    <3>2. QED
      BY <1>3, <2>5, <2>6, <2>21, <3>1
  <2>14. t >= s /\ \A q \in Used(v) : q \in p .. p + t - 1 => q \in p .. p + s - 1
    BY <2>4, <2>6, <2>13
  <2>15. G = {q \in Free(v) : q \notin p .. p + t - 1 /\ q # w.dv}
    BY <2>4, <2>10
  <2>18. s <= t
    BY <1>1, <2>6
  <2>19. GivenBack(v, Kept(w, p, t), p, s)
    BY <1>1, <1>2, <2>6, <2>11, <2>12, <2>14, <2>15, <2>18, FreedAndKept, Zenon
  <2>22. GivenBack(h, Kept(w, p, t), p, s)
    BY <2>4, <2>19 DEF GivenBack
  <2>20. QED
    BY <2>2, <2>22
<1>8. QED
  BY <1>4, <1>5, <1>6, <1>7

(* A chunk in use is given back.                                           *)
Disposed(h, w, p) == Sound(w) /\ Keeps(h, w, {p})

(* The free chunk before p is taken out of its bin.                        *)
LEMMA TakenBack ==
    ASSUME NEW h, Sound(h), NEW r \in Free(h), NEW v,
           v = IF r = h.dv THEN h ELSE unlink_chunk(h, r, chunksize(h, r))
    PROVE  /\ Shaped(v) /\ Free(v) = Free(h) /\ Used(v) = Used(h) /\ DvIs(v)
           /\ Chunks(v) = Chunks(h) /\ pinuse(v, r) /\ \A q : chunksize(v, q) = chunksize(h, q)
           /\ BinsAre(v, Free(v) \ {r, v.dv})
<1>1. Shaped(h) /\ h \in HeapRec /\ DvIs(h) /\ pinuse(h, r) /\ BinsAre(h, Free(h) \ {h.dv})
  BY FreeIs, ShapedIs DEF Sound
<1>2. CASE r = h.dv
  <2>1. v = h /\ Free(h) \ {h.dv} = Free(v) \ {r, v.dv}
    BY <1>2
  <2>2. QED
    BY <1>1, <2>1
<1>3. CASE r # h.dv
  <2>1. v = unlink_chunk(h, r, chunksize(h, r))
    BY <1>3
  <2>2. Rebinned(h, v) /\ Holds(v, r)
    BY <1>3, <2>1, Unlinked
  <2>3. Chunks(v) = Chunks(h) /\ pinuse(v, r)
    BY <1>1, <2>2, SameHead DEF Rebinned
  <2>4. QED
    BY <1>1, <2>2, <2>3, RebinnedIs DEF Holds
<1>4. QED
  BY <1>2, <1>3

(* dispose_chunk leaves a sound heap and all the other chunks in use.      *)
LEMMA DisposeIs ==
    ASSUME NEW h, Sound(h), NEW p \in Used(h), p # 0, chunksize(h, p) >= 2
    PROVE  Disposed(h, dispose_chunk(h, p, chunksize(h, p)), p)
<1> DEFINE s == chunksize(h, p)
           w == dispose_chunk(h, p, s)
<1>1. /\ Shaped(h) /\ DvIs(h) /\ BinsAre(h, Free(h) \ {h.dv})
  BY DEF Sound
<1>2. /\ p \in Chunks(h) /\ p \in Nat /\ s \in Nat /\ cinuse(h, p) /\ p # h.top
      /\ p + s \in Chunks(h) /\ Chunks(h) \subseteq Nat
      /\ pinuse(h, p) \in BOOLEAN
  BY <1>1, ShapedIs DEF Used
<1>3. Free(h) \subseteq Chunks(h) /\ Used(h) \subseteq Chunks(h) /\ p \notin Free(h)
      /\ Free(h) \intersect Used(h) = {}
  BY <1>2 DEF Free, Used
<1>4. \A q \in Chunks(h) : q \in p .. p + s - 1 => q = p
  BY <1>1, <1>2, InsideIs
<1>5. CASE pinuse(h, p)
  <2>1. w = Consolidate(h, p, s)
    BY <1>5 DEF dispose_chunk
  <2>2. Gives(h, p, s)
    <3>1. Free(h) \ {p, h.dv} = Free(h) \ {h.dv}
      BY <1>3
    <3>2. QED
      BY <1>1, <1>2, <1>3, <1>4, <1>5, <3>1 DEF Gives
  <2>3. GivenBack(h, Consolidate(h, p, s), p, s)
    BY <2>2, ConsolidateIs
  <2>4. QED
    BY <1>3, <1>4, <2>1, <2>3 DEF GivenBack, Disposed, Keeps
<1>6. CASE ~pinuse(h, p)
  <2>1. PICK r \in Chunks(h) : r # h.top /\ r < p /\ r + chunksize(h, r) = p
    BY <1>1, <1>2, Predecessor
  <2>2. /\ ~cinuse(h, r) /\ prev_foot(h, p) = chunksize(h, r) /\ chunksize(h, r) \in Nat
        /\ chunksize(h, r) >= 2 /\ r \in Nat /\ r # 0
    BY <1>1, <1>6, <2>1, ShapedIs
  <2>3. r \in Free(h)
    BY <2>1, <2>2 DEF Free
  <2>4. p - prev_foot(h, p) = r /\ p - r = chunksize(h, r)
    BY <1>2, <2>1, <2>2
  <2> DEFINE t == s + p - r
             v == IF r = h.dv THEN h ELSE unlink_chunk(h, r, chunksize(h, r))
  <2>5. w = Consolidate(v, r, t)
    BY <1>6, <2>4 DEF dispose_chunk, prev_foot
  <2>6. t \in Nat /\ t >= 2 /\ r + t = p + s /\ r + t - 1 = p + s - 1
    BY <1>2, <2>1, <2>2
  <2> HIDE DEF t, w
  <2>7. /\ Shaped(v) /\ Free(v) = Free(h) /\ Used(v) = Used(h) /\ DvIs(v)
        /\ Chunks(v) = Chunks(h) /\ pinuse(v, r) /\ \A q : chunksize(v, q) = chunksize(h, q)
        /\ BinsAre(v, Free(v) \ {r, v.dv})
    BY <2>3, TakenBack
  <2> HIDE DEF v
  <2>8. \A q \in Chunks(h) : q \in r .. r + t - 1 => q = r \/ q = p
    <3>1. \A q \in Chunks(h) : q \in r .. r + chunksize(h, r) - 1 => q = r
      BY <1>1, <2>1, InsideIs
    <3>2. QED
      BY <1>2, <1>4, <2>1, <2>2, <2>6, <3>1
  <2>9. \A q \in Free(v) : q \in r .. r + t - 1 => q = r
    BY <1>3, <2>7, <2>8
  <2>10. r + t \in Chunks(v)
    BY <1>2, <2>6, <2>7
  <2>11. Gives(v, r, t)
    BY <2>1, <2>2, <2>6, <2>7, <2>9, <2>10 DEF Gives
  <2>12. GivenBack(v, Consolidate(v, r, t), r, t)
    BY <2>11, ConsolidateIs
  <2>13. \A q \in Used(h) \ {p} : q \notin r .. r + t - 1
    BY <1>3, <2>3, <2>8
  <2>14. QED
    BY <2>5, <2>7, <2>12, <2>13 DEF GivenBack, Disposed, Keeps, w
<1>7. QED
  BY <1>2, <1>5, <1>6 DEF w

(* mspace_free of a block does.                                            *)
LEMMA FreeGives ==
    ASSUME NEW h, Sound(h), NEW mem, mem2chunk(mem) \in Used(h), mem # NULL, mem2chunk(mem) # 0,
           chunksize(h, mem2chunk(mem)) >= 2
    PROVE  Disposed(h, mspace_free(h, mem), mem2chunk(mem))
<1>1. mspace_free(h, mem) = dispose_chunk(h, mem2chunk(mem), chunksize(h, mem2chunk(mem)))
  BY DEF mspace_free
<1>2. QED
  BY <1>1, DisposeIs

-----------------------------------------------------------------------------
(* A chunk in use is cut at m: both parts are in use.                      *)
Cut(h, w, p, m) ==
    /\ Sound(w) /\ p \in Used(w) /\ m \in Used(w)
    /\ chunksize(w, p) = m - p /\ chunksize(w, m) = p + chunksize(h, p) - m
    /\ \A q \in Used(h) \ {p} : q # m /\ q \in Used(w) /\ chunksize(w, q) = chunksize(h, q)

(* Two chunks in use in the place of one.                                  *)
LEMMA HalvesCut ==
    ASSUME NEW h, Sound(h), NEW p \in Used(h), p # 0, NEW m \in Nat, p < m, m < p + chunksize(h, p),
           NEW w, Halves(h, w, p, m, p + chunksize(h, p)), cinuse(w, m)
    PROVE  Cut(h, w, p, m)
<1> DEFINE b == p + chunksize(h, p)
<1>1. /\ Shaped(h) /\ p \in Chunks(h) /\ p \in Nat /\ p # h.top /\ b \in Chunks(h) /\ b \in Nat
      /\ chunksize(h, p) \in Nat /\ cinuse(h, p) /\ Chunks(h) \subseteq Nat
      /\ b - m = p + chunksize(h, p) - m /\ b - 1 = p + chunksize(h, p) - 1
  <2>1. Shaped(h) /\ p \in Chunks(h) /\ cinuse(h, p)
    BY DEF Sound, Used
  <2>2. QED
    BY <2>1, ShapedIs
<1>2. \A q \in Chunks(h) : q \in p .. b - 1 => q = p
  BY <1>1, InsideIs
<1>3. Halves(h, w, p, m, b) /\ p < m /\ m < b
  OBVIOUS
<1> HIDE DEF b
<1>4. /\ Shaped(w) /\ SameOutside(h, w, p, b)
      /\ \A q \in Chunks(w) : q \in p .. b - 1 => q = p \/ q = m
  BY <1>1, <1>3, TwoChunks
<1>5. /\ SameBooks(h, w) /\ SameTop(h, w) /\ p \in Chunks(w) /\ m \in Chunks(w)
      /\ cinuse(w, p) /\ chunksize(w, p) = m - p /\ chunksize(w, m) = b - m
  BY <1>3 DEF Halves
<1>6. h.top \notin p .. b - 1
  <2>1. h.top \in Chunks(h)
    BY <1>1, ShapedIs
  <2>2. QED
    BY <1>1, <1>2, <2>1
<1>7. SameElsewhere(h, w, p, b)
  BY <1>1, <1>4, <1>5, OutsideIs DEF SameTop
<1>8. Free(w) \subseteq Chunks(w) /\ Free(h) \subseteq Chunks(h) /\ Used(h) \subseteq Chunks(h)
      /\ p \notin Free(h) /\ p \notin Free(w) /\ m \notin Free(w)
      /\ p \in Used(w) /\ m \in Used(w)
  BY <1>1, <1>5 DEF Free, Used
<1>9. Free(w) = Free(h) /\ \A q \in Free(h) : chunksize(w, q) = chunksize(h, q)
  <2>1. \A q \in Free(h) : q \notin p .. b - 1
    BY <1>2, <1>8
  <2>2. \A q \in Free(w) : q \notin p .. b - 1
    BY <1>4, <1>8
  <2>3. QED
    BY <1>7, <1>8, <2>1, <2>2 DEF SameElsewhere
<1>10. Sound(w)
  BY <1>4, <1>5, <1>9, StillSound
<1>11. ASSUME NEW q \in Used(h) \ {p}
       PROVE  q # m /\ q \in Used(w) /\ chunksize(w, q) = chunksize(h, q)
  <2>1. q \notin p .. b - 1
    BY <1>2, <1>8
  <2>2. m \in p .. b - 1
    BY <1>1, <1>3
  <2>3. Used(w) \subseteq Chunks(w)
    BY DEF Used
  <2>4. QED
    BY <1>7, <2>1, <2>2, <2>3 DEF SameElsewhere
<1>12. QED
  BY <1>1, <1>5, <1>8, <1>10, <1>11 DEF Cut, b

(* What both orders of writing have in common.                             *)
Cuts(h, p, nb, r) ==
    /\ Sound(h) /\ p \in Used(h) /\ p # 0 /\ nb \in Nat /\ r \in Nat /\ nb > 0 /\ r > 0
    /\ nb + r = chunksize(h, p)

(* The places of a cut.                                                    *)
LEMMA CutsIs ==
    ASSUME NEW h, NEW p, NEW nb, NEW r, Cuts(h, p, nb, r)
    PROVE  /\ h \in HeapRec /\ p \in Places /\ p + nb \in Places /\ p + nb + r \in Places
           /\ p \in Nat /\ nb \in Nat /\ r \in Nat /\ nb > 0 /\ r > 0
           /\ p \in Chunks(h) /\ p + nb \in Nat /\ p + nb + r \in Chunks(h)
           /\ p + chunksize(h, p) = p + nb + r /\ Chunks(h) \subseteq Nat
           /\ p + nb \notin Chunks(h) /\ pinuse(h, p + nb + r)
           /\ Solid(h, p + nb) /\ Solid(h, p + nb + r)
           /\ \A q \in Chunks(h) : q \in p .. p + nb + r => q = p \/ q = p + nb + r
<1>1. Shaped(h) /\ p \in Chunks(h) /\ cinuse(h, p) /\ nb \in Nat /\ r \in Nat /\ nb > 0 /\ r > 0
      /\ nb + r = chunksize(h, p)
  BY DEF Cuts, Sound, Used
<1>2. /\ h \in HeapRec /\ p \in Nat /\ p \in Places /\ p # h.top
      /\ p + chunksize(h, p) \in Chunks(h) /\ p + chunksize(h, p) \in Places
      /\ pinuse(h, p + chunksize(h, p)) /\ Solid(h, p) /\ Solid(h, p + chunksize(h, p))
      /\ Chunks(h) \subseteq Nat
  BY <1>1, ShapedIs
<1>3. p + chunksize(h, p) = p + nb + r /\ p + nb \in Nat /\ p + nb + r \in Nat
  BY <1>1, <1>2
<1>4. p + nb \in Places
  BY <1>1, <1>2, <1>3, ConstantsAre DEF Places
<1>5. p + nb \notin Chunks(h)
  BY <1>1, <1>2, <1>3 DEF Solid
<1>6. Solid(h, p + nb)
  <2>1. chunksize(h, p + nb) = 0
    BY <1>5 DEF chunksize, HeadOf, Blank, Chunks
  <2>2. QED
    BY <1>2, <1>3, <2>1 DEF Solid
<1>7. \A q \in Chunks(h) : q \in p .. p + nb + r => q = p \/ q = p + nb + r
  BY <1>1, <1>2, <1>3 DEF Solid
<1>8. QED
  BY <1>1, <1>2, <1>3, <1>4, <1>5, <1>6, <1>7

(* The first part is written first.                                        *)
LEMMA CutInFront ==
    ASSUME NEW h, NEW p, NEW nb, NEW r, Cuts(h, p, nb, r)
    PROVE  Cut(h, set_inuse(set_inuse(h, p, nb), p + nb, r), p, p + nb)
<1> DEFINE m == p + nb
           b == m + r
           v == set_inuse(h, p, nb)
           w == set_inuse(v, m, r)
<1>1. /\ h \in HeapRec /\ p \in Places /\ m \in Places /\ b \in Places
      /\ p \in Nat /\ nb \in Nat /\ r \in Nat /\ nb > 0 /\ r > 0
      /\ p \in Chunks(h) /\ m \in Nat /\ b \in Chunks(h)
      /\ p + chunksize(h, p) = b /\ Chunks(h) \subseteq Nat
      /\ m \notin Chunks(h) /\ pinuse(h, b) /\ Solid(h, m) /\ Solid(h, b)
      /\ \A q \in Chunks(h) : q \in p .. b => q = p \/ q = b
  BY CutsIs
<1>2. p < m /\ m < b /\ b \in Nat /\ nb = m - p /\ r = b - m
  BY <1>1
<1>3. /\ Wrote(h, v, p, nb) /\ cinuse(v, p) /\ pinuse(v, p) = pinuse(h, p)
      /\ prev_foot(v, p) = prev_foot(h, p) /\ pinuse(v, m)
  BY <1>1, SetInuseIs
<1>4. /\ v \in HeapRec /\ SameBooks(h, v) /\ SameTop(h, v) /\ chunksize(v, p) = nb
      /\ Chunks(v) = {p, m} \union (Chunks(h) \ (p + 1 .. m - 1))
      /\ \A q \in Chunks(v) : q # p /\ q # m => HeadOf(v, q) = HeadOf(h, q)
  <2>1. p + nb - 1 = m - 1
    BY <1>1
  <2>2. QED
    BY <1>3, <2>1 DEF Wrote
<1> HIDE DEF v
<1>5. Chunks(v) = Chunks(h) \union {m} /\ HeadOf(v, b) = HeadOf(h, b)
  <2>1. Chunks(v) = Chunks(h) \union {m}
    BY <1>1, <1>2, <1>4
  <2>2. QED
    BY <1>1, <1>2, <1>4, <2>1
<1>6. Solid(v, b)
  <2>1. chunksize(v, b) = chunksize(h, b)
    BY <1>5 DEF chunksize
  <2>2. \A q \in Chunks(v) : q \in Chunks(h) \/ q < b
    BY <1>2, <1>5
  <2>3. b \in Nat /\ Chunks(v) \subseteq Nat
    BY <1>1, <1>2, <1>5
  <2>4. QED
    BY <1>1, <2>1, <2>2, <2>3 DEF Solid
<1> HIDE DEF m
<1>7. /\ Wrote(v, w, m, r) /\ cinuse(w, m) /\ pinuse(w, m) = pinuse(v, m)
      /\ pinuse(w, b)
  BY <1>1, <1>4, <1>6, SetInuseIs
<1>8. /\ w \in HeapRec /\ SameBooks(v, w) /\ SameTop(v, w) /\ chunksize(w, m) = r
      /\ Chunks(w) = {m, b} \union (Chunks(v) \ (m + 1 .. b - 1))
      /\ chunksize(w, b) = chunksize(v, b) /\ cinuse(w, b) = cinuse(v, b)
      /\ \A q \in Chunks(w) : q # m /\ q # b => HeadOf(w, q) = HeadOf(v, q)
  <2>1. m + r - 1 = b - 1
    BY <1>1
  <2>2. QED
    BY <1>7, <2>1 DEF Wrote
<1> HIDE DEF w, b
<1>9. Chunks(w) = Chunks(h) \union {m}
  BY <1>1, <1>2, <1>5, <1>8
<1>10. Chunks(w) = {p, m, b} \union (Chunks(h) \ (p .. b))
  BY <1>1, <1>2, <1>9
<1>11. HeadOf(w, p) = HeadOf(v, p)
  BY <1>1, <1>2, <1>8, <1>9
<1>12. /\ chunksize(w, p) = m - p /\ cinuse(w, p)
       /\ pinuse(w, p) = pinuse(h, p) /\ prev_foot(w, p) = prev_foot(h, p)
  BY <1>2, <1>3, <1>4, <1>11 DEF chunksize, cinuse, pinuse, prev_foot
<1>13. chunksize(w, b) = chunksize(h, b) /\ cinuse(w, b) = cinuse(h, b)
  BY <1>5, <1>8 DEF chunksize, cinuse
<1>14. pinuse(w, b) = cinuse(w, m) /\ pinuse(w, m)
  <2>1. pinuse(w, b) \in BOOLEAN /\ cinuse(w, m) \in BOOLEAN
    BY <1>8, HeapIs
  <2>2. QED
    BY <1>3, <1>7, <2>1 DEF m
<1>15. \A q \in Chunks(w) : q \notin {p, m, b} => HeadOf(w, q) = HeadOf(h, q)
  BY <1>4, <1>5, <1>8, <1>9
<1>16. SameBooks(h, w) /\ SameTop(h, w)
  BY <1>4, <1>8 DEF SameBooks, SameTop
<1>17. Halves(h, w, p, m, b)
  BY <1>2, <1>7, <1>8, <1>10, <1>12, <1>13, <1>14, <1>15, <1>16 DEF Halves
<1>18. Cut(h, w, p, m)
  <2>1. Sound(h) /\ p \in Used(h) /\ p # 0 /\ m < p + chunksize(h, p)
        /\ Halves(h, w, p, m, p + chunksize(h, p))
    BY <1>1, <1>2, <1>17 DEF Cuts
  <2>2. QED
    BY <1>1, <1>2, <1>7, <2>1, HalvesCut
<1>19. QED
  BY <1>18 DEF w, v, m

(* The second part is written first.                                       *)
LEMMA CutBehind ==
    ASSUME NEW h, NEW p, NEW nb, NEW r, Cuts(h, p, nb, r)
    PROVE  Cut(h, set_inuse(set_inuse(h, p + nb, r), p, nb), p, p + nb)
<1> DEFINE m == p + nb
           b == m + r
           v == set_inuse(h, m, r)
           w == set_inuse(v, p, nb)
<1>1. /\ h \in HeapRec /\ p \in Places /\ m \in Places /\ b \in Places
      /\ p \in Nat /\ nb \in Nat /\ r \in Nat /\ nb > 0 /\ r > 0
      /\ p \in Chunks(h) /\ m \in Nat /\ b \in Chunks(h)
      /\ p + chunksize(h, p) = b /\ Chunks(h) \subseteq Nat
      /\ m \notin Chunks(h) /\ pinuse(h, b) /\ Solid(h, m) /\ Solid(h, b)
      /\ \A q \in Chunks(h) : q \in p .. b => q = p \/ q = b
  BY CutsIs
<1>2. p < m /\ m < b /\ b \in Nat /\ nb = m - p /\ r = b - m
  BY <1>1
<1>3. Wrote(h, v, m, r) /\ cinuse(v, m) /\ pinuse(v, b)
  <2> HIDE DEF m
  <2>1. QED
    BY <1>1, SetInuseIs
<1>4. /\ v \in HeapRec /\ SameBooks(h, v) /\ SameTop(h, v) /\ chunksize(v, m) = r
      /\ chunksize(v, b) = chunksize(h, b) /\ cinuse(v, b) = cinuse(h, b)
      /\ Chunks(v) = {m, b} \union (Chunks(h) \ (m + 1 .. b - 1))
      /\ \A q \in Chunks(v) : q # m /\ q # b => HeadOf(v, q) = HeadOf(h, q)
  <2>1. m + r - 1 = b - 1
    BY <1>1
  <2> HIDE DEF m
  <2>2. QED
    BY <1>3, <2>1 DEF Wrote
<1> HIDE DEF v
<1>5. Chunks(v) = Chunks(h) \union {m} /\ HeadOf(v, p) = HeadOf(h, p)
  <2>1. Chunks(v) = Chunks(h) \union {m}
    BY <1>1, <1>2, <1>4
  <2>2. QED
    BY <1>1, <1>2, <1>4, <2>1
<1>6. Solid(v, m)
  <2>1. \A q \in Chunks(h) : ~(m < q /\ q < b)
    BY <1>1, <1>2
  <2>2. m + chunksize(v, m) = b /\ \A q \in Chunks(v) : q \in Chunks(h) \/ q = m
    BY <1>4, <1>5
  <2> HIDE DEF b, m
  <2>3. QED
    BY <1>1, <1>2, <2>1, <2>2 DEF Solid
<1>7. /\ Wrote(v, w, p, nb) /\ cinuse(w, p) /\ pinuse(w, p) = pinuse(v, p)
      /\ prev_foot(w, p) = prev_foot(v, p) /\ pinuse(w, m)
  BY <1>1, <1>4, <1>6, SetInuseIs
<1>8. /\ w \in HeapRec /\ SameBooks(v, w) /\ SameTop(v, w) /\ chunksize(w, p) = nb
      /\ Chunks(w) = {p, m} \union (Chunks(v) \ (p + 1 .. m - 1))
      /\ chunksize(w, m) = chunksize(v, m) /\ cinuse(w, m) = cinuse(v, m)
      /\ \A q \in Chunks(w) : q # p /\ q # m => HeadOf(w, q) = HeadOf(v, q)
  <2>1. p + nb - 1 = m - 1
    BY <1>1
  <2>2. QED
    BY <1>7, <2>1 DEF Wrote
<1> HIDE DEF w, b, m
<1>9. Chunks(w) = Chunks(h) \union {m}
  BY <1>1, <1>2, <1>5, <1>8
<1>10. Chunks(w) = {p, m, b} \union (Chunks(h) \ (p .. b))
  BY <1>1, <1>2, <1>9
<1>11. HeadOf(w, b) = HeadOf(v, b)
  BY <1>1, <1>2, <1>8, <1>9
<1>12. /\ chunksize(w, p) = m - p /\ cinuse(w, p) /\ chunksize(w, m) = b - m
       /\ pinuse(w, p) = pinuse(h, p) /\ prev_foot(w, p) = prev_foot(h, p)
  BY <1>2, <1>4, <1>5, <1>7, <1>8 DEF pinuse, prev_foot
<1>13. /\ chunksize(w, b) = chunksize(h, b) /\ cinuse(w, b) = cinuse(h, b)
       /\ pinuse(w, b) /\ cinuse(w, m)
  BY <1>3, <1>4, <1>8, <1>11 DEF chunksize, cinuse, pinuse
<1>14. pinuse(w, b) = cinuse(w, m)
  <2>1. pinuse(w, b) \in BOOLEAN /\ cinuse(w, m) \in BOOLEAN
    BY <1>8, HeapIs
  <2>2. QED
    BY <1>13, <2>1
<1>15. \A q \in Chunks(w) : q \notin {p, m, b} => HeadOf(w, q) = HeadOf(h, q)
  BY <1>4, <1>5, <1>8, <1>9
<1>16. SameBooks(h, w) /\ SameTop(h, w)
  BY <1>4, <1>8 DEF SameBooks, SameTop
<1>17. Halves(h, w, p, m, b)
  BY <1>7, <1>8, <1>10, <1>12, <1>13, <1>14, <1>15, <1>16 DEF Halves
<1>18. Cut(h, w, p, m)
  <2>1. Sound(h) /\ p \in Used(h) /\ p # 0 /\ m < p + chunksize(h, p)
        /\ Halves(h, w, p, m, p + chunksize(h, p))
    BY <1>1, <1>2, <1>17 DEF Cuts
  <2>2. QED
    BY <1>1, <1>2, <1>13, <2>1, HalvesCut
<1>19. QED
  BY <1>18 DEF w, v, m

(* What a program may give back: a chunk it got.                           *)
Block(h, p) == p \in Used(h) /\ p # 0 /\ chunksize(h, p) >= 2

(* The chunk stays where it is, or becomes m, with room for nb units.      *)
Resized(h, w, p, m, nb) ==
    /\ Sound(w) /\ Keeps(h, w, {p}) /\ m \in Used(w) /\ chunksize(w, m) >= nb
    /\ m = p \/ m \notin Used(h)

(* The part that is not needed is given back.                              *)
LEMMA GiveBackIs ==
    ASSUME NEW h, Sound(h), NEW p, Block(h, p), NEW nb \in Nat, nb >= 2,
           chunksize(h, p) - nb >= 2
    PROVE  Resized(h, GiveBack(h, p, nb), p, p, nb)
<1> DEFINE r == chunksize(h, p) - nb
           m == p + nb
           v == set_inuse(set_inuse(h, p, nb), m, r)
<1>1. p \in Used(h) /\ p # 0 /\ p \in Nat /\ chunksize(h, p) \in Nat
  <2>1. Shaped(h) /\ p \in Used(h) /\ p # 0
    BY DEF Sound, Block
  <2>2. QED
    BY <2>1, ShapedIs DEF Used
<1>2. r \in Nat /\ r >= 2 /\ r > 0 /\ nb > 0 /\ nb + r = chunksize(h, p) /\ m # 0 /\ m # p
      /\ m - p = nb /\ p + chunksize(h, p) - m = r
  BY <1>1
<1>3. GiveBack(h, p, nb) = dispose_chunk(v, m, r)
  BY DEF GiveBack
<1> HIDE DEF r
<1>4. Cuts(h, p, nb, r)
  BY <1>1, <1>2 DEF Cuts
<1>5. Cut(h, v, p, m)
  BY <1>4, CutInFront
<1> HIDE DEF v, m
<1>6. /\ Sound(v) /\ p \in Used(v) /\ m \in Used(v) /\ chunksize(v, p) = nb /\ chunksize(v, m) = r
      /\ \A q \in Used(h) \ {p} : q # m /\ q \in Used(v) /\ chunksize(v, q) = chunksize(h, q)
  BY <1>2, <1>5 DEF Cut
<1>7. Disposed(v, dispose_chunk(v, m, r), m)
  BY <1>2, <1>6, DisposeIs
<1>8. QED
  BY <1>2, <1>3, <1>6, <1>7 DEF Disposed, Keeps, Resized

(* A block that is too large is shrunk where it is.                        *)
LEMMA ShrunkIs ==
    ASSUME NEW h, Sound(h), NEW p, Block(h, p), NEW nb \in Nat, nb >= 2, chunksize(h, p) >= nb
    PROVE  Resized(h, Shrunk(h, p, nb), p, p, nb)
<1>1. CASE IsChunk(chunksize(h, p) - nb)
  <2>1. chunksize(h, p) - nb >= 2
    BY <1>1 DEF IsChunk, MIN_CHUNK_SIZE
  <2>2. QED
    BY <1>1, <2>1, GiveBackIs DEF Shrunk
<1>2. CASE ~IsChunk(chunksize(h, p) - nb)
  BY <1>2 DEF Shrunk, Resized, Keeps, Block
<1>3. QED
  BY <1>1, <1>2

-----------------------------------------------------------------------------
(* The chunk in use at p grows into the chunk behind it.                   *)
NewTop(h, v, m, t) == v = set_top(h, m, t)

(* The top begins somewhere else.                                          *)
LEMMA NewTopIs ==
    ASSUME NEW h \in HeapRec, NEW m \in Places, NEW t \in Nat, NEW v, NewTop(h, v, m, t)
    PROVE  /\ v \in HeapRec /\ SameBooks(h, v) /\ v.top = m /\ v.topsize = t
           /\ Chunks(v) = {m} \union (Chunks(h) \ (m + 1 .. m + t - 1))
           /\ chunksize(v, m) = t /\ ~cinuse(v, m) /\ pinuse(v, m)
           /\ \A q \in Chunks(v) : q # m => HeadOf(v, q) = HeadOf(h, q)
<1> DEFINE z == set_top(h, m, t)
<1>1. v = z
  BY DEF NewTop
<1>2. z \in HeapRec /\ SameBooks(h, z) /\ z.top = m
  BY SetTopIs
<1>3. z.topsize = t
  BY SetTopIs
<1>4. Chunks(z) = {m} \union (Chunks(h) \ (m + 1 .. m + t - 1))
  BY SetTopIs
<1>5. chunksize(z, m) = t /\ ~cinuse(z, m) /\ pinuse(z, m)
  BY SetTopIs
<1>6. \A q \in Chunks(z) : q # m => HeadOf(z, q) = HeadOf(h, q)
  BY SetTopIs
<1> HIDE DEF z
<1>7. QED
  BY <1>1, <1>2, <1>3, <1>4, <1>5, <1>6

(* How a chunk in use may grow.                                            *)
LEMMA GrowsIs ==
    ASSUME NEW h, Shaped(h), NEW p, Block(h, p)
    PROVE  /\ h \in HeapRec /\ p \in Chunks(h) /\ p \in Places /\ p \in Nat /\ p # 0
           /\ p \in Used(h) /\ p \notin Free(h) /\ cinuse(h, p) /\ p # h.top
           /\ chunksize(h, p) \in Nat /\ chunksize(h, p) >= 2
           /\ p + chunksize(h, p) \in Chunks(h) /\ p + chunksize(h, p) \in Nat
           /\ Chunks(h) \subseteq Nat /\ HeadOf(h, p) \in HeadRec
           /\ \A q \in Chunks(h) : q \in p .. p + chunksize(h, p) - 1 => q = p
<1>1. p \in Used(h) /\ p # 0 /\ chunksize(h, p) >= 2
  BY DEF Block
<1>2. p \in Chunks(h) /\ cinuse(h, p) /\ p \notin Free(h)
  BY <1>1 DEF Used, Free
<1>3. h \in HeapRec
  BY DEF Shaped
<1>4. HeadOf(h, p) \in HeadRec
  BY <1>3, HeapIs, Zenon
<1>5. \A q \in Chunks(h) : q \in p .. p + chunksize(h, p) - 1 => q = p
  BY <1>1, <1>2, InsideIs
<1>6. /\ p \in Places /\ p \in Nat /\ p # h.top /\ chunksize(h, p) \in Nat
      /\ p + chunksize(h, p) \in Chunks(h) /\ p + chunksize(h, p) \in Nat
      /\ Chunks(h) \subseteq Nat
  BY <1>1, <1>2, ShapedIs
<1>7. QED
  BY <1>1, <1>2, <1>3, <1>4, <1>5, <1>6

(* A block grows into the top behind it.                                   *)
LEMMA GrownIntoTop ==
    ASSUME NEW h, Sound(h), NEW p, Block(h, p), NEW nb \in Nat, nb > chunksize(h, p),
           p + chunksize(h, p) = h.top, chunksize(h, p) + h.topsize > nb,
           NEW v, NewTop(h, v, p + nb, chunksize(h, p) + h.topsize - nb)
    PROVE  Resized(h, Write(v, p, [HeadOf(h, p) EXCEPT !.size = nb]), p, p, nb)
<1> DEFINE s == chunksize(h, p)
           m == p + nb
           t == s + h.topsize - nb
           hd == [HeadOf(h, p) EXCEPT !.size = nb]
           w == Write(v, p, hd)
<1>1. /\ Shaped(h) /\ h \in HeapRec /\ p \in Chunks(h) /\ p \in Places /\ p \in Nat /\ p # 0
      /\ p \in Used(h) /\ p \notin Free(h) /\ cinuse(h, p) /\ s \in Nat /\ s >= 2
      /\ Chunks(h) \subseteq Nat /\ HeadOf(h, p) \in HeadRec
      /\ \A q \in Chunks(h) : q \in p .. p + s - 1 => q = p
  <2>1. Shaped(h)
    BY DEF Sound
  <2>2. QED
    BY <2>1, GrowsIs
<1>2. /\ h.topsize \in Nat /\ h.top \in Nat /\ h.top + h.topsize = HeapSize /\ HeapSize \in Nat
      /\ \A q \in Chunks(h) : q <= h.top
  BY <1>1, HeapIs, ConstantsAre DEF Shaped, TopEnds
<1>3. /\ m \in Nat /\ p < m /\ m < HeapSize /\ h.top < m
      /\ t \in Nat /\ t = HeapSize - m /\ nb = m - p
  BY <1>1, <1>2
<1>4. m \in Places
  BY <1>2, <1>3 DEF Places
<1>5. /\ v \in HeapRec /\ SameBooks(h, v) /\ v.top = m /\ v.topsize = t
      /\ Chunks(v) = {m} \union (Chunks(h) \ (m + 1 .. m + t - 1))
      /\ chunksize(v, m) = t /\ ~cinuse(v, m) /\ pinuse(v, m)
      /\ \A q \in Chunks(v) : q # m => HeadOf(v, q) = HeadOf(h, q)
  <2>1. NewTop(h, v, m, t)
    OBVIOUS
  <2> HIDE DEF m, t
  <2>2. QED
    BY <1>1, <1>3, <1>4, <2>1, NewTopIs
<1>6. Chunks(v) = {m} \union Chunks(h)
  BY <1>1, <1>2, <1>3, <1>5
<1> HIDE DEF t
<1>7. /\ hd \in HeadRec /\ hd.size = nb /\ hd.cinuse = cinuse(h, p) /\ hd.pinuse = pinuse(h, p)
      /\ hd.prev_foot = prev_foot(h, p)
  BY <1>1 DEF HeadRec, cinuse, pinuse, prev_foot
<1> HIDE DEF hd
<1>8. /\ w \in HeapRec /\ SameBooks(v, w) /\ SameTop(v, w)
      /\ Chunks(w) = {p} \union (Chunks(v) \ (p + 1 .. p + hd.size - 1))
      /\ HeadOf(w, p) = hd
      /\ \A q \in Chunks(w) : q # p => HeadOf(w, q) = HeadOf(v, q)
  BY <1>1, <1>5, <1>7, WriteIs
<1> HIDE DEF w
<1>9. Chunks(w) = {p, m} \union (Chunks(h) \ (p .. HeapSize - 1))
  <2>1. p \notin p + 1 .. p + nb - 1 /\ m \notin p + 1 .. p + nb - 1
    BY <1>1, <1>3
  <2>2. \A q \in Chunks(h) : q # p => (q \in p + 1 .. p + nb - 1 <=> q \in p .. HeapSize - 1)
    BY <1>1, <1>2, <1>3
  <2>3. p \in p .. HeapSize - 1
    BY <1>1, <1>2, <1>3
  <2>4. QED
    BY <1>1, <1>6, <1>7, <1>8, <2>1, <2>2, <2>3
<1>10. /\ \A q \in Chunks(w) : q # p /\ q # m => HeadOf(w, q) = HeadOf(h, q)
       /\ HeadOf(w, m) = HeadOf(v, m)
  BY <1>3, <1>5, <1>6, <1>8, <1>9
<1>11. /\ chunksize(w, m) = HeapSize - m /\ ~cinuse(w, m) /\ pinuse(w, m)
       /\ w.top = m /\ w.topsize = HeapSize - m
  BY <1>3, <1>5, <1>8, <1>10 DEF chunksize, cinuse, pinuse, SameTop
<1>12. /\ chunksize(w, p) = m - p /\ cinuse(w, p) /\ pinuse(w, p) = pinuse(h, p)
       /\ prev_foot(w, p) = prev_foot(h, p)
  BY <1>1, <1>3, <1>7, <1>8 DEF chunksize, cinuse, pinuse, prev_foot
<1> HIDE DEF m
<1>13. /\ Shaped(w) /\ SameOutside(h, w, p, HeapSize)
       /\ \A q \in Chunks(w) : q \in p .. HeapSize - 1 => q = p \/ q = m
  BY <1>1, <1>3, <1>8, <1>9, <1>10, <1>11, <1>12, UsedAndTop
<1>14. SameElsewhere(h, w, p, HeapSize)
  <2>1. \A q : q \notin p .. HeapSize - 1 => (q = w.top <=> q = h.top)
    BY <1>1, <1>2, <1>3, <1>11
  <2>2. QED
    BY <1>1, <1>2, <1>13, <2>1, OutsideIs
<1>15. /\ Free(h) \subseteq Chunks(h) /\ Free(w) \subseteq Chunks(w)
       /\ Used(h) \subseteq Chunks(h) /\ Used(w) \subseteq Chunks(w)
       /\ h.top \notin Free(h) /\ p \notin Free(w) /\ m \notin Free(w)
       /\ p \in Used(w) /\ h.top \notin Used(h)
  <2>1. p \in Chunks(w) /\ ~cinuse(h, h.top)
    BY <1>1, <1>8, ShapedIs
  <2>2. QED
    BY <1>11, <1>12, <2>1 DEF Free, Used
<1>16. \A q \in Chunks(h) : q \in p .. HeapSize - 1 => q = p \/ q = h.top
  BY <1>1, <1>2
<1>17. Free(w) = Free(h) /\ \A q \in Free(h) : chunksize(w, q) = chunksize(h, q)
  BY <1>1, <1>13, <1>14, <1>15, <1>16 DEF SameElsewhere
<1>18. Sound(w)
  <2>1. SameBooks(h, w)
    BY <1>5, <1>8 DEF SameBooks
  <2>2. QED
    BY <1>13, <1>17, <2>1, StillSound
<1>19. Keeps(h, w, {p})
  BY <1>14, <1>15, <1>16 DEF Keeps, SameElsewhere
<1>20. chunksize(w, p) >= nb
  BY <1>3, <1>12
<1>21. Resized(h, w, p, p, nb)
  BY <1>15, <1>18, <1>19, <1>20 DEF Resized
<1>22. QED
  BY <1>21 DEF w, hd

Absorbs(h, w, p, t) ==
    /\ p + chunksize(h, p) \in Free(h)
    /\ t = chunksize(h, p) + chunksize(h, p + chunksize(h, p))
    /\ w = set_inuse(h, p, t)

(* A block takes in the free chunk behind it, up to t units.               *)
LEMMA AbsorbedIs ==
    ASSUME NEW h, Shaped(h), NEW p, Block(h, p), NEW t, NEW w, Absorbs(h, w, p, t)
    PROVE  /\ Shaped(w) /\ SameBooks(h, w)
           /\ Used(w) = Used(h) /\ Free(w) = Free(h) \ {p + chunksize(h, p)}
           /\ t \in Nat /\ t >= 2 /\ chunksize(w, p) = t
           /\ \A q \in Free(w) \union Used(w) : q # p => chunksize(w, q) = chunksize(h, q)
<1> DEFINE s == chunksize(h, p)
           n == p + s
           c == chunksize(h, n)
<1>1. /\ h \in HeapRec /\ p \in Chunks(h) /\ p \in Places /\ p \in Nat /\ p # 0
      /\ p \in Used(h) /\ p \notin Free(h) /\ cinuse(h, p) /\ s \in Nat /\ s >= 2
      /\ Chunks(h) \subseteq Nat /\ n \in Nat /\ p # h.top
      /\ \A q \in Chunks(h) : q \in p .. n - 1 => q = p
  <2>1. p + s - 1 = n - 1
    BY GrowsIs
  <2>2. QED
    BY <2>1, GrowsIs
<1>2. n \in Free(h)
  BY DEF Absorbs
<1>3. /\ n \in Chunks(h) /\ n # h.top /\ c \in Nat /\ c >= 2 /\ n + c \in Chunks(h) /\ n + c \in Nat
      /\ n + c \in Places /\ Solid(h, n + c) /\ Solid(h, n)
  BY <1>2, FreeIs, ShapedIs
<1>4. t \in Nat /\ t >= 2 /\ t > 0 /\ p + t = n + c /\ (p + t) - 1 = p + t - 1
  BY <1>1, <1>3 DEF Absorbs
<1>5. \A q \in Chunks(h) : q \in p .. (p + t) - 1 => q = p \/ q = n
  BY <1>1, <1>3, <1>4 DEF Solid
<1>6. n \in p .. (p + t) - 1 /\ p \in p .. (p + t) - 1
  BY <1>1, <1>3, <1>4
<1> HIDE DEF n, s, c
<1>7. p + t \in Chunks(h) /\ p + t \in Places /\ Solid(h, p + t)
  BY <1>3, <1>4
<1>8. /\ Wrote(h, w, p, t) /\ cinuse(w, p) /\ pinuse(w, p) = pinuse(h, p)
      /\ prev_foot(w, p) = prev_foot(h, p) /\ pinuse(w, p + t)
  <2>1. w = set_inuse(h, p, t)
    BY DEF Absorbs
  <2>2. QED
    BY <1>1, <1>4, <1>7, <2>1, SetInuseIs
<1>9. w \in HeapRec /\ SameBooks(h, w) /\ w.top = h.top /\ chunksize(w, p) = t /\ p \in Chunks(w)
  BY <1>8 DEF Wrote, SameTop
<1>10. /\ Shaped(w) /\ SameOutside(h, w, p, p + t)
       /\ \A q \in Chunks(w) : q \in p .. (p + t) - 1 => q = p
  <2>1. pinuse(w, p + t) = cinuse(w, p)
    <3>1. pinuse(w, p + t) \in BOOLEAN /\ cinuse(w, p) \in BOOLEAN
      BY <1>9, HeapIs
    <3>2. QED
      BY <1>8, <3>1
  <2>2. /\ Shaped(w) /\ SameOutside(h, w, p, p + t)
        /\ \A q \in Chunks(w) : q \in p .. p + t - 1 => q = p
    BY <1>1, <1>4, <1>7, <1>8, <2>1, OneChunk
  <2>3. QED
    BY <1>4, <2>2
<1>11. SameElsewhere(h, w, p, p + t)
  BY <1>1, <1>4, <1>7, <1>9, <1>10, OutsideIs
<1>12. Free(h) \subseteq Chunks(h) /\ Used(h) \subseteq Chunks(h)
       /\ Free(w) \subseteq Chunks(w) /\ Used(w) \subseteq Chunks(w)
       /\ p \in Used(w) /\ p \notin Free(w) /\ n \notin Used(h)
  BY <1>2, <1>8, <1>9 DEF Free, Used
<1>13. Used(w) = Used(h)
  BY <1>1, <1>5, <1>10, <1>11, <1>12 DEF SameElsewhere
<1>14. Free(w) = Free(h) \ {n}
  BY <1>1, <1>5, <1>6, <1>10, <1>11, <1>12 DEF SameElsewhere
<1>15. \A q \in Free(w) \union Used(w) : q # p => chunksize(w, q) = chunksize(h, q)
  BY <1>10, <1>11, <1>12 DEF SameElsewhere
<1>16. QED
  BY <1>4, <1>9, <1>10, <1>13, <1>14, <1>15 DEF n, s

(* The chunk behind is binned.                                             *)
LEMMA GrownIntoFree ==
    ASSUME NEW h, Sound(h), NEW p, Block(h, p), NEW n, n = p + chunksize(h, p), n \in Free(h),
           n # h.dv, NEW nb \in Nat, nb >= 2, chunksize(h, p) + chunksize(h, n) >= nb
    PROVE  Resized(h, Shrunk(set_inuse(unlink_chunk(h, n, chunksize(h, n)), p,
                                       chunksize(h, p) + chunksize(h, n)), p, nb), p, p, nb)
<1> DEFINE v == unlink_chunk(h, n, chunksize(h, n))
           t == chunksize(h, p) + chunksize(h, n)
           w == set_inuse(v, p, t)
<1>1. Rebinned(h, v) /\ Holds(v, n) /\ Shaped(h)
  BY Unlinked DEF Sound
<1> HIDE DEF v
<1>2. /\ Shaped(v) /\ Free(v) = Free(h) /\ Used(v) = Used(h) /\ v.dv = h.dv
      /\ \A q : chunksize(v, q) = chunksize(h, q)
  BY <1>1, RebinnedIs
<1>3. DvIs(v) /\ BinsAre(v, Free(v) \ {n, v.dv})
  BY <1>1 DEF Holds
<1>4. Block(v, p) /\ Absorbs(v, w, p, t)
  BY <1>2 DEF Block, Absorbs
<1> HIDE DEF w
<1>5. /\ Shaped(w) /\ SameBooks(v, w)
      /\ Used(w) = Used(v) /\ Free(w) = Free(v) \ {p + chunksize(v, p)}
      /\ t \in Nat /\ t >= 2 /\ chunksize(w, p) = t
      /\ \A q \in Free(w) \union Used(w) : q # p => chunksize(w, q) = chunksize(v, q)
  <2> HIDE DEF t
  <2>1. QED
    BY <1>2, <1>4, AbsorbedIs
<1>6. Free(w) = Free(h) \ {n} /\ Used(w) = Used(h) /\ p \in Used(h) /\ p # 0 /\ p \notin Free(h)
  BY <1>2, <1>5 DEF Block, Used, Free
<1>7. \A q \in Free(w) : chunksize(w, q) = chunksize(v, q)
  BY <1>5, <1>6
<1>8. w.bins = v.bins /\ w.dv = h.dv /\ w.dvsize = v.dvsize
  BY <1>2, <1>5 DEF SameBooks
<1>9. BinsAre(w, Free(w) \ {w.dv})
  <2> DEFINE G == Free(v) \ {n, v.dv}
  <2>1. Free(w) \ {w.dv} = G /\ BinsAre(v, G)
    BY <1>2, <1>3, <1>6, <1>8
  <2>2. w.bins = v.bins
    BY <1>8
  <2>3. \A q \in G : chunksize(w, q) = chunksize(v, q)
    BY <1>7, <2>1
  <2> HIDE DEF G
  <2>4. QED
    BY <2>1, <2>2, <2>3, BinsMove
<1>10. DvIs(w)
  BY <1>2, <1>3, <1>6, <1>7, <1>8 DEF DvIs
<1>11. Sound(w)
  BY <1>5, <1>9, <1>10 DEF Sound
<1>12. Block(w, p) /\ chunksize(w, p) >= nb
  BY <1>5, <1>6 DEF Block
<1>13. Resized(w, Shrunk(w, p, nb), p, p, nb)
  BY <1>11, <1>12, ShrunkIs
<1>14. \A q \in Used(h) \ {p} : q \in Used(w) /\ chunksize(w, q) = chunksize(h, q)
  BY <1>2, <1>5, <1>6
<1>15. QED
  BY <1>13, <1>14 DEF Resized, Keeps, w, v

(* The chunk in use takes a part of the free one behind it.                *)
LEMMA GrownPart ==
    ASSUME NEW h, Shaped(h), NEW p, Block(h, p), NEW n, n = p + chunksize(h, p), n \in Free(h),
           NEW b, b = n + chunksize(h, n), NEW m \in Nat, n < m, m + 2 <= b,
           NEW w, Halves(h, w, p, m, b), ~cinuse(w, m)
    PROVE  /\ Shaped(w) /\ SameBooks(h, w)
           /\ Free(w) = (Free(h) \ {n}) \union {m} /\ Used(w) = Used(h)
           /\ chunksize(w, p) = m - p /\ chunksize(w, m) = b - m
           /\ \A q \in Free(h) \union Used(h) : q # p /\ q # n => chunksize(w, q) = chunksize(h, q)
           /\ m \notin Chunks(h)
<1> DEFINE s == chunksize(h, p)
           c == chunksize(h, n)
<1>1. /\ p \in Chunks(h) /\ p \in Nat /\ p # 0
      /\ p \in Used(h) /\ p \notin Free(h) /\ s \in Nat /\ s >= 2
      /\ Chunks(h) \subseteq Nat /\ p # h.top
      /\ \A q \in Chunks(h) : q \in p .. n - 1 => q = p
  <2>1. p + s - 1 = n - 1
    BY GrowsIs
  <2>2. QED
    BY <2>1, GrowsIs
<1>2. /\ n \in Chunks(h) /\ n \in Nat /\ n # h.top /\ c \in Nat /\ c >= 2 /\ b \in Chunks(h)
      /\ b \in Nat /\ b <= h.top /\ h.top \in Nat /\ cinuse(h, b) /\ Solid(h, n)
  BY FreeIs, ShapedIs
<1>3. p < n /\ n < m /\ m < b /\ p < m /\ b - m >= 2
  BY <1>1, <1>2
<1>4. \A q \in Chunks(h) : q \in p .. b - 1 => q = p \/ q = n
  BY <1>1, <1>2, <1>3 DEF Solid
<1>5. m \in p .. b - 1 /\ n \in p .. b - 1 /\ p \in p .. b - 1 /\ h.top \notin p .. b - 1
  BY <1>1, <1>2, <1>3
<1> HIDE DEF s, c
<1>6. /\ Shaped(w) /\ SameOutside(h, w, p, b)
      /\ \A q \in Chunks(w) : q \in p .. b - 1 => q = p \/ q = m
  BY <1>1, <1>2, <1>3, TwoChunks
<1>7. /\ SameBooks(h, w) /\ w.top = h.top /\ p \in Chunks(w) /\ m \in Chunks(w)
      /\ chunksize(w, p) = m - p /\ chunksize(w, m) = b - m /\ cinuse(w, p)
  BY DEF Halves, SameTop
<1>8. SameElsewhere(h, w, p, b)
  BY <1>1, <1>2, <1>6, <1>7, OutsideIs
<1>9. Free(h) \subseteq Chunks(h) /\ Used(h) \subseteq Chunks(h)
      /\ Free(w) \subseteq Chunks(w) /\ Used(w) \subseteq Chunks(w)
      /\ p \in Used(w) /\ p \notin Free(w) /\ m \in Free(w) /\ m \notin Used(w) /\ n \notin Used(h)
  BY <1>5, <1>7 DEF Free, Used
<1>10. m \notin Chunks(h)
  BY <1>3, <1>4, <1>5
<1>11. Free(w) = (Free(h) \ {n}) \union {m}
  BY <1>1, <1>4, <1>5, <1>6, <1>8, <1>9, <1>10 DEF SameElsewhere
<1>12. Used(w) = Used(h)
  BY <1>1, <1>4, <1>5, <1>6, <1>8, <1>9, <1>10 DEF SameElsewhere
<1>13. \A q \in Free(h) \union Used(h) : q # p /\ q # n => chunksize(w, q) = chunksize(h, q)
  BY <1>4, <1>8, <1>9, <1>11, <1>12 DEF SameElsewhere
<1>14. QED
  BY <1>6, <1>7, <1>10, <1>11, <1>12, <1>13

(* The headers that ExtendIntoDv writes.                                   *)
LEMMA ExtendedIs ==
    ASSUME NEW h, Shaped(h), NEW p, Block(h, p), NEW n, n = p + chunksize(h, p), n \in Free(h),
           NEW b, b = n + chunksize(h, n), NEW nb \in Nat, nb > chunksize(h, p),
           NEW r \in Nat, r >= 2, p + nb + r = b
    PROVE  LET w == clear_pinuse(set_size_and_pinuse_of_free_chunk(
                        set_inuse(h, p, nb), p + nb, r), b)
           IN  Halves(h, w, p, p + nb, b) /\ ~cinuse(w, p + nb)
<1> DEFINE m == p + nb
           v == set_inuse(h, p, nb)
           u == set_size_and_pinuse_of_free_chunk(v, m, r)
           w == clear_pinuse(u, b)
<1>1. /\ h \in HeapRec /\ p \in Chunks(h) /\ p \in Places /\ p \in Nat /\ p # 0
      /\ chunksize(h, p) \in Nat /\ chunksize(h, p) >= 2
      /\ Chunks(h) \subseteq Nat
      /\ \A q \in Chunks(h) : q \in p .. n - 1 => q = p
  <2>1. p + chunksize(h, p) - 1 = n - 1
    BY GrowsIs
  <2>2. QED
    BY <2>1, GrowsIs
<1>2. /\ n \in Chunks(h) /\ n \in Nat /\ chunksize(h, n) \in Nat
      /\ b \in Chunks(h) /\ b \in Places
      /\ b \in Nat /\ cinuse(h, b) /\ Solid(h, n) /\ Solid(h, b) /\ HeapSize \in Nat
  BY FreeIs, ShapedIs
<1>3. m \in Nat /\ p < n /\ n < m /\ m < b /\ p < m /\ nb = m - p /\ r = b - m /\ m + r = b
      /\ nb > 0 /\ r > 0
  BY <1>1, <1>2
<1>4. \A q \in Chunks(h) : q \in p .. b => q = p \/ q = n \/ q = b
  BY <1>1, <1>2, <1>3 DEF Solid
<1>5. m \in Places /\ m \notin Chunks(h)
  <2>1. m \in p .. b
    BY <1>1, <1>2, <1>3
  <2> HIDE DEF m
  <2>2. m \in Places
    BY <1>2, <1>3 DEF Places
  <2>3. m \notin Chunks(h)
    BY <1>1, <1>2, <1>3, <1>4, <2>1
  <2>4. QED
    BY <2>2, <2>3
<1>6. chunksize(h, m) = 0 /\ Solid(h, m)
  <2>1. chunksize(h, m) = 0
    BY <1>5 DEF chunksize, HeadOf, Blank, Chunks
  <2> HIDE DEF m
  <2>2. QED
    BY <1>1, <1>3, <2>1 DEF Solid
<1>7. /\ Wrote(h, v, p, nb) /\ cinuse(v, p) /\ pinuse(v, p) = pinuse(h, p)
      /\ prev_foot(v, p) = prev_foot(h, p)
  BY <1>1, <1>3, <1>5, <1>6, SetInuseIs
<1>8. /\ v \in HeapRec /\ SameBooks(h, v) /\ SameTop(h, v) /\ chunksize(v, p) = nb
      /\ Chunks(v) = {p, m} \union (Chunks(h) \ (p + 1 .. m - 1))
      /\ \A q \in Chunks(v) : q # p /\ q # m => HeadOf(v, q) = HeadOf(h, q)
  <2>1. p + nb - 1 = m - 1
    BY <1>1
  <2>2. QED
    BY <1>7, <2>1 DEF Wrote
<1> HIDE DEF v, m
<1>9. Chunks(v) = {p, m, b} \union (Chunks(h) \ (p .. b)) /\ HeadOf(v, b) = HeadOf(h, b)
  <2>1. Chunks(v) = {p, m, b} \union (Chunks(h) \ (p .. b))
    BY <1>1, <1>2, <1>3, <1>4, <1>8
  <2>2. QED
    BY <1>2, <1>3, <1>8, <2>1
<1>10. Solid(v, b)
  <2>1. chunksize(v, b) = chunksize(h, b)
    BY <1>9 DEF chunksize
  <2>2. \A q \in Chunks(v) : q \in Chunks(h) \/ q < b
    BY <1>1, <1>3, <1>8
  <2>3. Chunks(v) \subseteq Nat
    BY <1>1, <1>3, <1>8
  <2>4. QED
    BY <1>2, <2>1, <2>2, <2>3 DEF Solid
<1>11. /\ Wrote(v, u, m, r) /\ ~cinuse(u, m) /\ pinuse(u, m) /\ prev_foot(u, b) = r
  BY <1>2, <1>3, <1>5, <1>8, <1>10, SetFreeIs
<1>12. /\ u \in HeapRec /\ SameBooks(v, u) /\ SameTop(v, u) /\ chunksize(u, m) = r
       /\ Chunks(u) = {m, b} \union (Chunks(v) \ (m + 1 .. b - 1))
       /\ chunksize(u, b) = chunksize(v, b) /\ cinuse(u, b) = cinuse(v, b)
       /\ \A q \in Chunks(u) : q # m /\ q # b => HeadOf(u, q) = HeadOf(v, q)
  <2>1. m + r - 1 = b - 1
    BY <1>2, <1>3
  <2>2. QED
    BY <1>3, <1>11, <2>1 DEF Wrote
<1> HIDE DEF u
<1>13. Chunks(u) = Chunks(v)
  BY <1>1, <1>2, <1>3, <1>9, <1>12
<1>14. Solid(u, b)
  BY <1>10, <1>12, <1>13 DEF Solid
<1>15. /\ w \in HeapRec /\ SameBooks(u, w) /\ SameTop(u, w) /\ Chunks(w) = Chunks(u)
       /\ chunksize(w, b) = chunksize(u, b) /\ cinuse(w, b) = cinuse(u, b) /\ ~pinuse(w, b)
       /\ prev_foot(w, b) = prev_foot(u, b)
       /\ \A q : q # b => HeadOf(w, q) = HeadOf(u, q)
  <2>1. u \in HeapRec /\ b \in Places /\ Solid(u, b) /\ b \in Chunks(u)
    BY <1>2, <1>12, <1>14
  <2>2. QED
    BY <2>1, ClearPinuseIs
<1> HIDE DEF w
<1>16. HeadOf(w, m) = HeadOf(u, m) /\ HeadOf(w, p) = HeadOf(v, p)
  <2>1. p # m /\ p # b /\ m # b
    BY <1>1, <1>2, <1>3
  <2>2. p \in Chunks(u)
    BY <1>9, <1>13
  <2>3. QED
    BY <1>12, <1>15, <2>1, <2>2
<1>17. /\ chunksize(w, p) = m - p /\ cinuse(w, p) /\ pinuse(w, p) = pinuse(h, p)
       /\ prev_foot(w, p) = prev_foot(h, p)
  BY <1>3, <1>7, <1>8, <1>16 DEF chunksize, cinuse, pinuse, prev_foot
<1>18. chunksize(w, m) = b - m /\ ~cinuse(w, m) /\ pinuse(w, m)
  BY <1>3, <1>11, <1>12, <1>16 DEF chunksize, cinuse, pinuse
<1>19. /\ chunksize(w, b) = chunksize(h, b) /\ cinuse(w, b) = cinuse(h, b) /\ prev_foot(w, b) = b - m
  BY <1>3, <1>9, <1>11, <1>12, <1>15 DEF chunksize, cinuse
<1>20. pinuse(w, b) = cinuse(w, m)
  <2>1. pinuse(w, b) \in BOOLEAN /\ cinuse(w, m) \in BOOLEAN
    BY <1>15, HeapIs
  <2>2. QED
    BY <1>15, <1>18, <2>1
<1>21. \A q \in Chunks(w) : q \notin {p, m, b} => HeadOf(w, q) = HeadOf(h, q)
  BY <1>8, <1>12, <1>13, <1>15
<1>22. SameBooks(h, w) /\ SameTop(h, w)
  BY <1>8, <1>12, <1>15 DEF SameBooks, SameTop
<1>23. Halves(h, w, p, m, b)
  BY <1>9, <1>13, <1>15, <1>17, <1>18, <1>19, <1>20, <1>21, <1>22 DEF Halves
<1>24. QED
  BY <1>18, <1>23 DEF w, u, v, m

(* The rest of the victim is the victim, unless it is too small.           *)
LEMMA GrownIntoDv ==
    ASSUME NEW h, Sound(h), NEW p, Block(h, p), NEW n, n = p + chunksize(h, p), n = h.dv,
           NEW nb \in Nat, nb > chunksize(h, p), chunksize(h, p) + h.dvsize >= nb
    PROVE  Resized(h, ExtendIntoDv(h, p, nb), p, p, nb)
<1> DEFINE t == chunksize(h, p) + h.dvsize
           r == t - nb
           m == p + nb
           b == n + chunksize(h, n)
<1>1. /\ Shaped(h) /\ h \in HeapRec /\ p \in Nat /\ p # 0 /\ p \in Used(h) /\ p \notin Free(h)
      /\ chunksize(h, p) \in Nat /\ chunksize(h, p) >= 2 /\ n \in Nat
      /\ BinsAre(h, Free(h) \ {h.dv})
  <2>1. Shaped(h)
    BY DEF Sound
  <2>2. QED
    BY <2>1, GrowsIs DEF Sound
<1>2. n \in Free(h) /\ h.dvsize = chunksize(h, n)
  <2>1. n # NULL
    BY <1>1, ConstantsAre
  <2>2. QED
    BY <2>1 DEF Sound, DvIs
<1>3. chunksize(h, n) \in Nat
  BY <1>1, <1>2, FreeIs
<1>4. /\ t \in Nat /\ r \in Nat /\ m \in Nat /\ m # 0 /\ p + nb + r = b /\ m - p = nb
      /\ n < m /\ b - m = r /\ b \in Nat /\ m # p
  BY <1>1, <1>2, <1>3
<1>5. CASE IsChunk(r)
  <2> DEFINE v == clear_pinuse(set_size_and_pinuse_of_free_chunk(set_inuse(h, p, nb), m, r), m + r)
             w == [v EXCEPT !.dv = m, !.dvsize = r]
  <2>1. ExtendIntoDv(h, p, nb) = w
    BY <1>5 DEF ExtendIntoDv
  <2>2. r >= 2 /\ m + r = b /\ m + 2 <= b
    BY <1>4, <1>5, ConstantsAre DEF IsChunk
  <2>3. Halves(h, v, p, m, b) /\ ~cinuse(v, m)
    <3> HIDE DEF r
    <3>1. QED
      BY <1>1, <1>2, <1>4, <2>2, ExtendedIs
  <2> HIDE DEF v, r, m
  <2>4. /\ Shaped(v) /\ SameBooks(h, v)
        /\ Free(v) = (Free(h) \ {n}) \union {m} /\ Used(v) = Used(h)
        /\ chunksize(v, p) = m - p /\ chunksize(v, m) = b - m
        /\ \A q \in Free(h) \union Used(h) : q # p /\ q # n => chunksize(v, q) = chunksize(h, q)
        /\ m \notin Chunks(h)
    BY <1>1, <1>2, <1>4, <2>2, <2>3, GrownPart
  <2>5. v \in HeapRec
    BY <2>4, ShapedIs
  <2>6. DvSet(v, w, m, r)
    BY DEF DvSet
  <2> HIDE DEF w
  <2>7. /\ w \in HeapRec /\ w.head = v.head /\ w.bins = v.bins
        /\ SameTop(v, w) /\ w.dv = m /\ w.dvsize = r
    BY <1>4, <2>5, <2>6, NewDv
  <2>8. Shaped(w) /\ Free(w) = Free(v) /\ Used(w) = Used(v)
    BY <2>4, <2>7, SameShape
  <2>9. \A q : chunksize(w, q) = chunksize(v, q)
    BY <2>7, SameHead
  <2>10. Free(h) \subseteq Chunks(h)
    BY DEF Free
  <2>11. Free(w) \ {w.dv} = Free(h) \ {h.dv}
    BY <2>4, <2>7, <2>8, <2>10
  <2>12. BinsAre(w, Free(w) \ {w.dv})
    <3> DEFINE G == Free(h) \ {h.dv}
    <3>1. w.bins = h.bins
      BY <2>4, <2>7 DEF SameBooks
    <3>2. \A q \in G : chunksize(w, q) = chunksize(h, q)
      BY <1>1, <2>4, <2>9
    <3> HIDE DEF G
    <3>3. BinsAre(h, G)
      BY <1>1 DEF G
    <3>4. BinsAre(w, G)
      BY <3>1, <3>2, <3>3, BinsMove
    <3>5. QED
      BY <2>11, <3>4 DEF G
  <2>13. DvIs(w)
    BY <1>4, <2>4, <2>7, <2>8, <2>9 DEF DvIs
  <2>14. Sound(w)
    BY <2>8, <2>12, <2>13 DEF Sound
  <2>15. n \notin Used(h)
    BY <1>2 DEF Free, Used
  <2>16. Keeps(h, w, {p})
    BY <2>4, <2>8, <2>9, <2>15 DEF Keeps
  <2>17. p \in Used(w) /\ chunksize(w, p) >= nb
    BY <1>1, <1>4, <2>4, <2>8, <2>9
  <2>18. QED
    BY <2>1, <2>14, <2>16, <2>17 DEF Resized
<1>6. CASE ~IsChunk(r)
  <2> DEFINE v == set_inuse(h, p, t)
             w == [v EXCEPT !.dv = NULL, !.dvsize = 0]
  <2>1. ExtendIntoDv(h, p, nb) = w
    BY <1>6 DEF ExtendIntoDv
  <2>2. Absorbs(h, v, p, t)
    BY <1>2 DEF Absorbs
  <2> HIDE DEF v
  <2>3. /\ Shaped(v) /\ SameBooks(h, v)
        /\ Used(v) = Used(h) /\ Free(v) = Free(h) \ {n} /\ chunksize(v, p) = t
        /\ \A q \in Free(v) \union Used(v) : q # p => chunksize(v, q) = chunksize(h, q)
    <3> HIDE DEF t
    <3>1. QED
      BY <1>1, <2>2, AbsorbedIs
  <2>4. v \in HeapRec /\ NULL \in Nat
    BY <2>3, ShapedIs, ConstantsAre
  <2>5. DvSet(v, w, NULL, 0)
    BY DEF DvSet
  <2> HIDE DEF w
  <2>6. /\ w \in HeapRec /\ w.head = v.head /\ w.bins = v.bins
        /\ SameTop(v, w) /\ w.dv = NULL /\ w.dvsize = 0
    BY <2>4, <2>5, NewDv
  <2>7. Shaped(w) /\ Free(w) = Free(v) /\ Used(w) = Used(v)
    BY <2>3, <2>6, SameShape
  <2>8. \A q : chunksize(w, q) = chunksize(v, q)
    BY <2>6, SameHead
  <2>9. DvIs(w)
    BY <2>6 DEF DvIs
  <2>10. NULL \notin Free(w)
    BY <2>6, <2>7, <2>9, DvIsFree
  <2>11. Free(w) \ {w.dv} = Free(h) \ {h.dv}
    BY <2>3, <2>6, <2>7, <2>10
  <2>12. BinsAre(w, Free(w) \ {w.dv})
    <3> DEFINE G == Free(h) \ {h.dv}
    <3>1. w.bins = h.bins
      BY <2>3, <2>6 DEF SameBooks
    <3>2. \A q \in G : chunksize(w, q) = chunksize(h, q)
      BY <1>1, <2>3, <2>8
    <3> HIDE DEF G
    <3>3. BinsAre(h, G)
      BY <1>1 DEF G
    <3>4. BinsAre(w, G)
      BY <3>1, <3>2, <3>3, BinsMove
    <3>5. QED
      BY <2>11, <3>4 DEF G
  <2>13. Sound(w)
    BY <2>7, <2>9, <2>12 DEF Sound
  <2>14. Keeps(h, w, {p})
    BY <2>3, <2>7, <2>8 DEF Keeps
  <2>15. p \in Used(w) /\ chunksize(w, p) >= nb
    BY <1>1, <2>3, <2>7, <2>8
  <2>16. QED
    BY <2>1, <2>13, <2>14, <2>15 DEF Resized
<1>7. QED
  BY <1>5, <1>6

(* realloc where the chunk is.                                             *)
LEMMA TryReallocIs ==
    ASSUME NEW h, Sound(h), NEW p, Block(h, p), NEW nb \in Nat, nb >= 2, CanExtend(h, p, nb)
    PROVE  Resized(h, try_realloc_chunk(h, p, nb), p, p, nb)
<1> DEFINE s == chunksize(h, p)
           n == p + s
           c == chunksize(h, n)
<1>1. Shaped(h) /\ p \in Nat /\ s \in Nat /\ n \in Chunks(h) /\ n \in Nat /\ h.topsize \in Nat
      /\ h.dvsize \in Nat
  <2>1. Shaped(h) /\ h \in HeapRec
    BY DEF Sound, Shaped
  <2>2. h.topsize \in Nat /\ h.dvsize \in Nat
    BY <2>1, HeapIs
  <2>3. QED
    BY <2>1, <2>2, GrowsIs
<1>2. CASE s >= nb
  <2>1. try_realloc_chunk(h, p, nb) = Shrunk(h, p, nb)
    <3>1. ~(s < nb)
      BY <1>1, <1>2
    <3>2. QED
      BY <1>2, <3>1 DEF try_realloc_chunk
  <2>2. QED
    BY <1>2, <2>1, ShrunkIs
<1>3. CASE s < nb /\ n = h.top
  <2> DEFINE t == s + h.topsize - nb
             v == set_top(h, p + nb, t)
  <2>1. try_realloc_chunk(h, p, nb) = Write(v, p, [HeadOf(h, p) EXCEPT !.size = nb])
    <3>1. ~(s >= nb)
      BY <1>1, <1>3
    <3>2. QED
      BY <1>3, <3>1 DEF try_realloc_chunk
  <2>2. NewTop(h, v, p + nb, t)
    BY DEF NewTop
  <2> HIDE DEF v
  <2>3. s + h.topsize > nb
    <3>1. n # h.dv \/ ~(s + h.dvsize >= nb)
      <4>1. h.top \notin Free(h) /\ h.top # NULL
        BY <1>1, ShapedIs, ConstantsAre DEF Free
      <4>2. QED
        BY <1>3, <4>1 DEF Sound, DvIs
    <3>2. QED
      BY <1>1, <1>3, <3>1 DEF CanExtend
  <2>4. nb > s
    BY <1>1, <1>3
  <2>5. Resized(h, Write(v, p, [HeadOf(h, p) EXCEPT !.size = nb]), p, p, nb)
    BY <1>3, <2>2, <2>3, <2>4, GrownIntoTop
  <2>6. QED
    BY <2>1, <2>5
<1>4. CASE s < nb /\ n # h.top /\ n = h.dv
  <2>1. try_realloc_chunk(h, p, nb) = ExtendIntoDv(h, p, nb)
    <3>1. ~(s >= nb)
      BY <1>1, <1>4
    <3>2. QED
      BY <1>4, <3>1 DEF try_realloc_chunk
  <2>2. nb > s /\ s + h.dvsize >= nb
    BY <1>1, <1>4 DEF CanExtend
  <2>3. QED
    BY <1>4, <2>1, <2>2, GrownIntoDv
<1>5. CASE s < nb /\ n # h.top /\ n # h.dv
  <2>1. try_realloc_chunk(h, p, nb) = Shrunk(set_inuse(unlink_chunk(h, n, c), p, s + c), p, nb)
    <3>1. ~(s >= nb)
      BY <1>1, <1>5
    <3>2. QED
      BY <1>5, <3>1 DEF try_realloc_chunk
  <2>2. n \in Free(h) /\ s + c >= nb
    BY <1>1, <1>5 DEF CanExtend, Free
  <2>3. QED
    BY <1>5, <2>1, <2>2, GrownIntoFree
<1>6. QED
  BY <1>1, <1>2, <1>3, <1>4, <1>5

(* mspace_realloc: the block stays where it is or moves, as large as       *)
(* asked; when that fails everything stays as it was.                      *)
LEMMA ReallocIs ==
    ASSUME NEW h, Sound(h), NEW mem, Block(h, mem2chunk(mem)), mem # NULL,
           NEW bytes \in Nat, bytes # 0, NEW r, r = mspace_realloc(h, mem, bytes)
    PROVE  /\ Sound(r.heap)
           /\ r.mem = NULL => Keeps(h, r.heap, {})
           /\ r.mem # NULL => Resized(h, r.heap, mem2chunk(mem), mem2chunk(r.mem),
                                      request2size(bytes))
<1> DEFINE p == mem2chunk(mem)
           nb == request2size(bytes)
<1>1. nb \in Nat /\ nb >= 2
  BY RequestIs
<1>2. r = IF CanExtend(h, p, nb) THEN Given(try_realloc_chunk(h, p, nb), p)
          ELSE Moved(mspace_malloc(h, bytes), mem)
  BY DEF mspace_realloc
<1>3. p \in Nat /\ mem2chunk(chunk2mem(p)) = p
  <2>1. p \in Nat
    BY GrowsIs DEF Sound
  <2>2. QED
    BY <2>1 DEF mem2chunk, chunk2mem
<1>4. Block(h, p)
  OBVIOUS
<1> HIDE DEF nb, p
<1>5. CASE CanExtend(h, p, nb)
  <2> DEFINE w == try_realloc_chunk(h, p, nb)
  <2>1. Resized(h, w, p, p, nb)
    BY <1>1, <1>4, <1>5, TryReallocIs
  <2>2. r.heap = w /\ mem2chunk(r.mem) = p /\ r.mem # NULL
    BY <1>2, <1>3, <1>5, ConstantsAre DEF Given, chunk2mem
  <2> HIDE DEF w
  <2>3. QED
    BY <2>1, <2>2 DEF Resized, p, nb
<1>6. CASE ~CanExtend(h, p, nb)
  <2> DEFINE g == mspace_malloc(h, bytes)
  <2>1. Got(h, g, nb)
    BY MallocGot DEF nb
  <2>2. r = Moved(g, mem)
    BY <1>2, <1>6
  <2> HIDE DEF g
  <2>3. CASE g.mem = NULL
    BY <2>1, <2>2, <2>3 DEF Moved, Got
  <2>4. CASE g.mem # NULL
    <3> DEFINE w == mspace_free(g.heap, mem)
               m == mem2chunk(g.mem)
    <3>1. Sound(g.heap) /\ Keeps(h, g.heap, {}) /\ m \in Used(g.heap) /\ m \notin Used(h)
          /\ chunksize(g.heap, m) >= nb
      BY <2>1, <2>4 DEF Got
    <3>2. Block(g.heap, p) /\ p \in Used(h)
      BY <1>4, <3>1 DEF Block, Keeps
    <3>3. Disposed(g.heap, w, p)
      BY <3>1, <3>2, FreeGives DEF Block, p
    <3>4. r.heap = w /\ r.mem = g.mem
      <4>1. "heap" \in DOMAIN g /\ "mem" \in DOMAIN g
        BY DEF g, mspace_malloc, TakeChunk, tmalloc_small, tmalloc_large, SplitBinned,
               SplitUnlinked, SplitDv, SplitTop, Given, Failed
      <4>2. QED
        BY <2>2, <2>4, <4>1 DEF Moved
    <3>5. Resized(h, w, p, m, nb)
      BY <3>1, <3>2, <3>3 DEF Disposed, Keeps, Resized
    <3>6. Sound(r.heap) /\ r.mem # NULL
      BY <2>4, <3>3, <3>4 DEF Disposed
    <3>7. QED
      BY <3>4, <3>5, <3>6 DEF p, nb
  <2>5. QED
    BY <2>3, <2>4
<1>7. QED
  BY <1>5, <1>6

(* A call returns an address or NULL.                                      *)
LEMMA TakenIs ==
    ASSUME NEW h, Sound(h), NEW nb \in Nat, nb >= 2
    PROVE  TakeChunk(h, nb).mem \in Nat
<1> DEFINE R(r) == r.mem \in Nat
<1>1. h \in HeapRec /\ h.dv \in Nat /\ h.top \in Nat /\ h.bins \in [Sizes -> Seq(Places)]
  <2>1. h \in HeapRec
    BY DEF Sound, Shaped
  <2>2. QED
    BY <2>1, HeapIs
<1>3. \A v : \A p \in Nat : R(Given(v, p))
  BY DEF Given, chunk2mem
<1>4. R(Failed(h))
  BY ConstantsAre DEF Failed
<1>5. ASSUME NEW s \in Sizes, h.bins[s] # << >>, NEW keep \in {"dv", "bin"}
      PROVE  R(SplitBinned(h, s, nb, keep))
  <2>1. Head(h.bins[s]) \in Nat
    BY <1>1, <1>5, ConstantsAre DEF Places
  <2> HIDE DEF R
  <2>2. QED
    BY <1>3, <1>5, <2>1 DEF SplitBinned, SplitUnlinked
<1>6. Filled(h, nb, HeapSize) # {} => R(tmalloc_small(h, nb)) /\ R(tmalloc_large(h, nb))
  BY <1>5, LeastFilled DEF tmalloc_small, tmalloc_large
<1>7. R(SplitDv(h, nb)) /\ R(SplitTop(h, nb))
  <2> HIDE DEF R
  <2>1. QED
    BY <1>1, <1>3 DEF SplitDv, SplitTop
<1>8. is_small(nb) /\ h.bins[nb] # << >> => R(SplitBinned(h, nb, nb, "dv"))
  <2>1. is_small(nb) => nb \in Sizes
    BY ConstantsAre DEF is_small
  <2>2. QED
    BY <1>5, <2>1
<1> HIDE DEF R
<1>9. R(TakeChunk(h, nb))
  BY <1>4, <1>6, <1>7, <1>8 DEF TakeChunk, BinBeatsDv
<1>10. QED
  BY <1>9 DEF R

-----------------------------------------------------------------------------
(* memalign.  The least multiple of a that is not below mem.               *)
LEMMA RoundedUp ==
    ASSUME NEW mem \in Nat, NEW a \in Nat, a > 0
    PROVE  LET r == ((mem + a - 1) \div a) * a
           IN  r \in Nat /\ mem <= r /\ r < mem + a /\ (mem % a = 0 => r = mem)
<1> DEFINE j == (mem + a - 1) \div a
<1>1. j \in Nat /\ j * a <= mem + a - 1 /\ mem + a - 1 < j * a + a /\ j * a \in Nat
  <2>1. mem + a - 1 \in Nat
    OBVIOUS
  <2>2. \A x \in Nat : x \div a \in Nat /\ (x \div a) * a <= x /\ x < (x \div a) * a + a
                       /\ (x \div a) * a \in Nat
    OBVIOUS
  <2>3. QED
    BY <2>1, <2>2
<1> HIDE DEF j
<1>2. ASSUME mem % a = 0
      PROVE  j * a = mem
  <2>1. PICK q \in Nat : mem = q * a
    <3>1. mem = (mem \div a) * a + (mem % a) /\ mem \div a \in Nat
      OBVIOUS
    <3>2. QED
      BY <1>2, <3>1
  <2>2. j <= q
    <3>1. ASSUME j > q
          PROVE  j * a >= q * a + a
      <4>1. j * a >= (q + 1) * a
        BY <1>1, <3>1
      <4>2. QED
        BY <1>1, <4>1
    <3>2. QED
      BY <1>1, <2>1, <3>1
  <2>3. j >= q
    <3>1. ASSUME j < q
          PROVE  j * a + a <= q * a
      <4>1. (j + 1) * a <= q * a
        BY <1>1, <3>1
      <4>2. QED
        BY <1>1, <4>1
    <3>2. QED
      BY <1>1, <2>1, <3>1
  <2>4. QED
    BY <1>1, <2>1, <2>2, <2>3
<1>3. QED
  BY <1>1, <1>2 DEF j

(* An alignment is a power of two, and no smaller than what is asked for.  *)
LEMMA LeastPower ==
    ASSUME NEW n \in Nat
    PROVE  \E k \in 0 .. n : /\ PowerOfTwo(n) = 2 ^ k /\ n <= 2 ^ k
                             /\ \A j \in 0 .. k - 1 : 2 ^ j < n
<1> DEFINE S == {k \in Nat : n <= 2 ^ k}
           Q(k) == n <= 2 ^ k /\ \A j \in 0 .. k - 1 : 2 ^ j < n
<1>1. n \in S
  BY PowerExceeds, PowerPositive
<1>2. S \in SUBSET Nat /\ S # {}
  BY <1>1
<1>3. PICK k \in S : \A j \in S : k <= j
  <2> HIDE DEF S
  <2>1. QED
    BY <1>2, LeastElement
<1>4. \A j \in 0 .. k - 1 : 2 ^ j < n
  BY <1>3, PowerPositive
<1>5. k \in 0 .. n /\ Q(k)
  BY <1>1, <1>3, <1>4
<1> HIDE DEF S
<1>6. PowerOfTwo(n) = 2 ^ (CHOOSE i \in 0 .. n : Q(i))
  BY DEF PowerOfTwo
<1> HIDE DEF Q
<1>7. (CHOOSE i \in 0 .. n : Q(i)) \in 0 .. n /\ Q(CHOOSE i \in 0 .. n : Q(i))
  BY <1>5, Zenon
<1>8. QED
  BY <1>6, <1>7, Zenon DEF Q

(* What memalign takes for its alignment.                                  *)
LEMMA AlignmentIs ==
    ASSUME NEW alignment \in Nat
    PROVE  Alignment(alignment) \in Nat /\ Alignment(alignment) >= 2
<1> DEFINE n == Larger(alignment, MIN_CHUNK_SIZE)
<1>1. n \in Nat /\ n >= 2
  BY ConstantsAre DEF Larger
<1>2. Alignment(alignment) = PowerOfTwo(n)
  BY DEF Alignment
<1> HIDE DEF n
<1>3. PICK k \in 0 .. n : PowerOfTwo(n) = 2 ^ k /\ n <= 2 ^ k
  BY <1>1, LeastPower
<1>4. 2 ^ k \in Nat
  BY <1>1, <1>3, PowerPositive
<1>5. QED
  BY <1>1, <1>2, <1>3, <1>4

(* The spot is where the chunk is, or leaves room for one in front of it.  *)
LEMMA AlignedSpotIs ==
    ASSUME NEW base \in Nat, NEW mem \in Nat, mem > 0, NEW a \in Nat, a >= 2
    PROVE  LET pos == AlignedSpot(base, mem, a)  p == mem2chunk(mem)
           IN  pos \in Nat /\ (pos = p \/ pos - p >= 2) /\ pos - p <= a + 1
<1> DEFINE x == base + mem
           r == ((x + a - 1) \div a) * a
           p == mem2chunk(mem)
           br == mem2chunk(r - base)
           pos == AlignedSpot(base, mem, a)
<1>1. r \in Nat /\ x <= r /\ r < x + a /\ (x % a = 0 => r = x) /\ x \in Nat
  <2>1. a > 0 /\ x \in Nat
    OBVIOUS
  <2> HIDE DEF x
  <2>2. QED
    BY <2>1, RoundedUp
<1>2. pos = IF x % a = 0 \/ br - p >= 2 THEN br ELSE br + a
  BY ConstantsAre DEF AlignedSpot
<1>3. x = base + mem
  OBVIOUS
<1> HIDE DEF x, r, pos
<1>4. p \in Nat /\ br \in Nat /\ br - p = r - x
  BY <1>1, <1>3 DEF mem2chunk
<1>5. br >= p /\ br - p < a /\ (x % a = 0 => br = p)
  BY <1>1, <1>4
<1> HIDE DEF p, br
<1>6. CASE x % a = 0 \/ br - p >= 2
  <2>1. pos = br
    BY <1>2, <1>6
  <2>2. QED
    BY <1>4, <1>5, <1>6, <2>1 DEF pos, p
<1>7. CASE ~(x % a = 0 \/ br - p >= 2)
  <2>1. pos = br + a
    BY <1>2, <1>7
  <2>2. br - p < 2
    BY <1>4, <1>7
  <2>3. QED
    BY <1>4, <1>5, <2>1, <2>2 DEF pos, p
<1>8. QED
  BY <1>6, <1>7

(* Two multiples of a that are less than a apart are one.                  *)
LEMMA OneMultiple ==
    ASSUME NEW a \in Nat, a > 0, NEW j \in Int, NEW k \in Int,
           j * a < k * a + a, k * a < j * a + a
    PROVE  j = k
<1>1. ASSUME j > k
      PROVE  FALSE
  <2>1. j * a >= (k + 1) * a
    BY <1>1
  <2>2. (k + 1) * a = k * a + a
    OBVIOUS
  <2>3. j * a \in Int /\ k * a \in Int
    OBVIOUS
  <2>4. QED
    BY <2>1, <2>2, <2>3
<1>2. ASSUME k > j
      PROVE  FALSE
  <2>1. k * a >= (j + 1) * a
    BY <1>2
  <2>2. (j + 1) * a = j * a + a
    OBVIOUS
  <2>3. j * a \in Int /\ k * a \in Int
    OBVIOUS
  <2>4. QED
    BY <2>1, <2>2, <2>3
<1>3. QED
  BY <1>1, <1>2

(* Quotient and remainder.                                                 *)
LEMMA DivisionIs ==
    ASSUME NEW n \in Nat, NEW a \in Nat, a > 0
    PROVE  /\ n \div a \in Nat /\ n = (n \div a) * a + (n % a) /\ (n \div a) * a \in Nat
           /\ n % a \in Nat /\ n % a < a
<1>1. n \div a \in Nat /\ n % a \in Nat /\ n % a < a
  OBVIOUS
<1>2. n = (n \div a) * a + (n % a)
  OBVIOUS
<1>3. \A k \in Nat : k * a \in Nat
  OBVIOUS
<1>4. QED
  BY <1>1, <1>2, <1>3

(* The spot is the same offset wherever the segment is mapped, as long as  *)
(* the bases differ by a multiple of the alignment.                        *)
LEMMA SpotAgrees ==
    ASSUME NEW b \in Nat, NEW c \in Nat, NEW mem \in Nat, NEW a \in Nat, a > 0, b % a = c % a
    PROVE  AlignedSpot(b, mem, a) = AlignedSpot(c, mem, a)
<1> DEFINE x == b + mem
           y == c + mem
           i == (x + a - 1) \div a
           j == (y + a - 1) \div a
<1>1. x \in Nat /\ y \in Nat /\ c - b = y - x
  OBVIOUS
<1>2. \A n \in Nat : n \div a \in Nat /\ n = (n \div a) * a + (n % a) /\ (n \div a) * a \in Nat
                     /\ n % a \in Nat /\ n % a < a
  BY DivisionIs
<1>3. PICK d \in Int : y = x + d * a
  <2> DEFINE m == c \div a
             n == b \div a
  <2>1. m \in Nat /\ n \in Nat /\ c - b = m * a - n * a /\ m * a \in Nat /\ n * a \in Nat
    <3>1. m \in Nat /\ c = m * a + (c % a) /\ m * a \in Nat /\ c % a \in Nat
      BY DivisionIs
    <3>2. n \in Nat /\ b = n * a + (b % a) /\ n * a \in Nat /\ b % a \in Nat
      BY DivisionIs
    <3> DEFINE t == c % a
    <3>3. b % a = t
      OBVIOUS
    <3> HIDE DEF m, n, t
    <3>4. c = m * a + t /\ b = n * a + t /\ t \in Nat
      BY <3>1, <3>2, <3>3, Zenon DEF t
    <3>5. QED
      BY <3>1, <3>2, <3>4
  <2> HIDE DEF m, n, x, y
  <2>2. m - n \in Int /\ (m - n) * a = m * a - n * a
    BY <2>1
  <2> DEFINE d == m - n
  <2>3. d \in Int /\ d * a = c - b /\ c - b = y - x /\ x \in Nat /\ y \in Nat /\ d * a \in Int
    BY <1>1, <2>1, <2>2
  <2> HIDE DEF d
  <2>4. y = x + d * a
    <3> DEFINE u == d * a
    <3>1. u \in Int /\ u = y - x /\ x \in Nat /\ y \in Nat
      BY <2>3
    <3> HIDE DEF u
    <3>2. y = x + u
      BY <3>1
    <3>3. QED
      BY <3>2 DEF u
  <2>5. QED
    BY <2>3, <2>4
<1> HIDE DEF x, y
<1>4. /\ i \in Nat /\ i * a \in Nat /\ x <= i * a /\ i * a < x + a
      /\ j \in Nat /\ j * a \in Nat /\ y <= j * a /\ j * a < y + a
  <2>1. ASSUME NEW n \in Nat
        PROVE  LET k == (n + a - 1) \div a
               IN  k \in Nat /\ k * a \in Nat /\ n <= k * a /\ k * a < n + a
    <3> DEFINE m == n + a - 1
               k == m \div a
    <3>1. m \in Nat /\ m = n + a - 1
      OBVIOUS
    <3> HIDE DEF m
    <3> DEFINE t == m % a
    <3>2. k \in Nat /\ m = k * a + t /\ k * a \in Nat /\ t \in Nat /\ t < a
      BY <3>1, DivisionIs
    <3> HIDE DEF k, t
    <3>3. k \in Nat /\ k * a \in Nat /\ n <= k * a /\ k * a < n + a
      BY <3>1, <3>2
    <3>4. QED
      BY <3>3 DEF k, m
  <2>2. QED
    BY <1>1, <2>1
<1> HIDE DEF i, j
<1>5. j = i + d
  <2>1. (i + d) * a = i * a + d * a /\ d * a \in Int /\ i + d \in Int
    BY <1>4
  <2>2. j * a < (i + d) * a + a /\ (i + d) * a < j * a + a
    BY <1>1, <1>3, <1>4, <2>1
  <2>3. QED
    BY <1>4, <2>1, <2>2, OneMultiple
<1>6. i * a - b = j * a - c
  <2>1. j * a = i * a + d * a /\ d * a \in Int
    BY <1>4, <1>5
  <2>2. QED
    BY <1>1, <1>3, <1>4, <2>1
<1>7. x % a = 0 <=> y % a = 0
  <2>1. \A n \in Nat, k \in Nat : n <= k * a /\ k * a < n + a => (n % a = 0 <=> k * a = n)
    <3>1. SUFFICES ASSUME NEW n \in Nat, NEW k \in Nat, n <= k * a, k * a < n + a
                   PROVE  n % a = 0 <=> k * a = n
      OBVIOUS
    <3> DEFINE q == n \div a
               t == n % a
    <3>2. q \in Nat /\ n = q * a + t /\ q * a \in Nat /\ t \in Nat /\ t < a /\ k * a \in Nat
      BY <1>2
    <3> HIDE DEF q, t
    <3>3. ASSUME t = 0
          PROVE  k * a = n
      <4>1. k = q
        BY <3>1, <3>2, <3>3, OneMultiple
      <4>2. QED
        BY <3>2, <3>3, <4>1
    <3>4. ASSUME k * a = n
          PROVE  t = 0
      <4>1. k = q
        BY <3>2, <3>4, OneMultiple
      <4>2. QED
        BY <3>2, <3>4, <4>1
    <3>5. QED
      BY <3>3, <3>4 DEF t
  <2>2. (x % a = 0 <=> i * a = x) /\ (y % a = 0 <=> j * a = y)
    BY <1>1, <1>4, <2>1
  <2>3. i * a = x <=> j * a = y
    BY <1>1, <1>4, <1>6
  <2>4. QED
    BY <2>2, <2>3
<1> DEFINE At(here, off) ==
             IF here \/ mem2chunk(off) - mem2chunk(mem) >= MIN_CHUNK_SIZE
             THEN mem2chunk(off) ELSE mem2chunk(off) + a
           r == i * a - b
           s == j * a - c
           onX == x % a = 0
           onY == y % a = 0
<1>8. AlignedSpot(b, mem, a) = At(onX, r) /\ AlignedSpot(c, mem, a) = At(onY, s)
  BY DEF AlignedSpot, x, y, i, j
<1>9. r = s /\ onX = onY
  BY <1>6, <1>7
<1> HIDE DEF At, r, s, onX, onY
<1>10. QED
  BY <1>8, <1>9, Zenon

(* What is before the spot is given back.                                  *)
LEMMA GiveLeaderIs ==
    ASSUME NEW h, Sound(h), NEW p, Block(h, p), NEW pos \in Nat, pos = p \/ pos - p >= 2,
           pos < p + chunksize(h, p), NEW w, w = GiveLeader(h, p, pos)
    PROVE  /\ Sound(w) /\ pos \in Used(w) /\ chunksize(w, pos) = p + chunksize(h, p) - pos
           /\ \A q \in Used(h) \ {p} : q # pos /\ q \in Used(w) /\ chunksize(w, q) = chunksize(h, q)
<1>1. p \in Nat /\ chunksize(h, p) \in Nat /\ p \in Used(h) /\ p # 0
  BY GrowsIs DEF Sound, Block
<1>2. CASE p = pos
  <2>1. w = h
    BY <1>2 DEF GiveLeader
  <2>2. p + chunksize(h, p) - pos = chunksize(h, p)
    BY <1>1, <1>2
  <2>3. QED
    BY <1>1, <1>2, <2>1, <2>2
<1>3. CASE p # pos
  <2> DEFINE d == pos - p
             r == chunksize(h, p) - d
             v == set_inuse(set_inuse(h, p + d, r), p, d)
  <2>1. d \in Nat /\ d >= 2 /\ d > 0 /\ r \in Nat /\ r > 0 /\ d + r = chunksize(h, p)
        /\ p + d = pos /\ pos # p /\ p + chunksize(h, p) - pos = r
    BY <1>1, <1>3
  <2>2. w = dispose_chunk(v, p, d)
    <3>1. w = dispose_chunk(set_inuse(set_inuse(h, pos, r), p, d), p, d)
      BY <1>3 DEF GiveLeader
    <3>2. QED
      BY <2>1, <3>1
  <2> HIDE DEF d, r
  <2>3. Cuts(h, p, d, r)
    BY <1>1, <2>1 DEF Cuts
  <2>4. Cut(h, v, p, pos)
    BY <2>1, <2>3, CutBehind
  <2> HIDE DEF v
  <2>5. /\ Sound(v) /\ p \in Used(v) /\ pos \in Used(v) /\ chunksize(v, p) = d
        /\ chunksize(v, pos) = r
        /\ \A q \in Used(h) \ {p} : q # pos /\ q \in Used(v) /\ chunksize(v, q) = chunksize(h, q)
    BY <2>1, <2>4 DEF Cut, d
  <2>6. Disposed(v, w, p)
    BY <1>1, <2>1, <2>2, <2>5, DisposeIs
  <2>7. QED
    BY <2>1, <2>5, <2>6 DEF Disposed, Keeps
<1>4. QED
  BY <1>2, <1>3

(* What is behind the aligned block is given back.                         *)
LEMMA TrimmedIs ==
    ASSUME NEW h, Sound(h), NEW p, Block(h, p), NEW nb \in Nat, nb >= 2, chunksize(h, p) >= nb,
           NEW r, r = Trimmed(h, p, nb)
    PROVE  Resized(h, r.heap, p, p, nb) /\ mem2chunk(r.mem) = p /\ r.mem # NULL
<1>1. p \in Nat /\ chunksize(h, p) \in Nat
  BY GrowsIs DEF Sound
<1>2. mem2chunk(r.mem) = p /\ r.mem # NULL
  BY <1>1, ConstantsAre DEF Trimmed, Given, chunk2mem, mem2chunk
<1>3. CASE chunksize(h, p) > nb + MIN_CHUNK_SIZE
  <2>1. r.heap = GiveBack(h, p, nb)
    BY <1>3 DEF Trimmed, Given
  <2>2. chunksize(h, p) - nb >= 2
    BY <1>1, <1>3, ConstantsAre
  <2>3. QED
    BY <1>2, <2>1, <2>2, GiveBackIs
<1>4. CASE ~(chunksize(h, p) > nb + MIN_CHUNK_SIZE)
  <2>1. r.heap = h
    BY <1>4 DEF Trimmed, Given
  <2>2. QED
    BY <1>2, <2>1 DEF Resized, Keeps, Block
<1>5. QED
  BY <1>3, <1>4

(* mspace_memalign gets a new chunk as large as asked, or fails.           *)
LEMMA MemalignGot ==
    ASSUME NEW h, Sound(h), NEW base \in Nat, NEW alignment \in Nat, NEW bytes \in Nat
    PROVE  Got(h, mspace_memalign(h, base, alignment, bytes), request2size(bytes))
<1> DEFINE a == Alignment(alignment)
           nb == request2size(bytes)
           g == TakeChunk(h, nb + a + MIN_CHUNK_SIZE)
           r == Realigned(g, base, a, nb)
<1>1. CASE alignment <= 1
  BY <1>1, MallocGot DEF mspace_memalign
<1>2. CASE ~(alignment <= 1)
  <2>1. a \in Nat /\ a >= 2 /\ nb \in Nat /\ nb >= 2
    BY RequestIs, AlignmentIs
  <2>2. mspace_memalign(h, base, alignment, bytes) = r
    BY <1>2 DEF mspace_memalign
  <2> HIDE DEF a, nb
  <2>3. Got(h, g, nb + a + 2)
    <3>1. nb + a + 2 \in Nat /\ nb + a + 2 >= 2 /\ MIN_CHUNK_SIZE = 2
      BY <2>1, ConstantsAre
    <3>2. QED
      BY <3>1, TakeChunkGot
  <2> HIDE DEF g
  <2>4. CASE g.mem = NULL
    <3>1. r = g
      BY <2>4 DEF Realigned
    <3>2. QED
      BY <2>2, <2>3, <2>4, <3>1 DEF Got, nb
  <2>5. CASE g.mem # NULL
    <3> DEFINE p == mem2chunk(g.mem)
               pos == AlignedSpot(base, g.mem, a)
               w == GiveLeader(g.heap, p, pos)
    <3>1. /\ Sound(g.heap) /\ Keeps(h, g.heap, {}) /\ p \in Used(g.heap) /\ p \notin Used(h)
          /\ chunksize(g.heap, p) >= nb + a + 2
      BY <2>3, <2>5 DEF Got
    <3>2. 0 \in Used(h) /\ p \in Nat /\ chunksize(g.heap, p) \in Nat
      BY <3>1, ShapedIs DEF Sound, Used
    <3>3. Block(g.heap, p) /\ p # 0
      BY <2>1, <3>1, <3>2 DEF Block
    <3>4. g.mem \in Nat /\ g.mem > 0
      <4>1. g.mem \in Nat
        <5>1. nb + a + MIN_CHUNK_SIZE \in Nat /\ nb + a + MIN_CHUNK_SIZE >= 2
          BY <2>1, ConstantsAre
        <5>2. QED
          BY <5>1, TakenIs DEF g
      <4>2. QED
        BY <3>2, <4>1 DEF mem2chunk
    <3>5. pos \in Nat /\ (pos = p \/ pos - p >= 2) /\ pos - p <= a + 1
      BY <2>1, <3>4, AlignedSpotIs
    <3> HIDE DEF pos, p
    <3>6. pos < p + chunksize(g.heap, p) /\ p + chunksize(g.heap, p) - pos >= nb /\ pos >= p
      BY <2>1, <3>1, <3>2, <3>5
    <3>7. r = Trimmed(w, pos, nb)
      BY <2>5 DEF Realigned, p, pos
    <3> HIDE DEF w
    <3>8. /\ Sound(w) /\ pos \in Used(w) /\ chunksize(w, pos) >= nb
          /\ \A q \in Used(g.heap) \ {p} :
                q # pos /\ q \in Used(w) /\ chunksize(w, q) = chunksize(g.heap, q)
      BY <3>1, <3>3, <3>5, <3>6, GiveLeaderIs DEF w
    <3>9. Block(w, pos)
      <4>1. chunksize(w, pos) \in Nat
        BY <3>8, ShapedIs DEF Sound
      <4>2. pos # 0 /\ chunksize(w, pos) >= 2
        BY <2>1, <3>2, <3>3, <3>6, <3>8, <4>1
      <4>3. QED
        BY <3>8, <4>2 DEF Block
    <3>10. Resized(w, r.heap, pos, pos, nb) /\ mem2chunk(r.mem) = pos /\ r.mem # NULL
      BY <2>1, <3>7, <3>8, <3>9, TrimmedIs
    <3>11. \A q \in Used(h) : q # pos /\ q \in Used(w) /\ chunksize(w, q) = chunksize(h, q)
      BY <3>1, <3>8 DEF Keeps
    <3>12. QED
      BY <2>2, <3>10, <3>11 DEF Resized, Keeps, Got, nb
  <2>6. QED
    BY <2>4, <2>5
<1>3. QED
  BY <1>1, <1>2

-----------------------------------------------------------------------------
(* The calls of the symmetric heap.                                        *)
LEMMA MalignedIs ==
    ASSUME NEW h, Sound(h), NEW base \in Nat, NEW alignment \in Nat, NEW bytes \in Nat
    PROVE  mspace_memalign(h, base, alignment, bytes).mem \in Nat
<1> DEFINE a == Alignment(alignment)
           nb == request2size(bytes)
           g == TakeChunk(h, nb + a + MIN_CHUNK_SIZE)
           r == Realigned(g, base, a, nb)
<1>1. CASE alignment <= 1
  <2>1. mspace_memalign(h, base, alignment, bytes) = TakeChunk(h, nb)
    BY <1>1 DEF mspace_memalign, mspace_malloc
  <2>2. nb \in Nat /\ nb >= 2
    BY RequestIs
  <2> HIDE DEF nb
  <2>3. QED
    BY <2>1, <2>2, TakenIs
<1>2. CASE ~(alignment <= 1)
  <2>1. a \in Nat /\ a >= 2 /\ nb \in Nat /\ nb >= 2
    BY RequestIs, AlignmentIs
  <2>2. mspace_memalign(h, base, alignment, bytes) = r
    BY <1>2 DEF mspace_memalign
  <2>3. nb + a + MIN_CHUNK_SIZE \in Nat /\ nb + a + MIN_CHUNK_SIZE >= 2
    BY <2>1, ConstantsAre
  <2> HIDE DEF a, nb
  <2>4. g.mem \in Nat
    BY <2>3, TakenIs
  <2> HIDE DEF g
  <2>5. CASE g.mem = NULL
    BY <2>2, <2>4, <2>5 DEF Realigned
  <2>6. CASE g.mem # NULL
    <3>1. AlignedSpot(base, g.mem, a) \in Nat
      <4>1. g.mem > 0
        BY <2>4, <2>6, ConstantsAre
      <4>2. QED
        BY <2>1, <2>4, <4>1, AlignedSpotIs
    <3>2. r.mem = chunk2mem(AlignedSpot(base, g.mem, a))
      BY <2>6 DEF Realigned, Trimmed, Given
    <3>3. QED
      BY <2>2, <3>1, <3>2 DEF chunk2mem
  <2>7. QED
    BY <2>5, <2>6
<1>3. QED
  BY <1>1, <1>2

(* What a call does to a heap in which mem is a block of the program's: it *)
(* keeps the others, and what it returns is a block of its own.            *)
Did(h, r, mem) ==
    /\ Sound(r.heap) /\ Keeps(h, r.heap, {mem2chunk(mem)}) /\ r.mem \in Nat
    /\ r.mem # NULL => /\ Block(r.heap, mem2chunk(r.mem))
                       /\ mem2chunk(r.mem) \in Used(h) => mem2chunk(r.mem) = mem2chunk(mem)

(* An allocation is such a call.                                           *)
LEMMA GotDid ==
    ASSUME NEW h, Sound(h), NEW r, NEW nb \in Nat, nb >= 2, Got(h, r, nb), NEW mem, r.mem \in Nat
    PROVE  Did(h, r, mem)
<1>1. Sound(r.heap) /\ Keeps(h, r.heap, {mem2chunk(mem)})
  BY DEF Got, Keeps
<1>2. ASSUME r.mem # NULL
      PROVE  Block(r.heap, mem2chunk(r.mem)) /\ mem2chunk(r.mem) \notin Used(h)
  <2>1. mem2chunk(r.mem) \in Used(r.heap) /\ mem2chunk(r.mem) \notin Used(h)
        /\ chunksize(r.heap, mem2chunk(r.mem)) >= nb
    BY <1>2 DEF Got
  <2>2. 0 \in Used(h) /\ chunksize(r.heap, mem2chunk(r.mem)) \in Nat
    BY <1>1, ShapedIs DEF Sound, Used
  <2>3. mem2chunk(r.mem) # 0 /\ chunksize(r.heap, mem2chunk(r.mem)) >= 2
    BY <2>1, <2>2
  <2>4. QED
    BY <2>1, <2>3 DEF Block
<1>3. QED
  BY <1>1, <1>2 DEF Did

(* A realloc that fails keeps the block too.                               *)
LEMMA ReallocDid ==
    ASSUME NEW h, Sound(h), NEW mem \in Nat, mem # NULL => Block(h, mem2chunk(mem)),
           NEW bytes \in Nat, NEW r, r = mspace_realloc(h, mem, bytes)
    PROVE  /\ Did(h, r, mem)
           /\ r.mem = NULL /\ bytes > 0 => Keeps(h, r.heap, {})
<1> DEFINE p == mem2chunk(mem)
           nb == request2size(bytes)
<1>1. nb \in Nat /\ nb >= 2
  BY RequestIs
<1>2. CASE mem = NULL
  <2>1. r = mspace_malloc(h, bytes)
    BY <1>2 DEF mspace_realloc
  <2>2. Got(h, r, nb)
    BY <2>1, MallocGot
  <2>3. r.mem \in Nat
    <3>1. r = TakeChunk(h, nb)
      BY <2>1 DEF mspace_malloc
    <3> HIDE DEF nb
    <3>2. QED
      BY <1>1, <3>1, TakenIs
  <2> HIDE DEF nb
  <2>4. QED
    BY <1>1, <2>2, <2>3, GotDid DEF Got
<1>3. CASE mem # NULL /\ bytes = 0
  <2>1. r = Failed(mspace_free(h, mem))
    BY <1>3 DEF mspace_realloc
  <2>2. Disposed(h, mspace_free(h, mem), p)
    BY <1>3, FreeGives DEF Block
  <2>3. QED
    BY <1>3, <2>1, <2>2, ConstantsAre DEF Failed, Disposed, Did
<1>4. CASE mem # NULL /\ bytes # 0
  <2>1. /\ Sound(r.heap)
        /\ r.mem = NULL => Keeps(h, r.heap, {})
        /\ r.mem # NULL => Resized(h, r.heap, p, mem2chunk(r.mem), nb)
    BY <1>4, ReallocIs
  <2>2. r.mem \in Nat
    <3>1. p \in Nat
      BY <1>4, GrowsIs DEF Sound
    <3>2. mspace_malloc(h, bytes).mem \in Nat
      <4>1. mspace_malloc(h, bytes) = TakeChunk(h, nb)
        BY DEF mspace_malloc
      <4> HIDE DEF nb
      <4>2. QED
        BY <1>1, <4>1, TakenIs
    <3>3. \A w : Given(w, p).mem \in Nat
      BY <3>1 DEF Given, chunk2mem
    <3>4. \A g : g.mem \in Nat => Moved(g, mem).mem \in Nat
      BY ConstantsAre DEF Moved
    <3> HIDE DEF p
    <3>5. QED
      BY <1>4, <3>2, <3>3, <3>4 DEF mspace_realloc, p
  <2>3. 0 \in Used(h)
    BY ShapedIs DEF Sound, Used
  <2>4. ASSUME r.mem # NULL
        PROVE  /\ Block(r.heap, mem2chunk(r.mem)) /\ Keeps(h, r.heap, {p})
               /\ mem2chunk(r.mem) \in Used(h) => mem2chunk(r.mem) = p
    <3>1. /\ Keeps(h, r.heap, {p}) /\ mem2chunk(r.mem) \in Used(r.heap)
          /\ chunksize(r.heap, mem2chunk(r.mem)) >= nb
          /\ mem2chunk(r.mem) = p \/ mem2chunk(r.mem) \notin Used(h)
      BY <2>1, <2>4 DEF Resized
    <3>2. p # 0 /\ chunksize(r.heap, mem2chunk(r.mem)) \in Nat
      BY <1>4, <2>1, ShapedIs DEF Sound, Block
    <3> HIDE DEF nb, p
    <3>3. mem2chunk(r.mem) # 0 /\ chunksize(r.heap, mem2chunk(r.mem)) >= 2
      BY <1>1, <2>3, <3>1, <3>2
    <3>4. QED
      BY <3>1, <3>3 DEF Block
  <2>5. QED
    BY <1>4, <2>1, <2>2, <2>4 DEF Did, Keeps
<1>5. QED
  BY <1>2, <1>3, <1>4

CallNames == {"malloc", "calloc", "align", "free", "realloc"}
AlignRange == Alignments \union {1}
CallRec == [name : CallNames, v : Var, bytes : Nat, align : AlignRange, seq : Nat]

LEMMA FieldsAre ==
    ASSUME NEW c \in CallRec
    PROVE  c.name \in CallNames /\ c.v \in Var /\ c.bytes \in Nat /\ c.align \in Nat
<1>1. AlignRange \subseteq Nat
  BY HeapAssumption DEF AlignRange
<1> HIDE DEF AlignRange
<1>2. QED
  BY <1>1 DEF CallRec

(* So is each of the five calls.                                           *)
LEMMA CallDid ==
    ASSUME NEW h, Sound(h), NEW mem \in Nat, mem # NULL => Block(h, mem2chunk(mem)),
           NEW base \in Nat, NEW c \in CallRec, NEW r, r = shmema(h, base, mem, c)
    PROVE  /\ Did(h, r, mem)
           /\ c.name = "free" => r.mem = NULL
           /\ r.mem = NULL /\ c.name = "realloc" /\ c.bytes > 0 => Keeps(h, r.heap, {})
<1>1. c.name \in CallNames /\ c.bytes \in Nat /\ c.align \in Nat
  BY FieldsAre
<1>2. ASSUME NEW bytes \in Nat, r = mspace_malloc(h, bytes)
      PROVE  Did(h, r, mem)
  <2>1. Got(h, r, request2size(bytes))
    BY <1>2, MallocGot
  <2>2. request2size(bytes) \in Nat /\ request2size(bytes) >= 2
    BY RequestIs
  <2>3. r.mem \in Nat
    BY <1>2, <2>2, TakenIs DEF mspace_malloc
  <2>4. QED
    BY <2>1, <2>2, <2>3, GotDid
<1>3. CASE c.name = "malloc"
  <2>1. r = mspace_malloc(h, c.bytes)
    BY <1>3 DEF shmema
  <2>2. QED
    BY <1>1, <1>2, <1>3, <2>1
<1>4. CASE c.name = "calloc"
  <2>1. r = mspace_malloc(h, c.bytes * 8)
    BY <1>4 DEF shmema, mspace_calloc
  <2>2. c.bytes * 8 \in Nat
    BY <1>1
  <2>3. QED
    BY <1>2, <1>4, <2>1, <2>2
<1>5. CASE c.name = "align"
  <2>1. r = mspace_memalign(h, base, c.align, c.bytes)
    BY <1>5 DEF shmema
  <2>2. Got(h, r, request2size(c.bytes)) /\ r.mem \in Nat
    BY <1>1, <2>1, MemalignGot, MalignedIs
  <2>3. request2size(c.bytes) \in Nat /\ request2size(c.bytes) >= 2
    BY <1>1, RequestIs
  <2>4. QED
    BY <1>5, <2>2, <2>3, GotDid
<1>6. CASE c.name = "free"
  <2>1. r = Failed(mspace_free(h, mem))
    BY <1>6 DEF shmema
  <2>2. mem # NULL => Disposed(h, mspace_free(h, mem), mem2chunk(mem))
    BY FreeGives DEF Block
  <2>3. mem = NULL => Disposed(h, mspace_free(h, mem), mem2chunk(mem))
    BY DEF mspace_free, Disposed, Keeps
  <2>4. QED
    BY <1>6, <2>1, <2>2, <2>3, ConstantsAre DEF Failed, Disposed, Did
<1>7. CASE c.name = "realloc"
  <2>1. r = mspace_realloc(h, mem, c.bytes)
    BY <1>7 DEF shmema
  <2>2. QED
    BY <1>1, <1>7, <2>1, ReallocDid
<1>8. QED
  BY <1>1, <1>3, <1>4, <1>5, <1>6, <1>7 DEF CallNames

-----------------------------------------------------------------------------
(* A PE's heap with the program's pointers into it.  Each of them is a     *)
(* block of its own.                                                       *)
Owns(h, pt) ==
    /\ Sound(h) /\ pt \in [Var -> Nat]
    /\ \A v \in Var : pt[v] # NULL => Block(h, mem2chunk(pt[v]))
    /\ \A v, w \in Var : v # w /\ pt[v] # NULL => pt[w] # pt[v]

(* What a call makes of them.                                              *)
HeapAfter(h, base, pt, c) == shmema(h, base, pt[c.v], c).heap
PtrAfter(h, base, pt, c) ==
    LET mem == shmema(h, base, pt[c.v], c).mem
    IN  [pt EXCEPT ![c.v] = IF mem = NULL /\ c.name = "realloc" /\ c.bytes > 0 THEN @ ELSE mem]

(* A block that a call is not about stays where it is and as large.        *)
SameBlock(h, pt, w, qt, v) ==
    /\ qt[v] = pt[v]
    /\ pt[v] # NULL => chunksize(w, mem2chunk(pt[v])) = chunksize(h, mem2chunk(pt[v]))

(* Each of the calls leaves the PE a sound heap, with every pointer a      *)
(* block of its own and the blocks of the other pointers where they were.  *)
LEMMA CallOwns ==
    ASSUME NEW h, NEW base \in Nat, NEW pt, Owns(h, pt), NEW c \in CallRec
    PROVE  /\ Owns(HeapAfter(h, base, pt, c), PtrAfter(h, base, pt, c))
           /\ \A v \in Var : v # c.v =>
                SameBlock(h, pt, HeapAfter(h, base, pt, c), PtrAfter(h, base, pt, c), v)
           /\ c.name = "free" => PtrAfter(h, base, pt, c)[c.v] = NULL
<1> DEFINE mem == pt[c.v]
           p == mem2chunk(mem)
           r == shmema(h, base, mem, c)
           w == r.heap
           kept == r.mem = NULL /\ c.name = "realloc" /\ c.bytes > 0
           qt == PtrAfter(h, base, pt, c)
<1>1. /\ Sound(h) /\ pt \in [Var -> Nat] /\ c.v \in Var /\ mem \in Nat
      /\ mem # NULL => Block(h, p)
      /\ \A v \in Var : pt[v] # NULL => Block(h, mem2chunk(pt[v])) /\ pt[v] \in Nat
      /\ \A v \in Var : v # c.v /\ pt[v] # NULL => pt[v] # mem
  <2>1. c.v \in Var
    BY DEF CallRec
  <2>2. QED
    BY <2>1 DEF Owns
<1>2. /\ Did(h, r, mem)
      /\ c.name = "free" => r.mem = NULL
      /\ kept => Keeps(h, r.heap, {})
  <2> HIDE DEF mem, p
  <2>1. QED
    BY <1>1, CallDid DEF p, mem
<1>3. HeapAfter(h, base, pt, c) = w
  BY DEF HeapAfter
<1>4. qt = [pt EXCEPT ![c.v] = IF kept THEN mem ELSE r.mem]
  BY DEF PtrAfter
<1> HIDE DEF r, mem, qt, kept
<1>5. /\ Sound(w) /\ Keeps(h, w, {p}) /\ r.mem \in Nat
      /\ r.mem # NULL => Block(w, mem2chunk(r.mem))
      /\ r.mem # NULL /\ mem2chunk(r.mem) \in Used(h) => mem2chunk(r.mem) = p
  BY <1>2 DEF Did
<1>6. /\ qt \in [Var -> Nat] /\ qt[c.v] = IF kept THEN mem ELSE r.mem
      /\ \A v \in Var : v # c.v => qt[v] = pt[v]
  BY <1>1, <1>4, <1>5
<1>7. ASSUME NEW v \in Var, v # c.v, pt[v] # NULL
      PROVE  /\ mem2chunk(pt[v]) \in Used(h) /\ mem2chunk(pt[v]) # p
             /\ Block(w, mem2chunk(pt[v]))
             /\ chunksize(w, mem2chunk(pt[v])) = chunksize(h, mem2chunk(pt[v]))
  <2>1. mem2chunk(pt[v]) \in Used(h) /\ Block(h, mem2chunk(pt[v]))
    BY <1>1, <1>7 DEF Block
  <2>2. mem2chunk(pt[v]) # p
    BY <1>1, <1>7 DEF mem2chunk
  <2>3. QED
    BY <1>5, <2>1, <2>2 DEF Keeps, Block
<1>8. ASSUME NEW v \in Var, qt[v] # NULL
      PROVE  Block(w, mem2chunk(qt[v]))
  <2>1. CASE v # c.v
    BY <1>6, <1>7, <1>8, <2>1
  <2>2. CASE v = c.v /\ kept
    <3>1. Block(h, p) /\ Keeps(h, w, {})
      BY <1>1, <1>2, <1>6, <1>8, <2>2 DEF w
    <3>2. QED
      BY <1>6, <2>2, <3>1 DEF Block, Keeps
  <2>3. CASE v = c.v /\ ~kept
    BY <1>5, <1>6, <1>8, <2>3
  <2>4. QED
    BY <2>1, <2>2, <2>3
<1>9. ASSUME NEW v \in Var, NEW u \in Var, v # u, qt[v] # NULL
      PROVE  qt[u] # qt[v]
  <2>1. ASSUME NEW x \in Var, x # c.v, pt[x] # NULL
        PROVE  qt[c.v] # pt[x]
    <3>1. CASE kept
      BY <1>1, <1>6, <2>1, <3>1
    <3>2. CASE ~kept
      BY <1>5, <1>6, <1>7, <2>1, <3>2
    <3>3. QED
      BY <3>1, <3>2
  <2>2. CASE v # c.v /\ u # c.v
    BY <1>6, <1>9, <2>2 DEF Owns
  <2>3. CASE v = c.v
    BY <1>6, <1>9, <2>1, <2>3
  <2>4. CASE u = c.v
    BY <1>6, <1>9, <2>1, <2>4
  <2>5. QED
    BY <2>2, <2>3, <2>4
<1>10. Owns(w, qt)
  BY <1>5, <1>6, <1>8, <1>9 DEF Owns
<1>11. \A v \in Var : v # c.v => SameBlock(h, pt, w, qt, v)
  BY <1>6, <1>7 DEF SameBlock
<1>12. c.name = "free" => qt[c.v] = NULL
  BY <1>2, <1>6 DEF kept
<1>13. QED
  BY <1>3, <1>10, <1>11, <1>12 DEF qt

(* Blocks of a PE do not overlap.                                          *)
LEMMA BlocksApart ==
    ASSUME NEW h, NEW pt, Owns(h, pt), NEW v \in Var, NEW w \in Var, v # w,
           pt[v] # NULL, pt[w] # NULL, NEW a, a = mem2chunk(pt[v]), NEW b, b = mem2chunk(pt[w])
    PROVE  (a .. a + chunksize(h, a) - 1) \intersect (b .. b + chunksize(h, b) - 1) = {}
<1>1. /\ Shaped(h) /\ a \in Used(h) /\ b \in Used(h) /\ pt[v] \in Nat /\ pt[w] \in Nat
      /\ pt[v] # pt[w]
  BY DEF Owns, Sound, Block
<1>2. a \in Chunks(h) /\ b \in Chunks(h)
  BY <1>1 DEF Used
<1>3. a \in Nat /\ b \in Nat /\ chunksize(h, a) \in Nat /\ chunksize(h, b) \in Nat
      /\ Solid(h, a) /\ Solid(h, b)
  BY <1>1, <1>2, ShapedIs
<1>4. a # b
  BY <1>1 DEF mem2chunk
<1>5. a + chunksize(h, a) <= b \/ b + chunksize(h, b) <= a
  BY <1>2, <1>3, <1>4 DEF Solid
<1>6. QED
  BY <1>3, <1>5

-----------------------------------------------------------------------------
(* The heap that every PE begins with.                                     *)
LEMMA CreatedIs ==
    Sound(create_mspace_with_base)
<1> DEFINE hd == [size |-> MstateSize, cinuse |-> TRUE, pinuse |-> TRUE, prev_foot |-> 0]
           b == [head |-> [p \in {0} |-> hd], bins |-> [s \in Sizes |-> << >>],
                 dv |-> NULL, dvsize |-> 0, top |-> NULL, topsize |-> 0]
           m == HeapSize - MstateSize
           h == create_mspace_with_base
<1>1. hd \in HeadRec /\ hd.size = MstateSize /\ hd.cinuse = TRUE
  BY ConstantsAre DEF HeadRec
<1>2. h = set_top(b, MstateSize, m)
  BY DEF create_mspace_with_base
<1> HIDE DEF h, hd
<1>3. /\ b.head = [p \in {0} |-> hd] /\ b.bins = [s \in Sizes |-> << >>]
      /\ b.dv = 0 /\ b.dvsize = 0
  BY ConstantsAre
<1>4. b \in HeapRec
  <2>1. 0 \in Places
    BY ConstantsAre DEF Places
  <2>2. b.head \in [{0} -> HeadRec]
    BY <1>1
  <2>3. b.bins \in [Sizes -> Seq(Places)]
    OBVIOUS
  <2>4. b.head \in UNION {[D -> HeadRec] : D \in SUBSET Places}
    <3>1. {0} \in SUBSET Places
      BY <2>1
    <3> HIDE DEF b
    <3>2. QED
      BY <2>2, <3>1
  <2>5. b = [head |-> b.head, bins |-> b.bins, dv |-> b.dv, dvsize |-> b.dvsize,
             top |-> b.top, topsize |-> b.topsize]
    OBVIOUS
  <2>6. b.dv \in Nat /\ b.dvsize \in Nat /\ b.top \in Nat /\ b.topsize \in Nat
    BY ConstantsAre
  <2> HIDE DEF b
  <2>7. QED
    BY <2>3, <2>4, <2>5, <2>6 DEF HeapRec
<1>5. MstateSize \in Places /\ m \in Nat /\ m > 0 /\ MstateSize + m = HeapSize
  BY ConstantsAre DEF Places
<1>6. Chunks(b) = {0} /\ HeadOf(b, 0) = hd
  BY <1>3 DEF Chunks, HeadOf
<1> HIDE DEF b, m
<1>7. /\ h \in HeapRec /\ SameBooks(b, h) /\ h.top = MstateSize /\ h.topsize = m
      /\ Chunks(h) = {MstateSize} \union ({0} \ (MstateSize + 1 .. MstateSize + m - 1))
      /\ chunksize(h, MstateSize) = m /\ ~cinuse(h, MstateSize) /\ pinuse(h, MstateSize)
      /\ \A q \in Chunks(h) : q # MstateSize => HeadOf(h, q) = HeadOf(b, q)
  BY <1>2, <1>4, <1>5, <1>6, SetTopIs
<1>8. Chunks(h) = {0, MstateSize}
  BY <1>5, <1>7, ConstantsAre
<1>9. chunksize(h, 0) = MstateSize /\ cinuse(h, 0)
  BY <1>1, <1>6, <1>7, <1>8, ConstantsAre DEF chunksize, cinuse
<1>10. Shaped(h)
  <2>1. TopEnds(h)
    BY <1>5, <1>7, <1>8, ConstantsAre DEF TopEnds
  <2>2. Tile(h, 0)
    <3>1. \A q \in Chunks(h) : ~(0 < q /\ q < MstateSize)
      BY <1>8, ConstantsAre
    <3>2. 0 + chunksize(h, 0) = MstateSize
      BY <1>9, ConstantsAre
    <3>3. pinuse(h, MstateSize) = cinuse(h, 0)
      <4>1. pinuse(h, MstateSize) \in BOOLEAN /\ cinuse(h, 0) \in BOOLEAN
        BY <1>7, HeapIs
      <4>2. QED
        BY <1>7, <1>9, <4>1
    <3>4. QED
      BY <1>8, <1>9, <3>1, <3>2, <3>3, ConstantsAre DEF Tile
  <2>3. Whole(h, 0) /\ Whole(h, MstateSize)
    BY <1>7, <1>9 DEF Whole
  <2>4. QED
    BY <1>7, <1>8, <1>9, <2>1, <2>2, <2>3 DEF Shaped
<1>11. Free(h) = {}
  BY <1>7, <1>8, <1>9 DEF Free
<1>12. BinsAre(h, Free(h) \ {h.dv})
  <2>1. ListOf(<< >>, Places, {})
    BY DEF ListOf, IsInjective, ToSet
  <2>2. \A s : OfSize(h, {}, s) = {}
    BY DEF OfSize
  <2>3. \A s \in Sizes : h.bins[s] = << >>
    BY <1>3, <1>7 DEF SameBooks
  <2>4. QED
    BY <1>11, <2>1, <2>2, <2>3 DEF BinsAre
<1>13. DvIs(h)
  BY <1>3, <1>7, ConstantsAre DEF DvIs, SameBooks
<1>14. QED
  BY <1>10, <1>12, <1>13 DEF Sound, h

StartHeap == Allocated(Allocated(create_mspace_with_base))
NoPtr == [v \in Var |-> NULL]

(* The barriers' two psync arrays are allocated in it.                     *)
LEMMA StartOwns ==
    Owns(StartHeap, NoPtr)
<1>1. ASSUME NEW h, Sound(h)
      PROVE  Sound(Allocated(h))
  <2>1. Got(h, mspace_malloc(h, PSyncBytes), request2size(PSyncBytes))
    BY <1>1, MallocGot DEF PSyncBytes
  <2>2. QED
    BY <2>1 DEF Got, Allocated
<1>2. Sound(StartHeap)
  <2>1. Sound(Allocated(create_mspace_with_base))
    BY <1>1, CreatedIs, Zenon
  <2>2. QED
    BY <1>1, <2>1, Zenon DEF StartHeap
<1>3. QED
  BY <1>2, ConstantsAre DEF Owns, NoPtr

-----------------------------------------------------------------------------
(* A sound heap satisfies what the assertions say.                         *)
LEMMA SoundAgrees ==
    ASSUME NEW h, Sound(h)
    PROVE  HeadersAgree(h) /\ Coalesced(h)
<1>1. /\ h \in HeapRec /\ TopEnds(h)
      /\ \A p \in Chunks(h) : (p # h.top => Tile(h, p)) /\ Whole(h, p)
  BY DEF Sound, Shaped
<1>2. \A n \in Chunks(h) : h.head[n].prev_foot = prev_foot(h, n)
  BY DEF Chunks, prev_foot, HeadOf
<1>3. HeadersAgree(h)
  <2>1. ASSUME NEW p \in Chunks(h) \ {h.top}
        PROVE  LET n == p + chunksize(h, p) IN
               /\ chunksize(h, p) > 0 /\ n \in Chunks(h)
               /\ pinuse(h, n) = cinuse(h, p)
               /\ ~cinuse(h, p) => h.head[n].prev_foot = chunksize(h, p)
               /\ \A q \in Chunks(h) : ~(p < q /\ q < n)
    <3>1. Tile(h, p)
      BY <1>1
    <3>2. QED
      BY <1>2, <3>1 DEF Tile
  <2>2. QED
    BY <1>1, <2>1, Zenon DEF HeadersAgree, TopEnds
<1>4. Coalesced(h)
  BY <1>1, ConstantsAre DEF Coalesced, Whole
<1>5. QED
  BY <1>3, <1>4

(* And so do the bins.                                                     *)
LEMMA SoundBinned ==
    ASSUME NEW h, Sound(h)
    PROVE  BinsExact(h)
<1> DEFINE G == Free(h) \ {h.dv}
<1>1. Shaped(h) /\ BinsAre(h, G) /\ DvIs(h)
  BY DEF Sound
<1>2. \A s \in Sizes : IsInjective(h.bins[s]) /\ ToSet(h.bins[s]) = OfSize(h, G, s)
  BY <1>1 DEF BinsAre, ListOf
<1>3. \A p \in G : chunksize(h, p) \in Sizes
  BY <1>1 DEF BinsAre
<1>4. Binned(h) = G
  <2>1. \A p : p \in Binned(h) <=> \E s \in Sizes : p \in ToSet(h.bins[s])
    BY DEF Binned
  <2>2. \A p : p \in Binned(h) <=> \E s \in Sizes : p \in G /\ chunksize(h, p) = s
    BY <1>2, <2>1 DEF OfSize
  <2> HIDE DEF G
  <2>3. QED
    BY <1>3, <2>2
<1>5. \A s \in Sizes : /\ IsInjective(h.bins[s])
                       /\ \A p \in ToSet(h.bins[s]) : p \in Chunks(h) /\ chunksize(h, p) = s
  <2>1. \A p \in G : p \in Chunks(h)
    BY DEF Free
  <2> HIDE DEF G
  <2>2. QED
    BY <1>2, <2>1 DEF OfSize
<1>6. /\ h.dv # NULL => h.dv \in Free(h)
      /\ h.dvsize # 0 => h.dv \in Free(h) /\ h.dvsize = chunksize(h, h.dv)
      /\ h.dv = NULL => h.dvsize = 0 /\ h.dv \notin Free(h)
      /\ h.dv \in Free(h) => h.dvsize = chunksize(h, h.dv)
  BY <1>1, DvIsFree
<1>7. Binned(h) \union ({h.dv} \ {NULL}) = {p \in Chunks(h) \ {h.top} : ~cinuse(h, p)}
  <2>1. Free(h) = {p \in Chunks(h) \ {h.top} : ~cinuse(h, p)}
    BY DEF Free
  <2>2. QED
    BY <1>4, <1>6, <2>1
<1>8. h.dv \notin Binned(h)
  BY <1>4
<1>9. h.dvsize = IF h.dv = NULL THEN 0 ELSE chunksize(h, h.dv)
  BY <1>6
<1>10. QED
  BY <1>5, <1>7, <1>8, <1>9 DEF BinsExact

(* What the type invariant says of a heap and its pointers.                *)
LEMMA OwnsTypes ==
    ASSUME NEW h, NEW pt, Owns(h, pt)
    PROVE  /\ h.topsize \in 1 .. HeapSize /\ h.dvsize \in 0 .. HeapSize
           /\ pt \in [Var -> 0 .. HeapSize]
<1>1. /\ Shaped(h) /\ DvIs(h) /\ h \in HeapRec /\ TopEnds(h) /\ pt \in [Var -> Nat]
      /\ \A v \in Var : pt[v] # NULL => Block(h, mem2chunk(pt[v]))
  BY DEF Owns, Sound, Shaped
<1>2. h.topsize \in 1 .. HeapSize
  BY <1>1, HeapIs, ConstantsAre DEF TopEnds
<1>3. h.dvsize \in 0 .. HeapSize
  <2>1. h.dv \in Free(h) => chunksize(h, h.dv) \in Sizes
    BY <1>1, FreeIs
  <2>2. QED
    BY <1>1, <2>1, ConstantsAre DEF DvIs
<1>4. ASSUME NEW v \in Var
      PROVE  pt[v] \in 0 .. HeapSize
  <2>1. pt[v] \in Nat
    BY <1>1
  <2>2. pt[v] # NULL => pt[v] - 1 \in Places
    BY <1>1, HeapIs DEF Block, Used, mem2chunk
  <2>3. QED
    BY <2>1, <2>2, ConstantsAre DEF Places
<1>5. QED
  BY <1>1, <1>2, <1>3, <1>4

-----------------------------------------------------------------------------
(* One PE at a time: what it holds, whatever the others do.                *)
Steps == {"heap", "barrier"}

(* A PE is in a barrier only when its call has come to one.                *)
Inside(p) == entered[p] = left[p] + 1 /\ todo[p] # << >> /\ Head(todo[p]) = "barrier"

TypeInv ==
    /\ heap \in [PE -> HeapRec] /\ ptr \in [PE -> [Var -> Nat]]
    /\ op \in [PE -> CallRec \union {NoCall}] /\ todo \in [PE -> Seq(Steps)]
    /\ \A p \in PE : op[p].seq \in 0 .. MaxCalls /\ (todo[p] # << >> => op[p] \in CallRec)
    /\ B!TypeOK /\ \A p \in PE : entered[p] = left[p] \/ Inside(p)
    /\ \A p \in PE : Owns(heap[p], ptr[p])

(* The calls of the program are calls.                                     *)
LEMMA CallsAre ==
    ASSUME NEW d \in Calls, NEW n \in Nat
    PROVE  /\ Numbered(d, n) \in CallRec /\ Numbered(d, n).seq = n
           /\ Numbered(d, n).name = d.name /\ Numbered(d, n).v = d.v
<1>1. d.name \in CallNames /\ d.v \in Var /\ d.bytes \in Nat /\ d.align \in AlignRange
  <2>1. Requests \subseteq Nat /\ Counts \subseteq Nat /\ Alignments \subseteq Nat
    BY HeapAssumption
  <2>2. CASE d \in [name : {"malloc", "realloc"}, v : Var, bytes : Requests, align : {1}]
    <3>1. d.name \in {"malloc", "realloc"} /\ d.v \in Var /\ d.bytes \in Requests /\ d.align = 1
      BY <2>2
    <3>2. d.bytes \in Nat
      BY <2>1, <3>1, Zenon
    <3>3. d.align \in AlignRange
      BY <3>1 DEF AlignRange
    <3>4. d.name \in CallNames
      BY <3>1, Zenon DEF CallNames
    <3>5. QED
      BY <3>1, <3>2, <3>3, <3>4, Zenon
  <2>3. CASE d \in [name : {"align"}, v : Var, bytes : Requests, align : Alignments]
    BY <2>1, <2>3 DEF CallNames, AlignRange
  <2>4. CASE d \in [name : {"calloc"}, v : Var, bytes : Counts, align : {1}]
    <3>1. d.name \in {"calloc"} /\ d.v \in Var /\ d.bytes \in Counts /\ d.align = 1
      BY <2>4
    <3>2. d.bytes \in Nat
      BY <2>1, <3>1, Zenon
    <3>3. d.align \in AlignRange
      BY <3>1 DEF AlignRange
    <3>4. d.name \in CallNames
      BY <3>1, Zenon DEF CallNames
    <3>5. QED
      BY <3>1, <3>2, <3>3, <3>4, Zenon
  <2>5. CASE d \in [name : {"free"}, v : Var, bytes : {0}, align : {1}]
    BY <2>5 DEF CallNames, AlignRange
  <2>6. CASE d \in [name : {"realloc"}, v : Var, bytes : {0}, align : {1}]
    BY <2>6 DEF CallNames, AlignRange
  <2>7. QED
    BY <2>2, <2>3, <2>4, <2>5, <2>6 DEF Calls
<1>2. QED
  BY <1>1 DEF Numbered, CallRec

(* The phases of a call are steps.                                         *)
LEMMA PhasesAre ==
    ASSUME NEW name
    PROVE  Phases(name) \in Seq(Steps)
<1>1. /\ <<"heap", "barrier">> \in Seq(Steps) /\ <<"barrier", "heap">> \in Seq(Steps)
      /\ <<"barrier", "heap", "barrier">> \in Seq(Steps)
  BY DEF Steps
<1>2. \/ Phases(name) = <<"heap", "barrier">> \/ Phases(name) = <<"barrier", "heap">>
      \/ Phases(name) = <<"barrier", "heap", "barrier">>
  <2>1. CASE name \in {"malloc", "calloc", "align"}
    BY <2>1, Zenon DEF Phases
  <2>2. CASE name \notin {"malloc", "calloc", "align"} /\ name = "free"
    BY <2>2, Zenon DEF Phases
  <2>3. CASE name \notin {"malloc", "calloc", "align"} /\ name # "free"
    BY <2>3, Zenon DEF Phases
  <2>4. QED
    BY <2>1, <2>2, <2>3, Zenon
<1>3. QED
  BY <1>1, <1>2, Zenon

(* A step on the heap is what a call makes of the heap and the pointers.   *)
LEMMA HeapStepIs ==
    ASSUME TypeInv, NEW p \in PE, HeapStep(p)
    PROVE  /\ op[p] \in CallRec /\ op[p].v \in Var
           /\ heap' = [heap EXCEPT ![p] = HeapAfter(heap[p], Base[p], ptr[p], op[p])]
           /\ ptr' = [ptr EXCEPT ![p] = PtrAfter(heap[p], Base[p], ptr[p], op[p])]
           /\ todo' = [todo EXCEPT ![p] = Tail(todo[p])]
           /\ UNCHANGED <<op, entered, left>>
           /\ todo[p] # << >> /\ Head(todo[p]) = "heap"
<1> DEFINE r == shmema(heap[p], Base[p], ptr[p][op[p].v], op[p])
<1>1. op[p] \in CallRec /\ op[p].v \in Var
  BY DEF TypeInv, HeapStep, CallRec
<1>2. /\ heap' = [heap EXCEPT ![p] = r.heap]
      /\ ptr' = [ptr EXCEPT ![p][op[p].v] =
             IF r.mem = NULL /\ op[p].name = "realloc" /\ op[p].bytes > 0 THEN @ ELSE r.mem]
  BY DEF HeapStep
<1> HIDE DEF r
<1>3. ptr' = [ptr EXCEPT ![p] = [ptr[p] EXCEPT ![op[p].v] =
             IF r.mem = NULL /\ op[p].name = "realloc" /\ op[p].bytes > 0
             THEN ptr[p][op[p].v] ELSE r.mem]]
  BY <1>2
<1>4. ptr' = [ptr EXCEPT ![p] = PtrAfter(heap[p], Base[p], ptr[p], op[p])]
  BY <1>3 DEF PtrAfter, r
<1>5. heap' = [heap EXCEPT ![p] = HeapAfter(heap[p], Base[p], ptr[p], op[p])]
  BY <1>2 DEF HeapAfter, r
<1>6. /\ todo' = [todo EXCEPT ![p] = Tail(todo[p])] /\ UNCHANGED <<op, entered, left>>
      /\ todo[p] # << >> /\ Head(todo[p]) = "heap"
  BY DEF HeapStep, barrierVars
<1>7. QED
  BY <1>1, <1>4, <1>5, <1>6

(* The call that a PE begins is one the program may make next.             *)
LEMMA CallIs ==
    ASSUME TypeInv, NEW p \in PE, NEW c, Chosen(p, c, op[p].seq + 1)
    PROVE  c \in CallRec /\ c.seq = op[p].seq + 1
<1> DEFINE n == op[p].seq + 1
<1>1. n \in Nat /\ n > 0
  BY HeapAssumption DEF TypeInv
<1> HIDE DEF n
<1>2. CASE \E q \in PE : op[q].seq = n
  <2>1. PICK q \in PE : op[q].seq = n /\ op[q] = c
    BY <1>2 DEF Chosen, n
  <2>2. op[q] \in CallRec \union {NoCall}
    BY DEF TypeInv
  <2>3. NoCall.seq = 0
    BY DEF NoCall
  <2>4. QED
    BY <1>1, <2>1, <2>2, <2>3 DEF n
<1>3. CASE ~\E q \in PE : op[q].seq = n
  <2>1. PICK d \in Calls : c = Numbered(d, n)
    BY <1>3 DEF Chosen, n
  <2>2. QED
    BY <1>1, <2>1, CallsAre DEF n
<1>4. QED
  BY <1>2, <1>3

(* The invariant of each PE holds at the start,                            *)
LEMMA TypeInit ==
    Init => TypeInv
<1> SUFFICES ASSUME Init
             PROVE  TypeInv
  OBVIOUS
<1>1. heap = [p \in PE |-> StartHeap] /\ ptr = [p \in PE |-> NoPtr]
  BY DEF Init, StartHeap, NoPtr
<1>2. Owns(StartHeap, NoPtr) /\ StartHeap \in HeapRec /\ NoPtr \in [Var -> Nat]
  BY StartOwns DEF Owns, Sound, Shaped
<1>3. op = [p \in PE |-> NoCall] /\ todo = [p \in PE |-> << >>] /\ B!TypeOK
      /\ \A p \in PE : entered[p] = left[p]
  BY DEF Init, B!Init, B!TypeOK
<1>4. << >> \in Seq(Steps) /\ NoCall.seq = 0
  BY DEF NoCall
<1>5. QED
  BY <1>1, <1>2, <1>3, <1>4, HeapAssumption DEF TypeInv

(* and every step keeps it.                                                *)
LEMMA TypeStep ==
    TypeInv /\ [Next]_vars => TypeInv'
<1> SUFFICES ASSUME TypeInv, [Next]_vars
             PROVE  TypeInv'
  OBVIOUS
<1> USE DEF TypeInv
<1>1. ASSUME NEW p \in PE, Call(p)
      PROVE  TypeInv'
  <2>1. PICK c : /\ Chosen(p, c, op[p].seq + 1) /\ op[p].seq < MaxCalls
                 /\ op' = [op EXCEPT ![p] = c]
                 /\ todo' = [todo EXCEPT ![p] = Phases(c.name)]
                 /\ UNCHANGED <<heap, ptr, entered, left>>
    BY <1>1 DEF Call, barrierVars
  <2>2. c \in CallRec /\ c.seq = op[p].seq + 1
    BY <2>1, CallIs
  <2>3. op[p].seq + 1 \in 0 .. MaxCalls
    BY <2>1, HeapAssumption
  <2>4. Phases(c.name) \in Seq(Steps)
    BY PhasesAre
  <2>5. op' \in [PE -> CallRec \union {NoCall}] /\ todo' \in [PE -> Seq(Steps)]
    BY <2>1, <2>2, <2>4
  <2>6. \A q \in PE : op'[q].seq \in 0 .. MaxCalls /\ (todo'[q] # << >> => op'[q] \in CallRec)
    BY <2>1, <2>2, <2>3
  <2>7. B!TypeOK'
    BY <2>1 DEF B!TypeOK
  <2>8. \A q \in PE : entered'[q] = left'[q] \/ Inside(q)'
    BY <1>1, <2>1 DEF Call, Inside
  <2>9. QED
    BY <2>1, <2>5, <2>6, <2>7, <2>8
<1>2. ASSUME NEW p \in PE, HeapStep(p)
      PROVE  TypeInv'
  <2>1. /\ op[p] \in CallRec /\ op[p].v \in Var
        /\ heap' = [heap EXCEPT ![p] = HeapAfter(heap[p], Base[p], ptr[p], op[p])]
        /\ ptr' = [ptr EXCEPT ![p] = PtrAfter(heap[p], Base[p], ptr[p], op[p])]
        /\ todo' = [todo EXCEPT ![p] = Tail(todo[p])]
        /\ UNCHANGED <<op, entered, left>>
        /\ todo[p] # << >> /\ Head(todo[p]) = "heap"
    BY <1>2, HeapStepIs
  <2>2. Owns(HeapAfter(heap[p], Base[p], ptr[p], op[p]), PtrAfter(heap[p], Base[p], ptr[p], op[p]))
    BY <2>1, CallOwns, HeapAssumption DEF TypeInv
  <2>3. /\ HeapAfter(heap[p], Base[p], ptr[p], op[p]) \in HeapRec
        /\ PtrAfter(heap[p], Base[p], ptr[p], op[p]) \in [Var -> Nat]
    BY <2>2 DEF Owns, Sound, Shaped
  <2>4. Tail(todo[p]) \in Seq(Steps)
    BY <2>1
  <2>5. B!TypeOK'
    BY <2>1 DEF B!TypeOK
  <2>6. \A q \in PE : entered'[q] = left'[q] \/ Inside(q)'
    BY <2>1 DEF Inside
  <2>7. QED
    BY <2>1, <2>2, <2>3, <2>4, <2>5, <2>6
<1>3. ASSUME NEW p \in PE, EnterBarrier(p)
      PROVE  TypeInv'
  <2>1. B!TypeOK'
    BY <1>3 DEF EnterBarrier, B!Enter, B!TypeOK
  <2>2. \A q \in PE : entered'[q] = left'[q] \/ Inside(q)'
    BY <1>3 DEF EnterBarrier, B!Enter, B!TypeOK, Inside
  <2>3. QED
    BY <1>3, <2>1, <2>2 DEF EnterBarrier
<1>4. ASSUME NEW p \in PE, LeaveBarrier(p)
      PROVE  TypeInv'
  <2>1. B!TypeOK'
    BY <1>4 DEF LeaveBarrier, B!Leave, B!TypeOK
  <2>2. todo' = [todo EXCEPT ![p] = Tail(todo[p])] /\ UNCHANGED <<heap, ptr, op>>
    BY <1>4 DEF LeaveBarrier
  <2>3. Inside(p) /\ left' = [left EXCEPT ![p] = left[p] + 1] /\ UNCHANGED entered
    BY <1>4 DEF LeaveBarrier, B!Leave, B!TypeOK, Inside
  <2>4. \A q \in PE : entered'[q] = left'[q] \/ Inside(q)'
    BY <2>2, <2>3 DEF B!TypeOK, Inside
  <2>5. todo' \in [PE -> Seq(Steps)]
    BY <2>2, <2>3 DEF Inside
  <2>6. QED
    BY <2>1, <2>2, <2>4, <2>5
<1>5. CASE UNCHANGED vars
  BY <1>5 DEF vars, barrierVars, B!TypeOK, Inside
<1>6. QED
  BY <1>1, <1>2, <1>3, <1>4, <1>5 DEF Next, Finished


(* At every step the types are those of TypeOK, so no size of a heap and   *)
(* no pointer leaves the segment.                                          *)
THEOREM HeapTypes == Spec => []TypeOK
<1>1. ASSUME TypeInv
      PROVE  TypeOK
  <2>1. \A p \in PE : /\ heap[p].topsize \in 1 .. HeapSize /\ heap[p].dvsize \in 0 .. HeapSize
                     /\ ptr[p] \in [Var -> 0 .. HeapSize]
    BY <1>1, OwnsTypes DEF TypeInv
  <2>2. QED
    BY <1>1, <2>1 DEF TypeInv, TypeOK, Steps
<1>2. QED
  BY <1>1, TypeInit, TypeStep, PTL DEF Spec

(* No call of any PE ever leaves a heap that the assertions of dlmalloc's  *)
(* debugging build would refuse: whatever is allocated, resized, aligned   *)
(* and freed in whatever order, the chunks tile the segment, headers and   *)
(* feet agree, and free neighbours have been merged.                       *)
THEOREM HeapStaysSound == Spec => []HeapSound
<1>1. ASSUME TypeInv
      PROVE  HeapSound
  BY <1>1, SoundAgrees DEF TypeInv, Owns, HeapSound
<1>2. QED
  BY <1>1, TypeInit, TypeStep, PTL DEF Spec

(* No free chunk is ever lost or listed twice.                             *)
THEOREM ChunksBinned == Spec => []FreeChunksBinned
<1>1. ASSUME TypeInv
      PROVE  FreeChunksBinned
  BY <1>1, SoundBinned DEF TypeInv, Owns, FreeChunksBinned
<1>2. QED
  BY <1>1, TypeInit, TypeStep, PTL DEF Spec

-----------------------------------------------------------------------------
(* All PEs together.  The calls of the program are numbered, and a history *)
(* has what each of them is and what it leaves: the heap, the pointers and *)
(* how many barriers the calls up to it have.  Every PE is somewhere in    *)
(* that history.                                                           *)
AllocTodo == <<"heap", "barrier">>
FreeTodo == <<"barrier", "heap">>
ReallocTodo == <<"barrier", "heap", "barrier">>
HeapTodo == <<"heap">>
BarrierTodo == <<"barrier">>

(* What can be left of a call.                                             *)
Rests(name) ==
    CASE name \in {"malloc", "calloc", "align"} -> {AllocTodo, BarrierTodo, << >>}
      [] name = "free" -> {FreeTodo, HeapTodo, << >>}
      [] OTHER -> {ReallocTodo, AllocTodo, BarrierTodo, << >>}

(* Whether the call has yet to be made on the heap, and how many barriers  *)
(* it has yet to go through.                                               *)
Pending(t) == IF t \in {AllocTodo, FreeTodo, ReallocTodo, HeapTodo} THEN 1 ELSE 0
Barriers(t) ==
    CASE t = ReallocTodo -> 2
      [] t \in {AllocTodo, FreeTodo, BarrierTodo} -> 1
      [] OTHER -> 0

(* What is left of a call, told apart, and what each of them begins with.  *)
LEMMA TodosAre ==
    /\ Head(AllocTodo) = "heap" /\ Tail(AllocTodo) = BarrierTodo
    /\ Head(FreeTodo) = "barrier" /\ Tail(FreeTodo) = HeapTodo
    /\ Head(ReallocTodo) = "barrier" /\ Tail(ReallocTodo) = AllocTodo
    /\ Head(HeapTodo) = "heap" /\ Tail(HeapTodo) = << >>
    /\ Head(BarrierTodo) = "barrier" /\ Tail(BarrierTodo) = << >>
    /\ AllocTodo # FreeTodo /\ AllocTodo # ReallocTodo /\ AllocTodo # HeapTodo
    /\ AllocTodo # BarrierTodo /\ AllocTodo # << >>
    /\ FreeTodo # ReallocTodo /\ FreeTodo # HeapTodo /\ FreeTodo # BarrierTodo
    /\ FreeTodo # << >>
    /\ ReallocTodo # HeapTodo /\ ReallocTodo # BarrierTodo /\ ReallocTodo # << >>
    /\ HeapTodo # BarrierTodo /\ HeapTodo # << >> /\ BarrierTodo # << >>
    /\ "heap" # "barrier"
<1>1. /\ Len(AllocTodo) = 2 /\ Len(FreeTodo) = 2 /\ Len(ReallocTodo) = 3
      /\ Len(HeapTodo) = 1 /\ Len(BarrierTodo) = 1 /\ Len(<< >>) = 0
  BY DEF AllocTodo, FreeTodo, ReallocTodo, HeapTodo, BarrierTodo
<1>2. /\ Head(AllocTodo) = "heap" /\ Head(FreeTodo) = "barrier" /\ Head(ReallocTodo) = "barrier"
      /\ Head(HeapTodo) = "heap" /\ Head(BarrierTodo) = "barrier"
  BY DEF AllocTodo, FreeTodo, ReallocTodo, HeapTodo, BarrierTodo
<1>3. Tail(AllocTodo) = BarrierTodo
  BY DEF AllocTodo, BarrierTodo
<1>4. Tail(FreeTodo) = HeapTodo
  BY DEF FreeTodo, HeapTodo
<1>5. Tail(ReallocTodo) = AllocTodo
  BY DEF ReallocTodo, AllocTodo
<1>6. Tail(HeapTodo) = << >> /\ Tail(BarrierTodo) = << >>
  BY DEF HeapTodo, BarrierTodo
<1>7. "heap" # "barrier"
  OBVIOUS
<1>8. /\ AllocTodo # FreeTodo /\ HeapTodo # BarrierTodo
  BY <1>2, <1>7, Zenon
<1>9. /\ AllocTodo # ReallocTodo /\ AllocTodo # HeapTodo /\ AllocTodo # BarrierTodo
      /\ AllocTodo # << >>
  BY <1>1
<1>10. /\ FreeTodo # ReallocTodo /\ FreeTodo # HeapTodo /\ FreeTodo # BarrierTodo
       /\ FreeTodo # << >>
  <2>1. FreeTodo # ReallocTodo
    BY <1>1
  <2>2. FreeTodo # HeapTodo /\ FreeTodo # BarrierTodo
    BY <1>1
  <2>3. FreeTodo # << >>
    BY <1>1
  <2>4. QED
    BY <2>1, <2>2, <2>3, Zenon
<1>11. /\ ReallocTodo # HeapTodo /\ ReallocTodo # BarrierTodo /\ ReallocTodo # << >>
       /\ HeapTodo # << >> /\ BarrierTodo # << >>
  BY <1>1
<1>12. QED
  BY <1>2, <1>3, <1>4, <1>5, <1>6, <1>7, <1>8, <1>9, <1>10, <1>11, Zenon

(* Three kinds of calls: those that allocate, free, and realloc.           *)
LEMMA NamesAre ==
    ASSUME NEW name
    PROVE  \/ name # "free" /\ Rests(name) = {AllocTodo, BarrierTodo, << >>}
              /\ Phases(name) = AllocTodo /\ name # "realloc"
           \/ name = "free" /\ Rests(name) = {FreeTodo, HeapTodo, << >>}
              /\ Phases(name) = FreeTodo
           \/ name # "free" /\ Rests(name) = {ReallocTodo, AllocTodo, BarrierTodo, << >>}
              /\ Phases(name) = ReallocTodo
<1>1. CASE name \in {"malloc", "calloc", "align"}
  <2>1. Phases(name) = AllocTodo
    BY <1>1, Zenon DEF Phases, AllocTodo
  <2>2. Rests(name) = {AllocTodo, BarrierTodo, << >>}
    BY <1>1, Zenon DEF Rests
  <2>3. name # "free" /\ name # "realloc"
    BY <1>1
  <2>4. QED
    BY <2>1, <2>2, <2>3, Zenon
<1>2. CASE name \notin {"malloc", "calloc", "align"} /\ name = "free"
  <2>1. Phases(name) = FreeTodo
    BY <1>2, Zenon DEF Phases, FreeTodo
  <2>2. Rests(name) = {FreeTodo, HeapTodo, << >>}
    BY <1>2, Zenon DEF Rests
  <2>3. QED
    BY <1>2, <2>1, <2>2, Zenon
<1>3. CASE name \notin {"malloc", "calloc", "align"} /\ name # "free"
  <2>1. Phases(name) = ReallocTodo
    BY <1>3, Zenon DEF Phases, ReallocTodo
  <2>2. Rests(name) = {ReallocTodo, AllocTodo, BarrierTodo, << >>}
    BY <1>3, Zenon DEF Rests
  <2>3. QED
    BY <1>3, <2>1, <2>2, Zenon
<1>4. QED
  BY <1>1, <1>2, <1>3, Zenon

(* The books of every rest.                                                *)
LEMMA CountsAre ==
    /\ Pending(AllocTodo) = 1 /\ Barriers(AllocTodo) = 1
    /\ Pending(FreeTodo) = 1 /\ Barriers(FreeTodo) = 1
    /\ Pending(ReallocTodo) = 1 /\ Barriers(ReallocTodo) = 2
    /\ Pending(HeapTodo) = 1 /\ Barriers(HeapTodo) = 0
    /\ Pending(BarrierTodo) = 0 /\ Barriers(BarrierTodo) = 1
    /\ Pending(<< >>) = 0 /\ Barriers(<< >>) = 0
<1>1. \A t : t # ReallocTodo /\ t \in {AllocTodo, FreeTodo, BarrierTodo} => Barriers(t) = 1
  BY DEF Barriers
<1>2. \A t : t # ReallocTodo /\ t \notin {AllocTodo, FreeTodo, BarrierTodo} => Barriers(t) = 0
  BY DEF Barriers
<1>3. Barriers(ReallocTodo) = 2
  BY TodosAre DEF Barriers
<1>4. /\ Pending(AllocTodo) = 1 /\ Pending(FreeTodo) = 1 /\ Pending(ReallocTodo) = 1
      /\ Pending(HeapTodo) = 1
  BY DEF Pending
<1>5. Pending(BarrierTodo) = 0 /\ Pending(<< >>) = 0
  BY TodosAre, Zenon DEF Pending
<1>6. Barriers(AllocTodo) = 1 /\ Barriers(FreeTodo) = 1 /\ Barriers(BarrierTodo) = 1
  BY <1>1, TodosAre, Zenon
<1>7. Barriers(HeapTodo) = 0 /\ Barriers(<< >>) = 0
  BY <1>2, TodosAre, Zenon
<1>8. QED
  BY <1>3, <1>4, <1>5, <1>6, <1>7, Zenon

(* A call starts with all of its phases.                                   *)
LEMMA PhasesRest ==
    ASSUME NEW name
    PROVE  /\ Phases(name) \in Rests(name) /\ Phases(name) # << >>
           /\ Pending(Phases(name)) = 1 /\ Barriers(Phases(name)) \in {1, 2}
BY NamesAre, CountsAre, TodosAre

(* A step takes one phase away.                                            *)
LEMMA RestStep ==
    ASSUME NEW name, NEW t \in Rests(name), t # << >>
    PROVE  /\ Tail(t) \in Rests(name) /\ Head(t) \in {"heap", "barrier"}
           /\ Head(t) = "heap" => /\ Pending(t) = 1 /\ Pending(Tail(t)) = 0
                                  /\ Barriers(Tail(t)) = Barriers(t)
           /\ Head(t) = "barrier" => /\ Pending(Tail(t)) = Pending(t)
                                     /\ Barriers(t) = Barriers(Tail(t)) + 1
<1>1. t \in {AllocTodo, FreeTodo, ReallocTodo, HeapTodo, BarrierTodo}
  BY NamesAre
<1>2. Tail(t) \in Rests(name)
  BY NamesAre, TodosAre, ZenonT(60)
<1>3. CASE t = AllocTodo
  <2>1. Head(t) = "heap" /\ Tail(t) = BarrierTodo
    BY <1>3, TodosAre, Zenon
  <2>2. Pending(t) = 1 /\ Barriers(t) = 1 /\ Pending(Tail(t)) = 0 /\ Barriers(Tail(t)) = 1
    BY <1>3, <2>1, CountsAre, Zenon
  <2>3. QED
    BY <1>2, <2>1, <2>2
<1>4. CASE t = FreeTodo
  <2>1. Head(t) = "barrier" /\ Tail(t) = HeapTodo
    BY <1>4, TodosAre, Zenon
  <2>2. Pending(t) = 1 /\ Barriers(t) = 1 /\ Pending(Tail(t)) = 1 /\ Barriers(Tail(t)) = 0
    BY <1>4, <2>1, CountsAre, Zenon
  <2>3. QED
    BY <1>2, <2>1, <2>2
<1>5. CASE t = ReallocTodo
  <2>1. Head(t) = "barrier" /\ Tail(t) = AllocTodo
    BY <1>5, TodosAre, Zenon
  <2>2. Pending(t) = 1 /\ Barriers(t) = 2 /\ Pending(Tail(t)) = 1 /\ Barriers(Tail(t)) = 1
    BY <1>5, <2>1, CountsAre, Zenon
  <2>3. QED
    BY <1>2, <2>1, <2>2
<1>6. CASE t = HeapTodo
  <2>1. Head(t) = "heap" /\ Tail(t) = << >>
    BY <1>6, TodosAre, Zenon
  <2>2. Pending(t) = 1 /\ Barriers(t) = 0 /\ Pending(Tail(t)) = 0 /\ Barriers(Tail(t)) = 0
    BY <1>6, <2>1, CountsAre, Zenon
  <2>3. QED
    BY <1>2, <2>1, <2>2
<1>7. CASE t = BarrierTodo
  <2>1. Head(t) = "barrier" /\ Tail(t) = << >>
    BY <1>7, TodosAre, Zenon
  <2>2. Pending(t) = 0 /\ Barriers(t) = 1 /\ Pending(Tail(t)) = 0 /\ Barriers(Tail(t)) = 0
    BY <1>7, <2>1, CountsAre, Zenon
  <2>3. QED
    BY <1>2, <2>1, <2>2
<1>8. QED
  BY <1>1, <1>3, <1>4, <1>5, <1>6, <1>7, Zenon

(* A call that does not free has a barrier behind; one that needs a        *)
(* pointer has a barrier before.                                           *)
LEMMA RestIs ==
    ASSUME NEW name, NEW t \in Rests(name)
    PROVE  /\ Pending(t) \in {0, 1} /\ Barriers(t) \in 0 .. Barriers(Phases(name))
           /\ Barriers(Phases(name)) \in {1, 2}
           /\ t = << >> => Pending(t) = 0 /\ Barriers(t) = 0
           /\ t # << >> /\ Head(t) = "barrier" => Barriers(t) >= 1
           /\ Pending(t) = 1 /\ name # "free" =>
                /\ t # << >> /\ Barriers(t) >= 1
                /\ Head(t) = "barrier" => Barriers(t) = 2
           /\ Pending(t) = 1 => t # << >>
           /\ Pending(t) = 0 /\ name \in {"free", "realloc"} =>
                Barriers(t) + 1 <= Barriers(Phases(name))
<1>1. t \in {AllocTodo, FreeTodo, ReallocTodo, HeapTodo, BarrierTodo, << >>}
  BY NamesAre
<1>2. Barriers(t) \in 0 .. 2 /\ Pending(t) \in {0, 1}
  BY <1>1, CountsAre
<1>3. CASE Phases(name) = AllocTodo /\ Rests(name) = {AllocTodo, BarrierTodo, << >>}
           /\ name # "free" /\ name # "realloc"
  BY <1>3, CountsAre, TodosAre
<1>4. CASE Phases(name) = FreeTodo /\ Rests(name) = {FreeTodo, HeapTodo, << >>}
           /\ name = "free"
  BY <1>4, CountsAre, TodosAre
<1>5. CASE Phases(name) = ReallocTodo
           /\ Rests(name) = {ReallocTodo, AllocTodo, BarrierTodo, << >>} /\ name # "free"
  <2>1. CASE t = ReallocTodo
    BY <1>5, <2>1, CountsAre, TodosAre
  <2>2. CASE t = AllocTodo
    BY <1>5, <2>2, CountsAre, TodosAre
  <2>3. CASE t = BarrierTodo
    BY <1>5, <2>3, CountsAre, TodosAre
  <2>4. CASE t = << >>
    BY <1>5, <2>4, CountsAre, TodosAre
  <2>5. QED
    BY <1>5, <2>1, <2>2, <2>3, <2>4, Zenon
<1>6. QED
  BY <1>3, <1>4, <1>5, NamesAre, Zenon

(* Only free and realloc are about a pointer that the program has.         *)
Suits(c, pt) == pt[c.v] # NULL => c.name \in {"free", "realloc"}

Untouched(X, v, i, j) == \A k \in i + 1 .. j : X[k].call.v # v
Unmoved(X, v, i, j) == SameBlock(X[i].heap, X[i].ptr, X[j].heap, X[j].ptr, v)

(* The history is that of the heap of some PE: where the bases agree, a    *)
(* call does the same on all of them.                                      *)
Home == Base[CHOOSE p \in PE : TRUE]

(* That PE is one of them.                                                 *)
LEMMA HomeIs ==
    Home \in Nat /\ \E p \in PE : Home = Base[p]
<1>1. (CHOOSE p \in PE : TRUE) \in PE
  BY HeapAssumption
<1>2. QED
  BY <1>1, HeapAssumption DEF Home

(* X[n] has the n-th call, and what there is after it.                     *)
Follows(X, n) ==
    /\ X[n].call \in CallRec /\ X[n].call.seq = n /\ Suits(X[n].call, X[n - 1].ptr)
    /\ X[n].heap = HeapAfter(X[n - 1].heap, Home, X[n - 1].ptr, X[n].call)
    /\ X[n].ptr = PtrAfter(X[n - 1].heap, Home, X[n - 1].ptr, X[n].call)
    /\ X[n].bars = X[n - 1].bars + Barriers(Phases(X[n].call.name))

Past(X, M) ==
    /\ \A n \in 1 .. M : Follows(X, n)
    /\ \A n \in 0 .. M : X[n].bars \in Nat /\ Owns(X[n].heap, X[n].ptr)
    /\ \A i, j \in 0 .. M : i < j => X[i].bars < X[j].bars
    /\ \A i, j \in 0 .. M, v \in Var : i <= j /\ Untouched(X, v, i, j) => Unmoved(X, v, i, j)

Done(p) == op[p].seq - Pending(todo[p])

(* Where a PE is in the history.                                           *)
At(X, M, p) ==
    /\ op[p].seq <= M
    /\ IF op[p].seq = 0 THEN todo[p] = << >> ELSE op[p] = X[op[p].seq].call
    /\ todo[p] \in Rests(op[p].name)
    /\ heap[p] = X[Done(p)].heap /\ ptr[p] = X[Done(p)].ptr
    /\ left[p] + Barriers(todo[p]) = X[op[p].seq].bars

HistoryInv ==
    /\ TypeInv /\ B!InStep
    /\ \E M \in Nat : \E X : /\ Past(X, M) /\ \A p \in PE : At(X, M, p)
                             /\ \E p \in PE : op[p].seq = M

(* The history with the next call.                                         *)
Longer(X, M, c) ==
    [n \in Nat |-> IF n = M + 1
        THEN [call |-> c, heap |-> HeapAfter(X[M].heap, Home, X[M].ptr, c),
              ptr |-> PtrAfter(X[M].heap, Home, X[M].ptr, c),
              bars |-> X[M].bars + Barriers(Phases(c.name))]
        ELSE X[n]]

(* The history goes on with any call that suits the pointers.              *)
LEMMA PastGrows ==
    ASSUME NEW M \in Nat, NEW X, Past(X, M), NEW c \in CallRec, c.seq = M + 1,
           Suits(c, X[M].ptr)
    PROVE  /\ Past(Longer(X, M, c), M + 1)
           /\ \A n \in 0 .. M : Longer(X, M, c)[n] = X[n]
           /\ Longer(X, M, c)[M + 1].call = c
<1> DEFINE Y == Longer(X, M, c)
<1>1. /\ \A n \in 0 .. M : Y[n] = X[n]
      /\ Y[M + 1].call = c
      /\ Y[M + 1].heap = HeapAfter(X[M].heap, Home, X[M].ptr, c)
      /\ Y[M + 1].ptr = PtrAfter(X[M].heap, Home, X[M].ptr, c)
      /\ Y[M + 1].bars = X[M].bars + Barriers(Phases(c.name))
  <2>1. \A n \in 0 .. M : n \in Nat /\ n # M + 1
    OBVIOUS
  <2>2. M + 1 \in Nat
    OBVIOUS
  <2>3. Y[M + 1] = [call |-> c, heap |-> HeapAfter(X[M].heap, Home, X[M].ptr, c),
              ptr |-> PtrAfter(X[M].heap, Home, X[M].ptr, c),
              bars |-> X[M].bars + Barriers(Phases(c.name))]
    BY <2>2, Zenon DEF Longer
  <2>4. \A n \in 0 .. M : Y[n] = X[n]
    BY <2>1, Zenon DEF Longer
  <2> HIDE DEF Y
  <2>5. QED
    BY <2>3, <2>4
<1> HIDE DEF Y
<1>2. /\ M \in 0 .. M /\ \A n \in 0 .. M + 1 : n \in 0 .. M \/ n = M + 1
      /\ \A n \in 1 .. M + 1 : n \in 1 .. M \/ n = M + 1
      /\ \A n \in 1 .. M : n \in 0 .. M /\ n - 1 \in 0 .. M
  OBVIOUS
<1>3. X[M].bars \in Nat /\ Owns(X[M].heap, X[M].ptr)
  BY <1>2 DEF Past
<1>4. \A n \in 1 .. M + 1 : Follows(Y, n)
  <2>1. ASSUME NEW n \in 1 .. M
        PROVE  Follows(Y, n)
    <3>1. Y[n] = X[n] /\ Y[n - 1] = X[n - 1] /\ Follows(X, n)
      BY <1>1, <1>2 DEF Past
    <3>2. QED
      BY <3>1, Zenon DEF Follows
  <2>2. Follows(Y, M + 1)
    <3>1. (M + 1) - 1 = M /\ Y[M] = X[M]
      BY <1>1, <1>2
    <3>2. QED
      BY <1>1, <3>1, Zenon DEF Follows
  <2>3. QED
    BY <1>2, <2>1, <2>2, Zenon
<1>5. Barriers(Phases(c.name)) \in {1, 2}
  BY PhasesRest
<1>6. Y[M + 1].bars \in Nat /\ Y[M + 1].bars > X[M].bars
  BY <1>1, <1>3, <1>5
<1>7. /\ Owns(Y[M + 1].heap, Y[M + 1].ptr)
      /\ \A v \in Var : v # c.v => SameBlock(X[M].heap, X[M].ptr, Y[M + 1].heap, Y[M + 1].ptr, v)
  BY <1>1, <1>3, HomeIs, CallOwns
<1>8. \A n \in 0 .. M + 1 : Y[n].bars \in Nat /\ Owns(Y[n].heap, Y[n].ptr)
  <2>1. \A n \in 0 .. M : Y[n].bars \in Nat /\ Owns(Y[n].heap, Y[n].ptr)
    BY <1>1, Zenon DEF Past
  <2>2. QED
    BY <1>2, <1>6, <1>7, <2>1, Zenon
<1>9. ASSUME NEW i \in 0 .. M + 1, NEW j \in 0 .. M + 1, i < j
      PROVE  Y[i].bars < Y[j].bars
  <2>1. i \in 0 .. M
    BY <1>9
  <2>2. CASE j \in 0 .. M
    BY <1>1, <1>9, <2>1, <2>2, Zenon DEF Past
  <2>3. CASE j = M + 1
    <3>1. i = M \/ i < M
      BY <2>1
    <3>2. X[i].bars <= X[M].bars /\ X[i].bars \in Nat
      BY <1>2, <1>3, <2>1, <3>1 DEF Past
    <3>3. Y[i].bars = X[i].bars
      BY <1>1, <2>1
    <3>4. QED
      BY <1>3, <1>6, <2>3, <3>2, <3>3
  <2>4. QED
    BY <1>2, <2>2, <2>3
<1>10. ASSUME NEW i \in 0 .. M + 1, NEW j \in 0 .. M + 1, NEW v \in Var, i <= j,
              Untouched(Y, v, i, j)
       PROVE  Unmoved(Y, v, i, j)
  <2>1. CASE i = j
    BY <2>1 DEF Unmoved, SameBlock
  <2>2. CASE i # j
    <3>1. i \in 0 .. M
      BY <1>10, <2>2
    <3>2. ASSUME NEW k \in 0 .. M, i <= k, k <= j
          PROVE  Unmoved(Y, v, i, k)
      <4>1. Untouched(X, v, i, k)
        <5>1. ASSUME NEW m \in i + 1 .. k
              PROVE  X[m].call.v # v
          <6>1. m \in 0 .. M /\ m \in i + 1 .. j
            BY <3>1, <3>2
          <6>2. QED
            BY <1>1, <1>10, <6>1 DEF Untouched
        <5>2. QED
          BY <5>1 DEF Untouched
      <4>2. Unmoved(X, v, i, k)
        BY <3>1, <3>2, <4>1 DEF Past
      <4>3. QED
        BY <1>1, <3>1, <4>2 DEF Unmoved
    <3>3. CASE j \in 0 .. M
      BY <1>10, <3>2, <3>3
    <3>4. CASE j = M + 1
      <4>1. i <= M /\ M <= j /\ M + 1 \in i + 1 .. j
        BY <3>1, <3>4
      <4>2. Unmoved(Y, v, i, M)
        BY <1>2, <3>2, <4>1
      <4>3. c.v # v
        BY <1>1, <1>10, <4>1 DEF Untouched
      <4>4. Unmoved(Y, v, M, M + 1)
        BY <1>1, <1>2, <1>7, <4>3 DEF Unmoved
      <4>5. QED
        BY <3>4, <4>2, <4>4 DEF Unmoved, SameBlock
    <3>5. QED
      BY <1>2, <3>3, <3>4
  <2>3. QED
    BY <2>1, <2>2
<1>11. Past(Y, M + 1)
  BY <1>4, <1>8, <1>9, <1>10 DEF Past
<1>12. QED
  BY <1>1, <1>11 DEF Y

(* A PE has left the barriers of every call before its own, and it has     *)
(* entered none of a later one.                                            *)
LEMMA WhereIs ==
    ASSUME TypeInv, NEW M \in Nat, NEW X, Past(X, M), NEW p \in PE, At(X, M, p)
    PROVE  /\ op[p].seq \in 0 .. M /\ left[p] \in Nat /\ entered[p] \in Nat
           /\ Pending(todo[p]) \in {0, 1} /\ Done(p) \in 0 .. M
           /\ Pending(todo[p]) = 1 => op[p].seq > 0
           /\ op[p].seq = Done(p) + Pending(todo[p])
           /\ entered[p] <= X[op[p].seq].bars
           /\ \A k \in op[p].seq .. M : entered[p] <= X[k].bars
           /\ \A k \in 0 .. M : k < op[p].seq => X[k].bars <= left[p]
<1> DEFINE n == op[p].seq
           t == todo[p]
<1>1. n \in 0 .. M /\ n \in Nat /\ left[p] \in Nat /\ entered[p] \in Nat
  BY HeapAssumption DEF TypeInv, At, B!TypeOK
<1>2. t \in Rests(op[p].name) /\ left[p] + Barriers(t) = X[n].bars
      /\ (n = 0 => t = << >>) /\ (n # 0 => op[p] = X[n].call)
  BY DEF At
<1>3. /\ Pending(t) \in {0, 1} /\ Barriers(t) \in 0 .. Barriers(Phases(op[p].name))
      /\ t = << >> => Pending(t) = 0 /\ Barriers(t) = 0
      /\ t # << >> /\ Head(t) = "barrier" => Barriers(t) >= 1
      /\ Barriers(Phases(op[p].name)) \in {1, 2}
  BY <1>2, RestIs
<1>4. Pending(t) = 1 => n > 0
  BY <1>1, <1>2, <1>3
<1>5. Done(p) = n - Pending(t)
  BY DEF Done
<1>6. X[n].bars \in Nat
  BY <1>1 DEF Past
<1>7. entered[p] <= X[n].bars
  <2>1. entered[p] = left[p] \/ Inside(p)
    BY DEF TypeInv
  <2>2. Barriers(t) \in Nat
    BY <1>3
  <2>3. CASE entered[p] = left[p]
    BY <1>1, <1>2, <1>6, <2>2, <2>3
  <2>4. CASE Inside(p)
    <3>1. entered[p] = left[p] + 1 /\ Barriers(t) >= 1
      BY <1>3, <2>4 DEF Inside
    <3>2. QED
      BY <1>1, <1>2, <1>6, <2>2, <3>1
  <2>5. QED
    BY <2>1, <2>3, <2>4
<1>8. ASSUME NEW k \in n .. M
      PROVE  entered[p] <= X[k].bars
  <2>1. k = n \/ n < k
    BY <1>1
  <2>2. k \in 0 .. M
    BY <1>1
  <2>3. X[n].bars <= X[k].bars /\ X[k].bars \in Nat
    BY <1>1, <1>6, <2>1, <2>2 DEF Past
  <2>4. QED
    BY <1>1, <1>6, <1>7, <2>3
<1>9. ASSUME NEW k \in 0 .. M, k < n
      PROVE  X[k].bars <= left[p]
  <2>1. n \in 1 .. M /\ n - 1 \in 0 .. M /\ (k = n - 1 \/ k < n - 1)
    BY <1>1, <1>9
  <2>2. X[n].bars = X[n - 1].bars + Barriers(Phases(op[p].name))
    BY <1>2, <2>1 DEF Past, Follows
  <2>3. X[n - 1].bars \in Nat /\ X[k].bars \in Nat /\ X[k].bars <= X[n - 1].bars
    BY <2>1 DEF Past
  <2>4. X[n - 1].bars <= left[p]
    <3>1. \A a, b, l, x \in Nat : l + b = x + a /\ b <= a => x <= l
      OBVIOUS
    <3>2. /\ Barriers(Phases(op[p].name)) \in Nat /\ Barriers(t) \in Nat
          /\ Barriers(t) <= Barriers(Phases(op[p].name))
      BY <1>3
    <3>3. left[p] + Barriers(t) = X[n - 1].bars + Barriers(Phases(op[p].name))
      BY <1>2, <2>2
    <3> HIDE DEF n, t
    <3>4. QED
      BY <1>1, <2>3, <3>1, <3>2, <3>3
  <2>5. QED
    BY <1>1, <2>3, <2>4
<1>10. QED
  BY <1>1, <1>3, <1>4, <1>5, <1>7, <1>8, <1>9

(* No PE is more than a call ahead of another.                             *)
LEMMA NoneSkipped ==
    ASSUME TypeInv, B!InStep, NEW M \in Nat, NEW X, Past(X, M), NEW p \in PE, NEW q \in PE,
           At(X, M, p), At(X, M, q)
    PROVE  op[q].seq <= op[p].seq + 1
<1>1. SUFFICES ASSUME op[q].seq > op[p].seq + 1
               PROVE  FALSE
  BY WhereIs
<1> DEFINE n == op[p].seq
           m == op[q].seq
<1>2. n \in 0 .. M /\ m \in 0 .. M /\ n < m - 1 /\ m - 1 \in 0 .. M /\ m - 1 < m
  BY <1>1, WhereIs
<1>3. X[m - 1].bars <= left[q] /\ left[q] \in Nat
  BY <1>2, WhereIs
<1>4. entered[p] <= X[n].bars /\ entered[p] \in Nat
  BY WhereIs
<1>5. X[n].bars < X[m - 1].bars /\ X[n].bars \in Nat /\ X[m - 1].bars \in Nat
  BY <1>2 DEF Past
<1>6. left[q] <= entered[p]
  BY DEF B!InStep
<1>7. QED
  BY <1>3, <1>4, <1>5, <1>6

(* Who takes no step stays where it is, in a longer history too.           *)
LEMMA AtStays ==
    ASSUME TypeInv, NEW M \in Nat, NEW X, Past(X, M), NEW N \in Nat, N >= M, NEW Y,
           \A n \in 0 .. M : Y[n] = X[n], NEW p \in PE, At(X, M, p)
    PROVE  At(Y, N, p)
<1>1. op[p].seq \in 0 .. M /\ Done(p) \in 0 .. M
  BY WhereIs
<1>2. Y[op[p].seq] = X[op[p].seq] /\ Y[Done(p)] = X[Done(p)]
  BY <1>1
<1>3. op[p].seq <= N
  BY <1>1
<1>4. QED
  BY <1>2, <1>3 DEF At

(* The PE begins the next call of the history.                             *)
LEMMA CallAt ==
    ASSUME TypeInv, NEW M \in Nat, NEW X, Past(X, M), NEW p \in PE, At(X, M, p),
           todo[p] = << >>, NEW c, op[p].seq + 1 <= M, X[op[p].seq + 1].call = c,
           op' = [op EXCEPT ![p] = c], todo' = [todo EXCEPT ![p] = Phases(c.name)],
           UNCHANGED <<heap, ptr, entered, left>>
    PROVE  At(X, M, p)'
<1> DEFINE n == op[p].seq + 1
<1>1. /\ op[p].seq \in Nat /\ left[p] \in Nat /\ n \in 1 .. M /\ n - 1 = op[p].seq
      /\ n - 1 \in 0 .. M
  BY WhereIs
<1>2. Follows(X, n) /\ X[n - 1].bars \in Nat
  BY <1>1 DEF Past
<1>3. op'[p] = c /\ todo'[p] = Phases(c.name) /\ c.seq = n
  <2>1. op \in [PE -> CallRec \union {NoCall}] /\ todo \in [PE -> Seq(Steps)]
    BY DEF TypeInv
  <2>2. op'[p] = c /\ todo'[p] = Phases(c.name)
    BY <2>1, Zenon
  <2>3. QED
    BY <1>2, <2>2 DEF Follows
<1>4. /\ Pending(todo[p]) = 0 /\ Barriers(todo[p]) = 0
      /\ left[p] + Barriers(todo[p]) = X[n - 1].bars
      /\ heap[p] = X[Done(p)].heap /\ ptr[p] = X[Done(p)].ptr
  BY <1>1, CountsAre DEF At
<1>5. Done(p) = n - 1
  BY <1>1, <1>4 DEF Done
<1>6. Phases(c.name) \in Rests(c.name) /\ Pending(Phases(c.name)) = 1
      /\ Barriers(Phases(c.name)) \in {1, 2}
  BY PhasesRest
<1>7. Done(p)' = n - 1
  BY <1>3, <1>6 DEF Done
<1>8. left[p] + Barriers(Phases(c.name)) = X[n].bars
  BY <1>1, <1>2, <1>4, <1>6 DEF Follows
<1>9. op'[p].seq = n /\ op'[p] = X[op'[p].seq].call
  BY <1>3
<1>10. /\ op'[p].seq <= M /\ op'[p].seq # 0
  BY <1>1, <1>9
<1>11. heap'[p] = X[Done(p)'].heap /\ ptr'[p] = X[Done(p)'].ptr
  BY <1>4, <1>5, <1>7
<1>12. todo'[p] \in Rests(op'[p].name)
  BY <1>3, <1>6
<1>13. left'[p] + Barriers(todo'[p]) = X[op'[p].seq].bars
  BY <1>3, <1>8, <1>9
<1>14. QED
  BY <1>9, <1>10, <1>11, <1>12, <1>13 DEF At

(* The first PE that gets to a call makes the history longer: then no PE   *)
(* is further, because none is more than a call ahead. The others make the *)
(* call that is in the history.                                            *)
LEMMA HistoryCall ==
    ASSUME HistoryInv, NEW p \in PE, Call(p), TypeInv'
    PROVE  HistoryInv'
<1>1. TypeInv /\ B!InStep
  BY DEF HistoryInv
<1>2. PICK M \in Nat : \E X : /\ Past(X, M) /\ \A q \in PE : At(X, M, q)
                              /\ \E q \in PE : op[q].seq = M
  BY DEF HistoryInv
<1>3. PICK X : /\ Past(X, M) /\ \A q \in PE : At(X, M, q)
               /\ \E q \in PE : op[q].seq = M
  BY <1>2
<1>4. PICK c : /\ Chosen(p, c, op[p].seq + 1) /\ todo[p] = << >>
               /\ op' = [op EXCEPT ![p] = c]
               /\ todo' = [todo EXCEPT ![p] = Phases(c.name)]
               /\ UNCHANGED <<heap, ptr, entered, left>>
  BY DEF Call, barrierVars
<1>5. c \in CallRec /\ c.seq = op[p].seq + 1
  BY <1>1, <1>4, CallIs
<1> DEFINE n == op[p].seq + 1
<1>6. /\ op[p].seq \in Nat /\ op[p].seq <= M /\ n \in Nat /\ n > 0 /\ n - 1 = op[p].seq
      /\ \A q \in PE : op[q].seq \in 0 .. M
  BY <1>1, <1>3, WhereIs
<1>7. /\ \A q \in PE : q # p => op'[q] = op[q] /\ todo'[q] = todo[q]
      /\ op'[p] = c
  <2>1. op \in [PE -> CallRec \union {NoCall}] /\ todo \in [PE -> Seq(Steps)]
    BY <1>1 DEF TypeInv
  <2>2. QED
    BY <1>4, <2>1
<1>8. ASSUME NEW N \in Nat, NEW Y, NEW q \in PE, q # p, At(Y, N, q)
      PROVE  At(Y, N, q)'
  BY <1>4, <1>7, <1>8 DEF At, Done
<1>9. B!InStep'
  BY <1>1, <1>4 DEF B!InStep
<1>10. CASE \E q \in PE : op[q].seq = n
  <2>1. PICK q \in PE : op[q].seq = n /\ op[q] = c
    BY <1>4, <1>10 DEF Chosen
  <2>2. n <= M /\ X[n].call = c
    <3>1. At(X, M, q) /\ op[q].seq # 0 /\ op[q].seq <= M
      BY <1>3, <1>6, <2>1
    <3>2. op[q] = X[op[q].seq].call
      BY <3>1 DEF At
    <3> HIDE DEF n
    <3>3. QED
      BY <2>1, <3>1, <3>2
  <2>3. At(X, M, p)'
    BY <1>1, <1>3, <1>4, <2>2, CallAt
  <2>4. PICK r \in PE : op[r].seq = M
    BY <1>3
  <2>5. r # p
    BY <1>6, <2>2, <2>4
  <2>6. op'[r].seq = M
    BY <1>7, <2>4, <2>5
  <2>7. \A s \in PE : At(X, M, s)'
    BY <1>3, <1>8, <2>3
  <2>8. QED
    BY <1>3, <1>9, <2>6, <2>7 DEF HistoryInv
<1>11. CASE ~\E q \in PE : op[q].seq = n
  <2>1. op[p].seq = M
    <3>1. PICK r \in PE : op[r].seq = M
      BY <1>3
    <3>2. M <= n
      BY <1>1, <1>3, <3>1, NoneSkipped
    <3>3. M # n
      BY <1>11, <3>1
    <3>4. QED
      BY <1>6, <3>2, <3>3
  <2>2. PICK d \in Calls : Sensible(p, d) /\ c = Numbered(d, n)
    BY <1>4, <1>11 DEF Chosen
  <2>3. c.name = d.name /\ c.v = d.v /\ d.name \in CallNames
    <3>1. c.name = d.name /\ c.v = d.v /\ c.name \in CallNames
      BY <1>6, <2>2, CallsAre DEF CallRec
    <3>2. QED
      BY <3>1
  <2>4. Suits(c, X[M].ptr)
    <3>1. Done(p) = M
      <4>1. Pending(todo[p]) = 0
        BY <1>4, CountsAre
      <4>2. QED
        BY <1>6, <2>1, <4>1 DEF Done
    <3>2. ptr[p] = X[M].ptr
      BY <1>3, <3>1 DEF At
    <3>3. ptr[p][d.v] # NULL => c.name \in {"free", "realloc"}
      <4>1. ASSUME d.name \in {"malloc", "calloc", "align"}
            PROVE  ptr[p][d.v] = NULL
        BY <2>2, <4>1, Zenon DEF Sensible
      <4>2. QED
        BY <2>3, <4>1 DEF CallNames
    <3>4. QED
      BY <2>3, <3>2, <3>3 DEF Suits
  <2> DEFINE Y == Longer(X, M, c)
  <2>5. /\ Past(Y, M + 1) /\ \A m \in 0 .. M : Y[m] = X[m]
        /\ Y[M + 1].call = c
    BY <1>3, <1>5, <2>1, <2>4, PastGrows
  <2> HIDE DEF Y
  <2>6. M + 1 \in Nat /\ M + 1 >= M
    OBVIOUS
  <2>7. \A q \in PE : At(Y, M + 1, q)
    BY <1>1, <1>3, <2>5, <2>6, AtStays
  <2>8. At(Y, M + 1, p)'
    <3>1. op[p].seq + 1 <= M + 1 /\ Y[op[p].seq + 1].call = c
      BY <2>1, <2>5
    <3>2. QED
      BY <1>1, <1>4, <2>5, <2>6, <2>7, <3>1, CallAt
  <2>9. \A q \in PE : At(Y, M + 1, q)'
    BY <1>8, <2>6, <2>7, <2>8
  <2>10. \E q \in PE : op'[q].seq = M + 1
    BY <1>5, <1>7, <2>1
  <2>11. Past(Y, M + 1) /\ (\A q \in PE : At(Y, M + 1, q)') /\ \E q \in PE : op'[q].seq = M + 1
    BY <2>5, <2>9, <2>10, Zenon
  <2>12. \E N \in Nat : \E Z : /\ Past(Z, N) /\ \A q \in PE : At(Z, N, q)'
                               /\ \E q \in PE : op'[q].seq = N
    BY <2>6, <2>11, Zenon
  <2>13. QED
    BY <1>9, <2>12 DEF HistoryInv
<1>12. QED
  BY <1>10, <1>11

(* What one PE does in a call leaves the history alone.                    *)
LEMMA HistoryKept ==
    ASSUME HistoryInv, TypeInv', NEW p \in PE, UNCHANGED op, B!InStep',
           \A q \in PE : q # p => /\ heap'[q] = heap[q] /\ ptr'[q] = ptr[q]
                                  /\ todo'[q] = todo[q] /\ left'[q] = left[q],
           \A M \in Nat : \A X : Past(X, M) /\ At(X, M, p) => At(X, M, p)'
    PROVE  HistoryInv'
<1>1. PICK M \in Nat : \E X : /\ Past(X, M) /\ \A q \in PE : At(X, M, q)
                              /\ \E q \in PE : op[q].seq = M
  BY DEF HistoryInv
<1>2. PICK X : /\ Past(X, M) /\ \A q \in PE : At(X, M, q)
               /\ \E q \in PE : op[q].seq = M
  BY <1>1
<1>3. ASSUME NEW q \in PE, q # p
      PROVE  At(X, M, q)'
  BY <1>2, <1>3 DEF At, Done
<1>4. At(X, M, p)'
  BY <1>2
<1>5. QED
  BY <1>2, <1>3, <1>4 DEF HistoryInv

(* A call does the same to a heap wherever the heap is.                    *)
LEMMA SameAnywhere ==
    ASSUME BasesAgree, NEW p \in PE, NEW h, Sound(h), NEW mem, NEW c \in CallRec
    PROVE  shmema(h, Base[p], mem, c) = shmema(h, Home, mem, c)
<1>1. PICK q \in PE : Home = Base[q]
  BY HomeIs
<1>2. /\ Base[p] \in Nat /\ Base[q] \in Nat
      /\ c.name \in CallNames /\ c.align \in Nat /\ c.bytes \in Nat
  <2>1. Base[p] \in Nat /\ Base[q] \in Nat
    BY HeapAssumption
  <2>2. QED
    BY <2>1, FieldsAre
<1>3. CASE c.name = "align" /\ ~(c.align <= 1)
  <2> DEFINE a == Alignment(c.align)
             nb == request2size(c.bytes)
             g == TakeChunk(h, nb + a + MIN_CHUNK_SIZE)
  <2>1. a \in Nat /\ a > 0 /\ g.mem \in Nat
    <3>1. a \in Nat /\ a >= 2 /\ nb \in Nat /\ nb >= 2
      BY <1>2, RequestIs, AlignmentIs
    <3> HIDE DEF a, nb
    <3>2. nb + a + MIN_CHUNK_SIZE \in Nat /\ nb + a + MIN_CHUNK_SIZE >= 2
      BY <3>1, ConstantsAre
    <3>3. QED
      BY <3>1, <3>2, TakenIs
  <2>2. Base[p] % a = Base[q] % a
    <3>1. c.align \in Alignments
      BY <1>3 DEF CallRec, AlignRange
    <3>2. QED
      BY <3>1, Zenon DEF BasesAgree
  <2>3. /\ mspace_memalign(h, Base[p], c.align, c.bytes) = Realigned(g, Base[p], a, nb)
        /\ mspace_memalign(h, Base[q], c.align, c.bytes) = Realigned(g, Base[q], a, nb)
    BY <1>3 DEF mspace_memalign
  <2> HIDE DEF a, nb, g
  <2>4. AlignedSpot(Base[p], g.mem, a) = AlignedSpot(Base[q], g.mem, a)
    BY <1>2, <2>1, <2>2, SpotAgrees
  <2>5. Realigned(g, Base[p], a, nb) = Realigned(g, Base[q], a, nb)
    BY <2>4, Zenon DEF Realigned
  <2>6. /\ shmema(h, Base[p], mem, c) = mspace_memalign(h, Base[p], c.align, c.bytes)
        /\ shmema(h, Home, mem, c) = mspace_memalign(h, Base[q], c.align, c.bytes)
    BY <1>1, <1>3 DEF shmema
  <2>7. QED
    BY <2>3, <2>5, <2>6, Zenon
<1>4. CASE c.name = "align" /\ c.align <= 1
  BY <1>4 DEF shmema, mspace_memalign
<1>5. CASE c.name # "align"
  BY <1>2, <1>5 DEF shmema, CallNames
<1>6. QED
  BY <1>3, <1>4, <1>5, Zenon

(* On its own heap, a PE comes to the heap that the history has next.      *)
LEMMA HistoryHeap ==
    ASSUME BasesAgree, HistoryInv, NEW p \in PE, HeapStep(p), TypeInv'
    PROVE  HistoryInv'
<1>1. TypeInv /\ B!InStep
  BY DEF HistoryInv
<1>2. /\ heap' = [heap EXCEPT ![p] = HeapAfter(heap[p], Home, ptr[p], op[p])]
      /\ ptr' = [ptr EXCEPT ![p] = PtrAfter(heap[p], Home, ptr[p], op[p])]
      /\ todo' = [todo EXCEPT ![p] = Tail(todo[p])]
      /\ UNCHANGED <<op, entered, left>>
      /\ todo[p] # << >> /\ Head(todo[p]) = "heap"
  <2>1. /\ op[p] \in CallRec
        /\ heap' = [heap EXCEPT ![p] = HeapAfter(heap[p], Base[p], ptr[p], op[p])]
        /\ ptr' = [ptr EXCEPT ![p] = PtrAfter(heap[p], Base[p], ptr[p], op[p])]
        /\ todo' = [todo EXCEPT ![p] = Tail(todo[p])]
        /\ UNCHANGED <<op, entered, left>>
        /\ todo[p] # << >> /\ Head(todo[p]) = "heap"
    BY <1>1, HeapStepIs
  <2>2. Sound(heap[p])
    BY <1>1 DEF TypeInv, Owns
  <2>3. shmema(heap[p], Base[p], ptr[p][op[p].v], op[p])
            = shmema(heap[p], Home, ptr[p][op[p].v], op[p])
    BY <2>1, <2>2, SameAnywhere
  <2>4. /\ HeapAfter(heap[p], Base[p], ptr[p], op[p]) = HeapAfter(heap[p], Home, ptr[p], op[p])
        /\ PtrAfter(heap[p], Base[p], ptr[p], op[p]) = PtrAfter(heap[p], Home, ptr[p], op[p])
    BY <2>3, Zenon DEF HeapAfter, PtrAfter
  <2>5. QED
    BY <2>1, <2>4, Zenon
<1>3. /\ \A q \in PE : q # p => /\ heap'[q] = heap[q] /\ ptr'[q] = ptr[q]
                                /\ todo'[q] = todo[q] /\ left'[q] = left[q]
      /\ heap'[p] = HeapAfter(heap[p], Home, ptr[p], op[p])
      /\ ptr'[p] = PtrAfter(heap[p], Home, ptr[p], op[p])
      /\ todo'[p] = Tail(todo[p])
  <2>1. heap \in [PE -> HeapRec] /\ ptr \in [PE -> [Var -> Nat]] /\ todo \in [PE -> Seq(Steps)]
    BY <1>1 DEF TypeInv
  <2>2. QED
    BY <1>2, <2>1, Zenon
<1>4. ASSUME NEW M \in Nat, NEW X, Past(X, M), At(X, M, p)
      PROVE  At(X, M, p)'
  <2> DEFINE n == op[p].seq
  <2>1. /\ n \in 0 .. M /\ Done(p) = n - Pending(todo[p]) /\ todo[p] \in Rests(op[p].name)
        /\ Pending(todo[p]) = 1 => n > 0
    BY <1>1, <1>4, WhereIs DEF At, Done
  <2>2. /\ Pending(todo[p]) = 1 /\ Pending(Tail(todo[p])) = 0
        /\ Barriers(Tail(todo[p])) = Barriers(todo[p]) /\ Tail(todo[p]) \in Rests(op[p].name)
    BY <1>2, <2>1, RestStep
  <2>3. Done(p) = n - 1 /\ n \in 1 .. M /\ Done(p)' = n
    BY <1>2, <1>3, <2>1, <2>2 DEF Done
  <2>4. Follows(X, n) /\ op[p] = X[n].call /\ heap[p] = X[n - 1].heap /\ ptr[p] = X[n - 1].ptr
    BY <1>4, <2>3 DEF Past, At
  <2>5. heap'[p] = X[n].heap /\ ptr'[p] = X[n].ptr
    BY <1>3, <2>4 DEF Follows
  <2>6. QED
    BY <1>2, <1>3, <1>4, <2>2, <2>3, <2>5 DEF At
<1>5. B!InStep'
  BY <1>1, <1>2 DEF B!InStep
<1>6. QED
  BY <1>2, <1>3, <1>4, <1>5, HistoryKept

(* Entering a barrier changes none of this,                                *)
LEMMA HistoryEnter ==
    ASSUME HistoryInv, NEW p \in PE, EnterBarrier(p), TypeInv'
    PROVE  HistoryInv'
<1>1. TypeInv /\ B!InStep
  BY DEF HistoryInv
<1>2. /\ UNCHANGED <<heap, ptr, op, todo, left>>
      /\ entered' = [entered EXCEPT ![p] = entered[p] + 1]
  BY DEF EnterBarrier, B!Enter
<1>3. B!InStep'
  BY <1>1, <1>2 DEF B!InStep, B!TypeOK, TypeInv
<1>4. ASSUME NEW M \in Nat, NEW X, At(X, M, p)
      PROVE  At(X, M, p)'
  BY <1>2, <1>4 DEF At, Done
<1>5. QED
  BY <1>2, <1>3, <1>4, HistoryKept

(* and leaving one is counted on both sides.                               *)
LEMMA HistoryLeave ==
    ASSUME HistoryInv, NEW p \in PE, LeaveBarrier(p), TypeInv'
    PROVE  HistoryInv'
<1>1. TypeInv /\ B!InStep
  BY DEF HistoryInv
<1>2. /\ UNCHANGED <<heap, ptr, op, entered>> /\ left[p] < entered[p]
      /\ left' = [left EXCEPT ![p] = left[p] + 1]
      /\ todo' = [todo EXCEPT ![p] = Tail(todo[p])]
      /\ \A q \in PE : entered[q] >= entered[p]
  BY DEF LeaveBarrier, B!Leave
<1>3. /\ left \in [PE -> Nat] /\ entered \in [PE -> Nat] /\ todo \in [PE -> Seq(Steps)]
      /\ entered[p] = left[p] \/ Inside(p)
  BY <1>1 DEF TypeInv, B!TypeOK
<1>4. Inside(p)
  BY <1>2, <1>3
<1>5. B!InStep'
  BY <1>1, <1>2, <1>3 DEF B!InStep
<1>6. /\ todo'[p] = Tail(todo[p]) /\ left'[p] = left[p] + 1
      /\ \A q \in PE : q # p => todo'[q] = todo[q] /\ left'[q] = left[q]
  BY <1>2, <1>3
<1>7. ASSUME NEW M \in Nat, NEW X, Past(X, M), At(X, M, p)
      PROVE  At(X, M, p)'
  <2>1. todo[p] \in Rests(op[p].name) /\ left[p] + Barriers(todo[p]) = X[op[p].seq].bars
    BY <1>7 DEF At
  <2>2. /\ Pending(Tail(todo[p])) = Pending(todo[p])
        /\ Barriers(todo[p]) = Barriers(Tail(todo[p])) + 1
        /\ Tail(todo[p]) \in Rests(op[p].name)
    BY <1>4, <2>1, RestStep DEF Inside
  <2>3. Barriers(Tail(todo[p])) \in Nat
    BY <2>2, RestIs
  <2>4. left'[p] + Barriers(todo'[p]) = X[op[p].seq].bars
    BY <1>3, <1>6, <2>1, <2>2, <2>3
  <2>5. Done(p)' = Done(p)
    BY <1>2, <1>6, <2>2 DEF Done
  <2>6. op[p].seq # 0
    BY <1>4, <1>7 DEF At, Inside
  <2>7. QED
    BY <1>2, <1>6, <1>7, <2>2, <2>4, <2>5, <2>6 DEF At
<1>8. QED
  BY <1>2, <1>5, <1>6, <1>7, HistoryKept

(* The history starts with no call.                                        *)
LEMMA HistoryInit ==
    Init => HistoryInv
<1> SUFFICES ASSUME Init
             PROVE  HistoryInv
  OBVIOUS
<1>1. heap = [p \in PE |-> StartHeap] /\ ptr = [p \in PE |-> NoPtr]
  BY DEF Init, StartHeap, NoPtr
<1>2. /\ op = [p \in PE |-> NoCall] /\ todo = [p \in PE |-> << >>]
      /\ entered = [p \in PE |-> 0] /\ left = [p \in PE |-> 0]
  BY DEF Init, B!Init
<1> DEFINE X == [n \in Nat |-> [call |-> NoCall, heap |-> StartHeap, ptr |-> NoPtr, bars |-> 0]]
<1>3. X[0].heap = StartHeap /\ X[0].ptr = NoPtr /\ X[0].bars = 0
  OBVIOUS
<1> HIDE DEF X
<1>4. Past(X, 0)
  <2>1. \A n \in 0 .. 0 : n = 0
    OBVIOUS
  <2>2. Owns(X[0].heap, X[0].ptr)
    BY <1>3, StartOwns
  <2>3. \A i, j \in 0 .. 0, v \in Var : Unmoved(X, v, i, j)
    BY <2>1 DEF Unmoved, SameBlock
  <2>4. QED
    BY <1>3, <2>1, <2>2, <2>3 DEF Past
<1>5. ASSUME NEW p \in PE
      PROVE  At(X, 0, p)
  <2>1. /\ op[p].seq = 0 /\ todo[p] = << >> /\ heap[p] = StartHeap /\ ptr[p] = NoPtr
        /\ left[p] = 0 /\ op[p].name = "none"
    BY <1>1, <1>2 DEF NoCall
  <2>2. << >> \in Rests(op[p].name)
    BY NamesAre
  <2>3. Done(p) = 0
    BY <2>1, CountsAre DEF Done
  <2>4. QED
    BY <1>3, <2>1, <2>2, <2>3, CountsAre DEF At
<1>6. B!InStep
  BY <1>2 DEF B!InStep
<1>7. PICK p \in PE : TRUE
  BY HeapAssumption
<1>8. op[p].seq = 0
  BY <1>2 DEF NoCall
<1>9. QED
  BY <1>4, <1>5, <1>6, <1>8, TypeInit DEF HistoryInv

(* Every step keeps the history.                                           *)
LEMMA HistoryStep ==
    BasesAgree /\ HistoryInv /\ [Next]_vars => HistoryInv'
<1> SUFFICES ASSUME BasesAgree, HistoryInv, [Next]_vars
             PROVE  HistoryInv'
  OBVIOUS
<1>1. TypeInv'
  BY TypeStep DEF HistoryInv
<1>2. CASE UNCHANGED vars
  <2>1. \A M \in Nat : \A X : \A p \in PE : At(X, M, p)' <=> At(X, M, p)
    BY <1>2 DEF vars, barrierVars, At, Done
  <2>2. B!InStep'
    BY <1>2 DEF vars, barrierVars, B!InStep, HistoryInv
  <2>3. op' = op
    BY <1>2 DEF vars
  <2>4. QED
    BY <1>1, <2>1, <2>2, <2>3 DEF HistoryInv
<1>3. ASSUME NEW p \in PE, Call(p) \/ HeapStep(p) \/ EnterBarrier(p) \/ LeaveBarrier(p)
      PROVE  HistoryInv'
  BY <1>1, <1>3, HistoryCall, HistoryHeap, HistoryEnter, HistoryLeave
<1>4. QED
  BY <1>2, <1>3 DEF Next, Finished

(* A set of numbers up to b that is not empty has a largest element.       *)
LEMMA LargestElement ==
    ASSUME NEW b \in Nat, NEW K \in SUBSET (0 .. b), K # {}
    PROVE  \E k \in K : \A j \in K : j <= k
<1> DEFINE S == {m \in Nat : m <= b /\ b - m \in K}
<1>1. S \in SUBSET Nat /\ S # {}
  <2>1. PICK k \in K : TRUE
    OBVIOUS
  <2>2. b - k \in Nat /\ b - k <= b /\ b - (b - k) = k
    BY <2>1
  <2>3. QED
    BY <2>2
<1>2. PICK m \in S : \A i \in S : m <= i
  <2> HIDE DEF S
  <2>1. QED
    BY <1>1, LeastElement, Zenon
<1>3. m \in Nat /\ m <= b /\ b - m \in K
  BY <1>2
<1>4. ASSUME NEW j \in K
      PROVE  j <= b - m
  <2>1. b - j \in Nat /\ b - j <= b /\ b - (b - j) = j /\ j \in Nat
    BY <1>4
  <2>2. m <= b - j
    BY <1>2, <2>1
  <2>3. QED
    BY <1>3, <2>1, <2>2
<1>5. QED
  BY <1>3, <1>4

(* A pointer that one PE may use is the same on a PE that is behind: the   *)
(* last call about it was not a free, so it ended with a barrier that the  *)
(* other has not come to.                                                  *)
LEMMA UntouchedBehind ==
    ASSUME TypeInv, B!InStep, NEW M \in Nat, NEW X, Past(X, M), NEW p \in PE, NEW q \in PE,
           At(X, M, p), At(X, M, q), NEW v \in Var, Usable(p, v)
    PROVE  Untouched(X, v, Done(q), Done(p))
<1> DEFINE a == Done(p)
           b == Done(q)
           K == {k \in b + 1 .. a : X[k].call.v = v}
<1>1. /\ a \in 0 .. M /\ b \in 0 .. M /\ op[p].seq \in 0 .. M /\ op[q].seq \in 0 .. M
      /\ Pending(todo[p]) \in {0, 1} /\ Pending(todo[q]) \in {0, 1}
      /\ op[p].seq = a + Pending(todo[p]) /\ op[q].seq = b + Pending(todo[q])
      /\ left[p] \in Nat /\ entered[q] \in Nat /\ left[q] \in Nat
  BY WhereIs
<1> HIDE DEF a, b
<1>2. SUFFICES ASSUME K # {}
               PROVE  FALSE
  BY DEF Untouched, a, b
<1>3. PICK k \in K : \A j \in K : j <= k
  <2>1. K \in SUBSET (0 .. a) /\ a \in Nat
    BY <1>1
  <2> HIDE DEF K
  <2>2. QED
    BY <1>2, <2>1, LargestElement, Zenon
<1>4. k \in b + 1 .. a /\ X[k].call.v = v /\ k \in 1 .. M /\ k \in 0 .. M /\ k - 1 \in 0 .. M
  BY <1>1, <1>3
<1>5. Untouched(X, v, k, a)
  <2>1. ASSUME NEW j \in k + 1 .. a, X[j].call.v = v
        PROVE  FALSE
    <3>1. j \in b + 1 .. a /\ ~(j <= k)
      BY <1>1, <1>4
    <3>2. QED
      BY <1>3, <2>1, <3>1
  <2>2. QED
    BY <2>1 DEF Untouched
<1> HIDE DEF K
<1>6. Unmoved(X, v, k, a)
  BY <1>1, <1>4, <1>5 DEF Past
<1>7. X[k].ptr[v] # NULL
  <2>1. ptr[p][v] # NULL /\ ptr[p] = X[a].ptr
    BY DEF Usable, At, a
  <2>2. QED
    BY <1>6, <2>1 DEF Unmoved, SameBlock
<1>8. /\ Follows(X, k) /\ Owns(X[k - 1].heap, X[k - 1].ptr)
      /\ X[k].bars \in Nat /\ X[k - 1].bars \in Nat /\ X[k - 1].bars < X[k].bars
  <2>1. k - 1 < k
    BY <1>4
  <2>2. QED
    BY <1>4, <2>1 DEF Past
<1>9. X[k].call.name # "free"
  <2>1. /\ X[k].call \in CallRec
        /\ X[k].ptr = PtrAfter(X[k - 1].heap, Home, X[k - 1].ptr, X[k].call)
    BY <1>8 DEF Follows
  <2>2. X[k].call.name = "free" => X[k].ptr[X[k].call.v] = NULL
    <3> DEFINE c == X[k].call
               w == X[k - 1].heap
               pt == X[k - 1].ptr
    <3>1. c \in CallRec /\ Owns(w, pt) /\ Home \in Nat
      BY <1>8, <2>1, HomeIs
    <3>2. X[k].ptr = PtrAfter(w, Home, pt, c)
      BY <2>1
    <3> HIDE DEF c, w, pt
    <3>3. c.name = "free" => PtrAfter(w, Home, pt, c)[c.v] = NULL
      BY <3>1, CallOwns
    <3>4. QED
      BY <3>2, <3>3 DEF c
  <2>3. QED
    BY <1>4, <1>7, <2>2
<1>10. X[k].bars <= left[p]
  <2>1. k < op[p].seq \/ k = op[p].seq
    BY <1>1, <1>4
  <2>2. CASE k = op[p].seq
    <3>1. op[p] = X[k].call
      BY <1>4, <2>2 DEF At
    <3>2. todo[p] = << >>
      BY <1>4, <3>1 DEF Usable
    <3>3. left[p] + 0 = X[k].bars
      BY <2>2, <3>2, CountsAre DEF At
    <3>4. QED
      BY <1>1, <1>8, <3>3
  <2>3. CASE k < op[p].seq
    BY <1>4, <2>3, WhereIs
  <2>4. QED
    BY <2>1, <2>2, <2>3
<1>11. entered[q] < X[k].bars
  <2>1. op[q].seq < k \/ op[q].seq = k
    BY <1>1, <1>4
  <2>2. CASE op[q].seq < k
    <3>1. k - 1 \in op[q].seq .. M
      BY <1>1, <1>4, <2>2
    <3>2. entered[q] <= X[k - 1].bars
      BY <3>1, WhereIs
    <3>3. QED
      BY <1>1, <1>8, <3>2
  <2>3. CASE op[q].seq = k
    <3>1. op[q] = X[k].call /\ todo[q] \in Rests(op[q].name)
          /\ left[q] + Barriers(todo[q]) = X[k].bars
      BY <1>4, <2>3 DEF At
    <3>2. Pending(todo[q]) = 1
      BY <1>1, <1>4, <2>3
    <3>3. /\ Barriers(todo[q]) \in Nat /\ Barriers(todo[q]) >= 1
          /\ Head(todo[q]) = "barrier" => Barriers(todo[q]) = 2
      <4>1. op[q].name # "free"
        BY <1>9, <3>1
      <4>2. /\ Barriers(todo[q]) >= 1
            /\ Head(todo[q]) = "barrier" => Barriers(todo[q]) = 2
        BY <3>1, <3>2, <4>1, RestIs
      <4>3. Barriers(todo[q]) \in Nat
        BY <3>1, RestIs
      <4>4. QED
        BY <4>2, <4>3
    <3>4. entered[q] = left[q] \/ (entered[q] = left[q] + 1 /\ Barriers(todo[q]) = 2)
      BY <3>3 DEF TypeInv, Inside
    <3>5. QED
      BY <1>1, <1>8, <3>1, <3>3, <3>4
  <2>4. QED
    BY <2>1, <2>2, <2>3
<1>12. left[p] <= entered[q]
  BY DEF B!InStep
<1>13. QED
  BY <1>1, <1>8, <1>10, <1>11, <1>12

(* And on a PE that is ahead: the first call about it is a free or a       *)
(* realloc, so it began with a barrier that this PE has not come to.       *)
LEMMA UntouchedAhead ==
    ASSUME TypeInv, B!InStep, NEW M \in Nat, NEW X, Past(X, M), NEW p \in PE, NEW q \in PE,
           At(X, M, p), At(X, M, q), NEW v \in Var, Usable(p, v)
    PROVE  Untouched(X, v, Done(p), Done(q))
<1> DEFINE a == Done(p)
           b == Done(q)
           K == {k \in a + 1 .. b : X[k].call.v = v}
<1>1. /\ a \in 0 .. M /\ b \in 0 .. M /\ op[p].seq \in 0 .. M /\ op[q].seq \in 0 .. M
      /\ Pending(todo[p]) \in {0, 1} /\ Pending(todo[q]) \in {0, 1}
      /\ op[p].seq = a + Pending(todo[p]) /\ op[q].seq = b + Pending(todo[q])
      /\ left[p] \in Nat /\ entered[p] \in Nat /\ left[q] \in Nat
  BY WhereIs
<1> HIDE DEF a, b
<1>2. SUFFICES ASSUME K # {}
               PROVE  FALSE
  BY DEF Untouched, a, b
<1>3. PICK k \in K : \A j \in K : k <= j
  <2>1. K \in SUBSET Nat
    BY <1>1
  <2> HIDE DEF K
  <2>2. QED
    BY <1>2, <2>1, LeastElement, Zenon
<1>4. k \in a + 1 .. b /\ X[k].call.v = v /\ k \in 1 .. M /\ k \in 0 .. M /\ k - 1 \in 0 .. M
      /\ a <= k - 1
  BY <1>1, <1>3
<1>5. Untouched(X, v, a, k - 1)
  <2>1. ASSUME NEW j \in a + 1 .. k - 1, X[j].call.v = v
        PROVE  FALSE
    <3>1. j \in a + 1 .. b /\ ~(k <= j)
      BY <1>1, <1>4
    <3>2. QED
      BY <1>3, <2>1, <3>1
  <2>2. QED
    BY <2>1 DEF Untouched
<1> HIDE DEF K
<1>6. Unmoved(X, v, a, k - 1)
  BY <1>1, <1>4, <1>5 DEF Past
<1>7. X[k - 1].ptr[v] # NULL
  <2>1. ptr[p][v] # NULL /\ ptr[p] = X[a].ptr
    BY DEF Usable, At, a
  <2>2. QED
    BY <1>6, <2>1 DEF Unmoved, SameBlock
<1>8. /\ Follows(X, k)
      /\ X[k].bars \in Nat /\ X[k - 1].bars \in Nat /\ X[k - 1].bars < X[k].bars
  <2>1. k - 1 < k
    BY <1>4
  <2>2. QED
    BY <1>4, <2>1 DEF Past
<1>9. X[k].call.name \in {"free", "realloc"}
  BY <1>4, <1>7, <1>8 DEF Follows, Suits
<1>10. entered[p] <= X[k - 1].bars
  <2>1. op[p].seq # k
    <3>1. SUFFICES ASSUME op[p].seq = k
                   PROVE  FALSE
      OBVIOUS
    <3>2. op[p] = X[k].call /\ todo[p] \in Rests(op[p].name)
      BY <1>4, <3>1 DEF At
    <3>3. Pending(todo[p]) = 1
      BY <1>1, <1>4, <3>1
    <3>4. todo[p] # << >>
      BY <3>3, CountsAre
    <3>5. QED
      BY <1>4, <3>2, <3>4 DEF Usable
  <2>2. k - 1 \in op[p].seq .. M
    BY <1>1, <1>4, <2>1
  <2>3. QED
    BY <2>2, WhereIs
<1>11. X[k - 1].bars < left[q]
  <2>1. k < op[q].seq \/ op[q].seq = k
    BY <1>1, <1>4
  <2>2. CASE k < op[q].seq
    <3>1. X[k].bars <= left[q]
      BY <1>4, <2>2, WhereIs
    <3>2. QED
      BY <1>1, <1>8, <3>1
  <2>3. CASE op[q].seq = k
    <3>1. op[q] = X[k].call /\ todo[q] \in Rests(op[q].name)
          /\ left[q] + Barriers(todo[q]) = X[k].bars
      BY <1>4, <2>3 DEF At
    <3>2. Pending(todo[q]) = 0
      BY <1>1, <1>4, <2>3
    <3>3. /\ Barriers(todo[q]) \in Nat /\ Barriers(Phases(op[q].name)) \in Nat
          /\ Barriers(todo[q]) + 1 <= Barriers(Phases(op[q].name))
      <4>1. op[q].name \in {"free", "realloc"}
        BY <1>9, <3>1
      <4>2. Barriers(todo[q]) + 1 <= Barriers(Phases(op[q].name))
        BY <3>1, <3>2, <4>1, RestIs
      <4>3. Barriers(todo[q]) \in Nat /\ Barriers(Phases(op[q].name)) \in Nat
        BY <3>1, RestIs
      <4>4. QED
        BY <4>2, <4>3
    <3>4. X[k].bars = X[k - 1].bars + Barriers(Phases(op[q].name))
      BY <1>8, <3>1 DEF Follows
    <3>5. \A l, t, x, n \in Nat : l + t = x + n /\ t + 1 <= n => x < l
      OBVIOUS
    <3>6. QED
      BY <1>1, <1>8, <3>1, <3>3, <3>4, <3>5
  <2>4. QED
    BY <2>1, <2>2, <2>3
<1>12. left[q] <= entered[p]
  BY DEF B!InStep
<1>13. QED
  BY <1>1, <1>8, <1>10, <1>11, <1>12

(* Segments that begin on pages are far enough alike, as long as no        *)
(* alignment is larger than the page: an alignment becomes a power of two, *)
(* so it divides the page.                                                 *)
LEMMA PagesSuffice ==
    ASSUME NEW k \in Nat, MIN_CHUNK_SIZE <= 2 ^ k, \A p \in PE : Base[p] % (2 ^ k) = 0,
           \A a \in Alignments : a <= 2 ^ k
    PROVE  BasesAgree
<1>1. ASSUME NEW a \in Alignments, NEW p \in PE
      PROVE  Base[p] % Alignment(a) = 0
  <2> DEFINE n == Larger(a, MIN_CHUNK_SIZE)
             b == Base[p]
             page == 2 ^ k
  <2>1. n \in Nat /\ n <= page /\ b \in Nat /\ b % page = 0 /\ page \in Nat /\ page > 0
        /\ Alignment(a) = PowerOfTwo(n)
    <3>1. a \in Nat /\ a <= page /\ b \in Nat /\ page \in Nat \ {0}
      BY <1>1, PowerPositive, HeapAssumption
    <3>2. Alignment(a) = PowerOfTwo(n)
      BY DEF Alignment
    <3> HIDE DEF b
    <3>3. n \in Nat /\ n <= page
      BY <3>1, ConstantsAre DEF Larger
    <3>4. b % page = 0
      BY <1>1 DEF b
    <3>5. QED
      BY <3>1, <3>2, <3>3, <3>4
  <2> HIDE DEF n, b
  <2>2. PICK j \in 0 .. n : /\ PowerOfTwo(n) = 2 ^ j
                            /\ \A i \in 0 .. j - 1 : 2 ^ i < n
    BY <2>1, LeastPower
  <2>3. j \in Nat /\ j <= k
    <3>1. j \in Nat
      BY <2>1, <2>2
    <3>2. ~(k \in 0 .. j - 1)
      BY <2>1, <2>2
    <3>3. QED
      BY <3>1, <3>2
  <2> DEFINE x == 2 ^ j
             y == 2 ^ (k - j)
             q == b \div page
  <2>4. x \in Nat /\ y \in Nat /\ x > 0 /\ page = x * y
    <3>1. k - j \in Nat /\ j + (k - j) = k
      BY <2>3
    <3>2. 2 ^ (j + (k - j)) = 2 ^ j * 2 ^ (k - j)
      BY <2>3, <3>1, PowerSum
    <3>3. 2 ^ j \in Nat \ {0} /\ 2 ^ (k - j) \in Nat \ {0}
      BY <2>3, <3>1, PowerPositive
    <3>4. QED
      BY <3>1, <3>2, <3>3
  <2>5. q \in Nat /\ b = q * page + (b % page) /\ q * page \in Nat
    BY <2>1, DivisionIs
  <2> HIDE DEF x, y, q, page
  <2>6. b = (q * y) * x /\ q * y \in Nat
    <3>1. b = q * (x * y)
      BY <2>1, <2>4, <2>5
    <3>2. \A u, v, w \in Nat : u * (v * w) = (u * w) * v /\ u * w \in Nat
      OBVIOUS
    <3>3. QED
      BY <2>4, <2>5, <3>1, <3>2
  <2>7. b % x = 0
    <3> DEFINE d == b \div x
               t == b % x
               e == q * y
    <3>1. d \in Nat /\ b = d * x + t /\ d * x \in Nat /\ t \in Nat /\ t < x
      BY <2>1, <2>4, DivisionIs
    <3>2. e \in Nat /\ b = e * x
      BY <2>6
    <3> HIDE DEF d, t, e
    <3>3. d = e
      BY <2>4, <3>1, <3>2, OneMultiple
    <3>4. t = 0
      BY <3>1, <3>2, <3>3
    <3>5. QED
      BY <3>4 DEF t
  <2>8. QED
    BY <2>1, <2>2, <2>7 DEF x, b
<1>2. QED
  BY <1>1 DEF BasesAgree

(* On every PE that may use it, a pointer is the address of a block in use *)
(* on all the others, as large there and apart from their other blocks:    *)
(* shmem_malloc and the others promise it, although no PE ever looks at    *)
(* another's heap, and although calls overlap as far as the barriers in    *)
(* them allow.  It needs segments that are alike for the alignments asked  *)
(* for: otherwise an aligned block lies at different offsets.              *)
THEOREM BlocksSymmetric == BasesAgree => (Spec => []SymmetricBlocks)
<1> SUFFICES ASSUME BasesAgree
             PROVE  Spec => []SymmetricBlocks
  OBVIOUS
<1>1. ASSUME HistoryInv
      PROVE  SymmetricBlocks
  <2>1. TypeInv /\ B!InStep
    BY <1>1 DEF HistoryInv
  <2>2. PICK M \in Nat : \E X : Past(X, M) /\ \A q \in PE : At(X, M, q)
    BY <1>1 DEF HistoryInv
  <2>3. PICK X : Past(X, M) /\ \A q \in PE : At(X, M, q)
    BY <2>2
  <2>4. ASSUME NEW p \in PE, NEW q \in PE, NEW v \in Var, Usable(p, v)
        PROVE  /\ ptr[q][v] = ptr[p][v]
               /\ cinuse(heap[q], mem2chunk(ptr[p][v]))
               /\ BlockOf(q, v) = BlockOf(p, v)
               /\ \A w \in Var \ {v} :
                    ptr[q][w] # NULL => BlockOf(q, v) \intersect BlockOf(q, w) = {}
    <3>1. Untouched(X, v, Done(q), Done(p)) /\ Untouched(X, v, Done(p), Done(q))
      BY <2>1, <2>3, <2>4, UntouchedBehind, UntouchedAhead
    <3>2. Done(p) \in 0 .. M /\ Done(q) \in 0 .. M
      BY <2>1, <2>3, WhereIs
    <3>3. Done(p) <= Done(q) \/ Done(q) <= Done(p)
      BY <3>2
    <3>4. Unmoved(X, v, Done(p), Done(q)) \/ Unmoved(X, v, Done(q), Done(p))
      BY <2>3, <3>1, <3>2, <3>3 DEF Past
    <3>5. /\ heap[p] = X[Done(p)].heap /\ ptr[p] = X[Done(p)].ptr
          /\ heap[q] = X[Done(q)].heap /\ ptr[q] = X[Done(q)].ptr
      BY <2>3 DEF At
    <3>6. ptr[p][v] # NULL
      BY <2>4 DEF Usable
    <3>7. /\ ptr[q][v] = ptr[p][v]
          /\ chunksize(heap[q], mem2chunk(ptr[p][v])) = chunksize(heap[p], mem2chunk(ptr[p][v]))
      BY <3>4, <3>5, <3>6 DEF Unmoved, SameBlock
    <3>8. Owns(heap[q], ptr[q])
      BY <2>1 DEF TypeInv
    <3>9. cinuse(heap[q], mem2chunk(ptr[p][v]))
      BY <3>6, <3>7, <3>8 DEF Owns, Block, Used
    <3>10. BlockOf(q, v) = BlockOf(p, v)
      BY <3>7 DEF BlockOf
    <3>11. ASSUME NEW w \in Var \ {v}, ptr[q][w] # NULL
           PROVE  BlockOf(q, v) \intersect BlockOf(q, w) = {}
      <4>1. ptr[q][v] # NULL /\ v # w
        BY <3>6, <3>7
      <4>2. QED
        BY <3>8, <3>11, <4>1, BlocksApart DEF BlockOf
    <3>12. QED
      BY <3>7, <3>9, <3>10, <3>11
  <2>5. QED
    BY <2>4 DEF SymmetricBlocks
<1>2. HistoryInv => SymmetricBlocks
  BY <1>1
<1>3. HistoryInv /\ [Next]_vars => HistoryInv'
  BY HistoryStep
<1>4. QED
  BY <1>2, <1>3, HistoryInit, PTL DEF Spec

(* So the promise is kept by every program that asks for no alignment      *)
(* above the page, since a segment begins on a page.                       *)
COROLLARY PagesSymmetric ==
    ASSUME NEW k \in Nat, MIN_CHUNK_SIZE <= 2 ^ k, \A p \in PE : Base[p] % (2 ^ k) = 0,
           \A a \in Alignments : a <= 2 ^ k
    PROVE  Spec => []SymmetricBlocks
<1>1. BasesAgree
  BY PagesSuffice
<1>2. QED
  BY <1>1, BlocksSymmetric

=============================================================================
