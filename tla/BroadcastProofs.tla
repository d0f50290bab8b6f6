-------------------------- MODULE BroadcastProofs --------------------------
(***************************************************************************)
(* The broadcasts are correct for every active set and every root.  The    *)
(* proof of the tree-shaped ones looks at the edges of the tree: what has  *)
(* been posted along each in the broadcast under way, what of that is      *)
(* still in flight, and that a member's pSync counts what has arrived.     *)
(***************************************************************************)
EXTENDS Broadcast, NaturalLemmas

Below == Members \ {Root}

(* The broadcast under way: members have called it, or are back from the   *)
(* one before.                                                             *)
Latest == CHOOSE n \in {calls[p] : p \in Members} : \A q \in Members : calls[q] <= n

Called(p) == calls[p] = Latest

(* The children to whom a member has posted the data, and the increment.   *)
DataTo(p) ==
    CASE ~Called(p) \/ pc[p] \in {"wait", "ack", "begin"} -> {}
      [] Called(p) /\ pc[p] = "put" -> Children(p) \ todo[p]
      [] Called(p) /\ pc[p] \in {"fence", "inc"} ->
            IF broadcast_helper = "binomial"
            THEN (Children(p) \ todo[p]) \union {FirstOf(todo[p])} ELSE Children(p)
      [] OTHER -> Children(p)

IncTo(p) ==
    CASE ~Called(p) \/ pc[p] \in {"wait", "ack", "begin"} -> {}
      [] Called(p) /\ pc[p] \in {"put", "fence"} ->
            IF broadcast_helper = "binomial" THEN Children(p) \ todo[p] ELSE {}
      [] Called(p) /\ pc[p] = "inc" -> Children(p) \ todo[p]
      [] OTHER -> Children(p)

(* What has been posted along the edge between a member and its parent.    *)
SentData(q) == me_as(q) \in DataTo(Parent(q))
SentInc(q)  == me_as(q) \in IncTo(Parent(q))
SentAck(q)  == Called(q) /\ pc[q] \notin {"wait", "ack"}

InFlight(p, q, k) == \E m \in posted : m.from = p /\ m.to = q /\ m.kind = k

Neighbour(q, p) == (q \in Below /\ p = Parent(q)) \/ (p \in Below /\ q = Parent(p))

(* A member's neighbours, and those whose increment has reached it.        *)
Neighbours(p) == {q \in Members : Neighbour(q, p)}

Poked(q, p) ==
    \/ p \in Below /\ q = Parent(p) /\ SentInc(p)
    \/ q \in Below /\ p = Parent(q) /\ SentAck(q)

PokedBy(p) == {q \in Members : Poked(q, p) /\ ~InFlight(q, p, "inc")}

-----------------------------------------------------------------------------
(* The type invariant without the bounds of the counters.                  *)
ShapeOK ==
    /\ broadcast_helper \in {"linear", "tree", "binomial", "binomial2"}
    /\ PE_root \in 0 .. PE_size - 1
    /\ pc \in [Members -> {"out", "barrier", "get", "wait", "ack", "begin",
                           "put", "fence", "inc", "gather", "reset"}]
    /\ calls \in [Members -> 0 .. MaxCalls]
    /\ pSync \in [Members -> Nat]
    /\ target \in [Members -> Int]
    /\ todo \in [Members -> SUBSET (0 .. PE_size - 1)]
    /\ gen \in [Members -> Nat]
    /\ posted \in SUBSET [from : Members, to : Members, kind : {"data", "inc"},
                          val : Int, gen : Nat]

(* Who is in a call is in the one under way.                               *)
CallInv ==
    /\ Latest \in Nat
    /\ \A p \in Members : calls[p] \in {Latest - 1, Latest}
    /\ \E p \in Members : Called(p)
    /\ \A p \in Members : pc[p] # "out" => Called(p) /\ calls[p] > 0

(* Where a member is in its loop over the children.                        *)
LoopAt(p) ==
    /\ pc[p] \in {"put", "inc"} => todo[p] # {} /\ todo[p] \subseteq Children(p)
    /\ pc[p] = "fence" =>
          IF broadcast_helper = "binomial"
          THEN todo[p] # {} /\ todo[p] \subseteq Children(p)
          ELSE todo[p] = {} /\ Children(p) # {}

GenAt(p) ==
    /\ gen[p] <= PE_size
    /\ pc[p] \in {"wait", "ack", "begin"} => gen[p] = 0
    /\ pc[p] \in {"put", "fence"} =>
          IF broadcast_helper = "binomial" THEN gen[p] + Cardinality(todo[p]) <= PE_size
                                           ELSE gen[p] = 0
    /\ pc[p] = "inc" /\ broadcast_helper = "binomial" =>
          gen[p] + Cardinality(todo[p]) <= PE_size + 1

LoopInv == \A p \in Members : LoopAt(p) /\ GenAt(p)

(* What is in flight has been posted along an edge, once, and the data     *)
(* ahead of the increment.                                                 *)
DataOK(m) ==
    /\ m.to \in Below /\ m.from = Parent(m.to) /\ SentData(m.to)
    /\ m.val = Latest /\ m.gen <= gen[m.from]
    /\ pc[m.from] = "inc" /\ ~SentInc(m.to) => m.gen < gen[m.from]
    /\ SentInc(m.to) => \E n \in posted :
          n.from = m.from /\ n.to = m.to /\ n.kind = "inc" /\ n.gen > m.gen

DataInv == \A m \in posted : m.kind = "data" => DataOK(m)

IncInv ==
    \A m \in posted : m.kind = "inc" =>
        m.val = 0 /\ m.gen <= PE_size /\ Poked(m.from, m.to)

OnceInv ==
    \A m, n \in posted :
        m.from = n.from /\ m.to = n.to /\ m.kind = n.kind => m = n

PSyncInv ==
    \A p \in Members : pSync[p] =
        IF Called(p) /\ pc[p] = "out" THEN 0 ELSE Cardinality(PokedBy(p))

(* Past its wait a member has been poked by its parent, and the root has   *)
(* called; past its gathering, by all its neighbours.                      *)
PokedInv ==
    \A p \in Members :
        /\ Called(p) /\ pc[p] # "wait" => Called(Root) /\ (p # Root => Parent(p) \in PokedBy(p))
        /\ Called(p) /\ pc[p] \in {"reset", "out"} => PokedBy(p) = Neighbours(p)

TargetInv ==
    /\ target[Root] \in 0 .. MaxCalls
    /\ \A q \in Below : target[q] =
          IF SentData(q) /\ ~InFlight(Parent(q), q, "data") THEN Latest ELSE Latest - 1

TreeInv ==
    /\ pc[Root] \notin {"wait", "ack"}
    /\ \A p \in Members : pc[p] \notin {"barrier", "get"}
    /\ LoopInv /\ DataInv /\ IncInv /\ OnceInv /\ PSyncInv /\ PokedInv /\ TargetInv

LinearInv ==
    /\ posted = {}
    /\ \A p \in Members : /\ pc[p] \in {"out", "barrier", "get"}
                          /\ pSync[p] = 0 /\ gen[p] = 0
                          /\ pc[p] = "get" => \A q \in Members : calls[q] >= calls[p]
    /\ \A p \in Members : target[p] \in 0 .. MaxCalls
    /\ \A p \in Below : pc[p] = "out" => target[p] = calls[p]

LinearIInv == broadcast_helper = "linear" /\ ShapeOK /\ CallInv /\ LinearInv
TreeIInv   == broadcast_helper # "linear" /\ ShapeOK /\ CallInv /\ TreeInv

IInv == LinearIInv \/ TreeIInv

-----------------------------------------------------------------------------
(* The code clears a number's lowest bit; so does LowBit.                  *)
LEMMA LowBitIs ==
    \A k, j \in Nat : LowBit(2 ^ k * (2 * j + 1)) = 2 ^ k
<1> SUFFICES ASSUME NEW k \in Nat, NEW j \in Nat
             PROVE  LowBit(2 ^ k * (2 * j + 1)) = 2 ^ k
  OBVIOUS
<1> DEFINE n == 2 ^ k * (2 * j + 1)
<1>1. 2 ^ k \in Nat \ {0} /\ k < 2 ^ k
  BY PowerPositive, PowerExceeds
<1>2. n \in Nat /\ n % 2 ^ k = 0 /\ n \div 2 ^ k = 2 * j + 1
  <2>1. \A a \in Nat \ {0}, b \in Nat : a * b \in Nat /\ (a * b) % a = 0 /\ (a * b) \div a = b
    OBVIOUS
  <2>2. 2 * j + 1 \in Nat
    OBVIOUS
  <2>3. QED
    BY <1>1, <2>1, <2>2
<1>3. k \in 0 .. n
  <2>1. \A a \in Nat, b \in Nat \ {0} : a <= a * b
    OBVIOUS
  <2>2. 2 ^ k <= n
    BY <1>1, <2>1
  <2>3. QED
    BY <1>1, <1>2, <2>2
<1>4. (2 * j + 1) % 2 = 1
  OBVIOUS
<1>5. \A b \in {2 ^ m : m \in 0 .. n} : n % b = 0 /\ (n \div b) % 2 = 1 => b = 2 ^ k
  <2> SUFFICES ASSUME NEW m \in 0 .. n, n % 2 ^ m = 0, (n \div 2 ^ m) % 2 = 1
               PROVE  2 ^ m = 2 ^ k
    OBVIOUS
  <2>1. m \in Nat
    BY <1>2
  <2>2. m = k
    BY <2>1, OddPartUnique
  <2>3. QED
    BY <2>2
<1> HIDE DEF n
<1>6. 2 ^ k \in {2 ^ m : m \in 0 .. n} /\ n % 2 ^ k = 0 /\ (n \div 2 ^ k) % 2 = 1
  BY <1>2, <1>3, <1>4
<1>7. LowBit(n) = 2 ^ k
  BY <1>5, <1>6 DEF LowBit
<1>8. QED
  BY <1>7 DEF n

(* In both trees the children of an index are those whose parent it is.    *)
LEMMA TreeEdges ==
    ASSUME NEW n \in Nat, NEW c \in 0 .. PE_size - 1
    PROVE  c \in TreeChildren(n) <=> c # 0 /\ (c - 1) \div broadcast_tree_degree = n
BY BroadcastAssumption DEF TreeChildren, broadcast_tree_degree

(* In the binomial tree a child has one bit more, below the lowest of its  *)
(* parent, so that clearing its lowest bit leads back.                     *)
LEMMA BinomialEdges ==
    ASSUME NEW n \in Nat, NEW c \in 0 .. PE_size - 1
    PROVE  /\ c \in BinomialChildren(n) <=> c # 0 /\ c - LowBit(c) = n
           /\ c # 0 => c - LowBit(c) \in 0 .. c - 1
<1>1. PE_size \in Nat \ {0} /\ c \in Nat
  BY BroadcastAssumption
<1>2. ASSUME NEW k \in Nat, c = n + 2 ^ k, n # 0 => 2 ^ k < LowBit(n)
      PROVE  c # 0 /\ c - LowBit(c) = n
  <2>1. PICK A \in Nat \ {0} : A = 2 ^ k
    BY PowerPositive
  <2>2. PICK i \in Nat : n = A * (2 * i)
    <3>1. CASE n = 0
      BY <2>1, <3>1
    <3>2. CASE n # 0
      <4>1. PICK m \in Nat, j \in Nat : n = 2 ^ m * (2 * j + 1)
        BY <3>2, OddPart
      <4>2. 2 ^ k < 2 ^ m
        BY <1>2, <3>2, <4>1, LowBitIs
      <4>3. k < m
        <5>1. m <= k => 2 ^ m <= 2 ^ k
          BY PowerMonotone
        <5>2. 2 ^ m \in Nat /\ 2 ^ k \in Nat
          BY PowerPositive
        <5>3. QED
          BY <4>2, <5>1, <5>2
      <4>4. PICK d \in Nat : m = k + (d + 1)
        <5>1. m - k - 1 \in Nat /\ m = k + ((m - k - 1) + 1)
          BY <4>3
        <5>2. QED
          BY <5>1
      <4>5. 2 ^ m = A * (2 * 2 ^ d)
        <5>1. d + 1 \in Nat /\ 2 ^ (d + 1) = 2 * 2 ^ d
          BY PowerNext
        <5>2. 2 ^ (k + (d + 1)) = 2 ^ k * 2 ^ (d + 1)
          BY <5>1, PowerSum
        <5>3. QED
          BY <2>1, <4>4, <5>1, <5>2
      <4>6. PICK D \in Nat : D = 2 ^ d
        BY PowerPositive
      <4>7. n = (A * (2 * D)) * (2 * j + 1)
        BY <4>1, <4>5, <4>6
      <4>8. (A * (2 * D)) * (2 * j + 1) = A * (2 * (D * (2 * j + 1)))
        <5>1. \A u, v, w \in Nat : (u * (2 * v)) * w = u * (2 * (v * w))
          OBVIOUS
        <5>2. 2 * j + 1 \in Nat /\ A \in Nat
          BY <2>1
        <5>3. QED
          BY <5>1, <5>2
      <4>9. D * (2 * j + 1) \in Nat
        OBVIOUS
      <4>10. QED
        BY <4>7, <4>8, <4>9
    <3>3. QED
      BY <3>1, <3>2
  <2>3. c = A * (2 * i + 1)
    BY <1>2, <2>1, <2>2
  <2>4. LowBit(c) = 2 ^ k
    BY <2>1, <2>3, LowBitIs
  <2>5. QED
    BY <1>2, <2>1, <2>4
<1>3. ASSUME c # 0
      PROVE  \E k \in 0 .. PE_size : /\ LowBit(c) = 2 ^ k /\ c - 2 ^ k \in 0 .. c - 1
                                     /\ c - 2 ^ k # 0 => 2 ^ k < LowBit(c - 2 ^ k)
  <2>1. PICK k \in Nat, j \in Nat : c = 2 ^ k * (2 * j + 1)
    BY <1>1, <1>3, OddPart
  <2>2. PICK A \in Nat \ {0} : A = 2 ^ k /\ k < A
    BY PowerPositive, PowerExceeds
  <2>3. LowBit(c) = A
    BY <2>1, <2>2, LowBitIs
  <2>4. c = A + A * (2 * j) /\ A * (2 * j) \in Nat
    BY <2>1, <2>2
  <2>5. k \in 0 .. PE_size /\ c - A \in 0 .. c - 1
    BY <1>1, <2>2, <2>4
  <2>6. ASSUME c - A # 0
        PROVE  A < LowBit(c - A)
    <3>1. j # 0
      BY <2>4, <2>6
    <3>2. PICK m \in Nat, l \in Nat : j = 2 ^ m * (2 * l + 1)
      BY <3>1, OddPart
    <3>3. PICK D \in Nat \ {0} : D = 2 ^ m
      BY PowerPositive
    <3>4. c - A = (A * (2 * D)) * (2 * l + 1)
      <4>1. c - A = A * (2 * (D * (2 * l + 1)))
        BY <2>4, <3>2, <3>3
      <4>2. \A u, v, w \in Nat : (u * (2 * v)) * w = u * (2 * (v * w))
        OBVIOUS
      <4>3. 2 * l + 1 \in Nat /\ A \in Nat /\ D \in Nat
        BY <2>2, <3>3
      <4>4. QED
        BY <4>1, <4>2, <4>3
    <3>5. A * (2 * D) = 2 ^ (k + (m + 1)) /\ k + (m + 1) \in Nat
      <4>1. m + 1 \in Nat /\ 2 ^ (m + 1) = 2 * 2 ^ m
        BY PowerNext
      <4>2. 2 ^ (k + (m + 1)) = 2 ^ k * 2 ^ (m + 1)
        BY <4>1, PowerSum
      <4>3. QED
        BY <2>2, <3>3, <4>1, <4>2
    <3>6. LowBit(c - A) = A * (2 * D)
      BY <3>4, <3>5, LowBitIs
    <3>7. A < A * (2 * D)
      <4>1. \A u, v \in Nat \ {0} : u < u * (2 * v)
        OBVIOUS
      <4>2. QED
        BY <2>2, <3>3, <4>1
    <3>8. QED
      BY <3>6, <3>7
  <2>7. QED
    BY <2>2, <2>3, <2>5, <2>6
<1>4. c \in BinomialChildren(n) => c # 0 /\ c - LowBit(c) = n
  <2>1. \A k \in 0 .. PE_size : k \in Nat
    BY <1>1
  <2>2. QED
    BY <1>2, <2>1 DEF BinomialChildren
<1>5. c # 0 /\ c - LowBit(c) = n => c \in BinomialChildren(n)
  <2> SUFFICES ASSUME c # 0, c - LowBit(c) = n
               PROVE  c \in BinomialChildren(n)
    OBVIOUS
  <2>1. PICK k \in 0 .. PE_size : /\ LowBit(c) = 2 ^ k
                                  /\ c - 2 ^ k # 0 => 2 ^ k < LowBit(c - 2 ^ k)
    BY <1>3
  <2>2. 2 ^ k \in Nat
    BY <1>1, PowerPositive
  <2>3. c = n + 2 ^ k
    BY <1>1, <2>1, <2>2
  <2>4. QED
    BY <2>1, <2>3 DEF BinomialChildren
<1>6. QED
  BY <1>3, <1>4, <1>5

-----------------------------------------------------------------------------
(* Members and virtual indices correspond, and the root's is 0.            *)
LEMMA VirtualIndices ==
    ASSUME PE_root \in 0 .. PE_size - 1
    PROVE  /\ \A p \in Members : me_as(p) \in 0 .. PE_size - 1
                                 /\ PE_start + Swap(me_as(p)) * stride = p
           /\ \A n \in 0 .. PE_size - 1 :
                 LET p == PE_start + Swap(n) * stride IN p \in Members /\ me_as(p) = n
           /\ \A n \in 1 .. PE_size - 1 : Pe(n) = PE_start + Swap(n) * stride
           /\ Root \in Members /\ me_as(Root) = 0
           /\ \A p \in Members : me_as(p) = 0 <=> p = Root
<1>1. PE_start \in Nat /\ stride \in Nat \ {0} /\ PE_size \in Nat \ {0}
  BY BroadcastAssumption, PowerPositive DEF stride
<1>2. \A i \in Nat : ((PE_start + i * stride) - PE_start) \div stride = i
  BY <1>1, StridedRanks
<1>3. \A n \in 0 .. PE_size - 1 : Swap(n) \in 0 .. PE_size - 1 /\ Swap(Swap(n)) = n
  BY <1>1 DEF Swap
<1>4. \A i \in 0 .. PE_size - 1 :
          PE_start + i * stride \in Members /\ me_as(PE_start + i * stride) = Swap(i)
  BY <1>1, <1>2 DEF Members, me_as
<1>5. \A p \in Members : \E i \in 0 .. PE_size - 1 : p = PE_start + i * stride
  BY DEF Members
<1>6. ASSUME NEW p \in Members
      PROVE  me_as(p) \in 0 .. PE_size - 1 /\ PE_start + Swap(me_as(p)) * stride = p
  <2>1. PICK i \in 0 .. PE_size - 1 : p = PE_start + i * stride
    BY <1>5
  <2>2. me_as(p) = Swap(i)
    BY <1>4, <2>1
  <2>3. QED
    BY <1>3, <2>1, <2>2
<1>7. ASSUME NEW n \in 0 .. PE_size - 1
      PROVE  LET p == PE_start + Swap(n) * stride IN p \in Members /\ me_as(p) = n
  BY <1>3, <1>4
<1>8. \A n \in 1 .. PE_size - 1 : Pe(n) = PE_start + Swap(n) * stride
  <2> SUFFICES ASSUME NEW n \in 1 .. PE_size - 1
               PROVE  Pe(n) = PE_start + Swap(n) * stride
    OBVIOUS
  <2>1. n # 0
    BY <1>1
  <2>2. Swap(n) = IF n = PE_root THEN 0 ELSE n
    BY <2>1 DEF Swap
  <2>3. QED
    BY <2>2 DEF Pe
<1>9. Root \in Members /\ me_as(Root) = 0
  <2>1. Swap(PE_root) = 0
    BY DEF Swap
  <2>2. QED
    BY <1>4, <2>1 DEF Root
<1>10. ASSUME NEW p \in Members, me_as(p) = 0
       PROVE  p = Root
  <2>1. Swap(0) = PE_root
    BY DEF Swap
  <2>2. QED
    BY <1>6, <1>10, <2>1 DEF Root
<1>11. QED
  BY <1>6, <1>7, <1>8, <1>9, <1>10

(* The parents' and the children's view of the tree agree.                 *)
LEMMA Edges ==
    ASSUME PE_root \in 0 .. PE_size - 1
    PROVE  /\ \A q \in Below : /\ q \in Members /\ Parent(q) \in Members
                               /\ me_as(q) \in Children(Parent(q)) /\ Pe(me_as(q)) = q
                               /\ Parent(q) \in Below => Parent(Parent(q)) # q
           /\ \A p \in Members : \A c \in Children(p) :
                 Pe(c) \in Below /\ Parent(Pe(c)) = p /\ me_as(Pe(c)) = c
           /\ \A p \in Members : Children(p) \subseteq 0 .. PE_size - 1
<1>1. PE_size \in Nat \ {0}
  BY BroadcastAssumption
<1>2. \A c \in 1 .. PE_size - 1 : ParentIndex(c) \in 0 .. c - 1
  BY <1>1, BinomialEdges DEF ParentIndex, broadcast_tree_degree
<1>3. \A p \in Members : \A c \in 0 .. PE_size - 1 :
          c \in Children(p) <=> c # 0 /\ ParentIndex(c) = me_as(p)
  <2> SUFFICES ASSUME NEW p \in Members, NEW c \in 0 .. PE_size - 1
               PROVE  c \in Children(p) <=> c # 0 /\ ParentIndex(c) = me_as(p)
    OBVIOUS
  <2>1. PICK n \in Nat : n = me_as(p)
    BY <1>1, VirtualIndices
  <2>2. QED
    BY <2>1, TreeEdges, BinomialEdges DEF Children, ParentIndex
<1>4. \A p \in Members : Children(p) \subseteq 0 .. PE_size - 1
  BY DEF Children, TreeChildren, BinomialChildren
<1>5. ASSUME NEW q \in Below
      PROVE  /\ q \in Members /\ Parent(q) \in Members /\ Pe(me_as(q)) = q
             /\ me_as(q) \in 1 .. PE_size - 1 /\ me_as(Parent(q)) = ParentIndex(me_as(q))
  <2>1. q \in Members /\ q # Root
    BY DEF Below
  <2>2. me_as(q) \in 1 .. PE_size - 1 /\ PE_start + Swap(me_as(q)) * stride = q
    <3>1. me_as(q) \in 0 .. PE_size - 1 /\ me_as(q) # 0
          /\ PE_start + Swap(me_as(q)) * stride = q
      BY <2>1, VirtualIndices
    <3>2. QED
      BY <1>1, <3>1
  <2>3. PICK n \in 0 .. PE_size - 1 : n = ParentIndex(me_as(q))
    BY <1>1, <1>2, <2>2
  <2>4. Parent(q) = PE_start + Swap(n) * stride
    BY <2>3 DEF Parent
  <2>5. Parent(q) \in Members /\ me_as(Parent(q)) = n
    BY <2>4, VirtualIndices
  <2>6. Pe(me_as(q)) = q
    BY <2>2, VirtualIndices
  <2>7. QED
    BY <2>1, <2>2, <2>3, <2>5, <2>6
<1>6. ASSUME NEW q \in Below
      PROVE  /\ me_as(q) \in Children(Parent(q))
             /\ Parent(q) \in Below => Parent(Parent(q)) # q
  <2>1. me_as(q) \in 0 .. PE_size - 1 /\ me_as(q) # 0
    BY <1>1, <1>5
  <2>2. me_as(q) \in Children(Parent(q))
    BY <1>3, <1>5, <2>1
  <2>3. ASSUME Parent(q) \in Below, Parent(Parent(q)) = q
        PROVE  FALSE
    <3>1. PICK a \in 1 .. PE_size - 1 : a = me_as(q)
      BY <1>5
    <3>2. PICK b \in 1 .. PE_size - 1 : b = me_as(Parent(q))
      BY <1>5, <2>3
    <3>3. b \in 0 .. a - 1
      BY <1>2, <1>5, <3>1, <3>2
    <3>4. a \in 0 .. b - 1
      BY <1>2, <1>5, <2>3, <3>1, <3>2
    <3>5. QED
      BY <1>1, <3>3, <3>4
  <2>4. QED
    BY <2>2, <2>3
<1>7. ASSUME NEW p \in Members, NEW c \in Children(p)
      PROVE  Pe(c) \in Below /\ Parent(Pe(c)) = p /\ me_as(Pe(c)) = c
  <2>1. c \in 1 .. PE_size - 1 /\ c \in 0 .. PE_size - 1 /\ ParentIndex(c) = me_as(p)
    BY <1>1, <1>3, <1>4
  <2>2. Pe(c) = PE_start + Swap(c) * stride
    BY <2>1, VirtualIndices
  <2>3. Pe(c) \in Members /\ me_as(Pe(c)) = c
    BY <2>1, <2>2, VirtualIndices
  <2>4. Pe(c) # Root
    <3>1. c # 0
      BY <1>1, <2>1
    <3>2. QED
      BY <2>3, <3>1, VirtualIndices
  <2>5. Parent(Pe(c)) = PE_start + Swap(me_as(p)) * stride
    BY <2>1, <2>3 DEF Parent
  <2>6. QED
    BY <2>3, <2>4, <2>5, VirtualIndices DEF Below
<1>8. QED
  BY <1>4, <1>5, <1>6, <1>7

(* The active set has as many members as the call says.                    *)
LEMMA MembersAre == IsFiniteSet(Members) /\ Cardinality(Members) = PE_size
<1> DEFINE at == [i \in 0 .. PE_size - 1 |-> PE_start + i * stride]
<1>1. PE_start \in Nat /\ stride \in Nat \ {0} /\ PE_size \in Nat \ {0}
  BY BroadcastAssumption, PowerPositive DEF stride
<1>2. \A i, j \in 0 .. PE_size - 1 : PE_start + i * stride = PE_start + j * stride => i = j
  BY <1>1, StridedRanks
<1>3. at \in Bijection(0 .. PE_size - 1, Members)
  <2>1. at \in [0 .. PE_size - 1 -> Members]
    BY DEF Members
  <2>2. \A i, j \in 0 .. PE_size - 1 : at[i] = at[j] => i = j
    BY <1>2
  <2>3. \A p \in Members : \E i \in 0 .. PE_size - 1 : at[i] = p
    BY DEF Members
  <2>4. QED
    BY <2>1, <2>2, <2>3 DEF Bijection, Injection, Surjection, IsInjective
<1>4. IsFiniteSet(0 .. PE_size - 1) /\ Cardinality(0 .. PE_size - 1) = PE_size
  BY <1>1, FS_Interval
<1>5. ExistsBijection(0 .. PE_size - 1, Members)
  BY <1>3 DEF ExistsBijection
<1>6. QED
  BY <1>4, <1>5, FS_Bijection

(* A member waits for as many increments as it has neighbours.             *)
LEMMA NeighboursAre ==
    ASSUME PE_root \in 0 .. PE_size - 1, NEW p \in Members
    PROVE  /\ IsFiniteSet(Neighbours(p)) /\ Cardinality(Neighbours(p)) = Expected(p)
           /\ IsFiniteSet(Children(p)) /\ Cardinality(Children(p)) \in 0 .. PE_size
           /\ Expected(p) \in Nat
<1> DEFINE kids == {q \in Members : q \in Below /\ p = Parent(q)}
           pe   == [c \in Children(p) |-> Pe(c)]
<1>1. IsFiniteSet(Children(p)) /\ Cardinality(Children(p)) \in 0 .. PE_size
  <2>1. PE_size \in Nat
    BY BroadcastAssumption
  <2>2. IsFiniteSet(0 .. PE_size - 1) /\ Cardinality(0 .. PE_size - 1) = PE_size
    BY BroadcastAssumption, FS_Interval
  <2>3. Children(p) \subseteq 0 .. PE_size - 1
    BY Edges
  <2>4. IsFiniteSet(Children(p)) /\ Cardinality(Children(p)) <= PE_size
    BY <2>2, <2>3, FS_Subset
  <2>5. Cardinality(Children(p)) \in Nat
    BY <2>4, FS_CardinalityType
  <2>6. QED
    BY <2>1, <2>4, <2>5
<1>2. IsFiniteSet(kids) /\ Cardinality(kids) = Cardinality(Children(p))
  <2>1. pe \in [Children(p) -> kids]
    BY Edges
  <2>2. \A c, d \in Children(p) : pe[c] = pe[d] => c = d
    BY Edges
  <2>3. \A q \in kids : \E c \in Children(p) : pe[c] = q
    BY Edges
  <2> HIDE DEF kids, pe
  <2>4. pe \in Bijection(Children(p), kids)
    BY <2>1, <2>2, <2>3 DEF Bijection, Injection, Surjection, IsInjective
  <2>5. ExistsBijection(Children(p), kids)
    BY <2>4 DEF ExistsBijection
  <2>6. QED
    BY <1>1, <2>5, FS_Bijection
<1>3. Cardinality(Children(p)) \in Nat
  BY <1>1, FS_CardinalityType
<1>4. CASE p = Root
  <2>1. Neighbours(p) = kids
    BY <1>4 DEF Neighbours, Neighbour, Below
  <2>2. Expected(p) = Cardinality(Children(p))
    BY <1>3, <1>4 DEF Expected, num_children, SHMEM_SYNC_VALUE
  <2>3. QED
    BY <1>1, <1>2, <1>3, <2>1, <2>2
<1>5. CASE p # Root
  <2>1. p \in Below /\ Parent(p) \in Members
    BY <1>5, Edges DEF Below
  <2>2. Neighbours(p) = kids \union {Parent(p)}
    BY <2>1 DEF Neighbours, Neighbour
  <2>3. Parent(p) \notin kids
    BY <2>1, Edges
  <2>4. Expected(p) = Cardinality(Children(p)) + 1
    BY <1>3, <1>5 DEF Expected, num_children, SHMEM_SYNC_VALUE
  <2> HIDE DEF kids
  <2>5. IsFiniteSet(Neighbours(p)) /\ Cardinality(Neighbours(p)) = Cardinality(kids) + 1
    BY <1>2, <2>2, <2>3, FS_AddElement
  <2>6. QED
    BY <1>1, <1>2, <1>3, <2>4, <2>5
<1>6. QED
  BY <1>4, <1>5

(* The loop over the children begins with one of them.                     *)
LEMMA FirstIn ==
    ASSUME NEW S \in SUBSET (0 .. PE_size - 1), S # {}
    PROVE  FirstOf(S) \in S
<1>1. PE_size \in Nat
  BY BroadcastAssumption
<1>2. \E c \in S : \A d \in S : c <= d
  <2>1. S \in SUBSET Nat
    BY <1>1
  <2>2. QED
    BY <2>1, LeastElement
<1>3. \E c \in S : \A d \in S : c >= d
  <2> DEFINE T == {PE_size - c : c \in S}
  <2>1. T \in SUBSET Nat /\ T # {}
    <3>1. \A c \in S : PE_size - c \in Nat
      BY <1>1
    <3>2. QED
      BY <3>1
  <2> HIDE DEF T
  <2>2. PICK m \in T : \A k \in T : m <= k
    BY <2>1, LeastElement
  <2>3. PICK c \in S : m = PE_size - c
    BY <2>2 DEF T
  <2>4. \A d \in S : PE_size - c <= PE_size - d
    BY <2>2, <2>3 DEF T
  <2>5. \A d \in S : c >= d
    BY <1>1, <2>4
  <2>6. QED
    BY <2>5
<1>4. QED
  BY <1>2, <1>3 DEF FirstOf

(* The broadcast under way is the one that the foremost member has called. *)
LEMMA GreatestIs ==
    ASSUME NEW f, NEW n \in Int,
           \A p \in Members : f[p] \in {n - 1, n}, \E p \in Members : f[p] = n
    PROVE  (CHOOSE m \in {f[p] : p \in Members} : \A q \in Members : f[q] <= m) = n
<1>1. n \in {f[p] : p \in Members} /\ \A q \in Members : f[q] <= n
  OBVIOUS
<1>2. \A m \in {f[p] : p \in Members} : (\A q \in Members : f[q] <= m) => m = n
  OBVIOUS
<1>3. QED
  BY <1>1, <1>2

-----------------------------------------------------------------------------
(* The shape of the tree is the same before and after a step.              *)
LEMMA TreeStays ==
    ASSUME UNCHANGED setup
    PROVE  /\ Root' = Root /\ Below' = Below
           /\ \A p : /\ Parent(p)' = Parent(p) /\ me_as(p)' = me_as(p)
                     /\ Children(p)' = Children(p) /\ Neighbours(p)' = Neighbours(p)
           /\ \A c : Pe(c)' = Pe(c)
           /\ \A S : FirstOf(S)' = FirstOf(S)
<1>1. Root' = Root /\ Below' = Below
  BY DEF setup, Root, Below
<1>2. \A n : ParentIndex(n)' = ParentIndex(n) /\ Swap(n)' = Swap(n)
  BY DEF setup, ParentIndex, Swap
<1>3. \A p : me_as(p)' = me_as(p) /\ Parent(p)' = Parent(p)
  BY <1>2 DEF me_as, Parent
<1>4. \A p : Children(p)' = Children(p)
  BY <1>3 DEF setup, Children
<1>5. \A p : Neighbours(p)' = Neighbours(p)
  BY <1>1, <1>3 DEF Neighbours, Neighbour
<1>6. \A c : Pe(c)' = Pe(c)
  BY DEF setup, Pe
<1>7. \A S : FirstOf(S)' = FirstOf(S)
  BY DEF setup, FirstOf
<1>8. QED
  BY <1>1, <1>3, <1>4, <1>5, <1>6, <1>7

(* A step changes nothing of what those who do not take it have sent.      *)
LEMMA OthersKeep ==
    ASSUME UNCHANGED <<setup, calls>>
    PROVE  /\ Latest' = Latest /\ \A q \in Members : Called(q)' = Called(q)
           /\ \A q \in Members : pc'[q] = pc[q] /\ todo'[q] = todo[q] =>
                 /\ DataTo(q)' = DataTo(q) /\ IncTo(q)' = IncTo(q)
                 /\ SentAck(q)' = SentAck(q)
<1>1. Latest' = Latest
  BY DEF Latest
<1>2. \A q : Called(q)' = Called(q)
  BY <1>1 DEF Called
<1>3. \A q : Children(q)' = Children(q)
  BY TreeStays
<1>4. broadcast_helper' = broadcast_helper /\ \A S : FirstOf(S)' = FirstOf(S)
  BY TreeStays DEF setup
<1>5. ASSUME NEW q \in Members, pc'[q] = pc[q] /\ todo'[q] = todo[q]
      PROVE  DataTo(q)' = DataTo(q) /\ IncTo(q)' = IncTo(q) /\ SentAck(q)' = SentAck(q)
  <2>1. pc'[q] = pc[q] /\ todo'[q] = todo[q]
    BY <1>5
  <2>2. FirstOf(todo[q])' = FirstOf(todo[q])
    BY <1>4, <2>1 DEF FirstOf
  <2>3. DataTo(q)' = DataTo(q)
    BY <1>2, <1>3, <1>4, <2>1, <2>2 DEF DataTo
  <2>4. IncTo(q)' = IncTo(q)
    BY <1>2, <1>3, <1>4, <2>1 DEF IncTo
  <2>5. SentAck(q)' = SentAck(q)
    BY <1>2, <2>1 DEF SentAck
  <2>6. QED
    BY <2>3, <2>4, <2>5
<1>6. QED
  BY <1>1, <1>2, <1>5

(* Where nothing is sent and nothing arrives, the edges stay as they are.  *)
LEMMA EdgesKept ==
    ASSUME ShapeOK, UNCHANGED setup,
           \A q \in Members : DataTo(q)' = DataTo(q) /\ IncTo(q)' = IncTo(q),
           \A q \in Below : SentAck(q)' = SentAck(q)
    PROVE  /\ \A q \in Below : SentData(q)' = SentData(q) /\ SentInc(q)' = SentInc(q)
           /\ \A p, q \in Members : Poked(q, p)' = Poked(q, p)
<1>1. /\ Below' = Below
      /\ \A p : Parent(p)' = Parent(p) /\ me_as(p)' = me_as(p)
  BY TreeStays
<1>2. \A q \in Below : Parent(q) \in Members
  BY Edges DEF ShapeOK
<1>3. \A q \in Below : SentData(q)' = SentData(q) /\ SentInc(q)' = SentInc(q)
  BY <1>1, <1>2 DEF SentData, SentInc
<1>4. \A p, q \in Members : Poked(q, p)' = Poked(q, p)
  BY <1>1, <1>3 DEF Poked
<1>5. QED
  BY <1>3, <1>4

(* Nothing is posted to a child before its data; pokes come from           *)
(* neighbours only.                                                        *)
LEMMA PokesAre ==
    ASSUME ShapeOK, LoopInv
    PROVE  /\ \A p \in Members : IncTo(p) \subseteq DataTo(p)
           /\ \A p \in Members : IncTo(p) # {} \/ DataTo(p) # {} =>
                 Called(p) /\ pc[p] \notin {"wait", "ack", "begin"}
           /\ \A p \in Members : PokedBy(p) \subseteq Neighbours(p)
<1>1. \A p \in Members : IncTo(p) \subseteq DataTo(p)
  BY DEF IncTo, DataTo
<1>2. \A p \in Members : IncTo(p) # {} \/ DataTo(p) # {} =>
          Called(p) /\ pc[p] \notin {"wait", "ack", "begin"}
  BY DEF IncTo, DataTo
<1>3. \A p \in Members : PokedBy(p) \subseteq Neighbours(p)
  BY DEF PokedBy, Poked, Neighbours, Neighbour
<1>4. QED
  BY <1>1, <1>2, <1>3

(* Past its wait a member has the data: the fence has kept the increment   *)
(* behind it.                                                              *)
LEMMA HasData ==
    ASSUME TreeIInv, NEW q \in Below, Called(q), pc[q] # "wait"
    PROVE  target[q] = Latest /\ ~InFlight(Parent(q), q, "data") /\ SentInc(q)
<1>1. q \in Members /\ q # Root /\ Parent(q) \in Members
      /\ (Parent(q) \in Below => Parent(Parent(q)) # q)
  BY Edges DEF TreeIInv, ShapeOK, Below
<1>2. Parent(q) \in PokedBy(q)
  BY <1>1 DEF TreeIInv, TreeInv, PokedInv
<1>3. SentInc(q) /\ ~InFlight(Parent(q), q, "inc")
  BY <1>1, <1>2 DEF PokedBy, Poked
<1>4. SentData(q)
  BY <1>1, <1>3, PokesAre DEF TreeIInv, TreeInv, SentData, SentInc
<1>5. ~InFlight(Parent(q), q, "data")
  <2> SUFFICES ASSUME NEW m \in posted, m.from = Parent(q), m.to = q, m.kind = "data"
               PROVE  FALSE
    BY DEF InFlight
  <2>1. \E n \in posted : n.from = m.from /\ n.to = m.to /\ n.kind = "inc"
    BY <1>3 DEF TreeIInv, TreeInv, DataInv, DataOK
  <2>2. QED
    BY <1>3, <2>1 DEF InFlight
<1>6. target[q] = Latest
  BY <1>4, <1>5 DEF TreeIInv, TreeInv, TargetInv
<1>7. QED
  BY <1>3, <1>5, <1>6

(* A step of a call in which no increment arrives.                         *)
LEMMA PlacesKept ==
    ASSUME TreeIInv, NEW p \in Members, UNCHANGED <<setup, calls>>,
           pc[p] # "out", \A q \in Members : q # p => pc'[q] = pc[q],
           \A q \in Members : pSync'[q] = IF q = p /\ pc'[p] = "out" THEN 0 ELSE pSync[q],
           \A q \in Members : PokedBy(q)' = PokedBy(q),
           pc[p] = "wait" => Called(Root) /\ (p # Root => Parent(p) \in PokedBy(p)),
           pc'[p] \in {"reset", "out"} => PokedBy(p) = Neighbours(p)
    PROVE  CallInv' /\ PSyncInv' /\ PokedInv'
<1>1. Latest' = Latest
  BY DEF Latest
<1>2. \A q : Called(q)' = Called(q)
  BY <1>1 DEF Called
<1>3. Root' = Root /\ \A q : Parent(q)' = Parent(q) /\ Neighbours(q)' = Neighbours(q)
  BY TreeStays
<1>4. CallInv'
  BY <1>1, <1>2 DEF TreeIInv, CallInv
<1>5. PSyncInv'
  <2>1. Called(p)
    BY DEF TreeIInv, CallInv
  <2>2. QED
    BY <1>2, <2>1 DEF TreeIInv, TreeInv, PSyncInv
<1>6. PokedInv'
  <2> SUFFICES ASSUME NEW q \in Members, Called(q)
               PROVE  /\ pc'[q] # "wait" => /\ Called(Root)
                                            /\ q # Root => Parent(q) \in PokedBy(q)
                      /\ pc'[q] \in {"reset", "out"} => PokedBy(q) = Neighbours(q)
    BY <1>2, <1>3 DEF PokedInv
  <2>1. /\ pc[q] # "wait" => Called(Root) /\ (q # Root => Parent(q) \in PokedBy(q))
        /\ pc[q] \in {"reset", "out"} => PokedBy(q) = Neighbours(q)
    BY DEF TreeIInv, TreeInv, PokedInv
  <2>2. QED
    BY <2>1
<1>7. QED
  BY <1>4, <1>5, <1>6

(* A step of a call that posts nothing and in which nothing arrives.       *)
LEMMA SilentStep ==
    ASSUME TreeIInv, ShapeOK', NEW p \in Members,
           UNCHANGED <<setup, calls, posted, target>>,
           pc[p] # "out", pc'[p] \notin {"barrier", "get"},
           \A q \in Members : pSync'[q] = IF q = p /\ pc'[p] = "out" THEN 0 ELSE pSync[q],
           p = Root => pc'[p] \notin {"wait", "ack"},
           \A q \in Members : q # p => pc'[q] = pc[q] /\ todo'[q] = todo[q] /\ gen'[q] = gen[q],
           DataTo(p)' = DataTo(p), IncTo(p)' = IncTo(p), SentAck(p)' = SentAck(p),
           gen'[p] >= gen[p], pc'[p] = "inc" => gen'[p] > gen[p],
           LoopAt(p)', GenAt(p)',
           pc[p] = "wait" => Called(Root) /\ (p # Root => Parent(p) \in PokedBy(p)),
           pc'[p] \in {"reset", "out"} => PokedBy(p) = Neighbours(p)
    PROVE  TreeIInv'
<1>1. /\ Latest' = Latest /\ \A q \in Members : Called(q)' = Called(q)
      /\ \A q \in Members : DataTo(q)' = DataTo(q) /\ IncTo(q)' = IncTo(q)
      /\ \A q \in Members : SentAck(q)' = SentAck(q)
  BY OthersKeep
<1>2. /\ \A q \in Below : SentData(q)' = SentData(q) /\ SentInc(q)' = SentInc(q)
      /\ \A q, r \in Members : Poked(q, r)' = Poked(q, r)
  <2>1. \A q \in Below : SentAck(q)' = SentAck(q)
    BY <1>1 DEF Below
  <2>2. QED
    BY <1>1, <2>1, EdgesKept DEF TreeIInv
<1>3. /\ Root' = Root /\ Below' = Below
      /\ \A q : Parent(q)' = Parent(q) /\ Children(q)' = Children(q)
  BY TreeStays
<1>4. \A a, b, k : InFlight(a, b, k)' = InFlight(a, b, k)
  BY DEF InFlight
<1>5. \A q \in Members : PokedBy(q)' = PokedBy(q)
  BY <1>2, <1>4 DEF PokedBy
<1>6. CallInv' /\ PSyncInv' /\ PokedInv'
  BY <1>5, PlacesKept
<1>7. LoopInv'
  <2>1. \A q \in Members : q # p => LoopAt(q)' = LoopAt(q) /\ GenAt(q)' = GenAt(q)
    BY <1>3 DEF LoopAt, GenAt, setup
  <2>2. QED
    BY <2>1 DEF TreeIInv, TreeInv, LoopInv
<1>8. DataInv'
  <2> SUFFICES ASSUME NEW m \in posted, m.kind = "data"
               PROVE  DataOK(m)'
    BY DEF DataInv
  <2>1. DataOK(m)
    BY DEF TreeIInv, TreeInv, DataInv
  <2>2. m.from \in Members /\ m.gen \in Nat
    BY DEF TreeIInv, ShapeOK
  <2>3. gen[m.from] \in Nat /\ gen'[m.from] \in Nat
    BY <2>2 DEF TreeIInv, ShapeOK
  <2>4. m.gen <= gen'[m.from]
    BY <2>1, <2>2, <2>3 DEF DataOK
  <2>5. pc'[m.from] = "inc" /\ ~SentInc(m.to) => m.gen < gen'[m.from]
    BY <2>1, <2>2, <2>3 DEF DataOK
  <2>6. QED
    BY <1>1, <1>2, <1>3, <2>1, <2>4, <2>5 DEF DataOK
<1>9. IncInv'
  <2>1. \A m \in posted : m.from \in Members /\ m.to \in Members
    BY DEF TreeIInv, ShapeOK
  <2>2. QED
    BY <1>2, <2>1 DEF TreeIInv, TreeInv, IncInv
<1>10. OnceInv'
  BY DEF TreeIInv, TreeInv, OnceInv
<1>11. TargetInv'
  BY <1>1, <1>2, <1>3, <1>4 DEF TreeIInv, TreeInv, TargetInv
<1>12. pc'[Root] \notin {"wait", "ack"} /\ \A q \in Members : pc'[q] \notin {"barrier", "get"}
  <2>1. Root \in Members
    BY VirtualIndices DEF TreeIInv, ShapeOK
  <2>2. QED
    BY <2>1 DEF TreeIInv, TreeInv
<1>13. QED
  BY <1>3, <1>6, <1>7, <1>8, <1>9, <1>10, <1>11, <1>12 DEF TreeIInv, TreeInv, setup

(* A poke that arrives while a member waits is its parent's: a child that  *)
(* has acknowledged has been let go by this member first.                  *)
LEMMA WaitParentStep ==
    ASSUME TreeIInv, NEW p \in Members, WaitParent(p)
    PROVE  TreeIInv'
<1>1. /\ pc[p] = "wait" /\ pSync[p] # 0 /\ pc' = [pc EXCEPT ![p] = "ack"]
      /\ UNCHANGED <<setup, calls, posted, pSync, target, todo, gen>>
  BY DEF WaitParent, Goto, SHMEM_SYNC_VALUE
<1>2. DOMAIN pc = Members /\ PE_size \in Nat
  BY BroadcastAssumption DEF TreeIInv, ShapeOK
<1>3. pc'[p] = "ack" /\ \A q \in Members : q # p => pc'[q] = pc[q]
  BY <1>1, <1>2
<1>4. Called(p) /\ p # Root
  BY <1>1 DEF TreeIInv, TreeInv, CallInv
<1>5. \E q : q \in PokedBy(p)
  <2>1. Cardinality(PokedBy(p)) # 0
    BY <1>1 DEF TreeIInv, TreeInv, PSyncInv
  <2>2. PokedBy(p) # {}
    BY <2>1, FS_EmptySet
  <2>3. QED
    BY <2>2
<1>6. SentInc(p) /\ Parent(p) \in PokedBy(p)
  <2>1. PICK q \in Members : q \in PokedBy(p) /\ Poked(q, p)
    BY <1>5 DEF PokedBy
  <2>2. ASSUME q \in Below, p = Parent(q), SentAck(q)
        PROVE  FALSE
    <3>1. SentInc(q)
      BY <2>2, HasData DEF SentAck
    <3>2. IncTo(p) # {}
      BY <2>2, <3>1 DEF SentInc
    <3>3. QED
      BY <1>1, <3>2, PokesAre DEF TreeIInv, TreeInv
  <2>3. QED
    BY <2>1, <2>2 DEF Poked
<1>7. Called(Root)
  <2>1. Parent(p) \in Members /\ IncTo(Parent(p)) # {}
    BY <1>4, <1>6, Edges DEF TreeIInv, ShapeOK, SentInc, Below
  <2>2. Called(Parent(p)) /\ pc[Parent(p)] # "wait"
    BY <2>1, PokesAre DEF TreeIInv, TreeInv
  <2>3. QED
    BY <2>1, <2>2 DEF TreeIInv, TreeInv, PokedInv
<1>8. DataTo(p)' = DataTo(p) /\ IncTo(p)' = IncTo(p) /\ SentAck(p)' = SentAck(p)
  <2>1. Called(p)'
    BY <1>1, <1>4 DEF Called, Latest
  <2>2. QED
    BY <1>1, <1>3, <1>4, <2>1 DEF DataTo, IncTo, SentAck
<1>9. LoopAt(p)' /\ GenAt(p)'
  BY <1>1, <1>3 DEF LoopAt, GenAt, TreeIInv, TreeInv, LoopInv
<1>10. ShapeOK'
  BY <1>1 DEF TreeIInv, ShapeOK, setup
<1>11. gen[p] \in Nat
  BY DEF TreeIInv, ShapeOK
<1>12. QED
  BY <1>1, <1>3, <1>4, <1>6, <1>7, <1>8, <1>9, <1>10, <1>11, SilentStep

(* A member without children has been poked by all it waits for.           *)
LEMMA BeginStep ==
    ASSUME TreeIInv, NEW p \in Members, Begin(p)
    PROVE  TreeIInv'
<1> DEFINE to == IF Children(p) = {} THEN "reset" ELSE "put"
<1>1. /\ pc[p] = "begin" /\ pc' = [pc EXCEPT ![p] = to]
      /\ todo' = [todo EXCEPT ![p] = Children(p)]
      /\ UNCHANGED <<setup, calls, posted, pSync, target, gen>>
  BY DEF Begin, Goto
<1>2. DOMAIN pc = Members /\ DOMAIN todo = Members /\ PE_size \in Nat
  BY BroadcastAssumption DEF TreeIInv, ShapeOK
<1>3. /\ pc'[p] = to /\ todo'[p] = Children(p)
      /\ \A q \in Members : q # p => pc'[q] = pc[q] /\ todo'[q] = todo[q]
  BY <1>1, <1>2
<1>4. Called(p) /\ Called(p)'
  BY <1>1 DEF TreeIInv, CallInv, Called, Latest
<1>5. Children(p)' = Children(p)
  BY <1>1, TreeStays
<1>6. DataTo(p)' = DataTo(p) /\ IncTo(p)' = IncTo(p) /\ SentAck(p)' = SentAck(p)
  <2>1. DataTo(p) = {} /\ IncTo(p) = {} /\ SentAck(p)
    BY <1>1, <1>4 DEF DataTo, IncTo, SentAck
  <2>2. DataTo(p)' = {} /\ SentAck(p)'
    BY <1>1, <1>3, <1>4, <1>5 DEF DataTo, SentAck
  <2>3. IncTo(p)' = {}
    BY <1>1, <1>3, <1>4, <1>5 DEF IncTo
  <2>4. QED
    BY <2>1, <2>2, <2>3
<1>7. LoopAt(p)' /\ GenAt(p)'
  <2>1. gen[p] = 0 /\ gen'[p] = 0
    BY <1>1 DEF TreeIInv, TreeInv, LoopInv, GenAt
  <2>2. Cardinality(Children(p)) \in 0 .. PE_size
    BY NeighboursAre DEF TreeIInv, ShapeOK
  <2>3. LoopAt(p)'
    BY <1>3, <1>5 DEF LoopAt
  <2>4. GenAt(p)'
    BY <1>2, <1>3, <2>1, <2>2 DEF GenAt
  <2>5. QED
    BY <2>3, <2>4
<1>8. ShapeOK'
  <2>1. Children(p) \in SUBSET (0 .. PE_size - 1)
    BY Edges DEF TreeIInv, ShapeOK
  <2>2. QED
    BY <1>1, <2>1 DEF TreeIInv, ShapeOK, setup
<1>9. Children(p) = {} => PokedBy(p) = Neighbours(p)
  <2> SUFFICES ASSUME Children(p) = {}
               PROVE  \A q \in Neighbours(p) : q \in PokedBy(p)
    BY PokesAre DEF TreeIInv, TreeInv
  <2> SUFFICES ASSUME NEW q \in Members, Neighbour(q, p)
               PROVE  q \in PokedBy(p)
    BY DEF Neighbours
  <2>1. ~(q \in Below /\ p = Parent(q))
    BY Edges DEF TreeIInv, ShapeOK
  <2>2. p # Root /\ q = Parent(p)
    BY <2>1 DEF Neighbour, Below
  <2>3. QED
    BY <1>1, <1>4, <2>2 DEF TreeIInv, TreeInv, PokedInv
<1>10. gen'[p] \in Nat /\ gen' = gen
  BY <1>1 DEF TreeIInv, ShapeOK
<1>11. /\ pc[p] # "out" /\ pc[p] # "wait"
       /\ pc'[p] \notin {"out", "barrier", "get", "wait", "ack", "inc"}
       /\ pc'[p] = "reset" => Children(p) = {}
  BY <1>1, <1>3
<1> HIDE DEF to
<1>12. QED
  BY <1>1, <1>3, <1>6, <1>7, <1>8, <1>9, <1>10, <1>11, SilentStep

(* What is posted from here on is of a later generation.                   *)
LEMMA FenceStep ==
    ASSUME TreeIInv, NEW p \in Members, Fence(p)
    PROVE  TreeIInv'
<1> DEFINE rest == IF broadcast_helper = "binomial" THEN todo[p] ELSE Children(p)
<1>1. /\ pc[p] = "fence" /\ pc' = [pc EXCEPT ![p] = "inc"]
      /\ gen' = [gen EXCEPT ![p] = gen[p] + 1]
      /\ todo' = [todo EXCEPT ![p] = rest]
      /\ UNCHANGED <<setup, calls, posted, pSync, target>>
  BY DEF Fence, Goto, Restart
<1>2. DOMAIN pc = Members /\ DOMAIN todo = Members /\ DOMAIN gen = Members /\ PE_size \in Nat \ {0}
  BY BroadcastAssumption DEF TreeIInv, ShapeOK
<1>3. /\ pc'[p] = "inc" /\ todo'[p] = rest /\ gen'[p] = gen[p] + 1
      /\ \A q \in Members : q # p => pc'[q] = pc[q] /\ todo'[q] = todo[q] /\ gen'[q] = gen[q]
  BY <1>1, <1>2
<1>4. Called(p) /\ Called(p)'
  BY <1>1 DEF TreeIInv, CallInv, Called, Latest
<1>5. Children(p)' = Children(p) /\ \A S : FirstOf(S)' = FirstOf(S)
  BY <1>1, TreeStays
<1>6. LoopAt(p) /\ GenAt(p)
  BY DEF TreeIInv, TreeInv, LoopInv
<1>7. FirstOf(todo[p])' = IF broadcast_helper = "binomial" THEN FirstOf(todo[p]) ELSE FirstOf(Children(p))
  <2>1. broadcast_helper' = broadcast_helper
    BY <1>1 DEF setup
  <2>2. CASE broadcast_helper = "binomial"
    <3>1. todo'[p] = todo[p]
      BY <1>3, <2>2
    <3>2. QED
      BY <2>1, <2>2, <3>1 DEF FirstOf
  <2>3. CASE broadcast_helper # "binomial"
    <3>1. todo'[p] = Children(p)
      BY <1>3, <2>3
    <3>2. QED
      BY <2>1, <2>3, <3>1 DEF FirstOf
  <2>4. QED
    BY <2>2, <2>3
<1>8. DataTo(p)' = DataTo(p) /\ IncTo(p)' = IncTo(p) /\ SentAck(p)' = SentAck(p)
  <2>1. broadcast_helper' = broadcast_helper
    BY <1>1 DEF setup
  <2>2. DataTo(p)' = DataTo(p)
    BY <1>1, <1>3, <1>4, <1>5, <1>7, <2>1 DEF DataTo
  <2>3. IncTo(p)' = IncTo(p)
    BY <1>1, <1>3, <1>4, <1>5, <2>1 DEF IncTo
  <2>4. SentAck(p)' = SentAck(p)
    BY <1>1, <1>3, <1>4 DEF SentAck
  <2>5. QED
    BY <2>2, <2>3, <2>4
<1>9. gen[p] \in Nat
  BY DEF TreeIInv, ShapeOK
<1>10. LoopAt(p)'
  BY <1>1, <1>3, <1>5, <1>6 DEF LoopAt
<1>11. GenAt(p)'
  <2>1. broadcast_helper' = broadcast_helper
    BY <1>1 DEF setup
  <2>2. CASE broadcast_helper = "binomial"
    <3>1. todo[p] # {} /\ todo[p] \subseteq Children(p) /\ gen[p] + Cardinality(todo[p]) <= PE_size
      BY <1>1, <1>6, <2>2 DEF LoopAt, GenAt
    <3>2. IsFiniteSet(Children(p))
      BY NeighboursAre DEF TreeIInv, ShapeOK
    <3>3. Cardinality(todo[p]) \in Nat /\ Cardinality(todo[p]) # 0
      BY <3>1, <3>2, FS_Subset, FS_EmptySet, FS_CardinalityType
    <3>4. todo'[p] = todo[p]
      BY <1>3, <2>2
    <3>5. QED
      BY <1>2, <1>3, <1>9, <2>1, <2>2, <3>1, <3>3, <3>4 DEF GenAt
  <2>3. CASE broadcast_helper # "binomial"
    <3>1. gen[p] = 0
      BY <1>1, <1>6, <2>3 DEF GenAt
    <3>2. QED
      BY <1>2, <1>3, <2>1, <2>3, <3>1 DEF GenAt
  <2>4. QED
    BY <2>2, <2>3
<1>12. ShapeOK'
  <2>1. Children(p) \in SUBSET (0 .. PE_size - 1)
    BY Edges DEF TreeIInv, ShapeOK
  <2>2. QED
    BY <1>1, <2>1 DEF TreeIInv, ShapeOK, setup
<1>13. gen'[p] >= gen[p] /\ gen'[p] > gen[p]
  BY <1>3, <1>9
<1> HIDE DEF rest
<1>14. QED
  BY <1>1, <1>3, <1>8, <1>10, <1>11, <1>12, <1>13, SilentStep

(* As many pokes as neighbours, each counted once, are those of all.       *)
LEMMA GatherAcksStep ==
    ASSUME TreeIInv, NEW p \in Members, GatherAcks(p)
    PROVE  TreeIInv'
<1>1. /\ pc[p] = "gather" /\ pSync[p] = Expected(p) /\ pc' = [pc EXCEPT ![p] = "reset"]
      /\ UNCHANGED <<setup, calls, posted, pSync, target, todo, gen>>
  BY DEF GatherAcks, Goto
<1>2. DOMAIN pc = Members
  BY DEF TreeIInv, ShapeOK
<1>3. pc'[p] = "reset" /\ \A q \in Members : q # p => pc'[q] = pc[q]
  BY <1>1, <1>2
<1>4. Called(p) /\ Called(p)'
  BY <1>1 DEF TreeIInv, CallInv, Called, Latest
<1>5. Children(p)' = Children(p)
  BY <1>1, TreeStays
<1>6. DataTo(p)' = DataTo(p) /\ IncTo(p)' = IncTo(p) /\ SentAck(p)' = SentAck(p)
  BY <1>1, <1>3, <1>4, <1>5 DEF DataTo, IncTo, SentAck
<1>7. LoopAt(p)' /\ GenAt(p)'
  <2>1. gen[p] <= PE_size
    BY DEF TreeIInv, TreeInv, LoopInv, GenAt
  <2>2. QED
    BY <1>1, <1>3, <2>1 DEF LoopAt, GenAt
<1>8. ShapeOK'
  BY <1>1 DEF TreeIInv, ShapeOK, setup
<1>9. PokedBy(p) = Neighbours(p)
  <2>1. Cardinality(PokedBy(p)) = Expected(p)
    BY <1>1 DEF TreeIInv, TreeInv, PSyncInv
  <2>2. /\ IsFiniteSet(Neighbours(p)) /\ Cardinality(Neighbours(p)) = Expected(p)
    BY NeighboursAre DEF TreeIInv, ShapeOK
  <2>3. PokedBy(p) \subseteq Neighbours(p)
    BY PokesAre DEF TreeIInv, TreeInv
  <2>4. QED
    BY <2>1, <2>2, <2>3, FS_Subset
<1>10. gen'[p] \in Nat /\ gen' = gen
  BY <1>1 DEF TreeIInv, ShapeOK
<1>11. QED
  BY <1>1, <1>3, <1>6, <1>7, <1>8, <1>9, <1>10, SilentStep

(* What a post to a child changes on the edges: that child's.              *)
LEMMA EdgeGoes ==
    ASSUME ShapeOK, UNCHANGED setup, NEW p \in Members, NEW c \in Children(p),
           \A q \in Members : q # p => DataTo(q)' = DataTo(q) /\ IncTo(q)' = IncTo(q)
    PROVE  /\ Pe(c) \in Below /\ Parent(Pe(c)) = p
           /\ DataTo(p)' = DataTo(p) \union {c} =>
                 \A q \in Below : SentData(q)' <=> SentData(q) \/ q = Pe(c)
           /\ IncTo(p)' = IncTo(p) \union {c} =>
                 \A q \in Below : SentInc(q)' <=> SentInc(q) \/ q = Pe(c)
           /\ DataTo(p)' = DataTo(p) => \A q \in Below : SentData(q)' <=> SentData(q)
           /\ IncTo(p)' = IncTo(p) => \A q \in Below : SentInc(q)' <=> SentInc(q)
           /\ SentData(Pe(c)) <=> c \in DataTo(p)
           /\ SentInc(Pe(c)) <=> c \in IncTo(p)
<1>1. \A q : Parent(q)' = Parent(q) /\ me_as(q)' = me_as(q)
  BY TreeStays
<1>2. Pe(c) \in Below /\ Parent(Pe(c)) = p /\ me_as(Pe(c)) = c
  BY Edges DEF ShapeOK
<1>3. \A q \in Below : Parent(q) \in Members /\ Pe(me_as(q)) = q
  BY Edges DEF ShapeOK
<1>4. \A q \in Below : Parent(q) = p => (me_as(q) = c <=> q = Pe(c))
  BY <1>2, <1>3
<1>5. SentData(Pe(c)) <=> c \in DataTo(p)
  BY <1>2 DEF SentData
<1>6. SentInc(Pe(c)) <=> c \in IncTo(p)
  BY <1>2 DEF SentInc
<1>7. \A q \in Below : SentData(q)' <=> me_as(q) \in DataTo(Parent(q))'
  BY <1>1 DEF SentData
<1>8. \A q \in Below : SentInc(q)' <=> me_as(q) \in IncTo(Parent(q))'
  BY <1>1 DEF SentInc
<1>9. ASSUME NEW q \in Below
      PROVE  /\ DataTo(p)' = DataTo(p) \union {c} => (SentData(q)' <=> SentData(q) \/ q = Pe(c))
             /\ DataTo(p)' = DataTo(p) => (SentData(q)' <=> SentData(q))
  <2>1. SentData(q)' <=> me_as(q) \in DataTo(Parent(q))'
    BY <1>7
  <2>2. SentData(q) <=> me_as(q) \in DataTo(Parent(q))
    BY DEF SentData
  <2>3. CASE Parent(q) = p
    <3>1. SentData(q)' <=> me_as(q) \in DataTo(p)'
      BY <1>1, <2>3 DEF SentData
    <3>2. QED
      BY <1>4, <2>2, <2>3, <3>1
  <2>4. CASE Parent(q) # p
    <3>1. DataTo(Parent(q))' = DataTo(Parent(q)) /\ q # Pe(c)
      BY <1>1, <1>2, <1>3, <2>4
    <3>2. QED
      BY <2>1, <2>2, <3>1
  <2>5. QED
    BY <2>3, <2>4
<1>10. ASSUME NEW q \in Below
       PROVE  /\ IncTo(p)' = IncTo(p) \union {c} => (SentInc(q)' <=> SentInc(q) \/ q = Pe(c))
              /\ IncTo(p)' = IncTo(p) => (SentInc(q)' <=> SentInc(q))
  <2>1. SentInc(q)' <=> me_as(q) \in IncTo(Parent(q))'
    BY <1>8
  <2>2. SentInc(q) <=> me_as(q) \in IncTo(Parent(q))
    BY DEF SentInc
  <2>3. CASE Parent(q) = p
    <3>1. SentInc(q)' <=> me_as(q) \in IncTo(p)'
      BY <1>1, <2>3 DEF SentInc
    <3>2. QED
      BY <1>4, <2>2, <2>3, <3>1
  <2>4. CASE Parent(q) # p
    <3>1. IncTo(Parent(q))' = IncTo(Parent(q)) /\ q # Pe(c)
      BY <1>1, <1>2, <1>3, <2>4
    <3>2. QED
      BY <2>1, <2>2, <3>1
  <2>5. QED
    BY <2>3, <2>4
<1>11. QED
  BY <1>2, <1>5, <1>6, <1>9, <1>10

(* A step within a call that posts one thing, for the first time, along an *)
(* edge: an acknowledgement, or data or the increment behind it.           *)
LEMMA PostStep ==
    ASSUME TreeIInv, ShapeOK', NEW p \in Members, NEW y \in Members,
           NEW k \in {"data", "inc"}, NEW v,
           UNCHANGED <<setup, calls, pSync, target, gen>>,
           posted' = posted \union
               {[from |-> p, to |-> y, kind |-> k, val |-> v, gen |-> gen[p]]},
           pc[p] \notin {"out", "wait"},
           pc'[p] \notin {"out", "barrier", "get", "wait", "ack", "reset"},
           pc'[p] = "inc" => pc[p] = "inc" /\ k = "inc",
           \A q \in Members : q # p => pc'[q] = pc[q] /\ todo'[q] = todo[q],
           LoopAt(p)', GenAt(p)',
           \A q \in Below : SentData(q)' <=> SentData(q) \/ (k = "data" /\ q = y),
           \A q \in Below : SentInc(q)' <=> SentInc(q) \/ (k = "inc" /\ q = y /\ p = Parent(y)),
           \A q \in Members : SentAck(q)' <=>
               SentAck(q) \/ (k = "inc" /\ q = p /\ p # Root /\ y = Parent(p)),
           \/ y \in Below /\ p = Parent(y) /\ k = "data" /\ v = Latest
                 /\ ~SentData(y) /\ ~SentInc(y)
           \/ y \in Below /\ p = Parent(y) /\ k = "inc" /\ v = 0 /\ pc[p] = "inc" /\ ~SentInc(y)
           \/ p \in Below /\ y = Parent(p) /\ k = "inc" /\ v = 0 /\ ~SentAck(p)
    PROVE  TreeIInv'
<1>0. PICK new : new = [from |-> p, to |-> y, kind |-> k, val |-> v, gen |-> gen[p]]
  OBVIOUS
<1>1. /\ Root' = Root /\ Below' = Below
      /\ \A q : Parent(q)' = Parent(q) /\ Children(q)' = Children(q)
  BY TreeStays
<1>2. /\ \A q \in Below : q \in Members /\ q # Root /\ Parent(q) \in Members
      /\ \A q \in Below : Parent(q) \in Below => Parent(Parent(q)) # q
  BY Edges DEF TreeIInv, ShapeOK, Below
<1>3. Latest' = Latest
  BY DEF Latest
<1>4. /\ new.from = p /\ new.to = y /\ new.kind = k /\ new.val = v /\ new.gen = gen[p]
      /\ posted' = posted \union {new}
  BY <1>0
<1>5. \A a, b, l : InFlight(a, b, l)' <=> InFlight(a, b, l) \/ (a = p /\ b = y /\ l = k)
  BY <1>4 DEF InFlight
<1>6. gen[p] \in Nat /\ gen[p] <= PE_size
  BY DEF TreeIInv, TreeInv, LoopInv, GenAt, ShapeOK
<1>7. \A q, r \in Members : Poked(q, r)' <=> Poked(q, r) \/ (k = "inc" /\ q = p /\ r = y)
  <2> SUFFICES ASSUME NEW q \in Members, NEW r \in Members
               PROVE  Poked(q, r)' <=> Poked(q, r) \/ (k = "inc" /\ q = p /\ r = y)
    OBVIOUS
  <2>1. Poked(q, r)' <=> \/ r \in Below /\ q = Parent(r) /\ SentInc(r)'
                         \/ q \in Below /\ r = Parent(q) /\ SentAck(q)'
    BY <1>1 DEF Poked
  <2>2. Poked(q, r) <=> \/ r \in Below /\ q = Parent(r) /\ SentInc(r)
                        \/ q \in Below /\ r = Parent(q) /\ SentAck(q)
    BY DEF Poked
  <2>3. QED
    BY <1>2, <2>1, <2>2
<1>8. k = "inc" => ~Poked(p, y)
  BY <1>2 DEF Poked
<1>9. ~InFlight(p, y, k)
  <2> SUFFICES ASSUME NEW m \in posted, m.from = p, m.to = y, m.kind = k
               PROVE  FALSE
    BY DEF InFlight
  <2>1. CASE k = "inc"
    BY <1>8, <2>1 DEF TreeIInv, TreeInv, IncInv
  <2>2. CASE k = "data"
    BY <2>2 DEF TreeIInv, TreeInv, DataInv, DataOK
  <2>3. QED
    BY <2>1, <2>2
<1>10. \A q \in Members : PokedBy(q)' = PokedBy(q)
  <2> SUFFICES ASSUME NEW r \in Members, NEW q \in Members
               PROVE  Poked(q, r)' /\ ~InFlight(q, r, "inc")' <=> Poked(q, r) /\ ~InFlight(q, r, "inc")
    BY DEF PokedBy
  <2>1. QED
    BY <1>5, <1>7, <1>8
<1>11. CallInv' /\ PSyncInv' /\ PokedInv'
  BY <1>10, PlacesKept
<1>12. LoopInv'
  <2>1. \A q \in Members : q # p => LoopAt(q)' = LoopAt(q) /\ GenAt(q)' = GenAt(q)
    BY <1>1 DEF LoopAt, GenAt, setup
  <2>2. QED
    BY <2>1 DEF TreeIInv, TreeInv, LoopInv
<1>13. ASSUME NEW m \in posted, m.kind = "data"
       PROVE  DataOK(m)'
  <2>1. DataOK(m)
    BY <1>13 DEF TreeIInv, TreeInv, DataInv
  <2>2. m.from \in Members /\ m.to \in Below /\ m.from = Parent(m.to)
    BY <2>1 DEF TreeIInv, ShapeOK, DataOK
  <2>3. pc'[m.from] = "inc" /\ ~SentInc(m.to)' => m.gen < gen'[m.from]
    BY <2>1, <2>2 DEF DataOK
  <2>4. ASSUME SentInc(m.to)'
        PROVE  \E n \in posted' :
                   n.from = m.from /\ n.to = m.to /\ n.kind = "inc" /\ n.gen > m.gen
    <3>1. CASE SentInc(m.to)
      BY <1>4, <2>1, <3>1 DEF DataOK
    <3>2. CASE ~SentInc(m.to)
      <4>1. k = "inc" /\ m.to = y /\ m.from = p /\ pc[p] = "inc"
        BY <1>2, <2>2, <2>4, <3>2
      <4>2. gen[p] > m.gen
        <5>1. m.gen < gen[p]
          BY <2>1, <3>2, <4>1 DEF DataOK
        <5>2. m.gen \in Nat
          BY DEF TreeIInv, ShapeOK
        <5>3. QED
          BY <1>6, <5>1, <5>2
      <4>3. QED
        BY <1>4, <4>1, <4>2
    <3>3. QED
      BY <3>1, <3>2
  <2>5. SentData(m.to)' /\ m.val = Latest /\ m.gen <= gen'[m.from]
    BY <2>1, <2>2 DEF DataOK
  <2>6. QED
    BY <1>1, <1>3, <2>2, <2>3, <2>4, <2>5 DEF DataOK
<1>14. DataInv'
  <2>1. ASSUME k = "data"
        PROVE  DataOK(new)'
    <3>1. y \in Below /\ p = Parent(y) /\ v = Latest /\ ~SentInc(y)' /\ SentData(y)'
      BY <2>1
    <3>2. pc'[p] # "inc" /\ gen[p] <= gen'[p]
      BY <1>6, <2>1
    <3>3. QED
      BY <1>1, <1>3, <1>4, <3>1, <3>2 DEF DataOK
  <2>2. QED
    BY <1>4, <1>13, <2>1 DEF DataInv
<1>15. IncInv'
  <2> SUFFICES ASSUME NEW m \in posted', m.kind = "inc"
               PROVE  m.val = 0 /\ m.gen <= PE_size /\ Poked(m.from, m.to)'
    BY DEF IncInv
  <2>1. CASE m \in posted
    <3>1. m.val = 0 /\ m.gen <= PE_size /\ Poked(m.from, m.to)
      BY <2>1 DEF TreeIInv, TreeInv, IncInv
    <3>2. m.from \in Members /\ m.to \in Members
      BY <2>1 DEF TreeIInv, ShapeOK
    <3>3. QED
      BY <1>7, <3>1, <3>2
  <2>2. CASE m = new
    BY <1>4, <1>6, <1>7, <2>2
  <2>3. QED
    BY <1>4, <2>1, <2>2
<1>16. OnceInv'
  <2>1. \A m \in posted : ~(m.from = p /\ m.to = y /\ m.kind = k)
    BY <1>9 DEF InFlight
  <2>2. QED
    BY <1>4, <2>1 DEF TreeIInv, TreeInv, OnceInv
<1>17. TargetInv'
  <2>0. target'[Root] \in 0 .. MaxCalls
    BY DEF TreeIInv, TreeInv, TargetInv
  <2> SUFFICES ASSUME NEW q \in Below
               PROVE  target[q] = IF SentData(q)' /\ ~InFlight(Parent(q), q, "data")'
                                  THEN Latest ELSE Latest - 1
    BY <1>1, <1>3, <2>0 DEF TargetInv
  <2>1. target[q] = IF SentData(q) /\ ~InFlight(Parent(q), q, "data") THEN Latest ELSE Latest - 1
    BY DEF TreeIInv, TreeInv, TargetInv
  <2>2. InFlight(Parent(q), q, "data")' <=>
            InFlight(Parent(q), q, "data") \/ (Parent(q) = p /\ q = y /\ k = "data")
    BY <1>1, <1>5 DEF InFlight
  <2>3. QED
    BY <2>1, <2>2
<1>18. pc'[Root] \notin {"wait", "ack"} /\ \A q \in Members : pc'[q] \notin {"barrier", "get"}
  <2>1. Root \in Members
    BY VirtualIndices DEF TreeIInv, ShapeOK
  <2>2. QED
    BY <2>1 DEF TreeIInv, TreeInv
<1>19. QED
  BY <1>1, <1>11, <1>12, <1>14, <1>15, <1>16, <1>17, <1>18 DEF TreeIInv, TreeInv, setup

(* The acknowledgement goes along the edge to the parent.                  *)
LEMMA SendAckStep ==
    ASSUME TreeIInv, NEW p \in Members, SendAck(p)
    PROVE  TreeIInv'
<1>1. /\ pc[p] = "ack" /\ pc' = [pc EXCEPT ![p] = "begin"]
      /\ posted' = posted \union
            {[from |-> p, to |-> Parent(p), kind |-> "inc", val |-> 0, gen |-> gen[p]]}
      /\ UNCHANGED <<setup, calls, pSync, target, todo, gen>>
  BY DEF SendAck, Goto, Post
<1>2. DOMAIN pc = Members /\ PE_size \in Nat
  BY BroadcastAssumption DEF TreeIInv, ShapeOK
<1>3. pc'[p] = "begin" /\ \A q \in Members : q # p => pc'[q] = pc[q]
  BY <1>1, <1>2
<1>4. Called(p) /\ p \in Below /\ Called(p)'
  BY <1>1 DEF TreeIInv, TreeInv, CallInv, Below, Called, Latest
<1>5. Parent(p) \in Members /\ (Parent(p) \in Below => Parent(Parent(p)) # p)
  BY <1>4, Edges DEF TreeIInv, ShapeOK
<1>6. \A q \in Members : q # p =>
          DataTo(q)' = DataTo(q) /\ IncTo(q)' = IncTo(q) /\ SentAck(q)' = SentAck(q)
  BY <1>1, <1>3, OthersKeep
<1>7. DataTo(p)' = DataTo(p) /\ IncTo(p)' = IncTo(p)
  BY <1>1, <1>3, <1>4 DEF DataTo, IncTo
<1>8. \A q \in Below : (SentData(q)' <=> SentData(q)) /\ (SentInc(q)' <=> SentInc(q))
  <2>1. \A q : Parent(q)' = Parent(q) /\ me_as(q)' = me_as(q)
    BY <1>1, TreeStays
  <2>2. \A q \in Below : Parent(q) \in Members
    BY Edges DEF TreeIInv, ShapeOK
  <2>3. \A q \in Members : DataTo(q)' = DataTo(q) /\ IncTo(q)' = IncTo(q)
    BY <1>6, <1>7
  <2>4. QED
    BY <2>1, <2>2, <2>3 DEF SentData, SentInc
<1>9. ~SentAck(p) /\ SentAck(p)' /\ p # Root
  BY <1>1, <1>3, <1>4 DEF SentAck, Below
<1>10. LoopAt(p)' /\ GenAt(p)'
  <2>1. gen'[p] = 0
    BY <1>1 DEF TreeIInv, TreeInv, LoopInv, GenAt
  <2>2. QED
    BY <1>2, <1>3, <2>1 DEF LoopAt, GenAt
<1>11. ShapeOK'
  BY <1>1, <1>5 DEF TreeIInv, ShapeOK, setup
<1>12. UNCHANGED <<setup, calls, pSync, target, gen>>
  BY <1>1
<1>13. QED
  BY <1>1, <1>3, <1>4, <1>5, <1>6, <1>8, <1>9, <1>10, <1>11, <1>12, PostStep

(* What is put is the data of this broadcast: the root's own, or what the  *)
(* member has received, since it is past its wait.                         *)
LEMMA PutDataStep ==
    ASSUME TreeIInv, NEW p \in Members, PutData(p)
    PROVE  TreeIInv'
<1>0. PICK c : c = FirstOf(todo[p])
  OBVIOUS
<1> DEFINE to == IF broadcast_helper = "binomial" \/ todo[p] = {c} THEN "fence" ELSE "put"
           rest == IF broadcast_helper = "binomial" THEN todo[p] ELSE todo[p] \ {c}
           v == IF p = Root THEN calls[p] ELSE target[p]
<1>1. /\ pc[p] = "put" /\ pc' = [pc EXCEPT ![p] = to]
      /\ posted' = posted \union
            {[from |-> p, to |-> Pe(c), kind |-> "data", val |-> v, gen |-> gen[p]]}
      /\ todo' = IF broadcast_helper = "binomial" THEN todo ELSE [todo EXCEPT ![p] = rest]
      /\ UNCHANGED <<setup, calls, pSync, target, gen>>
  BY <1>0 DEF PutData, Goto, Post
<1>2. DOMAIN pc = Members /\ DOMAIN todo = Members /\ PE_size \in Nat
  BY BroadcastAssumption DEF TreeIInv, ShapeOK
<1>3. /\ pc'[p] = to /\ todo'[p] = rest
      /\ \A q \in Members : q # p => pc'[q] = pc[q] /\ todo'[q] = todo[q]
  BY <1>1, <1>2
<1>4. Called(p) /\ Called(p)'
  BY <1>1 DEF TreeIInv, CallInv, Called, Latest
<1>5. c \in todo[p] /\ todo[p] \subseteq Children(p) /\ c \in Children(p)
  <2>1. todo[p] # {} /\ todo[p] \subseteq Children(p)
    BY <1>1 DEF TreeIInv, TreeInv, LoopInv, LoopAt
  <2>2. todo[p] \in SUBSET (0 .. PE_size - 1)
    BY DEF TreeIInv, ShapeOK
  <2>3. QED
    BY <1>0, <2>1, <2>2, FirstIn
<1>6. v = Latest
  <2>1. p # Root => p \in Below
    BY DEF Below
  <2>2. QED
    BY <1>1, <1>4, <2>1, HasData DEF Called
<1>7. \A q \in Members : q # p =>
          DataTo(q)' = DataTo(q) /\ IncTo(q)' = IncTo(q) /\ SentAck(q)' = SentAck(q)
  BY <1>1, <1>3, OthersKeep
<1>8. Children(p)' = Children(p) /\ broadcast_helper' = broadcast_helper
  BY <1>1, TreeStays DEF setup
<1>9. DataTo(p) = Children(p) \ todo[p] /\ c \notin IncTo(p)
  BY <1>1, <1>4, <1>5 DEF DataTo, IncTo
<1>10. DataTo(p)' = DataTo(p) \union {c}
  <2>1. CASE broadcast_helper = "binomial"
    <3>1. pc'[p] = "fence" /\ todo'[p] = todo[p]
      BY <1>3, <2>1
    <3>2. FirstOf(todo[p])' = c
      BY <1>0, <1>8, <3>1 DEF FirstOf
    <3>3. QED
      BY <1>4, <1>8, <1>9, <2>1, <3>1, <3>2 DEF DataTo
  <2>2. CASE broadcast_helper # "binomial"
    <3>1. todo'[p] = todo[p] \ {c} /\ pc'[p] = IF todo[p] = {c} THEN "fence" ELSE "put"
      BY <1>3, <2>2
    <3>2. DataTo(p)' = Children(p) \ todo'[p]
      BY <1>4, <1>8, <2>2, <3>1 DEF DataTo
    <3>3. QED
      BY <1>5, <1>9, <3>1, <3>2
  <2>3. QED
    BY <2>1, <2>2
<1>11. IncTo(p)' = IncTo(p)
  BY <1>1, <1>3, <1>4, <1>8 DEF IncTo
<1>12. /\ Pe(c) \in Below /\ Parent(Pe(c)) = p
       /\ \A q \in Below : SentData(q)' <=> SentData(q) \/ q = Pe(c)
       /\ \A q \in Below : SentInc(q)' <=> SentInc(q)
       /\ ~SentData(Pe(c)) /\ ~SentInc(Pe(c))
  <2>1. /\ Pe(c) \in Below /\ Parent(Pe(c)) = p
        /\ \A q \in Below : SentData(q)' <=> SentData(q) \/ q = Pe(c)
        /\ \A q \in Below : SentInc(q)' <=> SentInc(q)
        /\ SentData(Pe(c)) <=> c \in DataTo(p)
        /\ SentInc(Pe(c)) <=> c \in IncTo(p)
    BY <1>1, <1>5, <1>7, <1>10, <1>11, EdgeGoes DEF TreeIInv
  <2>2. QED
    BY <1>5, <1>9, <2>1
<1>13. \A q \in Members : SentAck(q)' <=> SentAck(q)
  <2>1. SentAck(p) /\ SentAck(p)'
    BY <1>1, <1>3, <1>4 DEF SentAck
  <2>2. QED
    BY <1>7, <2>1
<1>14. LoopAt(p)'
  BY <1>3, <1>5, <1>8 DEF LoopAt
<1>15. GenAt(p)'
  <2>1. GenAt(p) /\ gen' = gen
    BY <1>1 DEF TreeIInv, TreeInv, LoopInv
  <2>2. QED
    BY <1>1, <1>3, <1>8, <2>1 DEF GenAt
<1>16. /\ pc[p] \notin {"out", "wait"}
       /\ pc'[p] \notin {"out", "barrier", "get", "wait", "ack", "reset", "inc"}
  BY <1>1, <1>3
<1>17. v \in Int /\ Pe(c) \in Members
  BY <1>6, <1>12 DEF TreeIInv, CallInv, Below
<1>18. ShapeOK'
  <2>1. [from |-> p, to |-> Pe(c), kind |-> "data", val |-> v, gen |-> gen[p]] \in
            [from : Members, to : Members, kind : {"data", "inc"}, val : Int, gen : Nat]
    BY <1>17 DEF TreeIInv, ShapeOK
  <2>2. todo' \in [Members -> SUBSET (0 .. PE_size - 1)]
    BY <1>1 DEF TreeIInv, ShapeOK
  <2>3. pc' \in [Members -> {"out", "barrier", "get", "wait", "ack", "begin",
                             "put", "fence", "inc", "gather", "reset"}]
    BY <1>1 DEF TreeIInv, ShapeOK
  <2> HIDE DEF v
  <2>4. QED
    BY <1>1, <2>1, <2>2, <2>3 DEF TreeIInv, ShapeOK, setup
<1>19. UNCHANGED <<setup, calls, pSync, target, gen>>
  BY <1>1
<1> HIDE DEF to, rest, v
<1>20. QED
  BY <1>1, <1>3, <1>6, <1>12, <1>13, <1>14, <1>15, <1>16, <1>17, <1>18, <1>19, PostStep

(* The increment is of a later generation than the data before it.         *)
LEMMA IncChildStep ==
    ASSUME TreeIInv, NEW p \in Members, IncChild(p)
    PROVE  TreeIInv'
<1>0. PICK c : c = FirstOf(todo[p])
  OBVIOUS
<1> DEFINE to == IF todo[p] = {c} THEN "gather"
                 ELSE IF broadcast_helper = "binomial" THEN "put" ELSE "inc"
           rest == todo[p] \ {c}
<1>1. /\ pc[p] = "inc" /\ pc' = [pc EXCEPT ![p] = to]
      /\ posted' = posted \union
            {[from |-> p, to |-> Pe(c), kind |-> "inc", val |-> 0, gen |-> gen[p]]}
      /\ todo' = [todo EXCEPT ![p] = rest]
      /\ UNCHANGED <<setup, calls, pSync, target, gen>>
  BY <1>0 DEF IncChild, Goto, Post
<1>2. DOMAIN pc = Members /\ DOMAIN todo = Members /\ PE_size \in Nat
  BY BroadcastAssumption DEF TreeIInv, ShapeOK
<1>3. /\ pc'[p] = to /\ todo'[p] = rest
      /\ \A q \in Members : q # p => pc'[q] = pc[q] /\ todo'[q] = todo[q]
  BY <1>1, <1>2
<1>4. Called(p) /\ Called(p)'
  BY <1>1 DEF TreeIInv, CallInv, Called, Latest
<1>5. c \in todo[p] /\ todo[p] \subseteq Children(p) /\ c \in Children(p)
  <2>1. todo[p] # {} /\ todo[p] \subseteq Children(p)
    BY <1>1 DEF TreeIInv, TreeInv, LoopInv, LoopAt
  <2>2. todo[p] \in SUBSET (0 .. PE_size - 1)
    BY DEF TreeIInv, ShapeOK
  <2>3. QED
    BY <1>0, <2>1, <2>2, FirstIn
<1>7. \A q \in Members : q # p =>
          DataTo(q)' = DataTo(q) /\ IncTo(q)' = IncTo(q) /\ SentAck(q)' = SentAck(q)
  BY <1>1, <1>3, OthersKeep
<1>8. Children(p)' = Children(p) /\ broadcast_helper' = broadcast_helper
  BY <1>1, TreeStays DEF setup
<1>9. IncTo(p) = Children(p) \ todo[p]
  BY <1>1, <1>4 DEF IncTo
<1>10. IncTo(p)' = IncTo(p) \union {c}
  <2>1. CASE todo[p] = {c}
    <3>1. pc'[p] = "gather"
      BY <1>3, <2>1
    <3>2. IncTo(p)' = Children(p)
      BY <1>4, <1>8, <3>1 DEF IncTo
    <3>3. QED
      BY <1>5, <1>9, <2>1, <3>2
  <2>2. CASE todo[p] # {c}
    <3>1. todo'[p] = rest /\ pc'[p] = IF broadcast_helper = "binomial" THEN "put" ELSE "inc"
      BY <1>3, <2>2
    <3>2. IncTo(p)' = Children(p) \ todo'[p]
      BY <1>4, <1>8, <3>1 DEF IncTo
    <3>3. QED
      BY <1>5, <1>9, <3>1, <3>2
  <2>3. QED
    BY <2>1, <2>2
<1>11. DataTo(p)' = DataTo(p)
  <2>1. CASE broadcast_helper = "binomial"
    <3>1. DataTo(p) = (Children(p) \ todo[p]) \union {c}
      BY <1>0, <1>1, <1>4, <2>1 DEF DataTo
    <3>2. CASE todo[p] = {c}
      <4>1. pc'[p] = "gather"
        BY <1>3, <3>2
      <4>2. DataTo(p)' = Children(p)
        BY <1>4, <1>8, <4>1 DEF DataTo
      <4>3. QED
        BY <1>5, <3>1, <3>2, <4>2
    <3>3. CASE todo[p] # {c}
      <4>1. todo'[p] = rest /\ pc'[p] = "put"
        BY <1>3, <2>1, <3>3
      <4>2. DataTo(p)' = Children(p) \ todo'[p]
        BY <1>4, <1>8, <4>1 DEF DataTo
      <4>3. QED
        BY <1>5, <3>1, <4>1, <4>2
    <3>4. QED
      BY <3>2, <3>3
  <2>2. CASE broadcast_helper # "binomial"
    <3>1. pc'[p] \in {"gather", "inc"}
      BY <1>3, <2>2
    <3>2. QED
      BY <1>1, <1>4, <1>8, <2>2, <3>1 DEF DataTo
  <2>3. QED
    BY <2>1, <2>2
<1>12. /\ Pe(c) \in Below /\ Parent(Pe(c)) = p
       /\ \A q \in Below : SentData(q)' <=> SentData(q)
       /\ \A q \in Below : SentInc(q)' <=> SentInc(q) \/ q = Pe(c)
       /\ ~SentInc(Pe(c))
  <2>1. /\ Pe(c) \in Below /\ Parent(Pe(c)) = p
        /\ \A q \in Below : SentData(q)' <=> SentData(q)
        /\ \A q \in Below : SentInc(q)' <=> SentInc(q) \/ q = Pe(c)
        /\ SentInc(Pe(c)) <=> c \in IncTo(p)
    BY <1>1, <1>5, <1>7, <1>10, <1>11, EdgeGoes DEF TreeIInv
  <2>2. QED
    BY <1>5, <1>9, <2>1
<1>13. \A q \in Members : SentAck(q)' <=>
           SentAck(q) \/ (q = p /\ p # Root /\ Pe(c) = Parent(p))
  <2>1. SentAck(p) /\ SentAck(p)'
    BY <1>1, <1>3, <1>4 DEF SentAck
  <2>2. QED
    BY <1>7, <2>1
<1>14. LoopAt(p)'
  BY <1>3, <1>5, <1>8 DEF LoopAt
<1>15. GenAt(p)'
  <2>1. GenAt(p) /\ gen' = gen /\ gen[p] \in Nat
    BY <1>1 DEF TreeIInv, TreeInv, LoopInv, ShapeOK
  <2>2. CASE broadcast_helper = "binomial"
    <3>1. IsFiniteSet(todo[p])
      BY <1>5, NeighboursAre, FS_Subset DEF TreeIInv, ShapeOK
    <3>2. /\ Cardinality(rest) = Cardinality(todo[p]) - 1
          /\ Cardinality(todo[p]) \in Nat /\ Cardinality(rest) \in Nat
      BY <1>5, <3>1, FS_RemoveElement, FS_CardinalityType
    <3>3. gen[p] <= PE_size /\ gen[p] + Cardinality(todo[p]) <= PE_size + 1
      BY <1>1, <2>1, <2>2 DEF GenAt
    <3>4. gen'[p] + Cardinality(todo'[p]) <= PE_size
      BY <1>2, <1>3, <2>1, <3>2, <3>3
    <3>5. pc'[p] \in {"gather", "put"}
      BY <1>3, <2>2
    <3>6. QED
      BY <1>8, <2>1, <2>2, <3>3, <3>4, <3>5 DEF GenAt
  <2>3. CASE broadcast_helper # "binomial"
    <3>1. pc'[p] \in {"gather", "inc"}
      BY <1>3, <2>3
    <3>2. QED
      BY <1>8, <2>1, <2>3, <3>1 DEF GenAt
  <2>4. QED
    BY <2>2, <2>3
<1>16. /\ pc[p] \notin {"out", "wait"}
       /\ pc'[p] \notin {"out", "barrier", "get", "wait", "ack", "reset"}
  BY <1>1, <1>3
<1>17. Pe(c) \in Members
  BY <1>12 DEF Below
<1>18. ShapeOK'
  <2>1. [from |-> p, to |-> Pe(c), kind |-> "inc", val |-> 0, gen |-> gen[p]] \in
            [from : Members, to : Members, kind : {"data", "inc"}, val : Int, gen : Nat]
    BY <1>17 DEF TreeIInv, ShapeOK
  <2>2. todo' \in [Members -> SUBSET (0 .. PE_size - 1)]
    BY <1>1 DEF TreeIInv, ShapeOK
  <2>3. pc' \in [Members -> {"out", "barrier", "get", "wait", "ack", "begin",
                             "put", "fence", "inc", "gather", "reset"}]
    BY <1>1 DEF TreeIInv, ShapeOK
  <2>4. QED
    BY <1>1, <2>1, <2>2, <2>3 DEF TreeIInv, ShapeOK, setup
<1>19. UNCHANGED <<setup, calls, pSync, target, gen>>
  BY <1>1
<1> HIDE DEF to, rest
<1>20. QED
  BY <1>1, <1>3, <1>12, <1>13, <1>14, <1>15, <1>16, <1>17, <1>18, <1>19, PostStep

(* Nothing is on its way to a member that resets its pSync.                *)
LEMMA ResetStep ==
    ASSUME TreeIInv, NEW p \in Members, Reset(p)
    PROVE  TreeIInv'
<1>1. /\ pc[p] = "reset" /\ pc' = [pc EXCEPT ![p] = "out"]
      /\ pSync' = [pSync EXCEPT ![p] = 0]
      /\ UNCHANGED <<setup, calls, posted, target, todo, gen>>
  BY DEF Reset, Goto, SHMEM_SYNC_VALUE
<1>2. DOMAIN pc = Members /\ DOMAIN pSync = Members
  BY DEF TreeIInv, ShapeOK
<1>3. /\ pc'[p] = "out" /\ \A q \in Members : q # p => pc'[q] = pc[q]
      /\ \A q \in Members : pSync'[q] = IF q = p /\ pc'[p] = "out" THEN 0 ELSE pSync[q]
  BY <1>1, <1>2
<1>4. Called(p) /\ Called(p)'
  BY <1>1 DEF TreeIInv, CallInv, Called, Latest
<1>5. Children(p)' = Children(p)
  BY <1>1, TreeStays
<1>6. DataTo(p)' = DataTo(p) /\ IncTo(p)' = IncTo(p) /\ SentAck(p)' = SentAck(p)
  BY <1>1, <1>3, <1>4, <1>5 DEF DataTo, IncTo, SentAck
<1>7. LoopAt(p)' /\ GenAt(p)'
  <2>1. gen[p] <= PE_size
    BY DEF TreeIInv, TreeInv, LoopInv, GenAt
  <2>2. QED
    BY <1>1, <1>3, <2>1 DEF LoopAt, GenAt
<1>8. ShapeOK'
  BY <1>1 DEF TreeIInv, ShapeOK, setup
<1>9. PokedBy(p) = Neighbours(p)
  BY <1>1, <1>4 DEF TreeIInv, TreeInv, PokedInv
<1>10. gen'[p] \in Nat /\ gen' = gen
  BY <1>1 DEF TreeIInv, ShapeOK
<1>11. QED
  BY <1>1, <1>3, <1>6, <1>7, <1>8, <1>9, <1>10, SilentStep

(* Data arrives behind nothing; an increment arrives behind the data.      *)
LEMMA DeliverStep ==
    ASSUME TreeIInv, NEW m \in posted, Deliver(m)
    PROVE  TreeIInv'
<1> DEFINE x == m.from
           y == m.to
<1>1. /\ \A n \in posted : n.from = x /\ n.to = y => n.gen >= m.gen
      /\ posted' = posted \ {m}
      /\ UNCHANGED <<setup, pc, calls, todo, gen>>
  BY DEF Deliver
<1>2. /\ m.kind = "data" => target' = [target EXCEPT ![y] = m.val] /\ UNCHANGED pSync
      /\ m.kind # "data" => pSync' = [pSync EXCEPT ![y] = @ + 1] /\ UNCHANGED target
  BY DEF Deliver
<1>3. /\ x \in Members /\ y \in Members /\ m.kind \in {"data", "inc"}
      /\ m.val \in Int /\ m.gen \in Nat
      /\ \A n \in posted : n.from \in Members /\ n.to \in Members /\ n.gen \in Nat
      /\ DOMAIN target = Members /\ DOMAIN pSync = Members
  BY DEF TreeIInv, ShapeOK
<1>4. /\ Root' = Root /\ Below' = Below
      /\ \A q : Parent(q)' = Parent(q) /\ Children(q)' = Children(q)
      /\ \A q : Neighbours(q)' = Neighbours(q)
  BY <1>1, TreeStays
<1>5. /\ Latest' = Latest /\ \A q \in Members : Called(q)' = Called(q)
      /\ \A q \in Members : DataTo(q)' = DataTo(q) /\ IncTo(q)' = IncTo(q)
      /\ \A q \in Members : SentAck(q)' = SentAck(q)
  BY <1>1, OthersKeep
<1>6. /\ \A q \in Below : SentData(q)' = SentData(q) /\ SentInc(q)' = SentInc(q)
      /\ \A q, r \in Members : Poked(q, r)' = Poked(q, r)
  <2>1. \A q \in Below : SentAck(q)' = SentAck(q)
    BY <1>5 DEF Below
  <2>2. QED
    BY <1>1, <1>5, <2>1, EdgesKept DEF TreeIInv
<1>7. \A a, b, k : InFlight(a, b, k)' <=> InFlight(a, b, k) /\ ~(a = x /\ b = y /\ k = m.kind)
  <2>1. \A n \in posted : n.from = x /\ n.to = y /\ n.kind = m.kind => n = m
    BY DEF TreeIInv, TreeInv, OnceInv
  <2>2. QED
    BY <1>1, <2>1 DEF InFlight
<1>8. ShapeOK'
  <2>1. /\ target' \in [Members -> Int] /\ pSync' \in [Members -> Nat]
    BY <1>2, <1>3 DEF TreeIInv, ShapeOK
  <2>2. QED
    BY <1>1, <2>1 DEF TreeIInv, ShapeOK, setup
<1>9. CallInv'
  BY <1>1, <1>5 DEF TreeIInv, CallInv
<1>10. LoopInv'
  <2>1. \A q \in Members : LoopAt(q)' = LoopAt(q) /\ GenAt(q)' = GenAt(q)
    BY <1>1, <1>4 DEF LoopAt, GenAt, setup
  <2>2. QED
    BY <2>1 DEF TreeIInv, TreeInv, LoopInv
<1>11. DataInv'
  <2> SUFFICES ASSUME NEW d \in posted, d # m, d.kind = "data"
               PROVE  DataOK(d)'
    BY <1>1 DEF DataInv
  <2>1. DataOK(d)
    BY DEF TreeIInv, TreeInv, DataInv
  <2>2. d.to \in Below /\ d.from = Parent(d.to)
    BY <2>1 DEF DataOK
  <2>3. ASSUME SentInc(d.to)
        PROVE  \E n \in posted' :
                   n.from = d.from /\ n.to = d.to /\ n.kind = "inc" /\ n.gen > d.gen
    <3>1. PICK n \in posted : n.from = d.from /\ n.to = d.to /\ n.kind = "inc" /\ n.gen > d.gen
      BY <2>1, <2>3 DEF DataOK
    <3>2. n # m
      BY <1>1, <1>3, <3>1
    <3>3. QED
      BY <1>1, <3>1, <3>2
  <2>4. QED
    BY <1>1, <1>4, <1>5, <1>6, <2>1, <2>2, <2>3 DEF DataOK
<1>12. IncInv'
  BY <1>1, <1>3, <1>6 DEF TreeIInv, TreeInv, IncInv
<1>13. OnceInv'
  BY <1>1 DEF TreeIInv, TreeInv, OnceInv
<1>14. TargetInv'
  <2>0. target'[Root] \in 0 .. MaxCalls
    <3>1. target[Root] \in 0 .. MaxCalls
      BY DEF TreeIInv, TreeInv, TargetInv
    <3>2. m.kind = "data" => y \in Below
      BY DEF TreeIInv, TreeInv, DataInv, DataOK
    <3>3. Root \in Members
      BY VirtualIndices DEF TreeIInv, ShapeOK
    <3>4. QED
      BY <1>2, <1>3, <3>1, <3>2, <3>3 DEF Below
  <2> SUFFICES ASSUME NEW q \in Below
               PROVE  target'[q] = IF SentData(q) /\ ~InFlight(Parent(q), q, "data")'
                                   THEN Latest ELSE Latest - 1
    BY <1>4, <1>5, <1>6, <2>0 DEF TargetInv
  <2>1. target[q] = IF SentData(q) /\ ~InFlight(Parent(q), q, "data") THEN Latest ELSE Latest - 1
    BY DEF TreeIInv, TreeInv, TargetInv
  <2>2. InFlight(Parent(q), q, "data")' <=>
            InFlight(Parent(q), q, "data") /\ ~(Parent(q) = x /\ q = y /\ m.kind = "data")
    <3>1. PICK r : r = Parent(q)
      OBVIOUS
    <3>2. InFlight(Parent(q), q, "data")' <=> InFlight(r, q, "data")'
      BY <1>4, <3>1 DEF InFlight
    <3>3. QED
      BY <1>7, <3>1, <3>2
  <2>3. m.kind = "data" => x = Parent(y) /\ SentData(y) /\ m.val = Latest
    BY DEF TreeIInv, TreeInv, DataInv, DataOK
  <2>4. q \in Members
    BY DEF Below
  <2>5. CASE m.kind = "data" /\ q = y
    BY <1>2, <1>3, <2>2, <2>3, <2>5
  <2>6. CASE ~(m.kind = "data" /\ q = y)
    <3>1. target'[q] = target[q]
      BY <1>2, <1>3, <2>4, <2>6
    <3>2. QED
      BY <2>1, <2>2, <2>6, <3>1
  <2>7. QED
    BY <2>5, <2>6
<1>15. PSyncInv' /\ PokedInv'
  <2>1. CASE m.kind = "data"
    <3>1. \A q \in Members : PokedBy(q)' = PokedBy(q)
      BY <1>6, <1>7, <2>1 DEF PokedBy
    <3>2. PSyncInv'
      BY <1>1, <1>2, <1>5, <2>1, <3>1 DEF TreeIInv, TreeInv, PSyncInv
    <3>3. Root \in Members
      BY VirtualIndices DEF TreeIInv, ShapeOK
    <3>4. PokedInv'
      BY <1>1, <1>4, <1>5, <3>1, <3>3 DEF TreeIInv, TreeInv, PokedInv
    <3>5. QED
      BY <3>2, <3>4
  <2>2. CASE m.kind = "inc"
    <3>1. Poked(x, y) /\ InFlight(x, y, "inc") /\ x \notin PokedBy(y)
      BY <2>2 DEF TreeIInv, TreeInv, IncInv, InFlight, PokedBy
    <3>2. PokedBy(y)' = PokedBy(y) \union {x}
      BY <1>3, <1>6, <1>7, <2>2, <3>1 DEF PokedBy
    <3>3. \A q \in Members : q # y => PokedBy(q)' = PokedBy(q)
      BY <1>6, <1>7, <2>2 DEF PokedBy
    <3>4. x \in Neighbours(y)
      BY <1>3, <3>1 DEF Poked, Neighbours, Neighbour
    <3>5. ~(Called(y) /\ pc[y] \in {"reset", "out"})
      BY <1>3, <3>1, <3>4 DEF TreeIInv, TreeInv, PokedInv
    <3>6. Cardinality(PokedBy(y)') = Cardinality(PokedBy(y)) + 1
      <4>1. PokedBy(y) \subseteq Neighbours(y) /\ IsFiniteSet(Neighbours(y))
        BY <1>3, PokesAre, NeighboursAre DEF TreeIInv, TreeInv, ShapeOK
      <4>2. IsFiniteSet(PokedBy(y))
        BY <4>1, FS_Subset
      <4>3. QED
        BY <3>1, <3>2, <4>2, FS_AddElement
    <3>7. PSyncInv'
      <4> SUFFICES ASSUME NEW q \in Members
                   PROVE  pSync'[q] = IF Called(q) /\ pc[q] = "out" THEN 0
                                      ELSE Cardinality(PokedBy(q)')
        BY <1>1, <1>5 DEF PSyncInv
      <4>1. pSync[q] = IF Called(q) /\ pc[q] = "out" THEN 0 ELSE Cardinality(PokedBy(q))
        BY DEF TreeIInv, TreeInv, PSyncInv
      <4>2. pSync'[q] = IF q = y THEN pSync[q] + 1 ELSE pSync[q]
        BY <1>2, <1>3, <2>2
      <4>3. QED
        BY <3>3, <3>5, <3>6, <4>1, <4>2
    <3>8. PokedInv'
      <4> SUFFICES ASSUME NEW q \in Members, Called(q)
                   PROVE  /\ pc[q] # "wait" => /\ Called(Root)
                                               /\ q # Root => Parent(q) \in PokedBy(q)'
                          /\ pc[q] \in {"reset", "out"} => PokedBy(q)' = Neighbours(q)
        <5>1. Root \in Members
          BY VirtualIndices DEF TreeIInv, ShapeOK
        <5>2. QED
          BY <1>1, <1>4, <1>5, <5>1 DEF PokedInv
      <4>1. /\ pc[q] # "wait" => Called(Root) /\ (q # Root => Parent(q) \in PokedBy(q))
            /\ pc[q] \in {"reset", "out"} => PokedBy(q) = Neighbours(q)
        BY DEF TreeIInv, TreeInv, PokedInv
      <4>2. QED
        BY <3>2, <3>3, <3>5, <4>1
    <3>9. QED
      BY <3>7, <3>8
  <2>3. QED
    BY <1>3, <2>1, <2>2
<1>16. pc'[Root] \notin {"wait", "ack"} /\ \A q \in Members : pc'[q] \notin {"barrier", "get"}
  BY <1>1, <1>4 DEF TreeIInv, TreeInv
<1>17. broadcast_helper' # "linear"
  BY <1>1 DEF TreeIInv, setup
<1>18. QED
  BY <1>4, <1>8, <1>9, <1>10, <1>11, <1>12, <1>13, <1>14, <1>15, <1>16, <1>17 DEF TreeIInv, TreeInv

(* The first to call again finds everybody back and nothing in flight: a   *)
(* new broadcast is under way, in which nothing has been sent.  The others *)
(* join it.                                                                *)
LEMMA CallStep ==
    ASSUME TreeIInv, NEW p \in Members, Call(p)
    PROVE  TreeIInv'
<1> DEFINE to == IF p = Root THEN "begin" ELSE "wait"
<1>1. /\ calls[p] < MaxCalls
      /\ \A q \in Members : calls[q] >= calls[p] /\ (calls[q] = calls[p] => pc[q] = "out")
      /\ \A m \in posted : calls[m.from] > calls[p]
  BY DEF Call
<1>2. /\ pc[p] = "out" /\ pc' = [pc EXCEPT ![p] = to]
      /\ calls' = [calls EXCEPT ![p] = calls[p] + 1] /\ gen' = [gen EXCEPT ![p] = 0]
      /\ UNCHANGED <<setup, pSync, target, todo, posted>>
  BY DEF Call, Goto, TreeIInv
<1>3. /\ DOMAIN pc = Members /\ DOMAIN calls = Members /\ DOMAIN gen = Members
      /\ PE_size \in Nat /\ MaxCalls \in Nat
      /\ Root \in Members /\ calls \in [Members -> 0 .. MaxCalls]
      /\ \A m \in posted : m.from \in Members /\ m.to \in Members
  BY BroadcastAssumption, VirtualIndices DEF TreeIInv, ShapeOK
<1>4. /\ pc'[p] = to /\ calls'[p] = calls[p] + 1 /\ gen'[p] = 0
      /\ \A q \in Members : q # p =>
            pc'[q] = pc[q] /\ calls'[q] = calls[q] /\ gen'[q] = gen[q]
  BY <1>2, <1>3
<1>5. /\ Root' = Root /\ Below' = Below
      /\ \A q : Parent(q)' = Parent(q) /\ Children(q)' = Children(q) /\ me_as(q)' = me_as(q)
      /\ \A q : Neighbours(q)' = Neighbours(q)
  BY <1>2, TreeStays
<1>6. /\ Latest \in Nat
      /\ \A q \in Members : calls[q] \in {Latest - 1, Latest} /\ calls[q] \in Nat
      /\ \E q \in Members : Called(q)
      /\ \A q \in Members : pc[q] # "out" => Called(q) /\ calls[q] > 0
  BY <1>3 DEF TreeIInv, CallInv
<1>7. ShapeOK'
  BY <1>1, <1>2, <1>3 DEF TreeIInv, ShapeOK, setup
<1>8. LoopInv'
  <2>1. \A q \in Members : q # p => LoopAt(q)' = LoopAt(q) /\ GenAt(q)' = GenAt(q)
    BY <1>2, <1>4, <1>5 DEF LoopAt, GenAt, setup
  <2>2. LoopAt(p)' /\ GenAt(p)'
    BY <1>3, <1>4 DEF LoopAt, GenAt
  <2>3. QED
    BY <2>1, <2>2 DEF TreeIInv, TreeInv, LoopInv
<1>9. pc'[Root] \notin {"wait", "ack"} /\ \A q \in Members : pc'[q] \notin {"barrier", "get"}
  BY <1>3, <1>4 DEF TreeIInv, TreeInv
<1>10. OnceInv'
  BY <1>2 DEF TreeIInv, TreeInv, OnceInv
<1>11. broadcast_helper' # "linear"
  BY <1>2 DEF TreeIInv, setup
<1>12. \A a, b, k : InFlight(a, b, k)' <=> InFlight(a, b, k)
  BY <1>2 DEF InFlight
<1> HIDE DEF to
<1>13. CASE Called(p)
  <2>1. \A q \in Members : calls[q] = Latest /\ pc[q] = "out" /\ Called(q)
    BY <1>1, <1>6, <1>13 DEF Called
  <2>2. posted = {} /\ posted' = {}
    BY <1>1, <1>2, <1>3, <2>1
  <2>3. Latest' = Latest + 1
    <3>1. /\ Latest + 1 \in Int
          /\ \A q \in Members : calls'[q] \in {(Latest + 1) - 1, Latest + 1}
          /\ \E q \in Members : calls'[q] = Latest + 1
      BY <1>4, <1>6, <2>1
    <3>2. (CHOOSE m \in {calls'[q] : q \in Members} : \A q \in Members : calls'[q] <= m)
              = Latest + 1
      BY <3>1, GreatestIs
    <3>3. QED
      BY <3>2 DEF Latest
  <2>4. Called(p)' /\ \A q \in Members : q # p => ~Called(q)'
    BY <1>4, <1>6, <2>1, <2>3 DEF Called
  <2>5. \A q \in Members : Called(q)' => q = p /\ pc'[q] = IF q = Root THEN "begin" ELSE "wait"
    BY <1>4, <2>4 DEF to
  <2>6. /\ \A q \in Members : DataTo(q)' = {} /\ IncTo(q)' = {}
        /\ \A q \in Below : ~SentAck(q)'
    <3>1. \A q \in Members : DataTo(q)' = {}
      BY <2>5 DEF DataTo
    <3>2. \A q \in Members : IncTo(q)' = {}
      BY <2>5 DEF IncTo
    <3>3. \A q \in Below : ~SentAck(q)'
      BY <2>5 DEF SentAck, Below
    <3>4. QED
      BY <3>1, <3>2, <3>3
  <2>7. \A q \in Below : ~SentData(q)' /\ ~SentInc(q)'
    <3>1. \A q \in Below : Parent(q) \in Members
      BY Edges DEF TreeIInv, ShapeOK
    <3>2. QED
      BY <1>5, <2>6, <3>1 DEF SentData, SentInc
  <2>8. \A q \in Members : PokedBy(q)' = {}
    BY <1>5, <2>6, <2>7 DEF PokedBy, Poked
  <2>9. CallInv'
    <3>1. Latest' \in Nat /\ \A q \in Members : calls'[q] \in {Latest' - 1, Latest'}
      BY <1>4, <1>6, <2>1, <2>3
    <3>2. \A q \in Members : pc'[q] # "out" => Called(q)' /\ calls'[q] > 0
      BY <1>4, <1>6, <2>1, <2>4
    <3>3. QED
      BY <2>4, <3>1, <3>2 DEF CallInv
  <2>10. DataInv' /\ IncInv'
    BY <2>2 DEF DataInv, IncInv
  <2>11. PSyncInv'
    <3>1. \A q \in Members : pSync'[q] = 0
      BY <1>2, <2>1 DEF TreeIInv, TreeInv, PSyncInv
    <3>2. QED
      BY <2>8, <3>1, FS_EmptySet DEF PSyncInv
  <2>12. PokedInv'
    BY <1>5, <2>5 DEF PokedInv
  <2>13. TargetInv'
    <3>1. \A q \in Below : target[q] = Latest
      BY <2>1, HasData DEF Below
    <3>2. target'[Root] \in 0 .. MaxCalls
      BY <1>2 DEF TreeIInv, TreeInv, TargetInv
    <3>3. QED
      BY <1>2, <1>5, <1>6, <2>3, <2>7, <3>1, <3>2 DEF TargetInv
  <2>14. QED
    BY <1>5, <1>7, <1>8, <1>9, <1>10, <1>11, <2>9, <2>10, <2>11, <2>12, <2>13 DEF TreeIInv, TreeInv
<1>14. CASE ~Called(p)
  <2>1. calls[p] = Latest - 1 /\ calls'[p] = Latest
    BY <1>4, <1>6, <1>14 DEF Called
  <2>2. Latest' = Latest
    <3>1. /\ Latest \in Int /\ \A q \in Members : calls'[q] \in {Latest - 1, Latest}
          /\ \E q \in Members : calls'[q] = Latest
      BY <1>4, <1>6, <2>1
    <3>2. (CHOOSE m \in {calls'[q] : q \in Members} : \A q \in Members : calls'[q] <= m) = Latest
      BY <3>1, GreatestIs
    <3>3. QED
      BY <3>2 DEF Latest
  <2>3. Called(p)' /\ \A q \in Members : q # p => (Called(q)' <=> Called(q))
    BY <1>4, <2>1, <2>2 DEF Called
  <2>4. /\ \A q \in Members : DataTo(q)' = DataTo(q) /\ IncTo(q)' = IncTo(q)
        /\ \A q \in Below : SentAck(q)' = SentAck(q)
    <3>1. DataTo(p)' = {} /\ IncTo(p)' = {} /\ DataTo(p) = {} /\ IncTo(p) = {}
      <4>1. pc'[p] \in {"wait", "begin"}
        BY <1>4 DEF to
      <4>2. QED
        BY <1>14, <4>1 DEF DataTo, IncTo
    <3>2. p \in Below => SentAck(p)' = SentAck(p)
      BY <1>4, <1>14 DEF SentAck, Below, to
    <3>3. ASSUME NEW q \in Members, q # p
          PROVE  DataTo(q)' = DataTo(q) /\ IncTo(q)' = IncTo(q) /\ SentAck(q)' = SentAck(q)
      <4>1. /\ pc'[q] = pc[q] /\ todo'[q] = todo[q] /\ (Called(q)' <=> Called(q))
            /\ broadcast_helper' = broadcast_helper
        BY <1>2, <1>4, <2>3, <3>3 DEF setup
      <4>2. FirstOf(todo[q])' = FirstOf(todo[q])
        BY <4>1 DEF FirstOf
      <4>3. DataTo(q)' = DataTo(q)
        BY <1>5, <4>1, <4>2 DEF DataTo
      <4>4. IncTo(q)' = IncTo(q)
        BY <1>5, <4>1 DEF IncTo
      <4>5. SentAck(q)' = SentAck(q)
        BY <4>1 DEF SentAck
      <4>6. QED
        BY <4>3, <4>4, <4>5
    <3>4. QED
      BY <3>1, <3>2, <3>3 DEF Below
  <2>5. /\ \A q \in Below : SentData(q)' = SentData(q) /\ SentInc(q)' = SentInc(q)
        /\ \A q, r \in Members : Poked(q, r)' = Poked(q, r)
    BY <1>2, <2>4, EdgesKept DEF TreeIInv
  <2>6. \A q \in Members : PokedBy(q)' = PokedBy(q)
    BY <1>12, <2>5 DEF PokedBy
  <2>7. CallInv'
    <3>1. Latest' \in Nat /\ \A q \in Members : calls'[q] \in {Latest' - 1, Latest'}
      BY <1>4, <1>6, <2>1, <2>2
    <3>2. \A q \in Members : pc'[q] # "out" => Called(q)' /\ calls'[q] > 0
      BY <1>4, <1>6, <2>3
    <3>3. QED
      BY <2>3, <3>1, <3>2 DEF CallInv
  <2>8. ASSUME NEW m \in posted, m.kind = "data"
        PROVE  DataOK(m)'
    <3>1. DataOK(m)
      BY <2>8 DEF TreeIInv, TreeInv, DataInv
    <3>2. m.from \in Members /\ m.from # p
      BY <1>1, <1>3, <1>6
    <3>3. pc'[m.from] = pc[m.from] /\ gen'[m.from] = gen[m.from]
      BY <1>4, <3>2
    <3>4. QED
      BY <1>2, <1>5, <2>2, <2>5, <3>1, <3>3 DEF DataOK
  <2>9. DataInv' /\ IncInv'
    <3>1. DataInv'
      BY <1>2, <2>8 DEF DataInv
    <3>2. IncInv'
      BY <1>2, <1>3, <2>5 DEF TreeIInv, TreeInv, IncInv
    <3>3. QED
      BY <3>1, <3>2
  <2>10. PSyncInv'
    <3> SUFFICES ASSUME NEW q \in Members
                 PROVE  pSync[q] = IF Called(q)' /\ pc'[q] = "out" THEN 0
                                   ELSE Cardinality(PokedBy(q))
      BY <1>2, <2>6 DEF PSyncInv
    <3>1. pSync[q] = IF Called(q) /\ pc[q] = "out" THEN 0 ELSE Cardinality(PokedBy(q))
      BY DEF TreeIInv, TreeInv, PSyncInv
    <3>2. pc'[p] # "out"
      BY <1>4 DEF to
    <3>3. QED
      BY <1>4, <1>14, <2>3, <3>1, <3>2
  <2>11. PokedInv'
    <3> SUFFICES ASSUME NEW q \in Members, Called(q)'
                 PROVE  /\ pc'[q] # "wait" => /\ Called(Root)'
                                              /\ q # Root => Parent(q) \in PokedBy(q)
                        /\ pc'[q] \in {"reset", "out"} => PokedBy(q) = Neighbours(q)
      BY <1>5, <2>6 DEF PokedInv
    <3>1. CASE q = p
      BY <1>4, <1>5, <2>3, <3>1 DEF to
    <3>2. CASE q # p
      <4>1. /\ pc[q] # "wait" => Called(Root) /\ (q # Root => Parent(q) \in PokedBy(q))
            /\ pc[q] \in {"reset", "out"} => PokedBy(q) = Neighbours(q)
        BY <2>3, <3>2 DEF TreeIInv, TreeInv, PokedInv
      <4>2. Called(Root) => Called(Root)'
        <5>1. PICK r \in Members : r = Root
          BY <1>3
        <5>2. Called(r) => Called(r)'
          BY <2>3
        <5>3. Called(Root)' <=> Called(r)'
          BY <1>5, <5>1 DEF Called
        <5>4. QED
          BY <5>1, <5>2, <5>3
      <4>3. QED
        BY <1>4, <3>2, <4>1, <4>2
    <3>3. QED
      BY <3>1, <3>2
  <2>12. TargetInv'
    <3>1. \A q \in Below : InFlight(Parent(q), q, "data")' = InFlight(Parent(q), q, "data")
      BY <1>2, <1>5 DEF InFlight
    <3>2. QED
      BY <1>2, <1>5, <2>2, <2>5, <3>1 DEF TreeIInv, TreeInv, TargetInv
  <2>13. QED
    BY <1>5, <1>7, <1>8, <1>9, <1>10, <1>11, <2>7, <2>9, <2>10, <2>11, <2>12 DEF TreeIInv, TreeInv
<1>15. QED
  BY <1>13, <1>14

-----------------------------------------------------------------------------
(* The linear broadcast: the barrier lets a member fetch the data only     *)
(* when the root, too, has called.                                         *)
LEMMA LinearStep ==
    ASSUME LinearIInv, [Next]_vars
    PROVE  LinearIInv'
<1>1. /\ MaxCalls \in Nat /\ PE_size \in Nat /\ Root \in Members
      /\ DOMAIN pc = Members /\ DOMAIN calls = Members /\ DOMAIN gen = Members
      /\ DOMAIN target = Members /\ calls \in [Members -> 0 .. MaxCalls]
  BY BroadcastAssumption, VirtualIndices DEF LinearIInv, ShapeOK
<1>2. /\ Latest \in Nat
      /\ \A q \in Members : calls[q] \in {Latest - 1, Latest} /\ calls[q] \in Nat
      /\ \E q \in Members : calls[q] = Latest
      /\ \A q \in Members : pc[q] # "out" => calls[q] = Latest /\ calls[q] > 0
  BY <1>1 DEF LinearIInv, CallInv, Called
<1>3. ASSUME NEW p \in Members, Call(p)
      PROVE  LinearIInv'
  <2>1. /\ calls[p] < MaxCalls
        /\ \A q \in Members : calls[q] >= calls[p] /\ (calls[q] = calls[p] => pc[q] = "out")
        /\ pc[p] = "out" /\ pc' = [pc EXCEPT ![p] = "barrier"]
        /\ calls' = [calls EXCEPT ![p] = calls[p] + 1] /\ gen' = [gen EXCEPT ![p] = 0]
        /\ UNCHANGED <<setup, pSync, target, todo, posted>>
    BY <1>3 DEF Call, Goto, LinearIInv
  <2>2. /\ pc'[p] = "barrier" /\ calls'[p] = calls[p] + 1 /\ gen'[p] = 0
        /\ \A q \in Members : q # p =>
              pc'[q] = pc[q] /\ calls'[q] = calls[q] /\ gen'[q] = gen[q]
    BY <1>1, <2>1
  <2>3. ShapeOK' /\ broadcast_helper' = "linear" /\ Below' = Below
    <3>1. Below' = Below
      BY <2>1, TreeStays
    <3>2. QED
      BY <1>1, <2>1, <3>1 DEF LinearIInv, ShapeOK, setup
  <2>4. CallInv'
    <3>1. PICK n \in Nat : /\ \A q \in Members : calls'[q] \in {n - 1, n}
                           /\ calls'[p] = n
                           /\ \A q \in Members : pc'[q] # "out" => calls'[q] = n /\ calls'[q] > 0
      <4>1. CASE calls[p] = Latest
        <5>1. \A q \in Members : calls[q] = Latest /\ pc[q] = "out"
          BY <1>2, <2>1, <4>1
        <5>2. Latest + 1 \in Nat /\ (Latest + 1) - 1 = Latest
          BY <1>2
        <5>3. QED
          BY <1>2, <2>2, <5>1, <5>2
      <4>2. CASE calls[p] # Latest
        <5>1. calls[p] + 1 = Latest
          BY <1>2, <4>2
        <5>2. QED
          BY <1>2, <2>2, <5>1
      <4>3. QED
        BY <4>1, <4>2
    <3>2. (CHOOSE m \in {calls'[q] : q \in Members} : \A q \in Members : calls'[q] <= m) = n
      BY <3>1, GreatestIs
    <3>3. Latest' = n
      BY <3>2 DEF Latest
    <3>4. QED
      BY <3>1, <3>3 DEF CallInv, Called
  <2>5. LinearInv'
    <3>1. ASSUME NEW q \in Members
          PROVE  /\ pc'[q] \in {"out", "barrier", "get"} /\ pSync'[q] = 0 /\ gen'[q] = 0
                 /\ pc'[q] = "get" => \A r \in Members : calls'[r] >= calls'[q]
      <4>1. /\ pc[q] \in {"out", "barrier", "get"} /\ pSync[q] = 0 /\ gen[q] = 0
            /\ pc[q] = "get" => \A r \in Members : calls[r] >= calls[q]
        BY DEF LinearIInv, LinearInv
      <4>2. ASSUME pc'[q] = "get", NEW r \in Members
            PROVE  calls'[r] >= calls'[q]
        <5>1. q # p /\ pc[q] = "get" /\ calls'[q] = calls[q]
          BY <2>2, <4>2
        <5>2. calls[r] >= calls[q] /\ calls[r] \in Nat /\ calls[q] \in Nat
          BY <1>2, <4>1, <5>1
        <5>3. calls'[r] = calls[r] \/ calls'[r] = calls[r] + 1
          BY <2>2
        <5>4. QED
          BY <5>1, <5>2, <5>3
      <4>3. QED
        BY <2>1, <2>2, <4>1, <4>2
    <3>2. ASSUME NEW q \in Below
          PROVE  pc'[q] = "out" => target'[q] = calls'[q]
      <4>1. pc[q] = "out" => target[q] = calls[q]
        BY DEF LinearIInv, LinearInv
      <4>2. QED
        BY <2>1, <2>2, <4>1 DEF Below
    <3>3. posted' = {} /\ \A q \in Members : target'[q] \in 0 .. MaxCalls
      BY <2>1 DEF LinearIInv, LinearInv
    <3>4. QED
      BY <2>3, <3>1, <3>2, <3>3 DEF LinearInv
  <2>6. QED
    BY <2>3, <2>4, <2>5 DEF LinearIInv
<1>4. ASSUME NEW p \in Members, LeaveBarrier(p)
      PROVE  LinearIInv'
  <2>1. /\ \A q \in Members : calls[q] >= calls[p]
        /\ pc[p] = "barrier" /\ pc' = [pc EXCEPT ![p] = IF p = Root THEN "out" ELSE "get"]
        /\ UNCHANGED <<setup, calls, pSync, target, todo, gen, posted>>
    BY <1>4 DEF LeaveBarrier, Goto
  <2>2. /\ pc'[p] = (IF p = Root THEN "out" ELSE "get")
        /\ \A q \in Members : q # p => pc'[q] = pc[q]
    BY <1>1, <2>1
  <2>3. ShapeOK' /\ broadcast_helper' = "linear" /\ Below' = Below
    <3>1. Below' = Below
      BY <2>1, TreeStays
    <3>2. QED
      BY <2>1, <3>1 DEF LinearIInv, ShapeOK, setup
  <2>4. CallInv'
    BY <1>2, <2>1, <2>2 DEF LinearIInv, CallInv, Called, Latest
  <2>5. LinearInv'
    BY <2>1, <2>2, <2>3 DEF LinearIInv, LinearInv, Below
  <2>6. QED
    BY <2>3, <2>4, <2>5 DEF LinearIInv
<1>5. ASSUME NEW p \in Members, GetData(p)
      PROVE  LinearIInv'
  <2>1. /\ pc[p] = "get" /\ pc' = [pc EXCEPT ![p] = "out"]
        /\ target' = [target EXCEPT ![p] = calls[Root]]
        /\ UNCHANGED <<setup, calls, pSync, todo, gen, posted>>
    BY <1>5 DEF GetData, Goto
  <2>2. /\ pc'[p] = "out" /\ target'[p] = calls[Root]
        /\ \A q \in Members : q # p => pc'[q] = pc[q] /\ target'[q] = target[q]
    BY <1>1, <2>1 DEF LinearIInv, ShapeOK
  <2>3. calls[Root] = calls[p] /\ calls[Root] \in 0 .. MaxCalls
    <3>1. calls[Root] >= calls[p] /\ calls[p] = Latest
      BY <1>1, <1>2, <2>1 DEF LinearIInv, LinearInv
    <3>2. calls[Root] \in {Latest - 1, Latest}
      BY <1>1, <1>2
    <3>3. QED
      BY <1>1, <1>2, <3>1, <3>2
  <2>4. ShapeOK' /\ broadcast_helper' = "linear" /\ Below' = Below
    <3>1. Below' = Below
      BY <2>1, TreeStays
    <3>2. QED
      BY <2>1, <2>3, <3>1 DEF LinearIInv, ShapeOK, setup
  <2>5. CallInv'
    <3>1. Latest' = Latest
      BY <2>1 DEF Latest
    <3>2. QED
      BY <1>2, <2>1, <2>2, <3>1 DEF CallInv, Called
  <2>6. LinearInv'
    BY <2>1, <2>2, <2>3, <2>4 DEF LinearIInv, LinearInv, Below
  <2>7. QED
    BY <2>4, <2>5, <2>6 DEF LinearIInv
<1>6. CASE UNCHANGED vars
  <2>1. Below' = Below
    BY <1>6, TreeStays DEF vars
  <2>2. QED
    BY <1>6, <2>1 DEF vars, setup, LinearIInv, LinearInv, ShapeOK, CallInv, Called, Latest
<1>7. \A p \in Members : pc[p] \in {"out", "barrier", "get"}
  BY DEF LinearIInv, LinearInv
<1>8. posted = {}
  BY DEF LinearIInv, LinearInv
<1>9. QED
  BY <1>3, <1>4, <1>5, <1>6, <1>7, <1>8
     DEF Next, Step, WaitParent, SendAck, Begin, PutData, Fence, IncChild, GatherAcks, Reset, Goto

(* Every step of a broadcast over a tree keeps the invariant.              *)
LEMMA TreeStep ==
    ASSUME TreeIInv, [Next]_vars
    PROVE  TreeIInv'
<1>1. ASSUME NEW p \in Members, Step(p)
      PROVE  TreeIInv'
  <2>1. ~LeaveBarrier(p) /\ ~GetData(p)
    BY DEF TreeIInv, TreeInv, LeaveBarrier, GetData, Goto
  <2>2. QED
    BY <1>1, <2>1, CallStep, WaitParentStep, SendAckStep, BeginStep, PutDataStep, FenceStep,
       IncChildStep, GatherAcksStep, ResetStep DEF Step
<1>2. CASE UNCHANGED vars
  <2>1. /\ Root' = Root /\ Below' = Below
        /\ \A q : Parent(q)' = Parent(q) /\ Children(q)' = Children(q)
        /\ \A q : Neighbours(q)' = Neighbours(q)
    BY <1>2, TreeStays DEF vars
  <2>2. /\ Latest' = Latest /\ \A q \in Members : Called(q)' = Called(q)
        /\ \A q \in Members : DataTo(q)' = DataTo(q) /\ IncTo(q)' = IncTo(q)
        /\ \A q \in Members : SentAck(q)' = SentAck(q)
    BY <1>2, OthersKeep DEF vars
  <2>3. /\ \A q \in Below : SentData(q)' = SentData(q) /\ SentInc(q)' = SentInc(q)
        /\ \A q, r \in Members : Poked(q, r)' = Poked(q, r)
    <3>1. \A q \in Below : SentAck(q)' = SentAck(q)
      BY <2>2 DEF Below
    <3>2. QED
      BY <1>2, <2>2, <3>1, EdgesKept DEF TreeIInv, vars
  <2>4. \A q \in Members : PokedBy(q)' = PokedBy(q)
    BY <1>2, <2>3 DEF PokedBy, InFlight, vars
  <2>5. Root \in Members
    BY VirtualIndices DEF TreeIInv, ShapeOK
  <2>6. ShapeOK' /\ broadcast_helper' # "linear"
    BY <1>2 DEF TreeIInv, ShapeOK, vars, setup
  <2>7. CallInv'
    BY <1>2, <2>2 DEF TreeIInv, CallInv, vars
  <2>8. LoopInv'
    BY <1>2, <2>1 DEF TreeIInv, TreeInv, LoopInv, LoopAt, GenAt, vars, setup
  <2>9. DataInv'
    BY <1>2, <2>1, <2>2, <2>3 DEF TreeIInv, TreeInv, DataInv, DataOK, vars
  <2>10. IncInv' /\ OnceInv'
    <3>1. \A m \in posted : m.from \in Members /\ m.to \in Members
      BY DEF TreeIInv, ShapeOK
    <3>2. QED
      BY <1>2, <2>3, <3>1 DEF TreeIInv, TreeInv, IncInv, OnceInv, vars
  <2>11. PSyncInv'
    BY <1>2, <2>2, <2>4 DEF TreeIInv, TreeInv, PSyncInv, vars
  <2>12. PokedInv'
    BY <1>2, <2>1, <2>2, <2>4, <2>5 DEF TreeIInv, TreeInv, PokedInv, vars
  <2>13. TargetInv'
    BY <1>2, <2>1, <2>2, <2>3 DEF TreeIInv, TreeInv, TargetInv, InFlight, vars
  <2>14. pc'[Root] \notin {"wait", "ack"} /\ \A q \in Members : pc'[q] \notin {"barrier", "get"}
    BY <1>2 DEF TreeIInv, TreeInv, vars
  <2>15. QED
    BY <2>1, <2>6, <2>7, <2>8, <2>9, <2>10, <2>11, <2>12, <2>13, <2>14 DEF TreeIInv, TreeInv
<1>3. QED
  BY <1>1, <1>2, DeliverStep DEF Next

-----------------------------------------------------------------------------
(* At first everybody is back from a broadcast numbered 0.                 *)
LEMMA InitInv == Init => IInv
<1> SUFFICES ASSUME Init
             PROVE  IInv
  OBVIOUS
<1>1. /\ PE_size \in Nat \ {0} /\ MaxCalls \in Nat
      /\ PE_root \in 0 .. PE_size - 1
      /\ \A p \in Members : /\ pc[p] = "out" /\ calls[p] = 0 /\ pSync[p] = 0
                            /\ target[p] = 0 /\ gen[p] = 0
      /\ posted = {}
  BY BroadcastAssumption DEF Init, SHMEM_SYNC_VALUE
<1>2. Root \in Members
  BY <1>1, VirtualIndices
<1>3. ShapeOK
  BY <1>1 DEF Init, ShapeOK, SHMEM_SYNC_VALUE
<1>4. Latest = 0
  <2>1. (CHOOSE m \in {calls[q] : q \in Members} : \A q \in Members : calls[q] <= m) = 0
    BY <1>1, <1>2, GreatestIs
  <2>2. QED
    BY <2>1 DEF Latest
<1>5. \A p \in Members : Called(p)
  BY <1>1, <1>4 DEF Called
<1>6. CallInv
  BY <1>1, <1>2, <1>4, <1>5 DEF CallInv
<1>7. CASE broadcast_helper = "linear"
  BY <1>1, <1>3, <1>6, <1>7 DEF IInv, LinearIInv, LinearInv, Below
<1>8. CASE broadcast_helper # "linear"
  <2>1. \A p \in Members : DataTo(p) = Children(p) /\ IncTo(p) = Children(p) /\ SentAck(p)
    BY <1>1, <1>5 DEF DataTo, IncTo, SentAck
  <2>2. \A q \in Below : q \in Members /\ Parent(q) \in Members /\ SentData(q) /\ SentInc(q)
    BY <1>1, <2>1, Edges DEF SentData, SentInc
  <2>3. \A a, b, k : ~InFlight(a, b, k)
    BY <1>1 DEF InFlight
  <2>4. \A p \in Members : PokedBy(p) = Neighbours(p)
    BY <2>1, <2>2, <2>3 DEF PokedBy, Poked, Neighbours, Neighbour
  <2>5. PokedInv
    <3>1. ASSUME NEW p \in Members, p # Root
          PROVE  Parent(p) \in Neighbours(p)
      <4>1. p \in Below
        BY <3>1 DEF Below
      <4>2. QED
        BY <2>2, <4>1 DEF Neighbours, Neighbour
    <3>2. QED
      BY <1>2, <1>5, <2>4, <3>1 DEF PokedInv
  <2>6. LoopInv
    BY <1>1 DEF LoopInv, LoopAt, GenAt
  <2>7. DataInv /\ IncInv /\ OnceInv
    BY <1>1 DEF DataInv, IncInv, OnceInv
  <2>8. PSyncInv
    BY <1>1, <1>5 DEF PSyncInv
  <2>9. TargetInv
    BY <1>1, <1>2, <1>4, <2>2, <2>3 DEF TargetInv
  <2>10. QED
    BY <1>1, <1>2, <1>3, <1>6, <1>8, <2>5, <2>6, <2>7, <2>8, <2>9 DEF IInv, TreeIInv, TreeInv
<1>9. QED
  BY <1>7, <1>8

(* The invariant is inductive.                                             *)
LEMMA NextInv == IInv /\ [Next]_vars => IInv'
BY LinearStep, TreeStep DEF IInv

(* What a member has posted along the tree is taken back before it returns.*)
LEMMA SentBy ==
    ASSUME TreeIInv, NEW q \in Below
    PROVE  /\ q \in Members /\ Parent(q) \in Members
           /\ SentData(q) \/ SentInc(q) => Called(Parent(q)) /\ Called(Root)
           /\ Called(Parent(q)) /\ pc[Parent(q)] = "out" =>
                 Called(q) /\ pc[q] \notin {"wait", "ack"}
<1>1. /\ q \in Members /\ Parent(q) \in Members
      /\ Parent(q) \in Below => Parent(Parent(q)) # q
  BY Edges DEF TreeIInv, ShapeOK
<1>2. ASSUME SentData(q) \/ SentInc(q)
      PROVE  Called(Parent(q)) /\ Called(Root)
  <2>1. Called(Parent(q)) /\ pc[Parent(q)] # "wait"
    BY <1>1, <1>2, PokesAre DEF TreeIInv, TreeInv, SentData, SentInc
  <2>2. QED
    BY <1>1, <2>1 DEF TreeIInv, TreeInv, PokedInv
<1>3. ASSUME Called(Parent(q)), pc[Parent(q)] = "out"
      PROVE  Called(q) /\ pc[q] \notin {"wait", "ack"}
  <2>1. PokedBy(Parent(q)) = Neighbours(Parent(q))
    BY <1>1, <1>3 DEF TreeIInv, TreeInv, PokedInv
  <2>2. q \in Neighbours(Parent(q))
    BY <1>1 DEF Neighbours, Neighbour
  <2>3. Poked(q, Parent(q))
    BY <2>1, <2>2 DEF PokedBy
  <2>4. QED
    BY <1>1, <2>3 DEF Poked, SentAck
<1>4. QED
  BY <1>1, <1>2, <1>3

(* What the runs check follows from the invariant, in a tree ...           *)
LEMMA TreeMeans ==
    ASSUME TreeIInv
    PROVE  TypeOK /\ DataOnReturn /\ NoExtraPoke /\ PSyncRestored /\ OneTree /\ ServedOnReturn
<1>1. /\ PE_size \in Nat \ {0} /\ MaxCalls \in Nat /\ Root \in Members
      /\ calls \in [Members -> 0 .. MaxCalls] /\ pSync \in [Members -> Nat]
      /\ target \in [Members -> Int] /\ gen \in [Members -> Nat]
      /\ \A p \in Members : p = Root \/ p \in Below
      /\ \A p \in Below : p \in Members /\ p # Root
  BY BroadcastAssumption, VirtualIndices DEF TreeIInv, ShapeOK, Below
<1>2. /\ Latest \in 0 .. MaxCalls
      /\ \A p \in Members : calls[p] \in {Latest - 1, Latest}
      /\ \A p \in Members : pc[p] # "out" => Called(p) /\ calls[p] > 0
  BY <1>1 DEF TreeIInv, CallInv, Called
<1>3. \A p \in Members : /\ pSync[p] <= PE_size /\ pSync[p] <= Expected(p)
                         /\ ~Called(p) => pSync[p] = Cardinality(PokedBy(p))
  <2> SUFFICES ASSUME NEW p \in Members
               PROVE  /\ pSync[p] <= PE_size /\ pSync[p] <= Expected(p)
                      /\ ~Called(p) => pSync[p] = Cardinality(PokedBy(p))
    OBVIOUS
  <2>1. pSync[p] = IF Called(p) /\ pc[p] = "out" THEN 0 ELSE Cardinality(PokedBy(p))
    BY DEF TreeIInv, TreeInv, PSyncInv
  <2>2. /\ IsFiniteSet(Neighbours(p)) /\ Cardinality(Neighbours(p)) = Expected(p)
        /\ Expected(p) \in Nat
    BY NeighboursAre DEF TreeIInv, ShapeOK
  <2>3. Cardinality(PokedBy(p)) <= Expected(p)
    <3>1. PokedBy(p) \subseteq Neighbours(p)
      BY PokesAre DEF TreeIInv, TreeInv
    <3>2. QED
      BY <2>2, <3>1, FS_Subset
  <2>4. Expected(p) <= PE_size
    <3>1. Neighbours(p) \subseteq Members
      BY DEF Neighbours
    <3>2. QED
      BY <2>2, <3>1, FS_Subset, MembersAre
  <2>5. pSync[p] \in Nat
    BY <1>1
  <2>6. QED
    BY <1>1, <2>1, <2>2, <2>3, <2>4, <2>5
<1>4. \A q \in Below : target[q] \in 0 .. MaxCalls
  <2> SUFFICES ASSUME NEW q \in Below
               PROVE  target[q] \in 0 .. MaxCalls
    OBVIOUS
  <2>1. target[q] \in {Latest - 1, Latest}
    BY DEF TreeIInv, TreeInv, TargetInv
  <2>2. CASE Latest = 0
    <3>1. calls[q] = 0 /\ Called(q) /\ pc[q] = "out"
      BY <1>1, <1>2, <2>2 DEF Called
    <3>2. target[q] = Latest
      BY <3>1, HasData
    <3>3. QED
      BY <1>2, <3>2
  <2>3. CASE Latest # 0
    BY <1>1, <1>2, <2>1, <2>3
  <2>4. QED
    BY <2>2, <2>3
<1>5. TypeOK
  <2>1. target \in [Members -> 0 .. MaxCalls]
    BY <1>1, <1>4 DEF TreeIInv, TreeInv, TargetInv
  <2>2. pSync \in [Members -> 0 .. PE_size]
    BY <1>1, <1>3
  <2>3. \A p \in Members : gen[p] <= PE_size
    BY DEF TreeIInv, TreeInv, LoopInv, GenAt
  <2>4. gen \in [Members -> 0 .. PE_size]
    BY <1>1, <2>3
  <2>5. ASSUME NEW m \in posted
        PROVE  m \in [from : Members, to : Members, kind : {"data", "inc"},
                      val : 0 .. MaxCalls, gen : 0 .. PE_size]
    <3>1. m \in [from : Members, to : Members, kind : {"data", "inc"}, val : Int, gen : Nat]
      BY DEF TreeIInv, ShapeOK
    <3>2. CASE m.kind = "data"
      <4>1. m.val = Latest /\ m.gen <= gen[m.from]
        BY <3>2 DEF TreeIInv, TreeInv, DataInv, DataOK
      <4>2. m.gen <= PE_size
        BY <1>1, <2>4, <3>1, <4>1
      <4>3. QED
        BY <1>1, <1>2, <3>1, <4>1, <4>2
    <3>3. CASE m.kind = "inc"
      <4>1. m.val = 0 /\ m.gen <= PE_size
        BY <3>3 DEF TreeIInv, TreeInv, IncInv
      <4>2. QED
        BY <1>1, <3>1, <4>1
    <3>4. QED
      BY <3>1, <3>2, <3>3
  <2>6. QED
    BY <2>1, <2>2, <2>4, <2>5 DEF TypeOK, TreeIInv, ShapeOK
<1>6. DataOnReturn
  <2> SUFFICES ASSUME NEW p \in Below, pc[p] \notin {"barrier", "get", "wait", "ack"}
               PROVE  target[p] = calls[p] \/ target[p] \in calls[p] + 1 .. calls[Root]
    BY DEF DataOnReturn, Below
  <2>1. CASE Called(p)
    BY <2>1, HasData DEF Called
  <2>2. CASE ~Called(p)
    <3>1. calls[p] = Latest - 1
      BY <1>1, <1>2, <2>2 DEF Called
    <3>2. target[p] = IF SentData(p) /\ ~InFlight(Parent(p), p, "data") THEN Latest ELSE Latest - 1
      BY DEF TreeIInv, TreeInv, TargetInv
    <3>3. SentData(p) => calls[Root] = Latest
      BY SentBy DEF Called
    <3>4. QED
      BY <1>2, <3>1, <3>2, <3>3
  <2>3. QED
    BY <2>1, <2>2
<1>7. NoExtraPoke
  BY <1>3 DEF NoExtraPoke
<1>8. PSyncRestored
  <2> SUFFICES ASSUME posted = {}, \A p \in Members : pc[p] = "out", NEW p \in Members
               PROVE  pSync[p] = 0
    BY DEF PSyncRestored, SHMEM_SYNC_VALUE
  <2>1. CASE Called(p)
    BY <2>1 DEF TreeIInv, TreeInv, PSyncInv
  <2>2. CASE ~Called(p)
    <3>1. ~(p \in Below /\ SentInc(p))
      <4> SUFFICES ASSUME p \in Below, SentInc(p)
                   PROVE  FALSE
        OBVIOUS
      <4>1. Parent(p) \in Members /\ Called(Parent(p))
        BY SentBy
      <4>2. QED
        BY <2>2, <4>1, SentBy
    <3>2. \A q \in Below : ~(p = Parent(q) /\ SentAck(q))
      <4> SUFFICES ASSUME NEW q \in Below, p = Parent(q), SentAck(q)
                   PROVE  FALSE
        OBVIOUS
      <4>1. SentInc(q)
        BY HasData DEF SentAck
      <4>2. QED
        BY <2>2, <4>1, SentBy
    <3>3. PokedBy(p) = {}
      BY <3>1, <3>2 DEF PokedBy, Poked
    <3>4. QED
      BY <1>3, <2>2, <3>3, FS_EmptySet
  <2>3. QED
    BY <2>1, <2>2
<1>9. OneTree
  <2> SUFFICES ASSUME NEW m \in posted
               PROVE  \/ m.from # Root /\ m.to = Parent(m.from)
                      \/ m.to # Root /\ m.from = Parent(m.to)
    BY DEF OneTree
  <2>1. CASE m.kind = "data"
    BY <1>1, <2>1 DEF TreeIInv, TreeInv, DataInv, DataOK
  <2>2. CASE m.kind = "inc"
    BY <1>1, <2>2 DEF TreeIInv, TreeInv, IncInv, Poked
  <2>3. m.kind \in {"data", "inc"}
    BY DEF TreeIInv, ShapeOK
  <2>4. QED
    BY <2>1, <2>2, <2>3
<1>10. ServedOnReturn
  <2> SUFFICES ASSUME NEW m \in posted, m.kind = "data", pc[m.from] = "out"
               PROVE  FALSE
    BY DEF ServedOnReturn
  <2>1. m.to \in Below /\ m.from = Parent(m.to) /\ SentData(m.to)
    BY DEF TreeIInv, TreeInv, DataInv, DataOK
  <2>2. Called(m.to) /\ pc[m.to] \notin {"wait", "ack"}
    BY <2>1, SentBy
  <2>3. ~InFlight(Parent(m.to), m.to, "data")
    BY <2>1, <2>2, HasData
  <2>4. QED
    BY <2>1, <2>3 DEF InFlight
<1>11. QED
  BY <1>5, <1>6, <1>7, <1>8, <1>9, <1>10

(* ... and in the linear broadcast.                                        *)
LEMMA LinearMeans ==
    ASSUME LinearIInv
    PROVE  TypeOK /\ DataOnReturn /\ NoExtraPoke /\ PSyncRestored /\ OneTree /\ ServedOnReturn
<1>1. /\ PE_size \in Nat \ {0}
      /\ posted = {} /\ \A p \in Members : pSync[p] = 0 /\ gen[p] = 0
  BY BroadcastAssumption DEF LinearIInv, LinearInv
<1>2. TypeOK
  <2>1. target \in [Members -> 0 .. MaxCalls]
    BY DEF LinearIInv, ShapeOK, LinearInv
  <2>2. pSync \in [Members -> 0 .. PE_size] /\ gen \in [Members -> 0 .. PE_size]
    BY <1>1 DEF LinearIInv, ShapeOK
  <2>3. QED
    BY <1>1, <2>1, <2>2 DEF LinearIInv, ShapeOK, TypeOK
<1>3. DataOnReturn
  BY DEF LinearIInv, LinearInv, DataOnReturn, Below
<1>4. NoExtraPoke
  <2>1. \A p \in Members : Expected(p) \in Nat
    BY NeighboursAre DEF LinearIInv, ShapeOK
  <2>2. QED
    BY <1>1, <2>1 DEF NoExtraPoke
<1>5. PSyncRestored /\ OneTree /\ ServedOnReturn
  BY <1>1 DEF PSyncRestored, OneTree, ServedOnReturn, SHMEM_SYNC_VALUE
<1>6. QED
  BY <1>2, <1>3, <1>4, <1>5

(* The invariant implies what the runs check.                              *)
LEMMA InvMeans ==
    IInv => TypeOK /\ DataOnReturn /\ NoExtraPoke /\ PSyncRestored /\ OneTree /\ ServedOnReturn
BY LinearMeans, TreeMeans DEF IInv

(* The invariant holds in every reachable state.                           *)
LEMMA Invariance == Spec => []IInv
BY InitInv, NextInv, PTL DEF Spec

-----------------------------------------------------------------------------
(* No counter of a broadcast leaves its range: pSync not either, which is  *)
(* poked from above and from below.                                        *)
THEOREM TypeCorrect == Spec => []TypeOK
BY Invariance, InvMeans, PTL

(* A member that is back from a broadcast has the root's data, whatever    *)
(* the algorithm, the root and the active set: in a tree because each      *)
(* increment stays behind the data of its level.                           *)
THEOREM DataCorrect == Spec => []DataOnReturn
BY Invariance, InvMeans, PTL

(* When a member is back its own puts have been applied, in every tree.    *)
THEOREM ServedCorrect == Spec => []ServedOnReturn
BY Invariance, InvMeans, PTL

(* A pSync never exceeds the number of pokes its owner waits for.          *)
THEOREM PokesCorrect == Spec => []NoExtraPoke
BY Invariance, InvMeans, PTL

(* What parents and children compute of the swapped tree agrees, for the   *)
(* trees of degree two and for the binomial ones.                          *)
THEOREM TreeCorrect == Spec => []OneTree
BY Invariance, InvMeans, PTL

(* The broadcasts leave pSync as they found it.                            *)
THEOREM PSyncCorrect == Spec => []PSyncRestored
BY Invariance, InvMeans, PTL

=============================================================================
