------------------------- MODULE TreeBarrierProofs -------------------------
(***************************************************************************)
(* The tree barrier is correct for every active set.  The proof counts, at *)
(* each end of an edge of the tree, the barriers that end has got through, *)
(* and shows that pSync is always the sum of the differences.              *)
(***************************************************************************)
EXTENDS TreeBarrier, NaturalLemmas

Below == Members \ {Root}

(* The two children a member may have. *)
Kid(p, k)    == Rank(Index(p) * tree_degree + k)
HasKid(p, k) == Index(p) * tree_degree + k < size

(* In how many barriers a member has gathered its children's pokes and     *)
(* poked its parent; in how many it has cleared its pSync.                 *)
Up(p) ==
    IF pc[p] \in {"quiet", "enter", "gather", "up"} THEN entered[p] - 1 ELSE entered[p]

Cleared(p) ==
    IF pc[p] \in {"poke", "out"} THEN entered[p] ELSE entered[p] - 1

(* In how many barriers a member's parent has posted its poke, and how     *)
(* many of these have arrived.                                             *)
Issued(c) ==
    IF pc[ParentOf(c)] = "poke" /\ child[ParentOf(c)] <= Index(c)
    THEN entered[ParentOf(c)] - 1
    ELSE Cleared(ParentOf(c))

Delivered(c) == IF c \in pokes THEN Issued(c) - 1 ELSE Issued(c)

(* What a member's pSync counts. *)
FromKid(p, k) == IF HasKid(p, k) THEN Up(Kid(p, k)) - Cleared(p) ELSE 0
FromParent(p) == IF p = Root THEN 0 ELSE Delivered(p) - Cleared(p)

PlaceInv ==
    /\ pc[Root] \notin {"up", "down"}
    /\ Root \notin pokes
    /\ \A p \in Members : pc[p] = "poke" =>
          child[p] \in childrenBegin(Index(p)) .. childrenEnd(Index(p))

(* No end of an edge is more than one barrier ahead of the other. *)
EdgeInv ==
    \A c \in Below :
        /\ Up(c) - Cleared(ParentOf(c)) \in 0 .. 1
        /\ Delivered(c) - Cleared(c) \in 0 .. 1

(* A member climbs when all its children have, and goes down when its      *)
(* parent has.                                                             *)
GatheredInv ==
    \A c \in Below : pc[ParentOf(c)] \in {"up", "down", "clear"} =>
        Up(c) = Cleared(ParentOf(c)) + 1

ReleasedInv ==
    \A c \in Below : pc[c] = "clear" => Delivered(c) = Cleared(c) + 1

CountInv ==
    \A p \in Members : pSync[p] = FromKid(p, 1) + FromKid(p, 2) + FromParent(p)

IInv ==
    /\ TypeOK /\ OneCallEach /\ PlaceInv
    /\ EdgeInv /\ GatheredInv /\ ReleasedInv /\ CountInv

-----------------------------------------------------------------------------
(* The shape of the tree: ranks and indices correspond, a member other     *)
(* than the root is one of the two children of its parent, and the range   *)
(* of children the code computes is the set of them.                       *)
LEMMA ActiveSet ==
    /\ Root \in Members /\ Index(Root) = 0
    /\ \A p \in Members : Index(p) \in 0 .. size - 1 /\ Rank(Index(p)) = p
    /\ \A j \in 0 .. size - 1 : Rank(j) \in Members /\ Index(Rank(j)) = j
    /\ \A c \in Below : c \in Members /\ c # Root /\ Index(c) \in 1 .. size - 1
<1>1. start \in Nat /\ stride \in Nat \ {0} /\ size \in Nat \ {0}
  BY ActiveSetAssumption, PowerPositive DEF stride
<1>2. \A j \in Nat : Index(Rank(j)) = j
  BY <1>1, StridedRanks DEF Index, Rank
<1>3. Rank(0) = Root
  BY <1>1 DEF Rank, Root
<1>4. \A j \in 0 .. size - 1 : Rank(j) \in Members
  BY <1>1 DEF Members
<1>5. Root \in Members /\ Index(Root) = 0
  BY <1>1, <1>2, <1>3, <1>4
<1>6. ASSUME NEW p \in Members
      PROVE  Index(p) \in 0 .. size - 1 /\ Rank(Index(p)) = p
  <2>1. PICK j \in 0 .. size - 1 : p = Rank(j)
    BY <1>1 DEF Members
  <2>2. QED
    BY <1>1, <1>2, <2>1
<1>7. \A c \in Below : c \in Members /\ c # Root /\ Index(c) \in 1 .. size - 1
  BY <1>1, <1>3, <1>6 DEF Below
<1>8. QED
  BY <1>1, <1>2, <1>4, <1>5, <1>6, <1>7

(* A child's parent is the member whose child it is ...                    *)
LEMMA KidsOf ==
    ASSUME NEW p \in Members, NEW k \in {1, 2}, HasKid(p, k)
    PROVE  /\ Kid(p, k) \in Below /\ Kid(p, k) \in Members /\ Kid(p, k) # p
           /\ Index(Kid(p, k)) = Index(p) * 2 + k
           /\ ParentOf(Kid(p, k)) = p
<1> DEFINE n == Index(p) * 2 + k
<1>1. n \in 1 .. size - 1 /\ Kid(p, k) = Rank(n) /\ Index(p) \in Nat
  BY ActiveSet, ActiveSetAssumption DEF HasKid, Kid, tree_degree
<1>2. Rank(n) \in Members /\ Index(Rank(n)) = n
  BY <1>1, ActiveSet, ActiveSetAssumption
<1>3. Rank(n) # Root /\ Rank(n) # p
  BY <1>1, <1>2, ActiveSet
<1>4. (n - 1) \div 2 = Index(p)
  BY <1>1
<1>5. ParentOf(Rank(n)) = p
  BY <1>2, <1>4, ActiveSet DEF ParentOf, Rank, tree_degree
<1>6. QED
  BY <1>1, <1>2, <1>3, <1>5 DEF Below

(* ... and a parent's children have it as their parent.                    *)
LEMMA ParentIs ==
    ASSUME NEW c \in Below
    PROVE  /\ ParentOf(c) \in Members /\ ParentOf(c) # c
           /\ Index(ParentOf(c)) \in 0 .. Index(c) - 1
           /\ \E k \in {1, 2} : HasKid(ParentOf(c), k) /\ Kid(ParentOf(c), k) = c
<1> DEFINE n == Index(c)
           m == (n - 1) \div 2
<1>1. n \in 1 .. size - 1 /\ Rank(n) = c /\ size \in Nat
  BY ActiveSet, ActiveSetAssumption DEF Below
<1>2. m \in 0 .. n - 1 /\ (n = m * 2 + 1 \/ n = m * 2 + 2)
  BY <1>1
<1>3. ParentOf(c) = Rank(m)
  BY DEF ParentOf, Rank, tree_degree
<1> HIDE DEF m
<1>4. m \in 0 .. size - 1
  BY <1>1, <1>2
<1>5. ParentOf(c) \in Members /\ Index(ParentOf(c)) = m
  BY <1>3, <1>4, ActiveSet
<1>6. \E k \in {1, 2} : HasKid(ParentOf(c), k) /\ Kid(ParentOf(c), k) = c
  BY <1>1, <1>2, <1>5 DEF HasKid, Kid, tree_degree
<1>7. QED
  BY <1>1, <1>2, <1>5, <1>6

(* The loops of the code run over these children, and no others.           *)
LEMMA ChildRange ==
    ASSUME NEW p \in Members
    PROVE  /\ npokes(p) = (IF HasKid(p, 1) THEN 1 ELSE 0) + (IF HasKid(p, 2) THEN 1 ELSE 0)
           /\ HasKid(p, 2) => HasKid(p, 1)
           /\ childrenBegin(Index(p)) \in -1 .. size /\ childrenEnd(Index(p)) \in -1 .. size
           /\ childrenBegin(Index(p)) <= childrenEnd(Index(p))
           /\ \A n \in childrenBegin(Index(p)) .. childrenEnd(Index(p)) - 1 :
                 \E k \in {1, 2} : HasKid(p, k) /\ n = Index(p) * 2 + k
           /\ \A c \in Below : ParentOf(c) = p =>
                 Index(c) \in childrenBegin(Index(p)) .. childrenEnd(Index(p)) - 1
<1>1. Index(p) \in Nat /\ size \in Nat \ {0}
  BY ActiveSet, ActiveSetAssumption
<1>2. ASSUME NEW c \in Below, ParentOf(c) = p
      PROVE  Index(c) \in childrenBegin(Index(p)) .. childrenEnd(Index(p)) - 1
  <2>1. PICK k \in {1, 2} : HasKid(p, k) /\ Kid(p, k) = c
    BY <1>2, ParentIs
  <2>2. Index(c) = Index(p) * 2 + k
    BY <2>1, KidsOf
  <2>3. QED
    BY <1>1, <2>1, <2>2 DEF HasKid, childrenBegin, childrenEnd, tree_degree
<1>3. QED
  BY <1>1, <1>2 DEF npokes, HasKid, childrenBegin, childrenEnd, tree_degree

-----------------------------------------------------------------------------
(* What the proofs calculate with is numbers.                              *)
LEMMA CountsAreInt ==
    ASSUME TypeOK
    PROVE  /\ \A p \in Members : entered[p] \in Int /\ left[p] \in Int /\ child[p] \in Int
                                 /\ Up(p) \in Int /\ Cleared(p) \in Int /\ pSync[p] \in Int
           /\ \A c \in Below : Issued(c) \in Int /\ Delivered(c) \in Int
<1>1. \A p \in Members : entered[p] \in Int /\ left[p] \in Int /\ child[p] \in Int
                         /\ pSync[p] \in Int
  <2>1. \A p \in Members : entered[p] \in 0 .. MaxEpisodes /\ left[p] \in 0 .. MaxEpisodes
    BY DEF TypeOK, CallsTypeOK
  <2>2. \A p \in Members : child[p] \in -1 .. size /\ pSync[p] \in 0 .. 3
    BY DEF TypeOK, tree_degree
  <2>3. QED
    BY <2>1, <2>2, ActiveSetAssumption
<1>2. \A p \in Members : Up(p) \in Int /\ Cleared(p) \in Int
  BY <1>1 DEF Up, Cleared
<1>3. \A c \in Below : ParentOf(c) \in Members
  BY ParentIs
<1>4. \A c \in Below : Issued(c) \in Int
  BY <1>1, <1>2, <1>3 DEF Issued
<1>5. \A c \in Below : Delivered(c) \in Int
  BY <1>4 DEF Delivered
<1>6. QED
  BY <1>1, <1>2, <1>4, <1>5

(* The order along an edge: a member clears its pSync only after its       *)
(* parent's poke has arrived, which the parent posts only after clearing   *)
(* its own, which it does only after all its children have climbed.        *)
LEMMA EdgeOrder ==
    ASSUME IInv, NEW c \in Below
    PROVE  /\ Cleared(c) <= Delivered(c) /\ Delivered(c) <= Issued(c)
           /\ Issued(c) <= Cleared(ParentOf(c)) /\ Cleared(ParentOf(c)) <= Up(c)
           /\ Up(c) <= Cleared(c) + 1
           /\ Up(c) <= Cleared(ParentOf(c)) + 1 /\ Delivered(c) <= Cleared(c) + 1
<1>1. ParentOf(c) \in Members /\ c \in Members
  BY ParentIs, ActiveSet
<1>2. /\ entered[ParentOf(c)] \in Int /\ entered[c] \in Int
      /\ Up(c) \in Int /\ Cleared(c) \in Int /\ Cleared(ParentOf(c)) \in Int
      /\ Issued(c) \in Int /\ Delivered(c) \in Int
  BY <1>1, CountsAreInt DEF IInv
<1>3. Up(c) - Cleared(ParentOf(c)) \in 0 .. 1 /\ Delivered(c) - Cleared(c) \in 0 .. 1
  BY DEF IInv, EdgeInv
<1>4. Delivered(c) <= Issued(c)
  BY <1>2 DEF Delivered
<1>5. Issued(c) <= Cleared(ParentOf(c))
  BY <1>2 DEF Issued, Cleared
<1>6. Up(c) <= Cleared(c) + 1
  BY <1>2 DEF Up, Cleared
<1>7. QED
  BY <1>2, <1>3, <1>4, <1>5, <1>6

(* The parts of a count: one for every child, and one for the parent.      *)
LEMMA PartsOfCount ==
    ASSUME IInv, NEW p \in Members
    PROVE  /\ \A k \in {1, 2} : FromKid(p, k) \in 0 .. (IF HasKid(p, k) THEN 1 ELSE 0)
           /\ FromParent(p) \in 0 .. (IF p = Root THEN 0 ELSE 1)
           /\ pc[p] \in {"gather", "up"} => FromParent(p) = 0
<1>1. ASSUME NEW k \in {1, 2}
      PROVE  FromKid(p, k) \in 0 .. (IF HasKid(p, k) THEN 1 ELSE 0)
  <2>1. CASE HasKid(p, k)
    <3>1. Kid(p, k) \in Below /\ ParentOf(Kid(p, k)) = p
      BY <2>1, KidsOf
    <3>2. QED
      BY <2>1, <3>1 DEF IInv, EdgeInv, FromKid
  <2>2. CASE ~HasKid(p, k)
    BY <2>2 DEF FromKid
  <2>3. QED
    BY <2>1, <2>2
<1>2. CASE p = Root
  BY <1>1, <1>2 DEF FromParent
<1>3. CASE p # Root
  <2>1. p \in Below
    BY <1>3 DEF Below
  <2>2. Delivered(p) - Cleared(p) \in 0 .. 1
    BY <2>1 DEF IInv, EdgeInv
  <2>3. ASSUME pc[p] \in {"gather", "up"}
        PROVE  Delivered(p) = Cleared(p)
    <3>1. Up(p) = Cleared(p)
      BY <2>3 DEF Up, Cleared
    <3>2. QED
      BY <2>1, <3>1, EdgeOrder, ParentIs, CountsAreInt DEF IInv
  <2>4. Delivered(p) \in Int /\ Cleared(p) \in Int
    BY <2>1, CountsAreInt DEF IInv
  <2>5. QED
    BY <1>1, <1>3, <2>2, <2>3, <2>4 DEF FromParent
<1>4. QED
  BY <1>2, <1>3

(* When the count is full, every part of it is.                            *)
LEMMA FullCount ==
    ASSUME IInv, NEW p \in Members, pSync[p] - FromParent(p) >= npokes(p)
    PROVE  \A c \in Below : ParentOf(c) = p => Up(c) = Cleared(p) + 1
<1>1. pSync[p] = FromKid(p, 1) + FromKid(p, 2) + FromParent(p)
  BY DEF IInv, CountInv
<1>2. \A k \in {1, 2} : HasKid(p, k) => FromKid(p, k) = 1
  BY <1>1, PartsOfCount, ChildRange
<1>3. ASSUME NEW c \in Below, ParentOf(c) = p
      PROVE  Up(c) = Cleared(p) + 1
  <2>1. PICK k \in {1, 2} : HasKid(p, k) /\ Kid(p, k) = c
    BY <1>3, ParentIs
  <2>2. Up(c) - Cleared(p) = 1
    BY <1>2, <2>1 DEF FromKid
  <2>3. QED
    BY <1>3, <2>2, CountsAreInt, ActiveSet DEF IInv
<1>4. QED
  BY <1>3

(* A step that changes no count preserves the counting.                    *)
LEMMA CountsKept ==
    ASSUME IInv, UNCHANGED pSync,
           \A p \in Members : Cleared(p)' = Cleared(p),
           \A c \in Below : Up(c)' = Up(c) /\ Delivered(c)' = Delivered(c)
    PROVE  EdgeInv' /\ CountInv'
<1>1. \A c \in Below : c \in Members /\ ParentOf(c) \in Members
  BY ActiveSet, ParentIs
<1>2. EdgeInv'
  BY <1>1 DEF IInv, EdgeInv, Below
<1>3. ASSUME NEW p \in Members
      PROVE  FromKid(p, 1)' = FromKid(p, 1) /\ FromKid(p, 2)' = FromKid(p, 2)
             /\ FromParent(p)' = FromParent(p)
  <2>1. \A k \in {1, 2} : FromKid(p, k)' = FromKid(p, k)
    BY KidsOf DEF FromKid
  <2>2. FromParent(p)' = FromParent(p)
    BY DEF FromParent, Below
  <2>3. QED
    BY <2>1, <2>2
<1>4. CountInv'
  BY <1>3 DEF IInv, CountInv
<1>5. QED
  BY <1>2, <1>4

(* A step of p leaves the counts of the others alone.                      *)
LEMMA OthersKeep ==
    ASSUME NEW p \in Members,
           \A q \in Members : q # p =>
               pc'[q] = pc[q] /\ entered'[q] = entered[q] /\ child'[q] = child[q]
    PROVE  /\ \A q \in Members : q # p => Up(q)' = Up(q) /\ Cleared(q)' = Cleared(q)
           /\ \A c \in Below : ParentOf(c) # p => Issued(c)' = Issued(c)
<1>1. \A q \in Members : q # p => Up(q)' = Up(q) /\ Cleared(q)' = Cleared(q)
  BY DEF Up, Cleared
<1>2. \A c \in Below : ParentOf(c) \in Members
  BY ParentIs
<1>3. \A c \in Below : ParentOf(c) # p => Issued(c)' = Issued(c)
  BY <1>1, <1>2 DEF Issued
<1>4. QED
  BY <1>1, <1>3

-----------------------------------------------------------------------------
(* Nobody has called and no poke has been made.                            *)
LEMMA InitInv == Init => IInv
<1> SUFFICES ASSUME Init
             PROVE  IInv
  OBVIOUS
<1> USE ActiveSetAssumption DEF Init, CallsInit
<1>1. TypeOK
  BY DEF TypeOK, CallsTypeOK, SHMEM_SYNC_VALUE, tree_degree
<1>2. \A p \in Members : pc[p] = "out" /\ entered[p] = 0 /\ left[p] = 0 /\ pSync[p] = 0
  BY DEF SHMEM_SYNC_VALUE
<1>3. \A p \in Members : Up(p) = 0 /\ Cleared(p) = 0
  BY <1>2 DEF Up, Cleared
<1>4. \A c \in Below : Delivered(c) = 0 /\ c \in Members /\ ParentOf(c) \in Members
                       /\ pc[ParentOf(c)] = "out"
  BY <1>2, <1>3, ParentIs DEF Delivered, Issued, Below
<1>5. OneCallEach /\ PlaceInv
  BY <1>2, ActiveSet DEF OneCallEach, PlaceInv
<1>6. EdgeInv /\ GatheredInv /\ ReleasedInv
  BY <1>2, <1>3, <1>4 DEF EdgeInv, GatheredInv, ReleasedInv
<1>7. CountInv
  <2>1. ASSUME NEW p \in Members
        PROVE  FromKid(p, 1) = 0 /\ FromKid(p, 2) = 0 /\ FromParent(p) = 0
    <3>1. \A k \in {1, 2} : FromKid(p, k) = 0
      BY <1>3, KidsOf DEF FromKid
    <3>2. FromParent(p) = 0
      BY <1>3, <1>4 DEF FromParent, Below
    <3>3. QED
      BY <3>1, <3>2
  <2>2. QED
    BY <1>2, <2>1 DEF CountInv
<1>8. QED
  BY <1>1, <1>5, <1>6, <1>7 DEF IInv

(* Steps that change no count: entering a call, passing the flush, and the *)
(* steps from place to place that the waits allow.                         *)
LEMMA CallPreserves ==
    ASSUME IInv, NEW p \in Members, CallStep(p)
    PROVE  IInv'
<1>1. /\ pc[p] \in {"out", "quiet"}
      /\ pc' = [pc EXCEPT ![p] = IF pc[p] = "out" THEN "quiet" ELSE "enter"]
      /\ pc[p] = "out" => entered' = [entered EXCEPT ![p] = @ + 1] /\ entered[p] < MaxEpisodes
      /\ pc[p] # "out" => entered' = entered
      /\ UNCHANGED <<kind, left, writes, pSync, child, pokes>>
  BY DEF CallStep, Call, Quiet, Goto
<1>2. TypeOK /\ entered[p] \in 0 .. MaxEpisodes /\ entered[p] \in Int
  BY CountsAreInt DEF IInv, TypeOK, CallsTypeOK
<1>3. /\ pc'[p] = IF pc[p] = "out" THEN "quiet" ELSE "enter"
      /\ entered'[p] = IF pc[p] = "out" THEN entered[p] + 1 ELSE entered[p]
      /\ \A q \in Members : q # p =>
             pc'[q] = pc[q] /\ entered'[q] = entered[q] /\ child'[q] = child[q]
  BY <1>1, <1>2 DEF TypeOK, CallsTypeOK
<1>4. TypeOK'
  <2>1. entered' \in [Members -> 0 .. MaxEpisodes]
    <3>1. CASE pc[p] = "out"
      <4>1. entered[p] + 1 \in 0 .. MaxEpisodes
        BY <1>1, <1>2, <3>1, ActiveSetAssumption
      <4>2. QED
        BY <4>1, <1>1, <1>2, <3>1 DEF TypeOK, CallsTypeOK
    <3>2. CASE pc[p] # "out"
      BY <1>1, <1>2, <3>2 DEF TypeOK, CallsTypeOK
    <3>3. QED
      BY <3>1, <3>2
  <2>2. pc' \in [Members -> {"out", "quiet", "enter", "gather", "up", "down",
                           "clear", "poke"}]
    BY <1>1, <1>2 DEF TypeOK
  <2>3. QED
    BY <1>1, <1>2, <2>1, <2>2 DEF TypeOK, CallsTypeOK
<1>5. OneCallEach'
  BY <1>1, <1>2, <1>3 DEF IInv, OneCallEach
<1>6. PlaceInv'
  BY <1>1, <1>3 DEF IInv, PlaceInv
<1>7. Up(p)' = Up(p) /\ Cleared(p)' = Cleared(p)
  BY <1>1, <1>2, <1>3 DEF Up, Cleared
<1>8. \A q \in Members : Up(q)' = Up(q) /\ Cleared(q)' = Cleared(q)
  BY <1>3, <1>7, OthersKeep
<1>9. \A c \in Below : Up(c)' = Up(c) /\ Delivered(c)' = Delivered(c)
  <2>1. \A c \in Below : ParentOf(c) = p => Issued(c)' = Issued(c)
    BY <1>1, <1>3, <1>7 DEF Issued
  <2>2. \A c \in Below : Issued(c)' = Issued(c)
    BY <1>3, <2>1, OthersKeep
  <2>3. QED
    BY <1>1, <1>8, <2>2 DEF Delivered, Below
<1>10. EdgeInv' /\ CountInv'
  BY <1>1, <1>8, <1>9, CountsKept
<1>11. GatheredInv' /\ ReleasedInv'
  <2>1. \A q \in Members : pc'[q] \in {"up", "down", "clear"} => pc[q] = pc'[q]
    BY <1>3
  <2>2. \A c \in Below : c \in Members /\ ParentOf(c) \in Members
    BY ActiveSet, ParentIs
  <2>3. QED
    BY <1>8, <1>9, <2>1, <2>2 DEF IInv, GatheredInv, ReleasedInv, Below
<1>12. QED
  BY <1>4, <1>5, <1>6, <1>10, <1>11 DEF IInv

(* A member moves on when all it waits for has come.                       *)
LEMMA MovePreserves ==
    ASSUME IInv, NEW p \in Members, NEW to \in {"gather", "up", "clear"},
           pc[p] \in {"enter", "gather", "down"}, pc' = [pc EXCEPT ![p] = to],
           UNCHANGED <<kind, entered, left, writes, pSync, child, pokes>>,
           pc[p] = "down" => to = "clear",
           to = "up" => p # Root,
           to \in {"up", "clear"} => \A c \in Below : ParentOf(c) = p => Up(c) = Cleared(p) + 1,
           to = "clear" /\ p # Root => pc[p] = "down" /\ Delivered(p) = Cleared(p) + 1
    PROVE  IInv'
<1>1. TypeOK
  BY DEF IInv
<1>2. /\ pc'[p] = to
      /\ \A q \in Members : q # p =>
             pc'[q] = pc[q] /\ entered'[q] = entered[q] /\ child'[q] = child[q]
  BY <1>1 DEF TypeOK
<1>3. TypeOK'
  BY <1>1 DEF TypeOK, CallsTypeOK
<1>4. OneCallEach'
  BY <1>2 DEF IInv, OneCallEach
<1>5. PlaceInv'
  BY <1>2, ActiveSet DEF IInv, PlaceInv
<1>6. Cleared(p)' = Cleared(p) /\ (p # Root => Up(p)' = Up(p))
  BY <1>1, <1>2 DEF Up, Cleared
<1>7. /\ \A q \in Members : Cleared(q)' = Cleared(q)
      /\ \A c \in Below : Up(c)' = Up(c)
  BY <1>2, <1>6, OthersKeep DEF Below
<1>8. \A c \in Below : Delivered(c)' = Delivered(c)
  <2>1. \A c \in Below : ParentOf(c) = p => Issued(c)' = Issued(c)
    BY <1>2, <1>6 DEF Issued
  <2>2. \A c \in Below : Issued(c)' = Issued(c)
    BY <1>2, <2>1, OthersKeep
  <2>3. QED
    BY <2>2 DEF Delivered
<1>9. EdgeInv' /\ CountInv'
  BY <1>7, <1>8, CountsKept
<1>10. GatheredInv'
  <2> SUFFICES ASSUME NEW c \in Below, pc'[ParentOf(c)] \in {"up", "down", "clear"}
               PROVE  Up(c)' = (Cleared(ParentOf(c)) + 1)'
    BY DEF GatheredInv, Below
  <2>1. ParentOf(c) \in Members
    BY ParentIs
  <2>2. Up(c) = Cleared(ParentOf(c)) + 1
    BY <1>2, <2>1 DEF IInv, GatheredInv
  <2>3. QED
    BY <1>7, <2>1, <2>2
<1>11. ReleasedInv'
  <2> SUFFICES ASSUME NEW c \in Below, pc'[c] = "clear"
               PROVE  Delivered(c)' = (Cleared(c) + 1)'
    BY DEF ReleasedInv, Below
  <2>1. c \in Members /\ c # Root
    BY ActiveSet
  <2>2. Delivered(c) = Cleared(c) + 1
    BY <1>2, <2>1 DEF IInv, ReleasedInv
  <2>3. QED
    BY <1>7, <1>8, <2>1, <2>2
<1>12. QED
  BY <1>3, <1>4, <1>5, <1>9, <1>10, <1>11 DEF IInv

(* A member without children has nothing to gather.                        *)
LEMMA BeginPreserves ==
    ASSUME IInv, NEW p \in Members, Begin(p)
    PROVE  IInv'
<1> DEFINE to == IF npokes(p) # 0 THEN "gather" ELSE IF p # Root THEN "up" ELSE "clear"
<1>1. /\ pc[p] = "enter" /\ pc' = [pc EXCEPT ![p] = to]
      /\ UNCHANGED <<kind, entered, left, writes, pSync, child, pokes>>
  BY DEF Begin, Within, Goto
<1>2. npokes(p) = 0 => \A c \in Below : ParentOf(c) # p
  <2>1. npokes(p) = 0 => ~HasKid(p, 1) /\ ~HasKid(p, 2)
    BY ChildRange
  <2>2. QED
    BY <2>1, ParentIs
<1>3. to \in {"gather", "up", "clear"} /\ (to \in {"up", "clear"} => npokes(p) = 0)
      /\ (to = "up" => p # Root) /\ (to = "clear" => p = Root)
  OBVIOUS
<1> HIDE DEF to
<1>4. QED
  BY <1>1, <1>2, <1>3, MovePreserves

(* All the children have climbed when a member sees npokes of them.        *)
LEMMA GatherPreserves ==
    ASSUME IInv, NEW p \in Members, Gather(p)
    PROVE  IInv'
<1> DEFINE to == IF p # Root THEN "up" ELSE "clear"
<1>1. /\ pc[p] = "gather" /\ pc' = [pc EXCEPT ![p] = to]
      /\ UNCHANGED <<kind, entered, left, writes, pSync, child, pokes>>
      /\ pSync[p] = npokes(p)
  BY ChildRange DEF Gather, Within, Goto, SHMEM_SYNC_VALUE
<1>2. FromParent(p) = 0 /\ npokes(p) \in Int
  BY <1>1, PartsOfCount, ChildRange
<1>3. \A c \in Below : ParentOf(c) = p => Up(c) = Cleared(p) + 1
  BY <1>1, <1>2, FullCount
<1>4. to \in {"up", "clear"} /\ (to = "up" => p # Root) /\ (to = "clear" => p = Root)
  OBVIOUS
<1> HIDE DEF to
<1>5. QED
  BY <1>1, <1>3, <1>4, MovePreserves

(* And the parent has come down when it sees one more.                     *)
LEMMA WaitParentPreserves ==
    ASSUME IInv, NEW p \in Members, WaitParent(p)
    PROVE  IInv'
<1>1. /\ pc[p] = "down" /\ pc' = [pc EXCEPT ![p] = "clear"]
      /\ UNCHANGED <<kind, entered, left, writes, pSync, child, pokes>>
      /\ pSync[p] = npokes(p) + 1
  BY ChildRange DEF WaitParent, Within, Goto, SHMEM_SYNC_VALUE
<1>2. p # Root /\ p \in Below
  BY <1>1 DEF IInv, PlaceInv, Below
<1>3. \A c \in Below : ParentOf(c) = p => Up(c) = Cleared(p) + 1
  BY <1>1 DEF IInv, GatheredInv
<1>4. FromParent(p) = 1
  <2>1. pSync[p] = FromKid(p, 1) + FromKid(p, 2) + FromParent(p)
    BY DEF IInv, CountInv
  <2>2. QED
    BY <1>1, <2>1, PartsOfCount, ChildRange
<1>5. Delivered(p) = Cleared(p) + 1
  BY <1>2, <1>4, CountsAreInt DEF FromParent, IInv
<1>6. QED
  BY <1>1, <1>2, <1>3, <1>5, MovePreserves

-----------------------------------------------------------------------------
(* Steps that move a count.  A member's poke of its parent was not counted *)
(* before: it comes down, and so up again, only after its parent.          *)
LEMMA PokeParentPreserves ==
    ASSUME IInv, NEW p \in Members, PokeParent(p)
    PROVE  IInv'
<1> DEFINE q == ParentOf(p)
<1>1. /\ pc[p] = "up" /\ pc' = [pc EXCEPT ![p] = "down"]
      /\ pSync' = [pSync EXCEPT ![q] = @ + 1]
      /\ UNCHANGED <<kind, entered, left, writes, child, pokes>>
  BY DEF PokeParent, Within, Goto
<1>2. TypeOK /\ p # Root /\ p \in Below /\ q \in Members /\ q # p
  BY <1>1, ParentIs DEF IInv, PlaceInv, Below
<1> HIDE DEF q
<1>3. /\ pc'[p] = "down"
      /\ \A r \in Members : r # p =>
             pc'[r] = pc[r] /\ entered'[r] = entered[r] /\ child'[r] = child[r]
  BY <1>1, <1>2 DEF TypeOK
<1>4. Up(p)' = Up(p) + 1 /\ Cleared(p)' = Cleared(p) /\ Up(p) = Cleared(p)
  BY <1>1, <1>2, <1>3, CountsAreInt DEF Up, Cleared
<1>5. /\ \A r \in Members : Cleared(r)' = Cleared(r)
      /\ \A r \in Members : r # p => Up(r)' = Up(r)
  BY <1>3, <1>4, OthersKeep
<1>6. \A c \in Below : Delivered(c)' = Delivered(c)
  <2>1. \A c \in Below : ParentOf(c) = p => Issued(c)' = Issued(c)
    BY <1>1, <1>3, <1>5 DEF Issued
  <2>2. \A c \in Below : Issued(c)' = Issued(c)
    BY <1>3, <2>1, OthersKeep
  <2>3. QED
    BY <1>1, <2>2 DEF Delivered
<1>7. Up(p) = Cleared(q)
  <2>1. /\ Cleared(p) \in Int /\ Delivered(p) \in Int /\ Issued(p) \in Int
        /\ Cleared(q) \in Int /\ Up(p) \in Int
    BY <1>2, CountsAreInt
  <2>2. Cleared(p) <= Delivered(p) /\ Delivered(p) <= Issued(p)
        /\ Issued(p) <= Cleared(q) /\ Cleared(q) <= Up(p)
    BY <1>2, EdgeOrder DEF q
  <2>3. QED
    BY <1>4, <2>1, <2>2
<1>8. EdgeInv'
  <2> SUFFICES ASSUME NEW c \in Below
               PROVE  (Up(c) - Cleared(ParentOf(c)))' \in 0 .. 1
                      /\ (Delivered(c) - Cleared(c))' \in 0 .. 1
    BY DEF EdgeInv, Below
  <2>1. c \in Members /\ ParentOf(c) \in Members
    BY ActiveSet, ParentIs
  <2>2. Up(c) - Cleared(ParentOf(c)) \in 0 .. 1 /\ Delivered(c) - Cleared(c) \in 0 .. 1
    BY DEF IInv, EdgeInv
  <2>3. CASE c = p
    <3>1. (Up(p) - Cleared(q))' = 1
      BY <1>2, <1>4, <1>5, <1>7, CountsAreInt
    <3>2. QED
      BY <1>5, <1>6, <2>1, <2>2, <2>3, <3>1 DEF q
  <2>4. CASE c # p
    BY <1>5, <1>6, <2>1, <2>2, <2>4
  <2>5. QED
    BY <2>3, <2>4
<1>9. CountInv'
  <2> SUFFICES ASSUME NEW r \in Members
               PROVE  pSync'[r] = (FromKid(r, 1) + FromKid(r, 2) + FromParent(r))'
    BY DEF CountInv
  <2>1. pSync[r] = FromKid(r, 1) + FromKid(r, 2) + FromParent(r)
    BY DEF IInv, CountInv
  <2>2. FromParent(r)' = FromParent(r)
    BY <1>5, <1>6 DEF FromParent, Below
  <2>3. CASE r # q
    <3>1. \A k \in {1, 2} : HasKid(r, k) => Kid(r, k) # p /\ Kid(r, k) \in Members
      BY <2>3, KidsOf DEF q
    <3>2. FromKid(r, 1)' = FromKid(r, 1) /\ FromKid(r, 2)' = FromKid(r, 2)
      BY <1>5, <3>1 DEF FromKid
    <3>3. pSync'[r] = pSync[r]
      BY <1>1, <1>2, <2>3 DEF TypeOK
    <3>4. QED
      BY <2>1, <2>2, <3>2, <3>3
  <2>4. CASE r = q
    <3>1. PICK k \in {1, 2} : HasKid(q, k) /\ Kid(q, k) = p
      BY <1>2, ParentIs DEF q
    <3>2. FromKid(q, k)' = FromKid(q, k) + 1
      BY <1>2, <1>4, <1>5, <3>1, CountsAreInt DEF FromKid
    <3>3. \A h \in {1, 2} : h # k => FromKid(q, h)' = FromKid(q, h)
      <4> SUFFICES ASSUME NEW h \in {1, 2}, h # k, HasKid(q, h)
                   PROVE  FromKid(q, h)' = FromKid(q, h)
        BY DEF FromKid
      <4>1. Kid(q, h) # p /\ Kid(q, h) \in Members
        <5>1. Index(Kid(q, h)) = Index(q) * 2 + h /\ Index(Kid(q, k)) = Index(q) * 2 + k
          BY <1>2, <3>1, KidsOf
        <5>2. Index(q) \in Int
          BY <1>2, ActiveSet
        <5>3. QED
          BY <1>2, <3>1, <5>1, <5>2, KidsOf
      <4>2. QED
        BY <1>2, <1>5, <4>1 DEF FromKid
    <3>4. pSync'[q] = pSync[q] + 1
      BY <1>1, <1>2 DEF TypeOK
    <3>5. /\ FromKid(q, 1) \in Int /\ FromKid(q, 2) \in Int /\ FromParent(q) \in Int
      BY <1>2, PartsOfCount
    <3>6. FromKid(q, 1)' + FromKid(q, 2)' = FromKid(q, 1) + FromKid(q, 2) + 1
      <4>1. CASE k = 1
        BY <3>2, <3>3, <3>5, <4>1
      <4>2. CASE k = 2
        BY <3>2, <3>3, <3>5, <4>2
      <4>3. QED
        BY <4>1, <4>2
    <3>7. FromKid(q, 1)' \in Int /\ FromKid(q, 2)' \in Int
      <4>1. CASE k = 1
        BY <3>2, <3>3, <3>5, <4>1
      <4>2. CASE k = 2
        BY <3>2, <3>3, <3>5, <4>2
      <4>3. QED
        BY <4>1, <4>2
    <3>8. QED
      BY <2>1, <2>2, <2>4, <3>4, <3>5, <3>6, <3>7
  <2>5. QED
    BY <2>3, <2>4
<1>10. TypeOK'
  <2>1. pSync[q] + 1 \in 0 .. tree_degree + 1
    <3>1. PICK k \in {1, 2} : HasKid(q, k) /\ Kid(q, k) = p
      BY <1>2, ParentIs DEF q
    <3>2. FromKid(q, k) = 0
      BY <1>2, <1>7, <3>1, CountsAreInt DEF FromKid
    <3>3. pSync[q] = FromKid(q, 1) + FromKid(q, 2) + FromParent(q)
      BY <1>2 DEF IInv, CountInv
    <3>4. QED
      BY <1>2, <3>2, <3>3, PartsOfCount DEF tree_degree
  <2>2. QED
    BY <1>1, <1>2, <2>1 DEF TypeOK, CallsTypeOK
<1>11. OneCallEach' /\ PlaceInv'
  BY <1>1, <1>2, <1>3 DEF IInv, OneCallEach, PlaceInv
<1>12. GatheredInv'
  <2> SUFFICES ASSUME NEW c \in Below, pc'[ParentOf(c)] \in {"up", "down", "clear"}
               PROVE  Up(c)' = (Cleared(ParentOf(c)) + 1)'
    BY DEF GatheredInv, Below
  <2>1. ParentOf(c) \in Members /\ c \in Members
    BY ParentIs, ActiveSet
  <2>2. pc[ParentOf(c)] \in {"up", "down", "clear"}
    BY <1>1, <1>3, <2>1
  <2>3. Up(c) = Cleared(ParentOf(c)) + 1
    BY <2>2 DEF IInv, GatheredInv
  <2>4. c # p
    BY <1>2, <1>7, <2>3, CountsAreInt DEF q
  <2>5. QED
    BY <1>5, <2>1, <2>3, <2>4
<1>13. ReleasedInv'
  BY <1>3, <1>5, <1>6, ActiveSet DEF IInv, ReleasedInv, Below
<1>14. QED
  BY <1>8, <1>9, <1>10, <1>11, <1>12, <1>13 DEF IInv

(* Clearing takes every poke that was counted, and nothing else.           *)
LEMMA ClearPreserves ==
    ASSUME IInv, NEW p \in Members, Clear(p)
    PROVE  IInv'
<1>1. /\ pc[p] = "clear" /\ pc' = [pc EXCEPT ![p] = "poke"]
      /\ pSync' = [pSync EXCEPT ![p] = 0]
      /\ child' = [child EXCEPT ![p] = childrenBegin(Index(p))]
      /\ UNCHANGED <<kind, entered, left, writes, pokes>>
  BY DEF Clear, Within, Goto, SHMEM_SYNC_VALUE
<1>2. TypeOK
  BY DEF IInv
<1>3. /\ pc'[p] = "poke" /\ child'[p] = childrenBegin(Index(p)) /\ pSync'[p] = 0
      /\ \A r \in Members : r # p =>
             pc'[r] = pc[r] /\ entered'[r] = entered[r] /\ child'[r] = child[r]
             /\ pSync'[r] = pSync[r]
  BY <1>1, <1>2 DEF TypeOK
<1>4. Up(p)' = Up(p) /\ Cleared(p)' = Cleared(p) + 1
  BY <1>1, <1>2, <1>3, CountsAreInt DEF Up, Cleared
<1>5. /\ \A r \in Members : Up(r)' = Up(r)
      /\ \A r \in Members : r # p => Cleared(r)' = Cleared(r)
  BY <1>3, <1>4, OthersKeep
<1>6. \A c \in Below : Delivered(c)' = Delivered(c)
  <2>1. ASSUME NEW c \in Below, ParentOf(c) = p
        PROVE  Issued(c)' = Issued(c)
    <3>1. childrenBegin(Index(p)) <= Index(c)
      BY <2>1, ChildRange, ActiveSet, ActiveSetAssumption
    <3>2. QED
      BY <1>1, <1>3, <2>1, <3>1 DEF Issued, Cleared
  <2>2. \A c \in Below : Issued(c)' = Issued(c)
    BY <1>3, <2>1, OthersKeep
  <2>3. QED
    BY <1>1, <2>2 DEF Delivered
<1>7. \A c \in Below : ParentOf(c) = p => Up(c) = Cleared(p) + 1
  BY <1>1 DEF IInv, GatheredInv
<1>8. p # Root => Delivered(p) = Cleared(p) + 1
  BY <1>1 DEF IInv, ReleasedInv, Below
<1>9. EdgeInv'
  <2> SUFFICES ASSUME NEW c \in Below
               PROVE  (Up(c) - Cleared(ParentOf(c)))' \in 0 .. 1
                      /\ (Delivered(c) - Cleared(c))' \in 0 .. 1
    BY DEF EdgeInv, Below
  <2>1. c \in Members /\ ParentOf(c) \in Members /\ c # Root
    BY ActiveSet, ParentIs
  <2>2. Up(c) - Cleared(ParentOf(c)) \in 0 .. 1 /\ Delivered(c) - Cleared(c) \in 0 .. 1
    BY DEF IInv, EdgeInv
  <2>3. Cleared(p) \in Int /\ Cleared(p)' \in Int /\ Up(c) \in Int
    BY <1>2, <1>4, <2>1, CountsAreInt
  <2>4. (Up(c) - Cleared(ParentOf(c)))' \in 0 .. 1
    <3>1. CASE ParentOf(c) = p
      BY <1>4, <1>5, <1>7, <2>1, <2>3, <3>1
    <3>2. CASE ParentOf(c) # p
      BY <1>5, <2>1, <2>2, <3>2
    <3>3. QED
      BY <3>1, <3>2
  <2>5. (Delivered(c) - Cleared(c))' \in 0 .. 1
    <3>1. CASE c = p
      BY <1>4, <1>6, <1>8, <2>1, <2>3, <3>1
    <3>2. CASE c # p
      BY <1>5, <1>6, <2>1, <2>2, <3>2
    <3>3. QED
      BY <3>1, <3>2
  <2>6. QED
    BY <2>4, <2>5
<1>10. CountInv'
  <2> SUFFICES ASSUME NEW r \in Members
               PROVE  pSync'[r] = (FromKid(r, 1) + FromKid(r, 2) + FromParent(r))'
    BY DEF CountInv
  <2>1. CASE r # p
    <3>1. \A k \in {1, 2} : HasKid(r, k) => Kid(r, k) \in Members
      BY KidsOf
    <3>2. FromKid(r, 1)' = FromKid(r, 1) /\ FromKid(r, 2)' = FromKid(r, 2)
      BY <1>5, <2>1, <3>1 DEF FromKid
    <3>3. FromParent(r)' = FromParent(r)
      BY <1>5, <1>6, <2>1 DEF FromParent, Below
    <3>4. QED
      BY <1>3, <2>1, <3>2, <3>3 DEF IInv, CountInv
  <2>2. CASE r = p
    <3>1. ASSUME NEW k \in {1, 2}
          PROVE  FromKid(p, k)' = 0
      <4>1. CASE HasKid(p, k)
        <5>1. Kid(p, k) \in Members /\ Up(Kid(p, k)) = Cleared(p) + 1
          BY <4>1, <1>7, KidsOf
        <5>2. QED
          BY <1>2, <1>4, <1>5, <4>1, <5>1, CountsAreInt DEF FromKid
      <4>2. CASE ~HasKid(p, k)
        BY <4>2 DEF FromKid
      <4>3. QED
        BY <4>1, <4>2
    <3>2. FromParent(p)' = 0
      <4>1. CASE p = Root
        BY <4>1 DEF FromParent
      <4>2. CASE p # Root
        <5>1. Delivered(p)' = Delivered(p) /\ Cleared(p) \in Int
          BY <1>2, <1>6, <4>2, CountsAreInt DEF Below
        <5>2. QED
          BY <1>4, <1>8, <4>2, <5>1 DEF FromParent
      <4>3. QED
        BY <4>1, <4>2
    <3>3. QED
      BY <1>3, <2>2, <3>1, <3>2
  <2>3. QED
    BY <2>1, <2>2
<1>11. TypeOK'
  <2>1. childrenBegin(Index(p)) \in -1 .. size
    BY ChildRange
  <2>2. QED
    BY <1>1, <1>2, <2>1 DEF TypeOK, CallsTypeOK, tree_degree
<1>12. OneCallEach'
  BY <1>1, <1>3 DEF IInv, OneCallEach
<1>13. PlaceInv'
  <2>1. childrenBegin(Index(p)) \in childrenBegin(Index(p)) .. childrenEnd(Index(p))
    BY ChildRange, ActiveSetAssumption
  <2>2. QED
    BY <1>1, <1>3, <2>1, ActiveSet DEF IInv, PlaceInv
<1>14. GatheredInv'
  <2>1. \A c \in Below : c \in Members /\ ParentOf(c) \in Members
    BY ActiveSet, ParentIs
  <2>2. QED
    BY <1>3, <1>5, <2>1 DEF IInv, GatheredInv, Below
<1>15. ReleasedInv'
  BY <1>3, <1>5, <1>6, ActiveSet DEF IInv, ReleasedInv, Below
<1>16. QED
  BY <1>9, <1>10, <1>11, <1>12, <1>13, <1>14, <1>15 DEF IInv

(* The poke of a child is posted when the counter passes it, and not while *)
(* the one before is in flight.                                            *)
LEMMA PokeChildPreserves ==
    ASSUME IInv, NEW p \in Members, PokeChild(p)
    PROVE  IInv'
<1>1. /\ pc[p] = "poke" /\ pc' = [pc EXCEPT ![p] = "poke"]
      /\ child[p] # childrenEnd(Index(p))
      /\ pokes' = pokes \union {Rank(child[p])}
      /\ child' = [child EXCEPT ![p] = @ + 1]
      /\ UNCHANGED <<kind, entered, left, writes, pSync>>
  BY DEF PokeChild, Within, Goto
<1>2. TypeOK /\ child[p] \in Int /\ entered[p] \in Int
  BY CountsAreInt DEF IInv
<1>3. pc' = pc
  BY <1>1, <1>2 DEF TypeOK
<1>4. child[p] \in childrenBegin(Index(p)) .. childrenEnd(Index(p)) - 1
  BY <1>1, <1>2, ChildRange, ActiveSetAssumption DEF IInv, PlaceInv
<1>5. PICK d \in Below : d = Rank(child[p]) /\ ParentOf(d) = p /\ Index(d) = child[p]
  <2>1. PICK k \in {1, 2} : HasKid(p, k) /\ child[p] = Index(p) * 2 + k
    BY <1>4, ChildRange
  <2>2. Rank(child[p]) = Kid(p, k)
    BY <2>1 DEF Kid, tree_degree
  <2>3. QED
    BY <2>1, <2>2, KidsOf
<1>6. \A r \in Members : Up(r)' = Up(r) /\ Cleared(r)' = Cleared(r)
  BY <1>1, <1>3 DEF Up, Cleared
<1>7. \A c \in Below : c # d => Issued(c)' = Issued(c)
  <2> SUFFICES ASSUME NEW c \in Below, c # d
               PROVE  Issued(c)' = Issued(c)
    OBVIOUS
  <2>1. c \in Members /\ ParentOf(c) \in Members /\ Index(c) \in Int /\ Rank(Index(c)) = c
    BY ActiveSet, ParentIs
  <2>2. CASE ParentOf(c) = p
    <3>1. Index(c) # child[p]
      BY <1>5, <2>1
    <3>2. child'[p] = child[p] + 1
      BY <1>1, <1>2 DEF TypeOK
    <3>3. QED
      BY <1>1, <1>2, <1>3, <1>6, <2>1, <2>2, <3>1, <3>2 DEF Issued
  <2>3. CASE ParentOf(c) # p
    BY <1>1, <1>2, <1>3, <1>6, <2>1, <2>3 DEF Issued, TypeOK
  <2>4. QED
    BY <2>2, <2>3
<1>8. Issued(d) = entered[p] - 1 /\ Issued(d)' = entered[p]
  <2>1. child'[p] = child[p] + 1
    BY <1>1, <1>2 DEF TypeOK
  <2>2. QED
    BY <1>1, <1>2, <1>3, <1>5, <2>1 DEF Issued, Cleared
<1>9. d \notin pokes
  <2>1. /\ Cleared(d) \in Int /\ Delivered(d) \in Int /\ Up(d) \in Int /\ d \in Members
        /\ Cleared(d) <= Delivered(d) /\ Cleared(p) <= Up(d) /\ Up(d) <= Cleared(d) + 1
    BY <1>2, <1>5, CountsAreInt, EdgeOrder, ActiveSet
  <2>2. Cleared(p) = entered[p]
    BY <1>1 DEF Cleared
  <2>3. QED
    BY <1>2, <1>8, <2>1, <2>2 DEF Delivered
<1>10. \A c \in Below : Up(c)' = Up(c) /\ Delivered(c)' = Delivered(c)
  <2>1. Delivered(d)' = Delivered(d)
    BY <1>1, <1>2, <1>5, <1>8, <1>9 DEF Delivered
  <2>2. \A c \in Below : c # d => Delivered(c)' = Delivered(c)
    BY <1>1, <1>5, <1>7 DEF Delivered
  <2>3. QED
    BY <1>6, <2>1, <2>2, ActiveSet
<1>11. EdgeInv' /\ CountInv'
  BY <1>1, <1>6, <1>10, CountsKept
<1>12. TypeOK'
  <2>1. child[p] + 1 \in -1 .. size
    BY <1>2, <1>4, ChildRange, ActiveSetAssumption
  <2>2. d \in Members
    BY <1>5, ActiveSet
  <2>3. QED
    BY <1>1, <1>2, <1>3, <1>5, <2>1, <2>2 DEF TypeOK, CallsTypeOK
<1>13. OneCallEach'
  BY <1>1, <1>3 DEF IInv, OneCallEach
<1>14. PlaceInv'
  <2>1. child'[p] = child[p] + 1 /\ \A r \in Members : r # p => child'[r] = child[r]
    BY <1>1, <1>2 DEF TypeOK
  <2>2. child'[p] \in childrenBegin(Index(p)) .. childrenEnd(Index(p))
    BY <1>2, <1>4, <2>1, ChildRange, ActiveSetAssumption
  <2>3. d # Root
    BY <1>5, ActiveSet
  <2>4. QED
    BY <1>1, <1>3, <1>5, <2>1, <2>2, <2>3 DEF IInv, PlaceInv
<1>15. GatheredInv' /\ ReleasedInv'
  <2>1. \A c \in Below : c \in Members /\ ParentOf(c) \in Members
    BY ActiveSet, ParentIs
  <2>2. QED
    BY <1>3, <1>6, <1>10, <2>1 DEF IInv, GatheredInv, ReleasedInv, Below
<1>16. QED
  BY <1>11, <1>12, <1>13, <1>14, <1>15 DEF IInv

(* A member returns when the pokes of all its children are posted.         *)
LEMMA DonePreserves ==
    ASSUME IInv, NEW p \in Members, Done(p)
    PROVE  IInv'
<1>1. /\ pc[p] = "poke" /\ pc' = [pc EXCEPT ![p] = "out"]
      /\ child[p] = childrenEnd(Index(p))
      /\ left' = [left EXCEPT ![p] = @ + 1]
      /\ UNCHANGED <<kind, entered, writes, pSync, child, pokes>>
  BY DEF Done, Return, Goto
<1>2. TypeOK /\ entered[p] = left[p] + 1
  BY <1>1 DEF IInv, OneCallEach
<1>3. /\ pc'[p] = "out" /\ left'[p] = left[p] + 1
      /\ \A r \in Members : r # p =>
             pc'[r] = pc[r] /\ entered'[r] = entered[r] /\ child'[r] = child[r]
             /\ left'[r] = left[r]
  BY <1>1, <1>2 DEF TypeOK, CallsTypeOK
<1>4. Up(p)' = Up(p) /\ Cleared(p)' = Cleared(p)
  BY <1>1, <1>3 DEF Up, Cleared
<1>5. \A r \in Members : Up(r)' = Up(r) /\ Cleared(r)' = Cleared(r)
  BY <1>3, <1>4, OthersKeep
<1>6. \A c \in Below : Up(c)' = Up(c) /\ Delivered(c)' = Delivered(c)
  <2>1. ASSUME NEW c \in Below, ParentOf(c) = p
        PROVE  Issued(c)' = Issued(c)
    <3>1. ~(child[p] <= Index(c))
      BY <1>1, <2>1, ChildRange, ActiveSet, ActiveSetAssumption
    <3>2. QED
      BY <1>3, <1>4, <2>1, <3>1 DEF Issued
  <2>2. \A c \in Below : Issued(c)' = Issued(c)
    BY <1>3, <2>1, OthersKeep
  <2>3. QED
    BY <1>1, <1>5, <2>2, ActiveSet DEF Delivered
<1>7. EdgeInv' /\ CountInv'
  BY <1>1, <1>5, <1>6, CountsKept
<1>8. TypeOK'
  <2>1. left[p] + 1 \in 0 .. MaxEpisodes
    BY <1>2 DEF TypeOK, CallsTypeOK
  <2>2. QED
    BY <1>1, <1>2, <2>1 DEF TypeOK, CallsTypeOK
<1>9. OneCallEach'
  BY <1>1, <1>2, <1>3 DEF IInv, OneCallEach
<1>10. PlaceInv'
  BY <1>1, <1>3, ActiveSet DEF IInv, PlaceInv
<1>11. GatheredInv' /\ ReleasedInv'
  <2>1. \A c \in Below : c \in Members /\ ParentOf(c) \in Members
    BY ActiveSet, ParentIs
  <2>2. QED
    BY <1>3, <1>5, <1>6, <2>1 DEF IInv, GatheredInv, ReleasedInv, Below
<1>12. QED
  BY <1>7, <1>8, <1>9, <1>10, <1>11 DEF IInv

(* A poke of the parent that arrives is counted.                           *)
LEMMA DeliverPokePreserves ==
    ASSUME IInv, NEW p \in pokes, DeliverPoke(p)
    PROVE  IInv'
<1>1. /\ pokes' = pokes \ {p}
      /\ pSync' = [pSync EXCEPT ![p] = @ + 1]
      /\ UNCHANGED <<kind, pc, entered, left, writes, child>>
  BY DEF DeliverPoke, callVars
<1>2. TypeOK /\ p \in Members /\ p # Root /\ p \in Below
  BY DEF IInv, TypeOK, PlaceInv, Below
<1>3. \A r \in Members : Up(r)' = Up(r) /\ Cleared(r)' = Cleared(r)
  BY <1>1 DEF Up, Cleared
<1>4. \A c \in Below : Issued(c)' = Issued(c)
  BY <1>1, <1>3, ParentIs DEF Issued
<1>5. /\ Delivered(p)' = Delivered(p) + 1
      /\ \A c \in Below : c # p => Delivered(c)' = Delivered(c)
  BY <1>1, <1>2, <1>4, CountsAreInt DEF Delivered
<1>6. Delivered(p) = Cleared(p)
  <2>1. /\ Cleared(p) \in Int /\ Delivered(p) \in Int /\ Issued(p) \in Int /\ Up(p) \in Int
        /\ Cleared(ParentOf(p)) \in Int
    BY <1>2, CountsAreInt, ParentIs
  <2>2. /\ Cleared(p) <= Delivered(p) /\ Issued(p) <= Cleared(ParentOf(p))
        /\ Cleared(ParentOf(p)) <= Up(p) /\ Up(p) <= Cleared(p) + 1
    BY <1>2, EdgeOrder
  <2>3. Delivered(p) = Issued(p) - 1
    BY DEF Delivered
  <2>4. QED
    BY <2>1, <2>2, <2>3
<1>7. EdgeInv'
  <2>1. (Delivered(p) - Cleared(p))' = 1
    BY <1>2, <1>3, <1>5, <1>6, CountsAreInt
  <2>2. \A c \in Below : c \in Members /\ ParentOf(c) \in Members
    BY ActiveSet, ParentIs
  <2>3. QED
    BY <1>3, <1>5, <2>1, <2>2 DEF IInv, EdgeInv, Below
<1>8. \A r \in Members : /\ FromKid(r, 1)' = FromKid(r, 1) /\ FromKid(r, 2)' = FromKid(r, 2)
                         /\ r # p => FromParent(r)' = FromParent(r)
  <2>1. \A r \in Members : \A k \in {1, 2} : FromKid(r, k)' = FromKid(r, k)
    BY <1>3, KidsOf DEF FromKid
  <2>2. \A r \in Members : r # p => FromParent(r)' = FromParent(r)
    BY <1>3, <1>5 DEF FromParent, Below
  <2>3. QED
    BY <2>1, <2>2
<1>9. FromParent(p) = 0 /\ FromParent(p)' = 1
  BY <1>2, <1>3, <1>5, <1>6, CountsAreInt DEF FromParent
<1>10. CountInv'
  <2>1. pSync'[p] = pSync[p] + 1 /\ \A r \in Members : r # p => pSync'[r] = pSync[r]
    BY <1>1, <1>2 DEF TypeOK
  <2>2. FromKid(p, 1) \in Int /\ FromKid(p, 2) \in Int
    BY <1>2, PartsOfCount
  <2>3. pSync'[p] = (FromKid(p, 1) + FromKid(p, 2) + FromParent(p))'
    BY <1>2, <1>8, <1>9, <2>1, <2>2 DEF IInv, CountInv
  <2>4. QED
    BY <1>8, <2>1, <2>3 DEF IInv, CountInv
<1>11. TypeOK'
  <2>1. pSync[p] = FromKid(p, 1) + FromKid(p, 2) + FromParent(p)
    BY <1>2 DEF IInv, CountInv
  <2>2. pSync[p] + 1 \in 0 .. tree_degree + 1
    BY <1>2, <1>9, <2>1, PartsOfCount DEF tree_degree
  <2>3. QED
    BY <1>1, <1>2, <2>2 DEF TypeOK, CallsTypeOK
<1>12. OneCallEach' /\ PlaceInv'
  BY <1>1 DEF IInv, OneCallEach, PlaceInv
<1>13. GatheredInv' /\ ReleasedInv'
  <2>1. \A c \in Below : c \in Members /\ ParentOf(c) \in Members
    BY ActiveSet, ParentIs
  <2>2. pc[p] # "clear"
    BY <1>2, <1>6, CountsAreInt DEF IInv, ReleasedInv
  <2>3. QED
    BY <1>1, <1>3, <1>5, <2>1, <2>2 DEF IInv, GatheredInv, ReleasedInv, Below
<1>14. QED
  BY <1>7, <1>10, <1>11, <1>12, <1>13 DEF IInv

(* A put of the program leaves the algorithm alone.                        *)
LEMMA WritesPreserve ==
    ASSUME IInv, UNCHANGED <<kind, pc, entered, left, pSync, child, pokes>>,
           writes' \in SUBSET [from : Members, ep : 1 .. MaxEpisodes]
    PROVE  IInv'
<1>1. TypeOK'
  BY DEF IInv, TypeOK, CallsTypeOK
<1>2. \A p \in Members : Up(p)' = Up(p) /\ Cleared(p)' = Cleared(p)
  BY DEF Up, Cleared
<1>3. \A c \in Below : c \in Members /\ ParentOf(c) \in Members
  BY ActiveSet, ParentIs
<1>4. \A c \in Below : Up(c)' = Up(c) /\ Delivered(c)' = Delivered(c)
  BY <1>2, <1>3 DEF Delivered, Issued
<1>5. EdgeInv' /\ CountInv'
  BY <1>2, <1>4, CountsKept
<1>6. OneCallEach' /\ PlaceInv' /\ GatheredInv' /\ ReleasedInv'
  BY <1>2, <1>3, <1>4 DEF IInv, OneCallEach, PlaceInv, GatheredInv, ReleasedInv, Below
<1>7. QED
  BY <1>1, <1>5, <1>6 DEF IInv

(* The invariant is inductive.                                             *)
LEMMA NextInv == IInv /\ [Next]_vars => IInv'
<1> SUFFICES ASSUME IInv, [Next]_vars
             PROVE  IInv'
  OBVIOUS
<1>1. ASSUME NEW p \in Members, ProgramWrites(p)
      PROVE  IInv'
  <2>1. entered[p] + 1 \in 1 .. MaxEpisodes
    BY <1>1, ActiveSetAssumption DEF IInv, TypeOK, CallsTypeOK, ProgramWrites, Write
  <2>2. [from |-> p, ep |-> entered[p] + 1] \in [from : Members, ep : 1 .. MaxEpisodes]
    BY <2>1
  <2>3. writes' \in SUBSET [from : Members, ep : 1 .. MaxEpisodes]
    BY <1>1, <2>2 DEF IInv, TypeOK, CallsTypeOK, ProgramWrites, Write
  <2>4. QED
    BY <1>1, <2>3, WritesPreserve DEF ProgramWrites, Write
<1>2. ASSUME NEW p \in Members, Run(p)
      PROVE  IInv'
  BY <1>2, CallPreserves, BeginPreserves, GatherPreserves, PokeParentPreserves,
     WaitParentPreserves, ClearPreserves, PokeChildPreserves, DonePreserves DEF Run, Step
<1>3. ASSUME NEW w \in writes, DeliverWrite(w) /\ UNCHANGED <<pSync, child, pokes>>
      PROVE  IInv'
  <2>1. writes' \in SUBSET [from : Members, ep : 1 .. MaxEpisodes]
    BY <1>3 DEF IInv, TypeOK, CallsTypeOK, DeliverWrite
  <2>2. QED
    BY <1>3, <2>1, WritesPreserve DEF DeliverWrite
<1>4. CASE UNCHANGED vars
  <2>1. writes' \in SUBSET [from : Members, ep : 1 .. MaxEpisodes]
    BY <1>4 DEF IInv, TypeOK, CallsTypeOK, vars, callVars
  <2>2. QED
    BY <1>4, <2>1, WritesPreserve DEF vars, callVars
<1>5. QED
  BY <1>1, <1>2, <1>3, <1>4, DeliverPokePreserves DEF Next, Deliver

-----------------------------------------------------------------------------
(* Down the tree, from parent to child, members have climbed at least as   *)
(* often as the root and cleared at most as often: by induction over the   *)
(* indices, as a parent's is smaller.                                      *)
LEMMA ThroughTheRoot ==
    ASSUME IInv, NEW p \in Members
    PROVE  Cleared(p) <= Cleared(Root) /\ Up(Root) <= Up(p)
<1> DEFINE S == {n \in Nat : n < size =>
                    Cleared(Rank(n)) <= Cleared(Root) /\ Up(Root) <= Up(Rank(n))}
<1>1. ASSUME NEW n \in Nat, \A m \in 0 .. n - 1 : m \in S, n < size
      PROVE  Cleared(Rank(n)) <= Cleared(Root) /\ Up(Root) <= Up(Rank(n))
  <2>1. n \in 0 .. size - 1 /\ Rank(n) \in Members /\ Index(Rank(n)) = n /\ Root \in Members
    BY <1>1, ActiveSet, ActiveSetAssumption
  <2>2. \A q \in Members : Up(q) \in Int /\ Cleared(q) \in Int
    BY CountsAreInt DEF IInv
  <2>3. CASE Rank(n) = Root
    BY <2>1, <2>2, <2>3
  <2>4. CASE Rank(n) # Root
    <3>1. PICK c \in Below : c = Rank(n)
      BY <2>1, <2>4 DEF Below
    <3>2. PICK q \in Members : q = ParentOf(c) /\ Index(q) \in 0 .. n - 1
      BY <2>1, <3>1, ParentIs
    <3>3. Index(q) < size /\ Rank(Index(q)) = q /\ Index(q) \in S
      BY <1>1, <3>2, ActiveSet, ActiveSetAssumption
    <3>4. Cleared(q) <= Cleared(Root) /\ Up(Root) <= Up(q)
      BY <3>3
    <3>5. Cleared(c) <= Cleared(q) /\ Up(q) <= Up(c)
      <4>1. /\ Cleared(c) <= Delivered(c) /\ Delivered(c) <= Issued(c)
            /\ Issued(c) <= Cleared(q) /\ Cleared(q) <= Up(c)
        BY <3>2, EdgeOrder
      <4>2. Delivered(c) \in Int /\ Issued(c) \in Int /\ c \in Members
        BY CountsAreInt, ActiveSet DEF IInv
      <4>3. Up(q) <= Up(c)
        <5>1. CASE pc[q] \in {"up", "down", "clear"}
          <6>1. Up(c) = Cleared(q) + 1
            BY <3>2, <5>1 DEF IInv, GatheredInv
          <6>2. entered[q] \in Int
            BY CountsAreInt DEF IInv
          <6>3. QED
            BY <6>1, <6>2 DEF Up, Cleared
        <5>2. CASE pc[q] \notin {"up", "down", "clear"}
          <6>1. Up(q) = Cleared(q)
            <7>1. pc[q] \in {"out", "quiet", "enter", "gather", "up", "down", "clear", "poke"}
              BY DEF IInv, TypeOK
            <7>2. QED
              BY <5>2, <7>1 DEF Up, Cleared
          <6>2. QED
            BY <4>1, <6>1
        <5>3. QED
          BY <5>1, <5>2
      <4>4. QED
        BY <2>2, <4>1, <4>2, <4>3
    <3>6. c \in Members
      BY ActiveSet
    <3>7. QED
      BY <2>1, <2>2, <3>1, <3>2, <3>4, <3>5, <3>6
  <2>5. QED
    BY <2>3, <2>4
<1>2. \A n \in Nat : (\A m \in 0 .. n - 1 : m \in S) => n \in S
  BY <1>1
<1> HIDE DEF S
<1>3. Nat \subseteq S
  BY <1>2, CourseOfValues
<1>4. Index(p) \in S /\ Index(p) < size /\ Rank(Index(p)) = p
  BY <1>3, ActiveSet, ActiveSetAssumption
<1>5. QED
  BY <1>4 DEF S

(* What the invariant says of the barrier: no call returns before every    *)
(* member has arrived, no count is overshot, and pSync is left as it was.  *)
LEMMA InvMeans == IInv => NobodyEarly /\ NoExtraPoke /\ PSyncRestored
<1> SUFFICES ASSUME IInv
             PROVE  NobodyEarly /\ NoExtraPoke /\ PSyncRestored
  OBVIOUS
<1>1. \A p \in Members : /\ entered[p] \in Int /\ left[p] \in Int
                         /\ Up(p) \in Int /\ Cleared(p) \in Int
  BY CountsAreInt DEF IInv
<1>2. NobodyEarly
  <2> SUFFICES ASSUME NEW p \in Members, NEW q \in Members
               PROVE  left[p] <= Arrived(q)
    BY DEF NobodyEarly
  <2>1. left[p] <= Cleared(p)
    BY <1>1 DEF IInv, OneCallEach, Cleared
  <2>2. Cleared(Root) <= Up(Root)
    BY <1>1, ActiveSet DEF Cleared, Up
  <2>3. Up(q) <= Arrived(q) /\ Arrived(q) \in Int
    BY <1>1 DEF Up, Arrived
  <2>4. Cleared(p) <= Cleared(Root) /\ Up(Root) <= Up(q)
    BY ThroughTheRoot
  <2>5. QED
    BY <1>1, <2>1, <2>2, <2>3, <2>4, ActiveSet
<1>3. NoExtraPoke
  <2> SUFFICES ASSUME NEW p \in Members
               PROVE  /\ pc[p] = "gather" => pSync[p] <= npokes(p)
                      /\ pSync[p] <= npokes(p) + 1
    BY DEF NoExtraPoke
  <2>1. pSync[p] = FromKid(p, 1) + FromKid(p, 2) + FromParent(p)
    BY DEF IInv, CountInv
  <2>2. QED
    BY <2>1, PartsOfCount, ChildRange
<1>4. PSyncRestored
  <2> SUFFICES ASSUME \A p \in Members : pc[p] = "out"
               PROVE  /\ pokes = {}
                      /\ \A p \in Members : pSync[p] = SHMEM_SYNC_VALUE
    BY DEF PSyncRestored
  <2>1. \A p \in Members : Up(p) = Cleared(p)
    BY DEF Up, Cleared
  <2>2. ASSUME NEW c \in Below
        PROVE  /\ Up(c) = Cleared(ParentOf(c)) /\ Delivered(c) = Cleared(c)
               /\ Delivered(c) = Issued(c) /\ Issued(c) \in Int
    <3>1. /\ c \in Members /\ ParentOf(c) \in Members
          /\ Delivered(c) \in Int /\ Issued(c) \in Int
      BY ParentIs, CountsAreInt, ActiveSet DEF IInv
    <3>2. /\ Cleared(c) <= Delivered(c) /\ Delivered(c) <= Issued(c)
          /\ Issued(c) <= Cleared(ParentOf(c)) /\ Cleared(ParentOf(c)) <= Up(c)
      BY EdgeOrder
    <3>3. QED
      BY <1>1, <2>1, <3>1, <3>2
  <2>3. pokes = {}
    <3>1. ASSUME NEW c \in pokes
          PROVE  FALSE
      <4>1. c \in Below
        BY DEF IInv, TypeOK, PlaceInv, Below
      <4>2. QED
        BY <2>2, <3>1, <4>1 DEF Delivered
    <3>2. QED
      BY <3>1
  <2>4. ASSUME NEW p \in Members
        PROVE  pSync[p] = 0
    <3>1. \A k \in {1, 2} : FromKid(p, k) = 0
      BY <1>1, <2>2, KidsOf DEF FromKid
    <3>2. FromParent(p) = 0
      BY <1>1, <2>2 DEF FromParent, Below
    <3>3. QED
      BY <3>1, <3>2 DEF IInv, CountInv
  <2>5. QED
    BY <2>3, <2>4 DEF SHMEM_SYNC_VALUE
<1>5. QED
  BY <1>2, <1>3, <1>4

(* Every step of the algorithm is one of the calls'.                       *)
LEMMA NextIsCallsStep == IInv /\ [Next]_vars => CallsStep
<1> SUFFICES ASSUME IInv, [Next]_vars
             PROVE  CallsStep
  OBVIOUS
<1>1. DOMAIN pc = Members
  BY DEF IInv, TypeOK
<1>2. ASSUME NEW p \in Members, NEW next, NEW pending,
             Quiet(p, pending, next), next \notin {"out", "quiet"}
      PROVE  CallsStep
  BY <1>1, <1>2 DEF Quiet, Goto, CallsStep
<1>3. ASSUME NEW p \in Members, NEW from, NEW to, Within(p, from, to),
             from \notin {"out", "quiet"}, to \notin {"out", "quiet"}
      PROVE  CallsStep
  BY <1>1, <1>3 DEF Within, Goto, CallsStep
<1>4. ASSUME NEW p \in Members, NEW from, Return(p, from),
             from \notin {"out", "quiet"}
      PROVE  CallsStep
  BY <1>1, <1>4 DEF Return, Goto, CallsStep
<1>5. ASSUME NEW p \in Members, ProgramWrites(p)
      PROVE  CallsStep
  BY <1>5 DEF ProgramWrites, CallsStep
<1>6. ASSUME NEW p \in Members, CallStep(p)
      PROVE  CallsStep
  <2>1. CASE Call(p)
    BY <2>1 DEF CallsStep
  <2>2. CASE Quiet(p, Pending(p), "enter")
    BY <2>2, <1>2
  <2>3. QED
    BY <1>6, <2>1, <2>2 DEF CallStep
<1>7. ASSUME NEW p \in Members, Step(p)
      PROVE  CallsStep
  <2>1. CASE Done(p)
    BY <2>1, <1>4 DEF Done
  <2>2. CASE Begin(p) \/ Gather(p)
    BY <2>2, <1>3 DEF Begin, Gather
  <2>3. CASE PokeParent(p) \/ WaitParent(p) \/ Clear(p) \/ PokeChild(p)
    BY <2>3, <1>3 DEF PokeParent, WaitParent, Clear, PokeChild
  <2>4. QED
    BY <1>7, <2>1, <2>2, <2>3 DEF Step
<1>8. CASE Deliver
  BY <1>8 DEF Deliver, DeliverPoke, CallsStep
<1>9. CASE UNCHANGED vars
  BY <1>9 DEF vars, CallsStep
<1>10. QED
  BY <1>5, <1>6, <1>7, <1>8, <1>9 DEF Next, Run

(* The tree barrier restores pSync, never counts a poke too many, and lets *)
(* nobody leave early.                                                     *)
THEOREM TreeCorrect == Spec => [](NobodyEarly /\ NoExtraPoke /\ PSyncRestored)
<1>1. Spec => []IInv
  BY InitInv, NextInv, PTL DEF Spec
<1>2. QED
  BY <1>1, InvMeans, PTL

=============================================================================
