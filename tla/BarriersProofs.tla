--------------------------- MODULE BarriersProofs ---------------------------
(***************************************************************************)
(* shmem_barrier and shmem_sync keep their promise for every active set,   *)
(* whichever algorithm is installed: each implements AbstractBarrier, and  *)
(* the flush of shmem_barrier covers the puts of every member.             *)
(***************************************************************************)
EXTENDS Barriers, NaturalLemmas

TP == INSTANCE TreeBarrierProofs

-----------------------------------------------------------------------------
(* The linear algorithm is correct for every active set.  The proof looks  *)
(* at the round the root gathers: a member is either in that round, and    *)
(* its poke is in flight or counted, or still in the one before, and its   *)
(* acknowledgement is to be sent, in flight or in its pSync.               *)

(* The round whose pokes the root's pSync counts: from the moment it is    *)
(* cleared, the next one.                                                  *)
LinearGathering ==
    IF pc[Linear!Root] \in {"out", "scatter"} THEN entered[Linear!Root] + 1
        ELSE entered[Linear!Root]

(* The members whose poke of this round the root's pSync counts.           *)
LinearPoked == {p \in Linear!Others : entered[p] = LinearGathering /\ pc[p] = "wait"} \ pokes

(* The root is still to acknowledge p; its acknowledgement is in flight.   *)
LinearOwed(p)  == pc[Linear!Root] = "scatter" /\ i <= Linear!Index(p)
LinearAcked(p) == \E a \in acks : a.to = p

LinearAwaitsAck(p) == entered[p] = LinearGathering - 1 /\ pc[p] = "wait"

LinearRootInv ==
    /\ pc[Linear!Root] \in {"out", "quiet", "enter", "gather", "clear", "scatter"}
    /\ pc[Linear!Root] \in {"gather", "clear", "scatter"} => poke # 0

(* Members are in the round gathered, or on their way out of the one       *)
(* before.                                                                 *)
LinearRoundInv ==
    \A p \in Linear!Others :
        \/ entered[p] = LinearGathering     /\ pc[p] \in {"quiet", "enter", "wait"}
        \/ entered[p] = LinearGathering - 1 /\ pc[p] \in {"out", "wait", "reset"}

LinearPokesInv ==
    /\ \A p \in pokes : entered[p] = LinearGathering /\ pc[p] = "wait"
    /\ pSync[Linear!Root] = Cardinality(LinearPoked)
    /\ pc[Linear!Root] = "clear" => LinearPoked = Linear!Others

LinearAcksInv ==
    /\ \A a, b \in acks : a.to = b.to => a = b
    /\ \A p \in Linear!Others :
        /\ LinearOwed(p) => LinearAwaitsAck(p) /\ ~LinearAcked(p)
            /\ pSync[p] = Linear!SHMEM_SYNC_VALUE
        /\ LinearAcked(p) => LinearAwaitsAck(p) /\ pSync[p] = Linear!SHMEM_SYNC_VALUE
        /\ pSync[p] # Linear!SHMEM_SYNC_VALUE =>
              entered[p] = LinearGathering - 1 /\ pc[p] \in {"wait", "reset"}

LinearIInv == Linear!TypeOK /\ Linear!OneCallEach /\ LinearRootInv /\ LinearRoundInv
    /\ LinearPokesInv /\ LinearAcksInv

-----------------------------------------------------------------------------
(* Ranks and indices of the active set correspond, and the root has npokes *)
(* members to hear from.                                                   *)
LEMMA LinearActiveSet ==
    /\ Linear!Root \in Linear!Members /\ Linear!npokes \in Nat
    /\ \A j \in 0 .. size - 1 : Linear!Rank(j) \in Linear!Members
        /\ Linear!Index(Linear!Rank(j)) = j
    /\ \A p \in Linear!Others : p # Linear!Root /\ Linear!Index(p) \in 1 .. size - 1
        /\ Linear!Rank(Linear!Index(p)) = p
    /\ \A j \in 1 .. size - 1 : Linear!Rank(j) \in Linear!Others
    /\ IsFiniteSet(Linear!Others) /\ Cardinality(Linear!Others) = Linear!npokes
<1>1. start \in Nat /\ Linear!stride \in Nat \ {0} /\ size \in Nat \ {0}
    /\ Linear!npokes \in Nat
  BY ActiveSetAssumption, PowerPositive DEF Linear!stride, Linear!npokes
<1>2. \A j \in Nat : Linear!Index(Linear!Rank(j)) = j
  BY <1>1, StridedRanks DEF Linear!Index, Linear!Rank
<1>3. Linear!Rank(0) = Linear!Root
  BY <1>1 DEF Linear!Rank, Linear!Root
<1>4. \A j \in 0 .. size - 1 : Linear!Rank(j) \in Linear!Members
  BY <1>1 DEF Linear!Members
<1>5. Linear!Root \in Linear!Members
  BY <1>1, <1>3, <1>4
<1>6. ASSUME NEW p \in Linear!Others
      PROVE  p # Linear!Root /\ Linear!Index(p) \in 1 .. size - 1
          /\ Linear!Rank(Linear!Index(p)) = p
  <2>1. PICK j \in 0 .. size - 1 : p = Linear!Rank(j)
    BY <1>1 DEF Linear!Others, Linear!Members
  <2>2. j # 0 /\ p # Linear!Root
    BY <2>1, <1>3 DEF Linear!Others
  <2>3. QED
    BY <1>1, <1>2, <2>1, <2>2
<1>7. ASSUME NEW j \in 1 .. size - 1
      PROVE  Linear!Rank(j) \in Linear!Others
  <2>1. Linear!Rank(j) # Linear!Rank(0)
    BY <1>1, <1>2
  <2>2. QED
    BY <1>1, <1>3, <1>4, <2>1 DEF Linear!Others
<1>8. IsFiniteSet(Linear!Others) /\ Cardinality(Linear!Others) = Linear!npokes
  <2> DEFINE f == [j \in 1 .. Linear!npokes |-> Linear!Rank(j)]
  <2>1. 1 .. Linear!npokes = 1 .. size - 1
    BY DEF Linear!npokes
  <2>2. f \in [1 .. Linear!npokes -> Linear!Others]
    BY <1>7, <2>1
  <2>3. \A j, k \in 1 .. Linear!npokes : f[j] = f[k] => j = k
    BY <1>1, <1>2
  <2>4. \A p \in Linear!Others : \E j \in 1 .. Linear!npokes : f[j] = p
    BY <1>6, <2>1
  <2> HIDE DEF f
  <2>5. f \in Bijection(1 .. Linear!npokes, Linear!Others)
    BY <2>2, <2>3, <2>4 DEF Bijection, Injection, Surjection, IsInjective
  <2>6. IsFiniteSet(1 .. Linear!npokes)
      /\ Cardinality(1 .. Linear!npokes) = Linear!npokes
    BY <1>1, FS_Interval
  <2>7. QED
    BY <2>5, <2>6, FS_Bijection DEF ExistsBijection
<1>9. QED
  BY <1>1, <1>2, <1>4, <1>5, <1>6, <1>7, <1>8

(* Nobody has called: the first round of gathering has not begun.          *)
LEMMA LinearInitInv == Linear!Init => LinearIInv
<1> SUFFICES ASSUME Linear!Init
             PROVE  LinearIInv
  OBVIOUS
<1> USE LinearActiveSet, ActiveSetAssumption DEF Linear!Init, Linear!CallsInit
<1>1. Linear!TypeOK
  BY DEF Linear!TypeOK, Linear!CallsTypeOK, Linear!SHMEM_SYNC_VALUE
<1>2. LinearGathering = 1
  BY DEF LinearGathering
<1>3. Linear!OneCallEach /\ LinearRootInv /\ LinearRoundInv
  BY <1>2 DEF Linear!OneCallEach, LinearRootInv, LinearRoundInv, Linear!Others
<1>4. LinearPokesInv
  <2>1. LinearPoked = {}
    BY DEF LinearPoked, Linear!Others
  <2>2. QED
    BY <2>1, FS_EmptySet DEF LinearPokesInv, Linear!SHMEM_SYNC_VALUE
<1>5. LinearAcksInv
  BY DEF LinearAcksInv, LinearOwed, LinearAcked, Linear!Others
<1>6. QED
  BY <1>1, <1>3, <1>4, <1>5 DEF LinearIInv

(* The root is poked by as many members as pSync says, never by all of     *)
(* them unless no poke is left in flight.                                  *)
LEMMA LinearPokedIsFinite ==
    ASSUME Linear!TypeOK
    PROVE  /\ IsFiniteSet(LinearPoked)
           /\ Cardinality(LinearPoked) \in 0 .. Linear!npokes
           /\ Cardinality(LinearPoked) = Linear!npokes => LinearPoked = Linear!Others
<1>1. LinearPoked \subseteq Linear!Others
  BY DEF LinearPoked
<1>2. QED
  BY <1>1, LinearActiveSet, FS_Subset, FS_CardinalityType

(* What the proofs calculate with is numbers.                              *)
LEMMA LinearGatheringIsInt ==
    ASSUME Linear!TypeOK
    PROVE  LinearGathering \in Int /\ \A p \in Linear!Members : entered[p] \in Int
<1>1. \A p \in Linear!Members : entered[p] \in 0 .. MaxEpisodes
  BY DEF Linear!TypeOK, Linear!CallsTypeOK
<1>2. QED
  BY <1>1, LinearActiveSet, ActiveSetAssumption DEF LinearGathering

(* A step by which a member enters a call or passes its flush: neither the *)
(* round, nor a poke, nor an acknowledgement changes.                      *)
LEMMA LinearCallPreserves ==
    ASSUME LinearIInv, NEW p \in Linear!Members, Linear!CallStep(p)
    PROVE  LinearIInv'
<1>1. /\ pc[p] \in {"out", "quiet"}
      /\ pc' = [pc EXCEPT ![p] = IF pc[p] = "out" THEN "quiet" ELSE "enter"]
      /\ pc[p] = "out" => entered' = [entered EXCEPT ![p] = @ + 1]
          /\ entered[p] < MaxEpisodes
      /\ pc[p] # "out" => entered' = entered
      /\ UNCHANGED <<kind, left, writes, pSync, poke, i, pokes, acks>>
  BY DEF Linear!CallStep, Linear!Call, Linear!Quiet, Linear!Goto
<1> USE LinearActiveSet, ActiveSetAssumption
<1>2. Linear!TypeOK'
  <2>1. entered' \in [Linear!Members -> 0 .. MaxEpisodes]
    <3>1. CASE pc[p] = "out"
      <4>1. entered[p] + 1 \in 0 .. MaxEpisodes
        BY <1>1, <3>1 DEF LinearIInv, Linear!TypeOK, Linear!CallsTypeOK
      <4>2. QED
        BY <4>1, <1>1, <3>1 DEF LinearIInv, Linear!TypeOK, Linear!CallsTypeOK
    <3>2. CASE pc[p] # "out"
      BY <1>1, <3>2 DEF LinearIInv, Linear!TypeOK, Linear!CallsTypeOK
    <3>3. QED
      BY <3>1, <3>2
  <2>2. pc' \in [Linear!Members -> {"out", "quiet", "enter", "gather", "clear",
                           "scatter", "wait", "reset"}]
    BY <1>1 DEF LinearIInv, Linear!TypeOK
  <2>3. QED
    BY <1>1, <2>1, <2>2 DEF LinearIInv, Linear!TypeOK, Linear!CallsTypeOK
<1>3. Linear!OneCallEach' /\ LinearRootInv'
  BY <1>1 DEF LinearIInv, Linear!TypeOK, Linear!CallsTypeOK, Linear!OneCallEach,
     LinearRootInv
<1>4. LinearGathering' = LinearGathering /\ LinearGathering \in Int
  BY <1>1 DEF LinearIInv, Linear!TypeOK, Linear!CallsTypeOK, LinearGathering
<1>5. LinearRoundInv'
  <2> SUFFICES ASSUME NEW q \in Linear!Others
               PROVE  \/ entered'[q] = LinearGathering
                          /\ pc'[q] \in {"quiet", "enter", "wait"}
                      \/ entered'[q] = LinearGathering - 1
                          /\ pc'[q] \in {"out", "wait", "reset"}
    BY <1>4 DEF LinearRoundInv, Linear!Others
  <2>1. CASE q = p
    <3>1. /\ pc'[q] = IF pc[q] = "out" THEN "quiet" ELSE "enter"
          /\ entered'[q] = IF pc[q] = "out" THEN entered[q] + 1 ELSE entered[q]
      BY <1>1, <2>1 DEF LinearIInv, Linear!TypeOK, Linear!CallsTypeOK
    <3>2. /\ pc[q] \in {"out", "quiet"} /\ entered[q] \in Int
          /\ \/ entered[q] = LinearGathering /\ pc[q] \in {"quiet", "enter", "wait"}
             \/ entered[q] = LinearGathering - 1 /\ pc[q] \in {"out", "wait", "reset"}
      BY <1>1, <2>1 DEF LinearIInv, Linear!TypeOK, Linear!CallsTypeOK, LinearRoundInv
    <3>3. QED
      BY <1>4, <3>1, <3>2
  <2>2. CASE q # p
    BY <1>1, <2>2 DEF LinearIInv, Linear!TypeOK, Linear!CallsTypeOK, LinearRoundInv,
       Linear!Others
  <2>3. QED
    BY <2>1, <2>2
<1>6. LinearPokesInv'
  <2>1. LinearPoked' = LinearPoked
    BY <1>1, <1>4 DEF LinearIInv, Linear!TypeOK, Linear!CallsTypeOK, LinearRoundInv,
       LinearPoked, Linear!Others
  <2>2. QED
    BY <1>1, <1>4, <2>1 DEF LinearIInv, Linear!TypeOK, Linear!CallsTypeOK,
       LinearPokesInv, Linear!Others
<1>7. LinearAcksInv'
  <2>1. \A q \in Linear!Others : (LinearOwed(q)' <=> LinearOwed(q))
      /\ (LinearAcked(q)' <=> LinearAcked(q))
    BY <1>1 DEF LinearIInv, Linear!TypeOK, LinearOwed, LinearAcked
  <2>2. QED
    BY <1>1, <1>4, <2>1 DEF LinearIInv, Linear!TypeOK, Linear!CallsTypeOK,
       LinearRoundInv, LinearAcksInv, LinearAwaitsAck, Linear!Others
<1>8. QED
  BY <1>2, <1>3, <1>5, <1>6, <1>7 DEF LinearIInv

(* The root's steps.  Reading the acknowledgement and seeing all pokes     *)
(* counted leaves the members where they are.                              *)
LEMMA LinearReadPokePreserves ==
    ASSUME LinearIInv, Linear!ReadPoke
    PROVE  LinearIInv'
<1>1. /\ pc[Linear!Root] = "enter" /\ pc' = [pc EXCEPT ![Linear!Root] = "gather"]
      /\ poke' = pSync[Linear!Root] + 1
      /\ UNCHANGED <<kind, entered, left, writes, pSync, i, pokes, acks>>
  BY DEF Linear!ReadPoke, Linear!Within, Linear!Goto
<1>2. Linear!TypeOK /\ Linear!Root \in Linear!Members
    /\ Linear!Root \notin Linear!Others
  BY LinearActiveSet DEF LinearIInv, Linear!Others
<1>3. pSync[Linear!Root] \in 0 .. Linear!npokes
  BY LinearPokedIsFinite DEF LinearIInv, LinearPokesInv
<1>4. Linear!TypeOK'
  <2>1. poke' \in 0 .. size
    BY <1>1, <1>3, ActiveSetAssumption DEF Linear!npokes
  <2>2. QED
    BY <1>1, <1>2, <2>1 DEF Linear!TypeOK, Linear!CallsTypeOK
<1>5. Linear!OneCallEach' /\ LinearRootInv'
  BY <1>1, <1>2, <1>3 DEF LinearIInv, Linear!TypeOK, Linear!OneCallEach, LinearRootInv
<1>6. LinearGathering' = LinearGathering
  BY <1>1, <1>2 DEF Linear!TypeOK, LinearGathering
<1>7. \A p \in Linear!Others : pc'[p] = pc[p]
  BY <1>1, <1>2 DEF Linear!TypeOK, Linear!Others
<1>8. LinearRoundInv'
  BY <1>1, <1>6, <1>7 DEF LinearIInv, LinearRoundInv, Linear!Others
<1>9. LinearPokesInv'
  <2>1. LinearPoked' = LinearPoked
    BY <1>1, <1>6, <1>7 DEF LinearPoked, Linear!Others
  <2>2. QED
    BY <1>1, <1>2, <1>6, <1>7, <2>1 DEF LinearIInv, Linear!TypeOK, LinearPokesInv
<1>10. LinearAcksInv'
  <2>1. \A p \in Linear!Others : (LinearOwed(p)' <=> LinearOwed(p))
      /\ (LinearAcked(p)' <=> LinearAcked(p))
    BY <1>1, <1>2 DEF Linear!TypeOK, LinearOwed, LinearAcked
  <2>2. QED
    BY <1>1, <1>6, <1>7, <2>1 DEF LinearIInv, LinearAcksInv, LinearAwaitsAck,
       Linear!Others
<1>11. QED
  BY <1>4, <1>5, <1>8, <1>9, <1>10 DEF LinearIInv

(* The root counts to the number of members that have poked in this round. *)
LEMMA LinearGatherPreserves ==
    ASSUME LinearIInv, Linear!Gather
    PROVE  LinearIInv'
<1>1. /\ pc[Linear!Root] = "gather" /\ pc' = [pc EXCEPT ![Linear!Root] = "clear"]
      /\ pSync[Linear!Root] = Linear!npokes
      /\ UNCHANGED <<kind, entered, left, writes, pSync, poke, i, pokes, acks>>
  BY LinearActiveSet DEF Linear!Gather, Linear!Within, Linear!Goto,
     Linear!SHMEM_SYNC_VALUE
<1>2. Linear!TypeOK /\ Linear!Root \in Linear!Members
    /\ Linear!Root \notin Linear!Others
  BY LinearActiveSet DEF LinearIInv, Linear!Others
<1>3. LinearPoked = Linear!Others
  BY <1>1, <1>2, LinearPokedIsFinite DEF LinearIInv, LinearPokesInv
<1>4. Linear!TypeOK'
  BY <1>1, <1>2 DEF Linear!TypeOK, Linear!CallsTypeOK
<1>5. Linear!OneCallEach' /\ LinearRootInv'
  BY <1>1, <1>2 DEF LinearIInv, Linear!TypeOK, Linear!OneCallEach, LinearRootInv
<1>6. LinearGathering' = LinearGathering
  BY <1>1, <1>2 DEF Linear!TypeOK, LinearGathering
<1>7. \A p \in Linear!Others : pc'[p] = pc[p]
  BY <1>1, <1>2 DEF Linear!TypeOK, Linear!Others
<1>8. LinearRoundInv'
  BY <1>1, <1>6, <1>7 DEF LinearIInv, LinearRoundInv, Linear!Others
<1>9. LinearPokesInv'
  <2>1. LinearPoked' = LinearPoked
    BY <1>1, <1>6, <1>7 DEF LinearPoked, Linear!Others
  <2>2. QED
    BY <1>1, <1>2, <1>3, <1>6, <1>7, <2>1 DEF LinearIInv, Linear!TypeOK, LinearPokesInv
<1>10. LinearAcksInv'
  <2>1. \A p \in Linear!Others : (LinearOwed(p)' <=> LinearOwed(p))
      /\ (LinearAcked(p)' <=> LinearAcked(p))
    BY <1>1, <1>2 DEF Linear!TypeOK, LinearOwed, LinearAcked
  <2>2. QED
    BY <1>1, <1>6, <1>7, <2>1 DEF LinearIInv, LinearAcksInv, LinearAwaitsAck,
       Linear!Others
<1>11. QED
  BY <1>4, <1>5, <1>8, <1>9, <1>10 DEF LinearIInv

(* Clearing pSync closes the round: every member is owed an                *)
(* acknowledgement, and no poke of the next round has been sent.           *)
LEMMA LinearClearPreserves ==
    ASSUME LinearIInv, Linear!Clear
    PROVE  LinearIInv'
<1>1. /\ pc[Linear!Root] = "clear" /\ pc' = [pc EXCEPT ![Linear!Root] = "scatter"]
      /\ pSync' = [pSync EXCEPT ![Linear!Root] = Linear!SHMEM_SYNC_VALUE] /\ i' = 1
      /\ UNCHANGED <<kind, entered, left, writes, poke, pokes, acks>>
  BY DEF Linear!Clear, Linear!Within, Linear!Goto
<1>2. Linear!TypeOK /\ Linear!Root \in Linear!Members
    /\ Linear!Root \notin Linear!Others /\ LinearGathering \in Int
  BY LinearActiveSet, LinearGatheringIsInt DEF LinearIInv, Linear!Others
<1>3. \A p \in Linear!Others : entered[p] = LinearGathering /\ pc[p] = "wait"
    /\ p \notin pokes
  BY <1>1 DEF LinearIInv, LinearPokesInv, LinearPoked
<1>4. Linear!TypeOK'
  BY <1>1, <1>2, ActiveSetAssumption DEF Linear!TypeOK, Linear!CallsTypeOK,
     Linear!SHMEM_SYNC_VALUE
<1>5. Linear!OneCallEach' /\ LinearRootInv'
  BY <1>1, <1>2 DEF LinearIInv, Linear!TypeOK, Linear!OneCallEach, LinearRootInv
<1>6. LinearGathering' = LinearGathering + 1
  BY <1>1, <1>2 DEF Linear!TypeOK, LinearGathering
<1>7. \A p \in Linear!Others : pc'[p] = "wait" /\ pSync'[p] = pSync[p]
                        /\ entered'[p] = LinearGathering' - 1
                            /\ entered'[p] # LinearGathering'
  BY <1>1, <1>2, <1>3, <1>6 DEF Linear!TypeOK, Linear!Others
<1>8. LinearRoundInv'
  BY <1>1, <1>7 DEF LinearRoundInv, Linear!Others
<1>9. LinearPokesInv'
  <2>1. LinearPoked' = {}
    BY <1>1, <1>7 DEF LinearPoked, Linear!Others
  <2>2. pSync'[Linear!Root] = 0
    BY <1>1, <1>2 DEF Linear!TypeOK, Linear!SHMEM_SYNC_VALUE
  <2>3. pokes' = {} /\ pc'[Linear!Root] = "scatter"
    BY <1>1, <1>2, <1>3 DEF Linear!TypeOK
  <2>4. QED
    BY <2>1, <2>2, <2>3, FS_EmptySet DEF LinearPokesInv
<1>10. LinearAcksInv'
  <2>1. \A p \in Linear!Others : (LinearAcked(p)' <=> LinearAcked(p)) /\ ~LinearAcked(p)
                          /\ pSync[p] = Linear!SHMEM_SYNC_VALUE
    BY <1>1, <1>2, <1>3 DEF LinearIInv, LinearAcksInv, LinearAwaitsAck, LinearAcked
  <2>2. \A p \in Linear!Others : LinearAwaitsAck(p)'
    BY <1>7 DEF LinearAwaitsAck
  <2>3. \A a, b \in acks' : a.to = b.to => a = b
    BY <1>1 DEF LinearIInv, LinearAcksInv
  <2>4. QED
    BY <1>7, <2>1, <2>2, <2>3 DEF LinearAcksInv, Linear!Others
<1>11. QED
  BY <1>4, <1>5, <1>8, <1>9, <1>10 DEF LinearIInv

(* An acknowledgement posted is one owed less.                             *)
LEMMA LinearScatterPreserves ==
    ASSUME LinearIInv, Linear!Scatter
    PROVE  LinearIInv'
<1> DEFINE c == Linear!Rank(i)
           ack == [to |-> c, val |-> poke]
<1>1. /\ pc[Linear!Root] = "scatter" /\ i < size /\ i' = i + 1
      /\ acks' = acks \union {ack}
      /\ pc' = [pc EXCEPT ![Linear!Root] = "scatter"]
      /\ UNCHANGED <<kind, entered, left, writes, pSync, poke, pokes>>
  BY DEF Linear!Scatter, Linear!Within, Linear!Goto
<1>2. Linear!TypeOK /\ Linear!Root \in Linear!Members
    /\ Linear!Root \notin Linear!Others
  BY LinearActiveSet DEF LinearIInv, Linear!Others
<1>3. i \in 1 .. size - 1 /\ i' \in 1 .. size
  BY <1>1, <1>2, ActiveSetAssumption DEF Linear!TypeOK
<1>4. c \in Linear!Others /\ Linear!Index(c) = i
  BY <1>3, LinearActiveSet
<1> HIDE DEF c
<1>5. poke \in 1 .. size
  BY <1>1, <1>2, ActiveSetAssumption DEF LinearIInv, LinearRootInv, Linear!TypeOK
<1>6. pc' = pc
  BY <1>1, <1>2 DEF Linear!TypeOK
<1>7. Linear!TypeOK'
  <2>1. ack \in [to : Linear!Others, val : 1 .. size]
    BY <1>4, <1>5
  <2> HIDE DEF ack
  <2>2. acks' \in SUBSET [to : Linear!Others, val : 1 .. size]
    BY <1>1, <1>2, <2>1 DEF Linear!TypeOK
  <2>3. QED
    BY <1>1, <1>2, <1>3, <1>6, <2>2 DEF Linear!TypeOK, Linear!CallsTypeOK
<1>8. Linear!OneCallEach' /\ LinearRootInv'
  BY <1>1, <1>6 DEF LinearIInv, Linear!OneCallEach, LinearRootInv
<1>9. LinearGathering' = LinearGathering /\ LinearPoked' = LinearPoked
  BY <1>1, <1>6 DEF LinearGathering, LinearPoked
<1>10. LinearRoundInv' /\ LinearPokesInv'
  BY <1>1, <1>6, <1>9 DEF LinearIInv, LinearRoundInv, LinearPokesInv
<1>11. LinearAcksInv'
  <2>1. LinearAwaitsAck(c) /\ ~LinearAcked(c) /\ pSync[c] = Linear!SHMEM_SYNC_VALUE
    BY <1>1, <1>3, <1>4 DEF LinearIInv, LinearAcksInv, LinearOwed
  <2>2. \A p \in Linear!Others : LinearAwaitsAck(p)' <=> LinearAwaitsAck(p)
    BY <1>1, <1>6, <1>9 DEF LinearAwaitsAck
  <2>3. \A p \in Linear!Others : LinearAcked(p)' <=> LinearAcked(p) \/ p = c
    <3>1. ack.to = c
      OBVIOUS
    <3> HIDE DEF ack
    <3>2. QED
      BY <1>1, <3>1 DEF LinearAcked
  <2>4. \A p \in Linear!Others : LinearOwed(p)' <=> LinearOwed(p) /\ p # c
    <3>1. \A p \in Linear!Others : Linear!Index(p) \in Int
        /\ (Linear!Index(p) = i <=> p = c)
      BY <1>4, LinearActiveSet
    <3>2. QED
      BY <1>1, <1>3, <1>6, <3>1 DEF LinearOwed
  <2>5. ASSUME NEW a \in acks', NEW b \in acks', a.to = b.to
        PROVE  a = b
    <3>1. \A x \in acks : x.to # c
      BY <2>1 DEF LinearAcked
    <3>2. ack.to = c
      OBVIOUS
    <3>3. QED
      BY <1>1, <2>5, <3>1, <3>2 DEF LinearIInv, LinearAcksInv
  <2>6. QED
    BY <1>1, <1>6, <1>9, <2>1, <2>2, <2>3, <2>4, <2>5 DEF LinearIInv, LinearAcksInv
<1>12. QED
  BY <1>7, <1>8, <1>10, <1>11 DEF LinearIInv

(* The root returns with nobody left to acknowledge; the round it gathers  *)
(* stays the next one.                                                     *)
LEMMA LinearScatterDonePreserves ==
    ASSUME LinearIInv, Linear!ScatterDone
    PROVE  LinearIInv'
<1>1. /\ pc[Linear!Root] = "scatter" /\ i = size
      /\ pc' = [pc EXCEPT ![Linear!Root] = "out"]
      /\ left' = [left EXCEPT ![Linear!Root] = @ + 1]
      /\ UNCHANGED <<kind, entered, writes, pSync, poke, i, pokes, acks>>
  BY DEF Linear!ScatterDone, Linear!Return, Linear!Goto
<1>2. Linear!TypeOK /\ Linear!Root \in Linear!Members
    /\ Linear!Root \notin Linear!Others
  BY LinearActiveSet DEF LinearIInv, Linear!Others
<1>3. \A p \in Linear!Others : pc'[p] = pc[p]
  BY <1>1, <1>2 DEF Linear!TypeOK, Linear!Others
<1>4. entered[Linear!Root] = left[Linear!Root] + 1
  BY <1>1, <1>2 DEF LinearIInv, Linear!OneCallEach
<1>5. Linear!TypeOK'
  <2>1. left[Linear!Root] + 1 \in 0 .. MaxEpisodes
    BY <1>2, <1>4 DEF Linear!TypeOK, Linear!CallsTypeOK
  <2>2. QED
    BY <1>1, <1>2, <2>1 DEF Linear!TypeOK, Linear!CallsTypeOK
<1>6. Linear!OneCallEach' /\ LinearRootInv'
  BY <1>1, <1>2, <1>4 DEF LinearIInv, Linear!TypeOK, Linear!CallsTypeOK,
     Linear!OneCallEach, LinearRootInv
<1>7. LinearGathering' = LinearGathering /\ LinearPoked' = LinearPoked
  <2>1. LinearGathering' = LinearGathering
    BY <1>1, <1>2 DEF Linear!TypeOK, LinearGathering
  <2>2. QED
    BY <1>1, <1>3, <2>1 DEF LinearPoked, Linear!Others
<1>8. LinearRoundInv'
  BY <1>1, <1>3, <1>7 DEF LinearIInv, LinearRoundInv, Linear!Others
<1>9. LinearPokesInv'
  BY <1>1, <1>2, <1>3, <1>7 DEF LinearIInv, Linear!TypeOK, LinearPokesInv
<1>10. LinearAcksInv'
  <2>1. \A p \in Linear!Others : ~LinearOwed(p) /\ ~LinearOwed(p)'
    BY <1>1, <1>2, LinearActiveSet, ActiveSetAssumption DEF Linear!TypeOK, LinearOwed
  <2>2. \A p \in Linear!Others : LinearAcked(p)' <=> LinearAcked(p)
    BY <1>1 DEF LinearAcked
  <2>3. QED
    BY <1>1, <1>3, <1>7, <2>1, <2>2 DEF LinearIInv, LinearAcksInv, LinearAwaitsAck,
       Linear!Others
<1>11. QED
  BY <1>5, <1>6, <1>8, <1>9, <1>10 DEF LinearIInv

(* The members' steps.  A member pokes once per round, in the round the    *)
(* root gathers.                                                           *)
LEMMA LinearPokeRootPreserves ==
    ASSUME LinearIInv, NEW p \in Linear!Others, Linear!PokeRoot(p)
    PROVE  LinearIInv'
<1>1. /\ pc[p] = "enter" /\ pc' = [pc EXCEPT ![p] = "wait"]
      /\ pokes' = pokes \union {p}
      /\ UNCHANGED <<kind, entered, left, writes, pSync, poke, i, acks>>
  BY DEF Linear!PokeRoot, Linear!Within, Linear!Goto
<1>2. Linear!TypeOK /\ p \in Linear!Members /\ p # Linear!Root
  BY DEF LinearIInv, Linear!Others
<1>3. entered[p] = LinearGathering
  BY <1>1 DEF LinearIInv, LinearRoundInv
<1>4. pc'[Linear!Root] = pc[Linear!Root] /\ pc'[p] = "wait"
  BY <1>1, <1>2, LinearActiveSet DEF Linear!TypeOK
<1>5. \A q \in Linear!Members : q # p => pc'[q] = pc[q]
  BY <1>1, <1>2 DEF Linear!TypeOK
<1>6. Linear!TypeOK'
  BY <1>1, <1>2 DEF Linear!TypeOK, Linear!CallsTypeOK
<1>7. Linear!OneCallEach' /\ LinearRootInv'
  BY <1>1, <1>4, <1>5 DEF LinearIInv, Linear!OneCallEach, LinearRootInv
<1>8. LinearGathering' = LinearGathering /\ LinearPoked' = LinearPoked
  <2>1. LinearGathering' = LinearGathering
    BY <1>1, <1>4 DEF LinearGathering
  <2>2. p \notin LinearPoked /\ p \notin LinearPoked'
    BY <1>1 DEF LinearPoked
  <2>3. \A q \in Linear!Others : q # p => (q \in LinearPoked' <=> q \in LinearPoked)
    BY <1>1, <1>5, <2>1 DEF LinearPoked, Linear!Others
  <2>4. LinearPoked \subseteq Linear!Others /\ LinearPoked' \subseteq Linear!Others
    BY DEF LinearPoked, Linear!Others
  <2>5. QED
    BY <2>1, <2>2, <2>3, <2>4
<1>9. LinearRoundInv'
  BY <1>1, <1>3, <1>4, <1>5, <1>8 DEF LinearIInv, LinearRoundInv, Linear!Others
<1>10. LinearPokesInv'
  <2>1. \A q \in pokes' : entered'[q] = LinearGathering /\ pc'[q] = "wait"
    BY <1>1, <1>2, <1>3, <1>4, <1>5 DEF LinearIInv, LinearPokesInv
  <2>2. QED
    BY <1>1, <1>4, <1>8, <2>1 DEF LinearIInv, LinearPokesInv, Linear!Others
<1>11. LinearAcksInv'
  <2>1. \A q \in Linear!Others : (LinearOwed(q)' <=> LinearOwed(q))
      /\ (LinearAcked(q)' <=> LinearAcked(q))
    BY <1>1, <1>4 DEF LinearOwed, LinearAcked
  <2>2. ~LinearAwaitsAck(p) /\ pSync[p] = Linear!SHMEM_SYNC_VALUE
    BY <1>1 DEF LinearIInv, LinearAcksInv, LinearAwaitsAck
  <2>3. \A q \in Linear!Others : q # p => (LinearAwaitsAck(q)' <=> LinearAwaitsAck(q))
    BY <1>1, <1>5, <1>8 DEF LinearAwaitsAck, Linear!Others
  <2>4. QED
    BY <1>1, <1>5, <1>8, <2>1, <2>2, <2>3 DEF LinearIInv, LinearAcksInv, Linear!Others
<1>12. QED
  BY <1>6, <1>7, <1>9, <1>10, <1>11 DEF LinearIInv

(* A member that finds its pSync changed has its acknowledgement, and      *)
(* there is no other to come.                                              *)
LEMMA LinearWaitAckPreserves ==
    ASSUME LinearIInv, NEW p \in Linear!Others, Linear!WaitAck(p)
    PROVE  LinearIInv'
<1>1. /\ pc[p] = "wait" /\ pc' = [pc EXCEPT ![p] = "reset"]
      /\ pSync[p] # Linear!SHMEM_SYNC_VALUE
      /\ UNCHANGED <<kind, entered, left, writes, pSync, poke, i, pokes, acks>>
  BY DEF Linear!WaitAck, Linear!Within, Linear!Goto
<1>2. Linear!TypeOK /\ p \in Linear!Members /\ p # Linear!Root
    /\ LinearGathering \in Int
  BY LinearGatheringIsInt DEF LinearIInv, Linear!Others
<1>3. entered[p] = LinearGathering - 1 /\ entered[p] # LinearGathering
  BY <1>1, <1>2 DEF LinearIInv, LinearAcksInv
<1>4. pc'[Linear!Root] = pc[Linear!Root] /\ pc'[p] = "reset"
  BY <1>1, <1>2, LinearActiveSet DEF Linear!TypeOK
<1>5. \A q \in Linear!Members : q # p => pc'[q] = pc[q]
  BY <1>1, <1>2 DEF Linear!TypeOK
<1>6. Linear!TypeOK'
  BY <1>1, <1>2 DEF Linear!TypeOK, Linear!CallsTypeOK
<1>7. Linear!OneCallEach' /\ LinearRootInv'
  BY <1>1, <1>4, <1>5 DEF LinearIInv, Linear!OneCallEach, LinearRootInv
<1>8. LinearGathering' = LinearGathering /\ LinearPoked' = LinearPoked
  <2>1. LinearGathering' = LinearGathering
    BY <1>1, <1>4 DEF LinearGathering
  <2>2. p \notin LinearPoked /\ p \notin LinearPoked'
    BY <1>1, <1>3, <2>1 DEF LinearPoked
  <2>3. \A q \in Linear!Others : q # p => (q \in LinearPoked' <=> q \in LinearPoked)
    BY <1>1, <1>5, <2>1 DEF LinearPoked, Linear!Others
  <2>4. LinearPoked \subseteq Linear!Others /\ LinearPoked' \subseteq Linear!Others
    BY DEF LinearPoked, Linear!Others
  <2>5. QED
    BY <2>1, <2>2, <2>3, <2>4
<1>9. LinearRoundInv'
  BY <1>1, <1>3, <1>4, <1>5, <1>8 DEF LinearIInv, LinearRoundInv, Linear!Others
<1>10. LinearPokesInv'
  <2>1. \A q \in pokes' : entered'[q] = LinearGathering /\ pc'[q] = "wait"
    BY <1>1, <1>2, <1>3, <1>5 DEF LinearIInv, LinearPokesInv, Linear!TypeOK,
       Linear!Others
  <2>2. QED
    BY <1>1, <1>4, <1>8, <2>1 DEF LinearIInv, LinearPokesInv, Linear!Others
<1>11. LinearAcksInv'
  <2>1. \A q \in Linear!Others : (LinearOwed(q)' <=> LinearOwed(q))
      /\ (LinearAcked(q)' <=> LinearAcked(q))
    BY <1>1, <1>4 DEF LinearOwed, LinearAcked
  <2>2. ~LinearOwed(p) /\ ~LinearAcked(p)
    BY <1>1 DEF LinearIInv, LinearAcksInv
  <2>3. \A q \in Linear!Others : q # p => (LinearAwaitsAck(q)' <=> LinearAwaitsAck(q))
    BY <1>1, <1>5, <1>8 DEF LinearAwaitsAck, Linear!Others
  <2>4. QED
    BY <1>1, <1>3, <1>4, <1>5, <1>8, <2>1, <2>2, <2>3 DEF LinearIInv, LinearAcksInv,
       Linear!Others
<1>12. QED
  BY <1>6, <1>7, <1>9, <1>10, <1>11 DEF LinearIInv

(* A member clears its word after the acknowledgement has come and before  *)
(* it can call again.                                                      *)
LEMMA LinearResetAckPreserves ==
    ASSUME LinearIInv, NEW p \in Linear!Others, Linear!ResetAck(p)
    PROVE  LinearIInv'
<1>1. /\ pc[p] = "reset" /\ pc' = [pc EXCEPT ![p] = "out"]
      /\ left' = [left EXCEPT ![p] = @ + 1]
      /\ pSync' = [pSync EXCEPT ![p] = Linear!SHMEM_SYNC_VALUE]
      /\ UNCHANGED <<kind, entered, writes, poke, i, pokes, acks>>
  BY DEF Linear!ResetAck, Linear!Return, Linear!Goto
<1>2. Linear!TypeOK /\ p \in Linear!Members /\ p # Linear!Root
    /\ LinearGathering \in Int
  BY LinearGatheringIsInt DEF LinearIInv, Linear!Others
<1>3. entered[p] = LinearGathering - 1 /\ entered[p] # LinearGathering
  BY <1>1, <1>2 DEF LinearIInv, LinearRoundInv
<1>4. /\ pc'[Linear!Root] = pc[Linear!Root] /\ pc'[p] = "out"
      /\ pSync'[Linear!Root] = pSync[Linear!Root] /\ pSync'[p] = Linear!SHMEM_SYNC_VALUE
  BY <1>1, <1>2, LinearActiveSet DEF Linear!TypeOK
<1>5. \A q \in Linear!Members : q # p => pc'[q] = pc[q] /\ pSync'[q] = pSync[q]
    /\ left'[q] = left[q]
  BY <1>1, <1>2 DEF Linear!TypeOK, Linear!CallsTypeOK
<1>6. entered[p] = left[p] + 1 /\ left'[p] = left[p] + 1
  BY <1>1, <1>2 DEF LinearIInv, Linear!OneCallEach, Linear!TypeOK, Linear!CallsTypeOK
<1>7. Linear!TypeOK'
  <2>1. left[p] + 1 \in 0 .. MaxEpisodes
    BY <1>2, <1>6 DEF Linear!TypeOK, Linear!CallsTypeOK
  <2>2. 0 \in 0 .. size
    BY ActiveSetAssumption
  <2>3. QED
    BY <1>1, <1>2, <2>1, <2>2 DEF Linear!TypeOK, Linear!CallsTypeOK,
       Linear!SHMEM_SYNC_VALUE
<1>8. Linear!OneCallEach' /\ LinearRootInv'
  BY <1>1, <1>4, <1>5, <1>6 DEF LinearIInv, Linear!OneCallEach, LinearRootInv
<1>9. LinearGathering' = LinearGathering /\ LinearPoked' = LinearPoked
  <2>1. LinearGathering' = LinearGathering
    BY <1>1, <1>4 DEF LinearGathering
  <2>2. p \notin LinearPoked /\ p \notin LinearPoked'
    BY <1>1, <1>3, <2>1 DEF LinearPoked
  <2>3. \A q \in Linear!Others : q # p => (q \in LinearPoked' <=> q \in LinearPoked)
    BY <1>1, <1>5, <2>1 DEF LinearPoked, Linear!Others
  <2>4. LinearPoked \subseteq Linear!Others /\ LinearPoked' \subseteq Linear!Others
    BY DEF LinearPoked, Linear!Others
  <2>5. QED
    BY <2>1, <2>2, <2>3, <2>4
<1>10. LinearRoundInv'
  BY <1>1, <1>3, <1>4, <1>5, <1>9 DEF LinearIInv, LinearRoundInv, Linear!Others
<1>11. LinearPokesInv'
  <2>1. \A q \in pokes' : entered'[q] = LinearGathering /\ pc'[q] = "wait"
    BY <1>1, <1>2, <1>3, <1>5 DEF LinearIInv, LinearPokesInv, Linear!TypeOK,
       Linear!Others
  <2>2. QED
    BY <1>1, <1>4, <1>9, <2>1 DEF LinearIInv, LinearPokesInv, Linear!Others
<1>12. LinearAcksInv'
  <2>1. \A q \in Linear!Others : (LinearOwed(q)' <=> LinearOwed(q))
      /\ (LinearAcked(q)' <=> LinearAcked(q))
    BY <1>1, <1>4 DEF LinearOwed, LinearAcked
  <2>2. ~LinearOwed(p) /\ ~LinearAcked(p)
    BY <1>1 DEF LinearIInv, LinearAcksInv, LinearAwaitsAck
  <2>3. \A q \in Linear!Others : q # p => (LinearAwaitsAck(q)' <=> LinearAwaitsAck(q))
    BY <1>1, <1>5, <1>9 DEF LinearAwaitsAck, Linear!Others
  <2>4. QED
    BY <1>1, <1>3, <1>4, <1>5, <1>9, <2>1, <2>2, <2>3 DEF LinearIInv, LinearAcksInv,
       Linear!Others
<1>13. QED
  BY <1>7, <1>8, <1>10, <1>11, <1>12 DEF LinearIInv

(* Deliveries.  A poke that arrives is counted; an acknowledgement that    *)
(* arrives goes to a member that waits for it.                             *)
LEMMA LinearDeliverPokePreserves ==
    ASSUME LinearIInv, NEW p \in pokes, Linear!DeliverPoke(p)
    PROVE  LinearIInv'
<1>1. /\ pokes' = pokes \ {p}
      /\ pSync' = [pSync EXCEPT ![Linear!Root] = @ + 1]
      /\ UNCHANGED <<kind, pc, entered, left, writes, poke, i, acks>>
  BY DEF Linear!DeliverPoke, Linear!callVars
<1>2. Linear!TypeOK /\ Linear!Root \in Linear!Members
    /\ Linear!Root \notin Linear!Others /\ p \in Linear!Others
  BY LinearActiveSet DEF LinearIInv, Linear!TypeOK, Linear!Others
<1>3. LinearGathering' = LinearGathering
  BY <1>1 DEF LinearGathering
<1>4. p \notin LinearPoked /\ LinearPoked' = LinearPoked \union {p}
  BY <1>1, <1>2, <1>3 DEF LinearIInv, LinearPokesInv, LinearPoked, Linear!Others
<1>5. /\ IsFiniteSet(LinearPoked') /\ Cardinality(LinearPoked') \in 0 .. Linear!npokes
      /\ Cardinality(LinearPoked') = Cardinality(LinearPoked) + 1
  <2>1. LinearPoked' \subseteq Linear!Others
    BY <1>2, <1>4 DEF LinearPoked
  <2>2. IsFiniteSet(LinearPoked') /\ Cardinality(LinearPoked') \in 0 .. Linear!npokes
    BY <2>1, LinearActiveSet, FS_Subset, FS_CardinalityType
  <2>3. QED
    BY <1>2, <1>4, <2>2, LinearPokedIsFinite, FS_AddElement
<1>6. pSync'[Linear!Root] = Cardinality(LinearPoked')
  BY <1>1, <1>2, <1>5 DEF LinearIInv, LinearPokesInv, Linear!TypeOK
<1>7. \A q \in Linear!Others : pSync'[q] = pSync[q]
  BY <1>1, <1>2 DEF Linear!TypeOK, Linear!Others
<1>8. Linear!TypeOK'
  <2>1. pSync[Linear!Root] + 1 \in 0 .. size
    BY <1>5, ActiveSetAssumption DEF LinearIInv, LinearPokesInv, Linear!npokes
  <2>2. QED
    BY <1>1, <1>2, <2>1 DEF Linear!TypeOK, Linear!CallsTypeOK
<1>9. Linear!OneCallEach' /\ LinearRootInv' /\ LinearRoundInv'
  BY <1>1, <1>3 DEF LinearIInv, Linear!OneCallEach, LinearRootInv, LinearRoundInv
<1>10. LinearPokesInv'
  <2>1. pc[Linear!Root] = "clear" => LinearPoked' = Linear!Others
    BY <1>2, <1>4 DEF LinearIInv, LinearPokesInv
  <2>2. QED
    BY <1>1, <1>3, <1>6, <2>1 DEF LinearIInv, LinearPokesInv
<1>11. LinearAcksInv'
  <2>1. \A q \in Linear!Others : (LinearOwed(q)' <=> LinearOwed(q))
      /\ (LinearAcked(q)' <=> LinearAcked(q))
                          /\ (LinearAwaitsAck(q)' <=> LinearAwaitsAck(q))
    BY <1>1, <1>3 DEF LinearOwed, LinearAcked, LinearAwaitsAck
  <2>2. QED
    BY <1>1, <1>3, <1>7, <2>1 DEF LinearIInv, LinearAcksInv
<1>12. QED
  BY <1>8, <1>9, <1>10, <1>11 DEF LinearIInv

(* An acknowledgement reaches a member that waits for it, whose word is    *)
(* clear.                                                                  *)
LEMMA LinearDeliverAckPreserves ==
    ASSUME LinearIInv, NEW a \in acks, Linear!DeliverAck(a)
    PROVE  LinearIInv'
<1>1. /\ acks' = acks \ {a}
      /\ pSync' = [pSync EXCEPT ![a.to] = a.val]
      /\ UNCHANGED <<kind, pc, entered, left, writes, poke, i, pokes>>
  BY DEF Linear!DeliverAck, Linear!callVars
<1>2. /\ Linear!TypeOK /\ Linear!Root \in Linear!Members
      /\ Linear!Root \notin Linear!Others
      /\ a.to \in Linear!Others /\ a.to \in Linear!Members /\ a.val \in 1 .. size
  BY LinearActiveSet DEF LinearIInv, Linear!TypeOK, Linear!Others
<1>3. LinearGathering' = LinearGathering /\ LinearPoked' = LinearPoked
  BY <1>1 DEF LinearGathering, LinearPoked
<1>4. /\ pSync'[Linear!Root] = pSync[Linear!Root]
      /\ \A q \in Linear!Others : q # a.to => pSync'[q] = pSync[q]
  BY <1>1, <1>2 DEF Linear!TypeOK, Linear!Others
<1>5. Linear!TypeOK'
  <2>1. a.val \in 0 .. size
    BY <1>2, ActiveSetAssumption
  <2>2. acks' \in SUBSET [to : Linear!Others, val : 1 .. size]
    BY <1>1, <1>2 DEF Linear!TypeOK
  <2>3. QED
    BY <1>1, <1>2, <2>1, <2>2 DEF Linear!TypeOK, Linear!CallsTypeOK
<1>6. Linear!OneCallEach' /\ LinearRootInv' /\ LinearRoundInv' /\ LinearPokesInv'
  BY <1>1, <1>3, <1>4 DEF LinearIInv, Linear!OneCallEach, LinearRootInv,
     LinearRoundInv, LinearPokesInv
<1>7. LinearAcksInv'
  <2>1. LinearAcked(a.to) /\ LinearAwaitsAck(a.to) /\ ~LinearOwed(a.to)
    BY <1>2 DEF LinearIInv, LinearAcksInv, LinearAcked
  <2>2. \A q \in Linear!Others : (LinearOwed(q)' <=> LinearOwed(q))
      /\ (LinearAwaitsAck(q)' <=> LinearAwaitsAck(q))
    BY <1>1, <1>3 DEF LinearOwed, LinearAwaitsAck
  <2>3. ~LinearAcked(a.to)'
    BY <1>1 DEF LinearIInv, LinearAcksInv, LinearAcked
  <2>4. \A q \in Linear!Others : q # a.to => (LinearAcked(q)' <=> LinearAcked(q))
    BY <1>1 DEF LinearAcked
  <2>5. \A b, c \in acks' : b.to = c.to => b = c
    BY <1>1 DEF LinearIInv, LinearAcksInv
  <2>6. ASSUME NEW q \in Linear!Others
        PROVE  /\ LinearOwed(q)' => /\ LinearAwaitsAck(q)' /\ ~LinearAcked(q)'
                              /\ pSync'[q] = Linear!SHMEM_SYNC_VALUE
               /\ LinearAcked(q)' => LinearAwaitsAck(q)'
                   /\ pSync'[q] = Linear!SHMEM_SYNC_VALUE
               /\ pSync'[q] # Linear!SHMEM_SYNC_VALUE =>
                     entered'[q] = LinearGathering' - 1 /\ pc'[q] \in {"wait", "reset"}
    <3>1. CASE q = a.to
      BY <1>1, <1>3, <2>1, <2>2, <2>3, <3>1 DEF LinearAwaitsAck
    <3>2. CASE q # a.to
      BY <1>1, <1>3, <1>4, <2>2, <2>4, <3>2 DEF LinearIInv, LinearAcksInv
    <3>3. QED
      BY <3>1, <3>2
  <2>7. QED
    BY <1>1, <2>5, <2>6 DEF LinearAcksInv, Linear!Others
<1>8. QED
  BY <1>5, <1>6, <1>7 DEF LinearIInv

(* A put of the program leaves the algorithm alone.                        *)
LEMMA LinearWritesPreserve ==
    ASSUME LinearIInv, UNCHANGED <<kind, pc, entered, left, pSync, poke, i, pokes,
        acks>>,
           writes' \in SUBSET [from : Linear!Members, ep : 1 .. MaxEpisodes]
    PROVE  LinearIInv'
<1>1. Linear!TypeOK'
  BY DEF LinearIInv, Linear!TypeOK, Linear!CallsTypeOK
<1>2. LinearGathering' = LinearGathering /\ LinearPoked' = LinearPoked
  BY DEF LinearGathering, LinearPoked
<1>3. \A q \in Linear!Others : (LinearOwed(q)' <=> LinearOwed(q))
    /\ (LinearAcked(q)' <=> LinearAcked(q))
                        /\ (LinearAwaitsAck(q)' <=> LinearAwaitsAck(q))
  BY <1>2 DEF LinearOwed, LinearAcked, LinearAwaitsAck
<1>4. Linear!OneCallEach' /\ LinearRootInv' /\ LinearRoundInv' /\ LinearPokesInv'
  BY <1>2 DEF LinearIInv, Linear!OneCallEach, LinearRootInv, LinearRoundInv,
     LinearPokesInv
<1>5. LinearAcksInv'
  BY <1>2, <1>3 DEF LinearIInv, LinearAcksInv
<1>6. QED
  BY <1>1, <1>4, <1>5 DEF LinearIInv

(* The invariant is inductive.                                             *)
LEMMA LinearNextInv == LinearIInv /\ [Linear!Next]_(Linear!vars) => LinearIInv'
<1> SUFFICES ASSUME LinearIInv, [Linear!Next]_(Linear!vars)
             PROVE  LinearIInv'
  OBVIOUS
<1>1. ASSUME NEW p \in Linear!Members, Linear!ProgramWrites(p)
      PROVE  LinearIInv'
  <2>1. entered[p] + 1 \in 1 .. MaxEpisodes
    BY <1>1, ActiveSetAssumption DEF LinearIInv, Linear!TypeOK, Linear!CallsTypeOK,
       Linear!ProgramWrites, Linear!Write
  <2>2. [from |-> p, ep |-> entered[p] + 1] \in [from : Linear!Members, ep : 1 .. MaxEpisodes]
    BY <2>1
  <2>3. writes' \in SUBSET [from : Linear!Members, ep : 1 .. MaxEpisodes]
    BY <1>1, <2>2 DEF LinearIInv, Linear!TypeOK, Linear!CallsTypeOK,
       Linear!ProgramWrites, Linear!Write
  <2>4. QED
    BY <1>1, <2>3, LinearWritesPreserve DEF Linear!ProgramWrites, Linear!Write
<1>2. ASSUME NEW p \in Linear!Members, Linear!CallStep(p)
      PROVE  LinearIInv'
  BY <1>2, LinearCallPreserves
<1>3. CASE Linear!RootStep
  BY <1>3, LinearReadPokePreserves, LinearGatherPreserves, LinearClearPreserves,
     LinearScatterPreserves,
     LinearScatterDonePreserves DEF Linear!RootStep
<1>4. ASSUME NEW p \in Linear!Others, Linear!OtherStep(p)
      PROVE  LinearIInv'
  BY <1>4, LinearPokeRootPreserves, LinearWaitAckPreserves, LinearResetAckPreserves
     DEF Linear!OtherStep
<1>5. ASSUME NEW w \in writes, Linear!DeliverWrite(w) /\ UNCHANGED <<pSync, poke, i,
    pokes, acks>>
      PROVE  LinearIInv'
  <2>1. writes' \in SUBSET [from : Linear!Members, ep : 1 .. MaxEpisodes]
    BY <1>5 DEF LinearIInv, Linear!TypeOK, Linear!CallsTypeOK, Linear!DeliverWrite
  <2>2. QED
    BY <1>5, <2>1, LinearWritesPreserve DEF Linear!DeliverWrite
<1>6. CASE UNCHANGED Linear!vars
  <2>1. writes' \in SUBSET [from : Linear!Members, ep : 1 .. MaxEpisodes]
    BY <1>6 DEF LinearIInv, Linear!TypeOK, Linear!CallsTypeOK, Linear!vars,
       Linear!callVars
  <2>2. QED
    BY <1>6, <2>1, LinearWritesPreserve DEF Linear!vars, Linear!callVars
<1>7. QED
  BY <1>1, <1>2, <1>3, <1>4, <1>5, <1>6, LinearDeliverPokePreserves,
     LinearDeliverAckPreserves
  DEF Linear!Next, Linear!Run, Linear!Deliver

-----------------------------------------------------------------------------
(* What the invariant says of the barrier: no call returns before every    *)
(* member has arrived, acknowledgements are never the value waited on, and *)
(* pSync is left as it was.                                                *)
LEMMA LinearInvMeans == LinearIInv => Linear!NobodyEarly /\ Linear!AckIsNews
    /\ Linear!PSyncRestored
<1> SUFFICES ASSUME LinearIInv
             PROVE  Linear!NobodyEarly /\ Linear!AckIsNews /\ Linear!PSyncRestored
  OBVIOUS
<1>1. LinearGathering \in Int /\ \A p \in Linear!Members : entered[p] \in Int
  BY LinearGatheringIsInt DEF LinearIInv
<1>2. ASSUME NEW p \in Linear!Members
      PROVE  left[p] <= LinearGathering - 1 /\ LinearGathering - 1 <= Linear!Arrived(p)
  <2>0. entered[p] \in Int /\ left[p] \in Int
    BY <1>1, ActiveSetAssumption DEF LinearIInv, Linear!TypeOK, Linear!CallsTypeOK
  <2>1. entered[p] = IF pc[p] = "out" THEN left[p] ELSE left[p] + 1
    BY DEF LinearIInv, Linear!OneCallEach
  <2>2. CASE p = Linear!Root
    BY <1>1, <2>0, <2>1, <2>2 DEF LinearGathering, Linear!Arrived
  <2>3. CASE p # Linear!Root
    <3>1. \/ entered[p] = LinearGathering     /\ pc[p] \in {"quiet", "enter", "wait"}
          \/ entered[p] = LinearGathering - 1 /\ pc[p] \in {"out", "wait", "reset"}
      BY <2>3 DEF LinearIInv, LinearRoundInv, Linear!Others
    <3>2. QED
      BY <1>1, <2>0, <2>1, <3>1 DEF Linear!Arrived
  <2>4. QED
    BY <2>2, <2>3
<1>3. Linear!NobodyEarly
  <2> SUFFICES ASSUME NEW p \in Linear!Members, NEW q \in Linear!Members
               PROVE  left[p] <= Linear!Arrived(q)
    BY DEF Linear!NobodyEarly
  <2>1. left[p] \in Int /\ Linear!Arrived(q) \in Int
    BY <1>1, ActiveSetAssumption DEF LinearIInv, Linear!TypeOK, Linear!CallsTypeOK,
       Linear!Arrived
  <2>2. QED
    BY <1>1, <1>2, <2>1
<1>4. Linear!AckIsNews
  BY ActiveSetAssumption DEF LinearIInv, Linear!TypeOK, Linear!AckIsNews,
     Linear!SHMEM_SYNC_VALUE
<1>5. Linear!PSyncRestored
  <2> SUFFICES ASSUME \A p \in Linear!Members : pc[p] = "out"
               PROVE  /\ pokes = {} /\ acks = {}
                      /\ \A p \in Linear!Members : pSync[p] = Linear!SHMEM_SYNC_VALUE
    BY DEF Linear!PSyncRestored
  <2>1. \A p \in Linear!Others : pc[p] = "out"
    BY DEF Linear!Others
  <2>2. pokes = {} /\ acks = {}
    BY <2>1 DEF LinearIInv, Linear!TypeOK, LinearPokesInv, LinearAcksInv,
       LinearAwaitsAck, LinearAcked
  <2>3. \A p \in Linear!Others : pSync[p] = Linear!SHMEM_SYNC_VALUE
    BY <2>1 DEF LinearIInv, LinearAcksInv
  <2>4. pSync[Linear!Root] = Linear!SHMEM_SYNC_VALUE
    <3>1. LinearPoked = {}
      BY <2>1 DEF LinearPoked
    <3>2. QED
      BY <3>1, FS_EmptySet DEF LinearIInv, LinearPokesInv, Linear!SHMEM_SYNC_VALUE
  <2>5. QED
    BY <2>2, <2>3, <2>4 DEF Linear!Others
<1>6. QED
  BY <1>3, <1>4, <1>5

(* Every step of the algorithm is one of the calls'.                       *)
LEMMA LinearNextIsCallsStep == LinearIInv /\ [Linear!Next]_(Linear!vars)
    => Linear!CallsStep
<1> SUFFICES ASSUME LinearIInv, [Linear!Next]_(Linear!vars)
             PROVE  Linear!CallsStep
  OBVIOUS
<1>1. DOMAIN pc = Linear!Members
  BY DEF LinearIInv, Linear!TypeOK
<1>2. ASSUME NEW p \in Linear!Members, NEW next, NEW pending,
             Linear!Quiet(p, pending, next), next \notin {"out", "quiet"}
      PROVE  Linear!CallsStep
  BY <1>1, <1>2 DEF Linear!Quiet, Linear!Goto, Linear!CallsStep
<1>3. ASSUME NEW p \in Linear!Members, NEW from, NEW to, Linear!Within(p, from, to),
             from \notin {"out", "quiet"}, to \notin {"out", "quiet"}
      PROVE  Linear!CallsStep
  BY <1>1, <1>3 DEF Linear!Within, Linear!Goto, Linear!CallsStep
<1>4. ASSUME NEW p \in Linear!Members, NEW from, Linear!Return(p, from),
             from \notin {"out", "quiet"}
      PROVE  Linear!CallsStep
  BY <1>1, <1>4 DEF Linear!Return, Linear!Goto, Linear!CallsStep
<1>5. ASSUME NEW p \in Linear!Members, Linear!ProgramWrites(p)
      PROVE  Linear!CallsStep
  BY <1>5 DEF Linear!ProgramWrites, Linear!CallsStep
<1>6. ASSUME NEW p \in Linear!Members, Linear!CallStep(p)
      PROVE  Linear!CallsStep
  <2>1. CASE Linear!Call(p)
    BY <2>1 DEF Linear!CallsStep
  <2>2. CASE Linear!Quiet(p, Linear!Pending(p), "enter")
    BY <2>2, <1>2
  <2>3. QED
    BY <1>6, <2>1, <2>2 DEF Linear!CallStep
<1>7. CASE Linear!RootStep
  <2>1. Linear!Root \in Linear!Members
    BY LinearActiveSet
  <2>2. CASE Linear!ScatterDone
    BY <2>1, <2>2, <1>4 DEF Linear!ScatterDone
  <2>3. CASE Linear!ReadPoke \/ Linear!Gather \/ Linear!Clear \/ Linear!Scatter
    BY <2>1, <2>3, <1>3 DEF Linear!ReadPoke, Linear!Gather, Linear!Clear, Linear!Scatter
  <2>4. QED
    BY <1>7, <2>2, <2>3 DEF Linear!RootStep
<1>8. ASSUME NEW p \in Linear!Members, Linear!OtherStep(p)
      PROVE  Linear!CallsStep
  <2>1. CASE Linear!ResetAck(p)
    BY <2>1, <1>4 DEF Linear!ResetAck
  <2>2. CASE Linear!PokeRoot(p) \/ Linear!WaitAck(p)
    BY <2>2, <1>3 DEF Linear!PokeRoot, Linear!WaitAck
  <2>3. QED
    BY <1>8, <2>1, <2>2 DEF Linear!OtherStep
<1>9. CASE Linear!Deliver
  BY <1>9 DEF Linear!Deliver, Linear!DeliverPoke, Linear!DeliverAck, Linear!CallsStep
<1>10. CASE UNCHANGED Linear!vars
  BY <1>10 DEF Linear!vars, Linear!CallsStep
<1>11. QED
  BY <1>5, <1>6, <1>7, <1>8, <1>9, <1>10 DEF Linear!Next, Linear!Run

(* The linear barrier restores pSync, never acknowledges with the value    *)
(* its members wait to see change, and lets nobody leave early.            *)
THEOREM LinearCorrect == Linear!Spec
    => [](Linear!NobodyEarly /\ Linear!AckIsNews /\ Linear!PSyncRestored)
<1>1. Linear!Spec => []LinearIInv
  BY LinearInitInv, LinearNextInv, PTL DEF Linear!Spec
<1>2. QED
  BY <1>1, LinearInvMeans, PTL

-----------------------------------------------------------------------------
(* The dissemination algorithm is correct for every active set.  A word of *)
(* pSync and the pokes in flight to it are always the difference between   *)
(* the pokes one member has posted and those the other has taken; so what  *)
(* a member knows to have arrived doubles with every round.                *)

(* In how many barriers a member has posted its poke of round r, and taken *)
(* away the one it was to receive.                                         *)
DissemPosted(p, r) ==
    IF \/ pc[p] = "out" \/ r < round[p]
       \/ r = round[p] /\ pc[p] \in {"wait", "unpoke"}
    THEN entered[p] ELSE entered[p] - 1

DissemTaken(p, r) ==
    IF pc[p] = "out" \/ r < round[p] THEN entered[p] ELSE entered[p] - 1

(* The type invariant without the bounds of the counters.                  *)
DissemCountersTypeOK ==
    /\ Dissem!CallsTypeOK
    /\ pc \in [Dissem!Members -> {"out", "quiet", "loop", "wait", "unpoke"}]
    /\ pSync \in [Dissem!Members -> [Dissem!Rounds -> Nat]]
    /\ round \in [Dissem!Members -> {0} \union {r + 1 : r \in Dissem!Rounds}]
    /\ pokes \in [Dissem!Members -> [Dissem!Rounds -> Nat]]

DissemPlaceInv ==
    \A p \in Dissem!Members :
        /\ pc[p] = "quiet" => round[p] = 0
        /\ pc[p] \in {"wait", "unpoke"} => round[p] \in Dissem!Rounds
        /\ pc[p] = "unpoke" => pSync[p][round[p]] # 0

DissemWordInv ==
    \A p \in Dissem!Members : \A r \in Dissem!Rounds :
        pSync[Dissem!Target(p, r)][r] + pokes[p][r] = DissemPosted(p, r) - DissemTaken(Dissem!Target(p, r), r)

DissemIInv == DissemCountersTypeOK /\ Dissem!OneCallEach /\ DissemPlaceInv
    /\ DissemWordInv

-----------------------------------------------------------------------------
(* The rounds are 0, 1, ... up to the last whose distance is within the    *)
(* active set.                                                             *)
LEMMA DissemRoundsAre ==
    /\ Cardinality(Dissem!Rounds) \in Nat
        /\ Dissem!Rounds = 0 .. Cardinality(Dissem!Rounds) - 1
    /\ \A r \in Nat : r \in Dissem!Rounds <=> Dissem!distance(r) < size
    /\ \A r \in Nat : Dissem!distance(r) \in Nat \ {0}
<1>1. size \in Nat \ {0}
  BY ActiveSetAssumption
<1>2. \A r \in Nat : Dissem!distance(r) \in Nat \ {0} /\ r < Dissem!distance(r)
  BY PowerPositive, PowerExceeds DEF Dissem!distance
<1>3. \A r \in Nat : r \in Dissem!Rounds <=> Dissem!distance(r) < size
  BY <1>1, <1>2 DEF Dissem!Rounds
<1>4. Dissem!Rounds \subseteq Nat /\ size \in Nat \ Dissem!Rounds
  BY <1>1, <1>2, <1>3 DEF Dissem!Rounds
<1>5. PICK n \in Nat \ Dissem!Rounds : \A m \in Nat \ Dissem!Rounds : n <= m
  BY <1>4, LeastElement
<1>6. \A r \in Nat : r \in Dissem!Rounds <=> r < n
  <2>1. \A r \in Nat : n <= r => Dissem!distance(n) <= Dissem!distance(r)
    BY PowerMonotone DEF Dissem!distance
  <2>2. \A r \in Nat : n <= r => r \notin Dissem!Rounds
    BY <1>1, <1>2, <1>3, <1>5, <2>1
  <2>3. \A r \in Nat : r < n => r \in Dissem!Rounds
    BY <1>5
  <2>4. QED
    BY <2>2, <2>3, <1>5
<1>7. Dissem!Rounds = 0 .. n - 1
  <2>1. n \in Nat
    BY <1>5
  <2>2. \A r \in Dissem!Rounds : r \in Nat /\ r < n
    BY <1>4, <1>6
  <2>3. \A r \in 0 .. n - 1 : r \in Nat /\ r < n /\ r \in Dissem!Rounds
    BY <2>1, <1>6
  <2>4. Dissem!Rounds \subseteq 0 .. n - 1
    BY <2>1, <2>2
  <2>5. 0 .. n - 1 \subseteq Dissem!Rounds
    BY <2>3
  <2>6. QED
    BY <2>4, <2>5
<1>8. Cardinality(Dissem!Rounds) = n
  BY <1>5, <1>7, FS_Interval
<1>9. QED
  BY <1>2, <1>3, <1>5, <1>7, <1>8

(* Members and indices correspond.                                         *)
LEMMA DissemActiveSet ==
    /\ \A p \in Dissem!Members : Dissem!Index(p) \in 0 .. size - 1
        /\ Dissem!Rank(Dissem!Index(p)) = p
    /\ \A j \in 0 .. size - 1 : Dissem!Rank(j) \in Dissem!Members
        /\ Dissem!Index(Dissem!Rank(j)) = j
<1>1. start \in Nat /\ Dissem!stride \in Nat \ {0} /\ size \in Nat \ {0}
  BY ActiveSetAssumption, PowerPositive DEF Dissem!stride
<1>2. \A j \in Nat : Dissem!Index(Dissem!Rank(j)) = j
  BY <1>1, StridedRanks DEF Dissem!Index, Dissem!Rank
<1>3. \A j \in 0 .. size - 1 : Dissem!Rank(j) \in Dissem!Members
  BY <1>1 DEF Dissem!Members
<1>4. ASSUME NEW p \in Dissem!Members
      PROVE  Dissem!Index(p) \in 0 .. size - 1 /\ Dissem!Rank(Dissem!Index(p)) = p
  <2>1. PICK j \in 0 .. size - 1 : p = Dissem!Rank(j)
    BY <1>1 DEF Dissem!Members
  <2>2. QED
    BY <1>1, <1>2, <2>1
<1>5. QED
  BY <1>1, <1>2, <1>3, <1>4

(* Every member is poked by one other in every round.                      *)
LEMMA DissemTargets ==
    ASSUME NEW r \in Dissem!Rounds
    PROVE  /\ \A p \in Dissem!Members : Dissem!Target(p, r) \in Dissem!Members
           /\ \A p, q \in Dissem!Members : Dissem!Target(p, r) = Dissem!Target(q, r)
               => p = q
           /\ \A q \in Dissem!Members : \E p \in Dissem!Members : Dissem!Target(p, r) = q
<1> DEFINE d == Dissem!distance(r)
<1>1. size \in Nat \ {0} /\ d \in 0 .. size - 1
  BY ActiveSetAssumption, DissemRoundsAre
<1> HIDE DEF d
<1>2. /\ \A a \in 0 .. size - 1 : (a + d) % size \in 0 .. size - 1
      /\ \A a, b \in 0 .. size - 1 : (a + d) % size = (b + d) % size => a = b
      /\ \A b \in 0 .. size - 1 : \E a \in 0 .. size - 1 : (a + d) % size = b
  BY <1>1, RingStep
<1>3. \A p \in Dissem!Members : Dissem!Target(p, r) = Dissem!Rank((Dissem!Index(p) + d) % size)
  BY DEF Dissem!Target, d
<1>4. \A p \in Dissem!Members : Dissem!Target(p, r) \in Dissem!Members
                         /\ Dissem!Index(Dissem!Target(p, r)) = (Dissem!Index(p) + d) % size
  BY <1>2, <1>3, DissemActiveSet
<1>5. ASSUME NEW p \in Dissem!Members, NEW q \in Dissem!Members,
    Dissem!Target(p, r) = Dissem!Target(q, r)
      PROVE  p = q
  <2>1. Dissem!Index(p) = Dissem!Index(q)
    BY <1>2, <1>4, <1>5, DissemActiveSet
  <2>2. QED
    BY <2>1, DissemActiveSet
<1>6. ASSUME NEW q \in Dissem!Members
      PROVE  \E p \in Dissem!Members : Dissem!Target(p, r) = q
  <2>1. PICK a \in 0 .. size - 1 : (a + d) % size = Dissem!Index(q)
    BY <1>2, DissemActiveSet
  <2>2. Dissem!Rank(a) \in Dissem!Members /\ Dissem!Index(Dissem!Rank(a)) = a
    BY DissemActiveSet
  <2>3. Dissem!Target(Dissem!Rank(a), r) = q
    BY <1>3, <2>1, <2>2, DissemActiveSet
  <2>4. QED
    BY <2>2, <2>3
<1>7. QED
  BY <1>4, <1>5, <1>6

(* What the proofs calculate with is numbers.                              *)
LEMMA DissemCountsAreInt ==
    ASSUME DissemCountersTypeOK
    PROVE  \A p \in Dissem!Members :
               /\ entered[p] \in Nat /\ left[p] \in Nat /\ round[p] \in Nat
               /\ \A r \in Dissem!Rounds : DissemPosted(p, r) \in Int
                   /\ DissemTaken(p, r) \in Int
                                    /\ pSync[p][r] \in Nat /\ pokes[p][r] \in Nat
<1>1. \A p \in Dissem!Members : entered[p] \in 0 .. MaxEpisodes
    /\ left[p] \in 0 .. MaxEpisodes
  BY DEF DissemCountersTypeOK, Dissem!CallsTypeOK
<1>2. \A p \in Dissem!Members : entered[p] \in Nat /\ left[p] \in Nat
  BY <1>1, ActiveSetAssumption
<1>3. \A p \in Dissem!Members : \A r \in Dissem!Rounds : pSync[p][r] \in Nat
    /\ pokes[p][r] \in Nat
  BY DEF DissemCountersTypeOK
<1>4. \A p \in Dissem!Members : round[p] \in Nat
  <2>1. \A r \in {0} \union {r + 1 : r \in Dissem!Rounds} : r \in Nat
    BY DissemRoundsAre
  <2>2. QED
    BY <2>1 DEF DissemCountersTypeOK
<1>5. QED
  BY <1>2, <1>3, <1>4 DEF DissemPosted, DissemTaken

(* A step of p leaves the counts of the others alone.                      *)
LEMMA DissemOthersKeep ==
    ASSUME NEW p \in Dissem!Members,
           \A q \in Dissem!Members : q # p =>
               pc'[q] = pc[q] /\ entered'[q] = entered[q] /\ round'[q] = round[q]
    PROVE  \A q \in Dissem!Members : q # p => \A r \in Dissem!Rounds :
               DissemPosted(q, r)' = DissemPosted(q, r)
                   /\ DissemTaken(q, r)' = DissemTaken(q, r)
BY DEF DissemPosted, DissemTaken

(* A step that changes no count preserves the words.                       *)
LEMMA DissemWordsKept ==
    ASSUME DissemIInv, UNCHANGED <<pSync, pokes>>,
           \A p \in Dissem!Members : \A r \in Dissem!Rounds :
               DissemPosted(p, r)' = DissemPosted(p, r)
                   /\ DissemTaken(p, r)' = DissemTaken(p, r)
    PROVE  DissemWordInv'
BY DissemTargets DEF DissemIInv, DissemWordInv

-----------------------------------------------------------------------------
(* Nobody has called and no poke has been made.                            *)
LEMMA DissemInitInv == Dissem!Init => DissemIInv
<1> SUFFICES ASSUME Dissem!Init
             PROVE  DissemIInv
  OBVIOUS
<1>1. \A p \in Dissem!Members : /\ pc[p] = "out" /\ entered[p] = 0 /\ left[p] = 0
                                /\ round[p] = 0
                         /\ \A r \in Dissem!Rounds : pSync[p][r] = 0 /\ pokes[p][r] = 0
  BY DEF Dissem!Init, Dissem!CallsInit, Dissem!SHMEM_SYNC_VALUE
<1>2. DissemCountersTypeOK
  <2>1. 0 \in {0} \union {r + 1 : r \in Dissem!Rounds} /\ 0 \in 0 .. MaxEpisodes
    BY DissemRoundsAre, ActiveSetAssumption
  <2>2. QED
    BY <2>1 DEF Dissem!Init, Dissem!CallsInit, DissemCountersTypeOK,
       Dissem!CallsTypeOK, Dissem!SHMEM_SYNC_VALUE
<1>3. \A p \in Dissem!Members : \A r \in Dissem!Rounds : DissemPosted(p, r) = 0
    /\ DissemTaken(p, r) = 0
  BY <1>1 DEF DissemPosted, DissemTaken
<1>4. Dissem!OneCallEach /\ DissemPlaceInv
  BY <1>1 DEF Dissem!OneCallEach, DissemPlaceInv
<1>5. DissemWordInv
  BY <1>1, <1>3, DissemTargets DEF DissemWordInv
<1>6. QED
  BY <1>2, <1>4, <1>5 DEF DissemIInv

(* Entering a call starts the rounds anew: what was posted and taken in    *)
(* the call before is behind, and nothing of this one.                     *)
LEMMA DissemCallPreserves ==
    ASSUME DissemIInv, NEW p \in Dissem!Members, Dissem!CallStep(p)
    PROVE  DissemIInv'
<1>1. CASE pc[p] = "out"
  <2>1. /\ pc' = [pc EXCEPT ![p] = "quiet"] /\ round' = [round EXCEPT ![p] = 0]
        /\ entered' = [entered EXCEPT ![p] = @ + 1] /\ entered[p] < MaxEpisodes
        /\ UNCHANGED <<kind, left, writes, pSync, pokes>>
    BY <1>1 DEF Dissem!CallStep, Dissem!Call, Dissem!Quiet, Dissem!Goto
  <2>2. DissemCountersTypeOK /\ entered[p] \in Nat
    BY DissemCountsAreInt DEF DissemIInv
  <2>3. /\ pc'[p] = "quiet" /\ round'[p] = 0 /\ entered'[p] = entered[p] + 1
        /\ \A q \in Dissem!Members : q # p =>
               pc'[q] = pc[q] /\ entered'[q] = entered[q] /\ round'[q] = round[q]
    BY <2>1, <2>2 DEF DissemCountersTypeOK, Dissem!CallsTypeOK
  <2>4. DissemCountersTypeOK'
    <3>1. entered[p] + 1 \in 0 .. MaxEpisodes
      BY <2>1, <2>2, ActiveSetAssumption
    <3>2. 0 \in {0} \union {r + 1 : r \in Dissem!Rounds}
      BY DissemRoundsAre
    <3>3. QED
      BY <2>1, <2>2, <3>1, <3>2 DEF DissemCountersTypeOK, Dissem!CallsTypeOK
  <2>5. Dissem!OneCallEach'
    BY <1>1, <2>1, <2>3 DEF DissemIInv, Dissem!OneCallEach
  <2>6. DissemPlaceInv'
    BY <2>1, <2>3 DEF DissemIInv, DissemPlaceInv
  <2>7. \A r \in Dissem!Rounds : DissemPosted(p, r)' = DissemPosted(p, r)
      /\ DissemTaken(p, r)' = DissemTaken(p, r)
    <3>1. \A r \in Dissem!Rounds : ~(r < 0)
      BY DissemRoundsAre
    <3>2. QED
      BY <1>1, <2>2, <2>3, <3>1 DEF DissemPosted, DissemTaken
  <2>8. DissemWordInv'
    BY <2>1, <2>3, <2>7, DissemOthersKeep, DissemWordsKept
  <2>9. QED
    BY <2>4, <2>5, <2>6, <2>8 DEF DissemIInv
<1>2. CASE pc[p] # "out"
  <2>1. /\ pc[p] = "quiet" /\ pc' = [pc EXCEPT ![p] = "loop"]
        /\ UNCHANGED <<kind, entered, left, writes, pSync, round, pokes>>
    BY <1>2 DEF Dissem!CallStep, Dissem!Call, Dissem!Quiet, Dissem!Goto
  <2>2. DissemCountersTypeOK
    BY DEF DissemIInv
  <2>3. pc'[p] = "loop" /\ \A q \in Dissem!Members : q # p => pc'[q] = pc[q]
    BY <2>1, <2>2 DEF DissemCountersTypeOK
  <2>4. DissemCountersTypeOK'
    BY <2>1, <2>2 DEF DissemCountersTypeOK, Dissem!CallsTypeOK
  <2>5. Dissem!OneCallEach' /\ DissemPlaceInv'
    BY <1>2, <2>1, <2>3 DEF DissemIInv, Dissem!OneCallEach, DissemPlaceInv
  <2>6. \A r \in Dissem!Rounds : DissemPosted(p, r)' = DissemPosted(p, r)
      /\ DissemTaken(p, r)' = DissemTaken(p, r)
    BY <2>1, <2>3 DEF DissemPosted, DissemTaken
  <2>7. DissemWordInv'
    BY <2>1, <2>3, <2>6, DissemOthersKeep, DissemWordsKept
  <2>8. QED
    BY <2>4, <2>5, <2>7 DEF DissemIInv
<1>3. QED
  BY <1>1, <1>2

(* A poke raises by one what the target's word counts of that round.       *)
LEMMA DissemPokeTargetPreserves ==
    ASSUME DissemIInv, NEW p \in Dissem!Members, Dissem!PokeTarget(p)
    PROVE  DissemIInv'
<1>1. /\ pc[p] = "loop" /\ pc' = [pc EXCEPT ![p] = "wait"]
      /\ pokes' = [pokes EXCEPT ![p][round[p]] = @ + 1]
      /\ UNCHANGED <<kind, entered, left, writes, pSync, round>>
  BY DEF Dissem!PokeTarget, Dissem!Within, Dissem!Goto
<1>2. PICK m \in Dissem!Rounds : m = round[p]
  BY DissemCountsAreInt, DissemRoundsAre DEF DissemIInv, Dissem!PokeTarget
<1>3. DissemCountersTypeOK /\ entered[p] \in Nat
  BY DissemCountsAreInt DEF DissemIInv
<1>4. /\ pc'[p] = "wait"
      /\ \A q \in Dissem!Members : q # p => pc'[q] = pc[q] /\ pokes'[q] = pokes[q]
      /\ pokes'[p][m] = pokes[p][m] + 1
      /\ \A r \in Dissem!Rounds : r # m => pokes'[p][r] = pokes[p][r]
  BY <1>1, <1>2, <1>3 DEF DissemCountersTypeOK
<1>5. DissemCountersTypeOK'
  <2>1. pokes' \in [Dissem!Members -> [Dissem!Rounds -> Nat]]
    BY <1>1, <1>2, <1>3 DEF DissemCountersTypeOK
  <2>2. QED
    BY <1>1, <1>3, <2>1 DEF DissemCountersTypeOK, Dissem!CallsTypeOK
<1>6. Dissem!OneCallEach' /\ DissemPlaceInv'
  BY <1>1, <1>2, <1>4 DEF DissemIInv, Dissem!OneCallEach, DissemPlaceInv
<1>7. /\ DissemPosted(p, m)' = DissemPosted(p, m) + 1
      /\ \A r \in Dissem!Rounds : r # m => DissemPosted(p, r)' = DissemPosted(p, r)
      /\ \A r \in Dissem!Rounds : DissemTaken(p, r)' = DissemTaken(p, r)
  BY <1>1, <1>2, <1>3, <1>4, DissemCountsAreInt DEF DissemPosted, DissemTaken
<1>8. \A q \in Dissem!Members : \A r \in Dissem!Rounds :
          DissemTaken(q, r)' = DissemTaken(q, r)
              /\ (q # p => DissemPosted(q, r)' = DissemPosted(q, r))
  BY <1>1, <1>4, <1>7, DissemOthersKeep
<1>9. DissemWordInv'
  <2> SUFFICES ASSUME NEW q \in Dissem!Members, NEW r \in Dissem!Rounds
               PROVE  pSync'[Dissem!Target(q, r)][r] + pokes'[q][r]
                        = DissemPosted(q, r)' - DissemTaken(Dissem!Target(q, r), r)'
    BY DEF DissemWordInv
  <2>1. Dissem!Target(q, r) \in Dissem!Members
    BY DissemTargets
  <2>2. pSync[Dissem!Target(q, r)][r] + pokes[q][r] = DissemPosted(q, r) - DissemTaken(Dissem!Target(q, r), r)
    BY DEF DissemIInv, DissemWordInv
  <2>3. CASE q = p /\ r = m
    <3>1. /\ pSync[Dissem!Target(q, r)][r] \in Int /\ pokes[q][r] \in Int
          /\ DissemPosted(q, r) \in Int /\ DissemTaken(Dissem!Target(q, r), r) \in Int
      BY <1>3, <2>1, DissemCountsAreInt
    <3>2. /\ pSync'[Dissem!Target(q, r)][r] = pSync[Dissem!Target(q, r)][r]
          /\ pokes'[q][r] = pokes[q][r] + 1
              /\ DissemPosted(q, r)' = DissemPosted(q, r) + 1
          /\ DissemTaken(Dissem!Target(q, r), r)' = DissemTaken(Dissem!Target(q, r), r)
      BY <1>1, <1>4, <1>7, <1>8, <2>1, <2>3
    <3>3. QED
      BY <2>2, <3>1, <3>2
  <2>4. CASE ~(q = p /\ r = m)
    BY <1>1, <1>4, <1>7, <1>8, <2>1, <2>2, <2>4
  <2>5. QED
    BY <2>3, <2>4
<1>10. QED
  BY <1>5, <1>6, <1>9 DEF DissemIInv

(* A word that is not zero has a poke of this call: its owner's poker has  *)
(* come as far.                                                            *)
LEMMA DissemWaitPokedPreserves ==
    ASSUME DissemIInv, NEW p \in Dissem!Members, Dissem!WaitPoked(p)
    PROVE  DissemIInv'
<1>1. /\ pc[p] = "wait" /\ pc' = [pc EXCEPT ![p] = "unpoke"]
      /\ pSync[p][round[p]] # 0
      /\ UNCHANGED <<kind, entered, left, writes, pSync, round, pokes>>
  BY DEF Dissem!WaitPoked, Dissem!Within, Dissem!Goto, Dissem!SHMEM_SYNC_VALUE
<1>2. DissemCountersTypeOK
  BY DEF DissemIInv
<1>3. pc'[p] = "unpoke" /\ \A q \in Dissem!Members : q # p => pc'[q] = pc[q]
  BY <1>1, <1>2 DEF DissemCountersTypeOK
<1>4. DissemCountersTypeOK'
  BY <1>1, <1>2 DEF DissemCountersTypeOK, Dissem!CallsTypeOK
<1>5. Dissem!OneCallEach' /\ DissemPlaceInv'
  BY <1>1, <1>3 DEF DissemIInv, Dissem!OneCallEach, DissemPlaceInv
<1>6. \A r \in Dissem!Rounds : DissemPosted(p, r)' = DissemPosted(p, r)
    /\ DissemTaken(p, r)' = DissemTaken(p, r)
  BY <1>1, <1>3 DEF DissemPosted, DissemTaken
<1>7. DissemWordInv'
  BY <1>1, <1>3, <1>6, DissemOthersKeep, DissemWordsKept
<1>8. QED
  BY <1>4, <1>5, <1>7 DEF DissemIInv

(* Taking a poke away ends the round: nobody else takes it.                *)
LEMMA DissemUnpokePreserves ==
    ASSUME DissemIInv, NEW p \in Dissem!Members, Dissem!Unpoke(p)
    PROVE  DissemIInv'
<1>1. /\ pc[p] = "unpoke" /\ pc' = [pc EXCEPT ![p] = "loop"]
      /\ pSync' = [pSync EXCEPT ![p][round[p]] = @ - 1]
      /\ round' = [round EXCEPT ![p] = @ + 1]
      /\ UNCHANGED <<kind, entered, left, writes, pokes>>
  BY DEF Dissem!Unpoke, Dissem!Within, Dissem!Goto
<1>2. PICK m \in Dissem!Rounds : m = round[p] /\ pSync[p][m] # 0
  BY <1>1 DEF DissemIInv, DissemPlaceInv
<1>3. DissemCountersTypeOK /\ entered[p] \in Nat /\ pSync[p][m] \in Nat
  BY DissemCountsAreInt DEF DissemIInv
<1>4. /\ pc'[p] = "loop" /\ round'[p] = m + 1 /\ pSync'[p][m] = pSync[p][m] - 1
      /\ \A r \in Dissem!Rounds : r # m => pSync'[p][r] = pSync[p][r]
      /\ \A q \in Dissem!Members : q # p => /\ pc'[q] = pc[q] /\ pSync'[q] = pSync[q]
                                     /\ round'[q] = round[q]
  BY <1>1, <1>2, <1>3 DEF DissemCountersTypeOK
<1>5. DissemCountersTypeOK'
  <2>1. pSync[p][m] - 1 \in Nat
    BY <1>2, <1>3
  <2>2. pSync' \in [Dissem!Members -> [Dissem!Rounds -> Nat]]
    BY <1>1, <1>2, <1>3, <2>1 DEF DissemCountersTypeOK
  <2>3. m + 1 \in {0} \union {r + 1 : r \in Dissem!Rounds}
    BY DissemRoundsAre
  <2>4. round' \in [Dissem!Members -> {0} \union {r + 1 : r \in Dissem!Rounds}]
    BY <1>1, <1>2, <1>3, <2>3 DEF DissemCountersTypeOK
  <2>5. QED
    BY <1>1, <1>3, <2>2, <2>4 DEF DissemCountersTypeOK, Dissem!CallsTypeOK
<1>6. Dissem!OneCallEach' /\ DissemPlaceInv'
  BY <1>1, <1>4 DEF DissemIInv, Dissem!OneCallEach, DissemPlaceInv
<1>7. /\ DissemTaken(p, m)' = DissemTaken(p, m) + 1
      /\ \A r \in Dissem!Rounds : r # m => DissemTaken(p, r)' = DissemTaken(p, r)
      /\ \A r \in Dissem!Rounds : DissemPosted(p, r)' = DissemPosted(p, r)
  <2>1. \A r \in Dissem!Rounds : r \in Int
    BY DissemRoundsAre
  <2>2. QED
    BY <1>1, <1>2, <1>3, <1>4, <2>1 DEF DissemPosted, DissemTaken
<1>8. \A q \in Dissem!Members : \A r \in Dissem!Rounds :
          DissemPosted(q, r)' = DissemPosted(q, r)
              /\ (q # p => DissemTaken(q, r)' = DissemTaken(q, r))
  BY <1>1, <1>4, <1>7, DissemOthersKeep
<1>9. DissemWordInv'
  <2> SUFFICES ASSUME NEW q \in Dissem!Members, NEW r \in Dissem!Rounds
               PROVE  pSync'[Dissem!Target(q, r)][r] + pokes'[q][r]
                        = DissemPosted(q, r)' - DissemTaken(Dissem!Target(q, r), r)'
    BY DEF DissemWordInv
  <2>1. Dissem!Target(q, r) \in Dissem!Members
    BY DissemTargets
  <2>2. pSync[Dissem!Target(q, r)][r] + pokes[q][r] = DissemPosted(q, r) - DissemTaken(Dissem!Target(q, r), r)
    BY DEF DissemIInv, DissemWordInv
  <2>3. CASE Dissem!Target(q, r) = p /\ r = m
    <3>1. /\ pSync[p][r] \in Int /\ pokes[q][r] \in Int
          /\ DissemPosted(q, r) \in Int /\ DissemTaken(p, r) \in Int
      BY <1>3, DissemCountsAreInt
    <3>2. /\ pSync'[p][r] = pSync[p][r] - 1 /\ pokes'[q][r] = pokes[q][r]
          /\ DissemPosted(q, r)' = DissemPosted(q, r)
              /\ DissemTaken(p, r)' = DissemTaken(p, r) + 1
      BY <1>1, <1>4, <1>7, <1>8, <2>3
    <3>3. QED
      BY <2>2, <2>3, <3>1, <3>2
  <2>4. CASE ~(Dissem!Target(q, r) = p /\ r = m)
    <3>1. pSync'[Dissem!Target(q, r)][r] = pSync[Dissem!Target(q, r)][r]
      BY <1>4, <2>1, <2>4
    <3>2. DissemTaken(Dissem!Target(q, r), r)' = DissemTaken(Dissem!Target(q, r), r)
      BY <1>7, <1>8, <2>1, <2>4
    <3>3. QED
      BY <1>1, <1>8, <2>2, <3>1, <3>2
  <2>5. QED
    BY <2>3, <2>4
<1>10. QED
  BY <1>5, <1>6, <1>9 DEF DissemIInv

(* A call returns with all its rounds behind it.                           *)
LEMMA DissemDonePreserves ==
    ASSUME DissemIInv, NEW p \in Dissem!Members, Dissem!Done(p)
    PROVE  DissemIInv'
<1>1. /\ pc[p] = "loop" /\ pc' = [pc EXCEPT ![p] = "out"]
      /\ Dissem!distance(round[p]) >= size
      /\ left' = [left EXCEPT ![p] = @ + 1]
      /\ UNCHANGED <<kind, entered, writes, pSync, round, pokes>>
  BY DEF Dissem!Done, Dissem!Return, Dissem!Goto
<1>2. DissemCountersTypeOK /\ entered[p] = left[p] + 1
  BY <1>1 DEF DissemIInv, Dissem!OneCallEach
<1>3. /\ pc'[p] = "out" /\ left'[p] = left[p] + 1
      /\ \A q \in Dissem!Members : q # p => pc'[q] = pc[q] /\ left'[q] = left[q]
  BY <1>1, <1>2 DEF DissemCountersTypeOK, Dissem!CallsTypeOK
<1>4. DissemCountersTypeOK'
  <2>1. left[p] + 1 \in 0 .. MaxEpisodes
    BY <1>2 DEF DissemCountersTypeOK, Dissem!CallsTypeOK
  <2>2. QED
    BY <1>1, <1>2, <2>1 DEF DissemCountersTypeOK, Dissem!CallsTypeOK
<1>5. Dissem!OneCallEach' /\ DissemPlaceInv'
  BY <1>1, <1>2, <1>3 DEF DissemIInv, Dissem!OneCallEach, DissemPlaceInv
<1>6. \A r \in Dissem!Rounds : r < round[p]
  <2>1. round[p] \in Nat /\ round[p] \notin Dissem!Rounds
    <3>1. round[p] \in Nat /\ size \in Nat
      BY <1>2, DissemCountsAreInt, ActiveSetAssumption
    <3>2. Dissem!distance(round[p]) \in Nat
      BY <3>1, DissemRoundsAre
    <3>3. ~(Dissem!distance(round[p]) < size)
      BY <1>1, <3>1, <3>2
    <3>4. QED
      BY <3>1, <3>3, DissemRoundsAre
  <2>2. PICK n \in Nat : Dissem!Rounds = 0 .. n - 1
    BY DissemRoundsAre
  <2>3. QED
    BY <2>1, <2>2
<1>7. \A r \in Dissem!Rounds : DissemPosted(p, r)' = DissemPosted(p, r)
    /\ DissemTaken(p, r)' = DissemTaken(p, r)
  BY <1>1, <1>3, <1>6 DEF DissemPosted, DissemTaken
<1>8. DissemWordInv'
  BY <1>1, <1>3, <1>7, DissemOthersKeep, DissemWordsKept
<1>9. QED
  BY <1>4, <1>5, <1>8 DEF DissemIInv

(* A poke that arrives moves from the pokes in flight to its word.         *)
LEMMA DissemDeliverPokePreserves ==
    ASSUME DissemIInv, NEW p \in Dissem!Members, NEW m \in Dissem!Rounds,
        Dissem!DeliverPoke(p, m)
    PROVE  DissemIInv'
<1> DEFINE t == Dissem!Target(p, m)
<1>1. /\ pokes[p][m] > 0 /\ pokes' = [pokes EXCEPT ![p][m] = @ - 1]
      /\ pSync' = [pSync EXCEPT ![t][m] = @ + 1]
      /\ UNCHANGED <<kind, pc, entered, left, writes, round>>
  BY DEF Dissem!DeliverPoke, Dissem!callVars
<1>2. DissemCountersTypeOK /\ t \in Dissem!Members /\ pokes[p][m] \in Nat
    /\ pSync[t][m] \in Nat
  BY DissemTargets, DissemCountsAreInt DEF DissemIInv
<1>3. \A q \in Dissem!Members : \A r \in Dissem!Rounds : Dissem!Target(q, r) = t
    /\ r = m => q = p
  BY DissemTargets
<1> HIDE DEF t
<1>4. /\ pokes'[p][m] = pokes[p][m] - 1 /\ pSync'[t][m] = pSync[t][m] + 1
      /\ \A q \in Dissem!Members : \A r \in Dissem!Rounds :
             /\ ~(q = p /\ r = m) => pokes'[q][r] = pokes[q][r]
             /\ ~(q = t /\ r = m) => pSync'[q][r] = pSync[q][r]
  BY <1>1, <1>2 DEF DissemCountersTypeOK
<1>5. DissemCountersTypeOK'
  <2>1. pokes[p][m] - 1 \in Nat /\ pSync[t][m] + 1 \in Nat
    BY <1>1, <1>2
  <2>2. pokes' \in [Dissem!Members -> [Dissem!Rounds -> Nat]]
      /\ pSync' \in [Dissem!Members -> [Dissem!Rounds -> Nat]]
    BY <1>1, <1>2, <2>1 DEF DissemCountersTypeOK
  <2>3. QED
    BY <1>1, <1>2, <2>2 DEF DissemCountersTypeOK, Dissem!CallsTypeOK
<1>6. Dissem!OneCallEach'
  BY <1>1 DEF DissemIInv, Dissem!OneCallEach
<1>7. DissemPlaceInv'
  <2>1. \A q \in Dissem!Members : \A r \in Dissem!Rounds : pSync[q][r] # 0
      => pSync'[q][r] # 0
    BY <1>2, <1>4
  <2>2. QED
    BY <1>1, <2>1 DEF DissemIInv, DissemPlaceInv
<1>8. \A q \in Dissem!Members : \A r \in Dissem!Rounds :
          DissemPosted(q, r)' = DissemPosted(q, r)
              /\ DissemTaken(q, r)' = DissemTaken(q, r)
  BY <1>1 DEF DissemPosted, DissemTaken
<1>9. DissemWordInv'
  <2> SUFFICES ASSUME NEW q \in Dissem!Members, NEW r \in Dissem!Rounds
               PROVE  pSync'[Dissem!Target(q, r)][r] + pokes'[q][r]
                        = DissemPosted(q, r)' - DissemTaken(Dissem!Target(q, r), r)'
    BY DEF DissemWordInv
  <2>1. Dissem!Target(q, r) \in Dissem!Members
    BY DissemTargets
  <2>2. pSync[Dissem!Target(q, r)][r] + pokes[q][r] = DissemPosted(q, r) - DissemTaken(Dissem!Target(q, r), r)
    BY DEF DissemIInv, DissemWordInv
  <2>3. pSync'[Dissem!Target(q, r)][r] + pokes'[q][r] = pSync[Dissem!Target(q, r)][r] + pokes[q][r]
    <3>1. CASE q = p /\ r = m
      <4>1. Dissem!Target(q, r) = t
        BY <3>1 DEF t
      <4>2. QED
        BY <1>2, <1>4, <3>1, <4>1
    <3>2. CASE ~(q = p /\ r = m)
      BY <1>3, <1>4, <2>1, <3>2
    <3>3. QED
      BY <3>1, <3>2
  <2>4. QED
    BY <1>8, <2>1, <2>2, <2>3
<1>10. QED
  BY <1>5, <1>6, <1>7, <1>9 DEF DissemIInv

(* A put of the program leaves the algorithm alone.                        *)
LEMMA DissemWritesPreserve ==
    ASSUME DissemIInv, UNCHANGED <<kind, pc, entered, left, pSync, round, pokes>>,
           writes' \in SUBSET [from : Dissem!Members, ep : 1 .. MaxEpisodes]
    PROVE  DissemIInv'
<1>1. DissemCountersTypeOK'
  BY DEF DissemIInv, DissemCountersTypeOK, Dissem!CallsTypeOK
<1>2. \A p \in Dissem!Members : \A r \in Dissem!Rounds :
          DissemPosted(p, r)' = DissemPosted(p, r)
              /\ DissemTaken(p, r)' = DissemTaken(p, r)
  BY DEF DissemPosted, DissemTaken
<1>3. DissemWordInv'
  BY <1>2, DissemWordsKept
<1>4. Dissem!OneCallEach' /\ DissemPlaceInv'
  BY DEF DissemIInv, Dissem!OneCallEach, DissemPlaceInv
<1>5. QED
  BY <1>1, <1>3, <1>4 DEF DissemIInv

(* The invariant is inductive.                                             *)
LEMMA DissemNextInv == DissemIInv /\ [Dissem!Next]_(Dissem!vars) => DissemIInv'
<1> SUFFICES ASSUME DissemIInv, [Dissem!Next]_(Dissem!vars)
             PROVE  DissemIInv'
  OBVIOUS
<1>1. ASSUME NEW p \in Dissem!Members, Dissem!ProgramWrites(p)
      PROVE  DissemIInv'
  <2>1. entered[p] + 1 \in 1 .. MaxEpisodes
    BY <1>1, ActiveSetAssumption DEF DissemIInv, DissemCountersTypeOK,
       Dissem!CallsTypeOK, Dissem!ProgramWrites, Dissem!Write
  <2>2. [from |-> p, ep |-> entered[p] + 1] \in [from : Dissem!Members, ep : 1 .. MaxEpisodes]
    BY <2>1
  <2>3. writes' \in SUBSET [from : Dissem!Members, ep : 1 .. MaxEpisodes]
    BY <1>1, <2>2 DEF DissemIInv, DissemCountersTypeOK, Dissem!CallsTypeOK,
       Dissem!ProgramWrites, Dissem!Write
  <2>4. QED
    BY <1>1, <2>3, DissemWritesPreserve DEF Dissem!ProgramWrites, Dissem!Write
<1>2. ASSUME NEW p \in Dissem!Members, Dissem!Run(p)
      PROVE  DissemIInv'
  BY <1>2, DissemCallPreserves, DissemPokeTargetPreserves, DissemWaitPokedPreserves,
     DissemUnpokePreserves,
     DissemDonePreserves DEF Dissem!Run, Dissem!Step
<1>3. ASSUME NEW w \in writes, Dissem!DeliverWrite(w) /\ UNCHANGED <<pSync, round,
    pokes>>
      PROVE  DissemIInv'
  <2>1. writes' \in SUBSET [from : Dissem!Members, ep : 1 .. MaxEpisodes]
    BY <1>3 DEF DissemIInv, DissemCountersTypeOK, Dissem!CallsTypeOK,
       Dissem!DeliverWrite
  <2>2. QED
    BY <1>3, <2>1, DissemWritesPreserve DEF Dissem!DeliverWrite
<1>4. CASE UNCHANGED Dissem!vars
  <2>1. writes' \in SUBSET [from : Dissem!Members, ep : 1 .. MaxEpisodes]
    BY <1>4 DEF DissemIInv, DissemCountersTypeOK, Dissem!CallsTypeOK, Dissem!vars,
       Dissem!callVars
  <2>2. QED
    BY <1>4, <2>1, DissemWritesPreserve DEF Dissem!vars, Dissem!callVars
<1>5. QED
  BY <1>1, <1>2, <1>3, <1>4, DissemDeliverPokePreserves DEF Dissem!Next,
     Dissem!Deliver, Dissem!DeliverFrom

-----------------------------------------------------------------------------
(* Rounds are numbers.                                                     *)
LEMMA DissemRoundsAreNat == \A r \in Dissem!Rounds : r \in Nat
BY ActiveSetAssumption DEF Dissem!Rounds

(* What a member has taken bounds what its source has posted, and the      *)
(* poke a member posts in round r says that it has taken those of the      *)
(* rounds before and has arrived.                                          *)
LEMMA DissemSourceIsBehind ==
    ASSUME DissemIInv, NEW s \in Dissem!Members, NEW n \in Dissem!Rounds
    PROVE  /\ DissemTaken(Dissem!Target(s, n), n) <= DissemPosted(s, n)
           /\ DissemPosted(s, n) <= Dissem!Arrived(s)
           /\ \A r \in Dissem!Rounds : r < n => DissemPosted(s, n) <= DissemTaken(s, r)
<1>1. DissemCountersTypeOK
  BY DEF DissemIInv
<1>2. entered[s] \in Nat /\ round[s] \in Nat /\ n \in Nat
    /\ \A r \in Dissem!Rounds : r \in Nat
  BY <1>1, DissemCountsAreInt, DissemRoundsAreNat
<1>3. DissemTaken(Dissem!Target(s, n), n) <= DissemPosted(s, n)
  <2>1. Dissem!Target(s, n) \in Dissem!Members
    BY DissemTargets
  <2>2. /\ pSync[Dissem!Target(s, n)][n] \in Nat /\ pokes[s][n] \in Nat
        /\ DissemPosted(s, n) \in Int /\ DissemTaken(Dissem!Target(s, n), n) \in Int
    BY <1>1, <2>1, DissemCountsAreInt
  <2>3. pSync[Dissem!Target(s, n)][n] + pokes[s][n] = DissemPosted(s, n) - DissemTaken(Dissem!Target(s, n), n)
    BY DEF DissemIInv, DissemWordInv
  <2>4. QED
    BY <2>2, <2>3
<1>4. DissemPosted(s, n) <= Dissem!Arrived(s)
  <2>1. pc[s] = "quiet" => round[s] = 0
    BY DEF DissemIInv, DissemPlaceInv
  <2>2. QED
    BY <1>2, <2>1 DEF DissemPosted, Dissem!Arrived
<1>5. \A r \in Dissem!Rounds : r < n => DissemPosted(s, n) <= DissemTaken(s, r)
  BY <1>2 DEF DissemPosted, DissemTaken
<1>6. QED
  BY <1>3, <1>4, <1>5

(* Doubling: who has k times taken the pokes of all rounds below n knows   *)
(* that the 2^n members up to it have arrived k times.                     *)
LEMMA DissemKnowledgeDoubles ==
    ASSUME DissemIInv, NEW k \in Nat, NEW n \in Nat, NEW p \in Dissem!Members,
        NEW q \in Dissem!Members,
           NEW d \in 0 .. size - 1,
           \A r \in Dissem!Rounds : r < n => k <= DissemTaken(p, r),
           k <= Dissem!Arrived(p), d < 2 ^ n,
               p = Dissem!Rank((Dissem!Index(q) + d) % size)
    PROVE  k <= Dissem!Arrived(q)
<1> DEFINE Knows(pp, m) == (\A r \in Dissem!Rounds : r < m => k <= DissemTaken(pp, r)) /\ k <= Dissem!Arrived(pp)
           S == {m \in Nat : \A pp, qq \in Dissem!Members : \A dd \in 0 .. size - 1 :
                     Knows(pp, m) /\ dd < 2 ^ m
                         /\ pp = Dissem!Rank((Dissem!Index(qq) + dd) % size)
                         => k <= Dissem!Arrived(qq)}
<1>1. size \in Nat \ {0} /\ DissemCountersTypeOK
  BY ActiveSetAssumption DEF DissemIInv
<1>2. 0 \in S
  <2> SUFFICES ASSUME NEW pp \in Dissem!Members, NEW qq \in Dissem!Members,
      NEW dd \in 0 .. size - 1,
                      k <= Dissem!Arrived(pp), dd < 2 ^ 0,
                          pp = Dissem!Rank((Dissem!Index(qq) + dd) % size)
               PROVE  k <= Dissem!Arrived(qq)
    OBVIOUS
  <2>1. dd = 0
    BY PowerZero, <1>1
  <2>2. Dissem!Index(qq) \in 0 .. size - 1 /\ Dissem!Rank(Dissem!Index(qq)) = qq
    BY DissemActiveSet
  <2>3. (Dissem!Index(qq) + dd) % size = Dissem!Index(qq)
    BY <1>1, <2>1, <2>2
  <2>4. QED
    BY <2>2, <2>3
<1>3. ASSUME NEW m \in Nat, m \in S
      PROVE  m + 1 \in S
  <2> SUFFICES ASSUME NEW pp \in Dissem!Members, NEW qq \in Dissem!Members,
      NEW dd \in 0 .. size - 1,
                      Knows(pp, m + 1), dd < 2 ^ (m + 1),
                      pp = Dissem!Rank((Dissem!Index(qq) + dd) % size)
               PROVE  k <= Dissem!Arrived(qq)
    OBVIOUS
  <2>1. Knows(pp, m)
    <3>1. \A r \in Dissem!Rounds : r < m => r < m + 1
      BY DissemRoundsAre
    <3>2. QED
      BY <3>1
  <2>2. 2 ^ m \in Nat /\ 2 ^ (m + 1) = 2 * 2 ^ m
    BY PowerNext, PowerPositive
  <2>3. CASE dd < 2 ^ m
    BY <1>3, <2>1, <2>3
  <2>4. CASE ~(dd < 2 ^ m)
    <3>1. m \in Dissem!Rounds
      <4>1. 2 ^ m < size
        BY <1>1, <2>2, <2>4
      <4>2. QED
        BY <4>1, DissemRoundsAre DEF Dissem!distance
    <3>2. PICK e \in 0 .. size - 1 : e = dd - 2 ^ m /\ e < 2 ^ m
      BY <1>1, <2>2, <2>4
    <3>3. PICK a \in 0 .. size - 1 : a = Dissem!Index(qq)
      BY DissemActiveSet
    <3>4. PICK b \in 0 .. size - 1 : b = (a + e) % size
      BY <1>1, RingStep
    <3>5. PICK s \in Dissem!Members : s = Dissem!Rank(b) /\ Dissem!Index(s) = b
      BY DissemActiveSet
    <3>6. (b + 2 ^ m) % size = (a + dd) % size
      <4>1. e + 2 ^ m = dd /\ e + 2 ^ m < size /\ e \in Nat
        BY <1>1, <2>2, <3>2
      <4>2. (((a + e) % size) + 2 ^ m) % size = (a + (e + 2 ^ m)) % size
        <5> DEFINE g == 2 ^ m
        <5>1. g \in Nat /\ e \in Nat /\ e + g < size
          BY <2>2, <4>1
        <5> HIDE DEF g
        <5>2. (((a + e) % size) + g) % size = (a + (e + g)) % size
          BY <1>1, <5>1, RingSteps
        <5>3. QED
          BY <5>2 DEF g
      <4>3. QED
        BY <3>4, <4>1, <4>2
    <3>7. Dissem!Target(s, m) = pp
      BY <3>3, <3>5, <3>6 DEF Dissem!Target, Dissem!distance
    <3>8. k <= DissemTaken(pp, m)
      BY <3>1
    <3>9. k <= DissemPosted(s, m)
      <4>1. DissemTaken(pp, m) <= DissemPosted(s, m)
        BY <3>1, <3>7, DissemSourceIsBehind
      <4>2. DissemTaken(pp, m) \in Int /\ DissemPosted(s, m) \in Int
        BY <1>1, <3>1, DissemCountsAreInt
      <4>3. QED
        BY <3>8, <4>1, <4>2
    <3>10. Knows(s, m)
      <4>1. /\ DissemPosted(s, m) \in Int /\ Dissem!Arrived(s) \in Int
            /\ \A r \in Dissem!Rounds : DissemTaken(s, r) \in Int
        BY <1>1, <3>1, DissemCountsAreInt DEF Dissem!Arrived
      <4>2. DissemPosted(s, m) <= Dissem!Arrived(s)
          /\ \A r \in Dissem!Rounds : r < m => DissemPosted(s, m) <= DissemTaken(s, r)
        BY <3>1, DissemSourceIsBehind
      <4>3. QED
        BY <3>9, <4>1, <4>2
    <3>11. s = Dissem!Rank((Dissem!Index(qq) + e) % size)
      BY <3>3, <3>4, <3>5
    <3>12. QED
      BY <1>3, <3>2, <3>10, <3>11
  <2>5. QED
    BY <2>3, <2>4
<1>4. Knows(p, n)
  OBVIOUS
<1> HIDE DEF Knows
<1>5. n \in S
  <2> HIDE DEF S
  <2>1. QED
    BY <1>2, <1>3, InductionOverSet
<1>6. QED
  BY <1>4, <1>5

(* After all its rounds a member knows of everyone: the distances of the   *)
(* rounds reach around the ring.                                           *)
LEMMA DissemNobodyIsEarly == DissemIInv => Dissem!NobodyEarly
<1> SUFFICES ASSUME DissemIInv, NEW p \in Dissem!Members, NEW q \in Dissem!Members
             PROVE  left[p] <= Dissem!Arrived(q)
  BY DEF Dissem!NobodyEarly
<1>1. size \in Nat \ {0} /\ left[p] \in Nat /\ entered[p] \in Nat
  BY ActiveSetAssumption, DissemCountsAreInt DEF DissemIInv
<1>2. entered[p] = IF pc[p] = "out" THEN left[p] ELSE left[p] + 1
  BY DEF DissemIInv, Dissem!OneCallEach
<1>3. left[p] <= Dissem!Arrived(p)
    /\ \A r \in Dissem!Rounds : left[p] <= DissemTaken(p, r)
  BY <1>1, <1>2 DEF Dissem!Arrived, DissemTaken
<1>4. PICK d \in 0 .. size - 1 : (d + Dissem!Index(q)) % size = Dissem!Index(p)
  BY <1>1, DissemActiveSet, RingStep
<1>5. Dissem!Index(q) \in 0 .. size - 1 /\ Dissem!Rank(Dissem!Index(p)) = p
  BY DissemActiveSet
<1>6. d + Dissem!Index(q) = Dissem!Index(q) + d
  BY <1>1, <1>5
<1>7. p = Dissem!Rank((Dissem!Index(q) + d) % size)
  BY <1>4, <1>5, <1>6
<1>8. d < 2 ^ size
  <2>1. size < 2 ^ size /\ 2 ^ size \in Nat
    BY <1>1, PowerExceeds, PowerPositive
  <2>2. QED
    BY <1>1, <2>1
<1>9. QED
  BY <1>1, <1>3, <1>7, <1>8, DissemKnowledgeDoubles

(* The bounds of the words: a neighbour is at most one call ahead.         *)
LEMMA DissemWordsAreSmall ==
    ASSUME DissemIInv, NEW s \in Dissem!Members, NEW r \in Dissem!Rounds
    PROVE  LET t == Dissem!Target(s, r) IN
           /\ pSync[t][r] \in 0 .. 2
           /\ pSync[t][r] = 2 => entered[t] > left[t] /\ round[t] <= r
           /\ pokes[s][r] \in 0 .. MaxEpisodes
<1> DEFINE t == Dissem!Target(s, r)
<1>1. t \in Dissem!Members /\ DissemCountersTypeOK
  BY DissemTargets DEF DissemIInv
<1>2. pSync[t][r] + pokes[s][r] = DissemPosted(s, r) - DissemTaken(t, r)
  BY DEF DissemIInv, DissemWordInv
<1> HIDE DEF t
<1>3. /\ pSync[t][r] \in Nat /\ pokes[s][r] \in Nat
      /\ entered[s] \in Nat /\ entered[t] \in Nat /\ left[s] \in Nat /\ left[t] \in Nat
      /\ DissemPosted(s, r) \in Int /\ DissemTaken(t, r) \in Int
      /\ round[t] \in Nat /\ r \in Nat
  BY <1>1, DissemCountsAreInt, DissemRoundsAreNat
<1>4. /\ entered[s] = IF pc[s] = "out" THEN left[s] ELSE left[s] + 1
      /\ entered[t] = IF pc[t] = "out" THEN left[t] ELSE left[t] + 1
  BY <1>1 DEF DissemIInv, Dissem!OneCallEach
<1>5. left[s] <= Dissem!Arrived(t)
  BY <1>1, DissemNobodyIsEarly DEF Dissem!NobodyEarly
<1>6. left[s] <= entered[t]
  BY <1>3, <1>5 DEF Dissem!Arrived
<1>7. DissemPosted(s, r) <= entered[s]
  BY <1>3 DEF DissemPosted
<1>8. DissemTaken(t, r) = IF pc[t] = "out" \/ r < round[t] THEN entered[t]
    ELSE entered[t] - 1
  BY DEF DissemTaken
<1>9. pSync[t][r] <= 2
  <2>1. DissemPosted(s, r) <= entered[t] + 1
    BY <1>3, <1>4, <1>6, <1>7
  <2>2. entered[t] - 1 <= DissemTaken(t, r)
    BY <1>3, <1>8
  <2>3. QED
    BY <1>2, <1>3, <2>1, <2>2
<1>10. pSync[t][r] = 2 => entered[t] > left[t] /\ round[t] <= r
  BY <1>2, <1>3, <1>4, <1>6, <1>7, <1>8
<1>11. pokes[s][r] \in 0 .. MaxEpisodes
  <2>1. entered[s] \in 0 .. MaxEpisodes /\ MaxEpisodes \in Nat
    BY <1>1, ActiveSetAssumption DEF DissemCountersTypeOK, Dissem!CallsTypeOK
  <2>2. 0 <= DissemTaken(t, r)
    BY <1>3, <1>4, <1>8
  <2>3. QED
    BY <1>2, <1>3, <1>7, <2>1, <2>2
<1>12. QED
  BY <1>3, <1>9, <1>10, <1>11 DEF t

(* The invariant implies what the promise needs and what the runs check.   *)
LEMMA DissemInvMeans == DissemIInv => Dissem!NobodyEarly /\ Dissem!TypeOK
    /\ Dissem!OnePokeAhead /\ Dissem!PSyncRestored
<1> SUFFICES ASSUME DissemIInv
             PROVE  Dissem!NobodyEarly /\ Dissem!TypeOK /\ Dissem!OnePokeAhead
                 /\ Dissem!PSyncRestored
  OBVIOUS
<1>1. DissemCountersTypeOK
  BY DEF DissemIInv
<1>2. \A p \in Dissem!Members : \A r \in Dissem!Rounds :
          /\ pSync[p][r] \in 0 .. 2
          /\ pSync[p][r] = 2 => entered[p] > left[p] /\ round[p] <= r
          /\ pokes[p][r] \in 0 .. MaxEpisodes
  <2> SUFFICES ASSUME NEW p \in Dissem!Members, NEW r \in Dissem!Rounds
               PROVE  /\ pSync[p][r] \in 0 .. 2
                      /\ pSync[p][r] = 2 => entered[p] > left[p] /\ round[p] <= r
                      /\ pokes[p][r] \in 0 .. MaxEpisodes
    OBVIOUS
  <2>1. PICK s \in Dissem!Members : Dissem!Target(s, r) = p
    BY DissemTargets
  <2>2. QED
    BY <2>1, DissemWordsAreSmall
<1>3. Dissem!TypeOK
  <2>1. pSync \in [Dissem!Members -> [Dissem!Rounds -> 0 .. 2]]
    BY <1>1, <1>2 DEF DissemCountersTypeOK
  <2>2. pokes \in [Dissem!Members -> [Dissem!Rounds -> 0 .. MaxEpisodes]]
    BY <1>1, <1>2 DEF DissemCountersTypeOK
  <2>3. QED
    BY <1>1, <2>1, <2>2 DEF DissemCountersTypeOK, Dissem!TypeOK
<1>4. Dissem!OnePokeAhead
  BY <1>2 DEF Dissem!OnePokeAhead
<1>5. Dissem!PSyncRestored
  <2> SUFFICES ASSUME \A p \in Dissem!Members : pc[p] = "out" /\ ~Dissem!Pending(p),
                      NEW q \in Dissem!Members, NEW r \in Dissem!Rounds
               PROVE  pSync[q][r] = 0
    BY DEF Dissem!PSyncRestored, Dissem!SHMEM_SYNC_VALUE
  <2>1. PICK s \in Dissem!Members : Dissem!Target(s, r) = q
    BY DissemTargets
  <2>2. pSync[q][r] + pokes[s][r] = DissemPosted(s, r) - DissemTaken(q, r)
    BY <2>1 DEF DissemIInv, DissemWordInv
  <2>3. DissemPosted(s, r) = entered[s] /\ DissemTaken(q, r) = entered[q]
    BY DEF DissemPosted, DissemTaken
  <2>4. left[s] <= Dissem!Arrived(q) /\ Dissem!Arrived(q) = entered[q]
      /\ entered[s] = left[s]
    <3>1. left[s] <= Dissem!Arrived(q)
      BY DissemNobodyIsEarly DEF Dissem!NobodyEarly
    <3>2. QED
      BY <3>1 DEF DissemIInv, Dissem!OneCallEach, Dissem!Arrived
  <2>5. /\ pSync[q][r] \in Nat /\ pokes[s][r] \in Nat
        /\ entered[s] \in Nat /\ entered[q] \in Nat
    BY <1>1, DissemCountsAreInt
  <2>6. QED
    BY <2>2, <2>3, <2>4, <2>5
<1>6. QED
  BY <1>3, <1>4, <1>5, DissemNobodyIsEarly

(* Every step of the algorithm is one of the calls'.                       *)
LEMMA DissemNextIsCallsStep == DissemIInv /\ [Dissem!Next]_(Dissem!vars)
    => Dissem!CallsStep
<1> SUFFICES ASSUME DissemIInv, [Dissem!Next]_(Dissem!vars)
             PROVE  Dissem!CallsStep
  OBVIOUS
<1>1. DOMAIN pc = Dissem!Members
  BY DEF DissemIInv, DissemCountersTypeOK
<1>2. ASSUME NEW p \in Dissem!Members, NEW next, NEW pending,
             Dissem!Quiet(p, pending, next), next \notin {"out", "quiet"}
      PROVE  Dissem!CallsStep
  BY <1>1, <1>2 DEF Dissem!Quiet, Dissem!Goto, Dissem!CallsStep
<1>3. ASSUME NEW p \in Dissem!Members, NEW from, NEW to, Dissem!Within(p, from, to),
             from \notin {"out", "quiet"}, to \notin {"out", "quiet"}
      PROVE  Dissem!CallsStep
  BY <1>1, <1>3 DEF Dissem!Within, Dissem!Goto, Dissem!CallsStep
<1>4. ASSUME NEW p \in Dissem!Members, NEW from, Dissem!Return(p, from),
             from \notin {"out", "quiet"}
      PROVE  Dissem!CallsStep
  BY <1>1, <1>4 DEF Dissem!Return, Dissem!Goto, Dissem!CallsStep
<1>5. ASSUME NEW p \in Dissem!Members, Dissem!ProgramWrites(p)
      PROVE  Dissem!CallsStep
  BY <1>5 DEF Dissem!ProgramWrites, Dissem!CallsStep
<1>6. ASSUME NEW p \in Dissem!Members, Dissem!CallStep(p)
      PROVE  Dissem!CallsStep
  <2>1. CASE Dissem!Call(p)
    BY <2>1 DEF Dissem!CallsStep
  <2>2. CASE Dissem!Quiet(p, Dissem!Pending(p), "loop")
    BY <2>2, <1>2
  <2>3. QED
    BY <1>6, <2>1, <2>2 DEF Dissem!CallStep
<1>7. ASSUME NEW p \in Dissem!Members, Dissem!Step(p)
      PROVE  Dissem!CallsStep
  <2>1. CASE Dissem!Done(p)
    BY <2>1, <1>4 DEF Dissem!Done
  <2>2. CASE Dissem!PokeTarget(p) \/ Dissem!WaitPoked(p) \/ Dissem!Unpoke(p)
    BY <2>2, <1>3 DEF Dissem!PokeTarget, Dissem!WaitPoked, Dissem!Unpoke
  <2>3. QED
    BY <1>7, <2>1, <2>2 DEF Dissem!Step
<1>8. CASE Dissem!Deliver
  BY <1>8 DEF Dissem!Deliver, Dissem!DeliverFrom, Dissem!DeliverPoke, Dissem!CallsStep
<1>9. CASE UNCHANGED Dissem!vars
  BY <1>9 DEF Dissem!vars, Dissem!CallsStep
<1>10. QED
  BY <1>5, <1>6, <1>7, <1>8, <1>9 DEF Dissem!Next, Dissem!Run

(* In every state of the algorithm nobody leaves a call before everybody   *)
(* has arrived in it, no word holds more than one poke ahead of its time,  *)
(* and pSync is restored between the calls.                                *)
THEOREM DisseminationCorrect ==
    Dissem!Spec => [](Dissem!NobodyEarly /\ Dissem!TypeOK /\ Dissem!OnePokeAhead /\ Dissem!PSyncRestored)
<1>1. Dissem!Init => DissemIInv
  BY DissemInitInv
<1>2. DissemIInv /\ [Dissem!Next]_(Dissem!vars) => DissemIInv'
  BY DissemNextInv
<1>3. DissemIInv => Dissem!NobodyEarly /\ Dissem!TypeOK /\ Dissem!OnePokeAhead
    /\ Dissem!PSyncRestored
  BY DissemInvMeans
<1>4. QED
  BY <1>1, <1>2, <1>3, PTL DEF Dissem!Spec

-----------------------------------------------------------------------------
(* The invariant of whichever algorithm is installed, and that of the puts *)
(* of the program.                                                         *)
IInv ==
    /\ \/ barrier_sync_helper = "linear" /\ LinearIInv
       \/ barrier_sync_helper = "tree"   /\ TP!IInv
       \/ barrier_sync_helper = "dissem" /\ DissemIInv
    /\ WritesAreBefore

-----------------------------------------------------------------------------
(* So for the tree algorithm.                                              *)
LEMMA TreeIsTP ==
    /\ Tree!Init => TP!Init
    /\ [Tree!Next]_Tree!vars => [TP!Next]_TP!vars
    /\ TP!TypeOK => Tree!TypeOK
    /\ TP!NoExtraPoke => Tree!NoExtraPoke
    /\ TP!PSyncRestored => Tree!PSyncRestored
<1> USE DEF
        TP!SHMEM_SYNC_VALUE, Tree!SHMEM_SYNC_VALUE, TP!stride, Tree!stride,
        TP!Rank, Tree!Rank, TP!Members, Tree!Members, TP!Index, Tree!Index,
        TP!vars, Tree!vars, TP!tree_degree, Tree!tree_degree,
        TP!childrenBegin, Tree!childrenBegin, TP!childrenEnd,
        Tree!childrenEnd, TP!npokes, Tree!npokes, TP!Root, Tree!Root,
        TP!ParentOf, Tree!ParentOf, TP!ChildrenOf, Tree!ChildrenOf
<1>1. Tree!Init => TP!Init
  BY DEF Tree!Init, TP!Init, Tree!CallsInit, TP!CallsInit
<1>2. [Tree!Next]_Tree!vars => [TP!Next]_TP!vars
  BY DEF
        TP!callVars, Tree!callVars, TP!Goto, Tree!Goto, TP!Write, Tree!Write,
        TP!DeliverWrite, Tree!DeliverWrite, TP!Call, Tree!Call, TP!Quiet,
        Tree!Quiet, TP!Within, Tree!Within, TP!Return, Tree!Return,
        TP!Finished, Tree!Finished, TP!Pending, Tree!Pending, TP!CallStep,
        Tree!CallStep, TP!ProgramWrites, Tree!ProgramWrites, TP!Begin,
        Tree!Begin, TP!Gather, Tree!Gather, TP!PokeParent, Tree!PokeParent,
        TP!WaitParent, Tree!WaitParent, TP!Clear, Tree!Clear, TP!PokeChild,
        Tree!PokeChild, TP!Done, Tree!Done, TP!DeliverPoke, Tree!DeliverPoke,
        TP!Deliver, Tree!Deliver, TP!Step, Tree!Step, TP!Run, Tree!Run,
        TP!Next, Tree!Next
<1>3. TP!TypeOK => Tree!TypeOK
  BY DEF Tree!TypeOK, TP!TypeOK, Tree!CallsTypeOK, TP!CallsTypeOK
<1>4. TP!NoExtraPoke => Tree!NoExtraPoke
  BY DEF Tree!NoExtraPoke, TP!NoExtraPoke
<1>5. TP!PSyncRestored => Tree!PSyncRestored
  BY DEF Tree!PSyncRestored, TP!PSyncRestored
<1>6. QED
  BY <1>1, <1>2, <1>3, <1>4, <1>5

-----------------------------------------------------------------------------
(* What each algorithm's proof says, in the words of this module: the      *)
(* algorithm starts right, stays right, and its steps are the calls'.      *)
LEMMA LinearWorks ==
    /\ Linear!Init => LinearIInv
    /\ LinearIInv /\ [Linear!Next]_Linear!vars => LinearIInv' /\ CallsStep
    /\ LinearIInv => /\ Linear!TypeOK /\ Linear!AckIsNews /\ Linear!PSyncRestored
                  /\ CallsTypeOK /\ OneCallEach /\ NobodyEarly /\ DOMAIN pc = Members
<1> USE ActiveSetAssumption
<1>0. Writers \subseteq Linear!Members
  BY WritersAssumption DEF Linear!Members, Members, Linear!Rank, Rank, Linear!stride,
     stride
<1>1. Linear!Init => LinearIInv
  BY <1>0, LinearInitInv
<1>2. LinearIInv /\ [Linear!Next]_Linear!vars => LinearIInv' /\ Linear!CallsStep
  BY <1>0, LinearNextInv, LinearNextIsCallsStep
<1>3. LinearIInv => /\ Linear!TypeOK /\ Linear!AckIsNews /\ Linear!PSyncRestored
                 /\ Linear!OneCallEach /\ Linear!NobodyEarly
  BY <1>0, LinearInvMeans DEF LinearIInv
<1>4. Linear!CallsStep => CallsStep
  BY DEF Linear!CallsStep, CallsStep, Linear!Members, Members, Linear!Rank, Rank,
     Linear!stride, stride,
         Linear!Write, Write, Linear!Call, Call, Linear!Goto, Goto,
             Linear!DeliverWrite, DeliverWrite,
         Linear!callVars, callVars
<1>5. /\ Linear!OneCallEach => OneCallEach
      /\ Linear!NobodyEarly => NobodyEarly
      /\ Linear!TypeOK => CallsTypeOK /\ DOMAIN pc = Members
  BY DEF Linear!OneCallEach, OneCallEach, Linear!NobodyEarly, NobodyEarly,
     Linear!Arrived, Arrived,
         Linear!TypeOK, Linear!CallsTypeOK, CallsTypeOK,
         Linear!Members, Members, Linear!Rank, Rank, Linear!stride, stride
<1>6. QED
  BY <1>1, <1>2, <1>3, <1>4, <1>5

(* What the proofs of the tree algorithm say, read in this module.         *)
LEMMA TreeWorks ==
    /\ Tree!Init => TP!IInv
    /\ TP!IInv /\ [Tree!Next]_Tree!vars => TP!IInv' /\ CallsStep
    /\ TP!IInv => /\ Tree!TypeOK /\ Tree!NoExtraPoke /\ Tree!PSyncRestored
                  /\ CallsTypeOK /\ OneCallEach /\ NobodyEarly /\ DOMAIN pc = Members
<1> USE ActiveSetAssumption
<1>0. Writers \subseteq TP!Members
  BY WritersAssumption DEF TP!Members, Members, TP!Rank, Rank, TP!stride, stride
<1>1. Tree!Init => TP!IInv
  BY <1>0, TreeIsTP, TP!InitInv
<1>2. TP!IInv /\ [Tree!Next]_Tree!vars => TP!IInv' /\ TP!CallsStep
  BY <1>0, TreeIsTP, TP!NextInv, TP!NextIsCallsStep
<1>3. TP!IInv => /\ TP!TypeOK /\ TP!NoExtraPoke /\ TP!PSyncRestored
                 /\ TP!OneCallEach /\ TP!NobodyEarly
  BY <1>0, TP!InvMeans DEF TP!IInv
<1>4. TP!CallsStep => CallsStep
  BY DEF TP!CallsStep, CallsStep, TP!Members, Members, TP!Rank, Rank, TP!stride, stride,
         TP!Write, Write, TP!Call, Call, TP!Goto, Goto, TP!DeliverWrite, DeliverWrite,
         TP!callVars, callVars
<1>5. /\ TP!OneCallEach => OneCallEach
      /\ TP!NobodyEarly => NobodyEarly
      /\ TP!TypeOK => CallsTypeOK /\ DOMAIN pc = Members
  BY DEF TP!OneCallEach, OneCallEach, TP!NobodyEarly, NobodyEarly, TP!Arrived, Arrived,
         TP!TypeOK, TP!CallsTypeOK, CallsTypeOK,
         TP!Members, Members, TP!Rank, Rank, TP!stride, stride
<1>6. QED
  BY <1>1, <1>2, <1>3, <1>4, <1>5, TreeIsTP

(* The same for dissemination.                                             *)
LEMMA DissemWorks ==
    /\ Dissem!Init => DissemIInv
    /\ DissemIInv /\ [Dissem!Next]_Dissem!vars => DissemIInv' /\ CallsStep
    /\ DissemIInv => /\ Dissem!TypeOK /\ Dissem!OnePokeAhead /\ Dissem!PSyncRestored
                  /\ CallsTypeOK /\ OneCallEach /\ NobodyEarly /\ DOMAIN pc = Members
<1> USE ActiveSetAssumption
<1>0. Writers \subseteq Dissem!Members
  BY WritersAssumption DEF Dissem!Members, Members, Dissem!Rank, Rank, Dissem!stride,
     stride
<1>1. Dissem!Init => DissemIInv
  BY <1>0, DissemInitInv
<1>2. DissemIInv /\ [Dissem!Next]_Dissem!vars => DissemIInv' /\ Dissem!CallsStep
  BY <1>0, DissemNextInv, DissemNextIsCallsStep
<1>3. DissemIInv => /\ Dissem!TypeOK /\ Dissem!OnePokeAhead /\ Dissem!PSyncRestored
                 /\ Dissem!OneCallEach /\ Dissem!NobodyEarly
  BY <1>0, DissemInvMeans DEF DissemIInv
<1>4. Dissem!CallsStep => CallsStep
  BY DEF Dissem!CallsStep, CallsStep, Dissem!Members, Members, Dissem!Rank, Rank,
     Dissem!stride, stride,
         Dissem!Write, Write, Dissem!Call, Call, Dissem!Goto, Goto,
             Dissem!DeliverWrite, DeliverWrite,
         Dissem!callVars, callVars
<1>5. /\ Dissem!OneCallEach => OneCallEach
      /\ Dissem!NobodyEarly => NobodyEarly
      /\ Dissem!TypeOK => CallsTypeOK /\ DOMAIN pc = Members
  BY DEF Dissem!OneCallEach, OneCallEach, Dissem!NobodyEarly, NobodyEarly,
     Dissem!Arrived, Arrived,
         Dissem!TypeOK, Dissem!CallsTypeOK, CallsTypeOK,
         Dissem!Members, Members, Dissem!Rank, Rank, Dissem!stride, stride
<1>6. QED
  BY <1>1, <1>2, <1>3, <1>4, <1>5

(* A step of the installed algorithm is a step of the calls, and keeps its *)
(* invariant.                                                              *)
LEMMA StepWorks ==
    ASSUME IInv, [Next]_vars
    PROVE  /\ CallsStep
           /\ \/ barrier_sync_helper' = "linear" /\ LinearIInv'
              \/ barrier_sync_helper' = "tree"   /\ TP!IInv'
              \/ barrier_sync_helper' = "dissem" /\ DissemIInv'
<1>1. UNCHANGED barrier_sync_helper
  BY DEF Next, InLinear, InTree, InDissem, vars
<1>2. CASE barrier_sync_helper = "linear"
  <2>1. [Linear!Next]_Linear!vars /\ LinearIInv
    BY <1>2 DEF IInv, Next, InLinear, InTree, InDissem, vars, callVars, linearOnly,
                Linear!vars, Linear!callVars
  <2>2. QED
    BY <1>1, <1>2, <2>1, LinearWorks
<1>3. CASE barrier_sync_helper = "tree"
  <2>1. [Tree!Next]_Tree!vars /\ TP!IInv
    BY <1>3 DEF IInv, Next, InLinear, InTree, InDissem, vars, callVars,
                Tree!vars, Tree!callVars
  <2>2. QED
    BY <1>1, <1>3, <2>1, TreeWorks
<1>4. CASE barrier_sync_helper = "dissem"
  <2>1. [Dissem!Next]_Dissem!vars /\ DissemIInv
    BY <1>4 DEF IInv, Next, InLinear, InTree, InDissem, vars, callVars,
                Dissem!vars, Dissem!callVars
  <2>2. QED
    BY <1>1, <1>4, <2>1, DissemWorks
<1>5. QED
  BY <1>2, <1>3, <1>4 DEF IInv

(* What holds of the calls in every state.                                 *)
LEMMA InvMeans ==
    IInv => /\ TypeOK /\ PokesAreCounted /\ PSyncRestored
            /\ CallsTypeOK /\ OneCallEach /\ NobodyEarly /\ FlushedOnReturn
                /\ DOMAIN pc = Members
<1> SUFFICES ASSUME IInv
             PROVE  /\ TypeOK /\ PokesAreCounted /\ PSyncRestored
                    /\ CallsTypeOK /\ OneCallEach /\ NobodyEarly /\ FlushedOnReturn
                        /\ DOMAIN pc = Members
  OBVIOUS
<1>1. TypeOK /\ PokesAreCounted /\ PSyncRestored
  BY LinearWorks, TreeWorks, DissemWorks DEF IInv, TypeOK, PokesAreCounted,
     PSyncRestored
<1>2. CallsTypeOK /\ OneCallEach /\ NobodyEarly /\ DOMAIN pc = Members
  BY LinearWorks, TreeWorks, DissemWorks DEF IInv
<1>3. FlushedOnReturn
  <2> SUFFICES ASSUME NEW w \in writes, NEW p \in Members
               PROVE  left[p] < w.ep
    BY DEF FlushedOnReturn
  <2>1. w.ep = Arrived(w.from) + 1 /\ w.from \in Members
    BY <1>2 DEF IInv, WritesAreBefore, CallsTypeOK
  <2>2. left[p] <= Arrived(w.from)
    BY <1>2, <2>1 DEF NobodyEarly
  <2>3. left[p] \in Int /\ entered[w.from] \in Int
    BY <1>2, <2>1 DEF CallsTypeOK
  <2>4. QED
    BY <2>1, <2>2, <2>3 DEF Arrived
<1>4. QED
  BY <1>1, <1>2, <1>3

(* A member's flush leaves none of its puts behind, and what it puts       *)
(* before the next call waits for that call's flush.                       *)
LEMMA WritesStayBefore ==
    ASSUME CallsTypeOK, OneCallEach, WritesAreBefore, CallsStep, DOMAIN pc = Members
    PROVE  WritesAreBefore'
<1>1. \A w \in writes : kind[w.ep] = "barrier" /\ w.ep = Arrived(w.from) + 1
                        /\ w.from \in Members
  BY DEF WritesAreBefore, CallsTypeOK
<1>2. \A q \in Members : entered[q] \in Int /\ left[q] \in Int
  BY DEF CallsTypeOK
<1>3. ASSUME NEW p \in Members, Write(p)
      PROVE  WritesAreBefore'
  <2>1. Arrived(p) = entered[p] /\ \A q \in Members : Arrived(q)' = Arrived(q)
    BY <1>3 DEF Write, Arrived
  <2>2. QED
    BY <1>1, <1>3, <2>1 DEF Write, WritesAreBefore
<1>4. ASSUME NEW p \in Members, Call(p)
      PROVE  WritesAreBefore'
  <2>1. \A q \in Members : Arrived(q)' = Arrived(q)
    BY <1>2, <1>4 DEF Call, Goto, Arrived, CallsTypeOK
  <2>2. QED
    BY <1>1, <1>4, <2>1 DEF Call, WritesAreBefore
<1>5. ASSUME NEW w \in writes, DeliverWrite(w)
      PROVE  WritesAreBefore'
  BY <1>1, <1>5 DEF DeliverWrite, WritesAreBefore, Arrived
<1>6. ASSUME NEW p \in Members, pc[p] # "out", pc'[p] # "quiet",
             \A q \in Members \ {p} : pc'[q] = pc[q],
             pc[p] = "quiet" /\ kind[entered[p]] = "barrier"
                 => \A w \in writes : w.from # p,
             UNCHANGED <<kind, entered, writes>>
      PROVE  WritesAreBefore'
  <2>1. \A q \in Members : q # p => Arrived(q)' = Arrived(q)
    BY <1>6 DEF Arrived
  <2>2. pc[p] # "quiet" => Arrived(p)' = Arrived(p)
    BY <1>6 DEF Arrived
  <2>3. \A w \in writes : w.from = p => pc[p] # "quiet"
    BY <1>1, <1>2, <1>6 DEF Arrived
  <2>4. QED
    BY <1>1, <1>6, <2>1, <2>2, <2>3 DEF WritesAreBefore
<1>7. CASE UNCHANGED callVars
  BY <1>1, <1>7 DEF callVars, WritesAreBefore, Arrived
<1>8. QED
  BY <1>3, <1>4, <1>5, <1>6, <1>7 DEF CallsStep

(* One of the three algorithms is installed and starts in its invariant.   *)
LEMMA InitInv == Init => IInv
<1>1. Init => writes = {}
  BY DEF Init, InitLinear, InitTree, InitDissem, Linear!Init, Tree!Init, Dissem!Init,
         Linear!CallsInit, Tree!CallsInit, Dissem!CallsInit
<1>2. QED
  BY <1>1, LinearWorks, TreeWorks, DissemWorks
     DEF Init, InitLinear, InitTree, InitDissem, IInv, WritesAreBefore

(* Only the installed algorithm takes steps, and it keeps its invariant.   *)
LEMMA NextInv == IInv /\ [Next]_vars => IInv'
<1> SUFFICES ASSUME IInv, [Next]_vars
             PROVE  IInv'
  OBVIOUS
<1>1. WritesAreBefore'
  BY StepWorks, InvMeans, WritesStayBefore DEF IInv
<1>2. QED
  BY <1>1, StepWorks DEF IInv

(* Every state of every job is in the invariant of its algorithm.          *)
LEMMA Invariance == Spec => []IInv
BY InitInv, NextInv, PTL DEF Spec

-----------------------------------------------------------------------------
(* In a step of the calls a member enters a barrier it is not in, leaves   *)
(* one that everybody has entered, or neither.                             *)
LEMMA StepKeepsPromise ==
    ASSUME CallsTypeOK, OneCallEach, DOMAIN pc = Members, CallsStep,
           CallsTypeOK', NobodyEarly'
    PROVE  [Promise!Next]_(Promise!vars)
<1>1. \A q \in Members : entered[q] \in Int /\ left[q] \in Int
  BY DEF CallsTypeOK
<1>2. ASSUME NEW p \in Members, Write(p) \/ Call(p)
      PROVE  [Promise!Next]_(Promise!vars)
  <2>1. CASE Write(p)
    BY <2>1 DEF Write, Promise!vars
  <2>2. CASE Call(p)
    <3>1. entered[p] = left[p]
      BY <2>2 DEF Call, Goto, OneCallEach
    <3>2. Promise!Enter(p)
      BY <2>2, <3>1 DEF Call, Promise!Enter
    <3>3. QED
      BY <3>2 DEF Promise!Next
  <2>3. QED
    BY <1>2, <2>1, <2>2
<1>3. ASSUME NEW w \in writes, DeliverWrite(w)
      PROVE  [Promise!Next]_(Promise!vars)
  BY <1>3 DEF DeliverWrite, Promise!vars
<1>4. ASSUME NEW p \in Members, pc[p] # "out",
             left' = IF pc'[p] = "out" THEN [left EXCEPT ![p] = @ + 1] ELSE left,
             UNCHANGED <<kind, entered, writes>>
      PROVE  [Promise!Next]_(Promise!vars)
  <2>1. CASE pc'[p] # "out"
    BY <1>4, <2>1 DEF Promise!vars
  <2>2. CASE pc'[p] = "out"
    <3>1. left' = [left EXCEPT ![p] = @ + 1] /\ entered[p] = left[p] + 1
      BY <1>4, <2>2 DEF OneCallEach
    <3>2. left'[p] = entered[p]
      BY <3>1 DEF CallsTypeOK
    <3>3. \A q \in Members : entered[q] >= entered[p]
      <4>1. \A q \in Members : left'[p] <= Arrived(q)'
        BY DEF NobodyEarly
      <4>2. \A q \in Members : Arrived(q)' <= entered[q]
        BY <1>1, <1>4 DEF Arrived
      <4>3. \A q \in Members : Arrived(q)' \in Int
        BY <1>1, <1>4 DEF Arrived
      <4>4. QED
        BY <1>1, <3>2, <4>1, <4>2, <4>3
    <3>4. Promise!Leave(p)
      <4>1. left[p] < entered[p]
        BY <1>1, <3>1
      <4>2. QED
        BY <1>4, <3>1, <3>3, <4>1 DEF Promise!Leave
    <3>5. QED
      BY <3>4 DEF Promise!Next
  <2>3. QED
    BY <2>1, <2>2
<1>5. CASE UNCHANGED callVars
  BY <1>5 DEF callVars, Promise!vars
<1>6. QED
  BY <1>2, <1>3, <1>4, <1>5 DEF CallsStep

(* Whichever algorithm is installed, its variables stay within their types: *)
(* in particular no member's pSync is counted beyond the pokes of one      *)
(* barrier (linear, tree) or of the next one (dissemination).              *)
THEOREM TypeCorrect == Spec => []TypeOK
BY Invariance, InvMeans, PTL

(* No acknowledgement is missed, no poke overshoots the count a member     *)
(* waits for, and a neighbour is at most one barrier ahead.                *)
THEOREM PokesCorrect == Spec => []PokesAreCounted
BY Invariance, InvMeans, PTL

(* Between the calls pSync is what it was before them.                     *)
THEOREM PSyncCorrect == Spec => []PSyncRestored
BY Invariance, InvMeans, PTL

(* When any member leaves a shmem_barrier, the puts every member posted    *)
(* before it have been applied.                                            *)
THEOREM FlushCorrect == Spec => []FlushedOnReturn
BY Invariance, InvMeans, PTL

(* The barriers implement AbstractBarrier: no member leaves a barrier      *)
(* before all have entered it.                                             *)
THEOREM Implements == Spec => KeepsPromise
<1>1. Init => Promise!Init
  BY DEF Init, InitLinear, InitTree, InitDissem, Linear!Init, Tree!Init, Dissem!Init,
         Linear!CallsInit, Tree!CallsInit, Dissem!CallsInit, Promise!Init,
         Linear!Members, Tree!Members, Dissem!Members, Members,
         Linear!Rank, Tree!Rank, Dissem!Rank, Rank,
         Linear!stride, Tree!stride, Dissem!stride, stride
<1>2. IInv => CallsTypeOK /\ OneCallEach /\ NobodyEarly /\ DOMAIN pc = Members
  BY InvMeans
<1>3. IInv' => CallsTypeOK' /\ NobodyEarly'
  BY <1>2, PTL
<1>4. IInv /\ IInv' /\ [Next]_vars => [Promise!Next]_(Promise!vars)
  BY <1>2, <1>3, StepWorks, StepKeepsPromise
<1>5. QED
  BY <1>1, <1>4, Invariance, PTL DEF Spec, KeepsPromise, Promise!Spec

=============================================================================
