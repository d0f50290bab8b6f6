-------------------------- MODULE ShmemLockProofs --------------------------
(***************************************************************************)
(* Theorems about ShmemLock, for every job whose PEs agree on the owner of *)
(* the lock, and for every set of contending PEs.                          *)
(***************************************************************************)
EXTENDS ShmemLock, TLAPS

(* In an aligned job there is one owner, and a rank survives its int16_t.  *)
LEMMA AlignedFacts ==
    ASSUME AlignedJob
    PROVE  /\ Owners = {TheOwner}
           /\ \A p \in PE : LockOwner(p) = TheOwner
           /\ \A p \in PE : p \in Nat /\ Int16(p) = p
           /\ Ranks16 = PE
<1>1. PICK o \in PE : TRUE
    BY RanksAssumption
<1>2. Owners = {LockOwner(o)}
    BY <1>1 DEF Owners, AlignedJob, CongruentOwners
<1>3. TheOwner = LockOwner(o)
    BY <1>2 DEF TheOwner
<1>4. ASSUME NEW p \in PE PROVE p \in Nat /\ Int16(p) = p
    BY RanksAssumption DEF AlignedJob, Int16
<1>5. Ranks16 = PE
    BY <1>4 DEF Ranks16
<1> QED
    BY <1>1, <1>2, <1>3, <1>4, <1>5 DEF AlignedJob, CongruentOwners

(* The three kinds of put differ in the field they write.                  *)
LEMMA PutFacts ==
    ASSUME NEW p, NEW t
    PROVE  /\ LinkPut(p, t).field = "next" /\ LinkPut(p, t).from = p
           /\ LinkPut(p, t).to = t /\ LinkPut(p, t).val = Int16(p)
           /\ GrantPut(p, t).field = "locked" /\ GrantPut(p, t).from = p
           /\ GrantPut(p, t).to = t /\ GrantPut(p, t).val = 0
           /\ DataPut(p).field = "data" /\ DataPut(p).from = p
BY DEF LinkPut, GrantPut, DataPut, Put

(* What the provers need to know of a sequence ...                         *)
LEMMA SeqFacts ==
    ASSUME NEW S, NEW s \in Seq(S)
    PROVE  /\ Len(s) \in Nat
           /\ \A i \in 1 .. Len(s) : s[i] \in S
           /\ s = <<>> <=> Len(s) = 0
    OBVIOUS

(* ... of one with an element more ...                                     *)
LEMMA AppendFacts ==
    ASSUME NEW S, NEW s \in Seq(S), NEW e \in S
    PROVE  /\ Append(s, e) \in Seq(S)
           /\ Append(s, e) # <<>>
           /\ Len(Append(s, e)) = Len(s) + 1
           /\ \A i \in 1 .. Len(s) : Append(s, e)[i] = s[i]
           /\ Append(s, e)[Len(s) + 1] = e
    OBVIOUS

(* ... and of one without its first.                                       *)
LEMMA TailFacts ==
    ASSUME NEW S, NEW s \in Seq(S), s # <<>>
    PROVE  /\ Tail(s) \in Seq(S)
           /\ Len(Tail(s)) = Len(s) - 1
           /\ \A i \in 1 .. Len(s) - 1 : Tail(s)[i] = s[i + 1]
    OBVIOUS

(* Only the first of the line can be in a state that holds the lock.       *)
LEMMA HolderFirst ==
    ASSUME TypeOK, AlignedJob, LineInv, BehindInv,
           NEW p \in PE, pc[p] \in Holding
    PROVE  Line # <<>> /\ Line[1] = p /\ Line \in Seq(PE)
<1>1. Line \in Seq(PE)
    BY AlignedFacts DEF TypeOK, Line
<1>2. PICK i \in 1 .. Len(Line) : Line[i] = p
    BY DEF LineInv
<1>3. i = 1
    <2> SUFFICES ASSUME i \in 2 .. Len(Line) PROVE FALSE
        BY <1>1, SeqFacts
    <2>1. pc[p] \in Queueing
        BY <1>2 DEF BehindInv
    <2> QED
        BY <2>1 DEF Holding, Releasing, Queueing
<1> QED
    BY <1>1, <1>2, <1>3, SeqFacts

(* Type correctness of a step; a release needs somebody in the line.       *)
LEMMA NextType == AlignedJob /\ IInv /\ [Next]_vars => TypeOK'
<1> SUFFICES ASSUME AlignedJob, IInv, [Next]_vars
             PROVE  TypeOK'
    OBVIOUS
<1> USE DEF IInv, TypeOK, Goto, PCs, Outside, Holding, Queueing, Releasing
<1>a. ASSUME NEW p \in PE PROVE LockOwner(p) \in Owners
    BY DEF Owners
<1>b. ASSUME NEW p \in PE PROVE TakenBy(p) \in Words /\ Int16(p) \in Ranks16
    BY DEF TakenBy, Word, Words, Ranks16
<1>c. ASSUME NEW p \in PE, pc[p] \in Holding
      PROVE  Tail(queue[LockOwner(p)]) \in Seq(PE)
    BY <1>c, HolderFirst, AlignedFacts, TailFacts DEF Line
<1>1. ASSUME NEW p \in PE, CallSet(p) PROVE TypeOK'
    BY <1>1 DEF CallSet, NoRet
<1>2. ASSUME NEW p \in PE, CallTest(p) PROVE TypeOK'
    BY <1>2 DEF CallTest, NoRet
<1>3. ASSUME NEW p \in PE, CriticalPut(p) PROVE TypeOK'
    BY <1>3 DEF CriticalPut, DataPut, Put, Puts, Targets
<1>4. ASSUME NEW p \in PE, ResetNext(p) PROVE TypeOK'
    BY <1>4 DEF ResetNext, Nodes, Word
<1>5. ASSUME NEW p \in PE, SwapFree(p) PROVE TypeOK'
    BY <1>5, <1>a, <1>b DEF SwapFree, SwapInto, Acquired
<1>6. ASSUME NEW p \in PE, SwapTaken(p) PROVE TypeOK'
    BY <1>6, <1>a, <1>b DEF SwapTaken, SwapInto, Words
<1>7. ASSUME NEW p \in PE, MarkLocked(p) PROVE TypeOK'
    BY <1>7 DEF MarkLocked, Nodes, Word
<1>8. ASSUME NEW p \in PE, LinkToPred(p) PROVE TypeOK'
    BY <1>8, <1>b DEF LinkToPred, LinkPut, Put, Puts, Targets
<1>9. ASSUME NEW p \in PE, WaitUnlocked(p) PROVE TypeOK'
    BY <1>9 DEF WaitUnlocked, Acquired
<1>10. ASSUME NEW p \in PE, GetFree(p) \/ GetTaken(p) PROVE TypeOK'
    BY <1>10 DEF GetFree, GetTaken
<1>11. ASSUME NEW p \in PE, CallClear(p) \/ Quiet(p) \/ CheckNext(p) \/ WaitNext(p)
       PROVE  TypeOK'
    BY <1>11 DEF CallClear, Quiet, CheckNext, WaitNext
<1>12. ASSUME NEW p \in PE, CswapLock(p) PROVE TypeOK'
    <2>1. ResetWord \in Words
        BY DEF ResetWord, Word, Words, RESET
    <2> QED
        BY <1>12, <1>a, <1>c, <2>1 DEF CswapLock
<1>13. ASSUME NEW p \in PE, GrantNext(p) PROVE TypeOK'
    <2>1. GrantPut(p, node[p].next) \in Puts
        BY DEF GrantPut, Put, Puts, Targets, Nodes
    <2>2. queue' \in [Owners -> Seq(PE)]
        BY <1>13, <1>a, <1>c DEF GrantNext
    <2> QED
        BY <1>13, <2>1, <2>2 DEF GrantNext
<1>14. ASSUME NEW m \in puts, Deliver(m) PROVE TypeOK'
    <2>1. m.field = "next" => m.val \in Ranks16
        BY DEF Puts
    <2>2. m.field = "locked" => m.val = 0
        BY DEF Puts
    <2>3. node' \in [PE -> Nodes]
        BY <1>14, <2>1, <2>2 DEF Deliver, Nodes, Word
    <2> QED
        BY <1>14, <2>3 DEF Deliver
<1>15. CASE UNCHANGED vars
    BY <1>15 DEF vars
<1> QED
    BY <1>1, <1>2, <1>3, <1>4, <1>5, <1>6, <1>7, <1>8, <1>9, <1>10, <1>11,
       <1>12, <1>13, <1>14, <1>15
    DEF Next, Progress, SetStep, TestStep, ClearStep

(* At first the line is empty and nothing is in flight.                    *)
LEMMA InitInv == AlignedJob /\ Init => IInv
<1> SUFFICES ASSUME AlignedJob, Init
             PROVE  IInv
    OBVIOUS
<1>1. TypeOK
    BY RanksAssumption, AddrAssumption
    DEF Init, TypeOK, PCs, Outside, Holding, Queueing, ResetWord, Word,
        Words, Nodes, Puts, RESET, NoRet, Owners
<1>2. Line = <<>> /\ lock[TheOwner] = ResetWord
    BY AlignedFacts DEF Init, Line
<1> QED
    BY <1>1, <1>2 DEF Init, IInv, LineInv, LastInv, HeadInv, BehindInv, PutsInv,
                      NodeInv, Queueing, Holding, Releasing

(* The invariant is inductive.                                             *)
LEMMA NextInv == AlignedJob /\ IInv /\ [Next]_vars => IInv'
<1> SUFFICES ASSUME AlignedJob, IInv, [Next]_vars
             PROVE  IInv'
    OBVIOUS
<1> USE DEF IInv, Goto, Outside, Holding, Queueing, Releasing
<1>t. TypeOK'
    BY NextType
<1>a. TypeOK /\ Line \in Seq(PE) /\ Len(Line) \in Nat
    BY AlignedFacts DEF TypeOK, Line
<1>b. \A i \in 1 .. Len(Line) : Line[i] \in PE
    BY <1>a
<1>c. \A p \in PE : pc[p] \in Holding => Line # <<>> /\ Line[1] = p
    BY HolderFirst
<1>d. pc \in [PE -> PCs] /\ node \in [PE -> Nodes]
    BY <1>a DEF TypeOK
<1>e. Line # <<>> => /\ Len(Line) >= 1
                     /\ Line[1] \in PE
                     /\ Line[Len(Line)] \in PE
    BY <1>a, <1>b
<1>f. \A m \in puts : m.from \in PE
    BY <1>a DEF TypeOK, Puts
<1>n. Len(Line) \in Nat
    BY <1>a
<1>g. Line # <<>> /\ Len(Line) # 1 => Len(Line) >= 2
    <2> SUFFICES ASSUME Line # <<>>, Len(Line) # 1
                 PROVE  Len(Line) >= 2
        OBVIOUS
    <2>1. Len(Line) >= 1
        BY <1>e
    <2>2. ASSUME NEW k \in Nat, k >= 1, k # 1 PROVE k >= 2
        BY <2>2
    <2> QED
        BY <1>n, <2>1, <2>2
(* Steps that only move a PE along its own program. *)
<1>1. ASSUME NEW p \in PE,
             \/ CallSet(p) \/ CallTest(p) \/ GetFree(p) \/ GetTaken(p)
             \/ CallClear(p) \/ CheckNext(p)
      PROVE  IInv'
    <2>1. /\ UNCHANGED <<lock, node, pred, puts, queue>> /\ Line' = Line
          /\ \A r \in PE \ {p} : pc'[r] = pc[r]
          /\ \/ pc[p] \in {"idle", "get"} /\ pc'[p] \in {"idle", "get", "reset"}
             \/ pc[p] = "cs" /\ pc'[p] = "quiet"
             \/ pc[p] = "check" /\ pc'[p] = "cswap"
             \/ pc[p] = "check" /\ pc'[p] = "grant" /\ node[p].next # FREE
        BY <1>1, <1>d DEF CallSet, CallTest, GetFree, GetTaken, CallClear, CheckNext, Line
    <2>2. LineInv'
        BY <2>1 DEF LineInv
    <2>3. LastInv'
        BY <2>1 DEF LastInv
    <2>4. HeadInv'
        BY <2>1, <1>e DEF HeadInv
    <2>5. BehindInv'
        BY <2>1, <1>b DEF BehindInv
    <2>6. PutsInv'
        BY <2>1, <1>a, <1>b, <1>e, <1>f DEF PutsInv
    <2>7. NodeInv'
        BY <2>1 DEF NodeInv
    <2> QED
        BY <1>t, <2>2, <2>3, <2>4, <2>5, <2>6, <2>7
(* The two waits: the wait for a lock and the wait for a successor. *)
<1>2. ASSUME NEW p \in PE, WaitUnlocked(p) PROVE IInv'
    <2>1. /\ UNCHANGED <<lock, node, pred, puts, queue>> /\ Line' = Line
          /\ \A r \in PE \ {p} : pc'[r] = pc[r]
          /\ pc[p] = "wait" /\ pc'[p] = "cs" /\ node[p].locked = 0
        BY <1>2, <1>d DEF WaitUnlocked, Acquired, Line
    <2>2. Line # <<>> /\ Line[1] = p
        <3>1. PICK i \in 1 .. Len(Line) : Line[i] = p
            BY <2>1 DEF LineInv
        <3>2. i \notin 2 .. Len(Line)
            BY <2>1, <3>1 DEF BehindInv
        <3> QED
            BY <1>a, <3>1, <3>2
    <2>3. LineInv'
        BY <2>1 DEF LineInv
    <2>4. LastInv' /\ HeadInv' /\ NodeInv'
        BY <2>1, <2>2, <1>e DEF LastInv, HeadInv, NodeInv
    <2>5. \A i \in 2 .. Len(Line) : Line[i] # p
        BY <2>2, <1>a DEF LineInv
    <2>6. BehindInv'
        BY <2>1, <2>5, <1>b DEF BehindInv
    <2>7. PutsInv'
        BY <2>1, <2>2, <2>5, <1>a, <1>b, <1>e, <1>f DEF PutsInv
    <2> QED
        BY <1>t, <2>3, <2>4, <2>6, <2>7
<1>3. ASSUME NEW p \in PE, WaitNext(p) \/ Quiet(p) PROVE IInv'
    <2>1. /\ UNCHANGED <<lock, node, pred, puts, queue>> /\ Line' = Line
          /\ \A r \in PE \ {p} : pc'[r] = pc[r]
          /\ \/ pc[p] = "waitnext" /\ pc'[p] = "grant" /\ node[p].next # FREE
             \/ pc[p] = "quiet" /\ pc'[p] = "check" /\ \A m \in puts : m.from # p
        BY <1>3, <1>d DEF WaitNext, Quiet, Line, FREE
    <2>2. LineInv'
        BY <2>1 DEF LineInv
    <2>3. LastInv' /\ HeadInv' /\ NodeInv'
        BY <2>1, <1>e DEF LastInv, HeadInv, NodeInv
    <2>4. BehindInv'
        BY <2>1, <1>b DEF BehindInv
    <2>5. PutsInv'
        BY <2>1, <1>a, <1>b, <1>e, <1>f DEF PutsInv
    <2> QED
        BY <1>t, <2>2, <2>3, <2>4, <2>5
<1>4. ASSUME NEW p \in PE, CriticalPut(p) PROVE IInv'
    <2>1. /\ UNCHANGED <<pc, lock, node, pred, queue>> /\ Line' = Line
          /\ pc[p] = "cs" /\ puts' = puts \union {DataPut(p)}
        BY <1>4 DEF CriticalPut, Line
    <2>2. LineInv' /\ LastInv' /\ NodeInv'
        BY <2>1 DEF LineInv, LastInv, NodeInv
    <2>3. HeadInv'
        BY <2>1 DEF HeadInv
    <2>4. BehindInv'
        <3>1. \A r, t : LinkPut(r, t) \in puts' <=> LinkPut(r, t) \in puts
            BY <2>1, PutFacts
        <3> QED
            BY <2>1, <3>1 DEF BehindInv
    <2>5. PutsInv'
        BY <2>1, PutFacts DEF PutsInv
    <2> QED
        BY <1>t, <2>2, <2>3, <2>4, <2>5
(* Steps that change the caller's own node. *)
<1>5. ASSUME NEW p \in PE, ResetNext(p) PROVE IInv'
    <2>1. /\ UNCHANGED <<lock, pred, puts, queue>> /\ Line' = Line
          /\ \A r \in PE \ {p} : pc'[r] = pc[r] /\ node'[r] = node[r]
          /\ pc[p] = "reset" /\ pc'[p] = "swap" /\ node'[p].next = FREE
        BY <1>5, <1>d DEF ResetNext, Line, Word
    <2>2. \A i \in 1 .. Len(Line) : Line[i] # p
        BY <2>1 DEF LineInv
    <2>3. LineInv'
        BY <2>1 DEF LineInv
    <2>4. LastInv' /\ HeadInv' /\ NodeInv'
        BY <2>1, <2>2, <1>a, <1>e DEF LastInv, HeadInv, NodeInv
    <2>5. BehindInv'
        BY <2>1, <2>2, <1>a, <1>b DEF BehindInv
    <2>6. PutsInv'
        BY <2>1, <2>2, <1>a, <1>b, <1>e, <1>f DEF PutsInv
    <2> QED
        BY <1>t, <2>3, <2>4, <2>5, <2>6
<1>6. ASSUME NEW p \in PE, MarkLocked(p) PROVE IInv'
    <2>1. /\ UNCHANGED <<lock, pred, puts, queue>> /\ Line' = Line
          /\ \A r \in PE \ {p} : pc'[r] = pc[r] /\ node'[r] = node[r]
          /\ pc[p] = "mark" /\ pc'[p] = "link"
          /\ node'[p].next = node[p].next /\ node'[p].locked = 1
        BY <1>6, <1>d DEF MarkLocked, Line, Word
    <2>2. LineInv'
        BY <2>1 DEF LineInv
    <2>3. Line # <<>> => Line[1] # p
        BY <2>1 DEF HeadInv
    <2>4. LastInv' /\ HeadInv' /\ NodeInv'
        BY <2>1, <2>3, <1>e DEF LastInv, HeadInv, NodeInv
    <2>5. BehindInv'
        BY <2>1, <1>a, <1>b DEF BehindInv
    <2>6. PutsInv'
        BY <2>1, <2>3, <1>a, <1>b, <1>e, <1>f DEF PutsInv
    <2> QED
        BY <1>t, <2>2, <2>4, <2>5, <2>6
<1>7. ASSUME NEW p \in PE, LinkToPred(p) PROVE IInv'
    <2>1. /\ UNCHANGED <<lock, node, pred, queue>> /\ Line' = Line
          /\ \A r \in PE \ {p} : pc'[r] = pc[r]
          /\ pc[p] = "link" /\ pc'[p] = "wait"
          /\ puts' = puts \union {LinkPut(p, pred[p])}
        BY <1>7, <1>d DEF LinkToPred, Line
    <2>2. LineInv'
        BY <2>1 DEF LineInv
    <2>3. Line # <<>> => Line[1] # p
        BY <2>1 DEF HeadInv
    <2>4. PICK k \in 2 .. Len(Line) : Line[k] = p
        <3>1. PICK k \in 1 .. Len(Line) : Line[k] = p
            BY <2>1 DEF LineInv
        <3> QED
            BY <2>3, <3>1, <1>a
    <2>5. pred[p] = Line[k - 1]
        BY <2>4 DEF BehindInv
    <2>6. LastInv' /\ HeadInv' /\ NodeInv'
        BY <2>1, <2>3, <1>e DEF LastInv, HeadInv, NodeInv
    <2>7. BehindInv'
        <3>1. \A r, t : LinkPut(r, t) \in puts' <=> LinkPut(r, t) \in puts \/ (r = p /\ t = pred[p])
            BY <2>1, PutFacts
        <3>2. ASSUME NEW i \in 2 .. Len(Line), Line[i] # p
              PROVE  /\ pc'[Line[i]] = pc[Line[i]]
                     /\ \A t : LinkPut(Line[i], t) \in puts' <=> LinkPut(Line[i], t) \in puts
            BY <2>1, <3>1, <3>2, <1>b
        <3>3. ASSUME NEW i \in 2 .. Len(Line), Line[i] = p
              PROVE  LinkPut(p, Line[i - 1]) \in puts' /\ node[Line[i - 1]].next = FREE
            BY <2>1, <3>1, <3>3 DEF BehindInv
        <3> QED
            BY <2>1, <3>2, <3>3 DEF BehindInv
    <2>8. PutsInv'
        <3>1. LinkPut(p, pred[p]) \in puts' /\ LinkPut(p, pred[p]).field = "next"
            BY <2>1, PutFacts
        <3> QED
            BY <2>1, <2>3, <2>4, <2>5, <3>1, <1>a, <1>b, <1>e, <1>f DEF PutsInv
    <2> QED
        BY <1>t, <2>2, <2>6, <2>7, <2>8
(* The swap puts the caller at the end of the line. *)
<1>8. ASSUME NEW p \in PE, SwapFree(p) \/ SwapTaken(p) PROVE IInv'
    <2>1. /\ pc[p] = "swap" /\ UNCHANGED <<node, puts>>
          /\ lock' = [lock EXCEPT ![TheOwner] = TakenBy(p)]
          /\ queue' = [queue EXCEPT ![TheOwner] = Append(Line, p)]
          /\ \A r \in PE \ {p} : pc'[r] = pc[r] /\ pred'[r] = pred[r]
        BY <1>8, <1>a, AlignedFacts
        DEF SwapFree, SwapTaken, SwapInto, Acquired, Line, TypeOK
    <2>2. Line' = Append(Line, p) /\ lock'[TheOwner] = TakenBy(p)
        BY <2>1, <1>a, AlignedFacts DEF TypeOK, Line
    <2>3. /\ Line' # <<>> /\ Len(Line') = Len(Line) + 1
          /\ \A i \in 1 .. Len(Line) : Line'[i] = Line[i]
          /\ Line'[Len(Line) + 1] = p
        BY <2>2, <1>a, AppendFacts
    <2>4. \A i \in 1 .. Len(Line) : Line[i] # p
        BY <2>1 DEF LineInv
    <2>5. node[p].next = FREE
        BY <2>1 DEF NodeInv
    <2>6. IF Line = <<>> THEN pc'[p] = "cs"
                         ELSE pc'[p] = "mark" /\ pred'[p] = Line[Len(Line)]
        <3>1. CASE Line = <<>>
            <4>1. AsReset(lock[TheOwner]).locked = 0
                BY <3>1 DEF LastInv, AsReset, ResetWord, FreeWord, Word, RESET, FREE
            <4> QED
                BY <1>8, <1>d, <3>1, <4>1, AlignedFacts DEF SwapFree, SwapTaken, Acquired
        <3>2. CASE Line # <<>>
            <4>1. /\ AsReset(lock[TheOwner]).locked = 1
                  /\ lock[TheOwner].next = Line[Len(Line)]
                BY <3>2, <1>e, AlignedFacts
                DEF LastInv, AsReset, TakenBy, ResetWord, FreeWord, Word, RESET, FREE
            <4> QED
                BY <1>8, <1>a, <1>d, <3>2, <4>1, AlignedFacts DEF SwapFree, SwapTaken, TypeOK
        <3> QED
            BY <3>1, <3>2
    <2>7. LineInv'
        <3>1. \A i \in 1 .. Len(Line') : i \in 1 .. Len(Line) \/ i = Len(Line) + 1
            BY <2>3, <1>a
        <3>2. \A i, j \in 1 .. Len(Line') : Line'[i] = Line'[j] => i = j
            BY <2>3, <2>4, <3>1 DEF LineInv
        <3>3. pc'[p] \in Queueing \union Holding
            BY <2>6
        <3>4. Len(Line) + 1 \in 1 .. Len(Line')
            BY <2>3, <1>a
        <3>5. ASSUME NEW r \in PE \ {p}
              PROVE  pc'[r] \in Queueing \union Holding <=> \E i \in 1 .. Len(Line') : Line'[i] = r
            <4>1. \A i \in 1 .. Len(Line) : i \in 1 .. Len(Line')
                BY <2>3, <1>a
            <4> QED
                BY <2>1, <2>3, <3>1, <4>1 DEF LineInv
        <3> QED
            BY <2>3, <3>2, <3>3, <3>4, <3>5 DEF LineInv
    <2>8. LastInv'
        BY <2>1, <2>2, <2>3, <2>5 DEF LastInv
    <2>9. HeadInv'
        <3>1. CASE Line = <<>>
            BY <2>3, <2>6, <3>1, <1>a DEF HeadInv
        <3>2. CASE Line # <<>>
            BY <2>1, <2>3, <2>4, <3>2, <1>a, <1>e DEF HeadInv
        <3> QED
            BY <3>1, <3>2
    <2>10. PutsInv'
        <3>1. ASSUME NEW m \in puts PROVE m.from \in PE
            BY <1>f
        <3>2. \A i \in 1 .. Len(Line) : Line'[i] = Line[i] /\ pc'[Line[i]] = pc[Line[i]]
            BY <2>1, <2>3, <2>4, <1>b
        <3>3. \A i \in 2 .. Len(Line) : i \in 2 .. Len(Line') /\ i \in 1 .. Len(Line) /\ i - 1 \in 1 .. Len(Line)
            BY <2>3, <1>a
        <3>4. Line # <<>> => 1 \in 1 .. Len(Line)
            BY <1>a, <1>e
        <3> QED
            BY <2>1, <2>3, <3>1, <3>2, <3>3, <3>4 DEF PutsInv
    <2>11. BehindInv'
        <3>1. \A i \in 2 .. Len(Line) : /\ i \in 1 .. Len(Line) /\ i - 1 \in 1 .. Len(Line)
            BY <1>a
        <3>2. \A i \in 1 .. Len(Line) : /\ Line'[i] = Line[i] /\ pc'[Line[i]] = pc[Line[i]]
                                      /\ pred'[Line[i]] = pred[Line[i]]
            BY <2>1, <2>3, <2>4, <1>b
        <3>3. CASE Line = <<>>
            BY <2>3, <3>3, <1>a DEF BehindInv
        <3>4. CASE Line # <<>>
            <4>1. node[Line[Len(Line)]].next = FREE
                BY <3>4 DEF LastInv
            <4>2. \A i \in 2 .. Len(Line') : i \in 2 .. Len(Line) \/ (i = Len(Line) + 1 /\ i - 1 = Len(Line))
                BY <2>3, <1>a
            <4>3. Len(Line) \in 1 .. Len(Line)
                BY <1>a, <1>e, <3>4
            <4>4. LET i == Len(Line) + 1 IN
                     /\ Line'[i] = p /\ Line'[i - 1] = Line[Len(Line)]
                     /\ pc'[p] = "mark" /\ pred'[p] = Line[Len(Line)]
                BY <2>3, <2>6, <3>2, <3>4, <4>3, <1>a
            <4>5. \A i \in 2 .. Len(Line) : Line'[i] = Line[i] /\ Line'[i - 1] = Line[i - 1]
                BY <3>1, <3>2
            <4>6. ASSUME NEW i \in 2 .. Len(Line), NEW x, x = Line[i], NEW b, b = Line[i - 1]
                  PROVE  /\ pc'[x] \in Queueing /\ pred'[x] = b
                         /\ pc'[x] # "mark" => node'[x].locked = 1
                         /\ IF pc'[x] = "wait" /\ LinkPut(x, b) \notin puts'
                               THEN node'[b].next = x ELSE node'[b].next = FREE
                BY <2>1, <3>1, <3>2, <4>6 DEF BehindInv
            <4> QED
                BY <2>1, <4>1, <4>2, <4>4, <4>5, <4>6, <1>a DEF BehindInv
        <3> QED
            BY <3>3, <3>4
    <2>12. NodeInv'
        BY <2>1, <2>3, <2>5, <2>6, <1>a DEF NodeInv
    <2> QED
        BY <1>t, <2>7, <2>8, <2>9, <2>10, <2>11, <2>12
(* The compare-and-swap succeeds exactly when nobody queued behind.        *)
<1>9. ASSUME NEW p \in PE, CswapLock(p) PROVE IInv'
    <2>1. Line # <<>> /\ Line[1] = p /\ pc[p] = "cswap"
        BY <1>9, <1>c DEF CswapLock
    <2>2. /\ UNCHANGED <<node, pred, puts>>
          /\ \A r \in PE \ {p} : pc'[r] = pc[r]
        BY <1>9, <1>d DEF CswapLock
    <2>3. lock[TheOwner] = TakenBy(Line[Len(Line)])
        BY <2>1 DEF LastInv
    <2>4. TakenBy(p).next = p /\ TakenBy(Line[Len(Line)]).next = Line[Len(Line)]
        BY <1>e, <2>1, AlignedFacts DEF TakenBy, Word
    <2>5. CASE Len(Line) = 1
        <3>1. Line' = <<>> /\ lock'[TheOwner] = ResetWord /\ pc'[p] = "idle"
            BY <1>9, <1>a, <1>d, <2>1, <2>3, <2>4, <2>5, AlignedFacts
            DEF CswapLock, Line, TypeOK
        <3>2. \A r \in PE \ {p} : pc[r] \notin Queueing \union Holding
            <4> SUFFICES ASSUME NEW r \in PE \ {p}, pc[r] \in Queueing \union Holding
                         PROVE  FALSE
                OBVIOUS
            <4>1. PICK i \in 1 .. Len(Line) : Line[i] = r
                BY DEF LineInv
            <4> QED
                BY <2>1, <2>5, <4>1
        <3>3. LineInv'
            BY <2>2, <3>1, <3>2 DEF LineInv
        <3>4. LastInv' /\ HeadInv' /\ BehindInv'
            BY <3>1 DEF LastInv, HeadInv, BehindInv
        <3>5. puts = {}
            BY <1>a, <1>f, <2>1, <2>5, <3>2 DEF PutsInv, TypeOK, Puts
        <3>6. PutsInv' /\ NodeInv'
            BY <2>2, <3>1, <3>2, <3>5 DEF PutsInv, NodeInv
        <3> QED
            BY <1>t, <3>3, <3>4, <3>6
    <2>6. CASE Len(Line) # 1
        <3>1. Len(Line) >= 2 /\ Line[Len(Line)] # p
            <4>1. Len(Line) >= 2
                BY <1>g, <2>1, <2>6
            <4>2. Len(Line) \in 1 .. Len(Line) /\ 1 \in 1 .. Len(Line)
                BY <4>1, <1>n
            <4> QED
                BY <2>1, <2>6, <4>1, <4>2 DEF LineInv
        <3>2. UNCHANGED <<lock, queue>> /\ Line' = Line /\ pc'[p] = "waitnext"
            BY <1>9, <1>d, <2>3, <2>4, <3>1, AlignedFacts DEF CswapLock, Line
        <3>3. LineInv'
            BY <2>1, <2>2, <3>2 DEF LineInv
        <3>4. LastInv' /\ HeadInv' /\ NodeInv'
            BY <1>e, <2>1, <2>2, <3>1, <3>2 DEF LastInv, HeadInv, NodeInv
        <3>5. BehindInv'
            BY <1>b, <2>1, <2>2, <3>2 DEF BehindInv
        <3>6. PutsInv'
            BY <1>a, <1>b, <1>e, <1>f, <2>1, <2>2, <3>2 DEF PutsInv
        <3> QED
            BY <1>t, <3>3, <3>4, <3>5, <3>6
    <2> QED
        BY <2>5, <2>6
(* The grant makes the second of the line the first. *)
<1>10. ASSUME NEW p \in PE, GrantNext(p) PROVE IInv'
    <2>1. /\ Line # <<>> /\ Line[1] = p /\ pc[p] = "grant" /\ pc'[p] = "idle"
          /\ UNCHANGED <<lock, node, pred>>
          /\ \A r \in PE \ {p} : pc'[r] = pc[r]
        BY <1>10, <1>c, <1>d DEF GrantNext
    <2>2. node[p].next # FREE
        BY <2>1 DEF NodeInv
    <2>3. Len(Line) >= 2
        <3>1. Len(Line) # 1
            BY <2>1, <2>2 DEF LastInv
        <3> QED
            BY <1>g, <2>1, <3>1
    <2> DEFINE s == Line[2]
    <2>4. s \in PE /\ s # p
        BY <1>a, <1>b, <2>1, <2>3 DEF LineInv
    <2>5. /\ pc[s] = "wait" /\ node[s].locked = 1 /\ node[p].next = s
          /\ LinkPut(s, p) \notin puts
        <3>1. 2 \in 2 .. Len(Line) /\ Line[2 - 1] = p
            BY <1>a, <2>1, <2>3
        <3>2. IF pc[s] = "wait" /\ LinkPut(s, p) \notin puts
                THEN node[p].next = s ELSE node[p].next = FREE
            BY <3>1 DEF BehindInv
        <3> QED
            BY <2>2, <3>1, <3>2 DEF BehindInv
    <2>6. puts' = puts \union {GrantPut(p, s)}
        BY <1>10, <2>5 DEF GrantNext
    <2>7. Line' = Tail(Line)
        BY <1>10, <1>a, AlignedFacts DEF GrantNext, Line, TypeOK
    <2>8. /\ Len(Line') = Len(Line) - 1 /\ Line' # <<>> /\ Line'[1] = s
          /\ \A i \in 1 .. Len(Line) - 1 : Line'[i] = Line[i + 1]
        <3>1. /\ Len(Line') = Len(Line) - 1
              /\ \A i \in 1 .. Len(Line) - 1 : Line'[i] = Line[i + 1]
            BY <1>a, <2>1, <2>7, TailFacts
        <3>2. 1 \in 1 .. Len(Line) - 1
            BY <1>n, <2>3
        <3>3. Line' # <<>>
            BY <1>n, <2>3, <3>1
        <3> QED
            BY <3>1, <3>2, <3>3
    <2>9. \A i \in 2 .. Len(Line) : Line[i] # p /\ Line[i] \in PE /\ i \in 1 .. Len(Line)
        BY <1>a, <1>b, <2>1 DEF LineInv
    <2>10. LineInv'
        <3>1. ASSUME NEW i \in 1 .. Len(Line'), NEW j \in 1 .. Len(Line'), Line'[i] = Line'[j]
              PROVE  i = j
            <4>1. /\ i + 1 \in 1 .. Len(Line) /\ j + 1 \in 1 .. Len(Line)
                  /\ Line[i + 1] = Line[j + 1]
                BY <1>a, <2>8, <3>1
            <4>2. i + 1 = j + 1
                BY <4>1 DEF LineInv
            <4> QED
                BY <4>2
        <3>2. ASSUME NEW r \in PE \ {p}
              PROVE  (\E i \in 1 .. Len(Line) : Line[i] = r) <=> \E i \in 1 .. Len(Line') : Line'[i] = r
            <4>1. ASSUME NEW i \in 1 .. Len(Line), Line[i] = r
                  PROVE  i - 1 \in 1 .. Len(Line') /\ Line'[i - 1] = r
                BY <1>a, <2>1, <2>8, <4>1
            <4>2. ASSUME NEW i \in 1 .. Len(Line'), Line'[i] = r
                  PROVE  i + 1 \in 1 .. Len(Line) /\ Line[i + 1] = r
                BY <1>a, <2>8, <4>2
            <4> QED
                BY <4>1, <4>2
        <3>3. ~ \E i \in 1 .. Len(Line') : Line'[i] = p
            <4> SUFFICES ASSUME NEW i \in 1 .. Len(Line'), Line'[i] = p
                         PROVE  FALSE
                OBVIOUS
            <4>1. i + 1 \in 2 .. Len(Line) /\ Line[i + 1] = p
                BY <1>a, <2>8
            <4> QED
                BY <2>9, <4>1
        <3> QED
            BY <2>1, <3>1, <3>2, <3>3 DEF LineInv
    <2>11. LastInv'
        <3>1. Line'[Len(Line')] = Line[Len(Line)]
            BY <1>a, <2>3, <2>8
        <3> QED
            BY <2>1, <2>8, <3>1 DEF LastInv
    <2>12. HeadInv'
        <3>1. GrantPut(p, s) \in puts'
            BY <2>6
        <3> QED
            BY <2>1, <2>4, <2>5, <2>8, <3>1 DEF HeadInv
    <2>13. BehindInv'
        <3>1. \A r, t : LinkPut(r, t) \in puts' <=> LinkPut(r, t) \in puts
            BY <2>6, PutFacts
        <3>2. ASSUME NEW i \in 2 .. Len(Line')
              PROVE  /\ i + 1 \in 2 .. Len(Line) /\ (i + 1) - 1 = i
                     /\ Line'[i] = Line[i + 1] /\ Line'[i - 1] = Line[i]
            BY <1>a, <2>8
        <3>3. ASSUME NEW k \in 2 .. Len(Line), NEW x, x = Line[k], NEW b, b = Line[k - 1]
              PROVE  /\ pc'[x] \in Queueing /\ pred'[x] = b
                     /\ pc'[x] # "mark" => node'[x].locked = 1
                     /\ IF pc'[x] = "wait" /\ LinkPut(x, b) \notin puts'
                           THEN node'[b].next = x ELSE node'[b].next = FREE
            BY <2>1, <2>9, <3>1, <3>3 DEF BehindInv
        <3> QED
            BY <3>2, <3>3 DEF BehindInv
    <2>14. PutsInv'
        <3>1. \A m \in puts : m.field # "locked"
            BY <2>1 DEF PutsInv
        <3>2. ASSUME NEW m \in puts, m.field = "next"
              PROVE  \E i \in 2 .. Len(Line') : /\ m = LinkPut(Line'[i], Line'[i - 1])
                                               /\ pc'[Line'[i]] = "wait"
            <4>1. PICK k \in 2 .. Len(Line) : m = LinkPut(Line[k], Line[k - 1]) /\ pc[Line[k]] = "wait"
                BY <3>2 DEF PutsInv
            <4>2. k # 2
                BY <2>1, <2>5, <4>1
            <4>3. /\ k - 1 \in 2 .. Len(Line') /\ Line'[k - 1] = Line[k]
                  /\ Line'[(k - 1) - 1] = Line[k - 1]
                BY <1>a, <2>8, <4>1, <4>2
            <4>4. pc'[Line[k]] = "wait"
                BY <2>1, <2>9, <4>1
            <4> QED
                BY <4>1, <4>3, <4>4
        <3>3. pc'[s] = "wait" /\ node'[s].locked = 1
            BY <2>1, <2>4, <2>5
        <3>4. GrantPut(p, s).field = "locked" /\ GrantPut(p, s).to = s
            BY PutFacts
        <3>5. ASSUME NEW m \in puts, m.field = "data" PROVE pc'[m.from] \in {"cs", "quiet"}
            BY <1>f, <2>1, <3>5 DEF PutsInv
        <3> QED
            BY <2>6, <2>8, <3>1, <3>2, <3>3, <3>4, <3>5 DEF PutsInv
    <2>15. NodeInv'
        <3>1. ASSUME NEW r \in PE, pc'[r] = "waitnext" PROVE FALSE
            BY <2>1, <1>c, <3>1
        <3> QED
            BY <2>1, <3>1 DEF NodeInv
    <2> QED
        BY <1>t, <2>10, <2>11, <2>12, <2>13, <2>14, <2>15
(* A put reaches its PE. *)
<1>11. ASSUME NEW m \in puts, Deliver(m) PROVE IInv'
    <2>1. /\ UNCHANGED <<pc, lock, pred, queue>> /\ Line' = Line
          /\ puts' = puts \ {m} /\ m.to \in PE
        BY <1>11 DEF Deliver, Line
    <2>2. LineInv'
        BY <2>1 DEF LineInv
    <2>3. CASE m.field = "data"
        <3>1. UNCHANGED node
            BY <1>11, <2>3 DEF Deliver
        <3>2. \A r, t : /\ LinkPut(r, t) \in puts' <=> LinkPut(r, t) \in puts
                        /\ GrantPut(r, t) \in puts' <=> GrantPut(r, t) \in puts
            BY <2>1, <2>3, PutFacts
        <3>3. LastInv' /\ HeadInv' /\ NodeInv'
            BY <2>1, <3>1, <3>2 DEF LastInv, HeadInv, NodeInv
        <3>4. BehindInv'
            <4>1. UNCHANGED <<pc, pred, node>> /\ Line' = Line
                BY <2>1, <3>1
            <4>2. \A i \in 2 .. Len(Line) : LinkPut(Line[i], Line[i - 1]) \in puts'
                                           <=> LinkPut(Line[i], Line[i - 1]) \in puts
                BY <3>2
            <4> QED
                BY <4>1, <4>2 DEF BehindInv
        <3>5. PutsInv'
            BY <2>1, <3>1 DEF PutsInv
        <3> QED
            BY <1>t, <2>2, <3>3, <3>4, <3>5
    <2>4. CASE m.field = "next"
        <3>1. PICK k \in 2 .. Len(Line) : m = LinkPut(Line[k], Line[k - 1]) /\ pc[Line[k]] = "wait"
            BY <2>4 DEF PutsInv
        <3> DEFINE x == Line[k]  b == Line[k - 1]
        <3>2. k \in 1 .. Len(Line) /\ k - 1 \in 1 .. Len(Line)
            BY <1>n
        <3>3. x \in PE /\ b \in PE
            BY <1>b, <3>2
        <3>4. m.to = b /\ m.val = x
            BY <3>1, <3>3, PutFacts, AlignedFacts
        <3>5. /\ node'[b].next = x /\ node'[b].locked = node[b].locked
              /\ \A r \in PE \ {b} : node'[r] = node[r]
            BY <1>11, <1>d, <2>4, <3>3, <3>4 DEF Deliver, Word
        <3>6. pc[b] # "swap"
            <4>1. pc[b] \in Queueing \union Holding
                BY <3>2, <3>3 DEF LineInv
            <4> QED
                BY <4>1
        <3>7. ASSUME NEW i \in 2 .. Len(Line)
              PROVE  /\ i \in 1 .. Len(Line) /\ i - 1 \in 1 .. Len(Line)
                     /\ Line[i] \in PE /\ Line[i - 1] \in PE
                     /\ i # k => Line[i] # x /\ Line[i - 1] # b
            <4>1. i \in 1 .. Len(Line) /\ i - 1 \in 1 .. Len(Line)
                BY <1>n
            <4>2. \A j, l \in 1 .. Len(Line) : Line[j] = Line[l] => j = l
                BY DEF LineInv
            <4>3. i - 1 = k - 1 => i = k
                BY <1>n
            <4>4. Line[i] = x => i = k
                BY <3>2, <4>1, <4>2
            <4>5. Line[i - 1] = b => i = k
                BY <3>2, <4>1, <4>2, <4>3
            <4> QED
                BY <1>b, <4>1, <4>4, <4>5
        <3>8. \A r \in PE : node'[r].locked = node[r].locked
            BY <3>3, <3>5
        <3>9. \A r, t : GrantPut(r, t) \in puts' <=> GrantPut(r, t) \in puts
            BY <2>1, <2>4, PutFacts
        <3>10. LastInv'
            <4>1. Line[Len(Line)] # b
                <5>1. Len(Line) \in 1 .. Len(Line) /\ Len(Line) # k - 1
                    BY <1>n, <3>2
                <5> QED
                    BY <3>2, <5>1 DEF LineInv
            <4> QED
                BY <1>e, <2>1, <3>5, <4>1 DEF LastInv
        <3>11. HeadInv'
            BY <1>e, <2>1, <3>8, <3>9 DEF HeadInv
        <3>12. NodeInv'
            <4>1. x # FREE
                BY <3>3, AlignedFacts DEF FREE
            <4> QED
                BY <2>1, <3>3, <3>5, <3>6, <4>1 DEF NodeInv
        <3>13. BehindInv'
            <4>1. ASSUME NEW i \in 2 .. Len(Line), i # k
                  PROVE  /\ node'[Line[i - 1]] = node[Line[i - 1]]
                         /\ LinkPut(Line[i], Line[i - 1]) \in puts' <=> LinkPut(Line[i], Line[i - 1]) \in puts
                <5>1. Line[i] # x /\ Line[i - 1] # b /\ Line[i - 1] \in PE
                    BY <3>7, <4>1
                <5>2. LinkPut(Line[i], Line[i - 1]).from # m.from
                    BY <3>1, <5>1, PutFacts
                <5> QED
                    BY <2>1, <3>5, <5>1, <5>2
            <4>2. LinkPut(x, b) \notin puts'
                BY <2>1, <3>1
            <4> QED
                BY <2>1, <3>1, <3>5, <3>7, <3>8, <4>1, <4>2 DEF BehindInv
        <3>14. PutsInv'
            BY <1>e, <2>1, <3>8 DEF PutsInv
        <3> QED
            BY <1>t, <2>2, <3>10, <3>11, <3>12, <3>13, <3>14
    <2>5. CASE m.field = "locked"
        <3>1. Line # <<>> /\ m.to = Line[1] /\ pc[Line[1]] = "wait" /\ Line[1] \in PE
            BY <1>e, <2>5 DEF PutsInv
        <3>2. m.val = 0
            BY <1>a, <2>5 DEF TypeOK, Puts
        <3>3. /\ node'[Line[1]].locked = 0 /\ node'[Line[1]].next = node[Line[1]].next
              /\ \A r \in PE \ {Line[1]} : node'[r] = node[r]
            BY <1>11, <1>d, <2>5, <3>1, <3>2 DEF Deliver, Word
        <3>4. \A r \in PE : node'[r].next = node[r].next
            BY <3>3
        <3>5. \A r, t : LinkPut(r, t) \in puts' <=> LinkPut(r, t) \in puts
            BY <2>1, <2>5, PutFacts
        <3>6. \A i \in 2 .. Len(Line) : /\ Line[i] \in PE /\ Line[i - 1] \in PE /\ Line[i] # Line[1]
            <4>1. \A i \in 2 .. Len(Line) : i \in 1 .. Len(Line) /\ i - 1 \in 1 .. Len(Line) /\ i # 1
                BY <1>n
            <4>2. 1 \in 1 .. Len(Line)
                BY <1>n, <1>e, <3>1
            <4> QED
                BY <1>b, <4>1, <4>2 DEF LineInv
        <3>7. LastInv' /\ NodeInv'
            BY <1>e, <2>1, <3>4 DEF LastInv, NodeInv
        <3>8. HeadInv'
            BY <2>1, <3>1, <3>3 DEF HeadInv
        <3>9. BehindInv'
            BY <2>1, <3>3, <3>4, <3>5, <3>6 DEF BehindInv
        <3>10. \A n \in puts' : n.field # "locked"
            BY <2>1, <2>5 DEF PutsInv
        <3>11. PutsInv'
            BY <2>1, <3>10 DEF PutsInv
        <3> QED
            BY <1>t, <2>2, <3>7, <3>8, <3>9, <3>11
    <2> QED
        BY <1>11, <2>3, <2>4, <2>5 DEF Deliver
<1>12. CASE UNCHANGED vars
    <2>1. UNCHANGED <<pc, lock, node, pred, puts, queue>> /\ Line' = Line
        BY <1>12 DEF vars, Line
    <2>2. LineInv' /\ LastInv' /\ HeadInv' /\ BehindInv'
        BY <2>1 DEF LineInv, LastInv, HeadInv, BehindInv
    <2>3. PutsInv' /\ NodeInv'
        BY <2>1 DEF PutsInv, NodeInv
    <2> QED
        BY <1>t, <2>2, <2>3
<1> QED
    BY <1>1, <1>2, <1>3, <1>4, <1>5, <1>6, <1>7, <1>8, <1>9, <1>10, <1>11, <1>12
    DEF Next, Progress, SetStep, TestStep, ClearStep

(* The line, the word, the nodes and the puts in flight always agree.      *)
THEOREM Invariance == AlignedJob => (Spec => []IInv)
<1> SUFFICES ASSUME AlignedJob
             PROVE  Spec => []IInv
    OBVIOUS
<1>1. Init => IInv
    BY InitInv
<1>2. IInv /\ [Next]_vars => IInv'
    BY NextInv
<1> QED
    BY <1>1, <1>2, PTL DEF Spec

(* Every variable keeps its type: 16-bit halves, and puts of three kinds.  *)
THEOREM TypeCorrect == AlignedJob => (Spec => []TypeOK)
<1>1. IInv => TypeOK
    BY DEF IInv
<1> QED
    BY <1>1, Invariance, PTL

(* No two PEs hold the lock at once.                                       *)
THEOREM Exclusion == AlignedJob => (Spec => []MutualExclusion)
<1> SUFFICES ASSUME AlignedJob
             PROVE  Spec => []MutualExclusion
    OBVIOUS
<1>1. IInv => MutualExclusion
    BY HolderFirst DEF IInv, MutualExclusion
<1> QED
    BY <1>1, Invariance, PTL

(* What the last holder wrote has arrived when the next one holds.         *)
THEOREM WritesVisible == AlignedJob => (Spec => []CriticalWritesVisible)
<1> SUFFICES ASSUME AlignedJob
             PROVE  Spec => []CriticalWritesVisible
    OBVIOUS
<1>1. ASSUME IInv, NEW p \in PE, pc[p] \in Holding, NEW m \in puts, m.field = "data"
      PROVE  m.from = p
    <2>1. m.from \in PE
        BY <1>1 DEF IInv, TypeOK, Puts
    <2>2. pc[m.from] \in Holding
        BY <1>1 DEF IInv, PutsInv, Holding, Releasing
    <2> QED
        BY <1>1, <2>1, <2>2, HolderFirst DEF IInv
<1>2. IInv => CriticalWritesVisible
    BY <1>1 DEF CriticalWritesVisible
<1> QED
    BY <1>2, Invariance, PTL

(* clear_lock only waits for a successor that exists.                      *)
THEOREM NoVainWait == AlignedJob => (Spec => []SuccessorExists)
<1> SUFFICES ASSUME AlignedJob
             PROVE  Spec => []SuccessorExists
    OBVIOUS
<1>1. IInv => SuccessorExists
    BY AlignedFacts DEF IInv, NodeInv, SuccessorExists, Line
<1> QED
    BY <1>1, Invariance, PTL

(* The PEs that FifoLock sees inside. *)
Inside == {p \in PE : pc[p] \in Holding}

(* Every step of the queue lock is a claim, an entry, a release or a       *)
(* stutter of the abstract one.                                            *)
LEMMA StepFifo == AlignedJob /\ IInv /\ [Next]_vars => [Fifo!Next]_(Fifo!vars)
<1> SUFFICES ASSUME AlignedJob, IInv, [Next]_vars
             PROVE  \/ Line' = Line /\ Inside' = Inside
                    \/ \E p \in PE : \/ Fifo!Claim(p) \/ Fifo!ClaimFree(p)
                                      \/ Fifo!Enter(p) \/ Fifo!Release(p)
    BY DEF Fifo!Next, Fifo!vars, Inside
<1> USE DEF IInv, Goto
<1>a. TypeOK /\ Line \in Seq(PE) /\ Len(Line) \in Nat /\ pc \in [PE -> PCs]
    BY AlignedFacts DEF TypeOK, Line
<1>b. \A p \in PE : p \in Inside <=> pc[p] \in Holding
    BY DEF Inside
<1>c. \A p \in PE : p \in Inside => Line # <<>> /\ Line[1] = p
    BY <1>b, HolderFirst
<1>1. ASSUME NEW p \in PE, NEW x,
             pc' = [pc EXCEPT ![p] = x], x \in Holding <=> pc[p] \in Holding, UNCHANGED queue
      PROVE  Line' = Line /\ Inside' = Inside
    BY <1>1, <1>a DEF Line, Inside
<1>2. ASSUME NEW p \in PE, \/ CallSet(p) \/ CallTest(p) \/ GetFree(p) \/ GetTaken(p)
                           \/ ResetNext(p) \/ MarkLocked(p) \/ LinkToPred(p)
                           \/ CallClear(p) \/ Quiet(p) \/ CheckNext(p) \/ WaitNext(p)
      PROVE  Line' = Line /\ Inside' = Inside
    BY <1>1, <1>2 DEF CallSet, CallTest, GetFree, GetTaken, ResetNext, MarkLocked,
        LinkToPred, CallClear, Quiet, CheckNext, WaitNext, Holding, Releasing
<1>3. ASSUME UNCHANGED <<pc, queue>> PROVE Line' = Line /\ Inside' = Inside
    BY <1>3 DEF Line, Inside
<1>4. ASSUME NEW p \in PE, SwapFree(p) \/ SwapTaken(p)
      PROVE  Fifo!Claim(p) \/ Fifo!ClaimFree(p)
    <2>1. pc[p] = "swap" /\ Line' = Append(Line, p)
        BY <1>4, <1>a, AlignedFacts DEF SwapFree, SwapTaken, SwapInto, Acquired, Line, TypeOK
    <2>2. CASE SwapTaken(p)
        <3>1. Inside' = Inside
            BY <1>a, <2>2 DEF SwapTaken, Inside, Holding, Releasing
        <3>2. p \notin Fifo!Waiting
            <4>1. DOMAIN Line = 1 .. Len(Line)
                BY <1>a
            <4>2. \A i \in 1 .. Len(Line) : Line[i] # p
                BY <2>1 DEF LineInv, Queueing, Holding, Releasing
            <4> QED
                BY <4>1, <4>2 DEF Fifo!Waiting
        <3> QED
            BY <2>1, <3>1, <3>2 DEF Fifo!Claim, Inside
    <2>3. CASE SwapFree(p)
        <3>1. Line = <<>>
            <4>1. ASSUME Line # <<>> PROVE FALSE
                BY <2>3, <4>1, AlignedFacts
                DEF SwapFree, LastInv, AsReset, TakenBy, FreeWord, Word, FREE
            <4> QED
                BY <4>1
        <3>2. Inside' = {p}
            BY <1>a, <1>c, <2>3, <3>1 DEF SwapFree, Acquired, Inside, Holding
        <3>3. Line' = <<p>>
            BY <2>1, <3>1
        <3> QED
            BY <3>1, <3>2, <3>3 DEF Fifo!ClaimFree, Inside
    <2> QED
        BY <1>4, <2>2, <2>3
<1>5. ASSUME NEW p \in PE, WaitUnlocked(p) PROVE Fifo!Enter(p)
    <2>1. pc[p] = "wait" /\ node[p].locked = 0 /\ Line' = Line
        BY <1>5 DEF WaitUnlocked, Acquired, Line
    <2>2. Line # <<>> /\ Line[1] = p
        <3>1. PICK i \in 1 .. Len(Line) : Line[i] = p
            BY <2>1 DEF LineInv, Queueing
        <3>2. i \notin 2 .. Len(Line)
            BY <2>1, <3>1 DEF BehindInv
        <3> QED
            BY <1>a, <3>1, <3>2
    <2>3. Inside = {}
        BY <1>b, <1>c, <2>1, <2>2 DEF Inside, Holding, Releasing
    <2>4. Inside' = {p}
        BY <1>5, <1>a, <2>3 DEF WaitUnlocked, Acquired, Inside, Holding
    <2>5. Head(Line) = p
        BY <1>a, <2>2
    <2> QED
        BY <2>1, <2>2, <2>3, <2>4, <2>5 DEF Fifo!Enter, Inside
<1>6. ASSUME NEW p \in PE, pc[p] \in Holding, pc' = [pc EXCEPT ![p] = "idle"],
             queue' = [queue EXCEPT ![TheOwner] = Tail(@)]
      PROVE  Fifo!Release(p)
    <2>1. Line' = Tail(Line)
        BY <1>6, <1>a, AlignedFacts DEF Line, TypeOK
    <2>2. p \in Inside /\ \A r \in Inside : r = p
        BY <1>6, <1>b, <1>c DEF Inside
    <2>3. Inside' = {}
        BY <1>6, <1>a, <2>2 DEF Inside, Holding, Releasing
    <2> QED
        BY <2>1, <2>2, <2>3 DEF Fifo!Release, Inside
<1>7. ASSUME NEW p \in PE, GrantNext(p) PROVE Fifo!Release(p)
    BY <1>6, <1>7, AlignedFacts DEF GrantNext, Holding, Releasing
<1>8. ASSUME NEW p \in PE, CswapLock(p)
      PROVE  Fifo!Release(p) \/ (Line' = Line /\ Inside' = Inside)
    <2>1. pc[p] = "cswap" /\ pc[p] \in Holding
        BY <1>8 DEF CswapLock, Holding, Releasing
    <2>2. CASE lock[TheOwner] = TakenBy(p)
        <3>1. lock[TheOwner].next = p
            BY <2>2, AlignedFacts DEF TakenBy, Word
        <3> QED
            BY <1>6, <1>8, <2>1, <2>2, <3>1, AlignedFacts DEF CswapLock
    <2>3. CASE lock[TheOwner] # TakenBy(p)
        <3>1. Line # <<>>
            BY <2>1, HolderFirst
        <3>2. lock[TheOwner].next # p
            <4>1. Line[Len(Line)] \in PE
                BY <1>a, <3>1
            <4> QED
                BY <2>3, <3>1, <4>1, AlignedFacts DEF LastInv, TakenBy, Word
        <3>3. pc' = [pc EXCEPT ![p] = "waitnext"] /\ UNCHANGED queue
            BY <1>8, <2>3, <3>2, AlignedFacts DEF CswapLock
        <3> QED
            BY <1>1, <2>1, <3>3 DEF Holding, Releasing
    <2> QED
        BY <2>2, <2>3
<1>9. ASSUME UNCHANGED vars \/ (\E p \in PE : CriticalPut(p)) \/ \E m \in puts : Deliver(m)
      PROVE  Line' = Line /\ Inside' = Inside
    BY <1>3, <1>9 DEF vars, CriticalPut, Deliver
<1> QED
    BY <1>2, <1>4, <1>5, <1>7, <1>8, <1>9
    DEF Next, Progress, SetStep, TestStep, ClearStep

(* The lock implements FifoLock: PEs enter in the order of their swaps.    *)
THEOREM ImplementsFifo == AlignedJob => (Spec => FifoSpec)
<1> SUFFICES ASSUME AlignedJob
             PROVE  Spec => FifoSpec
    OBVIOUS
<1>1. Init => Fifo!Init
    BY AlignedFacts DEF Init, Fifo!Init, Line, Holding, Releasing
<1>2. IInv /\ [Next]_vars => [Fifo!Next]_(Fifo!vars)
    BY StepFifo
<1> QED
    BY <1>1, <1>2, Invariance, PTL DEF Spec, FifoSpec, Fifo!Spec

=============================================================================
