-------------------------- MODULE PredictorProofs --------------------------
(***************************************************************************)
(* First the ring by itself, for every number of slots and every set of    *)
(* items: indices and slots stay well formed, the two sides never touch    *)
(* one slot at a time, and the ring is a first-in first-out queue of       *)
(* Size - 1.  Then the predictor: it uses the ring as RingBuffer says, so  *)
(* that all this holds there, and after stop() cleared running_ at most    *)
(* one item is taken.                                                      *)
(***************************************************************************)
EXTENDS Predictor, SequenceTheorems, TLAPS

(***************************************************************************)
(* The ring.                                                               *)
(***************************************************************************)
\* The producer works on a slot that is free until it publishes it; the
\* consumer works on one that is taken until it frees it.
ProducerOwns == /\ producer # "idle" => ~Full
                /\ producer = "publish" => buffer[head] = item
ConsumerOwns == /\ consumer # "idle" => ~Empty
                /\ consumer = "free" => out = buffer[tail]

IInv == RingTypeOK /\ ProducerOwns /\ ConsumerOwns

\* The index arithmetic without division.
LEMMA AfterValue ==
  ASSUME NEW i \in Slots
  PROVE  After(i) = IF i = Size - 1 THEN 0 ELSE i + 1
BY SizeAssumption, SMTT(30) DEF Slots, After

LEMMA AfterInSlots ==
  ASSUME NEW i \in Slots
  PROVE  After(i) \in Slots /\ (After(i) = i => Size = 1)
BY AfterValue, SizeAssumption DEF Slots

\* The invariant is inductive.
LEMMA InvStep == IInv /\ [RingNext]_ringVars => IInv'
<1> SUFFICES ASSUME IInv, [RingNext]_ringVars
             PROVE  IInv'
  OBVIOUS
<1> USE DEF IInv, RingTypeOK, ProducerOwns, ConsumerOwns, Full, Empty, Values
<1>1. ASSUME NEW i \in Items, Enqueue(i)
      PROVE  IInv'
  BY <1>1 DEF Enqueue
<1>2. CASE WriteSlot
  \* The slot of the producer is not the consumer's: the ring is not empty.
  <2>1. buffer' \in [Slots -> Values]
    BY <1>2 DEF WriteSlot
  <2>2. consumer = "free" => out' = buffer'[tail']
    BY <1>2 DEF WriteSlot
  <2>3. buffer'[head'] = item'
    BY <1>2 DEF WriteSlot
  <2> QED
    BY <1>2, <2>1, <2>2, <2>3 DEF WriteSlot
<1>3. CASE StoreHead
  <2>1. head' \in Slots
    BY <1>3, AfterInSlots DEF StoreHead
  <2> QED
    BY <1>3, <2>1 DEF StoreHead
<1>4. CASE Dequeue
  BY <1>4 DEF Dequeue
<1>5. CASE ReadSlot
  BY <1>5 DEF ReadSlot
<1>6. CASE StoreTail
  \* The index moves towards head and, as the ring was not empty, not past it.
  <2>1. tail' \in Slots /\ out \in Values
    BY <1>6, AfterInSlots DEF StoreTail
  <2>2. producer # "idle" => After(head) # After(tail)
    BY <1>6, AfterValue, SizeAssumption DEF StoreTail, Slots
  <2> QED
    BY <1>6, <2>1, <2>2 DEF StoreTail, After
<1>7. CASE UNCHANGED ringVars
  BY <1>7 DEF ringVars, After
<1> QED
  BY <1>1, <1>2, <1>3, <1>4, <1>5, <1>6, <1>7 DEF RingNext

LEMMA InvInit == RingInit => IInv
BY SizeAssumption DEF RingInit, IInv, RingTypeOK, ProducerOwns, ConsumerOwns,
                      Slots, Values

THEOREM RingInvariance == RingSpec => []IInv
BY InvInit, InvStep, PTL DEF RingSpec

\* Every variable of the ring keeps its kind, for every size.
THEOREM RingTyping == RingSpec => []RingTypeOK
<1>1. IInv => RingTypeOK
  BY DEF IInv
<1> QED
  BY <1>1, RingInvariance, PTL

\* Producer and consumer never copy to and from one slot at a time.
THEOREM SlotExclusion == RingSpec => []NoSlotRace
<1>1. IInv => NoSlotRace
  BY DEF IInv, ConsumerOwns, Empty, NoSlotRace
<1> QED
  BY <1>1, RingInvariance, PTL
-----------------------------------------------------------------------------
(***************************************************************************)
(* The refinement: what the indices enclose behaves as a queue.            *)
(***************************************************************************)
LEMMA CountBounds ==
  ASSUME RingTypeOK
  PROVE  /\ Count \in 0 .. Size - 1
         /\ Count = 0 <=> Empty
         /\ Count = Size - 1 <=> Full
<1>1. head \in Slots /\ tail \in Slots
  BY DEF RingTypeOK
<1> QED
  BY <1>1, AfterValue, SizeAssumption DEF Count, Slots, Full, Empty

LEMMA WaitingLen ==
  ASSUME RingTypeOK
  PROVE  Len(Waiting) = Count /\ Waiting \in Seq(Values)
<1>1. Count \in Nat
  BY CountBounds, SizeAssumption
<1>2. \A k \in 1 .. Count : SlotOf(k) \in Slots
  BY CountBounds, SizeAssumption DEF RingTypeOK, SlotOf, Slots, Count
<1> QED
  BY <1>1, <1>2 DEF Waiting, RingTypeOK

\* The items between the indices lie in slots of the ring, none of them in the
\* slot of head.
LEMMA SlotBounds ==
  ASSUME RingTypeOK, NEW k \in 1 .. Count
  PROVE  SlotOf(k) \in Slots /\ SlotOf(k) # head
BY CountBounds, SizeAssumption DEF RingTypeOK, SlotOf, Slots, Count

\* Filling the free slot changes nothing of the queue.
LEMMA WriteKeepsQueue ==
  ASSUME IInv, WriteSlot
  PROVE  Waiting' = Waiting
<1>1. Count' = Count /\ \A k : SlotOf(k)' = SlotOf(k)
  BY DEF WriteSlot, Count, SlotOf
<1>2. \A k \in 1 .. Count : buffer'[SlotOf(k)] = buffer[SlotOf(k)]
  BY SlotBounds DEF IInv, RingTypeOK, WriteSlot
<1> QED
  BY <1>1, <1>2 DEF Waiting

\* Publishing the slot puts its item at the end of the queue.
LEMMA PublishAppends ==
  ASSUME IInv, StoreHead
  PROVE  Count < Size - 1 /\ Waiting' = Append(Waiting, item)
<1> USE DEF IInv
<1>1. RingTypeOK /\ ~Full /\ buffer[head] = item
  BY DEF StoreHead, ProducerOwns
<1>2. Count \in 0 .. Size - 1 /\ Count < Size - 1
  BY <1>1, CountBounds, SizeAssumption
<1>3. Count' = Count + 1
  <2>1. head' = (IF head = Size - 1 THEN 0 ELSE head + 1) /\ head' # tail /\ tail' = tail
    BY <1>1, AfterValue DEF StoreHead, Full, RingTypeOK
  <2>2. head \in 0 .. Size - 1 /\ tail \in 0 .. Size - 1
    BY <1>1 DEF RingTypeOK, Slots
  <2> QED
    BY <2>1, <2>2, SizeAssumption DEF Count
<1>4. \A k \in 1 .. Count : SlotOf(k)' = SlotOf(k)
  BY DEF StoreHead, SlotOf
<1>5. \A k : k = Count + 1 => SlotOf(k)' = head
  BY <1>2, SizeAssumption DEF StoreHead, SlotOf, Count, RingTypeOK, Slots
<1>6. Waiting' = [k \in 1 .. Count + 1 |-> buffer[SlotOf(k)']]
  BY <1>3 DEF Waiting, StoreHead
<1>7. Waiting \in Seq(Values) /\ Len(Waiting) = Count /\ item \in Values
  BY <1>1, WaitingLen DEF RingTypeOK
<1>8. /\ Append(Waiting, item) \in Seq(Values)
      /\ Len(Append(Waiting, item)) = Count + 1
      /\ \A k \in 1 .. Count : Append(Waiting, item)[k] = Waiting[k]
      /\ Append(Waiting, item)[Count + 1] = item
  BY <1>2, <1>7, AppendProperties
<1>9. ASSUME NEW k \in 1 .. Count + 1
      PROVE  buffer[SlotOf(k)'] = Append(Waiting, item)[k]
  <2>1. CASE k = Count + 1
    BY <2>1, <1>1, <1>5, <1>8
  <2>2. CASE k \in 1 .. Count
    BY <2>2, <1>4, <1>8 DEF Waiting
  <2>3. k = Count + 1 \/ k \in 1 .. Count
    BY <1>2, SizeAssumption
  <2> QED
    BY <2>1, <2>2, <2>3, Zenon
<1>10. \A k \in 1 .. Count + 1 : buffer[SlotOf(k)'] \in Values
  BY <1>8, <1>9, <1>2, ElementOfSeq
<1>11. Waiting' \in Seq(Values) /\ Len(Waiting') = Count + 1
  BY <1>2, <1>6, <1>10
<1>12. \A k \in 1 .. Count + 1 : Waiting'[k] = Append(Waiting, item)[k]
  BY <1>6, <1>9
<1> QED
  BY <1>2, <1>8, <1>11, <1>12, SeqEqual

\* Freeing the slot takes the oldest item, the one that was copied out.
LEMMA FreeTakesHead ==
  ASSUME IInv, StoreTail
  PROVE  Waiting # <<>> /\ data' = Head(Waiting) /\ Waiting' = Tail(Waiting)
<1> USE DEF IInv
<1>1. RingTypeOK /\ ~Empty /\ out = buffer[tail]
  BY DEF StoreTail, ConsumerOwns
<1>2. Count \in 0 .. Size - 1 /\ Count # 0
  BY <1>1, CountBounds, SizeAssumption
<1>3. Count' = Count - 1
  BY <1>1, <1>2, AfterValue, SizeAssumption
     DEF StoreTail, Count, Empty, RingTypeOK, Slots
<1>4. SlotOf(1) = tail
  BY SizeAssumption DEF SlotOf, RingTypeOK, Slots
<1>5. \A k \in 1 .. Count - 1 : SlotOf(k)' = SlotOf(k + 1)
  BY <1>1, <1>2, AfterValue, SizeAssumption
     DEF StoreTail, SlotOf, RingTypeOK, Slots
<1>6. Len(Waiting) = Count /\ Waiting \in Seq(Values)
  BY <1>1, WaitingLen
<1>7. Waiting # <<>> /\ Head(Waiting) = buffer[tail]
  BY <1>2, <1>4, <1>6 DEF Waiting
<1>8. Waiting' = [k \in 1 .. Count - 1 |-> buffer[SlotOf(k)']]
  BY <1>3 DEF Waiting, StoreTail
<1>9. /\ Tail(Waiting) \in Seq(Values)
      /\ Len(Tail(Waiting)) = Count - 1
      /\ \A k \in 1 .. Count - 1 : Tail(Waiting)[k] = Waiting[k + 1]
  BY <1>6, <1>7, HeadTailProperties
<1>10. \A k \in 1 .. Count - 1 : buffer[SlotOf(k)'] = Tail(Waiting)[k]
  BY <1>2, <1>5, <1>9 DEF Waiting
<1>11. \A k \in 1 .. Count - 1 : buffer[SlotOf(k)'] \in Values
  BY <1>9, <1>10, ElementOfSeq
<1>12. Waiting' \in Seq(Values) /\ Len(Waiting') = Count - 1
  BY <1>2, <1>8, <1>11
<1>13. Waiting' = Tail(Waiting)
  BY <1>8, <1>9, <1>10, <1>12, SeqEqual
<1> QED
  BY <1>1, <1>7, <1>13 DEF StoreTail

LEMMA StepRefines ==
  ASSUME IInv, [RingNext]_ringVars
  PROVE  [Queue!Next]_<<Waiting, data>>
<1>1. Len(Waiting) = Count
  BY WaitingLen DEF IInv
<1>2. ASSUME NEW i \in Items, Enqueue(i)
      PROVE  UNCHANGED <<Waiting, data>>
  BY <1>2 DEF Enqueue, Waiting, Count, SlotOf
<1>3. CASE WriteSlot
  BY <1>3, WriteKeepsQueue DEF WriteSlot
<1>4. CASE StoreHead
  <2>1. item \in Items
    BY <1>4 DEF StoreHead, IInv, RingTypeOK
  <2>2. Queue!Put(item)
    BY <1>1, <1>4, PublishAppends DEF Queue!Put, StoreHead
  <2> QED
    BY <2>1, <2>2 DEF Queue!Next
<1>5. CASE Dequeue
  BY <1>5 DEF Dequeue, Waiting, Count, SlotOf
<1>6. CASE ReadSlot
  BY <1>6 DEF ReadSlot, Waiting, Count, SlotOf
<1>7. CASE StoreTail
  <2>1. Queue!Get
    BY <1>7, FreeTakesHead DEF Queue!Get
  <2> QED
    BY <2>1 DEF Queue!Next
<1>8. CASE UNCHANGED ringVars
  BY <1>8 DEF ringVars, Waiting, Count, SlotOf
<1> QED
  BY <1>2, <1>3, <1>4, <1>5, <1>6, <1>7, <1>8 DEF RingNext

\* try_enqueue and try_dequeue are a first-in first-out queue of Size - 1 items.
THEOREM RingRefinement == RingSpec => RefinesFifo
<1>1. RingInit => Queue!Init
  BY SizeAssumption DEF RingInit, Queue!Init, Waiting, Count, Slots
<1>2. IInv /\ [RingNext]_ringVars => [Queue!Next]_<<Waiting, data>>
  BY StepRefines
<1> QED
  BY <1>1, <1>2, RingInvariance, PTL
     DEF RingSpec, RefinesFifo, Queue!Spec, Queue!fifoVars
-----------------------------------------------------------------------------
(***************************************************************************)
(* The predictor's use of the ring.                                        *)
(***************************************************************************)
USE FeedsAssumption

\* Main enqueues, the inference thread dequeues, and nobody else does.
LEMMA RingSteps == [Next]_vars => [RingNext]_ringVars
<1> SUFFICES ASSUME [Next]_vars
             PROVE  [RingNext]_ringVars
  OBVIOUS
<1>1. CASE Start \/ Spawn \/ Stop \/ Join
  BY <1>1 DEF Start, Spawn, Stop, Join
<1>2. CASE Feed
  BY <1>2 DEF Feed, RingNext
<1>3. CASE Take
  BY <1>3 DEF Take, RingNext
<1>4. CASE Test \/ Spin \/ PredictFails \/ PredictKills
  BY <1>4 DEF Test, Spin, PredictFails, PredictKills
<1>5. CASE UNCHANGED vars
  BY <1>5 DEF vars
<1> QED
  BY <1>1, <1>2, <1>3, <1>4, <1>5 DEF Next, Inference

\* What is proved of the ring holds in the predictor.
LEMMA UsesRing == Spec => RingSpec
<1>1. Init => RingInit
  BY DEF Init
<1> QED
  BY <1>1, RingSteps, PTL DEF Spec, RingSpec

\* The thread copies no slot that main is writing.
THEOREM PredictorExclusion == Spec => []NoSlotRace
BY UsesRing, SlotExclusion

\* What main enqueues is predicted once, in order, and nothing is lost but what
\* waits when stop() is called.
THEOREM PredictorRefinement == Spec => RefinesFifo
BY UsesRing, RingRefinement
-----------------------------------------------------------------------------
(***************************************************************************)
(* The end.  A late item is followed by the test of running_, which start() *)
(* alone sets, before there is a thread.                                   *)
(***************************************************************************)
LateInv == /\ late \in {0, 1}
           /\ late = 1 => ~running /\ main # "start" /\ thread # "take"
           /\ main \in {"start", "spawn"} => thread = "none"

LEMMA LateStep ==
  ASSUME LateInv, [Next]_vars
  PROVE  LateInv'
<1> USE DEF LateInv
<1>1. CASE Start \/ Spawn \/ Stop \/ Join
  BY <1>1 DEF Start, Spawn, Stop, Join
<1>2. CASE Feed
  <2>1. UNCHANGED <<running, main, thread, late>>
    BY <1>2 DEF Feed
  <2> QED
    BY <2>1
<1>3. CASE Take
  <2>1. thread = "take" /\ UNCHANGED <<running, main>>
    BY <1>3 DEF Take
  <2>2. late = 0 /\ main \notin {"start", "spawn"}
    BY <2>1
  <2>3. \/ UNCHANGED <<thread, late>>
        \/ thread' = "predict" /\ late' = IF running THEN late ELSE late + 1
    BY <1>3 DEF Take
  <2>4. CASE running
    BY <2>1, <2>2, <2>3, <2>4
  <2>5. CASE ~running
    BY <2>1, <2>2, <2>3, <2>5
  <2> QED
    BY <2>4, <2>5
<1>4. CASE Test \/ Spin \/ PredictFails \/ PredictKills
  BY <1>4 DEF Test, Spin, PredictFails, PredictKills
<1>5. CASE UNCHANGED vars
  BY <1>5 DEF vars, threadVars
<1> QED
  BY <1>1, <1>2, <1>3, <1>4, <1>5 DEF Next, Inference

\* Whatever the ring holds, at most one item is taken after stop() began.
THEOREM LastItem == Spec => []OneLateItem
<1>1. Init => LateInv
  BY DEF Init, LateInv
<1>2. LateInv => OneLateItem
  BY DEF LateInv, OneLateItem
<1> QED
  BY <1>1, <1>2, LateStep, PTL DEF Spec
-----------------------------------------------------------------------------
LEMMA TypeStep ==
  ASSUME TypeOK, RingTypeOK', [Next]_vars
  PROVE  TypeOK'
<1> USE DEF TypeOK
<1>1. CASE Start \/ Spawn \/ Stop \/ Join
  BY <1>1 DEF Start, Spawn, Stop, Join
<1>2. CASE Feed
  BY <1>2 DEF Feed
<1>3. CASE Take
  BY <1>3 DEF Take
<1>4. CASE Test \/ Spin \/ PredictFails \/ PredictKills
  BY <1>4 DEF Test, Spin, PredictFails, PredictKills
<1>5. CASE UNCHANGED vars
  BY <1>5 DEF vars, threadVars
<1> QED
  BY <1>1, <1>2, <1>3, <1>4, <1>5 DEF Next, Inference

\* Every variable of the predictor keeps its kind.
THEOREM PredictorTyping == Spec => []TypeOK
<1>1. Init /\ RingTypeOK => TypeOK
  <2>1. 0 \in 0 .. MaxFeeds
    OBVIOUS
  <2>2. Init => running \in BOOLEAN
    BY Zenon DEF Init
  <2> QED
    BY <2>1, <2>2 DEF Init, TypeOK
<1>2. Spec => []RingTypeOK
  BY UsesRing, RingTyping
<1> QED
  BY <1>1, <1>2, TypeStep, PTL DEF Spec
=============================================================================
