----------------------------- MODULE RingBuffer -----------------------------
(***************************************************************************)
(* cpp_exec/ring_buffer.hpp: a ring of Size slots between one producer and *)
(* one consumer.  Each side owns one index, stores it with release and     *)
(* reads the other's with acquire; a slot is copied in and out without any *)
(* lock.  One step per access that the other thread can observe.  Loads of *)
(* one's own index are not: nobody else stores it.                         *)
(***************************************************************************)
EXTENDS Naturals, Sequences

CONSTANTS Size,    \* template parameter: the number of slots
          Items,   \* the values of T that are enqueued
          None     \* the zeroes a fresh mapping holds

ASSUME SizeAssumption == Size \in Nat \ {0}
ASSUME NoneAssumption == None \notin Items

VARIABLES head,      \* head_, stored by the producer
          tail,      \* tail_, stored by the consumer
          buffer,    \* buffer_
          producer,  \* where try_enqueue is: "idle", "write", "publish"
          item,      \* the argument of try_enqueue
          consumer,  \* where try_dequeue is: "idle", "read", "free"
          out,       \* the reference argument of try_dequeue
          data       \* what the last successful try_dequeue returned

ringVars == <<head, tail, buffer, producer, item, consumer, out, data>>

Slots == 0 .. Size - 1
Values == Items \cup {None}

RingTypeOK ==
  /\ head \in Slots /\ tail \in Slots
  /\ buffer \in [Slots -> Values]
  /\ producer \in {"idle", "write", "publish"}
  /\ consumer \in {"idle", "read", "free"}
  /\ item \in Values /\ out \in Values /\ data \in Values
  /\ producer # "idle" => item \in Items

\* The slot after i.
After(i) == (i + 1) % Size

RingInit ==
  /\ head = 0 /\ tail = 0
  /\ buffer = [s \in Slots |-> None]
  /\ producer = "idle" /\ consumer = "idle"
  /\ item = None /\ out = None /\ data = None
-----------------------------------------------------------------------------
(***************************************************************************)
(* Faulty variants, in no specification.                                   *)
(***************************************************************************)
EnqueueBlind(i) ==  \* no test for a full ring
  /\ producer = "idle"
  /\ producer' = "write"
  /\ item' = i
  /\ UNCHANGED <<head, tail, buffer, consumer, out, data>>

DequeueBlind ==     \* no test for an empty ring
  /\ consumer = "idle"
  /\ consumer' = "read"
  /\ UNCHANGED <<head, tail, buffer, producer, item, out, data>>

(***************************************************************************)
(* try_enqueue.                                                            *)
(***************************************************************************)
Full == After(head) = tail

Enqueue(i) ==
  /\ producer = "idle"
  /\ ~Full
  /\ producer' = "write"
  /\ item' = i
  /\ UNCHANGED <<head, tail, buffer, consumer, out, data>>

WriteSlot ==
  /\ producer = "write"
  /\ buffer' = [buffer EXCEPT ![head] = item]
  /\ producer' = "publish"
  /\ UNCHANGED <<head, tail, item, consumer, out, data>>

StoreHead ==
  /\ producer = "publish"
  /\ head' = After(head)
  /\ producer' = "idle"
  /\ UNCHANGED <<tail, buffer, item, consumer, out, data>>

(***************************************************************************)
(* try_dequeue.                                                            *)
(***************************************************************************)
Empty == tail = head

Dequeue ==
  /\ consumer = "idle"
  /\ ~Empty
  /\ consumer' = "read"
  /\ UNCHANGED <<head, tail, buffer, producer, item, out, data>>

ReadSlot ==
  /\ consumer = "read"
  /\ out' = buffer[tail]
  /\ consumer' = "free"
  /\ UNCHANGED <<head, tail, buffer, producer, item, data>>

StoreTail ==
  /\ consumer = "free"
  /\ tail' = After(tail)
  /\ data' = out
  /\ consumer' = "idle"
  /\ UNCHANGED <<head, buffer, producer, item, out>>

RingNext ==
  \/ \E i \in Items : Enqueue(i)
  \/ WriteSlot \/ StoreHead
  \/ Dequeue \/ ReadSlot \/ StoreTail

RingSpec == RingInit /\ [][RingNext]_ringVars
-----------------------------------------------------------------------------
(***************************************************************************)
(* The items between the indices, as the queue they stand for.             *)
(***************************************************************************)
Count == IF tail <= head THEN head - tail ELSE head - tail + Size
SlotOf(k) == IF tail + k <= Size THEN tail + k - 1 ELSE tail + k - 1 - Size

Waiting == [k \in 1 .. Count |-> buffer[SlotOf(k)]]

Queue == INSTANCE Fifo WITH Capacity <- Size - 1, queue <- Waiting, taken <- data

\* try_enqueue and try_dequeue are a bounded first-in first-out queue that
\* takes effect at the store of the index: nothing is lost, doubled, reordered
\* or overwritten, and one slot is always left free.
RefinesFifo == Queue!Spec

\* The producer never writes the slot that the consumer is copying: the copies
\* need no lock.
NoSlotRace == producer = "write" /\ consumer = "read" => head # tail
=============================================================================
