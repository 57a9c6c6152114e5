-------------------------------- MODULE Fifo --------------------------------
(***************************************************************************)
(* The promise of a queue between two threads, whatever it is built from:  *)
(* what goes in comes out once, in the order in which it went in, and      *)
(* never more than Capacity items wait.  RingBuffer (ring_buffer.hpp) and  *)
(* the write queue of the market data service (DataService) implement it.   *)
(***************************************************************************)
EXTENDS Naturals, Sequences

CONSTANTS Items,     \* what may be put in
          Capacity,  \* how many items wait at most
          None       \* nothing was taken yet

VARIABLES queue,     \* the items that wait, the oldest first
          taken      \* the item taken last

fifoVars == <<queue, taken>>

Init == /\ queue = <<>>
        /\ taken = None

Put(i) == /\ Len(queue) < Capacity
          /\ queue' = Append(queue, i)
          /\ UNCHANGED taken

Get == /\ queue # <<>>
       /\ taken' = Head(queue)
       /\ queue' = Tail(queue)

Next == Get \/ \E i \in Items : Put(i)

Spec == Init /\ [][Next]_fifoVars
=============================================================================
