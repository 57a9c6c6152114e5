------------------------- MODULE DataServiceProofs -------------------------
(***************************************************************************)
(* The market data service for every size of the pool and every number of  *)
(* messages and rows: connections are accounted for, a stop of a service   *)
(* that is reading ends without std::terminate, and the writer implements  *)
(* the queue of Fifo.                                                      *)
(***************************************************************************)
EXTENDS DataService, SequenceTheorems, TLAPS

USE PoolAssumption

(***************************************************************************)
(* The pool.  PoolBalanced needs to know that a connection is counted      *)
(* while an operation is written with it, whichever way it was obtained.   *)
(***************************************************************************)
PoolInv == /\ pool \in 0 .. MinConn
           /\ used \in 0 .. MinConn
           /\ pool + used = MinConn
           /\ writer = "write" => used > 0

LEMMA PoolStep == PoolInv /\ [Next]_vars => PoolInv'
<1> SUFFICES ASSUME PoolInv, [Next]_vars
             PROVE  PoolInv'
  OBVIOUS
<1> USE DEF PoolInv
<1>1. ASSUME UNCHANGED <<pool, used>>, writer' = "write" => writer = "write"
      PROVE  PoolInv'
  BY <1>1
<1>2. CASE Service
  BY <1>1, <1>2 DEF Service, Subscribe, StartHist, Publish, Enqueue, ReadError,
                    Push, writerVars
<1>3. CASE Feed
  BY <1>1, <1>3 DEF Feed, Receive, ReceiveTicker, Break, writerVars
<1>4. CASE History
  BY <1>1, <1>4 DEF History, FetchRow, FetchEnds, Push, writerVars
<1>5. CASE Test \/ Wait \/ Block \/ Timeout \/ Swap \/ Pop
  BY <1>1, <1>5 DEF Test, Wait, Block, Timeout, Swap, Pop
<1>6. CASE TakeIdle
  <2>1. (used + 1) % Word = used + 1
    BY <1>6 DEF TakeIdle
  <2> QED
    BY <1>6, <2>1 DEF TakeIdle
<1>7. CASE OpenNew
  \* No idle connection: all of MinConn are counted.
  BY <1>7 DEF OpenNew
<1>8. CASE Commit
  <2>1. used > 0 /\ pool < MinConn
    BY <1>8 DEF Commit
  <2>2. (used + Word - 1) % Word = used - 1
    BY <2>1, SMTT(30)
  <2> QED
    BY <1>8, <2>1, <2>2 DEF Commit
<1>9. CASE Fail
  BY <1>9 DEF Fail
<1>10. CASE Signal \/ Close \/ Stopping
  BY <1>1, <1>10 DEF Signal, Close, Stopping, StopWriter, NotifyWriter, JoinWriter,
                     JoinHist, JoinSvc, Return, writerVars
<1>11. CASE UNCHANGED vars
  BY <1>1, <1>11 DEF vars, writerVars
<1> QED
  BY <1>2, <1>3, <1>4, <1>5, <1>6, <1>7, <1>8, <1>9, <1>10, <1>11 DEF Next, Writer

\* Counter and pool make up the initial size and acquire never waits, for every
\* size of the pool below its maximum.
THEOREM PoolBalance == Spec => []PoolBalanced
<1>1. Init => PoolInv
  BY DEF Init, PoolInv
<1>2. PoolInv => PoolBalanced
  BY DEF PoolInv, PoolBalanced
<1> QED
  BY <1>1, <1>2, PoolStep, PTL DEF Spec
-----------------------------------------------------------------------------
(***************************************************************************)
(* The end of the process.  A service that was reading has its thread of   *)
(* the history; main joins it before it destroys the service.              *)
(***************************************************************************)
Started == svc \notin {"subscribe", "startHist"}

ExitInv == /\ Started => hist # "none"
           /\ main = "loop" => ~settled
           /\ settled => Started
           /\ settled /\ main \in {"joinSvc", "return", "done"} => hist = "joined"
           /\ settled /\ redis => main # "killed"

LEMMA ExitStep == ExitInv /\ [Next]_vars => ExitInv'
<1> SUFFICES ASSUME ExitInv, [Next]_vars
             PROVE  ExitInv'
  OBVIOUS
<1> USE DEF ExitInv, Started
<1>1. CASE Service
  BY <1>1 DEF Service, Subscribe, StartHist, Publish, Enqueue, ReadError, Alive
<1>2. CASE Feed
  BY <1>2 DEF Feed, Receive, ReceiveTicker, Break
<1>3. CASE History
  BY <1>3 DEF History, FetchRow, FetchEnds
<1>4. CASE Writer
  BY <1>4 DEF Writer, Test, Wait, Block, Timeout, Swap, Pop, TakeIdle, OpenNew,
              Commit, Fail, threads
<1>5. CASE Signal
  BY <1>5 DEF Signal
<1>6. CASE Close
  BY <1>6 DEF Close
<1>7. CASE Stopping
  BY <1>7 DEF Stopping, StopWriter, NotifyWriter, JoinWriter, JoinHist, JoinSvc,
              Return
<1>8. CASE UNCHANGED vars
  BY <1>8 DEF vars, threads
<1> QED
  BY <1>1, <1>2, <1>3, <1>4, <1>5, <1>6, <1>7, <1>8 DEF Next

\* A stop that finds the service reading ends without std::terminate.
THEOREM CleanEnd == Spec => []CleanExit
<1>1. Init => ExitInv
  BY DEF Init, ExitInv, Started
<1>2. ExitInv => CleanExit
  BY DEF ExitInv, CleanExit
<1> QED
  BY <1>1, <1>2, ExitStep, PTL DEF Spec
-----------------------------------------------------------------------------
(***************************************************************************)
(* The refinement of Fifo.  The writer holds a batch only while it drains, *)
(* an operation only while it writes it, and no more waits than was made   *)
(* of messages and rows.                                                   *)
(***************************************************************************)
Pending == IF svc \in {"publish", "enqueue"} THEN 1 ELSE 0

QueueInv ==
  /\ q \in Seq(Ops) /\ local \in Seq(Ops) /\ op \in Ops \cup {None}
  /\ writer \in {"acquire", "write"} <=> op # None
  /\ writer \notin {"drain", "acquire", "write"} => local = <<>>
  /\ seen \in 0 .. MaxMsgs /\ fetched \in 0 .. MaxHist
  /\ svc \in {"publish", "enqueue"} => seen > 0
  /\ Len(Backlog) + Pending <= seen + fetched

LEMMA BacklogIsSeq ==
  ASSUME QueueInv
  PROVE  Backlog \in Seq(Ops) /\ Len(Backlog) \in Nat
BY LenProperties DEF QueueInv, Backlog

LEMMA ConcatAppend ==
  ASSUME NEW a \in Seq(Ops), NEW b \in Seq(Ops), NEW o \in Ops
  PROVE  /\ a \o Append(b, o) \in Seq(Ops)
         /\ a \o Append(b, o) = Append(a \o b, o)
OBVIOUS

\* A push goes to the end of the backlog.
LEMMA PushAppends ==
  ASSUME QueueInv, NEW o \in Ops, Push(o)
  PROVE  /\ q' \in Seq(Ops)
         /\ Backlog' = Append(Backlog, o)
         /\ Len(Backlog') = Len(Backlog) + 1
<1>1. q' = Append(q, o) /\ op' = op /\ local' = local
  BY DEF Push
<1>2. (IF op = None THEN <<>> ELSE <<op>>) \o local \in Seq(Ops)
  BY DEF QueueInv
<1>3. Backlog' = Append(Backlog, o)
  BY <1>1, <1>2, ConcatAppend DEF Backlog, QueueInv
<1> QED
  BY <1>1, <1>3, BacklogIsSeq DEF QueueInv

\* Taking the first operation of the batch moves it from local to op.
LEMMA PopKeepsBacklog ==
  ASSUME QueueInv, writer = "drain", Pop
  PROVE  QueueInv' /\ Backlog' = Backlog
<1>1. op = None
  BY DEF QueueInv
<1>2. CASE local = <<>>
  BY <1>1, <1>2 DEF Pop, QueueInv, Backlog, Pending, threads
<1>3. CASE local # <<>>
  <2>1. op' = Head(local) /\ local' = Tail(local) /\ q' = q
    BY <1>3 DEF Pop
  <2>2. /\ op' \in Ops /\ op' # None /\ local' \in Seq(Ops)
        /\ <<op'>> \o local' = <<>> \o local
    BY <1>3, <2>1, NoneAssumption DEF QueueInv
  <2>3. Backlog' = Backlog
    BY <1>1, <2>1, <2>2 DEF Backlog
  <2> QED
    BY <1>3, <2>1, <2>2, <2>3 DEF Pop, QueueInv, Pending, threads
<1> QED
  BY <1>2, <1>3

\* Swapping takes over what was pushed while the batch was handled.
LEMMA SwapKeepsBacklog ==
  ASSUME QueueInv, Swap
  PROVE  QueueInv' /\ Backlog' = Backlog
<1>1. op = None /\ local = <<>> /\ q \in Seq(Ops)
  BY DEF QueueInv, Swap
<1>2. op' = None /\ local' = q /\ q' = <<>>
  BY <1>1 DEF Swap
<1>3. Backlog' = Backlog
  BY <1>1, <1>2 DEF Backlog
<1> QED
  BY <1>1, <1>2, <1>3 DEF Swap, QueueInv, Pending, threads

\* Whether it is written or fails, an operation leaves at the front.
LEMMA DoneTakesFirst ==
  ASSUME QueueInv, op # None, taken' = op, op' = None, writer' = "drain",
         UNCHANGED <<threads, q, local>>
  PROVE  /\ QueueInv'
         /\ Backlog # <<>> /\ taken' = Head(Backlog) /\ Backlog' = Tail(Backlog)
<1>1. op \in Ops /\ local \in Seq(Ops) /\ q \in Seq(Ops)
  BY DEF QueueInv
<1>2. local \o q \in Seq(Ops)
  BY <1>1
<1>3. Backlog = <<op>> \o (local \o q)
  BY <1>1 DEF Backlog
<1>4. Backlog' = local \o q
  BY <1>1 DEF Backlog
<1>5. /\ Backlog # <<>> /\ Head(Backlog) = op /\ Tail(Backlog) = local \o q
      /\ Len(Backlog) = Len(local \o q) + 1
  BY <1>1, <1>2, <1>3
<1>6. UNCHANGED <<q, local, svc, seen, fetched>>
  BY DEF threads
<1>7. Len(Backlog') \in Nat /\ Len(Backlog) \in Nat /\ Len(Backlog') <= Len(Backlog)
  BY <1>2, <1>4, <1>5, LenProperties
<1>8. Pending \in Nat /\ Pending' = Pending
  BY <1>6 DEF Pending
<1>9. Len(Backlog') + Pending' <= seen' + fetched'
  BY <1>6, <1>7, <1>8 DEF QueueInv
<1>10. QueueInv'
  BY <1>1, <1>6, <1>9 DEF QueueInv
<1>11. taken' = Head(Backlog) /\ Backlog' = Tail(Backlog) /\ Backlog # <<>>
  BY <1>4, <1>5
<1> QED
  BY <1>10, <1>11

\* Steps that touch neither the operations nor what counts them.
LEMMA QueueUnchanged ==
  ASSUME QueueInv, UNCHANGED <<q, local, op, taken>>, svc' = svc \/ Pending' = 0,
         seen' = seen, fetched' = fetched,
         \/ writer' = writer
         \/ /\ writer \notin {"drain", "acquire", "write"}
            /\ writer' \notin {"drain", "acquire", "write"}
         \/ writer = "acquire" /\ writer' = "write"
  PROVE  QueueInv' /\ UNCHANGED Queue!fifoVars
<1>1. Backlog' = Backlog
  BY DEF Backlog
<1>2. Pending' <= Pending /\ Pending \in Nat /\ Pending' \in Nat
  BY DEF Pending
<1>3. Len(Backlog') + Pending' <= seen' + fetched'
  BY <1>1, <1>2, BacklogIsSeq DEF QueueInv
<1>4. svc' \in {"publish", "enqueue"} => seen' > 0
  BY DEF QueueInv, Pending
<1>5. QueueInv'
  BY <1>3, <1>4 DEF QueueInv
<1> QED
  BY <1>1, <1>5 DEF Queue!fifoVars

LEMMA QueueStep ==
  ASSUME QueueInv, [Next]_vars
  PROVE  QueueInv' /\ [Queue!Next]_(Queue!fifoVars)
<1> USE BacklogIsSeq, BoundAssumption
<1>1. CASE Service
  <2>1. CASE Enqueue
    <3>1. [src |-> "ws", n |-> seen] \in Ops
      BY <2>1 DEF Enqueue, QueueInv, Ops
    <3>2. /\ q' \in Seq(Ops)
          /\ Backlog' = Append(Backlog, [src |-> "ws", n |-> seen])
          /\ Len(Backlog') = Len(Backlog) + 1
      BY <2>1, <3>1, PushAppends DEF Enqueue
    <3>3. Pending = 1 /\ Pending' = 0
      BY <2>1 DEF Enqueue, Pending
    <3>4. Len(Backlog) < MaxMsgs + MaxHist
      BY <3>3 DEF QueueInv
    <3>5. QueueInv'
      BY <2>1, <3>2, <3>3 DEF Enqueue, Push, QueueInv
    <3>6. Queue!Put([src |-> "ws", n |-> seen])
      BY <2>1, <3>2, <3>4 DEF Enqueue, Push, Queue!Put
    <3> QED
      BY <3>1, <3>5, <3>6 DEF Queue!Next
  <2>2. CASE Subscribe \/ StartHist \/ ReadError
    BY <2>2, QueueUnchanged
       DEF Subscribe, StartHist, ReadError, writerVars, Pending
  <2>3. CASE Publish
    <3>1. UNCHANGED <<q, local, op, taken, writer, seen, fetched>>
      BY <2>3 DEF Publish, writerVars
    <3>2. Pending' <= Pending /\ seen > 0
      BY <2>3 DEF Publish, Pending, QueueInv
    <3>3. Backlog' = Backlog
      BY <3>1 DEF Backlog
    <3>4. Pending \in Nat /\ Pending' \in Nat
      BY DEF Pending
    <3>5. QueueInv'
      BY <3>1, <3>2, <3>3, <3>4 DEF QueueInv
    <3> QED
      BY <3>1, <3>3, <3>5 DEF Queue!fifoVars
  <2> QED
    BY <1>1, <2>1, <2>2, <2>3 DEF Service
<1>2. CASE Feed
  <2>1. CASE Receive \/ ReceiveTicker
    <3>1. /\ UNCHANGED <<q, local, op, taken, writer, fetched>>
          /\ seen' = seen + 1 /\ seen < MaxMsgs
      BY <2>1 DEF Receive, ReceiveTicker, writerVars
    <3>2. Pending = 0 /\ Pending' \in {0, 1}
      BY <2>1 DEF Receive, ReceiveTicker, Pending
    <3>3. Backlog' = Backlog
      BY <3>1 DEF Backlog
    <3>4. QueueInv'
      BY <3>1, <3>2, <3>3 DEF QueueInv
    <3> QED
      BY <3>1, <3>3, <3>4 DEF Queue!fifoVars
  <2>2. CASE Break
    BY <2>2, QueueUnchanged DEF Break, writerVars
  <2> QED
    BY <1>2, <2>1, <2>2 DEF Feed
<1>3. CASE History
  <2>1. CASE FetchRow
    <3>1. fetched' = fetched + 1 /\ [src |-> "hist", n |-> fetched'] \in Ops
      BY <2>1 DEF FetchRow, QueueInv, Ops
    <3>2. /\ q' \in Seq(Ops)
          /\ Backlog' = Append(Backlog, [src |-> "hist", n |-> fetched'])
          /\ Len(Backlog') = Len(Backlog) + 1
      BY <2>1, <3>1, PushAppends DEF FetchRow
    <3>3. Pending' = Pending /\ Pending \in Nat
      BY <2>1 DEF FetchRow, Pending
    <3>4. Len(Backlog) < MaxMsgs + MaxHist
      BY <2>1, <3>3 DEF FetchRow, QueueInv
    <3>5. QueueInv'
      BY <2>1, <3>1, <3>2, <3>3 DEF FetchRow, Push, QueueInv
    <3>6. Queue!Put([src |-> "hist", n |-> fetched'])
      BY <2>1, <3>2, <3>4 DEF FetchRow, Push, Queue!Put
    <3> QED
      BY <3>1, <3>5, <3>6 DEF Queue!Next
  <2>2. CASE FetchEnds
    BY <2>2, QueueUnchanged DEF FetchEnds, writerVars
  <2> QED
    BY <1>3, <2>1, <2>2 DEF History
<1>4. CASE Writer
  <2>1. CASE Test \/ Wait \/ Block \/ Timeout \/ TakeIdle
    BY <2>1, QueueUnchanged DEF Test, Wait, Block, Timeout, TakeIdle, threads
  <2>2. CASE Swap
    BY <2>2, SwapKeepsBacklog DEF Swap, Queue!fifoVars
  <2>3. CASE Pop
    BY <2>3, PopKeepsBacklog DEF Pop, Queue!fifoVars
  <2>4. CASE OpenNew
    <3>1. CASE writer' = "write"
      BY <2>4, <3>1, QueueUnchanged DEF OpenNew, threads
    <3>2. CASE writer' = "drain"
      <4>1. op # None
        BY <2>4 DEF OpenNew, QueueInv
      <4> QED
        BY <2>4, <3>2, <4>1, DoneTakesFirst DEF OpenNew, Queue!Next, Queue!Get
    <3> QED
      BY <2>4, <3>1, <3>2 DEF OpenNew
  <2>5. CASE Commit \/ Fail
    <3>1. op # None
      BY <2>5 DEF Commit, Fail, QueueInv
    <3> QED
      BY <2>5, <3>1, DoneTakesFirst DEF Commit, Fail, Queue!Next, Queue!Get
  <2> QED
    BY <1>4, <2>1, <2>2, <2>3, <2>4, <2>5 DEF Writer
<1>5. CASE Signal \/ Close
  BY <1>5, QueueUnchanged DEF Signal, Close, writerVars
<1>6. CASE Stopping
  BY <1>6, QueueUnchanged
     DEF Stopping, StopWriter, NotifyWriter, JoinWriter, JoinHist, JoinSvc, Return,
         writerVars
<1>7. CASE UNCHANGED vars
  BY <1>7, QueueUnchanged DEF vars, threads, writerVars
<1> QED
  BY <1>1, <1>2, <1>3, <1>4, <1>5, <1>6, <1>7 DEF Next

\* AsyncDBWriter implements a first-in first-out queue: whatever the interleaving
\* of pushes, swaps, failures and the stop, an operation is handled at most once
\* and never before one that was pushed earlier.
THEOREM WriterRefinesFifo == Spec => RefinesFifo
<1>1. Init => QueueInv /\ Queue!Init
  BY BoundAssumption DEF Init, QueueInv, Queue!Init, Backlog, Pending
<1>2. QueueInv /\ [Next]_vars => QueueInv' /\ [Queue!Next]_(Queue!fifoVars)
  BY QueueStep
<1> QED
  BY <1>1, <1>2, PTL DEF Spec, RefinesFifo, Queue!Spec
-----------------------------------------------------------------------------
(***************************************************************************)
(* Type correctness.  The queue and the pool keep their kinds by the       *)
(* invariants above; the rest are flags and program counters.              *)
(***************************************************************************)
Kinds ==
  /\ main \in {"loop", "close", "stop", "notify", "joinWriter", "joinHist",
               "joinSvc", "return", "done", "killed"}
  /\ svc \in {"subscribe", "startHist", "read", "publish", "enqueue", "over"}
  /\ socket \in {"open", "lost", "closed"}
  /\ hist \in {"none", "running", "over", "joined"}
  /\ writer \in {"test", "lock", "blocking", "asleep", "awake", "drain",
                 "acquire", "write", "over"}
  /\ running \in BOOLEAN /\ redis \in BOOLEAN /\ wrunning \in BOOLEAN
  /\ settled \in BOOLEAN /\ taken \in Ops \cup {None}

LEMMA KindsStep ==
  ASSUME QueueInv, Kinds, [Next]_vars
  PROVE  Kinds'
<1>1. op \in Ops \cup {None}
  BY DEF QueueInv
<1> USE DEF Kinds
<1>2. CASE Service
  BY <1>2 DEF Service, Subscribe, StartHist, Publish, Enqueue, ReadError, Push,
              writerVars
<1>3. CASE Feed
  BY <1>3 DEF Feed, Receive, ReceiveTicker, Break, writerVars
<1>4. CASE History
  BY <1>4 DEF History, FetchRow, FetchEnds, Push, writerVars
<1>5. CASE Writer
  BY <1>1, <1>5 DEF Writer, Test, Wait, Block, Timeout, Swap, Pop, TakeIdle, OpenNew,
                    Commit, Fail, threads
<1>6. CASE Signal \/ Close
  BY <1>6 DEF Signal, Close, writerVars
<1>7. CASE Stopping
  BY <1>7 DEF Stopping, StopWriter, NotifyWriter, JoinWriter, JoinHist, JoinSvc,
              Return, writerVars
<1>8. CASE UNCHANGED vars
  BY <1>8 DEF vars, threads, writerVars
<1> QED
  BY <1>2, <1>3, <1>4, <1>5, <1>6, <1>7, <1>8 DEF Next

\* The variables of the service, its pool and its writer keep their kinds; in
\* particular PgPool's counter and pool stay within max_.
THEOREM ServiceTyping == Spec => []TypeOK
<1>1. Init => PoolInv /\ QueueInv /\ Kinds
  <2>1. Init => PoolInv
    BY DEF Init, PoolInv
  <2>2. Init => QueueInv
    BY BoundAssumption DEF Init, QueueInv, Backlog, Pending
  <2>3. Init => Kinds
    BY DEF Init, Kinds
  <2> QED
    BY <2>1, <2>2, <2>3
<1>2. PoolInv /\ QueueInv /\ Kinds => TypeOK
  BY DEF PoolInv, QueueInv, Kinds, TypeOK
<1> QED
  BY <1>1, <1>2, PoolStep, QueueStep, KindsStep, PTL DEF Spec
=============================================================================
