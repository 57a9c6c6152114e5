---------------------------- MODULE DataService ----------------------------
(***************************************************************************)
(* data_ingestion/backpack_data_service.cpp: main, the service thread that *)
(* reads the exchange's socket, the thread that fetches history, and the   *)
(* writer with its queue and its pool of connections.                      *)
(*                                                                         *)
(* A message is dropped (another symbol, a number that does not parse) or  *)
(* becomes one database operation.  What the operations hold is left to    *)
(* Snapshots; here they are told apart by source and number.               *)
(***************************************************************************)
EXTENDS Naturals, Sequences

CONSTANTS MinConn, MaxConn,   \* PgPool's min_ and max_
          Word,               \* 2^w of size_t, the type of used_
          MaxMsgs, MaxHist,   \* bounds: messages, rows of the history
          None

ASSUME PoolAssumption == /\ MinConn \in Nat /\ MaxConn \in Nat /\ Word \in Nat
                         /\ 0 < MinConn /\ MinConn < MaxConn /\ MaxConn < Word
ASSUME BoundAssumption == MaxMsgs \in Nat /\ MaxHist \in Nat

Ops == [src : {"ws"}, n : 1 .. MaxMsgs] \cup [src : {"hist"}, n : 1 .. MaxHist]
ASSUME NoneAssumption == None \notin Ops

VARIABLES
  main,     \* main(): "loop", "close", "stop", "notify", "joinWriter",
            \* "joinHist", "joinSvc", "return", "done", "killed"
  running,  \* the service's running_
  svc,      \* the service thread: "subscribe", "startHist", "read",
            \* "publish", "enqueue", "over"
  socket,   \* "open", "lost", "closed"
  redis,    \* g_redis_client was made
  seen,     \* messages received so far
  hist,     \* histThread_: "none", "running", "over", "joined"
  fetched,  \* rows of the history enqueued so far
  writer,   \* worker(): "test", "lock", "blocking", "asleep", "awake",
            \* "drain", "acquire", "write", "over"
  wrunning, \* the writer's running_
  q,        \* q_
  local,    \* the batch swapped out of q_
  op,       \* the operation being written
  taken,    \* the last operation that was written or failed
  pool,     \* idle connections in pool_
  used,     \* used_
  settled   \* history: the service was reading when it was told to stop

threads == <<main, running, svc, socket, redis, seen, hist, fetched, settled>>
writerVars == <<writer, wrunning, q, local, op, taken, pool, used>>
vars == <<threads, writerVars>>

TypeOK ==
  /\ main \in {"loop", "close", "stop", "notify", "joinWriter", "joinHist",
               "joinSvc", "return", "done", "killed"}
  /\ svc \in {"subscribe", "startHist", "read", "publish", "enqueue", "over"}
  /\ socket \in {"open", "lost", "closed"}
  /\ hist \in {"none", "running", "over", "joined"}
  /\ writer \in {"test", "lock", "blocking", "asleep", "awake", "drain",
                 "acquire", "write", "over"}
  /\ running \in BOOLEAN /\ redis \in BOOLEAN /\ wrunning \in BOOLEAN
  /\ settled \in BOOLEAN
  /\ seen \in 0 .. MaxMsgs /\ fetched \in 0 .. MaxHist
  /\ q \in Seq(Ops) /\ local \in Seq(Ops)
  /\ op \in Ops \cup {None} /\ taken \in Ops \cup {None}
  /\ pool \in 0 .. MaxConn /\ used \in 0 .. Word - 1

\* The constructors ran: the pool is full, the writer started, the socket
\* connected.  Making the Redis client may have failed; main goes on.
Init ==
  /\ main = "loop" /\ running = TRUE
  /\ svc = "subscribe" /\ socket = "open" /\ redis \in BOOLEAN /\ seen = 0
  /\ hist = "none" /\ fetched = 0
  /\ writer = "test" /\ wrunning = TRUE
  /\ q = <<>> /\ local = <<>> /\ op = None /\ taken = None
  /\ pool = MinConn /\ used = 0
  /\ settled = FALSE

Alive == main \notin {"done", "killed"}

\* AsyncDBWriter::enqueue: the push under qmtx_, which the writer holds while
\* it goes to sleep; then notify_one.
Push(o) ==
  /\ writer # "blocking"
  /\ q' = Append(q, o)
  /\ writer' = IF writer = "asleep" THEN "lock" ELSE writer
  /\ UNCHANGED <<wrunning, local, op, taken, pool, used>>
-----------------------------------------------------------------------------
(***************************************************************************)
(* The service thread: run() and the handlers.                             *)
(***************************************************************************)
Reading == {"read", "publish", "enqueue"}

\* A send that fails throws out of run(), out of the thread: std::terminate.
Subscribe ==
  /\ svc = "subscribe" /\ Alive
  /\ \/ socket = "open" /\ svc' = "startHist" /\ UNCHANGED main
     \/ socket # "open" /\ main' = "killed" /\ UNCHANGED svc
  /\ UNCHANGED <<running, socket, redis, seen, hist, fetched, settled, writerVars>>

StartHist ==
  /\ svc = "startHist" /\ Alive
  /\ hist' = "running"
  /\ svc' = "read"
  /\ UNCHANGED <<main, running, socket, redis, seen, fetched, settled, writerVars>>

\* A message of any stream but the book ticker: dropped, or made an operation.
Receive ==
  /\ svc = "read" /\ Alive
  /\ socket = "open" /\ seen < MaxMsgs
  /\ seen' = seen + 1
  /\ svc' \in {"read", "enqueue"}
  /\ UNCHANGED <<main, running, socket, redis, hist, fetched, settled, writerVars>>

ReceiveTicker ==
  /\ svc = "read" /\ Alive
  /\ socket = "open" /\ seen < MaxMsgs
  /\ seen' = seen + 1
  /\ svc' = "publish"
  /\ UNCHANGED <<main, running, socket, redis, hist, fetched, settled, writerVars>>

\* handleBookTicker publishes first: an error of Redis drops the row as well,
\* and without a client the call is through a null pointer.
Publish ==
  /\ svc = "publish" /\ Alive
  /\ \/ redis /\ svc' \in {"enqueue", "read"} /\ UNCHANGED main
     \/ ~redis /\ main' = "killed" /\ UNCHANGED svc
  /\ UNCHANGED <<running, socket, redis, seen, hist, fetched, settled, writerVars>>

Enqueue ==
  /\ svc = "enqueue" /\ Alive
  /\ Push([src |-> "ws", n |-> seen])
  /\ svc' = "read"
  /\ UNCHANGED <<main, running, socket, redis, seen, hist, fetched, settled>>

\* The read handler logs an error and does not read again: run() returns.
ReadError ==
  /\ svc = "read" /\ Alive
  /\ socket # "open"
  /\ svc' = "over"
  /\ UNCHANGED <<main, running, socket, redis, seen, hist, fetched, settled, writerVars>>

Break ==
  /\ socket = "open" /\ Alive
  /\ socket' = "lost"
  /\ UNCHANGED <<main, running, svc, redis, seen, hist, fetched, settled, writerVars>>
-----------------------------------------------------------------------------
(***************************************************************************)
(* fetchHistorical: any number of rows, whose inserts will fail: they have *)
(* three values for ten columns.  It does not look at running_.            *)
(***************************************************************************)
FetchRow ==
  /\ hist = "running" /\ Alive
  /\ fetched < MaxHist
  /\ fetched' = fetched + 1
  /\ Push([src |-> "hist", n |-> fetched'])
  /\ UNCHANGED <<main, running, svc, socket, redis, seen, hist, settled>>

FetchEnds ==
  /\ hist = "running" /\ Alive
  /\ hist' = "over"
  /\ UNCHANGED <<main, running, svc, socket, redis, seen, fetched, settled, writerVars>>
-----------------------------------------------------------------------------
(***************************************************************************)
(* Faulty variants, in no specification.                                   *)
(***************************************************************************)
TimeoutNever == FALSE     \* qcv_.wait instead of wait_for

SwapCopies ==             \* the batch is copied, not swapped out
  /\ writer = "awake" /\ Alive
  /\ local' = q
  /\ writer' = IF q = <<>> /\ ~wrunning THEN "over" ELSE "drain"
  /\ UNCHANGED <<threads, wrunning, q, op, taken, pool, used>>

FailReturnsCount ==       \* the counter goes down for a lost connection, too
  /\ writer = "write" /\ Alive
  /\ taken' = op /\ op' = None
  /\ used' = (used + Word - 1) % Word
  /\ writer' = "drain"
  /\ UNCHANGED <<threads, wrunning, q, local, pool>>

ReleaseKeepsCount ==      \* release forgets --used_
  /\ writer = "write" /\ Alive
  /\ op.src # "hist"
  /\ taken' = op /\ op' = None
  /\ pool' = pool + 1
  /\ writer' = "drain"
  /\ UNCHANGED <<threads, wrunning, q, local, used>>

JoinHistSkipped ==        \* stop() does not join histThread_
  /\ main = "joinHist"
  /\ main' = "joinSvc"
  /\ UNCHANGED <<running, svc, socket, redis, seen, hist, fetched, settled, writerVars>>

(***************************************************************************)
(* AsyncDBWriter::worker.                                                  *)
(***************************************************************************)
Test ==
  /\ writer = "test" /\ Alive
  /\ writer' = IF wrunning THEN "lock" ELSE "over"
  /\ UNCHANGED <<threads, wrunning, q, local, op, taken, pool, used>>

\* wait_for evaluates its predicate under qmtx_ ...
Wait ==
  /\ writer = "lock" /\ Alive
  /\ writer' = IF q # <<>> \/ ~wrunning THEN "awake" ELSE "blocking"
  /\ UNCHANGED <<threads, wrunning, q, local, op, taken, pool, used>>

\* ... and gives it up as it blocks.  stop() notifies without the mutex, so
\* its call may fall between the two and wake nobody.
Block ==
  /\ writer = "blocking" /\ Alive
  /\ writer' = "asleep"
  /\ UNCHANGED <<threads, wrunning, q, local, op, taken, pool, used>>

Timeout ==
  /\ writer = "asleep" /\ Alive
  /\ writer' = "awake"
  /\ UNCHANGED <<threads, wrunning, q, local, op, taken, pool, used>>

Swap ==
  /\ writer = "awake" /\ Alive
  /\ local' = q /\ q' = <<>>
  /\ writer' = IF q = <<>> /\ ~wrunning THEN "over" ELSE "drain"
  /\ UNCHANGED <<threads, wrunning, op, taken, pool, used>>

Pop ==
  /\ writer = "drain" /\ Alive
  /\ \/ /\ local = <<>>
        /\ writer' = "test"
        /\ UNCHANGED <<local, op>>
     \/ /\ local # <<>>
        /\ op' = Head(local) /\ local' = Tail(local)
        /\ writer' = "acquire"
  /\ UNCHANGED <<threads, wrunning, q, taken, pool, used>>

\* PgPool::acquire: an idle connection is counted, a new one is not.
TakeIdle ==
  /\ writer = "acquire" /\ Alive
  /\ pool > 0
  /\ pool' = pool - 1
  /\ used' = (used + 1) % Word
  /\ writer' = "write"
  /\ UNCHANGED <<threads, wrunning, q, local, op, taken>>

OpenNew ==
  /\ writer = "acquire" /\ Alive
  /\ pool = 0 /\ used < MaxConn
  /\ \/ writer' = "write" /\ UNCHANGED <<op, taken>>
     \* the database refuses: the exception ends this operation
     \/ writer' = "drain" /\ taken' = op /\ op' = None
  /\ UNCHANGED <<threads, wrunning, q, local, pool, used>>

\* The transaction commits and the connection goes to the pool, new or not.
Commit ==
  /\ writer = "write" /\ Alive
  /\ op.src # "hist"
  /\ taken' = op /\ op' = None
  /\ pool' = pool + 1
  /\ used' = (used + Word - 1) % Word
  /\ writer' = "drain"
  /\ UNCHANGED <<threads, wrunning, q, local>>

\* An error drops the operation and destroys the connection; used_ keeps it.
Fail ==
  /\ writer = "write" /\ Alive
  /\ taken' = op /\ op' = None
  /\ writer' = "drain"
  /\ UNCHANGED <<threads, wrunning, q, local, pool, used>>
-----------------------------------------------------------------------------
(***************************************************************************)
(* main: the signal, stop(), the end of the process.                       *)
(***************************************************************************)
Signal ==
  /\ main = "loop"
  /\ running                       \* stop() runs once
  /\ running' = FALSE
  /\ settled' = (svc \notin {"subscribe", "startHist"})
  /\ main' = "close"
  /\ UNCHANGED <<svc, socket, redis, seen, hist, fetched, writerVars>>

\* ws_.close() waits for the peer's close frame.
Close ==
  /\ main = "close"
  /\ socket' = "closed"
  /\ main' = "stop"
  /\ UNCHANGED <<running, svc, redis, seen, hist, fetched, settled, writerVars>>

StopWriter ==
  /\ main = "stop"
  /\ wrunning' = FALSE
  /\ main' = "notify"
  /\ UNCHANGED <<running, svc, socket, redis, seen, hist, fetched, settled,
                 writer, q, local, op, taken, pool, used>>

NotifyWriter ==
  /\ main = "notify"
  /\ writer' = IF writer = "asleep" THEN "lock" ELSE writer
  /\ main' = "joinWriter"
  /\ UNCHANGED <<running, svc, socket, redis, seen, hist, fetched, settled,
                 wrunning, q, local, op, taken, pool, used>>

JoinWriter ==
  /\ main = "joinWriter"
  /\ writer = "over"
  /\ main' = "joinHist"
  /\ UNCHANGED <<running, svc, socket, redis, seen, hist, fetched, settled, writerVars>>

\* joinable() is false while the service thread has not made the thread yet.
JoinHist ==
  /\ main = "joinHist"
  /\ hist \in {"none", "over"}
  /\ hist' = IF hist = "over" THEN "joined" ELSE hist
  /\ main' = "joinSvc"
  /\ UNCHANGED <<running, svc, socket, redis, seen, fetched, settled, writerVars>>

JoinSvc ==
  /\ main = "joinSvc"
  /\ svc = "over"
  /\ main' = "return"
  /\ UNCHANGED <<running, svc, socket, redis, seen, hist, fetched, settled, writerVars>>

\* The destructor of a thread that is still joinable terminates the process.
Return ==
  /\ main = "return"
  /\ main' = IF hist \in {"running", "over"} THEN "killed" ELSE "done"
  /\ UNCHANGED <<running, svc, socket, redis, seen, hist, fetched, settled, writerVars>>
-----------------------------------------------------------------------------
Service == Subscribe \/ StartHist \/ Publish \/ Enqueue \/ ReadError
Feed == Receive \/ ReceiveTicker \/ Break
History == FetchRow \/ FetchEnds
Writer == Test \/ Wait \/ Block \/ Timeout \/ Swap \/ Pop \/ TakeIdle \/ OpenNew
            \/ Commit \/ Fail
Stopping == StopWriter \/ NotifyWriter \/ JoinWriter \/ JoinHist \/ JoinSvc \/ Return

Next == Service \/ Feed \/ History \/ Writer \/ Signal \/ Close \/ Stopping

\* Threads run; curl's 30 s end the fetches; PostgreSQL answers or breaks off.
\* Nothing makes the exchange send, break off or answer a close.
Spec == /\ Init /\ [][Next]_vars
        /\ WF_vars(Service) /\ WF_vars(FetchEnds) /\ WF_vars(Writer)
        /\ WF_vars(Stopping)
-----------------------------------------------------------------------------
\* AsyncDBWriter is a first-in first-out queue: what the writer has swapped out
\* and what was pushed meanwhile are handled once each, in the order of the calls.
Backlog == (IF op = None THEN <<>> ELSE <<op>>) \o local \o q

Queue == INSTANCE Fifo WITH Items <- Ops, Capacity <- MaxMsgs + MaxHist,
                            queue <- Backlog
RefinesFifo == Queue!Spec

\* Although acquire does not count the connections it opens while release
\* uncounts every one, and although failures keep theirs counted, counter and
\* pool always make up the initial size: the counter does not wrap and acquire
\* never waits for a connection that nobody will bring back.
PoolBalanced ==
  /\ pool + used = MinConn
  /\ writer = "acquire" => pool > 0 \/ used < MaxConn

\* What was accepted is handled while the writer runs, also when pushes fall
\* between its test of the queue and its sleep; only what is left when it is
\* told to stop, or is killed, may stay behind.
BacklogDrains == Backlog # <<>> ~> (Backlog = <<>> \/ ~wrunning \/ main = "killed")

\* Once the socket is closed stop() ends, although its notification may be lost
\* and rows are still fetched.
StopEnds == main = "stop" ~> main \in {"done", "killed"}

\* A stop that finds the service reading never terminates the process: the
\* thread of the history is joined before it is destroyed.
CleanExit == settled /\ redis => main # "killed"
=============================================================================
