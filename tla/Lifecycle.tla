----------------------------- MODULE Lifecycle -----------------------------
(***************************************************************************)
(* Start and end of the execution engine: cpp_exec/main.cpp, and the       *)
(* constructor, the threads, stop(), the destructor and the SIGINT handler *)
(* of DefaultExecutionClient.  main installs one handler for SIGINT and    *)
(* SIGTERM that sets g_signal_status; setupSignalHandler then replaces the *)
(* one for SIGINT by a handler that stops DefaultExecutionClient::         *)
(* getInstance(), another engine than main's, constructed on first use.    *)
(* Any thread may take a signal; what it was doing waits meanwhile, and    *)
(* SIGINT is blocked in this one thread until the handler returns.  Names  *)
(* with Life in them are so named for the module that extends this one and *)
(* ExecBridge.                                                             *)
(***************************************************************************)
EXTENDS Integers

CONSTANTS MaxSigints, MaxSigterms    \* bounds on the signals sent

ASSUME SignalAssumption == MaxSigints \in Nat /\ MaxSigterms \in Nat

Engines == {"main", "instance"}

\* The threads that may take a signal: main's, the two subscribers, and any other
\* one (loggers, sweepers, the SDK's), of which no matter what waits meanwhile.
RedisThread == [main |-> "mainRedis", instance |-> "instanceRedis"]
Takers == {"main", "other"} \cup {RedisThread[e] : e \in Engines}

VARIABLES mainPc,         \* where main() is
          handler,        \* thread -> where its SIGINT handler is, "none" if not in it
          disposition,    \* what SIGINT does: set the flag, stop the instance
          status,         \* g_signal_status
          sigints,        \* SIGINTs taken so far
          sigterms,       \* SIGTERMs taken so far
          state,          \* engine -> absent, alive or destroyed
          running,        \* engine -> running_
          redis,          \* engine -> where its subscriber thread is
          logger,         \* engine -> where its memory logger thread is
          sweeper,        \* engine -> where its order sweeper thread is
          late            \* engine -> messages taken up after running_ was reset

lifeVars == <<mainPc, handler, disposition, status, sigints, sigterms, state, running,
              redis, logger, sweeper, late>>

threads == <<redis, logger, sweeper, late>>

LifeInit == /\ mainPc = "construct"
            /\ handler = [t \in Takers |-> "none"]
            /\ disposition = "flag"
            /\ status = "none"
            /\ sigints = 0
            /\ sigterms = 0
            /\ state = [e \in Engines |-> "absent"]
            /\ running = [e \in Engines |-> FALSE]
            /\ redis = [e \in Engines |-> "none"]
            /\ logger = [e \in Engines |-> "none"]
            /\ sweeper = [e \in Engines |-> "none"]
            /\ late = [e \in Engines |-> 0]

Ended == mainPc \in {"exited", "aborted"}

\* A thread does its own work while it is in no handler.
AtWork(t) == ~Ended /\ handler[t] = "none"

\* The handler logs and allocates, which a signal handler must not: it waits for
\* ever when the thread it interrupts was logging or allocating itself.  Main is
\* not while it only sleeps (loop) or waits for a thread (join).
MayInterruptLock(t) == t = "main" => mainPc \notin {"loop", "join", "exitJoin"}

\* Threads that have the guard of getInstance's static, and those that join the
\* subscriber of the instance in stop().
Constructing == {t \in Takers : handler[t] \in {"construct", "hungInside"}}
Joining == {t \in Takers : handler[t] = "join"}

\* The constructor starts the subscriber thread and two detached ones.
Start(e) ==
    /\ state' = [state EXCEPT ![e] = "alive"]
    /\ running' = [running EXCEPT ![e] = TRUE]
    /\ redis' = [redis EXCEPT ![e] = "check"]
    /\ logger' = [logger EXCEPT ![e] = "check"]
    /\ sweeper' = [sweeper EXCEPT ![e] = "delay"]
    /\ UNCHANGED late
-----------------------------------------------------------------------------
(* Faulty variants of the steps below: what the properties must tell apart.  *)

\* The subscriber loops whatever running_ says.
CheckForever(e) ==
    /\ redis[e] = "check"
    /\ redis' = [redis EXCEPT ![e] = "consume"]
    /\ UNCHANGED <<mainPc, handler, disposition, status, sigints, sigterms, state, running,
                   logger, sweeper, late>>

\* stop() does not wait for the subscriber.
MainJoinSkipped ==
    /\ mainPc = "join" /\ AtWork("main")
    /\ mainPc' = "disconnect"
    /\ UNCHANGED <<handler, disposition, status, sigints, sigterms, state, running, threads>>

\* The engine is stopped without resetting running_.
MainStopKeepsRunning ==
    /\ mainPc = "stop" /\ AtWork("main")
    /\ mainPc' = "join"
    /\ UNCHANGED <<handler, disposition, status, sigints, sigterms, state, running, threads>>

-----------------------------------------------------------------------------
(* main().                                                                   *)

\* The engine is constructed, or its constructor throws and main returns 1.
Construct ==
    /\ mainPc = "construct" /\ AtWork("main")
    /\ \/ mainPc' = "install" /\ Start("main")
       \/ mainPc' = "aborted" /\ UNCHANGED <<state, running, threads>>
    /\ UNCHANGED <<handler, disposition, status, sigints, sigterms>>

\* setupSignalHandler.
Install ==
    /\ mainPc = "install" /\ AtWork("main")
    /\ disposition' = "instance"
    /\ mainPc' = "announce"
    /\ UNCHANGED <<handler, status, sigints, sigterms, state, running, threads>>

\* "Application started. Press Ctrl+C to exit..."
Announce ==
    /\ mainPc = "announce" /\ AtWork("main")
    /\ mainPc' = "loop"
    /\ UNCHANGED <<handler, disposition, status, sigints, sigterms, state, running, threads>>

\* The wait loop ends when g_signal_status is set.
LeaveLoop ==
    /\ mainPc = "loop" /\ AtWork("main")
    /\ status # "none"
    /\ mainPc' = "stop"
    /\ UNCHANGED <<handler, disposition, status, sigints, sigterms, state, running, threads>>

\* stop(): running_ is reset, the subscriber joined, the socket disconnected.
MainStop ==
    /\ mainPc = "stop" /\ AtWork("main")
    /\ running' = [running EXCEPT !["main"] = FALSE]
    /\ mainPc' = "join"
    /\ UNCHANGED <<handler, disposition, status, sigints, sigterms, state, threads>>

MainJoin ==
    /\ mainPc = "join" /\ AtWork("main")
    /\ redis["main"] = "done"
    /\ mainPc' = "disconnect"
    /\ UNCHANGED <<handler, disposition, status, sigints, sigterms, state, running, threads>>

Disconnect ==
    /\ mainPc = "disconnect" /\ AtWork("main")
    /\ mainPc' = "destroy"
    /\ UNCHANGED <<handler, disposition, status, sigints, sigterms, state, running, threads>>

\* exec_client goes out of scope; its stop() finds nothing left to join.
Destroy ==
    /\ mainPc = "destroy" /\ AtWork("main")
    /\ state' = [state EXCEPT !["main"] = "destroyed"]
    /\ mainPc' = "return"
    /\ UNCHANGED <<handler, disposition, status, sigints, sigterms, running, threads>>

\* main returns; if the instance was constructed exit() destroys it.
Return ==
    /\ mainPc = "return" /\ AtWork("main")
    /\ mainPc' = IF state["instance"] = "alive" THEN "exitStop" ELSE "exited"
    /\ UNCHANGED <<handler, disposition, status, sigints, sigterms, state, running, threads>>

ExitStop ==
    /\ mainPc = "exitStop" /\ AtWork("main")
    /\ running' = [running EXCEPT !["instance"] = FALSE]
    /\ mainPc' = "exitJoin"
    /\ UNCHANGED <<handler, disposition, status, sigints, sigterms, state, threads>>

\* A join that another thread is in already throws, which no destructor may.
ExitJoin ==
    /\ mainPc = "exitJoin" /\ AtWork("main")
    /\ \/ /\ redis["instance"] = "done"
          /\ state' = [state EXCEPT !["instance"] = "destroyed"]
          /\ mainPc' = "exited"
       \/ /\ Joining # {}
          /\ mainPc' = "aborted" /\ UNCHANGED state
    /\ UNCHANGED <<handler, disposition, status, sigints, sigterms, running, threads>>

Main == \/ Construct \/ Install \/ Announce \/ LeaveLoop \/ MainStop \/ MainJoin
        \/ Disconnect \/ Destroy \/ Return \/ ExitStop \/ ExitJoin
-----------------------------------------------------------------------------
(* Signals.                                                                  *)

\* A thread takes SIGINT, unless it runs the handler already.
Sigint(t) ==
    /\ AtWork(t)
    /\ \A e \in Engines : t = RedisThread[e] => redis[e] \notin {"none", "done"}
    /\ t = "other" => state["main"] # "absent"
    /\ sigints < MaxSigints
    /\ sigints' = sigints + 1
    /\ \/ /\ disposition = "flag"
          /\ status' = "SIGINT" /\ UNCHANGED handler
       \/ /\ disposition = "instance"
          /\ handler' = [handler EXCEPT ![t] = "log"] /\ UNCHANGED status
    /\ UNCHANGED <<mainPc, disposition, sigterms, state, running, threads>>

\* Whichever thread takes it, the flag is set between two of main's steps.
Sigterm ==
    /\ ~Ended
    /\ sigterms < MaxSigterms
    /\ sigterms' = sigterms + 1
    /\ status' = "SIGTERM"
    /\ UNCHANGED <<mainPc, handler, disposition, sigints, state, running, threads>>

HandlerLog(t) ==
    /\ handler[t] = "log"
    /\ \E to \in {"getInstance"} \cup IF MayInterruptLock(t) THEN {"hung"} ELSE {} :
          handler' = [handler EXCEPT ![t] = to]
    /\ UNCHANGED <<mainPc, disposition, status, sigints, sigterms, state, running, threads>>

\* getInstance: the static is there, or this thread gets its guard.
GetInstance(t) ==
    /\ handler[t] = "getInstance"
    /\ \/ /\ state["instance"] # "absent"
          /\ handler' = [handler EXCEPT ![t] = "stop"]
       \/ /\ state["instance"] = "absent" /\ Constructing = {}
          /\ handler' = [handler EXCEPT ![t] = "construct"]
    /\ UNCHANGED <<mainPc, disposition, status, sigints, sigterms, state, running, threads>>

\* An exception that leaves a handler has no defined effect: the process ends, or
\* this thread is not heard of any more.
Thrown(t) ==
    /\ \/ mainPc' = "aborted" /\ UNCHANGED handler
       \/ handler' = [handler EXCEPT ![t] = "hung"] /\ UNCHANGED mainPc
    /\ UNCHANGED <<state, running, threads>>

\* The instance is constructed, or its constructor throws or waits for ever.
ConstructInstance(t) ==
    /\ handler[t] = "construct"
    /\ \/ handler' = [handler EXCEPT ![t] = "stop"] /\ Start("instance") /\ UNCHANGED mainPc
       \/ Thrown(t)
       \/ /\ MayInterruptLock(t)
          /\ handler' = [handler EXCEPT ![t] = "hungInside"]
          /\ UNCHANGED <<mainPc, state, running, threads>>
    /\ UNCHANGED <<disposition, status, sigints, sigterms>>

InstanceStop(t) ==
    /\ handler[t] = "stop"
    /\ running' = [running EXCEPT !["instance"] = FALSE]
    /\ handler' = [handler EXCEPT ![t] = "join"]
    /\ UNCHANGED <<mainPc, disposition, status, sigints, sigterms, state, threads>>

\* The join ends with the subscriber; it throws in the subscriber itself and may
\* do so when another thread joins too.
InstanceJoin(t) ==
    /\ handler[t] = "join"
    /\ \/ /\ redis["instance"] = "done"
          /\ handler' = [handler EXCEPT ![t] = "none"]
          /\ UNCHANGED <<mainPc, state, running, threads>>
       \/ /\ t = RedisThread["instance"] \/ Joining # {t} \/ mainPc = "exitJoin"
          /\ Thrown(t)
    /\ UNCHANGED <<disposition, status, sigints, sigterms>>

HandlerSteps(t) ==
    /\ ~Ended
    /\ \/ HandlerLog(t) \/ GetInstance(t) \/ ConstructInstance(t) \/ InstanceStop(t)
       \/ InstanceJoin(t)
-----------------------------------------------------------------------------
(* The threads of an engine, for as long as the process lives.               *)

others == <<mainPc, handler, disposition, status, sigints, sigterms, state, running>>

\* The subscriber's loop condition, and its test after consume() returned.
Check(e) ==
    /\ redis[e] = "check"
    /\ redis' = [redis EXCEPT ![e] = IF running[e] THEN "consume" ELSE "done"]
    /\ UNCHANGED <<others, logger, sweeper, late>>

\* consume() blocks until a message is there (no socket timeout), then runs
\* handleL1Update on it.
FeedMessage(e) ==
    /\ redis[e] = "consume"
    /\ redis' = [redis EXCEPT ![e] = "handle"]
    /\ late' = [late EXCEPT ![e] = IF running[e] THEN @ ELSE @ + 1]
    /\ UNCHANGED <<others, logger, sweeper>>

Handled(e) ==
    /\ redis[e] = "handle"
    /\ redis' = [redis EXCEPT ![e] = "check"]
    /\ UNCHANGED <<others, logger, sweeper, late>>

\* handleL1Update waits for a mutex whose owner has locked itself out: for
\* openOrdersMutex_ after the SDK thread's nested lock (ExecBridge's Stuck), for
\* trade_state_mutex_ after a recorded position (Entries' inJson).  The singleton
\* has no symbol, so that neither happens to it.
Starved ==
    /\ redis["main"] = "handle"
    /\ redis' = [redis EXCEPT !["main"] = "stuck"]
    /\ UNCHANGED <<others, logger, sweeper, late>>

\* consume() or the handler throws; unless stopped, sleep and go on.
ConsumeError(e) ==
    /\ redis[e] \in {"consume", "handle"}
    /\ redis' = [redis EXCEPT ![e] = "check"]
    /\ UNCHANGED <<others, logger, sweeper, late>>

\* The memory logger reads running_, then sleeps 15 s.  What it reads of an
\* engine that was destroyed meanwhile is undefined.
Log(e) ==
    /\ \/ /\ logger[e] = "check"
          /\ \E go \in IF state[e] = "destroyed" THEN BOOLEAN ELSE {running[e]} :
                logger' = [logger EXCEPT ![e] = IF go THEN "asleep" ELSE "done"]
       \/ /\ logger[e] = "asleep"
          /\ logger' = [logger EXCEPT ![e] = "check"]
    /\ UNCHANGED <<others, redis, sweeper, late>>

\* The sweeper thread sleeps 30 s; the logic it then calls is empty.
Sweep(e) ==
    /\ sweeper[e] = "delay"
    /\ sweeper' = [sweeper EXCEPT ![e] = "done"]
    /\ UNCHANGED <<others, redis, logger, late>>

RedisSteps(e) == /\ AtWork(RedisThread[e])
                 /\ Check(e) \/ Handled(e) \/ (e = "main" /\ Starved)
FeedSteps(e) == AtWork(RedisThread[e]) /\ (FeedMessage(e) \/ ConsumeError(e))
DetachedSteps(e) == ~Ended /\ (Log(e) \/ Sweep(e))

\* What can keep the process for ever: a handler that waits for a lock of the
\* thread it interrupted, and a subscriber that waits for one of its engine's.
Wedged == \/ \E t \in Takers : handler[t] \in {"hung", "hungInside"}
          \/ redis["main"] = "stuck"

\* A process that has ended stays ended; a wedged one may stand still.
Over == (Ended \/ Wedged) /\ UNCHANGED lifeVars

LifeNext == \/ Main \/ Sigterm \/ Over
            \/ \E t \in Takers : Sigint(t) \/ HandlerSteps(t)
            \/ \E e \in Engines : RedisSteps(e) \/ FeedSteps(e) \/ DetachedSteps(e)

LifeSpec == LifeInit /\ [][LifeNext]_lifeVars

\* Every thread keeps running unless it is stuck, and the l1:quotes feed keeps
\* publishing: a blocked consume() is given a message or an error sooner or later.
LifeFairSpec == /\ LifeSpec
                /\ WF_lifeVars(Main)
                /\ \A t \in Takers : WF_lifeVars(HandlerSteps(t))
                /\ \A e \in Engines : /\ WF_lifeVars(RedisSteps(e))
                                      /\ WF_lifeVars(FeedSteps(e))
-----------------------------------------------------------------------------
\* Every variable has its type.
LifeTypeOK ==
    /\ mainPc \in {"construct", "install", "announce", "loop", "stop", "join", "disconnect",
                   "destroy", "return", "exitStop", "exitJoin", "exited", "aborted"}
    /\ handler \in [Takers -> {"none", "log", "getInstance", "construct", "stop", "join",
                               "hung", "hungInside"}]
    /\ disposition \in {"flag", "instance"}
    /\ status \in {"none", "SIGINT", "SIGTERM"}
    /\ sigints \in 0..MaxSigints /\ sigterms \in 0..MaxSigterms
    /\ state \in [Engines -> {"absent", "alive", "destroyed"}]
    /\ running \in [Engines -> BOOLEAN]
    /\ redis \in [Engines -> {"none", "check", "consume", "handle", "stuck", "done"}]
    /\ logger \in [Engines -> {"none", "check", "asleep", "done"}]
    /\ sweeper \in [Engines -> {"none", "delay", "done"}]
    /\ late \in [Engines -> Nat]

\* After running_ is reset an engine takes up at most one more message, so at
\* most one more signal is turned into an order.
OneLateMessage == \A e \in Engines : late[e] <= 1

\* The subscriber, which uses the whole engine, never outlives it.
SubscriberOutlived == \A e \in Engines : state[e] = "destroyed" => redis[e] = "done"

\* While the feed is alive and nothing is wedged, g_signal_status ends the process,
\* whichever threads take SIGINTs meanwhile, construct and join the second engine.
StatusEnds == status # "none" ~> (Ended \/ Wedged)

\* What main announces: Ctrl+C shuts the engine down (if its handler gets through).
CtrlCEnds == sigints > 0 ~> (Ended \/ Wedged)
=============================================================================
