-------------------------- MODULE ExecBridgeProofs --------------------------
(***************************************************************************)
(* Proofs about ExecBridge, for any callers, orders and signals and any    *)
(* limit of the circuit breaker: who holds which mutex where, that no      *)
(* sender waits for a mutex the SDK thread needs, and what is left of the  *)
(* engine once the SDK thread waits for itself.  The last part is about    *)
(* Lifecycle: when these threads start and end.                            *)
(***************************************************************************)
EXTENDS ExecBridge, Lifecycle, FiniteSetTheorems, SequenceTheorems, TLAPS

USE OwnersAssumption

\* What a thread may do past the point where the SDK thread got stuck.
Blocked == {"log_lock", "log_unlock", "count_lock"}

\* The places in the code at which each thread holds each mutex, and what a
\* sender that was acknowledged after the SDK thread got stuck still does.
SenderInv(t) ==
    /\ pc[t] \in {"tick", "log_unlock"} <=> tradeMutex = t
    /\ pc[t] \in {"count", "erase"} <=> openMutex = t
    /\ acked[t] # 0 => acked[t] = 1 /\ Stuck /\ pc[t] \in Blocked

SdkInv ==
    /\ sdk \in {"fill", "position", "trade"} <=> tradeMutex = Sdk
    /\ sdk # "idle" <=> openMutex = Sdk

IInv == /\ DOMAIN pc = Senders /\ acked \in [Senders -> {0, 1}]
        /\ SdkInv
        /\ \A t \in Senders : SenderInv(t)

\* A step of a sender that keeps what the others hold.
LEMMA LocalStep ==
    ASSUME IInv, NEW t \in Senders, UNCHANGED sdk,
           NEW l, pc' = [pc EXCEPT ![t] = l],
           NEW n \in {0, 1}, acked' = [acked EXCEPT ![t] = n],
           tradeMutex' = tradeMutex \/ {tradeMutex, tradeMutex'} \subseteq {t, Free},
           openMutex' = openMutex \/ {openMutex, openMutex'} \subseteq {t, Free},
           SenderInv(t)'
    PROVE  IInv'
<1>1. ASSUME NEW u \in Senders \ {t}
      PROVE  SenderInv(u)'
  <2>1. pc'[u] = pc[u] /\ acked'[u] = acked[u] /\ SenderInv(u)
    BY DEF IInv
  <2>2. tradeMutex' = u <=> tradeMutex = u
    OBVIOUS
  <2>3. openMutex' = u <=> openMutex = u
    OBVIOUS
  <2> QED
    BY <2>1, <2>2, <2>3 DEF SenderInv, Stuck
<1>2. SdkInv'
  BY DEF IInv, SdkInv, Sdk, Free
<1> QED
  BY <1>1, <1>2 DEF IInv

\* Calls, answers and exceptions, which touch no mutex.
LEMMA QuietStep ==
    ASSUME IInv, NEW t \in Senders, UNCHANGED <<sdk, mutexes>>,
           NEW l, l \notin {"tick", "log_unlock", "count", "erase"},
           pc' = [pc EXCEPT ![t] = l],
           pc[t] \notin {"tick", "log_unlock", "count", "erase"} \cup Blocked,
           \/ UNCHANGED acked
           \/ l = "log_lock" /\ acked' = [acked EXCEPT ![t] = IF Stuck THEN @ + 1 ELSE @]
    PROVE  IInv'
<1>1. SenderInv(t) /\ acked[t] = 0
  BY DEF IInv, SenderInv
<1>2. PICK n \in {0, 1} : /\ acked' = [acked EXCEPT ![t] = n]
                          /\ n = 1 => Stuck /\ l = "log_lock"
  BY <1>1 DEF IInv
<1>3. pc'[t] = l /\ acked'[t] = n
  BY <1>2 DEF IInv
<1>4. SenderInv(t)'
  BY <1>1, <1>2, <1>3 DEF SenderInv, Stuck, mutexes, Blocked
<1> QED
  BY <1>2, <1>4, LocalStep DEF mutexes

\* Taking and releasing.
LEMMA LockStep ==
    ASSUME IInv, NEW t \in Senders,
           (TickLock /\ t = Subscriber) \/ LogLock(t) \/ CountLock(t) \/ EraseLock(t)
    PROVE  IInv'
<1>1. /\ SenderInv(t) /\ SdkInv /\ acked[t] \in {0, 1} /\ UNCHANGED sdk
      /\ acked' = [acked EXCEPT ![t] = acked[t]]
  BY DEF IInv, TickLock, LogLock, CountLock, EraseLock, track
<1>2. CASE TickLock /\ t = Subscriber
  <2>1. SenderInv(t)'
    BY <1>1, <1>2 DEF TickLock, Goto, IInv, SenderInv, Blocked
  <2> QED
    BY <1>1, <1>2, <2>1, LocalStep DEF TickLock, Goto
<1>3. CASE LogLock(t)
  <2>1. SenderInv(t)'
    BY <1>1, <1>3 DEF LogLock, Goto, IInv, SenderInv, Blocked, Stuck
  <2> QED
    BY <1>1, <1>3, <2>1, LocalStep DEF LogLock, Goto
<1>4. CASE CountLock(t)
  \* The SDK thread is not stuck: the mutex is free.
  <2>1. ~Stuck
    BY <1>1, <1>4 DEF CountLock, SdkInv, Stuck, Sdk, Free
  <2>2. SenderInv(t)'
    BY <1>1, <1>4, <2>1 DEF CountLock, Goto, IInv, SenderInv, Blocked, Stuck
  <2> QED
    BY <1>1, <1>4, <2>2, LocalStep DEF CountLock, Goto
<1>5. CASE EraseLock(t)
  <2>1. SenderInv(t)'
    BY <1>1, <1>5 DEF EraseLock, Goto, IInv, SenderInv, Blocked
  <2> QED
    BY <1>1, <1>5, <2>1, LocalStep DEF EraseLock, Goto
<1> QED
  BY <1>2, <1>3, <1>4, <1>5

LEMMA UnlockStep ==
    ASSUME IInv, NEW t \in Senders,
           (Tick /\ t = Subscriber) \/ LogUnlock(t) \/ Count(t) \/ Erase(t)
    PROVE  IInv'
<1>1. /\ SenderInv(t) /\ acked[t] \in {0, 1} /\ UNCHANGED sdk
      /\ acked' = [acked EXCEPT ![t] = acked[t]]
  BY DEF IInv, Tick, LogUnlock, Count, Erase, track
<1>2. CASE Tick /\ t = Subscriber
  <2>1. SenderInv(t)'
    BY <1>1, <1>2 DEF Tick, Goto, IInv, SenderInv, Blocked
  <2> QED
    BY <1>1, <1>2, <2>1, LocalStep DEF Tick, Goto, SenderInv
<1>3. CASE LogUnlock(t)
  <2>1. SenderInv(t)'
    BY <1>1, <1>3 DEF LogUnlock, Goto, IInv, SenderInv, Blocked, Stuck
  <2> QED
    BY <1>1, <1>3, <2>1, LocalStep DEF LogUnlock, Goto, SenderInv
<1>4. CASE Count(t)
  <2>1. PICK l \in {"cancel_all", "idle"} : pc' = [pc EXCEPT ![t] = l]
    BY <1>4 DEF Count, Goto, Done
  <2>2. openMutex = t /\ openMutex' = Free /\ tradeMutex' = tradeMutex /\ acked[t] = 0
    BY <1>1, <1>4 DEF Count, SenderInv, Blocked
  <2>3. SenderInv(t)'
    BY <1>1, <1>4, <2>1, <2>2 DEF Count, IInv, SenderInv, Blocked
  <2> QED
    BY <1>1, <2>1, <2>2, <2>3, LocalStep
<1>5. CASE Erase(t)
  <2>1. SenderInv(t)'
    BY <1>1, <1>5 DEF Erase, Done, Goto, IInv, SenderInv, Blocked
  <2> QED
    BY <1>1, <1>5, <2>1, LocalStep DEF Erase, Done, Goto, SenderInv
<1> QED
  BY <1>2, <1>3, <1>4, <1>5

\* The SDK thread moves: what the senders hold stays as it is.
LEMMA SdkStep ==
    ASSUME IInv, SdkSteps
    PROVE  IInv'
<1>1. UNCHANGED sender
  BY DEF SdkSteps, SdkLock, SdkFillLock, SdkFill, SdkUpsert, SdkEnforce, SdkErase,
         SdkTradeLock, SdkTrade, SdkRelease
<1>2. sdk # "stuck"
  BY DEF SdkSteps, SdkLock, SdkFillLock, SdkFill, SdkUpsert, SdkEnforce, SdkErase,
         SdkTradeLock, SdkTrade, SdkRelease
<1>3. tradeMutex' = tradeMutex \/ {tradeMutex, tradeMutex'} \subseteq {Sdk, Free}
  BY DEF IInv, SdkInv, SdkSteps, SdkLock, SdkFillLock, SdkFill, SdkUpsert, SdkEnforce,
         SdkErase, SdkTradeLock, SdkTrade, SdkRelease, mutexes
<1>4. openMutex' = openMutex \/ {openMutex, openMutex'} \subseteq {Sdk, Free}
  BY DEF IInv, SdkInv, SdkSteps, SdkLock, SdkFillLock, SdkFill, SdkUpsert, SdkEnforce,
         SdkErase, SdkTradeLock, SdkTrade, SdkRelease, mutexes
<1>5. SdkInv'
  BY DEF IInv, SdkInv, SdkSteps, SdkLock, SdkFillLock, SdkFill, SdkUpsert, SdkEnforce,
         SdkErase, SdkTradeLock, SdkTrade, SdkRelease, mutexes, Sdk, Free
<1>6. ASSUME NEW t \in Senders
      PROVE  SenderInv(t)'
  BY <1>1, <1>2, <1>3, <1>4 DEF IInv, SenderInv, Stuck, sender
<1> QED
  BY <1>1, <1>5, <1>6 DEF IInv, sender

LEMMA SameThreads ==
    ASSUME IInv, UNCHANGED <<sender, mutexes, sdk>>
    PROVE  IInv'
BY DEF IInv, SdkInv, SenderInv, Stuck, sender, mutexes

LEMMA InvStep == IInv /\ [Next]_vars => IInv'
<1> SUFFICES ASSUME IInv, [Next]_vars
             PROVE  IInv'
  OBVIOUS
<1>1. Subscriber \in Senders
  BY DEF Senders
<1>2. CASE Message \/ ReadSignal
  BY <1>1, <1>2, QuietStep DEF Message, ReadSignal, Done, Goto, track, Blocked
<1>3. ASSUME NEW c \in Callers, Send(c)
      PROVE  IInv'
  BY <1>3, QuietStep DEF Send, Goto, track, Blocked, Senders
<1>4. ASSUME NEW t \in Senders, Accept(t) \/ Refuse(t) \/ Reply(t) \/ ReplyLost(t)
      PROVE  IInv'
  BY <1>4, QuietStep DEF Accept, Refuse, Reply, ReplyLost, Done, Goto, track, Blocked
<1>5. ASSUME NEW t \in Senders, CancelAll(t) \/ CancelAllFails(t)
      PROVE  IInv'
  BY <1>5, QuietStep DEF CancelAll, CancelAllFails, Done, Goto, track, Blocked
<1>6. ASSUME NEW t \in Senders, SendSteps(t)
      PROVE  IInv'
  BY <1>4, <1>5, <1>6, LockStep, UnlockStep DEF SendSteps
<1>7. CASE TickLock \/ Tick
  BY <1>1, <1>7, LockStep, UnlockStep
<1>8. CASE SdkSteps
  BY <1>8, SdkStep
<1>9. ASSUME NEW o \in Orders, NEW how \in {"FILLED", "CANCELED", "EXPIRED"},
             ExchangeEnds(o, how)
      PROVE  IInv'
  BY <1>9, SameThreads DEF ExchangeEnds, track
<1>10. CASE ProducerOpens \/ ProducerWrites \/ UNCHANGED vars
  BY <1>10, SameThreads DEF ProducerOpens, ProducerWrites, track, vars, sender, mutexes
<1> QED
  BY <1>2, <1>3, <1>6, <1>7, <1>8, <1>9, <1>10 DEF Next, SubscriberSteps

LEMMA InvInit == Init => IInv
BY DEF Init, IInv, SdkInv, SenderInv, Sdk, Free

THEOREM Invariance == Spec => []IInv
BY InvInit, InvStep, PTL DEF Spec
-----------------------------------------------------------------------------
\* No sender waits for openOrdersMutex_ with trade_state_mutex_ in its hand, so
\* the SDK thread, which takes them in the other order, cannot close a circle.
THEOREM NoCircle == Spec => []NoCrossWait
<1>1. IInv => NoCrossWait
  BY DEF IInv, SenderInv, NoCrossWait
<1> QED
  BY <1>1, Invariance, PTL

\* Once the SDK thread is stuck, no thread gets a second order acknowledged.
THEOREM OnlyOneMore == Spec => []OneOrderPastStuck
<1>1. IInv => OneOrderPastStuck
  BY DEF IInv, SenderInv, OneOrderPastStuck
<1> QED
  BY <1>1, Invariance, PTL
-----------------------------------------------------------------------------
(***************************************************************************)
(* The kinds of the variables.  openOrders_ holds orders because updates   *)
(* are about orders.                                                       *)
(***************************************************************************)
Updates == [order : Orders, status : {"NEW", "FILLED", "CANCELED", "EXPIRED"}]

UpdatesInv == /\ updates \in Seq(Updates)
              /\ sdk # "idle" => update \in Updates
              /\ file = -1 => written < MaxSignals

Kinds == TypeOK /\ UpdatesInv

LEMMA PublishedUpdates ==
    ASSUME Kinds, NEW S \in SUBSET Orders,
           NEW how \in {"NEW", "FILLED", "CANCELED", "EXPIRED"},
           updates' \in Published(S, how)
    PROVE  updates' \in Seq(Updates)
<1>1. IsFiniteSet(Orders)
  BY OrdersAssumption, FS_Interval DEF Orders
<1>2. IsFiniteSet(S)
  BY <1>1, FS_Subset
<1>3. Cardinality(S) \in Nat
  BY <1>2, FS_CardinalityType
<1>4. ASSUME NEW f \in [1..Cardinality(S) -> S]
      PROVE  updates \o [i \in 1..Cardinality(S) |-> [order |-> f[i], status |-> how]]
               \in Seq(Updates)
  <2> DEFINE fresh == [i \in 1..Cardinality(S) |-> [order |-> f[i], status |-> how]]
  <2>1. \A i \in 1..Cardinality(S) : [order |-> f[i], status |-> how] \in Updates
    BY DEF Updates
  <2>2. fresh \in Seq(Updates)
    BY <1>3, <2>1
  <2>3. updates \in Seq(Updates)
    BY DEF Kinds, UpdatesInv
  <2> HIDE DEF fresh
  <2>4. updates \o fresh \in Seq(Updates)
    BY <2>2, <2>3, ConcatProperties
  <2> QED
    BY <2>4 DEF fresh
<1>5. updates \in Seq(Updates)
  BY DEF Kinds, UpdatesInv
<1> QED
  BY <1>4, <1>5 DEF Published

LEMMA SignalKind ==
    ASSUME TypeOK, NEW t \in Senders, NEW n \in 0..MaxSignals,
           signal' = signal \/ signal' = [signal EXCEPT ![t] = n]
    PROVE  signal' \in [Senders -> 0..MaxSignals]
<1>1. signal \in [Senders -> 0..MaxSignals]
  BY DEF TypeOK
<1> QED
  BY <1>1

LEMMA SendKinds ==
    ASSUME Kinds, NEW t \in Senders, SendSteps(t)
    PROVE  Kinds'
<1>0. 0 \in 0..MaxSignals /\ TypeOK
  BY OrdersAssumption DEF Kinds
<1> USE DEF Kinds, TypeOK, UpdatesInv
<1>1. CASE Accept(t)
  <2>1. PICK o \in Orders : /\ exchange' = [exchange EXCEPT ![o] = "open"]
                            /\ updates' \in Published({o}, "NEW")
    BY <1>1 DEF Accept
  <2>2. updates' \in Seq(Updates)
    BY <2>1, PublishedUpdates
  <2> QED
    BY <1>1, <2>1, <2>2 DEF Accept, Goto, market, mutexes, track
<1>2. CASE Refuse(t) \/ Reply(t) \/ ReplyLost(t) \/ CancelAllFails(t)
  <2>1. acked' \in [Senders -> Nat]
    BY <1>2 DEF Refuse, Reply, ReplyLost, CancelAllFails
  <2>2. signal' = [signal EXCEPT ![t] = 0]
    BY <1>2 DEF Refuse, Reply, ReplyLost, CancelAllFails, Done
  <2>3. signal' \in [Senders -> 0..MaxSignals]
    BY <1>0, <2>2, SignalKind
  <2> QED
    BY <1>2, <2>1, <2>3 DEF Refuse, Reply, ReplyLost, CancelAllFails, Done, Goto, market,
                            mutexes, exch, track
<1>3. CASE LogLock(t) \/ LogUnlock(t) \/ CountLock(t) \/ EraseLock(t)
  BY <1>3 DEF LogLock, LogUnlock, CountLock, EraseLock, Goto, market, exch, track
<1>4. CASE Count(t) \/ Erase(t)
  <2>1. signal' \in [Senders -> 0..MaxSignals]
    BY <1>4, OrdersAssumption DEF Count, Erase, Done
  <2> QED
    BY <1>4, <2>1 DEF Count, Erase, Done, Goto, market, exch, track
<1>5. CASE CancelAll(t)
  <2> DEFINE live == {o \in Orders : exchange[o] = "open"}
  <2>1. updates' \in Seq(Updates)
    BY <1>5, PublishedUpdates DEF CancelAll
  <2>2. exchange' \in [Orders -> {"none", "open", "closed"}]
    BY <1>5 DEF CancelAll
  <2>3. signal' \in [Senders -> 0..MaxSignals]
    <3>1. signal' = signal \/ signal' = [signal EXCEPT ![t] = 0]
      BY <1>5 DEF CancelAll, Done
    <3> QED
      BY <1>0, <3>1, SignalKind
  <2>4. \E l \in {"idle", "erase_lock"} : pc' = [pc EXCEPT ![t] = l]
    BY <1>5 DEF CancelAll, Done, Goto
  <2> QED
    BY <1>5, <2>1, <2>2, <2>3, <2>4 DEF CancelAll, market, mutexes, track
<1> QED
  BY <1>1, <1>2, <1>3, <1>4, <1>5 DEF SendSteps

LEMMA SdkKinds ==
    ASSUME Kinds, SdkSteps
    PROVE  Kinds'
<1> USE DEF Kinds, TypeOK, UpdatesInv, market, sender, mutexes, exch
<1>1. CASE SdkLock
  <2>1. /\ Head(updates) \in Updates /\ Tail(updates) \in Seq(Updates)
    BY <1>1, HeadTailProperties DEF SdkLock
  <2>2. sdk' \in {"enforce", "fill_lock", "upsert", "erase", "release"}
    BY <1>1 DEF SdkLock
  <2> QED
    BY <1>1, <2>1, <2>2 DEF SdkLock
<1>2. CASE SdkFillLock \/ SdkFill
  BY <1>2 DEF SdkFillLock, SdkFill
<1>3. CASE SdkUpsert \/ SdkErase
  <2>1. update.order \in Orders
    BY <1>3 DEF SdkUpsert, SdkErase, Updates
  <2> QED
    BY <1>3, <2>1 DEF SdkUpsert, SdkErase
<1>4. CASE SdkEnforce
  BY <1>4 DEF SdkEnforce
<1>5. CASE SdkTradeLock \/ SdkTrade \/ SdkRelease
  BY <1>5 DEF SdkTradeLock, SdkTrade, SdkRelease
<1> QED
  BY <1>1, <1>2, <1>3, <1>4, <1>5 DEF SdkSteps

LEMMA KindsStep == Kinds /\ [Next]_vars => Kinds'
<1> SUFFICES ASSUME Kinds, [Next]_vars
             PROVE  Kinds'
  OBVIOUS
<1> USE DEF Kinds, TypeOK, UpdatesInv
<1>1. Subscriber \in Senders
  BY DEF Senders
<1>2. CASE Message \/ TickLock \/ Tick
  BY <1>1, <1>2 DEF Message, TickLock, Tick, Goto, market, mutexes, exch, track
<1>3. CASE ReadSignal
  <2>1. PICK n \in 0..MaxSignals : signal' = [signal EXCEPT ![Subscriber] = n]
    BY <1>3, OrdersAssumption DEF ReadSignal, Done
  <2>2. signal' \in [Senders -> 0..MaxSignals]
    BY <1>1, <2>1, SignalKind
  <2> QED
    BY <1>1, <1>3, <2>2 DEF ReadSignal, Done, Goto, market, mutexes, exch, track
<1>4. ASSUME NEW c \in Callers, Send(c)
      PROVE  Kinds'
  BY <1>4 DEF Send, Goto, Senders, market, mutexes, exch, track
<1>5. ASSUME NEW o \in Orders, NEW how \in {"FILLED", "CANCELED", "EXPIRED"},
             ExchangeEnds(o, how)
      PROVE  Kinds'
  <2>1. updates' \in Seq(Updates)
    BY <1>5, PublishedUpdates DEF ExchangeEnds
  <2> QED
    BY <1>5, <2>1 DEF ExchangeEnds, market, sender, mutexes, track
<1>6. CASE ProducerOpens \/ ProducerWrites
  BY <1>6, OrdersAssumption DEF ProducerOpens, ProducerWrites, sender, mutexes, exch, track
<1>7. CASE UNCHANGED vars
  BY <1>7 DEF vars
<1> QED
  BY <1>2, <1>3, <1>4, <1>5, <1>6, <1>7, SendKinds, SdkKinds DEF Next, SubscriberSteps

\* Every variable keeps its kind; a half written signal is never acted on.
THEOREM ExecBridgeTyping == Spec => []TypeOK
<1>1. Init => Kinds
  BY OrdersAssumption DEF Init, Kinds, TypeOK, UpdatesInv, Orders
<1>2. Kinds => TypeOK
  BY DEF Kinds
<1> QED
  BY <1>1, <1>2, KindsStep, PTL DEF Spec
-----------------------------------------------------------------------------
(***************************************************************************)
(* The life of the threads that ExecBridge is about: Lifecycle, for any    *)
(* number of signals at any moments.                                       *)
(***************************************************************************)
USE SignalAssumption

\* An engine that is not there yet has no subscriber; the message after a stop
\* is the last one, since the subscriber tests running_ before the next; a
\* destroyed engine's subscriber is done.
EngineInv(e) ==
    /\ state[e] = "absent" => redis[e] = "none" /\ late[e] = 0
    /\ late[e] <= 1
    /\ late[e] = 1 => ~running[e] /\ redis[e] # "consume"
    /\ state[e] = "destroyed" => redis[e] = "done"

\* An engine is only started when it is not there, so a stop is for good: getInstance's
\* guard lets one handler in, and only while there is no instance.  Main passes its
\* join when the subscriber is done.
LifeInv ==
    /\ \A e \in Engines : EngineInv(e)
    /\ mainPc = "construct" => state["main"] = "absent"
    /\ mainPc \in {"disconnect", "destroy"} => redis["main"] = "done"
    /\ Constructing # {} => state["instance"] = "absent"
    /\ \A t, u \in Constructing : t = u

LEMMA LifeTypeStep ==
  ASSUME LifeTypeOK, [LifeNext]_lifeVars
  PROVE  LifeTypeOK'
<1> USE DEF LifeTypeOK, Engines, threads, others, Start
<1>1. CASE Main
  <2>1. CASE Construct
    <3>1. UNCHANGED <<handler, disposition, status, sigints, sigterms>>
      BY <2>1 DEF Construct
    <3>2. CASE mainPc' = "install" /\ Start("main")
      BY <3>1, <3>2
    <3>3. CASE mainPc' = "aborted" /\ UNCHANGED <<state, running, threads>>
      BY <3>1, <3>3
    <3> QED
      BY <2>1, <3>2, <3>3 DEF Construct
  <2>2. CASE Install \/ Announce \/ LeaveLoop \/ MainStop \/ MainJoin
    BY <2>2 DEF Install, Announce, LeaveLoop, MainStop, MainJoin
  <2>3. CASE Disconnect \/ Destroy \/ Return
    BY <2>3 DEF Disconnect, Destroy, Return
  <2>4. CASE ExitStop \/ ExitJoin
    BY <2>4 DEF ExitStop, ExitJoin
  <2> QED
    BY <1>1, <2>1, <2>2, <2>3, <2>4 DEF Main
<1>2. CASE Sigterm
  BY <1>2 DEF Sigterm
<1>3. ASSUME NEW t \in Takers, Sigint(t)
      PROVE  LifeTypeOK'
  <2>1. /\ UNCHANGED <<mainPc, disposition, sigterms, state, running, threads>>
        /\ sigints' = sigints + 1 /\ sigints < MaxSigints
    BY <1>3 DEF Sigint
  <2>2. /\ status' \in {status, "SIGINT"}
        /\ handler' \in {handler, [handler EXCEPT ![t] = "log"]}
    BY <1>3 DEF Sigint
  <2> QED
    BY <2>1, <2>2
<1>4. ASSUME NEW t \in Takers, HandlerSteps(t)
      PROVE  LifeTypeOK'
  <2>1. CASE HandlerLog(t) \/ GetInstance(t)
    BY <2>1 DEF HandlerLog, GetInstance
  <2>2. CASE ConstructInstance(t)
    <3>1. UNCHANGED <<disposition, status, sigints, sigterms>>
      BY <2>2 DEF ConstructInstance
    <3>2. CASE /\ handler' = [handler EXCEPT ![t] = "stop"]
               /\ Start("instance") /\ UNCHANGED mainPc
      BY <3>1, <3>2
    <3>3. CASE Thrown(t)
      BY <3>1, <3>3 DEF Thrown
    <3>4. CASE /\ handler' = [handler EXCEPT ![t] = "hungInside"]
               /\ UNCHANGED <<mainPc, state, running, threads>>
      BY <3>1, <3>4
    <3> QED
      BY <2>2, <3>2, <3>3, <3>4 DEF ConstructInstance
  <2>3. CASE InstanceStop(t)
    BY <2>3 DEF InstanceStop
  <2>4. CASE InstanceJoin(t)
    BY <2>4 DEF InstanceJoin, Thrown
  <2> QED
    BY <1>4, <2>1, <2>2, <2>3, <2>4 DEF HandlerSteps
<1>5. ASSUME NEW e \in Engines, RedisSteps(e) \/ FeedSteps(e) \/ DetachedSteps(e)
      PROVE  LifeTypeOK'
  <2>1. CASE Check(e) \/ Handled(e) \/ Sweep(e)
    BY <2>1 DEF Check, Handled, Sweep
  <2>2. CASE Log(e)
    BY <2>2 DEF Log
  <2>3. CASE FeedMessage(e) \/ ConsumeError(e) \/ Starved
    BY <2>3 DEF FeedMessage, ConsumeError, Starved
  <2> QED
    BY <1>5, <2>1, <2>2, <2>3 DEF RedisSteps, FeedSteps, DetachedSteps
<1>6. CASE Over \/ UNCHANGED lifeVars
  BY <1>6 DEF Over, lifeVars
<1> QED
  BY <1>1, <1>2, <1>3, <1>4, <1>5, <1>6 DEF LifeNext

LEMMA LifeStep ==
  ASSUME LifeTypeOK, LifeInv, [LifeNext]_lifeVars
  PROVE  LifeInv'
<1> USE DEF LifeTypeOK, LifeInv, EngineInv, Engines, threads, others, Start
<1>1. CASE Main
  <2>1. Constructing' = Constructing
    <3>1. handler' = handler
      BY <1>1 DEF Main, Construct, Install, Announce, LeaveLoop, MainStop, MainJoin,
                  Disconnect, Destroy, Return, ExitStop, ExitJoin
    <3> QED
      BY <3>1 DEF Constructing
  <2>2. CASE Construct
    BY <2>1, <2>2 DEF Construct
  <2>3. CASE Install \/ Announce \/ LeaveLoop \/ MainStop \/ MainJoin
    BY <2>1, <2>3 DEF Install, Announce, LeaveLoop, MainStop, MainJoin
  <2>4. CASE Disconnect \/ Destroy \/ Return
    BY <2>1, <2>4 DEF Disconnect, Destroy, Return
  <2>5. CASE ExitStop
    BY <2>1, <2>5 DEF ExitStop
  <2>6. CASE ExitJoin
    BY <2>1, <2>6 DEF ExitJoin
  <2> QED
    BY <1>1, <2>2, <2>3, <2>4, <2>5, <2>6 DEF Main
<1>2. CASE Sigterm
  BY <1>2 DEF Sigterm, Constructing
<1>3. ASSUME NEW t \in Takers, Sigint(t)
      PROVE  LifeInv'
  <2>1. UNCHANGED <<mainPc, disposition, sigterms, state, running, threads>>
    BY <1>3 DEF Sigint
  <2>2. Constructing' = Constructing
    BY <1>3 DEF Sigint, AtWork, Constructing
  <2> QED
    BY <2>1, <2>2
<1>4. ASSUME NEW t \in Takers, HandlerSteps(t)
      PROVE  LifeInv'
  <2>1. CASE HandlerLog(t) \/ InstanceStop(t) \/ InstanceJoin(t)
    <3>1. Constructing' = Constructing
      BY <2>1 DEF HandlerLog, InstanceStop, InstanceJoin, Thrown, Constructing
    <3> QED
      BY <2>1, <3>1 DEF HandlerLog, InstanceStop, InstanceJoin, Thrown
  <2>2. CASE GetInstance(t)
    <3>1. \/ Constructing' = Constructing
          \/ state["instance"] = "absent" /\ Constructing' = {t}
      BY <2>2 DEF GetInstance, Constructing
    <3> QED
      BY <2>2, <3>1 DEF GetInstance
  <2>3. CASE ConstructInstance(t)
    <3>1. t \in Constructing
      BY <2>3 DEF ConstructInstance, Constructing
    <3>2. Constructing = {t} /\ state["instance"] = "absent"
      BY <3>1
    <3>3. CASE /\ handler' = [handler EXCEPT ![t] = "stop"]
               /\ Start("instance") /\ UNCHANGED mainPc
      <4>1. Constructing' = {}
        BY <3>2, <3>3 DEF Constructing
      <4> QED
        BY <3>2, <3>3, <4>1
    <3>4. CASE Thrown(t)
      <4>1. Constructing' \subseteq Constructing
        BY <3>4 DEF Constructing, Thrown
      <4> QED
        BY <3>2, <3>4, <4>1 DEF Thrown
    <3>5. CASE /\ handler' = [handler EXCEPT ![t] = "hungInside"]
               /\ UNCHANGED <<mainPc, state, running, threads>>
      <4>1. Constructing' = Constructing
        BY <3>1, <3>5 DEF Constructing
      <4> QED
        BY <3>5, <4>1
    <3> QED
      BY <2>3, <3>3, <3>4, <3>5 DEF ConstructInstance
  <2> QED
    BY <1>4, <2>1, <2>2, <2>3 DEF HandlerSteps
<1>5. ASSUME NEW e \in Engines, RedisSteps(e) \/ FeedSteps(e) \/ DetachedSteps(e)
      PROVE  LifeInv'
  <2>1. UNCHANGED others /\ Constructing' = Constructing
    BY <1>5 DEF RedisSteps, FeedSteps, DetachedSteps, Check, Handled, Starved, FeedMessage,
                ConsumeError, Log, Sweep, Constructing
  <2>2. CASE Check(e)
    BY <2>1, <2>2 DEF Check
  <2>3. CASE Handled(e) \/ ConsumeError(e) \/ Starved
    BY <2>1, <2>3 DEF Handled, ConsumeError, Starved
  <2>4. CASE Log(e) \/ Sweep(e)
    BY <2>1, <2>4 DEF Log, Sweep
  <2>5. CASE FeedMessage(e)
    BY <2>1, <2>5 DEF FeedMessage
  <2> QED
    BY <1>5, <2>2, <2>3, <2>4, <2>5 DEF RedisSteps, FeedSteps, DetachedSteps
<1>6. CASE Over \/ UNCHANGED lifeVars
  BY <1>6 DEF Over, lifeVars, Constructing
<1> QED
  BY <1>1, <1>2, <1>3, <1>4, <1>5, <1>6 DEF LifeNext

LEMMA LifeInvariance == LifeSpec => [](LifeTypeOK /\ LifeInv)
<1>1. LifeInit => LifeTypeOK /\ LifeInv
  BY DEF LifeInit, LifeTypeOK, LifeInv, EngineInv, Engines, Constructing
<1>2. LifeTypeOK /\ [LifeNext]_lifeVars => LifeTypeOK'
  BY LifeTypeStep
<1>3. LifeTypeOK /\ LifeInv /\ [LifeNext]_lifeVars => LifeInv'
  BY LifeStep
<1> QED
  BY <1>1, <1>2, <1>3, PTL DEF LifeSpec

\* Lifecycle's variables keep their kinds, wherever signals strike.
THEOREM LifecycleTyping == LifeSpec => []LifeTypeOK
BY LifeInvariance, PTL

\* Wherever signals strike, and whichever engine they stop: from stop() on the
\* subscriber takes up at most the one message it was waiting for.
THEOREM LastMessage == LifeSpec => []OneLateMessage
<1>1. LifeInv => OneLateMessage
  BY DEF LifeInv, EngineInv, OneLateMessage
<1> QED
  BY <1>1, LifeInvariance, PTL

\* Main's engine is never destroyed under its subscriber thread, although the
\* handler of SIGINT stops engines too.
THEOREM SubscriberFirst == LifeSpec => []SubscriberOutlived
<1>1. LifeInv => SubscriberOutlived
  BY DEF LifeInv, EngineInv, SubscriberOutlived
<1> QED
  BY <1>1, LifeInvariance, PTL
=============================================================================
