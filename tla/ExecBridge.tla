----------------------------- MODULE ExecBridge -----------------------------
(***************************************************************************)
(* Order placement and order tracking in cpp_exec: the Redis subscriber    *)
(* thread, which turns the signal file into orders at every message; the   *)
(* threads of Python callers; and the SDK's WebSocket thread, which brings *)
(* order updates to processSdkOrderUpdate.  They meet in openOrders_ and   *)
(* trade_id_map_, behind openOrdersMutex_ and trade_state_mutex_.  The     *)
(* exchange and the signal producer are external; prices are data.         *)
(***************************************************************************)
EXTENDS Integers, Sequences, FiniteSets

CONSTANTS Callers,        \* threads that call send_market and send_limit
          Subscriber,     \* the Redis subscriber thread
          MaxOpenOrders,  \* MAX_OPEN_ORDERS
          MaxOrders,      \* bound on the orders the exchange accepts
          MaxSignals,     \* bound on the signals the producer writes
          Prior           \* orders that were open before the engine started

ASSUME OrdersAssumption == /\ MaxOpenOrders \in Nat \ {0} /\ MaxSignals \in Nat
                           /\ MaxOrders \in Nat /\ Prior \subseteq 1..MaxOrders
ASSUME ThreadsAssumption == Subscriber \notin Callers

Senders == Callers \union {Subscriber}
Orders == 1..MaxOrders
Sdk == "sdk"              \* the SDK's WebSocket thread
Free == "free"            \* a mutex nobody holds

ASSUME OwnersAssumption == Sdk \notin Senders /\ Free \notin Senders

VARIABLES file,           \* the signal in the file: 0 none, -1 half written
          written,        \* signals written so far
          pc,             \* sender -> where it is
          signal,         \* sender -> the signal it acts on, 0 if none
          openMutex,      \* owner of openOrdersMutex_
          tradeMutex,     \* owner of trade_state_mutex_
          openOrders,     \* openOrders_
          exchange,       \* order -> its state at the exchange
          subscribed,     \* whether the order subscription succeeded (OrderWs)
          updates,        \* order updates on their way to the client
          sdk,            \* where the SDK thread is in processSdkOrderUpdate
          update,         \* the update it handles
          acked           \* sender -> orders acknowledged since the SDK thread stuck

market == <<file, written>>
sender == <<pc, signal, acked>>
mutexes == <<openMutex, tradeMutex>>
exch == <<exchange, subscribed, updates>>
track == <<sdk, update>>
vars == <<file, written, pc, signal, openMutex, tradeMutex,
          openOrders, exchange, subscribed, updates, sdk, update, acked>>

NoUpdate == [order |-> 0, status |-> "none"]

Init == /\ file = 0
        /\ written = 0
        /\ pc = [t \in Senders |-> "idle"]
        /\ signal = [t \in Senders |-> 0]
        /\ openMutex = Free
        /\ tradeMutex = Free
        /\ openOrders = {}
        /\ exchange = [o \in Orders |-> IF o \in Prior THEN "open" ELSE "none"]
        /\ subscribed \in BOOLEAN
        /\ updates = <<>>
        /\ sdk = "idle"
        /\ update = NoUpdate
        /\ acked = [t \in Senders |-> 0]

Goto(t, l) == pc' = [pc EXCEPT ![t] = l]
Stuck == sdk = "stuck"

\* The call is over, with or without an exception.
Done(t) == /\ Goto(t, "idle")
           /\ signal' = [signal EXCEPT ![t] = 0]

\* Updates for the orders of a set, in some order, behind the others.  What
\* nobody will read, the SDK thread being stuck, is left out.
Published(S, status) ==
    IF subscribed /\ ~Stuck
    THEN {updates \o [i \in 1..Cardinality(S) |-> [order |-> f[i], status |-> status]] :
             f \in {g \in [1..Cardinality(S) -> S] :
                       \A i, j \in 1..Cardinality(S) : i # j => g[i] # g[j]}}
    ELSE {updates}
-----------------------------------------------------------------------------
(* Faulty variants of the steps below: what the properties must tell apart.  *)

\* trade_state_mutex_ is kept while the open orders are counted.
LogUnscoped(t) ==
    /\ pc[t] = "log_unlock"
    /\ Goto(t, "count_lock")
    /\ UNCHANGED <<market, signal, acked, mutexes, openOrders, exch, track>>

\* The open orders are counted without the lock.
CountLockSkipped(t) ==
    /\ pc[t] = "count_lock"
    /\ Goto(t, "count")
    /\ UNCHANGED <<market, signal, acked, mutexes, openOrders, exch, track>>

\* The SDK thread returns with the lock held.
SdkReleaseForgotten ==
    /\ sdk = "release"
    /\ sdk' = "idle"
    /\ update' = NoUpdate
    /\ UNCHANGED <<market, sender, mutexes, openOrders, exch>>

\* A neutral signal is taken for none, and so is every other.
ReadSignalIgnored ==
    /\ pc[Subscriber] = "read"
    /\ Done(Subscriber)
    /\ UNCHANGED <<market, acked, mutexes, openOrders, exch, track>>

-----------------------------------------------------------------------------
(* The subscriber thread.                                                    *)

\* handleL1Update: onTick runs for a quote of the trading symbol; whatever the
\* message is, also if it cannot be parsed, the signal file is looked at.
Message ==
    /\ pc[Subscriber] = "idle"
    /\ Goto(Subscriber, "tick_lock") \/ Goto(Subscriber, "read")
    /\ UNCHANGED <<market, signal, acked, mutexes, openOrders, exch, track>>

\* onTick looks through open_positions_ under trade_state_mutex_.
TickLock ==
    /\ pc[Subscriber] = "tick_lock"
    /\ tradeMutex = Free
    /\ tradeMutex' = Subscriber
    /\ Goto(Subscriber, "tick")
    /\ UNCHANGED <<market, signal, acked, openMutex, openOrders, exch, track>>

Tick ==
    /\ pc[Subscriber] = "tick"
    /\ tradeMutex' = Free
    /\ Goto(Subscriber, "read")
    /\ UNCHANGED <<market, signal, acked, openMutex, openOrders, exch, track>>

\* check_for_new_signal, read_signal_file, process_new_ml_signal: a readable
\* signal becomes a send_market.
ReadSignal ==
    /\ pc[Subscriber] = "read"
    /\ IF file > 0
       THEN /\ Goto(Subscriber, "post")
            /\ signal' = [signal EXCEPT ![Subscriber] = file]
       ELSE Done(Subscriber)
    /\ UNCHANGED <<market, acked, mutexes, openOrders, exch, track>>

(* The callers.                                                              *)
\* send_market and send_limit.
Send(c) ==
    /\ pc[c] = "idle"
    /\ Goto(c, "post")
    /\ UNCHANGED <<market, signal, acked, mutexes, openOrders, exch, track>>
-----------------------------------------------------------------------------
(* send_order, for all senders.                                              *)

\* execute_signed_request posts the order and the exchange accepts it.
Accept(t) ==
    /\ pc[t] = "post"
    /\ \E o \in Orders :
          /\ exchange[o] = "none"
          /\ \A p \in Orders : exchange[p] = "none" => o <= p
          /\ exchange' = [exchange EXCEPT ![o] = "open"]
          /\ updates' \in Published({o}, "NEW")
    /\ Goto(t, "reply")
    /\ UNCHANGED <<market, signal, acked, mutexes, openOrders, subscribed, track>>

\* It does not: an exception leaves send_order.
Refuse(t) ==
    /\ pc[t] = "post"
    /\ Done(t)
    /\ UNCHANGED <<market, acked, mutexes, openOrders, exch, track>>

\* The answer with the order id arrives, or it does not and that throws.
Reply(t) ==
    /\ pc[t] = "reply"
    /\ Goto(t, "log_lock")
    /\ signal' = [signal EXCEPT ![t] = 0]
    /\ acked' = [acked EXCEPT ![t] = IF Stuck THEN @ + 1 ELSE @]
    /\ UNCHANGED <<market, mutexes, openOrders, exch, track>>

ReplyLost(t) ==
    /\ pc[t] = "reply"
    /\ Done(t)
    /\ UNCHANGED <<market, acked, mutexes, openOrders, exch, track>>

\* The trade id is looked up under trade_state_mutex_, in a scope of its own.
LogLock(t) ==
    /\ pc[t] = "log_lock"
    /\ tradeMutex = Free
    /\ tradeMutex' = t
    /\ Goto(t, "log_unlock")
    /\ UNCHANGED <<market, signal, acked, openMutex, openOrders, exch, track>>

LogUnlock(t) ==
    /\ pc[t] = "log_unlock"
    /\ tradeMutex' = Free
    /\ Goto(t, "count_lock")
    /\ UNCHANGED <<market, signal, acked, openMutex, openOrders, exch, track>>

\* The predicted circuit breaker counts the open orders under openOrdersMutex_.
CountLock(t) ==
    /\ pc[t] = "count_lock"
    /\ openMutex = Free
    /\ openMutex' = t
    /\ Goto(t, "count")
    /\ UNCHANGED <<market, signal, acked, tradeMutex, openOrders, exch, track>>

Count(t) ==
    /\ pc[t] = "count"
    /\ openMutex' = IF openMutex = t THEN Free ELSE openMutex
    /\ IF Cardinality(openOrders) + 1 >= MaxOpenOrders
       THEN Goto(t, "cancel_all") /\ UNCHANGED signal
       ELSE Done(t)
    /\ UNCHANGED <<market, acked, tradeMutex, openOrders, exch, track>>

\* cancelAllOrdersForSymbol: over REST first, then the map is cleared, unless
\* the answer does not arrive.
CancelAll(t) ==
    LET live == {o \in Orders : exchange[o] = "open"}
    IN /\ pc[t] = "cancel_all"
       /\ exchange' = [o \in Orders |-> IF o \in live THEN "closed" ELSE exchange[o]]
       /\ updates' \in Published(live, "CANCELED")
       /\ \/ Goto(t, "erase_lock") /\ UNCHANGED signal
          \/ Done(t)
       /\ UNCHANGED <<market, acked, mutexes, openOrders, subscribed, track>>

CancelAllFails(t) ==
    /\ pc[t] = "cancel_all"
    /\ Done(t)
    /\ UNCHANGED <<market, acked, mutexes, openOrders, exch, track>>

EraseLock(t) ==
    /\ pc[t] = "erase_lock"
    /\ openMutex = Free
    /\ openMutex' = t
    /\ Goto(t, "erase")
    /\ UNCHANGED <<market, signal, acked, tradeMutex, openOrders, exch, track>>

Erase(t) ==
    /\ pc[t] = "erase"
    /\ openOrders' = {}
    /\ openMutex' = Free
    /\ Done(t)
    /\ UNCHANGED <<market, acked, tradeMutex, exch, track>>

SendSteps(t) == \/ Accept(t) \/ Refuse(t) \/ Reply(t) \/ ReplyLost(t)
                \/ LogLock(t) \/ LogUnlock(t) \/ CountLock(t) \/ Count(t)
                \/ CancelAll(t) \/ CancelAllFails(t) \/ EraseLock(t) \/ Erase(t)
-----------------------------------------------------------------------------
(* processSdkOrderUpdate, on the SDK's thread.                               *)

\* The next update of our symbol: openOrdersMutex_ is taken for the whole
\* function.  Without a client order id an update is not logged as an event,
\* and an expiry is of no known status.
SdkLock ==
    /\ sdk = "idle"
    /\ updates # <<>>
    /\ openMutex = Free
    /\ openMutex' = Sdk
    /\ update' = Head(updates)
    /\ updates' = Tail(updates)
    /\ sdk' \in CASE Head(updates).status = "NEW" -> {"enforce"}
                  [] Head(updates).status = "FILLED" -> {"fill_lock", "upsert"}
                  [] Head(updates).status = "CANCELED" -> {"erase"}
                  [] OTHER -> {"release"}
    /\ UNCHANGED <<market, sender, tradeMutex, openOrders, exchange, subscribed>>

\* A fill: trade_state_mutex_ is taken twice, for the event and the position.
SdkFillLock ==
    /\ sdk \in {"fill_lock", "position_lock"}
    /\ tradeMutex = Free
    /\ tradeMutex' = Sdk
    /\ sdk' = IF sdk = "fill_lock" THEN "fill" ELSE "position"
    /\ UNCHANGED <<market, sender, openMutex, openOrders, exch, update>>

SdkFill ==
    /\ sdk \in {"fill", "position"}
    /\ tradeMutex' = Free
    /\ sdk' = IF sdk = "fill" THEN "position_lock" ELSE "upsert"
    /\ UNCHANGED <<market, sender, openMutex, openOrders, exch, update>>

\* The order is stored in openOrders_, also when it is filled.
SdkUpsert ==
    /\ sdk = "upsert"
    /\ openOrders' = openOrders \union {update.order}
    /\ sdk' = "enforce"
    /\ UNCHANGED <<market, sender, mutexes, exch, update>>

\* enforceOpenOrderLimit locks openOrdersMutex_ again: a std::mutex its own
\* thread holds, which on the platforms built for never returns.
SdkEnforce ==
    /\ sdk = "enforce"
    /\ openMutex = Sdk
    /\ sdk' = "stuck"
    /\ updates' = <<>>
    /\ UNCHANGED <<market, sender, mutexes, openOrders, exchange, subscribed, update>>

\* A terminal update: erase, look up the trade id, return.
SdkErase ==
    /\ sdk = "erase"
    /\ openOrders' = openOrders \ {update.order}
    /\ sdk' \in {"trade_lock", "release"}
    /\ UNCHANGED <<market, sender, mutexes, exch, update>>

SdkTradeLock ==
    /\ sdk = "trade_lock"
    /\ tradeMutex = Free
    /\ tradeMutex' = Sdk
    /\ sdk' = "trade"
    /\ UNCHANGED <<market, sender, openMutex, openOrders, exch, update>>

SdkTrade ==
    /\ sdk = "trade"
    /\ tradeMutex' = Free
    /\ sdk' = "release"
    /\ UNCHANGED <<market, sender, openMutex, openOrders, exch, update>>

SdkRelease ==
    /\ sdk = "release"
    /\ openMutex' = Free
    /\ sdk' = "idle"
    /\ update' = NoUpdate
    /\ UNCHANGED <<market, sender, tradeMutex, openOrders, exch>>

SdkSteps == \/ SdkLock \/ SdkFillLock \/ SdkFill \/ SdkUpsert \/ SdkEnforce
            \/ SdkErase \/ SdkTradeLock \/ SdkTrade \/ SdkRelease
-----------------------------------------------------------------------------
(* The exchange ends orders (a partial fill is handled as a fill); the       *)
(* producer writes signal.json in place.                                     *)
ExchangeEnds(o, status) ==
    /\ exchange[o] = "open"
    /\ exchange' = [exchange EXCEPT ![o] = "closed"]
    /\ updates' \in Published({o}, status)
    /\ UNCHANGED <<market, sender, mutexes, openOrders, subscribed, track>>

ProducerOpens ==
    /\ file # -1
    /\ written < MaxSignals
    /\ file' = -1
    /\ UNCHANGED <<written, sender, mutexes, openOrders, exch, track>>

ProducerWrites ==
    /\ file = -1
    /\ written' = written + 1
    /\ file' = written'
    /\ UNCHANGED <<sender, mutexes, openOrders, exch, track>>

SubscriberSteps == \/ Message \/ TickLock \/ Tick \/ ReadSignal

Next == \/ SubscriberSteps
        \/ \E c \in Callers : Send(c)
        \/ \E t \in Senders : SendSteps(t)
        \/ SdkSteps
        \/ \E o \in Orders : \E status \in {"FILLED", "CANCELED", "EXPIRED"} :
              ExchangeEnds(o, status)
        \/ ProducerOpens \/ ProducerWrites

Spec == Init /\ [][Next]_vars

\* A thread in a call keeps running, its requests end, the feed goes on, and a
\* mutex that keeps coming free is not withheld from one thread for ever.
Fairness ==
    /\ \A c \in Callers : SF_vars(SendSteps(c))
    /\ SF_vars(SubscriberSteps \/ SendSteps(Subscriber))
    /\ SF_vars(SdkSteps)
    /\ WF_vars(ProducerWrites)

FairSpec == Spec /\ Fairness
-----------------------------------------------------------------------------
\* Every variable keeps its kind.
TypeOK ==
    /\ file \in -1..MaxSignals
    /\ written \in 0..MaxSignals
    /\ pc \in [Senders -> {"idle", "tick_lock", "tick", "read", "post", "reply",
                           "log_lock", "log_unlock", "count_lock", "count",
                           "cancel_all", "erase_lock", "erase"}]
    /\ signal \in [Senders -> 0..MaxSignals]
    /\ {openMutex, tradeMutex} \subseteq Senders \union {Sdk, Free}
    /\ openOrders \subseteq Orders
    /\ exchange \in [Orders -> {"none", "open", "closed"}]
    /\ subscribed \in BOOLEAN
    /\ sdk \in {"idle", "fill_lock", "fill", "position_lock", "position", "upsert",
                "enforce", "stuck", "erase", "trade_lock", "trade", "release"}
    /\ acked \in [Senders -> Nat]

\* The SDK thread takes trade_state_mutex_ under openOrdersMutex_, so nobody
\* may wait for the latter with the former in hand.
NoCrossWait ==
    \A t \in Senders : pc[t] \in {"count_lock", "erase_lock"} => tradeMutex # t

\* Once the SDK thread is stuck, every thread gets at most one more order
\* acknowledged: it then waits at the circuit breaker, quotes included.
OneOrderPastStuck == \A t \in Senders : acked[t] <= 1

\* A call of send_order ends, unless the SDK thread is stuck in its lock.
SendEnds == \A t \in Senders : pc[t] = "post" ~> pc[t] = "idle" \/ Stuck

\* A signal that stays in the file is acted on, unless the subscriber waits
\* behind the stuck SDK thread.
SignalTaken ==
    \A s \in 1..MaxSignals :
        file = s ~> signal[Subscriber] = s \/ file # s \/ Stuck
=============================================================================
