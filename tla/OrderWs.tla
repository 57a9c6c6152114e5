------------------------------ MODULE OrderWs ------------------------------
(***************************************************************************)
(* The order WebSocket of cpp_exec/exec_bridge.cpp: the flags its handlers *)
(* set one store at a time, the detached thread that loads the open orders *)
(* over REST after each subscription, and stop().  The SDK's client is     *)
(* external: it runs the handlers one after the other on a thread of its   *)
(* own, its connection comes and goes by itself, also beside stop() and    *)
(* after it, and each end of a connection, one by disconnect() included,   *)
(* is told to the close or the fail handler.                               *)
(***************************************************************************)
EXTENDS Integers

CONSTANTS Boots,          \* bootstrap threads that can ever be started
          MaxOpens        \* bound on the connections the SDK opens

ASSUME OpensAssumption == MaxOpens \in Nat

VARIABLES link,           \* client_->is_connected()
          opens,          \* connections opened so far
          authed,         \* this connection was authenticated
          closing,        \* the close handler is still to be called
          handler,        \* where the handler now running is, "none" if none is
          connected,      \* ws_connected_
          healthy,        \* ws_connection_healthy_
          subscribed,     \* ws_orders_subscribed_
          initialized,    \* ws_orders_initialized_
          inProgress,     \* bootstrap_in_progress_
          boot,           \* thread -> where it is in bootstrapOrderCache
          filled,         \* order_cache_ holds what a REST answer listed
          stopping        \* where stop() is

vars == <<link, opens, authed, closing, handler, connected, healthy, subscribed,
          initialized, inProgress, boot, filled, stopping>>

conn == <<link, opens, authed, closing>>
flags == <<connected, healthy, subscribed, initialized, inProgress>>

Init == /\ link = FALSE
        /\ opens = 0
        /\ authed = FALSE
        /\ closing = FALSE
        /\ handler = "none"
        /\ connected = FALSE
        /\ healthy = FALSE
        /\ subscribed = FALSE
        /\ initialized = FALSE
        /\ inProgress = FALSE
        /\ boot = [b \in Boots |-> "unused"]
        /\ filled = FALSE
        /\ stopping = "running"

-----------------------------------------------------------------------------
(* Faulty variants of the steps below: what the properties must tell apart.  *)

\* Only the REST call is guarded: the flag is left set when the thread ends.
EndKeepsFlag(b) ==
    /\ boot[b] = "end"
    /\ boot' = [boot EXCEPT ![b] = "done"]
    /\ UNCHANGED <<conn, handler, flags, filled, stopping>>

\* The cache is declared initialised before it is filled.
FetchMarksFirst(b) ==
    /\ boot[b] = "fetch"
    /\ \/ boot' = [boot EXCEPT ![b] = "fill"] /\ initialized' = TRUE
       \/ boot' = [boot EXCEPT ![b] = "unset"] /\ UNCHANGED initialized
    /\ UNCHANGED <<conn, handler, connected, healthy, subscribed, inProgress, filled,
                   stopping>>

\* The error handler forgets the first flag.
ErrorConnectedForgotten ==
    /\ handler = "err_connected"
    /\ handler' = "err_subscribed"
    /\ UNCHANGED <<conn, flags, boot, filled, stopping>>
-----------------------------------------------------------------------------
(* The open handler.                                                         *)
Open == /\ ~link /\ ~closing
        /\ handler = "none"
        /\ opens < MaxOpens
        /\ link' = TRUE
        /\ opens' = opens + 1
        /\ authed' = FALSE
        /\ handler' = "open_connected"
        /\ UNCHANGED <<closing, flags, boot, filled, stopping>>

OpenConnected ==
    /\ handler = "open_connected"
    /\ connected' = TRUE
    /\ handler' = "open_healthy"
    /\ UNCHANGED <<conn, healthy, subscribed, initialized, inProgress, boot, filled,
                   stopping>>

\* The connection cannot be made: the fail handler is called instead.
ConnectFails ==
    /\ ~link /\ ~closing
    /\ handler = "none"
    /\ opens < MaxOpens
    /\ opens' = opens + 1
    /\ closing' = TRUE
    /\ UNCHANGED <<link, authed, handler, flags, boot, filled, stopping>>

OpenHealthy ==
    /\ handler = "open_healthy"
    /\ healthy' = TRUE
    /\ handler' = "none"
    /\ UNCHANGED <<conn, connected, subscribed, initialized, inProgress, boot, filled,
                   stopping>>

(* The message handler, on "authenticated": subscribe, then start the        *)
(* bootstrap unless one is in progress.                                      *)
Authenticated ==
    /\ link /\ ~authed
    /\ handler = "none"
    /\ authed' = TRUE
    /\ handler' \in {"sub_ok", "sub_failed"}
    /\ UNCHANGED <<link, opens, closing, flags, boot, filled, stopping>>

SubscribeOk ==
    /\ handler = "sub_ok"
    /\ subscribed' = TRUE
    /\ handler' = "claim"
    /\ UNCHANGED <<conn, connected, healthy, initialized, inProgress, boot, filled,
                   stopping>>

Claim ==
    /\ handler = "claim"
    /\ handler' = "none"
    /\ inProgress' = TRUE
    /\ IF inProgress \/ \A b \in Boots : boot[b] # "unused"
       THEN UNCHANGED boot
       ELSE LET b == CHOOSE b \in Boots : boot[b] = "unused"
            IN boot' = [boot EXCEPT ![b] = "check"]
    /\ UNCHANGED <<conn, connected, healthy, subscribed, initialized, filled, stopping>>

SubscribeFailed ==
    /\ \/ /\ handler = "sub_failed" /\ handler' = "fail_initialized"
          /\ subscribed' = FALSE
          /\ UNCHANGED <<initialized, healthy>>
       \/ /\ handler = "fail_initialized" /\ handler' = "fail_healthy"
          /\ initialized' = FALSE
          /\ UNCHANGED <<subscribed, healthy>>
       \/ /\ handler = "fail_healthy" /\ handler' = "none"
          /\ healthy' = FALSE
          /\ UNCHANGED <<subscribed, initialized>>
    /\ UNCHANGED <<conn, connected, inProgress, boot, filled, stopping>>

(* The connection breaks; then the close or fail handler is called, which is *)
(* order_ws_error_handler_.                                                  *)
Drop == /\ link
        /\ link' = FALSE
        /\ closing' = TRUE
        /\ UNCHANGED <<opens, authed, handler, flags, boot, filled, stopping>>

ErrorHandler ==
    /\ handler = "none"
    /\ closing
    /\ closing' = FALSE
    /\ handler' = "err_connected"
    /\ UNCHANGED <<link, opens, authed, flags, boot, filled, stopping>>

ErrorConnected ==
    /\ handler = "err_connected"
    /\ connected' = FALSE
    /\ handler' = "err_subscribed"
    /\ UNCHANGED <<conn, healthy, subscribed, initialized, inProgress, boot, filled,
                   stopping>>

ErrorSubscribed ==
    /\ handler = "err_subscribed"
    /\ subscribed' = FALSE
    /\ handler' = "err_healthy"
    /\ UNCHANGED <<conn, connected, healthy, initialized, inProgress, boot, filled,
                   stopping>>

ErrorHealthy ==
    /\ handler = "err_healthy"
    /\ healthy' = FALSE
    /\ handler' = "err_initialized"
    /\ UNCHANGED <<conn, connected, subscribed, initialized, inProgress, boot, filled,
                   stopping>>

ErrorInitialized ==
    /\ handler = "err_initialized"
    /\ initialized' = FALSE
    /\ handler' = "err_progress"
    /\ UNCHANGED <<conn, connected, healthy, subscribed, inProgress, boot, filled,
                   stopping>>

ErrorProgress ==
    /\ handler = "err_progress"
    /\ inProgress' = FALSE
    /\ handler' = "none"
    /\ UNCHANGED <<conn, connected, healthy, subscribed, initialized, boot, filled,
                   stopping>>

ErrorSteps == \/ ErrorHandler \/ ErrorConnected \/ ErrorSubscribed \/ ErrorHealthy
              \/ ErrorInitialized \/ ErrorProgress
-----------------------------------------------------------------------------
(* bootstrapOrderCache, on its detached thread.                              *)
Check(b) ==
    /\ boot[b] = "check"
    /\ IF link
       THEN boot' = [boot EXCEPT ![b] = "fetch"] /\ UNCHANGED initialized
       ELSE boot' = [boot EXCEPT ![b] = "end"] /\ initialized' = FALSE
    /\ UNCHANGED <<conn, handler, connected, healthy, subscribed, inProgress, filled,
                   stopping>>

\* The open orders arrive, or the request throws.
Fetch(b) ==
    /\ boot[b] = "fetch"
    /\ \E next \in {"fill", "unset"} : boot' = [boot EXCEPT ![b] = next]
    /\ UNCHANGED <<conn, handler, flags, filled, stopping>>

\* order_cache_mutex_ is held from here until the flag is set.
CacheFree == \A b \in Boots : boot[b] # "mark"

\* Clear, then store what was fetched (nothing, if the answer is no list); an
\* answer that cannot be read throws on the way, with the cache cleared.
Fill(b) ==
    /\ boot[b] = "fill"
    /\ CacheFree
    /\ \/ boot' = [boot EXCEPT ![b] = "mark"] /\ filled' = TRUE
       \/ boot' = [boot EXCEPT ![b] = "unset"] /\ filled' = FALSE
    /\ UNCHANGED <<conn, handler, flags, stopping>>

Mark(b) ==
    /\ boot[b] = "mark"
    /\ boot' = [boot EXCEPT ![b] = "end"]
    /\ initialized' = TRUE
    /\ UNCHANGED <<conn, handler, connected, healthy, subscribed, inProgress, filled,
                   stopping>>

\* The exception handler: the flag first, then the cache.
Unset(b) ==
    /\ boot[b] = "unset"
    /\ boot' = [boot EXCEPT ![b] = "clear"]
    /\ initialized' = FALSE
    /\ UNCHANGED <<conn, handler, connected, healthy, subscribed, inProgress, filled,
                   stopping>>

Clear(b) ==
    /\ boot[b] = "clear"
    /\ CacheFree
    /\ boot' = [boot EXCEPT ![b] = "end"]
    /\ filled' = FALSE
    /\ UNCHANGED <<conn, handler, flags, stopping>>

\* The thread's last store, after bootstrapOrderCache returned.
End(b) ==
    /\ boot[b] = "end"
    /\ boot' = [boot EXCEPT ![b] = "done"]
    /\ inProgress' = FALSE
    /\ UNCHANGED <<conn, handler, connected, healthy, subscribed, initialized, filled,
                   stopping>>

BootSteps(b) == \/ Check(b) \/ Fetch(b) \/ Fill(b) \/ Mark(b) \/ Unset(b) \/ Clear(b)
                \/ End(b)

(* stop(): disconnect if connected, which may throw, then two of the flags,  *)
(* without ws_mutex_.                                                        *)
StopTest ==
    /\ stopping = "running"
    /\ stopping' = IF link THEN "disconnect" ELSE "connected"
    /\ UNCHANGED <<conn, handler, flags, boot, filled>>

StopDisconnect ==
    /\ stopping = "disconnect"
    /\ stopping' = "connected"
    /\ \/ link' = FALSE /\ closing' = (closing \/ link)
       \/ UNCHANGED <<link, closing>>
    /\ UNCHANGED <<opens, authed, handler, flags, boot, filled>>

StopConnected ==
    /\ stopping = "connected"
    /\ stopping' = "initialized"
    /\ connected' = FALSE
    /\ UNCHANGED <<conn, handler, healthy, subscribed, initialized, inProgress, boot,
                   filled>>

StopInitialized ==
    /\ stopping = "initialized"
    /\ stopping' = "stopped"
    /\ initialized' = FALSE
    /\ UNCHANGED <<conn, handler, connected, healthy, subscribed, inProgress, boot,
                   filled>>

Stop == StopTest \/ StopDisconnect \/ StopConnected \/ StopInitialized

HandlerSteps == \/ OpenConnected \/ OpenHealthy \/ SubscribeOk \/ Claim
                \/ SubscribeFailed \/ ErrorSteps

Next == \/ Open \/ ConnectFails \/ Authenticated \/ Drop \/ HandlerSteps \/ Stop
        \/ \E b \in Boots : BootSteps(b)

Spec == Init /\ [][Next]_vars

\* Handlers that were called and threads that were started run to their end;
\* REST calls return (SignedRequest's EveryCallEnds).
FairSpec == /\ Spec
            /\ WF_vars(HandlerSteps)
            /\ \A b \in Boots : WF_vars(BootSteps(b))
-----------------------------------------------------------------------------
\* Every variable keeps its kind.
TypeOK ==
    /\ {link, authed, closing, connected, healthy, subscribed, initialized, inProgress,
        filled} \subseteq BOOLEAN
    /\ opens \in 0..MaxOpens
    /\ handler \in {"none", "open_connected", "open_healthy", "sub_ok", "sub_failed", "claim",
                    "fail_initialized", "fail_healthy", "err_connected",
                    "err_subscribed", "err_healthy", "err_initialized", "err_progress"}
    /\ boot \in [Boots -> {"unused", "check", "fetch", "fill", "mark", "unset", "clear",
                           "end", "done"}]
    /\ stopping \in {"running", "disconnect", "connected", "initialized", "stopped"}

\* A reader that sees ws_orders_initialized_ finds the cache filled, while the
\* connection has been opened no more than once, as setupOrderWebSocket assumes.
InitializedMeansFilled == opens <= 1 /\ initialized => filled

\* Between handlers, with no close outstanding, the flag the senders look at
\* is not set without a connection, at whatever step stop() is.
ConnectedMeansLink == handler = "none" /\ ~closing /\ connected => link

\* A connection that is lost is noticed: the flags go down or it comes back.
LossNoticed == ~link /\ connected ~> ~connected \/ link

\* The flag that keeps further bootstraps out does not stay set for ever.
ProgressEnds == inProgress ~> ~inProgress
=============================================================================
