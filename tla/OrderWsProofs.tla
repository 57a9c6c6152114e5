--------------------------- MODULE OrderWsProofs ---------------------------
(***************************************************************************)
(* Proofs about OrderWs, for any number of connections and of bootstrap    *)
(* threads: the flag of the senders follows the connection, and on the     *)
(* first connection a cache that is called initialised is a filled one.    *)
(***************************************************************************)
EXTENDS OrderWs, TLAPS

USE OpensAssumption

\* A set flag, or one about to be set, means a connection, or that the handler that clears it is to be
\* called or has just begun.
LinkInv ==
  connected \/ handler = "open_connected" => link \/ closing \/ handler = "err_connected"

LEMMA LinkStep ==
    ASSUME LinkInv, [Next]_vars
    PROVE  LinkInv'
<1> USE DEF LinkInv, conn, flags
<1>1. CASE Open \/ ConnectFails \/ Authenticated \/ Drop
  BY <1>1 DEF Open, ConnectFails, Authenticated, Drop
<1>2. CASE OpenConnected \/ OpenHealthy \/ SubscribeOk \/ Claim \/ SubscribeFailed
  BY <1>2 DEF OpenConnected, OpenHealthy, SubscribeOk, Claim, SubscribeFailed
<1>3. CASE ErrorSteps
  BY <1>3 DEF ErrorSteps, ErrorHandler, ErrorConnected, ErrorSubscribed, ErrorHealthy,
              ErrorInitialized, ErrorProgress
<1>4. ASSUME NEW b \in Boots, BootSteps(b)
      PROVE  LinkInv'
  BY <1>4 DEF BootSteps, Check, Fetch, Fill, Mark, Unset, Clear, End
<1>5. CASE Stop
  BY <1>5 DEF Stop, StopTest, StopDisconnect, StopConnected, StopInitialized
<1>6. CASE UNCHANGED vars
  BY <1>6 DEF vars
<1> QED
  BY <1>1, <1>2, <1>3, <1>4, <1>5, <1>6 DEF Next, HandlerSteps

\* Between handlers ws_connected_ agrees with the connection, however often it
\* comes and goes and whenever stop() is called.
THEOREM FlagFollowsLink == Spec => []ConnectedMeansLink
<1>1. Init => LinkInv
  BY DEF Init, LinkInv
<1>2. LinkInv => ConnectedMeansLink
  BY DEF LinkInv, ConnectedMeansLink
<1> QED
  BY <1>1, <1>2, LinkStep, PTL DEF Spec
-----------------------------------------------------------------------------
(***************************************************************************)
(* One connection is authenticated once, and an authentication starts one  *)
(* bootstrap at most; so on the first connection there is one, and it      *)
(* alone decides about the flag and the cache.                             *)
(***************************************************************************)
Unused == \A b \in Boots : boot[b] = "unused"

ConnInv == /\ opens \in Nat
           /\ DOMAIN boot = Boots
           /\ opens = 0 => ~link /\ ~authed
           /\ handler \in {"sub_ok", "sub_failed", "claim"} => authed

FirstInv ==
    opens <= 1 =>
      /\ ~authed \/ handler \in {"sub_ok", "claim"} => Unused
      /\ \A a, b \in Boots : a # b => boot[a] = "unused" \/ boot[b] = "unused"
      /\ \A b \in Boots : boot[b] = "mark" => filled
      /\ initialized => filled /\ \E b \in Boots : boot[b] \in {"end", "done"}

IInv == ConnInv /\ FirstInv

LEMMA ConnStep ==
    ASSUME ConnInv, [Next]_vars
    PROVE  ConnInv'
<1> USE DEF ConnInv, conn, flags
<1>1. CASE Open \/ ConnectFails \/ Authenticated \/ Drop
  BY <1>1 DEF Open, ConnectFails, Authenticated, Drop
<1>2. CASE OpenConnected \/ OpenHealthy \/ SubscribeOk \/ Claim \/ SubscribeFailed
  BY <1>2 DEF OpenConnected, OpenHealthy, SubscribeOk, Claim, SubscribeFailed
<1>3. CASE ErrorSteps
  BY <1>3 DEF ErrorSteps, ErrorHandler, ErrorConnected, ErrorSubscribed, ErrorHealthy,
              ErrorInitialized, ErrorProgress
<1>4. ASSUME NEW b \in Boots, BootSteps(b)
      PROVE  ConnInv'
  BY <1>4 DEF BootSteps, Check, Fetch, Fill, Mark, Unset, Clear, End
<1>5. CASE Stop
  BY <1>5 DEF Stop, StopTest, StopDisconnect, StopConnected, StopInitialized
<1>6. CASE UNCHANGED vars
  BY <1>6 DEF vars
<1> QED
  BY <1>1, <1>2, <1>3, <1>4, <1>5, <1>6 DEF Next, HandlerSteps

\* The steps of a bootstrap: there is no other on the first connection.
LEMMA BootStep ==
    ASSUME IInv, opens <= 1, NEW b \in Boots, BootSteps(b)
    PROVE  FirstInv'
<1>1. boot[b] # "unused" /\ UNCHANGED <<opens, authed, handler>>
  BY DEF BootSteps, Check, Fetch, Fill, Mark, Unset, Clear, End, conn
<1>2. PICK l : l # "unused" /\ boot' = [boot EXCEPT ![b] = l]
  BY DEF BootSteps, Check, Fetch, Fill, Mark, Unset, Clear, End
<1>3. \A a \in Boots \ {b} : boot[a] = "unused" /\ boot'[a] = "unused"
  BY <1>1, <1>2 DEF IInv, ConnInv, FirstInv
<1>4. boot'[b] = l
  BY <1>2 DEF IInv, ConnInv
<1>5. authed /\ handler \notin {"sub_ok", "claim"}
  BY <1>1 DEF IInv, FirstInv, Unused
<1>6. initialized => filled /\ boot[b] \in {"end", "done"}
  BY <1>3 DEF IInv, FirstInv
<1>7. boot[b] = "mark" => filled
  BY DEF IInv, FirstInv
<1>8. /\ l = "mark" => filled'
      /\ initialized' => filled' /\ l \in {"end", "done"}
  <2>1. CASE Check(b) \/ Fetch(b) \/ Fill(b)
    BY <1>4, <1>6, <2>1 DEF Check, Fetch, Fill, flags, IInv, ConnInv
  <2>2. CASE Mark(b) \/ Unset(b) \/ Clear(b) \/ End(b)
    BY <1>4, <1>6, <1>7, <2>2 DEF Mark, Unset, Clear, End, flags, IInv, ConnInv
  <2> QED
    BY <2>1, <2>2 DEF BootSteps
<1> QED
  BY <1>1, <1>3, <1>4, <1>5, <1>8 DEF FirstInv, Unused

\* An authentication starts the only one.
LEMMA ClaimStep ==
    ASSUME IInv, opens <= 1, Claim
    PROVE  FirstInv'
<1>1. Unused /\ ~initialized /\ authed
  BY DEF Claim, IInv, ConnInv, FirstInv, Unused
<1>2. /\ handler' = "none" /\ UNCHANGED <<opens, authed, initialized, filled>>
      /\ \/ UNCHANGED boot
         \/ \E b \in Boots : boot' = [boot EXCEPT ![b] = "check"]
  <2>1. (\E b \in Boots : boot[b] = "unused") =>
          (CHOOSE b \in Boots : boot[b] = "unused") \in Boots
    OBVIOUS
  <2> QED
    BY <2>1 DEF Claim, conn
<1>3. CASE UNCHANGED boot
  BY <1>1, <1>2, <1>3 DEF FirstInv, Unused
<1>4. ASSUME NEW b \in Boots, boot' = [boot EXCEPT ![b] = "check"]
      PROVE  FirstInv'
  <2>1. \A a \in Boots : boot'[a] = IF a = b THEN "check" ELSE "unused"
    BY <1>1, <1>4 DEF IInv, ConnInv, Unused
  <2> QED
    BY <1>1, <1>2, <2>1 DEF FirstInv, Unused
<1> QED
  BY <1>2, <1>3, <1>4

LEMMA FirstStep ==
    ASSUME IInv, [Next]_vars
    PROVE  FirstInv'
<1> SUFFICES ASSUME opens' <= 1
             PROVE  FirstInv'
  BY DEF FirstInv
<1>1. opens <= 1
  BY DEF IInv, ConnInv, Next, vars, conn, Open, ConnectFails, Authenticated, Drop,
         HandlerSteps, OpenConnected, OpenHealthy, SubscribeOk, Claim, SubscribeFailed, ErrorSteps,
         ErrorHandler, ErrorConnected, ErrorSubscribed, ErrorHealthy, ErrorInitialized,
         ErrorProgress, Stop, StopTest, StopDisconnect, StopConnected, StopInitialized,
         BootSteps, Check, Fetch, Fill, Mark, Unset, Clear, End
<1> USE <1>1 DEF IInv, ConnInv, FirstInv, Unused, conn, flags
<1>2. CASE Open \/ ConnectFails
  BY <1>2 DEF Open, ConnectFails
<1>3. CASE Authenticated \/ Drop
  BY <1>3 DEF Authenticated, Drop
<1>4. CASE OpenConnected \/ OpenHealthy \/ SubscribeOk \/ SubscribeFailed
  BY <1>4 DEF OpenConnected, OpenHealthy, SubscribeOk, SubscribeFailed
<1>5. CASE ErrorSteps
  BY <1>5 DEF ErrorSteps, ErrorHandler, ErrorConnected, ErrorSubscribed, ErrorHealthy,
              ErrorInitialized, ErrorProgress
<1>6. CASE Stop
  BY <1>6 DEF Stop, StopTest, StopDisconnect, StopConnected, StopInitialized
<1>7. CASE UNCHANGED vars
  BY <1>7 DEF vars
<1> QED
  BY <1>2, <1>3, <1>4, <1>5, <1>6, <1>7, BootStep, ClaimStep DEF Next, HandlerSteps

\* As long as the connection is the first, ws_orders_initialized_ is believed
\* rightly: the cache holds what a REST answer listed.
THEOREM FirstCacheFilled == Spec => []InitializedMeansFilled
<1>1. Init => IInv
  BY DEF Init, IInv, ConnInv, FirstInv, Unused
<1>2. IInv /\ [Next]_vars => IInv'
  BY ConnStep, FirstStep DEF IInv
<1>3. IInv => InitializedMeansFilled
  BY DEF IInv, FirstInv, InitializedMeansFilled
<1> QED
  BY <1>1, <1>2, <1>3, PTL DEF Spec
-----------------------------------------------------------------------------
LEMMA TypeStep ==
    ASSUME TypeOK, [Next]_vars
    PROVE  TypeOK'
<1> USE DEF TypeOK, conn, flags
<1>1. CASE Open \/ ConnectFails \/ Authenticated \/ Drop
  <2>1. CASE Open
    <3>1. opens' \in 0..MaxOpens
      BY <2>1 DEF Open
    <3>2. {link', authed', connected'} \subseteq BOOLEAN
      BY <2>1 DEF Open
    <3> QED
      BY <2>1, <3>1, <3>2 DEF Open
  <2>2. CASE ConnectFails
    <3>1. opens' \in 0..MaxOpens
      BY <2>2 DEF ConnectFails
    <3> QED
      BY <2>2, <3>1 DEF ConnectFails
  <2>3. CASE Authenticated
    BY <2>3 DEF Authenticated
  <2>4. CASE Drop
    BY <2>4 DEF Drop
  <2> QED
    BY <1>1, <2>1, <2>2, <2>3, <2>4
<1>2. CASE OpenConnected \/ OpenHealthy \/ SubscribeOk \/ SubscribeFailed
  BY <1>2 DEF OpenConnected, OpenHealthy, SubscribeOk, SubscribeFailed
<1>3. CASE Claim
  <2>1. \/ UNCHANGED boot
        \/ \E b \in Boots : boot' = [boot EXCEPT ![b] = "check"]
    <3>1. (\E b \in Boots : boot[b] = "unused") =>
            (CHOOSE b \in Boots : boot[b] = "unused") \in Boots
      OBVIOUS
    <3> QED
      BY <1>3, <3>1 DEF Claim
  <2> QED
    BY <1>3, <2>1 DEF Claim
<1>4. CASE ErrorSteps
  BY <1>4 DEF ErrorSteps, ErrorHandler, ErrorConnected, ErrorSubscribed, ErrorHealthy,
              ErrorInitialized, ErrorProgress
<1>5. ASSUME NEW b \in Boots, BootSteps(b)
      PROVE  TypeOK'
  BY <1>5 DEF BootSteps, Check, Fetch, Fill, Mark, Unset, Clear, End
<1>6. CASE Stop
  BY <1>6 DEF Stop, StopTest, StopDisconnect, StopConnected, StopInitialized
<1>7. CASE UNCHANGED vars
  BY <1>7 DEF vars
<1> QED
  BY <1>1, <1>2, <1>3, <1>4, <1>5, <1>6, <1>7 DEF Next, HandlerSteps

\* Every variable of the WebSocket keeps its kind.
THEOREM OrderWsTyping == Spec => []TypeOK
<1>1. Init => TypeOK
  <2>1. 0 \in 0..MaxOpens
    OBVIOUS
  <2>2. Init => {link, authed, closing, connected, healthy, subscribed, initialized,
                 inProgress, filled} \subseteq BOOLEAN
    BY DEF Init
  <2> QED
    BY <2>1, <2>2 DEF Init, TypeOK
<1> QED
  BY <1>1, TypeStep, PTL DEF Spec
=============================================================================
