--------------------------- MODULE SignedRequest ---------------------------
(***************************************************************************)
(* execute_signed_request of cpp_exec/exec_bridge.cpp and the client       *)
(* methods that are one call of it.  A call is paced once (Pacer, which    *)
(* RateLimit implements), then tried up to MaxRetries + 1 times: only a    *)
(* 429 is retried, after a back-off.  Each attempt needs a time stamp; if  *)
(* the cached one (ServerClock) does not serve, the exchange is asked for  *)
(* it with a request of its own, unpaced.  A transport error, a status or  *)
(* body that is neither ends the call with an exception, which the cancels *)
(* turn into "not cancelled".  The exchange is external: it may carry a    *)
(* request out and have its answer lost, or do it after the client's 10 s  *)
(* timeout.                                                                *)
(***************************************************************************)
EXTENDS Pacer, FiniteSets

CONSTANTS TRADE, META,    \* the RestClasses of the methods modelled
          Methods,        \* the client methods the threads call
          MaxRetries,     \* max_retries_config
          Backoff,        \* attempt -> back-off when no retry_after is given
          RetryAfters,    \* retry_after values the exchange may ask for
          MaxCalls,       \* bound on the calls made
          Horizon         \* bound: from here on the clock only serves waits

AllMethods == {"send_order", "cancel_order", "cancel_all_orders", "query_balances"}

ASSUME MethodsAssumption == Methods \subseteq AllMethods
ASSUME RetryAssumption == MaxRetries \in Nat /\ MaxCalls \in Nat /\ Horizon \in Nat
ASSUME ClassAssumption == /\ {TRADE, META} \subseteq Classes
                          /\ Interval \in [Classes -> Nat \ {0}]
ASSUME BackoffAssumption == /\ Backoff \in [0..MaxRetries -> Nat \ {0}]
                            /\ RetryAfters \subseteq Nat \ {0}

VARIABLES calls,          \* calls made so far; a call is known by its number
          call,           \* thread -> the call it is in, 0 when in none
          stage,          \* thread -> where it is in execute_signed_request
          attempt,        \* thread -> the loop's attempt
          until,          \* thread -> end of its back-off
          wire,           \* thread -> its request or answer in transit
          stray,          \* calls given up on while the exchange had them
          method,         \* call -> the client method that made it
          executed,       \* call -> times the exchange carried it out
          sends,          \* call -> requests sent for it
          asks,           \* thread -> requests for the time in its call
          outcome         \* call -> how it ended

reqVars == <<calls, call, stage, attempt, until, wire, stray, method, executed,
             sends, asks, outcome>>
allVars == <<now, booked, permit, signals, calls, call, stage, attempt, until, wire,
             stray, method, executed, sends, asks, outcome>>

Calls == 1..MaxCalls
ClassOf(m) == IF m = "query_balances" THEN META ELSE TRADE

\* What the exchange answers: carried out, rate-limited, refused, or an
\* internal error that does not say whether the request was carried out.
Answers == {"2xx", "429", "4xx", "5xx"}
TimesDone(a) == IF a = "2xx" THEN {1} ELSE IF a = "5xx" THEN {0, 1} ELSE {0}

RInit == /\ Init
         /\ calls = 0
         /\ call = [t \in Threads |-> 0]
         /\ stage = [t \in Threads |-> "idle"]
         /\ attempt = [t \in Threads |-> 0]
         /\ until = [t \in Threads |-> 0]
         /\ asks = [t \in Threads |-> 0]
         /\ wire = [t \in Threads |-> "none"]
         /\ stray = {}
         /\ method = [i \in Calls |-> "none"]
         /\ executed = [i \in Calls |-> 0]
         /\ sends = [i \in Calls |-> 0]
         /\ outcome = [i \in Calls |-> "none"]

\* The call ends: with an answer, or with the exception o says.
Finish(t, o) ==
    /\ call' = [call EXCEPT ![t] = 0]
    /\ stage' = [stage EXCEPT ![t] = "idle"]
    /\ attempt' = [attempt EXCEPT ![t] = 0]
    /\ until' = [until EXCEPT ![t] = 0]
    /\ asks' = [asks EXCEPT ![t] = 0]
    /\ wire' = [wire EXCEPT ![t] = "none"]
    /\ outcome' = [outcome EXCEPT ![call[t]] = o]
\* What the method tells its caller: the cancels catch the exception.
Told(i) == CASE outcome[i] = "none" -> "nothing"
             [] outcome[i] = "ok" -> "done"
             [] OTHER -> IF method[i] \in {"cancel_order", "cancel_all_orders"}
                         THEN "not_cancelled"
                         ELSE "threw"
-----------------------------------------------------------------------------
(* Faulty variants of the steps below: what the properties must tell apart.  *)

\* A transport error is retried like a 429.
CurlErrorRetried(t) ==
    /\ stage[t] = "flight"
    /\ wire[t] \in {"request", "lost"}
    /\ attempt[t] < MaxRetries
    /\ stray' = IF wire[t] = "request" THEN stray \union {call[t]} ELSE stray
    /\ wire' = [wire EXCEPT ![t] = "none"]
    /\ stage' = [stage EXCEPT ![t] = "attempt"]
    /\ attempt' = [attempt EXCEPT ![t] = @ + 1]
    /\ UNCHANGED <<vars, calls, call, until, method, executed, sends, asks, outcome>>

\* Every error status is retried, not only 429.
Receive429OrError(t) ==
    /\ stage[t] = "flight" /\ wire[t] \in {"429", "4xx", "5xx"}
    /\ \E d \in {Backoff[attempt[t]]} \union RetryAfters :
          until' = [until EXCEPT ![t] = now + d]
    /\ stage' = [stage EXCEPT ![t] = "backoff"]
    /\ wire' = [wire EXCEPT ![t] = "none"]
    /\ UNCHANGED <<vars, calls, call, attempt, stray, method, executed, sends, asks, outcome>>

\* The last attempt is told by > instead of >=.
AfterBackoffOneMore(t) ==
    IF attempt[t] > MaxRetries
    THEN Finish(t, "retries")
    ELSE /\ attempt' = [attempt EXCEPT ![t] = @ + 1]
         /\ stage' = [stage EXCEPT ![t] = "attempt"]
         /\ until' = [until EXCEPT ![t] = 0]
         /\ UNCHANGED <<call, wire, asks, outcome>>

\* No CURLOPT_TIMEOUT is set: only a broken connection ends the transfer.
CurlErrorUntimed(t) ==
    /\ stage[t] = "flight"
    /\ wire[t] = "lost"
    /\ Finish(t, "curl")
    /\ UNCHANGED <<vars, calls, stray, method, executed, sends>>
-----------------------------------------------------------------------------
\* The method enters execute_signed_request, and rate_limit with it.
Begin(t, m) ==
    /\ stage[t] = "idle"
    /\ calls < MaxCalls
    /\ Book(t, ClassOf(m))
    /\ calls' = calls + 1
    /\ call' = [call EXCEPT ![t] = calls']
    /\ method' = [method EXCEPT ![calls'] = m]
    /\ stage' = [stage EXCEPT ![t] = "pacing"]
    /\ UNCHANGED <<attempt, until, wire, stray, executed, sends, asks, outcome>>

Pace(t) == (Admit(t) \/ AdmitEarly(t)) /\ UNCHANGED reqVars

\* rate_limit returns: into the retry loop, which does not come back to it.
Paced(t) ==
    /\ stage[t] = "pacing"
    /\ Leave(t)
    /\ stage' = [stage EXCEPT ![t] = "attempt"]
    /\ UNCHANGED <<calls, call, attempt, until, wire, stray, method, executed, sends,
                   asks, outcome>>

\* get_server_time has no cached time to use and asks the exchange, with a
\* request that rate_limit never sees.
AskTime(t) ==
    /\ stage[t] = "attempt"
    /\ stage' = [stage EXCEPT ![t] = "time"]
    /\ asks' = [asks EXCEPT ![t] = @ + 1]
    /\ UNCHANGED <<vars, calls, call, attempt, until, wire, stray, method, executed,
                   sends, outcome>>

\* The attempt has its stamp: a cached one, or what became of the question, be
\* it the exchange's time or, after an error or 5 s without an answer, the host's.
Stamped(t) == stage[t] \in {"attempt", "time"}

\* The request is signed and handed to libcurl.
Send(t) ==
    /\ Stamped(t)
    /\ stage' = [stage EXCEPT ![t] = "flight"]
    /\ wire' = [wire EXCEPT ![t] = "request"]
    /\ sends' = [sends EXCEPT ![call[t]] = @ + 1]
    /\ UNCHANGED <<vars, calls, call, attempt, until, stray, method, executed, asks,
                   outcome>>

\* curl_easy_init failed: nothing is sent.
NoCurl(t) ==
    /\ Stamped(t)
    /\ Finish(t, "nocurl")
    /\ UNCHANGED <<vars, calls, stray, method, executed, sends>>

\* The exchange handles the request and answers.
Exchange(t, a) ==
    /\ wire[t] = "request"
    /\ \E n \in TimesDone(a) : executed' = [executed EXCEPT ![call[t]] = @ + n]
    /\ wire' = [wire EXCEPT ![t] = a]
    /\ UNCHANGED <<vars, calls, call, stage, attempt, until, stray, method, sends, asks, outcome>>

\* The exchange comes to a request whose sender no longer waits.
ExchangeStray(i, a) ==
    /\ i \in stray
    /\ \E n \in TimesDone(a) : executed' = [executed EXCEPT ![i] = @ + n]
    /\ stray' = stray \ {i}
    /\ UNCHANGED <<vars, calls, call, stage, attempt, until, wire, method, sends, asks, outcome>>

\* The request never reaches the exchange, or its answer never the client.
Lose(t) ==
    /\ wire[t] \in Answers \union {"request"}
    /\ wire' = [wire EXCEPT ![t] = "lost"]
    /\ UNCHANGED <<vars, calls, call, stage, attempt, until, stray, method, executed,
                   sends, asks, outcome>>

\* curl_easy_perform fails: the connection broke, or its timeout struck, which
\* it may do while the exchange still has the request.
CurlError(t) ==
    /\ stage[t] = "flight"
    /\ wire[t] \in {"request", "lost"}
    /\ stray' = IF wire[t] = "request" THEN stray \union {call[t]} ELSE stray
    /\ Finish(t, "curl")
    /\ UNCHANGED <<vars, calls, method, executed, sends>>

\* A 2xx: the body is returned, or cannot be parsed and throws.
ReceiveOk(t) ==
    /\ stage[t] = "flight" /\ wire[t] = "2xx"
    /\ \E o \in {"ok", "body"} : Finish(t, o)
    /\ UNCHANGED <<vars, calls, stray, method, executed, sends>>

\* Any status but 2xx and 429 throws.
ReceiveError(t) ==
    /\ stage[t] = "flight" /\ wire[t] \in {"4xx", "5xx"}
    /\ Finish(t, "status")
    /\ UNCHANGED <<vars, calls, stray, method, executed, sends>>

\* A 429: sleep for retry_after, or for an exponential back-off.
Receive429(t) ==
    /\ stage[t] = "flight" /\ wire[t] = "429"
    /\ \E d \in {Backoff[attempt[t]]} \union RetryAfters :
          until' = [until EXCEPT ![t] = now + d]
    /\ stage' = [stage EXCEPT ![t] = "backoff"]
    /\ wire' = [wire EXCEPT ![t] = "none"]
    /\ UNCHANGED <<vars, calls, call, attempt, stray, method, executed, sends, asks, outcome>>

\* After the back-off the last attempt throws, the others are followed by one.
AfterBackoff(t) ==
    IF attempt[t] >= MaxRetries
    THEN Finish(t, "retries")
    ELSE /\ attempt' = [attempt EXCEPT ![t] = @ + 1]
         /\ stage' = [stage EXCEPT ![t] = "attempt"]
         /\ until' = [until EXCEPT ![t] = 0]
         /\ UNCHANGED <<call, wire, asks, outcome>>

\* The sleep is over, or a signal ends it.
EndBackoff(t) ==
    /\ stage[t] = "backoff"
    /\ until[t] <= now
    /\ AfterBackoff(t)
    /\ UNCHANGED <<vars, calls, stray, method, executed, sends>>

CutBackoff(t) ==
    /\ stage[t] = "backoff"
    /\ SignalElsewhere
    /\ AfterBackoff(t)
    /\ UNCHANGED <<calls, stray, method, executed, sends>>

Waiting(t) == \/ permit[t].state = "waiting" /\ permit[t].at > now
              \/ stage[t] = "backoff" /\ until[t] > now

Tick == /\ now < Horizon \/ \E t \in Threads : Waiting(t)
        /\ Advance
        /\ UNCHANGED reqVars

Resolve(t) == CurlError(t) \/ ReceiveOk(t) \/ ReceiveError(t) \/ Receive429(t)

RNext == \/ \E t \in Threads :
               \/ \E m \in Methods : Begin(t, m)
               \/ \E a \in Answers : Exchange(t, a)
               \/ Pace(t) \/ Paced(t) \/ AskTime(t) \/ Send(t) \/ NoCurl(t)
               \/ Lose(t) \/ Resolve(t) \/ EndBackoff(t) \/ CutBackoff(t)
         \/ \E i \in Calls, a \in Answers : ExchangeStray(i, a)
         \/ Tick

RSpec == RInit /\ [][RNext]_allVars

\* A thread inside a call keeps running, time passes, and libcurl's timeouts
\* end a transfer that is not answered, of the time or of the request.  Nothing
\* is assumed of the exchange.
RFairness ==
    /\ WF_allVars(Tick)
    /\ \A t \in Threads : /\ WF_allVars(Admit(t) /\ UNCHANGED reqVars)
                          /\ WF_allVars(Paced(t))
                          /\ WF_allVars(Send(t))
                          /\ WF_allVars(Resolve(t))
                          /\ WF_allVars(EndBackoff(t))

RFairSpec == RSpec /\ RFairness
-----------------------------------------------------------------------------
Outcomes == {"none", "ok", "body", "status", "curl", "retries", "nocurl"}

\* Every variable keeps its kind.
RTypeOK ==
    /\ calls \in 0..MaxCalls
    /\ call \in [Threads -> 0..MaxCalls]
    /\ stage \in [Threads -> {"idle", "pacing", "attempt", "time", "flight",
                           "backoff"}]
    /\ attempt \in [Threads -> 0..MaxRetries]
    /\ until \in [Threads -> Nat]
    /\ wire \in [Threads -> Answers \union {"none", "request", "lost"}]
    /\ stray \subseteq Calls
    /\ method \in [Calls -> Methods \union {"none"}]
    /\ executed \in [Calls -> Nat]
    /\ sends \in [Calls -> Nat]
    /\ asks \in [Threads -> Nat]
    /\ outcome \in [Calls -> Outcomes]

\* No call is carried out twice by the exchange, whatever is lost, late or
\* retried: an order is never placed twice by one send_order.
AtMostOnce == \A i \in Calls : executed[i] <= 1

\* What the caller is told is true where it can be: an answer or an unreadable
\* answer means the call was carried out, giving up on 429s or failing to
\* start libcurl that it was not, nor will be.  A transport error or another
\* status leaves it open.
VerdictHonest ==
    \A i \in Calls :
        /\ Told(i) = "done" \/ outcome[i] = "body" => executed[i] = 1
        /\ outcome[i] \in {"retries", "nocurl"} => executed[i] = 0 /\ i \notin stray

\* A request is sent again only when the exchange neither carried out nor still
\* holds an earlier one of the same call.
ResendOnlyRefused ==
    [][\A i \in Calls : sends'[i] > sends[i] => executed[i] = 0 /\ i \notin stray]_allVars

\* However often it is retried, a call takes one slot, in its method's class: the
\* pacing counts calls and not requests.
OneSlotPerCall ==
    \A c \in Classes :
        Cardinality(booked[c]) = Cardinality({i \in 1..calls : ClassOf(method[i]) = c})

\* For its one slot a call puts no more on the exchange than two requests per
\* attempt, the questions for the time included, which are never paced.
AttemptsBounded ==
    /\ \A i \in Calls : sends[i] <= MaxRetries + 1
    /\ \A t \in Threads :
          call[t] # 0 => sends[call[t]] + asks[t] <= 2 * (MaxRetries + 1)

\* Every call ends, even when the exchange never answers or always says 429.
EveryCallEnds == \A t \in Threads : stage[t] # "idle" ~> stage[t] = "idle"
=============================================================================
