------------------------ MODULE SignedRequestProofs ------------------------
(***************************************************************************)
(* Proofs about SignedRequest, for any threads, calls, retries, back-offs  *)
(* and methods: no call is carried out twice, what the caller is told is   *)
(* true, a request is sent again only after a refusal, and the requests of *)
(* a call are bounded.  It keeps to Pacer, so that slots stay apart and    *)
(* each call takes one.  The last part is about ServerClock, the time      *)
(* stamp that each of these requests carries.                              *)
(***************************************************************************)
EXTENDS SignedRequest, ServerClock, FiniteSetTheorems, TLAPS

USE MethodsAssumption, RetryAssumption

\* The kinds of the variables that the argument is about.
Kinds ==
    /\ calls \in 0..MaxCalls
    /\ call \in [Threads -> 0..MaxCalls]
    /\ stage \in [Threads -> {"idle", "pacing", "attempt", "time", "flight", "backoff"}]
    /\ attempt \in [Threads -> 0..MaxRetries]
    /\ wire \in [Threads -> Answers \union {"none", "request", "lost"}]
    /\ stray \subseteq Calls
    /\ executed \in [Calls -> Nat]
    /\ sends \in [Calls -> Nat]
    /\ asks \in [Threads -> Nat]
    /\ outcome \in [Calls -> Outcomes]

\* Where the exchange cannot have carried the thread's call out.
Clean(t) == \/ stage[t] \in {"pacing", "attempt", "time", "backoff"}
            \/ wire[t] \in {"request", "429"}

\* A thread's call is open, and has been sent once per attempt, with the time
\* asked for at most once per attempt; the exchange has carried it out if its
\* success is on the way, and not while it is Clean.
OpenAt(t) ==
    /\ call[t] = 0 <=> stage[t] = "idle"
    /\ stage[t] = "idle" => attempt[t] = 0 /\ asks[t] = 0
    /\ asks[t] <= IF stage[t] \in {"time", "flight", "backoff"}
                  THEN attempt[t] + 1 ELSE attempt[t]
    /\ call[t] <= calls
    /\ wire[t] # "none" => stage[t] = "flight"
    /\ call[t] # 0 =>
         /\ outcome[call[t]] = "none"
         /\ Clean(t) => executed[call[t]] = 0
         /\ wire[t] = "2xx" => executed[call[t]] = 1
         /\ sends[call[t]] = IF stage[t] \in {"flight", "backoff"}
                             THEN attempt[t] + 1 ELSE attempt[t]
         /\ stage[t] = "pacing" => attempt[t] = 0

\* A call that has not begun, one given up on while the exchange had its
\* request, and those that ended; none is carried out or sent too often.
SettledAt(i) ==
    /\ i > calls => executed[i] = 0 /\ sends[i] = 0 /\ outcome[i] = "none"
    /\ i \in stray => outcome[i] = "curl" /\ executed[i] = 0
    /\ outcome[i] \in {"ok", "body"} => executed[i] = 1
    /\ outcome[i] \in {"retries", "nocurl"} => executed[i] = 0
    /\ executed[i] <= 1
    /\ sends[i] <= MaxRetries + 1

\* A call is in one thread at most.
Apart == \A t, u \in Threads : t # u /\ call[t] # 0 => call[t] # call[u]

IInv == /\ Kinds
        /\ Apart
        /\ \A t \in Threads : OpenAt(t)
        /\ \A i \in Calls : SettledAt(i)

\* What is known of a thread inside a call.
LEMMA InCall ==
    ASSUME IInv, NEW t \in Threads, stage[t] # "idle"
    PROVE  /\ call[t] \in Calls /\ call[t] # 0 /\ call[t] <= calls
           /\ attempt[t] \in 0..MaxRetries
           /\ call[t] \notin stray
           /\ outcome[call[t]] = "none"
           /\ executed[call[t]] \in Nat /\ sends[call[t]] \in Nat
           /\ OpenAt(t) /\ SettledAt(call[t])
<1>1. call[t] \in 0..MaxCalls /\ call[t] # 0 /\ call[t] <= calls
  BY DEF IInv, Kinds, OpenAt
<1>2. call[t] \in Calls
  BY <1>1 DEF Calls
<1>3. outcome[call[t]] = "none" /\ OpenAt(t) /\ SettledAt(call[t])
  BY <1>1, <1>2 DEF IInv, OpenAt
<1> QED
  BY <1>1, <1>2, <1>3 DEF IInv, Kinds, SettledAt

\* A step of thread t that keeps to t and to its call.
LEMMA LocalStep ==
    ASSUME IInv, NEW t \in Threads, stage[t] # "idle", Kinds', calls' = calls,
           NEW i \in Calls, i = call[t],
           \A u \in Threads \ {t} : /\ call'[u] = call[u] /\ stage'[u] = stage[u]
                                    /\ attempt'[u] = attempt[u] /\ wire'[u] = wire[u]
                                    /\ asks'[u] = asks[u],
           \A j \in Calls \ {i} :
               /\ executed'[j] = executed[j] /\ sends'[j] = sends[j]
               /\ outcome'[j] = outcome[j] /\ (j \in stray' <=> j \in stray),
           call'[t] \in {call[t], 0},
           OpenAt(t)', SettledAt(i)'
    PROVE  IInv'
<1>1. Apart'
  BY DEF IInv, Apart
<1>2. ASSUME NEW u \in Threads \ {t}
      PROVE  OpenAt(u)'
  <2>1. call[t] # call[u]
    BY InCall DEF IInv, Apart
  <2>2. call[u] = 0 \/ call[u] \in Calls \ {call[t]}
    <3>1. call[u] \in 0..MaxCalls
      BY DEF IInv, Kinds
    <3> QED
      BY <2>1, <3>1 DEF Calls
  <2>3. OpenAt(u)
    BY DEF IInv
  <2>4. /\ call'[u] = call[u] /\ stage'[u] = stage[u]
        /\ attempt'[u] = attempt[u] /\ wire'[u] = wire[u] /\ asks'[u] = asks[u]
    OBVIOUS
  <2>5. call[u] # 0 => /\ executed'[call[u]] = executed[call[u]]
                       /\ sends'[call[u]] = sends[call[u]]
                       /\ outcome'[call[u]] = outcome[call[u]]
    BY <2>2
  <2> QED
    BY <2>3, <2>4, <2>5 DEF OpenAt, Clean
<1>3. ASSUME NEW j \in Calls \ {i}
      PROVE  SettledAt(j)'
  BY <1>3 DEF IInv, SettledAt
<1> QED
  BY <1>1, <1>2, <1>3 DEF IInv

\* A new call takes the next number, which no thread and no record has.
LEMMA BeginStep ==
    ASSUME IInv, NEW t \in Threads, NEW m \in Methods, Begin(t, m)
    PROVE  IInv'
<1>1. /\ calls < MaxCalls /\ calls' = calls + 1 /\ stage[t] = "idle"
      /\ call' = [call EXCEPT ![t] = calls'] /\ stage' = [stage EXCEPT ![t] = "pacing"]
      /\ UNCHANGED <<attempt, wire, stray, executed, sends, asks, outcome>>
  BY DEF Begin
<1>2. calls \in Nat /\ calls' \in Calls /\ calls' > calls /\ calls' # 0
  BY <1>1 DEF IInv, Kinds, Calls
<1>3. Kinds'
  <2>1. calls' \in 0..MaxCalls
    BY <1>2 DEF Calls
  <2> QED
    BY <1>1, <2>1 DEF IInv, Kinds
<1>4. \A u \in Threads : call[u] \in 0..MaxCalls /\ call[u] <= calls
  BY DEF IInv, Kinds, OpenAt
<1>5. \A u \in Threads : call'[u] = IF u = t THEN calls' ELSE call[u]
  BY <1>1 DEF IInv, Kinds
<1>6. Apart'
  BY <1>2, <1>4, <1>5 DEF IInv, Apart
<1>7. SettledAt(calls')
  BY <1>2 DEF IInv
<1>8. attempt[t] = 0 /\ asks[t] = 0 /\ wire[t] = "none"
  BY <1>1 DEF IInv, OpenAt
<1>9. OpenAt(t)'
  BY <1>1, <1>2, <1>5, <1>7, <1>8 DEF OpenAt, SettledAt, Clean, IInv, Kinds
<1>10. ASSUME NEW u \in Threads \ {t}
       PROVE  OpenAt(u)'
  <2>1. OpenAt(u) /\ call[u] \in Int /\ calls' > calls /\ calls \in Int
    BY <1>2, <1>4 DEF IInv
  <2>2. call'[u] = call[u] /\ stage'[u] = stage[u] /\ call[u] <= calls'
    BY <1>1, <1>2, <1>4, <1>5 DEF IInv, Kinds
  <2> QED
    BY <1>1, <2>1, <2>2 DEF OpenAt, Clean
<1>11. ASSUME NEW i \in Calls
       PROVE  SettledAt(i)'
  BY <1>1, <1>2 DEF IInv, SettledAt, Calls
<1> QED
  BY <1>3, <1>6, <1>9, <1>10, <1>11 DEF IInv

LEMMA AskStep ==
    ASSUME IInv, NEW t \in Threads, AskTime(t)
    PROVE  IInv'
<1> USE DEF AskTime
<1>i. PICK i \in Calls : i = call[t]
  BY InCall
<1>1. Kinds'
  BY DEF IInv, Kinds
<1>2. OpenAt(t)' /\ SettledAt(i)'
  BY <1>i, InCall DEF IInv, Kinds, OpenAt, SettledAt, Clean
<1> QED
  BY <1>i, <1>1, <1>2, LocalStep DEF IInv, Kinds

LEMMA SendStep ==
    ASSUME IInv, NEW t \in Threads, Send(t)
    PROVE  IInv'
<1> USE DEF Send, Stamped
<1>i. PICK i \in Calls : i = call[t]
  BY InCall
<1>1. Kinds'
  BY InCall DEF IInv, Kinds
<1>2. OpenAt(t)' /\ SettledAt(i)'
  BY <1>i, InCall DEF IInv, Kinds, OpenAt, SettledAt, Clean
<1> QED
  BY <1>i, <1>1, <1>2, LocalStep DEF IInv, Kinds

LEMMA ExchangeStep ==
    ASSUME IInv, NEW t \in Threads, NEW a \in Answers, Exchange(t, a)
    PROVE  IInv'
<1>1. PICK n \in TimesDone(a) : executed' = [executed EXCEPT ![call[t]] = @ + n]
  BY DEF Exchange
<1>2. /\ wire[t] = "request" /\ wire' = [wire EXCEPT ![t] = a]
      /\ UNCHANGED <<calls, call, stage, attempt, stray, sends, asks, outcome>>
  BY DEF Exchange
<1>3. n \in {0, 1} /\ (a = "2xx" => n = 1) /\ (a = "429" => n = 0)
  BY <1>1 DEF TimesDone
<1>4. stage[t] = "flight"
  BY <1>2 DEF IInv, OpenAt
<1>5. executed[call[t]] = 0
  BY <1>2, <1>4, InCall DEF OpenAt, Clean
<1>i. PICK i \in Calls : i = call[t]
  BY <1>4, InCall
<1>6. Kinds' /\ executed'[call[t]] = n
  BY <1>1, <1>2, <1>3, <1>4, <1>5, InCall DEF IInv, Kinds
<1>7. OpenAt(t)' /\ SettledAt(i)'
  BY <1>i, <1>2, <1>3, <1>4, <1>6, InCall DEF IInv, Kinds, OpenAt, SettledAt, Clean, Answers
<1> QED
  BY <1>i, <1>1, <1>2, <1>4, <1>6, <1>7, LocalStep DEF IInv, Kinds

\* Nobody is in a call whose request is on its own.
LEMMA StrayStep ==
    ASSUME IInv, NEW i \in Calls, NEW a \in Answers, ExchangeStray(i, a)
    PROVE  IInv'
<1>1. PICK n \in {0, 1} : executed' = [executed EXCEPT ![i] = @ + n]
  BY DEF ExchangeStray, TimesDone
<1>2. /\ i \in stray /\ stray' = stray \ {i}
      /\ UNCHANGED <<calls, call, stage, attempt, wire, sends, asks, outcome>>
  BY DEF ExchangeStray
<1>3. outcome[i] = "curl" /\ executed[i] = 0 /\ SettledAt(i)
  BY <1>2 DEF IInv, SettledAt
<1>4. executed' \in [Calls -> Nat] /\ executed'[i] = n
  BY <1>1, <1>3 DEF IInv, Kinds
<1>5. \A j \in Calls \ {i} : executed'[j] = executed[j]
  BY <1>1 DEF IInv, Kinds
<1>6. Kinds' /\ Apart'
  BY <1>2, <1>4 DEF IInv, Kinds, Apart
<1>7. ASSUME NEW t \in Threads
      PROVE  OpenAt(t)'
  <2>1. OpenAt(t)
    BY DEF IInv
  <2>2. call[t] # 0 => call[t] \in Calls \ {i}
    BY <1>3, <2>1 DEF IInv, Kinds, Calls, OpenAt
  <2>3. call[t] # 0 => executed'[call[t]] = executed[call[t]]
    BY <1>5, <2>2
  <2> QED
    BY <1>2, <2>1, <2>3 DEF OpenAt, Clean
<1>8. SettledAt(i)'
  BY <1>2, <1>3, <1>4 DEF IInv, Kinds, SettledAt
<1>9. ASSUME NEW j \in Calls \ {i}
      PROVE  SettledAt(j)'
  BY <1>2, <1>5 DEF IInv, SettledAt
<1> QED
  BY <1>6, <1>7, <1>8, <1>9 DEF IInv

LEMMA LoseStep ==
    ASSUME IInv, NEW t \in Threads, Lose(t)
    PROVE  IInv'
<1> USE DEF Lose
<1>1. stage[t] = "flight"
  BY DEF IInv, OpenAt, Answers
<1>i. PICK i \in Calls : i = call[t]
  BY <1>1, InCall
<1>2. Kinds'
  BY DEF IInv, Kinds
<1>3. OpenAt(t)' /\ SettledAt(i)'
  BY <1>i, <1>1, InCall DEF IInv, Kinds, OpenAt, SettledAt, Clean
<1> QED
  BY <1>i, <1>1, <1>2, <1>3, LocalStep DEF IInv, Kinds

\* A call may end with a transport error and leave its request behind, or with
\* a verdict that fits what the exchange did.
LEMMA FinishStep ==
    ASSUME IInv, NEW t \in Threads, stage[t] # "idle", NEW o \in Outcomes \ {"none"},
           Finish(t, o),
           \/ stray' = stray
           \/ o = "curl" /\ wire[t] = "request" /\ stray' = stray \union {call[t]},
           o \in {"ok", "body"} => wire[t] = "2xx",
           o \in {"retries", "nocurl"} => stage[t] \in {"attempt", "time", "backoff"},
           UNCHANGED <<calls, executed, sends>>
    PROVE  IInv'
<1>1. /\ call' = [call EXCEPT ![t] = 0] /\ stage' = [stage EXCEPT ![t] = "idle"]
      /\ attempt' = [attempt EXCEPT ![t] = 0] /\ wire' = [wire EXCEPT ![t] = "none"]
      /\ asks' = [asks EXCEPT ![t] = 0]
      /\ outcome' = [outcome EXCEPT ![call[t]] = o]
  BY DEF Finish
<1>i. PICK i \in Calls : i = call[t]
  BY InCall
<1>2. Kinds'
  BY <1>1, InCall DEF IInv, Kinds
<1>3. OpenAt(t)'
  BY <1>1 DEF IInv, Kinds, OpenAt
<1>4. outcome'[i] = o
  BY <1>i, <1>1, InCall DEF IInv, Kinds
<1>5. SettledAt(i)'
  BY <1>i, <1>4, InCall DEF IInv, Kinds, SettledAt, OpenAt, Clean, Outcomes
<1>6. \A j \in Calls \ {i} : outcome'[j] = outcome[j] /\ (j \in stray' <=> j \in stray)
  BY <1>i, <1>1 DEF IInv, Kinds
<1> QED
  BY <1>i, <1>1, <1>2, <1>3, <1>5, <1>6, LocalStep DEF IInv, Kinds

LEMMA Receive429Step ==
    ASSUME IInv, NEW t \in Threads, Receive429(t)
    PROVE  IInv'
<1> USE DEF Receive429
<1>i. PICK i \in Calls : i = call[t]
  BY InCall
<1>1. Kinds'
  BY DEF IInv, Kinds
<1>2. OpenAt(t)' /\ SettledAt(i)'
  BY <1>i, InCall DEF IInv, Kinds, OpenAt, SettledAt, Clean
<1> QED
  BY <1>i, <1>1, <1>2, LocalStep DEF IInv, Kinds

LEMMA ResolveStep ==
    ASSUME IInv, NEW t \in Threads, Resolve(t)
    PROVE  IInv'
<1>1. CASE CurlError(t)
  BY <1>1, FinishStep DEF CurlError, Outcomes
<1>2. CASE ReceiveOk(t)
  <2>1. PICK o \in {"ok", "body"} : Finish(t, o)
    BY <1>2 DEF ReceiveOk
  <2> QED
    BY <1>2, <2>1, FinishStep DEF ReceiveOk, Outcomes
<1>3. CASE ReceiveError(t)
  BY <1>3, FinishStep DEF ReceiveError, Outcomes
<1> QED
  BY <1>1, <1>2, <1>3, Receive429Step DEF Resolve

\* The last attempt ends the call, so that no call is sent once too often.
LEMMA BackoffStep ==
    ASSUME IInv, NEW t \in Threads, EndBackoff(t) \/ CutBackoff(t)
    PROVE  IInv'
<1>1. /\ stage[t] = "backoff" /\ AfterBackoff(t)
      /\ UNCHANGED <<calls, stray, executed, sends>>
  BY DEF EndBackoff, CutBackoff
<1>2. CASE attempt[t] >= MaxRetries
  BY <1>1, <1>2, FinishStep DEF AfterBackoff, Outcomes
<1>3. CASE ~(attempt[t] >= MaxRetries)
  <2>1. /\ attempt' = [attempt EXCEPT ![t] = @ + 1]
        /\ stage' = [stage EXCEPT ![t] = "attempt"]
        /\ UNCHANGED <<call, wire, asks, outcome>>
    BY <1>1, <1>3 DEF AfterBackoff
  <2>i. PICK i \in Calls : i = call[t]
    BY <1>1, InCall
  <2>2. Kinds'
    BY <1>1, <1>3, <2>1, InCall DEF IInv, Kinds
  <2>3. OpenAt(t)' /\ SettledAt(i)'
    BY <2>i, <1>1, <2>1, InCall DEF IInv, Kinds, OpenAt, SettledAt, Clean
  <2> QED
    BY <2>i, <1>1, <2>1, <2>2, <2>3, LocalStep DEF IInv, Kinds
<1> QED
  BY <1>2, <1>3

LEMMA PacedStep ==
    ASSUME IInv, NEW t \in Threads, Paced(t)
    PROVE  IInv'
<1> USE DEF Paced
<1>i. PICK i \in Calls : i = call[t]
  BY InCall
<1>1. Kinds'
  BY DEF IInv, Kinds
<1>2. OpenAt(t)' /\ SettledAt(i)'
  BY <1>i, InCall DEF IInv, Kinds, OpenAt, SettledAt, Clean
<1> QED
  BY <1>i, <1>1, <1>2, LocalStep DEF IInv, Kinds

LEMMA SameCalls ==
    ASSUME IInv, UNCHANGED reqVars
    PROVE  IInv'
BY DEF reqVars, IInv, Kinds, Apart, OpenAt, SettledAt, Clean

LEMMA InvStep == IInv /\ [RNext]_allVars => IInv'
<1> SUFFICES ASSUME IInv, [RNext]_allVars
             PROVE  IInv'
  OBVIOUS
<1>1. ASSUME NEW t \in Threads, NEW m \in Methods, Begin(t, m)
      PROVE  IInv'
  BY <1>1, BeginStep
<1>2. ASSUME NEW t \in Threads, NEW a \in Answers, Exchange(t, a)
      PROVE  IInv'
  BY <1>2, ExchangeStep
<1>3. ASSUME NEW t \in Threads, Pace(t) \/ Tick
      PROVE  IInv'
  BY <1>3, SameCalls DEF Pace, Tick
<1>4. ASSUME NEW t \in Threads, NoCurl(t)
      PROVE  IInv'
  BY <1>4, FinishStep DEF NoCurl, Stamped, Outcomes
<1>5. ASSUME NEW t \in Threads,
             \/ Paced(t) \/ AskTime(t) \/ Send(t) \/ Lose(t) \/ Resolve(t)
             \/ EndBackoff(t) \/ CutBackoff(t)
      PROVE  IInv'
  BY <1>5, PacedStep, AskStep, SendStep, LoseStep, ResolveStep, BackoffStep
<1>6. ASSUME NEW i \in Calls, NEW a \in Answers, ExchangeStray(i, a)
      PROVE  IInv'
  BY <1>6, StrayStep
<1>7. CASE Tick \/ UNCHANGED allVars
  BY <1>7, SameCalls DEF Tick, allVars, reqVars
<1> QED
  BY <1>1, <1>2, <1>3, <1>4, <1>5, <1>6, <1>7 DEF RNext

LEMMA InvInit == RInit => IInv
BY DEF RInit, IInv, Kinds, Apart, OpenAt, SettledAt, Clean, Calls, Answers, Outcomes

THEOREM RInvariance == RSpec => []IInv
BY InvInit, InvStep, PTL DEF RSpec
-----------------------------------------------------------------------------
\* For every number of retries and every loss or delay, the exchange carries no
\* call out twice.
THEOREM Once == RSpec => []AtMostOnce
<1>1. IInv => AtMostOnce
  BY DEF IInv, SettledAt, AtMostOnce
<1> QED
  BY <1>1, RInvariance, PTL

\* For its one slot a call puts no more than 2 * (MaxRetries + 1) requests on
\* the exchange, its questions for the time included.
THEOREM FewAttempts == RSpec => []AttemptsBounded
<1>1. IInv => AttemptsBounded
  <2> SUFFICES ASSUME IInv
               PROVE  AttemptsBounded
    OBVIOUS
  <2>1. \A i \in Calls : sends[i] <= MaxRetries + 1
    BY DEF IInv, SettledAt
  <2>2. ASSUME NEW t \in Threads, call[t] # 0
        PROVE  sends[call[t]] + asks[t] <= 2 * (MaxRetries + 1)
    <3>1. stage[t] # "idle"
      BY <2>2 DEF IInv, OpenAt
    <3>2. asks[t] <= MaxRetries + 1 /\ asks[t] \in Nat
      BY <3>1, InCall DEF IInv, Kinds, OpenAt
    <3> QED
      BY <2>1, <3>1, <3>2, InCall
  <2> QED
    BY <2>1, <2>2 DEF AttemptsBounded
<1> QED
  BY <1>1, RInvariance, PTL

\* What execute_signed_request and the cancels tell their callers is true.
THEOREM Honesty == RSpec => []VerdictHonest
<1>1. IInv => VerdictHonest
  <2> SUFFICES ASSUME IInv, NEW i \in Calls
               PROVE  /\ Told(i) = "done" \/ outcome[i] = "body" => executed[i] = 1
                      /\ outcome[i] \in {"retries", "nocurl"} =>
                           executed[i] = 0 /\ i \notin stray
    BY DEF VerdictHonest
  <2>1. Told(i) = "done" => outcome[i] = "ok"
    BY DEF Told
  <2> QED
    BY <2>1 DEF IInv, SettledAt
<1> QED
  BY <1>1, RInvariance, PTL

\* A request is sent again only when the earlier ones were all refused.
THEOREM Resending == RSpec => ResendOnlyRefused
<1>1. IInv /\ [RNext]_allVars =>
        [\A i \in Calls : sends'[i] > sends[i] => executed[i] = 0 /\ i \notin stray]_allVars
  <2> SUFFICES ASSUME IInv, [RNext]_allVars, NEW i \in Calls, sends'[i] > sends[i]
               PROVE  executed[i] = 0 /\ i \notin stray
    OBVIOUS
  <2>1. sends[i] \in Nat
    BY DEF IInv, Kinds
  <2>2. PICK t \in Threads : Send(t)
    BY <2>1 DEF RNext, Begin, Exchange, Pace, Paced, AskTime, NoCurl, Lose, Resolve, CurlError,
                ReceiveOk, ReceiveError, Receive429, EndBackoff, CutBackoff,
                ExchangeStray, Tick, reqVars, allVars
  <2>3. i = call[t] /\ stage[t] \in {"attempt", "time"}
    BY <2>2 DEF Send, Stamped, IInv, Kinds
  <2> QED
    BY <2>2, <2>3, InCall DEF OpenAt, Clean
<1> QED
  BY <1>1, RInvariance, PTL DEF RSpec, ResendOnlyRefused
-----------------------------------------------------------------------------
\* The kinds that the argument above leaves aside.
Rest == /\ now \in Nat
        /\ until \in [Threads -> Nat]
        /\ method \in [Calls -> Methods \union {"none"}]

LEMMA RestStep == IInv /\ Rest /\ [RNext]_allVars => Rest'
<1> SUFFICES ASSUME IInv, Rest, [RNext]_allVars
             PROVE  Rest'
  OBVIOUS
<1> USE DEF Rest
<1>1. ASSUME NEW t \in Threads, NEW m \in Methods, Begin(t, m)
      PROVE  Rest'
  <2>1. calls' \in Calls
    BY <1>1 DEF Begin, IInv, Kinds, Calls
  <2> QED
    BY <1>1, <2>1 DEF Begin, Book
<1>2. ASSUME NEW t \in Threads, NEW o, Finish(t, o), UNCHANGED <<now, method>>
      PROVE  Rest'
  BY <1>2 DEF Finish
<1>3. ASSUME NEW t \in Threads, Receive429(t)
      PROVE  Rest'
  <2>1. PICK d \in {Backoff[attempt[t]]} \union RetryAfters :
          until' = [until EXCEPT ![t] = now + d]
    BY <1>3 DEF Receive429
  <2>2. d \in Nat
    BY <2>1, BackoffAssumption DEF IInv, Kinds
  <2> QED
    BY <1>3, <2>1, <2>2 DEF Receive429, vars
<1>4. ASSUME NEW t \in Threads, Resolve(t) \/ NoCurl(t)
      PROVE  Rest'
  <2>1. CASE CurlError(t) \/ ReceiveOk(t) \/ ReceiveError(t) \/ NoCurl(t)
    BY <1>2, <2>1 DEF CurlError, ReceiveOk, ReceiveError, NoCurl, vars
  <2> QED
    BY <1>3, <1>4, <2>1 DEF Resolve
<1>5. ASSUME NEW t \in Threads, EndBackoff(t) \/ CutBackoff(t)
      PROVE  Rest'
  <2>1. AfterBackoff(t) /\ UNCHANGED <<now, method>>
    BY <1>5 DEF EndBackoff, CutBackoff, SignalElsewhere, vars
  <2> QED
    BY <1>2, <2>1 DEF AfterBackoff
<1>6. ASSUME NEW t \in Threads, NEW a \in Answers,
             Exchange(t, a) \/ Pace(t) \/ Paced(t) \/ AskTime(t) \/ Send(t) \/ Lose(t)
      PROVE  Rest'
  BY <1>6 DEF Exchange, Pace, Admit, AdmitEarly, Paced, Leave, AskTime, Send, Lose, reqVars, vars
<1>7. ASSUME NEW i \in Calls, NEW a \in Answers, ExchangeStray(i, a)
      PROVE  Rest'
  BY <1>7 DEF ExchangeStray, vars
<1>8. CASE Tick \/ UNCHANGED allVars
  BY <1>8 DEF Tick, Advance, reqVars, allVars
<1>9. "2xx" \in Answers
  BY DEF Answers
<1> QED
  BY <1>1, <1>4, <1>5, <1>6, <1>7, <1>8, <1>9 DEF RNext

\* Every variable of the client keeps its kind.
THEOREM RequestTyping == RSpec => []RTypeOK
<1>1. RInit => Rest
  BY DEF RInit, Init, Rest
<1>2. IInv /\ Rest => RTypeOK
  BY DEF IInv, Kinds, Rest, RTypeOK
<1> QED
  BY <1>1, <1>2, RestStep, RInvariance, PTL DEF RSpec
-----------------------------------------------------------------------------
(***************************************************************************)
(* The pacing seen from here.                                              *)
(***************************************************************************)

\* The retry loop keeps to Pacer: it books once per call, leaves once paced,
\* and its back-off is none of the pacing's business but for the signals.
THEOREM KeepsToPacer == RSpec => Spec
<1>1. RInit => Init
  BY DEF RInit
<1>2. [RNext]_allVars => [Next]_vars
  <2> SUFFICES ASSUME [RNext]_allVars
               PROVE  [Next]_vars
    OBVIOUS
  <2>1. ASSUME NEW t \in Threads, NEW m \in Methods, Begin(t, m)
        PROVE  Next
    <3>1. ClassOf(m) \in Classes
      BY ClassAssumption DEF ClassOf
    <3> QED
      BY <2>1, <3>1 DEF Begin, Next
  <2>2. ASSUME NEW t \in Threads, Pace(t) \/ Paced(t)
        PROVE  Next
    BY <2>2 DEF Pace, Paced, Next
  <2>3. ASSUME NEW t \in Threads, CutBackoff(t)
        PROVE  Next
    BY <2>3 DEF CutBackoff, Next
  <2>4. ASSUME NEW t \in Threads, NEW a \in Answers,
               \/ Exchange(t, a) \/ AskTime(t) \/ Send(t) \/ NoCurl(t) \/ Lose(t)
               \/ EndBackoff(t)
        PROVE  UNCHANGED vars
    BY <2>4 DEF Exchange, AskTime, Send, NoCurl, Lose, EndBackoff
  <2>5. ASSUME NEW t \in Threads, Resolve(t)
        PROVE  UNCHANGED vars
    BY <2>5 DEF Resolve, CurlError, ReceiveOk, ReceiveError, Receive429
  <2>6. ASSUME NEW i \in Calls, NEW a \in Answers, ExchangeStray(i, a)
        PROVE  UNCHANGED vars
    BY <2>6 DEF ExchangeStray
  <2>7. CASE Tick
    BY <2>7 DEF Tick, Next
  <2>8. CASE UNCHANGED allVars
    BY <2>8 DEF allVars, vars
  <2>9. "2xx" \in Answers
    BY DEF Answers
  <2> QED
    BY <2>1, <2>2, <2>3, <2>4, <2>5, <2>6, <2>7, <2>8, <2>9 DEF RNext
<1> QED
  BY <1>1, <1>2, PTL DEF RSpec, Spec

\* What Pacer's users may count on, by Pacer's steps alone.
Spaced == /\ now \in Nat /\ booked \in [Classes -> SUBSET Nat]
          /\ \A c \in Classes : IsFiniteSet(booked[c])
          /\ SlotsApart

\* A slot that is free is an interval past the others, hence new.
LEMMA FreeIsNew ==
  ASSUME Spaced, NEW c \in Classes, NEW s \in Free(c)
  PROVE  s \in Nat /\ s \notin booked[c] /\ \A b \in booked[c] : b + Interval[c] <= s
<1>1. Interval[c] \in Nat \ {0} /\ booked[c] \subseteq Nat
  BY ClassAssumption DEF Spaced
<1> QED
  BY <1>1 DEF Free, Spaced

LEMMA SpacedStep == Spaced /\ [Next]_vars => Spaced'
<1> SUFFICES ASSUME Spaced, [Next]_vars
             PROVE  Spaced'
  OBVIOUS
<1>1. ASSUME NEW t \in Threads, NEW c \in Classes, Book(t, c)
      PROVE  Spaced'
  <2>1. PICK s \in Free(c) : booked' = [booked EXCEPT ![c] = @ \union {s}]
    BY <1>1 DEF Book
  <2>2. /\ s \in Nat /\ booked[c] \subseteq Nat /\ Interval[c] \in Nat \ {0}
        /\ \A b \in booked[c] : b + Interval[c] <= s
    BY FreeIsNew, ClassAssumption DEF Spaced
  <2>3. /\ booked'[c] = booked[c] \union {s}
        /\ \A d \in Classes \ {c} : booked'[d] = booked[d]
        /\ booked' \in [Classes -> SUBSET Nat] /\ now' = now
    BY <1>1, <2>1, <2>2 DEF Spaced, Book
  <2>4. \A d \in Classes : IsFiniteSet(booked'[d])
    BY <2>3, FS_AddElement DEF Spaced
  <2>5. \A a, b \in booked'[c] : a < b => a + Interval[c] <= b
    BY <2>2, <2>3 DEF Spaced, SlotsApart
  <2> QED
    BY <2>3, <2>4, <2>5 DEF Spaced, SlotsApart
<1>2. CASE /\ booked' = booked /\ now' \in {now, now + 1}
  BY <1>2 DEF Spaced, SlotsApart
<1> QED
  BY <1>1, <1>2 DEF Next, Admit, AdmitEarly, Leave, SignalElsewhere, Advance, vars

\* Under the retry loop the slots of a class stay an interval apart.
THEOREM PacedApart == RSpec => []SlotsApart
<1>1. Init => Spaced
  BY FS_EmptySet DEF Init, Spaced, SlotsApart
<1>2. Spaced => SlotsApart
  BY DEF Spaced
<1> QED
  BY <1>1, <1>2, SpacedStep, KeepsToPacer, PTL DEF Spec

CallsOf(c) == {i \in 1..calls : ClassOf(method[i]) = c}

\* A call is begun with its slot, and its method is not changed afterwards.
LEMMA SlotStep ==
  ASSUME IInv, Rest, Spaced, OneSlotPerCall, [RNext]_allVars
  PROVE  OneSlotPerCall'
<1> USE DEF OneSlotPerCall
<1>1. ASSUME NEW t \in Threads, NEW m \in Methods, Begin(t, m)
      PROVE  OneSlotPerCall'
  <2>1. PICK s \in Free(ClassOf(m)) :
          booked' = [booked EXCEPT ![ClassOf(m)] = @ \union {s}]
    BY <1>1 DEF Begin, Book
  <2>2. calls \in Nat /\ calls' = calls + 1 /\ calls' \in Calls
    BY <1>1 DEF Begin, IInv, Kinds, Calls
  <2>3. method'[calls + 1] = m /\ \A i \in 1..calls : method'[i] = method[i]
    BY <1>1, <2>2 DEF Begin, Rest, Calls
  <2>4. ClassOf(m) \in Classes
    BY ClassAssumption DEF ClassOf
  <2>5. ASSUME NEW c \in Classes, c # ClassOf(m)
        PROVE  Cardinality(booked'[c]) = Cardinality(CallsOf(c)')
    <3>1. CallsOf(c)' = CallsOf(c)
      BY <2>2, <2>3, <2>5 DEF CallsOf
    <3>2. booked'[c] = booked[c]
      BY <2>1, <2>5 DEF Spaced
    <3> QED
      BY <3>1, <3>2 DEF CallsOf
  <2>6. Cardinality(booked'[ClassOf(m)]) = Cardinality(CallsOf(ClassOf(m))')
    <3> DEFINE c == ClassOf(m)
    <3>1. CallsOf(c)' = CallsOf(c) \union {calls + 1}
      BY <2>2, <2>3 DEF CallsOf
    <3>2. IsFiniteSet(CallsOf(c)) /\ calls + 1 \notin CallsOf(c)
      <4>1. IsFiniteSet(1..calls)
        BY <2>2, FS_Interval, 1 \in Int, calls \in Int
      <4> QED
        BY <2>2, <4>1, FS_Subset DEF CallsOf
    <3>3. booked'[c] = booked[c] \union {s} /\ s \notin booked[c] /\ IsFiniteSet(booked[c])
      BY <2>1, <2>4, FreeIsNew DEF Spaced
    <3>4. Cardinality(CallsOf(c)') = Cardinality(CallsOf(c)) + 1
      BY <3>1, <3>2, FS_AddElement
    <3>5. Cardinality(booked'[c]) = Cardinality(booked[c]) + 1
      BY <3>3, FS_AddElement
    <3> QED
      BY <2>4, <3>4, <3>5 DEF CallsOf
  <2> QED
    BY <2>5, <2>6 DEF CallsOf
<1>2. CASE UNCHANGED <<booked, calls, method>>
  BY <1>2
<1>3. ASSUME NEW t \in Threads, Pace(t) \/ Paced(t) \/ CutBackoff(t)
      PROVE  OneSlotPerCall'
  BY <1>2, <1>3 DEF Pace, Admit, AdmitEarly, Paced, Leave, CutBackoff, SignalElsewhere, reqVars
<1>4. ASSUME NEW t \in Threads, NEW a \in Answers,
             \/ Exchange(t, a) \/ AskTime(t) \/ Send(t) \/ NoCurl(t) \/ Lose(t)
             \/ Resolve(t) \/ EndBackoff(t)
      PROVE  OneSlotPerCall'
  BY <1>2, <1>4 DEF Exchange, AskTime, Send, NoCurl, Lose, Resolve, CurlError, ReceiveOk, ReceiveError,
     Receive429, EndBackoff, vars
<1>5. ASSUME NEW i \in Calls, NEW a \in Answers, ExchangeStray(i, a)
      PROVE  OneSlotPerCall'
  BY <1>2, <1>5 DEF ExchangeStray, vars
<1>6. CASE Tick \/ UNCHANGED allVars
  BY <1>2, <1>6 DEF Tick, Advance, reqVars, allVars
<1>7. "2xx" \in Answers
  BY DEF Answers
<1> QED
  BY <1>1, <1>3, <1>4, <1>5, <1>6, <1>7 DEF RNext

\* However often calls are retried, slots are taken by calls, one each: with
\* FewAttempts at most 2 * (MaxRetries + 1) requests are sent for each slot.
THEOREM SlotsPaid == RSpec => []OneSlotPerCall
<1>1. RInit => Rest /\ Spaced /\ OneSlotPerCall
  <2> SUFFICES ASSUME RInit
               PROVE  Rest /\ Spaced /\ OneSlotPerCall
    OBVIOUS
  <2>1. Rest /\ Spaced
    BY FS_EmptySet DEF RInit, Init, Rest, Spaced, SlotsApart
  <2>2. ASSUME NEW c \in Classes
        PROVE  booked[c] = {} /\ CallsOf(c) = {}
    BY DEF RInit, Init, CallsOf
  <2> QED
    BY <2>1, <2>2 DEF OneSlotPerCall, CallsOf
<1>2. Spaced /\ [Next]_vars => Spaced'
  BY SpacedStep
<1> QED
  BY <1>1, <1>2, KeepsToPacer, RestStep, SlotStep, RInvariance, PTL DEF RSpec, Spec
-----------------------------------------------------------------------------
(***************************************************************************)
(* The time stamps that the requests carry: ServerClock, for any threads,  *)
(* life of a cached time, timeout, pauses and error of the host's clock.   *)
(***************************************************************************)
USE ClockAssumption

\* A date that the cached time is at most a timeout older than: an answer is
\* stored, over whatever was there, within a timeout of being given.
Dated(d) == cachedTime > 0 => d <= cachedTime - Epoch + Timeout

\* The statics, and what each thread knows at each place: how long ago it came
\* there, and that the date behind its `elapsed` fits whatever time is cached.
Statics == /\ cachedTime = 0 \/ cachedTime \in Epoch .. ServerTime
           /\ lastFetch <= clock /\ Dated(lastFetch)

\* The latest moment that t's `elapsed`, cut as it is, may be counted from.
From(t) == began[t] - elapsed[t] * Second - (Second - 1)

Local(t) ==
    /\ pc[t] # "idle" => began[t] <= since[t] /\ since[t] <= clock
    /\ pc[t] \in {"age", "look", "hit", "date", "return"} => clock <= since[t] + MaxPause
    /\ pc[t] = "age" => since[t] <= began[t]
    /\ pc[t] = "look" => since[t] <= began[t] + MaxPause
    /\ pc[t] = "hit" => /\ since[t] <= began[t] + 2 * MaxPause
                        /\ cachedTime > 0 /\ elapsed[t] * Second <= Lead
                        /\ got[t] \in Epoch .. ServerTime
                        /\ From(t) <= got[t] - Epoch + Timeout
    /\ pc[t] \in {"look", "hit"} => From(t) <= clock /\ Dated(From(t))
    /\ pc[t] \in {"ask", "answered"} => clock <= since[t] + Timeout
    /\ pc[t] = "answered" => got[t] \in since[t] + Epoch .. ServerTime
    /\ pc[t] \in {"date", "return"} => cachedTime > 0 /\ got[t] \in Epoch .. ServerTime
    /\ pc[t] = "date" => /\ since[t] <= got[t] - Epoch + Timeout
                         /\ Dated(since[t])
    /\ pc[t] = "return" => /\ since[t] - MaxPause <= got[t] - Epoch + Timeout
                           /\ Dated(since[t] - MaxPause)

ClockInv == /\ Statics /\ \A t \in Callers : Local(t)
            /\ StampNotStale /\ StampNotAhead

\* What is cut off is less than a second.
LEMMA CutToSeconds ==
  ASSUME NEW d \in Int
  PROVE  Seconds(d) \in Int /\ d - (Second - 1) <= Seconds(d) * Second
<1>1. CASE d >= 0
  <2>1. /\ Seconds(d) = d \div Second /\ d \div Second \in Int
        /\ d = Second * (d \div Second) + (d % Second) /\ d % Second \in 0..(Second - 1)
    BY <1>1 DEF Seconds
  <2> QED
    BY <2>1
<1>2. CASE d < 0
  <2>1. /\ Seconds(d) = -((-d) \div Second) /\ (-d) \div Second \in Int
        /\ -d = Second * ((-d) \div Second) + ((-d) % Second)
        /\ (-d) % Second \in 0..(Second - 1)
    BY <1>2 DEF Seconds
  <2> QED
    BY <2>1
<1> QED
  BY <1>1, <1>2

\* A cached time is used for Life - 1 whole seconds.
LEMMA WholeLife ==
  ASSUME NEW e \in Int, e < Life
  PROVE  e * Second <= Lead
<1>1. CASE Life = 0
  <2>1. (-e) * Second >= 0
    BY <1>1
  <2> QED
    BY <1>1, <2>1 DEF Lead
<1>2. CASE Life # 0
  <2>1. (Life - 1 - e) * Second >= 0
    OBVIOUS
  <2> QED
    BY <1>2, <2>1 DEF Lead
<1> QED
  BY <1>1, <1>2

LEMMA ClockTypeStep ==
  ASSUME ClockTypeOK, [ClockNext]_clockVars
  PROVE  ClockTypeOK'
<1> USE DEF ClockTypeOK, Goto, ReturnStamp, ServerTime
<1>1. ASSUME NEW t \in Callers, Enter(t) \/ Age(t) \/ Look(t) \/ StoreFetch(t)
      PROVE  ClockTypeOK'
  <2>1. CASE Age(t)
    <3>1. Seconds(began[t] - lastFetch) \in Int
      BY CutToSeconds
    <3> QED
      BY <2>1, <3>1 DEF Age
  <2> QED
    BY <1>1, <2>1 DEF Enter, Look, StoreFetch
<1>2. ASSUME NEW t \in Callers, Hit(t) \/ Fetched(t) \/ FallBack(t)
      PROVE  ClockTypeOK'
  <2>1. \A time \in Reread(t) : time \in Int /\ time + elapsed[t] * Second \in Int
    BY DEF Reread
  <2>2. PICK stamp \in Int : ReturnStamp(t, stamp) /\ UNCHANGED <<clock, cachedTime, lastFetch>>
    <3>1. CASE Hit(t)
      <4>1. PICK time \in Reread(t) : ReturnStamp(t, time + elapsed[t] * Second)
        BY <3>1 DEF Hit
      <4>2. UNCHANGED <<clock, cachedTime, lastFetch>>
        BY <3>1 DEF Hit
      <4> QED
        BY <2>1, <4>1, <4>2
    <3>2. CASE Fetched(t)
      <4>1. PICK time \in Reread(t) : ReturnStamp(t, time)
        BY <3>2 DEF Fetched
      <4>2. UNCHANGED <<clock, cachedTime, lastFetch>>
        BY <3>2 DEF Fetched
      <4> QED
        BY <2>1, <4>1, <4>2
    <3>3. CASE FallBack(t)
      <4>1. ServerTime + HostSkew \in Int
        OBVIOUS
      <4>2. ReturnStamp(t, ServerTime + HostSkew) /\ UNCHANGED <<clock, cachedTime, lastFetch>>
        BY <3>3 DEF FallBack
      <4> QED
        BY <4>1, <4>2
    <3> QED
      BY <1>2, <3>1, <3>2, <3>3
  <2> QED
    BY <2>2
<1>3. ASSUME NEW t \in Callers, ServerAnswers(t) \/ StoreTime(t)
      PROVE  ClockTypeOK'
  BY <1>3 DEF ServerAnswers, StoreTime
<1>4. CASE ClockTick \/ UNCHANGED clockVars
  BY <1>4 DEF ClockTick, clockVars
<1> QED
  BY <1>1, <1>2, <1>3, <1>4 DEF ClockNext

\* A step of one thread leaves what the others know: a time that is cached
\* anew is of an answer given at most a timeout ago.
LEMMA OthersKnow ==
  ASSUME ClockTypeOK, NEW u \in Callers, Local(u),
         clock' = clock, pc'[u] = pc[u], began'[u] = began[u], elapsed'[u] = elapsed[u],
         got'[u] = got[u], since'[u] = since[u],
         \/ cachedTime' = cachedTime
         \/ cachedTime' \in Nat /\ cachedTime' > 0 /\ clock <= cachedTime' - Epoch + Timeout
  PROVE  Local(u)'
BY DEF Local, Dated, From, Lead, ClockTypeOK, ServerTime

LEMMA ClockStep ==
  ASSUME ClockTypeOK, ClockTypeOK', ClockInv,
         [ClockNext]_clockVars
  PROVE  ClockInv'
<1> USE DEF ClockTypeOK, ServerTime
<1> DEFINE Others(t) ==
      \A u \in Callers \ {t} : /\ pc'[u] = pc[u] /\ began'[u] = began[u]
                               /\ elapsed'[u] = elapsed[u] /\ got'[u] = got[u]
                               /\ since'[u] = since[u] /\ skew'[u] = skew[u]
           Fits(s) == \/ s = HostSkew
                      \/ -Staleness <= s /\ s <= Lead
\* The step of one thread: it must know its own place, and its stamp must fit.
<1>1. ASSUME NEW t \in Callers, clock' = clock, Others(t), Local(t)', Statics',
             skew'[t] = skew[t] \/ Fits(skew'[t]),
             \/ cachedTime' = cachedTime
             \/ cachedTime' > 0 /\ clock <= cachedTime' - Epoch + Timeout
      PROVE  ClockInv'
  <2>1. \A u \in Callers : Local(u)'
    BY <1>1, OthersKnow DEF ClockInv
  <2>2. \A u \in Callers : Fits(skew[u]) => Fits(skew'[u])
    BY <1>1
  <2>3. \A u \in Callers : Fits(skew'[u])
    BY <2>2 DEF ClockInv, StampNotStale, StampNotAhead
  <2>4. StampNotStale' /\ StampNotAhead'
    BY <2>3 DEF StampNotStale, StampNotAhead
  <2> QED
    BY <1>1, <2>1, <2>4 DEF ClockInv
<1>2. ASSUME NEW t \in Callers, Enter(t)
      PROVE  ClockInv'
  <2>1. Others(t) /\ clock' = clock /\ UNCHANGED <<cachedTime, lastFetch, skew>>
    BY <1>2 DEF Enter, Goto
  <2>2. pc'[t] = "age" /\ began'[t] = clock /\ since'[t] = clock
    BY <1>2 DEF Enter, Goto
  <2>3. Local(t)' /\ Statics'
    BY <2>1, <2>2 DEF ClockInv, Statics, Local, Dated
  <2> QED
    BY <1>1, <2>1, <2>3
<1>3. ASSUME NEW t \in Callers, Age(t)
      PROVE  ClockInv'
  <2>1. Others(t) /\ clock' = clock /\ UNCHANGED <<cachedTime, lastFetch, skew>>
    BY <1>3 DEF Age, Goto
  <2>2. /\ pc[t] = "age" /\ pc'[t] = "look" /\ since'[t] = clock
        /\ began'[t] = began[t] /\ elapsed'[t] = Seconds(began[t] - lastFetch)
    BY <1>3 DEF Age, Goto
  <2>3. From(t)' <= lastFetch
    BY <2>2, CutToSeconds DEF From
  <2>4. From(t)' \in Int
    BY <2>2, CutToSeconds DEF From
  <2>5. Local(t)' /\ Statics'
    BY <2>1, <2>2, <2>3, <2>4 DEF ClockInv, Statics, Local, Dated
  <2> QED
    BY <1>1, <2>1, <2>5
<1>4. ASSUME NEW t \in Callers, Look(t)
      PROVE  ClockInv'
  <2>1. Others(t) /\ clock' = clock /\ UNCHANGED <<cachedTime, lastFetch, skew>>
    BY <1>4 DEF Look, Goto
  <2>2. /\ pc[t] = "look" /\ since'[t] = clock
        /\ began'[t] = began[t] /\ elapsed'[t] = elapsed[t]
        /\ \/ /\ pc'[t] = "hit" /\ cachedTime > 0 /\ elapsed[t] < Life
              /\ got'[t] = cachedTime
           \/ pc'[t] = "ask"
    BY <1>4 DEF Look, Serves, Goto
  <2>3. From(t)' = From(t) /\ From(t) \in Int
    <3>1. elapsed[t] * Second \in Int
      OBVIOUS
    <3> QED
      BY <2>2, <3>1 DEF From
  <2>4. elapsed[t] < Life => elapsed[t] * Second <= Lead
    BY WholeLife
  <2>5. Local(t)' /\ Statics'
    BY <2>1, <2>2, <2>3, <2>4 DEF ClockInv, Statics, Local, Dated, Lead
  <2> QED
    BY <1>1, <2>1, <2>5
\* The stamp of a cached time: at most three pauses since the call began, at
\* most a timeout between the date and the answer, and less than a second cut.
<1>5. ASSUME NEW t \in Callers, Hit(t)
      PROVE  ClockInv'
  <2>1. Others(t) /\ clock' = clock /\ UNCHANGED <<cachedTime, lastFetch>>
    BY <1>5 DEF Hit, ReturnStamp
  <2>2. PICK time \in {got[t], cachedTime} :
              skew'[t] = (time + elapsed[t] * Second) - (clock + Epoch)
    BY <1>5 DEF Hit, Reread, ReturnStamp
  <2>3. pc[t] = "hit" /\ pc'[t] = "idle"
    BY <1>5 DEF Hit, ReturnStamp
  <2>4. /\ time \in Nat /\ time <= clock + Epoch /\ elapsed[t] * Second <= Lead
        /\ From(t) <= time - Epoch + Timeout
    <3>1. Statics /\ Local(t)
      BY DEF ClockInv
    <3>2. CASE time = got[t]
      BY <2>3, <3>1, <3>2 DEF Local
    <3>3. CASE time = cachedTime
      BY <2>3, <3>1, <3>3 DEF Statics, Local, Dated
    <3> QED
      BY <2>2, <3>2, <3>3
  <2>5. clock <= began[t] + 3 * MaxPause
    BY <2>3 DEF ClockInv, Local
  <2>6. elapsed[t] * Second \in Int /\ Lead \in Int
    BY DEF Lead
  <2>7. Fits(skew'[t])
    BY <2>2, <2>4, <2>5, <2>6 DEF From, Staleness
  <2>8. Local(t)' /\ Statics'
    BY <2>1, <2>3 DEF ClockInv, Statics, Local, Dated
  <2> QED
    BY <1>1, <2>1, <2>7, <2>8
<1>6. ASSUME NEW t \in Callers, ServerAnswers(t)
      PROVE  ClockInv'
  <2>1. Others(t) /\ clock' = clock /\ UNCHANGED <<cachedTime, lastFetch, skew>>
    BY <1>6 DEF ServerAnswers
  <2>2. /\ pc[t] = "ask" /\ pc'[t] = "answered" /\ since'[t] = since[t]
        /\ began'[t] = began[t] /\ got'[t] = clock + Epoch
    BY <1>6 DEF ServerAnswers
  <2>3. Local(t)' /\ Statics'
    BY <2>1, <2>2 DEF ClockInv, Statics, Local, Dated
  <2> QED
    BY <1>1, <2>1, <2>3
<1>7. ASSUME NEW t \in Callers, StoreTime(t)
      PROVE  ClockInv'
  <2>1. Others(t) /\ clock' = clock /\ UNCHANGED <<lastFetch, skew>>
    BY <1>7 DEF StoreTime, Goto
  <2>2. /\ pc[t] = "answered" /\ pc'[t] = "date" /\ since'[t] = clock
        /\ began'[t] = began[t] /\ got'[t] = got[t] /\ cachedTime' = got[t]
    BY <1>7 DEF StoreTime, Goto
  <2>3. cachedTime' > 0 /\ clock <= cachedTime' - Epoch + Timeout
    BY <2>2 DEF ClockInv, Local
  <2>4. Local(t)' /\ Statics'
    BY <2>1, <2>2, <2>3 DEF ClockInv, Statics, Local, Dated
  <2> QED
    BY <1>1, <2>1, <2>3, <2>4
<1>8. ASSUME NEW t \in Callers, StoreFetch(t)
      PROVE  ClockInv'
  <2>1. Others(t) /\ clock' = clock /\ UNCHANGED <<cachedTime, skew>>
    BY <1>8 DEF StoreFetch, Goto
  <2>2. /\ pc[t] = "date" /\ pc'[t] = "return" /\ since'[t] = clock
        /\ began'[t] = began[t] /\ got'[t] = got[t] /\ lastFetch' = began[t]
    BY <1>8 DEF StoreFetch, Goto
  <2>3. Local(t)' /\ Statics'
    BY <2>1, <2>2 DEF ClockInv, Statics, Local, Dated
  <2> QED
    BY <1>1, <2>1, <2>3
\* The stamp of a fetch, or of the one that another thread put in its place.
<1>12. ASSUME NEW t \in Callers, Fetched(t)
       PROVE  ClockInv'
  <2>1. Others(t) /\ clock' = clock /\ UNCHANGED <<cachedTime, lastFetch>>
    BY <1>12 DEF Fetched, ReturnStamp
  <2>2. PICK time \in {got[t], cachedTime} : skew'[t] = time - (clock + Epoch)
    BY <1>12 DEF Fetched, Reread, ReturnStamp
  <2>3. pc[t] = "return" /\ pc'[t] = "idle"
    BY <1>12 DEF Fetched, ReturnStamp
  <2>4. /\ time \in Nat /\ time <= clock + Epoch /\ clock <= since[t] + MaxPause
        /\ since[t] - MaxPause <= time - Epoch + Timeout
    BY <2>2, <2>3 DEF ClockInv, Statics, Local, Dated
  <2>5. Lead \in Nat
    BY DEF Lead
  <2>6. Fits(skew'[t])
    BY <2>2, <2>4, <2>5 DEF Staleness
  <2>7. Local(t)' /\ Statics'
    BY <2>1, <2>3 DEF ClockInv, Statics, Local, Dated
  <2> QED
    BY <1>1, <2>1, <2>6, <2>7
<1>9. ASSUME NEW t \in Callers, FallBack(t)
      PROVE  ClockInv'
  <2>1. Others(t) /\ clock' = clock /\ UNCHANGED <<cachedTime, lastFetch>>
    BY <1>9 DEF FallBack, ReturnStamp
  <2>2. pc'[t] = "idle" /\ skew'[t] = HostSkew
    BY <1>9 DEF FallBack, ReturnStamp
  <2>3. Local(t)' /\ Statics'
    BY <2>1, <2>2 DEF ClockInv, Statics, Local, Dated
  <2> QED
    BY <1>1, <2>1, <2>2, <2>3
\* Time passes only while nobody is overdue.
<1>10. CASE ClockTick
  <2>1. /\ clock' = clock + 1
        /\ UNCHANGED <<cachedTime, lastFetch, pc, began, elapsed, got, since, skew>>
        /\ \A t \in Callers : ~Overdue(t)
    BY <1>10 DEF ClockTick
  <2>2. ASSUME NEW t \in Callers
        PROVE  Local(t)'
    <3>1. /\ pc[t] \in {"ask", "answered"} => clock - since[t] < Timeout
          /\ pc[t] \in {"age", "look", "hit", "date", "return"} =>
               clock - since[t] < MaxPause
      BY <2>1 DEF Overdue
    <3> QED
      BY <2>1, <3>1 DEF ClockInv, Local, Dated, From
  <2>3. Statics'
    BY <2>1 DEF ClockInv, Statics, Dated
  <2> QED
    BY <2>1, <2>2, <2>3 DEF ClockInv, StampNotStale, StampNotAhead
<1>11. CASE UNCHANGED clockVars
  BY <1>11 DEF clockVars, ClockInv, Statics, Local, Dated, From, StampNotStale, StampNotAhead
<1> QED
  BY <1>2, <1>3, <1>4, <1>5, <1>6, <1>7, <1>8, <1>9, <1>10, <1>11, <1>12
     DEF ClockNext

\* Callers may race on the two statics as they like: every stamp made from the
\* exchange's time is less than a fetch, three pauses and a second old, and no
\* further ahead than the last whole second of a cached time's life.
THEOREM StampsInWindow ==
  ClockSpec => [](ClockTypeOK /\ StampNotStale /\ StampNotAhead)
<1>1. ClockInit => ClockTypeOK /\ ClockInv
  BY DEF ClockInit, ClockTypeOK, ClockInv, Statics, Local, Dated, StampNotStale,
         StampNotAhead, Staleness, Lead
<1>2. ClockTypeOK /\ [ClockNext]_clockVars => ClockTypeOK'
  BY ClockTypeStep
<1>3. ClockTypeOK /\ ClockTypeOK' /\ ClockInv /\ [ClockNext]_clockVars => ClockInv'
  BY ClockStep
<1>4. ClockInv => StampNotStale /\ StampNotAhead
  BY DEF ClockInv
<1> QED
  BY <1>1, <1>2, <1>3, <1>4, PTL DEF ClockSpec
=============================================================================
