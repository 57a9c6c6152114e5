---------------------------- MODULE ServerClock ----------------------------
(***************************************************************************)
(* get_server_time of cpp_exec/exec_bridge.cpp: the time stamp every       *)
(* signed request carries.  Two function-local statics, the exchange's     *)
(* time and the local time of the fetch, are read and written by all       *)
(* threads without a lock; the stamp is the cached time and its age, which *)
(* is cut to whole seconds.  The race leaves it to the compiler whether a  *)
(* time read once is read again.  The exchange rejects a stamp too far     *)
(* from its own clock.  Names with Clock in them are so named for the      *)
(* module that extends this one and SignedRequest.                         *)
(***************************************************************************)
EXTENDS Integers

CONSTANTS Callers,        \* threads that call get_server_time
          Second,         \* ticks of the clock in a second
          Life,           \* whole seconds a fetched time is used for (30)
          Timeout,        \* libcurl's timeout for the fetch (5 s)
          MaxPause,       \* longest a thread stays between two local steps
          Epoch,          \* the exchange's time when the clock is 0
          HostSkew,       \* how far system_clock is from the exchange's time
          ClockHorizon    \* bound on the clock

ASSUME ClockAssumption == /\ Second \in Nat \ {0} /\ Life \in Nat /\ Timeout \in Nat
                          /\ MaxPause \in Nat /\ ClockHorizon \in Nat
                          /\ Epoch \in Nat \ {0} /\ HostSkew \in Int

VARIABLES clock,          \* steady_clock
          cachedTime,     \* cached_server_time
          lastFetch,      \* last_fetch
          pc,             \* thread -> where it is in get_server_time
          began,          \* thread -> its `now`
          elapsed,        \* thread -> its `elapsed`, in seconds
          got,            \* thread -> the exchange's time in its answer, or the
                          \* cached time it saw
          since,          \* thread -> when it came to where it is
          skew            \* thread -> error of its last stamp (history)

clockVars == <<clock, cachedTime, lastFetch, pc, began, elapsed, got, since, skew>>

ServerTime == clock + Epoch

\* duration_cast<seconds>: whole seconds, towards zero.
Seconds(d) == IF d >= 0 THEN d \div Second ELSE -((-d) \div Second)

\* cached_server_time where t has read or written it before: its old value, or
\* whatever another thread has made of it since.
Reread(t) == {got[t], cachedTime}

ClockInit == /\ clock = 0
             /\ cachedTime = 0
             /\ lastFetch = 0
             /\ pc = [t \in Callers |-> "idle"]
             /\ began = [t \in Callers |-> 0]
             /\ elapsed = [t \in Callers |-> 0]
             /\ got = [t \in Callers |-> 0]
             /\ since = [t \in Callers |-> 0]
             /\ skew = [t \in Callers |-> 0]

Goto(t, l) == /\ pc' = [pc EXCEPT ![t] = l]
              /\ since' = [since EXCEPT ![t] = clock]

\* get_server_time returns the stamp s, which is signed at once.
ReturnStamp(t, s) ==
    /\ skew' = [skew EXCEPT ![t] = s - ServerTime]
    /\ began' = [began EXCEPT ![t] = 0]
    /\ elapsed' = [elapsed EXCEPT ![t] = 0]
    /\ got' = [got EXCEPT ![t] = 0]
    /\ pc' = [pc EXCEPT ![t] = "idle"]
    /\ since' = [since EXCEPT ![t] = 0]
-----------------------------------------------------------------------------
(* Faulty variants of the steps below: what the properties must tell apart.  *)

\* The cached time is returned without the time since the fetch.
HitUnaged(t) ==
    /\ pc[t] = "hit"
    /\ \E time \in Reread(t) : ReturnStamp(t, time)
    /\ UNCHANGED <<clock, cachedTime, lastFetch>>

\* A cached time is used however old it is.
ServesAnyAge(t) == cachedTime > 0
-----------------------------------------------------------------------------
\* Enter and read the local clock.
Enter(t) ==
    /\ pc[t] = "idle"
    /\ began' = [began EXCEPT ![t] = clock]
    /\ Goto(t, "age")
    /\ UNCHANGED <<clock, cachedTime, lastFetch, elapsed, got, skew>>

\* Read last_fetch and compute the age.
Age(t) ==
    /\ pc[t] = "age"
    /\ elapsed' = [elapsed EXCEPT ![t] = Seconds(began[t] - lastFetch)]
    /\ Goto(t, "look")
    /\ UNCHANGED <<clock, cachedTime, lastFetch, began, got, skew>>

\* Read cached_server_time for the first time: it is there and young enough, or
\* the exchange must be asked.
Serves(t) == cachedTime > 0 /\ elapsed[t] < Life

Look(t) ==
    /\ pc[t] = "look"
    /\ \/ /\ Serves(t)
          /\ got' = [got EXCEPT ![t] = cachedTime]
          /\ Goto(t, "hit")
       \/ ~Serves(t) /\ Goto(t, "ask") /\ UNCHANGED got
    /\ UNCHANGED <<clock, cachedTime, lastFetch, began, elapsed, skew>>

\* The stamp of a cached time.
Hit(t) ==
    /\ pc[t] = "hit"
    /\ \E time \in Reread(t) : ReturnStamp(t, time + elapsed[t] * Second)
    /\ UNCHANGED <<clock, cachedTime, lastFetch>>

\* The exchange answers the fetch with its time.
ServerAnswers(t) ==
    /\ pc[t] = "ask"
    /\ got' = [got EXCEPT ![t] = ServerTime]
    /\ pc' = [pc EXCEPT ![t] = "answered"]
    /\ UNCHANGED <<clock, cachedTime, lastFetch, began, elapsed, since, skew>>

\* The answer arrives and its time is stored first.
StoreTime(t) ==
    /\ pc[t] = "answered"
    /\ cachedTime' = got[t]
    /\ Goto(t, "date")
    /\ UNCHANGED <<clock, lastFetch, began, elapsed, got, skew>>

\* Then the local time at which the call began, as the time of the fetch.
StoreFetch(t) ==
    /\ pc[t] = "date"
    /\ lastFetch' = began[t]
    /\ Goto(t, "return")
    /\ UNCHANGED <<clock, cachedTime, began, elapsed, got, skew>>

\* The stamp of a fresh fetch is cached_server_time, not the answer.
Fetched(t) ==
    /\ pc[t] = "return"
    /\ \E time \in Reread(t) : ReturnStamp(t, time)
    /\ UNCHANGED <<clock, cachedTime, lastFetch>>

\* No answer, an error status or an unreadable one: the host's clock is used.
FallBack(t) ==
    /\ pc[t] \in {"ask", "answered"}
    /\ ReturnStamp(t, ServerTime + HostSkew)
    /\ UNCHANGED <<clock, cachedTime, lastFetch>>

\* A thread does not stand still for longer than the fetch may take, or than
\* the scheduler may hold it between two local steps.
Overdue(t) == CASE pc[t] = "idle" -> FALSE
                [] pc[t] \in {"ask", "answered"} -> clock - since[t] >= Timeout
                [] OTHER -> clock - since[t] >= MaxPause

ClockTick == /\ clock < ClockHorizon
             /\ \A t \in Callers : ~ Overdue(t)
             /\ clock' = clock + 1
             /\ UNCHANGED <<cachedTime, lastFetch, pc, began, elapsed, got, since, skew>>

ClockNext == \/ \E t \in Callers : \/ Enter(t) \/ Age(t) \/ Look(t) \/ Hit(t)
                                   \/ ServerAnswers(t) \/ StoreTime(t) \/ StoreFetch(t)
                                   \/ Fetched(t) \/ FallBack(t)
             \/ ClockTick

ClockSpec == ClockInit /\ [][ClockNext]_clockVars
-----------------------------------------------------------------------------
\* Every variable has its type.
ClockTypeOK ==
    /\ clock \in 0..ClockHorizon /\ cachedTime \in Nat /\ lastFetch \in Nat
    /\ pc \in [Callers -> {"idle", "age", "look", "hit", "ask", "answered", "date",
                          "return"}]
    /\ began \in [Callers -> Nat] /\ since \in [Callers -> Nat] /\ got \in [Callers -> Nat]
    /\ elapsed \in [Callers -> Int] /\ skew \in [Callers -> Int]

\* Even with threads racing on the two statics, no stamp made from the
\* exchange's time lags behind it by a fetch, three pauses and a second or more,
\* however wrong the host's own clock is: the second is what the cut drops.
Staleness == Timeout + 3 * MaxPause + Second - 1

StampNotStale == \A t \in Callers : skew[t] >= -Staleness \/ skew[t] = HostSkew

\* Nor is it ahead by more than the last whole second of a cached time's life.
Lead == IF Life = 0 THEN 0 ELSE (Life - 1) * Second

StampNotAhead == \A t \in Callers : skew[t] <= Lead \/ skew[t] = HostSkew
=============================================================================
