----------------------------- MODULE RateLimit -----------------------------
(***************************************************************************)
(* rate_limit(RestClass) of cpp_exec/exec_bridge.cpp: one atomic word per  *)
(* class holds the start of the next free slot, a caller takes a snapshot  *)
(* of the monotonic clock, claims a slot with a compare-and-swap loop and  *)
(* then sleeps, relative to the moment the sleep starts, for the distance  *)
(* between the snapshot and its slot.  clock_nanosleep ends early when a   *)
(* signal arrives; precise_sleep_us logs that and returns.                 *)
(***************************************************************************)
EXTENDS Integers, FiniteSets

CONSTANTS Threads,        \* threads that issue REST requests
          Classes,        \* RestClass
          Second,         \* clock units in a second (1000000 in the code)
          Rate,           \* class -> rate_rps of its bucket
          LastCall,       \* bound: no call starts after this time
          Horizon,        \* bound: from here on the clock only serves sleepers
          MaxSignals      \* bound on signals that interrupt a sleep

ASSUME SecondAssumption == Second \in Nat \ {0}
ASSUME ThreadsAssumption == IsFiniteSet(Threads)
ASSUME RateAssumption == Rate \in [Classes -> 1..Second]
ASSUME BoundAssumption == LastCall \in Nat /\ Horizon \in Nat /\ MaxSignals \in Nat

VARIABLES now,            \* now_mono_us()
          nextSlot,       \* class -> TokenBucket::next_slot_us
          pc,             \* thread -> where it is in rate_limit
          cls,            \* thread -> the class of its call
          snap,           \* thread -> current_time_snapshot
          seen,           \* thread -> previous_next_slot_val
          slot,           \* thread -> reserved_slot_start_time
          wake,           \* thread -> when its sleep is over
          reserved,       \* class -> every slot claimed so far (history)
          signals,        \* signals delivered to sleepers so far
          early           \* threads whose current sleep was cut short

pacing == <<nextSlot, cls, snap, seen, slot, wake, reserved>>
vars == <<now, nextSlot, pc, cls, snap, seen, slot, wake, reserved, signals, early>>

\* 1'000'000 / bucket.rate_rps, an integer division.
Interval == [c \in Classes |-> Second \div Rate[c]]

Later(a, b) == IF a >= b THEN a ELSE b

Init == /\ now = 0
        /\ nextSlot = [c \in Classes |-> 0]
        /\ pc = [t \in Threads |-> "idle"]
        /\ cls \in [Threads -> Classes]
        /\ snap = [t \in Threads |-> 0]
        /\ seen = [t \in Threads |-> 0]
        /\ slot = [t \in Threads |-> 0]
        /\ wake = [t \in Threads |-> 0]
        /\ reserved = [c \in Classes |-> {}]
        /\ signals = 0
        /\ early = {}
-----------------------------------------------------------------------------
(* Faulty variants of the steps below: what the properties must tell apart.  *)

\* The slot is stored without checking that the word is still the one seen.
CasOkBlindStore(t) ==
    LET c == cls[t]
        s == Later(snap[t], seen[t])
    IN /\ pc[t] = "cas"
       /\ nextSlot' = [nextSlot EXCEPT ![c] = s + Interval[c]]
       /\ slot' = [slot EXCEPT ![t] = s]
       /\ reserved' = [reserved EXCEPT ![c] = @ \union {s}]
       /\ pc' = [pc EXCEPT ![t] = "reserved"]
       /\ UNCHANGED <<now, cls, snap, seen, wake, signals, early>>

\* The next slot is counted from the word seen, not from the slot claimed.
CasOkFromSeen(t) ==
    LET c == cls[t]
        s == Later(snap[t], seen[t])
    IN /\ pc[t] = "cas"
       /\ nextSlot[c] = seen[t]
       /\ nextSlot' = [nextSlot EXCEPT ![c] = seen[t] + Interval[c]]
       /\ slot' = [slot EXCEPT ![t] = s]
       /\ reserved' = [reserved EXCEPT ![c] = @ \union {s}]
       /\ pc' = [pc EXCEPT ![t] = "reserved"]
       /\ UNCHANGED <<now, cls, snap, seen, wake, signals, early>>

\* A failed attempt consumes a slot, as fetch_add would.
CasFailConsumes(t) ==
    /\ pc[t] = "cas"
    /\ nextSlot' = [nextSlot EXCEPT ![cls[t]] = @ + Interval[cls[t]]]
    /\ seen' = [seen EXCEPT ![t] = nextSlot'[cls[t]]]
    /\ UNCHANGED <<now, pc, cls, snap, slot, wake, reserved, signals, early>>

\* A failed attempt does not refresh what was seen.
CasFailKeepsSeen(t) == pc[t] = "cas" /\ UNCHANGED vars

\* The relative wait is used as an absolute deadline (TIMER_ABSTIME).
BeginSleepAbsolute(t) ==
    /\ pc[t] = "reserved"
    /\ slot[t] > snap[t]
    /\ pc' = [pc EXCEPT ![t] = "sleep"]
    /\ wake' = [wake EXCEPT ![t] = slot[t] - snap[t]]
    /\ UNCHANGED <<now, nextSlot, cls, snap, seen, slot, reserved, signals, early>>

\* The unsigned wait is taken the wrong way round.
BeginSleepBackwards(t) ==
    /\ pc[t] = "reserved"
    /\ slot[t] > snap[t]
    /\ pc' = [pc EXCEPT ![t] = "sleep"]
    /\ wake' = [wake EXCEPT ![t] = now + (snap[t] - slot[t])]
    /\ UNCHANGED <<now, nextSlot, cls, snap, seen, slot, reserved, signals, early>>
-----------------------------------------------------------------------------
\* Enter with class c and take the clock snapshot.
Call(t, c) ==
    /\ pc[t] = "idle"
    /\ now <= LastCall
    /\ pc' = [pc EXCEPT ![t] = "load"]
    /\ cls' = [cls EXCEPT ![t] = c]
    /\ snap' = [snap EXCEPT ![t] = now]
    /\ UNCHANGED <<now, nextSlot, seen, slot, wake, reserved, signals, early>>

\* The first load of next_slot_us.
Load(t) ==
    /\ pc[t] = "load"
    /\ pc' = [pc EXCEPT ![t] = "cas"]
    /\ seen' = [seen EXCEPT ![t] = nextSlot[cls[t]]]
    /\ UNCHANGED <<now, nextSlot, cls, snap, slot, wake, reserved, signals, early>>

\* compare_exchange_weak succeeds: the word still holds what was seen.
CasOk(t) ==
    LET c == cls[t]
        s == Later(snap[t], seen[t])
    IN /\ pc[t] = "cas"
       /\ nextSlot[c] = seen[t]
       /\ nextSlot' = [nextSlot EXCEPT ![c] = s + Interval[c]]
       /\ slot' = [slot EXCEPT ![t] = s]
       /\ reserved' = [reserved EXCEPT ![c] = @ \union {s}]
       /\ pc' = [pc EXCEPT ![t] = "reserved"]
       /\ UNCHANGED <<now, cls, snap, seen, wake, signals, early>>

\* It fails, possibly for no reason (the weak form): what was seen is refreshed.
CasFail(t) ==
    /\ pc[t] = "cas"
    /\ seen' = [seen EXCEPT ![t] = nextSlot[cls[t]]]
    /\ UNCHANGED <<now, nextSlot, pc, cls, snap, slot, wake, reserved, signals, early>>

\* precise_sleep_us(reserved - snapshot), counted from now; no sleep when the
\* slot is the snapshot itself.
BeginSleep(t) ==
    /\ pc[t] = "reserved"
    /\ slot[t] > snap[t]
    /\ pc' = [pc EXCEPT ![t] = "sleep"]
    /\ wake' = [wake EXCEPT ![t] = now + (slot[t] - snap[t])]
    /\ UNCHANGED <<now, nextSlot, cls, snap, seen, slot, reserved, signals, early>>

SkipSleep(t) ==
    /\ pc[t] = "reserved"
    /\ slot[t] <= snap[t]
    /\ pc' = [pc EXCEPT ![t] = "ready"]
    /\ UNCHANGED <<now, pacing, signals, early>>

Wake(t) ==
    /\ pc[t] = "sleep"
    /\ wake[t] <= now
    /\ pc' = [pc EXCEPT ![t] = "ready"]
    /\ UNCHANGED <<now, pacing, signals, early>>

\* clock_nanosleep returns EINTR: logged, not resumed.
Interrupt(t) ==
    /\ pc[t] = "sleep"
    /\ signals < MaxSignals
    /\ pc' = [pc EXCEPT ![t] = "ready"]
    /\ signals' = signals + 1
    /\ early' = early \union {t}
    /\ UNCHANGED <<now, pacing>>

\* rate_limit returns to execute_signed_request; its locals are gone.
Return(t) ==
    /\ pc[t] = "ready"
    /\ pc' = [pc EXCEPT ![t] = "idle"]
    /\ early' = early \ {t}
    /\ snap' = [snap EXCEPT ![t] = 0]
    /\ seen' = [seen EXCEPT ![t] = 0]
    /\ slot' = [slot EXCEPT ![t] = 0]
    /\ wake' = [wake EXCEPT ![t] = 0]
    /\ UNCHANGED <<now, nextSlot, cls, reserved, signals>>

\* Time passes; after the bound only for as long as somebody sleeps.
Tick == /\ now < Horizon \/ \E t \in Threads : pc[t] = "sleep" /\ now < wake[t]
        /\ now' = now + 1
        /\ UNCHANGED <<pc, pacing, signals, early>>

Reserve(t) == Load(t) \/ CasOk(t) \/ CasFail(t)
Wait(t) == BeginSleep(t) \/ SkipSleep(t) \/ Wake(t) \/ Interrupt(t)

Next == \/ \E t \in Threads, c \in Classes : Call(t, c)
        \/ \E t \in Threads : Reserve(t) \/ Wait(t) \/ Return(t)
        \/ Tick

Spec == Init /\ [][Next]_vars

\* A thread inside rate_limit keeps running and the clock keeps advancing;
\* a compare-and-swap that keeps being possible eventually succeeds (the weak
\* form fails spuriously only now and then).
Fairness == /\ WF_vars(Tick)
            /\ \A t \in Threads : /\ WF_vars(Load(t))
                                  /\ SF_vars(CasOk(t))
                                  /\ WF_vars(CasFail(t) /\ seen' # seen)
                                  /\ WF_vars(BeginSleep(t) \/ SkipSleep(t))
                                  /\ WF_vars(Wake(t))
                                  /\ WF_vars(Return(t))

FairSpec == Spec /\ Fairness
-----------------------------------------------------------------------------
\* Every variable keeps its kind.
TypeOK == /\ now \in Nat
          /\ nextSlot \in [Classes -> Nat]
          /\ pc \in [Threads -> {"idle", "load", "cas", "reserved", "sleep", "ready"}]
          /\ cls \in [Threads -> Classes]
          /\ snap \in [Threads -> Nat]
          /\ seen \in [Threads -> Nat]
          /\ slot \in [Threads -> Nat]
          /\ wake \in [Threads -> Nat]
          /\ reserved \in [Classes -> SUBSET Nat]
          /\ signals \in 0..MaxSignals
          /\ early \in SUBSET Threads

\* A thread that owns a slot it has not yet used up.
Holds(t) == pc[t] \in {"reserved", "sleep", "ready"}

\* Two callers of one class are never given slots closer than an interval,
\* whatever the interleaving of their loads and compare-and-swaps: the code's
\* lock-free claim of rate_limit never hands out a slot twice.
SlotsSpaced ==
    \A t, u \in Threads :
        t # u /\ Holds(t) /\ Holds(u) /\ cls[t] = cls[u] =>
            \/ slot[t] + Interval[cls[t]] <= slot[u]
            \/ slot[u] + Interval[cls[t]] <= slot[t]

\* No request goes out before its slot, though the sleep is relative, starts
\* later than the snapshot and is computed from it; only a signal cuts it short.
NeverEarly ==
    \A t \in Threads : pc[t] = "ready" /\ t \notin early => slot[t] <= now

\* The reservation horizon of a class runs ahead of the clock by at most one
\* interval for the slot in use, one per waiting thread and one per interrupted
\* sleep: failed attempts of the compare-and-swap leave no gaps behind.
BacklogBounded ==
    \A c \in Classes :
        nextSlot[c] <= now + Interval[c] * (Cardinality(Threads) + 1 + signals)

\* Every call of rate_limit returns.
EveryCallReturns == \A t \in Threads : pc[t] # "idle" ~> pc[t] = "idle"
-----------------------------------------------------------------------------
\* The refinement mapping to Pacer.
permitOf(t) ==
    IF pc[t] \in {"idle", "load", "cas"}
    THEN [state |-> "none", cls |-> "none", at |-> 0]
    ELSE [state |-> IF pc[t] = "ready" THEN "admitted" ELSE "waiting",
          cls |-> cls[t], at |-> slot[t]]

Paced == INSTANCE Pacer WITH booked <- reserved,
                             permit <- [t \in Threads |-> permitOf(t)]

\* rate_limit implements the pacing promise: a step of a thread books, admits
\* or releases exactly as Pacer allows, and everything else is invisible.
RefinesPacer == Paced!Spec
-----------------------------------------------------------------------------
(* The inductive invariant behind SlotsSpaced, NeverEarly and RefinesPacer.  *)

\* The word is past every slot claimed and directly follows the last of them.
WordFollowsSlots ==
    \A c \in Classes :
        /\ \A b \in reserved[c] : b + Interval[c] <= nextSlot[c]
        /\ nextSlot[c] = 0 \/ \E b \in reserved[c] : nextSlot[c] = b + Interval[c]

\* A slot held is one that was claimed, and the clock never runs behind a
\* snapshot; who waits will not wake before its slot.
WaitsOut ==
    \A t \in Threads :
        /\ snap[t] <= now
        /\ Holds(t) => slot[t] \in reserved[cls[t]]
        /\ pc[t] = "sleep" => slot[t] <= wake[t]

\* RateLimit's inductive invariant.
IInv == TypeOK /\ WordFollowsSlots /\ WaitsOut /\ SlotsSpaced /\ NeverEarly
=============================================================================
