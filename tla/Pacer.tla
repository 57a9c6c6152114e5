------------------------------- MODULE Pacer -------------------------------
(***************************************************************************)
(* What rate_limit(RestClass) promises its callers: every call is booked   *)
(* into a time slot of its class, slots of one class are at least one      *)
(* interval apart, no slot is put later than necessary, and a call is let  *)
(* through at its slot or afterwards, unless a signal cuts its wait short. *)
(* Neither the atomic word nor the sleep is visible here.                  *)
(***************************************************************************)
EXTENDS Integers

CONSTANTS Threads,        \* threads that issue REST requests
          Classes,        \* RestClass: TRADE, ORDER_QUERY, META
          Interval,       \* class -> the length of its slots
          MaxSignals      \* bound on the signals that cut a wait short

VARIABLES now,            \* the monotonic clock
          booked,         \* class -> the slots given out so far
          permit,         \* thread -> the booking of its current call
          signals         \* signals that interrupted a wait so far

vars == <<now, booked, permit, signals>>

NoPermit == [state |-> "none", cls |-> "none", at |-> 0]

Init == /\ now = 0
        /\ booked = [c \in Classes |-> {}]
        /\ permit = [t \in Threads |-> NoPermit]
        /\ signals = 0

\* A slot may be given out when it is an interval after every earlier one, and
\* is either not in the future or directly follows an earlier slot: nothing
\* is put off while the class has room.
Free(c) == {s \in 0..now \union {b + Interval[c] : b \in booked[c]} :
               \A b \in booked[c] : b + Interval[c] <= s}

Book(t, c) ==
    /\ permit[t] = NoPermit
    /\ \E s \in Free(c) :
          /\ booked' = [booked EXCEPT ![c] = @ \union {s}]
          /\ permit' = [permit EXCEPT ![t] = [state |-> "waiting", cls |-> c, at |-> s]]
    /\ UNCHANGED <<now, signals>>

Admitted(p) == [state |-> "admitted", cls |-> p.cls, at |-> p.at]

Admit(t) ==
    /\ permit[t].state = "waiting"
    /\ permit[t].at <= now
    /\ permit' = [permit EXCEPT ![t] = Admitted(@)]
    /\ UNCHANGED <<now, booked, signals>>

AdmitEarly(t) ==
    /\ permit[t].state = "waiting"
    /\ signals < MaxSignals
    /\ signals' = signals + 1
    /\ permit' = [permit EXCEPT ![t] = Admitted(@)]
    /\ UNCHANGED <<now, booked>>

Leave(t) ==
    /\ permit[t].state = "admitted"
    /\ permit' = [permit EXCEPT ![t] = NoPermit]
    /\ UNCHANGED <<now, booked, signals>>

\* A signal strikes a thread that does not wait for its slot.
SignalElsewhere ==
    /\ signals < MaxSignals
    /\ signals' = signals + 1
    /\ UNCHANGED <<now, booked, permit>>

Advance == /\ now' = now + 1
           /\ UNCHANGED <<booked, permit, signals>>

Next == \/ \E t \in Threads :
              \/ \E c \in Classes : Book(t, c)
              \/ Admit(t)
              \/ AdmitEarly(t)
              \/ Leave(t)
        \/ SignalElsewhere
        \/ Advance

Spec == Init /\ [][Next]_vars
-----------------------------------------------------------------------------
\* Slots of one class are an interval apart.
SlotsApart == \A c \in Classes : \A a, b \in booked[c] : a < b => a + Interval[c] <= b
============================================================================
