-------------------------- MODULE RateLimitProofs --------------------------
(***************************************************************************)
(* Proofs about RateLimit, for any threads, classes and rates: its type    *)
(* invariant, the spacing of the slots, that nobody runs before its slot,  *)
(* that it implements Pacer, and how far its slots run ahead of the clock. *)
(***************************************************************************)
EXTENDS RateLimit, FiniteSetTheorems, TLAPS

USE SecondAssumption, RateAssumption, BoundAssumption

\* Integer division of the second by a rate in 1..Second: a slot has length.
LEMMA IntervalPositive == \A c \in Classes : Interval[c] \in Nat /\ Interval[c] >= 1
<1> TAKE c \in Classes
<1>1. Rate[c] \in 1..Second
  OBVIOUS
<1>2. Second \div Rate[c] \in Nat /\ Second \div Rate[c] >= 1
  BY <1>1
<1> QED
  BY <1>2 DEF Interval

\* Later is the maximum of two times.
LEMMA LaterIsMax ==
    ASSUME NEW a \in Nat, NEW b \in Nat
    PROVE  /\ Later(a, b) \in Nat
           /\ a <= Later(a, b) /\ b <= Later(a, b)
           /\ Later(a, b) = a \/ Later(a, b) = b
BY DEF Later

\* One step of the specification keeps every variable of its kind.
LEMMA TypeStep == TypeOK /\ [Next]_vars => TypeOK'
<1> SUFFICES ASSUME TypeOK, [Next]_vars
             PROVE  TypeOK'
  OBVIOUS
<1> USE DEF TypeOK
<1>1. ASSUME NEW t \in Threads, NEW c \in Classes, Call(t, c)
      PROVE  TypeOK'
  BY <1>1 DEF Call
<1>2. ASSUME NEW t \in Threads, Load(t)
      PROVE  TypeOK'
  BY <1>2 DEF Load
<1>3. ASSUME NEW t \in Threads, CasOk(t)
      PROVE  TypeOK'
  <2> DEFINE c == cls[t]
             s == Later(snap[t], seen[t])
  <2>1. s \in Nat /\ c \in Classes /\ Interval[c] \in Nat
    BY LaterIsMax, IntervalPositive
  <2>2. s + Interval[c] \in Nat
    BY <2>1
  <2>3. nextSlot' = [nextSlot EXCEPT ![c] = s + Interval[c]]
    BY <1>3 DEF CasOk
  <2>4. nextSlot' \in [Classes -> Nat]
    BY <2>1, <2>2, <2>3
  <2>5. reserved' \in [Classes -> SUBSET Nat] /\ slot' \in [Threads -> Nat]
    BY <1>3, <2>1 DEF CasOk
  <2> QED
    BY <1>3, <2>4, <2>5 DEF CasOk
<1>4. ASSUME NEW t \in Threads, CasFail(t)
      PROVE  TypeOK'
  BY <1>4 DEF CasFail
<1>5. ASSUME NEW t \in Threads, BeginSleep(t)
      PROVE  TypeOK'
  BY <1>5 DEF BeginSleep
<1>6. ASSUME NEW t \in Threads, SkipSleep(t)
      PROVE  TypeOK'
  BY <1>6 DEF SkipSleep, pacing
<1>7. ASSUME NEW t \in Threads, Wake(t)
      PROVE  TypeOK'
  BY <1>7 DEF Wake, pacing
<1>8. ASSUME NEW t \in Threads, Interrupt(t)
      PROVE  TypeOK'
  BY <1>8 DEF Interrupt, pacing
<1>9. ASSUME NEW t \in Threads, Return(t)
      PROVE  TypeOK'
  BY <1>9 DEF Return
<1>10. CASE Tick
  BY <1>10 DEF Tick, pacing
<1>11. CASE UNCHANGED vars
  BY <1>11 DEF vars
<1> QED
  BY <1>1, <1>2, <1>3, <1>4, <1>5, <1>6, <1>7, <1>8, <1>9, <1>10, <1>11
     DEF Next, Reserve, Wait

\* Initially every variable is of its kind.
LEMMA TypeInit == Init => TypeOK
BY DEF Init, TypeOK

\* Every reachable state of rate_limit is well typed.
THEOREM Typing == Spec => []TypeOK
BY TypeInit, TypeStep, PTL DEF Spec
-----------------------------------------------------------------------------
\* A successful compare-and-swap claims a slot past all the others.
LEMMA ClaimIsFresh ==
    ASSUME IInv, NEW t \in Threads, CasOk(t)
    PROVE  LET s == Later(snap[t], seen[t])
           IN  /\ s \in Nat
               /\ nextSlot[cls[t]] <= s
               /\ \A b \in reserved[cls[t]] : b + Interval[cls[t]] <= s
               /\ s <= now \/ \E b \in reserved[cls[t]] : s = b + Interval[cls[t]]
<1> DEFINE c == cls[t]
           s == Later(snap[t], seen[t])
<1>1. /\ c \in Classes /\ snap[t] \in Nat /\ seen[t] \in Nat /\ now \in Nat
      /\ nextSlot[c] \in Nat /\ reserved[c] \in SUBSET Nat /\ Interval[c] \in Nat
  BY IntervalPositive DEF IInv, TypeOK
<1>2. seen[t] = nextSlot[c] /\ snap[t] <= now
  BY DEF CasOk, IInv, WaitsOut
<1>3. s \in Nat /\ seen[t] <= s /\ (s = snap[t] \/ s = seen[t])
  BY <1>1, LaterIsMax
<1>4. /\ \A b \in reserved[c] : b + Interval[c] <= nextSlot[c]
      /\ nextSlot[c] = 0 \/ \E b \in reserved[c] : nextSlot[c] = b + Interval[c]
  BY <1>1 DEF IInv, WordFollowsSlots
<1>5. \A b \in reserved[c] : b + Interval[c] <= s
  BY <1>1, <1>2, <1>3, <1>4
<1>6. s <= now \/ \E b \in reserved[c] : s = b + Interval[c]
  BY <1>1, <1>2, <1>3, <1>4
<1> QED
  BY <1>2, <1>3, <1>5, <1>6

\* The words keep following the slots.
LEMMA WordStep == IInv /\ [Next]_vars => WordFollowsSlots'
<1> SUFFICES ASSUME IInv, [Next]_vars
             PROVE  WordFollowsSlots'
  OBVIOUS
<1>1. ASSUME NEW t \in Threads, CasOk(t)
      PROVE  WordFollowsSlots'
  <2> DEFINE k == cls[t]
             s == Later(snap[t], seen[t])
  <2>1. /\ s \in Nat /\ nextSlot[k] <= s
        /\ \A b \in reserved[k] : b + Interval[k] <= s
    BY <1>1, ClaimIsFresh
  <2>2. /\ nextSlot' = [nextSlot EXCEPT ![k] = s + Interval[k]]
        /\ reserved' = [reserved EXCEPT ![k] = @ \union {s}]
    BY <1>1 DEF CasOk
  <2>3. SUFFICES ASSUME NEW c \in Classes
                 PROVE  /\ \A b \in reserved'[c] : b + Interval[c] <= nextSlot'[c]
                        /\ \/ nextSlot'[c] = 0
                           \/ \E b \in reserved'[c] : nextSlot'[c] = b + Interval[c]
    BY DEF WordFollowsSlots, Interval
  <2>4. /\ k \in Classes /\ nextSlot \in [Classes -> Nat]
        /\ reserved \in [Classes -> SUBSET Nat]
        /\ Interval[c] \in Nat /\ Interval[k] \in Nat
    BY IntervalPositive DEF IInv, TypeOK
  <2>5. CASE c = k
    <3>1. nextSlot'[c] = s + Interval[c] /\ reserved'[c] = reserved[c] \union {s}
      BY <2>2, <2>4, <2>5
    <3>2. \A b \in reserved[c] : b \in Nat /\ b + Interval[c] <= s
      BY <2>1, <2>4, <2>5
    <3> QED
      BY <2>1, <2>4, <3>1, <3>2
  <2>6. CASE c # k
    <3>1. nextSlot'[c] = nextSlot[c] /\ reserved'[c] = reserved[c]
      BY <2>2, <2>4, <2>6
    <3> QED
      BY <3>1 DEF IInv, WordFollowsSlots
  <2> QED
    BY <2>5, <2>6
<1>2. CASE UNCHANGED <<nextSlot, reserved>>
  BY <1>2 DEF IInv, WordFollowsSlots, Interval
<1>3. (\E t \in Threads : CasOk(t)) \/ UNCHANGED <<nextSlot, reserved>>
  BY DEF Next, Reserve, Wait, Call, Load, CasFail, BeginSleep, SkipSleep, Wake,
         Interrupt, Return, Tick, vars, pacing
<1> QED
  BY <1>1, <1>2, <1>3

\* What a thread holds was claimed, and nobody who sleeps wakes too soon.
LEMMA WaitStep == IInv /\ [Next]_vars => WaitsOut'
<1> SUFFICES ASSUME IInv, [Next]_vars
             PROVE  WaitsOut'
  OBVIOUS
<1> USE DEF IInv, TypeOK, WaitsOut, Holds
<1>1. ASSUME NEW t \in Threads, NEW c \in Classes, Call(t, c)
      PROVE  WaitsOut'
  BY <1>1 DEF Call
<1>2. ASSUME NEW t \in Threads, Load(t)
      PROVE  WaitsOut'
  BY <1>2 DEF Load
<1>3. ASSUME NEW t \in Threads, CasOk(t)
      PROVE  WaitsOut'
  <2> DEFINE s == Later(snap[t], seen[t])
  <2>1. /\ slot' = [slot EXCEPT ![t] = s]
        /\ reserved' = [reserved EXCEPT ![cls[t]] = @ \union {s}]
        /\ pc' = [pc EXCEPT ![t] = "reserved"]
        /\ UNCHANGED <<now, cls, snap, wake>>
    BY <1>3 DEF CasOk
  <2> HIDE DEF s
  <2>2. \A c \in Classes : reserved[c] \subseteq reserved'[c]
    BY <2>1
  <2>3. slot'[t] \in reserved'[cls[t]]
    BY <2>1
  <2> QED
    BY <2>1, <2>2, <2>3
<1>4. ASSUME NEW t \in Threads, CasFail(t)
      PROVE  WaitsOut'
  BY <1>4 DEF CasFail
<1>5. ASSUME NEW t \in Threads, BeginSleep(t)
      PROVE  WaitsOut'
  BY <1>5 DEF BeginSleep
<1>6. ASSUME NEW t \in Threads, SkipSleep(t) \/ Wake(t) \/ Interrupt(t)
      PROVE  WaitsOut'
  BY <1>6 DEF SkipSleep, Wake, Interrupt, pacing
<1>7. ASSUME NEW t \in Threads, Return(t)
      PROVE  WaitsOut'
  BY <1>7 DEF Return
<1>8. CASE Tick
  BY <1>8 DEF Tick, pacing
<1>9. CASE UNCHANGED vars
  BY <1>9 DEF vars
<1> QED
  BY <1>1, <1>2, <1>3, <1>4, <1>5, <1>6, <1>7, <1>8, <1>9 DEF Next, Reserve, Wait

\* Slots held stay spaced.
LEMMA SpacingStep == IInv /\ [Next]_vars => SlotsSpaced'
<1> SUFFICES ASSUME IInv, [Next]_vars,
                    NEW t \in Threads, NEW u \in Threads, t # u,
                    Holds(t)', Holds(u)', cls'[t] = cls'[u]
             PROVE  \/ slot'[t] + Interval[cls'[t]] <= slot'[u]
                    \/ slot'[u] + Interval[cls'[t]] <= slot'[t]
  BY DEF SlotsSpaced, Interval
<1> USE DEF IInv, TypeOK
<1>1. ASSUME NEW w \in Threads, CasOk(w)
      PROVE  \/ slot'[t] + Interval[cls'[t]] <= slot'[u]
             \/ slot'[u] + Interval[cls'[t]] <= slot'[t]
  <2> DEFINE s == Later(snap[w], seen[w])
  <2>1. /\ slot' = [slot EXCEPT ![w] = s]
        /\ pc' = [pc EXCEPT ![w] = "reserved"]
        /\ cls' = cls
    BY <1>1 DEF CasOk
  <2>2. \A b \in reserved[cls[w]] : b + Interval[cls[w]] <= s
    BY <1>1, ClaimIsFresh
  <2> HIDE DEF s
  <2>3. CASE t = w
    <3>1. Holds(u) /\ slot'[t] = s /\ slot'[u] = slot[u]
      BY <2>1, <2>3 DEF Holds
    <3> QED
      BY <2>1, <2>2, <2>3, <3>1 DEF WaitsOut
  <2>4. CASE u = w
    <3>1. Holds(t) /\ slot'[u] = s /\ slot'[t] = slot[t]
      BY <2>1, <2>4 DEF Holds
    <3> QED
      BY <2>1, <2>2, <2>4, <3>1 DEF WaitsOut
  <2>5. CASE t # w /\ u # w
    BY <2>1, <2>5 DEF Holds, SlotsSpaced
  <2> QED
    BY <2>3, <2>4, <2>5
<1>2. CASE ~ \E w \in Threads : CasOk(w)
  <2>1. /\ Holds(t) /\ Holds(u)
        /\ slot'[t] = slot[t] /\ slot'[u] = slot[u]
        /\ cls'[t] = cls[t] /\ cls'[u] = cls[u]
    BY <1>2 DEF Next, Reserve, Wait, Call, Load, CasFail, BeginSleep, SkipSleep, Wake,
                Interrupt, Return, Tick, vars, pacing, Holds
  <2> QED
    BY <2>1 DEF SlotsSpaced
<1> QED
  BY <1>1, <1>2

\* Nobody runs before its slot.
LEMMA NeverEarlyStep == IInv /\ [Next]_vars => NeverEarly'
<1> SUFFICES ASSUME IInv, [Next]_vars, NEW t \in Threads,
                    pc'[t] = "ready", t \notin early'
             PROVE  slot'[t] <= now'
  BY DEF NeverEarly
<1> USE DEF IInv, TypeOK
<1>1. ASSUME NEW w \in Threads, SkipSleep(w) \/ Wake(w)
      PROVE  slot'[t] <= now'
  BY <1>1 DEF SkipSleep, Wake, pacing, NeverEarly, WaitsOut
<1>2. CASE ~ \E w \in Threads : SkipSleep(w) \/ Wake(w)
  <2>1. /\ pc[t] = "ready" /\ t \notin early
        /\ slot'[t] = slot[t] /\ now <= now' /\ now' \in Nat
    BY <1>2 DEF Next, Reserve, Wait, Call, Load, CasOk, CasFail, BeginSleep,
                Interrupt, Return, Tick, vars, pacing
  <2> QED
    BY <2>1 DEF NeverEarly
<1> QED
  BY <1>1, <1>2

\* The invariant holds at the start.
LEMMA IInvInit == Init => IInv
BY DEF Init, IInv, TypeOK, WordFollowsSlots, WaitsOut, SlotsSpaced, NeverEarly, Holds

\* The inductive invariant of rate_limit holds in every reachable state.
THEOREM Invariance == Spec => []IInv
<1>1. IInv /\ [Next]_vars => IInv'
  BY TypeStep, WordStep, WaitStep, SpacingStep, NeverEarlyStep DEF IInv
<1> QED
  BY <1>1, IInvInit, PTL DEF Spec

\* Callers of one class hold slots at least an interval apart, for any number
\* of threads and any interleaving of the lock-free claim.
THEOREM Spacing == Spec => []SlotsSpaced
<1>1. IInv => SlotsSpaced
  BY DEF IInv
<1> QED
  BY <1>1, Invariance, PTL

\* A request leaves rate_limit before its slot only if a signal interrupted it.
THEOREM Punctuality == Spec => []NeverEarly
<1>1. IInv => NeverEarly
  BY DEF IInv
<1> QED
  BY <1>1, Invariance, PTL
-----------------------------------------------------------------------------
\* The permits of all threads, as Pacer sees them.
permits == [t \in Threads |-> permitOf(t)]

\* Changing one thread's own variables changes that thread's permit only.
LEMMA PermitChange ==
    ASSUME NEW t \in Threads,
           \A u \in Threads \ {t} : /\ pc'[u] = pc[u]
                                    /\ cls'[u] = cls[u]
                                    /\ slot'[u] = slot[u]
    PROVE  permits' = [permits EXCEPT ![t] = permitOf(t)']
<1>1. \A u \in Threads \ {t} : permitOf(u)' = permitOf(u)
  BY DEF permitOf
<1> QED
  BY <1>1 DEF permits

\* A step of rate_limit is a step of Pacer or leaves it where it was.
LEMMA PacerStep ==
    IInv /\ IInv' /\ [Next]_vars => [Paced!Next]_(Paced!vars)
<1> SUFFICES ASSUME IInv, IInv', [Next]_vars
             PROVE  Paced!Next \/ UNCHANGED <<now, reserved, permits, signals>>
  BY DEF Paced!vars, permits
<1> USE DEF IInv, TypeOK
<1>1. ASSUME NEW t \in Threads, CasOk(t)
      PROVE  Paced!Book(t, cls[t])
  <2> DEFINE k == cls[t]
             s == Later(snap[t], seen[t])
  <2>1. /\ s \in Nat
        /\ \A b \in reserved[k] : b + Interval[k] <= s
        /\ s <= now \/ \E b \in reserved[k] : s = b + Interval[k]
    BY <1>1, ClaimIsFresh
  <2>2. s \in Paced!Free(k)
    BY <2>1 DEF Paced!Free
  <2>3. permitOf(t)' = [state |-> "waiting", cls |-> k, at |-> s]
    BY <1>1 DEF CasOk, permitOf
  <2>4. permits' = [permits EXCEPT ![t] = [state |-> "waiting", cls |-> k, at |-> s]]
    <3>1. permits' = [permits EXCEPT ![t] = permitOf(t)']
      BY <1>1, PermitChange DEF CasOk
    <3> QED
      BY <2>3, <3>1
  <2>5. permits[t] = Paced!NoPermit
    BY <1>1 DEF CasOk, permits, permitOf, Paced!NoPermit
  <2>6. /\ reserved' = [reserved EXCEPT ![k] = @ \union {s}]
        /\ now' = now /\ signals' = signals
    BY <1>1 DEF CasOk
  <2> QED
    BY <2>2, <2>4, <2>5, <2>6 DEF Paced!Book, permits
<1>2. ASSUME NEW t \in Threads, SkipSleep(t) \/ Wake(t)
      PROVE  Paced!Admit(t)
  <2>1. /\ pc[t] \in {"reserved", "sleep"} /\ pc'[t] = "ready"
        /\ UNCHANGED <<now, reserved, signals, cls, slot>>
        /\ slot[t] <= now
    BY <1>2 DEF SkipSleep, Wake, pacing, WaitsOut
  <2>2. /\ permits[t] = [state |-> "waiting", cls |-> cls[t], at |-> slot[t]]
        /\ permitOf(t)' = [state |-> "admitted", cls |-> cls[t], at |-> slot[t]]
    BY <2>1 DEF permits, permitOf
  <2>3. permits' = [permits EXCEPT ![t] = permitOf(t)']
    BY <1>2, PermitChange DEF SkipSleep, Wake, pacing
  <2>4. permits' = [permits EXCEPT ![t] = Paced!Admitted(permits[t])]
    BY <2>2, <2>3 DEF Paced!Admitted
  <2> QED
    BY <2>1, <2>2, <2>4 DEF Paced!Admit, permits
<1>3. ASSUME NEW t \in Threads, Interrupt(t)
      PROVE  Paced!AdmitEarly(t)
  <2>1. /\ permits[t] = [state |-> "waiting", cls |-> cls[t], at |-> slot[t]]
        /\ permitOf(t)' = [state |-> "admitted", cls |-> cls[t], at |-> slot[t]]
    BY <1>3 DEF Interrupt, pacing, permits, permitOf
  <2>2. permits' = [permits EXCEPT ![t] = permitOf(t)']
    BY <1>3, PermitChange DEF Interrupt, pacing
  <2>3. permits' = [permits EXCEPT ![t] = Paced!Admitted(permits[t])]
    BY <2>1, <2>2 DEF Paced!Admitted
  <2> QED
    BY <1>3, <2>1, <2>3 DEF Interrupt, pacing, Paced!AdmitEarly, permits
<1>4. ASSUME NEW t \in Threads, Return(t)
      PROVE  Paced!Leave(t)
  <2>1. /\ permits[t] = [state |-> "admitted", cls |-> cls[t], at |-> slot[t]]
        /\ permitOf(t)' = Paced!NoPermit
    BY <1>4 DEF Return, permits, permitOf, Paced!NoPermit
  <2>2. permits' = [permits EXCEPT ![t] = permitOf(t)']
    BY <1>4, PermitChange DEF Return
  <2> QED
    BY <1>4, <2>1, <2>2 DEF Return, Paced!Leave, permits
<1>5. ASSUME Tick
      PROVE  Paced!Advance
  BY <1>5 DEF Tick, pacing, Paced!Advance, permitOf
<1>6. ASSUME NEW t \in Threads, NEW c \in Classes, Call(t, c)
      PROVE  UNCHANGED <<now, reserved, permits, signals>>
  BY <1>6 DEF Call, permits, permitOf
<1>7. ASSUME NEW t \in Threads, Load(t) \/ CasFail(t) \/ BeginSleep(t)
      PROVE  UNCHANGED <<now, reserved, permits, signals>>
  BY <1>7 DEF Load, CasFail, BeginSleep, permits, permitOf
<1>8. CASE UNCHANGED vars
  BY <1>8 DEF vars, permits, permitOf
<1> QED
  BY <1>1, <1>2, <1>3, <1>4, <1>5, <1>6, <1>7, <1>8
     DEF Next, Reserve, Wait, Paced!Next

\* rate_limit implements Pacer: the compare-and-swap on one word and the
\* relative sleep together give every caller a slot of its own, no later than
\* needed, and hold it back until then.
THEOREM Refinement == Spec => RefinesPacer
<1>1. Init => Paced!Init
  BY DEF Init, Paced!Init, Paced!NoPermit, permitOf
<1> QED
  BY <1>1, PacerStep, Invariance, PTL DEF Spec, RefinesPacer, Paced!Spec
-----------------------------------------------------------------------------
(***************************************************************************)
(* The backlog.  Seen from any moment x that is not past, the word is at   *)
(* most one interval ahead for each slot claimed after x, and one more;    *)
(* and each of those slots has a thread that waits for it, or was given up *)
(* to a signal.  Time only takes moments away, so a tick preserves both.   *)
(***************************************************************************)
Ahead(c, x) == {b \in reserved[c] : b > x}
Waiters(c, x) ==
    {t \in Threads : Holds(t) /\ t \notin early /\ cls[t] = c /\ slot[t] > x}

BoundAt(c, x) ==
    /\ nextSlot[c] <= x + Interval[c] * (1 + Cardinality(Ahead(c, x)))
    /\ Cardinality(Ahead(c, x)) <= Cardinality(Waiters(c, x)) + signals

BacklogInv ==
    /\ \A t \in early : pc[t] = "ready"
    /\ \A c \in Classes : IsFiniteSet(reserved[c])
    /\ \A c \in Classes : \A x \in Nat : now <= x => BoundAt(c, x)

LEMMA CountsFinite ==
    ASSUME BacklogInv, NEW c \in Classes, NEW x \in Nat
    PROVE  /\ IsFiniteSet(Ahead(c, x)) /\ Cardinality(Ahead(c, x)) \in Nat
           /\ IsFiniteSet(Waiters(c, x)) /\ Cardinality(Waiters(c, x)) \in Nat
           /\ Cardinality(Waiters(c, x)) <= Cardinality(Threads)
           /\ Cardinality(Threads) \in Nat
<1>1. IsFiniteSet(reserved[c]) /\ Ahead(c, x) \in SUBSET reserved[c]
  BY DEF BacklogInv, Ahead
<1>2. IsFiniteSet(Ahead(c, x))
  BY <1>1, FS_Subset
<1>3. Waiters(c, x) \in SUBSET Threads
  BY DEF Waiters
<1>4. IsFiniteSet(Waiters(c, x)) /\ Cardinality(Waiters(c, x)) <= Cardinality(Threads)
  BY <1>3, ThreadsAssumption, FS_Subset
<1> QED
  BY <1>2, <1>4, ThreadsAssumption, FS_CardinalityType

\* Steps that claim nothing and keep the waiters, or lose one to a signal.
LEMMA BacklogKept ==
    ASSUME BacklogInv, TypeOK, TypeOK', UNCHANGED <<nextSlot, reserved>>, now <= now',
           \A t \in early' : pc'[t] = "ready",
           \A c \in Classes : \A x \in Nat : now <= x =>
               Cardinality(Waiters(c, x)) + signals
                 <= Cardinality(Waiters(c, x))' + signals'
    PROVE  BacklogInv'
<1>1. ASSUME NEW c \in Classes, NEW x \in Nat, now' <= x
      PROVE  BoundAt(c, x)'
  <2>1. now <= x
    BY <1>1 DEF TypeOK
  <2>2. BoundAt(c, x) /\ Ahead(c, x)' = Ahead(c, x)
    BY <2>1 DEF BacklogInv, Ahead
  <2>3. Cardinality(Ahead(c, x)) \in Nat /\ Cardinality(Waiters(c, x)) \in Nat
    BY CountsFinite
  <2>4. /\ signals \in Nat /\ signals' \in Nat
        /\ Waiters(c, x)' \in SUBSET Threads
    BY DEF TypeOK, Waiters
  <2>5. Cardinality(Waiters(c, x)') \in Nat
    BY <2>4, ThreadsAssumption, FS_Subset, FS_CardinalityType
  <2>6. Cardinality(Waiters(c, x)) + signals <= Cardinality(Waiters(c, x))' + signals'
    BY <2>1
  <2>7. Cardinality(Ahead(c, x)) <= Cardinality(Waiters(c, x)') + signals'
    BY <2>2, <2>3, <2>4, <2>5, <2>6 DEF BoundAt
  <2> QED
    BY <2>2, <2>7 DEF BoundAt, Interval
<1> QED
  BY <1>1 DEF BacklogInv

\* A claim puts the word one interval further, and its thread among the waiters.
LEMMA BacklogClaimed ==
    ASSUME IInv, BacklogInv, TypeOK', NEW t \in Threads, CasOk(t)
    PROVE  BacklogInv'
<1> DEFINE k == cls[t]
           s == Later(snap[t], seen[t])
<1>1. /\ s \in Nat /\ nextSlot[k] <= s
      /\ \A b \in reserved[k] : b + Interval[k] <= s
  BY ClaimIsFresh
<1>2. /\ nextSlot' = [nextSlot EXCEPT ![k] = s + Interval[k]]
      /\ reserved' = [reserved EXCEPT ![k] = @ \union {s}]
      /\ slot' = [slot EXCEPT ![t] = s] /\ pc' = [pc EXCEPT ![t] = "reserved"]
      /\ pc[t] = "cas" /\ UNCHANGED <<now, cls, signals, early>>
  BY DEF CasOk
<1>3. s = nextSlot[k] \/ s <= now
  BY LaterIsMax DEF CasOk, IInv, TypeOK, WaitsOut
<1>4. /\ k \in Classes /\ now \in Nat /\ signals \in Nat
      /\ nextSlot \in [Classes -> Nat] /\ reserved \in [Classes -> SUBSET Nat]
      /\ slot \in [Threads -> Nat]
      /\ \A c \in Classes : Interval[c] \in Nat /\ Interval[c] >= 1
  BY IntervalPositive DEF IInv, TypeOK
<1>5. pc \in [Threads -> {"idle", "load", "cas", "reserved", "sleep", "ready"}]
  BY DEF IInv, TypeOK
<1>6. t \notin early /\ ~Holds(t)
  BY <1>2 DEF BacklogInv, Holds
<1> HIDE DEF k, s
<1>7. ASSUME NEW c \in Classes
      PROVE  IsFiniteSet(reserved'[c])
  BY <1>2, <1>4, FS_AddElement DEF BacklogInv
<1>8. \A u \in early' : pc'[u] = "ready"
  BY <1>2, <1>5, <1>6 DEF BacklogInv, IInv, TypeOK
<1>9. ASSUME NEW c \in Classes, NEW x \in Nat, now' <= x
      PROVE  BoundAt(c, x)'
  <2> DEFINE F == Cardinality(Ahead(c, x))
             W == Cardinality(Waiters(c, x))
  <2>1. BoundAt(c, x) /\ F \in Nat /\ W \in Nat
    BY <1>2, <1>9, CountsFinite DEF BacklogInv
  <2>2. IsFiniteSet(Ahead(c, x)) /\ IsFiniteSet(Waiters(c, x))
    BY CountsFinite
  <2>3. \A u \in Threads \ {t} : /\ Holds(u)' <=> Holds(u)
                                 /\ slot'[u] = slot[u]
    BY <1>2, <1>4, <1>5 DEF Holds
  <2>4. CASE c = k /\ s > x
    <3>1. Ahead(c, x)' = Ahead(c, x) \cup {s} /\ s \notin Ahead(c, x)
      BY <1>1, <1>2, <1>4, <2>4 DEF Ahead
    <3>2. Waiters(c, x)' = Waiters(c, x) \cup {t} /\ t \notin Waiters(c, x)
      <4>1. Holds(t)' /\ slot'[t] = s /\ cls'[t] = c
        BY <1>2, <1>4, <1>5, <2>4 DEF Holds, k
      <4> QED
        BY <1>2, <1>6, <2>3, <2>4, <4>1 DEF Waiters
    <3>3. Cardinality(Ahead(c, x)') = F + 1 /\ Cardinality(Waiters(c, x)') = W + 1
      BY <2>2, <3>1, <3>2, FS_AddElement
    <3>4. nextSlot'[c] = nextSlot[c] + Interval[c]
      <4>1. now' = now
        BY <1>2
      <4>2. ~(s <= now)
        BY <1>1, <1>4, <1>9, <2>4, <4>1
      <4>3. nextSlot'[c] = s + Interval[c]
        BY <1>2, <1>4, <2>4
      <4> QED
        BY <1>3, <2>4, <4>2, <4>3
    <3>5. Interval[c] * (1 + (F + 1)) = Interval[c] * (1 + F) + Interval[c]
      BY <1>4, <2>1
    <3>6. Interval[c] * (1 + F) \in Nat /\ nextSlot[c] \in Nat /\ Interval[c] \in Nat
      BY <1>4, <2>1
    <3>7. nextSlot'[c] <= x + Interval[c] * (1 + (F + 1))
      BY <2>1, <3>4, <3>5, <3>6 DEF BoundAt
    <3> QED
      BY <1>2, <1>4, <2>1, <3>3, <3>7 DEF BoundAt, Interval
  <2>5. CASE c = k /\ s <= x
    <3>1. Ahead(c, x)' = Ahead(c, x)
      BY <1>1, <1>2, <1>4, <2>5 DEF Ahead
    <3>2. Waiters(c, x)' = Waiters(c, x)
      <4>1. slot'[t] = s
        BY <1>2, <1>4
      <4> QED
        BY <1>1, <1>2, <1>6, <2>3, <2>5, <4>1 DEF Waiters
    <3>3. nextSlot'[c] = s + Interval[c]
      BY <1>2, <1>4, <2>5
    <3>4. Interval[c] <= Interval[c] * (1 + F) /\ Interval[c] * (1 + F) \in Nat
      BY <1>4, <2>1
    <3>5. nextSlot'[c] <= x + Interval[c] * (1 + F)
      BY <1>1, <1>4, <2>5, <3>3, <3>4
    <3> QED
      BY <1>2, <2>1, <3>1, <3>2, <3>5 DEF BoundAt, Interval
  <2>6. CASE c # k
    <3>1. nextSlot'[c] = nextSlot[c] /\ reserved'[c] = reserved[c] /\ cls'[t] # c
      BY <1>2, <1>4, <2>6 DEF k
    <3>2. Ahead(c, x)' = Ahead(c, x) /\ Waiters(c, x)' = Waiters(c, x)
      BY <1>2, <1>6, <2>3, <3>1 DEF Ahead, Waiters
    <3> QED
      BY <1>2, <2>1, <3>1, <3>2 DEF BoundAt, Interval
  <2> QED
    BY <1>1, <2>4, <2>5, <2>6
<1> QED
  BY <1>7, <1>8, <1>9 DEF BacklogInv
LEMMA BacklogStep ==
    ASSUME IInv, BacklogInv, TypeOK', [Next]_vars
    PROVE  BacklogInv'
<1>1. TypeOK
  BY DEF IInv
\* Steps that keep the waiters of every class and moment.
<1>2. ASSUME UNCHANGED <<nextSlot, reserved, signals>>, now <= now',
             \A t \in early' : pc'[t] = "ready",
             \A c \in Classes : \A x \in Nat :
                 now <= x => Waiters(c, x)' = Waiters(c, x)
      PROVE  BacklogInv'
  <2>1. ASSUME NEW c \in Classes, NEW x \in Nat, now <= x
        PROVE  Cardinality(Waiters(c, x)) + signals
                 <= Cardinality(Waiters(c, x))' + signals'
    <3>1. Cardinality(Waiters(c, x)) \in Nat /\ signals \in Nat
      BY <1>1, CountsFinite DEF TypeOK
    <3> QED
      BY <1>2, <2>1, <3>1
  <2> QED
    BY <1>1, <1>2, <2>1, BacklogKept
<1>3. ASSUME NEW t \in Threads, NEW c \in Classes, Call(t, c)
      PROVE  BacklogInv'
  <2>1. ~Holds(t) /\ ~Holds(t)' /\ t \notin early
    BY <1>1, <1>3 DEF Call, Holds, TypeOK, BacklogInv
  <2>2. \A u \in Threads \ {t} : (Holds(u)' <=> Holds(u)) /\ cls'[u] = cls[u]
    BY <1>1, <1>3 DEF Call, Holds, TypeOK
  <2>3. \A d \in Classes : \A x \in Nat : Waiters(d, x)' = Waiters(d, x)
    BY <1>3, <2>1, <2>2 DEF Call, Waiters
  <2>4. \A u \in early' : pc'[u] = "ready"
    BY <1>1, <1>3, <2>1 DEF Call, BacklogInv, TypeOK
  <2> QED
    BY <1>1, <1>2, <1>3, <2>3, <2>4 DEF Call, TypeOK
<1>4. ASSUME NEW t \in Threads, Load(t) \/ CasFail(t)
      PROVE  BacklogInv'
  <2>1. ~Holds(t) /\ ~Holds(t)' /\ t \notin early
    BY <1>1, <1>4 DEF Load, CasFail, Holds, TypeOK, BacklogInv
  <2>2. \A u \in Threads \ {t} : Holds(u)' <=> Holds(u)
    BY <1>1, <1>4 DEF Load, CasFail, Holds, TypeOK
  <2>3. \A d \in Classes : \A x \in Nat : Waiters(d, x)' = Waiters(d, x)
    BY <1>4, <2>1, <2>2 DEF Load, CasFail, Waiters
  <2>4. \A u \in early' : pc'[u] = "ready"
    BY <1>1, <1>4, <2>1 DEF Load, CasFail, BacklogInv, TypeOK
  <2> QED
    BY <1>1, <1>2, <1>4, <2>3, <2>4 DEF Load, CasFail, TypeOK
<1>5. ASSUME NEW t \in Threads, CasOk(t)
      PROVE  BacklogInv'
  BY <1>5, BacklogClaimed
<1>6. ASSUME NEW t \in Threads, BeginSleep(t) \/ SkipSleep(t) \/ Wake(t)
      PROVE  BacklogInv'
  <2>1. \A u \in Threads : Holds(u)' <=> Holds(u)
    BY <1>1, <1>6 DEF BeginSleep, SkipSleep, Wake, Holds, TypeOK
  <2>2. \A d \in Classes : \A x \in Nat : Waiters(d, x)' = Waiters(d, x)
    BY <1>6, <2>1 DEF BeginSleep, SkipSleep, Wake, Waiters, pacing
  <2>3. \A u \in early' : pc'[u] = "ready"
    BY <1>1, <1>6 DEF BeginSleep, SkipSleep, Wake, BacklogInv, TypeOK
  <2> QED
    BY <1>1, <1>2, <1>6, <2>2, <2>3 DEF BeginSleep, SkipSleep, Wake, pacing, TypeOK
\* A signal costs one waiter and is counted.
<1>7. ASSUME NEW t \in Threads, Interrupt(t)
      PROVE  BacklogInv'
  <2>1. \A u \in Threads : Holds(u)' <=> Holds(u)
    BY <1>1, <1>7 DEF Interrupt, Holds, TypeOK
  <2>2. \A d \in Classes : \A x \in Nat : Waiters(d, x)' = Waiters(d, x) \ {t}
    BY <1>7, <2>1 DEF Interrupt, Waiters, pacing
  <2>3. \A u \in early' : pc'[u] = "ready"
    BY <1>1, <1>7 DEF Interrupt, BacklogInv, TypeOK
  <2>4. ASSUME NEW c \in Classes, NEW x \in Nat, now <= x
        PROVE  Cardinality(Waiters(c, x)) + signals
                 <= Cardinality(Waiters(c, x))' + signals'
    <3>1. IsFiniteSet(Waiters(c, x)) /\ Cardinality(Waiters(c, x)) \in Nat
      BY CountsFinite
    <3>2. Cardinality(Waiters(c, x) \ {t}) = IF t \in Waiters(c, x)
                                             THEN Cardinality(Waiters(c, x)) - 1
                                             ELSE Cardinality(Waiters(c, x))
      BY <3>1, FS_RemoveElement
    <3>3. Cardinality(Waiters(c, x))' = Cardinality(Waiters(c, x) \ {t})
      BY <2>2
    <3>4. signals' = signals + 1 /\ signals \in Nat
      BY <1>1, <1>7 DEF Interrupt, TypeOK
    <3> QED
      BY <3>1, <3>2, <3>3, <3>4
  <2> QED
    BY <1>1, <1>7, <2>3, <2>4, BacklogKept DEF Interrupt, pacing, TypeOK
\* Who returns was interrupted, or its slot has come.
<1>8. ASSUME NEW t \in Threads, Return(t)
      PROVE  BacklogInv'
  <2>1. ~Holds(t)' /\ (t \in early \/ slot[t] <= now)
    BY <1>1, <1>8 DEF Return, Holds, TypeOK, IInv, NeverEarly
  <2>2. \A u \in Threads \ {t} : (Holds(u)' <=> Holds(u)) /\ slot'[u] = slot[u]
    BY <1>1, <1>8 DEF Return, Holds, TypeOK
  <2>3. slot[t] \in Nat /\ now \in Nat
    BY <1>1 DEF TypeOK
  <2>4. ASSUME NEW c \in Classes, NEW x \in Nat, now <= x
        PROVE  Waiters(c, x)' = Waiters(c, x)
    <3>1. t \notin Waiters(c, x) /\ t \notin Waiters(c, x)'
      BY <2>1, <2>3, <2>4 DEF Waiters
    <3>2. \A u \in Threads \ {t} : u \in Waiters(c, x)' <=> u \in Waiters(c, x)
      BY <1>8, <2>2 DEF Return, Waiters
    <3> QED
      BY <3>1, <3>2 DEF Waiters
  <2>5. \A u \in early' : pc'[u] = "ready"
    BY <1>1, <1>8 DEF Return, BacklogInv, TypeOK
  <2> QED
    BY <1>1, <1>2, <1>8, <2>4, <2>5 DEF Return, TypeOK
<1>9. CASE Tick \/ UNCHANGED vars
  <2>1. /\ UNCHANGED <<nextSlot, reserved, signals, pc, early, cls, slot>>
        /\ now <= now'
    BY <1>1, <1>9 DEF Tick, vars, pacing, TypeOK
  <2>2. \A c \in Classes : \A x \in Nat : Waiters(c, x)' = Waiters(c, x)
    BY <2>1 DEF Waiters, Holds
  <2> QED
    BY <1>2, <2>1, <2>2 DEF BacklogInv
<1> QED
  BY <1>3, <1>4, <1>5, <1>6, <1>7, <1>8, <1>9 DEF Next, Reserve, Wait

\* The word never runs ahead of the clock by more than an interval per thread
\* and per interrupted sleep, and one: attempts that fail leave no gaps.
THEOREM Backlog == Spec => []BacklogBounded
<1>1. Init => BacklogInv
  <2>1. ASSUME Init, NEW c \in Classes, NEW x \in Nat
        PROVE  BoundAt(c, x)
    <3>1. Ahead(c, x) = {} /\ Waiters(c, x) = {} /\ nextSlot[c] = 0 /\ signals = 0
      BY <2>1 DEF Init, Ahead, Waiters
    <3>2. Cardinality({}) = 0
      BY FS_EmptySet
    <3> QED
      BY <3>1, <3>2, IntervalPositive DEF BoundAt
  <2> QED
    BY <2>1, FS_EmptySet DEF Init, BacklogInv
<1>2. ASSUME IInv, BacklogInv
      PROVE  BacklogBounded
  <2> SUFFICES ASSUME NEW c \in Classes
               PROVE  nextSlot[c] <=
                        now + Interval[c] * (Cardinality(Threads) + 1 + signals)
    BY DEF BacklogBounded
  <2> DEFINE F == Cardinality(Ahead(c, now))
             T == Cardinality(Threads)
  <2>1. now \in Nat /\ signals \in Nat /\ Interval[c] \in Nat /\ nextSlot[c] \in Nat
    BY <1>2, IntervalPositive DEF IInv, TypeOK
  <2>2. BoundAt(c, now)
    BY <1>2, <2>1 DEF BacklogInv
  <2>3. F \in Nat /\ T \in Nat /\ F <= T + signals
    BY <1>2, <2>1, <2>2, CountsFinite DEF BoundAt
  <2>4. PICK d \in Nat : T + 1 + signals = (1 + F) + d
    <3>1. T + signals - F \in Nat
      BY <2>1, <2>3
    <3> WITNESS T + signals - F \in Nat
    <3> QED
      BY <2>1, <2>3
  <2> HIDE DEF F, T
  <2>5. Interval[c] * (T + 1 + signals) = Interval[c] * (1 + F) + Interval[c] * d
    BY <2>1, <2>3, <2>4
  <2>6. Interval[c] * d \in Nat /\ Interval[c] * (1 + F) \in Nat
    BY <2>1, <2>3
  <2>7. nextSlot[c] <= now + Interval[c] * (1 + F)
    BY <2>2 DEF BoundAt, F
  <2>8. nextSlot[c] <= now + Interval[c] * (T + 1 + signals)
    BY <2>1, <2>5, <2>6, <2>7
  <2> QED
    BY <2>8 DEF T
<1> QED
  BY <1>1, <1>2, BacklogStep, Invariance, Typing, PTL DEF Spec
=============================================================================
