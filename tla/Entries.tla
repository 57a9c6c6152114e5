------------------------------ MODULE Entries ------------------------------
(***************************************************************************)
(* The public calls of DefaultExecutionClient that open a position:        *)
(* attempt_ladder_entry_order_with_fallback, attempt_stop_loss_order_with_ *)
(* fallback and postOnlyMaker, with the mutexes they take                  *)
(* (trade_state_mutex_ and the risk manager's), beside the subscriber      *)
(* thread, which takes trade_state_mutex_ at every tick.  Nothing under    *)
(* src/ calls the first two.                                               *)
(*                                                                         *)
(* positions_to_json locks trade_state_mutex_, which both of its callers   *)
(* hold, and checkRiskLimits(is_buy, size, price) calls the overload that  *)
(* locks mutex_ again: a thread there waits for itself.  So neither        *)
(* positions.json nor the stop of a ladder nor the order of a maker is an  *)
(* action of this module: no behaviour reaches them.                       *)
(***************************************************************************)
EXTENDS Naturals, FiniteSets

CONSTANTS Callers, Models,
          NumLevels,          \* num_levels
          MaxAttempts,        \* MAX_FALLBACK_ATTEMPTS
          TickIncrement,      \* FALLBACK_SAFETY_TICK_INCREMENT
          Prices,             \* best bids, in ticks
          None

ASSUME LevelAssumption == NumLevels \in Nat \ {0} /\ MaxAttempts \in Nat \ {0}
ASSUME PriceAssumption == Prices \subseteq Nat /\ TickIncrement \in Nat
ASSUME OwnerAssumption == None \notin Callers \cup Models \cup {"tick"}
ASSUME TickAssumption == "tick" \notin Callers

VARIABLES
  pc,         \* of each caller
  model,      \* the model it enters for
  bid,        \* current_bbo.bid it was given
  attempt, level,
  placed,     \* placed_ids: the answered orders of the call
  orders,     \* the orders at the exchange: number |-> model
  unanswered, \* orders whose identifier nobody was told
  positions,  \* active_positions_
  trade,      \* who holds trade_state_mutex_
  risk,       \* who holds RiskManager::mutex_
  tick        \* the subscriber: "idle", "wait", "hold"

callVars == <<model, bid, attempt, level, placed>>
vars == <<pc, callVars, orders, unanswered, positions, trade, risk, tick>>

Position == [order_ids : SUBSET Nat, stop_order_ids : SUBSET Nat]

TypeOK ==
  /\ pc \in [Callers -> {"idle", "level", "record", "stop", "recordStop", "maker",
                         "risk", "inJson", "inRisk", "done"}]
  /\ model \in [Callers -> Models] /\ bid \in [Callers -> Prices]
  /\ attempt \in [Callers -> 0 .. MaxAttempts - 1]
  /\ level \in [Callers -> 1 .. NumLevels + 1]
  /\ placed \in [Callers -> SUBSET Nat]
  /\ orders \subseteq [id : Nat, model : Models] /\ IsFiniteSet(orders)
  /\ unanswered \subseteq Nat
  /\ DOMAIN positions \subseteq Models
  /\ \A m \in DOMAIN positions : positions[m] \in Position
  /\ trade \in Callers \cup {"tick", None} /\ risk \in Callers \cup {None}
  /\ tick \in {"idle", "wait", "hold"}

\* The positions are those of a run that starts: load_positions_from_json has
\* no caller.
Init ==
  /\ pc = [c \in Callers |-> "idle"]
  /\ model \in [Callers -> Models] /\ bid \in [Callers -> Prices]
  /\ attempt = [c \in Callers |-> 0] /\ level = [c \in Callers |-> 1]
  /\ placed = [c \in Callers |-> {}]
  /\ orders = {} /\ unanswered = {}
  /\ positions = << >>
  /\ trade = None /\ risk = None /\ tick = "idle"

\* active_positions_[m] = p
Put(m, p) ==
  [n \in DOMAIN positions \cup {m} |-> IF n = m THEN p ELSE positions[n]]

NoOrders == [order_ids |-> {}, stop_order_ids |-> {}]

Call(c) ==
  /\ pc[c] = "idle"
  /\ pc' = [pc EXCEPT ![c] = "level"] \/ pc' = [pc EXCEPT ![c] = "stop"]
       \/ pc' = [pc EXCEPT ![c] = "maker"]
  /\ UNCHANGED <<callVars, orders, unanswered, positions, trade, risk, tick>>
-----------------------------------------------------------------------------
(***************************************************************************)
(* Faulty variants, in no specification.                                   *)
(***************************************************************************)
PriceUnchecked(c) == 1            \* a price of zero or less is posted

AnySuccessOfAll(c) ==             \* done only when every level was placed
  Cardinality(placed[c]) = NumLevels

NextAttemptUncounted(c) ==        \* attempts are not counted
  /\ level' = [level EXCEPT ![c] = 1]
  /\ UNCHANGED attempt

RecordUnlocked(c) ==              \* no lock_guard around the insertion
  /\ pc[c] = "record"
  /\ positions' = Put(model[c], [order_ids |-> placed[c], stop_order_ids |-> {}])
  /\ pc' = [pc EXCEPT ![c] = "done"]
  /\ UNCHANGED <<callVars, orders, unanswered, trade, risk, tick>>

TickKeeps ==                      \* the tick leaves the mutex locked
  /\ tick = "hold"
  /\ tick' = "idle"
  /\ UNCHANGED <<pc, callVars, orders, unanswered, positions, trade, risk>>
-----------------------------------------------------------------------------
(***************************************************************************)
(* The ladder: levels are posted one by one, further from the best bid at  *)
(* every attempt.  (The side of the ask is the same without a price that   *)
(* runs out.)                                                              *)
(***************************************************************************)
Price(c) == bid[c] - (level[c] + attempt[c] * TickIncrement)

NextLevel(c) == level' = [level EXCEPT ![c] = @ + 1]

\* A level whose price would not be positive is left out.
SkipLevel(c) ==
  /\ pc[c] = "level" /\ level[c] <= NumLevels
  /\ Price(c) <= 0
  /\ NextLevel(c)
  /\ UNCHANGED <<pc, model, bid, attempt, placed, orders, unanswered, positions, trade,
                 risk, tick>>

NewId == Cardinality(orders) + 1

\* One POST of the call: taken and answered with an identifier, taken while the
\* answer is lost or names none, or not taken.
Posted(c) ==
  \/ /\ orders' = orders \cup {[id |-> NewId, model |-> model[c]]}
     /\ placed' = [placed EXCEPT ![c] = @ \cup {NewId}]
     /\ UNCHANGED unanswered
  \/ /\ orders' = orders \cup {[id |-> NewId, model |-> model[c]]}
     /\ unanswered' = unanswered \cup {NewId}
     /\ UNCHANGED placed
  \/ UNCHANGED <<orders, placed, unanswered>>

PostLevel(c) ==
  /\ pc[c] = "level" /\ level[c] <= NumLevels
  /\ Price(c) > 0
  /\ Posted(c)
  /\ NextLevel(c)
  /\ UNCHANGED <<pc, model, bid, attempt, positions, trade, risk, tick>>

AnySuccess(c) == placed[c] # {}
MoreAttempts(c) == attempt[c] + 1 < MaxAttempts

NextAttempt(c) ==
  /\ attempt' = [attempt EXCEPT ![c] = @ + 1]
  /\ level' = [level EXCEPT ![c] = 1]

\* One answered level is enough; none, and the whole ladder is tried again.
EndAttempt(c) ==
  /\ pc[c] = "level" /\ level[c] > NumLevels
  /\ \/ /\ AnySuccess(c)
        /\ pc' = [pc EXCEPT ![c] = "record"]
        /\ UNCHANGED <<attempt, level>>
     \/ /\ ~AnySuccess(c) /\ MoreAttempts(c)
        /\ NextAttempt(c)
        /\ UNCHANGED pc
     \/ /\ ~AnySuccess(c) /\ ~MoreAttempts(c)
        /\ pc' = [pc EXCEPT ![c] = "done"]
        /\ UNCHANGED <<attempt, level>>
  /\ UNCHANGED <<model, bid, placed, orders, unanswered, positions, trade, risk, tick>>

\* The position is entered under trade_state_mutex_; positions_to_json then
\* waits for the mutex its caller holds.
Record(c) ==
  /\ pc[c] = "record"
  /\ trade = None
  /\ trade' = c
  /\ positions' = Put(model[c], [order_ids |-> placed[c], stop_order_ids |-> {}])
  /\ pc' = [pc EXCEPT ![c] = "inJson"]
  /\ UNCHANGED <<callVars, orders, unanswered, risk, tick>>

\* A stop loss, called by itself.  Its distance from the quote is the model's
\* and may leave no positive price: then nothing is posted.
SkipStop(c) ==
  /\ pc[c] = "stop"
  /\ pc' = [pc EXCEPT ![c] = "done"]
  /\ UNCHANGED <<callVars, orders, unanswered, positions, trade, risk, tick>>

PostStop(c) ==
  /\ pc[c] = "stop"
  /\ Posted(c)
  /\ pc' = [pc EXCEPT ![c] = IF placed'[c] = {} THEN "done" ELSE "recordStop"]
  /\ UNCHANGED <<model, bid, attempt, level, positions, trade, risk, tick>>

\* operator[] makes a position where there is none.
RecordStop(c) ==
  /\ pc[c] = "recordStop"
  /\ trade = None
  /\ trade' = c
  /\ LET old == IF model[c] \in DOMAIN positions THEN positions[model[c]] ELSE NoOrders
     IN  positions' = Put(model[c], [old EXCEPT !.stop_order_ids = @ \cup placed[c]])
  /\ pc' = [pc EXCEPT ![c] = "inJson"]
  /\ UNCHANGED <<callVars, orders, unanswered, risk, tick>>

\* A maker that would cross the book is refused before the risk check.
CheckPrice(c) ==
  /\ pc[c] = "maker"
  /\ pc' = [pc EXCEPT ![c] = "risk"] \/ pc' = [pc EXCEPT ![c] = "done"]
  /\ UNCHANGED <<callVars, orders, unanswered, positions, trade, risk, tick>>

CheckRiskLimits(c) ==
  /\ pc[c] = "risk"
  /\ risk = None
  /\ risk' = c
  /\ pc' = [pc EXCEPT ![c] = "inRisk"]
  /\ UNCHANGED <<callVars, orders, unanswered, positions, trade, tick>>
-----------------------------------------------------------------------------
(***************************************************************************)
(* onTick on the subscriber thread; open_positions_ stays empty.           *)
(***************************************************************************)
TickArrives ==
  /\ tick = "idle"
  /\ tick' = "wait"
  /\ UNCHANGED <<pc, callVars, orders, unanswered, positions, trade, risk>>

TickLocks ==
  /\ tick = "wait" /\ trade = None
  /\ tick' = "hold" /\ trade' = "tick"
  /\ UNCHANGED <<pc, callVars, orders, unanswered, positions, risk>>

TickEnds ==
  /\ tick = "hold"
  /\ tick' = "idle" /\ trade' = None
  /\ UNCHANGED <<pc, callVars, orders, unanswered, positions, risk>>
-----------------------------------------------------------------------------
Lock(c) == Record(c) \/ RecordStop(c) \/ CheckRiskLimits(c)
Step(c) == SkipLevel(c) \/ PostLevel(c) \/ EndAttempt(c) \/ SkipStop(c) \/ PostStop(c)
           \/ CheckPrice(c)
Subscriber == TickLocks \/ TickEnds
Next == TickArrives \/ Subscriber \/ \E c \in Callers : Call(c) \/ Step(c) \/ Lock(c)

\* Threads run and curl's time out ends every request.  A mutex that is free
\* again and again is got by who waits for it.
Spec == /\ Init /\ [][Next]_vars
        /\ \A c \in Callers : WF_vars(Step(c)) /\ SF_vars(Lock(c))
        /\ SF_vars(TickLocks) /\ WF_vars(TickEnds)
-----------------------------------------------------------------------------
Working == {"level", "record", "recordStop"}

\* However the posts of a ladder fail, no order that the exchange answered is
\* forgotten: it is in a position, or its call is still on its way to one.
NothingHidden ==
  \A o \in orders :
    \/ o.id \in unanswered
    \/ /\ o.model \in DOMAIN positions
       /\ o.id \in positions[o.model].order_ids \cup positions[o.model].stop_order_ids
    \/ \E c \in Callers : pc[c] \in Working /\ model[c] = o.model /\ o.id \in placed[c]

\* A ladder of which anything was answered is not posted again, and no level is
\* posted at a price of zero or less.
OneLadder ==
  \A c \in Callers :
    /\ Cardinality(placed[c]) <= NumLevels
    /\ bid[c] <= 1 /\ pc[c] \notin {"stop", "recordStop", "inJson"} => placed[c] = {}

\* The first position that is recorded is the last: the mutex of the trade state
\* is never free again, so that no other call, tick or fill gets to see it.
LastRecord ==
  /\ \A m \in DOMAIN positions :
       \E c \in Callers : trade = c /\ pc[c] = "inJson" /\ model[c] = m
  /\ Cardinality({c \in Callers : pc[c] = "inJson"}) <= 1

\* Every ladder ends its attempts, although each of its posts may fail.
LadderEnds ==
  \A c \in Callers : pc[c] = "level" ~> pc[c] \in {"done", "record", "inJson"}

\* A tick is over soon, unless a call waits for itself with the mutex.
TickGoesOn == tick = "wait" ~> tick = "idle" \/ \E c \in Callers : pc[c] = "inJson"
=============================================================================
