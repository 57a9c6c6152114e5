--------------------------- MODULE EntriesProofs ---------------------------
(***************************************************************************)
(* Entries for any number of callers, models, levels and attempts: no      *)
(* answered order is forgotten, and the first recorded position is the     *)
(* last.                                                                   *)
(***************************************************************************)
EXTENDS Entries, FiniteSetTheorems, TLAPS

USE OwnerAssumption, TickAssumption

(***************************************************************************)
(* The owner of the trade mutex.  A thread in positions_to_json holds it   *)
(* for good, a recorded position belongs to that thread, and the tick      *)
(* releases only what it holds itself.                                     *)
(***************************************************************************)
Shape ==
  /\ DOMAIN pc = Callers /\ DOMAIN model = Callers
  /\ DOMAIN placed = Callers
  /\ \A c \in Callers : model[c] \in Models

OwnerInv ==
  /\ Shape
  /\ \A c \in Callers : pc[c] = "inJson" => trade = c
  /\ tick = "hold" => trade = "tick"
  /\ \A m \in DOMAIN positions :
       \E c \in Callers : trade = c /\ pc[c] = "inJson" /\ model[c] = m

\* Steps of a caller that change neither positions nor owner, and do not lead
\* into positions_to_json or out of it.
LEMMA OwnerKept ==
  ASSUME OwnerInv, NEW c \in Callers, UNCHANGED <<model, positions, trade, tick>>,
         DOMAIN placed' = Callers, DOMAIN pc' = Callers,
         pc[c] # "inJson", pc'[c] # "inJson",
         \A d \in Callers \ {c} : pc'[d] = pc[d]
  PROVE  OwnerInv'
BY DEF OwnerInv, Shape

\* A caller that takes the free mutex to record a position.
LEMMA OwnerTaken ==
  ASSUME OwnerInv, NEW c \in Callers, trade = None, trade' = c,
         NEW p, positions' = Put(model[c], p),
         pc' = [pc EXCEPT ![c] = "inJson"], UNCHANGED <<callVars, tick>>
  PROVE  OwnerInv'
<1>1. DOMAIN positions = {}
  BY DEF OwnerInv
<1>2. \A d \in Callers : pc[d] # "inJson"
  BY DEF OwnerInv
<1>3. tick # "hold"
  BY DEF OwnerInv
<1>4. Shape' /\ model' = model
  BY DEF OwnerInv, Shape, callVars
<1>5. pc'[c] = "inJson" /\ \A d \in Callers \ {c} : pc'[d] # "inJson"
  BY <1>2 DEF OwnerInv, Shape
<1>6. DOMAIN positions' = {model[c]}
  BY <1>1 DEF Put
<1> QED
  BY <1>3, <1>4, <1>5, <1>6 DEF OwnerInv

LEMMA OwnerStep ==
  ASSUME OwnerInv, [Next]_vars
  PROVE  OwnerInv'
<1>1. ASSUME NEW c \in Callers, Call(c) \/ Step(c) \/ CheckRiskLimits(c)
      PROVE  OwnerInv'
  <2>1. /\ UNCHANGED <<model, positions, trade, tick>>
        /\ pc[c] # "inJson" /\ pc'[c] # "inJson"
        /\ DOMAIN pc' = Callers /\ DOMAIN placed' = Callers
        /\ \A d \in Callers \ {c} : pc'[d] = pc[d]
    <3>1. CASE Call(c) \/ SkipStop(c) \/ CheckPrice(c) \/ CheckRiskLimits(c)
      BY <3>1 DEF Call, SkipStop, CheckPrice, CheckRiskLimits, callVars, OwnerInv, Shape
    <3>2. CASE SkipLevel(c) \/ PostLevel(c)
      BY <3>2 DEF SkipLevel, PostLevel, Posted, OwnerInv, Shape
    <3>3. CASE EndAttempt(c)
      BY <3>3 DEF EndAttempt, NextAttempt, OwnerInv, Shape
    <3>4. CASE PostStop(c)
      BY <3>4 DEF PostStop, Posted, OwnerInv, Shape
    <3> QED
      BY <1>1, <3>1, <3>2, <3>3, <3>4 DEF Step
  <2> QED
    BY <2>1, OwnerKept
<1>2. ASSUME NEW c \in Callers, Record(c)
      PROVE  OwnerInv'
  BY <1>2, OwnerTaken DEF Record
<1>3. ASSUME NEW c \in Callers, RecordStop(c)
      PROVE  OwnerInv'
  <2>1. PICK p : positions' = Put(model[c], p)
    BY <1>3 DEF RecordStop
  <2> QED
    BY <1>3, <2>1, OwnerTaken DEF RecordStop
<1>4. CASE TickArrives \/ TickLocks \/ TickEnds
  BY <1>4 DEF TickArrives, TickLocks, TickEnds, callVars, OwnerInv, Shape
<1>5. CASE UNCHANGED vars
  BY <1>5 DEF vars, callVars, OwnerInv, Shape
<1> QED
  BY <1>1, <1>2, <1>3, <1>4, <1>5 DEF Next, Lock, Subscriber

LEMMA OwnerInit == Init => OwnerInv
BY DEF Init, OwnerInv, Shape

\* The first position that is recorded is the last one: its caller waits for
\* itself with the mutex of the trade state.
THEOREM RecordsEnd == Spec => []LastRecord
<1>1. ASSUME OwnerInv
      PROVE  LastRecord
  <2>1. {c \in Callers : pc[c] = "inJson"} \subseteq {trade}
    BY <1>1 DEF OwnerInv
  <2>2. IsFiniteSet({trade}) /\ Cardinality({trade}) = 1
    BY FS_Singleton
  <2>3. Cardinality({c \in Callers : pc[c] = "inJson"}) <= 1
    BY <2>1, <2>2, FS_Subset
  <2> QED
    BY <1>1, <2>3 DEF OwnerInv, LastRecord
<1> QED
  BY <1>1, OwnerInit, OwnerStep, PTL DEF Spec
-----------------------------------------------------------------------------
(***************************************************************************)
(* Answered orders.  While the mutex is free there is no position yet, so  *)
(* that recording one overwrites none; a call gives up its orders only by  *)
(* recording them.                                                         *)
(***************************************************************************)
Accounted(o) ==
  \/ o.id \in unanswered
  \/ /\ o.model \in DOMAIN positions
     /\ o.id \in positions[o.model].order_ids \cup positions[o.model].stop_order_ids
  \/ \E c \in Callers : pc[c] \in Working /\ model[c] = o.model /\ o.id \in placed[c]

OrdersInv ==
  /\ \A o \in orders : Accounted(o) /\ o.model \in Models
  /\ \A c \in Callers : pc[c] \notin Working \cup {"inJson"} => placed[c] = {}

\* A caller that goes on, and may have posted one more order.
LEMMA GoesOn ==
  ASSUME OwnerInv, OrdersInv, NEW c \in Callers,
         pc[c] # "inJson", placed'[c] # {} => pc'[c] \in Working,
         \A d \in Callers \ {c} : pc'[d] = pc[d] /\ placed'[d] = placed[d],
         placed[c] \subseteq placed'[c], unanswered \subseteq unanswered',
         UNCHANGED <<model, positions>>,
         \A o \in orders' : \/ o \in orders
                            \/ o.model = model[c] /\ o.id \in unanswered' \cup placed'[c]
  PROVE  OrdersInv'
<1>1. \A d \in Callers : pc'[d] \notin Working \cup {"inJson"} => placed'[d] = {}
  BY DEF OrdersInv
<1>2. ASSUME NEW o \in orders'
      PROVE  Accounted(o)' /\ o.model \in Models
  <2>1. CASE o \in orders
    <3>1. Accounted(o) /\ o.model \in Models
      BY <2>1 DEF OrdersInv
    <3>2. ASSUME NEW d \in Callers,
                 pc[d] \in Working, model[d] = o.model, o.id \in placed[d]
          PROVE  pc'[d] \in Working /\ model'[d] = o.model /\ o.id \in placed'[d]
      BY <3>2
    <3> QED
      BY <3>1, <3>2 DEF Accounted
  <2>2. CASE o.model = model[c] /\ o.id \in unanswered' \cup placed'[c]
    BY <2>2 DEF Accounted, OwnerInv, Shape
  <2> QED
    BY <1>2, <2>1, <2>2
<1> QED
  BY <1>1, <1>2 DEF OrdersInv

\* A caller that records what it placed.
LEMMA Recorded ==
  ASSUME OwnerInv, OrdersInv, NEW c \in Callers, trade = None,
         NEW p, positions' = Put(model[c], p),
         placed[c] \subseteq p.order_ids \cup p.stop_order_ids,
         pc'[c] = "inJson", \A d \in Callers \ {c} : pc'[d] = pc[d],
         UNCHANGED <<callVars, orders, unanswered>>
  PROVE  OrdersInv'
<1>1. DOMAIN positions = {}
  BY DEF OwnerInv
<1>2. model[c] \in DOMAIN positions' /\ positions'[model[c]] = p
  BY DEF Put
<1>3. model' = model /\ placed' = placed
  BY DEF callVars
<1>4. \A d \in Callers : pc'[d] \notin Working \cup {"inJson"} => placed'[d] = {}
  BY <1>3 DEF OrdersInv
<1>5. ASSUME NEW o \in orders
      PROVE  Accounted(o)' /\ o.model \in Models
  <2>1. o.model \in Models
    BY DEF OrdersInv
  <2>2. CASE o.id \in unanswered
    BY <2>1, <2>2 DEF Accounted
  <2>3. ASSUME NEW d \in Callers,
               pc[d] \in Working, model[d] = o.model, o.id \in placed[d]
        PROVE  Accounted(o)'
    BY <1>2, <1>3, <2>3 DEF Accounted
  <2> QED
    BY <1>1, <2>1, <2>2, <2>3 DEF OrdersInv, Accounted
<1> QED
  BY <1>4, <1>5 DEF OrdersInv

LEMMA OrdersStep ==
  ASSUME OwnerInv, OrdersInv, [Next]_vars
  PROVE  OrdersInv'
<1>1. ASSUME NEW c \in Callers,
             Call(c) \/ SkipStop(c) \/ CheckPrice(c) \/ CheckRiskLimits(c)
      PROVE  OrdersInv'
  <2>1. /\ UNCHANGED <<model, placed, positions, orders, unanswered>>
        /\ pc[c] # "inJson" /\ placed[c] = {}
        /\ \A d \in Callers \ {c} : pc'[d] = pc[d]
    BY <1>1 DEF Call, SkipStop, CheckPrice, CheckRiskLimits, callVars, OwnerInv, Shape, OrdersInv,
                Working
  <2> QED
    BY <2>1, GoesOn
<1>2. ASSUME NEW c \in Callers, SkipLevel(c) \/ EndAttempt(c)
      PROVE  OrdersInv'
  <2>1. /\ UNCHANGED <<model, placed, positions, orders, unanswered>>
        /\ pc[c] # "inJson"
        /\ placed[c] # {} => pc'[c] \in Working
        /\ \A d \in Callers \ {c} : pc'[d] = pc[d]
    BY <1>2 DEF SkipLevel, EndAttempt, AnySuccess, OwnerInv, Shape, Working
  <2> QED
    BY <2>1, GoesOn
<1>3. ASSUME NEW c \in Callers, PostLevel(c) \/ PostStop(c)
      PROVE  OrdersInv'
  <2>1. /\ UNCHANGED <<model, positions>> /\ Posted(c)
        /\ pc[c] # "inJson"
        /\ placed'[c] # {} => pc'[c] \in Working
        /\ \A d \in Callers \ {c} : pc'[d] = pc[d]
    BY <1>3 DEF PostLevel, PostStop, OwnerInv, Shape, Working
  <2>2. /\ \A d \in Callers \ {c} : placed'[d] = placed[d]
        /\ placed[c] \subseteq placed'[c] /\ unanswered \subseteq unanswered'
    BY <2>1 DEF Posted, OwnerInv, Shape
  <2>3. \A o \in orders' : \/ o \in orders
                           \/ o.model = model[c] /\ o.id \in unanswered' \cup placed'[c]
    BY <2>1 DEF Posted, OwnerInv, Shape
  <2> QED
    BY <2>1, <2>2, <2>3, GoesOn
<1>4. ASSUME NEW c \in Callers, Record(c)
      PROVE  OrdersInv'
  <2> DEFINE p == [order_ids |-> placed[c], stop_order_ids |-> {}]
  <2>1. placed[c] \subseteq p.order_ids \cup p.stop_order_ids
    OBVIOUS
  <2>2. pc'[c] = "inJson" /\ \A d \in Callers \ {c} : pc'[d] = pc[d]
    BY <1>4 DEF Record, OwnerInv, Shape
  <2>3. positions' = Put(model[c], p)
    BY <1>4 DEF Record
  <2> HIDE DEF p
  <2> QED
    BY <1>4, <2>1, <2>2, <2>3, Recorded DEF Record
<1>5. ASSUME NEW c \in Callers, RecordStop(c)
      PROVE  OrdersInv'
  <2>1. DOMAIN positions = {}
    BY <1>5 DEF RecordStop, OwnerInv
  <2> DEFINE p == [NoOrders EXCEPT !.stop_order_ids = @ \cup placed[c]]
  <2>2. positions' = Put(model[c], p)
    BY <1>5, <2>1 DEF RecordStop
  <2>3. placed[c] \subseteq p.order_ids \cup p.stop_order_ids
    BY DEF NoOrders
  <2>4. pc'[c] = "inJson" /\ \A d \in Callers \ {c} : pc'[d] = pc[d]
    BY <1>5 DEF RecordStop, OwnerInv, Shape
  <2> HIDE DEF p
  <2> QED
    BY <1>5, <2>2, <2>3, <2>4, Recorded DEF RecordStop
<1>6. CASE TickArrives \/ TickLocks \/ TickEnds \/ UNCHANGED vars
  BY <1>6 DEF TickArrives, TickLocks, TickEnds, vars, callVars, OrdersInv, Accounted
<1> QED
  BY <1>1, <1>2, <1>3, <1>4, <1>5, <1>6 DEF Next, Step, Lock, Subscriber

\* However the posts of a ladder fail, and whatever the other threads do, no
\* answered order is forgotten.
THEOREM NoOrderHidden == Spec => []NothingHidden
<1>1. Init => OrdersInv
  BY DEF Init, OrdersInv
<1>2. OrdersInv => NothingHidden
  BY DEF OrdersInv, NothingHidden, Accounted
<1> QED
  BY <1>1, <1>2, OwnerInit, OwnerStep, OrdersStep, PTL DEF Spec
-----------------------------------------------------------------------------
(***************************************************************************)
(* Type correctness.                                                       *)
(***************************************************************************)
LEMMA PostedTypes ==
  ASSUME TypeOK, NEW c \in Callers, Posted(c)
  PROVE  /\ placed' \in [Callers -> SUBSET Nat]
         /\ orders' \subseteq [id : Nat, model : Models] /\ IsFiniteSet(orders')
         /\ unanswered' \subseteq Nat
<1>1. NewId \in Nat
  BY FS_CardinalityType DEF NewId, TypeOK
<1>2. [id |-> NewId, model |-> model[c]] \in [id : Nat, model : Models]
  BY <1>1 DEF TypeOK
<1>3. IsFiniteSet(orders \cup {[id |-> NewId, model |-> model[c]]})
  <2>1. IsFiniteSet(orders)
    BY DEF TypeOK
  <2> QED
    BY <2>1, FS_AddElement
<1>4. placed' \in [Callers -> SUBSET Nat]
  BY <1>1 DEF Posted, TypeOK
<1>5. orders' \subseteq [id : Nat, model : Models] /\ unanswered' \subseteq Nat
  BY <1>1, <1>2 DEF Posted, TypeOK
<1>6. IsFiniteSet(orders')
  BY <1>3 DEF Posted, TypeOK
<1> QED
  BY <1>4, <1>5, <1>6

LEMMA PutTypes ==
  ASSUME TypeOK, NEW m \in Models, NEW p \in Position, positions' = Put(m, p)
  PROVE  /\ DOMAIN positions' \subseteq Models
         /\ \A n \in DOMAIN positions' : positions'[n] \in Position
BY DEF Put, TypeOK

LEMMA TypeStep ==
  ASSUME TypeOK, [Next]_vars
  PROVE  TypeOK'
<1> USE LevelAssumption
<1>1. ASSUME NEW c \in Callers,
             Call(c) \/ SkipStop(c) \/ CheckPrice(c) \/ CheckRiskLimits(c)
      PROVE  TypeOK'
  BY <1>1 DEF Call, SkipStop, CheckPrice, CheckRiskLimits, callVars, TypeOK
<1>2. ASSUME NEW c \in Callers, SkipLevel(c)
      PROVE  TypeOK'
  BY <1>2 DEF SkipLevel, NextLevel, TypeOK
<1>3. ASSUME NEW c \in Callers, PostLevel(c)
      PROVE  TypeOK'
  <2>1. level' \in [Callers -> 1 .. NumLevels + 1]
    BY <1>3 DEF PostLevel, NextLevel, TypeOK
  <2> QED
    BY <1>3, <2>1, PostedTypes DEF PostLevel, TypeOK
<1>4. ASSUME NEW c \in Callers, EndAttempt(c)
      PROVE  TypeOK'
  <2>1. attempt' \in [Callers -> 0 .. MaxAttempts - 1]
    BY <1>4 DEF EndAttempt, NextAttempt, MoreAttempts, TypeOK
  <2>2. level' \in [Callers -> 1 .. NumLevels + 1]
    BY <1>4 DEF EndAttempt, NextAttempt, TypeOK
  <2> QED
    BY <1>4, <2>1, <2>2 DEF EndAttempt, TypeOK
<1>5. ASSUME NEW c \in Callers, PostStop(c)
      PROVE  TypeOK'
  <2>1. pc' \in [Callers -> {"idle", "level", "record", "stop", "recordStop", "maker",
                             "risk", "inJson", "inRisk", "done"}]
    BY <1>5 DEF PostStop, TypeOK
  <2> QED
    BY <1>5, <2>1, PostedTypes DEF PostStop, TypeOK
<1>6. ASSUME NEW c \in Callers, Record(c)
      PROVE  TypeOK'
  <2>1. [order_ids |-> placed[c], stop_order_ids |-> {}] \in Position
    BY DEF TypeOK, Position
  <2>2. /\ DOMAIN positions' \subseteq Models
        /\ \A n \in DOMAIN positions' : positions'[n] \in Position
    BY <1>6, <2>1, PutTypes DEF Record, TypeOK
  <2> QED
    BY <1>6, <2>2 DEF Record, callVars, TypeOK
<1>7. ASSUME NEW c \in Callers, RecordStop(c)
      PROVE  TypeOK'
  <2> DEFINE old == IF model[c] \in DOMAIN positions THEN positions[model[c]]
                                                     ELSE NoOrders
             p == [old EXCEPT !.stop_order_ids = @ \cup placed[c]]
  <2>1. old \in Position
    BY DEF TypeOK, NoOrders, Position
  <2>2. p \in Position
    BY <2>1 DEF TypeOK, Position
  <2>3. positions' = Put(model[c], p)
    BY <1>7 DEF RecordStop
  <2> HIDE DEF p
  <2>4. /\ DOMAIN positions' \subseteq Models
        /\ \A n \in DOMAIN positions' : positions'[n] \in Position
    BY <2>2, <2>3, PutTypes DEF TypeOK
  <2> QED
    BY <1>7, <2>4 DEF RecordStop, callVars, TypeOK
<1>8. CASE TickArrives \/ TickLocks \/ TickEnds \/ UNCHANGED vars
  BY <1>8 DEF TickArrives, TickLocks, TickEnds, vars, callVars, TypeOK
<1> QED
  BY <1>1, <1>2, <1>3, <1>4, <1>5, <1>6, <1>7, <1>8 DEF Next, Step, Lock, Subscriber

\* The variables of the callers and of the engine keep their kinds; in
\* particular attempts and levels stay within their loops' bounds.
THEOREM EntriesTyping == Spec => []TypeOK
<1>1. Init => TypeOK
  BY LevelAssumption, FS_EmptySet DEF Init, TypeOK
<1> QED
  BY <1>1, TypeStep, PTL DEF Spec
-----------------------------------------------------------------------------
(***************************************************************************)
(* One ladder.  While a ladder is posted, at most the levels passed are    *)
(* answered, and another attempt begins with none; a bid of one tick or    *)
(* less leaves no price.                                                   *)
(***************************************************************************)
LadderAt(c) ==
  /\ IsFiniteSet(placed[c]) /\ Cardinality(placed[c]) <= NumLevels
  /\ pc[c] = "level" => Cardinality(placed[c]) < level[c]
  /\ pc[c] \in {"idle", "stop", "maker", "risk"} => placed[c] = {}
  /\ bid[c] <= 1 /\ pc[c] \notin {"stop", "recordStop", "inJson"} => placed[c] = {}

LadderInv == TypeOK /\ \A c \in Callers : LadderAt(c)

\* A post adds one order to those of its call at most.
LEMMA PostedOne ==
  ASSUME LadderInv, NEW c \in Callers, Posted(c)
  PROVE  /\ IsFiniteSet(placed'[c])
         /\ Cardinality(placed'[c]) \in Nat /\ Cardinality(placed[c]) \in Nat
         /\ Cardinality(placed'[c]) <= Cardinality(placed[c]) + 1
         /\ \A d \in Callers \ {c} : placed'[d] = placed[d]
<1>1. IsFiniteSet(placed[c]) /\ placed \in [Callers -> SUBSET Nat]
  BY DEF LadderInv, LadderAt, TypeOK
<1>2. placed'[c] = placed[c] \/ placed'[c] = placed[c] \cup {NewId}
  BY <1>1 DEF Posted
<1>3. /\ IsFiniteSet(placed[c] \cup {NewId})
      /\ Cardinality(placed[c] \cup {NewId}) =
           IF NewId \in placed[c] THEN Cardinality(placed[c]) ELSE Cardinality(placed[c]) + 1
  BY <1>1, FS_AddElement
<1>4. Cardinality(placed[c]) \in Nat
  BY <1>1, FS_CardinalityType
<1>5. \A d \in Callers \ {c} : placed'[d] = placed[d]
  BY <1>1 DEF Posted
<1> QED
  BY <1>1, <1>2, <1>3, <1>4, <1>5

LEMMA LadderStep ==
  ASSUME LadderInv, [Next]_vars
  PROVE  LadderInv'
<1> USE LevelAssumption
<1>1. TypeOK'
  BY TypeStep DEF LadderInv
<1>2. Cardinality({}) = 0 /\ IsFiniteSet({})
  BY FS_EmptySet
<1>3. ASSUME NEW c \in Callers, LadderAt(c)', UNCHANGED bid,
             \A d \in Callers \ {c} : /\ pc'[d] = pc[d] /\ placed'[d] = placed[d]
                                      /\ level'[d] = level[d]
      PROVE  LadderInv'
  BY <1>1, <1>3 DEF LadderInv, LadderAt
<1>4. ASSUME NEW c \in Callers,
             Call(c) \/ SkipStop(c) \/ CheckPrice(c) \/ CheckRiskLimits(c)
      PROVE  LadderInv'
  <2>1. /\ UNCHANGED callVars /\ placed[c] = {}
        /\ \A d \in Callers \ {c} : pc'[d] = pc[d]
    BY <1>4 DEF Call, SkipStop, CheckPrice, CheckRiskLimits, LadderInv, LadderAt, TypeOK
  <2>2. LadderAt(c)'
    BY <1>2, <2>1 DEF LadderAt, LadderInv, TypeOK, callVars
  <2> QED
    BY <1>3, <2>1, <2>2 DEF callVars
<1>5. ASSUME NEW c \in Callers, SkipLevel(c)
      PROVE  LadderInv'
  <2>1. /\ UNCHANGED <<pc, bid, placed>> /\ level'[c] = level[c] + 1
        /\ \A d \in Callers \ {c} : level'[d] = level[d]
    BY <1>5 DEF SkipLevel, NextLevel, LadderInv, TypeOK
  <2>2. LadderAt(c) /\ level[c] \in Nat /\ Cardinality(placed[c]) \in Nat
    BY FS_CardinalityType DEF LadderInv, LadderAt, TypeOK
  <2>3. LadderAt(c)'
    BY <2>1, <2>2 DEF LadderAt
  <2> QED
    BY <1>3, <2>1, <2>3
<1>6. ASSUME NEW c \in Callers, PostLevel(c)
      PROVE  LadderInv'
  <2>1. /\ UNCHANGED <<pc, bid>> /\ level'[c] = level[c] + 1 /\ pc[c] = "level"
        /\ level[c] <= NumLevels
        /\ \A d \in Callers \ {c} : level'[d] = level[d]
    BY <1>6 DEF PostLevel, NextLevel, LadderInv, TypeOK
  <2>2. LadderAt(c) /\ level[c] \in Nat \ {0} /\ attempt[c] \in Nat /\ bid[c] \in Nat
    <3>1. LadderAt(c)
      BY DEF LadderInv
    <3>2. bid[c] \in Nat
      BY PriceAssumption DEF LadderInv, TypeOK
    <3>3. level[c] \in Nat \ {0}
      BY DEF LadderInv, TypeOK
    <3>4. attempt[c] \in Nat
      BY DEF LadderInv, TypeOK
    <3> QED
      BY <3>1, <3>2, <3>3, <3>4
  <2>3. attempt[c] * TickIncrement \in Nat
    BY <2>2, PriceAssumption
  <2>4. bid[c] > 1
    BY <1>6, <2>2, <2>3 DEF PostLevel, Price
  <2>5. LadderAt(c)'
    BY <1>6, <2>1, <2>2, <2>4, PostedOne DEF PostLevel, LadderAt
  <2> QED
    BY <1>3, <1>6, <2>1, <2>5, PostedOne DEF PostLevel
<1>7. ASSUME NEW c \in Callers, EndAttempt(c)
      PROVE  LadderInv'
  <2>1. /\ UNCHANGED <<bid, placed>> /\ pc[c] = "level"
        /\ \A d \in Callers \ {c} : pc'[d] = pc[d] /\ level'[d] = level[d]
    BY <1>7 DEF EndAttempt, NextAttempt, LadderInv, TypeOK
  <2>2. LadderAt(c)
    BY DEF LadderInv
  <2>3. CASE AnySuccess(c) \/ ~MoreAttempts(c)
    <3>1. pc'[c] \in {"record", "done"}
      BY <1>7, <2>3 DEF EndAttempt, LadderInv, TypeOK
    <3>2. LadderAt(c)'
      BY <2>1, <2>2, <3>1 DEF LadderAt
    <3> QED
      BY <1>3, <2>1, <3>2
  <2>4. CASE ~AnySuccess(c) /\ MoreAttempts(c)
    <3>1. placed[c] = {} /\ level'[c] = 1 /\ pc' = pc
      BY <1>7, <2>4 DEF EndAttempt, NextAttempt, AnySuccess, LadderInv, TypeOK
    <3>2. LadderAt(c)'
      BY <1>2, <2>1, <2>2, <3>1 DEF LadderAt
    <3> QED
      BY <1>3, <2>1, <3>2
  <2> QED
    BY <2>3, <2>4
<1>8. ASSUME NEW c \in Callers, PostStop(c)
      PROVE  LadderInv'
  <2>1. /\ UNCHANGED <<bid, level>> /\ pc[c] = "stop" /\ placed[c] = {}
        /\ pc'[c] = IF placed'[c] = {} THEN "done" ELSE "recordStop"
        /\ \A d \in Callers \ {c} : pc'[d] = pc[d]
    BY <1>8 DEF PostStop, LadderInv, LadderAt, TypeOK
  <2>2. /\ IsFiniteSet(placed'[c]) /\ Cardinality(placed'[c]) <= NumLevels
        /\ \A d \in Callers \ {c} : placed'[d] = placed[d]
    <3>1. Posted(c) /\ Cardinality(placed[c]) = 0
      BY <1>2, <1>8, <2>1 DEF PostStop
    <3> QED
      BY <3>1, PostedOne
  <2>3. LadderAt(c)'
    BY <2>1, <2>2 DEF LadderAt
  <2> QED
    BY <1>3, <2>1, <2>2, <2>3
<1>9. ASSUME NEW c \in Callers, Record(c) \/ RecordStop(c)
      PROVE  LadderInv'
  <2>1. /\ UNCHANGED callVars /\ pc'[c] = "inJson"
        /\ \A d \in Callers \ {c} : pc'[d] = pc[d]
    BY <1>9 DEF Record, RecordStop, LadderInv, TypeOK
  <2>2. LadderAt(c)'
    BY <2>1 DEF LadderInv, LadderAt, callVars
  <2> QED
    BY <1>3, <2>1, <2>2 DEF callVars
<1>10. CASE TickArrives \/ TickLocks \/ TickEnds \/ UNCHANGED vars
  BY <1>1, <1>10 DEF TickArrives, TickLocks, TickEnds, vars, callVars, LadderInv, LadderAt
<1> QED
  BY <1>4, <1>5, <1>6, <1>7, <1>8, <1>9, <1>10 DEF Next, Step, Lock, Subscriber

\* No caller has more answered orders than a ladder has levels, however often it
\* tries, and none at a price of zero or less.
THEOREM LadderOnce == Spec => []OneLadder
<1>1. Init => LadderInv
  <2>1. Init => TypeOK
    BY LevelAssumption, FS_EmptySet DEF Init, TypeOK
  <2> QED
    BY <2>1, LevelAssumption, FS_EmptySet DEF Init, LadderInv, LadderAt
<1>2. LadderInv => OneLadder
  BY DEF LadderInv, LadderAt, OneLadder
<1> QED
  BY <1>1, <1>2, LadderStep, PTL DEF Spec
=============================================================================
