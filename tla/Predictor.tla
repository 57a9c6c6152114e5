----------------------------- MODULE Predictor -----------------------------
(***************************************************************************)
(* cpp_exec/low_latency_predictor.cpp: main starts an inference thread,    *)
(* feeds it through the ring ("Main loop would go here"), and stops it.    *)
(* The thread spins on try_dequeue and hands each item to LightGBM.  The   *)
(* result goes to out_result.data() of an empty vector, a null pointer:    *)
(* a prediction that succeeds writes through it and the process is killed; *)
(* one that fails does not write.  The ring outlives both threads.         *)
(***************************************************************************)
EXTENDS RingBuffer

CONSTANT MaxFeeds    \* bound: how many items main enqueues

ASSUME FeedsAssumption == MaxFeeds \in Nat

VARIABLES running,   \* running_
          main,      \* "start", "spawn", "loop", "join", "done", "killed"
          thread,    \* "none", "test", "take", "predict", "over"
          feeds,     \* items enqueued by main, counted for the bound
          late       \* history: items taken after stop() cleared running_

threadVars == <<running, main, thread, feeds, late>>
vars == <<ringVars, threadVars>>

\* Every variable keeps its kind.
TypeOK ==
  /\ RingTypeOK
  /\ running \in BOOLEAN
  /\ main \in {"start", "spawn", "loop", "join", "done", "killed"}
  /\ thread \in {"none", "test", "take", "predict", "over"}
  /\ feeds \in 0 .. MaxFeeds /\ late \in Nat

Init ==
  /\ RingInit
  /\ running = FALSE
  /\ main = "start" /\ thread = "none"
  /\ feeds = 0 /\ late = 0

-----------------------------------------------------------------------------
\* start(): the flag first, then the thread.
Start ==
  /\ main = "start"
  /\ running' = TRUE
  /\ main' = "spawn"
  /\ UNCHANGED <<ringVars, thread, feeds, late>>

Spawn ==
  /\ main = "spawn"
  /\ thread' = "test"
  /\ main' = "loop"
  /\ UNCHANGED <<ringVars, running, feeds, late>>

\* The loop that main announces: any items, one try_enqueue at a time.
Feed ==
  /\ main = "loop"
  /\ \/ /\ feeds < MaxFeeds
        /\ \E i \in Items : Enqueue(i)
        /\ feeds' = feeds + 1
     \/ /\ WriteSlot \/ StoreHead
        /\ UNCHANGED feeds
  /\ UNCHANGED <<running, main, thread, late>>

Stop ==
  /\ main = "loop"
  /\ producer = "idle"
  /\ running' = FALSE
  /\ main' = "join"
  /\ UNCHANGED <<ringVars, thread, feeds, late>>

Join ==
  /\ main = "join"
  /\ thread = "over"
  /\ main' = "done"
  /\ UNCHANGED <<ringVars, running, thread, feeds, late>>
-----------------------------------------------------------------------------
(***************************************************************************)
(* Faulty variants, in no specification.                                   *)
(***************************************************************************)
TestForgotten ==        \* the loop does not look at running_
  /\ thread = "test"
  /\ thread' = "take"
  /\ UNCHANGED <<ringVars, running, main, feeds, late>>

PredictFailsTakesOn ==  \* the next item is taken without a look at running_
  /\ thread = "predict"
  /\ thread' = "take"
  /\ UNCHANGED <<ringVars, running, main, feeds, late>>

(***************************************************************************)
(* inference_loop.                                                         *)
(***************************************************************************)
Test ==
  /\ thread = "test"
  /\ thread' = IF running THEN "take" ELSE "over"
  /\ UNCHANGED <<ringVars, running, main, feeds, late>>

Spin ==
  /\ thread = "take"
  /\ consumer = "idle"
  /\ Empty
  /\ thread' = "test"
  /\ UNCHANGED <<ringVars, running, main, feeds, late>>

Take ==
  /\ thread = "take"
  /\ \/ (Dequeue \/ ReadSlot) /\ UNCHANGED <<thread, late>>
     \/ /\ StoreTail
        /\ thread' = "predict"
        /\ late' = IF running THEN late ELSE late + 1
  /\ UNCHANGED <<running, main, feeds>>

PredictFails ==
  /\ thread = "predict"
  /\ thread' = "test"
  /\ UNCHANGED <<ringVars, running, main, feeds, late>>

PredictKills ==
  /\ thread = "predict"
  /\ main' = "killed"
  /\ thread' = "none"
  /\ UNCHANGED <<ringVars, running, feeds, late>>
-----------------------------------------------------------------------------
Inference == Test \/ Spin \/ Take \/ PredictFails \/ PredictKills

Next == Start \/ Spawn \/ Feed \/ Stop \/ Join \/ Inference

\* The inference thread is scheduled (it spins on a core of its own), and main
\* goes on when its join can return.  Nothing makes main feed or stop.
Spec == Init /\ [][Next]_vars /\ WF_vars(Inference) /\ WF_vars(Join)
-----------------------------------------------------------------------------
\* stop() returns while at most one item is taken after it cleared running_:
\* what waits in the ring stays there.
OneLateItem == late <= 1

\* stop() returns, whatever the ring holds and however busy the thread is,
\* unless the process dies of a prediction.
StopEnds == main = "join" ~> main \in {"done", "killed"}
=============================================================================
