----------------------------- MODULE Snapshots -----------------------------
(***************************************************************************)
(* The way of an order book: depth updates into the service's cache        *)
(* (OrderBookCache, handleDepth), at most one snapshot per interval to the *)
(* writer, a table row, and the reader that tails the table (TailCursor in *)
(* data_ingestion/pg_tail.py).  The writer is the queue that DataService   *)
(* is shown to be: first in, first out, each row committed or dropped.     *)
(***************************************************************************)
EXTENDS Integers, Sequences, FiniteSets

CONSTANTS Bids, Asks,          \* price levels
          MinQuantityChange,   \* 0.001: a quantity up to it is dust
          WriteInterval,       \* 1000 ms
          Thousand, Small, Big,\* to_ms: 1000, 10^9, 10^12
          BatchSize,           \* the reader's rows per query
          Start, MaxNow,       \* bounds: the exchange's clock, in us
          MaxUpdates, MaxRestarts, MaxFaults

Levels == Bids \cup Asks
Quantities == 0 .. MinQuantityChange + 1

ASSUME LevelsAssumption == Bids \cap Asks = {}
ASSUME ClockAssumption == /\ Start \in Nat /\ MaxNow \in Nat
                          /\ Small \in Nat /\ Big \in Nat
                          /\ Small <= Big /\ Big < Start
ASSUME SizeAssumption == {WriteInterval, BatchSize, Thousand} \subseteq Nat \ {0}
ASSUME DustAssumption == MinQuantityChange \in Nat

VARIABLES
  now,           \* the exchange's clock
  exchange,      \* the exchange's book
  sent,          \* updates sent; the number is the update's "u", if it has one
  cache,         \* bids and asks of the cache; 0 is no entry
  lastUpdateId, lastWriteTime,
  unsure,        \* history: levels not told since the start, skipped or cut off
  queue,         \* rows on their way through the writer
  table,         \* the committed rows, in order
  restarts, faults,
  cursor,        \* the reader's connection: "none", "up"
  lastSeen,      \* last_seen_ts
  delivered      \* history: the rows the reader has yielded

service == <<now, exchange, sent, cache, lastUpdateId, lastWriteTime, unsure>>
reader == <<faults, cursor, lastSeen, delivered>>
vars == <<service, queue, table, restarts, reader>>

Empty == [l \in Levels |-> 0]

\* What the exchange's book holds is nobody's business until it is told.
Init ==
  /\ now = Start /\ exchange = Empty /\ sent = 0
  /\ cache = Empty /\ lastUpdateId = 0 /\ lastWriteTime = 0
  /\ unsure = Levels
  /\ queue = <<>> /\ table = <<>>
  /\ restarts = 0 /\ faults = 0
  /\ cursor = "none" /\ lastSeen = 0 /\ delivered = <<>>
-----------------------------------------------------------------------------
(***************************************************************************)
(* Faulty variants, in no specification.                                   *)
(***************************************************************************)
ShouldWriteAlways(ms) == TRUE             \* no interval

EraseForgotten(book, changes, done) ==    \* a zero does not erase the level
  [l \in Levels |-> IF l \in done /\ changes[l] > 0 THEN changes[l] ELSE book[l]]
-----------------------------------------------------------------------------
(***************************************************************************)
(* The service.                                                            *)
(***************************************************************************)
\* Microseconds or seconds to milliseconds; a missing stamp is 0.
ToMs(t) == CASE t > Big -> t \div Thousand
             [] t < Small -> t * Thousand
             [] OTHER -> t

ShouldWrite(ms) == ms - lastWriteTime >= WriteInterval

\* OrderBookCache::update on the levels done: a quantity of 0 erases.
Applied(book, changes, done) ==
  [l \in Levels |-> IF l \in done THEN changes[l] ELSE book[l]]

\* getSnapshot leaves out dust, which the cache keeps.
Snapshot(book) == {l \in Levels : book[l] > MinQuantityChange}
TwoSided(levels) == levels \cap Bids # {} /\ levels \cap Asks # {}

\* An update is gone through to its end.  An entry of fewer than two elements is
\* skipped without a word, so that only the levels told are applied; without "u"
\* the number stays.  A row is written if the interval has passed and both sides
\* show something.
Depth(changes, told, numbered, ms) ==
  LET book == Applied(cache, changes, told)
      shown == Snapshot(book)
      writes == ShouldWrite(ms) /\ TwoSided(shown)
  IN /\ cache' = book
     /\ unsure' = (unsure \cup DOMAIN changes) \ told
     /\ lastUpdateId' = IF numbered THEN sent' ELSE lastUpdateId
     /\ lastWriteTime' = IF writes THEN ms ELSE lastWriteTime
     /\ queue' = IF writes
                 THEN Append(queue, [ts |-> ms, id |-> lastUpdateId', levels |-> shown])
                 ELSE queue

\* A number that does not parse throws out of update: the entries before it are
\* applied, bids before asks; the number of the update is not taken over.
DepthCut(changes, told) ==
  /\ \E done \in SUBSET told :
       /\ done \cap Asks # {} => Bids \cap told \subseteq done
       /\ cache' = Applied(cache, changes, done)
       /\ unsure' = (unsure \cup DOMAIN changes) \ done
  /\ UNCHANGED <<lastUpdateId, lastWriteTime, queue>>

\* The exchange changes some levels and sends what changed; entries may be short,
\* the stamp and the number may be missing.
HandleDepth ==
  /\ sent < MaxUpdates
  /\ sent' = sent + 1
  /\ now' \in now .. MaxNow
  /\ \E S \in SUBSET Levels \ {{}} : \E changes \in [S -> Quantities], told \in SUBSET S :
       /\ exchange' = [l \in Levels |-> IF l \in S THEN changes[l] ELSE exchange[l]]
       /\ \/ \E stamp \in {0, now'}, numbered \in BOOLEAN :
               Depth(changes, told, numbered, ToMs(stamp))
          \/ DepthCut(changes, told)
  /\ UNCHANGED <<table, restarts, reader>>

\* The process dies with its queue and its cache; a new one takes a while.
Restart ==
  /\ restarts < MaxRestarts /\ now + Thousand <= MaxNow
  /\ restarts' = restarts + 1
  /\ now' = now + Thousand
  /\ cache' = Empty /\ lastUpdateId' = 0 /\ lastWriteTime' = 0
  /\ unsure' = Levels
  /\ queue' = <<>>
  /\ UNCHANGED <<exchange, sent, table, reader>>

Commit ==
  /\ queue # <<>>
  /\ table' = Append(table, Head(queue))
  /\ queue' = Tail(queue)
  /\ UNCHANGED <<service, restarts, reader>>

Drop ==
  /\ queue # <<>>
  /\ queue' = Tail(queue)
  /\ UNCHANGED <<service, table, restarts, reader>>
-----------------------------------------------------------------------------
(***************************************************************************)
(* TailCursor.                                                             *)
(***************************************************************************)
Connect ==
  /\ cursor = "none"
  /\ cursor' = "up"
  /\ UNCHANGED <<service, queue, table, restarts, faults, lastSeen, delivered>>

\* The server refuses or breaks off: close, wait, once more.
Disconnect ==
  /\ faults < MaxFaults
  /\ faults' = faults + 1
  /\ cursor' = "none"
  /\ UNCHANGED <<service, queue, table, restarts, lastSeen, delivered>>

\* The stamps are BIGINT, and the maximum of such a column is a numpy.int64, which
\* psycopg2 does not adapt: with any last_seen_ts but the 0 of the start, execute()
\* throws before anything is sent.
Adapts == lastSeen = 0

\* WHERE ts > last_seen: the places of the rows the query may return.
NewRows == {i \in 1 .. Len(table) : table[i].ts > lastSeen}

\* ORDER BY ts: rows come in the order of their stamps, rows of one stamp in
\* any order.
Orders == {s \in [1 .. Cardinality(NewRows) -> NewRows] :
             \A i, j \in 1 .. Cardinality(NewRows) :
               i < j => s[i] # s[j] /\ table[s[i]].ts <= table[s[j]].ts}

\* LIMIT batch.
BatchLen == IF Cardinality(NewRows) < BatchSize THEN Cardinality(NewRows) ELSE BatchSize

\* last_seen_ts becomes the maximum of the batch.
Advance(batch) == IF batch = <<>> THEN lastSeen ELSE batch[Len(batch)].ts

Query ==
  /\ cursor = "up" /\ Adapts
  /\ \E order \in Orders :
       LET batch == [i \in 1 .. BatchLen |-> table[order[i]]]
       IN /\ delivered' = delivered \o batch
          /\ lastSeen' = Advance(batch)
  /\ UNCHANGED <<service, queue, table, restarts, faults, cursor>>

QueryThrows ==
  /\ cursor = "up" /\ ~Adapts
  /\ cursor' = "none"
  /\ UNCHANGED <<service, queue, table, restarts, faults, lastSeen, delivered>>
-----------------------------------------------------------------------------
Reader == Connect \/ Query \/ QueryThrows
Next == HandleDepth \/ Restart \/ Commit \/ Drop \/ Reader \/ Disconnect

\* The reader's loop never ends and MaxFaults ends the database's failures; neither
\* the exchange nor the writer need go on.
Spec == Init /\ [][Next]_vars /\ WF_vars(Reader)
-----------------------------------------------------------------------------
Rows == [ts : Int, id : Nat, levels : SUBSET Levels]

\* Every variable has its type.
TypeOK ==
  /\ now \in Nat /\ sent \in Nat /\ restarts \in Nat /\ faults \in Nat
  /\ exchange \in [Levels -> Quantities] /\ cache \in [Levels -> Quantities]
  /\ unsure \in SUBSET Levels
  /\ lastUpdateId \in Nat /\ lastWriteTime \in Int /\ lastSeen \in Int
  /\ queue \in Seq(Rows) /\ table \in Seq(Rows) /\ delivered \in Seq(Rows)
  /\ cursor \in {"none", "up"}

\* A new row shows the exchange's book at the update it is written for, for every
\* level told since the start and not skipped or cut off by a malformed update: dust
\* left out, erased levels gone, whatever was written, skipped or cut before.  It
\* names that update, or an earlier one if updates came without a number.
RowTrue(row) == /\ row.levels \ unsure' = Snapshot(exchange') \ unsure'
                /\ row.id <= sent'
SnapshotTrue == [][ Len(queue') > Len(queue) => RowTrue(queue'[Len(queue')]) ]_vars

\* What the reader yields are committed rows once each, in the order in which they
\* were committed, across broken connections and restarts of the service.  A time
\* stamp is enough of a cursor because no two rows share one.
DeliveredInOrder ==
  /\ Len(delivered) <= Len(table)
  /\ delivered = SubSeq(table, 1, Len(delivered))

\* What TailCursor says it does and its test expects: it "continuously tails" a
\* table with BIGINT stamps, so that a row that is committed is yielded.
CatchesUp == \A n \in 1 .. MaxUpdates : Len(table) >= n ~> Len(delivered) >= n
=============================================================================
