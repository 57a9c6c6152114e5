-------------------------- MODULE SnapshotsProofs --------------------------
(***************************************************************************)
(* Snapshots for any levels, quantities, intervals, restarts, updates and  *)
(* broken connections: a row that the service writes shows the exchange's  *)
(* book, and the reader yields every row once, in order.                   *)
(***************************************************************************)
EXTENDS Snapshots, FiniteSetTheorems, SequenceTheorems, TLAPS

USE ClockAssumption, SizeAssumption, DustAssumption
-----------------------------------------------------------------------------
(***************************************************************************)
(* Types.                                                                  *)
(***************************************************************************)
LEMMA StampInt ==
  ASSUME NEW t \in Nat
  PROVE  ToMs(t) \in Int
<1>1. t \div Thousand \in Int
  OBVIOUS
<1>2. t * Thousand \in Int
  OBVIOUS
<1> QED
  BY <1>1, <1>2 DEF ToMs

\* The rows a query may return are finitely many: Orders speaks of all of them.
LEMMA NewRowsFinite ==
  ASSUME TypeOK
  PROVE  /\ IsFiniteSet(NewRows) /\ NewRows \subseteq 1 .. Len(table)
         /\ Cardinality(NewRows) \in Nat
         /\ BatchLen \in Nat /\ BatchLen <= Cardinality(NewRows)
<1>1. NewRows \in SUBSET (1 .. Len(table))
  BY DEF NewRows
<1>2. Len(table) \in Nat
  BY DEF TypeOK
<1>3. IsFiniteSet(1 .. Len(table))
  BY <1>2, FS_Interval
<1>4. IsFiniteSet(NewRows)
  BY <1>1, <1>3, FS_Subset
<1>5. Cardinality(NewRows) \in Nat
  BY <1>4, FS_CardinalityType
<1> QED
  BY <1>1, <1>4, <1>5 DEF BatchLen

LEMMA BatchType ==
  ASSUME TypeOK, NEW order \in Orders
  PROVE  LET batch == [i \in 1 .. BatchLen |-> table[order[i]]]
         IN  batch \in Seq(Rows) /\ Len(batch) = BatchLen
<1>1. \A i \in 1 .. BatchLen : order[i] \in 1 .. Len(table)
  BY NewRowsFinite DEF Orders
<1>2. \A i \in 1 .. BatchLen : table[order[i]] \in Rows
  BY <1>1 DEF TypeOK
<1> QED
  BY <1>2, NewRowsFinite

LEMMA AppliedType ==
  ASSUME TypeOK, NEW S \in SUBSET Levels, NEW changes \in [S -> Quantities],
         NEW done \in SUBSET S
  PROVE  Applied(cache, changes, done) \in [Levels -> Quantities]
BY DEF Applied, TypeOK

LEMMA DepthType ==
  ASSUME TypeOK, NEW S \in SUBSET Levels, NEW changes \in [S -> Quantities],
         NEW told \in SUBSET S, NEW numbered \in BOOLEAN,
         NEW ms \in Int, Depth(changes, told, numbered, ms), sent' \in Nat
  PROVE  /\ cache' \in [Levels -> Quantities] /\ unsure' \in SUBSET Levels
         /\ lastUpdateId' \in Nat /\ lastWriteTime' \in Int /\ queue' \in Seq(Rows)
<1> DEFINE book == Applied(cache, changes, told)
           row == [ts |-> ms, id |-> lastUpdateId', levels |-> Snapshot(book)]
<1>1. cache' = book /\ book \in [Levels -> Quantities]
  BY AppliedType DEF Depth
<1>2. lastUpdateId' \in Nat /\ lastWriteTime' \in Int /\ unsure' \in SUBSET Levels
  BY DEF Depth, TypeOK
<1>3. row \in Rows
  BY <1>2 DEF Rows, Snapshot
<1>4. queue' = queue \/ queue' = Append(queue, row)
  BY DEF Depth
<1> HIDE DEF row
<1>5. queue \in Seq(Rows)
  BY DEF TypeOK
<1>6. queue' \in Seq(Rows)
  BY <1>3, <1>4, <1>5
<1> QED
  BY <1>1, <1>2, <1>6

\* HandleDepth on some levels: told whole or in part, or cut off.
Update(S, changes, told) ==
  /\ exchange' = [l \in Levels |-> IF l \in S THEN changes[l] ELSE exchange[l]]
  /\ \/ \E stamp \in {0, now'}, numbered \in BOOLEAN :
           Depth(changes, told, numbered, ToMs(stamp))
     \/ DepthCut(changes, told)

LEMMA UpdateOf ==
  ASSUME TypeOK, HandleDepth
  PROVE  /\ now' \in Nat /\ now <= now' /\ sent' = sent + 1 /\ sent' \in Nat
         /\ UNCHANGED <<table, restarts, reader>>
         /\ \E S \in SUBSET Levels : \E changes \in [S -> Quantities], told \in SUBSET S :
              Update(S, changes, told)
<1>1. now' \in Nat /\ now <= now' /\ sent' = sent + 1 /\ sent' \in Nat
  BY DEF HandleDepth, TypeOK
<1>2. \E S \in SUBSET Levels : \E changes \in [S -> Quantities], told \in SUBSET S :
        Update(S, changes, told)
  BY DEF HandleDepth, Update
<1> QED
  BY <1>1, <1>2 DEF HandleDepth

LEMMA TypeStep ==
  ASSUME TypeOK, [Next]_vars
  PROVE  TypeOK'
<1>1. CASE HandleDepth
  <2>1. PICK S \in SUBSET Levels : \E changes \in [S -> Quantities], told \in SUBSET S :
          Update(S, changes, told)
    BY <1>1, UpdateOf
  <2>2. PICK changes \in [S -> Quantities], told \in SUBSET S : Update(S, changes, told)
    BY <2>1
  <2>3. now' \in Nat /\ sent' \in Nat /\ UNCHANGED <<table, restarts, reader>>
    BY <1>1, UpdateOf
  <2>4. exchange' \in [Levels -> Quantities]
    BY <2>2 DEF TypeOK, Update
  <2>5. /\ cache' \in [Levels -> Quantities] /\ unsure' \in SUBSET Levels
        /\ lastUpdateId' \in Nat /\ lastWriteTime' \in Int /\ queue' \in Seq(Rows)
    <3>1. CASE \E stamp \in {0, now'}, numbered \in BOOLEAN :
                 Depth(changes, told, numbered, ToMs(stamp))
      BY <2>3, <3>1, StampInt, DepthType
    <3>2. CASE DepthCut(changes, told)
      <4>1. PICK done \in SUBSET told : /\ cache' = Applied(cache, changes, done)
                                        /\ unsure' = (unsure \cup S) \ done
        BY <3>2 DEF DepthCut
      <4>2. done \in SUBSET S
        OBVIOUS
      <4> QED
        BY <3>2, <4>1, <4>2, AppliedType DEF DepthCut, TypeOK
    <3> QED
      BY <2>2, <3>1, <3>2 DEF Update
  <2> QED
    BY <2>3, <2>4, <2>5 DEF TypeOK, reader
<1>2. CASE Restart
  <2>1. /\ now' = now + Thousand /\ restarts' = restarts + 1 /\ cache' = Empty
        /\ lastUpdateId' = 0 /\ lastWriteTime' = 0 /\ unsure' = Levels /\ queue' = <<>>
        /\ UNCHANGED <<exchange, sent, table, faults, cursor, lastSeen, delivered>>
    BY <1>2 DEF Restart, reader
  <2>2. now' \in Nat /\ restarts' \in Nat
    BY <2>1 DEF TypeOK
  <2>3. Empty \in [Levels -> Quantities]
    BY DEF Empty, Quantities
  <2>4. queue' \in Seq(Rows)
    BY <2>1
  <2> QED
    BY <2>1, <2>2, <2>3, <2>4 DEF TypeOK
<1>3. CASE Commit
  <2>1. Head(queue) \in Rows /\ Tail(queue) \in Seq(Rows)
    BY <1>3 DEF Commit, TypeOK
  <2>2. table' \in Seq(Rows) /\ queue' \in Seq(Rows)
    BY <1>3, <2>1 DEF Commit, TypeOK
  <2> QED
    BY <1>3, <2>2 DEF Commit, TypeOK, service, reader
<1>4. CASE Drop
  <2>1. queue' \in Seq(Rows)
    BY <1>4 DEF Drop, TypeOK
  <2> QED
    BY <1>4, <2>1 DEF Drop, TypeOK, service, reader
<1>5. CASE Query
  <2>1. PICK order \in Orders :
          LET batch == [i \in 1 .. BatchLen |-> table[order[i]]]
          IN  delivered' = delivered \o batch /\ lastSeen' = Advance(batch)
    BY <1>5 DEF Query
  <2> DEFINE batch == [i \in 1 .. BatchLen |-> table[order[i]]]
  <2>2. batch \in Seq(Rows) /\ delivered' = delivered \o batch /\ lastSeen' = Advance(batch)
    BY <2>1, BatchType
  <2> HIDE DEF batch
  <2>3. delivered' \in Seq(Rows)
    BY <2>2 DEF TypeOK
  <2>4. lastSeen' \in Int
    <3>1. CASE batch = <<>>
      BY <2>2, <3>1 DEF Advance, TypeOK
    <3>2. CASE batch # <<>>
      <4>1. batch[Len(batch)] \in Rows
        BY <2>2, <3>2
      <4> QED
        BY <2>2, <3>2, <4>1 DEF Advance, Rows
    <3> QED
      BY <3>1, <3>2
  <2> QED
    BY <1>5, <2>3, <2>4 DEF Query, TypeOK, service
<1>6. CASE Connect \/ QueryThrows \/ Disconnect \/ UNCHANGED vars
  <2>1. UNCHANGED <<service, queue, table, restarts, lastSeen, delivered>>
    BY <1>6 DEF Connect, QueryThrows, Disconnect, vars, reader
  <2>2. faults' \in Nat /\ cursor' \in {"none", "up"}
    BY <1>6 DEF Connect, QueryThrows, Disconnect, vars, reader, TypeOK
  <2> QED
    BY <2>1, <2>2 DEF TypeOK, service
<1> QED
  BY <1>1, <1>2, <1>3, <1>4, <1>5, <1>6 DEF Next, Reader

LEMMA InitType == Init => TypeOK
BY DEF Init, TypeOK, Empty, Quantities, Rows

\* Whatever happens, every variable keeps its type.
THEOREM SnapshotsTyping == Spec => []TypeOK
BY InitType, TypeStep, PTL DEF Spec
-----------------------------------------------------------------------------
(***************************************************************************)
(* What a row shows.                                                       *)
(***************************************************************************)
\* What the service was told of a level is what the exchange has there: an
\* update that changes a level tells it, or leaves it unsure.  The last number
\* it was told is not past the last update.
Told == /\ \A l \in Levels \ unsure : cache[l] = exchange[l]
        /\ lastUpdateId <= sent

\* An update that is gone through to its end: the book agrees wherever it was told,
\* and a row that is written shows it.
LEMMA DepthTells ==
  ASSUME TypeOK, Told, NEW S \in SUBSET Levels, NEW changes \in [S -> Quantities],
         NEW told \in SUBSET S, NEW numbered \in BOOLEAN,
         NEW ms \in Int, Depth(changes, told, numbered, ms), sent' = sent + 1,
         exchange' = [l \in Levels |-> IF l \in S THEN changes[l] ELSE exchange[l]]
  PROVE  Told' /\ (Len(queue') > Len(queue) => RowTrue(queue'[Len(queue')]))
<1> DEFINE book == Applied(cache, changes, told)
           row == [ts |-> ms, id |-> lastUpdateId', levels |-> Snapshot(book)]
<1>1. cache' = book /\ unsure' = (unsure \cup S) \ told
  BY DEF Depth
<1>2. \A l \in Levels : book[l] = IF l \in told THEN changes[l] ELSE cache[l]
  BY DEF Applied
<1>3. \A l \in Levels \ unsure' : book[l] = exchange'[l]
  <2> TAKE l \in Levels \ unsure'
  <2>1. CASE l \in told
    BY <1>2, <2>1
  <2>2. CASE l \notin told
    BY <1>1, <1>2, <2>2 DEF Told
  <2> QED
    BY <2>1, <2>2
<1>4. Snapshot(book) \ unsure' = Snapshot(exchange') \ unsure'
  BY <1>3 DEF Snapshot
<1>5. queue' = queue \/ queue' = Append(queue, row)
  BY <1>1 DEF Depth
<1>6. lastUpdateId' <= sent' /\ lastUpdateId' \in Nat
  BY DEF Depth, Told, TypeOK
<1>7. row \in Rows
  BY <1>6 DEF Rows, Snapshot, TypeOK
<1> HIDE DEF book
<1>8. ASSUME Len(queue') > Len(queue)
      PROVE  RowTrue(queue'[Len(queue')])
  <2>1. queue'[Len(queue')] = row
    BY <1>5, <1>7, <1>8 DEF TypeOK
  <2> QED
    BY <1>4, <1>6, <2>1 DEF RowTrue
<1> QED
  BY <1>1, <1>3, <1>6, <1>8 DEF Told

\* An update that is cut off tells what was done and makes the rest unsure.
LEMMA CutTells ==
  ASSUME TypeOK, Told, NEW S \in SUBSET Levels, NEW changes \in [S -> Quantities],
         NEW told \in SUBSET S, DepthCut(changes, told), sent' = sent + 1,
         exchange' = [l \in Levels |-> IF l \in S THEN changes[l] ELSE exchange[l]]
  PROVE  Told' /\ queue' = queue
<1>1. PICK done \in SUBSET told : /\ cache' = Applied(cache, changes, done)
                                  /\ unsure' = (unsure \cup S) \ done
  BY DEF DepthCut
<1>2. \A l \in Levels : cache'[l] = IF l \in done THEN changes[l] ELSE cache[l]
  BY <1>1 DEF Applied
<1>3. \A l \in Levels \ unsure' : cache'[l] = exchange'[l]
  BY <1>1, <1>2 DEF Told
<1>4. lastUpdateId' <= sent' /\ queue' = queue
  BY DEF DepthCut, Told, TypeOK
<1> QED
  BY <1>3, <1>4 DEF Told

LEMMA BookStep ==
  ASSUME TypeOK, Told, [Next]_vars
  PROVE  Told' /\ (Len(queue') > Len(queue) => RowTrue(queue'[Len(queue')]))
<1>1. CASE HandleDepth
  <2>1. PICK S \in SUBSET Levels : \E changes \in [S -> Quantities], told \in SUBSET S :
          Update(S, changes, told)
    BY <1>1, UpdateOf
  <2>2. PICK changes \in [S -> Quantities], told \in SUBSET S : Update(S, changes, told)
    BY <2>1
  <2>3. /\ now' \in Nat /\ sent' = sent + 1
        /\ exchange' = [l \in Levels |-> IF l \in S THEN changes[l] ELSE exchange[l]]
    BY <1>1, <2>2, UpdateOf DEF Update
  <2>4. CASE \E stamp \in {0, now'}, numbered \in BOOLEAN :
               Depth(changes, told, numbered, ToMs(stamp))
    <3>1. PICK stamp \in {0, now'}, numbered \in BOOLEAN :
            Depth(changes, told, numbered, ToMs(stamp))
      BY <2>4
    <3>2. ToMs(stamp) \in Int
      BY <2>3, StampInt
    <3> QED
      BY <2>3, <3>1, <3>2, DepthTells
  <2>5. CASE DepthCut(changes, told)
    <3>1. Told' /\ queue' = queue
      BY <2>3, <2>5, CutTells
    <3> QED
      BY <3>1 DEF TypeOK
  <2> QED
    BY <2>2, <2>4, <2>5 DEF Update
<1>2. CASE Restart
  \* A new service is told nothing yet.
  BY <1>2 DEF Restart, TypeOK, Told
<1>3. CASE Commit \/ Drop
  <2>1. queue' = Tail(queue) /\ queue # <<>> /\ UNCHANGED service
    BY <1>3 DEF Commit, Drop
  <2>2. Len(queue') < Len(queue) /\ Len(queue) \in Nat /\ Len(queue') \in Nat
    BY <2>1 DEF TypeOK
  <2> QED
    BY <2>1, <2>2 DEF service, Told
<1>4. CASE Reader \/ Disconnect \/ UNCHANGED vars
  <2>1. UNCHANGED <<service, queue>>
    BY <1>4 DEF Reader, Connect, Query, QueryThrows, Disconnect, vars
  <2> QED
    BY <2>1 DEF service, Told, TypeOK
<1> QED
  BY <1>1, <1>2, <1>3, <1>4 DEF Next

\* Whatever was written, skipped, cut off or lost in a restart before, and whatever
\* entries of an update were too short to be told: a row shows the exchange's book at
\* its update, wherever the service was told.
THEOREM RowsTrue == Spec => SnapshotTrue
<1>1. Init => Told
  BY DEF Init, Told
<1>2. TypeOK /\ Told /\ [Next]_vars
        => Told' /\ [Len(queue') > Len(queue) => RowTrue(queue'[Len(queue')])]_vars
  BY BookStep
<1> QED
  BY <1>1, <1>2, SnapshotsTyping, PTL DEF Spec, SnapshotTrue
-----------------------------------------------------------------------------
(***************************************************************************)
(* What the reader yields.                                                 *)
(***************************************************************************)
\* Division of the exchange's microseconds into milliseconds.
LEMMA DivBounds ==
  ASSUME NEW a \in Nat, NEW d \in Nat \ {0}
  PROVE  /\ a \div d \in Nat
         /\ d * (a \div d) <= a /\ a < d * (a \div d) + d
<1>1. /\ a = d * (a \div d) + (a % d) /\ 0 <= (a % d) /\ (a % d) < d
      /\ a \div d \in Int
  OBVIOUS
<1>2. a \div d >= 0
  OBVIOUS
<1> QED
  BY <1>1, <1>2

LEMMA DivMonotonic ==
  ASSUME NEW a \in Nat, NEW b \in Nat, a <= b, NEW d \in Nat \ {0}
  PROVE  a \div d <= b \div d
<1> DEFINE p == a \div d
           q == b \div d
<1>1. p \in Nat /\ q \in Nat /\ d * p <= a /\ b < d * q + d
  BY DivBounds
<1> HIDE DEF p, q
<1>2. SUFFICES ASSUME q + 1 <= p
               PROVE  FALSE
  BY <1>1 DEF p, q
<1>3. PICK r \in Nat : p = q + 1 + r
  BY <1>1, <1>2
<1>4. d * p = d * q + d + d * r /\ d * r \in Nat /\ d * q \in Nat
  BY <1>1, <1>3
<1> QED
  BY <1>1, <1>4

LEMMA DivNext ==
  ASSUME NEW a \in Nat, NEW d \in Nat \ {0}
  PROVE  a \div d < (a + d) \div d
<1>1. (a + d) \div d = a \div d + 1
  OBVIOUS
<1> QED
  BY <1>1, DivBounds

\* A sorted choice of all of n + 1 .. n + k is the interval itself: as many
\* places come before s[i] as values lie below it.
LEMMA SortedIsAll ==
  ASSUME NEW n \in Nat, NEW k \in Nat, NEW s \in [1 .. k -> n + 1 .. n + k],
         \A i, j \in 1 .. k : i < j => s[i] < s[j]
  PROVE  \A i \in 1 .. k : s[i] = n + i
<1> DEFINE places == 1 .. k
           values == n + 1 .. n + k
<1>1. s \in Injection(places, values)
  <2>1. ASSUME NEW a \in places, NEW b \in places, s[a] = s[b]
        PROVE  a = b
    <3>1. ~(a < b) /\ ~(b < a)
      BY <2>1
    <3> QED
      BY <3>1
  <2>2. s \in [places -> values]
    OBVIOUS
  <2> HIDE DEF places, values
  <2> QED
    BY <2>1, <2>2 DEF Injection, IsInjective
<1>2. /\ IsFiniteSet(places) /\ Cardinality(places) = k
      /\ IsFiniteSet(values) /\ Cardinality(values) = k
  <2>1. IsFiniteSet(places) /\ Cardinality(places) = k
    BY FS_Interval
  <2>2. IsFiniteSet(values)
    BY FS_Interval
  <2>3. Cardinality(values) = IF n + 1 > n + k THEN 0 ELSE (n + k) - (n + 1) + 1
    BY FS_Interval
  <2> QED
    BY <2>1, <2>2, <2>3
<1>3. s \in Surjection(places, values)
  BY <1>1, <1>2, FS_Injection
<1> SUFFICES ASSUME NEW i \in 1 .. k
             PROVE  s[i] = n + i
  OBVIOUS
<1> DEFINE below == [j \in 1 .. i - 1 |-> s[j]]
           lower == 1 .. i - 1
           lesser == n + 1 .. s[i] - 1
<1>4. below \in [lower -> lesser]
  <2>1. ASSUME NEW j \in lower
        PROVE  s[j] \in lesser
    <3>1. j \in 1 .. k /\ j < i /\ s[j] \in n + 1 .. n + k /\ s[i] \in n + 1 .. n + k
      OBVIOUS
    <3>2. s[j] < s[i]
      BY <3>1
    <3> QED
      BY <3>1, <3>2
  <2> QED
    BY <2>1
<1>5. \A a, b \in lower : below[a] = below[b] => a = b
  <2>1. ASSUME NEW a \in lower, NEW b \in lower, s[a] = s[b]
        PROVE  a = b
    <3>1. a \in places /\ b \in places
      OBVIOUS
    <3> QED
      BY <1>1, <2>1, <3>1 DEF Injection, IsInjective
  <2> QED
    BY <2>1
<1>6. ASSUME NEW v \in lesser
      PROVE  \E j \in lower : below[j] = v
  <2>1. v \in n + 1 .. n + k
    OBVIOUS
  <2>2. PICK j \in 1 .. k : s[j] = v
    BY <1>3, <2>1 DEF Surjection
  <2>3. s[j] < s[i]
    BY <2>2
  <2>4. ~(i < j) /\ i # j
    BY <2>3
  <2> QED
    BY <2>2, <2>4
<1>7. below \in Bijection(lower, lesser)
  <2> HIDE DEF below, lower, lesser
  <2> QED
    BY <1>4, <1>5, <1>6 DEF Bijection, Injection, IsInjective, Surjection
<1>8. IsFiniteSet(lower) /\ Cardinality(lower) = IF 1 > i - 1 THEN 0 ELSE (i - 1) - 1 + 1
  <2>1. 1 \in Int /\ i - 1 \in Int
    OBVIOUS
  <2> QED
    BY <2>1, FS_Interval
<1>9. s[i] \in n + 1 .. n + k /\ s[i] \in Int /\ i \in Int
  OBVIOUS
<1>10. Cardinality(lesser) = IF n + 1 > s[i] - 1 THEN 0 ELSE (s[i] - 1) - (n + 1) + 1
  <2>1. n + 1 \in Int /\ s[i] - 1 \in Int
    BY <1>9
  <2> QED
    BY <2>1, FS_Interval
<1>11. Cardinality(lesser) = Cardinality(lower)
  <2> HIDE DEF below, lower, lesser
  <2> QED
    BY <1>7, <1>8, FS_Bijection, ZenonT(20) DEF ExistsBijection
<1> HIDE DEF places, values, below, lower, lesser
<1>12. Cardinality(lower) = i - 1
  BY <1>8
<1>13. Cardinality(lesser) = s[i] - 1 - n
  BY <1>9, <1>10
<1>14. s[i] - 1 - n = i - 1
  BY <1>11, <1>12, <1>13
<1> QED
  BY ONLY <1>9, <1>14, n \in Nat

\* Stamps grow within the table and within the queue, and from the one to the
\* other; a row's stamp is past: the last one written or older, or, after a
\* restart forgot that, older than the exchange's clock.
Ascending(rows) == \A i, j \in 1 .. Len(rows) : i < j => rows[i].ts < rows[j].ts
Separate == \A i \in 1 .. Len(table), j \in 1 .. Len(queue) : table[i].ts < queue[j].ts
Written(rows) == \A i \in 1 .. Len(rows) :
                   /\ 0 < rows[i].ts
                   /\ rows[i].ts <= lastWriteTime \/ rows[i].ts < now \div Thousand
Clocks == Big < now /\ 0 <= lastWriteTime /\ lastWriteTime <= now \div Thousand

Stamps == /\ Ascending(table) /\ Ascending(queue) /\ Separate
          /\ Written(table) /\ Written(queue) /\ Clocks

\* The reader stands right behind the row it yielded last.
Follows ==
  /\ Len(delivered) <= Len(table)
  /\ \A i \in 1 .. Len(delivered) : delivered[i] = table[i]
  /\ lastSeen = IF Len(delivered) = 0 THEN 0 ELSE table[Len(delivered)].ts

LEMMA RowStamp ==
  ASSUME NEW rows \in Seq(Rows), NEW i \in 1 .. Len(rows)
  PROVE  rows[i] \in Rows /\ rows[i].ts \in Int
<1>1. rows[i] \in Rows
  OBVIOUS
<1> QED
  BY <1>1 DEF Rows

\* A clock that goes on leaves all stamps past.
LEMMA StampsAge ==
  ASSUME TypeOK, Stamps, now' \in Nat, now <= now',
         UNCHANGED <<table, queue, lastWriteTime>>
  PROVE  Stamps'
<1>1. /\ now \div Thousand \in Nat /\ now' \div Thousand \in Nat
      /\ now \div Thousand <= now' \div Thousand
  BY DivBounds, DivMonotonic DEF TypeOK
<1>2. ASSUME NEW rows \in Seq(Rows), Written(rows), NEW i \in 1 .. Len(rows)
      PROVE  /\ 0 < rows[i].ts
             /\ rows[i].ts <= lastWriteTime' \/ rows[i].ts < now' \div Thousand
  <2>1. rows[i].ts \in Int
    BY RowStamp
  <2> QED
    BY <1>1, <1>2, <2>1 DEF Written, TypeOK
<1>3. Written(table)' /\ Written(queue)'
  BY <1>2 DEF Stamps, Written, TypeOK
<1>4. Clocks'
  BY <1>1 DEF Stamps, Clocks, TypeOK
<1> QED
  BY <1>3, <1>4 DEF Stamps, Ascending, Separate

\* A row that is written is younger than every row before it.
LEMMA WriteStamps ==
  ASSUME TypeOK, Stamps, now' \in Nat, now <= now', table' = table,
         NEW stamp \in {0, now'}, NEW changes, NEW told, NEW numbered,
         Depth(changes, told, numbered, ToMs(stamp)), queue' \in Seq(Rows)
  PROVE  Stamps'
<1> DEFINE ms == ToMs(stamp)
<1>1. now \div Thousand \in Nat /\ now' \div Thousand \in Nat
      /\ now \div Thousand <= now' \div Thousand
  BY DivBounds, DivMonotonic DEF TypeOK
<1>2. Big < now'
  BY DEF Stamps, Clocks, TypeOK
<1>3. CASE queue' = queue /\ lastWriteTime' = lastWriteTime
  BY <1>3, StampsAge
<1>4. CASE ShouldWrite(ms) /\ lastWriteTime' = ms
           /\ \E row : row.ts = ms /\ row \in Rows /\ queue' = Append(queue, row)
  <2>1. lastWriteTime \in Int /\ 0 <= lastWriteTime
    BY DEF TypeOK, Stamps, Clocks
  <2>2. ms \in Int
    BY StampInt DEF TypeOK
  <2>3. lastWriteTime < ms
    BY <1>4, <2>1, <2>2 DEF ShouldWrite
  <2>4. stamp # 0
    <3>1. 0 \div Thousand = 0 /\ 0 * Thousand = 0
      OBVIOUS
    <3>2. ToMs(0) = 0
      BY <3>1 DEF ToMs
    <3> QED
      BY <2>1, <2>3, <3>2
  <2>5. ms = now' \div Thousand
    BY <1>2, <2>4 DEF ToMs
  <2> HIDE DEF ms
  <2>6. PICK row \in Rows : row.ts = ms /\ queue' = Append(queue, row)
    BY <1>4
  <2>7. ASSUME NEW rows \in Seq(Rows), Written(rows), NEW i \in 1 .. Len(rows)
        PROVE  0 < rows[i].ts /\ rows[i].ts < ms
    <3>1. rows[i].ts \in Int
      BY RowStamp
    <3> QED
      BY <1>1, <2>1, <2>2, <2>3, <2>5, <2>7, <3>1 DEF Written
  <2>8. /\ queue \in Seq(Rows) /\ table \in Seq(Rows)
        /\ Written(queue) /\ Written(table)
    BY DEF TypeOK, Stamps
  <2>9. /\ Len(queue') = Len(queue) + 1 /\ queue'[Len(queue')] = row
        /\ \A i \in 1 .. Len(queue) : queue'[i] = queue[i]
        /\ Len(queue) \in Nat
    BY <2>6, <2>8
  <2>10. \A i \in 1 .. Len(queue) : 0 < queue'[i].ts /\ queue'[i].ts < ms
    BY <2>7, <2>8, <2>9
  <2>11. queue'[Len(queue')].ts = ms
    BY <2>6, <2>9
  <2>12. Ascending(queue)'
    <3>1. ASSUME NEW i \in 1 .. Len(queue'), NEW j \in 1 .. Len(queue'), i < j
          PROVE  queue'[i].ts < queue'[j].ts
      <4>1. i \in 1 .. Len(queue) /\ (j \in 1 .. Len(queue) \/ j = Len(queue'))
        BY <2>9, <3>1
      <4> QED
        BY <2>9, <2>10, <2>11, <3>1, <4>1 DEF Ascending, Stamps
    <3> QED
      BY <3>1 DEF Ascending
  <2>13. Separate'
    <3>1. ASSUME NEW i \in 1 .. Len(table), NEW j \in 1 .. Len(queue')
          PROVE  table[i].ts < queue'[j].ts
      <4>1. j \in 1 .. Len(queue) \/ j = Len(queue')
        BY <2>9
      <4> QED
        BY <2>7, <2>8, <2>9, <2>11, <4>1 DEF Separate, Stamps
    <3> QED
      BY <3>1 DEF Separate
  <2>14. \A i \in 1 .. Len(queue') : 0 < queue'[i].ts /\ queue'[i].ts <= ms
    <3> TAKE i \in 1 .. Len(queue')
    <3>1. CASE i \in 1 .. Len(queue)
      <4>1. queue'[i].ts \in Int
        BY <2>8, <2>9, <3>1, RowStamp
      <4> QED
        BY <2>2, <2>10, <3>1, <4>1
    <3>2. CASE i = Len(queue')
      BY <2>1, <2>2, <2>3, <2>11, <3>2
    <3> QED
      BY <2>9, <3>1, <3>2
  <2>15. Written(table)' /\ Written(queue)'
    <3>1. \A i \in 1 .. Len(table) : 0 < table[i].ts /\ table[i].ts <= ms
      <4> TAKE i \in 1 .. Len(table)
      <4>1. table[i].ts \in Int
        BY <2>8, RowStamp
      <4> QED
        BY <2>2, <2>7, <2>8, <4>1
    <3> QED
      BY <1>4, <2>14, <3>1 DEF Written, ms
  <2>16. Clocks'
    BY <1>1, <1>2, <1>4, <2>5 DEF Clocks, ms
  <2> QED
    BY <2>12, <2>13, <2>15, <2>16 DEF Stamps, Ascending
<1> QED
  <2> DEFINE row == [ts |-> ms, id |-> lastUpdateId',
                     levels |-> Snapshot(Applied(cache, changes, told))]
  <2>1. \/ queue' = queue /\ lastWriteTime' = lastWriteTime
        \/ /\ ShouldWrite(ms) /\ lastWriteTime' = ms
           /\ queue' = Append(queue, row)
    BY DEF Depth
  <2>2. row.ts = ms
    OBVIOUS
  <2> HIDE DEF row, ms
  <2>3. ASSUME queue' = Append(queue, row)
        PROVE  row \in Rows
    \* The queue has its type, and so has what was appended to it.
    <3>1. queue'[Len(queue) + 1] = row /\ Len(queue') = Len(queue) + 1
      BY <2>3 DEF TypeOK
    <3> QED
      BY <3>1 DEF TypeOK
  <2> QED
    BY <1>3, <1>4, <2>1, <2>2, <2>3 DEF ms

\* Behind the reader lie exactly the rows younger than what it saw: the query
\* returns the next rows of the table, in the table's order.
LEMMA NewRowsAreNext ==
  ASSUME TypeOK, Stamps, Follows
  PROVE  /\ NewRows = Len(delivered) + 1 .. Len(table)
         /\ Cardinality(NewRows) = Len(table) - Len(delivered)
<1> DEFINE n == Len(delivered)
<1>1. n \in Nat /\ Len(table) \in Nat /\ n <= Len(table)
  BY DEF TypeOK, Follows
<1>2. \A i \in 1 .. Len(table) : table[i].ts \in Int /\ 0 < table[i].ts
  BY RowStamp DEF TypeOK, Stamps, Written
<1>3. ASSUME NEW i \in 1 .. Len(table)
      PROVE  table[i].ts > lastSeen <=> n < i
  <2>1. CASE n = 0
    BY <1>2, <2>1 DEF Follows
  <2>2. CASE n # 0
    <3>1. n \in 1 .. Len(table) /\ lastSeen = table[n].ts
      BY <1>1, <2>2 DEF Follows
    <3>2. n < i => table[n].ts < table[i].ts
      BY <3>1 DEF Stamps, Ascending
    <3>3. i < n => table[i].ts < table[n].ts
      BY <3>1 DEF Stamps, Ascending
    <3>4. n < i \/ i < n \/ i = n
      BY <1>1
    <3> QED
      BY <1>1, <1>2, <3>1, <3>2, <3>3, <3>4
  <2> QED
    BY <2>1, <2>2
<1>4. NewRows = n + 1 .. Len(table)
  <2>1. ASSUME NEW i
        PROVE  i \in NewRows <=> i \in n + 1 .. Len(table)
    <3>1. i \in NewRows <=> i \in 1 .. Len(table) /\ table[i].ts > lastSeen
      BY DEF NewRows
    <3>2. i \in n + 1 .. Len(table) <=> i \in 1 .. Len(table) /\ n < i
      BY <1>1
    <3> QED
      BY <1>3, <3>1, <3>2
  <2> QED
    BY <2>1
<1>5. n + 1 \in Int /\ Len(table) \in Int
  BY <1>1
<1>6. Cardinality(n + 1 .. Len(table))
        = IF n + 1 > Len(table) THEN 0 ELSE Len(table) - (n + 1) + 1
  BY <1>5, FS_Interval
<1>7. Cardinality(n + 1 .. Len(table)) = Len(table) - n
  BY <1>1, <1>6
<1> QED
  BY <1>4, <1>7

LEMMA OrderIsNext ==
  ASSUME TypeOK, Stamps, Follows, NEW order \in Orders
  PROVE  \A i \in 1 .. Len(table) - Len(delivered) : order[i] = Len(delivered) + i
<1> DEFINE n == Len(delivered)
           k == Len(table) - Len(delivered)
<1>1. n \in Nat /\ k \in Nat /\ Len(table) = n + k
  BY DEF TypeOK, Follows
<1>2. NewRows = n + 1 .. n + k /\ Cardinality(NewRows) = k
  BY <1>1, NewRowsAreNext
<1>3. order \in [1 .. k -> n + 1 .. n + k]
  BY <1>2 DEF Orders
<1>4. ASSUME NEW i \in 1 .. k, NEW j \in 1 .. k, i < j
      PROVE  order[i] < order[j]
  <2>1. order[i] # order[j] /\ table[order[i]].ts <= table[order[j]].ts
    BY <1>2, <1>4 DEF Orders
  <2>2. order[i] \in 1 .. Len(table) /\ order[j] \in 1 .. Len(table)
    BY <1>1, <1>3
  <2>3. order[j] < order[i] => table[order[j]].ts < table[order[i]].ts
    BY <2>2 DEF Stamps, Ascending
  <2>4. table[order[i]].ts \in Int /\ table[order[j]].ts \in Int
    BY <2>2, RowStamp DEF TypeOK
  <2>5. ~(order[j] < order[i])
    BY <2>1, <2>3, <2>4
  <2> QED
    BY <2>1, <2>2, <2>5
<1> HIDE DEF n, k
<1> QED
  BY <1>1, <1>3, <1>4, SortedIsAll DEF n, k

LEMMA QueryFollows ==
  ASSUME TypeOK, Stamps, Follows, Query
  PROVE  Follows'
<1>1. PICK order \in Orders :
        LET batch == [i \in 1 .. BatchLen |-> table[order[i]]]
        IN  delivered' = delivered \o batch /\ lastSeen' = Advance(batch)
  BY DEF Query
<1> DEFINE batch == [i \in 1 .. BatchLen |-> table[order[i]]]
           n == Len(delivered)
<1>2. delivered' = delivered \o batch /\ lastSeen' = Advance(batch)
  BY <1>1
<1>3. batch \in Seq(Rows) /\ Len(batch) = BatchLen
  BY BatchType
<1>4. /\ n \in Nat /\ Len(table) \in Nat /\ n <= Len(table)
      /\ BatchLen \in Nat /\ n + BatchLen <= Len(table)
  BY NewRowsFinite, NewRowsAreNext DEF TypeOK, Follows
<1>5. \A i \in 1 .. BatchLen : batch[i] = table[n + i]
  BY <1>4, OrderIsNext
<1> HIDE DEF batch
<1>6. /\ Len(delivered') = n + BatchLen
      /\ \A i \in 1 .. n : delivered'[i] = delivered[i]
      /\ \A i \in 1 .. BatchLen : delivered'[n + i] = batch[i]
  <2>1. delivered \in Seq(Rows)
    BY DEF TypeOK
  <2>2. /\ Len(delivered \o batch) = Len(delivered) + Len(batch)
        /\ \A i \in 1 .. Len(delivered) + Len(batch) :
             (delivered \o batch)[i] = IF i <= Len(delivered) THEN delivered[i]
                                       ELSE batch[i - Len(delivered)]
    BY <1>3, <2>1, ConcatProperties
  <2>3. \A i \in 1 .. BatchLen : /\ n + i \in 1 .. n + BatchLen /\ ~(n + i <= n)
                                 /\ (n + i) - n = i
    BY <1>4
  <2> QED
    BY <1>2, <1>3, <1>4, <2>2, <2>3
<1>7. ASSUME NEW i \in 1 .. n + BatchLen
      PROVE  delivered'[i] = table[i]
  <2>1. CASE i \in 1 .. n
    BY <1>6, <2>1 DEF Follows
  <2>2. CASE i - n \in 1 .. BatchLen
    <3>1. delivered'[n + (i - n)] = table[n + (i - n)]
      BY <1>5, <1>6, <2>2
    <3>2. n + (i - n) = i
      BY <1>4
    <3> QED
      BY <3>1, <3>2
  <2> QED
    BY <1>4, <2>1, <2>2
<1>8. lastSeen' = IF n + BatchLen = 0 THEN 0 ELSE table[n + BatchLen].ts
  <2>1. CASE BatchLen = 0
    <3>1. batch = <<>>
      BY <1>3, <2>1
    <3> QED
      BY <1>2, <1>4, <2>1, <3>1 DEF Advance, Follows
  <2>2. CASE BatchLen # 0
    <3>1. batch # <<>> /\ BatchLen \in 1 .. BatchLen /\ n + BatchLen # 0
      BY <1>3, <1>4, <2>2
    <3> QED
      BY <1>2, <1>3, <1>5, <3>1 DEF Advance
  <2> QED
    BY <2>1, <2>2
<1>9. table' = table
  BY DEF Query
<1> QED
  BY <1>4, <1>6, <1>7, <1>8, <1>9 DEF Follows

LEMMA DeliveryStep ==
  ASSUME TypeOK, TypeOK', Stamps, Follows, [Next]_vars
  PROVE  Stamps' /\ Follows'
<1>1. CASE HandleDepth
  <2>1. PICK S \in SUBSET Levels : \E changes \in [S -> Quantities], told \in SUBSET S :
          Update(S, changes, told)
    BY <1>1, UpdateOf
  <2>2. PICK changes \in [S -> Quantities], told \in SUBSET S : Update(S, changes, told)
    BY <2>1
  <2>3. /\ now <= now' /\ now' \in Nat /\ queue' \in Seq(Rows)
        /\ UNCHANGED <<table, delivered, lastSeen>>
    BY <1>1, UpdateOf DEF TypeOK, reader
  <2>4. CASE \E stamp \in {0, now'}, numbered \in BOOLEAN :
               Depth(changes, told, numbered, ToMs(stamp))
    <3>1. PICK stamp \in {0, now'}, numbered \in BOOLEAN :
            Depth(changes, told, numbered, ToMs(stamp))
      BY <2>4
    <3>2. Stamps'
      BY <2>3, <3>1, WriteStamps
    <3> QED
      BY <2>3, <3>2 DEF Follows
  <2>5. CASE DepthCut(changes, told)
    <3>1. UNCHANGED <<queue, lastWriteTime>>
      BY <2>5 DEF DepthCut
    <3>2. Stamps'
      BY <2>3, <3>1, StampsAge
    <3> QED
      BY <2>3, <3>2 DEF Follows
  <2> QED
    BY <2>2, <2>4, <2>5 DEF Update
<1>2. CASE Restart
  <2>1. /\ now' = now + Thousand /\ lastWriteTime' = 0 /\ queue' = <<>>
        /\ UNCHANGED <<table, delivered, lastSeen>>
    BY <1>2 DEF Restart, reader
  <2>2. /\ now \div Thousand \in Nat /\ now' \div Thousand \in Nat
        /\ now \div Thousand < now' \div Thousand
    BY <2>1, DivBounds, DivNext DEF TypeOK
  <2>3. Written(table)'
    <3>1. ASSUME NEW i \in 1 .. Len(table)
          PROVE  0 < table[i].ts /\ table[i].ts < now' \div Thousand
      <4>1. table[i].ts \in Int /\ lastWriteTime \in Int
        BY RowStamp DEF TypeOK
      <4>2. /\ 0 < table[i].ts /\ lastWriteTime <= now \div Thousand
            /\ table[i].ts <= lastWriteTime \/ table[i].ts < now \div Thousand
        BY DEF Stamps, Written, Clocks
      <4> QED
        BY <2>2, <4>1, <4>2
    <3> QED
      BY <2>1, <3>1 DEF Written
  <2>4. Clocks'
    <3>1. Big < now /\ now \in Nat /\ Thousand \in Nat
      BY DEF Stamps, Clocks, TypeOK
    <3>2. Big < now'
      BY <2>1, <3>1
    <3>3. 0 <= lastWriteTime' /\ lastWriteTime' <= now' \div Thousand
      BY ONLY <2>1, <2>2
    <3> QED
      BY <3>2, <3>3 DEF Clocks
  <2>5. Len(queue') = 0 /\ 1 .. Len(queue') = {}
    BY <2>1
  <2>6. Ascending(table)' /\ Ascending(queue)' /\ Separate' /\ Written(queue)'
    BY <2>1, <2>5 DEF Stamps, Ascending, Separate, Written
  <2>7. Stamps'
    BY <2>3, <2>4, <2>6 DEF Stamps
  <2> QED
    BY <2>1, <2>7 DEF Follows
<1>3. CASE Commit \/ Drop
  <2>1. queue # <<>> /\ queue' = Tail(queue) /\ UNCHANGED <<service, reader>>
    BY <1>3 DEF Commit, Drop
  <2>2. /\ queue \in Seq(Rows) /\ Len(queue) \in Nat \ {0}
        /\ table \in Seq(Rows) /\ Len(table) \in Nat
    <3>1. queue \in Seq(Rows) /\ table \in Seq(Rows)
      BY DEF TypeOK
    <3> QED
      BY <2>1, <3>1
  <2>3. Len(queue') = Len(queue) - 1 /\ \A i \in 1 .. Len(queue') : queue'[i] = queue[i + 1]
    BY <2>1, <2>2
  <2>4. Ascending(queue)' /\ Written(queue)' /\ Clocks'
    <3>1. \A i \in 1 .. Len(queue') : i + 1 \in 1 .. Len(queue)
      BY <2>2, <2>3
    <3>2. Ascending(queue)'
      BY <2>3, <3>1 DEF Stamps, Ascending
    <3>3. UNCHANGED <<now, lastWriteTime>>
      BY <2>1 DEF service
    <3>4. Written(queue)'
      BY <2>3, <3>1, <3>3 DEF Stamps, Written
    <3> QED
      BY <3>2, <3>3, <3>4 DEF Stamps, Clocks
  <2>5. CASE table' = table
    <3>1. Stamps'
      BY <2>1, <2>2, <2>3, <2>4, <2>5 DEF Stamps, Ascending, Separate, Written, service
    <3> QED
      BY <2>1, <2>5, <3>1 DEF Follows, reader
  <2>6. CASE table' = Append(table, Head(queue))
    <3>1. /\ Len(table') = Len(table) + 1 /\ table'[Len(table')] = queue[1]
          /\ \A i \in 1 .. Len(table) : table'[i] = table[i]
      BY <2>2, <2>6
    <3>2. ASSUME NEW i \in 1 .. Len(table')
          PROVE  i \in 1 .. Len(table) \/ i = Len(table')
      BY <2>2, <3>1
    <3>3. Ascending(table)'
      <4>1. ASSUME NEW i \in 1 .. Len(table'), NEW j \in 1 .. Len(table'), i < j
            PROVE  table'[i].ts < table'[j].ts
        <5>1. i \in 1 .. Len(table)
          BY <2>2, <3>1, <4>1
        <5> QED
          BY <2>2, <3>1, <3>2, <4>1, <5>1 DEF Stamps, Ascending, Separate
      <4> QED
        BY <4>1 DEF Ascending
    <3>4. Written(table)'
      BY <2>1, <2>2, <3>1, <3>2 DEF Stamps, Written, service
    <3>5. Separate'
      <4>1. ASSUME NEW i \in 1 .. Len(table'), NEW j \in 1 .. Len(queue')
            PROVE  table'[i].ts < queue'[j].ts
        <5>1. j + 1 \in 1 .. Len(queue) /\ 1 \in 1 .. Len(queue) /\ 1 < j + 1
          BY <2>2, <2>3
        <5>2. queue[1].ts < queue[j + 1].ts
          BY <5>1 DEF Stamps, Ascending
        <5> QED
          BY <2>3, <3>1, <3>2, <5>1, <5>2 DEF Stamps, Separate
      <4> QED
        BY <4>1 DEF Separate
    <3>6. Follows'
      <4>1. UNCHANGED <<delivered, lastSeen>> /\ Len(delivered) \in Nat
        BY <2>1 DEF reader, TypeOK
      <4> QED
        BY <2>2, <3>1, <4>1 DEF Follows
    <3> QED
      BY <2>4, <3>3, <3>4, <3>5, <3>6 DEF Stamps
  <2> QED
    BY <1>3, <2>5, <2>6 DEF Commit, Drop
<1>4. CASE Query
  <2>1. UNCHANGED <<now, lastWriteTime, queue, table>>
    BY <1>4 DEF Query, service
  <2>2. Stamps'
    BY <2>1 DEF Stamps, Ascending, Separate, Written, Clocks
  <2> QED
    BY <1>4, <2>2, QueryFollows
<1>5. CASE Connect \/ QueryThrows \/ Disconnect \/ UNCHANGED vars
  <2>1. UNCHANGED <<now, lastWriteTime, queue, table, delivered, lastSeen>>
    BY <1>5 DEF Connect, QueryThrows, Disconnect, vars, service, reader
  <2> QED
    BY <2>1 DEF Stamps, Ascending, Separate, Written, Clocks, Follows
<1> QED
  BY <1>1, <1>2, <1>3, <1>4, <1>5 DEF Next, Reader

LEMMA InitDelivers ==
  ASSUME Init
  PROVE  Stamps /\ Follows
<1>1. 0 <= Start \div Thousand
  BY DivBounds
<1> QED
  BY <1>1 DEF Init, Stamps, Follows, Ascending, Separate, Written, Clocks

\* Across batches, broken connections, lost rows and restarts of the service,
\* the reader yields the committed rows once each and in order.
THEOREM DeliveryOrder == Spec => []DeliveredInOrder
<1>1. Init => Stamps /\ Follows
  BY InitDelivers
<1>2. TypeOK /\ TypeOK' /\ Stamps /\ Follows /\ [Next]_vars => Stamps' /\ Follows'
  BY DeliveryStep
<1>3. TypeOK /\ Follows => DeliveredInOrder
  <2> SUFFICES ASSUME TypeOK, Follows
               PROVE  delivered = SubSeq(table, 1, Len(delivered))
    BY DEF Follows, DeliveredInOrder
  <2> DEFINE n == Len(delivered)
             front == SubSeq(table, 1, n)
  <2>1. n \in Nat /\ Len(table) \in Nat /\ n <= Len(table)
    BY DEF TypeOK, Follows
  <2>2. /\ front \in Seq(Rows) /\ Len(front) = n
        /\ \A i \in 1 .. n : front[i] = table[i]
    BY <2>1 DEF TypeOK
  <2>3. delivered \in Seq(Rows) /\ \A i \in 1 .. n : delivered[i] = front[i]
    BY <2>2 DEF TypeOK, Follows
  <2> HIDE DEF front
  <2> QED
    BY <2>2, <2>3
<1> QED
  BY <1>1, <1>2, <1>3, SnapshotsTyping, PTL DEF Spec

\* No two rows share a stamp where the reader looks: the query, which does not
\* say in which order rows of one stamp come, has exactly one answer.
THEOREM OneOrder == Spec => [](\E order : Orders = {order})
<1> DEFINE One == \E order : Orders = {order}
<1>1. Init => Stamps /\ Follows
  BY InitDelivers
<1>2. TypeOK /\ TypeOK' /\ Stamps /\ Follows /\ [Next]_vars => Stamps' /\ Follows'
  BY DeliveryStep
<1>3. TypeOK /\ Stamps /\ Follows => One
  <2> SUFFICES ASSUME TypeOK, Stamps, Follows
               PROVE  One
    OBVIOUS
  <2> DEFINE n == Len(delivered)
             k == Len(table) - Len(delivered)
             next == [i \in 1 .. k |-> n + i]
  <2>1. n \in Nat /\ k \in Nat /\ Len(table) = n + k
    BY DEF TypeOK, Follows
  <2>2. NewRows = n + 1 .. n + k /\ Cardinality(NewRows) = k
    BY <2>1, NewRowsAreNext
  <2>3. next \in Orders
    <3>1. next \in [1 .. k -> n + 1 .. n + k]
      BY <2>1
    <3>2. ASSUME NEW i \in 1 .. k, NEW j \in 1 .. k, i < j
          PROVE  next[i] # next[j] /\ table[next[i]].ts <= table[next[j]].ts
      <4>1. n + i \in 1 .. Len(table) /\ n + j \in 1 .. Len(table) /\ n + i < n + j
        BY <2>1, <3>2
      <4>2. table[n + i].ts < table[n + j].ts
        BY <4>1 DEF Stamps, Ascending
      <4>3. table[n + i].ts \in Int /\ table[n + j].ts \in Int
        BY <4>1, RowStamp DEF TypeOK
      <4> QED
        BY <4>1, <4>2, <4>3
    <3> QED
      BY <2>2, <3>1, <3>2 DEF Orders
  <2>4. ASSUME NEW order \in Orders
        PROVE  order = next
    <3>1. order \in [1 .. k -> n + 1 .. n + k]
      BY <2>2 DEF Orders
    <3>2. \A i \in 1 .. k : order[i] = n + i
      BY OrderIsNext
    <3> QED
      BY <3>1, <3>2
  <2> HIDE DEF next
  <2>5. Orders = {next}
    BY <2>3, <2>4
  <2> QED
    BY <2>5
<1> QED
  BY <1>1, <1>2, <1>3, SnapshotsTyping, PTL DEF Spec
=============================================================================
