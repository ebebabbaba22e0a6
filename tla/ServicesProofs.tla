--------------------------- MODULE ServicesProofs ---------------------------
(***************************************************************************)
(* The services of MCServices that share no state: for each the invariant  *)
(* that makes it correct, proved of the service by itself for any value of *)
(* its constants, and then of all of them side by side.                    *)
(***************************************************************************)
EXTENDS MCServices, PortfolioStoreProofs, FiniteSetTheorems, SequenceTheorems, TLAPS

---------------------------------------------------------------------------
(* The writer (WriteBehind)                                                *)

\* The instance counts as the module it comes from does.
LEMMA WriterCounts == \A S : Writer!Cardinality(S) = Cardinality(S)
BY DEF Writer!Cardinality, Cardinality

\* The rows of a queue are finitely many; one more row is one more element.
LEMMA ElementsOfQueue ==
    ASSUME NEW s \in Seq(DbRow)
    PROVE  /\ Writer!Elements(s) \in SUBSET DbRow /\ IsFiniteSet(Writer!Elements(s))
           /\ s # <<>> => Writer!Elements(s) # {}
           /\ \A r \in DbRow : Writer!Elements(Append(s, r)) = Writer!Elements(s) \cup {r}
<1>1. Writer!Elements(s) \in SUBSET DbRow
  BY DEF Writer!Elements
<1>2. IsFiniteSet(Writer!Elements(s))
  <2>1. s \in Surjection(1 .. Len(s), Writer!Elements(s))
    BY DEF Surjection, Writer!Elements
  <2>2. IsFiniteSet(1 .. Len(s))
    BY FS_Interval
  <2> QED
    BY <2>1, <2>2, FS_Surjection
<1>3. s # <<>> => Writer!Elements(s) # {}
  <2> SUFFICES ASSUME s # <<>> PROVE s[1] \in Writer!Elements(s)
    OBVIOUS
  <2>1. 1 \in DOMAIN s
    BY EmptySeq
  <2> QED
    BY <2>1 DEF Writer!Elements
<1>4. ASSUME NEW r \in DbRow
      PROVE  Writer!Elements(Append(s, r)) = Writer!Elements(s) \cup {r}
  <2>1. /\ DOMAIN Append(s, r) = DOMAIN s \cup {Len(s) + 1}
        /\ Append(s, r)[Len(s) + 1] = r
        /\ \A n \in DOMAIN s : Append(s, r)[n] = s[n]
    OBVIOUS
  <2> QED
    BY <2>1 DEF Writer!Elements
<1> QED
  BY <1>1, <1>2, <1>3, <1>4

\* A batch is taken off the front: what is left and what was taken share no row.
LEMMA QueueSplits ==
    ASSUME NEW s \in Seq(DbRow), NEW n \in 1 .. Len(s),
           \A i, j \in DOMAIN s : s[i] = s[j] => i = j
    PROVE  LET head == SubSeq(s, 1, n)
               rest == SubSeq(s, n + 1, Len(s))
           IN  /\ head \in Seq(DbRow) /\ head # <<>>
               /\ rest \in Seq(DbRow) /\ Len(rest) <= Len(s)
               /\ Writer!Elements(s) = Writer!Elements(head) \cup Writer!Elements(rest)
               /\ Writer!Elements(head) \cap Writer!Elements(rest) = {}
               /\ \A i, j \in DOMAIN rest : rest[i] = rest[j] => i = j
<1> DEFINE head == SubSeq(s, 1, n)
           rest == SubSeq(s, n + 1, Len(s))
<1>1. /\ head \in Seq(DbRow) /\ Len(head) = n
      /\ \A i \in 1 .. n : head[i] = s[i]
  <2>1. \A i \in 1 .. n : s[i] \in DbRow
    OBVIOUS
  <2> QED
    BY <2>1, SubSeqProperties
<1>2. /\ rest \in Seq(DbRow) /\ Len(rest) = Len(s) - n
      /\ \A i \in 1 .. Len(s) - n : rest[i] = s[n + i]
  <2>1. \A i \in (n + 1) .. Len(s) : s[i] \in DbRow
    OBVIOUS
  <2>2. /\ rest \in Seq(DbRow)
        /\ Len(rest) = IF n + 1 <= Len(s) THEN Len(s) - (n + 1) + 1 ELSE 0
        /\ \A i \in 1 .. Len(s) - (n + 1) + 1 : rest[i] = s[n + 1 + i - 1]
    BY <2>1, SubSeqProperties
  <2> QED
    BY <2>2
<1> HIDE DEF head, rest
<1>3. DOMAIN head = 1 .. n /\ DOMAIN rest = 1 .. Len(s) - n /\ DOMAIN s = 1 .. Len(s)
  BY <1>1, <1>2
<1>4. Writer!Elements(head) \subseteq Writer!Elements(s)
  BY <1>1, <1>3 DEF Writer!Elements
<1>5. Writer!Elements(rest) \subseteq Writer!Elements(s)
  <2>1. \A i \in DOMAIN rest : n + i \in DOMAIN s /\ rest[i] = s[n + i]
    BY <1>2, <1>3
  <2> QED
    BY <2>1 DEF Writer!Elements
<1>6. Writer!Elements(s) \subseteq Writer!Elements(head) \cup Writer!Elements(rest)
  <2> SUFFICES ASSUME NEW i \in DOMAIN s
               PROVE  s[i] \in Writer!Elements(head) \cup Writer!Elements(rest)
    BY DEF Writer!Elements
  <2>1. CASE i <= n
    BY <1>1, <1>3, <2>1 DEF Writer!Elements
  <2>2. CASE i > n
    <3>1. i - n \in DOMAIN rest /\ rest[i - n] = s[n + (i - n)]
      BY <1>2, <1>3, <2>2
    <3>2. s[n + (i - n)] = s[i]
      BY <1>3
    <3> QED
      BY <3>1, <3>2 DEF Writer!Elements
  <2> QED
    BY <1>3, <2>1, <2>2
<1>7. Writer!Elements(head) \cap Writer!Elements(rest) = {}
  <2> SUFFICES ASSUME NEW i \in DOMAIN head, NEW j \in DOMAIN rest, head[i] = rest[j]
               PROVE  FALSE
    BY DEF Writer!Elements
  <2>1. s[i] = s[n + j] /\ i \in DOMAIN s /\ n + j \in DOMAIN s /\ i # n + j
    BY <1>1, <1>2, <1>3
  <2> QED
    BY <2>1
<1>8. ASSUME NEW i \in DOMAIN rest, NEW j \in DOMAIN rest, rest[i] = rest[j]
      PROVE  i = j
  <2>1. s[n + i] = s[n + j] /\ n + i \in DOMAIN s /\ n + j \in DOMAIN s
    BY <1>2, <1>3, <1>8
  <2>2. n + i = n + j
    BY <2>1
  <2> QED
    BY <1>3, <2>2
<1>9. head # <<>> /\ Len(rest) <= Len(s)
  BY <1>1, <1>2, EmptySeq
<1> QED
  BY <1>1, <1>2, <1>4, <1>5, <1>6, <1>7, <1>8, <1>9 DEF head, rest

\* What is counted once a write is through can be counted.
FiniteBatches == \A w \in writes : IsFiniteSet(w.batch)

WriterTypesHold == Writer!TypeOK /\ FiniteBatches

\* The types of the writer, which its counters need finite batches for.
THEOREM WriterTypes == Writer!Spec => []WriterTypesHold
<1>1. Writer!Init => WriterTypesHold
  <2> SUFFICES ASSUME Writer!Init PROVE WriterTypesHold
    OBVIOUS
  <2>1. queue \in Seq(DbRow) /\ Len(queue) <= DbQueueMax
    BY WriterAssumption DEF Writer!Init
  <2>2. {offered, tracked, db, past, pruned, lost} \subseteq SUBSET DbRow
    BY DEF Writer!Init
  <2>3. {written, errors, dropped} \subseteq Nat
    BY DEF Writer!Init
  <2> QED
    BY <2>1, <2>2, <2>3 DEF Writer!Init, WriterTypesHold, Writer!TypeOK, FiniteBatches
<1>2. WriterTypesHold /\ [Writer!Next]_(Writer!vars) => WriterTypesHold'
  <2> SUFFICES ASSUME WriterTypesHold, [Writer!Next]_(Writer!vars)
               PROVE  WriterTypesHold'
    OBVIOUS
  <2> USE DEF WriterTypesHold, Writer!TypeOK, FiniteBatches, Writer!counters, Writer!table
  <2>1. CASE UNCHANGED Writer!vars
    BY <2>1 DEF Writer!vars
  <2>2. CASE Writer!StartWriter
    BY <2>2 DEF Writer!StartWriter
  <2>3. CASE Writer!TakeBatch
    <3>1. Writer!Least(Len(queue), BatchSize) \in 1 .. Len(queue)
      BY <2>3, WriterAssumption, EmptySeq DEF Writer!TakeBatch, Writer!Least
    <3> DEFINE n == Writer!Least(Len(queue), BatchSize)
    <3>2. SubSeq(queue, 1, n) \in Seq(DbRow)
      <4>1. \A i \in 1 .. n : queue[i] \in DbRow
        BY <3>1
      <4> QED
        BY <3>1, <4>1, SubSeqProperties
    <3>3. SubSeq(queue, n + 1, Len(queue)) \in Seq(DbRow)
          /\ Len(SubSeq(queue, n + 1, Len(queue))) <= DbQueueMax
      <4>1. \A i \in (n + 1) .. Len(queue) : queue[i] \in DbRow
        BY <3>1
      <4>2. /\ SubSeq(queue, n + 1, Len(queue)) \in Seq(DbRow)
            /\ Len(SubSeq(queue, n + 1, Len(queue)))
                 = IF n + 1 <= Len(queue) THEN Len(queue) - (n + 1) + 1 ELSE 0
        BY <3>1, <4>1, SubSeqProperties
      <4> QED
        BY <3>1, <4>2, WriterAssumption
    <3>4. Writer!Elements(SubSeq(queue, 1, n)) \in SUBSET DbRow
          /\ IsFiniteSet(Writer!Elements(SubSeq(queue, 1, n)))
      BY <3>2, ElementsOfQueue
    <3>5. writes' \subseteq Writer!Write /\ FiniteBatches' /\ tracked' \in SUBSET DbRow
      BY <2>3, <3>4 DEF Writer!TakeBatch, Writer!Write, Writer!Outcome
    <3> QED
      BY <2>3, <3>3, <3>5 DEF Writer!TakeBatch
  <2>4. CASE Writer!Unhook
    BY <2>4 DEF Writer!Unhook
  <2>5. CASE Writer!StopWriter
    BY <2>5 DEF Writer!StopWriter, Writer!Awaited
  <2>6. CASE Writer!DrainTimeout
    BY <2>6 DEF Writer!DrainTimeout
  <2>7. CASE Writer!Flush
    <3>1. Writer!Elements(queue) \in SUBSET DbRow /\ IsFiniteSet(Writer!Elements(queue))
      BY ElementsOfQueue
    <3>2. /\ writes' \subseteq Writer!Write
          /\ FiniteBatches'
          /\ queue' \in Seq(DbRow)
          /\ Len(queue') <= DbQueueMax
      BY <2>7, <3>1, WriterAssumption DEF Writer!Flush, Writer!Write, Writer!Outcome
    <3> QED
      BY <2>7, <3>2 DEF Writer!Flush
  <2>8. ASSUME NEW r \in DbRow, Writer!EnqueueRow(r)
        PROVE  WriterTypesHold'
    <3>1. queue' \in Seq(DbRow) /\ Len(queue') <= DbQueueMax
      <4>1. CASE Len(queue) < DbQueueMax /\ queue' = Append(queue, r)
        <5>1. queue' \in Seq(DbRow) /\ Len(queue') = Len(queue) + 1
          BY <4>1
        <5>2. Len(queue) \in Nat /\ DbQueueMax \in Nat
          BY WriterAssumption
        <5> QED
          BY <4>1, <5>1, <5>2
      <4> QED
        BY <2>8, <4>1 DEF Writer!EnqueueRow
    <3> QED
      BY <2>8, <3>1 DEF Writer!EnqueueRow
  <2>9. ASSUME NEW r \in DbRow, Writer!RowPasses(r)
        PROVE  WriterTypesHold'
    BY <2>9 DEF Writer!RowPasses
  <2>10. ASSUME NEW w \in writes, Writer!SinkEnds(w)
         PROVE  WriterTypesHold'
    <3>1. w.batch \in SUBSET DbRow
          /\ \A t \in Writer!Outcome : /\ [w EXCEPT !.thread = t] \in Writer!Write
                             /\ [w EXCEPT !.thread = t].batch = w.batch
      BY DEF Writer!Write
    <3>2. writes' \subseteq Writer!Write /\ FiniteBatches'
      BY <2>10, <3>1 DEF Writer!SinkEnds, Writer!Outcome
    <3> QED
      BY <2>10, <3>1, <3>2 DEF Writer!SinkEnds
  <2>11. ASSUME NEW w \in writes, Writer!WriteEnds(w)
         PROVE  WriterTypesHold'
    BY <2>11, FS_CardinalityType, WriterCounts DEF Writer!WriteEnds
  <2>12. CASE Writer!SweepStarts
    BY <2>12 DEF Writer!SweepStarts
  <2>13. CASE Writer!SweepDeletes
    BY <2>13 DEF Writer!SweepDeletes
  <2> QED
    BY <2>1, <2>2, <2>3, <2>4, <2>5, <2>6, <2>7, <2>8, <2>9, <2>10, <2>11, <2>12, <2>13
       DEF Writer!Next
<1> QED
  BY <1>1, <1>2, PTL DEF Writer!Spec
\* The rows of the writes whose thread has got that far.
Batches(W, got) == UNION {w.batch : w \in {v \in W : v.thread = got}}

\* No row is at two places at once: a row written twice would be counted twice.
NoRowTwice ==
    /\ \A m, n \in DOMAIN queue : queue[m] = queue[n] => m = n
    /\ Writer!Elements(queue) \cap (Batches(writes, "running") \cup db \cup pruned) = {}
    /\ Batches(writes, "running") \cap (db \cup pruned) = {}

\* Every row that was offered waits, is being written, was written or was given up.
NoRowForgotten ==
    offered = Writer!Elements(queue) \cup Batches(writes, "running") \cup db \cup pruned \cup lost

\* What the counter lacks is what a committed batch has still to add to it.
Counted ==
    /\ past \subseteq db
    /\ Batches(writes, "committed") \subseteq db \cup pruned
    /\ IsFiniteSet(offered)
    /\ written + Cardinality(Batches(writes, "committed")) = Cardinality(db \cup pruned)

\* The loop waits for its write, so a writer has at most one on the way.
OneWrite(batch) == batch # {} /\ \E w \in writes : writes = {w} /\ w.batch = batch

\* How far stop has come says what is on the way.
StopStage ==
    /\ stop # "no" => ~hooked /\ loop = "none"
    /\ stop \in {"flush", "done"} \/ (stop = "no" /\ loop # "write") =>
         writes = {} /\ tracked = {}
    /\ stop = "drain" \/ (stop = "no" /\ loop = "write") => OneWrite(tracked)
    /\ stop = "flushing" => tracked = {} /\ \E batch \in SUBSET DbRow : OneWrite(batch)
    /\ stop \in {"flushing", "done"} => queue = <<>>

\* Once stop has given up on a batch, all of this is open.
WriterInv == timedOut \/ (NoRowTwice /\ NoRowForgotten /\ Counted /\ StopStage)

\* With no write, and with one.
LEMMA BatchesOf ==
    /\ Writer!Elements(<<>>) = {}
    /\ \A t : Batches({}, t) = {}
    /\ \A w, t : w.thread = t => Batches({w}, t) = w.batch
    /\ \A w, t : w.thread # t => Batches({w}, t) = {}
BY DEF Batches, Writer!Elements

\* The writer by itself: of any rows, queue and batch sizes.
THEOREM WriterComplete == Writer!Spec => []Writer!StoppedIsComplete
<1>1. Writer!Init => WriterInv
  <2> SUFFICES ASSUME Writer!Init
               PROVE  NoRowTwice /\ NoRowForgotten /\ Counted /\ StopStage
    BY DEF WriterInv
  <2>1. /\ Writer!Elements(queue) = {} /\ Batches(writes, "running") = {}
        /\ Batches(writes, "committed") = {}
    BY BatchesOf DEF Writer!Init
  <2>2. Counted
    BY <2>1, FS_EmptySet DEF Writer!Init, Counted
  <2> QED
    BY <2>1, <2>2 DEF Writer!Init, NoRowTwice, NoRowForgotten, StopStage
<1>2. WriterTypesHold /\ WriterInv => Writer!StoppedIsComplete
  <2> SUFFICES ASSUME WriterTypesHold, NoRowForgotten, Counted, StopStage, stop = "done"
               PROVE  /\ offered = db \cup pruned \cup lost
                      /\ writes = {} /\ queue = <<>>
                      /\ written = Cardinality(db \cup pruned)
    BY WriterCounts DEF WriterInv, Writer!StoppedIsComplete
  <2>1. writes = {} /\ queue = <<>>
    BY DEF StopStage
  <2>2. /\ Writer!Elements(queue) = {} /\ Batches(writes, "running") = {}
        /\ Batches(writes, "committed") = {}
    BY <2>1, BatchesOf
  <2>3. written = Cardinality(db \cup pruned)
    <3>1. written \in Nat /\ Cardinality(Batches(writes, "committed")) = 0
      BY <2>2, FS_EmptySet DEF WriterTypesHold, Writer!TypeOK
    <3> QED
      BY <3>1 DEF Counted
  <2> QED
    BY <2>1, <2>2, <2>3 DEF NoRowForgotten
<1>3. WriterTypesHold /\ WriterInv /\ [Writer!Next]_(Writer!vars) => WriterInv'
  <2> SUFFICES ASSUME WriterTypesHold, WriterInv, [Writer!Next]_(Writer!vars), ~timedOut'
               PROVE  (NoRowTwice /\ NoRowForgotten /\ Counted /\ StopStage)'
    BY DEF WriterInv
  <2> USE DEF Writer!counters, Writer!table
  <2>1. ~timedOut
    BY DEF Writer!vars, Writer!Next, Writer!StartWriter, Writer!TakeBatch, Writer!Unhook,
       Writer!StopWriter, Writer!DrainTimeout, Writer!Flush,
       Writer!EnqueueRow, Writer!RowPasses, Writer!SinkEnds, Writer!WriteEnds, Writer!SweepStarts,
       Writer!SweepDeletes
  <2>2. NoRowTwice /\ NoRowForgotten /\ Counted /\ StopStage
    BY <2>1 DEF WriterInv
  <2>3. writes = {} \/ \E w \in Writer!Write : writes = {w} /\ w.batch # {}
    BY <2>2 DEF StopStage, OneWrite, WriterTypesHold, Writer!TypeOK
  <2> USE DEF NoRowTwice, NoRowForgotten, Counted, StopStage, OneWrite
  <2>4. CASE UNCHANGED <<queue, writes, db, pruned, lost, past, offered, written>> /\ StopStage'
    BY <2>2, <2>4
  <2>5. CASE UNCHANGED Writer!vars
    BY <2>2, <2>4, <2>5 DEF Writer!vars
  <2>6. CASE Writer!StartWriter
    BY <2>2, <2>4, <2>6 DEF Writer!StartWriter
  <2>7. CASE Writer!Unhook
    BY <2>2, <2>4, <2>7 DEF Writer!Unhook
  <2>8. CASE Writer!StopWriter
    <3>1. StopStage'
      BY <2>2, <2>8 DEF Writer!StopWriter, Writer!Awaited, Writer!MayStop, WriterTypesHold,
         Writer!TypeOK
    <3> QED
      BY <2>2, <2>4, <2>8, <3>1 DEF Writer!StopWriter
  <2>9. CASE Writer!DrainTimeout
    BY <2>9 DEF Writer!DrainTimeout
  <2>10. CASE Writer!TakeBatch
    <3> DEFINE n == Writer!Least(Len(queue), BatchSize)
               batch == Writer!Elements(SubSeq(queue, 1, n))
               rest == SubSeq(queue, n + 1, Len(queue))
    <3>1. n \in 1 .. Len(queue)
      BY <2>10, WriterAssumption, EmptySeq DEF Writer!TakeBatch, Writer!Least, WriterTypesHold,
         Writer!TypeOK
    <3>2. queue \in Seq(DbRow) /\ \A i, j \in DOMAIN queue : queue[i] = queue[j] => i = j
      BY <2>2 DEF WriterTypesHold, Writer!TypeOK
    <3>3. /\ batch # {}
          /\ Writer!Elements(queue) = batch \cup Writer!Elements(rest)
          /\ batch \cap Writer!Elements(rest) = {}
          /\ \A i, j \in DOMAIN rest : rest[i] = rest[j] => i = j
      <4>1. /\ SubSeq(queue, 1, n) \in Seq(DbRow) /\ SubSeq(queue, 1, n) # <<>>
            /\ Writer!Elements(queue) = batch \cup Writer!Elements(rest)
            /\ batch \cap Writer!Elements(rest) = {}
            /\ \A i, j \in DOMAIN rest : rest[i] = rest[j] => i = j
        <5> HIDE DEF n
        <5> QED
          BY <3>1, <3>2, QueueSplits
      <4>2. batch # {}
        <5> HIDE DEF n
        <5> QED
          BY <4>1, ElementsOfQueue
      <4> QED
        BY <4>1, <4>2
    <3>4. stop = "no" /\ loop = "get" /\ writes = {}
      BY <2>2, <2>10 DEF Writer!TakeBatch, WriterTypesHold, Writer!TypeOK
    <3> DEFINE w == [batch |-> batch, thread |-> "running"]
    <3>5. /\ queue' = rest /\ writes' = {w} /\ tracked' = batch
          /\ loop' = "write"
          /\ UNCHANGED <<hooked, offered, stop, timedOut, Writer!table, Writer!counters,
                                           dropped, lost>>
      BY <2>10, <3>4 DEF Writer!TakeBatch
    <3>6. w.batch = batch /\ w.thread = "running"
      OBVIOUS
    <3> HIDE DEF n, batch, rest, w
    <3>7. /\ Batches(writes', "running") = batch /\ Batches(writes', "committed") = {}
          /\ Batches(writes, "running") = {} /\ Batches(writes, "committed") = {}
      BY <3>4, <3>5, <3>6, BatchesOf
    <3>8. (NoRowTwice /\ NoRowForgotten)'
      BY <2>2, <3>3, <3>5, <3>7
    <3>9. Counted'
      BY <2>2, <3>5, <3>7
    <3>10. StopStage'
      BY <2>2, <3>3, <3>4, <3>5, <3>6
    <3> QED
      BY <3>8, <3>9, <3>10
  <2>11. CASE Writer!Flush
    <3>1. writes = {} /\ tracked = {} /\ ~hooked /\ loop = "none"
      BY <2>2, <2>11 DEF Writer!Flush
    <3> DEFINE batch == Writer!Elements(queue)
               w == [batch |-> batch, thread |-> "running"]
    <3>2. w.batch = batch /\ w.thread = "running" /\ batch \in SUBSET DbRow
      BY ElementsOfQueue DEF WriterTypesHold, Writer!TypeOK
    <3>3. /\ queue' = <<>> /\ writes' = IF batch = {} THEN {} ELSE {w}
          /\ stop' = IF batch = {} THEN "done" ELSE "flushing"
          /\ UNCHANGED <<hooked, offered, loop, tracked, timedOut, Writer!table, Writer!counters,
                         dropped, lost>>
      BY <2>11, <3>1 DEF Writer!Flush
    <3> HIDE DEF batch, w
    <3>4. /\ Batches(writes', "running") = batch /\ Batches(writes', "committed") = {}
          /\ Batches(writes, "running") = {} /\ Batches(writes, "committed") = {}
          /\ Writer!Elements(queue') = {} /\ DOMAIN queue' = {}
      <4>1. Writer!Elements(queue') = {} /\ DOMAIN queue' = {}
        BY <3>3, BatchesOf
      <4>2. Batches(writes, "running") = {} /\ Batches(writes, "committed") = {}
        BY <3>1, BatchesOf
      <4>3. CASE batch = {}
        BY <3>3, <4>1, <4>2, <4>3, BatchesOf
      <4>4. CASE batch # {}
        BY <3>2, <3>3, <4>1, <4>2, <4>4, BatchesOf
      <4> QED
        BY <4>3, <4>4
    <3>5. (NoRowTwice /\ NoRowForgotten)'
      BY <2>2, <3>3, <3>4 DEF batch
    <3>6. Counted'
      BY <2>2, <3>3, <3>4
    <3>7. StopStage'
      <4>1. CASE batch = {}
        BY <3>1, <3>3, <4>1
      <4>2. CASE batch # {}
        BY <3>1, <3>2, <3>3, <4>2
      <4> QED
        BY <4>1, <4>2
    <3> QED
      BY <3>5, <3>6, <3>7
  <2>12. ASSUME NEW r \in DbRow, Writer!EnqueueRow(r)
         PROVE  (NoRowTwice /\ NoRowForgotten /\ Counted /\ StopStage)'
    <3>1. /\ hooked /\ r \notin offered /\ offered' = offered \cup {r}
          /\ UNCHANGED <<hooked, loop, writes, tracked, stop, timedOut, Writer!table,
                         Writer!counters>>
          /\ \/ queue' = Append(queue, r) /\ UNCHANGED lost
             \/ lost' = lost \cup {r} /\ UNCHANGED queue
      BY <2>12 DEF Writer!EnqueueRow
    <3>2. IsFiniteSet(offered')
      BY <2>2, <3>1, FS_AddElement
    <3>3. Counted'
      BY <2>2, <3>1, <3>2
    <3>4. StopStage'
      BY <2>2, <3>1
    <3>5. (NoRowTwice /\ NoRowForgotten)'
      <4>1. CASE queue' = Append(queue, r) /\ UNCHANGED lost
        <5>1. Writer!Elements(queue') = Writer!Elements(queue) \cup {r}
          BY <4>1, ElementsOfQueue DEF WriterTypesHold, Writer!TypeOK
        <5>2. \A m, n \in DOMAIN queue' : queue'[m] = queue'[n] => m = n
          <6>1. r \notin Writer!Elements(queue)
            BY <2>2, <3>1
          <6>2. /\ DOMAIN queue' = DOMAIN queue \cup {Len(queue) + 1}
                /\ queue'[Len(queue) + 1] = r
                /\ \A m \in DOMAIN queue : queue'[m] = queue[m]
            BY <4>1 DEF WriterTypesHold, Writer!TypeOK
          <6> QED
            BY <2>2, <6>1, <6>2 DEF Writer!Elements
        <5> QED
          BY <2>2, <3>1, <4>1, <5>1, <5>2
      <4>2. CASE lost' = lost \cup {r} /\ UNCHANGED queue
        BY <2>2, <3>1, <4>2
      <4> QED
        BY <3>1, <4>1, <4>2
    <3> QED
      BY <3>3, <3>4, <3>5
  <2>13. ASSUME NEW r \in DbRow, Writer!RowPasses(r)
         PROVE  (NoRowTwice /\ NoRowForgotten /\ Counted /\ StopStage)'
    BY <2>2, <2>13 DEF Writer!RowPasses
  <2>14. ASSUME NEW w \in writes, Writer!SinkEnds(w)
         PROVE  (NoRowTwice /\ NoRowForgotten /\ Counted /\ StopStage)'
    <3>1. writes = {w} /\ w.thread = "running" /\ w.batch \in SUBSET DbRow /\ w \in Writer!Write
      BY <2>2, <2>3, <2>14 DEF Writer!SinkEnds, WriterTypesHold, Writer!TypeOK, Writer!Write
    <3>2. PICK outcome \in {"committed", "failed"} :
                      /\ writes' = {[w EXCEPT !.thread = outcome]}
                      /\ IF outcome = "committed" THEN db' = db \cup w.batch /\ UNCHANGED lost
                         ELSE lost' = lost \cup w.batch /\ UNCHANGED db
                      /\ UNCHANGED <<hooked, offered, queue, loop, tracked, stop, timedOut, past,
                                     pruned, sweep, Writer!counters, dropped>>
      BY <2>14, <3>1 DEF Writer!SinkEnds
    <3> DEFINE v == [w EXCEPT !.thread = outcome]
    <3>3. v.batch = w.batch /\ v.thread = outcome
      BY <3>1 DEF Writer!Write
    <3> HIDE DEF v
    <3>4. writes' = {v}
      BY <3>2 DEF v
    <3>5. /\ Batches(writes, "running") = w.batch /\ Batches(writes, "committed") = {}
          /\ Batches(writes', "running") = {}
          /\ Batches(writes', "committed") = IF outcome = "committed" THEN w.batch ELSE {}
      BY <3>1, <3>3, <3>4, BatchesOf
    <3>6. (NoRowTwice /\ NoRowForgotten)'
      <4>1. CASE outcome = "committed"
        <5>1. db' = db \cup w.batch /\ UNCHANGED <<queue, pruned, lost, offered>>
          BY <3>2, <4>1
        <5>2. Batches(writes', "running") = {} /\ Batches(writes, "running") = w.batch
          BY <3>5
        <5>3. NoRowTwice'
          BY <2>2, <5>1, <5>2
        <5>4. NoRowForgotten'
          BY <2>2, <5>1, <5>2
        <5> QED
          BY <5>3, <5>4
      <4>2. CASE outcome = "failed"
        BY <2>2, <3>2, <3>5, <4>2
      <4> QED
        BY <4>1, <4>2
    <3>7. StopStage'
      BY <2>2, <3>1, <3>2, <3>3, <3>4
    <3>8. Counted'
      <4>1. CASE outcome = "committed"
        <5>1. IsFiniteSet(db \cup pruned) /\ IsFiniteSet(w.batch)
          BY <2>2, <3>5, FS_Subset
        <5>2. Cardinality((db \cup pruned) \cup w.batch)
                = Cardinality(db \cup pruned) + Cardinality(w.batch)
                    - Cardinality((db \cup pruned) \cap w.batch)
          BY <5>1, FS_Union
        <5>3. (db \cup pruned) \cap w.batch = {}
          BY <2>2, <3>5
        <5>7. Cardinality({}) = 0 /\ Cardinality((db \cup pruned) \cap w.batch) = 0
          BY <5>3, FS_EmptySet
        <5>4. /\ Cardinality(db \cup pruned) \in Nat /\ Cardinality(w.batch) \in Nat
              /\ written \in Nat
          BY <5>1, FS_CardinalityType DEF WriterTypesHold, Writer!TypeOK
        <5>5. written + Cardinality({}) = Cardinality(db \cup pruned)
          BY <2>2, <3>5
        <5>6. Cardinality((db \cup pruned) \cup w.batch) = written + Cardinality(w.batch)
          BY <5>2, <5>4, <5>5, <5>7
        <5>8. db' \cup pruned' = (db \cup pruned) \cup w.batch
          BY <3>2, <4>1
        <5> QED
          BY <2>2, <3>2, <3>5, <4>1, <5>6, <5>8
      <4>2. CASE outcome = "failed"
        BY <2>2, <3>2, <3>5, <4>2
      <4> QED
        BY <4>1, <4>2
    <3> QED
      BY <3>6, <3>7, <3>8
  <2>15. ASSUME NEW w \in writes, Writer!WriteEnds(w)
         PROVE  (NoRowTwice /\ NoRowForgotten /\ Counted /\ StopStage)'
    <3>1. writes = {w} /\ w.thread \in {"committed", "failed"} /\ writes' = {}
      BY <2>2, <2>3, <2>15 DEF Writer!WriteEnds, WriterTypesHold, Writer!TypeOK, Writer!Write,
         Writer!Outcome
    <3>2. UNCHANGED <<hooked, offered, queue, timedOut, Writer!table, dropped, lost>>
      BY <2>15 DEF Writer!WriteEnds
    <3>3. /\ Batches(writes, "running") = {}
          /\ Batches(writes, "committed") = IF w.thread = "committed" THEN w.batch ELSE {}
          /\ Batches(writes', "running") = {} /\ Batches(writes', "committed") = {}
      BY <3>1, BatchesOf
    <3>4. (NoRowTwice /\ NoRowForgotten)'
      BY <2>2, <3>2, <3>3
    <3>5. Counted'
      <4>1. written' + Cardinality({}) = written + Cardinality(Batches(writes, "committed"))
        <5>1. written \in Nat /\ Cardinality(w.batch) \in Nat /\ Cardinality({}) = 0
          BY FS_CardinalityType, FS_EmptySet DEF WriterTypesHold, Writer!TypeOK, FiniteBatches
        <5>2. CASE w.thread = "committed"
          <6>1. written' = written + Cardinality(w.batch)
            BY <2>15, <5>2, WriterCounts DEF Writer!WriteEnds
          <6> QED
            BY <3>3, <5>1, <5>2, <6>1
        <5>3. CASE w.thread # "committed"
          <6>1. written' = written
            BY <2>15, <5>3 DEF Writer!WriteEnds
          <6> QED
            BY <3>3, <5>1, <5>3, <6>1
        <5> QED
          BY <5>2, <5>3
      <4> QED
        BY <2>2, <3>2, <3>3, <4>1
    <3>6. StopStage'
      <4>1. stop \in {"no", "drain", "flushing"} /\ (stop = "no" => loop = "write")
        BY <2>2, <3>1 DEF WriterTypesHold, Writer!TypeOK
      <4>2. CASE stop = "no"
        BY <2>2, <2>15, <3>1, <3>2, <4>1, <4>2 DEF Writer!WriteEnds
      <4>3. CASE stop = "drain"
        BY <2>2, <2>15, <3>1, <3>2, <4>3 DEF Writer!WriteEnds
      <4>4. CASE stop = "flushing"
        BY <2>2, <2>15, <3>1, <3>2, <4>4 DEF Writer!WriteEnds
      <4> QED
        BY <4>1, <4>2, <4>3, <4>4
    <3> QED
      BY <3>4, <3>5, <3>6
  <2>16. CASE Writer!SweepStarts
    BY <2>2, <2>16 DEF Writer!SweepStarts
  <2>17. CASE Writer!SweepDeletes
    <3>1. PICK gone \in SUBSET past :
                      db' = db \ gone /\ past' = past \ gone /\ pruned' = pruned \cup gone
      BY <2>17 DEF Writer!SweepDeletes
    <3>2. db' \cup pruned' = db \cup pruned
      BY <2>2, <3>1
    <3>3. UNCHANGED <<queue, writes, lost, offered, written, stop, hooked, loop, tracked>>
      BY <2>17 DEF Writer!SweepDeletes
    <3>4. (NoRowTwice /\ NoRowForgotten)'
      BY <2>2, <3>1, <3>2, <3>3
    <3>5. Counted'
      BY <2>2, <3>1, <3>2, <3>3
    <3>6. StopStage'
      BY <2>2, <3>3
    <3> QED
      BY <3>4, <3>5, <3>6
  <2> QED
    BY <2>5, <2>6, <2>7, <2>8, <2>9, <2>10, <2>11, <2>12, <2>13, <2>14, <2>15, <2>16, <2>17
       DEF Writer!Next
<1> QED
  BY <1>1, <1>2, <1>3, WriterTypes, PTL DEF Writer!Spec

---------------------------------------------------------------------------
(* The canvas (CanvasReload)                                               *)

\* The steps of a task.
TaskPcs == {"new", "waitStop", "stopping", "waitStart", "done"}

\* One task goes on; the others stay as they are.
LEMMA TaskGoes ==
    ASSUME NEW s \in Seq(Canvas!TaskRec), NEW t \in DOMAIN s, NEW at \in TaskPcs
    PROVE  LET u == [s EXCEPT ![t].pc = at]
           IN  /\ u \in Seq(Canvas!TaskRec) /\ DOMAIN u = DOMAIN s
               /\ u[t] \in Canvas!TaskRec
               /\ u[t].pc = at /\ u[t].kind = s[t].kind
               /\ u[t].old = s[t].old /\ u[t].new = s[t].new
               /\ \A v \in DOMAIN s \ {t} : u[v] = s[v]
<1> DEFINE u == [s EXCEPT ![t].pc = at]
<1>1. s[t] \in Canvas!TaskRec
  OBVIOUS
<1>2. /\ [s[t] EXCEPT !.pc = at] \in Canvas!TaskRec
      /\ [s[t] EXCEPT !.pc = at].pc = at /\ [s[t] EXCEPT !.pc = at].kind = s[t].kind
      /\ [s[t] EXCEPT !.pc = at].old = s[t].old /\ [s[t] EXCEPT !.pc = at].new = s[t].new
  BY <1>1 DEF Canvas!TaskRec, TaskPcs
<1>3. /\ DOMAIN u = DOMAIN s /\ u[t] = [s[t] EXCEPT !.pc = at]
      /\ \A v \in DOMAIN s \ {t} : u[v] = s[v]
  OBVIOUS
<1>4. u \in Seq(Canvas!TaskRec)
  BY <1>2
<1> QED
  BY <1>2, <1>3, <1>4

\* A queue of tasks stays one when a task is added.
LEMMA QueueGrows ==
    ASSUME NEW S, NEW T, S \subseteq T, NEW q \in Seq(S)
    PROVE  q \in Seq(T)
OBVIOUS

\* A swap leaves a canvas.
LEMMA SwappedTypes ==
    ASSUME Canvas!TypeOK, NEW t \in Canvas!Tasks, NEW node \in {"pipeline", "exit"},
           NEW ok \in BOOLEAN
    PROVE  /\ Canvas!Swapped(t, node, ok) \in Canvas!Template
           /\ Canvas!Breaks(t, node, ok) \subseteq {"pipeline", "exit"}
<1>1. saved[node] \in Value
  BY DEF Canvas!TypeOK, Canvas!Template
<1>2. [inUse EXCEPT ![node] = saved[node]] \in Canvas!Template
  BY <1>1 DEF Canvas!TypeOK, Canvas!Template
<1> QED
  BY <1>2 DEF Canvas!Swapped, Canvas!Breaks, Canvas!Built, Canvas!TypeOK

\* The types of the canvas and its tasks.
THEOREM CanvasTypes == Canvas!Spec => []Canvas!TypeOK
<1>1. Canvas!Init => Canvas!TypeOK
  BY CanvasAssumption DEF Canvas!Init, Canvas!TypeOK, Canvas!Template, Canvas!Tasks
<1>2. Canvas!TypeOK /\ [Canvas!Next]_(Canvas!vars) => Canvas!TypeOK'
  <2> SUFFICES ASSUME Canvas!TypeOK, [Canvas!Next]_(Canvas!vars)
               PROVE  Canvas!TypeOK'
    OBVIOUS
  <2> USE DEF Canvas!lock
  <2>1. CASE UNCHANGED Canvas!vars
    BY <2>1 DEF Canvas!vars, Canvas!TypeOK, Canvas!Tasks
  <2>2. ASSUME NEW kind \in Canvas!Kind, NEW old \in Canvas!Template, NEW new \in Canvas!Template,
               NEW carried \in Value, Canvas!NewTask(kind, old, new, carried)
        PROVE  /\ task' \in Seq(Canvas!TaskRec) /\ Canvas!Tasks \subseteq Canvas!Tasks'
               /\ waitQ \in Seq(Canvas!Tasks') /\ holder \in {Canvas!None} \cup Canvas!Tasks'
    <3> DEFINE e == [kind |-> kind, pc |-> "new", old |-> old, new |-> new,
                     carried |-> carried]
    <3>1. e \in Canvas!TaskRec
      BY DEF Canvas!TaskRec
    <3>2. task' = Append(task, e) /\ task \in Seq(Canvas!TaskRec)
      BY <2>2 DEF Canvas!NewTask, Canvas!TypeOK
    <3> HIDE DEF e
    <3>3. task' \in Seq(Canvas!TaskRec) /\ Len(task') = Len(task) + 1
      BY <3>1, <3>2
    <3>4. DOMAIN task \subseteq DOMAIN task'
      BY <3>2, <3>3
    <3>5. waitQ \in Seq(DOMAIN task')
      BY <3>4, QueueGrows DEF Canvas!TypeOK, Canvas!Tasks
    <3> QED
      BY <3>3, <3>4, <3>5 DEF Canvas!TypeOK, Canvas!Tasks
  <2>3. ASSUME NEW new \in Canvas!Template, Canvas!Save(new)
        PROVE  Canvas!TypeOK'
    <3>1. saved.market \in Value
      BY DEF Canvas!TypeOK, Canvas!Template
    <3>2. /\ task' \in Seq(Canvas!TaskRec)
          /\ waitQ \in Seq(Canvas!Tasks')
          /\ holder \in {Canvas!None} \cup Canvas!Tasks'
      BY <2>2, <2>3, <3>1 DEF Canvas!Save, Canvas!Kind, Canvas!TypeOK
    <3> QED
      BY <2>3, <3>2 DEF Canvas!Save, Canvas!Stored, Canvas!TypeOK
  <2>4. ASSUME NEW kind \in {"start", "stop"}, Canvas!ByHand(kind)
        PROVE  Canvas!TypeOK'
    <3>1. saved \in Canvas!Template
      BY DEF Canvas!TypeOK
    <3>2. /\ task' \in Seq(Canvas!TaskRec)
          /\ waitQ \in Seq(Canvas!Tasks')
          /\ holder \in {Canvas!None} \cup Canvas!Tasks'
      BY <2>2, <2>4, <3>1 DEF Canvas!ByHand, Canvas!Kind
    <3> QED
      BY <2>4, <3>2 DEF Canvas!ByHand, Canvas!TypeOK
  <2>5. ASSUME NEW t \in Canvas!Tasks, NEW at \in TaskPcs, Canvas!Goes(t, at)
        PROVE  task' \in Seq(Canvas!TaskRec) /\ Canvas!Tasks' = Canvas!Tasks
    BY <2>5, TaskGoes DEF Canvas!Goes, Canvas!TypeOK, Canvas!Tasks
  <2>6. ASSUME NEW t \in Canvas!Tasks
        PROVE  Append(waitQ, t) \in Seq(Canvas!Tasks)
    BY DEF Canvas!TypeOK
  <2>7. ASSUME waitQ # <<>>
        PROVE  Tail(waitQ) \in Seq(Canvas!Tasks) /\ Head(waitQ) \in Canvas!Tasks
    BY <2>7 DEF Canvas!TypeOK
  <2>8. ASSUME NEW t, Canvas!Reload(t)
        PROVE  Canvas!TypeOK'
    <3>1. t \in Canvas!Tasks /\ UNCHANGED <<saved, marketState>>
      BY <2>8 DEF Canvas!Reload
    <3>2. ASSUME NEW ok \in BOOLEAN, NEW exitOk \in BOOLEAN
          PROVE  /\ Canvas!Swapped(t, "pipeline", ok) \in Canvas!Template
                 /\ [Canvas!Swapped(t, "pipeline", ok) EXCEPT
                       !.exit = Canvas!Swapped(t, "exit", exitOk).exit] \in Canvas!Template
                 /\ Canvas!Breaks(t, "pipeline", ok) \subseteq {"pipeline", "exit"}
      <4>1. /\ Canvas!Swapped(t, "pipeline", ok) \in Canvas!Template
            /\ Canvas!Swapped(t, "exit", exitOk) \in Canvas!Template
        BY <3>1, SwappedTypes
      <4>2. Canvas!Breaks(t, "pipeline", ok) \subseteq {"pipeline", "exit"}
        BY <3>1, SwappedTypes
      <4> QED
        BY <4>1, <4>2 DEF Canvas!Template
    <3>3. inUse' \in Canvas!Template /\ broken' \subseteq {"pipeline", "exit"}
      BY <2>8, <3>2 DEF Canvas!Reload
    <3>4. task' \in Seq(Canvas!TaskRec) /\ Canvas!Tasks' = Canvas!Tasks
      <4>1. \E at \in TaskPcs : Canvas!Goes(t, at)
        BY <2>8 DEF Canvas!Reload, TaskPcs
      <4> QED
        BY <2>5, <3>1, <4>1
    <3>5. waitQ' \in Seq(Canvas!Tasks) /\ holder' \in {Canvas!None} \cup Canvas!Tasks
      BY <2>6, <2>8, <3>1 DEF Canvas!Reload, Canvas!TypeOK
    <3> QED
      BY <3>1, <3>3, <3>4, <3>5 DEF Canvas!TypeOK
  <2>9. ASSUME NEW t, Canvas!Asks(t)
        PROVE  Canvas!TypeOK'
    <3>1. t \in Canvas!Tasks /\ \E at \in TaskPcs : Canvas!Goes(t, at)
      BY <2>9 DEF Canvas!Asks, TaskPcs
    <3> QED
      BY <2>5, <2>6, <2>9, <3>1 DEF Canvas!Asks, Canvas!TypeOK
  <2>10. ASSUME NEW t, Canvas!GetsToStop(t)
         PROVE  Canvas!TypeOK'
    <3>1. t \in Canvas!Tasks /\ "stopping" \in TaskPcs
      BY <2>7, <2>10 DEF Canvas!GetsToStop, TaskPcs
    <3> QED
      BY <2>5, <2>7, <2>10, <3>1 DEF Canvas!GetsToStop, Canvas!TypeOK
  <2>11. ASSUME NEW t, Canvas!Stops(t)
         PROVE  Canvas!TypeOK'
    <3>1. t \in Canvas!Tasks /\ holder' = Canvas!None /\ UNCHANGED saved /\ saved.market \in Value
      BY <2>11 DEF Canvas!Stops, Canvas!TypeOK, Canvas!Template
    <3>2. task' \in Seq(Canvas!TaskRec) /\ Canvas!Tasks' = Canvas!Tasks
      <4>1. CASE \E at \in TaskPcs : Canvas!Goes(t, at)
        BY <2>5, <3>1, <4>1
      <4>2. CASE task' = [task EXCEPT ![t].pc = "waitStart", ![t].carried = saved.market]
        <5>1. task[t] \in Canvas!TaskRec /\ task \in Seq(Canvas!TaskRec) /\ t \in DOMAIN task
          BY <3>1 DEF Canvas!TypeOK, Canvas!Tasks
        <5> DEFINE e == [task[t] EXCEPT !.pc = "waitStart", !.carried = saved.market]
        <5>2. e \in Canvas!TaskRec
          BY <3>1, <5>1 DEF Canvas!TaskRec
        <5>3. task' = [task EXCEPT ![t] = e]
          BY <4>2
        <5> HIDE DEF e
        <5> QED
          BY <5>1, <5>2, <5>3 DEF Canvas!Tasks
      <4> QED
        BY <2>11, <4>1, <4>2 DEF Canvas!Stops, TaskPcs
    <3>3. waitQ' \in Seq(Canvas!Tasks)
      BY <2>6, <2>11, <3>1 DEF Canvas!Stops, Canvas!TypeOK
    <3>4. inUse' \in Canvas!Template /\ broken' \subseteq {"pipeline", "exit"}
      <4>1. ASSUME NEW ok \in BOOLEAN
            PROVE  /\ [Canvas!Swapped(t, "exit", ok) EXCEPT !.market = saved.market]
                        \in Canvas!Template
                   /\ Canvas!Breaks(t, "exit", ok) \subseteq {"pipeline", "exit"}
        BY <3>1, SwappedTypes DEF Canvas!Template
      <4> QED
        BY <2>11, <4>1 DEF Canvas!Stops, Canvas!TypeOK
    <3>5. marketState' \in {"stopped", "running", "error"}
      BY <2>11 DEF Canvas!Stops
    <3> QED
      BY <3>1, <3>2, <3>3, <3>4, <3>5 DEF Canvas!TypeOK
  <2>12. ASSUME NEW t, Canvas!GetsToStart(t)
         PROVE  Canvas!TypeOK'
    <3>1. t \in Canvas!Tasks /\ "done" \in TaskPcs /\ task[t].carried \in Value
      <4>1. t \in Canvas!Tasks /\ "done" \in TaskPcs
        BY <2>7, <2>12 DEF Canvas!GetsToStart, TaskPcs
      <4>2. task[t] \in Canvas!TaskRec
        BY <4>1 DEF Canvas!TypeOK, Canvas!Tasks
      <4> QED
        BY <4>1, <4>2 DEF Canvas!TaskRec
    <3>2. /\ task' \in Seq(Canvas!TaskRec)
          /\ Canvas!Tasks' = Canvas!Tasks
          /\ waitQ' \in Seq(Canvas!Tasks)
      BY <2>5, <2>7, <2>12, <3>1 DEF Canvas!GetsToStart
    <3>3. inUse' \in Canvas!Template /\ broken' \subseteq {"pipeline", "exit"}
      <4>1. ASSUME NEW use \in Canvas!Template
            PROVE  (IF marketState = "stopped"
                    THEN [use EXCEPT !.market = task[t].carried] ELSE use) \in Canvas!Template
        BY <3>1 DEF Canvas!Template
      <4>2. CASE task[t].kind = "reload"
        <5>1. PICK ok \in BOOLEAN :
                /\ inUse' = IF marketState = "stopped"
                            THEN [Canvas!Swapped(t, "exit", ok) EXCEPT !.market = task[t].carried]
                            ELSE Canvas!Swapped(t, "exit", ok)
                /\ broken' = Canvas!Breaks(t, "exit", ok)
          BY <2>12, <4>2 DEF Canvas!GetsToStart
        <5>2. /\ Canvas!Swapped(t, "exit", ok) \in Canvas!Template
              /\ Canvas!Breaks(t, "exit", ok) \subseteq {"pipeline", "exit"}
          BY <3>1, SwappedTypes
        <5> QED
          BY <4>1, <5>1, <5>2
      <4>3. CASE task[t].kind # "reload"
        <5>1. inUse' = (IF marketState = "stopped"
                        THEN [inUse EXCEPT !.market = task[t].carried] ELSE inUse)
              /\ broken' = broken
          BY <2>12, <4>3 DEF Canvas!GetsToStart
        <5> QED
          BY <4>1, <5>1 DEF Canvas!TypeOK
      <4> QED
        BY <4>2, <4>3
    <3> QED
      BY <2>12, <3>2, <3>3 DEF Canvas!GetsToStart, Canvas!TypeOK
  <2>13. CASE Canvas!PollTurns
    BY <2>13 DEF Canvas!PollTurns, Canvas!TypeOK, Canvas!Tasks
  <2> QED
    BY <2>1, <2>3, <2>4, <2>8, <2>9, <2>10, <2>11, <2>12, <2>13 DEF Canvas!Next
<1> QED
  BY <1>1, <1>2, PTL DEF Canvas!Spec

\* A reload that has still to swap a section.
Owes(t, node) ==
    /\ task[t].kind = "reload"
    /\ task[t].old[node] # task[t].new[node]
    /\ IF node = "pipeline" THEN task[t].pc = "new" ELSE task[t].pc # "done"

\* A section is the one on disk, or could not be built, or a reload owes its swap.
FollowedOrOwed(node) ==
    node \in broken \/ inUse[node] = saved[node] \/ \E t \in Canvas!Tasks : Owes(t, node)

CanvasInv == \A node \in {"pipeline", "exit"} : FollowedOrOwed(node)

\* A reload that swaps a section leaves it in use as it is saved, or broken.
LEMMA SwapFollows ==
    ASSUME Canvas!TypeOK, NEW t \in Canvas!Tasks, NEW node \in {"pipeline", "exit"},
           NEW ok \in BOOLEAN
    PROVE  /\ task[t].old[node] = task[t].new[node] =>
                /\ Canvas!Swapped(t, node, ok) = inUse /\ Canvas!Breaks(t, node, ok) = broken
           /\ task[t].old[node] # task[t].new[node] =>
                node \in Canvas!Breaks(t, node, ok)
                \/ Canvas!Swapped(t, node, ok)[node] = saved[node]
           /\ \A other \in {"pipeline", "exit"} \ {node} :
                /\ Canvas!Swapped(t, node, ok)[other] = inUse[other]
                /\ other \in broken => other \in Canvas!Breaks(t, node, ok)
BY DEF Canvas!Swapped, Canvas!Breaks, Canvas!Built, Canvas!TypeOK, Canvas!Template

\* The canvas by itself: of any configurations and any number of saves.
THEOREM CanvasFollowed == Canvas!Spec => []Canvas!SectionsFollowCanvas
<1>1. Canvas!Init => CanvasInv
  BY DEF Canvas!Init, CanvasInv, FollowedOrOwed
<1>2. CanvasInv => Canvas!SectionsFollowCanvas
  BY DEF CanvasInv, FollowedOrOwed, Owes, Canvas!SectionsFollowCanvas, Canvas!Quiet
<1>3. Canvas!TypeOK /\ CanvasInv /\ [Canvas!Next]_(Canvas!vars) => CanvasInv'
  <2> SUFFICES ASSUME Canvas!TypeOK, CanvasInv, [Canvas!Next]_(Canvas!vars),
                      NEW node \in {"pipeline", "exit"}
               PROVE  FollowedOrOwed(node)'
    BY DEF CanvasInv
  <2> USE DEF Canvas!lock
  <2>1. FollowedOrOwed(node)
    BY DEF CanvasInv
  <2>2. CASE UNCHANGED <<saved, inUse, task, broken>>
    BY <2>1, <2>2 DEF FollowedOrOwed, Owes, Canvas!Tasks
  <2>3. CASE UNCHANGED Canvas!vars
    BY <2>2, <2>3 DEF Canvas!vars
  <2>4. CASE Canvas!PollTurns
    BY <2>2, <2>4 DEF Canvas!PollTurns
  <2>5. ASSUME NEW e, task' = Append(task, e), UNCHANGED <<inUse, broken>>,
               \/ UNCHANGED saved
               \/ e.kind = "reload" /\ e.pc = "new" /\ e.old = saved /\ e.new = saved'
        PROVE  FollowedOrOwed(node)'
    <3>1. /\ Len(task) + 1 \in Canvas!Tasks' /\ task'[Len(task) + 1] = e
          /\ \A t \in Canvas!Tasks : t \in Canvas!Tasks' /\ task'[t] = task[t]
      BY <2>5 DEF Canvas!TypeOK, Canvas!Tasks
    <3>2. CASE \E t \in Canvas!Tasks : Owes(t, node)
      BY <3>1, <3>2 DEF FollowedOrOwed, Owes
    <3>3. CASE node \in broken
      BY <2>5, <3>3 DEF FollowedOrOwed
    <3>4. CASE inUse[node] = saved[node]
      BY <2>5, <3>1, <3>4 DEF FollowedOrOwed, Owes
    <3> QED
      BY <2>1, <3>2, <3>3, <3>4 DEF FollowedOrOwed
  <2>6. ASSUME NEW new \in Canvas!Template, Canvas!Save(new)
        PROVE  FollowedOrOwed(node)'
    BY <2>5, <2>6 DEF Canvas!Save, Canvas!NewTask, Canvas!Stored
  <2>7. ASSUME NEW kind \in {"start", "stop"}, Canvas!ByHand(kind)
        PROVE  FollowedOrOwed(node)'
    BY <2>5, <2>7 DEF Canvas!ByHand, Canvas!NewTask
  \* A task goes on that owes the section no more, or owes it still.
  <2>8. ASSUME NEW t \in Canvas!Tasks, UNCHANGED saved, Canvas!Tasks' = Canvas!Tasks,
               \A v \in Canvas!Tasks \ {t} : task'[v] = task[v],
               Owes(t, node) =>
                 Owes(t, node)' \/ node \in broken' \/ inUse'[node] = saved[node],
               inUse'[node] = inUse[node] \/ inUse'[node] = saved[node] \/ node \in broken',
               node \in broken => node \in broken' \/ inUse'[node] = saved[node]
        PROVE  FollowedOrOwed(node)'
    BY <2>1, <2>8 DEF FollowedOrOwed, Owes
  <2>9. ASSUME NEW t \in Canvas!Tasks, NEW at \in TaskPcs, Canvas!Goes(t, at)
        PROVE  /\ Canvas!Tasks' = Canvas!Tasks /\ \A v \in Canvas!Tasks \ {t} : task'[v] = task[v]
               /\ task'[t].pc = at /\ task'[t].kind = task[t].kind
               /\ task'[t].old = task[t].old /\ task'[t].new = task[t].new
    BY <2>9, TaskGoes DEF Canvas!Goes, Canvas!TypeOK, Canvas!Tasks
  <2>10. ASSUME NEW t \in Canvas!Tasks, NEW at \in TaskPcs, Canvas!Goes(t, at),
                task[t].kind # "reload" \/ (task[t].pc = "waitStop" /\ at = "stopping"),
                UNCHANGED saved, UNCHANGED broken, inUse'[node] = inUse[node]
         PROVE  FollowedOrOwed(node)'
    BY <2>8, <2>9, <2>10 DEF Owes
  <2>11. ASSUME NEW t, Canvas!Asks(t)
         PROVE  FollowedOrOwed(node)'
    <3>1. t \in Canvas!Tasks /\ task[t].kind # "reload" /\ UNCHANGED <<saved, inUse, broken>>
      BY <2>11 DEF Canvas!Asks
    <3>2. PICK at \in TaskPcs : Canvas!Goes(t, at)
      BY <2>11 DEF Canvas!Asks, TaskPcs
    <3>3. inUse'[node] = inUse[node] /\ saved' = saved /\ broken' = broken
      BY <3>1
    <3> QED
      BY <2>10, <3>1, <3>2, <3>3
  <2>12. ASSUME NEW t, Canvas!GetsToStop(t)
         PROVE  FollowedOrOwed(node)'
    BY <2>10, <2>12 DEF Canvas!GetsToStop, TaskPcs, Canvas!TypeOK
  <2>13. ASSUME NEW t, Canvas!Reload(t)
         PROVE  FollowedOrOwed(node)'
    <3>1. /\ t \in Canvas!Tasks /\ task[t].kind = "reload" /\ task[t].pc = "new"
          /\ UNCHANGED saved
      BY <2>13 DEF Canvas!Reload
    <3>2. CASE task[t].old.market # task[t].new.market /\ Canvas!Restarts
      <4>1. PICK ok \in BOOLEAN : /\ inUse' = Canvas!Swapped(t, "pipeline", ok)
                                  /\ broken' = Canvas!Breaks(t, "pipeline", ok)
        BY <2>13, <3>2 DEF Canvas!Reload
      <4>2. PICK at \in {"stopping", "waitStop"} : Canvas!Goes(t, at)
        BY <2>13, <3>2 DEF Canvas!Reload
      <4>3. /\ Canvas!Tasks' = Canvas!Tasks /\ \A v \in Canvas!Tasks \ {t} : task'[v] = task[v]
            /\ task'[t].pc = at /\ task'[t].kind = task[t].kind
            /\ task'[t].old = task[t].old /\ task'[t].new = task[t].new
        BY <2>9, <3>1, <4>2 DEF TaskPcs
      <4>4. CASE node = "pipeline"
        <5>1. /\ inUse'[node] = inUse[node] \/ inUse'[node] = saved[node] \/ node \in broken'
              /\ node \in broken => node \in broken' \/ inUse'[node] = saved[node]
              /\ task[t].old[node] # task[t].new[node] =>
                   node \in broken' \/ inUse'[node] = saved[node]
          BY <3>1, <4>1, <4>4, SwapFollows
        <5> QED
          BY <2>8, <3>1, <4>3, <4>4, <5>1 DEF Owes
      <4>5. CASE node = "exit"
        <5>1. inUse'[node] = inUse[node] /\ (node \in broken => node \in broken')
          BY <3>1, <4>1, <4>5, SwapFollows
        <5>2. Owes(t, node) => Owes(t, node)'
          BY <3>1, <4>3, <4>5 DEF Owes
        <5> QED
          BY <2>8, <3>1, <4>3, <5>1, <5>2
      <4> QED
        BY <4>4, <4>5
    <3>3. CASE ~(task[t].old.market # task[t].new.market /\ Canvas!Restarts)
      <4>1. PICK ok \in BOOLEAN, exitOk \in BOOLEAN :
                     /\ inUse' = [Canvas!Swapped(t, "pipeline", ok) EXCEPT
                             !.exit = Canvas!Swapped(t, "exit", exitOk).exit]
                     /\ broken' = (Canvas!Breaks(t, "pipeline", ok) \ {"exit"})
                             \cup (Canvas!Breaks(t, "exit", exitOk) \cap {"exit"})
        BY <2>13, <3>3 DEF Canvas!Reload
      <4>2. Canvas!Goes(t, "done") /\ "done" \in TaskPcs
        BY <2>13, <3>3 DEF Canvas!Reload, TaskPcs
      <4>3. Canvas!Tasks' = Canvas!Tasks /\ \A v \in Canvas!Tasks \ {t} : task'[v] = task[v]
        BY <2>9, <3>1, <4>2
      <4>4. Canvas!Swapped(t, "pipeline", ok) \in Canvas!Template
        BY <3>1, SwappedTypes
      <4>5. /\ inUse'.pipeline = Canvas!Swapped(t, "pipeline", ok).pipeline
            /\ inUse'.exit = Canvas!Swapped(t, "exit", exitOk).exit
        BY <4>1, <4>4 DEF Canvas!Template
      <4>6. CASE node = "pipeline"
        <5>1. /\ inUse'[node] = inUse[node] \/ inUse'[node] = saved[node] \/ node \in broken'
              /\ node \in broken => node \in broken' \/ inUse'[node] = saved[node]
              /\ task[t].old[node] # task[t].new[node] =>
                   node \in broken' \/ inUse'[node] = saved[node]
          BY <3>1, <4>1, <4>5, <4>6, SwapFollows
        <5> QED
          BY <2>8, <3>1, <4>3, <5>1 DEF Owes
      <4>7. CASE node = "exit"
        <5>1. /\ inUse'[node] = inUse[node] \/ inUse'[node] = saved[node] \/ node \in broken'
              /\ node \in broken => node \in broken' \/ inUse'[node] = saved[node]
              /\ task[t].old[node] # task[t].new[node] =>
                   node \in broken' \/ inUse'[node] = saved[node]
          BY <3>1, <4>1, <4>5, <4>7, SwapFollows
        <5> QED
          BY <2>8, <3>1, <4>3, <5>1 DEF Owes
      <4> QED
        BY <4>6, <4>7
    <3> QED
      BY <3>2, <3>3
  \* A reload or a start ends: the exit section is swapped, the pipeline is not.
  <2>14. ASSUME NEW t \in Canvas!Tasks, NEW ok \in BOOLEAN, Canvas!Goes(t, "done"),
                inUse'["pipeline"] = inUse["pipeline"],
                inUse'["exit"] = Canvas!Swapped(t, "exit", ok)["exit"],
                broken' = Canvas!Breaks(t, "exit", ok), UNCHANGED saved,
                task[t].pc # "new"
         PROVE  FollowedOrOwed(node)'
    <3>1. Canvas!Tasks' = Canvas!Tasks /\ \A v \in Canvas!Tasks \ {t} : task'[v] = task[v]
      BY <2>9, <2>14 DEF TaskPcs
    <3>2. CASE node = "pipeline"
      <4>1. node \in broken => node \in broken'
        BY <2>14, <3>2, SwapFollows
      <4>2. ~Owes(t, node)
        BY <2>14, <3>2 DEF Owes
      <4> QED
        BY <2>8, <2>14, <3>1, <3>2, <4>1, <4>2
    <3>3. CASE node = "exit"
      <4>1. /\ inUse'[node] = inUse[node] \/ inUse'[node] = saved[node] \/ node \in broken'
            /\ node \in broken => node \in broken' \/ inUse'[node] = saved[node]
            /\ task[t].old[node] # task[t].new[node] =>
                 node \in broken' \/ inUse'[node] = saved[node]
        BY <2>14, <3>3, SwapFollows
      <4> QED
        BY <2>8, <2>14, <3>1, <4>1 DEF Owes
    <3> QED
      BY <3>2, <3>3
  <2>15. ASSUME NEW t, Canvas!Stops(t)
         PROVE  FollowedOrOwed(node)'
    <3>1. t \in Canvas!Tasks /\ task[t].pc = "stopping" /\ UNCHANGED saved /\ "done" \in TaskPcs
      BY <2>15 DEF Canvas!Stops, TaskPcs
    <3>2. CASE task[t].kind = "stop"
      BY <2>10, <2>15, <3>1, <3>2 DEF Canvas!Stops
    <3>3. CASE task[t].kind # "stop" /\ waitQ = <<>>
      <4>1. PICK ok \in BOOLEAN :
                     /\ inUse' = [Canvas!Swapped(t, "exit", ok) EXCEPT !.market = saved.market]
                     /\ broken' = Canvas!Breaks(t, "exit", ok)
        BY <2>15, <3>3 DEF Canvas!Stops
      <4>2. Canvas!Swapped(t, "exit", ok) \in Canvas!Template
        BY <3>1, SwappedTypes
      <4>3. Canvas!Swapped(t, "exit", ok)["pipeline"] = inUse["pipeline"]
        BY <3>1, SwapFollows
      <4>4. /\ inUse'["pipeline"] = inUse["pipeline"]
            /\ inUse'["exit"] = Canvas!Swapped(t, "exit", ok)["exit"]
        BY <4>1, <4>2, <4>3 DEF Canvas!Template
      <4>5. Canvas!Goes(t, "done")
        BY <2>15, <3>3 DEF Canvas!Stops
      <4> QED
        BY <2>14, <3>1, <4>1, <4>4, <4>5
    <3>4. CASE task[t].kind # "stop" /\ waitQ # <<>>
      <4>1. /\ task' = [task EXCEPT ![t].pc = "waitStart", ![t].carried = saved.market]
            /\ UNCHANGED <<inUse, broken>>
        BY <2>15, <3>4 DEF Canvas!Stops
      <4>2. task[t] \in Canvas!TaskRec /\ t \in DOMAIN task /\ task \in Seq(Canvas!TaskRec)
        BY <3>1 DEF Canvas!TypeOK, Canvas!Tasks
      <4> DEFINE e == [task[t] EXCEPT !.pc = "waitStart", !.carried = saved.market]
      <4>3. /\ e.pc = "waitStart" /\ e.kind = task[t].kind
            /\ e.old = task[t].old /\ e.new = task[t].new
        BY <4>2 DEF Canvas!TaskRec
      <4>4. task' = [task EXCEPT ![t] = e]
        BY <4>1
      <4> HIDE DEF e
      <4>5. /\ Canvas!Tasks' = Canvas!Tasks
            /\ task'[t] = e
            /\ \A v \in Canvas!Tasks \ {t} : task'[v] = task[v]
        BY <4>2, <4>4 DEF Canvas!Tasks
      <4>6. Owes(t, node) => Owes(t, node)'
        BY <3>1, <4>3, <4>5 DEF Owes
      <4> QED
        BY <2>8, <3>1, <4>1, <4>5, <4>6
    <3> QED
      BY <3>2, <3>3, <3>4
  <2>16. ASSUME NEW t, Canvas!GetsToStart(t)
         PROVE  FollowedOrOwed(node)'
    <3>1. /\ t \in Canvas!Tasks
          /\ task[t].pc = "waitStart"
          /\ UNCHANGED saved
          /\ Canvas!Goes(t, "done")
          /\ "done" \in TaskPcs
      BY <2>16 DEF Canvas!GetsToStart, Canvas!TypeOK, TaskPcs
    <3> DEFINE started(use) == IF marketState = "stopped"
                               THEN [use EXCEPT !.market = task[t].carried] ELSE use
    <3>2. ASSUME NEW use \in Canvas!Template
          PROVE  started(use).pipeline = use.pipeline /\ started(use).exit = use.exit
      BY DEF Canvas!Template
    <3>3. CASE task[t].kind = "reload"
      <4>1. PICK ok \in BOOLEAN : /\ inUse' = started(Canvas!Swapped(t, "exit", ok))
                                  /\ broken' = Canvas!Breaks(t, "exit", ok)
        BY <2>16, <3>3 DEF Canvas!GetsToStart
      <4>2. Canvas!Swapped(t, "exit", ok) \in Canvas!Template
        BY <3>1, SwappedTypes
      <4>3. Canvas!Swapped(t, "exit", ok)["pipeline"] = inUse["pipeline"]
        BY <3>1, SwapFollows
      <4>4. /\ inUse'["pipeline"] = inUse["pipeline"]
            /\ inUse'["exit"] = Canvas!Swapped(t, "exit", ok)["exit"]
        BY <3>2, <4>1, <4>2, <4>3
      <4> QED
        BY <2>14, <3>1, <4>1, <4>4
    <3>4. CASE task[t].kind # "reload"
      <4>1. inUse' = started(inUse) /\ UNCHANGED broken
        BY <2>16, <3>4 DEF Canvas!GetsToStart
      <4>2. inUse'[node] = inUse[node]
        BY <3>2, <4>1 DEF Canvas!TypeOK
      <4> QED
        BY <2>10, <3>1, <3>4, <4>1, <4>2
    <3> QED
      BY <3>3, <3>4
  <2> QED
    BY <2>3, <2>4, <2>6, <2>7, <2>11, <2>12, <2>13, <2>15, <2>16 DEF Canvas!Next
<1> QED
  BY <1>1, <1>2, <1>3, CanvasTypes, PTL DEF Canvas!Spec

---------------------------------------------------------------------------
(* The exec mode (ModeSwitch)                                              *)

\* The records that stand for nothing, and what a request may be changed to.
LEMMA RequestRecords ==
    /\ Switch!Defaults \in Switch!State /\ Switch!NoRequest \in Switch!Request
    /\ \A m \in Switch!Mode :
         [Switch!NoRequest EXCEPT !.pc = "positions", !.to.mode = m] \in Switch!Request
    /\ \A w \in Wallet : [Switch!NoRequest EXCEPT !.pc = "find", !.field = "wallet",
                                                  !.to.wallet = w] \in Switch!Request
<1>1. Switch!Defaults \in Switch!State
  BY DEF Switch!Defaults, Switch!State, Switch!Mode
<1>2. Switch!NoRequest \in Switch!Request
  BY <1>1 DEF Switch!NoRequest, Switch!Request, Switch!Pc
<1>3. ASSUME NEW m \in Switch!Mode
      PROVE  [Switch!NoRequest EXCEPT !.pc = "positions", !.to.mode = m] \in Switch!Request
  BY <1>2 DEF Switch!Request, Switch!Pc, Switch!State
<1>4. ASSUME NEW w \in Wallet
      PROVE  [Switch!NoRequest EXCEPT !.pc = "find", !.field = "wallet", !.to.wallet = w]
               \in Switch!Request
  BY <1>2 DEF Switch!Request, Switch!Pc, Switch!State
<1> QED
  BY <1>1, <1>2, <1>3, <1>4

\* The types: whatever requests, boots and failing saves do, each variable is of
\* its kind (RuntimeState, its file, and the dispatcher's executor).
THEOREM SwitchTypes == Switch!Spec => []Switch!TypeOK
<1>1. Switch!Init => Switch!TypeOK
  BY RequestRecords DEF Switch!Init, Switch!TypeOK
<1>2. Switch!TypeOK /\ [Switch!Next]_(Switch!vars) => Switch!TypeOK'
  <2> SUFFICES ASSUME Switch!TypeOK, [Switch!Next]_(Switch!vars)
               PROVE  Switch!TypeOK'
    OBVIOUS
  <2>1. CASE UNCHANGED Switch!vars
    BY <2>1 DEF Switch!vars, Switch!TypeOK
  <2>2. CASE Switch!Boot
    <3>1. PICK readable, usable, saves, builds \in BOOLEAN :
            LET loaded == IF readable THEN disk ELSE Switch!Defaults
                now == Switch!Demoted(loaded, usable, saves)
                rewritten == now # loaded /\ saves
            IN  /\ mem' = now
                /\ disk' = IF rewritten THEN now ELSE disk
                /\ tmp' = IF rewritten THEN {} ELSE tmp
                /\ live' = IF builds THEN now.wallet ELSE Switch!None
                /\ restored' = (now.mode = "live")
                /\ vouched' = (now.mode = "live" /\ usable)
      BY <2>2 DEF Switch!Boot
    <3> DEFINE loaded == IF readable THEN disk ELSE Switch!Defaults
    <3>2. loaded \in Switch!State
      BY RequestRecords DEF Switch!TypeOK
    <3>3. Switch!Demoted(loaded, usable, saves) \in Switch!State
      BY <3>2 DEF Switch!Demoted, Switch!State, Switch!Mode
    <3>4. Switch!Demoted(loaded, usable, saves).wallet \in Wallet \cup {Switch!None}
      BY <3>3 DEF Switch!State
    <3>5. mem' \in Switch!State /\ disk' \in Switch!State /\ tmp' \subseteq Switch!State
          /\ live' \in Wallet \cup {Switch!None}
      BY <3>1, <3>3, <3>4 DEF Switch!TypeOK
    <3>6. {up', vouched', restored'} \subseteq BOOLEAN /\ req' = req
          /\ checked' = checked
      BY <2>2, <3>1 DEF Switch!Boot, Switch!TypeOK
    <3> QED
      BY <3>5, <3>6 DEF Switch!TypeOK
  <2>3. CASE Switch!Crash
    BY <2>3, RequestRecords DEF Switch!Crash, Switch!TypeOK
  <2>4. ASSUME NEW r \in Req
        PROVE  /\ \A target \in Switch!Mode : Switch!AsksMode(r, target) => Switch!TypeOK'
               /\ \A w \in Wallet : Switch!AsksWallet(r, w) => Switch!TypeOK'
               /\ Switch!Refused(r) => Switch!TypeOK'
    BY RequestRecords DEF Switch!AsksMode, Switch!AsksWallet, Switch!Refused, Switch!TypeOK,
       Switch!history
  \* What the other steps read of their request, and of the memory.
  <2>5. ASSUME NEW r \in Req
        PROVE  /\ req[r] \in Switch!Request /\ req[r].field \in {"mode", "wallet"}
               /\ req[r].from \in Switch!State /\ req[r].to \in Switch!State
               /\ req[r].payload \in Switch!State
               /\ req[r].from.wallet \in Wallet \cup {Switch!None}
    BY DEF Switch!TypeOK, Switch!Request, Switch!State
  <2>6. ASSUME NEW a \in Switch!State, NEW b \in Switch!State, NEW f \in {"mode", "wallet"}
        PROVE  [a EXCEPT ![f] = b[f]] \in Switch!State
    BY DEF Switch!State
  <2>7. mem \in Switch!State /\ Switch!Defaults \in Switch!State
    BY RequestRecords DEF Switch!TypeOK
  <2>8. ASSUME NEW r \in Req, Switch!PutsBack(r)
        PROVE  Switch!TypeOK'
    BY <2>5, <2>6, <2>7, <2>8, RequestRecords
       DEF Switch!PutsBack, Switch!TypeOK, Switch!history
  <2>9. ASSUME NEW r \in Req, Switch!ReadsPositions(r)
         PROVE  Switch!TypeOK'
    <3>1. CASE Switch!Refused(r)
      BY <2>4, <3>1
    <3>2. CASE ~Switch!Refused(r)
      <4> DEFINE at == IF req[r].to.mode = "live" THEN "preflight" ELSE "find"
                 w == IF req[r].to.mode = "live" THEN mem.wallet ELSE Switch!None
      <4>1. req' = [req EXCEPT ![r] = [req[r] EXCEPT !.pc = at, !.from.wallet = w]]
        BY <2>9, <3>2 DEF Switch!ReadsPositions
      <4>2. w \in Wallet \cup {Switch!None} /\ at \in Switch!Pc
        BY <2>7 DEF Switch!State, Switch!Pc
      <4> HIDE DEF at, w
      <4>3. [req[r].from EXCEPT !.wallet = w] \in Switch!State
        BY <2>5, <4>2 DEF Switch!Request, Switch!State
      <4>4. [req[r] EXCEPT !.pc = at, !.from.wallet = w] \in Switch!Request
        BY <2>5, <4>2, <4>3 DEF Switch!Request
      <4>5. req' \in [Req -> Switch!Request]
        BY <4>1, <4>4 DEF Switch!TypeOK
      <4> QED
        BY <2>9, <3>2, <4>5 DEF Switch!ReadsPositions, Switch!TypeOK, Switch!history
    <3> QED
      BY <3>1, <3>2
  <2>10. ASSUME NEW r \in Req, Switch!Preflights(r)
         PROVE  Switch!TypeOK'
    <3>1. CASE Switch!Refused(r)
      BY <2>4, <3>1
    <3>2. CASE ~Switch!Refused(r)
      <4>1. req' \in [Req -> Switch!Request]
        BY <2>10, <3>2 DEF Switch!Preflights, Switch!Goes, Switch!TypeOK, Switch!Request,
           Switch!Pc
      <4>2. live' \in Wallet /\ checked' \subseteq Wallet
        BY <2>5, <2>10, <3>2 DEF Switch!Preflights, Switch!TypeOK
      <4> QED
        BY <2>10, <3>2, <4>1, <4>2 DEF Switch!Preflights, Switch!TypeOK
    <3> QED
      BY <3>1, <3>2
  <2>11. ASSUME NEW r \in Req, Switch!Finds(r)
         PROVE  Switch!TypeOK'
    <3> DEFINE found == [Switch!Defaults EXCEPT ![req[r].field] = mem[req[r].field]]
    <3>1. found \in Switch!State
      BY <2>5, <2>6, <2>7
    <3>2. req' = [req EXCEPT ![r] = [req[r] EXCEPT !.pc = "change", !.from = found]]
      BY <2>11 DEF Switch!Finds
    <3> HIDE DEF found
    <3>3. [req[r] EXCEPT !.pc = "change", !.from = found] \in Switch!Request
      BY <2>5, <3>1 DEF Switch!Request, Switch!Pc
    <3>4. req' \in [Req -> Switch!Request]
      BY <3>2, <3>3 DEF Switch!TypeOK
    <3> QED
      BY <2>11, <3>4 DEF Switch!Finds, Switch!TypeOK, Switch!history
  <2>12. ASSUME NEW r \in Req, Switch!Changes(r)
         PROVE  Switch!TypeOK'
    <3>1. mem' \in Switch!State
      BY <2>5, <2>6, <2>7, <2>12 DEF Switch!Changes
    <3>2. req' = [req EXCEPT ![r] = [req[r] EXCEPT !.pc = "wallet", !.to = Switch!Defaults]]
      BY <2>12 DEF Switch!Changes
    <3>3. [req[r] EXCEPT !.pc = "wallet", !.to = Switch!Defaults] \in Switch!Request
      BY <2>5, <2>7 DEF Switch!Request, Switch!Pc
    <3>4. req' \in [Req -> Switch!Request]
      BY <3>2, <3>3 DEF Switch!TypeOK
    <3> QED
      BY <2>12, <3>1, <3>4 DEF Switch!Changes, Switch!TypeOK, Switch!history
  <2>13. ASSUME NEW r \in Req, NEW f \in {"mode", "wallet"}, NEW next \in Switch!Pc,
                Switch!ReadsMemory(r, f, next)
         PROVE  Switch!TypeOK'
    <3> DEFINE read == [req[r].payload EXCEPT ![f] = mem[f]]
    <3>1. read \in Switch!State
      BY <2>5, <2>6, <2>7
    <3>2. req' = [req EXCEPT ![r] = [req[r] EXCEPT !.pc = next, !.payload = read]]
      BY <2>13 DEF Switch!ReadsMemory
    <3> HIDE DEF read
    <3>3. [req[r] EXCEPT !.pc = next, !.payload = read] \in Switch!Request
      BY <2>5, <3>1 DEF Switch!Request
    <3>4. req' \in [Req -> Switch!Request]
      BY <3>2, <3>3 DEF Switch!TypeOK
    <3> QED
      BY <2>13, <3>4 DEF Switch!ReadsMemory, Switch!TypeOK, Switch!history
  <2>14. ASSUME NEW r \in Req, Switch!Writes(r)
         PROVE  Switch!TypeOK'
    <3>1. CASE Switch!PutsBack(r)
      BY <2>8, <3>1
    <3>2. CASE ~Switch!PutsBack(r)
      <4>1. req' \in [Req -> Switch!Request]
        BY <2>7, <2>14, <3>2 DEF Switch!Writes, Switch!TypeOK, Switch!Request, Switch!Pc
      <4>2. tmp' \subseteq Switch!State
        BY <2>5, <2>14, <3>2 DEF Switch!Writes
      <4> QED
        BY <2>14, <3>2, <4>1, <4>2 DEF Switch!Writes, Switch!TypeOK, Switch!history
    <3> QED
      BY <3>1, <3>2
  <2>15. ASSUME NEW r \in Req, Switch!Replaces(r)
         PROVE  Switch!TypeOK'
    BY <2>8, <2>15, RequestRecords DEF Switch!Replaces, Switch!TypeOK, Switch!history
  <2> QED
    BY <2>1, <2>2, <2>3, <2>4, <2>9, <2>10, <2>11, <2>12, <2>13, <2>14, <2>15
       DEF Switch!Next, Switch!Pc
<1> QED
  BY <1>1, <1>2, PTL DEF Switch!Spec

\* What must hold while live is in force.
Earned == vouched /\ (restored \/ live \in checked)

\* A request found the token usable before it goes on to live, has handed over an
\* executor of the wallet it checked before it changes the mode, and puts back only
\* what was in force.
RequestEarns(q) ==
    /\ q.to.mode = "live" => vouched
    /\ q.to.mode = "live" /\ q.pc \in {"find", "change"} => live \in checked
    /\ q.pc \in {"change", "wallet", "mode", "write", "replace"} /\ q.from.mode = "live" => Earned

EarnInv ==
    /\ Switch!LiveIsEarned
    /\ \A r \in Req : (~up => req[r] = Switch!NoRequest) /\ RequestEarns(req[r])

\* What one request does to itself, and while the rest stands still.
LEMMA OneRequest ==
    ASSUME Switch!TypeOK, EarnInv, up, NEW r \in Req, NEW q,
           req' = [req EXCEPT ![r] = q], UNCHANGED <<up, live, vouched, restored, checked>>,
           mem'.mode = "live" => mem.mode = "live" \/ Earned,
           RequestEarns(q)
    PROVE  EarnInv'
<1>1. /\ req'[r] = q /\ \A x \in Req \ {r} : req'[x] = req[x]
      /\ Earned' <=> Earned
  BY DEF Switch!TypeOK, Earned
<1>2. Switch!LiveIsEarned'
  BY DEF EarnInv, Switch!LiveIsEarned, Earned
<1>3. ASSUME NEW x \in Req
      PROVE  RequestEarns(req[x])'
  <2>1. RequestEarns(req'[x])
    BY <1>1 DEF EarnInv
  <2> QED
    BY <1>1, <2>1 DEF RequestEarns
<1> QED
  BY <1>2, <1>3 DEF EarnInv

\* Live, once in force, was earned: a restored live mode is demoted when the token
\* does not resolve, whether or not the demotion is saved, set_mode comes after the
\* preflight of the wallet whose executor is handed over, and a save that fails
\* restores the mode it found.
THEOREM SwitchEarned == Switch!Spec => []Switch!LiveIsEarned
<1>0. RequestEarns(Switch!NoRequest)
  BY DEF RequestEarns, Switch!NoRequest, Switch!Defaults
<1>1. Switch!Init => EarnInv
  BY <1>0 DEF Switch!Init, EarnInv, Switch!LiveIsEarned
<1>2. Switch!TypeOK /\ EarnInv /\ [Switch!Next]_(Switch!vars) => EarnInv'
  <2> SUFFICES ASSUME Switch!TypeOK, EarnInv, [Switch!Next]_(Switch!vars)
               PROVE  EarnInv'
    OBVIOUS
  <2>1. CASE UNCHANGED Switch!vars
    BY <2>1 DEF Switch!vars, EarnInv, Switch!LiveIsEarned, RequestEarns, Earned
  <2>2. CASE Switch!Boot
    <3>1. req' = req /\ up' /\ \A r \in Req : req[r] = Switch!NoRequest
      BY <2>2 DEF Switch!Boot, EarnInv
    <3>2. Switch!LiveIsEarned'
      BY <2>2 DEF Switch!Boot, Switch!Demoted, Switch!TypeOK, Switch!State,
         Switch!Defaults, Switch!LiveIsEarned
    <3>3. \A r \in Req : RequestEarns(req[r])'
      BY <3>1 DEF RequestEarns, Switch!NoRequest, Switch!Defaults
    <3> QED
      BY <3>1, <3>2, <3>3 DEF EarnInv
  <2>3. CASE Switch!Crash
    BY <2>3 DEF Switch!Crash, Switch!NoRequest, Switch!Defaults, EarnInv,
       Switch!LiveIsEarned, RequestEarns
  <2>4. ASSUME NEW r \in Req
        PROVE  /\ req[r] \in Switch!Request /\ RequestEarns(req[r])
               /\ \A at : Switch!On(r, at) => up /\ req[r].pc = at
    BY DEF Switch!TypeOK, EarnInv, Switch!On
  <2>5. ASSUME NEW r \in Req, up, Switch!Refused(r)
        PROVE  EarnInv'
    BY <1>0, <2>5, OneRequest DEF Switch!Refused, Switch!history
  <2>6. ASSUME NEW r \in Req, NEW target \in Switch!Mode, Switch!AsksMode(r, target)
        PROVE  EarnInv'
    <3> DEFINE q == [Switch!NoRequest EXCEPT !.pc = "positions", !.to.mode = target]
    <3>1. q.pc = "positions" /\ q.to.mode = target
      BY DEF Switch!NoRequest, Switch!Defaults
    <3>2. /\ req' = [req EXCEPT ![r] = q] /\ up /\ UNCHANGED <<up, mem, live, restored, checked>>
          /\ vouched' = (vouched \/ target = "live")
      BY <2>6 DEF Switch!AsksMode, Switch!On
    <3> HIDE DEF q
    <3>3. req'[r] = q /\ \A x \in Req \ {r} : req'[x] = req[x]
      BY <3>2 DEF Switch!TypeOK
    <3>4. Switch!LiveIsEarned'
      BY <3>2 DEF EarnInv, Switch!LiveIsEarned
    <3>5. ASSUME NEW x \in Req
          PROVE  RequestEarns(req[x])'
      <4>1. CASE x = r
        BY <3>1, <3>2, <3>3, <4>1 DEF RequestEarns
      <4>2. CASE x # r
        <5>1. req'[x] = req[x] /\ RequestEarns(req[x])
          BY <3>3, <4>2 DEF EarnInv
        <5> QED
          BY <3>2, <5>1 DEF RequestEarns, Earned
      <4> QED
        BY <4>1, <4>2
    <3> QED
      BY <3>2, <3>4, <3>5 DEF EarnInv
  <2>7. ASSUME NEW r \in Req, NEW w \in Wallet, Switch!AsksWallet(r, w)
        PROVE  EarnInv'
    <3> DEFINE q == [Switch!NoRequest EXCEPT !.pc = "find", !.field = "wallet", !.to.wallet = w]
    <3>1. RequestEarns(q)
      BY DEF RequestEarns, Switch!NoRequest, Switch!Defaults
    <3>2. /\ req' = [req EXCEPT ![r] = q] /\ up
          /\ UNCHANGED <<up, mem, live, vouched, restored, checked>>
      BY <2>7 DEF Switch!AsksWallet, Switch!On, Switch!history
    <3> HIDE DEF q
    <3> QED
      BY <3>1, <3>2, OneRequest
  <2>8. ASSUME NEW r \in Req, Switch!ReadsPositions(r)
        PROVE  EarnInv'
    <3>1. CASE Switch!Refused(r)
      BY <2>4, <2>5, <2>8, <3>1 DEF Switch!ReadsPositions
    <3>2. CASE ~Switch!Refused(r)
      <4> DEFINE at == IF req[r].to.mode = "live" THEN "preflight" ELSE "find"
                 w == IF req[r].to.mode = "live" THEN mem.wallet ELSE Switch!None
                 q == [req[r] EXCEPT !.pc = at, !.from.wallet = w]
      <4>1. /\ req' = [req EXCEPT ![r] = q]
            /\ UNCHANGED <<up, mem, live, vouched, restored, checked>>
        BY <2>8, <3>2 DEF Switch!ReadsPositions, Switch!history
      <4>2. q.pc = at /\ q.to = req[r].to
        BY <2>4 DEF Switch!Request
      <4> HIDE DEF q
      <4>3. RequestEarns(q)
        BY <2>4, <4>2 DEF RequestEarns
      <4>4. up
        BY <2>8 DEF Switch!ReadsPositions, Switch!On
      <4> QED
        BY <4>1, <4>3, <4>4, OneRequest
    <3> QED
      BY <3>1, <3>2
  <2>9. ASSUME NEW r \in Req, Switch!Preflights(r)
         PROVE  EarnInv'
    <3>1. CASE Switch!Refused(r)
      BY <2>4, <2>5, <2>9, <3>1 DEF Switch!Preflights
    <3>2. CASE ~Switch!Refused(r)
      <4>1. /\ req' = [req EXCEPT ![r] = [req[r] EXCEPT !.pc = "find"]] /\ up
            /\ live' \in checked' /\ UNCHANGED <<up, mem, vouched, restored>>
        BY <2>4, <2>9, <3>2 DEF Switch!Preflights, Switch!Goes
      <4>2. /\ req'[r].to = req[r].to /\ req'[r].pc = "find"
            /\ \A x \in Req \ {r} : req'[x] = req[x]
        BY <4>1 DEF Switch!TypeOK, Switch!Request
      <4>3. Switch!LiveIsEarned'
        BY <4>1 DEF EarnInv, Switch!LiveIsEarned
      <4>4. Earned => Earned'
        BY <4>1 DEF Earned
      <4>5. ASSUME NEW x \in Req
            PROVE  RequestEarns(req[x])'
        <5>1. CASE x = r
          BY <2>4, <4>1, <4>2, <5>1 DEF RequestEarns
        <5>2. CASE x # r
          <6>1. req'[x] = req[x] /\ RequestEarns(req[x])
            BY <2>4, <4>2, <5>2
          <6> QED
            BY <4>1, <4>4, <6>1 DEF RequestEarns
        <5> QED
          BY <5>1, <5>2
      <4> QED
        BY <4>1, <4>3, <4>5 DEF EarnInv
    <3> QED
      BY <3>1, <3>2
  <2>10. ASSUME NEW r \in Req, Switch!Finds(r)
         PROVE  EarnInv'
    <3> DEFINE found == [Switch!Defaults EXCEPT ![req[r].field] = mem[req[r].field]]
               q == [req[r] EXCEPT !.pc = "change", !.from = found]
    <3>1. found.mode = "live" => mem.mode = "live"
      BY <2>4 DEF Switch!Defaults, Switch!Request
    <3>2. /\ req' = [req EXCEPT ![r] = q] /\ up /\ req[r].pc = "find"
          /\ UNCHANGED <<up, mem, live, vouched, restored, checked>>
      BY <2>4, <2>10 DEF Switch!Finds, Switch!history
    <3>3. q.pc = "change" /\ q.to = req[r].to /\ q.from = found
      BY <2>4 DEF Switch!Request
    <3> HIDE DEF found, q
    <3>4. RequestEarns(q)
      BY <2>4, <3>1, <3>2, <3>3 DEF RequestEarns, Earned, EarnInv, Switch!LiveIsEarned
    <3> QED
      BY <3>2, <3>4, OneRequest
  <2>11. ASSUME NEW r \in Req, Switch!Changes(r)
         PROVE  EarnInv'
    <3> DEFINE q == [req[r] EXCEPT !.pc = "wallet", !.to = Switch!Defaults]
    <3>1. /\ req' = [req EXCEPT ![r] = q] /\ up /\ req[r].pc = "change"
          /\ mem' = [mem EXCEPT ![req[r].field] = req[r].to[req[r].field]]
          /\ UNCHANGED <<up, live, vouched, restored, checked>>
      BY <2>4, <2>11 DEF Switch!Changes, Switch!history
    <3>2. q.pc = "wallet" /\ q.to = Switch!Defaults /\ q.from = req[r].from
      BY <2>4 DEF Switch!Request
    <3> HIDE DEF q
    <3>3. RequestEarns(q)
      BY <2>4, <3>1, <3>2 DEF RequestEarns, Switch!Defaults
    <3>4. mem'.mode = "live" => mem.mode = "live" \/ req[r].to.mode = "live"
      BY <2>4, <3>1 DEF Switch!TypeOK, Switch!Request, Switch!State
    <3>5. req[r].to.mode = "live" => Earned
      BY <2>4, <3>1 DEF RequestEarns, Earned
    <3> QED
      BY <3>1, <3>3, <3>4, <3>5, OneRequest
  <2>12. ASSUME NEW r \in Req, NEW f, NEW next \in {"mode", "write"},
                req[r].pc \in {"wallet", "mode"}, Switch!ReadsMemory(r, f, next)
         PROVE  EarnInv'
    <3> DEFINE q == [req[r] EXCEPT !.pc = next, !.payload = [@ EXCEPT ![f] = mem[f]]]
    <3>1. /\ req' = [req EXCEPT ![r] = q] /\ up
          /\ UNCHANGED <<up, mem, live, vouched, restored, checked>>
      BY <2>12 DEF Switch!ReadsMemory, Switch!On, Switch!history
    <3>2. q.pc = next /\ q.to = req[r].to /\ q.from = req[r].from
      BY <2>4 DEF Switch!Request
    <3> HIDE DEF q
    <3>3. RequestEarns(q)
      BY <2>4, <2>12, <3>2 DEF RequestEarns
    <3> QED
      BY <3>1, <3>3, OneRequest
  <2>13. ASSUME NEW r \in Req, up, req[r].pc \in {"write", "replace"}, Switch!PutsBack(r)
         PROVE  EarnInv'
    <3>1. /\ mem'.mode = "live" => mem.mode = "live" \/ req[r].from.mode = "live"
          /\ req' = [req EXCEPT ![r] = Switch!NoRequest]
          /\ UNCHANGED <<up, live, vouched, restored, checked>>
      BY <2>4, <2>13 DEF Switch!PutsBack, Switch!TypeOK, Switch!Request, Switch!State,
         Switch!history
    <3>2. req[r].from.mode = "live" => Earned
      BY <2>4, <2>13 DEF RequestEarns
    <3> QED
      BY <1>0, <2>13, <3>1, <3>2, OneRequest
  <2>14. ASSUME NEW r \in Req, Switch!Writes(r)
         PROVE  EarnInv'
    <3>1. CASE Switch!PutsBack(r)
      BY <2>4, <2>13, <2>14, <3>1 DEF Switch!Writes
    <3>2. CASE ~Switch!PutsBack(r)
      <4> DEFINE q == [req[r] EXCEPT !.pc = "replace", !.payload = Switch!Defaults]
      <4>1. /\ req' = [req EXCEPT ![r] = q] /\ up /\ req[r].pc = "write"
            /\ UNCHANGED <<up, mem, live, vouched, restored, checked>>
        BY <2>4, <2>14, <3>2 DEF Switch!Writes, Switch!history
      <4>2. q.pc = "replace" /\ q.to = req[r].to /\ q.from = req[r].from
        BY <2>4 DEF Switch!Request
      <4> HIDE DEF q
      <4>3. RequestEarns(q)
        BY <2>4, <4>1, <4>2 DEF RequestEarns
      <4> QED
        BY <4>1, <4>3, OneRequest
    <3> QED
      BY <3>1, <3>2
  <2>15. ASSUME NEW r \in Req, Switch!Replaces(r)
         PROVE  EarnInv'
    <3>1. CASE Switch!PutsBack(r)
      BY <2>4, <2>13, <2>15, <3>1 DEF Switch!Replaces
    <3>2. CASE ~Switch!PutsBack(r)
      BY <1>0, <2>4, <2>15, <3>2, OneRequest DEF Switch!Replaces, Switch!history
    <3> QED
      BY <3>1, <3>2
  <2> QED
    BY <2>1, <2>2, <2>3, <2>4, <2>6, <2>7, <2>8, <2>9, <2>10, <2>11, <2>12, <2>14, <2>15
       DEF Switch!Next, Switch!ReadsMemory, Switch!On
<1>3. EarnInv => Switch!LiveIsEarned
  BY DEF EarnInv
<1> QED
  BY <1>1, <1>2, <1>3, SwitchTypes, PTL DEF Switch!Spec

---------------------------------------------------------------------------
(* The news source (NewsFeed)                                              *)

\* The types of the news source and its client.
THEOREM NewsTypes == News!Spec => []News!TypeOK
<1> DEFINE Client == [there: BOOLEAN, task: News!Task, window: NewsWindow]
<1>0. News!NoClient \in Client
  BY NewsAssumption DEF News!NoClient, News!Task
<1>1. News!Init => News!TypeOK
  <2> SUFFICES ASSUME News!Init PROVE News!TypeOK
    OBVIOUS
  <2>1. client \in Client /\ backoff \in 0 .. MaxBackoff /\ ring \in 0 .. RingSize
    BY <1>0, NewsAssumption DEF News!Init
  <2> QED
    BY <2>1 DEF News!Init, News!TypeOK
<1>2. News!TypeOK /\ [News!Next]_(News!vars) => News!TypeOK'
  <2> SUFFICES ASSUME News!TypeOK, [News!Next]_(News!vars)
               PROVE  News!TypeOK'
    OBVIOUS
  <2>1. CASE UNCHANGED News!vars
    BY <2>1 DEF News!vars, News!TypeOK
  <2>2. ASSUME NEW c \in News!Config, News!FeedStart(c)
        PROVE  News!TypeOK'
    <3> DEFINE fresh == News!Reusable(c) = {}
               used  == IF fresh THEN {[config |-> c, from |-> c]} ELSE News!Reusable(c)
               left  == IF fresh THEN News!NoClient ELSE client
    <3>1. used \subseteq News!Source /\ left \in Client
      BY <1>0 DEF News!Reusable, News!TypeOK, News!Source
    <3>2. /\ running' = {c} /\ first' = FALSE /\ newsSource' = used
          /\ ring' = IF fresh THEN 0 ELSE ring
          /\ \/ left.there /\ newsState' = "connecting" /\ UNCHANGED <<client, backoff>>
             \/ /\ newsState' = "connecting" /\ backoff' = 0
                /\ \E s \in used : client' = News!Launched(s)
             \/ newsState' = "error" /\ client' = left /\ UNCHANGED backoff
      BY <2>2 DEF News!FeedStart
    <3>3. \A s \in used : News!Launched(s) \in Client
      BY <3>1 DEF News!Launched, News!Source, News!Config, News!Task
    <3>4. client' \in Client /\ backoff' \in 0 .. MaxBackoff
          /\ newsState' \in {"connecting", "error"}
      BY <3>1, <3>2, <3>3, NewsAssumption DEF News!TypeOK
    <3>5. /\ newsSource' \subseteq News!Source
          /\ running' \subseteq News!Config
          /\ ring' \in 0 .. RingSize
      BY <3>1, <3>2, NewsAssumption DEF News!TypeOK
    <3> QED
      BY <3>2, <3>4, <3>5 DEF News!TypeOK
  <2>3. CASE News!FeedStop
    BY <1>0, <2>3 DEF News!FeedStop, News!TypeOK
  <2>4. ASSUME NEW w \in NewsWindow, News!ApplyWindow(w)
        PROVE  News!TypeOK'
    <3>1. newsSource' \subseteq News!Source
      <4>1. ASSUME NEW s \in newsSource
            PROVE  [s EXCEPT !.config.window = w, !.from.window = w] \in News!Source
        <5>1. s \in News!Source
          BY DEF News!TypeOK
        <5>2. s.config \in News!Config /\ s.from \in News!Config
          BY <5>1 DEF News!Source
        <5>3. /\ [s.config EXCEPT !.window = w] \in News!Config
              /\ [s.from EXCEPT !.window = w] \in News!Config
          BY <5>2 DEF News!Config
        <5> QED
          BY <5>1, <5>3 DEF News!Source
      <4> QED
        BY <2>4, <4>1 DEF News!ApplyWindow, News!Rewindowed
    <3>2. running' \subseteq News!Config
      BY <2>4 DEF News!ApplyWindow, News!TypeOK, News!Config
    <3>3. client' \in Client
      BY <2>4 DEF News!ApplyWindow, News!TypeOK
    <3> QED
      BY <2>4, <3>1, <3>2, <3>3 DEF News!ApplyWindow, News!TypeOK
  <2>5. ASSUME NEW t \in News!Task, client' = [client EXCEPT !.task = t]
        PROVE  client' \in Client
    BY <2>5 DEF News!TypeOK
  <2>6. CASE News!Opens
    BY <2>5, <2>6, NewsAssumption DEF News!Opens, News!TypeOK, News!Task
  <2>7. CASE News!Rejected
    BY <2>5, <2>7 DEF News!Rejected, News!TypeOK, News!Task
  <2>8. CASE News!Drops
    BY <2>5, <2>8 DEF News!Drops, News!Down, News!TypeOK, News!Task
  <2>9. CASE News!ClosesCleanly
    BY <2>5, <2>9 DEF News!ClosesCleanly, News!Down, News!TypeOK, News!Task
  <2>10. CASE News!Reconnects
    BY <2>5, <2>10, NewsAssumption DEF News!Reconnects, News!TypeOK, News!Task
  <2>11. ASSUME NEW a \in NewsWindow, News!Frame(a)
         PROVE  News!TypeOK'
    <3>1. ring' \in 0 .. RingSize
      BY <2>11, NewsAssumption DEF News!Frame, News!Buffered, News!TypeOK
    <3> QED
      BY <2>11, <3>1 DEF News!Frame, News!TypeOK
  <2> QED
    BY <2>1, <2>2, <2>3, <2>4, <2>6, <2>7, <2>8, <2>9, <2>10, <2>11 DEF News!Next
<1> QED
  BY <1>1, <1>2, PTL DEF News!Spec

\* A source was built from what it is configured as - so that a start that uses it
\* again finds its window - and a client has its source's window.
FilterInv ==
    /\ \A s \in newsSource : s.config.window = s.from.window
    /\ client.there => \A s \in newsSource : client.window = s.from.window
    /\ News!FilterIsConfigured

\* The news source by itself: of any configurations, windows and backoffs.
THEOREM NewsConfigured == News!Spec => []News!FilterIsConfigured
<1>1. News!Init => FilterInv
  BY DEF News!Init, FilterInv, News!FilterIsConfigured
<1>2. News!TypeOK /\ FilterInv /\ [News!Next]_(News!vars) => FilterInv'
  <2> SUFFICES ASSUME News!TypeOK, FilterInv, [News!Next]_(News!vars)
               PROVE  FilterInv'
    OBVIOUS
  <2> USE DEF FilterInv, News!FilterIsConfigured
  <2>1. CASE UNCHANGED News!vars
    BY <2>1 DEF News!vars
  <2>2. ASSUME NEW c \in News!Config, News!FeedStart(c)
        PROVE  FilterInv'
    <3>1. CASE News!Reusable(c) = {}
      <4>1. newsSource' = {[config |-> c, from |-> c]} /\ running' = {c}
        BY <2>2, <3>1 DEF News!FeedStart
      <4>2. ~client'.there \/ \E s \in newsSource' : client' = News!Launched(s)
        BY <2>2, <3>1, <4>1 DEF News!FeedStart, News!NoClient
      <4> QED
        BY <4>1, <4>2 DEF News!Launched
    <3>2. CASE News!Reusable(c) # {}
      <4>1. newsSource' = News!Reusable(c) /\ running' = {c} /\ newsSource' \subseteq newsSource
        BY <2>2, <3>2 DEF News!FeedStart, News!Reusable
      <4>2. \A s \in newsSource' : s.from = c
        BY <4>1 DEF News!Reusable
      <4>3. client' = client \/ \E s \in newsSource' : client' = News!Launched(s)
        BY <2>2, <3>2, <4>1 DEF News!FeedStart
      <4>4. CASE client' = client
        BY <3>2, <4>1, <4>2, <4>4
      <4>5. CASE \E s \in newsSource' : client' = News!Launched(s)
        BY <4>1, <4>2, <4>5 DEF News!Launched
      <4> QED
        BY <4>3, <4>4, <4>5
    <3> QED
      BY <3>1, <3>2
  <2>3. CASE News!FeedStop
    BY <2>3 DEF News!FeedStop, News!NoClient
  <2>4. ASSUME NEW w \in NewsWindow, News!ApplyWindow(w)
        PROVE  FilterInv'
    <3>1. ASSUME NEW s \in newsSource'
          PROVE  s.config.window = w /\ s.from.window = w
      <4>1. PICK o \in newsSource : s = [o EXCEPT !.config.window = w, !.from.window = w]
        BY <2>4 DEF News!ApplyWindow, News!Rewindowed
      <4>2. o \in News!Source
        BY DEF News!TypeOK
      <4>3. o.config \in News!Config /\ o.from \in News!Config
        BY <4>2 DEF News!Source
      <4> QED
        BY <4>1, <4>2, <4>3 DEF News!Source, News!Config
    <3>2. \A c \in running' : c.window = w
      BY <2>4 DEF News!ApplyWindow, News!TypeOK, News!Config
    <3>3. client'.there => client'.window = w
      BY <2>4 DEF News!ApplyWindow, News!TypeOK
    <3> QED
      BY <3>1, <3>2, <3>3
  <2>5. ASSUME NEW t \in News!Task, client' = [client EXCEPT !.task = t],
               UNCHANGED <<newsSource, running>>
        PROVE  FilterInv'
    BY <2>5 DEF News!TypeOK
  <2>6. CASE News!Opens \/ News!Rejected \/ News!Drops \/ News!ClosesCleanly \/ News!Reconnects
    BY <2>5, <2>6 DEF News!Opens, News!Rejected, News!Drops, News!ClosesCleanly, News!Reconnects,
       News!Task
  <2>7. ASSUME NEW a \in NewsWindow, News!Frame(a)
        PROVE  FilterInv'
    BY <2>7 DEF News!Frame
  <2> QED
    BY <2>1, <2>2, <2>3, <2>4, <2>6, <2>7 DEF News!Next
<1> QED
  BY <1>1, <1>2, NewsTypes, PTL DEF News!Spec, FilterInv

---------------------------------------------------------------------------
(* The pipeline (Pipeline)                                                 *)

\* The worker's record at a stage, going on, and its verdicts.
LEMMA WorkRecords ==
    /\ \A at \in {"off", "idle", "embed", "gone"} : Pipe!At(at) \in Pipe!Work
    /\ \A i \in Item : [Pipe!At("embed") EXCEPT !.item = {i}] \in Pipe!Work
BY DEF Pipe!At, Pipe!Work, Pipe!Entry, Pipe!PlainEntry

\* The worker goes on with what it carries.
LEMMA Carries ==
    ASSUME worker \in Pipe!Work, entry \in Pipe!Entry
    PROVE  /\ Pipe!Carry("analyze") \in Pipe!Work
           /\ [Pipe!Carry("refresh") EXCEPT !.asked = Pipe!Asked] \in Pipe!Work
           /\ [Pipe!Carry("decide") EXCEPT !.inst = entry] \in Pipe!Work
           /\ \A fresh \in SUBSET Pipe!Side :
                [Pipe!Carry("decide") EXCEPT !.checked = TRUE, !.fresh = fresh,
                !.inst = entry] \in Pipe!Work
           /\ \A s \in Pipe!Side : [Pipe!Carry("buy") EXCEPT !.side = {s}] \in Pipe!Work
BY DEF Pipe!Carry, Pipe!Work, Pipe!Entry, Pipe!Asked, Pipe!Side

\* A verdict leaves rows of verdicts.
LEMMA VerdictsKept ==
    ASSUME Pipe!TypeOK, NEW i \in Item, NEW stage \in {"embedding", "analyzer", "entry"},
           NEW v \in Pipe!Verdict
    PROVE  [verdicts EXCEPT ![i][stage] = v] \in [Item -> Pipe!Rows]
<1>1. [verdicts[i] EXCEPT ![stage] = v] \in Pipe!Rows
  BY DEF Pipe!TypeOK, Pipe!Rows
<1> QED
  BY <1>1 DEF Pipe!TypeOK

LEMMA Logged ==
    ASSUME Pipe!TypeOK, NEW stage \in {"embedding", "analyzer", "entry"}, NEW v \in Pipe!Verdict,
           Pipe!Log(stage, v)
    PROVE  verdicts' \in [Item -> Pipe!Rows]
<1>1. PICK i \in worker.item : verdicts' = [verdicts EXCEPT ![i][stage] = v]
  BY DEF Pipe!Log
<1>2. i \in Item
  BY DEF Pipe!TypeOK, Pipe!Work
<1> QED
  BY <1>1, <1>2, VerdictsKept

\* A buy is of what its worker carries.
LEMMA BuysOf ==
    ASSUME NEW w \in Pipe!Work
    PROVE  /\ Pipe!BuyOf(w) \subseteq Pipe!Buy
           /\ \A b \in Pipe!BuyOf(w) : /\ w.pc = "buy" /\ b.side \in w.side
                                       /\ b.checked = w.checked /\ b.fresh = w.fresh
BY DEF Pipe!BuyOf, Pipe!Buy, Pipe!Work

\* The types of the pipeline.
THEOREM PipeTypes == Pipe!Spec => []Pipe!TypeOK
<1>1. Pipe!Init => Pipe!TypeOK
  <2> SUFFICES ASSUME Pipe!Init PROVE Pipe!TypeOK
    OBVIOUS
  <2>1. worker \in Pipe!Work /\ entry \in Pipe!Entry /\ window \in ItemWindow
    BY WorkRecords, PipeAssumption DEF Pipe!Init, Pipe!Entry, Pipe!PlainEntry
  <2>2. age \in [Item -> 0 .. MaxAge] /\ verdicts \in [Item -> Pipe!Rows]
    BY PipeAssumption DEF Pipe!Init, Pipe!NoRows, Pipe!Rows, Pipe!Verdict
  <2>3. items \in Seq(Item) /\ Len(items) <= ItemQueueMax
    BY PipeAssumption DEF Pipe!Init
  <2> QED
    BY <2>1, <2>2, <2>3 DEF Pipe!Init, Pipe!TypeOK
<1>2. Pipe!TypeOK /\ [Pipe!Next]_(Pipe!vars) => Pipe!TypeOK'
  <2> SUFFICES ASSUME Pipe!TypeOK, [Pipe!Next]_(Pipe!vars)
               PROVE  Pipe!TypeOK'
    OBVIOUS
  <2> USE DEF Pipe!feed
  <2>0. worker \in Pipe!Work /\ entry \in Pipe!Entry /\ verdicts \in [Item -> Pipe!Rows]
    BY DEF Pipe!TypeOK
  <2>1. CASE UNCHANGED Pipe!vars
    BY <2>1 DEF Pipe!vars, Pipe!TypeOK
  <2>2. ASSUME NEW i \in Item, Pipe!Enqueue(i)
        PROVE  Pipe!TypeOK'
    <3>1. items' \in Seq(Item) /\ Len(items') <= ItemQueueMax
      <4>1. CASE Len(items) < ItemQueueMax /\ items' = Append(items, i)
        <5>1. items' \in Seq(Item) /\ Len(items') = Len(items) + 1
          BY <4>1 DEF Pipe!TypeOK
        <5>2. Len(items) \in Nat /\ ItemQueueMax \in Nat
          BY PipeAssumption DEF Pipe!TypeOK
        <5> QED
          BY <4>1, <5>1, <5>2
      <4> QED
        BY <2>2, <4>1 DEF Pipe!Enqueue, Pipe!TypeOK
    <3>2. Pipe!Overflowed(i) \in [Item -> Pipe!Rows]
      BY VerdictsKept DEF Pipe!Overflowed, Pipe!Verdict
    <3> QED
      BY <2>2, <3>1, <3>2 DEF Pipe!Enqueue, Pipe!TypeOK
  <2>3. ASSUME NEW i \in Item, Pipe!Ages(i)
        PROVE  Pipe!TypeOK'
    BY <2>3, PipeAssumption DEF Pipe!Ages, Pipe!TypeOK
  <2>4. CASE Pipe!Swap
    BY <2>4 DEF Pipe!Swap, Pipe!TypeOK
  <2>5. CASE Pipe!CatalogMoves
    BY <2>5 DEF Pipe!CatalogMoves, Pipe!TypeOK
  <2>6. CASE Pipe!StartWorker
    BY <2>6, WorkRecords DEF Pipe!StartWorker, Pipe!TypeOK
  <2>7. CASE Pipe!Dequeue
    <3>1. Head(items) \in Item /\ Tail(items) \in Seq(Item) /\ Len(Tail(items)) <= ItemQueueMax
      <4>1. /\ Head(items) \in Item /\ Tail(items) \in Seq(Item)
            /\ Len(Tail(items)) = Len(items) - 1
        BY <2>7, HeadTailProperties DEF Pipe!Dequeue, Pipe!TypeOK
      <4>2. Len(items) \in Nat /\ ItemQueueMax \in Nat /\ Len(items) <= ItemQueueMax
        BY PipeAssumption DEF Pipe!TypeOK
      <4> QED
        BY <4>1, <4>2
    <3>2. Pipe!StaleRow(Head(items)) \in [Item -> Pipe!Rows]
      BY <3>1, VerdictsKept DEF Pipe!StaleRow, Pipe!Verdict
    <3>3. [Pipe!At("embed") EXCEPT !.item = {Head(items)}] \in Pipe!Work
      BY <3>1, WorkRecords
    <3>4. worker' \in Pipe!Work /\ verdicts' \in [Item -> Pipe!Rows]
      BY <2>0, <2>7, <3>2, <3>3 DEF Pipe!Dequeue
    <3> QED
      BY <2>7, <3>1, <3>4 DEF Pipe!Dequeue, Pipe!TypeOK
  <2>8. ASSUME worker' \in Pipe!Work, verdicts' \in [Item -> Pipe!Rows], UNCHANGED Pipe!feed,
               UNCHANGED entry, UNCHANGED listed,
               buys' \subseteq buys \cup thread \cup Pipe!BuyOf(worker),
               thread' \subseteq thread \cup Pipe!BuyOf(worker)
        PROVE  Pipe!TypeOK'
    <3>1. Pipe!BuyOf(worker) \subseteq Pipe!Buy
      BY <2>0, BuysOf
    <3>2. buys' \subseteq Pipe!Buy /\ thread' \subseteq Pipe!Buy
      BY <2>8, <3>1 DEF Pipe!TypeOK
    <3> QED
      BY <2>8, <3>2 DEF Pipe!TypeOK
  <2>9. ASSUME NEW v \in Pipe!Verdict \ {"none"}, Pipe!Embedded(v)
        PROVE  Pipe!TypeOK'
    <3>1. verdicts' \in [Item -> Pipe!Rows]
      BY <2>9, Logged DEF Pipe!Embedded
    <3>2. worker' \in Pipe!Work
      BY <2>0, <2>9, WorkRecords, Carries DEF Pipe!Embedded
    <3> QED
      BY <2>8, <2>9, <3>1, <3>2 DEF Pipe!Embedded
  <2>10. ASSUME NEW v \in Pipe!Verdict \ {"none"}, Pipe!Analyzed(v)
         PROVE  Pipe!TypeOK'
    <3>1. verdicts' \in [Item -> Pipe!Rows]
      BY <2>10, Logged DEF Pipe!Analyzed
    <3>2. worker' \in Pipe!Work
      BY <2>0, <2>10, WorkRecords, Carries DEF Pipe!Analyzed
    <3> QED
      BY <2>8, <2>10, <3>1, <3>2 DEF Pipe!Analyzed
  <2>11. ASSUME NEW fresh \in SUBSET Pipe!Side, Pipe!Refreshed(fresh)
         PROVE  Pipe!TypeOK'
    <3>1. verdicts' \in [Item -> Pipe!Rows]
      BY <2>0, <2>11, Logged DEF Pipe!Refreshed, Pipe!Verdict
    <3>2. worker' \in Pipe!Work
      BY <2>0, <2>11, WorkRecords, Carries DEF Pipe!Refreshed
    <3> QED
      BY <2>8, <2>11, <3>1, <3>2 DEF Pipe!Refreshed
  <2>12. ASSUME NEW v \in {"skip", "error"}, Pipe!DecidesNot(v)
         PROVE  Pipe!TypeOK'
    <3>1. verdicts' \in [Item -> Pipe!Rows] /\ worker' \in Pipe!Work
      BY <2>12, Logged, WorkRecords DEF Pipe!DecidesNot, Pipe!Verdict
    <3> QED
      BY <2>8, <2>12, <3>1 DEF Pipe!DecidesNot
  <2>13. ASSUME NEW s \in Pipe!Side, Pipe!Decides(s)
         PROVE  Pipe!TypeOK'
    <3>1. verdicts' \in [Item -> Pipe!Rows]
      BY <2>0, <2>13, Logged DEF Pipe!Decides, Pipe!Verdict
    <3>2. worker' \in Pipe!Work
      BY <2>0, <2>13, WorkRecords, Carries DEF Pipe!Decides
    <3> QED
      BY <2>8, <2>13, <3>1, <3>2 DEF Pipe!Decides
  <2>14. ASSUME NEW filled \in BOOLEAN, NEW v \in {"ok", "error"}, Pipe!Bought(filled, v)
         PROVE  Pipe!TypeOK'
    <3>1. verdicts' \in [Item -> Pipe!Rows] /\ worker' \in Pipe!Work
      BY <2>14, Logged, WorkRecords DEF Pipe!Bought, Pipe!Verdict
    <3> QED
      BY <2>8, <2>14, <3>1 DEF Pipe!Bought
  <2>15. CASE Pipe!StopWorker
    <3>1. worker' \in Pipe!Work
      BY <2>15, WorkRecords DEF Pipe!StopWorker
    <3> QED
      BY <2>0, <2>8, <2>15, <3>1 DEF Pipe!StopWorker
  <2>16. ASSUME NEW filled \in BOOLEAN, Pipe!ThreadEnds(filled)
         PROVE  Pipe!TypeOK'
    BY <2>0, <2>8, <2>16 DEF Pipe!ThreadEnds
  <2> QED
    BY <2>1, <2>2, <2>3, <2>4, <2>5, <2>6, <2>7, <2>9, <2>10, <2>11, <2>12, <2>13, <2>14,
       <2>15, <2>16 DEF Pipe!Next, Pipe!WorkerGoesOn, Pipe!Decide, Pipe!BuyEnds
<1> QED
  BY <1>1, <1>2, PTL DEF Pipe!Spec

\* What the worker's buy, and the buy left behind by a stop, would trade.
TradeInv ==
    /\ worker.pc = "buy" => \A s \in worker.side : ~Pipe!StaleChoice(s)
    /\ \A b \in thread \cup buys : b.checked => b.side \in b.fresh

\* The pipeline by itself: of any items, queue and windows.
THEOREM PipeNotStale == Pipe!Spec => []Pipe!StaleSideNeverTraded
<1>1. Pipe!Init => TradeInv
  BY DEF Pipe!Init, TradeInv, Pipe!At
<1>2. Pipe!TypeOK /\ TradeInv /\ [Pipe!Next]_(Pipe!vars) => TradeInv'
  <2> SUFFICES ASSUME Pipe!TypeOK, TradeInv, [Pipe!Next]_(Pipe!vars)
               PROVE  TradeInv'
    OBVIOUS
  <2> USE DEF TradeInv, Pipe!StaleChoice
  <2>1. CASE UNCHANGED <<worker, thread, buys>>
    BY <2>1
  <2>2. ASSUME worker'.pc # "buy", thread' \subseteq thread \cup Pipe!BuyOf(worker),
               buys' \subseteq buys \cup thread \cup Pipe!BuyOf(worker)
        PROVE  TradeInv'
    <3>1. \A b \in Pipe!BuyOf(worker) : b.checked => b.side \in b.fresh
      BY BuysOf DEF Pipe!TypeOK
    <3> QED
      BY <2>2, <3>1
  <2>3. ASSUME NEW at \in {"analyze", "refresh", "decide"}, NEW w,
               w \in {Pipe!Carry(at), [Pipe!Carry("refresh") EXCEPT !.asked = Pipe!Asked],
                      [Pipe!Carry("decide") EXCEPT !.inst = entry]}
        PROVE  w.pc # "buy"
    BY <2>3 DEF Pipe!Carry, Pipe!TypeOK, Pipe!Work
  <2>4. \A at \in {"idle", "gone"} : Pipe!At(at).pc # "buy"
    BY DEF Pipe!At
  <2>5. ASSUME NEW v, Pipe!Embedded(v) \/ Pipe!Analyzed(v)
        PROVE  TradeInv'
    BY <2>2, <2>3, <2>4, <2>5 DEF Pipe!Embedded, Pipe!Analyzed
  <2>6. ASSUME NEW fresh \in SUBSET Pipe!Side, Pipe!Refreshed(fresh)
        PROVE  TradeInv'
    <3>1. [Pipe!Carry("decide") EXCEPT !.checked = TRUE, !.fresh = fresh, !.inst = entry].pc # "buy"
      BY DEF Pipe!Carry, Pipe!TypeOK, Pipe!Work
    <3> QED
      BY <2>2, <2>4, <2>6, <3>1 DEF Pipe!Refreshed
  <2>7. ASSUME NEW v, Pipe!DecidesNot(v)
        PROVE  TradeInv'
    BY <2>2, <2>4, <2>7 DEF Pipe!DecidesNot
  <2>8. ASSUME NEW s \in Pipe!Side, Pipe!Decides(s)
        PROVE  TradeInv'
    <3>1. CASE Pipe!StaleChoice(s)
      BY <2>2, <2>4, <2>8, <3>1 DEF Pipe!Decides
    <3>2. CASE ~Pipe!StaleChoice(s)
      <4>1. worker' = [Pipe!Carry("buy") EXCEPT !.side = {s}] /\ UNCHANGED <<thread, buys>>
        BY <2>8, <3>2 DEF Pipe!Decides
      <4>2. /\ worker'.side = {s} /\ worker'.checked = worker.checked
            /\ worker'.fresh = worker.fresh
        BY <4>1 DEF Pipe!Carry, Pipe!TypeOK, Pipe!Work
      <4> QED
        BY <3>2, <4>1, <4>2
    <3> QED
      BY <3>1, <3>2
  <2>9. ASSUME NEW filled \in BOOLEAN, NEW v, Pipe!Bought(filled, v)
        PROVE  TradeInv'
    BY <2>2, <2>4, <2>9 DEF Pipe!Bought
  <2>10. CASE Pipe!StopWorker
    BY <2>2, <2>4, <2>10 DEF Pipe!StopWorker
  <2>11. ASSUME NEW filled \in BOOLEAN, Pipe!ThreadEnds(filled)
         PROVE  TradeInv'
    BY <2>11 DEF Pipe!ThreadEnds
  <2>12. CASE Pipe!Dequeue
    <3>1. [Pipe!At("embed") EXCEPT !.item = {Head(items)}].pc # "buy"
      BY DEF Pipe!At
    <3> QED
      BY <2>1, <2>2, <2>12, <3>1 DEF Pipe!Dequeue
  <2>13. CASE Pipe!StartWorker
    BY <2>2, <2>4, <2>13 DEF Pipe!StartWorker
  <2> QED
    BY <2>1, <2>5, <2>6, <2>7, <2>8, <2>9, <2>10, <2>11, <2>12, <2>13
       DEF Pipe!Next, Pipe!WorkerGoesOn, Pipe!Decide, Pipe!BuyEnds, Pipe!vars, Pipe!Enqueue,
          Pipe!Ages, Pipe!Swap, Pipe!CatalogMoves
<1>3. TradeInv => Pipe!StaleSideNeverTraded
  BY DEF TradeInv, Pipe!StaleSideNeverTraded
<1> QED
  BY <1>1, <1>2, <1>3, PipeTypes, PTL DEF Pipe!Spec

---------------------------------------------------------------------------
(* All of them                                                              *)

\* A step of the services is a step of each, or leaves it alone.
LEMMA ServiceSteps ==
    ASSUME [ServicesNext]_services
    PROVE  /\ [Next]_vars
           /\ [Writer!Next]_(Writer!vars) /\ [Canvas!Next]_(Canvas!vars)
           /\ [Switch!Next]_(Switch!vars)
           /\ [News!Next]_(News!vars) /\ [Pipe!Next]_(Pipe!vars)
BY DEF ServicesNext, services, ledgerVars, writerVars, canvasVars, modeVars, newsVars, pipeVars,
       vars, Writer!vars, Canvas!vars, Switch!vars, News!vars, Pipe!vars

LEMMA ServicesBehave ==
    ServicesSpec => /\ Spec /\ Writer!Spec /\ Canvas!Spec /\ Switch!Spec
                    /\ News!Spec /\ Pipe!Spec
<1>1. ServicesInit => /\ Init /\ Writer!Init /\ Canvas!Init /\ Switch!Init
                      /\ News!Init /\ Pipe!Init
  BY DEF ServicesInit
<1>2. [ServicesNext]_services =>
        /\ [Next]_vars
        /\ [Writer!Next]_(Writer!vars) /\ [Canvas!Next]_(Canvas!vars)
        /\ [Switch!Next]_(Switch!vars)
        /\ [News!Next]_(News!vars) /\ [Pipe!Next]_(Pipe!vars)
  BY ServiceSteps
<1> QED
  BY <1>1, <1>2, PTL
     DEF ServicesSpec, Spec, Writer!Spec, Canvas!Spec, Switch!Spec, News!Spec, Pipe!Spec

\* The close protocol is the one on paper, or the one with a fault.
CloseInv == IF part = "fault" THEN Fault!TInv ELSE Paper!TInv

LEMMA CloseTypes == ServicesSpec => []CloseInv
<1>1. ServicesInit => CloseInv
  <2>1. Paper!Init => Paper!TInv
    BY Paper!TypeInit
  <2>2. Fault!Init => Fault!TInv
    BY Fault!TypeInit
  <2> QED
    BY <2>1, <2>2 DEF ServicesInit, CloseInv
<1>2. CloseInv /\ [ServicesNext]_services => CloseInv'
  <2> SUFFICES ASSUME CloseInv, [ServicesNext]_services
               PROVE  CloseInv'
    OBVIOUS
  <2>1. part' = part
    BY DEF ServicesNext, services
  <2>2. CASE part = "fault"
    <3>1. [Fault!Next]_(Fault!vars)
      BY <2>2 DEF ServicesNext, services, closeVars, Fault!vars, Fault!ledger,
            Fault!chain, Fault!sell
    <3>2. Fault!TInv /\ [Fault!Next]_(Fault!vars) => Fault!TInv'
      BY Fault!TypeStep
    <3> QED
      BY <2>1, <2>2, <3>1, <3>2 DEF CloseInv
  <2>3. CASE part # "fault"
    <3>1. [Paper!Next]_(Paper!vars)
      BY <2>3 DEF ServicesNext, services, closeVars, Paper!vars, Paper!ledger,
            Paper!chain, Paper!sell
    <3>2. Paper!TInv /\ [Paper!Next]_(Paper!vars) => Paper!TInv'
      BY Paper!TypeStep
    <3> QED
      BY <2>1, <2>3, <3>1, <3>2 DEF CloseInv
  <2> QED
    BY <2>2, <2>3
<1> QED
  BY <1>1, <1>2, PTL DEF ServicesSpec

\* Each service keeps what it holds of its type (PortfolioStore, registry and
\* monitors, BatchWriter, canvas reloads, RuntimeState, news source, orchestrator).
THEOREM TypesAlwaysHold == ServicesSpec => []TypesHold
<1>1. /\ TypeOK /\ WriterTypesHold /\ Canvas!TypeOK /\ Switch!TypeOK /\ News!TypeOK
      /\ Pipe!TypeOK /\ CloseInv
      => TypesHold
  BY DEF TypesHold, WriterTypesHold, CloseInv, Fault!TInv, Paper!TInv
<1> QED
  BY <1>1, ServicesBehave, TypeCorrect, WriterTypes, CanvasTypes, SwitchTypes, NewsTypes,
     PipeTypes, CloseTypes, PTL

\* A stop that did not give up on a batch leaves no row behind: whatever the sizes
\* of queue and batches, and wherever the stop finds the loop, a batch and the prune
\* (BatchWriter.stop, _drain_inflight, _flush).
THEOREM StopLeavesNothing == ServicesSpec => []StoppedIsComplete
BY ServicesBehave, WriterComplete, PTL DEF StoppedIsComplete

\* However many saves overlap, once their reloads are through the sections in use
\* are those on disk (_apply_canvas_reload, build_section).
THEOREM SectionsAlwaysFollow == ServicesSpec => []SectionsFollowCanvas
BY ServicesBehave, CanvasFollowed, PTL DEF SectionsFollowCanvas

\* Live is in force only where this process found the token usable as it went live,
\* and with an executor whose wallet passed the preflight in this process, unless the
\* boot restored live: for any wallets and any number of requests at once, wallets
\* saved while live, saves that fail, and restarts (set_mode, set_wallet,
\* _demote_restored_live_without_token).
THEOREM LiveOnlyEarned == ServicesSpec => []LiveIsEarned
BY ServicesBehave, SwitchEarned, PTL DEF LiveIsEarned

\* The connection filters with the window of the running configuration, for any
\* configurations, windows and backoffs (apply_freshness_seconds, start).
THEOREM FilterAlwaysConfigured == ServicesSpec => []FilterIsConfigured
BY ServicesBehave, NewsConfigured, PTL DEF FilterIsConfigured

\* A stale side is never traded, for any items and windows, whatever section is
\* swapped in while the books are fetched, and by a thread left behind (_run_entry).
THEOREM StaleSideNever == ServicesSpec => []StaleSideNeverTraded
BY ServicesBehave, PipeNotStale, PTL DEF StaleSideNeverTraded
=============================================================================
