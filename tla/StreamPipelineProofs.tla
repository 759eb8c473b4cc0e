------------------------- MODULE StreamPipelineProofs -------------------------
(***************************************************************************)
(* What StreamPipeline guarantees for every document, every setting of the *)
(* knobs and every number of workers.                                      *)
(***************************************************************************)
EXTENDS PipelineContext, SequenceTheorems, FiniteSetTheorems, TLAPS

(***************************************************************************)
(* The knobs after their defaults are positive, whatever the caller set.   *)
(***************************************************************************)
LEMMA KnobsPositive ==
    /\ BatchRecords \in Nat \ {0}
    /\ BatchBytes \in Nat \ {0}
    /\ NumWorkers \in Nat \ {0}
    /\ Capacity \in Nat \ {0}
BY KnobsAssumption DEF BatchRecords, BatchBytes, NumWorkers, Capacity, AtLeastOne

\* The bounds are natural numbers.
LEMMA BoundsNatural == MaxRecords \in Nat /\ MaxChunks \in Nat
BY DocumentAssumption

(***************************************************************************)
(* Type correctness.                                                       *)
(***************************************************************************)
LEMMA InitType == Init => TypeOK
<1>1. <<>> \in Seq(Batches)
  OBVIOUS
<1>2. Init => needMore \in BOOLEAN /\ rxAlive \in BOOLEAN /\ stop \in BOOLEAN
  BY DEF Init
<1>3. QED
  BY <1>1, <1>2, KnobsPositive, BoundsNatural
  DEF Init, TypeOK, Batches, NoBatch, Workers, NoWorker, Records

\* Every step keeps the types.
LEMMA TypeStep == TypeOK /\ [Next]_vars => TypeOK'
<1> SUFFICES ASSUME TypeOK, [Next]_vars PROVE TypeOK'
  OBVIOUS
<1> USE BoundsNatural DEF TypeOK
<1>1. CASE PrologRead
  BY <1>1 DEF PrologRead, SourceYields, mainVars, producerVars, batchVars, workerVars, stopVars
<1>2. CASE PrologFails
  BY <1>2 DEF PrologFails, Return, sourceVars, producerVars, batchVars, workerVars, stopVars
<1>3. CASE Spawn
  BY <1>3 DEF Spawn, sourceVars, batchVars, stopVars
<1>4. CASE ConsumeEnds
  <2>1. queue' \in Seq(Batches) /\ rxAlive' \in BOOLEAN
    <3>1. <<>> \in Seq(Batches)
      OBVIOUS
    <3>2. QED
      BY <1>4, <3>1 DEF ConsumeEnds, ScopePanics
  <2>2. QED
    BY <1>4, <2>1 DEF ConsumeEnds, ScopePanics, sourceVars, producerVars, workerVars, stopVars
<1>5. CASE JoinProducer
  BY <1>5 DEF JoinProducer, Return, sourceVars, producerVars, batchVars, workerVars, stopVars
<1>6. CASE UnwindJoins
  BY <1>6 DEF UnwindJoins, Return, sourceVars, producerVars, batchVars, workerVars, stopVars
<1>7. CASE FrameRecord
  BY <1>7 DEF FrameRecord, mainVars, sourceVars, batchVars, workerVars, stopVars
<1>8. CASE FrameNeedsMore
  BY <1>8 DEF FrameNeedsMore, Dispatch, mainVars, sourceVars, batchVars, workerVars, stopVars
<1>9. CASE FrameFails
  BY <1>9 DEF FrameFails, FinishProducer, mainVars, sourceVars, batchVars, workerVars, stopVars
<1>10. CASE BatchFull
  <2>1. needMore' \in BOOLEAN
    BY <1>10 DEF BatchFull, Dispatch
  <2>2. QED
    BY <1>10, <2>1 DEF BatchFull, Dispatch, mainVars, sourceVars, batchVars, workerVars, stopVars
<1>11. CASE Send
  <2>1. CurrentBatch \in Batches
    BY DEF CurrentBatch, Batches
  <2>2. queue' \in Seq(Batches) /\ needMore' \in BOOLEAN
    BY <1>11, <2>1, AppendProperties DEF Send
  <2>3. QED
    BY <1>11, <2>2 DEF Send, mainVars, sourceVars, workerVars, stopVars
<1>12. CASE SendFails
  BY <1>12 DEF SendFails, FinishProducer, mainVars, sourceVars, batchVars, workerVars, stopVars
<1>13. CASE ReadChunk
  <2>1. needMore' \in BOOLEAN
    BY <1>13 DEF ReadChunk
  <2>2. QED
    BY <1>13, <2>1 DEF ReadChunk, SourceYields, mainVars, batchVars, workerVars, stopVars
<1>14. CASE ReadEof
  BY <1>14 DEF ReadEof, Finish, FinishProducer, mainVars, sourceVars, batchVars, workerVars, stopVars
<1>15. CASE ReadFails
  BY <1>15 DEF ReadFails, FinishProducer, mainVars, sourceVars, batchVars, workerVars, stopVars
<1>16. ASSUME NEW w \in Workers, CheckStop(w) PROVE TypeOK'
  BY <1>16 DEF CheckStop, mainVars, sourceVars, producerVars, batchVars, stopVars
<1>17. ASSUME NEW w \in Workers, AcquireLock(w) PROVE TypeOK'
  BY <1>17 DEF AcquireLock, mainVars, sourceVars, producerVars, batchVars, stopVars
<1>18. ASSUME NEW w \in Workers, RecvBatch(w) PROVE TypeOK'
  <2>1. Head(queue) \in Batches /\ queue' \in Seq(Batches)
    BY <1>18, HeadTailProperties DEF RecvBatch
  <2>2. Head(queue).lo \in Nat
    BY <2>1 DEF Batches
  <2>3. QED
    BY <1>18, <2>1, <2>2 DEF RecvBatch, mainVars, sourceVars, producerVars, stopVars, NoWorker
<1>19. ASSUME NEW w \in Workers, RecvDisconnected(w) PROVE TypeOK'
  BY <1>19 DEF RecvDisconnected, mainVars, sourceVars, producerVars, batchVars, stopVars, NoWorker
<1>20. ASSUME NEW w \in Workers, CallReturns(w) PROVE TypeOK'
  <2>1. visits' \in [Records -> Nat]
    <3>1. CASE at[w] \in Records
      BY <1>20, <3>1 DEF CallReturns, Call
    <3>2. CASE at[w] \notin Records
      BY <1>20, <3>2 DEF CallReturns, Call
    <3>3. QED
      BY <3>1, <3>2
  <2>2. NoBatch \in Batches
    BY DEF NoBatch, Batches
  <2>3. hold' \in [Workers -> Batches]
    BY <1>20, <2>2 DEF CallReturns, BatchDone
  <2>4. pc' \in [Workers -> {"unborn", "check", "lock", "recv", "work", "exit", "gone"}]
    BY <1>20 DEF CallReturns, BatchDone
  <2>5. at' \in [Workers -> Nat]
    BY <1>20 DEF CallReturns
  <2>6. UNCHANGED <<mainVars, sourceVars, producerVars, batchVars, rxAlive, lock, panicked,
                    late, stopVars>>
    BY <1>20 DEF CallReturns
  <2>7. QED
    BY <2>1, <2>3, <2>4, <2>5, <2>6 DEF mainVars, sourceVars, producerVars, batchVars, stopVars
<1>21. ASSUME NEW w \in Workers, CallPanics(w) PROVE TypeOK'
  <2>1. visits' \in [Records -> Nat]
    <3>1. CASE at[w] \in Records
      BY <1>21, <3>1 DEF CallPanics, Call
    <3>2. CASE at[w] \notin Records
      BY <1>21, <3>2 DEF CallPanics, Call
    <3>3. QED
      BY <3>1, <3>2
  <2>2. panicked' \in SUBSET Workers /\ hold' \in [Workers -> Batches]
    BY <1>21 DEF CallPanics, NoBatch, Batches
  <2>3. pc' \in [Workers -> {"unborn", "check", "lock", "recv", "work", "exit", "gone"}]
    BY <1>21 DEF CallPanics
  <2>4. UNCHANGED <<mainVars, sourceVars, producerVars, batchVars, rxAlive, lock, at, late, stopVars>>
    BY <1>21 DEF CallPanics
  <2>5. QED
    BY <2>1, <2>2, <2>3, <2>4 DEF mainVars, sourceVars, producerVars, batchVars, stopVars
<1>22. ASSUME NEW w \in Workers, Exit(w) PROVE TypeOK'
  BY <1>22 DEF Exit, mainVars, sourceVars, producerVars, batchVars
<1>23. ASSUME NEW w \in Workers, StopBecomesVisible(w) PROVE TypeOK'
  BY <1>23 DEF StopBecomesVisible, mainVars, sourceVars, producerVars, batchVars, workerVars
<1>24. CASE UNCHANGED vars
  BY <1>24 DEF vars, mainVars, sourceVars, producerVars, batchVars, workerVars, stopVars
<1>25. QED
  BY <1>1, <1>2, <1>3, <1>4, <1>5, <1>6, <1>7, <1>8, <1>9, <1>10, <1>11, <1>12, <1>13,
     <1>14, <1>15, <1>16, <1>17, <1>18, <1>19, <1>20, <1>21, <1>22, <1>23, <1>24
  DEF Next, Main, Producer, Worker, Returned

(***************************************************************************)
(* Every variable of the pipeline stays within its type.                   *)
(***************************************************************************)
THEOREM TypeCorrect == Spec => []TypeOK
<1>1. Init => TypeOK
  BY InitType
<1>2. TypeOK /\ [Next]_vars => TypeOK'
  BY TypeStep
<1>3. QED
  BY <1>1, <1>2, PTL DEF Spec

(***************************************************************************)
(* The actions of the workers, and what the others leave alone.            *)
(***************************************************************************)
LEMMA StepsByThread ==
  ASSUME [Next]_vars
  PROVE  \/ Main \/ Producer
         \/ \E w \in Workers : Worker(w) \/ StopBecomesVisible(w)
         \/ UNCHANGED vars
BY DEF Next, Returned

\* The producer's steps leave the workers alone.
LEMMA ProducerLeavesWorkers ==
  Producer => UNCHANGED <<workerVars, stopVars, rxAlive, mainVars>>
BY DEF Producer, FrameRecord, FrameNeedsMore, FrameFails, BatchFull, Send, SendFails,
       ReadChunk, ReadEof, ReadFails

\* The calling thread's steps leave the workers alone.
LEMMA MainLeavesWorkers ==
  Main => \/ Spawn
          \/ UNCHANGED <<workerVars, stopVars>>
BY DEF Main, PrologRead, PrologFails, ConsumeEnds, JoinProducer, UnwindJoins

\* A worker's steps leave the other workers alone.
LEMMA WorkerLeavesOthers ==
  ASSUME NEW w \in Workers, Worker(w) \/ StopBecomesVisible(w)
  PROVE  UNCHANGED <<mainVars, sourceVars, producerVars, sent, rxAlive>>
BY DEF Worker, CheckStop, AcquireLock, RecvBatch, RecvDisconnected, CallReturns, CallPanics,
       Exit, StopBecomesVisible, batchVars

(***************************************************************************)
(* Prompt stop.                                                            *)
(***************************************************************************)
LEMMA StopInvStep == TypeOK /\ StopInv /\ [Next]_vars => StopInv'
<1> SUFFICES ASSUME TypeOK, StopInv, [Next]_vars PROVE StopInv'
  OBVIOUS
<1> USE DEF TypeOK, StopInv
<1>1. CASE UNCHANGED <<workerVars, stopVars>>
  BY <1>1 DEF workerVars, stopVars
<1>2. CASE Spawn
  BY <1>2 DEF Spawn, stopVars
<1>3. ASSUME NEW w \in Workers, CheckStop(w) PROVE StopInv'
  BY <1>3 DEF CheckStop, MustStop, stopVars
<1>4. ASSUME NEW w \in Workers, AcquireLock(w) PROVE StopInv'
  BY <1>4 DEF AcquireLock, stopVars
<1>5. ASSUME NEW w \in Workers, RecvBatch(w) PROVE StopInv'
  BY <1>5 DEF RecvBatch, stopVars
<1>6. ASSUME NEW w \in Workers, RecvDisconnected(w) PROVE StopInv'
  BY <1>6 DEF RecvDisconnected, stopVars
<1>7. ASSUME NEW w \in Workers, CallReturns(w) PROVE StopInv'
  BY <1>7 DEF CallReturns, BatchDone, stopVars
<1>8. ASSUME NEW w \in Workers, CallPanics(w) PROVE StopInv'
  BY <1>8 DEF CallPanics, stopVars
<1>9. ASSUME NEW w \in Workers, Exit(w) PROVE StopInv'
  BY <1>9 DEF Exit
<1>10. ASSUME NEW w \in Workers, StopBecomesVisible(w) PROVE StopInv'
  BY <1>10 DEF StopBecomesVisible, workerVars
<1>11. CASE UNCHANGED vars
  BY <1>1, <1>11 DEF vars
<1>12. QED
  BY StepsByThread, ProducerLeavesWorkers, MainLeavesWorkers,
     <1>1, <1>2, <1>3, <1>4, <1>5, <1>6, <1>7, <1>8, <1>9, <1>10, <1>11 DEF Worker

(***************************************************************************)
(* After a panic no worker receives more than one batch once it sees the   *)
(* flag, in every run of every pipeline.                                   *)
(***************************************************************************)
THEOREM WorkersStopPromptly == Spec => []PromptStop
<1>1. Init => TypeOK /\ StopInv
  BY InitType DEF Init, StopInv
<1>2. TypeOK /\ StopInv /\ [Next]_vars => (TypeOK /\ StopInv)'
  BY TypeStep, StopInvStep
<1>3. StopInv => PromptStop
  BY DEF StopInv, PromptStop
<1>4. QED
  BY <1>1, <1>2, <1>3, PTL DEF Spec

(***************************************************************************)
(* The batches.                                                            *)
(***************************************************************************)
LEMMA QueueFacts ==
  ASSUME TypeOK
  PROVE  /\ Len(queue) \in Nat
         /\ \A k \in 1 .. Len(queue) : queue[k] \in Batches
         /\ queue # <<>> =>
              /\ Len(queue) > 0
              /\ Head(queue) = queue[1]
              /\ Len(Tail(queue)) = Len(queue) - 1
              /\ \A k \in 1 .. Len(queue) - 1 : Tail(queue)[k] = queue[k + 1]
         /\ \A b \in Batches :
              /\ Len(Append(queue, b)) = Len(queue) + 1
              /\ \A k \in 1 .. Len(queue) : Append(queue, b)[k] = queue[k]
              /\ Append(queue, b)[Len(queue) + 1] = b
<1>1. queue \in Seq(Batches)
  BY DEF TypeOK
<1>2. QED
  BY <1>1, LenProperties, ElementOfSeq, EmptySeq, HeadTailProperties, AppendProperties

\* Every step keeps the batches right.
LEMMA BatchInvStep == TypeOK /\ BatchInv /\ ProducerInv /\ [Next]_vars => BatchInv'
<1> SUFFICES ASSUME TypeOK, BatchInv, ProducerInv, [Next]_vars PROVE BatchInv'
  OBVIOUS
<1> USE DEF BatchInv
<1>1. TypeOK'
  BY TypeStep
<1>2. ASSUME UNCHANGED <<sent, framed, queue, pc, hold, at>>, avail' >= avail PROVE BatchInv'
  BY <1>1, <1>2 DEF TypeOK, Holders, WithinCaps, CurrentBatch
<1>3. ASSUME NEW w \in Workers, UNCHANGED <<sent, framed, queue, hold, at, avail>>,
             pc[w] # "work", pc'[w] # "work", \A v \in Workers \ {w} : pc'[v] = pc[v]
      PROVE BatchInv'
  <2>1. Holders' = Holders
    BY <1>3 DEF Holders
  <2>2. QED
    BY <1>3, <2>1 DEF WithinCaps, CurrentBatch
<1>4. CASE Main
  <2>1. CASE PrologRead
    <3>1. avail' >= avail
      BY <2>1 DEF PrologRead, SourceYields, TypeOK
    <3>2. QED
      BY <1>2, <2>1, <3>1 DEF PrologRead, producerVars, batchVars, workerVars
  <2>2. CASE Spawn
    <3>1. Holders' = {}
      BY <2>2 DEF Spawn, Holders
    <3>2. QED
      BY <2>2, <3>1 DEF Spawn, batchVars, sourceVars, WithinCaps, CurrentBatch
  <2>3. CASE ConsumeEnds
    <3>1. CASE ScopePanics
      <4>1. Len(<<>>) = 0 /\ Holders' = {}
        BY <2>3 DEF ConsumeEnds, WorkersGone, Holders, workerVars
      <4>2. queue' = <<>>
        BY <2>3, <3>1 DEF ConsumeEnds
      <4>3. QED
        BY <2>3, <4>1, <4>2, KnobsPositive
        DEF ConsumeEnds, sourceVars, producerVars, WithinCaps, CurrentBatch
    <3>2. CASE ~ScopePanics
      <4>1. UNCHANGED <<sent, framed, queue, pc, hold, at, avail>>
        BY <2>3, <3>2 DEF ConsumeEnds, sourceVars, producerVars, workerVars
      <4>2. avail' >= avail
        BY <4>1 DEF TypeOK
      <4>3. QED
        BY <1>2, <4>1, <4>2
    <3>3. QED
      BY <3>1, <3>2
  <2>4. CASE PrologFails \/ JoinProducer \/ UnwindJoins
    BY <1>2, <2>4
    DEF PrologFails, JoinProducer, UnwindJoins, sourceVars, producerVars, batchVars, workerVars, TypeOK
  <2>5. QED
    BY <1>4, <2>1, <2>2, <2>3, <2>4 DEF Main
<1>5. CASE FrameRecord
  <2>1. framed' = framed + 1 /\ framed < avail /\ UNCHANGED <<sent, queue, pc, hold, at, avail>>
    BY <1>5 DEF FrameRecord, batchVars, workerVars, sourceVars
  <2>2. framed' - sent <= BatchRecords /\ Offset[framed] - Offset[sent] < BatchBytes
    BY <1>5, <2>1, KnobsPositive DEF FrameRecord, BatchOpen, Bytes, CurrentBatch, TypeOK
  <2>3. WithinCaps(CurrentBatch)'
    BY <2>1, <2>2 DEF WithinCaps, CurrentBatch, TypeOK
  <2>4. QED
    BY <2>1, <2>3 DEF TypeOK, Holders, WithinCaps
<1>6. CASE Send
  <2>1. /\ sent' = framed /\ queue' = Append(queue, CurrentBatch) /\ Len(queue) < Capacity
        /\ producer = "send"
        /\ UNCHANGED <<framed, avail, pc, hold, at>>
    BY <1>6 DEF Send, workerVars, sourceVars
  <2>2. sent < framed
    BY <2>1 DEF ProducerInv, TypeOK
  <2>3. /\ Len(queue') = Len(queue) + 1
        /\ \A k \in 1 .. Len(queue) : queue'[k] = queue[k]
        /\ queue'[Len(queue) + 1] = CurrentBatch
    BY <2>1, QueueFacts DEF CurrentBatch, Batches, TypeOK
  <2>4. Len(queue) \in Nat /\ \A k \in 1 .. Len(queue) : queue[k].lo \in Nat /\ queue[k].hi \in Nat
    BY QueueFacts DEF Batches
  <2>5. ASSUME NEW k \in 1 .. Len(queue')
        PROVE  /\ queue'[k].lo < queue'[k].hi
               /\ queue'[k].hi <= sent'
               /\ WithinCaps(queue'[k])
               /\ \A j \in 1 .. k - 1 : queue'[j].hi <= queue'[k].lo
    <3>1. CASE k <= Len(queue)
      <4>1. k \in 1 .. Len(queue) /\ queue'[k] = queue[k]
        BY <2>3, <2>4, <3>1
      <4>2. \A j \in 1 .. k - 1 : queue'[j] = queue[j]
        BY <2>3, <2>4, <3>1
      <4>3. queue[k].hi <= sent'
        BY <2>1, <2>2, <2>4, <4>1 DEF TypeOK
      <4>4. QED
        BY <4>1, <4>2, <4>3
    <3>2. CASE k = Len(queue) + 1
      <4>1. queue'[k] = CurrentBatch
        BY <2>3, <3>2
      <4>2. \A j \in 1 .. k - 1 : queue'[j] = queue[j] /\ queue[j].hi <= sent
        BY <2>3, <2>4, <3>2
      <4>3. WithinCaps(queue'[k])
        BY <4>1
      <4>4. QED
        BY <2>1, <2>2, <4>1, <4>2, <4>3 DEF CurrentBatch, TypeOK
    <3>3. QED
      BY <2>3, <2>4, <3>1, <3>2
  <2>6. Holders' = Holders
    BY <2>1 DEF Holders
  <2>7. \A w \in Holders : hold[w].hi <= sent' /\ \A k \in 1 .. Len(queue') : hold[w].hi <= queue'[k].lo
    <3>1. sent \in Nat /\ framed \in Nat
      BY BoundsNatural DEF TypeOK
    <3>2. ASSUME NEW w \in Holders
          PROVE  hold[w].hi <= sent /\ hold[w].hi <= sent'
      <4>1. hold[w].hi \in Nat
        BY BoundsNatural DEF TypeOK, Batches, Holders
      <4>2. hold[w].hi <= sent
        BY <3>2 DEF BatchInv
      <4>3. QED
        BY <2>1, <2>2, <3>1, <4>1, <4>2
    <3>3. ASSUME NEW w \in Holders, NEW k \in 1 .. Len(queue')
          PROVE  hold[w].hi <= queue'[k].lo
      <4>1. CASE k \in 1 .. Len(queue)
        <5>1. hold[w].hi <= queue[k].lo
          BY <3>3, <4>1 DEF BatchInv
        <5>2. QED
          BY <2>3, <4>1, <5>1
      <4>2. CASE k = Len(queue) + 1
        BY <2>3, <3>2, <4>2 DEF CurrentBatch
      <4>3. QED
        BY <2>3, <2>4, <4>1, <4>2
    <3>4. QED
      BY <3>2, <3>3
  <2>8. WithinCaps(CurrentBatch)'
    BY <2>1, KnobsPositive DEF WithinCaps, CurrentBatch, TypeOK
  <2>9. Len(queue') <= Capacity
    BY <2>1, <2>3, QueueFacts, KnobsPositive
  <2>10. sent' <= framed' /\ framed' <= avail'
    BY <2>1 DEF TypeOK
  <2>11. \A w \in Holders : WithinCaps(hold[w])'
    BY <2>1 DEF WithinCaps
  <2>12. \A k \in 1 .. Len(queue') : WithinCaps(queue[k])'
    BY <2>5 DEF WithinCaps
  <2>13. QED
    BY <2>1, <2>5, <2>6, <2>7, <2>8, <2>9, <2>10, <2>11, <2>12
<1>7. CASE ReadChunk
  <2>1. avail' >= avail
    BY <1>7 DEF ReadChunk, SourceYields, TypeOK
  <2>2. QED
    BY <1>2, <1>7, <2>1 DEF ReadChunk, batchVars, workerVars
<1>8. CASE FrameNeedsMore \/ FrameFails \/ BatchFull \/ SendFails \/ ReadEof \/ ReadFails
  <2>1. UNCHANGED <<sent, framed, queue, pc, hold, at, avail>>
    BY <1>8 DEF FrameNeedsMore, FrameFails, BatchFull, SendFails, ReadEof, ReadFails,
                sourceVars, batchVars, workerVars
  <2>2. QED
    BY <1>2, <2>1 DEF TypeOK
<1>9. ASSUME NEW w \in Workers, RecvBatch(w) PROVE BatchInv'
  <2>1. /\ queue # <<>> /\ queue' = Tail(queue) /\ w \notin Holders
        /\ hold' = [hold EXCEPT ![w] = queue[1]]
        /\ at' = [at EXCEPT ![w] = queue[1].lo]
        /\ Holders' = Holders \cup {w}
        /\ UNCHANGED <<sent, framed, avail>>
    BY <1>9, QueueFacts DEF RecvBatch, Holders, TypeOK, producerVars, sourceVars
  <2>2. /\ Len(queue) > 0 /\ Len(queue') = Len(queue) - 1
        /\ \A k \in 1 .. Len(queue') : queue'[k] = queue[k + 1]
    BY <2>1, QueueFacts
  <2>3. \A k \in 1 .. Len(queue') :
          /\ queue'[k].lo < queue'[k].hi
          /\ queue'[k].hi <= sent'
          /\ WithinCaps(queue'[k])
          /\ \A j \in 1 .. k - 1 : queue'[j].hi <= queue'[k].lo
          /\ queue[1].hi <= queue'[k].lo
    BY <2>1, <2>2, QueueFacts
  <2>4. /\ hold'[w] = queue[1] /\ at'[w] = queue[1].lo
        /\ \A v \in Workers \ {w} : hold'[v] = hold[v] /\ at'[v] = at[v]
    BY <2>1 DEF TypeOK
  <2>5. ASSUME NEW v \in Holders'
        PROVE  /\ hold'[v].lo <= at'[v]
               /\ at'[v] < hold'[v].hi
               /\ hold'[v].hi <= sent'
               /\ WithinCaps(hold'[v])
               /\ \A k \in 1 .. Len(queue') : hold'[v].hi <= queue'[k].lo
               /\ \A u \in Holders' \ {v} : hold'[u].hi <= at'[v] \/ hold'[v].hi <= at'[u]
    <3>1. CASE v = w
      BY <2>1, <2>2, <2>3, <2>4, <3>1, QueueFacts DEF Batches, Holders
    <3>2. CASE v # w
      BY <2>1, <2>2, <2>3, <2>4, <3>2, QueueFacts DEF Batches, Holders
    <3>3. QED
      BY <3>1, <3>2
  <2>6. WithinCaps(CurrentBatch)'
    BY <2>1 DEF WithinCaps, CurrentBatch
  <2>7. Len(queue') <= Capacity
    BY <2>2, QueueFacts, KnobsPositive
  <2>8. QED
    BY <2>1, <2>3, <2>5, <2>6, <2>7 DEF WithinCaps
<1>10. ASSUME NEW w \in Workers, CallReturns(w) PROVE BatchInv'
  <2>1. /\ w \in Holders
        /\ at' = [at EXCEPT ![w] = @ + 1]
        /\ UNCHANGED <<sent, framed, avail, queue>>
    BY <1>10 DEF CallReturns, Holders, producerVars, sourceVars, batchVars
  <2>2. WithinCaps(CurrentBatch)'
    BY <2>1 DEF WithinCaps, CurrentBatch
  <2>3. CASE BatchDone(w)
    <3>1. Holders' = Holders \ {w} /\ \A v \in Workers \ {w} : hold'[v] = hold[v] /\ at'[v] = at[v]
      BY <1>10, <2>3 DEF CallReturns, Holders, TypeOK
    <3>2. QED
      BY <2>1, <2>2, <3>1 DEF WithinCaps, Holders
  <2>4. CASE ~BatchDone(w)
    <3>1. Holders' = Holders /\ hold' = hold
      BY <1>10, <2>4 DEF CallReturns, Holders
    <3>2. at'[w] = at[w] + 1 /\ at'[w] < hold[w].hi
      BY <2>1, <2>4 DEF BatchDone, TypeOK, Batches, Holders
    <3>3. \A v \in Workers \ {w} : at'[v] = at[v]
      BY <2>1 DEF TypeOK
    <3>4. \A v \in Holders : hold[v].lo \in Nat /\ hold[v].hi \in Nat /\ at[v] \in Nat
      BY DEF Holders, TypeOK, Batches
    <3>5. ASSUME NEW v \in Holders
          PROVE  /\ hold[v].lo <= at'[v]
                 /\ at'[v] < hold[v].hi
                 /\ \A u \in Holders \ {v} : hold[u].hi <= at'[v] \/ hold[v].hi <= at'[u]
      BY <2>1, <3>2, <3>3, <3>4 DEF Holders
    <3>6. QED
      BY <2>1, <2>2, <3>1, <3>5 DEF WithinCaps
  <2>5. QED
    BY <2>3, <2>4
<1>11. ASSUME NEW w \in Workers, CallPanics(w) PROVE BatchInv'
  <2>1. /\ Holders' = Holders \ {w}
        /\ \A v \in Workers \ {w} : hold'[v] = hold[v]
        /\ UNCHANGED <<sent, framed, avail, queue, at>>
    BY <1>11 DEF CallPanics, Holders, TypeOK, producerVars, sourceVars, batchVars
  <2>2. QED
    BY <2>1 DEF WithinCaps, CurrentBatch, Holders
<1>12. ASSUME NEW w \in Workers,
              CheckStop(w) \/ AcquireLock(w) \/ RecvDisconnected(w) \/ Exit(w)
       PROVE BatchInv'
  BY <1>3, <1>12
  DEF CheckStop, AcquireLock, RecvDisconnected, Exit, TypeOK, sourceVars, producerVars, batchVars
<1>13. ASSUME NEW w \in Workers, StopBecomesVisible(w) PROVE BatchInv'
  BY <1>2, <1>13 DEF StopBecomesVisible, sourceVars, producerVars, batchVars, workerVars, TypeOK
<1>14. CASE UNCHANGED vars
  BY <1>2, <1>14 DEF vars, sourceVars, producerVars, batchVars, workerVars, TypeOK
<1>15. QED
  BY StepsByThread, <1>4, <1>5, <1>6, <1>7, <1>8, <1>9, <1>10, <1>11, <1>12, <1>13, <1>14
  DEF Producer, Worker

(***************************************************************************)
(* The threads' places and what they imply.                                *)
(***************************************************************************)
LEMMA ProducerInvStep ==
  TypeOK /\ BatchInv /\ ControlInv /\ ProducerInv /\ [Next]_vars => ProducerInv'
<1> SUFFICES ASSUME TypeOK, BatchInv, ControlInv, ProducerInv, [Next]_vars PROVE ProducerInv'
  OBVIOUS
<1> USE DEF ProducerInv
<1>1. ASSUME UNCHANGED <<producerVars, sourceVars, sent>>, rxAlive' => rxAlive PROVE ProducerInv'
  BY <1>1 DEF producerVars, sourceVars
<1>2. ASSUME NEW w \in Workers, Worker(w) \/ StopBecomesVisible(w) PROVE ProducerInv'
  BY <1>1, <1>2, WorkerLeavesOthers
<1>3. CASE PrologRead \/ Spawn
  BY <1>3 DEF PrologRead, Spawn, ControlInv, producerVars
<1>4. CASE PrologFails \/ JoinProducer \/ UnwindJoins
  BY <1>1, <1>4 DEF PrologFails, JoinProducer, UnwindJoins, batchVars
<1>5. CASE ConsumeEnds
  BY <1>1, <1>5 DEF ConsumeEnds, ScopePanics
<1>6. CASE FrameRecord
  BY <1>6 DEF FrameRecord, ControlInv, sourceVars, batchVars
<1>7. CASE FrameNeedsMore
  BY <1>7 DEF FrameNeedsMore, Dispatch, ControlInv, sourceVars, batchVars
<1>8. CASE FrameFails
  BY <1>8 DEF FrameFails, FinishProducer, BatchOpen, sourceVars, batchVars
<1>9. CASE BatchFull
  BY <1>9 DEF BatchFull, Dispatch, ControlInv, sourceVars, batchVars
<1>10. CASE Send
  BY <1>10 DEF Send, ControlInv, sourceVars
<1>11. CASE SendFails
  BY <1>11 DEF SendFails, FinishProducer, sourceVars, batchVars
<1>12. CASE ReadChunk
  BY <1>12 DEF ReadChunk, ControlInv, batchVars
<1>13. CASE ReadEof
  BY <1>13, KnobsPositive DEF ReadEof, Finish, FinishProducer, BatchInv, TypeOK, sourceVars, batchVars
<1>14. CASE ReadFails
  BY <1>14 DEF ReadFails, FinishProducer, sourceVars, batchVars
<1>15. CASE UNCHANGED vars
  BY <1>1, <1>15 DEF vars, batchVars
<1>16. QED
  BY StepsByThread, <1>2, <1>3, <1>4, <1>5, <1>6, <1>7, <1>8, <1>9, <1>10, <1>11, <1>12, <1>13,
     <1>14, <1>15 DEF Main, Producer

\* Every step keeps what holds of the threads that have ended.
LEMMA ExitInvStep ==
  TypeOK /\ StopInv /\ ControlInv /\ ExitInv /\ [Next]_vars => ExitInv'
<1> SUFFICES ASSUME TypeOK, StopInv, ControlInv, ExitInv, [Next]_vars PROVE ExitInv'
  OBVIOUS
<1> USE DEF ExitInv
<1>1. CASE Spawn
  BY <1>1 DEF Spawn, ControlInv, stopVars
<1>2. CASE ConsumeEnds
  <2>1. UNCHANGED <<panicked, stop, pc, producer>> /\ (queue' = queue \/ queue' = <<>>)
    BY <1>2 DEF ConsumeEnds, ScopePanics, workerVars, stopVars, producerVars
  <2>2. QED
    BY <2>1
<1>3. CASE PrologRead \/ PrologFails \/ JoinProducer \/ UnwindJoins \/ UNCHANGED vars
  <2>1. UNCHANGED <<panicked, stop, pc, producer, queue>>
    BY <1>3 DEF PrologRead, PrologFails, JoinProducer, UnwindJoins, vars, workerVars, stopVars,
                producerVars, batchVars
  <2>2. QED
    BY <2>1
<1>4. CASE Producer
  <2>1. producer # "done"
    BY <1>4 DEF Producer, FrameRecord, FrameNeedsMore, FrameFails, BatchFull, Send, SendFails,
                ReadChunk, ReadEof, ReadFails
  <2>2. UNCHANGED <<panicked, stop, pc>>
    BY <1>4, ProducerLeavesWorkers DEF workerVars, stopVars
  <2>3. QED
    BY <2>1, <2>2
<1>5. ASSUME NEW w \in Workers, CheckStop(w) PROVE ExitInv'
  BY <1>5 DEF CheckStop, MustStop, StopInv, TypeOK, producerVars, batchVars, stopVars
<1>6. ASSUME NEW w \in Workers, AcquireLock(w) PROVE ExitInv'
  BY <1>6 DEF AcquireLock, TypeOK, producerVars, batchVars, stopVars
<1>7. ASSUME NEW w \in Workers, RecvBatch(w) PROVE ExitInv'
  BY <1>7 DEF RecvBatch, TypeOK, producerVars, batchVars, stopVars
<1>8. ASSUME NEW w \in Workers, RecvDisconnected(w) PROVE ExitInv'
  BY <1>8 DEF RecvDisconnected, producerVars, batchVars
<1>9. ASSUME NEW w \in Workers, CallReturns(w) PROVE ExitInv'
  BY <1>9 DEF CallReturns, BatchDone, TypeOK, producerVars, batchVars, stopVars
<1>10. ASSUME NEW w \in Workers, CallPanics(w) PROVE ExitInv'
  BY <1>10 DEF CallPanics
<1>11. ASSUME NEW w \in Workers, Exit(w) PROVE ExitInv'
  BY <1>11 DEF Exit, TypeOK, producerVars, batchVars
<1>12. ASSUME NEW w \in Workers, StopBecomesVisible(w) PROVE ExitInv'
  BY <1>12 DEF StopBecomesVisible, workerVars, producerVars, batchVars
<1>13. QED
  BY StepsByThread, <1>1, <1>2, <1>3, <1>4, <1>5, <1>6, <1>7, <1>8, <1>9, <1>10, <1>11, <1>12
  DEF Main, Worker

\* Every step keeps the control states consistent.
LEMMA ControlInvStep ==
  TypeOK /\ ControlInv /\ [Next]_vars => ControlInv'
<1> SUFFICES ASSUME TypeOK, ControlInv, [Next]_vars PROVE ControlInv'
  OBVIOUS
<1> USE DEF ControlInv
<1>1. CASE PrologRead
  BY <1>1 DEF PrologRead, SourceYields, mainVars, producerVars, batchVars, workerVars, stopVars
<1>2. CASE PrologFails
  BY <1>2 DEF PrologFails, Return, sourceVars, producerVars, batchVars, workerVars, stopVars
<1>3. CASE Spawn
  BY <1>3 DEF Spawn, sourceVars, batchVars, stopVars
<1>4. CASE ConsumeEnds
  <2>1. producer # "unborn"
    BY <1>4 DEF ConsumeEnds
  <2>2. CASE ScopePanics
    BY <1>4, <2>1, <2>2
    DEF ConsumeEnds, ScopePanics, WorkersGone, sourceVars, producerVars, workerVars, stopVars
  <2>3. CASE ~ScopePanics
    BY <1>4, <2>1, <2>3
    DEF ConsumeEnds, ScopePanics, WorkersGone, sourceVars, producerVars, workerVars, stopVars
  <2>4. QED
    BY <2>2, <2>3
<1>5. CASE JoinProducer
  BY <1>5 DEF JoinProducer, Return, TypeOK, sourceVars, producerVars, batchVars, workerVars, stopVars
<1>6. CASE UnwindJoins
  BY <1>6 DEF UnwindJoins, Return, sourceVars, producerVars, batchVars, workerVars, stopVars
<1>7. CASE Producer
  <2>1. /\ UNCHANGED <<main, result, pc, panicked, stop, rxAlive>>
        /\ producer # "unborn" /\ producer' # "unborn" /\ producer # "done"
    BY <1>7 DEF Producer, FrameRecord, FrameNeedsMore, FrameFails, BatchFull, Send, SendFails,
                ReadChunk, ReadEof, ReadFails, Dispatch, FinishProducer, mainVars, workerVars, stopVars
  <2>2. tail' \notin {"prolog", "broken"}
    BY <1>7, <2>1
    DEF Producer, FrameRecord, FrameNeedsMore, FrameFails, BatchFull, Send, SendFails,
        ReadChunk, SourceYields, ReadEof, ReadFails, sourceVars
  <2>3. verdict' = "none" <=> producer' # "done"
    BY <1>7, <2>1
    DEF Producer, FrameRecord, FrameNeedsMore, FrameFails, BatchFull, Send, SendFails,
        ReadChunk, ReadEof, ReadFails, Dispatch, FinishProducer, Finish
  <2>4. QED
    BY <2>1, <2>2, <2>3
<1>8. ASSUME NEW w \in Workers, Worker(w) \/ StopBecomesVisible(w) PROVE ControlInv'
  <2>1. UNCHANGED <<main, result, producer, verdict, sent, avail, tail, rxAlive>>
    BY <1>8, WorkerLeavesOthers DEF mainVars, producerVars, sourceVars
  <2>2. CASE StopBecomesVisible(w)
    BY <2>1, <2>2 DEF StopBecomesVisible, workerVars, batchVars
  <2>3. CASE Worker(w)
    <3>1. pc[w] \notin {"unborn", "gone"}
      BY <2>3
      DEF Worker, CheckStop, AcquireLock, RecvBatch, RecvDisconnected, CallReturns, CallPanics, Exit
    <3>2. producer # "unborn" /\ main = "consume"
      BY <3>1 DEF TypeOK
    <3>3. \A v \in Workers : pc'[v] # "unborn"
      BY <2>3, <3>2
      DEF Worker, CheckStop, AcquireLock, RecvBatch, RecvDisconnected, CallReturns, BatchDone,
          CallPanics, Exit, TypeOK
    <3>4. QED
      BY <2>1, <3>2, <3>3
  <2>4. QED
    BY <1>8, <2>2, <2>3
<1>9. CASE UNCHANGED vars
  BY <1>9 DEF vars, mainVars, sourceVars, producerVars, batchVars, workerVars, stopVars
<1>10. QED
  BY StepsByThread, <1>1, <1>2, <1>3, <1>4, <1>5, <1>6, <1>7, <1>8, <1>9 DEF Main

(***************************************************************************)
(* The records.                                                            *)
(***************************************************************************)
RecordInv == ExactlyOnce /\ NothingLost

\* Every step keeps account of every record.
LEMMA RecordInvStep ==
  TypeOK /\ BatchInv /\ ControlInv /\ ProducerInv /\ RecordInv /\ [Next]_vars => RecordInv'
<1> SUFFICES ASSUME TypeOK, BatchInv, ControlInv, ProducerInv, RecordInv, [Next]_vars
             PROVE  RecordInv'
  OBVIOUS
<1> USE DEF RecordInv, ExactlyOnce, NothingLost
<1>1. ASSUME UNCHANGED <<visits, queue, hold, at, sent, panicked>>, Holders' = Holders
      PROVE  RecordInv'
  BY <1>1 DEF InQueue, InHand
<1>2. CASE Main
  <2>1. CASE ConsumeEnds
    <3>1. Holders' = {} /\ UNCHANGED <<visits, hold, at, sent, panicked>>
      BY <2>1 DEF ConsumeEnds, WorkersGone, Holders, workerVars
    <3>2. Holders = {}
      BY <2>1 DEF ConsumeEnds, WorkersGone, Holders
    <3>3. CASE ScopePanics
      <4>1. queue' = <<>> /\ Len(<<>>) = 0
        BY <2>1, <3>3 DEF ConsumeEnds
      <4>2. QED
        BY <3>1, <3>3, <4>1 DEF InQueue, InHand, ScopePanics
    <3>4. CASE ~ScopePanics
      BY <1>1, <2>1, <3>1, <3>2, <3>4 DEF ConsumeEnds
    <3>5. QED
      BY <3>3, <3>4
  <2>2. CASE Spawn
    <3>1. Holders' = Holders
      BY <2>2 DEF Spawn, Holders, ControlInv
    <3>2. QED
      BY <1>1, <2>2, <3>1 DEF Spawn, batchVars
  <2>3. CASE PrologRead \/ PrologFails \/ JoinProducer \/ UnwindJoins
    BY <1>1, <2>3
    DEF PrologRead, PrologFails, JoinProducer, UnwindJoins, Holders, batchVars, workerVars
  <2>4. QED
    BY <1>2, <2>1, <2>2, <2>3 DEF Main
<1>3. CASE Send
  <2>1. /\ sent' = framed /\ queue' = Append(queue, CurrentBatch)
        /\ UNCHANGED <<visits, hold, at, panicked, pc>>
    BY <1>3 DEF Send, workerVars
  <2>2. /\ Len(queue') = Len(queue) + 1 /\ Len(queue) \in Nat
        /\ \A k \in 1 .. Len(queue) : queue'[k] = queue[k]
        /\ queue'[Len(queue) + 1] = CurrentBatch
    BY <2>1, QueueFacts DEF CurrentBatch, Batches, TypeOK
  <2>3. \A i \in Records : InQueue(i)' <=> InQueue(i) \/ (sent <= i /\ i < framed)
    BY <2>1, <2>2 DEF InQueue, CurrentBatch
  <2>4. \A i \in Records : InHand(i)' <=> InHand(i)
    BY <2>1 DEF InHand, Holders
  <2>5. \A i \in Records : InHand(i) => i < sent
    BY DEF InHand, BatchInv, Holders, TypeOK, Batches, Records
  <2>6. sent <= framed
    BY DEF BatchInv
  <2>7. QED
    BY <2>1, <2>3, <2>4, <2>5, <2>6 DEF TypeOK, Records
<1>4. CASE Producer /\ ~Send
  <2>1. UNCHANGED <<queue, sent>>
    BY <1>4 DEF Producer, FrameRecord, FrameNeedsMore, FrameFails, BatchFull, SendFails,
                ReadChunk, ReadEof, ReadFails, batchVars
  <2>2. QED
    BY <1>1, <1>4, <2>1, ProducerLeavesWorkers DEF workerVars, Holders
<1>5. ASSUME NEW w \in Workers, RecvBatch(w) PROVE RecordInv'
  <2>1. /\ queue # <<>> /\ queue' = Tail(queue) /\ w \notin Holders
        /\ Holders' = Holders \cup {w}
        /\ hold'[w] = queue[1] /\ at'[w] = queue[1].lo
        /\ \A v \in Workers \ {w} : hold'[v] = hold[v] /\ at'[v] = at[v]
        /\ UNCHANGED <<sent, visits, panicked>>
    BY <1>5, QueueFacts DEF RecvBatch, Holders, TypeOK
  <2>2. /\ Len(queue) \in Nat /\ Len(queue) > 0 /\ Len(queue') = Len(queue) - 1
        /\ \A k \in 1 .. Len(queue') : queue'[k] = queue[k + 1]
    BY <2>1, QueueFacts
  <2>3. ASSUME NEW i \in Records
        PROVE  (InQueue(i) \/ InHand(i))' <=> InQueue(i) \/ InHand(i)
    <3>1. InHand(i)' <=> InHand(i) \/ (queue[1].lo <= i /\ i < queue[1].hi)
      BY <2>1 DEF InHand, Holders
    <3>2. InQueue(i) <=> InQueue(i)' \/ (queue[1].lo <= i /\ i < queue[1].hi)
      <4>1. ASSUME NEW k \in 1 .. Len(queue), queue[k].lo <= i, i < queue[k].hi, k # 1
            PROVE  InQueue(i)'
        <5>1. k - 1 \in 1 .. Len(queue') /\ queue'[k - 1] = queue[k]
          BY <2>2, <4>1
        <5>2. QED
          BY <4>1, <5>1 DEF InQueue
      <4>2. ASSUME NEW k \in 1 .. Len(queue'), queue'[k].lo <= i, i < queue'[k].hi
            PROVE  InQueue(i)
        <5>1. k + 1 \in 1 .. Len(queue) /\ queue'[k] = queue[k + 1]
          BY <2>2, <4>2
        <5>2. QED
          BY <4>2, <5>1 DEF InQueue
      <4>3. 1 \in 1 .. Len(queue)
        BY <2>2
      <4>4. QED
        BY <4>1, <4>2, <4>3 DEF InQueue
    <3>3. QED
      BY <3>1, <3>2
  <2>4. QED
    BY <2>1, <2>3
<1>6. ASSUME NEW w \in Workers, CallReturns(w) \/ CallPanics(w) PROVE RecordInv'
  <2>1. /\ w \in Holders
        /\ visits' = [visits EXCEPT ![at[w]] = @ + 1]
        /\ UNCHANGED <<queue, sent>>
        /\ \A v \in Workers \ {w} : hold'[v] = hold[v] /\ at'[v] = at[v] /\ pc'[v] = pc[v]
    BY <1>6 DEF CallReturns, BatchDone, CallPanics, Call, Holders, TypeOK, batchVars
  <2>2. at[w] \in Records /\ at[w] < hold[w].hi /\ hold[w].hi <= sent /\ at[w] < sent
    BY <2>1, BoundsNatural DEF BatchInv, TypeOK, Records, Batches, Holders
  <2>3. InHand(at[w]) /\ visits[at[w]] = 0
    BY <2>1, <2>2 DEF InHand, TypeOK
  <2>4. /\ visits'[at[w]] = 1
        /\ \A i \in Records \ {at[w]} : visits'[i] = visits[i]
    BY <2>1, <2>2, <2>3 DEF TypeOK
  <2>5. \A i \in Records : InQueue(i)' <=> InQueue(i)
    BY <2>1 DEF InQueue
  <2>6. ASSUME NEW k \in 1 .. Len(queue)
        PROVE  ~(queue[k].lo <= at[w] /\ at[w] < queue[k].hi)
    <3>1. queue[k].lo \in Nat
      BY QueueFacts, BoundsNatural DEF Batches
    <3>2. at[w] \in Nat /\ hold[w].hi \in Nat
      BY <2>1, BoundsNatural DEF TypeOK, Batches, Holders
    <3>3. hold[w].hi <= queue[k].lo
      BY <2>1 DEF BatchInv
    <3>4. QED
      BY <2>2, <3>1, <3>2, <3>3
  <2>7. ASSUME NEW v \in Holders \ {w}
        PROVE  ~(at[v] <= at[w] /\ at[w] < hold[v].hi)
    <3>1. at[v] \in Nat /\ hold[v].hi \in Nat
      BY BoundsNatural DEF TypeOK, Batches, Holders
    <3>2. at[w] \in Nat /\ hold[w].hi \in Nat
      BY BoundsNatural DEF TypeOK, Batches
    <3>3. hold[v].hi <= at[w] \/ hold[w].hi <= at[v]
      BY <2>1 DEF BatchInv
    <3>4. QED
      BY <2>2, <3>1, <3>2, <3>3
  <2>8. ASSUME NEW i \in Records, InHand(i)'
        PROVE  InHand(i) /\ i # at[w]
    <3>1. PICK v \in Holders' : at'[v] <= i /\ i < hold'[v].hi
      BY <2>8 DEF InHand
    <3>2. CASE v = w
      <4>1. hold'[w] = hold[w] /\ at'[w] = at[w] + 1
        BY <1>6, <3>1, <3>2 DEF CallReturns, BatchDone, CallPanics, Holders, TypeOK
      <4>2. QED
        BY <2>1, <3>1, <3>2, <4>1 DEF InHand, TypeOK, Records
    <3>3. CASE v # w
      BY <2>1, <2>7, <3>1, <3>3 DEF InHand, Holders
    <3>4. QED
      BY <3>2, <3>3
  <2>9. ExactlyOnce'
    <3>1. ~InQueue(at[w])
      BY <2>6 DEF InQueue
    <3>2. ASSUME NEW i \in Records \ {at[w]}
          PROVE  /\ visits'[i] <= 1
                 /\ InQueue(i)' \/ InHand(i)' => visits'[i] = 0
                 /\ i >= sent' => visits'[i] = 0
      BY <2>1, <2>4, <2>5, <2>8
    <3>3. ASSUME NEW i \in Records, i = at[w]
          PROVE  /\ visits'[i] <= 1
                 /\ InQueue(i)' \/ InHand(i)' => visits'[i] = 0
                 /\ i >= sent' => visits'[i] = 0
      <4>1. at[w] \in Nat /\ sent \in Nat
        BY BoundsNatural DEF TypeOK
      <4>2. ~(i >= sent')
        BY <2>1, <2>2, <3>3, <4>1
      <4>3. ~InQueue(i)'
        BY <2>5, <3>1, <3>3
      <4>4. ~InHand(i)'
        BY <2>8, <3>3
      <4>5. visits'[i] <= 1
        BY <2>4, <3>3
      <4>6. QED
        BY <4>2, <4>3, <4>4, <4>5
    <3>4. QED
      BY <3>2, <3>3
  <2>10. CASE CallPanics(w)
    BY <2>9, <2>10 DEF CallPanics
  <2>11. CASE CallReturns(w)
    <3>1. ASSUME NEW i \in Records, InHand(i), i # at[w]
          PROVE  InHand(i)'
      <4>1. PICK v \in Holders : at[v] <= i /\ i < hold[v].hi
        BY <3>1 DEF InHand
      <4>2. CASE v = w
        <5>0. at[w] \in Nat /\ hold[w].hi \in Nat /\ i \in Int
          BY <2>1, BoundsNatural DEF TypeOK, Batches, Holders, Records
        <5>1. ~BatchDone(w) /\ at[w] + 1 <= i
          <6>1. at[w] <= i /\ i < hold[w].hi /\ i # at[w]
            BY <3>1, <4>1, <4>2
          <6>2. QED
            BY <2>2, <5>0, <6>1 DEF BatchDone
        <5>2. at'[w] = at[w] + 1 /\ hold'[w] = hold[w] /\ w \in Holders'
          BY <2>1, <2>11, <5>1 DEF CallReturns, TypeOK, Holders
        <5>3. QED
          BY <4>1, <4>2, <5>1, <5>2 DEF InHand
      <4>3. CASE v # w
        BY <2>1, <4>1, <4>3 DEF InHand, Holders
      <4>4. QED
        BY <4>2, <4>3
    <3>2. panicked' = panicked
      BY <2>11 DEF CallReturns
    <3>3. QED
      BY <2>1, <2>4, <2>5, <2>9, <3>1, <3>2
  <2>12. QED
    BY <1>6, <2>10, <2>11
<1>7. ASSUME NEW w \in Workers,
             CheckStop(w) \/ AcquireLock(w) \/ RecvDisconnected(w) \/ Exit(w)
      PROVE  RecordInv'
  <2>1. Holders' = Holders
    BY <1>7 DEF CheckStop, AcquireLock, RecvDisconnected, Exit, Holders, TypeOK
  <2>2. QED
    BY <1>1, <1>7, <2>1 DEF CheckStop, AcquireLock, RecvDisconnected, Exit, batchVars
<1>8. ASSUME NEW w \in Workers, StopBecomesVisible(w) PROVE RecordInv'
  BY <1>1, <1>8 DEF StopBecomesVisible, Holders, batchVars, workerVars
<1>9. CASE UNCHANGED vars
  BY <1>1, <1>9 DEF vars, Holders, batchVars, workerVars
<1>10. QED
  BY StepsByThread, <1>2, <1>3, <1>4, <1>5, <1>6, <1>7, <1>8, <1>9 DEF Worker

(***************************************************************************)
(* The inductive invariant, and the properties that follow from it.        *)
(***************************************************************************)
LEMMA InitIInv == Init => IInv
<1> SUFFICES ASSUME Init PROVE IInv
  OBVIOUS
<1>1. TypeOK
  BY InitType
<1>2. Len(queue) = 0 /\ Holders = {}
  BY DEF Init, Holders
<1>3. StopInv
  BY DEF Init, StopInv
<1>4. BatchInv
  BY <1>2, KnobsPositive DEF Init, BatchInv, WithinCaps, CurrentBatch
<1>5. ControlInv /\ ProducerInv
  BY DEF Init, ControlInv, ProducerInv
<1>6. ExitInv
  BY DEF Init, ExitInv
<1>7. ExactlyOnce /\ NothingLost
  BY <1>2, BoundsNatural DEF Init, ExactlyOnce, NothingLost, InQueue, InHand, Records
<1>8. QED
  BY <1>1, <1>3, <1>4, <1>5, <1>6, <1>7 DEF IInv

\* Every step keeps the whole invariant.
LEMMA IInvStep == IInv /\ [Next]_vars => IInv'
BY TypeStep, StopInvStep, BatchInvStep, ControlInvStep, ProducerInvStep, ExitInvStep,
   RecordInvStep DEF IInv, RecordInv

(***************************************************************************)
(* The inductive invariant holds in every reachable state.                 *)
(***************************************************************************)
THEOREM InductiveInvariant == Spec => []IInv
<1>1. Init => IInv
  BY InitIInv
<1>2. IInv /\ [Next]_vars => IInv'
  BY IInvStep
<1>3. QED
  BY <1>1, <1>2, PTL DEF Spec

(***************************************************************************)
(* No record is handed to the closure twice.                               *)
(***************************************************************************)
THEOREM EveryRecordAtMostOnce == Spec => []ExactlyOnce
<1>1. IInv => ExactlyOnce
  BY DEF IInv
<1>2. QED
  BY <1>1, InductiveInvariant, PTL

(***************************************************************************)
(* Until a closure panics, no dispatched record is lost on its way.        *)
(***************************************************************************)
THEOREM NoDispatchedRecordLost == Spec => []NothingLost
<1>1. IInv => NothingLost
  BY DEF IInv
<1>2. QED
  BY <1>1, InductiveInvariant, PTL

(***************************************************************************)
(* When the call is over without a panic the workers have drained the      *)
(* channel: every dispatched record was visited.                           *)
(***************************************************************************)
LEMMA DrainedAtReturn ==
  ASSUME IInv, main = "returned" \/ main = "join", producer # "unborn", panicked = {}
  PROVE  \A i \in Records : i < sent => visits[i] = 1
<1>1. \A w \in Workers : pc[w] = "gone"
  BY DEF IInv, ControlInv
<1>2. 1 \in Workers
  BY KnobsPositive DEF Workers
<1>3. queue = <<>> /\ Len(<<>>) = 0
  BY <1>1, <1>2 DEF IInv, ExitInv
<1>4. Holders = {}
  BY <1>1 DEF Holders
<1>5. QED
  BY <1>3, <1>4 DEF IInv, NothingLost, InQueue, InHand

(***************************************************************************)
(* Ok(()) is returned only when the root has closed and every record of    *)
(* the document was visited.                                               *)
(***************************************************************************)
THEOREM OkIsComplete == Spec => []OkMeansAll
<1>1. IInv => OkMeansAll
  <2> SUFFICES ASSUME IInv, result = "ok" PROVE tail = "closed" /\ \A i \in Records : i < avail => visits[i] = 1
    BY DEF OkMeansAll
  <2>1. main = "returned" /\ producer # "unborn"
    BY DEF IInv, ControlInv
  <2>2. verdict = "ok" /\ rxAlive /\ panicked = {}
    BY <2>1 DEF IInv, ControlInv
  <2>3. sent = avail /\ tail = "closed"
    BY <2>2 DEF IInv, ProducerInv
  <2>4. QED
    BY <2>1, <2>2, <2>3, DrainedAtReturn
<1>2. QED
  BY <1>1, InductiveInvariant, PTL

(***************************************************************************)
(* An error costs at most the batch under construction, and only a framing *)
(* error costs that: everything dispatched was visited.                    *)
(***************************************************************************)
THEOREM ErrorsKeepDispatched == Spec => []ErrDeliversDispatched
<1>1. IInv => ErrDeliversDispatched
  <2> SUFFICES ASSUME IInv, result \in {"io", "malformed"}
               PROVE  /\ \A i \in Records : i < sent => visits[i] = 1
                      /\ avail - sent < BatchRecords
                      /\ sent # avail => result = "malformed" /\ tail = "bad"
    BY DEF ErrDeliversDispatched
  <2>1. main = "returned" /\ avail \in Nat /\ sent \in Nat
    BY BoundsNatural DEF IInv, ControlInv, TypeOK
  <2>2. CASE producer = "unborn"
    BY <2>1, <2>2, KnobsPositive DEF IInv, ControlInv, Records
  <2>3. CASE producer # "unborn"
    <3>1. verdict = result /\ panicked = {}
      BY <2>1, <2>3 DEF IInv, ControlInv
    <3>2. \A i \in Records : i < sent => visits[i] = 1
      BY <2>1, <2>3, <3>1, DrainedAtReturn
    <3>3. QED
      BY <2>1, <3>1, <3>2, KnobsPositive DEF IInv, ProducerInv
  <2>4. QED
    BY <2>2, <2>3
<1>2. QED
  BY <1>1, InductiveInvariant, PTL

(***************************************************************************)
(* The call panics exactly when a closure or the reader panicked.          *)
(***************************************************************************)
THEOREM PanicsSurface == Spec => []PanicSurfaces
<1>1. IInv => PanicSurfaces
  BY DEF IInv, ControlInv, PanicSurfaces
<1>2. QED
  BY <1>1, InductiveInvariant, PTL

(***************************************************************************)
(* At most capacity + workers + 1 batches exist, each within the caps.     *)
(***************************************************************************)
THEOREM MemoryIsBounded == Spec => []MemoryBound
<1>1. IInv => MemoryBound
  <2> SUFFICES ASSUME IInv PROVE MemoryBound
    OBVIOUS
  <2>1. NumWorkers \in Nat /\ Capacity \in Nat
    BY KnobsPositive
  <2>2. IsFiniteSet(Workers) /\ Cardinality(Workers) = NumWorkers
    BY <2>1, FS_Interval DEF Workers
  <2>3. Cardinality(Holders) \in Nat /\ Cardinality(Holders) <= NumWorkers
    <3>1. Holders \subseteq Workers
      BY DEF Holders
    <3>2. QED
      BY <2>2, <3>1, FS_Subset, FS_CardinalityType
  <2>4. Len(queue) \in Nat /\ Len(queue) <= Capacity
    BY LenProperties DEF IInv, BatchInv, TypeOK
  <2>5. LiveBatches <= Capacity + NumWorkers + 1
    BY <2>1, <2>3, <2>4 DEF LiveBatches
  <2>6. QED
    BY <2>5 DEF IInv, BatchInv, MemoryBound
<1>2. QED
  BY <1>1, InductiveInvariant, PTL

(***************************************************************************)
(* Refinement: every step of the pipeline is a step of the contract, or    *)
(* changes nothing that the contract speaks of.                            *)
(***************************************************************************)
LEMMA StepRefines == IInv /\ [Next]_vars => [Contract!Next]_Contract!vars
<1> SUFFICES ASSUME IInv, [Next]_vars PROVE [Contract!Next]_Contract!vars
  OBVIOUS
<1> USE DEF Contract!vars
<1>1. TypeOK /\ BatchInv /\ ControlInv /\ ProducerInv
  BY DEF IInv
<1>2. CASE PrologRead \/ Spawn
  BY <1>2 DEF PrologRead, Spawn, mainVars, producerVars, batchVars, workerVars
<1>3. CASE PrologFails
  <2>1. /\ result = "none" /\ result' \in {"malformed", "io", "panic"}
        /\ sent = 0 /\ framed = 0
        /\ UNCHANGED <<framed, sent, visits>>
    BY <1>1, <1>3
    DEF PrologFails, Return, ControlInv, BatchInv, TypeOK, producerVars, batchVars, workerVars
  <2>2. QED
    BY <2>1 DEF Contract!Next, Contract!ReturnErr, Contract!Panic, Contract!AllOfferedVisited,
                Contract!Records
<1>4. CASE ConsumeEnds
  BY <1>4 DEF ConsumeEnds, producerVars, workerVars
<1>5. CASE JoinProducer
  <2>1. /\ result = "none" /\ result' = verdict
        /\ verdict \in {"ok", "io", "malformed", "panic"}
        /\ rxAlive /\ panicked = {}
        /\ UNCHANGED <<framed, sent, visits>>
    BY <1>1, <1>5
    DEF JoinProducer, Return, ControlInv, TypeOK, producerVars, batchVars, workerVars
  <2>2. \A i \in Records : i < sent => visits[i] = 1
    BY <1>5, <2>1, DrainedAtReturn DEF JoinProducer
  <2>3. verdict \in {"ok", "io"} => sent = framed
    BY <1>1, <2>1 DEF ProducerInv, BatchInv, TypeOK
  <2>4. QED
    BY <2>1, <2>2, <2>3
    DEF Contract!Next, Contract!ReturnOk, Contract!ReturnErr, Contract!Panic,
        Contract!AllOfferedVisited, Contract!Records, Records
<1>6. CASE UnwindJoins
  <2>1. result = "none" /\ result' = "panic" /\ UNCHANGED <<framed, sent, visits>>
    BY <1>1, <1>6 DEF UnwindJoins, Return, ControlInv, producerVars, batchVars, workerVars
  <2>2. QED
    BY <2>1 DEF Contract!Next, Contract!Panic
<1>7. CASE FrameRecord
  <2>1. /\ result = "none" /\ framed < MaxRecords /\ framed' = framed + 1
        /\ UNCHANGED <<sent, visits, result>>
    BY <1>1, <1>7, BoundsNatural
    DEF FrameRecord, ControlInv, TypeOK, mainVars, batchVars, workerVars
  <2>2. QED
    BY <2>1 DEF Contract!Next, Contract!Find
<1>8. CASE Send
  <2>1. /\ result = "none" /\ sent' \in sent + 1 .. framed
        /\ UNCHANGED <<framed, visits, result>>
    BY <1>1, <1>8 DEF Send, ControlInv, ProducerInv, BatchInv, TypeOK, mainVars, workerVars
  <2>2. QED
    BY <2>1 DEF Contract!Next, Contract!Offer
<1>9. CASE Producer /\ ~FrameRecord /\ ~Send
  BY <1>9
  DEF Producer, FrameNeedsMore, FrameFails, BatchFull, SendFails, ReadChunk, ReadEof, ReadFails,
      mainVars, batchVars, workerVars
<1>10. ASSUME NEW w \in Workers, CallReturns(w) \/ CallPanics(w)
       PROVE  [Contract!Next]_Contract!vars
  <2>1. /\ w \in Holders /\ pc[w] = "work"
        /\ visits' = [visits EXCEPT ![at[w]] = @ + 1]
        /\ UNCHANGED <<framed, sent, result>>
    BY <1>10 DEF CallReturns, CallPanics, Call, Holders, mainVars, producerVars, batchVars
  <2>2. result = "none"
    BY <1>1, <2>1 DEF ControlInv, TypeOK
  <2>3. at[w] \in Records /\ at[w] < sent /\ at[w] < hold[w].hi
    BY <1>1, <2>1, BoundsNatural DEF BatchInv, TypeOK, Records, Batches, Holders
  <2>4. visits[at[w]] = 0
    BY <1>1, <2>1, <2>3 DEF IInv, ExactlyOnce, InHand, TypeOK
  <2>5. visits' = [visits EXCEPT ![at[w]] = 1]
    BY <2>1, <2>4
  <2>6. QED
    BY <2>1, <2>2, <2>3, <2>4, <2>5 DEF Contract!Next, Contract!Visit, Contract!Records, Records
<1>11. ASSUME NEW w \in Workers,
              \/ CheckStop(w) \/ AcquireLock(w) \/ RecvBatch(w) \/ RecvDisconnected(w)
              \/ Exit(w) \/ StopBecomesVisible(w)
       PROVE  UNCHANGED Contract!vars
  BY <1>11
  DEF CheckStop, AcquireLock, RecvBatch, RecvDisconnected, Exit, StopBecomesVisible,
      mainVars, producerVars, batchVars, workerVars
<1>12. CASE UNCHANGED vars
  BY <1>12 DEF vars, mainVars, producerVars, batchVars, workerVars
<1>13. QED
  BY StepsByThread, <1>2, <1>3, <1>4, <1>5, <1>6, <1>7, <1>8, <1>9, <1>10, <1>11, <1>12
  DEF Main, Worker

(***************************************************************************)
(* The pipeline keeps the promise of par_for_each (ParForEach).            *)
(***************************************************************************)
THEOREM PipelineKeepsContract == Spec => ContractHolds
<1>1. Init => Contract!Init
  BY DEF Init, Contract!Init, Records, Contract!Records
<1>2. IInv /\ [Next]_vars => [Contract!Next]_Contract!vars
  BY StepRefines
<1>3. QED
  BY <1>1, <1>2, InductiveInvariant, PTL DEF Spec, ContractHolds, Contract!Spec

-------------------------------------------------------------------------------
(***************************************************************************)
(* What PipelineContext guarantees for every document: which declarations  *)
(* a record is handed to the closure with.                                 *)
(*                                                                         *)
(* The containers are opened in document order.                            *)
(***************************************************************************)
LEMMA OpenedMonotone ==
  ASSUME NEW i \in 0 .. MaxRecords, NEW j \in 0 .. MaxRecords, i <= j
  PROVE  Opened[i] \in Nat /\ Opened[j] \in Nat /\ Opened[i] <= Opened[j]
BY ContainersAssumption, BoundsNatural

\* All that is opened is a container.
LEMMA OpenedIsContainer ==
  ASSUME NEW i \in 0 .. MaxRecords
  PROVE  Opened[i] \in Nat /\ 0 .. Opened[i] \subseteq Containers
<1>1. MaxRecords \in 0 .. MaxRecords /\ i <= MaxRecords
  BY BoundsNatural
<1>2. QED
  BY <1>1, OpenedMonotone DEF Containers

\* A start tag leaves a map.
LEMMA InsertType ==
  ASSUME NEW ns \in Contexts, NEW c \in Containers
  PROVE  Insert(ns, c) \in Contexts
<1>1. Declares[c] \in Contexts
  BY ContainersAssumption
<1>2. QED
  BY <1>1 DEF Insert, Contexts

(***************************************************************************)
(* Inserting what the root declares into the empty map, and what the next  *)
(* container declares into the map, keeps the last declaration of each     *)
(* prefix.                                                                 *)
(***************************************************************************)
LEMMA InsertRoot == Empty \in Contexts /\ Insert(Empty, 0) \in Contexts /\ IsAfter(Insert(Empty, 0), 0)
<1>1. 0 \in Containers
  BY OpenedIsContainer, BoundsNatural DEF Containers
<1>2. Empty \in Contexts
  BY DEF Empty, Contexts
<1>3. IsAfter(Insert(Empty, 0), 0)
  <2> SUFFICES ASSUME NEW p \in Prefixes
      PROVE  \/ Insert(Empty, 0)[p] = Undeclared /\ \A c \in 0 .. 0 : ~DeclaresPrefix(c, p)
             \/ \E c \in 0 .. 0 :
                 /\ DeclaresPrefix(c, p)
                 /\ Insert(Empty, 0)[p] = Declares[c][p]
                 /\ \A d \in c + 1 .. 0 : ~DeclaresPrefix(d, p)
    BY DEF IsAfter
  <2>1. Insert(Empty, 0)[p] = IF DeclaresPrefix(0, p) THEN Declares[0][p] ELSE Undeclared
    BY DEF Insert, Empty, DeclaresPrefix
  <2>2. 0 \in 0 .. 0 /\ (\A d \in 0 + 1 .. 0 : FALSE) /\ (\A c \in 0 .. 0 : c = 0)
    OBVIOUS
  <2>3. QED
    BY <2>1, <2>2
<1>4. QED
  BY <1>1, <1>2, <1>3, InsertType

\* One container more.
LEMMA InsertNext ==
  ASSUME NEW ns \in Contexts, NEW n \in Nat, IsAfter(ns, n)
  PROVE  IsAfter(Insert(ns, n + 1), n + 1)
<1> SUFFICES ASSUME NEW p \in Prefixes
    PROVE  \/ Insert(ns, n + 1)[p] = Undeclared /\ \A c \in 0 .. n + 1 : ~DeclaresPrefix(c, p)
           \/ \E c \in 0 .. n + 1 :
               /\ DeclaresPrefix(c, p)
               /\ Insert(ns, n + 1)[p] = Declares[c][p]
               /\ \A d \in c + 1 .. n + 1 : ~DeclaresPrefix(d, p)
  BY DEF IsAfter
<1>1. Insert(ns, n + 1)[p] = IF DeclaresPrefix(n + 1, p) THEN Declares[n + 1][p] ELSE ns[p]
  BY DEF Insert, DeclaresPrefix
<1>2. CASE DeclaresPrefix(n + 1, p)
  <2>1. n + 1 \in 0 .. n + 1 /\ \A d \in n + 1 + 1 .. n + 1 : FALSE
    OBVIOUS
  <2>2. QED
    BY <1>1, <1>2, <2>1
<1>3. CASE ~DeclaresPrefix(n + 1, p)
  <2>1. Insert(ns, n + 1)[p] = ns[p]
    BY <1>1, <1>3
  <2>2. \A d \in 0 .. n + 1 : d \in 0 .. n \/ d = n + 1
    OBVIOUS
  <2>3. CASE ns[p] = Undeclared /\ \A c \in 0 .. n : ~DeclaresPrefix(c, p)
    BY <1>3, <2>1, <2>2, <2>3
  <2>4. ASSUME NEW c \in 0 .. n, DeclaresPrefix(c, p), ns[p] = Declares[c][p],
               \A d \in c + 1 .. n : ~DeclaresPrefix(d, p)
        PROVE  \E x \in 0 .. n + 1 :
                 /\ DeclaresPrefix(x, p)
                 /\ Insert(ns, n + 1)[p] = Declares[x][p]
                 /\ \A d \in x + 1 .. n + 1 : ~DeclaresPrefix(d, p)
    <3>1. c \in 0 .. n + 1 /\ \A d \in c + 1 .. n + 1 : d \in c + 1 .. n \/ d = n + 1
      OBVIOUS
    <3>2. \A d \in c + 1 .. n + 1 : ~DeclaresPrefix(d, p)
      BY <1>3, <2>4, <3>1
    <3>3. QED
      BY <2>1, <2>4, <3>1, <3>2
  <2>5. QED
    BY <2>3, <2>4 DEF IsAfter
<1>4. QED
  BY <1>2, <1>3

(***************************************************************************)
(* The context only rides along: without it the steps are the pipeline's.  *)
(***************************************************************************)
LEMMA ContextStepIsStep == [ContextNext]_<<vars, contextVars>> => [Next]_vars
BY DEF ContextNext, SpawnWithPrelude, Descend, FrameInContainer, SendWithPrelude,
       ConsumeEndsDropping, RecvWithPrelude, CallWithPrelude, Elsewhere, Next, Main, Producer,
       Worker, vars

(***************************************************************************)
(* So everything proved of the pipeline holds with the context, too.       *)
(***************************************************************************)
THEOREM ContextSpecIsSpec == ContextSpec => Spec
<1>1. ContextInit => Init
  BY DEF ContextInit
<1>2. QED
  BY <1>1, ContextStepIsStep, PTL DEF ContextSpec, Spec

(***************************************************************************)
(* ContextOfBatch and GivenInv as facts about a later state: neither       *)
(* looks at anything but the values of these variables.                    *)
(***************************************************************************)
LEMMA BatchesKeep ==
  ASSUME ContextOfBatch, UNCHANGED <<queue, carried, context, hold>>, Holders' \subseteq Holders
  PROVE  ContextOfBatch'
BY DEF ContextOfBatch, OfBatch, IsAfter, Full, Bytes

\* What has been given stays given.
LEMMA GivenKeep ==
  ASSUME GivenInv, UNCHANGED <<visits, given>>
  PROVE  GivenInv'
BY DEF GivenInv, IsAfter

\* Before the prolog is read no batch exists.
LEMMA ContextInitInv == ContextInit => ContextInv
<1> SUFFICES ASSUME ContextInit PROVE ContextInv
  OBVIOUS
<1>1. <<>> \in Seq(Contexts) /\ Len(<<>>) = 0
  OBVIOUS
<1>2. Opened[0] \in Nat
  BY OpenedMonotone, BoundsNatural
<1>3. ContextTypeOK
  BY <1>1, InsertRoot DEF ContextInit, ContextTypeOK
<1>4. FramerContextInv
  BY <1>1, <1>2 DEF ContextInit, Init, FramerContextInv
<1>5. ContextOfBatch
  <2>1. Len(queue) = 0 /\ Holders = {}
    BY <1>1 DEF ContextInit, Init, Holders
  <2>2. \A k \in 1 .. 0 : FALSE
    OBVIOUS
  <2>3. QED
    BY <2>1, <2>2 DEF ContextOfBatch
<1>6. GivenInv
  BY DEF ContextInit, Init, GivenInv
<1>7. QED
  BY <1>3, <1>4, <1>5, <1>6 DEF ContextInv

(***************************************************************************)
(* The root start tag has been read: its declarations are in the map.      *)
(***************************************************************************)
LEMMA SpawnKeepsContext ==
  ASSUME IInv, IInv', ContextInv, SpawnWithPrelude
  PROVE  ContextInv'
<1> USE DEF ContextInv
<1>1. TypeOK /\ ControlInv
  BY DEF IInv
<1>2. /\ UNCHANGED <<queue, framed, sent, hold, visits, merged, carried, context, given>>
      /\ namespaces' = Insert(Empty, 0)
      /\ pc' = [w \in Workers |-> "check"]
  BY DEF SpawnWithPrelude, Spawn, batchVars
<1>3. IsAfter(namespaces', 0) /\ namespaces' \in Contexts
  BY <1>2, InsertRoot
<1>4. merged = 0
  BY <1>1 DEF SpawnWithPrelude, Spawn, ControlInv, FramerContextInv
<1>5. Holders' = {}
  BY <1>2 DEF Holders
<1>6. QED
  BY <1>2, <1>3, <1>4, <1>5, BatchesKeep, GivenKeep
  DEF ContextTypeOK, FramerContextInv, BatchOpen, CurrentBatch, Bytes

(***************************************************************************)
(* The framer merges a container that is in front of the next record.      *)
(***************************************************************************)
LEMMA DescendKeepsContext ==
  ASSUME IInv, IInv', ContextInv, Descend
  PROVE  ContextInv'
<1> USE DEF ContextInv
<1>1. TypeOK
  BY DEF IInv
<1>2. /\ UNCHANGED <<queue, framed, sent, producer, pc, hold, visits, carried, context, given>>
      /\ producer = "fill" /\ BatchOpen
      /\ merged < Opened[framed]
      /\ merged' = merged + 1
      /\ namespaces' = Insert(namespaces, merged + 1)
  BY DEF Descend, vars, batchVars, producerVars, workerVars
<1>3. /\ framed \in 0 .. MaxRecords
      /\ merged \in Nat /\ namespaces \in Contexts
      /\ IsAfter(namespaces, merged)
      /\ framed > 0 => Opened[framed - 1] <= merged
  BY <1>1, <1>2 DEF TypeOK, ContextTypeOK, FramerContextInv
<1>4. Opened[framed] \in Nat /\ merged + 1 \in Containers
  BY <1>2, <1>3, OpenedIsContainer
<1>5. framed > 0 => Opened[framed - 1] \in Nat
  BY <1>3, OpenedMonotone, BoundsNatural
<1>6. namespaces' \in Contexts /\ IsAfter(namespaces', merged')
  BY <1>2, <1>3, <1>4, InsertType, InsertNext
<1>7. ContextTypeOK'
  BY <1>2, <1>3, <1>6 DEF ContextTypeOK
<1>8. FramerContextInv'
  <2>1. /\ framed' > 0 => Opened[framed' - 1] <= merged'
        /\ merged' <= Opened[framed']
    BY <1>2, <1>3, <1>4, <1>5
  <2>2. BatchOpen'
    BY <1>2 DEF BatchOpen, CurrentBatch, Bytes
  <2>3. Len(carried') = Len(queue')
    BY <1>2 DEF FramerContextInv
  <2>4. QED
    BY <1>2, <1>6, <2>1, <2>2, <2>3 DEF FramerContextInv
<1>9. QED
  BY <1>2, <1>7, <1>8, BatchesKeep, GivenKeep DEF Holders

(***************************************************************************)
(* A record is framed behind its containers' start tags, or framing stops. *)
(***************************************************************************)
LEMMA FrameKeepsContext ==
  ASSUME IInv, IInv', ContextInv, FrameInContainer
  PROVE  ContextInv'
<1> USE DEF ContextInv
<1>1. TypeOK /\ TypeOK'
  BY DEF IInv
<1>2. /\ UNCHANGED <<queue, sent, pc, hold, visits, namespaces, merged, carried, context, given>>
      /\ producer = "fill" /\ BatchOpen /\ producer' # "unborn"
      /\ \/ framed' = framed + 1 /\ merged = Opened[framed]
         \/ framed' = framed
  <2>1. UNCHANGED <<namespaces, merged, carried, context, given>>
    BY DEF FrameInContainer, contextVars
  <2>2. CASE FrameRecord /\ merged = Opened[framed]
    BY <2>1, <2>2 DEF FrameRecord, batchVars, workerVars
  <2>3. CASE FrameNeedsMore
    BY <2>1, <2>3 DEF FrameNeedsMore, Dispatch, batchVars, workerVars
  <2>4. CASE FrameFails
    BY <2>1, <2>4 DEF FrameFails, FinishProducer, batchVars, workerVars
  <2>5. QED
    BY <2>2, <2>3, <2>4 DEF FrameInContainer
<1>3. /\ framed \in 0 .. MaxRecords /\ framed' \in 0 .. MaxRecords /\ merged \in Nat
      /\ IsAfter(namespaces', merged')
      /\ Len(carried') = Len(queue')
  BY <1>1, <1>2 DEF TypeOK, ContextTypeOK, FramerContextInv
<1>4. /\ framed' > 0 => Opened[framed' - 1] <= merged'
      /\ framed' > 0 /\ ~BatchOpen' => merged' = Opened[framed' - 1]
      /\ merged' <= Opened[framed']
  <2>1. CASE framed' = framed + 1 /\ merged = Opened[framed]
    <3>1. Opened[framed] \in Nat /\ Opened[framed] <= Opened[framed']
      BY <1>3, <2>1, OpenedMonotone
    <3>2. QED
      BY <1>2, <1>3, <2>1, <3>1
  <2>2. CASE framed' = framed
    <3>1. BatchOpen'
      BY <1>2, <2>2 DEF BatchOpen, CurrentBatch, Bytes
    <3>2. QED
      BY <1>2, <2>2, <3>1 DEF FramerContextInv
  <2>3. QED
    BY <1>2, <2>1, <2>2
<1>5. ContextTypeOK' /\ FramerContextInv'
  BY <1>2, <1>3, <1>4 DEF ContextTypeOK, FramerContextInv
<1>6. QED
  BY <1>2, <1>5, BatchesKeep, GivenKeep DEF Holders

(***************************************************************************)
(* A batch is sent with the map as it was when framing stopped behind it.  *)
(***************************************************************************)
LEMMA SendKeepsContext ==
  ASSUME IInv, IInv', ContextInv, SendWithPrelude
  PROVE  ContextInv'
<1> USE DEF ContextInv
<1>1. TypeOK /\ TypeOK' /\ BatchInv /\ ProducerInv
  BY DEF IInv
<1>2. /\ UNCHANGED <<pc, hold, visits, framed, namespaces, merged, context, given>>
      /\ producer = "send" /\ producer' # "unborn"
      /\ sent' = framed
      /\ queue' = Append(queue, CurrentBatch)
      /\ carried' = Append(carried, namespaces)
  BY DEF SendWithPrelude, Prelude, Send, workerVars
<1>3. CurrentBatch \in Batches /\ CurrentBatch.hi = framed
  BY <1>1 DEF CurrentBatch, Batches, TypeOK
<1>4. framed > 0 /\ framed \in 0 .. MaxRecords
  BY <1>1, <1>2 DEF ProducerInv, BatchInv, TypeOK
<1>5. OfBatch(namespaces, CurrentBatch)
  <2>1. /\ IsAfter(namespaces, merged) /\ merged \in Nat
        /\ Opened[framed - 1] <= merged /\ merged <= Opened[framed]
        /\ ~BatchOpen => merged = Opened[framed - 1]
    BY <1>2, <1>4 DEF FramerContextInv, ContextTypeOK
  <2>2. Opened[framed - 1] \in Nat /\ Opened[framed] \in Nat
    BY <1>4, OpenedMonotone, BoundsNatural
  <2>3. Full(CurrentBatch) => ~BatchOpen
    <3>1. Bytes(CurrentBatch) \in Int /\ framed - sent \in Int
      BY <1>1, DocumentAssumption DEF Bytes, CurrentBatch, TypeOK
    <3>2. CurrentBatch.hi - CurrentBatch.lo = framed - sent
      BY DEF CurrentBatch
    <3>3. QED
      BY <3>1, <3>2, KnobsPositive DEF Full, BatchOpen
  <2>4. merged \in Opened[CurrentBatch.hi - 1] .. Opened[CurrentBatch.hi]
    BY <1>3, <2>1, <2>2
  <2>5. QED
    BY <1>3, <2>1, <2>3, <2>4 DEF OfBatch
<1>6. /\ carried' \in Seq(Contexts)
      /\ Len(carried') = Len(carried) + 1
      /\ \A k \in 1 .. Len(carried) : carried'[k] = carried[k]
      /\ carried'[Len(carried) + 1] = namespaces
  BY <1>2, AppendProperties DEF ContextTypeOK
<1>7. /\ Len(queue) \in Nat
      /\ Len(queue') = Len(queue) + 1
      /\ \A k \in 1 .. Len(queue) : queue'[k] = queue[k]
      /\ queue'[Len(queue) + 1] = CurrentBatch
  BY <1>1, <1>2, <1>3, QueueFacts
<1>8. \A k \in 1 .. Len(queue') : OfBatch(carried'[k], queue'[k])
  <2> SUFFICES ASSUME NEW k \in 1 .. Len(queue') PROVE OfBatch(carried'[k], queue'[k])
    OBVIOUS
  <2>1. Len(carried) = Len(queue)
    BY DEF FramerContextInv
  <2>2. CASE k \in 1 .. Len(queue)
    <3>1. OfBatch(carried[k], queue[k])
      BY <2>2 DEF ContextOfBatch
    <3>2. carried'[k] = carried[k] /\ queue'[k] = queue[k]
      BY <1>6, <1>7, <2>1, <2>2
    <3>3. QED
      BY <3>1, <3>2
  <2>3. CASE k = Len(queue) + 1
    <3>1. carried'[k] = namespaces /\ queue'[k] = CurrentBatch
      BY <1>6, <1>7, <2>1, <2>3
    <3>2. QED
      BY <1>5, <3>1
  <2>4. k \in 1 .. Len(queue) \/ k = Len(queue) + 1
    BY <1>7
  <2>5. QED
    BY <2>2, <2>3, <2>4
<1>9. BatchOpen'
  <2>1. framed' - sent' = 0 /\ Bytes(CurrentBatch)' = 0
    BY <1>1, <1>2, <1>4, DocumentAssumption DEF Bytes, CurrentBatch, TypeOK
  <2>2. QED
    BY <2>1, KnobsPositive DEF BatchOpen
<1>10. ContextTypeOK' /\ FramerContextInv'
  BY <1>2, <1>6, <1>7, <1>9 DEF ContextTypeOK, FramerContextInv
<1>11. ContextOfBatch'
  BY <1>2, <1>8 DEF ContextOfBatch, Holders
<1>12. QED
  BY <1>2, <1>10, <1>11, GivenKeep

(***************************************************************************)
(* A worker takes the oldest batch and its map.                            *)
(***************************************************************************)
LEMMA RecvKeepsContext ==
  ASSUME IInv, IInv', ContextInv, NEW w \in Workers, RecvWithPrelude(w)
  PROVE  ContextInv'
<1> USE DEF ContextInv
<1>1. TypeOK /\ TypeOK'
  BY DEF IInv
<1>2. /\ UNCHANGED <<visits, framed, sent, producer, namespaces, merged, given>>
      /\ queue # <<>>
      /\ queue' = Tail(queue)
      /\ hold' = [hold EXCEPT ![w] = Head(queue)]
      /\ pc' = [pc EXCEPT ![w] = "work"]
      /\ carried' = Tail(carried)
      /\ context' = [context EXCEPT ![w] = Head(carried)]
  BY DEF RecvWithPrelude, RecvBatch, producerVars
<1>3. /\ Len(queue) \in Nat /\ Len(queue) > 0
      /\ Head(queue) = queue[1]
      /\ Len(Tail(queue)) = Len(queue) - 1
      /\ \A k \in 1 .. Len(queue) - 1 : Tail(queue)[k] = queue[k + 1]
  BY <1>1, <1>2, QueueFacts
<1>4. Len(carried) = Len(queue) /\ carried \in Seq(Contexts)
  BY DEF FramerContextInv, ContextTypeOK
<1>5. carried # <<>>
  BY <1>3, <1>4
<1>6. /\ Head(carried) = carried[1] /\ Head(carried) \in Contexts
      /\ Tail(carried) \in Seq(Contexts)
      /\ Len(Tail(carried)) = Len(carried) - 1
      /\ \A k \in 1 .. Len(carried) - 1 : Tail(carried)[k] = carried[k + 1]
  BY <1>3, <1>4, <1>5, HeadTailProperties
<1>7. OfBatch(Head(carried), Head(queue))
  BY <1>3, <1>6 DEF ContextOfBatch
<1>8. \A k \in 1 .. Len(queue') : OfBatch(carried'[k], queue'[k])
  BY <1>2, <1>3, <1>4, <1>6 DEF ContextOfBatch
<1>9. \A v \in Holders' : OfBatch(context'[v], hold'[v])
  BY <1>1, <1>2, <1>7 DEF ContextOfBatch, Holders, TypeOK, ContextTypeOK
<1>10. ContextTypeOK'
  BY <1>2, <1>6 DEF ContextTypeOK
<1>11. FramerContextInv'
  BY <1>2, <1>3, <1>4, <1>6 DEF FramerContextInv, BatchOpen, CurrentBatch, Bytes
<1>12. ContextOfBatch'
  BY <1>8, <1>9 DEF ContextOfBatch
<1>13. QED
  BY <1>2, <1>10, <1>11, <1>12, GivenKeep

(***************************************************************************)
(* The map of a batch is, of each of its records, that of a moment between *)
(* the record and the last one that can be in a batch with it.             *)
(***************************************************************************)
LEMMA MomentOfRecord ==
  ASSUME NEW ns, NEW b \in Batches, OfBatch(ns, b), WithinCaps(b),
         NEW i \in Nat, b.lo <= i, i < b.hi
  PROVE  \E n \in Opened[i] .. Opened[LastWith(i)] : IsAfter(ns, n)
<1>1. /\ b.lo \in Nat /\ b.hi \in 0 .. MaxRecords /\ MaxRecords \in Nat /\ BatchRecords \in Nat \ {0}
      /\ b.hi - b.lo <= BatchRecords
  BY BoundsNatural, KnobsPositive DEF Batches, WithinCaps
<1>2. PICK n \in Opened[b.hi - 1] .. Opened[b.hi] :
        IsAfter(ns, n) /\ (Full(b) => n = Opened[b.hi - 1])
  BY DEF OfBatch
<1>3. i \in 0 .. MaxRecords /\ b.hi - 1 \in 0 .. MaxRecords /\ i <= b.hi - 1
  BY <1>1
<1>4. /\ Opened[i] \in Nat /\ Opened[b.hi - 1] \in Nat /\ Opened[b.hi] \in Nat
      /\ Opened[i] <= Opened[b.hi - 1]
  BY <1>1, <1>3, OpenedMonotone
<1>5. LastWith(i) \in 0 .. MaxRecords /\ b.hi - 1 <= LastWith(i)
      /\ (b.hi - b.lo < BatchRecords => b.hi <= LastWith(i))
  BY <1>1, <1>3 DEF LastWith
<1>6. Opened[LastWith(i)] \in Nat
  BY <1>5, OpenedMonotone
<1>7. n <= Opened[LastWith(i)]
  <2>1. CASE Full(b)
    <3>1. Opened[b.hi - 1] <= Opened[LastWith(i)]
      BY <1>3, <1>5, OpenedMonotone
    <3>2. QED
      BY <1>2, <2>1, <3>1
  <2>2. CASE ~Full(b)
    <3>1. b.hi <= LastWith(i)
      BY <1>1, <1>5, <2>2 DEF Full
    <3>2. Opened[b.hi] <= Opened[LastWith(i)]
      BY <1>1, <1>5, <3>1, OpenedMonotone
    <3>3. QED
      BY <1>2, <1>4, <1>6, <3>2
  <2>3. QED
    BY <2>1, <2>2
<1>8. n \in Opened[i] .. Opened[LastWith(i)]
  BY <1>2, <1>4, <1>6, <1>7
<1>9. QED
  BY <1>2, <1>8

(***************************************************************************)
(* The closure is called with a record of the batch in hand.               *)
(***************************************************************************)
LEMMA CallKeepsContext ==
  ASSUME IInv, IInv', ContextInv, NEW w \in Workers, CallWithPrelude(w)
  PROVE  ContextInv'
<1> USE DEF ContextInv
<1>1. TypeOK /\ TypeOK' /\ BatchInv
  BY DEF IInv
<1>2. /\ UNCHANGED <<queue, framed, sent, producer, namespaces, merged, carried, context>>
      /\ w \in Holders
      /\ visits' = [visits EXCEPT ![at[w]] = @ + 1]
      /\ given' = [given EXCEPT ![at[w]] = context[w]]
      /\ \A v \in Workers \ {w} : pc'[v] = pc[v] /\ hold'[v] = hold[v]
      /\ pc'[w] = "work" => hold'[w] = hold[w]
  <2>1. /\ UNCHANGED <<namespaces, merged, carried, context>>
        /\ given' = [given EXCEPT ![at[w]] = context[w]]
    BY DEF CallWithPrelude
  <2>2. CASE CallReturns(w)
    BY <1>1, <2>1, <2>2 DEF CallReturns, Call, producerVars, batchVars, Holders, TypeOK
  <2>3. CASE CallPanics(w)
    BY <1>1, <2>1, <2>3 DEF CallPanics, Call, producerVars, batchVars, Holders, TypeOK
  <2>4. QED
    BY <2>2, <2>3 DEF CallWithPrelude
<1>3. /\ hold[w] \in Batches /\ at[w] < hold[w].hi /\ at[w] \in Nat
      /\ hold[w].lo <= at[w] /\ WithinCaps(hold[w])
  BY <1>1, <1>2 DEF BatchInv, TypeOK
<1>4. at[w] \in Records
  BY <1>3, BoundsNatural DEF Batches, Records
<1>5. OfBatch(context[w], hold[w]) /\ context[w] \in Contexts
  BY <1>2 DEF ContextOfBatch, ContextTypeOK
<1>6. \E n \in Opened[at[w]] .. Opened[LastWith(at[w])] : IsAfter(context[w], n)
  BY <1>3, <1>5, MomentOfRecord
<1>7. GivenInv'
  <2>1. ASSUME NEW i \in Records, visits'[i] > 0
        PROVE  \E n \in Opened[i] .. Opened[LastWith(i)] : IsAfter(given'[i], n)
    <3>1. CASE i = at[w]
      <4>1. given'[i] = context[w]
        BY <1>2, <1>4, <3>1 DEF ContextTypeOK
      <4>2. QED
        BY <1>6, <3>1, <4>1
    <3>2. CASE i # at[w]
      <4>1. given'[i] = given[i] /\ visits'[i] = visits[i]
        BY <1>1, <1>2, <3>2 DEF ContextTypeOK, TypeOK
      <4>2. QED
        BY <2>1, <4>1 DEF GivenInv
    <3>3. QED
      BY <3>1, <3>2
  <2>2. QED
    BY <2>1 DEF GivenInv
<1>8. ContextOfBatch'
  <2>1. \A v \in Holders' : v \in Holders /\ hold'[v] = hold[v]
    BY <1>2 DEF Holders
  <2>2. \A v \in Holders' : OfBatch(context'[v], hold'[v])
    BY <1>2, <2>1 DEF ContextOfBatch
  <2>3. \A k \in 1 .. Len(queue') : OfBatch(carried'[k], queue'[k])
    BY <1>2 DEF ContextOfBatch
  <2>4. QED
    BY <2>2, <2>3 DEF ContextOfBatch
<1>9. ContextTypeOK'
  BY <1>2, <1>5 DEF ContextTypeOK
<1>10. FramerContextInv'
  BY <1>2 DEF FramerContextInv, BatchOpen, CurrentBatch, Bytes
<1>11. QED
  BY <1>7, <1>8, <1>9, <1>10

(***************************************************************************)
(* The channel is dropped together with the maps of its batches.           *)
(***************************************************************************)
LEMMA DropKeepsContext ==
  ASSUME IInv, IInv', ContextInv, ConsumeEndsDropping
  PROVE  ContextInv'
<1> USE DEF ContextInv
<1>1. UNCHANGED <<visits, framed, sent, producer, pc, hold, namespaces, merged, context, given>>
  BY DEF ConsumeEndsDropping, ConsumeEnds, producerVars, workerVars
<1>2. CASE ScopePanics
  <2>1. queue' = <<>> /\ carried' = <<>> /\ <<>> \in Seq(Contexts) /\ Len(<<>>) = 0
    BY <1>2 DEF ConsumeEndsDropping, ConsumeEnds
  <2>2. ContextTypeOK' /\ FramerContextInv'
    BY <1>1, <2>1 DEF ContextTypeOK, FramerContextInv, BatchOpen, CurrentBatch, Bytes
  <2>3. ContextOfBatch'
    <3>1. \A k \in 1 .. Len(queue') : OfBatch(carried'[k], queue'[k])
      BY <2>1
    <3>2. \A v \in Holders' : OfBatch(context'[v], hold'[v])
      BY <1>1 DEF ContextOfBatch, Holders
    <3>3. QED
      BY <3>1, <3>2 DEF ContextOfBatch
  <2>4. QED
    BY <1>1, <2>2, <2>3, GivenKeep
<1>3. CASE ~ScopePanics
  <2>1. UNCHANGED <<queue, carried>>
    BY <1>3 DEF ConsumeEndsDropping, ConsumeEnds
  <2>2. ContextTypeOK' /\ FramerContextInv'
    BY <1>1, <2>1 DEF ContextTypeOK, FramerContextInv, BatchOpen, CurrentBatch, Bytes
  <2>3. QED
    BY <1>1, <2>1, <2>2, BatchesKeep, GivenKeep DEF Holders
<1>4. QED
  BY <1>2, <1>3

(***************************************************************************)
(* The other steps move no batch: a worker that holds one keeps it.        *)
(***************************************************************************)
LEMMA ElsewhereKeepsContext ==
  ASSUME IInv, ContextInv, Elsewhere \/ UNCHANGED <<vars, contextVars>>
  PROVE  ContextInv'
<1> USE DEF ContextInv
<1>1. UNCHANGED <<queue, sent, hold, visits, framed, namespaces, merged, carried, context, given>>
  BY DEF Elsewhere, contextVars, PrologRead, PrologFails, JoinProducer, UnwindJoins,
         BatchFull, SendFails, ReadChunk, ReadEof, ReadFails, CheckStop, AcquireLock,
         RecvDisconnected, Exit, StopBecomesVisible, Returned, vars,
         batchVars, workerVars, producerVars
<1>2. producer' = "unborn" <=> producer = "unborn"
  BY DEF Elsewhere, PrologRead, PrologFails, JoinProducer, UnwindJoins,
         BatchFull, Dispatch, SendFails, FinishProducer, ReadChunk, ReadEof, ReadFails, CheckStop,
         AcquireLock, RecvDisconnected, Exit, StopBecomesVisible, Returned, vars, producerVars
<1>3. Holders' \subseteq Holders
  <2>1. TypeOK
    BY DEF IInv
  <2>2. \A w \in Workers : pc'[w] = "work" => pc[w] = "work"
    BY <2>1 DEF Elsewhere, PrologRead, PrologFails, JoinProducer, UnwindJoins,
         BatchFull, SendFails, ReadChunk, ReadEof, ReadFails, CheckStop, AcquireLock,
         RecvDisconnected, Exit, StopBecomesVisible, Returned, vars, workerVars, TypeOK
  <2>3. QED
    BY <2>2 DEF Holders
<1>4. ContextTypeOK' /\ FramerContextInv'
  BY <1>1, <1>2 DEF ContextTypeOK, FramerContextInv, BatchOpen, CurrentBatch, Bytes
<1>5. QED
  BY <1>1, <1>3, <1>4, BatchesKeep, GivenKeep

\* Every step keeps the contexts right.
LEMMA ContextInvStep ==
  IInv /\ ContextInv /\ [ContextNext]_<<vars, contextVars>> => ContextInv'
<1> SUFFICES ASSUME IInv, ContextInv, [ContextNext]_<<vars, contextVars>> PROVE ContextInv'
  OBVIOUS
<1>1. IInv'
  BY ContextStepIsStep, IInvStep
<1>2. QED
  BY <1>1, SpawnKeepsContext, DescendKeepsContext, FrameKeepsContext, SendKeepsContext,
     RecvKeepsContext, CallKeepsContext, DropKeepsContext, ElsewhereKeepsContext
  DEF ContextNext

(***************************************************************************)
(* The inductive invariant of the pipeline with its maps.                  *)
(***************************************************************************)
THEOREM ContextInvariant == ContextSpec => []ContextInv
<1>1. ContextInit => ContextInv
  BY ContextInitInv
<1>2. IInv /\ ContextInv /\ [ContextNext]_<<vars, contextVars>> => ContextInv'
  BY ContextInvStep
<1>3. ContextSpec => []IInv
  BY ContextSpecIsSpec, InductiveInvariant, PTL
<1>4. QED
  BY <1>1, <1>2, <1>3, PTL DEF ContextSpec

(***************************************************************************)
(* Whatever the document and its declarations, the knobs, the number of    *)
(* workers and the timing of reads and sends: a batch travels with the map *)
(* at its last record, or a later one if the bytes read ended there, which *)
(* has what the containers in front of the next record declare.            *)
(***************************************************************************)
THEOREM EveryBatchHasItsContext == ContextSpec => []ContextOfBatch
BY ContextInvariant, PTL DEF ContextInv

(***************************************************************************)
(* A prefix in a map is declared by the last container that declares it:   *)
(* not by one in front of those around the record, if these declare it,    *)
(* nor by one in front of another that begins in front of the record.      *)
(***************************************************************************)
LEMMA OwnFollows == ContextInv => OwnUnlessRedeclared
<1> SUFFICES ASSUME ContextInv, NEW i \in Records, visits[i] > 0,
                    NEW p \in Prefixes, NEW c \in Around[i], DeclaresPrefix(c, p)
    PROVE  \E d \in c .. Opened[LastWith(i)] :
             /\ DeclaresPrefix(d, p)
             /\ given[i][p] = Declares[d][p]
             /\ \A e \in d + 1 .. Opened[i] : ~DeclaresPrefix(e, p)
  BY DEF OwnUnlessRedeclared
<1>1. PICK n \in Opened[i] .. Opened[LastWith(i)] : IsAfter(given[i], n)
  BY DEF ContextInv, GivenInv
<1>2. /\ i \in 0 .. MaxRecords /\ LastWith(i) \in 0 .. MaxRecords
  BY BoundsNatural, KnobsPositive DEF Records, LastWith
<1>3. Opened[i] \in Nat /\ Opened[LastWith(i)] \in Nat
  BY <1>2, OpenedMonotone
<1>4. c \in 0 .. Opened[i]
  BY ContainersAssumption
<1>5. c \in 0 .. n
  BY <1>1, <1>3, <1>4
<1>6. PICK d \in 0 .. n : /\ DeclaresPrefix(d, p)
                          /\ given[i][p] = Declares[d][p]
                          /\ \A e \in d + 1 .. n : ~DeclaresPrefix(e, p)
  BY <1>1, <1>5 DEF IsAfter
<1>7. c <= d
  <2> SUFFICES ASSUME d < c PROVE FALSE
    BY <1>5, <1>6
  <2>1. c \in d + 1 .. n
    BY <1>5, <1>6
  <2>2. QED
    BY <1>6, <2>1
<1>8. d \in c .. Opened[LastWith(i)] /\ \A e \in d + 1 .. Opened[i] : e \in d + 1 .. n
  BY <1>1, <1>3, <1>4, <1>6, <1>7
<1>9. QED
  BY <1>6, <1>8

(***************************************************************************)
(* What a closure may rely on, for every document: what the containers     *)
(* around a record declare is in force, unless a container behind them and *)
(* within the reach of a batch declares the same prefix.                   *)
(***************************************************************************)
THEOREM OwnDeclarationsUnlessRedeclared == ContextSpec => []OwnUnlessRedeclared
BY ContextInvariant, OwnFollows, PTL
===============================================================================
