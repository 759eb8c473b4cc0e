---------------------------- MODULE StreamPipeline ----------------------------
(***************************************************************************)
(* StreamReader::par_for_each and consume_batches (src/src/stream.rs): the *)
(* calling thread parses the prolog, then a producer thread frames records *)
(* into batches and sends them over a bounded channel to a fixed set of    *)
(* workers, which share the receiver behind a mutex and stop early when    *)
(* one of them panics.                                                     *)
(*                                                                         *)
(* Records are numbered in document order.  A batch is an interval of      *)
(* records, so the batch under construction is sent .. framed-1.  Bytes    *)
(* enter only as record sizes, through Offset.  The framer is abstracted   *)
(* to what a read makes available: `avail` records are complete in the     *)
(* bytes pushed so far, and `tail` says what framing does after them.      *)
(***************************************************************************)
EXTENDS Integers, Sequences, FiniteSets

CONSTANTS
    StreamBatchRecords,   \* Config::stream_batch_records  (0 is legal)
    StreamBatchBytes,     \* Config::stream_batch_bytes    (0 is legal)
    StreamQueueCapacity,  \* Config::stream_queue_capacity (0: from the workers)
    StreamWorkers,        \* Config::stream_workers        (0: from the pool)
    PoolThreads,          \* rayon::current_num_threads()
    MaxRecords,           \* bound: records in the document
    MaxChunks,            \* bound: reads that return bytes
    Offset                \* Offset[i]: total size of records 0 .. i-1

ASSUME KnobsAssumption ==
    /\ StreamBatchRecords \in Nat
    /\ StreamBatchBytes \in Nat
    /\ StreamQueueCapacity \in Nat
    /\ StreamWorkers \in Nat
    /\ PoolThreads \in Nat

\* A record holds at least one byte.
ASSUME DocumentAssumption ==
    /\ MaxRecords \in Nat
    /\ MaxChunks \in Nat
    /\ Offset \in [0 .. MaxRecords -> Nat]
    /\ \A i, j \in 0 .. MaxRecords : i < j => Offset[i] < Offset[j]

-------------------------------------------------------------------------------
\* The knobs after the defaults for 0 have been applied.

AtLeastOne(n) == IF n = 0 THEN 1 ELSE n

\* Fault: a cap of 0 is taken as it is.
BatchRecordsUnclamped == StreamBatchRecords

BatchRecords == AtLeastOne(StreamBatchRecords)

BatchBytes == AtLeastOne(StreamBatchBytes)

NumWorkers == IF StreamWorkers = 0 THEN AtLeastOne(PoolThreads) ELSE StreamWorkers

Capacity == IF StreamQueueCapacity = 0 THEN NumWorkers * 2 ELSE StreamQueueCapacity

Workers == 1 .. NumWorkers

Records == 0 .. MaxRecords - 1

Batches == [lo : 0 .. MaxRecords, hi : 0 .. MaxRecords]

NoBatch == [lo |-> 0, hi |-> 0]

NoWorker == 0

-------------------------------------------------------------------------------
VARIABLES
    main,       \* where the calling thread is
    result,     \* what the call returned; "none" while it runs
    producer,   \* where the producer thread is
    needMore,   \* `need_more`: framing ran out of buffered bytes
    verdict,    \* what the producer thread returned
    framed,     \* records framed so far
    sent,       \* records handed to the channel so far
    avail,      \* records complete in the bytes read so far
    tail,       \* what follows them: see SourceYields
    chunks,     \* reads that returned bytes
    queue,      \* the channel's buffer
    rxAlive,    \* the receiver has not been dropped
    lock,       \* the worker that holds the receiver's mutex, or NoWorker
    pc,         \* where each worker is
    hold,       \* the batch in each worker's hands
    at,         \* the record of it the worker is at
    panicked,   \* workers that unwind out of the closure
    stop,       \* the `stop` flag
    sees,       \* workers whose relaxed loads return the flag's new value
    visits,     \* history: how often the closure was called with a record
    late        \* history: batches a worker received although it sees `stop`

mainVars == <<main, result>>
sourceVars == <<avail, tail, chunks>>
producerVars == <<producer, needMore, verdict, framed>>
batchVars == <<sent, queue>>
workerVars == <<lock, pc, hold, at, panicked, visits, late>>
stopVars == <<stop, sees>>

vars == <<mainVars, sourceVars, producerVars, batchVars, rxAlive, workerVars, stopVars>>

Init ==
    /\ main = "prolog"
    /\ result = "none"
    /\ producer = "unborn"
    /\ needMore = FALSE
    /\ verdict = "none"
    /\ framed = 0
    /\ sent = 0
    /\ avail = 0
    /\ tail = "prolog"
    /\ chunks = 0
    /\ queue = <<>>
    /\ rxAlive = TRUE
    /\ lock = 0
    /\ pc = [w \in Workers |-> "unborn"]
    /\ hold = [w \in Workers |-> NoBatch]
    /\ at = [w \in Workers |-> 0]
    /\ panicked = {}
    /\ stop = FALSE
    /\ sees = {}
    /\ visits = [i \in Records |-> 0]
    /\ late = [w \in Workers |-> 0]

-------------------------------------------------------------------------------
(***************************************************************************)
(* The source.  A read returns some bytes; with them more records may be   *)
(* complete, and the framer is then in front of                            *)
(*   "prolog"  a prolog whose root start tag is incomplete                 *)
(*   "broken"  a prolog that try_prelude rejects                           *)
(*   "open"    an incomplete record, or bytes between records              *)
(*   "bad"     a token that next_record_into rejects                       *)
(*   "closed"  nothing: the root has closed, the rest is ignored           *)
(***************************************************************************)
SourceYields ==
    /\ chunks < MaxChunks
    /\ chunks' = chunks + 1
    /\ CASE tail = "prolog" ->
              \/ tail' \in {"prolog", "broken"} /\ avail' = avail
              \/ tail' \in {"open", "bad", "closed"} /\ avail' \in avail .. MaxRecords
         [] tail = "open" ->
              tail' \in {"open", "bad", "closed"} /\ avail' \in avail .. MaxRecords
         [] OTHER -> UNCHANGED <<avail, tail>>

Return(r) ==
    /\ main' = "returned"
    /\ result' = r

-------------------------------------------------------------------------------
\* The calling thread.

\* try_prelude wants more bytes and the source has some.
PrologRead ==
    /\ main = "prolog"
    /\ tail = "prolog"
    /\ SourceYields
    /\ UNCHANGED <<mainVars, producerVars, batchVars, rxAlive, workerVars, stopVars>>

\* The prolog is rejected, the source ends inside it, fails, or panics.
PrologFails ==
    /\ main = "prolog"
    /\ \/ tail = "broken" /\ Return("malformed")
       \/ tail = "prolog" /\ \E r \in {"malformed", "io", "panic"} : Return(r)
    /\ UNCHANGED <<sourceVars, producerVars, batchVars, rxAlive, workerVars, stopVars>>

\* try_prelude succeeds: the producer and the workers are spawned.
Spawn ==
    /\ main = "prolog"
    /\ tail \in {"open", "bad", "closed"}
    /\ main' = "consume"
    /\ producer' = "fill"
    /\ pc' = [w \in Workers |-> "check"]
    /\ UNCHANGED <<result, needMore, verdict, framed, sourceVars, batchVars, rxAlive,
                   lock, hold, at, panicked, visits, late, stopVars>>

\* Fault: the scope does not wait for every worker.
AnyWorkerGone == \E w \in Workers : pc[w] = "gone"

WorkersGone == \A w \in Workers : pc[w] = "gone"

\* Fault: the workers' handles are joined and their panics dropped.
PanicSwallowed == FALSE

ScopePanics == panicked # {}

\* The scope of consume_batches has joined every worker.  If one panicked
\* the scope panics, and unwinding par_for_each drops the receiver with
\* whatever the channel still buffers.
ConsumeEnds ==
    /\ main = "consume"
    /\ WorkersGone
    /\ IF ScopePanics
       THEN main' = "unwind" /\ rxAlive' = FALSE /\ queue' = <<>>
       ELSE main' = "join" /\ UNCHANGED <<rxAlive, queue>>
    /\ UNCHANGED <<result, sourceVars, producerVars, sent, workerVars, stopVars>>

\* producer.join().expect(..): the producer's verdict is the result.
JoinProducer ==
    /\ main = "join"
    /\ producer = "done"
    /\ Return(verdict)
    /\ UNCHANGED <<sourceVars, producerVars, batchVars, rxAlive, workerVars, stopVars>>

\* The outer scope joins the producer before it resumes the panic.
UnwindJoins ==
    /\ main = "unwind"
    /\ producer = "done"
    /\ Return("panic")
    /\ UNCHANGED <<sourceVars, producerVars, batchVars, rxAlive, workerVars, stopVars>>

-------------------------------------------------------------------------------
\* The producer thread.

Bytes(b) == Offset[b.hi] - Offset[b.lo]

CurrentBatch == [lo |-> sent, hi |-> framed]

\* Fault: the caps are joined by `||`.
BatchOpenEither ==
    \/ framed - sent < BatchRecords
    \/ Bytes(CurrentBatch) < BatchBytes

\* The condition of the fill loop: neither cap has been reached.
BatchOpen ==
    /\ framed - sent < BatchRecords
    /\ Bytes(CurrentBatch) < BatchBytes

FinishProducer(v) ==
    /\ producer' = "done"
    /\ verdict' = v

\* After the fill loop: send unless empty, then read if more is needed.
Dispatch(more) ==
    /\ needMore' = more
    /\ producer' = IF framed # sent THEN "send" ELSE IF more THEN "read" ELSE "fill"

\* Fault: an incomplete record is framed.
FrameAhead ==
    /\ producer = "fill"
    /\ BatchOpen
    /\ framed' = framed + 1
    /\ UNCHANGED <<mainVars, sourceVars, producer, needMore, verdict, batchVars, rxAlive,
                   workerVars, stopVars>>

FrameRecord ==
    /\ producer = "fill"
    /\ BatchOpen
    /\ framed < avail
    /\ framed' = framed + 1
    /\ UNCHANGED <<mainVars, sourceVars, producer, needMore, verdict, batchVars, rxAlive,
                   workerVars, stopVars>>

\* next_record_into returns None.
FrameNeedsMore ==
    /\ producer = "fill"
    /\ BatchOpen
    /\ framed = avail
    /\ tail # "bad"
    /\ Dispatch(TRUE)
    /\ UNCHANGED <<mainVars, sourceVars, verdict, framed, batchVars, rxAlive, workerVars, stopVars>>

\* next_record_into fails: `?` leaves the thread with the batch unsent.
FrameFails ==
    /\ producer = "fill"
    /\ BatchOpen
    /\ framed = avail
    /\ tail = "bad"
    /\ FinishProducer("malformed")
    /\ UNCHANGED <<mainVars, sourceVars, needMore, framed, batchVars, rxAlive, workerVars, stopVars>>

BatchFull ==
    /\ producer = "fill"
    /\ ~BatchOpen
    /\ Dispatch(FALSE)
    /\ UNCHANGED <<mainVars, sourceVars, verdict, framed, batchVars, rxAlive, workerVars, stopVars>>

\* Fault: the batch's buffers outlive the iteration and are not cleared.
SendKeepsBatch ==
    /\ producer = "send"
    /\ rxAlive
    /\ Len(queue) < Capacity
    /\ queue' = Append(queue, CurrentBatch)
    /\ producer' = IF needMore THEN "read" ELSE "fill"
    /\ needMore' = FALSE
    /\ UNCHANGED <<mainVars, sourceVars, verdict, framed, sent, rxAlive, workerVars, stopVars>>

\* `send` blocks while the channel is full.
Send ==
    /\ producer = "send"
    /\ rxAlive
    /\ Len(queue) < Capacity
    /\ queue' = Append(queue, CurrentBatch)
    /\ sent' = framed
    /\ producer' = IF needMore THEN "read" ELSE "fill"
    /\ needMore' = FALSE
    /\ UNCHANGED <<mainVars, sourceVars, verdict, framed, rxAlive, workerVars, stopVars>>

\* `send` fails, even from its wait, once the receiver is gone.
SendFails ==
    /\ producer = "send"
    /\ ~rxAlive
    /\ FinishProducer("ok")
    /\ UNCHANGED <<mainVars, sourceVars, needMore, framed, batchVars, rxAlive, workerVars, stopVars>>

ReadChunk ==
    /\ producer = "read"
    /\ SourceYields
    /\ producer' = "fill"
    /\ needMore' = FALSE
    /\ UNCHANGED <<mainVars, verdict, framed, batchVars, rxAlive, workerVars, stopVars>>

\* Fault: the end of the input is taken for the end of the document.
FinishUnchecked == "ok"

\* `finish` accepts iff the root has closed.
Finish == IF tail = "closed" THEN "ok" ELSE "malformed"

\* A read of no bytes.
ReadEof ==
    /\ producer = "read"
    /\ FinishProducer(Finish)
    /\ UNCHANGED <<mainVars, sourceVars, needMore, framed, batchVars, rxAlive, workerVars, stopVars>>

\* The reader fails, or panics.
ReadFails ==
    /\ producer = "read"
    /\ \E v \in {"io", "panic"} : FinishProducer(v)
    /\ UNCHANGED <<mainVars, sourceVars, needMore, framed, batchVars, rxAlive, workerVars, stopVars>>

-------------------------------------------------------------------------------
\* A worker thread.

\* Fault: there is no flag.
StopIgnored(w) == FALSE

\* Fault: an error of the producer stops the workers too.
StopOnError(w) == w \in sees \/ verdict \in {"io", "malformed"}

\* The load is relaxed: only a worker in `sees` must read the flag as set.
MustStop(w) == w \in sees

CheckStop(w) ==
    /\ pc[w] = "check"
    /\ pc' = [pc EXCEPT ![w] = IF MustStop(w) THEN "exit" ELSE "lock"]
    /\ UNCHANGED <<mainVars, sourceVars, producerVars, batchVars, rxAlive,
                   lock, hold, at, panicked, visits, late, stopVars>>

\* Nothing can panic under the mutex, so `lock` never reports poison.
AcquireLock(w) ==
    /\ pc[w] = "lock"
    /\ lock = NoWorker
    /\ lock' = w
    /\ pc' = [pc EXCEPT ![w] = "recv"]
    /\ UNCHANGED <<mainVars, sourceVars, producerVars, batchVars, rxAlive,
                   hold, at, panicked, visits, late, stopVars>>

\* `recv` takes the oldest batch and the guard is dropped.
RecvBatch(w) ==
    /\ pc[w] = "recv"
    /\ queue # <<>>
    /\ hold' = [hold EXCEPT ![w] = Head(queue)]
    /\ at' = [at EXCEPT ![w] = Head(queue).lo]
    /\ queue' = Tail(queue)
    /\ lock' = NoWorker
    /\ late' = [late EXCEPT ![w] = IF w \in sees THEN @ + 1 ELSE @]
    /\ pc' = [pc EXCEPT ![w] = "work"]
    /\ UNCHANGED <<mainVars, sourceVars, producerVars, sent, rxAlive, panicked, visits, stopVars>>

\* The producer has dropped the sender, and the buffer is empty.
RecvDisconnected(w) ==
    /\ pc[w] = "recv"
    /\ queue = <<>>
    /\ producer = "done"
    /\ lock' = NoWorker
    /\ pc' = [pc EXCEPT ![w] = "exit"]
    /\ UNCHANGED <<mainVars, sourceVars, producerVars, batchVars, rxAlive,
                   hold, at, panicked, visits, late, stopVars>>

Call(w) == visits' = [visits EXCEPT ![at[w]] = @ + 1]

\* Fault: the loop over the batch ends one record early.
BatchDoneEarly(w) == at[w] + 2 >= hold[w].hi

BatchDone(w) == at[w] + 1 = hold[w].hi

\* f(&record) returns; after the last record the batch is dropped.
CallReturns(w) ==
    /\ pc[w] = "work"
    /\ Call(w)
    /\ at' = [at EXCEPT ![w] = @ + 1]
    /\ IF BatchDone(w)
       THEN /\ pc' = [pc EXCEPT ![w] = "check"]
            /\ hold' = [hold EXCEPT ![w] = NoBatch]
       ELSE UNCHANGED <<pc, hold>>
    /\ UNCHANGED <<mainVars, sourceVars, producerVars, batchVars, rxAlive,
                   lock, panicked, late, stopVars>>

\* f(&record) panics: the batch is dropped with the rest of the stack.
CallPanics(w) ==
    /\ pc[w] = "work"
    /\ Call(w)
    /\ panicked' = panicked \cup {w}
    /\ hold' = [hold EXCEPT ![w] = NoBatch]
    /\ pc' = [pc EXCEPT ![w] = "exit"]
    /\ UNCHANGED <<mainVars, sourceVars, producerVars, batchVars, rxAlive,
                   lock, at, late, stopVars>>

\* Drop of StopOnExit, on a normal exit and on an unwinding one.
Exit(w) ==
    /\ pc[w] = "exit"
    /\ stop' = TRUE
    /\ pc' = [pc EXCEPT ![w] = "gone"]
    /\ UNCHANGED <<mainVars, sourceVars, producerVars, batchVars, rxAlive,
                   lock, hold, at, panicked, visits, late, sees>>

\* The relaxed store reaches w's loads, at some moment after it was made.
StopBecomesVisible(w) ==
    /\ stop
    /\ w \notin sees
    /\ pc[w] \in {"check", "lock", "recv", "work"}
    /\ sees' = sees \cup {w}
    /\ UNCHANGED <<mainVars, sourceVars, producerVars, batchVars, rxAlive, workerVars, stop>>

-------------------------------------------------------------------------------
Main == PrologRead \/ PrologFails \/ Spawn \/ ConsumeEnds \/ JoinProducer \/ UnwindJoins

Producer ==
    \/ FrameRecord \/ FrameNeedsMore \/ FrameFails \/ BatchFull
    \/ Send \/ SendFails
    \/ ReadChunk \/ ReadEof \/ ReadFails

Worker(w) ==
    \/ CheckStop(w) \/ AcquireLock(w)
    \/ RecvBatch(w) \/ RecvDisconnected(w)
    \/ CallReturns(w) \/ CallPanics(w)
    \/ Exit(w)

\* The call is over: the only state the system may stop in.
Returned == main = "returned" /\ UNCHANGED vars

Next ==
    \/ Main
    \/ Producer
    \/ \E w \in Workers : Worker(w) \/ StopBecomesVisible(w)
    \/ Returned

\* The operating system runs every thread that can run; reads and closures
\* return.  Nothing is assumed of when the relaxed store becomes visible,
\* nor of which waiting worker obtains the mutex.
Fairness ==
    /\ WF_vars(Main)
    /\ WF_vars(Producer)
    /\ \A w \in Workers : WF_vars(Worker(w))

Spec == Init /\ [][Next]_vars

FairSpec == Spec /\ Fairness

-------------------------------------------------------------------------------
\* Type invariant.
TypeOK ==
    /\ main \in {"prolog", "consume", "join", "unwind", "returned"}
    /\ result \in {"none", "ok", "io", "malformed", "panic"}
    /\ producer \in {"unborn", "fill", "send", "read", "done"}
    /\ needMore \in BOOLEAN
    /\ verdict \in {"none", "ok", "io", "malformed", "panic"}
    /\ framed \in 0 .. MaxRecords
    /\ sent \in 0 .. MaxRecords
    /\ avail \in 0 .. MaxRecords
    /\ tail \in {"prolog", "broken", "open", "bad", "closed"}
    /\ chunks \in 0 .. MaxChunks
    /\ queue \in Seq(Batches)
    /\ rxAlive \in BOOLEAN
    /\ lock \in Workers \cup {NoWorker}
    /\ pc \in [Workers -> {"unborn", "check", "lock", "recv", "work", "exit", "gone"}]
    /\ hold \in [Workers -> Batches]
    /\ at \in [Workers -> Nat]
    /\ panicked \in SUBSET Workers
    /\ stop \in BOOLEAN
    /\ sees \in SUBSET Workers
    /\ visits \in [Records -> Nat]
    /\ late \in [Workers -> Nat]

Holders == {w \in Workers : pc[w] = "work"}

InQueue(i) == \E k \in 1 .. Len(queue) : queue[k].lo <= i /\ i < queue[k].hi

InHand(i) == \E w \in Holders : at[w] <= i /\ i < hold[w].hi

\* No record is handed to the closure twice, and none that is still queued
\* or waiting in a worker's batch has been handed over already.
ExactlyOnce ==
    \A i \in Records :
        /\ visits[i] <= 1
        /\ InQueue(i) \/ InHand(i) => visits[i] = 0
        /\ i >= sent => visits[i] = 0

\* Until a closure panics every dispatched record is somewhere: visited,
\* queued, or still to come in the batch of a worker.
NothingLost ==
    panicked = {} =>
        \A i \in Records : i < sent => visits[i] = 1 \/ InQueue(i) \/ InHand(i)

\* Ok(()) means the root closed and every record of the document was visited.
OkMeansAll ==
    result = "ok" => tail = "closed" /\ \A i \in Records : i < avail => visits[i] = 1

\* Doc of par_for_each, stream.rs 179-181: an error does not abort siblings,
\* every record dispatched is still processed.  What the error costs is the
\* batch under construction, and only a framing error costs that.
ErrDeliversDispatched ==
    result \in {"io", "malformed"} =>
        /\ \A i \in Records : i < sent => visits[i] = 1
        /\ avail - sent < BatchRecords
        /\ sent # avail => result = "malformed" /\ tail = "bad"

\* A panic of the closure or of the reader is what the call ends with, and
\* nothing else makes it panic.
PanicSurfaces ==
    main = "returned" /\ producer # "unborn" =>
        (result = "panic" <=> panicked # {} \/ verdict = "panic")

LiveBatches ==
    Len(queue) + Cardinality(Holders) + (IF framed # sent THEN 1 ELSE 0)

WithinCaps(b) ==
    /\ b.hi - b.lo <= BatchRecords
    /\ b.lo < b.hi => Offset[b.hi - 1] - Offset[b.lo] < BatchBytes

\* The memory bound of stream.rs 7-10: at most capacity + workers + 1
\* batches exist, and each is within both caps but for its last record.
MemoryBound ==
    /\ LiveBatches <= Capacity + NumWorkers + 1
    /\ WithinCaps(CurrentBatch)
    /\ \A k \in 1 .. Len(queue) : WithinCaps(queue[k])
    /\ \A w \in Holders : WithinCaps(hold[w])

\* stream.rs 297-305: after a panic the others stop.  A worker that sees the
\* flag may be past its check already; it receives one more batch, never two.
PromptStop == \A w \in Workers : late[w] <= 1

\* Every call returns: no lost wake-up, no producer left blocked in `send`
\* after the workers are gone, no stall for knobs of 0.
Termination == <>(main = "returned")

\* The promise to the caller.
Contract ==
    INSTANCE ParForEach WITH found <- framed, offered <- sent, outcome <- result

\* The pipeline keeps the contract of par_for_each.
ContractHolds == Contract!Spec

-------------------------------------------------------------------------------
(***************************************************************************)
(* The inductive invariant: why the properties above hold.                 *)
(***************************************************************************)

\* A worker that sees the flag is past its check for one batch at most.
StopInv ==
    /\ sees # {} => stop
    /\ \A w \in Workers :
        /\ late[w] <= 1
        /\ late[w] > 0 => w \in sees
        /\ pc[w] \in {"lock", "recv"} => late[w] = 0

\* The batches that exist are within the caps, disjoint, and in document
\* order: in the workers' hands, then queued, then under construction.
BatchInv ==
    /\ sent <= framed
    /\ framed <= avail
    /\ WithinCaps(CurrentBatch)
    /\ Len(queue) <= Capacity
    /\ \A k \in 1 .. Len(queue) :
        /\ queue[k].lo < queue[k].hi
        /\ queue[k].hi <= sent
        /\ WithinCaps(queue[k])
        /\ \A j \in 1 .. k - 1 : queue[j].hi <= queue[k].lo
    /\ \A w \in Holders :
        /\ hold[w].lo <= at[w]
        /\ at[w] < hold[w].hi
        /\ hold[w].hi <= sent
        /\ WithinCaps(hold[w])
        /\ \A k \in 1 .. Len(queue) : hold[w].hi <= queue[k].lo
        /\ \A v \in Holders \ {w} : hold[v].hi <= at[w] \/ hold[w].hi <= at[v]

\* What the place of one thread says about the others.
ControlInv ==
    /\ result = "none" <=> main # "returned"
    /\ verdict = "none" <=> producer # "done"
    /\ tail \in {"prolog", "broken"} => avail = 0
    /\ main = "prolog" => producer = "unborn"
    /\ producer = "unborn" =>
        /\ main \in {"prolog", "returned"}
        /\ sent = 0 /\ queue = <<>> /\ panicked = {} /\ ~stop /\ rxAlive
        /\ \A w \in Workers : pc[w] = "unborn"
        /\ result # "ok"
        /\ result # "none" => avail = 0
    /\ producer # "unborn" =>
        /\ tail \notin {"prolog", "broken"}
        /\ \A w \in Workers : pc[w] # "unborn"
        /\ main # "consume" => \A w \in Workers : pc[w] = "gone"
    /\ main = "consume" => rxAlive
    /\ main = "join" => rxAlive /\ panicked = {}
    /\ main = "unwind" => panicked # {}
    /\ main = "returned" /\ producer # "unborn" =>
        /\ producer = "done"
        /\ \/ result = verdict /\ rxAlive /\ panicked = {}
           \/ result = "panic" /\ panicked # {}

\* The producer reads and finishes with nothing unsent, but for a token that
\* framing rejects.
ProducerInv ==
    /\ producer = "send" => framed # sent
    /\ producer = "send" /\ needMore => framed = avail /\ tail # "bad"
    /\ producer = "read" => sent = avail /\ tail # "bad"
    /\ verdict = "io" => sent = avail
    /\ verdict = "malformed" =>
        /\ framed = avail
        /\ framed - sent < BatchRecords
        /\ sent # avail => tail = "bad"
    /\ verdict = "ok" /\ rxAlive => sent = avail /\ tail = "closed"

\* Unless a closure panicked, a worker leaves only when nothing can come.
ExitInv ==
    panicked = {} /\ (stop \/ \E w \in Workers : pc[w] \in {"exit", "gone"}) =>
        producer = "done" /\ queue = <<>>

IInv ==
    /\ TypeOK
    /\ StopInv
    /\ BatchInv
    /\ ControlInv
    /\ ProducerInv
    /\ ExitInv
    /\ ExactlyOnce
    /\ NothingLost

-------------------------------------------------------------------------------
\* Claims of the documentation that the code does not meet.

\* stream.rs 301-302: "the others leave the loop after at most the batch
\* already in hand".
AtMostBatchInHand == \A w \in Workers : late[w] = 0
===============================================================================
