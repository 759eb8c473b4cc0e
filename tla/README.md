# A TLA+ development of pxml

`pxml` (Rust) parses large, record-shaped XML documents in parallel: it finds
the *records* (the children of one container element) with a cheap structural
scan, and hands each record to a worker for parsing.  A document is either
resident in memory (`ParallelXml`), or a stream of unbounded length
(`StreamReader`), or read as one sequence (`SeqReader`).

This directory holds TLA+ modules that model the parts of the library where
correctness is hard to see and hard to test, TLC configurations that model-
check them, and TLAPS proofs for the streaming pipeline, the drivers of resident
documents, both framers, the resident scanner, the prolog parsers, the readers and
the attribute iterator, among them that the index of a resident document is exact.
`PROJECT.json` is the machine-readable index: components,
runs, the map from definitions to source lines, findings, hazards, theorems.
Paths such as `stream.rs:238` are relative to `src/src/`.

## 1. Inventory

| Component | Source | State | Operations |
|---|---|---|---|
| Streaming pipeline | `stream.rs` 130-350 | thread positions, `pending` batch, channel, receiver mutex, `stop` flag | `par_for_each`: prolog on the caller's thread, producer loop, `consume_batches`, `StopOnExit::drop`, join |
| Streaming framer | `scan.rs` 660-1570 | `carry`/`base`/`cursor`, lexical state, `depth`, `skip_depth`, `record_start`, `tag_start`, namespaces | `try_prelude`, `push`, `next_record_into`, `on_tag_complete`, `compact`, `finish` |
| Resident scanner | `scan.rs` 60-560 | position, depth, record start, index built so far | `run`: prolog, `scan_content`, `skip_subtree`, `skip_trailing_misc` |
| Prolog, DTD, entities | `scan.rs`, `prelude.rs` | entity table, root name | BOM and declaration, DOCTYPE, `<!ENTITY>` capture, root start tag; a second, restartable copy for streams |
| Namespace context | `prelude.rs` | one flat map | merged at the root and at every container on the record path |
| Resident drivers | `lib.rs` | `OnceLock` memo of the index | `with_config`, `par_for_each`, `map_collect`, `try_*`, sequential fallback |
| Sequential reader | `lib.rs` | cursor, one-slot lookahead, entities | `SeqReader::next_event` |
| Record reader | `parse.rs` | one-slot lookahead, coalescing buffer | `RecordReader::next_event`, text coalescing, entity resolution |
| Attribute iterator | `event.rs` | position | `AttrIter::next` |
| Configuration | `config.rs` | knobs | builders |
| I/O | `lib.rs`, `stream.rs` | | file mapping, zstd |

How they interact.  `StreamReader::par_for_each` owns a framer.  It pushes what
`Read::read` returns into it, asks it for the next record until it has none,
and collects the records' bytes into a batch.  Batches travel with a copy of
the prelude (namespaces, entities) over a bounded `sync_channel` to the
workers, which share the receiver behind a mutex and run a record reader and
the caller's closure on each record.  `ParallelXml` runs the resident scanner
once, memoizes its index, and gives the ranges to rayon.  The two paths must
find the same records in the same bytes.

### What is hard, and the property each component owes

* **Pipeline** - three kinds of threads, a bounded channel, a mutex whose
  holder blocks in `recv`, a relaxed flag, errors and panics at any point.
  Owed: every record dispatched is visited exactly once unless a closure
  panics; `Ok` means all records of the document; an error keeps what was
  dispatched; a panic surfaces; bounded memory; every call returns.
* **Streaming framer** - the same automaton must give the same answer however
  the bytes are cut into reads, with absolute positions into a buffer whose
  front is dropped.  Owed: exactly the records of the document, nothing
  dropped too early, nothing kept too long.
* **Resident scanner** - two nested hand-written loops that hand the cursor to
  each other.  Owed: exactly the records of the document, the same as the
  framer's.
* **Prolog** - two parsers of one language, one of them restarted on every
  read.  Owed: agreement, and no verdict that more input changes.
* **Drivers** - a memo raced for by threads, dropped on reconfiguration; first
  error wins.  Owed: never a stale index, an error leaves nothing behind.
* **Readers** - an event read ahead while text and references are merged, and
  a DOCTYPE that may be the event read ahead.  Owed: every event exactly once
  and in order, text resolved with what was declared in front of it, and after
  an error nothing more lost than the error explains.
* **Attribute iterator** - a second reader of attributes that the scanner has
  read before.  Owed: it agrees with the scanner, and every call moves on.

The hazards, each at its line and with the properties aimed at it, are in
`PROJECT.json`.

## 2. Modules

```
   ParForEach <---refines--- StreamPipeline <--- MCStreamPipeline
   (contract)                  ^
                  PipelineContext <- StreamPipelineProofs
                  MCPipelineContext

   RecordRules <- RecordFraming <---refines--- StreamFramer <- ByteFramer
        ^         (contract)                      |         <- MemchrFramer
        |                                         v
        +---- XmlInput ---- ResidentScanner    XmlInput
                 |
              XmlBytes <- Prolog <- MCProlog
                 ^
              AttrIter <- RecordCursor -> EventReader
                              ^
                          MCRecordCursor

   MCDocuments <- MCByteFramer, MCMemchrFramer, MCResidentScanner
   MCResidentDrivers -> ResidentDrivers <- ResidentDriversProofs

   XmlBytesProofs <- ResidentScannerProofs <- IndexProofs
         ^
         +-- StreamFramerProofs, PrologProofs, RecordCursorProofs
```

### `StreamPipeline` - `StreamReader::par_for_each` and `consume_batches`

Records are numbered in document order; a batch is an interval of them, and
bytes appear only as record sizes (`Offset`).  The framer is abstracted to what
one read makes available: `avail` complete records, and what framing meets
after them (`tail`: an unfinished record, a token it rejects, the closed
root).  The source is nondeterministic: it returns bytes, ends, or fails.

| State | Code |
|---|---|
| `main` | where the calling thread is: prolog, `consume_batches`, unwinding, `join`, returned |
| `producer`, `needMore`, `verdict`, `framed` | the producer closure, its `need_more`, its result, the framer's progress |
| `sent .. framed-1` | the batch under construction |
| `queue`, `rxAlive` | the channel's buffer; the receiver exists |
| `lock`, `pc`, `hold`, `at`, `panicked` | the mutex, the workers' positions, batches and records in hand |
| `stop`, `sees` | the flag, and the workers whose `Relaxed` load returns its new value |
| `visits`, `late` | history, read by no guard |

Actions follow the code step by step: `PrologRead`, `PrologFails`, `Spawn`;
the producer's `FrameRecord`, `FrameNeedsMore`, `FrameFails`, `BatchFull`,
`Send`, `SendFails`, `ReadChunk`, `ReadEof`, `ReadFails`; a worker's
`CheckStop`, `AcquireLock`, `RecvBatch`, `RecvDisconnected`, `CallReturns`,
`CallPanics`, `Exit`; the caller's `ConsumeEnds`, `JoinProducer`,
`ScopePanics`, `UnwindJoins`.  A panic poisons nothing: the closure runs after
the mutex is released.  The reader of the source may panic too (it is the
caller's code).  The relaxed flag is a separate set `sees` that grows in
`StopBecomesVisible`, at no particular time.

`ParForEach` is the contract the doc comments give: records are found,
offered in order, visited once at most, and the call returns once.
`ContractHolds` is the refinement.

### `RecordRules`, `RecordFraming`, `XmlInput` - what a record is

A document is a sequence of tokens with a kind, a name, a verdict on their
attributes, and their bytes.  `RecordRules` says by a stack of open element
names (never by counters) which tokens begin and end a record, which tokens
are illegal where they stand, and when the root closes.  `RecordFraming` is
the machine that consumes one token at a time and reports each record's bytes.
Neither knows positions, lexical states or reads; both framers are checked
against them.  Note what the rules do *not* ask, because neither framer does:
only the root's end tag is compared by name.

`XmlInput` puts a document's tokens behind its prolog, and says which bytes a token
of each kind has (`IsToken`): a tag goes from a `<` to the first `>` outside of
quotes, a comment to its first `-->`, and what begins none of these is broken.
It is written without either scanner's search, and `TokensAssumption` asks it of
every document; TLC evaluates it on those of the runs.

### `PipelineContext` - the namespaces a record is handed over with

The framer and the pipeline composed at the one place where they share state.
The steps are those of `StreamPipeline`; each one also says what it does to the
framer's map from prefixes to URIs (`namespaces`), to the one every batch carries,
and to the one a record is given.  The map is the code's: flat, `Insert` overwrites,
nothing is taken out.  Containers are numbered in document order; a document is
given by the containers in front of each record (`Opened`), those it is in
(`Around`), and what each declares (`Declares`).  `Descend` is one start tag on the
way to the next record, which the framer may read before it finds that the bytes at
hand do not hold that record.  A batch takes the map where it is sent, after all of
its records have been framed: what a later container of the batch declares has by
then replaced what an earlier record's containers declare.

### `StreamFramer`, `ByteFramer`, `MemchrFramer` - `StreamFramer` of `scan.rs`

State and names are the code's.  Bytes are model symbols (`XmlBytes`): `<`,
`>`, `/`, quotes, `-`, `]`, `?`, names, and words such as `CDATA[` and `xmlns`
as one symbol each, so `CdataMatch` needs no index.  `Refill(n)` is `compact`,
a read of `n` bytes and `push`; `Finish` is `compact`, a read of nothing and
`finish`.  `StreamFramer` is what the two builds share: the branches of
`on_tag_complete`, one action each, `compact`, and what `<` and `<!` may be
followed by.  `ByteFramer` is the lexer of the default build, one action per
state and byte.  `MemchrFramer` is the lexer of the feature `memchr-framer`:
one action is one jump to the next byte that matters, and of a comment, CDATA
section or PI without an end it keeps as many bytes as the end is long, less
one (`SpanResume`, `skip_to`).  The refinement, the same for both, maps the
number of tokens that end before the cursor to `consumed`.

### `Prolog` - the two prolog parsers of `scan.rs`

`Resident(buf)` is `Scanner::run` up to the root start tag, function by
function; `TryParsePrelude(buf)` is the parser that `try_prelude` runs from the
start after every read.  Both are functions of the bytes: recursion over
positions is written with recursive functions.  The machine around them is the
first loop of `par_for_each`: parse, read, parse again.  A document is a
sequence of pieces with a meaning of their own (`says`): what the root is,
which entities are declared, that it is wrong.  `Meant` puts the meanings
together without looking at a byte, and `PrologExact` compares.

### `EventReader`, `AttrIter`, `RecordCursor` - the readers

quick-xml is external: a source is any short sequence of its events, reading
errors among them.  `EventReader` holds the two cursors, which are the same
code but for the DOCTYPE: `RecordReader` skips it and resolves entities with
the prelude, `SeqReader` collects the entities it declares.  `next_event` is
several steps: `Call`, the loop of `next_surfaced` (`Skip`, `CaptureDoctype`,
`Surface...`), the look ahead (`Peek...`) and the run (`Run...`); `pending` is
the one-slot lookahead.  `AttrNext` is one call of `AttrIter::next`, an operator
on the tag's bytes and a position.  `RecordCursor` is the caller that uses both:
it asks for events, iterates over a start tag's attributes as long as it likes,
and goes on behind errors.

### `ResidentScanner` - `Scanner::scan_content` and what it calls

The whole buffer is there; one action is one turn of the loop of
`scan_content` or of `skip_subtree`.  `Past` is the search for a span's
terminator, `ScanStartTag` the quote-aware search for a tag's end, and
`TrailingMisc`/`TrailingJunk` are `skip_trailing_misc`.  The state is the
Rust state (`pos`, `depth`, `record_start`, the index); where the code keeps
a name or an attribute slice the model looks at the same bytes.

### `ResidentDrivers` - `ParallelXml`'s memo and drivers

Threads (`Callers`) share one document and call `index`, `par_for_each`,
`map_collect` and the two fallible variants on it.  `Scan[path]` is what the
boundary scan finds under a record path: a number of records, or a failure.

| State | Code |
|---|---|
| `config`, `index_cache` | the fields of `ParallelXml`; an index is a heap value, told apart by its path and the scan that made it |
| `pc`, `op`, `found`, `held` | where a caller is, in which method, the index it has scanned, the index it borrows |
| `started`, `done`, `failed`, `panicked`, `result` | the closure's calls on the records, and what the method returned |

`index()` is `LookupHit`, or `LookupMiss`, `ScanDocument` or `ScanError`,
`SetMemo` (`OnceLock::set`, which keeps what is there) and `GetMemo`: other
threads run between any two of them.  `WithConfig` takes the document by
value, so nobody is in a call.  A visit of a record is two steps, `Start` and
`FOk`, `FErr` or `FPanics`.  The sequential pass visits in order and stops at
the first failure.  rayon is external: it starts any record that has not been
started, may or may not go on after a failure, and returns when no closure
runs.  That covers the early end of `try_par_for_each` as well as
`try_map_collect`, which goes on.  The order of a collected `Vec` is rayon's.

### Faults

Operators marked `\* Fault:` are not part of the model.  Each is a plausible
bug of the definition after it, and `PROJECT.json` ("mutants") says which
property finds it when it takes that definition's place.

## 3. Runs

| Run | Instance | Shows |
|---|---|---|
| `pipeline_two_workers` | 2 workers, queue 1, batches of 2 records or 4 bytes, 4 records of sizes 1, 1, 6, 1, 2 reads | `TypeOK`, `ExactlyOnce`, `NothingLost`, `OkMeansAll`, `ErrDeliversDispatched`, `PanicSurfaces`, `PromptStop`, `MemoryBound`, `ContextOfBatch`, `OwnUnlessRedeclared`, refinement `ContractHolds` |
| `pipeline_terminates` | batch knobs, workers and queue capacity 0 (so batches of one record, a pool of 2, a queue of 4), 7 records, 2 reads | `Termination` with the clamped knobs |
| `framer` | default lexer; records are the root's children, or two containers deeper; documents of up to 3 tokens (4 behind a container that declares a namespace) and one that decides; reads of 1 to 3 bytes | `FramesRecords`, `NeededBytesKept`, `CarryBounded`, `DepthsFollowDocument`, `OwnNamespacesCaptured`, `TypeOK` |
| `framer_memchr` | memchr lexer, the same kinds of tokens, reads of 1 to 3 bytes | `FramesRecords`, `CarryBounded`, `NothingLeftBehind` |
| `resident` | as `framer`, with every tail of up to 2 tokens after the root, a second end tag of the root among them | `IndexExact`, `DepthsFollowDocument`, `TypeOK` |
| `prolog` | every construct before every root, any two before a plain one, arbitrary short byte strings; reads of 1 or 2 bytes | `VerdictFinal`, `DecidesAtOnce`, `PrologExact`, `PrologsAgree` |
| `record_cursor` | both cursors over every sequence of up to 4 of 11 events, runs of 5, every attribute string of up to 5 symbols with closed quotes, lists of two attributes | `EventsExact`, `LostOnlyBehindErrors`, `StuckOnlyAtEmptyKey`, `AttrsAgree`, `ReachesEnd`, `TypeOK` |
| `resident_drivers` | 2 threads, 4 configurations, 10 bytes, 2 or 3 records or a failing scan | `OneIndex`, `OkVisitsEveryRecord`, `ScanErrorsAgree`, `ThresholdsDecide`, `EveryCallReturns`, `TypeOK` |

Four more runs each end in a violation; see section 6.

### Bounds, and why they are enough

* **Pipeline.**  Two workers are the fewest that compete for the mutex and
  leave one to stop when the other panics.  Four records with a byte cap of 4
  make batches end for each reason: count, bytes, end of the buffered bytes.
  A queue of one fills, so `send` blocks.  With all knobs 0 the queue holds two
  batches for each of two workers; seven records fill it, both workers' hands and
  the producer's.  `MaxRecords` and `MaxChunks` bound
  the document and its reads; failure is possible at each of them, so more of
  either only repeats the loop.  What depends on the numbers is proved for all
  of them (section 4).
* **Framers.**  A tag that decides anything is decided by the two counters,
  the path step at its depth, and the lexical state; three tokens nest one
  element in a record with text, comment or CDATA around it, and four tokens
  behind an open container put a record into it, close it, open the next one
  and put a record into that.  Documents grow while nothing is
  decided and get one token more, so that every way to end (root end tag,
  wrong end tag, text where none may be, unfinished or unknown markup, end of
  input) follows every prefix.  Tokens carry the awkward bytes: `>` and `/` in
  quotes, one kind of quote within the other, `--->`, `]]]>`, `??>`, `<` in a
  comment.  Reads of 1, 2 and 3 bytes cut every terminator and tag in every
  place, as the longest terminator is three bytes long.
* **Contexts.**  Four records in a root with two levels of containers below it, six
  in all, one of them empty; two prefixes, one declared by the root and again by a
  container, one by containers only.  With batches of up to two records that gives a
  batch whose second record lies behind a redeclaration, one sent with the next
  containers already read, and a declaration that outlives its container.
* **Prolog.**  A piece is decided by its own bytes and by what its last bytes may
  run together with, so two pieces in a row and every piece in front of every
  root are enough; each holds the bytes that end another (`>`, `]`, `--`, `?>`
  and quotes in the wrong place).  The arbitrary strings cover what is no piece
  at all.  Reads of 1 and 2 bytes give the parser every prefix.
* **Readers.**  The lookahead is one event, so three events around it and one in
  front show everything one call can leave to the next; in fact a DOCTYPE lost
  behind a failed reference, and with it the meaning of the next reference,
  takes four.  Attribute strings have one symbol of every class the iterator or
  the scanner tells apart; five hold a complete attribute, or four faults in a
  row and what follows them.
* **Drivers.**  Two threads race for the memo: one can lose, one can arrive
  late, and one can be visiting records while the other scans.  The four
  configurations meet both thresholds exactly, miss each by one, and name a
  path whose scan fails; the document may go from any to any.
* `CHECK_DEADLOCK` stays on everywhere: a call that has returned and a framer
  that has decided stutter explicitly, and any other state without a step is
  an error.

### Fairness

The framers and the prolog state none.  `FairSpec` of `StreamPipeline` states
weak fairness of the caller's, the producer's and each worker's own next step.
It stands for an operating system that schedules every thread that can run, for a source whose reads
return, and for closures that return or panic; a closure that blocks for ever
blocks the real call too.  Nothing is assumed of which waiting worker gets the
mutex (`std::sync::Mutex` promises no order), of how the flag becomes visible
(`StopBecomesVisible` may never happen: termination does not lean on it), nor
of which outcome a read or a call has.  `FairSpec` of
`ResidentDrivers` is weak fairness of each caller's own steps within a call,
for the same reasons; nobody is obliged to call anything or to let go of an
index.  `RecordCursor` states weak fairness of `Reading`: the caller goes on
asking for events, as the loop `while let Some(event)` in every example does.
It is free to iterate over attributes or not; an iterator that hangs does not
count as a step, so `ReachesEnd` does not lean on it.  The framers are
sequential; their runs check safety, and `Refill`/`Finish` guarantee that no
state is stuck.

## 4. What is proved

Each part below holds for every value of the constants under the assumptions it
names; TLC evaluates every one of them in the runs.  `XmlBytesProofs` has what
several parts need: a nonempty set of naturals has a least element (so what the
code finds by searching forward is the first), what `SkipWs`, `NameEnd`,
`StartsAt`, `PastFirst`, slices of slices and `Append` yield, that `ScanAttrs`, a
recursive function, exists (`AttrsFunction`) and unfolds, and what each of them
does when more bytes follow (`...Grown`).

No induction principle is used.  That a recursive function exists is proved by
extending one that is right for the last n bytes to n + 1; a fact about each of its
values by looking at the last position where it is wrong (`Backwards`), which cannot
be the last one because the function unfolds there to a later value.

### The pipeline

`StreamPipelineProofs` proves with TLAPS, for every number of workers, queue
capacity, batch limits (0 included), document and number of reads:

* `TypeCorrect` - `Spec => []TypeOK`;
* `InductiveInvariant` - `Spec => []IInv`;
* `EveryRecordAtMostOnce`, `NoDispatchedRecordLost`, `OkIsComplete`,
  `ErrorsKeepDispatched`, `PanicsSurface`, `MemoryIsBounded`,
  `WorkersStopPromptly` - each safety invariant of `pipeline_two_workers`;
* `PipelineKeepsContract` - `Spec => Contract!Spec`, the refinement.

The assumptions are `KnobsAssumption` (the knobs are naturals, as `usize` is)
and `DocumentAssumption` (every record has at least one byte); TLC evaluates
both in every run.

The argument.  None of the properties is inductive: `OkMeansAll` says nothing
of a running call, and "visited once" does not survive a step unless it is
known which records are in which worker's hands.  `IInv` adds what is missing,
in named parts:

* `BatchInv` - the batches that exist are disjoint intervals in document
  order: in hands, then queued, then under construction; each within the caps
  but for its last record.  It makes `ExactlyOnce` inductive: a call is always
  for a record at or above the worker's `at`, below which all is done.
* `NothingLost` - each record sent is visited, in a hand, queued, or given up
  because a worker panicked.  With an empty queue and no hands left it becomes
  "everything sent was visited".
* `ExitInv` - unless some closure panicked, a worker leaves (or the flag is
  set) only when the producer is done and the queue is empty.  This is what
  makes `ErrDeliversDispatched` true although every worker that leaves sets
  the flag: by the time the first does, there is nothing left to take.
* `ProducerInv` - the producer reads, ends and fails only with nothing unsent,
  a rejected token excepted.
* `ControlInv` - what the position of one thread says of the others.
* `StopInv` - a worker that sees the flag is past its check for one batch at
  most.

Each action has a lemma per part that it can disturb; the safety theorems then
follow from `IInv` state by state, and the refinement from `IInv` step by
step: `Send` is `Offer`, a call is `Visit`, the returns are the returns, and
all else stutters.

`ContextSpecIsSpec` says that every behaviour of `PipelineContext` is one of
`StreamPipeline`, so all of the above holds there, which leaves two
questions: of which moment is the map a batch carries, and what may a record rely on.
From `ContainersAssumption` (containers are numbered as they open, and a record's
innermost container is the one opened last in front of it):

* `EveryBatchHasItsContext` - `[]ContextOfBatch`: a batch carries the map as it was
  when framing stopped behind its last record, whatever the framer reads meanwhile;
  for a batch that is full that is the map at its last record;
* `OwnDeclarationsUnlessRedeclared` - `[]OwnUnlessRedeclared`: when a container around
  a record declares a prefix, the record is given that declaration or the one of a
  container that begins behind it and declares the prefix as well, not farther behind
  the record than a batch reaches.  So a record has its own declarations if no later
  container redeclares them, and with batches of one record it has those that come
  last in document order.

Both follow from `ContextInvariant` (`[]ContextInv`).  `IsAfter(ns, n)` says what the
map is after the start tags up to n; `InsertNext` is the step from n to n + 1, where
the overwriting matters.  `FramerContextInv` puts the framer between the containers of
the record it framed last and those of the next one, and behind neither once a cap is
reached.  `GivenInv` remembers of a record that has been visited only that its map is of
a moment between the record and the last one its batch can have held.  `IInv` is
needed throughout, because which moments are possible depends on which records
the batch holds.

### The resident drivers

`ResidentDriversProofs` proves, for any number of threads, any configurations
and any outcome of their scans, from `DriversAssumption` (the knobs are
naturals, every configured path has a scan outcome): `DriversTypeCorrect`,
`CallersShareIndex`, `OkIsCurrent` and `ScanErrorsAreConsistent`, each a safety
invariant of `resident_drivers`, and `SmallDocumentsAreSequential`, the half of
`ThresholdsDecide` that is about small documents.  `OkIsCurrent` is the one that
needs an argument: a result says nothing of the index it came from, and the index
nothing of the configuration.  `IInv` closes both gaps.  `MemoInv`: whatever
index there is, memoized, found or held, is of the configured path, which
`WithConfig` keeps true because nobody holds one when it runs and because it
empties the memo.  `VisitsInv`: a call's visits are to the records of the index
it holds.  `ResultInv`: "ok" means all of those.  What an action does is the
same for every caller but the one that acts (`OthersKeep`, `CallerStep`), so
each action is proved for that caller only.  `SequentialInv` strengthens
`SmallIsSequential`: below either threshold a caller has started a prefix of the
records, in turn; so at most one can have failed, since the next is taken only
when none has.

### The streaming framer

`StreamFramerProofs` shows first that what the two lexers share keeps `FramerInv`,
then that the actions of each lexer do, those of the memchr build being named
`Jump...`.  The assumptions are `InputAssumption` (the input is the prolog's bytes and then the
tokens') and `ChunkAssumption` (a read returns at least one byte).  For every
document, well formed or not, every record path, and every way to cut the input
into reads:

* `FramerTypes` - positions stay inside the window and counters natural, so that
  no unsigned subtraction of the code wraps;
* `CompactionIsSafe` - `carry` is the input from `base` to `pushed`, and `base`
  is never past the open record or the tag being read;
* `CountersAlwaysAgree` - `CountersAgree`, the part of `DepthsFollowDocument`
  that relates the counters and the record mark;
* `RecordsComeOutWhole` - `RecordsAreSlices`: what was handed out is, record by
  record, a piece of the input from a `<` to a `>`, in order and without
  overlap, whatever was compacted while it was read.  `ranges` is a history
  variable for this property only;
* `JumpsAreSafe` - the same four of the memchr build;
* `SpanEndsAreFound` - an action property of the memchr build: when the search
  for the end of a comment, CDATA section or PI goes on behind what has been
  read, no end begins in what it passes.

None is inductive alone: a slice is the input's bytes only if `carry` is, the
window is kept only if the marks lie in it, and the marks are set and cleared as
the depths say.  `MarksInv` adds where the marks lie: an open tag behind an open
record, both behind all ranges reported and in front of the cursor.

### The resident scanner

`ResidentScannerProofs` proves from `InputAssumption`: `ScannerTypes`
(`[]TypeOK`: every position and every range is inside the document),
`ScannerCountersAgree`, `IndexInOrder` (`RangesInOrder`: the ranges run from a
`<` to a `>`, in order and without overlap) and `EveryIterationMovesOn`
(`ScanMovesOn`: no iteration leaves the cursor where it was, unless it returns).
`ScannerInv` joins them with `OpenRecordInv`, which says where the open record
starts.  `ScanStartTag` is a recursive function; `TagEndFunction` shows that it
exists, by extending a function that is right for the last n bytes to n + 1, and
`ScanStartTagFacts` bounds what it returns, by looking at the last position that
would be wrong.

`IndexProofs` proves, from `TokensAssumption` as well, that the scan finds what
the document means:

* `IndexIsExact` - `Spec => []IndexExact`: a document is accepted exactly if its
  tokens are legal up to the root's end tag and only space, comments and PIs follow,
  and its index is then the list of its records, byte for byte, with the namespaces
  of the last container that declares one;
* `ScannerDepthsFollow` - `Spec => []DepthsFollowDocument`: the two counters count
  the open elements;
* `FollowInvariant` - `Spec => []FollowInv`, which both follow from.

`FollowInv` says that between two iterations the cursor stands where a token of the
document begins, say behind k of them, and what the state means there.  `OnTheWay`:
up to `depth` the open elements are the containers on the record path, and a
subtree is one that leaves it.  `OpenRecordIs`: the open record is the one that
began last.  `FoundUpTo`: the index holds the records that end among the k tokens.
`Outside`: behind the root, all that came since is space, comments and PIs.  And
what has been refused is no document that could be accepted, which is the part
that needs every token behind the cursor.

An iteration passes one token or, of character data, several, so the step from
bytes to tokens is taken once, for any `<` at which the scan stops.  `NextMarkup`:
the first `<` from the beginning of a token on is the beginning of a token, and all
in between is space or text.  `SpansAtToken` and `TagsAtToken`: there, the search for
the end of a span or of a tag stops where the token does, and finds none exactly if the
token is broken.  `TagEndFunction` and `QuoteBehind` walk through the same quotes from
different ends, `ScanStartTagExact` is where they meet.  `AttrsOfTag`: scanning
attributes in the whole document is scanning them in the tag alone.  Then each
action has its lemma (`...Follows`), in terms of the stack only.

The proof showed one of the rules to be wrong: `Closes` took a document with two
end tags of the root for closed at either, so that one with nothing behind the
second was acceptable, while the code refuses it at the first.  The instance had
no such document.  It has one now, and the root closes once.

`RecordsAreSlices`, `NoSpanEndMissed`, `RangesInOrder`, `ScanMovesOn` and the
`TypeOK` of `Prolog` are stated by theorems and in no run of their own; on the small instances `FramesRecords` and
`IndexExact` compare the same records with the document's.

### The prolog

`PrologProofs` proves from `InputAssumption` (a document's pieces are bytes) and
`ChunkAssumption`, for every sequence of bytes and every way to cut it into reads:

* `PreludeTypes` - `[]TypeOK`;
* `VerdictIsFinal` - `[]VerdictFinal`: what the incremental parser decides on the
  bytes read so far it decides on the whole document;
* `PrologsAgreeWithoutDoctype` - `PrologsAgree`, of documents in which no DOCTYPE
  begins.

The parser starts over with every read, so its state says little: `PreludeInv`
is that the prelude is what the parser makes of the bytes read, or the error of a
document that ends too early.  `VerdictFinal` is then a statement about prefixes.
Each function has its lemma: what it says of the first bytes of a buffer is to ask
for more, or is what it says of all of them (`TryDeclGrown`, `ClassifyGrown`,
`FindDoctypeEndGrown`, `TryParseRootTagGrown`, and so on up to
`TryParsePreludeGrown`).  What makes it true is that every search is for something
whose first occurrence stays the first, and that every test against a pattern waits
until the pattern fits (`MismatchGrown`).

Agreement compares the parsers construct by construct (`StepsAgree`): at any
position either both give the same answer (`BothAnswer`), or both go on at the same
later position (`BothSkip`), or the streaming one asks for more and the resident one
refuses (`BothCutOff`).  Why `PrologsAgree` allows two errors of a document that is
cut off: when the root's name is its last bytes, the streaming path waits for more of
the name and then says `Malformed`, while the resident one may find that the
name is no UTF-8 and say `Encoding`.  With a DOCTYPE the paths do not agree on
every document (section 6), so the theorem stops where the code does; on the
DOCTYPEs of the instance TLC compares them.

### The readers

`RecordCursorProofs` proves of both readers and the iterator, from
`SourcesAssumption` (a source is a sequence of the event kinds, and a start tag's
attributes are a sequence): `CursorTypes` (`[]TypeOK`), `EventsAreExact`
(`[]EventsExact`), `ErrorsTakeLittle` (`[]LostOnlyBehindErrors`),
`OnlyEmptyKeysHang` (`[]StuckOnlyAtEmptyKey`) and `AttributesAgree`
(`[]AttrsAgree`), for sources of any length with
runs, DOCTYPEs and errors anywhere.

The argument divides a source at two places.  `Ahead` is the event to look at
next; `Held` is the first event that no call has settled, which is the start of
the run in hand, if there is one.  `HandInv` says what is between them: a run of
text, one value for each event.  `EntitiesInv`: the entity table is what is
declared in front of `Ahead`, unless an error took a DOCTYPE with it.
`ExactInv`: before the first error, nothing deliverable lies between the last
result and `Held`, and the run begins where runs begin and means what it is
resolved to.  `LossInv`: everything in front of `Held` has been delivered, is
skipped markup, or is excused by an error.  `EventsExact` says of every result
what `ExactInv` says of the one about to be returned, and so each kind of return
has its lemma.

`AttributesAgree` is about two readers of the same bytes that share no code and
differ in where they end a key, what they take for a value and when they give
up.  `CallAgrees` compares one call of the iterator with one turn of the scanner's
loop, wherever the scanner would come to the end of the tag: both yield the same
name and value and stop at the same place, or both are at the end.  `AgreeInv` adds
the calls up: what has been yielded, and what the scanner finds from the iterator's
place on, are together what the scanner finds in the tag (`Split`).  When nothing is
left, the first is all.  It holds for a caller that stops, starts a new iterator or
goes on behind errors.

## 5. Only model-checked, and not modelled

* `Termination`, `EveryCallReturns`, `ReachesEnd`: liveness under fairness, by TLC
  only.  The other half of `ThresholdsDecide`, `LargeIsParallel`, says what is
  `ENABLED`, and is TLC's as well.
* The framers' `FramesRecords`, the rest of their `DepthsFollowDocument`,
  `NothingLeftBehind`, `CarryBounded` and `OwnNamespacesCaptured`: they compare
  positions with the tokens of the document.  `IndexProofs` makes that comparison
  for the resident scanner, which passes a token in one step; the framers may stop
  in any state inside one, and what that state says of the part of the token already
  read has yet to be written down, lexer by lexer.  The theorems say what holds of
  the framers whatever the bytes are: windows, slices, order, counters.
* `DecidesAtOnce` and `PrologExact`: a piece's meaning is given with the piece, not by
  its bytes, so there is nothing to argue from.
* `PrologsAgree` of documents with a DOCTYPE.
* quick-xml and rayon are external, and stand for anything their interface
  allows: any sequence of events, any order of visits.
* Left out for good: file mapping and zstd (external; the source is "any
  `Read`"), builders and accessors, entity texts beyond their names and bytes that
  are no UTF-8 beyond `FE` and `FF`, wording of errors and their exact positions.
* `xmlns:p` is one symbol, so a prefix that is no UTF-8, which `scan_attrs_xmlns`
  refuses (`scan.rs:547`), cannot be written; a value that is none can.

In the framer's model a document starts behind its prolog: `Init` is any state
in which the root start tag has been parsed, with any number of bytes read
beyond it, and with a self-closing root as one of the possibilities.

## 6. Where code and documentation differ

Each of these is a run that ends in a violation of what the documentation says.

| Run | Says | Does |
|---|---|---|
| `pipeline_late_batch` | after a panic the others leave "after at most the batch already in hand" (`stream.rs:301`) | the flag is read before the wait for the mutex and `recv`; a worker past the check takes one further batch. `PromptStop` (proved) says: one, never two |
| `framer_trailing_junk` | the streaming path frames the same records as the resident path (`tests/public_api.rs:738`) | text or elements after the root's end tag are refused by the resident scanner and never looked at by the framer |
| `framer_namespaces` | "root- and ancestor-declared namespaces are always correct" (`prelude.rs:27`) | the declaration of a container that has closed stays in force for the records of a later container that declares nothing. `OwnNamespacesCaptured` is what does hold there |
| `prolog_external_dtd` | "External DTDs and parameter entities are **rejected** with `XmlError::UnsupportedDtd` rather than silently skipped" (`README.md:348`) | the streaming parser looks for the end of the DOCTYPE only and drops the errors of its entity declarations; only the resident parser returns the error |

Smaller ones, which the models show as well:

* A record above the byte cap "is still dispatched on its own" (`config.rs:137`):
  the cap is checked before framing (`BatchOpen`), so such a record joins the
  smaller ones already in the batch.  `MemoryBound` is what holds.
* "root- and ancestor-declared namespaces are always correct" (`prelude.rs:27`) fails
  within a batch too: a batch takes the map when all of its records are framed
  (`stream.rs:250`), so a record whose containers declare nothing is given what a
  container behind it declares, in place of the root's, if the framer has come to
  that container before the batch is sent.  `OwnUnlessRedeclared` is what does hold.
* Memory stays bounded by the largest record plus a chunk (`scan.rs:671`): once
  the root has closed the cursor rests, and what follows the root piles up in
  `carry`.  `CarryBounded` says it for the time before.
* The streaming parser takes entity declarations from comments in the DOCTYPE
  too, and the resident one takes `SYSTEM` anywhere outside the internal subset,
  in the name for instance, for an external DTD.
* Behind a reference that has no meaning, the event read ahead is lost with it:
  a tag, or for `SeqReader` a DOCTYPE with the entities it declares
  (`LostOnlyBehindErrors` says exactly what).
* `AttrIter` answers an `=` where a key should start with the same error for
  ever (`StuckOnlyAtEmptyKey`): a caller that skips its errors hangs there.
* Namespaces are captured as they are written; the iterator yields the same
  attribute with its references resolved (`AttrsAgree` compares what is
  written).

## 7. Plan

Done, in this order: pipeline, its proofs, record rules, streaming framer,
resident scanner, drivers and their proofs; then the prolog parsers, the memchr
framer, the readers and the attribute iterator, and the context on its way
through the pipeline; then the proofs about the context, the drivers' sequential
pass, the framers, the resident scanner and the readers; last the proofs about the
prolog, the agreement of the attribute iterator with the scanner, and the exactness
of the resident index.  What is left:

1. `FollowInv` for the framers, with a part for each lexical state; the lemmas of
   `IndexProofs` about tags, spans and tokens are about bytes alone and carry over.
   With it the refinement of `RecordFraming` could be proved.
2. How deep the namespaces of the framer and of the scanner can point: the tag
   merged last lies in front of the open record.
3. `RecordFraming` itself, over tokens: that what it reports never overlaps.
4. Which DOCTYPEs both prolog parsers read alike, and `PrologsAgree` for those.
