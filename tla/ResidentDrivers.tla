---------------------------- MODULE ResidentDrivers ----------------------------
(***************************************************************************)
(* ParallelXml (src/src/lib.rs): index() and its memo, the four drivers    *)
(* over the records of a resident document, with_config.                   *)
(*                                                                         *)
(* Threads that share the document call it at the same time.  Records are  *)
(* numbered in document order; what the scan finds on a path is their      *)
(* number (ResidentScanner says which they are).  rayon is external: it    *)
(* runs the closure on the records in any order, at most once each and on  *)
(* all of them unless one fails or panics; after that it may or may not    *)
(* start further ones, and it returns when none is running.                *)
(***************************************************************************)
EXTENDS Integers, FiniteSets

CONSTANTS
    Callers,    \* threads that share the document
    Configs,    \* records [path, parallel_threshold, min_records]
    Scan,       \* Scan[path]: number of records, or ScanFails
    BufLen      \* bytes of the document

ScanFails == -1

ASSUME DriversAssumption ==
    /\ BufLen \in Nat
    /\ \A cfg \in Configs :
        /\ cfg.path \in DOMAIN Scan
        /\ cfg.parallel_threshold \in Nat
        /\ cfg.min_records \in Nat
    /\ \A path \in DOMAIN Scan : Scan[path] \in Nat \cup {ScanFails}

FallibleOps == {"try_par_for_each", "try_map_collect"}

Ops == FallibleOps \cup {"index", "par_for_each", "map_collect"}

\* An index is a value on the heap: callers hold the same one only if the same
\* scan made it.
Indexes == [path : {p \in DOMAIN Scan : Scan[p] # ScanFails}, by : Callers]

VARIABLES
    config,     \* the document's configuration
    index_cache,\* the OnceLock: the memoized index, if any
    pc, op,     \* where each caller is, and in which call
    found,      \* the index a caller has scanned and not offered to the memo yet
    held,       \* the index a caller borrows, if any
    started,    \* records whose closure has been called
    done,       \* those of them for which it returned, with Ok if fallible
    failed,     \* those for which it returned an error or panicked
    panicked,   \* callers one of whose closures panicked
    result      \* what the call returned

memoVars == <<config, index_cache, found, held>>
runVars == <<started, done, failed, panicked>>

vars == <<memoVars, runVars, pc, op, result>>

Init ==
    /\ config \in Configs
    /\ index_cache = {}
    /\ pc = [c \in Callers |-> "idle"]
    /\ op = [c \in Callers |-> "index"]
    /\ found = [c \in Callers |-> {}]
    /\ held = [c \in Callers |-> {}]
    /\ started = [c \in Callers |-> {}]
    /\ done = [c \in Callers |-> {}]
    /\ failed = [c \in Callers |-> {}]
    /\ panicked = {}
    /\ result = [c \in Callers |-> "none"]

-------------------------------------------------------------------------------
\* with_config takes the document by value: nothing is borrowed from it.

\* Fault: the memo outlives the configuration it was made for.
WithConfigKeepsMemo(cfg) ==
    /\ \A c \in Callers : pc[c] = "idle"
    /\ config' = cfg
    /\ UNCHANGED <<index_cache, found, held, runVars, pc, op, result>>

WithConfig(cfg) ==
    /\ \A c \in Callers : pc[c] = "idle"
    /\ config' = cfg
    /\ index_cache' = {}
    /\ UNCHANGED <<found, held, runVars, pc, op, result>>

-------------------------------------------------------------------------------
\* index()

Call(c, o) ==
    /\ pc[c] = "idle"
    /\ op' = [op EXCEPT ![c] = o]
    /\ pc' = [pc EXCEPT ![c] = "lookup"]
    /\ UNCHANGED <<memoVars, runVars, result>>

\* A driver goes on with the index it borrows, index() returns it.
Borrow(c, index) ==
    /\ held' = [held EXCEPT ![c] = index]
    /\ IF op[c] = "index"
       THEN pc' = [pc EXCEPT ![c] = "returned"] /\ result' = [result EXCEPT ![c] = "ok"]
       ELSE pc' = [pc EXCEPT ![c] = "run"] /\ UNCHANGED result
    /\ UNCHANGED <<config, index_cache, runVars, op>>

LookupHit(c) ==
    /\ pc[c] = "lookup"
    /\ index_cache # {}
    /\ Borrow(c, index_cache)
    /\ UNCHANGED found

LookupMiss(c) ==
    /\ pc[c] = "lookup"
    /\ index_cache = {}
    /\ pc' = [pc EXCEPT ![c] = "scan"]
    /\ UNCHANGED <<memoVars, runVars, op, result>>

\* scan_with
ScanDocument(c) ==
    /\ pc[c] = "scan"
    /\ Scan[config.path] # ScanFails
    /\ found' = [found EXCEPT ![c] = {[path |-> config.path, by |-> c]}]
    /\ pc' = [pc EXCEPT ![c] = "set"]
    /\ UNCHANGED <<config, index_cache, held, runVars, op, result>>

\* Fault: what a failed scan leaves is memoized.
ScanErrorMemoized(c) ==
    /\ pc[c] = "scan"
    /\ Scan[config.path] = ScanFails
    /\ index_cache' = {[path |-> config.path, by |-> c]}
    /\ pc' = [pc EXCEPT ![c] = "returned"]
    /\ result' = [result EXCEPT ![c] = "scan error"]
    /\ UNCHANGED <<config, found, held, runVars, op>>

ScanError(c) ==
    /\ pc[c] = "scan"
    /\ Scan[config.path] = ScanFails
    /\ pc' = [pc EXCEPT ![c] = "returned"]
    /\ result' = [result EXCEPT ![c] = "scan error"]
    /\ UNCHANGED <<memoVars, runVars, op>>

\* Fault: the loser of the race replaces the winner's index.
SetMemoOverwrites(c) ==
    /\ pc[c] = "set"
    /\ index_cache' = found[c]
    /\ found' = [found EXCEPT ![c] = {}]
    /\ pc' = [pc EXCEPT ![c] = "get"]
    /\ UNCHANGED <<config, held, runVars, op, result>>

\* OnceLock::set: the first one stays, the loser's index is dropped.
SetMemo(c) ==
    /\ pc[c] = "set"
    /\ index_cache' = IF index_cache = {} THEN found[c] ELSE index_cache
    /\ found' = [found EXCEPT ![c] = {}]
    /\ pc' = [pc EXCEPT ![c] = "get"]
    /\ UNCHANGED <<config, held, runVars, op, result>>

\* get().expect("index_cache filled just above")
GetMemo(c) ==
    /\ pc[c] = "get"
    /\ index_cache # {}
    /\ Borrow(c, index_cache)
    /\ UNCHANGED found

-------------------------------------------------------------------------------
\* The drivers.

Records(c) == UNION {0 .. Scan[index.path] - 1 : index \in held[c]}

RecordCount(c) == Cardinality(Records(c))

Running(c) == started[c] \ (done[c] \cup failed[c])

\* Fault: a document that meets a threshold exactly is taken for a small one.
SequentialAtThreshold(c) ==
    BufLen <= config.parallel_threshold \/ RecordCount(c) < config.min_records

run_sequential(c) ==
    BufLen < config.parallel_threshold \/ RecordCount(c) < config.min_records

\* The sequential loop takes the next record when the last one is done and no
\* error or panic has ended it; rayon takes any.
MayStart(c, i) ==
    run_sequential(c) =>
        i = Cardinality(started[c]) /\ Running(c) = {} /\ failed[c] = {}

Start(c, i) ==
    /\ pc[c] = "run"
    /\ i \in Records(c) \ started[c]
    /\ MayStart(c, i)
    /\ started' = [started EXCEPT ![c] = @ \cup {i}]
    /\ UNCHANGED <<memoVars, done, failed, panicked, pc, op, result>>

FOk(c, i) ==
    /\ i \in Running(c)
    /\ done' = [done EXCEPT ![c] = @ \cup {i}]
    /\ UNCHANGED <<memoVars, started, failed, panicked, pc, op, result>>

FErr(c, i) ==
    /\ op[c] \in FallibleOps
    /\ i \in Running(c)
    /\ failed' = [failed EXCEPT ![c] = @ \cup {i}]
    /\ UNCHANGED <<memoVars, started, done, panicked, pc, op, result>>

FPanics(c, i) ==
    /\ i \in Running(c)
    /\ failed' = [failed EXCEPT ![c] = @ \cup {i}]
    /\ panicked' = panicked \cup {c}
    /\ UNCHANGED <<memoVars, started, done, pc, op, result>>

\* Fault: rayon is asked for every record even when one has failed.
CompleteOnlyAll(c) == started[c] = Records(c)

Complete(c) == failed[c] # {} \/ started[c] = Records(c)

Outcome(c) ==
    CASE c \in panicked -> "panic"
      [] failed[c] # {} -> "record error"
      [] OTHER -> "ok"

Return(c) ==
    /\ pc[c] = "run"
    /\ Running(c) = {}
    /\ Complete(c)
    /\ pc' = [pc EXCEPT ![c] = "returned"]
    /\ result' = [result EXCEPT ![c] = Outcome(c)]
    /\ UNCHANGED <<memoVars, runVars, op>>

\* The caller drops what it borrowed.
Release(c) ==
    /\ pc[c] = "returned"
    /\ pc' = [pc EXCEPT ![c] = "idle"]
    /\ held' = [held EXCEPT ![c] = {}]
    /\ started' = [started EXCEPT ![c] = {}]
    /\ done' = [done EXCEPT ![c] = {}]
    /\ failed' = [failed EXCEPT ![c] = {}]
    /\ panicked' = panicked \ {c}
    /\ result' = [result EXCEPT ![c] = "none"]
    /\ UNCHANGED <<config, index_cache, found, op>>

-------------------------------------------------------------------------------
Work(c) ==
    \/ LookupHit(c) \/ LookupMiss(c) \/ ScanDocument(c) \/ ScanError(c)
    \/ SetMemo(c) \/ GetMemo(c)
    \/ \E i \in started[c] : FOk(c, i) \/ FErr(c, i) \/ FPanics(c, i)
    \/ \E i \in Records(c) : Start(c, i)
    \/ Return(c)

Next ==
    \/ \E cfg \in Configs : WithConfig(cfg)
    \/ \E c \in Callers :
        \/ \E o \in Ops : Call(c, o)
        \/ Work(c)
        \/ Release(c)

Spec == Init /\ [][Next]_vars

\* Threads are scheduled and closures return; nobody has to call anything.
FairSpec == Spec /\ \A c \in Callers : WF_vars(Work(c))

-------------------------------------------------------------------------------
(***************************************************************************)
(* Properties                                                              *)
(***************************************************************************)

\* The memo holds one index at most, and never that of a failed scan.
TypeOK ==
    /\ config \in Configs
    /\ index_cache \in SUBSET Indexes
    /\ \A i, j \in index_cache : i = j
    /\ pc \in [Callers -> {"idle", "lookup", "scan", "set", "get", "run", "returned"}]
    /\ op \in [Callers -> Ops]
    /\ found \in [Callers -> SUBSET Indexes]
    /\ held \in [Callers -> SUBSET Indexes]
    /\ {started, done, failed} \subseteq [Callers -> SUBSET Nat]
    /\ panicked \subseteq Callers
    /\ result \in [Callers -> {"none", "ok", "scan error", "record error", "panic"}]

\* lib.rs 262-271: every call on the same document borrows the same index, who
\* ever scanned for it, and the memo does not change under a borrower.
OneIndex ==
    \A c \in Callers : held[c] # {} => held[c] = index_cache

\* A call that returns Ok ran its closure to the end on every record that the
\* document has under the configuration it has now, not an earlier one.
OkVisitsEveryRecord ==
    \A c \in Callers :
        result[c] = "ok" /\ op[c] # "index" => done[c] = 0 .. Scan[config.path] - 1

\* A scan that fails leaves nothing behind: every call on the document fails
\* alike, the first one and those that come later or at the same time.
ScanErrorsAgree ==
    \A c \in Callers :
        result[c] # "none" => (result[c] = "scan error" <=> Scan[config.path] = ScanFails)

IsSmall == BufLen < config.parallel_threshold \/ Scan[config.path] < config.min_records

\* config.rs 33-36: below either threshold the records are visited one after
\* the other, in document order, up to the first that fails.
SmallIsSequential ==
    IsSmall =>
        \A c \in Callers :
            /\ \A i \in started[c] : 0 .. i - 1 \subseteq done[c]
            /\ Cardinality(failed[c]) <= 1

\* config.rs 36-37: "to force the parallel path, set both to 0".  At both thresholds or
\* above no record waits for another one, whatever those that run do.
LargeIsParallel ==
    ~IsSmall =>
        \A c \in Callers :
            pc[c] = "run" => \A i \in Records(c) \ started[c] : ENABLED Start(c, i)

\* Either threshold alone selects the sequential pass, strictly below it: nothing runs
\* at once there, and nothing waits elsewhere.
ThresholdsDecide == SmallIsSequential /\ LargeIsParallel

\* Every call comes back, whatever its closures do but run for ever.
EveryCallReturns ==
    \A c \in Callers : pc[c] = "lookup" ~> pc[c] = "returned"

-------------------------------------------------------------------------------
(***************************************************************************)
(* The inductive invariant behind the memo's properties.                   *)
(***************************************************************************)

\* Every index there is comes from the configured path, and only a caller
\* between its scan and the memo has one of its own.
CallerMemo(c) ==
    /\ \A i, j \in found[c] : i = j
    /\ \A index \in found[c] : index.path = config.path
    /\ pc[c] = "set" <=> found[c] # {}
    /\ pc[c] = "get" => index_cache # {}
    /\ held[c] # {} => held[c] = index_cache
    /\ pc[c] = "run" => held[c] # {}
    /\ held[c] # {} => pc[c] \in {"run", "returned"}

MemoInv ==
    /\ \A index \in index_cache : index.path = config.path
    /\ \A c \in Callers : CallerMemo(c)

\* The visits of a call are to records of the index it holds.
VisitsOK(c) ==
    /\ started[c] \subseteq Records(c)
    /\ done[c] \subseteq started[c]
    /\ failed[c] \subseteq started[c] \ done[c]

VisitsInv == \A c \in Callers : VisitsOK(c)

\* What a call has to show for its result.
CallerResult(c) ==
    /\ pc[c] = "returned" <=> result[c] # "none"
    /\ result[c] = "scan error" => Scan[config.path] = ScanFails
    /\ result[c] \in {"ok", "record error", "panic"} => held[c] # {}
    /\ result[c] = "ok" /\ op[c] # "index" => done[c] = Records(c)

ResultInv == \A c \in Callers : CallerResult(c)

\* Visits in turn: those before the last one started are done.
InTurn(c) ==
    /\ \E n \in {0} \cup {i + 1 : i \in started[c]} : started[c] = 0 .. n - 1
    /\ \A i \in started[c] : 0 .. i - 1 \subseteq done[c]

SequentialInv == IsSmall => \A c \in Callers : InTurn(c)

IInv == TypeOK /\ MemoInv /\ VisitsInv /\ ResultInv
===============================================================================
