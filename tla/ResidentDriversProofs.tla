------------------------- MODULE ResidentDriversProofs -------------------------
(***************************************************************************)
(* Proofs about ResidentDrivers: for any number of threads, configurations *)
(* and records, no call works with a stale or a foreign index.             *)
(***************************************************************************)
EXTENDS ResidentDrivers, FiniteSetTheorems, TLAPS

\* The records of a caller are numbers, and depend on what it holds only.
LEMMA RecordsFacts ==
  ASSUME TypeOK, NEW c \in Callers
  PROVE  /\ Records(c) \subseteq Nat
         /\ held[c] = {} => Records(c) = {}
         /\ held'[c] = held[c] => Records(c)' = Records(c)
<1>1. ASSUME NEW i \in Records(c) PROVE i \in Nat
  <2>1. PICK index \in held[c] : i \in 0 .. Scan[index.path] - 1
    BY <1>1 DEF Records
  <2>2. index \in Indexes
    BY DEF TypeOK
  <2>3. Scan[index.path] \in Int
    BY <2>2, DriversAssumption DEF Indexes, ScanFails
  <2>4. QED
    BY <2>1, <2>3
<1>2. ASSUME held[c] = {}, NEW i \in Records(c) PROVE FALSE
  BY <1>2 DEF Records
<1>3. ASSUME held'[c] = held[c] PROVE Records(c)' = Records(c)
  BY <1>3, Zenon DEF Records
<1>4. QED
  BY <1>1, <1>2, <1>3

\* What is known of a caller stays true while its own state, the memo and the
\* configuration stay the same, or the empty memo is filled.
LEMMA OthersKeep ==
  ASSUME TypeOK, MemoInv, VisitsInv, ResultInv, NEW d \in Callers,
         config' = config, index_cache # {} => index_cache' = index_cache,
         found'[d] = found[d], held'[d] = held[d], pc'[d] = pc[d], op'[d] = op[d],
         started'[d] = started[d], done'[d] = done[d], failed'[d] = failed[d],
         result'[d] = result[d]
  PROVE  VisitsOK(d)' /\ CallerMemo(d)' /\ CallerResult(d)'
<1>1. Records(d)' = Records(d)
  BY RecordsFacts
<1>2. VisitsOK(d) /\ CallerMemo(d) /\ CallerResult(d)
  BY DEF MemoInv, VisitsInv, ResultInv
<1>3. VisitsOK(d)'
  BY <1>1, <1>2 DEF VisitsOK
<1>4. CallerMemo(d)'
  BY <1>2 DEF CallerMemo
<1>5. CallerResult(d)'
  BY <1>1, <1>2 DEF CallerResult
<1>6. QED
  BY <1>3, <1>4, <1>5

\* A caller that holds nothing visits nothing.
LEMMA NothingHeld ==
  ASSUME TypeOK, VisitsInv, NEW c \in Callers, held[c] = {}
  PROVE  started[c] = {} /\ done[c] = {} /\ failed[c] = {}
BY RecordsFacts DEF VisitsInv, VisitsOK


-------------------------------------------------------------------------------
\* An action of caller c: the others by OthersKeep, the memo's paths, and c.
LEMMA CallerStep ==
  ASSUME TypeOK, MemoInv, VisitsInv, ResultInv, NEW c \in Callers,
         config' = config, index_cache # {} => index_cache' = index_cache,
         \A index \in index_cache' : index.path = config.path,
         \A d \in Callers \ {c} :
            /\ found'[d] = found[d] /\ held'[d] = held[d] /\ pc'[d] = pc[d] /\ op'[d] = op[d]
            /\ started'[d] = started[d] /\ done'[d] = done[d] /\ failed'[d] = failed[d]
            /\ result'[d] = result[d],
         TypeOK', VisitsOK(c)', CallerMemo(c)', CallerResult(c)'
  PROVE  IInv'
<1>1. ASSUME NEW d \in Callers PROVE VisitsOK(d)' /\ CallerMemo(d)' /\ CallerResult(d)'
  <2>1. CASE d = c
    BY <2>1
  <2>2. CASE d # c
    BY <2>2, OthersKeep
  <2>3. QED
    BY <2>1, <2>2
<1>2. \A index \in index_cache' : index.path = config'.path
  OBVIOUS
<1>3. QED
  BY <1>1, <1>2 DEF IInv, MemoInv, VisitsInv, ResultInv

\* Every step of a caller keeps the invariant.
LEMMA InductiveStep == IInv /\ [Next]_vars => IInv'
<1> SUFFICES ASSUME IInv, [Next]_vars PROVE IInv'
  OBVIOUS
<1> USE DEF IInv
<1>1. CASE UNCHANGED vars
  <2>1. UNCHANGED <<config, index_cache, found, held, started, done, failed, panicked, pc, op, result>>
    BY <1>1 DEF vars, memoVars, runVars
  <2>2. TypeOK'
    BY <2>1 DEF TypeOK
  <2>3. ASSUME NEW d \in Callers PROVE VisitsOK(d)' /\ CallerMemo(d)' /\ CallerResult(d)'
    BY <2>1, OthersKeep
  <2>4. \A index \in index_cache' : index.path = config'.path
    BY <2>1 DEF MemoInv
  <2>5. QED
    BY <2>2, <2>3, <2>4 DEF MemoInv, VisitsInv, ResultInv
<1>2. ASSUME NEW cfg \in Configs, WithConfig(cfg) PROVE IInv'
  <2>1. /\ config' = cfg /\ index_cache' = {}
        /\ UNCHANGED <<found, held, started, done, failed, panicked, pc, op, result>>
        /\ \A d \in Callers : pc[d] = "idle"
    BY <1>2 DEF WithConfig, runVars
  <2>2. \A d \in Callers : found[d] = {} /\ held[d] = {} /\ result[d] = "none"
    BY <2>1 DEF MemoInv, ResultInv, CallerMemo, CallerResult
  <2>3. TypeOK'
    BY <2>1 DEF TypeOK
  <2>4. MemoInv'
    BY <2>1, <2>2 DEF MemoInv, CallerMemo
  <2>5. VisitsInv'
    BY <2>1, RecordsFacts DEF VisitsInv, VisitsOK
  <2>6. ResultInv'
    BY <2>1, <2>2 DEF ResultInv, CallerResult
  <2>7. QED
    BY <2>3, <2>4, <2>5, <2>6
<1>3. ASSUME NEW c \in Callers, NEW o \in Ops, Call(c, o) PROVE IInv'
  <2>1. /\ config' = config /\ index_cache' = index_cache
        /\ pc[c] = "idle" /\ pc'[c] = "lookup"
        /\ found'[c] = found[c] /\ held'[c] = held[c] /\ result'[c] = result[c]
        /\ started'[c] = started[c] /\ done'[c] = done[c] /\ failed'[c] = failed[c]
        /\ \A d \in Callers \ {c} :
            /\ found'[d] = found[d] /\ held'[d] = held[d] /\ pc'[d] = pc[d] /\ op'[d] = op[d]
            /\ started'[d] = started[d] /\ done'[d] = done[d] /\ failed'[d] = failed[d]
            /\ result'[d] = result[d]
    BY <1>3 DEF Call, memoVars, runVars, TypeOK
  <2>2. VisitsOK(c) /\ CallerMemo(c) /\ CallerResult(c)
    BY DEF MemoInv, VisitsInv, ResultInv
  <2>3. TypeOK'
    BY <1>3 DEF Call, memoVars, runVars, TypeOK
  <2>4. VisitsOK(c)'
    BY <2>1, <2>2, RecordsFacts DEF VisitsOK
  <2>5. CallerMemo(c)'
    BY <2>1, <2>2 DEF CallerMemo
  <2>6. CallerResult(c)'
    BY <2>1, <2>2 DEF CallerMemo, CallerResult
  <2>7. QED
    BY <2>1, <2>3, <2>4, <2>5, <2>6, CallerStep DEF MemoInv
<1>4. ASSUME NEW c \in Callers, LookupMiss(c) PROVE IInv'
  <2>1. /\ config' = config /\ index_cache' = index_cache
        /\ pc[c] = "lookup" /\ pc'[c] = "scan"
        /\ found'[c] = found[c] /\ held'[c] = held[c] /\ result'[c] = result[c]
        /\ started'[c] = started[c] /\ done'[c] = done[c] /\ failed'[c] = failed[c]
        /\ \A d \in Callers \ {c} :
            /\ found'[d] = found[d] /\ held'[d] = held[d] /\ pc'[d] = pc[d] /\ op'[d] = op[d]
            /\ started'[d] = started[d] /\ done'[d] = done[d] /\ failed'[d] = failed[d]
            /\ result'[d] = result[d]
    BY <1>4 DEF LookupMiss, memoVars, runVars, TypeOK
  <2>2. VisitsOK(c) /\ CallerMemo(c) /\ CallerResult(c)
    BY DEF MemoInv, VisitsInv, ResultInv
  <2>3. TypeOK'
    BY <1>4 DEF LookupMiss, memoVars, runVars, TypeOK
  <2>4. VisitsOK(c)'
    BY <2>1, <2>2, RecordsFacts DEF VisitsOK
  <2>5. CallerMemo(c)'
    BY <2>1, <2>2 DEF CallerMemo
  <2>6. CallerResult(c)'
    BY <2>1, <2>2 DEF CallerMemo, CallerResult
  <2>7. QED
    BY <2>1, <2>3, <2>4, <2>5, <2>6, CallerStep DEF MemoInv
<1>5. ASSUME NEW c \in Callers, LookupHit(c) \/ GetMemo(c) PROVE IInv'
  <2>1. /\ config' = config /\ index_cache' = index_cache
        /\ pc[c] \in {"lookup", "get"} /\ index_cache # {}
        /\ found'[c] = found[c] /\ held'[c] = index_cache /\ op'[c] = op[c]
        /\ \/ op[c] = "index" /\ pc'[c] = "returned" /\ result'[c] = "ok"
           \/ op[c] # "index" /\ pc'[c] = "run" /\ result'[c] = result[c]
        /\ started'[c] = started[c] /\ done'[c] = done[c] /\ failed'[c] = failed[c]
        /\ \A d \in Callers \ {c} :
            /\ found'[d] = found[d] /\ held'[d] = held[d] /\ pc'[d] = pc[d] /\ op'[d] = op[d]
            /\ started'[d] = started[d] /\ done'[d] = done[d] /\ failed'[d] = failed[d]
            /\ result'[d] = result[d]
    <3>1. Borrow(c, index_cache) /\ found' = found
          /\ pc[c] \in {"lookup", "get"} /\ index_cache # {}
      BY <1>5 DEF LookupHit, GetMemo
    <3>2. QED
      BY <3>1 DEF Borrow, runVars, TypeOK
  <2>2. VisitsOK(c) /\ CallerMemo(c) /\ CallerResult(c)
    BY DEF MemoInv, VisitsInv, ResultInv
  <2>3. TypeOK'
    <3>1. held' \in [Callers -> SUBSET Indexes] /\ found' = found
      BY <1>5 DEF LookupHit, GetMemo, Borrow, TypeOK
    <3>2. /\ pc' \in [Callers -> {"idle", "lookup", "scan", "set", "get", "run", "returned"}]
          /\ result' \in [Callers -> {"none", "ok", "scan error", "record error", "panic"}]
      <4>1. \/ pc' = [pc EXCEPT ![c] = "returned"] /\ result' = [result EXCEPT ![c] = "ok"]
            \/ pc' = [pc EXCEPT ![c] = "run"] /\ result' = result
        BY <1>5 DEF LookupHit, GetMemo, Borrow
      <4>2. QED
        BY <4>1 DEF TypeOK
    <3>3. UNCHANGED <<config, index_cache, started, done, failed, panicked, op>>
      BY <1>5 DEF LookupHit, GetMemo, Borrow, runVars
    <3>4. QED
      BY <3>1, <3>2, <3>3 DEF TypeOK
  <2>4. VisitsOK(c)'
    BY <2>1, <2>2, NothingHeld DEF VisitsOK, CallerMemo
  <2>5. CallerMemo(c)'
    BY <2>1, <2>2 DEF CallerMemo
  <2>6. CallerResult(c)'
    BY <2>1, <2>2 DEF CallerMemo, CallerResult
  <2>7. QED
    BY <2>1, <2>3, <2>4, <2>5, <2>6, CallerStep DEF MemoInv
<1>6. ASSUME NEW c \in Callers, ScanDocument(c) PROVE IInv'
  <2>1. /\ config' = config /\ index_cache' = index_cache
        /\ pc[c] = "scan" /\ pc'[c] = "set"
        /\ found'[c] = {[path |-> config.path, by |-> c]}
        /\ held'[c] = held[c] /\ result'[c] = result[c]
        /\ started'[c] = started[c] /\ done'[c] = done[c] /\ failed'[c] = failed[c]
        /\ \A d \in Callers \ {c} :
            /\ found'[d] = found[d] /\ held'[d] = held[d] /\ pc'[d] = pc[d] /\ op'[d] = op[d]
            /\ started'[d] = started[d] /\ done'[d] = done[d] /\ failed'[d] = failed[d]
            /\ result'[d] = result[d]
    BY <1>6 DEF ScanDocument, memoVars, runVars, TypeOK
  <2>2. VisitsOK(c) /\ CallerMemo(c) /\ CallerResult(c)
    BY DEF MemoInv, VisitsInv, ResultInv
  <2>3. TypeOK'
    <3>1. [path |-> config.path, by |-> c] \in Indexes
      BY <1>6, DriversAssumption DEF ScanDocument, Indexes, TypeOK
    <3>2. QED
      BY <1>6, <3>1 DEF ScanDocument, runVars, TypeOK
  <2>4. VisitsOK(c)'
    BY <2>1, <2>2, RecordsFacts DEF VisitsOK
  <2>5. CallerMemo(c)'
    BY <2>1, <2>2 DEF CallerMemo
  <2>6. CallerResult(c)'
    BY <2>1, <2>2 DEF CallerMemo, CallerResult
  <2>7. QED
    BY <2>1, <2>3, <2>4, <2>5, <2>6, CallerStep DEF MemoInv
<1>7. ASSUME NEW c \in Callers, ScanError(c) PROVE IInv'
  <2>1. /\ config' = config /\ index_cache' = index_cache
        /\ pc[c] = "scan" /\ pc'[c] = "returned" /\ Scan[config.path] = ScanFails
        /\ found'[c] = found[c] /\ held'[c] = held[c] /\ result'[c] = "scan error"
        /\ started'[c] = started[c] /\ done'[c] = done[c] /\ failed'[c] = failed[c]
        /\ \A d \in Callers \ {c} :
            /\ found'[d] = found[d] /\ held'[d] = held[d] /\ pc'[d] = pc[d] /\ op'[d] = op[d]
            /\ started'[d] = started[d] /\ done'[d] = done[d] /\ failed'[d] = failed[d]
            /\ result'[d] = result[d]
    BY <1>7 DEF ScanError, memoVars, runVars, TypeOK
  <2>2. VisitsOK(c) /\ CallerMemo(c) /\ CallerResult(c)
    BY DEF MemoInv, VisitsInv, ResultInv
  <2>3. TypeOK'
    BY <1>7 DEF ScanError, memoVars, runVars, TypeOK
  <2>4. VisitsOK(c)'
    BY <2>1, <2>2, RecordsFacts DEF VisitsOK
  <2>5. CallerMemo(c)'
    BY <2>1, <2>2 DEF CallerMemo
  <2>6. CallerResult(c)'
    BY <2>1, <2>2 DEF CallerMemo, CallerResult
  <2>7. QED
    BY <2>1, <2>3, <2>4, <2>5, <2>6, CallerStep DEF MemoInv
<1>8. ASSUME NEW c \in Callers, SetMemo(c) PROVE IInv'
  <2>1. /\ config' = config
        /\ index_cache' = IF index_cache = {} THEN found[c] ELSE index_cache
        /\ pc[c] = "set" /\ pc'[c] = "get"
        /\ found'[c] = {} /\ held'[c] = held[c] /\ result'[c] = result[c]
        /\ started'[c] = started[c] /\ done'[c] = done[c] /\ failed'[c] = failed[c]
        /\ \A d \in Callers \ {c} :
            /\ found'[d] = found[d] /\ held'[d] = held[d] /\ pc'[d] = pc[d] /\ op'[d] = op[d]
            /\ started'[d] = started[d] /\ done'[d] = done[d] /\ failed'[d] = failed[d]
            /\ result'[d] = result[d]
    BY <1>8 DEF SetMemo, runVars, TypeOK
  <2>2. VisitsOK(c) /\ CallerMemo(c) /\ CallerResult(c)
    BY DEF MemoInv, VisitsInv, ResultInv
  <2>3. index_cache # {} => index_cache' = index_cache
    BY <2>1
  <2>4. /\ index_cache' # {}
        /\ \A index \in index_cache' : index.path = config.path
        /\ \A i, j \in index_cache' : i = j
    BY <2>1, <2>2 DEF MemoInv, CallerMemo, TypeOK
  <2>5. TypeOK'
    <3>1. index_cache' \in SUBSET Indexes
      BY <2>1 DEF TypeOK
    <3>2. QED
      BY <1>8, <2>4, <3>1 DEF SetMemo, runVars, TypeOK
  <2>6. VisitsOK(c)'
    BY <2>1, <2>2, RecordsFacts DEF VisitsOK
  <2>7. CallerMemo(c)'
    BY <2>1, <2>2, <2>4 DEF CallerMemo
  <2>8. CallerResult(c)'
    BY <2>1, <2>2 DEF CallerMemo, CallerResult
  <2>9. QED
    BY <2>1, <2>3, <2>4, <2>5, <2>6, <2>7, <2>8, CallerStep
<1>9. ASSUME NEW c \in Callers, NEW i \in Records(c), Start(c, i) PROVE IInv'
  <2>1. /\ config' = config /\ index_cache' = index_cache
        /\ found'[c] = found[c] /\ held'[c] = held[c] /\ pc'[c] = pc[c]
        /\ op'[c] = op[c] /\ result'[c] = result[c]
        /\ started'[c] = started[c] \cup {i} /\ i \notin started[c]
        /\ done'[c] = done[c] /\ failed'[c] = failed[c]
        /\ \A d \in Callers \ {c} :
            /\ found'[d] = found[d] /\ held'[d] = held[d] /\ pc'[d] = pc[d] /\ op'[d] = op[d]
            /\ started'[d] = started[d] /\ done'[d] = done[d] /\ failed'[d] = failed[d]
            /\ result'[d] = result[d]
    BY <1>9 DEF Start, memoVars, runVars, TypeOK
  <2>2. VisitsOK(c) /\ CallerMemo(c) /\ CallerResult(c)
    BY DEF MemoInv, VisitsInv, ResultInv
  <2>3. TypeOK'
    <3>1. i \in Nat
      BY RecordsFacts
    <3>2. started' \in [Callers -> SUBSET Nat]
      BY <1>9, <3>1 DEF Start, TypeOK
    <3>3. QED
      BY <1>9, <3>2 DEF Start, memoVars, TypeOK
  <2>4. VisitsOK(c)'
    BY <2>1, <2>2, RecordsFacts DEF VisitsOK
  <2>5. CallerMemo(c)'
    BY <2>1, <2>2 DEF CallerMemo
  <2>6. CallerResult(c)'
    BY <2>1, <2>2, RecordsFacts DEF CallerResult
  <2>7. QED
    BY <2>1, <2>3, <2>4, <2>5, <2>6, CallerStep DEF MemoInv
<1>10. ASSUME NEW c \in Callers, NEW i \in started[c],
              FOk(c, i) \/ FErr(c, i) \/ FPanics(c, i)
       PROVE  IInv'
  <2>1. /\ config' = config /\ index_cache' = index_cache
        /\ found'[c] = found[c] /\ held'[c] = held[c] /\ pc'[c] = pc[c]
        /\ op'[c] = op[c] /\ result'[c] = result[c]
        /\ i \in started[c] \ (done[c] \cup failed[c]) /\ started'[c] = started[c]
        /\ \/ done'[c] = done[c] \cup {i} /\ failed'[c] = failed[c]
           \/ done'[c] = done[c] /\ failed'[c] = failed[c] \cup {i}
        /\ \A d \in Callers \ {c} :
            /\ found'[d] = found[d] /\ held'[d] = held[d] /\ pc'[d] = pc[d] /\ op'[d] = op[d]
            /\ started'[d] = started[d] /\ done'[d] = done[d] /\ failed'[d] = failed[d]
            /\ result'[d] = result[d]
    BY <1>10 DEF FOk, FErr, FPanics, Running, memoVars, TypeOK
  <2>2. VisitsOK(c) /\ CallerMemo(c) /\ CallerResult(c)
    BY DEF MemoInv, VisitsInv, ResultInv
  <2>3. TypeOK'
    <3>1. i \in Nat
      BY DEF TypeOK
    <3>2. done' \in [Callers -> SUBSET Nat] /\ failed' \in [Callers -> SUBSET Nat]
      <4>1. CASE FOk(c, i)
        BY <4>1, <3>1 DEF FOk, TypeOK
      <4>2. CASE FErr(c, i) \/ FPanics(c, i)
        <5>1. done' = done /\ failed' = [failed EXCEPT ![c] = @ \cup {i}]
          BY <4>2 DEF FErr, FPanics
        <5>2. QED
          BY <5>1, <3>1 DEF TypeOK
      <4>3. QED
        BY <1>10, <4>1, <4>2
    <3>3. /\ UNCHANGED <<config, index_cache, found, held, started, pc, op, result>>
          /\ panicked' \in {panicked, panicked \cup {c}}
      BY <1>10 DEF FOk, FErr, FPanics, memoVars
    <3>4. QED
      BY <3>2, <3>3 DEF TypeOK
  <2>4. VisitsOK(c)'
    BY <2>1, <2>2, RecordsFacts DEF VisitsOK
  <2>5. CallerMemo(c)'
    BY <2>1, <2>2 DEF CallerMemo
  <2>6. CallerResult(c)'
    <3>1. Records(c)' = Records(c)
      BY <2>1, RecordsFacts
    <3>2. done[c] # Records(c)
      BY <2>1, <2>2 DEF VisitsOK
    <3>3. QED
      BY <2>1, <2>2, <3>1, <3>2 DEF CallerResult
  <2>7. QED
    BY <2>1, <2>3, <2>4, <2>5, <2>6, CallerStep DEF MemoInv
<1>11. ASSUME NEW c \in Callers, Return(c) PROVE IInv'
  <2>1. /\ config' = config /\ index_cache' = index_cache
        /\ pc[c] = "run" /\ pc'[c] = "returned" /\ result'[c] = Outcome(c)
        /\ Running(c) = {} /\ Complete(c)
        /\ found'[c] = found[c] /\ held'[c] = held[c] /\ op'[c] = op[c]
        /\ started'[c] = started[c] /\ done'[c] = done[c] /\ failed'[c] = failed[c]
        /\ \A d \in Callers \ {c} :
            /\ found'[d] = found[d] /\ held'[d] = held[d] /\ pc'[d] = pc[d] /\ op'[d] = op[d]
            /\ started'[d] = started[d] /\ done'[d] = done[d] /\ failed'[d] = failed[d]
            /\ result'[d] = result[d]
    BY <1>11 DEF Return, memoVars, runVars, TypeOK
  <2>2. VisitsOK(c) /\ CallerMemo(c) /\ CallerResult(c)
    BY DEF MemoInv, VisitsInv, ResultInv
  <2>3. TypeOK'
    <3>1. Outcome(c) \in {"ok", "record error", "panic"}
      BY DEF Outcome
    <3>2. QED
      BY <1>11, <3>1 DEF Return, memoVars, runVars, TypeOK
  <2>4. VisitsOK(c)'
    BY <2>1, <2>2, RecordsFacts DEF VisitsOK
  <2>5. CallerMemo(c)'
    BY <2>1, <2>2 DEF CallerMemo
  <2>6. CallerResult(c)'
    <3>1. Outcome(c) \in {"ok", "record error", "panic"}
      BY DEF Outcome
    <3>2. Outcome(c) = "ok" => failed[c] = {}
      BY DEF Outcome
    <3>3. Outcome(c) = "ok" => done[c] = Records(c)
      BY <2>1, <2>2, <3>2 DEF Running, Complete, VisitsOK
    <3>4. Records(c)' = Records(c)
      BY <2>1, RecordsFacts
    <3>5. QED
      BY <2>1, <2>2, <3>1, <3>3, <3>4 DEF CallerMemo, CallerResult
  <2>7. QED
    BY <2>1, <2>3, <2>4, <2>5, <2>6, CallerStep DEF MemoInv
<1>12. ASSUME NEW c \in Callers, Release(c) PROVE IInv'
  <2>1. /\ config' = config /\ index_cache' = index_cache
        /\ pc[c] = "returned" /\ pc'[c] = "idle" /\ result'[c] = "none"
        /\ found'[c] = found[c] /\ held'[c] = {} /\ op'[c] = op[c]
        /\ started'[c] = {} /\ done'[c] = {} /\ failed'[c] = {}
        /\ \A d \in Callers \ {c} :
            /\ found'[d] = found[d] /\ held'[d] = held[d] /\ pc'[d] = pc[d] /\ op'[d] = op[d]
            /\ started'[d] = started[d] /\ done'[d] = done[d] /\ failed'[d] = failed[d]
            /\ result'[d] = result[d]
    BY <1>12 DEF Release, memoVars, runVars, TypeOK
  <2>2. VisitsOK(c) /\ CallerMemo(c) /\ CallerResult(c)
    BY DEF MemoInv, VisitsInv, ResultInv
  <2>3. TypeOK'
    <3>1. /\ pc' \in [Callers -> {"idle", "lookup", "scan", "set", "get", "run", "returned"}]
          /\ result' \in [Callers -> {"none", "ok", "scan error", "record error", "panic"}]
          /\ held' \in [Callers -> SUBSET Indexes]
      <4>1. /\ pc' = [pc EXCEPT ![c] = "idle"]
            /\ result' = [result EXCEPT ![c] = "none"]
            /\ held' = [held EXCEPT ![c] = {}]
        BY <1>12 DEF Release
      <4>2. QED
        BY <4>1 DEF TypeOK
    <3>2. {started', done', failed'} \subseteq [Callers -> SUBSET Nat]
      <4>1. /\ started' = [started EXCEPT ![c] = {}]
            /\ done' = [done EXCEPT ![c] = {}]
            /\ failed' = [failed EXCEPT ![c] = {}]
        BY <1>12 DEF Release
      <4>2. started' \in [Callers -> SUBSET Nat]
        BY <4>1 DEF TypeOK
      <4>3. done' \in [Callers -> SUBSET Nat]
        BY <4>1 DEF TypeOK
      <4>4. failed' \in [Callers -> SUBSET Nat]
        BY <4>1 DEF TypeOK
      <4>5. QED
        BY <4>2, <4>3, <4>4
    <3>3. UNCHANGED <<config, index_cache, found, op>> /\ panicked' \subseteq panicked
      BY <1>12 DEF Release
    <3>4. QED
      BY <3>1, <3>2, <3>3 DEF TypeOK
  <2>4. VisitsOK(c)'
    BY <2>1 DEF VisitsOK
  <2>5. CallerMemo(c)'
    BY <2>1, <2>2 DEF CallerMemo
  <2>6. CallerResult(c)'
    BY <2>1, <2>2 DEF CallerResult
  <2>7. QED
    BY <2>1, <2>3, <2>4, <2>5, <2>6, CallerStep DEF MemoInv
<1>13. QED
  BY <1>1, <1>2, <1>3, <1>4, <1>5, <1>6, <1>7, <1>8, <1>9, <1>10, <1>11, <1>12 DEF Next, Work

\* No index, no caller in a call.
LEMMA InvariantHoldsInitially == Init => IInv
<1> SUFFICES ASSUME Init PROVE IInv
  OBVIOUS
<1>1. TypeOK
  BY DEF Init, TypeOK, Ops
<1>2. VisitsInv /\ MemoInv /\ ResultInv
  BY DEF Init, VisitsInv, MemoInv, ResultInv, VisitsOK, CallerMemo, CallerResult
<1>3. QED
  BY <1>1, <1>2 DEF IInv

-------------------------------------------------------------------------------
\* The invariant that the theorems below rest on.
THEOREM DriversInvariant == Spec => []IInv
<1>1. Init => IInv
  BY InvariantHoldsInitially
<1>2. IInv /\ [Next]_vars => IInv'
  BY InductiveStep
<1>3. QED
  BY <1>1, <1>2, PTL DEF Spec

\* The memo holds one index at most, never that of a failed scan, and a record
\* has one outcome (index(), lib.rs 284-296).
THEOREM DriversTypeCorrect == Spec => []TypeOK
<1>1. IInv => TypeOK
  BY DEF IInv
<1>2. QED
  BY <1>1, DriversInvariant, PTL

\* Whichever of the racing scans wins, all callers borrow its index, and no
\* step replaces it while one does.
THEOREM CallersShareIndex == Spec => []OneIndex
<1>1. IInv => OneIndex
  BY DEF IInv, MemoInv, CallerMemo, OneIndex
<1>2. QED
  BY <1>1, DriversInvariant, PTL

\* A driver that returns Ok has visited the records of the configured path:
\* with_config leaves no stale index behind.
THEOREM OkIsCurrent == Spec => []OkVisitsEveryRecord
<1>1. IInv => OkVisitsEveryRecord
  <2> SUFFICES ASSUME IInv, NEW c \in Callers, result[c] = "ok", op[c] # "index"
               PROVE  done[c] = 0 .. Scan[config.path] - 1
    BY DEF OkVisitsEveryRecord
  <2>1. held[c] # {} /\ done[c] = Records(c)
    BY DEF IInv, ResultInv, CallerResult
  <2>2. \A index \in held[c] : index.path = config.path
    BY <2>1 DEF IInv, MemoInv, CallerMemo
  <2>3. QED
    BY <2>1, <2>2 DEF Records
<1>2. QED
  BY <1>1, DriversInvariant, PTL

\* Calls on a document whose scan fails all fail with the scan's error, and no
\* other call does.
THEOREM ScanErrorsAreConsistent == Spec => []ScanErrorsAgree
<1>1. IInv => ScanErrorsAgree
  <2> SUFFICES ASSUME IInv, NEW c \in Callers, result[c] # "none"
               PROVE  result[c] = "scan error" <=> Scan[config.path] = ScanFails
    BY DEF ScanErrorsAgree
  <2>1. result[c] = "scan error" => Scan[config.path] = ScanFails
    BY DEF IInv, ResultInv, CallerResult
  <2>2. CASE result[c] # "scan error"
    <3>1. held[c] # {}
      BY <2>2 DEF IInv, ResultInv, CallerResult, TypeOK
    <3>2. PICK index \in held[c] : index.path = config.path
      BY <3>1 DEF IInv, MemoInv, CallerMemo
    <3>3. index \in Indexes
      BY DEF IInv, TypeOK
    <3>4. Scan[index.path] # ScanFails
      BY <3>3 DEF Indexes
    <3>5. QED
      BY <2>2, <3>2, <3>4
  <2>3. QED
    BY <2>1, <2>2
<1>2. QED
  BY <1>1, DriversInvariant, PTL

-------------------------------------------------------------------------------
\* A caller that runs holds the one index of the configured path: it knows how
\* many records there are, and below either threshold it takes the sequential loop.
LEMMA SmallRunsSequentially ==
  ASSUME IInv, IsSmall, NEW c \in Callers, pc[c] = "run"
  PROVE  run_sequential(c)
<1>1. CallerMemo(c)
  BY DEF IInv, MemoInv
<1>2. held[c] # {} /\ held[c] = index_cache
  BY <1>1 DEF CallerMemo
<1>3. PICK index \in held[c] : held[c] = {index}
  <2>1. \A i, j \in held[c] : i = j
    BY <1>2 DEF IInv, TypeOK
  <2>2. QED
    BY <1>2, <2>1
<1>4. index.path = config.path /\ index \in Indexes
  <2>1. index \in index_cache
    BY <1>2
  <2>2. QED
    BY <2>1 DEF IInv, MemoInv, TypeOK
<1>5. Scan[config.path] \in Nat
  BY <1>4, DriversAssumption DEF Indexes
<1>6. Records(c) = 0 .. Scan[config.path] - 1
  BY <1>3, <1>4 DEF Records
<1>7. RecordCount(c) = Scan[config.path]
  BY <1>5, <1>6, FS_Interval DEF RecordCount
<1>8. QED
  BY <1>7 DEF IsSmall, run_sequential

\* Who has visited nothing visits in turn.
LEMMA NothingInTurn ==
  ASSUME NEW c \in Callers, started[c] = {}
  PROVE  InTurn(c)
<1>1. started[c] = 0 .. 0 - 1
  OBVIOUS
<1>2. QED
  BY <1>1 DEF InTurn

\* The loop takes the record after those it has done.
LEMMA StartInTurn ==
  ASSUME IInv, SequentialInv, IsSmall, NEW c \in Callers, NEW i \in Records(c), Start(c, i)
  PROVE  InTurn(c)'
<1>1. /\ pc[c] = "run" /\ MayStart(c, i)
      /\ started'[c] = started[c] \cup {i} /\ done'[c] = done[c]
  BY DEF Start, IInv, TypeOK
<1>2. i = Cardinality(started[c]) /\ Running(c) = {} /\ failed[c] = {}
  BY <1>1, SmallRunsSequentially DEF MayStart
<1>3. PICK n \in Nat : started[c] = 0 .. n - 1
  <2>1. PICK m \in {0} \cup {j + 1 : j \in started[c]} : started[c] = 0 .. m - 1
    BY DEF SequentialInv, InTurn
  <2>2. started[c] \subseteq Nat
    BY DEF IInv, TypeOK
  <2>3. m \in Nat
    BY <2>1, <2>2
  <2>4. QED
    BY <2>1, <2>3
<1>4. i = n
  BY <1>2, <1>3, FS_Interval
<1>5. started[c] \subseteq done[c]
  BY <1>2 DEF Running
<1>6. i + 1 \in {j + 1 : j \in started'[c]}
  BY <1>1
<1>7. started'[c] = 0 .. (i + 1) - 1
  BY <1>1, <1>3, <1>4
<1>8. \A j \in started'[c] : 0 .. j - 1 \subseteq done'[c]
  BY <1>1, <1>3, <1>4, <1>5
<1>9. QED
  BY <1>6, <1>7, <1>8 DEF InTurn

\* Below either threshold every step takes the records in turn.
LEMMA SequentialStep == IInv /\ SequentialInv /\ [Next]_vars => SequentialInv'
<1> SUFFICES ASSUME IInv, SequentialInv, [Next]_vars, IsSmall', NEW d \in Callers
             PROVE  InTurn(d)'
  BY DEF SequentialInv
<1>1. IInv /\ TypeOK /\ VisitsInv
  BY DEF IInv
<1>2. ASSUME NEW cfg \in Configs, WithConfig(cfg) PROVE InTurn(d)'
  <2>1. pc[d] = "idle" /\ UNCHANGED <<started, done>>
    BY <1>2 DEF WithConfig, runVars
  <2>2. held[d] = {}
    BY <1>1, <2>1 DEF IInv, MemoInv, CallerMemo
  <2>3. started'[d] = {}
    BY <1>1, <2>1, <2>2, NothingHeld
  <2>4. started'[d] = 0 .. 0 - 1
    BY <2>3
  <2>5. QED
    BY <2>3, <2>4 DEF InTurn
<1>3. ASSUME UNCHANGED config, started'[d] = started[d], done[d] \subseteq done'[d]
      PROVE  InTurn(d)'
  BY <1>3 DEF SequentialInv, IsSmall, InTurn
<1>4. CASE UNCHANGED vars
  BY <1>3, <1>4 DEF vars, memoVars, runVars
<1>5. ASSUME NEW c \in Callers, NEW o \in Ops, Call(c, o) PROVE InTurn(d)'
  BY <1>3, <1>5 DEF Call, memoVars, runVars
<1>6. ASSUME NEW c \in Callers,
             \/ LookupHit(c) \/ LookupMiss(c) \/ ScanDocument(c) \/ ScanError(c)
             \/ SetMemo(c) \/ GetMemo(c) \/ Return(c)
      PROVE  InTurn(d)'
  <2>1. UNCHANGED <<config, started, done>>
    BY <1>6 DEF LookupHit, LookupMiss, ScanDocument, ScanError, SetMemo, GetMemo, Return,
                Borrow, memoVars, runVars
  <2>2. QED
    BY <1>3, <2>1
<1>7. ASSUME NEW c \in Callers, NEW i \in started[c], FOk(c, i) \/ FErr(c, i) \/ FPanics(c, i)
      PROVE  InTurn(d)'
  <2>1. UNCHANGED <<config, started>> /\ done[d] \subseteq done'[d]
    <3>1. CASE FOk(c, i)
      BY <1>1, <3>1 DEF FOk, memoVars, TypeOK
    <3>2. CASE FErr(c, i) \/ FPanics(c, i)
      BY <3>2 DEF FErr, FPanics, memoVars
    <3>3. QED
      BY <1>7, <3>1, <3>2
  <2>2. QED
    BY <1>3, <2>1
<1>8. ASSUME NEW c \in Callers, NEW i \in Records(c), Start(c, i) PROVE InTurn(d)'
  <2>1. UNCHANGED <<config, done>> /\ \A e \in Callers \ {c} : started'[e] = started[e]
    BY <1>1, <1>8 DEF Start, memoVars, TypeOK
  <2>2. CASE d = c
    BY <1>8, <2>1, <2>2, StartInTurn DEF IsSmall
  <2>3. CASE d # c
    BY <1>3, <2>1, <2>3
  <2>4. QED
    BY <2>2, <2>3
<1>9. ASSUME NEW c \in Callers, Release(c) PROVE InTurn(d)'
  <2>1. /\ UNCHANGED config /\ started'[c] = {}
        /\ \A e \in Callers \ {c} : started'[e] = started[e] /\ done'[e] = done[e]
    BY <1>1, <1>9 DEF Release, TypeOK
  <2>2. CASE d = c
    <3>1. started'[d] = 0 .. 0 - 1
      BY <2>1, <2>2
    <3>2. QED
      BY <2>1, <2>2, <3>1 DEF InTurn
  <2>3. CASE d # c
    BY <1>3, <2>1, <2>3
  <2>4. QED
    BY <2>2, <2>3
<1>10. QED
  BY <1>2, <1>4, <1>5, <1>6, <1>7, <1>8, <1>9 DEF Next, Work

\* Below either threshold a call visits the records one after the other and in
\* document order, whatever the other callers do at the same time, and no
\* record is visited once one has failed.
THEOREM SmallDocumentsAreSequential == Spec => []SmallIsSequential
<1>1. Init => SequentialInv
  BY NothingInTurn DEF Init, SequentialInv
<1>2. IInv /\ SequentialInv /\ [Next]_vars => SequentialInv'
  BY SequentialStep
<1>3. IInv /\ SequentialInv => SmallIsSequential
  <2> SUFFICES ASSUME IInv, SequentialInv, IsSmall, NEW c \in Callers
               PROVE  /\ \A i \in started[c] : 0 .. i - 1 \subseteq done[c]
                      /\ Cardinality(failed[c]) <= 1
    BY DEF SmallIsSequential
  <2>1. InTurn(c) /\ VisitsOK(c)
    BY DEF SequentialInv, IInv, VisitsInv
  <2>2. \A i, j \in failed[c] : i = j
    <3> SUFFICES ASSUME NEW i \in failed[c], NEW j \in failed[c], i # j PROVE FALSE
      OBVIOUS
    <3>1. /\ i \in started[c] /\ i \notin done[c] /\ i \in Nat
          /\ j \in started[c] /\ j \notin done[c] /\ j \in Nat
      BY <2>1 DEF VisitsOK, IInv, TypeOK
    <3>2. i \in 0 .. j - 1 \/ j \in 0 .. i - 1
      BY <3>1
    <3>3. QED
      BY <2>1, <3>1, <3>2 DEF InTurn
  <2>3. CASE failed[c] = {}
    BY <2>1, <2>3, FS_EmptySet DEF InTurn
  <2>4. ASSUME NEW i \in failed[c] PROVE Cardinality(failed[c]) <= 1
    <3>1. failed[c] = {i}
      BY <2>2
    <3>2. Cardinality({i}) = 1
      BY FS_Singleton
    <3>3. QED
      BY <3>1, <3>2
  <2>5. QED
    BY <2>1, <2>3, <2>4 DEF InTurn
<1>4. QED
  BY <1>1, <1>2, <1>3, DriversInvariant, PTL DEF Spec
===============================================================================
