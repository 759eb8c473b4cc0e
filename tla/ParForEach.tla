------------------------------ MODULE ParForEach ------------------------------
(***************************************************************************)
(* What StreamReader::par_for_each promises its caller, with no threads,   *)
(* batches, channel or memory in sight (doc comments of src/src/stream.rs  *)
(* at 136-188).  Records are found in the document one after another,      *)
(* dispatched in document order, handed to the closure at most once each,  *)
(* in any order; the call returns once and nothing happens afterwards.     *)
(***************************************************************************)
EXTENDS Naturals

CONSTANT MaxRecords     \* no document has more records than this

VARIABLES
    found,      \* number of records recognised in the document so far
    offered,    \* records 0 .. offered-1 were dispatched to the workers
    visits,     \* visits[i]: how often the closure was called with record i
    outcome     \* what the call returned; "none" while it runs

vars == <<found, offered, visits, outcome>>

Records == 0 .. MaxRecords - 1

Outcomes == {"none", "ok", "io", "malformed", "panic"}

Init ==
    /\ found = 0
    /\ offered = 0
    /\ visits = [i \in Records |-> 0]
    /\ outcome = "none"

Find ==
    /\ outcome = "none"
    /\ found < MaxRecords
    /\ found' = found + 1
    /\ UNCHANGED <<offered, visits, outcome>>

Offer ==
    /\ outcome = "none"
    /\ offered' \in offered + 1 .. found
    /\ UNCHANGED <<found, visits, outcome>>

Visit(i) ==
    /\ outcome = "none"
    /\ i < offered
    /\ visits[i] = 0
    /\ visits' = [visits EXCEPT ![i] = 1]
    /\ UNCHANGED <<found, offered, outcome>>

AllOfferedVisited == \A i \in Records : i < offered => visits[i] = 1

\* Success: every record found was dispatched and visited.
ReturnOk ==
    /\ outcome = "none"
    /\ offered = found
    /\ AllOfferedVisited
    /\ outcome' = "ok"
    /\ UNCHANGED <<found, offered, visits>>

\* An error of the reader or of the framing still lets every dispatched
\* record be visited; a reader error loses no record already found.
ReturnErr ==
    /\ outcome = "none"
    /\ AllOfferedVisited
    /\ \/ outcome' = "malformed"
       \/ outcome' = "io" /\ offered = found
    /\ UNCHANGED <<found, offered, visits>>

\* A panic of the closure or of the reader surfaces, and cuts work short.
Panic ==
    /\ outcome = "none"
    /\ outcome' = "panic"
    /\ UNCHANGED <<found, offered, visits>>

Next ==
    \/ Find
    \/ Offer
    \/ \E i \in Records : Visit(i)
    \/ ReturnOk
    \/ ReturnErr
    \/ Panic

Spec == Init /\ [][Next]_vars
===============================================================================
