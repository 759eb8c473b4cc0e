----------------------------- MODULE EventReader ------------------------------
(***************************************************************************)
(* The pull cursors over quick-xml's events: RecordReader (parse.rs), over *)
(* one record with the prelude's entities, and SeqReader (lib.rs), over    *)
(* the whole document, which collects the entities as it reads.  Both read *)
(* one event ahead to merge a run of text and references into one text.    *)
(*                                                                         *)
(* quick-xml is external: what it yields is a sequence of events, each     *)
(* with a kind; an event is referred to by its place in that sequence.     *)
(***************************************************************************)
EXTENDS Naturals, SequencesExt

CONSTANTS
    Sources,    \* sequences of events that quick-xml may yield, "error" among them
    Shared      \* the entities of the prelude that a record is read with

EventKinds == {"start", "end tag", "cdata", "text", "ref", "comment", "doctype", "error"}

ASSUME SourcesAssumption ==
    \A source \in Sources :
        /\ Len(source) \in Nat
        /\ DOMAIN source = 1 .. Len(source)
        /\ \A k \in DOMAIN source :
            /\ source[k].kind \in EventKinds
            /\ source[k].kind = "start" => source[k].attrs \in Seq(Range(source[k].attrs))

VARIABLES
    events,     \* what quick-xml yields
    sequential, \* the cursor is a SeqReader
    entities,   \* the entities known, a function from names to texts
    at,         \* events taken from quick-xml
    pending,    \* the event read ahead, or NoEvent
    pc,         \* where next_event is: "idle", "surface", "peek" or "run"
    ev,         \* the first event of the run, or the one delivered last
    cur,        \* the next event of the run, not appended yet
    run,        \* the events appended to the run
    delivered   \* history: what the calls have returned, in order

readVars == <<at, pending>>
eventVars == <<events, sequential, entities, readVars, pc, ev, cur, run, delivered>>

NoEvent == 0

\* The entities, and the character references, that mean the same everywhere.
Predefined == [lt |-> "<", amp |-> "&"]

\* lookup_entity: the predefined ones cannot be redefined; <<>> is none.
LookupEntity(name) ==
    IF name \in DOMAIN Predefined THEN <<Predefined[name]>>
    ELSE IF name \in DOMAIN entities THEN <<entities[name]>> ELSE <<>>

-------------------------------------------------------------------------------
Reset ==
    /\ events \in Sources
    /\ at = 0
    /\ pending = NoEvent
    /\ pc = "idle"
    /\ ev = NoEvent
    /\ cur = NoEvent
    /\ run = <<>>
    /\ delivered = <<>>

RecordInit == Reset /\ sequential = FALSE /\ entities = Shared

SeqInit == Reset /\ sequential = TRUE /\ entities = <<>>

-------------------------------------------------------------------------------
KindOf(e) == IF e = NoEvent THEN "end" ELSE events[e].kind

IsTextRun(e) == KindOf(e) \in {"text", "ref"}

\* What append_run_event adds; <<>> when the reference cannot be resolved.
TextOf(e) == IF KindOf(e) = "text" THEN <<events[e].text>> ELSE LookupEntity(events[e].text)

\* read_raw: the event read ahead, or the next one, or NoEvent at the end.
Raw == IF pending # NoEvent THEN pending
       ELSE IF at < Len(events) THEN at + 1 ELSE NoEvent

\* It is taken, and `ahead` left for the next call.
ReadRaw(ahead) ==
    /\ at' = IF pending = NoEvent /\ at < Len(events) THEN at + 1 ELSE at
    /\ pending' = ahead

InCall == UNCHANGED <<events, sequential, delivered>>

\* next_event returns.
Return(result) ==
    /\ delivered' = Append(delivered, result)
    /\ pc' = IF result.kind = "none" THEN "done" ELSE "idle"
    /\ run' = <<>>
    /\ cur' = NoEvent
    /\ UNCHANGED <<events, sequential, entities>>

ReturnText(last, text) ==
    Return([kind |-> "text", first |-> ev, last |-> last, text |-> text]) /\ UNCHANGED ev

\* It returns an error: what it holds is dropped.
Fail == Return([kind |-> "error"]) /\ UNCHANGED ev

Call ==
    /\ pc = "idle"
    /\ pc' = "surface"
    /\ InCall
    /\ UNCHANGED <<entities, readVars, ev, cur, run>>

-------------------------------------------------------------------------------
\* next_surfaced

\* Fault: an event that was read ahead is looked at and left.
SkipUnlessPending(kinds) ==
    /\ pc = "surface"
    /\ KindOf(Raw) \in kinds
    /\ ReadRaw(pending)
    /\ InCall
    /\ UNCHANGED <<entities, pc, ev, cur, run>>

Skip(kinds) ==
    /\ pc = "surface"
    /\ KindOf(Raw) \in kinds
    /\ ReadRaw(NoEvent)
    /\ InCall
    /\ UNCHANGED <<entities, pc, ev, cur, run>>

\* parse_doctype_entities' result is inserted name by name: the last one counts.
WithDeclared(declared) ==
    [name \in DOMAIN declared \cup DOMAIN entities |->
        IF name \in DOMAIN declared THEN declared[name] ELSE entities[name]]

\* Fault: a DOCTYPE that was read ahead is only skipped.
CaptureDoctypeUnlessPending ==
    /\ pc = "surface"
    /\ KindOf(Raw) = "doctype"
    /\ entities' = IF pending = NoEvent THEN WithDeclared(events[Raw].entities) ELSE entities
    /\ ReadRaw(NoEvent)
    /\ InCall
    /\ UNCHANGED <<pc, ev, cur, run>>

\* SeqReader's.
CaptureDoctype ==
    /\ pc = "surface"
    /\ KindOf(Raw) = "doctype"
    /\ entities' = WithDeclared(events[Raw].entities)
    /\ ReadRaw(NoEvent)
    /\ InCall
    /\ UNCHANGED <<pc, ev, cur, run>>

SurfaceFails ==
    /\ pc = "surface"
    /\ KindOf(Raw) = "error"
    /\ ReadRaw(NoEvent)
    /\ Fail

SurfaceEnd ==
    /\ pc = "surface"
    /\ Raw = NoEvent
    /\ ReadRaw(NoEvent)
    /\ Return([kind |-> "none"])
    /\ UNCHANGED ev

\* map_event: a tag or a CDATA section is delivered as it is.
SurfaceMarkup ==
    /\ pc = "surface"
    /\ KindOf(Raw) \in {"start", "end tag", "cdata"}
    /\ ReadRaw(NoEvent)
    /\ ev' = Raw
    /\ Return([kind |-> KindOf(Raw), first |-> Raw, last |-> Raw])

SurfaceText ==
    /\ pc = "surface"
    /\ IsTextRun(Raw)
    /\ ReadRaw(NoEvent)
    /\ ev' = Raw
    /\ pc' = "peek"
    /\ InCall
    /\ UNCHANGED <<entities, cur, run>>

-------------------------------------------------------------------------------
\* next_event, with the first event of a text run in hand, reads one ahead.

LoneLiteral == KindOf(ev) = "text" /\ ~IsTextRun(Raw)

PeekLone ==
    /\ pc = "peek"
    /\ KindOf(Raw) # "error"
    /\ LoneLiteral
    /\ ReadRaw(Raw)
    /\ ReturnText(ev, TextOf(ev))

\* Fault: the reference is tried again in the next call.
PeekFailsRetries ==
    /\ pc = "peek"
    /\ KindOf(Raw) = "error" \/ TextOf(ev) = <<>>
    /\ ReadRaw(ev)
    /\ Fail

\* Reading fails, or the run begins with a reference that cannot be resolved: the
\* event in hand and the one read ahead are gone.
PeekFails ==
    /\ pc = "peek"
    /\ KindOf(Raw) = "error" \/ TextOf(ev) = <<>>
    /\ ReadRaw(NoEvent)
    /\ Fail

PeekRun ==
    /\ pc = "peek"
    /\ KindOf(Raw) # "error"
    /\ ~LoneLiteral
    /\ TextOf(ev) # <<>>
    /\ ReadRaw(NoEvent)
    /\ run' = TextOf(ev)
    /\ cur' = Raw
    /\ pc' = "run"
    /\ InCall
    /\ UNCHANGED <<entities, ev>>

\* The rest of the run, event by event.
RunGrows ==
    /\ pc = "run"
    /\ IsTextRun(cur)
    /\ TextOf(cur) # <<>>
    /\ KindOf(Raw) # "error"
    /\ ReadRaw(NoEvent)
    /\ run' = run \o TextOf(cur)
    /\ cur' = Raw
    /\ InCall
    /\ UNCHANGED <<entities, pc, ev>>

RunFails ==
    /\ pc = "run"
    /\ IsTextRun(cur)
    /\ IF TextOf(cur) = <<>> THEN UNCHANGED readVars
       ELSE KindOf(Raw) = "error" /\ ReadRaw(NoEvent)
    /\ Fail

\* Fault: the event that ends the run is not kept.
RunEndsDropped ==
    /\ pc = "run"
    /\ ~IsTextRun(cur)
    /\ UNCHANGED readVars
    /\ ReturnText(IF cur = NoEvent THEN at ELSE cur - 1, run)

\* The event that ends the run is left for the next call.
RunEnds ==
    /\ pc = "run"
    /\ ~IsTextRun(cur)
    /\ pending' = cur
    /\ UNCHANGED at
    /\ ReturnText(IF cur = NoEvent THEN at ELSE cur - 1, run)

-------------------------------------------------------------------------------
Surface == SurfaceFails \/ SurfaceEnd \/ SurfaceMarkup \/ SurfaceText

Coalesce == PeekLone \/ PeekFails \/ PeekRun \/ RunGrows \/ RunFails \/ RunEnds

\* next_event of the two readers.
RecordNextEvent == ~sequential /\ (Skip({"comment", "doctype"}) \/ Surface \/ Coalesce)

SeqNextEvent == sequential /\ (Skip({"comment"}) \/ CaptureDoctype \/ Surface \/ Coalesce)

-------------------------------------------------------------------------------
(***************************************************************************)
(* Properties.  The meaning of the events does not depend on the reader's  *)
(* lookahead.                                                              *)
(***************************************************************************)

Places == DOMAIN events

\* The entities declared in front of an event: the last declaration of a name counts.
Declarations(k, name) ==
    {d \in 1 .. k - 1 : KindOf(d) = "doctype" /\ name \in DOMAIN events[d].entities}

DeclaredNames(k) ==
    UNION {DOMAIN events[d].entities : d \in {j \in 1 .. k - 1 : KindOf(j) = "doctype"}}

Known(k) ==
    IF sequential
    THEN [name \in DeclaredNames(k) |-> events[Max(Declarations(k, name))].entities[name]]
    ELSE Shared

Meaning(k) ==
    IF KindOf(k) = "text" THEN <<events[k].text>>
    ELSE LET name == events[k].text
         IN IF name \in DOMAIN Predefined THEN <<Predefined[name]>>
            ELSE IF name \in DOMAIN Known(k) THEN <<Known(k)[name]>> ELSE <<>>

\* Event k cannot be delivered: quick-xml reports an error, or the reference has
\* no meaning.
Bad(k) == KindOf(k) = "error" \/ (KindOf(k) = "ref" /\ Meaning(k) = <<>>)

\* The events that begin something to deliver.
Begins(k) ==
    \/ KindOf(k) \in {"start", "end tag", "cdata"}
    \/ IsTextRun(k) /\ (k = 1 \/ ~IsTextRun(k - 1))

EndsRun(k) == k = Len(events) \/ ~IsTextRun(k + 1)

\* The result is what begins at k: a tag, a CDATA section, or a whole run of text
\* and references, every one with its meaning.
Delivers(result, k) ==
    IF IsTextRun(k)
    THEN /\ result.kind = "text"
         /\ result.first = k
         /\ result.last \in k .. Len(events)
         /\ EndsRun(result.last)
         /\ Len(result.text) = result.last - k + 1
         /\ \A j \in k .. result.last :
                IsTextRun(j) /\ Meaning(j) = <<result.text[j - k + 1]>>
    ELSE result = [kind |-> KindOf(k), first |-> k, last |-> k]

\* The reader stands between quick-xml and its caller: it has taken what it holds,
\* and holds at most the event it took last.
ReaderOK ==
    /\ at \in 0 .. Len(events)
    /\ pc \in {"idle", "surface", "peek", "run", "done"}
    /\ {pending, cur} \subseteq {NoEvent, at}
    /\ ev \in 0 .. at
    /\ pc \in {"peek", "run"} => pending = NoEvent /\ IsTextRun(ev)

Errors == {i \in DOMAIN delivered : delivered[i].kind = "error"}

\* Where the first i results end.
LastPlace(i) == IF i = 0 THEN 0 ELSE delivered[i].last

\* What a call may return behind event `from`, while there was no error: None if all
\* has been delivered; an error if there is an event that cannot be delivered, with
\* at most the beginning of the run it cuts off before it; what begins next.
ResultExact(result, from) ==
    LET heads == {k \in from + 1 .. Len(events) : Begins(k)}
    IN CASE result.kind = "none" -> heads = {}
         [] result.kind = "error" ->
              \E b \in from + 1 .. Len(events) :
                  Bad(b) /\ \A k \in heads : \A j \in k .. b - 1 : IsTextRun(j)
         [] OTHER -> \E k \in heads : Delivers(result, k) /\ \A h \in heads : k <= h

\* Up to the first error the calls deliver exactly the events of the source, in
\* order: tags and CDATA sections one by one, every maximal run of text and
\* references merged and resolved with the entities declared in front of it, never
\* across a comment.  The first error comes where the source has the first event
\* that cannot be delivered, and None when all has been delivered.
EventsExact ==
    \A i \in DOMAIN delivered :
        (\A j \in 1 .. i - 1 : j \notin Errors) => ResultExact(delivered[i], LastPlace(i - 1))

\* The events delivered, however often.
DeliveredPlaces == UNION {delivered[i].first .. delivered[i].last :
                             i \in {j \in DOMAIN delivered : "first" \in DOMAIN delivered[j]}}

\* A DOCTYPE in front of event k is right behind a reference that has no meaning.
DoctypeLost(k) ==
    /\ sequential
    /\ \E d \in 2 .. k - 1 : KindOf(d) = "doctype" /\ KindOf(d - 1) = "ref" /\ Bad(d - 1)

\* Event k could not be delivered, or is a reference whose declaration was itself
\* lost: a DOCTYPE read ahead behind a reference that has no meaning.
Failed(k) == Bad(k) \/ (KindOf(k) = "ref" /\ DoctypeLost(k))

\* Nothing is delivered twice or out of order.
InOrder ==
    \A i, j \in DOMAIN delivered \ Errors :
        i < j /\ delivered[j].kind # "none" => delivered[i].last < delivered[j].first

\* What an error may take with it: a tag or CDATA section only right behind a
\* reference that cannot be resolved, a text only where its run has such a reference
\* or ends in an error.
Excused(k) ==
    /\ KindOf(k) \in {"start", "end tag", "cdata"} =>
           k > 1 /\ KindOf(k - 1) = "ref" /\ Failed(k - 1)
    /\ KindOf(k) = "text" =>
           \E b \in Places : /\ Failed(b)
                             /\ \A j \in (k .. b) \cup (b .. k) : IsTextRun(j) \/ j = b

\* Behind errors too the events come in order and once, and between calls nothing
\* that was taken is missing, but for what an error took with it.
LostOnlyBehindErrors ==
    /\ InOrder
    /\ pc \in {"idle", "done"} =>
        \A k \in 1 .. at \ (DeliveredPlaces \cup {pending}) : Excused(k)

-------------------------------------------------------------------------------
(***************************************************************************)
(* The inductive invariant behind them.                                    *)
(***************************************************************************)

\* The event to look at next, and the first one that no call has settled.
Ahead == IF pending # NoEvent \/ cur # NoEvent THEN at ELSE at + 1
Held == IF pc \in {"peek", "run"} THEN ev ELSE Ahead

\* The run in hand is the events from ev up to the one looked at next.
HandInv ==
    /\ run \in Seq(Range(run))
    /\ delivered \in Seq(Range(delivered))
    /\ pc # "run" => cur = NoEvent /\ run = <<>>
    /\ pc = "peek" => ev = at
    /\ pc = "run" =>
        /\ ev < Ahead
        /\ cur = NoEvent => at = Len(events)
        /\ Len(run) = Ahead - ev
        /\ \A j \in ev .. Ahead - 1 : IsTextRun(j)

\* The entities are those declared in front of the event to look at, unless an error
\* took a DOCTYPE with it.
EntitiesInv == entities = Known(Ahead) \/ (Errors # {} /\ DoctypeLost(Ahead))

\* Up to the first error nothing that could be delivered lies between the results
\* and what is in hand, which begins a run and means what it is resolved to.
ExactInv ==
    Errors = {} /\ pc # "done" =>
        /\ \A j \in LastPlace(Len(delivered)) + 1 .. Held - 1 : KindOf(j) \in {"comment", "doctype"}
        /\ IsTextRun(LastPlace(Len(delivered))) => EndsRun(LastPlace(Len(delivered)))
        /\ pc \in {"peek", "run"} => Begins(ev)
        /\ pc = "run" => \A j \in ev .. Ahead - 1 : Meaning(j) = <<run[j - ev + 1]>>

\* None is the last result; the others lie in front of what is held, and so does
\* everything lost.
LossInv ==
    /\ \A i \in DOMAIN delivered :
        /\ delivered[i].kind = "none" => i = Len(delivered) /\ pc = "done"
        /\ delivered[i].kind \notin {"none", "error"} =>
            /\ "first" \in DOMAIN delivered[i]
            /\ delivered[i].first \in 1 .. delivered[i].last
            /\ delivered[i].last \in 1 .. Held - 1
    /\ InOrder
    /\ \A k \in 1 .. Held - 1 : k \in DeliveredPlaces \/ Excused(k)

ReaderInv ==
    events \in Sources /\ ReaderOK /\ HandInv /\ EntitiesInv /\ EventsExact /\ ExactInv /\ LossInv
===============================================================================
