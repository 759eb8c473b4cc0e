----------------------------- MODULE MemchrFramer -----------------------------
(***************************************************************************)
(* next_record_into of the build with the feature memchr-framer: it jumps  *)
(* from one byte that matters to the next.  Of a comment, CDATA section or *)
(* PI whose end is not there yet it keeps the last bytes, since the end    *)
(* may be split between two reads.                                         *)
(***************************************************************************)
EXTENDS StreamFramer

\* The next of `bytes` at the cursor or later (memchr, memchr3), or NoPos.
NextOf(bytes) ==
    LET at == {p \in cursor .. pushed - 1 : ByteAt(p) \in bytes}
    IN IF at = {} THEN NoPos ELSE Min(at)

JumpText ==
    /\ Running
    /\ cs = "Text"
    /\ LET lt == NextOf({"<"})
           end == IF lt = NoPos THEN pushed ELSE lt
       IN IF ~TextAllowed(cursor, end) THEN Refuse
          ELSE /\ IF lt = NoPos
                  THEN GoTo(pushed, "Text") /\ UNCHANGED tagStart
                  ELSE GoTo(lt + 1, "Lt") /\ tagStart' = lt
               /\ UNCHANGED <<tag, elementVars, finished, historyVars>>

Needles ==
    [Comment |-> <<"-", "-", ">">>, Cdata |-> <<"]", "]", ">">>, Pi |-> <<"?", ">">>]

InSpan == verdict = "open" /\ ~finished /\ cursor < pushed /\ cs \in DOMAIN Needles

\* skip_to: the position past the span's end, or NoPos.
SpanEnd ==
    LET past == PastFirst(carry, cursor - base + 1, Needles[cs])
    IN IF past = Nowhere THEN NoPos ELSE base + past - 1

\* Fault: one byte too few is kept of a span without an end.
SpanResumeLate == Max({cursor, pushed - Len(Needles[cs]) + 2})

\* Fault: a span without an end is searched from its beginning again.
SpanResumeStart == cursor

\* skip_to: where the search goes on after the next read.
SpanResume == Max({cursor, pushed - Len(Needles[cs]) + 1})

Span ==
    /\ InSpan
    /\ IF SpanEnd # NoPos THEN GoTo(SpanEnd, "Text")
       ELSE cursor < SpanResume /\ GoTo(SpanResume, cs)
    /\ UNCHANGED <<tag, elementVars, tagStart, finished, historyVars>>

InTag == Running /\ cs = "Tag"

\* A quoted value, to its closing quote.
QuotedValue ==
    /\ InTag
    /\ tag.quote # NoQuote
    /\ IF NextOf({tag.quote}) = NoPos
       THEN GoTo(pushed, "Tag") /\ UNCHANGED tag
       ELSE GoTo(NextOf({tag.quote}) + 1, "Tag") /\ tag' = [tag EXCEPT !.quote = NoQuote]
    /\ UNCHANGED <<elementVars, tagStart, finished, historyVars>>

\* The next `>` or opening quote of a tag.
TagStop == NextOf({">"} \cup Quotes)

TagGoesOn ==
    /\ InTag
    /\ tag.quote = NoQuote
    /\ IF TagStop = NoPos THEN GoTo(pushed, "Tag") /\ UNCHANGED tag
       ELSE /\ ByteAt(TagStop) # ">"
            /\ GoTo(TagStop + 1, "Tag")
            /\ tag' = [tag EXCEPT !.quote = ByteAt(TagStop)]
    /\ UNCHANGED <<elementVars, tagStart, finished, historyVars>>

JumpTagEnds ==
    /\ InTag
    /\ tag.quote = NoQuote
    /\ TagStop # NoPos
    /\ ByteAt(TagStop) = ">"
    /\ OnTagComplete(tag.isEnd, ~tag.isEnd /\ ByteAt(TagStop - 1) = "/", TagStop + 1)

-------------------------------------------------------------------------------
JumpNeedMore ==
    \/ finished \/ cursor = pushed
    \/ InSpan /\ SpanEnd = NoPos /\ cursor = SpanResume

JumpNextRecord == JumpText \/ OpenMarkup \/ OpenTag \/ Span \/ QuotedValue \/ TagGoesOn \/ JumpTagEnds

JumpNext ==
    \/ JumpNextRecord
    \/ JumpNeedMore /\ \E n \in 1 .. MaxChunk : Refill(n)
    \/ JumpNeedMore /\ Finish
    \/ Decided

JumpSpec == Init /\ [][JumpNext]_vars

-------------------------------------------------------------------------------
\* Every token that the bytes read so far complete is consumed before more is
\* asked for: a record is handed out with the read that brings its last byte,
\* whatever was kept of what stands before it.
NothingLeftBehind ==
    verdict = "open" /\ ~finished /\ JumpNeedMore =>
        Consumed = Cardinality({k \in DOMAIN doc.toks :
                      doc.toks[k].kind # "broken" /\ TokenStart(doc, k + 1) <= pushed})

\* No end of a comment, CDATA section or PI begins among the bytes that the search
\* gives up on: the ones it keeps of an unfinished span are enough, however the
\* reads cut its end.
NoSpanEndMissed ==
    [][InSpan /\ cs' = cs =>
          \A p \in cursor .. cursor' - 1 : ~StartsAt(Input(doc), p + 1, Needles[cs])]_vars
===============================================================================
