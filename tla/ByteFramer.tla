------------------------------ MODULE ByteFramer ------------------------------
(***************************************************************************)
(* next_record_into of the default build: one byte at a time.              *)
(***************************************************************************)
EXTENDS StreamFramer

Text ==
    /\ Running
    /\ cs = "Text"
    /\ IF Byte = "<"
       THEN /\ tagStart' = cursor
            /\ Advance("Lt")
            /\ UNCHANGED <<tag, elementVars, finished, historyVars>>
       ELSE IF TextAllowed(cursor, cursor + 1)
            THEN Advance("Text") /\ UNCHANGED <<tag, elementVars, tagStart, finished, historyVars>>
            ELSE Refuse

\* The state after x when k-1 delimiter characters were just seen.
SpanNext(s, k, x) ==
    CASE k = Len(s.seen) /\ x = ">" -> "Text"
      [] x = s.mark -> s.seen[IF k < Len(s.seen) THEN k + 1 ELSE k]
      [] OTHER -> s.seen[1]

SkipSpan ==
    /\ Running
    /\ \E s \in Spans : \E k \in DOMAIN s.seen :
        /\ cs = s.seen[k]
        /\ Advance(SpanNext(s, k, Byte))
    /\ UNCHANGED <<tag, elementVars, tagStart, finished, historyVars>>

\* Fault: a `>` ends the tag even inside a quoted value.
EndsTagQuoted == Byte = ">"

\* A `>` outside quotes ends the tag.
EndsTag == tag.quote = NoQuote /\ Byte = ">"

TagByte ==
    /\ Running
    /\ cs = "Tag"
    /\ ~EndsTag
    /\ tag' = IF tag.quote # NoQuote
              THEN IF Byte = tag.quote THEN [tag EXCEPT !.quote = NoQuote] ELSE tag
              ELSE IF Byte \in Quotes
                   THEN [tag EXCEPT !.quote = Byte, !.slash = FALSE]
                   ELSE [tag EXCEPT !.slash = (Byte = "/")]
    /\ Advance("Tag")
    /\ UNCHANGED <<elementVars, tagStart, finished, historyVars>>

TagEnds ==
    /\ Running
    /\ cs = "Tag"
    /\ EndsTag
    /\ OnTagComplete(tag.isEnd, tag.slash, cursor + 1)

-------------------------------------------------------------------------------
NeedMore == finished \/ cursor = pushed

NextRecord == Text \/ OpenMarkup \/ OpenTag \/ SkipSpan \/ TagByte \/ TagEnds

Next ==
    \/ NextRecord
    \/ NeedMore /\ \E n \in 1 .. MaxChunk : Refill(n)
    \/ NeedMore /\ Finish
    \/ Decided

Spec == Init /\ [][Next]_vars
===============================================================================
