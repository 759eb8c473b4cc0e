---------------------------- MODULE ResidentScanner ----------------------------
(***************************************************************************)
(* The boundary scan over a document held in memory (src/src/scan.rs,      *)
(* Scanner): it jumps from `<` to `<` and returns the byte range of every  *)
(* record, or an error and no record at all.  One step is one iteration of *)
(* scan_content, of skip_subtree or of skip_trailing_misc.                 *)
(*                                                                         *)
(* Positions count the bytes from 0; the byte at position p is buf[p + 1]. *)
(***************************************************************************)
EXTENDS XmlInput

VARIABLES
    doc,            \* the document
    pos,            \* Scanner::pos
    phase,          \* the loop that runs: "content", "subtree" or "trailing"
    depth,          \* scan_content's depth
    recordStart,    \* where the open record starts, or NoPos
    skipDepth,      \* skip_subtree's depth
    nsFrom,         \* the tag whose xmlns was merged last; NoPos: the root's
    records,        \* the ranges found, [start, end]
    verdict         \* "open", then "ok" or "malformed"

elementVars == <<depth, recordStart, skipDepth, nsFrom>>

vars == <<doc, pos, phase, elementVars, records, verdict>>

-------------------------------------------------------------------------------
Target == TargetOf(doc)

buf == Input(doc)

\* rest.starts_with(pattern), for the rest from p on.
StartsWith(p, pattern) == IsPrefix(pattern, SubSeq(buf, p + 1, Len(buf)))

\* Fault: one byte too far.
PastByOne(p, pattern) ==
    LET at == {i \in p .. Len(buf) - Len(pattern) : StartsWith(i, pattern)}
    IN IF at = {} THEN NoPos ELSE Min(at) + Len(pattern) + 1

\* Just past the first occurrence of pattern at p or later; NoPos: there is none.
Past(p, pattern) ==
    LET at == {i \in p .. Len(buf) - Len(pattern) : StartsWith(i, pattern)}
    IN IF at = {} THEN NoPos ELSE Min(at) + Len(pattern)

\* The next byte of `bytes` at p or later.
Next1(p, bytes) ==
    LET at == {i \in p .. Len(buf) - 1 : buf[i + 1] \in bytes}
    IN IF at = {} THEN NoPos ELSE Min(at)

NoTagEnd == [end |-> NoPos, slash |-> FALSE]

\* Fault: the first `>` ends a tag.
ScanStartTagUnquoted(p) ==
    LET gt == Next1(p, {">"})
    IN IF gt = NoPos THEN NoTagEnd
       ELSE [end |-> gt + 1, slash |-> gt > p /\ buf[gt] = "/"]

\* Where the tag whose body is at p ends, and whether it is self-closing; a `>`
\* in a quoted value is stepped over with the value.
ScanStartTag(p) ==
    LET scan[i \in Nat] ==
          LET hit == Next1(i, {">"} \cup Quotes)
              close == Next1(hit + 1, {buf[hit + 1]})
          IN IF hit = NoPos THEN NoTagEnd
             ELSE IF buf[hit + 1] = ">"
             THEN [end |-> hit + 1, slash |-> hit > i /\ buf[hit] = "/"]
             ELSE IF close = NoPos THEN NoTagEnd ELSE scan[close + 1]
    IN scan[p]

\* Comments, CDATA sections and PIs: what opens and what ends them.
Spans ==
    {[open |-> <<"<", "!", "-", "-">>, close |-> <<"-", "-", ">">>],
     [open |-> <<"<", "!", "[", "CDATA[">>, close |-> <<"]", "]", ">">>],
     [open |-> <<"<", "?">>, close |-> <<"?", ">">>]}

NameAt(p) == EndTagName(buf, p + 1)

-------------------------------------------------------------------------------
\* The prolog and the root start tag are read; a self-closing root leaves no
\* content to scan.
Init ==
    /\ doc \in Docs
    /\ pos = Len(Prolog)
    /\ phase \in {"content", "trailing"}
    /\ depth = 1
    /\ recordStart = NoPos
    /\ skipDepth = 0
    /\ nsFrom = NoPos
    /\ records = <<>>
    /\ verdict = "open"

Refuse ==
    /\ verdict' = "malformed"
    /\ UNCHANGED <<doc, pos, phase, elementVars, records>>

MoveTo(p) == pos' = p /\ UNCHANGED <<doc, verdict>>

\* The `<` the iteration stops at; NoPos: there is none.
Lt == Next1(pos, {"<"})

\* Only inside a record, and in a skipped subtree, may there be more than
\* whitespace before the `<`.
TextOk ==
    \/ phase = "subtree" \/ recordStart # NoPos
    \/ \A p \in pos .. Lt - 1 : IsWs(buf[p + 1])

Scanning == verdict = "open" /\ phase \in {"content", "subtree"}

AtLt == Scanning /\ Lt # NoPos /\ TextOk

\* The span, if any, that opens at the `<`.
SpanAt(p) == {s \in Spans : StartsWith(p, s.open)}

SpanEnd(p, s) == Past(p + Len(s.open), s.close)

IsEndTag == StartsWith(Lt, <<"<", "/">>)
IsStartTag == Lt + 1 < Len(buf) /\ IsNameStart(buf[Lt + 2])

\* The tag at the `<`: scan_tag_end, or scan_start_tag.
TagHere == ScanStartTag(Lt + (IF IsEndTag THEN 2 ELSE 1))

\* No `<` before the end, stray text, or nothing that is framed at the `<`.
Unframed ==
    /\ Scanning
    /\ AtLt => /\ \A s \in SpanAt(Lt) : SpanEnd(Lt, s) = NoPos
               /\ IsEndTag \/ IsStartTag => TagHere.end = NoPos
    /\ Refuse

SkipSpan ==
    /\ AtLt
    /\ \E s \in SpanAt(Lt) : SpanEnd(Lt, s) # NoPos /\ MoveTo(SpanEnd(Lt, s))
    /\ UNCHANGED <<phase, elementVars, records>>

\* Fault: a self-closing tag in a skipped subtree nests.
SubtreeTagSlashNests ==
    /\ AtLt
    /\ phase = "subtree"
    /\ IsEndTag \/ IsStartTag
    /\ TagHere.end # NoPos
    /\ MoveTo(TagHere.end)
    /\ skipDepth' = IF IsEndTag THEN skipDepth - 1 ELSE skipDepth + 1
    /\ phase' = IF skipDepth' = 0 THEN "content" ELSE "subtree"
    /\ UNCHANGED <<depth, recordStart, nsFrom, records>>

\* skip_subtree counts the nesting and returns at the element's own end tag.
SubtreeTag ==
    /\ AtLt
    /\ phase = "subtree"
    /\ IsEndTag \/ IsStartTag
    /\ TagHere.end # NoPos
    /\ MoveTo(TagHere.end)
    /\ skipDepth' = IF IsEndTag THEN skipDepth - 1
                    ELSE IF TagHere.slash THEN skipDepth ELSE skipDepth + 1
    /\ phase' = IF skipDepth' = 0 THEN "content" ELSE "subtree"
    /\ UNCHANGED <<depth, recordStart, nsFrom, records>>

-------------------------------------------------------------------------------
\* The tags scan_content looks at itself.

ContentEndTag == AtLt /\ phase = "content" /\ IsEndTag /\ TagHere.end # NoPos

ContentStartTag == AtLt /\ phase = "content" /\ IsStartTag /\ TagHere.end # NoPos

RootCloseOk == recordStart = NoPos /\ NameAt(Lt + 2) = <<RootName>>

RootEndTag ==
    /\ ContentEndTag
    /\ depth = 1
    /\ IF RootCloseOk
       THEN /\ MoveTo(TagHere.end)
            /\ phase' = "trailing"
            /\ depth' = 0
            /\ UNCHANGED <<recordStart, skipDepth, nsFrom, records>>
       ELSE Refuse

\* An end tag inside a record, of the record itself, or of a container.
EndTag ==
    /\ ContentEndTag
    /\ depth > 1
    /\ depth' = depth - 1
    /\ IF recordStart # NoPos /\ depth - 1 = Target
       THEN /\ records' = Append(records, [start |-> recordStart, end |-> TagHere.end])
            /\ recordStart' = NoPos
       ELSE UNCHANGED <<records, recordStart>>
    /\ MoveTo(TagHere.end)
    /\ UNCHANGED <<phase, skipDepth, nsFrom>>

NestedStartTag ==
    /\ ContentStartTag
    /\ recordStart # NoPos
    /\ depth' = IF TagHere.slash THEN depth ELSE depth + 1
    /\ MoveTo(TagHere.end)
    /\ UNCHANGED <<phase, recordStart, skipDepth, nsFrom, records>>

RecordStartTag ==
    /\ ContentStartTag
    /\ recordStart = NoPos
    /\ depth = Target
    /\ IF TagHere.slash
       THEN /\ records' = Append(records, [start |-> Lt, end |-> TagHere.end])
            /\ UNCHANGED <<depth, recordStart>>
       ELSE /\ recordStart' = Lt
            /\ depth' = depth + 1
            /\ UNCHANGED records
    /\ MoveTo(TagHere.end)
    /\ UNCHANGED <<phase, skipDepth, nsFrom>>

DescentNameMatches == NameAt(Lt + 1) = <<doc.path[depth]>>

DescentAttrs == ScanAttrs(buf, NameEnd(buf, Lt + 2), Malformed)

\* The next container on the way: its attributes are parsed, its xmlns merged.
DescentStartTag ==
    /\ ContentStartTag
    /\ recordStart = NoPos
    /\ depth < Target
    /\ DescentNameMatches
    /\ IF AttrsOk(DescentAttrs)
       THEN /\ nsFrom' = IF AttrsDeclare(DescentAttrs) THEN Lt ELSE nsFrom
            /\ depth' = IF TagHere.slash THEN depth ELSE depth + 1
            /\ MoveTo(TagHere.end)
            /\ UNCHANGED <<phase, recordStart, skipDepth, records>>
       ELSE Refuse

\* Any other sibling on the way: skip_subtree takes over.
SiblingStartTag ==
    /\ ContentStartTag
    /\ recordStart = NoPos
    /\ depth < Target
    /\ ~DescentNameMatches
    /\ MoveTo(TagHere.end)
    /\ skipDepth' = IF TagHere.slash THEN 0 ELSE 1
    /\ phase' = IF TagHere.slash THEN "content" ELSE "subtree"
    /\ UNCHANGED <<depth, recordStart, nsFrom, records>>

-------------------------------------------------------------------------------
\* skip_trailing_misc.

\* The first byte at pos or later that is not whitespace.
Rest == Min({Len(buf)} \cup {p \in pos .. Len(buf) - 1 : ~IsWs(buf[p + 1])})

MiscAt(p) == {s \in SpanAt(p) : s.close # <<"]", "]", ">">>}

Trailing == verdict = "open" /\ phase = "trailing"

TrailingMisc ==
    /\ Trailing
    /\ \E s \in MiscAt(Rest) : SpanEnd(Rest, s) # NoPos /\ MoveTo(SpanEnd(Rest, s))
    /\ UNCHANGED <<phase, elementVars, records>>

TrailingJunk ==
    /\ Trailing
    /\ Rest < Len(buf)
    /\ \A s \in MiscAt(Rest) : SpanEnd(Rest, s) = NoPos
    /\ Refuse

Done ==
    /\ Trailing
    /\ Rest = Len(buf)
    /\ pos' = Rest
    /\ verdict' = "ok"
    /\ UNCHANGED <<doc, phase, elementVars, records>>

Decided == verdict # "open" /\ UNCHANGED vars

Next ==
    \/ Unframed \/ SkipSpan \/ SubtreeTag
    \/ RootEndTag \/ EndTag
    \/ NestedStartTag \/ RecordStartTag \/ DescentStartTag \/ SiblingStartTag
    \/ TrailingMisc \/ TrailingJunk \/ Done
    \/ Decided

Spec == Init /\ [][Next]_vars

-------------------------------------------------------------------------------
(***************************************************************************)
(* Properties                                                              *)
(***************************************************************************)

\* Positions stay inside the buffer, and every range found is a slice of it.
TypeOK ==
    /\ pos \in 0 .. Len(buf)
    /\ phase \in {"content", "subtree", "trailing"}
    /\ depth \in Nat
    /\ skipDepth \in Nat
    /\ {recordStart, nsFrom} \subseteq 0 .. Len(buf) \cup {NoPos}
    /\ \A i \in DOMAIN records :
        /\ records[i].start \in 0 .. Len(buf)
        /\ records[i].end \in records[i].start .. Len(buf)
    /\ verdict \in {"open", "ok", "malformed"}

SelfClosingRoot == depth = 1 /\ phase = "trailing"

RecordSlices ==
    [i \in DOMAIN records |-> SubSeq(buf, records[i].start + 1, records[i].end)]

\* The document is framed to its root's end tag, and only misc follows.
Acceptable ==
    IF SelfClosingRoot THEN OnlyMiscAfter(doc, 0)
    ELSE \E k \in DOMAIN doc.toks : Closes(doc, k) /\ OnlyMiscAfter(doc, k)

\* The token that closes the root.
CloseToken == CHOOSE k \in DOMAIN doc.toks : Closes(doc, k)

\* The containers descended into that declare a namespace.
Declarers ==
    {TokenStart(doc, k) : k \in {j \in 1 .. CloseToken : Descends(doc, j) /\ doc.toks[j].attrs = "xmlns"}}

\* The index is exact: a document is accepted if and only if RecordRules accepts
\* it, with exactly its records, in order, and the last declaration on the way.
IndexExact ==
    /\ verdict = "ok" =>
        /\ Acceptable
        /\ RecordSlices = IF SelfClosingRoot THEN <<>> ELSE RecordsUpTo(doc, CloseToken)
        /\ nsFrom = IF SelfClosingRoot THEN NoPos ELSE Max(Declarers \cup {NoPos})
    /\ verdict = "malformed" => ~Acceptable

\* Number of tokens that end at or before pos.
Consumed ==
    Cardinality({k \in DOMAIN doc.toks : doc.toks[k].kind # "broken" /\ TokenStart(doc, k + 1) <= pos})

\* A record is open exactly below the container, and the subtree loop runs exactly
\* while it counts, above the container.
CountersAgree ==
    /\ recordStart # NoPos <=> depth > Target
    /\ phase = "subtree" <=> skipDepth > 0
    /\ phase = "subtree" => depth < Target

\* The two loops count the elements that are really open, and their counters agree.
DepthsFollowDocument ==
    verdict = "open" /\ phase # "trailing" =>
        /\ depth + skipDepth = Len(Open(doc, Consumed))
        /\ CountersAgree

\* Every range of the index is a piece of the document from a `<` to a `>` that the
\* scan has passed, and the ranges come in document order and do not overlap.
RangesInOrder ==
    \A i \in 1 .. Len(records) :
        /\ records[i].start < records[i].end
        /\ records[i].end <= pos
        /\ buf[records[i].start + 1] = "<"
        /\ buf[records[i].end] = ">"
        /\ \A j \in 1 .. i - 1 : records[j].end <= records[i].start

\* The scan never looks at a byte twice from the start of an iteration on: every
\* iteration moves forward, or decides.  The index comes after Len(buf) of them at most.
ScanMovesOn == [][pos' > pos \/ (verdict = "open" /\ verdict' # "open")]_vars

-------------------------------------------------------------------------------
(***************************************************************************)
(* The inductive invariant behind TypeOK, CountersAgree and RangesInOrder. *)
(***************************************************************************)

\* The open record starts at a `<` behind the records found.
OpenRecordInv ==
    recordStart # NoPos =>
        /\ recordStart < pos
        /\ buf[recordStart + 1] = "<"
        /\ \A i \in 1 .. Len(records) : records[i].end <= recordStart

ScannerInv ==
    /\ doc \in Docs
    /\ TypeOK
    /\ records \in Seq([start : 0 .. Len(buf), end : 0 .. Len(buf)])
    /\ CountersAgree
    /\ RangesInOrder
    /\ OpenRecordInv

-------------------------------------------------------------------------------
(***************************************************************************)
(* The inductive invariant behind IndexExact and DepthsFollowDocument:     *)
(* what the scan has found, in terms of the tokens it has passed.          *)
(***************************************************************************)

\* Up to its depth the scan is on the way to the records; a subtree is one that leaves it.
OnTheWay(k) ==
    /\ depth >= 1
    /\ Len(Open(doc, k)) = depth + skipDepth
    /\ \A i \in 1 .. Len(Container(doc)) :
         i <= depth => Open(doc, k)[i] = Container(doc)[i]
    /\ phase = "subtree" => Open(doc, k)[depth + 1] # Container(doc)[depth + 1]

\* The open record is the one that began last.
OpenRecordIs(k) ==
    recordStart # NoPos =>
        \E first \in 1 .. k :
            /\ BeginsRecord(doc, first)
            /\ recordStart = TokenStart(doc, first)
            /\ \A j \in first + 1 .. k : ~BeginsRecord(doc, j)

\* Where the containers begin that declare a namespace, among the first k tokens.
DeclaredAt(k) ==
    {TokenStart(doc, j) : j \in {m \in 1 .. k : Descends(doc, m) /\ doc.toks[m].attrs = "xmlns"}}

FoundUpTo(k) ==
    /\ RecordSlices = RecordsUpTo(doc, k)
    /\ nsFrom \in DeclaredAt(k) \cup {NoPos}
    /\ \A at \in DeclaredAt(k) : at <= nsFrom

\* Inside the root, behind k tokens.
Inside(k) ==
    /\ \A j \in 1 .. k : Legal(doc, j) /\ ~ClosesRoot(doc, j)
    /\ OnTheWay(k)
    /\ OpenRecordIs(k)
    /\ FoundUpTo(k)

\* Behind the root, which token c closes or, when c is 0, its own start tag.
Outside(c, k) ==
    /\ \A j \in c + 1 .. k : doc.toks[j].kind \in {"space", "misc"}
    /\ IF c = 0 THEN depth = 1 /\ records = <<>> /\ nsFrom = NoPos
       ELSE /\ depth = 0
            /\ Closes(doc, c)
            /\ FoundUpTo(c)

FollowInv ==
    /\ verdict = "malformed" => ~Acceptable
    /\ verdict # "malformed" =>
         \E k \in 0 .. Len(doc.toks) :
            /\ pos = TokenStart(doc, k + 1)
            /\ phase # "trailing" => verdict = "open" /\ Inside(k)
            /\ phase = "trailing" => \E c \in 0 .. k : Outside(c, k)
            /\ verdict = "ok" => phase = "trailing" /\ k = Len(doc.toks)
===============================================================================
