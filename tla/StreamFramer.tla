----------------------------- MODULE StreamFramer -----------------------------
(***************************************************************************)
(* The resumable framer (src/src/scan.rs, StreamFramer): bytes arrive in   *)
(* chunks of any size, the framer keeps in `carry` what it may still need, *)
(* and reports a record as soon as its last byte is there.  This is what   *)
(* the two builds share; ByteFramer and MemchrFramer are their lexers.     *)
(*                                                                         *)
(* Positions count the bytes of the input from 0, as in the code; the byte *)
(* at position p is carry[p - base + 1].                                   *)
(***************************************************************************)
EXTENDS XmlInput

CONSTANT MaxChunk   \* bound: bytes a read returns at most

ASSUME ChunkAssumption == MaxChunk \in Nat \ {0}

NoQuote == "no quote"

NoTag == [isEnd |-> FALSE, quote |-> NoQuote, slash |-> FALSE]

VARIABLES
    doc,            \* the document the source yields
    carry, base,    \* the bytes kept, and the position of the first of them
    cursor,         \* the next byte to look at
    cs, tag,        \* the lexical state, and its fields while it is "Tag"
    depth,          \* open elements, the root included, not counting skipped ones
    recordStart,    \* where the open record starts, or NoPos
    tagStart,       \* where the last `<` in text was
    finished,       \* the root has closed
    skipDepth,      \* open elements of the sibling that is being skipped
    nsFrom,         \* the tag whose xmlns was merged last; NoPos: the root's
    verdict,        \* "open" until next_record_into or finish decides
    emitted,        \* history: the records' bytes, in order
    ranges,         \* history: where in the input each of them is
    prelude         \* history: nsFrom when each record was emitted

bufferVars == <<carry, base>>
elementVars == <<depth, recordStart, skipDepth, nsFrom>>
historyVars == <<emitted, ranges, prelude>>

vars == <<doc, bufferVars, cursor, cs, tag, elementVars, tagStart, finished, verdict,
          historyVars>>

-------------------------------------------------------------------------------
Target == TargetOf(doc)

pushed == base + Len(carry)

ByteAt(p) == carry[p - base + 1]

\* carry[start - base .. end - base]
Slice(start, end) == SubSeq(carry, start - base + 1, end - base)

NameAt(p) == EndTagName(carry, p - base + 1)

\* try_prelude has succeeded: the bytes read so far reach past the root start
\* tag, and a self-closing root leaves no content.
Init ==
    /\ doc \in Docs
    /\ base = 0
    /\ \E n \in Len(Prolog) .. Len(Input(doc)) :
        /\ n < Len(Prolog) + MaxChunk
        /\ carry = SubSeq(Input(doc), 1, n)
    /\ cursor = Len(Prolog)
    /\ cs = "Text"
    /\ tag = NoTag
    /\ recordStart = NoPos
    /\ tagStart = 0
    /\ finished \in BOOLEAN
    /\ depth = IF finished THEN 0 ELSE 1
    /\ skipDepth = 0
    /\ nsFrom = NoPos
    /\ verdict = "open"
    /\ emitted = <<>>
    /\ ranges = <<>>
    /\ prelude = <<>>

-------------------------------------------------------------------------------
\* next_record_into: the loop condition, and the byte looked at.

Running == verdict = "open" /\ ~finished /\ cursor < pushed

Byte == ByteAt(cursor)

Refuse ==
    /\ verdict' = "malformed"
    /\ UNCHANGED <<doc, bufferVars, cursor, cs, tag, elementVars, tagStart, finished, historyVars>>

GoTo(p, state) ==
    /\ cursor' = p
    /\ cs' = state
    /\ UNCHANGED <<doc, bufferVars, verdict>>

Advance(state) == GoTo(cursor + 1, state)

\* Between siblings only whitespace may stand, here from `start` on before `end`;
\* in a record and in a skipped sibling anything may.
TextAllowed(start, end) ==
    \/ recordStart # NoPos \/ skipDepth > 0
    \/ \A p \in start .. end - 1 : IsWs(ByteAt(p))

\* What `<`, `<!`, `<!-` and `<![` may be followed by.
Opening ==
    [Lt         |-> [x \in {"?", "!"} |-> IF x = "?" THEN "Pi" ELSE "Bang"],
     Bang       |-> [x \in {"-", "["} |-> IF x = "-" THEN "BangDash" ELSE "CdataMatch"],
     BangDash   |-> [x \in {"-"} |-> "Comment"],
     CdataMatch |-> [x \in {"CDATA["} |-> "Cdata"]]

OpensTag == cs = "Lt" /\ (Byte = "/" \/ IsNameStart(Byte))

OpenMarkup ==
    /\ Running
    /\ cs \in DOMAIN Opening
    /\ ~OpensTag
    /\ IF Byte \in DOMAIN Opening[cs]
       THEN Advance(Opening[cs][Byte]) /\ UNCHANGED <<tag, elementVars, tagStart, finished, historyVars>>
       ELSE Refuse

OpenTag ==
    /\ Running
    /\ OpensTag
    /\ Advance("Tag")
    /\ tag' = [NoTag EXCEPT !.isEnd = (Byte = "/")]
    /\ UNCHANGED <<elementVars, tagStart, finished, historyVars>>

\* The states of comments, CDATA sections and PIs: the delimiter's character,
\* and the states with none, one and (but for PIs) two of them just seen.
Spans ==
    {[mark |-> "-", seen |-> <<"Comment", "CommentDash", "CommentDashDash">>],
     [mark |-> "]", seen |-> <<"Cdata", "CdataBracket", "CdataBracket2">>],
     [mark |-> "?", seen |-> <<"Pi", "PiQ">>]}

SpanStates == UNION {Range(s.seen) : s \in Spans}

-------------------------------------------------------------------------------
\* on_tag_complete: an end tag or not, self-closing or not, and where it ends.

Past(end) == GoTo(end, "Text") /\ UNCHANGED <<tag, tagStart>>

NoRecord == UNCHANGED historyVars

Emit(start, end) ==
    /\ emitted' = Append(emitted, Slice(start, end))
    /\ ranges' = Append(ranges, [start |-> start, end |-> end])
    /\ prelude' = Append(prelude, nsFrom)

\* Fault: a self-closing tag inside a skipped sibling nests.
SkippedTagSlashNests(isEnd, slash, end) ==
    /\ skipDepth > 0
    /\ skipDepth' = IF isEnd THEN skipDepth - 1 ELSE skipDepth + 1
    /\ Past(end)
    /\ NoRecord
    /\ UNCHANGED <<depth, recordStart, nsFrom, finished>>

\* Fault: a tag outside every skipped sibling counts as nested in one.
SkippedTagUnguarded(isEnd, slash, end) ==
    /\ skipDepth' = IF isEnd THEN skipDepth - 1
                    ELSE IF slash THEN skipDepth ELSE skipDepth + 1
    /\ Past(end)
    /\ NoRecord
    /\ UNCHANGED <<depth, recordStart, nsFrom, finished>>

\* Nesting inside a sibling that is skipped whole.
SkippedTag(isEnd, slash, end) ==
    /\ skipDepth > 0
    /\ skipDepth' = IF isEnd THEN skipDepth - 1
                    ELSE IF slash THEN skipDepth ELSE skipDepth + 1
    /\ Past(end)
    /\ NoRecord
    /\ UNCHANGED <<depth, recordStart, nsFrom, finished>>

RootCloseOk == NameAt(tagStart + 2) = <<RootName>>

RootEndTag(isEnd, slash, end) ==
    /\ skipDepth = 0
    /\ isEnd
    /\ depth = 1
    /\ IF RootCloseOk
       THEN /\ depth' = 0
            /\ finished' = TRUE
            /\ Past(end)
            /\ NoRecord
            /\ UNCHANGED <<recordStart, skipDepth, nsFrom>>
       ELSE Refuse

\* An end tag inside a record, of the record itself, or of a container.
EndTag(isEnd, slash, end) ==
    /\ skipDepth = 0
    /\ isEnd
    /\ depth > 1
    /\ IF depth - 1 = Target /\ recordStart = NoPos
       THEN Refuse
       ELSE /\ depth' = depth - 1
            /\ IF depth - 1 = Target
               THEN Emit(recordStart, end) /\ recordStart' = NoPos
               ELSE NoRecord /\ UNCHANGED recordStart
            /\ Past(end)
            /\ UNCHANGED <<skipDepth, nsFrom, finished>>

\* Inside a record only the nesting matters.
NestedStartTag(isEnd, slash, end) ==
    /\ skipDepth = 0
    /\ ~isEnd
    /\ recordStart # NoPos
    /\ depth' = IF slash THEN depth ELSE depth + 1
    /\ Past(end)
    /\ NoRecord
    /\ UNCHANGED <<recordStart, skipDepth, nsFrom, finished>>

\* A child of the container is a record.
RecordStartTag(isEnd, slash, end) ==
    /\ skipDepth = 0
    /\ ~isEnd
    /\ recordStart = NoPos
    /\ depth = Target
    /\ IF slash
       THEN Emit(tagStart, end) /\ UNCHANGED <<depth, recordStart>>
       ELSE NoRecord /\ recordStart' = tagStart /\ depth' = depth + 1
    /\ Past(end)
    /\ UNCHANGED <<skipDepth, nsFrom, finished>>

DescentNameMatches == NameAt(tagStart + 1) = <<doc.path[depth]>>

\* capture_descent_xmlns reads the tag's attributes out of `carry`.
TagAttrs == ScanAttrs(carry, NameEnd(carry, tagStart - base + 2), Malformed)

\* Fault: a container's namespaces are not captured once a record was found.
DescentStartTagLate(isEnd, slash, end) ==
    /\ skipDepth = 0
    /\ ~isEnd
    /\ recordStart = NoPos
    /\ depth < Target
    /\ DescentNameMatches
    /\ IF AttrsOk(TagAttrs)
       THEN /\ nsFrom' = IF AttrsDeclare(TagAttrs) /\ emitted = <<>> THEN tagStart ELSE nsFrom
            /\ depth' = IF slash THEN depth ELSE depth + 1
            /\ Past(end)
            /\ NoRecord
            /\ UNCHANGED <<recordStart, skipDepth, finished>>
       ELSE Refuse

\* The next container on the way to the records.
DescentStartTag(isEnd, slash, end) ==
    /\ skipDepth = 0
    /\ ~isEnd
    /\ recordStart = NoPos
    /\ depth < Target
    /\ DescentNameMatches
    /\ IF AttrsOk(TagAttrs)
       THEN /\ nsFrom' = IF AttrsDeclare(TagAttrs) THEN tagStart ELSE nsFrom
            /\ depth' = IF slash THEN depth ELSE depth + 1
            /\ Past(end)
            /\ NoRecord
            /\ UNCHANGED <<recordStart, skipDepth, finished>>
       ELSE Refuse

\* Any other sibling on the way is skipped with everything in it.
SiblingStartTag(isEnd, slash, end) ==
    /\ skipDepth = 0
    /\ ~isEnd
    /\ recordStart = NoPos
    /\ depth < Target
    /\ ~DescentNameMatches
    /\ skipDepth' = IF slash THEN 0 ELSE 1
    /\ Past(end)
    /\ NoRecord
    /\ UNCHANGED <<depth, recordStart, nsFrom, finished>>

OnTagComplete(isEnd, slash, end) ==
    \/ SkippedTag(isEnd, slash, end)
    \/ RootEndTag(isEnd, slash, end)
    \/ EndTag(isEnd, slash, end)
    \/ NestedStartTag(isEnd, slash, end)
    \/ RecordStartTag(isEnd, slash, end)
    \/ DescentStartTag(isEnd, slash, end)
    \/ SiblingStartTag(isEnd, slash, end)

-------------------------------------------------------------------------------
\* The producer's side of the framer, when next_record_into returned None.

\* Fault: an open record does not hold back compaction.
KeepFromTag ==
    IF cs = "Text" \/ cs \in SpanStates THEN cursor ELSE tagStart

\* Fault: an ignored span is kept from its `<` on.
KeepFromSpan ==
    IF recordStart # NoPos THEN recordStart
    ELSE IF cs = "Text" THEN cursor ELSE tagStart

\* compact: the first byte that may still be needed.
KeepFrom ==
    IF recordStart # NoPos THEN recordStart
    ELSE IF cs = "Text" \/ cs \in SpanStates THEN cursor
    ELSE tagStart

\* compact, then a read of n bytes, then push.
Refill(n) ==
    /\ verdict = "open"
    /\ pushed + n <= Len(Input(doc))
    /\ base' = KeepFrom
    /\ carry' = Slice(KeepFrom, pushed) \o SubSeq(Input(doc), pushed + 1, pushed + n)
    /\ UNCHANGED <<doc, cursor, cs, tag, elementVars, tagStart, finished, verdict, historyVars>>

\* compact, then a read of no bytes, then finish.
Finish ==
    /\ verdict = "open"
    /\ pushed = Len(Input(doc))
    /\ base' = KeepFrom
    /\ carry' = Slice(KeepFrom, pushed)
    /\ verdict' = IF finished THEN "closed" ELSE "malformed"
    /\ UNCHANGED <<doc, cursor, cs, tag, elementVars, tagStart, finished, historyVars>>

Decided == verdict # "open" /\ UNCHANGED vars

-------------------------------------------------------------------------------
(***************************************************************************)
(* Properties                                                              *)
(***************************************************************************)

\* Positions stay inside the input, and depths are counts.
TypeOK ==
    /\ base \in 0 .. Len(Input(doc))
    /\ pushed \in 0 .. Len(Input(doc))
    /\ cursor \in base .. pushed
    /\ cs \in SpanStates \cup DOMAIN Opening \cup {"Text", "Tag"}
    /\ tag \in [isEnd : BOOLEAN, quote : Quotes \cup {NoQuote}, slash : BOOLEAN]
    /\ depth \in Nat
    /\ skipDepth \in Nat
    /\ {recordStart, nsFrom} \subseteq 0 .. Len(Input(doc)) \cup {NoPos}
    /\ tagStart \in 0 .. Len(Input(doc))
    /\ finished \in BOOLEAN
    /\ verdict \in {"open", "closed", "malformed"}

\* The states in which a `<` has been read and what it opens is not over, or not
\* known yet: `tagStart` is where that `<` is.
OpeningStates == {"Lt", "Bang", "BangDash", "CdataMatch", "Tag"}

\* Compaction never drops a byte that is still needed: `carry` is the input
\* from `base` on, an open record and a tag being read start at or after `base`
\* (the code computes `record_start - base` and `tag_start - base` unsigned).
NeededBytesKept ==
    /\ carry = SubSeq(Input(doc), base + 1, pushed)
    /\ recordStart # NoPos => base <= recordStart
    /\ cs \in OpeningStates => base <= tagStart

\* Number of tokens that end at or before the cursor.
Consumed ==
    Cardinality({k \in DOMAIN doc.toks :
                    doc.toks[k].kind # "broken" /\ TokenStart(doc, k + 1) <= cursor})

\* A record is open exactly below the container, and a sibling is skipped only above
\* it, where no record is open.
CountersAgree ==
    /\ recordStart # NoPos <=> depth > Target
    /\ skipDepth > 0 => depth < Target

\* The counters follow the document: the two depths together are the number of
\* elements really open, and they agree with each other.
DepthsFollowDocument ==
    verdict = "open" /\ ~finished =>
        /\ depth + skipDepth = Len(Open(doc, Consumed))
        /\ CountersAgree

\* Lengths of what the framer may have to keep: a tag, the four bytes that
\* decide what follows a `<`, a record or the part of it that is there.
UnitLengths(d) ==
    {Len(Prolog), 4}
      \cup {Len(d.toks[k].bytes) : k \in {j \in DOMAIN d.toks : d.toks[j].kind \notin {"misc", "cdata"}}}
      \cup {Len(TokenBytes(SubSeq(d.toks, span[1], span[2]))) :
              span \in {p \in (DOMAIN d.toks) \X (DOMAIN d.toks) :
                  /\ p[1] <= p[2]
                  /\ BeginsRecord(d, p[1])
                  /\ \A j \in p[1] .. p[2] - 1 :
                        Len(Open(d, j)) > Len(Container(d))}}

\* Until the root closes, `carry` holds at most one such unit and one chunk,
\* however long the document, its comments and its skipped siblings are.
CarryBounded == ~finished => Len(carry) <= Max(UnitLengths(doc)) + MaxChunk

\* The containers that are open where token k of d begins.
Ancestors(d, k) ==
    {j \in 1 .. k - 1 :
        /\ d.toks[j].kind = "start"
        /\ \A m \in j .. k - 1 : Len(Open(d, m)) >= Len(Open(d, j))}

\* The start of the innermost container around token k that declares a
\* namespace; NoPos when only the root does.
Declarer(d, k) ==
    Max({NoPos} \cup {TokenStart(d, j) : j \in {i \in Ancestors(d, k) : d.toks[i].attrs = "xmlns"}})

\* tests/public_api.rs:739: the streaming path frames the same records as the
\* resident one; skip_trailing_misc makes the latter refuse what follows the
\* root's end tag unless it is space, comments and PIs.
AcceptsOnlyResident ==
    verdict = "closed" =>
        IF cursor = Len(Prolog) THEN OnlyMiscAfter(doc, 0)   \* a self-closing root
        ELSE \E k \in DOMAIN doc.toks : Closes(doc, k) /\ OnlyMiscAfter(doc, k)

\* The tokens that begin the records of d.
RecordTokens(d) == {k \in DOMAIN d.toks : BeginsRecord(d, k)}

\* The token that begins the i-th record.
RecordToken(d, i) ==
    CHOOSE k \in RecordTokens(d) : Cardinality(RecordTokens(d) \cap 1 .. k) = i

\* No record is reported with namespaces captured before its own container's.
OwnNamespacesCaptured ==
    \A i \in DOMAIN prelude : prelude[i] >= Declarer(doc, RecordToken(doc, i))

\* src/src/prelude.rs:27-28: "root- and ancestor-declared namespaces are always
\* correct".
AncestorNamespacesCorrect ==
    \A i \in DOMAIN prelude : prelude[i] = Declarer(doc, RecordToken(doc, i))

\* Every record reported is a piece of the document from a `<` to a `>`, whole and
\* unchanged however the reads cut it and whatever was compacted meanwhile, and the
\* records do not overlap and come in document order.
RecordsAreSlices ==
    /\ Len(ranges) = Len(emitted)
    /\ \A i \in 1 .. Len(ranges) :
        /\ ranges[i].start < ranges[i].end
        /\ ranges[i].end <= cursor
        /\ Input(doc)[ranges[i].start + 1] = "<"
        /\ Input(doc)[ranges[i].end] = ">"
        /\ emitted[i] = SubSeq(Input(doc), ranges[i].start + 1, ranges[i].end)
        /\ \A j \in 1 .. i - 1 : ranges[j].end <= ranges[i].start

Framing ==
    INSTANCE RecordFraming
    WITH consumed <- Consumed,
         verdict <- IF finished THEN "closed" ELSE verdict

\* Whatever the sizes of the reads, the framer finds the records of the
\* document, and accepts it or not, as RecordRules says.
FramesRecords == Framing!Spec

-------------------------------------------------------------------------------
(***************************************************************************)
(* The inductive invariant behind TypeOK, NeededBytesKept, CountersAgree   *)
(* and RecordsAreSlices, for both lexers.                                  *)
(***************************************************************************)

\* The `<` of an open record or tag stands in front of the cursor, behind the
\* records reported so far.
MarksInv ==
    /\ cs \in OpeningStates =>
        /\ tagStart < cursor
        /\ Input(doc)[tagStart + 1] = "<"
        /\ \A i \in 1 .. Len(ranges) : ranges[i].end <= tagStart
    /\ recordStart # NoPos =>
        /\ recordStart < cursor
        /\ cs \in OpeningStates => recordStart < tagStart
        /\ Input(doc)[recordStart + 1] = "<"
        /\ \A i \in 1 .. Len(ranges) : ranges[i].end <= recordStart

HistoryOK ==
    /\ ranges \in Seq([start : 0 .. Len(Input(doc)), end : 0 .. Len(Input(doc))])
    /\ emitted \in Seq(Seq(Symbols))

FramerInv ==
    /\ doc \in Docs
    /\ TypeOK
    /\ HistoryOK
    /\ NeededBytesKept
    /\ CountersAgree
    /\ RecordsAreSlices
    /\ MarksInv
    /\ finished <=> depth = 0
===============================================================================
