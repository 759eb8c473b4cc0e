-------------------------- MODULE StreamFramerProofs --------------------------
(***************************************************************************)
(* Safety of the streaming framer, for every document, record path and     *)
(* size of the reads: what its two lexers share keeps the invariant        *)
(* FramerInv (markup that opens, tags that are complete, compaction and    *)
(* reads), the actions of each lexer keep it, and the jumps of             *)
(* MemchrFramer overlook nothing.                                          *)
(***************************************************************************)
EXTENDS ByteFramer, MemchrFramer, XmlBytesProofs

\* The input is a sequence of bytes, and the record path a sequence of names.
LEMMA InputFacts ==
  ASSUME doc \in Docs
  PROVE  /\ Input(doc) \in Seq(Symbols) /\ Len(Input(doc)) \in Nat
         /\ Len(Prolog) \in Nat
         /\ Target \in Nat \ {0}
<1>1. /\ Prolog \in Seq(Symbols) /\ TokenBytes(doc.toks) \in Seq(Symbols)
      /\ Input(doc) = Prolog \o TokenBytes(doc.toks) /\ doc.path \in Seq(Names)
  BY InputAssumption DEF Input
<1>2. Input(doc) \in Seq(Symbols)
  BY <1>1, ConcatProperties
<1>3. QED
  BY <1>1, <1>2, LenProperties DEF Target, TargetOf

(***************************************************************************)
(* `carry` holds the input's bytes, so what is read or sliced out of it is *)
(* what stands in the input.                                               *)
(***************************************************************************)
LEMMA BufferFacts ==
  ASSUME FramerInv
  PROVE  /\ base \in Nat /\ pushed \in Nat /\ cursor \in Nat
         /\ base <= cursor /\ cursor <= pushed /\ pushed <= Len(Input(doc))
         /\ carry \in Seq(Symbols) /\ Len(carry) = pushed - base
         /\ \A p \in base .. pushed - 1 : ByteAt(p) = Input(doc)[p + 1] /\ ByteAt(p) \in Symbols
         /\ \A s, e \in base .. pushed :
                s <= e => /\ Slice(s, e) = SubSeq(Input(doc), s + 1, e)
                          /\ Slice(s, e) \in Seq(Symbols)
<1> DEFINE in == Input(doc)
<1>1. in \in Seq(Symbols) /\ Len(in) \in Nat
  BY InputFacts DEF FramerInv
<1>2. /\ base \in Nat /\ pushed \in Nat /\ cursor \in Nat
      /\ base <= cursor /\ cursor <= pushed /\ pushed <= Len(in)
  BY <1>1 DEF FramerInv, TypeOK
<1>3. carry = SubSeq(in, base + 1, pushed)
  BY DEF FramerInv, NeededBytesKept
<1>4. /\ carry \in Seq(Symbols) /\ Len(carry) = pushed - base
      /\ \A i \in 1 .. pushed - base : carry[i] = in[base + i]
  BY <1>1, <1>2, <1>3, SubSeqProperties, ElementOfSeq
<1>5. ASSUME NEW p \in base .. pushed - 1
      PROVE  ByteAt(p) = in[p + 1] /\ ByteAt(p) \in Symbols
  <2>1. p - base + 1 \in 1 .. pushed - base /\ base + (p - base + 1) = p + 1
    BY <1>2
  <2>2. QED
    BY <1>4, <2>1, ElementOfSeq DEF ByteAt
<1>6. ASSUME NEW s \in base .. pushed, NEW e \in base .. pushed, s <= e
      PROVE  Slice(s, e) = SubSeq(in, s + 1, e) /\ Slice(s, e) \in Seq(Symbols)
  <2>1. Slice(s, e) = SubSeq(in, s + 1, e)
    BY <1>1, <1>2, <1>3, <1>6, SliceOfSlice DEF Slice
  <2>2. SubSeq(in, s + 1, e) \in Seq(Symbols)
    BY <1>1, <1>2, <1>6, SubSeqProperties, ElementOfSeq
  <2>3. QED
    BY <2>1, <2>2
<1>7. QED
  BY <1>2, <1>4, <1>5, <1>6

\* The ranges of the records that have come out lie behind the cursor.
LEMMA HistoryFacts ==
  ASSUME FramerInv
  PROVE  /\ ranges \in Seq([start : 0 .. Len(Input(doc)), end : 0 .. Len(Input(doc))])
         /\ emitted \in Seq(Seq(Symbols))
         /\ Len(ranges) \in Nat /\ Len(emitted) = Len(ranges)
         /\ \A i \in 1 .. Len(ranges) :
                /\ ranges[i].start \in Nat /\ ranges[i].end \in Nat
                /\ ranges[i].end <= cursor
<1> DEFINE Position == [start : 0 .. Len(Input(doc)), end : 0 .. Len(Input(doc))]
<1>1. ranges \in Seq(Position) /\ emitted \in Seq(Seq(Symbols)) /\ Len(ranges) = Len(emitted)
  BY DEF FramerInv, HistoryOK, RecordsAreSlices
<1>2. \A i \in 1 .. Len(ranges) : ranges[i] \in Position
  BY <1>1, ElementOfSeq
<1>3. Len(Input(doc)) \in Nat
  BY InputFacts DEF FramerInv
<1>4. \A i \in 1 .. Len(ranges) : ranges[i].end <= cursor
  BY DEF FramerInv, RecordsAreSlices
<1>5. QED
  BY <1>1, <1>2, <1>3, <1>4, LenProperties

(***************************************************************************)
(* The lexical states.                                                     *)
(***************************************************************************)
LEMMA StateNames ==
  /\ SpanStates = {"Comment", "CommentDash", "CommentDashDash", "Cdata", "CdataBracket",
                   "CdataBracket2", "Pi", "PiQ"}
  /\ DOMAIN Opening = {"Lt", "Bang", "BangDash", "CdataMatch"}
<1>1. \A a, b, c : Range(<<a, b, c>>) = {a, b, c}
  BY DEF Range
<1>2. \A a, b : Range(<<a, b>>) = {a, b}
  BY DEF Range
<1>3. {Range(s.seen) : s \in Spans} =
        {Range(<<"Comment", "CommentDash", "CommentDashDash">>),
         Range(<<"Cdata", "CdataBracket", "CdataBracket2">>), Range(<<"Pi", "PiQ">>)}
  BY DEF Spans
<1>4. QED
  BY <1>1, <1>2, <1>3 DEF SpanStates, Opening

-------------------------------------------------------------------------------
\* Behind the root start tag, with any number of bytes read beyond it.
LEMMA InitFramerInv == Init => FramerInv
<1> SUFFICES ASSUME Init PROVE FramerInv
  OBVIOUS
<1> DEFINE in == Input(doc)
<1>1. doc \in Docs
  BY DEF Init
<1>2. /\ in \in Seq(Symbols) /\ Len(in) \in Nat /\ Len(Prolog) \in Nat
      /\ Target \in Nat \ {0}
  BY <1>1, InputFacts
<1>3. PICK n \in Len(Prolog) .. Len(in) : carry = SubSeq(in, 1, n)
  BY DEF Init
<1>4. Len(carry) = n /\ base = 0 /\ pushed = n
  <2>1. Len(carry) = n
    BY <1>2, <1>3, SubSeqProperties, ElementOfSeq
  <2>2. QED
    BY <1>2, <2>1 DEF Init, pushed
<1>5. cursor = Len(Prolog) /\ cursor \in 0 .. n
  BY <1>2, <1>3 DEF Init
<1>6. TypeOK
  <2>1. tag \in [isEnd : BOOLEAN, quote : Quotes \cup {NoQuote}, slash : BOOLEAN]
    BY DEF Init, NoTag
  <2>2. finished \in BOOLEAN /\ depth \in Nat
    BY DEF Init
  <2>3. QED
    BY <1>2, <1>4, <1>5, <2>1, <2>2 DEF Init, TypeOK, NoPos
<1>7. HistoryOK
  BY DEF Init, HistoryOK
<1>8. NeededBytesKept
  BY <1>3, <1>4 DEF Init, NeededBytesKept, OpeningStates
<1>9. CountersAgree
  BY <1>2 DEF Init, CountersAgree
<1>10. RecordsAreSlices /\ MarksInv
  BY DEF Init, RecordsAreSlices, MarksInv, OpeningStates
<1>11. finished <=> depth = 0
  BY DEF Init
<1>12. QED
  BY <1>1, <1>6, <1>7, <1>8, <1>9, <1>10, <1>11 DEF FramerInv

(***************************************************************************)
(* A refusal changes the verdict only.                                     *)
(***************************************************************************)
LEMMA RefuseKeepsInv == FramerInv /\ Refuse => FramerInv'
<1> SUFFICES ASSUME FramerInv, Refuse PROVE FramerInv'
  OBVIOUS
<1>1. /\ UNCHANGED <<doc, base, carry, cursor, cs, tag, depth, recordStart, skipDepth, nsFrom,
                     tagStart, finished, emitted, ranges>>
      /\ verdict' = "malformed"
  BY DEF Refuse, bufferVars, elementVars, historyVars
<1>2. pushed' = pushed /\ Target' = Target
  BY <1>1 DEF pushed, Target
<1>3. TypeOK' /\ HistoryOK'
  BY <1>1, <1>2 DEF FramerInv, TypeOK, HistoryOK
<1>4. NeededBytesKept' /\ CountersAgree' /\ RecordsAreSlices' /\ MarksInv'
  BY <1>1, <1>2 DEF FramerInv, NeededBytesKept, CountersAgree, RecordsAreSlices, MarksInv
<1>5. QED
  BY <1>1, <1>3, <1>4 DEF FramerInv

(***************************************************************************)
(* A lexer moves on, and remembers the last `<` it has passed while it is  *)
(* in an opening state.                                                    *)
(***************************************************************************)
LEMMA MoveKeepsInv ==
  ASSUME FramerInv,
         UNCHANGED <<doc, bufferVars, elementVars, finished, verdict, historyVars>>,
         cursor' \in cursor .. pushed,
         cs' \in SpanStates \cup DOMAIN Opening \cup {"Text", "Tag"},
         tag' \in [isEnd : BOOLEAN, quote : Quotes \cup {NoQuote}, slash : BOOLEAN],
         \/ cs' \notin OpeningStates /\ tagStart' = tagStart
         \/ cs \in OpeningStates /\ tagStart' = tagStart
         \/ tagStart' \in cursor .. cursor' - 1 /\ ByteAt(tagStart') = "<"
  PROVE  FramerInv'
<1> DEFINE in == Input(doc)
<1>1. UNCHANGED <<doc, base, carry, depth, recordStart, skipDepth, nsFrom, finished, verdict,
                  emitted, ranges>>
  BY DEF bufferVars, elementVars, historyVars
<1>2. pushed' = pushed /\ Target' = Target
  BY <1>1 DEF pushed, Target
<1>3. /\ base \in Nat /\ pushed \in Nat /\ cursor \in Nat
      /\ base <= cursor /\ cursor <= pushed /\ pushed <= Len(in) /\ Len(in) \in Nat
  BY BufferFacts, InputFacts DEF FramerInv
<1>4. cursor' \in Nat /\ cursor <= cursor' /\ cursor' <= pushed
  BY <1>3
<1>5. tagStart' \in 0 .. Len(in)
  BY <1>3, <1>4 DEF FramerInv, TypeOK
<1>6. TypeOK'
  BY <1>1, <1>2, <1>3, <1>4, <1>5 DEF FramerInv, TypeOK
<1>7. HistoryOK' /\ CountersAgree'
  BY <1>1, <1>2 DEF FramerInv, HistoryOK, CountersAgree
<1>8. \A i \in 1 .. Len(ranges) : ranges[i].end <= cursor /\ ranges[i].end \in Nat
  BY HistoryFacts
<1>9. RecordsAreSlices'
  BY <1>1, <1>3, <1>4, <1>8 DEF FramerInv, RecordsAreSlices
<1> DEFINE OpenRecordBehind ==
             recordStart # NoPos =>
               /\ recordStart \in Nat /\ recordStart < cursor /\ base <= recordStart
               /\ in[recordStart + 1] = "<"
               /\ \A i \in 1 .. Len(ranges) : ranges[i].end <= recordStart
<1>a. OpenRecordBehind
  BY DEF FramerInv, NeededBytesKept, MarksInv, TypeOK, NoPos
<1>b. \A n \in Nat : n < cursor => n < cursor'
  BY <1>3, <1>4
<1>10. CASE cs' \notin OpeningStates
  <2>1. NeededBytesKept'
    BY <1>1, <1>2, <1>10 DEF FramerInv, NeededBytesKept
  <2>2. MarksInv'
    BY <1>1, <1>10, <1>a, <1>b DEF MarksInv
  <2>3. QED
    BY <1>1, <1>6, <1>7, <1>9, <2>1, <2>2 DEF FramerInv
<1>11. CASE cs \in OpeningStates /\ tagStart' = tagStart
  <2>1. NeededBytesKept'
    BY <1>1, <1>2, <1>11 DEF FramerInv, NeededBytesKept
  <2>2. /\ tagStart \in Nat /\ tagStart < cursor
        /\ in[tagStart + 1] = "<"
        /\ \A i \in 1 .. Len(ranges) : ranges[i].end <= tagStart
        /\ recordStart # NoPos => recordStart < tagStart
    BY <1>11 DEF FramerInv, MarksInv, TypeOK
  <2>3. MarksInv'
    BY <1>1, <1>11, <1>a, <1>b, <2>2 DEF MarksInv
  <2>4. QED
    BY <1>1, <1>6, <1>7, <1>9, <2>1, <2>3 DEF FramerInv
<1>12. CASE tagStart' \in cursor .. cursor' - 1 /\ ByteAt(tagStart') = "<"
  <2>1. in[tagStart' + 1] = "<"
    <3>1. tagStart' \in base .. pushed - 1
      <4> DEFINE t == tagStart'
                 c == cursor'
      <4>1. t \in cursor .. c - 1
        BY <1>12, Zenon
      <4>2. c \in Nat /\ c <= pushed
        BY <1>4
      <4> HIDE DEF t, c
      <4>3. t \in base .. pushed - 1
        BY <1>3, <4>1, <4>2
      <4>4. QED
        BY <4>3 DEF t
    <3>2. PICK p \in base .. pushed - 1 : p = tagStart'
      BY <3>1, Zenon
    <3>3. ByteAt(p) = in[p + 1]
      BY BufferFacts
    <3>4. QED
      BY <1>12, <3>2, <3>3 DEF ByteAt
  <2>2. \A i \in 1 .. Len(ranges) : ranges[i].end <= tagStart'
    BY <1>3, <1>4, <1>8, <1>12
  <2>3. tagStart' < cursor' /\ \A n \in Nat : n < cursor => n < tagStart'
    <3> DEFINE t == tagStart'
               c == cursor'
    <3>1. t \in cursor .. c - 1
      BY <1>12, Zenon
    <3>2. c \in Nat
      BY <1>4
    <3> HIDE DEF t, c
    <3>3. t < c /\ \A n \in Nat : n < cursor => n < t
      BY <1>3, <3>1, <3>2
    <3>4. QED
      BY <3>3 DEF t, c
  <2>4. MarksInv'
    BY <1>1, <1>a, <1>b, <2>1, <2>2, <2>3 DEF MarksInv
  <2>5. NeededBytesKept'
    BY <1>1, <1>2, <1>3, <1>4, <1>12 DEF FramerInv, NeededBytesKept
  <2>6. QED
    BY <1>1, <1>6, <1>7, <1>9, <2>4, <2>5 DEF FramerInv
<1>13. QED
  BY <1>10, <1>11, <1>12

\* What follows `<`, byte by byte, as long as it opens no tag.
LEMMA OpenMarkupKeepsInv == FramerInv /\ OpenMarkup => FramerInv'
<1> SUFFICES ASSUME FramerInv, OpenMarkup PROVE FramerInv'
  OBVIOUS
<1>1. CASE Byte \notin DOMAIN Opening[cs]
  BY <1>1, RefuseKeepsInv DEF OpenMarkup
<1>2. CASE Byte \in DOMAIN Opening[cs]
  <2>1. /\ cs \in {"Lt", "Bang", "BangDash", "CdataMatch"}
        /\ cursor' = cursor + 1 /\ cs' = Opening[cs][Byte]
        /\ UNCHANGED <<doc, bufferVars, verdict, tag, elementVars, tagStart, finished, historyVars>>
    BY <1>2, StateNames DEF OpenMarkup, Advance, GoTo
  <2>2. Opening[cs][Byte] \in {"Pi", "Bang", "BangDash", "CdataMatch", "Comment", "Cdata"}
    BY <1>2, <2>1 DEF Opening
  <2>3. cursor' \in cursor .. pushed
    BY <2>1, BufferFacts DEF OpenMarkup, Running
  <2>4. tag' \in [isEnd : BOOLEAN, quote : Quotes \cup {NoQuote}, slash : BOOLEAN]
    BY <2>1 DEF FramerInv, TypeOK
  <2>5. cs \in OpeningStates
    BY <2>1 DEF OpeningStates
  <2>6. QED
    BY <2>1, <2>2, <2>3, <2>4, <2>5, StateNames, MoveKeepsInv
<1>3. QED
  BY <1>1, <1>2

\* The byte behind `<` that opens a tag.
LEMMA OpenTagKeepsInv == FramerInv /\ OpenTag => FramerInv'
<1> SUFFICES ASSUME FramerInv, OpenTag PROVE FramerInv'
  OBVIOUS
<1>1. /\ cs = "Lt" /\ cs' = "Tag" /\ cursor' = cursor + 1
      /\ tag' = [NoTag EXCEPT !.isEnd = (Byte = "/")]
      /\ UNCHANGED <<doc, bufferVars, verdict, elementVars, tagStart, finished, historyVars>>
  BY DEF OpenTag, OpensTag, Advance, GoTo
<1>2. cursor' \in cursor .. pushed
  BY <1>1, BufferFacts DEF OpenTag, Running
<1>3. tag' \in [isEnd : BOOLEAN, quote : Quotes \cup {NoQuote}, slash : BOOLEAN]
  BY <1>1 DEF NoTag
<1>4. cs \in OpeningStates
  BY <1>1 DEF OpeningStates
<1>5. QED
  BY <1>1, <1>2, <1>3, <1>4, MoveKeepsInv

\* A framer that has decided stays as it is.
LEMMA UnchangedKeepsInv == FramerInv /\ UNCHANGED vars => FramerInv'
<1> SUFFICES ASSUME FramerInv, UNCHANGED vars PROVE FramerInv'
  OBVIOUS
<1>1. /\ UNCHANGED <<doc, base, carry, cursor, cs, tag, depth, recordStart, skipDepth, nsFrom,
                     tagStart, finished, verdict, emitted, ranges>>
  BY DEF vars, bufferVars, elementVars, historyVars
<1>2. pushed' = pushed /\ Target' = Target
  BY <1>1 DEF pushed, Target
<1>3. TypeOK' /\ HistoryOK'
  BY <1>1, <1>2 DEF FramerInv, TypeOK, HistoryOK
<1>4. NeededBytesKept' /\ CountersAgree' /\ RecordsAreSlices' /\ MarksInv'
  BY <1>1, <1>2 DEF FramerInv, NeededBytesKept, CountersAgree, RecordsAreSlices, MarksInv
<1>5. QED
  BY <1>1, <1>3, <1>4 DEF FramerInv

-------------------------------------------------------------------------------
(***************************************************************************)
(* A tag is complete.  First what all its outcomes but a refusal share.    *)
(***************************************************************************)
LEMMA TagOutcomeKeepsInv ==
  ASSUME FramerInv, verdict = "open", ~finished, cs = "Tag",
         NEW end \in cursor + 1 .. pushed, Past(end),
         depth' \in Nat, skipDepth' \in Nat, finished' \in BOOLEAN, finished' <=> depth' = 0,
         recordStart' \in {recordStart, tagStart, NoPos}, nsFrom' \in {nsFrom, tagStart},
         CountersAgree',
         \/ UNCHANGED historyVars
         \/ /\ recordStart' = NoPos
            /\ Input(doc)[end] = ">"
            /\ \/ Emit(tagStart, end)
               \/ recordStart # NoPos /\ Emit(recordStart, end)
  PROVE  FramerInv'
<1> DEFINE in == Input(doc)
           Position == [start : 0 .. Len(in), end : 0 .. Len(in)]
<1>1. /\ UNCHANGED <<doc, base, carry, tag, tagStart, verdict>>
      /\ cursor' = end /\ cs' = "Text"
  BY DEF Past, GoTo, bufferVars
<1>2. pushed' = pushed /\ Target' = Target
  BY <1>1 DEF pushed, Target
<1>3. /\ base \in Nat /\ pushed \in Nat /\ cursor \in Nat
      /\ base <= cursor /\ cursor <= pushed /\ pushed <= Len(in) /\ Len(in) \in Nat
  BY BufferFacts, InputFacts DEF FramerInv
<1>4. /\ tagStart \in Nat /\ base <= tagStart /\ tagStart < cursor /\ in[tagStart + 1] = "<"
      /\ \A i \in 1 .. Len(ranges) : ranges[i].end <= tagStart
  BY DEF FramerInv, TypeOK, NeededBytesKept, MarksInv, OpeningStates
<1>5. recordStart # NoPos =>
        /\ recordStart \in Nat /\ base <= recordStart /\ recordStart < cursor
        /\ in[recordStart + 1] = "<"
        /\ \A i \in 1 .. Len(ranges) : ranges[i].end <= recordStart
  BY DEF FramerInv, TypeOK, NeededBytesKept, MarksInv
<1>6. TypeOK'
  <2>1. cursor' \in base' .. pushed'
    BY <1>1, <1>2, <1>3
  <2>2. {recordStart', nsFrom'} \subseteq 0 .. Len(in) \cup {NoPos}
    BY DEF FramerInv, TypeOK
  <2>3. QED
    BY <1>1, <1>2, <2>1, <2>2 DEF FramerInv, TypeOK
<1>7. /\ ranges \in Seq(Position) /\ emitted \in Seq(Seq(Symbols))
      /\ Len(ranges) \in Nat /\ Len(emitted) = Len(ranges)
      /\ \A i \in 1 .. Len(ranges) :
             /\ ranges[i].start \in Nat /\ ranges[i].end \in Nat /\ ranges[i].end <= cursor
  BY HistoryFacts
<1>8. \A i \in 1 .. Len(ranges) : ranges[i].end <= end
  <2>1. end \in Nat /\ cursor < end
    BY <1>3
  <2>2. \A x \in Nat : x <= cursor => x <= end
    BY <1>3, <2>1
  <2>3. QED
    BY <1>7, <2>2
<1>9. NeededBytesKept'
  BY <1>1, <1>2, <1>4, <1>5 DEF FramerInv, NeededBytesKept, OpeningStates, NoPos
<1>10. CASE UNCHANGED historyVars
  <2>1. emitted' = emitted /\ ranges' = ranges
    BY <1>10 DEF historyVars
  <2>2. RecordsAreSlices'
    <3>1. \A i \in 1 .. Len(ranges) : ranges[i].end <= cursor'
      BY <1>1, <1>8
    <3>2. QED
      BY <1>1, <2>1, <3>1 DEF FramerInv, RecordsAreSlices
  <2>3. MarksInv'
    <3>1. cs' \notin OpeningStates
      BY <1>1 DEF OpeningStates
    <3>2. ASSUME recordStart' # NoPos
          PROVE  /\ recordStart' \in Nat /\ recordStart' < cursor
                 /\ in[recordStart' + 1] = "<"
                 /\ \A i \in 1 .. Len(ranges) : ranges[i].end <= recordStart'
      <4>1. recordStart' = recordStart \/ recordStart' = tagStart
        BY <3>2
      <4>2. CASE recordStart' = recordStart
        BY <1>5, <3>2, <4>2
      <4>3. CASE recordStart' = tagStart
        BY <1>4, <4>3
      <4>4. QED
        BY <4>1, <4>2, <4>3
    <3>3. \A x \in Nat : x < cursor => x < cursor'
      BY <1>1, <1>3
    <3>4. QED
      BY <1>1, <2>1, <3>1, <3>2, <3>3 DEF MarksInv
  <2>4. HistoryOK'
    BY <1>1, <2>1 DEF FramerInv, HistoryOK
  <2>5. QED
    BY <1>1, <1>6, <1>9, <2>2, <2>3, <2>4 DEF FramerInv
<1>11. ASSUME NEW start \in Nat, Emit(start, end), recordStart' = NoPos, in[end] = ">",
              base <= start, start < cursor, in[start + 1] = "<",
              \A i \in 1 .. Len(ranges) : ranges[i].end <= start
       PROVE  FramerInv'
  <2> DEFINE r == [start |-> start, end |-> end]
             s == SubSeq(in, start + 1, end)
  <2>1. emitted' = Append(emitted, s) /\ s \in Seq(Symbols)
    <3>1. start \in base .. pushed /\ end \in base .. pushed /\ start <= end
      BY <1>3, <1>11
    <3>2. QED
      BY <1>11, <3>1, BufferFacts DEF Emit
  <2>2. ranges' = Append(ranges, r) /\ r \in Position
    BY <1>3, <1>11 DEF Emit
  <2>3. /\ emitted' \in Seq(Seq(Symbols)) /\ Len(emitted') = Len(emitted) + 1
        /\ \A i \in 1 .. Len(emitted) : emitted'[i] = emitted[i]
        /\ emitted'[Len(emitted) + 1] = s
    BY <1>7, <2>1, AppendProperties
  <2>4. /\ ranges' \in Seq(Position) /\ Len(ranges') = Len(ranges) + 1
        /\ \A i \in 1 .. Len(ranges) : ranges'[i] = ranges[i]
        /\ ranges'[Len(ranges) + 1] = r
    BY <1>7, <2>2, AppendProperties
  <2>5. HistoryOK'
    BY <1>1, <2>3, <2>4 DEF HistoryOK
  <2>6. ASSUME NEW i \in 1 .. Len(ranges')
        PROVE  /\ ranges'[i].start < ranges'[i].end
               /\ ranges'[i].end <= cursor'
               /\ in[ranges'[i].start + 1] = "<"
               /\ in[ranges'[i].end] = ">"
               /\ emitted'[i] = SubSeq(in, ranges'[i].start + 1, ranges'[i].end)
               /\ \A j \in 1 .. i - 1 : ranges'[j].end <= ranges'[i].start
    <3>1. CASE i = Len(ranges) + 1
      <4>1. ranges'[i] = r /\ emitted'[i] = s
        <5>1. ranges'[i] = r
          BY <2>4, <3>1
        <5>2. emitted'[i] = s
          BY <1>7, <2>3, <3>1
        <5>3. QED
          BY <5>1, <5>2
      <4>2. \A j \in 1 .. i - 1 : ranges'[j].end <= start
        <5>1. 1 .. i - 1 = 1 .. Len(ranges)
          BY <1>7, <3>1
        <5>2. QED
          BY <1>11, <2>4, <5>1
      <4>3. QED
        BY <1>1, <1>3, <1>11, <4>1, <4>2
    <3>2. CASE i \in 1 .. Len(ranges)
      <4>1. /\ ranges'[i] = ranges[i] /\ emitted'[i] = emitted[i]
            /\ \A j \in 1 .. i - 1 : ranges'[j] = ranges[j]
        <5>1. ranges'[i] = ranges[i]
          BY <2>4, <3>2
        <5>2. emitted'[i] = emitted[i]
          BY <1>7, <2>3, <3>2
        <5>3. 1 .. i - 1 \subseteq 1 .. Len(ranges)
          BY <1>7, <3>2
        <5>4. \A j \in 1 .. i - 1 : ranges'[j] = ranges[j]
          BY <2>4, <5>3
        <5>5. QED
          BY <5>1, <5>2, <5>4
      <4>2. /\ ranges[i].start < ranges[i].end
            /\ ranges[i].end <= cursor
            /\ in[ranges[i].start + 1] = "<"
            /\ in[ranges[i].end] = ">"
            /\ emitted[i] = SubSeq(in, ranges[i].start + 1, ranges[i].end)
            /\ \A j \in 1 .. i - 1 : ranges[j].end <= ranges[i].start
        BY <3>2 DEF FramerInv, RecordsAreSlices
      <4>3. ranges[i].end <= cursor'
        BY <1>1, <1>8, <3>2
      <4>4. QED
        BY <4>1, <4>2, <4>3
    <3>3. i \in 1 .. Len(ranges) \/ i = Len(ranges) + 1
      <4>1. Len(ranges) \in Nat /\ i \in 1 .. Len(ranges) + 1
        BY <1>7, <2>4
      <4>2. QED
        BY <4>1
    <3>4. QED
      BY <3>1, <3>2, <3>3
  <2>7. RecordsAreSlices'
    BY <1>1, <1>7, <2>3, <2>4, <2>6 DEF RecordsAreSlices
  <2>8. MarksInv'
    BY <1>1, <1>11 DEF MarksInv, OpeningStates
  <2>9. QED
    BY <1>1, <1>6, <1>9, <2>5, <2>7, <2>8 DEF FramerInv
<1>12. QED
  BY <1>4, <1>5, <1>10, <1>11

(***************************************************************************)
(* on_tag_complete, case by case.                                          *)
(***************************************************************************)
LEMMA TagCompleteKeepsInv ==
  ASSUME FramerInv, Running, cs = "Tag",
         NEW end \in cursor + 1 .. pushed, ByteAt(end - 1) = ">",
         NEW isEnd, NEW slash, OnTagComplete(isEnd, slash, end)
  PROVE  FramerInv'
<1>1. verdict = "open" /\ ~finished
  BY DEF Running
<1>2. /\ depth \in Nat \ {0} /\ skipDepth \in Nat /\ finished = FALSE
      /\ recordStart # NoPos <=> depth > Target
      /\ skipDepth > 0 => depth < Target
      /\ Target \in Nat \ {0}
  BY <1>1, InputFacts DEF FramerInv, TypeOK, CountersAgree
<1>3. Input(doc)[end] = ">"
  <2>1. end - 1 \in base .. pushed - 1 /\ (end - 1) + 1 = end
    BY BufferFacts
  <2>2. QED
    BY <2>1, BufferFacts
<1>4. ASSUME Past(end) PROVE Target' = Target
  BY <1>4 DEF Past, GoTo, Target
<1>5. CASE SkippedTag(isEnd, slash, end)
  <2>1. /\ Past(end) /\ UNCHANGED historyVars
        /\ UNCHANGED <<depth, recordStart, nsFrom, finished>>
        /\ skipDepth > 0 /\ skipDepth' \in {skipDepth - 1, skipDepth, skipDepth + 1}
    BY <1>5 DEF SkippedTag, NoRecord
  <2>2. CountersAgree' /\ skipDepth' \in Nat
    BY <1>2, <1>4, <2>1 DEF CountersAgree
  <2>3. QED
    BY <1>1, <1>2, <2>1, <2>2, TagOutcomeKeepsInv DEF FramerInv
<1>6. CASE RootEndTag(isEnd, slash, end)
  <2>1. CASE ~RootCloseOk
    BY <1>6, <2>1, RefuseKeepsInv DEF RootEndTag
  <2>2. CASE RootCloseOk
    <3>1. /\ Past(end) /\ UNCHANGED historyVars
          /\ UNCHANGED <<recordStart, skipDepth, nsFrom>>
          /\ skipDepth = 0 /\ depth = 1 /\ depth' = 0 /\ finished' = TRUE
      BY <1>6, <2>2 DEF RootEndTag, NoRecord
    <3>2. CountersAgree'
      BY <1>2, <1>4, <3>1 DEF CountersAgree
    <3>3. QED
      BY <1>1, <1>2, <3>1, <3>2, TagOutcomeKeepsInv
  <2>3. QED
    BY <2>1, <2>2
<1>7. CASE EndTag(isEnd, slash, end)
  <2>1. ~(depth - 1 = Target /\ recordStart = NoPos)
    BY <1>2
  <2>2. /\ Past(end) /\ UNCHANGED <<skipDepth, nsFrom, finished>>
        /\ skipDepth = 0 /\ depth > 1 /\ depth' = depth - 1
    BY <1>7, <2>1 DEF EndTag
  <2>3. CASE depth - 1 = Target
    <3>1. Emit(recordStart, end) /\ recordStart' = NoPos /\ recordStart # NoPos
      BY <1>7, <2>1, <2>3 DEF EndTag
    <3>2. CountersAgree'
      BY <1>2, <1>4, <2>2, <2>3, <3>1 DEF CountersAgree
    <3>3. depth' \in Nat /\ depth' # 0
      BY <1>2, <2>2
    <3>4. QED
      BY <1>1, <1>2, <1>3, <2>2, <3>1, <3>2, <3>3, TagOutcomeKeepsInv
  <2>4. CASE depth - 1 # Target
    <3>1. UNCHANGED historyVars /\ recordStart' = recordStart
      BY <1>7, <2>1, <2>4 DEF EndTag, NoRecord
    <3>2. CountersAgree'
      BY <1>2, <1>4, <2>2, <2>4, <3>1 DEF CountersAgree
    <3>3. depth' \in Nat /\ depth' # 0
      BY <1>2, <2>2
    <3>4. QED
      BY <1>1, <1>2, <2>2, <3>1, <3>2, <3>3, TagOutcomeKeepsInv
  <2>5. QED
    BY <2>3, <2>4
<1>8. CASE NestedStartTag(isEnd, slash, end)
  <2>1. /\ Past(end) /\ UNCHANGED historyVars
        /\ UNCHANGED <<recordStart, skipDepth, nsFrom, finished>>
        /\ recordStart # NoPos /\ skipDepth = 0 /\ depth' \in {depth, depth + 1}
    BY <1>8 DEF NestedStartTag, NoRecord
  <2>2. CountersAgree' /\ depth' \in Nat /\ depth' # 0
    BY <1>2, <1>4, <2>1 DEF CountersAgree
  <2>3. QED
    BY <1>1, <1>2, <2>1, <2>2, TagOutcomeKeepsInv
<1>9. CASE RecordStartTag(isEnd, slash, end)
  <2>1. /\ Past(end) /\ UNCHANGED <<skipDepth, nsFrom, finished>>
        /\ recordStart = NoPos /\ depth = Target /\ skipDepth = 0
    BY <1>9 DEF RecordStartTag
  <2>2. CASE slash
    <3>1. Emit(tagStart, end) /\ UNCHANGED <<depth, recordStart>>
      BY <1>9, <2>2 DEF RecordStartTag
    <3>2. CountersAgree'
      BY <1>2, <1>4, <2>1, <3>1 DEF CountersAgree
    <3>3. QED
      BY <1>1, <1>2, <1>3, <2>1, <3>1, <3>2, TagOutcomeKeepsInv
  <2>3. CASE ~slash
    <3>1. UNCHANGED historyVars /\ recordStart' = tagStart /\ depth' = depth + 1
      BY <1>9, <2>3 DEF RecordStartTag, NoRecord
    <3>2. tagStart # NoPos
      BY DEF FramerInv, TypeOK, NoPos
    <3>3. CountersAgree' /\ depth' \in Nat /\ depth' # 0
      BY <1>2, <1>4, <2>1, <3>1, <3>2 DEF CountersAgree
    <3>4. QED
      BY <1>1, <1>2, <2>1, <3>1, <3>3, TagOutcomeKeepsInv
  <2>4. QED
    BY <2>2, <2>3
<1>10. CASE DescentStartTag(isEnd, slash, end)
  <2>1. CASE ~AttrsOk(TagAttrs)
    BY <1>10, <2>1, RefuseKeepsInv DEF DescentStartTag
  <2>2. CASE AttrsOk(TagAttrs)
    <3>1. /\ Past(end) /\ UNCHANGED historyVars
          /\ UNCHANGED <<recordStart, skipDepth, finished>>
          /\ nsFrom' \in {nsFrom, tagStart} /\ depth' \in {depth, depth + 1}
          /\ recordStart = NoPos /\ depth < Target /\ skipDepth = 0
      BY <1>10, <2>2 DEF DescentStartTag, NoRecord
    <3>2. CountersAgree' /\ depth' \in Nat /\ depth' # 0
      BY <1>2, <1>4, <3>1 DEF CountersAgree
    <3>3. QED
      BY <1>1, <1>2, <3>1, <3>2, TagOutcomeKeepsInv
  <2>3. QED
    BY <2>1, <2>2
<1>11. CASE SiblingStartTag(isEnd, slash, end)
  <2>1. /\ Past(end) /\ UNCHANGED historyVars
        /\ UNCHANGED <<depth, recordStart, nsFrom, finished>>
        /\ depth < Target /\ recordStart = NoPos /\ skipDepth' \in {0, 1}
    BY <1>11 DEF SiblingStartTag, NoRecord
  <2>2. CountersAgree' /\ skipDepth' \in Nat
    BY <1>2, <1>4, <2>1 DEF CountersAgree
  <2>3. QED
    BY <1>1, <1>2, <2>1, <2>2, TagOutcomeKeepsInv
<1>12. QED
  BY <1>5, <1>6, <1>7, <1>8, <1>9, <1>10, <1>11 DEF OnTagComplete

-------------------------------------------------------------------------------
(***************************************************************************)
(* Compaction keeps the open record and the tag being read.                *)
(***************************************************************************)
LEMMA KeepFromFacts ==
  ASSUME FramerInv
  PROVE  /\ KeepFrom \in base .. cursor
         /\ recordStart # NoPos => KeepFrom <= recordStart
         /\ cs \in OpeningStates => KeepFrom <= tagStart
<1>1. /\ base \in Nat /\ cursor \in Nat /\ base <= cursor
  BY BufferFacts
<1>2. cs \in OpeningStates =>
        tagStart \in Nat /\ base <= tagStart /\ tagStart < cursor
  BY DEF FramerInv, TypeOK, NeededBytesKept, MarksInv
<1>3. recordStart # NoPos =>
        /\ recordStart \in Nat /\ base <= recordStart /\ recordStart < cursor
  BY DEF FramerInv, TypeOK, NeededBytesKept, MarksInv
<1>4. CASE recordStart # NoPos
  <2>1. KeepFrom = recordStart
    BY <1>4 DEF KeepFrom
  <2>2. cs \in OpeningStates => recordStart <= tagStart
    BY <1>2, <1>3, <1>4 DEF FramerInv, MarksInv
  <2>3. QED
    BY <1>1, <1>3, <1>4, <2>1, <2>2
<1>5. CASE recordStart = NoPos /\ (cs = "Text" \/ cs \in SpanStates)
  BY <1>1, <1>5, StateNames DEF KeepFrom, OpeningStates
<1>6. CASE recordStart = NoPos /\ ~(cs = "Text" \/ cs \in SpanStates)
  <2>1. cs \in OpeningStates
    BY <1>6, StateNames DEF FramerInv, TypeOK, OpeningStates
  <2>2. QED
    BY <1>1, <1>2, <1>6, <2>1 DEF KeepFrom
<1>7. QED
  BY <1>4, <1>5, <1>6

(***************************************************************************)
(* A read appends the next bytes of the input to what compaction left.     *)
(***************************************************************************)
LEMMA RefillKeepsInv ==
  ASSUME FramerInv, NEW n \in Nat, Refill(n)
  PROVE  FramerInv'
<1> DEFINE in == Input(doc)
<1>1. /\ UNCHANGED <<doc, cursor, cs, tag, depth, recordStart, skipDepth, nsFrom, tagStart,
                     finished, verdict, emitted, ranges>>
      /\ base' = KeepFrom
      /\ carry' = Slice(KeepFrom, pushed) \o SubSeq(in, pushed + 1, pushed + n)
      /\ pushed + n <= Len(in)
  BY DEF Refill, elementVars, historyVars
<1>2. /\ base \in Nat /\ pushed \in Nat /\ cursor \in Nat
      /\ base <= cursor /\ cursor <= pushed /\ pushed <= Len(in) /\ Len(in) \in Nat
      /\ in \in Seq(Symbols)
  BY BufferFacts, InputFacts DEF FramerInv
<1>3. /\ KeepFrom \in Nat /\ base <= KeepFrom /\ KeepFrom <= cursor
      /\ recordStart # NoPos => KeepFrom <= recordStart
      /\ cs \in OpeningStates => KeepFrom <= tagStart
  BY <1>2, KeepFromFacts
<1>4. Slice(KeepFrom, pushed) = SubSeq(in, KeepFrom + 1, pushed)
  <2>1. KeepFrom \in base .. pushed /\ pushed \in base .. pushed /\ KeepFrom <= pushed
    BY <1>2, <1>3
  <2>2. QED
    BY <2>1, BufferFacts DEF Slice
<1>5. /\ carry' = SubSeq(in, KeepFrom + 1, pushed + n)
      /\ Len(carry') = pushed + n - KeepFrom
  <2>1. PICK k \in Nat : k = KeepFrom
    BY <1>3, Zenon
  <2>2. k \in Nat /\ k <= pushed /\ carry' = SubSeq(in, k + 1, pushed) \o SubSeq(in, pushed + 1, pushed + n)
    BY <1>1, <1>2, <1>3, <1>4, <2>1
  <2>3. /\ SubSeq(in, k + 1, pushed) \o SubSeq(in, pushed + 1, pushed + n)
             = SubSeq(in, k + 1, pushed + n)
        /\ Len(SubSeq(in, k + 1, pushed + n)) = pushed + n - k
    BY <1>1, <1>2, <2>2, SliceThenSlice
  <2>4. QED
    BY <2>1, <2>2, <2>3
<1>7. pushed' = pushed + n
  BY <1>1, <1>2, <1>3, <1>5 DEF pushed
<1>8. Target' = Target
  BY <1>1 DEF Target
<1>9. TypeOK'
  BY <1>1, <1>2, <1>3, <1>7 DEF FramerInv, TypeOK
<1>10. NeededBytesKept'
  BY <1>1, <1>3, <1>5, <1>7 DEF NeededBytesKept
<1>11. HistoryOK' /\ CountersAgree' /\ RecordsAreSlices' /\ MarksInv'
  BY <1>1, <1>8 DEF FramerInv, HistoryOK, CountersAgree, RecordsAreSlices, MarksInv
<1>12. QED
  BY <1>1, <1>9, <1>10, <1>11 DEF FramerInv

(***************************************************************************)
(* The source is at its end: a read of no bytes, and the verdict.          *)
(***************************************************************************)
LEMMA FinishKeepsInv == FramerInv /\ Finish => FramerInv'
<1> SUFFICES ASSUME FramerInv, Finish PROVE FramerInv'
  OBVIOUS
<1> DEFINE in == Input(doc)
<1>1. /\ UNCHANGED <<doc, cursor, cs, tag, depth, recordStart, skipDepth, nsFrom, tagStart,
                     finished, emitted, ranges>>
      /\ base' = KeepFrom
      /\ carry' = Slice(KeepFrom, pushed)
      /\ verdict' \in {"closed", "malformed"}
  BY DEF Finish, elementVars, historyVars
<1>2. /\ base \in Nat /\ pushed \in Nat /\ cursor \in Nat
      /\ base <= cursor /\ cursor <= pushed /\ pushed <= Len(in) /\ Len(in) \in Nat
      /\ in \in Seq(Symbols)
  BY BufferFacts, InputFacts DEF FramerInv
<1>3. /\ KeepFrom \in Nat /\ base <= KeepFrom /\ KeepFrom <= cursor
      /\ recordStart # NoPos => KeepFrom <= recordStart
      /\ cs \in OpeningStates => KeepFrom <= tagStart
  BY <1>2, KeepFromFacts
<1>4. carry' = SubSeq(in, KeepFrom + 1, pushed)
  <2>1. KeepFrom \in base .. pushed /\ pushed \in base .. pushed /\ KeepFrom <= pushed
    BY <1>2, <1>3
  <2>2. QED
    BY <1>1, <2>1, BufferFacts DEF Slice
<1>5. Len(carry') = pushed - KeepFrom
  BY <1>2, <1>3, <1>4, SubSeqProperties, ElementOfSeq
<1>6. pushed' = pushed
  BY <1>1, <1>2, <1>3, <1>5 DEF pushed
<1>7. Target' = Target
  BY <1>1 DEF Target
<1>8. TypeOK'
  BY <1>1, <1>2, <1>3, <1>6 DEF FramerInv, TypeOK
<1>9. NeededBytesKept'
  BY <1>1, <1>3, <1>4, <1>6 DEF NeededBytesKept
<1>10. HistoryOK' /\ CountersAgree' /\ RecordsAreSlices' /\ MarksInv'
  BY <1>1, <1>7 DEF FramerInv, HistoryOK, CountersAgree, RecordsAreSlices, MarksInv
<1>11. QED
  BY <1>1, <1>8, <1>9, <1>10 DEF FramerInv

-------------------------------------------------------------------------------
(***************************************************************************)
(* A span's states lead to one another, and out of it to text.             *)
(***************************************************************************)
LEMMA SpanNextFacts ==
  ASSUME NEW s \in Spans, NEW k \in DOMAIN s.seen, NEW x
  PROVE  SpanNext(s, k, x) \in SpanStates \cup {"Text"}
<1>1. /\ s.seen[k] \in SpanStates
      /\ s.seen[1] \in SpanStates
      /\ k # Len(s.seen) => s.seen[k + 1] \in SpanStates /\ k < Len(s.seen)
      /\ k \in Nat /\ Len(s.seen) \in Nat
  <2>1. CASE s.seen = <<"Comment", "CommentDash", "CommentDashDash">>
    BY <2>1, StateNames
  <2>2. CASE s.seen = <<"Cdata", "CdataBracket", "CdataBracket2">>
    BY <2>2, StateNames
  <2>3. CASE s.seen = <<"Pi", "PiQ">>
    BY <2>3, StateNames
  <2>4. \/ s.seen = <<"Comment", "CommentDash", "CommentDashDash">>
        \/ s.seen = <<"Cdata", "CdataBracket", "CdataBracket2">>
        \/ s.seen = <<"Pi", "PiQ">>
    BY DEF Spans
  <2>5. QED
    BY <2>1, <2>2, <2>3, <2>4
<1>2. CASE k = Len(s.seen) /\ x = ">"
  <2>1. s.mark # ">"
    BY DEF Spans
  <2>2. QED
    BY <1>2, <2>1 DEF SpanNext
<1>3. CASE ~(k = Len(s.seen) /\ x = ">") /\ x = s.mark
  BY <1>1, <1>3 DEF SpanNext
<1>4. CASE ~(k = Len(s.seen) /\ x = ">") /\ x # s.mark
  BY <1>1, <1>4 DEF SpanNext
<1>5. QED
  BY <1>2, <1>3, <1>4

\* A byte of text.
LEMMA TextKeepsInv == FramerInv /\ Text => FramerInv'
<1> SUFFICES ASSUME FramerInv, Text PROVE FramerInv'
  OBVIOUS
<1>1. /\ cursor \in Nat /\ pushed \in Nat /\ cursor < pushed
      /\ tag \in [isEnd : BOOLEAN, quote : Quotes \cup {NoQuote}, slash : BOOLEAN]
  BY BufferFacts DEF Text, Running, FramerInv, TypeOK
<1>2. CASE Byte = "<"
  <2>1. /\ tagStart' = cursor /\ cursor' = cursor + 1 /\ cs' = "Lt" /\ tag' = tag
        /\ UNCHANGED <<doc, bufferVars, elementVars, finished, verdict, historyVars>>
    BY <1>2 DEF Text, Advance, GoTo
  <2>2. tagStart' \in cursor .. cursor' - 1 /\ cursor' \in cursor .. pushed
    BY <1>1, <2>1
  <2>3. ByteAt(tagStart') = "<"
    BY <1>2, <2>1 DEF Byte, ByteAt
  <2>4. QED
    BY <1>1, <2>1, <2>2, <2>3, StateNames, MoveKeepsInv
<1>3. CASE Byte # "<" /\ TextAllowed(cursor, cursor + 1)
  <2>1. /\ cursor' = cursor + 1 /\ cs' = "Text" /\ tag' = tag /\ tagStart' = tagStart
        /\ UNCHANGED <<doc, bufferVars, elementVars, finished, verdict, historyVars>>
    BY <1>3 DEF Text, Advance, GoTo
  <2>2. cursor' \in cursor .. pushed
    BY <1>1, <2>1
  <2>3. "Text" \notin OpeningStates
    BY DEF OpeningStates
  <2>4. QED
    BY <1>1, <2>1, <2>2, <2>3, MoveKeepsInv
<1>4. CASE Byte # "<" /\ ~TextAllowed(cursor, cursor + 1)
  BY <1>4, RefuseKeepsInv DEF Text
<1>5. QED
  BY <1>2, <1>3, <1>4

\* A byte of a comment, a CDATA section or a PI.
LEMMA SkipSpanKeepsInv == FramerInv /\ SkipSpan => FramerInv'
<1> SUFFICES ASSUME FramerInv, SkipSpan PROVE FramerInv'
  OBVIOUS
<1>1. /\ cursor \in Nat /\ pushed \in Nat /\ cursor < pushed
      /\ tag \in [isEnd : BOOLEAN, quote : Quotes \cup {NoQuote}, slash : BOOLEAN]
  BY BufferFacts DEF SkipSpan, Running, FramerInv, TypeOK
<1>2. PICK s \in Spans : \E k \in DOMAIN s.seen : Advance(SpanNext(s, k, Byte))
  BY DEF SkipSpan
<1>3. PICK k \in DOMAIN s.seen : Advance(SpanNext(s, k, Byte))
  BY <1>2
<1>4. /\ cursor' = cursor + 1 /\ cs' = SpanNext(s, k, Byte) /\ tag' = tag /\ tagStart' = tagStart
      /\ UNCHANGED <<doc, bufferVars, elementVars, finished, verdict, historyVars>>
  BY <1>3 DEF SkipSpan, Advance, GoTo
<1>5. cs' \in SpanStates \cup {"Text"}
  BY <1>4, SpanNextFacts
<1>6. cs' \notin OpeningStates
  BY <1>5, StateNames DEF OpeningStates
<1>7. cursor' \in cursor .. pushed
  BY <1>1, <1>4
<1>8. QED
  BY <1>1, <1>4, <1>5, <1>6, <1>7, MoveKeepsInv

\* A byte of a tag that does not end it.
LEMMA TagByteKeepsInv == FramerInv /\ TagByte => FramerInv'
<1> SUFFICES ASSUME FramerInv, TagByte PROVE FramerInv'
  OBVIOUS
<1>1. /\ cursor \in Nat /\ pushed \in Nat /\ cursor < pushed /\ cs = "Tag"
      /\ tag \in [isEnd : BOOLEAN, quote : Quotes \cup {NoQuote}, slash : BOOLEAN]
  BY BufferFacts DEF TagByte, Running, FramerInv, TypeOK
<1>2. /\ cursor' = cursor + 1 /\ cs' = "Tag" /\ tagStart' = tagStart
      /\ UNCHANGED <<doc, bufferVars, elementVars, finished, verdict, historyVars>>
  BY DEF TagByte, Advance, GoTo
<1>3. \/ tag' = tag \/ tag' = [tag EXCEPT !.quote = NoQuote]
      \/ Byte \in Quotes /\ tag' = [tag EXCEPT !.quote = Byte, !.slash = FALSE]
      \/ tag' = [tag EXCEPT !.slash = (Byte = "/")]
  BY DEF TagByte
<1>4. tag' \in [isEnd : BOOLEAN, quote : Quotes \cup {NoQuote}, slash : BOOLEAN]
  BY <1>1, <1>3
<1>5. cursor' \in cursor .. pushed
  BY <1>1, <1>2
<1>6. cs \in OpeningStates
  BY <1>1 DEF OpeningStates
<1>7. QED
  BY <1>2, <1>4, <1>5, <1>6, MoveKeepsInv

\* The byte that completes a tag.
LEMMA TagEndsKeepsInv == FramerInv /\ TagEnds => FramerInv'
<1> SUFFICES ASSUME FramerInv, TagEnds PROVE FramerInv'
  OBVIOUS
<1>1. cursor \in Nat /\ pushed \in Nat /\ cursor < pushed
  BY BufferFacts DEF TagEnds, Running
<1>2. cursor + 1 \in cursor + 1 .. pushed /\ (cursor + 1) - 1 = cursor
  BY <1>1
<1>3. ByteAt((cursor + 1) - 1) = ">"
  BY <1>2 DEF TagEnds, EndsTag, Byte
<1>4. QED
  BY <1>2, <1>3, TagCompleteKeepsInv DEF TagEnds

-------------------------------------------------------------------------------
\* Every step of the default lexer keeps the invariant.
LEMMA FramerInvStep == FramerInv /\ [Next]_vars => FramerInv'
<1> SUFFICES ASSUME FramerInv, [Next]_vars PROVE FramerInv'
  OBVIOUS
<1>1. CASE NextRecord
  BY <1>1, TextKeepsInv, OpenMarkupKeepsInv, OpenTagKeepsInv, SkipSpanKeepsInv,
     TagByteKeepsInv, TagEndsKeepsInv DEF NextRecord
<1>2. ASSUME NEW n \in 1 .. MaxChunk, Refill(n) PROVE FramerInv'
  BY <1>2, RefillKeepsInv, ChunkAssumption
<1>3. CASE Finish
  BY <1>3, FinishKeepsInv
<1>4. CASE UNCHANGED vars
  BY <1>4, UnchangedKeepsInv
<1>5. QED
  BY <1>1, <1>2, <1>3, <1>4 DEF Next, Decided

(***************************************************************************)
(* The invariant of the default build's framer.                            *)
(***************************************************************************)
THEOREM FramerInvariant == Spec => []FramerInv
<1>1. Init => FramerInv
  BY InitFramerInv
<1>2. FramerInv /\ [Next]_vars => FramerInv'
  BY FramerInvStep
<1>3. QED
  BY <1>1, <1>2, PTL DEF Spec

(***************************************************************************)
(* Positions stay inside the input and depths are counts: none of the      *)
(* unsigned subtractions of the byte loop wraps.                           *)
(***************************************************************************)
THEOREM FramerTypes == Spec => []TypeOK
<1>1. FramerInv => TypeOK
  BY DEF FramerInv
<1>2. QED
  BY <1>1, FramerInvariant, PTL

(***************************************************************************)
(* compact never drops a byte that is still needed, whatever the reads.    *)
(***************************************************************************)
THEOREM CompactionIsSafe == Spec => []NeededBytesKept
<1>1. FramerInv => NeededBytesKept
  BY DEF FramerInv
<1>2. QED
  BY <1>1, FramerInvariant, PTL

(***************************************************************************)
(* A record is open exactly below the container, and siblings are skipped  *)
(* above it only.                                                          *)
(***************************************************************************)
THEOREM CountersAlwaysAgree == Spec => []CountersAgree
<1>1. FramerInv => CountersAgree
  BY DEF FramerInv
<1>2. QED
  BY <1>1, FramerInvariant, PTL

(***************************************************************************)
(* Records come out whole and unchanged, in order and without overlap.     *)
(***************************************************************************)
THEOREM RecordsComeOutWhole == Spec => []RecordsAreSlices
<1>1. FramerInv => RecordsAreSlices
  BY DEF FramerInv
<1>2. QED
  BY <1>1, FramerInvariant, PTL

-------------------------------------------------------------------------------
TagFields == [isEnd : BOOLEAN, quote : Quotes \cup {NoQuote}, slash : BOOLEAN]

(***************************************************************************)
(* memchr: the first of the wanted bytes, and none of them before it.      *)
(***************************************************************************)
LEMMA NextOfFacts ==
  ASSUME FramerInv, NEW B, NextOf(B) # NoPos
  PROVE  /\ NextOf(B) \in cursor .. pushed - 1
         /\ ByteAt(NextOf(B)) \in B
         /\ \A p \in cursor .. NextOf(B) - 1 : ByteAt(p) \notin B
<1> DEFINE at == {p \in cursor .. pushed - 1 : ByteAt(p) \in B}
<1>1. cursor \in Nat /\ pushed \in Nat
  BY BufferFacts
<1>2. at # {} /\ NextOf(B) = Min(at)
  BY DEF NextOf
<1>3. at \subseteq Nat
  BY <1>1
<1>4. Min(at) \in at /\ \A y \in at : Min(at) <= y
  BY <1>2, <1>3, MinIsLeast
<1>5. PICK m \in at : m = Min(at) /\ \A y \in at : m <= y
  BY <1>4
<1>6. m \in cursor .. pushed - 1 /\ ByteAt(m) \in B /\ NextOf(B) = m
  BY <1>2, <1>5
<1>7. ASSUME NEW p \in cursor .. m - 1, ByteAt(p) \in B PROVE FALSE
  <2>1. p \in at /\ p < m
    BY <1>1, <1>6, <1>7
  <2>2. QED
    BY <1>1, <1>3, <1>5, <2>1
<1>8. ByteAt(NextOf(B)) \in B
  BY <1>6 DEF ByteAt
<1>9. QED
  BY <1>6, <1>7, <1>8

(***************************************************************************)
(* skip_to: where a span ends, or where to look for its end next.          *)
(***************************************************************************)
LEMMA NeedleFacts ==
  ASSUME NEW state \in DOMAIN Needles
  PROVE  /\ Needles[state] \in Seq(Symbols)
         /\ Len(Needles[state]) \in {2, 3}
         /\ state \in SpanStates
<1>1. Needles[state] \in {<<"-", "-", ">">>, <<"]", "]", ">">>, <<"?", ">">>}
  BY DEF Needles
<1>2. {"-", "]", "?", ">"} \subseteq Symbols
  BY DEF Symbols
<1>3. state \in {"Comment", "Cdata", "Pi"}
  BY DEF Needles
<1>4. <<"-", "-", ">">> \in Seq(Symbols) /\ <<"]", "]", ">">> \in Seq(Symbols)
      /\ <<"?", ">">> \in Seq(Symbols)
  BY <1>2
<1>5. QED
  BY <1>1, <1>3, <1>4, StateNames

\* Where a span ends is behind the cursor and in the buffer.
LEMMA SpanEndFacts ==
  ASSUME FramerInv, InSpan, SpanEnd # NoPos
  PROVE  SpanEnd \in cursor + 1 .. pushed
<1> DEFINE needle == Needles[cs]
           from == cursor - base + 1
           past == PastFirst(carry, from, needle)
<1>1. /\ base \in Nat /\ pushed \in Nat /\ cursor \in Nat /\ base <= cursor
      /\ carry \in Seq(Symbols) /\ Len(carry) = pushed - base
  BY BufferFacts
<1>2. needle \in Seq(Symbols) /\ Len(needle) \in {2, 3}
  BY NeedleFacts DEF InSpan
<1>3. past # Nowhere /\ SpanEnd = base + past - 1
  BY DEF SpanEnd
<1>4. from \in Nat \ {0}
  BY <1>1
<1> HIDE DEF from, needle
<1>5. past \in from + Len(needle) .. Len(carry) + 1
  BY <1>1, <1>2, <1>3, <1>4, PastFirstFacts
<1>6. PICK n \in {2, 3} : n = Len(needle)
  BY <1>2
<1>7. PICK k \in cursor - base + 1 + n .. Len(carry) + 1 : SpanEnd = base + k - 1
  BY <1>3, <1>5, <1>6 DEF from
<1>8. QED
  BY <1>1, <1>7

\* skip_to leaves the cursor so far from the end that a cut terminator fits.
LEMMA SpanResumeFacts ==
  ASSUME FramerInv, InSpan
  PROVE  /\ SpanResume \in cursor .. pushed
         /\ SpanResume = IF cursor >= pushed - Len(Needles[cs]) + 1 THEN cursor
                         ELSE pushed - Len(Needles[cs]) + 1
<1>1. /\ pushed \in Nat /\ cursor \in Nat /\ cursor <= pushed
  BY BufferFacts
<1>2. PICK n \in {2, 3} : n = Len(Needles[cs])
  BY NeedleFacts DEF InSpan
<1>3. Max({cursor, pushed - n + 1}) = IF cursor >= pushed - n + 1 THEN cursor ELSE pushed - n + 1
  <2>1. cursor \in Int /\ pushed - n + 1 \in Int
    BY <1>1, <1>2
  <2>2. QED
    BY <2>1, MaxOfTwo, Zenon
<1>4. SpanResume = IF cursor >= pushed - n + 1 THEN cursor ELSE pushed - n + 1
  BY <1>2, <1>3 DEF SpanResume
<1>5. SpanResume \in cursor .. pushed
  BY <1>1, <1>4
<1>6. QED
  BY <1>2, <1>4, <1>5

-------------------------------------------------------------------------------
\* A jump to the next `<`.
LEMMA JumpTextKeepsInv == FramerInv /\ JumpText => FramerInv'
<1> SUFFICES ASSUME FramerInv, JumpText PROVE FramerInv'
  OBVIOUS
<1>1. /\ cursor \in Nat /\ pushed \in Nat /\ cursor < pushed
      /\ tag \in TagFields
  BY BufferFacts DEF JumpText, Running, FramerInv, TypeOK, TagFields
<1>2. CASE Refuse
  BY <1>2, RefuseKeepsInv
<1>3. CASE ~Refuse /\ NextOf({"<"}) = NoPos
  <2>1. /\ cursor' = pushed /\ cs' = "Text" /\ tag' = tag /\ tagStart' = tagStart
        /\ UNCHANGED <<doc, bufferVars, elementVars, finished, verdict, historyVars>>
    BY <1>3 DEF JumpText, GoTo
  <2>2. cursor' \in cursor .. pushed
    BY <1>1, <2>1
  <2>3. "Text" \notin OpeningStates
    BY DEF OpeningStates
  <2>4. QED
    BY <1>1, <2>1, <2>2, <2>3, MoveKeepsInv DEF TagFields
<1>4. CASE ~Refuse /\ NextOf({"<"}) # NoPos
  <2>1. /\ cursor' = NextOf({"<"}) + 1 /\ cs' = "Lt" /\ tag' = tag /\ tagStart' = NextOf({"<"})
        /\ UNCHANGED <<doc, bufferVars, elementVars, finished, verdict, historyVars>>
    BY <1>4 DEF JumpText, GoTo
  <2>2. PICK p \in cursor .. pushed - 1 : p = NextOf({"<"}) /\ ByteAt(p) = "<"
    BY <1>4, NextOfFacts DEF ByteAt
  <2>3. tagStart' \in cursor .. cursor' - 1 /\ cursor' \in cursor .. pushed
    BY <1>1, <2>1, <2>2
  <2>4. ByteAt(tagStart') = "<"
    BY <2>1, <2>2 DEF ByteAt
  <2>5. QED
    BY <1>1, <2>1, <2>3, <2>4, StateNames, MoveKeepsInv DEF TagFields
<1>5. QED
  BY <1>2, <1>3, <1>4

\* A jump to the end of a span, or as far as it may go.
LEMMA SpanKeepsInv == FramerInv /\ Span => FramerInv'
<1> SUFFICES ASSUME FramerInv, Span PROVE FramerInv'
  OBVIOUS
<1>1. /\ cursor \in Nat /\ pushed \in Nat /\ InSpan /\ cs \in SpanStates
      /\ tag \in TagFields
  BY BufferFacts, NeedleFacts DEF Span, InSpan, FramerInv, TypeOK, TagFields
<1>2. /\ cs' \in {cs, "Text"} /\ tag' = tag /\ tagStart' = tagStart
      /\ cursor' = SpanResume \/ (SpanEnd # NoPos /\ cursor' = SpanEnd)
      /\ UNCHANGED <<doc, bufferVars, elementVars, finished, verdict, historyVars>>
  BY DEF Span, GoTo
<1>3. cursor' \in cursor .. pushed
  BY <1>1, <1>2, SpanEndFacts, SpanResumeFacts
<1>4. cs' \notin OpeningStates /\ cs' \in SpanStates \cup {"Text"}
  BY <1>1, <1>2, StateNames DEF OpeningStates
<1>5. QED
  BY <1>1, <1>2, <1>3, <1>4, MoveKeepsInv DEF TagFields

\* A jump to the closing quote.
LEMMA QuotedValueKeepsInv == FramerInv /\ QuotedValue => FramerInv'
<1> SUFFICES ASSUME FramerInv, QuotedValue PROVE FramerInv'
  OBVIOUS
<1> DEFINE close == NextOf({tag.quote})
<1>1. /\ cursor \in Nat /\ pushed \in Nat /\ cursor < pushed /\ cs = "Tag"
      /\ tag \in TagFields
  BY BufferFacts DEF QuotedValue, InTag, Running, FramerInv, TypeOK, TagFields
<1>2. /\ cs' = "Tag" /\ tagStart' = tagStart
      /\ tag' \in {tag, [tag EXCEPT !.quote = NoQuote]}
      /\ \/ cursor' = pushed
         \/ close # NoPos /\ cursor' = close + 1
      /\ UNCHANGED <<doc, bufferVars, elementVars, finished, verdict, historyVars>>
  BY DEF QuotedValue, GoTo
<1>3. close # NoPos => close \in cursor .. pushed - 1
  BY NextOfFacts
<1>4. cursor' \in cursor .. pushed
  BY <1>1, <1>2, <1>3
<1>5. tag' \in TagFields
  BY <1>1, <1>2 DEF TagFields
<1>6. cs \in OpeningStates
  BY <1>1 DEF OpeningStates
<1>7. QED
  BY <1>2, <1>4, <1>5, <1>6, MoveKeepsInv DEF TagFields

\* A jump inside a tag that does not end it.
LEMMA TagGoesOnKeepsInv == FramerInv /\ TagGoesOn => FramerInv'
<1> SUFFICES ASSUME FramerInv, TagGoesOn PROVE FramerInv'
  OBVIOUS
<1>1. /\ cursor \in Nat /\ pushed \in Nat /\ cursor < pushed /\ cs = "Tag"
      /\ tag \in TagFields
  BY BufferFacts DEF TagGoesOn, InTag, Running, FramerInv, TypeOK, TagFields
<1>2. /\ cs' = "Tag" /\ tagStart' = tagStart
      /\ \/ cursor' = pushed /\ tag' = tag
         \/ /\ TagStop # NoPos /\ cursor' = TagStop + 1
            /\ ByteAt(TagStop) # ">" /\ tag' = [tag EXCEPT !.quote = ByteAt(TagStop)]
      /\ UNCHANGED <<doc, bufferVars, elementVars, finished, verdict, historyVars>>
  BY DEF TagGoesOn, GoTo
<1>3. TagStop # NoPos => TagStop \in cursor .. pushed - 1 /\ ByteAt(TagStop) \in {">"} \cup Quotes
  BY NextOfFacts DEF TagStop, ByteAt
<1>4. cursor' \in cursor .. pushed
  BY <1>1, <1>2, <1>3
<1>5. tag' \in TagFields
  BY <1>1, <1>2, <1>3 DEF TagFields
<1>6. cs \in OpeningStates
  BY <1>1 DEF OpeningStates
<1>7. QED
  BY <1>2, <1>4, <1>5, <1>6, MoveKeepsInv DEF TagFields

\* A jump to the `>` that completes a tag.
LEMMA JumpTagEndsKeepsInv == FramerInv /\ JumpTagEnds => FramerInv'
<1> SUFFICES ASSUME FramerInv, JumpTagEnds PROVE FramerInv'
  OBVIOUS
<1>1. cursor \in Nat /\ pushed \in Nat
  BY BufferFacts
<1>2. TagStop # NoPos /\ ByteAt(TagStop) = ">"
  BY DEF JumpTagEnds
<1>3. PICK p \in cursor .. pushed - 1 : p = TagStop
  BY <1>2, NextOfFacts DEF TagStop
<1>4. p + 1 \in cursor + 1 .. pushed /\ (p + 1) - 1 = p
  BY <1>1
<1>5. ByteAt((p + 1) - 1) = ">"
  BY <1>2, <1>3, <1>4 DEF ByteAt
<1>6. PICK slash \in BOOLEAN : OnTagComplete(tag.isEnd, slash, p + 1)
  BY <1>3 DEF JumpTagEnds
<1>7. QED
  BY <1>4, <1>5, <1>6, TagCompleteKeepsInv DEF JumpTagEnds, InTag

-------------------------------------------------------------------------------
\* Every step of the jumping lexer keeps the invariant.
LEMMA JumpFramerInvStep == FramerInv /\ [JumpNext]_vars => FramerInv'
<1> SUFFICES ASSUME FramerInv, [JumpNext]_vars PROVE FramerInv'
  OBVIOUS
<1>1. CASE JumpNextRecord
  BY <1>1, JumpTextKeepsInv, OpenMarkupKeepsInv, OpenTagKeepsInv, SpanKeepsInv,
     QuotedValueKeepsInv, TagGoesOnKeepsInv, JumpTagEndsKeepsInv DEF JumpNextRecord
<1>2. ASSUME NEW n \in 1 .. MaxChunk, Refill(n) PROVE FramerInv'
  BY <1>2, RefillKeepsInv, ChunkAssumption
<1>3. CASE Finish
  BY <1>3, FinishKeepsInv
<1>4. CASE UNCHANGED vars
  BY <1>4, UnchangedKeepsInv
<1>5. QED
  BY <1>1, <1>2, <1>3, <1>4 DEF JumpNext, Decided

(***************************************************************************)
(* The invariant of the jumping framer, which implies TypeOK,              *)
(* NeededBytesKept, CountersAgree and RecordsAreSlices as for the other.   *)
(***************************************************************************)
THEOREM JumpFramerInvariant == JumpSpec => []FramerInv
<1>1. Init => FramerInv
  BY InitFramerInv
<1>2. FramerInv /\ [JumpNext]_vars => FramerInv'
  BY JumpFramerInvStep
<1>3. QED
  BY <1>1, <1>2, PTL DEF JumpSpec

\* The jumping lexer never leaves `carry`, keeps what it needs of it, counts as the
\* document nests, and cuts each record out as one piece of the document.
THEOREM JumpsAreSafe ==
  JumpSpec => [](TypeOK /\ NeededBytesKept /\ CountersAgree /\ RecordsAreSlices)
<1>1. FramerInv => TypeOK /\ NeededBytesKept /\ CountersAgree /\ RecordsAreSlices
  BY DEF FramerInv
<1>2. QED
  BY <1>1, JumpFramerInvariant, PTL

-------------------------------------------------------------------------------
(***************************************************************************)
(* A needle that starts in the input where all of it would be in `carry`   *)
(* starts there in `carry` as well.                                        *)
(***************************************************************************)
LEMMA NeedleInCarry ==
  ASSUME FramerInv, NEW p \in base .. pushed, NEW needle \in Seq(Symbols), Len(needle) > 0,
         p + Len(needle) <= pushed, StartsAt(Input(doc), p + 1, needle)
  PROVE  StartsAt(carry, p - base + 1, needle)
<1> DEFINE in == Input(doc)
           n == Len(needle)
           i == p - base + 1
           inRest == SubSeq(in, p + 1, Len(in))
           rest == SubSeq(carry, i, Len(carry))
<1>1. /\ base \in Nat /\ pushed \in Nat /\ pushed <= Len(in) /\ Len(in) \in Nat
      /\ in \in Seq(Symbols) /\ carry \in Seq(Symbols) /\ Len(carry) = pushed - base /\ n \in Nat
  BY BufferFacts, InputFacts, LenProperties DEF FramerInv
<1>2. p \in Nat /\ base <= p /\ i \in 1 .. Len(carry) + 1
  BY <1>1
<1>3. carry = SubSeq(in, base + 1, pushed)
  BY DEF FramerInv, NeededBytesKept
<1>4. /\ inRest \in Seq(Symbols) /\ Len(inRest) = Len(in) - p
      /\ \A k \in 1 .. Len(in) - p : inRest[k] = in[p + k]
  BY <1>1, <1>2, SubSeqProperties, ElementOfSeq
<1>5. rest = SubSeq(in, p + 1, pushed)
  <2>1. SubSeq(SubSeq(in, base + 1, pushed), p - base + 1, pushed - base) = SubSeq(in, p + 1, pushed)
    BY <1>1, <1>2, SliceOfSlice
  <2>2. QED
    BY <1>1, <1>3, <2>1
<1>6. /\ rest \in Seq(Symbols) /\ Len(rest) = pushed - p
      /\ \A k \in 1 .. pushed - p : rest[k] = in[p + k]
  BY <1>1, <1>2, <1>5, SubSeqProperties, ElementOfSeq
<1>7. SubSeq(needle, 1, n) = SubSeq(inRest, 1, n) /\ n <= Len(inRest)
  BY DEF StartsAt, IsPrefix
<1> HIDE DEF in, i, inRest, rest
<1>8. SubSeq(inRest, 1, n) = SubSeq(rest, 1, n)
  <2>1. /\ SubSeq(inRest, 1, n) \in Seq(Symbols) /\ Len(SubSeq(inRest, 1, n)) = n
        /\ \A k \in 1 .. n : SubSeq(inRest, 1, n)[k] = inRest[k]
    BY <1>1, <1>4, <1>7, SubSeqProperties, ElementOfSeq
  <2>2. /\ SubSeq(rest, 1, n) \in Seq(Symbols) /\ Len(SubSeq(rest, 1, n)) = n
        /\ \A k \in 1 .. n : SubSeq(rest, 1, n)[k] = rest[k]
    BY <1>1, <1>2, <1>6, SubSeqProperties, ElementOfSeq
  <2>3. \A k \in 1 .. n : inRest[k] = rest[k]
    BY <1>1, <1>2, <1>4, <1>6
  <2>4. \A k \in 1 .. n : SubSeq(inRest, 1, n)[k] = SubSeq(rest, 1, n)[k]
    BY <2>1, <2>2, <2>3
  <2>5. QED
    BY <2>1, <2>2, <2>4, SeqEqual
<1>9. n <= Len(rest)
  BY <1>1, <1>2, <1>6
<1>10. QED
  BY <1>7, <1>8, <1>9 DEF StartsAt, IsPrefix, rest, i

(***************************************************************************)
(* However the reads cut the end of a comment, CDATA section or PI, the    *)
(* search does not move past where it begins.                              *)
(***************************************************************************)
THEOREM SpanEndsAreFound == JumpSpec => NoSpanEndMissed
<1> DEFINE Missed == InSpan /\ cs' = cs =>
             \A p \in cursor .. cursor' - 1 : ~StartsAt(Input(doc), p + 1, Needles[cs])
<1>1. ASSUME FramerInv, [JumpNext]_vars PROVE Missed
  <2> SUFFICES ASSUME InSpan, cs' = cs, NEW p \in cursor .. cursor' - 1,
                      StartsAt(Input(doc), p + 1, Needles[cs])
               PROVE  FALSE
    OBVIOUS
  <2> DEFINE needle == Needles[cs]
  <2>1. /\ base \in Nat /\ pushed \in Nat /\ cursor \in Nat /\ base <= cursor /\ cursor <= pushed
        /\ carry \in Seq(Symbols) /\ Len(carry) = pushed - base
    BY <1>1, BufferFacts
  <2>2. /\ needle \in Seq(Symbols) /\ Len(needle) \in {2, 3} /\ cs \in SpanStates
    BY NeedleFacts DEF InSpan
  <2>3. cursor' # cursor
    BY <2>1
  <2>4. Span
    <3>1. ~JumpText /\ ~OpenMarkup /\ ~OpenTag /\ ~QuotedValue /\ ~TagGoesOn /\ ~JumpTagEnds
      BY <2>2, StateNames
      DEF JumpText, OpenMarkup, OpenTag, OpensTag, QuotedValue, TagGoesOn, JumpTagEnds, InTag
    <3>2. \A n \in Nat : ~Refill(n)
      BY <2>3 DEF Refill
    <3>3. ~Finish /\ ~Decided /\ ~UNCHANGED vars
      BY <2>3 DEF Finish, Decided, vars
    <3>4. QED
      BY <1>1, <3>1, <3>2, <3>3, ChunkAssumption DEF JumpNext, JumpNextRecord
  <2>5. SpanEnd = NoPos /\ cursor' = SpanResume
    BY <2>2, <2>4, StateNames DEF Span, GoTo
  <2>6. p \in base .. pushed /\ p + Len(needle) <= pushed /\ cursor <= p
    <3>1. PICK n \in {2, 3} : n = Len(needle)
      BY <2>2
    <3>2. PICK r \in Int : r = SpanResume /\ r = IF cursor >= pushed - n + 1 THEN cursor ELSE pushed - n + 1
      <4>1. SpanResume = IF cursor >= pushed - n + 1 THEN cursor ELSE pushed - n + 1
        BY <1>1, <3>1, SpanResumeFacts
      <4>2. QED
        BY <2>1, <3>1, <4>1
    <3>3. p \in cursor .. r - 1
      BY <2>5, <3>2
    <3>4. p \in Int /\ cursor <= p /\ p < r
      BY <2>1, <3>2, <3>3
    <3> HIDE DEF needle
    <3>5. p + n <= pushed
      BY <2>1, <3>1, <3>2, <3>4
    <3>6. QED
      BY <2>1, <3>1, <3>4, <3>5
  <2>7. StartsAt(carry, p - base + 1, needle)
    <3>1. StartsAt(Input(doc), p + 1, needle)
      OBVIOUS
    <3>2. Len(needle) > 0 /\ needle \in Seq(Symbols)
      <4>1. \A n \in {2, 3} : n > 0
        OBVIOUS
      <4>2. QED
        BY <2>2, <4>1, Zenon
    <3> HIDE DEF needle
    <3>3. QED
      BY <1>1, <2>6, <3>1, <3>2, NeedleInCarry
  <2> DEFINE at == {j \in cursor - base + 1 .. Len(carry) : StartsAt(carry, j, needle)}
  <2>8. p - base + 1 \in at /\ at \subseteq Nat
    <3>1. PICK n \in {2, 3} : n = Len(needle)
      BY <2>2
    <3>2. p \in Int /\ cursor <= p /\ p + n <= pushed
      BY <2>1, <2>6, <3>1
    <3>3. p - base + 1 \in cursor - base + 1 .. Len(carry)
      <4>1. base \in Int /\ cursor \in Int /\ pushed \in Int /\ n \in Int /\ n >= 1
        <5>1. n \in Int /\ n >= 1
          OBVIOUS
        <5>2. QED
          BY <2>1, <5>1
      <4>2. p - base + 1 \in cursor - base + 1 .. pushed - base
        BY <3>2, <4>1
      <4>3. QED
        BY <2>1, <4>2
    <3>4. at \subseteq Nat
      BY <2>1
    <3>5. QED
      BY <2>7, <3>3, <3>4
  <2>9. Min(at) \in Nat
    BY <2>8, MinIsLeast
  <2>10. PastFirst(carry, cursor - base + 1, needle) = Min(at) + Len(needle)
    BY <2>8, Zenon DEF PastFirst
  <2>11. PastFirst(carry, cursor - base + 1, needle) \in Nat \ {0}
    <3>1. PICK n \in {2, 3} : n = Len(needle)
      BY <2>2
    <3>2. PICK m \in Nat : m = Min(at)
      BY <2>9, Zenon
    <3>3. PastFirst(carry, cursor - base + 1, needle) = m + n
      BY <2>10, <3>1, <3>2, Zenon
    <3>4. QED
      BY <3>3
  <2>12. SpanEnd = base + PastFirst(carry, cursor - base + 1, needle) - 1
    BY <2>11 DEF SpanEnd, Nowhere
  <2>13. QED
    BY <2>1, <2>5, <2>11, <2>12 DEF NoPos
<1>2. QED
  BY <1>1, JumpFramerInvariant, PTL DEF NoSpanEndMissed, JumpSpec
===============================================================================
