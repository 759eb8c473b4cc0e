-------------------------------- MODULE Prolog --------------------------------
(***************************************************************************)
(* The two parsers of what stands before a document's content: byte order  *)
(* mark, XML declaration, DOCTYPE with entity declarations, comments, PIs  *)
(* and the root start tag (src/src/scan.rs).  Scanner::run parses a whole  *)
(* buffer; the streaming path calls try_parse_prelude on what it has read, *)
(* from the start, after every read, until that no longer asks for more.   *)
(*                                                                         *)
(* A document is a sequence of pieces, see MCProlog; a position is the one *)
(* of the next byte to look at, from 1.                                    *)
(***************************************************************************)
EXTENDS XmlBytes

CONSTANTS
    Docs,       \* the documents
    MaxChunk    \* bound: bytes a read returns at most

ASSUME ChunkAssumption == MaxChunk \in Nat \ {0}

VARIABLES
    doc,        \* the document
    read,       \* number of its bytes that have been read
    prelude     \* the answer of try_prelude, or the error of par_for_each

vars == <<doc, read, prelude>>

Input(d) == FlattenSeq([i \in DOMAIN d |-> d[i].bytes])

ASSUME InputAssumption == \A d \in Docs : Input(d) \in Seq(Symbols)

-------------------------------------------------------------------------------
\* What both parsers call.

ByteOrderMark == <<"EF", "BB", "BF">>
Utf16Marks == {<<"FF", "FE">>, <<"FE", "FF">>}
IsUtf16(buf) == \E mark \in Utf16Marks : IsPrefix(mark, buf)

DeclOpen == <<"<", "?", "xml">>
PiOpen == <<"<", "?">>
PiClose == <<"?", ">">>
CommentOpen == <<"<", "!", "-", "-">>
CommentClose == <<"-", "-", ">">>
DoctypeOpen == <<"<", "!", "D", "OCT", "YPE">>
EntityOpen == <<"<", "!", "ENTITY">>

At(i) == [verdict |-> "at", pos |-> i]

\* pseudo_attr: the value of the first `name` in the declaration; <<>> is none.
PseudoAttr(decl, name) ==
    LET found == PastFirst(decl, 1, <<name>>)
        eq == SkipWs(decl, found)
        quote == SkipWs(decl, eq + 1)
        past == PastFirst(decl, quote + 1, <<decl[quote]>>)
    IN IF \/ found = Nowhere
          \/ eq > Len(decl) \/ decl[eq] # "="
          \/ quote > Len(decl) \/ decl[quote] \notin Quotes
          \/ past = Nowhere
       THEN <<>>
       ELSE <<SubSeq(decl, quote + 1, past - 2)>>

EncodingOk(decl) == PseudoAttr(decl, "encoding") \in {<<>>, <<<<"utf-8">>>>}

\* The XML declaration at i, just past its `<?xml`, which ends before `past`.
Declaration(buf, i, past) ==
    IF EncodingOk(SubSeq(buf, i, past - 3)) THEN At(past) ELSE BadEncoding

IsDeclBody(b) == IsWs(b) \/ b = "?"

NoEntities == <<>>

\* skip_decl_to_gt: just past the next `>` outside quotes.
SkipDeclToGt(buf, from) ==
    LET skip[i \in Nat] ==
          IF i > Len(buf) THEN Malformed
          ELSE IF buf[i] = ">" THEN At(i + 1)
          ELSE IF buf[i] \notin Quotes THEN skip[i + 1]
          ELSE IF PastFirst(buf, i + 1, <<buf[i]>>) = Nowhere THEN Malformed
          ELSE skip[PastFirst(buf, i + 1, <<buf[i]>>)]
    IN skip[from]

\* parse_entity_decl of the `<!ENTITY` at i.  What was inserted before an error
\* stays in the map.
ParseEntityDecl(buf, i) ==
    LET start == SkipWs(buf, i + Len(EntityOpen))
        name == EndTagName(buf, start)
        quote == SkipWs(buf, NameEnd(buf, start))
        past == PastFirst(buf, quote + 1, <<buf[quote]>>)
        value == SubSeq(buf, quote + 1, past - 2)
        fails(why) == why @@ [entities |-> NoEntities]
    IN IF start <= Len(buf) /\ buf[start] = "%" THEN fails(Unsupported)
       ELSE IF name = <<>> THEN fails(Malformed)
       ELSE IF quote > Len(buf) \/ buf[quote] \notin Quotes THEN fails(Unsupported)
       ELSE IF past = Nowhere THEN fails(Malformed)
       ELSE IF ~IsUtf8(name \o value) THEN fails(BadEncoding)
       ELSE SkipDeclToGt(buf, past) @@ [entities |-> name :> value]

\* The result of `rest` behind declarations made before it: the last one of a
\* name counts.
Behind(entities, rest) ==
    IF "entities" \in DOMAIN rest THEN [rest EXCEPT !.entities = @ @@ entities] ELSE rest

-------------------------------------------------------------------------------
\* Scanner::run up to the content.

\* The position past a construct that must end.
MustEnd(past) == IF past = Nowhere THEN Malformed ELSE At(past)

\* handle_bom_and_decl
HandleBomAndDecl(buf) ==
    LET i == IF IsPrefix(ByteOrderMark, buf) THEN 4 ELSE 1
        body == i + Len(DeclOpen)
    IN IF IsUtf16(buf) THEN BadEncoding
       ELSE IF ~StartsAt(buf, i, DeclOpen) \/ body > Len(buf) \/ ~IsDeclBody(buf[body])
       THEN At(i)
       ELSE IF PastFirst(buf, body, PiClose) = Nowhere THEN Malformed
       ELSE Declaration(buf, body, PastFirst(buf, body, PiClose))

\* parse_doctype
ParseDoctype(buf, from) ==
    LET step[at \in (Nat \ {0}) \X BOOLEAN] ==
          LET i == at[1]
              subset == at[2]
              jump(past) == IF past = Nowhere THEN Malformed ELSE step[<<past, subset>>]
              entity == ParseEntityDecl(buf, i)
          IN IF i > Len(buf) THEN Malformed
             ELSE IF buf[i] \in Quotes THEN jump(PastFirst(buf, i + 1, <<buf[i]>>))
             ELSE IF StartsAt(buf, i, CommentOpen)
             THEN jump(PastFirst(buf, i + 4, CommentClose))
             ELSE IF ~subset /\ buf[i] = "SYSTEM" THEN Unsupported
             ELSE IF subset /\ StartsAt(buf, i, EntityOpen)
             THEN IF entity.verdict # "at" THEN [verdict |-> entity.verdict]
                  ELSE Behind(entity.entities, step[<<entity.pos, TRUE>>])
             ELSE IF buf[i] = ">" /\ ~subset THEN At(i + 1) @@ [entities |-> NoEntities]
             ELSE step[<<i + 1, IF buf[i] = "[" THEN TRUE ELSE subset /\ buf[i] # "]">>]
    IN step[<<from + Len(DoctypeOpen), FALSE>>]

\* make_prelude, of a root with this name and these attributes
MakePrelude(name, tag) ==
    [verdict |-> "ok", root |-> name, ns |-> tag.ns, slash |-> tag.slash, pos |-> tag.pos,
     entities |-> NoEntities]

\* Fault: the name's encoding is not checked.
ParseRootAnyName(buf, i) ==
    LET name == EndTagName(buf, i + 1)
        tag == ScanAttrs(buf, NameEnd(buf, i + 1), Malformed)
    IN IF tag.verdict # "at" THEN tag ELSE MakePrelude(name, tag)

\* parse_root of the `<` at i
ParseRoot(buf, i) ==
    LET name == EndTagName(buf, i + 1)
        tag == ScanAttrs(buf, NameEnd(buf, i + 1), Malformed)
    IN IF ~IsUtf8(name) THEN BadEncoding
       ELSE IF tag.verdict # "at" THEN tag ELSE MakePrelude(name, tag)

\* skip_prolog_misc, then parse_root
SkipPrologMisc(buf, from) ==
    LET step[start \in Nat \ {0}] ==
          LET i == SkipWs(buf, start)
              skip(here) == IF here.verdict = "at" THEN step[here.pos] ELSE here
              doctype == ParseDoctype(buf, i)
          IN IF StartsAt(buf, i, CommentOpen)
             THEN skip(MustEnd(PastFirst(buf, i + 4, CommentClose)))
             ELSE IF StartsAt(buf, i, DoctypeOpen)
             THEN IF doctype.verdict # "at" THEN doctype
                  ELSE Behind(doctype.entities, step[doctype.pos])
             ELSE IF StartsAt(buf, i, PiOpen)
             THEN skip(MustEnd(PastFirst(buf, i + 2, PiClose)))
             ELSE IF i < Len(buf) /\ buf[i] = "<" /\ IsNameStart(buf[i + 1])
             THEN ParseRoot(buf, i)
             ELSE Malformed
    IN step[from]

\* The prelude of the resident path.
Resident(buf) ==
    LET begin == HandleBomAndDecl(buf)
    IN IF begin.verdict = "at" THEN SkipPrologMisc(buf, begin.pos) ELSE begin

-------------------------------------------------------------------------------
\* try_parse_prelude, which may be given any prefix of the document.

MayEnd(past) == IF past = Nowhere THEN NeedsMore ELSE At(past)

\* Fault: what is left is not taken for the beginning of anything.
MayBecomeNothing(buf, i, pattern) == FALSE

\* What is left of buf from i may still turn out to be the pattern.
MayBecome(buf, i, pattern) == IsPrefix(SubSeq(buf, i, Len(buf)), pattern)

\* The declaration, if there is one, behind the byte order mark.
TryDecl(buf, i) ==
    LET body == i + Len(DeclOpen)
        past == PastFirst(buf, i + 2, PiClose)
    IN IF Len(buf) < i + 1 THEN NeedsMore
       ELSE IF ~StartsAt(buf, i, DeclOpen)
       THEN IF MayBecome(buf, i, DeclOpen) THEN NeedsMore ELSE At(i)
       ELSE IF body > Len(buf) THEN NeedsMore
       ELSE IF ~IsDeclBody(buf[body]) THEN At(i)
       ELSE IF past = Nowhere THEN NeedsMore ELSE Declaration(buf, body, past)

TryBomAndDecl(buf) ==
    IF IsPrefix(ByteOrderMark, buf) THEN TryDecl(buf, 4)
    ELSE IF IsUtf16(buf) THEN BadEncoding
    ELSE IF MayBecome(buf, 1, ByteOrderMark) THEN NeedsMore
    ELSE TryDecl(buf, 1)

\* classify_prolog: which construct begins at i.
ClassifyProlog(buf, i) ==
    LET length == Len(buf) - i + 1
    IN IF buf[i] # "<" THEN "malformed"
       ELSE IF length < 2 THEN "more"
       ELSE IF buf[i + 1] = "?" THEN "Pi"
       ELSE IF buf[i + 1] # "!" THEN IF IsNameStart(buf[i + 1]) THEN "Root" ELSE "malformed"
       ELSE IF length < 4 THEN "more"
       ELSE IF StartsAt(buf, i, CommentOpen) THEN "Comment"
       ELSE IF StartsAt(buf, i, DoctypeOpen) THEN "Doctype"
       ELSE IF MayBecome(buf, i, DoctypeOpen) THEN "more" ELSE "malformed"

\* Fault: a quoted value is looked through as well.
FindDoctypeEndUnquoted(buf, from) ==
    LET step[at \in (Nat \ {0}) \X BOOLEAN] ==
          LET i == at[1]
              subset == at[2]
              past == PastFirst(buf, i + 4, CommentClose)
          IN IF i > Len(buf) THEN NeedsMore
             ELSE IF StartsAt(buf, i, CommentOpen)
             THEN IF past = Nowhere THEN NeedsMore ELSE step[<<past, subset>>]
             ELSE IF buf[i] = ">" /\ ~subset THEN At(i + 1)
             ELSE step[<<i + 1, IF buf[i] = "[" THEN TRUE ELSE subset /\ buf[i] # "]">>]
    IN step[<<from + Len(DoctypeOpen), FALSE>>]

\* find_doctype_end of the DOCTYPE at `from`
FindDoctypeEnd(buf, from) ==
    LET step[at \in (Nat \ {0}) \X BOOLEAN] ==
          LET i == at[1]
              subset == at[2]
              jump(past) == IF past = Nowhere THEN NeedsMore ELSE step[<<past, subset>>]
          IN IF i > Len(buf) THEN NeedsMore
             ELSE IF buf[i] \in Quotes THEN jump(PastFirst(buf, i + 1, <<buf[i]>>))
             ELSE IF StartsAt(buf, i, CommentOpen)
             THEN jump(PastFirst(buf, i + 4, CommentClose))
             ELSE IF buf[i] = "<" /\ Len(buf) < i + 3 THEN NeedsMore
             ELSE IF buf[i] = ">" /\ ~subset THEN At(i + 1)
             ELSE step[<<i + 1, IF buf[i] = "[" THEN TRUE ELSE subset /\ buf[i] # "]">>]
    IN step[<<from + Len(DoctypeOpen), FALSE>>]

\* parse_doctype_entities: every `<!ENTITY` in the body, wherever it stands, as
\* far as it can be parsed.
ParseDoctypeEntities(body) ==
    LET scan[from \in Nat] ==
          LET past == PastFirst(body, from, EntityOpen)
              entity == ParseEntityDecl(body, past - Len(EntityOpen))
          IN IF past = Nowhere THEN NoEntities
             ELSE scan[IF entity.verdict = "at" THEN entity.pos ELSE past] @@ entity.entities
    IN scan[1]

\* Fault: content begins one byte too far.
TryParseRootTagPast(buf, i) ==
    LET name == EndTagName(buf, i + 1)
        tag == ScanAttrs(buf, NameEnd(buf, i + 1), NeedsMore)
    IN IF NameEnd(buf, i + 1) > Len(buf) THEN NeedsMore
       ELSE IF ~IsUtf8(name) THEN BadEncoding
       ELSE IF tag.verdict # "at" THEN tag ELSE MakePrelude(name, [tag EXCEPT !.pos = @ + 1])

\* Fault: a byte behind the tag is waited for.
TryParseRootTagWaits(buf, i) ==
    LET name == EndTagName(buf, i + 1)
        tag == ScanAttrs(buf, NameEnd(buf, i + 1), NeedsMore)
    IN IF NameEnd(buf, i + 1) > Len(buf) THEN NeedsMore
       ELSE IF ~IsUtf8(name) THEN BadEncoding
       ELSE IF tag.verdict # "at" THEN tag
       ELSE IF tag.pos > Len(buf) THEN NeedsMore ELSE MakePrelude(name, tag)

\* try_parse_root_tag of the `<` at i
TryParseRootTag(buf, i) ==
    LET name == EndTagName(buf, i + 1)
        tag == ScanAttrs(buf, NameEnd(buf, i + 1), NeedsMore)
    IN IF NameEnd(buf, i + 1) > Len(buf) THEN NeedsMore
       ELSE IF ~IsUtf8(name) THEN BadEncoding
       ELSE IF tag.verdict # "at" THEN tag ELSE MakePrelude(name, tag)

TryParsePrelude(buf) ==
    LET step[start \in Nat \ {0}] ==
          LET i == SkipWs(buf, start)
              class == ClassifyProlog(buf, i)
              skip(here) == IF here.verdict = "at" THEN step[here.pos] ELSE here
              end == FindDoctypeEnd(buf, i)
          IN IF i > Len(buf) THEN NeedsMore
             ELSE CASE class = "Comment" -> skip(MayEnd(PastFirst(buf, i + 4, CommentClose)))
                    [] class = "Pi" -> skip(MayEnd(PastFirst(buf, i + 2, PiClose)))
                    [] class = "Doctype" ->
                         IF end.verdict # "at" THEN end
                         ELSE Behind(ParseDoctypeEntities(SubSeq(buf, i, end.pos - 1)),
                                     step[end.pos])
                    [] class = "Root" -> TryParseRootTag(buf, i)
                    [] OTHER -> [verdict |-> class]
        begin == TryBomAndDecl(buf)
    IN IF begin.verdict = "at" THEN step[begin.pos] ELSE begin
-------------------------------------------------------------------------------
\* StreamReader::par_for_each before it spawns its threads: parse, read, parse
\* again, until there is a prelude, an error, or nothing left to read.

Init ==
    /\ doc \in Docs
    /\ read = 0
    /\ prelude = TryParsePrelude(<<>>)

ReadChunk(n) ==
    /\ prelude.verdict = "more"
    /\ read + n <= Len(Input(doc))
    /\ read' = read + n
    /\ prelude' = TryParsePrelude(SubSeq(Input(doc), 1, read'))
    /\ UNCHANGED doc

\* A read that returns nothing: there is no root element.
SourceEnds ==
    /\ prelude.verdict = "more"
    /\ read = Len(Input(doc))
    /\ prelude' = Malformed
    /\ UNCHANGED <<doc, read>>

Decided == prelude.verdict # "more" /\ UNCHANGED vars

Next ==
    \/ \E n \in 1 .. MaxChunk : ReadChunk(n)
    \/ SourceEnds
    \/ Decided

Spec == Init /\ [][Next]_vars

-------------------------------------------------------------------------------
(***************************************************************************)
(* Properties.  They read what a piece is meant to be, piece.says: an      *)
(* answer like a parser's, with verdict "at" for a piece that the root may *)
(* follow; "raw" for bytes that are not meant to be anything.              *)
(***************************************************************************)

\* Framing starts at a byte that has been read: the cursor that try_prelude sets
\* lies in the buffer.
TypeOK ==
    /\ read \in 0 .. Len(Input(doc))
    /\ prelude.verdict \in {"more", "ok", "malformed", "encoding", "unsupported"}
    /\ prelude.verdict = "ok" => prelude.pos - 1 \in 1 .. read

\* What the prelude is when the whole document comes in one read.
InOneRead ==
    LET answer == TryParsePrelude(Input(doc))
    IN IF answer.verdict = "more" THEN Malformed ELSE answer

\* Whatever is decided on part of the document stays true of all of it: no split
\* of the bytes into reads changes the prelude or the error.
VerdictFinal == prelude.verdict # "more" => prelude = InOneRead

\* The pieces up to the one that ends the prolog, by being the root or by being
\* wrong.
Deciding == {k \in DOMAIN doc : doc[k].says.verdict # "at"}
Prologue == SubSeq(doc, 1, IF Deciding = {} THEN Len(doc) ELSE Min(Deciding))

\* The entities declared in d, of which the last one of a name counts.
Declared(d) == FoldLeft(LAMBDA map, piece : piece.says.entities @@ map, NoEntities,
                        SelectSeq(d, LAMBDA piece : "entities" \in DOMAIN piece.says))

\* What the prelude of the document is, by the meaning of its pieces.
Meant ==
    LET last == Last(Prologue).says
    IN IF Deciding = {} THEN Malformed
       ELSE IF last.verdict # "ok" THEN last
       ELSE last @@ [pos |-> Len(Input(Prologue)) + 1, entities |-> Declared(Prologue)]

\* The root start tag ends the wait: once its last byte has been read, nothing
\* more is asked for, so that a source that pauses there cannot stall the records.
DecidesAtOnce ==
    prelude.verdict = "more" /\ Deciding # {} /\ Last(Prologue).says.verdict = "ok"
        => read < Len(Input(Prologue))

\* The prelude is the one that the pieces mean: root, namespaces, entities, and
\* where the content begins.
PrologExact ==
    /\ prelude.verdict # "more"
    /\ \A k \in DOMAIN Prologue : Prologue[k].says.verdict # "raw"
    => prelude = Meant

\* A DTD that only the resident path refuses.
Refused == \E k \in DOMAIN Prologue : Prologue[k].says.verdict = "unsupported"

\* The document ends before its root start tag does.
CutOff == TryParsePrelude(Input(doc)).verdict = "more"

\* Both paths take the same documents with the same prelude, and refuse the others
\* with the same error, unless the DTD is at issue.  Of a document that is cut off, the
\* streaming path has not looked at a name that the resident one may refuse for its
\* encoding.
PrologsAgree ==
    prelude.verdict # "more" /\ ~Refused =>
        LET resident == Resident(Input(doc))
        IN IF CutOff THEN resident \in {Malformed, BadEncoding} ELSE prelude = resident

\* README.md:348-349: "External DTDs and parameter entities are rejected with
\* XmlError::UnsupportedDtd rather than silently skipped".
ExternalDtdRejected == Refused => prelude.verdict # "ok"
===============================================================================
