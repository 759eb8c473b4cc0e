------------------------------- MODULE XmlBytes -------------------------------
(***************************************************************************)
(* The bytes of a document as far as the parsers tell them apart, and the  *)
(* helpers of src/src/scan.rs that several of them call.  A word that is   *)
(* only ever looked at as a whole is one symbol: most names, `CDATA[`,     *)
(* `SYSTEM`; a name or a word may also be a run of several symbols.        *)
(* Positions index the sequence, from 1.                                   *)
(***************************************************************************)
EXTENDS Naturals, SequencesExt

Names == {"r", "a", "b", "c"}

\* Words that some parser looks for, and that are part of a name elsewhere.
Words == {"xmlns", "xmlns:p", "attr", "xml", "encoding", "D", "OCT", "YPE", "ENTITY", "SYSTEM"}

\* Bytes above 0x7F: those of the UTF-8 byte order mark, and two that occur in
\* no UTF-8 text.
HighBytes == {"EF", "BB", "BF", "FE", "FF"}

Quotes == {"'", "\""}

Symbols ==
    Names \cup Words \cup HighBytes \cup Quotes
          \cup {"<", ">", "/", "!", "-", "[", "]", "?", "=", "%", "ws", "CDATA[",
                "utf-8", "latin1"}

IsNameStart(b) == b \in Names \cup Words \cup HighBytes

IsNameChar(b) == IsNameStart(b) \/ b = "-"

IsWs(b) == b = "ws"

\* utf8: whether the bytes can be a string.
IsUtf8(bytes) == Range(bytes) \cap {"FE", "FF"} = {}

-------------------------------------------------------------------------------
\* Where there is no such position.
Nowhere == 0

StartsAt(buf, i, pattern) == IsPrefix(pattern, SubSeq(buf, i, Len(buf)))

\* Just past the first occurrence of pattern in buf at i or later.
PastFirst(buf, i, pattern) ==
    LET at == {j \in i .. Len(buf) : StartsAt(buf, j, pattern)}
    IN IF at = {} THEN Nowhere ELSE Min(at) + Len(pattern)

\* The first position at i or later that is not whitespace (skip_ws_at), and
\* that is not part of a name; Len(buf) + 1 if there is none.
SkipWs(buf, i) == Min({j \in i .. Len(buf) : ~IsWs(buf[j])} \cup {Len(buf) + 1})

NameEnd(buf, i) == Min({j \in i .. Len(buf) : ~IsNameChar(buf[j])} \cup {Len(buf) + 1})

\* The name at i, right after `<` or `</`.
EndTagName(buf, i) == SubSeq(buf, i, NameEnd(buf, i) - 1)

-------------------------------------------------------------------------------
\* What a parser answers: "at" with where it got to, or why it stops.
Malformed == [verdict |-> "malformed"]
BadEncoding == [verdict |-> "encoding"]
Unsupported == [verdict |-> "unsupported"]
NeedsMore == [verdict |-> "more"]

\* The prefix that an attribute declares a namespace for.
PrefixOf == [name \in {"xmlns", "xmlns:p"} |-> IF name = "xmlns" THEN "" ELSE "p"]

\* The declarations of ns, with one in front of them.
DeclaredBefore(ns, prefix, uri) ==
    [p \in {prefix} \cup DOMAIN ns |-> IF p \in DOMAIN ns THEN ns[p] ELSE uri]

\* The attributes from position `from` to the end of the tag, with the
\* namespaces they declare, of which the last one for a prefix counts; atEnd is
\* the answer when buf ends before the tag does.
ScanAttrs(buf, from, atEnd) ==
    LET tagEnd(i, slash) ==
            [verdict |-> "at", pos |-> i, slash |-> slash, ns |-> <<>>]
        scan[start \in Nat] ==
            LET i == SkipWs(buf, start)
                name == EndTagName(buf, i)
                eq == SkipWs(buf, NameEnd(buf, i))
                quote == SkipWs(buf, eq + 1)
                next == PastFirst(buf, quote + 1, <<buf[quote]>>)
                value == SubSeq(buf, quote + 1, next - 2)
                declares == Len(name) = 1 /\ name[1] \in DOMAIN PrefixOf
                rest == scan[next]
            IN IF i > Len(buf) THEN atEnd
               ELSE IF buf[i] = ">" THEN tagEnd(i + 1, FALSE)
               ELSE IF buf[i] = "/"
               THEN IF i = Len(buf) THEN atEnd
                    ELSE IF buf[i + 1] = ">" THEN tagEnd(i + 2, TRUE) ELSE Malformed
               ELSE IF name = <<>> THEN Malformed
               ELSE IF eq > Len(buf) THEN atEnd
               ELSE IF buf[eq] # "=" THEN Malformed
               ELSE IF quote > Len(buf) THEN atEnd
               ELSE IF buf[quote] \notin Quotes THEN Malformed
               ELSE IF next = Nowhere THEN atEnd
               ELSE IF ~declares THEN rest
               ELSE IF ~IsUtf8(value) THEN BadEncoding
               ELSE IF rest.verdict # "at" THEN rest
               ELSE [rest EXCEPT !.ns = DeclaredBefore(@, PrefixOf[name[1]], value)]
    IN scan[from]
===============================================================================
