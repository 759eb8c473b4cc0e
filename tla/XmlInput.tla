------------------------------- MODULE XmlInput -------------------------------
(***************************************************************************)
(* The input of both framers: a document's tokens behind its prolog, and   *)
(* the path that its records are at.                                       *)
(***************************************************************************)
EXTENDS XmlBytes, RecordRules, Integers

CONSTANTS
    Docs,       \* the documents, see RecordRules; d.bytes and d.starts are derived
    Prolog      \* the bytes up to the end of the root start tag, whatever its form

\* The bytes of the whole input.
Input(d) == d.bytes

\* Where token k of d begins; a broken token has no end.
TokenStart(d, k) == d.starts[k]

ASSUME InputAssumption ==
    /\ RootName \in Names
    /\ Prolog \in Seq(Symbols)
    /\ \A d \in Docs :
        /\ d.path \in Seq(Names)
        /\ TokenBytes(d.toks) \in Seq(Symbols)
        /\ d.bytes = Prolog \o TokenBytes(d.toks)
        /\ d.starts = [k \in 1 .. Len(d.toks) + 1 |->
                          Len(Prolog) + Len(TokenBytes(SubSeq(d.toks, 1, k - 1)))]

-------------------------------------------------------------------------------
(***************************************************************************)
(* The bytes of a token, where it stands: from byte i to byte j of the     *)
(* input.                                                                  *)
(***************************************************************************)

\* Comments and PIs, and CDATA sections: what opens and what ends them.
MiscSpans ==
    {[open |-> <<"<", "!", "-", "-">>, close |-> <<"-", "-", ">">>],
     [open |-> <<"<", "?">>, close |-> <<"?", ">">>]}

CDataSpans == {[open |-> <<"<", "!", "[", "CDATA[">>, close |-> <<"]", "]", ">">>]}

\* It goes from what opens it to the first of what ends it.
IsSpan(input, i, j, spans) ==
    \E s \in spans : /\ StartsAt(input, i, s.open)
                     /\ PastFirst(input, i + Len(s.open), s.close) = j + 1

Unquoted == ""

\* The quote that is open behind each byte of the tag that begins at i.
QuoteBehind(input, i) ==
    LET quote[j \in 0 .. Len(input)] ==
          IF j <= i THEN Unquoted
          ELSE IF quote[j - 1] # Unquoted THEN IF input[j] = quote[j - 1] THEN Unquoted ELSE quote[j - 1]
          ELSE IF input[j] \in Quotes THEN input[j] ELSE Unquoted
    IN quote

\* It goes from a `<` to the first `>` outside of quotes.
IsTag(input, i, j) ==
    LET Ends(m) == input[m] = ">" /\ QuoteBehind(input, i)[m - 1] = Unquoted
    IN /\ input[i] = "<"
       /\ i < j
       /\ Ends(j)
       /\ \A m \in i + 1 .. j - 1 : ~Ends(m)

IsEnd(input, i, j) == IsTag(input, i, j) /\ input[i + 1] = "/"
IsStart(input, i, j) == IsTag(input, i, j) /\ IsNameStart(input[i + 1])

\* A tag's attributes are well formed; they declare a namespace.
AttrsOk(attrs) == attrs.verdict = "at"
AttrsDeclare(attrs) == DOMAIN attrs.ns # {}

\* Whether the attributes of a start tag are well formed, and declare a namespace.
AttrsOf(input, i, j) ==
    LET attrs == ScanAttrs(SubSeq(input, 1, j), NameEnd(input, i + 1), Malformed)
    IN IF ~AttrsOk(attrs) THEN "bad" ELSE IF AttrsDeclare(attrs) THEN "xmlns" ELSE "none"

IsToken(input, i, j, token) ==
    /\ i <= j
    /\ CASE token.kind = "space" -> \A m \in i .. j : IsWs(input[m])
         [] token.kind = "text" -> /\ \A m \in i .. j : input[m] # "<"
                                   /\ \E m \in i .. j : ~IsWs(input[m])
         [] token.kind = "misc" -> IsSpan(input, i, j, MiscSpans)
         [] token.kind = "cdata" -> IsSpan(input, i, j, CDataSpans)
         [] token.kind = "end" -> /\ IsEnd(input, i, j)
                                  /\ EndTagName(input, i + 2) = <<token.name>>
         [] token.kind \in {"start", "empty"} ->
                /\ IsStart(input, i, j)
                /\ EndTagName(input, i + 1) = <<token.name>>
                /\ token.attrs = AttrsOf(input, i, j)
                /\ token.kind = "empty" <=> input[j - 1] = "/"
         [] token.kind = "broken" ->
                /\ input[i] = "<"
                /\ \A m \in i .. Len(input) :
                    /\ ~IsSpan(input, i, m, MiscSpans \cup CDataSpans)
                    /\ ~IsEnd(input, i, m)
                    /\ ~IsStart(input, i, m)

AnyToken ==
    [kind : {"space", "text", "misc", "cdata", "end", "start", "empty", "broken"},
     name : Names \cup {""}, attrs : {"none", "xmlns", "bad"}, bytes : Seq(Symbols)]

ASSUME TokensAssumption ==
    \A d \in Docs :
        /\ d.toks \in Seq(AnyToken)
        /\ \A k \in DOMAIN d.toks :
            IsToken(d.bytes, d.starts[k] + 1, d.starts[k + 1], d.toks[k])

-------------------------------------------------------------------------------
\* The depth at which the records of d are.
TargetOf(d) == Len(d.path) + 1

\* None, where the code has an optional position.
NoPos == -1
===============================================================================
