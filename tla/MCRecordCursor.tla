---------------------------- MODULE MCRecordCursor ----------------------------
EXTENDS RecordCursor

\* The entities that a record is read with.
SharedEntities == [e |-> "E"]

Text == [kind |-> "text", text |-> "t"]
Ref(name) == [kind |-> "ref", text |-> name]
Doctype(map) == [kind |-> "doctype", entities |-> map]
StartTag(attrs) == [kind |-> "start", attrs |-> attrs]
Plain(kind) == [kind |-> kind]

\* References to a declared, a predefined and an undeclared entity, a DOCTYPE that
\* declares (and one that tries to redefine) entities.
Alphabet ==
    {Text, Ref("e"), Ref("lt"), Ref("u"), Doctype([e |-> "E"]), Doctype([e |-> "F", lt |-> "G"]),
     StartTag(<<"ws", "attr", "=", "'", "&e", "'">>)}
    \cup {Plain(kind) : kind \in {"end tag", "cdata", "comment", "error"}}

\* Everything short, and longer runs of text.
EventSequences ==
    UNION {[1 .. n -> Alphabet] : n \in 0 .. 4}
    \cup [1 .. 5 -> {Text, Ref("e"), Ref("u"), Plain("comment"), Plain("end tag")}]

-------------------------------------------------------------------------------
\* What quick-xml hands over for a tag: its quotes are closed, or it would have
\* gone on reading.
AttrSymbols == {"ws", "=", "'", "\"", "xmlns", "/"}

Closed(bytes) ==
    LET quote[i \in 0 .. Len(bytes)] ==
            IF i = 0 THEN ""
            ELSE IF quote[i - 1] = "" THEN IF bytes[i] \in Quotes THEN bytes[i] ELSE ""
            ELSE IF bytes[i] = quote[i - 1] THEN "" ELSE quote[i - 1]
    IN quote[Len(bytes)] = ""

Strings == {bytes \in UNION {[1 .. n -> AttrSymbols] : n \in 0 .. 5} : Closed(bytes)}

\* Attribute lists with the values that matter.
One(name, value) == <<"ws", name, "=", "\"", value, "\"">>

Lists ==
    {One(m, v) \o One(n, w) : m, n \in {"xmlns", "xmlns:p", "attr"}, v, w \in {"a", "b", "&e", "&u", "'", "FF"}}

TagSources == {<<StartTag(attrs)>> : attrs \in Strings \cup Lists}

SourceSet == EventSequences \cup TagSources
===============================================================================
