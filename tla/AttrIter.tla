------------------------------- MODULE AttrIter --------------------------------
(***************************************************************************)
(* The iterator over a start tag's attributes (event.rs): one operator for *)
(* one call of next.  The bytes are those that quick-xml hands over, from  *)
(* the element's name to the end of the tag; positions count from 1.       *)
(***************************************************************************)
EXTENDS XmlBytes

\* Fault: whitespace does not end a key.
KeyEndAtEquals(buf, i) == Min({j \in i .. Len(buf) : buf[j] = "="} \cup {Len(buf) + 1})

\* The key at i ends before whitespace or `=`.
KeyEnd(buf, i) == Min({j \in i .. Len(buf) : IsWs(buf[j]) \/ buf[j] = "="} \cup {Len(buf) + 1})

\* References in a value: the entity that each of them names.
EntityOf == "&amp" :> "amp" @@ "&e" :> "e" @@ "&u" :> "u"

\* unescape_with: every reference in the value resolves.
Unescapes(value, known) ==
    \A ref \in Range(value) \cap DOMAIN EntityOf : EntityOf[ref] \in known

Got(key, value, i) == [kind |-> "pair", key |-> key, value |-> value, pos |-> i]
Broken(i) == [kind |-> "malformed", pos |-> i]

\* Fault: the position is only moved past what is yielded.
AttrNextInPlace(buf, pos, known) ==
    LET i == SkipWs(buf, pos)
        eq == SkipWs(buf, KeyEnd(buf, i))
        quote == SkipWs(buf, eq + 1)
        past == PastFirst(buf, quote + 1, <<buf[quote]>>)
        value == SubSeq(buf, quote + 1, past - 2)
    IN IF i > Len(buf) \/ buf[i] = "/" THEN [kind |-> "none", pos |-> i]
       ELSE IF KeyEnd(buf, i) = i \/ eq > Len(buf) \/ buf[eq] # "=" THEN Broken(i)
       ELSE IF quote > Len(buf) \/ buf[quote] \notin Quotes THEN Broken(i)
       ELSE IF past = Nowhere THEN Broken(i)
       ELSE IF ~IsUtf8(value) THEN [kind |-> "encoding", pos |-> i]
       ELSE IF ~Unescapes(value, known) THEN [kind |-> "entity", pos |-> i]
       ELSE Got(SubSeq(buf, i, KeyEnd(buf, i) - 1), value, past)

\* What a call at pos yields, and where it leaves the iterator; known is the
\* set of entities that resolve.
AttrNext(buf, pos, known) ==
    LET i == SkipWs(buf, pos)
        eq == SkipWs(buf, KeyEnd(buf, i))
        quote == SkipWs(buf, eq + 1)
        past == PastFirst(buf, quote + 1, <<buf[quote]>>)
        value == SubSeq(buf, quote + 1, past - 2)
    IN IF i > Len(buf) \/ buf[i] = "/" THEN [kind |-> "none", pos |-> i]
       ELSE IF KeyEnd(buf, i) = i THEN Broken(i)
       ELSE IF eq > Len(buf) \/ buf[eq] # "=" THEN Broken(eq)
       ELSE IF quote > Len(buf) \/ buf[quote] \notin Quotes THEN Broken(quote)
       ELSE IF past = Nowhere THEN Broken(Len(buf) + 1)
       ELSE IF ~IsUtf8(value) THEN [kind |-> "encoding", pos |-> past]
       ELSE IF ~Unescapes(value, known) THEN [kind |-> "entity", pos |-> past]
       ELSE Got(SubSeq(buf, i, KeyEnd(buf, i) - 1), value, past)
===============================================================================
