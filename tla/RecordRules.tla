----------------------------- MODULE RecordRules ------------------------------
(***************************************************************************)
(* What a record is, independently of how either framer finds it.          *)
(*                                                                         *)
(* A document d has d.path, the Config::record_path it is framed with, and *)
(* d.toks, its tokens after the root start tag, [kind, name, attrs, bytes].*)
(* kind is "start", "empty" or "end" for a tag, "space" or "text" for      *)
(* character data, "cdata" for a CDATA section, "misc" for a comment or a  *)
(* PI, and "broken" for bytes that begin no token, or one that the         *)
(* document does not finish.  attrs is "none", "xmlns" or "bad".           *)
(***************************************************************************)
EXTENDS Naturals, Sequences, SequencesExt, FiniteSetsExt

CONSTANT RootName   \* the name of the root element

TokenBytes(toks) == FlattenSeq([i \in 1 .. Len(toks) |-> toks[i].bytes])

\* Open(d, k): the names of the elements open after the first k tokens of d.
Open(d, k) ==
    LET open[i \in 0 .. Len(d.toks)] ==
          IF i = 0 THEN <<RootName>>
          ELSE LET before == open[i - 1]
               IN CASE d.toks[i].kind = "start" -> Append(before, d.toks[i].name)
                    [] d.toks[i].kind = "end" /\ before # <<>> -> Front(before)
                    [] OTHER -> before
    IN open[k]

Container(d) == <<RootName>> \o d.path

\* Token k of d opens the next container on the way to the records.
Descends(d, k) ==
    /\ d.toks[k].kind \in {"start", "empty"}
    /\ IsPrefix(Append(Open(d, k - 1), d.toks[k].name), Container(d))

\* Token k begins, and token k ends, a record.
BeginsRecord(d, k) == d.toks[k].kind \in {"start", "empty"} /\ Open(d, k - 1) = Container(d)

EndsRecord(d, k) ==
    \/ d.toks[k].kind = "empty" /\ Open(d, k - 1) = Container(d)
    \/ d.toks[k].kind = "end" /\ Open(d, k) = Container(d) /\ Open(d, k - 1) # Container(d)

ClosesRoot(d, k) == d.toks[k].kind = "end" /\ Open(d, k) = <<>>

RecordBytes(d, k) ==
    LET first == Max({j \in 1 .. k : BeginsRecord(d, j)})
    IN TokenBytes(SubSeq(d.toks, first, k))

Legal(d, k) ==
    CASE d.toks[k].kind = "broken" -> FALSE
      [] d.toks[k].kind = "text" -> ~IsPrefix(Open(d, k - 1), Container(d))
      [] ClosesRoot(d, k) -> d.toks[k].name = RootName
      [] Descends(d, k) -> d.toks[k].attrs # "bad"
      [] OTHER -> TRUE

\* Framing comes to the root's end tag, which is token k of d.
Closes(d, k) ==
    /\ ClosesRoot(d, k)
    /\ \A j \in 1 .. k : Legal(d, j)
    /\ \A j \in 1 .. k - 1 : ~ClosesRoot(d, j)

\* The records of d up to token k, in order.
RecordsUpTo(d, k) ==
    LET records[i \in 0 .. Len(d.toks)] ==
          IF i = 0 THEN <<>>
          ELSE IF EndsRecord(d, i) THEN Append(records[i - 1], RecordBytes(d, i))
          ELSE records[i - 1]
    IN records[k]

\* Nothing but space, comments and PIs after the first k tokens.
OnlyMiscAfter(d, k) == \A j \in k + 1 .. Len(d.toks) : d.toks[j].kind \in {"space", "misc"}
===============================================================================
