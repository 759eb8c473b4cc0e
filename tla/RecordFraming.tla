---------------------------- MODULE RecordFraming -----------------------------
(***************************************************************************)
(* What framing promises: the tokens of a document are consumed in order,  *)
(* every record is reported as its bytes when its last token is consumed,  *)
(* and framing stops at the root's end tag, or at the first token that is  *)
(* not legal where it stands.                                              *)
(***************************************************************************)
EXTENDS RecordRules

VARIABLES
    doc,        \* the document being framed, of any tokens
    consumed,   \* number of its tokens that have been consumed
    emitted,    \* the bytes of the records found, in order
    verdict     \* "open", then "closed" or "malformed"

vars == <<doc, consumed, emitted, verdict>>

-------------------------------------------------------------------------------
Init ==
    /\ consumed = 0
    /\ emitted = <<>>
    /\ verdict \in {"open", "closed"}   \* "closed": the root is self-closing

Consume ==
    /\ verdict = "open"
    /\ consumed < Len(doc.toks)
    /\ consumed' = consumed + 1
    /\ Legal(doc, consumed + 1)
    /\ emitted' = IF EndsRecord(doc, consumed + 1)
                  THEN Append(emitted, RecordBytes(doc, consumed + 1))
                  ELSE emitted
    /\ verdict' = IF ClosesRoot(doc, consumed + 1) THEN "closed" ELSE "open"
    /\ UNCHANGED doc

Reject ==
    /\ verdict = "open"
    /\ verdict' = "malformed"
    /\ consumed < Len(doc.toks) => ~Legal(doc, consumed + 1)
    /\ UNCHANGED <<doc, consumed, emitted>>

Next == Consume \/ Reject

Spec == Init /\ [][Next]_vars
===============================================================================
