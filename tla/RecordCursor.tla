----------------------------- MODULE RecordCursor -----------------------------
(***************************************************************************)
(* A caller at work with a reader's cursor: it asks for one event after    *)
(* the other, and of a start tag for as many of its attributes as it       *)
(* likes.  Errors do not stop it: it may ask again.                        *)
(***************************************************************************)
EXTENDS EventReader, AttrIter

VARIABLES
    attrPos,  \* where the iterator over the last start tag's attributes is
    answers   \* history: what it has answered; the same answer at the same place is one

attrVars == <<attrPos, answers>>
vars == <<eventVars, attrVars>>

Init ==
    /\ RecordInit \/ SeqInit
    /\ attrPos = 1
    /\ answers = {}

\* The iterator of a tag lives until the reader is called again.
NextEvent == Call /\ attrPos' = 1 /\ answers' = {}

\* The last call returned a start tag.
AtStartTag == pc = "idle" /\ delivered # <<>> /\ Last(delivered).kind = "start"

Attrs == events[ev].attrs

Answer(pos) == AttrNext(Attrs, pos, {name \in Range(EntityOf) : LookupEntity(name) # <<>>})

NextAttr ==
    /\ AtStartTag
    /\ attrPos' = Answer(attrPos).pos
    /\ answers' = answers \cup {Answer(attrPos)}
    /\ UNCHANGED eventVars

Done == pc = "done" /\ UNCHANGED vars

Reading == NextEvent \/ ((RecordNextEvent \/ SeqNextEvent) /\ UNCHANGED attrVars)

Next == Reading \/ NextAttr \/ Done

\* A caller that goes on asking for events.
Spec == Init /\ [][Next]_vars /\ WF_vars(Reading)

-------------------------------------------------------------------------------
\* The reader stands between quick-xml and its caller: it has taken what it holds,
\* and holds at most the event it took last.  The iterator stays in its tag.
TypeOK ==
    /\ ReaderOK
    /\ AtStartTag => attrPos \in 1 .. Len(Attrs) + 1
    /\ ~AtStartTag => attrPos = 1 /\ answers = {}

\* A start tag that was returned is in hand, and the iterator over it inside.
CursorInv ==
    /\ ReaderInv
    /\ AtStartTag => KindOf(ev) = "start" /\ attrPos \in 1 .. Len(Attrs) + 1
    /\ ~AtStartTag => attrPos = 1 /\ answers = {}

Kinds == {answer.kind : answer \in answers}

\* A caller that skips the errors of the iterator hangs only in front of an `=`
\* where a key should start, whatever the tag holds: every other answer moves on,
\* and the last one is None.
StuckOnlyAtEmptyKey ==
    AtStartTag /\ answers # {} =>
        LET next == Answer(attrPos)
        IN next.pos > attrPos \/ next.kind = "none" \/ Attrs[attrPos] = "="

\* The answers that declare a prefix, and what it means by them: the last one counts.
Declaring(prefix, given) ==
    {answer \in given : /\ answer.kind = "pair"
                        /\ Len(answer.key) = 1
                        /\ answer.key[1] \in DOMAIN PrefixOf
                        /\ PrefixOf[answer.key[1]] = prefix}

Declared ==
    LET last(prefix) == CHOOSE a \in Declaring(prefix, answers) :
                            \A b \in Declaring(prefix, answers) : b.pos <= a.pos
    IN [prefix \in {p \in Range(PrefixOf) : Declaring(p, answers) # {}} |-> last(prefix).value]

\* What the scanner finds in the tag from a position on, and whether it comes to the
\* end of the tag where quick-xml does.
Scanned(from) == ScanAttrs(Attrs \o <<">">>, from, NeedsMore)
ScanEnds(from) == Scanned(from).verdict = "at" /\ Scanned(from).pos = Len(Attrs) + 2

\* A tag that the scanner takes to declare the namespaces of its records
\* (scan_attrs_xmlns), and to end where quick-xml ends it, has the same attributes
\* for the iterator: it finds no fault with them but in their values, and when it
\* has come to the end without one it has yielded the same declarations.
AttrsAgree ==
    AtStartTag /\ ScanEnds(1) =>
        /\ "malformed" \notin Kinds
        /\ "none" \in Kinds /\ Kinds \subseteq {"pair", "none"} => Declared = Scanned(1).ns

\* A caller that goes on behind errors comes to the end.
ReachesEnd == <>(pc = "done")
===============================================================================
