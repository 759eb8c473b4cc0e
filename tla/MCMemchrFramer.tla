---------------------------- MODULE MCMemchrFramer -----------------------------
EXTENDS MemchrFramer, MCDocuments

\* One jump passes all the text between two tags: it is one token.
WholeText(d) ==
    \A k \in 1 .. Len(d.toks) - 1 : ~({d.toks[k].kind, d.toks[k + 1].kind} \subseteq {"space", "text"})

JumpDocs == {d \in FramerDocs : WholeText(d)}
================================================================================
