-------------------------- MODULE MCResidentScanner ---------------------------
EXTENDS ResidentScanner, MCDocuments

\* What may follow the root's end tag, and what may not.
Tails ==
    UNION {[1 .. n -> {Space, Comment, ProcInst, CharData, CData, Start("a"), End("r"), NoToken}] :
              n \in 0 .. 2}

ScannerDocs ==
    RootDocs \cup DescentDocs
      \cup {Document(RootPath, <<End("r")>> \o t) :
                t \in Tails \cup {<<u>> : u \in Unfinished}}
================================================================================
