------------------------------ MODULE MCDocuments ------------------------------
(***************************************************************************)
(* Documents for both framers.  They are built token by token and go on    *)
(* for at most one token after the one that decides: nothing that framing  *)
(* never reads is varied.                                                  *)
(***************************************************************************)
EXTENDS XmlInput

Tag(kind, name, attrs, attrBytes) ==
    [kind |-> kind, name |-> name, attrs |-> attrs,
     bytes |-> (IF kind = "end" THEN <<"<", "/", name>> ELSE <<"<", name>>)
               \o attrBytes
               \o (IF kind = "empty" THEN <<"/", ">">> ELSE <<">">>)]

Start(name) == Tag("start", name, "none", <<>>)
Empty(name) == Tag("empty", name, "none", <<>>)
End(name) == Tag("end", name, "none", <<>>)

Declaring(name) == Tag("start", name, "xmlns", <<"ws", "xmlns", "=", "\"", ">", "\"">>)
BadAttrs(name) == Tag("start", name, "bad", <<"ws", "attr", "=">>)
\* `<name attr='"/'>` is not self-closing, and `<name attr='>'/>` is.
Quoted(name) == Tag("start", name, "none", <<"ws", "attr", "=", "'", "\"", "/", "'">>)
QuotedEmpty(name) == Tag("empty", name, "none", <<"ws", "attr", "=", "'", ">", "'">>)

Bytes(kind, bytes) == [kind |-> kind, name |-> "", attrs |-> "none", bytes |-> bytes]

Space == Bytes("space", <<"ws">>)
CharData == Bytes("text", <<"a">>)
Comment == Bytes("misc", <<"<", "!", "-", "-", "<", "a", "-", "-", "-", ">">>)
CData == Bytes("cdata", <<"<", "!", "[", "CDATA[", ">", "]", "]", "]", ">">>)
ProcInst == Bytes("misc", <<"<", "?", "<", "?", "?", ">">>)
NoToken == Bytes("broken", <<"<", "!", "a">>)
Unfinished == {Bytes("broken", <<"<", "a", "/">>), Bytes("broken", <<"<", "!", "-", "-", "-">>)}

-------------------------------------------------------------------------------
Document(path, toks) ==
    [path |-> path, toks |-> toks,
     bytes |-> Prolog \o TokenBytes(toks),
     starts |-> [k \in 1 .. Len(toks) + 1 |->
                    Len(Prolog) + Len(TokenBytes(SubSeq(toks, 1, k - 1)))]]

Undecided(d) == \A k \in DOMAIN d.toks : Legal(d, k) /\ ~ClosesRoot(d, k)

\* At most n tokens behind those of first that leave framing undecided.
Grow(path, first, Tokens, n) ==
    LET grow[k \in 0 .. n] ==
          IF k = 0 THEN {first}
          ELSE {e \in {Append(e, t) : e \in grow[k - 1], t \in Tokens} :
                    Undecided([path |-> path, toks |-> e])}
    IN UNION {grow[k] : k \in 0 .. n}

\* These and one more token after each of them.
Documents(path, first, Tokens, LastTokens, n) ==
    {Document(path, e) : e \in Grow(path, first, Tokens, n)}
      \cup {Document(path, Append(e, t)) : e \in Grow(path, first, Tokens, n), t \in LastTokens}

RootStart == <<"<", "r", ">">>

\* The records are the root's children: every kind of token, wherever it may
\* stand, and every way to stop.
RootPath == <<>>

RootDocs ==
    Documents(RootPath, <<>>,
              {Start("a"), End("b"), QuotedEmpty("a"), Quoted("a"), Space, CharData, Comment,
               CData},
              {End("r"), End("a"), CharData, NoToken, ProcInst} \cup Unfinished, 3)

\* The records are the children of the containers `b` in `c`: each step of the
\* path at its own depth, siblings that are skipped, lookalikes at the wrong
\* depth, containers that come again after a declaration of their own.
DescentPath == <<"c", "b">>

DescentLast ==
    {End("r"), End("a"), Declaring("c"), Empty("a"), BadAttrs("b"), CharData}

DescentDocs ==
    Documents(DescentPath, <<>>,
              {Start("c"), Declaring("b"), Start("b"), Empty("b"), End("b")}, DescentLast, 3)
      \cup
    Documents(DescentPath, <<Start("c"), Declaring("b")>>,
              {Start("b"), Declaring("b"), Empty("b"), End("b")}, DescentLast, 4)

\* For the framers: with bytes behind the root's end tag.
FramerDocs ==
    RootDocs \cup DescentDocs
      \cup {Document(RootPath, <<End("r"), CharData>>),
            Document(RootPath, <<End("r"), Start("a"), Comment>>)}
===============================================================================
