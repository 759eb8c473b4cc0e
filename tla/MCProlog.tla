------------------------------- MODULE MCProlog --------------------------------
EXTENDS Prolog

Piece(says, bytes) == [says |-> says, bytes |-> bytes]

Skipped(bytes) == Piece([verdict |-> "at"], bytes)
Wrong(bytes) == Piece(Malformed, bytes)
Raw(bytes) == Piece([verdict |-> "raw"], bytes)
Declares(entities, bytes) == Piece([verdict |-> "at", entities |-> entities], bytes)
Refuses(bytes) == Piece(Unsupported, bytes)

Root(ns, slash, bytes) ==
    Piece([verdict |-> "ok", root |-> <<"r">>, ns |-> ns, slash |-> slash], bytes)

Q == <<"\"">>
Quoted(bytes) == Q \o bytes \o Q
Decl(body) == <<"<", "?", "xml">> \o body \o <<"?", ">">>
Encoding(name) == <<"ws", "encoding", "=">> \o Quoted(<<name>>)
Doctype(body) == DoctypeOpen \o <<"ws", "r">> \o body \o <<">">>
Subset(body) == Doctype(<<"[">> \o body \o <<"]">>)
Entity(name, value) == EntityOpen \o <<"ws", name, "ws">> \o Quoted(value) \o <<">">>

-------------------------------------------------------------------------------
Bom == Skipped(ByteOrderMark)
Declarations == {Skipped(Decl(<<>>)), Skipped(Decl(Encoding("utf-8")))}

Heads ==
    {<<>>, <<Bom>>, <<Bom, Skipped(Decl(Encoding("utf-8")))>>,
     <<Piece(BadEncoding, <<"FF", "FE">>)>>, <<Piece(BadEncoding, Decl(Encoding("latin1")))>>,
     <<Wrong(<<"EF", "BB">>)>>}
        \cup {<<x>> : x \in Declarations}

Comment == Skipped(CommentOpen \o <<"<", "r", "-", ">", "-">> \o CommentClose)
StylePi == Skipped(<<"<", "?", "xml", "-", "a", "?", "?", ">">>)

Misc ==
    {Skipped(<<"ws">>), Comment, StylePi, Wrong(<<"<", "!", "D", "a", ">">>),
     Wrong(<<"a">>), Wrong(<<"<", "!", "-", "a">>),
     Skipped(Doctype(<<"ws", "'", ">", "\"", "'">>)),
     Declares("a" :> <<">", "]">>, Subset(Entity("a", <<">", "]">>))),
     Declares("a" :> <<"b">> @@ "c" :> <<>>,
              Subset(Entity("c", <<>>) \o CommentOpen \o <<"]", ">", "'">> \o CommentClose
                     \o Entity("a", <<"c">>) \o Entity("a", <<"b">>)))}

PlainRoot == Root(<<>>, FALSE, <<"<", "r", ">">>)

Roots ==
    {PlainRoot,
     Root(<<>>, TRUE, <<"<", "r", "ws", "attr", "=", "'", "/", ">", "'", "/", ">">>),
     Root("" :> <<"a">> @@ "p" :> <<>>, FALSE,
          <<"<", "r", "ws", "xmlns:p", "=">> \o Quoted(<<>>) \o <<"xmlns", "ws", "=", "ws">>
             \o Quoted(<<"a">>) \o <<"ws", ">">>),
     Root("p" :> <<">">>, TRUE,
          <<"<", "r", "ws", "xmlns:p", "=">> \o Quoted(<<"a">>) \o <<"ws", "xmlns:p", "=">>
             \o Quoted(<<">">>) \o <<"/", ">">>),
     Wrong(<<"<", "r", "ws", "attr">>), Wrong(<<"<", "r", "/", "r">>),
     Wrong(<<"<", "r", "ws", "attr", "=", "a", ">">>),
     Piece(BadEncoding, <<"<", "FF", "ws">>),
     Piece(BadEncoding, <<"<", "r", "ws", "xmlns", "=">> \o Quoted(<<"FF">>) \o <<">">>)}

Content == Raw(<<"<", "a">>)

\* Every piece before every root, two pieces in any order before the plain one.
Meaningful ==
    {h \o m \o <<r, Content>> : h \in Heads, m \in {<<x>> : x \in Misc} \cup {<<>>}, r \in Roots}
      \cup {<<x, y, PlainRoot, Content>> : x, y \in Misc}
      \cup Heads

Strings(bytes, n) == UNION {[1 .. k -> bytes] : k \in 0 .. n}

\* Any bytes in a root start tag, in a DOCTYPE, and as a whole document.
Arbitrary ==
    {<<Raw(<<"<", "r">> \o w)>> : w \in Strings({"ws", "xmlns", "=", "\"", "/", ">"}, 3)}
      \cup {<<Raw(<<"<", "r", "ws", "xmlns">> \o w)>> : w \in Strings({"ws", "=", "\"", ">"}, 5)}
      \cup {<<Raw(<<"<">> \o w)>> : w \in Strings({"r", "FF", "ws", ">"}, 3)}
      \cup {<<Raw(DoctypeOpen \o w \o <<"<", "r", ">">>)>> :
                w \in Strings({"[", "]", "\"", "<", "!", "-", ">"}, 4)}
      \cup {<<Raw(w)>> : w \in Strings({"<", "?", "!", "xml", "-", "r", ">"}, 4)}

PrologDocs == Meaningful \cup Arbitrary

\* DTDs that the resident path refuses.
RefusedDocs ==
    {<<x, PlainRoot>> : x \in
        {Refuses(Doctype(<<"ws", "SYSTEM", "ws">> \o Quoted(<<"a">>))),
         Refuses(Subset(EntityOpen \o <<"ws", "%", "ws", "a", "ws">> \o Quoted(<<>>) \o <<">">>)),
         Refuses(Subset(EntityOpen \o <<"ws", "a", "ws", "SYSTEM", "ws">> \o Quoted(<<"a">>)
                        \o <<">">>))}}
================================================================================
