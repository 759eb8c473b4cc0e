----------------------------- MODULE PrologProofs ------------------------------
(***************************************************************************)
(* try_parse_prelude keeps what it has decided, for every document and     *)
(* every way to read it (`VerdictFinal`); and the two prolog parsers agree *)
(* on every document without a DOCTYPE (`PrologsAgree`).                   *)
(*                                                                         *)
(* The parser starts over with every read, so its verdicts are about       *)
(* prefixes.  Each function it calls has a lemma `...Grown`: given part of *)
(* the bytes it asks for more, or says what it says given all of them.     *)
(* The recursive ones are compared one construct at a time; that a whole   *)
(* run is alike follows by looking at the last position where it is not.   *)
(***************************************************************************)
EXTENDS Prolog, XmlBytesProofs

\* What the parsers look for are bytes.
LEMMA Patterns ==
  /\ ByteOrderMark \in Seq(Symbols) /\ Len(ByteOrderMark) = 3
  /\ \A mark \in Utf16Marks : mark \in Seq(Symbols) /\ Len(mark) = 2
  /\ DeclOpen \in Seq(Symbols) /\ DeclOpen # <<>> /\ Len(DeclOpen) = 3
  /\ PiOpen \in Seq(Symbols) /\ PiOpen # <<>> /\ Len(PiOpen) = 2
  /\ PiClose \in Seq(Symbols) /\ PiClose # <<>> /\ Len(PiClose) = 2
  /\ CommentOpen \in Seq(Symbols) /\ CommentOpen # <<>> /\ Len(CommentOpen) = 4
  /\ CommentClose \in Seq(Symbols) /\ CommentClose # <<>> /\ Len(CommentClose) = 3
  /\ DoctypeOpen \in Seq(Symbols) /\ DoctypeOpen # <<>> /\ Len(DoctypeOpen) = 5
<1>1. {"EF", "BB", "BF", "FF", "FE", "<", "?", "xml", ">", "!", "-", "D", "OCT", "YPE"} \subseteq Symbols
  BY DEF Symbols, HighBytes, Words
<1>2. QED
  BY <1>1 DEF ByteOrderMark, Utf16Marks, DeclOpen, PiOpen, PiClose, CommentOpen, CommentClose,
              DoctypeOpen

(***************************************************************************)
(* find_doctype_end.                                                       *)
(***************************************************************************)
\* What it does at one position, with g for the rest of the search.
DoctypeBody(buf, g, i, subset) ==
    LET jump(past) == IF past = Nowhere THEN NeedsMore ELSE g[<<past, subset>>]
    IN IF i > Len(buf) THEN NeedsMore
       ELSE IF buf[i] \in Quotes THEN jump(PastFirst(buf, i + 1, <<buf[i]>>))
       ELSE IF StartsAt(buf, i, CommentOpen)
       THEN jump(PastFirst(buf, i + 4, CommentClose))
       ELSE IF buf[i] = "<" /\ Len(buf) < i + 3 THEN NeedsMore
       ELSE IF buf[i] = ">" /\ ~subset THEN At(i + 1)
       ELSE g[<<i + 1, IF buf[i] = "[" THEN TRUE ELSE subset /\ buf[i] # "]">>]

\* Two buffers of which find_doctype_end finds the end at i, and two in which it
\* looks at `next` in the state t after it has looked at i.
EndAlike(buf, full, i, subset) ==
    \A g, h : /\ DoctypeBody(buf, g, i, subset) = At(i + 1)
              /\ DoctypeBody(full, h, i, subset) = At(i + 1)

GoOnAlike(buf, full, i, subset, next, t) ==
    \A g, h : /\ DoctypeBody(buf, g, i, subset) = g[<<next, t>>]
              /\ DoctypeBody(full, h, i, subset) = h[<<next, t>>]

\* What find_doctype_end does at a position it also does in a longer buffer, unless
\* it asks for more.
LEMMA DoctypeStepGrown ==
  ASSUME NEW buf \in Seq(Symbols), NEW full \in Seq(Symbols), Grown(buf, full),
         NEW i \in Nat \ {0}, NEW subset \in BOOLEAN
  PROVE  \/ \A g : DoctypeBody(buf, g, i, subset) = NeedsMore
         \/ EndAlike(buf, full, i, subset)
         \/ \E next \in i + 1 .. Len(buf) + 1, t \in BOOLEAN :
               GoOnAlike(buf, full, i, subset, next, t)
<1>1. Len(buf) \in Nat /\ Len(full) \in Nat /\ Len(buf) <= Len(full)
  BY DEF Grown
<1>2. CASE i > Len(buf)
  BY <1>2 DEF DoctypeBody
<1>3. CASE ~(i > Len(buf))
  <2>1. i \in 1 .. Len(buf) /\ full[i] = buf[i] /\ ~(i > Len(full))
    BY <1>1, <1>3 DEF Grown
  <2>2. CASE buf[i] \in Quotes
    <3> DEFINE past == PastFirst(buf, i + 1, <<buf[i]>>)
    <3>1. CASE past = Nowhere
      BY <1>3, <2>2, <3>1, Zenon DEF DoctypeBody
    <3>2. CASE past # Nowhere
      <4>1. <<buf[i]>> \in Seq(Symbols) /\ <<buf[i]>> # <<>> /\ Len(<<buf[i]>>) = 1 /\ i + 1 \in Nat \ {0}
        <5>1. buf[i] \in Symbols
          BY <2>1, ElementOfSeq
        <5>2. QED
          BY <5>1
      <4>2. /\ PastFirst(full, i + 1, <<buf[i]>>) = past
            /\ past \in i + 1 + Len(<<buf[i]>>) .. Len(buf) + 1
        BY <3>2, <4>1, PastFirstGrown
      <4>3. past \in i + 1 .. Len(buf) + 1
        BY <1>1, <4>1, <4>2
      <4>4. \A g : DoctypeBody(buf, g, i, subset) = g[<<past, subset>>]
        BY <1>3, <2>2, <3>2, Zenon DEF DoctypeBody
      <4>5. \A h : DoctypeBody(full, h, i, subset) = h[<<past, subset>>]
        BY <2>1, <2>2, <3>2, <4>2, Zenon DEF DoctypeBody
      <4>6. QED
        BY <4>3, <4>4, <4>5, Zenon DEF GoOnAlike
    <3>3. QED
      BY <3>1, <3>2
  <2>3. CASE buf[i] \notin Quotes /\ buf[i] = "<"
    <3>1. CASE Len(buf) < i + 3
      <4>1. ~StartsAt(buf, i, CommentOpen)
        <5>1. ~(i + Len(CommentOpen) <= Len(buf) + 1)
          BY <1>1, <3>1, Patterns
        <5>2. QED
          BY <5>1, StartsAtIff, Patterns
      <4>2. QED
        BY <1>3, <2>3, <3>1, <4>1, Zenon DEF DoctypeBody
    <3>2. CASE ~(Len(buf) < i + 3)
      <4>1. StartsAt(buf, i, CommentOpen) <=> StartsAt(full, i, CommentOpen)
        <5>1. i + Len(CommentOpen) <= Len(buf) + 1
          BY <1>1, <3>2, Patterns
        <5>2. QED
          BY <5>1, StartsAtGrown, Patterns
      <4>2. ~(Len(full) < i + 3)
        BY <1>1, <3>2
      <4>3. CASE StartsAt(buf, i, CommentOpen)
        <5> DEFINE past == PastFirst(buf, i + 4, CommentClose)
        <5>1. CASE past = Nowhere
          BY <1>3, <2>3, <4>3, <5>1, Zenon DEF DoctypeBody
        <5>2. CASE past # Nowhere
          <6>1. i + 4 \in Nat \ {0}
            OBVIOUS
          <6>2. /\ PastFirst(full, i + 4, CommentClose) = past
                /\ past \in i + 4 + Len(CommentClose) .. Len(buf) + 1
            BY <5>2, <6>1, PastFirstGrown, Patterns
          <6>3. past \in i + 1 .. Len(buf) + 1
            BY <1>1, <6>2, Patterns
          <6>4. \A g : DoctypeBody(buf, g, i, subset) = g[<<past, subset>>]
            BY <1>3, <2>3, <4>3, <5>2, Zenon DEF DoctypeBody
          <6>5. \A h : DoctypeBody(full, h, i, subset) = h[<<past, subset>>]
            BY <2>1, <2>3, <4>1, <4>3, <5>2, <6>2, Zenon DEF DoctypeBody
          <6>6. QED
            BY <6>3, <6>4, <6>5, Zenon DEF GoOnAlike
        <5>3. QED
          BY <5>1, <5>2
      <4>4. CASE ~StartsAt(buf, i, CommentOpen)
        <5>1. i + 1 \in i + 1 .. Len(buf) + 1
          BY <1>1, <1>3
        <5>2. buf[i] # ">" /\ buf[i] # "[" /\ buf[i] # "]"
          BY <2>3
        <5>3. \A g : DoctypeBody(buf, g, i, subset) = g[<<i + 1, subset>>]
          BY <1>3, <2>3, <3>2, <4>4, <5>2 DEF DoctypeBody
        <5>4. \A h : DoctypeBody(full, h, i, subset) = h[<<i + 1, subset>>]
          BY <2>1, <2>3, <4>1, <4>2, <4>4, <5>2 DEF DoctypeBody
        <5>5. QED
          BY <5>1, <5>3, <5>4, Zenon DEF GoOnAlike
      <4>5. QED
        BY <4>3, <4>4
    <3>3. QED
      BY <3>1, <3>2
  <2>4. CASE buf[i] \notin Quotes /\ buf[i] # "<"
    <3> DEFINE t == IF buf[i] = "[" THEN TRUE ELSE subset /\ buf[i] # "]"
    <3>1. ~StartsAt(buf, i, CommentOpen) /\ ~StartsAt(full, i, CommentOpen)
      <4>1. CommentOpen[1] = "<" /\ 1 \in 1 .. Len(CommentOpen) /\ i + 1 - 1 = i
        BY Patterns DEF CommentOpen
      <4>2. CommentOpen \in Seq(Symbols) /\ i \in 1 .. Len(full)
        BY <1>1, <2>1, Patterns
      <4>3. QED
        BY <2>1, <2>4, <4>1, <4>2, StartsAtFits
    <3>2. CASE buf[i] = ">" /\ ~subset
      BY <1>3, <2>1, <2>4, <3>1, <3>2, Zenon DEF DoctypeBody, EndAlike
    <3>3. CASE ~(buf[i] = ">" /\ ~subset)
      <4>1. i + 1 \in i + 1 .. Len(buf) + 1
        BY <1>1, <1>3
      <4>2. t \in BOOLEAN
        BY Zenon
      <4>3. \A g : DoctypeBody(buf, g, i, subset) = g[<<i + 1, t>>]
        BY <1>3, <2>4, <3>1, <3>3, Zenon DEF DoctypeBody
      <4>4. \A h : DoctypeBody(full, h, i, subset) = h[<<i + 1, t>>]
        BY <2>1, <2>4, <3>1, <3>3, Zenon DEF DoctypeBody
      <4> HIDE DEF t
      <4>5. QED
        BY <4>1, <4>2, <4>3, <4>4, Zenon DEF GoOnAlike
    <3>4. QED
      BY <3>2, <3>3
  <2>5. QED
    BY <2>2, <2>3, <2>4
<1>4. QED
  BY <1>2, <1>3

\* The recursion defines a function.
LEMMA DoctypeFunction ==
  ASSUME NEW buf \in Seq(Symbols)
  PROVE  \E f : f = [at \in (Nat \ {0}) \X BOOLEAN |-> DoctypeBody(buf, f, at[1], at[2])]
<1> DEFINE D == (Nat \ {0}) \X BOOLEAN
           Body(g, at) == DoctypeBody(buf, g, at[1], at[2])
           Right(g, n) == \A at \in D : at[1] + n > Len(buf) => g[at] = Body(g, at)
           Reached == {n \in Nat : \E g : g = [at \in D |-> g[at]] /\ Right(g, n)}
<1>1. Len(buf) \in Nat
  OBVIOUS
<1>2. ASSUME NEW g, NEW h, NEW at \in D,
             \A j \in at[1] + 1 .. Len(buf) + 1, b \in BOOLEAN : g[<<j, b>>] = h[<<j, b>>]
      PROVE  Body(g, at) = Body(h, at)
  <2>1. at[1] \in Nat \ {0} /\ at[2] \in BOOLEAN
    OBVIOUS
  <2>2. CASE \E next \in at[1] + 1 .. Len(buf) + 1, t \in BOOLEAN :
                GoOnAlike(buf, buf, at[1], at[2], next, t)
    BY <1>2, <2>2, Zenon DEF GoOnAlike
  <2>3. CASE \A f : DoctypeBody(buf, f, at[1], at[2]) = NeedsMore
    BY <2>3, Zenon
  <2>4. CASE EndAlike(buf, buf, at[1], at[2])
    BY <2>4, Zenon DEF EndAlike
  <2>5. Grown(buf, buf)
    BY <1>1 DEF Grown
  <2>6. QED
    BY <2>1, <2>2, <2>3, <2>4, <2>5, DoctypeStepGrown
<1> HIDE DEF Body
<1>3. 0 \in Reached
  <2> DEFINE none == [at \in D |-> 0]
             g == [at \in D |-> Body(none, at)]
  <2>1. g = [at \in D |-> g[at]]
    OBVIOUS
  <2>2. \A at \in D : g[at] = Body(none, at)
    OBVIOUS
  <2> HIDE DEF g, none
  <2>3. ASSUME NEW at \in D, at[1] + 0 > Len(buf) PROVE g[at] = Body(g, at)
    <3>1. at[1] \in Nat \ {0}
      OBVIOUS
    <3>2. \A j \in at[1] + 1 .. Len(buf) + 1, b \in BOOLEAN : none[<<j, b>>] = g[<<j, b>>]
      BY <1>1, <2>3, <3>1
    <3>3. QED
      BY <1>2, <2>2, <3>2, ZenonT(30)
  <2>4. QED
    BY <2>1, <2>3
<1>4. ASSUME NEW n \in Reached PROVE n + 1 \in Reached
  <2>1. PICK g : g = [at \in D |-> g[at]] /\ Right(g, n)
    BY <1>4
  <2>2. n \in Nat
    BY <1>4
  <2> DEFINE h == [at \in D |-> Body(g, at)]
  <2>3. h = [at \in D |-> h[at]]
    OBVIOUS
  <2>4. \A at \in D : h[at] = Body(g, at)
    OBVIOUS
  <2> HIDE DEF h
  <2>5. ASSUME NEW at \in D, at[1] + (n + 1) > Len(buf) PROVE h[at] = Body(h, at)
    <3>1. at[1] \in Nat \ {0}
      OBVIOUS
    <3>2. ASSUME NEW j \in at[1] + 1 .. Len(buf) + 1, NEW b \in BOOLEAN
          PROVE  g[<<j, b>>] = h[<<j, b>>]
      <4>1. <<j, b>> \in D /\ <<j, b>>[1] = j
        BY <1>1, <3>1, <3>2
      <4>2. <<j, b>>[1] + n > Len(buf)
        BY <1>1, <2>2, <2>5, <3>1, <3>2
      <4>3. QED
        BY <2>1, <2>4, <4>1, <4>2, Zenon
    <3>3. Body(g, at) = Body(h, at)
      BY <1>2, <3>2
    <3>4. QED
      BY <2>4, <3>3
  <2>6. n + 1 \in Nat /\ Right(h, n + 1)
    BY <2>2, <2>5
  <2>7. QED
    BY <2>3, <2>6, Zenon
<1> HIDE DEF Reached
<1>5. \A n \in Nat : n \in Reached
  <2> DEFINE Missed == Nat \ Reached
  <2>1. SUFFICES ASSUME Missed # {} PROVE FALSE
    OBVIOUS
  <2>2. PICK n \in Missed : \A y \in Missed : n <= y
    BY <2>1, LeastNatural, Zenon
  <2>3. n \in Nat /\ n # 0
    BY <1>3, <2>2
  <2>4. PICK m \in Nat : n = m + 1
    BY <2>3
  <2>5. m \in Reached
    BY <2>2, <2>4
  <2>6. QED
    BY <1>4, <2>2, <2>4, <2>5
<1>6. Len(buf) + 1 \in Reached
  BY <1>1, <1>5
<1>7. PICK g : g = [at \in D |-> g[at]] /\ Right(g, Len(buf) + 1)
  BY <1>6 DEF Reached
<1>8. \A at \in D : g[at] = Body(g, at)
  <2> SUFFICES ASSUME NEW at \in D PROVE g[at] = Body(g, at)
    OBVIOUS
  <2>1. at[1] + (Len(buf) + 1) > Len(buf)
    BY <1>1
  <2>2. QED
    BY <1>7, <2>1
<1>9. g = [at \in D |-> Body(g, at)]
  BY <1>7, <1>8
<1>10. QED
  BY <1>9, Zenon DEF Body

\* find_doctype_end as a function of the position and the state.
DoctypeFrom(buf) ==
    CHOOSE f : f = [at \in (Nat \ {0}) \X BOOLEAN |-> DoctypeBody(buf, f, at[1], at[2])]

\* find_doctype_end is its body, applied to itself.
LEMMA FindDoctypeEndUnfolds ==
  ASSUME NEW buf \in Seq(Symbols), NEW from
  PROVE  /\ FindDoctypeEnd(buf, from) = DoctypeFrom(buf)[<<from + Len(DoctypeOpen), FALSE>>]
         /\ \A i \in Nat \ {0}, b \in BOOLEAN :
              DoctypeFrom(buf)[<<i, b>>] = DoctypeBody(buf, DoctypeFrom(buf), i, b)
<1> DEFINE f == DoctypeFrom(buf)
<1>1. FindDoctypeEnd(buf, from) = f[<<from + Len(DoctypeOpen), FALSE>>]
  BY Zenon DEF FindDoctypeEnd, DoctypeFrom, DoctypeBody
<1>2. f = [at \in (Nat \ {0}) \X BOOLEAN |-> DoctypeBody(buf, f, at[1], at[2])]
  BY DoctypeFunction, Zenon DEF DoctypeFrom
<1> HIDE DEF f
<1>3. ASSUME NEW i \in Nat \ {0}, NEW b \in BOOLEAN PROVE f[<<i, b>>] = DoctypeBody(buf, f, i, b)
  <2>1. <<i, b>> \in (Nat \ {0}) \X BOOLEAN /\ <<i, b>>[1] = i /\ <<i, b>>[2] = b
    OBVIOUS
  <2>2. f[<<i, b>>] = DoctypeBody(buf, f, <<i, b>>[1], <<i, b>>[2])
    BY <1>2, <2>1, Zenon
  <2>3. QED
    BY <2>1, <2>2
<1>4. QED
  BY <1>1, <1>3 DEF f

\* find_doctype_end on part of a DOCTYPE: it asks for more, or finds the end that is
\* the end in the longer buffer too, behind where it began and inside what it was
\* given.
LEMMA FindDoctypeEndGrown ==
  ASSUME NEW buf \in Seq(Symbols), NEW full \in Seq(Symbols), Grown(buf, full),
         NEW from \in Nat \ {0}
  PROVE  \/ FindDoctypeEnd(buf, from) = NeedsMore
         \/ /\ FindDoctypeEnd(full, from) = FindDoctypeEnd(buf, from)
            /\ \E pos \in from + 1 .. Len(buf) + 1 : FindDoctypeEnd(buf, from) = At(pos)
<1> DEFINE F == DoctypeFrom(buf)
           G == DoctypeFrom(full)
           Ends(i, b) == \E pos \in i .. Len(buf) + 1 : F[<<i, b>>] = At(pos)
           Good(i) == \A b \in BOOLEAN :
                        F[<<i, b>>] = NeedsMore \/ (G[<<i, b>>] = F[<<i, b>>] /\ Ends(i, b))
           begin == from + Len(DoctypeOpen)
<1>1. /\ \A i \in Nat \ {0}, b \in BOOLEAN : F[<<i, b>>] = DoctypeBody(buf, F, i, b)
      /\ \A i \in Nat \ {0}, b \in BOOLEAN : G[<<i, b>>] = DoctypeBody(full, G, i, b)
      /\ FindDoctypeEnd(buf, from) = F[<<begin, FALSE>>]
      /\ FindDoctypeEnd(full, from) = G[<<begin, FALSE>>]
  BY FindDoctypeEndUnfolds
<1> HIDE DEF F, G
<1>2. Len(buf) \in Nat /\ begin \in Nat \ {0} /\ begin > from
  BY Patterns
<1>3. ASSUME NEW i \in Nat \ {0}, \A j \in i + 1 .. Len(buf) + 1 : Good(j) PROVE Good(i)
  <2> SUFFICES ASSUME NEW b \in BOOLEAN, F[<<i, b>>] # NeedsMore
               PROVE  G[<<i, b>>] = F[<<i, b>>] /\ Ends(i, b)
    OBVIOUS
  <2>1. /\ F[<<i, b>>] = DoctypeBody(buf, F, i, b)
        /\ G[<<i, b>>] = DoctypeBody(full, G, i, b)
    BY <1>1
  <2>2. CASE EndAlike(buf, full, i, b)
    <3>1. F[<<i, b>>] = At(i + 1) /\ G[<<i, b>>] = At(i + 1)
      BY <2>1, <2>2, Zenon DEF EndAlike
    <3>2. i <= Len(buf)
      <4>1. SUFFICES ASSUME i > Len(buf) PROVE FALSE
        BY <1>2
      <4>2. DoctypeBody(buf, F, i, b) = NeedsMore
        BY <4>1, Zenon DEF DoctypeBody
      <4>3. QED
        BY <2>1, <4>2
    <3>3. i + 1 \in i .. Len(buf) + 1
      BY <1>2, <3>2
    <3>4. QED
      BY <3>1, <3>3, Zenon
  <2>3. CASE \E next \in i + 1 .. Len(buf) + 1, t \in BOOLEAN :
                GoOnAlike(buf, full, i, b, next, t)
    <3>1. PICK next \in i + 1 .. Len(buf) + 1, t \in BOOLEAN :
             GoOnAlike(buf, full, i, b, next, t)
      BY <2>3, Zenon
    <3>2. F[<<i, b>>] = F[<<next, t>>] /\ G[<<i, b>>] = G[<<next, t>>]
      BY <2>1, <3>1, Zenon DEF GoOnAlike
    <3>3. G[<<next, t>>] = F[<<next, t>>] /\ Ends(next, t)
      BY <1>3, <3>1, <3>2, Zenon
    <3>4. PICK pos \in next .. Len(buf) + 1 : F[<<next, t>>] = At(pos)
      BY <3>3, Zenon
    <3>5. pos \in i .. Len(buf) + 1
      BY <1>2, <3>1, <3>4
    <3>6. QED
      BY <3>2, <3>3, <3>4, <3>5, Zenon
  <2>4. ~ \A g : DoctypeBody(buf, g, i, b) = NeedsMore
    BY <2>1, Zenon
  <2>5. QED
    BY <2>2, <2>3, <2>4, DoctypeStepGrown
<1> HIDE DEF Good
<1>4. Good(begin)
  <2> DEFINE T == {i \in Nat \ {0} : Good(i)}
  <2>1. \A i \in Nat \ {0} : (\A j \in i + 1 .. Len(buf) + 1 : j \in T) => i \in T
    BY <1>3
  <2> HIDE DEF T
  <2>2. begin \in T
    BY <1>2, <2>1, Backwards
  <2>3. QED
    BY <2>2 DEF T
<1>5. CASE F[<<begin, FALSE>>] = NeedsMore
  BY <1>1, <1>5
<1>6. CASE F[<<begin, FALSE>>] # NeedsMore
  <2>1. G[<<begin, FALSE>>] = F[<<begin, FALSE>>] /\ Ends(begin, FALSE)
    BY <1>4, <1>6, Zenon DEF Good
  <2>2. PICK pos \in begin .. Len(buf) + 1 : F[<<begin, FALSE>>] = At(pos)
    BY <2>1, Zenon
  <2>3. pos \in from + 1 .. Len(buf) + 1
    BY <1>2, <2>2
  <2>4. QED
    BY <1>1, <2>1, <2>2, <2>3, Zenon
<1>7. QED
  BY <1>5, <1>6

(***************************************************************************)
(* Looking at the bytes at one position: what they are, and what they may  *)
(* become when more follows.                                               *)
(***************************************************************************)
\* A byte in reach that is not the pattern's.
Mismatch(buf, i, pattern) ==
    \E k \in 1 .. Len(pattern) : i + k <= Len(buf) + 1 /\ buf[i + k - 1] # pattern[k]

\* The pattern can no longer come to stand at i: the test of classify_prolog.
LEMMA MismatchIff ==
  ASSUME NEW S, NEW buf \in Seq(S), NEW pattern \in Seq(S), pattern # <<>>, NEW i \in 1 .. Len(buf)
  PROVE  Mismatch(buf, i, pattern) <=> ~StartsAt(buf, i, pattern) /\ ~MayBecome(buf, i, pattern)
<1> DEFINE rest == SubSeq(buf, i, Len(buf))
<1>1. Len(buf) \in Nat /\ Len(pattern) \in Nat /\ i \in Nat \ {0}
  OBVIOUS
<1>2. /\ rest \in Seq(S) /\ Len(rest) = Len(buf) - i + 1
      /\ \A k \in 1 .. Len(rest) : rest[k] = buf[i + k - 1]
  BY <1>1, SubSeqProperties, ElementOfSeq
<1> HIDE DEF rest
<1>3. StartsAt(buf, i, pattern) <=>
         /\ i + Len(pattern) <= Len(buf) + 1
         /\ \A k \in 1 .. Len(pattern) : buf[i + k - 1] = pattern[k]
  BY <1>1, StartsAtIff
<1>4. MayBecome(buf, i, pattern) <=> Len(rest) <= Len(pattern) /\ SubSeq(rest, 1, Len(rest)) = SubSeq(pattern, 1, Len(rest))
  BY DEF MayBecome, IsPrefix, rest
<1>5. Len(rest) \in Nat
  BY <1>2
<1>6. ASSUME Len(rest) <= Len(pattern)
      PROVE  MayBecome(buf, i, pattern) <=> \A k \in 1 .. Len(rest) : rest[k] = pattern[k]
  <2>1. /\ SubSeq(rest, 1, Len(rest)) \in Seq(S)
        /\ Len(SubSeq(rest, 1, Len(rest))) = Len(rest)
        /\ \A k \in 1 .. Len(rest) : SubSeq(rest, 1, Len(rest))[k] = rest[k]
    BY <1>2, <1>5, SubSeqProperties, ElementOfSeq
  <2>2. /\ SubSeq(pattern, 1, Len(rest)) \in Seq(S)
        /\ Len(SubSeq(pattern, 1, Len(rest))) = Len(rest)
        /\ \A k \in 1 .. Len(rest) : SubSeq(pattern, 1, Len(rest))[k] = pattern[k]
    BY <1>1, <1>5, <1>6, SubSeqProperties, ElementOfSeq
  <2>3. (\A k \in 1 .. Len(rest) : rest[k] = pattern[k])
            => SubSeq(rest, 1, Len(rest)) = SubSeq(pattern, 1, Len(rest))
    BY <2>1, <2>2, SeqEqual
  <2>4. SubSeq(rest, 1, Len(rest)) = SubSeq(pattern, 1, Len(rest))
            => \A k \in 1 .. Len(rest) : rest[k] = pattern[k]
    BY <2>1, <2>2
  <2>5. QED
    BY <1>4, <1>6, <2>3, <2>4
<1>7. CASE i + Len(pattern) <= Len(buf) + 1
  <2>1. MayBecome(buf, i, pattern) => StartsAt(buf, i, pattern)
    <3> SUFFICES ASSUME MayBecome(buf, i, pattern) PROVE StartsAt(buf, i, pattern)
      OBVIOUS
    <3>1. Len(rest) = Len(pattern)
      BY <1>1, <1>2, <1>4, <1>7
    <3>2. QED
      BY <1>2, <1>3, <1>6, <1>7, <3>1
  <2>2. \A k \in 1 .. Len(pattern) : i + k <= Len(buf) + 1
    BY <1>1, <1>7
  <2>3. QED
    BY <1>3, <1>7, <2>1, <2>2 DEF Mismatch
<1>8. CASE ~(i + Len(pattern) <= Len(buf) + 1)
  <2>1. Len(rest) <= Len(pattern)
    BY <1>1, <1>2, <1>8
  <2>2. \A k \in 1 .. Len(pattern) : i + k <= Len(buf) + 1 <=> k \in 1 .. Len(rest)
    BY <1>1, <1>2
  <2>3. \A k \in 1 .. Len(rest) : k \in 1 .. Len(pattern)
    BY <1>1, <1>2, <2>1
  <2>4. QED
    BY <1>2, <1>3, <1>6, <1>8, <2>1, <2>2, <2>3 DEF Mismatch
<1>9. QED
  BY <1>7, <1>8

\* A mismatch stays one.
LEMMA MismatchGrown ==
  ASSUME NEW S, NEW buf \in Seq(S), NEW full \in Seq(S), Grown(buf, full),
         NEW pattern \in Seq(S), pattern # <<>>, NEW i \in 1 .. Len(buf),
         ~StartsAt(buf, i, pattern), ~MayBecome(buf, i, pattern)
  PROVE  ~StartsAt(full, i, pattern) /\ ~MayBecome(full, i, pattern)
<1>1. Len(buf) \in Nat /\ Len(full) \in Nat /\ Len(buf) <= Len(full) /\ i \in 1 .. Len(full)
  BY DEF Grown
<1>2. PICK k \in 1 .. Len(pattern) : i + k <= Len(buf) + 1 /\ buf[i + k - 1] # pattern[k]
  BY MismatchIff DEF Mismatch
<1>3. i + k - 1 \in 1 .. Len(buf) /\ i + k <= Len(full) + 1
  BY <1>1, <1>2
<1>4. full[i + k - 1] = buf[i + k - 1]
  BY <1>3 DEF Grown
<1>5. Mismatch(full, i, pattern)
  BY <1>2, <1>3, <1>4 DEF Mismatch
<1>6. QED
  BY <1>1, <1>5, MismatchIff

\* What a buffer begins with is what starts at its first byte.
LEMMA AtFront ==
  ASSUME NEW S, NEW buf \in Seq(S), NEW pattern \in Seq(S)
  PROVE  IsPrefix(pattern, buf) <=> StartsAt(buf, 1, pattern)
<1>1. Len(buf) \in Nat
  OBVIOUS
<1>2. SubSeq(buf, 1, Len(buf)) = buf
  <2>1. /\ SubSeq(buf, 1, Len(buf)) \in Seq(S)
        /\ Len(SubSeq(buf, 1, Len(buf))) = Len(buf)
        /\ \A k \in 1 .. Len(buf) : SubSeq(buf, 1, Len(buf))[k] = buf[k]
    BY <1>1, SubSeqProperties, ElementOfSeq
  <2>2. QED
    BY <2>1, SeqEqual
<1>3. QED
  BY <1>2 DEF StartsAt

(***************************************************************************)
(* The byte order mark and the declaration.                                *)
(***************************************************************************)
\* try_parse_prelude is past them at pos, or the encoding is wrong.
BeginAnswer(buf, answer) == answer = BadEncoding \/ \E pos \in 1 .. Len(buf) + 1 : answer = At(pos)

\* The XML declaration behind the mark, in what was read and in more of it.
LEMMA TryDeclGrown ==
  ASSUME NEW buf \in Seq(Symbols), NEW full \in Seq(Symbols), Grown(buf, full),
         NEW i \in Nat \ {0}
  PROVE  \/ TryDecl(buf, i) = NeedsMore
         \/ TryDecl(full, i) = TryDecl(buf, i) /\ BeginAnswer(buf, TryDecl(buf, i))
<1> DEFINE body == i + Len(DeclOpen)
           past == PastFirst(buf, i + 2, PiClose)
<1>1. Len(buf) \in Nat /\ Len(full) \in Nat /\ Len(buf) <= Len(full)
      /\ \A j \in 1 .. Len(buf) : full[j] = buf[j]
  BY DEF Grown
<1>2. body = i + 3
  BY Patterns
<1>3. CASE Len(buf) < i + 1
  BY <1>3 DEF TryDecl
<1>4. CASE ~(Len(buf) < i + 1) /\ ~StartsAt(buf, i, DeclOpen) /\ MayBecome(buf, i, DeclOpen)
  BY <1>4 DEF TryDecl
<1>5. CASE ~(Len(buf) < i + 1) /\ ~StartsAt(buf, i, DeclOpen) /\ ~MayBecome(buf, i, DeclOpen)
  <2>1. ~(Len(full) < i + 1) /\ i \in 1 .. Len(buf) /\ i \in 1 .. Len(buf) + 1
    BY <1>1, <1>5
  <2>2. ~StartsAt(full, i, DeclOpen) /\ ~MayBecome(full, i, DeclOpen)
    BY <1>5, <2>1, MismatchGrown, Patterns
  <2>3. TryDecl(buf, i) = At(i) /\ TryDecl(full, i) = At(i)
    BY <1>5, <2>1, <2>2, Zenon DEF TryDecl
  <2>4. QED
    BY <2>1, <2>3, Zenon DEF BeginAnswer
<1>6. CASE ~(Len(buf) < i + 1) /\ StartsAt(buf, i, DeclOpen)
  <2>1. CASE body > Len(buf)
    BY <1>6, <2>1 DEF TryDecl
  <2>2. CASE ~(body > Len(buf))
    <3>1. /\ ~(Len(full) < i + 1) /\ ~(body > Len(full)) /\ body \in 1 .. Len(buf)
          /\ i \in 1 .. Len(buf) + 1 /\ i + Len(DeclOpen) <= Len(buf) + 1
      BY <1>1, <1>2, <1>6, <2>2
    <3>2. StartsAt(full, i, DeclOpen)
      BY <1>6, <3>1, StartsAtGrown, Patterns
    <3>3. full[body] = buf[body]
      BY <1>1, <3>1
    <3>4. CASE ~IsDeclBody(buf[body])
      <4>1. TryDecl(buf, i) = At(i) /\ TryDecl(full, i) = At(i)
        BY <1>6, <2>2, <3>1, <3>2, <3>3, <3>4, Zenon DEF TryDecl
      <4>2. QED
        BY <3>1, <4>1, Zenon DEF BeginAnswer
    <3>5. CASE IsDeclBody(buf[body]) /\ past = Nowhere
      BY <1>6, <2>2, <3>5, Zenon DEF TryDecl
    <3>6. CASE IsDeclBody(buf[body]) /\ past # Nowhere
      <4>1. i + 2 \in Nat \ {0}
        OBVIOUS
      <4>2. /\ PastFirst(full, i + 2, PiClose) = past
            /\ past \in i + 2 + Len(PiClose) .. Len(buf) + 1
        BY <3>6, <4>1, PastFirstGrown, Patterns
      <4>3. past \in 1 .. Len(buf) + 1
        BY <1>1, <4>2, Patterns
      <4> HIDE DEF past
      <4>4. SubSeq(full, body, past - 3) = SubSeq(buf, body, past - 3)
        <5>1. body \in Nat \ {0}
          BY <3>1
        <5>2. PICK z \in Int : z = past - 3 /\ z <= Len(buf)
          BY <1>1, <4>3
        <5>3. SubSeq(full, body, z) = SubSeq(buf, body, z)
          BY <5>1, <5>2, SliceGrown, ZenonT(40)
        <5>4. QED
          BY <5>2, <5>3
      <4>5. TryDecl(buf, i) = Declaration(buf, body, past)
        BY <1>6, <2>2, <3>6, Zenon DEF TryDecl, past
      <4>6. TryDecl(full, i) = Declaration(full, body, past)
        BY <3>1, <3>2, <3>3, <3>6, <4>2, Zenon DEF TryDecl, past
      <4>7. Declaration(full, body, past) = Declaration(buf, body, past)
        BY <4>4, Zenon DEF Declaration
      <4>8. Declaration(buf, body, past) \in {At(past), BadEncoding}
        BY Zenon DEF Declaration
      <4>9. QED
        BY <4>3, <4>5, <4>6, <4>7, <4>8, Zenon DEF BeginAnswer
    <3>7. QED
      BY <3>4, <3>5, <3>6
  <2>3. QED
    BY <2>1, <2>2
<1>7. QED
  BY <1>3, <1>4, <1>5, <1>6

\* The mark and the declaration together.
LEMMA TryBomAndDeclGrown ==
  ASSUME NEW buf \in Seq(Symbols), NEW full \in Seq(Symbols), Grown(buf, full)
  PROVE  \/ TryBomAndDecl(buf) = NeedsMore
         \/ /\ TryBomAndDecl(full) = TryBomAndDecl(buf)
            /\ BeginAnswer(buf, TryBomAndDecl(buf))
<1>1. Len(buf) \in Nat /\ Len(full) \in Nat /\ Len(buf) <= Len(full)
      /\ \A j \in 1 .. Len(buf) : full[j] = buf[j]
  BY DEF Grown
<1>2. /\ IsPrefix(ByteOrderMark, buf) <=> StartsAt(buf, 1, ByteOrderMark)
      /\ IsPrefix(ByteOrderMark, full) <=> StartsAt(full, 1, ByteOrderMark)
      /\ ByteOrderMark \in Seq(Symbols) /\ ByteOrderMark # <<>> /\ Len(ByteOrderMark) = 3
  BY AtFront, Patterns
<1>3. \/ TryDecl(buf, 1) = NeedsMore
      \/ TryDecl(full, 1) = TryDecl(buf, 1) /\ BeginAnswer(buf, TryDecl(buf, 1))
  <2>1. 1 \in Nat \ {0}
    OBVIOUS
  <2>2. QED
    BY <2>1, TryDeclGrown
<1>4. \/ TryDecl(buf, 4) = NeedsMore
      \/ TryDecl(full, 4) = TryDecl(buf, 4) /\ BeginAnswer(buf, TryDecl(buf, 4))
  <2>1. 4 \in Nat \ {0}
    OBVIOUS
  <2>2. QED
    BY <2>1, TryDeclGrown
<1>5. CASE Len(buf) < 2
  <2>1. ~IsPrefix(ByteOrderMark, buf)
    BY <1>1, <1>2, <1>5 DEF IsPrefix
  <2>2. ~IsUtf16(buf)
    <3>1. ASSUME NEW mark \in Utf16Marks, IsPrefix(mark, buf) PROVE FALSE
      <4>1. Len(mark) <= Len(buf)
        BY <3>1, Zenon DEF IsPrefix
      <4>2. Len(mark) = 2
        BY <3>1, Patterns
      <4>3. QED
        BY <1>1, <1>5, <4>1, <4>2
    <3>2. QED
      BY <3>1, Zenon DEF IsUtf16
  <2>3. TryDecl(buf, 1) = NeedsMore
    BY <1>1, <1>5 DEF TryDecl
  <2>4. QED
    BY <2>1, <2>2, <2>3, Zenon DEF TryBomAndDecl
<1>6. CASE ~(Len(buf) < 2)
  <2>1. 1 \in 1 .. Len(buf) /\ 2 \in 1 .. Len(buf) /\ 1 \in Nat \ {0}
    BY <1>1, <1>6
  <2>2. ASSUME NEW mark \in Utf16Marks
        PROVE  /\ IsPrefix(mark, buf) <=> StartsAt(buf, 1, mark)
               /\ IsPrefix(mark, buf) <=> IsPrefix(mark, full)
    <3>1. mark \in Seq(Symbols) /\ Len(mark) = 2 /\ mark # <<>> /\ 1 + Len(mark) <= Len(buf) + 1
      BY <1>1, <1>6, Patterns
    <3>2. StartsAt(buf, 1, mark) <=> StartsAt(full, 1, mark)
      BY <2>1, <3>1, StartsAtGrown
    <3>3. QED
      BY <3>1, <3>2, AtFront
  <2>3. IsUtf16(buf) <=> IsUtf16(full)
    BY <2>2 DEF IsUtf16
  <2>4. CASE IsPrefix(ByteOrderMark, buf)
    <3>1. 1 + Len(ByteOrderMark) <= Len(buf) + 1
      BY <1>1, <1>2, <2>4 DEF IsPrefix
    <3>2. IsPrefix(ByteOrderMark, full)
      BY <1>2, <2>1, <2>4, <3>1, StartsAtGrown
    <3>3. TryBomAndDecl(buf) = TryDecl(buf, 4) /\ TryBomAndDecl(full) = TryDecl(full, 4)
      BY <2>4, <3>2, Zenon DEF TryBomAndDecl
    <3>4. QED
      BY <1>4, <3>3
  <2>5. CASE ~IsPrefix(ByteOrderMark, buf) /\ IsUtf16(buf)
    <3>1. PICK mark \in Utf16Marks : StartsAt(buf, 1, mark)
      BY <2>2, <2>5 DEF IsUtf16
    <3>2. buf[1] = mark[1]
      <4>1. mark \in Seq(Symbols) /\ 1 \in 1 .. Len(mark)
        BY Patterns
      <4>2. buf[1 + 1 - 1] = mark[1]
        BY <2>1, <3>1, <4>1, StartsAtFits
      <4>3. QED
        BY <4>2
    <3>3. full[1] # ByteOrderMark[1]
      BY <1>1, <2>1, <3>2 DEF Utf16Marks, ByteOrderMark
    <3>4. ~IsPrefix(ByteOrderMark, full)
      <4>1. SUFFICES ASSUME StartsAt(full, 1, ByteOrderMark) PROVE FALSE
        BY <1>2
      <4>2. 1 \in 1 .. Len(full) /\ 1 \in 1 .. Len(ByteOrderMark)
        BY <1>1, <1>2, <2>1
      <4>3. full[1 + 1 - 1] = ByteOrderMark[1]
        BY <1>2, <4>1, <4>2, StartsAtFits
      <4>4. QED
        BY <3>3, <4>3
    <3>5. TryBomAndDecl(buf) = BadEncoding /\ TryBomAndDecl(full) = BadEncoding
      BY <2>3, <2>5, <3>4, Zenon DEF TryBomAndDecl
    <3>6. QED
      BY <3>5 DEF BeginAnswer
  <2>6. CASE ~IsPrefix(ByteOrderMark, buf) /\ ~IsUtf16(buf) /\ MayBecome(buf, 1, ByteOrderMark)
    BY <2>6, Zenon DEF TryBomAndDecl
  <2>7. CASE ~IsPrefix(ByteOrderMark, buf) /\ ~IsUtf16(buf) /\ ~MayBecome(buf, 1, ByteOrderMark)
    <3>1. ~StartsAt(full, 1, ByteOrderMark) /\ ~MayBecome(full, 1, ByteOrderMark)
      BY <1>2, <2>1, <2>7, MismatchGrown
    <3>2. TryBomAndDecl(buf) = TryDecl(buf, 1) /\ TryBomAndDecl(full) = TryDecl(full, 1)
      BY <1>2, <2>3, <2>7, <3>1, Zenon DEF TryBomAndDecl
    <3>3. QED
      BY <1>3, <3>2
  <2>8. QED
    BY <2>4, <2>5, <2>6, <2>7
<1>7. QED
  BY <1>5, <1>6

(***************************************************************************)
(* classify_prolog.                                                        *)
(***************************************************************************)
\* It asks for more, or what it says stays so.
LEMMA ClassifyGrown ==
  ASSUME NEW buf \in Seq(Symbols), NEW full \in Seq(Symbols), Grown(buf, full),
         NEW i \in 1 .. Len(buf)
  PROVE  \/ ClassifyProlog(buf, i) = "more"
         \/ ClassifyProlog(full, i) = ClassifyProlog(buf, i)
<1> DEFINE length == Len(buf) - i + 1
           fullLength == Len(full) - i + 1
<1>1. Len(buf) \in Nat /\ Len(full) \in Nat /\ Len(buf) <= Len(full) /\ i \in Nat \ {0}
      /\ full[i] = buf[i]
  BY DEF Grown
<1>2. CASE buf[i] # "<"
  BY <1>1, <1>2, Zenon DEF ClassifyProlog
<1>3. CASE buf[i] = "<" /\ length < 2
  BY <1>3, Zenon DEF ClassifyProlog
<1>4. CASE buf[i] = "<" /\ ~(length < 2)
  <2>1. ~(fullLength < 2) /\ i + 1 \in 1 .. Len(buf)
    BY <1>1, <1>4
  <2>2. full[i + 1] = buf[i + 1]
    BY <2>1 DEF Grown
  <2>3. CASE buf[i + 1] # "!"
    BY <1>1, <1>4, <2>1, <2>2, <2>3, Zenon DEF ClassifyProlog
  <2>4. CASE buf[i + 1] = "!" /\ length < 4
    <3>1. buf[i + 1] # "?"
      BY <2>4
    <3>2. QED
      BY <1>4, <2>4, <3>1, Zenon DEF ClassifyProlog
  <2>5. CASE buf[i + 1] = "!" /\ ~(length < 4)
    <3>1. buf[i + 1] # "?" /\ ~(fullLength < 4) /\ i + Len(CommentOpen) <= Len(buf) + 1
      BY <1>1, <2>5, Patterns
    <3>2. StartsAt(buf, i, CommentOpen) <=> StartsAt(full, i, CommentOpen)
      BY <1>1, <3>1, StartsAtGrown, Patterns
    <3> DEFINE rest(b) == IF StartsAt(b, i, DoctypeOpen) THEN "Doctype"
                          ELSE IF MayBecome(b, i, DoctypeOpen) THEN "more" ELSE "malformed"
    <3>3. ClassifyProlog(buf, i) = IF StartsAt(buf, i, CommentOpen) THEN "Comment" ELSE rest(buf)
      BY <1>4, <2>5, <3>1, Zenon DEF ClassifyProlog
    <3>4. ClassifyProlog(full, i) = IF StartsAt(full, i, CommentOpen) THEN "Comment" ELSE rest(full)
      BY <1>1, <1>4, <2>1, <2>2, <2>5, <3>1, Zenon DEF ClassifyProlog
    <3>5. rest(buf) = "more" \/ rest(full) = rest(buf)
      <4>1. CASE StartsAt(buf, i, DoctypeOpen)
        <5>1. i + Len(DoctypeOpen) <= Len(buf) + 1
          BY <4>1, StartsAtFits, Patterns
        <5>2. StartsAt(full, i, DoctypeOpen)
          BY <1>1, <4>1, <5>1, StartsAtGrown, Patterns
        <5>3. QED
          BY <4>1, <5>2, Zenon
      <4>2. CASE ~StartsAt(buf, i, DoctypeOpen) /\ MayBecome(buf, i, DoctypeOpen)
        BY <4>2, Zenon
      <4>3. CASE ~StartsAt(buf, i, DoctypeOpen) /\ ~MayBecome(buf, i, DoctypeOpen)
        <5>1. ~StartsAt(full, i, DoctypeOpen) /\ ~MayBecome(full, i, DoctypeOpen)
          BY <4>3, MismatchGrown, Patterns
        <5>2. QED
          BY <4>3, <5>1, Zenon
      <4>4. QED
        BY <4>1, <4>2, <4>3
    <3> HIDE DEF rest
    <3>6. QED
      BY <3>2, <3>3, <3>4, <3>5, Zenon
  <2>6. QED
    BY <2>3, <2>4, <2>5
<1>5. QED
  BY <1>2, <1>3, <1>4

\* It names a construct, asks for more, or refuses.
LEMMA ClassifyAnswers ==
  ASSUME NEW buf, NEW i
  PROVE  ClassifyProlog(buf, i) \in {"Comment", "Doctype", "Pi", "Root", "more", "malformed"}
BY Zenon DEF ClassifyProlog

(***************************************************************************)
(* try_parse_root_tag.                                                     *)
(***************************************************************************)
\* What try_parse_prelude may answer, given the bytes of buf.
Answer(buf, answer) ==
    \/ answer \in {Malformed, BadEncoding}
    \/ \E pos \in 2 .. Len(buf) + 1 : \E root, ns, slash, entities :
         answer = [verdict |-> "ok", root |-> root, ns |-> ns, slash |-> slash, pos |-> pos,
                   entities |-> entities]

\* It asks for more, or has the answer that it gets from all of the document.
LEMMA TryParseRootTagGrown ==
  ASSUME NEW buf \in Seq(Symbols), NEW full \in Seq(Symbols), Grown(buf, full),
         NEW i \in Nat \ {0}
  PROVE  \/ TryParseRootTag(buf, i) = NeedsMore
         \/ /\ TryParseRootTag(full, i) = TryParseRootTag(buf, i)
            /\ Answer(buf, TryParseRootTag(buf, i))
<1> DEFINE end == NameEnd(buf, i + 1)
           name == EndTagName(buf, i + 1)
           tag == ScanAttrs(buf, end, NeedsMore)
<1>1. Len(buf) \in Nat /\ Len(full) \in Nat /\ Len(buf) <= Len(full) /\ i + 1 \in Nat \ {0}
  BY DEF Grown
<1>2. end \in Nat
  BY NameEndMovesOn, <1>1
<1>3. CASE end > Len(buf)
  BY <1>3, Zenon DEF TryParseRootTag
<1>4. CASE ~(end > Len(buf))
  <2>1. NameEnd(full, i + 1) = end /\ end \in i + 1 .. Len(buf)
    BY <1>1, <1>2, <1>4, NameEndGrown
  <2>2. ~(end > Len(full)) /\ end \in Nat \ {0}
    BY <1>1, <2>1
  <2>3. EndTagName(full, i + 1) = name
    <3>1. PICK z \in Int : z = end - 1 /\ z <= Len(buf)
      BY <1>1, <2>1
    <3>2. SubSeq(full, i + 1, z) = SubSeq(buf, i + 1, z)
      BY <1>1, <3>1, SliceGrown, ZenonT(40)
    <3>3. QED
      BY <2>1, <3>1, <3>2 DEF EndTagName
  <2>4. tag = NeedsMore \/ ScanAttrs(full, end, NeedsMore) = tag
    BY <2>2, ScanAttrsGrown
  <2>5. tag \in {NeedsMore, Malformed, BadEncoding} \/ AttrsAnswer(buf, end, tag)
    <3>1. NeedsMore.verdict # "at"
      BY DEF NeedsMore
    <3>2. QED
      BY <2>2, <3>1, ScanAttrsAnswers
  <2> HIDE DEF end, name, tag
  <2> DEFINE ok == MakePrelude(name, tag)
             answer == IF tag.verdict # "at" THEN tag ELSE ok
  <2>6. TryParseRootTag(buf, i) = IF ~IsUtf8(name) THEN BadEncoding ELSE answer
    BY <1>4, Zenon DEF TryParseRootTag, end, name, tag
  <2>7. TryParseRootTag(full, i) =
           IF ~IsUtf8(name) THEN BadEncoding
           ELSE IF ScanAttrs(full, end, NeedsMore).verdict # "at"
           THEN ScanAttrs(full, end, NeedsMore)
           ELSE MakePrelude(name, ScanAttrs(full, end, NeedsMore))
    BY <2>1, <2>2, <2>3, Zenon DEF TryParseRootTag
  <2>8. CASE ~IsUtf8(name)
    BY <2>6, <2>7, <2>8 DEF Answer
  <2>9. CASE IsUtf8(name) /\ tag \in {NeedsMore, Malformed, BadEncoding}
    <3>1. TryParseRootTag(buf, i) = tag
      <4>1. tag.verdict # "at"
        BY <2>9 DEF NeedsMore, Malformed, BadEncoding
      <4>2. QED
        BY <2>6, <2>9, <4>1, Zenon
    <3>2. CASE tag = NeedsMore
      BY <3>1, <3>2
    <3>3. CASE tag # NeedsMore
      <4>1. TryParseRootTag(full, i) = tag
        <5>1. tag.verdict # "at"
          BY <2>9 DEF NeedsMore, Malformed, BadEncoding
        <5>2. QED
          BY <2>4, <2>7, <2>9, <3>3, <5>1, Zenon
      <4>2. QED
        BY <2>9, <3>1, <3>3, <4>1 DEF Answer
    <3>4. QED
      BY <3>2, <3>3
  <2>10. CASE IsUtf8(name) /\ AttrsAnswer(buf, end, tag)
    <3>1. PICK pos \in end + 1 .. Len(buf) + 1, slash \in BOOLEAN : \E ns :
             tag = [verdict |-> "at", pos |-> pos, slash |-> slash, ns |-> ns]
      BY <2>10, Zenon DEF AttrsAnswer
    <3>2. PICK ns : tag = [verdict |-> "at", pos |-> pos, slash |-> slash, ns |-> ns]
      BY <3>1
    <3>3. tag.verdict = "at"
      BY <3>2
    <3>4. tag # NeedsMore
      BY <3>3 DEF NeedsMore
    <3>5. TryParseRootTag(buf, i) = ok /\ TryParseRootTag(full, i) = ok
      BY <2>4, <2>6, <2>7, <2>10, <3>3, <3>4, Zenon
    <3>6. ok = [verdict |-> "ok", root |-> name, ns |-> ns, slash |-> slash, pos |-> pos,
                entities |-> NoEntities]
      BY <3>2 DEF MakePrelude
    <3>7. pos \in 2 .. Len(buf) + 1
      BY <1>1, <2>1, <3>1
    <3> HIDE DEF ok
    <3>8. QED
      BY <3>5, <3>6, <3>7, Zenon DEF Answer
  <2>11. QED
    BY <2>5, <2>8, <2>9, <2>10
<1>5. QED
  BY <1>3, <1>4

(***************************************************************************)
(* try_parse_prelude, one construct at a time, as find_doctype_end above.  *)
(***************************************************************************)
\* What it does with the construct at `start`, with g for what follows.
PreludeBody(buf, g, start) ==
    LET i == SkipWs(buf, start)
        class == ClassifyProlog(buf, i)
        skip(here) == IF here.verdict = "at" THEN g[here.pos] ELSE here
        end == FindDoctypeEnd(buf, i)
    IN IF i > Len(buf) THEN NeedsMore
       ELSE CASE class = "Comment" -> skip(MayEnd(PastFirst(buf, i + 4, CommentClose)))
              [] class = "Pi" -> skip(MayEnd(PastFirst(buf, i + 2, PiClose)))
              [] class = "Doctype" ->
                   IF end.verdict # "at" THEN end
                   ELSE Behind(ParseDoctypeEntities(SubSeq(buf, i, end.pos - 1)), g[end.pos])
              [] class = "Root" -> TryParseRootTag(buf, i)
              [] OTHER -> [verdict |-> class]

\* Two buffers of which what stands at `start` is the answer, is skipped, or is a
\* DOCTYPE with these entities.
AnswerAlike(buf, full, start) ==
    /\ \A g, h : PreludeBody(buf, g, start) = PreludeBody(full, h, start)
    /\ \A g : Answer(buf, PreludeBody(buf, g, start))

SkipAlike(buf, full, start, next) ==
    \A g, h : /\ PreludeBody(buf, g, start) = g[next]
              /\ PreludeBody(full, h, start) = h[next]

DoctypeAlike(buf, full, start, next, entities) ==
    \A g, h : /\ PreludeBody(buf, g, start) = Behind(entities, g[next])
              /\ PreludeBody(full, h, start) = Behind(entities, h[next])

\* A construct that ends at the first occurrence of a pattern.
LEMMA SkipGrown ==
  ASSUME NEW buf \in Seq(Symbols), NEW full \in Seq(Symbols), Grown(buf, full),
         NEW i \in Nat \ {0}, NEW pattern \in Seq(Symbols), pattern # <<>>
  PROVE  LET past == PastFirst(buf, i, pattern)
         IN \/ MayEnd(past) = NeedsMore
            \/ /\ MayEnd(past) = At(past) /\ MayEnd(PastFirst(full, i, pattern)) = At(past)
               /\ past \in i + 1 .. Len(buf) + 1
<1> DEFINE past == PastFirst(buf, i, pattern)
<1>1. CASE past = Nowhere
  BY <1>1, Zenon DEF MayEnd
<1>2. CASE past # Nowhere
  <2>1. PastFirst(full, i, pattern) = past /\ past \in i + Len(pattern) .. Len(buf) + 1
    BY <1>2, PastFirstGrown
  <2>2. past \in i + 1 .. Len(buf) + 1
    <3>1. Len(pattern) \in Nat \ {0} /\ Len(buf) \in Nat
      BY EmptySeq
    <3>2. QED
      BY <2>1, <3>1
  <2>3. MayEnd(past) = At(past)
    BY <1>2, Zenon DEF MayEnd
  <2>4. QED
    BY <2>1, <2>2, <2>3, Zenon
<1>3. QED
  BY <1>1, <1>2

\* One construct, in what was read and in more of it: the same answer, or both skip
\* it, or it is cut off.
LEMMA PreludeStepGrown ==
  ASSUME NEW buf \in Seq(Symbols), NEW full \in Seq(Symbols), Grown(buf, full),
         NEW start \in Nat \ {0}
  PROVE  \/ \A g : PreludeBody(buf, g, start) = NeedsMore
         \/ AnswerAlike(buf, full, start)
         \/ \E next \in start + 1 .. Len(buf) + 1 : SkipAlike(buf, full, start, next)
         \/ \E next \in start + 1 .. Len(buf) + 1 : \E entities :
               DoctypeAlike(buf, full, start, next, entities)
<1> DEFINE i == SkipWs(buf, start)
           class == ClassifyProlog(buf, i)
           end == FindDoctypeEnd(buf, i)
<1>1. Len(buf) \in Nat /\ Len(full) \in Nat /\ Len(buf) <= Len(full)
  BY DEF Grown
<1>2. CASE i > Len(buf)
  BY <1>2, Zenon DEF PreludeBody
<1>3. CASE ~(i > Len(buf)) /\ class = "more"
  BY <1>3, Zenon DEF PreludeBody, NeedsMore
<1>4. CASE ~(i > Len(buf)) /\ class # "more"
  <2>1. SkipWs(full, start) = i /\ i \in start .. Len(buf)
    <3>1. i \in Nat
      BY SkipWsMovesOn
    <3>2. i <= Len(buf)
      BY <1>1, <1>4, <3>1
    <3>3. QED
      BY <3>2, SkipWsGrown
  <2>2. i \in 1 .. Len(buf) /\ ~(i > Len(full)) /\ i \in Nat \ {0}
    BY <1>1, <2>1
  <2>3. ClassifyProlog(full, i) = class
    BY <1>4, <2>2, ClassifyGrown
  <2> HIDE DEF i, class, end
  <2>4. ASSUME class = "Comment" \/ class = "Pi",
               NEW m \in {2, 4}, NEW pattern \in {CommentClose, PiClose},
               \A g : PreludeBody(buf, g, start) =
                        IF MayEnd(PastFirst(buf, i + m, pattern)).verdict = "at"
                        THEN g[MayEnd(PastFirst(buf, i + m, pattern)).pos]
                        ELSE MayEnd(PastFirst(buf, i + m, pattern)),
               \A g : PreludeBody(full, g, start) =
                        IF MayEnd(PastFirst(full, i + m, pattern)).verdict = "at"
                        THEN g[MayEnd(PastFirst(full, i + m, pattern)).pos]
                        ELSE MayEnd(PastFirst(full, i + m, pattern))
        PROVE  \/ \A g : PreludeBody(buf, g, start) = NeedsMore
               \/ \E next \in start + 1 .. Len(buf) + 1 : SkipAlike(buf, full, start, next)
    <3> DEFINE past == PastFirst(buf, i + m, pattern)
    <3>1. i + m \in Nat \ {0} /\ pattern \in Seq(Symbols) /\ pattern # <<>>
      BY <2>2, <2>4, Patterns
    <3>2. \/ MayEnd(past) = NeedsMore
          \/ /\ MayEnd(past) = At(past) /\ MayEnd(PastFirst(full, i + m, pattern)) = At(past)
             /\ past \in i + m + 1 .. Len(buf) + 1
      BY <3>1, SkipGrown
    <3>3. NeedsMore.verdict # "at" /\ At(past).verdict = "at" /\ At(past).pos = past
      BY DEF NeedsMore, At
    <3>4. CASE MayEnd(past) = NeedsMore
      BY <2>4, <3>3, <3>4, Zenon
    <3>5. CASE /\ MayEnd(past) = At(past) /\ MayEnd(PastFirst(full, i + m, pattern)) = At(past)
               /\ past \in i + m + 1 .. Len(buf) + 1
      <4>1. SkipAlike(buf, full, start, past)
        BY <2>4, <3>3, <3>5, Zenon DEF SkipAlike
      <4>2. past \in start + 1 .. Len(buf) + 1
        BY <1>1, <2>1, <2>4, <3>5
      <4>3. QED
        BY <4>1, <4>2, Zenon
    <3>6. QED
      BY <3>2, <3>4, <3>5
  <2>5. CASE class = "Comment"
    <3>1. \A g : PreludeBody(buf, g, start) =
             IF MayEnd(PastFirst(buf, i + 4, CommentClose)).verdict = "at"
             THEN g[MayEnd(PastFirst(buf, i + 4, CommentClose)).pos]
             ELSE MayEnd(PastFirst(buf, i + 4, CommentClose))
      BY <1>4, <2>5 DEF PreludeBody, i, class
    <3>2. \A g : PreludeBody(full, g, start) =
             IF MayEnd(PastFirst(full, i + 4, CommentClose)).verdict = "at"
             THEN g[MayEnd(PastFirst(full, i + 4, CommentClose)).pos]
             ELSE MayEnd(PastFirst(full, i + 4, CommentClose))
      BY <2>1, <2>2, <2>3, <2>5 DEF PreludeBody
    <3>3. QED
      BY <2>4, <2>5, <3>1, <3>2
  <2>6. CASE class = "Pi"
    <3>1. \A g : PreludeBody(buf, g, start) =
             IF MayEnd(PastFirst(buf, i + 2, PiClose)).verdict = "at"
             THEN g[MayEnd(PastFirst(buf, i + 2, PiClose)).pos]
             ELSE MayEnd(PastFirst(buf, i + 2, PiClose))
      BY <1>4, <2>6 DEF PreludeBody, i, class
    <3>2. \A g : PreludeBody(full, g, start) =
             IF MayEnd(PastFirst(full, i + 2, PiClose)).verdict = "at"
             THEN g[MayEnd(PastFirst(full, i + 2, PiClose)).pos]
             ELSE MayEnd(PastFirst(full, i + 2, PiClose))
      BY <2>1, <2>2, <2>3, <2>6 DEF PreludeBody
    <3>3. QED
      BY <2>4, <2>6, <3>1, <3>2
  <2>7. CASE class = "Doctype"
    <3>1. \/ end = NeedsMore
          \/ /\ FindDoctypeEnd(full, i) = end
             /\ \E pos \in i + 1 .. Len(buf) + 1 : end = At(pos)
      BY <2>2, FindDoctypeEndGrown DEF end
    <3>2. \A g : PreludeBody(buf, g, start) =
             IF end.verdict # "at" THEN end
             ELSE Behind(ParseDoctypeEntities(SubSeq(buf, i, end.pos - 1)), g[end.pos])
      BY <1>4, <2>7 DEF PreludeBody, i, class, end
    <3>3. CASE end = NeedsMore
      <4>1. end.verdict # "at"
        BY <3>3 DEF NeedsMore
      <4>2. QED
        BY <3>2, <3>3, <4>1, Zenon
    <3>4. CASE /\ FindDoctypeEnd(full, i) = end
               /\ \E pos \in i + 1 .. Len(buf) + 1 : end = At(pos)
      <4>1. PICK pos \in i + 1 .. Len(buf) + 1 : end = At(pos)
        BY <3>4
      <4>2. end.verdict = "at" /\ end.pos = pos
        BY <4>1 DEF At
      <4>3. \A g : PreludeBody(full, g, start) =
               IF end.verdict # "at" THEN end
               ELSE Behind(ParseDoctypeEntities(SubSeq(full, i, end.pos - 1)), g[end.pos])
        BY <2>1, <2>2, <2>3, <2>7, <3>4 DEF PreludeBody
      <4>4. SubSeq(full, i, pos - 1) = SubSeq(buf, i, pos - 1)
        <5>1. PICK z \in Int : z = pos - 1 /\ z <= Len(buf)
          BY <1>1, <2>2, <4>1
        <5>2. SubSeq(full, i, z) = SubSeq(buf, i, z)
          BY <2>2, <5>1, SliceGrown
        <5>3. QED
          BY <5>1, <5>2
      <4>5. DoctypeAlike(buf, full, start, pos, ParseDoctypeEntities(SubSeq(buf, i, pos - 1)))
        BY <3>2, <4>2, <4>3, <4>4, Zenon DEF DoctypeAlike
      <4>6. pos \in start + 1 .. Len(buf) + 1
        BY <1>1, <2>1, <4>1
      <4>7. QED
        BY <4>5, <4>6, Zenon
    <3>5. QED
      BY <3>1, <3>3, <3>4
  <2>8. CASE class = "Root"
    <3>1. \A g : PreludeBody(buf, g, start) = TryParseRootTag(buf, i)
      BY <1>4, <2>8 DEF PreludeBody, i, class
    <3>2. \A g : PreludeBody(full, g, start) = TryParseRootTag(full, i)
      BY <2>1, <2>2, <2>3, <2>8 DEF PreludeBody
    <3>3. \/ TryParseRootTag(buf, i) = NeedsMore
          \/ /\ TryParseRootTag(full, i) = TryParseRootTag(buf, i)
             /\ Answer(buf, TryParseRootTag(buf, i))
      BY <2>2, TryParseRootTagGrown
    <3>4. QED
      BY <3>1, <3>2, <3>3, Zenon DEF AnswerAlike
  <2>9. CASE class = "malformed"
    <3>1. \A g : PreludeBody(buf, g, start) = Malformed
      BY <1>4, <2>9 DEF PreludeBody, i, class, Malformed
    <3>2. \A g : PreludeBody(full, g, start) = Malformed
      BY <2>1, <2>2, <2>3, <2>9 DEF PreludeBody, Malformed
    <3>3. QED
      BY <3>1, <3>2 DEF AnswerAlike, Answer
  <2>10. QED
    BY <1>4, <2>5, <2>6, <2>7, <2>8, <2>9, ClassifyAnswers DEF class
<1>5. QED
  BY <1>2, <1>3, <1>4

\* The entities in front of an answer do not change what it is.
LEMMA BehindAnswers ==
  ASSUME NEW buf, NEW entities, NEW answer
  PROVE  /\ Behind(entities, NeedsMore) = NeedsMore
         /\ Answer(buf, answer) => Answer(buf, Behind(entities, answer))
<1>1. ASSUME NEW verdict PROVE Behind(entities, [verdict |-> verdict]) = [verdict |-> verdict]
  <2>1. "entities" \notin DOMAIN [verdict |-> verdict]
    OBVIOUS
  <2>2. QED
    BY <2>1, Zenon DEF Behind
<1>2. ASSUME Answer(buf, answer) PROVE Answer(buf, Behind(entities, answer))
  <2>1. CASE answer \in {Malformed, BadEncoding}
    BY <1>1, <2>1 DEF Malformed, BadEncoding, Answer
  <2>2. CASE answer \notin {Malformed, BadEncoding}
    <3>1. PICK pos \in 2 .. Len(buf) + 1 : \E root, ns, slash, e :
             answer = [verdict |-> "ok", root |-> root, ns |-> ns, slash |-> slash, pos |-> pos,
                       entities |-> e]
      BY <1>2, <2>2 DEF Answer
    <3>2. PICK root, ns, slash, e :
             answer = [verdict |-> "ok", root |-> root, ns |-> ns, slash |-> slash, pos |-> pos,
                       entities |-> e]
      BY <3>1
    <3>3. \A x : [answer EXCEPT !.entities = x]
             = [verdict |-> "ok", root |-> root, ns |-> ns, slash |-> slash, pos |-> pos,
                entities |-> x]
      BY <3>2
    <3>4. "entities" \in DOMAIN answer
      BY <3>2
    <3>5. Behind(entities, answer) = [answer EXCEPT !.entities = @ @@ entities]
      BY <3>4, Zenon DEF Behind
    <3>6. PICK x : Behind(entities, answer) = [answer EXCEPT !.entities = x]
      BY <3>5, Zenon
    <3>7. QED
      BY <3>3, <3>6, Zenon DEF Answer
  <2>3. QED
    BY <2>1, <2>2
<1>3. QED
  BY <1>1, <1>2 DEF NeedsMore

\* The recursion defines a function.
LEMMA PreludeFunction ==
  ASSUME NEW buf \in Seq(Symbols)
  PROVE  \E f : f = [start \in Nat \ {0} |-> PreludeBody(buf, f, start)]
<1> DEFINE D == Nat \ {0}
           Right(g, n) == \A i \in D : i + n > Len(buf) => g[i] = PreludeBody(buf, g, i)
           Reached == {n \in Nat : \E g : g = [i \in D |-> g[i]] /\ Right(g, n)}
<1>1. Len(buf) \in Nat
  OBVIOUS
<1>2. ASSUME NEW g, NEW h, NEW i \in D, \A j \in i + 1 .. Len(buf) + 1 : g[j] = h[j]
      PROVE  PreludeBody(buf, g, i) = PreludeBody(buf, h, i)
  <2>1. CASE \A f : PreludeBody(buf, f, i) = NeedsMore
    BY <2>1, Zenon
  <2>2. CASE AnswerAlike(buf, buf, i)
    BY <2>2, Zenon DEF AnswerAlike
  <2>3. CASE \E next \in i + 1 .. Len(buf) + 1 : SkipAlike(buf, buf, i, next)
    BY <1>2, <2>3, Zenon DEF SkipAlike
  <2>4. CASE \E next \in i + 1 .. Len(buf) + 1 : \E entities :
                DoctypeAlike(buf, buf, i, next, entities)
    BY <1>2, <2>4, Zenon DEF DoctypeAlike
  <2>5. Grown(buf, buf)
    BY <1>1 DEF Grown
  <2>6. QED
    BY <2>1, <2>2, <2>3, <2>4, <2>5, PreludeStepGrown
<1>3. 0 \in Reached
  <2> DEFINE none == [i \in D |-> 0]
             g == [i \in D |-> PreludeBody(buf, none, i)]
  <2>1. g = [i \in D |-> g[i]]
    OBVIOUS
  <2>2. \A i \in D : g[i] = PreludeBody(buf, none, i)
    OBVIOUS
  <2> HIDE DEF g, none
  <2>3. ASSUME NEW i \in D, i + 0 > Len(buf) PROVE g[i] = PreludeBody(buf, g, i)
    <3>1. \A j \in i + 1 .. Len(buf) + 1 : none[j] = g[j]
      BY <1>1, <2>3
    <3>2. PreludeBody(buf, none, i) = PreludeBody(buf, g, i)
      BY <1>2, <3>1
    <3>3. QED
      BY <2>2, <3>2
  <2>4. QED
    BY <2>1, <2>3
<1>4. ASSUME NEW n \in Reached PROVE n + 1 \in Reached
  <2>1. PICK g : g = [i \in D |-> g[i]] /\ Right(g, n)
    BY <1>4
  <2>2. n \in Nat
    BY <1>4
  <2> DEFINE h == [i \in D |-> PreludeBody(buf, g, i)]
  <2>3. h = [i \in D |-> h[i]]
    OBVIOUS
  <2>4. \A i \in D : h[i] = PreludeBody(buf, g, i)
    OBVIOUS
  <2> HIDE DEF h
  <2>5. ASSUME NEW i \in D, i + (n + 1) > Len(buf) PROVE h[i] = PreludeBody(buf, h, i)
    <3>1. ASSUME NEW j \in i + 1 .. Len(buf) + 1 PROVE g[j] = h[j]
      <4>1. j \in D /\ j + n > Len(buf)
        BY <1>1, <2>2, <2>5, <3>1
      <4>2. QED
        BY <2>1, <2>4, <4>1
    <3>2. PreludeBody(buf, g, i) = PreludeBody(buf, h, i)
      BY <1>2, <3>1
    <3>3. QED
      BY <2>4, <3>2
  <2>6. n + 1 \in Nat /\ Right(h, n + 1)
    BY <2>2, <2>5
  <2>7. QED
    BY <2>3, <2>6, Zenon
<1> HIDE DEF Reached
<1>5. \A n \in Nat : n \in Reached
  <2> DEFINE Missed == Nat \ Reached
  <2>1. SUFFICES ASSUME Missed # {} PROVE FALSE
    OBVIOUS
  <2>2. PICK n \in Missed : \A y \in Missed : n <= y
    BY <2>1, LeastNatural, Zenon
  <2>3. n \in Nat /\ n # 0
    BY <1>3, <2>2
  <2>4. PICK m \in Nat : n = m + 1
    BY <2>3
  <2>5. m \in Reached
    BY <2>2, <2>4
  <2>6. QED
    BY <1>4, <2>2, <2>4, <2>5
<1>6. Len(buf) + 1 \in Reached
  BY <1>1, <1>5
<1>7. PICK g : g = [i \in D |-> g[i]] /\ Right(g, Len(buf) + 1)
  BY <1>6 DEF Reached
<1>8. \A i \in D : g[i] = PreludeBody(buf, g, i)
  <2> SUFFICES ASSUME NEW i \in D PROVE g[i] = PreludeBody(buf, g, i)
    OBVIOUS
  <2>1. i + (Len(buf) + 1) > Len(buf)
    BY <1>1
  <2>2. QED
    BY <1>7, <2>1
<1>9. g = [i \in D |-> PreludeBody(buf, g, i)]
  BY <1>7, <1>8
<1>10. QED
  BY <1>9, Zenon

\* try_parse_prelude behind the declaration, as a function of the position.
PreludeFrom(buf) == CHOOSE f : f = [start \in Nat \ {0} |-> PreludeBody(buf, f, start)]

\* try_parse_prelude behind the declaration is its body, applied to itself.
LEMMA TryParsePreludeUnfolds ==
  ASSUME NEW buf \in Seq(Symbols)
  PROVE  /\ TryParsePrelude(buf) =
              IF TryBomAndDecl(buf).verdict = "at" THEN PreludeFrom(buf)[TryBomAndDecl(buf).pos]
              ELSE TryBomAndDecl(buf)
         /\ \A i \in Nat \ {0} : PreludeFrom(buf)[i] = PreludeBody(buf, PreludeFrom(buf), i)
<1> DEFINE f == PreludeFrom(buf)
<1>1. TryParsePrelude(buf) =
        IF TryBomAndDecl(buf).verdict = "at" THEN f[TryBomAndDecl(buf).pos]
        ELSE TryBomAndDecl(buf)
  BY Zenon DEF TryParsePrelude, PreludeFrom, PreludeBody
<1>2. f = [start \in Nat \ {0} |-> PreludeBody(buf, f, start)]
  BY PreludeFunction, Zenon DEF PreludeFrom
<1> HIDE DEF f
<1>3. \A i \in Nat \ {0} : f[i] = PreludeBody(buf, f, i)
  BY <1>2
<1>4. QED
  BY <1>1, <1>3 DEF f

(***************************************************************************)
(* What try_parse_prelude decides on part of a document is what it decides *)
(* on every longer part.                                                   *)
(***************************************************************************)
LEMMA TryParsePreludeGrown ==
  ASSUME NEW buf \in Seq(Symbols), NEW full \in Seq(Symbols), Grown(buf, full)
  PROVE  \/ TryParsePrelude(buf) = NeedsMore
         \/ /\ TryParsePrelude(full) = TryParsePrelude(buf)
            /\ Answer(buf, TryParsePrelude(buf))
<1> DEFINE F == PreludeFrom(buf)
           G == PreludeFrom(full)
           Good(i) == F[i] = NeedsMore \/ (G[i] = F[i] /\ Answer(buf, F[i]))
<1>1. /\ \A i \in Nat \ {0} : F[i] = PreludeBody(buf, F, i)
      /\ \A i \in Nat \ {0} : G[i] = PreludeBody(full, G, i)
  BY TryParsePreludeUnfolds
<1> HIDE DEF F, G
<1>2. Len(buf) \in Nat
  OBVIOUS
<1>3. ASSUME NEW i \in Nat \ {0}, \A j \in i + 1 .. Len(buf) + 1 : Good(j) PROVE Good(i)
  <2>1. F[i] = PreludeBody(buf, F, i) /\ G[i] = PreludeBody(full, G, i)
    BY <1>1
  <2>2. CASE \A g : PreludeBody(buf, g, i) = NeedsMore
    BY <2>1, <2>2, Zenon
  <2>3. CASE AnswerAlike(buf, full, i)
    BY <2>1, <2>3, Zenon DEF AnswerAlike
  <2>4. CASE \E next \in i + 1 .. Len(buf) + 1 : SkipAlike(buf, full, i, next)
    <3>1. PICK next \in i + 1 .. Len(buf) + 1 : SkipAlike(buf, full, i, next)
      BY <2>4
    <3>2. F[i] = F[next] /\ G[i] = G[next]
      BY <2>1, <3>1, Zenon DEF SkipAlike
    <3>3. QED
      BY <1>3, <3>1, <3>2, Zenon
  <2>5. CASE \E next \in i + 1 .. Len(buf) + 1 : \E entities :
                DoctypeAlike(buf, full, i, next, entities)
    <3>1. PICK next \in i + 1 .. Len(buf) + 1 : \E entities :
             DoctypeAlike(buf, full, i, next, entities)
      BY <2>5
    <3>2. PICK entities : DoctypeAlike(buf, full, i, next, entities)
      BY <3>1
    <3>3. F[i] = Behind(entities, F[next]) /\ G[i] = Behind(entities, G[next])
      BY <2>1, <3>2, Zenon DEF DoctypeAlike
    <3>4. Good(next)
      BY <1>3, <3>1, Zenon
    <3>5. QED
      BY <3>3, <3>4, BehindAnswers, Zenon
  <2>6. QED
    BY <2>2, <2>3, <2>4, <2>5, PreludeStepGrown
<1> HIDE DEF Good
<1>4. ASSUME NEW begin \in Nat \ {0} PROVE Good(begin)
  <2> DEFINE T == {i \in Nat \ {0} : Good(i)}
  <2>1. \A i \in Nat \ {0} : (\A j \in i + 1 .. Len(buf) + 1 : j \in T) => i \in T
    BY <1>3
  <2> HIDE DEF T
  <2>2. begin \in T
    BY <1>2, <1>4, <2>1, Backwards
  <2>3. QED
    BY <2>2 DEF T
<1> DEFINE begin == TryBomAndDecl(buf)
<1>5. begin = NeedsMore \/ (TryBomAndDecl(full) = begin /\ BeginAnswer(buf, begin))
  BY TryBomAndDeclGrown
<1>6. /\ TryParsePrelude(buf) = IF begin.verdict = "at" THEN F[begin.pos] ELSE begin
      /\ TryParsePrelude(full) =
           IF TryBomAndDecl(full).verdict = "at" THEN G[TryBomAndDecl(full).pos]
           ELSE TryBomAndDecl(full)
  BY TryParsePreludeUnfolds DEF F, G
<1> HIDE DEF begin
<1>7. CASE begin = NeedsMore
  <2>1. begin.verdict # "at"
    BY <1>7 DEF NeedsMore
  <2>2. QED
    BY <1>6, <1>7, <2>1, Zenon
<1>8. CASE TryBomAndDecl(full) = begin /\ begin = BadEncoding
  <2>1. begin.verdict # "at"
    BY <1>8 DEF BadEncoding
  <2>2. QED
    BY <1>6, <1>8, <2>1 DEF Answer
<1>9. CASE TryBomAndDecl(full) = begin /\ \E pos \in 1 .. Len(buf) + 1 : begin = At(pos)
  <2>1. PICK pos \in 1 .. Len(buf) + 1 : begin = At(pos)
    BY <1>9
  <2>2. begin.verdict = "at" /\ begin.pos = pos /\ pos \in Nat \ {0}
    BY <1>2, <2>1 DEF At
  <2>3. TryParsePrelude(buf) = F[pos] /\ TryParsePrelude(full) = G[pos]
    BY <1>6, <1>9, <2>2, Zenon
  <2>4. QED
    BY <1>4, <2>2, <2>3 DEF Good
<1>10. QED
  BY <1>5, <1>7, <1>8, <1>9 DEF BeginAnswer

(***************************************************************************)
(* par_for_each, before its threads.  The prelude is what the bytes read   *)
(* so far say, or the error of a document that ends too early.             *)
(***************************************************************************)
BytesRead == SubSeq(Input(doc), 1, read)

PreludeInv ==
    /\ doc \in Docs
    /\ read \in 0 .. Len(Input(doc))
    /\ \/ prelude = TryParsePrelude(BytesRead)
       \/ /\ prelude = Malformed
          /\ read = Len(Input(doc))
          /\ TryParsePrelude(Input(doc)) = NeedsMore

\* The bytes read are the first ones of the document.
LEMMA BytesReadGrow ==
  ASSUME NEW full \in Seq(Symbols), NEW n \in 0 .. Len(full)
  PROVE  LET buf == SubSeq(full, 1, n)
         IN /\ buf \in Seq(Symbols) /\ Len(buf) = n
            /\ Grown(buf, full)
            /\ n = Len(full) => buf = full
<1>1. Len(full) \in Nat /\ n \in Nat /\ n <= Len(full)
  OBVIOUS
<1>2. /\ SubSeq(full, 1, n) \in Seq(Symbols)
      /\ Len(SubSeq(full, 1, n)) = n
      /\ \A k \in 1 .. n : SubSeq(full, 1, n)[k] = full[k]
  BY <1>1, SubSeqProperties, ElementOfSeq
<1>3. QED
  BY <1>1, <1>2, SeqEqual DEF Grown

\* An answer does not ask for more.
LEMMA AnswerVerdicts ==
  ASSUME NEW buf, NEW answer, Answer(buf, answer)
  PROVE  /\ answer.verdict \in {"malformed", "encoding", "ok"}
         /\ answer.verdict = "ok" => answer.pos \in 2 .. Len(buf) + 1
<1>1. CASE answer \in {Malformed, BadEncoding}
  BY <1>1 DEF Malformed, BadEncoding
<1>2. CASE answer \notin {Malformed, BadEncoding}
  <2>1. PICK pos \in 2 .. Len(buf) + 1 : \E root, ns, slash, entities :
           answer = [verdict |-> "ok", root |-> root, ns |-> ns, slash |-> slash, pos |-> pos,
                     entities |-> entities]
    BY <1>2 DEF Answer
  <2>2. QED
    BY <2>1
<1>3. QED
  BY <1>1, <1>2

\* Whatever has been read, the prelude is what try_parse_prelude says of it; only at
\* the end of the input does a request for more become an error.
THEOREM PreludeInvariant == Spec => []PreludeInv
<1>1. Init => PreludeInv
  <2> SUFFICES ASSUME Init PROVE PreludeInv
    OBVIOUS
  <2>1. Input(doc) \in Seq(Symbols) /\ read \in 0 .. Len(Input(doc))
    BY InputAssumption DEF Init
  <2>2. BytesRead \in Seq(Symbols) /\ Len(BytesRead) = 0
    BY <2>1, BytesReadGrow DEF Init, BytesRead
  <2>3. BytesRead = <<>>
    BY <2>2, EmptySeq
  <2>4. QED
    BY <2>1, <2>3 DEF Init, PreludeInv
<1>2. PreludeInv /\ [Next]_vars => PreludeInv'
  <2> SUFFICES ASSUME PreludeInv, [Next]_vars PROVE PreludeInv'
    OBVIOUS
  <2>1. Input(doc) \in Seq(Symbols) /\ Len(Input(doc)) \in Nat
    BY InputAssumption DEF PreludeInv
  <2>2. CASE \E n \in 1 .. MaxChunk : ReadChunk(n)
    <3>1. PICK n \in 1 .. MaxChunk : ReadChunk(n)
      BY <2>2
    <3>2. /\ read' = read + n /\ read + n <= Len(Input(doc)) /\ doc' = doc
          /\ prelude' = TryParsePrelude(SubSeq(Input(doc), 1, read'))
      BY <3>1 DEF ReadChunk
    <3>3. read' \in 0 .. Len(Input(doc))
      BY <2>1, <3>2, ChunkAssumption DEF PreludeInv
    <3>4. Input(doc') = Input(doc) /\ BytesRead' = SubSeq(Input(doc), 1, read')
      BY <3>2 DEF BytesRead
    <3>5. QED
      BY <3>2, <3>3, <3>4 DEF PreludeInv
  <2>3. CASE SourceEnds
    <3>1. /\ prelude.verdict = "more" /\ read = Len(Input(doc)) /\ prelude' = Malformed
          /\ doc' = doc /\ read' = read
      BY <2>3 DEF SourceEnds
    <3>2. prelude = TryParsePrelude(Input(doc))
      <4>1. prelude # Malformed
        BY <3>1 DEF Malformed
      <4>2. BytesRead = Input(doc)
        BY <2>1, <3>1, BytesReadGrow DEF BytesRead, PreludeInv
      <4>3. QED
        BY <4>1, <4>2 DEF PreludeInv
    <3>3. TryParsePrelude(Input(doc)) = NeedsMore
      <4>1. Grown(Input(doc), Input(doc))
        BY <2>1 DEF Grown
      <4>2. \/ TryParsePrelude(Input(doc)) = NeedsMore
            \/ Answer(Input(doc), TryParsePrelude(Input(doc)))
        BY <2>1, <4>1, TryParsePreludeGrown
      <4>3. ~Answer(Input(doc), TryParsePrelude(Input(doc)))
        BY <3>1, <3>2, AnswerVerdicts
      <4>4. QED
        BY <4>2, <4>3
    <3>4. Input(doc') = Input(doc)
      BY <3>1
    <3>5. QED
      BY <3>1, <3>3, <3>4 DEF PreludeInv
  <2>4. CASE Decided \/ UNCHANGED vars
    <3>1. doc' = doc /\ read' = read /\ prelude' = prelude
      BY <2>4 DEF Decided, vars
    <3>2. Input(doc') = Input(doc) /\ BytesRead' = BytesRead
      BY <3>1 DEF BytesRead
    <3>3. QED
      BY <3>1, <3>2 DEF PreludeInv
  <2>5. QED
    BY <2>2, <2>3, <2>4 DEF Next
<1>3. QED
  BY <1>1, <1>2, PTL DEF Spec

\* Framing starts at a byte that has been read, whatever the document and however it
\* comes: the position that try_parse_prelude answers lies in what it was given.
THEOREM PreludeTypes == Spec => []TypeOK
<1>1. PreludeInv => TypeOK
  <2> SUFFICES ASSUME PreludeInv PROVE TypeOK
    OBVIOUS
  <2>1. /\ Input(doc) \in Seq(Symbols) /\ BytesRead \in Seq(Symbols)
        /\ Len(BytesRead) = read /\ read \in Nat
    BY InputAssumption, BytesReadGrow DEF PreludeInv, BytesRead
  <2>2. prelude = NeedsMore \/ Answer(BytesRead, prelude)
    <3>1. Grown(BytesRead, BytesRead)
      BY <2>1 DEF Grown
    <3>2. \/ TryParsePrelude(BytesRead) = NeedsMore
          \/ Answer(BytesRead, TryParsePrelude(BytesRead))
      BY <2>1, <3>1, TryParsePreludeGrown
    <3>3. Answer(BytesRead, Malformed)
      BY DEF Answer
    <3>4. QED
      BY <3>2, <3>3 DEF PreludeInv
  <2>3. CASE prelude = NeedsMore
    BY <2>3 DEF TypeOK, PreludeInv, NeedsMore
  <2>4. CASE Answer(BytesRead, prelude)
    <3>1. /\ prelude.verdict \in {"malformed", "encoding", "ok"}
          /\ prelude.verdict = "ok" => prelude.pos \in 2 .. Len(BytesRead) + 1
      BY <2>4, AnswerVerdicts
    <3>2. prelude.verdict = "ok" => prelude.pos - 1 \in 1 .. read
      BY <2>1, <3>1
    <3>3. QED
      BY <3>1, <3>2 DEF TypeOK, PreludeInv
  <2>5. QED
    BY <2>2, <2>3, <2>4
<1>2. QED
  BY <1>1, PreludeInvariant, PTL

\* No split of any document into reads changes the prelude or the error: a decision
\* that try_parse_prelude takes on part of the bytes is the one it takes on all.
THEOREM VerdictIsFinal == Spec => []VerdictFinal
<1>1. PreludeInv => VerdictFinal
  <2> SUFFICES ASSUME PreludeInv, prelude.verdict # "more" PROVE prelude = InOneRead
    BY DEF VerdictFinal
  <2>1. Input(doc) \in Seq(Symbols) /\ BytesRead \in Seq(Symbols) /\ Grown(BytesRead, Input(doc))
    BY InputAssumption, BytesReadGrow DEF PreludeInv, BytesRead
  <2>2. CASE prelude = TryParsePrelude(BytesRead)
    <3>1. prelude # NeedsMore
      BY DEF NeedsMore
    <3>2. TryParsePrelude(Input(doc)) = prelude
      BY <2>1, <2>2, <3>1, TryParsePreludeGrown
    <3>3. QED
      BY <3>2 DEF InOneRead
  <2>3. CASE prelude = Malformed /\ TryParsePrelude(Input(doc)) = NeedsMore
    BY <2>3 DEF InOneRead, NeedsMore
  <2>4. QED
    BY <2>2, <2>3 DEF PreludeInv
<1>2. QED
  BY <1>1, PreludeInvariant, PTL

(***************************************************************************)
(* The other parser, on documents without a DOCTYPE: Scanner::run takes    *)
(* each of them as try_parse_prelude does when it is given all of it.      *)
(***************************************************************************)
WithoutDoctype(buf) == \A i \in 1 .. Len(buf) : ~StartsAt(buf, i, DoctypeOpen)

\* skip_prolog_misc and parse_root, one construct at a time.
MiscBody(buf, g, start) ==
    LET i == SkipWs(buf, start)
        skip(here) == IF here.verdict = "at" THEN g[here.pos] ELSE here
        doctype == ParseDoctype(buf, i)
    IN IF StartsAt(buf, i, CommentOpen)
       THEN skip(MustEnd(PastFirst(buf, i + 4, CommentClose)))
       ELSE IF StartsAt(buf, i, DoctypeOpen)
       THEN IF doctype.verdict # "at" THEN doctype
            ELSE Behind(doctype.entities, g[doctype.pos])
       ELSE IF StartsAt(buf, i, PiOpen)
       THEN skip(MustEnd(PastFirst(buf, i + 2, PiClose)))
       ELSE IF i < Len(buf) /\ buf[i] = "<" /\ IsNameStart(buf[i + 1])
       THEN ParseRoot(buf, i)
       ELSE Malformed

\* What the parsers make of `start`: one asks for more and the other refuses, both
\* have the same answer, both go on at `next`.
BothCutOff(buf, start) ==
    /\ \A g : PreludeBody(buf, g, start) = NeedsMore
    /\ \E answer \in {Malformed, BadEncoding} : \A h : MiscBody(buf, h, start) = answer

BothAnswer(buf, start) ==
    \A g, h : /\ PreludeBody(buf, g, start) = MiscBody(buf, h, start)
              /\ PreludeBody(buf, g, start) # NeedsMore

BothSkip(buf, start, next) ==
    \A g, h : PreludeBody(buf, g, start) = g[next] /\ MiscBody(buf, h, start) = h[next]

\* A document that is cut off is refused by the resident path; everything else
\* both paths take in the same way.
Agree(streaming, resident) ==
    \/ streaming = NeedsMore /\ resident \in {Malformed, BadEncoding}
    \/ streaming # NeedsMore /\ streaming = resident

\* parse_root and try_parse_root_tag of the same tag.
LEMMA RootsAgree ==
  ASSUME NEW buf \in Seq(Symbols), NEW i \in Nat \ {0}
  PROVE  Agree(TryParseRootTag(buf, i), ParseRoot(buf, i))
<1> DEFINE end == NameEnd(buf, i + 1)
           name == EndTagName(buf, i + 1)
           tag == ScanAttrs(buf, end, NeedsMore)
           cut == ScanAttrs(buf, end, Malformed)
<1>1. Len(buf) \in Nat /\ i + 1 \in Nat \ {0} /\ Grown(buf, buf)
  BY DEF Grown
<1>2. end \in Nat \ {0}
  <2>1. end \in Nat /\ (end <= Len(buf) => end >= i + 1)
    BY <1>1, NameEndMovesOn
  <2>2. QED
    BY <1>1, <2>1
<1>3. end > Len(buf) => tag = NeedsMore
  <2> SUFFICES ASSUME end > Len(buf) PROVE tag = NeedsMore
    OBVIOUS
  <2>1. tag = AttrsBody(buf, NeedsMore, AttrsFrom(buf, NeedsMore), end)
    BY <1>2, ScanAttrsUnfolds
  <2>2. KeyAt(buf, end) > Len(buf) /\ ~(KeyAt(buf, end) <= Len(buf))
    <3>1. /\ KeyAt(buf, end) \in Nat
          /\ KeyAt(buf, end) <= Len(buf) => KeyAt(buf, end) >= end
      BY <1>2, SkipWsMovesOn DEF KeyAt
    <3> HIDE DEF end
    <3>2. QED
      BY <1>1, <1>2, <3>1
  <2> HIDE DEF end
  <2>3. QED
    BY <2>1, <2>2, Zenon DEF AttrsBody, HasAttr, NoAttr
<1>4. tag = NeedsMore => cut = Malformed
  BY <1>2, ScanAttrsCut
<1>5. tag = NeedsMore \/ cut = tag
  BY <1>1, <1>2, ScanAttrsGrown
<1>6. /\ NeedsMore.verdict # "at" /\ Malformed.verdict # "at" /\ BadEncoding # NeedsMore
      /\ \A n, t : MakePrelude(n, t) # NeedsMore
  BY DEF NeedsMore, Malformed, BadEncoding, MakePrelude
<1>7. ParseRoot(buf, i) = IF ~IsUtf8(name) THEN BadEncoding
                          ELSE IF cut.verdict # "at" THEN cut ELSE MakePrelude(name, cut)
  BY Zenon DEF ParseRoot
<1>8. TryParseRootTag(buf, i) =
         IF end > Len(buf) THEN NeedsMore
         ELSE IF ~IsUtf8(name) THEN BadEncoding
         ELSE IF tag.verdict # "at" THEN tag ELSE MakePrelude(name, tag)
  BY Zenon DEF TryParseRootTag
<1> HIDE DEF end, name, tag, cut
<1>9. CASE tag = NeedsMore
  <2>1. ParseRoot(buf, i) = IF ~IsUtf8(name) THEN BadEncoding ELSE Malformed
    BY <1>4, <1>6, <1>7, <1>9, Zenon
  <2>2. CASE end > Len(buf)
    BY <1>8, <2>1, <2>2 DEF Agree
  <2>3. CASE ~(end > Len(buf))
    <3>1. TryParseRootTag(buf, i) = IF ~IsUtf8(name) THEN BadEncoding ELSE NeedsMore
      BY <1>6, <1>8, <1>9, <2>3, Zenon
    <3>2. QED
      BY <1>6, <2>1, <3>1 DEF Agree
  <2>4. QED
    BY <2>2, <2>3
<1>10. CASE tag # NeedsMore
  <2>1. cut = tag /\ ~(end > Len(buf))
    BY <1>3, <1>5, <1>10
  <2>2. TryParseRootTag(buf, i) = IF ~IsUtf8(name) THEN BadEncoding
                                  ELSE IF tag.verdict # "at" THEN tag ELSE MakePrelude(name, tag)
    BY <1>8, <2>1, Zenon
  <2>3. ParseRoot(buf, i) = IF ~IsUtf8(name) THEN BadEncoding
                            ELSE IF tag.verdict # "at" THEN tag ELSE MakePrelude(name, tag)
    BY <1>7, <2>1
  <2>4. TryParseRootTag(buf, i) # NeedsMore
    BY <1>6, <1>10, <2>2, Zenon
  <2>5. QED
    BY <2>2, <2>3, <2>4 DEF Agree
<1>11. QED
  BY <1>9, <1>10

\* Where less than two bytes are left, skip_prolog_misc refuses.
LEMMA MiscShort ==
  ASSUME NEW buf \in Seq(Symbols), NEW start \in Nat \ {0}, SkipWs(buf, start) >= Len(buf)
  PROVE  \A h : MiscBody(buf, h, start) = Malformed
<1> DEFINE i == SkipWs(buf, start)
<1>1. Len(buf) \in Nat
  OBVIOUS
<1>2. i \in Nat
  BY SkipWsMovesOn
<1>3. i # 0
  <2>1. i <= Len(buf) => i >= start
    BY SkipWsMovesOn
  <2>2. QED
    BY <1>1, <1>2, <2>1
<1>4. ASSUME NEW pattern \in {CommentOpen, DoctypeOpen, PiOpen} PROVE ~StartsAt(buf, i, pattern)
  <2>1. pattern \in Seq(Symbols) /\ pattern # <<>> /\ Len(pattern) \in {2, 4, 5}
    BY Patterns
  <2>2. ~(i + Len(pattern) <= Len(buf) + 1)
    <3>1. PICK n \in {2, 4, 5} : Len(pattern) = n
      BY <2>1
    <3>2. ~(i + n <= Len(buf) + 1)
      BY <1>1, <1>2
    <3>3. QED
      BY <3>1, <3>2
  <2>3. QED
    BY <1>2, <1>3, <2>1, <2>2, StartsAtIff
<1>5. ~(i < Len(buf))
  BY <1>1, <1>2
<1>6. QED
  BY <1>4, <1>5, Zenon DEF MiscBody

\* The bytes that the constructs begin with.
LEMMA OpensWith ==
  ASSUME NEW buf \in Seq(Symbols), NEW i \in Nat \ {0}
  PROVE  /\ StartsAt(buf, i, CommentOpen) =>
              i + 3 <= Len(buf) /\ buf[i] = "<" /\ buf[i + 1] = "!"
         /\ StartsAt(buf, i, DoctypeOpen) =>
              i + 4 <= Len(buf) /\ buf[i] = "<" /\ buf[i + 1] = "!"
         /\ StartsAt(buf, i, PiOpen) <=>
              i + 1 <= Len(buf) /\ buf[i] = "<" /\ buf[i + 1] = "?"
         /\ StartsAt(buf, i, DeclOpen) <=>
              i + 2 <= Len(buf) /\ buf[i] = "<" /\ buf[i + 1] = "?" /\ buf[i + 2] = "xml"
<1>1. Len(buf) \in Nat /\ i + 1 - 1 = i /\ i + 2 - 1 = i + 1 /\ i + 3 - 1 = i + 2
  OBVIOUS
<1>2. ASSUME NEW pattern \in {CommentOpen, DoctypeOpen, PiOpen, DeclOpen}
      PROVE  StartsAt(buf, i, pattern) <=>
               /\ i + Len(pattern) <= Len(buf) + 1
               /\ \A k \in 1 .. Len(pattern) : buf[i + k - 1] = pattern[k]
  <2>1. pattern \in Seq(Symbols) /\ pattern # <<>>
    BY Patterns
  <2>2. QED
    BY <2>1, StartsAtIff
<1>3. ASSUME NEW pattern \in {CommentOpen, DoctypeOpen}, StartsAt(buf, i, pattern)
      PROVE  /\ i + Len(pattern) <= Len(buf) + 1
             /\ buf[i] = "<" /\ buf[i + 1] = "!"
  <2>1. 1 \in 1 .. Len(pattern) /\ 2 \in 1 .. Len(pattern)
    <3>1. PICK n \in {4, 5} : Len(pattern) = n
      BY Patterns
    <3>2. 1 \in 1 .. n /\ 2 \in 1 .. n
      OBVIOUS
    <3>3. QED
      BY <3>1, <3>2
  <2>2. pattern[1] = "<" /\ pattern[2] = "!"
    BY DEF CommentOpen, DoctypeOpen
  <2>3. /\ i + Len(pattern) <= Len(buf) + 1
        /\ buf[i + 1 - 1] = pattern[1] /\ buf[i + 2 - 1] = pattern[2]
    BY <1>2, <1>3, <2>1
  <2>4. QED
    BY <1>1, <2>2, <2>3
<1>4. StartsAt(buf, i, PiOpen) <=> i + 1 <= Len(buf) /\ buf[i] = "<" /\ buf[i + 1] = "?"
  <2>1. 1 .. Len(PiOpen) = {1, 2} /\ PiOpen[1] = "<" /\ PiOpen[2] = "?" /\ Len(PiOpen) = 2
    BY Patterns DEF PiOpen
  <2>2. (\A k \in {1, 2} : buf[i + k - 1] = PiOpen[k]) <=> buf[i] = "<" /\ buf[i + 1] = "?"
    BY <1>1, <2>1
  <2>3. i + 2 <= Len(buf) + 1 <=> i + 1 <= Len(buf)
    BY <1>1
  <2>4. QED
    BY <1>2, <2>1, <2>2, <2>3
<1>5. StartsAt(buf, i, DeclOpen) <=>
        i + 2 <= Len(buf) /\ buf[i] = "<" /\ buf[i + 1] = "?" /\ buf[i + 2] = "xml"
  <2>1. /\ 1 .. Len(DeclOpen) = {1, 2, 3} /\ Len(DeclOpen) = 3
        /\ DeclOpen[1] = "<" /\ DeclOpen[2] = "?" /\ DeclOpen[3] = "xml"
    BY Patterns DEF DeclOpen
  <2>2. (\A k \in {1, 2, 3} : buf[i + k - 1] = DeclOpen[k])
           <=> buf[i] = "<" /\ buf[i + 1] = "?" /\ buf[i + 2] = "xml"
    BY <1>1, <2>1
  <2>3. i + 3 <= Len(buf) + 1 <=> i + 2 <= Len(buf)
    BY <1>1
  <2>4. QED
    BY <1>2, <2>1, <2>2, <2>3
<1>6. StartsAt(buf, i, CommentOpen) => i + 3 <= Len(buf)
  <2>1. Len(CommentOpen) = 4
    BY Patterns
  <2>2. i + 4 <= Len(buf) + 1 => i + 3 <= Len(buf)
    BY <1>1
  <2>3. QED
    BY <1>3, <2>1, <2>2
<1>7. StartsAt(buf, i, DoctypeOpen) => i + 4 <= Len(buf)
  <2>1. Len(DoctypeOpen) = 5
    BY Patterns
  <2>2. i + 5 <= Len(buf) + 1 => i + 4 <= Len(buf)
    BY <1>1
  <2>3. QED
    BY <1>3, <2>1, <2>2
<1>8. QED
  BY <1>3, <1>4, <1>5, <1>6, <1>7

\* A construct that ends at the first occurrence of a pattern, or does not.
LEMMA EndsAgree ==
  ASSUME NEW buf \in Seq(Symbols), NEW start \in Nat \ {0}, NEW i \in Nat \ {0}, start < i,
         NEW pattern \in Seq(Symbols), pattern # <<>>,
         \A g : PreludeBody(buf, g, start) =
                  IF MayEnd(PastFirst(buf, i, pattern)).verdict = "at"
                  THEN g[MayEnd(PastFirst(buf, i, pattern)).pos]
                  ELSE MayEnd(PastFirst(buf, i, pattern)),
         \A h : MiscBody(buf, h, start) =
                  IF MustEnd(PastFirst(buf, i, pattern)).verdict = "at"
                  THEN h[MustEnd(PastFirst(buf, i, pattern)).pos]
                  ELSE MustEnd(PastFirst(buf, i, pattern))
  PROVE  \/ BothCutOff(buf, start)
         \/ \E next \in start + 1 .. Len(buf) + 1 : BothSkip(buf, start, next)
<1> DEFINE past == PastFirst(buf, i, pattern)
<1>1. Len(buf) \in Nat /\ Grown(buf, buf)
  BY DEF Grown
<1>2. CASE past = Nowhere
  <2>1. MayEnd(past) = NeedsMore /\ MustEnd(past) = Malformed
    BY <1>2, Zenon DEF MayEnd, MustEnd
  <2>2. NeedsMore.verdict # "at" /\ Malformed.verdict # "at"
    BY DEF NeedsMore, Malformed
  <2>3. \A g : PreludeBody(buf, g, start) = NeedsMore
    BY <2>1, <2>2, Zenon
  <2>4. \A h : MiscBody(buf, h, start) = Malformed
    BY <2>1, <2>2, Zenon
  <2>5. QED
    BY <2>3, <2>4, Zenon DEF BothCutOff
<1>3. CASE past # Nowhere
  <2>1. MayEnd(past) = At(past) /\ MustEnd(past) = At(past)
    BY <1>3, Zenon DEF MayEnd, MustEnd
  <2>2. At(past).verdict = "at" /\ At(past).pos = past
    BY DEF At
  <2>3. past \in start + 1 .. Len(buf) + 1
    <3>1. past \in i + Len(pattern) .. Len(buf) + 1 /\ Len(pattern) \in Nat
      BY <1>1, <1>3, PastFirstGrown
    <3> HIDE DEF past
    <3>2. QED
      BY <1>1, <3>1
  <2>4. BothSkip(buf, start, past)
    BY <2>1, <2>2, Zenon DEF BothSkip
  <2>5. QED
    BY <2>3, <2>4, Zenon
<1>4. QED
  BY <1>2, <1>3

\* One construct, on the two paths.
LEMMA StepsAgree ==
  ASSUME NEW buf \in Seq(Symbols), WithoutDoctype(buf), NEW start \in Nat \ {0}
  PROVE  \/ BothCutOff(buf, start)
         \/ BothAnswer(buf, start)
         \/ \E next \in start + 1 .. Len(buf) + 1 : BothSkip(buf, start, next)
<1> DEFINE i == SkipWs(buf, start)
           class == ClassifyProlog(buf, i)
           length == Len(buf) - i + 1
<1>1. Len(buf) \in Nat /\ i \in Nat /\ (i <= Len(buf) => i >= start)
  BY SkipWsMovesOn
<1>2. CASE i > Len(buf)
  <2>1. \A g : PreludeBody(buf, g, start) = NeedsMore
    BY <1>2, Zenon DEF PreludeBody
  <2>2. \A h : MiscBody(buf, h, start) = Malformed
    BY <1>1, <1>2, MiscShort
  <2>3. QED
    BY <2>1, <2>2, Zenon DEF BothCutOff
<1>3. CASE ~(i > Len(buf))
  <2>1. i \in 1 .. Len(buf) /\ i \in Nat \ {0} /\ i >= start
    BY <1>1, <1>3
  <2>2. ~StartsAt(buf, i, DoctypeOpen)
    BY <2>1 DEF WithoutDoctype
  <2>3. /\ StartsAt(buf, i, CommentOpen) =>
              i + 3 <= Len(buf) /\ buf[i] = "<" /\ buf[i + 1] = "!"
        /\ StartsAt(buf, i, PiOpen) <=>
              i + 1 <= Len(buf) /\ buf[i] = "<" /\ buf[i + 1] = "?"
    BY <2>1, OpensWith
  <2>4. \A g : PreludeBody(buf, g, start) =
          IF class = "Comment"
          THEN IF MayEnd(PastFirst(buf, i + 4, CommentClose)).verdict = "at"
               THEN g[MayEnd(PastFirst(buf, i + 4, CommentClose)).pos]
               ELSE MayEnd(PastFirst(buf, i + 4, CommentClose))
          ELSE IF class = "Pi"
          THEN IF MayEnd(PastFirst(buf, i + 2, PiClose)).verdict = "at"
               THEN g[MayEnd(PastFirst(buf, i + 2, PiClose)).pos]
               ELSE MayEnd(PastFirst(buf, i + 2, PiClose))
          ELSE IF class = "Root" THEN TryParseRootTag(buf, i)
          ELSE IF class # "Doctype" THEN [verdict |-> class]
          ELSE PreludeBody(buf, g, start)
    <3> HIDE DEF i, class
    <3>1. \A g : PreludeBody(buf, g, start) =
            CASE class = "Comment" ->
                   IF MayEnd(PastFirst(buf, i + 4, CommentClose)).verdict = "at"
                   THEN g[MayEnd(PastFirst(buf, i + 4, CommentClose)).pos]
                   ELSE MayEnd(PastFirst(buf, i + 4, CommentClose))
              [] class = "Pi" ->
                   IF MayEnd(PastFirst(buf, i + 2, PiClose)).verdict = "at"
                   THEN g[MayEnd(PastFirst(buf, i + 2, PiClose)).pos]
                   ELSE MayEnd(PastFirst(buf, i + 2, PiClose))
              [] class = "Doctype" ->
                   IF FindDoctypeEnd(buf, i).verdict # "at" THEN FindDoctypeEnd(buf, i)
                   ELSE Behind(ParseDoctypeEntities(SubSeq(buf, i, FindDoctypeEnd(buf, i).pos - 1)),
                               g[FindDoctypeEnd(buf, i).pos])
              [] class = "Root" -> TryParseRootTag(buf, i)
              [] OTHER -> [verdict |-> class]
      BY <1>3, Zenon DEF PreludeBody, i, class
    <3>2. QED
      BY <3>1
  <2>5. \A h : MiscBody(buf, h, start) =
          IF StartsAt(buf, i, CommentOpen)
          THEN IF MustEnd(PastFirst(buf, i + 4, CommentClose)).verdict = "at"
               THEN h[MustEnd(PastFirst(buf, i + 4, CommentClose)).pos]
               ELSE MustEnd(PastFirst(buf, i + 4, CommentClose))
          ELSE IF StartsAt(buf, i, PiOpen)
          THEN IF MustEnd(PastFirst(buf, i + 2, PiClose)).verdict = "at"
               THEN h[MustEnd(PastFirst(buf, i + 2, PiClose)).pos]
               ELSE MustEnd(PastFirst(buf, i + 2, PiClose))
          ELSE IF i < Len(buf) /\ buf[i] = "<" /\ IsNameStart(buf[i + 1])
          THEN ParseRoot(buf, i)
          ELSE Malformed
    BY <2>2, Zenon DEF MiscBody
  <2>6. /\ NeedsMore = [verdict |-> "more"] /\ Malformed = [verdict |-> "malformed"]
        /\ Malformed # NeedsMore
    BY DEF NeedsMore, Malformed
  <2>7. ~IsNameStart("!") /\ ~IsNameStart("?")
    BY DEF IsNameStart, Names, Words, HighBytes
  <2> HIDE DEF i, class, length
  <2>8. CASE buf[i] # "<"
    <3>1. class = "malformed"
      BY <2>8, Zenon DEF class, ClassifyProlog
    <3>2. \A g : PreludeBody(buf, g, start) = Malformed
      BY <2>4, <2>6, <3>1
    <3>3. \A h : MiscBody(buf, h, start) = Malformed
      BY <2>3, <2>5, <2>8, Zenon
    <3>4. QED
      BY <2>6, <3>2, <3>3, Zenon DEF BothAnswer
  <2>9. CASE buf[i] = "<" /\ length < 2
    <3>1. class = "more"
      BY <2>9, Zenon DEF class, ClassifyProlog, length
    <3>2. \A g : PreludeBody(buf, g, start) = NeedsMore
      BY <2>4, <2>6, <3>1
    <3>3. \A h : MiscBody(buf, h, start) = Malformed
      <4>1. i >= Len(buf)
        BY <1>1, <2>9 DEF length
      <4>2. QED
        BY <4>1, MiscShort DEF i
    <3>4. QED
      BY <3>2, <3>3, Zenon DEF BothCutOff
  <2>10. CASE buf[i] = "<" /\ ~(length < 2) /\ buf[i + 1] = "?"
    <3>1. class = "Pi"
      BY <2>10, Zenon DEF class, ClassifyProlog, length
    <3>2. StartsAt(buf, i, PiOpen) /\ ~StartsAt(buf, i, CommentOpen)
      <4>1. i + 1 <= Len(buf)
        BY <1>1, <2>10 DEF length
      <4>2. "?" # "!"
        OBVIOUS
      <4>3. QED
        BY <2>3, <2>10, <4>1, <4>2
    <3>3. i + 2 \in Nat \ {0} /\ start < i + 2
      BY <2>1
    <3>4. \A g : PreludeBody(buf, g, start) =
            IF MayEnd(PastFirst(buf, i + 2, PiClose)).verdict = "at"
            THEN g[MayEnd(PastFirst(buf, i + 2, PiClose)).pos]
            ELSE MayEnd(PastFirst(buf, i + 2, PiClose))
      BY <2>4, <3>1
    <3>5. \A h : MiscBody(buf, h, start) =
            IF MustEnd(PastFirst(buf, i + 2, PiClose)).verdict = "at"
            THEN h[MustEnd(PastFirst(buf, i + 2, PiClose)).pos]
            ELSE MustEnd(PastFirst(buf, i + 2, PiClose))
      BY <2>5, <3>2, Zenon
    <3>6. QED
      BY <3>3, <3>4, <3>5, EndsAgree, Patterns
  <2>11. CASE buf[i] = "<" /\ ~(length < 2) /\ buf[i + 1] # "?" /\ buf[i + 1] # "!"
    <3>1. class = IF IsNameStart(buf[i + 1]) THEN "Root" ELSE "malformed"
      BY <2>11, Zenon DEF class, ClassifyProlog, length
    <3>2. ~StartsAt(buf, i, PiOpen) /\ ~StartsAt(buf, i, CommentOpen)
      BY <2>3, <2>11
    <3>3. i < Len(buf)
      BY <1>1, <2>11 DEF length
    <3>4. CASE IsNameStart(buf[i + 1])
      <4>1. \A g : PreludeBody(buf, g, start) = TryParseRootTag(buf, i)
        BY <2>4, <3>1, <3>4
      <4>2. \A h : MiscBody(buf, h, start) = ParseRoot(buf, i)
        BY <2>5, <2>11, <3>2, <3>3, <3>4, Zenon
      <4>3. Agree(TryParseRootTag(buf, i), ParseRoot(buf, i))
        BY <2>1, RootsAgree
      <4>4. CASE /\ TryParseRootTag(buf, i) # NeedsMore
                 /\ TryParseRootTag(buf, i) = ParseRoot(buf, i)
        BY <4>1, <4>2, <4>4, Zenon DEF BothAnswer
      <4>5. CASE TryParseRootTag(buf, i) = NeedsMore /\ ParseRoot(buf, i) \in {Malformed, BadEncoding}
        BY <4>1, <4>2, <4>5, Zenon DEF BothCutOff
      <4>6. QED
        BY <4>3, <4>4, <4>5 DEF Agree
    <3>5. CASE ~IsNameStart(buf[i + 1])
      <4>1. \A g : PreludeBody(buf, g, start) = Malformed
        BY <2>4, <2>6, <3>1, <3>5
      <4>2. \A h : MiscBody(buf, h, start) = Malformed
        BY <2>5, <3>2, <3>5, Zenon
      <4>3. QED
        BY <2>6, <4>1, <4>2, Zenon DEF BothAnswer
    <3>6. QED
      BY <3>4, <3>5
  <2>12. CASE buf[i] = "<" /\ ~(length < 2) /\ buf[i + 1] = "!"
    <3>1. ~StartsAt(buf, i, PiOpen)
      BY <2>3, <2>12
    <3>2. CASE StartsAt(buf, i, CommentOpen)
      <4>1. ~(length < 4) /\ buf[i + 1] # "?"
        BY <1>1, <2>3, <2>12, <3>2 DEF length
      <4>2. class = "Comment"
        BY <2>12, <3>2, <4>1, Zenon DEF class, ClassifyProlog, length
      <4>3. i + 4 \in Nat \ {0} /\ start < i + 4
        BY <2>1
      <4>4. \A g : PreludeBody(buf, g, start) =
              IF MayEnd(PastFirst(buf, i + 4, CommentClose)).verdict = "at"
              THEN g[MayEnd(PastFirst(buf, i + 4, CommentClose)).pos]
              ELSE MayEnd(PastFirst(buf, i + 4, CommentClose))
        BY <2>4, <4>2
      <4>5. \A h : MiscBody(buf, h, start) =
              IF MustEnd(PastFirst(buf, i + 4, CommentClose)).verdict = "at"
              THEN h[MustEnd(PastFirst(buf, i + 4, CommentClose)).pos]
              ELSE MustEnd(PastFirst(buf, i + 4, CommentClose))
        BY <2>5, <3>2, Zenon
      <4>6. QED
        BY <4>3, <4>4, <4>5, EndsAgree, Patterns
    <3>3. CASE ~StartsAt(buf, i, CommentOpen)
      <4>1. class \in {"more", "malformed"}
        <5>1. buf[i + 1] # "?"
          BY <2>12
        <5>2. class = IF length < 4 THEN "more"
                      ELSE IF MayBecome(buf, i, DoctypeOpen) THEN "more" ELSE "malformed"
          BY <2>2, <2>12, <3>3, <5>1, Zenon DEF class, ClassifyProlog, length
        <5>3. QED
          BY <5>2
      <4>2. \A h : MiscBody(buf, h, start) = Malformed
        BY <2>5, <2>7, <2>12, <3>1, <3>3, Zenon
      <4>3. CASE class = "more"
        <5>1. \A g : PreludeBody(buf, g, start) = NeedsMore
          BY <2>4, <2>6, <4>3
        <5>2. QED
          BY <4>2, <5>1, Zenon DEF BothCutOff
      <4>4. CASE class = "malformed"
        <5>1. \A g : PreludeBody(buf, g, start) = Malformed
          BY <2>4, <2>6, <4>4
        <5>2. QED
          BY <2>6, <4>2, <5>1, Zenon DEF BothAnswer
      <4>5. QED
        BY <4>1, <4>3, <4>4
    <3>4. QED
      BY <3>2, <3>3
  <2>13. QED
    BY <2>8, <2>9, <2>10, <2>11, <2>12
<1>4. QED
  BY <1>2, <1>3

\* The recursion of skip_prolog_misc defines a function.
LEMMA MiscFunction ==
  ASSUME NEW buf \in Seq(Symbols), WithoutDoctype(buf)
  PROVE  \E f : f = [start \in Nat \ {0} |-> MiscBody(buf, f, start)]
<1> DEFINE D == Nat \ {0}
           Right(g, n) == \A i \in D : i + n > Len(buf) => g[i] = MiscBody(buf, g, i)
           Reached == {n \in Nat : \E g : g = [i \in D |-> g[i]] /\ Right(g, n)}
<1>1. Len(buf) \in Nat
  OBVIOUS
<1>2. ASSUME NEW g, NEW h, NEW i \in D, \A j \in i + 1 .. Len(buf) + 1 : g[j] = h[j]
      PROVE  MiscBody(buf, g, i) = MiscBody(buf, h, i)
  <2>1. CASE BothCutOff(buf, i)
    BY <2>1, Zenon DEF BothCutOff
  <2>2. CASE BothAnswer(buf, i)
    BY <2>2, Zenon DEF BothAnswer
  <2>3. CASE \E next \in i + 1 .. Len(buf) + 1 : BothSkip(buf, i, next)
    BY <1>2, <2>3, Zenon DEF BothSkip
  <2>4. QED
    BY <2>1, <2>2, <2>3, StepsAgree
<1>3. 0 \in Reached
  <2> DEFINE none == [i \in D |-> 0]
             g == [i \in D |-> MiscBody(buf, none, i)]
  <2>1. g = [i \in D |-> g[i]]
    OBVIOUS
  <2>2. \A i \in D : g[i] = MiscBody(buf, none, i)
    OBVIOUS
  <2> HIDE DEF g, none
  <2>3. ASSUME NEW i \in D, i + 0 > Len(buf) PROVE g[i] = MiscBody(buf, g, i)
    <3>1. \A j \in i + 1 .. Len(buf) + 1 : none[j] = g[j]
      BY <1>1, <2>3
    <3>2. MiscBody(buf, none, i) = MiscBody(buf, g, i)
      BY <1>2, <3>1
    <3>3. QED
      BY <2>2, <3>2
  <2>4. QED
    BY <2>1, <2>3
<1>4. ASSUME NEW n \in Reached PROVE n + 1 \in Reached
  <2>1. PICK g : g = [i \in D |-> g[i]] /\ Right(g, n)
    BY <1>4
  <2>2. n \in Nat
    BY <1>4
  <2> DEFINE h == [i \in D |-> MiscBody(buf, g, i)]
  <2>3. h = [i \in D |-> h[i]]
    OBVIOUS
  <2>4. \A i \in D : h[i] = MiscBody(buf, g, i)
    OBVIOUS
  <2> HIDE DEF h
  <2>5. ASSUME NEW i \in D, i + (n + 1) > Len(buf) PROVE h[i] = MiscBody(buf, h, i)
    <3>1. ASSUME NEW j \in i + 1 .. Len(buf) + 1 PROVE g[j] = h[j]
      <4>1. j \in D /\ j + n > Len(buf)
        BY <1>1, <2>2, <2>5, <3>1
      <4>2. QED
        BY <2>1, <2>4, <4>1
    <3>2. MiscBody(buf, g, i) = MiscBody(buf, h, i)
      BY <1>2, <3>1
    <3>3. QED
      BY <2>4, <3>2
  <2>6. n + 1 \in Nat /\ Right(h, n + 1)
    BY <2>2, <2>5
  <2>7. QED
    BY <2>3, <2>6, Zenon
<1> HIDE DEF Reached
<1>5. \A n \in Nat : n \in Reached
  <2> DEFINE Missed == Nat \ Reached
  <2>1. SUFFICES ASSUME Missed # {} PROVE FALSE
    OBVIOUS
  <2>2. PICK n \in Missed : \A y \in Missed : n <= y
    BY <2>1, LeastNatural, Zenon
  <2>3. n \in Nat /\ n # 0
    BY <1>3, <2>2
  <2>4. PICK m \in Nat : n = m + 1
    BY <2>3
  <2>5. m \in Reached
    BY <2>2, <2>4
  <2>6. QED
    BY <1>4, <2>2, <2>4, <2>5
<1>6. Len(buf) + 1 \in Reached
  BY <1>1, <1>5
<1>7. PICK g : g = [i \in D |-> g[i]] /\ Right(g, Len(buf) + 1)
  BY <1>6 DEF Reached
<1>8. \A i \in D : g[i] = MiscBody(buf, g, i)
  <2> SUFFICES ASSUME NEW i \in D PROVE g[i] = MiscBody(buf, g, i)
    OBVIOUS
  <2>1. i + (Len(buf) + 1) > Len(buf)
    BY <1>1
  <2>2. QED
    BY <1>7, <2>1
<1>9. g = [i \in D |-> MiscBody(buf, g, i)]
  BY <1>7, <1>8
<1>10. QED
  BY <1>9, Zenon

\* skip_prolog_misc and parse_root, as a function of the position.
MiscFrom(buf) == CHOOSE f : f = [start \in Nat \ {0} |-> MiscBody(buf, f, start)]

\* skip_prolog_misc, unfolded once.
LEMMA SkipPrologMiscUnfolds ==
  ASSUME NEW buf \in Seq(Symbols), WithoutDoctype(buf), NEW from
  PROVE  /\ SkipPrologMisc(buf, from) = MiscFrom(buf)[from]
         /\ \A i \in Nat \ {0} : MiscFrom(buf)[i] = MiscBody(buf, MiscFrom(buf), i)
<1> DEFINE f == MiscFrom(buf)
<1>1. SkipPrologMisc(buf, from) = f[from]
  BY Zenon DEF SkipPrologMisc, MiscFrom, MiscBody
<1>2. f = [start \in Nat \ {0} |-> MiscBody(buf, f, start)]
  BY MiscFunction, Zenon DEF MiscFrom
<1> HIDE DEF f
<1>3. \A i \in Nat \ {0} : f[i] = MiscBody(buf, f, i)
  BY <1>2
<1>4. QED
  BY <1>1, <1>3 DEF f

\* From the same position both paths come to the same answer.
LEMMA BehindDeclAgree ==
  ASSUME NEW buf \in Seq(Symbols), WithoutDoctype(buf), NEW from \in Nat \ {0}
  PROVE  Agree(PreludeFrom(buf)[from], SkipPrologMisc(buf, from))
<1> DEFINE F == PreludeFrom(buf)
           G == MiscFrom(buf)
           Good(i) == Agree(F[i], G[i])
<1>1. /\ \A i \in Nat \ {0} : F[i] = PreludeBody(buf, F, i)
      /\ \A i \in Nat \ {0} : G[i] = MiscBody(buf, G, i)
      /\ SkipPrologMisc(buf, from) = G[from]
  BY TryParsePreludeUnfolds, SkipPrologMiscUnfolds
<1> HIDE DEF F, G
<1>2. Len(buf) \in Nat
  OBVIOUS
<1>3. ASSUME NEW i \in Nat \ {0}, \A j \in i + 1 .. Len(buf) + 1 : Good(j) PROVE Good(i)
  <2>1. F[i] = PreludeBody(buf, F, i) /\ G[i] = MiscBody(buf, G, i)
    BY <1>1
  <2>2. CASE BothCutOff(buf, i)
    BY <2>1, <2>2, Zenon DEF BothCutOff, Agree
  <2>3. CASE BothAnswer(buf, i)
    BY <2>1, <2>3, Zenon DEF BothAnswer, Agree
  <2>4. CASE \E next \in i + 1 .. Len(buf) + 1 : BothSkip(buf, i, next)
    BY <1>3, <2>1, <2>4, Zenon DEF BothSkip
  <2>5. QED
    BY <2>2, <2>3, <2>4, StepsAgree
<1> HIDE DEF Good
<1>4. Good(from)
  <2> DEFINE T == {i \in Nat \ {0} : Good(i)}
  <2>1. \A i \in Nat \ {0} : (\A j \in i + 1 .. Len(buf) + 1 : j \in T) => i \in T
    BY <1>3
  <2> HIDE DEF T
  <2>2. from \in T
    BY <1>2, <2>1, Backwards
  <2>3. QED
    BY <2>2 DEF T
<1>5. QED
  BY <1>1, <1>4 DEF Good, F

\* handle_bom_and_decl behind the byte order mark.
HandleDecl(buf, i) ==
    LET body == i + Len(DeclOpen)
    IN IF ~StartsAt(buf, i, DeclOpen) \/ body > Len(buf) \/ ~IsDeclBody(buf[body]) THEN At(i)
       ELSE IF PastFirst(buf, body, PiClose) = Nowhere THEN Malformed
       ELSE Declaration(buf, body, PastFirst(buf, body, PiClose))

\* A `<?` that at most one more symbol follows is refused by skip_prolog_misc.
LEMMA MiscOpenPi ==
  ASSUME NEW buf \in Seq(Symbols), NEW i \in Nat \ {0}, StartsAt(buf, i, PiOpen), Len(buf) <= i + 2
  PROVE  \A h : MiscBody(buf, h, i) = Malformed
<1>1. Len(buf) \in Nat
  OBVIOUS
<1>2. /\ i + 1 <= Len(buf) /\ buf[i] = "<" /\ buf[i + 1] = "?"
      /\ ~StartsAt(buf, i, CommentOpen) /\ ~StartsAt(buf, i, DoctypeOpen)
  <2>1. "?" # "!"
    OBVIOUS
  <2>2. QED
    BY <2>1, OpensWith
<1>3. SkipWs(buf, i) = i
  <2>1. i \in 1 .. Len(buf) + 1
    BY <1>1, <1>2
  <2>2. /\ SkipWs(buf, i) \in i .. Len(buf) + 1
        /\ \A j \in i .. SkipWs(buf, i) - 1 : IsWs(buf[j])
    BY <2>1, SkipWsFacts
  <2>3. ~IsWs(buf[i])
    BY <1>2 DEF IsWs
  <2>4. PICK n \in i .. Len(buf) + 1 : SkipWs(buf, i) = n
    BY <2>2
  <2>5. ~(i \in i .. n - 1)
    BY <2>2, <2>3, <2>4
  <2>6. n = i
    BY <1>1, <2>4, <2>5
  <2>7. QED
    BY <2>4, <2>6
<1>4. PastFirst(buf, i + 2, PiClose) = Nowhere
  <2>1. ASSUME NEW j \in i + 2 .. Len(buf), StartsAt(buf, j, PiClose) PROVE FALSE
    <3>1. j \in 1 .. Len(buf)
      BY <1>1, <2>1
    <3>2. j + Len(PiClose) <= Len(buf) + 1 /\ Len(PiClose) = 2
      BY <2>1, <3>1, StartsAtFits, Patterns
    <3>3. j + 2 <= Len(buf) + 1
      BY <3>2
    <3>4. QED
      BY <1>1, <3>1, <3>3
  <2>2. {j \in i + 2 .. Len(buf) : StartsAt(buf, j, PiClose)} = {}
    BY <2>1
  <2>3. QED
    BY <2>2, Zenon DEF PastFirst
<1>5. MustEnd(Nowhere) = Malformed /\ Malformed.verdict # "at"
  BY DEF MustEnd, Malformed
<1>6. ASSUME NEW h PROVE MiscBody(buf, h, i) = Malformed
  <2>1. MiscBody(buf, h, i) =
          IF MustEnd(PastFirst(buf, i + 2, PiClose)).verdict = "at"
          THEN h[MustEnd(PastFirst(buf, i + 2, PiClose)).pos]
          ELSE MustEnd(PastFirst(buf, i + 2, PiClose))
    BY <1>2, <1>3, Zenon DEF MiscBody
  <2>2. QED
    BY <1>4, <1>5, <2>1, Zenon
<1>7. QED
  BY <1>6

\* The XML declaration: one that is cut off is refused as a declaration, or as what
\* skip_prolog_misc then takes it for.
LEMMA DeclsAgree ==
  ASSUME NEW buf \in Seq(Symbols), NEW i \in Nat \ {0}
  PROVE  \/ HandleDecl(buf, i) = TryDecl(buf, i)
         \/ TryDecl(buf, i) = NeedsMore /\ HandleDecl(buf, i) = Malformed
         \/ /\ TryDecl(buf, i) = NeedsMore /\ HandleDecl(buf, i) = At(i)
            /\ \A h : MiscBody(buf, h, i) = Malformed
<1> DEFINE body == i + Len(DeclOpen)
<1>1. Len(buf) \in Nat /\ body = i + 3
  BY Patterns
<1>2. /\ StartsAt(buf, i, PiOpen) <=>
              i + 1 <= Len(buf) /\ buf[i] = "<" /\ buf[i + 1] = "?"
      /\ StartsAt(buf, i, DeclOpen) <=>
              i + 2 <= Len(buf) /\ buf[i] = "<" /\ buf[i + 1] = "?" /\ buf[i + 2] = "xml"
  BY OpensWith
<1>3. CASE Len(buf) < i + 1
  <2>1. ~StartsAt(buf, i, DeclOpen)
    BY <1>1, <1>2, <1>3
  <2>2. TryDecl(buf, i) = NeedsMore
    BY <1>3, Zenon DEF TryDecl
  <2>3. HandleDecl(buf, i) = At(i)
    BY <2>1, Zenon DEF HandleDecl
  <2>4. SkipWs(buf, i) >= Len(buf)
    <3>1. SkipWs(buf, i) \in Nat /\ (SkipWs(buf, i) <= Len(buf) => SkipWs(buf, i) >= i)
      BY SkipWsMovesOn
    <3>2. QED
      BY <1>1, <1>3, <3>1
  <2>5. QED
    BY <2>2, <2>3, <2>4, MiscShort
<1>4. CASE ~(Len(buf) < i + 1) /\ ~StartsAt(buf, i, DeclOpen)
  <2>1. HandleDecl(buf, i) = At(i)
    BY <1>4, Zenon DEF HandleDecl
  <2>2. CASE ~MayBecome(buf, i, DeclOpen)
    <3>1. TryDecl(buf, i) = At(i)
      BY <1>4, <2>2, Zenon DEF TryDecl
    <3>2. QED
      BY <2>1, <3>1
  <2>3. CASE MayBecome(buf, i, DeclOpen)
    <3>1. TryDecl(buf, i) = NeedsMore
      BY <1>4, <2>3, Zenon DEF TryDecl
    <3>2. i \in 1 .. Len(buf)
      BY <1>1, <1>4
    <3>3. \A k \in 1 .. 3 : i + k <= Len(buf) + 1 => buf[i + k - 1] = DeclOpen[k]
      BY <2>3, <3>2, MismatchIff, Patterns DEF Mismatch
    <3>4. 1 \in 1 .. 3 /\ 2 \in 1 .. 3 /\ 3 \in 1 .. 3
      OBVIOUS
    <3>5. i + 1 - 1 = i /\ i + 2 - 1 = i + 1 /\ i + 3 - 1 = i + 2
      OBVIOUS
    <3>6. DeclOpen[1] = "<" /\ DeclOpen[2] = "?" /\ DeclOpen[3] = "xml"
      BY DEF DeclOpen
    <3>7. /\ i + 1 <= Len(buf) + 1 => buf[i] = "<"
          /\ i + 2 <= Len(buf) + 1 => buf[i + 1] = "?"
          /\ i + 3 <= Len(buf) + 1 => buf[i + 2] = "xml"
      BY <3>3, <3>4, <3>5, <3>6
    <3>8. StartsAt(buf, i, PiOpen) /\ Len(buf) <= i + 2
      BY <1>1, <1>2, <1>4, <3>7
    <3>9. QED
      BY <2>1, <3>1, <3>8, MiscOpenPi
  <2>4. QED
    BY <2>2, <2>3
<1>5. CASE ~(Len(buf) < i + 1) /\ StartsAt(buf, i, DeclOpen) /\ body > Len(buf)
  <2>1. TryDecl(buf, i) = NeedsMore
    BY <1>5, Zenon DEF TryDecl
  <2>2. HandleDecl(buf, i) = At(i)
    BY <1>5, Zenon DEF HandleDecl
  <2>3. StartsAt(buf, i, PiOpen) /\ Len(buf) <= i + 2
    BY <1>1, <1>2, <1>5
  <2>4. QED
    BY <2>1, <2>2, <2>3, MiscOpenPi
<1>6. CASE ~(Len(buf) < i + 1) /\ StartsAt(buf, i, DeclOpen) /\ ~(body > Len(buf))
  <2>1. PastFirst(buf, i + 2, PiClose) = PastFirst(buf, body, PiClose)
    <3>1. ~StartsAt(buf, i + 2, PiClose)
      <4>1. SUFFICES ASSUME StartsAt(buf, i + 2, PiClose) PROVE FALSE
        OBVIOUS
      <4>2. i + 2 \in 1 .. Len(buf) /\ buf[i + 2] = "xml"
        BY <1>1, <1>2, <1>6
      <4>3. 1 \in 1 .. Len(PiClose) /\ PiClose[1] = "?" /\ i + 2 + 1 - 1 = i + 2
        BY Patterns DEF PiClose
      <4>4. PiClose \in Seq(Symbols)
        BY Patterns
      <4>5. buf[i + 2 + 1 - 1] = PiClose[1]
        BY <4>1, <4>2, <4>3, <4>4, StartsAtFits
      <4>6. QED
        BY <4>2, <4>3, <4>5
    <3>2. {j \in i + 2 .. Len(buf) : StartsAt(buf, j, PiClose)}
             = {j \in i + 3 .. Len(buf) : StartsAt(buf, j, PiClose)}
      <4>1. \A j \in i + 2 .. Len(buf) : j = i + 2 \/ j \in i + 3 .. Len(buf)
        BY <1>1
      <4>2. \A j \in i + 3 .. Len(buf) : j \in i + 2 .. Len(buf)
        BY <1>1
      <4>3. QED
        BY <3>1, <4>1, <4>2
    <3>3. QED
      BY <1>1, <3>2 DEF PastFirst
  <2> DEFINE past == PastFirst(buf, body, PiClose)
  <2>2. TryDecl(buf, i) = IF ~IsDeclBody(buf[body]) THEN At(i)
                          ELSE IF past = Nowhere THEN NeedsMore ELSE Declaration(buf, body, past)
    BY <1>6, <2>1, Zenon DEF TryDecl
  <2>3. HandleDecl(buf, i) = IF ~IsDeclBody(buf[body]) THEN At(i)
                             ELSE IF past = Nowhere THEN Malformed ELSE Declaration(buf, body, past)
    BY <1>6, Zenon DEF HandleDecl
  <2> HIDE DEF past, body
  <2>4. CASE IsDeclBody(buf[body]) /\ past = Nowhere
    BY <2>2, <2>3, <2>4, Zenon
  <2>5. CASE ~(IsDeclBody(buf[body]) /\ past = Nowhere)
    BY <2>2, <2>3, <2>5
  <2>6. QED
    BY <2>4, <2>5
<1>7. QED
  BY <1>3, <1>4, <1>5, <1>6

\* handle_bom_and_decl and its counterpart.
LEMMA BeginsAgree ==
  ASSUME NEW buf \in Seq(Symbols)
  PROVE  \/ HandleBomAndDecl(buf) = TryBomAndDecl(buf)
         \/ TryBomAndDecl(buf) = NeedsMore /\ HandleBomAndDecl(buf) = Malformed
         \/ /\ TryBomAndDecl(buf) = NeedsMore
            /\ \E i \in {1, 4} : /\ HandleBomAndDecl(buf) = At(i)
                                 /\ \A h : MiscBody(buf, h, i) = Malformed
<1>1. Len(buf) \in Nat /\ 1 \in Nat \ {0} /\ 4 \in Nat \ {0} /\ 1 + 1 - 1 = 1
  OBVIOUS
<1>2. /\ ByteOrderMark \in Seq(Symbols) /\ ByteOrderMark # <<>> /\ ByteOrderMark[1] = "EF"
      /\ 1 \in 1 .. Len(ByteOrderMark)
      /\ IsPrefix(ByteOrderMark, buf) <=> StartsAt(buf, 1, ByteOrderMark)
  <2>1. /\ ByteOrderMark \in Seq(Symbols) /\ ByteOrderMark # <<>> /\ Len(ByteOrderMark) = 3
        /\ ByteOrderMark[1] = "EF"
    BY Patterns DEF ByteOrderMark
  <2>2. IsPrefix(ByteOrderMark, buf) <=> StartsAt(buf, 1, ByteOrderMark)
    BY <2>1, AtFront
  <2>3. 1 \in 1 .. 3
    OBVIOUS
  <2>4. QED
    BY <2>1, <2>2, <2>3
<1>3. CASE IsPrefix(ByteOrderMark, buf)
  <2>1. ~IsUtf16(buf)
    <3>1. ASSUME NEW mark \in Utf16Marks, IsPrefix(mark, buf) PROVE FALSE
      <4>1. mark \in Seq(Symbols) /\ mark # <<>> /\ 1 \in 1 .. Len(mark) /\ mark[1] # "EF"
        <5>1. mark \in Seq(Symbols) /\ Len(mark) = 2
          BY Patterns
        <5>2. mark[1] # "EF" /\ mark # <<>>
          BY DEF Utf16Marks
        <5>3. 1 \in 1 .. 2
          OBVIOUS
        <5>4. QED
          BY <5>1, <5>2, <5>3
      <4>2. StartsAt(buf, 1, mark)
        BY <3>1, <4>1, AtFront
      <4>3. buf[1 + 1 - 1] = mark[1]
        BY <1>1, <4>1, <4>2, StartsAtIff
      <4>4. buf[1 + 1 - 1] = "EF"
        BY <1>1, <1>2, <1>3, StartsAtIff
      <4>5. QED
        BY <4>1, <4>3, <4>4
    <3>2. QED
      BY <3>1, Zenon DEF IsUtf16
  <2>2. HandleBomAndDecl(buf) = HandleDecl(buf, 4)
    BY <1>3, <2>1, Zenon DEF HandleBomAndDecl, HandleDecl
  <2>3. TryBomAndDecl(buf) = TryDecl(buf, 4)
    BY <1>3, Zenon DEF TryBomAndDecl
  <2>4. \/ HandleDecl(buf, 4) = TryDecl(buf, 4)
        \/ TryDecl(buf, 4) = NeedsMore /\ HandleDecl(buf, 4) = Malformed
        \/ /\ TryDecl(buf, 4) = NeedsMore /\ HandleDecl(buf, 4) = At(4)
           /\ \A h : MiscBody(buf, h, 4) = Malformed
    BY <1>1, DeclsAgree
  <2>5. QED
    BY <2>2, <2>3, <2>4, Zenon
<1>4. CASE ~IsPrefix(ByteOrderMark, buf) /\ IsUtf16(buf)
  <2>1. HandleBomAndDecl(buf) = BadEncoding
    BY <1>4, Zenon DEF HandleBomAndDecl
  <2>2. TryBomAndDecl(buf) = BadEncoding
    BY <1>4, Zenon DEF TryBomAndDecl
  <2>3. QED
    BY <2>1, <2>2
<1>5. CASE ~IsPrefix(ByteOrderMark, buf) /\ ~IsUtf16(buf)
  <2>1. HandleBomAndDecl(buf) = HandleDecl(buf, 1)
    BY <1>5, Zenon DEF HandleBomAndDecl, HandleDecl
  <2>2. CASE ~MayBecome(buf, 1, ByteOrderMark)
    <3>1. TryBomAndDecl(buf) = TryDecl(buf, 1)
      BY <1>5, <2>2, Zenon DEF TryBomAndDecl
    <3>2. \/ HandleDecl(buf, 1) = TryDecl(buf, 1)
          \/ TryDecl(buf, 1) = NeedsMore /\ HandleDecl(buf, 1) = Malformed
          \/ /\ TryDecl(buf, 1) = NeedsMore /\ HandleDecl(buf, 1) = At(1)
             /\ \A h : MiscBody(buf, h, 1) = Malformed
      BY <1>1, DeclsAgree
    <3>3. QED
      BY <2>1, <3>1, <3>2, Zenon
  <2>3. CASE MayBecome(buf, 1, ByteOrderMark)
    <3>1. TryBomAndDecl(buf) = NeedsMore
      BY <1>5, <2>3, Zenon DEF TryBomAndDecl
    <3>2. Len(buf) = 0 \/ (1 \in 1 .. Len(buf) /\ buf[1] = "EF")
      <4> SUFFICES ASSUME Len(buf) # 0 PROVE 1 \in 1 .. Len(buf) /\ buf[1] = "EF"
        OBVIOUS
      <4>1. 1 \in 1 .. Len(buf) /\ 1 + 1 <= Len(buf) + 1
        BY <1>1
      <4>2. ~Mismatch(buf, 1, ByteOrderMark)
        BY <1>2, <2>3, <4>1, MismatchIff
      <4>3. buf[1 + 1 - 1] = ByteOrderMark[1]
        BY <1>2, <4>1, <4>2, Zenon DEF Mismatch
      <4>4. QED
        BY <1>1, <1>2, <4>1, <4>3
    <3>3. \A pattern \in {CommentOpen, DoctypeOpen, PiOpen, DeclOpen} : ~StartsAt(buf, 1, pattern)
      <4>1. /\ StartsAt(buf, 1, CommentOpen) => 1 + 3 <= Len(buf) /\ buf[1] = "<"
            /\ StartsAt(buf, 1, DoctypeOpen) => 1 + 4 <= Len(buf) /\ buf[1] = "<"
            /\ StartsAt(buf, 1, PiOpen) => 1 + 1 <= Len(buf) /\ buf[1] = "<"
            /\ StartsAt(buf, 1, DeclOpen) => 1 + 2 <= Len(buf) /\ buf[1] = "<"
        BY <1>1, OpensWith
      <4>2. QED
        BY <1>1, <3>2, <4>1
    <3>4. HandleDecl(buf, 1) = At(1)
      BY <3>3, Zenon DEF HandleDecl
    <3>5. \A h : MiscBody(buf, h, 1) = Malformed
      <4>1. CASE Len(buf) = 0
        <5>1. SkipWs(buf, 1) \in Nat
          BY <1>1, SkipWsMovesOn
        <5>2. SkipWs(buf, 1) >= Len(buf)
          BY <4>1, <5>1
        <5>3. QED
          BY <1>1, <5>2, MiscShort
      <4>2. CASE 1 \in 1 .. Len(buf) /\ buf[1] = "EF"
        <5>1. SkipWs(buf, 1) = 1
          <6>1. 1 \in 1 .. Len(buf) + 1
            BY <1>1
          <6>2. /\ SkipWs(buf, 1) \in 1 .. Len(buf) + 1
                /\ \A j \in 1 .. SkipWs(buf, 1) - 1 : IsWs(buf[j])
            BY <6>1, SkipWsFacts
          <6>3. PICK n \in 1 .. Len(buf) + 1 : SkipWs(buf, 1) = n
            BY <6>2
          <6>4. ~IsWs(buf[1])
            BY <4>2 DEF IsWs
          <6>5. ~(1 \in 1 .. n - 1)
            BY <6>2, <6>3, <6>4
          <6>6. QED
            BY <1>1, <6>3, <6>5
        <5>2. buf[1] # "<"
          BY <4>2
        <5>3. QED
          BY <3>3, <5>1, <5>2, Zenon DEF MiscBody
      <4>3. QED
        BY <3>2, <4>1, <4>2
    <3>6. QED
      BY <2>1, <3>1, <3>4, <3>5
  <2>4. QED
    BY <2>2, <2>3
<1>6. QED
  BY <1>3, <1>4, <1>5

\* Both paths, from the first byte to the end of the root tag.
LEMMA PathsAgree ==
  ASSUME NEW buf \in Seq(Symbols), WithoutDoctype(buf)
  PROVE  Agree(TryParsePrelude(buf), Resident(buf))
<1> DEFINE try == TryBomAndDecl(buf)
           handle == HandleBomAndDecl(buf)
<1>1. Len(buf) \in Nat /\ Grown(buf, buf)
  BY DEF Grown
<1>2. TryParsePrelude(buf) = IF try.verdict = "at" THEN PreludeFrom(buf)[try.pos] ELSE try
  BY TryParsePreludeUnfolds
<1>3. Resident(buf) = IF handle.verdict = "at" THEN SkipPrologMisc(buf, handle.pos) ELSE handle
  BY Zenon DEF Resident
<1>4. try = NeedsMore \/ BeginAnswer(buf, try)
  BY <1>1, TryBomAndDeclGrown
<1>5. /\ NeedsMore.verdict # "at" /\ Malformed.verdict # "at" /\ BadEncoding.verdict # "at"
      /\ \A i : At(i).verdict = "at" /\ At(i).pos = i
  BY DEF NeedsMore, Malformed, BadEncoding, At
<1>6. \/ handle = try
      \/ try = NeedsMore /\ handle = Malformed
      \/ /\ try = NeedsMore
         /\ \E i \in {1, 4} : handle = At(i) /\ \A h : MiscBody(buf, h, i) = Malformed
  BY BeginsAgree
<1> HIDE DEF try, handle
<1>7. CASE handle = try /\ try \in {NeedsMore, BadEncoding}
  <2>1. handle # NeedsMore
    <3>1. NeedsMore # Malformed /\ NeedsMore # BadEncoding /\ \A i : At(i) # NeedsMore
      BY DEF NeedsMore, Malformed, BadEncoding, At
    <3>2. QED
      BY <3>1, Zenon DEF handle, HandleBomAndDecl, Declaration
  <2>2. TryParsePrelude(buf) = BadEncoding /\ Resident(buf) = BadEncoding
    BY <1>2, <1>3, <1>5, <1>7, <2>1, Zenon
  <2>3. QED
    BY <2>2 DEF Agree, NeedsMore, BadEncoding
<1>8. CASE handle = try /\ \E pos \in 1 .. Len(buf) + 1 : try = At(pos)
  <2>1. PICK pos \in 1 .. Len(buf) + 1 : try = At(pos)
    BY <1>8
  <2>2. pos \in Nat \ {0}
    BY <1>1
  <2>3. TryParsePrelude(buf) = PreludeFrom(buf)[pos] /\ Resident(buf) = SkipPrologMisc(buf, pos)
    BY <1>2, <1>3, <1>5, <1>8, <2>1, Zenon
  <2>4. QED
    BY <2>2, <2>3, BehindDeclAgree
<1>9. CASE try = NeedsMore /\ handle = Malformed
  <2>1. TryParsePrelude(buf) = NeedsMore /\ Resident(buf) = Malformed
    BY <1>2, <1>3, <1>5, <1>9, Zenon
  <2>2. QED
    BY <2>1 DEF Agree
<1>10. CASE /\ try = NeedsMore
            /\ \E i \in {1, 4} : handle = At(i) /\ \A h : MiscBody(buf, h, i) = Malformed
  <2>1. PICK i \in {1, 4} : handle = At(i) /\ \A h : MiscBody(buf, h, i) = Malformed
    BY <1>10
  <2>2. Resident(buf) = MiscFrom(buf)[i]
    BY <1>3, <1>5, <2>1, SkipPrologMiscUnfolds
  <2>3. MiscFrom(buf)[i] = MiscBody(buf, MiscFrom(buf), i)
    BY SkipPrologMiscUnfolds
  <2>4. Resident(buf) = Malformed
    BY <2>1, <2>2, <2>3, Zenon
  <2>5. TryParsePrelude(buf) = NeedsMore
    BY <1>2, <1>5, <1>10, Zenon
  <2>6. QED
    BY <2>4, <2>5 DEF Agree
<1>11. QED
  BY <1>4, <1>6, <1>7, <1>8, <1>9, <1>10 DEF BeginAnswer

\* The paths agree on every document without a DOCTYPE: the prelude or the error of
\* try_parse_prelude is that of Scanner::run, however the bytes come, and what is cut
\* off both refuse.
THEOREM PrologsAgreeWithoutDoctype == Spec => [](WithoutDoctype(Input(doc)) => PrologsAgree)
<1>1. PreludeInv /\ VerdictFinal => (WithoutDoctype(Input(doc)) => PrologsAgree)
  <2> SUFFICES ASSUME PreludeInv, VerdictFinal, WithoutDoctype(Input(doc)),
                      prelude.verdict # "more"
               PROVE  IF CutOff THEN Resident(Input(doc)) \in {Malformed, BadEncoding}
                      ELSE prelude = Resident(Input(doc))
    BY DEF PrologsAgree
  <2> DEFINE whole == TryParsePrelude(Input(doc))
  <2>1. Input(doc) \in Seq(Symbols)
    BY InputAssumption DEF PreludeInv
  <2>2. Agree(whole, Resident(Input(doc)))
    BY <2>1, PathsAgree
  <2>3. whole = NeedsMore \/ whole.verdict # "more"
    <3>1. Grown(Input(doc), Input(doc))
      BY <2>1 DEF Grown
    <3>2. whole = NeedsMore \/ Answer(Input(doc), whole)
      BY <2>1, <3>1, TryParsePreludeGrown
    <3>3. QED
      BY <3>2, AnswerVerdicts
  <2>4. CASE whole.verdict = "more"
    <3>1. CutOff
      BY <2>4 DEF CutOff
    <3>2. whole = NeedsMore
      BY <2>3, <2>4
    <3>3. Resident(Input(doc)) \in {Malformed, BadEncoding}
      BY <2>2, <3>2 DEF Agree, NeedsMore, Malformed
    <3>4. QED
      BY <3>1, <3>3, Zenon
  <2>5. CASE whole.verdict # "more"
    <3>1. ~CutOff
      BY <2>5 DEF CutOff
    <3>2. prelude = whole
      BY <2>5 DEF VerdictFinal, InOneRead
    <3>3. whole # NeedsMore
      BY <2>5 DEF NeedsMore
    <3>4. QED
      BY <2>2, <3>1, <3>2, <3>3, Zenon DEF Agree
  <2>6. QED
    BY <2>4, <2>5
<1>2. QED
  BY <1>1, PreludeInvariant, VerdictIsFinal, PTL

===============================================================================
