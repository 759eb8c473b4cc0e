------------------------ MODULE ResidentScannerProofs -------------------------
(***************************************************************************)
(* Safety of the resident scanner for every document and record path: what *)
(* it puts into the index are pieces of the document from a `<` to a `>`,  *)
(* in order, its two depth counters agree, and every iteration moves on.   *)
(* Before that, lemmas about documents: where their tokens stand in the    *)
(* input, and what RecordRules makes of one token more.                    *)
(***************************************************************************)
EXTENDS ResidentScanner, XmlBytesProofs

(***************************************************************************)
(* A value for each step from the value before it.  The recursive          *)
(* definitions of RecordRules and XmlInput are of this form.               *)
(***************************************************************************)
Histories(V, n, start, step) ==
    {f \in [0 .. n -> V] : f[0] = start /\ \A i \in 1 .. n : f[i] = step[<<i, f[i - 1]>>]}

\* Each such definition has one value for each step.
LEMMA ForwardFunction ==
  ASSUME NEW V, NEW n \in Nat, NEW start \in V, NEW step \in [(1 .. n) \X V -> V]
  PROVE  Histories(V, n, start, step) # {}
<1> DEFINE Right(g, m) == \A i \in 0 .. m : g[i] = IF i = 0 THEN start ELSE step[<<i, g[i - 1]>>]
           Reached == {m \in 0 .. n : \E g \in [0 .. n -> V] : Right(g, m)}
<1>1. 0 \in Reached
  <2> DEFINE g == [i \in 0 .. n |-> start]
  <2>1. g \in [0 .. n -> V] /\ Right(g, 0)
    OBVIOUS
  <2> HIDE DEF g
  <2>2. \E x \in [0 .. n -> V] : Right(x, 0)
    BY <2>1
  <2>3. QED
    BY <2>2
<1>2. ASSUME NEW m \in Reached, m < n PROVE m + 1 \in Reached
  <2>1. PICK g \in [0 .. n -> V] : Right(g, m)
    BY <1>2
  <2>2. m \in 0 .. n /\ m + 1 \in 1 .. n
    BY <1>2
  <2> DEFINE e == step[<<m + 1, g[m]>>]
             h == [g EXCEPT ![m + 1] = e]
  <2>3. e \in V
    BY <2>1, <2>2
  <2>4. h \in [0 .. n -> V] /\ h[m + 1] = e /\ \A i \in 0 .. m : h[i] = g[i]
    BY <2>1, <2>2, <2>3
  <2> HIDE DEF h
  <2>5. ASSUME NEW i \in 0 .. m + 1
        PROVE  h[i] = IF i = 0 THEN start ELSE step[<<i, h[i - 1]>>]
    <3>1. CASE i \in 0 .. m
      <4>1. h[i] = g[i] /\ (i # 0 => h[i - 1] = g[i - 1])
        BY <2>2, <2>4, <3>1
      <4>2. QED
        BY <2>1, <3>1, <4>1
    <3>2. CASE i = m + 1
      <4>1. i # 0 /\ h[i - 1] = g[m]
        BY <2>2, <2>4, <3>2
      <4>2. QED
        BY <2>4, <3>2, <4>1
    <3>3. QED
      BY <2>2, <2>5, <3>1, <3>2
  <2>6. Right(h, m + 1)
    BY <2>5
  <2>7. \E x \in [0 .. n -> V] : Right(x, m + 1)
    BY <2>4, <2>6
  <2>8. QED
    BY <2>2, <2>7
<1> HIDE DEF Reached
<1>3. n \in Reached
  <2> DEFINE Missed == (0 .. n) \ Reached
  <2>1. SUFFICES ASSUME Missed # {} PROVE FALSE
    OBVIOUS
  <2> HIDE DEF Missed
  <2>2. Missed \subseteq Nat
    BY DEF Missed
  <2>3. PICK m \in Missed : \A y \in Missed : m <= y
    BY <2>1, <2>2, LeastNatural
  <2>4. m \in 0 .. n /\ m # 0
    BY <1>1, <2>3 DEF Missed
  <2>5. m - 1 \in Reached /\ m - 1 < n
    BY <2>3, <2>4 DEF Missed
  <2>6. (m - 1) + 1 \in Reached
    BY <1>2, <2>5
  <2>7. QED
    BY <2>3, <2>4, <2>6 DEF Missed
<1>4. PICK g \in [0 .. n -> V] : Right(g, n)
  BY <1>3 DEF Reached
<1>5. g[0] = start /\ \A i \in 1 .. n : g[i] = step[<<i, g[i - 1]>>]
  <2>1. 0 \in 0 .. n /\ \A i \in 1 .. n : i \in 0 .. n /\ i # 0
    OBVIOUS
  <2>2. QED
    BY <1>4, <2>1
<1>6. QED
  BY <1>5 DEF Histories

\* What holds first, and of each step whenever it holds of the one before, holds of all.
LEMMA Forwards ==
  ASSUME NEW a \in Nat, NEW z \in Nat, NEW G, a \in G,
         \A i \in a .. z - 1 : i \in G => i + 1 \in G
  PROVE  \A i \in a .. z : i \in G
<1> DEFINE Missed == {i \in a .. z : i \notin G}
<1>1. SUFFICES ASSUME Missed # {} PROVE FALSE
  OBVIOUS
<1> HIDE DEF Missed
<1>2. Missed \subseteq Nat
  BY DEF Missed
<1>3. PICK m \in Missed : \A y \in Missed : m <= y
  BY <1>1, <1>2, LeastNatural
<1>4. m \in a .. z /\ m # a
  BY <1>3 DEF Missed
<1>5. m - 1 \in a .. z - 1 /\ m - 1 \in G
  BY <1>3, <1>4 DEF Missed
<1>6. (m - 1) + 1 \in G
  BY <1>5
<1>7. QED
  BY <1>3, <1>4, <1>6 DEF Missed

(***************************************************************************)
(* The bytes of a sequence of tokens: those of the last one behind those   *)
(* of the others.                                                          *)
(***************************************************************************)
LEMMA FlattenIs ==
  ASSUME NEW S, NEW s \in Seq(Seq(S)), s # <<>>, NEW F, F \in [0 .. Len(s) -> Seq(S)],
         F[0] = <<>>, \A i \in 1 .. Len(s) : F[i] = F[i - 1] \o s[i]
  PROVE  FlattenSeq(s) = F[Len(s)]
<1> DEFINE flatten[i \in 1 .. Len(s)] == IF i = 1 THEN s[i] ELSE flatten[i - 1] \o s[i]
           Is(f) == f = [i \in 1 .. Len(s) |-> IF i = 1 THEN s[i] ELSE f[i - 1] \o s[i]]
           G == [i \in 1 .. Len(s) |-> F[i]]
<1>1. Len(s) \in Nat \ {0}
  OBVIOUS
<1>2. FlattenSeq(s) = flatten[Len(s)]
  BY <1>1 DEF FlattenSeq
<1>3. flatten = CHOOSE f : Is(f)
  OBVIOUS
<1>4. Is(G)
  <2>1. ASSUME NEW i \in 1 .. Len(s) PROVE G[i] = IF i = 1 THEN s[i] ELSE G[i - 1] \o s[i]
    <3>1. s[i] \in Seq(S) /\ <<>> \o s[i] = s[i]
      OBVIOUS
    <3>2. G[i] = F[i - 1] \o s[i]
      OBVIOUS
    <3>3. CASE i = 1
      <4>1. F[i - 1] = <<>>
        BY <3>3
      <4>2. QED
        BY <3>1, <3>2, <3>3, <4>1
    <3>4. CASE i # 1
      <4>1. i - 1 \in 1 .. Len(s)
        BY <1>1, <3>4
      <4>2. G[i - 1] = F[i - 1]
        BY <4>1
      <4>3. QED
        BY <3>2, <3>4, <4>2
    <3>5. QED
      BY <3>3, <3>4
  <2>2. QED
    BY <2>1
<1> HIDE DEF G
<1>5. Is(flatten)
  BY <1>3, <1>4, Zenon
<1> HIDE DEF flatten
<1>6. \A i \in 1 .. Len(s) : flatten[i] = IF i = 1 THEN s[i] ELSE flatten[i - 1] \o s[i]
  BY <1>5
<1> DEFINE Same == {i \in 1 .. Len(s) : flatten[i] = F[i]}
<1>7. 1 \in Same
  <2>1. s[1] \in Seq(S) /\ <<>> \o s[1] = s[1]
    BY <1>1
  <2>2. F[1] = F[0] \o s[1]
    <3>1. 1 \in 1 .. Len(s) /\ 1 - 1 = 0
      BY <1>1
    <3>2. F[1] = F[1 - 1] \o s[1]
      BY <3>1
    <3>3. QED
      BY <3>1, <3>2
  <2>3. flatten[1] = s[1]
    BY <1>1, <1>6
  <2>4. QED
    BY <1>1, <2>1, <2>2, <2>3
<1>8. ASSUME NEW i \in 1 .. Len(s) - 1, i \in Same PROVE i + 1 \in Same
  <2>1. i + 1 \in 1 .. Len(s) /\ i + 1 # 1 /\ (i + 1) - 1 = i
    BY <1>1
  <2>2. flatten[i + 1] = flatten[i] \o s[i + 1]
    BY <1>6, <2>1
  <2>3. F[i + 1] = F[i] \o s[i + 1]
    BY <2>1
  <2>4. QED
    BY <1>8, <2>1, <2>2, <2>3
<1> HIDE DEF Same
<1>9. Len(s) \in Same
  <2>1. \A i \in 1 .. Len(s) - 1 : i \in Same => i + 1 \in Same
    BY <1>8
  <2>2. \A i \in 1 .. Len(s) : i \in Same
    BY <1>1, <1>7, <2>1, Forwards
  <2>3. QED
    BY <1>1, <2>2
<1>10. QED
  BY <1>2, <1>9 DEF Same

\* One piece more at the end.
LEMMA FlattenAppend ==
  ASSUME NEW S, NEW s \in Seq(Seq(S)), NEW e \in Seq(S)
  PROVE  /\ FlattenSeq(<<>>) = <<>>
         /\ FlattenSeq(s) \in Seq(S)
         /\ FlattenSeq(Append(s, e)) = FlattenSeq(s) \o e
<1> DEFINE t == Append(s, e)
           n == Len(s)
           step == [x \in (1 .. n + 1) \X Seq(S) |-> x[2] \o t[x[1]]]
<1>1. /\ n \in Nat /\ t \in Seq(Seq(S)) /\ Len(t) = n + 1
      /\ t[n + 1] = e /\ \A i \in 1 .. n : t[i] = s[i]
  OBVIOUS
<1>2. t # <<>>
  <2>1. Len(t) # 0
    BY <1>1
  <2> HIDE DEF t
  <2>2. QED
    BY <2>1
<1>3. \A i \in 1 .. n + 1 : t[i] \in Seq(S)
  BY <1>1, ElementOfSeq
<1> HIDE DEF t, n
<1>4. step \in [(1 .. n + 1) \X Seq(S) -> Seq(S)]
  <2>1. ASSUME NEW x \in (1 .. n + 1) \X Seq(S) PROVE x[2] \o t[x[1]] \in Seq(S)
    <3>1. x[2] \in Seq(S) /\ t[x[1]] \in Seq(S)
      BY <1>3
    <3>2. QED
      BY <3>1
  <2>2. QED
    BY <2>1
<1>5. <<>> \in Seq(S)
  OBVIOUS
<1>6. \A i \in 1 .. n + 1, x \in Seq(S) : step[<<i, x>>] = x \o t[i]
  OBVIOUS
<1> HIDE DEF step
<1>7. PICK F \in [0 .. n + 1 -> Seq(S)] :
          F[0] = <<>> /\ \A i \in 1 .. n + 1 : F[i] = step[<<i, F[i - 1]>>]
  <2>1. n + 1 \in Nat
    BY <1>1
  <2>2. Histories(Seq(S), n + 1, <<>>, step) # {}
    BY <1>4, <1>5, <2>1, ForwardFunction
  <2>3. QED
    BY <2>2 DEF Histories
<1>8. F[0] = <<>> /\ \A i \in 1 .. n + 1 : F[i] = F[i - 1] \o t[i]
  <2>1. 0 \in 0 .. n + 1
    BY <1>1
  <2>2. F[0] = <<>>
    BY <1>7, <2>1
  <2>3. ASSUME NEW i \in 1 .. n + 1 PROVE F[i] = F[i - 1] \o t[i]
    <3>1. i \in 0 .. n + 1 /\ i # 0 /\ i - 1 \in 0 .. n + 1
      BY <1>1
    <3>2. F[i - 1] \in Seq(S)
      BY <3>1
    <3>3. F[i] = step[<<i, F[i - 1]>>]
      BY <1>7, <3>1
    <3>4. QED
      BY <1>6, <3>2, <3>3
  <2>4. QED
    BY <2>2, <2>3
<1>9. FlattenSeq(t) = F[n + 1]
  BY <1>1, <1>2, <1>8, FlattenIs
<1>10. FlattenSeq(<<>>) = <<>>
  BY DEF FlattenSeq
<1>11. FlattenSeq(s) = F[n]
  <2>1. CASE s = <<>>
    BY <1>8, <1>10, <2>1 DEF n
  <2>2. CASE s # <<>>
    <3> DEFINE G == [i \in 0 .. n |-> F[i]]
    <3>1. G \in [0 .. n -> Seq(S)] /\ \A i \in 0 .. n : G[i] = F[i]
      BY <1>1
    <3> HIDE DEF G
    <3>2. G[0] = <<>>
      BY <1>1, <1>8, <3>1
    <3>3. ASSUME NEW i \in 1 .. n PROVE G[i] = G[i - 1] \o s[i]
      <4>1. i \in 0 .. n /\ i - 1 \in 0 .. n /\ i \in 1 .. n + 1
        BY <1>1
      <4>2. F[i] = F[i - 1] \o t[i]
        BY <1>8, <4>1
      <4>3. QED
        BY <1>1, <3>1, <4>1, <4>2
    <3>4. FlattenSeq(s) = G[n]
      BY <2>2, <3>1, <3>2, <3>3, FlattenIs DEF n
    <3>5. QED
      BY <1>1, <3>1, <3>4
  <2>3. QED
    BY <2>1, <2>2
<1>12. F[n] \in Seq(S) /\ F[n + 1] = F[n] \o e
  <2>1. n \in 0 .. n + 1 /\ n + 1 \in 1 .. n + 1 /\ (n + 1) - 1 = n
    BY <1>1
  <2>2. QED
    BY <1>1, <1>8, <2>1
<1>13. QED
  BY <1>9, <1>10, <1>11, <1>12 DEF t

\* One token more adds the token's bytes.
LEMMA TokenBytesAppend ==
  ASSUME NEW toks \in Seq(AnyToken), NEW t \in AnyToken
  PROVE  /\ TokenBytes(<<>>) = <<>>
         /\ TokenBytes(toks) \in Seq(Symbols)
         /\ TokenBytes(Append(toks, t)) = TokenBytes(toks) \o t.bytes
<1> DEFINE bytes == [i \in 1 .. Len(toks) |-> toks[i].bytes]
           more == Append(toks, t)
<1>1. /\ Len(toks) \in Nat /\ t.bytes \in Seq(Symbols)
      /\ \A i \in 1 .. Len(toks) : toks[i].bytes \in Seq(Symbols)
  <2>1. \A x \in AnyToken : x.bytes \in Seq(Symbols)
    BY DEF AnyToken
  <2>2. \A i \in 1 .. Len(toks) : toks[i] \in AnyToken
    BY ElementOfSeq
  <2>3. QED
    BY <2>1, <2>2
<1>2. bytes \in Seq(Seq(Symbols)) /\ Len(bytes) = Len(toks)
  BY <1>1
<1>3. /\ Len(more) = Len(toks) + 1 /\ more[Len(toks) + 1] = t
      /\ \A i \in 1 .. Len(toks) : more[i] = toks[i]
  OBVIOUS
<1>4. [i \in 1 .. Len(more) |-> more[i].bytes] = Append(bytes, t.bytes)
  <2> DEFINE x == [i \in 1 .. Len(more) |-> more[i].bytes]
             y == Append(bytes, t.bytes)
  <2>1. /\ y \in Seq(Seq(Symbols)) /\ Len(y) = Len(toks) + 1 /\ y[Len(toks) + 1] = t.bytes
        /\ \A i \in 1 .. Len(toks) : y[i] = bytes[i]
    BY <1>1, <1>2
  <2>2. \A i \in 1 .. Len(toks) + 1 : more[i].bytes = y[i]
    BY <1>1, <1>3, <2>1
  <2>3. x \in Seq(Seq(Symbols)) /\ Len(x) = Len(toks) + 1
    <3>1. \A i \in 1 .. Len(more) : more[i].bytes \in Seq(Symbols)
      BY <1>1, <1>3
    <3>2. QED
      BY <1>1, <1>3, <3>1
  <2>4. \A i \in 1 .. Len(toks) + 1 : x[i] = y[i]
    BY <1>3, <2>2
  <2> HIDE DEF x, y
  <2>5. x = y
    BY <2>1, <2>3, <2>4, SeqEqual
  <2>6. QED
    BY <2>5 DEF x, y
<1>5. TokenBytes(toks) = FlattenSeq(bytes) /\ TokenBytes(more) = FlattenSeq(Append(bytes, t.bytes))
  BY <1>4 DEF TokenBytes
<1>6. TokenBytes(<<>>) = <<>>
  <2>1. [i \in 1 .. Len(<<>>) |-> (<<>>)[i].bytes] = <<>>
    OBVIOUS
  <2>2. QED
    BY <1>1, <1>2, <2>1, FlattenAppend DEF TokenBytes
<1>7. QED
  BY <1>1, <1>2, <1>5, <1>6, FlattenAppend

\* A slice of tokens and the one behind it.
LEMMA OneTokenMore ==
  ASSUME NEW toks \in Seq(AnyToken), NEW a \in 1 .. Len(toks), NEW m \in a .. Len(toks)
  PROVE  TokenBytes(SubSeq(toks, a, m)) = TokenBytes(SubSeq(toks, a, m - 1)) \o toks[m].bytes
<1> DEFINE s == SubSeq(toks, a, m - 1)
           t == SubSeq(toks, a, m)
<1>1. Len(toks) \in Nat /\ a \in Nat /\ m \in Nat /\ toks[m] \in AnyToken /\ a <= m
  OBVIOUS
<1>2. /\ s \in Seq(AnyToken) /\ Len(s) = m - a /\ \A i \in 1 .. m - a : s[i] = toks[a + i - 1]
  <2>1. CASE a = m
    BY <1>1, <2>1, SubSeqProperties
  <2>2. CASE a < m
    <3>1. a \in 1 .. Len(toks) /\ m - 1 \in a .. Len(toks)
      BY <1>1, <2>2
    <3>2. QED
      BY <1>1, <3>1, SubSeqProperties, ElementOfSeq
  <2>3. QED
    BY <1>1, <2>1, <2>2
<1>3. /\ t \in Seq(AnyToken) /\ Len(t) = m - a + 1
      /\ \A i \in 1 .. m - a + 1 : t[i] = toks[a + i - 1]
  BY <1>1, SubSeqProperties, ElementOfSeq
<1> HIDE DEF s, t
<1>4. t = Append(s, toks[m])
  <2> DEFINE u == Append(s, toks[m])
  <2>1. /\ u \in Seq(AnyToken) /\ Len(u) = m - a + 1 /\ u[m - a + 1] = toks[m]
        /\ \A i \in 1 .. m - a : u[i] = s[i]
    BY <1>1, <1>2, SMTT(30)
  <2>2. \A i \in 1 .. m - a + 1 : t[i] = u[i]
    BY <1>1, <1>2, <1>3, <2>1
  <2> HIDE DEF u
  <2>3. t = u
    BY <1>1, <1>3, <2>1, <2>2, SeqEqual
  <2>4. QED
    BY <2>3 DEF u
<1>5. QED
  BY <1>1, <1>2, <1>4, TokenBytesAppend DEF s, t

(***************************************************************************)
(* Where the tokens stand.                                                 *)
(***************************************************************************)
LEMMA DocumentTypes ==
  ASSUME NEW d \in Docs
  PROVE  /\ d.path \in Seq(Names) /\ d.bytes \in Seq(Symbols)
         /\ Len(d.bytes) \in Nat /\ Len(Prolog) \in Nat /\ Len(Prolog) <= Len(d.bytes)
         /\ d.toks \in Seq(AnyToken) /\ Len(d.toks) \in Nat
         /\ DOMAIN d.toks = 1 .. Len(d.toks)
         /\ \A k \in 1 .. Len(d.toks) : d.toks[k] \in AnyToken
<1>1. /\ Prolog \in Seq(Symbols) /\ TokenBytes(d.toks) \in Seq(Symbols)
      /\ d.bytes = Prolog \o TokenBytes(d.toks) /\ d.path \in Seq(Names)
  BY InputAssumption
<1>2. d.bytes \in Seq(Symbols) /\ Len(d.bytes) = Len(Prolog) + Len(TokenBytes(d.toks))
  BY <1>1, ConcatProperties
<1>3. Len(Prolog) \in Nat /\ Len(TokenBytes(d.toks)) \in Nat
  BY <1>1, LenProperties
<1>4. d.toks \in Seq(AnyToken)
  BY TokensAssumption
<1>5. Len(d.toks) \in Nat /\ DOMAIN d.toks = 1 .. Len(d.toks)
  BY <1>4, LenProperties
<1>6. \A k \in 1 .. Len(d.toks) : d.toks[k] \in AnyToken
  BY <1>4, ElementOfSeq
<1>7. QED
  BY <1>1, <1>2, <1>3, <1>4, <1>5, <1>6

\* A token ends where the next one begins, and the last one where the input ends.
LEMMA TokenPlaces ==
  ASSUME NEW d \in Docs
  PROVE  /\ TokenStart(d, 1) = Len(Prolog)
         /\ TokenStart(d, Len(d.toks) + 1) = Len(d.bytes)
         /\ \A k \in 1 .. Len(d.toks) + 1 : TokenStart(d, k) \in Nat
         /\ \A k \in 1 .. Len(d.toks) :
              /\ TokenStart(d, k + 1) = TokenStart(d, k) + Len(d.toks[k].bytes)
              /\ TokenStart(d, k) < TokenStart(d, k + 1)
              /\ IsToken(d.bytes, TokenStart(d, k) + 1, TokenStart(d, k + 1), d.toks[k])
<1> DEFINE n == Len(d.toks)
           upTo(k) == TokenBytes(SubSeq(d.toks, 1, k))
<1>1. /\ n \in Nat /\ d.toks \in Seq(AnyToken) /\ Len(Prolog) \in Nat
      /\ Len(d.bytes) \in Nat
  BY DocumentTypes
<1>2. \A k \in 1 .. n + 1 : TokenStart(d, k) = Len(Prolog) + Len(upTo(k - 1))
  BY InputAssumption, <1>1 DEF TokenStart
<1>3. SubSeq(d.toks, 1, 0) = <<>> /\ SubSeq(d.toks, 1, n) = d.toks
  BY <1>1, SubSeqProperties
<1>4. TokenBytes(<<>>) = <<>>
  <2>1. \E t : t \in AnyToken
    <3>1. [kind |-> "space", name |-> "", attrs |-> "none", bytes |-> <<>>] \in AnyToken
      BY DEF AnyToken
    <3>2. QED
      BY <3>1
  <2>2. QED
    BY <1>1, <2>1, TokenBytesAppend
<1>5. TokenStart(d, 1) = Len(Prolog)
  <2>1. 1 \in 1 .. n + 1 /\ 1 - 1 = 0
    BY <1>1
  <2>2. TokenStart(d, 1) = Len(Prolog) + Len(upTo(1 - 1))
    BY <1>2, <2>1
  <2>3. upTo(1 - 1) = <<>> /\ Len(<<>>) = 0
    BY <1>3, <1>4, <2>1
  <2>4. QED
    BY <1>1, <2>2, <2>3
<1>6. TokenStart(d, n + 1) = Len(d.bytes)
  <2>1. n + 1 \in 1 .. n + 1 /\ (n + 1) - 1 = n
    BY <1>1
  <2>2. TokenStart(d, n + 1) = Len(Prolog) + Len(upTo((n + 1) - 1))
    BY <1>2, <2>1
  <2>3. upTo((n + 1) - 1) = TokenBytes(d.toks)
    BY <1>3, <2>1
  <2>4. Len(d.bytes) = Len(Prolog) + Len(TokenBytes(d.toks))
    BY InputAssumption, ConcatProperties
  <2>5. QED
    BY <2>2, <2>3, <2>4
<1>7. \A k \in 0 .. n : upTo(k) \in Seq(Symbols) /\ Len(upTo(k)) \in Nat
  <2> SUFFICES ASSUME NEW k \in 0 .. n PROVE upTo(k) \in Seq(Symbols) /\ Len(upTo(k)) \in Nat
    OBVIOUS
  <2>1. SubSeq(d.toks, 1, k) \in Seq(AnyToken)
    <3>1. CASE k = 0
      BY <1>3, <3>1
    <3>2. CASE k # 0
      BY <1>1, <3>2, SubSeqProperties, ElementOfSeq
    <3>3. QED
      BY <3>1, <3>2
  <2>2. [kind |-> "space", name |-> "", attrs |-> "none", bytes |-> <<>>] \in AnyToken
    BY DEF AnyToken
  <2>3. upTo(k) \in Seq(Symbols)
    BY <2>1, <2>2, TokenBytesAppend
  <2>4. QED
    BY <2>3, LenProperties
<1>8. \A k \in 1 .. n : d.toks[k].bytes \in Seq(Symbols) /\ Len(d.toks[k].bytes) \in Nat
  <2>1. \A x \in AnyToken : x.bytes \in Seq(Symbols)
    BY DEF AnyToken
  <2>2. QED
    BY <2>1, DocumentTypes, LenProperties
<1>9. ASSUME NEW k \in 1 .. n PROVE Len(upTo(k)) = Len(upTo(k - 1)) + Len(d.toks[k].bytes)
  <2>1. k \in Nat /\ 1 \in 1 .. n /\ k \in 1 .. n /\ k - 1 \in 0 .. n
    BY <1>1
  <2>2. upTo(k) = upTo(k - 1) \o d.toks[k].bytes
    BY <1>1, <2>1, OneTokenMore
  <2>3. PICK w \in Seq(Symbols), v \in Seq(Symbols) : w = upTo(k - 1) /\ v = d.toks[k].bytes
    BY <1>7, <1>8, <2>1
  <2>4. Len(w \o v) = Len(w) + Len(v)
    BY ConcatProperties
  <2>5. QED
    BY <2>2, <2>3, <2>4
<1> HIDE DEF upTo
<1>10. \A k \in 1 .. n + 1 : TokenStart(d, k) \in Nat
  <2>1. \A k \in 1 .. n + 1 : k - 1 \in 0 .. n
    BY <1>1
  <2>2. QED
    BY <1>1, <1>2, <1>7, <2>1
<1>11. ASSUME NEW k \in 1 .. n
       PROVE  /\ TokenStart(d, k + 1) = TokenStart(d, k) + Len(d.toks[k].bytes)
              /\ TokenStart(d, k) < TokenStart(d, k + 1)
              /\ IsToken(d.bytes, TokenStart(d, k) + 1, TokenStart(d, k + 1), d.toks[k])
  <2>1. /\ k \in 1 .. n + 1 /\ k + 1 \in 1 .. n + 1 /\ (k + 1) - 1 = k
        /\ k - 1 \in 0 .. n /\ k \in 0 .. n
    BY <1>1
  <2>2. /\ TokenStart(d, k) = Len(Prolog) + Len(upTo(k - 1))
        /\ TokenStart(d, k + 1) = Len(Prolog) + Len(upTo(k))
    BY <1>2, <2>1
  <2>3. TokenStart(d, k + 1) = TokenStart(d, k) + Len(d.toks[k].bytes)
    <3>1. Len(upTo(k)) = Len(upTo(k - 1)) + Len(d.toks[k].bytes)
      BY <1>9
    <3>2. Len(upTo(k - 1)) \in Nat /\ Len(d.toks[k].bytes) \in Nat
      BY <1>7, <1>8, <2>1
    <3>3. PICK x \in Nat, y \in Nat, z \in Nat :
              x = Len(Prolog) /\ y = Len(upTo(k - 1)) /\ z = Len(d.toks[k].bytes)
      BY <1>1, <3>2
    <3>4. TokenStart(d, k) = x + y /\ TokenStart(d, k + 1) = x + (y + z)
      BY <2>2, <3>1, <3>3
    <3>5. x + (y + z) = (x + y) + z
      OBVIOUS
    <3>6. QED
      BY <3>3, <3>4, <3>5
  <2>4. IsToken(d.bytes, TokenStart(d, k) + 1, TokenStart(d, k + 1), d.toks[k])
    BY TokensAssumption, DocumentTypes DEF TokenStart
  <2>5. TokenStart(d, k) + 1 <= TokenStart(d, k + 1)
    BY <2>4 DEF IsToken
  <2>6. QED
    BY <1>10, <2>1, <2>3, <2>4, <2>5
<1>12. QED
  BY <1>5, <1>6, <1>10, <1>11

\* A later token begins later.
LEMMA TokensInOrder ==
  ASSUME NEW d \in Docs, NEW a \in 1 .. Len(d.toks) + 1, NEW b \in a .. Len(d.toks) + 1
  PROVE  /\ TokenStart(d, a) <= TokenStart(d, b)
         /\ a < b => TokenStart(d, a) < TokenStart(d, b)
         /\ TokenStart(d, b) <= Len(d.bytes)
<1> DEFINE n == Len(d.toks)
           Later == {j \in 1 .. n + 1 : /\ TokenStart(d, a) <= TokenStart(d, j)
                                        /\ a < j => TokenStart(d, a) < TokenStart(d, j)}
           Inner == {j \in 1 .. n + 1 : TokenStart(d, b) <= TokenStart(d, j)}
<1>1. n \in Nat
  BY DocumentTypes
<1>2. /\ \A k \in 1 .. n + 1 : TokenStart(d, k) \in Nat
      /\ \A k \in 1 .. n : TokenStart(d, k) < TokenStart(d, k + 1)
      /\ TokenStart(d, n + 1) = Len(d.bytes)
  BY TokenPlaces
<1>3. a \in Nat /\ b \in Nat /\ b \in 1 .. n + 1 /\ n + 1 \in Nat
  BY <1>1
<1>4. a \in Later /\ b \in Inner
  BY <1>2, <1>3
<1>5. \A j \in a .. (n + 1) - 1 : j \in Later => j + 1 \in Later
  <2> SUFFICES ASSUME NEW j \in a .. (n + 1) - 1, j \in Later PROVE j + 1 \in Later
    OBVIOUS
  <2>1. j \in 1 .. n /\ j + 1 \in 1 .. n + 1 /\ j \in 1 .. n + 1
    BY <1>1, <1>3
  <2>2. TokenStart(d, a) <= TokenStart(d, j) /\ TokenStart(d, j) < TokenStart(d, j + 1)
    BY <1>2, <2>1
  <2>3. TokenStart(d, a) \in Nat /\ TokenStart(d, j) \in Nat /\ TokenStart(d, j + 1) \in Nat
    BY <1>2, <2>1
  <2>4. TokenStart(d, a) < TokenStart(d, j + 1)
    BY <2>2, <2>3
  <2>5. QED
    BY <2>1, <2>3, <2>4
<1>6. \A j \in b .. (n + 1) - 1 : j \in Inner => j + 1 \in Inner
  <2> SUFFICES ASSUME NEW j \in b .. (n + 1) - 1, j \in Inner PROVE j + 1 \in Inner
    OBVIOUS
  <2>1. j \in 1 .. n /\ j + 1 \in 1 .. n + 1 /\ j \in 1 .. n + 1
    BY <1>1, <1>3
  <2>2. TokenStart(d, b) <= TokenStart(d, j) /\ TokenStart(d, j) < TokenStart(d, j + 1)
    BY <1>2, <2>1
  <2>3. TokenStart(d, b) \in Nat /\ TokenStart(d, j) \in Nat /\ TokenStart(d, j + 1) \in Nat
    BY <1>2, <1>3, <2>1
  <2>4. TokenStart(d, b) <= TokenStart(d, j + 1)
    BY <2>2, <2>3
  <2>5. QED
    BY <2>1, <2>4
<1> HIDE DEF Later, Inner
<1>7. \A j \in a .. n + 1 : j \in Later
  BY <1>3, <1>4, <1>5, Forwards
<1>8. \A j \in b .. n + 1 : j \in Inner
  BY <1>3, <1>4, <1>6, Forwards
<1>9. b \in Later /\ n + 1 \in Inner
  BY <1>3, <1>7, <1>8
<1>10. QED
  BY <1>2, <1>9 DEF Later, Inner

\* The two parts of a concatenation.
LEMMA ConcatSlices ==
  ASSUME NEW S, NEW u \in Seq(S), NEW v \in Seq(S)
  PROVE  /\ SubSeq(u \o v, 1, Len(u)) = u
         /\ SubSeq(u \o v, Len(u) + 1, Len(u) + Len(v)) = v
<1> DEFINE w == u \o v
           x == SubSeq(w, 1, Len(u))
           y == SubSeq(w, Len(u) + 1, Len(u) + Len(v))
<1>1. /\ Len(u) \in Nat /\ Len(v) \in Nat
      /\ w \in Seq(S) /\ Len(w) = Len(u) + Len(v)
      /\ \A i \in 1 .. Len(u) : w[i] = u[i]
      /\ \A i \in 1 .. Len(v) : w[Len(u) + i] = v[i]
  BY ConcatProperties, LenProperties
<1> HIDE DEF w
<1>2. x \in Seq(S) /\ Len(x) = Len(u) /\ \A i \in 1 .. Len(u) : x[i] = w[i]
  BY <1>1, SubSeqProperties, ElementOfSeq
<1>3. y \in Seq(S) /\ Len(y) = Len(v) /\ \A i \in 1 .. Len(v) : y[i] = w[Len(u) + i]
  BY <1>1, SubSeqProperties, ElementOfSeq
<1> HIDE DEF x, y
<1>4. x = u
  BY <1>1, <1>2, SeqEqual
<1>5. y = v
  BY <1>1, <1>3, SeqEqual
<1>6. QED
  BY <1>4, <1>5 DEF x, y, w

\* A token's bytes are those of the input where it stands.
LEMMA TokenIsSlice ==
  ASSUME NEW d \in Docs, NEW k \in 1 .. Len(d.toks)
  PROVE  d.toks[k].bytes = SubSeq(d.bytes, TokenStart(d, k) + 1, TokenStart(d, k + 1))
<1> DEFINE n == Len(d.toks)
           upTo(m) == Prolog \o TokenBytes(SubSeq(d.toks, 1, m))
           Known == {i \in 0 .. n : upTo(n - i) = SubSeq(d.bytes, 1, TokenStart(d, n - i + 1))}
<1>1. /\ n \in Nat /\ d.toks \in Seq(AnyToken) /\ Prolog \in Seq(Symbols)
      /\ d.bytes \in Seq(Symbols) /\ Len(d.bytes) \in Nat
  BY DocumentTypes, InputAssumption
<1>2. /\ \A j \in 1 .. n + 1 : TokenStart(d, j) \in Nat
      /\ \A j \in 1 .. n : TokenStart(d, j + 1) = TokenStart(d, j) + Len(d.toks[j].bytes)
      /\ TokenStart(d, n + 1) = Len(d.bytes)
  BY TokenPlaces
<1>3. \A j \in 1 .. n + 1 : TokenStart(d, j) <= Len(d.bytes)
  <2>1. \A j \in 1 .. n + 1 : j \in j .. n + 1
    BY <1>1
  <2>2. QED
    BY <2>1, TokensInOrder
<1>4. \A j \in 1 .. n : d.toks[j].bytes \in Seq(Symbols) /\ Len(d.toks[j].bytes) \in Nat
  <2>1. \A x \in AnyToken : x.bytes \in Seq(Symbols)
    BY DEF AnyToken
  <2>2. QED
    BY <2>1, DocumentTypes, LenProperties
<1>5. \A j \in 0 .. n : upTo(j) \in Seq(Symbols)
  <2> SUFFICES ASSUME NEW j \in 0 .. n PROVE upTo(j) \in Seq(Symbols)
    OBVIOUS
  <2>1. SubSeq(d.toks, 1, j) \in Seq(AnyToken)
    BY <1>1, SubSeqProperties, ElementOfSeq
  <2>2. [kind |-> "space", name |-> "", attrs |-> "none", bytes |-> <<>>] \in AnyToken
    BY DEF AnyToken
  <2>3. TokenBytes(SubSeq(d.toks, 1, j)) \in Seq(Symbols)
    BY <2>1, <2>2, TokenBytesAppend
  <2>4. QED
    BY <1>1, <2>3
<1>6. ASSUME NEW m \in 1 .. n PROVE upTo(m) = upTo(m - 1) \o d.toks[m].bytes
  <2> DEFINE x == TokenBytes(SubSeq(d.toks, 1, m - 1))
  <2>1. 1 \in 1 .. n /\ m - 1 \in 0 .. n
    BY <1>1
  <2>2. TokenBytes(SubSeq(d.toks, 1, m)) = x \o d.toks[m].bytes
    BY <1>1, <2>1, OneTokenMore
  <2>3. x \in Seq(Symbols)
    <3>1. SubSeq(d.toks, 1, m - 1) \in Seq(AnyToken)
      BY <1>1, <2>1, SubSeqProperties, ElementOfSeq
    <3>2. d.toks[m] \in AnyToken
      BY DocumentTypes
    <3>3. QED
      BY <3>1, <3>2, TokenBytesAppend
  <2> HIDE DEF x
  <2>4. PICK v \in Seq(Symbols) : v = d.toks[m].bytes
    BY <1>4
  <2>5. (Prolog \o x) \o v = Prolog \o (x \o v)
    <3>1. ASSUME NEW a \in Seq(Symbols), NEW b \in Seq(Symbols), NEW c \in Seq(Symbols)
          PROVE  (a \o b) \o c = a \o (b \o c)
      BY <3>1, ConcatAssociative, SMTT(30)
    <3>2. Prolog \in Seq(Symbols) /\ v \in Seq(Symbols)
      BY <1>1, <2>4
    <3>3. QED
      BY <2>3, <3>1, <3>2
  <2>6. QED
    BY <2>2, <2>4, <2>5 DEF x
<1>7. upTo(n) = d.bytes
  <2>1. SubSeq(d.toks, 1, n) = d.toks
    BY <1>1, SubSeqProperties
  <2>2. d.bytes = Prolog \o TokenBytes(d.toks)
    BY InputAssumption
  <2>3. QED
    BY <2>1, <2>2
<1> HIDE DEF upTo
<1>8. ASSUME NEW m \in 1 .. n, upTo(m) = SubSeq(d.bytes, 1, TokenStart(d, m + 1))
      PROVE  /\ upTo(m - 1) = SubSeq(d.bytes, 1, TokenStart(d, m))
             /\ d.toks[m].bytes = SubSeq(d.bytes, TokenStart(d, m) + 1, TokenStart(d, m + 1))
  <2> DEFINE u == upTo(m - 1)
             v == d.toks[m].bytes
             s == TokenStart(d, m)
             e == TokenStart(d, m + 1)
             w == SubSeq(d.bytes, 1, e)
  <2>1. m \in 1 .. n + 1 /\ m + 1 \in 1 .. n + 1 /\ m - 1 \in 0 .. n
    BY <1>1
  <2>2. s \in Nat /\ e \in Nat /\ e <= Len(d.bytes) /\ e = s + Len(v)
    BY <1>2, <1>3, <2>1
  <2>3. u \in Seq(Symbols) /\ v \in Seq(Symbols) /\ w = u \o v /\ Len(u) \in Nat /\ Len(v) \in Nat
    BY <1>4, <1>5, <1>6, <1>8, <2>1, LenProperties
  <2> HIDE DEF u, v, s, e
  <2>4. w \in Seq(Symbols) /\ Len(w) = e
    BY <1>1, <2>2, SubSeqProperties, ElementOfSeq
  <2>5. Len(w) = Len(u) + Len(v)
    BY <2>3, ConcatProperties
  <2>6. Len(u) = s /\ s <= e
    BY <2>2, <2>3, <2>4, <2>5
  <2>7. SubSeq(w, 1, s) = u /\ SubSeq(w, s + 1, e) = v
    <3>1. /\ SubSeq(u \o v, 1, Len(u)) = u
          /\ SubSeq(u \o v, Len(u) + 1, Len(u) + Len(v)) = v
      BY <2>3, ConcatSlices
    <3>2. QED
      BY <2>2, <2>3, <2>6, <3>1
  <2>8. \A b, y \in Nat : b <= y /\ y <= e =>
           SubSeq(SubSeq(d.bytes, 0 + 1, e), b - 0 + 1, y - 0) = SubSeq(d.bytes, b + 1, y)
    <3>1. SUFFICES ASSUME NEW b \in Nat, NEW y \in Nat, b <= y, y <= e
          PROVE SubSeq(SubSeq(d.bytes, 0 + 1, e), b - 0 + 1, y - 0) = SubSeq(d.bytes, b + 1, y)
      OBVIOUS
    <3>2. 0 \in Nat /\ 0 <= e /\ 0 <= b
      BY <2>2
    <3>3. QED
      BY <1>1, <2>2, <3>1, <3>2, SliceOfSlice
  <2>9. /\ SubSeq(SubSeq(d.bytes, 0 + 1, e), 0 - 0 + 1, s - 0) = SubSeq(d.bytes, 0 + 1, s)
        /\ SubSeq(SubSeq(d.bytes, 0 + 1, e), s - 0 + 1, e - 0) = SubSeq(d.bytes, s + 1, e)
    <3>1. 0 \in Nat /\ 0 <= s /\ e <= e
      BY <2>2
    <3>2. QED
      BY <2>2, <2>6, <2>8, <3>1
  <2>10. 0 + 1 = 1 /\ 0 - 0 + 1 = 1 /\ s - 0 = s /\ s - 0 + 1 = s + 1 /\ e - 0 = e
    BY <2>2
  <2>11. SubSeq(d.bytes, 1, s) = u /\ SubSeq(d.bytes, s + 1, e) = v
    BY <2>7, <2>9, <2>10
  <2>12. QED
    BY <2>11 DEF u, v, s, e
<1>9. 0 \in Known
  <2>1. n - 0 = n /\ 0 \in 0 .. n
    BY <1>1
  <2>2. SubSeq(d.bytes, 1, Len(d.bytes)) = d.bytes
    BY <1>1, SubSeqProperties
  <2>3. QED
    BY <1>2, <1>7, <2>1, <2>2
<1>10. \A i \in 0 .. n - 1 : i \in Known => i + 1 \in Known
  <2> SUFFICES ASSUME NEW i \in 0 .. n - 1, i \in Known PROVE i + 1 \in Known
    OBVIOUS
  <2>1. PICK m \in 1 .. n : m = n - i
    BY <1>1
  <2>2. n - (i + 1) = m - 1 /\ n - (i + 1) + 1 = m /\ i + 1 \in 0 .. n /\ n - i + 1 = m + 1
    BY <1>1, <2>1
  <2>3. upTo(m) = SubSeq(d.bytes, 1, TokenStart(d, m + 1))
    BY <2>1, <2>2
  <2>4. upTo(m - 1) = SubSeq(d.bytes, 1, TokenStart(d, m))
    BY <1>8, <2>3
  <2>5. QED
    BY <2>2, <2>4
<1> HIDE DEF Known
<1>11. \A i \in 0 .. n : i \in Known
  BY <1>1, <1>9, <1>10, Forwards
<1>12. upTo(k) = SubSeq(d.bytes, 1, TokenStart(d, k + 1))
  <2>1. n - k \in 0 .. n /\ n - (n - k) = k /\ n - (n - k) + 1 = k + 1
    BY <1>1
  <2>2. n - k \in Known
    BY <1>11, <2>1
  <2>3. QED
    BY <2>1, <2>2 DEF Known
<1>13. QED
  BY <1>8, <1>12

\* So are the bytes of several tokens in a row.
LEMMA TokensAreSlice ==
  ASSUME NEW d \in Docs, NEW a \in 1 .. Len(d.toks), NEW k \in a .. Len(d.toks)
  PROVE  TokenBytes(SubSeq(d.toks, a, k))
           = SubSeq(d.bytes, TokenStart(d, a) + 1, TokenStart(d, k + 1))
<1> DEFINE n == Len(d.toks)
           Known == {j \in a .. n : TokenBytes(SubSeq(d.toks, a, j))
                                      = SubSeq(d.bytes, TokenStart(d, a) + 1, TokenStart(d, j + 1))}
<1>1. /\ n \in Nat /\ d.toks \in Seq(AnyToken) /\ d.bytes \in Seq(Symbols)
      /\ Len(d.bytes) \in Nat
  BY DocumentTypes
<1>2. /\ \A j \in 1 .. n + 1 : TokenStart(d, j) \in Nat
      /\ \A j \in 1 .. n : TokenStart(d, j) < TokenStart(d, j + 1)
  BY TokenPlaces
<1>3. a \in Nat /\ k \in Nat /\ a <= k /\ k <= n /\ a \in 1 .. n
  BY <1>1
<1>4. ASSUME NEW j \in a .. n
      PROVE  TokenBytes(SubSeq(d.toks, a, j))
               = TokenBytes(SubSeq(d.toks, a, j - 1))
                   \o SubSeq(d.bytes, TokenStart(d, j) + 1, TokenStart(d, j + 1))
  <2>1. j \in 1 .. n
    BY <1>3
  <2>2. d.toks[j].bytes = SubSeq(d.bytes, TokenStart(d, j) + 1, TokenStart(d, j + 1))
    BY <2>1, TokenIsSlice
  <2>3. QED
    BY <1>1, <2>2, OneTokenMore
<1>5. a \in Known
  <2> DEFINE x == SubSeq(d.bytes, TokenStart(d, a) + 1, TokenStart(d, a + 1))
  <2>1. SubSeq(d.toks, a, a - 1) = <<>>
    BY <1>1, <1>3, SubSeqProperties
  <2>2. TokenBytes(<<>>) = <<>>
    <3>1. d.toks[a] \in AnyToken
      BY <1>3, DocumentTypes
    <3>2. QED
      BY <1>1, <3>1, TokenBytesAppend
  <2>3. x \in Seq(Symbols)
    <3>1. d.toks[a].bytes = x /\ d.toks[a] \in AnyToken
      BY <1>3, TokenIsSlice, DocumentTypes
    <3>2. QED
      BY <3>1 DEF AnyToken
  <2> HIDE DEF x
  <2>4. <<>> \o x = x
    BY <2>3
  <2>5. a \in a .. n
    BY <1>1, <1>3
  <2>6. TokenBytes(SubSeq(d.toks, a, a)) = <<>> \o x
    BY <1>4, <2>1, <2>2, <2>5 DEF x
  <2>7. QED
    BY <2>4, <2>5, <2>6 DEF x
<1>6. \A j \in a .. n - 1 : j \in Known => j + 1 \in Known
  <2> SUFFICES ASSUME NEW j \in a .. n - 1, j \in Known PROVE j + 1 \in Known
    OBVIOUS
  <2>1. /\ j + 1 \in a .. n /\ j + 1 \in 1 .. n /\ (j + 1) - 1 = j /\ (j + 1) + 1 \in 1 .. n + 1
        /\ j + 1 \in 1 .. n + 1 /\ a \in 1 .. n + 1 /\ j + 1 \in a .. n + 1
        /\ (j + 1) + 1 \in (j + 1) .. n + 1
    BY <1>1, <1>3
  <2> DEFINE s == TokenStart(d, a)
             m == TokenStart(d, j + 1)
             e == TokenStart(d, (j + 1) + 1)
  <2>2. s \in Nat /\ m \in Nat /\ e \in Nat /\ s <= m /\ m <= e /\ e <= Len(d.bytes)
    BY <1>2, <2>1, TokensInOrder
  <2>3. TokenBytes(SubSeq(d.toks, a, j + 1)) = SubSeq(d.bytes, s + 1, m) \o SubSeq(d.bytes, m + 1, e)
    BY <1>4, <2>1
  <2> HIDE DEF s, m, e
  <2>4. PICK x \in Nat : e = m + x
    <3>1. e - m \in Nat /\ e = m + (e - m)
      BY <2>2
    <3>2. QED
      BY <3>1
  <2>5. m + x <= Len(d.bytes)
    BY <2>2, <2>4
  <2>6. SubSeq(d.bytes, s + 1, m) \o SubSeq(d.bytes, m + 1, m + x) = SubSeq(d.bytes, s + 1, m + x)
    BY <1>1, <2>2, <2>5, SliceThenSlice
  <2>7. QED
    BY <2>1, <2>3, <2>4, <2>6 DEF s, m, e
<1> HIDE DEF Known
<1>7. \A j \in a .. n : j \in Known
  BY <1>1, <1>3, <1>5, <1>6, Forwards
<1>8. k \in Known
  BY <1>7
<1>9. QED
  BY <1>8 DEF Known

-------------------------------------------------------------------------------
(***************************************************************************)
(* One token more: the elements that are open.                             *)
(***************************************************************************)
TagNames == Names \cup {""}

OpenAfter(token, before) ==
    CASE token.kind = "start" -> Append(before, token.name)
      [] token.kind = "end" /\ before # <<>> -> Front(before)
      [] OTHER -> before

\* The open elements behind one token more.
LEMMA OpenAfterIs ==
  ASSUME NEW token \in AnyToken, NEW before \in Seq(TagNames)
  PROVE  /\ OpenAfter(token, before) \in Seq(TagNames)
         /\ token.kind = "start" =>
              /\ OpenAfter(token, before) = Append(before, token.name)
              /\ Len(OpenAfter(token, before)) = Len(before) + 1
              /\ OpenAfter(token, before)[Len(before) + 1] = token.name
              /\ \A i \in 1 .. Len(before) : OpenAfter(token, before)[i] = before[i]
         /\ token.kind = "end" /\ before # <<>> =>
              /\ Len(OpenAfter(token, before)) = Len(before) - 1
              /\ \A i \in 1 .. Len(before) - 1 : OpenAfter(token, before)[i] = before[i]
         /\ token.kind \notin {"start", "end"} \/ (token.kind = "end" /\ before = <<>>) =>
              OpenAfter(token, before) = before
<1>1. token.name \in TagNames
  BY DEF AnyToken, TagNames
<1>2. Len(before) \in Nat
  OBVIOUS
<1>3. CASE token.kind = "start"
  <2>1. OpenAfter(token, before) = Append(before, token.name)
    BY <1>3 DEF OpenAfter
  <2>2. /\ Append(before, token.name) \in Seq(TagNames)
        /\ Len(Append(before, token.name)) = Len(before) + 1
        /\ Append(before, token.name)[Len(before) + 1] = token.name
        /\ \A i \in 1 .. Len(before) : Append(before, token.name)[i] = before[i]
    BY <1>1, AppendProperties
  <2>3. QED
    BY <1>3, <2>1, <2>2
<1>4. CASE token.kind = "end" /\ before # <<>>
  <2>1. OpenAfter(token, before) = SubSeq(before, 1, Len(before) - 1)
    BY <1>4 DEF OpenAfter, Front
  <2>2. Len(before) > 0
    BY <1>2, <1>4, EmptySeq
  <2>3. SubSeq(before, 1, Len(before) - 1) \in Seq(TagNames)
        /\ Len(SubSeq(before, 1, Len(before) - 1)) = Len(before) - 1
        /\ \A i \in 1 .. Len(before) - 1 : SubSeq(before, 1, Len(before) - 1)[i] = before[i]
    <3>1. PICK m \in Nat : m = Len(before) - 1
      BY <1>2, <2>2
    <3>2. m <= Len(before) /\ m \in Nat
      BY <1>2, <3>1
    <3>3. /\ SubSeq(before, 1, m) \in Seq(TagNames) /\ Len(SubSeq(before, 1, m)) = m
          /\ \A i \in 1 .. m : SubSeq(before, 1, m)[i] = before[i]
      BY <3>2, SubSeqProperties, ElementOfSeq
    <3>4. QED
      BY <3>1, <3>3
  <2>4. QED
    BY <1>4, <2>1, <2>3
<1>5. CASE token.kind # "start" /\ ~(token.kind = "end" /\ before # <<>>)
  <2>1. OpenAfter(token, before) = before
    BY <1>5 DEF OpenAfter
  <2>2. QED
    BY <1>5, <2>1
<1>6. QED
  BY <1>3, <1>4, <1>5

\* Open, token by token.
LEMMA OpenUnfolds ==
  ASSUME NEW d \in Docs
  PROVE  /\ Open(d, 0) = <<RootName>>
         /\ \A k \in 0 .. Len(d.toks) : Open(d, k) \in Seq(TagNames)
         /\ \A k \in 1 .. Len(d.toks) : Open(d, k) = OpenAfter(d.toks[k], Open(d, k - 1))
<1> DEFINE n == Len(d.toks)
           open[i \in 0 .. Len(d.toks)] ==
             IF i = 0 THEN <<RootName>>
             ELSE LET before == open[i - 1]
                  IN CASE d.toks[i].kind = "start" -> Append(before, d.toks[i].name)
                       [] d.toks[i].kind = "end" /\ before # <<>> -> Front(before)
                       [] OTHER -> before
           Is(f) == f = [i \in 0 .. n |->
                           IF i = 0 THEN <<RootName>> ELSE OpenAfter(d.toks[i], f[i - 1])]
           step == [x \in (1 .. n) \X Seq(TagNames) |-> OpenAfter(d.toks[x[1]], x[2])]
<1>1. n \in Nat /\ \A k \in 1 .. n : d.toks[k] \in AnyToken
  BY DocumentTypes
<1>2. <<RootName>> \in Seq(TagNames)
  <2>1. RootName \in TagNames
    BY InputAssumption DEF TagNames
  <2>2. QED
    BY <2>1
<1>3. \A k : Open(d, k) = open[k]
  BY DEF Open
<1>4. open = CHOOSE f : Is(f)
  BY DEF OpenAfter
<1> HIDE DEF open
<1>5. step \in [(1 .. n) \X Seq(TagNames) -> Seq(TagNames)]
  <2>1. ASSUME NEW x \in (1 .. n) \X Seq(TagNames)
        PROVE  OpenAfter(d.toks[x[1]], x[2]) \in Seq(TagNames)
    <3>1. d.toks[x[1]] \in AnyToken /\ x[2] \in Seq(TagNames)
      BY <1>1
    <3>2. QED
      BY <3>1, OpenAfterIs
  <2>2. QED
    BY <2>1
<1>6. \A i \in 1 .. n, x \in Seq(TagNames) : step[<<i, x>>] = OpenAfter(d.toks[i], x)
  OBVIOUS
<1> HIDE DEF step
<1>7. PICK F \in [0 .. n -> Seq(TagNames)] :
          F[0] = <<RootName>> /\ \A i \in 1 .. n : F[i] = step[<<i, F[i - 1]>>]
  <2>1. Histories(Seq(TagNames), n, <<RootName>>, step) # {}
    BY <1>1, <1>2, <1>5, ForwardFunction
  <2>2. QED
    BY <2>1 DEF Histories
<1>8. Is(F)
  <2>1. ASSUME NEW i \in 0 .. n
        PROVE  F[i] = IF i = 0 THEN <<RootName>> ELSE OpenAfter(d.toks[i], F[i - 1])
    <3>1. CASE i = 0
      BY <1>7, <3>1
    <3>2. CASE i # 0
      <4>1. i \in 1 .. n /\ i - 1 \in 0 .. n
        BY <1>1, <3>2
      <4>2. F[i - 1] \in Seq(TagNames)
        BY <4>1
      <4>3. F[i] = step[<<i, F[i - 1]>>]
        BY <1>7, <4>1
      <4>4. QED
        BY <1>6, <3>2, <4>1, <4>2, <4>3
    <3>3. QED
      BY <3>1, <3>2
  <2>2. QED
    BY <2>1
<1>9. Is(open)
  BY <1>4, <1>8, Zenon
<1>10. \A i \in 0 .. n : open[i] = IF i = 0 THEN <<RootName>> ELSE OpenAfter(d.toks[i], open[i - 1])
  BY <1>9
<1>11. open[0] = <<RootName>>
  <2>1. 0 \in 0 .. n
    BY <1>1
  <2>2. QED
    BY <1>10, <2>1
<1>12. \A i \in 1 .. n : open[i] = OpenAfter(d.toks[i], open[i - 1])
  <2>1. \A i \in 1 .. n : i \in 0 .. n /\ i # 0
    BY <1>1
  <2>2. QED
    BY <1>10, <2>1
<1> DEFINE Typed == {i \in 0 .. n : open[i] \in Seq(TagNames)}
<1>13. 0 \in Typed
  <2>1. 0 \in 0 .. n
    BY <1>1
  <2>2. open[0] \in Seq(TagNames)
    BY <1>2, <1>11
  <2>3. QED
    BY <2>1, <2>2
<1>14. \A i \in 0 .. n - 1 : i \in Typed => i + 1 \in Typed
  <2> SUFFICES ASSUME NEW i \in 0 .. n - 1, i \in Typed PROVE i + 1 \in Typed
    OBVIOUS
  <2>1. i + 1 \in 1 .. n /\ i + 1 \in 0 .. n /\ (i + 1) - 1 = i
    BY <1>1
  <2>2. open[i + 1] = OpenAfter(d.toks[i + 1], open[i])
    BY <1>12, <2>1
  <2>3. d.toks[i + 1] \in AnyToken /\ open[i] \in Seq(TagNames)
    BY <1>1, <2>1
  <2>4. QED
    BY <2>1, <2>2, <2>3, OpenAfterIs
<1> HIDE DEF Typed
<1>15. \A i \in 0 .. n : i \in Typed
  BY <1>1, <1>13, <1>14, Forwards
<1>16. \A i \in 0 .. n : open[i] \in Seq(TagNames)
  BY <1>15 DEF Typed
<1>17. QED
  BY <1>3, <1>11, <1>12, <1>16

\* The path to the records.
LEMMA ContainerFacts ==
  ASSUME NEW d \in Docs
  PROVE  /\ Container(d) \in Seq(TagNames) /\ Len(Container(d)) = TargetOf(d)
         /\ TargetOf(d) \in Nat \ {0}
         /\ Container(d)[1] = RootName
         /\ \A i \in 1 .. Len(d.path) : Container(d)[i + 1] = d.path[i]
<1>1. d.path \in Seq(TagNames) /\ Len(d.path) \in Nat
  <2>1. d.path \in Seq(Names) /\ Names \subseteq TagNames
    BY DocumentTypes DEF TagNames
  <2>2. QED
    BY <2>1, LenProperties, SeqMonotonic
<1>2. <<RootName>> \in Seq(TagNames) /\ Len(<<RootName>>) = 1
  <2>1. RootName \in TagNames
    BY InputAssumption DEF TagNames
  <2>2. QED
    BY <2>1
<1>3. /\ Container(d) \in Seq(TagNames) /\ Len(Container(d)) = 1 + Len(d.path)
      /\ \A i \in 1 .. 1 + Len(d.path) :
            Container(d)[i] = IF i <= 1 THEN <<RootName>>[i] ELSE d.path[i - 1]
  BY <1>1, <1>2, ConcatProperties DEF Container
<1>4. Container(d)[1] = RootName
  BY <1>1, <1>3
<1>5. ASSUME NEW i \in 1 .. Len(d.path) PROVE Container(d)[i + 1] = d.path[i]
  <2>1. i + 1 \in 1 .. 1 + Len(d.path) /\ ~(i + 1 <= 1) /\ (i + 1) - 1 = i
    BY <1>1
  <2>2. QED
    BY <1>3, <2>1
<1>6. QED
  BY <1>1, <1>3, <1>4, <1>5 DEF TargetOf

\* What it means to be a prefix.
LEMMA PrefixIff ==
  ASSUME NEW S, NEW s \in Seq(S), NEW t \in Seq(S)
  PROVE  IsPrefix(s, t) <=> Len(s) <= Len(t) /\ \A i \in 1 .. Len(s) : s[i] = t[i]
<1> DEFINE n == Len(s)
           x == SubSeq(s, 1, n)
           y == SubSeq(t, 1, n)
<1>1. n \in Nat /\ Len(t) \in Nat
  OBVIOUS
<1>2. IsPrefix(s, t) <=> n <= Len(t) /\ x = y
  BY DEF IsPrefix
<1>3. x = s
  BY <1>1, SubSeqProperties
<1>4. CASE n <= Len(t)
  <2>1. y \in Seq(S) /\ Len(y) = n /\ \A i \in 1 .. n : y[i] = t[i]
    BY <1>1, <1>4, SubSeqProperties, ElementOfSeq
  <2> HIDE DEF y
  <2>2. s = y <=> \A i \in 1 .. n : s[i] = y[i]
    <3>1. (\A i \in 1 .. n : s[i] = y[i]) => s = y
      BY <1>1, <2>1, SeqEqual
    <3>2. QED
      BY <3>1
  <2>3. QED
    BY <1>2, <1>3, <1>4, <2>1, <2>2
<1>5. QED
  BY <1>2, <1>4

(***************************************************************************)
(* One token more: the records, and what the token is to RecordRules.      *)
(***************************************************************************)
LEMMA RecordsUnfold ==
  ASSUME NEW d \in Docs
  PROVE  /\ RecordsUpTo(d, 0) = <<>>
         /\ \A k \in 1 .. Len(d.toks) :
              RecordsUpTo(d, k) = IF EndsRecord(d, k)
                                  THEN Append(RecordsUpTo(d, k - 1), RecordBytes(d, k))
                                  ELSE RecordsUpTo(d, k - 1)
<1> DEFINE n == Len(d.toks)
           found[i \in 0 .. Len(d.toks)] ==
             IF i = 0 THEN <<>>
             ELSE IF EndsRecord(d, i) THEN Append(found[i - 1], RecordBytes(d, i))
             ELSE found[i - 1]
           After(i, r) == IF EndsRecord(d, i) THEN Append(r, RecordBytes(d, i)) ELSE r
           Is(f) == f = [i \in 0 .. n |-> IF i = 0 THEN <<>> ELSE After(i, f[i - 1])]
           Piece == {RecordBytes(d, i) : i \in 1 .. n}
           step == [x \in (1 .. n) \X Seq(Piece) |-> After(x[1], x[2])]
<1>1. n \in Nat
  BY DocumentTypes
<1>2. \A k : RecordsUpTo(d, k) = found[k]
  BY DEF RecordsUpTo
<1>3. found = CHOOSE f : Is(f)
  OBVIOUS
<1> HIDE DEF found
<1>4. \A i \in 1 .. n : RecordBytes(d, i) \in Piece
  OBVIOUS
<1> HIDE DEF Piece
<1>5. \A i \in 1 .. n, r \in Seq(Piece) : After(i, r) \in Seq(Piece)
  <2> SUFFICES ASSUME NEW i \in 1 .. n, NEW r \in Seq(Piece) PROVE After(i, r) \in Seq(Piece)
    OBVIOUS
  <2>1. PICK e \in Piece : e = RecordBytes(d, i)
    BY <1>4
  <2>2. Append(r, e) \in Seq(Piece)
    OBVIOUS
  <2>3. QED
    BY <2>1, <2>2
<1> HIDE DEF After
<1>6. step \in [(1 .. n) \X Seq(Piece) -> Seq(Piece)]
  <2>1. ASSUME NEW x \in (1 .. n) \X Seq(Piece) PROVE After(x[1], x[2]) \in Seq(Piece)
    BY <1>5
  <2>2. QED
    BY <2>1
<1>7. \A i \in 1 .. n, r \in Seq(Piece) : step[<<i, r>>] = After(i, r)
  OBVIOUS
<1> HIDE DEF step
<1>8. PICK F \in [0 .. n -> Seq(Piece)] :
          F[0] = <<>> /\ \A i \in 1 .. n : F[i] = step[<<i, F[i - 1]>>]
  <2>1. <<>> \in Seq(Piece)
    OBVIOUS
  <2>2. Histories(Seq(Piece), n, <<>>, step) # {}
    BY <1>1, <1>6, <2>1, ForwardFunction
  <2>3. QED
    BY <2>2 DEF Histories
<1>9. Is(F)
  <2>1. ASSUME NEW i \in 0 .. n PROVE F[i] = IF i = 0 THEN <<>> ELSE After(i, F[i - 1])
    <3>1. CASE i = 0
      BY <1>8, <3>1
    <3>2. CASE i # 0
      <4>1. i \in 1 .. n /\ i - 1 \in 0 .. n
        BY <1>1, <3>2
      <4>2. F[i - 1] \in Seq(Piece)
        BY <4>1
      <4>3. F[i] = step[<<i, F[i - 1]>>]
        BY <1>8, <4>1
      <4>4. QED
        BY <1>7, <3>2, <4>1, <4>2, <4>3
    <3>3. QED
      BY <3>1, <3>2
  <2>2. QED
    BY <2>1
<1>10. Is(found)
  BY <1>3, <1>9, Zenon
<1>11. \A i \in 0 .. n : found[i] = IF i = 0 THEN <<>> ELSE After(i, found[i - 1])
  BY <1>10
<1>12. found[0] = <<>>
  <2>1. 0 \in 0 .. n
    BY <1>1
  <2>2. QED
    BY <1>11, <2>1
<1>13. \A i \in 1 .. n : found[i] = After(i, found[i - 1])
  <2>1. \A i \in 1 .. n : i \in 0 .. n /\ i # 0
    BY <1>1
  <2>2. QED
    BY <1>11, <2>1
<1>14. QED
  BY <1>2, <1>12, <1>13 DEF After

\* Token k of d, and the elements open in front of it and behind it.
LEMMA OneToken ==
  ASSUME NEW d \in Docs, NEW k \in 1 .. Len(d.toks)
  PROVE  /\ d.toks[k] \in AnyToken
         /\ k \in Nat /\ k - 1 \in 0 .. Len(d.toks) /\ k \in 0 .. Len(d.toks)
         /\ Open(d, k - 1) \in Seq(TagNames) /\ Open(d, k) \in Seq(TagNames)
         /\ Open(d, k) = OpenAfter(d.toks[k], Open(d, k - 1))
         /\ RecordsUpTo(d, k) = IF EndsRecord(d, k)
                                THEN Append(RecordsUpTo(d, k - 1), RecordBytes(d, k))
                                ELSE RecordsUpTo(d, k - 1)
<1>1. Len(d.toks) \in Nat /\ d.toks[k] \in AnyToken
  BY DocumentTypes
<1>2. k \in Nat /\ k - 1 \in 0 .. Len(d.toks) /\ k \in 0 .. Len(d.toks)
  BY <1>1
<1>3. QED
  BY <1>1, <1>2, OpenUnfolds, RecordsUnfold

\* Legal, by the kind of the token.
LEMMA LegalIs ==
  ASSUME NEW d \in Docs, NEW k \in 1 .. Len(d.toks)
  PROVE  /\ d.toks[k].kind \in {"space", "misc", "cdata"} => Legal(d, k)
         /\ d.toks[k].kind = "broken" => ~Legal(d, k)
         /\ d.toks[k].kind = "text" =>
              (Legal(d, k) <=> ~IsPrefix(Open(d, k - 1), Container(d)))
         /\ d.toks[k].kind = "end" =>
              (Legal(d, k) <=> (ClosesRoot(d, k) => d.toks[k].name = RootName))
         /\ d.toks[k].kind \in {"start", "empty"} =>
              (Legal(d, k) <=> (Descends(d, k) => d.toks[k].attrs # "bad"))
<1>1. ClosesRoot(d, k) => d.toks[k].kind = "end"
  BY DEF ClosesRoot
<1>2. Descends(d, k) => d.toks[k].kind \in {"start", "empty"}
  BY DEF Descends
<1> DEFINE kind == d.toks[k].kind
<1>3. CASE kind \in {"space", "misc", "cdata"}
  BY <1>1, <1>2, <1>3 DEF Legal
<1>4. CASE kind = "broken"
  BY <1>1, <1>2, <1>4 DEF Legal
<1>5. CASE kind = "text"
  BY <1>1, <1>2, <1>5 DEF Legal
<1>6. CASE kind = "end"
  <2>1. CASE ClosesRoot(d, k)
    BY <1>2, <1>6, <2>1 DEF Legal
  <2>2. CASE ~ClosesRoot(d, k)
    BY <1>2, <1>6, <2>2 DEF Legal
  <2>3. QED
    BY <2>1, <2>2
<1>7. CASE kind \in {"start", "empty"}
  <2>1. CASE Descends(d, k)
    BY <1>1, <1>7, <2>1 DEF Legal
  <2>2. CASE ~Descends(d, k)
    BY <1>1, <1>7, <2>2 DEF Legal
  <2>3. QED
    BY <2>1, <2>2
<1>8. kind \in {"space", "text", "misc", "cdata", "end", "start", "empty", "broken"}
  BY OneToken DEF AnyToken
<1>9. QED
  BY <1>3, <1>4, <1>5, <1>6, <1>7, <1>8

\* What is no tag opens and closes nothing.
LEMMA NoTagNoChange ==
  ASSUME NEW d \in Docs, NEW k \in 1 .. Len(d.toks),
         d.toks[k].kind \notin {"start", "end", "empty"}
  PROVE  /\ Open(d, k) = Open(d, k - 1)
         /\ ~BeginsRecord(d, k) /\ ~EndsRecord(d, k) /\ ~ClosesRoot(d, k) /\ ~Descends(d, k)
         /\ RecordsUpTo(d, k) = RecordsUpTo(d, k - 1)
<1>1. Open(d, k) = Open(d, k - 1)
  BY OneToken, OpenAfterIs
<1>2. ~BeginsRecord(d, k) /\ ~EndsRecord(d, k) /\ ~ClosesRoot(d, k) /\ ~Descends(d, k)
  BY DEF BeginsRecord, EndsRecord, ClosesRoot, Descends
<1>3. QED
  BY <1>1, <1>2, OneToken

-------------------------------------------------------------------------------
(***************************************************************************)
(* The quote that is open behind each byte of a tag.                       *)
(***************************************************************************)
QuoteAfter(byte, quote) ==
    IF quote # Unquoted THEN IF byte = quote THEN Unquoted ELSE quote
    ELSE IF byte \in Quotes THEN byte ELSE Unquoted

\* Being outside of quotes is no quote.
LEMMA UnquotedIsNone == Unquoted \notin Quotes
BY Zenon DEF Unquoted, Quotes

\* QuoteBehind, byte by byte.
LEMMA QuoteUnfolds ==
  ASSUME NEW S, NEW input \in Seq(S), NEW i \in Nat
  PROVE  /\ \A j \in 0 .. Len(input) : j <= i => QuoteBehind(input, i)[j] = Unquoted
         /\ \A j \in 1 .. Len(input) :
              j > i => QuoteBehind(input, i)[j] = QuoteAfter(input[j], QuoteBehind(input, i)[j - 1])
<1> DEFINE n == Len(input)
           quote[j \in 0 .. Len(input)] ==
             IF j <= i THEN Unquoted
             ELSE IF quote[j - 1] # Unquoted THEN IF input[j] = quote[j - 1] THEN Unquoted ELSE quote[j - 1]
             ELSE IF input[j] \in Quotes THEN input[j] ELSE Unquoted
           Is(f) == f = [j \in 0 .. n |-> IF j <= i THEN Unquoted ELSE QuoteAfter(input[j], f[j - 1])]
           V == Quotes \cup {Unquoted}
           step == [x \in (1 .. n) \X V |-> IF x[1] <= i THEN Unquoted ELSE QuoteAfter(input[x[1]], x[2])]
<1>1. n \in Nat
  OBVIOUS
<1>2. QuoteBehind(input, i) = quote
  BY DEF QuoteBehind
<1>3. quote = CHOOSE f : Is(f)
  BY DEF QuoteAfter
<1> HIDE DEF quote
<1>4. \A b, q : q \in V => QuoteAfter(b, q) \in V
  BY DEF QuoteAfter
<1>5. Unquoted \in V
  OBVIOUS
<1> HIDE DEF V
<1>6. step \in [(1 .. n) \X V -> V]
  <2>1. ASSUME NEW x \in (1 .. n) \X V
        PROVE  (IF x[1] <= i THEN Unquoted ELSE QuoteAfter(input[x[1]], x[2])) \in V
    BY <1>4, <1>5
  <2>2. QED
    BY <2>1
<1>7. \A j \in 1 .. n, q \in V :
         step[<<j, q>>] = IF j <= i THEN Unquoted ELSE QuoteAfter(input[j], q)
  OBVIOUS
<1> HIDE DEF step
<1>8. PICK F \in [0 .. n -> V] : F[0] = Unquoted /\ \A j \in 1 .. n : F[j] = step[<<j, F[j - 1]>>]
  <2>1. Histories(V, n, Unquoted, step) # {}
    BY <1>1, <1>5, <1>6, ForwardFunction
  <2>2. QED
    BY <2>1 DEF Histories
<1>9. Is(F)
  <2>1. ASSUME NEW j \in 0 .. n
        PROVE  F[j] = IF j <= i THEN Unquoted ELSE QuoteAfter(input[j], F[j - 1])
    <3>1. CASE j = 0
      <4>1. j <= i
        BY <3>1
      <4>2. QED
        BY <1>8, <3>1, <4>1
    <3>2. CASE j # 0
      <4>1. j \in 1 .. n /\ j - 1 \in 0 .. n
        BY <1>1, <3>2
      <4>2. F[j - 1] \in V
        BY <4>1
      <4>3. F[j] = step[<<j, F[j - 1]>>]
        BY <1>8, <4>1
      <4>4. QED
        BY <1>7, <4>1, <4>2, <4>3
    <3>3. QED
      BY <3>1, <3>2
  <2>2. QED
    BY <2>1
<1>10. Is(quote)
  BY <1>3, <1>9, Zenon
<1>11. \A j \in 0 .. n : quote[j] = IF j <= i THEN Unquoted ELSE QuoteAfter(input[j], quote[j - 1])
  BY <1>10
<1>12. \A j \in 0 .. n : j <= i => quote[j] = Unquoted
  BY <1>11
<1>13. \A j \in 1 .. n : j > i => quote[j] = QuoteAfter(input[j], quote[j - 1])
  <2>1. \A j \in 1 .. n : j > i => j \in 0 .. n /\ ~(j <= i)
    BY <1>1
  <2>2. QED
    BY <1>11, <2>1
<1>14. QED
  BY <1>2, <1>12, <1>13

\* It stays the same over bytes that neither open nor close one.
LEMMA QuoteStays ==
  ASSUME NEW S, NEW input \in Seq(S), NEW i \in Nat, NEW x \in 0 .. Len(input), i <= x,
         NEW y \in x .. Len(input), NEW q, QuoteBehind(input, i)[x] = q,
         \A m \in x + 1 .. y : QuoteAfter(input[m], q) = q
  PROVE  \A m \in x .. y : QuoteBehind(input, i)[m] = q
<1> DEFINE Same == {m \in x .. y : QuoteBehind(input, i)[m] = q}
<1>1. Len(input) \in Nat /\ x \in Nat /\ y \in Nat
  OBVIOUS
<1>2. x \in Same
  BY <1>1
<1>3. \A m \in x .. y - 1 : m \in Same => m + 1 \in Same
  <2> SUFFICES ASSUME NEW m \in x .. y - 1, m \in Same PROVE m + 1 \in Same
    OBVIOUS
  <2>1. /\ m + 1 \in 1 .. Len(input) /\ m + 1 > i /\ (m + 1) - 1 = m /\ m + 1 \in x .. y
        /\ m + 1 \in x + 1 .. y
    BY <1>1
  <2>2. QuoteBehind(input, i)[m + 1] = QuoteAfter(input[m + 1], QuoteBehind(input, i)[m])
    BY <2>1, QuoteUnfolds
  <2>3. QED
    BY <2>1, <2>2
<1> HIDE DEF Same
<1>4. \A m \in x .. y : m \in Same
  BY <1>1, <1>2, <1>3, Forwards
<1>5. QED
  BY <1>4 DEF Same

-------------------------------------------------------------------------------
(***************************************************************************)
(* The attributes of a tag: scan_attrs reads no further than the tag goes. *)
(***************************************************************************)

IsBehind(input, i, m, quote) == QuoteBehind(input, i)[m] = quote

\* A quote stays open up to the byte that closes it.
LEMMA StaysQuoted ==
  ASSUME NEW input \in Seq(Symbols), NEW i \in Nat, NEW a \in Nat, NEW b \in Nat,
         i <= a, a <= b, b <= Len(input), NEW c \in Quotes, IsBehind(input, i, a, c),
         \A m \in a + 1 .. b : input[m] # c
  PROVE  IsBehind(input, i, b, c)
<1>1. Len(input) \in Nat /\ a \in 0 .. Len(input) /\ b \in a .. Len(input) /\ b \in a .. b
  OBVIOUS
<1>2. \A m \in a + 1 .. b : QuoteAfter(input[m], c) = c
  BY UnquotedIsNone, Zenon DEF QuoteAfter
<1>3. \A m \in a .. b : QuoteBehind(input, i)[m] = c
  <2>1. QuoteBehind(input, i)[a] = c
    BY DEF IsBehind
  <2>2. QED
    BY <1>1, <1>2, <2>1, QuoteStays, SMTT(30)
<1>4. QED
  BY <1>1, <1>3 DEF IsBehind

\* What the search for a single byte has to find.
ByteFound(input, p, c) ==
    \/ /\ PastFirst(input, p, <<c>>) = Nowhere
       /\ \A m \in p .. Len(input) : input[m] # c
    \/ \E z \in p .. Len(input) :
         /\ PastFirst(input, p, <<c>>) = z + 1
         /\ input[z] = c
         /\ \A m \in p .. z - 1 : input[m] # c

\* Past the first byte c at p or later, there is none before it.
LEMMA PastByte ==
  ASSUME NEW S, NEW input \in Seq(S), NEW p \in Nat \ {0}, NEW c \in S
  PROVE  ByteFound(input, p, c)
<1>1. Len(input) \in Nat /\ <<c>> \in Seq(S) /\ <<c>> # <<>> /\ Len(<<c>>) = 1
  OBVIOUS
<1>2. ASSUME NEW m \in 1 .. Len(input) PROVE StartsAt(input, m, <<c>>) <=> input[m] = c
  <2>1. m \in Nat \ {0} /\ m + 1 <= Len(input) + 1 /\ m + 1 - 1 = m /\ 1 .. 1 = {1}
    BY <1>1
  <2>2. PICK pattern \in Seq(S) : pattern = <<c>>
    BY <1>1
  <2>2a. pattern # <<>> /\ pattern \in Seq(S)
    BY <2>2
  <2>3. StartsAt(input, m, pattern) <=>
          /\ m + Len(pattern) <= Len(input) + 1
          /\ \A k \in 1 .. Len(pattern) : input[m + k - 1] = pattern[k]
    BY <2>1, <2>2a, StartsAtIff
  <2>4. Len(pattern) = 1 /\ pattern[1] = c
    BY <2>2
  <2>5. QED
    BY <2>1, <2>2, <2>3, <2>4
<1>3. CASE PastFirst(input, p, <<c>>) = Nowhere
  <2> DEFINE T == {m \in p .. Len(input) : StartsAt(input, m, <<c>>)}
  <2>1. T = {}
    <3>1. SUFFICES ASSUME T # {} PROVE FALSE
      OBVIOUS
    <3>2. PastFirst(input, p, <<c>>) = Min(T) + Len(<<c>>)
      BY <3>1 DEF PastFirst
    <3>3. T \subseteq Nat
      BY <1>1
    <3>4. PICK x \in Nat : x = Min(T)
      BY <3>1, <3>3, MinIsLeast
    <3>5. QED
      BY <1>1, <1>3, <3>2, <3>4 DEF Nowhere
  <2>2. \A m \in p .. Len(input) : input[m] # c
    <3>1. \A m \in p .. Len(input) : m \in 1 .. Len(input)
      BY <1>1
    <3>2. QED
      BY <1>2, <2>1, <3>1
  <2>3. QED
    BY <1>3, <2>2 DEF ByteFound
<1>4. CASE PastFirst(input, p, <<c>>) # Nowhere
  <2>1. PICK past \in p + 1 .. Len(input) + 1 :
          /\ past = PastFirst(input, p, <<c>>)
          /\ StartsAt(input, past - 1, <<c>>)
          /\ \A m \in p .. past - 1 - 1 : ~StartsAt(input, m, <<c>>)
    BY <1>1, <1>4, PastFirstFacts
  <2>2. PICK z \in p .. Len(input) : past = z + 1
    BY <1>1, <2>1
  <2>3. z \in 1 .. Len(input) /\ past - 1 = z /\ \A m \in p .. z - 1 : m \in 1 .. Len(input)
    BY <1>1, <2>2
  <2>4. input[z] = c
    BY <1>2, <2>1, <2>3
  <2>5. \A m \in p .. z - 1 : input[m] # c
    BY <1>2, <2>1, <2>3
  <2>6. QED
    BY <2>1, <2>2, <2>4, <2>5 DEF ByteFound
<1>5. QED
  BY <1>3, <1>4

\* What is no quote.
LEMMA NotQuotes ==
  /\ ">" \notin Quotes /\ "=" \notin Quotes
  /\ \A b : IsWs(b) => b \notin Quotes /\ b # ">"
  /\ \A b : IsNameChar(b) => b \notin Quotes /\ b # ">"
BY Zenon DEF Quotes, IsWs, IsNameChar, IsNameStart, Names, Words, HighBytes

\* The first j bytes of a buffer.
CutAt(cut, input, j) == Len(cut) = j /\ \A m \in 1 .. j : cut[m] = input[m]

\* Outside of quotes in a tag, there is an attribute, and what is behind it is outside
\* of quotes in the tag again, or there is the reason to stop.
LEMMA AttrInTag ==
  ASSUME NEW input \in Seq(Symbols), NEW i \in Nat \ {0}, NEW j \in 1 .. Len(input),
         IsTag(input, i, j), NEW start \in i + 1 .. j, QuoteBehind(input, i)[start - 1] = Unquoted,
         NEW cut \in Seq(Symbols), CutAt(cut, input, j)
  PROVE  /\ ~HasAttr(cut, start) => NoAttr(cut, NeedsMore, start) # NeedsMore
         /\ HasAttr(cut, start) =>
              /\ PastAttr(cut, start) \in start + 1 .. j
              /\ QuoteBehind(input, i)[PastAttr(cut, start) - 1] = Unquoted
<1> DEFINE Q(m) == QuoteBehind(input, i)[m]
<1>1. Len(input) \in Nat /\ j \in Nat /\ j <= Len(input) /\ start \in Nat /\ i < start /\ start <= j
  OBVIOUS
<1>2. /\ cut \in Seq(Symbols) /\ Len(cut) = j
      /\ \A m \in 1 .. j : cut[m] = input[m]
  BY DEF CutAt
<1>3. /\ input[j] = ">" /\ QuoteBehind(input, i)[j - 1] = Unquoted
  BY DEF IsTag
<1>4. cut[j] = ">"
  BY <1>1, <1>2, <1>3
\* Bytes that are no quotes leave it as it is.
<1>5. ASSUME NEW x \in start .. j, NEW y \in x .. j + 1, Q(x - 1) = Unquoted,
             \A m \in x .. y - 1 : cut[m] \notin Quotes
      PROVE  Q(y - 1) = Unquoted
  <2>1. PICK a \in 0 .. Len(input), b \in 0 .. Len(input) : a = x - 1 /\ b = y - 1
    BY <1>1
  <2>2. i <= a /\ a \in 0 .. Len(input) /\ b \in a .. Len(input) /\ b \in a .. b
    BY <1>1, <2>1
  <2>3. ASSUME NEW m \in a + 1 .. b PROVE QuoteAfter(input[m], Unquoted) = Unquoted
    <3>1. m \in x .. y - 1 /\ m \in 1 .. j
      BY <1>1, <2>1
    <3>2. input[m] \notin Quotes
      BY <1>2, <1>5, <3>1
    <3>3. QED
      BY <3>2, Zenon DEF QuoteAfter
  <2>4. QuoteBehind(input, i)[a] = Unquoted
    BY <1>5, <2>1
  <2>5. \A m \in a .. b : QuoteBehind(input, i)[m] = Unquoted
    <3>1. PICK none : none = Unquoted
      OBVIOUS
    <3>2. QuoteBehind(input, i)[a] = none /\ \A m \in a + 1 .. b : QuoteAfter(input[m], none) = none
      BY <2>3, <2>4, <3>1
    <3>3. i \in Nat /\ a \in 0 .. Len(input) /\ i <= a /\ b \in a .. Len(input)
      BY <2>2
    <3>4. \A m \in a .. b : QuoteBehind(input, i)[m] = none
      BY <3>2, <3>3, QuoteStays, SMTT(30)
    <3>5. QED
      BY <3>1, <3>4
  <2>6. QED
    BY <2>1, <2>2, <2>5
<1>6. PICK k \in start .. j :
         /\ k = KeyAt(cut, start) /\ Q(k - 1) = Unquoted
  <2>1. /\ SkipWs(cut, start) \in start .. j + 1
        /\ \A m \in start .. SkipWs(cut, start) - 1 : IsWs(cut[m])
    <3>1. start \in 1 .. Len(cut) + 1
      BY <1>1, <1>2
    <3>2. QED
      BY <1>2, <3>1, SkipWsFacts
  <2>2. PICK k \in start .. j + 1 : k = SkipWs(cut, start)
    BY <2>1
  <2>3. k # j + 1
    <3>1. k = j + 1 => j \in start .. k - 1
      BY <1>1
    <3>2. QED
      BY <1>4, <2>1, <2>2, <3>1, NotQuotes
  <2>4. k \in start .. j
    BY <1>1, <2>2, <2>3
  <2>5. start \in start .. j /\ \A m \in start .. k - 1 : cut[m] \notin Quotes
    BY <1>1, <2>1, <2>2, NotQuotes
  <2>6. Q(k - 1) = Unquoted
    BY <1>5, <2>2, <2>5
  <2>7. QED
    BY <2>2, <2>4, <2>6 DEF KeyAt
<1>7. k \in Nat /\ k >= start /\ k <= j /\ ~(k > Len(cut))
  BY <1>1, <1>2
<1>8. CASE cut[k] = ">" \/ cut[k] = "/"
  <2>1. ~HasAttr(cut, start)
    BY <1>6, <1>8 DEF HasAttr
  <2>2. cut[k] = "/" => k # Len(cut)
    BY <1>2, <1>4
  <2>3. NoAttr(cut, NeedsMore, start) \in {TagEnd(k + 1, FALSE), TagEnd(k + 2, TRUE), Malformed}
    BY <1>6, <1>7, <1>8, <2>2, Zenon DEF NoAttr
  <2>4. \A x, s : TagEnd(x, s) # NeedsMore
    BY DEF TagEnd, NeedsMore
  <2>5. Malformed # NeedsMore
    BY DEF Malformed, NeedsMore
  <2>6. QED
    BY <2>1, <2>3, <2>4, <2>5
<1>9. CASE cut[k] # ">" /\ cut[k] # "/"
  <2>1. PICK n \in k .. j : n = NameEnd(cut, k) /\ Q(n - 1) = Unquoted
    <3>1. /\ NameEnd(cut, k) \in k .. j + 1
          /\ \A m \in k .. NameEnd(cut, k) - 1 : IsNameChar(cut[m])
      <4>1. k \in 1 .. Len(cut) + 1
        BY <1>1, <1>2, <1>7
      <4>2. QED
        BY <1>2, <4>1, NameEndFacts
    <3>2. PICK n \in k .. j + 1 : n = NameEnd(cut, k)
      BY <3>1
    <3>3. n # j + 1
      <4>1. n = j + 1 => j \in k .. n - 1
        BY <1>1, <1>7
      <4>2. QED
        BY <1>4, <3>1, <3>2, <4>1, NotQuotes
    <3>4. n \in k .. j /\ k \in start .. j
      BY <1>1, <3>2, <3>3
    <3>5. \A m \in k .. n - 1 : cut[m] \notin Quotes
      BY <3>1, <3>2, NotQuotes
    <3>6. Q(n - 1) = Unquoted
      BY <1>5, <1>6, <3>2, <3>4, <3>5
    <3>7. QED
      BY <3>2, <3>4, <3>6
  <2>2. n \in Nat /\ n >= k /\ n <= j
    BY <1>1, <1>7
  <2>3. PICK e \in n .. j : e = EqAt(cut, start) /\ Q(e - 1) = Unquoted
    <3>1. /\ SkipWs(cut, n) \in n .. j + 1
          /\ \A m \in n .. SkipWs(cut, n) - 1 : IsWs(cut[m])
      <4>1. n \in 1 .. Len(cut) + 1
        BY <1>1, <1>2, <1>7, <2>2
      <4>2. QED
        BY <1>2, <4>1, SkipWsFacts
    <3>2. PICK e \in n .. j + 1 : e = SkipWs(cut, n)
      BY <3>1
    <3>3. e # j + 1
      <4>1. e = j + 1 => j \in n .. e - 1
        BY <1>1, <2>2
      <4>2. QED
        BY <1>4, <3>1, <3>2, <4>1, NotQuotes
    <3>4. e \in n .. j /\ n \in start .. j
      BY <1>1, <1>7, <2>2, <3>2, <3>3
    <3>5. \A m \in n .. e - 1 : cut[m] \notin Quotes
      BY <3>1, <3>2, NotQuotes
    <3>6. Q(e - 1) = Unquoted
      BY <1>5, <2>1, <3>2, <3>4, <3>5
    <3>7. QED
      BY <1>6, <2>1, <3>2, <3>4, <3>6 DEF EqAt
  <2>4. e \in Nat /\ e >= n /\ e <= j /\ ~(e > Len(cut))
    BY <1>1, <1>2, <2>2
  <2>5. Malformed # NeedsMore
    BY DEF Malformed, NeedsMore
  <2>6. CASE KeyOf(cut, start) = <<>> \/ cut[e] # "="
    <3>1. ~HasAttr(cut, start)
      BY <2>3, <2>6 DEF HasAttr
    <3>2. NoAttr(cut, NeedsMore, start) = Malformed
      BY <1>6, <1>7, <1>9, <2>3, <2>4, <2>6, Zenon DEF NoAttr
    <3>3. QED
      BY <2>5, <3>1, <3>2
  <2>7. CASE KeyOf(cut, start) # <<>> /\ cut[e] = "="
    <3>1. PICK f \in start .. j : f = e + 1
      <4>1. e # j
        BY <1>4, <2>7
      <4>2. QED
        BY <1>1, <1>7, <2>2, <2>4, <4>1
    <3>1a. f \in Nat /\ f > start /\ f <= j /\ f >= e
      BY <1>1, <1>7, <2>2, <2>4, <3>1
    <3>2. Q(f - 1) = Unquoted
      <4>1. e \in start .. j /\ f \in e .. j + 1 /\ \A m \in e .. f - 1 : m = e
        BY <1>1, <1>7, <2>2, <2>4, <3>1
      <4>2. \A m \in e .. f - 1 : cut[m] \notin Quotes
        BY <2>7, <4>1, NotQuotes
      <4>3. QED
        BY <1>5, <2>3, <4>1, <4>2
    <3>3. PICK q \in f .. j : q = QuoteAt(cut, start) /\ Q(q - 1) = Unquoted
      <4>1. /\ SkipWs(cut, f) \in f .. j + 1
            /\ \A m \in f .. SkipWs(cut, f) - 1 : IsWs(cut[m])
        <5>1. f \in 1 .. Len(cut) + 1
          BY <1>1, <1>2, <2>4, <3>1a
        <5>2. QED
          BY <1>2, <5>1, SkipWsFacts
      <4>2. PICK q \in f .. j + 1 : q = SkipWs(cut, f)
        BY <4>1
      <4>3. q # j + 1
        <5>1. q = j + 1 => j \in f .. q - 1
          BY <1>1, <2>4, <3>1a
        <5>2. QED
          BY <1>4, <4>1, <4>2, <5>1, NotQuotes
      <4>4. q \in f .. j
        BY <1>1, <3>1a, <4>2, <4>3
      <4>5. \A m \in f .. q - 1 : cut[m] \notin Quotes
        BY <4>1, <4>2, NotQuotes
      <4>6. Q(q - 1) = Unquoted
        BY <1>5, <3>2, <4>2, <4>5
      <4>7. QED
        BY <2>3, <3>1, <4>2, <4>4, <4>6 DEF QuoteAt
    <3>4. q \in Nat /\ q >= f /\ q <= j /\ ~(q > Len(cut)) /\ q > start
      BY <1>1, <1>2, <1>7, <2>2, <2>4, <3>1a
    <3>5. CASE cut[q] \notin Quotes
      <4>1. ~HasAttr(cut, start)
        BY <3>3, <3>5 DEF HasAttr
      <4>2. NoAttr(cut, NeedsMore, start) = Malformed
        BY <1>6, <1>7, <1>9, <2>3, <2>4, <2>7, <3>3, <3>4, <3>5, Zenon DEF NoAttr
      <4>3. QED
        BY <2>5, <4>1, <4>2
    <3>6. CASE cut[q] \in Quotes
      <4>a. PICK c : c = cut[q]
        OBVIOUS
      <4>1. q # j /\ q < j /\ c \in Symbols /\ c # Unquoted
        BY <1>1, <1>2, <1>4, <3>4, <3>6, <4>a, NotQuotes, UnquotedIsNone, ElementOfSeq
      <4>2. Q(q) = c
        <5>1. q \in 1 .. Len(input) /\ q > i
          BY <1>1, <3>4
        <5>2. Q(q) = QuoteAfter(input[q], QuoteBehind(input, i)[q - 1])
          BY <5>1, QuoteUnfolds
        <5>3. input[q] = c
          BY <1>1, <1>2, <3>4, <4>a
        <5>4. QuoteAfter(c, Unquoted) = c
          BY <3>6, <4>a, Zenon DEF QuoteAfter
        <5>5. QED
          BY <3>3, <5>2, <5>3, <5>4
      \* Up to the byte that closes it, it stays open.
      <4>3. ASSUME NEW y \in q .. j, \A m \in q + 1 .. y : cut[m] # c PROVE Q(y) = c
        <5>1. i \in Nat /\ q \in Nat /\ y \in Nat /\ i <= q /\ q <= y /\ y <= Len(input)
          BY <1>1, <3>4
        <5>2. \A m \in q + 1 .. y : input[m] # c
          <6> SUFFICES ASSUME NEW m \in q + 1 .. y PROVE input[m] # c
            OBVIOUS
          <6>1. m \in 1 .. j
            BY <1>1, <3>4
          <6>2. QED
            BY <1>2, <4>3, <6>1
        <5>3. IsBehind(input, i, q, c) /\ c \in Quotes
          BY <3>6, <4>a, <4>2 DEF IsBehind
        <5>4. IsBehind(input, i, y, c)
          BY <5>1, <5>2, <5>3, StaysQuoted
        <5>5. QED
          BY <5>4 DEF IsBehind
      <4>4. PastAttr(cut, start) = PastFirst(cut, q + 1, <<c>>)
        BY <3>3, <4>a DEF PastAttr
      <4>5. q + 1 \in Nat \ {0}
        BY <3>4
      <4>6. CASE /\ PastFirst(cut, q + 1, <<c>>) = Nowhere
                 /\ \A m \in q + 1 .. Len(cut) : cut[m] # c
        <5>1. j - 1 \in q .. j /\ \A m \in q + 1 .. j - 1 : m \in q + 1 .. Len(cut)
          BY <1>1, <1>2, <3>4, <4>1
        <5>2. Q(j - 1) = c
          BY <4>3, <4>6, <5>1
        <5>3. QED
          BY <1>3, <4>1, <5>2
      <4>7. CASE \E z \in q + 1 .. Len(cut) :
                    /\ PastFirst(cut, q + 1, <<c>>) = z + 1
                    /\ cut[z] = c
                    /\ \A m \in q + 1 .. z - 1 : cut[m] # c
        <5>1. PICK z \in q + 1 .. j :
                    /\ PastFirst(cut, q + 1, <<c>>) = z + 1
                    /\ cut[z] = c
                    /\ \A m \in q + 1 .. z - 1 : cut[m] # c
          BY <1>2, <4>7
        <5>2. z # j
          BY <1>4, <3>6, <4>a, <5>1, NotQuotes
        <5>3. z - 1 \in q .. j /\ z \in 1 .. Len(input) /\ z > i /\ z + 1 \in start + 1 .. j /\ z + 1 - 1 = z
          BY <1>1, <3>4, <5>2
        <5>4. Q(z - 1) = c
          BY <4>3, <5>1, <5>3
        <5>5. Q(z) = QuoteAfter(input[z], QuoteBehind(input, i)[z - 1])
          BY <5>3, QuoteUnfolds
        <5>6. input[z] = c
          BY <1>1, <1>2, <5>1, <5>3
        <5>7. QuoteAfter(c, c) = Unquoted
          BY <4>1, Zenon DEF QuoteAfter
        <5>8. Q(z) = Unquoted
          BY <5>4, <5>5, <5>6, <5>7
        <5>9. z + 1 # Nowhere
          BY <5>3 DEF Nowhere
        <5>10. HasAttr(cut, start)
          <6>1. k <= Len(cut) /\ e <= Len(cut) /\ q <= Len(cut) /\ cut[k] \notin {">", "/"}
            BY <1>2, <1>7, <1>9, <2>4, <3>4
          <6>2. PastAttr(cut, start) # Nowhere
            BY <4>4, <5>1, <5>9
          <6>3. QED
            BY <1>6, <2>3, <2>7, <3>3, <3>6, <6>1, <6>2, Zenon DEF HasAttr
        <5>11. QED
          BY <4>4, <5>1, <5>3, <5>8, <5>10
      <4>8. ByteFound(cut, q + 1, c)
        <5>1. cut \in Seq(Symbols) /\ c \in Symbols /\ q + 1 \in Nat \ {0}
          BY <1>2, <4>1, <4>5
        <5>2. QED
          BY <5>1, PastByte, Zenon
      <4>9. QED
        BY <4>6, <4>7, <4>8 DEF ByteFound
    <3>7. QED
      BY <3>5, <3>6
  <2>8. QED
    BY <2>6, <2>7
<1>10. QED
  BY <1>8, <1>9

\* So scan_attrs, on the tag alone, never finds the end of its buffer in the way.
LEMMA AttrsInTag ==
  ASSUME NEW input \in Seq(Symbols), NEW i \in Nat \ {0}, NEW j \in 1 .. Len(input),
         IsTag(input, i, j), NEW from \in i + 1 .. j, QuoteBehind(input, i)[from - 1] = Unquoted,
         NEW cut \in Seq(Symbols), CutAt(cut, input, j)
  PROVE  ScanAttrs(cut, from, NeedsMore) # NeedsMore
<1> DEFINE F == AttrsFrom(cut, NeedsMore)
           Good(m) == m \in i + 1 .. j /\ QuoteBehind(input, i)[m - 1] = Unquoted => F[m] # NeedsMore
<1>1. /\ \A m \in Nat : F[m] = AttrsBody(cut, NeedsMore, F, m)
      /\ ScanAttrs(cut, from, NeedsMore) = F[from]
  <2>1. from \in Nat
    OBVIOUS
  <2>2. QED
    BY <2>1, ScanAttrsUnfolds
<1> HIDE DEF F
<1>2. Len(cut) = j /\ j \in Nat /\ from \in Nat \ {0}
  BY DEF CutAt
<1>3. /\ NeedsMore # BadEncoding /\ NeedsMore.verdict # "at"
  BY DEF NeedsMore, BadEncoding
<1>4. ASSUME NEW m \in Nat \ {0}, \A x \in m + 1 .. Len(cut) + 1 : Good(x),
             m \in i + 1 .. j, QuoteBehind(input, i)[m - 1] = Unquoted
      PROVE  F[m] # NeedsMore
  <2>0. /\ ~HasAttr(cut, m) => NoAttr(cut, NeedsMore, m) # NeedsMore
        /\ HasAttr(cut, m) => /\ PastAttr(cut, m) \in m + 1 .. j
                              /\ QuoteBehind(input, i)[PastAttr(cut, m) - 1] = Unquoted
    BY <1>4, AttrInTag
  <2>1. CASE HasAttr(cut, m)
    <3> DEFINE name == KeyOf(cut, m)
               value == ValueOf(cut, m)
    <3>1. PICK next \in m + 1 .. j :
             next = PastAttr(cut, m) /\ QuoteBehind(input, i)[next - 1] = Unquoted
      BY <2>0, <2>1
    <3>2. next \in m + 1 .. Len(cut) + 1 /\ next \in i + 1 .. j
      BY <1>2, <1>4
    <3>3. F[next] # NeedsMore
      BY <1>4, <3>1, <3>2
    <3>4. F[m] = WithAttr(name, value, F[next])
      BY <1>1, <2>1, <3>1 DEF AttrsBody
    <3>5. \A x : F[next].verdict = "at" => [F[next] EXCEPT !.ns = x] # NeedsMore
      <4> SUFFICES ASSUME NEW x, F[next].verdict = "at", [F[next] EXCEPT !.ns = x] = NeedsMore
                   PROVE  FALSE
        OBVIOUS
      <4>1. DOMAIN [F[next] EXCEPT !.ns = x] = {"verdict"} /\ [F[next] EXCEPT !.ns = x].verdict = "more"
        BY DEF NeedsMore
      <4>2. "verdict" \in DOMAIN F[next]
        BY <4>1
      <4>3. [F[next] EXCEPT !.ns = x].verdict = F[next].verdict
        BY <4>2
      <4>4. QED
        BY <4>1, <4>3
    <3>6. \/ F[m] = F[next]
          \/ F[m] = BadEncoding
          \/ /\ F[next].verdict = "at"
             /\ F[m] = [F[next] EXCEPT !.ns = DeclaredBefore(@, PrefixOf[name[1]], value)]
      BY <3>4, Zenon DEF WithAttr
    <3>7. QED
      BY <1>3, <3>3, <3>5, <3>6
  <2>2. CASE ~HasAttr(cut, m)
    BY <1>1, <2>0, <2>2 DEF AttrsBody
  <2>3. QED
    BY <2>1, <2>2
<1>5. Good(from)
  <2> DEFINE T == {m \in Nat \ {0} : Good(m)}
  <2>1. \A m \in Nat \ {0} : (\A x \in m + 1 .. Len(cut) + 1 : x \in T) => m \in T
    <3> SUFFICES ASSUME NEW m \in Nat \ {0}, \A x \in m + 1 .. Len(cut) + 1 : x \in T
                 PROVE  Good(m)
      OBVIOUS
    <3>1. \A x \in m + 1 .. Len(cut) + 1 : Good(x)
      OBVIOUS
    <3> HIDE DEF T
    <3>2. QED
      BY <1>4, <3>1
  <2> HIDE DEF T
  <2>2. from \in T
    <3>1. PICK L \in Nat : L = Len(cut)
      BY <1>2
    <3>2. \A m \in Nat \ {0} : (\A x \in m + 1 .. L + 1 : x \in T) => m \in T
      BY <2>1, <3>1
    <3>3. QED
      BY <1>2, <3>2, Backwards
  <2>3. QED
    BY <2>2 DEF T
<1>6. QED
  BY <1>1, <1>5

\* The attributes of a tag are the same, whatever follows it.
LEMMA AttrsOfTag ==
  ASSUME NEW input \in Seq(Symbols), NEW i \in Nat \ {0}, NEW j \in 1 .. Len(input),
         IsTag(input, i, j)
  PROVE  ScanAttrs(SubSeq(input, 1, j), NameEnd(input, i + 1), Malformed)
           = ScanAttrs(input, NameEnd(input, i + 1), Malformed)
<1>1. Len(input) \in Nat /\ j \in Nat /\ j <= Len(input) /\ i < j /\ input[j] = ">"
  BY DEF IsTag
<1>2. PICK cut \in Seq(Symbols) : cut = SubSeq(input, 1, j) /\ CutAt(cut, input, j)
  <2>1. /\ SubSeq(input, 1, j) \in Seq(Symbols) /\ Len(SubSeq(input, 1, j)) = j
        /\ \A m \in 1 .. j : SubSeq(input, 1, j)[m] = input[m]
    BY <1>1, SubSeqProperties
  <2>2. QED
    BY <2>1 DEF CutAt
<1>3. PICK from \in i + 1 .. j :
         from = NameEnd(input, i + 1) /\ QuoteBehind(input, i)[from - 1] = Unquoted
  <2>1. i + 1 \in 1 .. Len(input) + 1
    BY <1>1
  <2>2. /\ NameEnd(input, i + 1) \in i + 1 .. Len(input) + 1
        /\ \A m \in i + 1 .. NameEnd(input, i + 1) - 1 : IsNameChar(input[m])
    BY <2>1, NameEndFacts
  <2>3. PICK x \in i + 1 .. Len(input) + 1 : x = NameEnd(input, i + 1)
    BY <2>2
  <2>4. ~(x > j)
    <3>1. x > j => j \in i + 1 .. x - 1
      BY <1>1
    <3>2. QED
      BY <1>1, <2>2, <2>3, <3>1, NotQuotes
  <2>5. x \in i + 1 .. j
    BY <1>1, <2>4
  <2>6. QuoteBehind(input, i)[x - 1] = Unquoted
    <3>1. PICK b \in 0 .. Len(input) : b = x - 1
      BY <1>1, <2>5
    <3>2. i \in Nat /\ i \in 0 .. Len(input) /\ i <= i /\ b \in i .. Len(input) /\ b \in i .. b
      BY <1>1, <2>5, <3>1
    <3>3. ASSUME NEW m \in i + 1 .. b PROVE QuoteAfter(input[m], Unquoted) = Unquoted
      <4>1. m \in i + 1 .. x - 1
        BY <3>1
      <4>2. input[m] \notin Quotes
        BY <2>2, <2>3, <4>1, NotQuotes
      <4>3. QED
        BY <4>2, Zenon DEF QuoteAfter
    <3>4. QuoteBehind(input, i)[i] = Unquoted
      BY <3>2, QuoteUnfolds
    <3>5. \A m \in i .. b : QuoteBehind(input, i)[m] = Unquoted
      BY <3>2, <3>3, <3>4, QuoteStays
    <3>6. QED
      BY <3>1, <3>2, <3>5
  <2>7. QED
    BY <2>3, <2>5, <2>6
<1>4. from \in Nat \ {0}
  BY <1>1
<1>5. ScanAttrs(cut, from, NeedsMore) # NeedsMore
  BY <1>2, <1>3, AttrsInTag
<1>6. Grown(cut, input) /\ Grown(cut, cut)
  BY <1>1, <1>2 DEF Grown, CutAt
<1>7. ScanAttrs(input, from, Malformed) = ScanAttrs(cut, from, NeedsMore)
  BY <1>4, <1>5, <1>6, ScanAttrsGrown, Zenon
<1>8. ScanAttrs(cut, from, Malformed) = ScanAttrs(cut, from, NeedsMore)
  BY <1>4, <1>5, <1>6, ScanAttrsGrown, Zenon
<1>9. QED
  BY <1>2, <1>3, <1>7, <1>8

-------------------------------------------------------------------------------
(***************************************************************************)
(* The document and the prolog.                                            *)
(***************************************************************************)
LEMMA DocFacts ==
  ASSUME doc \in Docs
  PROVE  /\ buf \in Seq(Symbols) /\ Len(buf) \in Nat
         /\ Len(Prolog) \in Nat /\ Len(Prolog) <= Len(buf)
         /\ Target \in Nat \ {0}
<1>1. /\ Prolog \in Seq(Symbols) /\ TokenBytes(doc.toks) \in Seq(Symbols)
      /\ buf = Prolog \o TokenBytes(doc.toks) /\ doc.path \in Seq(Names)
  BY InputAssumption DEF buf, Input
<1>2. buf \in Seq(Symbols) /\ Len(buf) = Len(Prolog) + Len(TokenBytes(doc.toks))
  BY <1>1, ConcatProperties
<1>3. /\ Len(Prolog) \in Nat /\ Len(TokenBytes(doc.toks)) \in Nat
      /\ Len(buf) \in Nat /\ Len(doc.path) \in Nat
  BY <1>1, <1>2, LenProperties
<1>4. Target \in Nat \ {0}
  BY <1>3 DEF Target, TargetOf
<1>5. QED
  BY <1>2, <1>3, <1>4

(***************************************************************************)
(* memchr and its relatives: the first of the wanted bytes.                *)
(***************************************************************************)
LEMMA Next1Facts ==
  ASSUME doc \in Docs, NEW p \in Nat, NEW B
  PROVE  \/ Next1(p, B) = NoPos
         \/ /\ Next1(p, B) \in p .. Len(buf) - 1
            /\ buf[Next1(p, B) + 1] \in B
            /\ \A i \in p .. Next1(p, B) - 1 : buf[i + 1] \notin B
<1> DEFINE at == {i \in p .. Len(buf) - 1 : buf[i + 1] \in B}
<1>1. Len(buf) \in Nat
  BY DocFacts
<1>2. CASE at = {}
  BY <1>2 DEF Next1
<1>3. CASE at # {}
  <2>1. at \subseteq Nat
    BY <1>1
  <2>2. Min(at) \in at /\ \A y \in at : Min(at) <= y
    BY <1>3, <2>1, MinIsLeast
  <2>3. PICK m \in at : m = Min(at) /\ \A y \in at : m <= y
    BY <2>2
  <2>4. ASSUME NEW i \in p .. m - 1 PROVE buf[i + 1] \notin B
    BY <1>1, <2>3, <2>4
  <2>5. Next1(p, B) = m
    BY <1>3, <2>3 DEF Next1
  <2>6. QED
    BY <2>3, <2>4, <2>5
<1>4. QED
  BY <1>2, <1>3

(***************************************************************************)
(* memmem: just past the first occurrence, inside the buffer.              *)
(***************************************************************************)
LEMMA PastFacts ==
  ASSUME doc \in Docs, NEW p \in Nat, NEW pattern \in Seq(Symbols)
  PROVE  Past(p, pattern) = NoPos \/ Past(p, pattern) \in p + Len(pattern) .. Len(buf)
<1> DEFINE at == {i \in p .. Len(buf) - Len(pattern) : StartsWith(i, pattern)}
<1>1. Len(buf) \in Nat /\ Len(pattern) \in Nat
  BY DocFacts, LenProperties
<1>2. CASE at = {}
  BY <1>2 DEF Past
<1>3. CASE at # {}
  <2>1. at \subseteq Nat
    BY <1>1
  <2>2. Min(at) \in at
    BY <1>3, <2>1, MinIsLeast
  <2>3. PICK m \in p .. Len(buf) - Len(pattern) : m = Min(at)
    BY <2>2
  <2>4. Past(p, pattern) = m + Len(pattern)
    BY <1>3, <2>3 DEF Past
  <2>5. QED
    BY <1>1, <2>3, <2>4
<1>4. QED
  BY <1>2, <1>3

(***************************************************************************)
(* ScanStartTag is a recursive function, from one quoted value to the one  *)
(* behind it.  Its body, with g for the rest of the recursion:             *)
(***************************************************************************)
TagEnds == [end : Nat \cup {NoPos}, slash : BOOLEAN]

TagEndBody(g, i) ==
    LET hit == Next1(i, {">"} \cup Quotes)
        close == Next1(hit + 1, {buf[hit + 1]})
    IN IF hit = NoPos THEN NoTagEnd
       ELSE IF buf[hit + 1] = ">"
       THEN [end |-> hit + 1, slash |-> hit > i /\ buf[hit] = "/"]
       ELSE IF close = NoPos THEN NoTagEnd ELSE g[close + 1]

\* There is nothing to be found from the end of the buffer on, a tag ends behind its
\* `>`, and the recursion goes on behind a quoted value.
LEMMA TagEndBodyFacts ==
  ASSUME doc \in Docs, NEW i \in Nat
  PROVE  \/ \A g : TagEndBody(g, i) = NoTagEnd
         \/ i < Len(buf) /\ \E hit \in i .. Len(buf) - 1, s \in BOOLEAN :
                /\ buf[hit + 1] = ">"
                /\ \A g : TagEndBody(g, i) = [end |-> hit + 1, slash |-> s]
         \/ i < Len(buf) /\ \E next \in i + 1 .. Len(buf) :
                \A g : TagEndBody(g, i) = g[next]
<1> DEFINE hit == Next1(i, {">"} \cup Quotes)
           close == Next1(hit + 1, {buf[hit + 1]})
<1>1. Len(buf) \in Nat
  BY DocFacts
<1>2. hit = NoPos \/ hit \in i .. Len(buf) - 1
  BY Next1Facts
<1>3. hit = NoPos \/ close = NoPos \/ close \in hit + 1 .. Len(buf) - 1
  <2>1. hit = NoPos \/ hit + 1 \in Nat
    BY <1>1, <1>2
  <2>2. QED
    BY <2>1, Next1Facts
<1>4. \A g : TagEndBody(g, i) =
        IF hit = NoPos THEN NoTagEnd
        ELSE IF buf[hit + 1] = ">"
        THEN [end |-> hit + 1, slash |-> hit > i /\ buf[hit] = "/"]
        ELSE IF close = NoPos THEN NoTagEnd ELSE g[close + 1]
  BY DEF TagEndBody
<1> HIDE DEF hit, close
<1>5. CASE hit = NoPos
  BY <1>4, <1>5
<1>6. CASE hit # NoPos /\ buf[hit + 1] = ">"
  <2>1. \A g : TagEndBody(g, i) = [end |-> hit + 1, slash |-> hit > i /\ buf[hit] = "/"]
    BY <1>4, <1>6
  <2>2. (hit > i /\ buf[hit] = "/") \in BOOLEAN
    OBVIOUS
  <2>3. hit \in i .. Len(buf) - 1 /\ i < Len(buf)
    BY <1>1, <1>2, <1>6
  <2>4. QED
    BY <1>6, <2>1, <2>2, <2>3
<1>7. CASE hit # NoPos /\ buf[hit + 1] # ">" /\ close # NoPos
  <2>1. close + 1 \in i + 1 .. Len(buf) /\ i < Len(buf)
    BY <1>1, <1>2, <1>3, <1>7
  <2>2. \A g : TagEndBody(g, i) = g[close + 1]
    BY <1>4, <1>7
  <2>3. QED
    BY <2>1, <2>2
<1>8. CASE hit # NoPos /\ buf[hit + 1] # ">" /\ close = NoPos
  BY <1>4, <1>8
<1>9. QED
  BY <1>5, <1>6, <1>7, <1>8

\* There is such a function: one that is right from n bytes before the end on is
\* extended to n + 1.
LEMMA TagEndFunction ==
  ASSUME doc \in Docs
  PROVE  \E f : f = [i \in Nat |-> TagEndBody(f, i)]
<1> DEFINE Right(g, n) == \A i \in Nat : i + n >= Len(buf) => g[i] = TagEndBody(g, i)
           Reached == {n \in Nat : \E g \in [Nat -> TagEnds] : Right(g, n)}
<1>1. Len(buf) \in Nat /\ NoTagEnd \in TagEnds
  BY DocFacts DEF NoTagEnd, TagEnds
<1>2. 0 \in Reached
  <2> DEFINE g == [i \in Nat |-> NoTagEnd]
  <2>1. g \in [Nat -> TagEnds]
    BY <1>1
  <2>2. ASSUME NEW i \in Nat, i + 0 >= Len(buf) PROVE g[i] = TagEndBody(g, i)
    <3>1. ~(i < Len(buf))
      BY <1>1, <2>2
    <3>2. TagEndBody(g, i) = NoTagEnd
      BY <3>1, TagEndBodyFacts, Zenon
    <3>3. QED
      BY <3>2
  <2>3. QED
    BY <2>1, <2>2
<1>3. ASSUME NEW n \in Reached PROVE n + 1 \in Reached
  <2>1. PICK g \in [Nat -> TagEnds] : Right(g, n)
    BY <1>3
  <2>2. n \in Nat /\ n + 1 \in Nat
    BY <1>3
  <2>3. CASE n >= Len(buf)
    <3>1. \A i \in Nat : i + n >= Len(buf)
      BY <1>1, <2>2, <2>3
    <3>2. Right(g, n + 1)
      BY <2>1, <3>1
    <3>3. QED
      BY <2>1, <2>2, <3>2
  <2>4. CASE n < Len(buf)
    <3>1. PICK m \in Nat : m = Len(buf) - n - 1
      BY <1>1, <2>2, <2>4
    <3> DEFINE e == TagEndBody(g, m)
               h == [g EXCEPT ![m] = e]
    <3>2. e \in TagEnds
      <4>1. CASE e = NoTagEnd
        BY <1>1, <4>1
      <4>2. CASE \E hit \in m .. Len(buf) - 1, s \in BOOLEAN : e = [end |-> hit + 1, slash |-> s]
        BY <1>1, <4>2 DEF TagEnds
      <4>3. CASE \E next \in m + 1 .. Len(buf) : e = g[next]
        <5>1. PICK next \in m + 1 .. Len(buf) : e = g[next]
          BY <4>3
        <5>2. next \in Nat
          BY <1>1, <5>1
        <5>3. QED
          BY <2>1, <5>1, <5>2
      <4>4. QED
        BY <4>1, <4>2, <4>3, TagEndBodyFacts, Zenon
    <3>3. h \in [Nat -> TagEnds] /\ h[m] = e /\ \A i \in Nat \ {m} : h[i] = g[i]
      BY <2>1, <3>2
    <3> HIDE DEF e, h
    <3>4. ASSUME NEW i \in Nat, i + (n + 1) >= Len(buf) PROVE h[i] = TagEndBody(h, i)
      <4>1. i >= m
        BY <1>1, <2>2, <3>1, <3>4
      <4>2. TagEndBody(h, i) = TagEndBody(g, i)
        <5>1. CASE \E next \in i + 1 .. Len(buf) : \A x : TagEndBody(x, i) = x[next]
          <6>1. PICK next \in i + 1 .. Len(buf) : \A x : TagEndBody(x, i) = x[next]
            BY <5>1
          <6>2. h[next] = g[next]
            BY <1>1, <3>3, <4>1, <6>1
          <6>3. QED
            BY <6>1, <6>2
        <5>2. CASE \E e1 \in TagEnds \cup {NoTagEnd} : \A x : TagEndBody(x, i) = e1
          BY <5>2
        <5>3. QED
          BY <1>1, <5>1, <5>2, TagEndBodyFacts DEF TagEnds
      <4>3. CASE i = m
        BY <3>3, <4>2, <4>3 DEF e
      <4>4. CASE i # m
        <5>1. i + n >= Len(buf)
          BY <1>1, <2>2, <3>1, <4>1, <4>4
        <5>2. g[i] = TagEndBody(g, i) /\ h[i] = g[i]
          BY <2>1, <3>3, <4>4, <5>1
        <5>3. QED
          BY <4>2, <5>2
      <4>5. QED
        BY <4>3, <4>4
    <3>5. QED
      BY <2>2, <3>3, <3>4
  <2>5. QED
    BY <1>1, <2>2, <2>3, <2>4
<1> HIDE DEF Reached
<1>4. Len(buf) \in Reached
  <2> DEFINE Missed == Nat \ Reached
  <2>1. SUFFICES ASSUME Missed # {} PROVE FALSE
    BY <1>1
  <2>2. PICK n \in Missed : \A y \in Missed : n <= y
    BY <2>1, LeastNatural, Zenon
  <2>3. n \in Nat /\ n # 0
    BY <1>2, <2>2
  <2>4. PICK m \in Nat : n = m + 1
    BY <2>3
  <2>5. m \in Reached
    BY <2>2, <2>4
  <2>6. QED
    BY <1>3, <2>2, <2>4, <2>5
<1>5. PICK g \in [Nat -> TagEnds] : Right(g, Len(buf))
  BY <1>4 DEF Reached
<1>6. \A i \in Nat : g[i] = TagEndBody(g, i)
  BY <1>1, <1>5
<1>7. g = [i \in Nat |-> TagEndBody(g, i)]
  BY <1>5, <1>6
<1>8. QED
  BY <1>7, Zenon

(***************************************************************************)
(* scan_start_tag: a tag ends behind a `>`, past the start of its body.    *)
(***************************************************************************)
LEMMA ScanStartTagFacts ==
  ASSUME doc \in Docs, NEW p \in Nat
  PROVE  \/ ScanStartTag(p) = NoTagEnd
         \/ \E n \in p + 1 .. Len(buf), s \in BOOLEAN :
                buf[n] = ">" /\ ScanStartTag(p) = [end |-> n, slash |-> s]
<1> DEFINE scan[i \in Nat] ==
             LET hit == Next1(i, {">"} \cup Quotes)
                 close == Next1(hit + 1, {buf[hit + 1]})
             IN IF hit = NoPos THEN NoTagEnd
                ELSE IF buf[hit + 1] = ">"
                THEN [end |-> hit + 1, slash |-> hit > i /\ buf[hit] = "/"]
                ELSE IF close = NoPos THEN NoTagEnd ELSE scan[close + 1]
           F == CHOOSE f : f = [i \in Nat |-> TagEndBody(f, i)]
           Good(i) == \/ F[i] = NoTagEnd
                      \/ \E n \in i + 1 .. Len(buf), s \in BOOLEAN :
                            buf[n] = ">" /\ F[i] = [end |-> n, slash |-> s]
<1>1. ScanStartTag(p) = scan[p]
  BY DEF ScanStartTag
<1>2. scan = F
  BY DEF TagEndBody
<1>3. F = [i \in Nat |-> TagEndBody(F, i)]
  BY TagEndFunction, Zenon
<1> HIDE DEF scan, F
<1>4. \A i \in Nat : F[i] = TagEndBody(F, i)
  BY <1>3
<1>5. Len(buf) \in Nat
  BY DocFacts
<1>6. ASSUME NEW i \in Nat, \A j \in i + 1 .. Len(buf) : Good(j) PROVE Good(i)
  <2>1. CASE \A g : TagEndBody(g, i) = NoTagEnd
    BY <1>4, <2>1
  <2>2. CASE \E hit \in i .. Len(buf) - 1, s \in BOOLEAN :
                /\ buf[hit + 1] = ">"
                /\ \A g : TagEndBody(g, i) = [end |-> hit + 1, slash |-> s]
    <3>1. PICK hit \in i .. Len(buf) - 1, s \in BOOLEAN :
                buf[hit + 1] = ">" /\ F[i] = [end |-> hit + 1, slash |-> s]
      BY <1>4, <2>2
    <3>2. hit + 1 \in i + 1 .. Len(buf)
      BY <1>5, <3>1
    <3>3. QED
      BY <3>1, <3>2
  <2>3. CASE \E next \in i + 1 .. Len(buf) : \A g : TagEndBody(g, i) = g[next]
    <3>1. PICK next \in i + 1 .. Len(buf) : F[i] = F[next]
      BY <1>4, <2>3
    <3>2. Good(next)
      BY <1>6, <3>1
    <3>3. CASE F[next] = NoTagEnd
      BY <3>1, <3>3
    <3>4. CASE \E n \in next + 1 .. Len(buf), s \in BOOLEAN :
                  buf[n] = ">" /\ F[next] = [end |-> n, slash |-> s]
      <4>1. PICK n \in next + 1 .. Len(buf), s \in BOOLEAN :
                  buf[n] = ">" /\ F[next] = [end |-> n, slash |-> s]
        BY <3>4
      <4>2. n \in i + 1 .. Len(buf)
        BY <1>5, <3>1, <4>1
      <4>3. QED
        BY <3>1, <4>1, <4>2
    <3>5. QED
      BY <3>2, <3>3, <3>4
  <2>4. QED
    BY <2>1, <2>2, <2>3, TagEndBodyFacts
<1> HIDE DEF Good
<1>7. ASSUME NEW i \in Nat, ~Good(i) PROVE FALSE
  <2> DEFINE Bad == {n \in Nat : \E j \in Nat : ~Good(j) /\ n + j = i + Len(buf)}
  <2>1. Len(buf) \in Bad
    BY <1>5, <1>7
  <2>2. PICK n \in Bad : \A y \in Bad : n <= y
    BY <2>1, LeastNatural, Zenon
  <2>3. PICK j \in Nat : ~Good(j) /\ n + j = i + Len(buf)
    BY <2>2
  <2>4. PICK k \in j + 1 .. Len(buf) : ~Good(k)
    BY <1>6, <2>3
  <2>5. i + Len(buf) - k \in Bad /\ i + Len(buf) - k < n
    BY <1>5, <1>7, <2>2, <2>3, <2>4
  <2>6. PICK z \in Bad : z < n /\ z \in Nat /\ n \in Nat
    BY <2>2, <2>5
  <2>7. n <= z
    BY <2>2, <2>6
  <2>8. QED
    BY <2>6, <2>7
<1>8. Good(p)
  BY <1>7
<1>9. QED
  BY <1>1, <1>2, <1>8 DEF Good

-------------------------------------------------------------------------------
(***************************************************************************)
(* What an iteration finds, moves forward to or puts into the index.       *)
(***************************************************************************)
LEMMA SameDocument == doc' = doc => buf' = buf /\ Target' = Target
BY DEF buf, Input, Target, TargetOf

\* What is in the index, of ScannerInv.
RecordsInv ==
    /\ records \in Seq([start : 0 .. Len(buf), end : 0 .. Len(buf)])
    /\ \A i \in DOMAIN records :
        /\ records[i].start \in 0 .. Len(buf)
        /\ records[i].end \in records[i].start .. Len(buf)
    /\ RangesInOrder

\* The types of the invariant, in the form the steps use.
LEMMA StateFacts ==
  ASSUME ScannerInv
  PROVE  /\ doc \in Docs /\ buf \in Seq(Symbols) /\ Len(buf) \in Nat
         /\ Target \in Nat \ {0}
         /\ pos \in Nat /\ pos <= Len(buf) /\ depth \in Nat /\ skipDepth \in Nat
         /\ recordStart \in 0 .. Len(buf) \cup {NoPos} /\ nsFrom \in 0 .. Len(buf) \cup {NoPos}
         /\ phase \in {"content", "subtree", "trailing"}
         /\ RecordsInv
<1>1. doc \in Docs /\ TypeOK /\ records \in Seq([start : 0 .. Len(buf), end : 0 .. Len(buf)])
      /\ RangesInOrder
  BY DEF ScannerInv
<1>2. buf \in Seq(Symbols) /\ Len(buf) \in Nat /\ Target \in Nat \ {0}
  BY <1>1, DocFacts
<1>3. RecordsInv
  BY <1>1 DEF RecordsInv, TypeOK
<1>4. QED
  BY <1>1, <1>2, <1>3 DEF TypeOK

\* scan_content and skip_subtree stop at a `<`.
LEMMA LtFacts ==
  ASSUME ScannerInv, AtLt
  PROVE  Lt \in pos .. Len(buf) - 1 /\ buf[Lt + 1] = "<"
<1>1. Lt # NoPos
  BY DEF AtLt
<1>2. pos \in Nat /\ doc \in Docs
  BY StateFacts
<1>3. Lt \in pos .. Len(buf) - 1 /\ buf[Lt + 1] \in {"<"}
  BY <1>1, <1>2, Next1Facts DEF Lt
<1>4. QED
  BY <1>3

\* The tag at the `<` ends behind it, with a `>`.
LEMMA TagFacts ==
  ASSUME ScannerInv, AtLt, TagHere.end # NoPos
  PROVE  /\ Lt \in Nat /\ pos <= Lt /\ Lt < Len(buf) /\ buf[Lt + 1] = "<"
         /\ TagHere.end \in Nat /\ Lt + 2 <= TagHere.end /\ TagHere.end <= Len(buf)
         /\ buf[TagHere.end] = ">"
         /\ TagHere.slash \in BOOLEAN
<1>1. Lt \in pos .. Len(buf) - 1 /\ buf[Lt + 1] = "<"
  BY LtFacts
<1>2. doc \in Docs /\ Len(buf) \in Nat /\ pos \in Nat
  BY StateFacts
<1>3. Lt \in Nat /\ pos <= Lt /\ Lt < Len(buf)
  BY <1>1, <1>2
<1>4. PICK p \in {Lt + 1, Lt + 2} : TagHere = ScanStartTag(p)
  BY DEF TagHere
<1>5. p \in Nat /\ Lt + 1 <= p
  BY <1>3, <1>4
<1>6. ScanStartTag(p) # NoTagEnd
  BY <1>4 DEF NoTagEnd
<1>7. PICK n \in p + 1 .. Len(buf), s \in BOOLEAN :
          buf[n] = ">" /\ TagHere = [end |-> n, slash |-> s]
  BY <1>2, <1>4, <1>5, <1>6, ScanStartTagFacts
<1>8. TagHere.end = n /\ TagHere.slash = s
  BY <1>7
<1>9. n \in Nat /\ Lt + 2 <= n /\ n <= Len(buf)
  BY <1>2, <1>3, <1>5, <1>7
<1>10. QED
  BY <1>1, <1>3, <1>7, <1>8, <1>9

\* A span ends behind what opens it.
LEMMA SpanFacts ==
  ASSUME ScannerInv, NEW p \in Nat, NEW s \in Spans, SpanEnd(p, s) # NoPos
  PROVE  SpanEnd(p, s) \in Nat /\ p < SpanEnd(p, s) /\ SpanEnd(p, s) <= Len(buf)
<1>1. doc \in Docs /\ Len(buf) \in Nat
  BY StateFacts
<1>2. /\ s.open \in {<<"<", "!", "-", "-">>, <<"<", "!", "[", "CDATA[">>, <<"<", "?">>}
      /\ s.close \in {<<"-", "-", ">">>, <<"]", "]", ">">>, <<"?", ">">>}
  BY DEF Spans
<1>3. {"-", "]", "?", ">"} \subseteq Symbols
  BY DEF Symbols
<1>4. Len(s.open) \in {2, 4}
  BY <1>2
<1>5. s.close \in Seq(Symbols) /\ Len(s.close) \in {2, 3}
  <2>1. <<"-", "-", ">">> \in Seq(Symbols) /\ <<"]", "]", ">">> \in Seq(Symbols)
        /\ <<"?", ">">> \in Seq(Symbols)
    BY <1>3
  <2>2. QED
    BY <1>2, <2>1
<1>6. PICK m \in {2, 4}, n \in {2, 3} : m = Len(s.open) /\ n = Len(s.close)
  BY <1>4, <1>5
<1>7. m \in Nat /\ n \in Nat /\ m > 0 /\ n > 0
  <2>1. \A x \in {2, 3, 4} : x \in Nat /\ x > 0
    OBVIOUS
  <2>2. QED
    BY <2>1
<1>8. p + m \in Nat /\ p < p + m + n
  BY <1>7
<1>9. SpanEnd(p, s) \in p + m + n .. Len(buf)
  BY <1>1, <1>5, <1>6, <1>8, PastFacts DEF SpanEnd
<1>10. QED
  BY <1>1, <1>7, <1>8, <1>9

\* The index stays as it is when the scan moves on.
LEMMA SameRecords ==
  ASSUME ScannerInv, doc' = doc, records' = records, pos' \in pos .. Len(buf)
  PROVE  RecordsInv'
<1>1. RecordsInv /\ pos \in Nat /\ Len(buf) \in Nat
  BY StateFacts
<1>2. buf' = buf
  BY SameDocument
<1>3. pos' \in Int /\ pos <= pos'
  BY <1>1
<1>4. \A i \in 1 .. Len(records) : records[i].end \in Nat /\ records[i].end <= pos
  <2>1. DOMAIN records = 1 .. Len(records)
    BY <1>1 DEF RecordsInv
  <2>2. \A i \in 1 .. Len(records) : records[i] \in [start : 0 .. Len(buf), end : 0 .. Len(buf)]
    BY <1>1, ElementOfSeq DEF RecordsInv
  <2>3. QED
    BY <1>1, <2>2 DEF RecordsInv, RangesInOrder
<1>5. \A i \in 1 .. Len(records) : records[i].end <= pos'
  BY <1>1, <1>3, <1>4
<1>6. RangesInOrder'
  BY <1>1, <1>2, <1>5 DEF RecordsInv, RangesInOrder
<1>7. QED
  BY <1>1, <1>2, <1>6 DEF RecordsInv

\* A range that begins at a `<` behind all those found, and ends at a `>`, where the
\* scan goes on, joins the index.
LEMMA OneMoreRecord ==
  ASSUME ScannerInv, doc' = doc,
         NEW s \in Nat, NEW e \in Nat, s < e, e <= Len(buf), pos' = e,
         buf[s + 1] = "<", buf[e] = ">", pos <= e,
         \A i \in 1 .. Len(records) : records[i].end <= s,
         records' = Append(records, [start |-> s, end |-> e])
  PROVE  RecordsInv'
<1> DEFINE Position == [start : 0 .. Len(buf), end : 0 .. Len(buf)]
           r == [start |-> s, end |-> e]
           n == Len(records)
<1>1. RecordsInv /\ pos \in Nat /\ Len(buf) \in Nat
  BY StateFacts
<1>2. buf' = buf
  BY SameDocument
<1>3. r \in Position
  BY <1>1
<1>4. records \in Seq(Position) /\ n \in Nat
  BY <1>1, LenProperties DEF RecordsInv
<1>5. /\ records' \in Seq(Position) /\ Len(records') = n + 1
      /\ \A i \in 1 .. n : records'[i] = records[i]
      /\ records'[n + 1] = r
  BY <1>3, <1>4, AppendProperties
<1>6. DOMAIN records' = 1 .. n + 1 /\ DOMAIN records = 1 .. n
  BY <1>4, <1>5, LenProperties
<1>7. \A i \in 1 .. n : records[i].start \in Nat /\ records[i].end \in Nat
  <2>1. \A i \in 1 .. n : records[i] \in Position
    BY <1>4, ElementOfSeq
  <2>2. QED
    BY <1>1, <2>1
<1>8. ASSUME NEW i \in 1 .. n + 1
      PROVE  /\ records'[i].start \in 0 .. Len(buf)
             /\ records'[i].end \in records'[i].start .. Len(buf)
             /\ records'[i].start < records'[i].end
             /\ records'[i].end <= pos'
             /\ buf[records'[i].start + 1] = "<"
             /\ buf[records'[i].end] = ">"
             /\ \A j \in 1 .. i - 1 : records'[j].end <= records'[i].start
  <2>1. CASE i \in 1 .. n
    <3>1. \A j \in 1 .. i - 1 : j \in 1 .. n
      BY <1>4, <2>1
    <3>2. records'[i] = records[i] /\ \A j \in 1 .. i - 1 : records'[j] = records[j]
      BY <1>5, <2>1, <3>1
    <3>3. /\ records[i].start \in 0 .. Len(buf)
          /\ records[i].end \in records[i].start .. Len(buf)
      BY <1>1, <1>6, <2>1 DEF RecordsInv
    <3>4. /\ records[i].start < records[i].end
          /\ records[i].end <= pos
          /\ buf[records[i].start + 1] = "<"
          /\ buf[records[i].end] = ">"
          /\ \A j \in 1 .. i - 1 : records[j].end <= records[i].start
      BY <1>1, <2>1 DEF RecordsInv, RangesInOrder
    <3>5. records[i].end <= pos'
      BY <1>1, <1>7, <2>1, <3>4
    <3>6. QED
      BY <3>2, <3>3, <3>4, <3>5
  <2>2. CASE i = n + 1
    <3>1. records'[i].start = s /\ records'[i].end = e
      BY <1>5, <2>2
    <3>2. \A j \in 1 .. i - 1 : j \in 1 .. n
      BY <1>4, <2>2
    <3>3. \A j \in 1 .. i - 1 : records'[j].end <= s
      BY <1>5, <3>2
    <3>4. QED
      BY <1>1, <3>1, <3>3
  <2>3. i \in 1 .. n \/ i = n + 1
    BY <1>4
  <2>4. QED
    BY <2>1, <2>2, <2>3, Zenon
<1>9. RangesInOrder'
  BY <1>2, <1>5, <1>8 DEF RangesInOrder
<1>10. QED
  BY <1>2, <1>5, <1>6, <1>8, <1>9 DEF RecordsInv

-------------------------------------------------------------------------------
\* Behind the root start tag nothing is open and nothing is found.
LEMMA InitScannerInv == Init => ScannerInv
<1> SUFFICES ASSUME Init PROVE ScannerInv
  OBVIOUS
<1>1. doc \in Docs
  BY DEF Init
<1>2. Len(buf) \in Nat /\ Len(Prolog) \in Nat /\ Len(Prolog) <= Len(buf) /\ Target \in Nat \ {0}
  BY <1>1, DocFacts
<1>3. pos \in 0 .. Len(buf)
  BY <1>2 DEF Init
<1>4. TypeOK
  BY <1>3 DEF Init, TypeOK
<1>5. records \in Seq([start : 0 .. Len(buf), end : 0 .. Len(buf)])
  BY DEF Init
<1>6. CountersAgree /\ OpenRecordInv
  BY <1>2 DEF Init, CountersAgree, OpenRecordInv
<1>7. RangesInOrder
  BY DEF Init, RangesInOrder
<1>8. QED
  BY <1>1, <1>4, <1>5, <1>6, <1>7 DEF ScannerInv

\* The other variables of a step that leaves the document alone.
LEMMA InvFromParts ==
  ASSUME ScannerInv, doc' = doc, RecordsInv',
         pos' \in 0 .. Len(buf), phase' \in {"content", "subtree", "trailing"},
         depth' \in Nat, skipDepth' \in Nat,
         recordStart' \in 0 .. Len(buf) \cup {NoPos}, nsFrom' \in 0 .. Len(buf) \cup {NoPos},
         verdict' \in {"open", "ok", "malformed"},
         CountersAgree', OpenRecordInv'
  PROVE  ScannerInv'
<1>1. buf' = buf /\ doc \in Docs
  BY SameDocument, StateFacts
<1>2. TypeOK'
  BY <1>1 DEF RecordsInv, TypeOK
<1>3. QED
  BY <1>1, <1>2 DEF RecordsInv, ScannerInv

\* The open record stays open.
LEMMA SameOpenRecord ==
  ASSUME ScannerInv, UNCHANGED <<doc, recordStart, records>>, pos' \in pos .. Len(buf)
  PROVE  OpenRecordInv'
<1>1. buf' = buf
  BY SameDocument
<1>2. SUFFICES ASSUME recordStart # NoPos
               PROVE  /\ recordStart < pos'
                      /\ buf[recordStart + 1] = "<"
                      /\ \A i \in 1 .. Len(records) : records[i].end <= recordStart
  BY <1>1 DEF OpenRecordInv
<1>3. recordStart < pos /\ recordStart \in Nat /\ pos \in Nat /\ pos' \in Nat /\ pos <= pos'
  BY <1>2, StateFacts DEF ScannerInv, OpenRecordInv, NoPos
<1>4. recordStart < pos'
  BY <1>3
<1>5. QED
  BY <1>2, <1>4 DEF ScannerInv, OpenRecordInv

\* A step that changes the verdict, or only moves on.
LEMMA MoveKeepsInv ==
  ASSUME ScannerInv, UNCHANGED <<doc, phase, elementVars, records>>,
         pos' \in pos .. Len(buf), verdict' \in {"open", "ok", "malformed"}
  PROVE  ScannerInv'
<1>1. UNCHANGED <<doc, phase, depth, recordStart, skipDepth, nsFrom, records>>
  BY DEF elementVars
<1>2. RecordsInv'
  BY <1>1, SameRecords
<1>3. pos' \in 0 .. Len(buf)
  BY StateFacts
<1>4. buf' = buf /\ Target' = Target
  BY <1>1, SameDocument
<1>5. CountersAgree'
  BY <1>1, <1>4 DEF ScannerInv, CountersAgree
<1>6. OpenRecordInv'
  BY <1>1, SameOpenRecord
<1>7. QED
  BY <1>1, <1>2, <1>3, <1>5, <1>6, InvFromParts, StateFacts

\* A refusal changes the verdict only.
LEMMA RefuseKeepsInv ==
  ASSUME ScannerInv, Refuse
  PROVE  ScannerInv'
<1>1. pos' \in pos .. Len(buf) /\ verdict' \in {"open", "ok", "malformed"}
  BY StateFacts DEF Refuse
<1>2. QED
  BY <1>1, MoveKeepsInv DEF Refuse

\* A comment, a CDATA section or a PI is stepped over.
LEMMA SkipSpanKeepsInv ==
  ASSUME ScannerInv, SkipSpan
  PROVE  ScannerInv' /\ pos' > pos
<1>1. AtLt /\ UNCHANGED <<doc, phase, elementVars, records, verdict>> /\ verdict = "open"
  BY DEF SkipSpan, MoveTo, AtLt, Scanning
<1>2. Lt \in pos .. Len(buf) - 1 /\ pos \in Nat /\ Len(buf) \in Nat
  BY <1>1, LtFacts, StateFacts
<1>3. PICK s \in Spans : SpanEnd(Lt, s) # NoPos /\ pos' = SpanEnd(Lt, s)
  BY DEF SkipSpan, SpanAt, MoveTo
<1>4. Lt \in Nat /\ pos <= Lt
  BY <1>2
<1>5. pos' \in Nat /\ Lt < pos' /\ pos' <= Len(buf)
  BY <1>3, <1>4, SpanFacts
<1>6. pos' \in pos .. Len(buf) /\ pos' > pos
  BY <1>2, <1>4, <1>5
<1>7. QED
  BY <1>1, <1>6, MoveKeepsInv

\* skip_ws stays inside the document.
LEMMA RestFacts ==
  ASSUME ScannerInv
  PROVE  Rest \in pos .. Len(buf)
<1> DEFINE T == {Len(buf)} \cup {p \in pos .. Len(buf) - 1 : ~IsWs(buf[p + 1])}
<1>1. pos \in Nat /\ Len(buf) \in Nat /\ pos <= Len(buf)
  BY StateFacts
<1>2. T \subseteq pos .. Len(buf) /\ T \subseteq Nat /\ T # {}
  BY <1>1
<1>3. Min(T) \in T
  BY <1>2, MinIsLeast
<1>4. QED
  BY <1>2, <1>3 DEF Rest

\* Behind the root, whitespace and then a comment or a PI.
LEMMA TrailingMiscKeepsInv ==
  ASSUME ScannerInv, TrailingMisc
  PROVE  ScannerInv' /\ pos' > pos
<1>1. UNCHANGED <<doc, phase, elementVars, records, verdict>> /\ verdict = "open"
  BY DEF TrailingMisc, MoveTo, Trailing
<1>2. pos \in Nat /\ Len(buf) \in Nat /\ pos <= Len(buf)
  BY StateFacts
<1>3. Rest \in pos .. Len(buf)
  BY RestFacts
<1>4. PICK s \in Spans : SpanEnd(Rest, s) # NoPos /\ pos' = SpanEnd(Rest, s)
  BY DEF TrailingMisc, MiscAt, SpanAt, MoveTo
<1>5. Rest \in Nat /\ pos <= Rest
  BY <1>2, <1>3
<1>6. pos' \in Nat /\ Rest < pos' /\ pos' <= Len(buf)
  BY <1>4, <1>5, SpanFacts
<1>7. pos' \in pos .. Len(buf) /\ pos' > pos
  BY <1>2, <1>5, <1>6
<1>8. QED
  BY <1>1, <1>7, MoveKeepsInv

-------------------------------------------------------------------------------
(***************************************************************************)
(* The iterations that come to a complete tag.                             *)
(***************************************************************************)
LEMMA TagMoves ==
  ASSUME ScannerInv, AtLt, TagHere.end # NoPos, MoveTo(TagHere.end)
  PROVE  /\ doc' = doc /\ buf' = buf /\ Target' = Target /\ verdict' = "open"
         /\ pos' = TagHere.end /\ pos' > pos /\ pos' \in pos .. Len(buf) /\ pos' \in 0 .. Len(buf)
         /\ Lt \in 0 .. Len(buf)
<1>1. doc' = doc /\ verdict' = "open" /\ pos' = TagHere.end
  BY DEF MoveTo, AtLt, Scanning
<1>2. pos \in Nat /\ Len(buf) \in Nat
  BY StateFacts
<1>3. /\ Lt \in Nat /\ pos <= Lt /\ Lt < Len(buf)
      /\ TagHere.end \in Nat /\ Lt + 2 <= TagHere.end /\ TagHere.end <= Len(buf)
  BY TagFacts
<1>4. PICK e \in Nat, l \in Nat : e = TagHere.end /\ l = Lt
  BY <1>3
<1>5. e > pos /\ e \in pos .. Len(buf) /\ e \in 0 .. Len(buf) /\ l \in 0 .. Len(buf)
  BY <1>2, <1>3, <1>4
<1>6. QED
  BY <1>1, <1>4, <1>5, SameDocument

\* skip_subtree counts down to 0, and only then returns.
LEMMA SubtreeTagKeepsInv ==
  ASSUME ScannerInv, SubtreeTag
  PROVE  ScannerInv' /\ pos' > pos
<1>1. AtLt /\ TagHere.end # NoPos /\ MoveTo(TagHere.end) /\ phase = "subtree"
      /\ UNCHANGED <<depth, recordStart, nsFrom, records>>
  BY DEF SubtreeTag
<1>2. /\ doc' = doc /\ Target' = Target /\ verdict' = "open"
      /\ pos' > pos /\ pos' \in pos .. Len(buf) /\ pos' \in 0 .. Len(buf)
  BY <1>1, TagMoves
<1>3. RecordsInv' /\ OpenRecordInv'
  BY <1>1, <1>2, SameRecords, SameOpenRecord
<1>4. skipDepth \in Nat /\ skipDepth > 0 /\ depth < Target
  BY <1>1, StateFacts DEF ScannerInv, CountersAgree
<1>5. skipDepth' \in {skipDepth - 1, skipDepth, skipDepth + 1}
      /\ phase' = IF skipDepth' = 0 THEN "content" ELSE "subtree"
  BY DEF SubtreeTag
<1>6. skipDepth' \in Nat
  BY <1>4, <1>5
<1>7. CountersAgree'
  BY <1>1, <1>2, <1>4, <1>5, <1>6 DEF ScannerInv, CountersAgree
<1>8. QED
  BY <1>1, <1>2, <1>3, <1>5, <1>6, <1>7, InvFromParts, StateFacts

\* The root's end tag: nothing is open any more.
LEMMA RootEndTagKeepsInv ==
  ASSUME ScannerInv, RootEndTag
  PROVE  ScannerInv' /\ (pos' > pos \/ Refuse)
<1>1. CASE Refuse
  BY <1>1, RefuseKeepsInv
<1>2. CASE RootCloseOk /\ MoveTo(TagHere.end) /\ phase' = "trailing" /\ depth' = 0
           /\ UNCHANGED <<recordStart, skipDepth, nsFrom, records>>
  <2>1. AtLt /\ TagHere.end # NoPos /\ phase = "content"
    BY DEF RootEndTag, ContentEndTag
  <2>2. /\ doc' = doc /\ Target' = Target /\ verdict' = "open"
        /\ pos' > pos /\ pos' \in pos .. Len(buf) /\ pos' \in 0 .. Len(buf)
    BY <1>2, <2>1, TagMoves
  <2>3. RecordsInv' /\ OpenRecordInv'
    BY <1>2, <2>2, SameRecords, SameOpenRecord
  <2>4. recordStart = NoPos /\ ~(skipDepth > 0)
    BY <1>2, <2>1 DEF RootCloseOk, ScannerInv, CountersAgree
  <2>5. Target \in Nat \ {0}
    BY StateFacts
  <2>6. CountersAgree'
    BY <1>2, <2>2, <2>4, <2>5 DEF CountersAgree
  <2>7. QED
    BY <1>2, <2>2, <2>3, <2>6, InvFromParts, StateFacts
<1>3. QED
  BY <1>1, <1>2 DEF RootEndTag

\* An end tag puts the record into the index exactly where the depth comes back to
\* its container.
LEMMA EndTagKeepsInv ==
  ASSUME ScannerInv, EndTag
  PROVE  ScannerInv' /\ pos' > pos
<1>1. /\ AtLt /\ TagHere.end # NoPos /\ MoveTo(TagHere.end) /\ phase = "content"
      /\ depth > 1 /\ depth' = depth - 1
      /\ UNCHANGED <<phase, skipDepth, nsFrom>>
  BY DEF EndTag, ContentEndTag
<1>2. /\ doc' = doc /\ Target' = Target /\ verdict' = "open" /\ pos' = TagHere.end
      /\ pos' > pos /\ pos' \in pos .. Len(buf) /\ pos' \in 0 .. Len(buf)
  BY <1>1, TagMoves
<1>3. /\ depth \in Nat /\ Target \in Nat \ {0} /\ ~(skipDepth > 0)
      /\ recordStart # NoPos <=> depth > Target
  BY <1>1, StateFacts DEF ScannerInv, CountersAgree
<1>4. depth' \in Nat
  BY <1>1, <1>3
<1>5. CASE recordStart # NoPos /\ depth - 1 = Target
  <2>1. records' = Append(records, [start |-> recordStart, end |-> TagHere.end])
        /\ recordStart' = NoPos
    BY <1>5 DEF EndTag
  <2>2. /\ recordStart \in Nat /\ recordStart < pos /\ buf[recordStart + 1] = "<"
        /\ \A i \in 1 .. Len(records) : records[i].end <= recordStart
    BY <1>5, StateFacts DEF ScannerInv, OpenRecordInv, NoPos
  <2>3. TagHere.end \in Nat /\ TagHere.end <= Len(buf) /\ buf[TagHere.end] = ">" /\ pos \in Nat
    BY <1>1, TagFacts, StateFacts
  <2>4. PICK e \in Nat : e = TagHere.end
    BY <2>3
  <2>5. pos' = e /\ e > pos /\ pos <= e /\ recordStart < e /\ e <= Len(buf) /\ buf[e] = ">"
    BY <1>2, <2>2, <2>3, <2>4
  <2>6. records' = Append(records, [start |-> recordStart, end |-> e])
    BY <2>1, <2>4
  <2>7. RecordsInv'
    BY <1>2, <2>2, <2>5, <2>6, OneMoreRecord
  <2>8. CountersAgree' /\ OpenRecordInv'
    BY <1>1, <1>2, <1>3, <1>5, <2>1 DEF CountersAgree, OpenRecordInv
  <2>9. QED
    BY <1>1, <1>2, <1>4, <2>1, <2>7, <2>8, InvFromParts, StateFacts
<1>6. CASE ~(recordStart # NoPos /\ depth - 1 = Target)
  <2>1. UNCHANGED <<records, recordStart>>
    BY <1>6 DEF EndTag
  <2>2. RecordsInv' /\ OpenRecordInv'
    BY <1>2, <2>1, SameRecords, SameOpenRecord
  <2>3. recordStart # NoPos <=> depth - 1 > Target
    BY <1>1, <1>3, <1>6
  <2>4. CountersAgree'
    BY <1>1, <1>2, <1>3, <2>1, <2>3 DEF CountersAgree
  <2>5. QED
    BY <1>1, <1>2, <1>4, <2>1, <2>2, <2>4, InvFromParts, StateFacts
<1>7. QED
  BY <1>5, <1>6

\* An element inside the open record.
LEMMA NestedStartTagKeepsInv ==
  ASSUME ScannerInv, NestedStartTag
  PROVE  ScannerInv' /\ pos' > pos
<1>1. /\ AtLt /\ TagHere.end # NoPos /\ MoveTo(TagHere.end) /\ phase = "content"
      /\ recordStart # NoPos /\ depth' \in {depth, depth + 1}
      /\ UNCHANGED <<phase, recordStart, skipDepth, nsFrom, records>>
  BY DEF NestedStartTag, ContentStartTag
<1>2. /\ doc' = doc /\ Target' = Target /\ verdict' = "open"
      /\ pos' > pos /\ pos' \in pos .. Len(buf) /\ pos' \in 0 .. Len(buf)
  BY <1>1, TagMoves
<1>3. RecordsInv' /\ OpenRecordInv'
  BY <1>1, <1>2, SameRecords, SameOpenRecord
<1>4. /\ depth \in Nat /\ Target \in Nat \ {0} /\ ~(skipDepth > 0) /\ depth > Target
  BY <1>1, StateFacts DEF ScannerInv, CountersAgree
<1>5. depth' \in Nat /\ depth' > Target
  BY <1>1, <1>4
<1>6. CountersAgree'
  BY <1>1, <1>2, <1>4, <1>5 DEF CountersAgree
<1>7. QED
  BY <1>1, <1>2, <1>3, <1>5, <1>6, InvFromParts, StateFacts

\* A record opens, or is in the index at once when its tag is self-closing.
LEMMA RecordStartTagKeepsInv ==
  ASSUME ScannerInv, RecordStartTag
  PROVE  ScannerInv' /\ pos' > pos
<1>1. /\ AtLt /\ TagHere.end # NoPos /\ MoveTo(TagHere.end) /\ phase = "content"
      /\ recordStart = NoPos /\ depth = Target
      /\ UNCHANGED <<phase, skipDepth, nsFrom>>
  BY DEF RecordStartTag, ContentStartTag
<1>2. /\ doc' = doc /\ Target' = Target /\ verdict' = "open" /\ pos' = TagHere.end
      /\ pos' > pos /\ pos' \in pos .. Len(buf) /\ pos' \in 0 .. Len(buf)
      /\ Lt \in 0 .. Len(buf) /\ buf' = buf
  BY <1>1, TagMoves
<1>3. /\ depth \in Nat /\ Target \in Nat \ {0} /\ ~(skipDepth > 0)
      /\ pos \in Nat /\ Len(buf) \in Nat /\ RecordsInv
  BY <1>1, StateFacts DEF ScannerInv, CountersAgree
<1>4. /\ Lt \in Nat /\ pos <= Lt /\ buf[Lt + 1] = "<"
      /\ TagHere.end \in Nat /\ Lt + 2 <= TagHere.end /\ TagHere.end <= Len(buf)
      /\ buf[TagHere.end] = ">"
  BY <1>1, TagFacts
<1>5. PICK e \in Nat, l \in Nat : e = TagHere.end /\ l = Lt
  BY <1>4
<1>6. l < e /\ pos <= e /\ pos <= l /\ e <= Len(buf) /\ buf[l + 1] = "<" /\ buf[e] = ">"
  BY <1>3, <1>4, <1>5
<1>7. \A i \in 1 .. Len(records) : records[i].end <= l
  <2>1. \A i \in 1 .. Len(records) : records[i] \in [start : 0 .. Len(buf), end : 0 .. Len(buf)]
    BY <1>3, ElementOfSeq DEF RecordsInv
  <2>2. \A i \in 1 .. Len(records) : records[i].end \in Nat /\ records[i].end <= pos
    BY <1>3, <2>1 DEF RecordsInv, RangesInOrder
  <2>3. QED
    BY <1>3, <1>6, <2>2
<1>8. CASE TagHere.slash
  <2>1. records' = Append(records, [start |-> l, end |-> e]) /\ UNCHANGED <<depth, recordStart>>
    BY <1>5, <1>8 DEF RecordStartTag
  <2>2. RecordsInv'
    BY <1>2, <1>5, <1>6, <1>7, <2>1, OneMoreRecord
  <2>3. CountersAgree' /\ OpenRecordInv'
    BY <1>1, <1>2, <1>3, <2>1 DEF CountersAgree, OpenRecordInv
  <2>4. QED
    BY <1>1, <1>2, <2>1, <2>2, <2>3, InvFromParts, StateFacts
<1>9. CASE ~TagHere.slash
  <2>1. recordStart' = l /\ depth' = depth + 1 /\ records' = records
    BY <1>5, <1>9 DEF RecordStartTag
  <2>2. RecordsInv'
    BY <1>2, <2>1, SameRecords
  <2>3. l # NoPos /\ depth + 1 > Target /\ depth + 1 \in Nat
    BY <1>1, <1>3 DEF NoPos
  <2>4. CountersAgree'
    BY <1>1, <1>2, <1>3, <2>1, <2>3 DEF CountersAgree
  <2>5. OpenRecordInv'
    BY <1>2, <1>5, <1>6, <1>7, <2>1 DEF OpenRecordInv
  <2>6. recordStart' \in 0 .. Len(buf) \cup {NoPos} /\ depth' \in Nat
    BY <1>2, <1>5, <2>1, <2>3
  <2>7. QED
    BY <1>1, <1>2, <2>2, <2>4, <2>5, <2>6, InvFromParts, StateFacts
<1>10. QED
  BY <1>8, <1>9

\* A container on the way is one level deeper, and never deeper than the records.
LEMMA DescentStartTagKeepsInv ==
  ASSUME ScannerInv, DescentStartTag
  PROVE  ScannerInv' /\ (pos' > pos \/ Refuse)
<1>1. CASE Refuse
  BY <1>1, RefuseKeepsInv
<1>2. CASE /\ nsFrom' = IF AttrsDeclare(DescentAttrs) THEN Lt ELSE nsFrom
           /\ depth' = IF TagHere.slash THEN depth ELSE depth + 1
           /\ MoveTo(TagHere.end)
           /\ UNCHANGED <<phase, recordStart, skipDepth, records>>
  <2>1. AtLt /\ TagHere.end # NoPos /\ phase = "content" /\ recordStart = NoPos /\ depth < Target
    BY DEF DescentStartTag, ContentStartTag
  <2>2. /\ doc' = doc /\ Target' = Target /\ verdict' = "open"
        /\ pos' > pos /\ pos' \in pos .. Len(buf) /\ pos' \in 0 .. Len(buf)
        /\ Lt \in 0 .. Len(buf)
    BY <1>2, <2>1, TagMoves
  <2>3. RecordsInv' /\ OpenRecordInv'
    BY <1>2, <2>2, SameRecords, SameOpenRecord
  <2>4. depth \in Nat /\ Target \in Nat /\ ~(skipDepth > 0)
    BY <2>1, StateFacts DEF ScannerInv, CountersAgree
  <2>5. depth' \in Nat /\ ~(depth' > Target)
    BY <1>2, <2>1, <2>4
  <2>6. CountersAgree'
    BY <1>2, <2>1, <2>2, <2>4, <2>5 DEF CountersAgree
  <2>7. nsFrom' \in 0 .. Len(buf) \cup {NoPos}
    BY <1>2, <2>2, StateFacts
  <2>8. QED
    BY <1>2, <2>2, <2>3, <2>5, <2>6, <2>7, InvFromParts, StateFacts
<1>3. QED
  BY <1>1, <1>2 DEF DescentStartTag

\* Another element on the way hands over to skip_subtree, above the container.
LEMMA SiblingStartTagKeepsInv ==
  ASSUME ScannerInv, SiblingStartTag
  PROVE  ScannerInv' /\ pos' > pos
<1>1. /\ AtLt /\ TagHere.end # NoPos /\ MoveTo(TagHere.end)
      /\ recordStart = NoPos /\ depth < Target
      /\ UNCHANGED <<depth, recordStart, nsFrom, records>>
      /\ \/ skipDepth' = 0 /\ phase' = "content"
         \/ skipDepth' = 1 /\ phase' = "subtree"
  BY DEF SiblingStartTag, ContentStartTag
<1>2. /\ doc' = doc /\ Target' = Target /\ verdict' = "open"
      /\ pos' > pos /\ pos' \in pos .. Len(buf) /\ pos' \in 0 .. Len(buf)
  BY <1>1, TagMoves
<1>3. RecordsInv' /\ OpenRecordInv'
  BY <1>1, <1>2, SameRecords, SameOpenRecord
<1>4. depth \in Nat /\ Target \in Nat
  BY StateFacts
<1>5. CountersAgree'
  BY <1>1, <1>2, <1>4 DEF CountersAgree
<1>6. QED
  BY <1>1, <1>2, <1>3, <1>5, InvFromParts, StateFacts

\* The end of the document.
LEMMA DoneKeepsInv ==
  ASSUME ScannerInv, Done
  PROVE  ScannerInv'
<1>1. Rest \in pos .. Len(buf)
  BY RestFacts
<1>2. pos' \in pos .. Len(buf) /\ verdict' \in {"open", "ok", "malformed"}
      /\ UNCHANGED <<doc, phase, elementVars, records>>
  BY <1>1 DEF Done
<1>3. QED
  BY <1>2, MoveKeepsInv

\* A scan that has decided stays as it is.
LEMMA StutterKeepsInv ==
  ASSUME ScannerInv, UNCHANGED vars
  PROVE  ScannerInv'
<1>1. UNCHANGED <<doc, phase, elementVars, records, pos, verdict>>
  BY DEF vars
<1>2. pos' \in pos .. Len(buf) /\ verdict' \in {"open", "ok", "malformed"}
  BY <1>1, StateFacts DEF ScannerInv, TypeOK
<1>3. QED
  BY <1>1, <1>2, MoveKeepsInv

\* Every step keeps the invariant; it moves on, or it decides.
LEMMA NextKeepsInv ==
  ASSUME ScannerInv, [Next]_vars
  PROVE  /\ ScannerInv'
         /\ pos' > pos \/ (verdict = "open" /\ verdict' # "open") \/ UNCHANGED vars
<1>1. CASE Unframed
  BY <1>1, RefuseKeepsInv DEF Unframed, Scanning, Refuse
<1>2. CASE SkipSpan
  BY <1>2, SkipSpanKeepsInv
<1>3. CASE SubtreeTag
  BY <1>3, SubtreeTagKeepsInv
<1>4. CASE RootEndTag
  BY <1>4, RootEndTagKeepsInv DEF RootEndTag, ContentEndTag, AtLt, Scanning, Refuse
<1>5. CASE EndTag
  BY <1>5, EndTagKeepsInv
<1>6. CASE NestedStartTag
  BY <1>6, NestedStartTagKeepsInv
<1>7. CASE RecordStartTag
  BY <1>7, RecordStartTagKeepsInv
<1>8. CASE DescentStartTag
  BY <1>8, DescentStartTagKeepsInv DEF DescentStartTag, ContentStartTag, AtLt, Scanning, Refuse
<1>9. CASE SiblingStartTag
  BY <1>9, SiblingStartTagKeepsInv
<1>10. CASE TrailingMisc
  BY <1>10, TrailingMiscKeepsInv
<1>11. CASE TrailingJunk
  BY <1>11, RefuseKeepsInv DEF TrailingJunk, Trailing, Refuse
<1>12. CASE Done
  BY <1>12, DoneKeepsInv DEF Done, Trailing
<1>13. CASE UNCHANGED vars
  BY <1>13, StutterKeepsInv
<1>14. QED
  BY <1>1, <1>2, <1>3, <1>4, <1>5, <1>6, <1>7, <1>8, <1>9, <1>10, <1>11, <1>12, <1>13
     DEF Next, Decided

(***************************************************************************)
(* The invariant, and what it is for.                                      *)
(***************************************************************************)
THEOREM ScannerInvariant == Spec => []ScannerInv
<1>1. ScannerInv /\ [Next]_vars => ScannerInv'
  BY NextKeepsInv
<1>2. QED
  BY InitScannerInv, <1>1, PTL DEF Spec

\* Positions stay inside the document, and every range found is a slice of it.
THEOREM ScannerTypes == Spec => []TypeOK
<1>1. ScannerInv => TypeOK
  BY DEF ScannerInv
<1>2. QED
  BY ScannerInvariant, <1>1, PTL

\* A record is open exactly below the container that the path leads to, and a subtree
\* is skipped exactly while skip_subtree counts, above it.
THEOREM ScannerCountersAgree == Spec => []CountersAgree
<1>1. ScannerInv => CountersAgree
  BY DEF ScannerInv
<1>2. QED
  BY ScannerInvariant, <1>1, PTL

\* What the index holds at any time are pieces of the document from a `<` to a `>`, in
\* document order and without overlap.
THEOREM IndexInOrder == Spec => []RangesInOrder
<1>1. ScannerInv => RangesInOrder
  BY DEF ScannerInv
<1>2. QED
  BY ScannerInvariant, <1>1, PTL

\* No iteration leaves the scan where it was: it moves forward or returns.
THEOREM EveryIterationMovesOn == Spec => ScanMovesOn
<1>1. ScannerInv /\ [Next]_vars
        => [pos' > pos \/ (verdict = "open" /\ verdict' # "open")]_vars
  BY NextKeepsInv
<1>2. QED
  BY ScannerInvariant, <1>1, PTL DEF Spec, ScanMovesOn
===============================================================================
