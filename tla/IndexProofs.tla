----------------------------- MODULE IndexProofs ------------------------------
(***************************************************************************)
(* The resident scanner and RecordRules: the scan accepts exactly the      *)
(* documents that they accept, and its index is exactly their records.  A  *)
(* `<` at which it stops begins a token; every iteration passes it as the  *)
(* rules read it, and so keeps FollowInv.                                  *)
(***************************************************************************)
EXTENDS ResidentScannerProofs, FiniteSetTheorems

(***************************************************************************)
(* What memchr, memmem and the tag scan find.                              *)
(***************************************************************************)
\* Where memchr finds nothing there is nothing.
LEMMA NoNext1 ==
  ASSUME doc \in Docs, NEW p \in Nat, NEW B, Next1(p, B) = NoPos
  PROVE  \A i \in p .. Len(buf) - 1 : buf[i + 1] \notin B
<1> DEFINE at == {i \in p .. Len(buf) - 1 : buf[i + 1] \in B}
<1>1. Len(buf) \in Nat
  BY DocFacts
<1>2. CASE at # {}
  <2>1. at \subseteq Nat
    BY <1>1
  <2>2. Min(at) \in at
    BY <1>2, <2>1, MinIsLeast
  <2>3. Next1(p, B) = Min(at) /\ Min(at) \in Nat
    BY <1>2, <2>1, <2>2 DEF Next1
  <2>4. QED
    BY <2>3 DEF NoPos
<1>3. CASE at = {}
  BY <1>3
<1>4. QED
  BY <1>2, <1>3

(***************************************************************************)
(* scan_start_tag finds the first `>` outside of quotes.                   *)
(***************************************************************************)
TagEndFrom == CHOOSE f : f = [i \in Nat |-> TagEndBody(f, i)]

\* The tag scan, one byte of interest at a time.
LEMMA ScanStartTagUnfolds ==
  ASSUME doc \in Docs
  PROVE  /\ \A p : ScanStartTag(p) = TagEndFrom[p]
         /\ \A i \in Nat : TagEndFrom[i] = TagEndBody(TagEndFrom, i)
<1> DEFINE scan[i \in Nat] ==
             LET hit == Next1(i, {">"} \cup Quotes)
                 close == Next1(hit + 1, {buf[hit + 1]})
             IN IF hit = NoPos THEN NoTagEnd
                ELSE IF buf[hit + 1] = ">"
                THEN [end |-> hit + 1, slash |-> hit > i /\ buf[hit] = "/"]
                ELSE IF close = NoPos THEN NoTagEnd ELSE scan[close + 1]
<1>1. \A p : ScanStartTag(p) = scan[p]
  BY DEF ScanStartTag
<1>2. scan = TagEndFrom
  BY DEF TagEndBody, TagEndFrom
<1>3. TagEndFrom = [i \in Nat |-> TagEndBody(TagEndFrom, i)]
  BY TagEndFunction, Zenon DEF TagEndFrom
<1> HIDE DEF scan
<1>4. QED
  BY <1>1, <1>2, <1>3

EndsTag(i, m) == buf[m] = ">" /\ QuoteBehind(buf, i)[m - 1] = Unquoted

\* What scan_start_tag has to answer at p for the tag that begins at byte i.
RightTagEnd(i, p, answer) ==
    \/ answer = NoTagEnd /\ \A m \in p + 1 .. Len(buf) : ~EndsTag(i, m)
    \/ \E n \in p + 1 .. Len(buf) :
          /\ EndsTag(i, n)
          /\ \A m \in p + 1 .. n - 1 : ~EndsTag(i, m)
          /\ answer = [end |-> n, slash |-> n - 1 > p /\ buf[n - 1] = "/"]

\* Outside of quotes the scan finds the first `>` that is outside of quotes.
LEMMA ScanStartTagExact ==
  ASSUME doc \in Docs, NEW i \in Nat, NEW p \in Nat \ {0}, i <= p, p <= Len(buf),
         QuoteBehind(buf, i)[p] = Unquoted
  PROVE  RightTagEnd(i, p, ScanStartTag(p))
<1> DEFINE Quote == QuoteBehind(buf, i)
           Good == {x \in Nat : i <= x /\ x <= Len(buf) /\ Quote[x] = Unquoted
                                  => RightTagEnd(i, x, TagEndFrom[x])}
<1>1. Len(buf) \in Nat /\ buf \in Seq(Symbols)
  BY DocFacts
<1>2. ASSUME NEW x \in Nat \ {0}, \A j \in x + 1 .. Len(buf) + 1 : j \in Good,
             i <= x, x <= Len(buf), Quote[x] = Unquoted
      PROVE  RightTagEnd(i, x, TagEndFrom[x])
  <2> DEFINE hit == Next1(x, {">"} \cup Quotes)
             close == Next1(hit + 1, {buf[hit + 1]})
  <2>1. TagEndFrom[x] =
          IF hit = NoPos THEN NoTagEnd
          ELSE IF buf[hit + 1] = ">"
          THEN [end |-> hit + 1, slash |-> hit > x /\ buf[hit] = "/"]
          ELSE IF close = NoPos THEN NoTagEnd ELSE TagEndFrom[close + 1]
    BY <1>2, ScanStartTagUnfolds DEF TagEndBody
  <2>2. CASE hit = NoPos
    <3>1. \A m \in x .. Len(buf) - 1 : buf[m + 1] # ">"
      BY <2>2, NoNext1
    <3>2. ASSUME NEW m \in x + 1 .. Len(buf) PROVE buf[m] # ">"
      <4>1. m - 1 \in x .. Len(buf) - 1 /\ (m - 1) + 1 = m
        BY <1>1
      <4>2. QED
        BY <3>1, <4>1
    <3>3. TagEndFrom[x] = NoTagEnd
      BY <2>1, <2>2
    <3>4. QED
      BY <3>2, <3>3 DEF RightTagEnd, EndsTag
  <2>3. ASSUME hit # NoPos
        PROVE  /\ hit \in Nat /\ x <= hit /\ hit <= Len(buf) - 1
               /\ buf[hit + 1] \in {">"} \cup Quotes
               /\ \A m \in x + 1 .. hit : buf[m] # ">" /\ buf[m] \notin Quotes
               /\ Quote[hit] = Unquoted
    <3>1. /\ hit \in x .. Len(buf) - 1
          /\ buf[hit + 1] \in {">"} \cup Quotes
          /\ \A m \in x .. hit - 1 : buf[m + 1] \notin {">"} \cup Quotes
      BY <2>3, Next1Facts
    <3> HIDE DEF hit
    <3>2. hit \in Nat /\ x <= hit /\ hit <= Len(buf) - 1
      BY <1>1, <3>1
    <3>3. ASSUME NEW m \in x + 1 .. hit PROVE buf[m] # ">" /\ buf[m] \notin Quotes
      <4>1. m - 1 \in x .. hit - 1 /\ (m - 1) + 1 = m
        BY <3>2
      <4>2. QED
        BY <3>1, <4>1
    <3>4. Quote[hit] = Unquoted
      <4>1. x \in 0 .. Len(buf) /\ hit \in x .. Len(buf) /\ hit \in x .. hit
        BY <1>1, <1>2, <3>2
      <4>2. \A m \in x + 1 .. hit : QuoteAfter(buf[m], Unquoted) = Unquoted
        BY <3>3 DEF QuoteAfter
      <4>3. \A m \in x .. hit : Quote[m] = Unquoted
        BY <1>1, <1>2, <4>1, <4>2, QuoteStays
      <4>4. QED
        BY <4>1, <4>3
    <3>5. QED
      BY <3>1, <3>2, <3>3, <3>4
  <2>4. CASE hit # NoPos /\ buf[hit + 1] = ">"
    <3>1. PICK h \in Nat : h = hit
      BY <2>3, <2>4
    <3>2. TagEndFrom[x] = [end |-> h + 1, slash |-> h > x /\ buf[h] = "/"]
      BY <2>1, <2>4, <3>1
    <3>3. /\ x <= h /\ h <= Len(buf) - 1 /\ buf[h + 1] = ">"
          /\ \A m \in x + 1 .. h : buf[m] # ">"
          /\ Quote[h] = Unquoted
      BY <2>3, <2>4, <3>1
    <3> HIDE DEF hit, close
    <3>4. PICK n \in Nat : n = h + 1
      OBVIOUS
    <3>5. n \in x + 1 .. Len(buf) /\ n - 1 = h /\ (n - 1 > x <=> h > x)
      BY <1>1, <3>3, <3>4
    <3>6. EndsTag(i, n) /\ \A m \in x + 1 .. n - 1 : ~EndsTag(i, m)
      BY <3>3, <3>4, <3>5 DEF EndsTag
    <3>7. TagEndFrom[x] = [end |-> n, slash |-> n - 1 > x /\ buf[n - 1] = "/"]
      BY <3>2, <3>4, <3>5
    <3>8. QED
      BY <3>5, <3>6, <3>7 DEF RightTagEnd
  <2>5. ASSUME hit # NoPos, buf[hit + 1] # ">"
        PROVE  /\ hit + 1 \in Nat /\ hit + 1 <= Len(buf)
               /\ buf[hit + 1] \in Quotes /\ Quote[hit + 1] = buf[hit + 1]
               /\ \A m \in x + 1 .. hit + 1 : ~EndsTag(i, m)
    <3>1. PICK h \in Nat : h = hit
      BY <2>3, <2>5
    <3>2. /\ x <= h /\ h <= Len(buf) - 1 /\ buf[h + 1] \in Quotes
          /\ \A m \in x + 1 .. h : buf[m] # ">"
          /\ Quote[h] = Unquoted /\ buf[h + 1] # ">"
      BY <2>3, <2>5, <3>1
    <3> HIDE DEF hit, close
    <3>3. h + 1 \in 1 .. Len(buf) /\ h + 1 > i /\ (h + 1) - 1 = h
      BY <1>1, <1>2, <3>2
    <3>4. Quote[h + 1] = QuoteAfter(buf[h + 1], Quote[h])
      BY <1>1, <3>3, QuoteUnfolds
    <3>5. Quote[h + 1] = buf[h + 1]
      BY <3>2, <3>4 DEF QuoteAfter
    <3>6. \A m \in x + 1 .. h + 1 : m \in x + 1 .. h \/ m = h + 1
      BY <3>2
    <3>7. \A m \in x + 1 .. h + 1 : buf[m] # ">"
      BY <3>2, <3>6
    <3>8. QED
      BY <3>1, <3>2, <3>3, <3>5, <3>7 DEF EndsTag
  <2>6. CASE hit # NoPos /\ buf[hit + 1] # ">" /\ close = NoPos
    <3>1. PICK g \in Nat : g = hit + 1
      BY <2>5, <2>6
    <3>2. PICK q : q = buf[g]
      OBVIOUS
    <3>3. /\ g <= Len(buf) /\ q \in Quotes /\ Quote[g] = q
          /\ \A m \in x + 1 .. g : ~EndsTag(i, m)
      BY <2>5, <2>6, <3>1, <3>2
    <3>4. \A m \in g .. Len(buf) - 1 : buf[m + 1] \notin {q}
      BY <2>6, <3>1, <3>2, NoNext1
    <3>5. TagEndFrom[x] = NoTagEnd
      BY <2>1, <2>6
    <3>6. x <= g
      BY <2>3, <2>6, <3>1
    <3> HIDE DEF hit, close
    <3>7. \A m \in g .. Len(buf) : Quote[m] = q
      <4>1. ASSUME NEW m \in g + 1 .. Len(buf) PROVE QuoteAfter(buf[m], q) = q
        <5>1. m - 1 \in g .. Len(buf) - 1 /\ (m - 1) + 1 = m
          BY <1>1
        <5>2. buf[m] # q /\ q # Unquoted
          BY <3>3, <3>4, <5>1, UnquotedIsNone
        <5>3. QED
          BY <5>2 DEF QuoteAfter
      <4>2. g \in 0 .. Len(buf) /\ Len(buf) \in g .. Len(buf) /\ i <= g
        BY <1>1, <1>2, <3>3, <3>6
      <4>3. QED
        BY <1>1, <3>3, <4>1, <4>2, QuoteStays
    <3>8. ASSUME NEW m \in x + 1 .. Len(buf) PROVE ~EndsTag(i, m)
      <4>1. CASE m <= g
        <5>1. m \in x + 1 .. g
          BY <4>1
        <5>2. QED
          BY <3>3, <5>1
      <4>2. CASE m > g
        <5>1. m - 1 \in g .. Len(buf)
          BY <1>1, <4>2
        <5>2. Quote[m - 1] = q /\ q # Unquoted
          BY <3>3, <3>7, <5>1, UnquotedIsNone
        <5>3. QED
          BY <5>2 DEF EndsTag
      <4>3. QED
        BY <4>1, <4>2
    <3>9. QED
      BY <3>5, <3>8 DEF RightTagEnd
  <2>7. CASE hit # NoPos /\ buf[hit + 1] # ">" /\ close # NoPos
    <3>1. PICK g \in Nat : g = hit + 1
      BY <2>5, <2>7
    <3>2. PICK q : q = buf[g]
      OBVIOUS
    <3>3. /\ g <= Len(buf) /\ q \in Quotes /\ Quote[g] = q
          /\ \A m \in x + 1 .. g : ~EndsTag(i, m)
      BY <2>5, <2>7, <3>1, <3>2
    <3>4. /\ close \in g .. Len(buf) - 1 /\ buf[close + 1] \in {q}
          /\ \A m \in g .. close - 1 : buf[m + 1] \notin {q}
      BY <2>7, <3>1, <3>2, Next1Facts
    <3>5. PICK c \in g .. Len(buf) - 1 :
            /\ c = close /\ buf[c + 1] = q
            /\ \A m \in g .. c - 1 : buf[m + 1] # q
      BY <3>4
    <3>6. TagEndFrom[x] = TagEndFrom[c + 1]
      BY <2>1, <2>7, <3>5
    <3>7. x < g
      BY <2>3, <2>7, <3>1
    <3> HIDE DEF hit, close
    <3>8. c \in Nat /\ g <= c /\ c <= Len(buf) - 1
      BY <1>1, <3>5
    <3>9. \A m \in g .. c : Quote[m] = q
      <4>1. ASSUME NEW m \in g + 1 .. c PROVE QuoteAfter(buf[m], q) = q
        <5>1. m - 1 \in g .. c - 1 /\ (m - 1) + 1 = m
          BY <1>1, <3>8
        <5>2. buf[m] # q /\ q # Unquoted
          BY <3>3, <3>5, <5>1, UnquotedIsNone
        <5>3. QED
          BY <5>2 DEF QuoteAfter
      <4>2. g \in 0 .. Len(buf) /\ c \in g .. Len(buf) /\ i <= g
        BY <1>1, <1>2, <3>3, <3>7, <3>8
      <4>3. \A m \in g + 1 .. c : QuoteAfter(buf[m], q) = q
        BY <4>1
      <4>4. QuoteBehind(buf, i)[g] = q /\ buf \in Seq(Symbols) /\ i \in Nat
        BY <1>1, <3>3
      <4>5. \A m \in g .. c : QuoteBehind(buf, i)[m] = q
        BY <4>2, <4>3, <4>4, QuoteStays
      <4>6. QED
        BY <4>5
    <3>10. Quote[c + 1] = Unquoted
      <4>1. c + 1 \in 1 .. Len(buf) /\ c + 1 > i /\ (c + 1) - 1 = c /\ c \in g .. c
        BY <1>1, <1>2, <3>7, <3>8
      <4>2. Quote[c + 1] = QuoteAfter(buf[c + 1], Quote[c])
        BY <1>1, <4>1, QuoteUnfolds
      <4>3. Quote[c] = q
        BY <3>9, <4>1
      <4>4. QED
        BY <3>3, <3>5, <4>2, <4>3, UnquotedIsNone DEF QuoteAfter
    <3>11. ASSUME NEW m \in x + 1 .. c + 1 PROVE ~EndsTag(i, m)
      <4>1. CASE m <= g
        <5>1. m \in x + 1 .. g
          BY <4>1
        <5>2. QED
          BY <3>3, <5>1
      <4>2. CASE m > g
        <5>1. m - 1 \in g .. c
          BY <3>8, <4>2
        <5>2. Quote[m - 1] = q /\ q # Unquoted
          BY <3>3, <3>9, <5>1, UnquotedIsNone
        <5>3. QED
          BY <5>2 DEF EndsTag
      <4>3. QED
        BY <4>1, <4>2
    <3>12. PICK r \in Nat : r = c + 1
      BY <3>8
    <3>13. r \in x + 1 .. Len(buf) + 1 /\ i <= r /\ r <= Len(buf) /\ Quote[r] = Unquoted /\ x < r
      BY <1>1, <1>2, <3>7, <3>8, <3>10, <3>12
    <3>14. RightTagEnd(i, r, TagEndFrom[r])
      BY <1>2, <3>13
    <3>15. CASE TagEndFrom[r] = NoTagEnd /\ \A m \in r + 1 .. Len(buf) : ~EndsTag(i, m)
      <4>1. \A m \in x + 1 .. Len(buf) : m \in x + 1 .. c + 1 \/ m \in r + 1 .. Len(buf)
        BY <1>1, <3>8, <3>12
      <4>2. \A m \in x + 1 .. Len(buf) : ~EndsTag(i, m)
        BY <3>11, <3>15, <4>1
      <4>3. QED
        BY <3>6, <3>12, <3>15, <4>2 DEF RightTagEnd
    <3>16. CASE \E n \in r + 1 .. Len(buf) :
                  /\ EndsTag(i, n)
                  /\ \A m \in r + 1 .. n - 1 : ~EndsTag(i, m)
                  /\ TagEndFrom[r] = [end |-> n, slash |-> n - 1 > r /\ buf[n - 1] = "/"]
      <4>1. PICK n \in r + 1 .. Len(buf) :
                  /\ EndsTag(i, n)
                  /\ \A m \in r + 1 .. n - 1 : ~EndsTag(i, m)
                  /\ TagEndFrom[r] = [end |-> n, slash |-> n - 1 > r /\ buf[n - 1] = "/"]
        BY <3>16
      <4>2. n \in x + 1 .. Len(buf)
        BY <1>1, <3>13, <4>1
      <4>3. \A m \in x + 1 .. n - 1 : m \in x + 1 .. c + 1 \/ m \in r + 1 .. n - 1
        BY <1>1, <3>8, <3>12, <4>2
      <4>4. \A m \in x + 1 .. n - 1 : ~EndsTag(i, m)
        BY <3>11, <4>1, <4>3
      <4>5. (n - 1 > r /\ buf[n - 1] = "/") <=> (n - 1 > x /\ buf[n - 1] = "/")
        <5>1. buf[r] # "/"
          BY <3>3, <3>5, <3>12 DEF Quotes
        <5>2. n - 1 > r \/ n - 1 = r
          BY <1>1, <4>1
        <5>3. n - 1 > x
          BY <1>1, <3>13, <4>1
        <5>4. QED
          BY <5>1, <5>2, <5>3
      <4>6. TagEndFrom[x] = [end |-> n, slash |-> n - 1 > x /\ buf[n - 1] = "/"]
        BY <3>6, <3>12, <4>1, <4>5
      <4>7. QED
        BY <4>1, <4>2, <4>4, <4>6 DEF RightTagEnd
    <3>17. QED
      BY <3>14, <3>15, <3>16 DEF RightTagEnd
  <2>8. QED
    BY <2>2, <2>4, <2>6, <2>7
<1>3. \A x \in Nat \ {0} : (\A j \in x + 1 .. Len(buf) + 1 : j \in Good) => x \in Good
  BY <1>2
<1> HIDE DEF Good
<1>4. \A x \in Nat \ {0} : x \in Good
  BY <1>1, <1>3, Backwards
<1>5. p \in Good
  BY <1>4
<1>6. QED
  BY <1>5, ScanStartTagUnfolds DEF Good

\* It finds the end of the tag that begins at a `<`, if there is one.
LEMMA TagIs ==
  ASSUME doc \in Docs, NEW i \in Nat \ {0}, i <= Len(buf), buf[i] = "<",
         NEW p \in {i, i + 1}, p <= Len(buf), p = i + 1 => buf[p] = "/"
  PROVE  \/ /\ ScanStartTag(p).end = NoPos
            /\ \A e \in i .. Len(buf) : ~IsTag(buf, i, e)
         \/ \E n \in p + 1 .. Len(buf) :
              /\ ScanStartTag(p).end = n
              /\ IsTag(buf, i, n)
              /\ \A e \in i .. Len(buf) : IsTag(buf, i, e) => e = n
              /\ p = i => (ScanStartTag(p).slash <=> buf[n - 1] = "/")
<1>1. Len(buf) \in Nat /\ buf \in Seq(Symbols) /\ p \in Nat /\ p \in Nat \ {0} /\ i <= p /\ i \in Nat
  BY DocFacts
<1>2. QuoteBehind(buf, i)[p] = Unquoted
  <2>1. i \in 0 .. Len(buf) /\ i <= i
    BY <1>1
  <2>2. QuoteBehind(buf, i)[i] = Unquoted
    BY <1>1, <2>1, QuoteUnfolds
  <2>3. CASE p = i
    BY <2>2, <2>3
  <2>4. CASE p = i + 1
    <3>1. p \in 1 .. Len(buf) /\ p > i /\ p - 1 = i
      BY <1>1, <2>4
    <3>2. QuoteBehind(buf, i)[p] = QuoteAfter(buf[p], QuoteBehind(buf, i)[i])
      BY <1>1, <3>1, QuoteUnfolds
    <3>3. buf[p] = "/"
      BY <2>4
    <3>4. buf[p] \notin Quotes
      BY <3>3 DEF Quotes
    <3>5. QED
      BY <2>2, <3>2, <3>4 DEF QuoteAfter
  <2>5. QED
    BY <2>3, <2>4
<1>3. RightTagEnd(i, p, ScanStartTag(p))
  BY <1>1, <1>2, ScanStartTagExact
<1>4. \A e : IsTag(buf, i, e) <=> i < e /\ EndsTag(i, e) /\ \A m \in i + 1 .. e - 1 : ~EndsTag(i, m)
  BY DEF IsTag, EndsTag
<1>5. \A m \in i + 1 .. p : ~EndsTag(i, m)
  <2>1. \A m \in i + 1 .. p : m = p /\ p = i + 1
    BY <1>1
  <2>2. QED
    BY <2>1 DEF EndsTag
<1>6. CASE ScanStartTag(p) = NoTagEnd /\ \A m \in p + 1 .. Len(buf) : ~EndsTag(i, m)
  <2>1. ScanStartTag(p).end = NoPos
    BY <1>6 DEF NoTagEnd
  <2>2. ASSUME NEW e \in i .. Len(buf), IsTag(buf, i, e) PROVE FALSE
    <3>1. i < e /\ EndsTag(i, e)
      BY <1>4, <2>2
    <3>2. e \in i + 1 .. p \/ e \in p + 1 .. Len(buf)
      BY <1>1, <3>1
    <3>3. QED
      BY <1>5, <1>6, <3>1, <3>2
  <2>3. QED
    BY <2>1, <2>2
<1>7. CASE \E n \in p + 1 .. Len(buf) :
             /\ EndsTag(i, n)
             /\ \A m \in p + 1 .. n - 1 : ~EndsTag(i, m)
             /\ ScanStartTag(p) = [end |-> n, slash |-> n - 1 > p /\ buf[n - 1] = "/"]
  <2>1. PICK n \in p + 1 .. Len(buf) :
             /\ EndsTag(i, n)
             /\ \A m \in p + 1 .. n - 1 : ~EndsTag(i, m)
             /\ ScanStartTag(p) = [end |-> n, slash |-> n - 1 > p /\ buf[n - 1] = "/"]
    BY <1>7
  <2>2. ScanStartTag(p).end = n /\ ScanStartTag(p).slash = (n - 1 > p /\ buf[n - 1] = "/")
    BY <2>1
  <2>3. n \in Nat /\ p < n /\ i < n /\ n <= Len(buf)
    BY <1>1, <2>1
  <2>4. \A m \in i + 1 .. n - 1 : ~EndsTag(i, m)
    <3>1. \A m \in i + 1 .. n - 1 : m \in i + 1 .. p \/ m \in p + 1 .. n - 1
      BY <1>1, <2>3
    <3>2. QED
      BY <1>5, <2>1, <3>1
  <2>5. IsTag(buf, i, n)
    BY <1>4, <2>1, <2>3, <2>4
  <2>6. ASSUME NEW e \in i .. Len(buf), IsTag(buf, i, e) PROVE e = n
    <3>1. i < e /\ EndsTag(i, e) /\ \A m \in i + 1 .. e - 1 : ~EndsTag(i, m)
      BY <1>4, <2>6
    <3>2. CASE e < n
      <4>1. e \in i + 1 .. n - 1
        BY <1>1, <2>3, <3>1, <3>2
      <4>2. QED
        BY <2>4, <3>1, <4>1
    <3>3. CASE e > n
      <4>1. n \in i + 1 .. e - 1
        BY <1>1, <2>3, <3>1, <3>3
      <4>2. QED
        BY <2>1, <3>1, <4>1
    <3>4. e \in Nat
      BY <1>1
    <3>5. QED
      BY <2>3, <3>2, <3>3, <3>4
  <2>7. ASSUME p = i PROVE ScanStartTag(p).slash <=> buf[n - 1] = "/"
    <3>1. CASE n - 1 = p
      <4>1. buf[n - 1] # "/"
        BY <2>7, <3>1
      <4>2. QED
        BY <2>2, <4>1
    <3>2. CASE n - 1 # p
      <4>1. n - 1 > p
        BY <1>1, <2>3, <3>2
      <4>2. QED
        BY <2>2, <4>1
    <3>3. QED
      BY <3>1, <3>2
  <2>8. QED
    BY <2>1, <2>2, <2>5, <2>6, <2>7
<1>8. QED
  BY <1>3, <1>6, <1>7 DEF RightTagEnd

(***************************************************************************)
(* Spans: Past is PastFirst, counted from 0.                               *)
(***************************************************************************)
LEMMA PastIs ==
  ASSUME doc \in Docs, NEW p \in Nat, NEW pattern \in Seq(Symbols), pattern # <<>>
  PROVE  \/ Past(p, pattern) = NoPos /\ PastFirst(buf, p + 1, pattern) = Nowhere
         \/ \E e \in Nat : Past(p, pattern) = e /\ PastFirst(buf, p + 1, pattern) = e + 1
<1> DEFINE at == {i \in p .. Len(buf) - Len(pattern) : StartsWith(i, pattern)}
           At1 == {j \in p + 1 .. Len(buf) : StartsAt(buf, j, pattern)}
<1>1. buf \in Seq(Symbols) /\ Len(buf) \in Nat /\ Len(pattern) \in Nat \ {0}
  BY DocFacts, EmptySeq, LenProperties
<1>2. \A i : StartsWith(i, pattern) <=> StartsAt(buf, i + 1, pattern)
  BY DEF StartsWith, StartsAt
<1>3. ASSUME NEW i \in at PROVE i + 1 \in At1 /\ i \in Nat
  <2>1. i \in p .. Len(buf) - Len(pattern) /\ StartsAt(buf, i + 1, pattern)
    BY <1>2
  <2>2. i + 1 \in p + 1 .. Len(buf) /\ i \in Nat
    BY <1>1, <2>1
  <2>3. QED
    BY <2>1, <2>2
<1>4. ASSUME NEW j \in At1 PROVE j - 1 \in at /\ j \in Nat
  <2>1. j \in p + 1 .. Len(buf) /\ StartsAt(buf, j, pattern) /\ j \in 1 .. Len(buf)
    BY <1>1
  <2>2. j + Len(pattern) <= Len(buf) + 1
    BY <1>1, <2>1, StartsAtFits
  <2>3. j - 1 \in p .. Len(buf) - Len(pattern) /\ (j - 1) + 1 = j
    BY <1>1, <2>1, <2>2
  <2>4. QED
    BY <1>2, <2>1, <2>3
<1>5. Past(p, pattern) = IF at = {} THEN NoPos ELSE Min(at) + Len(pattern)
  BY DEF Past
<1>6. PastFirst(buf, p + 1, pattern) = IF At1 = {} THEN Nowhere ELSE Min(At1) + Len(pattern)
  BY DEF PastFirst
<1>7. at \subseteq Nat /\ At1 \subseteq Nat
  BY <1>3, <1>4
<1> HIDE DEF at, At1
<1>8. CASE at = {}
  <2>1. At1 = {}
    BY <1>4, <1>8
  <2>2. QED
    BY <1>5, <1>6, <1>8, <2>1
<1>9. CASE at # {}
  <2>1. At1 # {}
    BY <1>3, <1>9
  <2>2. PICK x \in at : x = Min(at) /\ \A y \in at : x <= y
    BY <1>7, <1>9, MinIsLeast
  <2>3. PICK z \in At1 : z = Min(At1) /\ \A y \in At1 : z <= y
    BY <1>7, <2>1, MinIsLeast
  <2>4. x \in Nat /\ z \in Nat /\ z <= x + 1 /\ x <= z - 1
    BY <1>3, <1>4, <2>2, <2>3
  <2>5. z = x + 1
    BY <2>4
  <2>6. Past(p, pattern) = x + Len(pattern) /\ PastFirst(buf, p + 1, pattern) = (x + 1) + Len(pattern)
    BY <1>5, <1>6, <1>9, <2>1, <2>2, <2>3, <2>5
  <2>7. x + Len(pattern) \in Nat /\ (x + 1) + Len(pattern) = (x + Len(pattern)) + 1
    BY <1>1, <2>4
  <2>8. QED
    BY <2>6, <2>7
<1>10. QED
  BY <1>8, <1>9

CommentSpan == [open |-> <<"<", "!", "-", "-">>, close |-> <<"-", "-", ">">>]
CDataSpan == [open |-> <<"<", "!", "[", "CDATA[">>, close |-> <<"]", "]", ">">>]
PiSpan == [open |-> <<"<", "?">>, close |-> <<"?", ">">>]

\* What opens and what ends the spans.
LEMMA SpanPatterns ==
  /\ Spans = {CommentSpan, CDataSpan, PiSpan}
  /\ MiscSpans = {CommentSpan, PiSpan} /\ CDataSpans = {CDataSpan}
  /\ \A s \in Spans : /\ s.open \in Seq(Symbols) /\ s.close \in Seq(Symbols)
                      /\ s.open # <<>> /\ s.close # <<>>
                      /\ Len(s.open) \in Nat /\ Len(s.open) >= 2
<1>1. Spans = {CommentSpan, CDataSpan, PiSpan} /\ MiscSpans = {CommentSpan, PiSpan}
      /\ CDataSpans = {CDataSpan}
  BY Zenon DEF Spans, MiscSpans, CDataSpans, CommentSpan, CDataSpan, PiSpan
<1>2. {"<", "!", "-", ">", "[", "CDATA[", "]", "?"} \subseteq Symbols
  BY DEF Symbols
<1>3. /\ CommentSpan.open = <<"<", "!", "-", "-">> /\ CommentSpan.close = <<"-", "-", ">">>
      /\ CDataSpan.open = <<"<", "!", "[", "CDATA[">> /\ CDataSpan.close = <<"]", "]", ">">>
      /\ PiSpan.open = <<"<", "?">> /\ PiSpan.close = <<"?", ">">>
  BY DEF CommentSpan, CDataSpan, PiSpan
<1>4. /\ <<"<", "!", "-", "-">> \in Seq(Symbols) /\ <<"-", "-", ">">> \in Seq(Symbols)
      /\ <<"<", "!", "[", "CDATA[">> \in Seq(Symbols) /\ <<"]", "]", ">">> \in Seq(Symbols)
      /\ <<"<", "?">> \in Seq(Symbols) /\ <<"?", ">">> \in Seq(Symbols)
  BY <1>2
<1>5. /\ Len(<<"<", "!", "-", "-">>) = 4 /\ Len(<<"-", "-", ">">>) = 3
      /\ Len(<<"<", "!", "[", "CDATA[">>) = 4 /\ Len(<<"]", "]", ">">>) = 3
      /\ Len(<<"<", "?">>) = 2 /\ Len(<<"?", ">">>) = 2
  OBVIOUS
<1>6. ASSUME NEW s \in {CommentSpan, CDataSpan, PiSpan}
      PROVE  /\ s.open \in Seq(Symbols) /\ s.close \in Seq(Symbols)
             /\ Len(s.open) \in {2, 4} /\ Len(s.close) \in {2, 3}
  BY <1>3, <1>4, <1>5
<1>7. ASSUME NEW s \in Spans
      PROVE  /\ s.open \in Seq(Symbols) /\ s.close \in Seq(Symbols)
             /\ s.open # <<>> /\ s.close # <<>>
             /\ Len(s.open) \in Nat /\ Len(s.open) >= 2
  <2>1. s \in {CommentSpan, CDataSpan, PiSpan}
    BY <1>1
  <2>2. PICK x \in {2, 4}, y \in {2, 3} : x = Len(s.open) /\ y = Len(s.close)
    BY <1>6, <2>1
  <2>3. x \in Nat /\ x >= 2 /\ x # 0 /\ y # 0
    OBVIOUS
  <2>4. Len(<<>>) = 0
    OBVIOUS
  <2>5. QED
    BY <1>6, <2>1, <2>2, <2>3, <2>4
<1>8. QED
  BY <1>1, <1>7

\* A pattern is found where its bytes stand.
LEMMA PatternOpens ==
  ASSUME doc \in Docs, NEW p \in Nat, NEW pattern \in Seq(Symbols), pattern # <<>>,
         StartsWith(p, pattern)
  PROVE  /\ p + Len(pattern) <= Len(buf)
         /\ \A k \in 1 .. Len(pattern) : buf[p + k] = pattern[k]
<1>1. buf \in Seq(Symbols) /\ Len(buf) \in Nat /\ p + 1 \in Nat \ {0}
  BY DocFacts
<1>2. Len(pattern) \in Nat
  OBVIOUS
<1>3. StartsAt(buf, p + 1, pattern)
  BY DEF StartsWith, StartsAt
<1>4. PICK j \in Nat \ {0} : j = p + 1
  BY <1>1
<1>5. j + Len(pattern) <= Len(buf) + 1 /\ \A k \in 1 .. Len(pattern) : buf[j + k - 1] = pattern[k]
  BY <1>1, <1>3, <1>4, StartsAtIff
<1>6. \A k \in 1 .. Len(pattern) : j + k - 1 = p + k
  BY <1>2, <1>4
<1>7. QED
  BY <1>1, <1>2, <1>4, <1>5, <1>6

\* A span is told by its first bytes.
LEMMA SpanOpens ==
  ASSUME doc \in Docs, NEW p \in Nat, NEW s \in SpanAt(p)
  PROVE  /\ p + 2 <= Len(buf) /\ buf[p + 1] = "<"
         /\ \/ s = CommentSpan /\ buf[p + 2] = "!" /\ buf[p + 3] = "-"
            \/ s = CDataSpan /\ buf[p + 2] = "!" /\ buf[p + 3] = "["
            \/ s = PiSpan /\ buf[p + 2] = "?"
<1>1. s \in Spans /\ StartsWith(p, s.open) /\ s \in {CommentSpan, CDataSpan, PiSpan}
  BY SpanPatterns DEF SpanAt
<1>2. s.open \in Seq(Symbols) /\ s.open # <<>> /\ Len(buf) \in Nat
  BY <1>1, SpanPatterns, DocFacts
<1>3. CASE s = CommentSpan
  <2>1. s.open = <<"<", "!", "-", "-">> /\ Len(<<"<", "!", "-", "-">>) = 4
    BY <1>3 DEF CommentSpan
  <2>2. p + 4 <= Len(buf) /\ \A k \in 1 .. 4 : buf[p + k] = <<"<", "!", "-", "-">>[k]
    <3>1. p + Len(s.open) <= Len(buf) /\ \A k \in 1 .. Len(s.open) : buf[p + k] = s.open[k]
      BY <1>1, <1>2, PatternOpens
    <3>2. QED
      BY <2>1, <3>1
  <2>3. 1 \in 1 .. 4 /\ 2 \in 1 .. 4 /\ 3 \in 1 .. 4
    OBVIOUS
  <2>4. buf[p + 1] = "<" /\ buf[p + 2] = "!" /\ buf[p + 3] = "-"
    BY <2>2, <2>3
  <2>5. p + 2 <= Len(buf)
    BY <1>2, <2>2
  <2>6. QED
    BY <1>3, <2>4, <2>5
<1>4. CASE s = CDataSpan
  <2>1. s.open = <<"<", "!", "[", "CDATA[">> /\ Len(<<"<", "!", "[", "CDATA[">>) = 4
    BY <1>4 DEF CDataSpan
  <2>2. p + 4 <= Len(buf) /\ \A k \in 1 .. 4 : buf[p + k] = <<"<", "!", "[", "CDATA[">>[k]
    <3>1. p + Len(s.open) <= Len(buf) /\ \A k \in 1 .. Len(s.open) : buf[p + k] = s.open[k]
      BY <1>1, <1>2, PatternOpens
    <3>2. QED
      BY <2>1, <3>1
  <2>3. 1 \in 1 .. 4 /\ 2 \in 1 .. 4 /\ 3 \in 1 .. 4
    OBVIOUS
  <2>4. buf[p + 1] = "<" /\ buf[p + 2] = "!" /\ buf[p + 3] = "["
    BY <2>2, <2>3
  <2>5. p + 2 <= Len(buf)
    BY <1>2, <2>2
  <2>6. QED
    BY <1>4, <2>4, <2>5
<1>5. CASE s = PiSpan
  <2>1. s.open = <<"<", "?">> /\ Len(<<"<", "?">>) = 2
    BY <1>5 DEF PiSpan
  <2>2. p + 2 <= Len(buf) /\ \A k \in 1 .. 2 : buf[p + k] = <<"<", "?">>[k]
    <3>1. p + Len(s.open) <= Len(buf) /\ \A k \in 1 .. Len(s.open) : buf[p + k] = s.open[k]
      BY <1>1, <1>2, PatternOpens
    <3>2. QED
      BY <2>1, <3>1
  <2>3. 1 \in 1 .. 2 /\ 2 \in 1 .. 2
    OBVIOUS
  <2>4. buf[p + 1] = "<" /\ buf[p + 2] = "?"
    BY <2>2, <2>3
  <2>5. QED
    BY <1>5, <2>2, <2>4
<1>6. QED
  BY <1>1, <1>3, <1>4, <1>5

\* At most one span opens anywhere.
LEMMA OneSpan ==
  ASSUME doc \in Docs, NEW p \in Nat, NEW s \in SpanAt(p), NEW t \in SpanAt(p)
  PROVE  s = t
<1>1. \/ s = CommentSpan /\ buf[p + 2] = "!" /\ buf[p + 3] = "-"
      \/ s = CDataSpan /\ buf[p + 2] = "!" /\ buf[p + 3] = "["
      \/ s = PiSpan /\ buf[p + 2] = "?"
  BY SpanOpens
<1>2. \/ t = CommentSpan /\ buf[p + 2] = "!" /\ buf[p + 3] = "-"
      \/ t = CDataSpan /\ buf[p + 2] = "!" /\ buf[p + 3] = "["
      \/ t = PiSpan /\ buf[p + 2] = "?"
  BY SpanOpens
<1>3. QED
  BY <1>1, <1>2

\* The spans that RecordRules has are those that the scan finds.
LEMMA SpanIs ==
  ASSUME doc \in Docs, NEW p \in Nat, NEW spans, spans \subseteq Spans, NEW e \in Nat
  PROVE  IsSpan(buf, p + 1, e, spans)
           <=> \E s \in SpanAt(p) : s \in spans /\ SpanEnd(p, s) = e
<1>1. ASSUME NEW s \in spans
      PROVE  /\ StartsAt(buf, p + 1, s.open) <=> s \in SpanAt(p)
             /\ PastFirst(buf, p + 1 + Len(s.open), s.close) = e + 1 <=> SpanEnd(p, s) = e
  <2>1. s \in Spans
    OBVIOUS
  <2>2. StartsAt(buf, p + 1, s.open) <=> s \in SpanAt(p)
    BY <2>1 DEF StartsAt, StartsWith, SpanAt
  <2>3. PICK x \in Nat, c \in Seq(Symbols) : x = Len(s.open) /\ c = s.close /\ c # <<>>
    BY <2>1, SpanPatterns
  <2>4. p + x \in Nat /\ p + 1 + x = (p + x) + 1 /\ e + 1 # 0 /\ e # -1
    OBVIOUS
  <2>5. \/ Past(p + x, c) = NoPos /\ PastFirst(buf, (p + x) + 1, c) = Nowhere
        \/ \E y \in Nat : Past(p + x, c) = y /\ PastFirst(buf, (p + x) + 1, c) = y + 1
    BY <2>3, <2>4, PastIs
  <2>6. SpanEnd(p, s) = Past(p + x, c) /\ PastFirst(buf, p + 1 + Len(s.open), s.close)
          = PastFirst(buf, (p + x) + 1, c)
    BY <2>3, <2>4 DEF SpanEnd
  <2>7. NoPos # e /\ Nowhere # e + 1
    BY <2>4 DEF NoPos, Nowhere
  <2>8. CASE Past(p + x, c) = NoPos /\ PastFirst(buf, (p + x) + 1, c) = Nowhere
    BY <2>2, <2>6, <2>7, <2>8
  <2>9. CASE \E y \in Nat : Past(p + x, c) = y /\ PastFirst(buf, (p + x) + 1, c) = y + 1
    <3>1. PICK y \in Nat : Past(p + x, c) = y /\ PastFirst(buf, (p + x) + 1, c) = y + 1
      BY <2>9
    <3>2. y + 1 = e + 1 <=> y = e
      OBVIOUS
    <3>3. QED
      BY <2>2, <2>6, <3>1, <3>2
  <2>10. QED
    BY <2>5, <2>8, <2>9
<1>2. QED
  BY <1>1 DEF IsSpan

-------------------------------------------------------------------------------
(***************************************************************************)
(* What the scan finds where a token begins.                               *)
(***************************************************************************)
Begin(m) == TokenStart(doc, m)
End(m) == TokenStart(doc, m + 1)
Kind(m) == doc.toks[m].kind

\* A token and its place.
LEMMA TokenAt ==
  ASSUME doc \in Docs, NEW m \in 1 .. Len(doc.toks)
  PROVE  /\ Begin(m) \in Nat /\ End(m) \in Nat /\ Begin(m) < End(m) /\ End(m) <= Len(buf)
         /\ IsToken(buf, Begin(m) + 1, End(m), doc.toks[m])
         /\ Kind(m) \in {"space", "text", "misc", "cdata", "end", "start", "empty", "broken"}
         /\ Len(buf) \in Nat /\ buf \in Seq(Symbols)
<1>1. Len(buf) \in Nat /\ buf \in Seq(Symbols) /\ buf = doc.bytes
  BY DocFacts DEF buf, Input
<1>2. Len(doc.toks) \in Nat /\ doc.toks[m] \in AnyToken
  BY DocumentTypes
<1>3. m \in 1 .. Len(doc.toks) + 1 /\ m + 1 \in 1 .. Len(doc.toks) + 1
  BY <1>2
<1>4. /\ Begin(m) \in Nat /\ End(m) \in Nat /\ Begin(m) < End(m)
      /\ IsToken(buf, Begin(m) + 1, End(m), doc.toks[m])
  BY <1>1, <1>3, TokenPlaces DEF Begin, End
<1>5. End(m) <= Len(buf)
  <2>1. m + 1 \in m + 1 .. Len(doc.toks) + 1
    BY <1>2
  <2>2. QED
    BY <1>1, <1>3, <2>1, TokensInOrder DEF End
<1>6. Kind(m) \in {"space", "text", "misc", "cdata", "end", "start", "empty", "broken"}
  BY <1>2 DEF AnyToken, Kind
<1>7. QED
  BY <1>1, <1>4, <1>5, <1>6

\* No name starts with a delimiter.
LEMMA NoNameStart == \A b \in {"/", "!", "?", "<", ">"} : ~IsNameStart(b)
BY Zenon DEF IsNameStart, Names, Words, HighBytes

\* IsToken, by the kind of the token.
LEMMA TokenIs ==
  ASSUME doc \in Docs, NEW m \in 1 .. Len(doc.toks)
  PROVE  /\ Kind(m) = "space" => \A x \in Begin(m) + 1 .. End(m) : IsWs(buf[x])
         /\ Kind(m) = "text" => /\ \A x \in Begin(m) + 1 .. End(m) : buf[x] # "<"
                                /\ \E x \in Begin(m) + 1 .. End(m) : ~IsWs(buf[x])
         /\ Kind(m) = "misc" => IsSpan(buf, Begin(m) + 1, End(m), MiscSpans)
         /\ Kind(m) = "cdata" => IsSpan(buf, Begin(m) + 1, End(m), CDataSpans)
         /\ Kind(m) = "end" =>
              /\ IsEnd(buf, Begin(m) + 1, End(m))
              /\ EndTagName(buf, Begin(m) + 3) = <<doc.toks[m].name>>
         /\ Kind(m) \in {"start", "empty"} =>
              /\ IsStart(buf, Begin(m) + 1, End(m))
              /\ EndTagName(buf, Begin(m) + 2) = <<doc.toks[m].name>>
              /\ doc.toks[m].attrs = AttrsOf(buf, Begin(m) + 1, End(m))
              /\ Kind(m) = "empty" <=> buf[End(m) - 1] = "/"
         /\ Kind(m) = "broken" =>
              /\ buf[Begin(m) + 1] = "<"
              /\ \A x \in Begin(m) + 1 .. Len(buf) :
                    /\ ~IsSpan(buf, Begin(m) + 1, x, MiscSpans \cup CDataSpans)
                    /\ ~IsEnd(buf, Begin(m) + 1, x)
                    /\ ~IsStart(buf, Begin(m) + 1, x)
<1> DEFINE i == Begin(m) + 1
<1>1. /\ IsToken(buf, i, End(m), doc.toks[m]) /\ i + 1 = Begin(m) + 2 /\ i + 2 = Begin(m) + 3
  BY TokenAt
<1> HIDE DEF i
<1>2. CASE Kind(m) = "space"
  BY <1>1, <1>2 DEF IsToken, Kind, i
<1>3. CASE Kind(m) = "text"
  BY <1>1, <1>3 DEF IsToken, Kind, i
<1>4. CASE Kind(m) = "misc"
  BY <1>1, <1>4 DEF IsToken, Kind, i
<1>5. CASE Kind(m) = "cdata"
  BY <1>1, <1>5 DEF IsToken, Kind, i
<1>6. CASE Kind(m) = "end"
  BY <1>1, <1>6 DEF IsToken, Kind, i
<1>7. CASE Kind(m) \in {"start", "empty"}
  BY <1>1, <1>7 DEF IsToken, Kind, i
<1>8. CASE Kind(m) = "broken"
  BY <1>1, <1>8 DEF IsToken, Kind, i
<1>9. QED
  BY <1>2, <1>3, <1>4, <1>5, <1>6, <1>7, <1>8, TokenAt

\* Only markup begins with a `<`, and there is none in character data.
LEMMA MarkupBegins ==
  ASSUME doc \in Docs, NEW m \in 1 .. Len(doc.toks)
  PROVE  /\ Kind(m) \notin {"space", "text"} => buf[Begin(m) + 1] = "<"
         /\ Kind(m) \in {"space", "text"} =>
              \A x \in Begin(m) + 1 .. End(m) : buf[x] # "<"
<1>1. CASE Kind(m) = "misc" \/ Kind(m) = "cdata"
  <2>1. MiscSpans \subseteq Spans /\ CDataSpans \subseteq Spans
    BY SpanPatterns
  <2>2. PICK spans : spans \subseteq Spans /\ IsSpan(buf, Begin(m) + 1, End(m), spans)
    BY <1>1, <2>1, TokenIs
  <2>3. PICK s \in SpanAt(Begin(m)) : s \in spans
    BY <2>2, SpanIs, TokenAt
  <2>4. buf[Begin(m) + 1] = "<"
    BY <2>3, SpanOpens, TokenAt
  <2>5. QED
    BY <1>1, <2>4
<1>2. CASE Kind(m) \in {"end", "start", "empty"}
  BY <1>2, TokenIs DEF IsEnd, IsStart, IsTag
<1>3. CASE Kind(m) = "broken"
  BY <1>3, TokenIs
<1>4. CASE Kind(m) = "text"
  BY <1>4, TokenIs
<1>5. CASE Kind(m) = "space"
  BY <1>5, TokenIs DEF IsWs
<1>6. QED
  BY <1>1, <1>2, <1>3, <1>4, <1>5, TokenAt

\* The spans that open where a token begins, and where they end.
LEMMA SpansAtToken ==
  ASSUME doc \in Docs, NEW m \in 1 .. Len(doc.toks)
  PROVE  /\ Kind(m) \in {"misc", "cdata"} =>
              \E s \in SpanAt(Begin(m)) :
                 /\ SpanEnd(Begin(m), s) = End(m)
                 /\ SpanAt(Begin(m)) = {s}
                 /\ Kind(m) = "misc" <=> s.close # <<"]", "]", ">">>
                 /\ buf[Begin(m) + 2] \in {"!", "?"}
         /\ Kind(m) \in {"end", "start", "empty"} => SpanAt(Begin(m)) = {}
         /\ Kind(m) = "broken" => \A s \in SpanAt(Begin(m)) : SpanEnd(Begin(m), s) = NoPos
<1> DEFINE p == Begin(m)
<1>1. p \in Nat /\ End(m) \in Nat /\ p < End(m) /\ End(m) <= Len(buf) /\ Len(buf) \in Nat
  BY TokenAt
<1>2. MiscSpans \subseteq Spans /\ CDataSpans \subseteq Spans /\ Spans = MiscSpans \cup CDataSpans
  BY SpanPatterns
<1>3. ASSUME NEW spans, spans \subseteq Spans, IsSpan(buf, p + 1, End(m), spans)
      PROVE  \E s \in SpanAt(p) : /\ SpanEnd(p, s) = End(m) /\ SpanAt(p) = {s} /\ s \in spans
                                  /\ buf[p + 2] \in {"!", "?"}
  <2>1. PICK s \in SpanAt(p) : s \in spans /\ SpanEnd(p, s) = End(m)
    BY <1>1, <1>3, SpanIs
  <2>2. SpanAt(p) = {s}
    <3>1. \A t \in SpanAt(p) : t = s
      BY <1>1, OneSpan
    <3>2. QED
      BY <3>1
  <2>3. buf[p + 2] \in {"!", "?"}
    BY <1>1, SpanOpens
  <2>4. QED
    BY <2>1, <2>2, <2>3
<1>4. CASE Kind(m) = "misc"
  <2>1. \A s \in MiscSpans : s.close # <<"]", "]", ">">>
    <3>1. <<"-", "-", ">">> # <<"]", "]", ">">> /\ <<"?", ">">> # <<"]", "]", ">">>
      OBVIOUS
    <3>2. QED
      BY <3>1 DEF MiscSpans
  <2>2. IsSpan(buf, p + 1, End(m), MiscSpans)
    BY <1>4, TokenIs
  <2>3. QED
    BY <1>2, <1>3, <1>4, <2>1, <2>2
<1>5. CASE Kind(m) = "cdata"
  <2>1. \A s \in CDataSpans : s.close = <<"]", "]", ">">>
    BY DEF CDataSpans
  <2>2. IsSpan(buf, p + 1, End(m), CDataSpans)
    BY <1>5, TokenIs
  <2>3. QED
    BY <1>2, <1>3, <1>5, <2>1, <2>2
<1>6. CASE Kind(m) \in {"end", "start", "empty"}
  <2>1. buf[p + 2] = "/" \/ IsNameStart(buf[p + 2])
    <3>1. (p + 1) + 1 = p + 2
      BY <1>1
    <3>2. QED
      BY <1>6, <3>1, TokenIs DEF IsEnd, IsStart
  <2>2. buf[p + 2] \notin {"!", "?"}
    BY <2>1, NoNameStart
  <2>3. \A s \in SpanAt(p) : FALSE
    BY <1>1, <2>2, SpanOpens
  <2>4. QED
    BY <1>6, <2>3
<1>7. CASE Kind(m) = "broken"
  <2>1. ASSUME NEW s \in SpanAt(p), SpanEnd(p, s) # NoPos PROVE FALSE
    <3>1. s \in Spans
      BY DEF SpanAt
    <3>2. PICK x \in Nat, c \in Seq(Symbols) : x = Len(s.open) /\ c = s.close
      <4>1. Len(s.open) \in Nat /\ s.close \in Seq(Symbols)
        BY <3>1, SpanPatterns, Zenon
      <4>2. QED
        BY <4>1
    <3>3. p + x \in Nat
      BY <1>1
    <3>4. SpanEnd(p, s) \in p + x + Len(c) .. Len(buf)
      BY <2>1, <3>2, <3>3, PastFacts DEF SpanEnd
    <3>5. PICK e \in p + x + Len(c) .. Len(buf) : e = SpanEnd(p, s)
      BY <3>4
    <3>6. Len(c) \in Nat /\ x >= 2
      <4>1. Len(s.open) >= 2
        BY <3>1, SpanPatterns, Zenon
      <4>2. QED
        BY <3>2, <4>1, LenProperties
    <3>7. e \in Nat /\ e \in p + 1 .. Len(buf)
      BY <1>1, <3>5, <3>6
    <3>8. IsSpan(buf, p + 1, e, Spans)
      BY <1>1, <3>1, <3>5, <3>7, SpanIs
    <3>9. QED
      BY <1>2, <1>7, <3>7, <3>8, TokenIs
  <2>2. QED
    BY <1>7, <2>1
<1>8. QED
  BY <1>4, <1>5, <1>6, <1>7

\* An end tag opens with its two bytes.
LEMMA EndTagOpens ==
  ASSUME doc \in Docs, Lt \in Nat
  PROVE  IsEndTag <=> Lt + 2 <= Len(buf) /\ buf[Lt + 1] = "<" /\ buf[Lt + 2] = "/"
<1>1. buf \in Seq(Symbols) /\ Len(buf) \in Nat
  BY DocFacts
<1>2. PICK pattern \in Seq(Symbols) : pattern = <<"<", "/">>
  <2>1. {"<", "/"} \subseteq Symbols
    BY DEF Symbols
  <2>2. <<"<", "/">> \in Seq(Symbols)
    BY <2>1
  <2>3. QED
    BY <2>2
<1>2a. pattern # <<>>
  BY <1>2
<1>3. Len(pattern) = 2 /\ pattern[1] = "<" /\ pattern[2] = "/"
  BY <1>2
<1>4. PICK j \in Nat \ {0} : j = Lt + 1
  OBVIOUS
<1>5. StartsAt(buf, j, pattern) <=>
        /\ j + Len(pattern) <= Len(buf) + 1
        /\ \A k \in 1 .. Len(pattern) : buf[j + k - 1] = pattern[k]
  BY <1>1, <1>2a, StartsAtIff
<1>6. (\A k \in 1 .. Len(pattern) : buf[j + k - 1] = pattern[k])
        <=> buf[Lt + 1] = "<" /\ buf[Lt + 2] = "/"
  <2>1. j + 1 - 1 = Lt + 1 /\ j + 2 - 1 = Lt + 2 /\ 1 .. Len(pattern) = {1, 2}
    BY <1>3, <1>4
  <2>2. QED
    BY <1>3, <2>1
<1>7. j + Len(pattern) <= Len(buf) + 1 <=> Lt + 2 <= Len(buf)
  BY <1>1, <1>3, <1>4
<1>8. IsEndTag <=> StartsAt(buf, j, pattern)
  BY <1>2, <1>4 DEF IsEndTag, StartsWith, StartsAt
<1>9. QED
  BY <1>5, <1>6, <1>7, <1>8

\* The scan takes a token for a tag if it is one, and then finds its end, its name
\* and whether it is self-closing; it finds no end of a tag that has none.
LEMMA TagsAtToken ==
  ASSUME doc \in Docs, NEW m \in 1 .. Len(doc.toks), Lt = Begin(m)
  PROVE  /\ Kind(m) = "end" =>
              /\ IsEndTag /\ ~IsStartTag
              /\ TagHere.end = End(m)
              /\ NameAt(Lt + 2) = <<doc.toks[m].name>>
         /\ Kind(m) \in {"start", "empty"} =>
              /\ IsStartTag /\ ~IsEndTag
              /\ TagHere.end = End(m)
              /\ TagHere.slash <=> Kind(m) = "empty"
              /\ NameAt(Lt + 1) = <<doc.toks[m].name>>
         /\ Kind(m) \in {"misc", "cdata"} => ~IsStartTag /\ ~IsEndTag
         /\ Kind(m) = "broken" => (IsEndTag \/ IsStartTag => TagHere.end = NoPos)
<1> DEFINE i == Lt + 1
<1>1. /\ Lt \in Nat /\ End(m) \in Nat /\ Lt < End(m) /\ End(m) <= Len(buf) /\ Len(buf) \in Nat
      /\ i \in Nat \ {0} /\ i <= Len(buf) /\ i + 1 = Lt + 2 /\ i + 2 = Lt + 3
  BY TokenAt
<1>2. IsEndTag <=> Lt + 2 <= Len(buf) /\ buf[Lt + 1] = "<" /\ buf[Lt + 2] = "/"
  BY <1>1, EndTagOpens
<1>3. IsStartTag <=> Lt + 2 <= Len(buf) /\ IsNameStart(buf[Lt + 2])
  BY <1>1 DEF IsStartTag
<1>4. IsEndTag => ~IsStartTag
  BY <1>2, <1>3, NoNameStart
<1>5. TagHere = IF IsEndTag THEN ScanStartTag(i + 1) ELSE ScanStartTag(i)
  BY <1>1 DEF TagHere
<1>6. CASE Kind(m) = "end"
  <2>1. IsTag(buf, i, End(m)) /\ buf[i + 1] = "/" /\ EndTagName(buf, Lt + 3) = <<doc.toks[m].name>>
    BY <1>6, TokenIs DEF IsEnd
  <2>2. buf[i] = "<" /\ i < End(m) /\ i + 1 <= Len(buf)
    BY <1>1, <2>1 DEF IsTag
  <2>3. IsEndTag
    BY <1>1, <1>2, <2>1, <2>2
  <2>4. ScanStartTag(i + 1).end = End(m)
    <3>1. PICK p \in {i, i + 1} : p = i + 1
      OBVIOUS
    <3>2. \/ /\ ScanStartTag(p).end = NoPos
             /\ \A e \in i .. Len(buf) : ~IsTag(buf, i, e)
          \/ \E n \in p + 1 .. Len(buf) :
               /\ ScanStartTag(p).end = n
               /\ \A e \in i .. Len(buf) : IsTag(buf, i, e) => e = n
      <4>1. /\ i \in Nat \ {0} /\ i <= Len(buf) /\ buf[i] = "<"
            /\ p \in {i, i + 1} /\ p <= Len(buf) /\ (p = i + 1 => buf[p] = "/")
        BY <1>1, <2>1, <2>2, <3>1
      <4> HIDE DEF i
      <4>2. QED
        BY <4>1, TagIs
    <3>3. End(m) \in i .. Len(buf)
      BY <1>1
    <3>4. QED
      BY <2>1, <3>1, <3>2, <3>3
  <2>5. NameAt(Lt + 2) = <<doc.toks[m].name>>
    <3>1. (Lt + 2) + 1 = Lt + 3
      BY <1>1
    <3>2. QED
      BY <2>1, <3>1 DEF NameAt
  <2>6. QED
    BY <1>4, <1>5, <1>6, <2>3, <2>4, <2>5
<1>7. CASE Kind(m) \in {"start", "empty"}
  <2>1. /\ IsTag(buf, i, End(m)) /\ IsNameStart(buf[i + 1])
        /\ EndTagName(buf, Lt + 2) = <<doc.toks[m].name>>
        /\ Kind(m) = "empty" <=> buf[End(m) - 1] = "/"
    BY <1>7, TokenIs DEF IsStart
  <2>2. buf[i] = "<" /\ i < End(m) /\ i + 1 <= Len(buf)
    BY <1>1, <2>1 DEF IsTag
  <2>3. IsStartTag /\ ~IsEndTag
    BY <1>1, <1>3, <1>4, <2>1, <2>2
  <2>4. ScanStartTag(i).end = End(m) /\ (ScanStartTag(i).slash <=> buf[End(m) - 1] = "/")
    <3>1. PICK p \in {i, i + 1} : p = i
      OBVIOUS
    <3>2. p # i + 1 /\ p <= Len(buf)
      BY <1>1, <3>1
    <3>3. \/ /\ ScanStartTag(p).end = NoPos
             /\ \A e \in i .. Len(buf) : ~IsTag(buf, i, e)
          \/ \E n \in p + 1 .. Len(buf) :
               /\ ScanStartTag(p).end = n
               /\ \A e \in i .. Len(buf) : IsTag(buf, i, e) => e = n
               /\ p = i => (ScanStartTag(p).slash <=> buf[n - 1] = "/")
      BY <1>1, <2>2, <3>2, TagIs
    <3>4. End(m) \in i .. Len(buf)
      BY <1>1
    <3>5. QED
      BY <2>1, <3>1, <3>3, <3>4
  <2>5. NameAt(Lt + 1) = <<doc.toks[m].name>>
    <3>1. (Lt + 1) + 1 = Lt + 2
      BY <1>1
    <3>2. QED
      BY <2>1, <3>1 DEF NameAt
  <2>6. QED
    BY <1>5, <1>7, <2>1, <2>3, <2>4, <2>5
<1>8. CASE Kind(m) \in {"misc", "cdata"}
  <2>1. buf[Lt + 2] \in {"!", "?"}
    BY <1>8, SpansAtToken
  <2>2. QED
    BY <1>2, <1>3, <1>8, <2>1, NoNameStart
<1>9. CASE Kind(m) = "broken"
  <2>1. buf[i] = "<" /\ \A x \in i .. Len(buf) : ~IsEnd(buf, i, x) /\ ~IsStart(buf, i, x)
    BY <1>9, TokenIs
  <2>2. ASSUME IsEndTag PROVE ScanStartTag(i + 1).end = NoPos
    <3>1. PICK p \in {i, i + 1} : p = i + 1
      OBVIOUS
    <3>2. i + 1 <= Len(buf) /\ buf[i + 1] = "/"
      BY <1>1, <1>2, <2>2
    <3>3. \/ ScanStartTag(p).end = NoPos
          \/ \E n \in p + 1 .. Len(buf) : IsTag(buf, i, n)
      BY <1>1, <2>1, <3>1, <3>2, TagIs, SMTT(30)
    <3>4. ASSUME NEW n \in p + 1 .. Len(buf), IsTag(buf, i, n) PROVE FALSE
      <4>1. n \in i .. Len(buf)
        BY <1>1, <3>1, <3>4, SMTT(30)
      <4>2. IsEnd(buf, i, n)
        BY <3>2, <3>4, Zenon DEF IsEnd
      <4>3. QED
        BY <2>1, <4>1, <4>2
    <3>5. QED
      BY <3>1, <3>3, <3>4
  <2>3. ASSUME IsStartTag PROVE ScanStartTag(i).end = NoPos
    <3>1. PICK p \in {i, i + 1} : p = i
      OBVIOUS
    <3>2. i + 1 <= Len(buf) /\ IsNameStart(buf[i + 1]) /\ p # i + 1
      BY <1>1, <1>3, <2>3, <3>1, SMTT(30)
    <3>3. \/ ScanStartTag(p).end = NoPos
          \/ \E n \in p + 1 .. Len(buf) : IsTag(buf, i, n)
      BY <1>1, <2>1, <3>1, <3>2, TagIs, SMTT(30)
    <3>4. ASSUME NEW n \in p + 1 .. Len(buf), IsTag(buf, i, n) PROVE FALSE
      <4>1. IsStart(buf, i, n) /\ n \in i .. Len(buf)
        BY <1>1, <3>1, <3>2, <3>4 DEF IsStart
      <4>2. QED
        BY <2>1, <4>1
    <3>5. QED
      BY <3>1, <3>3, <3>4
  <2>4. QED
    BY <1>4, <1>5, <1>9, <2>2, <2>3
<1>10. CASE Kind(m) \in {"space", "text"}
  BY <1>10
<1>11. QED
  BY <1>6, <1>7, <1>8, <1>9, <1>10, TokenAt

\* The attributes that the scan parses on its way are those of the token.
LEMMA AttrsAtToken ==
  ASSUME doc \in Docs, NEW m \in 1 .. Len(doc.toks), Lt = Begin(m),
         Kind(m) \in {"start", "empty"}
  PROVE  /\ AttrsOk(DescentAttrs) <=> doc.toks[m].attrs # "bad"
         /\ AttrsOk(DescentAttrs) => (AttrsDeclare(DescentAttrs) <=> doc.toks[m].attrs = "xmlns")
<1>1. /\ Lt \in Nat /\ End(m) \in Nat /\ Lt < End(m) /\ End(m) <= Len(buf) /\ Len(buf) \in Nat
      /\ buf \in Seq(Symbols)
  BY TokenAt
<1>2. IsTag(buf, Lt + 1, End(m)) /\ doc.toks[m].attrs = AttrsOf(buf, Lt + 1, End(m))
  BY TokenIs DEF IsStart
<1>3. PICK i \in Nat \ {0}, j \in 1 .. Len(buf) : i = Lt + 1 /\ j = End(m) /\ i + 1 = Lt + 2
  BY <1>1
<1>4. ScanAttrs(SubSeq(buf, 1, j), NameEnd(buf, i + 1), Malformed)
        = ScanAttrs(buf, NameEnd(buf, i + 1), Malformed)
  BY <1>1, <1>2, <1>3, AttrsOfTag
<1>5. ScanAttrs(SubSeq(buf, 1, j), NameEnd(buf, i + 1), Malformed) = DescentAttrs
  BY <1>3, <1>4 DEF DescentAttrs
<1>6. AttrsOf(buf, i, j) = IF ~AttrsOk(DescentAttrs) THEN "bad"
                           ELSE IF AttrsDeclare(DescentAttrs) THEN "xmlns" ELSE "none"
  BY <1>5 DEF AttrsOf
<1>7. QED
  BY <1>2, <1>3, <1>6

-------------------------------------------------------------------------------
(***************************************************************************)
(* What is between two tokens of markup.                                   *)
(***************************************************************************)
CharacterData == {"space", "text"}

\* What holds of every byte of some tokens in a row holds of every byte from where
\* the first begins to where the last ends.
LEMMA BytesOfTokens ==
  ASSUME doc \in Docs, NEW k \in 0 .. Len(doc.toks), NEW z \in k + 1 .. Len(doc.toks) + 1,
         NEW B, \A j \in k + 1 .. z - 1 : \A x \in Begin(j) + 1 .. End(j) : buf[x] \in B
  PROVE  \A x \in Begin(k + 1) + 1 .. Begin(z) : buf[x] \in B
<1> DEFINE G == {y \in k + 1 .. z : \A x \in Begin(k + 1) + 1 .. Begin(y) : buf[x] \in B}
<1>1. Len(doc.toks) \in Nat /\ k \in Nat /\ z \in Nat /\ k + 1 \in Nat
  BY DocumentTypes
<1>2. k + 1 \in G
  <2>1. Begin(k + 1) \in Nat
    <3>1. k + 1 \in 1 .. Len(doc.toks) + 1
      BY <1>1
    <3>2. QED
      BY <3>1, TokenPlaces DEF Begin
  <2>2. QED
    BY <1>1, <2>1
<1>3. \A y \in k + 1 .. z - 1 : y \in G => y + 1 \in G
  <2> SUFFICES ASSUME NEW y \in k + 1 .. z - 1, y \in G PROVE y + 1 \in G
    OBVIOUS
  <2>1. y \in 1 .. Len(doc.toks) /\ y + 1 \in k + 1 .. z
    BY <1>1
  <2>2. Begin(y) \in Nat /\ End(y) \in Nat /\ End(y) = Begin(y + 1)
    BY <2>1, TokenAt DEF Begin, End
  <2>3. Begin(k + 1) \in Nat
    <3>1. k + 1 \in 1 .. Len(doc.toks) + 1
      BY <1>1
    <3>2. QED
      BY <3>1, TokenPlaces DEF Begin
  <2>4. ASSUME NEW x \in Begin(k + 1) + 1 .. Begin(y + 1) PROVE buf[x] \in B
    <3>1. x \in Begin(k + 1) + 1 .. Begin(y) \/ x \in Begin(y) + 1 .. End(y)
      BY <2>2, <2>3
    <3>2. QED
      BY <3>1
  <2>5. QED
    BY <2>1, <2>4
<1> HIDE DEF G
<1>4. \A y \in k + 1 .. z : y \in G
  BY <1>1, <1>2, <1>3, Forwards
<1>5. z \in k + 1 .. z
  BY <1>1
<1>6. QED
  BY <1>4, <1>5 DEF G

\* The scan stops at the next token of markup.
LEMMA NextMarkup ==
  ASSUME doc \in Docs, NEW k \in 0 .. Len(doc.toks), pos = Begin(k + 1)
  PROVE  \/ /\ Lt = NoPos
            /\ \A j \in k + 1 .. Len(doc.toks) : Kind(j) \in CharacterData
         \/ \E m \in k + 1 .. Len(doc.toks) :
              /\ Lt = Begin(m)
              /\ Kind(m) \notin CharacterData
              /\ \A j \in k + 1 .. m - 1 : Kind(j) \in CharacterData
<1> DEFINE n == Len(doc.toks)
           T == {j \in k + 1 .. n : Kind(j) \notin CharacterData}
           Rests == Symbols \ {"<"}
<1>1. n \in Nat /\ k \in Nat /\ Len(buf) \in Nat /\ buf \in Seq(Symbols)
  BY DocumentTypes, DocFacts
<1>2. pos \in Nat
  <2>1. k + 1 \in 1 .. n + 1
    BY <1>1
  <2>2. QED
    BY <2>1, TokenPlaces DEF Begin
<1>3. ASSUME NEW z \in k + 1 .. n + 1, \A j \in k + 1 .. z - 1 : Kind(j) \in CharacterData
      PROVE  \A x \in pos + 1 .. Begin(z) : buf[x] # "<"
  <2>1. ASSUME NEW j \in k + 1 .. z - 1, NEW x \in Begin(j) + 1 .. End(j)
        PROVE  buf[x] \in Rests
    <3>1. j \in 1 .. n
      BY <1>1
    <3>2. buf[x] # "<"
      BY <1>3, <3>1, MarkupBegins DEF CharacterData
    <3>3. x \in 1 .. Len(buf)
      <4>1. Begin(j) \in Nat /\ End(j) \in Nat /\ End(j) <= Len(buf)
        BY <3>1, TokenAt
      <4>2. QED
        BY <1>1, <4>1
    <3>4. QED
      BY <1>1, <3>2, <3>3, ElementOfSeq
  <2> HIDE DEF Rests
  <2>2. \A x \in Begin(k + 1) + 1 .. Begin(z) : buf[x] \in Rests
    BY <2>1, BytesOfTokens
  <2>3. QED
    BY <2>2 DEF Rests
<1>4. \/ Lt = NoPos /\ \A i \in pos .. Len(buf) - 1 : buf[i + 1] # "<"
      \/ /\ Lt \in pos .. Len(buf) - 1 /\ buf[Lt + 1] = "<"
         /\ \A i \in pos .. Lt - 1 : buf[i + 1] # "<"
  <2>1. Next1(pos, {"<"}) = NoPos => \A i \in pos .. Len(buf) - 1 : buf[i + 1] \notin {"<"}
    BY <1>2, NoNext1
  <2>2. \/ Next1(pos, {"<"}) = NoPos
        \/ /\ Next1(pos, {"<"}) \in pos .. Len(buf) - 1
           /\ buf[Next1(pos, {"<"}) + 1] \in {"<"}
           /\ \A i \in pos .. Next1(pos, {"<"}) - 1 : buf[i + 1] \notin {"<"}
    BY <1>2, Next1Facts
  <2>3. QED
    BY <2>1, <2>2 DEF Lt
<1>5. CASE T = {}
  <2>1. \A j \in k + 1 .. n : Kind(j) \in CharacterData
    BY <1>5
  <2>2. n + 1 \in k + 1 .. n + 1 /\ n + 1 - 1 = n
    BY <1>1
  <2>3. Begin(n + 1) = Len(buf)
    BY TokenPlaces DEF Begin, buf, Input
  <2>4. \A x \in pos + 1 .. Len(buf) : buf[x] # "<"
    BY <1>3, <2>1, <2>2, <2>3
  <2>5. Lt = NoPos
    <3>1. SUFFICES ASSUME Lt # NoPos PROVE FALSE
      OBVIOUS
    <3>2. PICK l \in pos .. Len(buf) - 1 : l = Lt /\ buf[l + 1] = "<"
      BY <1>4, <3>1
    <3>3. l + 1 \in pos + 1 .. Len(buf)
      BY <1>1, <1>2
    <3>4. QED
      BY <2>4, <3>2, <3>3
  <2>6. QED
    BY <2>1, <2>5
<1>6. CASE T # {}
  <2>1. T \subseteq Nat
    BY <1>1
  <2>2. PICK m \in T : \A y \in T : m <= y
    BY <1>6, <2>1, MinIsLeast
  <2>3. m \in k + 1 .. n /\ m \in 1 .. n /\ Kind(m) \notin CharacterData
    BY <1>1, <2>2
  <2>4. \A j \in k + 1 .. m - 1 : Kind(j) \in CharacterData
    <3> SUFFICES ASSUME NEW j \in k + 1 .. m - 1, Kind(j) \notin CharacterData PROVE FALSE
      OBVIOUS
    <3>1. j \in k + 1 .. n /\ ~(m <= j)
      BY <1>1, <2>3
    <3>2. QED
      BY <2>2, <3>1
  <2>5. \A x \in pos + 1 .. Begin(m) : buf[x] # "<"
    <3>1. m \in k + 1 .. n + 1
      BY <1>1, <2>3
    <3>2. QED
      BY <1>3, <2>4, <3>1
  <2>6. Begin(m) \in Nat /\ Begin(m) < Len(buf) /\ pos <= Begin(m)
    <3>1. Begin(m) \in Nat /\ End(m) \in Nat /\ Begin(m) < End(m) /\ End(m) <= Len(buf)
      BY <2>3, TokenAt
    <3>2. Begin(k + 1) <= Begin(m)
      <4>1. k + 1 \in 1 .. n + 1 /\ m \in k + 1 .. n + 1
        BY <1>1, <2>3
      <4>2. PICK a \in 1 .. n + 1 : a = k + 1
        BY <4>1
      <4>3. QED
        BY <4>1, <4>2, TokensInOrder DEF Begin
    <3>3. QED
      BY <1>1, <3>1, <3>2
  <2>7. buf[Begin(m) + 1] = "<"
    BY <2>3, MarkupBegins DEF CharacterData
  <2>8. Lt # NoPos
    <3>1. Begin(m) \in pos .. Len(buf) - 1
      BY <1>1, <1>2, <2>6
    <3>2. QED
      BY <1>1, <1>2, <1>4, <2>7, <3>1 DEF NoPos
  <2>9. PICK l \in pos .. Len(buf) - 1 :
          l = Lt /\ buf[l + 1] = "<" /\ \A i \in pos .. l - 1 : buf[i + 1] # "<"
    BY <1>4, <2>8
  <2>10. ~(l < Begin(m))
    <3>1. l < Begin(m) => l + 1 \in pos + 1 .. Begin(m)
      BY <1>1, <1>2, <2>6
    <3>2. QED
      BY <2>5, <2>9, <3>1
  <2>11. ~(Begin(m) < l)
    <3>1. Begin(m) < l => Begin(m) \in pos .. l - 1
      BY <1>1, <1>2, <2>6
    <3>2. QED
      BY <2>7, <2>9, <3>1
  <2>12. Lt = Begin(m)
    BY <1>1, <1>2, <2>6, <2>9, <2>10, <2>11
  <2>13. QED
    BY <2>3, <2>4, <2>12
<1>7. QED
  BY <1>5, <1>6

\* There is only whitespace up to a token if all tokens in between are whitespace.
LEMMA OnlySpace ==
  ASSUME doc \in Docs, NEW k \in 0 .. Len(doc.toks), pos = Begin(k + 1),
         NEW m \in k + 1 .. Len(doc.toks) + 1,
         \A j \in k + 1 .. m - 1 : Kind(j) \in CharacterData
  PROVE  (\A x \in pos + 1 .. Begin(m) : IsWs(buf[x])) <=> \A j \in k + 1 .. m - 1 : Kind(j) = "space"
<1> DEFINE n == Len(doc.toks)
<1>1. n \in Nat /\ k \in Nat
  BY DocumentTypes
<1>2. ASSUME \A j \in k + 1 .. m - 1 : Kind(j) = "space"
      PROVE  \A x \in pos + 1 .. Begin(m) : IsWs(buf[x])
  <2>1. ASSUME NEW j \in k + 1 .. m - 1, NEW x \in Begin(j) + 1 .. End(j)
        PROVE  buf[x] \in {"ws"}
    <3>1. j \in 1 .. n
      BY <1>1
    <3>2. IsWs(buf[x])
      BY <1>2, <3>1, TokenIs
    <3>3. QED
      BY <3>2 DEF IsWs
  <2>2. \A x \in Begin(k + 1) + 1 .. Begin(m) : buf[x] \in {"ws"}
    BY <2>1, BytesOfTokens
  <2>3. QED
    BY <2>2 DEF IsWs
<1>3. ASSUME NEW j \in k + 1 .. m - 1, Kind(j) # "space",
             \A x \in pos + 1 .. Begin(m) : IsWs(buf[x])
      PROVE  FALSE
  <2>1. j \in 1 .. n /\ j \in k + 1 .. n + 1 /\ j + 1 \in k + 1 .. n + 1 /\ m \in j + 1 .. n + 1
        /\ k + 1 \in 1 .. n + 1 /\ j + 1 \in 1 .. n + 1
    BY <1>1
  <2>2. Kind(j) = "text"
    BY <1>3 DEF CharacterData
  <2>3. PICK x \in Begin(j) + 1 .. End(j) : ~IsWs(buf[x])
    BY <2>1, <2>2, TokenIs
  <2>4. Begin(k + 1) \in Nat /\ Begin(k + 1) <= Begin(j)
    BY <2>1, TokenPlaces, TokensInOrder DEF Begin
  <2>5. End(j) <= Begin(m)
    BY <2>1, TokensInOrder DEF Begin, End
  <2>6. Begin(j) \in Nat /\ End(j) \in Nat /\ Begin(m) \in Nat
    <3>1. m \in 1 .. n + 1
      BY <1>1
    <3>2. QED
      BY <2>1, <3>1, TokenAt, TokenPlaces DEF Begin
  <2>7. x \in pos + 1 .. Begin(m)
    BY <2>4, <2>5, <2>6
  <2>8. QED
    BY <1>3, <2>3, <2>7
<1>4. QED
  BY <1>2, <1>3

-------------------------------------------------------------------------------
(***************************************************************************)
(* Which documents are not accepted.                                       *)
(***************************************************************************)

\* An illegal token inside the root, or no end of the root at all.
LEMMA NotAcceptable ==
  ASSUME doc \in Docs, phase # "trailing",
         \/ \E x \in 1 .. Len(doc.toks) :
              ~Legal(doc, x) /\ \A j \in 1 .. x - 1 : ~ClosesRoot(doc, j)
         \/ \A j \in 1 .. Len(doc.toks) : ~ClosesRoot(doc, j)
  PROVE  ~Acceptable
<1>1. Len(doc.toks) \in Nat /\ DOMAIN doc.toks = 1 .. Len(doc.toks)
  BY DocumentTypes
<1>2. ~SelfClosingRoot
  BY DEF SelfClosingRoot
<1>3. ASSUME NEW c \in 1 .. Len(doc.toks), Closes(doc, c) PROVE FALSE
  <2>1. ClosesRoot(doc, c) /\ \A j \in 1 .. c : Legal(doc, j)
    BY <1>3 DEF Closes
  <2>2. PICK x \in 1 .. Len(doc.toks) :
          ~Legal(doc, x) /\ \A j \in 1 .. x - 1 : ~ClosesRoot(doc, j)
    BY <2>1
  <2>3. x \in 1 .. c \/ c \in 1 .. x - 1
    BY <1>1
  <2>4. QED
    BY <2>1, <2>2, <2>3
<1>4. QED
  BY <1>1, <1>2, <1>3 DEF Acceptable

\* The root is closed once.
LEMMA OneClose ==
  ASSUME doc \in Docs, NEW a \in 1 .. Len(doc.toks), NEW b \in 1 .. Len(doc.toks),
         Closes(doc, a), Closes(doc, b)
  PROVE  a = b
<1>1. Len(doc.toks) \in Nat
  BY DocumentTypes
<1>2. a \in 1 .. b - 1 \/ b \in 1 .. a - 1 \/ a = b
  BY <1>1
<1>3. QED
  BY <1>2 DEF Closes

-------------------------------------------------------------------------------
(***************************************************************************)
(* Where the scan is among the elements, and what that says of the next    *)
(* token.                                                                  *)
(***************************************************************************)

\* The types, of the containers and of the elements that are open.
LEMMA PlaceTypes ==
  ASSUME ScannerInv, NEW k \in 0 .. Len(doc.toks)
  PROVE  /\ doc \in Docs /\ Len(doc.toks) \in Nat /\ k \in Nat
         /\ depth \in Nat /\ skipDepth \in Nat /\ Target \in Nat \ {0}
         /\ Container(doc) \in Seq(TagNames) /\ Len(Container(doc)) = Target
         /\ Container(doc)[1] = RootName
         /\ Open(doc, k) \in Seq(TagNames) /\ Len(Open(doc, k)) \in Nat
         /\ phase \in {"content", "subtree", "trailing"}
<1>1. /\ doc \in Docs /\ depth \in Nat /\ skipDepth \in Nat /\ Target \in Nat \ {0}
      /\ phase \in {"content", "subtree", "trailing"}
  BY StateFacts
<1>2. Container(doc) \in Seq(TagNames) /\ Len(Container(doc)) = Target /\ Container(doc)[1] = RootName
  BY <1>1, ContainerFacts DEF Target
<1>3. Len(doc.toks) \in Nat
  BY <1>1, DocumentTypes
<1>4. Open(doc, k) \in Seq(TagNames)
  BY <1>1, OpenUnfolds
<1>5. Len(Open(doc, k)) \in Nat
  BY <1>4
<1>6. QED
  BY <1>1, <1>2, <1>3, <1>4, <1>5

\* In a skipped subtree the scan is off the way; in an open record it is below the
\* container; else it is on the way.
LEMMA Place ==
  ASSUME ScannerInv, NEW k \in 0 .. Len(doc.toks), OnTheWay(k)
  PROVE  /\ phase = "subtree" =>
              /\ depth < Target /\ skipDepth > 0
              /\ depth + 1 <= Len(Open(doc, k))
              /\ Open(doc, k)[depth + 1] # Container(doc)[depth + 1]
              /\ ~IsPrefix(Open(doc, k), Container(doc))
         /\ phase # "subtree" => skipDepth = 0 /\ Len(Open(doc, k)) = depth
         /\ recordStart # NoPos =>
              /\ depth > Target /\ phase # "subtree"
              /\ ~IsPrefix(Open(doc, k), Container(doc))
         /\ phase # "subtree" /\ recordStart = NoPos =>
              /\ depth <= Target
              /\ IsPrefix(Open(doc, k), Container(doc))
              /\ Open(doc, k) = Container(doc) <=> depth = Target
         /\ phase = "subtree" \/ recordStart # NoPos => Open(doc, k) # Container(doc)
<1> DEFINE O == Open(doc, k)
           C == Container(doc)
<1>1. /\ depth \in Nat /\ skipDepth \in Nat /\ Target \in Nat \ {0}
      /\ C \in Seq(TagNames) /\ Len(C) = Target /\ O \in Seq(TagNames) /\ Len(O) \in Nat
  BY PlaceTypes
<1>2. /\ recordStart # NoPos <=> depth > Target
      /\ phase = "subtree" <=> skipDepth > 0
      /\ phase = "subtree" => depth < Target
  BY DEF ScannerInv, CountersAgree
<1>3. /\ depth >= 1 /\ Len(O) = depth + skipDepth
      /\ \A i \in 1 .. Target : i <= depth => O[i] = C[i]
      /\ phase = "subtree" => O[depth + 1] # C[depth + 1]
  BY <1>1 DEF OnTheWay
<1>4. IsPrefix(O, C) <=> Len(O) <= Len(C) /\ \A i \in 1 .. Len(O) : O[i] = C[i]
  BY <1>1, PrefixIff
<1>5. O = C => IsPrefix(O, C)
  BY <1>1, <1>4
<1> HIDE DEF O, C
<1>6. CASE phase = "subtree"
  <2>1. depth < Target /\ skipDepth > 0 /\ depth + 1 <= Len(O) /\ depth + 1 \in 1 .. Len(O)
    BY <1>1, <1>2, <1>3, <1>6
  <2>2. ~IsPrefix(O, C)
    BY <1>3, <1>4, <1>6, <2>1
  <2>3. ~(depth > Target) /\ recordStart = NoPos
    BY <1>1, <1>2, <2>1
  <2>4. QED
    BY <1>3, <1>5, <1>6, <2>1, <2>2, <2>3 DEF O, C
<1>7. CASE phase # "subtree" /\ recordStart # NoPos
  <2>1. skipDepth = 0 /\ Len(O) = depth /\ depth > Target /\ ~(Len(O) <= Len(C))
    BY <1>1, <1>2, <1>3, <1>7
  <2>2. QED
    BY <1>4, <1>5, <1>7, <2>1 DEF O, C
<1>8. CASE phase # "subtree" /\ recordStart = NoPos
  <2>1. skipDepth = 0 /\ Len(O) = depth /\ depth <= Target
    BY <1>1, <1>2, <1>3, <1>8
  <2>2. \A i \in 1 .. depth : O[i] = C[i]
    BY <1>1, <1>3, <2>1
  <2>3. IsPrefix(O, C)
    BY <1>1, <1>4, <2>1, <2>2
  <2>4. O = C => depth = Target
    BY <1>1, <2>1
  <2>5. depth = Target => O = C
    BY <1>1, <2>1, <2>2
  <2>6. QED
    BY <1>8, <2>1, <2>3, <2>4, <2>5 DEF O, C
<1>9. QED
  BY <1>6, <1>7, <1>8

\* A legal token that is no tag changes nothing.
LEMMA QuietStep ==
  ASSUME ScannerInv, NEW j \in 1 .. Len(doc.toks), Inside(j - 1), Legal(doc, j),
         Kind(j) \notin {"start", "end", "empty"}
  PROVE  Inside(j)
<1>1. doc \in Docs /\ Len(doc.toks) \in Nat
  BY StateFacts, DocumentTypes
<1>2. /\ Open(doc, j) = Open(doc, j - 1)
      /\ ~BeginsRecord(doc, j) /\ ~EndsRecord(doc, j) /\ ~ClosesRoot(doc, j) /\ ~Descends(doc, j)
      /\ RecordsUpTo(doc, j) = RecordsUpTo(doc, j - 1)
  BY <1>1, NoTagNoChange DEF Kind
<1>3. \A i \in 1 .. j : i \in 1 .. j - 1 \/ i = j
  BY <1>1
<1>4. \A i \in 1 .. j : Legal(doc, i) /\ ~ClosesRoot(doc, i)
  BY <1>2, <1>3 DEF Inside
<1>5. OnTheWay(j)
  BY <1>2 DEF Inside, OnTheWay
<1>6. OpenRecordIs(j)
  <2>1. SUFFICES ASSUME recordStart # NoPos
                 PROVE  \E first \in 1 .. j :
                          /\ BeginsRecord(doc, first)
                          /\ recordStart = TokenStart(doc, first)
                          /\ \A i \in first + 1 .. j : ~BeginsRecord(doc, i)
    BY DEF OpenRecordIs
  <2>2. PICK first \in 1 .. j - 1 :
           /\ BeginsRecord(doc, first)
           /\ recordStart = TokenStart(doc, first)
           /\ \A i \in first + 1 .. j - 1 : ~BeginsRecord(doc, i)
    BY <2>1 DEF Inside, OpenRecordIs
  <2>3. first \in 1 .. j /\ \A i \in first + 1 .. j : i \in first + 1 .. j - 1 \/ i = j
    BY <1>1
  <2>4. QED
    BY <1>2, <2>2, <2>3
<1>7. DeclaredAt(j) = DeclaredAt(j - 1)
  <2>1. \A i \in 1 .. j - 1 : i \in 1 .. j
    BY <1>1
  <2>2. QED
    BY <1>2, <1>3, <2>1 DEF DeclaredAt
<1>8. FoundUpTo(j)
  BY <1>2, <1>7 DEF Inside, FoundUpTo
<1>9. QED
  BY <1>4, <1>5, <1>6, <1>8 DEF Inside

\* Character data is passed where it is legal.
LEMMA PassText ==
  ASSUME ScannerInv, NEW k \in 0 .. Len(doc.toks), Inside(k),
         NEW m \in k + 1 .. Len(doc.toks) + 1,
         \A j \in k + 1 .. m - 1 :
            /\ Kind(j) \in CharacterData
            /\ Kind(j) = "text" => phase = "subtree" \/ recordStart # NoPos
  PROVE  Inside(m - 1)
<1> DEFINE G == {j \in k .. m - 1 : Inside(j)}
<1>1. doc \in Docs /\ Len(doc.toks) \in Nat /\ k \in Nat /\ m - 1 \in Nat
  BY StateFacts, DocumentTypes
<1>2. k \in G
  BY <1>1
<1>3. ASSUME NEW j \in k .. m - 1 - 1, j \in G PROVE j + 1 \in G
  <2>1. j + 1 \in 1 .. Len(doc.toks) /\ j + 1 \in k + 1 .. m - 1 /\ j + 1 \in k .. m - 1
        /\ j \in 0 .. Len(doc.toks)
    BY <1>1
  <2>2. PICK x \in 1 .. Len(doc.toks) : x = j + 1 /\ x - 1 = j
    BY <1>1, <2>1
  <2>3. Inside(x - 1) /\ OnTheWay(j) /\ Kind(x) \in CharacterData
    BY <1>3, <2>1, <2>2 DEF Inside
  <2>4. Legal(doc, x)
    <3>1. CASE Kind(x) = "space"
      BY <1>1, <3>1, LegalIs DEF Kind
    <3>2. CASE Kind(x) = "text"
      <4>1. phase = "subtree" \/ recordStart # NoPos
        BY <2>1, <2>2, <3>2
      <4>2. ~IsPrefix(Open(doc, j), Container(doc))
        BY <2>1, <2>3, <4>1, Place
      <4>3. QED
        BY <1>1, <2>2, <3>2, <4>2, LegalIs DEF Kind
    <3>3. QED
      BY <2>3, <3>1, <3>2 DEF CharacterData
  <2>5. Inside(x)
    BY <2>3, <2>4, QuietStep DEF CharacterData
  <2>6. QED
    BY <2>1, <2>2, <2>5
<1> HIDE DEF G
<1>4. \A j \in k .. m - 1 : j \in G
  <2>1. PICK z \in Nat : z = m - 1
    BY <1>1
  <2>2. \A j \in k .. z - 1 : j \in G => j + 1 \in G
    BY <1>3, <2>1
  <2>3. \A j \in k .. z : j \in G
    BY <1>1, <1>2, <2>2, Forwards
  <2>4. QED
    BY <2>1, <2>3
<1>5. m - 1 \in k .. m - 1
  BY <1>1
<1>6. QED
  BY <1>4, <1>5 DEF G

\* The `<` at which an iteration stops begins a token of markup, and all before it
\* is legal.
LEMMA AtMarkup ==
  ASSUME ScannerInv, NEW k \in 0 .. Len(doc.toks), pos = Begin(k + 1), Inside(k), AtLt
  PROVE  \E m \in 1 .. Len(doc.toks) :
            Lt = Begin(m) /\ Kind(m) \notin CharacterData /\ Inside(m - 1)
<1>1. doc \in Docs /\ Len(doc.toks) \in Nat /\ k \in Nat /\ Lt # NoPos
  BY StateFacts, DocumentTypes DEF AtLt
<1>2. PICK m \in k + 1 .. Len(doc.toks) :
         /\ Lt = Begin(m)
         /\ Kind(m) \notin CharacterData
         /\ \A j \in k + 1 .. m - 1 : Kind(j) \in CharacterData
  BY <1>1, NextMarkup
<1>3. m \in 1 .. Len(doc.toks) /\ m \in k + 1 .. Len(doc.toks) + 1
  BY <1>1
<1>4. \A j \in k + 1 .. m - 1 : Kind(j) = "text" => phase = "subtree" \/ recordStart # NoPos
  <2> SUFFICES ASSUME ~(phase = "subtree" \/ recordStart # NoPos)
               PROVE  \A j \in k + 1 .. m - 1 : Kind(j) = "space"
    BY Zenon
  <2>1. \A p \in pos .. Lt - 1 : IsWs(buf[p + 1])
    BY DEF AtLt, TextOk
  <2>2. ASSUME NEW x \in pos + 1 .. Begin(m) PROVE IsWs(buf[x])
    <3>1. Begin(m) \in Nat /\ pos \in Nat
      BY <1>1, <1>3, TokenAt, StateFacts
    <3>2. PICK p \in pos .. Lt - 1 : p + 1 = x
      <4>1. x - 1 \in pos .. Lt - 1 /\ (x - 1) + 1 = x
        BY <1>2, <3>1
      <4>2. QED
        BY <4>1
    <3>3. QED
      BY <2>1, <3>2
  <2>3. QED
    BY <1>1, <1>2, <1>3, <2>2, OnlySpace
<1>5. Inside(m - 1)
  BY <1>2, <1>3, <1>4, PassText
<1>6. QED
  BY <1>2, <1>3, <1>5

\* What the scan does not frame is no document.
LEMMA UnframedIsRight ==
  ASSUME ScannerInv, NEW k \in 0 .. Len(doc.toks), pos = Begin(k + 1), Inside(k), Unframed
  PROVE  ~Acceptable
<1> DEFINE n == Len(doc.toks)
<1>1. doc \in Docs /\ n \in Nat /\ k \in Nat
  BY StateFacts, DocumentTypes
<1>2. Scanning /\ phase \in {"content", "subtree"} /\ phase # "trailing"
  BY DEF Unframed, Scanning
<1>3. \A j \in 1 .. k : ~ClosesRoot(doc, j)
  BY DEF Inside
<1>4. CASE Lt = NoPos
  <2>1. \A j \in k + 1 .. n : Kind(j) \in CharacterData
    <3>1. \A m \in 1 .. n : Begin(m) \in Nat
      BY <1>1, TokenAt
    <3>2. \A m \in k + 1 .. n : m \in 1 .. n
      BY <1>1
    <3>3. \A m \in k + 1 .. n : Begin(m) # NoPos
      BY <3>1, <3>2 DEF NoPos
    <3>4. QED
      BY <1>1, <1>4, <3>3, NextMarkup
  <2>2. ASSUME NEW j \in 1 .. n PROVE ~ClosesRoot(doc, j)
    <3>1. j \in 1 .. k \/ j \in k + 1 .. n
      BY <1>1
    <3>2. QED
      BY <1>1, <1>3, <2>1, <3>1, NoTagNoChange DEF CharacterData, Kind
  <2>3. QED
    BY <1>1, <1>2, <2>2, NotAcceptable
<1>5. CASE Lt # NoPos /\ ~TextOk
  <2>1. PICK m \in k + 1 .. n :
         /\ Lt = Begin(m)
         /\ \A j \in k + 1 .. m - 1 : Kind(j) \in CharacterData
    BY <1>1, <1>5, NextMarkup
  <2>2. m \in 1 .. n /\ m \in k + 1 .. n + 1 /\ m \in Nat
    BY <1>1
  <2>3. phase = "content" /\ recordStart = NoPos
    BY <1>2, <1>5 DEF TextOk
  <2>4. ~ \A x \in pos + 1 .. Begin(m) : IsWs(buf[x])
    <3>1. PICK p \in pos .. Lt - 1 : ~IsWs(buf[p + 1])
      BY <1>5 DEF TextOk
    <3>2. Begin(m) \in Nat /\ pos \in Nat
      BY <1>1, <2>2, TokenAt, StateFacts
    <3>3. p + 1 \in pos + 1 .. Begin(m)
      BY <2>1, <3>2
    <3>4. QED
      BY <3>1, <3>3
  <2>5. PICK t \in k + 1 .. m - 1 : Kind(t) # "space"
    BY <1>1, <2>1, <2>2, <2>4, OnlySpace
  <2>6. DEFINE T == {j \in k + 1 .. m - 1 : Kind(j) # "space"}
  <2>7. PICK x \in T : \A y \in T : x <= y
    <3>1. T \subseteq Nat /\ T # {}
      BY <1>1, <2>2, <2>5
    <3>2. QED
      BY <3>1, MinIsLeast
  <2>8. x \in k + 1 .. m - 1 /\ x \in 1 .. n /\ x - 1 \in 0 .. n /\ x \in k + 1 .. n + 1 /\ Kind(x) = "text"
    BY <1>1, <2>1, <2>2, <2>7 DEF CharacterData
  <2>9. ASSUME NEW j \in k + 1 .. x - 1 PROVE Kind(j) = "space"
    <3>1. j \in k + 1 .. m - 1 /\ ~(x <= j)
      BY <1>1, <2>2, <2>8
    <3>2. QED
      BY <2>7, <3>1
  <2>10. Inside(x - 1)
    <3>1. \A j \in k + 1 .. x - 1 : Kind(j) \in CharacterData /\ Kind(j) # "text"
      BY <2>9 DEF CharacterData
    <3>2. QED
      BY <2>8, <3>1, PassText
  <2>11. IsPrefix(Open(doc, x - 1), Container(doc))
    <3>1. OnTheWay(x - 1)
      BY <2>10 DEF Inside
    <3>2. QED
      BY <2>3, <2>8, <3>1, Place
  <2>12. ~Legal(doc, x)
    BY <1>1, <2>8, <2>11, LegalIs DEF Kind
  <2>13. \A j \in 1 .. x - 1 : ~ClosesRoot(doc, j)
    BY <2>10 DEF Inside
  <2>14. QED
    BY <1>1, <1>2, <2>8, <2>12, <2>13, NotAcceptable
<1>6. CASE Lt # NoPos /\ TextOk
  <2>1. AtLt
    BY <1>2, <1>6 DEF AtLt
  <2>2. PICK m \in 1 .. n : Lt = Begin(m) /\ Kind(m) \notin CharacterData /\ Inside(m - 1)
    BY <2>1, AtMarkup
  <2>3. /\ \A s \in SpanAt(Lt) : SpanEnd(Lt, s) = NoPos
        /\ IsEndTag \/ IsStartTag => TagHere.end = NoPos
    BY <2>1 DEF Unframed
  <2>4. End(m) # NoPos
    <3>1. End(m) \in Nat
      BY <1>1, TokenAt
    <3>2. QED
      BY <3>1 DEF NoPos
  <2>5. Kind(m) \notin {"misc", "cdata"}
    BY <1>1, <2>2, <2>3, <2>4, SpansAtToken
  <2>6. Kind(m) \notin {"end", "start", "empty"}
    BY <1>1, <2>2, <2>3, <2>4, TagsAtToken
  <2>7. Kind(m) = "broken"
    BY <1>1, <2>2, <2>5, <2>6, TokenAt DEF CharacterData
  <2>8. ~Legal(doc, m)
    BY <1>1, <2>7, LegalIs DEF Kind
  <2>9. \A j \in 1 .. m - 1 : ~ClosesRoot(doc, j)
    BY <2>2 DEF Inside
  <2>10. QED
    BY <1>1, <1>2, <2>8, <2>9, NotAcceptable
<1>7. QED
  BY <1>4, <1>5, <1>6

\* A start tag, among the open elements.
LEMMA StartTagIs ==
  ASSUME ScannerInv, NEW m \in 1 .. Len(doc.toks), Kind(m) \in {"start", "empty"}
  PROVE  /\ Kind(m) = "start" =>
              /\ Len(Open(doc, m)) = Len(Open(doc, m - 1)) + 1
              /\ Open(doc, m)[Len(Open(doc, m - 1)) + 1] = doc.toks[m].name
              /\ \A i \in 1 .. Len(Open(doc, m - 1)) : Open(doc, m)[i] = Open(doc, m - 1)[i]
         /\ Kind(m) = "empty" => Open(doc, m) = Open(doc, m - 1)
         /\ ~ClosesRoot(doc, m)
         /\ BeginsRecord(doc, m) <=> Open(doc, m - 1) = Container(doc)
         /\ EndsRecord(doc, m) <=> Kind(m) = "empty" /\ Open(doc, m - 1) = Container(doc)
         /\ Descends(doc, m) <=>
              /\ IsPrefix(Open(doc, m - 1), Container(doc))
              /\ Len(Open(doc, m - 1)) < Target
              /\ Container(doc)[Len(Open(doc, m - 1)) + 1] = doc.toks[m].name
<1> DEFINE O == Open(doc, m - 1)
           C == Container(doc)
           name == doc.toks[m].name
<1>1. doc \in Docs
  BY StateFacts
<1>2. /\ doc.toks[m] \in AnyToken /\ O \in Seq(TagNames) /\ m - 1 \in 0 .. Len(doc.toks)
      /\ Open(doc, m) = OpenAfter(doc.toks[m], O)
  BY <1>1, OneToken
<1>3. C \in Seq(TagNames) /\ Len(C) = Target /\ Target \in Nat \ {0}
  BY <1>2, PlaceTypes
<1>4. /\ Kind(m) = "start" =>
           /\ Len(Open(doc, m)) = Len(O) + 1
           /\ Open(doc, m)[Len(O) + 1] = name
           /\ \A i \in 1 .. Len(O) : Open(doc, m)[i] = O[i]
      /\ Kind(m) = "empty" => Open(doc, m) = O
  <2>1. PICK token \in AnyToken, before \in Seq(TagNames) : token = doc.toks[m] /\ before = O
    BY <1>2
  <2>2. /\ token.kind = "start" =>
             /\ Len(OpenAfter(token, before)) = Len(before) + 1
             /\ OpenAfter(token, before)[Len(before) + 1] = token.name
             /\ \A i \in 1 .. Len(before) : OpenAfter(token, before)[i] = before[i]
        /\ token.kind = "empty" => OpenAfter(token, before) = before
    BY OpenAfterIs
  <2>3. QED
    BY <1>2, <2>1, <2>2, Zenon DEF Kind
<1>5. ~ClosesRoot(doc, m)
  BY DEF ClosesRoot, Kind
<1>6. BeginsRecord(doc, m) <=> O = C
  BY DEF BeginsRecord, Kind
<1>7. EndsRecord(doc, m) <=> Kind(m) = "empty" /\ O = C
  BY DEF EndsRecord, Kind
<1>8. Descends(doc, m) <=> IsPrefix(Append(O, name), C)
  BY DEF Descends, Kind
<1>9. name \in TagNames
  BY <1>2 DEF AnyToken, TagNames
<1> HIDE DEF O, C, name
<1>10. /\ Append(O, name) \in Seq(TagNames) /\ Len(Append(O, name)) = Len(O) + 1
       /\ \A i \in 1 .. Len(O) : Append(O, name)[i] = O[i]
       /\ Append(O, name)[Len(O) + 1] = name /\ Len(O) \in Nat
  BY <1>2, <1>9, AppendProperties, LenProperties
<1>11. IsPrefix(Append(O, name), C) <=>
         /\ Len(Append(O, name)) <= Len(C)
         /\ \A i \in 1 .. Len(Append(O, name)) : Append(O, name)[i] = C[i]
  <2>1. PICK w \in Seq(TagNames) : w = Append(O, name)
    BY <1>10
  <2>2. IsPrefix(w, C) <=> Len(w) <= Len(C) /\ \A i \in 1 .. Len(w) : w[i] = C[i]
    BY <1>3, PrefixIff
  <2>3. QED
    BY <2>1, <2>2
<1>12. IsPrefix(O, C) <=> Len(O) <= Len(C) /\ \A i \in 1 .. Len(O) : O[i] = C[i]
  BY <1>2, <1>3, PrefixIff
<1>13. (\A i \in 1 .. Len(O) + 1 : Append(O, name)[i] = C[i])
         <=> /\ \A i \in 1 .. Len(O) : O[i] = C[i]
             /\ C[Len(O) + 1] = name
  <2>1. \A i \in 1 .. Len(O) + 1 : i \in 1 .. Len(O) \/ i = Len(O) + 1
    BY <1>10
  <2>2. \A i \in 1 .. Len(O) : i \in 1 .. Len(O) + 1
    BY <1>10
  <2>3. Len(O) + 1 \in 1 .. Len(O) + 1
    BY <1>10
  <2>4. QED
    BY <1>10, <2>1, <2>2, <2>3
<1>14. /\ Len(Append(O, name)) <= Len(C) <=> Len(O) < Target
       /\ Len(O) < Target => Len(O) <= Len(C)
  BY <1>3, <1>10
<1>15. Descends(doc, m) <=> IsPrefix(O, C) /\ Len(O) < Target /\ C[Len(O) + 1] = name
  BY <1>8, <1>10, <1>11, <1>12, <1>13, <1>14
<1>16. QED
  BY <1>4, <1>5, <1>6, <1>7, <1>15 DEF O, C, name

\* An end tag, among the open elements.
LEMMA EndTagIs ==
  ASSUME ScannerInv, NEW m \in 1 .. Len(doc.toks), Kind(m) = "end",
         Len(Open(doc, m - 1)) >= 1
  PROVE  /\ Len(Open(doc, m)) = Len(Open(doc, m - 1)) - 1
         /\ \A i \in 1 .. Len(Open(doc, m - 1)) - 1 : Open(doc, m)[i] = Open(doc, m - 1)[i]
         /\ ClosesRoot(doc, m) <=> Len(Open(doc, m - 1)) = 1
         /\ ~BeginsRecord(doc, m) /\ ~Descends(doc, m)
         /\ EndsRecord(doc, m) <=>
              Open(doc, m) = Container(doc) /\ Open(doc, m - 1) # Container(doc)
<1>1. doc \in Docs
  BY StateFacts
<1>2. /\ doc.toks[m] \in AnyToken /\ Open(doc, m - 1) \in Seq(TagNames)
      /\ Open(doc, m) \in Seq(TagNames)
      /\ Open(doc, m) = OpenAfter(doc.toks[m], Open(doc, m - 1))
  BY <1>1, OneToken
<1>3. Open(doc, m - 1) # <<>>
  <2>1. Open(doc, m - 1) = <<>> => Len(Open(doc, m - 1)) = 0
    BY Zenon, EmptySeq
  <2>2. QED
    BY <2>1
<1>4. /\ Len(Open(doc, m)) = Len(Open(doc, m - 1)) - 1
      /\ \A i \in 1 .. Len(Open(doc, m - 1)) - 1 : Open(doc, m)[i] = Open(doc, m - 1)[i]
  <2>1. PICK token \in AnyToken, before \in Seq(TagNames) :
           token = doc.toks[m] /\ before = Open(doc, m - 1)
    BY <1>2
  <2>2. token.kind = "end" /\ before # <<>> =>
          /\ Len(OpenAfter(token, before)) = Len(before) - 1
          /\ \A i \in 1 .. Len(before) - 1 : OpenAfter(token, before)[i] = before[i]
    BY OpenAfterIs
  <2>3. QED
    BY <1>2, <1>3, <2>1, <2>2, Zenon DEF Kind
<1>5. Len(Open(doc, m - 1)) \in Nat /\ (Open(doc, m) = <<>> <=> Len(Open(doc, m)) = 0)
  BY <1>2, EmptySeq, LenProperties
<1>6. ClosesRoot(doc, m) <=> Len(Open(doc, m - 1)) = 1
  BY <1>4, <1>5 DEF ClosesRoot, Kind
<1>7. ~BeginsRecord(doc, m) /\ ~Descends(doc, m)
  BY DEF BeginsRecord, Descends, Kind
<1>8. EndsRecord(doc, m) <=>
        Open(doc, m) = Container(doc) /\ Open(doc, m - 1) # Container(doc)
  BY DEF EndsRecord, Kind
<1>9. QED
  BY <1>4, <1>6, <1>7, <1>8

\* A tag that the scan acts on is that token.
LEMMA TagIsToken ==
  ASSUME doc \in Docs, NEW m \in 1 .. Len(doc.toks), Lt = Begin(m),
         Kind(m) \notin CharacterData, TagHere.end # NoPos
  PROVE  /\ IsEndTag =>
              /\ Kind(m) = "end" /\ TagHere.end = End(m)
              /\ NameAt(Lt + 2) = <<doc.toks[m].name>>
         /\ IsStartTag =>
              /\ Kind(m) \in {"start", "empty"} /\ TagHere.end = End(m)
              /\ TagHere.slash <=> Kind(m) = "empty"
              /\ NameAt(Lt + 1) = <<doc.toks[m].name>>
<1>1. Kind(m) \in {"misc", "cdata", "end", "start", "empty", "broken"}
  BY TokenAt DEF CharacterData
<1>2. QED
  BY <1>1, TagsAtToken

-------------------------------------------------------------------------------
(***************************************************************************)
(* What an iteration leaves as it is.                                      *)
(***************************************************************************)

\* No record ends and no container on the way begins.
LEMMA SameFound ==
  ASSUME doc \in Docs, NEW m \in 1 .. Len(doc.toks), FoundUpTo(m - 1), doc' = doc,
         records' = records, nsFrom' = nsFrom, ~EndsRecord(doc, m), ~Descends(doc, m)
  PROVE  FoundUpTo(m)'
<1>1. Len(doc.toks) \in Nat
  BY DocumentTypes
<1>2. RecordsUpTo(doc, m) = RecordsUpTo(doc, m - 1)
  BY OneToken
<1>3. \A i \in 1 .. m : i \in 1 .. m - 1 \/ i = m
  BY <1>1
<1>4. \A i \in 1 .. m - 1 : i \in 1 .. m
  BY <1>1
<1>5. DeclaredAt(m) = DeclaredAt(m - 1)
  BY <1>3, <1>4 DEF DeclaredAt
<1>6. buf' = buf
  BY SameDocument
<1>7. RecordSlices' = RecordSlices /\ DeclaredAt(m)' = DeclaredAt(m)
  BY <1>6 DEF RecordSlices, DeclaredAt
<1>8. QED
  BY <1>2, <1>5, <1>7 DEF FoundUpTo

\* No record begins.
LEMMA SameOpenRecordIs ==
  ASSUME doc \in Docs, NEW m \in 1 .. Len(doc.toks), OpenRecordIs(m - 1), doc' = doc,
         recordStart' = recordStart, ~BeginsRecord(doc, m)
  PROVE  OpenRecordIs(m)'
<1>1. Len(doc.toks) \in Nat
  BY DocumentTypes
<1>2. SUFFICES ASSUME recordStart # NoPos
               PROVE  \E first \in 1 .. m :
                          /\ BeginsRecord(doc, first)
                          /\ recordStart = TokenStart(doc, first)
                          /\ \A j \in first + 1 .. m : ~BeginsRecord(doc, j)
  BY DEF OpenRecordIs
<1>3. PICK first \in 1 .. m - 1 :
         /\ BeginsRecord(doc, first)
         /\ recordStart = TokenStart(doc, first)
         /\ \A j \in first + 1 .. m - 1 : ~BeginsRecord(doc, j)
  BY <1>2 DEF OpenRecordIs
<1>4. first \in 1 .. m /\ \A j \in first + 1 .. m : j \in first + 1 .. m - 1 \/ j = m
  BY <1>1
<1>5. QED
  BY <1>3, <1>4

\* One legal token further inside the root.
LEMMA InsideNext ==
  ASSUME doc \in Docs, NEW m \in 1 .. Len(doc.toks), Inside(m - 1), doc' = doc,
         Legal(doc, m), ~ClosesRoot(doc, m), OnTheWay(m)', OpenRecordIs(m)', FoundUpTo(m)'
  PROVE  Inside(m)'
<1>1. Len(doc.toks) \in Nat
  BY DocumentTypes
<1>2. \A i \in 1 .. m : i \in 1 .. m - 1 \/ i = m
  BY <1>1
<1>3. \A i \in 1 .. m : Legal(doc, i) /\ ~ClosesRoot(doc, i)
  BY <1>2 DEF Inside
<1>4. \A i \in 1 .. m : Legal(doc', i) /\ ~ClosesRoot(doc', i)
  BY <1>3
<1>5. QED
  BY <1>4 DEF Inside

\* The scan follows the document to the end of a token inside the root.
LEMMA FollowInside ==
  ASSUME doc \in Docs, NEW m \in 1 .. Len(doc.toks), doc' = doc, pos' = End(m),
         phase' # "trailing", verdict' = "open", Inside(m)'
  PROVE  FollowInv'
<1>1. m \in 0 .. Len(doc.toks)
  BY DocumentTypes
<1>2. pos' = TokenStart(doc', m + 1)
  BY DEF End
<1>3. QED
  BY <1>1, <1>2 DEF FollowInv

-------------------------------------------------------------------------------
(***************************************************************************)
(* Every iteration follows the document.                                   *)
(***************************************************************************)
LEMMA ScanningInside ==
  ASSUME ScannerInv, FollowInv, Scanning
  PROVE  \E k \in 0 .. Len(doc.toks) : pos = Begin(k + 1) /\ Inside(k)
BY DEF FollowInv, Scanning, Begin

\* The `<` at which an iteration inside the root stops begins a token.
LEMMA AtToken ==
  ASSUME ScannerInv, FollowInv, AtLt
  PROVE  \E m \in 1 .. Len(doc.toks) :
            /\ m - 1 \in 0 .. Len(doc.toks)
            /\ Lt = Begin(m) /\ Kind(m) \notin CharacterData
            /\ Inside(m - 1) /\ OnTheWay(m - 1) /\ OpenRecordIs(m - 1) /\ FoundUpTo(m - 1)
<1>1. Len(doc.toks) \in Nat
  BY StateFacts, DocumentTypes
<1>2. PICK k \in 0 .. Len(doc.toks) : pos = Begin(k + 1) /\ Inside(k)
  BY ScanningInside DEF AtLt
<1>3. PICK m \in 1 .. Len(doc.toks) :
         Lt = Begin(m) /\ Kind(m) \notin CharacterData /\ Inside(m - 1)
  BY <1>2, AtMarkup
<1>4. m - 1 \in 0 .. Len(doc.toks)
  BY <1>1
<1>5. QED
  BY <1>3, <1>4 DEF Inside

\* A document that is refused must not be acceptable.
LEMMA RefuseFollows ==
  ASSUME Refuse, ~Acceptable
  PROVE  FollowInv'
BY DEF Refuse, FollowInv, Acceptable, SelfClosingRoot, elementVars

\* What the scan does not frame is refused rightly.
LEMMA UnframedFollows == ScannerInv /\ FollowInv /\ Unframed => FollowInv'
<1> SUFFICES ASSUME ScannerInv, FollowInv, Unframed PROVE FollowInv'
  OBVIOUS
<1>1. PICK k \in 0 .. Len(doc.toks) : pos = Begin(k + 1) /\ Inside(k)
  BY ScanningInside DEF Unframed
<1>2. ~Acceptable
  BY <1>1, UnframedIsRight
<1>3. QED
  BY <1>2, RefuseFollows DEF Unframed

\* A comment, a CDATA section or a PI is passed as a whole.
LEMMA SkipSpanFollows == ScannerInv /\ FollowInv /\ SkipSpan => FollowInv'
<1> SUFFICES ASSUME ScannerInv, FollowInv, SkipSpan PROVE FollowInv'
  OBVIOUS
<1>1. AtLt /\ Scanning /\ doc \in Docs /\ Len(doc.toks) \in Nat
  BY StateFacts, DocumentTypes DEF SkipSpan, AtLt
<1>2. PICK m \in 1 .. Len(doc.toks) :
         /\ Lt = Begin(m) /\ Kind(m) \notin CharacterData
         /\ Inside(m - 1) /\ FoundUpTo(m - 1)
  BY <1>1, AtToken
<1>3. PICK s \in SpanAt(Lt) : SpanEnd(Lt, s) # NoPos /\ MoveTo(SpanEnd(Lt, s))
  BY DEF SkipSpan
<1>4. Kind(m) \in {"misc", "cdata"} /\ SpanEnd(Lt, s) = End(m)
  <2>1. Kind(m) \notin {"end", "start", "empty", "broken"}
    BY <1>1, <1>2, <1>3, SpansAtToken
  <2>2. Kind(m) \in {"misc", "cdata"}
    BY <1>1, <1>2, <2>1, TokenAt DEF CharacterData
  <2>3. QED
    BY <1>1, <1>2, <1>3, <2>2, SpansAtToken
<1>5. Legal(doc, m)
  BY <1>1, <1>4, LegalIs DEF Kind
<1>6. Inside(m)
  BY <1>2, <1>4, <1>5, QuietStep
<1>7. doc' = doc /\ pos' = End(m) /\ verdict' = verdict /\ phase' = phase
      /\ UNCHANGED <<elementVars, records>>
  BY <1>3, <1>4 DEF SkipSpan, MoveTo
<1>8. verdict' = "open" /\ phase' # "trailing"
  BY <1>1, <1>7 DEF Scanning
<1>9. Inside(m)'
  <2>1. buf' = buf
    BY <1>7, SameDocument
  <2>2. OnTheWay(m)' /\ OpenRecordIs(m)' /\ FoundUpTo(m)'
    BY <1>6, <1>7, <2>1
      DEF Inside, OnTheWay, OpenRecordIs, FoundUpTo, DeclaredAt, RecordSlices, elementVars
  <2>3. QED
    BY <1>6, <1>7, <2>2 DEF Inside
<1>10. QED
  BY <1>1, <1>7, <1>8, <1>9, FollowInside

\* In a skipped subtree the scan counts what is open.
LEMMA SubtreeTagFollows == ScannerInv /\ FollowInv /\ SubtreeTag => FollowInv'
<1> SUFFICES ASSUME ScannerInv, FollowInv, SubtreeTag PROVE FollowInv'
  OBVIOUS
<1>1. /\ AtLt /\ phase = "subtree" /\ (IsEndTag \/ IsStartTag) /\ TagHere.end # NoPos
      /\ verdict = "open" /\ doc \in Docs /\ Len(doc.toks) \in Nat
  BY StateFacts, DocumentTypes DEF SubtreeTag, AtLt, Scanning
<1>2. PICK m \in 1 .. Len(doc.toks) :
         /\ m - 1 \in 0 .. Len(doc.toks)
         /\ Lt = Begin(m) /\ Kind(m) \notin CharacterData
         /\ Inside(m - 1) /\ OnTheWay(m - 1) /\ OpenRecordIs(m - 1) /\ FoundUpTo(m - 1)
  BY <1>1, AtToken
<1>3. /\ IsEndTag => Kind(m) = "end"
      /\ IsStartTag => Kind(m) \in {"start", "empty"} /\ (TagHere.slash <=> Kind(m) = "empty")
      /\ TagHere.end = End(m)
  BY <1>1, <1>2, TagIsToken
<1> DEFINE O == Open(doc, m - 1)
           O2 == Open(doc, m)
           C == Container(doc)
<1>4. /\ depth \in Nat /\ skipDepth \in Nat /\ Target \in Nat /\ Len(C) = Target /\ Len(O) \in Nat
  BY <1>2, PlaceTypes
<1>5. /\ depth < Target /\ skipDepth > 0 /\ depth + 1 <= Len(O) /\ O[depth + 1] # C[depth + 1]
      /\ ~IsPrefix(O, C) /\ O # C
  BY <1>1, <1>2, Place
<1>6. /\ depth >= 1 /\ Len(O) = depth + skipDepth
      /\ \A i \in 1 .. Target : i <= depth => O[i] = C[i]
  BY <1>2, <1>4 DEF OnTheWay
<1>7. /\ doc' = doc /\ pos' = End(m) /\ verdict' = "open"
      /\ UNCHANGED <<depth, recordStart, nsFrom, records>>
      /\ phase' = IF skipDepth' = 0 THEN "content" ELSE "subtree"
      /\ skipDepth' = IF Kind(m) = "end" THEN skipDepth - 1
                      ELSE IF Kind(m) = "empty" THEN skipDepth ELSE skipDepth + 1
  BY <1>1, <1>3 DEF SubtreeTag, MoveTo
\* It is legal, it does not close the root, and it has nothing to do with a record.
<1>8. /\ Legal(doc, m) /\ ~ClosesRoot(doc, m)
      /\ ~BeginsRecord(doc, m) /\ ~EndsRecord(doc, m) /\ ~Descends(doc, m)
      /\ Len(O2) = depth + skipDepth'
      /\ \A i \in 1 .. depth + 1 : i <= depth + skipDepth' => O2[i] = O[i]
  <2>1. CASE Kind(m) \in {"start", "empty"}
    <3>1. /\ Kind(m) = "start" =>
               Len(O2) = Len(O) + 1 /\ \A i \in 1 .. Len(O) : O2[i] = O[i]
          /\ Kind(m) = "empty" => O2 = O
          /\ ~ClosesRoot(doc, m)
          /\ ~BeginsRecord(doc, m) /\ ~EndsRecord(doc, m) /\ ~Descends(doc, m)
      BY <1>5, <2>1, StartTagIs
    <3>2. Legal(doc, m)
      BY <1>1, <2>1, <3>1, LegalIs DEF Kind
    <3>3. CASE Kind(m) = "start"
      <4>1. skipDepth' = skipDepth + 1
        BY <1>7, <3>3
      <4> HIDE DEF O, O2, C
      <4>2. \A i \in 1 .. depth + 1 : i \in 1 .. Len(O)
        BY <1>4, <1>5
      <4>3. QED
        BY <1>4, <1>6, <3>1, <3>2, <3>3, <4>1, <4>2
    <3>4. CASE Kind(m) = "empty"
      <4>1. skipDepth' = skipDepth
        BY <1>7, <3>4
      <4> HIDE DEF O, O2, C
      <4>2. QED
        BY <1>6, <3>1, <3>2, <3>4, <4>1
    <3>5. QED
      BY <2>1, <3>3, <3>4
  <2>2. CASE Kind(m) = "end"
    <3>1. Len(O) >= 1 /\ Len(O) # 1
      <4> HIDE DEF O
      <4>1. QED
        BY <1>4, <1>5, <1>6
    <3>2. /\ Len(O2) = Len(O) - 1
          /\ \A i \in 1 .. Len(O) - 1 : O2[i] = O[i]
          /\ ~ClosesRoot(doc, m)
          /\ ~BeginsRecord(doc, m) /\ ~Descends(doc, m)
          /\ EndsRecord(doc, m) => O2 = C
      BY <2>2, <3>1, EndTagIs
    <3>3. Legal(doc, m)
      BY <1>1, <2>2, <3>2, LegalIs DEF Kind
    <3>4. skipDepth' = skipDepth - 1
      BY <1>7, <2>2
    <3> HIDE DEF O, O2, C
    <3>5. Len(O2) = depth + skipDepth'
      BY <1>4, <1>6, <3>2, <3>4
    <3>6. \A i \in 1 .. depth + 1 : i <= depth + skipDepth' => O2[i] = O[i]
      <4>1. \A i \in 1 .. depth + 1 : i <= depth + skipDepth' => i \in 1 .. Len(O) - 1
        BY <1>4, <1>6, <3>4
      <4>2. QED
        BY <3>2, <4>1
    <3>7. O2 # C
      <4>1. SUFFICES ASSUME O2 = C PROVE FALSE
        OBVIOUS
      <4>2. depth + skipDepth' = Target
        BY <1>4, <3>5, <4>1
      <4>3. depth + 1 \in 1 .. depth + 1 /\ depth + 1 <= depth + skipDepth'
        BY <1>4, <1>5, <4>2
      <4>4. O2[depth + 1] = O[depth + 1]
        BY <3>6, <4>3
      <4>5. QED
        BY <1>5, <4>1, <4>4
    <3>8. QED
      BY <3>2, <3>3, <3>5, <3>6, <3>7
  <2>3. QED
    BY <1>1, <1>3, <2>1, <2>2
<1>9. OnTheWay(m)'
  <2> HIDE DEF O, O2, C
  <2>1. skipDepth' \in Nat
    BY <1>4, <1>5, <1>7
  <2>4. PICK s \in Nat : s = skipDepth'
    BY <2>1
  <2>5. \A i \in 1 .. depth + 1 : i <= depth + s => O2[i] = O[i]
    BY <1>8, <2>4
  <2>2. \A i \in 1 .. Target : i <= depth => O2[i] = C[i]
    <3> SUFFICES ASSUME NEW i \in 1 .. Target, i <= depth PROVE O2[i] = C[i]
      OBVIOUS
    <3>1. i \in 1 .. depth + 1 /\ i <= depth + s
      BY <1>4
    <3>2. QED
      BY <1>6, <2>5, <3>1
  <2>3. phase' = "subtree" => O2[depth + 1] # C[depth + 1]
    <3> SUFFICES ASSUME phase' = "subtree" PROVE O2[depth + 1] # C[depth + 1]
      OBVIOUS
    <3>1. s # 0
      BY <1>7, <2>4
    <3>2. depth + 1 \in 1 .. depth + 1 /\ depth + 1 <= depth + s
      BY <1>4, <3>1
    <3>3. QED
      BY <1>5, <2>5, <3>2
  <2>6. QED
    BY <1>4, <1>6, <1>7, <1>8, <2>2, <2>3 DEF OnTheWay, O2, C
<1>10. OpenRecordIs(m)' /\ FoundUpTo(m)'
  BY <1>1, <1>2, <1>7, <1>8, SameOpenRecordIs, SameFound
<1>11. Inside(m)'
  BY <1>1, <1>2, <1>7, <1>8, <1>9, <1>10, InsideNext
<1>12. phase' # "trailing"
  BY <1>7
<1>13. QED
  BY <1>1, <1>7, <1>11, <1>12, FollowInside

-------------------------------------------------------------------------------
(***************************************************************************)
(* The tags that scan_content looks at itself.                             *)
(***************************************************************************)
\* The tag at which scan_content stops is token m.
AtTag(m) ==
    /\ doc \in Docs /\ Len(doc.toks) \in Nat /\ m - 1 \in 0 .. Len(doc.toks)
    /\ verdict = "open" /\ phase = "content"
    /\ Lt = Begin(m) /\ TagHere.end = End(m)
    /\ Inside(m - 1) /\ OnTheWay(m - 1) /\ OpenRecordIs(m - 1) /\ FoundUpTo(m - 1)

\* scan_content at an end tag.
LEMMA AtEndTag ==
  ASSUME ScannerInv, FollowInv, ContentEndTag
  PROVE  \E m \in 1 .. Len(doc.toks) :
            AtTag(m) /\ Kind(m) = "end" /\ NameAt(Lt + 2) = <<doc.toks[m].name>>
<1>1. /\ AtLt /\ phase = "content" /\ IsEndTag /\ TagHere.end # NoPos
      /\ verdict = "open" /\ doc \in Docs /\ Len(doc.toks) \in Nat
  BY StateFacts, DocumentTypes DEF ContentEndTag, AtLt, Scanning
<1>2. PICK m \in 1 .. Len(doc.toks) :
         /\ m - 1 \in 0 .. Len(doc.toks)
         /\ Lt = Begin(m) /\ Kind(m) \notin CharacterData
         /\ Inside(m - 1) /\ OnTheWay(m - 1) /\ OpenRecordIs(m - 1) /\ FoundUpTo(m - 1)
  BY <1>1, AtToken
<1>3. Kind(m) = "end" /\ TagHere.end = End(m) /\ NameAt(Lt + 2) = <<doc.toks[m].name>>
  BY <1>1, <1>2, TagIsToken
<1>4. QED
  BY <1>1, <1>2, <1>3 DEF AtTag

\* scan_content at a start tag.
LEMMA AtStartTag ==
  ASSUME ScannerInv, FollowInv, ContentStartTag
  PROVE  \E m \in 1 .. Len(doc.toks) :
            /\ AtTag(m) /\ Kind(m) \in {"start", "empty"}
            /\ TagHere.slash <=> Kind(m) = "empty"
            /\ NameAt(Lt + 1) = <<doc.toks[m].name>>
<1>1. /\ AtLt /\ phase = "content" /\ IsStartTag /\ TagHere.end # NoPos
      /\ verdict = "open" /\ doc \in Docs /\ Len(doc.toks) \in Nat
  BY StateFacts, DocumentTypes DEF ContentStartTag, AtLt, Scanning
<1>2. PICK m \in 1 .. Len(doc.toks) :
         /\ m - 1 \in 0 .. Len(doc.toks)
         /\ Lt = Begin(m) /\ Kind(m) \notin CharacterData
         /\ Inside(m - 1) /\ OnTheWay(m - 1) /\ OpenRecordIs(m - 1) /\ FoundUpTo(m - 1)
  BY <1>1, AtToken
<1>3. /\ Kind(m) \in {"start", "empty"} /\ TagHere.end = End(m)
      /\ TagHere.slash <=> Kind(m) = "empty"
      /\ NameAt(Lt + 1) = <<doc.toks[m].name>>
  BY <1>1, <1>2, TagIsToken
<1>4. QED
  BY <1>1, <1>2, <1>3 DEF AtTag

\* What is open around that tag.
LEMMA AroundTag ==
  ASSUME ScannerInv, NEW m \in 1 .. Len(doc.toks), AtTag(m)
  PROVE  /\ depth \in Nat /\ depth >= 1 /\ skipDepth = 0 /\ Target \in Nat \ {0}
         /\ Len(Container(doc)) = Target /\ Container(doc)[1] = RootName
         /\ Len(Open(doc, m - 1)) = depth
         /\ \A i \in 1 .. Target : i <= depth => Open(doc, m - 1)[i] = Container(doc)[i]
         /\ recordStart # NoPos => depth > Target
         /\ recordStart = NoPos => depth <= Target /\ IsPrefix(Open(doc, m - 1), Container(doc))
         /\ recordStart # NoPos => ~IsPrefix(Open(doc, m - 1), Container(doc))
         /\ Open(doc, m - 1) = Container(doc) <=> depth = Target
<1>1. /\ depth \in Nat /\ Target \in Nat \ {0} /\ Len(Container(doc)) = Target
      /\ Container(doc)[1] = RootName
  BY PlaceTypes DEF AtTag
<1>2. /\ skipDepth = 0 /\ Len(Open(doc, m - 1)) = depth
      /\ recordStart # NoPos =>
            /\ depth > Target /\ ~IsPrefix(Open(doc, m - 1), Container(doc))
            /\ Open(doc, m - 1) # Container(doc)
      /\ recordStart = NoPos =>
            /\ depth <= Target /\ IsPrefix(Open(doc, m - 1), Container(doc))
            /\ Open(doc, m - 1) = Container(doc) <=> depth = Target
  BY Place DEF AtTag
<1>3. /\ depth >= 1
      /\ \A i \in 1 .. Target : i <= depth => Open(doc, m - 1)[i] = Container(doc)[i]
  BY <1>1 DEF AtTag, OnTheWay
<1>4. depth > Target => depth # Target
  BY <1>1
<1>5. QED
  BY <1>1, <1>2, <1>3, <1>4

\* One tag further on the way, with no subtree to skip.
LEMMA OnTheWayNext ==
  ASSUME ScannerInv, NEW m \in 1 .. Len(doc.toks), AtTag(m), doc' = doc,
         phase' = "content", skipDepth' = 0, NEW d \in Nat \ {0}, depth' = d,
         Len(Open(doc, m)) = d,
         \A i \in 1 .. Target : i <= d => Open(doc, m)[i] = Container(doc)[i]
  PROVE  OnTheWay(m)'
<1>1. Len(Container(doc)) = Target
  BY AroundTag
<1>2. d >= 1 /\ d = d + 0
  OBVIOUS
<1>3. QED
  BY <1>1, <1>2 DEF OnTheWay

\* Inside a record a tag only counts.
LEMMA NestedStartTagFollows == ScannerInv /\ FollowInv /\ NestedStartTag => FollowInv'
<1> SUFFICES ASSUME ScannerInv, FollowInv, NestedStartTag PROVE FollowInv'
  OBVIOUS
<1>1. PICK m \in 1 .. Len(doc.toks) :
         /\ AtTag(m) /\ Kind(m) \in {"start", "empty"}
         /\ TagHere.slash <=> Kind(m) = "empty"
  BY AtStartTag DEF NestedStartTag
<1> DEFINE O == Open(doc, m - 1)
           O2 == Open(doc, m)
           C == Container(doc)
<1>2. /\ depth \in Nat /\ skipDepth = 0 /\ Target \in Nat \ {0}
      /\ Len(O) = depth /\ depth > Target /\ ~IsPrefix(O, C) /\ O # C
      /\ \A i \in 1 .. Target : i <= depth => O[i] = C[i]
  <2>1. recordStart # NoPos
    BY DEF NestedStartTag
  <2>2. depth > Target /\ depth \in Nat /\ Target \in Nat => depth # Target
    OBVIOUS
  <2>3. QED
    BY <1>1, <2>1, <2>2, AroundTag
<1>3. /\ Kind(m) = "start" =>
           Len(O2) = Len(O) + 1 /\ \A i \in 1 .. Len(O) : O2[i] = O[i]
      /\ Kind(m) = "empty" => O2 = O
      /\ ~ClosesRoot(doc, m)
      /\ ~BeginsRecord(doc, m) /\ ~EndsRecord(doc, m) /\ ~Descends(doc, m)
  BY <1>1, <1>2, StartTagIs
<1>4. Legal(doc, m)
  BY <1>1, <1>3, LegalIs DEF Kind, AtTag
<1>5. /\ doc' = doc /\ pos' = End(m) /\ verdict' = "open" /\ phase' = "content" /\ skipDepth' = 0
      /\ UNCHANGED <<recordStart, nsFrom, records>>
      /\ depth' = IF Kind(m) = "empty" THEN depth ELSE depth + 1
  BY <1>1, <1>2 DEF NestedStartTag, MoveTo, AtTag
<1>6. OnTheWay(m)'
  <2> DEFINE d == IF Kind(m) = "empty" THEN depth ELSE depth + 1
  <2>1. d \in Nat \ {0} /\ depth' = d
    BY <1>2, <1>5
  <2>2. Len(O2) = d /\ \A i \in 1 .. Target : i <= d => O2[i] = C[i]
    <3> HIDE DEF O, O2, C
    <3>1. \A i \in 1 .. Target : i \in 1 .. Len(O) /\ i <= depth
      BY <1>2
    <3>2. QED
      BY <1>1, <1>2, <1>3, <3>1
  <2> HIDE DEF d
  <2>3. QED
    BY <1>1, <1>5, <2>1, <2>2, OnTheWayNext
<1>7. OpenRecordIs(m)' /\ FoundUpTo(m)'
  BY <1>1, <1>3, <1>5, SameOpenRecordIs, SameFound DEF AtTag
<1>8. Inside(m)'
  BY <1>1, <1>3, <1>4, <1>5, <1>6, <1>7, InsideNext DEF AtTag
<1>9. QED
  BY <1>1, <1>5, <1>8, FollowInside DEF AtTag

\* A sibling on the way is skipped as a subtree.
LEMMA SiblingStartTagFollows == ScannerInv /\ FollowInv /\ SiblingStartTag => FollowInv'
<1> SUFFICES ASSUME ScannerInv, FollowInv, SiblingStartTag PROVE FollowInv'
  OBVIOUS
<1>1. PICK m \in 1 .. Len(doc.toks) :
         /\ AtTag(m) /\ Kind(m) \in {"start", "empty"}
         /\ TagHere.slash <=> Kind(m) = "empty"
         /\ NameAt(Lt + 1) = <<doc.toks[m].name>>
  BY AtStartTag DEF SiblingStartTag
<1> DEFINE O == Open(doc, m - 1)
           O2 == Open(doc, m)
           C == Container(doc)
<1>2. /\ depth \in Nat /\ depth >= 1 /\ skipDepth = 0 /\ Target \in Nat \ {0}
      /\ Len(O) = depth /\ depth < Target /\ O # C
      /\ \A i \in 1 .. Target : i <= depth => O[i] = C[i]
      /\ Len(C) = Target
  <2>1. depth < Target
    BY DEF SiblingStartTag
  <2>2. depth < Target /\ depth \in Nat /\ Target \in Nat => depth # Target
    OBVIOUS
  <2>3. QED
    BY <1>1, <2>1, <2>2, AroundTag
<1>3. C[depth + 1] # doc.toks[m].name
  <2>1. depth \in 1 .. Len(doc.path)
    <3>1. Target = Len(doc.path) + 1 /\ Len(doc.path) \in Nat
      <4>1. doc \in Docs
        BY <1>1 DEF AtTag
      <4>2. doc.path \in Seq(Names)
        BY <4>1, DocumentTypes
      <4>3. QED
        BY <4>2 DEF Target, TargetOf
    <3>2. QED
      BY <1>2, <3>1
  <2>2. C[depth + 1] = doc.path[depth]
    BY <1>1, <2>1, ContainerFacts DEF AtTag
  <2>3. <<doc.toks[m].name>> # <<doc.path[depth]>>
    BY <1>1 DEF SiblingStartTag, DescentNameMatches
  <2>4. QED
    BY <2>2, <2>3
<1>4. /\ Kind(m) = "start" =>
           /\ Len(O2) = Len(O) + 1 /\ \A i \in 1 .. Len(O) : O2[i] = O[i]
           /\ O2[Len(O) + 1] = doc.toks[m].name
      /\ Kind(m) = "empty" => O2 = O
      /\ ~ClosesRoot(doc, m)
      /\ ~BeginsRecord(doc, m) /\ ~EndsRecord(doc, m)
      /\ Descends(doc, m) => C[Len(O) + 1] = doc.toks[m].name
  BY <1>1, <1>2, StartTagIs
<1>5. ~Descends(doc, m)
  BY <1>2, <1>3, <1>4
<1>6. Legal(doc, m)
  BY <1>1, <1>5, LegalIs DEF Kind, AtTag
<1>7. /\ doc' = doc /\ pos' = End(m) /\ verdict' = "open"
      /\ UNCHANGED <<depth, recordStart, nsFrom, records>>
      /\ skipDepth' = IF Kind(m) = "empty" THEN 0 ELSE 1
      /\ phase' = IF Kind(m) = "empty" THEN "content" ELSE "subtree"
  BY <1>1 DEF SiblingStartTag, MoveTo, AtTag
<1>8. OnTheWay(m)'
  <2>1. CASE Kind(m) = "empty"
    <3>1. depth \in Nat \ {0} /\ depth' = depth /\ skipDepth' = 0 /\ phase' = "content" /\ doc' = doc
      BY <1>2, <1>7, <2>1
    <3>2. Len(O2) = depth /\ \A i \in 1 .. Target : i <= depth => O2[i] = C[i]
      BY <1>2, <1>4, <2>1
    <3>3. QED
      BY <1>1, <3>1, <3>2, OnTheWayNext
  <2>2. CASE Kind(m) = "start"
    <3>1. skipDepth' = 1 /\ phase' = "subtree"
      BY <1>7, <2>2
    <3>2. Len(O2) = depth + 1 /\ O2[depth + 1] # C[depth + 1]
      BY <1>2, <1>3, <1>4, <2>2
    <3>3. \A i \in 1 .. Target : i <= depth => O2[i] = C[i]
      <4> HIDE DEF O, O2, C
      <4>1. \A i \in 1 .. Target : i <= depth => i \in 1 .. Len(O)
        BY <1>2
      <4>2. QED
        BY <1>2, <1>4, <2>2, <4>1
    <3>4. QED
      BY <1>2, <1>7, <3>1, <3>2, <3>3 DEF OnTheWay
  <2>3. QED
    BY <1>1, <2>1, <2>2
<1>9. OpenRecordIs(m)' /\ FoundUpTo(m)'
  BY <1>1, <1>4, <1>5, <1>7, SameOpenRecordIs, SameFound DEF AtTag
<1>10. Inside(m)'
  BY <1>1, <1>4, <1>6, <1>7, <1>8, <1>9, InsideNext DEF AtTag
<1>11. phase' # "trailing"
  BY <1>7
<1>12. QED
  BY <1>1, <1>7, <1>10, <1>11, FollowInside DEF AtTag

\* At the root's end tag the scan of the content is over.
LEMMA RootEndTagFollows == ScannerInv /\ FollowInv /\ RootEndTag => FollowInv'
<1> SUFFICES ASSUME ScannerInv, FollowInv, RootEndTag PROVE FollowInv'
  OBVIOUS
<1>1. PICK m \in 1 .. Len(doc.toks) :
         AtTag(m) /\ Kind(m) = "end" /\ NameAt(Lt + 2) = <<doc.toks[m].name>>
  BY AtEndTag DEF RootEndTag
<1>2. /\ depth = 1 /\ Target \in Nat \ {0} /\ Len(Open(doc, m - 1)) = 1
      /\ Len(Container(doc)) = Target /\ recordStart = NoPos
  <2>1. depth = 1
    BY DEF RootEndTag
  <2>2. Target \in Nat \ {0} => ~(1 > Target)
    OBVIOUS
  <2>3. QED
    BY <1>1, <2>1, <2>2, AroundTag
<1>3. /\ ClosesRoot(doc, m) /\ ~Descends(doc, m)
      /\ Len(Open(doc, m)) = 0
      /\ EndsRecord(doc, m) => Open(doc, m) = Container(doc)
  <2>1. Len(Open(doc, m - 1)) >= 1
    BY <1>2
  <2>2. /\ Len(Open(doc, m)) = Len(Open(doc, m - 1)) - 1
        /\ ClosesRoot(doc, m) <=> Len(Open(doc, m - 1)) = 1
        /\ ~Descends(doc, m)
        /\ EndsRecord(doc, m) =>
             Open(doc, m) = Container(doc) /\ Open(doc, m - 1) # Container(doc)
    BY <1>1, <2>1, EndTagIs
  <2>3. QED
    BY <1>2, <2>2
<1>4. ~EndsRecord(doc, m)
  <2>1. Len(Container(doc)) # 0
    BY <1>2
  <2>2. QED
    BY <1>3, <2>1
<1>5. Legal(doc, m) <=> RootCloseOk
  <2>1. Legal(doc, m) <=> doc.toks[m].name = RootName
    BY <1>1, <1>3, LegalIs DEF Kind, AtTag
  <2>2. RootCloseOk <=> <<doc.toks[m].name>> = <<RootName>>
    BY <1>1, <1>2 DEF RootCloseOk
  <2>3. QED
    BY <2>1, <2>2
<1>6. \A j \in 1 .. m - 1 : Legal(doc, j) /\ ~ClosesRoot(doc, j)
  BY <1>1 DEF AtTag, Inside
<1>7. CASE RootCloseOk
  <2>1. /\ doc' = doc /\ pos' = End(m) /\ verdict' = "open" /\ phase' = "trailing" /\ depth' = 0
        /\ UNCHANGED <<recordStart, skipDepth, nsFrom, records>>
    BY <1>1, <1>7 DEF RootEndTag, MoveTo, AtTag
  <2>2. Closes(doc, m)
    <3>1. \A j \in 1 .. m : j \in 1 .. m - 1 \/ j = m
      BY <1>1 DEF AtTag
    <3>2. QED
      BY <1>3, <1>5, <1>6, <1>7, <3>1 DEF Closes
  <2>3. FoundUpTo(m)'
    BY <1>1, <1>3, <1>4, <2>1, SameFound DEF AtTag
  <2>4. m # 0 /\ m \in 0 .. m /\ m \in 0 .. Len(doc.toks) /\ m + 1 .. m = {}
    BY <1>1 DEF AtTag
  <2>5. Outside(m, m)'
    BY <2>1, <2>2, <2>3, <2>4 DEF Outside
  <2>6. pos' = TokenStart(doc', m + 1)
    BY <2>1 DEF End
  <2>7. QED
    BY <2>1, <2>4, <2>5, <2>6 DEF FollowInv
<1>8. CASE ~RootCloseOk
  <2>1. Refuse
    BY <1>8 DEF RootEndTag
  <2>2. \E x \in 1 .. Len(doc.toks) : ~Legal(doc, x) /\ \A j \in 1 .. x - 1 : ~ClosesRoot(doc, j)
    BY <1>5, <1>6, <1>8
  <2>3. doc \in Docs /\ phase # "trailing"
    BY <1>1 DEF AtTag
  <2>4. ~Acceptable
    BY <2>2, <2>3, NotAcceptable
  <2>5. QED
    BY <2>1, <2>4, RefuseFollows
<1>9. QED
  BY <1>7, <1>8

\* The bytes of the record that token m ends.
LEMMA RecordBytesAre ==
  ASSUME doc \in Docs, NEW m \in 1 .. Len(doc.toks), NEW first \in 1 .. m,
         BeginsRecord(doc, first), \A j \in first + 1 .. m : ~BeginsRecord(doc, j)
  PROVE  RecordBytes(doc, m) = SubSeq(buf, Begin(first) + 1, End(m))
<1> DEFINE begins == {j \in 1 .. m : BeginsRecord(doc, j)}
<1>1. Len(doc.toks) \in Nat /\ m \in Nat /\ first \in Nat
  BY DocumentTypes
<1>2. first \in begins /\ \A y \in begins : first >= y
  <2>1. ASSUME NEW y \in begins, ~(first >= y) PROVE FALSE
    <3>1. y \in first + 1 .. m
      BY <1>1, <2>1
    <3>2. QED
      BY <2>1, <3>1
  <2>2. QED
    BY <2>1
<1>3. begins \subseteq Nat
  BY <1>1
<1> HIDE DEF begins
<1>4. Max(begins) = first
  <2>1. Max(begins) \in begins /\ \A y \in begins : Max(begins) >= y
    BY <1>2, Zenon DEF Max
  <2>2. Max(begins) >= first /\ first >= Max(begins) /\ Max(begins) \in Nat
    BY <1>2, <1>3, <2>1
  <2>3. QED
    BY <1>1, <2>2
<1>5. RecordBytes(doc, m) = TokenBytes(SubSeq(doc.toks, first, m))
  BY <1>4 DEF RecordBytes, begins
<1>6. first \in 1 .. Len(doc.toks) /\ m \in first .. Len(doc.toks)
  BY <1>1
<1>7. QED
  BY <1>5, <1>6, TokensAreSlice DEF Begin, End, buf, Input

\* One range more is one slice more.
LEMMA OneMoreSlice ==
  ASSUME doc \in Docs, doc' = doc, NEW R, records \in Seq(R), NEW s, NEW e,
         [start |-> s, end |-> e] \in R,
         records' = Append(records, [start |-> s, end |-> e])
  PROVE  RecordSlices' = Append(RecordSlices, SubSeq(buf, s + 1, e))
<1> DEFINE range == [start |-> s, end |-> e]
           n == Len(records)
           piece == SubSeq(buf, s + 1, e)
           slice(r) == SubSeq(buf, r.start + 1, r.end)
<1>1. /\ n \in Nat /\ DOMAIN records = 1 .. n
      /\ records' \in Seq(R) /\ Len(records') = n + 1 /\ DOMAIN records' = 1 .. n + 1
      /\ \A i \in 1 .. n : records'[i] = records[i]
      /\ records'[n + 1] = range
  BY AppendProperties
<1>2. buf' = buf
  BY SameDocument
<1>3. RecordSlices = [i \in 1 .. n |-> slice(records[i])]
  BY <1>1 DEF RecordSlices
<1>4. RecordSlices' = [i \in 1 .. n + 1 |-> slice(records'[i])]
  BY <1>1, <1>2 DEF RecordSlices
<1>5. slice(range) = piece
  OBVIOUS
<1> HIDE DEF slice, piece, range
<1> DEFINE S == {slice(records[i]) : i \in 1 .. n} \cup {piece}
           t == Append(RecordSlices, piece)
<1>6. RecordSlices \in Seq(S) /\ Len(RecordSlices) = n
  <2>1. RecordSlices \in [1 .. n -> S]
    BY <1>3
  <2>2. n \in Nat
    BY <1>1
  <2> HIDE DEF n, S
  <2>3. RecordSlices \in Seq(S)
    BY <2>1, <2>2, SeqDef
  <2>4. QED
    BY <2>1, <2>2, <2>3, LenProperties
<1>7. \A i \in 1 .. n + 1 : (i \in 1 .. n /\ records'[i] = records[i]) \/ i = n + 1
  BY <1>1
<1>8. RecordSlices' \in Seq(S) /\ Len(RecordSlices') = n + 1
  <2>1. \A i \in 1 .. n + 1 : slice(records'[i]) \in S
    BY <1>1, <1>5, <1>7
  <2>2. RecordSlices' \in [1 .. n + 1 -> S]
    BY <1>4, <2>1
  <2>3. n + 1 \in Nat
    BY <1>1
  <2>4. QED
    BY <2>2, <2>3, SeqDef, LenProperties, SMTT(30)
<1>9. /\ t \in Seq(S) /\ Len(t) = n + 1 /\ t[n + 1] = piece
      /\ \A i \in 1 .. n : t[i] = slice(records[i])
  <2>1. piece \in S
    OBVIOUS
  <2> HIDE DEF S
  <2>2. /\ t \in Seq(S) /\ Len(t) = n + 1 /\ t[n + 1] = piece
        /\ \A i \in 1 .. n : t[i] = RecordSlices[i]
    BY <1>6, <2>1, AppendProperties
  <2>3. QED
    BY <1>3, <2>2
<1> HIDE DEF S, t
<1>10. \A i \in 1 .. n + 1 : RecordSlices'[i] = t[i]
  BY <1>1, <1>4, <1>5, <1>7, <1>9
<1>11. RecordSlices' = t
  BY <1>8, <1>9, <1>10, SeqEqual
<1>12. QED
  BY <1>11 DEF t, piece

\* A record ends.
LEMMA OneMoreFound ==
  ASSUME ScannerInv, NEW m \in 1 .. Len(doc.toks), FoundUpTo(m - 1), doc' = doc,
         EndsRecord(doc, m), ~Descends(doc, m), NEW first \in 1 .. m,
         BeginsRecord(doc, first), \A j \in first + 1 .. m : ~BeginsRecord(doc, j),
         records' = Append(records, [start |-> Begin(first), end |-> End(m)]),
         nsFrom' = nsFrom
  PROVE  FoundUpTo(m)'
<1>1. /\ Len(doc.toks) \in Nat /\ doc \in Docs
      /\ records \in Seq([start : 0 .. Len(buf), end : 0 .. Len(buf)])
  BY StateFacts, DocumentTypes DEF RecordsInv
<1>2. [start |-> Begin(first), end |-> End(m)] \in [start : 0 .. Len(buf), end : 0 .. Len(buf)]
  <2>1. first \in 1 .. Len(doc.toks)
    BY <1>1
  <2>2. /\ Begin(first) \in Nat /\ End(first) \in Nat /\ Begin(first) < End(first) /\ End(first) <= Len(buf)
        /\ End(m) \in Nat /\ End(m) <= Len(buf)
        /\ Len(buf) \in Nat
    BY <1>1, <2>1, TokenAt
  <2>3. Begin(first) \in 0 .. Len(buf) /\ End(m) \in 0 .. Len(buf)
    BY <2>2
  <2>4. QED
    BY <2>3
<1>3. RecordSlices' = Append(RecordSlices, SubSeq(buf, Begin(first) + 1, End(m)))
  BY <1>1, <1>2, OneMoreSlice
<1>4. RecordsUpTo(doc, m) = Append(RecordsUpTo(doc, m - 1), SubSeq(buf, Begin(first) + 1, End(m)))
  BY <1>1, OneToken, RecordBytesAre
<1>5. DeclaredAt(m) = DeclaredAt(m - 1)
  <2>1. \A i \in 1 .. m : i \in 1 .. m - 1 \/ i = m
    BY <1>1
  <2>2. \A i \in 1 .. m - 1 : i \in 1 .. m
    BY <1>1
  <2>3. QED
    BY <2>1, <2>2 DEF DeclaredAt
<1>6. DeclaredAt(m)' = DeclaredAt(m)
  BY DEF DeclaredAt
<1>7. QED
  BY <1>3, <1>4, <1>5, <1>6 DEF FoundUpTo

\* An end tag ends a record, leaves a container, or only counts.
LEMMA EndTagFollows == ScannerInv /\ FollowInv /\ EndTag => FollowInv'
<1> SUFFICES ASSUME ScannerInv, FollowInv, EndTag PROVE FollowInv'
  OBVIOUS
<1>1. PICK m \in 1 .. Len(doc.toks) : AtTag(m) /\ Kind(m) = "end"
  BY AtEndTag DEF EndTag
<1> DEFINE O == Open(doc, m - 1)
           O2 == Open(doc, m)
           C == Container(doc)
<1>2. /\ depth \in Nat /\ depth > 1 /\ skipDepth = 0 /\ Target \in Nat \ {0}
      /\ Len(O) = depth /\ Len(C) = Target
      /\ \A i \in 1 .. Target : i <= depth => O[i] = C[i]
      /\ recordStart = NoPos => depth <= Target
      /\ O = C <=> depth = Target
  <2>1. depth > 1
    BY DEF EndTag
  <2>2. QED
    BY <1>1, <2>1, AroundTag
<1>3. /\ Len(O2) = Len(O) - 1
      /\ \A i \in 1 .. Len(O) - 1 : O2[i] = O[i]
      /\ ClosesRoot(doc, m) <=> Len(O) = 1
      /\ ~BeginsRecord(doc, m) /\ ~Descends(doc, m)
      /\ EndsRecord(doc, m) <=> O2 = C /\ O # C
  <2>1. Len(O) >= 1
    BY <1>2
  <2>2. QED
    BY <1>1, <2>1, EndTagIs
<1>4. ~ClosesRoot(doc, m)
  BY <1>2, <1>3
<1>5. Legal(doc, m)
  BY <1>1, <1>4, LegalIs DEF Kind, AtTag
<1>6. PICK d \in Nat \ {0} : d = depth - 1
  <2>1. depth - 1 \in Nat \ {0}
    BY <1>2
  <2>2. QED
    BY <2>1
<1>7. Len(O2) = d /\ \A i \in 1 .. Target : i <= d => O2[i] = C[i]
  <2> HIDE DEF O, O2, C
  <2>1. \A i \in 1 .. Target : i <= d => i \in 1 .. Len(O) - 1 /\ i <= depth
    BY <1>2, <1>6
  <2>2. QED
    BY <1>2, <1>3, <1>6, <2>1
<1>8. O2 = C <=> d = Target
  <2>1. O2 \in Seq(TagNames) /\ C \in Seq(TagNames)
    <3>1. doc \in Docs
      BY <1>1 DEF AtTag
    <3>2. QED
      BY <3>1, ContainerFacts, OneToken
  <2> HIDE DEF O, O2, C
  <2>2. O2 = C => d = Target
    BY <1>2, <1>7
  <2>3. ASSUME d = Target PROVE O2 = C
    <3>1. Len(O2) = Len(C) /\ \A i \in 1 .. Len(O2) : O2[i] = C[i]
      BY <1>2, <1>7, <2>3
    <3>2. QED
      BY <2>1, <3>1, SeqEqual
  <2>4. QED
    BY <2>2, <2>3
<1>9. /\ doc' = doc /\ pos' = End(m) /\ verdict' = "open" /\ phase' = "content" /\ skipDepth' = 0
      /\ nsFrom' = nsFrom /\ depth' = d
  BY <1>1, <1>2, <1>6 DEF EndTag, ContentEndTag, MoveTo, AtTag
<1>10. OnTheWay(m)'
  BY <1>1, <1>7, <1>9, OnTheWayNext
<1>11. CASE recordStart # NoPos /\ d = Target
  <2>1. /\ records' = Append(records, [start |-> recordStart, end |-> End(m)])
        /\ recordStart' = NoPos
    BY <1>1, <1>6, <1>11 DEF EndTag, AtTag
  <2>2. PICK first \in 1 .. m - 1 :
           /\ BeginsRecord(doc, first)
           /\ recordStart = Begin(first)
           /\ \A j \in first + 1 .. m - 1 : ~BeginsRecord(doc, j)
    BY <1>1, <1>11 DEF AtTag, OpenRecordIs, Begin
  <2>3. first \in 1 .. m /\ \A j \in first + 1 .. m : ~BeginsRecord(doc, j)
    <3>1. first \in 1 .. m /\ \A j \in first + 1 .. m : j \in first + 1 .. m - 1 \/ j = m
      BY <1>1 DEF AtTag
    <3>2. QED
      BY <1>3, <2>2, <3>1
  <2>4. EndsRecord(doc, m)
    <3>1. depth # Target
      BY <1>2, <1>6, <1>11
    <3>2. QED
      BY <1>2, <1>3, <1>8, <1>11, <3>1
  <2>5. FoundUpTo(m - 1) /\ records' = Append(records, [start |-> Begin(first), end |-> End(m)])
    BY <1>1, <2>1, <2>2 DEF AtTag
  <2>6. FoundUpTo(m)'
    BY <1>3, <1>9, <2>2, <2>3, <2>4, <2>5, OneMoreFound
  <2>7. OpenRecordIs(m)'
    BY <2>1 DEF OpenRecordIs
  <2>8. Inside(m)'
    BY <1>1, <1>4, <1>5, <1>9, <1>10, <2>6, <2>7, InsideNext DEF AtTag
  <2>9. QED
    BY <1>1, <1>9, <2>8, FollowInside DEF AtTag
<1>12. CASE ~(recordStart # NoPos /\ d = Target)
  <2>1. records' = records /\ recordStart' = recordStart
    BY <1>6, <1>12 DEF EndTag
  <2>2. ~EndsRecord(doc, m)
    <3>1. d = Target => ~(depth <= Target)
      BY <1>2, <1>6
    <3>2. QED
      BY <1>2, <1>3, <1>8, <1>12, <3>1
  <2>3. OpenRecordIs(m)' /\ FoundUpTo(m)'
    BY <1>1, <1>3, <1>9, <2>1, <2>2, SameOpenRecordIs, SameFound DEF AtTag
  <2>4. Inside(m)'
    BY <1>1, <1>4, <1>5, <1>9, <1>10, <2>3, InsideNext DEF AtTag
  <2>5. QED
    BY <1>1, <1>9, <2>4, FollowInside DEF AtTag
<1>13. QED
  BY <1>11, <1>12

\* A start tag at the container begins a record.
LEMMA RecordStartTagFollows == ScannerInv /\ FollowInv /\ RecordStartTag => FollowInv'
<1> SUFFICES ASSUME ScannerInv, FollowInv, RecordStartTag PROVE FollowInv'
  OBVIOUS
<1>1. PICK m \in 1 .. Len(doc.toks) :
         /\ AtTag(m) /\ Kind(m) \in {"start", "empty"}
         /\ TagHere.slash <=> Kind(m) = "empty"
  BY AtStartTag DEF RecordStartTag
<1> DEFINE O == Open(doc, m - 1)
           O2 == Open(doc, m)
           C == Container(doc)
<1>2. /\ depth \in Nat /\ skipDepth = 0 /\ Target \in Nat \ {0} /\ recordStart = NoPos
      /\ Len(O) = depth /\ depth = Target /\ O = C
      /\ \A i \in 1 .. Target : i <= depth => O[i] = C[i]
  <2>1. recordStart = NoPos /\ depth = Target
    BY DEF RecordStartTag
  <2>2. QED
    BY <1>1, <2>1, AroundTag
<1>3. /\ Kind(m) = "start" =>
           Len(O2) = Len(O) + 1 /\ \A i \in 1 .. Len(O) : O2[i] = O[i]
      /\ Kind(m) = "empty" => O2 = O
      /\ ~ClosesRoot(doc, m)
      /\ BeginsRecord(doc, m)
      /\ EndsRecord(doc, m) <=> Kind(m) = "empty"
      /\ Descends(doc, m) => Len(O) < Target
  BY <1>1, <1>2, StartTagIs
<1>4. ~Descends(doc, m)
  <2>1. ~(Len(O) < Target)
    BY <1>2
  <2>2. QED
    BY <1>3, <2>1
<1>5. Legal(doc, m)
  BY <1>1, <1>4, LegalIs DEF Kind, AtTag
<1>6. /\ doc' = doc /\ pos' = End(m) /\ verdict' = "open" /\ phase' = "content" /\ skipDepth' = 0
      /\ nsFrom' = nsFrom
  BY <1>1, <1>2 DEF RecordStartTag, ContentStartTag, MoveTo, AtTag
<1>7. m \in 1 .. m /\ m + 1 .. m = {}
  BY <1>1 DEF AtTag
<1>8. CASE Kind(m) = "empty"
  <2>1. /\ records' = Append(records, [start |-> Begin(m), end |-> End(m)])
        /\ depth' = depth /\ recordStart' = NoPos
    BY <1>1, <1>2, <1>8 DEF RecordStartTag, AtTag
  <2>2. FoundUpTo(m - 1) /\ EndsRecord(doc, m) /\ BeginsRecord(doc, m)
        /\ \A j \in m + 1 .. m : ~BeginsRecord(doc, j)
    BY <1>1, <1>3, <1>7, <1>8 DEF AtTag
  <2>3. FoundUpTo(m)'
    BY <1>4, <1>6, <1>7, <2>1, <2>2, OneMoreFound
  <2>4. OpenRecordIs(m)'
    BY <2>1 DEF OpenRecordIs
  <2>5. OnTheWay(m)'
    <3>1. depth \in Nat \ {0}
      BY <1>2
    <3>2. Len(O2) = depth /\ \A i \in 1 .. Target : i <= depth => O2[i] = C[i]
      BY <1>2, <1>3, <1>8
    <3>3. QED
      BY <1>1, <1>6, <2>1, <3>1, <3>2, OnTheWayNext
  <2>6. Inside(m)'
    BY <1>1, <1>3, <1>5, <1>6, <2>3, <2>4, <2>5, InsideNext DEF AtTag
  <2>7. QED
    BY <1>1, <1>6, <2>6, FollowInside DEF AtTag
<1>9. CASE Kind(m) = "start"
  <2>1. records' = records /\ recordStart' = Begin(m) /\ depth' = depth + 1
    BY <1>1, <1>9 DEF RecordStartTag, AtTag
  <2>2. ~EndsRecord(doc, m)
    BY <1>3, <1>9
  <2>3. FoundUpTo(m)'
    BY <1>1, <1>4, <1>6, <2>1, <2>2, SameFound DEF AtTag
  <2>4. OpenRecordIs(m)'
    <3>1. /\ BeginsRecord(doc', m)
          /\ recordStart' = TokenStart(doc', m)
          /\ \A j \in m + 1 .. m : ~BeginsRecord(doc', j)
      BY <1>3, <1>6, <1>7, <2>1 DEF Begin
    <3>2. QED
      BY <1>7, <3>1 DEF OpenRecordIs
  <2>5. OnTheWay(m)'
    <3>1. depth + 1 \in Nat \ {0}
      BY <1>2
    <3>2. Len(O2) = depth + 1 /\ \A i \in 1 .. Target : i <= depth + 1 => O2[i] = C[i]
      <4> HIDE DEF O, O2, C
      <4>1. \A i \in 1 .. Target : i \in 1 .. Len(O) /\ i <= depth
        BY <1>2
      <4>2. QED
        BY <1>2, <1>3, <1>9, <4>1
    <3>3. QED
      BY <1>1, <1>6, <2>1, <3>1, <3>2, OnTheWayNext
  <2>6. Inside(m)'
    BY <1>1, <1>3, <1>5, <1>6, <2>3, <2>4, <2>5, InsideNext DEF AtTag
  <2>7. QED
    BY <1>1, <1>6, <2>6, FollowInside DEF AtTag
<1>10. QED
  BY <1>1, <1>8, <1>9

\* A container on the way may declare a namespace.
LEMMA ContainerFound ==
  ASSUME ScannerInv, NEW m \in 1 .. Len(doc.toks), FoundUpTo(m - 1), doc' = doc,
         records' = records, ~EndsRecord(doc, m), Descends(doc, m),
         nsFrom' = IF doc.toks[m].attrs = "xmlns" THEN Begin(m) ELSE nsFrom
  PROVE  FoundUpTo(m)'
<1>1. Len(doc.toks) \in Nat /\ doc \in Docs
  BY StateFacts, DocumentTypes
<1>2. RecordsUpTo(doc, m) = RecordsUpTo(doc, m - 1)
  BY <1>1, OneToken
<1>3. \A i \in 1 .. m : i \in 1 .. m - 1 \/ i = m
  BY <1>1
<1>4. m \in 1 .. m /\ \A i \in 1 .. m - 1 : i \in 1 .. m
  BY <1>1
<1>5. DeclaredAt(m) = IF doc.toks[m].attrs = "xmlns" THEN DeclaredAt(m - 1) \cup {Begin(m)}
                      ELSE DeclaredAt(m - 1)
  <2>1. CASE doc.toks[m].attrs = "xmlns"
    BY <1>3, <1>4, <2>1 DEF DeclaredAt, Begin
  <2>2. CASE doc.toks[m].attrs # "xmlns"
    BY <1>3, <1>4, <2>2 DEF DeclaredAt, Begin
  <2>3. QED
    BY <2>1, <2>2
<1>6. buf' = buf
  BY SameDocument
<1>7. RecordSlices' = RecordSlices /\ DeclaredAt(m)' = DeclaredAt(m)
  BY <1>6 DEF RecordSlices, DeclaredAt
<1>8. RecordSlices' = RecordsUpTo(doc', m)
  BY <1>2, <1>7 DEF FoundUpTo
<1>9. /\ nsFrom \in DeclaredAt(m - 1) \cup {NoPos}
      /\ \A at \in DeclaredAt(m - 1) : at <= nsFrom
  BY DEF FoundUpTo
<1>10. \A at \in DeclaredAt(m - 1) : at <= Begin(m)
  <2> SUFFICES ASSUME NEW at \in DeclaredAt(m - 1) PROVE at <= Begin(m)
    OBVIOUS
  <2>1. PICK i \in 1 .. m - 1 : at = TokenStart(doc, i)
    BY DEF DeclaredAt
  <2>2. i \in 1 .. Len(doc.toks) + 1 /\ m \in i .. Len(doc.toks) + 1
    BY <1>1
  <2>3. QED
    BY <1>1, <2>1, <2>2, TokensInOrder DEF Begin
<1>11. nsFrom' \in DeclaredAt(m)' \cup {NoPos} /\ \A at \in DeclaredAt(m)' : at <= nsFrom'
  <2>1. CASE doc.toks[m].attrs = "xmlns"
    <3>1. nsFrom' = Begin(m) /\ DeclaredAt(m)' = DeclaredAt(m - 1) \cup {Begin(m)}
      BY <1>5, <1>7, <2>1
    <3>2. Begin(m) <= Begin(m)
      <4>1. Begin(m) \in Nat
        BY <1>1, TokenAt
      <4>2. QED
        BY <4>1
    <3>3. QED
      BY <1>10, <3>1, <3>2
  <2>2. CASE doc.toks[m].attrs # "xmlns"
    <3>1. nsFrom' = nsFrom /\ DeclaredAt(m)' = DeclaredAt(m - 1)
      BY <1>5, <1>7, <2>2
    <3>2. QED
      BY <1>9, <3>1
  <2>3. QED
    BY <2>1, <2>2
<1>12. QED
  BY <1>8, <1>11 DEF FoundUpTo

\* The next container on the way is descended into.
LEMMA DescentStartTagFollows == ScannerInv /\ FollowInv /\ DescentStartTag => FollowInv'
<1> SUFFICES ASSUME ScannerInv, FollowInv, DescentStartTag PROVE FollowInv'
  OBVIOUS
<1>1. PICK m \in 1 .. Len(doc.toks) :
         /\ AtTag(m) /\ Kind(m) \in {"start", "empty"}
         /\ TagHere.slash <=> Kind(m) = "empty"
         /\ NameAt(Lt + 1) = <<doc.toks[m].name>>
  BY AtStartTag DEF DescentStartTag
<1> DEFINE O == Open(doc, m - 1)
           O2 == Open(doc, m)
           C == Container(doc)
<1>2. /\ depth \in Nat /\ depth >= 1 /\ skipDepth = 0 /\ Target \in Nat \ {0} /\ recordStart = NoPos
      /\ Len(O) = depth /\ depth < Target /\ O # C /\ IsPrefix(O, C)
      /\ \A i \in 1 .. Target : i <= depth => O[i] = C[i]
  <2>1. depth < Target /\ recordStart = NoPos
    BY DEF DescentStartTag
  <2>2. depth < Target /\ depth \in Nat /\ Target \in Nat => depth # Target
    OBVIOUS
  <2>3. QED
    BY <1>1, <2>1, <2>2, AroundTag
<1>3. C[depth + 1] = doc.toks[m].name
  <2>1. depth \in 1 .. Len(doc.path)
    <3>1. Target = Len(doc.path) + 1 /\ Len(doc.path) \in Nat
      <4>1. doc \in Docs
        BY <1>1 DEF AtTag
      <4>2. doc.path \in Seq(Names)
        BY <4>1, DocumentTypes
      <4>3. QED
        BY <4>2 DEF Target, TargetOf
    <3>2. QED
      BY <1>2, <3>1
  <2>2. C[depth + 1] = doc.path[depth]
    BY <1>1, <2>1, ContainerFacts DEF AtTag
  <2>3. <<doc.toks[m].name>> = <<doc.path[depth]>>
    BY <1>1 DEF DescentStartTag, DescentNameMatches
  <2>4. QED
    BY <2>2, <2>3
<1>4. /\ Kind(m) = "start" =>
           /\ Len(O2) = Len(O) + 1 /\ \A i \in 1 .. Len(O) : O2[i] = O[i]
           /\ O2[Len(O) + 1] = doc.toks[m].name
      /\ Kind(m) = "empty" => O2 = O
      /\ ~ClosesRoot(doc, m)
      /\ ~BeginsRecord(doc, m) /\ ~EndsRecord(doc, m)
      /\ Descends(doc, m)
  BY <1>1, <1>2, <1>3, StartTagIs
<1>5. /\ AttrsOk(DescentAttrs) <=> doc.toks[m].attrs # "bad"
      /\ AttrsOk(DescentAttrs) => (AttrsDeclare(DescentAttrs) <=> doc.toks[m].attrs = "xmlns")
  BY <1>1, AttrsAtToken DEF AtTag
<1>6. Legal(doc, m) <=> AttrsOk(DescentAttrs)
  BY <1>1, <1>4, <1>5, LegalIs DEF Kind, AtTag
<1>7. CASE AttrsOk(DescentAttrs)
  <2>1. /\ doc' = doc /\ pos' = End(m) /\ verdict' = "open" /\ phase' = "content" /\ skipDepth' = 0
        /\ UNCHANGED <<recordStart, records>>
        /\ depth' = IF Kind(m) = "empty" THEN depth ELSE depth + 1
        /\ nsFrom' = IF doc.toks[m].attrs = "xmlns" THEN Begin(m) ELSE nsFrom
    BY <1>1, <1>2, <1>5, <1>7 DEF DescentStartTag, ContentStartTag, MoveTo, AtTag
  <2>2. OnTheWay(m)'
    <3> DEFINE d == IF Kind(m) = "empty" THEN depth ELSE depth + 1
    <3>1. d \in Nat \ {0} /\ depth' = d
      BY <1>2, <2>1
    <3>2. Len(O2) = d /\ \A i \in 1 .. Target : i <= d => O2[i] = C[i]
      <4> HIDE DEF O, O2, C
      <4>1. \A i \in 1 .. Target : i <= d =>
               (i \in 1 .. Len(O) /\ i <= depth) \/ (Kind(m) # "empty" /\ i = depth + 1)
        BY <1>2
      <4>2. QED
        BY <1>1, <1>2, <1>3, <1>4, <4>1
    <3> HIDE DEF d
    <3>3. QED
      BY <1>1, <2>1, <3>1, <3>2, OnTheWayNext
  <2>3. OpenRecordIs(m)'
    BY <1>1, <1>4, <2>1, SameOpenRecordIs DEF AtTag
  <2>4. FoundUpTo(m)'
    BY <1>1, <1>4, <2>1, ContainerFound DEF AtTag
  <2>5. Inside(m)'
    BY <1>1, <1>4, <1>6, <1>7, <2>1, <2>2, <2>3, <2>4, InsideNext DEF AtTag
  <2>6. QED
    BY <1>1, <2>1, <2>5, FollowInside DEF AtTag
<1>8. CASE ~AttrsOk(DescentAttrs)
  <2>1. Refuse
    BY <1>8 DEF DescentStartTag
  <2>2. \A j \in 1 .. m - 1 : ~ClosesRoot(doc, j)
    BY <1>1 DEF AtTag, Inside
  <2>3. doc \in Docs /\ phase # "trailing"
    BY <1>1 DEF AtTag
  <2>4. ~Acceptable
    BY <1>6, <1>8, <2>2, <2>3, NotAcceptable
  <2>5. QED
    BY <2>1, <2>4, RefuseFollows
<1>9. QED
  BY <1>7, <1>8

(***************************************************************************)
(* Behind the root.                                                        *)
(***************************************************************************)

\* skip_trailing_misc stops at the first token that is not whitespace, or in it.
LEMMA RestIs ==
  ASSUME ScannerInv, NEW k \in 0 .. Len(doc.toks), pos = Begin(k + 1)
  PROVE  \/ /\ Rest = Len(buf)
            /\ \A j \in k + 1 .. Len(doc.toks) : Kind(j) = "space"
         \/ /\ Rest < Len(buf)
            /\ \E m \in k + 1 .. Len(doc.toks) :
                 /\ Kind(m) # "space"
                 /\ \A j \in k + 1 .. m - 1 : Kind(j) = "space"
                 /\ Kind(m) # "text" => Rest = Begin(m)
                 /\ Kind(m) = "text" => buf[Rest + 1] # "<"
<1> DEFINE n == Len(doc.toks)
           at == {p \in pos .. Len(buf) - 1 : ~IsWs(buf[p + 1])}
           T == {m \in k + 1 .. n : Kind(m) # "space"}
<1>1. doc \in Docs /\ n \in Nat /\ k \in Nat /\ Len(buf) \in Nat /\ pos \in Nat /\ pos <= Len(buf)
  BY StateFacts, DocumentTypes
<1>2. {Len(buf)} \cup at \subseteq Nat
  BY <1>1
<1>3. /\ Rest \in {Len(buf)} \cup at
      /\ \A y \in {Len(buf)} \cup at : Rest <= y
  <2> HIDE DEF at
  <2>1. Rest = Min({Len(buf)} \cup at)
    BY DEF Rest, at
  <2>2. QED
    BY <1>2, <2>1, MinIsLeast
<1>4. ASSUME NEW m \in k + 1 .. n + 1, \A j \in k + 1 .. m - 1 : Kind(j) = "space"
      PROVE  \A x \in pos + 1 .. Begin(m) : IsWs(buf[x])
  <2>1. \A j \in k + 1 .. m - 1 : Kind(j) \in CharacterData
    BY <1>4 DEF CharacterData
  <2>2. QED
    BY <1>1, <1>4, <2>1, OnlySpace
<1>5. CASE T = {}
  <2>1. \A j \in k + 1 .. n : Kind(j) = "space"
    BY <1>5
  <2>2. \A x \in pos + 1 .. Begin(n + 1) : IsWs(buf[x])
    <3>1. n + 1 \in k + 1 .. n + 1 /\ \A j \in k + 1 .. n + 1 - 1 : j \in k + 1 .. n
      BY <1>1
    <3>2. QED
      BY <1>4, <2>1, <3>1
  <2>3. Begin(n + 1) = Len(buf)
    BY <1>1, TokenPlaces DEF Begin, buf, Input
  <2>4. at = {}
    <3>1. \A p \in pos .. Len(buf) - 1 : p + 1 \in pos + 1 .. Len(buf)
      BY <1>1
    <3>2. QED
      BY <2>2, <2>3, <3>1
  <2>5. QED
    BY <1>3, <2>1, <2>4
<1>6. CASE T # {}
  <2>1. T \subseteq Nat
    BY <1>1
  <2> HIDE DEF T
  <2>2. PICK m \in T : \A y \in T : m <= y
    BY <1>6, <2>1, LeastNatural
  <2>3. m \in k + 1 .. n /\ m \in 1 .. n /\ Kind(m) # "space" /\ m \in k + 1 .. n + 1
    BY <1>1, <2>2 DEF T
  <2>4. \A j \in k + 1 .. m - 1 : Kind(j) = "space"
    <3> SUFFICES ASSUME NEW j \in k + 1 .. m - 1, Kind(j) # "space" PROVE FALSE
      OBVIOUS
    <3>1. j \in k + 1 .. n /\ ~(m <= j)
      BY <1>1, <2>3
    <3>2. QED
      BY <2>2, <3>1 DEF T
  <2>5. \A x \in pos + 1 .. Begin(m) : IsWs(buf[x])
    BY <1>4, <2>3, <2>4
  <2>6. Begin(m) \in Nat /\ End(m) \in Nat /\ Begin(m) < End(m) /\ End(m) <= Len(buf)
    BY <1>1, <2>3, TokenAt
  <2>7. pos <= Begin(m)
    <3>1. k + 1 \in 1 .. n + 1 /\ m \in k + 1 .. n + 1
      BY <1>1, <2>3
    <3>2. PICK a \in 1 .. n + 1 : a = k + 1
      BY <3>1
    <3>3. QED
      BY <1>1, <3>1, <3>2, TokensInOrder DEF Begin
  <2>8. ASSUME NEW x \in Begin(m) + 1 .. End(m), ~IsWs(buf[x]) PROVE Rest <= x - 1
    <3>1. x - 1 \in pos .. Len(buf) - 1 /\ (x - 1) + 1 = x
      BY <1>1, <2>6, <2>7
    <3>2. PICK p \in pos .. Len(buf) - 1 : p = x - 1 /\ p + 1 = x
      BY <3>1
    <3>3. QED
      BY <1>3, <2>8, <3>2
  <2>9. \E x \in Begin(m) + 1 .. End(m) : ~IsWs(buf[x]) /\ (Kind(m) # "text" => x = Begin(m) + 1)
    <3>1. CASE Kind(m) = "text"
      BY <1>1, <2>3, <3>1, TokenIs
    <3>2. CASE Kind(m) # "text"
      <4>1. buf[Begin(m) + 1] = "<"
        BY <1>1, <2>3, <3>2, MarkupBegins
      <4>2. ~IsWs("<")
        BY DEF IsWs
      <4>3. Begin(m) + 1 \in Begin(m) + 1 .. End(m)
        BY <2>6
      <4>4. QED
        BY <4>1, <4>2, <4>3
    <3>3. QED
      BY <3>1, <3>2
  <2>10. PICK x \in Begin(m) + 1 .. End(m) :
            ~IsWs(buf[x]) /\ (Kind(m) # "text" => x = Begin(m) + 1)
    BY <2>9
  <2>11. Rest <= x - 1 /\ Rest \in Nat
    BY <1>2, <1>3, <2>8, <2>10
  <2>12. Rest < Len(buf)
    BY <1>1, <2>6, <2>11
  <2>13. Begin(m) <= Rest
    <3>1. Rest \in at
      BY <1>1, <1>3, <2>12
    <3>2. ASSUME ~(Begin(m) <= Rest) PROVE FALSE
      <4>1. Rest + 1 \in pos + 1 .. Begin(m) /\ ~IsWs(buf[Rest + 1])
        BY <1>1, <2>6, <2>11, <3>1, <3>2
      <4>2. QED
        BY <2>5, <4>1
    <3>3. QED
      BY <3>2
  <2>14. Kind(m) # "text" => Rest = Begin(m)
    BY <2>6, <2>10, <2>11, <2>13
  <2>15. Kind(m) = "text" => buf[Rest + 1] # "<"
    <3>1. Rest + 1 \in Begin(m) + 1 .. End(m)
      BY <2>6, <2>10, <2>11, <2>13
    <3>2. Kind(m) = "text" => \A y \in Begin(m) + 1 .. End(m) : buf[y] # "<"
      BY <1>1, <2>3, TokenIs
    <3>3. QED
      BY <3>1, <3>2
  <2>16. QED
    BY <2>3, <2>4, <2>12, <2>14, <2>15
<1>7. QED
  BY <1>5, <1>6

\* Behind the root all tokens but the last iteration's are passed as misc.
LEMMA BehindRoot ==
  ASSUME ScannerInv, FollowInv, Trailing
  PROVE  \E k \in 0 .. Len(doc.toks), c \in 0 .. Len(doc.toks) :
            pos = Begin(k + 1) /\ c <= k /\ Outside(c, k)
<1>1. Len(doc.toks) \in Nat
  BY StateFacts, DocumentTypes
<1>2. PICK k \in 0 .. Len(doc.toks) :
         pos = TokenStart(doc, k + 1) /\ \E c \in 0 .. k : Outside(c, k)
  BY DEF FollowInv, Trailing
<1>3. PICK c \in 0 .. k : Outside(c, k)
  BY <1>2
<1>4. c \in 0 .. Len(doc.toks) /\ c <= k
  BY <1>1
<1>5. QED
  BY <1>2, <1>3, <1>4 DEF Begin

\* Whitespace and at most one comment or PI further.
LEMMA FollowOutside ==
  ASSUME ScannerInv, NEW k \in 0 .. Len(doc.toks), NEW c \in 0 .. Len(doc.toks), c <= k,
         Outside(c, k), NEW z \in k .. Len(doc.toks),
         \A j \in k + 1 .. z : Kind(j) \in {"space", "misc"},
         pos' = Begin(z + 1), doc' = doc, phase' = "trailing",
         UNCHANGED <<elementVars, records>>, verdict' = "open" \/ z = Len(doc.toks),
         verdict' # "malformed"
  PROVE  FollowInv'
<1>1. Len(doc.toks) \in Nat /\ z \in 0 .. Len(doc.toks) /\ c \in 0 .. z
  BY StateFacts, DocumentTypes
<1>2. \A j \in c + 1 .. z : j \in c + 1 .. k \/ j \in k + 1 .. z
  BY <1>1
<1>3. buf' = buf
  BY SameDocument
<1>4. Outside(c, z)'
  <2>1. \A j \in c + 1 .. z : doc'.toks[j].kind \in {"space", "misc"}
    BY <1>2 DEF Outside, Kind
  <2>2. FoundUpTo(c) => FoundUpTo(c)'
    BY <1>3 DEF FoundUpTo, RecordSlices, DeclaredAt, elementVars
  <2>3. QED
    BY <2>1, <2>2 DEF Outside, elementVars
<1>5. pos' = TokenStart(doc', z + 1)
  BY DEF Begin
<1>6. QED
  BY <1>1, <1>4, <1>5 DEF FollowInv

\* A comment or a PI behind the root is passed as a whole.
LEMMA TrailingMiscFollows == ScannerInv /\ FollowInv /\ TrailingMisc => FollowInv'
<1> SUFFICES ASSUME ScannerInv, FollowInv, TrailingMisc PROVE FollowInv'
  OBVIOUS
<1>1. /\ doc \in Docs /\ Len(doc.toks) \in Nat /\ Len(buf) \in Nat
      /\ Trailing /\ Rest \in Nat
  <2>1. Rest \in pos .. Len(buf) /\ pos \in Nat /\ Len(buf) \in Nat
    BY RestFacts, StateFacts
  <2>2. Rest \in Nat
    BY <2>1
  <2>3. QED
    BY <2>1, <2>2, StateFacts, DocumentTypes DEF TrailingMisc
<1>2. PICK k \in 0 .. Len(doc.toks), c \in 0 .. Len(doc.toks) :
         pos = Begin(k + 1) /\ c <= k /\ Outside(c, k)
  BY <1>1, BehindRoot
<1>3. PICK s \in MiscAt(Rest) : SpanEnd(Rest, s) # NoPos /\ MoveTo(SpanEnd(Rest, s))
  BY DEF TrailingMisc
<1>4. s \in SpanAt(Rest) /\ s.close # <<"]", "]", ">">>
  BY <1>3 DEF MiscAt
<1>5. Rest + 2 <= Len(buf) /\ buf[Rest + 1] = "<"
  BY <1>1, <1>4, SpanOpens
<1>6. PICK m \in k + 1 .. Len(doc.toks) :
         /\ Kind(m) # "space" /\ \A j \in k + 1 .. m - 1 : Kind(j) = "space"
         /\ Kind(m) # "text" => Rest = Begin(m)
         /\ Kind(m) = "text" => buf[Rest + 1] # "<"
  <2>1. Rest # Len(buf)
    BY <1>1, <1>5
  <2>2. QED
    BY <1>2, <2>1, RestIs
<1>7. Kind(m) # "text" /\ Rest = Begin(m) /\ m \in 1 .. Len(doc.toks)
  BY <1>1, <1>5, <1>6
<1>8. Kind(m) = "misc" /\ SpanEnd(Rest, s) = End(m)
  <2>1. s \in SpanAt(Begin(m)) /\ SpanEnd(Begin(m), s) # NoPos
    BY <1>3, <1>4, <1>7
  <2>2. /\ Kind(m) \in {"misc", "cdata"} =>
              \E t \in SpanAt(Begin(m)) :
                  /\ SpanEnd(Begin(m), t) = End(m)
                  /\ SpanAt(Begin(m)) = {t}
                  /\ Kind(m) = "misc" <=> t.close # <<"]", "]", ">">>
        /\ Kind(m) \in {"end", "start", "empty"} => SpanAt(Begin(m)) = {}
        /\ Kind(m) = "broken" => \A t \in SpanAt(Begin(m)) : SpanEnd(Begin(m), t) = NoPos
    BY <1>1, <1>7, SpansAtToken
  <2>3. Kind(m) \in {"misc", "cdata"}
    BY <1>1, <1>6, <1>7, <2>1, <2>2, TokenAt
  <2>4. PICK t \in SpanAt(Begin(m)) :
           /\ SpanEnd(Begin(m), t) = End(m)
           /\ SpanAt(Begin(m)) = {t}
           /\ Kind(m) = "misc" <=> t.close # <<"]", "]", ">">>
    BY <2>2, <2>3
  <2>5. s = t
    BY <2>1, <2>4
  <2>6. QED
    BY <1>4, <1>7, <2>4, <2>5
<1>9. /\ pos' = Begin(m + 1) /\ doc' = doc /\ phase' = "trailing" /\ verdict' = "open"
      /\ UNCHANGED <<elementVars, records>>
  BY <1>1, <1>3, <1>8 DEF TrailingMisc, MoveTo, Trailing, End, Begin
<1>10. m \in k .. Len(doc.toks) /\ \A j \in k + 1 .. m : Kind(j) \in {"space", "misc"}
  <2>1. m \in k .. Len(doc.toks) /\ \A j \in k + 1 .. m : j \in k + 1 .. m - 1 \/ j = m
    BY <1>1
  <2>2. QED
    BY <1>6, <1>8, <2>1
<1>11. QED
  BY <1>2, <1>9, <1>10, FollowOutside

\* Anything else behind the root.
LEMMA TrailingJunkFollows == ScannerInv /\ FollowInv /\ TrailingJunk => FollowInv'
<1> SUFFICES ASSUME ScannerInv, FollowInv, TrailingJunk PROVE FollowInv'
  OBVIOUS
<1>1. /\ doc \in Docs /\ Len(doc.toks) \in Nat /\ DOMAIN doc.toks = 1 .. Len(doc.toks)
      /\ Trailing /\ Rest < Len(buf) /\ Len(buf) \in Nat /\ Rest \in Nat
  <2>1. Rest \in pos .. Len(buf) /\ pos \in Nat /\ Len(buf) \in Nat
    BY RestFacts, StateFacts
  <2>2. Rest \in Nat
    BY <2>1
  <2>3. QED
    BY <2>1, <2>2, StateFacts, DocumentTypes DEF TrailingJunk
<1>2. PICK k \in 0 .. Len(doc.toks), c \in 0 .. Len(doc.toks) :
         pos = Begin(k + 1) /\ c <= k /\ Outside(c, k)
  BY <1>1, BehindRoot
<1>3. PICK m \in k + 1 .. Len(doc.toks) : Kind(m) # "space" /\ (Kind(m) # "text" => Rest = Begin(m))
  <2>1. Rest # Len(buf)
    BY <1>1
  <2>2. QED
    BY <1>2, <2>1, RestIs
<1>4. m \in 1 .. Len(doc.toks) /\ m \in c + 1 .. Len(doc.toks) /\ m \in 0 + 1 .. Len(doc.toks)
  BY <1>1, <1>2
<1>5. Kind(m) # "misc"
  <2>1. SUFFICES ASSUME Kind(m) = "misc" PROVE FALSE
    OBVIOUS
  <2>2. PICK s \in SpanAt(Begin(m)) : SpanEnd(Begin(m), s) = End(m) /\ s.close # <<"]", "]", ">">>
    BY <1>1, <1>4, <2>1, SpansAtToken
  <2>3. Rest = Begin(m) /\ s \in MiscAt(Rest)
    BY <1>3, <2>1, <2>2 DEF MiscAt
  <2>4. SpanEnd(Rest, s) = NoPos
    BY <2>3 DEF TrailingJunk
  <2>5. End(m) \in Nat
    BY <1>1, <1>4, TokenAt
  <2>6. QED
    BY <2>2, <2>3, <2>4, <2>5 DEF NoPos
<1>6. doc.toks[m].kind \notin {"space", "misc"}
  BY <1>3, <1>5 DEF Kind
<1>7. ~OnlyMiscAfter(doc, 0) /\ ~OnlyMiscAfter(doc, c)
  BY <1>4, <1>6 DEF OnlyMiscAfter
<1>8. ~Acceptable
  <2>1. CASE SelfClosingRoot
    BY <1>7, <2>1 DEF Acceptable
  <2>2. CASE ~SelfClosingRoot
    <3>1. c # 0 /\ Closes(doc, c)
      BY <1>1, <1>2, <2>2 DEF Outside, SelfClosingRoot, Trailing
    <3>2. c \in 1 .. Len(doc.toks)
      BY <1>1, <3>1
    <3>3. \A b \in 1 .. Len(doc.toks) : Closes(doc, b) => b = c
      BY <1>1, <3>1, <3>2, OneClose
    <3>4. QED
      BY <1>1, <1>7, <2>2, <3>3 DEF Acceptable
  <2>3. QED
    BY <2>1, <2>2
<1>9. QED
  BY <1>8, RefuseFollows DEF TrailingJunk

\* Nothing is left.
LEMMA DoneFollows == ScannerInv /\ FollowInv /\ Done => FollowInv'
<1> SUFFICES ASSUME ScannerInv, FollowInv, Done PROVE FollowInv'
  OBVIOUS
<1>1. doc \in Docs /\ Len(doc.toks) \in Nat /\ Trailing /\ Rest = Len(buf)
  BY StateFacts, DocumentTypes DEF Done
<1>2. PICK k \in 0 .. Len(doc.toks), c \in 0 .. Len(doc.toks) :
         pos = Begin(k + 1) /\ c <= k /\ Outside(c, k)
  BY <1>1, BehindRoot
<1>3. \A j \in k + 1 .. Len(doc.toks) : Kind(j) = "space"
  <2>1. ~(Rest < Len(buf))
    <3>1. Len(buf) \in Nat
      BY StateFacts
    <3>2. QED
      BY <1>1, <3>1
  <2>2. QED
    BY <1>2, <2>1, RestIs
<1>4. Len(doc.toks) \in k .. Len(doc.toks) /\ \A j \in k + 1 .. Len(doc.toks) : Kind(j) \in {"space", "misc"}
  BY <1>1, <1>3
<1>5. Begin(Len(doc.toks) + 1) = Len(buf)
  BY <1>1, TokenPlaces DEF Begin, buf, Input
<1>6. /\ pos' = Begin(Len(doc.toks) + 1) /\ doc' = doc /\ phase' = "trailing" /\ verdict' = "ok"
      /\ UNCHANGED <<elementVars, records>>
  BY <1>1, <1>5 DEF Done, Trailing
<1>7. verdict' # "malformed"
  BY <1>6
<1>8. QED
  BY <1>2, <1>4, <1>6, <1>7, FollowOutside

(***************************************************************************)
(* The invariant.                                                          *)
(***************************************************************************)
LEMMA InitFollows == ScannerInv /\ Init => FollowInv
<1> SUFFICES ASSUME ScannerInv, Init PROVE FollowInv
  OBVIOUS
<1>1. doc \in Docs /\ Len(doc.toks) \in Nat
  BY StateFacts, DocumentTypes
<1>2. /\ pos = Len(Prolog) /\ phase \in {"content", "trailing"} /\ depth = 1 /\ recordStart = NoPos
      /\ skipDepth = 0 /\ nsFrom = NoPos /\ records = <<>> /\ verdict = "open"
  BY DEF Init
<1>3. 0 \in 0 .. Len(doc.toks) /\ 1 .. 0 = {} /\ 0 \in 0 .. 0 /\ 0 + 1 = 1
  BY <1>1
<1>4. pos = TokenStart(doc, 0 + 1)
  BY <1>1, <1>2, TokenPlaces
<1>5. OnTheWay(0)
  <2>1. Open(doc, 0) = <<RootName>> /\ Container(doc)[1] = RootName /\ Len(Container(doc)) \in Nat
    BY <1>1, OpenUnfolds, ContainerFacts
  <2>2. Len(Open(doc, 0)) = 1 /\ Open(doc, 0)[1] = RootName
    BY <2>1
  <2>3. \A i \in 1 .. Len(Container(doc)) : i <= 1 => i = 1
    BY <2>1
  <2>4. \A i \in 1 .. Len(Container(doc)) : i <= depth => Open(doc, 0)[i] = Container(doc)[i]
    BY <1>2, <2>1, <2>2, <2>3
  <2>5. QED
    BY <1>2, <2>2, <2>4 DEF OnTheWay
<1>6. OpenRecordIs(0)
  BY <1>2 DEF OpenRecordIs
<1>7. FoundUpTo(0)
  <2>1. DeclaredAt(0) = {}
    BY <1>3 DEF DeclaredAt
  <2>2. RecordSlices = <<>>
    BY <1>2 DEF RecordSlices
  <2>3. RecordsUpTo(doc, 0) = <<>>
    BY <1>1, RecordsUnfold
  <2>4. QED
    BY <1>2, <2>1, <2>2, <2>3 DEF FoundUpTo
<1>8. Inside(0)
  BY <1>3, <1>5, <1>6, <1>7 DEF Inside
<1>9. Outside(0, 0)
  BY <1>2, <1>3 DEF Outside
<1>10. QED
  BY <1>2, <1>3, <1>4, <1>8, <1>9 DEF FollowInv

\* Every step follows the document.
LEMMA NextFollows == ScannerInv /\ FollowInv /\ [Next]_vars => FollowInv'
<1> SUFFICES ASSUME ScannerInv, FollowInv, [Next]_vars PROVE FollowInv'
  OBVIOUS
<1>1. CASE Unframed
  BY <1>1, UnframedFollows
<1>2. CASE SkipSpan
  BY <1>2, SkipSpanFollows
<1>3. CASE SubtreeTag
  BY <1>3, SubtreeTagFollows
<1>4. CASE RootEndTag
  BY <1>4, RootEndTagFollows
<1>5. CASE EndTag
  BY <1>5, EndTagFollows
<1>6. CASE NestedStartTag
  BY <1>6, NestedStartTagFollows
<1>7. CASE RecordStartTag
  BY <1>7, RecordStartTagFollows
<1>8. CASE DescentStartTag
  BY <1>8, DescentStartTagFollows
<1>9. CASE SiblingStartTag
  BY <1>9, SiblingStartTagFollows
<1>10. CASE TrailingMisc
  BY <1>10, TrailingMiscFollows
<1>11. CASE TrailingJunk
  BY <1>11, TrailingJunkFollows
<1>12. CASE Done
  BY <1>12, DoneFollows
<1>13. CASE UNCHANGED vars
  <2>1. /\ doc' = doc /\ pos' = pos /\ phase' = phase /\ depth' = depth
        /\ recordStart' = recordStart /\ skipDepth' = skipDepth /\ nsFrom' = nsFrom
        /\ records' = records /\ verdict' = verdict
    BY <1>13 DEF vars, elementVars
  <2>2. RecordSlices' = RecordSlices /\ Acceptable' = Acceptable
    <3>1. buf' = buf
      BY <2>1, SameDocument
    <3>2. QED
      BY <2>1, <3>1 DEF RecordSlices, Acceptable, SelfClosingRoot
  <2>3. \A k : Inside(k)' = Inside(k)
    BY <2>1, <2>2 DEF Inside, OnTheWay, OpenRecordIs, FoundUpTo, DeclaredAt
  <2>4. \A k, c : Outside(c, k)' = Outside(c, k)
    BY <2>1, <2>2 DEF Outside, FoundUpTo, DeclaredAt
  <2>5. QED
    BY <2>1, <2>2, <2>3, <2>4 DEF FollowInv
<1>14. QED
  BY <1>1, <1>2, <1>3, <1>4, <1>5, <1>6, <1>7, <1>8, <1>9, <1>10, <1>11, <1>12, <1>13
     DEF Next, Decided

\* The scan follows the document token by token: what it has counted, opened, found
\* and declared is what RecordRules says of the tokens behind it.
THEOREM FollowInvariant == Spec => []FollowInv
<1>1. Init => FollowInv
  BY InitScannerInv, InitFollows
<1>2. ScannerInv /\ FollowInv /\ [Next]_vars => FollowInv'
  BY NextFollows
<1>3. QED
  BY <1>1, <1>2, ScannerInvariant, PTL DEF Spec

\* A scan that follows the document has the right answer.
LEMMA IndexFollows == ScannerInv /\ FollowInv => IndexExact
<1> SUFFICES ASSUME ScannerInv, FollowInv PROVE IndexExact
  OBVIOUS
<1>1. doc \in Docs /\ Len(doc.toks) \in Nat /\ DOMAIN doc.toks = 1 .. Len(doc.toks)
  BY StateFacts, DocumentTypes
<1>2. verdict = "malformed" => ~Acceptable
  BY DEF FollowInv
<1>3. SUFFICES ASSUME verdict = "ok"
               PROVE  /\ Acceptable
                      /\ RecordSlices = IF SelfClosingRoot THEN <<>> ELSE RecordsUpTo(doc, CloseToken)
                      /\ nsFrom = IF SelfClosingRoot THEN NoPos ELSE Max(Declarers \cup {NoPos})
  BY <1>2 DEF IndexExact
<1>4. PICK c \in 0 .. Len(doc.toks) : phase = "trailing" /\ Outside(c, Len(doc.toks))
  BY <1>3 DEF FollowInv
<1>5. OnlyMiscAfter(doc, c)
  BY <1>4 DEF Outside, OnlyMiscAfter
<1>6. CASE c = 0
  <2>1. SelfClosingRoot /\ records = <<>> /\ nsFrom = NoPos
    BY <1>4, <1>6 DEF Outside, SelfClosingRoot
  <2>2. RecordSlices = <<>>
    BY <2>1 DEF RecordSlices
  <2>3. QED
    BY <1>5, <1>6, <2>1, <2>2 DEF Acceptable
<1>7. CASE c # 0
  <2>1. /\ c \in 1 .. Len(doc.toks) /\ ~SelfClosingRoot /\ Closes(doc, c) /\ FoundUpTo(c)
    BY <1>1, <1>4, <1>7 DEF Outside, SelfClosingRoot
  <2>2. Acceptable
    BY <1>1, <1>5, <2>1 DEF Acceptable
  <2>3. CloseToken = c
    <3>1. \A b \in 1 .. Len(doc.toks) : Closes(doc, b) => b = c
      BY <1>1, <2>1, OneClose
    <3>2. CloseToken = CHOOSE b \in 1 .. Len(doc.toks) : Closes(doc, b)
      BY <1>1 DEF CloseToken
    <3>3. QED
      BY <2>1, <3>1, <3>2
  <2>4. Declarers = DeclaredAt(c)
    BY <2>3 DEF Declarers, DeclaredAt
  <2>5. Max(DeclaredAt(c) \cup {NoPos}) = nsFrom
    <3> DEFINE S == DeclaredAt(c) \cup {NoPos}
    <3>1. S \subseteq Int
      <4>1. \A j \in 1 .. c : TokenStart(doc, j) \in Nat
        <5>1. \A j \in 1 .. c : j \in 1 .. Len(doc.toks) + 1
          BY <1>1, <2>1
        <5>2. QED
          BY <1>1, <5>1, TokenPlaces
      <4>2. QED
        BY <4>1 DEF DeclaredAt, NoPos
    <3>2. nsFrom \in S /\ \A y \in S : nsFrom >= y
      <4>1. nsFrom \in S /\ \A y \in DeclaredAt(c) : y <= nsFrom
        BY <2>1 DEF FoundUpTo
      <4>2. NoPos <= nsFrom
        <5>1. \A j \in 1 .. c : TokenStart(doc, j) \in Nat
          <6>1. \A j \in 1 .. c : j \in 1 .. Len(doc.toks) + 1
            BY <1>1, <2>1
          <6>2. QED
            BY <1>1, <6>1, TokenPlaces
        <5>2. nsFrom = NoPos \/ nsFrom \in Nat
          BY <4>1, <5>1 DEF DeclaredAt
        <5>3. QED
          BY <5>2 DEF NoPos
      <4>3. QED
        BY <3>1, <4>1, <4>2
    <3> HIDE DEF S
    <3>3. Max(S) \in S /\ \A y \in S : Max(S) >= y
      BY <3>2, Zenon DEF Max
    <3>4. Max(S) >= nsFrom /\ nsFrom >= Max(S) /\ Max(S) \in Int /\ nsFrom \in Int
      BY <3>1, <3>2, <3>3
    <3>5. Max(S) = nsFrom
      BY <3>4
    <3>6. QED
      BY <3>5 DEF S
  <2>6. QED
    BY <2>1, <2>2, <2>3, <2>4, <2>5 DEF FoundUpTo
<1>8. QED
  BY <1>6, <1>7

\* The scan accepts a document if and only if RecordRules does, and then its index is
\* the document's records, byte for byte and in order, with the namespace declared last
\* on the way to them.
THEOREM IndexIsExact == Spec => []IndexExact
BY ScannerInvariant, FollowInvariant, IndexFollows, PTL

\* It has counted the open elements.
LEMMA DepthsFollow == ScannerInv /\ FollowInv => DepthsFollowDocument
<1> SUFFICES ASSUME ScannerInv, FollowInv, verdict = "open", phase # "trailing"
             PROVE  depth + skipDepth = Len(Open(doc, Consumed)) /\ CountersAgree
  BY DEF DepthsFollowDocument
<1>1. doc \in Docs /\ Len(doc.toks) \in Nat /\ DOMAIN doc.toks = 1 .. Len(doc.toks)
  BY StateFacts, DocumentTypes
<1>2. PICK k \in 0 .. Len(doc.toks) : pos = Begin(k + 1) /\ Inside(k)
  BY DEF FollowInv, Begin
<1> DEFINE passed == {j \in DOMAIN doc.toks : doc.toks[j].kind # "broken" /\ TokenStart(doc, j + 1) <= pos}
<1>3. \A j \in 1 .. k : j \in passed
  <2> SUFFICES ASSUME NEW j \in 1 .. k PROVE j \in passed
    OBVIOUS
  <2>1. j \in 1 .. Len(doc.toks) /\ j + 1 \in 1 .. Len(doc.toks) + 1 /\ k + 1 \in j + 1 .. Len(doc.toks) + 1
    BY <1>1
  <2>2. PICK a \in 1 .. Len(doc.toks) + 1 : a = j + 1
    BY <2>1
  <2>3. TokenStart(doc, j + 1) <= pos
    BY <1>1, <1>2, <2>1, <2>2, TokensInOrder DEF Begin
  <2>4. doc.toks[j].kind # "broken"
    BY <1>1, <1>2, <2>1, LegalIs DEF Inside
  <2>5. QED
    BY <1>1, <2>1, <2>3, <2>4
<1>4. ASSUME NEW j \in passed PROVE j \in 1 .. k
  <2>1. j \in 1 .. Len(doc.toks) /\ TokenStart(doc, j + 1) <= pos
    BY <1>1
  <2>2. SUFFICES ASSUME ~(j <= k) PROVE FALSE
    BY <1>1, <2>1
  <2>3. /\ k + 1 \in 1 .. Len(doc.toks) + 1 /\ j + 1 \in k + 1 .. Len(doc.toks) + 1
        /\ k + 1 < j + 1 /\ j + 1 \in 1 .. Len(doc.toks) + 1
    BY <1>1, <2>1, <2>2
  <2>4. PICK a \in 1 .. Len(doc.toks) + 1 : a = k + 1
    BY <2>3
  <2>5. TokenStart(doc, k + 1) < TokenStart(doc, j + 1)
    BY <1>1, <2>3, <2>4, TokensInOrder
  <2>6. TokenStart(doc, k + 1) \in Nat /\ TokenStart(doc, j + 1) \in Nat
    BY <1>1, <2>3, TokenPlaces
  <2>7. QED
    BY <1>2, <2>1, <2>5, <2>6 DEF Begin
<1>5. passed = 1 .. k
  <2> HIDE DEF passed
  <2>1. QED
    BY <1>3, <1>4
<1>6. Consumed = k
  <2>1. Consumed = Cardinality(1 .. k)
    BY <1>5 DEF Consumed
  <2>2. k \in Nat
    BY <1>1
  <2>3. Cardinality(1 .. k) = IF 1 > k THEN 0 ELSE k - 1 + 1
    BY <2>2, FS_Interval
  <2>4. QED
    BY <2>1, <2>2, <2>3
<1>7. Len(Open(doc, k)) = depth + skipDepth
  BY <1>2 DEF Inside, OnTheWay
<1>8. QED
  BY <1>6, <1>7 DEF ScannerInv

\* While the scan is inside the root its two counters add up to the number of the
\* elements that are really open.
THEOREM ScannerDepthsFollow == Spec => []DepthsFollowDocument
BY ScannerInvariant, FollowInvariant, DepthsFollow, PTL
===============================================================================
