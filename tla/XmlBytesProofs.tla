---------------------------- MODULE XmlBytesProofs -----------------------------
(***************************************************************************)
(* Lemmas about the helpers of XmlBytes, which the proofs about the        *)
(* framers, the scanner and the reader rest on.                            *)
(***************************************************************************)
EXTENDS XmlBytes, Integers, SequenceTheorems, WellFoundedInduction, TLAPS

(***************************************************************************)
(* A nonempty set of naturals has a least element.  What the code finds by *)
(* searching forward is that element of the positions that match; and an   *)
(* argument by induction looks at the least counterexample.                *)
(***************************************************************************)
LEMMA LeastNatural ==
  ASSUME NEW T, T \subseteq Nat, T # {}
  PROVE  \E x \in T : \A y \in T : x <= y
<1>1. PICK x \in T : \A y \in T : ~ (<<y, x>> \in OpToRel(<, Nat))
  BY NatLessThanWellFounded, WFMin
<1>2. \A y \in T : ~ (y < x)
  BY <1>1 DEF OpToRel
<1>3. QED
  BY <1>2

\* What Min chooses exists.
LEMMA MinIsLeast ==
  ASSUME NEW T, T \subseteq Nat, T # {}
  PROVE  Min(T) \in T /\ \A y \in T : Min(T) <= y
BY LeastNatural, Zenon DEF Min

\* The larger of two integers.
LEMMA MaxOfTwo ==
  ASSUME NEW x \in Int, NEW y \in Int
  PROVE  Max({x, y}) = IF x >= y THEN x ELSE y
<1>1. \E z \in {x, y} : \A w \in {x, y} : z >= w
  OBVIOUS
<1>2. /\ Max({x, y}) \in {x, y}
      /\ \A w \in {x, y} : Max({x, y}) >= w
  BY <1>1, Zenon DEF Max
<1>3. QED
  BY <1>2

(***************************************************************************)
(* skip_ws_at and the end of a name: everything in between is whitespace,  *)
(* or part of the name, and what stands there is not.                      *)
(***************************************************************************)
LEMMA SkipWsFacts ==
  ASSUME NEW S, NEW buf \in Seq(S), NEW i \in 1 .. Len(buf) + 1
  PROVE  /\ SkipWs(buf, i) \in i .. Len(buf) + 1
         /\ \A j \in i .. SkipWs(buf, i) - 1 : IsWs(buf[j])
         /\ SkipWs(buf, i) <= Len(buf) => ~IsWs(buf[SkipWs(buf, i)])
<1> DEFINE T == {j \in i .. Len(buf) : ~IsWs(buf[j])} \cup {Len(buf) + 1}
<1>1. Len(buf) \in Nat
  OBVIOUS
<1>2. T \subseteq i .. Len(buf) + 1 /\ T \subseteq Nat /\ T # {}
  BY <1>1
<1>3. Min(T) \in T /\ \A y \in T : Min(T) <= y
  BY <1>2, MinIsLeast
<1>4. \A j \in i .. Min(T) - 1 : IsWs(buf[j])
  <2> SUFFICES ASSUME NEW j \in i .. Min(T) - 1, ~IsWs(buf[j]) PROVE FALSE
    OBVIOUS
  <2>1. j \in T /\ j < Min(T)
    BY <1>1, <1>2, <1>3
  <2>2. QED
    BY <1>2, <1>3, <2>1
<1>5. Min(T) <= Len(buf) => ~IsWs(buf[Min(T)])
  BY <1>1, <1>3
<1>6. SkipWs(buf, i) = Min(T)
  BY DEF SkipWs
<1>7. QED
  BY <1>2, <1>3, <1>4, <1>5, <1>6

\* The same of a name.
LEMMA NameEndFacts ==
  ASSUME NEW S, NEW buf \in Seq(S), NEW i \in 1 .. Len(buf) + 1
  PROVE  /\ NameEnd(buf, i) \in i .. Len(buf) + 1
         /\ \A j \in i .. NameEnd(buf, i) - 1 : IsNameChar(buf[j])
         /\ NameEnd(buf, i) <= Len(buf) => ~IsNameChar(buf[NameEnd(buf, i)])
<1> DEFINE T == {j \in i .. Len(buf) : ~IsNameChar(buf[j])} \cup {Len(buf) + 1}
<1>1. Len(buf) \in Nat
  OBVIOUS
<1>2. T \subseteq i .. Len(buf) + 1 /\ T \subseteq Nat /\ T # {}
  BY <1>1
<1>3. Min(T) \in T /\ \A y \in T : Min(T) <= y
  BY <1>2, MinIsLeast
<1>4. \A j \in i .. Min(T) - 1 : IsNameChar(buf[j])
  <2> SUFFICES ASSUME NEW j \in i .. Min(T) - 1, ~IsNameChar(buf[j]) PROVE FALSE
    OBVIOUS
  <2>1. j \in T /\ j < Min(T)
    BY <1>1, <1>2, <1>3
  <2>2. QED
    BY <1>2, <1>3, <2>1
<1>5. Min(T) <= Len(buf) => ~IsNameChar(buf[Min(T)])
  BY <1>1, <1>3
<1>6. NameEnd(buf, i) = Min(T)
  BY DEF NameEnd
<1>7. QED
  BY <1>2, <1>3, <1>4, <1>5, <1>6

(***************************************************************************)
(* Where a pattern starts, all of it fits into the buffer.                 *)
(***************************************************************************)
LEMMA StartsAtFits ==
  ASSUME NEW S, NEW buf \in Seq(S), NEW pattern \in Seq(S),
         NEW j \in 1 .. Len(buf), StartsAt(buf, j, pattern)
  PROVE  /\ j + Len(pattern) <= Len(buf) + 1
         /\ \A k \in 1 .. Len(pattern) : buf[j + k - 1] = pattern[k]
<1> DEFINE rest == SubSeq(buf, j, Len(buf))
<1>1. Len(buf) \in Nat /\ Len(pattern) \in Nat
  OBVIOUS
<1>2. /\ rest \in Seq(S) /\ Len(rest) = Len(buf) - j + 1
      /\ \A k \in 1 .. Len(rest) : rest[k] = buf[j + k - 1]
  BY <1>1, SubSeqProperties, ElementOfSeq
<1>3. Len(pattern) <= Len(rest) /\ SubSeq(pattern, 1, Len(pattern)) = SubSeq(rest, 1, Len(pattern))
  BY DEF StartsAt, IsPrefix
<1>4. ASSUME NEW k \in 1 .. Len(pattern) PROVE rest[k] = pattern[k]
  <2>1. SubSeq(pattern, 1, Len(pattern))[k] = pattern[k]
    BY <1>1, <1>4, SubSeqProperties, ElementOfSeq
  <2>2. SubSeq(rest, 1, Len(pattern))[k] = rest[k]
    BY <1>1, <1>2, <1>3, <1>4, SubSeqProperties, ElementOfSeq
  <2>3. QED
    BY <1>3, <2>1, <2>2
<1>5. QED
  BY <1>1, <1>2, <1>3, <1>4

(***************************************************************************)
(* The first occurrence of a pattern ends inside the buffer, and there is  *)
(* none that starts before it.                                             *)
(***************************************************************************)
LEMMA PastFirstFacts ==
  ASSUME NEW S, NEW buf \in Seq(S), NEW pattern \in Seq(S),
         NEW i \in Nat \ {0}, PastFirst(buf, i, pattern) # Nowhere
  PROVE  /\ PastFirst(buf, i, pattern) \in i + Len(pattern) .. Len(buf) + 1
         /\ StartsAt(buf, PastFirst(buf, i, pattern) - Len(pattern), pattern)
         /\ \A j \in i .. PastFirst(buf, i, pattern) - Len(pattern) - 1 :
                ~StartsAt(buf, j, pattern)
<1> DEFINE T == {j \in i .. Len(buf) : StartsAt(buf, j, pattern)}
<1>1. Len(buf) \in Nat /\ Len(pattern) \in Nat
  OBVIOUS
<1>2. T # {} /\ PastFirst(buf, i, pattern) = Min(T) + Len(pattern)
  BY DEF PastFirst
<1>3. T \subseteq Nat
  BY <1>1
<1>4. Min(T) \in T /\ \A y \in T : Min(T) <= y
  BY <1>2, <1>3, MinIsLeast
<1>5. Min(T) \in 1 .. Len(buf) /\ Min(T) >= i /\ StartsAt(buf, Min(T), pattern)
  BY <1>1, <1>4
<1>6. Min(T) + Len(pattern) <= Len(buf) + 1
  BY <1>5, StartsAtFits
<1>7. \A j \in i .. Min(T) - 1 : ~StartsAt(buf, j, pattern)
  <2> SUFFICES ASSUME NEW j \in i .. Min(T) - 1, StartsAt(buf, j, pattern) PROVE FALSE
    OBVIOUS
  <2>1. j \in T /\ j < Min(T)
    BY <1>1, <1>5
  <2>2. QED
    BY <1>3, <1>4, <2>1
<1> HIDE DEF T
<1>8. Min(T) + Len(pattern) - Len(pattern) = Min(T)
  BY <1>1, <1>5
<1>9. QED
  BY <1>1, <1>2, <1>5, <1>6, <1>7, <1>8

(***************************************************************************)
(* A slice of a slice, empty ones included.                                *)
(***************************************************************************)
LEMMA SliceOfSlice ==
  ASSUME NEW S, NEW s \in Seq(S), NEW a \in Nat, NEW z \in Nat, a <= z, z <= Len(s),
         NEW b \in Nat, NEW y \in Nat, a <= b, b <= y, y <= z
  PROVE  SubSeq(SubSeq(s, a + 1, z), b - a + 1, y - a) = SubSeq(s, b + 1, y)
<1> DEFINE t == SubSeq(s, a + 1, z)
<1>1. /\ t \in Seq(S) /\ Len(t) = z - a
      /\ \A i \in 1 .. z - a : t[i] = s[a + i]
  BY SubSeqProperties, ElementOfSeq
<1>2. /\ SubSeq(s, b + 1, y) \in Seq(S) /\ Len(SubSeq(s, b + 1, y)) = y - b
      /\ \A i \in 1 .. y - b : SubSeq(s, b + 1, y)[i] = s[b + i]
  BY SubSeqProperties, ElementOfSeq
<1> HIDE DEF t
<1>3. /\ SubSeq(t, b - a + 1, y - a) \in Seq(S)
      /\ Len(SubSeq(t, b - a + 1, y - a)) = y - b
      /\ \A i \in 1 .. y - b : SubSeq(t, b - a + 1, y - a)[i] = t[b - a + i]
  BY <1>1, SubSeqProperties, ElementOfSeq
<1>4. \A i \in 1 .. y - b : t[b - a + i] = s[b + i]
  BY <1>1
<1>5. SubSeq(t, b - a + 1, y - a) = SubSeq(s, b + 1, y)
  BY <1>2, <1>3, <1>4, SeqEqual
<1>6. QED
  BY <1>5 DEF t

(***************************************************************************)
(* Two slices side by side are one.                                        *)
(***************************************************************************)
LEMMA SliceThenSlice ==
  ASSUME NEW S, NEW s \in Seq(S), NEW a \in Nat, NEW b \in Nat, NEW n \in Nat,
         a <= b, b + n <= Len(s)
  PROVE  /\ SubSeq(s, a + 1, b) \o SubSeq(s, b + 1, b + n) = SubSeq(s, a + 1, b + n)
         /\ Len(SubSeq(s, a + 1, b + n)) = b + n - a
<1> DEFINE t == SubSeq(s, a + 1, b)
           u == SubSeq(s, b + 1, b + n)
           v == SubSeq(s, a + 1, b + n)
<1>1. /\ t \in Seq(S) /\ Len(t) = b - a
      /\ \A i \in 1 .. b - a : t[i] = s[a + i]
  BY SubSeqProperties, ElementOfSeq
<1>2. /\ u \in Seq(S) /\ Len(u) = n
      /\ \A i \in 1 .. n : u[i] = s[b + i]
  BY SubSeqProperties, ElementOfSeq
<1>3. /\ v \in Seq(S) /\ Len(v) = b + n - a
      /\ \A i \in 1 .. b + n - a : v[i] = s[a + i]
  BY SubSeqProperties, ElementOfSeq
<1> HIDE DEF t, u, v
<1>4. /\ t \o u \in Seq(S) /\ Len(t \o u) = b + n - a
      /\ \A i \in 1 .. b - a : (t \o u)[i] = t[i]
      /\ \A i \in b - a + 1 .. b + n - a : (t \o u)[i] = u[i - (b - a)]
  <2>1. /\ t \o u \in Seq(S) /\ Len(t \o u) = b - a + n
        /\ \A i \in 1 .. b - a + n : (t \o u)[i] = IF i <= b - a THEN t[i] ELSE u[i - (b - a)]
    <3>1. /\ t \o u \in Seq(S) /\ Len(t \o u) = Len(t) + Len(u)
          /\ \A i \in 1 .. Len(t) + Len(u) :
                 (t \o u)[i] = IF i <= Len(t) THEN t[i] ELSE u[i - Len(t)]
      BY <1>1, <1>2, ConcatProperties, Zenon
    <3>2. Len(t) = b - a /\ Len(u) = n
      BY <1>1, <1>2
    <3>3. QED
      BY <3>1, <3>2, Zenon
  <2>2. \A i \in b - a + 1 .. b + n - a : (t \o u)[i] = u[i - (b - a)]
    <3> SUFFICES ASSUME NEW i \in b - a + 1 .. b + n - a PROVE (t \o u)[i] = u[i - (b - a)]
      OBVIOUS
    <3>1. i \in 1 .. b - a + n /\ ~(i <= b - a)
      OBVIOUS
    <3>2. QED
      BY <2>1, <3>1
  <2>3. \A i \in 1 .. b - a : (t \o u)[i] = t[i]
    <3>1. \A i \in 1 .. b - a : i \in 1 .. b - a + n /\ i <= b - a
      OBVIOUS
    <3>2. QED
      BY <2>1, <3>1
  <2>4. b - a + n = b + n - a
    OBVIOUS
  <2>5. QED
    BY <2>1, <2>2, <2>3, <2>4
<1>5. \A i \in 1 .. b + n - a : (t \o u)[i] = v[i]
  <2> SUFFICES ASSUME NEW i \in 1 .. b + n - a PROVE (t \o u)[i] = v[i]
    OBVIOUS
  <2>1. CASE i <= b - a
    BY <1>1, <1>3, <1>4, <2>1
  <2>2. CASE i > b - a
    <3>1. i - (b - a) \in 1 .. n /\ b + (i - (b - a)) = a + i /\ i \in b - a + 1 .. b + n - a
      BY <2>2
    <3>2. PICK j \in 1 .. n : j = i - (b - a)
      BY <3>1
    <3>3. (t \o u)[i] = u[j]
      BY <1>4, <3>1, <3>2
    <3>4. b + j = a + i
      BY <3>2
    <3>5. u[j] = s[a + i]
      BY <1>2, <3>4
    <3>6. QED
      BY <1>3, <3>3, <3>5
  <2>3. i <= b - a \/ i > b - a
    <3>1. i \in Int /\ b - a \in Int
      OBVIOUS
    <3>2. QED
      BY <3>1
  <2>4. QED
    BY <2>1, <2>2, <2>3
<1>6. t \o u = v
  BY <1>3, <1>4, <1>5, SeqEqual
<1>7. QED
  BY <1>3, <1>6 DEF t, u, v

(***************************************************************************)
(* Append, whatever the elements are.                                      *)
(***************************************************************************)
LEMMA AppendFacts ==
  ASSUME NEW s, s \in Seq(Range(s)), NEW e
  PROVE  /\ Append(s, e) \in Seq(Range(Append(s, e)))
         /\ Len(s) \in Nat /\ Len(Append(s, e)) = Len(s) + 1
         /\ DOMAIN s = 1 .. Len(s) /\ DOMAIN Append(s, e) = 1 .. Len(s) + 1
         /\ \A i \in 1 .. Len(s) : Append(s, e)[i] = s[i]
         /\ Append(s, e)[Len(s) + 1] = e
<1> DEFINE S == Range(s) \cup {e}
           t == Append(s, e)
<1>1. Len(s) \in Nat /\ DOMAIN s = 1 .. Len(s)
  BY LenProperties
<1>2. s \in Seq(S)
  BY SeqMonotonic
<1>3. /\ t \in Seq(S) /\ Len(t) = Len(s) + 1
      /\ \A i \in 1 .. Len(s) : t[i] = s[i]
      /\ t[Len(s) + 1] = e
  BY <1>2, AppendProperties
<1>4. DOMAIN t = 1 .. Len(s) + 1 /\ t \in [1 .. Len(s) + 1 -> S]
  BY <1>3, LenProperties
<1> HIDE DEF t, S
<1>5. t \in Seq(Range(t))
  <2>1. t \in [1 .. Len(s) + 1 -> Range(t)]
    BY <1>4 DEF Range
  <2>2. Len(s) + 1 \in Nat
    BY <1>1
  <2>3. QED
    BY <2>1, <2>2, SeqDef
<1>6. QED
  BY <1>1, <1>3, <1>4, <1>5 DEF t

(***************************************************************************)
(* A buffer and a longer one that it is the beginning of: what a search    *)
(* finds in the shorter one, it finds in the longer one.                   *)
(***************************************************************************)
Grown(buf, full) ==
    /\ Len(buf) <= Len(full)
    /\ \A i \in 1 .. Len(buf) : full[i] = buf[i]

\* What holds at a position whenever it holds at all later ones of the buffer, and at
\* the one behind it, holds everywhere.
LEMMA Backwards ==
  ASSUME NEW L \in Nat, NEW G,
         \A i \in Nat \ {0} : (\A j \in i + 1 .. L + 1 : j \in G) => i \in G
  PROVE  \A i \in Nat \ {0} : i \in G
<1> SUFFICES ASSUME NEW from \in Nat \ {0}, from \notin G PROVE FALSE
  OBVIOUS
<1> DEFINE Bad == {n \in Nat : \E j \in Nat \ {0} : j \notin G /\ n + j = from + L}
<1>1. L \in Bad
  OBVIOUS
<1>2. PICK n \in Bad : \A y \in Bad : n <= y
  BY <1>1, LeastNatural, Zenon
<1>3. PICK j \in Nat \ {0} : j \notin G /\ n + j = from + L
  BY <1>2
<1>4. ASSUME NEW k \in j + 1 .. L + 1, k \notin G PROVE FALSE
  <2>1. k \in Nat \ {0} /\ from + L - k \in Nat
    BY <1>4
  <2>2. PICK m \in Nat : m = from + L - k
    BY <2>1
  <2>3. m + k = from + L
    BY <2>1, <2>2
  <2>4. m \in Bad
    BY <1>4, <2>1, <2>3
  <2>5. n \in Nat /\ m < n
    BY <1>2, <1>3, <1>4, <2>3
  <2>6. n <= m
    BY <1>2, <2>4, Zenon
  <2>7. QED
    BY <2>2, <2>5, <2>6
<1>5. QED
  BY <1>3, <1>4

\* A pattern starts where the buffer holds its bytes, one by one.
LEMMA StartsAtIff ==
  ASSUME NEW S, NEW buf \in Seq(S), NEW pattern \in Seq(S), pattern # <<>>,
         NEW j \in Nat \ {0}
  PROVE  StartsAt(buf, j, pattern) <=>
           /\ j + Len(pattern) <= Len(buf) + 1
           /\ \A k \in 1 .. Len(pattern) : buf[j + k - 1] = pattern[k]
<1> DEFINE rest == SubSeq(buf, j, Len(buf))
<1>1. Len(buf) \in Nat /\ Len(pattern) \in Nat \ {0}
  BY EmptySeq
<1>2. CASE j > Len(buf)
  <2>1. rest = <<>> /\ Len(rest) = 0
    BY <1>1, <1>2, SubSeqProperties
  <2>2. ~StartsAt(buf, j, pattern)
    BY <1>1, <2>1 DEF StartsAt, IsPrefix
  <2>3. ~(j + Len(pattern) <= Len(buf) + 1)
    BY <1>1, <1>2
  <2>4. QED
    BY <2>2, <2>3
<1>3. CASE j <= Len(buf)
  <2>1. j \in 1 .. Len(buf)
    BY <1>1, <1>3
  <2>2. ASSUME j + Len(pattern) <= Len(buf) + 1,
               \A k \in 1 .. Len(pattern) : buf[j + k - 1] = pattern[k]
        PROVE  StartsAt(buf, j, pattern)
    <3>1. /\ rest \in Seq(S) /\ Len(rest) = Len(buf) - j + 1
          /\ \A k \in 1 .. Len(rest) : rest[k] = buf[j + k - 1]
      BY <1>1, <2>1, SubSeqProperties, ElementOfSeq
    <3>2. Len(pattern) <= Len(rest)
      BY <1>1, <2>1, <2>2, <3>1
    <3> HIDE DEF rest
    <3>3. /\ SubSeq(pattern, 1, Len(pattern)) \in Seq(S)
          /\ Len(SubSeq(pattern, 1, Len(pattern))) = Len(pattern)
          /\ \A k \in 1 .. Len(pattern) : SubSeq(pattern, 1, Len(pattern))[k] = pattern[k]
      BY <1>1, SubSeqProperties, ElementOfSeq
    <3>4. /\ SubSeq(rest, 1, Len(pattern)) \in Seq(S)
          /\ Len(SubSeq(rest, 1, Len(pattern))) = Len(pattern)
          /\ \A k \in 1 .. Len(pattern) : SubSeq(rest, 1, Len(pattern))[k] = rest[k]
      BY <1>1, <3>1, <3>2, SubSeqProperties, ElementOfSeq
    <3>5. \A k \in 1 .. Len(pattern) : rest[k] = pattern[k]
      BY <1>1, <2>2, <3>1, <3>2
    <3>6. SubSeq(pattern, 1, Len(pattern)) = SubSeq(rest, 1, Len(pattern))
      BY <3>3, <3>4, <3>5, SeqEqual
    <3>7. QED
      BY <3>2, <3>6 DEF StartsAt, IsPrefix, rest
  <2>3. QED
    BY <2>1, <2>2, StartsAtFits
<1>4. QED
  BY <1>1, <1>2, <1>3

\* Where the shorter buffer has room for a pattern, both agree whether it starts.
LEMMA StartsAtGrown ==
  ASSUME NEW S, NEW buf \in Seq(S), NEW full \in Seq(S), Grown(buf, full),
         NEW pattern \in Seq(S), pattern # <<>>, NEW j \in Nat \ {0},
         j + Len(pattern) <= Len(buf) + 1
  PROVE  StartsAt(buf, j, pattern) <=> StartsAt(full, j, pattern)
<1>1. Len(buf) \in Nat /\ Len(full) \in Nat /\ Len(pattern) \in Nat
  OBVIOUS
<1>2. \A k \in 1 .. Len(pattern) : buf[j + k - 1] = full[j + k - 1]
  BY <1>1 DEF Grown
<1>3. j + Len(pattern) <= Len(full) + 1
  BY <1>1 DEF Grown
<1>4. StartsAt(full, j, pattern) <=> \A k \in 1 .. Len(pattern) : full[j + k - 1] = pattern[k]
  BY <1>3, StartsAtIff
<1>5. StartsAt(buf, j, pattern) <=> \A k \in 1 .. Len(pattern) : buf[j + k - 1] = pattern[k]
  BY StartsAtIff
<1>6. QED
  BY <1>2, <1>4, <1>5

\* The first occurrence of a pattern stays the first one.
LEMMA PastFirstGrown ==
  ASSUME NEW S, NEW buf \in Seq(S), NEW full \in Seq(S), Grown(buf, full),
         NEW pattern \in Seq(S), pattern # <<>>, NEW i \in Nat \ {0},
         PastFirst(buf, i, pattern) # Nowhere
  PROVE  /\ PastFirst(full, i, pattern) = PastFirst(buf, i, pattern)
         /\ PastFirst(buf, i, pattern) \in i + Len(pattern) .. Len(buf) + 1
<1> DEFINE past == PastFirst(buf, i, pattern)
           at == {j \in i .. Len(full) : StartsAt(full, j, pattern)}
<1>1. Len(buf) \in Nat /\ Len(full) \in Nat /\ Len(pattern) \in Nat \ {0} /\ Len(buf) <= Len(full)
  BY EmptySeq DEF Grown
<1>2. /\ past \in i + Len(pattern) .. Len(buf) + 1
      /\ StartsAt(buf, past - Len(pattern), pattern)
      /\ \A j \in i .. past - Len(pattern) - 1 : ~StartsAt(buf, j, pattern)
  BY PastFirstFacts
<1> HIDE DEF past
<1>3. PICK m \in Nat \ {0} : m = past - Len(pattern)
  <2>1. past - Len(pattern) \in Nat \ {0}
    BY <1>1, <1>2
  <2>2. QED
    BY <2>1
<1>4. m >= i /\ m + Len(pattern) <= Len(buf) + 1 /\ m <= Len(full)
  BY <1>1, <1>2, <1>3
<1>5. StartsAt(full, m, pattern)
  BY <1>2, <1>3, <1>4, StartsAtGrown
<1>6. m \in at
  BY <1>1, <1>4, <1>5
<1>7. ASSUME NEW j \in at, j < m PROVE FALSE
  <2>1. j \in Nat \ {0} /\ j \in i .. past - Len(pattern) - 1 /\ StartsAt(full, j, pattern)
    BY <1>1, <1>2, <1>3, <1>7
  <2>2. j + Len(pattern) <= Len(buf) + 1
    BY <1>1, <1>4, <1>7, <2>1
  <2>3. StartsAt(buf, j, pattern)
    BY <2>1, <2>2, StartsAtGrown
  <2>4. QED
    BY <1>2, <2>1, <2>3
<1>8. at \subseteq Nat
  BY <1>1
<1>9. Min(at) = m
  <2>1. Min(at) \in at /\ \A y \in at : Min(at) <= y
    BY <1>6, <1>8, MinIsLeast
  <2>2. Min(at) \in Nat /\ Min(at) <= m /\ ~(Min(at) < m)
    BY <1>6, <1>7, <1>8, <2>1
  <2>3. QED
    BY <2>2
<1>10. PastFirst(full, i, pattern) = m + Len(pattern)
  BY <1>6, <1>9 DEF PastFirst
<1>11. QED
  BY <1>1, <1>2, <1>3, <1>10 DEF past

\* Whitespace that ends in the shorter buffer ends at the same byte of the longer.
LEMMA SkipWsGrown ==
  ASSUME NEW S, NEW buf \in Seq(S), NEW full \in Seq(S), Grown(buf, full),
         NEW i \in Nat \ {0}, SkipWs(buf, i) <= Len(buf)
  PROVE  /\ SkipWs(full, i) = SkipWs(buf, i)
         /\ SkipWs(buf, i) \in i .. Len(buf)
<1> DEFINE T == {j \in i .. Len(buf) : ~IsWs(buf[j])} \cup {Len(buf) + 1}
           U == {j \in i .. Len(full) : ~IsWs(full[j])} \cup {Len(full) + 1}
<1>1. Len(buf) \in Nat /\ Len(full) \in Nat /\ Len(buf) <= Len(full)
      /\ \A j \in 1 .. Len(buf) : full[j] = buf[j]
  BY DEF Grown
<1>2. T \subseteq Nat /\ T # {} /\ U \subseteq Nat /\ U # {}
  BY <1>1
<1>3. Min(T) \in T /\ \A y \in T : Min(T) <= y
  BY <1>2, MinIsLeast
<1>4. Min(U) \in U /\ \A y \in U : Min(U) <= y
  BY <1>2, MinIsLeast
<1>5. Min(T) \in i .. Len(buf) /\ ~IsWs(buf[Min(T)])
  BY <1>1, <1>3 DEF SkipWs
<1>6. Min(T) \in U
  BY <1>1, <1>5
<1>7. Min(U) <= Min(T) /\ Min(U) \in i .. Len(buf) /\ ~IsWs(full[Min(U)])
  BY <1>1, <1>4, <1>5, <1>6
<1>8. Min(U) \in T
  BY <1>1, <1>7
<1>9. Min(T) <= Min(U) /\ Min(T) \in Nat /\ Min(U) \in Nat
  BY <1>2, <1>3, <1>4, <1>8
<1>10. Min(T) = Min(U)
  BY <1>7, <1>9
<1>11. QED
  BY <1>5, <1>10 DEF SkipWs

\* So does a name.
LEMMA NameEndGrown ==
  ASSUME NEW S, NEW buf \in Seq(S), NEW full \in Seq(S), Grown(buf, full),
         NEW i \in Nat \ {0}, NameEnd(buf, i) <= Len(buf)
  PROVE  /\ NameEnd(full, i) = NameEnd(buf, i)
         /\ NameEnd(buf, i) \in i .. Len(buf)
<1> DEFINE T == {j \in i .. Len(buf) : ~IsNameChar(buf[j])} \cup {Len(buf) + 1}
           U == {j \in i .. Len(full) : ~IsNameChar(full[j])} \cup {Len(full) + 1}
<1>1. Len(buf) \in Nat /\ Len(full) \in Nat /\ Len(buf) <= Len(full)
      /\ \A j \in 1 .. Len(buf) : full[j] = buf[j]
  BY DEF Grown
<1>2. T \subseteq Nat /\ T # {} /\ U \subseteq Nat /\ U # {}
  BY <1>1
<1>3. Min(T) \in T /\ \A y \in T : Min(T) <= y
  BY <1>2, MinIsLeast
<1>4. Min(U) \in U /\ \A y \in U : Min(U) <= y
  BY <1>2, MinIsLeast
<1>5. Min(T) \in i .. Len(buf) /\ ~IsNameChar(buf[Min(T)])
  BY <1>1, <1>3 DEF NameEnd
<1>6. Min(T) \in U
  BY <1>1, <1>5
<1>7. Min(U) <= Min(T) /\ Min(U) \in i .. Len(buf) /\ ~IsNameChar(full[Min(U)])
  BY <1>1, <1>4, <1>5, <1>6
<1>8. Min(U) \in T
  BY <1>1, <1>7
<1>9. Min(T) <= Min(U) /\ Min(T) \in Nat /\ Min(U) \in Nat
  BY <1>2, <1>3, <1>4, <1>8
<1>10. Min(T) = Min(U)
  BY <1>7, <1>9
<1>11. QED
  BY <1>5, <1>10 DEF NameEnd

\* A slice of the shorter buffer is the same slice of the longer one.
LEMMA SliceGrown ==
  ASSUME NEW S, NEW buf \in Seq(S), NEW full \in Seq(S), Grown(buf, full),
         NEW a \in Nat \ {0}, NEW z \in Int, z <= Len(buf)
  PROVE  SubSeq(full, a, z) = SubSeq(buf, a, z)
<1>1. Len(buf) \in Nat /\ Len(full) \in Nat /\ Len(buf) <= Len(full)
      /\ \A j \in 1 .. Len(buf) : full[j] = buf[j]
  BY DEF Grown
<1>2. CASE a > z
  BY <1>1, <1>2, SubSeqProperties
<1>3. CASE a <= z
  <2>1. /\ SubSeq(buf, a, z) \in Seq(S) /\ Len(SubSeq(buf, a, z)) = z - a + 1
        /\ \A k \in 1 .. z - a + 1 : SubSeq(buf, a, z)[k] = buf[a + k - 1]
    BY <1>1, <1>3, SubSeqProperties, ElementOfSeq
  <2>2. /\ SubSeq(full, a, z) \in Seq(S) /\ Len(SubSeq(full, a, z)) = z - a + 1
        /\ \A k \in 1 .. z - a + 1 : SubSeq(full, a, z)[k] = full[a + k - 1]
    BY <1>1, <1>3, SubSeqProperties, ElementOfSeq
  <2>3. \A k \in 1 .. z - a + 1 : full[a + k - 1] = buf[a + k - 1]
    BY <1>1, <1>3
  <2>4. QED
    BY <2>1, <2>2, <2>3, SeqEqual
<1>4. QED
  BY <1>2, <1>3

(***************************************************************************)
(* scan_attrs, one attribute at a time.  AttrsBody is the body of the      *)
(* recursive function scan, with g for the function: what stands at        *)
(* `start`, in front of what g says of the position behind it.             *)
(***************************************************************************)
KeyAt(buf, start) == SkipWs(buf, start)
KeyOf(buf, start) == EndTagName(buf, KeyAt(buf, start))
EqAt(buf, start) == SkipWs(buf, NameEnd(buf, KeyAt(buf, start)))
QuoteAt(buf, start) == SkipWs(buf, EqAt(buf, start) + 1)
PastAttr(buf, start) == PastFirst(buf, QuoteAt(buf, start) + 1, <<buf[QuoteAt(buf, start)]>>)
ValueOf(buf, start) == SubSeq(buf, QuoteAt(buf, start) + 1, PastAttr(buf, start) - 2)

HasAttr(buf, start) ==
    /\ KeyAt(buf, start) <= Len(buf)
    /\ buf[KeyAt(buf, start)] \notin {">", "/"}
    /\ KeyOf(buf, start) # <<>>
    /\ EqAt(buf, start) <= Len(buf)
    /\ buf[EqAt(buf, start)] = "="
    /\ QuoteAt(buf, start) <= Len(buf)
    /\ buf[QuoteAt(buf, start)] \in Quotes
    /\ PastAttr(buf, start) # Nowhere

TagEnd(i, slash) == [verdict |-> "at", pos |-> i, slash |-> slash, ns |-> <<>>]

NoAttr(buf, atEnd, start) ==
    LET i == KeyAt(buf, start)
    IN IF i > Len(buf) THEN atEnd
       ELSE IF buf[i] = ">" THEN TagEnd(i + 1, FALSE)
       ELSE IF buf[i] = "/"
       THEN IF i = Len(buf) THEN atEnd
            ELSE IF buf[i + 1] = ">" THEN TagEnd(i + 2, TRUE) ELSE Malformed
       ELSE IF KeyOf(buf, start) = <<>> THEN Malformed
       ELSE IF EqAt(buf, start) > Len(buf) THEN atEnd
       ELSE IF buf[EqAt(buf, start)] # "=" THEN Malformed
       ELSE IF QuoteAt(buf, start) > Len(buf) THEN atEnd
       ELSE IF buf[QuoteAt(buf, start)] \notin Quotes THEN Malformed
       ELSE atEnd

DeclaresNs(name) == Len(name) = 1 /\ name[1] \in DOMAIN PrefixOf

WithAttr(name, value, rest) ==
    IF ~DeclaresNs(name) THEN rest
    ELSE IF ~IsUtf8(value) THEN BadEncoding
    ELSE IF rest.verdict # "at" THEN rest
    ELSE [rest EXCEPT !.ns = DeclaredBefore(@, PrefixOf[name[1]], value)]

AttrsBody(buf, atEnd, g, start) ==
    IF HasAttr(buf, start)
    THEN WithAttr(KeyOf(buf, start), ValueOf(buf, start), g[PastAttr(buf, start)])
    ELSE NoAttr(buf, atEnd, start)

\* skip_ws_at from any position goes to a later one, or to the end.
LEMMA SkipWsMovesOn ==
  ASSUME NEW S, NEW buf \in Seq(S), NEW i \in Nat
  PROVE  SkipWs(buf, i) \in Nat /\ (SkipWs(buf, i) <= Len(buf) => SkipWs(buf, i) >= i)
<1> DEFINE T == {j \in i .. Len(buf) : ~IsWs(buf[j])} \cup {Len(buf) + 1}
<1>1. Len(buf) \in Nat
  OBVIOUS
<1>2. T \subseteq Nat /\ T # {}
  BY <1>1
<1>3. Min(T) \in T
  BY <1>2, MinIsLeast
<1>4. QED
  BY <1>1, <1>2, <1>3 DEF SkipWs

\* And so does the search for the end of a name.
LEMMA NameEndMovesOn ==
  ASSUME NEW S, NEW buf \in Seq(S), NEW i \in Nat
  PROVE  NameEnd(buf, i) \in Nat /\ (NameEnd(buf, i) <= Len(buf) => NameEnd(buf, i) >= i)
<1> DEFINE T == {j \in i .. Len(buf) : ~IsNameChar(buf[j])} \cup {Len(buf) + 1}
<1>1. Len(buf) \in Nat
  OBVIOUS
<1>2. T \subseteq Nat /\ T # {}
  BY <1>1
<1>3. Min(T) \in T
  BY <1>2, MinIsLeast
<1>4. QED
  BY <1>1, <1>2, <1>3 DEF NameEnd

\* Behind an attribute the scan has moved on.
LEMMA HasAttrFacts ==
  ASSUME NEW S, NEW buf \in Seq(S), NEW start \in Nat, HasAttr(buf, start)
  PROVE  /\ PastAttr(buf, start) \in start + 1 .. Len(buf) + 1
         /\ start < Len(buf)
<1>1. Len(buf) \in Nat
  OBVIOUS
<1>2. \A i \in Nat : SkipWs(buf, i) \in Nat /\ (SkipWs(buf, i) <= Len(buf) => SkipWs(buf, i) >= i)
  BY SkipWsMovesOn
<1>3. \A i \in Nat : NameEnd(buf, i) \in Nat /\ (NameEnd(buf, i) <= Len(buf) => NameEnd(buf, i) >= i)
  BY NameEndMovesOn
<1>4. PICK i \in Nat : i = KeyAt(buf, start) /\ start <= i /\ i <= Len(buf)
  BY <1>2 DEF KeyAt, HasAttr
<1>5. PICK n \in Nat : n = NameEnd(buf, i) /\ (n <= Len(buf) => n >= i)
  BY <1>3
<1>6. PICK e \in Nat : e = EqAt(buf, start) /\ n <= e /\ e <= Len(buf)
  BY <1>2, <1>4, <1>5 DEF EqAt, HasAttr
<1>7. PICK q \in Nat \ {0} : q = QuoteAt(buf, start) /\ e + 1 <= q /\ q <= Len(buf)
  BY <1>2, <1>6 DEF QuoteAt, HasAttr
<1>8. start + 1 <= q
  BY <1>1, <1>4, <1>5, <1>6, <1>7
<1>9. buf[q] \in S /\ <<buf[q]>> \in Seq(S) /\ Len(<<buf[q]>>) = 1
  BY <1>1, <1>7, ElementOfSeq
<1>10. PastFirst(buf, q + 1, <<buf[q]>>) \in q + 2 .. Len(buf) + 1
  <2>1. PastFirst(buf, q + 1, <<buf[q]>>) # Nowhere
    BY <1>7 DEF HasAttr, PastAttr
  <2>2. PastFirst(buf, q + 1, <<buf[q]>>) \in (q + 1) + Len(<<buf[q]>>) .. Len(buf) + 1
    <3>1. q + 1 \in Nat \ {0}
      BY <1>7
    <3>2. QED
      BY <1>9, <2>1, <3>1, PastFirstFacts
  <2>3. QED
    BY <1>9, <2>2
<1>11. QED
  BY <1>1, <1>7, <1>8, <1>10 DEF PastAttr

\* There is a function that the recursion defines: one that is right from n
\* bytes before the end on is extended to n + 1.
LEMMA AttrsFunction ==
  ASSUME NEW S, NEW buf \in Seq(S), NEW atEnd
  PROVE  \E f : f = [start \in Nat |-> AttrsBody(buf, atEnd, f, start)]
<1> DEFINE Right(g, n) == \A i \in Nat : i + n > Len(buf) => g[i] = AttrsBody(buf, atEnd, g, i)
           Reached == {n \in Nat : \E g : g = [i \in Nat |-> g[i]] /\ Right(g, n)}
<1>1. Len(buf) \in Nat
  OBVIOUS
<1>2. ASSUME NEW g, NEW h, NEW i \in Nat,
             i < Len(buf) => \A j \in i + 1 .. Len(buf) + 1 : g[j] = h[j]
      PROVE  AttrsBody(buf, atEnd, g, i) = AttrsBody(buf, atEnd, h, i)
  <2>1. CASE HasAttr(buf, i)
    BY <1>2, <2>1, HasAttrFacts DEF AttrsBody
  <2>2. CASE ~HasAttr(buf, i)
    BY <2>2 DEF AttrsBody
  <2>3. QED
    BY <2>1, <2>2
<1>3. 0 \in Reached
  <2> DEFINE none == [i \in Nat |-> 0]
             g == [i \in Nat |-> AttrsBody(buf, atEnd, none, i)]
  <2>1. g = [i \in Nat |-> g[i]]
    OBVIOUS
  <2>2. ASSUME NEW i \in Nat, i + 0 > Len(buf) PROVE g[i] = AttrsBody(buf, atEnd, g, i)
    <3>1. ~(i < Len(buf))
      BY <1>1, <2>2
    <3>2. QED
      BY <1>2, <3>1
  <2> HIDE DEF g
  <2>3. QED
    BY <2>1, <2>2
<1>4. ASSUME NEW n \in Reached PROVE n + 1 \in Reached
  <2>1. PICK g : g = [i \in Nat |-> g[i]] /\ Right(g, n)
    BY <1>4
  <2>2. n \in Nat
    BY <1>4
  <2> DEFINE h == [i \in Nat |-> AttrsBody(buf, atEnd, g, i)]
  <2>3. h = [i \in Nat |-> h[i]]
    OBVIOUS
  <2>4. \A i \in Nat : h[i] = AttrsBody(buf, atEnd, g, i)
    OBVIOUS
  <2> HIDE DEF h
  <2>5. ASSUME NEW i \in Nat, i + (n + 1) > Len(buf) PROVE h[i] = AttrsBody(buf, atEnd, h, i)
    <3>1. \A j \in Nat : j >= i + 1 => g[j] = h[j]
      <4> SUFFICES ASSUME NEW j \in Nat, j >= i + 1 PROVE g[j] = h[j]
        OBVIOUS
      <4>1. j + n > Len(buf)
        BY <1>1, <2>2, <2>5
      <4>2. QED
        BY <2>1, <2>4, <4>1
    <3>2. \A j \in i + 1 .. Len(buf) + 1 : g[j] = h[j]
      BY <1>1, <3>1
    <3>3. QED
      BY <1>2, <2>4, <3>2
  <2>6. n + 1 \in Nat /\ Right(h, n + 1)
    BY <2>2, <2>5
  <2>7. QED
    BY <2>3, <2>6, Zenon
<1> HIDE DEF Reached
<1>5. Len(buf) + 1 \in Reached
  <2> DEFINE Missed == Nat \ Reached
  <2>1. SUFFICES ASSUME Missed # {} PROVE FALSE
    BY <1>1
  <2>2. PICK n \in Missed : \A y \in Missed : n <= y
    BY <2>1, LeastNatural, Zenon
  <2>3. n \in Nat /\ n # 0
    BY <1>3, <2>2
  <2>4. PICK m \in Nat : n = m + 1
    BY <2>3
  <2>5. m \in Reached
    BY <2>2, <2>4
  <2>6. QED
    BY <1>4, <2>2, <2>4, <2>5
<1>6. PICK g : g = [i \in Nat |-> g[i]] /\ Right(g, Len(buf) + 1)
  BY <1>5 DEF Reached
<1>7. \A i \in Nat : g[i] = AttrsBody(buf, atEnd, g, i)
  BY <1>1, <1>6
<1>8. g = [i \in Nat |-> AttrsBody(buf, atEnd, g, i)]
  BY <1>6, <1>7
<1>9. QED
  BY <1>8, Zenon

\* The scan as a function of where it starts.
AttrsFrom(buf, atEnd) == CHOOSE f : f = [start \in Nat |-> AttrsBody(buf, atEnd, f, start)]

\* scan_attrs is that function, and its value is what it finds first, in front of
\* what it finds behind.
LEMMA ScanAttrsUnfolds ==
  ASSUME NEW S, NEW buf \in Seq(S), NEW atEnd, NEW from \in Nat
  PROVE  /\ ScanAttrs(buf, from, atEnd) = AttrsFrom(buf, atEnd)[from]
         /\ \A i \in Nat :
              AttrsFrom(buf, atEnd)[i] = AttrsBody(buf, atEnd, AttrsFrom(buf, atEnd), i)
<1> DEFINE tagEnd(i, slash) ==
             [verdict |-> "at", pos |-> i, slash |-> slash, ns |-> <<>>]
           Orig(g, start) ==
             LET i == SkipWs(buf, start)
                 name == EndTagName(buf, i)
                 eq == SkipWs(buf, NameEnd(buf, i))
                 quote == SkipWs(buf, eq + 1)
                 next == PastFirst(buf, quote + 1, <<buf[quote]>>)
                 value == SubSeq(buf, quote + 1, next - 2)
                 declares == Len(name) = 1 /\ name[1] \in DOMAIN PrefixOf
                 rest == g[next]
             IN IF i > Len(buf) THEN atEnd
                ELSE IF buf[i] = ">" THEN tagEnd(i + 1, FALSE)
                ELSE IF buf[i] = "/"
                THEN IF i = Len(buf) THEN atEnd
                     ELSE IF buf[i + 1] = ">" THEN tagEnd(i + 2, TRUE) ELSE Malformed
                ELSE IF name = <<>> THEN Malformed
                ELSE IF eq > Len(buf) THEN atEnd
                ELSE IF buf[eq] # "=" THEN Malformed
                ELSE IF quote > Len(buf) THEN atEnd
                ELSE IF buf[quote] \notin Quotes THEN Malformed
                ELSE IF next = Nowhere THEN atEnd
                ELSE IF ~declares THEN rest
                ELSE IF ~IsUtf8(value) THEN BadEncoding
                ELSE IF rest.verdict # "at" THEN rest
                ELSE [rest EXCEPT !.ns = DeclaredBefore(@, PrefixOf[name[1]], value)]
           F == CHOOSE f : f = [start \in Nat |-> Orig(f, start)]
<1>1. ScanAttrs(buf, from, atEnd) = F[from]
  BY Zenon DEF ScanAttrs
<1>2. ASSUME NEW g, NEW start \in Nat PROVE Orig(g, start) = AttrsBody(buf, atEnd, g, start)
  <2> DEFINE i == KeyAt(buf, start)
             name == KeyOf(buf, start)
             eq == EqAt(buf, start)
             quote == QuoteAt(buf, start)
             next == PastAttr(buf, start)
             value == ValueOf(buf, start)
             rest == g[next]
  <2>1. Orig(g, start) =
             IF i > Len(buf) THEN atEnd
             ELSE IF buf[i] = ">" THEN TagEnd(i + 1, FALSE)
             ELSE IF buf[i] = "/"
             THEN IF i = Len(buf) THEN atEnd
                  ELSE IF buf[i + 1] = ">" THEN TagEnd(i + 2, TRUE) ELSE Malformed
             ELSE IF name = <<>> THEN Malformed
             ELSE IF eq > Len(buf) THEN atEnd
             ELSE IF buf[eq] # "=" THEN Malformed
             ELSE IF quote > Len(buf) THEN atEnd
             ELSE IF buf[quote] \notin Quotes THEN Malformed
             ELSE IF next = Nowhere THEN atEnd
             ELSE WithAttr(name, value, rest)
    BY Zenon DEF WithAttr, DeclaresNs, TagEnd, KeyAt, KeyOf, EqAt, QuoteAt, PastAttr, ValueOf
  <2>2. i \in Nat /\ Len(buf) \in Nat
    BY SkipWsMovesOn DEF KeyAt
  <2>3. eq \in Nat
    BY <2>2, SkipWsMovesOn, NameEndMovesOn DEF EqAt
  <2>4. quote \in Nat
    <3>1. eq + 1 \in Nat
      BY <2>3
    <3>2. QED
      BY <3>1, SkipWsMovesOn DEF QuoteAt
  <2>5. /\ i > Len(buf) <=> ~(i <= Len(buf))
        /\ eq > Len(buf) <=> ~(eq <= Len(buf))
        /\ quote > Len(buf) <=> ~(quote <= Len(buf))
    BY <2>2, <2>3, <2>4
  <2>6. buf[i] \notin {">", "/"} <=> (buf[i] # ">" /\ buf[i] # "/")
    OBVIOUS
  <2> HIDE DEF Orig
  <2>7. CASE HasAttr(buf, start)
    <3>1. Orig(g, start) = WithAttr(name, value, rest)
      BY <2>1, <2>5, <2>6, <2>7, Zenon DEF HasAttr
    <3>2. QED
      BY <2>7, <3>1, Zenon DEF AttrsBody
  <2>8. CASE ~HasAttr(buf, start)
    <3>1. AttrsBody(buf, atEnd, g, start) = NoAttr(buf, atEnd, start)
      BY <2>8, Zenon DEF AttrsBody
    <3> DEFINE v == NoAttr(buf, atEnd, start)
    <3>2. \/ i > Len(buf) \/ buf[i] = ">" \/ buf[i] = "/" \/ name = <<>>
          \/ eq > Len(buf) \/ buf[eq] # "=" \/ quote > Len(buf) \/ buf[quote] \notin Quotes
          \/ next = Nowhere
      BY <2>5, <2>6, <2>8, Zenon DEF HasAttr
    <3>3. Orig(g, start) = NoAttr(buf, atEnd, start)
      BY <2>1, <3>2, Zenon DEF NoAttr
    <3>4. QED
      BY <3>1, <3>3
  <2>9. QED
    BY <2>7, <2>8
<1> HIDE DEF Orig
<1>3. F = AttrsFrom(buf, atEnd)
  <2>1. \A f : [start \in Nat |-> Orig(f, start)] = [start \in Nat |-> AttrsBody(buf, atEnd, f, start)]
    BY <1>2, Zenon
  <2>2. \A f : f = [start \in Nat |-> Orig(f, start)] <=> f = [start \in Nat |-> AttrsBody(buf, atEnd, f, start)]
    BY <2>1, Zenon
  <2>3. QED
    BY <2>2, Zenon DEF AttrsFrom
<1>4. AttrsFrom(buf, atEnd) = [start \in Nat |-> AttrsBody(buf, atEnd, AttrsFrom(buf, atEnd), start)]
  BY AttrsFunction, Zenon DEF AttrsFrom
<1> HIDE DEF F
<1>5. QED
  BY <1>1, <1>3, <1>4

\* What the scan finds at `start` is there in a longer buffer too, unless the end
\* of the shorter one was in the way.
LEMMA AttrGrown ==
  ASSUME NEW S, NEW buf \in Seq(S), NEW full \in Seq(S), Grown(buf, full),
         NEW start \in Nat \ {0}, NEW atEnd
  PROVE  \/ ~HasAttr(buf, start) /\ NoAttr(buf, NeedsMore, start) = NeedsMore
         \/ /\ ~HasAttr(buf, start) /\ ~HasAttr(full, start)
            /\ NoAttr(full, atEnd, start) = NoAttr(buf, NeedsMore, start)
         \/ /\ HasAttr(buf, start) /\ HasAttr(full, start)
            /\ KeyOf(full, start) = KeyOf(buf, start)
            /\ ValueOf(full, start) = ValueOf(buf, start)
            /\ PastAttr(full, start) = PastAttr(buf, start)
<1> DEFINE i == KeyAt(buf, start)
           n == NameEnd(buf, i)
           eq == EqAt(buf, start)
           quote == QuoteAt(buf, start)
           past == PastAttr(buf, start)
           More == ~HasAttr(buf, start) /\ NoAttr(buf, NeedsMore, start) = NeedsMore
           Same == /\ ~HasAttr(buf, start) /\ ~HasAttr(full, start)
                   /\ NoAttr(full, atEnd, start) = NoAttr(buf, NeedsMore, start)
<1>1. /\ Len(buf) \in Nat /\ Len(full) \in Nat /\ Len(buf) <= Len(full)
      /\ \A j \in 1 .. Len(buf) : full[j] = buf[j]
  BY DEF Grown
<1>2. i \in Nat /\ (i <= Len(buf) => i >= start)
  BY SkipWsMovesOn DEF KeyAt
<1>3. CASE i > Len(buf)
  <2>1. ~(i <= Len(buf))
    BY <1>1, <1>2, <1>3
  <2>2. More
    BY <1>3, <2>1, Zenon DEF HasAttr, NoAttr
  <2>3. QED
    BY <2>2
<1>4. CASE i <= Len(buf)
  <2>1. i \in 1 .. Len(buf) /\ ~(i > Len(buf))
    BY <1>1, <1>2, <1>4
  <2>2. KeyAt(full, start) = i /\ full[i] = buf[i]
    BY <1>1, <1>4, <2>1, SkipWsGrown DEF KeyAt
  <2>3. i <= Len(full) /\ ~(i > Len(full))
    BY <1>1, <2>1
  <2>4. CASE buf[i] = ">"
    BY <2>1, <2>2, <2>3, <2>4, Zenon DEF HasAttr, NoAttr
  <2>5. CASE buf[i] = "/"
    <3>1. ~HasAttr(buf, start) /\ ~HasAttr(full, start)
      BY <2>2, <2>5 DEF HasAttr
    <3>2. ">" # "/"
      OBVIOUS
    <3>3. CASE i = Len(buf)
      BY <2>1, <2>5, <3>1, <3>2, <3>3, Zenon DEF NoAttr
    <3>4. CASE i # Len(buf)
      <4>1. i # Len(full) /\ full[i + 1] = buf[i + 1]
        BY <1>1, <2>1, <3>4
      <4>2. QED
        BY <2>1, <2>2, <2>3, <2>5, <3>1, <3>2, <3>4, <4>1, Zenon DEF NoAttr
    <3>5. QED
      BY <3>3, <3>4
  <2>6. CASE buf[i] # ">" /\ buf[i] # "/"
    <3>1. n \in i .. Len(buf) + 1 /\ i + 0 \in Nat \ {0}
      BY <1>1, <2>1, NameEndFacts
    <3>2. EqAt(buf, start) = SkipWs(buf, n) /\ EndTagName(buf, i) = SubSeq(buf, i, n - 1)
          /\ KeyOf(buf, start) = EndTagName(buf, i)
      BY Zenon DEF EqAt, EndTagName, KeyOf
    <3>3. eq \in Nat /\ (eq <= Len(buf) => eq >= n)
      <4>1. n \in Nat
        BY <2>1, <3>1
      <4>2. QED
        BY <3>2, <4>1, SkipWsMovesOn
    <3>4. CASE eq > Len(buf)
      <4>1. ~(eq <= Len(buf))
        BY <1>1, <3>3, <3>4
      <4>2. ~HasAttr(buf, start)
        BY <4>1, Zenon DEF HasAttr
      <4>3. CASE KeyOf(buf, start) = <<>>
        <5>1. n = i
          <6>1. CASE n > i
            <7>1. \A k \in i .. n - 1 : buf[k] \in S
              BY <1>1, <2>1, <3>1, ElementOfSeq
            <7>2. Len(SubSeq(buf, i, n - 1)) = n - i
              BY <1>1, <2>1, <3>1, <6>1, <7>1, SubSeqProperties
            <7>3. Len(SubSeq(buf, i, n - 1)) = 0
              <8>1. SubSeq(buf, i, n - 1) = <<>>
                BY <3>2, <4>3, Zenon
              <8>2. QED
                BY <8>1, EmptySeq, Zenon
            <7>4. QED
              BY <2>1, <3>1, <6>1, <7>2, <7>3
          <6>2. QED
            BY <1>1, <2>1, <3>1, <6>1
        <5>2. NameEnd(full, i) = n
          BY <1>1, <2>1, <5>1, NameEndGrown
        <5>3. SubSeq(full, i, n - 1) = SubSeq(buf, i, n - 1)
          BY <1>1, <2>1, <5>1, SliceGrown
        <5>4. KeyOf(full, start) = <<>>
          BY <2>2, <3>2, <4>3, <5>2, <5>3, Zenon DEF KeyOf, EndTagName
        <5>5. NoAttr(buf, NeedsMore, start) = Malformed
          BY <2>1, <2>6, <4>3, Zenon DEF NoAttr
        <5>6. NoAttr(full, atEnd, start) = Malformed
          BY <2>2, <2>3, <2>6, <5>4, Zenon DEF NoAttr
        <5>7. ~HasAttr(full, start)
          BY <5>4 DEF HasAttr
        <5>8. QED
          BY <4>2, <5>5, <5>6, <5>7
      <4>4. CASE KeyOf(buf, start) # <<>>
        <5>1. NoAttr(buf, NeedsMore, start) = NeedsMore
          BY <2>1, <2>6, <3>4, <4>4, Zenon DEF NoAttr
        <5>2. QED
          BY <4>2, <5>1
      <4>5. QED
        BY <4>3, <4>4
    <3>5. CASE eq <= Len(buf)
      <4>1. n \in 1 .. Len(buf) /\ eq \in 1 .. Len(buf) /\ ~(eq > Len(buf))
        BY <1>1, <2>1, <3>1, <3>3, <3>5
      <4>2. NameEnd(full, i) = n
        BY <1>1, <2>1, <4>1, NameEndGrown
      <4>3. SubSeq(full, i, n - 1) = SubSeq(buf, i, n - 1)
        <5>1. n - 1 \in Int /\ n - 1 <= Len(buf)
          BY <1>1, <4>1
        <5>2. PICK z \in Int : z = n - 1 /\ z <= Len(buf)
          BY <5>1
        <5>3. SubSeq(full, i, z) = SubSeq(buf, i, z)
          <6>1. i \in Nat \ {0}
            BY <2>1
          <6>2. QED
            BY <5>2, <6>1, SliceGrown, ZenonT(40)
        <5>4. QED
          BY <5>2, <5>3
      <4>4. KeyOf(full, start) = KeyOf(buf, start)
        BY <2>2, <3>2, <4>2, <4>3, Zenon DEF KeyOf, EndTagName
      <4>5. EqAt(full, start) = eq /\ full[eq] = buf[eq]
        <5>1. SkipWs(full, n) = SkipWs(buf, n)
          BY <3>2, <3>5, <4>1, SkipWsGrown
        <5>2. QED
          BY <1>1, <2>2, <3>2, <4>1, <4>2, <5>1 DEF EqAt
      <4>6. eq <= Len(full) /\ ~(eq > Len(full))
        BY <1>1, <4>1
      <4>7. CASE KeyOf(buf, start) = <<>>
        <5>1. NoAttr(buf, NeedsMore, start) = Malformed /\ NoAttr(full, atEnd, start) = Malformed
          BY <2>1, <2>2, <2>3, <2>6, <4>4, <4>7, Zenon DEF NoAttr
        <5>2. ~HasAttr(buf, start) /\ ~HasAttr(full, start)
          BY <4>4, <4>7, Zenon DEF HasAttr
        <5>3. QED
          BY <5>1, <5>2
      <4>8. CASE KeyOf(buf, start) # <<>> /\ buf[eq] # "="
        <5>1. NoAttr(buf, NeedsMore, start) = Malformed
          BY <2>1, <2>6, <4>1, <4>8, Zenon DEF NoAttr
        <5>2. NoAttr(full, atEnd, start) = Malformed
          BY <2>2, <2>3, <2>6, <4>4, <4>5, <4>6, <4>8, Zenon DEF NoAttr
        <5>3. ~HasAttr(buf, start) /\ ~HasAttr(full, start)
          BY <4>5, <4>8, Zenon DEF HasAttr
        <5>4. QED
          BY <5>1, <5>2, <5>3
      <4>9. CASE KeyOf(buf, start) # <<>> /\ buf[eq] = "="
        <5>1. eq + 1 \in Nat \ {0}
          BY <4>1
        <5>2. quote \in Nat /\ (quote <= Len(buf) => quote >= eq + 1)
          BY <5>1, SkipWsMovesOn DEF QuoteAt
        <5>3. CASE quote > Len(buf)
          <6>1. ~(quote <= Len(buf))
            BY <1>1, <5>2, <5>3
          <6>2. ~HasAttr(buf, start)
            BY <6>1, Zenon DEF HasAttr
          <6>3. NoAttr(buf, NeedsMore, start) = NeedsMore
            BY <2>1, <2>6, <4>1, <4>9, <5>3, Zenon DEF NoAttr
          <6>4. QED
            BY <6>2, <6>3
        <5>4. CASE quote <= Len(buf)
          <6>1. quote \in 1 .. Len(buf) /\ ~(quote > Len(buf))
                /\ quote <= Len(full) /\ ~(quote > Len(full))
            BY <1>1, <5>1, <5>2, <5>4
          <6>2. QuoteAt(full, start) = quote /\ full[quote] = buf[quote]
            <7>1. SkipWs(full, eq + 1) = SkipWs(buf, eq + 1)
              BY <5>1, <5>4, SkipWsGrown DEF QuoteAt
            <7>2. QED
              BY <1>1, <4>5, <6>1, <7>1 DEF QuoteAt
          <6>3. CASE buf[quote] \notin Quotes
            <7>1. NoAttr(buf, NeedsMore, start) = Malformed
              BY <2>1, <2>6, <4>1, <4>9, <6>1, <6>3, Zenon DEF NoAttr
            <7>2. NoAttr(full, atEnd, start) = Malformed
              BY <2>2, <2>3, <2>6, <4>4, <4>5, <4>6, <4>9, <6>1, <6>2, <6>3, Zenon DEF NoAttr
            <7>3. ~HasAttr(buf, start) /\ ~HasAttr(full, start)
              BY <6>2, <6>3, Zenon DEF HasAttr
            <7>4. QED
              BY <7>1, <7>2, <7>3
          <6>4. CASE buf[quote] \in Quotes
            <7>1. CASE past = Nowhere
              <8>1. ~HasAttr(buf, start)
                BY <7>1, Zenon DEF HasAttr
              <8>2. NoAttr(buf, NeedsMore, start) = NeedsMore
                BY <2>1, <2>6, <4>1, <4>9, <6>1, <6>4, Zenon DEF NoAttr
              <8>3. QED
                BY <8>1, <8>2
            <7>2. CASE past # Nowhere
              <8>1. <<buf[quote]>> \in Seq(S) /\ <<buf[quote]>> # <<>> /\ quote + 1 \in Nat \ {0}
                <9>1. buf[quote] \in S
                  BY <6>1, ElementOfSeq
                <9>2. QED
                  BY <6>1, <9>1
              <8>2. /\ PastFirst(full, quote + 1, <<buf[quote]>>) = PastFirst(buf, quote + 1, <<buf[quote]>>)
                    /\ PastFirst(buf, quote + 1, <<buf[quote]>>)
                         \in quote + 1 + Len(<<buf[quote]>>) .. Len(buf) + 1
                BY <7>2, <8>1, PastFirstGrown DEF PastAttr
              <8>3. PastAttr(full, start) = past /\ past \in Nat /\ past <= Len(buf) + 1
                BY <1>1, <6>1, <6>2, <8>2 DEF PastAttr
              <8>4. ValueOf(full, start) = ValueOf(buf, start)
                <9>1. past - 2 \in Int /\ past - 2 <= Len(buf)
                  BY <1>1, <8>3
                <9>2. SubSeq(full, quote + 1, past - 2) = SubSeq(buf, quote + 1, past - 2)
                  <10>1. PICK z \in Int : z = past - 2 /\ z <= Len(buf)
                    BY <9>1
                  <10>2. SubSeq(full, quote + 1, z) = SubSeq(buf, quote + 1, z)
                    BY <8>1, <10>1, SliceGrown, ZenonT(40)
                  <10>3. QED
                    BY <10>1, <10>2
                <9>3. QED
                  BY <6>2, <8>3, <9>2, Zenon DEF ValueOf
              <8>5. buf[i] \notin {">", "/"}
                BY <2>6
              <8>6. HasAttr(buf, start)
                BY <2>1, <3>5, <4>9, <5>4, <6>4, <7>2, <8>5, <1>4, Zenon DEF HasAttr
              <8>7. HasAttr(full, start)
                BY <2>2, <2>3, <4>4, <4>5, <4>6, <4>9, <6>1, <6>2, <6>4, <7>2, <8>3, <8>5, Zenon
                DEF HasAttr
              <8>8. QED
                BY <4>4, <8>3, <8>4, <8>6, <8>7
            <7>3. QED
              BY <7>1, <7>2
          <6>5. QED
            BY <6>3, <6>4
        <5>5. QED
          BY <1>1, <5>2, <5>3, <5>4
      <4>10. QED
        BY <4>7, <4>8, <4>9
    <3>6. QED
      BY <1>1, <3>3, <3>4, <3>5
  <2>7. QED
    BY <2>4, <2>5, <2>6
<1>5. QED
  BY <1>1, <1>2, <1>3, <1>4

\* scan_attrs on part of a tag: it asks for more, or has the answer that the whole
\* of it gets.
LEMMA ScanAttrsGrown ==
  ASSUME NEW S, NEW buf \in Seq(S), NEW full \in Seq(S), Grown(buf, full),
         NEW from \in Nat \ {0}, NEW atEnd
  PROVE  \/ ScanAttrs(buf, from, NeedsMore) = NeedsMore
         \/ ScanAttrs(full, from, atEnd) = ScanAttrs(buf, from, NeedsMore)
<1> DEFINE F == AttrsFrom(buf, NeedsMore)
           G == AttrsFrom(full, atEnd)
           Good(i) == F[i] = NeedsMore \/ G[i] = F[i]
<1>1. /\ \A i \in Nat : F[i] = AttrsBody(buf, NeedsMore, F, i)
      /\ \A i \in Nat : G[i] = AttrsBody(full, atEnd, G, i)
      /\ ScanAttrs(buf, from, NeedsMore) = F[from]
      /\ ScanAttrs(full, from, atEnd) = G[from]
  BY ScanAttrsUnfolds
<1> HIDE DEF F, G
<1>2. Len(buf) \in Nat
  OBVIOUS
<1>3. ASSUME NEW i \in Nat \ {0}, \A j \in i + 1 .. Len(buf) + 1 : Good(j) PROVE Good(i)
  <2>1. CASE HasAttr(buf, i) /\ HasAttr(full, i)
            /\ KeyOf(full, i) = KeyOf(buf, i)
            /\ ValueOf(full, i) = ValueOf(buf, i)
            /\ PastAttr(full, i) = PastAttr(buf, i)
    <3> DEFINE next == PastAttr(buf, i)
    <3>1. next \in i + 1 .. Len(buf) + 1
      BY <2>1, HasAttrFacts
    <3>2. Good(next)
      BY <1>3, <3>1
    <3>3. F[i] = WithAttr(KeyOf(buf, i), ValueOf(buf, i), F[next])
      BY <1>1, <2>1 DEF AttrsBody
    <3>4. G[i] = WithAttr(KeyOf(buf, i), ValueOf(buf, i), G[next])
      BY <1>1, <2>1 DEF AttrsBody
    <3>5. CASE G[next] = F[next]
      BY <3>3, <3>4, <3>5
    <3>6. CASE F[next] = NeedsMore
      <4>1. NeedsMore.verdict # "at"
        BY DEF NeedsMore
      <4>2. F[i] = NeedsMore \/ (~IsUtf8(ValueOf(buf, i)) /\ DeclaresNs(KeyOf(buf, i)))
        BY <3>3, <3>6, <4>1, Zenon DEF WithAttr
      <4>3. ~IsUtf8(ValueOf(buf, i)) /\ DeclaresNs(KeyOf(buf, i)) => G[i] = F[i]
        BY <3>3, <3>4, Zenon DEF WithAttr
      <4>4. QED
        BY <4>2, <4>3
    <3>7. QED
      BY <3>2, <3>5, <3>6
  <2>2. CASE ~HasAttr(buf, i) /\ NoAttr(buf, NeedsMore, i) = NeedsMore
    BY <1>1, <2>2 DEF AttrsBody
  <2>3. CASE /\ ~HasAttr(buf, i) /\ ~HasAttr(full, i)
             /\ NoAttr(full, atEnd, i) = NoAttr(buf, NeedsMore, i)
    BY <1>1, <2>3 DEF AttrsBody
  <2>4. QED
    BY <2>1, <2>2, <2>3, AttrGrown
<1> HIDE DEF Good
<1>4. Good(from)
  <2> DEFINE T == {i \in Nat \ {0} : Good(i)}
  <2>1. \A i \in Nat \ {0} : (\A j \in i + 1 .. Len(buf) + 1 : j \in T) => i \in T
    BY <1>3
  <2> HIDE DEF T
  <2>2. from \in T
    BY <1>2, <2>1, Backwards
  <2>3. QED
    BY <2>2 DEF T
<1>5. QED
  BY <1>1, <1>4 DEF Good

\* Where one caller asks for more, the other finds the tag cut off.
LEMMA ScanAttrsCut ==
  ASSUME NEW S, NEW buf \in Seq(S), NEW from \in Nat \ {0},
         ScanAttrs(buf, from, NeedsMore) = NeedsMore
  PROVE  ScanAttrs(buf, from, Malformed) = Malformed
<1> DEFINE F == AttrsFrom(buf, NeedsMore)
           G == AttrsFrom(buf, Malformed)
           Good(i) == F[i] = NeedsMore => G[i] = Malformed
<1>1. /\ \A i \in Nat : F[i] = AttrsBody(buf, NeedsMore, F, i)
      /\ \A i \in Nat : G[i] = AttrsBody(buf, Malformed, G, i)
      /\ ScanAttrs(buf, from, NeedsMore) = F[from]
      /\ ScanAttrs(buf, from, Malformed) = G[from]
  BY ScanAttrsUnfolds
<1> HIDE DEF F, G
<1>2. Len(buf) \in Nat
  OBVIOUS
<1>3. /\ NeedsMore # Malformed /\ NeedsMore # BadEncoding
      /\ NeedsMore.verdict # "at" /\ Malformed.verdict # "at"
      /\ \A i, slash : TagEnd(i, slash) # NeedsMore
  BY DEF NeedsMore, Malformed, BadEncoding, TagEnd
<1>4. ASSUME NEW i \in Nat \ {0}, \A j \in i + 1 .. Len(buf) + 1 : Good(j), F[i] = NeedsMore
      PROVE  G[i] = Malformed
  <2>1. CASE HasAttr(buf, i)
    <3> DEFINE next == PastAttr(buf, i)
               name == KeyOf(buf, i)
               value == ValueOf(buf, i)
    <3>1. next \in i + 1 .. Len(buf) + 1
      BY <2>1, HasAttrFacts
    <3>2. F[i] = WithAttr(name, value, F[next]) /\ G[i] = WithAttr(name, value, G[next])
      BY <1>1, <2>1 DEF AttrsBody
    <3>3. \A x : F[next].verdict = "at" => [F[next] EXCEPT !.ns = x] # NeedsMore
      <4> SUFFICES ASSUME NEW x, F[next].verdict = "at", [F[next] EXCEPT !.ns = x] = NeedsMore
                   PROVE  FALSE
        OBVIOUS
      <4>1. DOMAIN [F[next] EXCEPT !.ns = x] = {"verdict"} /\ [F[next] EXCEPT !.ns = x].verdict = "more"
        BY DEF NeedsMore
      <4>2. "verdict" \in DOMAIN F[next]
        BY <4>1
      <4>3. [F[next] EXCEPT !.ns = x].verdict = F[next].verdict
        BY <4>2
      <4>4. QED
        BY <4>1, <4>3
    <3>4. F[next] = NeedsMore /\ (DeclaresNs(name) => IsUtf8(value))
      <4>1. \/ F[i] = F[next]
            \/ F[i] = BadEncoding
            \/ /\ F[next].verdict = "at"
               /\ F[i] = [F[next] EXCEPT !.ns = DeclaredBefore(@, PrefixOf[name[1]], value)]
        BY <3>2, Zenon DEF WithAttr
      <4>2. DeclaresNs(name) /\ ~IsUtf8(value) => F[i] = BadEncoding
        BY <3>2, Zenon DEF WithAttr
      <4>3. QED
        BY <1>3, <1>4, <3>3, <4>1, <4>2
    <3>5. G[next] = Malformed
      BY <1>4, <3>1, <3>4
    <3>6. QED
      BY <1>3, <3>2, <3>4, <3>5, Zenon DEF WithAttr
  <2>2. CASE ~HasAttr(buf, i)
    <3>1. F[i] = NoAttr(buf, NeedsMore, i) /\ G[i] = NoAttr(buf, Malformed, i)
      BY <1>1, <2>2 DEF AttrsBody
    <3>2. QED
      BY <1>3, <1>4, <3>1, Zenon DEF NoAttr
  <2>3. QED
    BY <2>1, <2>2
<1> HIDE DEF Good
<1>5. Good(from)
  <2> DEFINE T == {i \in Nat \ {0} : Good(i)}
  <2>1. \A i \in Nat \ {0} : (\A j \in i + 1 .. Len(buf) + 1 : j \in T) => i \in T
    BY <1>4 DEF Good
  <2> HIDE DEF T
  <2>2. from \in T
    BY <1>2, <2>1, Backwards
  <2>3. QED
    BY <2>2 DEF T
<1>6. QED
  BY <1>1, <1>5 DEF Good

\* What the scan answers: where the tag ends, or one of its reasons to stop.
AttrsAnswer(buf, start, answer) ==
    \E pos \in start + 1 .. Len(buf) + 1, slash \in BOOLEAN : \E ns :
        answer = [verdict |-> "at", pos |-> pos, slash |-> slash, ns |-> ns]

\* scan_attrs answers where the tag ends, inside the buffer, or why it stops.
LEMMA ScanAttrsAnswers ==
  ASSUME NEW S, NEW buf \in Seq(S), NEW from \in Nat \ {0}, NEW atEnd, atEnd.verdict # "at"
  PROVE  \/ ScanAttrs(buf, from, atEnd) \in {atEnd, Malformed, BadEncoding}
         \/ AttrsAnswer(buf, from, ScanAttrs(buf, from, atEnd))
<1> DEFINE F == AttrsFrom(buf, atEnd)
           Good(i) == F[i] \in {atEnd, Malformed, BadEncoding} \/ AttrsAnswer(buf, i, F[i])
<1>1. /\ \A i \in Nat : F[i] = AttrsBody(buf, atEnd, F, i)
      /\ ScanAttrs(buf, from, atEnd) = F[from]
  BY ScanAttrsUnfolds
<1> HIDE DEF F
<1>2. Len(buf) \in Nat
  OBVIOUS
<1>3. ASSUME NEW i \in Nat \ {0}, \A j \in i + 1 .. Len(buf) + 1 : Good(j) PROVE Good(i)
  <2>1. CASE HasAttr(buf, i)
    <3> DEFINE next == PastAttr(buf, i)
    <3>1. next \in i + 1 .. Len(buf) + 1
      BY <2>1, HasAttrFacts
    <3>2. Good(next)
      BY <1>3, <3>1
    <3>3. F[i] = WithAttr(KeyOf(buf, i), ValueOf(buf, i), F[next])
      BY <1>1, <2>1 DEF AttrsBody
    <3>4. CASE F[next].verdict # "at"
      <4>1. F[i] = F[next] \/ F[i] = BadEncoding
        BY <3>3, <3>4, Zenon DEF WithAttr
      <4>2. F[next] \in {atEnd, Malformed, BadEncoding}
        <5>1. ~AttrsAnswer(buf, next, F[next])
          <6>1. SUFFICES ASSUME AttrsAnswer(buf, next, F[next]) PROVE FALSE
            OBVIOUS
          <6>2. PICK p, sl, ns : F[next] = [verdict |-> "at", pos |-> p, slash |-> sl, ns |-> ns]
            BY <6>1, Zenon DEF AttrsAnswer
          <6>3. QED
            BY <3>4, <6>2
        <5>2. QED
          BY <3>2, <5>1
      <4>3. QED
        BY <4>1, <4>2
    <3>5. CASE F[next].verdict = "at"
      <4>1. AttrsAnswer(buf, next, F[next])
        BY <3>2, <3>5 DEF Malformed, BadEncoding
      <4>2. PICK pos \in next + 1 .. Len(buf) + 1, slash \in BOOLEAN : \E ns :
               F[next] = [verdict |-> "at", pos |-> pos, slash |-> slash, ns |-> ns]
        BY <4>1, Zenon DEF AttrsAnswer
      <4>3. PICK ns : F[next] = [verdict |-> "at", pos |-> pos, slash |-> slash, ns |-> ns]
        BY <4>2
      <4>4. \A x : [F[next] EXCEPT !.ns = x] = [verdict |-> "at", pos |-> pos, slash |-> slash, ns |-> x]
        BY <4>3
      <4>5. \/ F[i] = BadEncoding
            \/ \E x : F[i] = [verdict |-> "at", pos |-> pos, slash |-> slash, ns |-> x]
        <5>1. \/ F[i] = BadEncoding \/ F[i] = F[next]
              \/ F[i] = [F[next] EXCEPT !.ns = DeclaredBefore(@, PrefixOf[KeyOf(buf, i)[1]], ValueOf(buf, i))]
          BY <3>3, Zenon DEF WithAttr
        <5>2. QED
          BY <4>3, <4>4, <5>1, ZenonT(30)
      <4>6. pos \in i + 1 .. Len(buf) + 1
        BY <1>2, <3>1, <4>2
      <4>7. QED
        BY <4>5, <4>6, Zenon DEF AttrsAnswer
    <3>6. QED
      BY <3>4, <3>5
  <2>2. CASE ~HasAttr(buf, i)
    <3>1. F[i] = NoAttr(buf, atEnd, i)
      BY <1>1, <2>2 DEF AttrsBody
    <3> DEFINE k == KeyAt(buf, i)
    <3>2. k \in Nat /\ (k <= Len(buf) => k >= i)
      BY SkipWsMovesOn DEF KeyAt
    <3>3. \/ F[i] \in {atEnd, Malformed}
          \/ ~(k > Len(buf)) /\ F[i] = TagEnd(k + 1, FALSE)
          \/ ~(k > Len(buf)) /\ k # Len(buf) /\ F[i] = TagEnd(k + 2, TRUE)
      BY <3>1, Zenon DEF NoAttr
    <3>4. ~(k > Len(buf)) => /\ k + 1 \in i + 1 .. Len(buf) + 1
                             /\ k # Len(buf) => k + 2 \in i + 1 .. Len(buf) + 1
      BY <1>2, <3>2
    <3>5. QED
      BY <3>3, <3>4, Zenon DEF AttrsAnswer, TagEnd
  <2>3. QED
    BY <2>1, <2>2
<1> HIDE DEF Good
<1>4. Good(from)
  <2> DEFINE G == {i \in Nat \ {0} : Good(i)}
  <2>1. \A i \in Nat \ {0} : (\A j \in i + 1 .. Len(buf) + 1 : j \in G) => i \in G
    BY <1>3
  <2> HIDE DEF G
  <2>2. from \in G
    BY <1>2, <2>1, Backwards
  <2>3. QED
    BY <2>2 DEF G
<1>5. QED
  BY <1>1, <1>4 DEF Good
===============================================================================
