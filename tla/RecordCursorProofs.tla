-------------------------- MODULE RecordCursorProofs ---------------------------
(***************************************************************************)
(* Safety of the pull cursors, for every source of events and every        *)
(* caller: ReaderInv is inductive.  The attribute iterator agrees with the *)
(* scanner: AgreeInv is inductive.                                         *)
(***************************************************************************)
EXTENDS RecordCursor, XmlBytesProofs

(***************************************************************************)
(* What quick-xml yields.                                                  *)
(***************************************************************************)
LEMMA SourceFacts ==
  ASSUME events \in Sources
  PROVE  /\ Len(events) \in Nat /\ Places = 1 .. Len(events)
         /\ KindOf(0) = "end"
         /\ \A k \in 1 .. Len(events) : KindOf(k) = events[k].kind /\ KindOf(k) \in EventKinds
BY SourcesAssumption DEF Places, KindOf, NoEvent

(***************************************************************************)
(* The meaning of the events depends on the source alone.                  *)
(***************************************************************************)
LEMMA SameMeaning ==
  ASSUME UNCHANGED <<events, sequential>>
  PROVE  /\ Places' = Places
         /\ \A k : KindOf(k)' = KindOf(k)
         /\ \A k : IsTextRun(k)' = IsTextRun(k)
         /\ \A k : Known(k)' = Known(k)
         /\ \A k : Meaning(k)' = Meaning(k)
         /\ \A k : Bad(k)' = Bad(k)
         /\ \A k : Begins(k)' = Begins(k)
         /\ \A k : EndsRun(k)' = EndsRun(k)
         /\ \A k : DoctypeLost(k)' = DoctypeLost(k)
         /\ \A k : Excused(k)' = Excused(k)
         /\ \A r, k : Delivers(r, k)' = Delivers(r, k)
         /\ \A r, k : ResultExact(r, k)' = ResultExact(r, k)
<1>1. \A k : KindOf(k)' = KindOf(k)
  BY DEF KindOf
<1>2. \A k : IsTextRun(k)' = IsTextRun(k)
  BY <1>1 DEF IsTextRun
<1>3. \A k, n : Declarations(k, n)' = Declarations(k, n)
  BY <1>1 DEF Declarations
<1>4. \A k : DeclaredNames(k)' = DeclaredNames(k)
  BY <1>1 DEF DeclaredNames
<1>5. \A k : Known(k)' = Known(k)
  BY <1>3, <1>4 DEF Known
<1>6. \A k : Meaning(k)' = Meaning(k)
  BY <1>1, <1>5 DEF Meaning
<1>7. \A k : Bad(k)' = Bad(k)
  BY <1>1, <1>6 DEF Bad
<1>8. \A k : Begins(k)' = Begins(k)
  BY <1>1, <1>2 DEF Begins
<1>9. \A k : EndsRun(k)' = EndsRun(k)
  BY <1>2 DEF EndsRun
<1>10. \A k : DoctypeLost(k)' = DoctypeLost(k)
  BY <1>1, <1>7 DEF DoctypeLost
<1>11. \A k : Failed(k)' = Failed(k)
  BY <1>1, <1>7, <1>10 DEF Failed
<1>12. \A k : Excused(k)' = Excused(k)
  BY <1>1, <1>2, <1>11 DEF Excused, Places
<1>13. \A r, k : Delivers(r, k)' = Delivers(r, k)
  <2> SUFFICES ASSUME NEW r, NEW k PROVE Delivers(r, k)' = Delivers(r, k)
    OBVIOUS
  <2>1. CASE IsTextRun(k)
    BY <1>2, <1>6, <1>9, <2>1 DEF Delivers
  <2>2. CASE ~IsTextRun(k)
    BY <1>1, <1>2, <2>2 DEF Delivers
  <2>3. QED
    BY <2>1, <2>2
<1>14. \A r, k : ResultExact(r, k)' = ResultExact(r, k)
  BY <1>2, <1>7, <1>8, <1>13 DEF ResultExact
<1>15. Places' = Places
  BY DEF Places
<1>16. QED
  BY <1>1, <1>2, <1>5, <1>6, <1>7, <1>8, <1>9, <1>10, <1>12, <1>13, <1>14, <1>15

(***************************************************************************)
(* The entities declared in front of the next event.                       *)
(***************************************************************************)
LEMMA KnownFirst ==
  ASSUME sequential
  PROVE  Known(1) = <<>>
<1>1. 1 .. 1 - 1 = {}
  OBVIOUS
<1>2. DeclaredNames(1) = {}
  BY <1>1 DEF DeclaredNames
<1>3. QED
  BY <1>2 DEF Known

\* Only a DOCTYPE that SeqReader comes to changes what is declared.
LEMMA KnownStays ==
  ASSUME events \in Sources, NEW k \in 1 .. Len(events), KindOf(k) # "doctype" \/ ~sequential
  PROVE  Known(k + 1) = Known(k)
<1>1. CASE ~sequential
  BY <1>1 DEF Known
<1>2. CASE KindOf(k) # "doctype"
  <2>1. \A j : j \in 1 .. (k + 1) - 1 /\ KindOf(j) = "doctype"
                 <=> j \in 1 .. k - 1 /\ KindOf(j) = "doctype"
    BY <1>2, SourceFacts
  <2>2. \A name : Declarations(k + 1, name) = Declarations(k, name)
    BY <2>1 DEF Declarations
  <2>3. {j \in 1 .. (k + 1) - 1 : KindOf(j) = "doctype"} = {j \in 1 .. k - 1 : KindOf(j) = "doctype"}
    BY <2>1
  <2>4. DeclaredNames(k + 1) = DeclaredNames(k)
    BY <2>3 DEF DeclaredNames
  <2>5. QED
    BY <2>2, <2>4 DEF Known
<1>3. QED
  BY <1>1, <1>2

\* What CaptureDoctype makes of the entity table is what is declared behind the
\* DOCTYPE.
LEMMA KnownGrows ==
  ASSUME events \in Sources, NEW k \in 1 .. Len(events), KindOf(k) = "doctype", sequential,
         entities = Known(k)
  PROVE  WithDeclared(events[k].entities) = Known(k + 1)
<1> DEFINE here == events[k].entities
           old == DeclaredNames(k)
<1>1. Known(k) = [name \in old |-> events[Max(Declarations(k, name))].entities[name]]
  BY DEF Known
<1>2. DOMAIN entities = old
        /\ \A name \in old : entities[name] = events[Max(Declarations(k, name))].entities[name]
  BY <1>1
<1>3. {j \in 1 .. (k + 1) - 1 : KindOf(j) = "doctype"} = {j \in 1 .. k - 1 : KindOf(j) = "doctype"} \cup {k}
  BY SourceFacts
<1>4. DeclaredNames(k + 1) = DOMAIN here \cup old
  BY <1>3 DEF DeclaredNames
<1>5. ASSUME NEW name \in DOMAIN here PROVE Max(Declarations(k + 1, name)) = k
  <2>1. k \in Declarations(k + 1, name) /\ \A d \in Declarations(k + 1, name) : k >= d
    BY <1>5, SourceFacts DEF Declarations
  <2>2. \A x \in Declarations(k + 1, name) : x \in Int
    BY SourceFacts DEF Declarations
  <2>3. \A x \in Declarations(k + 1, name) : (\A d \in Declarations(k + 1, name) : x >= d) => x = k
    BY <2>1, <2>2
  <2>4. QED
    BY <2>1, <2>3, Zenon DEF Max
<1>6. ASSUME NEW name, name \notin DOMAIN here PROVE Declarations(k + 1, name) = Declarations(k, name)
  BY <1>6, SourceFacts DEF Declarations
<1>7. Known(k + 1) = [name \in DOMAIN here \cup old |->
                        events[Max(Declarations(k + 1, name))].entities[name]]
  BY <1>4 DEF Known
<1>8. \A name \in DOMAIN here \cup old :
        events[Max(Declarations(k + 1, name))].entities[name]
          = IF name \in DOMAIN here THEN here[name] ELSE entities[name]
  BY <1>2, <1>5, <1>6
<1>9. WithDeclared(here) = [name \in DOMAIN here \cup old |->
                              IF name \in DOMAIN here THEN here[name] ELSE entities[name]]
  BY <1>2 DEF WithDeclared
<1>10. QED
  BY <1>7, <1>8, <1>9

(***************************************************************************)
(* References: what the reader resolves and what it should.                *)
(***************************************************************************)
LEMMA TextMeaning ==
  ASSUME NEW k, IsTextRun(k), entities = Known(k)
  PROVE  TextOf(k) = Meaning(k)
BY DEF IsTextRun, TextOf, Meaning, LookupEntity

\* A piece of text is one value, and a literal always has one.
LEMMA TextShape ==
  ASSUME NEW k
  PROVE  /\ KindOf(k) = "text" => TextOf(k) # <<>>
         /\ TextOf(k) # <<>> => \E x : TextOf(k) = <<x>>
<1>1. \A x : <<x>> # <<>>
  OBVIOUS
<1>2. TextOf(k) = <<>> \/ \E x : TextOf(k) = <<x>>
  BY DEF TextOf, LookupEntity
<1>3. KindOf(k) = "text" => TextOf(k) # <<>>
  BY <1>1 DEF TextOf
<1>4. QED
  BY <1>2, <1>3

\* Only a reference can be without a text, and then it is an error of the source, or
\* of the DOCTYPE that was lost.
LEMMA Unresolved ==
  ASSUME NEW k, IsTextRun(k), TextOf(k) = <<>>
  PROVE  /\ KindOf(k) = "ref"
         /\ entities = Known(k) => Bad(k)
         /\ entities = Known(k) \/ DoctypeLost(k) => Failed(k)
<1>1. KindOf(k) = "ref"
  BY TextShape DEF IsTextRun
<1>2. entities = Known(k) => Bad(k)
  BY <1>1, TextMeaning DEF Bad
<1>3. QED
  BY <1>1, <1>2 DEF Failed

(***************************************************************************)
(* Where the reader is.                                                    *)
(***************************************************************************)
LEMMA PlaceFacts ==
  ASSUME ReaderInv
  PROVE  /\ Len(events) \in Nat /\ at \in 0 .. Len(events)
         /\ pending \in {NoEvent, at} /\ cur \in {NoEvent, at}
         /\ pc # "run" => cur = NoEvent
         /\ pc \in {"peek", "run"} => pending = NoEvent /\ IsTextRun(ev)
         /\ Ahead \in 1 .. Len(events) + 1
         /\ Held \in 1 .. Ahead
<1>1. /\ Len(events) \in Nat /\ at \in 0 .. Len(events) /\ KindOf(0) = "end"
      /\ pending \in {NoEvent, at} /\ cur \in {NoEvent, at} /\ ev \in 0 .. at
      /\ pc # "run" => cur = NoEvent
      /\ pc \in {"peek", "run"} => pending = NoEvent /\ IsTextRun(ev)
  BY SourceFacts DEF ReaderInv, ReaderOK, HandInv
<1>2. Ahead \in 1 .. Len(events) + 1
  BY <1>1 DEF Ahead, NoEvent
<1>3. CASE pc \in {"peek", "run"}
  <2>1. ev # 0 /\ Held = ev
    BY <1>1, <1>3 DEF IsTextRun, Held
  <2>2. ev <= Ahead
    BY <1>1, <1>3 DEF ReaderInv, HandInv, Ahead
  <2>3. QED
    BY <1>1, <1>2, <2>1, <2>2
<1>4. CASE pc \notin {"peek", "run"}
  BY <1>1, <1>2, <1>4 DEF Held
<1>5. QED
  BY <1>1, <1>2, <1>3, <1>4

\* read_raw: the event in the lookahead slot, or else the next of the source.
LEMMA RawFacts ==
  ASSUME ReaderInv
  PROVE  /\ Raw # NoEvent => /\ Raw \in 1 .. Len(events)
                             /\ pending # NoEvent => Raw = at
                             /\ pending = NoEvent => Raw = at + 1
                             /\ KindOf(Raw) \in EventKinds
         /\ Raw = NoEvent => at = Len(events) /\ pending = NoEvent /\ KindOf(Raw) = "end"
         /\ \A a : ReadRaw(a) => at' = (IF Raw = NoEvent THEN at ELSE Raw) /\ pending' = a
<1>1. /\ Len(events) \in Nat /\ at \in 0 .. Len(events)
      /\ pending \in {NoEvent, at} /\ KindOf(0) = "end"
      /\ \A k \in 1 .. Len(events) : KindOf(k) \in EventKinds
  BY PlaceFacts, SourceFacts DEF ReaderInv
<1>2. Raw # NoEvent => /\ Raw \in 1 .. Len(events)
                       /\ pending # NoEvent => Raw = at
                       /\ pending = NoEvent => Raw = at + 1
  BY <1>1 DEF Raw, NoEvent
<1>3. Raw = NoEvent => at = Len(events) /\ pending = NoEvent
  BY <1>1 DEF Raw, NoEvent
<1>4. \A a : ReadRaw(a) => at' = (IF Raw = NoEvent THEN at ELSE Raw) /\ pending' = a
  BY <1>1 DEF Raw, ReadRaw, NoEvent
<1>5. Raw # NoEvent => KindOf(Raw) \in EventKinds
  BY <1>1, <1>2
<1>6. Raw = NoEvent => KindOf(Raw) = "end"
  BY DEF KindOf
<1>7. QED
  BY <1>2, <1>3, <1>4, <1>5, <1>6

(***************************************************************************)
(* Until there is an error, what is held begins right behind the results.  *)
(***************************************************************************)
LEMMA HeldFacts ==
  ASSUME ReaderInv, Errors = {}, pc # "done"
  PROVE  /\ Len(delivered) \in Nat
         /\ LastPlace(Len(delivered)) \in 0 .. Held - 1
         /\ \A j \in LastPlace(Len(delivered)) + 1 .. Held - 1 : ~Begins(j)
         /\ Held <= Len(events) /\ IsTextRun(Held) => Begins(Held)
<1> DEFINE n == Len(delivered)
           from == LastPlace(n)
<1>1. n \in Nat /\ DOMAIN delivered = 1 .. n
  BY AppendFacts DEF ReaderInv, HandInv
<1>2. Held \in Nat \ {0} /\ Len(events) \in Nat /\ KindOf(0) = "end"
  BY PlaceFacts, SourceFacts DEF ReaderInv
<1>3. from \in 0 .. Held - 1
  <2>1. CASE n = 0
    BY <1>2, <2>1 DEF LastPlace
  <2>2. CASE n # 0
    <3>1. n \in DOMAIN delivered
      BY <1>1, <2>2
    <3>2. delivered[n].kind # "error" /\ delivered[n].kind # "none"
      BY <3>1 DEF Errors, ReaderInv, LossInv
    <3>3. delivered[n].last \in 1 .. Held - 1
      BY <3>1, <3>2 DEF ReaderInv, LossInv
    <3>4. QED
      BY <1>2, <2>2, <3>3 DEF LastPlace
  <2>3. QED
    BY <2>1, <2>2
<1>4. /\ \A j \in from + 1 .. Held - 1 : KindOf(j) \in {"comment", "doctype"}
      /\ IsTextRun(from) => EndsRun(from)
  BY DEF ReaderInv, ExactInv
<1>5. \A j \in from + 1 .. Held - 1 : ~Begins(j)
  BY <1>4 DEF Begins, IsTextRun
<1>6. ASSUME Held <= Len(events), IsTextRun(Held) PROVE Begins(Held)
  <2>1. CASE from < Held - 1
    <3>1. Held - 1 \in from + 1 .. Held - 1
      BY <1>2, <1>3, <2>1
    <3>2. ~IsTextRun(Held - 1)
      BY <1>4, <3>1 DEF IsTextRun
    <3>3. QED
      BY <1>6, <3>2 DEF Begins
  <2>2. CASE from = Held - 1
    <3>1. from + 1 = Held
      BY <1>2, <2>2
    <3>2. ~IsTextRun(from)
      BY <1>2, <1>4, <1>6, <3>1 DEF EndsRun
    <3>3. QED
      BY <1>6, <2>2, <3>2 DEF Begins
  <2>3. QED
    BY <1>2, <1>3, <2>1, <2>2
<1>7. QED
  BY <1>1, <1>3, <1>5, <1>6

-------------------------------------------------------------------------------
(***************************************************************************)
(* Steps that return nothing.                                              *)
(***************************************************************************)
LEMMA QuietKeepsInv ==
  ASSUME ReaderInv, UNCHANGED <<events, sequential, delivered>>,
         ReaderOK', HandInv', EntitiesInv', ExactInv', pc # "done", pc' # "done",
         Held' \in Nat, Held <= Held', \A k \in Held .. Held' - 1 : Excused(k)
  PROVE  ReaderInv'
<1>1. EventsExact'
  <2>1. LastPlace(0)' = LastPlace(0) /\ \A i : LastPlace(i)' = LastPlace(i)
    BY DEF LastPlace
  <2>2. Errors' = Errors
    BY DEF Errors
  <2>3. QED
    BY <2>1, <2>2, SameMeaning DEF ReaderInv, EventsExact
<1>2. LossInv'
  <2>1. InOrder' /\ DeliveredPlaces' = DeliveredPlaces
    BY DEF ReaderInv, LossInv, InOrder, Errors, DeliveredPlaces
  <2>2. \A k \in 1 .. Held' - 1 : k \in DeliveredPlaces' \/ Excused(k)'
    <3>1. PICK h \in Nat, g \in Nat : h = Held /\ g = Held' /\ h <= g
      BY PlaceFacts
    <3>2. \A k \in 1 .. g - 1 : k \in 1 .. h - 1 \/ k \in h .. g - 1
      OBVIOUS
    <3>3. QED
      BY <2>1, <3>1, <3>2, SameMeaning DEF ReaderInv, LossInv
  <2>3. ASSUME NEW i \in DOMAIN delivered
        PROVE  /\ delivered[i].kind # "none"
               /\ delivered[i].kind \notin {"none", "error"} =>
                    /\ "first" \in DOMAIN delivered[i]
                    /\ delivered[i].first \in 1 .. delivered[i].last
                    /\ delivered[i].last \in 1 .. Held' - 1
    <3>1. PICK h \in Nat, g \in Nat : h = Held /\ g = Held' /\ h <= g
      BY PlaceFacts
    <3>2. h <= g
      BY <3>1
    <3>3. \A x \in 1 .. h - 1 : x \in 1 .. g - 1
      BY <3>2
    <3>4. QED
      BY <3>1, <3>3 DEF ReaderInv, LossInv
  <2>4. QED
    BY <2>1, <2>2, <2>3 DEF LossInv
<1>3. events' \in Sources
  BY DEF ReaderInv
<1>4. QED
  BY <1>1, <1>2, <1>3 DEF ReaderInv

(***************************************************************************)
(* A result is appended.                                                   *)
(***************************************************************************)
LEMMA ResultAppended ==
  ASSUME ReaderInv, NEW r, Return(r)
  PROVE  /\ UNCHANGED <<events, sequential, entities>>
         /\ delivered' \in Seq(Range(delivered'))
         /\ Len(delivered) \in Nat /\ Len(delivered') = Len(delivered) + 1
         /\ DOMAIN delivered = 1 .. Len(delivered) /\ DOMAIN delivered' = 1 .. Len(delivered) + 1
         /\ \A i \in 1 .. Len(delivered) : delivered'[i] = delivered[i]
         /\ delivered'[Len(delivered) + 1] = r
         /\ Errors' = Errors \cup (IF r.kind = "error" THEN {Len(delivered) + 1} ELSE {})
         /\ Errors \subseteq 1 .. Len(delivered)
         /\ (Errors = {} => ResultExact(r, LastPlace(Len(delivered)))) => EventsExact'
<1> DEFINE n == Len(delivered)
<1>1. delivered' = Append(delivered, r) /\ UNCHANGED <<events, sequential, entities>>
  BY DEF Return
<1>2. /\ delivered' \in Seq(Range(delivered'))
      /\ n \in Nat /\ Len(delivered') = n + 1
      /\ DOMAIN delivered = 1 .. n /\ DOMAIN delivered' = 1 .. n + 1
      /\ \A i \in 1 .. n : delivered'[i] = delivered[i]
      /\ delivered'[n + 1] = r
  BY <1>1, AppendFacts DEF ReaderInv, HandInv
<1>3. 1 .. n + 1 = 1 .. n \cup {n + 1} /\ n + 1 \notin 1 .. n
  BY <1>2
<1>4. Errors = {i \in 1 .. n : delivered[i].kind = "error"}
  BY <1>2 DEF Errors
<1>5. Errors' = {i \in 1 .. n + 1 : delivered'[i].kind = "error"}
  BY <1>2 DEF Errors
<1>6. Errors' = Errors \cup (IF r.kind = "error" THEN {n + 1} ELSE {})
  BY <1>2, <1>3, <1>4, <1>5
<1>7. ASSUME Errors = {} => ResultExact(r, LastPlace(n)),
             NEW i \in 1 .. n + 1, \A j \in 1 .. i - 1 : j \notin Errors'
      PROVE  ResultExact(delivered'[i], LastPlace(i - 1)')
  <2>1. \A j \in 0 .. n : LastPlace(j)' = LastPlace(j)
    BY <1>2 DEF LastPlace
  <2>2. \A j \in 1 .. i - 1 : j \notin Errors
    BY <1>6, <1>7
  <2>3. CASE i \in 1 .. n
    <3>1. ResultExact(delivered[i], LastPlace(i - 1))
      BY <1>2, <2>2, <2>3 DEF ReaderInv, EventsExact
    <3>2. i - 1 \in 0 .. n
      BY <1>2, <2>3
    <3>3. QED
      BY <1>2, <2>1, <2>3, <3>1, <3>2
  <2>4. CASE i = n + 1
    <3>1. Errors = {}
      BY <1>2, <1>4, <2>2, <2>4
    <3>2. n \in 0 .. n /\ i - 1 = n
      BY <1>2, <2>4
    <3>3. QED
      BY <1>2, <1>7, <2>1, <2>4, <3>1, <3>2
  <2>5. QED
    BY <1>3, <2>3, <2>4
<1>8. (Errors = {} => ResultExact(r, LastPlace(n))) => EventsExact'
  BY <1>1, <1>2, <1>7, SameMeaning DEF EventsExact
<1>9. QED
  BY <1>1, <1>2, <1>4, <1>6, <1>8

(***************************************************************************)
(* A tag, a CDATA section or a text is returned.                           *)
(***************************************************************************)
LEMMA DeliverKeepsInv ==
  ASSUME ReaderInv, NEW r, Return(r), pc # "done",
         r.kind \notin {"none", "error"}, "first" \in DOMAIN r,
         r.first = Held, r.last \in Held .. Len(events), Held' = r.last + 1,
         ReaderOK', EntitiesInv',
         Errors = {} =>
            Begins(Held) /\ Delivers(r, Held) /\ (IsTextRun(r.last) => EndsRun(r.last))
  PROVE  ReaderInv'
<1> DEFINE n == Len(delivered)
<1>1. PICK h \in Nat \ {0} : h = Held
  BY PlaceFacts
<1>2. PICK l \in h .. Len(events) : l = r.last
  BY <1>1
<1>3. /\ n \in Nat /\ Len(delivered') = n + 1 /\ DOMAIN delivered = 1 .. n
      /\ DOMAIN delivered' = 1 .. n + 1
      /\ \A i \in 1 .. n : delivered'[i] = delivered[i]
      /\ delivered'[n + 1] = r /\ Errors' = Errors
      /\ UNCHANGED <<events, sequential>>
  BY ResultAppended
<1>4. Len(events) \in Nat /\ l \in Nat /\ h <= l
  BY <1>1, <1>2, PlaceFacts
<1>5. pc' = "idle" /\ run' = <<>> /\ cur' = NoEvent
  BY DEF Return
<1>6. HandInv'
  <2>1. <<>> \in Seq(Range(<<>>))
    BY EmptySeq
  <2>2. QED
    BY <1>5, <2>1, ResultAppended DEF HandInv
<1>7. EventsExact'
  <2>1. ASSUME Errors = {} PROVE ResultExact(r, LastPlace(n))
    <3> DEFINE heads == {k \in LastPlace(n) + 1 .. Len(events) : Begins(k)}
    <3>1. PICK from \in 0 .. h - 1 : from = LastPlace(n) /\ \A j \in from + 1 .. h - 1 : ~Begins(j)
      BY <1>1, <2>1, HeldFacts
    <3>2. h \in heads
      BY <1>1, <1>2, <1>4, <2>1, <3>1
    <3>3. \A k \in heads : h <= k
      BY <1>1, <1>4, <3>1
    <3>4. Delivers(r, h)
      BY <1>1, <2>1
    <3>5. QED
      BY <3>2, <3>3, <3>4 DEF ResultExact
  <2>2. QED
    BY <2>1, ResultAppended
<1>8. ExactInv'
  <2>1. LastPlace(Len(delivered))' = l
    <3>1. delivered'[Len(delivered')] = r /\ Len(delivered') # 0
      BY <1>3
    <3>2. QED
      BY <1>2, <3>1 DEF LastPlace
  <2>2. Held' - 1 = l
    BY <1>2, <1>4
  <2>3. Errors = {} => (IsTextRun(l) => EndsRun(l))
    BY <1>2
  <2>4. l + 1 .. l = {}
    BY <1>4
  <2>5. Errors = {} =>
          /\ \A j \in LastPlace(Len(delivered))' + 1 .. Held' - 1 : KindOf(j)' \in {"comment", "doctype"}
          /\ IsTextRun(LastPlace(Len(delivered)))' => EndsRun(LastPlace(Len(delivered)))'
    BY <1>3, <2>1, <2>2, <2>3, <2>4, SameMeaning
  <2>6. pc' \notin {"peek", "run"} /\ pc' # "run"
    BY <1>5
  <2>7. QED
    BY <1>3, <2>5, <2>6 DEF ExactInv
<1>9. LossInv'
  <2>1. ASSUME NEW i \in 1 .. n
        PROVE  /\ delivered[i].kind # "none"
               /\ delivered[i].kind # "error" =>
                    /\ "first" \in DOMAIN delivered[i]
                    /\ delivered[i].first \in 1 .. delivered[i].last
                    /\ delivered[i].last \in 1 .. h - 1
    BY <1>1, <1>3 DEF ReaderInv, LossInv
  <2>2. r.first \in 1 .. r.last /\ r.last \in 1 .. l
    BY <1>1, <1>2, <1>4
  <2>3. Held' - 1 = l
    BY <1>2, <1>4
  <2>4. 1 .. h - 1 \subseteq 1 .. l
    BY <1>4
  <2>5. ASSUME NEW i \in 1 .. n + 1
        PROVE  /\ delivered'[i].kind # "none"
               /\ delivered'[i].kind # "error" =>
                    /\ "first" \in DOMAIN delivered'[i]
                    /\ delivered'[i].first \in 1 .. delivered'[i].last
                    /\ delivered'[i].last \in 1 .. l
    <3>1. CASE i \in 1 .. n
      BY <1>3, <2>1, <2>4, <3>1
    <3>2. CASE i = n + 1
      BY <1>3, <2>2, <3>2
    <3>3. QED
      BY <1>3, <3>1, <3>2
  <2>6. InOrder'
    <3> SUFFICES ASSUME NEW i \in 1 .. n + 1, NEW j \in 1 .. n + 1, i \notin Errors, j \notin Errors,
                        i < j, delivered'[j].kind # "none"
                 PROVE  delivered'[i].last < delivered'[j].first
      BY <1>3 DEF InOrder
    <3>1. i \in 1 .. n /\ delivered'[i] = delivered[i]
      BY <1>3
    <3>2. CASE j \in 1 .. n
      BY <1>3, <3>1, <3>2 DEF ReaderInv, LossInv, InOrder
    <3>3. CASE j = n + 1
      <4>1. delivered[i].last \in 1 .. h - 1
        BY <1>3, <2>1, <3>1 DEF Errors
      <4>2. delivered'[j].first = h
        BY <1>1, <1>3, <3>3
      <4>3. QED
        BY <3>1, <4>1, <4>2
    <3>4. QED
      BY <1>3, <3>2, <3>3
  <2>7. ASSUME NEW k \in 1 .. l PROVE k \in DeliveredPlaces' \/ Excused(k)'
    <3>1. CASE k \in 1 .. h - 1
      <4>1. k \in DeliveredPlaces \/ Excused(k)
        BY <1>1, <3>1 DEF ReaderInv, LossInv
      <4>2. CASE k \in DeliveredPlaces
        <5>1. PICK i \in 1 .. n : "first" \in DOMAIN delivered[i] /\ k \in delivered[i].first .. delivered[i].last
          BY <1>3, <4>2 DEF DeliveredPlaces
        <5>2. i \in 1 .. n + 1 /\ delivered'[i] = delivered[i]
          BY <1>3
        <5>3. QED
          BY <1>3, <5>1, <5>2 DEF DeliveredPlaces
      <4>3. QED
        BY <1>3, <4>1, <4>2, SameMeaning
    <3>2. CASE k \in h .. l
      <4>1. n + 1 \in 1 .. n + 1 /\ k \in r.first .. r.last
        BY <1>1, <1>2, <1>3, <3>2
      <4>2. QED
        BY <1>3, <4>1 DEF DeliveredPlaces
    <3>3. QED
      BY <1>4, <3>1, <3>2
  <2>8. QED
    BY <1>3, <2>3, <2>5, <2>6, <2>7 DEF LossInv
<1>10. events' \in Sources
  BY <1>3 DEF ReaderInv
<1>11. QED
  BY <1>6, <1>7, <1>8, <1>9, <1>10 DEF ReaderInv

(***************************************************************************)
(* An error is returned.                                                   *)
(***************************************************************************)
LEMMA FailKeepsInv ==
  ASSUME ReaderInv, Fail, pc # "done", ReaderOK', EntitiesInv',
         Held' \in Nat, Held <= Held', \A k \in Held .. Held' - 1 : Excused(k),
         Errors = {} =>
            \E b \in LastPlace(Len(delivered)) + 1 .. Len(events) :
               Bad(b) /\ \A k \in Held .. b - 1 : Begins(k) => \A j \in k .. b - 1 : IsTextRun(j)
  PROVE  ReaderInv'
<1> DEFINE n == Len(delivered)
           r == [kind |-> "error"]
<1>1. PICK h \in Nat \ {0}, g \in Nat : h = Held /\ g = Held' /\ h <= g
  BY PlaceFacts
<1>2. Return(r)
  BY DEF Fail
<1>3. /\ n \in Nat /\ Len(delivered') = n + 1 /\ DOMAIN delivered = 1 .. n
      /\ DOMAIN delivered' = 1 .. n + 1
      /\ \A i \in 1 .. n : delivered'[i] = delivered[i]
      /\ delivered'[n + 1] = r /\ Errors' = Errors \cup {n + 1}
      /\ UNCHANGED <<events, sequential, entities>>
  BY <1>2, ResultAppended
<1>4. pc' = "idle" /\ run' = <<>> /\ cur' = NoEvent
  BY <1>2 DEF Return
<1>5. HandInv'
  <2>1. <<>> \in Seq(Range(<<>>))
    BY EmptySeq
  <2>2. QED
    BY <1>2, <1>4, <2>1, ResultAppended DEF HandInv
<1>6. EventsExact'
  <2>1. ASSUME Errors = {} PROVE ResultExact(r, LastPlace(n))
    <3>1. PICK b \in LastPlace(n) + 1 .. Len(events) :
             Bad(b) /\ \A k \in Held .. b - 1 : Begins(k) => \A j \in k .. b - 1 : IsTextRun(j)
      BY <2>1
    <3>2. PICK from \in 0 .. h - 1 : from = LastPlace(n) /\ \A j \in from + 1 .. h - 1 : ~Begins(j)
      BY <1>1, <2>1, HeldFacts
    <3>3. Len(events) \in Nat
      BY PlaceFacts
    <3>4. ASSUME NEW k \in from + 1 .. Len(events), Begins(k), NEW j \in k .. b - 1
          PROVE  IsTextRun(j)
      <4>1. k \in h .. b - 1
        BY <1>1, <3>2, <3>3, <3>4
      <4>2. QED
        BY <1>1, <3>1, <3>4, <4>1
    <3>5. QED
      BY <3>1, <3>2, <3>4 DEF ResultExact
  <2>2. QED
    BY <1>2, <2>1, ResultAppended
<1>7. ExactInv'
  BY <1>3 DEF ExactInv
<1>8. LossInv'
  <2>1. ASSUME NEW i \in 1 .. n
        PROVE  /\ delivered[i].kind # "none"
               /\ delivered[i].kind # "error" =>
                    /\ "first" \in DOMAIN delivered[i]
                    /\ delivered[i].first \in 1 .. delivered[i].last
                    /\ delivered[i].last \in 1 .. h - 1
    BY <1>1, <1>3 DEF ReaderInv, LossInv
  <2>2. h <= g
    BY <1>1
  <2>3. \A x \in 1 .. h - 1 : x \in 1 .. g - 1
    BY <2>2
  <2>4. ASSUME NEW i \in 1 .. n + 1
        PROVE  /\ delivered'[i].kind # "none"
               /\ delivered'[i].kind # "error" =>
                    /\ "first" \in DOMAIN delivered'[i]
                    /\ delivered'[i].first \in 1 .. delivered'[i].last
                    /\ delivered'[i].last \in 1 .. g - 1
    <3>1. CASE i \in 1 .. n
      BY <1>3, <2>1, <2>3, <3>1
    <3>2. CASE i = n + 1
      BY <1>3, <3>2
    <3>3. QED
      BY <1>3, <3>1, <3>2
  <2>5. InOrder'
    <3> SUFFICES ASSUME NEW i \in 1 .. n + 1, NEW j \in 1 .. n + 1, i \notin Errors', j \notin Errors',
                        i < j, delivered'[j].kind # "none"
                 PROVE  delivered'[i].last < delivered'[j].first
      BY <1>3 DEF InOrder
    <3>1. i \in 1 .. n /\ j \in 1 .. n /\ i \notin Errors /\ j \notin Errors
      BY <1>3
    <3>2. QED
      BY <1>3, <3>1 DEF ReaderInv, LossInv, InOrder
  <2>6. ASSUME NEW k \in 1 .. g - 1 PROVE k \in DeliveredPlaces' \/ Excused(k)'
    <3>1. CASE k \in 1 .. h - 1
      <4>1. k \in DeliveredPlaces \/ Excused(k)
        BY <1>1, <3>1 DEF ReaderInv, LossInv
      <4>2. CASE k \in DeliveredPlaces
        <5>1. PICK i \in 1 .. n : "first" \in DOMAIN delivered[i] /\ k \in delivered[i].first .. delivered[i].last
          BY <1>3, <4>2 DEF DeliveredPlaces
        <5>2. i \in 1 .. n + 1 /\ delivered'[i] = delivered[i]
          BY <1>3
        <5>3. QED
          BY <1>3, <5>1, <5>2 DEF DeliveredPlaces
      <4>3. QED
        BY <1>3, <4>1, <4>2, SameMeaning
    <3>2. CASE k \in h .. g - 1
      <4>1. Excused(k)
        BY <1>1, <3>2
      <4>2. QED
        BY <1>3, <4>1, SameMeaning
    <3>3. k \in 1 .. h - 1 \/ k \in h .. g - 1
      BY <2>2
    <3>4. QED
      BY <3>1, <3>2, <3>3
  <2>7. QED
    BY <1>1, <1>3, <2>4, <2>5, <2>6 DEF LossInv
<1>9. events' \in Sources
  BY <1>3 DEF ReaderInv
<1>10. QED
  BY <1>5, <1>6, <1>7, <1>8, <1>9 DEF ReaderInv

-------------------------------------------------------------------------------
(***************************************************************************)
(* The entities when the reader moves on.                                  *)
(***************************************************************************)
LEMMA LostStays ==
  ASSUME NEW a \in Nat, NEW b \in Nat, a <= b, DoctypeLost(a)
  PROVE  DoctypeLost(b)
<1>1. \A d : d \in 2 .. a - 1 => d \in 2 .. b - 1
  OBVIOUS
<1>2. QED
  BY <1>1 DEF DoctypeLost

\* Reading on, over at most two events and no DOCTYPE, leaves the entity table
\* right.
LEMMA EntitiesStay ==
  ASSUME ReaderInv, UNCHANGED <<events, sequential, entities>>, Errors \subseteq Errors',
         NEW a \in Nat \ {0}, NEW b \in {a, a + 1, a + 2},
         a = Ahead, b = Ahead', b <= Len(events) + 1,
         \A k \in a .. b - 1 : KindOf(k) # "doctype" \/ ~sequential
  PROVE  EntitiesInv'
<1>1. Len(events) \in Nat /\ events \in Sources
  BY PlaceFacts DEF ReaderInv
<1>2. Known(b) = Known(a)
  <2>1. CASE b = a
    BY <2>1
  <2>2. CASE b = a + 1
    <3>1. a \in 1 .. Len(events) /\ a \in a .. b - 1
      BY <1>1, <2>2
    <3>2. QED
      BY <1>1, <2>2, <3>1, KnownStays
  <2>3. CASE b = a + 2
    <3>1. /\ a \in 1 .. Len(events) /\ a \in a .. b - 1
          /\ a + 1 \in 1 .. Len(events) /\ a + 1 \in a .. b - 1
      BY <1>1, <2>3
    <3>2. Known(a + 1) = Known(a) /\ Known((a + 1) + 1) = Known(a + 1)
      BY <1>1, <3>1, KnownStays
    <3>3. (a + 1) + 1 = b
      BY <2>3
    <3>4. QED
      BY <3>2, <3>3
  <2>4. QED
    BY <2>1, <2>2, <2>3
<1>3. DoctypeLost(a) => DoctypeLost(b)
  BY LostStays
<1>4. entities = Known(b) \/ (Errors # {} /\ DoctypeLost(b))
  BY <1>2, <1>3 DEF ReaderInv, EntitiesInv
<1>5. Known(b)' = Known(b) /\ DoctypeLost(b)' = DoctypeLost(b)
  BY SameMeaning
<1>6. entities' = Known(b)' \/ (Errors' # {} /\ DoctypeLost(b)')
  BY <1>4, <1>5
<1>7. QED
  BY <1>6 DEF EntitiesInv

-------------------------------------------------------------------------------
(***************************************************************************)
(* The steps, one by one.  next_surfaced:                                  *)
(***************************************************************************)
LEMMA CallKeepsInv ==
  ASSUME ReaderInv, Call
  PROVE  ReaderInv'
<1>1. /\ pc = "idle" /\ pc' = "surface"
      /\ UNCHANGED <<events, sequential, delivered, entities, at, pending, ev, cur, run>>
  BY DEF Call, InCall, readVars
<1>2. Ahead' = Ahead /\ Held' = Held /\ Held = Ahead
  BY <1>1 DEF Ahead, Held
<1>3. PICK a \in Nat : a = Ahead
  BY PlaceFacts
<1>4. ReaderOK'
  BY <1>1 DEF ReaderInv, ReaderOK
<1>5. HandInv'
  BY <1>1 DEF ReaderInv, HandInv
<1>6. EntitiesInv'
  <2>1. Errors' = Errors
    BY <1>1 DEF Errors
  <2>2. entities = Known(a) \/ (Errors # {} /\ DoctypeLost(a))
    BY <1>3 DEF ReaderInv, EntitiesInv
  <2>3. entities' = Known(a)' \/ (Errors' # {} /\ DoctypeLost(a)')
    BY <1>1, <2>1, <2>2, SameMeaning
  <2>4. QED
    BY <1>2, <1>3, <2>3 DEF EntitiesInv
<1>7. ExactInv'
  <2>1. PICK l : l = LastPlace(Len(delivered)) /\ l = LastPlace(Len(delivered))'
    BY <1>1 DEF LastPlace
  <2>2. Errors' = Errors
    BY <1>1 DEF Errors
  <2>3. Errors = {} => /\ \A j \in l + 1 .. a - 1 : KindOf(j) \in {"comment", "doctype"}
                       /\ IsTextRun(l) => EndsRun(l)
    BY <1>1, <1>2, <1>3, <2>1 DEF ReaderInv, ExactInv
  <2>4. Errors = {} => /\ \A j \in l + 1 .. a - 1 : KindOf(j)' \in {"comment", "doctype"}
                       /\ IsTextRun(l)' => EndsRun(l)'
    BY <1>1, <2>3, SameMeaning
  <2>5. QED
    BY <1>1, <1>2, <1>3, <2>1, <2>2, <2>4 DEF ExactInv
<1>8. a .. a - 1 = {}
  OBVIOUS
<1>9. \A k \in Held .. Held' - 1 : Excused(k)
  BY <1>2, <1>3, <1>8
<1>10. Held' \in Nat /\ Held <= Held'
  BY <1>2, <1>3
<1>11. QED
  BY <1>1, <1>4, <1>5, <1>6, <1>7, <1>9, <1>10, QuietKeepsInv

\* next_surfaced has nothing in hand: the raw event is the next that is owed.
LEMMA SurfaceFacts ==
  ASSUME ReaderInv, pc = "surface"
  PROVE  /\ cur = NoEvent /\ run = <<>> /\ Held = Ahead
         /\ Raw # NoEvent => Ahead = Raw
         /\ Raw = NoEvent => Ahead = Len(events) + 1
<1>1. cur = NoEvent /\ run = <<>> /\ Held = Ahead
  BY DEF ReaderInv, HandInv, Held
<1>2. QED
  BY <1>1, RawFacts, PlaceFacts DEF Ahead

\* Markup that next_surfaced passes over is not owed to the caller.
LEMMA PassKeepsInv ==
  ASSUME ReaderInv, pc = "surface", KindOf(Raw) \in {"comment", "doctype"},
         ReadRaw(NoEvent), InCall, UNCHANGED <<pc, ev, cur, run>>, EntitiesInv'
  PROVE  ReaderInv'
<1>1. PICK r \in 1 .. Len(events) : r = Raw /\ r = Ahead
  BY RawFacts, SurfaceFacts
<1>2. /\ cur = NoEvent /\ run = <<>> /\ Held = r /\ Len(events) \in Nat /\ r \in Nat
      /\ KindOf(r) \in {"comment", "doctype"} /\ r # NoEvent
      /\ ev \in 0 .. at /\ at \in 0 .. r
  <2>1. ev \in 0 .. at /\ at \in 0 .. Len(events)
    BY DEF ReaderInv, ReaderOK
  <2>2. r # NoEvent
    BY <1>1 DEF NoEvent
  <2>3. at = r \/ at + 1 = r
    BY <1>1, <2>2, RawFacts
  <2>4. QED
    BY <1>1, <2>1, <2>2, <2>3, SurfaceFacts, PlaceFacts
<1>3. at' = r /\ pending' = NoEvent
  BY <1>1, <1>2, RawFacts
<1>4. /\ UNCHANGED <<events, sequential, delivered, pc, ev, cur, run>>
      /\ pc' = "surface" /\ cur' = NoEvent /\ run' = <<>>
  BY <1>2 DEF InCall
<1>5. Ahead' = r + 1 /\ Held' = r + 1
  BY <1>3, <1>4 DEF Ahead, Held
<1>6. ReaderOK'
  <2>1. at' \in 0 .. Len(events') /\ ev' \in 0 .. at'
    BY <1>2, <1>3, <1>4
  <2>2. {pending', cur'} \subseteq {NoEvent, at'}
    BY <1>3, <1>4
  <2>3. QED
    BY <1>4, <2>1, <2>2 DEF ReaderOK
<1>7. HandInv'
  BY <1>4 DEF ReaderInv, HandInv
<1>8. ExactInv'
  <2>1. PICK l : l = LastPlace(Len(delivered)) /\ l = LastPlace(Len(delivered))'
    BY <1>4 DEF LastPlace
  <2>2. Errors' = Errors
    BY <1>4 DEF Errors
  <2>3. Errors = {} => l \in 0 .. r - 1
    BY <1>2, <1>4, <2>1, HeldFacts
  <2>4. Errors = {} => /\ \A j \in l + 1 .. r - 1 : KindOf(j) \in {"comment", "doctype"}
                       /\ IsTextRun(l) => EndsRun(l)
    BY <1>2, <1>4, <2>1 DEF ReaderInv, ExactInv
  <2>5. Errors = {} => \A j \in l + 1 .. (r + 1) - 1 : KindOf(j) \in {"comment", "doctype"}
    <3>1. Errors = {} => \A j \in l + 1 .. (r + 1) - 1 : j \in l + 1 .. r - 1 \/ j = r
      BY <1>2, <2>3
    <3>2. QED
      BY <1>2, <2>4, <3>1
  <2>6. Errors = {} => /\ \A j \in l + 1 .. (r + 1) - 1 : KindOf(j)' \in {"comment", "doctype"}
                       /\ IsTextRun(l)' => EndsRun(l)'
    BY <1>4, <2>4, <2>5, SameMeaning
  <2>7. QED
    BY <1>4, <1>5, <2>1, <2>2, <2>6 DEF ExactInv
<1>9. \A k \in Held .. Held' - 1 : Excused(k)
  <2>1. \A k \in r .. (r + 1) - 1 : k = r
    BY <1>2
  <2>2. QED
    BY <1>2, <1>5, <2>1 DEF Excused
<1>10. Held' \in Nat /\ Held <= Held'
  BY <1>2, <1>5
<1>11. QED
  BY <1>4, <1>6, <1>7, <1>8, <1>9, <1>10, QuietKeepsInv

\* Comments and, for the record reader, the DOCTYPE.
LEMMA SkipKeepsInv ==
  ASSUME ReaderInv,
         (~sequential /\ Skip({"comment", "doctype"})) \/ (sequential /\ Skip({"comment"}))
  PROVE  ReaderInv'
<1>1. /\ pc = "surface" /\ KindOf(Raw) \in {"comment", "doctype"}
      /\ sequential => KindOf(Raw) # "doctype"
      /\ ReadRaw(NoEvent) /\ InCall /\ UNCHANGED <<entities, pc, ev, cur, run>>
  BY DEF Skip
<1>2. PICK r \in 1 .. Len(events) : r = Raw /\ r = Ahead /\ r # NoEvent
  BY <1>1, RawFacts, SurfaceFacts
<1>3. at' = r /\ pending' = NoEvent /\ cur' = NoEvent
  BY <1>1, <1>2, RawFacts, SurfaceFacts
<1>4. Ahead' = r + 1
  BY <1>3 DEF Ahead
<1>5. EntitiesInv'
  <2>1. Errors' = Errors
    BY <1>1 DEF InCall, Errors
  <2>2. r \in Nat \ {0} /\ r + 1 \in {r, r + 1, r + 2} /\ r + 1 <= Len(events) + 1
    BY <1>2, PlaceFacts
  <2>3. \A k \in r .. (r + 1) - 1 : k = r
    BY <2>2
  <2>4. \A k \in r .. (r + 1) - 1 : KindOf(k) # "doctype" \/ ~sequential
    BY <1>1, <1>2, <2>3
  <2>5. QED
    BY <1>1, <1>2, <1>4, <2>1, <2>2, <2>4, EntitiesStay DEF InCall
<1>6. QED
  BY <1>1, <1>5, PassKeepsInv

\* SeqReader's DOCTYPE, with its declarations.
LEMMA CaptureKeepsInv ==
  ASSUME ReaderInv, sequential, CaptureDoctype
  PROVE  ReaderInv'
<1>1. /\ pc = "surface" /\ KindOf(Raw) = "doctype"
      /\ entities' = WithDeclared(events[Raw].entities)
      /\ ReadRaw(NoEvent) /\ InCall /\ UNCHANGED <<pc, ev, cur, run>>
  BY DEF CaptureDoctype
<1>2. PICK r \in 1 .. Len(events) : r = Raw /\ r = Ahead /\ r # NoEvent
  BY <1>1, RawFacts, SurfaceFacts
<1>3. at' = r /\ pending' = NoEvent /\ cur' = NoEvent
  BY <1>1, <1>2, RawFacts, SurfaceFacts
<1>4. Ahead' = r + 1
  BY <1>3 DEF Ahead
<1>5. EntitiesInv'
  <2>1. Errors' = Errors /\ UNCHANGED <<events, sequential>>
    BY <1>1 DEF InCall, Errors
  <2>2. r \in Nat /\ r + 1 \in Nat /\ r <= r + 1
    BY <1>2, PlaceFacts
  <2>3. entities = Known(r) \/ (Errors # {} /\ DoctypeLost(r))
    BY <1>2 DEF ReaderInv, EntitiesInv
  <2>4. entities = Known(r) => entities' = Known(r + 1)
    BY <1>1, <1>2, KnownGrows DEF ReaderInv
  <2>5. DoctypeLost(r) => DoctypeLost(r + 1)
    BY <2>2, LostStays
  <2>6. entities' = Known(r + 1)' \/ (Errors' # {} /\ DoctypeLost(r + 1)')
    BY <2>1, <2>3, <2>4, <2>5, SameMeaning
  <2>7. QED
    BY <1>4, <2>6 DEF EntitiesInv
<1>6. QED
  BY <1>1, <1>5, PassKeepsInv

\* The first piece of text is in hand; what follows it decides.
LEMMA SurfaceTextKeepsInv ==
  ASSUME ReaderInv, SurfaceText
  PROVE  ReaderInv'
<1>1. /\ pc = "surface" /\ IsTextRun(Raw) /\ ReadRaw(NoEvent)
      /\ ev' = Raw /\ pc' = "peek"
      /\ UNCHANGED <<events, sequential, delivered, entities, cur, run>>
  BY DEF SurfaceText, InCall
<1>2. PICK r \in 1 .. Len(events) : r = Raw /\ r = Ahead /\ r # NoEvent
  BY <1>1, RawFacts, SurfaceFacts DEF IsTextRun
<1>3. /\ cur = NoEvent /\ run = <<>> /\ Held = r /\ Len(events) \in Nat /\ r \in Nat \ {0}
      /\ IsTextRun(r) /\ KindOf(r) # "doctype"
  BY <1>1, <1>2, SurfaceFacts, PlaceFacts DEF IsTextRun
<1>4. at' = r /\ pending' = NoEvent /\ cur' = NoEvent /\ run' = <<>> /\ ev' = r
  BY <1>1, <1>2, <1>3, RawFacts
<1>5. Ahead' = r + 1 /\ Held' = r
  BY <1>1, <1>4 DEF Ahead, Held
<1>6. IsTextRun(r)' = IsTextRun(r) /\ IsTextRun(ev)'
  BY <1>1, <1>3, <1>4, SameMeaning DEF IsTextRun, KindOf
<1>7. ReaderOK'
  <2>1. at' \in 0 .. Len(events') /\ ev' \in 0 .. at'
    BY <1>1, <1>3, <1>4
  <2>2. QED
    BY <1>1, <1>4, <1>6, <2>1 DEF ReaderOK
<1>8. HandInv'
  BY <1>1, <1>4 DEF ReaderInv, HandInv
<1>9. EntitiesInv'
  <2>1. Errors' = Errors
    BY <1>1 DEF Errors
  <2>2. r + 1 \in {r, r + 1, r + 2} /\ r + 1 <= Len(events) + 1
    BY <1>2, <1>3
  <2>3. \A k \in r .. (r + 1) - 1 : k = r
    BY <1>3
  <2>4. \A k \in r .. (r + 1) - 1 : KindOf(k) # "doctype" \/ ~sequential
    BY <1>3, <2>3
  <2>5. QED
    BY <1>1, <1>2, <1>3, <1>5, <2>1, <2>2, <2>4, EntitiesStay
<1>10. ExactInv'
  <2>1. PICK l : l = LastPlace(Len(delivered)) /\ l = LastPlace(Len(delivered))'
    BY <1>1 DEF LastPlace
  <2>2. Errors' = Errors
    BY <1>1 DEF Errors
  <2>3. r <= Len(events) /\ pc # "done"
    BY <1>1, <1>2, <1>3
  <2>4. Errors = {} => /\ \A j \in l + 1 .. r - 1 : KindOf(j) \in {"comment", "doctype"}
                       /\ IsTextRun(l) => EndsRun(l)
                       /\ Begins(r)
    BY <1>1, <1>3, <2>1, <2>3, HeldFacts DEF ReaderInv, ExactInv
  <2>5. Errors = {} => /\ \A j \in l + 1 .. r - 1 : KindOf(j)' \in {"comment", "doctype"}
                       /\ IsTextRun(l)' => EndsRun(l)'
                       /\ Begins(r)'
    BY <1>1, <2>4, SameMeaning
  <2>6. Errors = {} => Begins(ev)'
    BY <1>4, <2>5 DEF Begins, KindOf, IsTextRun
  <2>7. QED
    BY <1>1, <1>5, <2>1, <2>2, <2>5, <2>6 DEF ExactInv
<1>11. \A k \in Held .. Held' - 1 : Excused(k)
  <2>1. r .. r - 1 = {}
    BY <1>3
  <2>2. QED
    BY <1>3, <1>5, <2>1
<1>12. Held' \in Nat /\ Held <= Held'
  BY <1>3, <1>5
<1>13. QED
  BY <1>1, <1>7, <1>8, <1>9, <1>10, <1>11, <1>12, QuietKeepsInv

-------------------------------------------------------------------------------
(***************************************************************************)
(* next_event with the first event of a run in hand.                       *)
(***************************************************************************)
LEMMA PeekFacts ==
  ASSUME ReaderInv, pc = "peek"
  PROVE  /\ ev = at /\ ev \in 1 .. Len(events) /\ IsTextRun(ev)
         /\ pending = NoEvent /\ cur = NoEvent /\ run = <<>>
         /\ Ahead = ev + 1 /\ Held = ev
         /\ Raw # NoEvent => Raw = ev + 1 /\ Raw \in 1 .. Len(events)
         /\ Raw = NoEvent => ev = Len(events)
         /\ \A a : ReadRaw(a) => at' = (IF Raw = NoEvent THEN ev ELSE ev + 1) /\ pending' = a
         /\ entities = Known(ev) \/ (Errors # {} /\ DoctypeLost(ev))
<1>1. /\ ev = at /\ pending = NoEvent /\ cur = NoEvent /\ run = <<>> /\ IsTextRun(ev)
      /\ at \in 0 .. Len(events) /\ Len(events) \in Nat
  BY PlaceFacts DEF ReaderInv, ReaderOK, HandInv
<1>2. ev # 0 /\ KindOf(ev) # "doctype"
  BY <1>1, SourceFacts DEF ReaderInv, IsTextRun
<1>3. PICK e \in 1 .. Len(events) : e = ev
  BY <1>1, <1>2
<1>4. Ahead = e + 1 /\ Held = e
  BY <1>1, <1>3 DEF Ahead, Held
<1>5. Known(e + 1) = Known(e)
  BY <1>2, <1>3, KnownStays DEF ReaderInv
<1>6. DoctypeLost(e + 1) => DoctypeLost(e)
  <2>1. \A d \in 2 .. (e + 1) - 1 : d \in 2 .. e - 1 \/ d = e
    BY <1>1, <1>3
  <2>2. QED
    BY <1>2, <1>3, <2>1 DEF DoctypeLost
<1>7. entities = Known(e) \/ (Errors # {} /\ DoctypeLost(e))
  BY <1>4, <1>5, <1>6 DEF ReaderInv, EntitiesInv
<1>8. QED
  BY <1>1, <1>3, <1>4, <1>7, RawFacts

\* Two pieces of text in a row begin a run.
LEMMA PeekRunKeepsInv ==
  ASSUME ReaderInv, PeekRun
  PROVE  ReaderInv'
<1>1. /\ pc = "peek" /\ TextOf(ev) # <<>> /\ ReadRaw(NoEvent)
      /\ run' = TextOf(ev) /\ cur' = Raw /\ pc' = "run"
      /\ UNCHANGED <<events, sequential, delivered, entities, ev>>
  BY DEF PeekRun, InCall
<1>2. PICK e \in 1 .. Len(events) : e = ev
  BY <1>1, PeekFacts
<1>3. /\ e = at /\ IsTextRun(e) /\ Ahead = e + 1 /\ Held = e
      /\ Len(events) \in Nat /\ e \in Nat \ {0}
  BY <1>1, <1>2, PeekFacts, PlaceFacts
<1>4. \/ cur' = e + 1 /\ at' = e + 1 /\ e + 1 \in 1 .. Len(events)
      \/ cur' = NoEvent /\ at' = e /\ e = Len(events)
  BY <1>1, <1>2, PeekFacts
<1>5. pending' = NoEvent /\ ev' = e
  BY <1>1, <1>2, PeekFacts
<1>6. Ahead' = e + 1 /\ Held' = e
  BY <1>1, <1>3, <1>4, <1>5 DEF Ahead, Held, NoEvent
<1>7. PICK x : run' = <<x>>
  BY <1>1, TextShape
<1>8. IsTextRun(e)' /\ IsTextRun(ev)'
  BY <1>1, <1>3, <1>5, SameMeaning DEF IsTextRun, KindOf
<1>9. ReaderOK'
  <2>1. at' \in 0 .. Len(events') /\ ev' \in 0 .. at'
    BY <1>1, <1>3, <1>4, <1>5
  <2>2. {pending', cur'} \subseteq {NoEvent, at'}
    BY <1>4, <1>5
  <2>3. QED
    BY <1>1, <1>5, <1>8, <2>1, <2>2 DEF ReaderOK
<1>10. HandInv'
  <2>1. run' \in Seq(Range(run')) /\ Len(run') = 1
    <3>1. <<>> \in Seq(Range(<<>>))
      BY EmptySeq
    <3>2. Append(<<>>, x) \in Seq(Range(Append(<<>>, x)))
      BY <3>1, AppendFacts
    <3>3. Append(<<>>, x) = <<x>> /\ Len(<<x>>) = 1
      OBVIOUS
    <3>4. <<x>> \in Seq(Range(<<x>>)) /\ Len(<<x>>) = 1
      BY <3>2, <3>3
    <3>5. QED
      BY <1>7, <3>4
  <2>2. \A j \in e .. (e + 1) - 1 : j = e
    BY <1>3
  <2>3. \A j \in ev' .. Ahead' - 1 : IsTextRun(j)'
    BY <1>5, <1>6, <1>8, <2>2
  <2>4. ev' < Ahead' /\ Len(run') = Ahead' - ev'
    BY <1>3, <1>5, <1>6, <2>1
  <2>5. cur' = NoEvent => at' = Len(events')
    BY <1>1, <1>3, <1>4 DEF NoEvent
  <2>6. QED
    BY <1>1, <2>1, <2>3, <2>4, <2>5 DEF ReaderInv, HandInv
<1>11. EntitiesInv'
  <2>1. Errors' = Errors
    BY <1>1 DEF Errors
  <2>2. e + 1 \in Nat \ {0} /\ e + 1 \in {e + 1, (e + 1) + 1, (e + 1) + 2} /\ e + 1 <= Len(events) + 1
    BY <1>2, <1>3
  <2>3. (e + 1) .. (e + 1) - 1 = {}
    BY <1>3
  <2>4. QED
    BY <1>1, <1>3, <1>6, <2>1, <2>2, <2>3, EntitiesStay
<1>12. ExactInv'
  <2>1. PICK l : l = LastPlace(Len(delivered)) /\ l = LastPlace(Len(delivered))'
    BY <1>1 DEF LastPlace
  <2>2. Errors' = Errors
    BY <1>1 DEF Errors
  <2>3. Errors = {} => Meaning(e) = <<x>>
    <3>1. Errors = {} => entities = Known(e)
      BY <1>1, <1>2, PeekFacts
    <3>2. QED
      BY <1>1, <1>2, <1>3, <1>7, <3>1, TextMeaning
  <2>4. Errors = {} => /\ \A j \in l + 1 .. e - 1 : KindOf(j) \in {"comment", "doctype"}
                       /\ IsTextRun(l) => EndsRun(l)
                       /\ Begins(e)
    BY <1>1, <1>2, <1>3, <2>1 DEF ReaderInv, ExactInv
  <2>5. Errors = {} => /\ \A j \in l + 1 .. e - 1 : KindOf(j)' \in {"comment", "doctype"}
                       /\ IsTextRun(l)' => EndsRun(l)'
                       /\ Begins(e)' /\ Meaning(e)' = <<x>>
    BY <1>1, <2>3, <2>4, SameMeaning
  <2>6. Errors = {} => Begins(ev)'
    BY <1>5, <2>5 DEF Begins, KindOf, IsTextRun
  <2>7. \A j \in e .. (e + 1) - 1 : j = e /\ run'[j - e + 1] = x
    BY <1>3, <1>7
  <2>8. Errors = {} => \A j \in ev' .. Ahead' - 1 : Meaning(j)' = <<run'[j - ev' + 1]>>
    BY <1>5, <1>6, <2>5, <2>7
  <2>9. QED
    BY <1>1, <1>6, <2>1, <2>2, <2>5, <2>6, <2>8 DEF ExactInv
<1>13. \A k \in Held .. Held' - 1 : Excused(k)
  <2>1. e .. e - 1 = {}
    BY <1>3
  <2>2. QED
    BY <1>3, <1>6, <2>1
<1>14. Held' \in Nat /\ Held <= Held'
  BY <1>3, <1>6
<1>15. QED
  BY <1>1, <1>9, <1>10, <1>11, <1>12, <1>13, <1>14, QuietKeepsInv

(***************************************************************************)
(* The rest of the run.                                                    *)
(***************************************************************************)
LEMMA RunFacts ==
  ASSUME ReaderInv, pc = "run"
  PROVE  /\ ev \in 1 .. Ahead - 1 /\ Held = ev /\ IsTextRun(ev) /\ pending = NoEvent
         /\ run \in Seq(Range(run)) /\ Len(run) = Ahead - ev
         /\ \A j \in ev .. Ahead - 1 : IsTextRun(j)
         /\ cur = NoEvent => at = Len(events) /\ Ahead = at + 1
         /\ cur # NoEvent => cur = at /\ Ahead = at
         /\ IsTextRun(cur) => cur # NoEvent
         /\ Raw # NoEvent => Raw = at + 1 /\ Raw \in 1 .. Len(events)
         /\ Raw = NoEvent => at = Len(events)
<1>1. /\ Held = ev /\ IsTextRun(ev) /\ pending = NoEvent /\ ev < Ahead
      /\ run \in Seq(Range(run)) /\ Len(run) = Ahead - ev
      /\ \A j \in ev .. Ahead - 1 : IsTextRun(j)
      /\ cur = NoEvent => at = Len(events) /\ Ahead = at + 1
      /\ cur # NoEvent => cur = at /\ Ahead = at
  BY PlaceFacts DEF ReaderInv, ReaderOK, HandInv, Held, Ahead
<1>2. IsTextRun(cur) => cur # NoEvent
  BY SourceFacts DEF ReaderInv, IsTextRun, NoEvent
<1>3. Held \in 1 .. Ahead /\ Ahead \in Nat
  BY PlaceFacts
<1>4. ev \in 1 .. Ahead - 1
  BY <1>1, <1>3
<1>5. QED
  BY <1>1, <1>2, <1>4, RawFacts

\* The next piece of text joins the run.
LEMMA RunGrowsKeepsInv ==
  ASSUME ReaderInv, RunGrows
  PROVE  ReaderInv'
<1>1. /\ pc = "run" /\ pc' = "run" /\ IsTextRun(cur) /\ TextOf(cur) # <<>> /\ ReadRaw(NoEvent)
      /\ run' = run \o TextOf(cur) /\ cur' = Raw
      /\ UNCHANGED <<events, sequential, delivered, entities, ev>>
  BY DEF RunGrows, InCall
<1>2. PICK e, a, s : e = ev /\ a = Ahead /\ s = run
  OBVIOUS
<1>3. /\ a \in 1 .. Len(events) /\ cur = a /\ at = a /\ e \in 1 .. a - 1 /\ Held = e
      /\ IsTextRun(a) /\ IsTextRun(e) /\ \A j \in e .. a - 1 : IsTextRun(j)
      /\ s \in Seq(Range(s)) /\ Len(s) = a - e
  BY <1>1, <1>2, RunFacts, PlaceFacts DEF NoEvent
<1>4. Len(events) \in Nat /\ a \in Nat \ {0} /\ e \in Nat \ {0} /\ e <= a - 1
  BY <1>3, PlaceFacts
<1>5. \/ cur' = a + 1 /\ at' = a + 1 /\ a + 1 \in 1 .. Len(events)
      \/ cur' = NoEvent /\ at' = a /\ a = Len(events)
  BY <1>1, <1>3, RunFacts, RawFacts
<1>6. pending' = NoEvent /\ ev' = e
  BY <1>1, <1>2, RawFacts
<1>7. Ahead' = a + 1 /\ Held' = e
  BY <1>1, <1>4, <1>5, <1>6 DEF Ahead, Held, NoEvent
<1>8. PICK x : TextOf(cur) = <<x>>
  BY <1>1, TextShape
<1>9. run' = Append(s, x)
  <2>1. s \in Seq(Range(s) \cup {x})
    BY <1>3, SeqMonotonic
  <2>2. s \o <<x>> = Append(s, x)
    BY <2>1, AppendIsConcat
  <2>3. QED
    BY <1>1, <1>2, <1>8, <2>2
<1>10. PICK t : t = run' /\ t \in Seq(Range(t)) /\ Len(t) = Len(s) + 1
                /\ \A i \in 1 .. Len(s) : t[i] = s[i]
                /\ t[Len(s) + 1] = x
  <2>1. s \in Seq(Range(s))
    BY <1>3
  <2>2. /\ Append(s, x) \in Seq(Range(Append(s, x))) /\ Len(Append(s, x)) = Len(s) + 1
        /\ \A i \in 1 .. Len(s) : Append(s, x)[i] = s[i]
        /\ Append(s, x)[Len(s) + 1] = x
    BY <2>1, AppendFacts
  <2>3. QED
    BY <1>9, <2>2, Zenon
<1>11. ReaderOK'
  <2>1. at' \in 0 .. Len(events') /\ ev' \in 0 .. at'
    BY <1>1, <1>3, <1>4, <1>5, <1>6
  <2>2. {pending', cur'} \subseteq {NoEvent, at'}
    BY <1>5, <1>6
  <2>3. IsTextRun(ev)'
    BY <1>1, <1>3, <1>6, SameMeaning DEF IsTextRun, KindOf
  <2>4. QED
    BY <1>1, <1>6, <2>1, <2>2, <2>3 DEF ReaderOK
<1>12. \A j \in e .. (a + 1) - 1 : j \in e .. a - 1 \/ j = a
  BY <1>4
<1>13. HandInv'
  <2>1. \A j \in e .. (a + 1) - 1 : IsTextRun(j)'
    BY <1>1, <1>3, <1>12, SameMeaning
  <2>2. e < a + 1 /\ Len(s) + 1 = (a + 1) - e
    BY <1>3, <1>4
  <2>3. ev' < Ahead' /\ Len(run') = Ahead' - ev' /\ run' \in Seq(Range(run'))
    BY <1>6, <1>7, <1>10, <2>2
  <2>4. cur' = NoEvent => at' = Len(events')
    BY <1>1, <1>4, <1>5 DEF NoEvent
  <2>5. QED
    BY <1>1, <1>6, <1>7, <2>1, <2>3, <2>4 DEF ReaderInv, HandInv
<1>14. EntitiesInv'
  <2>1. Errors' = Errors
    BY <1>1 DEF Errors
  <2>2. a + 1 \in {a, a + 1, a + 2} /\ a + 1 <= Len(events) + 1
    BY <1>3, <1>4
  <2>3. \A k \in a .. (a + 1) - 1 : k = a
    BY <1>4
  <2>4. \A k \in a .. (a + 1) - 1 : KindOf(k) # "doctype" \/ ~sequential
    BY <1>3, <2>3 DEF IsTextRun
  <2>5. QED
    BY <1>1, <1>2, <1>4, <1>7, <2>1, <2>2, <2>4, EntitiesStay
<1>15. ExactInv'
  <2>1. PICK l : l = LastPlace(Len(delivered)) /\ l = LastPlace(Len(delivered))'
    BY <1>1 DEF LastPlace
  <2>2. Errors' = Errors
    BY <1>1 DEF Errors
  <2>3. Errors = {} => /\ \A j \in l + 1 .. e - 1 : KindOf(j) \in {"comment", "doctype"}
                       /\ IsTextRun(l) => EndsRun(l)
                       /\ Begins(e)
                       /\ \A j \in e .. a - 1 : Meaning(j) = <<s[j - e + 1]>>
    BY <1>1, <1>2, <1>3, <2>1 DEF ReaderInv, ExactInv
  <2>4. Errors = {} => Meaning(a) = <<x>>
    <3>1. Errors = {} => entities = Known(a)
      BY <1>2 DEF ReaderInv, EntitiesInv
    <3>2. QED
      BY <1>3, <1>8, <3>1, TextMeaning
  <2>5. \A j \in e .. a - 1 : t[j - e + 1] = s[j - e + 1]
    <3>1. \A j \in e .. a - 1 : j - e + 1 \in 1 .. Len(s)
      BY <1>3, <1>4
    <3>2. QED
      BY <1>10, <3>1
  <2>6. t[a - e + 1] = x
    BY <1>3, <1>10
  <2>7. Errors = {} => \A j \in e .. (a + 1) - 1 : Meaning(j) = <<t[j - e + 1]>>
    BY <1>12, <2>3, <2>4, <2>5, <2>6
  <2>8. Errors = {} => /\ \A j \in l + 1 .. e - 1 : KindOf(j)' \in {"comment", "doctype"}
                       /\ IsTextRun(l)' => EndsRun(l)'
                       /\ Begins(e)'
                       /\ \A j \in e .. (a + 1) - 1 : Meaning(j)' = <<t[j - e + 1]>>
    BY <1>1, <2>3, <2>7, SameMeaning
  <2>9. Errors = {} => Begins(ev)'
    BY <1>6, <2>8 DEF Begins, KindOf, IsTextRun
  <2>10. QED
    BY <1>1, <1>6, <1>7, <1>10, <2>1, <2>2, <2>8, <2>9 DEF ExactInv
<1>16. \A k \in Held .. Held' - 1 : Excused(k)
  <2>1. e .. e - 1 = {}
    BY <1>4
  <2>2. QED
    BY <1>3, <1>7, <2>1
<1>17. Held' \in Nat /\ Held <= Held'
  BY <1>3, <1>4, <1>7
<1>18. QED
  BY <1>1, <1>11, <1>13, <1>14, <1>15, <1>16, <1>17, QuietKeepsInv

-------------------------------------------------------------------------------
(***************************************************************************)
(* The steps that return a tag, a CDATA section or a text.                 *)
(***************************************************************************)
LEMMA SurfaceMarkupKeepsInv ==
  ASSUME ReaderInv, SurfaceMarkup
  PROVE  ReaderInv'
<1>1. /\ pc = "surface" /\ KindOf(Raw) \in {"start", "end tag", "cdata"} /\ ReadRaw(NoEvent)
      /\ ev' = Raw
      /\ Return([kind |-> KindOf(Raw), first |-> Raw, last |-> Raw])
  BY DEF SurfaceMarkup
<1>2. PICK r \in 1 .. Len(events) : r = Raw /\ r = Ahead /\ r # NoEvent
  BY <1>1, RawFacts, SurfaceFacts
<1>3. PICK res : res = [kind |-> KindOf(r), first |-> r, last |-> r]
  OBVIOUS
<1>4. /\ Return(res) /\ KindOf(r) \in {"start", "end tag", "cdata"}
      /\ res.kind \notin {"none", "error"} /\ "first" \in DOMAIN res
      /\ res.first = r /\ res.last = r
  BY <1>1, <1>2, <1>3
<1>5. /\ Held = r /\ Len(events) \in Nat /\ r \in Nat \ {0} /\ r <= Len(events)
      /\ ~IsTextRun(r)
  <2>1. Held = r /\ Len(events) \in Nat
    BY <1>1, <1>2, SurfaceFacts, PlaceFacts
  <2>2. ~IsTextRun(r)
    BY <1>4 DEF IsTextRun
  <2>3. QED
    BY <2>1, <2>2
<1>6. /\ at' = r /\ pending' = NoEvent /\ cur' = NoEvent /\ ev' = r /\ pc' = "idle"
      /\ UNCHANGED <<events, sequential, entities>>
  BY <1>1, <1>2, <1>4, RawFacts DEF Return
<1>7. Ahead' = r + 1 /\ Held' = r + 1
  BY <1>6 DEF Ahead, Held
<1>8. ReaderOK'
  <2>1. at' \in 0 .. Len(events') /\ ev' \in 0 .. at'
    BY <1>5, <1>6
  <2>2. QED
    BY <1>6, <2>1 DEF ReaderOK
<1>9. EntitiesInv'
  <2>1. Errors \subseteq Errors'
    BY <1>4, ResultAppended
  <2>2. r + 1 \in {r, r + 1, r + 2} /\ r + 1 <= Len(events) + 1
    BY <1>5
  <2>3. \A k \in r .. (r + 1) - 1 : k = r
    BY <1>5
  <2>4. \A k \in r .. (r + 1) - 1 : KindOf(k) # "doctype" \/ ~sequential
    BY <1>4, <2>3
  <2>5. QED
    BY <1>2, <1>5, <1>6, <1>7, <2>1, <2>2, <2>4, EntitiesStay
<1>10. Begins(r) /\ Delivers(res, r) /\ (IsTextRun(res.last) => EndsRun(res.last))
  BY <1>3, <1>4, <1>5 DEF Begins, Delivers
<1>11. res.first = Held /\ res.last \in Held .. Len(events) /\ Held' = res.last + 1
  <2>1. r \in r .. Len(events)
    BY <1>5
  <2>2. QED
    BY <1>4, <1>5, <1>7, <2>1
<1>12. QED
  BY <1>1, <1>4, <1>5, <1>8, <1>9, <1>10, <1>11, DeliverKeepsInv

\* A literal without neighbours is returned as it is; the event behind it is kept.
LEMMA PeekLoneKeepsInv ==
  ASSUME ReaderInv, PeekLone
  PROVE  ReaderInv'
<1>1. /\ pc = "peek" /\ KindOf(ev) = "text" /\ ~IsTextRun(Raw) /\ ReadRaw(Raw) /\ ev' = ev
      /\ Return([kind |-> "text", first |-> ev, last |-> ev, text |-> TextOf(ev)])
  BY DEF PeekLone, LoneLiteral, ReturnText
<1>2. PICK e \in 1 .. Len(events) : e = ev
  BY <1>1, PeekFacts
<1>3. PICK x : x = events[e].text
  OBVIOUS
<1>4. PICK res : res = [kind |-> "text", first |-> e, last |-> e, text |-> <<x>>]
  OBVIOUS
<1>5. /\ KindOf(e) = "text" /\ IsTextRun(e) /\ TextOf(ev) = <<x>> /\ Meaning(e) = <<x>>
  BY <1>1, <1>2, <1>3 DEF TextOf, Meaning, IsTextRun
<1>6. /\ Return(res)
      /\ res.kind = "text" /\ "first" \in DOMAIN res
      /\ res.first = e /\ res.last = e /\ res.text = <<x>>
  BY <1>1, <1>2, <1>4, <1>5
<1>7. /\ Held = e /\ Ahead = e + 1 /\ Len(events) \in Nat /\ e \in Nat \ {0} /\ e <= Len(events)
  BY <1>1, <1>2, PeekFacts, PlaceFacts
<1>8. \/ pending' = e + 1 /\ at' = e + 1 /\ e + 1 \in 1 .. Len(events) /\ ~IsTextRun(e + 1)
      \/ pending' = NoEvent /\ at' = e /\ e = Len(events)
  BY <1>1, <1>2, PeekFacts
<1>9. /\ cur' = NoEvent /\ ev' = e /\ pc' = "idle"
      /\ UNCHANGED <<events, sequential, entities>>
  BY <1>1, <1>2, <1>6 DEF Return
<1>10. Ahead' = e + 1 /\ Held' = e + 1
  BY <1>7, <1>8, <1>9 DEF Ahead, Held, NoEvent
<1>11. ReaderOK'
  <2>1. at' \in 0 .. Len(events') /\ ev' \in 0 .. at'
    BY <1>7, <1>8, <1>9
  <2>2. {pending', cur'} \subseteq {NoEvent, at'}
    BY <1>8, <1>9
  <2>3. QED
    BY <1>9, <2>1, <2>2 DEF ReaderOK
<1>12. EntitiesInv'
  <2>1. Errors \subseteq Errors'
    BY <1>6, ResultAppended
  <2>2. e + 1 \in Nat \ {0} /\ e + 1 \in {e + 1, (e + 1) + 1, (e + 1) + 2} /\ e + 1 <= Len(events) + 1
    BY <1>7
  <2>3. (e + 1) .. (e + 1) - 1 = {}
    BY <1>7
  <2>4. QED
    BY <1>7, <1>9, <1>10, <2>1, <2>2, <2>3, EntitiesStay
<1>13. Errors = {} => Begins(e)
  <2>1. pc # "done"
    BY <1>1
  <2>2. QED
    BY <1>5, <1>7, <2>1, HeldFacts
<1>14. EndsRun(e)
  BY <1>8 DEF EndsRun
<1>15. Delivers(res, e)
  <2>1. res.last \in e .. Len(events) /\ Len(res.text) = res.last - e + 1
    BY <1>6, <1>7
  <2>2. \A j \in e .. res.last : j = e /\ res.text[j - e + 1] = x
    BY <1>6, <1>7
  <2>3. QED
    BY <1>5, <1>6, <1>14, <2>1, <2>2 DEF Delivers
<1>16. res.first = Held /\ res.last \in Held .. Len(events) /\ Held' = res.last + 1
  BY <1>6, <1>7, <1>10
<1>17. Errors = {} =>
          Begins(Held) /\ Delivers(res, Held) /\ (IsTextRun(res.last) => EndsRun(res.last))
  BY <1>6, <1>7, <1>13, <1>14, <1>15
<1>18. QED
  BY <1>1, <1>6, <1>11, <1>12, <1>16, <1>17, DeliverKeepsInv

\* The first event that is no text ends the run, and is kept.
LEMMA RunEndsKeepsInv ==
  ASSUME ReaderInv, RunEnds
  PROVE  ReaderInv'
<1>1. /\ pc = "run" /\ ~IsTextRun(cur) /\ pending' = cur /\ at' = at /\ ev' = ev
      /\ Return([kind |-> "text", first |-> ev, last |-> IF cur = NoEvent THEN at ELSE cur - 1,
                 text |-> run])
  BY DEF RunEnds, ReturnText
<1>2. PICK e, a, s : e = ev /\ a = Ahead /\ s = run
  OBVIOUS
<1>3. /\ a \in 1 .. Len(events) + 1 /\ e \in 1 .. a - 1 /\ Held = e
      /\ IsTextRun(e) /\ \A j \in e .. a - 1 : IsTextRun(j)
      /\ s \in Seq(Range(s)) /\ Len(s) = a - e
      /\ cur = NoEvent => at = Len(events) /\ a = at + 1
      /\ cur # NoEvent => cur = a /\ at = a
      /\ at \in 0 .. Len(events)
  BY <1>1, <1>2, RunFacts, PlaceFacts
<1>4. Len(events) \in Nat /\ a \in Nat \ {0} /\ e \in Nat \ {0} /\ e <= a - 1 /\ a - 1 <= Len(events)
  BY <1>3, PlaceFacts
<1>5. (IF cur = NoEvent THEN at ELSE cur - 1) = a - 1
  BY <1>3, <1>4
<1>6. PICK res : res = [kind |-> "text", first |-> e, last |-> a - 1, text |-> s]
  OBVIOUS
<1>7. /\ Return(res)
      /\ res.kind = "text" /\ "first" \in DOMAIN res
      /\ res.first = e /\ res.last = a - 1 /\ res.text = s
  BY <1>1, <1>2, <1>5, <1>6
<1>8. /\ cur' = NoEvent /\ ev' = e /\ pc' = "idle"
      /\ UNCHANGED <<events, sequential, entities>>
  BY <1>1, <1>2, <1>7 DEF Return
<1>9. Ahead' = a /\ Held' = a
  BY <1>1, <1>3, <1>8 DEF Ahead, Held
<1>10. ReaderOK'
  <2>1. at' \in 0 .. Len(events') /\ ev' \in 0 .. at'
    BY <1>1, <1>3, <1>4, <1>8
  <2>2. {pending', cur'} \subseteq {NoEvent, at'}
    BY <1>1, <1>3, <1>8
  <2>3. QED
    BY <1>8, <2>1, <2>2 DEF ReaderOK
<1>11. EntitiesInv'
  <2>1. Errors \subseteq Errors'
    BY <1>7, ResultAppended
  <2>2. a \in {a, a + 1, a + 2} /\ a <= Len(events) + 1
    BY <1>4
  <2>3. a .. a - 1 = {}
    BY <1>4
  <2>4. QED
    BY <1>2, <1>4, <1>8, <1>9, <2>1, <2>2, <2>3, EntitiesStay
<1>12. Errors = {} => /\ Begins(e)
                      /\ \A j \in e .. a - 1 : Meaning(j) = <<s[j - e + 1]>>
  BY <1>1, <1>2 DEF ReaderInv, ExactInv
<1>13. EndsRun(a - 1)
  <2>1. CASE cur = NoEvent
    <3>1. a - 1 = Len(events)
      BY <1>3, <1>4, <2>1
    <3>2. QED
      BY <3>1 DEF EndsRun
  <2>2. CASE cur # NoEvent
    <3>1. (a - 1) + 1 = cur
      BY <1>3, <1>4, <2>2
    <3>2. QED
      BY <1>1, <3>1 DEF EndsRun
  <2>3. QED
    BY <2>1, <2>2
<1>14. Errors = {} => Delivers(res, e)
  <2>1. a - 1 \in e .. Len(events) /\ a - e = (a - 1) - e + 1
    BY <1>4
  <2>2. res.last \in e .. Len(events) /\ Len(res.text) = res.last - e + 1
    BY <1>3, <1>7, <2>1
  <2>3. QED
    BY <1>3, <1>7, <1>12, <1>13, <2>2 DEF Delivers
<1>15. res.first = Held /\ res.last \in Held .. Len(events) /\ Held' = res.last + 1
  BY <1>3, <1>4, <1>7, <1>9
<1>16. Errors = {} =>
          Begins(Held) /\ Delivers(res, Held) /\ (IsTextRun(res.last) => EndsRun(res.last))
  BY <1>3, <1>7, <1>12, <1>13, <1>14
<1>17. QED
  BY <1>1, <1>7, <1>10, <1>11, <1>15, <1>16, DeliverKeepsInv

-------------------------------------------------------------------------------
(***************************************************************************)
(* The steps that return an error.                                         *)
(***************************************************************************)
LEMMA FailFacts ==
  ASSUME ReaderInv, Fail
  PROVE  /\ cur' = NoEvent /\ ev' = ev /\ pc' = "idle"
         /\ UNCHANGED <<events, sequential, entities>>
         /\ Errors \subseteq Errors' /\ Errors' # {}
         /\ pending' = NoEvent => Ahead' = at' + 1 /\ Held' = at' + 1
         /\ at' \in 0 .. Len(events) /\ at <= at' /\ pending' = NoEvent => ReaderOK'
<1>1. /\ Return([kind |-> "error"]) /\ ev' = ev /\ pc' = "idle" /\ cur' = NoEvent
      /\ UNCHANGED <<events, sequential, entities>>
  BY DEF Fail, Return
<1>2. Errors' = Errors \cup {Len(delivered) + 1}
  BY <1>1, ResultAppended
<1>3. pending' = NoEvent => Ahead' = at' + 1 /\ Held' = at' + 1
  BY <1>1 DEF Ahead, Held
<1>4. ASSUME at' \in 0 .. Len(events), at <= at', pending' = NoEvent PROVE ReaderOK'
  <2>1. ev \in 0 .. at /\ at \in 0 .. Len(events) /\ Len(events) \in Nat
    BY PlaceFacts DEF ReaderInv, ReaderOK
  <2>2. PICK p : p = at' /\ p \in 0 .. Len(events) /\ at <= p
    BY <1>4
  <2>3. ev \in 0 .. p
    BY <2>1, <2>2
  <2>4. at' \in 0 .. Len(events') /\ ev' \in 0 .. at'
    BY <1>1, <2>2, <2>3
  <2>5. QED
    BY <1>1, <1>4, <2>4 DEF ReaderOK
<1>5. QED
  BY <1>1, <1>2, <1>3, <1>4

\* A reading error in front of an event takes nothing else.
LEMMA SurfaceFailsKeepsInv ==
  ASSUME ReaderInv, SurfaceFails
  PROVE  ReaderInv'
<1>1. pc = "surface" /\ KindOf(Raw) = "error" /\ ReadRaw(NoEvent) /\ Fail
  BY DEF SurfaceFails
<1>2. PICK r \in 1 .. Len(events) : r = Raw /\ r = Ahead /\ r # NoEvent /\ (at = r \/ at + 1 = r)
  BY <1>1, RawFacts, SurfaceFacts
<1>3. Held = r /\ Len(events) \in Nat /\ r \in Nat \ {0} /\ at \in Nat /\ KindOf(r) = "error"
  BY <1>1, <1>2, SurfaceFacts, PlaceFacts
<1>4. at' = r /\ pending' = NoEvent
  BY <1>1, <1>2, RawFacts
<1>5. Ahead' = r + 1 /\ Held' = r + 1
  BY <1>1, <1>4, FailFacts
<1>6. ReaderOK'
  <2>1. r \in 0 .. Len(events) /\ at <= r
    BY <1>2, <1>3
  <2>2. QED
    BY <1>1, <1>4, <2>1, FailFacts
<1>7. \A k \in r .. (r + 1) - 1 : k = r
  BY <1>3
<1>8. EntitiesInv'
  <2>1. r + 1 \in {r, r + 1, r + 2} /\ r + 1 <= Len(events) + 1
    BY <1>2, <1>3
  <2>2. \A k \in r .. (r + 1) - 1 : KindOf(k) # "doctype" \/ ~sequential
    BY <1>3, <1>7
  <2>3. QED
    BY <1>1, <1>2, <1>3, <1>5, <2>1, <2>2, FailFacts, EntitiesStay
<1>9. \A k \in Held .. Held' - 1 : Excused(k)
  BY <1>3, <1>5, <1>7 DEF Excused
<1>10. Errors = {} =>
          \E b \in LastPlace(Len(delivered)) + 1 .. Len(events) :
             Bad(b) /\ \A k \in Held .. b - 1 : Begins(k) => \A j \in k .. b - 1 : IsTextRun(j)
  <2>1. ASSUME Errors = {} PROVE r \in LastPlace(Len(delivered)) + 1 .. Len(events)
    <3>1. PICK l \in 0 .. r - 1 : l = LastPlace(Len(delivered))
      BY <1>1, <1>3, <2>1, HeldFacts
    <3>2. r \in l + 1 .. Len(events)
      BY <1>2, <1>3
    <3>3. QED
      BY <3>1, <3>2
  <2>2. r .. r - 1 = {}
    BY <1>3
  <2>3. Bad(r)
    BY <1>3 DEF Bad
  <2>4. QED
    BY <1>3, <2>1, <2>2, <2>3
<1>11. Held' \in Nat /\ Held <= Held'
  BY <1>3, <1>5
<1>12. QED
  BY <1>1, <1>6, <1>8, <1>9, <1>10, <1>11, FailKeepsInv

\* An error while looking ahead takes the piece of text in hand, or the event behind
\* it.
LEMMA PeekFailsKeepsInv ==
  ASSUME ReaderInv, PeekFails
  PROVE  ReaderInv'
<1>1. pc = "peek" /\ (KindOf(Raw) = "error" \/ TextOf(ev) = <<>>) /\ ReadRaw(NoEvent) /\ Fail
  BY DEF PeekFails
<1>2. PICK e \in 1 .. Len(events) : e = ev
  BY <1>1, PeekFacts
<1>3. /\ Held = e /\ Ahead = e + 1 /\ Len(events) \in Nat /\ e \in Nat \ {0} /\ at = e
      /\ IsTextRun(e) /\ pending' = NoEvent
  BY <1>1, <1>2, PeekFacts, PlaceFacts
<1>4. PICK g : /\ g = at'
               /\ \/ g = e + 1 /\ g \in 1 .. Len(events) /\ Raw = g
                  \/ g = e /\ g = Len(events) /\ KindOf(Raw) = "end"
  BY <1>1, <1>2, PeekFacts, RawFacts
<1>5. g \in Nat /\ e <= g /\ g <= Len(events)
  BY <1>2, <1>3, <1>4
<1>6. Ahead' = g + 1 /\ Held' = g + 1
  BY <1>1, <1>3, <1>4, FailFacts
<1>7. ReaderOK'
  <2>1. g \in 0 .. Len(events)
    BY <1>3, <1>5
  <2>2. QED
    BY <1>1, <1>3, <1>4, <1>5, <2>1, FailFacts
\* The first of the run is a reference that has no meaning, or the next event is an
\* error.
<1>8. entities = Known(e) \/ (Errors # {} /\ DoctypeLost(e))
  BY <1>1, <1>2, PeekFacts
<1>9. TextOf(ev) = <<>> =>
        KindOf(e) = "ref" /\ Failed(e) /\ (entities = Known(e) => Bad(e))
  BY <1>2, <1>3, <1>8, Unresolved
<1>10. TextOf(ev) # <<>> => g = e + 1 /\ KindOf(g) = "error" /\ Bad(g) /\ Failed(g)
  BY <1>1, <1>4 DEF Bad, Failed
<1>11. \A k \in e .. g : k = e \/ k = g
  BY <1>4, <1>5
<1>12. EntitiesInv'
  <2>1. e + 1 \in Nat \ {0} /\ g + 1 \in {e + 1, (e + 1) + 1, (e + 1) + 2} /\ g + 1 <= Len(events) + 1
    <3>1. e + 1 \in Nat \ {0} /\ g + 1 <= Len(events) + 1
      BY <1>3, <1>5
    <3>2. g = e + 1 => g + 1 = (e + 1) + 1
      OBVIOUS
    <3>3. g + 1 \in {e + 1, (e + 1) + 1, (e + 1) + 2}
      BY <1>4, <3>2
    <3>4. QED
      BY <3>1, <3>3
  <2>2. \A k \in e + 1 .. (g + 1) - 1 : k = g /\ g = e + 1
    BY <1>3, <1>4
  <2>3. CASE g # e + 1 \/ KindOf(g) # "doctype" \/ ~sequential
    <3>1. \A k \in e + 1 .. (g + 1) - 1 : KindOf(k) # "doctype" \/ ~sequential
      BY <2>2, <2>3
    <3>2. QED
      BY <1>1, <1>3, <1>6, <2>1, <3>1, FailFacts, EntitiesStay
  <2>4. CASE g = e + 1 /\ KindOf(g) = "doctype" /\ sequential
    <3>1. KindOf(e) = "ref" /\ (entities = Known(e) => Bad(e))
      BY <1>9, <1>10, <2>4
    <3>2. g \in 2 .. (g + 1) - 1 /\ g - 1 = e
      BY <1>3, <1>5, <2>4
    <3>3. Bad(e) => DoctypeLost(g + 1)
      BY <2>4, <3>1, <3>2 DEF DoctypeLost
    <3>4. e <= g + 1 /\ g + 1 \in Nat
      BY <1>3, <1>5
    <3>5. DoctypeLost(g + 1)
      BY <1>3, <1>8, <3>1, <3>3, <3>4, LostStays
    <3>6. DoctypeLost(g + 1)'
      BY <1>1, <3>5, FailFacts, SameMeaning
    <3>7. QED
      BY <1>1, <1>6, <3>6, FailFacts DEF EntitiesInv
  <2>5. QED
    BY <2>3, <2>4
<1>13. e \in Places /\ g \in Places
  BY <1>2, <1>4, SourceFacts DEF ReaderInv
<1>14. \A k \in e .. g : Excused(k)
  <2>1. \A j \in (e .. g) \cup (g .. e) : j = e \/ j = g
    BY <1>4, <1>5
  <2>2. CASE TextOf(ev) = <<>>
    <3>1. Excused(e)
      BY <1>9, <2>2 DEF Excused
    <3>2. ASSUME g = e + 1 PROVE Excused(g)
      <4>1. g > 1 /\ KindOf(g - 1) = "ref" /\ Failed(g - 1)
        BY <1>3, <1>9, <2>2, <3>2
      <4>2. KindOf(g) = "text" => \A j \in (g .. e) \cup (e .. g) : IsTextRun(j)
        BY <1>3, <2>1 DEF IsTextRun
      <4>3. QED
        BY <1>9, <1>13, <2>2, <4>1, <4>2 DEF Excused
    <3>3. QED
      BY <1>4, <1>11, <3>1, <3>2
  <2>3. CASE TextOf(ev) # <<>>
    <3>1. \A j \in (e .. g) \cup (g .. e) : IsTextRun(j) \/ j = g
      BY <1>3, <2>1
    <3>2. Excused(e)
      BY <1>3, <1>10, <1>13, <2>3, <3>1 DEF Excused, IsTextRun
    <3>3. Excused(g)
      BY <1>10, <2>3 DEF Excused
    <3>4. QED
      BY <1>11, <3>2, <3>3
  <2>4. QED
    BY <2>2, <2>3
<1>15. \A k \in Held .. Held' - 1 : Excused(k)
  <2>1. (g + 1) - 1 = g
    BY <1>5
  <2>2. QED
    BY <1>3, <1>6, <1>14, <2>1
<1>16. Errors = {} =>
          \E b \in LastPlace(Len(delivered)) + 1 .. Len(events) :
             Bad(b) /\ \A k \in Held .. b - 1 : Begins(k) => \A j \in k .. b - 1 : IsTextRun(j)
  <2> SUFFICES ASSUME Errors = {}
               PROVE  \E b \in LastPlace(Len(delivered)) + 1 .. Len(events) :
                         Bad(b) /\ \A k \in e .. b - 1 : \A j \in k .. b - 1 : IsTextRun(j)
    BY <1>3
  <2>1. PICK l \in 0 .. e - 1 : l = LastPlace(Len(delivered))
    BY <1>1, <1>3, HeldFacts
  <2>2. CASE TextOf(ev) = <<>>
    <3>1. Bad(e)
      BY <1>8, <1>9, <2>2
    <3>2. e \in l + 1 .. Len(events) /\ e .. e - 1 = {}
      BY <1>2, <1>3
    <3>3. QED
      BY <2>1, <3>1, <3>2
  <2>3. CASE TextOf(ev) # <<>>
    <3>1. g \in l + 1 .. Len(events)
      BY <1>3, <1>5
    <3>2. g = e + 1 /\ Bad(g)
      BY <1>10, <2>3
    <3>3. e \in Nat
      BY <1>3
    <3>4. \A k \in e .. g - 1 : \A j \in k .. g - 1 : j = e
      BY <3>2, <3>3
    <3>5. QED
      BY <1>3, <2>1, <3>1, <3>2, <3>4
  <2>4. QED
    BY <2>2, <2>3
<1>17. Held' \in Nat /\ Held <= Held'
  BY <1>3, <1>5, <1>6
<1>18. QED
  BY <1>1, <1>7, <1>12, <1>15, <1>16, <1>17, FailKeepsInv

\* An error inside a run takes the run and the event that was read last.
LEMMA RunFailsKeepsInv ==
  ASSUME ReaderInv, RunFails
  PROVE  ReaderInv'
<1>1. /\ pc = "run" /\ IsTextRun(cur) /\ Fail
      /\ \/ TextOf(cur) = <<>> /\ UNCHANGED readVars
         \/ TextOf(cur) # <<>> /\ KindOf(Raw) = "error" /\ ReadRaw(NoEvent)
  BY DEF RunFails
<1>2. PICK e, c : e = ev /\ c = cur
  OBVIOUS
<1>3. /\ c \in 1 .. Len(events) /\ at = c /\ Ahead = c /\ e \in 1 .. c - 1 /\ Held = e
      /\ IsTextRun(c) /\ \A j \in e .. c - 1 : IsTextRun(j)
      /\ pending = NoEvent
  BY <1>1, <1>2, RunFacts, PlaceFacts DEF NoEvent
<1>4. Len(events) \in Nat /\ c \in Nat \ {0} /\ e \in Nat \ {0} /\ e <= c - 1
  BY <1>3, PlaceFacts
<1>5. \A j \in e .. c : IsTextRun(j)
  <2>1. \A j \in e .. c : j \in e .. c - 1 \/ j = c
    BY <1>4
  <2>2. QED
    BY <1>3, <2>1
\* The event that cannot be delivered.
<1>6. entities = Known(c) \/ (Errors # {} /\ DoctypeLost(c))
  BY <1>3 DEF ReaderInv, EntitiesInv
<1>7. PICK b : /\ at' = b /\ b \in 1 .. Len(events)
               /\ b = c \/ (b = c + 1 /\ KindOf(b) = "error")
               /\ Failed(b) /\ KindOf(b) # "doctype"
               /\ Errors = {} => Bad(b)
  <2>1. CASE TextOf(cur) = <<>>
    <3>1. at' = c
      BY <1>1, <1>3, <2>1 DEF readVars
    <3>2. KindOf(c) = "ref" /\ Failed(c) /\ (entities = Known(c) => Bad(c))
      BY <1>2, <1>3, <1>6, <2>1, Unresolved
    <3>3. QED
      BY <1>3, <1>6, <3>1, <3>2
  <2>2. CASE TextOf(cur) # <<>>
    <3>1. KindOf(Raw) = "error" /\ ReadRaw(NoEvent)
      BY <1>1, <2>2
    <3>2. Raw # NoEvent
      BY <3>1, RawFacts
    <3>3. at' = c + 1 /\ c + 1 \in 1 .. Len(events) /\ Raw = c + 1
      BY <1>1, <1>3, <3>1, <3>2, RawFacts
    <3>4. KindOf(c + 1) = "error" /\ Bad(c + 1) /\ Failed(c + 1)
      BY <3>1, <3>3 DEF Bad, Failed
    <3>5. QED
      BY <3>3, <3>4
  <2>3. QED
    BY <2>1, <2>2
<1>8. b \in Nat /\ e <= b /\ c <= b /\ b <= Len(events)
  BY <1>4, <1>7
<1>9. pending' = NoEvent
  BY <1>1, <1>3, RawFacts DEF readVars
<1>10. Ahead' = b + 1 /\ Held' = b + 1
  BY <1>1, <1>7, <1>9, FailFacts
<1>11. ReaderOK'
  <2>1. b \in 0 .. Len(events)
    BY <1>4, <1>8
  <2>2. QED
    BY <1>1, <1>3, <1>7, <1>8, <1>9, <2>1, FailFacts
<1>12. \A j \in e .. b : IsTextRun(j) \/ j = b
  <2>1. \A j \in e .. b : j \in e .. c \/ j = b
    BY <1>4, <1>7, <1>8
  <2>2. QED
    BY <1>5, <2>1
<1>13. EntitiesInv'
  <2>1. b + 1 \in {c, c + 1, c + 2} /\ b + 1 <= Len(events) + 1
    <3>1. b + 1 <= Len(events) + 1
      BY <1>4, <1>8
    <3>2. b = c + 1 => b + 1 = c + 2
      BY <1>4
    <3>3. QED
      BY <1>7, <3>1, <3>2
  <2>2. \A k \in c .. (b + 1) - 1 : k = c \/ k = b
    BY <1>4, <1>7, <1>8
  <2>3. KindOf(c) # "doctype"
    BY <1>3 DEF IsTextRun
  <2>4. \A k \in c .. (b + 1) - 1 : KindOf(k) # "doctype" \/ ~sequential
    BY <1>7, <2>2, <2>3
  <2>5. QED
    BY <1>1, <1>3, <1>4, <1>10, <2>1, <2>4, FailFacts, EntitiesStay
<1>14. ASSUME NEW k \in e .. b PROVE Excused(k)
  <2>1. b \in Places
    BY <1>7, SourceFacts DEF ReaderInv
  <2>2. \A j \in (k .. b) \cup (b .. k) : j \in e .. b
    BY <1>4, <1>8
  <2>3. \A j \in (k .. b) \cup (b .. k) : IsTextRun(j) \/ j = b
    BY <1>12, <2>2
  <2>4. IsTextRun(k) \/ KindOf(k) = "error"
    <3>1. CASE k = b
      BY <1>3, <1>7, <3>1
    <3>2. CASE k # b
      BY <1>12, <3>2
    <3>3. QED
      BY <3>1, <3>2
  <2>5. KindOf(k) \notin {"start", "end tag", "cdata"}
    BY <2>4 DEF IsTextRun
  <2>6. QED
    BY <1>7, <2>1, <2>3, <2>5 DEF Excused
<1>15. \A k \in Held .. Held' - 1 : Excused(k)
  <2>1. (b + 1) - 1 = b
    BY <1>8
  <2>2. QED
    BY <1>3, <1>10, <1>14, <2>1
<1>16. ASSUME Errors = {}
       PROVE  \E q \in LastPlace(Len(delivered)) + 1 .. Len(events) :
                 Bad(q) /\ \A k \in Held .. q - 1 : Begins(k) => \A j \in k .. q - 1 : IsTextRun(j)
  <2>1. PICK l \in 0 .. e - 1 : l = LastPlace(Len(delivered))
    BY <1>1, <1>3, <1>16, HeldFacts
  <2>2. b \in l + 1 .. Len(events)
    BY <1>4, <1>8
  <2>3. \A k \in e .. b - 1 : \A j \in k .. b - 1 : j \in e .. b /\ j # b
    BY <1>4, <1>8
  <2>4. \A k \in e .. b - 1 : \A j \in k .. b - 1 : IsTextRun(j)
    BY <1>12, <2>3
  <2>5. QED
    BY <1>3, <1>7, <1>16, <2>1, <2>2, <2>4
<1>17. Held' \in Nat /\ Held <= Held'
  BY <1>3, <1>8, <1>10
<1>18. QED
  BY <1>1, <1>11, <1>13, <1>15, <1>16, <1>17, FailKeepsInv

-------------------------------------------------------------------------------
(***************************************************************************)
(* The end, the beginning, and the steps that leave the reader alone.      *)
(***************************************************************************)
LEMMA SurfaceEndKeepsInv ==
  ASSUME ReaderInv, SurfaceEnd
  PROVE  ReaderInv'
<1> DEFINE n == Len(delivered)
           res == [kind |-> "none"]
<1>1. pc = "surface" /\ Raw = NoEvent /\ ReadRaw(NoEvent) /\ Return(res) /\ ev' = ev
  BY DEF SurfaceEnd
<1>2. PICK m \in Nat : m = Len(events)
  BY PlaceFacts
<1>3. at = m /\ Held = m + 1 /\ Ahead = m + 1
  BY <1>1, <1>2, RawFacts, SurfaceFacts
<1>4. at' = m /\ pending' = NoEvent
  BY <1>1, <1>3, RawFacts
<1>5. /\ n \in Nat /\ Len(delivered') = n + 1 /\ DOMAIN delivered = 1 .. n
      /\ DOMAIN delivered' = 1 .. n + 1
      /\ \A i \in 1 .. n : delivered'[i] = delivered[i]
      /\ delivered'[n + 1] = res /\ Errors' = Errors
      /\ UNCHANGED <<events, sequential, entities>>
  <2>1. PICK r : r = res /\ Return(r) /\ r.kind # "error"
    BY <1>1
  <2>2. QED
    BY <2>1, ResultAppended
<1>6. pc' = "done" /\ run' = <<>> /\ cur' = NoEvent
  BY <1>1 DEF Return
<1>7. Ahead' = m + 1 /\ Held' = m + 1
  BY <1>4, <1>6 DEF Ahead, Held
<1>8. ReaderOK'
  <2>1. ev \in 0 .. m
    BY <1>3 DEF ReaderInv, ReaderOK
  <2>2. at' \in 0 .. Len(events') /\ ev' \in 0 .. at'
    BY <1>1, <1>2, <1>4, <1>5, <2>1
  <2>3. QED
    BY <1>4, <1>6, <2>2 DEF ReaderOK
<1>9. HandInv'
  <2>1. <<>> \in Seq(Range(<<>>))
    BY EmptySeq
  <2>2. QED
    BY <1>1, <1>6, <2>1, ResultAppended DEF HandInv
<1>10. EntitiesInv'
  <2>1. m + 1 \in Nat \ {0} /\ m + 1 \in {m + 1, (m + 1) + 1, (m + 1) + 2} /\ m + 1 <= Len(events) + 1
    BY <1>2
  <2>2. (m + 1) .. (m + 1) - 1 = {}
    BY <1>2
  <2>3. QED
    BY <1>3, <1>5, <1>7, <2>1, <2>2, EntitiesStay
<1>11. EventsExact'
  <2>1. ASSUME Errors = {} PROVE ResultExact(res, LastPlace(n))
    <3>1. PICK from : from = LastPlace(n) /\ \A j \in from + 1 .. (m + 1) - 1 : ~Begins(j)
      BY <1>1, <1>3, <2>1, HeldFacts
    <3>2. (m + 1) - 1 = m
      BY <1>2
    <3>3. \A j \in LastPlace(n) + 1 .. Len(events) : ~Begins(j)
      BY <1>2, <3>1, <3>2
    <3>4. QED
      BY <3>3 DEF ResultExact
  <2>2. QED
    BY <1>1, <2>1, ResultAppended
<1>12. ExactInv'
  BY <1>6 DEF ExactInv
<1>13. LossInv'
  <2>1. ASSUME NEW i \in 1 .. n
        PROVE  /\ delivered[i].kind # "none"
               /\ delivered[i].kind # "error" =>
                    /\ "first" \in DOMAIN delivered[i]
                    /\ delivered[i].first \in 1 .. delivered[i].last
                    /\ delivered[i].last \in 1 .. (m + 1) - 1
    BY <1>1, <1>3, <1>5 DEF ReaderInv, LossInv
  <2>2. ASSUME NEW i \in 1 .. n + 1
        PROVE  /\ delivered'[i].kind = "none" => i = n + 1
               /\ delivered'[i].kind \notin {"none", "error"} =>
                    /\ "first" \in DOMAIN delivered'[i]
                    /\ delivered'[i].first \in 1 .. delivered'[i].last
                    /\ delivered'[i].last \in 1 .. (m + 1) - 1
    <3>1. CASE i \in 1 .. n
      BY <1>5, <2>1, <3>1
    <3>2. CASE i = n + 1
      BY <1>5, <3>2
    <3>3. QED
      BY <1>5, <3>1, <3>2
  <2>3. InOrder'
    <3> SUFFICES ASSUME NEW i \in 1 .. n + 1, NEW j \in 1 .. n + 1, i \notin Errors, j \notin Errors,
                        i < j, delivered'[j].kind # "none"
                 PROVE  delivered'[i].last < delivered'[j].first
      BY <1>5 DEF InOrder
    <3>1. j # n + 1
      BY <1>5
    <3>2. i \in 1 .. n /\ j \in 1 .. n
      BY <1>5, <3>1
    <3>3. delivered'[i] = delivered[i] /\ delivered'[j] = delivered[j]
      BY <1>5, <3>2
    <3>4. QED
      BY <1>5, <3>2, <3>3 DEF ReaderInv, LossInv, InOrder
  <2>4. ASSUME NEW k \in 1 .. (m + 1) - 1 PROVE k \in DeliveredPlaces' \/ Excused(k)'
    <3>1. k \in DeliveredPlaces \/ Excused(k)
      BY <1>3 DEF ReaderInv, LossInv
    <3>2. CASE k \in DeliveredPlaces
      <4>1. PICK i \in 1 .. n : "first" \in DOMAIN delivered[i] /\ k \in delivered[i].first .. delivered[i].last
        BY <1>5, <3>2 DEF DeliveredPlaces
      <4>2. i \in 1 .. n + 1 /\ delivered'[i] = delivered[i]
        BY <1>5
      <4>3. QED
        BY <1>5, <4>1, <4>2 DEF DeliveredPlaces
    <3>3. QED
      BY <1>5, <3>1, <3>2, SameMeaning
  <2>5. QED
    BY <1>5, <1>6, <1>7, <2>2, <2>3, <2>4 DEF LossInv
<1>14. events' \in Sources
  BY <1>5 DEF ReaderInv
<1>15. QED
  BY <1>8, <1>9, <1>10, <1>11, <1>12, <1>13, <1>14 DEF ReaderInv

\* A new reader, of either kind, has nothing in hand.
LEMMA ResetEstablishesInv ==
  ASSUME RecordInit \/ SeqInit
  PROVE  ReaderInv
<1>1. /\ events \in Sources /\ at = 0 /\ pending = 0 /\ pc = "idle" /\ ev = 0 /\ cur = 0
      /\ run = <<>> /\ delivered = <<>>
  BY DEF RecordInit, SeqInit, Reset, NoEvent
<1>2. Len(events) \in Nat /\ KindOf(0) = "end"
  BY <1>1, SourceFacts
<1>3. Ahead = 1 /\ Held = 1
  BY <1>1 DEF Ahead, Held, NoEvent
<1>4. DOMAIN delivered = {} /\ Len(delivered) = 0 /\ <<>> \in Seq(Range(<<>>))
  BY <1>1, EmptySeq
<1>5. Errors = {} /\ LastPlace(Len(delivered)) = 0
  BY <1>4 DEF Errors, LastPlace
<1>6. ReaderOK
  BY <1>1, <1>2 DEF ReaderOK, NoEvent
<1>7. HandInv
  BY <1>1, <1>4 DEF HandInv, NoEvent
<1>8. EntitiesInv
  <2>1. CASE SeqInit
    BY <1>3, <2>1, KnownFirst DEF SeqInit, EntitiesInv
  <2>2. CASE RecordInit
    BY <1>3, <2>2 DEF RecordInit, EntitiesInv, Known
  <2>3. QED
    BY <2>1, <2>2
<1>9. EventsExact
  BY <1>4 DEF EventsExact
<1>10. ExactInv
  BY <1>1, <1>2, <1>3, <1>5 DEF ExactInv, IsTextRun
<1>11. LossInv
  BY <1>3, <1>4 DEF LossInv, InOrder
<1>12. QED
  BY <1>1, <1>6, <1>7, <1>8, <1>9, <1>10, <1>11 DEF ReaderInv

\* The iterator's steps leave the reader alone.
LEMMA StutterKeepsInv ==
  ASSUME ReaderInv, UNCHANGED eventVars
  PROVE  ReaderInv'
<1>1. UNCHANGED <<events, sequential, entities, at, pending, pc, ev, cur, run, delivered>>
  BY DEF eventVars, readVars
<1>2. Ahead' = Ahead /\ Held' = Held
  BY <1>1 DEF Ahead, Held
<1>3. Errors' = Errors /\ \A i : LastPlace(i)' = LastPlace(i)
  BY <1>1 DEF Errors, LastPlace
<1>4. ReaderOK' /\ HandInv'
  BY <1>1, <1>2, SameMeaning DEF ReaderInv, ReaderOK, HandInv, IsTextRun, KindOf
<1>5. EntitiesInv'
  BY <1>1, <1>2, <1>3, SameMeaning DEF ReaderInv, EntitiesInv
<1>6. EventsExact'
  BY <1>1, <1>3, SameMeaning DEF ReaderInv, EventsExact
<1>7. ExactInv'
  BY <1>1, <1>2, <1>3, SameMeaning DEF ReaderInv, ExactInv
<1>8. LossInv'
  BY <1>1, <1>2, <1>3, SameMeaning DEF ReaderInv, LossInv, InOrder, DeliveredPlaces
<1>9. QED
  BY <1>1, <1>4, <1>5, <1>6, <1>7, <1>8 DEF ReaderInv

\* Every step of next_event keeps the invariant.
LEMMA ReaderStepKeepsInv ==
  ASSUME ReaderInv, Call \/ RecordNextEvent \/ SeqNextEvent
  PROVE  ReaderInv'
<1>1. CASE Call
  BY <1>1, CallKeepsInv
<1>2. CASE (~sequential /\ Skip({"comment", "doctype"})) \/ (sequential /\ Skip({"comment"}))
  BY <1>2, SkipKeepsInv
<1>3. CASE sequential /\ CaptureDoctype
  BY <1>3, CaptureKeepsInv
<1>4. CASE Surface
  BY <1>4, SurfaceFailsKeepsInv, SurfaceEndKeepsInv, SurfaceMarkupKeepsInv, SurfaceTextKeepsInv
     DEF Surface
<1>5. CASE Coalesce
  BY <1>5, PeekLoneKeepsInv, PeekFailsKeepsInv, PeekRunKeepsInv, RunGrowsKeepsInv,
     RunFailsKeepsInv, RunEndsKeepsInv DEF Coalesce
<1>6. QED
  BY <1>1, <1>2, <1>3, <1>4, <1>5 DEF RecordNextEvent, SeqNextEvent

-------------------------------------------------------------------------------
(***************************************************************************)
(* The iterator over a tag's attributes.                                   *)
(***************************************************************************)
LEMMA KeyEndFacts ==
  ASSUME NEW S, NEW buf \in Seq(S), NEW i \in 1 .. Len(buf) + 1
  PROVE  /\ KeyEnd(buf, i) \in i .. Len(buf) + 1
         /\ KeyEnd(buf, i) <= Len(buf) => IsWs(buf[KeyEnd(buf, i)]) \/ buf[KeyEnd(buf, i)] = "="
         /\ \A j \in i .. KeyEnd(buf, i) - 1 : ~IsWs(buf[j]) /\ buf[j] # "="
<1> DEFINE T == {j \in i .. Len(buf) : IsWs(buf[j]) \/ buf[j] = "="} \cup {Len(buf) + 1}
<1>1. Len(buf) \in Nat
  OBVIOUS
<1>2. T \subseteq i .. Len(buf) + 1 /\ T \subseteq Nat /\ T # {}
  BY <1>1
<1>3. Min(T) \in T /\ \A y \in T : Min(T) <= y
  BY <1>2, MinIsLeast
<1>4. Min(T) <= Len(buf) => IsWs(buf[Min(T)]) \/ buf[Min(T)] = "="
  BY <1>1, <1>3
<1>5. \A j \in i .. Min(T) - 1 : ~IsWs(buf[j]) /\ buf[j] # "="
  <2> SUFFICES ASSUME NEW j \in i .. Min(T) - 1, IsWs(buf[j]) \/ buf[j] = "=" PROVE FALSE
    OBVIOUS
  <2>1. j \in T /\ j < Min(T)
    BY <1>1, <1>2, <1>3
  <2>2. QED
    BY <1>2, <1>3, <2>1
<1>6. KeyEnd(buf, i) = Min(T)
  BY DEF KeyEnd
<1>7. QED
  BY <1>2, <1>3, <1>4, <1>5, <1>6

\* An answer leaves the iterator in its tag, and further on, unless there are no
\* more attributes or a key is missing.
LEMMA AttrNextFacts ==
  ASSUME NEW S, NEW buf \in Seq(S), NEW pos \in 1 .. Len(buf) + 1, NEW known
  PROVE  /\ AttrNext(buf, pos, known).pos \in pos .. Len(buf) + 1
         /\ \/ AttrNext(buf, pos, known).pos > pos
            \/ AttrNext(buf, pos, known).kind = "none"
            \/ buf[pos] = "="
<1>1. PICK n \in Nat : n = Len(buf)
  OBVIOUS
<1>2. PICK i \in pos .. n + 1 : i = SkipWs(buf, pos) /\ (i <= n => ~IsWs(buf[i]))
  BY <1>1, SkipWsFacts
<1>3. PICK key \in i .. n + 1 :
        key = KeyEnd(buf, i) /\ (key <= n => IsWs(buf[key]) \/ buf[key] = "=")
  <2>1. i \in 1 .. Len(buf) + 1
    BY <1>1, <1>2
  <2>2. QED
    BY <1>1, <2>1, KeyEndFacts
<1>4. PICK eq \in key .. n + 1 : eq = SkipWs(buf, key)
  <2>1. key \in 1 .. Len(buf) + 1
    BY <1>1, <1>2, <1>3
  <2>2. QED
    BY <1>1, <2>1, SkipWsFacts
<1>5. PICK quote, past, value :
        /\ quote = SkipWs(buf, eq + 1)
        /\ past = PastFirst(buf, quote + 1, <<buf[quote]>>)
        /\ value = SubSeq(buf, quote + 1, past - 2)
  OBVIOUS
<1>6. pos \in Nat \ {0} /\ pos <= i /\ i <= key /\ key <= eq /\ i \in Nat /\ key \in Nat /\ eq \in Nat
  BY <1>1, <1>2, <1>3, <1>4
<1>7. eq <= n => quote \in eq + 1 .. n + 1
  <2>1. eq <= n => eq + 1 \in 1 .. Len(buf) + 1
    BY <1>1, <1>6
  <2>2. QED
    BY <1>1, <1>5, <2>1, SkipWsFacts
<1>8. eq <= n /\ quote <= n /\ past # Nowhere => past \in quote + 1 .. n + 1
  <2> SUFFICES ASSUME eq <= n, quote <= n, past # Nowhere PROVE past \in quote + 1 .. n + 1
    OBVIOUS
  <2>1. quote \in 1 .. Len(buf) /\ quote + 1 \in Nat \ {0}
    BY <1>1, <1>6, <1>7
  <2>2. <<buf[quote]>> \in Seq(S) /\ Len(<<buf[quote]>>) = 1
    BY <2>1, ElementOfSeq
  <2>3. past \in (quote + 1) + 1 .. n + 1
    BY <1>1, <1>5, <2>1, <2>2, PastFirstFacts
  <2>4. QED
    BY <2>1, <2>3
<1>9. PICK answer : answer = AttrNext(buf, pos, known)
  OBVIOUS
<1>10. answer =
         IF i > n \/ buf[i] = "/" THEN [kind |-> "none", pos |-> i]
         ELSE IF key = i THEN Broken(i)
         ELSE IF eq > n \/ buf[eq] # "=" THEN Broken(eq)
         ELSE IF quote > n \/ buf[quote] \notin Quotes THEN Broken(quote)
         ELSE IF past = Nowhere THEN Broken(n + 1)
         ELSE IF ~IsUtf8(value) THEN [kind |-> "encoding", pos |-> past]
         ELSE IF ~Unescapes(value, known) THEN [kind |-> "entity", pos |-> past]
         ELSE Got(SubSeq(buf, i, key - 1), value, past)
  BY <1>1, <1>2, <1>3, <1>4, <1>5, <1>9 DEF AttrNext
<1>11. CASE i > n \/ buf[i] = "/"
  <2>1. answer.pos = i /\ answer.kind = "none"
    BY <1>10, <1>11
  <2>2. QED
    BY <1>1, <1>2, <1>9, <2>1
<1>12. CASE ~(i > n \/ buf[i] = "/") /\ key = i
  <2>1. answer.pos = i
    BY <1>10, <1>12 DEF Broken
  <2>2. i <= n
    BY <1>1, <1>6, <1>12
  <2>3. buf[i] = "="
    BY <1>2, <1>3, <1>12, <2>2
  <2>4. i = pos \/ i > pos
    BY <1>6
  <2>5. QED
    BY <1>1, <1>2, <1>9, <2>1, <2>3, <2>4
<1>13. CASE ~(i > n \/ buf[i] = "/") /\ key # i
  <2>1. pos < key /\ pos < eq
    BY <1>6, <1>13
  <2>2. CASE eq > n \/ buf[eq] # "="
    <3>1. answer.pos = eq
      BY <1>10, <1>13, <2>2 DEF Broken
    <3>2. eq \in pos .. n + 1 /\ eq > pos
      BY <1>1, <1>4, <1>6, <2>1
    <3>3. QED
      BY <1>1, <1>9, <3>1, <3>2
  <2>3. CASE ~(eq > n \/ buf[eq] # "=")
    <3>1. eq <= n
      BY <1>1, <1>6, <2>3
    <3>2. quote \in eq + 1 .. n + 1
      BY <1>7, <3>1
    <3>3. quote \in Nat /\ quote > pos /\ quote <= n + 1
      BY <1>1, <1>6, <2>1, <3>2
    <3>4. CASE quote > n \/ buf[quote] \notin Quotes
      <4>1. answer.pos = quote
        BY <1>10, <1>13, <2>3, <3>4 DEF Broken
      <4>2. quote \in pos .. n + 1
        BY <1>1, <1>6, <3>3
      <4>3. QED
        BY <1>1, <1>9, <3>3, <4>1, <4>2
    <3>5. CASE ~(quote > n \/ buf[quote] \notin Quotes) /\ past = Nowhere
      <4>1. answer.pos = n + 1
        BY <1>10, <1>13, <2>3, <3>5 DEF Broken
      <4>2. n + 1 \in pos .. n + 1 /\ n + 1 > pos
        BY <1>1, <1>6, <2>1, <3>1
      <4>3. QED
        BY <1>1, <1>9, <4>1, <4>2
    <3>6. CASE ~(quote > n \/ buf[quote] \notin Quotes) /\ past # Nowhere
      <4>1. answer.pos = past
        BY <1>10, <1>13, <2>3, <3>6 DEF Got
      <4>2. quote <= n
        BY <1>1, <3>3, <3>6
      <4>3. past \in quote + 1 .. n + 1
        BY <1>8, <3>1, <3>6, <4>2
      <4>4. past \in pos .. n + 1 /\ past > pos
        BY <1>1, <1>6, <3>3, <4>3
      <4>5. QED
        BY <1>1, <1>9, <4>1, <4>4
    <3>7. QED
      BY <3>4, <3>5, <3>6
  <2>4. QED
    BY <2>2, <2>3
<1>14. QED
  BY <1>11, <1>12, <1>13

-------------------------------------------------------------------------------
(***************************************************************************)
(* The iterator and the scanner of the same tag: where scan_attrs_xmlns    *)
(* finds an attribute, AttrIter finds the same one.                        *)
(***************************************************************************)
\* Whitespace in the longer buffer that ends inside the shorter one ends there too.
LEMMA SkipWsWithin ==
  ASSUME NEW S, NEW buf \in Seq(S), NEW full \in Seq(S), Grown(buf, full),
         NEW i \in 1 .. Len(buf) + 1, SkipWs(full, i) <= Len(buf)
  PROVE  SkipWs(buf, i) = SkipWs(full, i)
<1>1. PICK n \in Nat : n = Len(buf)
  OBVIOUS
<1>2. Len(full) \in Nat /\ n <= Len(full) /\ \A j \in 1 .. n : full[j] = buf[j]
  BY <1>1 DEF Grown
<1>3. PICK a \in i .. n + 1 : a = SkipWs(buf, i) /\ \A j \in i .. a - 1 : IsWs(buf[j])
  BY <1>1, SkipWsFacts
<1>4. PICK b \in i .. n : b = SkipWs(full, i) /\ ~IsWs(full[b])
  <2>1. i \in 1 .. Len(full) + 1
    BY <1>1, <1>2
  <2>2. /\ SkipWs(full, i) \in i .. Len(full) + 1
        /\ SkipWs(full, i) <= Len(full) => ~IsWs(full[SkipWs(full, i)])
    BY <2>1, SkipWsFacts
  <2>3. PICK b \in i .. Len(full) + 1 : b = SkipWs(full, i)
    BY <2>2
  <2>4. b <= n /\ b <= Len(full)
    BY <1>1, <1>2, <2>3
  <2>5. QED
    BY <1>2, <2>2, <2>3, <2>4
<1>5. ~IsWs(buf[b]) /\ b \in 1 .. n
  BY <1>1, <1>2, <1>4
<1>6. a <= n
  BY <1>1, <1>3, <1>4, <1>5
<1>7. SkipWs(full, i) = SkipWs(buf, i)
  BY <1>1, <1>3, <1>6, SkipWsGrown
<1>8. QED
  BY <1>7

\* Where there is none there is nothing to skip.
LEMMA NothingToSkip ==
  ASSUME NEW S, NEW buf \in Seq(S), NEW i \in 1 .. Len(buf), ~IsWs(buf[i])
  PROVE  SkipWs(buf, i) = i
<1>1. PICK n \in Nat : n = Len(buf) /\ i \in 1 .. n
  OBVIOUS
<1>2. PICK a \in i .. n + 1 : a = SkipWs(buf, i) /\ \A j \in i .. a - 1 : IsWs(buf[j])
  <2>1. i \in 1 .. Len(buf) + 1
    BY <1>1
  <2>2. QED
    BY <1>1, <2>1, SkipWsFacts
<1>3. QED
  BY <1>1, <1>2

\* A pattern of one byte starts where that byte is.
LEMMA OneByte ==
  ASSUME NEW S, NEW buf \in Seq(S), NEW quote \in Seq(S), NEW j \in 1 .. Len(buf)
  PROVE  Len(quote) = 1 => quote # <<>> /\ (StartsAt(buf, j, quote) <=> buf[j] = quote[1])
<1>1. PICK n \in Nat : n = Len(buf) /\ j \in 1 .. n
  OBVIOUS
<1>2. j \in Nat \ {0} /\ j + 1 <= Len(buf) + 1 /\ j + 1 - 1 = j
  BY <1>1
<1>3. quote # <<>> =>
        (StartsAt(buf, j, quote) <=> /\ j + Len(quote) <= Len(buf) + 1
                                     /\ \A k \in 1 .. Len(quote) : buf[j + k - 1] = quote[k])
  BY <1>2, StartsAtIff
<1>4. SUFFICES ASSUME Len(quote) = 1
               PROVE  quote # <<>> /\ (StartsAt(buf, j, quote) <=> buf[j] = quote[1])
  OBVIOUS
<1>5. quote # <<>>
  <2>1. Len(<<>>) # Len(quote)
    BY <1>4
  <2>2. QED
    BY <2>1, Zenon
<1>6. (\A k \in 1 .. Len(quote) : buf[j + k - 1] = quote[k]) <=> buf[j] = quote[1]
  BY <1>2, <1>4
<1>7. QED
  BY <1>2, <1>3, <1>4, <1>5, <1>6

\* A quote that closes inside the shorter buffer closes at the same byte of it.
LEMMA QuoteWithin ==
  ASSUME NEW S, NEW buf \in Seq(S), NEW full \in Seq(S), Grown(buf, full),
         NEW quote \in Seq(S), Len(quote) = 1,
         NEW i \in Nat \ {0}, PastFirst(full, i, quote) # Nowhere,
         PastFirst(full, i, quote) <= Len(buf) + 1
  PROVE  PastFirst(buf, i, quote) = PastFirst(full, i, quote)
<1>1. \A j \in 1 .. Len(full) : quote # <<>> /\ (StartsAt(full, j, quote) <=> full[j] = quote[1])
  BY OneByte
<1>2. PICK n \in Nat : n = Len(buf)
  OBVIOUS
<1>3. Len(full) \in Nat /\ n <= Len(full) /\ \A j \in 1 .. n : full[j] = buf[j]
  BY <1>2 DEF Grown
<1>4. /\ PastFirst(full, i, quote) \in i + Len(quote) .. Len(full) + 1
      /\ StartsAt(full, PastFirst(full, i, quote) - Len(quote), quote)
  BY PastFirstFacts
<1>5. PICK a \in i .. n : PastFirst(full, i, quote) = a + 1
  <2>1. PICK past \in i + 1 .. Len(full) + 1 : past = PastFirst(full, i, quote) /\ past <= n + 1
    BY <1>2, <1>4
  <2>2. past - 1 \in i .. n /\ past = (past - 1) + 1
    BY <1>2, <1>3, <2>1
  <2>3. QED
    BY <2>1, <2>2
<1>6. a \in 1 .. Len(full) /\ a \in 1 .. Len(buf)
  BY <1>2, <1>3, <1>5
<1>7. StartsAt(full, a, quote)
  <2>1. (a + 1) - 1 = a
    BY <1>5
  <2>2. QED
    BY <1>4, <1>5, <2>1
<1>8. quote # <<>> /\ full[a] = quote[1]
  BY <1>1, <1>6, <1>7
<1>9. buf[a] = quote[1]
  BY <1>2, <1>3, <1>6, <1>8
<1>10. StartsAt(buf, a, quote)
  BY <1>6, <1>9, OneByte
<1>11. PastFirst(buf, i, quote) # Nowhere
  <2> DEFINE places == {j \in i .. Len(buf) : StartsAt(buf, j, quote)}
  <2>1. a \in places /\ places \subseteq Nat
    BY <1>2, <1>5, <1>10
  <2>2. Min(places) \in places
    BY <2>1, MinIsLeast
  <2>3. Min(places) + Len(quote) # 0
    BY <2>1, <2>2
  <2>4. PastFirst(buf, i, quote) = Min(places) + Len(quote)
    BY <2>1 DEF PastFirst
  <2>5. QED
    BY <2>3, <2>4 DEF Nowhere
<1>12. QED
  BY <1>8, <1>11, PastFirstGrown

\* The bytes of a tag, and those up to its end: the `>` that quick-xml stops at.
UpToEnd(buf, full) ==
    Grown(buf, full) /\ Len(full) = Len(buf) + 1 /\ full[Len(buf) + 1] = ">"

\* The key that ends at whitespace or `=` is the name that the scanner reads, if that
\* is followed by an `=`.
LEMMA KeysAgree ==
  ASSUME NEW S, NEW buf \in Seq(S), NEW full \in Seq(S), UpToEnd(buf, full),
         NEW i \in 1 .. Len(buf), SkipWs(full, NameEnd(full, i)) <= Len(buf),
         full[SkipWs(full, NameEnd(full, i))] = "="
  PROVE  KeyEnd(buf, i) = NameEnd(full, i) /\ NameEnd(full, i) \in i .. Len(buf)
<1>1. PICK n \in Nat : n = Len(buf)
  OBVIOUS
<1>2. Len(full) = n + 1 /\ \A j \in 1 .. n : full[j] = buf[j]
  BY <1>1 DEF UpToEnd, Grown
<1>3. PICK e \in i .. n + 2 : e = NameEnd(full, i) /\ \A j \in i .. e - 1 : IsNameChar(full[j])
  <2>1. i \in 1 .. Len(full) + 1 /\ Len(full) + 1 = n + 2
    BY <1>1, <1>2
  <2>2. /\ NameEnd(full, i) \in i .. Len(full) + 1
        /\ \A j \in i .. NameEnd(full, i) - 1 : IsNameChar(full[j])
    BY <2>1, NameEndFacts
  <2>3. QED
    BY <2>1, <2>2
<1>4. PICK eq \in e .. n :
        eq = SkipWs(full, e) /\ full[eq] = "=" /\ \A j \in e .. eq - 1 : IsWs(full[j])
  <2>1. e \in 1 .. Len(full) + 1 /\ Len(full) + 1 = n + 2
    BY <1>1, <1>2, <1>3
  <2>2. /\ SkipWs(full, e) \in e .. Len(full) + 1
        /\ \A j \in e .. SkipWs(full, e) - 1 : IsWs(full[j])
    BY <2>1, SkipWsFacts
  <2>3. PICK eq \in e .. n + 2 : eq = SkipWs(full, e) /\ \A j \in e .. eq - 1 : IsWs(full[j])
    BY <2>1, <2>2
  <2>4. full[eq] = "=" /\ eq <= n
    BY <1>1, <1>3, <2>3
  <2>5. eq \in e .. n
    BY <1>1, <1>3, <2>3, <2>4
  <2>6. QED
    BY <2>3, <2>4, <2>5
<1>5. PICK k \in i .. n + 1 :
        /\ k = KeyEnd(buf, i)
        /\ k <= n => IsWs(buf[k]) \/ buf[k] = "="
        /\ \A j \in i .. k - 1 : ~IsWs(buf[j]) /\ buf[j] # "="
  <2>1. i \in 1 .. Len(buf) + 1
    BY <1>1
  <2>2. QED
    BY <1>1, <2>1, KeyEndFacts
<1>6. \A b : IsNameChar(b) => ~IsWs(b) /\ b # "="
  BY DEF IsNameChar, IsNameStart, IsWs, Names, Words, HighBytes
<1>7. ~(k < e)
  <2>1. SUFFICES ASSUME k < e PROVE FALSE
    OBVIOUS
  <2>2. k \in i .. e - 1 /\ k <= n /\ k \in 1 .. n
    BY <1>1, <1>3, <1>4, <1>5, <2>1
  <2>3. IsNameChar(buf[k])
    BY <1>2, <1>3, <2>2
  <2>4. IsWs(buf[k]) \/ buf[k] = "="
    BY <1>5, <2>2
  <2>5. QED
    BY <1>6, <2>3, <2>4, Zenon
<1>8. ~(e < k)
  <2>1. SUFFICES ASSUME e < k PROVE FALSE
    OBVIOUS
  <2>2. e \in i .. k - 1 /\ e \in 1 .. n
    BY <1>1, <1>3, <1>4, <1>5, <2>1
  <2>3. IsWs(full[e]) \/ full[e] = "="
    <3>1. CASE e = eq
      BY <1>4, <3>1
    <3>2. CASE e # eq
      BY <1>3, <1>4, <3>2
    <3>3. QED
      BY <3>1, <3>2
  <2>4. ~IsWs(buf[e]) /\ buf[e] # "="
    BY <1>5, <2>2
  <2>5. buf[e] = full[e]
    BY <1>2, <2>2
  <2>6. QED
    BY <2>3, <2>4, <2>5
<1>9. k = e
  BY <1>3, <1>5, <1>7, <1>8
<1>10. e \in i .. n
  BY <1>1, <1>3, <1>4
<1>11. QED
  BY <1>1, <1>3, <1>5, <1>9, <1>10

\* What the scanner takes for an attribute is what the iterator yields, or it refuses
\* the value.
LEMMA AttrWithin ==
  ASSUME NEW S, NEW buf \in Seq(S), NEW full \in Seq(S), UpToEnd(buf, full),
         NEW pos \in 1 .. Len(buf) + 1, HasAttr(full, pos), NEW known
  PROVE  /\ PastAttr(full, pos) \in pos + 1 .. Len(buf) + 1
         /\ AttrNext(buf, pos, known) =
              IF ~IsUtf8(ValueOf(full, pos))
              THEN [kind |-> "encoding", pos |-> PastAttr(full, pos)]
              ELSE IF ~Unescapes(ValueOf(full, pos), known)
              THEN [kind |-> "entity", pos |-> PastAttr(full, pos)]
              ELSE Got(KeyOf(full, pos), ValueOf(full, pos), PastAttr(full, pos))
<1>1. PICK n \in Nat : n = Len(buf)
  OBVIOUS
<1>2. /\ Grown(buf, full) /\ Len(full) = n + 1 /\ full[n + 1] = ">"
      /\ \A j \in 1 .. n : full[j] = buf[j]
  BY <1>1 DEF UpToEnd, Grown
<1>3. /\ \A j \in Nat : SkipWs(full, j) \in Nat /\ (SkipWs(full, j) <= Len(full) => SkipWs(full, j) >= j)
      /\ \A j \in Nat : NameEnd(full, j) \in Nat /\ (NameEnd(full, j) <= Len(full) => NameEnd(full, j) >= j)
  <2>1. \A j \in Nat : SkipWs(full, j) \in Nat /\ (SkipWs(full, j) <= Len(full) => SkipWs(full, j) >= j)
    BY SkipWsMovesOn
  <2>2. \A j \in Nat : NameEnd(full, j) \in Nat /\ (NameEnd(full, j) <= Len(full) => NameEnd(full, j) >= j)
    BY NameEndMovesOn
  <2>3. QED
    BY <2>1, <2>2
<1>4. PICK i \in pos .. n + 1 : i = KeyAt(full, pos) /\ full[i] \notin {">", "/"}
  <2>1. KeyAt(full, pos) \in Nat /\ KeyAt(full, pos) >= pos
    BY <1>1, <1>3 DEF KeyAt, HasAttr
  <2>2. KeyAt(full, pos) <= n + 1 /\ full[KeyAt(full, pos)] \notin {">", "/"}
    BY <1>2 DEF HasAttr
  <2>3. QED
    BY <1>1, <2>1, <2>2
<1>5. i \in 1 .. n /\ buf[i] # "/"
  BY <1>1, <1>2, <1>4
<1>6. PICK e \in Nat : e = NameEnd(full, i) /\ (e <= n + 1 => e >= i)
  <2>1. i \in Nat
    BY <1>5
  <2>2. NameEnd(full, i) \in Nat /\ (NameEnd(full, i) <= Len(full) => NameEnd(full, i) >= i)
    BY <1>3, <2>1
  <2>3. QED
    BY <1>2, <2>2
<1>7. PICK eq \in Nat : eq = EqAt(full, pos) /\ eq <= n + 1 /\ full[eq] = "=" /\ eq >= e
  <2>1. SkipWs(full, e) = EqAt(full, pos)
    BY <1>4, <1>6 DEF EqAt
  <2>2. EqAt(full, pos) \in Nat /\ (EqAt(full, pos) <= Len(full) => EqAt(full, pos) >= e)
    BY <1>3, <1>6, <2>1
  <2>3. QED
    BY <1>2, <2>2 DEF HasAttr
<1>8. PICK q \in Nat : q = QuoteAt(full, pos) /\ q <= n + 1 /\ full[q] \in Quotes /\ q >= eq + 1
  <2>1. eq + 1 \in Nat /\ SkipWs(full, eq + 1) = QuoteAt(full, pos)
    BY <1>7 DEF QuoteAt
  <2>2. QuoteAt(full, pos) \in Nat /\ (QuoteAt(full, pos) <= Len(full) => QuoteAt(full, pos) >= eq + 1)
    BY <1>3, <2>1
  <2>3. QED
    BY <1>2, <2>2 DEF HasAttr
<1>9. eq + 1 <= q /\ q <= n
  <2>1. ">" \notin Quotes
    BY DEF Quotes
  <2>2. q # n + 1
    BY <1>2, <1>8, <2>1
  <2>3. QED
    BY <1>1, <1>8, <1>7, <2>2
<1>10. eq \in 1 .. n /\ q \in 1 .. n
  BY <1>1, <1>5, <1>8, <1>7, <1>9, <1>6
<1>11. KeyEnd(buf, i) = NameEnd(full, i) /\ NameEnd(full, i) \in i .. n
  <2>1. SkipWs(full, NameEnd(full, i)) = eq
    BY <1>4, <1>7 DEF EqAt
  <2>2. QED
    BY <1>1, <1>5, <1>7, <1>10, <2>1, KeysAgree
<1>12. e \in i .. n /\ e = KeyEnd(buf, i) /\ e = NameEnd(full, i) /\ SkipWs(full, e) = eq
  BY <1>4, <1>7, <1>11, <1>6 DEF EqAt
<1>13. e # i
  <2>1. SUFFICES ASSUME e = i PROVE FALSE
    OBVIOUS
  <2>2. KeyOf(full, pos) = SubSeq(full, i, i - 1)
    BY <1>4, <1>12, <2>1 DEF KeyOf, EndTagName
  <2>3. SubSeq(full, i, i - 1) = <<>>
    BY <1>2, <1>5, SubSeqProperties
  <2>4. QED
    BY <2>2, <2>3 DEF HasAttr
<1>14. SkipWs(buf, pos) = i
  <2>1. SkipWs(full, pos) = i /\ SkipWs(full, pos) <= Len(buf)
    BY <1>1, <1>4, <1>5 DEF KeyAt
  <2>2. QED
    BY <1>2, <2>1, SkipWsWithin
<1>15. SkipWs(buf, e) = eq
  <2>1. e \in 1 .. Len(buf) + 1 /\ SkipWs(full, e) <= Len(buf)
    BY <1>1, <1>5, <1>10, <1>12
  <2>2. QED
    BY <1>2, <1>12, <2>1, SkipWsWithin
<1>16. SkipWs(buf, eq + 1) = q
  <2>1. SkipWs(full, eq + 1) = q
    BY <1>8, <1>7 DEF QuoteAt
  <2>2. eq + 1 \in 1 .. Len(buf) + 1 /\ SkipWs(full, eq + 1) <= Len(buf)
    BY <1>1, <1>10, <2>1
  <2>3. QED
    BY <1>2, <2>1, <2>2, SkipWsWithin
<1>17. buf[eq] = "=" /\ buf[q] = full[q] /\ buf[q] \in Quotes
  BY <1>2, <1>8, <1>7, <1>10
<1>18. PICK quote \in Seq(S) : quote = <<full[q]>> /\ Len(quote) = 1
  <2>1. q \in 1 .. Len(full)
    BY <1>1, <1>2, <1>10
  <2>2. PICK c \in S : c = full[q]
    BY <2>1, ElementOfSeq
  <2>3. <<c>> \in Seq(S) /\ Len(<<c>>) = 1
    OBVIOUS
  <2>4. QED
    BY <2>2, <2>3
<1>19. PICK past \in q + 2 .. n + 1 : past = PastAttr(full, pos) /\ PastFirst(full, q + 1, quote) = past
  <2>1. PastAttr(full, pos) = PastFirst(full, q + 1, quote)
    BY <1>8, <1>18 DEF PastAttr
  <2>2. PastFirst(full, q + 1, quote) # Nowhere
    BY <2>1 DEF HasAttr
  <2>3. q + 1 \in Nat \ {0}
    BY <1>10
  <2>4. /\ PastFirst(full, q + 1, quote) \in (q + 1) + Len(quote) .. Len(full) + 1
        /\ StartsAt(full, PastFirst(full, q + 1, quote) - Len(quote), quote)
    BY <2>2, <2>3, PastFirstFacts
  <2>5. PICK past \in q + 2 .. n + 2 : past = PastFirst(full, q + 1, quote)
    BY <1>2, <1>10, <1>18, <2>4
  <2>6. past # n + 2
    <3>1. SUFFICES ASSUME past = n + 2 PROVE FALSE
      OBVIOUS
    <3>2. PICK last \in 1 .. Len(full) : last = n + 1
      BY <1>2
    <3>3. StartsAt(full, last, quote)
      <4>1. past - Len(quote) = last
        BY <1>18, <3>1, <3>2
      <4>2. QED
        BY <2>4, <2>5, <4>1
    <3>4. full[last] = quote[1]
      BY <1>18, <3>3, OneByte
    <3>5. quote[1] = full[q] /\ full[last] = ">"
      BY <1>2, <1>18, <3>2
    <3>6. QED
      BY <1>8, <3>4, <3>5 DEF Quotes
  <2>7. QED
    BY <1>1, <2>1, <2>5, <2>6, SMTT(30)
<1>20. PastFirst(buf, q + 1, quote) = past
  <2>1. q + 1 \in Nat \ {0}
    BY <1>10
  <2>2. PastFirst(full, q + 1, quote) # Nowhere /\ PastFirst(full, q + 1, quote) <= Len(buf) + 1
    BY <1>1, <1>10, <1>19 DEF Nowhere
  <2>3. PastFirst(buf, q + 1, quote) = PastFirst(full, q + 1, quote)
    <3>1. Len(quote) = 1 /\ Grown(buf, full)
      BY <1>2, <1>18
    <3>2. QED
      BY <2>1, <2>2, <3>1, QuoteWithin
  <2>4. QED
    BY <1>19, <2>3
<1>21. PastFirst(buf, q + 1, <<buf[q]>>) = past
  BY <1>17, <1>18, <1>20
<1>22. KeyOf(full, pos) = SubSeq(buf, i, e - 1)
  <2>1. i \in Nat \ {0} /\ e - 1 \in Int /\ e - 1 <= Len(buf)
    BY <1>1, <1>5, <1>12
  <2>2. SubSeq(full, i, e - 1) = SubSeq(buf, i, e - 1)
    BY <1>2, <2>1, SliceGrown, ZenonT(40)
  <2>3. QED
    BY <1>4, <1>12, <2>2 DEF KeyOf, EndTagName
<1>23. ValueOf(full, pos) = SubSeq(buf, q + 1, past - 2)
  <2>1. q + 1 \in Nat \ {0} /\ past - 2 \in Int /\ past - 2 <= Len(buf)
    BY <1>1, <1>10, <1>19
  <2>2. SubSeq(full, q + 1, past - 2) = SubSeq(buf, q + 1, past - 2)
    BY <1>2, <2>1, SliceGrown, ZenonT(40)
  <2>3. QED
    BY <1>8, <1>19, <2>2 DEF ValueOf
<1>24. ~(i > n) /\ ~(eq > n) /\ ~(q > n) /\ past # Nowhere
  BY <1>1, <1>5, <1>10, <1>19 DEF Nowhere
<1>25. AttrNext(buf, pos, known) =
         IF i > n \/ buf[i] = "/" THEN [kind |-> "none", pos |-> i]
         ELSE IF e = i THEN Broken(i)
         ELSE IF eq > n \/ buf[eq] # "=" THEN Broken(eq)
         ELSE IF q > n \/ buf[q] \notin Quotes THEN Broken(q)
         ELSE IF past = Nowhere THEN Broken(n + 1)
         ELSE IF ~IsUtf8(SubSeq(buf, q + 1, past - 2)) THEN [kind |-> "encoding", pos |-> past]
         ELSE IF ~Unescapes(SubSeq(buf, q + 1, past - 2), known) THEN [kind |-> "entity", pos |-> past]
         ELSE Got(SubSeq(buf, i, e - 1), SubSeq(buf, q + 1, past - 2), past)
  BY <1>1, <1>12, <1>14, <1>15, <1>16, <1>21, Zenon DEF AttrNext
<1>26. AttrNext(buf, pos, known) =
         IF ~IsUtf8(SubSeq(buf, q + 1, past - 2)) THEN [kind |-> "encoding", pos |-> past]
         ELSE IF ~Unescapes(SubSeq(buf, q + 1, past - 2), known) THEN [kind |-> "entity", pos |-> past]
         ELSE Got(SubSeq(buf, i, e - 1), SubSeq(buf, q + 1, past - 2), past)
  BY <1>5, <1>13, <1>17, <1>24, <1>25, Zenon
<1>27. past \in pos + 1 .. n + 1
  <2>1. pos <= i /\ i <= e /\ e <= eq
    BY <1>1, <1>4, <1>7, <1>12
  <2>2. QED
    BY <1>1, <1>9, <1>12, <1>19, <2>1
<1>28. QED
  BY <1>1, <1>19, <1>22, <1>23, <1>26, <1>27
\* One call and what is left to scan before and behind it: nothing, or an attribute
\* that declares what the call yields.
SameAttr(answer, before, behind) ==
    \/ answer.kind = "none" /\ behind = before /\ before.ns = <<>>
    \/ /\ answer.kind \in {"pair", "encoding", "entity"}
       /\ behind.verdict = "at" /\ behind.pos = before.pos
       /\ answer.kind = "pair" =>
            before.ns = IF DeclaresNs(answer.key)
                        THEN DeclaredBefore(behind.ns, PrefixOf[answer.key[1]], answer.value)
                        ELSE behind.ns

\* A scan that stops at the tag's end has found none, or its end alone.
LEMMA EndWithin ==
  ASSUME NEW S, NEW buf \in Seq(S), NEW full \in Seq(S), UpToEnd(buf, full),
         NEW pos \in 1 .. Len(buf) + 1, ~HasAttr(full, pos), NEW known,
         ScanAttrs(full, pos, NeedsMore).verdict = "at",
         ScanAttrs(full, pos, NeedsMore).pos = Len(buf) + 2
  PROVE  /\ AttrNext(buf, pos, known).kind = "none"
         /\ SameAttr(AttrNext(buf, pos, known), ScanAttrs(full, pos, NeedsMore),
                     ScanAttrs(full, AttrNext(buf, pos, known).pos, NeedsMore))
<1>1. PICK n \in Nat : n = Len(buf)
  OBVIOUS
<1>2. /\ Grown(buf, full) /\ Len(full) = n + 1 /\ full[n + 1] = ">"
      /\ \A j \in 1 .. n : full[j] = buf[j]
  BY <1>1 DEF UpToEnd, Grown
<1> DEFINE F == AttrsFrom(full, NeedsMore)
<1>3. /\ \A j \in Nat : F[j] = AttrsBody(full, NeedsMore, F, j)
      /\ \A j \in Nat : ScanAttrs(full, j, NeedsMore) = F[j]
  BY ScanAttrsUnfolds
<1> HIDE DEF F
<1>4. F[pos] = NoAttr(full, NeedsMore, pos) /\ F[pos].verdict = "at" /\ F[pos].pos = n + 2
  BY <1>1, <1>3 DEF AttrsBody
<1>5. PICK i \in Nat : i = KeyAt(full, pos) /\ (i <= n + 1 => i \in pos .. n + 1)
  <2>1. SkipWs(full, pos) \in Nat /\ (SkipWs(full, pos) <= Len(full) => SkipWs(full, pos) >= pos)
    BY SkipWsMovesOn
  <2>2. QED
    BY <1>1, <1>2, <2>1 DEF KeyAt
<1>6. NeedsMore.verdict # "at" /\ Malformed.verdict # "at"
  BY DEF NeedsMore, Malformed
<1>7. \/ ~(i > Len(full)) /\ full[i] = ">" /\ F[pos] = TagEnd(i + 1, FALSE)
      \/ ~(i > Len(full)) /\ full[i] = "/" /\ full[i] # ">" /\ i # Len(full) /\ full[i + 1] = ">"
         /\ F[pos] = TagEnd(i + 2, TRUE)
  BY <1>4, <1>5, <1>6, Zenon DEF NoAttr
<1>8. i \in pos .. n + 1 /\ full[i] \in {">", "/"}
  <2>1. i <= n + 1
    <3>1. ~(i > Len(full))
      BY <1>7, Zenon
    <3>2. Len(full) = n + 1
      BY <1>2
    <3>3. QED
      BY <1>1, <1>5, <3>1, <3>2
  <2>2. i \in pos .. n + 1
    BY <1>5, <2>1
  <2>3. QED
    BY <1>7, <2>2
<1>9. \/ i = n + 1
      \/ i = n /\ full[i] = "/"
  BY <1>2, <1>4, <1>7, <1>8 DEF TagEnd
<1>10. ~IsWs(full[i]) /\ i \in 1 .. Len(full)
  BY <1>1, <1>2, <1>8 DEF IsWs
<1>11. SkipWs(full, i) = i
  BY <1>10, NothingToSkip
<1>12. KeyAt(full, i) = i
  BY <1>11 DEF KeyAt
<1>13. F[i] = F[pos]
  <2>1. ~HasAttr(full, i)
    BY <1>8, <1>12 DEF HasAttr
  <2>2. F[i] = NoAttr(full, NeedsMore, i)
    BY <1>3, <1>5, <2>1 DEF AttrsBody
  <2>3. F[i] = F[pos]
    BY <1>7, <1>12, <2>2, Zenon DEF NoAttr
  <2>4. QED
    BY <2>3
<1>14. SkipWs(buf, pos) = i
  <2>1. CASE i = n + 1
    <3>1. PICK a \in pos .. n + 1 : a = SkipWs(buf, pos)
      BY <1>1, SkipWsFacts
    <3>2. CASE a <= n
      <4>1. SkipWs(full, pos) = a
        BY <1>1, <1>2, <3>1, <3>2, SkipWsGrown
      <4>2. QED
        <5>1. a = i
          BY <1>5, <4>1 DEF KeyAt
        <5>2. QED
          BY <3>1, <5>1
    <3>3. CASE a = n + 1
      BY <2>1, <3>1, <3>3
    <3>4. QED
      BY <1>1, <3>1, <3>2, <3>3
  <2>2. CASE i = n
    <3>1. SkipWs(full, pos) = i /\ SkipWs(full, pos) <= Len(buf)
      BY <1>1, <1>5, <2>2 DEF KeyAt
    <3>2. QED
      BY <1>2, <3>1, SkipWsWithin
  <2>3. QED
    BY <1>9, <2>1, <2>2
<1>15. i > Len(buf) \/ buf[i] = "/"
  BY <1>1, <1>2, <1>8, <1>9
<1>16. AttrNext(buf, pos, known) = [kind |-> "none", pos |-> i]
  BY <1>14, <1>15, Zenon DEF AttrNext
<1>17. AttrNext(buf, pos, known).kind = "none" /\ AttrNext(buf, pos, known).pos = i
  BY <1>16
<1>18. F[pos].ns = <<>>
  BY <1>7 DEF TagEnd
<1>19. i \in Nat /\ pos \in Nat
  BY <1>5
<1>20. QED
  BY <1>3, <1>13, <1>17, <1>18, <1>19, Zenon DEF SameAttr

\* Where the scanner finds an attribute and reaches the tag's end behind it, the
\* iterator yields the same one.
LEMMA CallAgrees ==
  ASSUME NEW S, NEW buf \in Seq(S), NEW full \in Seq(S), UpToEnd(buf, full),
         NEW pos \in 1 .. Len(buf) + 1, NEW known,
         ScanAttrs(full, pos, NeedsMore).verdict = "at",
         ScanAttrs(full, pos, NeedsMore).pos = Len(buf) + 2
  PROVE  /\ SameAttr(AttrNext(buf, pos, known), ScanAttrs(full, pos, NeedsMore),
                     ScanAttrs(full, AttrNext(buf, pos, known).pos, NeedsMore))
         /\ AttrNext(buf, pos, known).kind # "none" => AttrNext(buf, pos, known).pos > pos
<1> DEFINE F == AttrsFrom(full, NeedsMore)
           past == PastAttr(full, pos)
           key == KeyOf(full, pos)
           value == ValueOf(full, pos)
<1>1. CASE ~HasAttr(full, pos)
  BY <1>1, EndWithin
<1>2. CASE HasAttr(full, pos)
  <2>1. /\ \A j \in Nat : F[j] = AttrsBody(full, NeedsMore, F, j)
        /\ \A j \in Nat : ScanAttrs(full, j, NeedsMore) = F[j]
    BY ScanAttrsUnfolds
  <2> HIDE DEF F
  <2>2. /\ past \in pos + 1 .. Len(buf) + 1
        /\ AttrNext(buf, pos, known) =
             IF ~IsUtf8(value) THEN [kind |-> "encoding", pos |-> past]
             ELSE IF ~Unescapes(value, known) THEN [kind |-> "entity", pos |-> past]
             ELSE Got(key, value, past)
    BY <1>2, AttrWithin
  <2>3. past \in Nat /\ past > pos /\ pos \in Nat
    BY <2>2
  <2> HIDE DEF past, key, value
  <2>4. PICK answer : answer = AttrNext(buf, pos, known)
    OBVIOUS
  <2>5. \/ answer = [kind |-> "encoding", pos |-> past] /\ ~IsUtf8(value)
        \/ answer = [kind |-> "entity", pos |-> past]
        \/ answer = [kind |-> "pair", key |-> key, value |-> value, pos |-> past]
    BY <2>2, <2>4, Zenon DEF Got
  <2>6. /\ answer.pos = past /\ answer.kind \in {"pair", "encoding", "entity"}
        /\ answer.kind = "pair" => answer.key = key /\ answer.value = value
    BY <2>5
  <2>7. F[pos] = WithAttr(key, value, F[past])
    BY <1>2, <2>1, <2>3, Zenon DEF AttrsBody, past, key, value
  <2>8. F[pos].verdict = "at" /\ BadEncoding.verdict # "at"
    BY <2>1, <2>3 DEF BadEncoding
  <2>9. \/ ~DeclaresNs(key) /\ F[pos] = F[past]
        \/ /\ DeclaresNs(key) /\ F[past].verdict = "at"
           /\ F[pos] = [F[past] EXCEPT !.ns = DeclaredBefore(@, PrefixOf[key[1]], value)]
    BY <2>7, <2>8, Zenon DEF WithAttr
  <2>10. F[past].verdict = "at"
    BY <2>8, <2>9
  <2>11. PICK p, slash, ns : F[past] = [verdict |-> "at", pos |-> p, slash |-> slash, ns |-> ns]
    <3>1. past \in Nat \ {0} /\ NeedsMore.verdict # "at" /\ Malformed.verdict # "at"
      BY <2>3 DEF NeedsMore, Malformed
    <3>2. ScanAttrs(full, past, NeedsMore) = F[past]
      BY <2>1, <2>3
    <3>3. \/ F[past] \in {NeedsMore, Malformed, BadEncoding}
          \/ AttrsAnswer(full, past, F[past])
      BY <3>1, <3>2, ScanAttrsAnswers
    <3>4. AttrsAnswer(full, past, F[past])
      BY <2>8, <2>10, <3>1, <3>3
    <3>5. QED
      BY <3>4, Zenon DEF AttrsAnswer
  <2>12. CASE ~DeclaresNs(key)
    <3>1. F[pos] = F[past]
      BY <2>9, <2>12
    <3>2. QED
      BY <2>1, <2>3, <2>4, <2>6, <2>10, <2>12, <3>1 DEF SameAttr
  <2>13. CASE DeclaresNs(key)
    <3>1. F[pos] = [F[past] EXCEPT !.ns = DeclaredBefore(@, PrefixOf[key[1]], value)]
      BY <2>9, <2>13
    <3>2. /\ F[pos].pos = F[past].pos
          /\ F[pos].ns = DeclaredBefore(F[past].ns, PrefixOf[key[1]], value)
      BY <2>11, <3>1
    <3>3. QED
      BY <2>1, <2>3, <2>4, <2>6, <2>10, <2>13, <3>2 DEF SameAttr
  <2>14. QED
    BY <2>12, <2>13
<1>3. QED
  BY <1>1, <1>2
-------------------------------------------------------------------------------
(***************************************************************************)
(* The caller with both.                                                   *)
(***************************************************************************)
LEMMA TagAttrs ==
  ASSUME NEW source \in Sources, NEW k \in 1 .. Len(source), source[k].kind = "start"
  PROVE  source[k].attrs \in Seq(Range(source[k].attrs)) /\ Len(source[k].attrs) \in Nat
<1>1. source[k].attrs \in Seq(Range(source[k].attrs))
  BY SourcesAssumption
<1>2. QED
  BY <1>1, LenProperties

\* The start tag in hand has attributes to iterate over.
LEMMA AttrsFacts ==
  ASSUME ReaderInv, KindOf(ev) = "start"
  PROVE  Attrs \in Seq(Range(Attrs)) /\ Len(Attrs) \in Nat
<1>1. ev \in 0 .. Len(events) /\ Len(events) \in Nat
  BY PlaceFacts DEF ReaderInv, ReaderOK
<1>2. ev # 0
  BY SourceFacts DEF ReaderInv
<1>3. ev \in 1 .. Len(events)
  BY <1>1, <1>2
<1>4. events[ev].kind = "start" /\ events \in Sources
  BY <1>2 DEF ReaderInv, KindOf, NoEvent
<1>5. QED
  BY <1>3, <1>4, TagAttrs DEF Attrs

\* The caller is at a start tag only if that is what was returned.
LEMMA ReturnedKind ==
  ASSUME ReaderInv, NEW r, Return(r)
  PROVE  AtStartTag' => r.kind = "start"
<1>1. Len(delivered') = Len(delivered) + 1 /\ delivered'[Len(delivered) + 1] = r
  BY ResultAppended
<1>2. Last(delivered') = r
  BY <1>1 DEF Last
<1>3. QED
  BY <1>2 DEF AtStartTag

\* The event in hand is the tag that the reader has just returned.
LEMMA TagInHand ==
  ASSUME ReaderInv, RecordNextEvent \/ SeqNextEvent
  PROVE  pc # "idle" /\ (AtStartTag' => KindOf(ev)' = "start")
<1>1. CASE Skip({"comment", "doctype"}) \/ Skip({"comment"}) \/ CaptureDoctype \/ SurfaceText
             \/ PeekRun \/ RunGrows
  <2>1. pc # "idle" /\ pc' # "idle"
    BY <1>1 DEF Skip, CaptureDoctype, SurfaceText, PeekRun, RunGrows
  <2>2. QED
    BY <2>1 DEF AtStartTag
<1>2. CASE SurfaceMarkup
  <2>1. PICK r : r.kind = KindOf(Raw) /\ Return(r) /\ pc # "idle" /\ ev' = Raw
    BY <1>2 DEF SurfaceMarkup
  <2>2. AtStartTag' => KindOf(Raw) = "start"
    BY <2>1, ReturnedKind
  <2>3. PICK e : e = Raw
    OBVIOUS
  <2>4. KindOf(e)' = KindOf(e)
    BY <2>1, SameMeaning DEF Return
  <2>5. QED
    BY <2>1, <2>2, <2>3, <2>4 DEF KindOf
<1>3. CASE SurfaceFails \/ PeekFails \/ RunFails
  <2>1. PICK r : r.kind # "start" /\ Return(r) /\ pc # "idle"
    BY <1>3 DEF SurfaceFails, PeekFails, RunFails, Fail
  <2>2. QED
    BY <2>1, ReturnedKind
<1>4. CASE SurfaceEnd
  <2>1. PICK r : r.kind # "start" /\ Return(r) /\ pc # "idle"
    BY <1>4 DEF SurfaceEnd
  <2>2. QED
    BY <2>1, ReturnedKind
<1>5. CASE PeekLone
  <2>1. PICK r : r.kind # "start" /\ Return(r) /\ pc # "idle"
    BY <1>5 DEF PeekLone, ReturnText
  <2>2. QED
    BY <2>1, ReturnedKind
<1>6. CASE RunEnds
  <2>1. PICK r : r.kind # "start" /\ Return(r) /\ pc # "idle"
    BY <1>6 DEF RunEnds, ReturnText
  <2>2. QED
    BY <2>1, ReturnedKind
<1>7. QED
  BY <1>1, <1>2, <1>3, <1>4, <1>5, <1>6 DEF RecordNextEvent, SeqNextEvent, Surface, Coalesce

\* A call of the iterator stays in the tag and moves on, ends, or has an empty key
\* before it.
LEMMA AnswerStays ==
  ASSUME CursorInv, AtStartTag
  PROVE  /\ Answer(attrPos).pos \in 1 .. Len(Attrs) + 1
         /\ \/ Answer(attrPos).pos > attrPos
            \/ Answer(attrPos).kind = "none"
            \/ Attrs[attrPos] = "="
<1>1. PICK buf : buf = Attrs /\ buf \in Seq(Range(buf)) /\ Len(buf) \in Nat
  BY AttrsFacts DEF CursorInv
<1>2. PICK p \in 1 .. Len(buf) + 1 : p = attrPos
  BY <1>1 DEF CursorInv
<1>3. PICK known : Answer(p) = AttrNext(buf, p, known)
  BY <1>1 DEF Answer
<1>4. /\ Answer(p).pos \in p .. Len(buf) + 1
      /\ Answer(p).pos > p \/ Answer(p).kind = "none" \/ buf[p] = "="
  BY <1>1, <1>2, <1>3, AttrNextFacts
<1>5. \A x \in p .. Len(buf) + 1 : x \in 1 .. Len(buf) + 1
  BY <1>1, <1>2
<1>6. QED
  BY <1>1, <1>2, <1>4, <1>5

\* Before the first call the caller has no event and the iterator no answer.
LEMMA CursorInvInit ==
  ASSUME Init
  PROVE  CursorInv
<1>1. ReaderInv
  BY ResetEstablishesInv DEF Init
<1>2. delivered = <<>>
  BY DEF Init, RecordInit, SeqInit, Reset
<1>3. QED
  BY <1>1, <1>2 DEF Init, CursorInv, AtStartTag

\* Every step of the caller keeps the invariant.
LEMMA CursorInvStep ==
  ASSUME CursorInv, [Next]_vars
  PROVE  CursorInv'
<1>1. ReaderInv
  BY DEF CursorInv
<1>2. CASE NextEvent
  <2>1. ReaderInv'
    BY <1>1, <1>2, ReaderStepKeepsInv DEF NextEvent
  <2>2. pc' = "surface" /\ attrPos' = 1 /\ answers' = {}
    BY <1>2 DEF NextEvent, Call
  <2>3. QED
    BY <2>1, <2>2 DEF CursorInv, AtStartTag
<1>3. CASE (RecordNextEvent \/ SeqNextEvent) /\ UNCHANGED attrVars
  <2>1. ReaderInv'
    BY <1>1, <1>3, ReaderStepKeepsInv
  <2>2. pc # "idle" /\ (AtStartTag' => KindOf(ev)' = "start")
    BY <1>1, <1>3, TagInHand
  <2>3. attrPos' = 1 /\ answers' = {}
    BY <1>3, <2>2 DEF CursorInv, AtStartTag, attrVars
  <2>4. KindOf(ev)' = "start" => Len(Attrs)' \in Nat
    <3>1. PICK source, e : source = events' /\ e = ev'
      OBVIOUS
    <3>2. source \in Sources /\ e \in 0 .. at' /\ at' \in 0 .. Len(source)
      BY <2>1, <3>1 DEF ReaderInv, ReaderOK
    <3>3. Len(source) \in Nat
      BY <3>2, SourcesAssumption
    <3>4. ASSUME KindOf(ev)' = "start"
          PROVE  e \in 1 .. Len(source) /\ source[e].kind = "start"
      <4>1. e # 0 /\ source[e].kind = "start"
        BY <3>1, <3>4 DEF KindOf, NoEvent
      <4>2. QED
        BY <3>2, <3>3, <4>1
    <3>5. QED
      BY <3>1, <3>2, <3>4, TagAttrs DEF Attrs
  <2>5. AtStartTag' => attrPos' \in 1 .. Len(Attrs)' + 1
    BY <2>2, <2>3, <2>4
  <2>6. QED
    BY <2>1, <2>2, <2>3, <2>5 DEF CursorInv
<1>4. CASE NextAttr
  <2>1. AtStartTag /\ attrPos' = Answer(attrPos).pos /\ UNCHANGED eventVars
    BY <1>4 DEF NextAttr
  <2>2. ReaderInv'
    BY <1>1, <2>1, StutterKeepsInv
  <2>3. UNCHANGED <<events, pc, ev, delivered>>
    BY <2>1 DEF eventVars
  <2>4. AtStartTag' = AtStartTag /\ Attrs' = Attrs /\ KindOf(ev)' = KindOf(ev)
    BY <2>3 DEF AtStartTag, Attrs, KindOf
  <2>5. attrPos' \in 1 .. Len(Attrs) + 1
    BY <2>1, AnswerStays
  <2>6. QED
    BY <2>1, <2>2, <2>4, <2>5 DEF CursorInv
<1>5. CASE UNCHANGED vars
  <2>1. UNCHANGED eventVars /\ UNCHANGED <<attrPos, answers>>
    BY <1>5 DEF vars, attrVars
  <2>2. ReaderInv'
    BY <1>1, <2>1, StutterKeepsInv
  <2>3. UNCHANGED <<events, pc, ev, delivered>>
    BY <2>1 DEF eventVars
  <2>4. AtStartTag' = AtStartTag /\ Attrs' = Attrs /\ KindOf(ev)' = KindOf(ev)
    BY <2>3 DEF AtStartTag, Attrs, KindOf
  <2>5. QED
    BY <2>1, <2>2, <2>4 DEF CursorInv
<1>6. QED
  BY <1>2, <1>3, <1>4, <1>5 DEF Next, Reading, Done

\* The inductive invariant that the theorems below rest on.
THEOREM CursorInvariant == Spec => []CursorInv
<1>1. Init => CursorInv
  BY CursorInvInit
<1>2. CursorInv /\ [Next]_vars => CursorInv'
  BY CursorInvStep
<1>3. QED
  BY <1>1, <1>2, PTL DEF Spec

\* The reader holds at most the event it took last, and the iterator stays in its tag.
THEOREM CursorTypes == Spec => []TypeOK
<1>1. CursorInv => TypeOK
  BY DEF CursorInv, ReaderInv, TypeOK
<1>2. QED
  BY <1>1, CursorInvariant, PTL

\* For every source: merged runs, references, CDATA sections and tags come out as they
\* were declared, up to the first error.
THEOREM EventsAreExact == Spec => []EventsExact
<1>1. CursorInv => EventsExact
  BY DEF CursorInv, ReaderInv
<1>2. QED
  BY <1>1, CursorInvariant, PTL

\* A caller that goes on behind an error misses only what the error took with it.
THEOREM ErrorsTakeLittle == Spec => []LostOnlyBehindErrors
<1>1. ASSUME CursorInv PROVE LostOnlyBehindErrors
  <2>1. ReaderInv
    BY <1>1 DEF CursorInv
  <2>2. InOrder
    BY <2>1 DEF ReaderInv, LossInv
  <2>3. ASSUME pc \in {"idle", "done"},
               NEW k \in 1 .. at \ (DeliveredPlaces \cup {pending})
        PROVE  Excused(k)
    <3>1. PICK a \in Nat : a = at /\ pending \in {NoEvent, a}
      BY <2>1, PlaceFacts
    <3>2. cur = NoEvent /\ Held = Ahead
      BY <2>1, <2>3, PlaceFacts DEF Held
    <3>3. Held = IF pending # NoEvent THEN a ELSE a + 1
      BY <3>1, <3>2 DEF Ahead
    <3>4. k \in 1 .. a /\ k # pending
      BY <2>3, <3>1
    <3>5. PICK h : h = Held /\ k \in 1 .. h - 1
      BY <3>1, <3>3, <3>4
    <3>6. QED
      BY <2>1, <2>3, <3>5 DEF ReaderInv, LossInv
  <2>4. QED
    BY <2>2, <2>3 DEF LostOnlyBehindErrors
<1>2. CursorInv => LostOnlyBehindErrors
  BY <1>1
<1>3. QED
  BY <1>2, CursorInvariant, PTL

\* Whatever bytes a tag holds, only a missing key can hold the iterator in place.
THEOREM OnlyEmptyKeysHang == Spec => []StuckOnlyAtEmptyKey
<1>1. CursorInv => StuckOnlyAtEmptyKey
  BY AnswerStays DEF StuckOnlyAtEmptyKey
<1>2. QED
  BY <1>1, CursorInvariant, PTL
-------------------------------------------------------------------------------
(***************************************************************************)
(* What has been yielded, and what the scanner finds in the rest.          *)
(***************************************************************************)
\* A function, as what the scanner captures is.
IsMap(ns) == ns = [p \in DOMAIN ns |-> ns[p]]

\* The declarations of a tag, of which some have been yielded and the others are left.
Split(all, given, left) ==
    /\ DOMAIN all = DOMAIN left \cup {p \in Range(PrefixOf) : Declaring(p, given) # {}}
    /\ \A p \in DOMAIN left : all[p] = left[p]
    /\ \A p \in Range(PrefixOf) \ DOMAIN left :
         Declaring(p, given) # {} =>
            \E a \in Declaring(p, given) :
                all[p] = a.value /\ \A b \in Declaring(p, given) : b.pos <= a.pos
    /\ IsMap(left) => IsMap(all)

\* Every answer was given before the place that the iterator has reached.
AnswersInv == \A a \in answers : a.pos \in 1 .. attrPos

\* No two attributes end at the same place.
OnePerPlace ==
    \A a, b \in answers : a.kind = "pair" /\ b.kind = "pair" /\ a.pos = b.pos => a = b

\* What is left of the tag is what the scanner finds from the iterator's place on.
AgreeInv ==
    AtStartTag /\ ScanEnds(1) =>
        /\ ScanEnds(attrPos)
        /\ OnePerPlace
        /\ "malformed" \notin Kinds
        /\ Kinds \subseteq {"pair", "none"} =>
             /\ Split(Scanned(1).ns, answers, Scanned(attrPos).ns)
             /\ "none" \in Kinds => Scanned(attrPos).ns = <<>>

\* One more declaration has been yielded.
LEMMA SplitGoesOn ==
  ASSUME NEW all, NEW given, NEW left, NEW rest, NEW a, Split(all, given, left),
         a.kind = "pair", a.pos \in Nat, \A b \in given : b.pos \in Nat /\ b.pos <= a.pos,
         left = IF DeclaresNs(a.key) THEN DeclaredBefore(rest, PrefixOf[a.key[1]], a.value)
                ELSE rest
  PROVE  Split(all, given \cup {a}, rest)
<1>1. \A p : Declaring(p, given \cup {a}) =
               Declaring(p, given) \cup {b \in {a} : DeclaresNs(a.key) /\ PrefixOf[a.key[1]] = p}
  BY DEF Declaring, DeclaresNs
<1>2. CASE ~DeclaresNs(a.key)
  <2>1. \A p : Declaring(p, given \cup {a}) = Declaring(p, given)
    BY <1>1, <1>2
  <2>2. left = rest
    BY <1>2
  <2>3. QED
    BY <2>1, <2>2, Zenon DEF Split
<1>3. CASE DeclaresNs(a.key)
  <2>1. PICK prefix : prefix = PrefixOf[a.key[1]] /\ prefix \in Range(PrefixOf)
    BY <1>3 DEF DeclaresNs, Range
  <2>2. left = DeclaredBefore(rest, prefix, a.value)
    BY <1>3, <2>1
  <2>3. /\ DOMAIN left = {prefix} \cup DOMAIN rest
        /\ \A p \in DOMAIN rest : left[p] = rest[p]
        /\ prefix \notin DOMAIN rest => left[prefix] = a.value
        /\ IsMap(left)
    BY <2>2 DEF DeclaredBefore, IsMap
  <2>4. /\ Declaring(prefix, given \cup {a}) = Declaring(prefix, given) \cup {a}
        /\ \A p : p # prefix => Declaring(p, given \cup {a}) = Declaring(p, given)
    <3>1. \A p : {b \in {a} : DeclaresNs(a.key) /\ PrefixOf[a.key[1]] = p} =
                  IF p = prefix THEN {a} ELSE {}
      BY <1>3, <2>1
    <3>2. QED
      BY <1>1, <3>1
  <2>5. {p \in Range(PrefixOf) : Declaring(p, given \cup {a}) # {}} =
             {prefix} \cup {p \in Range(PrefixOf) : Declaring(p, given) # {}}
    BY <2>1, <2>4
  <2>6. DOMAIN all = DOMAIN rest \cup {p \in Range(PrefixOf) : Declaring(p, given \cup {a}) # {}}
    BY <2>3, <2>5 DEF Split
  <2>7. \A p \in DOMAIN rest : all[p] = rest[p]
    BY <2>3 DEF Split
  <2>8. ASSUME NEW p \in Range(PrefixOf) \ DOMAIN rest, Declaring(p, given \cup {a}) # {}
        PROVE  \E c \in Declaring(p, given \cup {a}) :
                  /\ all[p] = c.value
                  /\ \A b \in Declaring(p, given \cup {a}) : b.pos <= c.pos
    <3>1. CASE p = prefix
      <4>1. all[p] = a.value
        BY <2>3, <2>8, <3>1 DEF Split
      <4>2. \A b \in Declaring(p, given) : b.pos <= a.pos
        BY DEF Declaring
      <4>3. a.pos <= a.pos
        OBVIOUS
      <4>4. QED
        BY <2>4, <3>1, <4>1, <4>2, <4>3, Zenon
    <3>2. CASE p # prefix
      <4>1. p \notin DOMAIN left /\ Declaring(p, given \cup {a}) = Declaring(p, given)
        BY <2>3, <2>4, <2>8, <3>2
      <4>2. p \in Range(PrefixOf) \ DOMAIN left /\ Declaring(p, given) # {}
        BY <2>8, <4>1
      <4>3. QED
        BY <4>1, <4>2, Zenon DEF Split
    <3>3. QED
      BY <3>1, <3>2
  <2>9. IsMap(all)
    BY <2>3 DEF Split
  <2>10. QED
    BY <2>6, <2>7, <2>8, <2>9, Zenon DEF Split
<1>4. QED
  BY <1>2, <1>3

\* An answer that is no attribute declares nothing.
LEMMA SplitStays ==
  ASSUME NEW all, NEW given, NEW left, NEW a, Split(all, given, left), a.kind # "pair"
  PROVE  Split(all, given \cup {a}, left)
<1>1. \A p : Declaring(p, given \cup {a}) = Declaring(p, given)
  BY DEF Declaring
<1>2. QED
  BY <1>1, Zenon DEF Split

\* When nothing is left, what has been yielded is all.
LEMMA SplitComplete ==
  ASSUME Split(Scanned(1).ns, answers, <<>>), AnswersInv, OnePerPlace, attrPos \in Nat
  PROVE  Declared = Scanned(1).ns
<1> DEFINE all == Scanned(1).ns
           of(p) == Declaring(p, answers)
           D == {p \in Range(PrefixOf) : of(p) # {}}
           last(p) == CHOOSE a \in of(p) : \A b \in of(p) : b.pos <= a.pos
<1> HIDE DEF all
<1>1. DOMAIN <<>> = {} /\ IsMap(<<>>)
  BY DEF IsMap
<1>2. DOMAIN all = D /\ IsMap(all)
  BY <1>1 DEF Split, all
<1>3. ASSUME NEW p \in D PROVE all[p] = last(p).value
  <2>1. \E a \in of(p) : all[p] = a.value /\ \A b \in of(p) : b.pos <= a.pos
    BY <1>1, <1>3 DEF Split, all
  <2>2. PICK a \in of(p) : all[p] = a.value /\ \A b \in of(p) : b.pos <= a.pos
    BY <2>1
  <2>3. PICK c : c = last(p)
    OBVIOUS
  <2>4. c \in of(p) /\ \A b \in of(p) : b.pos <= c.pos
    BY <2>2, <2>3, Zenon
  <2>5. c.pos <= a.pos /\ a.pos <= c.pos
    BY <2>2, <2>4
  <2>6. a \in answers /\ c \in answers /\ a.kind = "pair" /\ c.kind = "pair"
    BY <2>2, <2>4 DEF Declaring
  <2>7. a.pos \in Nat /\ c.pos \in Nat
    BY <2>6 DEF AnswersInv
  <2>8. a.pos = c.pos
    BY <2>5, <2>7
  <2>9. a = c
    BY <2>6, <2>8 DEF OnePerPlace
  <2>10. QED
    BY <2>2, <2>3, <2>9
<1>4. all = [p \in D |-> last(p).value]
  BY <1>2, <1>3 DEF IsMap
<1>5. QED
  BY <1>4, Zenon DEF Declared, all

\* Before the first call nothing has been yielded and all is left.
LEMMA FreshAgrees ==
  ASSUME attrPos' = 1, answers' = {}
  PROVE  AnswersInv' /\ AgreeInv'
<1>1. \A all : Split(all, {}, all)
  <2>1. \A p : Declaring(p, {}) = {}
    BY DEF Declaring
  <2>2. QED
    BY <2>1, Zenon DEF Split
<1>2. AnswersInv'
  BY DEF AnswersInv
<1>3. Kinds' = {}
  BY DEF Kinds
<1>4. ScanEnds(attrPos)' = ScanEnds(1)' /\ Scanned(attrPos)' = Scanned(1)'
  BY DEF ScanEnds, Scanned, Attrs
<1>5. Split(Scanned(1).ns, answers, Scanned(attrPos).ns)'
  <2>1. Split(Scanned(1)'.ns, {}, Scanned(1)'.ns)
    BY <1>1
  <2>2. QED
    BY <1>4, <2>1 DEF Split, Declaring
<1>6. QED
  BY <1>2, <1>3, <1>4, <1>5 DEF AgreeInv, OnePerPlace

\* A call of the iterator yields what the scanner finds next.
LEMMA NextAttrAgrees ==
  ASSUME CursorInv, AnswersInv, AgreeInv, NextAttr
  PROVE  AnswersInv' /\ AgreeInv'
<1>1. PICK buf : buf = Attrs /\ buf \in Seq(Range(buf)) /\ Len(buf) \in Nat
  BY AttrsFacts DEF CursorInv, NextAttr
<1>2. PICK p \in 1 .. Len(buf) + 1 : p = attrPos
  BY <1>1 DEF CursorInv, NextAttr
<1>3. PICK a : a = Answer(p)
  OBVIOUS
<1>4. attrPos' = a.pos /\ answers' = answers \cup {a} /\ AtStartTag /\ UNCHANGED eventVars
  BY <1>2, <1>3 DEF NextAttr
<1>5. PICK known : a = AttrNext(buf, p, known)
  BY <1>1, <1>3 DEF Answer
<1>6. a.pos \in p .. Len(buf) + 1 /\ p \in Nat /\ a.pos \in Nat
  <2>1. AttrNext(buf, p, known).pos \in p .. Len(buf) + 1
    BY <1>1, AttrNextFacts
  <2>2. QED
    BY <1>1, <1>5, <2>1
<1>7. \A b \in answers : b.pos \in 1 .. p
  BY <1>2 DEF AnswersInv
<1>8. \A b \in answers' : b.pos \in 1 .. attrPos'
  <2>1. ASSUME NEW b \in answers PROVE b.pos \in 1 .. a.pos
    BY <1>6, <1>7
  <2>2. a.pos \in 1 .. a.pos
    BY <1>6
  <2>3. QED
    BY <1>4, <2>1, <2>2
<1>9. AnswersInv'
  BY <1>8 DEF AnswersInv
<1>10. /\ Attrs' = Attrs /\ AtStartTag' = AtStartTag
       /\ \A x : Scanned(x)' = Scanned(x)
  BY <1>4 DEF eventVars, Attrs, AtStartTag, Scanned
<1>11. ScanEnds(1)' = ScanEnds(1)
  BY <1>10 DEF ScanEnds
<1>12. CASE ~ScanEnds(1)
  BY <1>9, <1>11, <1>12 DEF AgreeInv
<1>13. CASE ScanEnds(1)
  <2> DEFINE full == buf \o <<">">>
             S == Range(buf) \cup {">"}
             all == Scanned(1).ns
             before == ScanAttrs(full, p, NeedsMore)
             behind == ScanAttrs(full, a.pos, NeedsMore)
  <2>1. /\ ScanEnds(attrPos) /\ OnePerPlace /\ "malformed" \notin Kinds
        /\ Kinds \subseteq {"pair", "none"} =>
             /\ Split(Scanned(1).ns, answers, Scanned(attrPos).ns)
             /\ "none" \in Kinds => Scanned(attrPos).ns = <<>>
    BY <1>4, <1>13 DEF AgreeInv
  <2>2. buf \in Seq(S) /\ full \in Seq(S) /\ UpToEnd(buf, full)
    <3>1. buf \in Seq(S) /\ <<">">> \in Seq(S) /\ Len(<<">">>) = 1
      BY <1>1
    <3>2. /\ full \in Seq(S) /\ Len(full) = Len(buf) + 1
          /\ \A k \in 1 .. Len(buf) : full[k] = buf[k]
          /\ full[Len(buf) + 1] = ">"
      BY <1>1, <3>1, ConcatProperties
    <3>3. QED
      BY <1>1, <3>1, <3>2 DEF UpToEnd, Grown
  <2>3. Scanned(p) = before /\ Scanned(a.pos) = behind
    BY <1>1 DEF Scanned
  <2>4. before.verdict = "at" /\ before.pos = Len(buf) + 2
    BY <1>1, <1>2, <2>1, <2>3 DEF ScanEnds
  <2>5. SameAttr(a, before, behind) /\ (a.kind # "none" => a.pos > p)
    <3> HIDE DEF full, S
    <3>1. /\ SameAttr(AttrNext(buf, p, known), before, ScanAttrs(full, AttrNext(buf, p, known).pos, NeedsMore))
          /\ AttrNext(buf, p, known).kind # "none" => AttrNext(buf, p, known).pos > p
      BY <2>2, <2>4, CallAgrees
    <3>2. QED
      BY <1>5, <3>1
  <2> HIDE DEF full, S, before, behind
  <2>6. Scanned(attrPos) = before /\ Scanned(attrPos)' = behind
    <3>1. PICK x : x = attrPos'
      OBVIOUS
    <3>2. Scanned(attrPos)' = Scanned(x)'
      BY <3>1 DEF Scanned, Attrs
    <3>3. QED
      BY <1>2, <1>4, <1>10, <2>3, <3>1, <3>2
  <2>7. a.kind \in {"none", "pair", "encoding", "entity"} /\ behind.verdict = "at" /\ behind.pos = before.pos
    BY <2>4, <2>5 DEF SameAttr
  <2>8. ScanEnds(attrPos)'
    BY <1>1, <1>10, <2>4, <2>6, <2>7 DEF ScanEnds
  <2>9. Kinds' = Kinds \cup {a.kind}
    BY <1>4 DEF Kinds
  <2>10. "malformed" \notin Kinds'
    BY <2>1, <2>7, <2>9
  <2>11. OnePerPlace'
    <3>1. ASSUME NEW b \in answers, NEW c \in answers', b.kind = "pair", c.kind = "pair", b.pos = c.pos
          PROVE  b = c
      <4>1. CASE c \in answers
        BY <2>1, <3>1, <4>1 DEF OnePerPlace
      <4>2. CASE c = a
        BY <1>6, <1>7, <2>5, <3>1, <4>2
      <4>3. QED
        BY <1>4, <4>1, <4>2
    <3>2. QED
      BY <1>4, <3>1 DEF OnePerPlace
  <2>12. Kinds' \subseteq {"pair", "none"} /\ "none" \in Kinds' => behind.ns = <<>>
    <3>1. CASE a.kind = "none"
      BY <2>5, <3>1 DEF SameAttr
    <3>2. CASE a.kind # "none"
      <4>1. SUFFICES ASSUME "none" \in Kinds, Kinds' \subseteq {"pair", "none"}
                     PROVE  behind.ns = <<>>
        BY <2>9, <3>2
      <4>2. before.ns = <<>> /\ a.kind = "pair"
        BY <2>1, <2>6, <2>9, <3>2, <4>1
      <4>3. before.ns = IF DeclaresNs(a.key)
                        THEN DeclaredBefore(behind.ns, PrefixOf[a.key[1]], a.value)
                        ELSE behind.ns
        BY <2>5, <4>2 DEF SameAttr
      <4>4. \A ns, prefix, uri : DOMAIN DeclaredBefore(ns, prefix, uri) # DOMAIN <<>>
        BY DEF DeclaredBefore
      <4>5. \A ns, prefix, uri : DeclaredBefore(ns, prefix, uri) # <<>>
        BY <4>4, Zenon
      <4>6. QED
        BY <4>2, <4>3, <4>5, Zenon
    <3>3. QED
      BY <3>1, <3>2
  <2>13. Kinds' \subseteq {"pair", "none"} => Split(all, answers', behind.ns)
    <3>1. SUFFICES ASSUME Kinds' \subseteq {"pair", "none"} PROVE Split(all, answers', behind.ns)
      OBVIOUS
    <3>2. Split(all, answers, before.ns)
      BY <2>1, <2>6, <2>9, <3>1
    <3> HIDE DEF all
    <3>3. CASE a.kind = "none"
      <4>1. behind.ns = before.ns
        BY <2>5, <3>3 DEF SameAttr
      <4>2. QED
        BY <1>4, <3>2, <3>3, <4>1, SplitStays
    <3>4. CASE a.kind = "pair"
      <4>1. before.ns = IF DeclaresNs(a.key)
                        THEN DeclaredBefore(behind.ns, PrefixOf[a.key[1]], a.value)
                        ELSE behind.ns
        BY <2>5, <3>4 DEF SameAttr
      <4>2. \A b \in answers : b.pos \in Nat /\ b.pos <= a.pos
        BY <1>6, <1>7
      <4>3. QED
        BY <1>4, <1>6, <3>2, <3>4, <4>1, <4>2, SplitGoesOn
    <3>5. QED
      BY <2>9, <3>1, <3>3, <3>4
  <2>14. Scanned(1)' = Scanned(1) /\ Scanned(attrPos)' = behind
    BY <1>10, <2>6
  <2>15. QED
    BY <1>9, <2>8, <2>10, <2>11, <2>12, <2>13, <2>14 DEF AgreeInv
<1>14. QED
  BY <1>12, <1>13

\* Every step of the caller keeps what iterator and scanner have in common.
LEMMA AgreeStep ==
  ASSUME CursorInv, AnswersInv, AgreeInv, [Next]_vars
  PROVE  AnswersInv' /\ AgreeInv'
<1>1. CASE NextEvent
  BY <1>1, FreshAgrees DEF NextEvent
<1>2. CASE (RecordNextEvent \/ SeqNextEvent) /\ UNCHANGED attrVars
  <2>1. pc # "idle"
    BY <1>2, TagInHand DEF CursorInv
  <2>2. attrPos' = 1 /\ answers' = {}
    BY <1>2, <2>1 DEF CursorInv, AtStartTag, attrVars
  <2>3. QED
    BY <2>2, FreshAgrees
<1>3. CASE NextAttr
  BY <1>3, NextAttrAgrees
<1>4. CASE UNCHANGED vars
  <2>1. UNCHANGED <<events, pc, ev, delivered, attrPos, answers>>
    BY <1>4 DEF vars, eventVars, attrVars
  <2>2. /\ AtStartTag' = AtStartTag /\ Attrs' = Attrs /\ Kinds' = Kinds
        /\ AnswersInv' = AnswersInv /\ OnePerPlace' = OnePerPlace
    BY <2>1 DEF AtStartTag, Attrs, Kinds, AnswersInv, OnePerPlace
  <2>3. /\ Scanned(1)' = Scanned(1) /\ Scanned(attrPos)' = Scanned(attrPos)
        /\ ScanEnds(1)' = ScanEnds(1) /\ ScanEnds(attrPos)' = ScanEnds(attrPos)
    BY <2>1, <2>2 DEF Scanned, ScanEnds
  <2>4. QED
    BY <2>1, <2>2, <2>3 DEF AgreeInv
<1>5. QED
  BY <1>1, <1>2, <1>3, <1>4 DEF Next, Reading, Done

\* What the iterator has yielded and what is left of the tag are together what the
\* scanner captured, after every call and behind every error of a value.
THEOREM AgreeInvariant == Spec => [](AnswersInv /\ AgreeInv)
<1>1. Init => AnswersInv /\ AgreeInv
  <2>1. Init => delivered = <<>> /\ attrPos = 1 /\ answers = {}
    BY DEF Init, RecordInit, SeqInit, Reset
  <2>2. QED
    BY <2>1 DEF AnswersInv, AgreeInv, AtStartTag
<1>2. (AnswersInv /\ AgreeInv) /\ CursorInv /\ [Next]_vars => (AnswersInv /\ AgreeInv)'
  BY AgreeStep
<1>3. QED
  BY <1>1, <1>2, CursorInvariant, PTL DEF Spec

\* The two readers of attributes agree on every tag, whatever its bytes: where
\* scan_attrs_xmlns comes to the tag's end, AttrIter meets no malformed attribute, and
\* yields at its end the namespaces that the records were given.
THEOREM AttributesAgree == Spec => []AttrsAgree
<1>1. CursorInv /\ AnswersInv /\ AgreeInv => AttrsAgree
  <2>1. SUFFICES ASSUME CursorInv, AnswersInv, AgreeInv, AtStartTag, ScanEnds(1)
                 PROVE  /\ "malformed" \notin Kinds
                        /\ "none" \in Kinds /\ Kinds \subseteq {"pair", "none"} =>
                              Declared = Scanned(1).ns
    BY DEF AttrsAgree
  <2>2. "malformed" \notin Kinds /\ OnePerPlace
    BY <2>1 DEF AgreeInv
  <2>3. ASSUME "none" \in Kinds, Kinds \subseteq {"pair", "none"}
        PROVE  Declared = Scanned(1).ns
    <3>1. Split(Scanned(1).ns, answers, <<>>)
      BY <2>1, <2>3 DEF AgreeInv
    <3>2. attrPos \in Nat
      BY <2>1 DEF CursorInv
    <3>3. QED
      BY <2>1, <2>2, <3>1, <3>2, SplitComplete
  <2>4. QED
    BY <2>2, <2>3
<1>2. QED
  BY <1>1, CursorInvariant, AgreeInvariant, PTL
===============================================================================
