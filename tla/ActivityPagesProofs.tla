------------------------ MODULE ActivityPagesProofs ------------------------
(***************************************************************************)
(* Proofs about ActivityPages, for every feed, every set of limits and     *)
(* every cursor a client makes up.                                         *)
(***************************************************************************)
EXTENDS ActivityPages, SequenceTheorems, TLAPS

-----------------------------------------------------------------------------
(* Cursors                                                                 *)

\* What the texts of the service's own cursors are made of.  The literals are
\* named so that the provers see them as members of one set.
Part == {"gh-activity", "v2", ""} \union Nat

LEMMA Prefixed ==
    ASSUME NEW S, NEW e \in S, NEW s \in Seq(S)
    PROVE  /\ <<e>> \o s \in Seq(S)
           /\ Len(<<e>> \o s) = Len(s) + 1
           /\ Head(<<e>> \o s) = e /\ Tail(<<e>> \o s) = s
  <1> DEFINE text == <<e>> \o s
  <1>1. <<e>> \in Seq(S) /\ Len(<<e>>) = 1 /\ <<e>>[1] = e /\ Len(s) \in Nat
    OBVIOUS
  <1>2. /\ text \in Seq(S) /\ Len(text) = Len(s) + 1
        /\ \A i \in 1..(Len(s) + 1) :
              text[i] = IF i <= 1 THEN <<e>>[i] ELSE s[i - 1]
    BY <1>1, ConcatProperties
  <1> HIDE DEF text
  <1>3. text # <<>> /\ text[1] = e
    BY <1>1, <1>2
  <1>4. Head(text) = e
    BY <1>2, <1>3
  <1>5. /\ Tail(text) \in Seq(S) /\ Len(Tail(text)) = Len(text) - 1
        /\ \A i \in 1..Len(Tail(text)) : Tail(text)[i] = text[i + 1]
    BY <1>2, <1>3, HeadTailProperties
  <1>6. \A i \in 1..Len(s) : Tail(text)[i] = s[i]
    BY <1>1, <1>2, <1>5
  <1>7. Tail(text) = s
    BY <1>1, <1>2, <1>5, <1>6, SeqEqual
  <1> QED
    BY <1>2, <1>4, <1>7 DEF text

LEMMA Two ==
    ASSUME NEW S, NEW a \in S, NEW b \in S
    PROVE  <<a, b>> \in Seq(S) /\ Len(<<a, b>>) = 2 /\ <<a, b>>[2] = b
  OBVIOUS

\* The cursor of an event of the upstream.
AfterNames(n) ==
    /\ After(n) \in Seq(Part) /\ Len(After(n)) = 2 /\ After(n)[2] = n
    /\ After(n) # NoValue

LEMMA AfterIsValue == \A n \in Nat : AfterNames(n)
  <1> SUFFICES ASSUME NEW n \in Nat PROVE AfterNames(n)
    OBVIOUS
  <1>1. "v2" \in Part /\ n \in Part
    BY DEF Part
  <1>2. <<"v2", n>> \in Seq(Part) /\ Len(<<"v2", n>>) = 2 /\ <<"v2", n>>[2] = n
    BY Zenon, <1>1, Two
  <1>3. Len(NoValue) = 1
    BY DEF NoValue
  <1> QED
    BY <1>2, <1>3 DEF After, AfterNames

\* A cursor the service makes of an event is one it takes back.
OwnIsServed(n) ==
    /\ Own(n) # NoCursor
    /\ DecodeCursor(Own(n)).value = After(n)
    /\ Accepts(Own(n), CursorType)

LEMMA OwnDecodes == \A n \in Nat : OwnIsServed(n)
  <1> SUFFICES ASSUME NEW n \in Nat PROVE OwnIsServed(n)
    OBVIOUS
  <1> DEFINE value == After(n)
             text == <<CursorType>> \o value
  <1>1. value \in Seq(Part) /\ Len(value) = 2
    BY AfterIsValue DEF AfterNames
  <1>2. CursorType \in Part
    BY DEF CursorType, Part
  <1> HIDE DEF value
  <1>3. /\ Len(text) = 3
        /\ Head(text) = CursorType /\ Tail(text) = value
    <2>1. /\ Len(text) = Len(value) + 1
          /\ Head(text) = CursorType /\ Tail(text) = value
      BY Zenon, <1>1, <1>2, Prefixed
    <2> QED
      BY <1>1, <2>1
  <1>4. Own(n) = [plain |-> TRUE, base64 |-> TRUE, text |-> text]
    BY DEF Own, Encode, value
  <1> HIDE DEF text
  <1>5. Own(n) # NoCursor
    BY <1>3, <1>4 DEF NoCursor
  <1>6. DecodeCursor(Own(n)) = [type |-> CursorType, value |-> value]
    <2>1. Own(n).text = text
      BY <1>4
    <2> QED
      BY <1>3, <1>5, <2>1 DEF DecodeCursor
  <1>7. Decodes(Own(n))
    <2>1. Own(n).text = text /\ Own(n).base64
      BY <1>4
    <2>2. Len(Own(n).text) >= 2
      <3>1. Len(Own(n).text) = 3
        BY Zenon, <1>3, <2>1
      <3> QED
        BY <3>1
    <2> QED
      BY Zenon, <2>1, <2>2 DEF Decodes
  <1> QED
    BY <1>5, <1>6, <1>7 DEF Accepts, OwnIsServed, value
-----------------------------------------------------------------------------
(* Events, newest first                                                    *)

\* The n events from t down.
Down(t, n) == [i \in 1..n |-> t - i + 1]

LEMMA DownIs ==
    ASSUME NEW t \in Int, NEW n \in Nat
    PROVE  /\ Down(t, n) \in Seq(Int) /\ Len(Down(t, n)) = n
           /\ \A i \in 1..n : Down(t, n)[i] = t - i + 1
  BY DEF Down

LEMMA DownConcat ==
    ASSUME NEW t \in Int, NEW n \in Nat, NEW m \in Nat
    PROVE  Down(t, n) \o Down(t - n, m) = Down(t, n + m)
  <1> DEFINE a == Down(t, n)
             b == Down(t - n, m)
             c == Down(t, n + m)
  <1>1. /\ a \in Seq(Int) /\ Len(a) = n
        /\ \A i \in 1..n : a[i] = t - i + 1
    BY DownIs
  <1>2. t - n \in Int /\ n + m \in Nat
    OBVIOUS
  <1>3. /\ b \in Seq(Int) /\ Len(b) = m
        /\ \A i \in 1..m : b[i] = t - n - i + 1
    BY <1>2, DownIs
  <1>4. /\ c \in Seq(Int) /\ Len(c) = n + m
        /\ \A i \in 1..(n + m) : c[i] = t - i + 1
    BY <1>2, DownIs
  <1> HIDE DEF a, b, c
  <1>5. /\ a \o b \in Seq(Int) /\ Len(a \o b) = n + m
        /\ \A i \in 1..(n + m) :
              (a \o b)[i] = IF i <= n THEN a[i] ELSE b[i - n]
    <2>1. a \in Seq(Int) /\ b \in Seq(Int) /\ Len(a) = n /\ Len(b) = m
      BY <1>1, <1>3
    <2>2. /\ a \o b \in Seq(Int) /\ Len(a \o b) = Len(a) + Len(b)
          /\ \A i \in 1..(Len(a) + Len(b)) :
                (a \o b)[i] = IF i <= Len(a) THEN a[i] ELSE b[i - Len(a)]
      BY <2>1, ConcatProperties
    <2> QED
      BY <2>1, <2>2
  <1>6. ASSUME NEW i \in 1..(n + m) PROVE (a \o b)[i] = c[i]
    <2>1. CASE i <= n
      BY <1>1, <1>4, <1>5, <2>1
    <2>2. CASE ~(i <= n)
      <3>1. i - n \in 1..m /\ t - n - (i - n) + 1 = t - i + 1
        BY <2>2
      <3> QED
        BY <1>3, <1>4, <1>5, <2>2, <3>1
    <2> QED
      BY <2>1, <2>2
  <1>7. a \o b = c
    BY <1>4, <1>5, <1>6, SeqEqual
  <1> QED
    BY <1>7 DEF a, b, c
-----------------------------------------------------------------------------
(* What the handler answers                                                *)

\* A cursor of an event starts below it, any other at the newest.
LEMMA Starts ==
    ASSUME newest \in 0..MaxEvents
    PROVE  /\ \A value : NewestAfter(value) \in 0..newest
           /\ \A n \in 1..MaxEvents :
                 NewestAfter(After(n)) = MinOf(newest, n - 1)
           /\ NewestAfter(NoValue) = newest
  <1>0. MaxEvents \in Nat /\ newest \in Nat
    BY ActivityAssumption
  <1>1. ASSUME NEW value PROVE NewestAfter(value) \in 0..newest
    <2> DEFINE named == {n \in 1..MaxEvents : After(n) = value}
    <2>1. CASE named = {}
      BY <1>0, <2>1 DEF NewestAfter
    <2>2. CASE named # {}
      <3> DEFINE k == CHOOSE n \in named : TRUE
      <3>1. k \in 1..MaxEvents
        BY <2>2
      <3>2. NewestAfter(value) = MinOf(newest, k - 1)
        BY <2>2 DEF NewestAfter
      <3> HIDE DEF k
      <3> QED
        BY <1>0, <3>1, <3>2 DEF MinOf
    <2> QED
      BY <2>1, <2>2
  <1>2. ASSUME NEW n \in 1..MaxEvents
        PROVE  NewestAfter(After(n)) = MinOf(newest, n - 1)
    <2>1. \A m \in 1..MaxEvents : After(m) = After(n) => m = n
      <3>1. \A m \in 1..MaxEvents : After(m)[2] = m
        BY AfterIsValue DEF AfterNames
      <3> QED
        BY <3>1
    <2> DEFINE named == {m \in 1..MaxEvents : After(m) = After(n)}
    <2>2. named = {n}
      BY <2>1
    <2>3. (CHOOSE m \in named : TRUE) = n /\ named # {}
      BY <2>2
    <2> QED
      BY <2>3 DEF NewestAfter
  <1>3. NewestAfter(NoValue) = newest
    <2>1. {n \in 1..MaxEvents : After(n) = NoValue} = {}
      BY AfterIsValue DEF AfterNames
    <2> QED
      BY <2>1 DEF NewestAfter
  <1> QED
    BY <1>1, <1>2, <1>3

\* A link to the next page is found wherever the header has a whole one.
LEMMA LinkIsFound ==
    ASSUME NEW events, More(events), NEW last \in Nat,
           events[Len(events)] = last,
           NEW header \in LinkHeaders(events)
    PROVE  ParseLinkHeader(header) = After(last)
  <1> DEFINE next == Link("next", After(last))
             prev == Link("prev", NoValue)
             good == {i \in DOMAIN header : /\ header[i].rel = "next"
                                            /\ header[i].brackets
                                            /\ header[i].after # NoValue}
  <1>1. /\ next.rel = "next" /\ next.brackets /\ next.after = After(last)
        /\ After(last) # NoValue
    BY AfterIsValue DEF Link, AfterNames
  <1>2. prev.rel # "next"
    BY DEF Link
  <1>3. \A cut \in CutLinks(After(last)) : ~cut.brackets \/ cut.after = NoValue
    BY DEF CutLinks, Link
  <1>4. \/ header \in {<<next>>, <<prev, next>>, <<next, prev>>}
        \/ \E cut \in CutLinks(After(last)) : header = <<cut, next>>
    BY <1>1 DEF LinkHeaders
  <1> HIDE DEF next, prev
  <1>5. (\A i \in good : header[i] = next) /\ good # {} /\ good \subseteq 1..2
    <2>1. CASE header \in {<<next>>, <<prev, next>>, <<next, prev>>}
      BY <1>1, <1>2, <2>1
    <2>2. ASSUME NEW cut \in CutLinks(After(last)), header = <<cut, next>>
          PROVE  (\A i \in good : header[i] = next) /\ good # {}
                 /\ good \subseteq 1..2
      <3>1. ~cut.brackets \/ cut.after = NoValue
        BY <1>3
      <3> QED
        BY <1>1, <2>2, <3>1
    <2> QED
      BY <1>4, <2>1, <2>2
  <1> HIDE DEF good
  <1>6. \E i \in good : \A j \in good : i <= j
    <2>1. ASSUME NEW G, G \subseteq 1..2, G # {}
          PROVE  \E i \in G : \A j \in G : i <= j
      <3>1. CASE 1 \in G
        BY <2>1, <3>1
      <3>2. CASE 1 \notin G
        <4>1. PICK j \in G : TRUE
          BY <2>1
        <4>2. \A i \in G : i = 2
          BY <2>1, <3>2
        <4>3. 2 \in G
          BY <4>1, <4>2
        <4>4. \A i \in G : 2 <= i
          BY <4>2
        <4> QED
          BY <4>3, <4>4
      <3> QED
        BY <3>1, <3>2
    <2> QED
      BY <1>5, <2>1
  <1>7. (CHOOSE i \in good : \A j \in good : i <= j) \in good
    BY <1>6
  <1> QED
    BY <1>1, <1>5, <1>7 DEF ParseLinkHeader, good

\* A header without a whole link to a next page makes no cursor.
LEMMA NoLinkIsFound ==
    ASSUME NEW events,
           NEW header \in LinkHeaders(events) \union CutHeaders(events),
           More(events) => header \in CutHeaders(events)
    PROVE  ParseLinkHeader(header) = NoValue
  <1> DEFINE prev == Link("prev", NoValue)
             cuts == CutLinks(After(events[Len(events)]))
             good == {i \in DOMAIN header : /\ header[i].rel = "next"
                                            /\ header[i].brackets
                                            /\ header[i].after # NoValue}
  <1>1. \/ header \in {<<>>, <<prev>>}
        \/ \E cut \in cuts : header = <<cut>>
    BY DEF LinkHeaders, CutHeaders
  <1>2. prev.rel # "next"
    BY DEF Link
  <1>3. \A cut \in cuts : ~cut.brackets \/ cut.after = NoValue
    BY DEF CutLinks, Link
  <1> HIDE DEF prev, cuts
  <1>4. good = {}
    <2>1. CASE header \in {<<>>, <<prev>>}
      BY <1>2, <2>1
    <2>2. ASSUME NEW cut \in cuts, header = <<cut>> PROVE good = {}
      BY <1>3, <2>2
    <2> QED
      BY <1>1, <2>1, <2>2
  <1> QED
    BY <1>4 DEF ParseLinkHeader

\* Where a page leads: nowhere at the end of the feed or when the upstream's
\* link could not be read, to the event n otherwise.
LeadsTo(r, done, n) ==
    IF done THEN r.next = NoCursor
    ELSE r.next = Own(n) \/ (r.cut /\ r.next = NoCursor)

\* An answer without events, and the page of a limit from an event down.
Empty(r) == r.status # 200 /\ r.events = <<>> /\ r.next = NoCursor

PageFrom(r, from, limit) ==
    LET m == MinOf(limit, from)
    IN  /\ r.status = 200 /\ r.events = Down(from, m)
        /\ LeadsTo(r, m = from, from - m + 1)

\* A cursor of an event fits exactly when the upstream's has room.
OwnFits(n) == Fits(Own(n)) <=> ~(AfterLength[n] > Room)

LEMMA RoomIsRight == \A n \in 1..MaxEvents : OwnFits(n)
  <1> SUFFICES ASSUME NEW n \in 1..MaxEvents PROVE OwnFits(n)
    OBVIOUS
  <1>1. AfterLength[n] \in Nat /\ MaxEvents \in Nat
    BY ActivityAssumption
  <1>2. OwnLength(n) <= MaxCursorLength <=> ~(AfterLength[n] > Room)
    BY <1>1 DEF OwnLength, MaxCursorLength, Room
  <1>3. \A m \in 1..MaxEvents : Own(m).text = Own(n).text => m = n
    <2> SUFFICES ASSUME NEW m \in 1..MaxEvents, Own(m).text = Own(n).text
                 PROVE  m = n
      OBVIOUS
    <2>1. OwnIsServed(m) /\ OwnIsServed(n) /\ AfterNames(m) /\ AfterNames(n)
      BY <1>1, OwnDecodes, AfterIsValue
    <2>2. DecodeCursor(Own(m)).value = DecodeCursor(Own(n)).value
      BY <2>1 DEF OwnIsServed, DecodeCursor
    <2>3. After(m) = After(n)
      BY <2>1, <2>2 DEF OwnIsServed
    <2> QED
      BY <2>1, <2>3 DEF AfterNames
  <1>4. Fits(Own(n)) <=> OwnLength(n) <= MaxCursorLength
    BY <1>3 DEF Fits
  <1> QED
    BY <1>2, <1>4 DEF OwnFits

LEMMA Answers ==
    ASSUME newest \in 0..MaxEvents, NEW q, q.limit \in 1..100,
           NEW r \in Responses(q)
    PROVE  /\ \/ Empty(r)
              \/ PageFrom(r, NewestAfter(DecodeCursor(q.cursor).value), q.limit)
           /\ Accepts(q.cursor, CursorType) =>
                 /\ r.status \in {200, 422} \union Failures
                 /\ r.status = 422 <=> ~Fits(q.cursor)
  <1> DEFINE value == DecodeCursor(q.cursor).value
             from == NewestAfter(value)
             m == MinOf(q.limit, from)
             events == Events(value, q.limit)
  <1>1. from \in 0..newest /\ newest \in Nat
    BY ActivityAssumption, Starts
  <1>2. events = Down(from, m)
    BY DEF Events, Down
  <1>3. CASE ~Fits(q.cursor)
    <2>1. r = Failed(422)
      BY <1>3 DEF Responses
    <2> QED
      BY <1>3, <2>1 DEF Empty, Failed
  <1>4. CASE Fits(q.cursor) /\ ~Accepts(q.cursor, CursorType)
    <2>1. r = Failed(400)
      BY <1>4 DEF Responses
    <2> QED
      BY <1>4, <2>1 DEF Empty, Failed
  <1>5. ASSUME NEW status \in Failures, r = Failed(status)
        PROVE  Empty(r) /\ r.status \in Failures /\ r.status \notin {200, 422}
    BY <1>5 DEF Empty, Failed, Failures
  <1>6. ASSUME NEW header \in LinkHeaders(events) \union CutHeaders(events),
               r = [status |-> 200, events |-> events,
                    next |-> NextCursor(ParseLinkHeader(header)),
                    cut |-> header \in CutHeaders(events)]
        PROVE  r.status = 200 /\ PageFrom(r, from, q.limit)
    <2>1. /\ r.status = 200 /\ r.events = Down(from, m)
          /\ r.next = NextCursor(ParseLinkHeader(header))
          /\ r.cut = (header \in CutHeaders(events))
      BY <1>2, <1>6
    <2> HIDE DEF value, from
    <2>2. m \in 0..from /\ (from # 0 => m # 0) /\ from \in Nat
      BY <1>1 DEF MinOf
    <2> HIDE DEF m, events
    <2>3. Len(events) = m /\ \A i \in 1..m : events[i] = from - i + 1
      <3>1. from \in Int /\ m \in Nat
        BY <2>2
      <3>2. /\ Len(Down(from, m)) = m
            /\ \A i \in 1..m : Down(from, m)[i] = from - i + 1
        BY <3>1, DownIs
      <3> QED
        BY <1>2, <3>2
    <2>4. CASE header \in CutHeaders(events) \/ ~More(events)
      <3>1. ParseLinkHeader(header) = NoValue
        BY <2>4, NoLinkIsFound
      <3>2. r.next = NoCursor
        BY <2>1, <3>1 DEF NextCursor
      <3>3. m # from => More(events)
        <4>1. m # from => m \in 1..m /\ m # 0 /\ from - m + 1 # 1
          BY <2>2
        <4> QED
          BY <2>3, <4>1 DEF More
      <3>4. LeadsTo(r, m = from, from - m + 1)
        BY <2>1, <2>4, <3>2, <3>3 DEF LeadsTo
      <3> QED
        BY <2>1, <3>4 DEF PageFrom, m
    <2>5. CASE header \in LinkHeaders(events) /\ More(events)
      <3>1. m # 0 /\ m # from
        <4>1. m # 0
          BY <1>2, <2>5 DEF More, Down
        <4>2. m \in 1..m /\ events[m] # 1
          BY <2>2, <2>3, <2>5, <4>1 DEF More
        <4> QED
          BY <2>2, <2>3, <4>1, <4>2
      <3>2. events[Len(events)] = from - m + 1 /\ from - m + 1 \in Nat
        <4>1. m \in 1..m
          BY <2>2, <3>1
        <4> QED
          BY <2>2, <2>3, <4>1
      <3>3. ParseLinkHeader(header) = After(from - m + 1)
        BY <2>5, <3>2, LinkIsFound
      <3>4. After(from - m + 1) # NoValue
        BY <3>2, AfterIsValue DEF AfterNames
      <3>5. r.next = Own(from - m + 1)
        BY <2>1, <3>3, <3>4 DEF NextCursor, Own
      <3>6. LeadsTo(r, m = from, from - m + 1)
        BY <3>1, <3>5 DEF LeadsTo
      <3> QED
        BY <2>1, <3>6 DEF PageFrom, m
    <2> QED
      BY <2>4, <2>5
  <1>7. CASE Fits(q.cursor) /\ Accepts(q.cursor, CursorType)
    <2>1. \/ \E status \in Failures : r = Failed(status)
          \/ \E header \in LinkHeaders(events) \union CutHeaders(events) :
                r = [status |-> 200, events |-> events,
                     next |-> NextCursor(ParseLinkHeader(header)),
                     cut |-> header \in CutHeaders(events)]
      BY <1>7 DEF Responses
    <2> HIDE DEF value, from, events
    <2>2. CASE \E status \in Failures : r = Failed(status)
      BY <1>5, <1>7, <2>2
    <2>3. CASE \E header \in LinkHeaders(events) \union CutHeaders(events) :
                r = [status |-> 200, events |-> events,
                     next |-> NextCursor(ParseLinkHeader(header)),
                     cut |-> header \in CutHeaders(events)]
      <3>1. r.status = 200 /\ PageFrom(r, from, q.limit)
        BY <1>6, <2>3
      <3>2. r.status \in {200, 422} \union Failures /\ r.status # 422
        BY <3>1
      <3> QED
        BY <1>7, <3>1, <3>2 DEF from, value
    <2> QED
      BY <2>1, <2>2, <2>3
  <1> QED
    BY <1>3, <1>4, <1>7
-----------------------------------------------------------------------------
(* The inductive invariant                                                 *)

\* A link to a next page is the service's own cursor of an event that is not
\* the oldest.
LinkOK ==
    page.next # NoCursor =>
        page.status = 200 /\ \E n \in 2..newest : page.next = Own(n)

\* The walk has shown n events from its top down; what comes next is named by
\* the link, or by the query that failed, unless the upstream's link was lost.
WalkAt(n) ==
    /\ walk = Down(top, n)
    /\ page.status = 200 => LeadsTo(page, n = top, top - n + 1)
    /\ page.status # 200 =>
          /\ n # top /\ page.next = NoCursor
          /\ query.cursor = Own(top - n + 1)

WalkOK == top # 0 => top \in 1..newest /\ \E n \in 1..top : WalkAt(n)

IInv ==
    /\ newest \in 0..MaxEvents
    /\ query.limit \in Limits
    /\ LinkOK
    /\ WalkOK

\* The request asks for what the walk has not shown yet.
Pending(q) ==
    top # 0 => \E n \in 1..(top - 1) :
                  walk = Down(top, n) /\ q.cursor = Own(top - n + 1)
-----------------------------------------------------------------------------
(* What a step does                                                        *)

LEMMA MinIs ==
    ASSUME NEW limit \in 1..100, NEW from \in Nat
    PROVE  /\ MinOf(limit, from) \in 0..from
           /\ from # 0 => MinOf(limit, from) # 0
  BY DEF MinOf

\* Every answer gives out the service's own links only.
LEMMA LinkOfAnswer ==
    ASSUME newest \in 0..MaxEvents, NEW q, q.limit \in Limits, ListActivity(q)
    PROVE  newest' \in 0..MaxEvents /\ query'.limit \in Limits /\ LinkOK'
  <1> DEFINE from == NewestAfter(DecodeCursor(q.cursor).value)
             m == MinOf(q.limit, from)
  <1>1. /\ newest' = newest /\ query' = q /\ page' \in Responses(q)
        /\ q.limit \in 1..100 /\ newest \in Nat
    <2>1. q.limit \in 1..100 /\ newest \in Nat
      <3>1. Limits \subseteq 1..100 /\ MaxEvents \in Nat
        BY ActivityAssumption
      <3>2. q.limit \in 1..100
        BY Zenon, <3>1
      <3>3. newest \in Nat
        BY <3>1
      <3> QED
        BY <3>2, <3>3
    <2>2. newest' = newest /\ query' = q /\ page' \in Responses(q)
      BY DEF ListActivity
    <2> QED
      BY <2>1, <2>2
  <1>2. Empty(page') \/ PageFrom(page', from, q.limit)
    BY <1>1, Answers
  <1>3. from \in 0..newest
    BY Starts
  <1> HIDE DEF from
  <1>4. CASE Empty(page')
    BY <1>1, <1>4 DEF Empty, LinkOK
  <1>5. CASE PageFrom(page', from, q.limit)
    <2>1. m \in 0..from /\ (from # 0 => m # 0)
      <3>1. from \in Nat
        BY <1>1, <1>3
      <3> QED
        BY Zenon, <1>1, <3>1, MinIs
    <2>2. /\ page'.status = 200
          /\ LeadsTo(page', m = from, from - m + 1)
      BY <1>5 DEF PageFrom
    <2> HIDE DEF m
    <2>3. m # from => from - m + 1 \in 2..newest
      BY <1>1, <1>3, <2>1
    <2>4. page'.next # NoCursor =>
             \E n \in 2..newest : page'.next = Own(n)
      BY <2>2, <2>3 DEF LeadsTo
    <2> QED
      BY <1>1, <2>2, <2>4 DEF LinkOK
  <1> QED
    BY <1>1, <1>2, <1>4, <1>5

\* A first answer starts a walk at the newest event, if it is a page.
FirstOf(r, t) ==
    /\ r.status = 200
    /\ \E n \in 1..t : /\ r.events = Down(t, n)
                       /\ LeadsTo(r, n = t, t - n + 1)

LEMMA Starting ==
    ASSUME newest \in 0..MaxEvents, NEW limit \in Limits,
           NEW r \in Responses([limit |-> limit, cursor |-> NoCursor])
    PROVE  Empty(r) \/ (IF newest = 0 THEN r.next = NoCursor
                        ELSE FirstOf(r, newest))
  <1> DEFINE q == [limit |-> limit, cursor |-> NoCursor]
             m == MinOf(limit, newest)
  <1>1. /\ q.limit = limit /\ limit \in 1..100 /\ newest \in Nat
        /\ DecodeCursor(q.cursor).value = NoValue
    BY ActivityAssumption DEF DecodeCursor
  <1> HIDE DEF q
  <1>2. r \in Responses(q)
    BY DEF q
  <1>3. Empty(r) \/ PageFrom(r, NewestAfter(NoValue), limit)
    BY <1>1, <1>2, Answers
  <1>4. NewestAfter(NoValue) = newest
    BY Starts
  <1>5. CASE PageFrom(r, newest, limit)
    <2>1. /\ r.status = 200 /\ r.events = Down(newest, m)
          /\ LeadsTo(r, m = newest, newest - m + 1)
      BY <1>5 DEF PageFrom
    <2>2. m \in 0..newest /\ (newest # 0 => m # 0)
      BY Zenon, <1>1, MinIs
    <2> HIDE DEF m
    <2>3. CASE newest = 0
      BY <2>1, <2>2, <2>3 DEF LeadsTo
    <2>4. CASE newest # 0
      <3>1. m \in 1..newest
        BY <1>1, <2>2, <2>4
      <3> QED
        BY <2>1, <2>4, <3>1 DEF FirstOf
    <2> QED
      BY <2>3, <2>4
  <1> QED
    BY <1>3, <1>4, <1>5

\* Going on with a walk appends what comes next in the feed.
LEMMA Continues ==
    ASSUME IInv, NEW q, q.limit \in Limits, Pending(q), Continue(q)
    PROVE  WalkOK'
  <1>1. /\ newest' = newest /\ query' = q /\ page' \in Responses(q)
        /\ top' = top
        /\ top # 0 => walk' = walk \o page'.events
        /\ q.limit \in 1..100 /\ newest \in 0..MaxEvents /\ newest \in Nat
    <2>1. q.limit \in 1..100 /\ newest \in 0..MaxEvents /\ newest \in Nat
      <3>1. Limits \subseteq 1..100 /\ MaxEvents \in Nat
        BY ActivityAssumption
      <3>2. newest \in 0..MaxEvents
        BY DEF IInv
      <3>3. q.limit \in 1..100
        BY Zenon, <3>1
      <3>4. newest \in Nat
        BY <3>1, <3>2
      <3> QED
        BY <3>2, <3>3, <3>4
    <2>2. newest' = newest /\ query' = q /\ page' \in Responses(q)
      BY DEF Continue, ListActivity
    <2>3. top' = top /\ (top # 0 => walk' = walk \o page'.events)
      BY DEF Continue
    <2> QED
      BY <2>1, <2>2, <2>3
  <1>2. CASE top = 0
    BY <1>1, <1>2 DEF WalkOK
  <1>3. CASE top # 0
    <2>1. top \in 1..newest
      BY <1>3 DEF IInv, WalkOK
    <2>2. PICK n \in 1..(top - 1) :
             walk = Down(top, n) /\ q.cursor = Own(top - n + 1)
      BY <1>3 DEF Pending
    <2> PICK from : from = top - n
      OBVIOUS
    <2> DEFINE m == MinOf(q.limit, from)
    <2>3. /\ from + 1 \in 1..MaxEvents /\ from + 1 \in Nat
          /\ from \in 1..newest /\ from \in Nat
          /\ from = top - n /\ MinOf(newest, from + 1 - 1) = from
      BY ActivityAssumption, <1>1, <2>1, <2>2 DEF MinOf
    <2>4. q.cursor = Own(from + 1)
      BY <2>2
    <2>5. /\ DecodeCursor(q.cursor).value = After(from + 1)
          /\ Accepts(q.cursor, CursorType)
      BY <2>3, <2>4, OwnDecodes DEF OwnIsServed
    <2>6. NewestAfter(After(from + 1)) = from
      BY <1>1, <2>3, Starts
    <2>7. Empty(page') \/ PageFrom(page', from, q.limit)
      BY <1>1, <2>5, <2>6, Answers
    <2>8. CASE Empty(page')
      <3>1. /\ page'.status # 200 /\ page'.events = <<>>
            /\ page'.next = NoCursor
        BY <2>8 DEF Empty
      <3>2. walk' = Down(top, n)
        <4>1. n \in Nat /\ top \in Int
          BY <1>1, <2>1, <2>2
        <4>2. Down(top, n) \in Seq(Int)
          BY <4>1, DownIs
        <4>3. Down(top, n) \o <<>> = Down(top, n)
          BY <4>2, ConcatEmptySeq
        <4> QED
          BY <1>1, <1>3, <2>2, <3>1, <4>3
      <3>3. n \in 1..top /\ n # top
        BY <1>1, <2>1, <2>2
      <3>4. query'.cursor = Own(top' - n + 1)
        BY <1>1, <2>2
      <3> QED
        BY <1>1, <2>1, <3>1, <3>2, <3>3, <3>4 DEF WalkOK, WalkAt
    <2>9. CASE PageFrom(page', from, q.limit)
      <3>1. /\ page'.status = 200 /\ page'.events = Down(from, m)
            /\ LeadsTo(page', m = from, from - m + 1)
        BY <2>9 DEF PageFrom
      <3>2. m \in 0..from
        BY <1>1, <2>3, MinIs
      <3> HIDE DEF m
      <3>3. /\ n + m \in 1..top /\ (n + m = top) = (m = from)
            /\ from - m + 1 = top - (n + m) + 1
            /\ n \in Nat /\ m \in Nat /\ top \in Int
        BY <1>1, <2>1, <2>2, <2>3, <3>2
      <3>4. walk' = Down(top, n + m)
        <4>1. Down(top, n) \o Down(top - n, m) = Down(top, n + m)
          BY <3>3, DownConcat
        <4> QED
          BY <1>1, <1>3, <2>2, <2>3, <3>1, <4>1
      <3>5. LeadsTo(page', n + m = top, top - (n + m) + 1)
        BY <3>1, <3>3 DEF LeadsTo
      <3>6. WalkAt(n + m)'
        <4>1. top' = top /\ query' = q
          BY <1>1
        <4> QED
          BY <3>1, <3>4, <3>5, <4>1 DEF WalkAt, LeadsTo
      <3> QED
        BY <1>1, <2>1, <3>3, <3>6 DEF WalkOK
    <2> QED
      BY <2>7, <2>8, <2>9
  <1> QED
    BY <1>2, <1>3
-----------------------------------------------------------------------------
(* The invariant holds                                                     *)

\* What a walk has shown after its first request.
LEMMA WalkStarts ==
    ASSUME newest \in 0..MaxEvents, NEW limit \in Limits,
           NEW r \in Responses([limit |-> limit, cursor |-> NoCursor]),
           NEW t, t = (IF r.status = 200 THEN newest ELSE 0), t # 0
    PROVE  t \in 1..newest /\ FirstOf(r, t)
  <1>1. MaxEvents \in Nat
    BY ActivityAssumption
  <1>2. r.status = 200 /\ t = newest /\ newest # 0 /\ newest \in Nat
    BY <1>1
  <1>3. ~Empty(r)
    BY <1>2 DEF Empty
  <1>4. FirstOf(r, newest)
    <2>1. Empty(r) \/ (IF newest = 0 THEN r.next = NoCursor
                       ELSE FirstOf(r, newest))
      BY Starting
    <2> QED
      BY <1>2, <1>3, <2>1
  <1> QED
    BY <1>2, <1>4

LEMMA InitEstablishes == Init => IInv
  <1> SUFFICES ASSUME Init PROVE IInv
    OBVIOUS
  <1>1. PICK limit \in Limits : query = [limit |-> limit, cursor |-> NoCursor]
    BY DEF Init
  <1>2. /\ newest \in 0..MaxEvents /\ newest \in Nat
        /\ page \in Responses([limit |-> limit, cursor |-> NoCursor])
        /\ walk = page.events
        /\ top = IF page.status = 200 THEN newest ELSE 0
        /\ query.limit = limit
    BY ActivityAssumption, <1>1 DEF Init
  <1>3. Empty(page) \/ (IF newest = 0 THEN page.next = NoCursor
                        ELSE FirstOf(page, newest))
    <2>1. newest \in 0..MaxEvents
      BY <1>2
    <2>2. page \in Responses([limit |-> limit, cursor |-> NoCursor])
      BY <1>2
    <2> QED
      BY <2>1, <2>2, Starting
  <1>4. WalkOK
    <2> SUFFICES ASSUME top # 0
                 PROVE  top \in 1..newest /\ \E n \in 1..top : WalkAt(n)
      BY DEF WalkOK
    <2>1. top \in 1..newest /\ FirstOf(page, top)
      <3>1. newest # 0 /\ page.status = 200 /\ top = newest
        BY <1>2
      <3>2. ~Empty(page)
        BY <3>1 DEF Empty
      <3>3. FirstOf(page, newest)
        BY <1>3, <3>1, <3>2
      <3> QED
        BY <1>2, <3>1, <3>3
    <2> QED
      BY <1>2, <2>1 DEF FirstOf, WalkAt, LeadsTo
  <1>5. LinkOK
    <2>1. CASE Empty(page)
      BY <2>1 DEF Empty, LinkOK
    <2>2. CASE newest = 0 /\ page.next = NoCursor
      BY <2>2 DEF LinkOK
    <2>3. CASE newest # 0 /\ FirstOf(page, newest)
      <3>1. PICK n \in 1..newest :
               LeadsTo(page, n = newest, newest - n + 1)
        BY <2>3 DEF FirstOf
      <3>2. n # newest => newest - n + 1 \in 2..newest
        BY <1>2
      <3> QED
        BY <2>3, <3>1, <3>2 DEF FirstOf, LinkOK, LeadsTo
    <2> QED
      BY <1>3, <2>1, <2>2, <2>3
  <1> QED
    BY <1>2, <1>4, <1>5 DEF IInv

LEMMA OpenPreserves == ASSUME IInv, Open PROVE IInv'
  <1>1. PICK limit \in Limits :
           ListActivity([limit |-> limit, cursor |-> NoCursor])
    BY DEF Open
  <1> DEFINE q == [limit |-> limit, cursor |-> NoCursor]
  <1>2. newest \in 0..MaxEvents /\ q.limit \in Limits
    BY DEF IInv
  <1>3. /\ newest' = newest
        /\ page' \in Responses(q)
        /\ walk' = page'.events
        /\ top' = IF page'.status = 200 THEN newest ELSE 0
    BY <1>1 DEF Open, ListActivity
  <1>4. WalkOK'
    <2> SUFFICES ASSUME top' # 0
                 PROVE  top' \in 1..newest' /\ \E n \in 1..top' : WalkAt(n)'
      BY DEF WalkOK
    <2>1. top' \in 1..newest /\ FirstOf(page', top')
      BY <1>2, <1>3, WalkStarts
    <2> QED
      BY <1>3, <2>1 DEF FirstOf, WalkAt, LeadsTo
  <1> HIDE DEF q
  <1>5. newest' \in 0..MaxEvents /\ query'.limit \in Limits /\ LinkOK'
    BY <1>1, <1>2, LinkOfAnswer DEF q
  <1> QED
    BY <1>4, <1>5 DEF IInv

LEMMA NextPreserves == ASSUME IInv, FollowNext PROVE IInv'
  <1>1. PICK limit \in Limits :
           Continue([limit |-> limit, cursor |-> page.next])
    BY DEF FollowNext
  <1> DEFINE q == [limit |-> limit, cursor |-> page.next]
  <1>2. newest \in 0..MaxEvents /\ q.limit \in Limits /\ q.cursor = page.next
    BY DEF IInv
  <1> HIDE DEF q
  <1>3. page.status = 200 /\ page.next # NoCursor /\ newest \in Nat
    BY ActivityAssumption, <1>2 DEF FollowNext, IInv, LinkOK
  <1>4. Pending(q)
    <2> SUFFICES ASSUME top # 0
                 PROVE  \E n \in 1..(top - 1) :
                           walk = Down(top, n) /\ q.cursor = Own(top - n + 1)
      BY DEF Pending
    <2>1. PICK n \in 1..top : WalkAt(n)
      BY DEF IInv, WalkOK
    <2>2. top \in 1..newest
      BY DEF IInv, WalkOK
    <2>3. /\ walk = Down(top, n) /\ n # top
          /\ page.next = Own(top - n + 1)
      BY <1>3, <2>1 DEF WalkAt, LeadsTo
    <2>4. n \in 1..(top - 1)
      BY <1>3, <2>2, <2>3
    <2> QED
      BY <1>2, <2>3, <2>4
  <1>5. WalkOK'
    BY <1>1, <1>2, <1>4, Continues DEF q
  <1>6. newest' \in 0..MaxEvents /\ query'.limit \in Limits /\ LinkOK'
    BY <1>1, <1>2, LinkOfAnswer DEF q, Continue
  <1> QED
    BY <1>5, <1>6 DEF IInv

LEMMA RetryPreserves == ASSUME IInv, Retry PROVE IInv'
  <1>1. /\ Continue(query) /\ page.status # 200
        /\ newest \in 0..MaxEvents /\ newest \in Nat /\ query.limit \in Limits
    BY ActivityAssumption DEF Retry, Failures, IInv
  <1>2. Pending(query)
    <2> SUFFICES ASSUME top # 0
                 PROVE  \E n \in 1..(top - 1) :
                           /\ walk = Down(top, n)
                           /\ query.cursor = Own(top - n + 1)
      BY DEF Pending
    <2>1. PICK n \in 1..top : WalkAt(n)
      BY DEF IInv, WalkOK
    <2>2. top \in 1..newest
      BY DEF IInv, WalkOK
    <2>3. /\ walk = Down(top, n) /\ n # top
          /\ query.cursor = Own(top - n + 1)
      BY <1>1, <2>1 DEF WalkAt
    <2>4. n \in 1..(top - 1)
      BY <1>1, <2>2, <2>3
    <2> QED
      BY <2>3, <2>4
  <1>3. WalkOK'
    BY <1>1, <1>2, Continues
  <1>4. newest' \in 0..MaxEvents /\ query'.limit \in Limits /\ LinkOK'
    BY <1>1, LinkOfAnswer DEF Continue
  <1> QED
    BY <1>3, <1>4 DEF IInv

LEMMA EditPreserves == ASSUME IInv, Edit PROVE IInv'
  <1>1. PICK limit \in Limits, cursor \in Forged :
           ListActivity([limit |-> limit, cursor |-> cursor])
    BY DEF Edit
  <1> DEFINE q == [limit |-> limit, cursor |-> cursor]
  <1>2. newest \in 0..MaxEvents /\ q.limit \in Limits
    BY DEF IInv
  <1> HIDE DEF q
  <1>3. newest' \in 0..MaxEvents /\ query'.limit \in Limits /\ LinkOK'
    BY <1>1, <1>2, LinkOfAnswer DEF q
  <1>4. WalkOK'
    BY DEF Edit, WalkOK
  <1> QED
    BY <1>3, <1>4 DEF IInv

LEMMA PushPreserves == ASSUME IInv, Push PROVE IInv'
  <1>1. /\ newest \in 0..MaxEvents /\ newest < MaxEvents /\ MaxEvents \in Nat
        /\ newest' = newest + 1
        /\ query' = query /\ page' = page /\ walk' = walk /\ top' = top
    BY ActivityAssumption DEF IInv, Push
  <1>2. newest' \in 0..MaxEvents /\ \A n : n \in 2..newest => n \in 2..newest'
    BY <1>1
  <1>3. \A n : n \in 1..newest => n \in 1..newest'
    BY <1>1
  <1>4. LinkOK'
    BY <1>1, <1>2 DEF IInv, LinkOK
  <1>5. WalkOK'
    BY <1>1, <1>3 DEF IInv, WalkOK, WalkAt, LeadsTo
  <1> QED
    BY <1>1, <1>2, <1>4, <1>5 DEF IInv

LEMMA StepPreserves == IInv /\ [Next]_vars => IInv'
  <1> SUFFICES ASSUME IInv, [Next]_vars PROVE IInv'
    OBVIOUS
  <1>1. CASE Open
    BY <1>1, OpenPreserves
  <1>2. CASE FollowNext
    BY <1>2, NextPreserves
  <1>3. CASE Retry
    BY <1>3, RetryPreserves
  <1>4. CASE Edit
    BY <1>4, EditPreserves
  <1>5. CASE Push
    BY <1>5, PushPreserves
  <1>6. CASE UNCHANGED vars
    BY <1>6 DEF vars, IInv, LinkOK, WalkOK, WalkAt, LeadsTo
  <1> QED
    BY <1>1, <1>2, <1>3, <1>4, <1>5, <1>6 DEF Next

\* What a walk has shown and where its next page starts fit together after
\* every page, failure, repetition and push (ListActivity, client.go).
THEOREM Invariance == Spec => []IInv
  <1> QED
    BY InitEstablishes, StepPreserves, PTL DEF Spec
-----------------------------------------------------------------------------
(* The properties                                                          *)

LEMMA WalkIsFeed == IInv => WalkShowsTheFeed
  <1> SUFFICES ASSUME IInv, top # 0
               PROVE  /\ walk = [i \in 1..Len(walk) |-> top - i + 1]
                      /\ page.status = 200 /\ page.next = NoCursor
                            => Len(walk) = top \/ page.cut
    BY DEF WalkShowsTheFeed
  <1>1. PICK n \in 1..top : WalkAt(n)
    BY DEF IInv, WalkOK
  <1>2. top \in 1..newest /\ newest \in Nat
    BY ActivityAssumption DEF IInv, WalkOK
  <1>3. walk = Down(top, n) /\ n \in Nat /\ top \in Int
    BY <1>1, <1>2 DEF WalkAt
  <1>4. Len(walk) = n
    BY <1>3, DownIs
  <1>5. page.status = 200 /\ page.next = NoCursor => n = top \/ page.cut
    <2>1. ASSUME n # top PROVE Own(top - n + 1) # NoCursor
      <3>1. top - n + 1 \in Nat
        BY <1>1, <1>2
      <3> QED
        BY <3>1, OwnDecodes DEF OwnIsServed
    <2> QED
      BY <1>1, <2>1 DEF WalkAt, LeadsTo
  <1> QED
    BY <1>3, <1>4, <1>5 DEF Down

\* A walk through the activity shows the feed as it was at its first page,
\* whatever is pushed, fails or is repeated on the way, and ends only when
\* everything was shown or the upstream gives no link that can be read
\* (ListActivity, parseLinkHeader, BuildLinkHeader).
THEOREM WalksShowTheFeed == Spec => []WalkShowsTheFeed
  <1> QED
    BY Invariance, WalkIsFeed, PTL

\* A link the service gave out is served, or fails upstream, and shows at least
\* one event; it is refused exactly when the upstream's cursor is so long that
\* the service's own is longer than Params admits (Encode, DecodeCursor).
THEOREM LinksAreServed == Spec => OwnLinksAreServed
  <1>1. ASSUME IInv, FollowNext
        PROVE  /\ page'.status \in {200, 422} \union Failures
               /\ page'.status = 200 => page'.events # <<>>
               /\ \E n \in 1..MaxEvents :
                     /\ page.next = Own(n)
                     /\ page'.status = 422 <=> AfterLength[n] > Room
    <2>1. PICK limit \in Limits :
             Continue([limit |-> limit, cursor |-> page.next])
      BY <1>1 DEF FollowNext
    <2> DEFINE q == [limit |-> limit, cursor |-> page.next]
    <2>2. /\ newest \in 0..MaxEvents /\ newest \in Nat /\ MaxEvents \in Nat
          /\ q.limit \in 1..100 /\ q.cursor = page.next
      BY <1>1, ActivityAssumption DEF IInv
    <2>3. page' \in Responses(q)
      BY <2>1 DEF Continue, ListActivity
    <2> HIDE DEF q
    <2>4. PICK n \in 2..newest : page.next = Own(n)
      BY <1>1 DEF FollowNext, IInv, LinkOK
    <2> DEFINE from == n - 1
    <2>5. n \in Nat /\ n \in 1..MaxEvents /\ MinOf(newest, n - 1) = from
      BY <2>2 DEF MinOf
    <2>6. from \in Nat /\ from # 0
      BY <2>2
    <2>7. /\ DecodeCursor(q.cursor).value = After(n)
          /\ Accepts(q.cursor, CursorType)
      BY <2>2, <2>4, <2>5, OwnDecodes DEF OwnIsServed
    <2>8. NewestAfter(After(n)) = from
      BY <2>2, <2>5, Starts
    <2> HIDE DEF from
    <2>9. /\ Empty(page') \/ PageFrom(page', from, q.limit)
          /\ page'.status \in {200, 422} \union Failures
          /\ page'.status = 422 <=> ~Fits(q.cursor)
      BY <2>2, <2>3, <2>7, <2>8, Answers
    <2>12. \E k \in 1..MaxEvents :
              /\ page.next = Own(k)
              /\ page'.status = 422 <=> AfterLength[k] > Room
      <3>1. Fits(Own(n)) <=> ~(AfterLength[n] > Room)
        BY <2>5, RoomIsRight DEF OwnFits
      <3>2. page'.status = 422 <=> AfterLength[n] > Room
        BY <2>2, <2>4, <2>9, <3>1
      <3> QED
        BY <2>4, <2>5, <3>2
    <2>10. CASE PageFrom(page', from, q.limit)
      <3> DEFINE m == MinOf(q.limit, from)
      <3>1. m \in Nat /\ m # 0 /\ page'.events = Down(from, m)
        <4>1. page'.events = Down(from, m)
          BY <2>10 DEF PageFrom
        <4>2. m \in 0..from /\ (from # 0 => m # 0)
          BY Zenon, <2>2, <2>6, MinIs
        <4> QED
          BY <2>6, <4>1, <4>2
      <3> HIDE DEF m
      <3>2. Len(page'.events) = m
        BY <2>6, <3>1, DownIs
      <3>3. page'.events # <<>>
        BY <3>1, <3>2
      <3> QED
        BY <2>9, <2>12, <3>3
    <2>11. CASE Empty(page')
      BY <2>9, <2>11, <2>12 DEF Empty
    <2> QED
      BY <2>9, <2>10, <2>11
  <1> QED
    BY <1>1, Invariance, PTL DEF OwnLinksAreServed
=============================================================================
