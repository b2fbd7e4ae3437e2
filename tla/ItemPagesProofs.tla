-------------------------- MODULE ItemPagesProofs --------------------------
(***************************************************************************)
(* Proofs about ItemPages, for every catalogue whose ids are distinct,     *)
(* every set of categories and limits and every cursor a client makes up.  *)
(***************************************************************************)
EXTENDS ItemPages, SequenceTheorems, WellFoundedInduction, TLAPS

\* The parts of a text: strings.  The literals are named because the provers
\* do not know that they are strings.
Part == STRING \union {"item", ""}
ItemType == [id : Seq(Part), category : STRING]
CursorSet == [plain : BOOLEAN, base64 : BOOLEAN, text : Seq(Part)]

LEMMA TextIsParts == \A s \in Seq(STRING) : s \in Seq(Part)
  <1>1. STRING \subseteq Part
    BY DEF Part
  <1> QED
    BY <1>1, SeqMonotonic

LEMMA CatalogueIsSeq == \A list \in Catalogues : list \in Seq(ItemType)
  <1>1. [id : Seq(STRING), category : STRING] \subseteq ItemType
    BY TextIsParts DEF ItemType
  <1> QED
    BY <1>1, PagesAssumption, SeqMonotonic
-----------------------------------------------------------------------------
(* The filter: a function defined by recursion over the list.  Induction   *)
(* is on the smallest number for which a claim fails.                      *)

\* A set of numbers that is not empty has a smallest one.
LEMMA Smallest ==
    ASSUME NEW T \in SUBSET Nat, T # {}
    PROVE  \E n \in T : \A m \in T : n <= m
  <1> DEFINE R == {p \in Nat \X Nat : p[1] < p[2]}
  <1>1. R = OpToRel(<, Nat)
    BY Zenon DEF OpToRel
  <1>2. IsWellFoundedOn(R, Nat)
    BY <1>1, NatLessThanWellFounded
  <1>3. \E n \in T : \A m \in T : <<m, n>> \notin R
    <2> HIDE DEF R
    <2> QED
      BY <1>2, WFMin
  <1>4. \A n, m \in Nat : <<m, n>> \notin R => n <= m
    OBVIOUS
  <1> QED
    <2> HIDE DEF R
    <2> QED
      BY <1>3, <1>4

\* Induction over 0..N, for a claim that is given as the set where it holds.
LEMMA Induction ==
    ASSUME NEW N \in Nat, NEW S, 0 \in S,
           \A n \in 1..N : n - 1 \in S => n \in S
    PROVE  0..N \subseteq S
  <1> DEFINE T == {n \in 0..N : n \notin S}
  <1> SUFFICES ASSUME T # {} PROVE FALSE
    OBVIOUS
  <1>1. PICK n \in T : \A m \in T : n <= m
    <2>1. T \in SUBSET Nat
      OBVIOUS
    <2> HIDE DEF T
    <2> QED
      BY <2>1, Smallest
  <1>2. n \in 1..N /\ n - 1 \in 0..N /\ n - 1 \notin T
    BY <1>1
  <1> QED
    BY <1>2

\* The equations of the recursion.
KeptNext(list, category, f, n) ==
    IF n = 0 THEN <<>>
    ELSE IF list[n].category = category
         THEN Append(f[n - 1], list[n]) ELSE f[n - 1]

KeptUpTo(list, category, f, m) ==
    f = [n \in 0..m |-> KeptNext(list, category, f, n)]

\* The recursion defines a function.
LEMMA KeptDefined ==
    ASSUME NEW list, Len(list) \in Nat, NEW category
    PROVE  KeptUpTo(list, category, Kept(list, category), Len(list))
  <1> DEFINE N == Len(list)
             Solved == {m \in 0..N : \E f : KeptUpTo(list, category, f, m)}
  <1>1. 0 \in Solved
    <2> DEFINE f == [n \in 0..0 |-> <<>>]
    <2>1. KeptUpTo(list, category, f, 0)
      BY DEF KeptUpTo, KeptNext
    <2> QED
      BY <2>1
  <1>2. ASSUME NEW m \in 1..N, m - 1 \in Solved PROVE m \in Solved
    <2>1. PICK f : KeptUpTo(list, category, f, m - 1)
      BY <1>2
    <2> DEFINE g == [n \in 0..m |->
                        IF n = m THEN KeptNext(list, category, f, m) ELSE f[n]]
    <2>2. \A n \in 0..m : \A k \in 0..(m - 1) : k = n - 1 => g[k] = f[k]
      OBVIOUS
    <2>3. \A n \in 0..m : KeptNext(list, category, g, n)
                          = KeptNext(list, category, f, n)
      BY <2>2 DEF KeptNext
    <2>4. \A n \in 0..(m - 1) : f[n] = KeptNext(list, category, f, n)
      BY <2>1 DEF KeptUpTo
    <2>5. \A n \in 0..m : g[n] = KeptNext(list, category, g, n)
      BY <2>3, <2>4
    <2>6. KeptUpTo(list, category, g, m)
      <3> HIDE DEF KeptNext
      <3> QED
        BY <2>5 DEF KeptUpTo
    <2> QED
      BY <2>6
  <1>3. N \in Solved
    <2>1. N \in Nat
      OBVIOUS
    <2> HIDE DEF Solved, N
    <2>2. 0..N \subseteq Solved
      BY <2>1, <1>1, <1>2, Induction
    <2> QED
      BY <2>1, <2>2
  <1>4. \E f : KeptUpTo(list, category, f, N)
    BY <1>3
  <1>5. Kept(list, category) = CHOOSE f : KeptUpTo(list, category, f, N)
    BY DEF Kept, KeptUpTo, KeptNext
  <1> QED
    BY <1>4, <1>5

\* The items of `kept` are those of the first n of the list that belong to the
\* category, in their order: place says where each of them comes from.
Selects(list, category, n, kept, place) ==
    /\ kept \in Seq(ItemType)
    /\ place \in [1..Len(kept) -> 1..n]
    /\ \A k \in 1..Len(kept) : kept[k] = list[place[k]]
    /\ \A j, k \in 1..Len(kept) : j < k => place[j] < place[k]
    /\ \A i \in 1..n : list[i].category = category
                        <=> \E k \in 1..Len(kept) : place[k] = i

LEMMA SelectsNone ==
    ASSUME NEW list, NEW category
    PROVE  Selects(list, category, 0, <<>>, [k \in 1..0 |-> 0])
  BY DEF Selects

LEMMA SelectsMore ==
    ASSUME NEW list \in Seq(ItemType), NEW category, NEW n \in 1..Len(list),
           NEW kept, NEW place, Selects(list, category, n - 1, kept, place),
           list[n].category = category
    PROVE  Selects(list, category, n, Append(kept, list[n]),
                   [k \in 1..(Len(kept) + 1) |->
                       IF k = Len(kept) + 1 THEN n ELSE place[k]])
  <1> DEFINE last == Len(kept) + 1
             more == Append(kept, list[n])
             new == [k \in 1..last |-> IF k = last THEN n ELSE place[k]]
  <1>1. /\ kept \in Seq(ItemType)
        /\ place \in [1..Len(kept) -> 1..(n - 1)]
        /\ \A k \in 1..Len(kept) : kept[k] = list[place[k]]
        /\ \A j, k \in 1..Len(kept) : j < k => place[j] < place[k]
        /\ \A i \in 1..(n - 1) : list[i].category = category
                                 <=> \E k \in 1..Len(kept) : place[k] = i
    BY DEF Selects
  <1>2. /\ list[n] \in ItemType
        /\ more \in Seq(ItemType) /\ Len(more) = last /\ last \in Nat
        /\ Len(kept) \in Nat
        /\ more[last] = list[n]
        /\ \A k \in 1..Len(kept) : more[k] = kept[k]
    BY <1>1
  <1>3. /\ new \in [1..last -> 1..n]
        /\ new[last] = n
        /\ \A k \in 1..Len(kept) : new[k] = place[k] /\ new[k] \in 1..(n - 1)
    <2>1. /\ \A k \in 1..Len(kept) : k \in 1..last /\ k # last
          /\ \A k \in 1..last : k = last \/ k \in 1..Len(kept)
          /\ last \in 1..last
      BY <1>2
    <2> HIDE DEF last
    <2>2. \A k \in 1..Len(kept) : new[k] = place[k] /\ place[k] \in 1..(n - 1)
      BY <1>1, <2>1
    <2>3. new[last] = n
      BY <2>1
    <2>4. n \in 1..n /\ \A i \in 1..(n - 1) : i \in 1..n
      OBVIOUS
    <2>5. \A k \in 1..last : new[k] \in 1..n
      <3> HIDE DEF new
      <3> QED
        BY <2>1, <2>2, <2>3, <2>4
    <2> QED
      BY <2>2, <2>3, <2>5
  <1> HIDE DEF last, more, new
  <1>4. \A k \in 1..last : k = last \/ k \in 1..Len(kept)
    BY <1>2 DEF last
  <1>5. \A k \in 1..last : more[k] = list[new[k]]
    BY <1>1, <1>2, <1>3, <1>4
  <1>6. \A j, k \in 1..last : j < k => new[j] < new[k]
    <2> TAKE j, k \in 1..last
    <2> HAVE j < k
    <2>1. j \in 1..Len(kept)
      BY <1>2, <1>4 DEF last
    <2>2. CASE k = last
      BY <2>1, <2>2, <1>3
    <2>3. CASE k \in 1..Len(kept)
      BY <2>1, <2>3, <1>1, <1>3
    <2> QED
      BY <1>4, <2>2, <2>3
  <1>7. \A i \in 1..n : list[i].category = category
                        <=> \E k \in 1..last : new[k] = i
    <2> TAKE i \in 1..n
    <2>1. CASE i = n
      BY <2>1, <1>2, <1>3, last \in 1..last DEF last
    <2>2. CASE i \in 1..(n - 1)
      <3>1. (\E k \in 1..last : new[k] = i)
            <=> (\E k \in 1..Len(kept) : place[k] = i)
        <4>1. i # n
          BY <2>2
        <4>2. \A k \in 1..Len(kept) : k \in 1..last
          BY <1>2 DEF last
        <4> QED
          BY <4>1, <4>2, <1>3, <1>4
      <3> QED
        BY <2>2, <3>1, <1>1
    <2> QED
      BY <2>1, <2>2
  <1>8. Selects(list, category, n, more, new)
    BY <1>2, <1>3, <1>5, <1>6, <1>7 DEF Selects
  <1> QED
    BY <1>8 DEF last, more, new

LEMMA SelectsNoMore ==
    ASSUME NEW list \in Seq(ItemType), NEW category, NEW n \in 1..Len(list),
           NEW kept, NEW place, Selects(list, category, n - 1, kept, place),
           list[n].category # category
    PROVE  Selects(list, category, n, kept, place)
  <1>1. \A i \in 1..n : i = n \/ i \in 1..(n - 1)
    OBVIOUS
  <1>2. \A k \in 1..Len(kept) : place[k] \in 1..(n - 1)
    BY DEF Selects
  <1>3. place \in [1..Len(kept) -> 1..n]
    BY DEF Selects
  <1>4. n \notin 1..(n - 1)
    OBVIOUS
  <1> QED
    BY <1>1, <1>2, <1>3, <1>4 DEF Selects

LEMMA KeptSelects ==
    ASSUME NEW list \in Seq(ItemType), NEW category
    PROVE  \E place : Selects(list, category, Len(list),
                              Kept(list, category)[Len(list)], place)
  <1> DEFINE N == Len(list)
             K == Kept(list, category)
             Good == {n \in 0..N :
                        \E place : Selects(list, category, n, K[n], place)}
  <1>1. N \in Nat
    OBVIOUS
  <1>2. \A n \in 0..N : K[n] = KeptNext(list, category, K, n)
    <2>1. KeptUpTo(list, category, K, N)
      BY <1>1, KeptDefined
    <2> HIDE DEF K
    <2> QED
      BY <2>1 DEF KeptUpTo
  <1> HIDE DEF K
  <1>3. 0 \in Good
    <2>1. K[0] = <<>>
      BY <1>1, <1>2 DEF KeptNext
    <2>2. \E place : Selects(list, category, 0, K[0], place)
      BY <2>1, SelectsNone
    <2> QED
      BY <1>1, <2>2
  <1>4. ASSUME NEW n \in 1..N, n - 1 \in Good PROVE n \in Good
    <2>1. PICK place : Selects(list, category, n - 1, K[n - 1], place)
      BY <1>4
    <2>2. n \in 0..N /\ n # 0
      BY <1>1
    <2>3. CASE list[n].category = category
      <3>1. K[n] = Append(K[n - 1], list[n])
        BY <1>2, <2>2, <2>3 DEF KeptNext
      <3>2. \E q : Selects(list, category, n, K[n], q)
        <4>1. Selects(list, category, n, Append(K[n - 1], list[n]),
                      [k \in 1..(Len(K[n - 1]) + 1) |->
                          IF k = Len(K[n - 1]) + 1 THEN n ELSE place[k]])
          BY <2>1, <2>3, SelectsMore
        <4> QED
          BY Zenon, <3>1, <4>1
      <3> QED
        BY <2>2, <3>2
    <2>4. CASE list[n].category # category
      <3>1. K[n] = K[n - 1]
        BY <1>2, <2>2, <2>4 DEF KeptNext
      <3>2. Selects(list, category, n, K[n], place)
        BY <2>1, <2>4, <3>1, SelectsNoMore
      <3> QED
        BY <2>2, <3>2
    <2> QED
      BY <2>3, <2>4
  <1>5. 0..N \subseteq Good
    <2> HIDE DEF Good, N
    <2> QED
      BY <1>1, <1>3, <1>4, Induction
  <1> QED
    BY <1>1, <1>5 DEF K

\* FilterItems shows exactly the items of the category, in the order of the
\* catalogue (filterItems).
THEOREM FilterKeepsOrder ==
    ASSUME catalogue \in Catalogues, NEW category, category # NoFilter
    PROVE  \E place : Selects(catalogue, category, Len(catalogue),
                              FilterItems(category), place)
  <1>1. catalogue \in Seq(ItemType)
    BY CatalogueIsSeq
  <1> QED
    BY <1>1, KeptSelects DEF FilterItems
-----------------------------------------------------------------------------
(* The lists that pages are made of, and their cursors.                    *)

\* Ids tell items apart and can be told from the start of the list.
IsList(list) ==
    /\ list \in Seq(ItemType)
    /\ \A i, j \in 1..Len(list) : list[i].id = list[j].id => i = j
    /\ \A i \in 1..Len(list) : list[i].id \notin {<<>>, NoValue}

LEMMA FilterIsList ==
    ASSUME catalogue \in Catalogues, NEW category
    PROVE  IsList(FilterItems(category))
  <1>1. IsList(catalogue)
    BY PagesAssumption, CatalogueIsSeq DEF IsList
  <1>2. CASE category = NoFilter
    BY <1>1, <1>2 DEF FilterItems
  <1>3. CASE category # NoFilter
    <2> DEFINE kept == FilterItems(category)
    <2>1. PICK place : Selects(catalogue, category, Len(catalogue), kept, place)
      BY <1>3, FilterKeepsOrder
    <2> HIDE DEF kept
    <2>2. /\ kept \in Seq(ItemType)
          /\ \A k \in 1..Len(kept) : /\ place[k] \in 1..Len(catalogue)
                                     /\ kept[k] = catalogue[place[k]]
          /\ \A j, k \in 1..Len(kept) : j < k => place[j] < place[k]
      BY <2>1 DEF Selects
    <2>3. ASSUME NEW j \in 1..Len(kept), NEW k \in 1..Len(kept),
                 kept[j].id = kept[k].id
          PROVE  j = k
      <3>1. place[j] = place[k]
        BY <1>1, <2>2, <2>3 DEF IsList
      <3>2. place[j] \in Int /\ place[k] \in Int
        BY <2>2
      <3>3. ~(j < k) /\ ~(k < j)
        BY <2>2, <3>1, <3>2
      <3> QED
        BY <3>3
    <2>4. \A k \in 1..Len(kept) : kept[k].id \notin {<<>>, NoValue}
      BY <1>1, <2>2 DEF IsList
    <2> QED
      BY <2>2, <2>3, <2>4 DEF IsList, kept
  <1> QED
    BY <1>2, <1>3

\* findItemIndex finds an item by its id, and nothing else.
LEMMA IndexOfItem ==
    ASSUME NEW list, IsList(list), NEW i \in 1..Len(list)
    PROVE  FindItemIndex(list, list[i].id) = i - 1
  <1>1. {j \in DOMAIN list : list[j].id = list[i].id} = {i}
    BY DEF IsList
  <1> QED
    BY <1>1 DEF FindItemIndex, IsList

LEMMA IndexOfId ==
    ASSUME NEW list, IsList(list), NEW id, FindItemIndex(list, id) # -1
    PROVE  \E i \in 1..Len(list) : /\ list[i].id = id
                                  /\ FindItemIndex(list, id) = i - 1
  <1>1. {j \in DOMAIN list : list[j].id = id} # {}
    BY DEF FindItemIndex
  <1>2. PICK i \in DOMAIN list : list[i].id = id
    BY <1>1
  <1>3. i \in 1..Len(list)
    BY <1>2 DEF IsList
  <1> QED
    BY <1>2, <1>3, IndexOfItem

LEMMA Prefixed ==
    ASSUME NEW S, NEW e \in S, NEW s \in Seq(S)
    PROVE  /\ <<e>> \o s \in Seq(S)
           /\ Len(<<e>> \o s) = Len(s) + 1
           /\ Head(<<e>> \o s) = e /\ Tail(<<e>> \o s) = s
  <1> DEFINE text == <<e>> \o s
  <1>1. <<e>> \in Seq(S) /\ Len(<<e>>) = 1 /\ <<e>>[1] = e /\ Len(s) \in Nat
    OBVIOUS
  <1>2. /\ text \in Seq(S) /\ Len(text) = Len(s) + 1
        /\ \A i \in 1..(Len(s) + 1) :
              text[i] = IF i <= 1 THEN <<e>>[i] ELSE s[i - 1]
    BY <1>1, ConcatProperties
  <1> HIDE DEF text
  <1>3. text # <<>> /\ text[1] = e
    BY <1>1, <1>2
  <1>4. Head(text) = e
    BY <1>2, <1>3
  <1>5. /\ Tail(text) \in Seq(S) /\ Len(Tail(text)) = Len(text) - 1
        /\ \A i \in 1..Len(Tail(text)) : Tail(text)[i] = text[i + 1]
    BY <1>2, <1>3, HeadTailProperties
  <1>6. \A i \in 1..Len(s) : Tail(text)[i] = s[i]
    BY <1>1, <1>2, <1>5
  <1>7. Tail(text) = s
    BY <1>1, <1>2, <1>5, <1>6, SeqEqual
  <1> QED
    BY <1>2, <1>4, <1>7 DEF text

LEMMA Single ==
    ASSUME NEW S, NEW e \in S
    PROVE  <<e>> \in Seq(S) /\ <<e>> # <<>>
  OBVIOUS

LEMMA NoValueType == NoValue \in Seq(Part) /\ NoValue # <<>>
  <1>1. "" \in Part
    BY DEF Part
  <1>2. <<"">> \in Seq(Part) /\ <<"">> # <<>>
    BY Zenon, <1>1, Single
  <1> QED
    BY <1>2 DEF NoValue

\* What Encode makes of a type and a value that is not empty is a cursor that
\* a handler of this type accepts and that decodes to the same value, also
\* when the value contains a colon (Cursor.Encode, DecodeCursor).
THEOREM Encoded ==
    ASSUME NEW type \in Part, NEW value \in Seq(Part), value # <<>>
    PROVE  LET c == Encode(type, value)
           IN  /\ c \in CursorSet /\ c # NoCursor
               /\ DecodeCursor(c) = [type |-> type, value |-> value]
               /\ Accepts(c, type)
  <1> DEFINE text == <<type>> \o value
  <1>1. /\ text \in Seq(Part)
        /\ Len(text) = Len(value) + 1 /\ Len(value) \in Nat \ {0}
        /\ Head(text) = type /\ Tail(text) = value
    BY EmptySeq, Prefixed
  <1>2. Encode(type, value) = [plain |-> TRUE, base64 |-> TRUE, text |-> text]
    BY DEF Encode
  <1> HIDE DEF text
  <1>3. Encode(type, value) \in CursorSet
    BY <1>1, <1>2 DEF CursorSet
  <1>4. Encode(type, value) # NoCursor
    BY <1>1, <1>2 DEF NoCursor
  <1>5. DecodeCursor(Encode(type, value)) = [type |-> type, value |-> value]
    <2>1. Encode(type, value).text = text
      BY <1>2
    <2> QED
      BY <1>1, <1>4, <2>1 DEF DecodeCursor
  <1>6. Decodes(Encode(type, value))
    BY <1>1, <1>2 DEF Decodes
  <1> QED
    BY <1>3, <1>4, <1>5, <1>6 DEF Accepts
-----------------------------------------------------------------------------
(* Pages.  Every page that is not a refusal starts at some position.       *)

PageAt(list, start, limit) ==
    [status |-> 200, first |-> start,
     items |-> SubSeq(list, start + 1, MinOf(start + limit, Len(list))),
     total |-> Len(list),
     next |-> NextCursor(list, start, limit),
     prev |-> PrevCursor(list, start, limit)]

LEMMA ItemIsPart == "item" \in Part
  BY DEF Part

LEMMA FirstCursor ==
    LET c == Encode("item", NoValue)
    IN  /\ c \in CursorSet /\ c # NoCursor
        /\ DecodeCursor(c).value = NoValue
        /\ Accepts(c, "item")
  <1>1. LET c == Encode("item", NoValue)
        IN  /\ c \in CursorSet /\ c # NoCursor
            /\ DecodeCursor(c) = [type |-> "item", value |-> NoValue]
            /\ Accepts(c, "item")
    BY Zenon, NoValueType, ItemIsPart, Encoded
  <1> QED
    BY <1>1

LEMMA ItemCursor ==
    ASSUME NEW list, IsList(list), NEW i \in 1..Len(list)
    PROVE  LET c == Encode("item", list[i].id)
           IN  /\ c \in CursorSet /\ c # NoCursor
               /\ DecodeCursor(c).value = list[i].id
               /\ Accepts(c, "item")
               /\ c # Encode("item", NoValue)
  <1>1. list[i].id \in Seq(Part) /\ list[i].id \notin {<<>>, NoValue}
    <2>1. list[i] \in ItemType
      BY ElementOfSeq DEF IsList
    <2> QED
      BY <2>1 DEF IsList, ItemType
  <1>2. LET c == Encode("item", list[i].id)
        IN  /\ c \in CursorSet /\ c # NoCursor
            /\ DecodeCursor(c) = [type |-> "item", value |-> list[i].id]
            /\ Accepts(c, "item")
    BY Zenon, <1>1, ItemIsPart, Encoded
  <1>3. Encode("item", list[i].id) # Encode("item", NoValue)
    <2>1. DecodeCursor(Encode("item", NoValue)).value = NoValue
      BY FirstCursor
    <2> QED
      BY <1>1, <1>2, <2>1
  <1> QED
    BY <1>2, <1>3

\* What Paginate makes of a list: the page p from position start to end.
Shaped(p, list, start, limit, end) ==
    /\ end \in start..Len(list)
    /\ p.items \in Seq(ItemType)
    /\ Len(p.items) = end - start
    /\ end < Len(list) => p.next = Encode("item", list[end].id)
    /\ p.next \in CursorSet /\ p.prev \in CursorSet
    /\ p.next = NoCursor <=> end = Len(list)
    /\ p.prev = NoCursor <=> start = 0

LEMMA PageShape ==
    ASSUME NEW list, IsList(list), NEW limit \in 1..100,
           NEW start \in 0..Len(list)
    PROVE  Shaped(PageAt(list, start, limit), list, start, limit,
                  MinOf(start + limit, Len(list)))
  <1> DEFINE end == MinOf(start + limit, Len(list))
             p == PageAt(list, start, limit)
  <1>1. Len(list) \in Nat /\ list \in Seq(ItemType)
    BY DEF IsList
  <1>2. /\ end \in start..Len(list)
        /\ end < Len(list) => end = start + limit /\ end > start
    BY <1>1 DEF MinOf
  <1>3. p.items \in Seq(ItemType) /\ Len(p.items) = end - start
    <2>1. p.items = SubSeq(list, start + 1, end)
      BY DEF PageAt
    <2>2. /\ start + 1 \in Int /\ end \in Int
          /\ \A i \in (start + 1)..end : list[i] \in ItemType
      BY <1>1, <1>2, ElementOfSeq
    <2> HIDE DEF p, end
    <2>3. /\ SubSeq(list, start + 1, end) \in Seq(ItemType)
          /\ Len(SubSeq(list, start + 1, end)) =
                IF start + 1 <= end THEN end - (start + 1) + 1 ELSE 0
      BY <2>2, SubSeqProperties
    <2> QED
      BY <1>1, <1>2, <2>1, <2>3
  <1>4. /\ end < Len(list) => p.next = Encode("item", list[end].id)
        /\ end = Len(list) => p.next = NoCursor
    <2>1. p.next = IF end < Len(list) /\ end > start
                   THEN Encode("item", list[end].id) ELSE NoCursor
      BY DEF PageAt, NextCursor
    <2> HIDE DEF p, end
    <2> QED
      BY <1>1, <1>2, <2>1
  <1>5. NoCursor \in CursorSet
    BY DEF NoCursor, CursorSet
  <1>6. p.next \in CursorSet /\ (p.next = NoCursor <=> end = Len(list))
    <2> HIDE DEF p, end
    <2>1. CASE end = Len(list)
      BY <1>4, <1>5, <2>1
    <2>2. CASE end < Len(list)
      <3>1. end \in 1..Len(list)
        BY <1>1, <1>2, <2>2
      <3> QED
        BY <1>4, <2>2, <3>1, ItemCursor
    <2> QED
      BY <1>1, <1>2, <2>1, <2>2
  <1>7. p.prev \in CursorSet /\ (p.prev = NoCursor <=> start = 0)
    <2>1. p.prev = PrevCursor(list, start, limit)
      BY DEF PageAt
    <2> HIDE DEF p
    <2>2. CASE start = 0
      BY <1>5, <2>1, <2>2 DEF PrevCursor
    <2>3. CASE start > 0 /\ start <= limit
      BY <2>1, <2>3, FirstCursor DEF PrevCursor
    <2>4. CASE start > limit
      <3>1. start - limit \in 1..Len(list)
        BY <1>1, <2>4
      <3>2. p.prev = Encode("item", list[start - limit].id)
        <4>1. ~(start = 0) /\ ~(start > 0 /\ start <= limit)
          BY <1>1, <2>4
        <4> QED
          BY <2>1, <4>1 DEF PrevCursor
      <3> QED
        BY <1>1, <2>4, <3>1, <3>2, ItemCursor
    <2> QED
      BY <1>1, <2>2, <2>3, <2>4
  <1> QED
    BY <1>2, <1>3, <1>4, <1>6, <1>7 DEF Shaped

\* The request has no cursor, or one that decodes to the start of the list.
FirstIsAsked(c) ==
    c = NoCursor \/ DecodeCursor(c) = [type |-> "item", value |-> NoValue]

LEMMA AcceptedAsksFirst ==
    ASSUME NEW c, Accepts(c, "item"), DecodeCursor(c).value = NoValue
    PROVE  FirstIsAsked(c)
  <1>1. CASE c = NoCursor
    BY <1>1 DEF FirstIsAsked
  <1>2. CASE c # NoCursor
    <2>1. DecodeCursor(c) = [type |-> Head(c.text), value |-> Tail(c.text)]
      BY <1>2 DEF DecodeCursor
    <2>2. Head(c.text) = "item" /\ Tail(c.text) = NoValue
      BY <1>2, <2>1 DEF Accepts
    <2> QED
      BY <2>1, <2>2 DEF FirstIsAsked
  <1> QED
    BY <1>1, <1>2

\* A request is refused, or starts after the item its cursor names.
LEMMA ListItemsCases ==
    ASSUME NEW q, IsList(FilterItems(q.category)), q.limit \in 1..100
    PROVE  LET list == FilterItems(q.category)
               value == DecodeCursor(q.cursor).value
           IN  \/ ListItems(q) = Refused
               \/ /\ Accepts(q.cursor, "item") /\ value = NoValue
                  /\ ListItems(q) = PageAt(list, 0, q.limit)
               \/ \E i \in 1..Len(list) :
                     ListItems(q) = PageAt(list, i, q.limit)
  <1> DEFINE list == FilterItems(q.category)
             value == DecodeCursor(q.cursor).value
  <1> SUFFICES ASSUME Accepts(q.cursor, "item"), Known(list, value)
               PROVE  \/ /\ value = NoValue
                         /\ ListItems(q) = PageAt(list, 0, q.limit)
                      \/ \E i \in 1..Len(list) :
                            ListItems(q) = PageAt(list, i, q.limit)
    BY DEF ListItems
  <1>1. ListItems(q) = PageAt(list, StartIdx(list, value), q.limit)
    BY DEF ListItems, Paginate, PageAt
  <1> HIDE DEF list, value
  <1>2. CASE value = NoValue
    BY <1>1, <1>2 DEF StartIdx
  <1>3. CASE value # NoValue
    <2>1. FindItemIndex(list, value) # -1
      BY <1>3 DEF Known
    <2>2. PICK i \in 1..Len(list) : FindItemIndex(list, value) = i - 1
      BY <2>1, IndexOfId DEF list
    <2>3. StartIdx(list, value) = i
      BY <1>3, <2>2 DEF StartIdx
    <2> QED
      BY <1>1, <2>3
  <1> QED
    BY <1>2, <1>3

\* The cursor of an item leads to the page after it, the cursor of no item to
\* the first page.
LEMMA CursorLeads ==
    ASSUME NEW q, IsList(FilterItems(q.category)), q.limit \in 1..100
    PROVE  LET list == FilterItems(q.category)
           IN  /\ q.cursor \in {NoCursor, Encode("item", NoValue)}
                  => ListItems(q) = PageAt(list, 0, q.limit)
               /\ \A i \in 1..Len(list) :
                     q.cursor = Encode("item", list[i].id)
                     => ListItems(q) = PageAt(list, i, q.limit)
  <1> DEFINE list == FilterItems(q.category)
             value == DecodeCursor(q.cursor).value
  <1>1. ASSUME Accepts(q.cursor, "item"), Known(list, value)
        PROVE  ListItems(q) = PageAt(list, StartIdx(list, value), q.limit)
    BY <1>1 DEF ListItems, Paginate, PageAt
  <1>2. ASSUME q.cursor \in {NoCursor, Encode("item", NoValue)}
        PROVE  ListItems(q) = PageAt(list, 0, q.limit)
    <2>1. Accepts(q.cursor, "item") /\ value = NoValue
      <3>1. CASE q.cursor = NoCursor
        BY <3>1 DEF Accepts, Decodes, DecodeCursor
      <3>2. CASE q.cursor = Encode("item", NoValue)
        BY <3>2, FirstCursor
      <3> QED
        BY <1>2, <3>1, <3>2
    <2>2. Known(list, value) /\ StartIdx(list, value) = 0
      BY <2>1 DEF Known, StartIdx
    <2> QED
      BY <1>1, <2>1, <2>2
  <1>3. ASSUME NEW i \in 1..Len(list), q.cursor = Encode("item", list[i].id)
        PROVE  ListItems(q) = PageAt(list, i, q.limit)
    <2>1. IsList(list)
      OBVIOUS
    <2> HIDE DEF list
    <2>2. Accepts(q.cursor, "item") /\ value = list[i].id /\ value # NoValue
      BY <1>3, <2>1, ItemCursor DEF IsList
    <2>3. FindItemIndex(list, value) = i - 1 /\ i \in Nat \ {0}
      BY <2>1, <2>2, IndexOfItem DEF IsList
    <2>4. Known(list, value) /\ StartIdx(list, value) = i
      BY <2>2, <2>3 DEF Known, StartIdx
    <2> QED
      BY <1>1, <2>2, <2>4
  <1> QED
    BY <1>2, <1>3
-----------------------------------------------------------------------------
(* The inductive invariant.                                                *)

\* A page is a refusal or starts at a position of its list.
PageOK ==
    page # Refused =>
        /\ page.first \in 0..Len(List)
        /\ page = PageAt(List, page.first, query.limit)

\* Only the first page has a cursor that names no item.
CursorOK == page # Refused /\ page.first = 0 => FirstIsAsked(query.cursor)

\* A walk has reached the end of its page.
WalkOK == walk # <<>> => page # Refused /\ walk = SubSeq(List, 1, End)

\* The page that was left is the one that ends where this one starts.
BackOK ==
    back # <<>> =>
        /\ page # Refused
        /\ page.first >= query.limit
        /\ back = SubSeq(List, page.first - query.limit + 1, page.first)

QuerySet == [category : Categories, limit : Limits, cursor : CursorSet]

IInv ==
    /\ catalogue \in Catalogues
    /\ query \in QuerySet
    /\ PageOK
    /\ CursorOK
    /\ WalkOK
    /\ BackOK
-----------------------------------------------------------------------------
(* What a request does.                                                    *)

\* The answer to any request is a refusal or a page of the list it asks for.
LEMMA AnswerOK ==
    ASSUME catalogue \in Catalogues, NEW q \in QuerySet, Ask(q)
    PROVE  catalogue' \in Catalogues /\ query' \in QuerySet /\ PageOK' /\ CursorOK'
  <1> DEFINE list == FilterItems(q.category)
  <1>1. /\ catalogue' = catalogue /\ query' = q /\ page' = ListItems(q)
        /\ q.limit \in 1..100 /\ q.cursor \in CursorSet
    BY PagesAssumption DEF Ask, QuerySet
  <1>2. IsList(list)
    BY FilterIsList
  <1>3. List' = list
    BY <1>1 DEF List, FilterItems
  <1>4. Len(list) \in Nat
    BY <1>2 DEF IsList
  <1>5. \/ page' = Refused
        \/ /\ Accepts(q.cursor, "item")
           /\ DecodeCursor(q.cursor).value = NoValue
           /\ page' = PageAt(list, 0, q.limit)
        \/ \E i \in 1..Len(list) : page' = PageAt(list, i, q.limit)
    BY <1>1, <1>2, ListItemsCases
  <1> HIDE DEF list
  <1>6. CASE page' = Refused
    BY <1>1, <1>6 DEF PageOK, CursorOK
  <1>7. CASE /\ Accepts(q.cursor, "item")
             /\ DecodeCursor(q.cursor).value = NoValue
             /\ page' = PageAt(list, 0, q.limit)
    <2>1. page'.first = 0
      BY <1>7 DEF PageAt
    <2>2. FirstIsAsked(q.cursor)
      BY <1>7, AcceptedAsksFirst
    <2> QED
      BY <1>1, <1>3, <1>4, <1>7, <2>1, <2>2 DEF PageOK, CursorOK
  <1>8. ASSUME NEW i \in 1..Len(list), page' = PageAt(list, i, q.limit)
        PROVE  PageOK' /\ CursorOK'
    <2>1. page'.first = i /\ i # 0 /\ i \in 0..Len(list)
      BY <1>4, <1>8 DEF PageAt
    <2> QED
      BY <1>1, <1>3, <1>8, <2>1 DEF PageOK, CursorOK
  <1> QED
    BY <1>1, <1>5, <1>6, <1>7, <1>8

LEMMA PageFacts ==
    ASSUME IInv, page # Refused
    PROVE  /\ IsList(List) /\ Len(List) \in Nat /\ query.limit \in 1..100
           /\ page.first \in 0..Len(List)
           /\ page = PageAt(List, page.first, query.limit)
           /\ End = MinOf(page.first + query.limit, Len(List))
           /\ End \in page.first..Len(List)
           /\ page.items = SubSeq(List, page.first + 1, End)
           /\ page.items \in Seq(ItemType)
           /\ page.total = Len(List)
           /\ page.next \in CursorSet /\ page.prev \in CursorSet
           /\ page.next = NoCursor <=> End = Len(List)
           /\ End < Len(List) => page.next = Encode("item", List[End].id)
           /\ page.prev = NoCursor <=> page.first = 0
           /\ page.prev = PrevCursor(List, page.first, query.limit)
  <1> DEFINE list == List
             limit == query.limit
             start == page.first
             end == MinOf(start + limit, Len(list))
  <1>1. IsList(list) /\ Len(list) \in Nat /\ limit \in 1..100
    <2>1. IsList(List)
      BY FilterIsList DEF List, IInv
    <2>2. query.limit \in 1..100
      BY PagesAssumption DEF IInv, QuerySet
    <2> QED
      BY <2>1, <2>2 DEF IsList
  <1>2. start \in 0..Len(list) /\ page = PageAt(list, start, limit)
    BY DEF IInv, PageOK
  <1>3. End = start + Len(page.items)
    BY DEF End
  <1> HIDE DEF list, limit, start
  <1>4. /\ end \in start..Len(list)
        /\ page.items \in Seq(ItemType)
        /\ Len(page.items) = end - start
        /\ end < Len(list) => page.next = Encode("item", list[end].id)
        /\ page.next \in CursorSet /\ page.prev \in CursorSet
        /\ page.next = NoCursor <=> end = Len(list)
        /\ page.prev = NoCursor <=> start = 0
    <2>1. Shaped(PageAt(list, start, limit), list, start, limit, end)
      BY <1>1, <1>2, PageShape
    <2> HIDE DEF end
    <2> QED
      BY <1>2, <2>1 DEF Shaped
  <1>5. /\ page.items = SubSeq(list, start + 1, end)
        /\ page.total = Len(list)
        /\ page.prev = PrevCursor(list, start, limit)
    BY <1>2 DEF PageAt
  <1> HIDE DEF end
  <1>6. End = end
    BY <1>1, <1>2, <1>3, <1>4
  <1> QED
    BY <1>1, <1>2, <1>4, <1>5, <1>6 DEF list, limit, start, end

\* The link to the next page leads to where this one ends.
LEMMA NextLeads ==
    ASSUME IInv, FollowNext
    PROVE  /\ page # Refused
           /\ End = page.first + query.limit /\ End < Len(List)
           /\ page' = PageAt(List, End, query.limit)
           /\ query' = [query EXCEPT !.cursor = page.next]
           /\ query' \in QuerySet /\ List' = List
  <1> DEFINE q == [query EXCEPT !.cursor = page.next]
  <1>1. page.next # NoCursor /\ page # Refused
    BY DEF FollowNext, Refused
  <1>2. Ask(q)
    BY DEF FollowNext
  <1>3. /\ IsList(List) /\ Len(List) \in Nat /\ query.limit \in 1..100
        /\ page.first \in 0..Len(List)
        /\ page = PageAt(List, page.first, query.limit)
        /\ End = MinOf(page.first + query.limit, Len(List))
        /\ End \in page.first..Len(List) /\ End # Len(List)
        /\ page.next \in CursorSet
        /\ End < Len(List) => page.next = Encode("item", List[End].id)
    BY <1>1, PageFacts
  <1>4. /\ page.next \in CursorSet
        /\ End < Len(List) /\ End = page.first + query.limit
        /\ page.next = Encode("item", List[End].id)
    <2>1. ASSUME NEW s, NEW n, NEW m, NEW e, n \in Nat, m \in 1..100, s \in 0..n,
                 e = MinOf(s + m, n), e # n
          PROVE  e < n /\ e = s + m
      BY <2>1 DEF MinOf
    <2> QED
      BY <1>3, <2>1
  <1>5. /\ q \in QuerySet /\ q.cursor = page.next
        /\ q.category = query.category /\ q.limit = query.limit
    BY <1>4 DEF IInv, QuerySet
  <1> HIDE DEF q
  <1>6. FilterItems(q.category) = List
    BY <1>5 DEF List
  <1>7. End \in 1..Len(List)
    <2>1. ASSUME NEW s, NEW n, NEW m, NEW e, n \in Nat, m \in 1..100, s \in 0..n,
                 e = s + m, e < n
          PROVE  e \in 1..n
      BY <2>1
    <2> QED
      BY <1>3, <1>4, <2>1
  <1>8. ListItems(q) = PageAt(List, End, query.limit)
    BY <1>3, <1>4, <1>5, <1>6, <1>7, CursorLeads
  <1>9. page' = ListItems(q) /\ query' = q /\ catalogue' = catalogue
    BY <1>2 DEF Ask
  <1>10. List' = List
    BY <1>5, <1>9 DEF List, FilterItems
  <1> QED
    BY <1>1, <1>4, <1>5, <1>8, <1>9, <1>10 DEF q

\* The link to the previous page leads back by a whole page, or to the first
\* one.
LEMMA PrevLeads ==
    ASSUME IInv, FollowPrev
    PROVE  /\ page # Refused /\ page.first > 0
           /\ page' = PageAt(List, IF page.first <= query.limit THEN 0
                                   ELSE page.first - query.limit, query.limit)
           /\ query' \in QuerySet
  <1> DEFINE q == [query EXCEPT !.cursor = page.prev]
  <1>1. page.prev # NoCursor /\ page # Refused
    BY DEF FollowPrev, Refused
  <1>2. Ask(q)
    BY DEF FollowPrev
  <1>3. /\ IsList(List) /\ Len(List) \in Nat /\ query.limit \in 1..100
        /\ page.first \in 0..Len(List)
        /\ page.prev \in CursorSet /\ page.first # 0
    BY <1>1, PageFacts
  <1>4. page.prev \in CursorSet /\ page.first > 0
    BY <1>3
  <1>5. page.prev = PrevCursor(List, page.first, query.limit)
    BY <1>1, PageFacts
  <1>6. /\ q \in QuerySet /\ q.cursor = page.prev
        /\ q.category = query.category /\ q.limit = query.limit
    BY <1>4 DEF IInv, QuerySet
  <1> HIDE DEF q
  <1>7. FilterItems(q.category) = List
    BY <1>6 DEF List
  <1>8. page' = ListItems(q) /\ query' = q
    BY <1>2 DEF Ask
  <1>9. CASE page.first <= query.limit
    <2>1. q.cursor = Encode("item", NoValue)
      BY <1>3, <1>4, <1>5, <1>6, <1>9 DEF PrevCursor
    <2>2. ListItems(q) = PageAt(List, 0, query.limit)
      BY <1>3, <1>6, <1>7, <2>1, CursorLeads
    <2> QED
      BY <1>1, <1>4, <1>6, <1>8, <1>9, <2>2
  <1>10. CASE ~(page.first <= query.limit)
    <2>1. page.first - query.limit \in 1..Len(List)
      <3>1. ASSUME NEW s, NEW n, NEW m, n \in Nat, m \in 1..100, s \in 0..n,
                   ~(s <= m)
            PROVE  s - m \in 1..n
        BY <3>1
      <3> QED
        BY <1>3, <1>10, <3>1
    <2>2. q.cursor = Encode("item", List[page.first - query.limit].id)
      BY <1>3, <1>4, <1>5, <1>6, <1>10 DEF PrevCursor
    <2>3. ListItems(q) = PageAt(List, page.first - query.limit, query.limit)
      BY <1>3, <1>6, <1>7, <2>1, <2>2, CursorLeads
    <2> QED
      BY <1>1, <1>4, <1>6, <1>8, <1>10, <2>3
  <1> QED
    BY <1>9, <1>10

\* What a page shows, once it is known to be one.
Shows(p, list, start, limit) ==
    /\ p # Refused /\ p.status = 200 /\ p.first = start
    /\ Len(list) \in Nat /\ Len(p.items) \in Nat
    /\ start + Len(p.items) = MinOf(start + limit, Len(list))
    /\ p.items = SubSeq(list, start + 1, start + Len(p.items))

LEMMA PageShows ==
    ASSUME NEW list, IsList(list), NEW limit \in 1..100,
           NEW start \in 0..Len(list)
    PROVE  Shows(PageAt(list, start, limit), list, start, limit)
  <1> DEFINE end == MinOf(start + limit, Len(list))
             p == PageAt(list, start, limit)
  <1>1. /\ p.status = 200 /\ p.first = start
        /\ p.items = SubSeq(list, start + 1, end)
    BY DEF PageAt
  <1>2. p # Refused
    BY <1>1 DEF Refused
  <1>3. Shaped(p, list, start, limit, end)
    BY PageShape
  <1>4. Len(list) \in Nat
    BY DEF IsList
  <1> HIDE DEF end, p
  <1>5. end \in start..Len(list) /\ Len(p.items) = end - start
    BY <1>3 DEF Shaped
  <1>6. start + Len(p.items) = end /\ Len(p.items) \in Nat
    BY <1>4, <1>5
  <1> QED
    BY <1>1, <1>2, <1>4, <1>6 DEF end, p, Shows

\* A request without a cursor shows the first page of the list.
LEMMA FirstPage ==
    ASSUME catalogue \in Catalogues, NEW q, q.cursor = NoCursor,
           q.limit \in 1..100
    PROVE  LET p == ListItems(q)
               list == FilterItems(q.category)
           IN  /\ Len(list) \in Nat
               /\ p # Refused /\ p.first = 0
               /\ p = PageAt(list, 0, q.limit)
               /\ p.items = SubSeq(list, 1, 0 + Len(p.items))
  <1> DEFINE p == ListItems(q)
             list == FilterItems(q.category)
  <1>1. IsList(list)
    BY FilterIsList
  <1>2. p = PageAt(list, 0, q.limit)
    BY <1>1, CursorLeads
  <1>3. Len(list) \in Nat
    BY <1>1 DEF IsList
  <1> HIDE DEF p, list
  <1>4. /\ p # Refused /\ p.first = 0
        /\ p.items = SubSeq(list, 0 + 1, 0 + Len(p.items))
    <2>1. 0 \in 0..Len(list) /\ q.limit \in 1..100
      BY <1>3
    <2>2. Shows(PageAt(list, 0, q.limit), list, 0, q.limit)
      BY <1>1, <2>1, PageShows
    <2> QED
      BY <1>2, <2>2 DEF Shows
  <1> QED
    BY <1>2, <1>3, <1>4 DEF p, list
-----------------------------------------------------------------------------
(* The invariant holds.                                                    *)

LEMMA InitEstablishes == Init => IInv
  <1> SUFFICES ASSUME Init PROVE IInv
    OBVIOUS
  <1> DEFINE list == FilterItems(query.category)
  <1>1. catalogue \in Catalogues
    BY DEF Init
  <1>2. query \in QuerySet /\ query.cursor = NoCursor /\ query.limit \in 1..100
    BY PagesAssumption DEF Init, QuerySet, NoCursor, CursorSet
  <1>3. page = ListItems(query) /\ walk = page.items /\ back = <<>>
    BY DEF Init
  <1>4. /\ Len(list) \in Nat
        /\ page # Refused /\ page.first = 0
        /\ page = PageAt(list, 0, query.limit)
        /\ page.items = SubSeq(list, 1, 0 + Len(page.items))
    BY <1>1, <1>2, <1>3, FirstPage
  <1>5. PageOK
    BY <1>4 DEF PageOK, List
  <1>6. CursorOK /\ BackOK
    BY <1>2, <1>3 DEF CursorOK, BackOK, FirstIsAsked
  <1>7. WalkOK
    BY <1>3, <1>4 DEF WalkOK, List, End
  <1> QED
    BY <1>1, <1>2, <1>5, <1>6, <1>7 DEF IInv

LEMMA OpenPreserves == ASSUME IInv, Open PROVE IInv'
  <1>1. PICK category \in Categories, limit \in Limits :
           Ask([category |-> category, limit |-> limit, cursor |-> NoCursor])
    BY DEF Open
  <1>2. walk' = page'.items /\ back' = <<>>
    BY DEF Open
  <1> DEFINE q == [category |-> category, limit |-> limit, cursor |-> NoCursor]
             list == FilterItems(q.category)
  <1>3. catalogue \in Catalogues
    BY DEF IInv
  <1>4. q \in QuerySet /\ q.cursor = NoCursor /\ q.limit \in 1..100
    BY PagesAssumption DEF QuerySet, NoCursor, CursorSet
  <1>5. catalogue' = catalogue /\ query' = q /\ page' = ListItems(q)
    BY <1>1 DEF Ask
  <1> HIDE DEF q
  <1>6. catalogue' \in Catalogues /\ query' \in QuerySet /\ PageOK' /\ CursorOK'
    BY <1>1, <1>3, <1>4, AnswerOK DEF q
  <1>7. /\ page' # Refused /\ page'.first = 0
        /\ page'.items = SubSeq(list, 1, 0 + Len(page'.items))
    BY <1>3, <1>4, <1>5, FirstPage
  <1>8. List' = list
    BY <1>5 DEF List, FilterItems
  <1>9. WalkOK'
    BY <1>2, <1>7, <1>8 DEF WalkOK, End
  <1>10. BackOK'
    BY <1>2 DEF BackOK
  <1> QED
    BY <1>6, <1>9, <1>10 DEF IInv

LEMMA NextPreserves == ASSUME IInv, FollowNext PROVE IInv'
  <1> DEFINE q == [query EXCEPT !.cursor = page.next]
  <1>1. /\ page # Refused
        /\ End = page.first + query.limit /\ End < Len(List)
        /\ page' = PageAt(List, End, query.limit)
        /\ query' = q /\ q \in QuerySet /\ List' = List
    BY NextLeads
  <1>2. Ask(q) /\ back' = page.items
        /\ walk' = IF walk = <<>> THEN <<>> ELSE walk \o page'.items
    BY DEF FollowNext
  <1>3. query'.limit = query.limit
    BY <1>1 DEF QuerySet, IInv
  <1> HIDE DEF q
  <1>4. catalogue' \in Catalogues /\ query' \in QuerySet /\ PageOK' /\ CursorOK'
    BY <1>1, <1>2, AnswerOK DEF IInv
  <1>5. /\ IsList(List) /\ Len(List) \in Nat /\ query.limit \in 1..100
        /\ page.first \in 0..Len(List)
        /\ page.items = SubSeq(List, page.first + 1, End)
    BY <1>1, PageFacts
  <1>6. End \in 0..Len(List) /\ List \in Seq(ItemType)
    <2> DEFINE e == End
               n == Len(List)
               m == query.limit
               s == page.first
    <2>1. e = s + m /\ e < n /\ n \in Nat /\ m \in 1..100 /\ s \in 0..n
      BY <1>1, <1>5
    <2> HIDE DEF e, n, m, s
    <2>2. e \in 0..n
      BY <2>1
    <2> QED
      BY <1>5, <2>2 DEF e, n, IsList
  <1>7. /\ page' # Refused /\ page'.first = End
        /\ Len(page'.items) \in Nat
        /\ End + Len(page'.items) = MinOf(End + query.limit, Len(List))
        /\ page'.items = SubSeq(List, End + 1, End + Len(page'.items))
    <2>1. Shows(PageAt(List, End, query.limit), List, End, query.limit)
      BY <1>5, <1>6, PageShows
    <2> QED
      BY <1>1, <2>1 DEF Shows
  <1>8. End' = End + Len(page'.items)
    BY <1>7 DEF End
  <1>9. End' \in End..Len(List)
    <2>1. ASSUME NEW n, NEW m, NEW e, NEW k, n \in Nat, m \in 1..100, e \in 0..n,
                 k \in Nat, e + k = MinOf(e + m, n)
          PROVE  e + k \in e..n
      BY <2>1 DEF MinOf
    <2> QED
      BY <1>5, <1>6, <1>7, <1>8, <2>1
  <1>10. WalkOK'
    <2>1. CASE walk = <<>>
      BY <1>2, <2>1 DEF WalkOK
    <2>2. CASE walk # <<>>
      <3>1. walk = SubSeq(List, 1, End)
        BY <2>2 DEF IInv, WalkOK
      <3>2. walk' = SubSeq(List, 1, End) \o SubSeq(List, End + 1, End')
        BY <1>2, <1>7, <1>8, <2>2, <3>1
      <3>3. ASSUME NEW list \in Seq(ItemType), NEW e \in 0..Len(list),
                   NEW f \in e..Len(list)
            PROVE  SubSeq(list, 1, e) \o SubSeq(list, e + 1, f) =
                      SubSeq(list, 1, f)
        <4>1. 1 \in 1..Len(list) + 1 /\ e \in 1 - 1..Len(list)
          OBVIOUS
        <4> QED
          BY <4>1, ConcatAdjacentSubSeq
      <3>4. walk' = SubSeq(List, 1, End')
        BY <1>6, <1>9, <3>2, <3>3
      <3> QED
        BY <1>1, <1>7, <3>4 DEF WalkOK
    <2> QED
      BY <2>1, <2>2
  <1>11. BackOK'
    <2>1. page'.first >= query.limit /\ page'.first - query.limit = page.first
      <3> DEFINE e == End
                 n == Len(List)
                 m == query.limit
                 s == page.first
      <3>1. e = s + m /\ n \in Nat /\ m \in 1..100 /\ s \in 0..n
        BY <1>1, <1>5
      <3> HIDE DEF e, n, m, s
      <3>2. e >= m /\ e - m = s
        BY <3>1
      <3> QED
        BY <1>7, <3>2 DEF e, m, s
    <2>2. back' = SubSeq(List, page.first + 1, page'.first)
      BY <1>2, <1>5, <1>7
    <2> QED
      BY <1>1, <1>3, <1>7, <2>1, <2>2 DEF BackOK
  <1> QED
    BY <1>4, <1>10, <1>11 DEF IInv

LEMMA PrevPreserves == ASSUME IInv, FollowPrev PROVE IInv'
  <1> DEFINE q == [query EXCEPT !.cursor = page.prev]
  <1>1. Ask(q) /\ walk' = <<>> /\ back' = <<>>
    BY DEF FollowPrev
  <1>2. query' \in QuerySet
    BY PrevLeads
  <1>3. query' = q
    BY <1>1 DEF Ask
  <1> HIDE DEF q
  <1>4. catalogue' \in Catalogues /\ query' \in QuerySet /\ PageOK' /\ CursorOK'
    BY <1>1, <1>2, <1>3, AnswerOK DEF IInv
  <1>5. WalkOK' /\ BackOK'
    BY <1>1 DEF WalkOK, BackOK
  <1> QED
    BY <1>4, <1>5 DEF IInv

\* The links of a page, or of a refusal, are cursors.
LEMMA LinkType == ASSUME IInv PROVE page.next \in CursorSet /\ page.prev \in CursorSet
  <1>1. CASE page = Refused
    BY <1>1 DEF Refused, NoCursor, CursorSet
  <1>2. CASE page # Refused
    BY <1>2, PageFacts
  <1> QED
    BY <1>1, <1>2

LEMMA EditPreserves == ASSUME IInv, Edit PROVE IInv'
  <1>1. PICK category \in Categories, limit \in Limits,
             cursor \in Forged \union {page.next, page.prev, query.cursor} :
           Ask([category |-> category, limit |-> limit, cursor |-> cursor])
    BY DEF Edit
  <1> DEFINE q == [category |-> category, limit |-> limit, cursor |-> cursor]
  <1>2. cursor \in CursorSet
    <2>1. Forged \subseteq CursorSet
      BY PagesAssumption, TextIsParts DEF CursorSet
    <2>2. query.cursor \in CursorSet
      BY DEF IInv, QuerySet
    <2> QED
      BY <2>1, <2>2, LinkType
  <1>3. q \in QuerySet
    BY <1>2 DEF QuerySet
  <1> HIDE DEF q
  <1>4. catalogue' \in Catalogues /\ query' \in QuerySet /\ PageOK' /\ CursorOK'
    BY <1>1, <1>3, AnswerOK DEF IInv, q
  <1>5. WalkOK' /\ BackOK'
    BY DEF Edit, WalkOK, BackOK
  <1> QED
    BY <1>4, <1>5 DEF IInv

LEMMA StepPreserves == IInv /\ [Next]_vars => IInv'
  <1> SUFFICES ASSUME IInv, [Next]_vars PROVE IInv'
    OBVIOUS
  <1>1. CASE Open
    BY <1>1, OpenPreserves
  <1>2. CASE FollowNext
    BY <1>2, NextPreserves
  <1>3. CASE FollowPrev
    BY <1>3, PrevPreserves
  <1>4. CASE Edit
    BY <1>4, EditPreserves
  <1>5. CASE UNCHANGED vars
    <2>1. List' = List /\ End' = End
      BY <1>5 DEF vars, List, End, FilterItems
    <2> QED
      BY <1>5, <2>1 DEF vars, IInv, PageOK, CursorOK, WalkOK, BackOK
  <1> QED
    BY <1>1, <1>2, <1>3, <1>4, <1>5 DEF Next

\* Every page starts at a position of the list its query asks for, a walk has
\* shown the list up to its page, and the page that was left ends where the
\* page shown starts (Paginate, handler.go).
THEOREM Invariance == Spec => []IInv
  <1> QED
    BY InitEstablishes, StepPreserves, PTL DEF Spec
-----------------------------------------------------------------------------
(* The properties.                                                         *)

LEMMA WalkTiles == IInv => PagesTileTheList
  <1> SUFFICES ASSUME IInv, walk # <<>>
               PROVE  /\ walk = SubSeq(List, 1, End)
                      /\ page.next = NoCursor <=> Len(walk) = page.total
    BY DEF PagesTileTheList
  <1>1. page # Refused /\ walk = SubSeq(List, 1, End)
    BY DEF IInv, WalkOK
  <1>2. /\ IsList(List) /\ Len(List) \in Nat
        /\ page.first \in 0..Len(List)
        /\ End \in page.first..Len(List)
        /\ page.total = Len(List)
        /\ page.next = NoCursor <=> End = Len(List)
    BY <1>1, PageFacts
  <1>3. Len(walk) = End
    <2>1. ASSUME NEW list \in Seq(ItemType), NEW e \in 0..Len(list)
          PROVE  Len(SubSeq(list, 1, e)) = e
      <3>1. \A i \in 1..e : list[i] \in ItemType
        BY ElementOfSeq
      <3>2. Len(SubSeq(list, 1, e)) = IF 1 <= e THEN e - 1 + 1 ELSE 0
        BY <3>1, SubSeqProperties
      <3> QED
        BY <3>2
    <2>2. End \in 0..Len(List)
      <3>1. ASSUME NEW s, NEW n, NEW e, n \in Nat, s \in 0..n, e \in s..n
            PROVE  e \in 0..n
        BY <3>1
      <3> QED
        BY <1>2, <3>1
    <2> QED
      BY <1>1, <1>2, <2>1, <2>2 DEF IsList
  <1> QED
    BY <1>1, <1>2, <1>3

\* However many items the catalogue has and whatever the limit, following the
\* links from the first page shows the filtered list in order, and the link to
\* a next page is missing exactly when everything was shown (Paginate).
THEOREM WalksTile == Spec => []PagesTileTheList
  <1> QED
    BY Invariance, WalkTiles, PTL

LEMMA FirstPageIsAsked == IInv => StaleCursorIsRefused
  <1> SUFFICES ASSUME IInv, page.status = 200, page.first = 0
               PROVE  FirstIsAsked(query.cursor)
    BY DEF StaleCursorIsRefused, FirstIsAsked
  <1>1. page # Refused
    BY DEF Refused
  <1> QED
    BY <1>1 DEF IInv, CursorOK

\* The first page is shown only to a request that asks for it: a cursor of
\* another list, of another kind or that names nothing is refused, however it
\* is spelled (ListItems).
THEOREM StaleCursors == Spec => []StaleCursorIsRefused
  <1> QED
    BY Invariance, FirstPageIsAsked, PTL

\* What a step backwards shows: the page that starts a limit before this one,
\* or the first one.
LEMMA PrevShows ==
    ASSUME IInv, FollowPrev
    PROVE  /\ page'.status = 200
           /\ page'.first \in 0..(page.first - 1)
           /\ page'.first + Len(page'.items) >= page.first
           /\ Len(page'.items) # 0
           /\ page.first >= query.limit =>
                 page'.items = SubSeq(List, page.first - query.limit + 1,
                                      page.first)
  <1> DEFINE start == IF page.first <= query.limit THEN 0
                      ELSE page.first - query.limit
  <1>1. /\ page # Refused /\ page.first > 0
        /\ page' = PageAt(List, start, query.limit)
    BY PrevLeads
  <1>2. /\ IsList(List) /\ Len(List) \in Nat /\ query.limit \in 1..100
        /\ page.first \in 0..Len(List)
    BY <1>1, PageFacts
  <1>3. /\ start \in 0..Len(List) /\ start \in 0..(page.first - 1)
        /\ MinOf(start + query.limit, Len(List)) >= page.first
        /\ page.first >= query.limit =>
              /\ start = page.first - query.limit
              /\ MinOf(start + query.limit, Len(List)) = page.first
    <2> DEFINE f == page.first
               n == Len(List)
               m == query.limit
    <2>1. /\ n \in Nat /\ m \in 1..100 /\ f \in 0..n /\ f > 0
          /\ start = IF f <= m THEN 0 ELSE f - m
      BY <1>1, <1>2
    <2> HIDE DEF f, n, m, start
    <2>2. /\ start \in 0..n /\ start \in 0..(f - 1)
          /\ MinOf(start + m, n) >= f
          /\ f >= m => start = f - m /\ MinOf(start + m, n) = f
      BY <2>1 DEF MinOf
    <2> QED
      BY <2>2 DEF f, n, m
  <1> HIDE DEF start
  <1>4. /\ page'.status = 200 /\ page'.first = start
        /\ Len(page'.items) \in Nat
        /\ start + Len(page'.items) = MinOf(start + query.limit, Len(List))
        /\ page'.items = SubSeq(List, start + 1, start + Len(page'.items))
    <2>1. Shows(PageAt(List, start, query.limit), List, start, query.limit)
      BY <1>2, <1>3, PageShows
    <2> QED
      BY <1>1, <2>1 DEF Shows
  <1>5. Len(page'.items) # 0
    <2>1. ASSUME NEW f, NEW n, NEW s, NEW k, f \in 0..n, n \in Nat,
                 s \in 0..(f - 1), k = 0, s + k >= f
          PROVE  FALSE
      BY <2>1
    <2> QED
      BY <1>2, <1>3, <1>4, <2>1
  <1> QED
    BY <1>3, <1>4, <1>5

\* A link the server gave out is never refused and never leads to an empty
\* page (NextCursor and PrevCursor against Encode, DecodeCursor and ListItems).
THEOREM LinksAreGood == Spec => LinksLeadSomewhere
  <1>1. ASSUME IInv, FollowNext
        PROVE  page'.status = 200 /\ page'.items # <<>>
    <2>1. /\ page # Refused /\ End < Len(List)
          /\ End = page.first + query.limit
          /\ page' = PageAt(List, End, query.limit)
      BY <1>1, NextLeads
    <2>2. /\ IsList(List) /\ Len(List) \in Nat /\ query.limit \in 1..100
          /\ page.first \in 0..Len(List)
      BY <1>1, <2>1, PageFacts
    <2>3. /\ End \in 0..Len(List)
          /\ MinOf(End + query.limit, Len(List)) # End
      <3> DEFINE e == End
                 n == Len(List)
                 m == query.limit
                 s == page.first
      <3>1. e = s + m /\ e < n /\ n \in Nat /\ m \in 1..100 /\ s \in 0..n
        BY <2>1, <2>2
      <3> HIDE DEF e, n, m, s
      <3>2. e \in 0..n /\ MinOf(e + m, n) # e
        BY <3>1 DEF MinOf
      <3> QED
        BY <3>2 DEF e, n, m
    <2>4. /\ page'.status = 200
          /\ End + Len(page'.items) = MinOf(End + query.limit, Len(List))
      <3>1. Shows(PageAt(List, End, query.limit), List, End, query.limit)
        BY <2>2, <2>3, PageShows
      <3> QED
        BY <2>1, <3>1 DEF Shows
    <2>5. page'.items # <<>>
      <3>1. ASSUME page'.items = <<>> PROVE FALSE
        <4>1. Len(page'.items) = 0
          BY <3>1
        <4>2. ASSUME NEW e \in Nat PROVE e + 0 = e
          OBVIOUS
        <4>3. End \in Nat
          BY <2>2, <2>3
        <4> QED
          BY <2>3, <2>4, <4>1, <4>2, <4>3
      <3> QED
        BY <3>1
    <2> QED
      BY <2>4, <2>5
  <1>2. ASSUME IInv, FollowPrev
        PROVE  page'.status = 200 /\ page'.items # <<>>
    <2>1. page'.status = 200 /\ Len(page'.items) # 0
      BY <1>2, PrevShows
    <2>2. Len(<<>>) = 0
      OBVIOUS
    <2> QED
      BY <2>1, <2>2
  <1> QED
    BY <1>1, <1>2, Invariance, PTL DEF LinksLeadSomewhere

\* The page a step backwards shows starts before this one and reaches up to
\* it, whatever the limit was changed to in between (PrevCursor).
THEOREM NothingSkipped == Spec => NothingSkippedGoingBack
  <1>1. ASSUME IInv, FollowPrev
        PROVE  /\ page'.first < page.first
               /\ page'.first + Len(page'.items) >= page.first
    <2>1. /\ page'.first \in 0..(page.first - 1)
          /\ page'.first + Len(page'.items) >= page.first
      BY <1>1, PrevShows
    <2>2. page # Refused
      BY <1>1 DEF FollowPrev, Refused
    <2>3. page.first \in 0..Len(List) /\ Len(List) \in Nat
      BY <1>1, <2>2, PageFacts
    <2>4. ASSUME NEW f, NEW n, NEW s, n \in Nat, f \in 0..n, s \in 0..(f - 1)
          PROVE  s < f
      BY <2>4
    <2> QED
      BY <2>1, <2>3, <2>4
  <1> QED
    BY <1>1, Invariance, PTL DEF NothingSkippedGoingBack

\* A step forward and a step back show the same page again (NextCursor and
\* PrevCursor with the same limit).
THEOREM BackUndoes == Spec => BackUndoesNext
  <1>1. ASSUME IInv, FollowPrev, back # <<>>
        PROVE  page'.items = back
    BY <1>1, PrevShows DEF IInv, BackOK
  <1> QED
    BY <1>1, Invariance, PTL DEF BackUndoesNext
=============================================================================
