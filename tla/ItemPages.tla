----------------------------- MODULE ItemPages -----------------------------
(***************************************************************************)
(* Cursor pagination of GET /items (internal/http/v1/items over            *)
(* internal/platform/pagination), and a client that walks the pages: it    *)
(* follows the links of the Link header, or edits the query it was given.  *)
(***************************************************************************)
EXTENDS Cursors

CONSTANTS
    Catalogues, \* the lists of [id, category] the pages may be made of
    Categories, \* values of the category parameter, NoFilter included
    NoFilter,   \* no category parameter
    Limits,     \* values of the limit parameter the client uses
    Forged      \* cursors the client makes up

\* An id is not empty and names one item; the values of limit are those its
\* schema admits; a cursor is text.
ASSUME PagesAssumption ==
    /\ \A list \in Catalogues :
          /\ list \in Seq([id : Seq(STRING), category : STRING])
          /\ \A i, j \in DOMAIN list : list[i].id = list[j].id => i = j
          /\ \A i \in DOMAIN list : list[i].id \notin {<<>>, NoValue}
    /\ Limits \subseteq 1..100
    /\ NoFilter \in Categories
    /\ Forged \subseteq [plain : BOOLEAN, base64 : BOOLEAN, text : Seq(STRING)]

VARIABLES
    catalogue,  \* the items the process serves; they never change
    query,      \* the last request: category, limit, cursor
    page,       \* its response
    walk,       \* what it saw since the first page, going forward only
    back        \* the page it left by its last step forward

vars == <<catalogue, query, page, walk, back>>

Item(n, c) == [id |-> <<n>>, category |-> c]

\* The items of model.go: the number in the id, and the category.
MockItems == <<
    Item("001", "electronics"), Item("002", "electronics"),
    Item("003", "tools"), Item("004", "electronics"),
    Item("005", "electronics"), Item("006", "accessories"),
    Item("007", "accessories"), Item("008", "electronics"),
    Item("009", "electronics"), Item("010", "electronics"),
    Item("011", "robotics"), Item("012", "robotics"), Item("013", "power"),
    Item("014", "power"), Item("015", "electronics"),
    Item("016", "electronics"), Item("017", "components"),
    Item("018", "components"), Item("019", "components"),
    Item("020", "accessories"), Item("021", "tools"), Item("022", "tools"),
    Item("023", "tools"), Item("024", "tools"), Item("025", "electronics"),
    Item("026", "electronics"), Item("027", "tools"),
    Item("028", "electronics"), Item("029", "electronics"),
    Item("030", "accessories") >>
-----------------------------------------------------------------------------
(* Paginate; positions count from zero, as in the code *)

\* What is kept of the first n items of a list.
Kept(list, category) ==
    LET kept[n \in 0..Len(list)] ==
          IF n = 0 THEN <<>>
          ELSE IF list[n].category = category
               THEN Append(kept[n - 1], list[n]) ELSE kept[n - 1]
    IN  kept

FilterItems(category) ==
    IF category = NoFilter THEN catalogue
    ELSE Kept(catalogue, category)[Len(catalogue)]

FindItemIndex(list, id) ==
    LET at == {i \in DOMAIN list : list[i].id = id}
    IN  IF at = {} THEN -1 ELSE (CHOOSE i \in at : \A j \in at : i <= j) - 1

\* An unknown value starts at the first item.
StartIdx(list, value) ==
    IF value = NoValue THEN 0 ELSE FindItemIndex(list, value) + 1

MinOf(a, b) == IF a <= b THEN a ELSE b

\* Bug: the last item of the list is taken for another page.
MutantNextCursor(list, start, limit) ==
    LET end == MinOf(start + limit, Len(list))
    IN  IF end + 1 < Len(list) /\ end > start
        THEN Encode("item", list[end].id) ELSE NoCursor

NextCursor(list, start, limit) ==
    LET end == MinOf(start + limit, Len(list))
    IN  IF end < Len(list) /\ end > start
        THEN Encode("item", list[end].id) ELSE NoCursor

\* Bug: off by one, in Go's items[startIdx-limit].
MutantPrevCursor(list, start, limit) ==
    CASE start = 0 -> NoCursor
      [] start > 0 /\ start <= limit -> Encode("item", NoValue)
      [] OTHER -> Encode("item", list[start - limit + 1].id)

\* Bug: the page before is always the first one.
MutantPrevCursorZero(list, start, limit) ==
    IF start = 0 THEN NoCursor ELSE Encode("item", NoValue)

\* The first page is named by an empty value, any other by the item before it.
PrevCursor(list, start, limit) ==
    CASE start = 0 -> NoCursor
      [] start > 0 /\ start <= limit -> Encode("item", NoValue)
      [] OTHER -> Encode("item", list[start - limit].id)

Paginate(list, value, limit) ==
    LET start == StartIdx(list, value)
    IN  [status |-> 200,
         first |-> start,
         items |-> SubSeq(list, start + 1, MinOf(start + limit, Len(list))),
         total |-> Len(list),
         next |-> NextCursor(list, start, limit),
         prev |-> PrevCursor(list, start, limit)]

Refused == [status |-> 400, first |-> 0, items |-> <<>>, total |-> 0,
            next |-> NoCursor, prev |-> NoCursor]

\* Bug: the value is looked up in the catalogue, not in the category.
MutantKnown(list, value) ==
    value = NoValue \/ FindItemIndex(catalogue, value) # -1

Known(list, value) ==
    value = NoValue \/ FindItemIndex(list, value) # -1

\* The handler of GET /items.
ListItems(q) ==
    LET cursor == DecodeCursor(q.cursor)
        list == FilterItems(q.category)
    IN  IF /\ Accepts(q.cursor, "item")
           /\ Known(list, cursor.value)
        THEN Paginate(list, cursor.value, q.limit)
        ELSE Refused
-----------------------------------------------------------------------------
(* The client *)

Ask(q) ==
    /\ query' = q
    /\ page' = ListItems(q)
    /\ UNCHANGED catalogue

\* A first request, or any later one without a cursor.
Open ==
    \E category \in Categories, limit \in Limits :
        /\ Ask([category |-> category, limit |-> limit, cursor |-> NoCursor])
        /\ walk' = page'.items
        /\ back' = <<>>

\* The link keeps the category and the limit of the request
\* (BuildLinkHeader).
FollowNext ==
    /\ page.next # NoCursor
    /\ Ask([query EXCEPT !.cursor = page.next])
    /\ walk' = IF walk = <<>> THEN <<>> ELSE walk \o page'.items
    /\ back' = page.items

FollowPrev ==
    /\ page.prev # NoCursor
    /\ Ask([query EXCEPT !.cursor = page.prev])
    /\ walk' = <<>>
    /\ back' = <<>>

\* The client changes a parameter of a link, or the whole cursor.
Edit ==
    /\ \E category \in Categories, limit \in Limits,
          cursor \in Forged \union {page.next, page.prev, query.cursor} :
            /\ cursor # NoCursor
            /\ Ask([category |-> category, limit |-> limit, cursor |-> cursor])
    /\ walk' = <<>>
    /\ back' = <<>>

Init ==
    /\ catalogue \in Catalogues
    /\ \E category \in Categories, limit \in Limits :
          query = [category |-> category, limit |-> limit, cursor |-> NoCursor]
    /\ page = ListItems(query)
    /\ walk = page.items
    /\ back = <<>>

Next == Open \/ FollowNext \/ FollowPrev \/ Edit

Spec == Init /\ [][Next]_vars
-----------------------------------------------------------------------------
(* Properties *)

List == FilterItems(query.category)
End == page.first + Len(page.items)

\* The pages of a walk from the first page are the list, in order: nothing
\* is skipped or shown twice, and the link to a next page is missing exactly
\* when everything was shown (Paginate, endIdx and nextCursor).
PagesTileTheList ==
    walk # <<>> =>
        /\ walk = SubSeq(List, 1, End)
        /\ page.next = NoCursor <=> Len(walk) = page.total

\* A link the server gave out is good: it is never refused and never leads
\* to an empty page (cursors survive Encode and DecodeCursor, also when an id
\* contains a colon).
LinksLeadSomewhere ==
    [][FollowNext \/ FollowPrev => page'.status = 200 /\ page'.items # <<>>]_vars

\* Going back never jumps over an item, whatever the limit was changed to in
\* between: the previous page reaches up to the first item of this one.
NothingSkippedGoingBack ==
    [][FollowPrev => /\ page'.first < page.first
                     /\ page'.first + Len(page'.items) >= page.first]_vars

\* One step forward and one back shows the same page again.
BackUndoesNext ==
    [][FollowPrev /\ back # <<>> => page'.items = back]_vars

\* A cursor that does not belong to this list is refused, however it is
\* spelled; it never starts again from the first page, which is shown only to
\* a request without a cursor or with one that decodes to "item:" (ListItems;
\* Paginate alone would).
StaleCursorIsRefused ==
    page.status = 200 /\ page.first = 0 =>
        \/ query.cursor = NoCursor
        \/ DecodeCursor(query.cursor) = [type |-> "item", value |-> NoValue]
=============================================================================
