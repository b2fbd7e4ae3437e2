--------------------------- MODULE ActivityPages ---------------------------
(***************************************************************************)
(* The activity of a repository through the proxy: the handler of GET      *)
(* .../activity translates the cursor of its client into the `after` of    *)
(* the upstream, and the Link header of the upstream into a cursor.        *)
(*                                                                         *)
(* The upstream's feed is newest first and grows while a client walks it;  *)
(* its events are numbered from the oldest on, and the cursor of an event  *)
(* is what the upstream makes of its number, however long.                 *)
(***************************************************************************)
EXTENDS Cursors

CONSTANTS
    MaxEvents,      \* bound: the feed stops growing here
    Limits,         \* values of the limit parameter the client uses
    AfterLength,    \* how many bytes the upstream's cursor of an event has
    Forged          \* cursors the client makes up

\* Nothing bounds what the upstream makes its cursors of.
ASSUME ActivityAssumption ==
    /\ MaxEvents \in Nat \ {0}
    /\ Limits \subseteq 1..100
    /\ AfterLength \in [1..MaxEvents -> Nat]

VARIABLES
    newest,     \* the number of the newest event
    query,      \* the last request: limit, cursor
    page,       \* its response
    walk,       \* the events the client saw since the first page
    top         \* the first of them; 0 when it is not walking

vars == <<newest, query, page, walk, top>>

CursorType == "gh-activity"
Failures == {403, 404, 429, 502, 503}
-----------------------------------------------------------------------------
(* The upstream *)

\* The cursor of an event; it may contain a colon.
After(n) == <<"v2", n>>

MinOf(a, b) == IF a <= b THEN a ELSE b

\* The newest event after a cursor.  A cursor that names no event starts at
\* the newest, as a first request does.
NewestAfter(value) ==
    LET named == {n \in 1..MaxEvents : After(n) = value}
    IN  IF named = {} THEN newest
        ELSE MinOf(newest, (CHOOSE n \in named : TRUE) - 1)

Events(value, limit) ==
    LET from == NewestAfter(value)
    IN  [i \in 1..MinOf(limit, from) |-> from - i + 1]

Link(rel, after) == [rel |-> rel, brackets |-> TRUE, after |-> after]

\* There is more after the events of a page.
More(events) == events # <<>> /\ events[Len(events)] # 1

\* What becomes of a link to the next page with a comma in its URL, and one
\* that names the page in another way than by `after`.
CutLinks(after) == {[Link("next", after) EXCEPT !.brackets = FALSE],
                    Link("next", NoValue)}

\* A whole link to the next page if there is more, among other links.
LinkHeaders(events) ==
    LET next == Link("next", After(events[Len(events)]))
        prev == Link("prev", NoValue)
    IN  IF ~More(events) THEN {<<>>, <<prev>>}
        ELSE {<<next>>, <<prev, next>>, <<next, prev>>} \union
             {<<cut, next>> : cut \in CutLinks(next.after)}

\* There is more, but no link to it can be read.
CutHeaders(events) ==
    IF ~More(events) THEN {}
    ELSE {<<>>} \union {<<cut>> : cut \in CutLinks(After(events[Len(events)]))}

\* Bug: only the first link of the header is looked at.
MutantParseLinkHeader(header) ==
    IF header # <<>> /\ header[1].rel = "next" THEN header[1].after ELSE NoValue

\* The cursor of the first link to a next page that has one.
ParseLinkHeader(header) ==
    LET good == {i \in DOMAIN header : /\ header[i].rel = "next"
                                       /\ header[i].brackets
                                       /\ header[i].after # NoValue}
    IN  IF good = {} THEN NoValue
        ELSE header[CHOOSE i \in good : \A j \in good : i <= j].after
-----------------------------------------------------------------------------
(* The handler *)

\* `cut` is no part of a response: the upstream had more than it could say.
Failed(status) ==
    [status |-> status, events |-> <<>>, next |-> NoCursor, cut |-> FALSE]

\* The cursor of the service for an event, and its length: "gh-activity:" and
\* the cursor of the upstream, in base64.
Own(n) == Encode(CursorType, After(n))
OwnLength(n) == ((12 + AfterLength[n]) * 8 + 5) \div 6

MaxCursorLength == 2048

\* Bug: the longest cursor is refused.
MutantFits(c) ==
    \A n \in 1..MaxEvents : c.text = Own(n).text => OwnLength(n) < MaxCursorLength

\* The schema of the parameter.  A cursor of no event is short.
Fits(c) ==
    \A n \in 1..MaxEvents : c.text = Own(n).text => OwnLength(n) <= MaxCursorLength

NextCursor(value) ==
    IF value = NoValue THEN NoCursor ELSE Encode(CursorType, value)

\* What GET .../activity may answer to q.
Responses(q) ==
    LET value == DecodeCursor(q.cursor).value
        events == Events(value, q.limit)
    IN  IF ~Fits(q.cursor) THEN {Failed(422)}
        ELSE IF ~Accepts(q.cursor, CursorType) THEN {Failed(400)}
        ELSE {Failed(status) : status \in Failures} \union
             {[status |-> 200, events |-> events,
               next |-> NextCursor(ParseLinkHeader(header)),
               cut |-> header \in CutHeaders(events)] :
                header \in LinkHeaders(events) \union CutHeaders(events)}

\* A failed page shows nothing, and what was seen before stays seen.
ListActivity(q) ==
    /\ query' = q
    /\ page' \in Responses(q)
    /\ UNCHANGED newest
-----------------------------------------------------------------------------
(* The client *)

\* A first request; the walk starts at what is newest when it is answered.
Open ==
    \E limit \in Limits :
        /\ ListActivity([limit |-> limit, cursor |-> NoCursor])
        /\ walk' = page'.events
        /\ top' = IF page'.status = 200 THEN newest ELSE 0

Continue(q) ==
    /\ ListActivity(q)
    /\ walk' = IF top = 0 THEN <<>> ELSE walk \o page'.events
    /\ UNCHANGED top

\* The link keeps the limit; the client may choose another.
FollowNext ==
    /\ page.next # NoCursor
    /\ \E limit \in Limits :
          Continue([limit |-> limit, cursor |-> page.next])

Retry == page.status \in Failures /\ query.cursor # NoCursor /\ Continue(query)

\* The client makes up a cursor, or brings one from another list.
Edit ==
    /\ \E limit \in Limits, cursor \in Forged :
          ListActivity([limit |-> limit, cursor |-> cursor])
    /\ walk' = <<>>
    /\ top' = 0

Push ==
    /\ newest < MaxEvents
    /\ newest' = newest + 1
    /\ UNCHANGED <<query, page, walk, top>>

Init ==
    /\ newest \in 0..MaxEvents
    /\ query \in [limit : Limits, cursor : {NoCursor}]
    /\ page \in Responses(query)
    /\ walk = page.events
    /\ top = IF page.status = 200 THEN newest ELSE 0

Next == Open \/ FollowNext \/ Retry \/ Edit \/ Push

Spec == Init /\ [][Next]_vars
-----------------------------------------------------------------------------
(* Properties *)

\* A walk shows the feed as it was at its first page, newest first, nothing
\* twice and nothing left out, also when events are pushed, pages fail and
\* are asked for again or the limit is changed on the way; and it ends only
\* when everything was shown, or where the upstream's header has no link to
\* the next page that could be read (ListActivity, parseLinkHeader,
\* BuildLinkHeader).
WalkShowsTheFeed ==
    top # 0 =>
        /\ walk = [i \in 1..Len(walk) |-> top - i + 1]
        /\ page.status = 200 /\ page.next = NoCursor => Len(walk) = top \/ page.cut

\* The longest cursor of the upstream whose link the service takes back:
\* three quarters of the bound, less "gh-activity:".
Room == 1524

\* A link the service gave out is served, or fails upstream, and what it leads
\* to is not empty; it is refused only as too long, exactly when the cursor of
\* the upstream it wraps has no room (Encode, DecodeCursor and the bound of
\* Params, which the handler does not look at when it makes a link).
OwnLinksAreServed ==
    [][FollowNext =>
        /\ page'.status \in {200, 422} \union Failures
        /\ page'.status = 200 => page'.events # <<>>
        /\ \E n \in 1..MaxEvents :
              /\ page.next = Own(n)
              /\ page'.status = 422 <=> AfterLength[n] > Room]_vars
=============================================================================
