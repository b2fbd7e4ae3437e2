---------------------------- MODULE GitHubProxy ----------------------------
(***************************************************************************)
(* One request of the GitHub proxy: the handler (internal/http/v1/github), *)
(* the client it calls (internal/service/github) and the upstream.         *)
(*                                                                         *)
(* The upstream answers with a header and then a body, read in units up to *)
(* a limit; what is left of it is drained up to a second limit.  Two       *)
(* timers run: the request context and the timeout of the HTTP client.     *)
(* Time passes only while the handler waits for the upstream, and never    *)
(* beyond a timer that is due.                                             *)
(***************************************************************************)
EXTENDS Integers, Sequences

CONSTANTS
    MaxResponse,    \* maxResponseSize, in units of the body
    MaxDrain,       \* maxDrainSize
    RequestTimeout, \* the deadline of the request context, in ticks
    ClientTimeout   \* the timeout of the HTTP client

ASSUME ProxyAssumption ==
    {MaxResponse, MaxDrain, RequestTimeout, ClientTimeout} \subseteq Nat \ {0}

VARIABLES
    call,       \* the operation, and the cursor the client sent
    at,         \* where the handler is
    age,        \* ticks since the upstream was called
    ended,      \* how the call was cut short, if it was
    up,         \* the header of the upstream's response
    got,        \* units of the body read by ReadAll
    drained,    \* units read by closeResponse
    body,       \* what became of the body
    err,        \* the error of the service call
    logs,       \* log entries about the failure
    answer      \* the response of the handler

vars == <<call, at, age, ended, up, got, drained, body, err, logs, answer>>

\* The methods of Service, and those whose result has required timestamps.
Operations == {"GetOwner", "ListRepos", "GetRepo", "ListActivity",
               "ListLanguages", "ListTags"}
NeedsTimes == {"GetOwner", "ListRepos", "GetRepo", "ListActivity"}

Cursors == {"none", "own", "foreign", "broken"}
Statuses == {200, 403, 404, 429, 500}
Hints == {"none", "later"}
Kinds == {"none", "deadline", "canceled", "other",
          "not_found", "rate_limited", "forbidden", "upstream"}

\* Documents that end: usable, usable but for a timestamp, not decodable.
Documents == {"complete", "untimed", "garbage"}

NoHeader == [status |-> 0, remaining |-> "none", retryAfter |-> "none",
             reset |-> "none"]
Error(kind) == [kind |-> kind, retryAfter |-> "none", reset |-> "none"]
NoError == Error("none")
Answer(status) == [status |-> status, retryAfter |-> "none", reset |-> "none"]
NoAnswer == Answer(0)

Places == {"called", "waiting", "reading", "draining", "returning", "answered"}

Usable == body = "complete" \/ (body = "untimed" /\ call.op \notin NeedsTimes)
-----------------------------------------------------------------------------
(* The handler up to its call *)

BadCursor == call.cursor \in {"foreign", "broken"}

RejectCursor ==
    /\ at = "called"
    /\ BadCursor
    /\ at' = "answered"
    /\ answer' = Answer(400)
    /\ UNCHANGED <<call, age, ended, up, got, drained, body, err, logs>>

DoRequest ==
    /\ at = "called"
    /\ ~BadCursor
    /\ at' = "waiting"
    /\ UNCHANGED <<call, age, ended, up, got, drained, body, err, logs, answer>>
-----------------------------------------------------------------------------
(* The response *)

\* isGitHubRateLimitResponse, of a header h.
RateLimited(h) ==
    \/ h.status = 429
    \/ h.status = 403 /\ (h.remaining = "0" \/ h.retryAfter # "none")

UpstreamError(h, kind) ==
    [kind |-> kind, retryAfter |-> h.retryAfter, reset |-> h.reset]

\* Bug: a 403 that asks to retry later is taken for a denial.
MutantStatusError(h) ==
    CASE h.status = 200 -> NoError
      [] h.status = 404 -> UpstreamError(h, "not_found")
      [] h.status = 429 -> UpstreamError(h, "rate_limited")
      [] h.status = 403 -> UpstreamError(h, IF h.remaining = "0"
                                            THEN "rate_limited" ELSE "forbidden")
      [] OTHER -> UpstreamError(h, "upstream")

StatusError(h) ==
    CASE h.status = 200 -> NoError
      [] h.status = 404 -> UpstreamError(h, "not_found")
      [] RateLimited(h) -> UpstreamError(h, "rate_limited")
      [] h.status = 403 /\ ~RateLimited(h) -> UpstreamError(h, "forbidden")
      [] OTHER -> UpstreamError(h, "upstream")

StatusLog(kind) ==
    CASE kind = "rate_limited" -> <<"rate limit exceeded">>
      [] kind = "forbidden" -> <<"access denied">>
      [] OTHER -> <<>>

\* The header arrives; every status but 200 decides the outcome at once.
DecodeStatus ==
    /\ at = "waiting"
    /\ \E h \in [status : Statuses, remaining : {"0", "1"},
                 retryAfter : Hints, reset : Hints] :
          /\ up' = h
          /\ err' = StatusError(h)
          /\ logs' = StatusLog(StatusError(h).kind)
          /\ at' = IF h.status = 200 THEN "reading" ELSE "draining"
    /\ UNCHANGED <<call, age, ended, got, drained, body, answer>>

TooLong(n) == n > MaxResponse

ReadEnds == body # "open" \/ got > MaxResponse \/ ended # "no"

\* Bug: closing a response waits for the rest of it, whatever happens.
MutantDrainEnds == body # "open" \/ drained = MaxDrain

DrainEnds == body # "open" \/ drained = MaxDrain \/ ended # "no"

\* The next unit of the body, for the reader that asked for it.
Chunk ==
    /\ body = "open"
    /\ \/ /\ at = "reading" /\ got <= MaxResponse
          /\ got' = got + 1
          /\ UNCHANGED drained
       \/ /\ at = "draining" /\ drained < MaxDrain
          /\ drained' = drained + 1
          /\ UNCHANGED got
    /\ UNCHANGED <<call, at, age, ended, up, body, err, logs, answer>>

BodyEnds ==
    /\ body = "open"
    /\ \/ at = "reading" /\ got <= MaxResponse
       \/ at = "draining" /\ drained < MaxDrain
    /\ \E b \in Documents \union {"broken"} : body' = b
    /\ UNCHANGED <<call, at, age, ended, up, got, drained, err, logs, answer>>

\* The connection fails before there is a header.
TransportFails ==
    /\ at = "waiting"
    /\ body' = "broken"
    /\ err' = Error("other")
    /\ at' = "returning"
    /\ UNCHANGED <<call, age, ended, up, got, drained, logs, answer>>
-----------------------------------------------------------------------------
(* The context and the timers *)

Due == age = RequestTimeout \/ age = ClientTimeout

Tick ==
    /\ \/ at = "waiting" /\ ended = "no"
       \/ at = "reading" /\ ~ReadEnds
       \/ at = "draining" /\ ~DrainEnds
    /\ ~(Due /\ ended = "no")
    /\ age' = age + 1
    /\ UNCHANGED <<call, at, ended, up, got, drained, body, err, logs, answer>>

\* Bug: nothing bounds a call.
MutantTimerFires == FALSE /\ UNCHANGED vars

\* Both timers end the call with context.DeadlineExceeded.
TimerFires ==
    /\ at \in {"waiting", "reading", "draining"}
    /\ Due
    /\ ended = "no"
    /\ ended' = "deadline"
    /\ UNCHANGED <<call, at, age, up, got, drained, body, err, logs, answer>>

ClientGone ==
    /\ at # "answered"
    /\ ended = "no"
    /\ ended' = "canceled"
    /\ UNCHANGED <<call, at, age, up, got, drained, body, err, logs, answer>>

\* The call returns without a response.
Abandon ==
    /\ at = "waiting"
    /\ ended # "no"
    /\ body' = "cut"
    /\ err' = Error(ended)
    /\ at' = "returning"
    /\ UNCHANGED <<call, age, ended, up, got, drained, logs, answer>>
-----------------------------------------------------------------------------
(* The end of the call *)

\* decodeResponse of a 200, and the timestamps of the result.
DecodeError ==
    CASE TooLong(got) -> Error("other")
      [] ~TooLong(got) /\ body = "broken" -> Error("other")
      [] ~TooLong(got) /\ body = "open" -> Error(ended)
      [] OTHER -> IF Usable THEN NoError ELSE Error("other")

\* A read that failed with the context fails again.
DecodeBody ==
    /\ at = "reading"
    /\ ReadEnds
    /\ err' = DecodeError
    /\ body' = IF body = "open" /\ got <= MaxResponse THEN "cut" ELSE body
    /\ at' = "draining"
    /\ UNCHANGED <<call, age, ended, up, got, drained, logs, answer>>

CloseResponse ==
    /\ at = "draining"
    /\ DrainEnds
    /\ at' = "returning"
    /\ UNCHANGED <<call, age, ended, up, got, drained, body, err, logs, answer>>

MapServiceError(e) ==
    CASE e.kind = "none" -> Answer(200)
      [] e.kind = "deadline" -> Answer(503)
      [] e.kind = "not_found" -> Answer(404)
      [] e.kind = "rate_limited" ->
            [status |-> 429, retryAfter |-> e.retryAfter, reset |-> e.reset]
      [] e.kind = "forbidden" -> Answer(403)
      [] OTHER -> Answer(502)

\* Bug: what the client logged is logged again.
MutantServiceLog(kind) ==
    CASE kind = "deadline" -> <<"timed out">>
      [] kind \in {"none", "not_found"} -> <<>>
      [] OTHER -> <<"failed">>

ServiceLog(kind) ==
    CASE kind = "deadline" -> <<"timed out">>
      [] kind \in {"upstream", "other", "canceled"} -> <<"failed">>
      [] OTHER -> <<>>

Return ==
    /\ at = "returning"
    /\ at' = "answered"
    /\ answer' = MapServiceError(err)
    /\ logs' = logs \o ServiceLog(err.kind)
    /\ UNCHANGED <<call, age, ended, up, got, drained, body, err>>
-----------------------------------------------------------------------------
Init ==
    /\ call \in [op : Operations, cursor : Cursors]
    /\ call.op # "ListActivity" => call.cursor = "none"
    /\ at = "called"
    /\ age = 0
    /\ ended = "no"
    /\ up = NoHeader
    /\ got = 0
    /\ drained = 0
    /\ body = "open"
    /\ err = NoError
    /\ logs = <<>>
    /\ answer = NoAnswer

Handler == RejectCursor \/ DoRequest \/ Abandon \/ DecodeBody
           \/ CloseResponse \/ Return

Upstream == DecodeStatus \/ Chunk \/ BodyEnds \/ TransportFails

Next == Handler \/ Upstream \/ Tick \/ TimerFires \/ ClientGone

Spec == Init /\ [][Next]_vars

\* The goroutine runs, time passes and the timers fire; nothing is assumed
\* of the upstream or of the client.
FairSpec == Spec /\ WF_vars(Handler) /\ WF_vars(Tick) /\ WF_vars(TimerFires)
-----------------------------------------------------------------------------
(* Properties *)

\* A whole document, no longer than the limit, was read and understood.
Delivered == up.status = 200 /\ got <= MaxResponse /\ Usable

\* The answer says what happened upstream: a result exactly when a whole
\* document arrived (also one as long as the limit), 403, 404 and 429
\* exactly when the upstream said so, 503 exactly when a timer cut the call
\* short, 502 for everything else, and a 429 hands on when the upstream wants
\* to be asked again (mapServiceError over decodeResponse).
AnswerTellsWhatHappened ==
    at = "answered" =>
        /\ answer.status = 400 <=> BadCursor
        /\ answer.status = 200 <=> Delivered
        /\ answer.status = 404 <=> up.status = 404
        /\ answer.status = 429 <=>
              \/ up.status = 429
              \/ up.status = 403 /\ (up.remaining = "0" \/ up.retryAfter # "none")
        /\ answer.status = 403 <=>
              up.status = 403 /\ up.remaining # "0" /\ up.retryAfter = "none"
        /\ answer.status = 503 <=> body = "cut" /\ ended = "deadline"
        /\ answer.retryAfter = IF answer.status = 429 THEN up.retryAfter ELSE "none"
        /\ answer.reset = IF answer.status = 429 THEN up.reset ELSE "none"

\* Whatever the upstream does, the handler does not wait beyond the
\* deadline of its request, closing the response included, and reads no more
\* of a body than the limit, one unit to tell that it is longer, and what is
\* drained (decodeResponse, closeResponse).
WorkIsBounded ==
    /\ age <= RequestTimeout
    /\ got <= MaxResponse + 1
    /\ drained <= MaxDrain

\* A call that failed is logged once, by the client or by the handler, also
\* one its own client gave up; a result, a refused cursor and a resource that
\* does not exist are not logged (decodeResponse, mapServiceError).
LoggedOnce ==
    at = "answered" =>
        Len(logs) = IF answer.status \in {200, 400, 404} THEN 0 ELSE 1

\* Every call ends, also when the upstream never answers or never stops.
EveryCallEnds == <>(at = "answered")
=============================================================================
