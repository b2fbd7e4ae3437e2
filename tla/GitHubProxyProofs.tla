------------------------- MODULE GitHubProxyProofs -------------------------
(***************************************************************************)
(* Proofs about GitHubProxy: the answer tells what happened upstream, a    *)
(* failure is logged once, and the work of a call is bounded, for every    *)
(* size of a response, of a drain and of the two timeouts.                 *)
(***************************************************************************)
EXTENDS GitHubProxy, TLAPS

Headers == [status : Statuses \union {0}, remaining : {"none", "0", "1"},
            retryAfter : Hints, reset : Hints]
Errors == [kind : Kinds, retryAfter : Hints, reset : Hints]
Codes == {0, 200, 400, 403, 404, 429, 502, 503}
Answers == [status : Codes, retryAfter : Hints, reset : Hints]

\* Types, and the bounds on what is read and drained of a body.
TypeOK ==
    /\ call \in [op : Operations, cursor : Cursors]
    /\ at \in Places
    /\ age \in 0..RequestTimeout
    /\ ended \in {"no", "deadline", "canceled"}
    /\ up \in Headers
    /\ got \in 0..(MaxResponse + 1)
    /\ drained \in 0..MaxDrain
    /\ body \in {"open", "broken", "cut"} \union Documents
    /\ err \in Errors
    /\ answer \in Answers

\* Before the header nothing of a response is known.
Untouched == up = NoHeader /\ got = 0 /\ body = "open"

\* What ReadAll and the decoder made of a 200.
ReadOutcome ==
    /\ got > MaxResponse => body # "cut" /\ err = Error("other")
    /\ got <= MaxResponse => body # "open"
    /\ body = "cut" => ended # "no" /\ err = Error(ended)
    /\ got <= MaxResponse /\ body # "cut" =>
          err = IF Usable THEN NoError ELSE Error("other")

\* The error of the call agrees with what was received.
Outcome ==
    /\ up.status = 0 =>
          /\ up = NoHeader
          /\ \/ body = "cut" /\ ended # "no" /\ err = Error(ended)
             \/ body = "broken" /\ err = Error("other")
    /\ up.status = 200 => ReadOutcome
    /\ up.status \notin {0, 200} => err = StatusError(up) /\ body # "cut"

\* What is known at each place.
ProgressOK ==
    /\ at \in {"called", "waiting"} => Untouched
    /\ at = "reading" =>
          /\ up.status = 200 /\ body # "cut"
          /\ body # "open" => got <= MaxResponse
    /\ at = "draining" => up.status # 0
    /\ at \in {"draining", "returning"} => Outcome
    /\ at \notin {"called", "answered"} => ~BadCursor
    /\ at = "answered" =>
          \/ BadCursor /\ answer = Answer(400) /\ Untouched
          \/ ~BadCursor /\ answer = MapServiceError(err) /\ Outcome

\* What is logged at each place.
LogOK ==
    /\ at \in {"called", "waiting", "reading"} => logs = <<>>
    /\ at \in {"draining", "returning"} => logs = StatusLog(err.kind)
    /\ at = "answered" =>
          IF BadCursor THEN logs = <<>>
          ELSE logs = StatusLog(err.kind) \o ServiceLog(err.kind)

IInv == TypeOK /\ ProgressOK /\ LogOK
-----------------------------------------------------------------------------
(* Lemmas about the mappings of errors                                     *)

\* The error of a header, by its status.
LEMMA StatusErrors ==
    ASSUME NEW h \in Headers, h.status # 0
    PROVE  /\ StatusError(h) \in Errors
           /\ h.status = 200 <=> StatusError(h).kind = "none"
           /\ h.status = 404 <=> StatusError(h).kind = "not_found"
           /\ RateLimited(h) <=> StatusError(h).kind = "rate_limited"
           /\ h.status = 403 /\ ~RateLimited(h) <=>
                 StatusError(h).kind = "forbidden"
           /\ StatusError(h).kind \in {"none", "not_found", "rate_limited",
                                       "forbidden", "upstream"}
           /\ h.status = 200 => StatusError(h) = NoError
           /\ h.status # 200 => /\ StatusError(h).retryAfter = h.retryAfter
                                /\ StatusError(h).reset = h.reset
  <1> DEFINE e == StatusError(h)
  <1>1. /\ h.status \in Statuses /\ h.retryAfter \in Hints /\ h.reset \in Hints
    BY DEF Headers
  <1>2. \A k \in Kinds : /\ UpstreamError(h, k) \in Errors
                         /\ UpstreamError(h, k).kind = k
                         /\ UpstreamError(h, k).retryAfter = h.retryAfter
                         /\ UpstreamError(h, k).reset = h.reset
    BY <1>1 DEF UpstreamError, Errors
  <1>3. NoError \in Errors /\ NoError.kind = "none"
    BY DEF NoError, Error, Errors, Kinds, Hints
  <1>4. CASE h.status = 200
    <2>1. e = NoError /\ ~RateLimited(h)
      BY <1>4 DEF StatusError, RateLimited
    <2> QED
      BY <1>3, <1>4, <2>1
  <1>5. CASE h.status = 404
    <2>1. e = UpstreamError(h, "not_found") /\ ~RateLimited(h)
      BY <1>5 DEF StatusError, RateLimited
    <2> QED
      BY <1>2, <1>5, <2>1 DEF Kinds
  <1>6. CASE RateLimited(h)
    <2>1. h.status \in {403, 429}
      BY <1>6 DEF RateLimited
    <2>2. e = UpstreamError(h, "rate_limited")
      BY <1>6, <2>1 DEF StatusError
    <2> QED
      BY <1>2, <1>6, <2>1, <2>2 DEF Kinds
  <1>7. CASE h.status = 403 /\ ~RateLimited(h)
    <2>1. e = UpstreamError(h, "forbidden")
      BY <1>7 DEF StatusError
    <2> QED
      BY <1>2, <1>7, <2>1 DEF Kinds
  <1>8. CASE h.status \notin {200, 404, 403} /\ ~RateLimited(h)
    <2>1. e = UpstreamError(h, "upstream")
      BY <1>8 DEF StatusError
    <2> QED
      BY <1>2, <1>8, <2>1 DEF Kinds
  <1> QED
    BY <1>4, <1>5, <1>6, <1>7, <1>8

\* An answer with a status alone.
LEMMA PlainAnswers ==
    ASSUME NEW status \in Codes
    PROVE  /\ Answer(status) \in Answers
           /\ Answer(status).status = status
           /\ Answer(status).retryAfter = "none" /\ Answer(status).reset = "none"
  BY DEF Answer, Answers, Hints

\* The answer to an error, by its kind.
LEMMA MappedErrors ==
    ASSUME NEW e \in Errors
    PROVE  /\ MapServiceError(e) \in Answers
           /\ MapServiceError(e).status \notin {0, 400}
           /\ MapServiceError(e).status = 200 <=> e.kind = "none"
           /\ MapServiceError(e).status = 404 <=> e.kind = "not_found"
           /\ MapServiceError(e).status = 429 <=> e.kind = "rate_limited"
           /\ MapServiceError(e).status = 403 <=> e.kind = "forbidden"
           /\ MapServiceError(e).status = 503 <=> e.kind = "deadline"
           /\ MapServiceError(e).retryAfter =
                IF e.kind = "rate_limited" THEN e.retryAfter ELSE "none"
           /\ MapServiceError(e).reset =
                IF e.kind = "rate_limited" THEN e.reset ELSE "none"
  <1> DEFINE a == MapServiceError(e)
  <1>1. e.kind \in Kinds /\ e.retryAfter \in Hints /\ e.reset \in Hints
    BY DEF Errors
  <1>2. CASE e.kind = "rate_limited"
    <2>1. a = [status |-> 429, retryAfter |-> e.retryAfter, reset |-> e.reset]
      BY <1>2 DEF MapServiceError
    <2>2. a \in Answers
      BY <1>1, <2>1 DEF Answers, Codes
    <2> QED
      BY <1>2, <2>1, <2>2
  <1>3. CASE e.kind # "rate_limited"
    <2> DEFINE s == CASE e.kind = "none" -> 200
                      [] e.kind = "deadline" -> 503
                      [] e.kind = "not_found" -> 404
                      [] e.kind = "forbidden" -> 403
                      [] OTHER -> 502
    <2>1. a = Answer(s)
      BY <1>1, <1>3 DEF MapServiceError, Kinds
    <2>2. s \in Codes
      BY DEF Codes
    <2>3. /\ s \notin {0, 400, 429}
          /\ s = 200 <=> e.kind = "none"
          /\ s = 404 <=> e.kind = "not_found"
          /\ s = 403 <=> e.kind = "forbidden"
          /\ s = 503 <=> e.kind = "deadline"
      BY <1>1, <1>3 DEF Kinds
    <2> HIDE DEF s
    <2>4. a.status = s /\ a.retryAfter = "none" /\ a.reset = "none" /\ a \in Answers
      BY <2>1, <2>2, PlainAnswers
    <2> QED
      BY <1>3, <2>3, <2>4
  <1> QED
    BY <1>2, <1>3

\* Between them the client and the handler log a failure once.
LEMMA LoggedKinds ==
    ASSUME NEW k \in Kinds
    PROVE  Len(StatusLog(k) \o ServiceLog(k)) =
             IF k \in {"none", "not_found"} THEN 0 ELSE 1
  BY DEF Kinds, StatusLog, ServiceLog

\* Errors made from a kind.
LEMMA ErrorTypes ==
    /\ NoError \in Errors /\ Error("other") \in Errors
    /\ Error("deadline") \in Errors /\ Error("canceled") \in Errors
  BY DEF NoError, Error, Errors, Kinds, Hints
-----------------------------------------------------------------------------
(* One lemma for the first state and one for each action                   *)

\* A call that has just come in.
LEMMA InitOK == Init => IInv
  <1> SUFFICES ASSUME Init PROVE IInv
    OBVIOUS
  <1>1. TypeOK
    <2>1. NoHeader \in Headers /\ NoAnswer \in Answers
      <3>1. 0 \in Codes
        BY DEF Codes
      <3>2. NoHeader \in Headers
        BY DEF Headers, NoHeader, Hints
      <3> QED
        BY <3>1, <3>2, PlainAnswers DEF NoAnswer
    <2>2. call \in [op : Operations, cursor : Cursors]
      BY DEF Init
    <2> QED
      BY <2>1, <2>2, ErrorTypes, ProxyAssumption DEF Init, TypeOK, Places
  <1>2. ProgressOK /\ LogOK
    BY DEF Init, ProgressOK, LogOK, Untouched
  <1> QED
    BY <1>1, <1>2 DEF IInv

\* A cursor of somebody else ends the call before it is made.
LEMMA RejectCursorOK ==
    ASSUME IInv, RejectCursor
    PROVE  IInv'
  <1>1. TypeOK'
    <2>1. answer' \in Answers
      <3>1. 400 \in Codes
        BY DEF Codes
      <3> QED
        BY <3>1, PlainAnswers DEF RejectCursor
    <2> QED
      BY <2>1 DEF IInv, TypeOK, RejectCursor, Places
  <1>2. ProgressOK' /\ LogOK'
    BY DEF IInv, ProgressOK, LogOK, RejectCursor, BadCursor, Untouched
  <1> QED
    BY <1>1, <1>2 DEF IInv

\* The upstream is called.
LEMMA DoRequestOK ==
    ASSUME IInv, DoRequest
    PROVE  IInv'
  <1>1. TypeOK'
    BY DEF IInv, TypeOK, DoRequest, Places
  <1>2. ProgressOK' /\ LogOK'
    BY DEF IInv, ProgressOK, LogOK, DoRequest, BadCursor, Untouched
  <1> QED
    BY <1>1, <1>2 DEF IInv

\* The header decides, or the body is read.
LEMMA DecodeStatusOK ==
    ASSUME IInv, DecodeStatus
    PROVE  IInv'
  <1> PICK h \in [status : Statuses, remaining : {"0", "1"},
                  retryAfter : Hints, reset : Hints] :
          /\ up' = h
          /\ err' = StatusError(h)
          /\ logs' = StatusLog(StatusError(h).kind)
          /\ at' = IF h.status = 200 THEN "reading" ELSE "draining"
    BY DEF DecodeStatus
  <1>1. h \in Headers /\ h.status # 0
    <2>1. h \in Headers
      BY DEF Headers
    <2>2. h.status # 0
      BY DEF Statuses
    <2> QED
      BY <2>1, <2>2
  <1>2. err' \in Errors
    BY <1>1, StatusErrors
  <1>3. /\ at = "waiting" /\ Untouched /\ logs = <<>> /\ ~BadCursor
        /\ UNCHANGED <<call, age, ended, got, drained, body, answer>>
    BY DEF IInv, ProgressOK, LogOK, DecodeStatus
  <1>4. TypeOK'
    BY <1>1, <1>2, <1>3 DEF IInv, TypeOK, Places
  <1>5. ProgressOK'
    BY <1>1, <1>3, ProxyAssumption
       DEF ProgressOK, Outcome, Untouched, BadCursor
  <1>6. LogOK'
    <2>1. logs' = StatusLog(err'.kind)
      OBVIOUS
    <2>2. h.status = 200 => StatusLog(err'.kind) = <<>>
      BY <1>1, StatusErrors DEF StatusLog
    <2> QED
      BY <1>3, <2>1, <2>2 DEF LogOK
  <1> QED
    BY <1>4, <1>5, <1>6 DEF IInv

\* A unit of the body is read or drained.
LEMMA ChunkOK ==
    ASSUME IInv, Chunk
    PROVE  IInv'
  <1>1. TypeOK'
    BY ProxyAssumption DEF IInv, TypeOK, Chunk
  <1>2. ProgressOK'
    BY DEF IInv, ProgressOK, Outcome, ReadOutcome, Chunk, BadCursor, Usable
  <1>3. LogOK'
    BY DEF IInv, LogOK, Chunk, BadCursor
  <1> QED
    BY <1>1, <1>2, <1>3 DEF IInv

\* The body ends while it is read or drained.
LEMMA BodyEndsOK ==
    ASSUME IInv, BodyEnds
    PROVE  IInv'
  <1>1. TypeOK'
    BY DEF IInv, TypeOK, BodyEnds
  <1>2. ProgressOK'
    BY ProxyAssumption DEF IInv, TypeOK, ProgressOK, Outcome, ReadOutcome, BodyEnds, BadCursor,
           Documents
  <1>3. LogOK'
    BY DEF IInv, LogOK, BodyEnds, BadCursor
  <1> QED
    BY <1>1, <1>2, <1>3 DEF IInv

\* The connection fails.
LEMMA TransportFailsOK ==
    ASSUME IInv, TransportFails
    PROVE  IInv'
  <1>1. TypeOK'
    BY ErrorTypes DEF IInv, TypeOK, TransportFails, Places
  <1>2. ProgressOK'
    <2>1. up = NoHeader /\ up' = up /\ ~BadCursor /\ ~BadCursor'
      BY DEF IInv, ProgressOK, Untouched, TransportFails, BadCursor
    <2>2. up'.status = 0
      BY <2>1 DEF NoHeader
    <2>3. at' = "returning" /\ body' = "broken" /\ err' = Error("other")
      BY DEF TransportFails
    <2> QED
      BY <2>1, <2>2, <2>3 DEF ProgressOK, Outcome
  <1>3. LogOK'
    BY DEF IInv, LogOK, TransportFails, StatusLog, Error
  <1> QED
    BY <1>1, <1>2, <1>3 DEF IInv

\* Time does not pass beyond a timer that is due.
LEMMA TickOK ==
    ASSUME IInv, Tick
    PROVE  IInv'
  <1>1. age # RequestTimeout
    BY DEF Tick, ReadEnds, DrainEnds, Due
  <1>2. TypeOK'
    BY <1>1, ProxyAssumption DEF IInv, TypeOK, Tick
  <1>3. ProgressOK'
    BY DEF IInv, ProgressOK, Outcome, ReadOutcome, Tick, BadCursor, Usable,
           Untouched
  <1>4. LogOK'
    BY DEF IInv, LogOK, Tick, BadCursor
  <1> QED
    BY <1>2, <1>3, <1>4 DEF IInv

\* What ended the call stays the same once it is known.
LEMMA EndOK ==
    ASSUME IInv, TimerFires \/ ClientGone
    PROVE  IInv'
  <1>1. /\ ended = "no" /\ ended' \in {"deadline", "canceled"}
        /\ UNCHANGED <<call, at, age, up, got, drained, body, err, logs, answer>>
    BY DEF TimerFires, ClientGone
  <1>2. TypeOK'
    BY <1>1 DEF IInv, TypeOK
  <1>3. ProgressOK'
    BY <1>1 DEF IInv, ProgressOK, Outcome, ReadOutcome, BadCursor, Usable,
           Untouched
  <1>4. LogOK'
    BY <1>1 DEF IInv, LogOK, BadCursor
  <1> QED
    BY <1>2, <1>3, <1>4 DEF IInv

\* The call returns without a response.
LEMMA AbandonOK ==
    ASSUME IInv, Abandon
    PROVE  IInv'
  <1>1. TypeOK'
    BY ErrorTypes DEF IInv, TypeOK, Abandon, Places
  <1>2. ProgressOK'
    <2>1. up = NoHeader /\ up' = up /\ ~BadCursor /\ ~BadCursor'
      BY DEF IInv, ProgressOK, Untouched, Abandon, BadCursor
    <2>2. up'.status = 0
      BY <2>1 DEF NoHeader
    <2>3. /\ at' = "returning" /\ body' = "cut" /\ err' = Error(ended)
          /\ ended' = ended /\ ended # "no"
      BY DEF Abandon
    <2> QED
      BY <2>1, <2>2, <2>3 DEF ProgressOK, Outcome
  <1>3. LogOK'
    BY DEF IInv, TypeOK, LogOK, Abandon, StatusLog, Error
  <1> QED
    BY <1>1, <1>2, <1>3 DEF IInv

\* The decoder sees a whole document, a broken one or one that is too long.
LEMMA DecodeBodyOK ==
    ASSUME IInv, DecodeBody
    PROVE  IInv'
  <1>1. /\ at = "reading" /\ up.status = 200 /\ body # "cut" /\ logs = <<>>
        /\ body # "open" => got <= MaxResponse
        /\ ~BadCursor /\ got \in Nat /\ MaxResponse \in Nat
    BY ProxyAssumption DEF IInv, TypeOK, ProgressOK, LogOK, DecodeBody
  <1>2. /\ ReadEnds /\ err' = DecodeError
        /\ body' = IF body = "open" /\ got <= MaxResponse THEN "cut" ELSE body
        /\ at' = "draining"
        /\ UNCHANGED <<call, age, ended, up, got, drained, logs, answer>>
    BY DEF DecodeBody
  <1>3. CASE got > MaxResponse
    <2>1. err' = Error("other") /\ body' = body
      BY <1>1, <1>2, <1>3 DEF DecodeError, TooLong
    <2>2. ReadOutcome'
      BY <1>1, <1>2, <1>3, <2>1 DEF ReadOutcome
    <2>3. err' \in Errors /\ StatusLog(err'.kind) = <<>>
      BY <2>1, ErrorTypes DEF StatusLog, Error
    <2> QED
      BY <1>1, <1>2, <2>1, <2>2, <2>3
         DEF IInv, TypeOK, ProgressOK, Outcome, LogOK, BadCursor, Places
  <1>4. CASE got <= MaxResponse /\ body = "open"
    <2>1. ended # "no" /\ err' = Error(ended) /\ body' = "cut"
      BY <1>1, <1>2, <1>4 DEF DecodeError, TooLong, ReadEnds
    <2>2. ReadOutcome'
      BY <1>1, <1>2, <1>4, <2>1 DEF ReadOutcome
    <2>3. err' \in Errors /\ StatusLog(err'.kind) = <<>>
      BY <2>1, ErrorTypes DEF IInv, TypeOK, StatusLog, Error
    <2> QED
      BY <1>1, <1>2, <2>1, <2>2, <2>3
         DEF IInv, TypeOK, ProgressOK, Outcome, LogOK, BadCursor, Places
  <1>5. CASE got <= MaxResponse /\ body # "open"
    <2>1. err' = (IF Usable THEN NoError ELSE Error("other")) /\ body' = body
      BY <1>1, <1>2, <1>5 DEF IInv, TypeOK, DecodeError, TooLong, Usable,
             Documents
    <2>2. ReadOutcome'
      BY <1>1, <1>2, <1>5, <2>1 DEF ReadOutcome, Usable
    <2>3. err' \in Errors /\ StatusLog(err'.kind) = <<>>
      BY <2>1, ErrorTypes DEF StatusLog, Error, NoError
    <2> QED
      BY <1>1, <1>2, <2>1, <2>2, <2>3
         DEF IInv, TypeOK, ProgressOK, Outcome, LogOK, BadCursor, Places
  <1> QED
    BY <1>1, <1>3, <1>4, <1>5

\* What was drained is forgotten.
LEMMA CloseResponseOK ==
    ASSUME IInv, CloseResponse
    PROVE  IInv'
  <1>1. TypeOK'
    BY DEF IInv, TypeOK, CloseResponse, Places
  <1>2. ProgressOK'
    BY DEF IInv, ProgressOK, Outcome, ReadOutcome, CloseResponse, BadCursor,
           Usable
  <1>3. LogOK'
    BY DEF IInv, LogOK, CloseResponse
  <1> QED
    BY <1>1, <1>2, <1>3 DEF IInv

\* The handler maps the error it was given.
LEMMA ReturnOK ==
    ASSUME IInv, Return
    PROVE  IInv'
  <1>1. TypeOK'
    <2>1. answer' \in Answers
      BY MappedErrors DEF IInv, TypeOK, Return
    <2> QED
      BY <2>1 DEF IInv, TypeOK, Return, Places
  <1>2. ProgressOK'
    BY DEF IInv, ProgressOK, Outcome, ReadOutcome, Return, BadCursor, Usable
  <1>3. LogOK'
    BY DEF IInv, ProgressOK, LogOK, Return, BadCursor
  <1> QED
    BY <1>1, <1>2, <1>3 DEF IInv

\* Every step keeps the invariant.
LEMMA StepOK == IInv /\ [Next]_vars => IInv'
  <1> SUFFICES ASSUME IInv, [Next]_vars PROVE IInv'
    OBVIOUS
  <1>1. ASSUME Handler PROVE IInv'
    BY <1>1, RejectCursorOK, DoRequestOK, AbandonOK, DecodeBodyOK,
       CloseResponseOK, ReturnOK DEF Handler
  <1>2. ASSUME Upstream PROVE IInv'
    BY <1>2, DecodeStatusOK, ChunkOK, BodyEndsOK, TransportFailsOK
       DEF Upstream
  <1>3. ASSUME Tick \/ TimerFires \/ ClientGone PROVE IInv'
    BY <1>3, TickOK, EndOK
  <1>4. ASSUME UNCHANGED vars PROVE IInv'
    BY <1>4 DEF vars, IInv, TypeOK, ProgressOK, LogOK, Untouched, Outcome,
           ReadOutcome, Usable, BadCursor
  <1> QED
    BY <1>1, <1>2, <1>3, <1>4 DEF Next

\* The error, the log and the answer agree with what the upstream sent, at
\* every place of the handler (decodeResponse, mapServiceError).
THEOREM Invariance == Spec => []IInv
  BY InitOK, StepOK, PTL DEF Spec
-----------------------------------------------------------------------------
(* What follows from the invariant                                         *)

\* Every variable keeps its type.
THEOREM TypeCorrect == Spec => []TypeOK
  BY Invariance, PTL DEF IInv

\* Whatever the upstream, the timers and the client do, the answer says what
\* happened: a result exactly for a whole document within the limit, an
\* error that names the cause otherwise (mapServiceError).
THEOREM AnswersAreTrue == Spec => []AnswerTellsWhatHappened
  <1>1. IInv => AnswerTellsWhatHappened
    <2> SUFFICES ASSUME IInv, at = "answered" PROVE AnswerTellsWhatHappened
      BY DEF AnswerTellsWhatHappened
    <2>1. CASE BadCursor
      <3>1. up = NoHeader /\ body = "open" /\ answer = Answer(400)
        BY <2>1 DEF IInv, ProgressOK, Untouched
      <3>2. /\ up.status = 0 /\ answer.status = 400
            /\ answer.retryAfter = "none" /\ answer.reset = "none"
        BY <3>1 DEF Answer, NoHeader
      <3> QED
        BY <2>1, <3>1, <3>2 DEF AnswerTellsWhatHappened, Delivered
    <2>2. CASE ~BadCursor
      <3>1. answer = MapServiceError(err) /\ Outcome
        BY <2>2 DEF IInv, ProgressOK
      <3>2. err \in Errors /\ up \in Headers
        BY DEF IInv, TypeOK
      <3>3. CASE up.status = 0
        BY <2>2, <3>1, <3>2, <3>3, MappedErrors
           DEF AnswerTellsWhatHappened, Outcome, NoHeader, Delivered, Error,
               IInv, TypeOK
      <3>4. CASE up.status = 200
        BY <2>2, <3>1, <3>2, <3>4, MappedErrors, ProxyAssumption
           DEF AnswerTellsWhatHappened, Outcome, ReadOutcome, Delivered, Error,
               NoError, Usable, IInv, TypeOK
      <3>5. CASE up.status \notin {0, 200}
        BY <2>2, <3>1, <3>2, <3>5, MappedErrors, StatusErrors
           DEF AnswerTellsWhatHappened, Outcome, RateLimited, Delivered
      <3> QED
        BY <3>3, <3>4, <3>5
    <2> QED
      BY <2>1, <2>2
  <1> QED
    BY <1>1, Invariance, PTL

\* The handler never waits beyond the deadline of its request, nor reads
\* more of a response than its two limits allow (closeResponse).
THEOREM BoundedWork == Spec => []WorkIsBounded
  <1>1. IInv => WorkIsBounded
    BY ProxyAssumption DEF IInv, TypeOK, WorkIsBounded
  <1> QED
    BY <1>1, Invariance, PTL

\* A failure is logged once, by the client or by the handler
\* (logRateLimited, mapServiceError).
THEOREM OneLogEntry == Spec => []LoggedOnce
  <1>1. IInv => LoggedOnce
    <2> SUFFICES ASSUME IInv, at = "answered" PROVE LoggedOnce
      BY DEF LoggedOnce
    <2>1. CASE BadCursor
      BY <2>1 DEF IInv, ProgressOK, LogOK, LoggedOnce, Answer
    <2>2. CASE ~BadCursor
      <3>1. err \in Errors /\ err.kind \in Kinds
        BY DEF IInv, TypeOK, Errors
      <3>2. answer.status \in {200, 400, 404} <=>
               err.kind \in {"none", "not_found"}
        BY <2>2, <3>1, MappedErrors DEF IInv, ProgressOK
      <3>3. logs = StatusLog(err.kind) \o ServiceLog(err.kind)
        BY <2>2 DEF IInv, LogOK
      <3> QED
        BY <3>1, <3>2, <3>3, LoggedKinds DEF LoggedOnce
    <2> QED
      BY <2>1, <2>2
  <1> QED
    BY <1>1, Invariance, PTL
=============================================================================
