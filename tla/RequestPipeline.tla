-------------------------- MODULE RequestPipeline --------------------------
(***************************************************************************)
(* One HTTP request on its way through the service: the outer middlewares  *)
(* of cmd/server, the authentication middleware with the Firebase verifier *)
(* behind it, the operation, the access loggers and the recoverer.  The    *)
(* request context may end at any step: the client goes away or the        *)
(* deadline of requestContextTimeout passes.  Any step that runs code of   *)
(* an operation may panic; a panic unwinds through the deferred calls of   *)
(* the access logger and of the recoverer.                                 *)
(***************************************************************************)
EXTENDS Integers, Sequences

CONSTANTS
    Verifiers,      \* the token verifiers the router may have been built with
    OperationStatuses   \* statuses the operations answer when they run

Successes == {200, 201, 204}

ASSUME PipelineAssumption ==
    /\ Verifiers \subseteq {"nil", "offline", "firebase"}
    /\ OperationStatuses \subseteq Successes \union
                                     {400, 404, 409, 422, 429, 500, 502, 503}

VARIABLES
    route,      \* the handler the path and the method of the request select
    method,     \* its method, as far as it tells a read from the rest
    header,     \* its Authorization header
    verifier,   \* the verifier of this process
    at,         \* where the goroutine of the request is
    ctx,        \* the request context: active, or why it ended
    client,     \* the peer that sent the request
    verdict,    \* what Verify returned: an identity or a set of errors
    user,       \* the identity in the context of the operation
    reply,      \* the answer about to be written
    fields,     \* the response header fields set so far
    sent,       \* the status line and the documents written
    panicking,  \* whether the goroutine unwinds, and with what
    entries,    \* access log entries of the request
    outcome     \* what became of the exchange

vars == <<route, method, header, verifier, at, ctx, client, verdict, user,
          reply, fields, sent, panicking, entries, outcome>>
input == <<route, method, header, verifier>>
environment == <<ctx, client>>

Routes == {"preflight", "health", "notFound", "methodNotAllowed",
           "documentation", "public", "protected"}
ChiRoutes == {"health", "notFound", "methodNotAllowed"}
Operations == {"public", "protected"}
NoUser == "no user"
Identities == {"uid", NoUser}
Nobody == [errors |-> {}, user |-> NoUser]
NoReply == [status |-> 0, document |-> "none"]
-----------------------------------------------------------------------------
(* Token verification *)

\* What the Firebase SDK may say of a token it does not accept: the
\* predicates on its error that hold.  It looks the account of the token up,
\* which may have been deleted while the token was valid.
SDKErrors ==
    { {"CertificateFetchFailed", "Unknown"}, {"IDTokenExpired", "IDTokenInvalid"},
      {"IDTokenRevoked", "IDTokenInvalid"}, {"UserDisabled"}, {"IDTokenInvalid"},
      {"UserNotFound", "NotFound"},
      {"context.Canceled"}, {"Cancelled"}, {"context.DeadlineExceeded"},
      {"DeadlineExceeded"}, {"Unavailable"}, {"Internal"}, {"Unknown"}, {} }

\* The switch of FirebaseVerifier.Verify: the first case that holds.
VerifyCases ==
    << [of |-> {"CertificateFetchFailed"},
        to |-> {"ErrCertificateFetch", "ErrAuthUnavailable"}],
       [of |-> {"IDTokenExpired"}, to |-> {"ErrTokenExpired"}],
       [of |-> {"IDTokenRevoked"}, to |-> {"ErrTokenRevoked"}],
       [of |-> {"UserDisabled"}, to |-> {"ErrUserDisabled"}],
       [of |-> {"IDTokenInvalid"}, to |-> {"ErrInvalidToken"}],
       [of |-> {"context.Canceled", "Cancelled"}, to |-> {"context.Canceled"}],
       [of |-> {"context.DeadlineExceeded", "DeadlineExceeded"},
        to |-> {"ErrAuthUnavailable", "context.DeadlineExceeded"}] >>

MutantVerifyError(sdk) ==
    (IF "IDTokenInvalid" \in sdk \/ "Unknown" \in sdk
     THEN {"ErrInvalidToken"} ELSE {"ErrAuthUnavailable"}) \union sdk

\* The identities errors.Is finds in the joined error.
VerifyError(sdk) ==
    LET hits == {i \in DOMAIN VerifyCases : VerifyCases[i].of \cap sdk # {}}
        first == {i \in hits : \A j \in hits : i <= j}
    IN  (IF hits = {} THEN {"ErrAuthUnavailable"}
         ELSE UNION {VerifyCases[i].to : i \in first}) \union sdk

CredentialErrors == {"ErrNoToken", "ErrInvalidToken", "ErrTokenExpired",
                     "ErrTokenRevoked", "ErrUserDisabled"}

IsCredentialError(errors) == errors \cap CredentialErrors # {}

\* What Verify may return once it is called with this context.
Verdicts ==
    CASE verifier = "offline" ->
            {[errors |-> {"ErrAuthUnavailable"}, user |-> NoUser]}
      [] verifier = "firebase" ->
            { [errors |-> VerifyError(sdk), user |-> NoUser] :
                sdk \in {s \in SDKErrors :
                            /\ "context.Canceled" \in s => ctx = "canceled"
                            /\ "context.DeadlineExceeded" \in s => ctx = "deadline"} }
            \union { [errors |-> {}, user |-> u] : u \in Identities }
-----------------------------------------------------------------------------
(* Response header fields *)

NoFields == [challenge |-> FALSE, retryAfter |-> FALSE]

Challenge == [fields EXCEPT !.challenge = TRUE]
RetryLater == [fields EXCEPT !.retryAfter = TRUE]

Problem(status) == [status |-> status, document |-> "problem"]
Result(status) ==
    [status |-> status,
     document |-> IF status = 204 THEN "none"
                  ELSE IF status \in Successes THEN "result" ELSE "problem"]
-----------------------------------------------------------------------------
(* The outer chain *)

\* The context of the request carries the deadline from requestContextTimeout
\* on; what Security and Vary set in the header is left out.  A preflight is
\* answered by the CORS middleware; the documentation is served outside the
\* middlewares of the operations.
Enter ==
    /\ at = "outer"
    /\ at' = CASE route = "preflight" -> "recover"
               [] route \in ChiRoutes -> "chi"
               [] route = "documentation" -> "write"
               [] route \in Operations -> "auth"
    /\ reply' = IF route = "documentation" THEN Result(200) ELSE reply
    /\ sent' = IF route = "preflight" THEN [sent EXCEPT !.status = 200] ELSE sent
    /\ UNCHANGED <<input, environment, verdict, user, fields, panicking,
                   entries, outcome>>

\* health.Handler, NotFoundHandler and MethodNotAllowedHandler, each inside
\* the access logger of internal/platform/middleware.
ServeChi ==
    /\ at = "chi"
    /\ reply' = CASE route = "health" -> Result(200)
                  [] route = "notFound" -> Problem(404)
                  [] route = "methodNotAllowed" -> Problem(405)
    /\ at' = "write"
    /\ UNCHANGED <<input, environment, verdict, user, fields, sent, panicking,
                   entries, outcome>>
-----------------------------------------------------------------------------
(* The authentication middleware *)

Refuse(status, withFields) ==
    /\ fields' = withFields
    /\ reply' = Problem(status)
    /\ at' = "write"

\* An operation without the bearer scheme is not authenticated; a header
\* that is not a bearer token is refused before the verifier is asked.
Authenticate ==
    /\ at = "auth"
    /\ \/ /\ route = "public"
          /\ at' = "body"
          /\ UNCHANGED <<fields, reply>>
       \/ /\ route = "protected"
          /\ header # "bearer"
          /\ Refuse(401, Challenge)
       \/ /\ route = "protected"
          /\ header = "bearer"
          /\ verifier = "nil"
          /\ Refuse(503, RetryLater)
       \/ /\ route = "protected"
          /\ header = "bearer"
          /\ verifier # "nil"
          /\ at' = "verify"
          /\ UNCHANGED <<fields, reply>>
    /\ UNCHANGED <<input, environment, verdict, user, sent, panicking,
                   entries, outcome>>

\* The verifier answers, or gives up because the context ended.
Verify ==
    /\ at = "verify"
    /\ verdict' \in Verdicts
    /\ at' = "decide"
    /\ UNCHANGED <<input, environment, user, reply, fields, sent, panicking,
                   entries, outcome>>

\* The first condition of the error branch, which looks at the context after
\* Verify returned.
StaysSilent == "context.Canceled" \in verdict.errors /\ ctx # "active"

\* Bug: the identity is not looked at.
MutantAccepts == verdict.errors = {}
Accepts == verdict.errors = {} /\ verdict.user # NoUser

\* What the middleware does with the verdict.
Decide ==
    /\ at = "decide"
    /\ \/ /\ verdict.errors # {}
          /\ StaysSilent
          /\ at' = "access"
          /\ UNCHANGED <<user, fields, reply>>
       \/ /\ verdict.errors # {}
          /\ ~StaysSilent
          /\ IF "context.Canceled" \notin verdict.errors
                  /\ IsCredentialError(verdict.errors)
             THEN Refuse(401, Challenge)
             ELSE Refuse(503, RetryLater)
          /\ UNCHANGED user
       \/ /\ verdict.errors = {}
          /\ ~Accepts
          /\ Refuse(503, RetryLater)
          /\ UNCHANGED user
       \/ /\ Accepts
          /\ user' = verdict.user
          /\ at' = "body"
          /\ UNCHANGED <<fields, reply>>
    /\ UNCHANGED <<input, environment, verdict, sent, panicking, entries, outcome>>
-----------------------------------------------------------------------------
(* The operation *)

\* Huma reads and validates the input: unreadable, late, too large, of an
\* unknown media type, not valid.
ReadInput ==
    /\ at = "body"
    /\ \/ /\ at' = "operation"
          /\ UNCHANGED reply
       \/ /\ reply' \in {Problem(s) : s \in {400, 408, 413, 415, 422}}
          /\ at' = "write"
    /\ UNCHANGED <<input, environment, verdict, user, fields, sent, panicking,
                   entries, outcome>>

\* The operation returns.  What it waits for ends with the context; a store
\* or a client whose context ended answers an error.
Operate ==
    /\ at = "operation"
    /\ \E status \in OperationStatuses : reply' = Result(status)
    /\ at' = "write"
    /\ UNCHANGED <<input, environment, verdict, user, fields, sent, panicking,
                   entries, outcome>>

WriteHeader ==
    /\ at = "write"
    /\ sent' = [sent EXCEPT !.status = reply.status]
    /\ at' = IF reply.document = "none" THEN "access" ELSE "document"
    /\ UNCHANGED <<input, environment, verdict, user, reply, fields, panicking,
                   entries, outcome>>

WriteDocument ==
    /\ at = "document"
    /\ sent' = [sent EXCEPT !.documents = Append(@, reply.document)]
    /\ at' = "access"
    /\ UNCHANGED <<input, environment, verdict, user, reply, fields, panicking,
                   entries, outcome>>

\* The code of an operation panics before it answers, or the marshaller does
\* after a part of the answer was written.
Panic ==
    /\ \/ /\ at \in {"chi", "operation"}
          /\ UNCHANGED sent
       \/ /\ at = "document"
          /\ reply.document = "result"
          /\ sent' = [sent EXCEPT !.documents = Append(@, "part")]
    /\ panicking' \in {"panic", "abort"}
    /\ at' = "access"
    /\ UNCHANGED <<input, environment, verdict, user, reply, fields, entries,
                   outcome>>
-----------------------------------------------------------------------------
(* Unwinding *)

\* Bug: a panic before the status line is recorded as a success.
MutantAccessEntries ==
    IF panicking = "abort" THEN <<>>
    ELSE << [status |-> IF sent.status = 0 THEN 200 ELSE sent.status,
             reason |-> panicking] >>

\* logHTTPAccess, and the access logger of the observability library on the
\* operations.  An abort is passed on without an entry; a panic is recorded
\* with the status written so far, if any.
AccessEntries ==
    IF panicking = "abort" THEN <<>>
    ELSE << [status |-> IF sent.status = 0 /\ panicking = "no"
                          THEN 200 ELSE sent.status,
             reason |-> panicking] >>

Logged == route \notin {"preflight", "documentation"}

LogAccess ==
    /\ at = "access"
    /\ entries' = IF Logged THEN entries \o AccessEntries ELSE entries
    /\ at' = "recover"
    /\ UNCHANGED <<input, environment, verdict, user, reply, fields, sent,
                   panicking, outcome>>

\* Bug: the panic is answered whatever was written before.
MutantRecovery ==
    CASE panicking = "panic" -> "problem"
      [] panicking = "abort" -> "abort"
      [] OTHER -> "nothing"

\* What the deferred function of Recoverer does about a panic.
Recovery ==
    CASE panicking = "panic" /\ sent.status = 0 -> "problem"
      [] panicking = "panic" /\ sent.status # 0 -> "abort"
      [] panicking = "abort" -> "abort"
      [] OTHER -> "nothing"

Recover ==
    /\ at = "recover"
    /\ panicking' = CASE Recovery = "abort" -> "abort"
                      [] OTHER -> "no"
    /\ sent' = IF Recovery # "problem" THEN sent
               ELSE [status |-> IF sent.status = 0 THEN 500 ELSE sent.status,
                     documents |-> Append(sent.documents, "problem")]
    /\ at' = "server"
    /\ UNCHANGED <<input, environment, verdict, user, reply, fields, entries,
                   outcome>>

\* net/http: a handler that returned without writing answers 200, one that
\* panicked has its connection closed.
ServerFinish ==
    /\ at = "server"
    /\ outcome' = IF panicking = "no" THEN "complete" ELSE "aborted"
    /\ sent' = IF panicking = "no" /\ sent.status = 0
               THEN [sent EXCEPT !.status = 200] ELSE sent
    /\ at' = "done"
    /\ UNCHANGED <<input, environment, verdict, user, reply, fields, panicking,
                   entries>>
-----------------------------------------------------------------------------
(* The request context *)

\* Bug: the request runs without requestContextTimeout.
MutantDeadlinePasses == FALSE /\ UNCHANGED vars

\* The deadline of requestContextTimeout passes, before it is disarmed.
DeadlinePasses ==
    /\ at \notin {"outer", "recover", "server", "done"}
    /\ ctx = "active"
    /\ ctx' = "deadline"
    /\ UNCHANGED <<input, at, client, verdict, user, reply, fields, sent,
                   panicking, entries, outcome>>

\* The client goes away: net/http cancels the context of the request.
ClientGone ==
    /\ at # "done"
    /\ client = "connected"
    /\ client' = "gone"
    /\ ctx' = IF ctx = "active" THEN "canceled" ELSE ctx
    /\ UNCHANGED <<input, at, verdict, user, reply, fields, sent, panicking,
                   entries, outcome>>
-----------------------------------------------------------------------------
\* The methods with which a route is reached.
MethodsOf(r) ==
    CASE r \in {"health", "documentation"} -> {"GET"}
      [] r = "preflight" -> {"OPTIONS"}
      [] OTHER -> {"GET", "POST"}

Init ==
    /\ route \in Routes
    /\ method \in MethodsOf(route)
    /\ header \in {"none", "malformed", "bearer"}
    /\ verifier \in Verifiers
    /\ at = "outer"
    /\ ctx = "active"
    /\ client = "connected"
    /\ verdict = Nobody
    /\ user = NoUser
    /\ reply = NoReply
    /\ fields = NoFields
    /\ sent = [status |-> 0, documents |-> <<>>]
    /\ panicking = "no"
    /\ entries = <<>>
    /\ outcome = "open"

\* Steps of the goroutine that do not wait for anybody.
Run == \/ Enter \/ ServeChi \/ Authenticate \/ Decide
       \/ WriteHeader \/ WriteDocument \/ LogAccess \/ Recover \/ ServerFinish

\* Steps that wait for the verifier, for the body or for a dependency.
Wait == Verify \/ ReadInput \/ Operate

Next == Run \/ Wait \/ Panic \/ DeadlinePasses \/ ClientGone

Spec == Init /\ [][Next]_vars

\* The steps of the goroutine that nobody holds up are taken.  The body is
\* read under the read deadline of the server, the deadline of the context is
\* a timer, and a verifier or an operation whose context ended returns.
FairSpec ==
    /\ Spec
    /\ WF_vars(Run)
    /\ WF_vars(ReadInput)
    /\ WF_vars(DeadlinePasses)
    /\ WF_vars(ctx # "active" /\ (Verify \/ Operate))
-----------------------------------------------------------------------------
(* Properties *)

Delivered == outcome = "complete" /\ client = "connected"

TokenFaults == {"IDTokenExpired", "IDTokenRevoked", "IDTokenInvalid",
                "UserDisabled"}

AccountGone == "UserNotFound" \in verdict.errors

BadCredentials == \/ header # "bearer"
                  \/ verdict.errors \cap TokenFaults # {}
                  \/ AccountGone

\* Without an identity from the verifier a protected operation does not run
\* and answers no success, whatever becomes of the verifier, of the context
\* and of the handler (internal/platform/auth/middleware.go; README,
\* "protected routes fail closed").
ProtectedFailsClosed ==
    route = "protected" /\ user = NoUser =>
        /\ at # "operation"
        /\ reply.status \notin Successes
        /\ \A i \in DOMAIN sent.documents : sent.documents[i] = "problem"

\* A 401 of the middleware challenges a client whose credentials are bad;
\* no outage is ever blamed on the token, whatever errors overlap and
\* whenever the context ends.  A 503 asks to come back: it tells of a
\* dependency, of a verifier that is missing or found no identity, or of an
\* account that was deleted while its token was valid, which is the one
\* fault of the credentials the switch of FirebaseVerifier.Verify leaves to
\* its default (isCredentialError, writeAuthUnavailable).
RefusalMatchesCause ==
    outcome = "complete" /\ route = "protected" /\ user = NoUser =>
        /\ sent.status = 401 <=> fields.challenge
        /\ sent.status = 503 <=> fields.retryAfter
        /\ sent.status = 401 => BadCredentials /\ ~AccountGone
        /\ sent.status = 503 => ~BadCredentials \/ AccountGone

\* plans/update.md:873: "Firebase authentication distinguishes invalid
\* credentials from dependency failure": nobody whose credentials will never
\* be accepted again is told that the service is unavailable and to retry.
InvalidCredentialsAreNotOutages ==
    outcome = "complete" /\ route = "protected" /\ user = NoUser
        /\ sent.status = 503 => ~BadCredentials

\* An answer that ends normally is whole: one document that agrees with the
\* status line, or none for a 204 and a preflight.  A panic after the status
\* line never ends as an answer that looks complete (Recoverer, wroteHeader),
\* and the empty 200 of net/http goes out only when the context had ended
\* (NewAuthMiddleware; plans/update.md, "returning without writing then risks
\* an empty 200").
CompleteAnswersAreWhole ==
    outcome = "complete" =>
        \/ sent.documents = <<>> /\ sent.status = 204
        \/ /\ sent.documents = <<>> /\ sent.status = 200
           /\ (route = "preflight" \/ ctx # "active")
        \/ sent.documents = <<"result">> /\ sent.status \in Successes
        \/ sent.documents = <<"problem">> /\ sent.status >= 400

\* A request leaves one access log entry, also when its handler panics, none
\* when it is aborted or is not logged; a status in the entry is the status
\* the client was sent, and an entry without a panic is not about an aborted
\* exchange (AccessLogger, Recoverer; README, "without inventing an
\* unobserved status").
AccessLogTellsTheTruth ==
    at = "done" =>
        /\ outcome = "complete" => Len(entries) = IF Logged THEN 1 ELSE 0
        /\ \A i \in DOMAIN entries :
              /\ entries[i].status \in {0, sent.status}
              /\ entries[i].status = 0 => entries[i].reason = "panic"
              /\ outcome = "aborted" => entries[i].reason = "panic"

\* plans/update.md:198: "a genuinely canceled request exits without
\* attempting a response": a client that still waits is not left with the
\* empty 200 of net/http on a protected route.
NoEmptyAnswerToWaitingClient ==
    ~ (/\ Delivered
       /\ route = "protected" /\ user = NoUser
       /\ sent.status = 200 /\ sent.documents = <<>>)

\* Every request is over some day, whatever it waits for
\* (requestContextTimeout).
EveryRequestEnds == <>(at = "done")
=============================================================================
