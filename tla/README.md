# huma-playground in TLA+

A verification development for the service in this repository: TLA+ modules for
its components, TLC configurations that check them on small instances, and
proofs, checked by TLAPS, of what matters most for instances of every size.

## The system

| Component | State it keeps | Operations | Hard parts |
|---|---|---|---|
| Profile store (`internal/service/profile`, `internal/platform/audit`) | Firestore document per verified user | create, get, update (transaction), delete | concurrent requests of one user, lost and late replies, retries, repeats by the transport, crash before the audit event |
| Profile handlers (`internal/http/v1/profile`) | none | map store errors to 404, 409, 500, 503 | outages must not look like answers about the document |
| Authentication (`internal/platform/auth`) | identity in the request context | verify a bearer token | overlapping SDK errors, context that ends during verification |
| Request pipeline (`cmd/server/application.go`, `internal/platform/respond`, `internal/platform/middleware`) | response header, status line, access log of one request | middlewares, recoverer, access loggers, request context | panics before and after the status line, deadline, client that goes away |
| Server lifecycle (`cmd/server/main.go`, `serve`) | process, listener goroutine, channel, connections, clients | start, serve, signal, shutdown, forced close, exit | signal racing a listener failure, timeouts racing each other, deferred `Close` under running handlers |
| Configuration and Firebase clients (`cmd/server/config.go`, `internal/platform/firebase`) | configuration, clients | load, validate, initialise | variables that constrain each other; trimmed values checked, raw values read |
| Items and pagination (`internal/http/v1/items`, `internal/platform/pagination`) | none; the cursor carries the position | list, next, previous | boundaries, limits changed on the way, stale cursors |
| GitHub proxy (`internal/http/v1/github`, `internal/service/github`) | none | bounded reads of an upstream, pages of activity | size limits, two timers, bodies that break off, overlapping kinds of errors, cursors of the upstream, of any length, inside cursors of the service, a feed that grows |
| Timestamps, hello operations, Hello function, health | none | stateless | none beyond conversions |

A request enters through the pipeline, is authenticated, and runs an operation;
a profile operation calls the store, which calls Firestore. They share the
request context: the deadline of `requestContextTimeout` and the cancellation by
the client reach every call made for the request. The lifecycle owns the
listener and the clients the operations use.

What makes each component correct:

- profile store: the answer a client gets, and the audit event, agree with what
  happened to the document; an outage is answered as one; no update is lost; concurrent creates and deletes
  have one winner; nothing is applied after a definite answer; the four calls
  behave like an atomic map;
- authentication and pipeline: a protected operation never runs without an
  identity; an outage is never blamed on a token, and only the token of a deleted account is answered like one; a complete answer is one whole
  document; one truthful access log entry; every request ends;
- lifecycle: an exit with status 0 hides nothing; clients outlive handlers;
  requests under way survive a shutdown; the process ends when told to;
- configuration: the Firebase clients talk to what the mode says, and emulators
  and wildcards stay out of deployments;
- pagination: pages tile the list, links are good, and a stale cursor is refused;
- GitHub proxy: the answer tells what the upstream did, whatever ended the call; the
  work for one call is bounded by the deadline and the limits; a failure is logged
  once; a walk through the activity shows the feed as it was, and a link given out is
  refused only when the cursor of the upstream in it is too long;
- pipeline and store together: what a client is told about its profile is true of the
  document, and the store ends with the context as the pipeline relies on.

## Modules

| Module | What it is |
|---|---|
| `ProfileStore` | handlers, store, client library and backend of the profile operations; properties; refinement mapping |
| `ProfileRegistry` | abstract specification: an atomic map with calls whose outcome may stay unknown |
| `ProfileStoreProofs` | inductive invariant and theorems about `ProfileStore`, in four parts: answers and what was applied; the history of a document and the audit log; times, foreign fields and what a success answered; `ProfileStore` implements `ProfileRegistry` |
| `RequestPipeline` | one request through middlewares, authentication, operation, loggers, recoverer |
| `RequestPipelineProofs` | inductive invariant and theorems about `RequestPipeline` |
| `ProfileService` | the composition: the pipeline of one request around the store it shares with others |
| `ProfileServiceProofs` | the composition implements both components; theorem about what the client is told |
| `ServerLifecycle` | the process from start to exit, with connections and time |
| `ServerLifecycleProofs` | inductive invariant and theorems about `ServerLifecycle` |
| `GitHubProxy` | one proxied call with its upstream, limits, timers, errors and log |
| `GitHubProxyProofs` | inductive invariant and theorems about `GitHubProxy` |
| `Cursors` | the cursors of `internal/platform/pagination`, used by the next two |
| `ItemPages` | the pages of `GET /items` and a client that walks them |
| `ItemPagesProofs` | lemmas about the filter, the cursors and `Paginate`; inductive invariant and theorems about `ItemPages` |
| `ActivityPages` | the pages of repository activity, the upstream's feed and a client that walks them |
| `ActivityPagesProofs` | inductive invariant and theorems about `ActivityPages` |
| `StartupConfig` | `loadConfig` and the Firebase clients it leads to |
| `StartupConfigProofs` | inductive invariant and theorems about `StartupConfig` |
| `MC...` | instances of these for TLC |

Definitions named `Mutant...` are plausible bugs that stand before the
definition they would replace. No specification uses them; a property is worth
keeping when one of them breaks it.

### ProfileStore

Handlers are cut into steps at their remote calls. `HandleCreate` sends the
write of `FirestoreStore.Create`, `CreateReturn` consumes the reply, classifies
the error and returns from the store, with the audit event written (`Finish`). The handler's answer is then
in `result`, and `Respond` writes the response; the process may die between the two, so a call can be in the
audit log although nobody was answered. `UpdateClosure` is one run of
the transaction closure after `tx.Get`, `UpdateRetry` and `UpdateReturn` are
what `RunTransaction` does with the result of the commit. `Cancel` and `Expire` are the
two ends of the request context, which override a reply not yet consumed.

A request writes its own identity into each field it sets, so a document shows
who wrote what. `log` is the history of a document: the writes that were applied,
its length being the version of the document. `wire` holds writes in flight. A
write stays there when its call failed or its context ended, so it may be applied
after the client got its answer; that is what a backend may do with a request
whose reply was given up. `Resend` is the repeat of a write by the generated Firestore client
on `Unavailable` and `ResourceExhausted`, below the store's code. Errors are sets
of the identities that `errors.Is` and `status.Code` can tell apart. The backend
validates a transaction when it commits; reads and writes of begin and rollback
calls are left out, and all time comes from one clock.

The statements about refusals and about at-most-once hold for calls whose writes
the transport did not repeat (`resent[r] = 0`): a repeated create may find the
document its first copy made, and answers 409 to the caller that created it.
For the same reason the refinement of `ProfileRegistry` is checked with
`MaxResends = 0`.

### RequestPipeline

The state is the goroutine of one request (`at`), its context, the response written so far
(`sent`, `fields`), the panic being unwound, and the access log entries. `Enter` stands for the
outer middlewares, in the order of `newRouter`, up to where they hand over;
`LogAccess` and `Recover` are the deferred calls on the way out, also of a
panic; `ServerFinish` is what net/http does with the end of a handler,
including the empty 200 of a handler that wrote nothing. `DeadlinePasses` and `ClientGone` may come
between any two steps, in particular between the return of the verifier and the
look at the context in `Decide`. Operations are reduced to the statuses they answer
and to panics. `SDKErrors` are the errors of the SDK by the predicates that hold of them; that of a user who
was deleted while the token was valid (`UserNotFound`) has none that the switch of `FirebaseVerifier.Verify` names. An abort stands for code under the recoverer that panics with
`http.ErrAbortHandler`. The security headers and the cache policy of
`security.go` are chosen by path and method alone, and are left out.

### ProfileService

The composition has the variables of both components; only the `reply` of the pipeline
is called `answer` here, since the store has a `reply` of its own. `Me` is the request whose pipeline is
modelled, on a profile route; the other members of `Requests` are seen as
calls to the store. The components meet in two places. `CallStore`, `StoreReturns` and `Operate`
are the operation: its handler calls the store, waits, and answers with the status of the
response, which is how `RequestPipeline`'s free choice of a status is resolved. `StoreSeesContext` is
the request context, handed down by the handler, reaching the call. A panic of the
operation leaves the call where it is. Late writes of `Me` go on (`Elsewhere`) after
its answer. Repeats by the transport and time are excluded by `MaxResends` and `MaxClock` of 0,
foreign programs and crashes by leaving their actions out: they are in the runs of `ProfileStore`.

### ServerLifecycle

`pc` follows `run` and `serve`; `listener` is the goroutine that runs
`server.Serve`, `listenErr` the channel of capacity one. Connections are accepted,
read, worked on and answered. Time is in ticks: what is due on a connection
(`Due`) happens before the next `Tick`. Handlers are assumed to return when their context
has ended, which is what all dependency calls of the code do. A client that
reads slowly holds its response up to `WriteTimeout`. A connection accepted just before the
shutdown may start its handler later, and such a handler may be cut off: its
header may take `ReadHeaderTimeout`, and 2 s and 8 s leave nothing of the 10 s.
`StartedRequestsSurviveShutdown` is therefore about handlers that ran when the shutdown began.

### GitHubProxy

`at` follows a handler through its call to the service: `called`, `waiting` for the
header, `reading` the body (`decodeResponse`), `draining` the rest (`closeResponse`), `returning`, `answered`. The upstream
(`DecodeStatus`, `Chunk`, `BodyEnds`, `TransportFails`) chooses any status with any rate limit header fields, and
sends a body unit by unit for as long as it likes; it is external. A body is
counted in units up to `MaxResponse`, with one more unit read to tell that it is
too long, as `io.LimitReader` of the limit plus one does. A body that ends is complete, lacks a
timestamp that some operations need (`untimed`, `NeedsTimes`), or is not decodable; one that does not end breaks off or is
cut. `TimerFires` is whichever of the two timers is due first, `ClientGone` the client; both end
the call, and a drain with it. The ways to fail are reduced to
the kinds `mapServiceError` tells apart, and `StatusLog` and `ServiceLog` are the two
places that log. Time stops while the handler computes; only waiting takes time. The six operations share
`doRequest`, so they differ in the cursor and in the timestamps of their result. The fields
copied from a response into a result, and the validators of the required ones but for timestamps, are left out.

### ItemPages, ActivityPages and Cursors

`Cursors` translates `Encode` and `DecodeCursor`. Text is kept as the sequence of its
parts between colons, so an id may contain one. `base64.RawURLEncoding` is not strict: it skips line breaks and does not look at the bits
left over in the last character, so many spellings of a cursor decode alike. `plain` says whether a cursor is spelled as
`Encode` spells it, and decoding does not look at it; a line break alone is not the empty string, and decodes to no text. `ItemPages` translates `Paginate`, `filterItems`
and the checks of the handler over the thirty items of the program, and adds a client
that follows links, changes category or limit in between and makes up cursors. Cursors longer than the schema's bound are
refused before the handler runs and left out here: those of items are short. `back` remembers the page a forward link was followed from.

In `ActivityPages` events are numbered from the oldest on and the upstream pages by event, newest first, which is
what its `after` parameter promises. `Push` adds an event at any time. The
`Link` header has its links in any order, and one of them may be cut at a comma inside its URL, since
`parseLinkHeader` splits there, or name the next page in another way than by `after`. Where only such a link is left, or
none, though there is more (`CutHeaders`), the walk ends early; `cut` records this about a page, it is no part of the response. A request may fail with any status the proxy answers, and the client asks again.
A cursor that is accepted but names no event is taken by the upstream for none, or refused with one of these failures.
The cursors of the upstream may have any length (`AfterLength`) and contain the separator of ours. `OwnLength` is
that of the cursor the handler makes of one, and `Fits` compares it with the bound of the schema, which looks at what a client sends and never at
what the service gives out: `Room`, 1524 bytes, is the longest cursor that can come back.

### StartupConfig

`StartupConfig` enumerates classes of values for each variable of the
environment (absent, blank, valid, valid between white space, wrong), runs `loadConfig`
and then lets each Firebase client choose its backend from the raw variable, as the libraries do.

## Runs

| Run | Instance | Shows |
|---|---|---|
| `profile_races` | 3 requests, 1 user, 2 fields, no faults, creates, updates and deletes only; 2 instants or a foreign writer | no lost update, one winner, success answers what is stored, timestamps ordered and monotone, foreign fields survive |
| `profile_faults` | 2 requests, all gRPC faults, 1 repeat, crashes at every step | types, answers and audit agree with the history, outages are answered as such, at most once, inert after an answer |
| `profile_promise` | 2 requests, 2 fields, faults `Aborted` and `Unavailable` | refinement of `ProfileRegistry`; every call is answered |
| `profile_service` | requests `me` and `r2`, 1 user, 1 field, the same faults, 2 attempts, the Firebase verifier | the client is told the truth; refinement of `RequestPipeline` with its fairness |
| `request_pipeline` | every route, header, verifier and context end | the pipeline properties; every request ends |
| `request_silence` | the same | a violation, see below |
| `request_deleted_account` | the same | a violation, see below |
| `server_shutdown` | 2 connections, 8/10/2/10 s as 4/5/1/5 ticks | clean exit, clients, shutdown and timeouts; the process ends |
| `github_proxy` | limit 2, drain 1, timeouts of 8 and 10 s as 4 and 5 ticks, every operation, cursor and header | the answer tells what happened, bounded work, one log entry; every call ends |
| `activity_pages` | up to 6 events, limits 1, 2, 3, 7, 14 forged cursors, cursors of the upstream of 4 to 1525 bytes, 1524 and 1525 among them | a walk shows the feed; links are served, or refused as too long |
| `item_pages` | the 30 items, and 7 items with an id that contains a colon; 5 categories, 7 limits, 16 forged cursors | pages tile the list, links, going back, stale cursors |
| `startup_config` | 70000 environments | modes, emulators, origins |

Bounds. Three requests of one user are enough for a create, a delete and an update to
interleave, and documents of different users share nothing; two attempts show
a retry and the end of the retries; one repeat by the transport is enough for the answers to
differ. With faults two requests suffice to have one apply between the copies of the
other. `profile_races` leaves out reads and crashes, and behaviours in which both time passes and a foreign program writes (`OnlyMutations`), so that it has room for
two updates of a profile a third request created; `profile_promise` covers reads with two
requests. `MaxClock = 1` lets time pass at any one point, which is what the order of timestamps
depends on. In `profile_service` one other request is enough to change the document between any two steps of
`me`. Two connections let one drain while the other is cut. The ticks keep the
proportions of the configured durations. A limit of two units distinguishes bodies that are shorter, as long, one longer and longer;
one unit of drain distinguishes a rest that ends from one that does not. The categories of the
two catalogues have lists that divide evenly by the limits and not, and limits longer than the list.
Six events give walks of up to six pages with pushes between any two of them; one of their cursors has
just room and one is a byte too long. The forged cursors have every text in both spellings.

Symmetry in requests is used only where no liveness property is checked.

Fairness. `ProfileStore`: a goroutine whose reply is there runs on, and the
deadline timer fires; nothing is assumed of the backend. `RequestPipeline`: the
same, the body is read under the server's read deadline, and an operation whose context ended
returns. `ProfileService` does not assume the last: it assumes that its goroutine runs and that a call
whose context ended returns, and `ImplementsPipeline` shows that the pipeline's assumption
follows. `GitHubProxy`: the handler runs, time passes, timers fire; nothing of the upstream.
`ServerLifecycle`: `run` and the listener goroutine run, time passes, due events happen; signals
and connections are never forced.

Stopping. The finished states of the pipeline, of the composition, of a proxied call, of the process and of the
configuration have no step, so deadlock is not checked there; `ProfileStore` has
an explicit step for "all requests are handled", and the clients of the pages never stop.

### What the violations show

`plans/update.md:196-198` says that a verifier may return `context.Canceled`
while the request is active, that returning without writing then risks an empty 200,
and that only "a genuinely canceled request exits without attempting a response".
The condition in `middleware.go:42` is `ctx.Context().Err() != nil`, which is also
true when the deadline of 8 s has passed while the client still waits. In the
trace, the verification is canceled upstream, the deadline passes before
the middleware looks at the context, and the client gets an empty 200 on a
protected route. The operation has not run (`ProtectedFailsClosed` holds), and the
silence never comes without an ended context (the last part of `CompleteAnswersAreWhole`).

`plans/update.md:873` says that "Firebase authentication distinguishes invalid credentials
from dependency failure; protected routes fail closed when authentication is unavailable."
`VerifyIDTokenAndCheckRevoked` looks up the user of a token; when the account was deleted
while the token is valid it returns a user-not-found error, which none of the predicates in
`firebase.go:65-82` matches. It falls to the default, `ErrServiceUnavailable`, and the
client is answered 503 with `Retry-After`, though no retry with this token can succeed.
The second half of the sentence holds: the operation has not run. It is the only such error:
`RefusalMatchesCause` says that a 503 is about the credentials in no other case, and a 401 never about an outage.

## Proofs

`ProfileStoreProofs` proves, for every set of requests, users, fields and faults
and for every number of attempts and repeats, from `ConstantsAssumption` only:

- `Invariance`: `IInv` is an invariant of `Spec`;
- `TypeCorrect`: `[]TypeOK`;
- `AnswersAreTrue`: `[]AnswersMatchHistory`;
- `AtMostOnce`: `[]AppliedAtMostOnce`;
- `SettledIsInert`: the action property `SettledCallsAreInert`.

None of these properties is inductive: what an answer says of the history
depends on which writes are still in flight when it is given. `IInv` adds, per
request, where it may wait (`PlaceOK`), what its pending writes carry (`WritesOK`), that
a version it read was one in which the document existed (`SnapshotsOK`, which is why a commit never overwrites a missing
document), what its reply and answer say of the history (`HistoryOK`), and, as long
as nothing was repeated, that at most one write is pending, none once it was applied
or refused (`OnceOK`). The step proof is split into the steps of the handlers, which
change one request and no history, and the steps of the backend, which append to
one history at most; `FrameSame` and `FrameAppend` carry the other requests over.

The second part goes on from `IInv`, with the assumption that the absence of a document
is not a document, a profile or the data of one (`NoDocAssumption`), for the same constants:

- `OneWinner`: `[]OneWinnerPerLifetime`;
- `NoUpdateIsLost`: `[]NoLostUpdate`;
- `AuditIsTrue`: `[]AuditMatchesAnswers`;
- `OutagesAreTold`: `[]OutagesAskToComeBack`.

Its first lemmas say what one step does to a history: it leaves it alone, or adds one write, which found
what its operation requires and left behind what it leaves (`LastWrite`), and the past is never rewritten
(`PastStays`). `LivesOK` adds to the alternation of creates and deletes that the one that is due next was
undone since it was last applied (`DueOK`), which is what makes it inductive. An audit entry goes with its answer because the
two conversions of an error, to an event and to a status, agree on every error the store can return (`EventOfError`), though they
test its identities in different orders. A call that died between its event and its answer keeps the
event, which is why the property says of such calls what the event may say. `OutageOK` follows the code of the last reply through the classification:
every code Firestore or the context gives an outage becomes `ErrUnavailable` or is one of the identities tested for a 503, and an aborted commit has nothing left in flight.

The third part goes on from there:

- `TimesAreOrdered`: `[]TimestampsOrdered`;
- `UpdatedAtIsMonotone`: the action property `UpdatedAtNeverRegresses`;
- `ForeignFieldsAreSafe`: the action property `ForeignFieldsSurvive`;
- `AcknowledgedIsStored`: `[]AcknowledgedWriteIsStored`.

They rest on one fact, `CurrentOK`: a commit that can still be applied, because the version it has seen is
the current one, was made from the document that is stored. So a late or repeated commit either fails the precondition or
updates what is there, times and foreign fields included. `AckOK` relates the newest write of a request to
the body of its answer: `SerialsOK` tells its writes apart, and after an applied update nothing it has in
flight has seen the current version.

The fourth part proves the promise, `StoreImplementsRegistry`: if `MaxResends = 0`, then
`Spec => ImplementsRegistry`. The lemmas `Submits`, `Takes`, `Refuses`, `Loses` and `Answers` say what an
abstract action asks of the mapped state of one request; `Same` says that the others do not move. Then there is one lemma
per step of the store: a handler that begins submits; a write that is applied is taken, at once and out of an open
status; a write, a commit or a read that does not apply is refused at a moment when that is true; a failure or
an ended context loses at most a verdict that changed nothing; a handler that returns answers the verdict, or unknown.
`CurrentOK` is why a commit is carried out on what is stored though it was merged from what was read. `MapInv` adds
what the mapping must know: a call that was refused has nothing in flight. Without the bound the theorem is false:
a repeated create is answered 409 although its first write was applied (`AnswersMatchHistory` says what is true then).

`RequestPipelineProofs` proves, for every set of verifiers and of statuses the
operations answer, from `PipelineAssumption` only:

- `Invariance`: `IInv` is an invariant of `Spec`;
- `TypeCorrect`: `[]TypeOK`;
- `FailsClosed`: `[]ProtectedFailsClosed`;
- `AnswersAreWhole`: `[]CompleteAnswersAreWhole`;
- `LogIsTrue`: `[]AccessLogTellsTheTruth`;
- `RefusalsNameTheCause`: `[]RefusalMatchesCause`.

The properties speak of the end of a request, or of what was written by then, so `IInv` says at
every place how far the answer is: nothing written, recorded or thrown up to
the status line, then the status of the reply, then a whole answer or a panic
(`ProgressOK`); what the access log holds, in terms of the status and of the panic that is
unwound (`LogOK`); and that an unknown caller of a protected operation gets no further than a
refusal (`UnknownOK`). The case that needs care is a panic that the recoverer answers:
its entry was written before the status existed, with status 0. There is one lemma per
action, with one step per conjunct. The last theorem rests on a second invariant, `CauseOK`,
inductive relative to `IInv`: an unknown caller has been told nothing, or was refused for a cause that the verdict names. Its core is
`ErrorsTellTheCause`: the switch of `FirebaseVerifier.Verify` returns a credential error
exactly for a fault of the token other than a deleted account, case by case over what the SDK may report.

`GitHubProxyProofs` proves, for every limit, drain and pair of timeouts, from
`ProxyAssumption` (they are positive):

- `Invariance`: `IInv` is an invariant of `Spec`;
- `TypeCorrect`: `[]TypeOK`;
- `AnswersAreTrue`: `[]AnswerTellsWhatHappened`;
- `BoundedWork`: `[]WorkIsBounded`;
- `OneLogEntry`: `[]LoggedOnce`.

The properties are about the end of a call; `IInv` says at every place which error stands for what was received
(`ProgressOK`, with `Outcome` and `ReadOutcome`) and what was logged for it (`LogOK`). The cases that need
care are a body that ends exactly at the limit, and a call that ends while the rest
of a body that is too long is drained. `Due` names both timers, so `BoundedWork` does not depend on which
is shorter.

`ServerLifecycleProofs` proves, for every set of connections, from
`LifecycleAssumption` (`RequestTimeout` is below `WriteTimeout` and `ShutdownTimeout`, as `config.go` has them):

- `Invariance`: `IInv` is an invariant of `Spec`;
- `TypeCorrect`: `[]TypeOK`;
- `CleanExit`: `[]CleanExitHidesNothing`;
- `ClientsOutlive`: `[]ClientsOutliveHandlers`;
- `RequestsSurvive`: `[]StartedRequestsSurviveShutdown`;
- `TimeToWrite`: `[]ContextEndsBeforeWriteTimeout`.

`StagesOK` says which states of listener, server, channel and clients belong to each place of
`run` and `serve`; `ErrorsOK` says that a failure is either reported or still in the channel, and that work is left only
after a failure; `TimesOK` that a handler which ran when the shutdown began is at least as old as the
shutdown, so its own deadline comes first.

`ProfileServiceProofs` proves, from the assumptions of both components and `Me \in Requests`:

- `PipelineIsImplemented`: `Spec => Pipe!Spec`;
- `StoreIsImplemented`: `Spec => Store!Spec`;
- `ToldTheTruth`: `[]ClientIsToldTheTruth`.

The first two carry the invariants of the components over, instantiated: nothing about a component is proved
again. `Meets` is what neither of them knows: the store is called only from the operation and for a known user, an answer is a
refusal before the call or the response of the call, and what is sent is of that answer.
With `HistoryOK` and `OnceOK` of the store this gives the theorem. Lemmas
`SamePipe` and `SameStore` say that the proof module of a component, instantiated, speaks of the same specification.

`ItemPagesProofs` proves, for every catalogue whose ids are distinct and not empty, every set of categories and of
limits from 1 to 100, and every cursor a client makes up (`PagesAssumption`):

- `FilterKeepsOrder`: `filterItems` keeps exactly the items of the category, in their order;
- `Encoded`: `DecodeCursor` returns what `Encode` was given, and the handler accepts it (not the converse: a cursor has many spellings);
- `Invariance`: `IInv` is an invariant of `Spec`;
- `WalksTile`: `[]PagesTileTheList`;
- `StaleCursors`: `[]StaleCursorIsRefused`;
- `LinksAreGood`, `NothingSkipped`, `BackUndoes`: the action properties `LinksLeadSomewhere`,
  `NothingSkippedGoingBack` and `BackUndoesNext`.

The filter is a recursive function over the length of a list, so what it keeps is shown by induction. The induction theorems of the
library take an operator as a parameter and cannot be used; `Induction` states the same for a set of numbers, and follows
from the least number that would be missing. `Selects` is what is carried from one length to the next: the places of what
was kept, in order, and every place of the category among them.
The properties are not inductive since they do not say what a cursor is good for. `IInv` says that a page is a refusal
or starts at a position of the list of its query (`PageOK`), and that a page at position 0 was asked for without naming an item, however that was spelled (`CursorOK`); that
a walk reached the end of its page (`WalkOK`); and that the page left behind is the one that ends where this
one starts (`BackOK`). `CursorLeads` is the centre: the cursor of the item at a position leads to the
page after it, because ids are distinct and the cursor decodes to the id it was made of.

`ActivityPagesProofs` proves, for every bound of the feed, every set of limits and any cursor a client
makes up, whatever the lengths of the cursors of the upstream (`ActivityAssumption`):

- `Invariance`: `IInv` is an invariant of `Spec`;
- `WalksShowTheFeed`: `[]WalkShowsTheFeed`;
- `LinksAreServed`: the action property `OwnLinksAreServed`.

`WalkOK` says that a walk has shown some number of events from its top down, and that what comes next is named by the link of the
page, or by the query that failed, which is why asking again loses nothing. `LinkOK` says that a link always names
an event that is not the oldest. `LinkIsFound` and `NoLinkIsFound` go through the forms of the header for `parseLinkHeader`, and `RoomIsRight` is the
arithmetic of base64: a cursor fits exactly when the upstream's part of it has at most 1524 bytes.
That the feed grows in between changes nothing, because a cursor names an event and not a position.

`StartupConfigProofs` proves, for all subsets of the classes of values and for lists of origins of any length, from `ConfigAssumption`:

- `Invariance`: `IInv` is an invariant of `Spec`;
- `ClientsFollow`: `[]ClientsFollowTheMode`;
- `StayApart`: `[]EnvironmentsStayApart`.

`ConfigOK` says that a configuration passed every check of the environment as it still stands, and `ClientsOK` from
what the clients were made; `CheckedHosts` shows that the comparison of raw and trimmed hosts is what
ties the two together.

Every invariant and every action property of the runs is proved. Only model-checked are the liveness properties
(`EveryCallAnswered`, `EveryRequestEnds`, `ProcessEnds`, `EveryCallEnds`) and the fairness part of
`ImplementsPipeline`: TLAPS handles neither fairness nor `ENABLED`.

## Not modelled

- Timestamps (`internal/platform/timeutil`): formatting and parsing of one value, without state; the
  order of timestamps is checked in `ProfileStore`.
- Hello function and hello operations: one stateless handler each. The operations and the health check
  appear as routes of the pipeline.
- The OpenAPI document is generated by Huma; the test helpers run in tests only.
- Huma, chi, net/http, the Firebase and Firestore libraries and GitHub are external: they are modelled
  from how the code uses them.
- The lists of origins, methods and header names, texts and schemas are data no property is about; so are the
  security headers and the cache policy (`security.go`), a table by path and method that nothing in a request changes.

## Plan

Done, each with its proofs: profile store and its promise, request pipeline, lifecycle, pagination, configuration,
the GitHub proxy and the pages of activity, and the composition of pipeline and profile store. Left:

1. the shutdown under the composition;
2. lemmas on which the liveness of a call rests: what is enabled at each place of a handler, as far as it can be stated without `ENABLED`.
