---------------------------- MODULE ProfileStore ----------------------------
(***************************************************************************)
(* The four profile handlers (internal/http/v1/profile) over the Firestore *)
(* store (internal/service/profile), with the Firestore backend they talk  *)
(* to.  A handler is a sequence of steps separated by its remote calls:    *)
(* a step builds a request, the backend serves it, drops it or serves it   *)
(* late, and a step consumes the reply or the end of the request context.  *)
(*                                                                         *)
(* The value a request writes into a profile field is the request itself,  *)
(* so a document tells who wrote each of its fields.                       *)
(*                                                                         *)
(* Definitions named Mutant... are bugs somebody could write in place of   *)
(* the definition that follows them; no specification uses them.           *)
(***************************************************************************)
EXTENDS Integers, Sequences

CONSTANTS
    Requests,       \* HTTP requests that reached a profile handler
    Users,          \* verified UIDs; the UID is the Firestore document id
    Fields,         \* the client-supplied profile fields
    NoDoc,          \* absence of a document, of a profile or of a body
    Foreign,        \* a writer of the collection other than this service
    Faults,         \* gRPC codes with which the backend may fail a call
    MaxAttempts,    \* attempts RunTransaction makes (5 in the client library)
    MaxResends,     \* bound: repeats of a write by the transport of one call
    MaxClock        \* bound: the wall clock stops here

RetriedCodes == {"ResourceExhausted", "Unavailable"}

GrpcFaults == RetriedCodes \union
                 {"Aborted", "DeadlineExceeded", "Canceled", "Internal"}

ContextErrors == {"context.Canceled", "context.DeadlineExceeded"}

ASSUME ConstantsAssumption ==
    /\ MaxAttempts \in Nat \ {0}
    /\ MaxResends \in Nat
    /\ MaxClock \in Nat
    /\ Faults \subseteq GrpcFaults
    /\ Foreign \notin Requests

VARIABLES
    doc,        \* the stored document of each user
    log,        \* the writes applied to it, in order: who wrote
    clock,      \* time.Now()
    pc,         \* where each request is
    call,       \* what each request asks
    attempt,    \* attempts of its transaction so far
    rpc,        \* its current write: serial number, profile, version read
    resent,     \* how often the transport repeated a write of it
    wire,       \* its writes in flight, repeats and abandoned ones included
    reply,      \* what its pending call was answered
    audit,      \* the audit events it logged
    result,     \* what its handler is about to answer
    response    \* the HTTP response it got

backend == <<doc, log, clock>>
vars == <<doc, log, clock, pc, call, attempt, rpc, resent, wire, reply,
          audit, result, response>>
-----------------------------------------------------------------------------
Clock == 0..MaxClock
Operations == {"none", "create", "get", "update", "delete"}
Codes == GrpcFaults \union ContextErrors \union
            {"none", "OK", "AlreadyExists", "NotFound", "FailedPrecondition"}
AuditEvents == {"success", "already_exists", "not_found", "unavailable",
                "internal_error"}
Statuses == {0, 200, 201, 204, 404, 409, 422, 500, 503}

\* A service Profile; the stored document also holds fields the struct
\* firestoreProfile does not declare, or declares with another type.
Profile == [data : [Fields -> Requests], created_at : Clock,
            updated_at : Clock]
Document == [data : [Fields -> Requests], created_at : Clock,
             updated_at : Clock, extra : {"none", "unknown", "malformed"}]

ASSUME NoDocAssumption ==
    NoDoc \notin Profile \union Document \union [Fields -> Requests]

Call == [op : Operations, uid : Users, fields : SUBSET Fields]
Write == [n : Nat, profile : Profile \union {NoDoc}, seen : Nat]
Reply == [code : Codes, doc : Document \union {NoDoc}, seen : Nat]
Response == [status : Statuses, body : Profile \union {NoDoc}]

NoWrite == [n |-> 0, profile |-> NoDoc, seen |-> 0]
NoReply == [code |-> "none", doc |-> NoDoc, seen |-> 0]
NoResponse == [status |-> 0, body |-> NoDoc]

Waiting(r) == pc[r] \in {"create", "get", "txget", "commit", "delete"}
Writing(r) == pc[r] \in {"create", "commit", "delete"}
Running(r) == Waiting(r) \/ pc[r] = "answering"
Version(u) == Len(log[u])
-----------------------------------------------------------------------------
(* Errors.  A Go error is the set of identities errors.Is and status.Code  *)
(* can tell; nil is the empty set.                                         *)

\* The deadline of the request context is not classified as an outage.
MutantClassify(code) ==
    IF code \in {"Aborted", "DeadlineExceeded", "ResourceExhausted",
                 "Unavailable"}
      THEN {"ErrUnavailable", code}
      ELSE {code}

\* A code of exhausted quotas is left out.
MutantOutageCodes(code) ==
    IF code \in {"context.DeadlineExceeded", "Aborted", "DeadlineExceeded",
                 "Unavailable"}
      THEN {"ErrUnavailable", code}
      ELSE {code}

ClassifyDependencyError(code) ==
    IF code \in {"context.DeadlineExceeded", "Aborted", "DeadlineExceeded",
                 "ResourceExhausted", "Unavailable"}
      THEN {"ErrUnavailable", code}
      ELSE {code}

\* A canceled create is taken for a completed one.
MutantCreateError(code) ==
    IF code \in {"OK", "context.Canceled"} THEN {}
    ELSE IF code = "AlreadyExists" THEN {"ErrAlreadyExists"}
    ELSE ClassifyDependencyError(code)

CreateError(code) ==
    IF code = "OK" THEN {}
    ELSE IF code = "AlreadyExists" THEN {"ErrAlreadyExists"}
    ELSE ClassifyDependencyError(code)

GetError(code) ==
    IF code = "OK" THEN {}
    ELSE IF code = "NotFound" THEN {"ErrNotFound"}
    ELSE ClassifyDependencyError(code)

\* The closure's ErrNotFound has no gRPC code and passes classification.
UpdateError(code) ==
    IF code = "OK" THEN {}
    ELSE IF code = "ErrNotFound" THEN {"ErrNotFound"}
    ELSE ClassifyDependencyError(code)

DeleteError(code) ==
    IF code = "OK" THEN {}
    ELSE IF code \in {"FailedPrecondition", "NotFound"} THEN {"ErrNotFound"}
    ELSE ClassifyDependencyError(code)

CategorizeError(err) ==
    IF "ErrAlreadyExists" \in err THEN "already_exists"
    ELSE IF "ErrNotFound" \in err THEN "not_found"
    ELSE IF "ErrUnavailable" \in err THEN "unavailable"
    ELSE "internal_error"

LogEvent(err) == IF err = {} THEN "success" ELSE CategorizeError(err)

MapServiceError(err) ==
    IF "ErrNotFound" \in err THEN 404
    ELSE IF "ErrAlreadyExists" \in err THEN 409
    ELSE IF {"ErrUnavailable", "context.DeadlineExceeded"} \intersect err # {}
      THEN 503
    ELSE 500
-----------------------------------------------------------------------------
(* Documents.                                                              *)

Decodes(d) == d.extra # "malformed"

ToProfile(d) == [data |-> d.data, created_at |-> d.created_at,
                 updated_at |-> d.updated_at]

\* UpdatedAt is left at its zero value.
MutantNewProfile(r) == [data |-> [f \in Fields |-> r], created_at |-> clock,
                        updated_at |-> 0]

NewProfile(r) == [data |-> [f \in Fields |-> r], created_at |-> clock,
                  updated_at |-> clock]

\* The time of an update is taken once, outside the retried closure.
MutantMerged(r, d) == [data |-> [f \in Fields |-> IF f \in call[r].fields
                                                    THEN r ELSE d.data[f]],
                       created_at |-> d.created_at,
                       updated_at |-> IF attempt[r] > 1
                                        THEN rpc[r].profile.updated_at
                                        ELSE clock]

\* The profile an update makes of the document its transaction read.
Merged(r, d) == [data |-> [f \in Fields |-> IF f \in call[r].fields
                                              THEN r ELSE d.data[f]],
                 created_at |-> d.created_at, updated_at |-> clock]

\* tx.Set with the struct in place of tx.Update with the named fields.
MutantOverwritten(r, d, p) ==
    [data |-> p.data, created_at |-> p.created_at,
     updated_at |-> p.updated_at, extra |-> "none"]

\* What tx.Update leaves stored: the named fields and updated_at are
\* overwritten, everything else in the document stays.
Overwritten(r, d, p) ==
    [d EXCEPT !.data = [f \in Fields |-> IF f \in call[r].fields
                                           THEN p.data[f] ELSE @[f]],
              !.updated_at = p.updated_at]

Stored(p) == [data |-> p.data, created_at |-> p.created_at,
              updated_at |-> p.updated_at, extra |-> "none"]
-----------------------------------------------------------------------------
Init ==
    /\ doc = [u \in Users |-> NoDoc]
    /\ log = [u \in Users |-> <<>>]
    /\ clock = 0
    /\ pc = [r \in Requests |-> "idle"]
    /\ call \in [Requests -> {[op |-> "none", uid |-> u, fields |-> {}] :
                                u \in Users}]
    /\ attempt = [r \in Requests |-> 0]
    /\ rpc = [r \in Requests |-> NoWrite]
    /\ resent = [r \in Requests |-> 0]
    /\ wire = [r \in Requests |-> {}]
    /\ reply = [r \in Requests |-> NoReply]
    /\ audit = [r \in Requests |-> <<>>]
    /\ result = [r \in Requests |-> NoResponse]
    /\ response = [r \in Requests |-> NoResponse]
-----------------------------------------------------------------------------
(* Steps of the handlers.                                                  *)

\* A handler sends write p and waits at `place` for its reply.
Send(r, place, p, seen) ==
    LET w == [n |-> rpc[r].n + 1, profile |-> p, seen |-> seen] IN
    /\ pc' = [pc EXCEPT ![r] = place]
    /\ rpc' = [rpc EXCEPT ![r] = w]
    /\ wire' = [wire EXCEPT ![r] = @ \union {w}]
    /\ reply' = [reply EXCEPT ![r] = NoReply]

\* The store returns.  It has logged its audit event, if the operation logs
\* one, and its handler knows what it will answer; nobody else does yet.
Finish(r, events, status, body) ==
    /\ pc' = [pc EXCEPT ![r] = "answering"]
    /\ audit' = [audit EXCEPT ![r] = @ \o events]
    /\ result' = [result EXCEPT ![r] = [status |-> status, body |-> body]]

HandleCreate(r) ==
    /\ pc[r] = "idle"
    /\ call' = [call EXCEPT ![r].op = "create"]
    /\ Send(r, "create", NewProfile(r), 0)
    /\ UNCHANGED <<backend, attempt, resent, audit, result, response>>

CreateReturn(r) ==
    /\ pc[r] = "create"
    /\ reply[r] # NoReply
    /\ LET err == CreateError(reply[r].code)
       IN  Finish(r, <<LogEvent(err)>>,
                  IF err = {} THEN 201 ELSE MapServiceError(err),
                  IF err = {} THEN rpc[r].profile ELSE NoDoc)
    /\ UNCHANGED <<backend, call, attempt, rpc, resent, wire, reply, response>>

HandleGet(r) ==
    /\ pc[r] = "idle"
    /\ call' = [call EXCEPT ![r].op = "get"]
    /\ pc' = [pc EXCEPT ![r] = "get"]
    /\ UNCHANGED <<backend, attempt, rpc, resent, wire, reply, audit,
                   result, response>>

\* A document that does not decode into the struct is an internal error.
GetReturn(r) ==
    /\ pc[r] = "get"
    /\ reply[r] # NoReply
    /\ LET read == GetError(reply[r].code)
           err == IF read = {} /\ ~Decodes(reply[r].doc)
                    THEN {"decode profile"} ELSE read
       IN  Finish(r, <<>>,
                  IF err = {} THEN 200 ELSE MapServiceError(err),
                  IF err = {} THEN ToProfile(reply[r].doc) ELSE NoDoc)
    /\ UNCHANGED <<backend, call, attempt, rpc, resent, wire, reply, response>>

HandleUpdate(r, F) ==
    /\ pc[r] = "idle"
    /\ call' = [call EXCEPT ![r].op = "update", ![r].fields = F]
    /\ IF F = {}
         THEN /\ Finish(r, <<>>, 422, NoDoc)
              /\ UNCHANGED attempt
         ELSE /\ pc' = [pc EXCEPT ![r] = "txget"]
              /\ attempt' = [attempt EXCEPT ![r] = 1]
              /\ UNCHANGED <<audit, result>>
    /\ UNCHANGED <<backend, rpc, resent, wire, reply, response>>

\* An update that failed: classified, audited and answered.
FailUpdate(r, code) ==
    LET err == UpdateError(code)
    IN  Finish(r, <<LogEvent(err)>>, MapServiceError(err), NoDoc)

\* The transaction closure after tx.Get: its error ends the transaction
\* without a retry, otherwise it merges, takes the time and asks to commit.
UpdateClosure(r) ==
    /\ pc[r] = "txget"
    /\ reply[r] # NoReply
    /\ \/ /\ reply[r].code = "OK"
          /\ Decodes(reply[r].doc)
          /\ Send(r, "commit", Merged(r, reply[r].doc), reply[r].seen)
          /\ UNCHANGED <<audit, result>>
       \/ /\ reply[r].code = "OK"
          /\ ~Decodes(reply[r].doc)
          /\ FailUpdate(r, "decode profile")
          /\ UNCHANGED <<rpc, wire, reply>>
       \/ /\ reply[r].code # "OK"
          /\ FailUpdate(r, IF reply[r].code = "NotFound" THEN "ErrNotFound"
                                                         ELSE reply[r].code)
          /\ UNCHANGED <<rpc, wire, reply>>
    /\ UNCHANGED <<backend, call, attempt, resent, response>>

\* The transaction is attempted again after any transient error, and
\* without end.
MutantUpdateRetry(r) ==
    /\ pc[r] = "commit"
    /\ reply[r].code \in {"Aborted", "Unavailable"}
    /\ attempt' = [attempt EXCEPT ![r] = @ + 1]
    /\ pc' = [pc EXCEPT ![r] = "txget"]
    /\ reply' = [reply EXCEPT ![r] = NoReply]
    /\ UNCHANGED <<backend, call, rpc, resent, wire, audit, result, response>>

\* RunTransaction: an aborted commit runs the closure again, from tx.Get.
UpdateRetry(r) ==
    /\ pc[r] = "commit"
    /\ reply[r].code = "Aborted"
    /\ attempt[r] < MaxAttempts
    /\ attempt' = [attempt EXCEPT ![r] = @ + 1]
    /\ pc' = [pc EXCEPT ![r] = "txget"]
    /\ reply' = [reply EXCEPT ![r] = NoReply]
    /\ UNCHANGED <<backend, call, rpc, resent, wire, audit, result, response>>

UpdateReturn(r) ==
    /\ pc[r] = "commit"
    /\ reply[r] # NoReply
    /\ reply[r].code = "Aborted" => attempt[r] = MaxAttempts
    /\ IF reply[r].code = "OK"
         THEN Finish(r, <<"success">>, 200, rpc[r].profile)
         ELSE FailUpdate(r, reply[r].code)
    /\ UNCHANGED <<backend, call, attempt, rpc, resent, wire, reply, response>>

HandleDelete(r) ==
    /\ pc[r] = "idle"
    /\ call' = [call EXCEPT ![r].op = "delete"]
    /\ Send(r, "delete", NoDoc, 0)
    /\ UNCHANGED <<backend, attempt, resent, audit, result, response>>

DeleteReturn(r) ==
    /\ pc[r] = "delete"
    /\ reply[r] # NoReply
    /\ LET err == DeleteError(reply[r].code)
       IN  Finish(r, <<LogEvent(err)>>,
                  IF err = {} THEN 204 ELSE MapServiceError(err), NoDoc)
    /\ UNCHANGED <<backend, call, attempt, rpc, resent, wire, reply, response>>
-----------------------------------------------------------------------------
(* The handler returns to the framework, which writes the response.        *)

Respond(r) ==
    /\ pc[r] = "answering"
    /\ pc' = [pc EXCEPT ![r] = "done"]
    /\ response' = [response EXCEPT ![r] = result[r]]
    /\ UNCHANGED <<backend, call, attempt, rpc, resent, wire, reply, audit,
                   result>>
-----------------------------------------------------------------------------
(* The request context ends: the client goes away, or the 8 s deadline of  *)
(* requestContextTimeout passes.  The pending call returns at once, a      *)
(* reply already received may lose the race, and what was sent stays sent. *)

ContextDone(r, error) ==
    /\ Waiting(r)
    /\ reply[r].code \notin ContextErrors
    /\ reply' = [reply EXCEPT ![r] = [NoReply EXCEPT !.code = error]]
    /\ UNCHANGED <<backend, pc, call, attempt, rpc, resent, wire, audit,
                   result, response>>

Cancel(r) == ContextDone(r, "context.Canceled")

\* The store is called with a context of its own: the deadline passes unheeded.
MutantExpire(r) == Waiting(r) /\ UNCHANGED vars

Expire(r) == ContextDone(r, "context.DeadlineExceeded")

\* The process dies; requests in flight are never answered, those included
\* whose audit event has been logged already.
Crash ==
    /\ \E r \in Requests : Running(r)
    /\ pc' = [r \in Requests |-> IF Running(r) THEN "crashed" ELSE pc[r]]
    /\ UNCHANGED <<backend, call, attempt, rpc, resent, wire, reply, audit,
                   result, response>>
-----------------------------------------------------------------------------
(* The Firestore client library's transport and the backend.               *)

\* A reply reaches r only while r waits for this very send.
Deliver(r, w, code) ==
    reply' = IF Writing(r) /\ w.n = rpc[r].n /\ reply[r] = NoReply
               THEN [reply EXCEPT ![r] = [NoReply EXCEPT !.code = code]]
               ELSE reply

Apply(r, d) ==
    /\ doc' = [doc EXCEPT ![call[r].uid] = d]
    /\ log' = [log EXCEPT ![call[r].uid] = Append(@, r)]

\* docRef.Set in place of docRef.Create.
MutantServeCreate(r) ==
    /\ call[r].op = "create"
    /\ \E w \in wire[r] : /\ wire' = [wire EXCEPT ![r] = @ \ {w}]
                          /\ Apply(r, Stored(w.profile))
                          /\ Deliver(r, w, "OK")
    /\ UNCHANGED <<clock, pc, call, attempt, rpc, resent, audit,
                   result, response>>

\* docRef.Get followed by docRef.Set in place of a transaction.
MutantServeSet(r) ==
    /\ call[r].op = "update"
    /\ \E w \in wire[r] : /\ wire' = [wire EXCEPT ![r] = @ \ {w}]
                          /\ Apply(r, Stored(w.profile))
                          /\ Deliver(r, w, "OK")
    /\ UNCHANGED <<clock, pc, call, attempt, rpc, resent, audit,
                   result, response>>

\* docRef.Get followed by docRef.Update in place of a transaction.
MutantServeUpdate(r) ==
    /\ call[r].op = "update"
    /\ \E w \in wire[r] :
         /\ wire' = [wire EXCEPT ![r] = @ \ {w}]
         /\ IF doc[call[r].uid] # NoDoc
              THEN /\ Apply(r, Overwritten(r, doc[call[r].uid], w.profile))
                   /\ Deliver(r, w, "OK")
              ELSE UNCHANGED <<doc, log>> /\ Deliver(r, w, "NotFound")
    /\ UNCHANGED <<clock, pc, call, attempt, rpc, resent, audit,
                   result, response>>

\* docRef.Create: the write requires that the document does not exist.
ServeCreate(r) ==
    /\ call[r].op = "create"
    /\ \E w \in wire[r] :
         /\ wire' = [wire EXCEPT ![r] = @ \ {w}]
         /\ IF doc[call[r].uid] = NoDoc
              THEN Apply(r, Stored(w.profile)) /\ Deliver(r, w, "OK")
              ELSE UNCHANGED <<doc, log>> /\ Deliver(r, w, "AlreadyExists")
    /\ UNCHANGED <<clock, pc, call, attempt, rpc, resent, audit,
                   result, response>>

\* Commit of a transaction: what it read must still be current.
ServeCommit(r) ==
    /\ call[r].op = "update"
    /\ \E w \in wire[r] :
         /\ wire' = [wire EXCEPT ![r] = @ \ {w}]
         /\ IF w.seen = Version(call[r].uid)
              THEN /\ Apply(r, Overwritten(r, doc[call[r].uid], w.profile))
                   /\ Deliver(r, w, "OK")
              ELSE UNCHANGED <<doc, log>> /\ Deliver(r, w, "Aborted")
    /\ UNCHANGED <<clock, pc, call, attempt, rpc, resent, audit,
                   result, response>>

\* docRef.Delete without a precondition.
MutantServeDelete(r) ==
    /\ call[r].op = "delete"
    /\ \E w \in wire[r] :
         /\ wire' = [wire EXCEPT ![r] = @ \ {w}]
         /\ Deliver(r, w, "OK")
         /\ IF doc[call[r].uid] # NoDoc THEN Apply(r, NoDoc)
                                       ELSE UNCHANGED <<doc, log>>
    /\ UNCHANGED <<clock, pc, call, attempt, rpc, resent, audit,
                   result, response>>

\* docRef.Delete with the firestore.Exists precondition.
ServeDelete(r) ==
    /\ call[r].op = "delete"
    /\ \E w \in wire[r] :
         /\ wire' = [wire EXCEPT ![r] = @ \ {w}]
         /\ IF doc[call[r].uid] # NoDoc
              THEN Apply(r, NoDoc) /\ Deliver(r, w, "OK")
              ELSE /\ UNCHANGED <<doc, log>>
                   /\ \E code \in {"FailedPrecondition", "NotFound"} :
                        Deliver(r, w, code)
    /\ UNCHANGED <<clock, pc, call, attempt, rpc, resent, audit,
                   result, response>>

\* docRef.Get and tx.Get.
ServeRead(r) ==
    /\ pc[r] \in {"get", "txget"}
    /\ reply[r] = NoReply
    /\ LET d == doc[call[r].uid]
       IN  reply' = [reply EXCEPT ![r] =
                       [code |-> IF d = NoDoc THEN "NotFound" ELSE "OK",
                        doc |-> d, seen |-> Version(call[r].uid)]]
    /\ UNCHANGED <<backend, pc, call, attempt, rpc, resent, wire, audit,
                   result, response>>

\* A call fails.  Only Aborted says that the write will not be applied;
\* after any other code it may have been, or may still be.
Fault(r) ==
    /\ Waiting(r)
    /\ reply[r] = NoReply
    /\ \E code \in Faults :
         /\ reply' = [reply EXCEPT ![r] = [NoReply EXCEPT !.code = code]]
         /\ IF code = "Aborted" /\ Writing(r)
              THEN /\ rpc[r] \in wire[r]
                   /\ wire' = [wire EXCEPT ![r] = @ \ {rpc[r]}]
              ELSE UNCHANGED wire
    /\ UNCHANGED <<backend, pc, call, attempt, rpc, resent, audit,
                   result, response>>

\* The generated client repeats a write it was told was not served; the
\* store's code above it does not see the first failure.
Resend(r) ==
    /\ Writing(r)
    /\ reply[r].code \in RetriedCodes
    /\ resent[r] < MaxResends
    /\ resent' = [resent EXCEPT ![r] = @ + 1]
    /\ Send(r, pc[r], rpc[r].profile, rpc[r].seen)
    /\ UNCHANGED <<backend, call, attempt, audit, result, response>>

\* Another program adds a field the struct does not declare, or spoils one.
ForeignWrite(u) ==
    /\ doc[u] # NoDoc
    /\ doc[u].extra = "none"
    /\ \E extra \in {"unknown", "malformed"} :
         doc' = [doc EXCEPT ![u].extra = extra]
    /\ log' = [log EXCEPT ![u] = Append(@, Foreign)]
    /\ UNCHANGED <<clock, pc, call, attempt, rpc, resent, wire, reply, audit,
                   result, response>>

Tick ==
    /\ clock < MaxClock
    /\ clock' = clock + 1
    /\ UNCHANGED <<doc, log, pc, call, attempt, rpc, resent, wire, reply,
                   audit, result, response>>

\* Every request has been handled: the finite instance has nothing to do.
Quiet ==
    /\ \A r \in Requests : pc[r] \in {"done", "crashed"}
    /\ UNCHANGED vars
-----------------------------------------------------------------------------
\* The goroutine of a request goes on.
Return(r) == CreateReturn(r) \/ GetReturn(r) \/ UpdateClosure(r)
               \/ UpdateRetry(r) \/ UpdateReturn(r) \/ DeleteReturn(r)
               \/ Respond(r)

Handle(r) == HandleCreate(r) \/ HandleGet(r) \/ HandleDelete(r)
               \/ \E F \in SUBSET Fields : HandleUpdate(r, F)

Serve(r) == ServeCreate(r) \/ ServeCommit(r) \/ ServeDelete(r)
              \/ ServeRead(r)

Next ==
    \/ \E r \in Requests : Handle(r) \/ Return(r) \/ Serve(r) \/ Fault(r)
                             \/ Resend(r) \/ Cancel(r) \/ Expire(r)
    \/ \E u \in Users : ForeignWrite(u)
    \/ Crash \/ Tick \/ Quiet

Spec == Init /\ [][Next]_vars

\* Goroutines keep running and the deadline timer of a request fires.
Fairness == \A r \in Requests : WF_vars(Return(r)) /\ WF_vars(Expire(r))

FairSpec == Spec /\ Fairness
-----------------------------------------------------------------------------
(* Properties.                                                             *)

\* Every variable keeps its type; a transaction makes no more attempts than
\* it may, and a commit never brings back a document that is gone.
TypeOK ==
    /\ doc \in [Users -> Document \union {NoDoc}]
    /\ log \in [Users -> Seq(Requests \union {Foreign})]
    /\ clock \in Clock
    /\ pc \in [Requests -> {"idle", "create", "get", "txget", "commit",
                            "delete", "answering", "done", "crashed"}]
    /\ call \in [Requests -> Call]
    /\ attempt \in [Requests -> 0..MaxAttempts]
    /\ rpc \in [Requests -> Write]
    /\ resent \in [Requests -> 0..MaxResends]
    /\ wire \in [Requests -> SUBSET Write]
    /\ reply \in [Requests -> Reply]
    /\ audit \in [Requests -> Seq(AuditEvents)]
    /\ result \in [Requests -> Response]
    /\ response \in [Requests -> Response]

\* The positions at which writes of r stand in the history of its document.
Effects(r) == {i \in 1..Version(call[r].uid) : log[call[r].uid][i] = r}

Successes == {200, 201, 204}
Refusals == {404, 409, 422}

Mutates(r) == call[r].op \in {"create", "update", "delete"}

\* A success answers a write that has been applied.  A refusal answers a
\* write that has not, unless the transport repeated it: then the refusal
\* can be the backend's answer to the repeat of an applied write.
AnswersMatchHistory ==
    \A r \in Requests : Mutates(r) =>
        /\ response[r].status \in Successes => Effects(r) # {}
        /\ response[r].status \in Refusals /\ resent[r] = 0 => Effects(r) = {}

\* The audit events that go with the answer to a mutating call.
EventsFor(status) ==
    CASE status \in {0, 422} -> <<>>
      [] status \in Successes -> <<"success">>
      [] status = 404 -> <<"not_found">>
      [] status = 409 -> <<"already_exists">>
      [] status = 503 -> <<"unavailable">>
      [] status = 500 -> <<"internal_error">>

\* Every mutating call that was answered left exactly one audit event, of
\* the category its client was told; a read, and an update that named no
\* field, left none.  A call that was not answered, because it still runs or
\* the process died under it, may have left its event all the same: one at
\* most, and what that event says of the document is true.
AuditMatchesAnswers ==
    \A r \in Requests :
        LET Says(event) == audit[r] = <<event>> IN
        /\ Mutates(r) \/ audit[r] = <<>>
        /\ Mutates(r) /\ pc[r] = "done"
             => audit[r] = EventsFor(response[r].status)
        /\ audit[r] = <<>> \/ \E event \in AuditEvents : Says(event)
        /\ Says("success") => Effects(r) # {}
        /\ resent[r] = 0 /\ (Says("not_found") \/ Says("already_exists"))
             => Effects(r) = {} /\ wire[r] = {}

\* Ways in which Firestore, or the time a request has, may run out.
Outages == {"Aborted", "DeadlineExceeded", "ResourceExhausted",
            "Unavailable", "context.DeadlineExceeded"}

\* An outage is answered 503, which asks the client to come back, whatever
\* the operation and however many attempts and repeats went before it, and
\* is never taken for a bug of the service (500); nothing else is answered
\* 503.  A client sent away because of contention alone comes back to a
\* document its call has not touched and never will.
OutagesAskToComeBack ==
    \A r \in Requests : pc[r] = "done" =>
        /\ response[r].status = 503 <=> reply[r].code \in Outages
        /\ reply[r].code = "Aborted" /\ resent[r] = 0
             => Effects(r) = {} /\ wire[r] = {}

\* However often its transaction was attempted, a call whose writes the
\* transport did not repeat is applied at most once.
AppliedAtMostOnce ==
    \A r \in Requests : resent[r] = 0 =>
        \A i, j \in Effects(r) : i = j

\* Once a call that was not repeated is answered with a success or a
\* refusal, nothing of it reaches the document any more; only a call
\* answered 500 or 503, or never answered, may still take effect.
SettledCallsAreInert ==
    [][\A r \in Requests :
         /\ response[r].status \in Successes \union Refusals
         /\ resent[r] = 0
         => Effects(r)' = Effects(r)]_vars

\* Between two creates of one user's profile it was deleted: concurrent
\* creates have one winner, and so have concurrent deletes.
OneWinnerPerLifetime ==
    \A u \in Users : \A i, j \in 1..Version(u) :
        /\ i < j
        /\ {log[u][i], log[u][j]} \subseteq Requests
        /\ call[log[u][i]].op = call[log[u][j]].op
        /\ call[log[u][i]].op # "update"
        => \E k \in (i + 1)..(j - 1) :
              /\ log[u][k] \in Requests
              /\ {call[log[u][i]].op, call[log[u][k]].op} = {"create", "delete"}

\* The writes of history that wrote field f of u's profile.
Writers(u, f) ==
    {i \in 1..Version(u) : /\ log[u][i] \in Requests
                           /\ \/ call[log[u][i]].op = "create"
                              \/ f \in call[log[u][i]].fields}

\* No update is lost: each stored field has the value of the last write
\* that named it, whatever other fields were written in between.
NoLostUpdate ==
    \A u \in Users, f \in Fields : doc[u] # NoDoc =>
        \E i \in Writers(u, f) :
            /\ \A j \in Writers(u, f) : j <= i
            /\ doc[u].data[f] = log[u][i]

\* The body of a successful answer is what was stored: until the document
\* is written again it holds exactly that profile, timestamps included.
AcknowledgedWriteIsStored ==
    \A r \in Requests :
        LET u == call[r].uid IN
        /\ Mutates(r)
        /\ response[r].status \in Successes
        /\ Version(u) \in Effects(r)
        => IF call[r].op = "delete"
             THEN doc[u] = NoDoc
             ELSE doc[u] # NoDoc /\ ToProfile(doc[u]) = response[r].body

\* What is stored or answered was created before it was last updated, and
\* not in the future.
TimestampsOrdered ==
    LET Ordered(p) == p # NoDoc => /\ p.created_at <= p.updated_at
                                   /\ p.updated_at <= clock
    IN  /\ \A u \in Users : Ordered(doc[u])
        /\ \A r \in Requests : Ordered(response[r].body)

\* While a profile exists its creation time is fixed and its update time
\* never goes back, in whatever order delayed commits arrive.
UpdatedAtNeverRegresses ==
    [][\A u \in Users : doc[u] # NoDoc /\ doc'[u] # NoDoc =>
         /\ doc'[u].created_at = doc[u].created_at
         /\ doc'[u].updated_at >= doc[u].updated_at]_vars

\* An update keeps what other programs stored in the document, and does
\* not touch a document it cannot decode.
ForeignFieldsSurvive ==
    [][\A u \in Users : doc[u] # NoDoc /\ doc'[u] # NoDoc =>
         /\ doc[u].extra # "none" => doc'[u].extra = doc[u].extra
         /\ doc[u].extra = "malformed" => doc'[u] = doc[u]]_vars

\* Every call a handler makes is answered, unless the process dies: no
\* retry loop outlives the attempts and the deadline.
EveryCallAnswered ==
    \A r \in Requests : Running(r) ~> pc[r] \in {"done", "crashed"}
-----------------------------------------------------------------------------
(* The promise.  A document maps to its data, a write to the position at   *)
(* which it stands in the history, a read to the reply that carries it.    *)

DataOf(u) == IF doc[u] = NoDoc THEN NoDoc ELSE doc[u].data

Refusing(r) == reply[r].code \in {"AlreadyExists", "NotFound",
                                  "FailedPrecondition"}

ReadTaken(r) ==
    /\ call[r].op = "get"
    /\ reply[r].code = "OK"

\* A call is pending until it is answered; what names no field is found to
\* be invalid at once.
StatusOf(r) ==
    IF pc[r] = "idle" THEN "idle"
    ELSE IF result[r].status = 422 THEN "invalid"
    ELSE IF Running(r) THEN "pending"
    ELSE IF response[r].status \in Successes THEN "done"
    ELSE IF response[r].status \in {404, 409} THEN "refused"
    ELSE "unknown"

VerdictOf(r) == IF ReadTaken(r) \/ (Mutates(r) /\ Effects(r) # {}) THEN "done"
                ELSE IF Refusing(r) THEN "refused" ELSE "none"

\* What the verdict of r is about: the profile read, or the profile of its
\* own write, which is also what it answers.
ViewOf(r) ==
    IF ReadTaken(r) THEN reply[r].doc.data
    ELSE IF VerdictOf(r) = "done" /\ rpc[r].profile # NoDoc
      THEN rpc[r].profile.data ELSE NoDoc

Registry == INSTANCE ProfileRegistry WITH
    NoProfile <- NoDoc,
    registry <- [u \in Users |-> DataOf(u)],
    status <- [r \in Requests |-> StatusOf(r)],
    verdict <- [r \in Requests |-> VerdictOf(r)],
    view <- [r \in Requests |-> ViewOf(r)]

\* The handlers over Firestore implement the atomic map, as long as the
\* transport does not repeat their writes (MaxResends = 0).
ImplementsRegistry == Registry!Spec
=============================================================================
