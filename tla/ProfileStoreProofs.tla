------------------------- MODULE ProfileStoreProofs -------------------------
(***************************************************************************)
(* Proofs about ProfileStore, for every set of requests, users and fields, *)
(* every set of backend failures and every number of attempts:             *)
(*   - what an answer says of the history of its document;                 *)
(*   - what that history and the audit log of the service hold;            *)
(*   - that an outage, and nothing else, is answered as one;               *)
(*   - the times, the foreign fields and the profile of a success;         *)
(*   - that the store implements ProfileRegistry, as long as the transport *)
(*     repeats no write.                                                   *)
(***************************************************************************)
EXTENDS ProfileStore, TLAPS

(* The inductive invariant.                                                *)

\* The writes of r that may still be applied or sent again.
Pending(r) == wire[r] \union (IF Writing(r) THEN {rpc[r]} ELSE {})

\* A request waits only at places of its own operation.
PlaceOK(r) ==
    /\ pc[r] = "idle" => call[r].op = "none" /\ reply[r] = NoReply
    /\ pc[r] = "create" => call[r].op = "create"
    /\ pc[r] = "get" => call[r].op = "get"
    /\ pc[r] \in {"txget", "commit"} => call[r].op = "update"
    /\ pc[r] = "delete" => call[r].op = "delete"
    /\ wire[r] # {} => Mutates(r)

\* What a create or an update sends is a profile that carries its values.
WritesOK(r) ==
    call[r].op \in {"create", "update"} =>
        \A w \in Pending(r) :
            /\ w.profile \in Profile
            /\ \A f \in Fields :
                 call[r].op = "create" \/ f \in call[r].fields
                 => w.profile.data[f] = r

\* Version n of u's document existed, or is not the current one any more.
Existed(u, n) == n <= Version(u) /\ (n = Version(u) => doc[u] # NoDoc)

SnapshotsOK(r) ==
    /\ call[r].op = "update" =>
         \A w \in Pending(r) : Existed(call[r].uid, w.seen)
    /\ pc[r] \in {"get", "txget"} /\ reply[r].code = "OK" =>
         /\ reply[r].doc # NoDoc
         /\ Existed(call[r].uid, reply[r].seen)

\* What the replies and the answers of r say of the history.
HistoryOK(r) ==
    /\ pc[r] = "idle" => Effects(r) = {} /\ resent[r] = 0
    /\ Writing(r) /\ reply[r].code = "OK" => Effects(r) # {}
    /\ Mutates(r) /\ result[r].status \in Successes => Effects(r) # {}
    /\ result[r].status # 0 => pc[r] \in {"answering", "done", "crashed"}
    /\ response[r] = IF pc[r] = "done" THEN result[r] ELSE NoResponse

\* While the transport has repeated nothing, r has one write at most that
\* can still be applied, and none once it has been applied or refused.
OnceOK(r) ==
    resent[r] = 0 =>
        /\ wire[r] \subseteq {rpc[r]}
        /\ wire[r] # {} => Effects(r) = {}
        /\ pc[r] \in {"idle", "txget"} => wire[r] = {} /\ Effects(r) = {}
        /\ Writing(r) /\ reply[r] = NoReply => rpc[r] \in wire[r]
        /\ Writing(r) /\ reply[r].code = "OK" => wire[r] = {}
        /\ Writing(r) /\ reply[r].code \in {"AlreadyExists", "NotFound",
                                          "FailedPrecondition", "Aborted"}
             => wire[r] = {} /\ Effects(r) = {}
        /\ result[r].status \in Successes \union Refusals => wire[r] = {}
        /\ Mutates(r) /\ result[r].status \in Refusals => Effects(r) = {}
        /\ \A i, j \in Effects(r) : i = j

RequestOK(r) == /\ PlaceOK(r)
                /\ WritesOK(r)
                /\ SnapshotsOK(r)
                /\ HistoryOK(r)
                /\ OnceOK(r)

IInv == TypeOK /\ \A r \in Requests : RequestOK(r)
-----------------------------------------------------------------------------
(* Types of the operators the steps are built from.                        *)

\* What the conversions from errors return.
LEMMA ErrorTypes ==
    ASSUME NEW err
    PROVE  /\ LogEvent(err) \in AuditEvents
           /\ MapServiceError(err) \in {404, 409, 500, 503}
  BY DEF LogEvent, CategorizeError, AuditEvents, MapServiceError

\* A profile made by a create.
LEMMA NewProfileType ==
    ASSUME TypeOK, NEW r \in Requests
    PROVE  NewProfile(r) \in Profile
  BY DEF TypeOK, NewProfile, Profile

\* A profile made by an update, and one made by a read.
LEMMA MergedType ==
    ASSUME TypeOK, NEW r \in Requests, NEW d \in Document
    PROVE  Merged(r, d) \in Profile /\ ToProfile(d) \in Profile
  BY DEF TypeOK, Merged, ToProfile, Profile, Document

\* What the backend stores for a create and for an update.
LEMMA StoredType ==
    ASSUME NEW r \in Requests, NEW p \in Profile, NEW d \in Document
    PROVE  Stored(p) \in Document /\ Overwritten(r, d, p) \in Document
  BY DEF Stored, Overwritten, Profile, Document

\* Sending a write keeps the types of what it changes.
LEMMA SendType ==
    ASSUME TypeOK, NEW r \in Requests,
           NEW place \in {"create", "commit", "delete"},
           NEW p \in Profile \union {NoDoc}, NEW seen \in Nat,
           Send(r, place, p, seen)
    PROVE  /\ pc' \in [Requests -> {"idle", "create", "get", "txget", "commit",
                                    "delete", "answering", "done", "crashed"}]
           /\ rpc' \in [Requests -> Write]
           /\ wire' \in [Requests -> SUBSET Write]
           /\ reply' \in [Requests -> Reply]
  <1> DEFINE w == [n |-> rpc[r].n + 1, profile |-> p, seen |-> seen]
  <1>1. w \in Write
    BY DEF TypeOK, Write
  <1>2. NoReply \in Reply
    BY DEF NoReply, Reply, Codes
  <1>3. /\ pc' = [pc EXCEPT ![r] = place]
        /\ rpc' = [rpc EXCEPT ![r] = w]
        /\ wire' = [wire EXCEPT ![r] = @ \union {w}]
        /\ reply' = [reply EXCEPT ![r] = NoReply]
    BY DEF Send
  <1> HIDE DEF w
  <1> QED
    BY <1>1, <1>2, <1>3 DEF TypeOK

\* Returning keeps the types of what it changes.
LEMMA FinishType ==
    ASSUME TypeOK, NEW r \in Requests, NEW events \in Seq(AuditEvents),
           NEW status \in Statuses, NEW body \in Profile \union {NoDoc},
           Finish(r, events, status, body)
    PROVE  /\ pc' \in [Requests -> {"idle", "create", "get", "txget", "commit",
                                    "delete", "answering", "done", "crashed"}]
           /\ audit' \in [Requests -> Seq(AuditEvents)]
           /\ result' \in [Requests -> Response]
  <1>1. [status |-> status, body |-> body] \in Response
    BY DEF Response
  <1>2. audit[r] \o events \in Seq(AuditEvents)
    BY DEF TypeOK
  <1> QED
    BY <1>1, <1>2 DEF TypeOK, Finish

\* So does failing an update.
LEMMA FailUpdateType ==
    ASSUME TypeOK, NEW r \in Requests, NEW code, FailUpdate(r, code)
    PROVE  /\ pc' \in [Requests -> {"idle", "create", "get", "txget", "commit",
                                    "delete", "answering", "done", "crashed"}]
           /\ audit' \in [Requests -> Seq(AuditEvents)]
           /\ result' \in [Requests -> Response]
  <1> DEFINE err == UpdateError(code)
  <1>1. Finish(r, <<LogEvent(err)>>, MapServiceError(err), NoDoc)
    BY DEF FailUpdate
  <1>2. <<LogEvent(err)>> \in Seq(AuditEvents) /\ MapServiceError(err) \in Statuses
    BY ErrorTypes DEF Statuses
  <1> QED
    BY <1>1, <1>2, FinishType

\* Applying a write keeps the types of document and history.
LEMMA ApplyType ==
    ASSUME TypeOK, NEW r \in Requests, NEW d \in Document \union {NoDoc},
           Apply(r, d)
    PROVE  /\ doc' \in [Users -> Document \union {NoDoc}]
           /\ log' \in [Users -> Seq(Requests \union {Foreign})]
  <1>1. call[r].uid \in Users
    BY DEF TypeOK, Call
  <1>2. Append(log[call[r].uid], r) \in Seq(Requests \union {Foreign})
    BY <1>1 DEF TypeOK
  <1> QED
    BY <1>1, <1>2 DEF TypeOK, Apply

\* A reply of a code is well typed, delivered or not.
LEMMA DeliverType ==
    ASSUME TypeOK, NEW r \in Requests, NEW w, NEW code \in Codes,
           Deliver(r, w, code)
    PROVE  reply' \in [Requests -> Reply]
  <1>1. [NoReply EXCEPT !.code = code] \in Reply
    BY DEF NoReply, Reply
  <1> QED
    BY <1>1 DEF TypeOK, Deliver

-----------------------------------------------------------------------------
(* The variables keep their types.                                         *)

LEMMA InitType == Init => TypeOK
  <1> SUFFICES ASSUME Init PROVE TypeOK
    OBVIOUS
  <1>1. NoWrite \in Write /\ NoReply \in Reply /\ NoResponse \in Response
    BY DEF NoWrite, Write, NoReply, Reply, Codes, NoResponse, Response, Statuses
  <1>2. call \in [Requests -> Call]
    BY DEF Init, Call, Operations
  <1>3. 0 \in 0..MaxAttempts /\ 0 \in 0..MaxResends /\ 0 \in Clock
    BY ConstantsAssumption DEF Clock
  <1> QED
    BY <1>1, <1>2, <1>3 DEF Init, TypeOK

\* A step of a handler, up to its next call or its answer.
LEMMA HandlerType ==
    ASSUME IInv, NEW r \in Requests, Handle(r) \/ Return(r)
    PROVE  TypeOK'
  <1>1. TypeOK
    BY DEF IInv
  <1>2. CASE HandleCreate(r)
    <2>1. Send(r, "create", NewProfile(r), 0)
      BY <1>2 DEF HandleCreate
    <2>2. call' \in [Requests -> Call]
      BY <1>1, <1>2 DEF HandleCreate, TypeOK, Call, Operations
    <2> QED
      BY <1>1, <1>2, <2>1, <2>2, NewProfileType, SendType
      DEF HandleCreate, TypeOK, backend
  <1>3. CASE HandleGet(r)
    <2>1. call' \in [Requests -> Call]
      BY <1>1, <1>3 DEF HandleGet, TypeOK, Call, Operations
    <2> QED
      BY <1>1, <1>3, <2>1 DEF HandleGet, TypeOK, backend
  <1>4. CASE HandleDelete(r)
    <2>1. Send(r, "delete", NoDoc, 0)
      BY <1>4 DEF HandleDelete
    <2>2. call' \in [Requests -> Call]
      BY <1>1, <1>4 DEF HandleDelete, TypeOK, Call, Operations
    <2> QED
      BY <1>1, <1>4, <2>1, <2>2, SendType DEF HandleDelete, TypeOK, backend
  <1>5. ASSUME NEW F \in SUBSET Fields, HandleUpdate(r, F)
        PROVE  TypeOK'
    <2> DEFINE c == [call[r] EXCEPT !.op = "update", !.fields = F]
    <2>a. c \in Call
      BY <1>1, <1>5 DEF TypeOK, Call, Operations
    <2>b. call' = [call EXCEPT ![r] = c]
      BY <1>5 DEF HandleUpdate
    <2>1. call' \in [Requests -> Call]
      <3> HIDE DEF c
      <3> QED
        BY <1>1, <2>a, <2>b DEF TypeOK
    <2>c. UNCHANGED <<doc, log, clock, rpc, resent, wire, reply>>
      BY <1>5 DEF HandleUpdate, backend
    <2> HIDE DEF c
    <2>2. CASE F = {}
      <3>1. /\ Finish(r, <<>>, 422, NoDoc)
            /\ attempt' = attempt /\ response' = response
        BY <1>5, <2>2 DEF HandleUpdate
      <3>2. <<>> \in Seq(AuditEvents) /\ 422 \in Statuses
        BY DEF Statuses
      <3> QED
        BY <1>1, <2>1, <2>c, <3>1, <3>2, FinishType DEF TypeOK
    <2>3. CASE F # {}
      <3>1. /\ pc' = [pc EXCEPT ![r] = "txget"]
            /\ attempt' = [attempt EXCEPT ![r] = 1]
            /\ UNCHANGED <<audit, result, response>>
        BY <1>5, <2>3 DEF HandleUpdate
      <3>2. attempt' \in [Requests -> 0..MaxAttempts]
        BY <1>1, <3>1, ConstantsAssumption DEF TypeOK
      <3> QED
        BY <1>1, <2>1, <2>c, <3>1, <3>2 DEF TypeOK
    <2> QED
      BY <2>2, <2>3
  <1>6. CASE CreateReturn(r)
    <2> DEFINE err == CreateError(reply[r].code)
               status == IF err = {} THEN 201 ELSE MapServiceError(err)
               body == IF err = {} THEN rpc[r].profile ELSE NoDoc
    <2>1. Finish(r, <<LogEvent(err)>>, status, body)
      BY <1>6 DEF CreateReturn
    <2>2. <<LogEvent(err)>> \in Seq(AuditEvents) /\ status \in Statuses
      BY ErrorTypes DEF Statuses
    <2>3. body \in Profile \union {NoDoc}
      BY <1>1 DEF TypeOK, Write
    <2> HIDE DEF err, status, body
    <2> QED
      BY <1>1, <1>6, <2>1, <2>2, <2>3, FinishType
      DEF CreateReturn, TypeOK, backend
  <1>7. CASE GetReturn(r)
    <2> DEFINE read == GetError(reply[r].code)
               err == IF read = {} /\ ~Decodes(reply[r].doc)
                        THEN {"decode profile"} ELSE read
               status == IF err = {} THEN 200 ELSE MapServiceError(err)
               body == IF err = {} THEN ToProfile(reply[r].doc) ELSE NoDoc
    <2>1. Finish(r, <<>>, status, body)
      BY <1>7 DEF GetReturn
    <2>2. <<>> \in Seq(AuditEvents) /\ status \in Statuses
      <3> HIDE DEF err
      <3> QED
        BY ErrorTypes DEF Statuses
    <2>3. ASSUME err = {} PROVE reply[r].code = "OK"
      BY <2>3 DEF GetError, ClassifyDependencyError
    <2>4. body \in Profile \union {NoDoc}
      <3>1. CASE err = {}
        <4>1. reply[r].doc # NoDoc
          BY <1>7, <2>3, <3>1 DEF IInv, RequestOK, SnapshotsOK, GetReturn
        <4>2. reply[r].doc \in Document
          BY <1>1, <4>1 DEF TypeOK, Reply
        <4> QED
          BY <1>1, <3>1, <4>2, MergedType
      <3> QED
        BY <3>1
    <2> HIDE DEF read, err, status, body
    <2> QED
      BY <1>1, <1>7, <2>1, <2>2, <2>4, FinishType
      DEF GetReturn, TypeOK, backend
  <1>8. CASE UpdateClosure(r)
    <2>1. CASE reply[r].code = "OK" /\ Decodes(reply[r].doc)
      <3>1. Send(r, "commit", Merged(r, reply[r].doc), reply[r].seen)
        BY <1>8, <2>1 DEF UpdateClosure
      <3>2. reply[r].doc \in Document /\ reply[r].seen \in Nat
        BY <1>1, <1>8, <2>1 DEF IInv, RequestOK, SnapshotsOK, UpdateClosure, TypeOK, Reply
      <3>3. Merged(r, reply[r].doc) \in Profile
        BY <1>1, <3>2, MergedType
      <3> QED
        BY <1>1, <1>8, <2>1, <3>1, <3>2, <3>3, SendType
        DEF UpdateClosure, TypeOK, backend
    <2>2. CASE ~(reply[r].code = "OK" /\ Decodes(reply[r].doc))
      <3>1. PICK code : FailUpdate(r, code)
        BY <1>8, <2>2 DEF UpdateClosure
      <3>2. UNCHANGED <<rpc, wire, reply>>
        BY <1>8, <2>2 DEF UpdateClosure
      <3> QED
        BY <1>1, <1>8, <3>1, <3>2, FailUpdateType
        DEF UpdateClosure, TypeOK, backend
    <2> QED
      BY <2>1, <2>2
  <1>9. CASE UpdateRetry(r)
    <2>1. NoReply \in Reply
      BY DEF NoReply, Reply, Codes
    <2>2. attempt' \in [Requests -> 0..MaxAttempts]
      BY <1>1, <1>9, ConstantsAssumption DEF UpdateRetry, TypeOK
    <2> QED
      BY <1>1, <1>9, <2>1, <2>2 DEF UpdateRetry, TypeOK, backend
  <1>10. CASE UpdateReturn(r)
    <2>1. CASE reply[r].code = "OK"
      <3>1. Finish(r, <<"success">>, 200, rpc[r].profile)
        BY <1>10, <2>1 DEF UpdateReturn
      <3>2. /\ <<"success">> \in Seq(AuditEvents)
            /\ 200 \in Statuses
            /\ rpc[r].profile \in Profile \union {NoDoc}
        BY <1>1 DEF AuditEvents, Statuses, TypeOK, Write
      <3> QED
        BY <1>1, <1>10, <3>1, <3>2, FinishType
        DEF UpdateReturn, TypeOK, backend
    <2>2. CASE reply[r].code # "OK"
      <3>1. FailUpdate(r, reply[r].code)
        BY <1>10, <2>2 DEF UpdateReturn
      <3> QED
        BY <1>1, <1>10, <3>1, FailUpdateType DEF UpdateReturn, TypeOK, backend
    <2> QED
      BY <2>1, <2>2
  <1>11. CASE DeleteReturn(r)
    <2> DEFINE err == DeleteError(reply[r].code)
               status == IF err = {} THEN 204 ELSE MapServiceError(err)
    <2>1. Finish(r, <<LogEvent(err)>>, status, NoDoc)
      BY <1>11 DEF DeleteReturn
    <2>2. <<LogEvent(err)>> \in Seq(AuditEvents) /\ status \in Statuses
      BY ErrorTypes DEF Statuses
    <2> HIDE DEF err, status
    <2> QED
      BY <1>1, <1>11, <2>1, <2>2, FinishType DEF DeleteReturn, TypeOK, backend
  <1>12. CASE Respond(r)
    BY <1>1, <1>12 DEF Respond, TypeOK, backend
  <1> QED
    BY <1>2, <1>3, <1>4, <1>5, <1>6, <1>7, <1>8, <1>9, <1>10, <1>11, <1>12
    DEF Handle, Return

\* A step of the backend, of the transport or of the surroundings.
LEMMA BackendType ==
    ASSUME IInv, NEW r \in Requests,
           \/ Serve(r) \/ Fault(r) \/ Resend(r) \/ Cancel(r) \/ Expire(r)
    PROVE  TypeOK'
  <1>1. TypeOK
    BY DEF IInv
  <1>2. wire[r] \subseteq Write /\ rpc[r] \in Write /\ call[r] \in Call
    BY <1>1 DEF TypeOK
  <1>3. ASSUME NEW w \in wire[r], wire' = [wire EXCEPT ![r] = @ \ {w}]
        PROVE  wire' \in [Requests -> SUBSET Write]
    BY <1>1, <1>3 DEF TypeOK
  <1>4. {"OK", "AlreadyExists", "Aborted", "NotFound", "FailedPrecondition"}
          \subseteq Codes
    BY DEF Codes, GrpcFaults
  <1>5. CASE ServeCreate(r)
    <2>1. PICK w \in wire[r] :
            /\ wire' = [wire EXCEPT ![r] = @ \ {w}]
            /\ IF doc[call[r].uid] = NoDoc
                 THEN Apply(r, Stored(w.profile)) /\ Deliver(r, w, "OK")
                 ELSE UNCHANGED <<doc, log>> /\ Deliver(r, w, "AlreadyExists")
      BY <1>5 DEF ServeCreate
    <2>2. w.profile \in Profile
      BY <1>5 DEF ServeCreate, IInv, RequestOK, WritesOK, Pending
    <2>3. /\ doc' \in [Users -> Document \union {NoDoc}]
          /\ log' \in [Users -> Seq(Requests \union {Foreign})]
      <3>1. Stored(w.profile) \in Document
        BY <2>2 DEF Stored, Document, Profile
      <3> QED
        BY <1>1, <2>1, <3>1, ApplyType DEF TypeOK
    <2>4. reply' \in [Requests -> Reply]
      BY <1>1, <1>4, <2>1, DeliverType
    <2> QED
      BY <1>1, <1>3, <1>5, <2>1, <2>3, <2>4 DEF ServeCreate, TypeOK
  <1>6. CASE ServeCommit(r)
    <2>1. PICK w \in wire[r] :
            /\ wire' = [wire EXCEPT ![r] = @ \ {w}]
            /\ IF w.seen = Version(call[r].uid)
                 THEN /\ Apply(r, Overwritten(r, doc[call[r].uid], w.profile))
                      /\ Deliver(r, w, "OK")
                 ELSE UNCHANGED <<doc, log>> /\ Deliver(r, w, "Aborted")
      BY <1>6 DEF ServeCommit
    <2>2. w.profile \in Profile
      BY <1>6 DEF ServeCommit, IInv, RequestOK, WritesOK, Pending
    <2>3. /\ doc' \in [Users -> Document \union {NoDoc}]
          /\ log' \in [Users -> Seq(Requests \union {Foreign})]
      <3>1. CASE w.seen = Version(call[r].uid)
        <4>1. doc[call[r].uid] # NoDoc
          BY <1>6, <3>1 DEF ServeCommit, IInv, RequestOK, SnapshotsOK, Pending, Existed
        <4>2. doc[call[r].uid] \in Document
          BY <1>1, <1>2, <4>1 DEF TypeOK, Call
        <4>3. Overwritten(r, doc[call[r].uid], w.profile) \in Document
          BY <2>2, <4>2, StoredType
        <4> QED
          BY <1>1, <2>1, <3>1, <4>3, ApplyType
      <3> QED
        BY <1>1, <2>1, <3>1 DEF TypeOK
    <2>4. reply' \in [Requests -> Reply]
      BY <1>1, <1>4, <2>1, DeliverType
    <2> QED
      BY <1>1, <1>3, <1>6, <2>1, <2>3, <2>4 DEF ServeCommit, TypeOK
  <1>7. CASE ServeDelete(r)
    <2>1. PICK w \in wire[r] :
            /\ wire' = [wire EXCEPT ![r] = @ \ {w}]
            /\ IF doc[call[r].uid] # NoDoc
                 THEN Apply(r, NoDoc) /\ Deliver(r, w, "OK")
                 ELSE /\ UNCHANGED <<doc, log>>
                      /\ \E code \in {"FailedPrecondition", "NotFound"} :
                           Deliver(r, w, code)
      BY <1>7 DEF ServeDelete
    <2>2. /\ doc' \in [Users -> Document \union {NoDoc}]
          /\ log' \in [Users -> Seq(Requests \union {Foreign})]
      BY <1>1, <2>1, ApplyType DEF TypeOK
    <2>3. reply' \in [Requests -> Reply]
      BY <1>1, <1>4, <2>1, DeliverType
    <2> QED
      BY <1>1, <1>3, <1>7, <2>1, <2>2, <2>3 DEF ServeDelete, TypeOK
  <1>8. CASE ServeRead(r)
    <2> DEFINE d == doc[call[r].uid]
               a == [code |-> IF d = NoDoc THEN "NotFound" ELSE "OK",
                     doc |-> d, seen |-> Version(call[r].uid)]
    <2>1. Version(call[r].uid) \in Nat /\ d \in Document \union {NoDoc}
      BY <1>1, <1>2 DEF Version, TypeOK, Call
    <2>2. a \in Reply
      BY <1>4, <2>1 DEF Reply
    <2>3. reply' = [reply EXCEPT ![r] = a]
      BY <1>8 DEF ServeRead
    <2> HIDE DEF a
    <2> QED
      BY <1>1, <1>8, <2>2, <2>3 DEF ServeRead, TypeOK, backend
  <1>9. CASE Fault(r)
    <2>1. PICK code \in Faults :
            /\ reply' = [reply EXCEPT ![r] = [NoReply EXCEPT !.code = code]]
            /\ \/ wire' = wire
               \/ wire' = [wire EXCEPT ![r] = @ \ {rpc[r]}]
      BY <1>9 DEF Fault
    <2>2. [NoReply EXCEPT !.code = code] \in Reply
      BY ConstantsAssumption DEF NoReply, Reply, Codes
    <2>3. wire' \in [Requests -> SUBSET Write]
      BY <1>1, <2>1 DEF TypeOK
    <2> QED
      BY <1>1, <1>9, <2>1, <2>2, <2>3 DEF Fault, TypeOK, backend
  <1>10. CASE Resend(r)
    <2>1. /\ Send(r, pc[r], rpc[r].profile, rpc[r].seen)
          /\ pc[r] \in {"create", "commit", "delete"}
      BY <1>10 DEF Resend, Writing
    <2>2. rpc[r].profile \in Profile \union {NoDoc} /\ rpc[r].seen \in Nat
      BY <1>2 DEF Write
    <2>3. resent' \in [Requests -> 0..MaxResends]
      BY <1>1, <1>10, ConstantsAssumption DEF Resend, TypeOK
    <2> QED
      BY <1>1, <1>10, <2>1, <2>2, <2>3, SendType DEF Resend, TypeOK, backend
  <1>11. CASE Cancel(r) \/ Expire(r)
    <2>1. PICK error \in ContextErrors : ContextDone(r, error)
      BY <1>11 DEF Cancel, Expire, ContextErrors
    <2>2. [NoReply EXCEPT !.code = error] \in Reply
      BY DEF NoReply, Reply, Codes
    <2> QED
      BY <1>1, <2>1, <2>2 DEF ContextDone, TypeOK, backend
  <1> QED
    BY <1>5, <1>6, <1>7, <1>8, <1>9, <1>10, <1>11 DEF Serve

LEMMA TypeStep == IInv /\ [Next]_vars => TypeOK'
  <1> SUFFICES ASSUME IInv, [Next]_vars PROVE TypeOK'
    OBVIOUS
  <1>1. TypeOK
    BY DEF IInv
  <1>2. CASE \E r \in Requests :
               \/ Handle(r) \/ Return(r) \/ Serve(r) \/ Fault(r) \/ Resend(r)
               \/ Cancel(r) \/ Expire(r)
    BY <1>2, HandlerType, BackendType
  <1>3. ASSUME NEW u \in Users, ForeignWrite(u) PROVE TypeOK'
    <2>1. doc[u] \in Document
      BY <1>1, <1>3 DEF ForeignWrite, TypeOK
    <2>2. PICK extra \in {"unknown", "malformed"} :
            doc' = [doc EXCEPT ![u] = [doc[u] EXCEPT !.extra = extra]]
      BY <1>3 DEF ForeignWrite
    <2>3. [doc[u] EXCEPT !.extra = extra] \in Document
      BY <2>1 DEF Document
    <2>4. Append(log[u], Foreign) \in Seq(Requests \union {Foreign})
      BY <1>1 DEF TypeOK
    <2>5. /\ doc' \in [Users -> Document \union {NoDoc}]
          /\ log' \in [Users -> Seq(Requests \union {Foreign})]
      BY <1>1, <1>3, <2>2, <2>3, <2>4 DEF ForeignWrite, TypeOK
    <2> QED
      BY <1>1, <1>3, <2>5 DEF ForeignWrite, TypeOK
  <1>4. CASE Crash
    BY <1>1, <1>4 DEF Crash, TypeOK, backend
  <1>5. CASE Tick
    BY <1>1, <1>5, ConstantsAssumption DEF Tick, TypeOK, Clock
  <1>6. CASE UNCHANGED vars
    BY <1>1, <1>6 DEF TypeOK, vars
  <1> QED
    BY <1>2, <1>3, <1>4, <1>5, <1>6 DEF Next, Quiet

-----------------------------------------------------------------------------
(* What a step leaves alone.                                               *)

\* A write appended to the history of u's document.
Appends(u, x) ==
    /\ log' = [log EXCEPT ![u] = Append(@, x)]
    /\ \A v \in Users : v # u => doc'[v] = doc[v]

\* The variables of request q that its invariants speak of.
Untouched(q) ==
    /\ pc'[q] = pc[q] /\ call'[q] = call[q] /\ rpc'[q] = rpc[q]
    /\ resent'[q] = resent[q] /\ wire'[q] = wire[q] /\ reply'[q] = reply[q]
    /\ result'[q] = result[q] /\ response'[q] = response[q]

\* Appending a write adds its position to the effects of its writer only.
LEMMA EffectsOfAppend ==
    ASSUME TypeOK, NEW q \in Requests, NEW u \in Users, NEW x,
           log' = [log EXCEPT ![u] = Append(@, x)],
           call'[q].uid = call[q].uid
    PROVE  /\ x = q /\ call[q].uid = u
                => Effects(q)' = Effects(q) \union {Version(u) + 1}
           /\ x # q \/ call[q].uid # u => Effects(q)' = Effects(q)
           /\ Version(u)' = Version(u) + 1
           /\ \A v \in Users : v # u => Version(v)' = Version(v)
  <1>1. call[q].uid \in Users
    BY DEF TypeOK, Call
  <1>2. \A v \in Users : Len(log[v]) \in Nat
    BY DEF TypeOK
  <1>3. log[u] \in Seq(Requests \union {Foreign})
    BY DEF TypeOK
  <1>4. /\ Len(Append(log[u], x)) = Len(log[u]) + 1
        /\ \A i \in 1..Len(log[u]) : Append(log[u], x)[i] = log[u][i]
        /\ Append(log[u], x)[Len(log[u]) + 1] = x
    BY <1>3
  <1>5. \A v \in Users : log'[v] = IF v = u THEN Append(log[u], x) ELSE log[v]
    BY DEF TypeOK
  <1>6. /\ Version(u)' = Version(u) + 1
        /\ \A v \in Users : v # u => Version(v)' = Version(v)
    BY <1>4, <1>5 DEF Version
  <1>7. Effects(q) = {i \in 1..Len(log[call[q].uid]) : log[call[q].uid][i] = q}
    BY DEF Effects, Version
  <1>8. Effects(q)' = {i \in 1..Len(log'[call[q].uid]) : log'[call[q].uid][i] = q}
    BY DEF Effects, Version
  <1>9. CASE call[q].uid = u
    <2>1. Effects(q)' = {i \in 1..(Len(log[u]) + 1) : Append(log[u], x)[i] = q}
      BY <1>4, <1>5, <1>8, <1>9
    <2>2. \A i \in 1..(Len(log[u]) + 1) :
            i \in 1..Len(log[u]) \/ i = Len(log[u]) + 1
      BY <1>2
    <2>3. 1..Len(log[u]) \subseteq 1..(Len(log[u]) + 1)
          /\ Len(log[u]) + 1 \in 1..(Len(log[u]) + 1)
      BY <1>2
    <2>4. CASE x = q
      <3>1. Effects(q)' = Effects(q) \union {Len(log[u]) + 1}
        BY <1>4, <1>7, <1>9, <2>1, <2>2, <2>3, <2>4
      <3> QED
        BY <1>6, <1>9, <2>4, <3>1 DEF Version
    <2>5. CASE x # q
      <3>1. Effects(q)' = Effects(q)
        BY <1>4, <1>7, <1>9, <2>1, <2>2, <2>3, <2>5
      <3> QED
        BY <1>6, <2>5, <3>1
    <2> QED
      BY <2>4, <2>5
  <1>10. CASE call[q].uid # u
    BY <1>1, <1>5, <1>6, <1>7, <1>8, <1>10
  <1> QED
    BY <1>9, <1>10

\* A step that touches neither q nor any document keeps what holds of q.
LEMMA FrameSame ==
    ASSUME IInv, NEW q \in Requests, Untouched(q), doc' = doc, log' = log
    PROVE  RequestOK(q)'
  <1>1. Effects(q)' = Effects(q) /\ \A u, n : Existed(u, n)' <=> Existed(u, n)
    BY DEF Untouched, Effects, Version, Existed
  <1>2. Pending(q)' = Pending(q)
    BY DEF Untouched, Pending, Writing
  <1>3. RequestOK(q)
    BY DEF IInv
  <1>4. PlaceOK(q)'
    BY <1>3 DEF RequestOK, PlaceOK, Untouched, Mutates
  <1>5. WritesOK(q)'
    BY <1>2, <1>3 DEF RequestOK, WritesOK, Untouched
  <1>6. SnapshotsOK(q)'
    BY <1>1, <1>2, <1>3 DEF RequestOK, SnapshotsOK, Untouched
  <1>7. HistoryOK(q)'
    BY <1>1, <1>3 DEF RequestOK, HistoryOK, Untouched, Mutates, Writing
  <1>8. OnceOK(q)'
    BY <1>1, <1>3 DEF RequestOK, OnceOK, Untouched, Mutates, Writing
  <1> QED
    BY <1>4, <1>5, <1>6, <1>7, <1>8 DEF RequestOK

\* Neither does a write of somebody else.
LEMMA FrameAppend ==
    ASSUME IInv, NEW q \in Requests, Untouched(q), NEW u \in Users, NEW x,
           x # q, Appends(u, x)
    PROVE  RequestOK(q)'
  <1>0. /\ TypeOK
        /\ log' = [log EXCEPT ![u] = Append(@, x)]
        /\ call'[q].uid = call[q].uid
    BY DEF IInv, Untouched, Appends
  <1>1. /\ Effects(q)' = Effects(q)
        /\ Version(u)' = Version(u) + 1
        /\ \A v \in Users : v # u => Version(v)' = Version(v)
    BY <1>0, EffectsOfAppend
  <1>a. \A v \in Users : Version(v) \in Nat
    BY <1>0 DEF TypeOK, Version
  <1>2. \A v \in Users, n \in Nat : Existed(v, n) => Existed(v, n)'
    BY <1>1, <1>a DEF Existed, Appends
  <1>3. Pending(q)' = Pending(q)
    BY DEF Untouched, Pending, Writing
  <1>4. /\ RequestOK(q)
        /\ call[q].uid \in Users
        /\ reply[q].seen \in Nat
        /\ \A w \in Pending(q) : w.seen \in Nat
    BY DEF IInv, TypeOK, Call, Reply, Pending, Write
  <1>5. PlaceOK(q)'
    BY <1>4 DEF RequestOK, PlaceOK, Untouched, Mutates
  <1>6. WritesOK(q)'
    BY <1>3, <1>4 DEF RequestOK, WritesOK, Untouched
  <1>7. SnapshotsOK(q)'
    BY <1>2, <1>3, <1>4 DEF RequestOK, SnapshotsOK, Untouched
  <1>8. HistoryOK(q)'
    BY <1>1, <1>4 DEF RequestOK, HistoryOK, Untouched, Mutates, Writing
  <1>9. OnceOK(q)'
    BY <1>1, <1>4 DEF RequestOK, OnceOK, Untouched, Mutates, Writing
  <1> QED
    BY <1>5, <1>6, <1>7, <1>8, <1>9 DEF RequestOK

-----------------------------------------------------------------------------
(* What the error conversions refuse.                                      *)

LEMMA Refused ==
    ASSUME NEW err, MapServiceError(err) \in {404, 409}
    PROVE  "ErrNotFound" \in err \/ "ErrAlreadyExists" \in err
  BY DEF MapServiceError

\* Each operation answers 404 or 409 to the codes that say so, and only to
\* those, and succeeds on no code but OK.
LEMMA RefusingCodes ==
    ASSUME NEW code \in Codes
    PROVE  /\ CreateError(code) = {} => code = "OK"
           /\ MapServiceError(CreateError(code)) \in {404, 409}
                => code = "AlreadyExists"
           /\ DeleteError(code) = {} => code = "OK"
           /\ MapServiceError(DeleteError(code)) \in {404, 409}
                => code \in {"FailedPrecondition", "NotFound"}
           /\ MapServiceError(UpdateError(code)) \notin {404, 409}
  <1>1. /\ code # "ErrNotFound" /\ code # "ErrAlreadyExists"
        /\ code # "ErrUnavailable"
    BY DEF Codes, GrpcFaults, RetriedCodes, ContextErrors
  <1>2. /\ "ErrNotFound" \notin ClassifyDependencyError(code)
        /\ "ErrAlreadyExists" \notin ClassifyDependencyError(code)
        /\ ClassifyDependencyError(code) # {}
    BY <1>1 DEF ClassifyDependencyError
  <1>3. MapServiceError(ClassifyDependencyError(code)) \notin {404, 409}
    BY <1>2, Refused
  <1>4. MapServiceError({}) \notin {404, 409}
    BY DEF MapServiceError
  <1> QED
    BY <1>1, <1>2, <1>3, <1>4 DEF CreateError, DeleteError, UpdateError

-----------------------------------------------------------------------------
(* Steps of a handler.                                                     *)

\* A handler that sends its first write, or the write of its transaction.
LEMMA SendOK ==
    ASSUME IInv, NEW r \in Requests,
           NEW place \in {"create", "commit", "delete"}, NEW p, NEW seen,
           Send(r, place, p, seen),
           doc' = doc, log' = log, resent' = resent,
           result' = result, response' = response,
           call'[r].uid = call[r].uid,
           \/ pc[r] = "idle"
           \/ pc[r] = "txget" /\ call' = call,
           \/ place = "create" /\ call'[r].op = "create"
           \/ place = "commit" /\ call'[r].op = "update"
           \/ place = "delete" /\ call'[r].op = "delete",
           call'[r].op \in {"create", "update"} =>
             /\ p \in Profile
             /\ \A f \in Fields :
                  call'[r].op = "create" \/ f \in call'[r].fields
                  => p.data[f] = r,
           call'[r].op = "update" => Existed(call[r].uid, seen)
    PROVE  RequestOK(r)'
  <1> DEFINE w == [n |-> rpc[r].n + 1, profile |-> p, seen |-> seen]
  <1>1. /\ pc'[r] = place /\ rpc'[r] = w /\ wire'[r] = wire[r] \union {w}
        /\ reply'[r] = NoReply /\ resent'[r] = resent[r]
        /\ result'[r] = result[r] /\ response'[r] = response[r]
    BY DEF Send, IInv, TypeOK
  <1>2. RequestOK(r) /\ resent[r] = 0 => wire[r] = {} /\ Effects(r) = {}
    BY DEF IInv, RequestOK, OnceOK
  <1>3. pc[r] = "idle" => resent[r] = 0
    BY DEF IInv, RequestOK, HistoryOK
  <1>4. Effects(r)' = Effects(r) /\ \A u, n : Existed(u, n)' <=> Existed(u, n)
    BY DEF Effects, Version, Existed
  <1>5. Pending(r)' = wire[r] \union {w} /\ wire[r] \subseteq Pending(r)
    BY <1>1 DEF Pending, Writing
  <1>6. w.profile = p /\ w.seen = seen
    OBVIOUS
  <1>7. NoReply.code = "none"
    BY DEF NoReply
  <1>8. RequestOK(r)
    BY DEF IInv
  <1>9. result[r].status = 0
    BY <1>8 DEF RequestOK, HistoryOK
  <1> HIDE DEF w
  <1>10. PlaceOK(r)'
    BY <1>1 DEF PlaceOK, Mutates
  <1>11. WritesOK(r)'
    BY <1>2, <1>3, <1>5, <1>6, <1>8 DEF RequestOK, WritesOK
  <1>12. SnapshotsOK(r)'
    BY <1>1, <1>2, <1>3, <1>4, <1>5, <1>6, <1>7, <1>8 DEF RequestOK, SnapshotsOK
  <1>13. HistoryOK(r)'
    BY <1>1, <1>7, <1>8, <1>9 DEF RequestOK, HistoryOK, Successes
  <1>14. OnceOK(r)'
    BY <1>1, <1>2, <1>4, <1>7, <1>8, <1>9 DEF OnceOK, Successes, Refusals
  <1> QED
    BY <1>10, <1>11, <1>12, <1>13, <1>14 DEF RequestOK

\* A handler that returns, if what it answers is so.
LEMMA FinishOK ==
    ASSUME IInv, NEW r \in Requests, NEW events, NEW status, NEW body,
           Finish(r, events, status, body),
           UNCHANGED <<doc, log, rpc, resent, wire, reply, response>>,
           call'[r].uid = call[r].uid,
           \/ pc[r] = "idle"
           \/ Waiting(r) /\ call' = call,
           Mutates(r)' /\ status \in Successes => Effects(r) # {},
           resent[r] = 0 /\ status \in Successes \union Refusals
             => wire[r] = {},
           resent[r] = 0 /\ Mutates(r)' /\ status \in Refusals
             => Effects(r) = {}
    PROVE  RequestOK(r)'
  <1>1. /\ pc'[r] = "answering" /\ rpc'[r] = rpc[r] /\ wire'[r] = wire[r]
        /\ reply'[r] = reply[r] /\ resent'[r] = resent[r]
        /\ result'[r].status = status
    BY DEF Finish, IInv, TypeOK
  <1>2. RequestOK(r)
    BY DEF IInv
  <1>3. pc[r] = "idle" => wire[r] = {}
    BY <1>2 DEF RequestOK, HistoryOK, OnceOK
  <1>4. Effects(r)' = Effects(r) /\ \A u, n : Existed(u, n)' <=> Existed(u, n)
    BY DEF Effects, Version, Existed
  <1>5. Pending(r)' = wire[r] /\ wire[r] \subseteq Pending(r)
    BY <1>1 DEF Pending, Writing
  <1>6. PlaceOK(r)'
    BY <1>1, <1>2, <1>3 DEF RequestOK, PlaceOK, Mutates
  <1>7. WritesOK(r)'
    BY <1>2, <1>3, <1>5 DEF RequestOK, WritesOK
  <1>8. SnapshotsOK(r)'
    BY <1>1, <1>2, <1>3, <1>4, <1>5 DEF RequestOK, SnapshotsOK
  <1>9. HistoryOK(r)'
    <2>1. pc[r] # "done"
      BY DEF Waiting
    <2> QED
      BY <1>1, <1>2, <1>4, <2>1 DEF RequestOK, HistoryOK, Writing
  <1>10. OnceOK(r)'
    BY <1>1, <1>2, <1>4 DEF RequestOK, OnceOK, Writing
  <1> QED
    BY <1>6, <1>7, <1>8, <1>9, <1>10 DEF RequestOK

\* A failed update: a refusal only if the document was not found.
LEMMA FailUpdateOK ==
    ASSUME IInv, NEW r \in Requests, NEW code, FailUpdate(r, code),
           UNCHANGED <<doc, log, call, rpc, resent, wire, reply, response>>,
           pc[r] = "txget" \/ (pc[r] = "commit" /\ code \in Codes)
    PROVE  RequestOK(r)'
  <1> DEFINE events == <<LogEvent(UpdateError(code))>>
             status == MapServiceError(UpdateError(code))
  <1>1. Finish(r, events, status, NoDoc)
    BY DEF FailUpdate
  <1>2. status \in {404, 409, 500, 503}
    BY ErrorTypes
  <1>3. pc[r] = "commit" => status \notin {404, 409}
    BY RefusingCodes
  <1>4. pc[r] = "txget" /\ resent[r] = 0 => wire[r] = {} /\ Effects(r) = {}
    BY DEF IInv, RequestOK, OnceOK
  <1> HIDE DEF events, status
  <1>5. status \notin Successes
    <2>1. \A x \in {404, 409, 500, 503} : x \notin Successes
      BY DEF Successes
    <2> QED
      BY <1>2, <2>1
  <1>6. status \in Refusals /\ resent[r] = 0 => wire[r] = {} /\ Effects(r) = {}
    <2>1. \A x \in {404, 409, 500, 503} : x \in Refusals => x \in {404, 409}
      BY DEF Refusals
    <2> QED
      BY <1>2, <1>3, <1>4, <2>1
  <1>7. Waiting(r) /\ call' = call /\ call'[r].uid = call[r].uid
    BY DEF Waiting
  <1> QED
    BY <1>1, <1>5, <1>6, <1>7, FinishOK

\* Every step of a handler.
LEMMA HandlerStep ==
    ASSUME IInv, NEW r \in Requests, Handle(r) \/ Return(r)
    PROVE  \A q \in Requests : RequestOK(q)'
  <1>1. /\ TypeOK
        /\ RequestOK(r)
        /\ reply[r].code \in Codes
        /\ reply[r] \in Reply
        /\ rpc[r].n \in Nat
    BY DEF IInv, TypeOK, Reply, Write
  <1>2. doc' = doc /\ log' = log
    BY DEF Handle, Return, HandleCreate, HandleGet, HandleUpdate, HandleDelete,
           CreateReturn, GetReturn, UpdateClosure, UpdateRetry, UpdateReturn,
           DeleteReturn, Respond, backend
  <1>3. ASSUME NEW q \in Requests, q # r PROVE RequestOK(q)'
    <2>1. Untouched(q)
      <3>1. CASE Handle(r)
        BY <1>1, <1>3, <3>1
        DEF Handle, HandleCreate, HandleGet, HandleUpdate, HandleDelete, Send,
            Finish, Untouched, TypeOK
      <3>2. CASE Return(r)
        BY <1>1, <1>3, <3>2
        DEF Return, CreateReturn, GetReturn, UpdateClosure, UpdateRetry,
            UpdateReturn, DeleteReturn, Respond, FailUpdate, Send, Finish,
            Untouched, TypeOK
      <3> QED
        BY <3>1, <3>2
    <2> QED
      BY <1>2, <2>1, FrameSame
  <1>4. ASSUME HandleCreate(r) PROVE RequestOK(r)'
    <2>1. /\ Send(r, "create", NewProfile(r), 0)
          /\ UNCHANGED <<doc, log, resent, result, response>>
          /\ pc[r] = "idle"
      BY <1>4 DEF HandleCreate, backend
    <2>2. call'[r].op = "create" /\ call'[r].uid = call[r].uid
      BY <1>1, <1>4 DEF HandleCreate, TypeOK, Call
    <2>3. NewProfile(r) \in Profile /\ \A f \in Fields : NewProfile(r).data[f] = r
      BY <1>1, NewProfileType DEF NewProfile
    <2> QED
      BY <2>1, <2>2, <2>3, SendOK
  <1>5. ASSUME HandleDelete(r) PROVE RequestOK(r)'
    <2>1. /\ Send(r, "delete", NoDoc, 0)
          /\ UNCHANGED <<doc, log, resent, result, response>>
          /\ pc[r] = "idle"
      BY <1>5 DEF HandleDelete, backend
    <2>2. call'[r].op = "delete" /\ call'[r].uid = call[r].uid
      BY <1>1, <1>5 DEF HandleDelete, TypeOK, Call
    <2> QED
      BY <2>1, <2>2, SendOK
  <1>6. ASSUME HandleGet(r) PROVE RequestOK(r)'
    <2>1. /\ pc[r] = "idle" /\ pc'[r] = "get"
          /\ call'[r].op = "get" /\ call'[r].uid = call[r].uid
          /\ UNCHANGED <<doc, log, rpc, resent, wire, reply, result, response>>
      BY <1>1, <1>6 DEF HandleGet, TypeOK, Call, backend
    <2>2. wire[r] = {} /\ Effects(r) = {} /\ result[r].status = 0
      BY <1>1, <2>1 DEF RequestOK, HistoryOK, OnceOK
    <2>3. Effects(r)' = Effects(r)
      BY <2>1 DEF Effects, Version
    <2>4. reply[r].code # "OK"
      BY <1>1, <2>1 DEF RequestOK, PlaceOK, NoReply
    <2>5. PlaceOK(r)' /\ WritesOK(r)' /\ SnapshotsOK(r)'
      BY <2>1, <2>2, <2>4 DEF PlaceOK, WritesOK, SnapshotsOK, Mutates
    <2>6. HistoryOK(r)' /\ OnceOK(r)'
      BY <1>1, <2>1, <2>2, <2>3
      DEF RequestOK, HistoryOK, OnceOK, Writing, Mutates, Successes, Refusals
    <2> QED
      BY <2>5, <2>6 DEF RequestOK
  <1>7. ASSUME NEW F \in SUBSET Fields, HandleUpdate(r, F)
        PROVE  RequestOK(r)'
    <2>1. /\ pc[r] = "idle"
          /\ call'[r].op = "update" /\ call'[r].uid = call[r].uid
          /\ UNCHANGED <<doc, log, rpc, resent, wire, reply>>
      BY <1>1, <1>7 DEF HandleUpdate, TypeOK, Call, backend
    <2>2. /\ wire[r] = {} /\ Effects(r) = {} /\ result[r].status = 0
          /\ reply[r].code = "none"
      BY <1>1, <2>1 DEF RequestOK, PlaceOK, HistoryOK, OnceOK, NoReply
    <2>3. CASE F = {}
      <3>1. Finish(r, <<>>, 422, NoDoc) /\ response' = response
        BY <1>7, <2>3 DEF HandleUpdate
      <3>2. 422 \notin Successes
        BY DEF Successes
      <3> QED
        BY <2>1, <2>2, <3>1, <3>2, FinishOK
    <2>4. CASE F # {}
      <3>1. /\ pc'[r] = "txget" /\ result'[r] = result[r]
            /\ response'[r] = response[r] /\ response[r] = NoResponse
        BY <1>1, <1>7, <2>1, <2>4
        DEF HandleUpdate, TypeOK, RequestOK, HistoryOK
      <3>2. Effects(r)' = Effects(r)
        BY <2>1 DEF Effects, Version
      <3>3. PlaceOK(r)' /\ WritesOK(r)' /\ SnapshotsOK(r)'
        BY <2>1, <2>2, <3>1
        DEF PlaceOK, WritesOK, SnapshotsOK, Mutates, Pending, Writing
      <3>4. HistoryOK(r)' /\ OnceOK(r)'
        BY <2>1, <2>2, <3>1, <3>2
        DEF HistoryOK, OnceOK, Writing, Mutates, Successes, Refusals
      <3> QED
        BY <3>3, <3>4 DEF RequestOK
    <2> QED
      BY <2>3, <2>4
  <1>8. ASSUME CreateReturn(r) PROVE RequestOK(r)'
    <2> DEFINE err == CreateError(reply[r].code)
               status == IF err = {} THEN 201 ELSE MapServiceError(err)
               body == IF err = {} THEN rpc[r].profile ELSE NoDoc
    <2>1. /\ Finish(r, <<LogEvent(err)>>, status, body)
          /\ UNCHANGED <<doc, log, call, rpc, resent, wire, reply, response>>
          /\ pc[r] = "create"
      BY <1>8 DEF CreateReturn, backend
    <2>2. status \in Successes => reply[r].code = "OK"
      <3>1. err # {} => status \in {404, 409, 500, 503}
        <4> HIDE DEF err
        <4> QED
          BY ErrorTypes
      <3> QED
        BY <1>1, <3>1, RefusingCodes DEF Successes
    <2>3. status \in Refusals => reply[r].code = "AlreadyExists"
      <3>1. status \in Refusals => MapServiceError(err) \in {404, 409}
        <4> HIDE DEF err
        <4> QED
          BY ErrorTypes DEF Refusals
      <3> QED
        BY <1>1, <3>1, RefusingCodes
    <2> HIDE DEF err, status, body
    <2>4. status \in Successes => Effects(r) # {}
      BY <1>1, <2>1, <2>2 DEF RequestOK, HistoryOK, Writing
    <2>5. /\ resent[r] = 0 /\ status \in Successes \union Refusals => wire[r] = {}
          /\ resent[r] = 0 /\ status \in Refusals => Effects(r) = {}
      BY <1>1, <2>1, <2>2, <2>3 DEF RequestOK, OnceOK, Writing
    <2>6. Waiting(r)
      BY <2>1 DEF Waiting
    <2> QED
      BY <2>1, <2>4, <2>5, <2>6, FinishOK
  <1>9. ASSUME DeleteReturn(r) PROVE RequestOK(r)'
    <2> DEFINE err == DeleteError(reply[r].code)
               status == IF err = {} THEN 204 ELSE MapServiceError(err)
    <2>1. /\ Finish(r, <<LogEvent(err)>>, status, NoDoc)
          /\ UNCHANGED <<doc, log, call, rpc, resent, wire, reply, response>>
          /\ pc[r] = "delete"
      BY <1>9 DEF DeleteReturn, backend
    <2>2. status \in Successes => reply[r].code = "OK"
      <3>1. err # {} => status \in {404, 409, 500, 503}
        <4> HIDE DEF err
        <4> QED
          BY ErrorTypes
      <3> QED
        BY <1>1, <3>1, RefusingCodes DEF Successes
    <2>3. status \in Refusals =>
            reply[r].code \in {"FailedPrecondition", "NotFound"}
      <3>1. status \in Refusals => MapServiceError(err) \in {404, 409}
        <4> HIDE DEF err
        <4> QED
          BY ErrorTypes DEF Refusals
      <3> QED
        BY <1>1, <3>1, RefusingCodes
    <2> HIDE DEF err, status
    <2>4. status \in Successes => Effects(r) # {}
      BY <1>1, <2>1, <2>2 DEF RequestOK, HistoryOK, Writing
    <2>5. /\ resent[r] = 0 /\ status \in Successes \union Refusals => wire[r] = {}
          /\ resent[r] = 0 /\ status \in Refusals => Effects(r) = {}
      BY <1>1, <2>1, <2>2, <2>3 DEF RequestOK, OnceOK, Writing
    <2>6. Waiting(r)
      BY <2>1 DEF Waiting
    <2> QED
      BY <2>1, <2>4, <2>5, <2>6, FinishOK
  <1>10. ASSUME GetReturn(r) PROVE RequestOK(r)'
    <2>1. PICK status, body :
            /\ Finish(r, <<>>, status, body)
            /\ UNCHANGED <<doc, log, call, rpc, resent, wire, reply, response>>
            /\ pc[r] = "get"
      BY <1>10 DEF GetReturn, backend
    <2>2. ~Mutates(r) /\ wire[r] = {} /\ Waiting(r)
      BY <1>1, <2>1 DEF RequestOK, PlaceOK, Mutates, Waiting
    <2>3. ~Mutates(r)' /\ call' = call
      BY <2>1, <2>2 DEF Mutates
    <2> QED
      BY <2>1, <2>2, <2>3, FinishOK
  <1>11. ASSUME UpdateClosure(r) PROVE RequestOK(r)'
    <2>1. /\ pc[r] = "txget" /\ call[r].op = "update" /\ call' = call
          /\ UNCHANGED <<doc, log, resent, response>>
      BY <1>1, <1>11 DEF UpdateClosure, RequestOK, PlaceOK, backend
    <2>2. CASE reply[r].code = "OK" /\ Decodes(reply[r].doc)
      <3>1. /\ Send(r, "commit", Merged(r, reply[r].doc), reply[r].seen)
            /\ result' = result
        BY <1>11, <2>2 DEF UpdateClosure
      <3>2. /\ reply[r].doc \in Document
            /\ Existed(call[r].uid, reply[r].seen)
        BY <1>1, <2>1, <2>2 DEF RequestOK, SnapshotsOK, Reply
      <3>3. /\ Merged(r, reply[r].doc) \in Profile
            /\ \A f \in call[r].fields \intersect Fields :
                 Merged(r, reply[r].doc).data[f] = r
        BY <1>1, <3>2, MergedType DEF Merged
      <3> QED
        BY <2>1, <3>1, <3>2, <3>3, SendOK
    <2>3. CASE ~(reply[r].code = "OK" /\ Decodes(reply[r].doc))
      <3>1. PICK code : FailUpdate(r, code)
        BY <1>11, <2>3 DEF UpdateClosure
      <3>2. UNCHANGED <<rpc, wire, reply>>
        BY <1>11, <2>3 DEF UpdateClosure
      <3> QED
        BY <2>1, <3>1, <3>2, FailUpdateOK
    <2> QED
      BY <2>2, <2>3
  <1>12. ASSUME UpdateRetry(r) PROVE RequestOK(r)'
    <2>1. /\ pc[r] = "commit" /\ reply[r].code = "Aborted"
          /\ pc'[r] = "txget" /\ reply'[r] = NoReply
          /\ UNCHANGED <<doc, log, call, rpc, resent, wire, result, response>>
      BY <1>1, <1>12 DEF UpdateRetry, TypeOK, backend
    <2>2. resent[r] = 0 => wire[r] = {} /\ Effects(r) = {}
      BY <1>1, <2>1 DEF RequestOK, OnceOK, Writing
    <2>3. Effects(r)' = Effects(r) /\ \A u, n : Existed(u, n)' <=> Existed(u, n)
      BY <2>1 DEF Effects, Version, Existed
    <2>4. Pending(r)' = wire[r] /\ wire[r] \subseteq Pending(r)
      BY <2>1 DEF Pending, Writing
    <2>5. NoReply.code = "none" /\ result[r].status = 0
      BY <1>1, <2>1 DEF NoReply, RequestOK, HistoryOK
    <2>6. PlaceOK(r)' /\ WritesOK(r)'
      BY <1>1, <2>1, <2>4 DEF RequestOK, PlaceOK, WritesOK, Mutates
    <2>7. SnapshotsOK(r)'
      BY <1>1, <2>1, <2>3, <2>4, <2>5 DEF RequestOK, SnapshotsOK
    <2>8. HistoryOK(r)'
      <3>1. response'[r] = NoResponse /\ result'[r].status = 0
        BY <1>1, <2>1, <2>5 DEF RequestOK, HistoryOK
      <3> QED
        BY <2>1, <3>1 DEF HistoryOK, Writing, Successes
    <2>9. OnceOK(r)'
      BY <2>1, <2>2, <2>3, <2>5 DEF OnceOK, Writing, Successes, Refusals
    <2> QED
      BY <2>6, <2>7, <2>8, <2>9 DEF RequestOK
  <1>13. ASSUME UpdateReturn(r) PROVE RequestOK(r)'
    <2>1. /\ pc[r] = "commit" /\ Waiting(r)
          /\ UNCHANGED <<doc, log, call, rpc, resent, wire, reply, response>>
      BY <1>13 DEF UpdateReturn, Waiting, backend
    <2>2. CASE reply[r].code = "OK"
      <3>1. Finish(r, <<"success">>, 200, rpc[r].profile)
        BY <1>13, <2>2 DEF UpdateReturn
      <3>2. Effects(r) # {} /\ (resent[r] = 0 => wire[r] = {})
        BY <1>1, <2>1, <2>2 DEF RequestOK, HistoryOK, OnceOK, Writing
      <3>3. 200 \notin Refusals
        BY DEF Refusals
      <3> QED
        BY <2>1, <3>1, <3>2, <3>3, FinishOK
    <2>3. CASE reply[r].code # "OK"
      BY <1>1, <1>13, <2>1, <2>3, FailUpdateOK DEF UpdateReturn
    <2> QED
      BY <2>2, <2>3
  <1>14. ASSUME Respond(r) PROVE RequestOK(r)'
    <2>1. /\ pc[r] = "answering" /\ pc'[r] = "done"
          /\ response'[r] = result[r]
          /\ UNCHANGED <<doc, log, call, rpc, resent, wire, reply, result>>
      BY <1>1, <1>14 DEF Respond, TypeOK, backend
    <2>2. Effects(r)' = Effects(r) /\ \A u, n : Existed(u, n)' <=> Existed(u, n)
      BY <2>1 DEF Effects, Version, Existed
    <2>3. Pending(r)' = wire[r] /\ wire[r] \subseteq Pending(r)
      BY <2>1 DEF Pending, Writing
    <2>4. PlaceOK(r)' /\ WritesOK(r)'
      BY <1>1, <2>1, <2>3 DEF RequestOK, PlaceOK, WritesOK, Mutates
    <2>5. SnapshotsOK(r)'
      BY <1>1, <2>1, <2>2, <2>3 DEF RequestOK, SnapshotsOK
    <2>6. HistoryOK(r)' /\ OnceOK(r)'
      BY <1>1, <2>1, <2>2 DEF RequestOK, HistoryOK, OnceOK, Writing, Mutates
    <2> QED
      BY <2>4, <2>5, <2>6 DEF RequestOK
  <1>15. RequestOK(r)'
    BY <1>4, <1>5, <1>6, <1>7, <1>8, <1>9, <1>10, <1>11, <1>12, <1>13, <1>14
    DEF Handle, Return
  <1> QED
    BY <1>3, <1>15

-----------------------------------------------------------------------------
(* Steps of the backend and of the transport.                              *)

\* A served write of r leaves the wire; if it was applied it is now part of
\* the history, and in any case r learns no more than that.
LEMMA ServeOK ==
    ASSUME IInv, NEW r \in Requests, NEW w \in wire[r], NEW code,
           wire' = [wire EXCEPT ![r] = @ \ {w}],
           Deliver(r, w, code),
           UNCHANGED <<pc, call, rpc, resent, result, response>>,
           \/ /\ code = "OK"
              /\ Appends(call[r].uid, r)
           \/ /\ code \in {"AlreadyExists", "NotFound", "FailedPrecondition",
                           "Aborted"}
              /\ doc' = doc /\ log' = log
    PROVE  \A q \in Requests : RequestOK(q)'
  <1>1. TypeOK /\ RequestOK(r) /\ call[r].uid \in Users
    BY DEF IInv, TypeOK, Call
  <1>2. /\ wire'[r] = wire[r] \ {w}
        /\ \A q \in Requests : q # r => wire'[q] = wire[q] /\ reply'[q] = reply[q]
        /\ reply'[r] = IF Writing(r) /\ w.n = rpc[r].n /\ reply[r] = NoReply
                         THEN [NoReply EXCEPT !.code = code] ELSE reply[r]
    BY <1>1 DEF Deliver, TypeOK
  <1>3. ASSUME NEW q \in Requests, q # r PROVE RequestOK(q)'
    <2>1. Untouched(q)
      BY <1>2, <1>3 DEF Untouched
    <2>2. CASE doc' = doc /\ log' = log
      BY <2>1, <2>2, FrameSame
    <2>3. CASE Appends(call[r].uid, r)
      BY <1>1, <1>3, <2>1, <2>3, FrameAppend
    <2> QED
      BY <2>2, <2>3
  <1>4. [NoReply EXCEPT !.code = code].code = code
    BY DEF NoReply
  <1>5. Pending(r)' \subseteq Pending(r)
    BY <1>2 DEF Pending, Writing
  <1>6. \A v \in Users : Version(v) \in Nat
    BY <1>1 DEF TypeOK, Version
  <1>7. \A v \in Users, n \in Nat : Existed(v, n) => Existed(v, n)'
    <2>1. CASE doc' = doc /\ log' = log
      BY <2>1 DEF Existed, Version
    <2>2. CASE Appends(call[r].uid, r)
      <3>1. /\ Version(call[r].uid)' = Version(call[r].uid) + 1
            /\ \A v \in Users : v # call[r].uid => Version(v)' = Version(v)
        BY <1>1, <2>2, EffectsOfAppend DEF Appends
      <3> QED
        BY <1>6, <2>2, <3>1 DEF Existed, Appends
    <2> QED
      BY <2>1, <2>2
  <1>8. PlaceOK(r)'
    BY <1>1, <1>2 DEF RequestOK, PlaceOK, Mutates, Writing
  <1>9. WritesOK(r)'
    BY <1>1, <1>5 DEF RequestOK, WritesOK
  <1>10. SnapshotsOK(r)'
    <2>1. \A x \in Pending(r) : x.seen \in Nat
      BY <1>1 DEF TypeOK, Pending, Write
    <2>2. reply[r].seen \in Nat
      BY <1>1 DEF TypeOK, Reply
    <2>3. pc[r] \in {"get", "txget"} => reply'[r] = reply[r]
      BY <1>2 DEF Writing
    <2> QED
      BY <1>1, <1>5, <1>7, <2>1, <2>2, <2>3 DEF RequestOK, SnapshotsOK
  <1>11. \/ code = "OK" /\ Effects(r)' = Effects(r) \union {Version(call[r].uid) + 1}
         \/ code # "OK" /\ Effects(r)' = Effects(r)
    <2>1. CASE code = "OK"
      BY <1>1, <2>1, EffectsOfAppend DEF Appends
    <2>2. CASE code # "OK"
      BY <2>2 DEF Effects, Version
    <2> QED
      BY <2>1, <2>2
  <1>12. HistoryOK(r)'
    BY <1>1, <1>2, <1>4, <1>11
    DEF RequestOK, HistoryOK, OnceOK, Writing, Mutates
  <1>13. OnceOK(r)'
    <2>1. SUFFICES ASSUME resent[r] = 0 PROVE OnceOK(r)'
      BY DEF OnceOK
    <2>2. /\ wire[r] = {rpc[r]} /\ w = rpc[r] /\ Effects(r) = {}
          /\ wire'[r] = {}
          /\ pc[r] \notin {"idle", "txget"}
          /\ result[r].status \notin Successes \union Refusals
      BY <1>1, <1>2, <2>1 DEF RequestOK, OnceOK
    <2>3. Writing(r) /\ reply[r] = NoReply => reply'[r].code = code
      BY <1>2, <1>4, <2>2
    <2>4. Writing(r) /\ reply[r] # NoReply => reply'[r] = reply[r]
      BY <1>2
    <2>5. Writing(r) => reply'[r] # NoReply
      BY <2>3, <2>4 DEF NoReply
    <2>6. Writing(r) /\ reply[r] # NoReply /\ reply[r].code # "none"
            => reply[r].code \notin {"OK", "AlreadyExists", "NotFound",
                                     "FailedPrecondition", "Aborted"}
      BY <1>1, <2>1, <2>2 DEF RequestOK, OnceOK
    <2>7. \A i, j \in Effects(r)' : i = j
      BY <1>11, <2>2
    <2>8. Writing(r) /\ reply'[r].code \in {"AlreadyExists", "NotFound",
                                            "FailedPrecondition", "Aborted"}
            => Effects(r)' = {}
      BY <1>11, <2>2, <2>3, <2>4, <2>6
    <2> QED
      BY <2>1, <2>2, <2>5, <2>7, <2>8 DEF OnceOK, Writing, Mutates
  <1>14. RequestOK(r)'
    BY <1>8, <1>9, <1>10, <1>12, <1>13 DEF RequestOK
  <1> QED
    BY <1>3, <1>14

\* A step that only puts a reply before r, one that promises nothing.
LEMMA ReplyOK ==
    ASSUME IInv, NEW r \in Requests, NEW a,
           reply' = [reply EXCEPT ![r] = a],
           UNCHANGED <<doc, log, pc, call, rpc, resent, result, response>>,
           \A q \in Requests : q # r => wire'[q] = wire[q],
           wire'[r] \subseteq wire[r],
           pc[r] # "idle",
           a # NoReply,
           Writing(r) => a.code \notin {"OK", "AlreadyExists", "NotFound",
                                        "FailedPrecondition"},
           Writing(r) /\ a.code = "Aborted" /\ resent[r] = 0
             => wire'[r] = {} /\ Effects(r) = {},
           pc[r] \in {"get", "txget"} /\ a.code = "OK" =>
             a.doc # NoDoc /\ Existed(call[r].uid, a.seen)
    PROVE  \A q \in Requests : RequestOK(q)'
  <1>1. /\ TypeOK /\ RequestOK(r)
        /\ reply'[r] = a
        /\ \A q \in Requests : q # r => reply'[q] = reply[q]
    BY DEF IInv, TypeOK
  <1>2. ASSUME NEW q \in Requests, q # r PROVE RequestOK(q)'
    BY <1>1, <1>2, FrameSame DEF Untouched
  <1>3. Effects(r)' = Effects(r) /\ \A u, n : Existed(u, n)' <=> Existed(u, n)
    BY DEF Effects, Version, Existed
  <1>4. Pending(r)' \subseteq Pending(r)
    BY DEF Pending, Writing
  <1>5. PlaceOK(r)' /\ WritesOK(r)'
    BY <1>1, <1>4 DEF RequestOK, PlaceOK, WritesOK, Mutates
  <1>6. SnapshotsOK(r)'
    BY <1>1, <1>3, <1>4 DEF RequestOK, SnapshotsOK
  <1>7. HistoryOK(r)'
    BY <1>1, <1>3 DEF RequestOK, HistoryOK, Writing, Mutates
  <1>8. OnceOK(r)'
    BY <1>1, <1>3 DEF RequestOK, OnceOK, Writing, Mutates
  <1> QED
    BY <1>2, <1>5, <1>6, <1>7, <1>8 DEF RequestOK

LEMMA BackendStep ==
    ASSUME IInv, NEW r \in Requests,
           \/ Serve(r) \/ Fault(r) \/ Resend(r) \/ Cancel(r) \/ Expire(r)
    PROVE  \A q \in Requests : RequestOK(q)'
  <1>1. /\ TypeOK /\ RequestOK(r) /\ call[r].uid \in Users
        /\ \A v \in Users : Version(v) \in Nat
    BY DEF IInv, TypeOK, Call, Version
  <1>2. ASSUME NEW d, Apply(r, d) PROVE Appends(call[r].uid, r)
    BY <1>1, <1>2 DEF Apply, Appends, TypeOK
  <1>3. CASE ServeCreate(r)
    <2>1. UNCHANGED <<pc, call, rpc, resent, result, response>>
      BY <1>3 DEF ServeCreate
    <2>2. PICK w \in wire[r] :
            /\ wire' = [wire EXCEPT ![r] = @ \ {w}]
            /\ IF doc[call[r].uid] = NoDoc
                 THEN Apply(r, Stored(w.profile)) /\ Deliver(r, w, "OK")
                 ELSE UNCHANGED <<doc, log>> /\ Deliver(r, w, "AlreadyExists")
      BY <1>3 DEF ServeCreate
    <2>3. CASE doc[call[r].uid] = NoDoc
      BY <1>2, <2>1, <2>2, <2>3, ServeOK
    <2>4. CASE doc[call[r].uid] # NoDoc
      <3>1. Deliver(r, w, "AlreadyExists") /\ doc' = doc /\ log' = log
        BY <2>2, <2>4
      <3> QED
        BY <2>1, <2>2, <3>1, ServeOK
    <2> QED
      BY <2>3, <2>4
  <1>4. CASE ServeCommit(r)
    <2>1. UNCHANGED <<pc, call, rpc, resent, result, response>>
      BY <1>4 DEF ServeCommit
    <2>2. PICK w \in wire[r] :
            /\ wire' = [wire EXCEPT ![r] = @ \ {w}]
            /\ IF w.seen = Version(call[r].uid)
                 THEN /\ Apply(r, Overwritten(r, doc[call[r].uid], w.profile))
                      /\ Deliver(r, w, "OK")
                 ELSE UNCHANGED <<doc, log>> /\ Deliver(r, w, "Aborted")
      BY <1>4 DEF ServeCommit
    <2>3. CASE w.seen = Version(call[r].uid)
      BY <1>2, <2>1, <2>2, <2>3, ServeOK
    <2>4. CASE w.seen # Version(call[r].uid)
      <3>1. Deliver(r, w, "Aborted") /\ doc' = doc /\ log' = log
        BY <2>2, <2>4
      <3> QED
        BY <2>1, <2>2, <3>1, ServeOK
    <2> QED
      BY <2>3, <2>4
  <1>5. CASE ServeDelete(r)
    <2>1. UNCHANGED <<pc, call, rpc, resent, result, response>>
      BY <1>5 DEF ServeDelete
    <2>2. PICK w \in wire[r] :
            /\ wire' = [wire EXCEPT ![r] = @ \ {w}]
            /\ IF doc[call[r].uid] # NoDoc
                 THEN Apply(r, NoDoc) /\ Deliver(r, w, "OK")
                 ELSE /\ UNCHANGED <<doc, log>>
                      /\ \E code \in {"FailedPrecondition", "NotFound"} :
                           Deliver(r, w, code)
      BY <1>5 DEF ServeDelete
    <2>3. CASE doc[call[r].uid] # NoDoc
      BY <1>2, <2>1, <2>2, <2>3, ServeOK
    <2>4. CASE doc[call[r].uid] = NoDoc
      <3>1. PICK code \in {"FailedPrecondition", "NotFound"} :
              Deliver(r, w, code) /\ doc' = doc /\ log' = log
        BY <2>2, <2>4
      <3> QED
        BY <2>1, <2>2, <3>1, ServeOK
    <2> QED
      BY <2>3, <2>4
  <1>6. CASE ServeRead(r)
    <2> DEFINE d == doc[call[r].uid]
               a == [code |-> IF d = NoDoc THEN "NotFound" ELSE "OK",
                     doc |-> d, seen |-> Version(call[r].uid)]
    <2>1. /\ reply' = [reply EXCEPT ![r] = a]
          /\ UNCHANGED <<doc, log, pc, call, rpc, resent, wire,
                         result, response>>
          /\ pc[r] \in {"get", "txget"}
      BY <1>6 DEF ServeRead, backend
    <2>2. a.code = "OK" => a.doc # NoDoc /\ Existed(call[r].uid, a.seen)
      BY <1>1 DEF Existed
    <2>3. a # NoReply
      BY DEF NoReply
    <2>4. pc[r] # "idle" /\ ~Writing(r)
      BY <2>1 DEF Writing
    <2> HIDE DEF a
    <2> QED
      BY <2>1, <2>2, <2>3, <2>4, ReplyOK
  <1>7. CASE Fault(r)
    <2>1. /\ UNCHANGED <<doc, log, pc, call, rpc, resent, result, response>>
          /\ pc[r] # "idle" /\ reply[r] = NoReply
      BY <1>7 DEF Fault, Waiting, backend
    <2>2. PICK code \in Faults :
            /\ reply' = [reply EXCEPT ![r] = [NoReply EXCEPT !.code = code]]
            /\ IF code = "Aborted" /\ Writing(r)
                 THEN /\ rpc[r] \in wire[r]
                      /\ wire' = [wire EXCEPT ![r] = @ \ {rpc[r]}]
                 ELSE UNCHANGED wire
      BY <1>7 DEF Fault
    <2> DEFINE a == [NoReply EXCEPT !.code = code]
    <2>3. a.code = code /\ NoReply.code = "none"
      BY DEF NoReply
    <2>4. code \in GrpcFaults
      BY ConstantsAssumption
    <2>5. code \notin {"none", "OK", "AlreadyExists", "NotFound",
                       "FailedPrecondition"}
      BY <2>4 DEF GrpcFaults, RetriedCodes
    <2>6. /\ \A q \in Requests : q # r => wire'[q] = wire[q]
          /\ wire'[r] \subseteq wire[r]
      BY <1>1, <2>2 DEF TypeOK
    <2>7. Writing(r) /\ code = "Aborted" /\ resent[r] = 0
            => wire'[r] = {} /\ Effects(r) = {}
      BY <1>1, <2>2 DEF RequestOK, OnceOK, TypeOK
    <2>8. reply' = [reply EXCEPT ![r] = a] /\ a # NoReply
      BY <2>2, <2>3, <2>5
    <2> HIDE DEF a
    <2> QED
      BY <2>1, <2>3, <2>5, <2>6, <2>7, <2>8, ReplyOK
  <1>8. CASE Cancel(r) \/ Expire(r)
    <2>1. PICK error \in ContextErrors : ContextDone(r, error)
      BY <1>8 DEF Cancel, Expire, ContextErrors
    <2> DEFINE a == [NoReply EXCEPT !.code = error]
    <2>2. /\ reply' = [reply EXCEPT ![r] = a]
          /\ UNCHANGED <<doc, log, pc, call, rpc, resent, wire,
                         result, response>>
          /\ pc[r] # "idle"
      BY <2>1 DEF ContextDone, Waiting, backend
    <2>3. a.code = error /\ NoReply.code = "none"
      BY DEF NoReply
    <2>4. error \notin {"none", "OK", "AlreadyExists", "NotFound",
                        "FailedPrecondition", "Aborted"}
      BY DEF ContextErrors
    <2>5. a # NoReply
      BY <2>3, <2>4
    <2> HIDE DEF a
    <2> QED
      BY <2>2, <2>3, <2>4, <2>5, ReplyOK
  <1>9. CASE Resend(r)
    <2> DEFINE w == [n |-> rpc[r].n + 1, profile |-> rpc[r].profile,
                     seen |-> rpc[r].seen]
    <2>1. /\ Writing(r) /\ resent[r] \in Nat
          /\ pc' = [pc EXCEPT ![r] = pc[r]]
          /\ rpc' = [rpc EXCEPT ![r] = w]
          /\ wire' = [wire EXCEPT ![r] = @ \union {w}]
          /\ reply' = [reply EXCEPT ![r] = NoReply]
          /\ resent' = [resent EXCEPT ![r] = @ + 1]
          /\ UNCHANGED <<doc, log, call, result, response>>
      BY <1>1, <1>9, ConstantsAssumption DEF Resend, Send, TypeOK, backend
    <2>2. /\ pc'[r] = pc[r] /\ rpc'[r] = w /\ wire'[r] = wire[r] \union {w}
          /\ reply'[r] = NoReply /\ resent'[r] # 0
      BY <1>1, <2>1 DEF TypeOK
    <2>3. ASSUME NEW q \in Requests, q # r PROVE RequestOK(q)'
      <3>1. Untouched(q)
        BY <1>1, <2>1, <2>3 DEF Untouched, TypeOK
      <3> QED
        BY <2>1, <3>1, FrameSame
    <2>4. Pending(r)' = wire[r] \union {w}
      BY <2>1, <2>2 DEF Pending, Writing
    <2>5. /\ rpc[r] \in Pending(r) /\ wire[r] \subseteq Pending(r)
          /\ w.profile = rpc[r].profile /\ w.seen = rpc[r].seen
      BY <2>1 DEF Pending
    <2>6. Effects(r)' = Effects(r) /\ \A u, n : Existed(u, n)' <=> Existed(u, n)
      BY <2>1 DEF Effects, Version, Existed
    <2>7. NoReply.code = "none" /\ result[r].status = 0
      BY <1>1, <2>1 DEF NoReply, RequestOK, HistoryOK, Writing
    <2> HIDE DEF w
    <2>8. PlaceOK(r)' /\ WritesOK(r)'
      BY <1>1, <2>1, <2>2, <2>4, <2>5
      DEF RequestOK, PlaceOK, WritesOK, Mutates, Writing
    <2>9. SnapshotsOK(r)'
      BY <1>1, <2>1, <2>2, <2>4, <2>5, <2>6, <2>7 DEF RequestOK, SnapshotsOK
    <2>10. HistoryOK(r)' /\ OnceOK(r)'
      BY <1>1, <2>1, <2>2, <2>6, <2>7
      DEF RequestOK, HistoryOK, OnceOK, Mutates, Writing, Successes
    <2> QED
      BY <2>3, <2>8, <2>9, <2>10 DEF RequestOK
  <1> QED
    BY <1>3, <1>4, <1>5, <1>6, <1>7, <1>8, <1>9 DEF Serve

LEMMA InitOK == Init => IInv
  <1> SUFFICES ASSUME Init PROVE IInv
    OBVIOUS
  <1>1. TypeOK
    BY InitType
  <1>2. ASSUME NEW r \in Requests PROVE RequestOK(r)
    <2>1. /\ pc[r] = "idle" /\ call[r].op = "none" /\ call[r].uid \in Users
          /\ wire[r] = {} /\ reply[r] = NoReply /\ resent[r] = 0
          /\ result[r].status = 0 /\ response[r] = NoResponse
      BY <1>2 DEF Init, NoResponse
    <2>2. Effects(r) = {}
      BY <2>1 DEF Init, Effects, Version
    <2>3. NoReply.code = "none"
      BY DEF NoReply
    <2>4. PlaceOK(r) /\ WritesOK(r) /\ SnapshotsOK(r)
      BY <2>1, <2>3 DEF PlaceOK, WritesOK, SnapshotsOK
    <2>5. HistoryOK(r) /\ OnceOK(r)
      BY <2>1, <2>2
      DEF HistoryOK, OnceOK, Writing, Mutates, Successes, Refusals
    <2> QED
      BY <2>4, <2>5 DEF RequestOK
  <1> QED
    BY <1>1, <1>2 DEF IInv

LEMMA StepOK == IInv /\ [Next]_vars => IInv'
  <1> SUFFICES ASSUME IInv, [Next]_vars PROVE \A q \in Requests : RequestOK(q)'
    BY TypeStep DEF IInv
  <1>1. TypeOK
    BY DEF IInv
  <1>2. CASE \E r \in Requests :
               \/ Handle(r) \/ Return(r) \/ Serve(r) \/ Fault(r) \/ Resend(r)
               \/ Cancel(r) \/ Expire(r)
    BY <1>2, HandlerStep, BackendStep
  <1>3. ASSUME NEW u \in Users, ForeignWrite(u), NEW q \in Requests
        PROVE  RequestOK(q)'
    <2>1. Appends(u, Foreign) /\ Untouched(q)
      BY <1>1, <1>3 DEF ForeignWrite, Appends, Untouched, TypeOK
    <2> QED
      BY <2>1, FrameAppend, ConstantsAssumption
  <1>4. ASSUME Crash, NEW q \in Requests PROVE RequestOK(q)'
    <2>1. /\ pc'[q] = IF Running(q) THEN "crashed" ELSE pc[q]
          /\ UNCHANGED <<doc, log, call, rpc, resent, wire, reply, result,
                         response>>
      BY <1>4 DEF Crash, backend
    <2>2. CASE ~Running(q)
      BY <2>1, <2>2, FrameSame DEF Untouched
    <2>3. CASE Running(q)
      <3>1. pc'[q] = "crashed" /\ pc[q] # "done"
        BY <2>1, <2>3 DEF Running, Waiting
      <3>2. Effects(q)' = Effects(q) /\ \A u, n : Existed(u, n)' <=> Existed(u, n)
        BY <2>1 DEF Effects, Version, Existed
      <3>3. Pending(q)' = wire[q] /\ wire[q] \subseteq Pending(q)
        BY <2>1, <3>1 DEF Pending, Writing
      <3>4. RequestOK(q)
        BY DEF IInv
      <3>5. PlaceOK(q)' /\ WritesOK(q)'
        BY <2>1, <3>1, <3>3, <3>4
        DEF RequestOK, PlaceOK, WritesOK, Mutates
      <3>6. SnapshotsOK(q)'
        BY <2>1, <3>1, <3>2, <3>3, <3>4 DEF RequestOK, SnapshotsOK
      <3>7. HistoryOK(q)' /\ OnceOK(q)'
        BY <2>1, <3>1, <3>2, <3>4
        DEF RequestOK, HistoryOK, OnceOK, Mutates, Writing, Successes, Refusals
      <3> QED
        BY <3>5, <3>6, <3>7 DEF RequestOK
    <2> QED
      BY <2>2, <2>3
  <1>5. ASSUME Tick \/ UNCHANGED vars, NEW q \in Requests PROVE RequestOK(q)'
    <2>1. Untouched(q) /\ doc' = doc /\ log' = log
      BY <1>5 DEF Tick, vars, Untouched
    <2> QED
      BY <2>1, FrameSame
  <1> QED
    BY <1>2, <1>3, <1>4, <1>5 DEF Next, Quiet

\* IInv is an invariant: the inductive invariant of the module.
THEOREM Invariance == Spec => []IInv
  BY InitOK, StepOK, PTL DEF Spec

-----------------------------------------------------------------------------
(* What it is for.                                                         *)

\* Every variable keeps its type: transactions stop at MaxAttempts, and no
\* step applies an update to a document that is not there.
THEOREM TypeCorrect == Spec => []TypeOK
  <1>1. IInv => TypeOK
    BY DEF IInv
  <1> QED
    BY <1>1, Invariance, PTL

\* A success answers an applied write and a refusal, where the transport
\* repeated nothing, one that has not been applied.
THEOREM AnswersAreTrue == Spec => []AnswersMatchHistory
  <1>1. IInv => AnswersMatchHistory
    BY DEF IInv, RequestOK, HistoryOK, OnceOK, AnswersMatchHistory, NoResponse,
           Successes, Refusals
  <1> QED
    BY <1>1, Invariance, PTL

\* A call whose writes were not repeated is applied at most once.
THEOREM AtMostOnce == Spec => []AppliedAtMostOnce
  <1>1. IInv => AppliedAtMostOnce
    BY DEF IInv, RequestOK, OnceOK, AppliedAtMostOnce
  <1> QED
    BY <1>1, Invariance, PTL

\* A step changes the effects of r only by serving a write of r.
LEMMA EffectsChange ==
    ASSUME IInv, [Next]_vars, NEW r \in Requests, wire[r] = {}
    PROVE  Effects(r)' = Effects(r)
  <1>1. TypeOK /\ \A q \in Requests : call[q].uid \in Users
    BY DEF IInv, TypeOK, Call
  <1>2. ASSUME log' = log, call'[r].uid = call[r].uid
        PROVE  Effects(r)' = Effects(r)
    BY <1>2 DEF Effects, Version
  <1>3. ASSUME NEW q \in Requests, Handle(q) \/ Return(q)
        PROVE  Effects(r)' = Effects(r)
    <2>1. log' = log
      BY <1>3
      DEF Handle, Return, HandleCreate, HandleGet, HandleUpdate, HandleDelete,
          CreateReturn, GetReturn, UpdateClosure, UpdateRetry, UpdateReturn,
          DeleteReturn, Respond, backend
    <2>2. call'[r].uid = call[r].uid
      <3>1. CASE Handle(q)
        <4>1. CASE HandleCreate(q)
          BY <1>1, <4>1 DEF HandleCreate, TypeOK, Call
        <4>2. CASE HandleGet(q)
          BY <1>1, <4>2 DEF HandleGet, TypeOK, Call
        <4>3. CASE HandleDelete(q)
          BY <1>1, <4>3 DEF HandleDelete, TypeOK, Call
        <4>4. ASSUME NEW F \in SUBSET Fields, HandleUpdate(q, F)
              PROVE  call'[r].uid = call[r].uid
          BY <1>1, <4>4 DEF HandleUpdate, TypeOK, Call
        <4> QED
          BY <3>1, <4>1, <4>2, <4>3, <4>4 DEF Handle
      <3>2. CASE Return(q)
        BY <3>2
        DEF Return, CreateReturn, GetReturn, UpdateClosure, UpdateRetry,
            UpdateReturn, DeleteReturn, Respond
      <3> QED
        BY <1>3, <3>1, <3>2
    <2> QED
      BY <1>2, <2>1, <2>2
  <1>4. ASSUME NEW q \in Requests, Serve(q) PROVE Effects(r)' = Effects(r)
    <2>1. call' = call
      BY <1>4 DEF Serve, ServeCreate, ServeCommit, ServeDelete, ServeRead
    <2>2. \/ log' = log
          \/ q # r /\ log' = [log EXCEPT ![call[q].uid] = Append(@, q)]
      <3>1. CASE ServeRead(q)
        BY <3>1 DEF ServeRead, backend
      <3>2. CASE ServeCreate(q) \/ ServeCommit(q) \/ ServeDelete(q)
        BY <3>2 DEF ServeCreate, ServeCommit, ServeDelete, Apply
      <3> QED
        BY <1>4, <3>1, <3>2 DEF Serve
    <2> QED
      BY <1>1, <1>2, <2>1, <2>2, EffectsOfAppend
  <1>5. ASSUME NEW q \in Requests,
               Fault(q) \/ Resend(q) \/ Cancel(q) \/ Expire(q)
        PROVE  Effects(r)' = Effects(r)
    BY <1>2, <1>5 DEF Fault, Resend, Cancel, Expire, ContextDone, backend
  <1>6. ASSUME NEW u \in Users, ForeignWrite(u) PROVE Effects(r)' = Effects(r)
    <2>1. log' = [log EXCEPT ![u] = Append(@, Foreign)] /\ call' = call
      BY <1>6 DEF ForeignWrite
    <2> QED
      BY <1>1, <2>1, EffectsOfAppend, ConstantsAssumption
  <1>7. CASE Crash \/ Tick \/ UNCHANGED vars
    BY <1>2, <1>7 DEF Crash, Tick, vars, backend
  <1> QED
    BY <1>3, <1>4, <1>5, <1>6, <1>7 DEF Next, Quiet

\* Once a call that was not repeated has a definite answer, nothing of it
\* reaches the document any more.
THEOREM SettledIsInert == Spec => SettledCallsAreInert
  <1>1. IInv /\ [Next]_vars =>
          [\A r \in Requests :
             /\ response[r].status \in Successes \union Refusals
             /\ resent[r] = 0
             => Effects(r)' = Effects(r)]_vars
    <2> SUFFICES ASSUME IInv, [Next]_vars, NEW r \in Requests,
                        response[r].status \in Successes \union Refusals,
                        resent[r] = 0
                 PROVE  Effects(r)' = Effects(r)
      OBVIOUS
    <2>1. wire[r] = {}
      BY DEF IInv, RequestOK, HistoryOK, OnceOK, NoResponse, Successes, Refusals
    <2> QED
      BY <2>1, EffectsChange
  <1> QED
    BY <1>1, Invariance, PTL DEF Spec, SettledCallsAreInert
-----------------------------------------------------------------------------
(***************************************************************************)
(* The history of a document and the audit log.                            *)
(***************************************************************************)

(* How a step changes the history.                                         *)

\* Write w of q is applied: it creates, updates or deletes q's document.
Applied(q, w) ==
    LET u == call[q].uid IN
    \/ /\ call[q].op = "create"
       /\ doc[u] = NoDoc
       /\ Apply(q, Stored(w.profile))
    \/ /\ call[q].op = "update"
       /\ w.seen = Version(u)
       /\ Apply(q, Overwritten(q, doc[u], w.profile))
    \/ /\ call[q].op = "delete"
       /\ doc[u] # NoDoc
       /\ Apply(q, NoDoc)

\* A step writes no document, or applies one write of one request, or is
\* another program's.
LEMMA HistoryStep ==
    ASSUME [Next]_vars
    PROVE  \/ doc' = doc /\ log' = log
           \/ /\ call' = call
              /\ \E q \in Requests : \E w \in wire[q] : Applied(q, w)
           \/ \E u \in Users : ForeignWrite(u)
  <1>1. ASSUME NEW q \in Requests,
               \/ Handle(q) \/ Return(q) \/ ServeRead(q) \/ Fault(q)
               \/ Resend(q) \/ Cancel(q) \/ Expire(q)
        PROVE  doc' = doc /\ log' = log
    BY <1>1
    DEF Handle, Return, HandleCreate, HandleGet, HandleUpdate, HandleDelete,
        CreateReturn, GetReturn, UpdateClosure, UpdateRetry, UpdateReturn,
        DeleteReturn, Respond, ServeRead, Fault, Resend, Cancel, Expire,
        ContextDone,
        backend
  <1>2. ASSUME NEW q \in Requests,
               ServeCreate(q) \/ ServeCommit(q) \/ ServeDelete(q)
        PROVE  /\ call' = call
               /\ \/ doc' = doc /\ log' = log
                  \/ \E w \in wire[q] : Applied(q, w)
    <2>1. call' = call
      BY <1>2 DEF ServeCreate, ServeCommit, ServeDelete
    <2>2. CASE ServeCreate(q)
      BY <2>1, <2>2 DEF ServeCreate, Applied
    <2>3. CASE ServeCommit(q)
      BY <2>1, <2>3 DEF ServeCommit, Applied
    <2>4. CASE ServeDelete(q)
      BY <2>1, <2>4 DEF ServeDelete, Applied
    <2> QED
      BY <1>2, <2>2, <2>3, <2>4
  <1>3. ASSUME Crash \/ Tick \/ UNCHANGED vars PROVE doc' = doc /\ log' = log
    BY <1>3 DEF Crash, Tick, vars, backend
  <1> QED
    BY <1>1, <1>2, <1>3 DEF Next, Serve, Quiet

\* A request keeps what it asks once it has begun, and its user always.
LEMMA CallsStay ==
    ASSUME TypeOK, [Next]_vars, NEW r \in Requests
    PROVE  /\ call'[r].uid = call[r].uid
           /\ pc[r] # "idle" => call'[r] = call[r]
  <1>1. ASSUME NEW q \in Requests, Handle(q)
        PROVE  /\ call'[r].uid = call[r].uid
               /\ pc[r] # "idle" => call'[r] = call[r]
    <2>1. pc[q] = "idle"
      BY <1>1 DEF Handle, HandleCreate, HandleGet, HandleUpdate, HandleDelete
    <2>2. r # q => call'[r] = call[r]
      BY <1>1
      DEF Handle, HandleCreate, HandleGet, HandleUpdate, HandleDelete, TypeOK
    <2>3. call'[r].uid = call[r].uid
      <3>1. CASE HandleCreate(q)
        BY <3>1 DEF HandleCreate, TypeOK, Call
      <3>2. CASE HandleGet(q)
        BY <3>2 DEF HandleGet, TypeOK, Call
      <3>3. CASE HandleDelete(q)
        BY <3>3 DEF HandleDelete, TypeOK, Call
      <3>4. ASSUME NEW F \in SUBSET Fields, HandleUpdate(q, F)
            PROVE  call'[r].uid = call[r].uid
        BY <3>4 DEF HandleUpdate, TypeOK, Call
      <3> QED
        BY <1>1, <3>1, <3>2, <3>3, <3>4 DEF Handle
    <2> QED
      BY <2>1, <2>2, <2>3
  <1>2. ASSUME NEW q \in Requests,
               \/ Return(q) \/ Serve(q) \/ Fault(q) \/ Resend(q)
               \/ Cancel(q) \/ Expire(q)
        PROVE  call' = call
    BY <1>2
    DEF Return, CreateReturn, GetReturn, UpdateClosure, UpdateRetry,
        UpdateReturn, DeleteReturn, Respond, Serve, ServeRead, ServeCreate,
        ServeCommit,
        ServeDelete, Fault, Resend, Cancel, Expire, ContextDone
  <1>3. ASSUME \/ \E u \in Users : ForeignWrite(u)
               \/ Crash \/ Tick \/ UNCHANGED vars
        PROVE  call' = call
    BY <1>3 DEF ForeignWrite, Crash, Tick, vars
  <1> QED
    BY <1>1, <1>2, <1>3 DEF Next, Quiet
-----------------------------------------------------------------------------
(* The history of a document.                                              *)

\* Write i in the history of u's document is a request for operation op.
Wrote(u, i, op) == log[u][i] \in Requests /\ call[log[u][i]].op = op

\* The history holds mutations of its own user only.
LogOK ==
    \A u \in Users : \A i \in 1..Version(u) :
        log[u][i] \in Requests =>
            call[log[u][i]].uid = u /\ Mutates(log[u][i])

\* Write n, if it was the last one applied to u's document, left behind what
\* its operation leaves behind and found what it requires.
LastWrite(u, x) ==
    \/ /\ x \in Requests /\ call'[x].uid = u /\ call'[x].op = "create"
       /\ doc[u] = NoDoc /\ doc'[u] # NoDoc
       /\ \A f \in Fields : doc'[u].data[f] = x
    \/ /\ x \in Requests /\ call'[x].uid = u /\ call'[x].op = "update"
       /\ doc[u] # NoDoc /\ doc'[u] # NoDoc
       /\ \A f \in Fields :
            doc'[u].data[f] = IF f \in call'[x].fields THEN x
                                                      ELSE doc[u].data[f]
    \/ /\ x \in Requests /\ call'[x].uid = u /\ call'[x].op = "delete"
       /\ doc[u] # NoDoc /\ doc'[u] = NoDoc
    \/ /\ x = Foreign
       /\ doc[u] # NoDoc /\ doc'[u] # NoDoc
       /\ doc'[u].data = doc[u].data

\* A step leaves a document and its history alone, or adds one write.
Grows(u) ==
    \/ Version(u)' = Version(u) /\ doc'[u] = doc[u]
    \/ /\ Version(u)' = Version(u) + 1
       /\ LastWrite(u, log'[u][Version(u) + 1])

\* Appending to a history keeps what is there.
LEMMA AppendKeeps ==
    ASSUME TypeOK, NEW u \in Users, NEW x, NEW v \in Users,
           Appends(u, x)
    PROVE  /\ Version(v) \in Nat
           /\ \A i \in 1..Version(v) : log'[v][i] = log[v][i]
           /\ v # u => Version(v)' = Version(v)
           /\ v = u => /\ Version(v)' = Version(v) + 1
                       /\ log'[v][Version(v) + 1] = x
  <1>1. log[v] \in Seq(Requests \union {Foreign})
    BY DEF TypeOK
  <1>2. log'[v] = IF v = u THEN Append(log[v], x) ELSE log[v]
    BY DEF TypeOK, Appends
  <1>3. /\ Len(Append(log[v], x)) = Len(log[v]) + 1
        /\ \A i \in 1..Len(log[v]) : Append(log[v], x)[i] = log[v][i]
        /\ Append(log[v], x)[Len(log[v]) + 1] = x
        /\ Len(log[v]) \in Nat
    BY <1>1
  <1> QED
    BY <1>2, <1>3 DEF Version

\* What an applied write leaves behind.
LEMMA AppliedLeaves ==
    ASSUME IInv, NEW q \in Requests, NEW w \in wire[q], Applied(q, w),
           call' = call
    PROVE  LastWrite(call[q].uid, q)
  <1> DEFINE u == call[q].uid
  <1>1. TypeOK /\ RequestOK(q) /\ u \in Users /\ call[q].fields \subseteq Fields
    BY DEF IInv, TypeOK, Call
  <1>2. w \in Pending(q)
    BY DEF Pending
  <1>3. call[q].op \in {"create", "update"} =>
          /\ w.profile \in Profile
          /\ \A f \in Fields : call[q].op = "create" \/ f \in call[q].fields
                                => w.profile.data[f] = q
    BY <1>1, <1>2 DEF RequestOK, WritesOK
  <1>4. CASE call[q].op = "create"
    <2>1. doc[u] = NoDoc /\ doc'[u] = Stored(w.profile)
      BY <1>1, <1>4 DEF Applied, Apply, TypeOK
    <2>2. Stored(w.profile) \in Document
      BY <1>3, <1>4 DEF Stored, Profile, Document
    <2>3. Stored(w.profile).data = w.profile.data
      BY DEF Stored
    <2> QED
      BY <1>3, <1>4, <2>1, <2>2, <2>3, NoDocAssumption DEF LastWrite
  <1>5. CASE call[q].op = "update"
    <2>1. w.seen = Version(u) /\ doc'[u] = Overwritten(q, doc[u], w.profile)
      BY <1>1, <1>5 DEF Applied, Apply, TypeOK
    <2>2. doc[u] # NoDoc
      BY <1>1, <1>2, <1>5, <2>1 DEF RequestOK, SnapshotsOK, Existed
    <2>3. doc[u] \in Document
      BY <1>1, <2>2 DEF TypeOK
    <2>4. Overwritten(q, doc[u], w.profile) \in Document
      BY <1>3, <1>5, <2>3 DEF Overwritten, Profile, Document
    <2>5. Overwritten(q, doc[u], w.profile).data =
            [f \in Fields |-> IF f \in call[q].fields
                                THEN w.profile.data[f] ELSE doc[u].data[f]]
      BY <2>3 DEF Overwritten, Document
    <2>6. \A f \in Fields :
            doc'[u].data[f] = IF f \in call'[q].fields THEN q
                                                      ELSE doc[u].data[f]
      BY <1>3, <1>5, <2>1, <2>5
    <2> QED
      BY <1>5, <2>1, <2>2, <2>4, <2>6, NoDocAssumption DEF LastWrite
  <1>6. CASE call[q].op = "delete"
    <2>1. doc[u] # NoDoc /\ doc'[u] = NoDoc
      BY <1>1, <1>6 DEF Applied, Apply, TypeOK
    <2> QED
      BY <1>6, <2>1 DEF LastWrite
  <1> QED
    BY <1>4, <1>5, <1>6 DEF Applied

\* What another program's write leaves behind.
LEMMA ForeignLeaves ==
    ASSUME IInv, NEW u \in Users, ForeignWrite(u)
    PROVE  LastWrite(u, Foreign)
  <1>1. PICK extra \in {"unknown", "malformed"} :
          doc' = [doc EXCEPT ![u].extra = extra]
    BY DEF ForeignWrite
  <1>2. doc[u] # NoDoc /\ doc[u] \in Document
    BY DEF ForeignWrite, IInv, TypeOK
  <1>3. doc'[u] = [doc[u] EXCEPT !.extra = extra]
    BY <1>1 DEF IInv, TypeOK
  <1>4. doc'[u] \in Document /\ doc'[u].data = doc[u].data
    BY <1>2, <1>3 DEF Document
  <1> QED
    BY <1>2, <1>4, NoDocAssumption DEF LastWrite

\* The past of a document stays what it is: no step rewrites its history,
\* nor what the writes in it asked for.
LEMMA PastStays ==
    ASSUME IInv, LogOK, [Next]_vars, NEW u \in Users
    PROVE  /\ Version(u) \in Nat
           /\ Grows(u)
           /\ \A i \in 1..Version(u) :
                /\ log'[u][i] = log[u][i]
                /\ log[u][i] \in Requests => call'[log[u][i]] = call[log[u][i]]
  <1>1. TypeOK /\ Version(u) \in Nat
    BY DEF IInv, TypeOK, Version
  <1>2. ASSUME NEW i \in 1..Version(u), log[u][i] \in Requests
        PROVE  call'[log[u][i]] = call[log[u][i]]
    <2> DEFINE r == log[u][i]
    <2>1. i \in Effects(r)
      BY <1>2 DEF LogOK, Effects
    <2>2. pc[r] # "idle"
      BY <1>2, <2>1 DEF IInv, RequestOK, HistoryOK
    <2> QED
      BY <1>1, <1>2, <2>2, CallsStay
  <1>3. Grows(u) /\ \A i \in 1..Version(u) : log'[u][i] = log[u][i]
    <2>1. CASE doc' = doc /\ log' = log
      BY <2>1 DEF Grows, Version
    <2>2. ASSUME NEW q \in Requests, NEW w \in wire[q], Applied(q, w),
                 call' = call
          PROVE  Grows(u) /\ \A i \in 1..Version(u) : log'[u][i] = log[u][i]
      <3>1. /\ Appends(call[q].uid, q)
            /\ call[q].uid \in Users
            /\ \A v \in Users : v # call[q].uid => doc'[v] = doc[v]
        BY <1>1, <2>2 DEF Applied, Apply, Appends, TypeOK, Call
      <3>2. \A i \in 1..Version(u) : log'[u][i] = log[u][i]
        BY <1>1, <3>1, AppendKeeps
      <3>3. CASE u # call[q].uid
        BY <1>1, <3>1, <3>2, <3>3, AppendKeeps DEF Grows
      <3>4. CASE u = call[q].uid
        <4>1. Version(u)' = Version(u) + 1 /\ log'[u][Version(u) + 1] = q
          BY <1>1, <3>1, <3>4, AppendKeeps
        <4>2. LastWrite(u, q)
          BY <2>2, <3>4, AppliedLeaves
        <4>3. LastWrite(u, log'[u][Version(u) + 1])
          BY <4>1, <4>2 DEF LastWrite
        <4> QED
          BY <3>2, <4>1, <4>3 DEF Grows
      <3> QED
        BY <3>3, <3>4
    <2>3. ASSUME NEW v \in Users, ForeignWrite(v)
          PROVE  Grows(u) /\ \A i \in 1..Version(u) : log'[u][i] = log[u][i]
      <3>1. Appends(v, Foreign) /\ (u # v => doc'[u] = doc[u])
        BY <1>1, <2>3 DEF ForeignWrite, Appends, TypeOK
      <3>2. \A i \in 1..Version(u) : log'[u][i] = log[u][i]
        BY <1>1, <3>1, AppendKeeps
      <3>3. CASE u # v
        BY <1>1, <3>1, <3>2, <3>3, AppendKeeps DEF Grows
      <3>4. CASE u = v
        <4>1. Version(u)' = Version(u) + 1 /\ log'[u][Version(u) + 1] = Foreign
          BY <1>1, <3>1, <3>4, AppendKeeps
        <4>2. LastWrite(u, Foreign)
          BY <2>3, <3>4, ForeignLeaves
        <4>3. LastWrite(u, log'[u][Version(u) + 1])
          BY <4>1, <4>2 DEF LastWrite
        <4> QED
          BY <3>2, <4>1, <4>3 DEF Grows
      <3> QED
        BY <3>3, <3>4
    <2> QED
      BY <2>1, <2>2, <2>3, HistoryStep
  <1> QED
    BY <1>1, <1>2, <1>3

\* Only mutations of a document's user reach its history.
LEMMA LogStep ==
    ASSUME IInv, LogOK, [Next]_vars
    PROVE  LogOK'
  <1> SUFFICES ASSUME NEW u \in Users, NEW i \in 1..Version(u)',
                      log'[u][i] \in Requests
               PROVE  /\ call'[log'[u][i]].uid = u
                      /\ call'[log'[u][i]].op
                           \in {"create", "update", "delete"}
    BY DEF LogOK, Mutates
  <1>1. CASE i \in 1..Version(u)
    BY <1>1, PastStays DEF LogOK, Mutates
  <1>2. CASE i \notin 1..Version(u)
    <2>1. Grows(u) /\ Version(u) \in Nat
      BY PastStays
    <2>2. i = Version(u) + 1 /\ LastWrite(u, log'[u][i])
      BY <1>2, <2>1 DEF Grows
    <2> QED
      BY <2>2, ConstantsAssumption DEF LastWrite, Mutates
  <1> QED
    BY <1>1, <1>2

-----------------------------------------------------------------------------
(* Creates and deletes alternate.                                          *)

Other(op) == IF op = "create" THEN "delete" ELSE "create"

\* The operation that can change whether u has a profile.
Due(u) == IF doc[u] = NoDoc THEN "create" ELSE "delete"

\* Each write of the operation that is due has been undone since.
DueOK(u) ==
    \A i \in 1..Version(u) : Wrote(u, i, Due(u)) =>
        \E k \in (i + 1)..Version(u) : Wrote(u, k, Other(Due(u)))

Alternate(u) ==
    \A op \in {"create", "delete"} : \A i, j \in 1..Version(u) :
        i < j /\ Wrote(u, i, op) /\ Wrote(u, j, op) =>
            \E k \in (i + 1)..(j - 1) : Wrote(u, k, Other(op))

LivesOK == LogOK /\ \A u \in Users : DueOK(u) /\ Alternate(u)

\* What was written stays written.
LEMMA WroteStays ==
    ASSUME IInv, LogOK, [Next]_vars, NEW u \in Users, NEW op,
           NEW i \in 1..Version(u)
    PROVE  Wrote(u, i, op)' <=> Wrote(u, i, op)
  BY PastStays DEF Wrote

\* Creates and deletes of a document keep alternating.
LEMMA LivesStep ==
    ASSUME IInv, LivesOK, [Next]_vars
    PROVE  LivesOK'
  <1>1. LogOK /\ LogOK'
    BY LogStep DEF LivesOK
  <1>2. ASSUME NEW u \in Users PROVE DueOK(u)' /\ Alternate(u)'
    <2>1. DueOK(u) /\ Alternate(u) /\ Grows(u)
      BY <1>1, PastStays DEF LivesOK
    <2>2. PICK n \in Nat : n = Version(u)
      BY <1>1, PastStays
    <2>3. \A op : \A i \in 1..n : Wrote(u, i, op)' <=> Wrote(u, i, op)
      BY <1>1, <2>2, WroteStays
    <2>4. PICK d \in {"create", "delete"} : d = Due(u)
      BY DEF Due
    <2>5. /\ \A i \in 1..n : Wrote(u, i, d) =>
               \E k \in (i + 1)..n : Wrote(u, k, Other(d))
          /\ \A op \in {"create", "delete"} : \A i, j \in 1..n :
               i < j /\ Wrote(u, i, op) /\ Wrote(u, j, op) =>
                 \E k \in (i + 1)..(j - 1) : Wrote(u, k, Other(op))
      BY <2>1, <2>2, <2>4 DEF DueOK, Alternate
    <2>6. CASE Version(u)' = n /\ Due(u)' = d
      <3>1. DueOK(u)'
        BY <2>2, <2>3, <2>5, <2>6 DEF DueOK
      <3>2. Alternate(u)'
        BY <2>2, <2>3, <2>5, <2>6 DEF Alternate
      <3> QED
        BY <3>1, <3>2
    <2>7. CASE /\ Version(u)' = n + 1 /\ Due(u)' = d
               /\ \A op \in {"create", "delete"} : ~Wrote(u, n + 1, op)'
      <3>1. \A i \in 1..(n + 1) : i \in 1..n \/ i = n + 1
        BY <2>2
      <3>2. \A i : (i + 1)..n \subseteq (i + 1)..(n + 1)
        BY <2>2
      <3>3. DueOK(u)'
        <4> SUFFICES ASSUME NEW i \in 1..(n + 1), Wrote(u, i, d)'
                     PROVE  \E k \in (i + 1)..(n + 1) : Wrote(u, k, Other(d))'
          BY <2>7 DEF DueOK
        <4>1. i \in 1..n /\ Wrote(u, i, d)
          BY <2>3, <2>7, <3>1
        <4>2. PICK k \in (i + 1)..n : Wrote(u, k, Other(d))
          BY <2>5, <4>1
        <4>3. k \in 1..n /\ k \in (i + 1)..(n + 1)
          BY <2>2, <4>1
        <4> QED
          BY <2>3, <4>2, <4>3
      <3>4. Alternate(u)'
        <4> SUFFICES ASSUME NEW op \in {"create", "delete"},
                            NEW i \in 1..(n + 1), NEW j \in 1..(n + 1), i < j,
                            Wrote(u, i, op)', Wrote(u, j, op)'
                     PROVE  \E k \in (i + 1)..(j - 1) : Wrote(u, k, Other(op))'
          BY <2>7 DEF Alternate
        <4>1. i \in 1..n /\ j \in 1..n
          BY <2>7, <3>1
        <4>2. PICK k \in (i + 1)..(j - 1) : Wrote(u, k, Other(op))
          BY <2>3, <2>5, <4>1
        <4>3. k \in 1..n
          BY <2>2, <4>1
        <4> QED
          BY <2>3, <4>2, <4>3
      <3> QED
        BY <3>3, <3>4
    <2>8. CASE /\ Version(u)' = n + 1 /\ Due(u)' = Other(d)
               /\ \A op : Wrote(u, n + 1, op)' <=> op = d
      <3>1. \A i \in 1..(n + 1) : i \in 1..n \/ i = n + 1
        BY <2>2
      <3>2. Other(Other(d)) = d /\ Other(d) # d
        BY DEF Other
      <3>3. DueOK(u)'
        <4> SUFFICES ASSUME NEW i \in 1..(n + 1), Wrote(u, i, Other(d))'
                     PROVE  \E k \in (i + 1)..(n + 1) : Wrote(u, k, d)'
          BY <2>8, <3>2 DEF DueOK
        <4>1. i \in 1..n
          BY <2>8, <3>1, <3>2
        <4>2. n + 1 \in (i + 1)..(n + 1)
          BY <2>2, <4>1
        <4> QED
          BY <2>8, <4>2
      <3>4. Alternate(u)'
        <4> SUFFICES ASSUME NEW op \in {"create", "delete"},
                            NEW i \in 1..(n + 1), NEW j \in 1..(n + 1), i < j,
                            Wrote(u, i, op)', Wrote(u, j, op)'
                     PROVE  \E k \in (i + 1)..(j - 1) : Wrote(u, k, Other(op))'
          BY <2>8 DEF Alternate
        <4>1. i \in 1..n /\ Wrote(u, i, op)
          BY <2>2, <2>3, <3>1
        <4>2. CASE j \in 1..n
          <5>1. PICK k \in (i + 1)..(j - 1) : Wrote(u, k, Other(op))
            BY <2>3, <2>5, <4>1, <4>2
          <5>2. k \in 1..n
            BY <2>2, <4>1, <4>2
          <5> QED
            BY <2>3, <5>1, <5>2
        <4>3. CASE j = n + 1
          <5>1. op = d
            BY <2>8, <4>3
          <5>2. PICK k \in (i + 1)..n : Wrote(u, k, Other(d))
            BY <2>5, <4>1, <5>1
          <5>3. k \in 1..n /\ j - 1 = n
            BY <2>2, <4>1, <4>3
          <5> QED
            BY <2>3, <5>1, <5>2, <5>3
        <4> QED
          BY <3>1, <4>2, <4>3
      <3> QED
        BY <3>3, <3>4
    <2>9. ASSUME Version(u)' = n + 1, LastWrite(u, log'[u][n + 1])
          PROVE  \/ /\ Due(u)' = d
                    /\ \A op \in {"create", "delete"} : ~Wrote(u, n + 1, op)'
                 \/ /\ Due(u)' = Other(d)
                    /\ \A op : Wrote(u, n + 1, op)' <=> op = d
      BY <2>4, <2>9, ConstantsAssumption DEF LastWrite, Due, Other, Wrote
    <2>10. Version(u)' = n /\ doc'[u] = doc[u] => Due(u)' = d
      BY <2>4 DEF Due
    <2> QED
      BY <2>1, <2>2, <2>6, <2>7, <2>8, <2>9, <2>10 DEF Grows
  <1> QED
    BY <1>1, <1>2 DEF LivesOK

\* Whatever calls race, the creates and the deletes that were applied to one
\* profile take turns: of the creates of one lifetime a single one won.
THEOREM OneWinner == Spec => []OneWinnerPerLifetime
  <1>1. Init => LivesOK
    BY DEF Init, LivesOK, LogOK, DueOK, Alternate, Version
  <1>2. IInv /\ LivesOK => OneWinnerPerLifetime
    <2> SUFFICES ASSUME LivesOK, NEW u \in Users,
                        NEW i \in 1..Version(u), NEW j \in 1..Version(u),
                        i < j,
                        log[u][i] \in Requests, log[u][j] \in Requests,
                        call[log[u][i]].op = call[log[u][j]].op,
                        call[log[u][i]].op # "update"
                 PROVE  \E k \in (i + 1)..(j - 1) :
                          /\ log[u][k] \in Requests
                          /\ {call[log[u][i]].op, call[log[u][k]].op}
                               = {"create", "delete"}
      BY DEF OneWinnerPerLifetime
    <2> DEFINE op == call[log[u][i]].op
    <2>1. op \in {"create", "delete"}
      BY DEF LivesOK, LogOK, Mutates
    <2>2. PICK k \in (i + 1)..(j - 1) : Wrote(u, k, Other(op))
      BY <2>1 DEF LivesOK, Alternate, Wrote
    <2>3. {op, Other(op)} = {"create", "delete"}
      BY <2>1 DEF Other
    <2> QED
      BY <2>2, <2>3 DEF Wrote
  <1> QED
    BY <1>1, <1>2, LivesStep, Invariance, PTL DEF Spec
-----------------------------------------------------------------------------
(* Every stored field has its last writer.                                 *)

\* A write of history writes the same fields for ever.
LEMMA WritersStay ==
    ASSUME IInv, LogOK, [Next]_vars, NEW u \in Users, NEW f \in Fields,
           NEW n \in Nat, n = Version(u)
    PROVE  /\ Version(u)' = n => Writers(u, f)' = Writers(u, f)
           /\ /\ Version(u)' = n + 1
              /\ log'[u][n + 1] \in Requests
              /\ \/ call'[log'[u][n + 1]].op = "create"
                 \/ f \in call'[log'[u][n + 1]].fields
              => Writers(u, f)' = Writers(u, f) \union {n + 1}
           /\ /\ Version(u)' = n + 1
              /\ \/ log'[u][n + 1] \notin Requests
                 \/ /\ call'[log'[u][n + 1]].op # "create"
                    /\ f \notin call'[log'[u][n + 1]].fields
              => Writers(u, f)' = Writers(u, f)
  <1> DEFINE Names(i) == \/ call[log[u][i]].op = "create"
                         \/ f \in call[log[u][i]].fields
  <1>1. \A i \in 1..n : /\ log'[u][i] = log[u][i]
                        /\ log[u][i] \in Requests
                             => call'[log[u][i]] = call[log[u][i]]
    BY PastStays
  <1>2. \A i \in 1..n : (log[u][i] \in Requests /\ Names(i))'
                          <=> (log[u][i] \in Requests /\ Names(i))
    BY <1>1
  <1>3. Writers(u, f) = {i \in 1..n : log[u][i] \in Requests /\ Names(i)}
    BY DEF Writers
  <1>4. Writers(u, f)' =
          {i \in 1..Version(u)' : (log[u][i] \in Requests /\ Names(i))'}
    BY DEF Writers
  <1>5. \A i \in 1..(n + 1) : i \in 1..n \/ i = n + 1
    OBVIOUS
  <1>6. 1..n \subseteq 1..(n + 1) /\ n + 1 \in 1..(n + 1)
    OBVIOUS
  <1> QED
    BY <1>2, <1>3, <1>4, <1>5, <1>6

\* The last write that named a field determines it after every step.
LEMMA FieldsStep ==
    ASSUME IInv, LogOK, NoLostUpdate, [Next]_vars
    PROVE  NoLostUpdate'
  <1> SUFFICES ASSUME NEW u \in Users, NEW f \in Fields, doc'[u] # NoDoc
               PROVE  \E i \in Writers(u, f)' :
                        /\ \A j \in Writers(u, f)' : j <= i
                        /\ doc'[u].data[f] = log'[u][i]
    BY DEF NoLostUpdate
  <1>1. PICK n \in Nat : n = Version(u)
    BY PastStays
  <1>2. Grows(u) /\ \A i \in 1..n : log'[u][i] = log[u][i]
    BY <1>1, PastStays
  <1>3. Writers(u, f) \subseteq 1..n
    BY <1>1 DEF Writers
  <1> DEFINE x == log'[u][n + 1]
  <1>4. ASSUME Writers(u, f)' = Writers(u, f), doc[u] # NoDoc,
               doc'[u].data[f] = doc[u].data[f]
        PROVE  \E i \in Writers(u, f)' :
                 /\ \A j \in Writers(u, f)' : j <= i
                 /\ doc'[u].data[f] = log'[u][i]
    <2>1. PICK i \in Writers(u, f) : /\ \A j \in Writers(u, f) : j <= i
                                     /\ doc[u].data[f] = log[u][i]
      BY <1>4 DEF NoLostUpdate
    <2> QED
      BY <1>2, <1>3, <1>4, <2>1
  <1>5. ASSUME Writers(u, f)' = Writers(u, f) \union {n + 1},
               doc'[u].data[f] = x
        PROVE  \E i \in Writers(u, f)' :
                 /\ \A j \in Writers(u, f)' : j <= i
                 /\ doc'[u].data[f] = log'[u][i]
    <2>1. \A j \in Writers(u, f)' : j <= n + 1
      BY <1>3, <1>5
    <2> QED
      BY <1>5, <2>1
  <1>6. CASE Version(u)' = n /\ doc'[u] = doc[u]
    BY <1>1, <1>4, <1>6, WritersStay
  <1>7. CASE Version(u)' = n + 1 /\ LastWrite(u, x)
    <2>1. CASE /\ x \in Requests /\ call'[x].op = "create"
               /\ \A g \in Fields : doc'[u].data[g] = x
      BY <1>1, <1>5, <1>7, <2>1, WritersStay
    <2>2. CASE /\ x \in Requests /\ call'[x].op = "update" /\ doc[u] # NoDoc
               /\ \A g \in Fields :
                    doc'[u].data[g] = IF g \in call'[x].fields THEN x
                                                      ELSE doc[u].data[g]
      <3>1. CASE f \in call'[x].fields
        BY <1>1, <1>5, <1>7, <2>2, <3>1, WritersStay
      <3>2. CASE f \notin call'[x].fields
        BY <1>1, <1>4, <1>7, <2>2, <3>2, WritersStay
      <3> QED
        BY <3>1, <3>2
    <2>3. CASE x = Foreign /\ doc[u] # NoDoc /\ doc'[u].data = doc[u].data
      BY <1>1, <1>4, <1>7, <2>3, WritersStay, ConstantsAssumption
    <2> QED
      BY <1>7, <2>1, <2>2, <2>3 DEF LastWrite
  <1> QED
    BY <1>1, <1>2, <1>6, <1>7 DEF Grows

\* However updates of disjoint fields, repeated writes and other programs
\* interleave, each stored field has the value the last write that named it
\* gave it.
THEOREM NoUpdateIsLost == Spec => []NoLostUpdate
  <1>1. Init => LogOK /\ NoLostUpdate
    BY DEF Init, LogOK, NoLostUpdate, Version
  <1>2. IInv /\ LogOK /\ NoLostUpdate /\ [Next]_vars => LogOK' /\ NoLostUpdate'
    BY LogStep, FieldsStep
  <1> QED
    BY <1>1, <1>2, Invariance, PTL DEF Spec
-----------------------------------------------------------------------------
(* The audit log.                                                          *)

\* The events of one request go with what its handler will answer.
AuditOK(r) ==
    audit[r] = IF Mutates(r) THEN EventsFor(result[r].status) ELSE <<>>

AuditInv == \A r \in Requests : AuditOK(r)

\* An error is logged as what its answer says: the two conversions look at
\* the identities of an error in different orders, but no error has two of
\* those they would disagree about.
LEMMA EventOfError ==
    ASSUME NEW code, NEW err, err # {},
           \/ err = CreateError(code)
           \/ err = UpdateError(code)
           \/ err = DeleteError(code)
    PROVE  <<LogEvent(err)>> = EventsFor(MapServiceError(err))
  <1> DEFINE cause == ClassifyDependencyError(code)
  <1>1. CASE err = {"ErrAlreadyExists"}
    <2>1. MapServiceError(err) = 409 /\ LogEvent(err) = "already_exists"
      BY <1>1 DEF MapServiceError, LogEvent, CategorizeError
    <2> QED
      BY <2>1 DEF EventsFor, Successes
  <1>2. CASE err = {"ErrNotFound"}
    <2>1. MapServiceError(err) = 404 /\ LogEvent(err) = "not_found"
      BY <1>2 DEF MapServiceError, LogEvent, CategorizeError
    <2> QED
      BY <2>1 DEF EventsFor, Successes
  <1>3. CASE err = {"ErrUnavailable", code} /\ code \in Codes
    <2>1. code \notin {"ErrNotFound", "ErrAlreadyExists"}
      BY <1>3 DEF Codes, GrpcFaults, RetriedCodes, ContextErrors
    <2>2. MapServiceError(err) = 503 /\ LogEvent(err) = "unavailable"
      BY <1>3, <2>1 DEF MapServiceError, LogEvent, CategorizeError
    <2> QED
      BY <2>2 DEF EventsFor, Successes
  <1>4. CASE err = {code} /\ code # "context.DeadlineExceeded"
    <2>1. CASE code = "ErrUnavailable"
      <3>1. MapServiceError(err) = 503 /\ LogEvent(err) = "unavailable"
        BY <1>4, <2>1 DEF MapServiceError, LogEvent, CategorizeError
      <3> QED
        BY <3>1 DEF EventsFor, Successes
    <2>2. CASE code \notin {"ErrUnavailable", "ErrNotFound", "ErrAlreadyExists"}
      <3>1. MapServiceError(err) = 500 /\ LogEvent(err) = "internal_error"
        BY <1>4, <2>2 DEF MapServiceError, LogEvent, CategorizeError
      <3> QED
        BY <3>1 DEF EventsFor, Successes
    <2> QED
      BY <1>1, <1>2, <1>4, <2>1, <2>2
  <1>5. \/ err = {"ErrAlreadyExists"} \/ err = {"ErrNotFound"}
        \/ err = ClassifyDependencyError(code)
    BY DEF CreateError, UpdateError, DeleteError
  <1> QED
    BY <1>1, <1>2, <1>3, <1>4, <1>5
    DEF ClassifyDependencyError, Codes, GrpcFaults, RetriedCodes, ContextErrors

\* A request that returns leaves the events that go with its answer.
LEMMA FinishAudits ==
    ASSUME IInv, NEW r \in Requests, NEW events \in Seq(AuditEvents),
           NEW status, NEW body, AuditOK(r), ~Running(r) \/ Waiting(r),
           pc[r] \notin {"done", "crashed"},
           Finish(r, events, status, body),
           events = IF Mutates(r)' THEN EventsFor(status) ELSE <<>>
    PROVE  AuditOK(r)'
  <1>1. result[r].status = 0
    BY DEF IInv, RequestOK, HistoryOK, Running, Waiting
  <1>2. audit[r] = <<>>
    BY <1>1 DEF AuditOK, EventsFor, Successes
  <1>3. audit'[r] = <<>> \o events /\ result'[r].status = status
    BY <1>2 DEF Finish, IInv, TypeOK
  <1>4. audit'[r] = events
    BY <1>3
  <1> QED
    BY <1>3, <1>4 DEF AuditOK

\* A request that neither logs nor returns keeps its events.
LEMMA AuditFrame ==
    ASSUME IInv, NEW q \in Requests, AuditOK(q),
           audit'[q] = audit[q], result'[q] = result[q],
           pc[q] # "idle" => call'[q] = call[q]
    PROVE  AuditOK(q)'
  <1>1. CASE pc[q] = "idle"
    <2>1. result[q].status = 0
      BY <1>1 DEF IInv, RequestOK, HistoryOK
    <2>2. audit[q] = <<>> /\ EventsFor(0) = <<>>
      BY <2>1 DEF AuditOK, EventsFor, Successes
    <2> QED
      BY <2>1, <2>2 DEF AuditOK
  <1>2. CASE pc[q] # "idle"
    BY <1>2 DEF AuditOK, Mutates
  <1> QED
    BY <1>1, <1>2

\* The event of a failed operation goes with the answer it gets.
LEMMA FailureAudited ==
    ASSUME NEW code, NEW err,
           \/ err = CreateError(code)
           \/ err = UpdateError(code)
           \/ err = DeleteError(code),
           NEW good \in {201, 204}
    PROVE  /\ <<LogEvent(err)>> \in Seq(AuditEvents)
           /\ <<LogEvent(err)>> =
                EventsFor(IF err = {} THEN good ELSE MapServiceError(err))
  <1>1. <<LogEvent(err)>> \in Seq(AuditEvents)
    BY ErrorTypes
  <1>2. CASE err = {}
    BY <1>1, <1>2 DEF LogEvent, EventsFor, Successes
  <1>3. CASE err # {}
    BY <1>1, <1>3, EventOfError
  <1> QED
    BY <1>1, <1>2, <1>3

\* A failed update is audited as it is answered.
LEMMA FailUpdateAudits ==
    ASSUME IInv, NEW r \in Requests, AuditOK(r), Waiting(r),
           NEW code, code # "OK", FailUpdate(r, code),
           call' = call, call[r].op = "update"
    PROVE  AuditOK(r)'
  <1> DEFINE err == UpdateError(code)
  <1>1. Finish(r, <<LogEvent(err)>>, MapServiceError(err), NoDoc)
    BY DEF FailUpdate
  <1>2. err # {}
    BY DEF UpdateError, ClassifyDependencyError
  <1>3. /\ <<LogEvent(err)>> = EventsFor(MapServiceError(err))
        /\ <<LogEvent(err)>> \in Seq(AuditEvents)
    BY <1>2, EventOfError, ErrorTypes
  <1>4. Mutates(r)'
    BY DEF Mutates
  <1>5. pc[r] \notin {"done", "crashed"}
    BY DEF Waiting
  <1> HIDE DEF err
  <1> QED
    BY <1>1, <1>3, <1>4, <1>5, FinishAudits

\* A handler that goes on to its next call, or answers, audits as it must.
LEMMA HandlerAudits ==
    ASSUME IInv, NEW r \in Requests, AuditOK(r), Handle(r) \/ Return(r)
    PROVE  AuditOK(r)'
  <1>1. TypeOK /\ PlaceOK(r) /\ call[r] \in Call
    BY DEF IInv, RequestOK, TypeOK
  <1>2. CASE HandleCreate(r) \/ HandleGet(r) \/ HandleDelete(r)
    <2>1. pc[r] = "idle" /\ audit' = audit /\ result' = result
      BY <1>2 DEF HandleCreate, HandleGet, HandleDelete
    <2> QED
      BY <2>1, AuditFrame
  <1>3. ASSUME NEW F \in SUBSET Fields, HandleUpdate(r, F)
        PROVE  AuditOK(r)'
    <2>1. pc[r] = "idle"
      BY <1>3 DEF HandleUpdate
    <2>2. CASE F = {}
      <3>1. Finish(r, <<>>, 422, NoDoc)
        BY <1>3, <2>2 DEF HandleUpdate
      <3>2. EventsFor(422) = <<>> /\ <<>> \in Seq(AuditEvents)
        BY DEF EventsFor, Successes
      <3> QED
        BY <2>1, <3>1, <3>2, FinishAudits DEF Running, Waiting
    <2>3. CASE F # {}
      <3>1. audit' = audit /\ result' = result
        BY <1>3, <2>3 DEF HandleUpdate
      <3> QED
        BY <2>1, <3>1, AuditFrame
    <2> QED
      BY <2>2, <2>3
  <1>4. CASE CreateReturn(r)
    <2> DEFINE err == CreateError(reply[r].code)
               status == IF err = {} THEN 201 ELSE MapServiceError(err)
               body == IF err = {} THEN rpc[r].profile ELSE NoDoc
    <2>1. /\ Finish(r, <<LogEvent(err)>>, status, body)
          /\ pc[r] = "create" /\ Waiting(r) /\ call' = call
      BY <1>4 DEF CreateReturn, Waiting
    <2>2. <<LogEvent(err)>> \in Seq(AuditEvents)
          /\ <<LogEvent(err)>> = EventsFor(status)
      BY FailureAudited
    <2>3. Mutates(r)'
      BY <1>1, <2>1 DEF PlaceOK, Mutates
    <2> HIDE DEF err, status, body
    <2> QED
      BY <2>1, <2>2, <2>3, FinishAudits
  <1>5. CASE GetReturn(r)
    <2>1. PICK status, body : Finish(r, <<>>, status, body)
      BY <1>5 DEF GetReturn
    <2>2. pc[r] = "get" /\ Waiting(r) /\ call' = call
      BY <1>5 DEF GetReturn, Waiting
    <2>3. ~Mutates(r)' /\ <<>> \in Seq(AuditEvents)
      BY <1>1, <2>2 DEF PlaceOK, Mutates
    <2> QED
      BY <2>1, <2>2, <2>3, FinishAudits
  <1>6. CASE UpdateClosure(r)
    <2>1. Waiting(r) /\ call' = call /\ call[r].op = "update"
      BY <1>1, <1>6 DEF UpdateClosure, PlaceOK, Waiting
    <2>2. CASE reply[r].code = "OK" /\ Decodes(reply[r].doc)
      <3>1. audit' = audit /\ result' = result
        BY <1>6, <2>2 DEF UpdateClosure
      <3> QED
        BY <2>1, <3>1, AuditFrame
    <2>3. CASE ~(reply[r].code = "OK" /\ Decodes(reply[r].doc))
      <3>1. CASE reply[r].code = "OK"
        <4>1. FailUpdate(r, "decode profile")
          BY <1>6, <2>3, <3>1 DEF UpdateClosure
        <4> QED
          BY <2>1, <4>1, FailUpdateAudits
      <3>2. CASE reply[r].code # "OK"
        <4> DEFINE code == IF reply[r].code = "NotFound" THEN "ErrNotFound"
                                                         ELSE reply[r].code
        <4>1. FailUpdate(r, code) /\ code # "OK"
          BY <1>6, <3>2 DEF UpdateClosure
        <4> HIDE DEF code
        <4> QED
          BY <2>1, <4>1, FailUpdateAudits
      <3> QED
        BY <3>1, <3>2
    <2> QED
      BY <2>2, <2>3
  <1>7. CASE UpdateRetry(r)
    <2>1. audit' = audit /\ result' = result /\ call' = call
      BY <1>7 DEF UpdateRetry
    <2> QED
      BY <2>1, AuditFrame
  <1>8. CASE UpdateReturn(r)
    <2>1. /\ pc[r] = "commit" /\ Waiting(r) /\ call' = call
          /\ call[r].op = "update"
      BY <1>1, <1>8 DEF UpdateReturn, PlaceOK, Waiting
    <2>2. CASE reply[r].code = "OK"
      <3>1. Finish(r, <<"success">>, 200, rpc[r].profile)
        BY <1>8, <2>2 DEF UpdateReturn
      <3>2. <<"success">> = EventsFor(200) /\ <<"success">> \in Seq(AuditEvents)
        BY DEF EventsFor, Successes, AuditEvents
      <3>3. Mutates(r)'
        BY <2>1 DEF Mutates
      <3> QED
        BY <2>1, <3>1, <3>2, <3>3, FinishAudits
    <2>3. CASE reply[r].code # "OK"
      <3>1. FailUpdate(r, reply[r].code)
        BY <1>8, <2>3 DEF UpdateReturn
      <3> QED
        BY <2>1, <2>3, <3>1, FailUpdateAudits
    <2> QED
      BY <2>2, <2>3
  <1>9. CASE DeleteReturn(r)
    <2> DEFINE err == DeleteError(reply[r].code)
               status == IF err = {} THEN 204 ELSE MapServiceError(err)
    <2>1. /\ Finish(r, <<LogEvent(err)>>, status, NoDoc)
          /\ pc[r] = "delete" /\ Waiting(r) /\ call' = call
      BY <1>9 DEF DeleteReturn, Waiting
    <2>2. <<LogEvent(err)>> \in Seq(AuditEvents)
          /\ <<LogEvent(err)>> = EventsFor(status)
      BY FailureAudited
    <2>3. Mutates(r)'
      BY <1>1, <2>1 DEF PlaceOK, Mutates
    <2> HIDE DEF err, status
    <2> QED
      BY <2>1, <2>2, <2>3, FinishAudits
  <1>10. CASE Respond(r)
    BY <1>10, AuditFrame DEF Respond
  <1> QED
    BY <1>2, <1>3, <1>4, <1>5, <1>6, <1>7, <1>8, <1>9, <1>10
    DEF Handle, Return

\* Every step audits as it must.
LEMMA AuditStep ==
    ASSUME IInv, AuditInv, [Next]_vars
    PROVE  AuditInv'
  <1> SUFFICES ASSUME NEW q \in Requests PROVE AuditOK(q)'
    BY DEF AuditInv
  <1>a. \A r \in Requests : AuditOK(r)
    BY DEF AuditInv
  <1>1. pc[q] # "idle" => call'[q] = call[q]
    BY CallsStay DEF IInv
  <1>2. ASSUME NEW r \in Requests, Handle(r) \/ Return(r)
        PROVE  AuditOK(q)'
    <2>1. CASE q = r
      BY <1>2, <1>a, <2>1, HandlerAudits
    <2>2. CASE q # r
      <3>1. \/ audit' = audit /\ result' = result
            \/ \E events, status, body : Finish(r, events, status, body)
        <4>1. ASSUME NEW F \in SUBSET Fields, HandleUpdate(r, F)
              PROVE  \/ audit' = audit /\ result' = result
                     \/ \E events, status, body : Finish(r, events, status, body)
          BY <4>1 DEF HandleUpdate
        <4>2. CASE HandleCreate(r) \/ HandleGet(r) \/ HandleDelete(r)
                   \/ UpdateRetry(r) \/ Respond(r)
          BY <4>2
          DEF HandleCreate, HandleGet, HandleDelete, UpdateRetry, Respond
        <4>3. CASE CreateReturn(r)
          BY <4>3 DEF CreateReturn
        <4>4. CASE GetReturn(r)
          BY <4>4 DEF GetReturn
        <4>5. CASE UpdateClosure(r)
          BY <4>5 DEF UpdateClosure, FailUpdate
        <4>6. CASE UpdateReturn(r)
          BY <4>6 DEF UpdateReturn, FailUpdate
        <4>7. CASE DeleteReturn(r)
          BY <4>7 DEF DeleteReturn
        <4> QED
          BY <1>2, <4>1, <4>2, <4>3, <4>4, <4>5, <4>6, <4>7 DEF Handle, Return
      <3>2. audit'[q] = audit[q] /\ result'[q] = result[q]
        BY <2>2, <3>1 DEF Finish, IInv, TypeOK
      <3> QED
        BY <1>1, <1>a, <3>2, AuditFrame
    <2> QED
      BY <2>1, <2>2
  <1>3. ASSUME NEW r \in Requests,
               Serve(r) \/ Fault(r) \/ Resend(r) \/ Cancel(r) \/ Expire(r)
        PROVE  audit' = audit /\ result' = result
    BY <1>3
    DEF Serve, ServeRead, ServeCreate, ServeCommit, ServeDelete, Fault, Resend,
        Cancel, Expire, ContextDone
  <1>4. ASSUME \/ \E u \in Users : ForeignWrite(u)
               \/ Crash \/ Tick \/ UNCHANGED vars
        PROVE  audit' = audit /\ result' = result
    BY <1>4 DEF ForeignWrite, Crash, Tick, vars
  <1>5. CASE audit' = audit /\ result' = result
    BY <1>1, <1>a, <1>5, AuditFrame
  <1> QED
    BY <1>2, <1>3, <1>4, <1>5 DEF Next, Quiet

\* EventsFor tells the categories of answers apart.
LEMMA EventsTell ==
    ASSUME NEW status \in Statuses, NEW events, events = EventsFor(status)
    PROVE  /\ events = <<>> \/ \E event \in AuditEvents : events = <<event>>
           /\ events = <<"success">> => status \in Successes
           /\ events = <<"not_found">> => status = 404
           /\ events = <<"already_exists">> => status = 409
  <1>1. CASE status \in {0, 422}
    <2>1. events = <<>>
      BY <1>1 DEF EventsFor, Successes
    <2> QED
      BY <2>1
  <1>2. CASE status \in Successes
    <2>1. events = <<"success">>
      BY <1>2 DEF EventsFor, Successes
    <2> QED
      BY <1>2, <2>1 DEF AuditEvents
  <1>3. CASE status \in {404, 409, 500, 503}
    <2>1. events = IF status = 404 THEN <<"not_found">>
                   ELSE IF status = 409 THEN <<"already_exists">>
                   ELSE IF status = 503 THEN <<"unavailable">>
                   ELSE <<"internal_error">>
      BY <1>3 DEF EventsFor, Successes
    <2> QED
      BY <1>3, <2>1 DEF AuditEvents
  <1> QED
    BY <1>1, <1>2, <1>3 DEF Statuses, Successes

\* Every mutating call that was answered is in the audit log once, as what
\* its client was told, and every other call at most once; what an event
\* says of the document is true, whether or not the process lived to answer.
THEOREM AuditIsTrue == Spec => []AuditMatchesAnswers
  <1>1. Init => AuditInv
    <2> SUFFICES ASSUME Init, NEW r \in Requests PROVE AuditOK(r)
      BY DEF AuditInv
    <2>1. audit[r] = <<>> /\ call[r].op = "none"
      BY DEF Init
    <2> QED
      BY <2>1 DEF AuditOK, Mutates
  <1>2. IInv /\ AuditInv => AuditMatchesAnswers
    <2> SUFFICES ASSUME IInv, AuditInv, NEW r \in Requests
                 PROVE  LET Says(event) == audit[r] = <<event>> IN
                        /\ Mutates(r) \/ audit[r] = <<>>
                        /\ Mutates(r) /\ pc[r] = "done"
                             => audit[r] = EventsFor(response[r].status)
                        /\ \/ audit[r] = <<>>
                           \/ \E event \in AuditEvents : Says(event)
                        /\ Says("success") => Effects(r) # {}
                        /\ /\ resent[r] = 0
                           /\ Says("not_found") \/ Says("already_exists")
                           => Effects(r) = {} /\ wire[r] = {}
      BY DEF AuditMatchesAnswers
    <2>1. AuditOK(r) /\ HistoryOK(r) /\ OnceOK(r)
      BY DEF IInv, AuditInv, RequestOK
    <2>2. result[r].status \in Statuses
      BY DEF IInv, TypeOK, Response
    <2>3. CASE ~Mutates(r)
      <3>1. audit[r] = <<>>
        BY <2>1, <2>3 DEF AuditOK
      <3> QED
        BY <2>3, <3>1
    <2>4. CASE Mutates(r)
      <3> DEFINE status == result[r].status
      <3>1. audit[r] = EventsFor(status)
        BY <2>1, <2>4 DEF AuditOK
      <3>2. pc[r] = "done" => response[r] = result[r]
        BY <2>1 DEF HistoryOK
      <3>3. status \in Successes => Effects(r) # {}
        BY <2>1, <2>4 DEF HistoryOK
      <3>4. resent[r] = 0 /\ status \in {404, 409}
              => Effects(r) = {} /\ wire[r] = {}
        BY <2>1, <2>4 DEF OnceOK, Refusals
      <3>5. /\ audit[r] = <<>> \/ \E event \in AuditEvents : audit[r] = <<event>>
            /\ audit[r] = <<"success">> => status \in Successes
            /\ audit[r] = <<"not_found">> => status = 404
            /\ audit[r] = <<"already_exists">> => status = 409
        BY <2>2, <3>1, EventsTell
      <3> QED
        BY <2>4, <3>1, <3>2, <3>3, <3>4, <3>5
    <2> QED
      BY <2>3, <2>4
  <1> QED
    BY <1>1, <1>2, AuditStep, Invariance, PTL DEF Spec
-----------------------------------------------------------------------------
(***************************************************************************)
(* The times in a profile, what other programs put into its document, and  *)
(* the profile a success carries.  They rest on one fact: a write that can *)
(* still be applied was made from the document that is stored.             *)
(***************************************************************************)

(* How a step changes the writes, the replies and the answers of a request. *)

\* Every write r may still have applied was so before, or is a new one.
WritesMove(r) ==
    \A w \in Pending(r)' :
        \/ /\ call'[r] = call[r]
           /\ \E v \in Pending(r) : w.profile = v.profile /\ w.seen = v.seen
        \/ call'[r].op = "create" /\ w.profile = NewProfile(r)
        \/ call'[r].op = "delete" /\ w.profile = NoDoc
        \/ /\ call'[r] = call[r] /\ call[r].op = "update"
           /\ pc[r] = "txget" /\ reply[r].code = "OK"
           /\ Decodes(reply[r].doc)
           /\ w.profile = Merged(r, reply[r].doc) /\ w.seen = reply[r].seen
           /\ doc' = doc /\ log' = log

ReplyMoves(r) ==
    \/ /\ reply'[r] = reply[r]
       /\ pc'[r] = pc[r] \/ pc'[r] \notin {"get", "txget"} \/ reply[r] = NoReply
    \/ reply'[r].doc = NoDoc /\ reply'[r].code # "OK"
    \/ reply'[r].doc = NoDoc /\ pc'[r] \notin {"get", "txget"}
    \/ /\ reply'[r].doc = doc[call[r].uid]
       /\ reply'[r].seen = Version(call[r].uid)
       /\ doc' = doc /\ log' = log

AnswerMoves(r) ==
    \/ result'[r].body \in {result[r].body, NoDoc}
    \/ Writing(r) /\ result'[r].body = rpc[r].profile
    \/ /\ pc[r] = "get" /\ reply[r].code = "OK"
       /\ result'[r].body = ToProfile(reply[r].doc)

Moves(r) == WritesMove(r) /\ ReplyMoves(r) /\ AnswerMoves(r)

\* A request none of whose variables changes does not move.
LEMMA UntouchedMoves ==
    ASSUME NEW q \in Requests, Untouched(q)
    PROVE  Moves(q)
  <1>1. Pending(q)' = Pending(q)
    BY DEF Untouched, Pending, Writing
  <1>2. WritesMove(q)
    BY <1>1 DEF WritesMove, Untouched
  <1> QED
    BY <1>2 DEF Moves, ReplyMoves, AnswerMoves, Untouched

\* A write that is sent joins the ones in flight; nothing is answered.
LEMMA SendMoves ==
    ASSUME TypeOK, NEW r \in Requests,
           NEW place \in {"create", "commit", "delete"}, NEW p, NEW seen,
           Send(r, place, p, seen)
    PROVE  /\ \A w \in Pending(r)' :
                \/ w \in Pending(r)
                \/ w.profile = p /\ w.seen = seen
           /\ ReplyMoves(r)
           /\ \A q \in Requests : q # r =>
                /\ pc'[q] = pc[q] /\ rpc'[q] = rpc[q]
                /\ wire'[q] = wire[q] /\ reply'[q] = reply[q]
  <1> DEFINE w == [n |-> rpc[r].n + 1, profile |-> p, seen |-> seen]
  <1>1. /\ pc' = [pc EXCEPT ![r] = place]
        /\ rpc' = [rpc EXCEPT ![r] = w]
        /\ wire' = [wire EXCEPT ![r] = @ \union {w}]
        /\ reply' = [reply EXCEPT ![r] = NoReply]
    BY DEF Send
  <1>2. w.profile = p /\ w.seen = seen
    OBVIOUS
  <1> HIDE DEF w
  <1>3. pc'[r] = place /\ rpc'[r] = w /\ wire'[r] = wire[r] \union {w}
        /\ reply'[r] = NoReply
    BY <1>1 DEF TypeOK
  <1>4. Pending(r)' = wire[r] \union {w}
    BY <1>3 DEF Pending, Writing
  <1>5. ReplyMoves(r)
    BY <1>3 DEF ReplyMoves, NoReply
  <1>6. wire[r] \subseteq Pending(r)
    BY DEF Pending
  <1> QED
    BY <1>1, <1>2, <1>4, <1>5, <1>6 DEF TypeOK

\* A request that returns sends nothing.
LEMMA FinishMoves ==
    ASSUME TypeOK, NEW r \in Requests, NEW events, NEW status, NEW body,
           Finish(r, events, status, body),
           wire' = wire, reply' = reply, call'[r] = call[r] \/ wire[r] = {},
           \/ body = NoDoc
           \/ Writing(r) /\ body = rpc[r].profile
           \/ /\ pc[r] = "get" /\ reply[r].code = "OK"
              /\ body = ToProfile(reply[r].doc)
    PROVE  Moves(r)
  <1>1. pc'[r] = "answering" /\ result'[r].body = body
    BY DEF Finish, TypeOK
  <1>2. Pending(r)' = wire[r] /\ wire[r] \subseteq Pending(r)
    BY <1>1 DEF Pending, Writing
  <1>3. WritesMove(r)
    BY <1>2 DEF WritesMove
  <1>4. ReplyMoves(r)
    BY <1>1 DEF ReplyMoves
  <1> QED
    BY <1>1, <1>3, <1>4 DEF Moves, AnswerMoves

\* A step of a handler moves its own request only.
LEMMA HandlerMoves ==
    ASSUME IInv, NEW r \in Requests, Handle(r) \/ Return(r)
    PROVE  /\ Moves(r)
           /\ \A q \in Requests : q # r => Untouched(q)
           /\ doc' = doc /\ log' = log /\ clock' = clock
  <1>1. TypeOK /\ RequestOK(r)
    BY DEF IInv
  <1>2. ASSUME pc[r] = "idle"
        PROVE  reply[r] = NoReply /\ wire[r] = {} /\ Pending(r) = {}
    BY <1>1, <1>2 DEF RequestOK, PlaceOK, Mutates, Pending, Writing
  <1>3. CASE HandleCreate(r)
    <2>1. /\ Send(r, "create", NewProfile(r), 0)
          /\ pc[r] = "idle" /\ call'[r].op = "create"
          /\ \A q \in Requests : q # r => call'[q] = call[q]
          /\ doc' = doc /\ log' = log /\ clock' = clock
          /\ resent' = resent /\ result' = result /\ response' = response
      BY <1>1, <1>3 DEF HandleCreate, TypeOK, Call, backend
    <2>2. WritesMove(r)
      BY <1>1, <1>2, <2>1, SendMoves DEF WritesMove
    <2> QED
      BY <1>1, <2>1, <2>2, SendMoves DEF Moves, AnswerMoves, Untouched
  <1>4. CASE HandleDelete(r)
    <2>1. /\ Send(r, "delete", NoDoc, 0)
          /\ pc[r] = "idle" /\ call'[r].op = "delete"
          /\ \A q \in Requests : q # r => call'[q] = call[q]
          /\ doc' = doc /\ log' = log /\ clock' = clock
          /\ resent' = resent /\ result' = result /\ response' = response
      BY <1>1, <1>4 DEF HandleDelete, TypeOK, Call, backend
    <2>2. WritesMove(r)
      BY <1>1, <1>2, <2>1, SendMoves DEF WritesMove
    <2> QED
      BY <1>1, <2>1, <2>2, SendMoves DEF Moves, AnswerMoves, Untouched
  <1>5. CASE HandleGet(r)
    <2>1. /\ pc[r] = "idle" /\ pc' = [pc EXCEPT ![r] = "get"]
          /\ \A q \in Requests : q # r => call'[q] = call[q]
          /\ doc' = doc /\ log' = log /\ clock' = clock
          /\ rpc' = rpc /\ resent' = resent /\ wire' = wire /\ reply' = reply
          /\ result' = result /\ response' = response
      BY <1>1, <1>5 DEF HandleGet, TypeOK, backend
    <2>2. pc'[r] = "get" /\ \A q \in Requests : q # r => pc'[q] = pc[q]
      BY <1>1, <2>1 DEF TypeOK
    <2>3. Pending(r)' = {}
      BY <1>2, <2>1, <2>2 DEF Pending, Writing
    <2> QED
      BY <1>2, <2>1, <2>2, <2>3
      DEF Moves, WritesMove, ReplyMoves, AnswerMoves, Untouched
  <1>6. ASSUME NEW F \in SUBSET Fields, HandleUpdate(r, F)
        PROVE  /\ Moves(r)
               /\ \A q \in Requests : q # r => Untouched(q)
               /\ doc' = doc /\ log' = log /\ clock' = clock
    <2>1. /\ pc[r] = "idle"
          /\ \A q \in Requests : q # r => call'[q] = call[q]
          /\ doc' = doc /\ log' = log /\ clock' = clock
          /\ rpc' = rpc /\ resent' = resent /\ wire' = wire /\ reply' = reply
          /\ response' = response
      BY <1>1, <1>6 DEF HandleUpdate, TypeOK, backend
    <2>2. CASE F = {}
      <3>1. Finish(r, <<>>, 422, NoDoc)
        BY <1>6, <2>2 DEF HandleUpdate
      <3>2. Moves(r)
        BY <1>1, <1>2, <2>1, <3>1, FinishMoves
      <3> QED
        BY <1>1, <2>1, <3>1, <3>2 DEF Finish, TypeOK, Untouched
    <2>3. CASE F # {}
      <3>1. pc' = [pc EXCEPT ![r] = "txget"]
            /\ result' = result /\ response' = response
        BY <1>6, <2>3 DEF HandleUpdate
      <3>2. pc'[r] = "txget" /\ \A q \in Requests : q # r => pc'[q] = pc[q]
        BY <1>1, <3>1 DEF TypeOK
      <3>3. Pending(r)' = {}
        BY <1>2, <2>1, <3>2 DEF Pending, Writing
      <3> QED
        BY <1>2, <2>1, <3>1, <3>2, <3>3
        DEF Moves, WritesMove, ReplyMoves, AnswerMoves, Untouched
    <2> QED
      BY <2>2, <2>3
  <1>7. ASSUME Return(r)
        PROVE  /\ call' = call /\ doc' = doc /\ log' = log /\ clock' = clock
               /\ resent' = resent
    BY <1>7
    DEF Return, CreateReturn, GetReturn, UpdateClosure, UpdateRetry,
        UpdateReturn, DeleteReturn, Respond, backend
  <1>8. ASSUME NEW events, NEW status, NEW body, Return(r),
               Finish(r, events, status, body), wire' = wire, reply' = reply,
               rpc' = rpc, response' = response,
               \/ body = NoDoc
               \/ Writing(r) /\ body = rpc[r].profile
               \/ /\ pc[r] = "get" /\ reply[r].code = "OK"
                  /\ body = ToProfile(reply[r].doc)
        PROVE  Moves(r) /\ \A q \in Requests : q # r => Untouched(q)
    <2>1. Moves(r)
      BY <1>1, <1>7, <1>8, FinishMoves
    <2> QED
      BY <1>1, <1>7, <1>8, <2>1 DEF Finish, TypeOK, Untouched
  <1>9. CASE CreateReturn(r)
    <2> DEFINE err == CreateError(reply[r].code)
               status == IF err = {} THEN 201 ELSE MapServiceError(err)
               body == IF err = {} THEN rpc[r].profile ELSE NoDoc
    <2>1. /\ Finish(r, <<LogEvent(err)>>, status, body)
          /\ pc[r] = "create"
          /\ wire' = wire /\ reply' = reply /\ rpc' = rpc
          /\ response' = response
      BY <1>9 DEF CreateReturn
    <2>2. body = NoDoc \/ (Writing(r) /\ body = rpc[r].profile)
      BY <2>1 DEF Writing
    <2>3. Return(r)
      BY <1>9 DEF Return
    <2> HIDE DEF err, status, body
    <2> QED
      BY <1>7, <1>8, <2>1, <2>2, <2>3
  <1>10. CASE GetReturn(r)
    <2> DEFINE read == GetError(reply[r].code)
               err == IF read = {} /\ ~Decodes(reply[r].doc)
                        THEN {"decode profile"} ELSE read
               status == IF err = {} THEN 200 ELSE MapServiceError(err)
               body == IF err = {} THEN ToProfile(reply[r].doc) ELSE NoDoc
    <2>1. /\ Finish(r, <<>>, status, body)
          /\ pc[r] = "get"
          /\ wire' = wire /\ reply' = reply /\ rpc' = rpc
          /\ response' = response
      BY <1>10 DEF GetReturn
    <2>2. err = {} => reply[r].code = "OK"
      BY DEF GetError, ClassifyDependencyError
    <2>3. Return(r)
      BY <1>10 DEF Return
    <2>4. body = NoDoc
          \/ (reply[r].code = "OK" /\ body = ToProfile(reply[r].doc))
      BY <2>2
    <2> HIDE DEF read, err, status, body
    <2> QED
      BY <1>7, <1>8, <2>1, <2>3, <2>4
  <1>11. ASSUME NEW code, FailUpdate(r, code), Return(r),
                wire' = wire, reply' = reply, rpc' = rpc,
                response' = response
         PROVE  Moves(r) /\ \A q \in Requests : q # r => Untouched(q)
    <2> DEFINE err == UpdateError(code)
    <2>1. Finish(r, <<LogEvent(err)>>, MapServiceError(err), NoDoc)
      BY <1>11 DEF FailUpdate
    <2> HIDE DEF err
    <2> QED
      BY <1>8, <1>11, <2>1
  <1>12. CASE UpdateClosure(r)
    <2>1. Return(r)
      BY <1>12 DEF Return
    <2>2. CASE reply[r].code = "OK" /\ Decodes(reply[r].doc)
      <3>1. /\ Send(r, "commit", Merged(r, reply[r].doc), reply[r].seen)
            /\ pc[r] = "txget" /\ result' = result /\ response' = response
        BY <1>12, <2>2 DEF UpdateClosure
      <3>2. call[r].op = "update"
        BY <1>1, <3>1 DEF RequestOK, PlaceOK
      <3>3. WritesMove(r)
        BY <1>1, <1>7, <2>1, <2>2, <3>1, <3>2, SendMoves DEF WritesMove
      <3> QED
        BY <1>1, <1>7, <2>1, <3>1, <3>3, SendMoves
        DEF Moves, AnswerMoves, Untouched
    <2>3. CASE ~(reply[r].code = "OK" /\ Decodes(reply[r].doc))
      <3>1. PICK code : FailUpdate(r, code)
        BY <1>12, <2>3 DEF UpdateClosure
      <3>2. /\ wire' = wire /\ reply' = reply /\ rpc' = rpc
            /\ response' = response
        BY <1>12, <2>3 DEF UpdateClosure
      <3> QED
        BY <1>7, <1>11, <2>1, <3>1, <3>2
    <2> QED
      BY <2>2, <2>3
  <1>13. CASE UpdateRetry(r)
    <2>1. /\ Return(r)
          /\ pc[r] = "commit" /\ pc' = [pc EXCEPT ![r] = "txget"]
          /\ reply' = [reply EXCEPT ![r] = NoReply]
          /\ rpc' = rpc /\ wire' = wire
          /\ result' = result /\ response' = response
      BY <1>13 DEF UpdateRetry, Return
    <2>2. /\ pc'[r] = "txget" /\ reply'[r] = NoReply
          /\ \A q \in Requests : q # r => pc'[q] = pc[q] /\ reply'[q] = reply[q]
      BY <1>1, <2>1 DEF TypeOK
    <2>3. Pending(r)' \subseteq Pending(r)
      BY <2>1, <2>2 DEF Pending, Writing
    <2>4. NoReply.doc = NoDoc /\ NoReply.code # "OK"
      BY DEF NoReply
    <2> QED
      BY <1>7, <2>1, <2>2, <2>3, <2>4
      DEF Moves, WritesMove, ReplyMoves, AnswerMoves, Untouched
  <1>14. CASE UpdateReturn(r)
    <2>1. /\ Return(r) /\ Writing(r)
          /\ rpc' = rpc /\ wire' = wire /\ reply' = reply
          /\ response' = response
      BY <1>14 DEF UpdateReturn, Return, Writing
    <2>2. CASE reply[r].code = "OK"
      <3>1. Finish(r, <<"success">>, 200, rpc[r].profile)
        BY <1>14, <2>2 DEF UpdateReturn
      <3> QED
        BY <1>7, <1>8, <2>1, <3>1
    <2>3. CASE reply[r].code # "OK"
      <3>1. FailUpdate(r, reply[r].code)
        BY <1>14, <2>3 DEF UpdateReturn
      <3> QED
        BY <1>7, <1>11, <2>1, <3>1
    <2> QED
      BY <2>2, <2>3
  <1>15. CASE DeleteReturn(r)
    <2> DEFINE err == DeleteError(reply[r].code)
               status == IF err = {} THEN 204 ELSE MapServiceError(err)
    <2>1. /\ Finish(r, <<LogEvent(err)>>, status, NoDoc) /\ Return(r)
          /\ wire' = wire /\ reply' = reply /\ rpc' = rpc
          /\ response' = response
      BY <1>15 DEF DeleteReturn, Return
    <2> HIDE DEF err, status
    <2> QED
      BY <1>7, <1>8, <2>1
  <1>16. CASE Respond(r)
    <2>1. /\ pc'[r] = "done" /\ wire' = wire /\ reply' = reply
          /\ call' = call /\ rpc' = rpc /\ resent' = resent
          /\ result' = result
          /\ \A q \in Requests : q # r =>
               pc'[q] = pc[q] /\ response'[q] = response[q]
          /\ doc' = doc /\ log' = log /\ clock' = clock
      BY <1>1, <1>16 DEF Respond, TypeOK, backend
    <2>2. Pending(r)' \subseteq Pending(r)
      BY <2>1 DEF Pending, Writing
    <2> QED
      BY <2>1, <2>2 DEF Moves, WritesMove, ReplyMoves, AnswerMoves, Untouched
  <1> QED
    BY <1>3, <1>4, <1>5, <1>6, <1>9, <1>10, <1>12, <1>13, <1>14, <1>15, <1>16
    DEF Handle, Return

\* Serving a write of r takes it from the wire and may answer it.
LEMMA ServeMoves ==
    ASSUME TypeOK, NEW r \in Requests, NEW w \in wire[r], NEW code,
           wire' = [wire EXCEPT ![r] = @ \ {w}], Deliver(r, w, code),
           pc' = pc, call' = call, rpc' = rpc, resent' = resent,
           result' = result, response' = response
    PROVE  Moves(r) /\ \A q \in Requests : q # r => Untouched(q)
  <1> DEFINE a == [NoReply EXCEPT !.code = code]
  <1>1. a.doc = NoDoc
    BY DEF NoReply
  <1>2. \/ reply' = reply
        \/ Writing(r) /\ reply' = [reply EXCEPT ![r] = a]
    BY DEF Deliver
  <1> HIDE DEF a
  <1>3. \/ reply'[r] = reply[r]
        \/ Writing(r) /\ reply'[r].doc = NoDoc
    BY <1>1, <1>2 DEF TypeOK
  <1>4. \A q \in Requests : q # r => reply'[q] = reply[q] /\ wire'[q] = wire[q]
    BY <1>2 DEF TypeOK
  <1>5. wire'[r] \subseteq wire[r]
    BY DEF TypeOK
  <1>6. Pending(r)' \subseteq Pending(r)
    BY <1>5 DEF Pending, Writing
  <1>7. ReplyMoves(r)
    BY <1>3 DEF ReplyMoves, Writing
  <1> QED
    BY <1>4, <1>6, <1>7 DEF Moves, WritesMove, AnswerMoves, Untouched

\* So does a step of the backend, of the transport or of its context.
LEMMA BackendMoves ==
    ASSUME IInv, NEW r \in Requests,
           \/ Serve(r) \/ Fault(r) \/ Resend(r) \/ Cancel(r) \/ Expire(r)
    PROVE  /\ Moves(r)
           /\ \A q \in Requests : q # r => Untouched(q)
           /\ clock' = clock
  <1>1. TypeOK /\ RequestOK(r)
    BY DEF IInv
  <1>2. clock' = clock
    BY DEF Serve, ServeCreate, ServeCommit, ServeDelete, ServeRead, Fault,
           Resend, Cancel, Expire, ContextDone, backend
  <1>3. CASE ServeCreate(r) \/ ServeCommit(r) \/ ServeDelete(r)
    <2>1. /\ pc' = pc /\ call' = call /\ rpc' = rpc /\ resent' = resent
          /\ result' = result /\ response' = response
      BY <1>3 DEF ServeCreate, ServeCommit, ServeDelete
    <2>2. \E w \in wire[r] : \E code :
            wire' = [wire EXCEPT ![r] = @ \ {w}] /\ Deliver(r, w, code)
      <3>1. CASE ServeCreate(r)
        BY <3>1 DEF ServeCreate
      <3>2. CASE ServeCommit(r)
        BY <3>2 DEF ServeCommit
      <3>3. CASE ServeDelete(r)
        BY <3>3 DEF ServeDelete
      <3> QED
        BY <1>3, <3>1, <3>2, <3>3
    <2> QED
      BY <1>1, <1>2, <2>1, <2>2, ServeMoves
  <1>4. CASE ServeRead(r)
    <2> DEFINE d == doc[call[r].uid]
               a == [code |-> IF d = NoDoc THEN "NotFound" ELSE "OK",
                     doc |-> d, seen |-> Version(call[r].uid)]
    <2>1. /\ reply' = [reply EXCEPT ![r] = a]
          /\ doc' = doc /\ log' = log /\ pc' = pc /\ call' = call /\ rpc' = rpc
          /\ resent' = resent /\ wire' = wire
          /\ result' = result /\ response' = response
      BY <1>4 DEF ServeRead, backend
    <2>2. a.doc = doc[call[r].uid] /\ a.seen = Version(call[r].uid)
      OBVIOUS
    <2> HIDE DEF a
    <2>3. /\ reply'[r] = a
          /\ \A q \in Requests : q # r => reply'[q] = reply[q]
      BY <1>1, <2>1 DEF TypeOK
    <2>4. Pending(r)' = Pending(r)
      BY <2>1 DEF Pending, Writing
    <2>5. ReplyMoves(r)
      BY <2>1, <2>2, <2>3 DEF ReplyMoves
    <2> QED
      BY <1>2, <2>1, <2>3, <2>4, <2>5
      DEF Moves, WritesMove, AnswerMoves, Untouched
  <1>5. ASSUME NEW code, code # "OK",
               reply' = [reply EXCEPT ![r] = [NoReply EXCEPT !.code = code]],
               \A q \in Requests : wire'[q] \subseteq wire[q],
               \A q \in Requests : q # r => wire'[q] = wire[q],
               pc' = pc, call' = call, rpc' = rpc, resent' = resent,
               result' = result, response' = response
        PROVE  Moves(r) /\ \A q \in Requests : q # r => Untouched(q)
    <2> DEFINE a == [NoReply EXCEPT !.code = code]
    <2>1. a.doc = NoDoc /\ a.code = code
      BY DEF NoReply
    <2> HIDE DEF a
    <2>2. /\ reply'[r].doc = NoDoc /\ reply'[r].code # "OK"
          /\ \A q \in Requests : q # r => reply'[q] = reply[q]
      BY <1>1, <1>5, <2>1 DEF TypeOK, a
    <2>3. Pending(r)' \subseteq Pending(r)
      BY <1>5 DEF Pending, Writing
    <2>4. ReplyMoves(r)
      BY <2>2 DEF ReplyMoves
    <2> QED
      BY <1>5, <2>2, <2>3, <2>4
      DEF Moves, WritesMove, AnswerMoves, Untouched
  <1>6. CASE Fault(r)
    <2>1. /\ pc' = pc /\ call' = call /\ rpc' = rpc /\ resent' = resent
          /\ result' = result /\ response' = response
      BY <1>6 DEF Fault
    <2>2. PICK code \in Faults :
            /\ reply' = [reply EXCEPT ![r] = [NoReply EXCEPT !.code = code]]
            /\ \/ wire' = [wire EXCEPT ![r] = @ \ {rpc[r]}]
               \/ wire' = wire
      BY <1>6 DEF Fault
    <2>3. code # "OK"
      BY ConstantsAssumption DEF GrpcFaults, RetriedCodes
    <2>4. /\ \A q \in Requests : wire'[q] \subseteq wire[q]
          /\ \A q \in Requests : q # r => wire'[q] = wire[q]
      BY <1>1, <2>2 DEF TypeOK
    <2> QED
      BY <1>2, <1>5, <2>1, <2>2, <2>3, <2>4
  <1>7. CASE Cancel(r) \/ Expire(r)
    <2>1. PICK error \in ContextErrors : ContextDone(r, error)
      BY <1>7 DEF Cancel, Expire, ContextErrors
    <2>2. /\ reply' = [reply EXCEPT ![r] = [NoReply EXCEPT !.code = error]]
          /\ wire' = wire /\ pc' = pc /\ call' = call /\ rpc' = rpc
          /\ resent' = resent /\ result' = result /\ response' = response
      BY <2>1 DEF ContextDone
    <2>3. error # "OK"
      BY DEF ContextErrors
    <2> QED
      BY <1>2, <1>5, <2>2, <2>3
  <1>8. CASE Resend(r)
    <2>1. /\ Writing(r) /\ call' = call
          /\ result' = result /\ response' = response
          /\ Send(r, pc[r], rpc[r].profile, rpc[r].seen)
          /\ resent' = [resent EXCEPT ![r] = @ + 1]
      BY <1>8 DEF Resend
    <2>2. rpc[r] \in Pending(r) /\ pc[r] \in {"create", "commit", "delete"}
      BY <2>1 DEF Pending, Writing
    <2>3. WritesMove(r)
      BY <1>1, <2>1, <2>2, SendMoves DEF WritesMove
    <2>4. \A q \in Requests : q # r => resent'[q] = resent[q]
      BY <1>1, <2>1 DEF TypeOK
    <2> QED
      BY <1>1, <1>2, <2>1, <2>2, <2>3, <2>4, SendMoves
      DEF Moves, AnswerMoves, Untouched
  <1> QED
    BY <1>2, <1>3, <1>4, <1>6, <1>7, <1>8 DEF Serve

\* Every step moves every request, and the clock never goes back.
LEMMA StepMoves ==
    ASSUME IInv, [Next]_vars
    PROVE  (\A q \in Requests : Moves(q)) /\ clock' >= clock
  <1>1. TypeOK /\ clock \in Int
    BY DEF IInv, TypeOK, Clock
  <1>2. CASE \E r \in Requests :
               \/ Handle(r) \/ Return(r) \/ Serve(r) \/ Fault(r) \/ Resend(r)
               \/ Cancel(r) \/ Expire(r)
    BY <1>1, <1>2, HandlerMoves, BackendMoves, UntouchedMoves
  <1>3. ASSUME NEW u \in Users, ForeignWrite(u)
        PROVE  (\A q \in Requests : Moves(q)) /\ clock' >= clock
    BY <1>1, <1>3, UntouchedMoves DEF ForeignWrite, Untouched
  <1>4. CASE Crash
    <2>1. /\ \A q \in Requests : pc'[q] = IF Running(q) THEN "crashed" ELSE pc[q]
          /\ clock' = clock /\ call' = call /\ rpc' = rpc /\ wire' = wire
          /\ reply' = reply /\ result' = result /\ response' = response
      BY <1>4 DEF Crash, backend
    <2>2. ASSUME NEW q \in Requests PROVE Moves(q)
      <3>1. Pending(q)' \subseteq Pending(q)
        BY <2>1 DEF Pending, Writing, Running, Waiting
      <3> QED
        BY <2>1, <3>1 DEF Moves, WritesMove, ReplyMoves, AnswerMoves
    <2> QED
      BY <1>1, <2>1, <2>2
  <1>5. CASE Tick \/ UNCHANGED vars
    <2>1. clock' >= clock
      BY <1>1, <1>5 DEF Tick, vars
    <2>2. \A q \in Requests : Untouched(q)
      BY <1>5 DEF Tick, vars, Untouched
    <2> QED
      BY <2>1, <2>2, UntouchedMoves
  <1> QED
    BY <1>2, <1>3, <1>4, <1>5 DEF Next, Quiet
-----------------------------------------------------------------------------
(* Times, and what a current write was made from.                          *)

\* The times of profile p make sense at time t.
SaneAt(p, t) == p # NoDoc => p.created_at <= p.updated_at /\ p.updated_at <= t

TimesOK ==
    /\ \A u \in Users : SaneAt(doc[u], clock)
    /\ \A r \in Requests : /\ SaneAt(result[r].body, clock)
                           /\ SaneAt(reply[r].doc, clock)
                           /\ \A w \in Pending(r) : SaneAt(w.profile, clock)

\* Profile p is an update by r of document d.
Updates(r, p, d) ==
    /\ Decodes(d)
    /\ p.created_at = d.created_at
    /\ d.updated_at <= p.updated_at
    /\ \A f \in Fields : f \notin call[r].fields => p.data[f] = d.data[f]

\* What was read at the current version is what is stored, and what will be
\* committed at the current version is an update of it.
CurrentOK(r) ==
    /\ /\ pc[r] \in {"get", "txget"}
       /\ reply[r].code = "OK"
       /\ reply[r].seen = Version(call[r].uid)
       => reply[r].doc = doc[call[r].uid]
    /\ call[r].op = "update" =>
         \A w \in Pending(r) : w.seen = Version(call[r].uid)
                               => Updates(r, w.profile, doc[call[r].uid])

SnapshotInv == TimesOK /\ \A r \in Requests : CurrentOK(r)

\* What makes sense now makes sense later, and so does a copy of it.
LEMMA SaneLater ==
    ASSUME NEW p \in Profile \union Document \union {NoDoc},
           NEW t \in Clock, NEW s \in Clock, t <= s, SaneAt(p, t)
    PROVE  /\ SaneAt(p, s)
           /\ p # NoDoc => SaneAt(ToProfile(p), s)
  <1>1. p # NoDoc => /\ p.created_at \in Int /\ p.updated_at \in Int
                     /\ ToProfile(p).created_at = p.created_at
                     /\ ToProfile(p).updated_at = p.updated_at
    BY DEF Profile, Document, Clock, ToProfile
  <1> QED
    BY <1>1 DEF SaneAt, Clock

\* The writes that may be applied are typed.
LEMMA PendingType ==
    ASSUME TypeOK, NEW r \in Requests, NEW w \in Pending(r)
    PROVE  w.profile \in Profile \union {NoDoc} /\ w.seen \in Nat
  BY DEF TypeOK, Pending, Write

\* Documents make sense after every step.
LEMMA DocumentTimes ==
    ASSUME IInv, SnapshotInv, [Next]_vars, TypeOK', NEW u \in Users
    PROVE  SaneAt(doc'[u], clock')
  <1>1. /\ TypeOK /\ clock \in Clock /\ clock' \in Clock /\ clock <= clock'
        /\ doc[u] \in Document \union {NoDoc}
    BY StepMoves DEF IInv, TypeOK, Clock
  <1>2. SaneAt(doc[u], clock')
    BY <1>1, SaneLater DEF SnapshotInv, TimesOK
  <1>3. ASSUME NEW q \in Requests, NEW w \in wire[q], Applied(q, w),
               call[q].uid = u
        PROVE  SaneAt(doc'[u], clock')
    <2>1. w \in Pending(q) /\ RequestOK(q)
      BY DEF Pending, IInv
    <2>2. SaneAt(w.profile, clock')
      BY <1>1, <2>1, PendingType, SaneLater DEF SnapshotInv, TimesOK
    <2>3. CASE call[q].op = "create"
      <3>1. doc'[u] = Stored(w.profile) /\ w.profile # NoDoc
        BY <1>1, <1>3, <2>1, <2>3, NoDocAssumption
        DEF Applied, Apply, TypeOK, RequestOK, WritesOK
      <3> QED
        BY <2>2, <3>1 DEF SaneAt, Stored
    <2>4. CASE call[q].op = "update"
      <3>1. /\ doc'[u] = Overwritten(q, doc[u], w.profile)
            /\ w.profile # NoDoc /\ w.seen = Version(u)
        BY <1>1, <1>3, <2>1, <2>4, NoDocAssumption
        DEF Applied, Apply, TypeOK, RequestOK, WritesOK
      <3>2. Updates(q, w.profile, doc[u])
        BY <1>3, <2>1, <2>4, <3>1 DEF SnapshotInv, CurrentOK
      <3>3. doc[u] \in Document
        BY <1>1, <1>3, <2>1, <2>4, <3>1 DEF RequestOK, SnapshotsOK, Existed
      <3>4. /\ doc'[u].created_at = doc[u].created_at
            /\ doc'[u].updated_at = w.profile.updated_at
        BY <3>1, <3>3 DEF Overwritten, Document
      <3> QED
        BY <2>2, <3>1, <3>2, <3>4 DEF SaneAt, Updates
    <2>5. CASE call[q].op = "delete"
      BY <1>1, <1>3, <2>5 DEF Applied, Apply, TypeOK, SaneAt
    <2> QED
      BY <1>3, <2>3, <2>4, <2>5 DEF Applied
  <1>4. ASSUME ForeignWrite(u) PROVE SaneAt(doc'[u], clock')
    <2>1. PICK extra : doc'[u] = [doc[u] EXCEPT !.extra = extra]
      BY <1>1, <1>4 DEF ForeignWrite, TypeOK
    <2>2. doc[u] # NoDoc /\ doc[u] \in Document
      BY <1>1, <1>4 DEF ForeignWrite
    <2>3. /\ doc'[u].created_at = doc[u].created_at
          /\ doc'[u].updated_at = doc[u].updated_at
      BY <2>1, <2>2 DEF Document
    <2> QED
      BY <1>2, <2>2, <2>3 DEF SaneAt
  <1>5. ASSUME doc'[u] = doc[u] PROVE SaneAt(doc'[u], clock')
    BY <1>2, <1>5
  <1>6. ASSUME NEW q \in Requests, NEW w \in wire[q], Applied(q, w),
               call[q].uid # u
        PROVE  doc'[u] = doc[u]
    BY <1>1, <1>6 DEF Applied, Apply, TypeOK, Call
  <1>7. ASSUME NEW v \in Users, ForeignWrite(v), v # u PROVE doc'[u] = doc[u]
    BY <1>1, <1>7 DEF ForeignWrite, TypeOK
  <1> QED
    BY <1>3, <1>4, <1>5, <1>6, <1>7, HistoryStep

\* What a request sends, is replied and answers makes sense after a step.
LEMMA RequestTimes ==
    ASSUME IInv, SnapshotInv, [Next]_vars, TypeOK', NEW r \in Requests
    PROVE  /\ SaneAt(result'[r].body, clock')
           /\ SaneAt(reply'[r].doc, clock')
           /\ \A w \in Pending(r)' : SaneAt(w.profile, clock')
  <1>1. /\ TypeOK /\ clock \in Clock /\ clock' \in Clock /\ clock <= clock'
        /\ Moves(r) /\ RequestOK(r) /\ call[r].uid \in Users
    BY StepMoves DEF IInv, TypeOK, Clock, Call
  <1>2. /\ result[r].body \in Profile \union {NoDoc}
        /\ reply[r].doc \in Document \union {NoDoc}
        /\ doc[call[r].uid] \in Document \union {NoDoc}
    BY <1>1 DEF TypeOK, Response, Reply
  <1>3. /\ SaneAt(result[r].body, clock')
        /\ SaneAt(reply[r].doc, clock')
        /\ SaneAt(doc[call[r].uid], clock')
        /\ SaneAt(NoDoc, clock')
    BY <1>1, <1>2, SaneLater DEF SnapshotInv, TimesOK, SaneAt
  <1>4. \A w \in Pending(r) : SaneAt(w.profile, clock')
    BY <1>1, PendingType, SaneLater DEF SnapshotInv, TimesOK
  <1>5. SaneAt(reply'[r].doc, clock')
    BY <1>1, <1>3 DEF Moves, ReplyMoves
  <1>6. reply[r].code = "OK" /\ pc[r] \in {"get", "txget"} =>
          reply[r].doc \in Document /\ reply[r].doc # NoDoc
    BY <1>1, <1>2 DEF RequestOK, SnapshotsOK
  <1>7. SaneAt(result'[r].body, clock')
    <2>1. CASE result'[r].body \in {result[r].body, NoDoc}
      BY <1>3, <2>1
    <2>2. CASE Writing(r) /\ result'[r].body = rpc[r].profile
      BY <1>4, <2>2 DEF Pending
    <2>3. CASE /\ pc[r] = "get" /\ reply[r].code = "OK"
               /\ result'[r].body = ToProfile(reply[r].doc)
      BY <1>1, <1>6, <2>3, SaneLater DEF SnapshotInv, TimesOK
    <2> QED
      BY <1>1, <2>1, <2>2, <2>3 DEF Moves, AnswerMoves
  <1>8. ASSUME NEW w \in Pending(r)' PROVE SaneAt(w.profile, clock')
    <2>1. ASSUME NEW v \in Pending(r), w.profile = v.profile
          PROVE  SaneAt(w.profile, clock')
      BY <1>4, <2>1
    <2>2. CASE w.profile = NewProfile(r)
      BY <1>1, <2>2 DEF NewProfile, SaneAt, Clock
    <2>3. CASE w.profile = NoDoc
      BY <1>3, <2>3
    <2>4. CASE /\ pc[r] = "txget" /\ reply[r].code = "OK"
               /\ w.profile = Merged(r, reply[r].doc)
      <3>1. /\ reply[r].doc.created_at <= reply[r].doc.updated_at
            /\ reply[r].doc.updated_at <= clock
        BY <1>6, <2>4 DEF SnapshotInv, TimesOK, SaneAt
      <3>2. /\ reply[r].doc.created_at \in Int /\ reply[r].doc.updated_at \in Int
            /\ clock \in Int /\ clock' \in Int
        BY <1>1, <1>6, <2>4 DEF Document, Clock
      <3>3. /\ w.profile.created_at = reply[r].doc.created_at
            /\ w.profile.updated_at = clock
        BY <2>4 DEF Merged
      <3> QED
        BY <1>1, <3>1, <3>2, <3>3 DEF SaneAt
    <2> QED
      BY <1>1, <2>1, <2>2, <2>3, <2>4 DEF Moves, WritesMove
  <1> QED
    BY <1>5, <1>7, <1>8

\* While a document is not written, what was made from it stays current; a
\* write that follows makes everything made before it outdated.
LEMMA CurrentStep ==
    ASSUME IInv, SnapshotInv, LogOK, [Next]_vars, NEW r \in Requests
    PROVE  CurrentOK(r)'
  <1> DEFINE u == call[r].uid
  <1>1. /\ TypeOK /\ clock \in Clock /\ Moves(r) /\ RequestOK(r) /\ CurrentOK(r)
        /\ u \in Users /\ Version(u) \in Nat /\ Grows(u)
        /\ call'[r].uid = u
    BY StepMoves, PastStays, CallsStay DEF IInv, TypeOK, Call, SnapshotInv
  <1>2. PICK c \in Users : c = u
    BY <1>1
  <1>3. Version(call[r].uid)' = Version(c)'
    BY <1>1, <1>2 DEF Version
  <1>4. ASSUME /\ pc'[r] \in {"get", "txget"}
               /\ reply'[r].code = "OK"
               /\ reply'[r].seen = Version(c)'
        PROVE  reply'[r].doc = doc'[c]
    <2>1. CASE /\ reply'[r] = reply[r]
               /\ pc'[r] = pc[r] \/ pc'[r] \notin {"get", "txget"}
                    \/ reply[r] = NoReply
      <3>1. pc[r] \in {"get", "txget"} /\ reply[r].code = "OK"
        BY <1>4, <2>1 DEF NoReply
      <3>2. reply[r].seen <= Version(c)
        BY <1>1, <1>2, <3>1 DEF RequestOK, SnapshotsOK, Existed
      <3>3. Version(c)' # Version(c) + 1
        <4>1. reply[r].seen \in Nat
          BY <1>1 DEF TypeOK, Reply
        <4> QED
          BY <1>1, <1>2, <1>4, <2>1, <3>2, <4>1
      <3>4. Version(c)' = Version(c) /\ doc'[c] = doc[c]
        BY <1>1, <1>2, <3>3 DEF Grows
      <3> QED
        BY <1>1, <1>2, <1>4, <2>1, <3>1, <3>4 DEF CurrentOK
    <2>2. CASE reply'[r].doc = doc[call[r].uid] /\ doc' = doc
      BY <1>2, <2>2
    <2> QED
      BY <1>1, <1>4, <2>1, <2>2 DEF Moves, ReplyMoves
  <1>5. ASSUME call'[r].op = "update", NEW w \in Pending(r)',
               w.seen = Version(c)'
        PROVE  Updates(r, w.profile, doc[c])'
    <2>1. ASSUME call'[r] = call[r],
                 NEW v \in Pending(r), w.profile = v.profile, w.seen = v.seen
          PROVE  Updates(r, w.profile, doc[c])'
      <3>1. v.seen \in Nat /\ v.seen <= Version(c)
        BY <1>1, <1>2, <1>5, <2>1, PendingType
        DEF RequestOK, SnapshotsOK, Existed
      <3>2. Version(c)' # Version(c) + 1
        BY <1>1, <1>2, <1>5, <2>1, <3>1
      <3>3. Version(c)' = Version(c) /\ doc'[c] = doc[c]
        BY <1>1, <1>2, <3>2 DEF Grows
      <3>4. Updates(r, v.profile, doc[c])
        BY <1>1, <1>2, <1>5, <2>1, <3>3 DEF CurrentOK
      <3> QED
        BY <2>1, <3>3, <3>4 DEF Updates
    <2>2. CASE /\ call'[r] = call[r]
               /\ pc[r] = "txget" /\ reply[r].code = "OK"
               /\ Decodes(reply[r].doc)
               /\ w.profile = Merged(r, reply[r].doc) /\ w.seen = reply[r].seen
               /\ doc' = doc /\ log' = log
      <3>1. Version(c)' = Version(c) /\ doc'[c] = doc[c]
        BY <2>2 DEF Version
      <3>2. reply[r].doc = doc[c] /\ doc[c] # NoDoc
        BY <1>1, <1>2, <1>5, <2>2, <3>1
        DEF CurrentOK, RequestOK, SnapshotsOK
      <3>3. doc[c].updated_at <= clock
        BY <3>2 DEF SnapshotInv, TimesOK, SaneAt
      <3>4. /\ w.profile.created_at = doc[c].created_at
            /\ w.profile.updated_at = clock
            /\ \A f \in Fields : f \notin call[r].fields
                 => w.profile.data[f] = doc[c].data[f]
        BY <2>2, <3>2 DEF Merged
      <3>5. Updates(r, w.profile, doc[c])
        BY <2>2, <3>2, <3>3, <3>4 DEF Updates
      <3> QED
        BY <2>2, <3>1, <3>5 DEF Updates
    <2> QED
      BY <1>1, <1>5, <2>1, <2>2 DEF Moves, WritesMove
  <1> QED
    BY <1>1, <1>2, <1>3, <1>4, <1>5 DEF CurrentOK

\* A store that has served nothing satisfies SnapshotInv.
LEMMA SnapshotInit == Init => SnapshotInv
  <1> SUFFICES ASSUME Init PROVE SnapshotInv
    OBVIOUS
  <1>1. ASSUME NEW r \in Requests
        PROVE  /\ Pending(r) = {} /\ call[r].op = "none"
               /\ reply[r].code = "none" /\ reply[r].doc = NoDoc
               /\ result[r].body = NoDoc
    BY DEF Init, Pending, Writing, NoReply, NoResponse
  <1>2. \A u \in Users : doc[u] = NoDoc
    BY DEF Init
  <1>3. TimesOK
    BY <1>1, <1>2 DEF TimesOK, SaneAt
  <1>4. \A r \in Requests : CurrentOK(r)
    BY <1>1 DEF CurrentOK
  <1> QED
    BY <1>3, <1>4 DEF SnapshotInv

\* Every step of the store keeps SnapshotInv.
LEMMA SnapshotStep ==
    ASSUME IInv, LogOK, SnapshotInv, [Next]_vars
    PROVE  LogOK' /\ SnapshotInv'
  <1>1. TypeOK'
    BY StepOK DEF IInv
  <1>2. TimesOK'
    BY <1>1, DocumentTimes, RequestTimes DEF TimesOK
  <1> QED
    BY <1>2, LogStep, CurrentStep DEF SnapshotInv

\* SnapshotInv is an invariant.
LEMMA Snapshots == Spec => [](IInv /\ LogOK /\ SnapshotInv)
  <1>1. Init => LogOK
    BY DEF Init, LogOK, Version
  <1> QED
    BY <1>1, SnapshotInit, SnapshotStep, Invariance, PTL DEF Spec

\* What is stored or answered was created before it was last updated, and
\* not in the future.
THEOREM TimesAreOrdered == Spec => []TimestampsOrdered
  <1>1. IInv /\ SnapshotInv => TimestampsOrdered
    <2> SUFFICES ASSUME IInv, SnapshotInv PROVE TimestampsOrdered
      OBVIOUS
    <2>1. ASSUME NEW r \in Requests PROVE SaneAt(response[r].body, clock)
      <3>1. response[r].body \in {result[r].body, NoDoc}
        BY DEF IInv, RequestOK, HistoryOK, NoResponse
      <3> QED
        BY <3>1 DEF SnapshotInv, TimesOK, SaneAt
    <2> QED
      BY <2>1 DEF SnapshotInv, TimesOK, SaneAt, TimestampsOrdered
  <1> QED
    BY <1>1, Snapshots, PTL

\* What a step does to a document that is there before and after it.
LEMMA Rewritten ==
    ASSUME IInv, SnapshotInv, [Next]_vars, NEW u \in Users,
           doc[u] # NoDoc, doc'[u] # NoDoc
    PROVE  \/ doc'[u] = doc[u]
           \/ \E q \in Requests, p \in Profile :
                Updates(q, p, doc[u]) /\ doc'[u] = Overwritten(q, doc[u], p)
           \/ /\ doc[u].extra = "none"
              /\ \E extra \in {"unknown", "malformed"} :
                   doc'[u] = [doc[u] EXCEPT !.extra = extra]
  <1>1. TypeOK
    BY DEF IInv
  <1>2. ASSUME NEW q \in Requests, NEW w \in wire[q], Applied(q, w)
        PROVE  \/ doc'[u] = doc[u]
               \/ \E p \in Profile : /\ Updates(q, p, doc[u])
                                     /\ doc'[u] = Overwritten(q, doc[u], p)
    <2>1. CASE call[q].uid # u
      BY <1>1, <1>2, <2>1 DEF Applied, Apply, TypeOK, Call
    <2>2. CASE call[q].uid = u
      <3>1. /\ call[q].op = "update" /\ w.seen = Version(u)
            /\ doc'[u] = Overwritten(q, doc[u], w.profile)
        BY <1>1, <1>2, <2>2 DEF Applied, Apply, TypeOK
      <3>2. w \in Pending(q) /\ RequestOK(q) /\ CurrentOK(q)
        BY DEF Pending, IInv, SnapshotInv
      <3>3. w.profile \in Profile /\ Updates(q, w.profile, doc[u])
        BY <2>2, <3>1, <3>2 DEF RequestOK, WritesOK, CurrentOK
      <3> QED
        BY <3>1, <3>3
    <2> QED
      BY <2>1, <2>2
  <1>3. ASSUME NEW v \in Users, ForeignWrite(v)
        PROVE  \/ doc'[u] = doc[u]
               \/ /\ doc[u].extra = "none"
                  /\ \E extra \in {"unknown", "malformed"} :
                   doc'[u] = [doc[u] EXCEPT !.extra = extra]
    <2>1. PICK extra \in {"unknown", "malformed"} :
            doc' = [doc EXCEPT ![v].extra = extra]
      BY <1>3 DEF ForeignWrite
    <2>2. CASE v = u
      <3>1. doc[u].extra = "none" /\ doc'[u] = [doc[u] EXCEPT !.extra = extra]
        BY <1>1, <1>3, <2>1, <2>2 DEF ForeignWrite, TypeOK
      <3> QED
        BY <3>1
    <2>3. CASE v # u
      BY <1>1, <2>1, <2>3 DEF TypeOK
    <2> QED
      BY <2>2, <2>3
  <1> QED
    BY <1>2, <1>3, HistoryStep

\* While a profile exists its creation time is fixed and its update time
\* never goes back, however late a commit arrives.
THEOREM UpdatedAtIsMonotone == Spec => UpdatedAtNeverRegresses
  <1>1. IInv /\ SnapshotInv /\ [Next]_vars =>
          [\A u \in Users : doc[u] # NoDoc /\ doc'[u] # NoDoc =>
             /\ doc'[u].created_at = doc[u].created_at
             /\ doc'[u].updated_at >= doc[u].updated_at]_vars
    <2> SUFFICES ASSUME IInv, SnapshotInv, [Next]_vars, NEW u \in Users,
                        doc[u] # NoDoc, doc'[u] # NoDoc
                 PROVE  /\ doc'[u].created_at = doc[u].created_at
                        /\ doc'[u].updated_at >= doc[u].updated_at
      OBVIOUS
    <2>1. doc[u] \in Document
      BY DEF IInv, TypeOK
    <2>2. doc[u].updated_at \in Int
      BY <2>1 DEF Document, Clock
    <2>3. ASSUME NEW q \in Requests, NEW p \in Profile, Updates(q, p, doc[u]),
                 doc'[u] = Overwritten(q, doc[u], p)
          PROVE  /\ doc'[u].created_at = doc[u].created_at
                 /\ doc'[u].updated_at >= doc[u].updated_at
      <3>1. /\ doc'[u].created_at = doc[u].created_at
            /\ doc'[u].updated_at = p.updated_at
        BY <2>1, <2>3 DEF Overwritten, Document
      <3> QED
        BY <2>3, <3>1 DEF Updates
    <2>4. ASSUME NEW extra \in {"unknown", "malformed"},
                 doc'[u] = [doc[u] EXCEPT !.extra = extra]
          PROVE  /\ doc'[u].created_at = doc[u].created_at
                 /\ doc'[u].updated_at = doc[u].updated_at
      BY <2>1, <2>4 DEF Document
    <2>5. CASE doc'[u] = doc[u]
      BY <2>2, <2>5
    <2>6. CASE \E q \in Requests, p \in Profile :
                 Updates(q, p, doc[u]) /\ doc'[u] = Overwritten(q, doc[u], p)
      BY <2>3, <2>6
    <2>7. CASE \E extra \in {"unknown", "malformed"} :
                 doc'[u] = [doc[u] EXCEPT !.extra = extra]
      BY <2>2, <2>4, <2>7
    <2> QED
      BY <2>5, <2>6, <2>7, Rewritten
  <1> QED
    BY <1>1, Snapshots, PTL DEF Spec, UpdatedAtNeverRegresses

\* No update disturbs what other programs stored in the document, or touches
\* one it cannot decode, even if it became so after the update read it.
THEOREM ForeignFieldsAreSafe == Spec => ForeignFieldsSurvive
  <1>1. IInv /\ SnapshotInv /\ [Next]_vars =>
          [\A u \in Users : doc[u] # NoDoc /\ doc'[u] # NoDoc =>
             /\ doc[u].extra # "none" => doc'[u].extra = doc[u].extra
             /\ doc[u].extra = "malformed" => doc'[u] = doc[u]]_vars
    <2> SUFFICES ASSUME IInv, SnapshotInv, [Next]_vars, NEW u \in Users,
                        doc[u] # NoDoc, doc'[u] # NoDoc
                 PROVE  /\ doc[u].extra # "none" => doc'[u].extra = doc[u].extra
                        /\ doc[u].extra = "malformed" => doc'[u] = doc[u]
      OBVIOUS
    <2>1. doc[u] \in Document
      BY DEF IInv, TypeOK
    <2>2. ASSUME NEW q \in Requests, NEW p \in Profile, Updates(q, p, doc[u]),
                 doc'[u] = Overwritten(q, doc[u], p)
          PROVE  doc'[u].extra = doc[u].extra /\ doc[u].extra # "malformed"
      BY <2>1, <2>2 DEF Overwritten, Document, Updates, Decodes
    <2> QED
      BY <2>2, Rewritten
  <1> QED
    BY <1>1, Snapshots, PTL DEF Spec, ForeignFieldsSurvive
-----------------------------------------------------------------------------
(* What a success acknowledges.                                            *)

\* The last write applied to r's document is one of r.
Newest(r) == Version(call[r].uid) \in Effects(r)

\* The backend acknowledged the write of r, or r answered with a success.
Acked(r) == \/ Writing(r) /\ reply[r].code = "OK"
            \/ Mutates(r) /\ result[r].status \in Successes

\* A serial number tells the writes of r apart, and those of a create are
\* all the same.
SerialsOK(r) ==
    \A w \in wire[r] :
        /\ w.n <= rpc[r].n
        /\ w.n = rpc[r].n => w = rpc[r]
        /\ call[r].op = "create" => w.profile = rpc[r].profile

Holds(r, d) == d # NoDoc /\ ToProfile(d) = rpc[r].profile

AckOK(r) ==
    /\ SerialsOK(r)
    /\ call[r].op = "create" /\ Newest(r) => Holds(r, doc[call[r].uid])
    /\ call[r].op = "delete" /\ Newest(r) => doc[call[r].uid] = NoDoc
    /\ call[r].op = "update" /\ Acked(r) =>
         /\ \A w \in wire[r] : w.seen < Version(call[r].uid)
         /\ Newest(r) => Holds(r, doc[call[r].uid])
    /\ /\ call[r].op \in {"create", "update"}
       /\ result[r].status \in Successes
       => result[r].body = rpc[r].profile

AckInv == \A r \in Requests : AckOK(r)

\* Whether the last write is one of r, after a step.
LEMMA NewestStep ==
    ASSUME IInv, NEW r \in Requests, NEW c \in Users, c = call[r].uid,
           call'[r].uid = c
    PROVE  /\ doc'[c] = doc[c] /\ log'[c] = log[c] =>
                /\ Newest(r)' <=> Newest(r)
                /\ Version(c)' = Version(c)
           /\ \A v \in Users : \A x : Appends(v, x) /\ (v # c \/ x # r) =>
                \/ /\ Newest(r)' <=> Newest(r)
                   /\ Version(c)' = Version(c)
                   /\ doc'[c] = doc[c]
                \/ ~Newest(r)' /\ Version(c)' = Version(c) + 1
  <1>1. TypeOK /\ Version(c) \in Nat
    BY DEF IInv, TypeOK, Version
  <1>2. Newest(r) <=> Version(c) \in 1..Version(c) /\ log[c][Version(c)] = r
    BY DEF Newest, Effects
  <1>3. Newest(r)' <=> Version(c)' \in 1..Version(c)' /\ log'[c][Version(c)'] = r
    BY DEF Newest, Effects
  <1>4. ASSUME doc'[c] = doc[c], log'[c] = log[c]
        PROVE  (Newest(r)' <=> Newest(r)) /\ Version(c)' = Version(c)
    BY <1>2, <1>3, <1>4 DEF Version
  <1>5. ASSUME NEW v \in Users, NEW x, Appends(v, x), v # c \/ x # r
        PROVE  \/ /\ Newest(r)' <=> Newest(r)
                  /\ Version(c)' = Version(c)
                  /\ doc'[c] = doc[c]
               \/ ~Newest(r)' /\ Version(c)' = Version(c) + 1
    <2>1. CASE v # c
      <3>1. doc'[c] = doc[c] /\ log'[c] = log[c]
        BY <1>1, <1>5, <2>1 DEF Appends, TypeOK
      <3> QED
        BY <1>4, <3>1
    <2>2. CASE v = c
      <3>1. Version(c)' = Version(c) + 1 /\ log'[c][Version(c) + 1] = x
        BY <1>1, <1>5, <2>2, AppendKeeps
      <3> QED
        BY <1>3, <1>5, <2>2, <3>1
    <2> QED
      BY <2>1, <2>2
  <1> QED
    BY <1>4, <1>5

\* A step in which r is not acknowledged, and which does not apply a write
\* of r, keeps what is known of r.
LEMMA AckFrame ==
    ASSUME IInv, NEW r \in Requests, AckOK(r),
           call'[r] = call[r], rpc'[r] = rpc[r], wire'[r] \subseteq wire[r],
           Acked(r)' => Acked(r),
           \/ result'[r] = result[r]
           \/ result'[r].status \notin Successes
           \/ result'[r].body = rpc[r].profile
           \/ call[r].op = "delete",
           \/ doc' = doc /\ log' = log
           \/ \E v \in Users : \E x :
                Appends(v, x) /\ (v # call[r].uid \/ x # r)
    PROVE  AckOK(r)'
  <1>1. TypeOK /\ call[r].uid \in Users
    BY DEF IInv, TypeOK, Call
  <1>2. PICK c \in Users : c = call[r].uid
    BY <1>1
  <1>3. Version(c) \in Nat
    BY <1>1 DEF TypeOK, Version
  <1>4. \/ /\ Newest(r)' <=> Newest(r)
           /\ Version(c)' = Version(c)
           /\ doc'[c] = doc[c]
        \/ ~Newest(r)' /\ Version(c)' = Version(c) + 1
    BY <1>2, NewestStep
  <1>5. Version(call[r].uid)' = Version(c)' /\ call'[r].uid = c
    BY <1>2 DEF Version
  <1>6. \A w \in wire[r] : w.seen \in Nat
    BY <1>1 DEF TypeOK, Write
  <1>7. SerialsOK(r)'
    BY DEF AckOK, SerialsOK
  <1>8. Newest(r)' => /\ Newest(r)
                      /\ Holds(r, doc[c])' <=> Holds(r, doc[c])
                      /\ doc'[c] = doc[c]
    BY <1>4 DEF Holds
  <1>9. call[r].op = "update" /\ Acked(r)' =>
          \A w \in wire'[r] : w.seen < Version(c)'
    BY <1>2, <1>3, <1>4, <1>6 DEF AckOK
  <1>10. /\ call[r].op \in {"create", "update"}
         /\ result'[r].status \in Successes
         => result'[r].body = rpc[r].profile
    BY DEF AckOK
  <1> QED
    BY <1>2, <1>5, <1>7, <1>8, <1>9, <1>10 DEF AckOK

\* A write that is sent gets a serial number of its own; if it is r's first,
\* or repeats the last one of a create, r's creates stay the same.
LEMMA SendSerials ==
    ASSUME TypeOK, NEW r \in Requests,
           NEW place \in {"create", "commit", "delete"},
           NEW p \in Profile \union {NoDoc}, NEW seen \in Nat,
           Send(r, place, p, seen), SerialsOK(r),
           \/ wire[r] = {}
           \/ call'[r] = call[r] /\ (call[r].op = "create" => p = rpc[r].profile)
    PROVE  /\ SerialsOK(r)'
           /\ pc'[r] = place /\ reply'[r].code # "OK" /\ rpc'[r].profile = p
  <1> DEFINE w == [n |-> rpc[r].n + 1, profile |-> p, seen |-> seen]
  <1>1. /\ pc' = [pc EXCEPT ![r] = place]
        /\ rpc' = [rpc EXCEPT ![r] = w]
        /\ wire' = [wire EXCEPT ![r] = @ \union {w}]
        /\ reply' = [reply EXCEPT ![r] = NoReply]
    BY DEF Send
  <1>2. w.n = rpc[r].n + 1 /\ w.profile = p
    OBVIOUS
  <1> HIDE DEF w
  <1>3. pc'[r] = place /\ rpc'[r] = w /\ wire'[r] = wire[r] \union {w}
        /\ reply'[r] = NoReply
    BY <1>1 DEF TypeOK
  <1>4. rpc[r].n \in Nat /\ \A v \in wire[r] : v.n \in Nat
    BY DEF TypeOK, Write
  <1>5. NoReply.code # "OK"
    BY DEF NoReply
  <1>6. SerialsOK(r)'
    BY <1>2, <1>3, <1>4 DEF SerialsOK
  <1> QED
    BY <1>2, <1>3, <1>5, <1>6

\* A step of r's handler.
LEMMA HandlerAck ==
    ASSUME IInv, NEW r \in Requests, AckOK(r), Handle(r) \/ Return(r)
    PROVE  AckOK(r)'
  <1>1. /\ TypeOK /\ RequestOK(r) /\ SerialsOK(r) /\ call[r].uid \in Users
        /\ call[r] \in Call
        /\ doc' = doc /\ log' = log
    BY HandlerMoves DEF IInv, TypeOK, Call, AckOK
  <1>2. PICK c \in Users : c = call[r].uid
    BY <1>1
  <1>3. ASSUME pc[r] = "idle"
        PROVE  wire[r] = {} /\ ~Newest(r) /\ result[r].status = 0
    BY <1>1, <1>3
    DEF RequestOK, PlaceOK, HistoryOK, Mutates, Newest
  <1>4. ASSUME NEW op \in {"create", "delete"}, pc[r] = "idle",
               call' = [call EXCEPT ![r].op = op],
               NEW p \in Profile \union {NoDoc},
               Send(r, op, p, 0), result' = result, response' = response
        PROVE  AckOK(r)'
    <2>1. call'[r].op = op /\ call'[r].uid = c
      BY <1>1, <1>2, <1>4 DEF TypeOK, Call
    <2>2. SerialsOK(r)' /\ reply'[r].code # "OK"
      BY <1>1, <1>3, <1>4, SendSerials
    <2>3. ~Newest(r)'
      BY <1>1, <1>2, <1>3, <1>4, <2>1, NewestStep
    <2>4. result'[r].status \notin Successes
      BY <1>3, <1>4 DEF Successes
    <2> QED
      BY <2>1, <2>2, <2>3, <2>4 DEF AckOK
  <1>5. CASE HandleCreate(r)
    <2>1. /\ pc[r] = "idle" /\ call' = [call EXCEPT ![r].op = "create"]
          /\ Send(r, "create", NewProfile(r), 0)
          /\ result' = result /\ response' = response
      BY <1>5 DEF HandleCreate
    <2> QED
      BY <1>1, <1>4, <2>1, NewProfileType
  <1>6. CASE HandleDelete(r)
    <2>1. /\ pc[r] = "idle" /\ call' = [call EXCEPT ![r].op = "delete"]
          /\ Send(r, "delete", NoDoc, 0)
          /\ result' = result /\ response' = response
      BY <1>6 DEF HandleDelete
    <2> QED
      BY <1>4, <2>1
  <1>7. ASSUME call'[r].op \in {"get", "update"}, call'[r].uid = c,
               pc[r] = "idle", wire' = wire, reply' = reply,
               pc'[r] \in {"get", "txget", "answering"},
               result'[r].status \in {0, 422}
        PROVE  AckOK(r)'
    <2>1. ~Acked(r)'
      BY <1>7 DEF Acked, Writing, Successes
    <2>2. SerialsOK(r)'
      BY <1>3, <1>7 DEF SerialsOK
    <2> QED
      BY <1>7, <2>1, <2>2 DEF AckOK, Successes
  <1>8. CASE HandleGet(r)
    <2>1. /\ call'[r].op = "get" /\ call'[r].uid = c /\ pc[r] = "idle"
          /\ pc'[r] = "get" /\ wire' = wire /\ reply' = reply
          /\ result' = result /\ response' = response
      BY <1>1, <1>2, <1>8 DEF HandleGet, TypeOK, Call
    <2> QED
      BY <1>3, <1>7, <2>1
  <1>9. ASSUME NEW F \in SUBSET Fields, HandleUpdate(r, F) PROVE AckOK(r)'
    <2>1. /\ call'[r].op = "update" /\ call'[r].uid = c /\ pc[r] = "idle"
          /\ wire' = wire /\ reply' = reply
      BY <1>1, <1>2, <1>9 DEF HandleUpdate, TypeOK, Call
    <2>2. pc'[r] \in {"txget", "answering"} /\ result'[r].status \in {0, 422}
      <3>1. CASE F = {}
        <4>1. Finish(r, <<>>, 422, NoDoc)
          BY <1>9, <3>1 DEF HandleUpdate
        <4> QED
          BY <1>1, <4>1 DEF Finish, TypeOK
      <3>2. CASE F # {}
        BY <1>1, <1>3, <1>9, <2>1, <3>2 DEF HandleUpdate, TypeOK
      <3> QED
        BY <3>1, <3>2
    <2> QED
      BY <1>7, <2>1, <2>2
  <1>10. ASSUME NEW events, NEW status, NEW body,
                Finish(r, events, status, body),
                call' = call, rpc' = rpc, wire' = wire,
                \/ status \notin Successes
                \/ call[r].op = "get"
                \/ /\ Writing(r) /\ reply[r].code = "OK"
                   /\ call[r].op = "delete" \/ body = rpc[r].profile
         PROVE  AckOK(r)'
    <2>1. pc'[r] = "answering" /\ result'[r].status = status
          /\ result'[r].body = body
      BY <1>1, <1>10 DEF Finish, TypeOK
    <2>2. CASE call[r].op = "get"
      <3>1. SerialsOK(r)'
        BY <1>1, <1>10 DEF SerialsOK
      <3> QED
        BY <1>10, <2>2, <3>1 DEF AckOK
    <2>3. CASE call[r].op # "get"
      <3>1. Acked(r)' => Acked(r)
        BY <1>10, <2>1, <2>3 DEF Acked, Writing
      <3>2. \/ result'[r].status \notin Successes
            \/ result'[r].body = rpc[r].profile
            \/ call[r].op = "delete"
        BY <1>10, <2>1, <2>3
      <3> QED
        BY <1>1, <1>10, <3>1, <3>2, AckFrame
    <2> QED
      BY <2>2, <2>3
  <1>11. ASSUME NEW err PROVE MapServiceError(err) \notin Successes
    BY ErrorTypes DEF Successes
  <1>12. CASE CreateReturn(r)
    <2> DEFINE err == CreateError(reply[r].code)
               status == IF err = {} THEN 201 ELSE MapServiceError(err)
               body == IF err = {} THEN rpc[r].profile ELSE NoDoc
    <2>1. /\ Finish(r, <<LogEvent(err)>>, status, body)
          /\ Writing(r)
          /\ call' = call /\ wire' = wire /\ rpc' = rpc
      BY <1>12 DEF CreateReturn, Writing
    <2>2. status \in Successes => reply[r].code = "OK" /\ body = rpc[r].profile
      <3>1. CASE err = {}
        <4>1. reply[r].code = "OK"
          BY <3>1 DEF CreateError, ClassifyDependencyError
        <4> QED
          BY <3>1, <4>1
      <3>2. CASE err # {}
        BY <1>11, <3>2
      <3> QED
        BY <3>1, <3>2
    <2> HIDE DEF err, status, body
    <2> QED
      BY <1>10, <2>1, <2>2
  <1>13. CASE GetReturn(r)
    <2>1. PICK status, body : Finish(r, <<>>, status, body)
      BY <1>13 DEF GetReturn
    <2>2. call[r].op = "get" /\ call' = call /\ wire' = wire /\ rpc' = rpc
      BY <1>1, <1>13 DEF GetReturn, RequestOK, PlaceOK
    <2> QED
      BY <1>10, <2>1, <2>2
  <1>14. ASSUME NEW code, FailUpdate(r, code),
                call' = call, rpc' = rpc, wire' = wire
         PROVE  AckOK(r)'
    <2> DEFINE err == UpdateError(code)
    <2>1. Finish(r, <<LogEvent(err)>>, MapServiceError(err), NoDoc)
      BY <1>14 DEF FailUpdate
    <2> HIDE DEF err
    <2> QED
      BY <1>10, <1>11, <1>14, <2>1
  <1>15. CASE UpdateClosure(r)
    <2>1. CASE reply[r].code = "OK" /\ Decodes(reply[r].doc)
      <3>1. /\ Send(r, "commit", Merged(r, reply[r].doc), reply[r].seen)
            /\ pc[r] = "txget" /\ call' = call
            /\ result' = result /\ response' = response
        BY <1>15, <2>1 DEF UpdateClosure
      <3>2. call[r].op = "update" /\ result[r].status = 0
        BY <1>1, <3>1 DEF RequestOK, PlaceOK, HistoryOK
      <3>3. reply[r].doc \in Document /\ reply[r].seen \in Nat
        BY <1>1, <2>1, <3>1 DEF RequestOK, SnapshotsOK, TypeOK, Reply
      <3>4. Merged(r, reply[r].doc) \in Profile
        BY <1>1, <3>3, MergedType
      <3>5. SerialsOK(r)' /\ reply'[r].code # "OK"
        BY <1>1, <3>1, <3>2, <3>3, <3>4, SendSerials
      <3>6. ~Acked(r)'
        BY <3>1, <3>2, <3>5 DEF Acked, Successes
      <3> QED
        BY <3>1, <3>2, <3>5, <3>6 DEF AckOK, Successes
    <2>2. CASE ~(reply[r].code = "OK" /\ Decodes(reply[r].doc))
      <3>1. PICK code : FailUpdate(r, code)
        BY <1>15, <2>2 DEF UpdateClosure
      <3>2. wire' = wire /\ rpc' = rpc /\ call' = call
        BY <1>15, <2>2 DEF UpdateClosure
      <3> QED
        BY <1>14, <3>1, <3>2
    <2> QED
      BY <2>1, <2>2
  <1>16. CASE UpdateRetry(r)
    <2>1. /\ pc'[r] = "txget" /\ pc[r] = "commit"
          /\ call' = call /\ rpc' = rpc /\ wire' = wire
          /\ result' = result /\ response' = response
      BY <1>1, <1>16 DEF UpdateRetry, TypeOK
    <2>2. Acked(r)' => Acked(r)
      BY <2>1 DEF Acked, Writing, Mutates
    <2> QED
      BY <1>1, <2>1, <2>2, AckFrame
  <1>17. CASE UpdateReturn(r)
    <2>1. Writing(r) /\ rpc' = rpc /\ wire' = wire /\ call' = call
      BY <1>17 DEF UpdateReturn, Writing
    <2>2. CASE reply[r].code = "OK"
      <3>1. Finish(r, <<"success">>, 200, rpc[r].profile)
        BY <1>17, <2>2 DEF UpdateReturn
      <3> QED
        BY <1>10, <2>1, <2>2, <3>1
    <2>3. CASE reply[r].code # "OK"
      <3>1. FailUpdate(r, reply[r].code)
        BY <1>17, <2>3 DEF UpdateReturn
      <3> QED
        BY <1>14, <2>1, <3>1
    <2> QED
      BY <2>2, <2>3
  <1>18. CASE DeleteReturn(r)
    <2> DEFINE err == DeleteError(reply[r].code)
               status == IF err = {} THEN 204 ELSE MapServiceError(err)
    <2>1. /\ Finish(r, <<LogEvent(err)>>, status, NoDoc)
          /\ Writing(r) /\ call[r].op = "delete"
          /\ call' = call /\ wire' = wire /\ rpc' = rpc
      BY <1>1, <1>18 DEF DeleteReturn, Writing, RequestOK, PlaceOK
    <2>2. status \in Successes => reply[r].code = "OK"
      <3>1. CASE err = {}
        BY <3>1 DEF DeleteError, ClassifyDependencyError
      <3>2. CASE err # {}
        BY <1>11, <3>2
      <3> QED
        BY <3>1, <3>2
    <2> HIDE DEF err, status
    <2> QED
      BY <1>10, <2>1, <2>2
  <1>19. CASE Respond(r)
    <2>1. /\ pc'[r] = "done" /\ wire' = wire /\ result' = result
          /\ call' = call /\ rpc' = rpc
      BY <1>1, <1>19 DEF Respond, TypeOK
    <2>2. Acked(r)' => Acked(r)
      BY <2>1 DEF Acked, Writing, Mutates
    <2> QED
      BY <1>1, <2>1, <2>2, AckFrame
  <1> QED
    BY <1>5, <1>6, <1>8, <1>9, <1>12, <1>13, <1>15, <1>16, <1>17, <1>18,
       <1>19
    DEF Handle, Return

\* The backend serves a write of r.
LEMMA ServeAck ==
    ASSUME IInv, NEW r \in Requests, AckOK(r), CurrentOK(r),
           NEW w \in wire[r], NEW code,
           wire' = [wire EXCEPT ![r] = @ \ {w}], Deliver(r, w, code),
           pc' = pc, call' = call, rpc' = rpc,
           result' = result, response' = response,
           \/ Applied(r, w)
           \/ code # "OK" /\ doc' = doc /\ log' = log
    PROVE  AckOK(r)'
  <1> DEFINE a == [NoReply EXCEPT !.code = code]
  <1>1. /\ TypeOK /\ RequestOK(r) /\ SerialsOK(r) /\ call[r].uid \in Users
        /\ w \in Pending(r) /\ wire'[r] \subseteq wire[r]
    BY DEF IInv, TypeOK, Call, AckOK, Pending
  <1>2. PICK c \in Users : c = call[r].uid
    BY <1>1
  <1>3. \/ reply'[r] = reply[r]
        \/ /\ reply[r] = NoReply /\ w.n = rpc[r].n
           /\ reply'[r].code = code
    <2>1. a.code = code
      BY DEF NoReply
    <2>2. \/ reply' = reply
          \/ /\ reply[r] = NoReply /\ w.n = rpc[r].n
             /\ reply' = [reply EXCEPT ![r] = a]
      BY DEF Deliver
    <2> HIDE DEF a
    <2> QED
      BY <1>1, <2>1, <2>2 DEF TypeOK
  <1>4. CASE code # "OK" /\ doc' = doc /\ log' = log
    <2>1. Acked(r)' => Acked(r)
      BY <1>3, <1>4 DEF Acked, Writing, Mutates
    <2> QED
      BY <1>1, <1>4, <2>1, AckFrame
  <1>5. CASE Applied(r, w)
    <2>1. SerialsOK(r)'
      BY <1>1 DEF SerialsOK
    <2>2. /\ Appends(c, r) /\ call'[r].uid = c
      BY <1>1, <1>2, <1>5 DEF Applied, Apply, Appends, TypeOK
    <2>3. Version(c)' = Version(c) + 1 /\ Version(c) \in Nat
      BY <1>1, <2>2, AppendKeeps
    <2>4. Version(call[r].uid)' = Version(c)'
      BY <1>2, <2>2 DEF Version
    <2>5. /\ call[r].op \in {"create", "update"}
          /\ result[r].status \in Successes
          => result[r].body = rpc[r].profile
      BY DEF AckOK
    <2>6. CASE call[r].op = "create"
      <3>1. doc'[c] = Stored(w.profile) /\ w.profile \in Profile
        BY <1>1, <1>2, <1>5, <2>6
        DEF Applied, Apply, TypeOK, RequestOK, WritesOK
      <3>2. Stored(w.profile) \in Document
        BY <3>1 DEF Stored, Profile, Document
      <3>3. ToProfile(Stored(w.profile)) = w.profile
        BY <3>1 DEF Stored, ToProfile, Profile
      <3>4. w.profile = rpc[r].profile
        BY <1>1, <2>6 DEF SerialsOK
      <3>5. Holds(r, doc[c])'
        BY <3>1, <3>2, <3>3, <3>4, NoDocAssumption DEF Holds
      <3> QED
        BY <1>2, <2>1, <2>2, <2>5, <2>6, <3>5 DEF AckOK
    <2>7. CASE call[r].op = "delete"
      <3>1. doc'[c] = NoDoc
        BY <1>1, <1>2, <1>5, <2>7 DEF Applied, Apply, TypeOK
      <3> QED
        BY <1>2, <2>1, <2>2, <2>7, <3>1 DEF AckOK
    <2>8. CASE call[r].op = "update"
      <3>1. /\ doc'[c] = Overwritten(r, doc[c], w.profile)
            /\ w.seen = Version(c)
            /\ w.profile \in Profile
            /\ \A f \in Fields : f \in call[r].fields => w.profile.data[f] = r
        BY <1>1, <1>2, <1>5, <2>8
        DEF Applied, Apply, TypeOK, RequestOK, WritesOK
      <3>2. doc[c] \in Document
        BY <1>1, <1>2, <2>8, <3>1 DEF RequestOK, SnapshotsOK, Existed, TypeOK
      <3>3. Updates(r, w.profile, doc[c])
        BY <1>1, <1>2, <2>8, <3>1 DEF CurrentOK
      <3>4. \A v \in wire'[r] : v.seen < Version(c)'
        <4> SUFFICES ASSUME NEW v \in wire'[r] PROVE v.seen < Version(c) + 1
          BY <2>3
        <4>1. v \in Pending(r)
          BY <1>1 DEF Pending
        <4>2. v.seen \in Nat /\ v.seen <= Version(c)
          BY <1>1, <1>2, <2>8, <4>1, PendingType
          DEF RequestOK, SnapshotsOK, Existed
        <4> QED
          BY <2>3, <4>2
      <3>5. ~Acked(r)
        BY <1>2, <2>3, <2>8, <3>1 DEF AckOK
      <3>6. Acked(r)' => w = rpc[r]
        BY <1>1, <1>3, <3>5 DEF Acked, Writing, Mutates, SerialsOK
      <3>7. Overwritten(r, doc[c], w.profile) \in Document
        BY <3>1, <3>2, StoredType
      <3>8. ToProfile(Overwritten(r, doc[c], w.profile)) = w.profile
        <4> DEFINE o == Overwritten(r, doc[c], w.profile)
        <4>1. o.data = [f \in Fields |-> IF f \in call[r].fields
                                          THEN w.profile.data[f]
                                          ELSE doc[c].data[f]]
              /\ o.created_at = doc[c].created_at
              /\ o.updated_at = w.profile.updated_at
          BY <3>2 DEF Overwritten, Document
        <4>2. w.profile.data \in [Fields -> Requests]
          BY <3>1 DEF Profile
        <4>3. o.data = w.profile.data
          BY <3>3, <4>1, <4>2 DEF Updates
        <4>4. w.profile = [data |-> w.profile.data,
                           created_at |-> w.profile.created_at,
                           updated_at |-> w.profile.updated_at]
          BY <3>1 DEF Profile
        <4> HIDE DEF o
        <4> QED
          BY <3>3, <4>1, <4>3, <4>4 DEF ToProfile, Updates, o
      <3>9. Acked(r)' => Holds(r, doc[c])'
        BY <3>1, <3>6, <3>7, <3>8, NoDocAssumption DEF Holds
      <3>10. result'[r].status \in Successes
               => result'[r].body = rpc'[r].profile
        BY <2>5, <2>8
      <3> QED
        BY <1>2, <2>1, <2>2, <2>4, <2>8, <3>4, <3>9, <3>10 DEF AckOK
    <2> QED
      BY <1>5, <2>6, <2>7, <2>8 DEF Applied
  <1> QED
    BY <1>4, <1>5

\* A step of the backend, of the transport or of a context, as r sees its own.
LEMMA BackendAck ==
    ASSUME IInv, NEW r \in Requests, AckOK(r), CurrentOK(r),
           \/ Serve(r) \/ Fault(r) \/ Resend(r) \/ Cancel(r) \/ Expire(r)
    PROVE  AckOK(r)'
  <1>1. TypeOK /\ RequestOK(r) /\ SerialsOK(r)
    BY DEF IInv, AckOK
  <1>2. CASE ServeCreate(r) \/ ServeCommit(r) \/ ServeDelete(r)
    <2>1. /\ pc' = pc /\ call' = call /\ rpc' = rpc
          /\ result' = result /\ response' = response
      BY <1>2 DEF ServeCreate, ServeCommit, ServeDelete
    <2>2. ASSUME NEW w \in wire[r], NEW code,
                 wire' = [wire EXCEPT ![r] = @ \ {w}], Deliver(r, w, code),
                 \/ Applied(r, w)
                 \/ code # "OK" /\ doc' = doc /\ log' = log
          PROVE  AckOK(r)'
      BY <2>1, <2>2, ServeAck
    <2>3. CASE ServeCreate(r)
      <3>1. PICK w \in wire[r] :
              /\ wire' = [wire EXCEPT ![r] = @ \ {w}]
              /\ IF doc[call[r].uid] = NoDoc
                   THEN Apply(r, Stored(w.profile)) /\ Deliver(r, w, "OK")
                   ELSE UNCHANGED <<doc, log>> /\ Deliver(r, w, "AlreadyExists")
        BY <2>3 DEF ServeCreate
      <3>2. call[r].op = "create"
        BY <2>3 DEF ServeCreate
      <3>3. CASE doc[call[r].uid] = NoDoc
        <4>1. Applied(r, w) /\ Deliver(r, w, "OK")
          BY <3>1, <3>2, <3>3 DEF Applied
        <4> QED
          BY <2>2, <3>1, <4>1
      <3>4. CASE doc[call[r].uid] # NoDoc
        <4>1. doc' = doc /\ log' = log /\ Deliver(r, w, "AlreadyExists")
          BY <3>1, <3>4
        <4> QED
          BY <2>2, <3>1, <4>1
      <3> QED
        BY <3>3, <3>4
    <2>4. CASE ServeCommit(r)
      <3>1. PICK w \in wire[r] :
              /\ wire' = [wire EXCEPT ![r] = @ \ {w}]
              /\ IF w.seen = Version(call[r].uid)
                   THEN /\ Apply(r, Overwritten(r, doc[call[r].uid], w.profile))
                        /\ Deliver(r, w, "OK")
                   ELSE UNCHANGED <<doc, log>> /\ Deliver(r, w, "Aborted")
        BY <2>4 DEF ServeCommit
      <3>2. call[r].op = "update"
        BY <2>4 DEF ServeCommit
      <3>3. CASE w.seen = Version(call[r].uid)
        <4>1. Applied(r, w) /\ Deliver(r, w, "OK")
          BY <3>1, <3>2, <3>3 DEF Applied
        <4> QED
          BY <2>2, <3>1, <4>1
      <3>4. CASE w.seen # Version(call[r].uid)
        <4>1. doc' = doc /\ log' = log /\ Deliver(r, w, "Aborted")
          BY <3>1, <3>4
        <4> QED
          BY <2>2, <3>1, <4>1
      <3> QED
        BY <3>3, <3>4
    <2>5. CASE ServeDelete(r)
      <3>1. PICK w \in wire[r] :
              /\ wire' = [wire EXCEPT ![r] = @ \ {w}]
              /\ IF doc[call[r].uid] # NoDoc
                   THEN Apply(r, NoDoc) /\ Deliver(r, w, "OK")
                   ELSE /\ UNCHANGED <<doc, log>>
                        /\ \E code \in {"FailedPrecondition", "NotFound"} :
                             Deliver(r, w, code)
        BY <2>5 DEF ServeDelete
      <3>2. call[r].op = "delete"
        BY <2>5 DEF ServeDelete
      <3>3. CASE doc[call[r].uid] # NoDoc
        <4>1. Applied(r, w) /\ Deliver(r, w, "OK")
          BY <3>1, <3>2, <3>3 DEF Applied
        <4> QED
          BY <2>2, <3>1, <4>1
      <3>4. CASE doc[call[r].uid] = NoDoc
        <4>1. PICK code \in {"FailedPrecondition", "NotFound"} :
                Deliver(r, w, code)
          BY <3>1, <3>4
        <4>2. doc' = doc /\ log' = log
          BY <3>1, <3>4
        <4> QED
          BY <2>2, <3>1, <4>1, <4>2
      <3> QED
        BY <3>3, <3>4
    <2> QED
      BY <1>2, <2>3, <2>4, <2>5
  <1>3. CASE ServeRead(r)
    <2>1. /\ pc[r] \in {"get", "txget"} /\ pc' = pc /\ call' = call
          /\ rpc' = rpc /\ wire' = wire
          /\ result' = result /\ response' = response
          /\ doc' = doc /\ log' = log
      BY <1>3 DEF ServeRead, backend
    <2>2. Acked(r)' => Acked(r)
      BY <2>1 DEF Acked, Writing, Mutates
    <2> QED
      BY <2>1, <2>2, AckFrame
  <1>4. ASSUME NEW code, code # "OK",
               reply' = [reply EXCEPT ![r] = [NoReply EXCEPT !.code = code]],
               wire'[r] \subseteq wire[r], doc' = doc, log' = log,
               pc' = pc, call' = call, rpc' = rpc,
               result' = result, response' = response
        PROVE  AckOK(r)'
    <2> DEFINE a == [NoReply EXCEPT !.code = code]
    <2>1. a.code = code
      BY DEF NoReply
    <2> HIDE DEF a
    <2>2. reply'[r].code # "OK"
      BY <1>1, <1>4, <2>1 DEF TypeOK, a
    <2>3. Acked(r)' => Acked(r)
      BY <1>4, <2>2 DEF Acked, Mutates
    <2> QED
      BY <1>4, <2>3, AckFrame
  <1>5. CASE Fault(r)
    <2>1. /\ pc' = pc /\ call' = call /\ rpc' = rpc
          /\ result' = result /\ response' = response
          /\ doc' = doc /\ log' = log
      BY <1>5 DEF Fault, backend
    <2>2. PICK code \in Faults :
            /\ reply' = [reply EXCEPT ![r] = [NoReply EXCEPT !.code = code]]
            /\ \/ wire' = [wire EXCEPT ![r] = @ \ {rpc[r]}]
               \/ wire' = wire
      BY <1>5 DEF Fault
    <2>3. code # "OK"
      BY ConstantsAssumption DEF GrpcFaults, RetriedCodes
    <2>4. wire'[r] \subseteq wire[r]
      BY <1>1, <2>2 DEF TypeOK
    <2> QED
      BY <1>4, <2>1, <2>2, <2>3, <2>4
  <1>6. CASE Cancel(r) \/ Expire(r)
    <2>1. PICK error \in ContextErrors : ContextDone(r, error)
      BY <1>6 DEF Cancel, Expire, ContextErrors
    <2>2. /\ reply' = [reply EXCEPT ![r] = [NoReply EXCEPT !.code = error]]
          /\ wire' = wire /\ pc' = pc /\ call' = call /\ rpc' = rpc
          /\ result' = result /\ response' = response
          /\ doc' = doc /\ log' = log
      BY <2>1 DEF ContextDone, backend
    <2>3. error # "OK"
      BY DEF ContextErrors
    <2> QED
      BY <1>4, <2>2, <2>3
  <1>7. CASE Resend(r)
    <2>1. /\ Writing(r) /\ call' = call
          /\ result' = result /\ response' = response
          /\ doc' = doc /\ log' = log
          /\ Send(r, pc[r], rpc[r].profile, rpc[r].seen)
      BY <1>7 DEF Resend, backend
    <2>2. /\ pc[r] \in {"create", "commit", "delete"}
          /\ result[r].status = 0
      BY <1>1, <2>1 DEF Writing, RequestOK, HistoryOK
    <2>3. rpc[r].profile \in Profile \union {NoDoc} /\ rpc[r].seen \in Nat
      BY <1>1 DEF TypeOK, Write
    <2>4. /\ SerialsOK(r)' /\ reply'[r].code # "OK"
          /\ rpc'[r].profile = rpc[r].profile
      BY <1>1, <2>1, <2>2, <2>3, SendSerials
    <2>5. ~Acked(r)'
      BY <2>1, <2>2, <2>4 DEF Acked, Successes
    <2>6. Newest(r)' <=> Newest(r)
      BY <2>1 DEF Newest, Effects, Version
    <2>7. Holds(r, doc[call[r].uid])' <=> Holds(r, doc[call[r].uid])
      BY <2>1, <2>4 DEF Holds
    <2> QED
      BY <2>1, <2>2, <2>4, <2>5, <2>6, <2>7 DEF AckOK, Successes
  <1> QED
    BY <1>2, <1>3, <1>5, <1>6, <1>7 DEF Serve

\* Every step keeps what is acknowledged.
LEMMA AckStep ==
    ASSUME IInv, SnapshotInv, AckInv, [Next]_vars
    PROVE  AckInv'
  <1> SUFFICES ASSUME NEW r \in Requests PROVE AckOK(r)'
    BY DEF AckInv
  <1>1. TypeOK /\ AckOK(r) /\ CurrentOK(r) /\ call[r].uid \in Users
    BY DEF IInv, TypeOK, Call, AckInv, SnapshotInv
  <1>2. ASSUME Untouched(r), doc' = doc, log' = log PROVE AckOK(r)'
    <2>1. Acked(r)' => Acked(r)
      BY <1>2 DEF Untouched, Acked, Writing, Mutates
    <2> QED
      BY <1>1, <1>2, <2>1, AckFrame DEF Untouched
  <1>3. ASSUME Untouched(r), NEW v \in Users, NEW x, Appends(v, x), x # r
        PROVE  AckOK(r)'
    <2>1. Acked(r)' => Acked(r)
      BY <1>3 DEF Untouched, Acked, Writing, Mutates
    <2> QED
      BY <1>1, <1>3, <2>1, AckFrame DEF Untouched
  <1>4. ASSUME NEW q \in Requests, Handle(q) \/ Return(q) PROVE AckOK(r)'
    BY <1>1, <1>2, <1>4, HandlerMoves, HandlerAck
  <1>5. ASSUME NEW q \in Requests,
               Serve(q) \/ Fault(q) \/ Resend(q) \/ Cancel(q) \/ Expire(q)
        PROVE  AckOK(r)'
    <2>1. CASE q = r
      BY <1>1, <1>5, <2>1, BackendAck
    <2>2. CASE q # r
      <3>1. Untouched(r)
        BY <1>5, <2>2, BackendMoves
      <3>2. CASE doc' = doc /\ log' = log
        BY <1>2, <3>1, <3>2
      <3>3. CASE ServeCreate(q) \/ ServeCommit(q) \/ ServeDelete(q)
        <4>1. \/ doc' = doc /\ log' = log
              \/ \E d : Apply(q, d)
          <5>1. CASE ServeCreate(q)
            BY <5>1 DEF ServeCreate
          <5>2. CASE ServeCommit(q)
            BY <5>2 DEF ServeCommit
          <5>3. CASE ServeDelete(q)
            BY <5>3 DEF ServeDelete
          <5> QED
            BY <3>3, <5>1, <5>2, <5>3
        <4>2. ASSUME NEW d, Apply(q, d)
              PROVE  Appends(call[q].uid, q) /\ call[q].uid \in Users
          BY <1>1, <4>2 DEF Apply, Appends, TypeOK, Call
        <4> QED
          BY <1>2, <1>3, <2>2, <3>1, <4>1, <4>2
      <3>4. CASE ServeRead(q) \/ Fault(q) \/ Resend(q) \/ Cancel(q) \/ Expire(q)
        BY <3>2, <3>4
        DEF ServeRead, Fault, Resend, Cancel, Expire, ContextDone, backend
      <3> QED
        BY <1>5, <3>3, <3>4 DEF Serve
    <2> QED
      BY <2>1, <2>2
  <1>6. ASSUME NEW u \in Users, ForeignWrite(u) PROVE AckOK(r)'
    <2>1. Appends(u, Foreign) /\ Untouched(r)
      BY <1>1, <1>6 DEF ForeignWrite, Appends, TypeOK, Untouched
    <2> QED
      BY <1>3, <2>1, ConstantsAssumption
  <1>7. CASE Crash
    <2>1. /\ pc'[r] = IF Running(r) THEN "crashed" ELSE pc[r]
          /\ doc' = doc /\ log' = log /\ call' = call /\ rpc' = rpc
          /\ wire' = wire /\ reply' = reply
          /\ result' = result /\ response' = response
      BY <1>7 DEF Crash, backend
    <2>2. Acked(r)' => Acked(r)
      BY <2>1 DEF Acked, Writing, Mutates
    <2> QED
      BY <1>1, <2>1, <2>2, AckFrame
  <1>8. CASE Tick \/ UNCHANGED vars
    <2>1. Untouched(r) /\ doc' = doc /\ log' = log
      BY <1>8 DEF Tick, vars, Untouched
    <2> QED
      BY <1>2, <2>1
  <1> QED
    BY <1>4, <1>5, <1>6, <1>7, <1>8 DEF Next, Quiet

\* The body of a successful answer is what was stored: until another write
\* follows, the document holds exactly the profile that was answered.
THEOREM AcknowledgedIsStored == Spec => []AcknowledgedWriteIsStored
  <1>1. Init => AckInv
    <2> SUFFICES ASSUME Init, NEW r \in Requests PROVE AckOK(r)
      BY DEF AckInv
    <2>1. /\ wire[r] = {} /\ call[r].op = "none"
          /\ result[r].status = 0
      BY DEF Init, NoResponse
    <2> QED
      BY <2>1 DEF AckOK, SerialsOK, Successes
  <1>2. IInv /\ LogOK /\ SnapshotInv /\ AckInv /\ [Next]_vars => AckInv'
    BY AckStep
  <1>3. IInv /\ AckInv => AcknowledgedWriteIsStored
    <2> SUFFICES ASSUME IInv, AckInv PROVE AcknowledgedWriteIsStored
      OBVIOUS
    <2>1. \A r \in Requests : response[r].status \in Successes
                             => response[r] = result[r]
      BY DEF IInv, RequestOK, HistoryOK, NoResponse, Successes
    <2> QED
      BY <2>1
      DEF AckInv, AckOK, Acked, Newest, Holds, AcknowledgedWriteIsStored,
          Mutates
  <1> QED
    BY <1>1, <1>2, <1>3, Snapshots, PTL DEF Spec
-----------------------------------------------------------------------------
(***************************************************************************)
(* The refinement of ProfileRegistry: handlers, transactions, lost replies *)
(* and crashes amount to an atomic map of profiles.                        *)
(***************************************************************************)

(* What the abstract state of a request is.                                *)

\* The status of a request, from where it is and what it answers.
StatusIs(r) ==
    /\ pc[r] = "idle" => StatusOf(r) = "idle"
    /\ Waiting(r) => StatusOf(r) = "pending"
    /\ result[r].status = 422 => StatusOf(r) = "invalid"
    /\ result[r].status # 422 =>
         /\ Running(r) => StatusOf(r) = "pending"
         /\ pc[r] = "crashed" => StatusOf(r) = "unknown"
         /\ pc[r] = "done" =>
              /\ result[r].status \in Successes => StatusOf(r) = "done"
              /\ result[r].status \in {404, 409} => StatusOf(r) = "refused"
              /\ result[r].status \notin Successes \union Refusals
                   => StatusOf(r) = "unknown"

\* A request has one status.
LEMMA StatusFacts ==
    ASSUME NEW r \in Requests, RequestOK(r)
    PROVE  StatusIs(r)
  <1>1. /\ result[r].status # 0 => pc[r] \in {"answering", "done", "crashed"}
        /\ response[r] = IF pc[r] = "done" THEN result[r] ELSE NoResponse
    BY DEF RequestOK, HistoryOK
  <1>2. CASE pc[r] = "idle"
    BY <1>1, <1>2 DEF StatusIs, StatusOf, Running, Waiting
  <1>3. CASE Waiting(r)
    BY <1>1, <1>3 DEF StatusIs, StatusOf, Running, Waiting
  <1>4. CASE pc[r] = "answering"
    BY <1>4 DEF StatusIs, StatusOf, Running, Waiting
  <1>5. CASE pc[r] = "crashed"
    BY <1>1, <1>5
    DEF StatusIs, StatusOf, Running, Waiting, NoResponse, Successes
  <1>6. CASE pc[r] = "done"
    BY <1>1, <1>6
    DEF StatusIs, StatusOf, Running, Waiting, Successes, Refusals
  <1>7. CASE ~Running(r) /\ pc[r] \notin {"idle", "crashed", "done"}
    BY <1>1, <1>7 DEF StatusIs, Running
  <1> QED
    BY <1>2, <1>3, <1>4, <1>5, <1>6, <1>7 DEF Running

\* So it has after a step.
LEMMA StatusFactsNext ==
    ASSUME NEW r \in Requests, RequestOK(r)'
    PROVE  StatusIs(r)'
  <1>1. /\ result'[r].status # 0 => pc'[r] \in {"answering", "done", "crashed"}
        /\ response'[r] = IF pc'[r] = "done" THEN result'[r] ELSE NoResponse
    BY DEF RequestOK, HistoryOK
  <1>2. CASE pc'[r] = "idle"
    BY <1>1, <1>2 DEF StatusIs, StatusOf, Running, Waiting
  <1>3. CASE Waiting(r)'
    BY <1>1, <1>3 DEF StatusIs, StatusOf, Running, Waiting
  <1>4. CASE pc'[r] = "answering"
    BY <1>4 DEF StatusIs, StatusOf, Running, Waiting
  <1>5. CASE pc'[r] = "crashed"
    BY <1>1, <1>5
    DEF StatusIs, StatusOf, Running, Waiting, NoResponse, Successes
  <1>6. CASE pc'[r] = "done"
    BY <1>1, <1>6
    DEF StatusIs, StatusOf, Running, Waiting, Successes, Refusals
  <1>7. CASE ~Running(r)' /\ pc'[r] \notin {"idle", "crashed", "done"}
    BY <1>1, <1>7 DEF StatusIs, Running
  <1> QED
    BY <1>2, <1>3, <1>4, <1>5, <1>6, <1>7 DEF Running

\* The abstract state of q does not change.
Same(q) ==
    /\ StatusOf(q)' = StatusOf(q)
    /\ VerdictOf(q)' = VerdictOf(q)
    /\ ViewOf(q)' = ViewOf(q)

Others(r) == \A q \in Requests : q # r => Same(q)
Data == \A u \in Users : DataOf(u)' = DataOf(u)

\* The verdict on q stays while its reply, its write and its effects do.
LEMMA VerdictStays ==
    ASSUME NEW q \in Requests, reply'[q] = reply[q], call'[q] = call[q],
           rpc'[q] = rpc[q], Effects(q)' = Effects(q)
    PROVE  VerdictOf(q)' = VerdictOf(q) /\ ViewOf(q)' = ViewOf(q)
  <1>1. VerdictOf(q)' = VerdictOf(q)
    BY DEF VerdictOf, ReadTaken, Mutates, Refusing
  <1>2. ViewOf(q)' = ViewOf(q)
    BY <1>1 DEF ViewOf, ReadTaken
  <1> QED
    BY <1>1, <1>2

\* The status of q stays while it stays where it is.
LEMMA StatusStays ==
    ASSUME NEW q \in Requests, pc'[q] = pc[q], result'[q] = result[q],
           response'[q] = response[q]
    PROVE  StatusOf(q)' = StatusOf(q)
  BY DEF StatusOf, Running, Waiting

\* Nothing else of a request is seen in its abstract state.
LEMMA UntouchedSame ==
    ASSUME NEW q \in Requests, Untouched(q), Effects(q)' = Effects(q)
    PROVE  Same(q)
  BY VerdictStays, StatusStays DEF Same, Untouched
-----------------------------------------------------------------------------
(* The actions of the registry, in terms of the store.                     *)

\* A step that changes no abstract state.
LEMMA Stutters ==
    ASSUME \A q \in Requests : Same(q), Data, call' = call
    PROVE  UNCHANGED Registry!vars
  BY DEF Same, Data, Registry!vars

\* A call begins.
LEMMA Submits ==
    ASSUME NEW r \in Requests, Others(r), Data,
           NEW op, NEW F,
           call' = [call EXCEPT ![r].op = op, ![r].fields = F],
           StatusOf(r) = "idle",
           StatusOf(r)' = IF op = "update" /\ F = {} THEN "invalid"
                                                     ELSE "pending",
           VerdictOf(r)' = VerdictOf(r), ViewOf(r)' = ViewOf(r)
    PROVE  Registry!Submit(r, op, F)
  BY DEF Others, Same, Data, Registry!Submit

\* A call is carried out.
LEMMA Takes ==
    ASSUME NEW r \in Requests, Others(r), call' = call,
           call[r].uid \in Users,
           StatusOf(r)' = StatusOf(r), StatusOf(r) \in {"pending", "unknown"},
           VerdictOf(r) = "none", VerdictOf(r)' = "done",
           Registry!Applies(r, DataOf(call[r].uid)),
           DataOf(call[r].uid)' = Registry!Outcome(r, DataOf(call[r].uid)),
           ViewOf(r)' = Registry!Outcome(r, DataOf(call[r].uid)),
           \A u \in Users : u # call[r].uid => DataOf(u)' = DataOf(u)
    PROVE  Registry!Take(r)
  BY DEF Others, Same, Registry!Take, Registry!Open

\* A call is found not to apply.
LEMMA Refuses ==
    ASSUME NEW r \in Requests, Others(r), Data, call' = call,
           call[r].uid \in Users,
           StatusOf(r)' = StatusOf(r), StatusOf(r) = "pending",
           VerdictOf(r) = "none", VerdictOf(r)' = "refused",
           ViewOf(r)' = ViewOf(r),
           ~Registry!Applies(r, DataOf(call[r].uid))
    PROVE  Registry!Refuse(r)
  BY DEF Others, Same, Data, Registry!Refuse

\* A verdict is lost.
LEMMA Loses ==
    ASSUME NEW r \in Requests, Others(r), Data, call' = call,
           StatusOf(r)' = StatusOf(r), StatusOf(r) = "pending",
           \/ VerdictOf(r) = "refused"
           \/ VerdictOf(r) = "done" /\ call[r].op = "get",
           VerdictOf(r)' = "none", ViewOf(r)' = NoDoc
    PROVE  Registry!Lose(r)
  BY DEF Others, Same, Data, Registry!Lose

\* A call is answered, as its verdict says or as unknown.
LEMMA Answers ==
    ASSUME NEW r \in Requests, Others(r), Data, call' = call,
           StatusOf(r) = "pending",
           VerdictOf(r)' = VerdictOf(r), ViewOf(r)' = ViewOf(r),
           \/ StatusOf(r)' = "unknown"
           \/ VerdictOf(r) # "none" /\ StatusOf(r)' = VerdictOf(r)
    PROVE  Registry!Answer(r) \/ Registry!AnswerUnknown(r)
  BY DEF Others, Same, Data, Registry!Answer, Registry!AnswerUnknown
-----------------------------------------------------------------------------
(* What the mapping needs to know: a call that was refused is over.        *)

RefusedOK(r) ==
    Mutates(r) /\ Refusing(r) => wire[r] = {} /\ Effects(r) = {}

\* A request that has not begun names no fields.
FreshOK(r) == pc[r] = "idle" => call[r].fields = {}

\* A delete sends no profile.
DeletesOK(r) == call[r].op = "delete" => rpc[r].profile = NoDoc

MapInv == \A r \in Requests : RefusedOK(r) /\ FreshOK(r) /\ DeletesOK(r)

\* The transport repeats nothing.
NoResends == MaxResends = 0

\* Then each request has one write at most.
LEMMA Once ==
    ASSUME NoResends, IInv, NEW r \in Requests
    PROVE  /\ TypeOK /\ RequestOK(r)
           /\ resent[r] = 0
           /\ call[r] \in Call /\ call[r].uid \in Users
           /\ wire[r] \subseteq {rpc[r]}
           /\ rpc[r] \in Write
           /\ reply[r] \in Reply
           /\ wire[r] # {} => /\ Mutates(r)
                              /\ Effects(r) = {}
                              /\ pc[r] \notin {"idle", "get", "txget"}
                              /\ result[r].status \notin Successes \union Refusals
  <1>1. TypeOK /\ RequestOK(r)
    BY DEF IInv
  <1>2. resent[r] = 0
    BY <1>1 DEF TypeOK, NoResends
  <1>3. OnceOK(r) /\ PlaceOK(r)
    BY <1>1 DEF RequestOK
  <1>4. call[r] \in Call /\ call[r].uid \in Users
        /\ rpc[r] \in Write /\ reply[r] \in Reply
    BY <1>1 DEF TypeOK, Call
  <1> QED
    BY <1>1, <1>2, <1>3, <1>4 DEF OnceOK, PlaceOK, Mutates

\* A step changes the effects of a request only if it had a write in flight.
LEMMA EffectsGrow ==
    ASSUME IInv, [Next]_vars, NEW r \in Requests, wire[r] = {}
    PROVE  Effects(r)' = Effects(r)
  <1>1. TypeOK /\ call'[r].uid = call[r].uid
    BY CallsStay DEF IInv
  <1>2. CASE doc' = doc /\ log' = log
    BY <1>1, <1>2 DEF Effects, Version
  <1>3. ASSUME NEW q \in Requests, NEW w \in wire[q], Applied(q, w)
        PROVE  Effects(r)' = Effects(r)
    <2>1. q # r /\ call[q].uid \in Users
      BY <1>1, <1>3 DEF TypeOK, Call
    <2>2. log' = [log EXCEPT ![call[q].uid] = Append(@, q)]
      BY <1>3 DEF Applied, Apply
    <2> QED
      BY <1>1, <2>1, <2>2, EffectsOfAppend
  <1>4. ASSUME NEW u \in Users, ForeignWrite(u)
        PROVE  Effects(r)' = Effects(r)
    BY <1>1, <1>4, EffectsOfAppend, ConstantsAssumption DEF ForeignWrite
  <1> QED
    BY <1>2, <1>3, <1>4, HistoryStep

\* A request that is over keeps its reply and sends nothing; so does one
\* whose process dies.
LEMMA Settles ==
    ASSUME IInv, [Next]_vars, NEW r \in Requests,
           pc'[r] \in {"answering", "done", "crashed"}
    PROVE  /\ reply'[r] = reply[r]
           /\ wire'[r] \subseteq wire[r]
           /\ call'[r] = call[r] \/ reply[r] = NoReply
  <1>1. TypeOK /\ RequestOK(r) /\ (pc[r] = "idle" => reply[r] = NoReply)
    BY DEF IInv, RequestOK, PlaceOK
  <1>2. ASSUME NEW q \in Requests, q # r,
               \/ Handle(q) \/ Return(q) \/ Serve(q) \/ Fault(q) \/ Resend(q)
               \/ Cancel(q) \/ Expire(q)
        PROVE  Untouched(r)
    BY <1>2, HandlerMoves, BackendMoves
  <1>3. CASE Handle(r)
    BY <1>1, <1>3
    DEF Handle, HandleCreate, HandleGet, HandleUpdate, HandleDelete, Send,
        Finish, TypeOK
  <1>4. CASE Return(r)
    BY <1>1, <1>4
    DEF Return, CreateReturn, GetReturn, UpdateClosure, UpdateRetry,
        UpdateReturn, DeleteReturn, Respond, FailUpdate, Send, Finish, TypeOK
  <1>5. CASE ServeCreate(r) \/ ServeCommit(r) \/ ServeDelete(r)
    <2>1. pc' = pc /\ call' = call
      BY <1>5 DEF ServeCreate, ServeCommit, ServeDelete
    <2>2. \E w \in wire[r] : \E code :
            wire' = [wire EXCEPT ![r] = @ \ {w}] /\ Deliver(r, w, code)
      <3>1. CASE ServeCreate(r)
        BY <3>1 DEF ServeCreate
      <3>2. CASE ServeCommit(r)
        BY <3>2 DEF ServeCommit
      <3>3. CASE ServeDelete(r)
        BY <3>3 DEF ServeDelete
      <3> QED
        BY <1>5, <3>1, <3>2, <3>3
    <2> QED
      BY <1>1, <2>1, <2>2 DEF Deliver, Writing, TypeOK
  <1>6. CASE ServeRead(r) \/ Fault(r) \/ Resend(r) \/ Cancel(r) \/ Expire(r)
    BY <1>1, <1>6
    DEF ServeRead, Fault, Resend, Cancel, Expire, ContextDone, Send, Waiting,
        Writing, TypeOK
  <1>7. CASE \/ \E u \in Users : ForeignWrite(u)
             \/ Crash \/ Tick \/ UNCHANGED vars
    BY <1>7 DEF ForeignWrite, Crash, Tick, vars
  <1> QED
    BY <1>2, <1>3, <1>4, <1>5, <1>6, <1>7 DEF Next, Serve, Quiet, Untouched

\* A call that was refused stays over.
LEMMA RefusedStep ==
    ASSUME NoResends, IInv, MapInv, [Next]_vars, NEW r \in Requests
    PROVE  RefusedOK(r)'
  <1> SUFFICES ASSUME Mutates(r)', Refusing(r)'
               PROVE  wire'[r] = {} /\ Effects(r)' = {}
    BY DEF RefusedOK
  <1>1. IInv' /\ RequestOK(r)' /\ TypeOK'
    BY StepOK DEF IInv
  <1>2. resent'[r] = 0 /\ OnceOK(r)' /\ PlaceOK(r)'
    BY <1>1 DEF TypeOK, NoResends, RequestOK
  <1>3. reply'[r].code \in {"AlreadyExists", "NotFound", "FailedPrecondition"}
    BY DEF Refusing
  <1>4. CASE Writing(r)'
    BY <1>2, <1>3, <1>4 DEF OnceOK
  <1>5. CASE pc'[r] \in {"idle", "txget"}
    BY <1>2, <1>5 DEF OnceOK
  <1>6. CASE pc'[r] = "get"
    BY <1>2, <1>6 DEF PlaceOK, Mutates
  <1>7. CASE pc'[r] \in {"answering", "done", "crashed"}
    <2>1. /\ reply'[r] = reply[r]
          /\ wire'[r] \subseteq wire[r]
          /\ call'[r] = call[r] \/ reply[r] = NoReply
      BY <1>7, Settles
    <2>2. call'[r] = call[r] /\ Refusing(r)
      BY <1>3, <2>1 DEF Refusing, NoReply
    <2>3. wire[r] = {} /\ Effects(r) = {}
      BY <2>2 DEF MapInv, RefusedOK, Mutates
    <2> QED
      BY <2>1, <2>3, EffectsGrow
  <1> QED
    BY <1>1, <1>4, <1>5, <1>6, <1>7 DEF TypeOK, Writing

\* A request that has not begun is left alone.
LEMMA FreshStep ==
    ASSUME IInv, MapInv, [Next]_vars, NEW r \in Requests
    PROVE  FreshOK(r)'
  <1> SUFFICES ASSUME pc'[r] = "idle" PROVE call'[r].fields = {}
    BY DEF FreshOK
  <1>1. TypeOK
    BY DEF IInv
  <1>2. ASSUME NEW q \in Requests,
               \/ Handle(q) \/ Return(q) \/ Serve(q) \/ Fault(q) \/ Resend(q)
               \/ Cancel(q) \/ Expire(q)
        PROVE  pc[r] = "idle" /\ call'[r] = call[r]
    <2>1. CASE q # r
      BY <1>2, <2>1, HandlerMoves, BackendMoves DEF Untouched
    <2>2. CASE q = r /\ (Handle(r) \/ Return(r))
      <3>1. CASE Handle(r)
        BY <1>1, <3>1
        DEF Handle, HandleCreate, HandleGet, HandleUpdate, HandleDelete, Send,
            Finish, TypeOK
      <3>2. CASE CreateReturn(r) \/ GetReturn(r) \/ UpdateRetry(r)
                 \/ DeleteReturn(r) \/ Respond(r)
        BY <1>1, <3>2
        DEF CreateReturn, GetReturn, UpdateRetry, DeleteReturn, Respond,
            Finish, TypeOK
      <3>3. CASE UpdateClosure(r) \/ UpdateReturn(r)
        BY <1>1, <3>3
        DEF UpdateClosure, UpdateReturn, FailUpdate, Send, Finish, TypeOK
      <3> QED
        BY <2>2, <3>1, <3>2, <3>3 DEF Return
    <2>3. CASE q = r /\ ~(Handle(r) \/ Return(r))
      BY <1>1, <1>2, <2>3
      DEF Serve, ServeCreate, ServeCommit, ServeDelete, ServeRead, Fault,
          Resend, Cancel, Expire, ContextDone, Send, Writing, TypeOK
    <2> QED
      BY <2>1, <2>2, <2>3, <1>2
  <1>3. CASE \/ \E u \in Users : ForeignWrite(u)
             \/ Crash \/ Tick \/ UNCHANGED vars
    BY <1>3 DEF ForeignWrite, Crash, Tick, vars, MapInv, FreshOK
  <1> QED
    BY <1>2, <1>3 DEF Next, Quiet, MapInv, FreshOK

\* A delete goes on without a profile.
LEMMA DeletesStep ==
    ASSUME IInv, MapInv, [Next]_vars, NEW r \in Requests
    PROVE  DeletesOK(r)'
  <1> SUFFICES ASSUME call'[r].op = "delete" PROVE rpc'[r].profile = NoDoc
    BY DEF DeletesOK
  <1>1. TypeOK /\ RequestOK(r) /\ DeletesOK(r)
    BY DEF IInv, MapInv
  <1>2. ASSUME NEW q \in Requests, q # r,
               \/ Handle(q) \/ Return(q) \/ Serve(q) \/ Fault(q) \/ Resend(q)
               \/ Cancel(q) \/ Expire(q)
        PROVE  Untouched(r)
    BY <1>2, HandlerMoves, BackendMoves
  <1>3. CASE HandleDelete(r)
    BY <1>1, <1>3 DEF HandleDelete, Send, TypeOK
  <1>4. ASSUME \/ HandleCreate(r) \/ HandleGet(r)
               \/ \E F \in SUBSET Fields : HandleUpdate(r, F)
        PROVE  FALSE
    BY <1>1, <1>4 DEF HandleCreate, HandleGet, HandleUpdate, TypeOK, Call
  <1>5. CASE Return(r)
    <2>1. CASE UpdateClosure(r)
      BY <1>1, <2>1 DEF UpdateClosure, RequestOK, PlaceOK
    <2>2. CASE ~UpdateClosure(r)
      BY <1>1, <1>5, <2>2
      DEF Return, CreateReturn, GetReturn, UpdateRetry, UpdateReturn,
          DeleteReturn, Respond, DeletesOK
    <2> QED
      BY <2>1, <2>2
  <1>6. CASE Resend(r)
    BY <1>1, <1>6 DEF Resend, Send, DeletesOK, TypeOK
  <1>7. CASE Serve(r) \/ Fault(r) \/ Cancel(r) \/ Expire(r)
    BY <1>1, <1>7
    DEF Serve, ServeCreate, ServeCommit, ServeDelete, ServeRead, Fault, Cancel,
        Expire, ContextDone, DeletesOK
  <1>8. CASE \/ \E u \in Users : ForeignWrite(u)
             \/ Crash \/ Tick \/ UNCHANGED vars
    BY <1>1, <1>8 DEF ForeignWrite, Crash, Tick, vars, DeletesOK
  <1> QED
    BY <1>1, <1>2, <1>3, <1>4, <1>5, <1>6, <1>7, <1>8
    DEF Next, Quiet, Handle, Untouched, DeletesOK

\* MapInv is an invariant.
LEMMA MapInvariant ==
    ASSUME NoResends
    PROVE  Spec => [](IInv /\ SnapshotInv /\ MapInv)
  <1>1. ASSUME Init PROVE MapInv
    <2>1. ASSUME NEW r \in Requests
          PROVE  call[r].op = "none" /\ call[r].fields = {}
      <3>1. PICK u \in Users :
              call[r] = [op |-> "none", uid |-> u, fields |-> {}]
        BY <1>1 DEF Init
      <3> QED
        BY <3>1
    <2> QED
      BY <2>1 DEF MapInv, RefusedOK, FreshOK, DeletesOK, Mutates
  <1>2. IInv /\ MapInv /\ [Next]_vars => MapInv'
    BY RefusedStep, FreshStep, DeletesStep DEF MapInv
  <1> QED
    BY <1>1, <1>2, Snapshots, PTL DEF Spec
-----------------------------------------------------------------------------
(* Every step is one of the registry, or none.                             *)

\* A request whose reply tells nothing and that had no effect has no
\* verdict.
LEMMA NoVerdict ==
    ASSUME NEW r \in Requests, Effects(r) = {} \/ ~Mutates(r),
           ~ReadTaken(r), ~Refusing(r)
    PROVE  VerdictOf(r) = "none" /\ ViewOf(r) = NoDoc
  <1>1. VerdictOf(r) = "none"
    BY DEF VerdictOf
  <1> QED
    BY <1>1 DEF ViewOf

\* Nor has it after a step.
LEMMA NoVerdictNext ==
    ASSUME NEW r \in Requests, Effects(r)' = {} \/ ~Mutates(r)',
           ~ReadTaken(r)', ~Refusing(r)'
    PROVE  VerdictOf(r)' = "none" /\ ViewOf(r)' = NoDoc
  <1>1. VerdictOf(r)' = "none"
    BY DEF VerdictOf
  <1> QED
    BY <1>1 DEF ViewOf

\* A step of r shows in its own abstract state only.
LEMMA OthersStay ==
    ASSUME IInv, NEW r \in Requests,
           \/ Handle(r) \/ Return(r) \/ Serve(r) \/ Fault(r) \/ Resend(r)
           \/ Cancel(r) \/ Expire(r)
    PROVE  Others(r)
  <1>1. TypeOK /\ call[r].uid \in Users /\ [Next]_vars
    BY DEF IInv, TypeOK, Call, Next
  <1>2. ASSUME NEW q \in Requests, q # r PROVE Same(q)
    <2>1. Untouched(q)
      BY <1>2, HandlerMoves, BackendMoves
    <2>2. \/ log' = log
          \/ log' = [log EXCEPT ![call[r].uid] = Append(@, r)]
      BY DEF Handle, HandleCreate, HandleGet, HandleUpdate, HandleDelete,
             Return, CreateReturn, GetReturn, UpdateClosure, UpdateRetry,
             UpdateReturn, DeleteReturn, Respond, Serve, ServeCreate,
             ServeCommit,
             ServeDelete, ServeRead, Fault, Resend, Cancel, Expire,
             ContextDone, Apply, backend
    <2>3. Effects(q)' = Effects(q)
      <3>1. call'[q].uid = call[q].uid
        BY <2>1 DEF Untouched
      <3>2. CASE log' = log
        BY <3>1, <3>2 DEF Effects, Version
      <3>3. CASE log' = [log EXCEPT ![call[r].uid] = Append(@, r)]
        <4>1. PICK u \in Users : u = call[r].uid
          BY <1>1
        <4>2. log' = [log EXCEPT ![u] = Append(@, r)]
          BY <3>3, <4>1
        <4>3. TypeOK /\ r # q
          BY <1>1, <1>2
        <4> QED
          BY <3>1, <4>2, <4>3, EffectsOfAppend
      <3> QED
        BY <2>2, <3>2, <3>3
    <2> QED
      BY <2>1, <2>3, UntouchedSame
  <1> QED
    BY <1>2 DEF Others

\* The data of documents stays while they do.
LEMMA DataStays ==
    ASSUME doc' = doc
    PROVE  Data
  BY DEF Data, DataOf

\* Setting no fields where there are none changes nothing.
LEMMA NoFieldsSet ==
    ASSUME NEW c \in [Requests -> Call], NEW r \in Requests, NEW op,
           c[r].fields = {}
    PROVE  [c EXCEPT ![r].op = op, ![r].fields = {}] = [c EXCEPT ![r].op = op]
  BY DEF Call

\* A handler that begins submits its call.
LEMMA HandleSubmits ==
    ASSUME NoResends, IInv, MapInv, NEW r \in Requests, Handle(r)
    PROVE  Registry!Next
  <1>1. [Next]_vars /\ Others(r)
    BY OthersStay DEF Next
  <1>2. TypeOK /\ RequestOK(r) /\ call[r] \in Call
    BY Once
  <1>3. pc[r] = "idle"
    BY DEF Handle, HandleCreate, HandleGet, HandleUpdate, HandleDelete
  <1>4. /\ reply[r] = NoReply /\ Effects(r) = {} /\ wire[r] = {}
        /\ call[r].fields = {} /\ result[r].status = 0
    BY <1>2, <1>3
    DEF RequestOK, PlaceOK, HistoryOK, Mutates, MapInv, FreshOK
  <1>5. Effects(r)' = {} /\ RequestOK(r)' /\ Data
    BY <1>1, <1>4, EffectsGrow, StepOK, HandlerMoves, DataStays DEF IInv
  <1>6. StatusOf(r) = "idle" /\ StatusIs(r)'
    BY <1>2, <1>3, <1>5, StatusFacts, StatusFactsNext DEF StatusIs
  <1>7. reply'[r] = NoReply
    BY <1>2, <1>4
    DEF Handle, HandleCreate, HandleGet, HandleUpdate, HandleDelete, Send,
        TypeOK
  <1>8. /\ VerdictOf(r)' = VerdictOf(r)
        /\ ViewOf(r)' = ViewOf(r)
    BY <1>4, <1>5, <1>7, NoVerdict, NoVerdictNext
    DEF Refusing, ReadTaken, NoReply
  <1>9. ASSUME NEW op \in {"create", "get", "delete"},
               call' = [call EXCEPT ![r].op = op], Waiting(r)'
        PROVE  Registry!Next
    <2>1. call' = [call EXCEPT ![r].op = op, ![r].fields = {}]
      BY <1>2, <1>4, <1>9, NoFieldsSet DEF TypeOK
    <2>2. StatusOf(r)' = "pending" /\ op # "update"
      BY <1>6, <1>9 DEF StatusIs
    <2>3. Registry!Submit(r, op, {})
      BY <1>1, <1>5, <1>6, <1>8, <2>1, <2>2, Submits
    <2> QED
      BY <2>3 DEF Registry!Next
  <1>10. CASE HandleCreate(r)
    BY <1>2, <1>9, <1>10 DEF HandleCreate, Send, Waiting, TypeOK
  <1>11. CASE HandleGet(r)
    BY <1>2, <1>9, <1>11 DEF HandleGet, Waiting, TypeOK
  <1>12. CASE HandleDelete(r)
    BY <1>2, <1>9, <1>12 DEF HandleDelete, Send, Waiting, TypeOK
  <1>13. ASSUME NEW F \in SUBSET Fields, HandleUpdate(r, F)
         PROVE  Registry!Next
    <2>1. call' = [call EXCEPT ![r].op = "update", ![r].fields = F]
      BY <1>13 DEF HandleUpdate
    <2>2. CASE F = {}
      <3>1. result'[r].status = 422
        BY <1>2, <1>13, <2>2 DEF HandleUpdate, Finish, TypeOK
      <3>2. StatusOf(r)' = "invalid"
        BY <1>6, <3>1 DEF StatusIs
      <3> QED
        BY <1>1, <1>5, <1>6, <1>8, <2>1, <2>2, <3>2, Submits DEF Registry!Next
    <2>3. CASE F # {}
      <3>1. pc'[r] = "txget"
        BY <1>2, <1>13, <2>3 DEF HandleUpdate, TypeOK
      <3>2. StatusOf(r)' = "pending"
        BY <1>6, <3>1 DEF StatusIs, Waiting
      <3> QED
        BY <1>1, <1>5, <1>6, <1>8, <2>1, <2>3, <3>2, Submits DEF Registry!Next
    <2> QED
      BY <2>2, <2>3
  <1> QED
    BY <1>10, <1>11, <1>12, <1>13 DEF Handle

\* A read succeeds on no code but OK, and says that there is no profile on
\* no code but the one that says so.
LEMMA ReadingCodes ==
    ASSUME NEW code \in Codes
    PROVE  /\ GetError(code) = {} => code = "OK"
           /\ MapServiceError(GetError(code)) \in {404, 409}
                => code = "NotFound"
  <1>1. /\ code # "ErrNotFound" /\ code # "ErrAlreadyExists"
        /\ code # "ErrUnavailable"
    BY DEF Codes, GrpcFaults, RetriedCodes, ContextErrors
  <1>2. /\ "ErrNotFound" \notin ClassifyDependencyError(code)
        /\ "ErrAlreadyExists" \notin ClassifyDependencyError(code)
        /\ ClassifyDependencyError(code) # {}
    BY <1>1 DEF ClassifyDependencyError
  <1>3. MapServiceError(ClassifyDependencyError(code)) \notin {404, 409}
    BY <1>2, Refused
  <1>4. MapServiceError({}) \notin {404, 409}
    BY DEF MapServiceError
  <1> QED
    BY <1>1, <1>2, <1>3, <1>4 DEF GetError

\* The error of a document that does not decode.
DecodeError == {"decode profile"}

\* It is an internal error, of a read and of an update.
LEMMA Decoding ==
    /\ DecodeError # {}
    /\ MapServiceError(DecodeError) = 500
    /\ MapServiceError(UpdateError("decode profile")) = 500
  <1>1. UpdateError("decode profile") = {"decode profile"}
    BY DEF UpdateError, ClassifyDependencyError
  <1>2. MapServiceError({"decode profile"}) = 500
    BY DEF MapServiceError
  <1>3. {"decode profile"} # {}
    OBVIOUS
  <1> QED
    BY <1>1, <1>2, <1>3 DEF DecodeError

\* A handler that is about to answer a success or a refusal has that verdict.
AnswerOK(r) ==
    pc[r] = "answering" =>
      /\ result[r].status \in Successes => VerdictOf(r) = "done"
      /\ result[r].status \in {404, 409} => VerdictOf(r) = "refused"

AnswerInv == \A r \in Requests : AnswerOK(r)

\* A store that returns to its handler changes no verdict.
LEMMA FinishKeeps ==
    ASSUME IInv, [Next]_vars, NEW r \in Requests,
           Others(r), Waiting(r),
           NEW status \in {200, 201, 204, 404, 409, 500, 503},
           NEW events, NEW body,
           Finish(r, events, status, body),
           doc' = doc, log' = log, call' = call, rpc' = rpc, reply' = reply,
           status \in Successes => VerdictOf(r) = "done",
           status \in {404, 409} => VerdictOf(r) = "refused"
    PROVE  UNCHANGED Registry!vars /\ AnswerOK(r)'
  <1>1. TypeOK /\ RequestOK(r) /\ RequestOK(r)'
    BY StepOK DEF IInv
  <1>2. pc'[r] = "answering" /\ result'[r].status = status
    BY <1>1 DEF Finish, TypeOK
  <1>3. StatusOf(r) = "pending" /\ StatusOf(r)' = "pending"
    BY <1>1, <1>2, StatusFacts, StatusFactsNext DEF StatusIs, Running
  <1>4. VerdictOf(r)' = VerdictOf(r) /\ ViewOf(r)' = ViewOf(r)
    <2>1. Effects(r)' = Effects(r)
      BY DEF Effects, Version
    <2> QED
      BY <2>1, VerdictStays
  <1>5. UNCHANGED Registry!vars
    BY <1>3, <1>4, DataStays, Stutters DEF Same, Others
  <1>6. AnswerOK(r)'
    BY <1>2, <1>4 DEF AnswerOK
  <1> QED
    BY <1>5, <1>6

\* Nor does an update that fails.
LEMMA FailKeeps ==
    ASSUME IInv, [Next]_vars, NEW r \in Requests,
           Others(r), Waiting(r), NEW code, FailUpdate(r, code),
           doc' = doc, log' = log, call' = call, rpc' = rpc, reply' = reply,
           MapServiceError(UpdateError(code)) \in {404, 409}
             => VerdictOf(r) = "refused"
    PROVE  UNCHANGED Registry!vars /\ AnswerOK(r)'
  <1> DEFINE status == MapServiceError(UpdateError(code))
             events == <<LogEvent(UpdateError(code))>>
  <1>1. Finish(r, events, status, NoDoc)
    BY DEF FailUpdate
  <1>2. status \in {404, 409, 500, 503}
    BY ErrorTypes
  <1>3. status \notin Successes
    BY <1>2 DEF Successes
  <1> HIDE DEF status, events
  <1>4. status \in {404, 409} => VerdictOf(r) = "refused"
    BY DEF status
  <1> QED
    BY <1>1, <1>2, <1>3, <1>4, FinishKeeps

\* What a request was told before it returns is its verdict.
LEMMA Verdicts ==
    ASSUME NoResends, IInv, MapInv, NEW r \in Requests, Waiting(r)
    PROVE  /\ reply[r].code = "OK" /\ pc[r] # "txget"
                => VerdictOf(r) = "done"
           /\ Refusing(r) => VerdictOf(r) = "refused"
  <1>1. RequestOK(r)
    BY DEF IInv
  <1>2. CASE reply[r].code = "OK" /\ pc[r] # "txget"
    BY <1>1, <1>2
    DEF RequestOK, HistoryOK, PlaceOK, VerdictOf, ReadTaken, Mutates, Waiting,
        Writing, Refusing
  <1>3. CASE Refusing(r)
    BY <1>3 DEF MapInv, RefusedOK, VerdictOf, ReadTaken, Refusing
  <1> QED
    BY <1>2, <1>3 DEF Refusing

\* A store that returns to its handler, or goes on with its transaction, is
\* not seen; its handler knows the verdict.
LEMMA ReturnKeeps ==
    ASSUME NoResends, IInv, MapInv, NEW r \in Requests, Return(r), ~Respond(r)
    PROVE  UNCHANGED Registry!vars /\ AnswerOK(r)'
  <1>1. [Next]_vars /\ Others(r)
    BY OthersStay DEF Next
  <1>2. /\ TypeOK /\ RequestOK(r) /\ RequestOK(r)'
        /\ reply[r].code \in Codes
    BY <1>1, StepOK DEF IInv, TypeOK, Reply
  <1>3. doc' = doc /\ log' = log /\ call' = call /\ Data
    BY DataStays
    DEF Return, CreateReturn, GetReturn, UpdateClosure, UpdateRetry,
        UpdateReturn, DeleteReturn, Respond, backend
  <1>4. CASE CreateReturn(r)
    <2> DEFINE err == CreateError(reply[r].code)
               status == IF err = {} THEN 201 ELSE MapServiceError(err)
               body == IF err = {} THEN rpc[r].profile ELSE NoDoc
    <2>1. /\ Finish(r, <<LogEvent(err)>>, status, body)
          /\ Waiting(r) /\ pc[r] = "create"
          /\ rpc' = rpc /\ reply' = reply
      BY <1>4 DEF CreateReturn, Waiting
    <2>2. /\ status \in {201, 404, 409, 500, 503}
          /\ status = 201 => reply[r].code = "OK"
          /\ status \in {404, 409} => Refusing(r)
      BY <1>2, ErrorTypes, RefusingCodes DEF Refusing
    <2> HIDE DEF err, status, body
    <2>3. /\ status \in {200, 201, 204, 404, 409, 500, 503}
          /\ status \in Successes => VerdictOf(r) = "done"
          /\ status \in {404, 409} => VerdictOf(r) = "refused"
      BY <2>1, <2>2, Verdicts DEF Successes
    <2> QED
      BY <1>1, <1>3, <2>1, <2>3, FinishKeeps
  <1>5. CASE DeleteReturn(r)
    <2> DEFINE err == DeleteError(reply[r].code)
               status == IF err = {} THEN 204 ELSE MapServiceError(err)
    <2>1. /\ Finish(r, <<LogEvent(err)>>, status, NoDoc)
          /\ Waiting(r) /\ pc[r] = "delete"
          /\ rpc' = rpc /\ reply' = reply
      BY <1>5 DEF DeleteReturn, Waiting
    <2>2. /\ status \in {204, 404, 409, 500, 503}
          /\ status = 204 => reply[r].code = "OK"
          /\ status \in {404, 409} => Refusing(r)
      BY <1>2, ErrorTypes, RefusingCodes DEF Refusing
    <2> HIDE DEF err, status
    <2>3. /\ status \in {200, 201, 204, 404, 409, 500, 503}
          /\ status \in Successes => VerdictOf(r) = "done"
          /\ status \in {404, 409} => VerdictOf(r) = "refused"
      BY <2>1, <2>2, Verdicts DEF Successes
    <2> QED
      BY <1>1, <1>3, <2>1, <2>3, FinishKeeps
  <1>6. CASE GetReturn(r)
    <2> DEFINE read == GetError(reply[r].code)
               err == IF read = {} /\ ~Decodes(reply[r].doc)
                        THEN DecodeError ELSE read
               status == IF err = {} THEN 200 ELSE MapServiceError(err)
               body == IF err = {} THEN ToProfile(reply[r].doc) ELSE NoDoc
    <2>1. /\ Finish(r, <<>>, status, body)
          /\ Waiting(r) /\ pc[r] = "get"
          /\ rpc' = rpc /\ reply' = reply
      BY <1>6 DEF GetReturn, Waiting, DecodeError
    <2>2. /\ status \in {200, 404, 409, 500, 503}
          /\ status = 200 => reply[r].code = "OK"
          /\ status \in {404, 409} => Refusing(r)
      <3>1. PICK code \in Codes : code = reply[r].code
        BY <1>2
      <3>2. CASE read = {} /\ ~Decodes(reply[r].doc)
        <4>1. err = DecodeError
          BY <3>2
        <4>2. DecodeError # {} /\ MapServiceError(DecodeError) = 500
          BY Decoding
        <4>3. status = 500
          BY <4>1, <4>2
        <4> QED
          BY <4>3
      <3>3. CASE read = {} /\ Decodes(reply[r].doc)
        <4>1. code = "OK"
          BY <3>1, <3>3, ReadingCodes
        <4>2. status = 200
          BY <3>3
        <4> QED
          BY <3>1, <4>1, <4>2
      <3>4. CASE read # {}
        <4>1. status = MapServiceError(GetError(code))
          BY <3>1, <3>4
        <4>2. status \in {404, 409, 500, 503}
          BY <4>1, ErrorTypes
        <4>3. status \in {404, 409} => code = "NotFound"
          BY <4>1, ReadingCodes
        <4> QED
          BY <3>1, <4>2, <4>3 DEF Refusing
      <3> QED
        BY <3>2, <3>3, <3>4
    <2> HIDE DEF read, err, status, body
    <2>3. /\ status \in {200, 201, 204, 404, 409, 500, 503}
          /\ status \in Successes => VerdictOf(r) = "done"
          /\ status \in {404, 409} => VerdictOf(r) = "refused"
      BY <2>1, <2>2, Verdicts DEF Successes
    <2> QED
      BY <1>1, <1>3, <2>1, <2>3, FinishKeeps
  <1>7. CASE UpdateReturn(r)
    <2>1. Waiting(r) /\ pc[r] = "commit" /\ rpc' = rpc /\ reply' = reply
      BY <1>7 DEF UpdateReturn, Waiting
    <2>2. CASE reply[r].code = "OK"
      <3>1. Finish(r, <<"success">>, 200, rpc[r].profile)
        BY <1>7, <2>2 DEF UpdateReturn
      <3>2. VerdictOf(r) = "done"
        BY <2>1, <2>2, Verdicts
      <3> QED
        BY <1>1, <1>3, <2>1, <3>1, <3>2, FinishKeeps
    <2>3. CASE reply[r].code # "OK"
      <3>1. FailUpdate(r, reply[r].code)
        BY <1>7, <2>3 DEF UpdateReturn
      <3>2. MapServiceError(UpdateError(reply[r].code)) \notin {404, 409}
        BY <1>2, RefusingCodes
      <3> QED
        BY <1>1, <1>3, <2>1, <3>1, <3>2, FailKeeps
    <2> QED
      BY <2>2, <2>3
  <1>8. ASSUME Waiting(r), Waiting(r)', Effects(r) = {}, call[r].op = "update",
               ~Refusing(r), reply'[r] = NoReply
        PROVE  UNCHANGED Registry!vars /\ AnswerOK(r)'
    <2>1. Effects(r)' = {} /\ call'[r] = call[r]
      BY <1>3, <1>8 DEF Effects, Version
    <2>2. /\ VerdictOf(r) = "none" /\ ViewOf(r) = NoDoc
          /\ VerdictOf(r)' = "none" /\ ViewOf(r)' = NoDoc
      BY <1>8, <2>1, NoVerdict, NoVerdictNext DEF ReadTaken, Refusing, NoReply
    <2>3. StatusOf(r) = "pending" /\ StatusOf(r)' = "pending"
      BY <1>2, <1>8, StatusFacts, StatusFactsNext DEF StatusIs
    <2>4. Same(r)
      BY <2>2, <2>3 DEF Same
    <2>5. AnswerOK(r)'
      BY <1>8 DEF AnswerOK, Waiting
    <2> QED
      BY <1>1, <1>3, <2>4, <2>5, Stutters DEF Others
  <1>9. CASE UpdateClosure(r)
    <2>1. Waiting(r) /\ pc[r] = "txget" /\ call[r].op = "update"
      BY <1>2, <1>9 DEF UpdateClosure, Waiting, RequestOK, PlaceOK
    <2>2. CASE reply[r].code = "OK" /\ Decodes(reply[r].doc)
      <3>1. Effects(r) = {}
        BY <2>1, Once DEF RequestOK, OnceOK
      <3>2. Waiting(r)' /\ reply'[r] = NoReply
        BY <1>2, <1>9, <2>2 DEF UpdateClosure, Send, Waiting, TypeOK
      <3> QED
        BY <1>8, <2>1, <2>2, <3>1, <3>2 DEF Refusing
    <2>3. CASE reply[r].code = "OK" /\ ~Decodes(reply[r].doc)
      <3>1. PICK code : code = "decode profile"
        OBVIOUS
      <3>2. FailUpdate(r, code) /\ rpc' = rpc /\ reply' = reply
        BY <1>9, <2>3, <3>1 DEF UpdateClosure
      <3>3. MapServiceError(UpdateError(code)) = 500
        BY <3>1, Decoding
      <3>4. MapServiceError(UpdateError(code)) \notin {404, 409}
        BY <3>3
      <3> QED
        BY <1>1, <1>3, <2>1, <3>2, <3>4, FailKeeps
    <2>4. CASE reply[r].code # "OK"
      <3>1. rpc' = rpc /\ reply' = reply
        BY <1>9, <2>4 DEF UpdateClosure
      <3>2. CASE reply[r].code = "NotFound"
        <4>1. FailUpdate(r, "ErrNotFound")
          BY <1>9, <2>4, <3>2 DEF UpdateClosure
        <4>2. VerdictOf(r) = "refused"
          BY <2>1, <3>2, Verdicts DEF Refusing
        <4> QED
          BY <1>1, <1>3, <2>1, <3>1, <4>1, <4>2, FailKeeps
      <3>3. CASE reply[r].code # "NotFound"
        <4>1. FailUpdate(r, reply[r].code)
          BY <1>9, <2>4, <3>3 DEF UpdateClosure
        <4> QED
          BY <1>1, <1>2, <1>3, <2>1, <3>1, <4>1, RefusingCodes, FailKeeps
      <3> QED
        BY <3>2, <3>3
    <2> QED
      BY <2>2, <2>3, <2>4
  <1>10. CASE UpdateRetry(r)
    <2>1. /\ Waiting(r) /\ Writing(r) /\ call[r].op = "update"
          /\ reply[r].code = "Aborted" /\ ~Refusing(r)
          /\ pc'[r] = "txget" /\ reply'[r] = NoReply
      BY <1>2, <1>10
      DEF UpdateRetry, Waiting, Writing, RequestOK, PlaceOK, Refusing, TypeOK
    <2>2. Effects(r) = {}
      BY <2>1, Once DEF RequestOK, OnceOK
    <2> QED
      BY <1>8, <2>1, <2>2 DEF Waiting
  <1> QED
    BY <1>4, <1>5, <1>6, <1>7, <1>9, <1>10 DEF Return

\* What a handler is about to answer stays its verdict until it answers.
LEMMA AnswerStep ==
    ASSUME NoResends, IInv, MapInv, AnswerInv, [Next]_vars, NEW r \in Requests
    PROVE  AnswerOK(r)'
  <1> SUFFICES ASSUME pc'[r] = "answering" PROVE AnswerOK(r)'
    BY DEF AnswerOK
  <1>1. TypeOK /\ RequestOK(r) /\ AnswerOK(r)
    BY DEF IInv, AnswerInv
  <1>2. ASSUME NEW q \in Requests, q # r,
               \/ Handle(q) \/ Return(q) \/ Serve(q) \/ Fault(q) \/ Resend(q)
               \/ Cancel(q) \/ Expire(q)
        PROVE  pc'[r] = pc[r] /\ result'[r] = result[r]
    BY <1>2, HandlerMoves, BackendMoves DEF Untouched
  <1>3. ASSUME Serve(r) \/ Fault(r) \/ Resend(r) \/ Cancel(r) \/ Expire(r)
        PROVE  pc'[r] = pc[r] /\ result'[r] = result[r]
    BY <1>1, <1>3
    DEF Serve, ServeRead, ServeCreate, ServeCommit, ServeDelete, Fault, Resend,
        Cancel, Expire, ContextDone, Send, TypeOK
  <1>4. ASSUME \/ \E u \in Users : ForeignWrite(u)
               \/ Crash \/ Tick \/ UNCHANGED vars
        PROVE  pc'[r] = pc[r] /\ result'[r] = result[r]
    BY <1>4 DEF ForeignWrite, Crash, Tick, vars
  <1>5. CASE Handle(r)
    <2>1. result'[r].status \in {0, 422}
      <3>1. pc[r] = "idle" /\ result[r].status = 0
        BY <1>1, <1>5
        DEF Handle, HandleCreate, HandleGet, HandleDelete, HandleUpdate,
            RequestOK, HistoryOK
      <3>2. CASE HandleCreate(r) \/ HandleGet(r) \/ HandleDelete(r)
        BY <3>1, <3>2 DEF HandleCreate, HandleGet, HandleDelete
      <3>3. ASSUME NEW F \in SUBSET Fields, HandleUpdate(r, F)
            PROVE  result'[r].status \in {0, 422}
        BY <1>1, <3>1, <3>3 DEF HandleUpdate, Finish, TypeOK
      <3> QED
        BY <1>5, <3>2, <3>3 DEF Handle
    <2> QED
      BY <2>1 DEF AnswerOK, Successes
  <1>6. CASE Return(r)
    <2>1. ~Respond(r)
      BY <1>1 DEF Respond, TypeOK
    <2> QED
      BY <1>6, <2>1, ReturnKeeps
  <1>7. CASE pc'[r] = pc[r] /\ result'[r] = result[r]
    <2>1. reply'[r] = reply[r] /\ call'[r] = call[r]
      BY <1>1, <1>7, Settles, CallsStay
    <2>2. result[r].status \in Successes \union Refusals
            => VerdictOf(r)' = VerdictOf(r)
      <3> SUFFICES ASSUME result[r].status \in Successes \union Refusals
                   PROVE  VerdictOf(r)' = VerdictOf(r)
        OBVIOUS
      <3>1. Effects(r)' = Effects(r)
        BY Once, EffectsGrow
      <3> QED
        BY <2>1, <3>1 DEF VerdictOf, ReadTaken, Mutates, Refusing
    <2> QED
      BY <1>1, <1>7, <2>2 DEF AnswerOK, Refusals
  <1> QED
    BY <1>2, <1>3, <1>4, <1>5, <1>6, <1>7 DEF Next, Quiet

\* MapInv and AnswerInv are invariants.
LEMMA AnswerInvariant ==
    ASSUME NoResends
    PROVE  Spec => [](IInv /\ SnapshotInv /\ MapInv /\ AnswerInv)
  <1>1. Init => AnswerInv
    BY DEF Init, AnswerInv, AnswerOK
  <1>2. IInv /\ MapInv /\ AnswerInv /\ [Next]_vars => AnswerInv'
    BY AnswerStep DEF AnswerInv
  <1> QED
    BY <1>1, <1>2, MapInvariant, PTL DEF Spec

\* The answer tells the verdict, or that the outcome is unknown.
LEMMA RespondAnswers ==
    ASSUME IInv, AnswerInv, NEW r \in Requests, Respond(r)
    PROVE  Registry!Next \/ UNCHANGED Registry!vars
  <1>1. [Next]_vars /\ Others(r)
    BY OthersStay DEF Next, Return
  <1>2. /\ TypeOK /\ StatusIs(r) /\ StatusIs(r)'
    BY <1>1, StepOK, StatusFacts, StatusFactsNext DEF IInv
  <1>3. /\ pc[r] = "answering" /\ pc'[r] = "done"
        /\ doc' = doc /\ log' = log /\ call' = call
        /\ rpc' = rpc /\ reply' = reply /\ result' = result
    BY <1>2 DEF Respond, TypeOK, backend
  <1>4. VerdictOf(r)' = VerdictOf(r) /\ ViewOf(r)' = ViewOf(r) /\ Data
    <2>1. Effects(r)' = Effects(r)
      BY <1>3 DEF Effects, Version
    <2> QED
      BY <1>3, <2>1, VerdictStays, DataStays
  <1>5. CASE result[r].status = 422
    <2>1. StatusOf(r)' = StatusOf(r)
      BY <1>2, <1>3, <1>5 DEF StatusIs
    <2> QED
      BY <1>1, <1>3, <1>4, <2>1, Stutters DEF Same, Others
  <1>6. CASE result[r].status # 422
    <2>1. StatusOf(r) = "pending"
      BY <1>2, <1>3, <1>6 DEF StatusIs, Running
    <2>2. \/ StatusOf(r)' = "unknown"
          \/ VerdictOf(r) # "none" /\ StatusOf(r)' = VerdictOf(r)
      <3>1. AnswerOK(r)
        BY DEF AnswerInv
      <3> QED
        BY <1>2, <1>3, <1>6, <3>1 DEF AnswerOK, StatusIs, Successes, Refusals
    <2>3. Registry!Answer(r) \/ Registry!AnswerUnknown(r)
      BY <1>1, <1>3, <1>4, <2>1, <2>2, Answers
    <2> QED
      BY <2>3 DEF Registry!Next
  <1> QED
    BY <1>5, <1>6

\* A pending call whose reply changes, and nothing else that is mapped.
Told(r, a) ==
    /\ reply'[r] = a
    /\ pc' = pc /\ call' = call /\ rpc' = rpc
    /\ result' = result /\ response' = response
    /\ doc' = doc /\ log' = log

\* Its status stays, and so do its effects and every document.
LEMMA ToldFrame ==
    ASSUME IInv, NEW r \in Requests, NEW a, Told(r, a), Waiting(r)
    PROVE  /\ StatusOf(r)' = StatusOf(r) /\ StatusOf(r) = "pending"
           /\ Effects(r)' = Effects(r)
           /\ Data
           /\ Mutates(r)' <=> Mutates(r)
  <1>1. StatusOf(r) = "pending"
    BY StatusFacts DEF IInv, StatusIs
  <1>2. Effects(r)' = Effects(r)
    BY DEF Told, Effects, Version
  <1>3. StatusOf(r)' = StatusOf(r)
    BY StatusStays DEF Told
  <1>4. Mutates(r)' <=> Mutates(r)
    BY DEF Told, Mutates
  <1> QED
    BY <1>1, <1>2, <1>3, <1>4, DataStays DEF Told

\* A failure that tells nothing loses a verdict that changed nothing.
LEMMA FailureLoses ==
    ASSUME IInv, NEW r \in Requests, NEW a, Told(r, a), Waiting(r), Others(r),
           a.code \notin {"OK", "AlreadyExists", "NotFound",
                          "FailedPrecondition"}
    PROVE  Registry!Next \/ UNCHANGED Registry!vars
  <1>1. /\ StatusOf(r)' = StatusOf(r) /\ StatusOf(r) = "pending"
        /\ Effects(r)' = Effects(r) /\ Data
        /\ Mutates(r)' <=> Mutates(r)
        /\ call' = call
    BY ToldFrame DEF Told
  <1>2. ~ReadTaken(r)' /\ ~Refusing(r)'
    BY DEF Told, ReadTaken, Refusing
  <1>3. CASE Mutates(r) /\ Effects(r) # {}
    <2>1. ~ReadTaken(r)
      BY <1>3 DEF ReadTaken, Mutates
    <2>2. VerdictOf(r) = "done" /\ VerdictOf(r)' = "done"
      BY <1>1, <1>3 DEF VerdictOf
    <2>3. ViewOf(r)' = ViewOf(r)
      BY <1>2, <2>1, <2>2 DEF ViewOf, Told
    <2> QED
      BY <1>1, <2>2, <2>3, Stutters DEF Same, Others
  <1>4. CASE ~(Mutates(r) /\ Effects(r) # {})
    <2>1. VerdictOf(r)' = "none" /\ ViewOf(r)' = NoDoc
      BY <1>1, <1>2, <1>4, NoVerdictNext
    <2>2. CASE ReadTaken(r)
      <3>1. VerdictOf(r) = "done" /\ call[r].op = "get"
        BY <2>2 DEF VerdictOf, ReadTaken
      <3>2. Registry!Lose(r)
        BY <1>1, <2>1, <3>1, Loses
      <3> QED
        BY <3>2 DEF Registry!Next
    <2>3. CASE ~ReadTaken(r) /\ Refusing(r)
      <3>1. VerdictOf(r) = "refused"
        BY <1>4, <2>3 DEF VerdictOf
      <3>2. Registry!Lose(r)
        BY <1>1, <2>1, <3>1, Loses
      <3> QED
        BY <3>2 DEF Registry!Next
    <2>4. CASE ~ReadTaken(r) /\ ~Refusing(r)
      <3>1. VerdictOf(r) = "none" /\ ViewOf(r) = NoDoc
        BY <1>4, <2>4, NoVerdict
      <3> QED
        BY <1>1, <2>1, <3>1, Stutters DEF Same, Others
    <2> QED
      BY <2>2, <2>3, <2>4
  <1> QED
    BY <1>3, <1>4

\* A reply that refuses a call refuses it at a moment when it does not apply.
LEMMA RefusalRefuses ==
    ASSUME IInv, NEW r \in Requests, NEW a, Told(r, a), Waiting(r), Others(r),
           reply[r] = NoReply, Effects(r) = {} \/ ~Mutates(r),
           a.code \in {"AlreadyExists", "NotFound", "FailedPrecondition"},
           ~Registry!Applies(r, DataOf(call[r].uid))
    PROVE  Registry!Next
  <1>1. /\ StatusOf(r)' = StatusOf(r) /\ StatusOf(r) = "pending"
        /\ Effects(r)' = Effects(r) /\ Data
        /\ Mutates(r)' <=> Mutates(r)
        /\ call' = call /\ call[r].uid \in Users
    BY ToldFrame DEF Told, IInv, TypeOK, Call
  <1>2. VerdictOf(r) = "none" /\ ViewOf(r) = NoDoc
    BY NoVerdict DEF ReadTaken, Refusing, NoReply
  <1>3. Refusing(r)' /\ ~ReadTaken(r)'
    BY DEF Told, Refusing, ReadTaken
  <1>4. VerdictOf(r)' = "refused"
    BY <1>1, <1>3 DEF VerdictOf
  <1>5. ViewOf(r)' = NoDoc
    BY <1>3, <1>4 DEF ViewOf
  <1>6. Registry!Refuse(r)
    BY <1>1, <1>2, <1>4, <1>5, Refuses
  <1> QED
    BY <1>6 DEF Registry!Next

\* The write of r is applied, and the backend says so if r still asks.
LEMMA ApplyTakes ==
    ASSUME NoResends, IInv, MapInv, NEW r \in Requests, Others(r),
           wire[r] # {}, [Next]_vars,
           pc' = pc, call' = call, rpc' = rpc,
           result' = result, response' = response,
           NEW d, Apply(r, d),
           Registry!Applies(r, DataOf(call[r].uid)),
           NEW data, data = IF d = NoDoc THEN NoDoc ELSE d.data,
           data = Registry!Outcome(r, DataOf(call[r].uid)),
           data = IF rpc[r].profile # NoDoc THEN rpc[r].profile.data
                                            ELSE NoDoc
    PROVE  Registry!Next
  <1>1. /\ TypeOK /\ RequestOK(r)
        /\ Mutates(r) /\ Effects(r) = {} /\ call[r].uid \in Users
        /\ pc[r] \notin {"idle", "get", "txget"}
        /\ result[r].status \notin Successes \union Refusals
    BY Once
  <1>2. VerdictOf(r) = "none"
    <2>1. ~Refusing(r) /\ ~ReadTaken(r)
      BY <1>1 DEF MapInv, RefusedOK, ReadTaken, Mutates
    <2> QED
      BY <1>1, <2>1, NoVerdict
  <1>3. StatusOf(r)' = StatusOf(r) /\ StatusOf(r) \in {"pending", "unknown"}
    <2>1. StatusIs(r)
      BY <1>1, StatusFacts
    <2>2. pc[r] \in {"done", "crashed"} \/ Running(r)
      BY <1>1 DEF TypeOK, Running, Waiting
    <2>3. result[r].status # 422
      BY <1>1 DEF Refusals
    <2> QED
      BY <1>1, <2>1, <2>2, <2>3, StatusStays DEF StatusIs
  <1>4. PICK c \in Users : c = call[r].uid
    BY <1>1
  <1>5. /\ log' = [log EXCEPT ![c] = Append(@, r)]
        /\ doc' = [doc EXCEPT ![c] = d]
    BY <1>4 DEF Apply
  <1>6. Effects(r)' # {}
    <2>1. Effects(r)' = Effects(r) \union {Version(c) + 1}
      BY <1>1, <1>4, <1>5, EffectsOfAppend
    <2> QED
      BY <2>1
  <1>7. Mutates(r)' /\ ~ReadTaken(r)'
    BY <1>1 DEF Mutates, ReadTaken
  <1>8. VerdictOf(r)' = "done"
    BY <1>6, <1>7 DEF VerdictOf
  <1>9. ViewOf(r)' = data
    BY <1>7, <1>8 DEF ViewOf
  <1>10. /\ DataOf(c)' = data
         /\ \A u \in Users : u # c => DataOf(u)' = DataOf(u)
    BY <1>1, <1>5 DEF TypeOK, DataOf
  <1>11. Registry!Take(r)
    <2>1. DataOf(call[r].uid)' = data
      BY <1>4, <1>10 DEF DataOf
    <2> QED
      BY <1>1, <1>2, <1>3, <1>4, <1>8, <1>9, <1>10, <2>1, Takes
  <1> QED
    BY <1>11 DEF Registry!Next

\* A write that is served and not applied tells its request so, if it still
\* asks.
LEMMA Unapplied ==
    ASSUME NoResends, IInv, MapInv, NEW r \in Requests, Others(r),
           pc' = pc, call' = call, rpc' = rpc,
           result' = result, response' = response,
           doc' = doc, log' = log,
           NEW w \in wire[r], NEW code, Deliver(r, w, code),
           \/ code = "Aborted"
           \/ /\ code \in {"AlreadyExists", "NotFound", "FailedPrecondition"}
              /\ ~Registry!Applies(r, DataOf(call[r].uid))
    PROVE  Registry!Next \/ UNCHANGED Registry!vars
  <1>1. /\ TypeOK /\ Effects(r) = {}
    BY Once
  <1>2. CASE reply' = reply
    <2>1. Effects(r)' = Effects(r)
      BY DEF Effects, Version
    <2>2. Same(r)
      BY <1>2, <2>1, VerdictStays, StatusStays DEF Same
    <2> QED
      BY <2>2, DataStays, Stutters DEF Others
  <1>3. CASE reply' # reply
    <2> DEFINE a == [NoReply EXCEPT !.code = code]
    <2>1. Writing(r) /\ reply[r] = NoReply /\ reply' = [reply EXCEPT ![r] = a]
      BY <1>3 DEF Deliver
    <2>2. a.code = code
      BY DEF NoReply
    <2> HIDE DEF a
    <2>3. Told(r, a) /\ Waiting(r)
      BY <1>1, <2>1 DEF Told, TypeOK, Writing, Waiting
    <2>4. CASE code = "Aborted"
      <3>1. a.code \notin {"OK", "AlreadyExists", "NotFound",
                           "FailedPrecondition"}
        BY <2>2, <2>4
      <3> QED
        BY <2>3, <3>1, FailureLoses
    <2>5. CASE code # "Aborted"
      BY <1>1, <2>1, <2>2, <2>3, <2>5, RefusalRefuses
    <2> QED
      BY <2>4, <2>5
  <1> QED
    BY <1>2, <1>3

\* What the store holds for u, as the registry sees it.
LEMMA Absent ==
    ASSUME TypeOK, NEW u \in Users
    PROVE  DataOf(u) = NoDoc <=> doc[u] = NoDoc
  <1>1. CASE doc[u] # NoDoc
    <2>1. doc[u].data \in [Fields -> Requests]
      BY <1>1 DEF TypeOK, Document
    <2> QED
      BY <1>1, <2>1, NoDocAssumption DEF DataOf
  <1> QED
    BY <1>1 DEF DataOf

\* A create is carried out when there is no profile, and refused when there
\* is one.
LEMMA CreateServed ==
    ASSUME NoResends, IInv, MapInv, NEW r \in Requests, ServeCreate(r)
    PROVE  Registry!Next \/ UNCHANGED Registry!vars
  <1>1. [Next]_vars /\ Others(r)
    BY OthersStay DEF Next, Serve
  <1>2. /\ pc' = pc /\ call' = call /\ rpc' = rpc
        /\ result' = result /\ response' = response
        /\ call[r].op = "create"
    BY DEF ServeCreate
  <1>3. PICK w \in wire[r] :
          IF doc[call[r].uid] = NoDoc
            THEN Apply(r, Stored(w.profile)) /\ Deliver(r, w, "OK")
            ELSE UNCHANGED <<doc, log>> /\ Deliver(r, w, "AlreadyExists")
    BY DEF ServeCreate
  <1>4. /\ TypeOK /\ call[r].uid \in Users
        /\ w = rpc[r] /\ wire[r] # {} /\ RequestOK(r)
    BY Once
  <1>5. /\ w.profile \in Profile
        /\ \A f \in Fields : w.profile.data[f] = r
    BY <1>2, <1>4 DEF RequestOK, WritesOK, Pending
  <1>6. DataOf(call[r].uid) = NoDoc <=> doc[call[r].uid] = NoDoc
    BY <1>4, Absent
  <1>7. CASE doc[call[r].uid] = NoDoc
    <2> DEFINE d == Stored(w.profile)
               data == w.profile.data
    <2>1. Apply(r, d)
      BY <1>3, <1>7
    <2>2. Registry!Applies(r, DataOf(call[r].uid))
      BY <1>2, <1>6, <1>7 DEF Registry!Applies
    <2>3. data = [f \in Fields |-> r]
      BY <1>5 DEF Profile
    <2>4. data = Registry!Outcome(r, DataOf(call[r].uid))
      BY <1>2, <2>3 DEF Registry!Outcome
    <2>5. d # NoDoc /\ d.data = data
      <3>1. d \in Document
        BY <1>5 DEF Stored, Profile, Document
      <3> QED
        BY <3>1, NoDocAssumption DEF Stored
    <2>6. rpc[r].profile # NoDoc /\ rpc[r].profile.data = data
      BY <1>4, <1>5, NoDocAssumption
    <2> HIDE DEF d, data
    <2> QED
      BY <1>1, <1>2, <1>4, <2>1, <2>2, <2>4, <2>5, <2>6, ApplyTakes
  <1>8. CASE doc[call[r].uid] # NoDoc
    <2>1. doc' = doc /\ log' = log /\ Deliver(r, w, "AlreadyExists")
      BY <1>3, <1>8
    <2>2. ~Registry!Applies(r, DataOf(call[r].uid))
      BY <1>2, <1>6, <1>8 DEF Registry!Applies
    <2> QED
      BY <1>1, <1>2, <2>1, <2>2, Unapplied
  <1> QED
    BY <1>7, <1>8

\* A delete is carried out when there is a profile.
LEMMA DeleteServed ==
    ASSUME NoResends, IInv, MapInv, NEW r \in Requests, ServeDelete(r)
    PROVE  Registry!Next \/ UNCHANGED Registry!vars
  <1>1. [Next]_vars /\ Others(r)
    BY OthersStay DEF Next, Serve
  <1>2. /\ pc' = pc /\ call' = call /\ rpc' = rpc
        /\ result' = result /\ response' = response
        /\ call[r].op = "delete"
    BY DEF ServeDelete
  <1>3. PICK w \in wire[r] :
          IF doc[call[r].uid] # NoDoc
            THEN Apply(r, NoDoc) /\ Deliver(r, w, "OK")
            ELSE /\ UNCHANGED <<doc, log>>
                 /\ \E code \in {"FailedPrecondition", "NotFound"} :
                      Deliver(r, w, code)
    BY DEF ServeDelete
  <1>4. /\ TypeOK /\ call[r].uid \in Users /\ w = rpc[r] /\ wire[r] # {}
    BY Once
  <1>5. DataOf(call[r].uid) = NoDoc <=> doc[call[r].uid] = NoDoc
    BY <1>4, Absent
  <1>6. CASE doc[call[r].uid] # NoDoc
    <2>1. Apply(r, NoDoc)
      BY <1>3, <1>6
    <2>2. Registry!Applies(r, DataOf(call[r].uid))
      BY <1>2, <1>5, <1>6 DEF Registry!Applies
    <2>3. NoDoc = Registry!Outcome(r, DataOf(call[r].uid))
      BY <1>2 DEF Registry!Outcome
    <2>4. rpc[r].profile = NoDoc
      BY <1>2, <1>4 DEF MapInv, DeletesOK
    <2> QED
      BY <1>1, <1>2, <1>4, <2>1, <2>2, <2>3, <2>4, ApplyTakes
  <1>7. CASE doc[call[r].uid] = NoDoc
    <2>1. PICK code \in {"FailedPrecondition", "NotFound"} :
            doc' = doc /\ log' = log /\ Deliver(r, w, code)
      BY <1>3, <1>7
    <2>2. ~Registry!Applies(r, DataOf(call[r].uid))
      BY <1>2, <1>5, <1>7 DEF Registry!Applies
    <2> QED
      BY <1>1, <1>2, <2>1, <2>2, Unapplied
  <1> QED
    BY <1>6, <1>7

\* An update is carried out on what it read, which is what is stored.
LEMMA CommitServed ==
    ASSUME NoResends, IInv, SnapshotInv, MapInv, NEW r \in Requests,
           ServeCommit(r)
    PROVE  Registry!Next \/ UNCHANGED Registry!vars
  <1>1. [Next]_vars /\ Others(r)
    BY OthersStay DEF Next, Serve
  <1>2. /\ pc' = pc /\ call' = call /\ rpc' = rpc
        /\ result' = result /\ response' = response
        /\ call[r].op = "update"
    BY DEF ServeCommit
  <1>3. PICK w \in wire[r] :
          IF w.seen = Version(call[r].uid)
            THEN /\ Apply(r, Overwritten(r, doc[call[r].uid], w.profile))
                 /\ Deliver(r, w, "OK")
            ELSE UNCHANGED <<doc, log>> /\ Deliver(r, w, "Aborted")
    BY DEF ServeCommit
  <1>4. /\ TypeOK /\ call[r].uid \in Users
        /\ w = rpc[r] /\ wire[r] # {} /\ RequestOK(r) /\ w \in Pending(r)
    BY Once DEF Pending
  <1>5. /\ w.profile \in Profile
        /\ \A f \in call[r].fields \intersect Fields : w.profile.data[f] = r
    BY <1>2, <1>4 DEF RequestOK, WritesOK
  <1>6. DataOf(call[r].uid) = NoDoc <=> doc[call[r].uid] = NoDoc
    BY <1>4, Absent
  <1>7. CASE w.seen = Version(call[r].uid)
    <2>1. doc[call[r].uid] # NoDoc /\ doc[call[r].uid] \in Document
      BY <1>2, <1>4, <1>7 DEF RequestOK, SnapshotsOK, Existed, TypeOK
    <2>2. \A f \in Fields : f \notin call[r].fields =>
            w.profile.data[f] = doc[call[r].uid].data[f]
      BY <1>2, <1>4, <1>7 DEF SnapshotInv, CurrentOK, Updates
    <2> DEFINE d == Overwritten(r, doc[call[r].uid], w.profile)
               data == w.profile.data
               old == doc[call[r].uid]
    <2>3. Apply(r, d)
      BY <1>3, <1>7
    <2>4. Registry!Applies(r, DataOf(call[r].uid))
      BY <1>2, <1>6, <2>1 DEF Registry!Applies
    <2>5. data = [f \in Fields |-> IF f \in call[r].fields
                                     THEN r ELSE old.data[f]]
      BY <1>5, <2>2 DEF Profile
    <2>6. DataOf(call[r].uid) = old.data
      BY <2>1 DEF DataOf
    <2>7. data = Registry!Outcome(r, DataOf(call[r].uid))
      BY <1>2, <2>5, <2>6 DEF Registry!Outcome
    <2>8. d # NoDoc /\ d.data = data
      <3>1. d \in Document
        BY <1>5, <2>1, StoredType
      <3>2. d.data = [f \in Fields |-> IF f \in call[r].fields
                                         THEN data[f] ELSE old.data[f]]
        BY <1>5, <2>1 DEF Overwritten, Document, Profile
      <3>3. \A f \in Fields : (IF f \in call[r].fields THEN data[f]
                                                       ELSE old.data[f])
                                = data[f]
        BY <2>2
      <3>4. data \in [Fields -> Requests]
        BY <1>5 DEF Profile
      <3> HIDE DEF d, data, old
      <3> QED
        BY <3>1, <3>2, <3>3, <3>4, NoDocAssumption
    <2>9. rpc[r].profile # NoDoc /\ rpc[r].profile.data = data
      BY <1>4, <1>5, NoDocAssumption
    <2> HIDE DEF d, data, old
    <2> QED
      BY <1>1, <1>2, <1>4, <2>3, <2>4, <2>7, <2>8, <2>9, ApplyTakes
  <1>8. CASE w.seen # Version(call[r].uid)
    <2>1. doc' = doc /\ log' = log /\ Deliver(r, w, "Aborted")
      BY <1>3, <1>8
    <2> QED
      BY <1>1, <1>2, <2>1, Unapplied
  <1> QED
    BY <1>7, <1>8

\* A read finds the profile, or none.
LEMMA ReadServed ==
    ASSUME NoResends, IInv, MapInv, NEW r \in Requests, ServeRead(r)
    PROVE  Registry!Next \/ UNCHANGED Registry!vars
  <1>1. [Next]_vars /\ Others(r)
    BY OthersStay DEF Next, Serve
  <1>2. /\ TypeOK /\ RequestOK(r) /\ call[r].uid \in Users
    BY Once
  <1>3. PICK a : a = [code |-> IF doc[call[r].uid] = NoDoc THEN "NotFound"
                                                           ELSE "OK",
                      doc |-> doc[call[r].uid],
                      seen |-> Version(call[r].uid)]
    OBVIOUS
  <1>4. /\ Told(r, a) /\ Waiting(r) /\ reply[r] = NoReply
        /\ pc[r] \in {"get", "txget"}
    BY <1>2, <1>3 DEF ServeRead, Told, Waiting, TypeOK, backend
  <1>5. /\ Effects(r) = {} \/ ~Mutates(r)
        /\ call[r].op = IF pc[r] = "get" THEN "get" ELSE "update"
    BY <1>2, <1>4, Once DEF RequestOK, OnceOK, PlaceOK, Mutates
  <1>6. DataOf(call[r].uid) = NoDoc <=> doc[call[r].uid] = NoDoc
    BY <1>2, Absent
  <1>7. /\ StatusOf(r)' = StatusOf(r) /\ StatusOf(r) = "pending"
        /\ Effects(r)' = Effects(r) /\ Data
        /\ Mutates(r)' <=> Mutates(r)
        /\ call' = call
    BY <1>4, ToldFrame DEF Told
  <1>8. VerdictOf(r) = "none" /\ ViewOf(r) = NoDoc
    BY <1>4, <1>5, NoVerdict DEF ReadTaken, Refusing, NoReply
  <1>9. CASE doc[call[r].uid] = NoDoc
    <2>1. a.code = "NotFound"
      BY <1>3, <1>9
    <2>2. ~Registry!Applies(r, DataOf(call[r].uid))
      BY <1>5, <1>6, <1>9 DEF Registry!Applies
    <2> QED
      BY <1>1, <1>4, <1>5, <2>1, <2>2, RefusalRefuses
  <1>10. CASE doc[call[r].uid] # NoDoc
    <2>1. a.code = "OK" /\ a.doc = doc[call[r].uid]
      BY <1>3, <1>10
    <2>2. reply'[r] = a /\ ~Refusing(r)'
      BY <1>4, <2>1 DEF Told, Refusing
    <2>3. CASE pc[r] = "txget"
      <3>1. ~ReadTaken(r)'
        BY <1>5, <1>7, <2>3 DEF ReadTaken
      <3>2. VerdictOf(r)' = "none" /\ ViewOf(r)' = NoDoc
        BY <1>5, <1>7, <2>2, <3>1, NoVerdictNext
      <3>3. Same(r)
        BY <1>7, <1>8, <3>2 DEF Same
      <3> QED
        BY <1>1, <1>7, <3>3, Stutters DEF Others
    <2>4. CASE pc[r] = "get"
      <3>1. ReadTaken(r)' /\ call[r].op = "get"
        BY <1>5, <1>7, <2>1, <2>2, <2>4 DEF ReadTaken
      <3>2. VerdictOf(r)' = "done"
        BY <3>1 DEF VerdictOf
      <3>3. ViewOf(r)' = DataOf(call[r].uid)
        BY <1>10, <2>1, <2>2, <3>1 DEF ViewOf, DataOf
      <3>4. Registry!Outcome(r, DataOf(call[r].uid)) = DataOf(call[r].uid)
        BY <3>1 DEF Registry!Outcome
      <3>5. Registry!Applies(r, DataOf(call[r].uid))
        BY <1>6, <1>10, <3>1 DEF Registry!Applies
      <3>6. DataOf(call[r].uid)' = DataOf(call[r].uid)
        BY <1>2, <1>7 DEF Data, DataOf
      <3>7. Registry!Take(r)
        BY <1>1, <1>2, <1>7, <1>8, <3>2, <3>3, <3>4, <3>5, <3>6, Takes
        DEF Data
      <3> QED
        BY <3>7 DEF Registry!Next
    <2> QED
      BY <1>4, <2>3, <2>4
  <1> QED
    BY <1>9, <1>10

\* A call that fails, or whose context ends, loses its verdict at most.
LEMMA FailureStep ==
    ASSUME NoResends, IInv, MapInv, NEW r \in Requests,
           Fault(r) \/ Cancel(r) \/ Expire(r)
    PROVE  Registry!Next \/ UNCHANGED Registry!vars
  <1>1. TypeOK /\ Others(r)
    BY OthersStay DEF IInv
  <1>2. CASE Fault(r)
    <2>1. PICK code \in Faults :
            reply' = [reply EXCEPT ![r] = [NoReply EXCEPT !.code = code]]
      BY <1>2 DEF Fault
    <2> DEFINE a == [NoReply EXCEPT !.code = code]
    <2>2. a.code \notin {"OK", "AlreadyExists", "NotFound",
                         "FailedPrecondition"}
      BY ConstantsAssumption DEF GrpcFaults, RetriedCodes, NoReply
    <2>3. Told(r, a) /\ Waiting(r)
      BY <1>1, <1>2, <2>1 DEF Fault, Told, TypeOK, backend
    <2> HIDE DEF a
    <2> QED
      BY <1>1, <2>2, <2>3, FailureLoses
  <1>3. ASSUME NEW error \in ContextErrors, ContextDone(r, error)
        PROVE  Registry!Next \/ UNCHANGED Registry!vars
    <2> DEFINE a == [NoReply EXCEPT !.code = error]
    <2>1. a.code \notin {"OK", "AlreadyExists", "NotFound",
                         "FailedPrecondition"}
      BY DEF ContextErrors, NoReply
    <2>2. Told(r, a) /\ Waiting(r)
      BY <1>1, <1>3 DEF ContextDone, Told, TypeOK, backend
    <2> HIDE DEF a
    <2> QED
      BY <1>1, <2>1, <2>2, FailureLoses
  <1> QED
    BY <1>2, <1>3 DEF Cancel, Expire, ContextErrors

\* When the process dies, the calls that were still pending are abandoned.
LEMMA CrashAbandons ==
    ASSUME IInv, Crash
    PROVE  Registry!Next \/ UNCHANGED Registry!vars
  <1>1. [Next]_vars /\ IInv'
    BY StepOK DEF Next
  <1>2. /\ pc' = [r \in Requests |-> IF Running(r) THEN "crashed" ELSE pc[r]]
        /\ doc' = doc /\ log' = log /\ call' = call /\ rpc' = rpc
        /\ reply' = reply /\ result' = result /\ response' = response
    BY DEF Crash, backend
  <1> DEFINE Dies(r) == Running(r) /\ result[r].status # 422
             R == {r \in Requests : Dies(r)}
  <1>3. ASSUME NEW r \in Requests
        PROVE  /\ VerdictOf(r)' = VerdictOf(r) /\ ViewOf(r)' = ViewOf(r)
               /\ Dies(r) => StatusOf(r) = "pending"
               /\ StatusOf(r)' = IF Dies(r) THEN "unknown" ELSE StatusOf(r)
    <2>1. Effects(r)' = Effects(r)
      BY <1>2 DEF Effects, Version
    <2>2. VerdictOf(r)' = VerdictOf(r) /\ ViewOf(r)' = ViewOf(r)
      BY <1>2, <2>1, VerdictStays
    <2>3. StatusIs(r) /\ StatusIs(r)'
      BY <1>1, StatusFacts, StatusFactsNext DEF IInv
    <2>4. CASE Dies(r)
      BY <1>2, <2>2, <2>3, <2>4 DEF StatusIs
    <2>5. CASE ~Running(r)
      BY <1>2, <2>2, <2>5, StatusStays
    <2>6. CASE Running(r) /\ result[r].status = 422
      BY <1>2, <2>2, <2>3, <2>6 DEF StatusIs
    <2> QED
      BY <2>4, <2>5, <2>6
  <1>4. Data
    BY <1>2, DataStays
  <1>5. R \in SUBSET Requests /\ \A r \in Requests : r \in R <=> Dies(r)
    OBVIOUS
  <1> HIDE DEF R, Dies
  <1>6. CASE R # {}
    <2>1. Registry!Abandon
      BY <1>2, <1>3, <1>4, <1>5, <1>6 DEF Registry!Abandon, Data
    <2> QED
      BY <2>1 DEF Registry!Next
  <1>7. CASE R = {}
    BY <1>2, <1>3, <1>4, <1>5, <1>7, Stutters DEF Same
  <1> QED
    BY <1>6, <1>7

\* Other programs and time do not show.
LEMMA ElsewhereStutters ==
    ASSUME IInv,
           \/ \E u \in Users : ForeignWrite(u)
           \/ Tick \/ UNCHANGED vars
    PROVE  UNCHANGED Registry!vars
  <1>1. TypeOK
    BY DEF IInv
  <1>2. CASE Tick \/ UNCHANGED vars
    <2>1. ASSUME NEW q \in Requests PROVE Same(q)
      <3>1. Untouched(q) /\ Effects(q)' = Effects(q)
        BY <1>2 DEF Tick, vars, Untouched, Effects, Version
      <3> QED
        BY <3>1, UntouchedSame
    <2> QED
      BY <1>2, <2>1, DataStays, Stutters DEF Tick, vars
  <1>3. ASSUME NEW u \in Users, ForeignWrite(u)
        PROVE  UNCHANGED Registry!vars
    <2>1. /\ log' = [log EXCEPT ![u] = Append(@, Foreign)]
          /\ call' = call
          /\ \A q \in Requests : Untouched(q)
      BY <1>3 DEF ForeignWrite, Untouched
    <2>2. ASSUME NEW q \in Requests PROVE Same(q)
      <3>1. q # Foreign /\ call'[q].uid = call[q].uid
        BY <2>1, ConstantsAssumption
      <3>2. Effects(q)' = Effects(q)
        <4>1. PICK x : x = Foreign
          OBVIOUS
        <4>2. log' = [log EXCEPT ![u] = Append(@, x)] /\ x # q
          BY <2>1, <3>1, <4>1
        <4> QED
          BY <1>1, <3>1, <4>2, EffectsOfAppend
      <3> QED
        BY <2>1, <3>2, UntouchedSame
    <2>3. Data
      <3>1. PICK extra \in {"unknown", "malformed"} :
              doc' = [doc EXCEPT ![u].extra = extra]
        BY <1>3 DEF ForeignWrite
      <3>2. doc[u] # NoDoc /\ doc[u] \in Document
        BY <1>1, <1>3 DEF ForeignWrite, TypeOK
      <3>3. doc'[u] \in Document /\ doc'[u].data = doc[u].data
        BY <1>1, <3>1, <3>2 DEF TypeOK, Document
      <3>4. doc'[u] # NoDoc
        BY <3>3, NoDocAssumption
      <3>5. DataOf(u)' = DataOf(u)
        BY <3>2, <3>3, <3>4 DEF DataOf
      <3>6. \A v \in Users : v # u => DataOf(v)' = DataOf(v)
        BY <1>1, <3>1 DEF TypeOK, DataOf
      <3> QED
        BY <3>5, <3>6 DEF Data
    <2> QED
      BY <2>1, <2>2, <2>3, Stutters
  <1> QED
    BY <1>2, <1>3

\* Every step of the store is a step of the registry, or none.
LEMMA StepImplements ==
    ASSUME NoResends, IInv, SnapshotInv, MapInv, AnswerInv, [Next]_vars
    PROVE  [Registry!Next]_(Registry!vars)
  <1>1. ASSUME NEW r \in Requests, Handle(r) \/ Return(r)
        PROVE  Registry!Next \/ UNCHANGED Registry!vars
    BY <1>1, HandleSubmits, ReturnKeeps, RespondAnswers
  <1>2. ASSUME NEW r \in Requests, Serve(r)
        PROVE  Registry!Next \/ UNCHANGED Registry!vars
    BY <1>2, CreateServed, CommitServed, DeleteServed, ReadServed DEF Serve
  <1>3. ASSUME NEW r \in Requests, Fault(r) \/ Cancel(r) \/ Expire(r)
        PROVE  Registry!Next \/ UNCHANGED Registry!vars
    BY <1>3, FailureStep
  <1>4. ASSUME NEW r \in Requests, Resend(r) PROVE FALSE
    BY <1>4 DEF Resend, NoResends, IInv, TypeOK
  <1> QED
    BY <1>1, <1>2, <1>3, <1>4, CrashAbandons, ElsewhereStutters DEF Next, Quiet

\* A store that has served nothing is a registry that has not either.
LEMMA InitImplements == Init => Registry!Init
  <1> SUFFICES ASSUME Init PROVE Registry!Init
    OBVIOUS
  <1>1. IInv
    BY InitOK
  <1>2. ASSUME NEW r \in Requests
        PROVE  /\ StatusOf(r) = "idle"
               /\ VerdictOf(r) = "none" /\ ViewOf(r) = NoDoc
    <2>1. pc[r] = "idle" /\ reply[r] = NoReply /\ RequestOK(r)
      BY <1>1 DEF Init, IInv
    <2>2. Effects(r) = {}
      BY <2>1 DEF RequestOK, HistoryOK
    <2> QED
      BY <2>1, <2>2, NoVerdict, StatusFacts
      DEF StatusIs, ReadTaken, Refusing, NoReply
  <1>3. \A u \in Users : DataOf(u) = NoDoc
    BY DEF Init, DataOf
  <1> QED
    BY <1>2, <1>3 DEF Init, Registry!Init

\* As long as the transport repeats no write, the handlers over Firestore
\* are an atomic map of profiles: each call is carried out at one moment, at
\* most once, and a definite answer tells what became of it, whatever calls
\* race and whatever fails, is late, or dies.
THEOREM StoreImplementsRegistry ==
    ASSUME NoResends
    PROVE  Spec => ImplementsRegistry
  <1>1. IInv /\ SnapshotInv /\ MapInv /\ AnswerInv /\ [Next]_vars
          => [Registry!Next]_(Registry!vars)
    BY StepImplements
  <1> QED
    BY <1>1, InitImplements, AnswerInvariant, PTL
    DEF Spec, ImplementsRegistry, Registry!Spec
-----------------------------------------------------------------------------
(* Outages.                                                                *)

\* The conversions agree on which codes are outages, whatever the operation.
LEMMA OutageCodes ==
    ASSUME NEW code \in Codes
    PROVE  /\ (MapServiceError(CreateError(code)) = 503) <=> (code \in Outages)
           /\ (MapServiceError(GetError(code)) = 503) <=> (code \in Outages)
           /\ (MapServiceError(UpdateError(code)) = 503) <=> (code \in Outages)
           /\ (MapServiceError(DeleteError(code)) = 503) <=> (code \in Outages)
  <1>1. /\ code # "ErrNotFound" /\ code # "ErrAlreadyExists"
        /\ code # "ErrUnavailable"
    BY DEF Codes, GrpcFaults, RetriedCodes, ContextErrors
  <1>2. MapServiceError(ClassifyDependencyError(code))
          = IF code \in Outages THEN 503 ELSE 500
    <2>1. CASE code \in Outages
      <3>1. ClassifyDependencyError(code) = {"ErrUnavailable", code}
        BY <2>1 DEF ClassifyDependencyError, Outages
      <3> QED
        BY <1>1, <2>1, <3>1 DEF MapServiceError
    <2>2. CASE code \notin Outages
      <3>1. ClassifyDependencyError(code) = {code}
        BY <2>2 DEF ClassifyDependencyError, Outages
      <3>2. code # "context.DeadlineExceeded"
        BY <2>2 DEF Outages
      <3> QED
        BY <1>1, <2>2, <3>1, <3>2 DEF MapServiceError
    <2> QED
      BY <2>1, <2>2
  <1>3. /\ MapServiceError({}) = 500
        /\ MapServiceError({"ErrAlreadyExists"}) = 409
        /\ MapServiceError({"ErrNotFound"}) = 404
    BY DEF MapServiceError
  <1>4. {"OK", "AlreadyExists", "NotFound", "FailedPrecondition"}
          \intersect Outages = {}
    BY DEF Outages
  <1> QED
    BY <1>1, <1>2, <1>3, <1>4
    DEF CreateError, GetError, UpdateError, DeleteError

\* What a request is about to answer, or answered, is 503 for an outage
\* only; one that reads has no effect, and one sent away because of
\* contention has none either.
OutageOK(r) ==
    /\ pc[r] \in {"answering", "done"} =>
         (result[r].status = 503) <=> (reply[r].code \in Outages)
    /\ ~Mutates(r) => Effects(r) = {}
    /\ /\ pc[r] \in {"answering", "done", "crashed"}
       /\ reply[r].code = "Aborted"
       /\ resent[r] = 0
       => Effects(r) = {} /\ wire[r] = {}

OutageInv == \A r \in Requests : OutageOK(r)

\* A handler that returns tells an outage as one.
LEMMA FinishOutage ==
    ASSUME IInv, NEW r \in Requests, OutageOK(r), Handle(r) \/ Return(r),
           pc'[r] \in {"answering", "done"}
    PROVE  (result'[r].status = 503) <=> (reply[r].code \in Outages)
  <1>1. TypeOK /\ reply[r].code \in Codes /\ RequestOK(r)
    BY DEF IInv, TypeOK, Reply
  <1>2. ASSUME NEW events, NEW status, NEW body,
               Finish(r, events, status, body)
        PROVE  result'[r].status = status
    BY <1>1, <1>2 DEF Finish, TypeOK
  <1>3. CASE HandleCreate(r) \/ HandleGet(r) \/ HandleDelete(r)
             \/ UpdateRetry(r)
    BY <1>1, <1>3
    DEF HandleCreate, HandleGet, HandleDelete, UpdateRetry, Send, TypeOK
  <1>4. ASSUME NEW F \in SUBSET Fields, HandleUpdate(r, F)
        PROVE  (result'[r].status = 503) <=> (reply[r].code \in Outages)
    <2>1. pc[r] = "idle" /\ F = {}
      BY <1>1, <1>4 DEF HandleUpdate, TypeOK
    <2>2. reply[r].code = "none" /\ reply[r].code \notin Outages
      BY <1>1, <2>1 DEF RequestOK, PlaceOK, NoReply, Outages
    <2>3. Finish(r, <<>>, 422, NoDoc)
      BY <1>4, <2>1 DEF HandleUpdate
    <2> QED
      BY <1>2, <2>2, <2>3
  <1>5. CASE CreateReturn(r)
    <2> DEFINE err == CreateError(reply[r].code)
               status == IF err = {} THEN 201 ELSE MapServiceError(err)
               body == IF err = {} THEN rpc[r].profile ELSE NoDoc
    <2>1. Finish(r, <<LogEvent(err)>>, status, body)
      BY <1>5 DEF CreateReturn
    <2>2. (status = 503) <=> (MapServiceError(err) = 503)
      BY DEF MapServiceError
    <2>3. (MapServiceError(err) = 503) <=> (reply[r].code \in Outages)
      BY <1>1, OutageCodes
    <2> HIDE DEF err, status, body
    <2> QED
      BY <1>2, <2>1, <2>2, <2>3
  <1>6. CASE DeleteReturn(r)
    <2> DEFINE err == DeleteError(reply[r].code)
               status == IF err = {} THEN 204 ELSE MapServiceError(err)
    <2>1. Finish(r, <<LogEvent(err)>>, status, NoDoc)
      BY <1>6 DEF DeleteReturn
    <2>2. (status = 503) <=> (MapServiceError(err) = 503)
      BY DEF MapServiceError
    <2>3. (MapServiceError(err) = 503) <=> (reply[r].code \in Outages)
      BY <1>1, OutageCodes
    <2> HIDE DEF err, status
    <2> QED
      BY <1>2, <2>1, <2>2, <2>3
  <1>7. CASE GetReturn(r)
    <2> DEFINE read == GetError(reply[r].code)
               err == IF read = {} /\ ~Decodes(reply[r].doc)
                        THEN DecodeError ELSE read
               status == IF err = {} THEN 200 ELSE MapServiceError(err)
               body == IF err = {} THEN ToProfile(reply[r].doc) ELSE NoDoc
    <2>1. Finish(r, <<>>, status, body)
      BY <1>7 DEF GetReturn, DecodeError
    <2>2. (status = 503) <=> (MapServiceError(err) = 503)
      BY DEF MapServiceError
    <2>3. (MapServiceError(read) = 503) <=> (reply[r].code \in Outages)
      BY <1>1, OutageCodes
    <2>4. MapServiceError(DecodeError) = 500 /\ MapServiceError({}) = 500
      <3>1. MapServiceError({}) = 500
        BY DEF MapServiceError
      <3> QED
        BY <3>1, Decoding
    <2>5. err = read \/ (read = {} /\ err = DecodeError)
      OBVIOUS
    <2> HIDE DEF read, err, status, body
    <2>6. (MapServiceError(err) = 503) <=> (MapServiceError(read) = 503)
      BY <2>4, <2>5
    <2> QED
      BY <1>2, <2>1, <2>2, <2>3, <2>6
  <1>8. ASSUME NEW code, FailUpdate(r, code),
               (MapServiceError(UpdateError(code)) = 503)
                 <=> (reply[r].code \in Outages)
        PROVE  (result'[r].status = 503) <=> (reply[r].code \in Outages)
    BY <1>2, <1>8 DEF FailUpdate
  <1>9. CASE UpdateClosure(r)
    <2>1. CASE reply[r].code = "OK" /\ Decodes(reply[r].doc)
      BY <1>1, <1>9, <2>1 DEF UpdateClosure, Send, TypeOK
    <2>2. CASE reply[r].code = "OK" /\ ~Decodes(reply[r].doc)
      <3>1. PICK code : code = "decode profile"
        OBVIOUS
      <3>2. FailUpdate(r, code)
        BY <1>9, <2>2, <3>1 DEF UpdateClosure
      <3>3. MapServiceError(UpdateError(code)) = 500
        BY <3>1, Decoding
      <3>4. reply[r].code \notin Outages
        BY <2>2 DEF Outages
      <3> QED
        BY <1>8, <3>2, <3>3, <3>4
    <2>3. CASE reply[r].code = "NotFound"
      <3>1. PICK code : code = "ErrNotFound"
        OBVIOUS
      <3>2. FailUpdate(r, code)
        BY <1>9, <2>3, <3>1 DEF UpdateClosure
      <3>3. MapServiceError(UpdateError(code)) = 404
        BY <3>1 DEF UpdateError, MapServiceError
      <3>4. reply[r].code \notin Outages
        BY <2>3 DEF Outages
      <3> QED
        BY <1>8, <3>2, <3>3, <3>4
    <2>4. CASE reply[r].code \notin {"OK", "NotFound"}
      <3>1. FailUpdate(r, reply[r].code)
        BY <1>9, <2>4 DEF UpdateClosure
      <3> QED
        BY <1>1, <1>8, <3>1, OutageCodes
    <2> QED
      BY <2>1, <2>2, <2>3, <2>4
  <1>10. CASE UpdateReturn(r)
    <2>1. CASE reply[r].code = "OK"
      <3>1. Finish(r, <<"success">>, 200, rpc[r].profile)
        BY <1>10, <2>1 DEF UpdateReturn
      <3> QED
        BY <1>2, <2>1, <3>1 DEF Outages
    <2>2. CASE reply[r].code # "OK"
      <3>1. FailUpdate(r, reply[r].code)
        BY <1>10, <2>2 DEF UpdateReturn
      <3> QED
        BY <1>1, <1>8, <3>1, OutageCodes
    <2> QED
      BY <2>1, <2>2
  <1>11. CASE Respond(r)
    BY <1>11 DEF Respond, OutageOK
  <1> QED
    BY <1>3, <1>4, <1>5, <1>6, <1>7, <1>9, <1>10, <1>11 DEF Handle, Return

\* Every step keeps OutageOK.
LEMMA OutageStep ==
    ASSUME IInv, OutageInv, [Next]_vars, NEW r \in Requests
    PROVE  OutageOK(r)'
  <1>1. /\ TypeOK /\ RequestOK(r) /\ RequestOK(r)' /\ OutageOK(r)
        /\ resent[r] \in Nat
    <2>1. TypeOK /\ RequestOK(r)
      BY Zenon DEF IInv
    <2>2. RequestOK(r)'
      BY Zenon, StepOK DEF IInv
    <2>3. OutageOK(r)
      BY Zenon DEF OutageInv
    <2>4. resent[r] \in 0..MaxResends
      BY Zenon, <2>1 DEF TypeOK
    <2> QED
      BY <2>1, <2>2, <2>3, <2>4, ConstantsAssumption
  <1>2. pc[r] # "idle" => call'[r] = call[r]
    BY <1>1, CallsStay
  <1>3. ~Mutates(r)' => Effects(r)' = {}
    <2>1. CASE pc[r] = "idle"
      BY <1>1, <2>1, EffectsGrow DEF RequestOK, PlaceOK, HistoryOK, Mutates
    <2>2. CASE pc[r] # "idle"
      BY <1>1, <1>2, <2>2, EffectsGrow DEF RequestOK, PlaceOK, OutageOK, Mutates
    <2> QED
      BY <2>1, <2>2
  <1>4. ASSUME pc'[r] \in {"answering", "done", "crashed"}
        PROVE  reply'[r] = reply[r] /\ wire'[r] \subseteq wire[r]
    BY <1>4, Settles
  <1>5. ASSUME NEW q \in Requests, q # r,
               \/ Handle(q) \/ Return(q) \/ Serve(q) \/ Fault(q) \/ Resend(q)
               \/ Cancel(q) \/ Expire(q)
        PROVE  /\ pc'[r] = pc[r] /\ result'[r] = result[r]
               /\ resent'[r] = resent[r]
    BY <1>5, HandlerMoves, BackendMoves DEF Untouched
  <1>6. ASSUME Serve(r) \/ Fault(r) \/ Resend(r) \/ Cancel(r) \/ Expire(r)
        PROVE  /\ pc'[r] = pc[r] /\ result'[r] = result[r]
               /\ resent'[r] = 0 => resent[r] = 0
    BY <1>1, <1>6
    DEF Serve, ServeRead, ServeCreate, ServeCommit, ServeDelete, Fault, Resend,
        Cancel, Expire, ContextDone, Send, TypeOK
  <1>7. ASSUME \/ \E u \in Users : ForeignWrite(u)
               \/ Crash \/ Tick \/ UNCHANGED vars
        PROVE  /\ pc'[r] \in {pc[r], "crashed"}
               /\ result'[r] = result[r] /\ resent'[r] = resent[r]
    BY <1>7 DEF ForeignWrite, Crash, Tick, vars
  <1>8. ASSUME Handle(r) \/ Return(r) PROVE resent'[r] = resent[r]
    BY <1>8
    DEF Handle, HandleCreate, HandleGet, HandleUpdate, HandleDelete, Return,
        CreateReturn, GetReturn, UpdateClosure, UpdateRetry, UpdateReturn,
        DeleteReturn, Respond
  <1>9. /\ \/ Handle(r) \/ Return(r)
           \/ pc'[r] \in {pc[r], "crashed"} /\ result'[r] = result[r]
        /\ resent'[r] = 0 => resent[r] = 0
    BY <1>5, <1>6, <1>7, <1>8 DEF Next, Quiet
  <1>10. ASSUME pc'[r] \in {"answering", "done"}
         PROVE  (result'[r].status = 503) <=> (reply'[r].code \in Outages)
    <2>1. reply'[r] = reply[r]
      BY <1>4, <1>10
    <2>2. CASE pc'[r] \in {pc[r], "crashed"} /\ result'[r] = result[r]
      BY <1>1, <1>10, <2>1, <2>2 DEF OutageOK
    <2>3. CASE Handle(r) \/ Return(r)
      BY <1>1, <1>10, <2>1, <2>3, FinishOutage
    <2> QED
      BY <1>9, <2>2, <2>3
  <1>11. ASSUME pc'[r] \in {"answering", "done", "crashed"},
                reply'[r].code = "Aborted", resent'[r] = 0
         PROVE  Effects(r)' = {} /\ wire'[r] = {}
    <2>1. /\ reply[r].code = "Aborted" /\ resent[r] = 0
          /\ wire'[r] \subseteq wire[r]
      BY <1>4, <1>9, <1>11
    <2>2. wire[r] = {} /\ Effects(r) = {}
      <3>1. CASE pc[r] = "idle"
        BY <1>1, <2>1, <3>1 DEF RequestOK, PlaceOK, NoReply
      <3>2. CASE Writing(r) \/ pc[r] = "txget"
        BY <1>1, <2>1, <3>2 DEF RequestOK, OnceOK
      <3>3. CASE pc[r] = "get"
        BY <1>1, <3>3 DEF RequestOK, PlaceOK, OutageOK, Mutates
      <3>4. CASE pc[r] \in {"answering", "done", "crashed"}
        BY <1>1, <2>1, <3>4 DEF OutageOK
      <3> QED
        BY <1>1, <3>1, <3>2, <3>3, <3>4 DEF TypeOK, Writing
    <2> QED
      BY <2>1, <2>2, EffectsGrow
  <1> QED
    BY <1>3, <1>10, <1>11 DEF OutageOK

\* An outage of Firestore, or of the time a request has, is answered 503 and
\* nothing else is; a client sent away because of contention alone comes
\* back to a document its call has not touched.
THEOREM OutagesAreTold == Spec => []OutagesAskToComeBack
  <1>1. Init => OutageInv
    <2> SUFFICES ASSUME Init, NEW r \in Requests PROVE OutageOK(r)
      BY DEF OutageInv
    <2>1. pc[r] = "idle" /\ Effects(r) = {}
      BY InitOK DEF Init, IInv, RequestOK, HistoryOK
    <2> QED
      BY <2>1 DEF OutageOK
  <1>2. IInv /\ OutageInv /\ [Next]_vars => OutageInv'
    BY OutageStep DEF OutageInv
  <1>3. IInv /\ OutageInv => OutagesAskToComeBack
    <2> SUFFICES ASSUME IInv, OutageInv, NEW r \in Requests, pc[r] = "done"
                 PROVE  /\ (response[r].status = 503)
                             <=> (reply[r].code \in Outages)
                        /\ reply[r].code = "Aborted" /\ resent[r] = 0
                             => Effects(r) = {} /\ wire[r] = {}
      BY DEF OutagesAskToComeBack
    <2>1. response[r] = result[r]
      BY DEF IInv, RequestOK, HistoryOK
    <2> QED
      BY <2>1 DEF OutageInv, OutageOK
  <1> QED
    BY <1>1, <1>2, <1>3, Invariance, PTL DEF Spec
=============================================================================
