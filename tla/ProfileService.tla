--------------------------- MODULE ProfileService ---------------------------
(***************************************************************************)
(* The profile routes of a process: RequestPipeline around ProfileStore.   *)
(* The pipeline is that of one request, Me; the other requests of the      *)
(* store come through pipelines of their own, of this process or another,  *)
(* of which only the calls to the store are seen.                          *)
(*                                                                         *)
(* Each component keeps its variables; the reply of the pipeline is called *)
(* answer here.  A step is a step of one component that leaves the other   *)
(* alone, but for the two places where they meet: the operation answers    *)
(* with the status the store's call has led to, and a call of Me ends with *)
(* the context of its request.  Repeats by the transport, other programs,  *)
(* crashes and the clock are left to ProfileStore.                         *)
(***************************************************************************)
EXTENDS Integers, Sequences

CONSTANTS
    Me,             \* the request whose pipeline is modelled
    Requests, Users, Fields, NoDoc, Foreign, Faults,
    MaxAttempts,
    Verifiers

VARIABLES
    route, method, header, verifier, at, ctx, client, verdict, user, answer,
    fields, sent, panicking, entries, outcome

VARIABLES
    doc, log, clock, pc, call, attempt, rpc, resent, wire, reply, audit,
    result, response

pipeline == <<route, method, header, verifier, at, ctx, client, verdict, user,
              answer, fields, sent, panicking, entries, outcome>>
store == <<doc, log, clock, pc, call, attempt, rpc, resent, wire, reply, audit,
           result, response>>
vars == <<pipeline, store>>

\* What the profile operations answer (mapServiceError and the handlers).
OperationStatuses == {200, 201, 204, 404, 409, 422, 500, 503}

Pipe == INSTANCE RequestPipeline WITH reply <- answer
Store == INSTANCE ProfileStore WITH MaxResends <- 0, MaxClock <- 0

ASSUME ServiceAssumption ==
    /\ Me \in Requests
    /\ Pipe!PipelineAssumption
    /\ Store!ConstantsAssumption
    /\ Store!NoDocAssumption
-----------------------------------------------------------------------------
\* The request goes to a profile operation, which asks for authentication.
Init ==
    /\ Pipe!Init
    /\ route = "protected"
    /\ Store!Init

\* Up to the operation, and from its answer to the end of the request.
Around ==
    /\ Pipe!Run \/ Pipe!ReadInput \/ Pipe!Panic
    /\ UNCHANGED store

Verify == Pipe!Verify /\ UNCHANGED store

\* The operation the method selects calls the store.
CallStore ==
    /\ at = "operation"
    /\ Store!Handle(Me)
    /\ call'[Me].op = "get" <=> method = "GET"
    /\ UNCHANGED pipeline

StoreReturns ==
    /\ at = "operation"
    /\ Store!Return(Me)
    /\ UNCHANGED pipeline

\* The store has returned, and the operation's handler with it.
Operate ==
    /\ pc[Me] = "done"
    /\ Pipe!Operate
    /\ answer' = Pipe!Result(response[Me].status)
    /\ UNCHANGED store

ContextEnds ==
    /\ Pipe!DeadlinePasses \/ Pipe!ClientGone
    /\ UNCHANGED store

\* Bug: the store is called with a context of its own.
MutantStoreSeesContext == FALSE /\ UNCHANGED vars

\* The context of the request is the one of the call.
StoreSeesContext ==
    /\ at = "operation"
    /\ \/ ctx = "deadline" /\ Store!Expire(Me)
       \/ ctx = "canceled" /\ Store!Cancel(Me)
    /\ UNCHANGED pipeline

\* Firestore serves or fails the writes of Me, late ones included, and the
\* other requests go on.
Elsewhere ==
    /\ \/ Store!Serve(Me) \/ Store!Fault(Me)
       \/ \E r \in Requests \ {Me} :
             \/ Store!Handle(r) \/ Store!Return(r) \/ Store!Serve(r)
             \/ Store!Fault(r) \/ Store!Cancel(r) \/ Store!Expire(r)
    /\ UNCHANGED pipeline

Next == Around \/ Verify \/ CallStore \/ StoreReturns \/ Operate
        \/ ContextEnds \/ StoreSeesContext \/ Elsewhere

Spec == Init /\ [][Next]_vars

\* The fairness of the pipeline, but for the operation: it is enough that
\* its goroutine runs and that the call sees the end of the context.
FairSpec ==
    /\ Spec
    /\ WF_vars(Pipe!Run /\ UNCHANGED store)
    /\ WF_vars(Pipe!ReadInput /\ UNCHANGED store)
    /\ WF_vars(Pipe!DeadlinePasses /\ UNCHANGED store)
    /\ WF_vars(ctx # "active" /\ Verify)
    /\ WF_vars(CallStore)
    /\ WF_vars(StoreReturns)
    /\ WF_vars(StoreSeesContext)
    /\ WF_vars(Operate)
-----------------------------------------------------------------------------
(* Properties *)

\* A write of Me was applied, and one may still be.
Applied == Store!Effects(Me) # {}
Pending == wire[Me] # {}

\* What the client is told about its profile is true of the document,
\* whatever ended the request: without an identity nothing was asked of the
\* store; a result answers a write that was applied; and after a refusal of
\* the middlewares, of the input or of the store nothing was, nor will be.
\* Only 500, 503, the empty 200 and a broken connection say nothing.
ClientIsToldTheTruth ==
    /\ user = Pipe!NoUser => ~Applied /\ ~Pending
    /\ outcome = "complete" =>
          /\ /\ sent.documents = <<"result">> \/ sent.status = 204
             /\ method # "GET"
             => Applied
          /\ sent.status \in 400..499 => ~Applied /\ ~Pending

\* For the pipeline the store is an operation like any other: the requests
\* of this process are behaviours of RequestPipeline, its fairness included,
\* which assumes that an operation ends with the context of its request.
ImplementsPipeline == Pipe!FairSpec
=============================================================================
