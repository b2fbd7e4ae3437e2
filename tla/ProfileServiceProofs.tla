------------------------ MODULE ProfileServiceProofs ------------------------
(***************************************************************************)
(* Proofs about ProfileService: the composition is a behaviour of each of  *)
(* its components, so their invariants hold in it, and from both of them   *)
(* and from how they meet it follows that the client is told the truth.    *)
(***************************************************************************)
EXTENDS ProfileService, TLAPS

PipeProofs == INSTANCE RequestPipelineProofs WITH reply <- answer
StoreProofs == INSTANCE ProfileStoreProofs WITH MaxResends <- 0, MaxClock <- 0
-----------------------------------------------------------------------------
(* The components                                                          *)

\* The constants of both components are as they assume.
LEMMA Assumptions ==
    /\ PipeProofs!PipelineAssumption
    /\ StoreProofs!ConstantsAssumption
    /\ StoreProofs!NoDocAssumption
  BY ServiceAssumption
     DEF Pipe!PipelineAssumption, PipeProofs!PipelineAssumption,
         Pipe!Successes, PipeProofs!Successes,
         Store!ConstantsAssumption, StoreProofs!ConstantsAssumption,
         Store!GrpcFaults, StoreProofs!GrpcFaults,
         Store!RetriedCodes, StoreProofs!RetriedCodes,
         Store!NoDocAssumption, StoreProofs!NoDocAssumption,
         Store!Profile, StoreProofs!Profile, Store!Document,
         StoreProofs!Document, Store!Clock, StoreProofs!Clock

\* A step of the service is one of the pipeline or leaves it alone.
LEMMA PipeStep == [Next]_vars => [Pipe!Next]_(Pipe!vars)
  <1> SUFFICES ASSUME [Next]_vars PROVE [Pipe!Next]_(Pipe!vars)
    OBVIOUS
  <1>1. ASSUME Around \/ Verify \/ Operate \/ ContextEnds PROVE Pipe!Next
    BY <1>1 DEF Around, Verify, Operate, ContextEnds, Pipe!Next, Pipe!Wait
  <1>2. ASSUME UNCHANGED pipeline PROVE UNCHANGED Pipe!vars
    BY <1>2 DEF pipeline, Pipe!vars
  <1>3. ASSUME CallStore \/ StoreReturns \/ StoreSeesContext \/ Elsewhere
               \/ UNCHANGED vars
        PROVE  UNCHANGED pipeline
    BY <1>3 DEF CallStore, StoreReturns, StoreSeesContext, Elsewhere, vars
  <1> QED
    BY <1>1, <1>2, <1>3 DEF Next

\* A step of the service is one of the store or leaves it alone.
LEMMA StoreStep == [Next]_vars => [Store!Next]_(Store!vars)
  <1> SUFFICES ASSUME [Next]_vars PROVE [Store!Next]_(Store!vars)
    OBVIOUS
  <1>1. ASSUME CallStore \/ StoreReturns \/ StoreSeesContext \/ Elsewhere
        PROVE  Store!Next
    BY <1>1, ServiceAssumption
       DEF CallStore, StoreReturns, StoreSeesContext, Elsewhere, Store!Next
  <1>2. ASSUME UNCHANGED store PROVE UNCHANGED Store!vars
    BY <1>2 DEF store, Store!vars
  <1>3. ASSUME Around \/ Verify \/ Operate \/ ContextEnds \/ UNCHANGED vars
        PROVE  UNCHANGED store
    BY <1>3 DEF Around, Verify, Operate, ContextEnds, vars
  <1> QED
    BY <1>1, <1>2, <1>3 DEF Next

\* The requests of this process are behaviours of RequestPipeline.
THEOREM PipelineIsImplemented == Spec => Pipe!Spec
  <1>1. Init => Pipe!Init
    BY DEF Init
  <1> QED
    BY <1>1, PipeStep, PTL DEF Spec, Pipe!Spec

\* What the service asks of the store is a behaviour of ProfileStore.
THEOREM StoreIsImplemented == Spec => Store!Spec
  <1>1. Init => Store!Init
    BY DEF Init
  <1> QED
    BY <1>1, StoreStep, PTL DEF Spec, Store!Spec

\* The two instances of the pipeline are the same specification.
LEMMA SamePipe == Pipe!Spec => PipeProofs!Spec
  <1>1. Pipe!Init => PipeProofs!Init
    BY DEF Pipe!Init, PipeProofs!Init, Pipe!Routes, PipeProofs!Routes,
         Pipe!MethodsOf, PipeProofs!MethodsOf, Pipe!NoUser, PipeProofs!NoUser,
         Pipe!Nobody, PipeProofs!Nobody, Pipe!NoReply,
         PipeProofs!NoReply, Pipe!NoFields, PipeProofs!NoFields
  <1>2. Pipe!Next => PipeProofs!Next
    BY DEF Pipe!Init, PipeProofs!Init, Pipe!Next, PipeProofs!Next, Pipe!vars,
         PipeProofs!vars, Pipe!input, PipeProofs!input, Pipe!environment,
         PipeProofs!environment, Pipe!Run, PipeProofs!Run, Pipe!Wait,
         PipeProofs!Wait, Pipe!Enter, PipeProofs!Enter, Pipe!ServeChi,
         PipeProofs!ServeChi, Pipe!Authenticate, PipeProofs!Authenticate,
         Pipe!Verify, PipeProofs!Verify, Pipe!Decide, PipeProofs!Decide,
         Pipe!ReadInput, PipeProofs!ReadInput, Pipe!Operate,
         PipeProofs!Operate, Pipe!WriteHeader, PipeProofs!WriteHeader,
         Pipe!WriteDocument, PipeProofs!WriteDocument, Pipe!LogAccess,
         PipeProofs!LogAccess, Pipe!Recover, PipeProofs!Recover,
         Pipe!ServerFinish, PipeProofs!ServerFinish, Pipe!Panic,
         PipeProofs!Panic, Pipe!DeadlinePasses, PipeProofs!DeadlinePasses,
         Pipe!ClientGone, PipeProofs!ClientGone, Pipe!Refuse,
         PipeProofs!Refuse, Pipe!Accepts, PipeProofs!Accepts, Pipe!StaysSilent,
         PipeProofs!StaysSilent, Pipe!Verdicts, PipeProofs!Verdicts,
         Pipe!VerifyError, PipeProofs!VerifyError, Pipe!VerifyCases,
         PipeProofs!VerifyCases, Pipe!SDKErrors, PipeProofs!SDKErrors,
         Pipe!IsCredentialError, PipeProofs!IsCredentialError,
         Pipe!CredentialErrors, PipeProofs!CredentialErrors, Pipe!Challenge,
         PipeProofs!Challenge, Pipe!RetryLater, PipeProofs!RetryLater, Pipe!Problem,
         PipeProofs!Problem, Pipe!Result, PipeProofs!Result,
         Pipe!AccessEntries, PipeProofs!AccessEntries, Pipe!Logged,
         PipeProofs!Logged, Pipe!Recovery, PipeProofs!Recovery, Pipe!MethodsOf,
         PipeProofs!MethodsOf, Pipe!Routes, PipeProofs!Routes, Pipe!ChiRoutes,
         PipeProofs!ChiRoutes, Pipe!Operations, PipeProofs!Operations, Pipe!NoUser, PipeProofs!NoUser, Pipe!Identities,
         PipeProofs!Identities, Pipe!Nobody, PipeProofs!Nobody, Pipe!NoReply,
         PipeProofs!NoReply, Pipe!NoFields, PipeProofs!NoFields,
         Pipe!Successes, PipeProofs!Successes
  <1>3. UNCHANGED Pipe!vars => UNCHANGED PipeProofs!vars
    BY DEF Pipe!vars, PipeProofs!vars
  <1> QED
    BY <1>1, <1>2, <1>3, PTL DEF Pipe!Spec, PipeProofs!Spec

\* Their steps are the same.
LEMMA SameStoreStep == Store!Next => StoreProofs!Next
  BY DEF Store!Init, StoreProofs!Init, Store!Next, StoreProofs!Next,
       Store!vars, StoreProofs!vars, Store!backend, StoreProofs!backend,
       Store!RetriedCodes, StoreProofs!RetriedCodes, Store!GrpcFaults,
       StoreProofs!GrpcFaults, Store!NoWrite, StoreProofs!NoWrite,
       Store!NoReply, StoreProofs!NoReply, Store!NoResponse,
       StoreProofs!NoResponse, Store!ContextErrors,
       StoreProofs!ContextErrors, Store!Waiting, StoreProofs!Waiting,
       Store!Writing, StoreProofs!Writing, Store!Running,
       StoreProofs!Running, Store!Respond, StoreProofs!Respond,
       Store!Version, StoreProofs!Version, Store!ClassifyDependencyError,
       StoreProofs!ClassifyDependencyError, Store!CreateError,
       StoreProofs!CreateError, Store!GetError, StoreProofs!GetError,
       Store!UpdateError, StoreProofs!UpdateError, Store!DeleteError,
       StoreProofs!DeleteError, Store!CategorizeError,
       StoreProofs!CategorizeError, Store!LogEvent, StoreProofs!LogEvent,
       Store!MapServiceError, StoreProofs!MapServiceError, Store!Decodes,
       StoreProofs!Decodes, Store!ToProfile, StoreProofs!ToProfile,
       Store!NewProfile, StoreProofs!NewProfile, Store!Merged,
       StoreProofs!Merged, Store!Overwritten, StoreProofs!Overwritten,
       Store!Stored, StoreProofs!Stored, Store!Send, StoreProofs!Send,
       Store!Finish, StoreProofs!Finish, Store!HandleCreate,
       StoreProofs!HandleCreate, Store!CreateReturn,
       StoreProofs!CreateReturn, Store!HandleGet, StoreProofs!HandleGet,
       Store!GetReturn, StoreProofs!GetReturn, Store!HandleUpdate,
       StoreProofs!HandleUpdate, Store!FailUpdate, StoreProofs!FailUpdate,
       Store!UpdateClosure, StoreProofs!UpdateClosure, Store!UpdateRetry,
       StoreProofs!UpdateRetry, Store!UpdateReturn, StoreProofs!UpdateReturn,
       Store!HandleDelete, StoreProofs!HandleDelete, Store!DeleteReturn,
       StoreProofs!DeleteReturn, Store!ContextDone, StoreProofs!ContextDone,
       Store!Cancel, StoreProofs!Cancel, Store!Expire, StoreProofs!Expire,
       Store!Crash, StoreProofs!Crash, Store!Deliver, StoreProofs!Deliver,
       Store!Apply, StoreProofs!Apply, Store!ServeCreate,
       StoreProofs!ServeCreate, Store!ServeCommit, StoreProofs!ServeCommit,
       Store!ServeDelete, StoreProofs!ServeDelete, Store!ServeRead,
       StoreProofs!ServeRead, Store!Fault, StoreProofs!Fault, Store!Resend,
       StoreProofs!Resend, Store!ForeignWrite, StoreProofs!ForeignWrite,
       Store!Tick, StoreProofs!Tick, Store!Quiet, StoreProofs!Quiet,
       Store!Return, StoreProofs!Return, Store!Handle, StoreProofs!Handle,
       Store!Serve, StoreProofs!Serve

\* The two instances of the store are the same specification.
LEMMA SameStore == Store!Spec => StoreProofs!Spec
  <1>1. Store!Init => StoreProofs!Init
    BY DEF Store!Init, StoreProofs!Init, Store!NoWrite, StoreProofs!NoWrite,
         Store!NoReply, StoreProofs!NoReply, Store!NoResponse,
         StoreProofs!NoResponse
  <1>2. Store!Next => StoreProofs!Next
    BY SameStoreStep
  <1>3. UNCHANGED Store!vars => UNCHANGED StoreProofs!vars
    BY DEF Store!vars, StoreProofs!vars
  <1> QED
    BY <1>1, <1>2, <1>3, PTL DEF Store!Spec, StoreProofs!Spec

\* The invariant of the pipeline holds in the service.
LEMMA PipeInvariant == Spec => []PipeProofs!IInv
  BY Assumptions, PipelineIsImplemented, SamePipe, PipeProofs!Invariance, PTL

\* The same for the store.
LEMMA StoreInvariant == Spec => []StoreProofs!IInv
  BY Assumptions, StoreIsImplemented, SameStore, StoreProofs!Invariance, PTL
-----------------------------------------------------------------------------
(* How they meet                                                           *)

\* The operation has not been reached, or not been left.
Before == {"outer", "chi", "auth", "verify", "decide", "body"}

\* The store is called for a known user, from the operation, as the method says.
CallOK ==
    /\ user = Pipe!NoUser \/ at \in Before => pc[Me] = "idle"
    /\ pc[Me] # "idle" =>
          /\ call[Me].op # "none"
          /\ call[Me].op = "get" <=> method = "GET"
    /\ ~Store!Mutates(Me) => Store!Effects(Me) = {}

\* An answer is a refusal given before the call, or what the call returned.
AnswerOK ==
    /\ at \in Before \union {"operation"} => answer.status = 0
    /\ answer.status = 0 => answer.document # "result"
    /\ answer.status # 0 =>
          \/ /\ pc[Me] = "idle"
             /\ answer.status >= 400 /\ answer.document = "problem"
          \/ /\ pc[Me] = "done"
             /\ answer = Pipe!Result(response[Me].status)

\* What was sent of it.
SentOK ==
    /\ sent.status \in {204} \union 400..499 => sent.status = answer.status
    /\ sent.documents = <<"result">> => answer.document = "result"

Meets == route = "protected" /\ CallOK /\ AnswerOK /\ SentOK

\* What the invariant of the pipeline says here.
LEMMA PipeSays ==
    ASSUME PipeProofs!IInv
    PROVE  /\ at \in Before \union {"operation", "write"} =>
                 sent = [status |-> 0, documents |-> <<>>]
           /\ at = "document" => sent = [status |-> answer.status, documents |-> <<>>]
           /\ at = "recover" /\ panicking # "no" /\ sent.status = 0 =>
                 sent = [status |-> 0, documents |-> <<>>]
           /\ at = "chi" => route # "protected"
           /\ route = "protected" /\ user = Pipe!NoUser =>
                 at \notin {"body", "operation"}
           /\ answer.status \in Nat /\ sent.status \in Nat
           /\ answer.document \in {"none", "result", "problem"}
           /\ sent = [status |-> sent.status, documents |-> sent.documents]
  BY DEF PipeProofs!IInv, PipeProofs!TypeOK, PipeProofs!ProgressOK,
         PipeProofs!UnknownOK, PipeProofs!Fresh, PipeProofs!Empty, Before,
         PipeProofs!NoUser, Pipe!NoUser, PipeProofs!ChiRoutes

\* What the invariant of the store says of Me.
LEMMA StoreSays ==
    ASSUME StoreProofs!IInv
    PROVE  /\ pc[Me] = "idle" => /\ call[Me].op = "none"
                                 /\ Store!Effects(Me) = {}
           /\ wire[Me] # {} => Store!Mutates(Me)
           /\ call[Me].op \in {"none", "create", "get", "update", "delete"}
           /\ response[Me].status \in {0, 200, 201, 204, 404, 409, 422, 500, 503}
           /\ Store!Mutates(Me) /\ response[Me].status \in {200, 201, 204} =>
                 Store!Effects(Me) # {}
           /\ response[Me].status \in {404, 409, 422} =>
                 /\ wire[Me] = {}
                 /\ Store!Mutates(Me) => Store!Effects(Me) = {}
  <1>1. Store!Effects(Me) = StoreProofs!Effects(Me)
    BY DEF Store!Effects, StoreProofs!Effects, Store!Version, StoreProofs!Version
  <1>2. Store!Mutates(Me) <=> StoreProofs!Mutates(Me)
    BY DEF Store!Mutates, StoreProofs!Mutates
  <1>3. resent[Me] = 0
    BY ServiceAssumption DEF StoreProofs!IInv, StoreProofs!TypeOK
  <1>4. StoreProofs!RequestOK(Me)
    BY ServiceAssumption DEF StoreProofs!IInv
  <1>5. /\ call[Me].op \in {"none", "create", "get", "update", "delete"}
        /\ response[Me].status \in {0, 200, 201, 204, 404, 409, 422, 500, 503}
    BY ServiceAssumption DEF StoreProofs!IInv, StoreProofs!TypeOK,
       StoreProofs!Call, StoreProofs!Operations, StoreProofs!Response,
       StoreProofs!Statuses
  <1>6. response[Me].status # 0 => response[Me] = result[Me]
    BY <1>4 DEF StoreProofs!RequestOK, StoreProofs!HistoryOK,
       StoreProofs!NoResponse
  <1>7. StoreProofs!PlaceOK(Me) /\ StoreProofs!HistoryOK(Me) /\ StoreProofs!OnceOK(Me)
    BY <1>4 DEF StoreProofs!RequestOK
  <1> QED
    BY <1>1, <1>2, <1>3, <1>5, <1>6, <1>7
       DEF StoreProofs!PlaceOK, StoreProofs!HistoryOK,
           StoreProofs!OnceOK, StoreProofs!Successes, StoreProofs!Refusals
-----------------------------------------------------------------------------
(* The steps of the pipeline                                               *)

\* The documents that may have been written.
LEMMA Documents ==
    ASSUME NEW d \in {"none", "result", "problem", "part"}
    PROVE  /\ Append(<<>>, d) # <<>>
           /\ Append(<<>>, d) = <<"result">> => d = "result"
  <1>1. Append(<<>>, d) = <<d>>
    OBVIOUS
  <1> QED
    BY <1>1

\* They leave what the store knows of Me alone.
LEMMA StoreAlone ==
    ASSUME UNCHANGED store
    PROVE  /\ pc' = pc /\ call' = call /\ response' = response /\ wire' = wire
           /\ Store!Effects(Me)' = Store!Effects(Me)
           /\ Store!Mutates(Me)' <=> Store!Mutates(Me)
  BY DEF store, Store!Effects, Store!Mutates, Store!Version

\* A step that does not change the answer, nor what was sent.
LEMMA QuietStep ==
    ASSUME Meets, UNCHANGED store,
           route' = route, method' = method, answer' = answer, sent' = sent,
           user' = user \/ user' # Pipe!NoUser,
           at' \in Before \union {"operation"} =>
              at' = at \/ at \in Before,
           at' \in Before => at \in Before
    PROVE  Meets'
  <1>1. /\ pc' = pc /\ call' = call /\ response' = response
        /\ Store!Effects(Me)' = Store!Effects(Me)
        /\ Store!Mutates(Me)' <=> Store!Mutates(Me)
    BY StoreAlone
  <1>2. user' = Pipe!NoUser \/ at' \in Before => pc'[Me] = "idle"
    BY <1>1 DEF Meets, CallOK, Pipe!NoUser
  <1>3. CallOK'
    BY <1>1, <1>2 DEF Meets, CallOK, Before, Pipe!NoUser
  <1>4. at' \in Before \union {"operation"} => answer'.status = 0
    BY DEF Meets, AnswerOK
  <1>5. AnswerOK'
    BY <1>1, <1>4 DEF Meets, AnswerOK, Before, Pipe!Result, Pipe!Successes
  <1>6. SentOK'
    BY DEF Meets, SentOK
  <1> QED
    BY <1>3, <1>5, <1>6 DEF Meets

\* A refusal of the middlewares or of the input, before anything was sent.
LEMMA RefusalStep ==
    ASSUME PipeProofs!IInv, Meets, UNCHANGED store,
           route' = route, method' = method, user' = user, sent' = sent,
           at \in Before, at' = "write",
           NEW status \in 400..599, answer' = Pipe!Problem(status)
    PROVE  Meets'
  <1>1. CallOK'
    BY StoreAlone DEF Meets, CallOK, Before, Pipe!NoUser
  <1>2. AnswerOK'
    <2>1. pc'[Me] = "idle"
      BY StoreAlone DEF Meets, CallOK
    <2>2. answer'.status = status /\ answer'.document = "problem"
      BY DEF Pipe!Problem
    <2> QED
      BY <2>1, <2>2 DEF AnswerOK, Before
  <1>3. sent' = [status |-> 0, documents |-> <<>>]
    BY PipeSays
  <1>4. SentOK'
    BY <1>3 DEF SentOK
  <1> QED
    BY <1>1, <1>2, <1>4 DEF Meets

\* Writing, recording and recovering.
LEMMA WritingStep ==
    ASSUME PipeProofs!IInv, Meets, UNCHANGED store,
           \/ Pipe!WriteHeader \/ Pipe!WriteDocument \/ Pipe!LogAccess
           \/ Pipe!Recover \/ Pipe!ServerFinish \/ Pipe!Panic
    PROVE  Meets'
  <1>1. /\ route' = route /\ method' = method /\ user' = user
        /\ answer' = answer
        /\ at' \in {"document", "access", "recover", "server", "done"}
    BY DEF Pipe!WriteHeader, Pipe!WriteDocument, Pipe!LogAccess, Pipe!Recover,
           Pipe!ServerFinish, Pipe!Panic, Pipe!input
  <1>2. CallOK'
    BY <1>1, StoreAlone DEF Meets, CallOK, Before, Pipe!NoUser
  <1>3. AnswerOK'
    BY <1>1, StoreAlone DEF Meets, AnswerOK, Before, Pipe!Result, Pipe!Successes
  <1>4. ASSUME Pipe!WriteHeader PROVE SentOK'
    <2>1. sent' = [status |-> answer.status, documents |-> <<>>]
      BY <1>4, PipeSays DEF Pipe!WriteHeader
    <2> QED
      BY <1>1, <2>1, Documents DEF SentOK
  <1>5. ASSUME Pipe!WriteDocument PROVE SentOK'
    <2>1. sent = [status |-> answer.status, documents |-> <<>>]
      BY <1>5, PipeSays DEF Pipe!WriteDocument
    <2>2. sent' = [sent EXCEPT !.documents = Append(@, answer.document)]
      BY <1>5 DEF Pipe!WriteDocument
    <2>3. /\ sent'.status = answer.status
          /\ sent'.documents = Append(<<>>, answer.document)
      BY <2>1, <2>2
    <2> QED
      BY <1>1, <2>3, PipeSays, Documents DEF SentOK
  <1>6. ASSUME Pipe!LogAccess PROVE SentOK'
    BY <1>1, <1>6 DEF Meets, SentOK, Pipe!LogAccess
  <1>7. ASSUME Pipe!ServerFinish PROVE SentOK'
    <2>1. \/ sent' = sent
          \/ sent'.status = 200 /\ sent'.documents = sent.documents
      BY <1>7, PipeSays DEF Pipe!ServerFinish
    <2> QED
      BY <1>1, <2>1 DEF Meets, SentOK
  <1>8. ASSUME Pipe!Recover PROVE SentOK'
    <2>1. \/ sent' = sent
          \/ /\ sent.documents = <<>> /\ sent'.status = 500
             /\ sent'.documents = Append(sent.documents, "problem")
      BY <1>8, PipeSays DEF Pipe!Recover, Pipe!Recovery
    <2>2. CASE sent' = sent
      BY <1>1, <2>2 DEF Meets, SentOK
    <2>3. CASE /\ sent.documents = <<>> /\ sent'.status = 500
               /\ sent'.documents = Append(sent.documents, "problem")
      <3>1. sent'.documents # <<"result">>
        BY <2>3, Documents
      <3> QED
        BY <2>3, <3>1 DEF SentOK
    <2> QED
      BY <2>1, <2>2, <2>3
  <1>9. ASSUME Pipe!Panic PROVE SentOK'
    <2>1. CASE sent' = sent
      BY <1>1, <2>1 DEF Meets, SentOK
    <2>2. CASE at = "document" /\ sent' = [sent EXCEPT !.documents = Append(@, "part")]
      <3>1. sent = [status |-> answer.status, documents |-> <<>>]
        BY <2>2, PipeSays
      <3>2. /\ sent'.status = answer.status
            /\ sent'.documents = Append(<<>>, "part")
        BY <2>2, <3>1
      <3>3. sent'.documents # <<"result">>
        BY <3>2, Documents
      <3> QED
        BY <1>1, <3>2, <3>3 DEF SentOK
    <2> QED
      BY <1>9, <2>1, <2>2 DEF Pipe!Panic
  <1> QED
    BY <1>1, <1>2, <1>3, <1>4, <1>5, <1>6, <1>7, <1>8, <1>9 DEF Meets

\* Up to the operation, and from its answer to the end of the request.
LEMMA AroundOK ==
    ASSUME PipeProofs!IInv, Meets, Around
    PROVE  Meets'
  <1>1. UNCHANGED store /\ route = "protected"
    BY DEF Around, Meets
  <1>2. CASE Pipe!Enter
    <2>1. /\ route' = route /\ method' = method /\ user' = user
          /\ answer' = answer /\ sent' = sent
          /\ at \in Before /\ at' = "auth"
      BY <1>1, <1>2 DEF Pipe!Enter, Pipe!input, Pipe!ChiRoutes,
         Pipe!Operations, Before
    <2> QED
      BY <1>1, <2>1, QuietStep
  <1>3. CASE Pipe!ServeChi
    BY <1>1, <1>3, PipeSays DEF Pipe!ServeChi
  <1>4. CASE Pipe!Authenticate
    <2>1. /\ route' = route /\ method' = method /\ user' = user
          /\ sent' = sent /\ at \in Before
      BY <1>4 DEF Pipe!Authenticate, Pipe!input, Before
    <2>2. \/ at' = "verify" /\ answer' = answer
          \/ /\ at' = "write"
             /\ \E status \in {401, 503} : answer' = Pipe!Problem(status)
      BY <1>1, <1>4 DEF Pipe!Authenticate, Pipe!Refuse
    <2>3. CASE at' = "verify" /\ answer' = answer
      BY <1>1, <2>1, <2>3, QuietStep
    <2>4. ASSUME NEW status \in {401, 503}, answer' = Pipe!Problem(status),
                 at' = "write"
          PROVE  Meets'
      <3>1. status \in 400..599
        OBVIOUS
      <3> QED
        BY <1>1, <2>1, <2>4, <3>1, RefusalStep
    <2> QED
      BY <2>2, <2>3, <2>4
  <1>5. CASE Pipe!Decide
    <2>1. /\ route' = route /\ method' = method
          /\ sent' = sent /\ at \in Before
      BY <1>5 DEF Pipe!Decide, Pipe!input, Before
    <2>2. \/ at' = "access" /\ answer' = answer /\ user' = user
          \/ at' = "body" /\ answer' = answer /\ user' # Pipe!NoUser
          \/ /\ at' = "write" /\ user' = user
             /\ \E status \in {401, 503} : answer' = Pipe!Problem(status)
      BY <1>5 DEF Pipe!Decide, Pipe!Refuse, Pipe!Accepts
    <2>3. CASE at' = "access" /\ answer' = answer /\ user' = user
      BY <1>1, <2>1, <2>3, QuietStep DEF Before
    <2>4. CASE at' = "body" /\ answer' = answer /\ user' # Pipe!NoUser
      BY <1>1, <2>1, <2>4, QuietStep
    <2>5. ASSUME NEW status \in {401, 503}, answer' = Pipe!Problem(status),
                 at' = "write", user' = user
          PROVE  Meets'
      <3>1. status \in 400..599
        OBVIOUS
      <3> QED
        BY <1>1, <2>1, <2>5, <3>1, RefusalStep
    <2> QED
      BY <2>2, <2>3, <2>4, <2>5
  <1>6. CASE Pipe!ReadInput
    <2>1. /\ route' = route /\ method' = method /\ user' = user
          /\ sent' = sent /\ at \in Before
      BY <1>6 DEF Pipe!ReadInput, Pipe!input, Before
    <2>2. \/ at' = "operation" /\ answer' = answer
          \/ /\ at' = "write"
             /\ \E status \in {400, 408, 413, 415, 422} :
                   answer' = Pipe!Problem(status)
      BY <1>6 DEF Pipe!ReadInput
    <2>3. CASE at' = "operation" /\ answer' = answer
      BY <1>1, <2>1, <2>3, QuietStep
    <2>4. ASSUME NEW status \in {400, 408, 413, 415, 422},
                 answer' = Pipe!Problem(status), at' = "write"
          PROVE  Meets'
      <3>1. status \in 400..599
        OBVIOUS
      <3> QED
        BY <1>1, <2>1, <2>4, <3>1, RefusalStep
    <2> QED
      BY <2>2, <2>3, <2>4
  <1>7. CASE \/ Pipe!WriteHeader \/ Pipe!WriteDocument \/ Pipe!LogAccess
             \/ Pipe!Recover \/ Pipe!ServerFinish \/ Pipe!Panic
    BY <1>1, <1>7, WritingStep
  <1> QED
    BY <1>2, <1>3, <1>4, <1>5, <1>6, <1>7 DEF Around, Pipe!Run

\* The verifier, the operation, and the end of the context.
LEMMA WaitingOK ==
    ASSUME PipeProofs!IInv, Meets, Verify \/ Operate \/ ContextEnds
    PROVE  Meets'
  <1>1. UNCHANGED store
    BY DEF Verify, Operate, ContextEnds
  <1>2. CASE Verify
    <2>1. /\ route' = route /\ method' = method /\ user' = user
          /\ answer' = answer /\ sent' = sent
          /\ at \in Before /\ at' = "decide"
      BY <1>2 DEF Verify, Pipe!Verify, Pipe!input, Before
    <2> QED
      BY <1>1, <2>1, QuietStep
  <1>3. CASE ContextEnds
    <2>1. /\ route' = route /\ method' = method /\ user' = user
          /\ answer' = answer /\ sent' = sent /\ at' = at
      BY <1>3 DEF ContextEnds, Pipe!DeadlinePasses, Pipe!ClientGone, Pipe!input
    <2> QED
      BY <1>1, <2>1, QuietStep
  <1>4. CASE Operate
    <2>1. /\ route' = route /\ method' = method /\ user' = user
          /\ sent' = sent /\ at = "operation" /\ at' = "write"
          /\ pc[Me] = "done" /\ answer' = Pipe!Result(response[Me].status)
      BY <1>4 DEF Operate, Pipe!Operate, Pipe!input
    <2>2. CallOK'
      BY <1>1, <2>1, StoreAlone DEF Meets, CallOK, Before, Pipe!NoUser
    <2>3. AnswerOK'
      BY <1>1, <2>1, StoreAlone
         DEF AnswerOK, Before, Pipe!Result, Pipe!Successes
    <2>4. sent' = [status |-> 0, documents |-> <<>>]
      BY <2>1, PipeSays
    <2>5. SentOK'
      BY <2>4 DEF SentOK
    <2> QED
      BY <2>1, <2>2, <2>3, <2>5 DEF Meets
  <1> QED
    BY <1>2, <1>3, <1>4
-----------------------------------------------------------------------------
(* The steps of the store                                                  *)

\* What the store knows of the requests is kept in functions.
LEMMA StoreTypes ==
    ASSUME StoreProofs!IInv
    PROVE  /\ Me \in Requests
           /\ Me \in DOMAIN pc /\ Me \in DOMAIN call /\ Me \in DOMAIN response
           /\ call[Me] = [op |-> call[Me].op, uid |-> call[Me].uid,
                          fields |-> call[Me].fields]
  BY ServiceAssumption
     DEF StoreProofs!IInv, StoreProofs!TypeOK, StoreProofs!Call

\* While Me has no write in flight nothing of it is applied.
LEMMA EffectsKept ==
    ASSUME StoreProofs!IInv, Store!Next, wire[Me] = {}
    PROVE  Store!Effects(Me)' = Store!Effects(Me)
  <1>1. StoreProofs!Effects(Me)' = StoreProofs!Effects(Me)
    BY Assumptions, ServiceAssumption, SameStoreStep, StoreProofs!EffectsChange
  <1>2. Store!Effects(Me) = StoreProofs!Effects(Me)
    BY DEF Store!Effects, StoreProofs!Effects, Store!Version, StoreProofs!Version
  <1>3. Store!Effects(Me)' = StoreProofs!Effects(Me)'
    BY DEF Store!Effects, StoreProofs!Effects, Store!Version, StoreProofs!Version
  <1> QED
    BY <1>1, <1>2, <1>3

\* The call begins: the operation is that of the method.
LEMMA CallStoreMe ==
    ASSUME StoreProofs!IInv, CallStore
    PROVE  /\ pc[Me] = "idle" /\ at = "operation"
           /\ call'[Me].op # "none"
           /\ call'[Me].op = "get" <=> method = "GET"
  <1>1. /\ pc[Me] = "idle"
        /\ \E F \in SUBSET Fields, op \in {"create", "get", "update", "delete"} :
              call' \in {[call EXCEPT ![Me].op = op],
                         [call EXCEPT ![Me].op = op, ![Me].fields = F]}
    BY DEF CallStore, Store!Handle, Store!HandleCreate, Store!HandleGet,
       Store!HandleUpdate, Store!HandleDelete
  <1>2. call'[Me].op # "none"
    BY <1>1, StoreTypes
  <1> QED
    BY <1>1, <1>2 DEF CallStore

\* The other steps of the store leave the call of Me as it is, and what they
\* change of Me they change while the operation waits.
LEMMA StoreStepsMe ==
    ASSUME StoreProofs!IInv, StoreReturns \/ StoreSeesContext \/ Elsewhere
    PROVE  /\ call'[Me] = call[Me]
           /\ \/ pc'[Me] = pc[Me] /\ response'[Me] = response[Me]
              \/ at = "operation" /\ pc[Me] # "idle" /\ pc'[Me] # "idle"
  <1>1. CASE StoreReturns
    <2>1. call' = call /\ at = "operation" /\ pc[Me] # "idle"
      BY <1>1 DEF StoreReturns, Store!Return, Store!CreateReturn,
         Store!GetReturn, Store!UpdateClosure, Store!UpdateRetry,
         Store!UpdateReturn, Store!DeleteReturn, Store!Respond
    <2>2. \E place \in {"answering", "done", "commit", "txget"} :
             pc' = [pc EXCEPT ![Me] = place]
      BY <1>1 DEF StoreReturns, Store!Return, Store!CreateReturn,
         Store!GetReturn, Store!UpdateClosure, Store!UpdateRetry,
         Store!UpdateReturn, Store!DeleteReturn, Store!Respond,
         Store!FailUpdate, Store!Finish, Store!Send
    <2> QED
      BY <2>1, <2>2, StoreTypes
  <1>2. CASE StoreSeesContext
    BY <1>2 DEF StoreSeesContext, Store!Expire, Store!Cancel, Store!ContextDone
  <1>3. CASE Elsewhere /\ (Store!Serve(Me) \/ Store!Fault(Me))
    BY <1>3 DEF Store!Serve, Store!ServeCreate, Store!ServeCommit,
       Store!ServeDelete, Store!ServeRead, Store!Fault
  <1>4. ASSUME NEW r \in Requests \ {Me},
               \/ Store!Handle(r) \/ Store!Return(r) \/ Store!Serve(r)
               \/ Store!Fault(r) \/ Store!Cancel(r) \/ Store!Expire(r)
        PROVE  /\ call'[Me] = call[Me]
               /\ pc'[Me] = pc[Me] /\ response'[Me] = response[Me]
    <2>1. CASE Store!Handle(r)
      <3>1. /\ \E place \in {"create", "get", "answering", "txget", "delete"} :
                  pc' = [pc EXCEPT ![r] = place]
            /\ \E F \in SUBSET Fields, op \in {"create", "get", "update", "delete"} :
                  call' \in {[call EXCEPT ![r].op = op],
                             [call EXCEPT ![r].op = op, ![r].fields = F]}
            /\ response' = response
        BY <2>1 DEF Store!Handle, Store!HandleCreate, Store!HandleGet,
           Store!HandleUpdate, Store!HandleDelete, Store!Send, Store!Finish
      <3> QED
        BY <3>1, StoreTypes
    <2>2. CASE Store!Return(r)
      <3> USE <2>2 DEF Store!Return, Store!CreateReturn, Store!GetReturn,
              Store!UpdateClosure, Store!UpdateRetry, Store!UpdateReturn,
              Store!DeleteReturn, Store!Respond, Store!FailUpdate,
              Store!Finish
      <3>1. call' = call
        OBVIOUS
      <3>2. \E place \in {"answering", "done", "commit", "txget"} :
               pc' = [pc EXCEPT ![r] = place]
        BY DEF Store!Send
      <3>3. \/ response' = response
            \/ \E answered : response' = [response EXCEPT ![r] = answered]
        OBVIOUS
      <3> QED
        BY <3>1, <3>2, <3>3, StoreTypes
    <2>3. CASE \/ Store!Serve(r) \/ Store!Fault(r)
               \/ Store!Cancel(r) \/ Store!Expire(r)
      BY <2>3 DEF Store!Serve, Store!ServeCreate, Store!ServeCommit,
         Store!ServeDelete, Store!ServeRead, Store!Fault, Store!Cancel,
         Store!Expire, Store!ContextDone
    <2> QED
      BY <1>4, <2>1, <2>2, <2>3
  <1> QED
    BY <1>1, <1>2, <1>3, <1>4 DEF Elsewhere

\* A step of the store.
LEMMA StoreOK ==
    ASSUME PipeProofs!IInv, StoreProofs!IInv, Meets,
           CallStore \/ StoreReturns \/ StoreSeesContext \/ Elsewhere
    PROVE  Meets'
  <1>1. /\ route' = route /\ method' = method /\ user' = user /\ at' = at
        /\ answer' = answer /\ sent' = sent
    BY DEF CallStore, StoreReturns, StoreSeesContext, Elsewhere, pipeline
  <1>2. Store!Next
    BY ServiceAssumption
       DEF CallStore, StoreReturns, StoreSeesContext, Elsewhere, Store!Next
  <1>3. wire[Me] = {} => Store!Effects(Me)' = Store!Effects(Me)
    BY <1>2, EffectsKept
  <1>4. CASE CallStore
    <2>1. /\ pc[Me] = "idle" /\ at = "operation"
          /\ call'[Me].op # "none"
          /\ call'[Me].op = "get" <=> method = "GET"
      BY <1>4, CallStoreMe
    <2>2. wire[Me] = {} /\ Store!Effects(Me) = {}
      BY <2>1, StoreSays DEF Store!Mutates
    <2>3. user # Pipe!NoUser /\ answer.status = 0
      BY <2>1, PipeSays DEF Meets, AnswerOK
    <2>4. CallOK'
      BY <1>1, <1>3, <2>1, <2>2, <2>3 DEF CallOK, Before, Pipe!NoUser
    <2>5. AnswerOK'
      BY <1>1, <2>3 DEF Meets, AnswerOK, Before
    <2> QED
      BY <1>1, <2>4, <2>5 DEF Meets, SentOK
  <1>5. CASE StoreReturns \/ StoreSeesContext \/ Elsewhere
    <2>1. /\ call'[Me] = call[Me]
          /\ \/ pc'[Me] = pc[Me] /\ response'[Me] = response[Me]
             \/ at = "operation" /\ pc[Me] # "idle" /\ pc'[Me] # "idle"
      BY <1>5, StoreStepsMe
    <2>2. Store!Mutates(Me)' <=> Store!Mutates(Me)
      BY <2>1 DEF Store!Mutates
    <2>3. ~Store!Mutates(Me)' => Store!Effects(Me)' = {}
      BY <1>3, <2>2, StoreSays DEF Meets, CallOK
    <2>4. user = Pipe!NoUser \/ at \in Before => pc'[Me] = "idle"
      BY <2>1 DEF Meets, CallOK
    <2>5. CallOK'
      BY <1>1, <2>1, <2>3, <2>4 DEF Meets, CallOK, Before, Pipe!NoUser
    <2>6. AnswerOK'
      BY <1>1, <2>1 DEF Meets, AnswerOK, Before, Pipe!Result, Pipe!Successes
    <2> QED
      BY <1>1, <2>5, <2>6 DEF Meets, SentOK
  <1> QED
    BY <1>4, <1>5
-----------------------------------------------------------------------------
(* The client is told the truth                                            *)

\* At first nothing was asked or answered.
LEMMA MeetsAtFirst == Init => Meets
  <1> SUFFICES ASSUME Init PROVE Meets
    OBVIOUS
  <1>1. /\ at = "outer" /\ answer = [status |-> 0, document |-> "none"]
        /\ sent = [status |-> 0, documents |-> <<>>] /\ route = "protected"
        /\ pc[Me] = "idle" /\ log \in [Users -> {<<>>}]
    BY ServiceAssumption DEF Init, Pipe!Init, Pipe!NoReply, Store!Init
  <1>2. call[Me].uid \in Users
    BY ServiceAssumption DEF Init, Store!Init
  <1>3. Store!Effects(Me) = {}
    BY <1>1, <1>2 DEF Store!Effects, Store!Version
  <1>4. CallOK /\ AnswerOK
    BY <1>1, <1>3 DEF CallOK, AnswerOK
  <1>5. SentOK
    BY <1>1 DEF SentOK
  <1> QED
    BY <1>1, <1>4, <1>5 DEF Meets

\* Every step keeps what holds where the components meet.
LEMMA MeetsStep ==
    PipeProofs!IInv /\ StoreProofs!IInv /\ Meets /\ [Next]_vars => Meets'
  <1> SUFFICES ASSUME PipeProofs!IInv, StoreProofs!IInv, Meets, [Next]_vars
               PROVE  Meets'
    OBVIOUS
  <1>1. CASE UNCHANGED vars
    <2>1. /\ UNCHANGED store
          /\ route' = route /\ method' = method /\ user' = user
          /\ answer' = answer /\ sent' = sent /\ at' = at
      BY <1>1 DEF vars, pipeline
    <2> QED
      BY <2>1, QuietStep
  <1> QED
    BY <1>1, AroundOK, WaitingOK, StoreOK DEF Next

\* The invariants of the components and where they meet imply the property.
LEMMA MeetsTellsTheTruth ==
    PipeProofs!IInv /\ StoreProofs!IInv /\ Meets => ClientIsToldTheTruth
  <1> SUFFICES ASSUME PipeProofs!IInv, StoreProofs!IInv, Meets
               PROVE  ClientIsToldTheTruth
    OBVIOUS
  <1>1. user = Pipe!NoUser => ~Applied /\ ~Pending
    BY StoreSays DEF Meets, CallOK, Applied, Pending, Store!Mutates
  <1>2. ASSUME sent.documents = <<"result">> \/ sent.status = 204, method # "GET"
        PROVE  Applied
    <2>1. pc[Me] = "done" /\ answer = Pipe!Result(response[Me].status)
      <3>1. CASE answer.status = 0
        BY <1>2, <3>1 DEF Meets, SentOK, AnswerOK
      <3>2. CASE answer.status # 0
        BY <1>2, <3>2 DEF Meets, SentOK, AnswerOK
      <3> QED
        BY <3>1, <3>2
    <2>2. response[Me].status \in {200, 201, 204}
      BY <1>2, <2>1 DEF Meets, SentOK, Pipe!Result, Pipe!Successes
    <2>3. Store!Mutates(Me)
      BY <1>2, <2>1, StoreSays DEF Meets, CallOK, Store!Mutates
    <2> QED
      BY <2>2, <2>3, StoreSays DEF Applied
  <1>3. ASSUME sent.status \in 400..499
        PROVE  ~Applied /\ ~Pending
    <2>1. answer.status = sent.status
      BY <1>3 DEF Meets, SentOK
    <2>2. CASE pc[Me] = "idle"
      BY <2>2, StoreSays DEF Applied, Pending, Store!Mutates
    <2>3. CASE pc[Me] = "done" /\ answer = Pipe!Result(response[Me].status)
      <3>1. response[Me].status \in {404, 409, 422}
        BY <1>3, <2>1, <2>3, StoreSays DEF Pipe!Result
      <3> QED
        BY <3>1, StoreSays DEF Meets, CallOK, Applied, Pending
    <2> QED
      BY <1>3, <2>1, <2>2, <2>3 DEF Meets, AnswerOK
  <1> QED
    BY <1>1, <1>2, <1>3 DEF ClientIsToldTheTruth

\* What the client is told about its profile is true of the document, for
\* any requests, users, fields, faults, attempts and verifiers.
THEOREM ToldTheTruth == Spec => []ClientIsToldTheTruth
  BY MeetsAtFirst, MeetsStep, MeetsTellsTheTruth, PipeInvariant,
     StoreInvariant, PTL DEF Spec
=============================================================================
