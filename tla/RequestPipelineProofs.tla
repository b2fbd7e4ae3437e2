------------------------ MODULE RequestPipelineProofs -----------------------
(***************************************************************************)
(* Proofs about RequestPipeline: a protected operation fails closed,       *)
(* answers are whole and the access log is true, for every set of          *)
(* verifiers and of statuses of the operations.                            *)
(***************************************************************************)
EXTENDS RequestPipeline, TLAPS

(* The inductive invariant.                                                *)

Places == {"outer", "chi", "auth", "verify", "decide", "body", "operation",
           "write", "document", "access", "recover", "server", "done"}

\* Every variable keeps its type, and a request that is over has unwound.
TypeOK ==
    /\ route \in Routes /\ method \in MethodsOf(route)
    /\ header \in {"none", "malformed", "bearer"} /\ verifier \in Verifiers
    /\ at \in Places
    /\ ctx \in {"active", "canceled", "deadline"}
    /\ client \in {"connected", "gone"}
    /\ user \in Identities /\ verdict.user \in Identities
    /\ reply \in [status : Nat, document : {"none", "result", "problem"}]
    /\ sent \in [status : Nat, documents : Seq({"result", "problem", "part"})]
    /\ entries \in Seq([status : Nat, reason : {"no", "panic"}])
    /\ fields \in [challenge : BOOLEAN, retryAfter : BOOLEAN]
    /\ panicking \in {"no", "panic", "abort"}
    /\ outcome \in {"open", "complete", "aborted"}
    /\ outcome # "open" <=> at = "done"
    /\ outcome = "aborted" <=> at = "done" /\ panicking = "abort"
    /\ at \in {"server", "done"} => panicking # "panic"
    /\ Len(entries) <= 1

Empty == [status |-> 0, documents |-> <<>>]

HeaderFields == [challenge : BOOLEAN, retryAfter : BOOLEAN]
Replies == [status : Nat, document : {"none", "result", "problem"}]

\* Nothing was written, recorded or thrown yet.
Fresh == sent = Empty /\ panicking = "no" /\ entries = <<>>

\* The status and the document of a reply agree.
ReplyOK ==
    /\ reply.document = "none" => reply.status = 204
    /\ reply.document = "result" => reply.status \in Successes
    /\ reply.document = "problem" => reply.status >= 400

\* What was written is one answer.
Whole ==
    \/ sent.documents = <<>> /\ sent.status = 204
    \/ /\ sent.documents = <<>> /\ sent.status = 200
       /\ (route = "preflight" \/ ctx # "active")
    \/ sent.documents = <<"result">> /\ sent.status \in Successes
    \/ sent.documents = <<"problem">> /\ sent.status >= 400

\* How far the answer is at each place.
ProgressOK ==
    /\ at \in {"outer", "chi", "auth", "verify", "decide", "body",
               "operation", "write"} => Fresh
    /\ at = "document" =>
         /\ sent = [status |-> reply.status, documents |-> <<>>]
         /\ panicking = "no" /\ entries = <<>>
         /\ reply.document # "none"
    /\ at \in {"write", "document"} => ReplyOK
    /\ at \in {"access", "recover", "server"} /\ panicking = "no" =>
         Whole \/ (sent = Empty /\ ctx # "active")
    /\ at \in {"access", "recover"} /\ panicking # "no" /\ sent.status = 0 =>
         sent = Empty
    /\ at = "done" /\ panicking = "no" => Whole

\* What the access log says at each place.
LogOK ==
    /\ at = "access" \/ ~Logged => entries = <<>>
    /\ at = "recover" /\ Logged => entries = AccessEntries
    /\ at \in {"server", "done"} /\ Logged /\ panicking = "no" =>
         \/ entries = <<[status |-> sent.status, reason |-> "no"]>>
              /\ sent.status # 0
         \/ entries = <<[status |-> 0, reason |-> "panic"]>>
         \/ /\ entries = <<[status |-> 200, reason |-> "no"]>>
            /\ at = "server" /\ sent = Empty
    /\ at \in {"server", "done"} /\ panicking = "abort" =>
         \/ entries = <<>>
         \/ entries = <<[status |-> sent.status, reason |-> "panic"]>>
              /\ sent.status # 0

\* A protected request without an identity is refused or given up.
UnknownOK ==
    /\ at = "chi" => route \in ChiRoutes
    /\ at \in {"auth", "verify", "decide", "body", "operation"} =>
         route \in Operations
    /\ at = "verify" => verifier # "nil"
    /\ route = "protected" /\ user = NoUser =>
         /\ at \notin {"chi", "body", "operation"}
         /\ reply.status \notin Successes
         /\ reply.document # "result"
         /\ \A i \in DOMAIN sent.documents : sent.documents[i] = "problem"

IInv == TypeOK /\ ProgressOK /\ LogOK /\ UnknownOK
-----------------------------------------------------------------------------
(* One lemma for the first state and one for each action                   *)

\* The first state: nothing has been written, and nobody is known.
LEMMA InitOK == Init => IInv
  <1> SUFFICES ASSUME Init PROVE IInv
    OBVIOUS
  <1>1. TypeOK
    BY DEF Init, TypeOK, Places, NoReply, NoFields, Nobody, Identities
  <1>2. ProgressOK /\ LogOK
    BY DEF Init, ProgressOK, LogOK, Fresh, Empty
  <1>3. UnknownOK
    BY DEF Init, UnknownOK, NoReply, Successes
  <1> QED
    BY <1>1, <1>2, <1>3 DEF IInv

\* The outer middlewares write nothing, a preflight excepted.
LEMMA EnterOK ==
    ASSUME IInv, Enter
    PROVE  IInv'
  <1>1. TypeOK'
    BY DEF IInv, TypeOK, Enter, Places, input, environment, Routes, ChiRoutes,
           Operations, Result
  <1>2. ProgressOK'
    BY DEF IInv, TypeOK, ProgressOK, ReplyOK, Fresh, Empty, Whole, Enter,
           Routes, ChiRoutes, Operations, Result, Successes,
           input
  <1>3. LogOK'
    BY DEF IInv, TypeOK, LogOK, Enter, input, Routes, ChiRoutes, Operations,
           Logged
  <1>4. UnknownOK'
    BY DEF IInv, TypeOK, UnknownOK, Enter, input, Routes, ChiRoutes,
           Operations
  <1> QED
    BY <1>1, <1>2, <1>3, <1>4 DEF IInv

\* A handler of the router prepares an answer that is whole.
LEMMA ServeChiOK ==
    ASSUME IInv, ServeChi
    PROVE  IInv'
  <1>1. TypeOK'
    BY DEF IInv, TypeOK, UnknownOK, ServeChi, Places, input, environment,
           Result, Problem, ChiRoutes
  <1>2. ProgressOK'
    BY DEF IInv, ProgressOK, UnknownOK, ReplyOK, Fresh, ServeChi, Result,
           Problem, Successes, ChiRoutes
  <1>3. LogOK'
    BY DEF IInv, ProgressOK, LogOK, Fresh, ServeChi
  <1>4. UnknownOK'
    BY DEF IInv, UnknownOK, ServeChi, input
  <1> QED
    BY <1>1, <1>2, <1>3, <1>4 DEF IInv

\* A refusal is a reply and sets fields of the header.
LEMMA RefusalTypes ==
    ASSUME fields \in HeaderFields
    PROVE  /\ Challenge \in HeaderFields /\ RetryLater \in HeaderFields
           /\ Problem(401) \in Replies /\ Problem(503) \in Replies
  <1>1. Challenge \in HeaderFields
    BY DEF HeaderFields, Challenge
  <1>2. RetryLater \in HeaderFields
    BY DEF HeaderFields, RetryLater
  <1>3. Problem(401) \in Replies /\ Problem(503) \in Replies
    BY DEF Replies, Problem
  <1> QED
    BY <1>1, <1>2, <1>3

\* The middleware refuses, passes on or asks the verifier.
LEMMA AuthenticateOK ==
    ASSUME IInv, Authenticate
    PROVE  IInv'
  <1>1. TypeOK'
    <2>1. fields' \in HeaderFields /\ reply' \in Replies
      BY RefusalTypes DEF IInv, TypeOK, HeaderFields, Replies, Authenticate,
             Refuse
    <2>2. /\ user' \in Identities
          /\ at' \in Places /\ at # "done" /\ at' \notin {"server", "done"}
      BY DEF IInv, TypeOK, Authenticate, Refuse, Places
    <2>3. UNCHANGED <<input, environment, verdict, sent, panicking, entries,
                      outcome>>
      BY DEF Authenticate
    <2> QED
      BY <2>1, <2>2, <2>3 DEF IInv, TypeOK, HeaderFields, Replies, input,
             environment
  <1>2. ProgressOK'
    BY DEF IInv, ProgressOK, ReplyOK, Fresh, Authenticate, Refuse, Problem
  <1>3. LogOK'
    BY DEF IInv, ProgressOK, LogOK, Fresh, Authenticate, Refuse
  <1>4. UnknownOK'
    BY DEF IInv, UnknownOK, Authenticate, input, Refuse, Problem, Successes
  <1> QED
    BY <1>1, <1>2, <1>3, <1>4 DEF IInv

\* What the verifiers return.
LEMMA VerdictTypes ==
    ASSUME verifier \in {"offline", "firebase"}, NEW v \in Verdicts
    PROVE  v.user \in Identities
  BY DEF Verdicts, Identities

\* A verdict changes nothing that is written.
LEMMA VerifyOK ==
    ASSUME IInv, Verify
    PROVE  IInv'
  <1>1. TypeOK'
    BY VerdictTypes, PipelineAssumption
       DEF IInv, TypeOK, UnknownOK, Verify, Places, input, environment
  <1>2. ProgressOK'
    BY DEF IInv, ProgressOK, Fresh, Verify
  <1>3. LogOK'
    BY DEF IInv, ProgressOK, LogOK, Fresh, Verify
  <1>4. UnknownOK'
    BY DEF IInv, UnknownOK, Verify, input
  <1> QED
    BY <1>1, <1>2, <1>3, <1>4 DEF IInv

\* Only an identity leads to the operation.
LEMMA DecideOK ==
    ASSUME IInv, Decide
    PROVE  IInv'
  <1>1. TypeOK'
    <2>1. fields' \in HeaderFields /\ reply' \in Replies
      BY RefusalTypes DEF IInv, TypeOK, HeaderFields, Replies, Decide, Refuse
    <2>2. /\ user' \in Identities
          /\ at' \in Places /\ at # "done" /\ at' \notin {"server", "done"}
      BY DEF IInv, TypeOK, Decide, Refuse, Places
    <2>3. UNCHANGED <<input, environment, verdict, sent, panicking, entries,
                      outcome>>
      BY DEF Decide
    <2> QED
      BY <2>1, <2>2, <2>3 DEF IInv, TypeOK, HeaderFields, Replies, input,
             environment
  <1>2. ProgressOK'
    BY DEF IInv, ProgressOK, ReplyOK, Fresh, Decide, Refuse, Problem, Empty,
           StaysSilent, environment
  <1>3. LogOK'
    BY DEF IInv, ProgressOK, LogOK, Fresh, Decide, Refuse
  <1>4. UnknownOK'
    BY DEF IInv, UnknownOK, Decide, input, Refuse, Problem, Successes, Accepts
  <1> QED
    BY <1>1, <1>2, <1>3, <1>4 DEF IInv

\* Input that is not read ends in a problem.
LEMMA ReadInputOK ==
    ASSUME IInv, ReadInput
    PROVE  IInv'
  <1>1. TypeOK'
    BY DEF IInv, TypeOK, ReadInput, Places, input, environment, Problem
  <1>2. ProgressOK'
    BY DEF IInv, ProgressOK, ReplyOK, Fresh, ReadInput, Problem
  <1>3. LogOK'
    BY DEF IInv, ProgressOK, LogOK, Fresh, ReadInput
  <1>4. UnknownOK'
    BY DEF IInv, UnknownOK, ReadInput, input
  <1> QED
    BY <1>1, <1>2, <1>3, <1>4 DEF IInv

\* The operation answers with one of its statuses.
LEMMA OperateOK ==
    ASSUME IInv, Operate
    PROVE  IInv'
  <1>1. TypeOK'
    <2>1. /\ OperationStatuses \subseteq Nat
          /\ \A status \in OperationStatuses :
                Result(status) \in Replies
      BY PipelineAssumption DEF Result, Successes, Replies
    <2>2. reply' \in Replies /\ at = "operation" /\ at' = "write"
      BY <2>1 DEF Operate
    <2> QED
      BY <2>2 DEF IInv, TypeOK, Operate, Places, Replies, input, environment
  <1>2. ProgressOK'
    BY PipelineAssumption DEF IInv, ProgressOK, ReplyOK, Fresh, Operate,
           Result
  <1>3. LogOK'
    BY DEF IInv, ProgressOK, LogOK, Fresh, Operate
  <1>4. UnknownOK'
    BY DEF IInv, UnknownOK, Operate, input
  <1> QED
    BY <1>1, <1>2, <1>3, <1>4 DEF IInv

\* The status line goes out before the document.
LEMMA WriteHeaderOK ==
    ASSUME IInv, WriteHeader
    PROVE  IInv'
  <1>1. TypeOK'
    BY DEF IInv, TypeOK, WriteHeader, Places, input, environment
  <1>2. ProgressOK'
    BY DEF IInv, ProgressOK, ReplyOK, Fresh, Empty, Whole, WriteHeader,
           input, environment
  <1>3. LogOK'
    BY DEF IInv, ProgressOK, LogOK, Fresh, WriteHeader
  <1>4. UnknownOK'
    BY DEF IInv, UnknownOK, WriteHeader, input
  <1> QED
    BY <1>1, <1>2, <1>3, <1>4 DEF IInv

\* The document completes the answer.
LEMMA WriteDocumentOK ==
    ASSUME IInv, WriteDocument
    PROVE  IInv'
  <1>1. TypeOK'
    <2>1. sent' \in [status : Nat,
                     documents : Seq({"result", "problem", "part"})]
      BY DEF IInv, TypeOK, ProgressOK, WriteDocument
    <2> QED
      BY <2>1 DEF IInv, TypeOK, WriteDocument, Places, input, environment
  <1>2. ProgressOK'
    <2>1. sent' = [status |-> reply.status, documents |-> <<reply.document>>]
      BY DEF IInv, ProgressOK, WriteDocument
    <2>2. ReplyOK /\ reply.document \in {"result", "problem"}
      BY DEF IInv, TypeOK, ProgressOK, WriteDocument
    <2>3. Whole'
      BY <2>1, <2>2 DEF Whole, ReplyOK
    <2>4. at' = "access" /\ panicking' = "no"
      BY DEF IInv, ProgressOK, WriteDocument
    <2> QED
      BY <2>3, <2>4 DEF ProgressOK
  <1>3. LogOK'
    BY DEF IInv, ProgressOK, LogOK, WriteDocument
  <1>4. UnknownOK'
    BY DEF IInv, TypeOK, ProgressOK, UnknownOK, WriteDocument, input
  <1> QED
    BY <1>1, <1>2, <1>3, <1>4 DEF IInv

\* A panic leaves what was written before it.
LEMMA PanicOK ==
    ASSUME IInv, Panic
    PROVE  IInv'
  <1>1. TypeOK'
    BY DEF IInv, TypeOK, ProgressOK, Panic, Places, input, environment
  <1>2. ProgressOK'
    BY DEF IInv, ProgressOK, ReplyOK, Fresh, Panic, Successes
  <1>3. LogOK'
    BY DEF IInv, ProgressOK, LogOK, Fresh, Panic
  <1>4. UnknownOK'
    BY DEF IInv, UnknownOK, Panic, input
  <1> QED
    BY <1>1, <1>2, <1>3, <1>4 DEF IInv

\* The entry tells what was written so far.
LEMMA LogAccessOK ==
    ASSUME IInv, LogAccess
    PROVE  IInv'
  <1>1. TypeOK'
    <2> DEFINE Entries == [status : Nat, reason : {"no", "panic"}]
               Entry == [status |-> IF sent.status = 0 /\ panicking = "no"
                                      THEN 200 ELSE sent.status,
                         reason |-> panicking]
    <2>1. entries = <<>>
      BY DEF IInv, LogOK, LogAccess
    <2>2. panicking # "abort" => Entry \in Entries
      BY DEF IInv, TypeOK
    <2>3. entries' = <<>> \/ (panicking # "abort" /\ entries' = <<Entry>>)
      BY <2>1 DEF LogAccess, AccessEntries
    <2> HIDE DEF Entry, Entries
    <2>4. ASSUME entries' = <<>>
          PROVE  entries' \in Seq(Entries) /\ Len(entries') <= 1
      BY <2>4
    <2>5. ASSUME Entry \in Entries, entries' = <<Entry>>
          PROVE  entries' \in Seq(Entries) /\ Len(entries') <= 1
      BY <2>5
    <2> QED
      BY <2>2, <2>3, <2>4, <2>5 DEF IInv, TypeOK, LogAccess, Places, input,
             environment, Entries
  <1>2. ProgressOK'
    BY DEF IInv, ProgressOK, Whole, LogAccess, input, environment
  <1>3. LogOK'
    BY DEF IInv, LogOK, LogAccess, input, AccessEntries, Logged
  <1>4. UnknownOK'
    BY DEF IInv, UnknownOK, LogAccess, input
  <1> QED
    BY <1>1, <1>2, <1>3, <1>4 DEF IInv

\* A panic is answered if nothing was written, and passed on otherwise.
LEMMA RecoverOK ==
    ASSUME IInv, Recover
    PROVE  IInv'
  <1>1. TypeOK'
    BY DEF IInv, TypeOK, Recover, Places, input, environment
  <1>2. ProgressOK'
    <2>1. at' = "server"
      BY DEF Recover
    <2>2. ASSUME panicking = "no"
          PROVE  (panicking = "no" => Whole \/ (sent = Empty /\ ctx # "active"))'
      <3>1. sent' = sent
        BY <2>2 DEF Recover, Recovery
      <3> QED
        BY <2>2, <3>1 DEF IInv, ProgressOK, Recover, Whole, input,
               environment
    <2>3. ASSUME panicking # "no", sent.status = 0, panicking' = "no"
          PROVE  Whole'
      <3>1. sent = Empty /\ Recovery = "problem"
        BY <2>3 DEF IInv, TypeOK, ProgressOK, Recover, Recovery
      <3>2. sent' = [status |-> 500, documents |-> <<"problem">>]
        BY <3>1 DEF Recover, Empty
      <3> QED
        BY <3>2 DEF Whole
    <2>4. ASSUME panicking # "no", sent.status # 0 PROVE panicking' = "abort"
      BY <2>4 DEF IInv, TypeOK, Recover, Recovery
    <2> QED
      BY <2>1, <2>2, <2>3, <2>4 DEF ProgressOK
  <1>3. LogOK'
    BY DEF IInv, TypeOK, ProgressOK, LogOK, Whole, Recover, input, Recovery,
           Logged, AccessEntries, Successes
  <1>4. UnknownOK'
    BY DEF IInv, UnknownOK, Recover, input
  <1> QED
    BY <1>1, <1>2, <1>3, <1>4 DEF IInv

\* What is left unanswered is an empty 200.
LEMMA ServerFinishOK ==
    ASSUME IInv, ServerFinish
    PROVE  IInv'
  <1>1. TypeOK'
    BY DEF IInv, TypeOK, ServerFinish, Places, input, environment
  <1>2. ProgressOK'
    BY DEF IInv, ProgressOK, Empty, Whole, ServerFinish, Successes, input,
           environment
  <1>3. LogOK'
    BY DEF IInv, LogOK, Empty, ServerFinish, input, Logged
  <1>4. UnknownOK'
    BY DEF IInv, UnknownOK, ServerFinish, input
  <1> QED
    BY <1>1, <1>2, <1>3, <1>4 DEF IInv

\* The end of the context changes nothing that is written.
LEMMA DeadlinePassesOK ==
    ASSUME IInv, DeadlinePasses
    PROVE  IInv'
  <1>1. TypeOK'
    BY DEF IInv, TypeOK, DeadlinePasses, input
  <1>2. ProgressOK'
    BY DEF IInv, ProgressOK, ReplyOK, Fresh, Whole, DeadlinePasses,
           input
  <1>3. LogOK'
    BY DEF IInv, LogOK, DeadlinePasses, input, Logged
  <1>4. UnknownOK'
    BY DEF IInv, UnknownOK, DeadlinePasses, input
  <1> QED
    BY <1>1, <1>2, <1>3, <1>4 DEF IInv

\* Nor does a client that goes away.
LEMMA ClientGoneOK ==
    ASSUME IInv, ClientGone
    PROVE  IInv'
  <1>1. TypeOK'
    BY DEF IInv, TypeOK, ClientGone, input
  <1>2. ProgressOK'
    BY DEF IInv, ProgressOK, ReplyOK, Fresh, Whole, ClientGone,
           input
  <1>3. LogOK'
    BY DEF IInv, LogOK, ClientGone, input, Logged, AccessEntries
  <1>4. UnknownOK'
    BY DEF IInv, UnknownOK, ClientGone, input
  <1> QED
    BY <1>1, <1>2, <1>3, <1>4 DEF IInv

\* Every step keeps the invariant.
LEMMA StepOK == IInv /\ [Next]_vars => IInv'
  <1> SUFFICES ASSUME IInv, [Next]_vars PROVE IInv'
    OBVIOUS
  <1>1. ASSUME Enter PROVE IInv'
    BY <1>1, EnterOK
  <1>2. ASSUME ServeChi PROVE IInv'
    BY <1>2, ServeChiOK
  <1>3. ASSUME Authenticate PROVE IInv'
    BY <1>3, AuthenticateOK
  <1>4. ASSUME Verify PROVE IInv'
    BY <1>4, VerifyOK
  <1>5. ASSUME Decide PROVE IInv'
    BY <1>5, DecideOK
  <1>6. ASSUME ReadInput PROVE IInv'
    BY <1>6, ReadInputOK
  <1>7. ASSUME Operate PROVE IInv'
    BY <1>7, OperateOK
  <1>8. ASSUME WriteHeader PROVE IInv'
    BY <1>8, WriteHeaderOK
  <1>9. ASSUME WriteDocument PROVE IInv'
    BY <1>9, WriteDocumentOK
  <1>10. ASSUME Panic PROVE IInv'
    BY <1>10, PanicOK
  <1>11. ASSUME LogAccess PROVE IInv'
    BY <1>11, LogAccessOK
  <1>12. ASSUME Recover PROVE IInv'
    BY <1>12, RecoverOK
  <1>13. ASSUME ServerFinish PROVE IInv'
    BY <1>13, ServerFinishOK
  <1>14. ASSUME DeadlinePasses PROVE IInv'
    BY <1>14, DeadlinePassesOK
  <1>15. ASSUME ClientGone PROVE IInv'
    BY <1>15, ClientGoneOK
  <1>16. ASSUME UNCHANGED vars PROVE IInv'
    BY <1>16 DEF vars, IInv, TypeOK, ProgressOK, LogOK, UnknownOK, Fresh,
           Empty, ReplyOK, Whole, Logged, AccessEntries, input,
           environment
  <1> QED
    BY <1>1, <1>2, <1>3, <1>4, <1>5, <1>6, <1>7, <1>8, <1>9, <1>10, <1>11,
       <1>12, <1>13, <1>14, <1>15, <1>16
       DEF Next, Run, Wait

\* The invariant relates the place of the goroutine to what was written and
\* recorded, in every reachable state (Recoverer, AccessLogger,
\* NewAuthMiddleware).
THEOREM Invariance == Spec => []IInv
  BY InitOK, StepOK, PTL DEF Spec
-----------------------------------------------------------------------------
(* What follows from the invariant                                         *)

\* Every variable keeps its type, and a request that is over has unwound.
THEOREM TypeCorrect == Spec => []TypeOK
  BY Invariance, PTL DEF IInv

\* Without an identity from the verifier a protected operation does not run,
\* and neither the verifier, the end of the context nor a panic leads to an
\* answer that looks like a success (NewAuthMiddleware).
THEOREM FailsClosed == Spec => []ProtectedFailsClosed
  <1>1. IInv => ProtectedFailsClosed
    BY DEF IInv, UnknownOK, ProtectedFailsClosed
  <1> QED
    BY <1>1, Invariance, PTL

\* An answer that ends normally is one document, or none, that agrees with
\* its status line, wherever the handler panicked (Recoverer).
THEOREM AnswersAreWhole == Spec => []CompleteAnswersAreWhole
  <1>1. IInv => CompleteAnswersAreWhole
    BY DEF IInv, TypeOK, ProgressOK, Whole, CompleteAnswersAreWhole
  <1> QED
    BY <1>1, Invariance, PTL

\* A request leaves one entry in the access log, with the status the client
\* was sent, and a panic is not recorded as an answer (AccessLogger).
THEOREM LogIsTrue == Spec => []AccessLogTellsTheTruth
  <1>1. IInv => AccessLogTellsTheTruth
    <2> SUFFICES ASSUME IInv, at = "done" PROVE AccessLogTellsTheTruth
      BY DEF AccessLogTellsTheTruth
    <2>1. (outcome = "complete" => panicking = "no")
            /\ (panicking # "no" <=> outcome = "aborted")
      BY DEF IInv, TypeOK
    <2>2. ASSUME ~Logged PROVE AccessLogTellsTheTruth
      BY <2>2 DEF IInv, LogOK, AccessLogTellsTheTruth
    <2>3. ASSUME Logged, panicking = "no" PROVE AccessLogTellsTheTruth
      BY <2>1, <2>3 DEF IInv, LogOK, AccessLogTellsTheTruth
    <2>4. ASSUME Logged, panicking # "no" PROVE AccessLogTellsTheTruth
      BY <2>1, <2>4 DEF IInv, TypeOK, LogOK, AccessLogTellsTheTruth
    <2> QED
      BY <2>2, <2>3, <2>4
  <1> QED
    BY <1>1, Invariance, PTL
-----------------------------------------------------------------------------
(* What the header fields say                                              *)

\* The verdict tells a bad token from an outage, which is all the middleware
\* goes by, and takes a deleted account for the latter.
VerdictOK ==
    /\ IsCredentialError(verdict.errors) <=> verdict.errors \cap TokenFaults # {}
    /\ "context.Canceled" \in verdict.errors \/ AccountGone =>
          verdict.errors \cap TokenFaults = {}

\* A refusal of the middleware names its cause.
Refused ==
    \/ /\ reply.status = 401
       /\ fields.challenge /\ ~fields.retryAfter
       /\ BadCredentials /\ ~AccountGone
    \/ /\ reply.status = 503
       /\ fields.retryAfter /\ ~fields.challenge
       /\ ~BadCredentials \/ AccountGone

Unmarked == ~fields.challenge /\ ~fields.retryAfter

\* What an unknown caller of a protected operation has been told.
CauseOK ==
    /\ at \in {"verify", "decide"} => route = "protected"
    /\ at \in {"outer", "auth"} => verdict = Nobody
    /\ at = "decide" => VerdictOK
    /\ route = "protected" /\ user = NoUser =>
         /\ at \in {"outer", "auth", "verify", "decide"} => Unmarked
         /\ at \in {"verify", "decide"} => header = "bearer"
         /\ at \in {"write", "document"} => Refused
         /\ panicking = "no"
         /\ at \in {"access", "recover", "server", "done"} =>
              \/ Refused /\ sent.status = reply.status
              \/ Unmarked /\ sent.status = IF at = "done" THEN 200 ELSE 0

\* The first case of the switch that holds decides.
LEMMA FirstCase ==
    ASSUME NEW sdk, NEW i \in 1..7, VerifyCases[i].of \cap sdk # {},
           \A j \in 1..7 : j < i => VerifyCases[j].of \cap sdk = {}
    PROVE  VerifyError(sdk) = VerifyCases[i].to \union sdk
  <1> DEFINE hits == {j \in DOMAIN VerifyCases : VerifyCases[j].of \cap sdk # {}}
             first == {j \in hits : \A k \in hits : j <= k}
  <1>1. DOMAIN VerifyCases = 1..7
    BY DEF VerifyCases
  <1>2. i \in hits
    BY <1>1
  <1>3. first = {i}
    BY <1>1
  <1>4. UNION {VerifyCases[j].to : j \in first} = VerifyCases[i].to
    BY <1>3
  <1>5. VerifyError(sdk) = (IF hits = {} THEN {"ErrAuthUnavailable"}
                            ELSE UNION {VerifyCases[j].to : j \in first})
                           \union sdk
    BY DEF VerifyError
  <1> HIDE DEF hits, first
  <1> QED
    BY <1>2, <1>4, <1>5

\* A case of the switch, by its number.
LEMMA TheCases ==
    /\ VerifyCases[1] = [of |-> {"CertificateFetchFailed"},
                         to |-> {"ErrCertificateFetch", "ErrAuthUnavailable"}]
    /\ VerifyCases[2] = [of |-> {"IDTokenExpired"}, to |-> {"ErrTokenExpired"}]
    /\ VerifyCases[3] = [of |-> {"IDTokenRevoked"}, to |-> {"ErrTokenRevoked"}]
    /\ VerifyCases[4] = [of |-> {"UserDisabled"}, to |-> {"ErrUserDisabled"}]
    /\ VerifyCases[5] = [of |-> {"IDTokenInvalid"}, to |-> {"ErrInvalidToken"}]
    /\ VerifyCases[6] = [of |-> {"context.Canceled", "Cancelled"},
                         to |-> {"context.Canceled"}]
    /\ VerifyCases[7] = [of |-> {"context.DeadlineExceeded", "DeadlineExceeded"},
                         to |-> {"ErrAuthUnavailable", "context.DeadlineExceeded"}]
    /\ DOMAIN VerifyCases = 1..7
  BY DEF VerifyCases

\* A credential error is returned exactly for a fault of the token, which a
\* deleted account is not.
LEMMA ErrorsTellTheCause ==
    ASSUME NEW sdk \in SDKErrors
    PROVE  LET errors == VerifyError(sdk)
           IN  /\ IsCredentialError(errors) <=> errors \cap TokenFaults # {}
               /\ "context.Canceled" \in errors \/ "UserNotFound" \in errors
                    => errors \cap TokenFaults = {}
  <1> DEFINE errors == VerifyError(sdk)
  <1> USE TheCases DEF IsCredentialError, CredentialErrors, TokenFaults
  <1>1. CASE sdk = {"CertificateFetchFailed", "Unknown"}
    <2>1. errors = VerifyCases[1].to \union sdk
      BY <1>1, FirstCase
    <2> QED
      BY <1>1, <2>1
  <1>2. CASE sdk = {"IDTokenExpired", "IDTokenInvalid"}
    <2>1. errors = VerifyCases[2].to \union sdk
      BY <1>2, FirstCase
    <2> QED
      BY <1>2, <2>1
  <1>3. CASE sdk = {"IDTokenRevoked", "IDTokenInvalid"}
    <2>1. errors = VerifyCases[3].to \union sdk
      BY <1>3, FirstCase
    <2> QED
      BY <1>3, <2>1
  <1>4. CASE sdk = {"UserDisabled"}
    <2>1. errors = VerifyCases[4].to \union sdk
      BY <1>4, FirstCase
    <2> QED
      BY <1>4, <2>1
  <1>5. CASE sdk = {"IDTokenInvalid"}
    <2>1. errors = VerifyCases[5].to \union sdk
      BY <1>5, FirstCase
    <2> QED
      BY <1>5, <2>1
  <1>6. CASE sdk \in {{"context.Canceled"}, {"Cancelled"}}
    <2>1. errors = VerifyCases[6].to \union sdk
      BY <1>6, FirstCase
    <2> QED
      BY <1>6, <2>1
  <1>7. CASE sdk \in {{"context.DeadlineExceeded"}, {"DeadlineExceeded"}}
    <2>1. errors = VerifyCases[7].to \union sdk
      BY <1>7, FirstCase
    <2> QED
      BY <1>7, <2>1
  <1>8. CASE sdk \in {{"Unavailable"}, {"Internal"}, {"Unknown"}, {},
                       {"UserNotFound", "NotFound"}}
    <2>1. \A i \in 1..7 : VerifyCases[i].of \cap sdk = {}
      BY <1>8
    <2>2. errors = {"ErrAuthUnavailable"} \union sdk
      BY <2>1 DEF VerifyError
    <2> QED
      BY <1>8, <2>2
  <1> QED
    BY <1>1, <1>2, <1>3, <1>4, <1>5, <1>6, <1>7, <1>8 DEF SDKErrors

\* At first nothing is known and nothing is said.
LEMMA FieldsInit == Init => CauseOK
  BY DEF Init, CauseOK, Unmarked, NoFields

\* What Verify returns tells a bad token from an outage.
LEMMA VerdictTells ==
    ASSUME verifier \in {"offline", "firebase"}, NEW v \in Verdicts
    PROVE  /\ IsCredentialError(v.errors) <=> v.errors \cap TokenFaults # {}
           /\ "context.Canceled" \in v.errors \/ "UserNotFound" \in v.errors
                => v.errors \cap TokenFaults = {}
  <1>1. CASE v.errors \in {{}, {"ErrAuthUnavailable"}}
    BY <1>1 DEF IsCredentialError, CredentialErrors, TokenFaults
  <1>2. CASE \E sdk \in SDKErrors : v.errors = VerifyError(sdk)
    BY <1>2, ErrorsTellTheCause
  <1> QED
    BY <1>1, <1>2 DEF Verdicts

\* The outer middlewares say nothing of the credentials.
LEMMA EnterFields ==
    ASSUME IInv, CauseOK, Enter
    PROVE  CauseOK'
  <1>1. /\ fields' = fields /\ verdict' = verdict /\ user' = user
        /\ panicking' = panicking /\ route' = route /\ at = "outer"
    BY DEF Enter, input
  <1>2. /\ at' \notin {"outer", "verify", "decide"}
        /\ route = "protected" => at' = "auth"
    BY DEF IInv, TypeOK, Enter, Routes, ChiRoutes, Operations
  <1> QED
    BY <1>1, <1>2 DEF CauseOK, Unmarked

\* The middleware challenges a caller without a token.
LEMMA AuthenticateFields ==
    ASSUME IInv, CauseOK, Authenticate
    PROVE  CauseOK'
  <1>1. /\ verdict' = verdict /\ user' = user /\ panicking' = panicking
        /\ route' = route
        /\ header' = header /\ at = "auth"
    BY DEF Authenticate, input
  <1>2. fields \in HeaderFields
    BY DEF IInv, TypeOK, HeaderFields
  <1>4. ASSUME route = "protected", user = NoUser, at' = "write"
        PROVE  Refused'
    <2>1. verdict.errors = {} /\ Unmarked
      BY <1>1, <1>4 DEF CauseOK, Nobody
    <2>2. CASE header # "bearer"
      <3>1. reply'.status = 401 /\ fields' = Challenge
        BY <1>4, <2>2 DEF Authenticate, Refuse, Problem
      <3> QED
        BY <1>1, <1>2, <2>1, <2>2, <3>1
           DEF Refused, BadCredentials, AccountGone, Unmarked, Challenge, HeaderFields
    <2>3. CASE header = "bearer"
      <3>1. reply'.status = 503 /\ fields' = RetryLater
        BY <1>4, <2>3 DEF Authenticate, Refuse, Problem
      <3> QED
        BY <1>1, <1>2, <2>1, <2>3, <3>1
           DEF Refused, BadCredentials, AccountGone, Unmarked, RetryLater, HeaderFields
    <2> QED
      BY <2>2, <2>3
  <1>5. ASSUME at' = "verify"
        PROVE  route = "protected" /\ header = "bearer" /\ fields' = fields
    BY <1>5 DEF Authenticate, Refuse
  <1>6. at' \in {"body", "write", "verify"}
    BY DEF Authenticate, Refuse
  <1> QED
    BY <1>1, <1>4, <1>5, <1>6 DEF CauseOK, Unmarked

\* The verdict is one that tells the cause.
LEMMA VerifyFields ==
    ASSUME IInv, CauseOK, Verify
    PROVE  CauseOK'
  <1>1. /\ user' = user /\ panicking' = panicking /\ fields' = fields
        /\ route' = route
        /\ header' = header /\ at = "verify" /\ at' = "decide"
    BY DEF Verify, input
  <1>2. verifier \in {"offline", "firebase"}
    BY <1>1, PipelineAssumption DEF IInv, TypeOK, UnknownOK
  <1>3. VerdictOK'
    BY <1>2, VerdictTells DEF Verify, VerdictOK, AccountGone, IsCredentialError
  <1> QED
    BY <1>1, <1>3 DEF CauseOK, Unmarked

\* The middleware refuses for the cause the verdict names.
LEMMA DecideFields ==
    ASSUME IInv, CauseOK, Decide
    PROVE  CauseOK'
  <1>1. /\ verdict' = verdict /\ panicking' = panicking /\ sent' = sent
        /\ route' = route
        /\ header' = header /\ at = "decide" /\ VerdictOK
    BY DEF Decide, input, CauseOK
  <1>2. /\ fields \in HeaderFields /\ route \in Operations
        /\ sent.status = 0
    BY <1>1 DEF IInv, TypeOK, UnknownOK, ProgressOK, Fresh, Empty, HeaderFields
  <1>3. ASSUME at' = "write", route = "protected", user = NoUser
        PROVE  Refused' /\ user' = user
    <2>1. Unmarked /\ header = "bearer"
      BY <1>1, <1>3 DEF CauseOK
    <2>2. CASE /\ "context.Canceled" \notin verdict.errors
               /\ IsCredentialError(verdict.errors)
      <3>1. /\ reply'.status = 401 /\ fields' = Challenge /\ user' = user
        BY <1>3, <2>2
           DEF Decide, Refuse, Problem, IsCredentialError, Accepts, StaysSilent
      <3> QED
        BY <1>1, <1>2, <2>1, <2>2, <3>1
           DEF Refused, BadCredentials, AccountGone, VerdictOK, Unmarked, Challenge, HeaderFields
    <2>3. CASE ~ (/\ "context.Canceled" \notin verdict.errors
                  /\ IsCredentialError(verdict.errors))
      <3>1. /\ reply'.status = 503 /\ fields' = RetryLater /\ user' = user
        BY <1>3, <2>3 DEF Decide, Refuse, Problem
      <3> QED
        BY <1>1, <1>2, <2>1, <2>3, <3>1
           DEF Refused, BadCredentials, AccountGone, VerdictOK, Unmarked, RetryLater, HeaderFields
    <2> QED
      BY <2>2, <2>3
  <1>4. ASSUME at' = "access"
        PROVE  fields' = fields /\ user' = user
    BY <1>4 DEF Decide, Refuse
  <1>5. at' \in {"write", "access", "body"} /\ (at' = "body" => user' # NoUser)
    BY DEF Decide, Refuse, Accepts
  <1>6. user' = NoUser => user = NoUser
    BY DEF Decide, Refuse, Accepts
  <1> QED
    BY <1>1, <1>2, <1>3, <1>4, <1>5, <1>6 DEF CauseOK, Unmarked, Refused

\* The steps after the middleware, and those of the environment.
Later == \/ ServeChi \/ ReadInput \/ Operate \/ WriteHeader \/ WriteDocument
         \/ Panic \/ LogAccess \/ Recover \/ ServerFinish
         \/ DeadlinePasses \/ ClientGone \/ UNCHANGED vars

\* They set no header field.
LEMMA LaterFrame ==
    ASSUME Later
    PROVE  /\ fields' = fields /\ verdict' = verdict /\ user' = user
           /\ route' = route
           /\ header' = header
           /\ \/ at' = at
              \/ at' \notin {"outer", "auth", "verify", "decide"}
                    /\ at # "outer"
  BY DEF Later, ServeChi, ReadInput, Operate, WriteHeader, WriteDocument,
     Panic, LogAccess, Recover, ServerFinish, DeadlinePasses, ClientGone,
     vars, input

\* What an unknown caller was told stays true.
LEMMA LaterFields ==
    ASSUME IInv, CauseOK, Later
    PROVE  CauseOK'
  <1>1. /\ fields' = fields /\ verdict' = verdict /\ user' = user
        /\ route' = route
        /\ header' = header
        /\ \/ at' = at
           \/ at' \notin {"outer", "auth", "verify", "decide"} /\ at # "outer"
    BY LaterFrame
  <1>3. reply' = reply => (Refused' <=> Refused)
    BY <1>1 DEF Refused, BadCredentials, AccountGone
  <1> DEFINE Told == /\ at \in {"write", "document"} => Refused
                     /\ panicking = "no"
                     /\ at \in {"access", "recover", "server", "done"} =>
                          \/ Refused /\ sent.status = reply.status
                          \/ /\ Unmarked
                             /\ sent.status = IF at = "done" THEN 200 ELSE 0
  <1>4. ASSUME route = "protected", user = NoUser PROVE Told'
    <2>1. /\ at \notin {"chi", "body", "operation"}
          /\ reply.document # "result" /\ Told
      BY <1>4 DEF IInv, UnknownOK, CauseOK, ChiRoutes
    <2>2. CASE ServeChi \/ ReadInput \/ Operate \/ Panic
      BY <2>1, <2>2 DEF ServeChi, ReadInput, Operate, Panic
    <2>3. CASE WriteHeader
      <3>1. /\ reply' = reply /\ panicking' = panicking
            /\ sent'.status = reply.status
            /\ at = "write" /\ at' \in {"document", "access"}
        BY <2>3 DEF WriteHeader, IInv, TypeOK
      <3> QED
        BY <1>3, <2>1, <3>1
    <2>4. CASE WriteDocument
      <3>1. /\ reply' = reply /\ panicking' = panicking
            /\ sent'.status = reply.status
            /\ at = "document" /\ at' = "access"
        BY <2>4 DEF WriteDocument, IInv, TypeOK, ProgressOK
      <3> QED
        BY <1>3, <2>1, <3>1
    <2>5. CASE LogAccess \/ Recover
      <3>1. /\ reply' = reply /\ panicking' = "no" /\ sent' = sent
            /\ at \in {"access", "recover"} /\ at' \in {"recover", "server"}
        BY <2>1, <2>5 DEF LogAccess, Recover, Recovery
      <3> QED
        BY <1>1, <1>3, <2>1, <3>1 DEF Unmarked
    <2>6. CASE ServerFinish
      <3>1. /\ reply' = reply /\ panicking' = panicking
            /\ sent'.status = IF sent.status = 0 THEN 200 ELSE sent.status
            /\ at = "server" /\ at' = "done"
        BY <2>1, <2>6 DEF ServerFinish, IInv, TypeOK
      <3>2. Refused => reply.status # 0
        BY DEF Refused
      <3> QED
        BY <1>1, <1>3, <2>1, <3>1, <3>2 DEF Unmarked
    <2>7. CASE DeadlinePasses \/ ClientGone \/ UNCHANGED vars
      <3>1. /\ reply' = reply /\ panicking' = panicking /\ sent' = sent
            /\ at' = at
        BY <2>7 DEF DeadlinePasses, ClientGone, vars
      <3> QED
        BY <1>1, <1>3, <2>1, <3>1 DEF Unmarked
    <2> QED
      BY <2>2, <2>3, <2>4, <2>5, <2>6, <2>7 DEF Later
  <1> QED
    BY <1>1, <1>4 DEF CauseOK, VerdictOK, AccountGone, Unmarked,
       IsCredentialError

\* Every step keeps what the header fields say.
LEMMA FieldsStep == IInv /\ CauseOK /\ [Next]_vars => CauseOK'
  BY EnterFields, AuthenticateFields, VerifyFields, DecideFields, LaterFields
     DEF Next, Run, Wait, Later

\* The header fields of a request say why it was refused, at every place.
LEMMA FieldsInvariance == Spec => []CauseOK
  BY FieldsInit, FieldsStep, Invariance, PTL DEF Spec

\* A 401 is about the credentials, and a 503 is not unless the account is
\* gone, whatever the verifier reports, the outages that look like bad
\* tokens included (FirebaseVerifier.Verify, isCredentialError).
THEOREM RefusalsNameTheCause == Spec => []RefusalMatchesCause
  <1>1. IInv /\ CauseOK => RefusalMatchesCause
    BY DEF IInv, TypeOK, CauseOK, Refused, Unmarked, RefusalMatchesCause
  <1> QED
    BY <1>1, Invariance, FieldsInvariance, PTL
=============================================================================
