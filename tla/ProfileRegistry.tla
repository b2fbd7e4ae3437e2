--------------------------- MODULE ProfileRegistry --------------------------
(***************************************************************************)
(* What the profile store promises its clients, with no backend, message   *)
(* or transaction in sight: one profile per user in an atomic map.  A call *)
(* is taken up in one step, which either carries it out on the map or      *)
(* finds that it does not apply; the answer then tells that verdict, or    *)
(* that the outcome is unknown.  A call may be carried out after an        *)
(* unknown answer, never after a definite one.                             *)
(***************************************************************************)
CONSTANTS Requests, Users, Fields, NoProfile

VARIABLES
    registry,   \* the profile of each user
    call,       \* what each request asks
    status,     \* how far each request is, or how it was answered
    verdict,    \* what became of it: "none", "done" or "refused"
    view        \* the profile its verdict is about

vars == <<registry, call, status, verdict, view>>

Profile == [Fields -> Requests]
Open == {"pending", "unknown"}

Init ==
    /\ registry = [u \in Users |-> NoProfile]
    /\ call \in [Requests -> {[op |-> "none", uid |-> u, fields |-> {}] :
                                u \in Users}]
    /\ status = [r \in Requests |-> "idle"]
    /\ verdict = [r \in Requests |-> "none"]
    /\ view = [r \in Requests |-> NoProfile]

Submit(r, op, F) ==
    /\ status[r] = "idle"
    /\ call' = [call EXCEPT ![r].op = op, ![r].fields = F]
    /\ status' = [status EXCEPT ![r] = IF op = "update" /\ F = {}
                                         THEN "invalid" ELSE "pending"]
    /\ UNCHANGED <<registry, verdict, view>>

\* The profile a call leaves, given the one it finds.
Outcome(r, p) ==
    CASE call[r].op = "create" -> [f \in Fields |-> r]
      [] call[r].op = "update" -> [f \in Fields |-> IF f \in call[r].fields
                                                      THEN r ELSE p[f]]
      [] call[r].op = "delete" -> NoProfile
      [] call[r].op = "get" -> p

Applies(r, p) == IF call[r].op = "create" THEN p = NoProfile
                                          ELSE p # NoProfile

\* The call takes effect, all at once and only once.
Take(r) ==
    LET u == call[r].uid
        p == Outcome(r, registry[u])
    IN  /\ status[r] \in Open
        /\ verdict[r] = "none"
        /\ Applies(r, registry[u])
        /\ registry' = [registry EXCEPT ![u] = p]
        /\ verdict' = [verdict EXCEPT ![r] = "done"]
        /\ view' = [view EXCEPT ![r] = p]
        /\ UNCHANGED <<call, status>>

\* The call is found not to apply, at a moment when it does not.
Refuse(r) ==
    /\ status[r] = "pending"
    /\ verdict[r] = "none"
    /\ ~Applies(r, registry[call[r].uid])
    /\ verdict' = [verdict EXCEPT ![r] = "refused"]
    /\ UNCHANGED <<registry, call, status, view>>

\* A verdict that changed nothing is lost on its way back.
Lose(r) ==
    /\ status[r] = "pending"
    /\ verdict[r] = "refused" \/ (verdict[r] = "done" /\ call[r].op = "get")
    /\ verdict' = [verdict EXCEPT ![r] = "none"]
    /\ view' = [view EXCEPT ![r] = NoProfile]
    /\ UNCHANGED <<registry, call, status>>

\* A definite answer tells the verdict.
Answer(r) ==
    /\ status[r] = "pending"
    /\ verdict[r] # "none"
    /\ status' = [status EXCEPT ![r] = verdict[r]]
    /\ UNCHANGED <<registry, call, verdict, view>>

\* 500, 503 or no answer at all.
AnswerUnknown(r) ==
    /\ status[r] = "pending"
    /\ status' = [status EXCEPT ![r] = "unknown"]
    /\ UNCHANGED <<registry, call, verdict, view>>

\* The service dies under some of the calls.
Abandon ==
    /\ \E R \in SUBSET Requests :
         /\ R # {}
         /\ \A r \in R : status[r] = "pending"
         /\ status' = [r \in Requests |-> IF r \in R THEN "unknown"
                                                     ELSE status[r]]
    /\ UNCHANGED <<registry, call, verdict, view>>

Next ==
    \/ \E r \in Requests :
         \/ \E op \in {"create", "get", "delete"} : Submit(r, op, {})
         \/ \E F \in SUBSET Fields : Submit(r, "update", F)
         \/ Take(r) \/ Refuse(r) \/ Lose(r) \/ Answer(r) \/ AnswerUnknown(r)
    \/ Abandon

Spec == Init /\ [][Next]_vars
=============================================================================
