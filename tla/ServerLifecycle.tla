-------------------------- MODULE ServerLifecycle --------------------------
(***************************************************************************)
(* The process of cmd/server from start to exit: run and its deferred      *)
(* calls, serve with its listener goroutine and the channel between them,  *)
(* the net/http server with its connections, and the handlers that use the *)
(* Firebase clients.  Time passes in ticks; a timer that is due fires      *)
(* before the next tick, and a handler returns by the deadline of its      *)
(* request context.                                                        *)
(***************************************************************************)
EXTENDS Integers, Sequences

CONSTANTS
    Conns,              \* connections the server has at one time
    Mode,               \* FIREBASE_MODE: whether there are clients to close
    RequestTimeout,     \* the durations of loadConfig, in ticks
    ShutdownTimeout,
    ReadHeaderTimeout,
    WriteTimeout

ASSUME LifecycleAssumption ==
    /\ Mode \in {"offline", "emulator", "live"}
    /\ {RequestTimeout, ShutdownTimeout, ReadHeaderTimeout, WriteTimeout}
          \subseteq Nat \ {0}
    /\ RequestTimeout < WriteTimeout
    /\ RequestTimeout < ShutdownTimeout

VARIABLES
    pc,             \* where run and serve are
    signaled,       \* the context of signal.NotifyContext is done
    clients,        \* the Firebase clients
    server,         \* the server: not started, serving, shutting down
    listener,       \* the goroutine that runs Serve
    listenErr,      \* the channel it reports on, of capacity one
    conns,          \* the connections
    elapsed,        \* ticks since Shutdown was called
    runErr,         \* the errors joined into the result of run
    failed,         \* what went wrong, reported or not
    lost            \* requests cut off before their response was sent

vars == <<pc, signaled, clients, server, listener, listenErr, conns, elapsed,
          runErr, failed, lost>>

Free == [state |-> "free", age |-> 0, slow |-> FALSE, early |-> FALSE]

InFlight(c) == conns[c].state \in {"working", "writing"}
Busy == {c \in Conns : conns[c].state # "free"}
-----------------------------------------------------------------------------
(* The start of run *)

Report(e) ==
    /\ runErr' = runErr \union {e}
    /\ failed' = failed \union {e}

LoadConfig ==
    /\ pc = "config"
    /\ \/ pc' = "clients" /\ UNCHANGED <<runErr, failed>>
       \/ pc' = "exited" /\ Report("config")
    /\ UNCHANGED <<signaled, clients, server, listener, listenErr, conns,
                   elapsed, lost>>

\* newApplicationClients; without clients there is nothing to close.
OpenClients ==
    /\ pc = "clients"
    /\ \/ /\ pc' = "serve"
          /\ clients' = IF Mode = "offline" THEN "none" ELSE "open"
          /\ UNCHANGED <<runErr, failed>>
       \/ /\ pc' = "sync"
          /\ Report("clients")
          /\ UNCHANGED clients
    /\ UNCHANGED <<signaled, server, listener, listenErr, conns, elapsed, lost>>

\* serve does not start when the signal came first.
Serve ==
    /\ pc = "serve"
    /\ pc' = IF signaled THEN "close" ELSE "listen"
    /\ UNCHANGED <<signaled, clients, server, listener, listenErr, conns,
                   elapsed, runErr, failed, lost>>

Listen ==
    /\ pc = "listen"
    /\ \/ /\ pc' = "select"
          /\ server' = "serving"
          /\ listener' = "accepting"
          /\ UNCHANGED <<runErr, failed>>
       \/ /\ pc' = "close"
          /\ Report("listen")
          /\ UNCHANGED <<server, listener>>
    /\ UNCHANGED <<signaled, clients, listenErr, conns, elapsed, lost>>

Signal ==
    /\ pc # "exited"
    /\ ~signaled
    /\ signaled' = TRUE
    /\ UNCHANGED <<pc, clients, server, listener, listenErr, conns, elapsed,
                   runErr, failed, lost>>
-----------------------------------------------------------------------------
(* The net/http server *)

\* Serve returns when the listener fails or was closed; its error goes into
\* the buffer of the channel, so that the goroutine never waits.
ServeReturns ==
    /\ pc # "exited"
    /\ listener = "accepting"
    /\ \/ /\ server = "shutting down"
          /\ listenErr' = Append(listenErr, "ErrServerClosed")
          /\ UNCHANGED failed
       \/ /\ server = "serving"
          /\ listenErr' = Append(listenErr, "accept")
          /\ failed' = failed \union {"accept"}
    /\ listener' = "returned"
    /\ UNCHANGED <<pc, signaled, clients, server, conns, elapsed, runErr, lost>>

\* Also between the close of the listener and the return of Serve.
Accept(c) ==
    /\ pc # "exited"
    /\ listener = "accepting"
    /\ conns[c] = Free
    /\ \E slow \in BOOLEAN :
          conns' = [conns EXCEPT ![c] = [Free EXCEPT !.state = "new", !.slow = slow]]
    /\ UNCHANGED <<pc, signaled, clients, server, listener, listenErr, elapsed,
                   runErr, failed, lost>>

\* The header of the request is read and its handler starts, also while the
\* server shuts down.
StartHandler(c) ==
    /\ pc # "exited"
    /\ conns[c].state = "new"
    /\ conns' = [conns EXCEPT ![c].state = "working", ![c].age = 0,
                              ![c].early = server = "serving"]
    /\ UNCHANGED <<pc, signaled, clients, server, listener, listenErr, elapsed,
                   runErr, failed, lost>>

\* ReadHeaderTimeout passes, or the client leaves before its request.
DropConn(c) ==
    /\ pc # "exited"
    /\ conns[c].state = "new"
    /\ conns' = [conns EXCEPT ![c] = Free]
    /\ UNCHANGED <<pc, signaled, clients, server, listener, listenErr, elapsed,
                   runErr, failed, lost>>

\* The handler returns, at the latest when its context has ended.
HandlerReturns(c) ==
    /\ pc # "exited"
    /\ conns[c].state = "working"
    /\ conns' = [conns EXCEPT ![c].state = "writing"]
    /\ UNCHANGED <<pc, signaled, clients, server, listener, listenErr, elapsed,
                   runErr, failed, lost>>

\* The response is with the client, or WriteTimeout ended the connection.
ResponseSent(c) ==
    /\ pc # "exited"
    /\ conns[c].state = "writing"
    /\ conns' = [conns EXCEPT ![c] = Free]
    /\ UNCHANGED <<pc, signaled, clients, server, listener, listenErr, elapsed,
                   runErr, failed, lost>>
-----------------------------------------------------------------------------
(* serve *)

\* Bug: a listener that failed is left to the operator to notice.
MutantListenerFailed ==
    /\ pc = "select"
    /\ listenErr # <<>>
    /\ Head(listenErr) = "ErrServerClosed"
    /\ listenErr' = <<>>
    /\ pc' = "close"
    /\ UNCHANGED <<signaled, clients, server, listener, conns, elapsed, runErr,
                   failed, lost>>

\* The listener case of the select.
ListenerFailed ==
    /\ pc = "select"
    /\ listenErr # <<>>
    /\ listenErr' = <<>>
    /\ pc' = "close"
    /\ runErr' = IF Head(listenErr) = "ErrServerClosed" THEN runErr
                 ELSE runErr \union {Head(listenErr)}
    /\ UNCHANGED <<signaled, clients, server, listener, conns, elapsed, failed,
                   lost>>

\* The signal case: Shutdown closes the listener and waits.
BeginShutdown ==
    /\ pc = "select"
    /\ signaled
    /\ pc' = "shutdown"
    /\ server' = "shutting down"
    /\ elapsed' = 0
    /\ UNCHANGED <<signaled, clients, listener, listenErr, conns, runErr,
                   failed, lost>>

\* Bug: the server is closed instead of drained.
MutantShutdownDone ==
    /\ pc = "shutdown"
    /\ listener = "returned"
    /\ pc' = "drain"
    /\ UNCHANGED <<signaled, clients, server, listener, listenErr, conns,
                   elapsed, runErr, failed, lost>>

\* Shutdown waits for Serve, then until no connection is left.
ShutdownDone ==
    /\ pc = "shutdown"
    /\ listener = "returned"
    /\ Busy = {}
    /\ pc' = "drain"
    /\ UNCHANGED <<signaled, clients, server, listener, listenErr, conns,
                   elapsed, runErr, failed, lost>>

\* Bug: the context of Shutdown is made from the context of the signal.
MutantShutdownExpired == signaled

\* context.WithoutCancel(ctx) with the timeout of its own.
ShutdownExpired == elapsed = ShutdownTimeout

Cut == {[early |-> conns[c].early, slow |-> conns[c].slow] :
            c \in {d \in Conns : InFlight(d)}}

\* Shutdown gives up and Close cuts the connections; handlers are not
\* waited for.
ForceClose ==
    /\ pc = "shutdown"
    /\ listener = "returned"
    /\ ShutdownExpired
    /\ pc' = "close"
    /\ lost' = lost \union Cut
    /\ conns' = [c \in Conns |-> IF conns[c].state = "working" THEN conns[c]
                                 ELSE Free]
    /\ Report("shutdown")
    /\ UNCHANGED <<signaled, clients, server, listener, listenErr, elapsed>>

\* Bug: what the listener said before the shutdown is not looked at.
MutantDrain ==
    /\ pc = "drain"
    /\ listenErr # <<>>
    /\ listenErr' = <<>>
    /\ pc' = "close"
    /\ UNCHANGED <<signaled, clients, server, listener, conns, elapsed, runErr,
                   failed, lost>>

\* The last receive of serve.
Drain ==
    /\ pc = "drain"
    /\ listenErr # <<>>
    /\ listenErr' = <<>>
    /\ pc' = "close"
    /\ runErr' = IF Head(listenErr) = "ErrServerClosed" THEN runErr
                 ELSE runErr \union {Head(listenErr)}
    /\ UNCHANGED <<signaled, clients, server, listener, conns, elapsed, failed,
                   lost>>
-----------------------------------------------------------------------------
(* The deferred calls of run *)

CloseClients ==
    /\ pc = "close"
    /\ pc' = "sync"
    /\ \/ /\ clients' = IF clients = "open" THEN "closed" ELSE clients
          /\ UNCHANGED <<runErr, failed>>
       \/ /\ clients = "open"
          /\ clients' = "closed"
          /\ Report("close")
    /\ UNCHANGED <<signaled, server, listener, listenErr, conns, elapsed, lost>>

\* The logger is synced, and the process ends with whatever still runs.
SyncAndExit ==
    /\ pc = "sync"
    /\ pc' = "exited"
    /\ lost' = lost \union Cut
    /\ conns' = [c \in Conns |-> Free]
    /\ \/ UNCHANGED <<runErr, failed>>
       \/ Report("sync")
    /\ UNCHANGED <<signaled, clients, server, listener, listenErr, elapsed>>
-----------------------------------------------------------------------------
(* Time *)

\* Bug: handlers run without requestContextTimeout.
MutantDue(c) ==
    \/ conns[c].state = "new" /\ conns[c].age >= ReadHeaderTimeout
    \/ conns[c].state \in {"working", "writing"} /\ conns[c].age >= WriteTimeout

\* What has to happen to a connection before time goes on.
Due(c) ==
    \/ conns[c].state = "new" /\ conns[c].age >= ReadHeaderTimeout
    \/ conns[c].state = "working" /\ conns[c].age >= RequestTimeout
    \/ conns[c].state = "writing" /\
          (~conns[c].slow \/ conns[c].age >= WriteTimeout)

Tick ==
    /\ pc \in {"select", "shutdown"}
    /\ Busy # {}
    /\ \A c \in Conns : ~Due(c)
    /\ pc = "shutdown" => listener = "returned" /\ ~ShutdownExpired
    /\ conns' = [c \in Conns |-> IF conns[c].state = "free" THEN Free
                                 ELSE [conns[c] EXCEPT !.age = @ + 1]]
    /\ elapsed' = IF pc = "shutdown" THEN elapsed + 1 ELSE elapsed
    /\ UNCHANGED <<pc, signaled, clients, server, listener, listenErr, runErr,
                   failed, lost>>
-----------------------------------------------------------------------------
Init ==
    /\ pc = "config"
    /\ signaled = FALSE
    /\ clients = "none"
    /\ server = "none"
    /\ listener = "none"
    /\ listenErr = <<>>
    /\ conns = [c \in Conns |-> Free]
    /\ elapsed = 0
    /\ runErr = {}
    /\ failed = {}
    /\ lost = {}

Main == \/ LoadConfig \/ OpenClients \/ Serve \/ Listen
        \/ ListenerFailed \/ BeginShutdown \/ ShutdownDone \/ ForceClose
        \/ Drain \/ CloseClients \/ SyncAndExit

Connection(c) == \/ Accept(c) \/ StartHandler(c) \/ DropConn(c)
                 \/ HandlerReturns(c) \/ ResponseSent(c)

Next == \/ Main \/ Signal \/ ServeReturns \/ Tick
        \/ \E c \in Conns : Connection(c)

Spec == Init /\ [][Next]_vars

\* The goroutines of run and of the listener run, time passes, and what is
\* due on a connection happens.
FairSpec ==
    /\ Spec
    /\ WF_vars(Main)
    /\ WF_vars(server = "shutting down" /\ ServeReturns)
    /\ WF_vars(Tick)
    /\ \A c \in Conns :
          WF_vars(Due(c) /\ (DropConn(c) \/ HandlerReturns(c) \/ ResponseSent(c)))
-----------------------------------------------------------------------------
(* Properties *)

\* A process that exits with status 0 was told to, has served every request
\* it started and has nothing left unreported: a listener that failed at the
\* same time as the signal, a forced close and an error of a deferred call
\* all end in a non-zero exit (run, serve).
CleanExitHidesNothing ==
    pc = "exited" /\ runErr = {} => signaled /\ lost = {} /\ failed = {}

\* The Firestore client is closed under a running handler only on the way to
\* a failed exit (the deferred Close of run after serve returned).
ClientsOutliveHandlers ==
    clients = "closed" /\ (\E c \in Conns : conns[c].state = "working") =>
        runErr \cap {"accept", "shutdown"} # {}

\* A request whose handler ran when the shutdown began, and whose client
\* reads its response, is never cut off, unless the listener failed
\* (ShutdownTimeout leaves room for RequestTimeout, and the signal does not
\* cancel the context of Shutdown).
StartedRequestsSurviveShutdown ==
    (\E l \in lost : l.early /\ ~l.slow) => "accept" \in runErr

\* While run still serves, a handler has time left to write its response:
\* its context ends before the write timeout of its connection (README,
\* "request contexts expire before the server write timeout").
ContextEndsBeforeWriteTimeout ==
    \A c \in Conns : conns[c].state = "working" => conns[c].age < WriteTimeout

\* A signal, or a listener that fails, ends the process.
ProcessEnds == (signaled \/ listener = "returned") ~> (pc = "exited")
=============================================================================
