----------------------- MODULE ServerLifecycleProofs -----------------------
(***************************************************************************)
(* Proofs about ServerLifecycle: what a clean exit means, what the         *)
(* shutdown does to handlers and to the clients they use, for every number *)
(* of connections and all timeouts in the order of loadConfig.             *)
(***************************************************************************)
EXTENDS ServerLifecycle, TLAPS

Starting == {"config", "clients", "serve", "listen"}
Ending == {"close", "sync", "exited"}
Places == Starting \union {"select", "shutdown", "drain"} \union Ending
Errors == {"config", "clients", "listen", "accept", "shutdown", "close", "sync"}
Cuts == [early : BOOLEAN, slow : BOOLEAN]
Channels == {<<>>, <<"accept">>, <<"ErrServerClosed">>}
Connections == [state : {"free", "new", "working", "writing"}, age : Nat,
                slow : BOOLEAN, early : BOOLEAN]

\* Types; the channel of the listener never holds more than its capacity.
TypeOK ==
    /\ pc \in Places
    /\ signaled \in BOOLEAN
    /\ clients \in {"none", "open", "closed"}
    /\ server \in {"none", "serving", "shutting down"}
    /\ listener \in {"none", "accepting", "returned"}
    /\ listenErr \in Channels
    /\ conns \in [Conns -> Connections]
    /\ elapsed \in Nat
    /\ runErr \subseteq Errors /\ failed \subseteq Errors
    /\ lost \subseteq Cuts

\* What run, serve, the server and its goroutine know of each other.
StagesOK ==
    /\ pc \in Starting => listener = "none" /\ server = "none"
    /\ pc = "select" => server = "serving" /\ listener # "none"
    /\ pc = "shutdown" =>
          server = "shutting down" /\ signaled /\ listener # "none"
    /\ pc = "drain" => signaled /\ listener = "returned"
    /\ pc \in Ending => listener # "accepting"
    /\ pc \in Ending => (listenErr = <<>> \/ "shutdown" \in runErr)
    /\ clients = "closed" => pc \in {"sync", "exited"}
    /\ listenErr # <<>> => listener = "returned"
    /\ listenErr = <<"ErrServerClosed">> => server = "shutting down"
    /\ pc \notin Ending /\ listener = "returned" => listenErr # <<>>

\* What is reported, and who still works when it is.
Grave == runErr \intersect {"accept", "shutdown"} # {}

Idle == \A c \in Conns : conns[c].state = "free"

ErrorsOK ==
    /\ failed \subseteq runErr \union {"accept"}
    /\ "accept" \in failed => "accept" \in runErr \/ listenErr = <<"accept">>
    /\ pc \in Ending /\ runErr = {} => signaled
    /\ pc \in Starting \union {"drain", "exited"} => Idle
    /\ pc \in Ending => Grave \/ Idle
    /\ pc \in Ending /\ server = "serving" => "accept" \in runErr
    /\ lost # {} => Grave

\* The ages of the connections and of the shutdown.
ConnectionOK(r) ==
    /\ r.state \in {"free", "new"} => ~r.early
    /\ r.state = "working" => r.age <= RequestTimeout
    /\ r.state = "writing" /\ ~r.slow => r.age <= RequestTimeout

TimesOK ==
    /\ \A c \in Conns : ConnectionOK(conns[c])
    /\ pc = "shutdown" => \A c \in Conns : conns[c].early => conns[c].age >= elapsed
    /\ pc \in Ending /\ "accept" \notin runErr => \A c \in Conns : ~conns[c].early
    /\ StartedRequestsSurviveShutdown

IInv == TypeOK /\ StagesOK /\ ErrorsOK /\ TimesOK
-----------------------------------------------------------------------------
(* One lemma for the first state and one for each action                   *)

\* A connection nobody uses.
LEMMA FreeOK == Free \in Connections /\ ConnectionOK(Free)
                  /\ Free.state = "free" /\ ~Free.early
  BY DEF Free, Connections, ConnectionOK

\* The channel of the listener, as it is filled and emptied.
LEMMA ChannelTypes ==
    /\ <<>> \in Channels /\ <<"accept">> \in Channels
    /\ <<"ErrServerClosed">> \in Channels
    /\ Append(<<>>, "accept") = <<"accept">>
    /\ Append(<<>>, "ErrServerClosed") = <<"ErrServerClosed">>
    /\ Head(<<"accept">>) = "accept"
    /\ Head(<<"ErrServerClosed">>) = "ErrServerClosed"
    /\ <<"accept">> # <<>> /\ <<"ErrServerClosed">> # <<>>
    /\ <<"accept">> # <<"ErrServerClosed">>
  BY DEF Channels

\* A process that has just started.
LEMMA InitOK == Init => IInv
  <1> SUFFICES ASSUME Init PROVE IInv
    OBVIOUS
  <1>1. TypeOK /\ StagesOK
    BY FreeOK, ChannelTypes
       DEF Init, TypeOK, StagesOK, Places, Starting, Ending
  <1>2. ErrorsOK /\ TimesOK
    BY FreeOK DEF Init, ErrorsOK, TimesOK, Idle, Starting, Ending,
              StartedRequestsSurviveShutdown
  <1> QED
    BY <1>1, <1>2 DEF IInv

\* The steps of run and serve up to the select.
LEMMA StartOK ==
    ASSUME IInv, LoadConfig \/ OpenClients \/ Serve \/ Listen \/ Signal
    PROVE  IInv'
  <1>1. UNCHANGED <<listenErr, conns, elapsed, lost>>
    BY DEF LoadConfig, OpenClients, Serve, Listen, Signal
  <1>2. TypeOK'
    <2>1. /\ pc' \in Places /\ signaled' \in BOOLEAN
          /\ clients' \in {"none", "open", "closed"}
          /\ server' \in {"none", "serving", "shutting down"}
          /\ listener' \in {"none", "accepting", "returned"}
      BY DEF IInv, TypeOK, Places, Starting, Ending,
         LoadConfig, OpenClients, Serve, Listen, Signal
    <2>2. \/ runErr' = runErr /\ failed' = failed
          \/ \E e \in Errors : Report(e)
      BY DEF LoadConfig, OpenClients, Serve, Listen, Signal, Errors
    <2>3. runErr' \subseteq Errors /\ failed' \subseteq Errors
      BY <2>2 DEF IInv, TypeOK, Report
    <2> QED
      BY <1>1, <2>1, <2>3 DEF IInv, TypeOK
  <1>3. StagesOK'
    BY <1>1 DEF IInv, TypeOK, StagesOK, Starting, Ending, LoadConfig,
       OpenClients, Serve, Listen, Signal
  <1>4. ErrorsOK'
    BY <1>1 DEF IInv, TypeOK, StagesOK, ErrorsOK, Starting, Ending, Places,
       Grave, Idle, Report, LoadConfig, OpenClients, Serve, Listen, Signal
  <1>5. TimesOK'
    BY <1>1 DEF IInv, TypeOK, StagesOK, ErrorsOK, TimesOK, ConnectionOK,
       Starting, Ending, Idle, Report, StartedRequestsSurviveShutdown,
       LoadConfig, OpenClients, Serve, Listen, Signal
  <1> QED
    BY <1>2, <1>3, <1>4, <1>5 DEF IInv

\* The goroutine of the listener leaves its error in the channel.
LEMMA ServeReturnsOK ==
    ASSUME IInv, ServeReturns
    PROVE  IInv'
  <1>1. /\ pc \in {"select", "shutdown"} /\ listenErr = <<>>
        /\ listener = "accepting" /\ listener' = "returned"
        /\ UNCHANGED <<pc, signaled, clients, server, conns, elapsed, runErr,
                       lost>>
    BY DEF IInv, TypeOK, StagesOK, ServeReturns, Places, Starting, Ending
  <1>2. \/ /\ server = "shutting down"
           /\ listenErr' = <<"ErrServerClosed">> /\ failed' = failed
        \/ /\ server = "serving"
           /\ listenErr' = <<"accept">> /\ failed' = failed \union {"accept"}
    <2>1. \/ /\ server = "shutting down"
             /\ listenErr' = Append(<<>>, "ErrServerClosed") /\ failed' = failed
          \/ /\ server = "serving"
             /\ listenErr' = Append(<<>>, "accept")
             /\ failed' = failed \union {"accept"}
      BY <1>1 DEF ServeReturns
    <2> QED
      BY <2>1, ChannelTypes
  <1>3. TypeOK'
    <2>1. listenErr' \in Channels
      BY <1>2, ChannelTypes
    <2>2. failed' \subseteq Errors
      BY <1>2 DEF IInv, TypeOK, Errors
    <2> QED
      BY <1>1, <2>1, <2>2 DEF IInv, TypeOK
  <1>4. StagesOK'
    BY <1>1, <1>2, ChannelTypes DEF IInv, StagesOK, Starting, Ending
  <1>5. ErrorsOK'
    BY <1>1, <1>2 DEF IInv, ErrorsOK, Starting, Ending, Grave, Idle
  <1>6. TimesOK'
    BY <1>1 DEF IInv, TimesOK, StartedRequestsSurviveShutdown
  <1> QED
    BY <1>3, <1>4, <1>5, <1>6 DEF IInv

\* Whatever happens to a connection.
LEMMA ConnectionStepOK ==
    ASSUME IInv, NEW c \in Conns, Connection(c)
    PROVE  IInv'
  <1>1. /\ pc # "exited"
        /\ UNCHANGED <<pc, signaled, clients, server, listener, listenErr,
                       elapsed, runErr, failed, lost>>
    BY DEF Connection, Accept, StartHandler, DropConn, HandlerReturns,
           ResponseSent
  <1>2. conns \in [Conns -> Connections] /\ conns[c] \in Connections
        /\ ConnectionOK(conns[c])
    BY DEF IInv, TypeOK, TimesOK
  <1>3. PICK r \in Connections :
          /\ conns' = [conns EXCEPT ![c] = r]
          /\ ConnectionOK(r)
          /\ conns[c].state = "free" => listener = "accepting"
          /\ r.early => \/ conns[c].early /\ r.age = conns[c].age
                        \/ conns[c].state = "new" /\ server = "serving"
    <2>1. CASE Accept(c)
      <3> PICK slow \in BOOLEAN :
            conns' = [conns EXCEPT ![c] = [Free EXCEPT !.state = "new",
                                                       !.slow = slow]]
        BY <2>1 DEF Accept
      <3> DEFINE r == [Free EXCEPT !.state = "new", !.slow = slow]
      <3>1. r \in Connections /\ ConnectionOK(r) /\ ~r.early
        BY DEF Free, Connections, ConnectionOK
      <3> QED
        BY <2>1, <3>1 DEF Accept
    <2>2. CASE StartHandler(c)
      <3> DEFINE r == [conns[c] EXCEPT !.state = "working", !.age = 0,
                                       !.early = server = "serving"]
      <3>1. conns' = [conns EXCEPT ![c] = r] /\ conns[c].state = "new"
        BY <1>2, <2>2 DEF StartHandler
      <3>2. /\ r.state = "working" /\ r.age = 0
            /\ r.early = (server = "serving")
        BY <1>2 DEF Connections
      <3>3. r \in Connections
        BY <1>2, <3>2 DEF Connections
      <3>4. ConnectionOK(r)
        BY <3>2, LifecycleAssumption DEF ConnectionOK
      <3>5. r.early => server = "serving"
        BY <3>2
      <3> QED
        BY <3>1, <3>3, <3>4, <3>5
    <2>3. CASE HandlerReturns(c)
      <3> DEFINE r == [conns[c] EXCEPT !.state = "writing"]
      <3>1. conns' = [conns EXCEPT ![c] = r] /\ conns[c].state = "working"
        BY <1>2, <2>3 DEF HandlerReturns
      <3>2. /\ r \in Connections /\ ConnectionOK(r)
            /\ r.early = conns[c].early /\ r.age = conns[c].age
        BY <1>2, <3>1 DEF Connections, ConnectionOK
      <3> QED
        BY <3>1, <3>2
    <2>4. CASE DropConn(c) \/ ResponseSent(c)
      BY <2>4, FreeOK DEF DropConn, ResponseSent
    <2> QED
      BY <2>1, <2>2, <2>3, <2>4 DEF Connection
  <1>4. /\ \A d \in Conns : conns'[d] = IF d = c THEN r ELSE conns[d]
        /\ conns' \in [Conns -> Connections]
    BY <1>2, <1>3
  <1>5. TypeOK'
    BY <1>1, <1>4 DEF IInv, TypeOK
  <1>6. StagesOK'
    BY <1>1 DEF IInv, StagesOK
  <1>7. ~Idle \/ pc \in {"select", "shutdown"}
    BY <1>1, <1>2, <1>3 DEF IInv, TypeOK, StagesOK, Idle, Places, Starting, Ending
  <1>8. ErrorsOK'
    <2>1. pc \in {"select", "shutdown"} \/ (pc \in Ending /\ Grave)
      BY <1>1, <1>7 DEF IInv, TypeOK, ErrorsOK, Places, Ending
    <2> QED
      BY <1>1, <2>1 DEF IInv, ErrorsOK, Grave, Starting, Ending
  <1>9. TimesOK'
    <2>1. pc \in Ending /\ "accept" \notin runErr => server # "serving"
      BY DEF IInv, ErrorsOK
    <2>2. pc = "shutdown" => server # "serving"
      BY DEF IInv, StagesOK
    <2>3. \A d \in Conns : ConnectionOK(conns'[d])
      BY <1>3, <1>4 DEF IInv, TimesOK
    <2>4. pc = "shutdown" =>
            \A d \in Conns : conns'[d].early => conns'[d].age >= elapsed
      BY <1>3, <1>4, <2>2 DEF IInv, TimesOK
    <2>5. pc \in Ending /\ "accept" \notin runErr =>
            \A d \in Conns : ~conns'[d].early
      BY <1>3, <1>4, <2>1 DEF IInv, TimesOK
    <2>6. StartedRequestsSurviveShutdown'
      BY <1>1 DEF IInv, TimesOK, StartedRequestsSurviveShutdown
    <2> QED
      BY <1>1, <2>3, <2>4, <2>5, <2>6 DEF TimesOK, ConnectionOK
  <1> QED
    BY <1>5, <1>6, <1>8, <1>9 DEF IInv

\* serve takes what the listener said, in the select or at the end.
LEMMA ReceiveOK ==
    ASSUME IInv, ListenerFailed \/ Drain
    PROVE  IInv'
  <1>1. /\ pc \in {"select", "drain"} /\ pc' = "close"
        /\ listenErr # <<>> /\ listenErr' = <<>> /\ listener = "returned"
        /\ runErr' = IF Head(listenErr) = "ErrServerClosed" THEN runErr
                     ELSE runErr \union {Head(listenErr)}
        /\ UNCHANGED <<signaled, clients, server, listener, conns, elapsed,
                       failed, lost>>
    BY DEF IInv, StagesOK, ListenerFailed, Drain
  <1>2. \/ listenErr = <<"accept">> /\ runErr' = runErr \union {"accept"}
        \/ listenErr = <<"ErrServerClosed">> /\ runErr' = runErr
    BY <1>1, ChannelTypes DEF IInv, TypeOK, Channels
  <1>3. listenErr = <<"ErrServerClosed">> => pc = "drain"
    BY <1>1 DEF IInv, StagesOK
  <1>4. TypeOK'
    <2>1. runErr' \subseteq Errors
      BY <1>2 DEF IInv, TypeOK, Errors
    <2>2. pc' \in Places /\ listenErr' \in Channels
      BY <1>1, ChannelTypes DEF Places, Ending
    <2> QED
      BY <1>1, <2>1, <2>2 DEF IInv, TypeOK
  <1>5. StagesOK'
    BY <1>1 DEF IInv, StagesOK, Starting, Ending
  <1>6. ErrorsOK'
    <2>1. failed' \subseteq runErr' \union {"accept"} /\ (lost' # {} => Grave')
      BY <1>1, <1>2 DEF IInv, ErrorsOK, Grave
    <2>2. "accept" \in failed => "accept" \in runErr'
      BY <1>1, <1>2, ChannelTypes DEF IInv, ErrorsOK
    <2>3. CASE listenErr = <<"accept">>
      <3>1. "accept" \in runErr' /\ Grave'
        BY <1>2, <2>3, ChannelTypes DEF Grave
      <3> QED
        BY <1>1, <2>1, <2>2, <3>1 DEF ErrorsOK, Starting, Ending
    <2>4. CASE listenErr = <<"ErrServerClosed">>
      <3>1. pc = "drain" /\ Idle /\ signaled /\ server = "shutting down"
        BY <1>3, <2>4 DEF IInv, StagesOK, ErrorsOK
      <3>2. Idle'
        BY <1>1, <3>1 DEF Idle
      <3> QED
        BY <1>1, <2>1, <2>2, <3>1, <3>2 DEF ErrorsOK, Starting, Ending
    <2> QED
      BY <1>2, <2>3, <2>4
  <1>7. TimesOK'
    <2>1. pc = "drain" => \A c \in Conns : ~conns[c].early
      BY DEF IInv, ErrorsOK, Idle, TimesOK, ConnectionOK
    <2> QED
      BY <1>1, <1>2, <1>3, <2>1
         DEF IInv, TimesOK, ConnectionOK, Ending, StartedRequestsSurviveShutdown
  <1> QED
    BY <1>4, <1>5, <1>6, <1>7 DEF IInv

\* The shutdown begins, and ends when nothing is left to wait for.
LEMMA ShutdownOK ==
    ASSUME IInv, BeginShutdown \/ ShutdownDone
    PROVE  IInv'
  <1>1. UNCHANGED <<signaled, clients, listener, listenErr, conns, runErr,
                    failed, lost>>
    BY DEF BeginShutdown, ShutdownDone
  <1>2. TypeOK'
    <2>1. /\ pc' \in Places /\ elapsed' \in Nat
          /\ server' \in {"none", "serving", "shutting down"}
      <3>1. elapsed \in Nat /\ server \in {"none", "serving", "shutting down"}
        BY DEF IInv, TypeOK
      <3>2. pc' \in {"shutdown", "drain"} /\ elapsed' \in {0, elapsed}
              /\ server' \in {server, "shutting down"}
        BY DEF BeginShutdown, ShutdownDone
      <3>3. "shutdown" \in Places /\ "drain" \in Places
        BY DEF Places
      <3>4. elapsed' \in Nat
        <4>1. elapsed' = 0 \/ elapsed' = elapsed
          BY DEF BeginShutdown, ShutdownDone
        <4>2. elapsed \in Nat
          BY <3>1
        <4> QED
          BY <4>1, <4>2
      <3> QED
        BY <3>1, <3>2, <3>3, <3>4
    <2> QED
      BY <1>1, <2>1 DEF IInv, TypeOK
  <1>3. StagesOK'
    BY <1>1 DEF IInv, StagesOK, Starting, Ending, BeginShutdown, ShutdownDone
  <1>4. ErrorsOK'
    BY <1>1 DEF IInv, ErrorsOK, Grave, Idle, Busy, Starting, Ending,
           BeginShutdown, ShutdownDone
  <1>5. TimesOK'
    <2>1. pc' \notin Ending /\ (pc' = "shutdown" => elapsed' = 0)
      BY DEF Ending, BeginShutdown, ShutdownDone
    <2>2. \A c \in Conns : conns[c].age >= 0
      <3> SUFFICES ASSUME NEW c \in Conns PROVE conns[c].age >= 0
        OBVIOUS
      <3>1. conns[c] \in Connections
        BY DEF IInv, TypeOK
      <3>2. conns[c].age \in Nat
        BY <3>1 DEF Connections
      <3> QED
        BY <3>2
    <2>3. StartedRequestsSurviveShutdown'
      BY <1>1 DEF IInv, TimesOK, StartedRequestsSurviveShutdown
    <2> QED
      BY <1>1, <2>1, <2>2, <2>3 DEF IInv, TimesOK, ConnectionOK
  <1> QED
    BY <1>2, <1>3, <1>4, <1>5 DEF IInv

\* When the shutdown gives up, every handler that ran when it began has
\* returned: its context ended before.
LEMMA ForceCloseOK ==
    ASSUME IInv, ForceClose
    PROVE  IInv'
  <1>1. /\ pc = "shutdown" /\ pc' = "close" /\ listener = "returned"
        /\ runErr' = runErr \union {"shutdown"}
        /\ failed' = failed \union {"shutdown"}
        /\ lost' = lost \union Cut
        /\ conns' = [c \in Conns |-> IF conns[c].state = "working"
                                     THEN conns[c] ELSE Free]
        /\ elapsed = ShutdownTimeout
        /\ UNCHANGED <<signaled, clients, server, listener, listenErr, elapsed>>
    BY DEF ForceClose, Report, ShutdownExpired
  <1>2. /\ conns \in [Conns -> Connections] /\ elapsed > RequestTimeout
        /\ \A c \in Conns : conns[c].early => conns[c].age >= elapsed
        /\ \A c \in Conns : ConnectionOK(conns[c])
    BY <1>1, LifecycleAssumption DEF IInv, TypeOK, TimesOK
  <1>3. ASSUME NEW c \in Conns, conns[c].early,
               conns[c].state \in {"working", "writing"}
        PROVE  conns[c].state = "writing" /\ conns[c].slow
    <2>1. conns[c] \in Connections /\ conns[c].age > RequestTimeout
      <3>1. conns[c] \in Connections /\ conns[c].age >= elapsed
        BY <1>2, <1>3
      <3>2. conns[c].age \in Nat /\ elapsed \in Nat /\ RequestTimeout \in Nat
        BY <3>1, LifecycleAssumption DEF IInv, TypeOK, Connections
      <3> QED
        BY <1>2, <3>1, <3>2
    <2>2. ~(conns[c].age <= RequestTimeout)
      <3>1. conns[c].age \in Nat /\ RequestTimeout \in Nat
        BY <2>1, LifecycleAssumption DEF Connections
      <3> QED
        BY <2>1, <3>1
    <2> QED
      BY <1>2, <1>3, <2>2 DEF ConnectionOK
  <1>4. /\ conns' \in [Conns -> Connections]
        /\ \A c \in Conns : ConnectionOK(conns'[c]) /\ ~conns'[c].early
    <2>1. ASSUME NEW c \in Conns, conns[c].state = "working"
          PROVE  ~conns[c].early
      BY <1>3, <2>1
    <2> QED
      BY <1>1, <1>2, <2>1, FreeOK
  <1>5. TypeOK'
    <2>1. Cut \subseteq Cuts
      BY <1>2 DEF Cut, Cuts, Connections
    <2>2. runErr' \subseteq Errors /\ failed' \subseteq Errors
      BY <1>1 DEF IInv, TypeOK, Errors
    <2>3. pc' \in Places /\ lost' \subseteq Cuts
      BY <1>1, <2>1 DEF IInv, TypeOK, Places, Ending
    <2>4. UNCHANGED <<signaled, clients, server, listener, listenErr, elapsed>>
      BY <1>1
    <2> QED
      BY <1>4, <2>2, <2>3, <2>4 DEF IInv, TypeOK
  <1>6. StagesOK'
    BY <1>1 DEF IInv, StagesOK, Starting, Ending
  <1>7. ErrorsOK'
    <2>1. server = "shutting down" /\ Grave'
      BY <1>1 DEF IInv, StagesOK, Grave
    <2>2. "accept" \in failed' => "accept" \in runErr' \/ listenErr' = <<"accept">>
      BY <1>1 DEF IInv, ErrorsOK
    <2> QED
      BY <1>1, <2>1, <2>2 DEF IInv, ErrorsOK, Starting, Ending
  <1>8. TimesOK'
    <2>1. \A l \in Cut : ~(l.early /\ ~l.slow)
      BY <1>3 DEF Cut, InFlight
    <2>2. StartedRequestsSurviveShutdown'
      BY <1>1, <2>1 DEF IInv, TimesOK, StartedRequestsSurviveShutdown
    <2> QED
      BY <1>1, <1>4, <2>2 DEF TimesOK
  <1> QED
    BY <1>5, <1>6, <1>7, <1>8 DEF IInv

\* The clients are closed when serve has returned.
LEMMA CloseClientsOK ==
    ASSUME IInv, CloseClients
    PROVE  IInv'
  <1>1. /\ pc = "close" /\ pc' = "sync"
        /\ UNCHANGED <<signaled, server, listener, listenErr, conns, elapsed, lost>>
        /\ clients' \in {clients, "closed"}
        /\ \/ runErr' = runErr /\ failed' = failed
           \/ runErr' = runErr \union {"close"} /\ failed' = failed \union {"close"}
    BY DEF CloseClients, Report
  <1>2. TypeOK'
    BY <1>1 DEF IInv, TypeOK, Places, Ending, Errors
  <1>3. StagesOK'
    BY <1>1 DEF IInv, StagesOK, Starting, Ending
  <1>4. ErrorsOK'
    BY <1>1 DEF IInv, ErrorsOK, Grave, Idle, Starting, Ending
  <1>5. TimesOK'
    BY <1>1 DEF IInv, TimesOK, ConnectionOK, Ending,
       StartedRequestsSurviveShutdown
  <1> QED
    BY <1>2, <1>3, <1>4, <1>5 DEF IInv

\* What still runs when the process exits is lost.
LEMMA SyncAndExitOK ==
    ASSUME IInv, SyncAndExit
    PROVE  IInv'
  <1>1. /\ pc = "sync" /\ pc' = "exited"
        /\ lost' = lost \union Cut
        /\ conns' = [c \in Conns |-> Free]
        /\ UNCHANGED <<signaled, clients, server, listener, listenErr, elapsed>>
        /\ \/ runErr' = runErr /\ failed' = failed
           \/ runErr' = runErr \union {"sync"} /\ failed' = failed \union {"sync"}
    BY DEF SyncAndExit, Report
  <1>2. conns' \in [Conns -> Connections] /\ Idle'
        /\ \A c \in Conns : ConnectionOK(conns'[c]) /\ ~conns'[c].early
    BY <1>1, FreeOK DEF Idle
  <1>3. TypeOK'
    <2>1. Cut \subseteq Cuts
      <3>1. conns \in [Conns -> Connections]
        BY DEF IInv, TypeOK
      <3> QED
        BY <3>1 DEF Cut, Cuts, Connections
    <2>2. runErr' \subseteq Errors /\ failed' \subseteq Errors
      BY <1>1 DEF IInv, TypeOK, Errors
    <2>3. pc' \in Places
      BY <1>1 DEF Places, Ending
    <2> QED
      BY <1>1, <1>2, <2>1, <2>2, <2>3 DEF IInv, TypeOK
  <1>4. StagesOK'
    BY <1>1 DEF IInv, StagesOK, Starting, Ending
  <1>5. ErrorsOK'
    <2>1. Cut # {} => ~Idle
      BY DEF Cut, InFlight, Idle
    <2>2. lost' # {} => Grave'
      BY <1>1, <2>1 DEF IInv, ErrorsOK, Grave, Ending
    <2> QED
      BY <1>1, <1>2, <2>2 DEF IInv, ErrorsOK, Starting, Ending
  <1>6. TimesOK'
    <2>1. "accept" \notin runErr => \A l \in Cut : ~l.early
      BY <1>1 DEF IInv, TimesOK, Cut, Ending
    <2>2. StartedRequestsSurviveShutdown'
      BY <1>1, <2>1 DEF IInv, TimesOK, StartedRequestsSurviveShutdown
    <2> QED
      BY <1>1, <1>2, <2>2 DEF TimesOK
  <1> QED
    BY <1>3, <1>4, <1>5, <1>6 DEF IInv

\* Time passes for the shutdown and for every connection alike.
LEMMA TickOK ==
    ASSUME IInv, Tick
    PROVE  IInv'
  <1>1. /\ pc \in {"select", "shutdown"}
        /\ conns' = [c \in Conns |-> IF conns[c].state = "free" THEN Free
                                     ELSE [conns[c] EXCEPT !.age = @ + 1]]
        /\ elapsed' = IF pc = "shutdown" THEN elapsed + 1 ELSE elapsed
        /\ UNCHANGED <<pc, signaled, clients, server, listener, listenErr,
                       runErr, failed, lost>>
    BY DEF Tick
  <1>2. ASSUME NEW c \in Conns
        PROVE  /\ conns'[c] \in Connections
               /\ ConnectionOK(conns'[c])
               /\ conns'[c].early =>
                     conns[c].early /\ conns'[c].age = conns[c].age + 1
    <2>1. conns[c] \in Connections /\ ConnectionOK(conns[c]) /\ ~Due(c)
      BY DEF IInv, TypeOK, TimesOK, Tick
    <2>2. CASE conns[c].state = "free"
      BY <1>1, <2>2, FreeOK
    <2>3. CASE conns[c].state # "free"
      <3> DEFINE r == [conns[c] EXCEPT !.age = @ + 1]
      <3>1. conns'[c] = r
        BY <1>1, <2>3
      <3>2. /\ r \in Connections /\ r.state = conns[c].state
            /\ r.slow = conns[c].slow /\ r.early = conns[c].early
            /\ r.age = conns[c].age + 1
        BY <2>1 DEF Connections
      <3>3. /\ conns[c].state = "working" => conns[c].age < RequestTimeout
            /\ conns[c].state = "writing" => conns[c].slow
        BY <2>1, LifecycleAssumption DEF Due, Connections
      <3> HIDE DEF r
      <3>4. ConnectionOK(r)
        BY <2>1, <3>2, <3>3, LifecycleAssumption DEF ConnectionOK, Connections
      <3> QED
        BY <3>1, <3>2, <3>4
    <2> QED
      BY <2>2, <2>3
  <1>3. TypeOK'
    <2>1. conns' \in [Conns -> Connections]
      BY <1>1, <1>2
    <2>2. elapsed' \in Nat
      <3>1. elapsed \in Nat
        BY DEF IInv, TypeOK
      <3>2. elapsed' = elapsed \/ elapsed' = elapsed + 1
        BY <1>1
      <3> QED
        BY <3>1, <3>2
    <2> QED
      BY <1>1, <2>1, <2>2 DEF IInv, TypeOK
  <1>4. StagesOK'
    BY <1>1 DEF IInv, StagesOK
  <1>5. ErrorsOK'
    BY <1>1 DEF IInv, ErrorsOK, Grave, Starting, Ending
  <1>6. TimesOK'
    <2>1. pc = "shutdown" =>
            \A c \in Conns : conns'[c].early => conns'[c].age >= elapsed'
      <3> SUFFICES ASSUME pc = "shutdown", NEW c \in Conns, conns'[c].early
                   PROVE  conns'[c].age >= elapsed'
        OBVIOUS
      <3>1. /\ conns[c].age >= elapsed /\ conns[c] \in Connections
            /\ elapsed \in Nat
        BY <1>2 DEF IInv, TypeOK, TimesOK
      <3>2. conns'[c].age = conns[c].age + 1 /\ elapsed' = elapsed + 1
        BY <1>1, <1>2
      <3>3. conns[c].age \in Nat
        BY <3>1 DEF Connections
      <3> QED
        BY <3>1, <3>2, <3>3
    <2>2. StartedRequestsSurviveShutdown'
      BY <1>1 DEF IInv, TimesOK, StartedRequestsSurviveShutdown
    <2> QED
      BY <1>1, <1>2, <2>1, <2>2 DEF TimesOK, Ending
  <1> QED
    BY <1>3, <1>4, <1>5, <1>6 DEF IInv

\* Every step keeps the invariant.
LEMMA StepOK == IInv /\ [Next]_vars => IInv'
  <1> SUFFICES ASSUME IInv, [Next]_vars PROVE IInv'
    OBVIOUS
  <1>1. ASSUME Main PROVE IInv'
    BY <1>1, StartOK, ReceiveOK, ShutdownOK, ForceCloseOK, CloseClientsOK,
       SyncAndExitOK DEF Main
  <1>2. ASSUME Signal PROVE IInv'
    BY <1>2, StartOK
  <1>3. ASSUME ServeReturns \/ Tick PROVE IInv'
    BY <1>3, ServeReturnsOK, TickOK
  <1>4. ASSUME NEW c \in Conns, Connection(c) PROVE IInv'
    BY <1>4, ConnectionStepOK
  <1>5. ASSUME UNCHANGED vars PROVE IInv'
    <2>1. TypeOK' /\ StagesOK'
      BY <1>5 DEF vars, IInv, TypeOK, StagesOK
    <2>2. ErrorsOK'
      BY <1>5 DEF vars, IInv, ErrorsOK, Grave, Idle
    <2>3. TimesOK'
      BY <1>5 DEF vars, IInv, TimesOK, ConnectionOK,
         StartedRequestsSurviveShutdown
    <2> QED
      BY <2>1, <2>2, <2>3 DEF IInv
  <1> QED
    BY <1>1, <1>2, <1>3, <1>4, <1>5 DEF Next

\* What run, serve and the server know of each other, in every reachable
\* state, with the ages that order the timeouts (run, serve, loadConfig).
THEOREM Invariance == Spec => []IInv
  BY InitOK, StepOK, PTL DEF Spec
-----------------------------------------------------------------------------
(* What follows from the invariant                                         *)

\* Every variable keeps its type, the channel its capacity included.
THEOREM TypeCorrect == Spec => []TypeOK
  BY Invariance, PTL DEF IInv

\* A process that exits with status 0 was told to, has lost no request and
\* left no failure unreported (run, serve).
THEOREM CleanExit == Spec => []CleanExitHidesNothing
  <1>1. IInv => CleanExitHidesNothing
    <2> SUFFICES ASSUME IInv, pc = "exited", runErr = {}
                 PROVE  signaled /\ lost = {} /\ failed = {}
      BY DEF CleanExitHidesNothing
    <2>1. "accept" \notin failed
      BY ChannelTypes DEF IInv, StagesOK, ErrorsOK, Ending
    <2> QED
      BY <2>1 DEF IInv, ErrorsOK, Grave, Ending
  <1> QED
    BY <1>1, Invariance, PTL

\* The Firebase clients are closed under a running handler only after a
\* failure of the listener or of the shutdown (the deferred Close of run).
THEOREM ClientsOutlive == Spec => []ClientsOutliveHandlers
  <1>1. IInv => ClientsOutliveHandlers
    <2> SUFFICES ASSUME IInv, clients = "closed",
                        \E c \in Conns : conns[c].state = "working"
                 PROVE  Grave
      BY DEF ClientsOutliveHandlers, Grave
    <2> QED
      BY DEF IInv, StagesOK, ErrorsOK, Idle, Ending
  <1> QED
    BY <1>1, Invariance, PTL

\* No request that ran when the shutdown began is cut off while its client
\* reads, because its context ends before the shutdown does
\* (requestContextTimeout, context.WithoutCancel in serve).
THEOREM RequestsSurvive == Spec => []StartedRequestsSurviveShutdown
  BY Invariance, PTL DEF IInv, TimesOK

\* A handler always has time left to write its response (loadConfig).
THEOREM TimeToWrite == Spec => []ContextEndsBeforeWriteTimeout
  <1>1. IInv => ContextEndsBeforeWriteTimeout
    <2> SUFFICES ASSUME IInv, NEW c \in Conns, conns[c].state = "working"
                 PROVE  conns[c].age < WriteTimeout
      BY DEF ContextEndsBeforeWriteTimeout
    <2>1. conns[c] \in Connections /\ conns[c].age <= RequestTimeout
      BY DEF IInv, TypeOK, TimesOK, ConnectionOK
    <2>2. conns[c].age \in Nat
      BY <2>1 DEF Connections
    <2> QED
      BY <2>1, <2>2, LifecycleAssumption
  <1> QED
    BY <1>1, Invariance, PTL
=============================================================================
