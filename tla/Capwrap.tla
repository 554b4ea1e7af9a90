-------------------------------- MODULE Capwrap --------------------------------
(***************************************************************************)
(* A server and its clients: CapwrapServer and CapwrapCalls put together.  *)
(* A typed client's connection is one of the server's connections, and a   *)
(* call runs on the capability ServeConn took for it, while services are   *)
(* registered anew, the server is cancelled and clients come and go.       *)
(*                                                                         *)
(* What CapwrapCalls leaves open about the server's end of a connection,   *)
(* the state of ServeConn decides here: session and service are functions  *)
(* of it. A connection has two ends, and each learns by itself that the    *)
(* other has closed or that the network between them is dead.              *)
(*                                                                         *)
(* The application serves through Serve, which ListenAndServe calls with   *)
(* a listener of its own, and clients dial and call with                   *)
(* context.Background(): the modules of the parts have the other cases.    *)
(***************************************************************************)
EXTENDS CapwrapServer

CONSTANTS
    Calls, NoCall, NoClient,   \* as in CapwrapCalls, where Conns are the clients
    Stubs, Misfits, NilResponses

ASSUME WrapperAssumption ==
    /\ NoCall \notin Calls
    /\ NoClient \notin Conns
    /\ Stubs \subseteq Calls
    /\ Misfits \subseteq Calls
    /\ NilResponses \in BOOLEAN

VARIABLES
    client, boot, link, call, owner, answer, msg,   \* as in CapwrapCalls
    outcome, got, ctxEnded, at, sent, ran, crashed,
    cut       \* the clients whose network to the server has died, for good: a
              \* shorter interruption is a delay

\* A client's connection, as the server serves it: see the head of this module.
session ==
    [c \in Conns |-> CASE conn[c] = "serving" -> "serving"
                         [] conn[c] \in {"down", "done"} -> "ended"
                         [] OTHER -> "none"]

\* The capability it is, or was, served with.
service == [c \in Conns |-> IF session[c] = "none" THEN NoCap ELSE loaded[c]]

Wrapper == INSTANCE CapwrapCalls WITH
    Clients <- Conns, Services <- Caps, NoService <- NoCap

wrapperVars == <<client, boot, link, call, owner, answer, msg, outcome, got,
                ctxEnded, at, sent, ran, crashed>>
systemVars == <<vars, wrapperVars, cut>>

\* A goroutine that panics is one way for the process to die.
SystemTypeOK ==
    /\ TypeOK
    /\ Wrapper!TypeOK
    /\ panicked => crashed
    /\ cut \subseteq Conns

SystemInit == Init /\ Wrapper!Init /\ cut = {}

-----------------------------------------------------------------------------
(* Steps of one side. They need a live server only if they are its own.       *)

ServerAlone(step) ==
    /\ ~crashed
    /\ step
    /\ UNCHANGED <<wrapperVars, cut>>

WrapperAlone(step) ==
    /\ UNCHANGED <<vars, cut>>
    /\ step

-----------------------------------------------------------------------------
(* The ends of a connection.                                                 *)

\* Nothing arrives on c's connection any more, in either direction.
NetworkDies(c) ==
    /\ client[c] # "none"
    /\ c \notin cut
    /\ cut' = cut \cup {c}
    /\ UNCHANGED <<vars, wrapperVars>>

\* The keepalives of TCP, which package net turns on, fail at the client ...
ClientNotices(c) ==
    /\ c \in cut
    /\ WrapperAlone(Wrapper!LinkFails(c))

\* ... and at the server, where the end of a connection its client has closed
\* arrives if the network lives.
ServerNotices(c) ==
    /\ c \in cut \/ client[c] = "closed"
    /\ ServerAlone(PeerGoes(c))

\* The listener is closed with the connection in its backlog.
Refused(c) ==
    /\ conn[c] = "refused"
    /\ WrapperAlone(Wrapper!LinkFails(c))

-----------------------------------------------------------------------------
(* Steps of both sides.                                                      *)

\* The connection Dial opens waits in the listener's backlog.
DialConnects(c) ==
    /\ ~crashed
    /\ Connect(c)
    /\ Wrapper!Dial(c)
    /\ UNCHANGED cut

\* Fault: ServeConn looks at s.bootstrap again while it serves.
Reload(c) ==
    \/ LoadBootstrap(c)
    \/ /\ conn[c] = "serving"
       /\ loaded' = [loaded EXCEPT ![c] = bootstrap]
       /\ UNCHANGED <<capVars, loopVars, peer, conn, panicked>>

\* ServeConn reads the bootstrap, which its client does not see.
Load(c) == LoadBootstrap(c)

\* ServeConn takes its reference and serves; or AddRef panics, which ends the
\* calls of all clients.
TakeUp(c) ==
    /\ ~crashed
    /\ AddRefAndServe(c)
    /\ \/ panicked' /\ Wrapper!ServerDies
       \/ ~panicked' /\ Wrapper!TakenUp(c)
    /\ UNCHANGED cut

\* The rpc.Conn shuts down, because its peer is gone or ServeConn closes it.
EndSession(c) ==
    /\ ~crashed
    /\ RpcConnShutdown(c) \/ ServeConnCancelled(c)
    /\ Wrapper!SessionEnds(c)
    /\ UNCHANGED cut

-----------------------------------------------------------------------------
(* The specification.                                                        *)

\* What the application, the clients, the network and implementations choose.
Choice ==
    \/ ServerAlone(\/ \E s \in Caps : Register(s)
                   \/ CallServe
                   \/ Cancel
                   \/ CallerClosesListener)
    \/ \E c \in Conns :
          \/ DialConnects(c)
          \/ NetworkDies(c)
          \/ ServerNotices(c)
          \/ WrapperAlone(Wrapper!CloseReleases(c))
    \/ \E c \in Conns, x \in Calls : WrapperAlone(Wrapper!CallMethod(c, x))
    \/ \E x \in Calls : WrapperAlone(Wrapper!Lose(x) \/ Wrapper!Impl(x))

\* The goroutines of Serve and of a SetBootstrap in progress.
Serving == ServerAlone(Registrar \/ ServeLoop \/ Watcher)

\* The goroutines of one connection, at the server and at the client.
Session(c) ==
    \/ ServerAlone(Load(c) \/ ServeConnDone(c))
    \/ TakeUp(c)
    \/ EndSession(c)

Link(c) ==
    \/ ClientNotices(c)
    \/ WrapperAlone(Wrapper!CloseCloses(c))
    \/ /\ c \notin cut
       /\ Refused(c) \/ WrapperAlone(Wrapper!HangUp(c) \/ Wrapper!BootAnswered(c))

\* A call or its answer arrives.
Transport(x) == owner[x] \notin cut /\ WrapperAlone(Wrapper!Transport(x))

\* The goroutines of a call.
CallRuns(x) ==
    Transport(x) \/ WrapperAlone(Wrapper!Method(x) \/ Wrapper!Adapter(x))

SystemNext ==
    \/ Choice
    \/ Serving
    \/ \E c \in Conns : Session(c) \/ Link(c)
    \/ \E x \in Calls : CallRuns(x)

SystemSpec == SystemInit /\ [][SystemNext]_systemVars

\* All goroutines run, live networks deliver and clients notice dead ones; each is
\* fair on its own, as in the modules of the parts. No implementation need ever
\* return, no context end, and nobody need register, dial or close.
SystemFairness ==
    /\ WF_systemVars(ServerAlone(Registrar))
    /\ WF_systemVars(ServerAlone(ServeLoop))
    /\ WF_systemVars(ServerAlone(Watcher))
    /\ \A c \in Conns :
          /\ WF_systemVars(Session(c))
          /\ WF_systemVars(Link(c))
    /\ \A x \in Calls :
          /\ WF_systemVars(WrapperAlone(Wrapper!Method(x)))
          /\ WF_systemVars(Transport(x))
          /\ WF_systemVars(WrapperAlone(Wrapper!Adapter(x)))

SystemFairSpec == SystemSpec /\ SystemFairness

-----------------------------------------------------------------------------
(* Properties.                                                               *)

\* In this system the typed clients' side takes only the steps CapwrapCalls
\* allows it: what is checked and proved there holds here.
ImplementsWrapper == Wrapper!Spec

\* A call that waits at the server or runs, on a connection that is served, has
\* a service that has not been shut down, however often the application has
\* registered another since (server.go:32-37, 74-76).
RunByLiveService ==
    \A x \in Calls :
        at[x] \in {"queue", "impl"} /\ conn[owner[x]] = "serving" =>
            loaded[owner[x]] \in Caps \ down

\* The server's process dies for one of two reasons: a registration, if the
\* application registers while it serves, hit a ServeConn between its two steps,
\* or an implementation answered a call with a nil response.
DeathExplained ==
    \/ panicked /\ RegisterWhileServing /\ \E k \in Conns : Undercut(k)
    \/ \E y \in Calls : sent[y] = "nil"

\* A client loses its connection only when it closes it or its network dies, when
\* Serve's context is done, when the listener was closed before the connection
\* was accepted, or when the server's process dies: that of another client, whose
\* call gets a nil response or whose ServeConn a registration hits, included.
\* It does not because Serve returns, because another service is registered and
\* hits nobody, or because other clients go (server.go:32-83).
LossExplained ==
    \A c \in Conns :
        link[c] = "down" =>
            \/ client[c] = "closed"
            \/ c \in cut
            \/ ctxDone
            \/ conn[c] = "refused"
            \/ DeathExplained

\* So a method fails only because its own client closes or loses its network,
\* its own fields do not fit or its implementation says so, because Serve's
\* context is done or the server never accepts its client, or because the process
\* dies: of what others do, only a nil response, or a registration that hits a
\* ServeConn, fails a call (server.go:32-83, calculator.capwrap.go:116-136).
FailuresTraced ==
    \A x \in Calls :
        outcome[x] = "error" =>
            \/ client[owner[x]] # "open"
            \/ x \in Misfits
            \/ sent[x] = "error"
            \/ owner[x] \in cut
            \/ ctxDone
            \/ conn[owner[x]] = "refused"
            \/ DeathExplained

\* When the context of Serve is cancelled, no method stays blocked on that
\* server, even if implementations hang and no call has a context of its own.
CancelEndsCalls ==
    \A x \in Calls :
        ctxDone /\ watcher # "none" /\ call[x] = "waiting"
            ~> call[x] = "returned"

=============================================================================
