----------------------------- MODULE CapwrapProofs -----------------------------
(* Theorems about Capwrap: the system's server is a CapwrapServer and its       *)
(* clients are those of CapwrapCalls, and what follows for calls and clients.   *)
EXTENDS Capwrap, CapwrapServerProofs

\* The steps of CapwrapServer this system has: all but CallServeConn and
\* CallListenAndServe.
ServerStep ==
    \/ \E s \in Caps : Register(s)
    \/ SetBootstrapAssign
    \/ CallServe \/ Cancel \/ CallerClosesListener
    \/ CheckBootstrap \/ AcceptFails \/ WatcherCloses
    \/ \E c \in Conns :
          \/ AcceptConn(c)
          \/ Connect(c)
          \/ PeerGoes(c)
          \/ LoadBootstrap(c)
          \/ AddRefAndServe(c)
          \/ RpcConnShutdown(c)
          \/ ServeConnDone(c)
          \/ ServeConnCancelled(c)

\* Each step of the system is one of these steps of the server, or none.
LEMMA ServerSide ==
    ASSUME [SystemNext]_systemVars
    PROVE  \/ ~crashed /\ ServerStep
           \/ UNCHANGED vars
<1>1. ASSUME Choice PROVE (~crashed /\ ServerStep) \/ UNCHANGED vars
    BY <1>1 DEF Choice, ServerAlone, WrapperAlone, ServerStep, DialConnects,
                NetworkDies, ServerNotices
<1>2. ASSUME Serving PROVE ~crashed /\ ServerStep
    BY <1>2 DEF Serving, ServerAlone, ServerStep, Registrar, ServeLoop, Watcher
<1>3. ASSUME NEW c \in Conns, Session(c) PROVE ~crashed /\ ServerStep
    BY <1>3 DEF Session, ServerAlone, ServerStep, Load, TakeUp, EndSession
<1>4. ASSUME NEW c \in Conns, Link(c) PROVE UNCHANGED vars
    BY <1>4 DEF Link, ClientNotices, Refused, WrapperAlone
<1>5. ASSUME NEW x \in Calls, CallRuns(x) PROVE UNCHANGED vars
    BY <1>5 DEF CallRuns, Transport, WrapperAlone
<1>. QED
    BY <1>1, <1>2, <1>3, <1>4, <1>5 DEF SystemNext, systemVars

-----------------------------------------------------------------------------
(* What the server's steps keep.                                             *)

\* Who serves has a service, because Serve has looked; and a connection's
\* service ends only when its peer is gone or ctx is done.
Served ==
    /\ serve = "accept" => bootstrap # NoCap
    /\ \A c \in Conns :
          /\ conn[c] \in {"accepted", "loaded", "serving", "down", "done"} =>
                bootstrap # NoCap
          /\ conn[c] \in {"loaded", "serving", "down", "done"} =>
                loaded[c] # NoCap
          /\ conn[c] \in {"down", "done"} => ctxDone \/ peer[c] = "gone"
          /\ conn[c] = "none" => peer[c] = "out"

\* No step of the server takes a service away from who serves or is served.
LEMMA ServedKept ==
    ASSUME TypeOK, Served, ServerStep
    PROVE  Served'
<1>. USE ServerAssumption DEF Served, TypeOK, capVars, loopVars, connVars
<1>1. CASE \E s \in Caps : Register(s)
    BY <1>1 DEF Register
<1>2. CASE SetBootstrapAssign
    BY <1>2 DEF SetBootstrapAssign
<1>3. CASE CallServe \/ Cancel
    BY <1>3 DEF CallServe, Cancel
<1>4. CASE CallerClosesListener \/ WatcherCloses
    BY <1>4 DEF CallerClosesListener, WatcherCloses, WatchAndClose, CloseListener
<1>5. CASE CheckBootstrap \/ AcceptFails
    BY <1>5 DEF CheckBootstrap, BootstrapIsValid, AcceptFails
<1>6. ASSUME NEW c \in Conns, AcceptConn(c) PROVE Served'
    BY <1>6 DEF AcceptConn
<1>7. ASSUME NEW c \in Conns, Connect(c) \/ PeerGoes(c) PROVE Served'
    BY <1>7 DEF Connect, PeerGoes
<1>8. ASSUME NEW c \in Conns, LoadBootstrap(c) PROVE Served'
    BY <1>8 DEF LoadBootstrap
<1>9. ASSUME NEW c \in Conns, AddRefAndServe(c) PROVE Served'
    BY <1>9 DEF AddRefAndServe
<1>10. ASSUME NEW c \in Conns, RpcConnShutdown(c) PROVE Served'
    BY <1>10 DEF RpcConnShutdown
<1>11. ASSUME NEW c \in Conns, ServeConnDone(c) PROVE Served'
    BY <1>11 DEF ServeConnDone
<1>12. ASSUME NEW c \in Conns, ServeConnCancelled(c) PROVE Served'
    BY <1>12 DEF ServeConnCancelled, CtxStops
<1>. QED
    BY <1>1, <1>2, <1>3, <1>4, <1>5, <1>6, <1>7, <1>8, <1>9, <1>10, <1>11, <1>12
       DEF ServerStep

\* What explains the loss of a connection stays so.
LEMMA ReasonsLast ==
    ASSUME TypeOK, Served, ServerStep, NEW c \in Conns
    PROVE  /\ ctxDone => ctxDone'
           /\ conn[c] = "refused" => conn'[c] = "refused"
<1>. USE DEF TypeOK, capVars, loopVars, connVars
<1>1. CASE \E s \in Caps : Register(s)
    BY <1>1 DEF Register
<1>2. CASE SetBootstrapAssign
    BY <1>2 DEF SetBootstrapAssign
<1>3. CASE CallServe \/ Cancel
    BY <1>3 DEF CallServe, Cancel
<1>4. CASE CallerClosesListener \/ WatcherCloses
    BY <1>4 DEF CallerClosesListener, WatcherCloses, WatchAndClose, CloseListener
<1>5. CASE CheckBootstrap \/ AcceptFails
    BY <1>5 DEF CheckBootstrap, AcceptFails
<1>6. CASE \E k \in Conns : AcceptConn(k) \/ Connect(k) \/ PeerGoes(k)
    BY <1>6 DEF AcceptConn, Connect, PeerGoes, Served
<1>7. CASE \E k \in Conns : LoadBootstrap(k) \/ AddRefAndServe(k)
    BY <1>7 DEF LoadBootstrap, AddRefAndServe
<1>8. CASE \E k \in Conns : RpcConnShutdown(k) \/ ServeConnDone(k)
    BY <1>8 DEF RpcConnShutdown, ServeConnDone
<1>9. CASE \E k \in Conns : ServeConnCancelled(k)
    BY <1>9 DEF ServeConnCancelled, CtxStops
<1>. QED
    BY <1>1, <1>2, <1>3, <1>4, <1>5, <1>6, <1>7, <1>8, <1>9 DEF ServerStep

-----------------------------------------------------------------------------
(* The system's server is a server.                                          *)

PanicKillsAll == panicked => crashed

\* A dead process stays dead.
LEMMA CrashLasts ==
    ASSUME [SystemNext]_systemVars, crashed
    PROVE  crashed'
<1>. USE DEF WrapperAlone, ServerAlone, wrapperVars, systemVars, Wrapper!hostVars
<1>1. ASSUME Choice PROVE crashed'
    <2>1. ASSUME NEW c \in Conns, NetworkDies(c) \/ ServerNotices(c)
          PROVE  crashed'
        BY <2>1 DEF NetworkDies, ServerNotices
    <2>2. ASSUME NEW c \in Conns, Wrapper!CloseReleases(c) PROVE crashed'
        BY <2>2 DEF Wrapper!CloseReleases
    <2>3. ASSUME NEW c \in Conns, NEW x \in Calls, Wrapper!CallMethod(c, x)
          PROVE  crashed'
        BY <2>3 DEF Wrapper!CallMethod
    <2>4. ASSUME NEW x \in Calls, Wrapper!Lose(x) \/ Wrapper!Impl(x)
          PROVE  crashed'
        BY <2>4 DEF Wrapper!Lose, Wrapper!Impl, Wrapper!ImplReturns,
                    Wrapper!ImplReturnsNil, Wrapper!Crash
    <2>. QED
        BY <1>1, <2>1, <2>2, <2>3, <2>4 DEF Choice, DialConnects
<1>2. ASSUME NEW c \in Conns, Link(c) PROVE crashed'
    BY <1>2 DEF Link, ClientNotices, Refused, Wrapper!LinkFails,
                Wrapper!CloseCloses, Wrapper!HangUp, Wrapper!BootAnswered
<1>3. ASSUME NEW x \in Calls, CallRuns(x) PROVE crashed'
    <2>1. CASE Wrapper!Method(x)
        BY <2>1 DEF Wrapper!Method, Wrapper!FutureCancelled, Wrapper!MethodReads,
                    Wrapper!FutureDisconnected, Wrapper!MethodReturns
    <2>2. CASE Wrapper!Transport(x)
        BY <2>2 DEF Wrapper!Transport, Wrapper!Deliver, Wrapper!AnswerArrives
    <2>3. CASE Wrapper!Adapter(x)
        BY <2>3 DEF Wrapper!Adapter, Wrapper!AdapterCalls, Wrapper!AdapterRefuses
    <2>. QED
        BY <1>3, <2>1, <2>2, <2>3 DEF CallRuns, Transport
<1>. QED
    BY <1>1, <1>2, <1>3 DEF SystemNext, Serving, Session, TakeUp, EndSession

\* A panic in a ServeConn is a step in which the process dies.
LEMMA PanicStep ==
    ASSUME [SystemNext]_systemVars, PanicKillsAll
    PROVE  PanicKillsAll'
<1>1. ASSUME Choice PROVE panicked' = panicked
    BY <1>1 DEF Choice, ServerAlone, WrapperAlone, Register, CallServe, Cancel,
        CallerClosesListener, DialConnects, Connect, NetworkDies, ServerNotices,
        PeerGoes, vars
<1>2. ASSUME Serving PROVE panicked' = panicked
    BY <1>2 DEF Serving, ServerAlone, Registrar, SetBootstrapAssign, ServeLoop,
        CheckBootstrap, AcceptConn, AcceptFails, Watcher, WatcherCloses
<1>3. ASSUME NEW c \in Conns, Session(c) PROVE PanicKillsAll'
    <2>1. CASE TakeUp(c)
        BY <2>1 DEF TakeUp, PanicKillsAll, Wrapper!ServerDies, Wrapper!Crash
    <2>2. CASE ~TakeUp(c)
        BY <1>3, <2>2, CrashLasts DEF Session, ServerAlone, Load, LoadBootstrap,
            ServeConnDone, EndSession, RpcConnShutdown, ServeConnCancelled,
            PanicKillsAll
    <2>. QED
        BY <2>1, <2>2
<1>4. ASSUME NEW c \in Conns, Link(c) PROVE panicked' = panicked
    BY <1>4 DEF Link, ClientNotices, Refused, WrapperAlone, vars
<1>. QED
    BY <1>1, <1>2, <1>3, <1>4, CrashLasts
       DEF SystemNext, CallRuns, Transport, WrapperAlone, PanicKillsAll, vars,
           systemVars

\* Every step of the system is a step of CapwrapServer or leaves it alone, so
\* what holds of a CapwrapServer holds here.
THEOREM SystemIsServer == SystemSpec => Spec
<1>1. SystemInit => Init /\ PanicKillsAll
    BY DEF SystemInit, Init, PanicKillsAll
<1>2. PanicKillsAll /\ [SystemNext]_systemVars => PanicKillsAll'
    BY PanicStep
<1>3. PanicKillsAll /\ [SystemNext]_systemVars => [Next]_vars
    BY ServerSide DEF PanicKillsAll, ServerStep, Next, Application, Registrar,
        ServeLoop, Watcher, ServeConn, RpcConn, Peers
<1>. QED
    BY <1>1, <1>2, <1>3, PTL DEF SystemSpec, Spec

-----------------------------------------------------------------------------
(* Calls run by a live service.                                              *)

\* What the typed clients' side keeps of its calls' whereabouts.
Sent ==
    /\ at \in [Calls -> {"client", "wire", "queue", "impl", "back", "gone"}]
    /\ owner \in [Calls -> Conns \cup {NoClient}]
    /\ \A x \in Calls : at[x] # "client" => owner[x] \in Conns

\* No step makes a call without its client, or forgets whose it is.
LEMMA SentKept ==
    ASSUME [SystemNext]_systemVars, Sent
    PROVE  Sent'
<1>. USE DEF Sent, WrapperAlone, ServerAlone, wrapperVars, systemVars,
        Wrapper!clientVars, Wrapper!callVars, Wrapper!serverVars
<1>1. ASSUME Choice PROVE Sent'
    <2>1. ASSUME NEW c \in Conns, NetworkDies(c) \/ ServerNotices(c)
          PROVE  Sent'
        BY <2>1 DEF NetworkDies, ServerNotices
    <2>2. ASSUME NEW c \in Conns, DialConnects(c) PROVE Sent'
        BY <2>2 DEF DialConnects, Wrapper!Dial
    <2>3. ASSUME NEW c \in Conns, Wrapper!CloseReleases(c) PROVE Sent'
        BY <2>3 DEF Wrapper!CloseReleases
    <2>4. ASSUME NEW c \in Conns, NEW x \in Calls, Wrapper!CallMethod(c, x)
          PROVE  Sent'
        BY <2>4 DEF Wrapper!CallMethod
    <2>5. ASSUME NEW x \in Calls, Wrapper!Lose(x) PROVE Sent'
        BY <2>5 DEF Wrapper!Lose
    <2>6. ASSUME NEW x \in Calls, Wrapper!Impl(x) PROVE Sent'
        BY <2>6 DEF Wrapper!Impl, Wrapper!ImplReturns, Wrapper!Reply,
                    Wrapper!ImplReturnsNil, Wrapper!Crash
    <2>. QED
        BY <1>1, <2>1, <2>2, <2>3, <2>4, <2>5, <2>6 DEF Choice
<1>2. ASSUME NEW c \in Conns, Session(c) PROVE Sent'
    BY <1>2 DEF Session, TakeUp, EndSession, Wrapper!ServerDies, Wrapper!Crash,
                Wrapper!TakenUp, Wrapper!SessionEnds
<1>3. ASSUME NEW c \in Conns, Link(c) PROVE Sent'
    BY <1>3 DEF Link, ClientNotices, Refused, Wrapper!LinkFails,
                Wrapper!CloseCloses, Wrapper!HangUp, Wrapper!BootAnswered
<1>4. ASSUME NEW x \in Calls, CallRuns(x) PROVE Sent'
    <2>1. CASE Wrapper!Method(x)
        BY <2>1 DEF Wrapper!Method, Wrapper!FutureCancelled, Wrapper!MethodReads,
                    Wrapper!FutureDisconnected, Wrapper!MethodReturns
    <2>2. CASE Wrapper!Transport(x)
        BY <2>2 DEF Wrapper!Transport, Wrapper!Deliver, Wrapper!AnswerArrives
    <2>3. CASE Wrapper!Adapter(x)
        BY <2>3 DEF Wrapper!Adapter, Wrapper!AdapterCalls,
                    Wrapper!AdapterRefuses, Wrapper!StubAnswer, Wrapper!Reply
    <2>. QED
        BY <1>4, <2>1, <2>2, <2>3 DEF CallRuns, Transport
<1>. QED
    BY <1>1, <1>2, <1>3, <1>4 DEF SystemNext, Serving

\* Sent and the server's invariants, in every state of the system.
THEOREM SystemInvariant == SystemSpec => [](IInv /\ Served /\ Sent)
<1>1. SystemInit => Served /\ Sent
    BY DEF SystemInit, Init, Served, Sent, Wrapper!Init
<1>2. IInv /\ Served /\ Sent /\ [SystemNext]_systemVars => Served' /\ Sent'
    BY ServerSide, ServedKept, SentKept DEF IInv, Served, vars, loopVars,
        capVars, connVars
<1>3. SystemSpec => []IInv
    BY SystemIsServer, InductiveInvariant, PTL
<1>. QED
    BY <1>1, <1>2, <1>3, PTL DEF SystemSpec

\* With any number of clients, calls and registrations, a call on a connection
\* that is served has a service that has not been shut down.
THEOREM CallsHaveLiveServices == SystemSpec => []RunByLiveService
<1>1. IInv /\ Served /\ Sent => RunByLiveService
    <2>. SUFFICES ASSUME IInv, Served, Sent, NEW x \in Calls,
                         at[x] \in {"queue", "impl"},
                         conn[owner[x]] = "serving"
                  PROVE  loaded[owner[x]] \in Caps \ down
        BY DEF RunByLiveService
    <2>1. owner[x] \in Conns
        BY DEF Sent
    <2>2. loaded[owner[x]] \in Caps
        BY <2>1 DEF Served, IInv, TypeOK
    <2>3. owner[x] \in Holders(loaded[owner[x]])
        BY <2>1 DEF Holders
    <2>. QED
        BY <2>2, <2>3 DEF IInv, ShutDownWhenUnheld
<1>. QED
    BY <1>1, SystemInvariant, PTL

-----------------------------------------------------------------------------
(* The typed clients' side is that of CapwrapCalls.                          *)

\* The states of ServeConn in which a connection is served, and after it was.
Up == {"serving"}
Over == {"down", "done"}

\* What the clients' side sees of a connection, by the state of ServeConn.
LEMMA SessionIs ==
    ASSUME NEW c \in Conns
    PROVE  /\ conn[c] \in Up => session[c] = "serving"
           /\ conn[c] \in Over => session[c] = "ended"
           /\ conn[c] \notin Up \cup Over => session[c] = "none"
           /\ session[c] = "none" => service[c] = NoCap
           /\ session[c] # "none" => service[c] = loaded[c]
BY DEF session, service, Up, Over

\* Between "none", "serving" and "ended" ServeConn's own states are not seen.
LEMMA UnseenStep ==
    ASSUME \A c \in Conns :
              /\ conn'[c] \in Up <=> conn[c] \in Up
              /\ conn'[c] \in Over <=> conn[c] \in Over
              /\ conn[c] \in Up \cup Over => loaded'[c] = loaded[c]
    PROVE  UNCHANGED <<session, service>>
<1>1. session' = session
    BY DEF session, Up, Over
<1>. QED
    BY <1>1, SessionIs DEF service

\* So the steps ServerAlone allows leave the clients' side as it is.
LEMMA UnseenServerStep ==
    ASSUME TypeOK,
           \/ \E s \in Caps : Register(s)
           \/ CallServe \/ Cancel \/ CallerClosesListener
           \/ SetBootstrapAssign \/ CheckBootstrap \/ AcceptFails \/ WatcherCloses
           \/ \E c \in Conns :
                 AcceptConn(c) \/ LoadBootstrap(c) \/ ServeConnDone(c)
    PROVE  UNCHANGED <<session, service>>
<1>. USE DEF TypeOK, capVars, loopVars, connVars, Up, Over
<1>1. CASE \/ \E s \in Caps : Register(s)
           \/ CallServe \/ Cancel \/ SetBootstrapAssign \/ CheckBootstrap
           \/ AcceptFails
    BY <1>1, UnseenStep DEF Register, CallServe, Cancel, SetBootstrapAssign,
        CheckBootstrap, AcceptFails
<1>2. CASE CallerClosesListener \/ WatcherCloses
    BY <1>2, UnseenStep DEF CallerClosesListener, WatcherCloses, WatchAndClose,
        CloseListener
<1>3. ASSUME NEW c \in Conns, AcceptConn(c)
      PROVE  UNCHANGED <<session, service>>
    BY <1>3, UnseenStep DEF AcceptConn
<1>4. ASSUME NEW c \in Conns, LoadBootstrap(c) \/ ServeConnDone(c)
      PROVE  UNCHANGED <<session, service>>
    BY <1>4, UnseenStep DEF LoadBootstrap, ServeConnDone
<1>. QED
    BY <1>1, <1>2, <1>3, <1>4

\* Every step of the system is a step of CapwrapCalls or leaves it alone.
LEMMA WrapperSide ==
    ASSUME IInv, [SystemNext]_systemVars
    PROVE  [Wrapper!Next]_(Wrapper!vars)
<1>. USE DEF WrapperAlone, Wrapper!Environment
<1>1. ASSUME UNCHANGED wrapperVars, UNCHANGED <<session, service>>
      PROVE  UNCHANGED Wrapper!vars
    BY <1>1 DEF wrapperVars, Wrapper!vars, Wrapper!clientVars,
        Wrapper!callVars, Wrapper!serverVars, Wrapper!hostVars
<1>2. ASSUME UNCHANGED vars PROVE UNCHANGED <<session, service>>
    BY <1>2, UnseenStep DEF vars, connVars
<1>3. ASSUME NEW c \in Conns, NetworkDies(c) \/ ServerNotices(c)
      PROVE  UNCHANGED Wrapper!vars
    <2>1. CASE NetworkDies(c)
        BY <1>1, <1>2, <2>1 DEF NetworkDies
    <2>2. CASE ServerNotices(c)
        <3>1. UNCHANGED <<conn, loaded>> /\ UNCHANGED wrapperVars
            BY <2>2 DEF ServerNotices, ServerAlone, PeerGoes
        <3>. QED
            BY <1>1, <3>1, UnseenStep
    <2>. QED
        BY <1>3, <2>1, <2>2
<1>4. ASSUME Choice PROVE Wrapper!Next \/ UNCHANGED Wrapper!vars
    BY <1>1, <1>3, <1>4, UnseenServerStep DEF IInv, Choice, ServerAlone,
        DialConnects, Wrapper!Next
<1>5. ASSUME Serving PROVE UNCHANGED Wrapper!vars
    BY <1>1, <1>5, UnseenServerStep DEF IInv, Serving, ServerAlone,
        Registrar, ServeLoop, Watcher
<1>6. ASSUME NEW c \in Conns, Session(c)
      PROVE  Wrapper!Next \/ UNCHANGED Wrapper!vars
    BY <1>1, <1>6, UnseenServerStep DEF IInv, Session, ServerAlone, Load,
        TakeUp, EndSession, Wrapper!Next
<1>7. ASSUME NEW c \in Conns, Link(c) PROVE Wrapper!Next
    BY <1>7 DEF Link, ClientNotices, Refused, Wrapper!Next
<1>8. ASSUME NEW x \in Calls, CallRuns(x) PROVE Wrapper!Next
    BY <1>8 DEF CallRuns, Transport, Wrapper!Next
<1>9. ASSUME UNCHANGED systemVars PROVE UNCHANGED Wrapper!vars
    BY <1>1, <1>2, <1>9 DEF systemVars
<1>. QED
    BY <1>4, <1>5, <1>6, <1>7, <1>8, <1>9 DEF SystemNext

\* So the composition refines CapwrapCalls.
THEOREM SystemIsWrapper == SystemSpec => ImplementsWrapper
<1>1. SystemInit => Wrapper!Init
    BY DEF SystemInit
<1>2. IInv /\ [SystemNext]_systemVars => [Wrapper!Next]_(Wrapper!vars)
    BY WrapperSide
<1>. QED
    BY <1>1, <1>2, SystemInvariant, PTL
       DEF SystemSpec, ImplementsWrapper, Wrapper!Spec

-----------------------------------------------------------------------------
(* So what is proved of CapwrapCalls holds in the system.                    *)

Typed == INSTANCE CapwrapCallsProofs WITH
    Clients <- Conns, Services <- Caps, NoService <- NoCap

\* The CapwrapCalls those proofs are about is the one Capwrap is made of.
LEMMA SameCalls ==
    /\ Wrapper!Init => Typed!Init
    /\ [Wrapper!Next]_(Wrapper!vars) => [Typed!Next]_(Typed!vars)
<1>1. Wrapper!Init => Typed!Init
    BY DEF Wrapper!Init, Typed!Init
<1>2. [Wrapper!Next]_(Wrapper!vars) => [Typed!Next]_(Typed!vars)
    BY Zenon DEF
        Wrapper!Next, Wrapper!Environment, Wrapper!vars, Wrapper!clientVars,
        Wrapper!callVars, Wrapper!serverVars, Wrapper!hostVars, Wrapper!Dial,
        Wrapper!BootAnswered, Wrapper!DialCtxEnds, Wrapper!CloseReleases,
        Wrapper!DropConn, Wrapper!CloseCloses, Wrapper!LinkFails, Wrapper!Usable,
        Wrapper!Resolve, Wrapper!CallMethod, Wrapper!CallCtxEnds,
        Wrapper!CtxRejects, Wrapper!FutureCancelled, Wrapper!FutureDisconnected,
        Wrapper!TakeAnswer, Wrapper!AnswerArrives, Wrapper!ReadResults,
        Wrapper!MethodReads, Wrapper!Release, Wrapper!MethodReturns,
        Wrapper!TakenUp, Wrapper!SessionEnds, Wrapper!HangUp, Wrapper!Deliver,
        Wrapper!Lose, Wrapper!Reply, Wrapper!Idle, Wrapper!AdapterCalls,
        Wrapper!StubAnswer, Wrapper!AdapterRefuses, Wrapper!ImplReturns,
        Wrapper!Crash, Wrapper!ImplReturnsNil, Wrapper!ServerDies, Wrapper!Method,
        Wrapper!Transport, Wrapper!Adapter, Wrapper!Impl,
        Typed!Next, Typed!Environment, Typed!vars, Typed!clientVars,
        Typed!callVars, Typed!serverVars, Typed!hostVars, Typed!Dial,
        Typed!BootAnswered, Typed!DialCtxEnds, Typed!CloseReleases,
        Typed!DropConn, Typed!CloseCloses, Typed!LinkFails, Typed!Usable,
        Typed!Resolve, Typed!CallMethod, Typed!CallCtxEnds, Typed!CtxRejects,
        Typed!FutureCancelled, Typed!FutureDisconnected, Typed!TakeAnswer,
        Typed!AnswerArrives, Typed!ReadResults, Typed!MethodReads, Typed!Release,
        Typed!MethodReturns, Typed!TakenUp, Typed!SessionEnds, Typed!HangUp,
        Typed!Deliver, Typed!Lose, Typed!Reply, Typed!Idle, Typed!AdapterCalls,
        Typed!StubAnswer, Typed!AdapterRefuses, Typed!ImplReturns, Typed!Crash,
        Typed!ImplReturnsNil, Typed!ServerDies, Typed!Method, Typed!Transport,
        Typed!Adapter, Typed!Impl
<1>. QED
    BY <1>1, <1>2

\* In the system every response is the one of its own call's single run, every
\* failure has a reason, and a method that has returned holds no message.
THEOREM SystemCalls ==
    SystemSpec => [](/\ Wrapper!CallsInv
                     /\ Wrapper!OwnResponse
                     /\ Typed!Explained
                     /\ Wrapper!ResultsReleased)
<1>1. Typed!CallsAssumption
    BY WrapperAssumption, ServerAssumption DEF Typed!CallsAssumption
<1>2. SystemSpec => Typed!Spec
    BY SystemIsWrapper, SameCalls, PTL
       DEF ImplementsWrapper, Wrapper!Spec, Typed!Spec
<1>3. Typed!Spec => [](/\ Typed!CallsInv
                       /\ Typed!OwnResponse
                       /\ Typed!Explained
                       /\ Typed!ResultsReleased)
    BY <1>1, Typed!CallsInvariant, Typed!ResponsesAreOwn,
       Typed!AllExplained, Typed!AllResultsReleased, PTL
       DEF Typed!CallsAssumption
<1>4. Typed!CallsInv => Wrapper!CallsInv
    BY DEF Typed!CallsInv, Typed!TypeOK, Typed!MessagesInOrder,
           Typed!ResultsInHand, Wrapper!CallsInv, Wrapper!TypeOK,
           Wrapper!MessagesInOrder, Wrapper!ResultsInHand
<1>5. /\ Typed!OwnResponse => Wrapper!OwnResponse
      /\ Typed!ResultsReleased => Wrapper!ResultsReleased
    BY DEF Typed!OwnResponse, Typed!ResultsReleased,
           Wrapper!OwnResponse, Wrapper!ResultsReleased
<1>. QED
    BY <1>2, <1>3, <1>4, <1>5, PTL

\* A panic kills the process, in every state.
LEMMA PanicsKill == SystemSpec => []PanicKillsAll
<1>1. SystemInit => PanicKillsAll
    BY DEF SystemInit, Init, PanicKillsAll
<1>2. PanicKillsAll /\ [SystemNext]_systemVars => PanicKillsAll'
    BY PanicStep
<1>. QED
    BY <1>1, <1>2, PTL DEF SystemSpec

\* A network that has died stays dead.
LEMMA CutLasts ==
    ASSUME [SystemNext]_systemVars
    PROVE  cut' = cut \/ \E c \in Conns : cut' = cut \cup {c}
<1>. USE DEF ServerAlone, WrapperAlone
<1>1. ASSUME Choice PROVE cut' = cut \/ \E c \in Conns : cut' = cut \cup {c}
    BY <1>1 DEF Choice, DialConnects, NetworkDies, ServerNotices
<1>2. ASSUME NEW c \in Conns, Session(c) \/ Link(c) PROVE cut' = cut
    BY <1>2 DEF Session, TakeUp, EndSession, Link, ClientNotices, Refused
<1>3. ASSUME NEW x \in Calls, CallRuns(x) PROVE cut' = cut
    BY <1>3 DEF CallRuns, Transport
<1>. QED
    BY <1>1, <1>2, <1>3 DEF SystemNext, Serving, systemVars

\* The variables of both sides keep their types, and a panic is a death.
THEOREM SystemTypeCorrect == SystemSpec => []SystemTypeOK
<1>1. SystemInit => cut \subseteq Conns
    BY DEF SystemInit
<1>2. cut \subseteq Conns /\ [SystemNext]_systemVars => (cut \subseteq Conns)'
    BY CutLasts
<1>3. IInv /\ Wrapper!CallsInv /\ PanicKillsAll /\ cut \subseteq Conns
      => SystemTypeOK
    BY DEF IInv, Wrapper!CallsInv, PanicKillsAll, SystemTypeOK
<1>. QED
    BY <1>1, <1>2, <1>3, PanicsKill, SystemInvariant, SystemCalls, PTL
       DEF SystemSpec

-----------------------------------------------------------------------------
(* Why a client loses its connection.                                        *)

\* What is lost, or dead, has a reason; and the server misses only peers that
\* closed their end or were cut off.
Lost ==
    /\ \A c \in Conns : peer[c] = "gone" => c \in cut \/ client[c] = "closed"
    /\ crashed => DeathExplained
    /\ LossExplained

\* A client that was closed stays so, and an answer does not change.
LEMMA WrapperReasonsLast ==
    ASSUME Wrapper!CallsInv, [Wrapper!Next]_(Wrapper!vars)
    PROVE  /\ \A c \in Conns : client[c] = "closed" => client'[c] = "closed"
           /\ \A x \in Calls : sent[x] = "nil" => sent'[x] = "nil"
<1>. USE DEF Wrapper!clientVars, Wrapper!callVars, Wrapper!serverVars,
        Wrapper!CallsInv, Wrapper!TypeOK
<1>1. ASSUME NEW c \in Conns,
             \/ Wrapper!Dial(c) \/ Wrapper!CloseReleases(c) \/ Wrapper!CloseCloses(c)
      PROVE  /\ \A k \in Conns : client[k] = "closed" => client'[k] = "closed"
             /\ sent' = sent
    BY <1>1 DEF Wrapper!Dial, Wrapper!CloseReleases, Wrapper!CloseCloses
<1>2. ASSUME NEW c \in Conns,
             \/ Wrapper!DialCtxEnds(c) \/ Wrapper!LinkFails(c)
             \/ Wrapper!SessionEnds(c) \/ Wrapper!BootAnswered(c)
             \/ Wrapper!TakenUp(c) \/ Wrapper!HangUp(c)
      PROVE  UNCHANGED <<client, sent>>
    BY <1>2 DEF Wrapper!DialCtxEnds, Wrapper!LinkFails, Wrapper!SessionEnds,
        Wrapper!BootAnswered, Wrapper!TakenUp, Wrapper!HangUp
<1>3. ASSUME NEW c \in Conns, NEW x \in Calls, Wrapper!CallMethod(c, x)
      PROVE  UNCHANGED <<client, sent>>
    BY <1>3 DEF Wrapper!CallMethod
<1>4. ASSUME NEW x \in Calls,
             \/ Wrapper!CallCtxEnds(x) \/ Wrapper!Lose(x) \/ Wrapper!Method(x)
             \/ Wrapper!Transport(x)
      PROVE  UNCHANGED <<client, sent>>
    BY <1>4 DEF Wrapper!CallCtxEnds, Wrapper!Lose, Wrapper!Method,
        Wrapper!FutureCancelled, Wrapper!FutureDisconnected, Wrapper!MethodReads,
        Wrapper!MethodReturns, Wrapper!Transport, Wrapper!Deliver,
        Wrapper!AnswerArrives
<1>5. ASSUME NEW x \in Calls,
             \/ Wrapper!AdapterCalls(x) \/ Wrapper!AdapterRefuses(x)
             \/ Wrapper!ImplReturns(x) \/ Wrapper!ImplReturnsNil(x)
      PROVE  /\ client' = client
             /\ \A y \in Calls : sent[y] = "nil" => sent'[y] = "nil"
    <2>1. sent[x] = "none"
        BY <1>5 DEF Wrapper!AdapterCalls, Wrapper!AdapterRefuses,
            Wrapper!ImplReturns, Wrapper!ImplReturnsNil, Wrapper!MessagesInOrder
    <2>2. client' = client
        BY <1>5 DEF Wrapper!AdapterCalls, Wrapper!AdapterRefuses,
            Wrapper!ImplReturns, Wrapper!ImplReturnsNil
    <2>3. \A y \in Calls : y # x => sent'[y] = sent[y]
        BY <1>5 DEF Wrapper!AdapterCalls, Wrapper!AdapterRefuses,
            Wrapper!StubAnswer, Wrapper!ImplReturns, Wrapper!ImplReturnsNil,
            Wrapper!Reply
    <2>. QED
        BY <2>1, <2>2, <2>3
<1>6. CASE Wrapper!ServerDies
    BY <1>6 DEF Wrapper!ServerDies
<1>7. CASE UNCHANGED Wrapper!vars
    BY <1>7 DEF Wrapper!vars
<1>. QED
    BY <1>1, <1>2, <1>3, <1>4, <1>5, <1>6, <1>7
       DEF Wrapper!Next, Wrapper!Environment, Wrapper!Adapter, Wrapper!Impl

\* What explains a loss, or a death, stays so.
LEMMA ReasonsStay ==
    ASSUME IInv, Served, PanicKillsAll, Wrapper!CallsInv, [SystemNext]_systemVars
    PROVE  /\ DeathExplained => DeathExplained'
           /\ \A c \in Conns :
                 /\ client[c] = "closed" => client'[c] = "closed"
                 /\ c \in cut => c \in cut'
                 /\ ctxDone => ctxDone'
                 /\ conn[c] = "refused" => conn'[c] = "refused"
<1>1. DeathExplained => DeathExplained'
    <2>1. CASE panicked /\ RegisterWhileServing /\ \E k \in Conns : Undercut(k)
        <3>1. UNCHANGED vars
            BY <2>1, ServerSide DEF PanicKillsAll
        <3>. QED
            BY <2>1, <3>1 DEF DeathExplained, Undercut, vars, capVars, connVars
    <2>2. CASE \E y \in Calls : sent[y] = "nil"
        BY <2>2, WrapperSide, WrapperReasonsLast DEF DeathExplained
    <2>. QED
        BY <2>1, <2>2 DEF DeathExplained
<1>2. \A c \in Conns : client[c] = "closed" => client'[c] = "closed"
    BY WrapperSide, WrapperReasonsLast
<1>3. \A c \in Conns : c \in cut => c \in cut'
    BY CutLasts
<1>4. ASSUME NEW c \in Conns
      PROVE  /\ ctxDone => ctxDone'
             /\ conn[c] = "refused" => conn'[c] = "refused"
    BY ServerSide, ReasonsLast DEF IInv, vars, connVars, loopVars
<1>. QED
    BY <1>1, <1>2, <1>3, <1>4

\* The steps that change an end of a connection, or kill the process.
LEMMA EndSteps ==
    ASSUME TypeOK, [SystemNext]_systemVars
    PROVE  \/ \E c \in Conns : TakeUp(c) /\ panicked'
           \/ \E x \in Calls : WrapperAlone(Wrapper!ImplReturnsNil(x))
           \/ \E c \in Conns : DialConnects(c) \/ ServerNotices(c) \/ Link(c)
           \/ UNCHANGED <<link, crashed, peer>>
<1>. USE DEF WrapperAlone, ServerAlone, wrapperVars, Wrapper!clientVars,
        Wrapper!hostVars, vars, capVars, loopVars, connVars
<1>1. ASSUME Choice
      PROVE  \/ \E x \in Calls : WrapperAlone(Wrapper!ImplReturnsNil(x))
             \/ \E c \in Conns : DialConnects(c) \/ ServerNotices(c)
             \/ UNCHANGED <<link, crashed, peer>>
    <2>1. ASSUME \/ \E t \in Caps : Register(t)
                 \/ CallServe \/ Cancel \/ CallerClosesListener
          PROVE  peer' = peer
        BY <2>1 DEF Register, CallServe, Cancel, CallerClosesListener
    <2>2. ASSUME NEW c \in Conns,
                 NetworkDies(c) \/ WrapperAlone(Wrapper!CloseReleases(c))
          PROVE  UNCHANGED <<link, crashed, peer>>
        BY <2>2 DEF NetworkDies, Wrapper!CloseReleases
    <2>3. ASSUME NEW c \in Conns, NEW x \in Calls,
                 WrapperAlone(Wrapper!CallMethod(c, x))
          PROVE  UNCHANGED <<link, crashed, peer>>
        BY <2>3 DEF Wrapper!CallMethod
    <2>4. ASSUME NEW x \in Calls,
                 WrapperAlone(Wrapper!Lose(x)) \/ WrapperAlone(Wrapper!ImplReturns(x))
          PROVE  UNCHANGED <<link, crashed, peer>>
        BY <2>4 DEF Wrapper!Lose, Wrapper!ImplReturns
    <2>. QED
        BY <1>1, <2>1, <2>2, <2>3, <2>4 DEF Choice, Wrapper!Impl
<1>2. ASSUME Serving PROVE UNCHANGED <<link, crashed, peer>>
    BY <1>2 DEF Serving, Registrar, SetBootstrapAssign, ServeLoop, CheckBootstrap,
        AcceptConn, AcceptFails, Watcher, WatcherCloses
<1>3. ASSUME NEW c \in Conns, Session(c)
      PROVE  (TakeUp(c) /\ panicked') \/ UNCHANGED <<link, crashed, peer>>
    <2>1. CASE TakeUp(c)
        BY <2>1 DEF TakeUp, AddRefAndServe, Wrapper!TakenUp
    <2>2. CASE EndSession(c)
        BY <2>2 DEF EndSession, RpcConnShutdown, ServeConnCancelled,
            Wrapper!SessionEnds
    <2>3. CASE ServerAlone(Load(c) \/ ServeConnDone(c))
        BY <2>3 DEF Load, LoadBootstrap, ServeConnDone
    <2>. QED
        BY <1>3, <2>1, <2>2, <2>3 DEF Session
<1>4. ASSUME NEW x \in Calls, CallRuns(x) PROVE UNCHANGED <<link, crashed, peer>>
    <2>1. CASE Wrapper!Method(x)
        BY <1>4, <2>1 DEF CallRuns, Transport, Wrapper!Method,
            Wrapper!FutureCancelled, Wrapper!FutureDisconnected,
            Wrapper!MethodReads, Wrapper!MethodReturns
    <2>2. CASE Wrapper!Transport(x)
        BY <1>4, <2>2 DEF CallRuns, Transport, Wrapper!Transport,
            Wrapper!Deliver, Wrapper!AnswerArrives
    <2>3. CASE Wrapper!Adapter(x)
        BY <1>4, <2>3 DEF CallRuns, Transport, Wrapper!Adapter,
            Wrapper!AdapterCalls, Wrapper!AdapterRefuses
    <2>. QED
        BY <1>4, <2>1, <2>2, <2>3 DEF CallRuns, Transport
<1>5. CASE UNCHANGED systemVars
    BY <1>5 DEF systemVars
<1>. QED
    BY <1>1, <1>2, <1>3, <1>4, <1>5 DEF SystemNext

\* No step loses a connection, or kills the process, without one of the reasons.
LEMMA LostKept ==
    ASSUME IInv, IInv', Served, PanicKillsAll, Wrapper!CallsInv, Lost,
           [SystemNext]_systemVars
    PROVE  Lost'
<1>. USE DEF Wrapper!CallsInv, Wrapper!TypeOK
<1>0. TypeOK
    BY DEF IInv
<1>1. ASSUME \/ DeathExplained'
             \/ /\ crashed' = crashed
                /\ \A c \in Conns :
                      link'[c] = "down" /\ link[c] # "down" =>
                          \/ client'[c] = "closed"
                          \/ c \in cut'
                          \/ ctxDone'
                          \/ conn'[c] = "refused",
             \A c \in Conns :
                peer'[c] = "gone" /\ peer[c] # "gone" =>
                    c \in cut' \/ client'[c] = "closed"
      PROVE  Lost'
    <2>1. DeathExplained \/ ~crashed
        BY DEF Lost
    <2>. QED
        BY <2>1, <1>1, ReasonsStay DEF Lost, LossExplained
<1>. USE DEF WrapperAlone, ServerAlone, Wrapper!clientVars, Wrapper!callVars,
        Wrapper!hostVars, vars, connVars, loopVars
<1>2. ASSUME NEW c \in Conns, TakeUp(c), panicked' PROVE Lost'
    <2>1. /\ conn[c] = "loaded" /\ loaded[c] # NoCap /\ handle[loaded[c]] # "live"
          /\ UNCHANGED <<conn, loaded, handle, peer>>
        BY <1>2 DEF TakeUp, AddRefAndServe, PanicKillsAll
    <2>2. handle[loaded[c]] = "released"
        BY <1>0, <2>1 DEF IInv, TypeOK, HandlesBorn
    <2>3. RegisterWhileServing
        BY <1>2 DEF IInv, RegisteredFirst
    <2>4. DeathExplained'
        BY <1>2, <2>1, <2>2, <2>3 DEF DeathExplained, Undercut
    <2>. QED
        BY <1>1, <2>1, <2>4
<1>3. ASSUME NEW x \in Calls, WrapperAlone(Wrapper!ImplReturnsNil(x)) PROVE Lost'
    <2>1. sent'[x] = "nil" /\ peer' = peer
        BY <1>3 DEF Wrapper!ImplReturnsNil
    <2>. QED
        BY <1>1, <2>1 DEF DeathExplained
<1>4. ASSUME NEW c \in Conns, DialConnects(c) PROVE Lost'
    <2>1. /\ link' = [link EXCEPT ![c] = "up"]
          /\ peer' = [peer EXCEPT ![c] = "open"]
          /\ crashed' = crashed
        BY <1>4 DEF DialConnects, Connect, Wrapper!Dial
    <2>2. /\ \A k \in Conns : link'[k] = "down" => link[k] = "down"
          /\ \A k \in Conns : peer'[k] = "gone" => peer[k] = "gone"
        BY <1>0, <2>1 DEF TypeOK
    <2>. QED
        BY <1>1, <2>1, <2>2
<1>5. ASSUME NEW c \in Conns, ServerNotices(c) PROVE Lost'
    <2>1. /\ UNCHANGED <<link, crashed, client, cut>>
          /\ c \in cut \/ client[c] = "closed"
          /\ peer' = [peer EXCEPT ![c] = "gone"]
        BY <1>5 DEF ServerNotices, PeerGoes, wrapperVars
    <2>2. \A k \in Conns : peer'[k] = "gone" => k = c \/ peer[k] = "gone"
        BY <1>0, <2>1 DEF TypeOK
    <2>. QED
        BY <1>1, <2>1, <2>2
<1>6. ASSUME NEW c \in Conns, Link(c) PROVE Lost'
    <2>1. UNCHANGED vars /\ crashed' = crashed
        BY <1>6 DEF Link, ClientNotices, Refused, Wrapper!LinkFails,
            Wrapper!CloseCloses, Wrapper!HangUp, Wrapper!BootAnswered
    <2>2. \A k \in Conns : link'[k] = "down" => k = c \/ link[k] = "down"
        BY <1>6 DEF Link, ClientNotices, Refused, Wrapper!LinkFails,
            Wrapper!CloseCloses, Wrapper!DropConn, Wrapper!HangUp,
            Wrapper!BootAnswered
    <2>3. link'[c] = "down" /\ link[c] # "down" =>
              \/ client'[c] = "closed"
              \/ c \in cut'
              \/ ctxDone'
              \/ conn'[c] = "refused"
        <3>1. CASE ClientNotices(c) \/ Refused(c)
            BY <3>1, ReasonsStay DEF ClientNotices, Refused
        <3>2. CASE Wrapper!CloseCloses(c)
            BY <3>2 DEF Wrapper!CloseCloses
        <3>3. CASE WrapperAlone(Wrapper!HangUp(c))
            <4>1. conn[c] \in {"down", "done"}
                BY <3>3 DEF Wrapper!HangUp, session
            <4>2. ctxDone \/ c \in cut \/ client[c] = "closed"
                BY <4>1 DEF Served, Lost
            <4>. QED
                BY <4>2, ReasonsStay
        <3>4. CASE Wrapper!BootAnswered(c)
            BY <3>4 DEF Wrapper!BootAnswered
        <3>. QED
            BY <1>6, <3>1, <3>2, <3>3, <3>4 DEF Link
    <2>. QED
        BY <1>1, <2>1, <2>2, <2>3
<1>7. CASE UNCHANGED <<link, crashed, peer>>
    BY <1>1, <1>7
<1>. QED
    BY <1>0, <1>2, <1>3, <1>4, <1>5, <1>6, <1>7, EndSteps

\* With any number of clients, none loses its connection without a reason. Another
\* client is one only by its nil response, a registration only by the ServeConn
\* it hits, which an application that registers first excludes.
THEOREM LossesHaveReasons == SystemSpec => []LossExplained
<1>1. SystemInit => Lost
    BY DEF SystemInit, Init, Wrapper!Init, Lost, LossExplained
<1>2. /\ IInv /\ IInv' /\ Served /\ PanicKillsAll /\ Wrapper!CallsInv /\ Lost
      /\ [SystemNext]_systemVars
      => Lost'
    BY LostKept
<1>3. Lost => LossExplained
    BY DEF Lost
<1>. QED
    BY <1>1, <1>2, <1>3, SystemInvariant, SystemCalls, PanicsKill, PTL
       DEF SystemSpec

-----------------------------------------------------------------------------
(* Why a call fails.                                                         *)

\* Clients dial and call with context.Background(), which does not end.
Unbounded ==
    /\ \A x \in Calls : ~ctxEnded[x]
    /\ \A c \in Conns : boot[c] \in {"none", "asked", "ready"}

\* No step of the system ends a context.
LEMMA UnboundedKept ==
    ASSUME [SystemNext]_systemVars, Wrapper!TypeOK, Unbounded
    PROVE  Unbounded'
<1>. USE DEF Unbounded, Wrapper!TypeOK, WrapperAlone, ServerAlone, wrapperVars, systemVars,
        Wrapper!callVars, Wrapper!serverVars
<1>1. ASSUME Choice PROVE Unbounded'
    <2>1. ASSUME NEW c \in Conns, NetworkDies(c) \/ ServerNotices(c)
          PROVE  Unbounded'
        BY <2>1 DEF NetworkDies, ServerNotices, Wrapper!clientVars
    <2>2. ASSUME NEW c \in Conns, DialConnects(c) PROVE Unbounded'
        BY <2>2 DEF DialConnects, Wrapper!Dial
    <2>3. ASSUME NEW c \in Conns, Wrapper!CloseReleases(c) PROVE Unbounded'
        BY <2>3 DEF Wrapper!CloseReleases
    <2>4. ASSUME NEW c \in Conns, NEW x \in Calls, Wrapper!CallMethod(c, x)
          PROVE  Unbounded'
        BY <2>4 DEF Wrapper!CallMethod, Wrapper!clientVars
    <2>5. ASSUME NEW x \in Calls, Wrapper!Lose(x) \/ Wrapper!Impl(x)
          PROVE  Unbounded'
        BY <2>5 DEF Wrapper!Lose, Wrapper!Impl, Wrapper!ImplReturns,
                    Wrapper!ImplReturnsNil, Wrapper!clientVars
    <2>. QED
        BY <1>1, <2>1, <2>2, <2>3, <2>4, <2>5 DEF Choice
<1>2. ASSUME NEW c \in Conns, Session(c) PROVE Unbounded'
    <2>1. CASE TakeUp(c)
        BY <2>1 DEF TakeUp, Wrapper!ServerDies, Wrapper!TakenUp,
                    Wrapper!clientVars
    <2>2. CASE EndSession(c)
        BY <2>2 DEF EndSession, Wrapper!SessionEnds, Wrapper!clientVars
    <2>. QED
        BY <1>2, <2>1, <2>2 DEF Session
<1>3. ASSUME NEW c \in Conns, Link(c) PROVE Unbounded'
    <2>1. CASE ClientNotices(c) \/ Refused(c) \/ Wrapper!CloseCloses(c)
        BY <2>1 DEF ClientNotices, Refused, Wrapper!LinkFails, Wrapper!CloseCloses
    <2>2. CASE Wrapper!HangUp(c) \/ Wrapper!BootAnswered(c)
        BY <2>2 DEF Wrapper!HangUp, Wrapper!BootAnswered
    <2>. QED
        BY <1>3, <2>1, <2>2 DEF Link
<1>4. ASSUME NEW x \in Calls, CallRuns(x) PROVE Unbounded'
    <2>1. CASE Wrapper!Method(x)
        BY <2>1 DEF Wrapper!Method, Wrapper!FutureCancelled, Wrapper!MethodReads,
                    Wrapper!FutureDisconnected, Wrapper!MethodReturns,
                    Wrapper!clientVars
    <2>2. CASE Wrapper!Transport(x)
        BY <2>2 DEF Wrapper!Transport, Wrapper!Deliver, Wrapper!AnswerArrives,
                    Wrapper!clientVars
    <2>3. CASE Wrapper!Adapter(x)
        BY <2>3 DEF Wrapper!Adapter, Wrapper!AdapterCalls,
                    Wrapper!AdapterRefuses, Wrapper!clientVars
    <2>. QED
        BY <1>4, <2>1, <2>2, <2>3 DEF CallRuns, Transport
<1>. QED
    BY <1>1, <1>2, <1>3, <1>4 DEF SystemNext, Serving

\* With any number of clients, calls and registrations, a call fails for a reason
\* of its own or its client's, or because the server's context is done or its
\* process dies: the composition of FailuresHaveReasons, at the clients, with
\* LossesHaveReasons, at the server.
THEOREM FailuresAreTraced == SystemSpec => []FailuresTraced
<1>1. SystemInit => Unbounded
    BY DEF SystemInit, Wrapper!Init, Unbounded
<1>2. Wrapper!CallsInv /\ Unbounded /\ [SystemNext]_systemVars => Unbounded'
    BY UnboundedKept DEF Wrapper!CallsInv
<1>3. /\ Unbounded /\ LossExplained
      /\ Wrapper!CallsInv /\ Typed!Explained
      => FailuresTraced
    <2>. SUFFICES ASSUME Unbounded, LossExplained,
                         Wrapper!CallsInv, Typed!Explained,
                         NEW x \in Calls, outcome[x] = "error",
                         client[owner[x]] = "open", x \notin Misfits,
                         sent[x] # "error"
                  PROVE  \/ owner[x] \in cut
                         \/ ctxDone
                         \/ conn[owner[x]] = "refused"
                         \/ DeathExplained
        BY DEF FailuresTraced
    <2>1. call[x] # "new" /\ Typed!Reason(x)
        BY DEF Typed!Explained, Wrapper!CallsInv, Wrapper!ResultsInHand
    <2>2. owner[x] \in Conns
        BY <2>1 DEF Typed!Explained
    <2>. QED
        BY <2>1, <2>2 DEF Unbounded, LossExplained, Typed!Reason
<1>. QED
    BY <1>1, <1>2, <1>3, SystemInvariant, SystemCalls, LossesHaveReasons, PTL
       DEF SystemSpec

=============================================================================
