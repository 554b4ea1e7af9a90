----------------------------- MODULE CapwrapServer -----------------------------
(***************************************************************************)
(* The server half of package capwrap (runtime/server.go): a Server hosts  *)
(* one bootstrap capability and serves it to every connection.             *)
(*                                                                         *)
(* The goroutines are: the application's, which registers services and     *)
(* starts Serve; the accept loop of Serve; the watcher Serve starts, which *)
(* closes the listener when ctx is done; and one ServeConn per connection. *)
(* They share s.bootstrap without a lock, so reading the field and taking  *)
(* a reference to what was read are two steps here.                        *)
(*                                                                         *)
(* External parts, modelled from how server.go uses them: the reference    *)
(* count of a capnp.Client, rpc.Conn (it owns the reference it is given    *)
(* and releases it when it shuts down), net.Listener and the peers.        *)
(***************************************************************************)
EXTENDS Naturals, FiniteSets

CONSTANTS
    Conns,                \* connections, each opened at most once
    Caps,                 \* capabilities, one per call of a RegisterXxxServer
    NoCap,                \* the zero capnp.Client
    RegisterWhileServing, \* may the application register once it serves?
    AcceptErrors          \* may Accept fail on an open listener (EMFILE, ...)?

ASSUME ServerAssumption ==
    /\ NoCap \notin Caps
    /\ IsFiniteSet(Conns)
    /\ RegisterWhileServing \in BOOLEAN
    /\ AcceptErrors \in BOOLEAN

VARIABLES
    bootstrap,  \* s.bootstrap
    installing, \* the argument of the SetBootstrap call in progress, or NoCap
    handle,     \* of each capability, the handle its registration created
    refs,       \* of each capability, its reference count
    down,       \* the capabilities whose server has been shut down
    entry,      \* the exported function the application called to serve
    serve,      \* control state of Serve
    ret,        \* what Serve returned
    ln,         \* the listener
    watcher,    \* the goroutine of Serve that waits for ctx
    ctxDone,    \* is ctx cancelled?
    peer,       \* the client end of each connection
    conn,       \* control state of each connection's ServeConn
    loaded,     \* the capability each ServeConn read from s.bootstrap
    panicked    \* has a goroutine panicked and taken the process down?

capVars  == <<bootstrap, installing, handle, refs, down>>
loopVars == <<entry, serve, ret, ln, watcher, ctxDone>>
connVars == <<peer, conn, loaded>>
vars == <<capVars, loopVars, connVars, panicked>>

TypeOK ==
    /\ bootstrap \in Caps \cup {NoCap}
    /\ installing \in Caps \cup {NoCap}
    /\ handle \in [Caps -> {"unborn", "live", "released"}]
    /\ refs \in [Caps -> Nat]
    /\ down \in SUBSET Caps
    /\ entry \in {"none", "Serve", "ListenAndServe"}
    /\ serve \in {"idle", "check", "accept", "returned"}
    /\ ret \in {"none", "nil", "error"}
    /\ ln \in {"none", "open", "closed"}
    /\ watcher \in {"none", "waiting", "done"}
    /\ ctxDone \in BOOLEAN
    /\ peer \in [Conns -> {"out", "open", "gone"}]
    /\ conn \in [Conns -> {"none", "backlog", "refused", "accepted", "loaded",
                           "serving", "down", "done"}]
    /\ loaded \in [Conns -> Caps \cup {NoCap}]
    /\ panicked \in BOOLEAN

Init ==
    /\ bootstrap = NoCap
    /\ installing = NoCap
    /\ handle = [c \in Caps |-> "unborn"]
    /\ refs = [c \in Caps |-> 0]
    /\ down = {}
    /\ entry = "none"
    /\ serve = "idle"
    /\ ret = "none"
    /\ ln = "none"
    /\ watcher = "none"
    /\ ctxDone = FALSE
    /\ peer = [k \in Conns |-> "out"]
    /\ conn = [k \in Conns |-> "none"]
    /\ loaded = [k \in Conns |-> NoCap]
    /\ panicked = FALSE

-----------------------------------------------------------------------------
(* Capabilities: the reference count behind capnp.Client handles.          *)

\* IsValid is false of the zero client and of a released handle.
BootstrapIsValid == bootstrap # NoCap /\ handle[bootstrap] = "live"

\* Fault: the rpc.Conn is handed s.bootstrap itself instead of a new reference.
TakeNoRef(c) == UNCHANGED refs

\* AddRef on the handle of c; the zero client has nothing to count.
TakeRef(c) ==
    refs' = IF c = NoCap THEN refs ELSE [refs EXCEPT ![c] = @ + 1]

\* One reference to c is given up, the last of them shuts its server down.
CountDown(c) ==
    /\ refs' = [refs EXCEPT ![c] = @ - 1]
    /\ down' = IF refs[c] = 1 THEN down \cup {c} ELSE down

\* As a fault below uses it: the handle the Server still keeps is released.
ReleaseSharedHandle(c) ==
    IF c = NoCap
    THEN UNCHANGED <<handle, refs, down>>
    ELSE CountDown(c) /\ handle' = [handle EXCEPT ![c] = "released"]

\* A shut down rpc.Conn releases its own reference to c, if c is not null.
ReleaseConnRef(c) ==
    IF c = NoCap
    THEN UNCHANGED <<handle, refs, down>>
    ELSE CountDown(c) /\ UNCHANGED handle

-----------------------------------------------------------------------------
(* Registration: RegisterXxxServer makes a capability c and hands it to      *)
(* SetBootstrap, which releases the old bootstrap and then stores the new.   *)

Started == serve # "idle" \/ \E k \in Conns : conn[k] # "none"

\* Fault: SetBootstrap overwrites the old bootstrap without releasing it.
ForgetOldBootstrap(c) ==
    /\ handle' = [handle EXCEPT ![c] = "live", ![bootstrap] = "released"]
    /\ refs' = [refs EXCEPT ![c] = 1]
    /\ UNCHANGED down

\* The handle of c comes into being with one reference, the one of a valid old
\* bootstrap is released.
ReplaceBootstrap(c) ==
    /\ handle' = [handle EXCEPT ![c] = "live", ![bootstrap] = "released"]
    /\ refs' = [refs EXCEPT ![c] = 1, ![bootstrap] = @ - 1]
    /\ down' = IF refs[bootstrap] = 1 THEN down \cup {bootstrap} ELSE down

Register(c) ==
    /\ handle[c] = "unborn"
    /\ installing = NoCap
    /\ Started => RegisterWhileServing
    /\ installing' = c
    /\ \/ BootstrapIsValid /\ ReplaceBootstrap(c)
       \/ /\ ~BootstrapIsValid
          /\ handle' = [handle EXCEPT ![c] = "live"]
          /\ refs' = [refs EXCEPT ![c] = 1]
          /\ UNCHANGED down
    /\ UNCHANGED <<bootstrap, loopVars, connVars, panicked>>

SetBootstrapAssign ==
    /\ installing # NoCap
    /\ bootstrap' = installing
    /\ installing' = NoCap
    /\ UNCHANGED <<handle, refs, down, loopVars, connVars, panicked>>

-----------------------------------------------------------------------------
(* Serve and ListenAndServe.                                                 *)

\* The application's goroutine is not inside SetBootstrap.
AppFree == installing # NoCap => RegisterWhileServing

CallListenAndServe ==
    /\ serve = "idle"
    /\ AppFree
    /\ entry' = "ListenAndServe"
    /\ \/ /\ serve' = "check"
          /\ ln' = "open"
          /\ UNCHANGED ret
       \/ /\ serve' = "returned"      \* net.Listen failed
          /\ ret' = "error"
          /\ UNCHANGED ln
    /\ UNCHANGED <<capVars, watcher, ctxDone, connVars, panicked>>

\* The application brings its own listener.
CallServe ==
    /\ serve = "idle"
    /\ AppFree
    /\ entry' = "Serve"
    /\ serve' = "check"
    /\ ln' = "open"
    /\ UNCHANGED <<capVars, ret, watcher, ctxDone, connVars, panicked>>

\* Without a registered service Serve fails; otherwise it starts the watcher
\* and enters the accept loop.
CheckBootstrap ==
    /\ serve = "check"
    /\ \/ /\ BootstrapIsValid
          /\ serve' = "accept"
          /\ watcher' = "waiting"
          /\ UNCHANGED ret
       \/ /\ ~BootstrapIsValid
          /\ serve' = "returned"
          /\ ret' = "error"
          /\ UNCHANGED watcher
    /\ UNCHANGED <<capVars, entry, ln, ctxDone, connVars, panicked>>

\* Fault: Serve hands one connection to ServeConn and returns.
AcceptOnce(k) ==
    /\ serve = "accept"
    /\ ln = "open"
    /\ conn[k] = "backlog"
    /\ conn' = [conn EXCEPT ![k] = "accepted"]
    /\ serve' = "returned"
    /\ ret' = "nil"
    /\ UNCHANGED <<capVars, entry, ln, watcher, ctxDone, peer, loaded, panicked>>

\* Accept yields a connection, for which a ServeConn goroutine is started.
AcceptConn(k) ==
    /\ serve = "accept"
    /\ ln = "open"
    /\ conn[k] = "backlog"
    /\ conn' = [conn EXCEPT ![k] = "accepted"]
    /\ UNCHANGED <<capVars, loopVars, peer, loaded, panicked>>

\* Accept fails: because the listener was closed, or for another reason.
AcceptFails ==
    /\ serve = "accept"
    /\ ln = "open" => AcceptErrors
    /\ serve' = "returned"
    /\ ret' = IF ctxDone \/ ln = "closed" THEN "nil" ELSE "error"
    /\ UNCHANGED <<capVars, entry, ln, watcher, ctxDone, connVars, panicked>>

Cancel ==
    /\ ~ctxDone
    /\ ctxDone' = TRUE
    /\ UNCHANGED <<capVars, entry, serve, ret, ln, watcher, connVars, panicked>>

\* Connections nobody accepted are reset when their listener is closed.
CloseListener ==
    /\ ln' = "closed"
    /\ conn' = [k \in Conns |-> IF conn[k] = "backlog" THEN "refused" ELSE conn[k]]

\* Fault: the watcher ends without closing the listener.
WatchOnly == watcher' = "done" /\ UNCHANGED <<ln, conn>>

WatchAndClose == watcher' = "done" /\ CloseListener

WatcherCloses ==
    /\ watcher = "waiting"
    /\ ctxDone
    /\ WatchAndClose
    /\ UNCHANGED <<capVars, entry, serve, ret, ctxDone, peer, loaded, panicked>>

\* Only the owner of the listener can close it behind Serve's back.
CallerClosesListener ==
    /\ entry = "Serve"
    /\ ln = "open"
    /\ CloseListener
    /\ UNCHANGED <<capVars, entry, serve, ret, watcher, ctxDone, peer, loaded,
                   panicked>>

-----------------------------------------------------------------------------
(* ServeConn and the peers.                                                  *)

Connect(k) ==
    /\ conn[k] = "none"
    /\ ln = "open"
    /\ conn' = [conn EXCEPT ![k] = "backlog"]
    /\ peer' = [peer EXCEPT ![k] = "open"]
    /\ UNCHANGED <<capVars, loopVars, loaded, panicked>>

\* The peer closes, or its network breaks.
PeerGoes(k) ==
    /\ peer[k] = "open"
    /\ peer' = [peer EXCEPT ![k] = "gone"]
    /\ UNCHANGED <<capVars, loopVars, conn, loaded, panicked>>

\* The application calls ServeConn itself, on a connection of its own.
CallServeConn(k) ==
    /\ conn[k] = "none"
    /\ AppFree
    /\ conn' = [conn EXCEPT ![k] = "accepted"]
    /\ peer' = [peer EXCEPT ![k] = "open"]
    /\ UNCHANGED <<capVars, loopVars, loaded, panicked>>

\* ServeConn reads s.bootstrap ...
LoadBootstrap(k) ==
    /\ conn[k] = "accepted"
    /\ conn' = [conn EXCEPT ![k] = "loaded"]
    /\ loaded' = [loaded EXCEPT ![k] = bootstrap]
    /\ UNCHANGED <<capVars, loopVars, peer, panicked>>

\* ... and takes a reference to what it read for the new rpc.Conn. AddRef
\* panics on a released handle, and nothing recovers in that goroutine.
AddRefAndServe(k) ==
    /\ conn[k] = "loaded"
    /\ \/ /\ loaded[k] # NoCap => handle[loaded[k]] = "live"
          /\ conn' = [conn EXCEPT ![k] = "serving"]
          /\ TakeRef(loaded[k])
          /\ UNCHANGED panicked
       \/ /\ loaded[k] # NoCap /\ handle[loaded[k]] # "live"
          /\ panicked' = TRUE
          /\ UNCHANGED <<conn, refs>>
    /\ UNCHANGED <<bootstrap, installing, handle, down, loopVars, peer, loaded>>

\* rpc.Conn notices that its peer is gone, shuts down and closes Done().
RpcConnShutdown(k) ==
    /\ conn[k] = "serving"
    /\ peer[k] = "gone"
    /\ conn' = [conn EXCEPT ![k] = "down"]
    /\ ReleaseConnRef(loaded[k])
    /\ UNCHANGED <<bootstrap, installing, loopVars, peer, loaded, panicked>>

\* The case <-conn.Done() of ServeConn.
ServeConnDone(k) ==
    /\ conn[k] = "down"
    /\ conn' = [conn EXCEPT ![k] = "done"]
    /\ UNCHANGED <<capVars, loopVars, peer, loaded, panicked>>

\* Fault: Serve runs its connections under a context it cancels on return.
ReturnStops(k) == conn[k] = "serving" /\ (ctxDone \/ serve = "returned")

\* Fault: ServeConn waits for the end of its connection only.
NeverStops(k) == FALSE

\* The case <-ctx.Done() of ServeConn is ready on a connection still up.
CtxStops(k) == conn[k] = "serving" /\ ctxDone

\* Fault: ServeConn releases s.bootstrap when it stops.
CloseAndRelease(k) == ReleaseSharedHandle(loaded[k])

\* conn.Close() shuts the rpc.Conn down.
CloseConn(k) == ReleaseConnRef(loaded[k])

ServeConnCancelled(k) ==
    /\ CtxStops(k)
    /\ conn' = [conn EXCEPT ![k] = "done"]
    /\ CloseConn(k)
    /\ UNCHANGED <<bootstrap, installing, loopVars, peer, loaded, panicked>>

-----------------------------------------------------------------------------
(* The specification. Every step needs a live process.                       *)

Application ==
    /\ ~panicked
    /\ \/ \E c \in Caps : Register(c)
       \/ CallListenAndServe
       \/ CallServe
       \/ Cancel
       \/ CallerClosesListener
       \/ \E k \in Conns : CallServeConn(k)

Registrar == ~panicked /\ SetBootstrapAssign

ServeLoop ==
    /\ ~panicked
    /\ \/ CheckBootstrap
       \/ \E k \in Conns : AcceptConn(k)
       \/ AcceptFails

Watcher == ~panicked /\ WatcherCloses

ServeConn(k) ==
    /\ ~panicked
    /\ \/ LoadBootstrap(k)
       \/ AddRefAndServe(k)
       \/ ServeConnDone(k)
       \/ ServeConnCancelled(k)

RpcConn(k) == ~panicked /\ RpcConnShutdown(k)

Peers == ~panicked /\ \E k \in Conns : Connect(k) \/ PeerGoes(k)

Next ==
    \/ Application
    \/ Registrar
    \/ ServeLoop
    \/ Watcher
    \/ \E k \in Conns : ServeConn(k) \/ RpcConn(k)
    \/ Peers

Spec == Init /\ [][Next]_vars

\* The Go scheduler runs every goroutine that can run. What the application,
\* the peers and the operating system's error conditions do is their choice.
FairSpec ==
    /\ Spec
    /\ WF_vars(Registrar)
    /\ WF_vars(ServeLoop)
    /\ WF_vars(Watcher)
    /\ \A k \in Conns : WF_vars(ServeConn(k)) /\ WF_vars(RpcConn(k))

-----------------------------------------------------------------------------
(* Properties.                                                               *)

\* The connections that own a reference to c.
Holders(c) == {k \in Conns : conn[k] = "serving" /\ loaded[k] = c}

\* A capability's reference count is exactly the number of its owners: the
\* handle of its registration, until SetBootstrap releases it, and one rpc.Conn
\* per connection it is served on (server.go:33-36, 74-76).
RefsCountOwners ==
    \A c \in Caps :
        refs[c] = (IF handle[c] = "live" THEN 1 ELSE 0) + Cardinality(Holders(c))

\* A replaced service is shut down when the last connection still using it has
\* ended, and at no other time: not while a client is served by it, however
\* re-registration, disconnection and cancellation interleave, and not later.
ShutDownWhenUnheld ==
    \A c \in Caps : c \in down <=> handle[c] = "released" /\ Holders(c) = {}

\* Bookkeeping of the handles: what has been stored or loaded has
\* been created, and the one handle being installed has not been given up.
HandlesBorn ==
    /\ installing # NoCap => handle[installing] = "live"
    /\ bootstrap # NoCap => handle[bootstrap] # "unborn"
    /\ \A k \in Conns : loaded[k] # NoCap => handle[loaded[k]] # "unborn"

\* An application that registers before it serves: from the first connection on
\* nothing is being installed, so what a ServeConn loaded is still s.bootstrap,
\* and its handle is the live one.
RegisteredFirst ==
    /\ ~panicked
    /\ serve = "idle" => ln = "none" /\ watcher = "none"
    /\ Started => installing = NoCap
    /\ installing = NoCap /\ bootstrap # NoCap => handle[bootstrap] = "live"
    /\ \A k \in Conns : conn[k] = "loaded" => loaded[k] = bootstrap

\* The inductive invariant: reference counts need HandlesBorn, because a new
\* handle starts with one reference only if nobody holds it yet, and the
\* absence of panics needs RegisteredFirst (server.go:32-37, 74-76).
IInv ==
    /\ TypeOK
    /\ HandlesBorn
    /\ RefsCountOwners
    /\ ShutDownWhenUnheld
    /\ ~RegisterWhileServing => RegisteredFirst

\* Serving never takes the process down: where services are registered first no
\* ServeConn takes a reference through a handle SetBootstrap has released since
\* it read s.bootstrap without a lock (server.go:32-37, 74-76).
NeverPanics == ~panicked

\* A connection is served as long as its process lives.
InService(k) == conn[k] = "serving" /\ ~panicked

\* A registration has released what ServeConn k has read and will use.
Undercut(k) ==
    conn[k] = "loaded" /\ loaded[k] # NoCap /\ handle[loaded[k]] = "released"

\* Once a connection is served, its own end or ctx ends the service, or the death
\* of the process: neither closing the listener, nor Serve returning, nor that
\* its service is replaced ("returns when the connection or ctx is done",
\* server.go:71-72). Serving another connection kills the process only if
\* the application registers while it serves, and hits a ServeConn between its
\* two steps (server.go:32-37, 74-76).
ConnEndsOnlyWhenDone ==
    [][\A k \in Conns :
          InService(k) /\ ~InService(k)' =>
              \/ ctxDone
              \/ peer[k] = "gone"
              \/ RegisterWhileServing /\ \E j \in Conns \ {k} : Undercut(j)]_vars

ServeConnEnded(k) == conn[k] \notin {"accepted", "loaded", "serving", "down"}

\* When ctx is cancelled everything Serve started comes to an end and stays
\* ended: the accept loop returns, the listener it watches is closed, and every
\* ServeConn returns, the one of a connection accepted in the race with the
\* cancellation included (server.go:54-68, 77-82).
DrainsOnCancel ==
    ctxDone ~> \/ panicked
               \/ [] /\ serve # "accept"
                     /\ watcher # "none" => ln = "closed"
                     /\ \A k \in Conns : ServeConnEnded(k)

\* "Serve accepts connections on ln until ctx is cancelled or ln is closed"
\* (server.go:48): a client waiting on the listener of a serving Server is
\* accepted, or refused because the listener is closed, or ctx is cancelled.
AcceptsUntilStopped ==
    \A k \in Conns :
        serve = "accept" /\ conn[k] = "backlog" ~> conn[k] # "backlog" \/ ctxDone

=============================================================================
