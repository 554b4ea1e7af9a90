----------------------------- MODULE CapwrapCalls -----------------------------
(***************************************************************************)
(* Calls through a generated capwrap.go wrapper: typed clients made by     *)
(* DialXxx call a service registered with RegisterXxxServer, each call     *)
(* from a goroutine of its own, while contexts end, clients are closed and *)
(* connections break. The code is the generated one of the calculator      *)
(* example, which is what the template of internal/generator/generate.go   *)
(* makes of each interface, over runtime/client.go.                        *)
(*                                                                         *)
(* External parts, modelled from how that code uses them: capnp.Client and *)
(* its futures (SendCall, Struct, release), rpc.Conn, which carries calls  *)
(* and answers, and server.Server, which runs the adapter's methods one    *)
(* call after the other because none of them calls Go(). Requests and      *)
(* responses are identified by their call. The calls are finitely many, so *)
(* their order on a connection and in the queue is left open: no call can  *)
(* be overtaken for ever.                                                  *)
(***************************************************************************)
EXTENDS Naturals

CONSTANTS
    Clients,       \* typed clients, each dialled at most once
    Calls,         \* calls of their methods
    NoCall,
    NoClient,
    Services,      \* capabilities the server may serve a connection with
    NoService,
    Stubs,         \* the calls of methods the wrapper does not support
    Misfits,       \* the calls with a field that a getter or setter may fail on
    NilResponses   \* may the implementation return (nil, nil)?

ASSUME CallsAssumption ==
    /\ NoCall \notin Calls
    /\ NoClient \notin Clients
    /\ NoService \notin Services
    /\ Stubs \subseteq Calls
    /\ Misfits \subseteq Calls
    /\ NilResponses \in BOOLEAN

VARIABLES
    client,   \* of each client: "none", "open", "released" (in Close), "closed"
    boot,     \* its bootstrap capability: "none", "asked", "ready", "broken"
    link,     \* its connection, as the client sees it: "none", "up", "down"
    call,     \* control state of each call's method
    owner,    \* the client it was made on
    ctxEnded, \* has the context of the call ended?
    answer,   \* what its future resolved to: "none", "ok", "error"
    msg,      \* the response in the message its future holds, or NoCall
    outcome,  \* what its method returns: "none", "ok", "error"
    got,      \* the response its method returns, or NoCall
    at,       \* where its message is: "client", "wire", "queue", "impl", "back",
              \* "gone"
    sent,     \* what the adapter answered: "none", "ok", "error", or "nil" for
              \* the nil response that killed it
    ran,      \* how often the implementation was run for it
    session,  \* each connection at the server: "none", "serving", "ended"
    service,  \* the capability it is served with, or NoService
    crashed   \* has the server's process died?

clientVars == <<client, boot, link>>
callVars   == <<call, owner, answer, msg, outcome, got>>
serverVars == <<at, sent, ran>>
hostVars   == <<session, service, crashed>>
vars == <<clientVars, callVars, ctxEnded, serverVars, hostVars>>

\* The variables have their types, and nothing is run for a call twice.
TypeOK ==
    /\ client \in [Clients -> {"none", "open", "released", "closed"}]
    /\ boot \in [Clients -> {"none", "asked", "ready", "broken"}]
    /\ link \in [Clients -> {"none", "up", "down"}]
    /\ call \in [Calls -> {"new", "waiting", "resolved", "leaving", "returned"}]
    /\ owner \in [Calls -> Clients \cup {NoClient}]
    /\ ctxEnded \in [Calls -> BOOLEAN]
    /\ answer \in [Calls -> {"none", "ok", "error"}]
    /\ msg \in [Calls -> Calls \cup {NoCall}]
    /\ outcome \in [Calls -> {"none", "ok", "error"}]
    /\ got \in [Calls -> Calls \cup {NoCall}]
    /\ at \in [Calls -> {"client", "wire", "queue", "impl", "back", "gone"}]
    /\ sent \in [Calls -> {"none", "ok", "error", "nil"}]
    /\ ran \in [Calls -> 0..1]
    /\ session \in [Clients -> {"none", "serving", "ended"}]
    /\ service \in [Clients -> Services \cup {NoService}]
    /\ crashed \in BOOLEAN

Init ==
    /\ client = [c \in Clients |-> "none"]
    /\ boot = [c \in Clients |-> "none"]
    /\ link = [c \in Clients |-> "none"]
    /\ call = [x \in Calls |-> "new"]
    /\ owner = [x \in Calls |-> NoClient]
    /\ ctxEnded = [x \in Calls |-> FALSE]
    /\ answer = [x \in Calls |-> "none"]
    /\ msg = [x \in Calls |-> NoCall]
    /\ outcome = [x \in Calls |-> "none"]
    /\ got = [x \in Calls |-> NoCall]
    /\ at = [x \in Calls |-> "client"]
    /\ sent = [x \in Calls |-> "none"]
    /\ ran = [x \in Calls |-> 0]
    /\ session = [c \in Clients |-> "none"]
    /\ service = [c \in Clients |-> NoService]
    /\ crashed = FALSE

-----------------------------------------------------------------------------
(* Clients: DialXxx, the bootstrap capability it asks for, and Close.        *)

\* capwrap.Dial does not look at ctx; Bootstrap(ctx) returns a promise.
Dial(c) ==
    /\ client[c] = "none"
    /\ ~crashed
    /\ client' = [client EXCEPT ![c] = "open"]
    /\ link' = [link EXCEPT ![c] = "up"]
    /\ boot' = [boot EXCEPT ![c] = "asked"]
    /\ UNCHANGED <<callVars, ctxEnded, serverVars, hostVars>>

\* The server has served the connection, so it has answered.
BootAnswered(c) ==
    /\ boot[c] = "asked"
    /\ session[c] # "none"
    /\ link[c] = "up"
    /\ boot' = [boot EXCEPT ![c] = "ready"]
    /\ UNCHANGED <<client, link, callVars, ctxEnded, serverVars, hostVars>>

\* The context DialXxx was given ends before the answer to Bootstrap arrives: it
\* bounds the promise, which lives on when DialXxx has returned.
DialCtxEnds(c) ==
    /\ boot[c] = "asked"
    /\ boot' = [boot EXCEPT ![c] = "broken"]
    /\ UNCHANGED <<client, link, callVars, ctxEnded, serverVars, hostVars>>

\* Close releases the capability ...
CloseReleases(c) ==
    /\ client[c] = "open"
    /\ client' = [client EXCEPT ![c] = "released"]
    /\ UNCHANGED <<boot, link, callVars, ctxEnded, serverVars, hostVars>>

\* Fault: Close leaves the connection open.
KeepConn(c) == UNCHANGED link

DropConn(c) == link' = [link EXCEPT ![c] = "down"]

\* ... and then closes the connection.
CloseCloses(c) ==
    /\ client[c] = "released"
    /\ client' = [client EXCEPT ![c] = "closed"]
    /\ DropConn(c)
    /\ UNCHANGED <<boot, callVars, ctxEnded, serverVars, hostVars>>

\* The network breaks, or the server refuses the connection.
LinkFails(c) ==
    /\ link[c] = "up"
    /\ link' = [link EXCEPT ![c] = "down"]
    /\ UNCHANGED <<client, boot, callVars, ctxEnded, serverVars, hostVars>>

-----------------------------------------------------------------------------
(* A method of the typed client: send the call, wait for its future, read    *)
(* the results, release them.                                                *)

\* A released capability, a broken bootstrap or a dead connection reject a call.
Usable(c) ==
    client[c] = "open" /\ link[c] = "up" /\ boot[c] \in {"asked", "ready"}

Resolve(x, result) ==
    /\ call' = [call EXCEPT ![x] = "resolved"]
    /\ answer' = [answer EXCEPT ![x] = result]

\* The method places its request in a message and sends it; its future is
\* rejected at once if that is not possible.
CallMethod(c, x) ==
    /\ call[x] = "new"
    /\ client[c] # "none"
    /\ owner' = [owner EXCEPT ![x] = c]
    /\ \/ /\ Usable(c)
          /\ call' = [call EXCEPT ![x] = "waiting"]
          /\ at' = [at EXCEPT ![x] = "wire"]
          /\ UNCHANGED answer
       \/ /\ Usable(c) => x \in Misfits      \* a setter fails
          /\ Resolve(x, "error")
          /\ UNCHANGED at
    /\ UNCHANGED <<clientVars, msg, outcome, got, ctxEnded, sent, ran, hostVars>>

\* Only the future looks at the context, and only until it is resolved.
CallCtxEnds(x) ==
    /\ call[x] = "waiting"
    /\ ~ctxEnded[x]
    /\ ctxEnded' = [ctxEnded EXCEPT ![x] = TRUE]
    /\ UNCHANGED <<clientVars, callVars, serverVars, hostVars>>

\* Fault: the method calls with context.Background().
Background(x) == FALSE

\* Fault: the method gives up after a while of its own.
OwnTimeout(x) == TRUE

\* The context the method was given ends while its future is unresolved.
CtxRejects(x) == ctxEnded[x]

FutureCancelled(x) ==
    /\ call[x] = "waiting"
    /\ CtxRejects(x)
    /\ Resolve(x, "error")
    /\ UNCHANGED <<clientVars, owner, msg, outcome, got, ctxEnded, serverVars,
                   hostVars>>

\* A connection that goes down rejects the futures of its calls.
FutureDisconnected(x) ==
    /\ call[x] = "waiting"
    /\ link[owner[x]] = "down"
    /\ Resolve(x, "error")
    /\ UNCHANGED <<clientVars, owner, msg, outcome, got, ctxEnded, serverVars,
                   hostVars>>

\* An answer resolves the future of its call, or is dropped when late.
TakeAnswer(x) ==
    \/ /\ call[x] = "waiting"
       /\ Resolve(x, sent[x])
       /\ msg' = [msg EXCEPT ![x] = IF sent[x] = "ok" THEN x ELSE NoCall]
    \/ /\ call[x] # "waiting"
       /\ UNCHANGED <<call, answer, msg>>

AnswerArrives(x) ==
    /\ at[x] = "back"
    /\ link[owner[x]] = "up"
    /\ at' = [at EXCEPT ![x] = "gone"]
    /\ TakeAnswer(x)
    /\ UNCHANGED <<clientVars, owner, outcome, got, ctxEnded, sent, ran, hostVars>>

\* Fault: the method releases its results before it reads them.
ReadReleased(x) == got' = [got EXCEPT ![x] = NoCall]

ReadResults(x) == got' = [got EXCEPT ![x] = msg[x]]

\* future.Struct() returns; the getters read the results, one may fail.
MethodReads(x) ==
    /\ call[x] = "resolved"
    /\ call' = [call EXCEPT ![x] = "leaving"]
    /\ \/ /\ answer[x] = "ok"
          /\ outcome' = [outcome EXCEPT ![x] = "ok"]
          /\ ReadResults(x)
       \/ /\ answer[x] = "ok" => x \in Misfits
          /\ outcome' = [outcome EXCEPT ![x] = "error"]
          /\ UNCHANGED got
    /\ UNCHANGED <<clientVars, owner, answer, msg, ctxEnded, serverVars, hostVars>>

\* Fault: the results are released only if the method succeeds.
ReleaseOnSuccess(x) ==
    msg' = IF outcome[x] = "ok" THEN [msg EXCEPT ![x] = NoCall] ELSE msg

Release(x) == msg' = [msg EXCEPT ![x] = NoCall]

\* The deferred release(), then the method has returned.
MethodReturns(x) ==
    /\ call[x] = "leaving"
    /\ call' = [call EXCEPT ![x] = "returned"]
    /\ Release(x)
    /\ UNCHANGED <<clientVars, owner, answer, outcome, got, ctxEnded, serverVars,
                   hostVars>>

-----------------------------------------------------------------------------
(* The connection and the server: the adapter of the registered service.     *)

\* ServeConn serves the connection with the capability registered by then.
TakenUp(c) ==
    /\ client[c] # "none"
    /\ session[c] = "none"
    /\ ~crashed
    /\ session' = [session EXCEPT ![c] = "serving"]
    /\ \E s \in Services : service' = [service EXCEPT ![c] = s]
    /\ UNCHANGED <<clientVars, callVars, ctxEnded, serverVars, crashed>>

\* The server's end of the connection shuts down: ServeConn closes it, or it
\* notices that the client is gone.
SessionEnds(c) ==
    /\ session[c] = "serving"
    /\ ~crashed
    /\ session' = [session EXCEPT ![c] = "ended"]
    /\ UNCHANGED <<clientVars, callVars, ctxEnded, serverVars, service, crashed>>

\* The client notices that the server's end is shut down.
HangUp(c) ==
    /\ session[c] = "ended"
    /\ link[c] = "up"
    /\ link' = [link EXCEPT ![c] = "down"]
    /\ UNCHANGED <<client, boot, callVars, ctxEnded, serverVars, hostVars>>

\* What was sent before a connection went down may still be received.
Deliver(x) ==
    /\ at[x] = "wire"
    /\ session[owner[x]] = "serving"
    /\ ~crashed
    /\ at' = [at EXCEPT ![x] = "queue"]
    /\ UNCHANGED <<clientVars, callVars, ctxEnded, sent, ran, hostVars>>

Lose(x) ==
    /\ at[x] \in {"wire", "back"}
    /\ link[owner[x]] = "down"
    /\ at' = [at EXCEPT ![x] = "gone"]
    /\ UNCHANGED <<clientVars, callVars, ctxEnded, sent, ran, hostVars>>

\* Fault: a call whose implementation returns an error is run again.
RetryErrors(x, result) ==
    /\ at' = [at EXCEPT ![x] = IF result = "ok" THEN "back" ELSE "queue"]
    /\ sent' = [sent EXCEPT ![x] = result]

\* An answer for a connection that is not served any more is dropped.
Reply(x, result) ==
    /\ at' = [at EXCEPT ![x] = IF session[owner[x]] = "serving" THEN "back"
                               ELSE "gone"]
    /\ sent' = [sent EXCEPT ![x] = result]

\* The server.Server of x's service has returned from the previous method.
Idle(x) == \A y \in Calls : at[y] = "impl" => service[owner[y]] # service[owner[x]]

\* The adapter reads the arguments and calls the implementation.
AdapterCalls(x) ==
    /\ at[x] = "queue"
    /\ Idle(x)
    /\ x \notin Stubs
    /\ \/ /\ at' = [at EXCEPT ![x] = "impl"]
          /\ ran' = [ran EXCEPT ![x] = @ + 1]
          /\ UNCHANGED sent
       \/ /\ x \in Misfits                   \* a getter fails
          /\ Reply(x, "error")
          /\ UNCHANGED ran
    /\ UNCHANGED <<clientVars, callVars, ctxEnded, hostVars>>

\* Fault: the adapter of an unsupported method answers without an error.
StubAnswersEmpty(x) == Reply(x, "ok")

StubAnswer(x) == Reply(x, "error")

\* The adapter of a method the wrapper does not support.
AdapterRefuses(x) ==
    /\ at[x] = "queue"
    /\ Idle(x)
    /\ x \in Stubs
    /\ StubAnswer(x)
    /\ UNCHANGED <<clientVars, callVars, ctxEnded, ran, hostVars>>

\* The implementation returns an error, or a response, which the adapter places
\* in the results; if a setter fails it returns that error instead.
ImplReturns(x) ==
    /\ at[x] = "impl"
    /\ \E result \in {"ok", "error"} : Reply(x, result)
    /\ UNCHANGED <<clientVars, callVars, ctxEnded, ran, hostVars>>

\* A panic takes the process with every connection down.
Crash ==
    /\ crashed' = TRUE
    /\ link' = [c \in Clients |-> IF link[c] = "up" THEN "down" ELSE link[c]]
    /\ at' = [y \in Calls |-> IF at[y] \in {"wire", "queue", "impl"}
                              THEN "gone" ELSE at[y]]

\* Fault: a panic of the adapter is recovered from and the call never answered.
RecoversSilently(x) ==
    /\ at[x] = "impl"
    /\ NilResponses
    /\ at' = [at EXCEPT ![x] = "gone"]
    /\ UNCHANGED <<clientVars, callVars, ctxEnded, sent, ran, hostVars>>

\* It returns (nil, nil): the adapter dereferences the nil response.
ImplReturnsNil(x) ==
    /\ at[x] = "impl"
    /\ NilResponses
    /\ sent' = [sent EXCEPT ![x] = "nil"]
    /\ Crash
    /\ UNCHANGED <<client, boot, callVars, ctxEnded, ran, session, service>>

\* The server's process is killed, or something else in it panics.
ServerDies ==
    /\ ~crashed
    /\ Crash
    /\ UNCHANGED <<client, boot, callVars, ctxEnded, sent, ran, session, service>>

-----------------------------------------------------------------------------
(* The specification.                                                        *)

Environment ==
    \/ \E c \in Clients : Dial(c) \/ DialCtxEnds(c) \/ CloseReleases(c) \/ LinkFails(c)
    \/ \E c \in Clients, x \in Calls : CallMethod(c, x)
    \/ \E x \in Calls : CallCtxEnds(x) \/ Lose(x)
    \/ \E c \in Clients : SessionEnds(c)
    \/ ServerDies

\* The goroutines of the client's process.
Method(x) ==
    FutureCancelled(x) \/ FutureDisconnected(x) \/ MethodReads(x) \/ MethodReturns(x)

\* The goroutines of the connections and of the server's process.
Transport(x) == Deliver(x) \/ AnswerArrives(x)

Adapter(x) == AdapterCalls(x) \/ AdapterRefuses(x)

Impl(x) == ImplReturns(x) \/ ImplReturnsNil(x)

Next ==
    \/ Environment
    \/ \E x \in Calls : Method(x) \/ Transport(x) \/ Adapter(x) \/ Impl(x)
    \/ \E c \in Clients : CloseCloses(c) \/ BootAnswered(c) \/ TakenUp(c) \/ HangUp(c)

Spec == Init /\ [][Next]_vars

\* The client's goroutines run; its network and its server may be silent.
ClientFairness ==
    /\ \A x \in Calls : WF_vars(Method(x))
    /\ \A c \in Clients : WF_vars(CloseCloses(c))

ClientFairSpec == Spec /\ ClientFairness

\* Connections are served, deliver, and are seen to end; the adapter runs, and
\* the implementation returns.
ServerFairness ==
    /\ \A c \in Clients : WF_vars(TakenUp(c)) /\ WF_vars(HangUp(c))
    /\ \A x \in Calls : /\ WF_vars(Transport(x))
                        /\ WF_vars(Adapter(x))
                        /\ WF_vars(Impl(x))

-----------------------------------------------------------------------------
(* Properties.                                                               *)

\* A method that returns a response returns the one the implementation made of
\* its own request, in the one run it had: whatever the order of answers, the
\* ends of contexts and the release of the results (calculator.capwrap.go:116-136).
OwnResponse ==
    \A x \in Calls :
        outcome[x] = "ok" => got[x] = x /\ ran[x] = 1 /\ x \notin Stubs

\* A method fails only for a reason: its context ended, its client is being
\* closed or lost its connection, DialXxx's context ended before the bootstrap
\* was there, a field did not fit, or the server answered with an error.
ErrorsExplained ==
    \A x \in Calls :
        outcome[x] = "error" =>
            \/ ctxEnded[x]
            \/ client[owner[x]] # "open"
            \/ link[owner[x]] = "down"
            \/ boot[owner[x]] = "broken"
            \/ x \in Misfits
            \/ sent[x] = "error"

\* A method that has returned holds no message any more, an answer that comes
\* late included: "defer release()" (calculator.capwrap.go:123, 144).
ResultsReleased ==
    \A x \in Calls : call[x] = "returned" => msg[x] = NoCall

\* Once its context ends a method returns, even if the server and the network
\* are silent ("blocking client calls with context", README.md:138).
CtxBoundsCall ==
    \A x \in Calls : ctxEnded[x] ~> call[x] = "returned"

\* Once Close has returned no method of that client stays blocked, those called
\* from other goroutines before, during and after Close (capwrap.go:111-114).
CloseEndsCalls ==
    \A c \in Clients, x \in Calls :
        client[c] = "closed" /\ owner[x] = c ~> call[x] = "returned"

\* If the implementation always returns, so does every method, whatever ends,
\* breaks or crashes meanwhile, with no context and no Close to help.
EveryCallReturns ==
    ServerFairness => \A x \in Calls : call[x] = "waiting" ~> call[x] = "returned"

\* The wrapper implements calls that return once and run at most once.
Promise ==
    INSTANCE UnaryCalls WITH
        phase <- [x \in Calls |->
                    IF call[x] = "new" THEN "new"
                    ELSE IF outcome[x] = "none" THEN "pending"
                    ELSE outcome[x]],
        ran <- {x \in Calls : ran[x] > 0},
        result <- got

ImplementsUnaryCalls == Promise!Spec

\* Where a call is: its message leaves the client once, is answered at most once,
\* and is run only on the way to an answer.
MessagesInOrder ==
    \A x \in Calls :
        /\ call[x] = "new" =>
              /\ at[x] = "client"
              /\ answer[x] = "none"
              /\ got[x] = NoCall
        /\ call[x] = "waiting" => answer[x] = "none"
        /\ at[x] \in {"client", "wire", "queue"} => ran[x] = 0 /\ sent[x] = "none"
        /\ at[x] = "impl" => ran[x] = 1 /\ sent[x] = "none" /\ x \notin Stubs
        /\ at[x] = "back" => sent[x] \in {"ok", "error"}
        /\ sent[x] = "ok" => ran[x] = 1 /\ x \notin Stubs

\* What a method has in hand when its future is resolved, and what it returns.
ResultsInHand ==
    \A x \in Calls :
        /\ outcome[x] # "none" <=> call[x] \in {"leaving", "returned"}
        /\ call[x] = "resolved" => answer[x] # "none" /\ got[x] = NoCall
        /\ answer[x] = "ok" => sent[x] = "ok"
        /\ call[x] = "resolved" /\ answer[x] = "ok" => msg[x] = x
        /\ outcome[x] = "ok" => answer[x] = "ok" /\ got[x] = x
        /\ outcome[x] # "ok" => got[x] = NoCall

\* The inductive invariant: a response is on its way only if the implementation
\* has run, and a method returns what it had in hand before its release.
CallsInv == TypeOK /\ MessagesInOrder /\ ResultsInHand

=============================================================================
