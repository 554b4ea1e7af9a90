-------------------------- MODULE CapwrapCallsProofs --------------------------
(* Theorems about CapwrapCalls: its inductive invariant CallsInv, and that   *)
(* it implements UnaryCalls, for any clients, calls and unsupported methods. *)
EXTENDS CapwrapCalls, TLAPS

(* Every step preserves the inductive invariant, part by part.                *)

\* Steps keep the types; a call is run from the queue only, where it is new.
LEMMA TypesKept ==
    ASSUME CallsInv, [Next]_vars
    PROVE  TypeOK'
<1>. USE DEF CallsInv, TypeOK, clientVars, callVars, serverVars, hostVars
<1>1. ASSUME NEW c \in Clients, Dial(c) PROVE TypeOK'
    BY <1>1 DEF Dial
<1>2. ASSUME NEW c \in Clients, DialCtxEnds(c) PROVE TypeOK'
    BY <1>2 DEF DialCtxEnds
<1>3. ASSUME NEW c \in Clients, CloseReleases(c) PROVE TypeOK'
    BY <1>3 DEF CloseReleases
<1>4. ASSUME NEW c \in Clients, LinkFails(c) PROVE TypeOK'
    BY <1>4 DEF LinkFails
<1>5. ASSUME NEW c \in Clients, NEW x \in Calls, CallMethod(c, x) PROVE TypeOK'
    BY <1>5 DEF CallMethod, Resolve
<1>6. ASSUME NEW x \in Calls, CallCtxEnds(x) PROVE TypeOK'
    BY <1>6 DEF CallCtxEnds
<1>7. ASSUME NEW x \in Calls, Lose(x) PROVE TypeOK'
    BY <1>7 DEF Lose
<1>8. ASSUME NEW x \in Calls, FutureCancelled(x) PROVE TypeOK'
    BY <1>8 DEF FutureCancelled, Resolve
<1>9. ASSUME NEW x \in Calls, FutureDisconnected(x) PROVE TypeOK'
    BY <1>9 DEF FutureDisconnected, Resolve
<1>10. ASSUME NEW x \in Calls, MethodReads(x) PROVE TypeOK'
    BY <1>10 DEF MethodReads, ReadResults
<1>11. ASSUME NEW x \in Calls, MethodReturns(x) PROVE TypeOK'
    BY <1>11 DEF MethodReturns, Release
<1>12. ASSUME NEW x \in Calls, Deliver(x) PROVE TypeOK'
    BY <1>12 DEF Deliver
<1>13. ASSUME NEW x \in Calls, AnswerArrives(x) PROVE TypeOK'
    BY <1>13 DEF AnswerArrives, TakeAnswer, Resolve, MessagesInOrder
<1>14. ASSUME NEW x \in Calls, AdapterCalls(x) PROVE TypeOK'
    <2>1. ran[x] = 0
        BY <1>14 DEF AdapterCalls, MessagesInOrder
    <2>. QED
        BY <1>14, <2>1 DEF AdapterCalls, Reply
<1>15. ASSUME NEW x \in Calls, AdapterRefuses(x) PROVE TypeOK'
    BY <1>15 DEF AdapterRefuses, StubAnswer, Reply
<1>16. ASSUME NEW x \in Calls, ImplReturns(x) PROVE TypeOK'
    BY <1>16 DEF ImplReturns, Reply
<1>17. ASSUME NEW x \in Calls, ImplReturnsNil(x) PROVE TypeOK'
    BY <1>17 DEF ImplReturnsNil, Crash
<1>18. ASSUME NEW c \in Clients, CloseCloses(c) PROVE TypeOK'
    BY <1>18 DEF CloseCloses, DropConn
<1>19. ASSUME NEW c \in Clients, BootAnswered(c) PROVE TypeOK'
    BY <1>19 DEF BootAnswered
<1>20. CASE UNCHANGED vars
    BY <1>20 DEF vars
<1>21. ASSUME NEW c \in Clients, TakenUp(c) PROVE TypeOK'
    BY <1>21 DEF TakenUp
<1>22. ASSUME NEW c \in Clients, SessionEnds(c) PROVE TypeOK'
    BY <1>22 DEF SessionEnds
<1>23. ASSUME NEW c \in Clients, HangUp(c) PROVE TypeOK'
    BY <1>23 DEF HangUp
<1>24. CASE ServerDies
    BY <1>24 DEF ServerDies, Crash
<1>. QED
    BY <1>1, <1>2, <1>3, <1>4, <1>5, <1>6, <1>7, <1>8, <1>9, <1>10, <1>11,
       <1>12, <1>13, <1>14, <1>15, <1>16, <1>17, <1>18, <1>19, <1>20, <1>21, <1>22,
       <1>23, <1>24
       DEF Next, Environment, Method, Transport, Adapter, Impl

\* Steps move messages one way.
LEMMA MessagesKept ==
    ASSUME CallsInv, [Next]_vars
    PROVE  MessagesInOrder'
<1>. USE DEF CallsInv, TypeOK, MessagesInOrder, clientVars, callVars, serverVars, hostVars
<1>1. ASSUME NEW c \in Clients, Dial(c) PROVE MessagesInOrder'
    BY <1>1 DEF Dial
<1>2. ASSUME NEW c \in Clients, DialCtxEnds(c) PROVE MessagesInOrder'
    BY <1>2 DEF DialCtxEnds
<1>3. ASSUME NEW c \in Clients, CloseReleases(c) PROVE MessagesInOrder'
    BY <1>3 DEF CloseReleases
<1>4. ASSUME NEW c \in Clients, LinkFails(c) PROVE MessagesInOrder'
    BY <1>4 DEF LinkFails
<1>5. ASSUME NEW c \in Clients, NEW x \in Calls, CallMethod(c, x)
      PROVE  MessagesInOrder'
    BY <1>5 DEF CallMethod, Resolve
<1>6. ASSUME NEW x \in Calls, CallCtxEnds(x) PROVE MessagesInOrder'
    BY <1>6 DEF CallCtxEnds
<1>7. ASSUME NEW x \in Calls, Lose(x) PROVE MessagesInOrder'
    BY <1>7 DEF Lose
<1>8. ASSUME NEW x \in Calls, FutureCancelled(x) PROVE MessagesInOrder'
    BY <1>8 DEF FutureCancelled, Resolve
<1>9. ASSUME NEW x \in Calls, FutureDisconnected(x) PROVE MessagesInOrder'
    BY <1>9 DEF FutureDisconnected, Resolve
<1>10. ASSUME NEW x \in Calls, MethodReads(x) PROVE MessagesInOrder'
    BY <1>10 DEF MethodReads, ReadResults
<1>11. ASSUME NEW x \in Calls, MethodReturns(x) PROVE MessagesInOrder'
    BY <1>11 DEF MethodReturns, Release
<1>12. ASSUME NEW x \in Calls, Deliver(x) PROVE MessagesInOrder'
    BY <1>12 DEF Deliver
<1>13. ASSUME NEW x \in Calls, AnswerArrives(x) PROVE MessagesInOrder'
    BY <1>13 DEF AnswerArrives, TakeAnswer, Resolve
<1>14. ASSUME NEW x \in Calls, AdapterCalls(x) PROVE MessagesInOrder'
    BY <1>14 DEF AdapterCalls, Reply
<1>15. ASSUME NEW x \in Calls, AdapterRefuses(x) PROVE MessagesInOrder'
    BY <1>15 DEF AdapterRefuses, StubAnswer, Reply
<1>16. ASSUME NEW x \in Calls, ImplReturns(x) PROVE MessagesInOrder'
    <2>1. PICK result \in {"ok", "error"} : Reply(x, result)
        BY <1>16 DEF ImplReturns
    <2>. QED
        BY <1>16, <2>1 DEF ImplReturns, Reply
<1>17. ASSUME NEW x \in Calls, ImplReturnsNil(x) PROVE MessagesInOrder'
    BY <1>17 DEF ImplReturnsNil, Crash
<1>18. ASSUME NEW c \in Clients, CloseCloses(c) PROVE MessagesInOrder'
    BY <1>18 DEF CloseCloses, DropConn
<1>19. ASSUME NEW c \in Clients, BootAnswered(c) PROVE MessagesInOrder'
    BY <1>19 DEF BootAnswered
<1>20. CASE UNCHANGED vars
    BY <1>20 DEF vars
<1>21. ASSUME NEW c \in Clients, TakenUp(c) PROVE MessagesInOrder'
    BY <1>21 DEF TakenUp
<1>22. ASSUME NEW c \in Clients, SessionEnds(c) PROVE MessagesInOrder'
    BY <1>22 DEF SessionEnds
<1>23. ASSUME NEW c \in Clients, HangUp(c) PROVE MessagesInOrder'
    BY <1>23 DEF HangUp
<1>24. CASE ServerDies
    BY <1>24 DEF ServerDies, Crash
<1>. QED
    BY <1>1, <1>2, <1>3, <1>4, <1>5, <1>6, <1>7, <1>8, <1>9, <1>10, <1>11,
       <1>12, <1>13, <1>14, <1>15, <1>16, <1>17, <1>18, <1>19, <1>20, <1>21, <1>22,
       <1>23, <1>24
       DEF Next, Environment, Method, Transport, Adapter, Impl

\* Steps change what a method returns only when it returns it.
LEMMA ResultsKept ==
    ASSUME CallsInv, [Next]_vars
    PROVE  ResultsInHand'
<1>. USE DEF CallsInv, TypeOK, MessagesInOrder, ResultsInHand,
        clientVars, callVars, serverVars, hostVars
<1>1. ASSUME NEW c \in Clients, Dial(c) PROVE ResultsInHand'
    BY <1>1 DEF Dial
<1>2. ASSUME NEW c \in Clients, DialCtxEnds(c) PROVE ResultsInHand'
    BY <1>2 DEF DialCtxEnds
<1>3. ASSUME NEW c \in Clients, CloseReleases(c) PROVE ResultsInHand'
    BY <1>3 DEF CloseReleases
<1>4. ASSUME NEW c \in Clients, LinkFails(c) PROVE ResultsInHand'
    BY <1>4 DEF LinkFails
<1>5. ASSUME NEW c \in Clients, NEW x \in Calls, CallMethod(c, x)
      PROVE  ResultsInHand'
    BY <1>5 DEF CallMethod, Resolve
<1>6. ASSUME NEW x \in Calls, CallCtxEnds(x) PROVE ResultsInHand'
    BY <1>6 DEF CallCtxEnds
<1>7. ASSUME NEW x \in Calls, Lose(x) PROVE ResultsInHand'
    BY <1>7 DEF Lose
<1>8. ASSUME NEW x \in Calls, FutureCancelled(x) PROVE ResultsInHand'
    BY <1>8 DEF FutureCancelled, Resolve
<1>9. ASSUME NEW x \in Calls, FutureDisconnected(x) PROVE ResultsInHand'
    BY <1>9 DEF FutureDisconnected, Resolve
<1>10. ASSUME NEW x \in Calls, MethodReads(x) PROVE ResultsInHand'
    BY <1>10 DEF MethodReads, ReadResults
<1>11. ASSUME NEW x \in Calls, MethodReturns(x) PROVE ResultsInHand'
    BY <1>11 DEF MethodReturns, Release
<1>12. ASSUME NEW x \in Calls, Deliver(x) PROVE ResultsInHand'
    BY <1>12 DEF Deliver
<1>13. ASSUME NEW x \in Calls, AnswerArrives(x) PROVE ResultsInHand'
    BY <1>13 DEF AnswerArrives, TakeAnswer, Resolve
<1>14. ASSUME NEW x \in Calls, AdapterCalls(x) PROVE ResultsInHand'
    BY <1>14 DEF AdapterCalls, Reply
<1>15. ASSUME NEW x \in Calls, AdapterRefuses(x) PROVE ResultsInHand'
    BY <1>15 DEF AdapterRefuses, StubAnswer, Reply
<1>16. ASSUME NEW x \in Calls, ImplReturns(x) PROVE ResultsInHand'
    <2>1. PICK result \in {"ok", "error"} : Reply(x, result)
        BY <1>16 DEF ImplReturns
    <2>. QED
        BY <1>16, <2>1 DEF ImplReturns, Reply
<1>17. ASSUME NEW x \in Calls, ImplReturnsNil(x) PROVE ResultsInHand'
    BY <1>17 DEF ImplReturnsNil, Crash
<1>18. ASSUME NEW c \in Clients, CloseCloses(c) PROVE ResultsInHand'
    BY <1>18 DEF CloseCloses, DropConn
<1>19. ASSUME NEW c \in Clients, BootAnswered(c) PROVE ResultsInHand'
    BY <1>19 DEF BootAnswered
<1>20. CASE UNCHANGED vars
    BY <1>20 DEF vars
<1>21. ASSUME NEW c \in Clients, TakenUp(c) PROVE ResultsInHand'
    BY <1>21 DEF TakenUp
<1>22. ASSUME NEW c \in Clients, SessionEnds(c) PROVE ResultsInHand'
    BY <1>22 DEF SessionEnds
<1>23. ASSUME NEW c \in Clients, HangUp(c) PROVE ResultsInHand'
    BY <1>23 DEF HangUp
<1>24. CASE ServerDies
    BY <1>24 DEF ServerDies, Crash
<1>. QED
    BY <1>1, <1>2, <1>3, <1>4, <1>5, <1>6, <1>7, <1>8, <1>9, <1>10, <1>11,
       <1>12, <1>13, <1>14, <1>15, <1>16, <1>17, <1>18, <1>19, <1>20, <1>21, <1>22,
       <1>23, <1>24
       DEF Next, Environment, Method, Transport, Adapter, Impl

\* CallsInv is an invariant: it holds initially and every step preserves it.
THEOREM CallsInvariant == Spec => []CallsInv
<1>1. Init => CallsInv
    <2>. SUFFICES ASSUME Init PROVE CallsInv
        OBVIOUS
    <2>1. TypeOK
        <3>1. ctxEnded \in [Calls -> BOOLEAN]
            BY DEF Init
        <3>2. ran \in [Calls -> 0..1]
            BY DEF Init
        <3>. QED
            BY <3>1, <3>2 DEF Init, TypeOK
    <2>2. MessagesInOrder /\ ResultsInHand
        BY DEF Init, MessagesInOrder, ResultsInHand
    <2>. QED
        BY <2>1, <2>2 DEF CallsInv
<1>2. CallsInv /\ [Next]_vars => CallsInv'
    BY TypesKept, MessagesKept, ResultsKept DEF CallsInv
<1>. QED
    BY <1>1, <1>2, PTL DEF Spec

-----------------------------------------------------------------------------
(* Refinement: each step is a step of UnaryCalls or leaves its state alone.   *)

\* The phase of a call and the calls that have run, as UnaryCalls sees them.
Phase(x) ==
    IF call[x] = "new" THEN "new"
    ELSE IF outcome[x] = "none" THEN "pending"
    ELSE outcome[x]

Phases == [x \in Calls |-> Phase(x)]

HasRun == {x \in Calls : ran[x] > 0}

\* A step that begins, ends and runs no call is invisible.
LEMMA InvisibleStep ==
    ASSUME UNCHANGED <<outcome, ran, got>>,
           \A x \in Calls : call[x] = "new" <=> call'[x] = "new"
    PROVE  UNCHANGED <<Phases, HasRun, got>>
<1>1. \A x \in Calls : Phase(x)' = Phase(x)
    BY DEF Phase
<1>2. UNCHANGED Phases
    BY <1>1 DEF Phases
<1>3. UNCHANGED HasRun
    BY DEF HasRun
<1>. QED
    BY <1>2, <1>3

\* A method that is called begins a call.
LEMMA InvokeStep ==
    ASSUME CallsInv, NEW c \in Clients, NEW x \in Calls, CallMethod(c, x)
    PROVE  Promise!Invoke(x)
<1>1. /\ call[x] = "new"
      /\ call' = [call EXCEPT ![x] = call'[x]]
      /\ call'[x] # "new"
      /\ UNCHANGED <<outcome, ran, got>>
    BY DEF CallMethod, Resolve, CallsInv, TypeOK
<1>2. outcome[x] = "none"
    BY <1>1 DEF CallsInv, ResultsInHand, TypeOK
<1>3. Phases[x] = "new"
    BY <1>1 DEF Phases, Phase
<1>4. Phases' = [Phases EXCEPT ![x] = "pending"]
    BY <1>1, <1>2 DEF Phases, Phase, CallsInv, TypeOK
<1>5. UNCHANGED <<HasRun, got>>
    BY <1>1 DEF HasRun
<1>. QED
    BY <1>3, <1>4, <1>5 DEF Promise!Invoke, Phases, Phase, HasRun

\* The adapter that calls the implementation runs the call.
LEMMA RunStep ==
    ASSUME CallsInv, NEW x \in Calls, at[x] = "queue",
           ran' = [ran EXCEPT ![x] = @ + 1],
           UNCHANGED <<call, outcome, got>>
    PROVE  Promise!Run(x)
<1>1. ran[x] = 0 /\ call[x] # "new"
    BY DEF CallsInv, MessagesInOrder
<1>2. x \notin HasRun /\ HasRun' = HasRun \cup {x}
    BY <1>1 DEF HasRun, CallsInv, TypeOK
<1>3. Phases[x] # "new"
    BY <1>1 DEF Phases, Phase, CallsInv, ResultsInHand, TypeOK
<1>4. UNCHANGED <<Phases, got>>
    BY DEF Phases, Phase
<1>. QED
    BY <1>2, <1>3, <1>4 DEF Promise!Run, Phases, Phase, HasRun

\* A method that reads its results succeeds or fails the call.
LEMMA ReadStep ==
    ASSUME CallsInv, NEW x \in Calls, MethodReads(x)
    PROVE  Promise!Succeed(x) \/ Promise!Fail(x)
<1>1. /\ call[x] = "resolved"
      /\ outcome[x] = "none"
      /\ call' = [call EXCEPT ![x] = "leaving"]
      /\ UNCHANGED <<ran, answer, msg>>
    BY DEF MethodReads, CallsInv, ResultsInHand, TypeOK, serverVars
<1>2. Phases[x] = "pending"
    BY <1>1 DEF Phases, Phase
<1>3. UNCHANGED HasRun
    BY <1>1 DEF HasRun
<1>4. CASE /\ answer[x] = "ok"
           /\ outcome' = [outcome EXCEPT ![x] = "ok"]
           /\ got' = [got EXCEPT ![x] = msg[x]]
    <2>1. Phases' = [Phases EXCEPT ![x] = "ok"]
        BY <1>1, <1>4 DEF Phases, Phase, CallsInv, TypeOK
    <2>2. msg[x] = x /\ ran[x] = 1
        BY <1>1, <1>4 DEF CallsInv, ResultsInHand, MessagesInOrder
    <2>3. x \in HasRun
        BY <2>2 DEF HasRun
    <2>. QED
        BY <1>2, <1>3, <1>4, <2>1, <2>2, <2>3
           DEF Promise!Succeed, Phases, Phase, HasRun
<1>5. CASE /\ outcome' = [outcome EXCEPT ![x] = "error"]
           /\ UNCHANGED got
    <2>1. Phases' = [Phases EXCEPT ![x] = "error"]
        BY <1>1, <1>5 DEF Phases, Phase, CallsInv, TypeOK
    <2>. QED
        BY <1>2, <1>3, <1>5, <2>1 DEF Promise!Fail, Phases, Phase, HasRun
<1>. QED
    BY <1>4, <1>5 DEF MethodReads, ReadResults

\* Every step of the wrapper is a step of UnaryCalls or invisible to it.
LEMMA StepSimulates ==
    ASSUME CallsInv, [Next]_vars
    PROVE  [Promise!Next]_<<Phases, HasRun, got>>
<1>. DEFINE Simulated == Promise!Next \/ UNCHANGED <<Phases, HasRun, got>>
<1>. USE DEF clientVars, callVars, serverVars, hostVars
<1>1. ASSUME NEW c \in Clients, Dial(c) PROVE Simulated
    BY <1>1, InvisibleStep DEF Dial
<1>2. ASSUME NEW c \in Clients, DialCtxEnds(c) PROVE Simulated
    BY <1>2, InvisibleStep DEF DialCtxEnds
<1>3. ASSUME NEW c \in Clients, CloseReleases(c) PROVE Simulated
    BY <1>3, InvisibleStep DEF CloseReleases
<1>4. ASSUME NEW c \in Clients, LinkFails(c) PROVE Simulated
    BY <1>4, InvisibleStep DEF LinkFails
<1>5. ASSUME NEW c \in Clients, NEW x \in Calls, CallMethod(c, x)
      PROVE  Simulated
    BY <1>5, InvokeStep DEF Promise!Next
<1>6. ASSUME NEW x \in Calls, CallCtxEnds(x) PROVE Simulated
    BY <1>6, InvisibleStep DEF CallCtxEnds
<1>7. ASSUME NEW x \in Calls, Lose(x) PROVE Simulated
    BY <1>7, InvisibleStep DEF Lose
<1>8. ASSUME NEW x \in Calls, FutureCancelled(x) PROVE Simulated
    <2>1. \A y \in Calls : call[y] = "new" <=> call'[y] = "new"
        BY <1>8 DEF FutureCancelled, Resolve, CallsInv, TypeOK
    <2>. QED
        BY <1>8, <2>1, InvisibleStep DEF FutureCancelled
<1>9. ASSUME NEW x \in Calls, FutureDisconnected(x) PROVE Simulated
    <2>1. \A y \in Calls : call[y] = "new" <=> call'[y] = "new"
        BY <1>9 DEF FutureDisconnected, Resolve, CallsInv, TypeOK
    <2>. QED
        BY <1>9, <2>1, InvisibleStep DEF FutureDisconnected
<1>10. ASSUME NEW x \in Calls, MethodReads(x) PROVE Simulated
    BY <1>10, ReadStep DEF Promise!Next
<1>11. ASSUME NEW x \in Calls, MethodReturns(x) PROVE Simulated
    <2>1. \A y \in Calls : call[y] = "new" <=> call'[y] = "new"
        BY <1>11 DEF MethodReturns, CallsInv, TypeOK
    <2>. QED
        BY <1>11, <2>1, InvisibleStep DEF MethodReturns
<1>12. ASSUME NEW x \in Calls, Deliver(x) PROVE Simulated
    BY <1>12, InvisibleStep DEF Deliver
<1>13. ASSUME NEW x \in Calls, AnswerArrives(x) PROVE Simulated
    <2>1. \A y \in Calls : call[y] = "new" <=> call'[y] = "new"
        BY <1>13 DEF AnswerArrives, TakeAnswer, Resolve, CallsInv, TypeOK
    <2>. QED
        BY <1>13, <2>1, InvisibleStep DEF AnswerArrives
<1>14. ASSUME NEW x \in Calls, AdapterCalls(x) PROVE Simulated
    <2>1. CASE ran' = [ran EXCEPT ![x] = @ + 1]
        <3>1. Promise!Run(x)
            BY <1>14, <2>1, RunStep DEF AdapterCalls
        <3>. QED
            BY <3>1 DEF Promise!Next
    <2>2. CASE UNCHANGED ran
        BY <1>14, <2>2, InvisibleStep DEF AdapterCalls
    <2>. QED
        BY <1>14, <2>1, <2>2 DEF AdapterCalls
<1>15. ASSUME NEW x \in Calls, AdapterRefuses(x) PROVE Simulated
    BY <1>15, InvisibleStep DEF AdapterRefuses
<1>16. ASSUME NEW x \in Calls, ImplReturns(x) PROVE Simulated
    BY <1>16, InvisibleStep DEF ImplReturns
<1>17. ASSUME NEW x \in Calls, ImplReturnsNil(x) PROVE Simulated
    BY <1>17, InvisibleStep DEF ImplReturnsNil
<1>18. ASSUME NEW c \in Clients, CloseCloses(c) PROVE Simulated
    BY <1>18, InvisibleStep DEF CloseCloses
<1>19. ASSUME NEW c \in Clients, BootAnswered(c) PROVE Simulated
    BY <1>19, InvisibleStep DEF BootAnswered
<1>20. CASE UNCHANGED vars
    BY <1>20, InvisibleStep DEF vars
<1>21. ASSUME NEW c \in Clients, TakenUp(c) PROVE Simulated
    BY <1>21, InvisibleStep DEF TakenUp
<1>22. ASSUME NEW c \in Clients, SessionEnds(c) PROVE Simulated
    BY <1>22, InvisibleStep DEF SessionEnds
<1>23. ASSUME NEW c \in Clients, HangUp(c) PROVE Simulated
    BY <1>23, InvisibleStep DEF HangUp
<1>24. CASE ServerDies
    BY <1>24, InvisibleStep DEF ServerDies
<1>. QED
    BY <1>1, <1>2, <1>3, <1>4, <1>5, <1>6, <1>7, <1>8, <1>9, <1>10, <1>11,
       <1>12, <1>13, <1>14, <1>15, <1>16, <1>17, <1>18, <1>19, <1>20, <1>21, <1>22,
       <1>23, <1>24
       DEF Next, Environment, Method, Transport, Adapter, Impl

\* The generated wrapper implements calls that run at most once and return once,
\* with the response of their own run or an error.
THEOREM WrapperImplementsUnaryCalls == Spec => ImplementsUnaryCalls
<1>1. Init => Promise!Init
    BY DEF Init, Promise!Init
<1>2. CallsInv /\ [Next]_vars => [Promise!Next]_(Promise!uvars)
    BY StepSimulates DEF Promise!uvars, Phases, Phase, HasRun
<1>. QED
    BY <1>1, <1>2, CallsInvariant, PTL
       DEF Spec, ImplementsUnaryCalls, Promise!Spec

\* A method that returns a response returns that of its own, single run.
THEOREM ResponsesAreOwn == Spec => []OwnResponse
<1>1. CallsInv => OwnResponse
    BY DEF CallsInv, MessagesInOrder, ResultsInHand, OwnResponse
<1>. QED
    BY <1>1, CallsInvariant, PTL

\* The variables keep their types, and no call is run twice.
THEOREM CallsTypeCorrect == Spec => []TypeOK
BY CallsInvariant, PTL DEF CallsInv

-----------------------------------------------------------------------------
(* Release, and the reasons of errors.                                       *)

\* A method that has returned holds no message, however late its answer comes:
\* only a method that waits takes one up (calculator.capwrap.go:123, 144).
THEOREM AllResultsReleased == Spec => []ResultsReleased
<1>1. Init => ResultsReleased
    BY DEF Init, ResultsReleased
<1>2. ASSUME TypeOK, ResultsReleased, [Next]_vars PROVE ResultsReleased'
    <2>. USE <1>2 DEF TypeOK, ResultsReleased, clientVars, callVars, serverVars
    <2>1. ASSUME UNCHANGED <<call, msg>> PROVE ResultsReleased'
        BY <2>1
    <2>2. ASSUME NEW c \in Clients, NEW x \in Calls, CallMethod(c, x)
          PROVE  ResultsReleased'
        BY <2>2 DEF CallMethod, Resolve
    <2>3. ASSUME NEW x \in Calls, Method(x) PROVE ResultsReleased'
        BY <2>3 DEF Method, FutureCancelled, FutureDisconnected, Resolve,
            MethodReads, MethodReturns, Release
    <2>4. ASSUME NEW x \in Calls, AnswerArrives(x) PROVE ResultsReleased'
        BY <2>4 DEF AnswerArrives, TakeAnswer, Resolve
    <2>. QED
        BY <2>1, <2>2, <2>3, <2>4 DEF Next, Environment, Transport, Adapter, Impl,
            vars, Dial, DialCtxEnds, CloseReleases, LinkFails, CallCtxEnds, Lose,
            SessionEnds, ServerDies, Deliver, AdapterCalls, AdapterRefuses,
            ImplReturns, ImplReturnsNil, CloseCloses, BootAnswered, TakenUp, HangUp
<1>. QED
    BY <1>1, <1>2, CallsTypeCorrect, PTL DEF Spec

\* The reasons ErrorsExplained names.
Reason(x) ==
    \/ ctxEnded[x]
    \/ client[owner[x]] # "open"
    \/ link[owner[x]] = "down"
    \/ boot[owner[x]] = "broken"
    \/ x \in Misfits
    \/ sent[x] = "error"

\* A call is made on a client that was dialled; and what its future was rejected
\* with has a reason already, before its method returns it.
Explained ==
    /\ \A c \in Clients : client[c] = "none" <=> link[c] = "none"
    /\ \A c \in Clients : client[c] = "none" <=> boot[c] = "none"
    /\ \A x \in Calls :
          call[x] # "new" => owner[x] \in Clients /\ client[owner[x]] # "none"
    /\ \A x \in Calls : answer[x] = "error" \/ outcome[x] = "error" => Reason(x)

\* A step that leaves the calls' futures and outcomes alone keeps them explained
\* if it takes no client back to where it was before.
LEMMA ReasonsKept ==
    ASSUME CallsInv, Explained,
           UNCHANGED <<call, owner, answer, outcome>>,
           \A x \in Calls : ctxEnded[x] => ctxEnded'[x],
           \A x \in Calls : sent[x] = "error" => sent'[x] = "error",
           \A c \in Clients :
              /\ client'[c] = "none" <=> link'[c] = "none"
              /\ client'[c] = "none" <=> boot'[c] = "none"
              /\ client[c] # "none" => client'[c] # "none"
              /\ client[c] \notin {"none", "open"} => client'[c] # "open"
              /\ link[c] = "down" => link'[c] = "down"
              /\ boot[c] = "broken" => boot'[c] = "broken"
    PROVE  Explained'
<1>1. ASSUME NEW x \in Calls, call[x] # "new", Reason(x) PROVE Reason(x)'
    BY <1>1 DEF Explained, Reason
<1>2. \A x \in Calls : call[x] = "new" => answer[x] = "none" /\ outcome[x] # "error"
    BY DEF CallsInv, TypeOK, MessagesInOrder, ResultsInHand
<1>. QED
    BY <1>1, <1>2 DEF Explained

\* No step fails a method without a reason, or takes the reason away.
LEMMA ExplainedKept ==
    ASSUME CallsInv, Explained, [Next]_vars
    PROVE  Explained'
<1>. USE DEF CallsInv, TypeOK, clientVars, callVars, serverVars, hostVars
<1>1. ASSUME NEW c \in Clients,
             \/ Dial(c) \/ DialCtxEnds(c) \/ CloseReleases(c) \/ LinkFails(c)
             \/ CloseCloses(c) \/ BootAnswered(c) \/ TakenUp(c) \/ SessionEnds(c)
             \/ HangUp(c)
      PROVE  Explained'
    <2>. USE DEF Explained
    <2>1. CASE Dial(c)
        BY <2>1, ReasonsKept DEF Dial
    <2>2. CASE DialCtxEnds(c) \/ BootAnswered(c)
        BY <2>2, ReasonsKept DEF DialCtxEnds, BootAnswered
    <2>3. CASE CloseReleases(c)
        BY <2>3, ReasonsKept DEF CloseReleases
    <2>4. CASE CloseCloses(c)
        BY <2>4, ReasonsKept DEF CloseCloses, DropConn
    <2>5. CASE LinkFails(c) \/ HangUp(c)
        BY <2>5, ReasonsKept DEF LinkFails, HangUp
    <2>6. CASE TakenUp(c) \/ SessionEnds(c)
        BY <2>6, ReasonsKept DEF TakenUp, SessionEnds
    <2>. QED
        BY <1>1, <2>1, <2>2, <2>3, <2>4, <2>5, <2>6
<1>2. ASSUME NEW c \in Clients, NEW x \in Calls, CallMethod(c, x) PROVE Explained'
    <2>1. call'[x] # "new" /\ owner'[x] = c /\ client'[c] # "none"
        BY <1>2 DEF CallMethod, Resolve
    <2>2. answer'[x] = "error" => Reason(x)'
        BY <1>2 DEF CallMethod, Resolve, Usable, Explained, Reason,
            MessagesInOrder
    <2>3. outcome'[x] = outcome[x] /\ outcome[x] = "none"
        BY <1>2 DEF CallMethod, ResultsInHand
    <2>4. ASSUME NEW y \in Calls, y # x
          PROVE  /\ call'[y] = call[y] /\ owner'[y] = owner[y]
                 /\ answer'[y] = answer[y] /\ outcome'[y] = outcome[y]
        BY <1>2, <2>4 DEF CallMethod, Resolve
    <2>5. UNCHANGED <<clientVars, ctxEnded, sent>>
        BY <1>2 DEF CallMethod
    <2>. QED
        BY <2>1, <2>2, <2>3, <2>4, <2>5 DEF Explained, Reason
<1>3. ASSUME NEW x \in Calls, FutureCancelled(x) \/ FutureDisconnected(x)
      PROVE  Explained'
    BY <1>3 DEF FutureCancelled, CtxRejects, FutureDisconnected, Resolve,
        Explained, Reason
<1>4. ASSUME NEW x \in Calls, AnswerArrives(x) PROVE Explained'
    BY <1>4 DEF AnswerArrives, TakeAnswer, Resolve, Explained, Reason
<1>5. ASSUME NEW x \in Calls, MethodReads(x) PROVE Explained'
    BY <1>5 DEF MethodReads, ReadResults, Explained, Reason, ResultsInHand
<1>6. ASSUME NEW x \in Calls, MethodReturns(x) PROVE Explained'
    BY <1>6 DEF MethodReturns, Release, Explained, Reason
<1>7. ASSUME NEW x \in Calls, CallCtxEnds(x) \/ Lose(x) \/ Deliver(x)
      PROVE  Explained'
    BY <1>7, ReasonsKept DEF CallCtxEnds, Lose, Deliver, Explained
<1>8. ASSUME NEW x \in Calls, AdapterCalls(x) \/ AdapterRefuses(x) \/ ImplReturns(x)
      PROVE  Explained'
    <2>1. sent[x] = "none"
        BY <1>8 DEF AdapterCalls, AdapterRefuses, ImplReturns, MessagesInOrder
    <2>2. \A y \in Calls : sent[y] = "error" => sent'[y] = "error"
        BY <1>8, <2>1 DEF AdapterCalls, AdapterRefuses, StubAnswer, ImplReturns,
            Reply
    <2>. QED
        BY <1>8, <2>2, ReasonsKept DEF AdapterCalls, AdapterRefuses, ImplReturns,
            Explained
<1>9. ASSUME (\E x \in Calls : ImplReturnsNil(x)) \/ ServerDies PROVE Explained'
    <2>1. \A y \in Calls : sent[y] = "error" => sent'[y] = "error"
        BY <1>9 DEF ImplReturnsNil, ServerDies, MessagesInOrder
    <2>. QED
        BY <1>9, <2>1, ReasonsKept DEF ImplReturnsNil, ServerDies, Crash, Explained
<1>10. CASE UNCHANGED vars
    BY <1>10, ReasonsKept DEF vars, Explained
<1>. QED
    BY <1>1, <1>2, <1>3, <1>4, <1>5, <1>6, <1>7, <1>8, <1>9, <1>10
       DEF Next, Environment, Method, Transport, Adapter, Impl

\* What is explained stays so, in every state.
THEOREM AllExplained == Spec => []Explained
<1>1. Init => Explained
    BY DEF Init, Explained
<1>2. CallsInv /\ Explained /\ [Next]_vars => Explained'
    BY ExplainedKept
<1>. QED
    BY <1>1, <1>2, CallsInvariant, PTL DEF Spec

\* For any clients and calls, a method fails only because of its own context, its
\* own client, the loss of its client's connection, its own fields, or an error
\* the server answered with: another client's Close or another call's context
\* is no reason. What loses a connection is the network, the end of its session,
\* or the death of the server, which a nil response to any call brings upon all.
THEOREM FailuresHaveReasons == Spec => []ErrorsExplained
<1>1. Explained => ErrorsExplained
    BY DEF Explained, Reason, ErrorsExplained
<1>. QED
    BY <1>1, AllExplained, PTL

=============================================================================
