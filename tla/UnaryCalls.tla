------------------------------ MODULE UnaryCalls ------------------------------
(***************************************************************************)
(* What a typed client promises of its methods: a call is an ordinary      *)
(* function call that returns a response or an error, once. The remote     *)
(* implementation runs at most once per call; it has run before its        *)
(* response is returned, and it may run although an error is returned.     *)
(***************************************************************************)
CONSTANTS Calls, NoCall

VARIABLES
    phase,   \* of each call: "new", "pending", "ok" or "error"
    ran,     \* the calls the implementation has been run for
    result   \* of each call, the call whose response it returned, or NoCall

uvars == <<phase, ran, result>>

Init ==
    /\ phase = [x \in Calls |-> "new"]
    /\ ran = {}
    /\ result = [x \in Calls |-> NoCall]

Invoke(x) ==
    /\ phase[x] = "new"
    /\ phase' = [phase EXCEPT ![x] = "pending"]
    /\ UNCHANGED <<ran, result>>

\* Possibly after the caller has given up.
Run(x) ==
    /\ phase[x] # "new"
    /\ x \notin ran
    /\ ran' = ran \cup {x}
    /\ UNCHANGED <<phase, result>>

Succeed(x) ==
    /\ phase[x] = "pending"
    /\ x \in ran
    /\ phase' = [phase EXCEPT ![x] = "ok"]
    /\ result' = [result EXCEPT ![x] = x]
    /\ UNCHANGED ran

Fail(x) ==
    /\ phase[x] = "pending"
    /\ phase' = [phase EXCEPT ![x] = "error"]
    /\ UNCHANGED <<ran, result>>

Next == \E x \in Calls : Invoke(x) \/ Run(x) \/ Succeed(x) \/ Fail(x)

Spec == Init /\ [][Next]_uvars

=============================================================================
