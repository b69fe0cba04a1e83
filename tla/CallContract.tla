---------------------------- MODULE CallContract ----------------------------
(***************************************************************************)
(* What CocktailApiClient.request (client.py) promises the service layer:  *)
(* how the outcome a caller sees is related to what the cocktail backend   *)
(* has done for the call.  It says nothing of logins, attempts or timeouts *)
(* and is the abstract specification that ApiClient is shown to implement. *)
(***************************************************************************)
EXTENDS Integers

CONSTANTS
    Calls,            \* the calls of request(), each made at most once
    IdempotentCalls   \* those made with idempotent=True (reads and dry runs)

VARIABLES
    outcome,   \* the outcome a call has returned, "none" before it returns
    executed   \* how many times the backend has executed the call

vars == <<outcome, executed>>

\* The calls made with idempotent=False: they change the backend.
Applies == Calls \ IdempotentCalls

\* Failures that tell the caller that the backend did not do what was asked:
\* the login was refused, or the reply had a status from 400 to 499.
NoEffectOutcomes == {"auth_failed", "not_implemented", "client_error"}

\* The others leave it open: a status from 500 on, no reply at all, or the
\* end of the process.
UnclearOutcomes == {"server_error", "network_error", "transport_error", "crashed"}

Outcomes == {"ok"} \cup NoEffectOutcomes \cup UnclearOutcomes

Init ==
    /\ outcome = [c \in Calls |-> "none"]
    /\ executed = [c \in Calls |-> 0]

\* The backend executes a call.  An apply is executed once at most, and never
\* after the caller was told that it had no effect.  It may still be executed
\* after the caller has seen a timeout.
Execute(c) ==
    /\ c \in Applies => executed[c] = 0 /\ outcome[c] \notin NoEffectOutcomes
    /\ executed' = [executed EXCEPT ![c] = @ + 1]
    /\ UNCHANGED outcome

\* A call returns.  Success means that the backend has executed it; a failure
\* without effect means that the backend has not executed the apply.
Return(c, o) ==
    /\ outcome[c] = "none"
    /\ o = "ok" => executed[c] > 0
    /\ c \in Applies /\ o \in NoEffectOutcomes => executed[c] = 0
    /\ outcome' = [outcome EXCEPT ![c] = o]
    /\ UNCHANGED executed

Next ==
    \E c \in Calls :
        \/ Execute(c)
        \/ \E o \in Outcomes : Return(c, o)

Spec == Init /\ [][Next]_vars

=============================================================================
