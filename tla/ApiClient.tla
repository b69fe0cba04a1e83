------------------------------ MODULE ApiClient ------------------------------
(***************************************************************************)
(* CocktailApiClient (client.py): the HTTP client all tools share.  It     *)
(* logs in before its first request, logs in again on a 401 and repeats    *)
(* the request, and retries idempotent requests on network failures and on *)
(* statuses from 500 on.                                                   *)
(*                                                                         *)
(* The tools are plain functions that FastMCP calls on its event loop, and *)
(* the client blocks, so calls follow one another: "current" is the only   *)
(* call in progress.  The backend and the network run beside it: the       *)
(* session may expire at any moment, a reply may be lost, and a request    *)
(* the client has given up on may still be executed (an orphan).           *)
(*                                                                         *)
(* Abstracted: paths, parameters and bodies; a reply is the class of its   *)
(* status that request() tells apart; the backoff sleeps take no step, and *)
(* a redirect that httpx follows is part of its exchange.                  *)
(***************************************************************************)
EXTENDS Integers

CONSTANTS
    Calls,            \* the calls of request(), each made at most once
    IdempotentCalls,  \* those made with idempotent=True (reads and dry runs)
    MaxRetries,       \* the setting COCKTAIL_API_MAX_RETRIES, any integer
    NoCall            \* no call is in progress

ASSUME CallsAssumption == IdempotentCalls \subseteq Calls /\ NoCall \notin Calls
ASSUME RetriesAssumption == MaxRetries \in Int

VARIABLES
    authenticated,  \* the client's _authenticated flag
    cookieValid,    \* the backend honours the session cookie the client holds
    current,        \* the call in progress, or NoCall
    stage,          \* where that call is
    attempt,        \* its loop counter, 0 when no call is in progress
    wire,           \* its exchange: "none", "request" or the status of the reply
    outcome,        \* the outcome each call has returned, "none" before
    executed,       \* how often the backend has executed each call
    orphans,        \* copies of each call that the client gave up on and the
                    \* backend may still execute
    sent            \* history: requests sent for each call, counted up to one
                    \* more than RetryBudget allows

clientVars == <<authenticated, current, stage, attempt>>
vars == <<authenticated, cookieValid, current, stage, attempt, wire,
          outcome, executed, orphans, sent>>

Contract == INSTANCE CallContract

Applies == Calls \ IdempotentCalls
Statuses == {"ok", "unauthorized", "not_found", "rejected", "failed"}
Stages == {"idle", "login", "send", "await", "relogin", "resend", "reawait"}
Awaiting == {"await", "reawait"}

\* Mutant: idempotent is not looked at, so applies are retried too.
AttemptsForAll(c) == IF MaxRetries < 1 THEN 1 ELSE MaxRetries

Attempts(c) ==
    IF c \notin IdempotentCalls \/ MaxRetries < 1 THEN 1 ELSE MaxRetries

\* Each attempt repeats its request at most once, after a 401.
Budget(c) == 2 * Attempts(c)

TypeOK ==
    /\ authenticated \in BOOLEAN
    /\ cookieValid \in BOOLEAN
    /\ current \in Calls \cup {NoCall}
    /\ stage \in Stages
    /\ attempt \in Nat
    /\ wire \in {"none", "request"} \cup Statuses
    /\ outcome \in [Calls -> {"none"} \cup Contract!Outcomes]
    /\ executed \in [Calls -> Nat]
    /\ orphans \in [Calls -> Nat]
    /\ sent \in [Calls -> Nat]

Init ==
    /\ authenticated = FALSE
    /\ cookieValid = FALSE
    /\ current = NoCall
    /\ stage = "idle"
    /\ attempt = 0
    /\ wire = "none"
    /\ outcome = [c \in Calls |-> "none"]
    /\ executed = [c \in Calls |-> 0]
    /\ orphans = [c \in Calls |-> 0]
    /\ sent = [c \in Calls |-> 0]

-----------------------------------------------------------------------------
(* The client.                                                             *)

Begin(c) ==
    /\ stage = "idle"
    /\ outcome[c] = "none"
    /\ current' = c
    /\ attempt' = 1
    /\ stage' = IF authenticated THEN "send" ELSE "login"
    /\ UNCHANGED <<authenticated, cookieValid, wire, outcome, executed, orphans, sent>>

\* The call returns its result or raises.
Finish(o) ==
    /\ outcome' = [outcome EXCEPT ![current] = o]
    /\ current' = NoCall
    /\ stage' = "idle"
    /\ attempt' = 0
    /\ wire' = "none"

LoginAccepted ==
    /\ stage \in {"login", "relogin"}
    /\ authenticated' = TRUE
    /\ cookieValid' = TRUE
    /\ stage' = IF stage = "login" THEN "send" ELSE "resend"
    /\ UNCHANGED <<current, attempt, wire, outcome, executed, orphans, sent>>

\* The login is answered with a status from 400 on, or not at all: login()
\* does not catch httpx's exceptions, and request() calls it outside its try.
LoginFails ==
    /\ stage \in {"login", "relogin"}
    /\ \E o \in {"auth_failed", "transport_error"} : Finish(o)
    /\ UNCHANGED <<authenticated, cookieValid, executed, orphans, sent>>

Send ==
    /\ stage \in {"send", "resend"}
    /\ stage' = IF stage = "send" THEN "await" ELSE "reawait"
    /\ wire' = "request"
    /\ sent' = [sent EXCEPT ![current] = IF @ > Budget(current) THEN @ ELSE @ + 1]
    /\ UNCHANGED <<authenticated, cookieValid, current, attempt, outcome, executed, orphans>>

\* Mutant: the loop counter is not advanced.
NextAttemptUncounted ==
    /\ attempt < Attempts(current)
    /\ stage' = "send"
    /\ wire' = "none"
    /\ UNCHANGED <<current, outcome, attempt>>

\* The next iteration of the retry loop.
NextAttempt ==
    /\ attempt < Attempts(current)
    /\ attempt' = attempt + 1
    /\ stage' = "send"
    /\ wire' = "none"
    /\ UNCHANGED <<current, outcome>>

ReceiveOk ==
    /\ stage \in Awaiting
    /\ wire = "ok"
    /\ Finish("ok")
    /\ UNCHANGED <<authenticated, cookieValid, executed, orphans, sent>>

\* Mutant: "while" for "if" at the 401.
ReceiveUnauthorizedAgain ==
    /\ stage \in Awaiting
    /\ wire = "unauthorized"
    /\ stage' = "relogin"
    /\ wire' = "none"
    /\ UNCHANGED <<authenticated, cookieValid, current, attempt, outcome, executed, orphans, sent>>

ReceiveUnauthorized ==
    /\ stage = "await"
    /\ wire = "unauthorized"
    /\ stage' = "relogin"
    /\ wire' = "none"
    /\ UNCHANGED <<authenticated, cookieValid, current, attempt, outcome, executed, orphans, sent>>

ReceiveNotFound ==
    /\ stage \in Awaiting
    /\ wire = "not_found"
    /\ Finish("not_implemented")
    /\ UNCHANGED <<authenticated, cookieValid, executed, orphans, sent>>

\* Mutant: the status is not looked at again after the request was repeated.
ReceiveClientErrorUnseen ==
    /\ stage \in Awaiting
    /\ wire \in {"rejected", "unauthorized"}
    /\ stage = "reawait" \/ wire = "rejected"
    /\ Finish(IF stage = "reawait" THEN "ok" ELSE "client_error")
    /\ UNCHANGED <<authenticated, cookieValid, executed, orphans, sent>>

\* A status from 400 to 499 other than 404; a 401 only when the request was
\* repeated after a login.
ReceiveClientError ==
    /\ stage \in Awaiting
    /\ \/ wire = "rejected"
       \/ wire = "unauthorized" /\ stage = "reawait"
    /\ Finish("client_error")
    /\ UNCHANGED <<authenticated, cookieValid, executed, orphans, sent>>

\* Mutant: the last attempt falls off the end of the loop as well.
ReceiveServerErrorUnraised ==
    /\ stage \in Awaiting
    /\ wire = "failed"
    /\ \/ NextAttempt
       \/ attempt = Attempts(current) /\ Finish("unknown_error")
    /\ UNCHANGED <<authenticated, cookieValid, executed, orphans, sent>>

ReceiveServerError ==
    /\ stage \in Awaiting
    /\ wire = "failed"
    /\ \/ NextAttempt
       \/ attempt = Attempts(current) /\ Finish("server_error")
    /\ UNCHANGED <<authenticated, cookieValid, executed, orphans, sent>>

\* What becomes of a request without an answer: the backend may have it, and
\* execute it later, or never get it.
Abandon ==
    \/ UNCHANGED orphans
    \/ wire = "request" /\ orphans' = [orphans EXCEPT ![current] = @ + 1]

\* Mutant: a broken connection is taken for a lost session.
NetworkFailureLogsIn ==
    /\ stage = "await"
    /\ stage' = "relogin"
    /\ wire' = "none"
    /\ Abandon
    /\ UNCHANGED <<authenticated, cookieValid, current, attempt, outcome, executed, sent>>

\* httpx raises TimeoutException or NetworkError, which the first send of an
\* attempt catches.
NetworkFailure ==
    /\ stage = "await"
    /\ \/ NextAttempt
       \/ attempt = Attempts(current) /\ Finish("network_error")
    /\ Abandon
    /\ UNCHANGED <<authenticated, cookieValid, executed, sent>>

\* Any httpx exception while the repeated request is out, and any other than
\* the two above before that (a connection closed without a reply is a
\* RemoteProtocolError), leaves request() as it is.
TransportFailure ==
    /\ stage \in Awaiting
    /\ Finish("transport_error")
    /\ Abandon
    /\ UNCHANGED <<authenticated, cookieValid, executed, sent>>

\* The process stops and is started again: a new client, an empty cookie jar.
Restart ==
    /\ IF current = NoCall
         THEN UNCHANGED <<current, stage, attempt, wire, outcome, orphans>>
         ELSE Finish("crashed") /\ Abandon
    /\ authenticated' = FALSE
    /\ cookieValid' = FALSE
    /\ UNCHANGED <<executed, sent>>

-----------------------------------------------------------------------------
(* The backend and its session, as the client meets them.                  *)

SessionExpires ==
    /\ cookieValid
    /\ cookieValid' = FALSE
    /\ UNCHANGED <<clientVars, wire, outcome, executed, orphans, sent>>

\* Without a session the backend answers 401 and does nothing.
Refuse ==
    /\ wire = "request"
    /\ ~cookieValid
    /\ wire' = "unauthorized"
    /\ UNCHANGED <<clientVars, cookieValid, outcome, executed, orphans, sent>>

\* It executes the request, and its answer may yet be a status from 500 on.
Perform ==
    /\ wire = "request"
    /\ cookieValid
    /\ wire' \in {"ok", "failed"}
    /\ executed' = [executed EXCEPT ![current] = @ + 1]
    /\ UNCHANGED <<clientVars, cookieValid, outcome, orphans, sent>>

Decline ==
    /\ wire = "request"
    /\ cookieValid
    /\ wire' \in {"not_found", "rejected", "failed"}
    /\ UNCHANGED <<clientVars, cookieValid, outcome, executed, orphans, sent>>

\* A request the client gave up on reaches the backend after all; nobody
\* reads the answer.
PerformOrphan(c) ==
    /\ orphans[c] > 0
    /\ orphans' = [orphans EXCEPT ![c] = @ - 1]
    /\ executed' = [executed EXCEPT ![c] = @ + 1]
    /\ UNCHANGED <<clientVars, cookieValid, wire, outcome, sent>>

-----------------------------------------------------------------------------

Client ==
    \/ LoginAccepted \/ LoginFails \/ Send
    \/ ReceiveOk \/ ReceiveUnauthorized \/ ReceiveNotFound
    \/ ReceiveClientError \/ ReceiveServerError
    \/ NetworkFailure \/ TransportFailure

Environment ==
    \/ Restart \/ SessionExpires \/ Refuse \/ Perform \/ Decline
    \/ \E c \in Calls : PerformOrphan(c)

Next ==
    \/ \E c \in Calls : Begin(c)
    \/ Client
    \/ Environment

\* The client goes on with the call it is in: httpx's timeout ends every wait.
Spec == Init /\ [][Next]_vars /\ WF_vars(Client)

-----------------------------------------------------------------------------
(* Correctness.                                                            *)

\* A call with idempotent=False has at most one effect at the backend, through
\* logins, the repetition after a 401, timeouts whose request arrives late,
\* and restarts (README.md, "No blind retries for non-idempotent apply calls").
AppliedAtMostOnce == \A c \in Applies : executed[c] <= 1

\* When an apply fails with a refused login, a 404 or another status below
\* 500, the backend has not executed it and no copy of it is left that could
\* be executed later: the caller may safely try again.
NoEffectFailuresAreFinal ==
    \A c \in Applies :
        outcome[c] \in Contract!NoEffectOutcomes => executed[c] = 0 /\ orphans[c] = 0

\* A call costs the backend at most two requests for each attempt that the
\* settings allow (COCKTAIL_API_MAX_RETRIES), two in all for an apply.
RetryBudget == \A c \in Calls : sent[c] <= Budget(c)

\* The steps that the call in progress has left: at most six in each attempt.
Remaining ==
    LET left == [idle |-> 0, reawait |-> 1, resend |-> 2, relogin |-> 3,
                 await |-> 4, send |-> 5, login |-> 6]
    IN  IF current = NoCall THEN 0
        ELSE 6 * (Attempts(current) - attempt) + left[stage]

\* Whatever request() does with a reply, a failure or a login brings the call nearer
\* to its end, and nothing that the backend or the network does takes it back: a
\* call takes at most six steps for each attempt the settings allow.
EveryStepCounts ==
    [][current # NoCall /\ clientVars' # clientVars => Remaining' < Remaining]_vars

\* request() relates outcomes to effects as CallContract says.
ImplementsContract == Contract!Spec

\* Every call returns: the retry loop, the login it may repeat and the second
\* send cannot go on for ever, whatever the backend answers.
CallsReturn == stage # "idle" ~> stage = "idle"

\* A read or a dry run gives up on an unanswered request only when its attempts
\* are used up (README.md, "Safe retries for idempotent calls").  The request
\* repeated after a 401 is sent outside the try block, so this fails.
LostRepliesAreRetried ==
    [][\A c \in IdempotentCalls :
          stage \in Awaiting /\ current = c /\ outcome'[c] = "transport_error"
              => stage = "await" \/ attempt = Attempts(c)]_vars

=============================================================================
