--------------------------- MODULE ApiClientProofs ---------------------------
(***************************************************************************)
(* The safety of ApiClient for every set of calls and every setting of     *)
(* COCKTAIL_API_MAX_RETRIES.  IInv is the inductive invariant: it accounts *)
(* for every copy of an apply (executed, orphaned or on the wire) and for  *)
(* every request of a call against the attempts it has begun.              *)
(***************************************************************************)
EXTENDS ApiClient, TLAPS

BeforeReply == {"login", "send", "relogin", "resend"}
NoEffectReplies == {"unauthorized", "not_found", "rejected"}

\* The call in progress is the one the stage says it is.
Progress ==
    /\ stage = "idle" <=> current = NoCall
    /\ current # NoCall => /\ outcome[current] = "none"
                           /\ attempt \in 1..Attempts(current)
    /\ wire # "none" => stage \in Awaiting

\* At most one copy of an apply is executed, orphaned or on the wire.
OneCopy ==
    \A c \in Applies :
        executed[c] + orphans[c]
            + (IF c = current /\ wire = "request" THEN 1 ELSE 0) <= 1

\* An apply that waits for a login or is about to be sent, one that was refused
\* and one that was never begun or failed without effect leave no trace.
NoTrace ==
    \A c \in Applies :
        \/ c = current /\ (stage \in BeforeReply \/ wire \in NoEffectReplies)
        \/ c # current /\ outcome[c] \in {"none"} \cup Contract!NoEffectOutcomes
        => executed[c] = 0 /\ orphans[c] = 0

\* What a reply says of the backend: "ok" comes from an executed request.
Truthful == wire = "ok" => executed[current] > 0

\* The requests of a call: two for each attempt before the present one, and in
\* the present one what its stage says.
SentInStage(s) ==
    IF s \in {"login", "send"} THEN 0
    ELSE IF s = "reawait" THEN 2 ELSE 1

RequestsCounted ==
    \A c \in Calls :
        IF c = current THEN sent[c] <= 2 * (attempt - 1) + SentInStage(stage)
        ELSE IF outcome[c] = "none" THEN sent[c] = 0 ELSE sent[c] <= Budget(c)

IInv == TypeOK /\ Progress /\ OneCopy /\ NoTrace /\ Truthful /\ RequestsCounted

USE DEF Applies, Statuses, Stages, Awaiting, clientVars

-----------------------------------------------------------------------------

\* Every call is allowed an attempt, an apply exactly one.
LEMMA AttemptsPositive ==
    ASSUME NEW c \in Calls
    PROVE  /\ Attempts(c) \in Nat /\ Attempts(c) >= 1
           /\ c \in Applies => Attempts(c) = 1
           /\ Budget(c) = 2 * Attempts(c)
  BY RetriesAssumption DEF Attempts, Budget

\* The values the outcome of a call can take.
LEMMA OutcomeValues ==
    Contract!Outcomes = {"ok", "auth_failed", "not_implemented", "client_error",
                         "server_error", "network_error", "transport_error", "crashed"}
  BY DEF Contract!Outcomes, Contract!NoEffectOutcomes, Contract!UnclearOutcomes

\* The initial states satisfy the invariant.
LEMMA InitInvariant == Init => IInv
<1> SUFFICES ASSUME Init PROVE IInv
  OBVIOUS
<1> USE CallsAssumption, OutcomeValues DEF Init
<1>1. TypeOK /\ Progress /\ Truthful
  BY DEF TypeOK, Progress, Truthful
<1>2. OneCopy /\ NoTrace
  BY DEF OneCopy, NoTrace
<1>3. RequestsCounted
  BY DEF RequestsCounted
<1> QED
  BY <1>1, <1>2, <1>3 DEF IInv

\* Types, and the tie between the call in progress and its stage.
LEMMA TypingStep == TypeOK /\ Progress /\ [Next]_vars => TypeOK' /\ Progress'
<1> SUFFICES ASSUME TypeOK, Progress, [Next]_vars
             PROVE  TypeOK' /\ Progress'
  OBVIOUS
<1> USE CallsAssumption, AttemptsPositive, OutcomeValues DEF TypeOK, Progress
<1>1. ASSUME NEW c \in Calls, Begin(c) PROVE TypeOK' /\ Progress'
  BY <1>1 DEF Begin
<1>2. CASE LoginAccepted
  BY <1>2 DEF LoginAccepted
<1>3. CASE LoginFails
  BY <1>3 DEF LoginFails, Finish
<1>4. CASE Send
  BY <1>4 DEF Send
<1>5. CASE ReceiveOk
  BY <1>5 DEF ReceiveOk, Finish
<1>6. CASE ReceiveUnauthorized
  BY <1>6 DEF ReceiveUnauthorized
<1>7. CASE ReceiveNotFound
  BY <1>7 DEF ReceiveNotFound, Finish
<1>8. CASE ReceiveClientError
  BY <1>8 DEF ReceiveClientError, Finish
<1>9. CASE ReceiveServerError
  BY <1>9 DEF ReceiveServerError, Finish, NextAttempt
<1>10. CASE NetworkFailure
  BY <1>10 DEF NetworkFailure, Finish, NextAttempt, Abandon
<1>11. CASE TransportFailure
  BY <1>11 DEF TransportFailure, Finish, Abandon
<1>12. CASE Restart
  <2>1. CASE current = NoCall
    BY <1>12, <2>1 DEF Restart
  <2>2. CASE current # NoCall
    <3>1. Finish("crashed") /\ Abandon /\ UNCHANGED <<executed, sent>>
          /\ authenticated' = FALSE /\ cookieValid' = FALSE
      BY <1>12, <2>2 DEF Restart
    <3>2. orphans' \in [Calls -> Nat]
      BY <2>2, <3>1 DEF Abandon
    <3> QED
      BY <2>2, <3>1, <3>2 DEF Finish
  <2> QED
    BY <2>1, <2>2
<1>13. CASE SessionExpires \/ Refuse \/ Decline
  BY <1>13 DEF SessionExpires, Refuse, Decline
<1>14. CASE Perform
  BY <1>14 DEF Perform
<1>15. ASSUME NEW c \in Calls, PerformOrphan(c) PROVE TypeOK' /\ Progress'
  BY <1>15 DEF PerformOrphan
<1>16. CASE UNCHANGED vars
  BY <1>16 DEF vars
<1> QED
  BY <1>1, <1>2, <1>3, <1>4, <1>5, <1>6, <1>7, <1>8, <1>9, <1>10, <1>11, <1>12,
     <1>13, <1>14, <1>15, <1>16
  DEF Next, Client, Environment
-----------------------------------------------------------------------------

Copies == OneCopy /\ NoTrace /\ Truthful

\* No step makes a second copy of an apply, or leaves a trace of one that is
\* reported to have had no effect.
LEMMA CopiesStep ==
    TypeOK /\ Progress /\ Copies /\ [Next]_vars /\ TypeOK' => Copies'
<1> SUFFICES ASSUME TypeOK, Progress, Copies, [Next]_vars, TypeOK'
             PROVE  Copies'
  OBVIOUS
<1> USE CallsAssumption, OutcomeValues
<1> USE DEF TypeOK, Progress, Copies, OneCopy, NoTrace, Truthful, BeforeReply,
            NoEffectReplies, Contract!NoEffectOutcomes
<1>1. ASSUME NEW c \in Calls, Begin(c) PROVE Copies'
  BY <1>1 DEF Begin
<1>2. CASE LoginAccepted
  BY <1>2 DEF LoginAccepted
<1>3. CASE LoginFails
  BY <1>3 DEF LoginFails, Finish
<1>4. CASE Send
  BY <1>4 DEF Send
<1>5. CASE ReceiveOk
  BY <1>5 DEF ReceiveOk, Finish
<1>6. CASE ReceiveUnauthorized
  BY <1>6 DEF ReceiveUnauthorized
<1>7. CASE ReceiveNotFound
  BY <1>7 DEF ReceiveNotFound, Finish
<1>8. CASE ReceiveClientError
  BY <1>8 DEF ReceiveClientError, Finish
<1>9. CASE ReceiveServerError
  BY <1>9, AttemptsPositive DEF ReceiveServerError, Finish, NextAttempt
<1>10. CASE NetworkFailure
  BY <1>10, AttemptsPositive DEF NetworkFailure, Finish, NextAttempt, Abandon
<1>11. CASE TransportFailure
  BY <1>11 DEF TransportFailure, Finish, Abandon
<1>12. CASE Restart
  <2>1. CASE current = NoCall
    BY <1>12, <2>1 DEF Restart
  <2>2. CASE current # NoCall
    <3>1. Finish("crashed") /\ Abandon /\ UNCHANGED executed
      BY <1>12, <2>2 DEF Restart
    <3> QED
      BY <2>2, <3>1 DEF Finish, Abandon
  <2> QED
    BY <2>1, <2>2
<1>13. CASE SessionExpires \/ Refuse \/ Decline
  BY <1>13 DEF SessionExpires, Refuse, Decline
<1>14. CASE Perform
  BY <1>14 DEF Perform
<1>15. ASSUME NEW c \in Calls, PerformOrphan(c) PROVE Copies'
  BY <1>15 DEF PerformOrphan
<1>16. CASE UNCHANGED vars
  BY <1>16 DEF vars
<1> QED
  BY <1>1, <1>2, <1>3, <1>4, <1>5, <1>6, <1>7, <1>8, <1>9, <1>10, <1>11, <1>12,
     <1>13, <1>14, <1>15, <1>16
  DEF Next, Client, Environment

-----------------------------------------------------------------------------

\* The requests of a call never outrun the attempts it has begun.
LEMMA CountStep ==
    TypeOK /\ Progress /\ RequestsCounted /\ [Next]_vars => RequestsCounted'
<1> SUFFICES ASSUME TypeOK, Progress, RequestsCounted, [Next]_vars
             PROVE  RequestsCounted'
  OBVIOUS
<1> USE CallsAssumption, OutcomeValues, AttemptsPositive
<1> USE DEF TypeOK, Progress, RequestsCounted, SentInStage
<1>1. ASSUME NEW c \in Calls, Begin(c) PROVE RequestsCounted'
  BY <1>1 DEF Begin
<1>2. CASE LoginAccepted
  BY <1>2 DEF LoginAccepted
<1>3. ASSUME NEW o \in Contract!Outcomes, current # NoCall, Finish(o), UNCHANGED sent
      PROVE  RequestsCounted'
  BY <1>3 DEF Finish
<1>4. CASE Send
  BY <1>4 DEF Send
<1>5. ASSUME NextAttempt, stage \in Awaiting, UNCHANGED sent PROVE RequestsCounted'
  BY <1>5 DEF NextAttempt
<1>6. CASE LoginFails \/ ReceiveOk \/ ReceiveNotFound \/ ReceiveClientError
             \/ ReceiveServerError \/ NetworkFailure \/ TransportFailure
  BY <1>3, <1>5, <1>6
  DEF LoginFails, ReceiveOk, ReceiveNotFound, ReceiveClientError,
      ReceiveServerError, NetworkFailure, TransportFailure
<1>7. CASE ReceiveUnauthorized
  BY <1>7 DEF ReceiveUnauthorized
<1>8. CASE Restart
  BY <1>3, <1>8 DEF Restart
<1>9. CASE SessionExpires \/ Refuse \/ Perform \/ Decline
  BY <1>9 DEF SessionExpires, Refuse, Perform, Decline
<1>10. ASSUME NEW c \in Calls, PerformOrphan(c) PROVE RequestsCounted'
  BY <1>10 DEF PerformOrphan
<1>11. CASE UNCHANGED vars
  BY <1>11 DEF vars
<1> QED
  BY <1>1, <1>2, <1>4, <1>6, <1>7, <1>8, <1>9, <1>10, <1>11
  DEF Next, Client, Environment

-----------------------------------------------------------------------------

\* The invariant holds in every reachable state.
THEOREM Invariance == Spec => []IInv
<1>1. IInv /\ [Next]_vars => IInv'
  BY TypingStep, CopiesStep, CountStep DEF IInv, Copies
<1> QED
  BY InitInvariant, <1>1, PTL DEF Spec

\* Every variable keeps its type: in particular a call never returns the
\* "unknown_error" that stands after the retry loop.
THEOREM TypeCorrect == Spec => []TypeOK
<1>1. IInv => TypeOK
  BY DEF IInv
<1> QED
  BY Invariance, <1>1, PTL

\* An apply is executed at most once, whatever is lost, repeated or restarted.
THEOREM AppliesAtMostOnce == Spec => []AppliedAtMostOnce
<1>1. IInv => AppliedAtMostOnce
  <2> SUFFICES ASSUME IInv, NEW c \in Applies PROVE executed[c] <= 1
    BY DEF AppliedAtMostOnce
  <2>1. executed[c] \in Nat /\ orphans[c] \in Nat
    BY DEF IInv, TypeOK
  <2>2. executed[c] + orphans[c]
            + (IF c = current /\ wire = "request" THEN 1 ELSE 0) <= 1
    BY DEF IInv, OneCopy
  <2> QED
    BY <2>1, <2>2
<1> QED
  BY Invariance, <1>1, PTL

\* An apply that failed without effect has none, and never will.
THEOREM NoEffectIsFinal == Spec => []NoEffectFailuresAreFinal
<1>1. IInv => NoEffectFailuresAreFinal
  <2> SUFFICES ASSUME IInv, NEW c \in Applies, outcome[c] \in Contract!NoEffectOutcomes
               PROVE  executed[c] = 0 /\ orphans[c] = 0
    BY DEF NoEffectFailuresAreFinal
  <2>1. c # current
    BY CallsAssumption DEF IInv, Progress, Contract!NoEffectOutcomes
  <2> QED
    BY <2>1 DEF IInv, NoTrace
<1> QED
  BY Invariance, <1>1, PTL

\* A call sends at most two requests for each attempt the settings allow.
THEOREM RequestsWithinBudget == Spec => []RetryBudget
<1>1. IInv => RetryBudget
  <2> SUFFICES ASSUME IInv, NEW c \in Calls PROVE sent[c] <= Budget(c)
    BY DEF RetryBudget
  <2>1. /\ Attempts(c) \in Nat /\ Attempts(c) >= 1 /\ Budget(c) = 2 * Attempts(c)
        /\ sent[c] \in Nat /\ attempt \in Nat
    BY AttemptsPositive DEF IInv, TypeOK
  <2>2. CASE c = current
    <3>1. attempt \in 1..Attempts(c) /\ sent[c] <= 2 * (attempt - 1) + SentInStage(stage)
      BY <2>2, CallsAssumption DEF IInv, Progress, RequestsCounted
    <3>2. SentInStage(stage) \in 0..2
      BY DEF SentInStage
    <3> QED
      BY <2>1, <3>1, <3>2
  <2>3. CASE c # current
    BY <2>1, <2>3 DEF IInv, RequestsCounted
  <2> QED
    BY <2>2, <2>3
<1> QED
  BY Invariance, <1>1, PTL
-----------------------------------------------------------------------------

\* What a call has left is a natural number, and more than nothing until it ends.
LEMMA RemainingIs ==
    ASSUME IInv
    PROVE  /\ current = NoCall => Remaining = 0
           /\ current # NoCall => Remaining \in Nat /\ Remaining > 0
                                  /\ Remaining <= 6 * Attempts(current)
<1>1. CASE current = NoCall
  BY <1>1 DEF Remaining
<1>2. CASE current # NoCall
  <2>1. /\ current \in Calls /\ attempt \in 1..Attempts(current)
        /\ stage \in Stages \ {"idle"}
    BY <1>2 DEF IInv, TypeOK, Progress
  <2>2. Attempts(current) \in Nat
    BY <2>1, AttemptsPositive
  <2> QED
    BY <1>2, <2>1, <2>2 DEF Remaining
<1> QED
  BY <1>1, <1>2

\* A call that ends has nothing left.
LEMMA FinishCounts ==
    ASSUME IInv, current # NoCall, NEW o, Finish(o)
    PROVE  Remaining' < Remaining
<1>1. Remaining' = 0
  BY DEF Finish, Remaining
<1> QED
  BY <1>1, RemainingIs

\* A new attempt has fewer attempts after it.
LEMMA NextAttemptCounts ==
    ASSUME IInv, stage \in Awaiting, NextAttempt
    PROVE  Remaining' < Remaining
<1>1. /\ current # NoCall /\ current \in Calls
      /\ attempt \in 1..Attempts(current) /\ Attempts(current) \in Nat
  BY AttemptsPositive DEF IInv, TypeOK, Progress
<1>2. Remaining' = 6 * (Attempts(current) - (attempt + 1)) + 5
  BY <1>1 DEF NextAttempt, Remaining, Attempts
<1>3. Remaining \in {6 * (Attempts(current) - attempt) + 1, 6 * (Attempts(current) - attempt) + 4}
  BY <1>1 DEF Remaining
<1> QED
  BY <1>1, <1>2, <1>3

\* Within an attempt the stages follow one another.
LEMMA StageCounts ==
    ASSUME IInv, UNCHANGED <<current, attempt>>,
           \/ stage = "login" /\ stage' = "send"
           \/ stage = "send" /\ stage' = "await"
           \/ stage = "await" /\ stage' = "relogin"
           \/ stage = "relogin" /\ stage' = "resend"
           \/ stage = "resend" /\ stage' = "reawait"
    PROVE  Remaining' < Remaining
<1>1. /\ current # NoCall /\ current \in Calls
      /\ attempt \in 1..Attempts(current) /\ Attempts(current) \in Nat
  BY AttemptsPositive DEF IInv, TypeOK, Progress
<1> QED
  BY <1>1 DEF Remaining, Attempts

\* No step adds to what the call in progress has left, and one that moves the client
\* takes from it.
LEMMA CountdownStep ==
    ASSUME IInv, [Next]_vars, current # NoCall, clientVars' # clientVars
    PROVE  Remaining' < Remaining
<1>1. CASE LoginAccepted
  BY <1>1, StageCounts DEF LoginAccepted
<1>2. CASE Send
  BY <1>2, StageCounts DEF Send
<1>3. CASE ReceiveUnauthorized
  BY <1>3, StageCounts DEF ReceiveUnauthorized
<1>4. CASE LoginFails \/ ReceiveOk \/ ReceiveNotFound \/ ReceiveClientError
             \/ TransportFailure \/ Restart
  BY <1>4, FinishCounts
  DEF LoginFails, ReceiveOk, ReceiveNotFound, ReceiveClientError, TransportFailure, Restart
<1>5. CASE ReceiveServerError \/ NetworkFailure
  BY <1>5, FinishCounts, NextAttemptCounts DEF ReceiveServerError, NetworkFailure
<1>6. ASSUME NEW c \in Calls, Begin(c) PROVE FALSE
  BY <1>6 DEF Begin, IInv, Progress
<1>7. CASE SessionExpires \/ Refuse \/ Perform \/ Decline
  BY <1>7 DEF SessionExpires, Refuse, Perform, Decline
<1>8. ASSUME NEW c \in Calls, PerformOrphan(c) PROVE FALSE
  BY <1>8 DEF PerformOrphan
<1>9. CASE UNCHANGED vars
  BY <1>9 DEF vars
<1> QED
  BY <1>1, <1>2, <1>3, <1>4, <1>5, <1>6, <1>7, <1>8, <1>9 DEF Next, Client, Environment

\* A call has at most six steps for each attempt, whatever the backend answers: this is
\* the measure on which CallsReturn rests.
THEOREM CallsCountDown == Spec => EveryStepCounts
<1>1. IInv /\ [Next]_vars
          => [current # NoCall /\ clientVars' # clientVars => Remaining' < Remaining]_vars
  BY CountdownStep
<1> QED
  BY <1>1, Invariance, PTL DEF Spec, EveryStepCounts

-----------------------------------------------------------------------------

\* A call that returns does so in one of the ways the contract allows.
LEMMA FinishReturns ==
    ASSUME IInv, current # NoCall, NEW o \in Contract!Outcomes, Finish(o), UNCHANGED executed,
           o = "ok" => wire = "ok",
           o \in Contract!NoEffectOutcomes
               => stage \in BeforeReply \/ wire \in NoEffectReplies
    PROVE  Contract!Next
<1>1. current \in Calls /\ outcome[current] = "none"
  BY DEF IInv, TypeOK, Progress
<1>2. o = "ok" => executed[current] > 0
  BY DEF IInv, Truthful
<1>3. current \in Contract!Applies /\ o \in Contract!NoEffectOutcomes
          => executed[current] = 0
  BY DEF IInv, NoTrace, Contract!Applies
<1>4. Contract!Return(current, o)
  BY <1>1, <1>2, <1>3 DEF Finish, Contract!Return
<1> QED
  BY <1>1, <1>4 DEF Contract!Next

\* Every step of the client, the network and the backend is a step of the
\* contract or leaves its variables alone.
LEMMA StepRefines == IInv /\ [Next]_vars => [Contract!Next]_(Contract!vars)
<1> SUFFICES ASSUME IInv, [Next]_vars
             PROVE  Contract!Next \/ UNCHANGED <<outcome, executed>>
  BY DEF Contract!vars
<1> USE OutcomeValues
<1>1. stage # "idle" => current # NoCall
  BY DEF IInv, Progress
<1>2. CASE LoginFails
  BY <1>1, <1>2, FinishReturns DEF LoginFails, BeforeReply
<1>3. CASE ReceiveOk
  BY <1>1, <1>3, FinishReturns DEF ReceiveOk, Contract!NoEffectOutcomes
<1>4. CASE ReceiveNotFound
  BY <1>1, <1>4, FinishReturns DEF ReceiveNotFound, NoEffectReplies
<1>5. CASE ReceiveClientError
  BY <1>1, <1>5, FinishReturns DEF ReceiveClientError, NoEffectReplies
<1>6. CASE ReceiveServerError \/ NetworkFailure \/ TransportFailure
  BY <1>1, <1>6, FinishReturns
  DEF ReceiveServerError, NetworkFailure, TransportFailure, NextAttempt,
      Contract!NoEffectOutcomes
<1>7. CASE Restart
  BY <1>1, <1>7, FinishReturns DEF Restart, Contract!NoEffectOutcomes
<1>8. CASE Perform
  <2>1. current \in Calls /\ outcome[current] = "none"
    BY <1>1, <1>8 DEF Perform, IInv, TypeOK, Progress
  <2>2. current \in Applies => executed[current] = 0
    <3> SUFFICES ASSUME current \in Applies PROVE executed[current] = 0
      OBVIOUS
    <3>1. executed[current] + orphans[current] + 1 <= 1
      BY <1>8 DEF Perform, IInv, OneCopy
    <3> QED
      BY <2>1, <3>1 DEF IInv, TypeOK
  <2>3. Contract!Execute(current)
    BY <1>8, <2>1, <2>2
    DEF Perform, Contract!Execute, Contract!Applies, Contract!NoEffectOutcomes
  <2> QED
    BY <2>1, <2>3 DEF Contract!Next
<1>9. ASSUME NEW c \in Calls, PerformOrphan(c) PROVE Contract!Next
  <2>1. c \in Applies => executed[c] = 0 /\ outcome[c] \notin Contract!NoEffectOutcomes
    <3> SUFFICES ASSUME c \in Applies
                 PROVE  executed[c] = 0 /\ outcome[c] \notin Contract!NoEffectOutcomes
      OBVIOUS
    <3>1. executed[c] \in Nat /\ orphans[c] \in Nat /\ orphans[c] > 0
      BY <1>9 DEF PerformOrphan, IInv, TypeOK
    <3>2. executed[c] + orphans[c]
              + (IF c = current /\ wire = "request" THEN 1 ELSE 0) <= 1
      BY DEF IInv, OneCopy
    <3>3. c # current => outcome[c] \notin Contract!NoEffectOutcomes
      BY <3>1 DEF IInv, NoTrace
    <3>4. c = current => outcome[c] = "none"
      BY CallsAssumption DEF IInv, Progress
    <3> QED
      BY <3>1, <3>2, <3>3, <3>4 DEF Contract!NoEffectOutcomes
  <2>2. Contract!Execute(c)
    BY <1>9, <2>1 DEF PerformOrphan, Contract!Execute, Contract!Applies
  <2> QED
    BY <2>2 DEF Contract!Next
<1>10. ASSUME NEW c \in Calls, Begin(c) PROVE UNCHANGED <<outcome, executed>>
  BY <1>10 DEF Begin
<1>11. CASE LoginAccepted \/ Send \/ ReceiveUnauthorized \/ SessionExpires
             \/ Refuse \/ Decline \/ UNCHANGED vars
  BY <1>11
  DEF LoginAccepted, Send, ReceiveUnauthorized, SessionExpires, Refuse, Decline, vars
<1> QED
  BY <1>2, <1>3, <1>4, <1>5, <1>6, <1>7, <1>8, <1>9, <1>10, <1>11
  DEF Next, Client, Environment

\* request() keeps the contract the service layer relies on.
THEOREM Refinement == Spec => ImplementsContract
<1>1. Init => Contract!Init
  BY DEF Init, Contract!Init
<1> QED
  BY <1>1, StepRefines, Invariance, PTL DEF Spec, ImplementsContract, Contract!Spec

=============================================================================
