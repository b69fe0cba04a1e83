--------------------------- MODULE ToolCallsProofs ---------------------------
(***************************************************************************)
(* The safety of ToolCalls for every number of calls and every size of the *)
(* log.  IInv ties what a call has answered to whether its apply was sent, *)
(* and what the backend did to what it was sent; LogInv, at the end, what  *)
(* the log holds to what was answered.                                     *)
(***************************************************************************)
EXTENDS ToolCalls, SequenceTheorems, TLAPS

Refusals == {"ok", "blocked", "validation_error", "invalid_recipe_payload"}

\* The types that the safety proof needs.
Typing ==
    /\ call \in [ToolCall -> Calling \cup {None}]
    /\ current \in ToolCall \cup {None}
    /\ stage \in Stages
    /\ sent \subseteq ToolCall
    /\ outcome \in [ToolCall -> {"none"} \cup Contract!Outcomes]
    /\ executed \in [ToolCall -> Nat]
    /\ changed \subseteq ToolCall
    /\ reply \in [ToolCall -> Reply \cup {None}]
    /\ result \in [ToolCall -> Results \cup {None}]

\* The call in progress, and what its stage says of it.
InProgress ==
    /\ stage = "idle" <=> current = None
    /\ current # None => call[current] # None /\ result[current] = None
    /\ stage = "apply" => current \in sent
    /\ stage \notin {"idle", "apply"} => current \notin sent
    /\ stage = "fetch" => call[current].tool = "update_recipe" /\ ~call[current].dryRun
    /\ stage = "precheck" => call[current].tool = "delete"

\* An apply is sent for a write without dry_run only, and only then executed.
SentApplies ==
    /\ \A t \in sent : call[t] # None /\ call[t].tool \in WriteTools /\ ~call[t].dryRun
    /\ \A t \in ToolCall : call[t] = None => result[t] = None
    /\ \A t \in ToolCall : executed[t] # 0 =>
           t \in sent /\ outcome[t] \notin Contract!NoEffectOutcomes
    /\ \A t \in changed : executed[t] # 0

\* A refused call has sent nothing, or got its refusal from the backend.
Answers ==
    /\ \A t \in ToolCall : result[t] \in Refusals => t \notin sent
    /\ \A t \in ToolCall : result[t] \in Contract!NoEffectOutcomes =>
           t \notin sent \/ outcome[t] = result[t]

IInv == Typing /\ InProgress /\ SentApplies /\ Answers /\ DeniedAppliesAreErrors

USE DEF Contract!Outcomes, Contract!NoEffectOutcomes, Contract!UnclearOutcomes, Contract!Applies

-----------------------------------------------------------------------------

LEMMA NoneIsNothing ==
    /\ None \notin ToolCall /\ None \notin Calling /\ None \notin Reply
    /\ None \notin Results
  BY NoneAssumption

\* Calls are typed records.
LEMMA CallingFields ==
    ASSUME NEW c \in Calling
    PROVE  c.tool \in ReadTools \cup WriteTools /\ c.dryRun \in BOOLEAN
               /\ c.force \in BOOLEAN /\ (c.dryRun => c.tool \in WriteTools)
  BY DEF Calling

LEMMA InitInvariant == Init => IInv
<1> SUFFICES ASSUME Init PROVE IInv
  OBVIOUS
<1>1. Typing /\ InProgress
  BY DEF Init, Contract!Init, Typing, InProgress, Stages
<1>2. SentApplies
  BY DEF Init, Contract!Init, SentApplies
<1>3. Answers /\ DeniedAppliesAreErrors
  BY NoneIsNothing DEF Init, Contract!Init, Answers, DeniedAppliesAreErrors, Refusals, Results
<1> QED
  BY <1>1, <1>2, <1>3 DEF IInv

\* Answering ends the call in progress.
LEMMA AnswerKeeps ==
    ASSUME IInv, current # None, NEW r \in Results, Answer(r),
           UNCHANGED <<call, sent, executed, changed>>,
           outcome' \in [ToolCall -> {"none"} \cup Contract!Outcomes],
           reply' \in [ToolCall -> Reply \cup {None}],
           \A t \in ToolCall : t # current => outcome'[t] = outcome[t] /\ reply'[t] = reply[t],
           outcome'[current] # outcome[current] =>
               (outcome'[current] \in Contract!NoEffectOutcomes => executed[current] = 0),
           r \in Refusals => current \notin sent,
           r \in Contract!NoEffectOutcomes =>
               current \notin sent \/ outcome'[current] = r,
           r = "applied" /\ call[current].tool # "create_recipe" =>
               ~RefutesApply(reply'[current])
    PROVE  IInv'
<1>1. current \in ToolCall
  BY DEF IInv, Typing
<1>2. Typing' /\ InProgress'
  BY <1>1, NoneIsNothing DEF IInv, Typing, Answer, InProgress, Stages
<1>3. /\ result'[current] = r
      /\ \A t \in ToolCall : t # current => result'[t] = result[t]
  BY <1>1 DEF IInv, Typing, Answer
<1>4. SentApplies'
  BY <1>1, <1>3, NoneIsNothing DEF IInv, Typing, InProgress, SentApplies
<1>5. Answers'
  BY <1>1, <1>3 DEF IInv, Answers
<1>6. DeniedAppliesAreErrors'
  <2> SUFFICES ASSUME NEW t \in ToolCall, result'[t] = "applied",
                      call[t].tool # "create_recipe"
               PROVE  /\ ~reply'[t].dryRun /\ reply'[t].applied # "no"
                      /\ reply'[t].counts \cup reply'[t].lengths # {0}
    BY DEF DeniedAppliesAreErrors
  <2>1. CASE t # current
    BY <1>3, <2>1 DEF IInv, DeniedAppliesAreErrors
  <2>2. CASE t = current
    <3>1. ~RefutesApply(reply'[t])
      BY <1>3, <2>2
    <3>2. \A A, B : A \cup B = {0} => A = {0} \/ B = {0}
      OBVIOUS
    <3> QED
      BY <3>1, <3>2 DEF RefutesApply
  <2> QED
    BY <2>1, <2>2
<1> QED
  BY <1>2, <1>4, <1>5, <1>6 DEF IInv

-----------------------------------------------------------------------------
(* Each action keeps the invariant.                                        *)

LEMMA InvokeKeeps ==
    ASSUME IInv, NEW t \in ToolCall, NEW c \in Calling, Invoke(t, c)
    PROVE  IInv'
<1>1. /\ c # None
      /\ c.tool \in ReadTools \cup WriteTools /\ c.dryRun \in BOOLEAN
      /\ c.dryRun => c.tool \in WriteTools
  BY CallingFields, NoneIsNothing
<1>2. /\ call' = [call EXCEPT ![t] = c] /\ call[t] = None
      /\ call' \in [ToolCall -> Calling \cup {None}]
      /\ call'[t] = c /\ \A u \in ToolCall : u # t => call'[u] = call[u]
  BY DEF Invoke, IInv, Typing
<1>3. /\ t \notin sent /\ result[t] = None
  BY <1>2 DEF IInv, SentApplies
<1>4. /\ stage' \in Stages \ {"idle"}
      /\ stage' = "apply" => c.tool \in WriteTools /\ ~c.dryRun
      /\ stage' = "fetch" => c.tool = "update_recipe" /\ ~c.dryRun
      /\ stage' = "precheck" => c.tool = "delete"
  BY <1>1 DEF Invoke, FirstStage, Stages, ReadTools, WriteTools
<1>5. Typing'
  BY <1>2, <1>4 DEF IInv, Typing, Invoke, backend
<1>6. InProgress'
  BY <1>1, <1>2, <1>3, <1>4, NoneIsNothing DEF InProgress, Invoke, backend
<1>7. SentApplies'
  BY <1>1, <1>2, <1>3, <1>4 DEF IInv, SentApplies, Invoke, backend, Typing
<1>8. Answers'
  BY <1>3, NoneIsNothing DEF IInv, Answers, Invoke, backend, Refusals, Results
<1>9. DeniedAppliesAreErrors'
  BY <1>2, <1>3, NoneIsNothing
  DEF IInv, DeniedAppliesAreErrors, Invoke, backend, Results
<1> QED
  BY <1>5, <1>6, <1>7, <1>8, <1>9 DEF IInv

\* An answer without an apply.
LEMMA AnswerUnsent ==
    ASSUME IInv, stage \notin {"idle", "apply"}, NEW r \in Results, r # "applied",
           Answer(r), UNCHANGED <<call, sent, backend, reply>>
    PROVE  IInv'
<1>1. current # None /\ current \notin sent
  BY DEF IInv, InProgress
<1>2. /\ UNCHANGED <<call, sent, executed, changed>>
      /\ outcome' = outcome /\ reply' = reply
      /\ outcome \in [ToolCall -> {"none"} \cup Contract!Outcomes]
      /\ reply \in [ToolCall -> Reply \cup {None}]
  BY DEF backend, IInv, Typing
<1> QED
  BY <1>1, <1>2, AnswerKeeps

LEMMA SendApplyKeeps ==
    ASSUME IInv, stage \in {"fetch", "precheck"}, ~call[current].dryRun,
           SendApply, UNCHANGED <<call, backend, reply>>
    PROVE  IInv'
<1>1. /\ current # None /\ current \in ToolCall
      /\ call[current] # None /\ result[current] = None
      /\ call[current].tool \in WriteTools
  BY DEF IInv, InProgress, Typing, WriteTools
<1>2. Typing' /\ InProgress'
  BY <1>1 DEF IInv, Typing, InProgress, SendApply, backend, Stages
<1>3. SentApplies'
  BY <1>1 DEF IInv, SentApplies, SendApply, backend
<1>4. Answers'
  BY <1>1, NoneIsNothing DEF IInv, Answers, SendApply, backend, Refusals, Results
<1>5. DeniedAppliesAreErrors'
  BY DEF IInv, DeniedAppliesAreErrors, SendApply, backend
<1> QED
  BY <1>2, <1>3, <1>4, <1>5 DEF IInv

LEMMA ApplyAnswerKeeps ==
    ASSUME IInv, stage = "apply", NEW o \in Contract!Outcomes \ {"crashed"},
           Contract!Return(current, o),
           NEW r \in Results \ Refusals, Answer(r),
           r \in Contract!NoEffectOutcomes => r = o,
           r = "applied" /\ call[current].tool # "create_recipe" =>
               ~RefutesApply(reply'[current]),
           reply' \in [ToolCall -> Reply \cup {None}],
           \A t \in ToolCall : t # current => reply'[t] = reply[t],
           UNCHANGED <<call, sent, changed>>
    PROVE  IInv'
<1>1. current # None /\ current \in ToolCall /\ current \in sent
  BY DEF IInv, InProgress, Typing
<1>2. /\ outcome' = [outcome EXCEPT ![current] = o] /\ executed' = executed
      /\ o \in Contract!NoEffectOutcomes => executed[current] = 0
  BY <1>1 DEF Contract!Return
<1>3. /\ outcome' \in [ToolCall -> {"none"} \cup Contract!Outcomes]
      /\ outcome'[current] = o
      /\ \A t \in ToolCall : t # current => outcome'[t] = outcome[t]
  BY <1>1, <1>2 DEF IInv, Typing
<1> QED
  BY <1>1, <1>2, <1>3, AnswerKeeps

LEMMA ExecuteKeeps ==
    ASSUME IInv, NEW t \in ToolCall, Execute(t)
    PROVE  IInv'
<1>1. /\ executed' = [executed EXCEPT ![t] = @ + 1]
      /\ outcome' = outcome /\ outcome[t] \notin Contract!NoEffectOutcomes
      /\ t \in sent /\ executed \in [ToolCall -> Nat]
  BY DEF Execute, Contract!Execute, IInv, Typing
<1>2. /\ executed' \in [ToolCall -> Nat] /\ executed'[t] # 0
      /\ \A u \in ToolCall : u # t => executed'[u] = executed[u]
  BY <1>1
<1>3. changed' \in {changed, changed \cup {t}}
  BY DEF Execute
<1>4. Typing' /\ InProgress'
  BY <1>1, <1>2, <1>3 DEF IInv, Typing, InProgress, Execute
<1>5. SentApplies'
  BY <1>1, <1>2, <1>3 DEF IInv, SentApplies, Execute, Typing
<1>6. Answers' /\ DeniedAppliesAreErrors'
  BY <1>1 DEF IInv, Answers, DeniedAppliesAreErrors, Execute
<1> QED
  BY <1>4, <1>5, <1>6 DEF IInv

LEMMA RestartKeeps ==
    ASSUME IInv, Restart
    PROVE  IInv'
<1>1. /\ stage = "apply" => current \in ToolCall /\ result[current] = None
      /\ outcome \in [ToolCall -> {"none"} \cup Contract!Outcomes]
  BY DEF IInv, InProgress, Typing
<1>2. /\ executed' = executed /\ outcome' \in [ToolCall -> {"none"} \cup Contract!Outcomes]
      /\ \A t \in ToolCall :
             \/ outcome'[t] = outcome[t]
             \/ stage = "apply" /\ t = current /\ outcome'[t] = "crashed"
  <2>1. CASE stage = "apply"
    <3>1. outcome' = [outcome EXCEPT ![current] = "crashed"] /\ executed' = executed
      BY <2>1 DEF Restart, Contract!Return
    <3> QED
      BY <1>1, <2>1, <3>1
  <2>2. CASE stage # "apply"
    BY <1>1, <2>2 DEF Restart
  <2> QED
    BY <2>1, <2>2
<1>3. Typing' /\ InProgress'
  BY <1>2 DEF IInv, Typing, InProgress, Restart, Stages
<1>4. SentApplies'
  BY <1>2 DEF IInv, SentApplies, Restart
<1>5. Answers'
  BY <1>1, <1>2, NoneIsNothing DEF IInv, Answers, Restart, Results
<1>6. DeniedAppliesAreErrors'
  BY DEF IInv, DeniedAppliesAreErrors, Restart
<1> QED
  BY <1>3, <1>4, <1>5, <1>6 DEF IInv

-----------------------------------------------------------------------------

\* The invariant is inductive.
THEOREM Invariance == Spec => []IInv
<1>1. IInv /\ [Next]_vars => IInv'
  <2> SUFFICES ASSUME IInv, [Next]_vars PROVE IInv'
    OBVIOUS
  <2>1. CASE UNCHANGED vars
    BY <2>1 DEF vars, backend, IInv, Typing, InProgress, SentApplies, Answers,
                DeniedAppliesAreErrors
  <2>2. ASSUME NEW t \in ToolCall, NEW c \in Calling, Invoke(t, c) PROVE IInv'
    BY <2>2, InvokeKeeps
  <2>3. CASE AnswerAtOnce
    BY <2>3, AnswerUnsent DEF AnswerAtOnce, Results
  <2>4. ASSUME NEW o \in Failures, ReadFails(o) PROVE IInv'
    <3>1. o \in Results /\ o # "applied"
      BY DEF Failures, Results
    <3> QED
      BY <2>4, <3>1, AnswerUnsent DEF ReadFails
  <2>5. ASSUME NEW o \in Failures, ApplyFails(o) PROVE IInv'
    <3>1. o \in Results \ Refusals /\ o \in Contract!Outcomes \ {"crashed"} /\ o # "applied"
      BY DEF Failures, Results, Refusals
    <3>2. reply' = reply /\ reply \in [ToolCall -> Reply \cup {None}]
      BY <2>5 DEF ApplyFails, IInv, Typing
    <3>3. /\ stage = "apply" /\ Contract!Return(current, o) /\ Answer(o)
          /\ UNCHANGED <<call, sent, changed>>
      BY <2>5 DEF ApplyFails
    <3> QED
      BY <3>1, <3>2, <3>3, ApplyAnswerKeeps
  <2>6. CASE ReadReturns
    BY <2>6, AnswerUnsent DEF ReadReturns, Results
  <2>7. CASE PreviewReturns
    BY <2>7, AnswerUnsent DEF PreviewReturns, Results
  <2>8. CASE FetchReturns
    <3>1. CASE SendApply
      BY <2>8, <3>1, SendApplyKeeps DEF FetchReturns, IInv, InProgress
    <3>2. CASE Answer("invalid_recipe_payload") /\ UNCHANGED sent
      BY <2>8, <3>2, AnswerUnsent DEF FetchReturns, Results
    <3> QED
      BY <2>8, <3>1, <3>2 DEF FetchReturns
  <2>9. CASE PrecheckReturns
    <3>1. CASE ~call[current].dryRun /\ SendApply
      BY <2>9, <3>1, SendApplyKeeps DEF PrecheckReturns
    <3>2. ASSUME NEW r \in {"ok", "blocked"}, Answer(r), UNCHANGED sent PROVE IInv'
      BY <2>9, <3>2, AnswerUnsent DEF PrecheckReturns, Results
    <3> QED
      BY <2>9, <3>1, <3>2 DEF PrecheckReturns
  <2>10. CASE ApplyReturns
    <3> PICK r \in Reply :
          /\ reply' = [reply EXCEPT ![current] = r]
          /\ Answer(IF call[current].tool # "create_recipe" /\ RefutesApply(r)
                      THEN "apply_not_executed" ELSE "applied")
      BY <2>10 DEF ApplyReturns
    <3> DEFINE a == IF call[current].tool # "create_recipe" /\ RefutesApply(r)
                      THEN "apply_not_executed" ELSE "applied"
    <3>1. current \in ToolCall
      BY <2>10 DEF ApplyReturns, IInv, InProgress, Typing
    <3>2. /\ reply' \in [ToolCall -> Reply \cup {None}] /\ reply'[current] = r
          /\ \A t \in ToolCall : t # current => reply'[t] = reply[t]
      BY <3>1 DEF IInv, Typing
    <3>3. /\ a \in Results \ Refusals /\ a \notin Contract!NoEffectOutcomes
          /\ "ok" \in Contract!Outcomes \ {"crashed"}
          /\ a = "applied" /\ call[current].tool # "create_recipe" =>
               ~RefutesApply(reply'[current])
      BY <3>2 DEF Results, Refusals
    <3>4. /\ stage = "apply" /\ Contract!Return(current, "ok") /\ Answer(a)
          /\ UNCHANGED <<call, sent, changed>>
      BY <2>10 DEF ApplyReturns
    <3> HIDE DEF a
    <3> QED
      BY <3>2, <3>3, <3>4, ApplyAnswerKeeps
  <2>11. ASSUME NEW t \in ToolCall, Execute(t) PROVE IInv'
    BY <2>11, ExecuteKeeps
  <2>12. CASE Restart
    BY <2>12, RestartKeeps
  <2> QED
    BY <2>1, <2>2, <2>3, <2>4, <2>5, <2>6, <2>7, <2>8, <2>9, <2>10, <2>11, <2>12 DEF Next
<1> QED
  BY InitInvariant, <1>1, PTL DEF Spec

\* A dry run and a read never have an effect, whatever is lost, late or
\* restarted: FirstStage, FetchReturns and PrecheckReturns let only the applies
\* of IInv's SentApplies through.
THEOREM DryRunsAreSafe == Spec => []DryRunsChangeNothing
<1>1. IInv => DryRunsChangeNothing
  BY DEF IInv, Typing, SentApplies, DryRunsChangeNothing, ReadTools, WriteTools
<1> QED
  BY <1>1, Invariance, PTL

\* An answer that says that nothing was done is final.
THEOREM RefusalsStand == Spec => []RefusalsAreFinal
<1>1. IInv => RefusalsAreFinal
  BY DEF IInv, Typing, SentApplies, Answers, RefusalsAreFinal, Refusals
<1> QED
  BY <1>1, Invariance, PTL

\* _assert_apply_executed() and the place it is called from: no guarded tool
\* answers that it applied what the backend denies.
THEOREM DenialsAreErrors == Spec => []DeniedAppliesAreErrors
<1>1. IInv => DeniedAppliesAreErrors
  BY DEF IInv
<1> QED
  BY <1>1, Invariance, PTL

-----------------------------------------------------------------------------
(* The operation log.                                                      *)

Entry == [call : ToolCall, status : {"ok", "error"}]

LogTyping == log \in Seq(Entry) /\ answered \in Seq(ToolCall)

Done == \A i \in 1..Len(answered) : result[answered[i]] # None

\* The i-th latest call is found among the first 2 * i entries.
Latest ==
    \A i \in 1..Len(answered) :
        2 * i <= MaxLog =>
            \E j \in 1..Len(log) :
                /\ j <= 2 * i
                /\ log[j].call = answered[i]
                /\ log[j].status = "ok" <=> result[answered[i]] \in Successes
                /\ \A k \in 1..(j - 1) : log[k].call # answered[i]

LogInv == LogTyping /\ Done /\ Latest

\* One or two entries, the first with the status of the answer.
LEMMA EntriesAre ==
    ASSUME NEW t \in ToolCall, NEW r
    PROVE  /\ Entries(t, r) \in Seq(Entry)
           /\ Len(Entries(t, r)) \in {1, 2}
           /\ \A k \in 1..Len(Entries(t, r)) : Entries(t, r)[k].call = t
           /\ Entries(t, r)[1].status = "ok" <=> r \in Successes
<1> DEFINE ok == [call |-> t, status |-> "ok"]
           error == [call |-> t, status |-> "error"]
<1>1. /\ ok \in Entry /\ ok.call = t /\ ok.status = "ok"
      /\ error \in Entry /\ error.call = t /\ error.status # "ok"
  BY DEF Entry
<1>2. \/ r \in Successes /\ Entries(t, r) = <<ok>>
      \/ r \notin Successes /\ Entries(t, r) = <<error, ok>>
      \/ r \notin Successes /\ Entries(t, r) = <<error>>
  BY DEF Entries, Successes
<1> HIDE DEF ok, error
<1>3. /\ <<ok>> \in Seq(Entry) /\ Len(<<ok>>) = 1 /\ <<ok>>[1] = ok
      /\ <<error>> \in Seq(Entry) /\ Len(<<error>>) = 1 /\ <<error>>[1] = error
      /\ <<error, ok>> \in Seq(Entry) /\ Len(<<error, ok>>) = 2
      /\ <<error, ok>>[1] = error /\ <<error, ok>>[2] = ok
  BY <1>1
<1>4. \A k \in 1..1 : k = 1
  OBVIOUS
<1>5. \A k \in 1..2 : k = 1 \/ k = 2
  OBVIOUS
<1>6. CASE r \in Successes /\ Entries(t, r) = <<ok>>
  BY <1>1, <1>3, <1>4, <1>6
<1>7. CASE r \notin Successes /\ Entries(t, r) = <<error, ok>>
  BY <1>1, <1>3, <1>5, <1>7
<1>8. CASE r \notin Successes /\ Entries(t, r) = <<error>>
  BY <1>1, <1>3, <1>4, <1>8
<1> QED
  BY <1>2, <1>6, <1>7, <1>8

\* The new entries come first, and of the old ones those that still fit.
LEMMA LoggedAre ==
    ASSUME NEW e \in Seq(Entry), NEW l \in Seq(Entry)
    PROVE  /\ Logged(e, l) \in Seq(Entry)
           /\ \A k \in 1..Len(e) :
                 k <= MaxLog => k \in 1..Len(Logged(e, l)) /\ Logged(e, l)[k] = e[k]
           /\ \A k \in 1..Len(l) :
                 Len(e) + k <= MaxLog =>
                     Len(e) + k \in 1..Len(Logged(e, l)) /\ Logged(e, l)[Len(e) + k] = l[k]
<1> DEFINE all == e \o l
           n == IF Len(all) < MaxLog THEN Len(all) ELSE MaxLog
<1>1. /\ all \in Seq(Entry) /\ Len(all) = Len(e) + Len(l)
      /\ Len(e) \in Nat /\ Len(l) \in Nat
      /\ \A k \in 1..Len(e) : all[k] = e[k]
      /\ \A k \in 1..Len(l) : all[Len(e) + k] = l[k]
  BY ConcatProperties, LenProperties
<1> HIDE DEF all
<1>2. n \in Nat /\ n <= Len(all)
  BY <1>1, LogAssumption
<1>3. Len(all) <= n \/ MaxLog <= n
  BY <1>1, LogAssumption
<1> HIDE DEF n
<1>4. /\ SubSeq(all, 1, n) \in Seq(Entry) /\ Len(SubSeq(all, 1, n)) = n
      /\ \A k \in 1..n : SubSeq(all, 1, n)[k] = all[k]
  BY <1>1, <1>2, SubSeqProperties
<1>5. Logged(e, l) = SubSeq(all, 1, n)
  BY DEF Logged, all, n
<1> QED
  BY <1>1, <1>2, <1>3, <1>4, <1>5, LogAssumption

LEMMA AnswerLogs ==
    ASSUME LogInv, result \in [ToolCall -> Results \cup {None}],
           current \in ToolCall, result[current] = None, NEW r \in Results, Answer(r)
    PROVE  LogInv'
<1> DEFINE e == Entries(current, r)
<1>1. /\ e \in Seq(Entry) /\ Len(e) \in {1, 2}
      /\ \A k \in 1..Len(e) : e[k].call = current
      /\ e[1].status = "ok" <=> r \in Successes
  BY EntriesAre
<1>2. log' = Logged(e, log) /\ answered' = <<current>> \o answered
  BY DEF Answer
<1> HIDE DEF e
<1>3. log \in Seq(Entry) /\ answered \in Seq(ToolCall)
  BY DEF LogInv, LogTyping
<1>4. /\ log' \in Seq(Entry)
      /\ \A k \in 1..Len(e) :
            k <= MaxLog => k \in 1..Len(log') /\ log'[k] = e[k]
      /\ \A k \in 1..Len(log) :
            Len(e) + k <= MaxLog =>
                Len(e) + k \in 1..Len(log') /\ log'[Len(e) + k] = log[k]
  BY <1>1, <1>2, <1>3, LoggedAre
<1>5. /\ answered' \in Seq(ToolCall) /\ Len(answered') = Len(answered) + 1
      /\ answered'[1] = current
      /\ \A i \in 2..Len(answered') :
            i - 1 \in 1..Len(answered) /\ answered'[i] = answered[i - 1]
  BY <1>2, <1>3
<1>6. /\ result'[current] = r /\ r # None
      /\ \A i \in 1..Len(answered) :
            answered[i] # current /\ result'[answered[i]] = result[answered[i]]
  BY <1>3, NoneIsNothing DEF Answer, LogInv, Done
<1>7. LogTyping'
  BY <1>4, <1>5 DEF LogTyping
<1>8. Done'
  <2> SUFFICES ASSUME NEW i \in 1..Len(answered') PROVE result'[answered'[i]] # None
    BY DEF Done
  <2>1. CASE i = 1
    BY <1>5, <1>6, <2>1
  <2>2. CASE i # 1
    <3>1. i \in 2..Len(answered')
      BY <1>3, <1>5, <2>2
    <3> QED
      BY <1>5, <1>6, <3>1 DEF LogInv, Done
  <2> QED
    BY <2>1, <2>2
<1>9. Latest'
  <2> SUFFICES ASSUME NEW i \in 1..Len(answered'), 2 * i <= MaxLog
               PROVE  \E j \in 1..Len(log') :
                          /\ j <= 2 * i
                          /\ log'[j].call = answered'[i]
                          /\ log'[j].status = "ok" <=> result'[answered'[i]] \in Successes
                          /\ \A k \in 1..(j - 1) : log'[k].call # answered'[i]
    BY DEF Latest
  <2>1. CASE i = 1
    <3>1. 1 \in 1..Len(log') /\ log'[1] = e[1] /\ e[1].call = current
      BY <1>1, <1>4, <2>1, LogAssumption
    <3> QED
      BY <1>1, <1>5, <1>6, <2>1, <3>1
  <2>2. CASE i # 1
    <3>1. i - 1 \in 1..Len(answered) /\ answered'[i] = answered[i - 1] /\ i \in Nat
      BY <1>3, <1>5, <2>2
    <3>2. PICK j \in 1..Len(log) :
              /\ j <= 2 * (i - 1)
              /\ log[j].call = answered[i - 1]
              /\ log[j].status = "ok" <=> result[answered[i - 1]] \in Successes
              /\ \A k \in 1..(j - 1) : log[k].call # answered[i - 1]
      BY <3>1, LogAssumption DEF LogInv, Latest
    <3>3. Len(log) \in Nat /\ j \in Nat /\ Len(e) + j <= 2 * i
      <4>1. Len(log) \in Nat
        BY <1>3, LenProperties
      <4>2. j \in Nat /\ j <= 2 * (i - 1)
        BY <3>2, <4>1
      <4> QED
        BY <1>1, <3>1, <4>1, <4>2
    <3>4. Len(e) + j \in 1..Len(log') /\ log'[Len(e) + j] = log[j]
      BY <1>4, <3>3, LogAssumption, <3>1
    <3>5. ASSUME NEW k \in 1..(Len(e) + j - 1) PROVE log'[k].call # answered'[i]
      <4>1. k <= MaxLog
        BY <1>1, <3>1, <3>3, LogAssumption
      <4>2. CASE k <= Len(e)
        BY <1>1, <1>4, <1>6, <3>1, <4>1, <4>2
      <4>3. CASE k > Len(e)
        <5>1. k - Len(e) \in 1..(j - 1) /\ k - Len(e) \in 1..Len(log)
                  /\ Len(e) + (k - Len(e)) = k
          BY <1>1, <3>2, <3>3, <4>3
        <5>2. log'[k] = log[k - Len(e)]
          BY <1>4, <4>1, <5>1
        <5> QED
          BY <3>1, <3>2, <5>1, <5>2
      <4> QED
        BY <1>1, <4>2, <4>3
    <3>6. result'[answered'[i]] = result[answered[i - 1]]
      BY <1>6, <3>1
    <3>7. /\ log'[Len(e) + j].call = answered'[i]
          /\ log'[Len(e) + j].status = "ok" <=> result'[answered'[i]] \in Successes
      BY <3>1, <3>2, <3>4, <3>6
    <3> DEFINE w == Len(e) + j
    <3>8. /\ w \in 1..Len(log') /\ w <= 2 * i
          /\ log'[w].call = answered'[i]
          /\ log'[w].status = "ok" <=> result'[answered'[i]] \in Successes
          /\ \A k \in 1..(w - 1) : log'[k].call # answered'[i]
      BY <3>3, <3>4, <3>5, <3>7
    <3> HIDE DEF w
    <3> QED
      BY <3>8
  <2> QED
    BY <2>1, <2>2
<1> QED
  BY <1>7, <1>8, <1>9 DEF LogInv

LEMMA InitLog == Init => LogInv
  BY DEF Init, LogInv, LogTyping, Done, Latest

\* What is not an answer leaves the log alone, or empties it.
LEMMA NextLog == IInv /\ LogInv /\ [Next]_vars => LogInv'
<1> SUFFICES ASSUME IInv, LogInv, [Next]_vars PROVE LogInv'
  OBVIOUS
<1>1. /\ result \in [ToolCall -> Results \cup {None}]
      /\ stage # "idle" => current \in ToolCall /\ result[current] = None
  BY DEF IInv, Typing, InProgress
<1>2. ASSUME stage # "idle", NEW r \in Results, Answer(r) PROVE LogInv'
  BY <1>1, <1>2, AnswerLogs
<1>3. ASSUME UNCHANGED <<result, log, answered>> PROVE LogInv'
  BY <1>3 DEF LogInv, LogTyping, Done, Latest
<1>4. CASE UNCHANGED vars
  BY <1>3, <1>4 DEF vars
<1>5. ASSUME NEW t \in ToolCall, NEW c \in Calling, Invoke(t, c) PROVE LogInv'
  BY <1>3, <1>5 DEF Invoke
<1>6. CASE AnswerAtOnce
  BY <1>2, <1>6 DEF AnswerAtOnce, Results
<1>7. ASSUME NEW o \in Failures, ReadFails(o) \/ ApplyFails(o) PROVE LogInv'
  BY <1>2, <1>7 DEF ReadFails, ApplyFails, Failures, Results
<1>8. CASE ReadReturns
  BY <1>2, <1>8 DEF ReadReturns, Results
<1>9. CASE PreviewReturns
  BY <1>2, <1>9 DEF PreviewReturns, Results
<1>10. CASE FetchReturns
  BY <1>2, <1>3, <1>10 DEF FetchReturns, SendApply, Results
<1>11. CASE PrecheckReturns
  BY <1>2, <1>3, <1>11 DEF PrecheckReturns, SendApply, Results
<1>12. CASE ApplyReturns
  <2>1. PICK r \in Results : Answer(r)
    BY <1>12 DEF ApplyReturns, Results
  <2> QED
    BY <1>2, <1>12, <2>1 DEF ApplyReturns
<1>13. ASSUME NEW t \in ToolCall, Execute(t) PROVE LogInv'
  BY <1>3, <1>13 DEF Execute
<1>14. CASE Restart
  BY <1>14 DEF Restart, LogInv, LogTyping, Done, Latest
<1> QED
  BY <1>4, <1>5, <1>6, <1>7, <1>8, <1>9, <1>10, <1>11, <1>12, <1>13, <1>14 DEF Next

\* The log's invariant is inductive with IInv.
THEOREM LogInvariance == Spec => []LogInv
  BY InitLog, NextLog, Invariance, PTL DEF Spec

\* The variables have their types.
THEOREM TypeCorrect == Spec => []TypeOK
<1>1. IInv /\ LogInv => TypeOK
  BY DEF IInv, Typing, LogInv, LogTyping, Entry, TypeOK
<1> QED
  BY <1>1, Invariance, LogInvariance, PTL

\* The log holds the latest calls with what they were answered, whatever its size.
THEOREM LogKeepsLatest == Spec => []LatestCallsAreLogged
<1>1. LogInv => LatestCallsAreLogged
  BY DEF LogInv, Latest, LatestCallsAreLogged
<1> QED
  BY <1>1, LogInvariance, PTL

-----------------------------------------------------------------------------
(* What the caller is told, and the promises.                              *)

\* The call in progress is answered with r; nothing else that a caller sees changes.
Answered(r) ==
    /\ current \in ToolCall /\ call[current] # None /\ result[current] = None
    /\ result' = [result EXCEPT ![current] = r]
    /\ UNCHANGED <<call, executed, changed>>

Judgements == {"applied", "apply_not_executed"}

\* A call is made, answered, judged by the reply to its apply or not, or takes
\* effect; the other steps are seen by no caller.
LEMMA StepsSeen ==
    ASSUME IInv, [Next]_vars
    PROVE  \/ \E t \in ToolCall, c \in Calling : Invoke(t, c)
           \/ \E r \in Results \ Judgements : Answered(r) /\ reply' = reply
           \/ ApplyReturns /\ \E r \in Judgements : Answered(r)
           \/ \E t \in ToolCall : Execute(t)
           \/ UNCHANGED <<call, executed, changed, reply, result>>
<1> DEFINE unseen == UNCHANGED <<call, executed, changed, reply, result>>
           made == \E t \in ToolCall, c \in Calling : Invoke(t, c)
           replied == \E r \in Results \ Judgements : Answered(r) /\ reply' = reply
           judged == ApplyReturns /\ \E r \in Judgements : Answered(r)
           took == \E t \in ToolCall : Execute(t)
<1> SUFFICES made \/ replied \/ judged \/ took \/ unseen
  OBVIOUS
<1> HIDE DEF made, replied, judged, took, unseen
<1> USE DEF backend
<1>1. ASSUME stage # "idle", NEW r, Answer(r), UNCHANGED <<call, executed, changed>>
      PROVE  Answered(r)
  BY <1>1 DEF Answered, Answer, IInv, Typing, InProgress
<1>2. ASSUME stage # "idle", NEW r \in Results \ Judgements, Answer(r),
             UNCHANGED <<call, executed, changed, reply>>
      PROVE  replied
  BY <1>1, <1>2 DEF replied
<1>3. ASSUME NEW o \in Failures, ReadFails(o) PROVE replied
  <2>1. o \in Results \ Judgements
    BY DEF Failures, Results, Judgements
  <2> QED
    BY <1>2, <1>3, <2>1 DEF ReadFails
<1>4. ASSUME NEW o \in Failures, ApplyFails(o) PROVE replied
  <2>1. o \in Results \ Judgements
    BY DEF Failures, Results, Judgements
  <2> QED
    BY <1>2, <1>4, <2>1 DEF ApplyFails, Contract!Return
<1>5. CASE AnswerAtOnce
  BY <1>2, <1>5 DEF AnswerAtOnce, Results, Judgements
<1>6. CASE ReadReturns
  BY <1>2, <1>6 DEF ReadReturns, Results, Judgements
<1>7. CASE PreviewReturns
  BY <1>2, <1>7 DEF PreviewReturns, Results, Judgements
<1>8. CASE FetchReturns
  BY <1>2, <1>8 DEF FetchReturns, SendApply, Results, Judgements, unseen
<1>9. CASE PrecheckReturns
  BY <1>2, <1>9 DEF PrecheckReturns, SendApply, Results, Judgements, unseen
<1>10. CASE ApplyReturns
  <2>1. PICK r \in Judgements : Answer(r)
    BY <1>10 DEF ApplyReturns, Judgements
  <2>2. stage # "idle" /\ UNCHANGED <<call, executed, changed>>
    BY <1>10 DEF ApplyReturns, Contract!Return
  <2> QED
    BY <1>1, <1>10, <2>1, <2>2 DEF judged
<1>11. CASE Restart
  BY <1>11 DEF Restart, Contract!Return, unseen
<1>12. CASE UNCHANGED vars
  BY <1>12 DEF vars, unseen
<1> QED
  BY <1>3, <1>4, <1>5, <1>6, <1>7, <1>8, <1>9, <1>10, <1>11, <1>12
     DEF Next, made, took

\* What the reply to the apply of t says of the rows it changed is true.
TrueOf(t) ==
    LET numbers == reply[t].counts \cup reply[t].lengths
    IN  IF t \in changed
          THEN /\ ~reply[t].dryRun /\ reply[t].applied # "no"
               /\ 1 \in numbers \/ numbers = {}
          ELSE 1 \notin numbers

\* An apply is executed once at most, and a judgement rests on a reply to an
\* executed one.
Judged ==
    \A t \in ToolCall :
        /\ executed[t] <= 1
        /\ reply[t] # None => reply[t] \in Reply /\ executed[t] # 0 /\ TrueOf(t)
        /\ result[t] \in Judgements => reply[t] # None
        /\ result[t] = "apply_not_executed" => RefutesApply(reply[t])
        /\ result[t] = "applied" /\ call[t].tool # "create_recipe" => ~RefutesApply(reply[t])

LEMMA ReturnJudges ==
    ASSUME IInv, Judged, ApplyReturns, NEW a \in Judgements, Answered(a)
    PROVE  Judged'
<1>1. PICK r \in Reply :
          /\ Truthful(r)
          /\ reply' = [reply EXCEPT ![current] = r]
          /\ Answer(IF call[current].tool # "create_recipe" /\ RefutesApply(r)
                      THEN "apply_not_executed" ELSE "applied")
  BY DEF ApplyReturns
<1>2. /\ current \in ToolCall /\ executed[current] # 0
      /\ call' = call /\ executed' = executed /\ changed' = changed
  BY DEF ApplyReturns, Contract!Return, Answered, IInv, Typing
<1>3. /\ reply'[current] = r /\ r # None
      /\ result'[current] = IF call[current].tool # "create_recipe" /\ RefutesApply(r)
                              THEN "apply_not_executed" ELSE "applied"
      /\ \A t \in ToolCall : t # current => reply'[t] = reply[t] /\ result'[t] = result[t]
  BY <1>1, <1>2, NoneIsNothing DEF Answer, IInv, Typing
<1> SUFFICES ASSUME NEW t \in ToolCall
             PROVE  /\ executed'[t] <= 1
                    /\ reply'[t] # None => reply'[t] \in Reply /\ executed'[t] # 0 /\ TrueOf(t)'
                    /\ result'[t] \in Judgements => reply'[t] # None
                    /\ result'[t] = "apply_not_executed" => RefutesApply(reply'[t])
                    /\ result'[t] = "applied" /\ call'[t].tool # "create_recipe"
                          => ~RefutesApply(reply'[t])
  BY DEF Judged
<1>4. CASE t = current
  <2>1. TrueOf(t)'
    BY <1>1, <1>2, <1>3, <1>4 DEF Truthful, TrueOf
  <2> QED
    BY <1>2, <1>3, <1>4, <2>1 DEF Judged
<1>5. CASE t # current
  <2>1. TrueOf(t) => TrueOf(t)'
    BY <1>2, <1>3, <1>5 DEF TrueOf
  <2> QED
    BY <1>2, <1>3, <1>5, <2>1 DEF Judged
<1> QED
  BY <1>4, <1>5

LEMMA JudgedStep == IInv /\ Judged /\ [Next]_vars => Judged'
<1> SUFFICES ASSUME IInv, Judged, [Next]_vars PROVE Judged'
  OBVIOUS
<1>1. ASSUME NEW t \in ToolCall, NEW c \in Calling, Invoke(t, c) PROVE Judged'
  <2>1. call[t] = None /\ result[t] = None
        /\ \A u \in ToolCall : u # t => call'[u] = call[u]
    BY <1>1 DEF Invoke, IInv, Typing, SentApplies
  <2>2. UNCHANGED <<executed, changed, reply, result>>
    BY <1>1 DEF Invoke, backend
  <2>3. None \notin Judgements
    BY NoneIsNothing DEF Judgements, Results
  <2> QED
    BY <2>1, <2>2, <2>3 DEF Judged, TrueOf, RefutesApply, Judgements
<1>2. ASSUME NEW r \in Results \ Judgements, Answered(r), reply' = reply PROVE Judged'
  <2>1. \A t \in ToolCall : result'[t] = result[t] \/ result'[t] \notin Judgements
    BY <1>2 DEF Answered, IInv, Typing
  <2> QED
    BY <1>2, <2>1 DEF Answered, Judged, TrueOf, RefutesApply, Judgements
<1>3. ASSUME NEW t \in ToolCall, Execute(t) PROVE Judged'
  <2>1. /\ executed[t] = 0 /\ executed'[t] = 1
        /\ \A u \in ToolCall : u # t => executed'[u] = executed[u]
        /\ \A u \in ToolCall : u # t => (u \in changed' <=> u \in changed)
    BY <1>3 DEF Execute, Contract!Execute, IInv, Typing
  <2>2. UNCHANGED <<call, reply, result>>
    BY <1>3 DEF Execute
  <2>3. reply[t] = None /\ result[t] \notin Judgements
    BY <2>1 DEF Judged
  <2> QED
    BY <2>1, <2>2, <2>3 DEF Judged, TrueOf, RefutesApply, Judgements
<1>4. CASE UNCHANGED <<call, executed, changed, reply, result>>
  BY <1>4 DEF Judged, TrueOf, RefutesApply
<1> QED
  BY <1>1, <1>2, <1>3, <1>4, StepsSeen, ReturnJudges

\* Judgements rest on true replies in every reachable state.
THEOREM JudgedInvariance == Spec => []Judged
<1>1. Init => Judged
  <2> SUFFICES ASSUME Init, NEW t \in ToolCall
               PROVE  executed[t] <= 1 /\ reply[t] = None /\ result[t] = None
    BY NoneIsNothing DEF Judged, Judgements, Results
  <2> QED
    BY DEF Init, Contract!Init
<1> QED
  BY <1>1, JudgedStep, Invariance, PTL DEF Spec

\* The apply guard is wrong only about replies that count nothing, or nothing of
\* one kind and something of the other.
THEOREM GuardErrs == Spec => []GuardErrsOnlyOnUnclearReplies
<1>1. IInv /\ Judged => GuardErrsOnlyOnUnclearReplies
  <2> SUFFICES ASSUME IInv, Judged, NEW t \in ToolCall
               PROVE  /\ result[t] = "applied" /\ call[t].tool # "create_recipe" /\ t \notin changed
                             => reply[t].counts \cup reply[t].lengths = {}
                      /\ result[t] = "apply_not_executed" /\ t \in changed
                             => \/ reply[t].counts = {0} /\ 1 \in reply[t].lengths
                                \/ reply[t].lengths = {0} /\ 1 \in reply[t].counts
    BY DEF GuardErrsOnlyOnUnclearReplies
  <2>1. reply[t] # None => reply[t].counts \subseteq {0, 1} /\ reply[t].lengths \subseteq {0, 1}
    BY DEF Judged, Reply
  <2>2. CASE result[t] = "applied" /\ call[t].tool # "create_recipe" /\ t \notin changed
    BY <2>1, <2>2 DEF Judged, Judgements, TrueOf, RefutesApply
  <2>3. CASE result[t] = "apply_not_executed" /\ t \in changed
    BY <2>1, <2>3 DEF Judged, Judgements, TrueOf, RefutesApply
  <2> QED
    BY <2>2, <2>3
<1> QED
  BY <1>1, Invariance, JudgedInvariance, PTL

-----------------------------------------------------------------------------
(* ToolCalls implements ToolPromises.                                      *)

NothingDone ==
    {"ok", "blocked", "validation_error", "invalid_recipe_payload"} \cup Contract!NoEffectOutcomes

\* What ToolPromises sees of a call and of an answer.
Purpose(c) ==
    IF c = None THEN "none"
    ELSE IF c.dryRun \/ c.tool \in ReadTools THEN "look" ELSE "change"

Meaning(r) ==
    IF r = None THEN "none"
    ELSE IF r = "applied" THEN "applied"
    ELSE IF r \in NothingDone THEN "nothing_done" ELSE "unclear"

SeenAsked == [t \in ToolCall |-> Purpose(call[t])]
SeenAnswer == [t \in ToolCall |-> Meaning(result[t])]

\* The abstract actions on what is seen of the concrete variables.
LEMMA SeenActions ==
    /\ Promises!Init <=> /\ SeenAsked = [t \in ToolCall |-> "none"]
                         /\ executed = [t \in ToolCall |-> 0]
                         /\ SeenAnswer = [t \in ToolCall |-> "none"]
    /\ \A t, p : Promises!Make(t, p) <=>
          /\ SeenAsked[t] = "none" /\ SeenAsked' = [SeenAsked EXCEPT ![t] = p]
          /\ executed' = executed /\ SeenAnswer' = SeenAnswer
    /\ \A t : Promises!TakeEffect(t) <=>
          /\ SeenAsked[t] = "change" /\ executed[t] = 0 /\ SeenAnswer[t] # "nothing_done"
          /\ executed' = [executed EXCEPT ![t] = 1]
          /\ SeenAsked' = SeenAsked /\ SeenAnswer' = SeenAnswer
    /\ \A t, a : Promises!Tell(t, a) <=>
          /\ SeenAsked[t] # "none" /\ SeenAnswer[t] = "none"
          /\ (a = "nothing_done" => executed[t] = 0) /\ (a = "applied" => executed[t] = 1)
          /\ SeenAnswer' = [SeenAnswer EXCEPT ![t] = a]
          /\ SeenAsked' = SeenAsked /\ executed' = executed
    /\ UNCHANGED Promises!vars <=>
          SeenAsked' = SeenAsked /\ executed' = executed /\ SeenAnswer' = SeenAnswer
  BY DEF Promises!Init, Promises!Make, Promises!TakeEffect, Promises!Tell, Promises!vars,
         SeenAsked, SeenAnswer, Purpose, Meaning, NothingDone

LEMMA PromisesInit == Init => Promises!Init
<1> SUFFICES ASSUME Init PROVE Promises!Init
  OBVIOUS
<1>1. executed = [t \in ToolCall |-> 0]
  BY DEF Init, Contract!Init
<1>2. SeenAsked = [t \in ToolCall |-> "none"] /\ SeenAnswer = [t \in ToolCall |-> "none"]
  BY DEF Init, SeenAsked, SeenAnswer, Purpose, Meaning
<1> QED
  BY <1>1, <1>2, SeenActions

\* A call is made once.
LEMMA SeenMake ==
    ASSUME IInv, NEW t \in ToolCall, NEW c \in Calling, Invoke(t, c)
    PROVE  Promises!Next
<1>1. SeenAsked[t] = "none" /\ SeenAsked' = [SeenAsked EXCEPT ![t] = Purpose(c)]
  BY DEF Invoke, IInv, Typing, SeenAsked, Purpose
<1>2. executed' = executed /\ SeenAnswer' = SeenAnswer
  BY DEF Invoke, backend, SeenAnswer
<1>3. Purpose(c) \in {"look", "change"}
  BY NoneIsNothing DEF Purpose
<1>4. Promises!Make(t, Purpose(c))
  BY <1>1, <1>2, SeenActions
<1> QED
  BY <1>3, <1>4 DEF Promises!Next, Promises!Purposes

\* An answer is given once, and is true when it is given.
LEMMA SeenTell ==
    ASSUME IInv, IInv', Judged', NEW r \in Results, Answered(r)
    PROVE  Promises!Next
<1> DEFINE a == Meaning(r)
<1>1. /\ current \in ToolCall /\ result'[current] = r /\ r # None
      /\ call' = call /\ executed' = executed /\ executed[current] \in Nat
  BY NoneIsNothing DEF Answered, IInv, Typing
<1>2. SeenAsked[current] # "none" /\ SeenAnswer[current] = "none"
  BY DEF Answered, SeenAsked, SeenAnswer, Purpose, Meaning
<1>3. SeenAnswer' = [SeenAnswer EXCEPT ![current] = a]
  BY DEF Answered, IInv, Typing, SeenAnswer
<1>4. a = "nothing_done" => executed[current] = 0
  <2>1. a = "nothing_done" => result'[current] \in NothingDone
    BY <1>1 DEF Meaning
  <2>2. RefusalsAreFinal'
    BY DEF IInv, Typing, SentApplies, Answers, RefusalsAreFinal, Refusals
  <2> QED
    BY <1>1, <2>1, <2>2 DEF RefusalsAreFinal, NothingDone
<1>5. a = "applied" => executed[current] = 1
  <2>1. a = "applied" => result'[current] = "applied"
    BY <1>1 DEF Meaning
  <2>2. result'[current] = "applied" => executed'[current] # 0 /\ executed'[current] <= 1
    BY <1>1 DEF Judged, Judgements
  <2> QED
    BY <1>1, <2>1, <2>2
<1>6. a \in {"nothing_done", "applied", "unclear"}
  BY <1>1 DEF Meaning
<1>7. SeenAsked' = SeenAsked
  BY <1>1 DEF SeenAsked
<1> HIDE DEF a
<1>8. Promises!Tell(current, a)
  BY <1>1, <1>2, <1>3, <1>4, <1>5, <1>7, SeenActions
<1> QED
  BY <1>1, <1>6, <1>8 DEF Promises!Next, Promises!Answers

\* An apply takes effect once, and never after a refusal.
LEMMA SeenExecute ==
    ASSUME IInv, NEW t \in ToolCall, Execute(t)
    PROVE  Promises!Next
<1>1. /\ t \in sent /\ executed[t] = 0 /\ outcome[t] \notin Contract!NoEffectOutcomes
      /\ executed' = [executed EXCEPT ![t] = 1]
      /\ call' = call /\ result' = result
  BY DEF Execute, Contract!Execute, IInv, Typing
<1>2. SeenAsked[t] = "change"
  BY <1>1 DEF IInv, SentApplies, SeenAsked, Purpose, ReadTools, WriteTools
<1>3. SeenAnswer[t] # "nothing_done"
  BY <1>1 DEF IInv, Answers, SeenAnswer, Meaning, NothingDone, Refusals
<1>4. SeenAsked' = SeenAsked /\ SeenAnswer' = SeenAnswer
  BY <1>1 DEF SeenAsked, SeenAnswer
<1>5. Promises!TakeEffect(t)
  BY <1>1, <1>2, <1>3, <1>4, SeenActions
<1> QED
  BY <1>5 DEF Promises!Next

LEMMA PromisesStep ==
    IInv /\ IInv' /\ Judged' /\ [Next]_vars => [Promises!Next]_(Promises!vars)
<1> SUFFICES ASSUME IInv, IInv', Judged', [Next]_vars
             PROVE  Promises!Next \/ UNCHANGED Promises!vars
  OBVIOUS
<1>1. ASSUME UNCHANGED <<call, executed, changed, reply, result>>
      PROVE  UNCHANGED Promises!vars
  BY <1>1, SeenActions DEF SeenAsked, SeenAnswer
<1>2. Judgements \subseteq Results
  BY DEF Judgements, Results
<1> QED
  BY <1>1, <1>2, StepsSeen, SeenMake, SeenTell, SeenExecute

\* The tools keep their promises: looks change nothing, changes take effect once at
\* most, and an answer is true when it is given and stays true.
THEOREM Refinement == Spec => ImplementsPromises
  BY Invariance, JudgedInvariance, PromisesInit, PromisesStep, PTL
     DEF Spec, ImplementsPromises, Promises!Spec

=============================================================================
