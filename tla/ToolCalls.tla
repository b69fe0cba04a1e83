------------------------------ MODULE ToolCalls ------------------------------
(***************************************************************************)
(* The tools (tool_registry.py) over the service (service.py): what a tool *)
(* call sends, when it may change the backend, what it answers and what it *)
(* writes to the operation log.                                            *)
(*                                                                         *)
(* A tool call makes some idempotent requests and at most one apply, whose *)
(* outcome and effect are related as CallContract says: an apply may still *)
(* be executed after its call has failed or the process was restarted.     *)
(* The tools are plain functions, so one call is in progress at a time.    *)
(*                                                                         *)
(* Abstracted: arguments and payloads; a read is one step, whatever number *)
(* of requests it takes; of a reply only what _assert_apply_executed reads *)
(* is kept, counts and lengths as zero or one.                             *)
(***************************************************************************)
EXTENDS Integers, Sequences

CONSTANTS
    ToolCall,   \* the tool calls, each made at most once
    MaxLog,     \* MCP_OPERATION_LOG_SIZE
    None        \* no call, no result, no reply

\* deque(maxlen=...) refuses a negative size when the server is built.
ASSUME LogAssumption == MaxLog \in Nat

VARIABLES
    call,       \* the tool and the flags of each call, or None
    current,    \* the call in progress, or None
    stage,      \* where it is
    sent,       \* the calls that sent their apply
    outcome,    \* what request() has returned for the apply of each call
    executed,   \* how often the backend has executed that apply
    changed,    \* the calls whose apply changed rows
    reply,      \* the reply to the apply, or None
    result,     \* what each call has answered, or None
    log,        \* the operation log, newest entry first
    answered    \* history: the calls answered since the start, newest first

backend == <<outcome, executed, changed>>
vars == <<call, current, stage, sent, backend, reply, result, log, answered>>

Contract == INSTANCE CallContract WITH Calls <- ToolCall, IdempotentCalls <- {}

\* read: list_*, get_recipe; probe: api_capabilities; log: operation_log_recent;
\* create_recipe; local: the other creates and updates, delete_recipe;
\* update_recipe; delete: delete_ingredient, delete_tool; bulk: merge_*,
\* recategorize_recipes, bulk_update_recipes, update_tags_bulk.
ReadTools == {"read", "probe", "log"}
WriteTools == {"create_recipe", "local", "update_recipe", "delete", "bulk"}

\* Reads have no dry_run, and only deletes have a force flag.
Calling ==
    {c \in [tool : ReadTools \cup WriteTools, dryRun : BOOLEAN, force : BOOLEAN] :
         /\ c.dryRun => c.tool \in WriteTools
         /\ c.force => c.tool = "delete"}

\* What a reply says of the rows it changed; one that is no JSON object says
\* nothing.
Reply == [dryRun : BOOLEAN, applied : {"unsaid", "yes", "no"},
          counts : SUBSET {0, 1}, lengths : SUBSET {0, 1}]

Results ==
    {"ok", "applied", "blocked", "validation_error", "apply_not_executed",
     "invalid_recipe_payload"} \cup (Contract!Outcomes \ {"crashed"})

ASSUME NoneAssumption == None \notin ToolCall \cup Calling \cup Reply \cup Results

Stages == {"idle", "answer", "read", "fetch", "precheck", "preview", "apply"}

TypeOK ==
    /\ call \in [ToolCall -> Calling \cup {None}]
    /\ current \in ToolCall \cup {None}
    /\ stage \in Stages
    /\ sent \subseteq ToolCall
    /\ outcome \in [ToolCall -> {"none"} \cup Contract!Outcomes]
    /\ executed \in [ToolCall -> Nat]
    /\ changed \subseteq ToolCall
    /\ reply \in [ToolCall -> Reply \cup {None}]
    /\ result \in [ToolCall -> Results \cup {None}]
    /\ log \in Seq([call : ToolCall, status : {"ok", "error"}])
    /\ answered \in Seq(ToolCall)

Init ==
    /\ call = [t \in ToolCall |-> None]
    /\ current = None
    /\ stage = "idle"
    /\ sent = {}
    /\ Contract!Init
    /\ changed = {}
    /\ reply = [t \in ToolCall |-> None]
    /\ result = [t \in ToolCall |-> None]
    /\ log = <<>>
    /\ answered = <<>>

-----------------------------------------------------------------------------
(* Answers and the operation log.                                          *)

Successes == {"ok", "applied", "blocked"}

\* Mutant: a full log drops the newest entry.
LoggedAtTheEnd(entries, l) ==
    LET all == l \o entries
    IN  SubSeq(all, 1, IF Len(all) < MaxLog THEN Len(all) ELSE MaxLog)

\* deque.appendleft() drops the oldest entry of a full log.
Logged(entries, l) ==
    LET all == entries \o l
    IN  SubSeq(all, 1, IF Len(all) < MaxLog THEN Len(all) ELSE MaxLog)

\* _run(): one entry for the call; the result of a read that ok_result() cannot
\* hold has been logged as a success by then and is logged as an error again.
Entries(t, r) ==
    IF r \in Successes THEN <<[call |-> t, status |-> "ok"]>>
    ELSE IF r = "validation_error" /\ call[t].tool = "read"
         THEN <<[call |-> t, status |-> "error"], [call |-> t, status |-> "ok"]>>
    ELSE <<[call |-> t, status |-> "error"]>>

Answer(r) ==
    /\ result' = [result EXCEPT ![current] = r]
    /\ log' = Logged(Entries(current, r), log)
    /\ answered' = <<current>> \o answered
    /\ current' = None
    /\ stage' = "idle"

-----------------------------------------------------------------------------
(* Tool calls.                                                             *)

\* Mutant: update_recipe fetches and merges before it looks at dry_run, and
\* goes on.
FirstStageFetching(tool, dryRun) ==
    CASE tool \in {"read", "probe"} -> "read"
      [] tool = "log" -> "answer"
      [] tool = "delete" -> "precheck"
      [] tool = "bulk" /\ dryRun -> "preview"
      [] tool = "update_recipe" -> "fetch"
      [] tool \in {"create_recipe", "local"} /\ dryRun -> "answer"
      [] OTHER -> "apply"

\* A dry run is answered from the arguments alone, except that deletes look for
\* references and bulk tools let the backend preview.
FirstStage(tool, dryRun) ==
    CASE tool \in {"read", "probe"} -> "read"
      [] tool = "log" -> "answer"
      [] tool = "delete" -> "precheck"
      [] tool = "bulk" /\ dryRun -> "preview"
      [] tool \in {"create_recipe", "local", "update_recipe"} /\ dryRun -> "answer"
      [] tool = "update_recipe" /\ ~dryRun -> "fetch"
      [] OTHER -> "apply"

\* A bulk tool whose list of ids is empty is refused before it sends anything.
Invoke(t, c) ==
    /\ stage = "idle"
    /\ call[t] = None
    /\ call' = [call EXCEPT ![t] = c]
    /\ current' = t
    /\ \/ stage' = FirstStage(c.tool, c.dryRun)
       \/ c.tool = "bulk" /\ stage' = "answer"
    /\ sent' = IF stage' = "apply" THEN sent \cup {t} ELSE sent
    /\ UNCHANGED <<backend, reply, result, log, answered>>

AnswerAtOnce ==
    /\ stage = "answer"
    /\ Answer(IF call[current].tool = "bulk" THEN "validation_error" ELSE "ok")
    /\ UNCHANGED <<call, sent, backend, reply>>

\* An idempotent request fails.  api_capabilities() notes an ApiError and goes
\* on; what is no ApiError becomes an internal error.
ReadFails(o) ==
    /\ stage \in {"read", "fetch", "precheck", "preview"}
    /\ call[current].tool = "probe" => o = "transport_error"
    /\ Answer(o)
    /\ UNCHANGED <<call, sent, backend, reply>>

\* A list, an object or nothing is passed on; a number or a string is not.
ReadReturns ==
    /\ stage = "read"
    /\ \/ Answer("ok")
       \/ call[current].tool = "read" /\ Answer("validation_error")
    /\ UNCHANGED <<call, sent, backend, reply>>

PreviewReturns ==
    /\ stage = "preview"
    /\ Answer("ok")
    /\ UNCHANGED <<call, sent, backend, reply>>

SendApply ==
    /\ stage' = "apply"
    /\ sent' = sent \cup {current}
    /\ UNCHANGED <<current, result, log, answered>>

\* update_recipe merges its payload over the recipe, if it got one.
FetchReturns ==
    /\ stage = "fetch"
    /\ \/ SendApply
       \/ Answer("invalid_recipe_payload") /\ UNCHANGED sent
    /\ UNCHANGED <<call, backend, reply>>

\* Mutant: the reference check is skipped on the way to the apply.
PrecheckReturnsUnheeded ==
    /\ stage = "precheck"
    /\ \/ call[current].dryRun /\ Answer("ok") /\ UNCHANGED sent
       \/ \E referenced \in BOOLEAN :
              /\ ~call[current].dryRun
              /\ sent' = sent \cup {current}
              /\ IF referenced /\ ~call[current].force
                   THEN Answer("blocked")
                   ELSE /\ stage' = "apply"
                        /\ UNCHANGED <<current, result, log, answered>>
    /\ UNCHANGED <<call, backend, reply>>

\* Deletes look for references whatever the flags are; whether the scan finds
\* any is left open here.
PrecheckReturns ==
    /\ stage = "precheck"
    /\ \/ call[current].dryRun /\ Answer("ok") /\ UNCHANGED sent
       \/ ~call[current].dryRun /\ SendApply
       \/ /\ ~call[current].dryRun /\ ~call[current].force
          /\ Answer("blocked") /\ UNCHANGED sent
    /\ UNCHANGED <<call, backend, reply>>

\* Mutant: a reply is believed unless it says dry_run.
RefutesApplyFlagOnly(r) == r.dryRun

\* _assert_apply_executed().
RefutesApply(r) ==
    \/ r.dryRun
    \/ r.applied = "no"
    \/ r.counts = {0}
    \/ r.lengths = {0}

\* Mutant: what is no ApiError escapes from _run().
ApplyFailsUncaught(o) ==
    /\ stage = "apply"
    /\ o # "ok"
    /\ Contract!Return(current, o)
    /\ Answer(IF o = "transport_error" THEN "raised" ELSE o)
    /\ UNCHANGED <<call, sent, changed, reply>>

\* The apply fails; _run() makes an answer of every exception.
ApplyFails(o) ==
    /\ stage = "apply"
    /\ o # "ok"
    /\ Contract!Return(current, o)
    /\ Answer(o)
    /\ UNCHANGED <<call, sent, changed, reply>>

\* What an honest backend may say of an apply it has executed.
Truthful(r) ==
    \/ /\ current \in changed
       /\ ~r.dryRun /\ r.applied # "no"
       /\ 1 \in r.counts \cup r.lengths \/ r.counts \cup r.lengths = {}
    \/ current \notin changed /\ 1 \notin r.counts \cup r.lengths

ApplyReturns ==
    /\ stage = "apply"
    /\ Contract!Return(current, "ok")
    /\ \E r \in Reply :
          /\ Truthful(r)
          /\ reply' = [reply EXCEPT ![current] = r]
          /\ Answer(IF call[current].tool # "create_recipe" /\ RefutesApply(r)
                      THEN "apply_not_executed" ELSE "applied")
    /\ UNCHANGED <<call, sent, changed>>

-----------------------------------------------------------------------------
(* The backend and restarts.                                               *)

\* The backend executes an apply it was sent, which may have nothing to change.
Execute(t) ==
    /\ t \in sent
    /\ Contract!Execute(t)
    /\ changed' \in {changed, changed \cup {t}}
    /\ UNCHANGED <<call, current, stage, sent, reply, result, log, answered>>

\* The process stops and is started again; the log is in memory only.
Restart ==
    /\ IF stage = "apply"
         THEN Contract!Return(current, "crashed")
         ELSE UNCHANGED <<outcome, executed>>
    /\ current' = None
    /\ stage' = "idle"
    /\ log' = <<>>
    /\ answered' = <<>>
    /\ UNCHANGED <<call, sent, changed, reply, result>>

Failures == Contract!Outcomes \ {"ok", "crashed"}

Next ==
    \/ \E t \in ToolCall, c \in Calling : Invoke(t, c)
    \/ AnswerAtOnce
    \/ \E o \in Failures : ReadFails(o) \/ ApplyFails(o)
    \/ ReadReturns \/ PreviewReturns \/ FetchReturns \/ PrecheckReturns
    \/ ApplyReturns
    \/ \E t \in ToolCall : Execute(t)
    \/ Restart

Spec == Init /\ [][Next]_vars

-----------------------------------------------------------------------------
(* Correctness.                                                            *)

\* A call with dry_run=True, and a read, never has an effect at the backend
\* (README.md, "Dry-run safety defaults for destructive tools").
DryRunsChangeNothing ==
    \A t \in ToolCall :
        call[t] # None /\ (call[t].dryRun \/ call[t].tool \in ReadTools)
            => executed[t] = 0 /\ t \notin changed

\* An answer that says that nothing was done is final: no late copy of the
\* apply can change the backend afterwards.
RefusalsAreFinal ==
    \A t \in ToolCall :
        result[t] \in {"ok", "blocked", "validation_error", "invalid_recipe_payload"}
                          \cup Contract!NoEffectOutcomes
            => executed[t] = 0 /\ t \notin changed

\* Other than create_recipe, no tool answers that it applied what the backend
\* denies (README.md, "Apply integrity guard").
DeniedAppliesAreErrors ==
    \A t \in ToolCall :
        result[t] = "applied" /\ call[t].tool # "create_recipe"
            => /\ ~reply[t].dryRun /\ reply[t].applied # "no"
               /\ reply[t].counts \cup reply[t].lengths # {0}

\* What the tools promise their callers (see ToolPromises).
Promises == INSTANCE ToolPromises WITH
    asked <- [t \in ToolCall |->
        IF call[t] = None THEN "none"
        ELSE IF call[t].dryRun \/ call[t].tool \in ReadTools THEN "look" ELSE "change"],
    effects <- executed,
    answer <- [t \in ToolCall |->
        IF result[t] = None THEN "none"
        ELSE IF result[t] = "applied" THEN "applied"
        ELSE IF result[t] \in {"ok", "blocked", "validation_error", "invalid_recipe_payload"}
                                  \cup Contract!NoEffectOutcomes
             THEN "nothing_done" ELSE "unclear"]
ImplementsPromises == Promises!Spec

\* README.md, "Apply integrity guard": the guard is wrong about an apply only where
\* the backend's reply leaves it open: "applied" for one that changed no row only
\* when the reply counts nothing, "apply_not_executed" for one that did only when it
\* counts nothing of one kind and something of the other.
GuardErrsOnlyOnUnclearReplies ==
    \A t \in ToolCall :
        LET counts == reply[t].counts
            lengths == reply[t].lengths
        IN  /\ result[t] = "applied" /\ call[t].tool # "create_recipe" /\ t \notin changed
                   => counts \cup lengths = {}
            /\ result[t] = "apply_not_executed" /\ t \in changed
                   => \/ counts = {0} /\ 1 \in lengths
                      \/ lengths = {0} /\ 1 \in counts

\* The log holds the latest calls, each first with the status it was answered with:
\* as a call adds two entries at most, those that half of the log has room for.
LatestCallsAreLogged ==
    \A i \in 1..Len(answered) :
        2 * i <= MaxLog =>
            \E j \in 1..Len(log) :
                /\ log[j].call = answered[i]
                /\ log[j].status = "ok" <=> result[answered[i]] \in Successes
                /\ \A k \in 1..(j - 1) : log[k].call # answered[i]

\* README.md promises the guard for every tool; create_recipe has none.
EveryToolIsGuarded ==
    \A t \in ToolCall :
        result[t] = "applied" => ~reply[t].dryRun

\* "apply_not_executed" means that nothing was changed (README.md: "the backend
\* explicitly reports zero changed rows/ids").  Counts and ids are judged apart,
\* so that an apply that removed an unused ingredient fails.
NotExecutedMeansUnchanged ==
    \A t \in ToolCall : result[t] = "apply_not_executed" => t \notin changed

=============================================================================
