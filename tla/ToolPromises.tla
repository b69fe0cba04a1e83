----------------------------- MODULE ToolPromises -----------------------------
(***************************************************************************)
(* What the tools promise whoever calls them (README.md, "Safety           *)
(* Behavior"), without stages, requests or replies: a look changes         *)
(* nothing; a change takes effect once at most; after an answer that       *)
(* nothing was done it never does, and an answer that it was applied is    *)
(* given only when it has been.  What an unclear failure leaves behind may *)
(* still take effect.  ToolCalls implements this.                          *)
(***************************************************************************)
EXTENDS Integers

CONSTANT ToolCall   \* the tool calls, each made at most once

VARIABLES
    asked,     \* what each call is for, "none" before it is made
    effects,   \* how often it has taken effect at the backend
    answer     \* what its caller was told, "none" until then

vars == <<asked, effects, answer>>

\* "look": a read or a dry run.
Purposes == {"look", "change"}
Answers == {"nothing_done", "applied", "unclear"}

Init ==
    /\ asked = [t \in ToolCall |-> "none"]
    /\ effects = [t \in ToolCall |-> 0]
    /\ answer = [t \in ToolCall |-> "none"]

Make(t, purpose) ==
    /\ asked[t] = "none"
    /\ asked' = [asked EXCEPT ![t] = purpose]
    /\ UNCHANGED <<effects, answer>>

TakeEffect(t) ==
    /\ asked[t] = "change"
    /\ effects[t] = 0
    /\ answer[t] # "nothing_done"
    /\ effects' = [effects EXCEPT ![t] = 1]
    /\ UNCHANGED <<asked, answer>>

\* A call that a restart has ended is never answered.
Tell(t, a) ==
    /\ asked[t] # "none"
    /\ answer[t] = "none"
    /\ a = "nothing_done" => effects[t] = 0
    /\ a = "applied" => effects[t] = 1
    /\ answer' = [answer EXCEPT ![t] = a]
    /\ UNCHANGED <<asked, effects>>

Next ==
    \E t \in ToolCall :
        \/ \E purpose \in Purposes : Make(t, purpose)
        \/ TakeEffect(t)
        \/ \E a \in Answers : Tell(t, a)

Spec == Init /\ [][Next]_vars

=============================================================================
