----------------------------- MODULE DeleteGuard -----------------------------
(***************************************************************************)
(* delete_ingredient and delete_tool (service.py): a scan of the recipes,  *)
(* page by page, for references to the ingredient or tool, and the delete  *)
(* that is sent when none is found or force is given.  Other editors       *)
(* change the recipes during the scan and after it, and the backend may    *)
(* return less, more or something else than the page it was asked for.     *)
(*                                                                         *)
(* One ingredient or tool is deleted, by several calls.  A request is used *)
(* through CallContract; calls follow one another.  The sample of recipes  *)
(* in the report is left out.                                              *)
(***************************************************************************)
EXTENDS Integers, Sequences, FiniteSets

CONSTANTS
    Deletes,    \* the delete calls
    Recipes,    \* the ids of recipes
    Mentions,   \* where recipes may mention the ingredient or tool; for a tool
                \* {"not", "listed"}, and "garnish" too for an ingredient, which
                \* then need not be in the list of ingredients
    PageLimit,  \* the largest page asked for: 250
    MaxScan,    \* max_scan: 2000
    None        \* no call, no report

ASSUME MentionsAssumption == {"not", "listed"} \subseteq Mentions
ASSUME SizesAssumption == PageLimit \in Nat \ {0} /\ MaxScan \in Nat \ {0}

VARIABLES
    order,     \* the recipes of the backend, in the order it lists them
    mentions,  \* where each recipe mentions the ingredient or tool
    current,   \* the call in progress, or None
    stage,     \* where it is
    mode,      \* how each call was made, or None
    offset,    \* the scan's local variables
    scanned,
    matched,
    report,    \* what the scan of each call has found, or None
    sent,      \* the calls that have sent their delete
    outcome,   \* what request() has returned for it
    executed,  \* how often the backend has executed it
    newer,     \* history: the recipes that were added, or began to list the
               \* ingredient or tool, since each call began
    doubts     \* history: what else makes a scan unreliable: "edited" recipes
               \* since the call began, some "removed" while it was scanning, a
               \* "window" other than the page it asked for

recipes == <<order, mentions>>
scan == <<offset, scanned, matched>>
backend == <<outcome, executed>>
history == <<newer, doubts>>
vars == <<recipes, current, stage, mode, scan, report, sent, backend, history>>

Contract == INSTANCE CallContract WITH Calls <- Deletes, IdempotentCalls <- {}

Modes == {"dry_run", "apply", "force"}

Report == [count : Nat, scanned : Nat, limited : BOOLEAN]

ASSUME NoneAssumption == None \notin Deletes \cup Modes \cup Report

TypeOK ==
    /\ order \in Seq(Recipes)
    /\ mentions \in [Recipes -> Mentions]
    /\ current \in Deletes \cup {None}
    /\ stage \in {"idle", "scan", "apply"}
    /\ mode \in [Deletes -> Modes \cup {None}]
    /\ offset \in Nat
    /\ scanned \in 0..MaxScan
    /\ matched \in Nat
    /\ report \in [Deletes -> Report \cup {None}]
    /\ sent \subseteq Deletes
    /\ outcome \in [Deletes -> {"none"} \cup Contract!Outcomes]
    /\ executed \in [Deletes -> Nat]
    /\ newer \in [Deletes -> SUBSET Recipes]
    /\ doubts \in [Deletes -> SUBSET {"edited", "removed", "window"}]

Init ==
    /\ order = <<>>
    /\ mentions = [r \in Recipes |-> "not"]
    /\ current = None
    /\ stage = "idle"
    /\ mode = [d \in Deletes |-> None]
    /\ offset = 0 /\ scanned = 0 /\ matched = 0
    /\ report = [d \in Deletes |-> None]
    /\ sent = {}
    /\ Contract!Init
    /\ newer = [d \in Deletes |-> {}]
    /\ doubts = [d \in Deletes |-> {}]

-----------------------------------------------------------------------------
(* The scan.                                                               *)

Smaller(m, n) == IF m < n THEN m ELSE n

PageSize == Smaller(PageLimit, MaxScan)

\* _recipe_contains_reference(): it looks at one list of the recipe.
Contains(r) == mentions[r] = "listed"

\* The places from lo to hi of the recipes that refer to it.
Hits(lo, hi) == {k \in lo..hi : Contains(order[k])}

Invoke(d, m) ==
    /\ stage = "idle"
    /\ mode[d] = None
    /\ mode' = [mode EXCEPT ![d] = m]
    /\ current' = d
    /\ stage' = "scan"
    /\ offset' = 0 /\ scanned' = 0 /\ matched' = 0
    /\ UNCHANGED <<recipes, report, sent, backend, history>>

\* The locals of a call are gone with it.
Finish ==
    /\ current' = None
    /\ stage' = "idle"
    /\ offset' = 0 /\ scanned' = 0 /\ matched' = 0

\* The scan is over, and with it a dry run, and a delete that is blocked.
Decide(found) ==
    /\ report' = [report EXCEPT ![current] = found]
    /\ IF mode[current] = "dry_run" \/ (found.count > 0 /\ mode[current] # "force")
         THEN Finish /\ UNCHANGED sent
         ELSE /\ stage' = "apply"
              /\ sent' = sent \cup {current}
              /\ UNCHANGED current
              /\ offset' = 0 /\ scanned' = 0 /\ matched' = 0

\* Mutant: only a short page ends the loop.
LastPageShort(n, seen) == n < PageSize

\* Mutant: a full page ends the loop too.
LastPageAny(n, seen) == n <= PageSize \/ seen >= MaxScan

\* The loop ends: seen recipes have been counted, n of them on this page.
LastPage(n, seen) == n < PageSize \/ seen >= MaxScan

\* Mutant: the next page starts after the first recipe that is still unseen.
NextOffsetBeyond(o) == o + PageSize + 1

NextOffset(o) == o + PageSize

\* A page has come: the n recipes that are listed after the first o.  An empty
\* page, one shorter than asked for, and the limit end the loop.
PageReturns(o, n) ==
    /\ stage = "scan"
    /\ LET room == MaxScan - scanned
           seen == scanned + n
           count == matched + Cardinality(Hits(o + 1, o + Smaller(n, room)))
       IN  IF LastPage(n, seen)
             THEN Decide([count |-> count,
                          scanned |-> Smaller(seen, MaxScan + 1),
                          limited |-> seen >= MaxScan])
             ELSE /\ offset' = NextOffset(offset)
                  /\ scanned' = seen
                  /\ matched' = count
                  /\ UNCHANGED <<current, stage, report, sent>>
    /\ doubts' = IF o = offset /\ n = Smaller(PageSize, Len(order) - offset)
                   THEN doubts
                   ELSE [doubts EXCEPT ![current] = @ \cup {"window"}]
    /\ UNCHANGED <<recipes, mode, backend, newer>>

\* Mutant: the scan starts again when a request for a page fails.
ScanFailsAndRestarts ==
    /\ stage = "scan"
    /\ offset' = 0 /\ scanned' = 0 /\ matched' = 0
    /\ UNCHANGED <<recipes, current, stage, mode, report, sent, backend, history>>

\* A request for a page fails, and with it the call.
ScanFails ==
    /\ stage = "scan"
    /\ Finish
    /\ UNCHANGED <<recipes, mode, report, sent, backend, history>>

\* What a backend may return for a page: it may heed the offset or not, and
\* return any number of recipes; what holds no list of objects counts as none.
Windows ==
    {w \in {0, offset} \X (0..Len(order)) : w[2] = 0 \/ w[1] + w[2] <= Len(order)}

Scan == ScanFails \/ \E w \in Windows : PageReturns(w[1], w[2])

-----------------------------------------------------------------------------
(* The delete.                                                             *)

ApplyReturns(o) ==
    /\ stage = "apply"
    /\ Contract!Return(current, o)
    /\ Finish
    /\ UNCHANGED <<recipes, mode, report, sent, history>>

Restart ==
    /\ IF stage = "apply"
         THEN Contract!Return(current, "crashed")
         ELSE UNCHANGED backend
    /\ Finish
    /\ UNCHANGED <<recipes, mode, report, sent, history>>

\* The backend executes a delete it was sent; what becomes of recipes that
\* mention the ingredient or tool is its own affair.
Execute(d) ==
    /\ d \in sent
    /\ Contract!Execute(d)
    /\ UNCHANGED <<recipes, current, stage, mode, scan, report, sent, history>>

-----------------------------------------------------------------------------
(* Other editors.                                                          *)

Stored == {order[k] : k \in 1..Len(order)}

\* Every edit concerns the calls that have begun; "removed" matters to a scan alone.
Edited(more, doubt) ==
    /\ newer' = [d \in Deletes |->
            IF mode[d] = None THEN newer[d] ELSE newer[d] \cup more]
    /\ doubts' = [d \in Deletes |->
            IF mode[d] = None THEN doubts[d]
            ELSE doubts[d] \cup {"edited"}
                     \cup (IF d = current /\ stage = "scan" THEN doubt ELSE {})]
    /\ UNCHANGED <<current, stage, mode, scan, report, sent, backend>>

\* A new recipe may come anywhere in the order.
Add(r, i, m) ==
    /\ r \notin Stored
    /\ order' = [k \in 1..(Len(order) + 1) |->
            IF k < i THEN order[k] ELSE IF k = i THEN r ELSE order[k - 1]]
    /\ mentions' = [mentions EXCEPT ![r] = m]
    /\ Edited({r}, {})

Remove(i) ==
    /\ order' = [k \in 1..(Len(order) - 1) |->
            IF k < i THEN order[k] ELSE order[k + 1]]
    /\ mentions' = [mentions EXCEPT ![order[i]] = "not"]
    /\ Edited({}, {"removed"})

Rewrite(r, m) ==
    /\ r \in Stored
    /\ m # mentions[r]
    /\ mentions' = [mentions EXCEPT ![r] = m]
    /\ UNCHANGED order
    /\ Edited({r}, {})

Next ==
    \/ \E d \in Deletes, m \in Modes : Invoke(d, m)
    \/ Scan
    \/ \E o \in {"ok", "client_error", "network_error"} : ApplyReturns(o)
    \/ Restart
    \/ \E d \in Deletes : Execute(d)
    \/ \E r \in Recipes, m \in Mentions :
          \/ \E i \in 1..(Len(order) + 1) : Add(r, i, m)
          \/ Rewrite(r, m)
    \/ \E i \in 1..Len(order) : Remove(i)

\* Whoever called a tool keeps running it: each wait for a page is bounded by
\* httpx's timeout and ends with a page or a failure.
Fairness == WF_vars(Scan)

Spec == Init /\ [][Next]_vars /\ Fairness

-----------------------------------------------------------------------------
(* Correctness.                                                            *)

\* The scan of d got the pages it asked for and reached the end of the list.
Reliable(d) == doubts[d] \cap {"removed", "window"} = {} /\ ~report[d].limited

\* README.md: a delete is blocked "if references are found".  After a reliable
\* scan without force the delete is sent only if every recipe that lists the
\* ingredient or tool was changed since the call began, however the order of the
\* recipes has shifted under the scan.
UnforcedDeletesWereUnused ==
    \A d \in sent :
        mode[d] = "apply" /\ Reliable(d) =>
            \A r \in Stored : Contains(r) => r \in newer[d]

\* README.md: the report "includes reference count": it is exact when nothing
\* was edited and the limit was not reached.
QuietScansCount ==
    \A d \in Deletes :
        report[d] # None /\ Reliable(d) /\ "edited" \notin doubts[d] =>
            /\ report[d].scanned = Len(order)
            /\ report[d].count = Cardinality(Hits(1, Len(order)))

\* Each page is asked for a page further on and within the limit, whatever the
\* backend returns and whoever edits the recipes: a scan sends at most MaxScan
\* / PageSize requests, rounded up.
ScanAdvances ==
    [][stage = "scan" /\ stage' = "scan" /\ scan' # scan =>
          offset' >= offset + PageSize /\ offset' < MaxScan]_vars

\* The scan ends whatever the backend returns, even the same full page over and
\* over.
ScanEnds == stage = "scan" ~> stage # "scan"

\* README.md: "If references are found, apply mode is blocked unless force=true."
\* Garnishes refer to ingredients, and the scan does not look at them.
ReferencedDeletesAreBlocked ==
    \A d \in sent :
        mode[d] = "apply" /\ Reliable(d) /\ "edited" \notin doubts[d] =>
            \A r \in Stored : mentions[r] = "not"

=============================================================================
