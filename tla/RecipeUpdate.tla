---------------------------- MODULE RecipeUpdate ----------------------------
(***************************************************************************)
(* update_recipe (service.py) on one recipe that other editors change too: *)
(* it fetches the recipe, merges the caller's payload over it and sends    *)
(* the result as one PUT, which the backend may execute late.  The request *)
(* is used through CallContract; updates follow one another, as every tool *)
(* call does.                                                              *)
(*                                                                         *)
(* Abstracted: a field's value is the write it comes from.  A list that    *)
(* the normalisers rebuild item by item is the same list.                  *)
(***************************************************************************)
EXTENDS Integers

CONSTANTS
    UpdateCalls,   \* the update_recipe calls with dry_run=False
    Edits,         \* the writes of other editors
    Carried,       \* the fields _normalize_recipe_for_update() lists
    Uncarried,     \* the other mutable fields of the backend's recipe schema
    Original,      \* the value of a field before all writes
    Empty,         \* the empty list or value, when a caller passes it
    Cleared,       \* what the backend leaves of a field that a PUT omits
    None           \* no call, no payload

ASSUME FieldsAssumption == Carried \cap Uncarried = {}
ASSUME ValuesAssumption ==
    /\ UpdateCalls \cap Edits = {}
    /\ {Original, Empty, Cleared, None} \cap (UpdateCalls \cup Edits) = {}
    /\ Cleared \notin {Original, Empty}

VARIABLES
    recipe,    \* the backend's recipe
    current,   \* the update in progress, or None
    stage,     \* where it is
    asked,     \* the payload of each call, or None
    put,       \* the body of the PUT each call has sent, or None
    outcome,   \* what request() has returned for that PUT
    executed,  \* how often the backend has executed it
    blind,     \* history: the calls that merged over an object that is no recipe
    touched,   \* history: the fields that changed between each call's fetch and
               \* the execution of its PUT
    meant      \* history: the recipe, had each write changed only the fields
               \* that its writer named

backend == <<outcome, executed>>
vars == <<recipe, current, stage, asked, put, backend, blind, touched, meant>>

Contract == INSTANCE CallContract WITH Calls <- UpdateCalls, IdempotentCalls <- {}

Fields == Carried \cup Uncarried
Values == UpdateCalls \cup Edits \cup {Original, Empty, Cleared}

\* JSON objects with some of the fields.
Objects == UNION {[S -> Values] : S \in SUBSET Fields}

\* No payload is None: a value that is no function with such a domain.
ASSUME NoneAssumption == None \notin Objects

TypeOK ==
    /\ recipe \in [Fields -> Values]
    /\ current \in UpdateCalls \cup {None}
    /\ stage \in {"idle", "fetch", "apply"}
    /\ asked \in [UpdateCalls -> Objects \cup {None}]
    /\ put \in [UpdateCalls -> Objects \cup {None}]
    /\ outcome \in [UpdateCalls -> {"none"} \cup Contract!Outcomes]
    /\ executed \in [UpdateCalls -> Nat]
    /\ blind \subseteq UpdateCalls
    /\ touched \in [UpdateCalls -> SUBSET Fields]
    /\ meant \in [Fields -> Values]

Init ==
    /\ recipe = [f \in Fields |-> Original]
    /\ current = None
    /\ stage = "idle"
    /\ asked = [c \in UpdateCalls |-> None]
    /\ put = [c \in UpdateCalls |-> None]
    /\ Contract!Init
    /\ blind = {}
    /\ touched = [c \in UpdateCalls |-> {}]
    /\ meant = [f \in Fields |-> Original]

-----------------------------------------------------------------------------
(* The merge.                                                              *)

\* a with the fields of b over it: dict.update().
Over(a, b) ==
    [f \in DOMAIN a \cup DOMAIN b |-> IF f \in DOMAIN b THEN b[f] ELSE a[f]]

\* What _extract_recipe() makes of a reply: the recipe, wherever the reply has
\* it, or an object that is none, as _safe_json() makes of a page.  A reply
\* without an object raises.
NoRecipe == [f \in {"raw"} |-> Original]
Extracted == {recipe, NoRecipe}

\* Mutant: what was fetched is sent back with whatever it has.
NormalizedNot(object) == object

\* _normalize_recipe_for_update() and the normalisers of the three lists.
Normalized(object) == [f \in DOMAIN object \cap Carried |-> object[f]]

\* Mutant: the payload is sent as it is.
MergedWithNothing(object, incoming) == incoming

\* Mutant: falsy values of the payload are skipped.
MergedTruthy(object, incoming) ==
    LET given == {f \in DOMAIN incoming : incoming[f] # Empty}
    IN  Over(Normalized(object), [f \in given |-> incoming[f]])

\* _merge_recipe_update_payload().
Merged(object, incoming) == Over(Normalized(object), incoming)

-----------------------------------------------------------------------------
(* Updates.                                                                *)

Payloads(c) == UNION {[S -> {c, Empty}] : S \in SUBSET Fields}

Invoke(c, payload) ==
    /\ stage = "idle"
    /\ asked[c] = None
    /\ asked' = [asked EXCEPT ![c] = payload]
    /\ current' = c
    /\ stage' = "fetch"
    /\ UNCHANGED <<recipe, put, backend, blind, touched, meant>>

Finish ==
    /\ current' = None
    /\ stage' = "idle"

\* The GET fails, or its reply has no object (invalid_recipe_payload).
FetchFails ==
    /\ stage = "fetch"
    /\ Finish
    /\ UNCHANGED <<recipe, asked, put, backend, blind, touched, meant>>

\* The PUT is sent as soon as the reply is merged.
FetchReturns ==
    /\ stage = "fetch"
    /\ \E object \in Extracted :
          /\ put' = [put EXCEPT ![current] = Merged(object, asked[current])]
          /\ blind' = IF object = recipe THEN blind ELSE blind \cup {current}
    /\ stage' = "apply"
    /\ UNCHANGED <<recipe, current, asked, backend, touched, meant>>

\* The PUT succeeds, or request() raises.  What _assert_apply_executed() makes of
\* the reply changes no state.
ApplyReturns(o) ==
    /\ stage = "apply"
    /\ Contract!Return(current, o)
    /\ Finish
    /\ UNCHANGED <<recipe, asked, put, blind, touched, meant>>

Restart ==
    /\ IF stage = "apply"
         THEN Contract!Return(current, "crashed")
         ELSE UNCHANGED backend
    /\ Finish
    /\ UNCHANGED <<recipe, asked, put, blind, touched, meant>>

-----------------------------------------------------------------------------
(* The backend and its other editors.                                      *)

Pending(c) == put[c] # None /\ executed[c] = 0

\* A write changes the recipe under the PUTs that are still pending.
Touch(others) ==
    LET differing == {f \in Fields : recipe'[f] # recipe[f]}
    IN  touched' = [c \in UpdateCalls |->
            IF c \in others THEN touched[c] \cup differing ELSE touched[c]]

\* A field that the PUT omits is kept or cleared.
ExecutePut(c) ==
    /\ put[c] # None
    /\ Contract!Execute(c)
    /\ \E lost \in SUBSET (Fields \ DOMAIN put[c]) :
          recipe' = Over(recipe, Over(put[c], [f \in lost |-> Cleared]))
    /\ meant' = Over(meant, asked[c])
    /\ Touch({d \in UpdateCalls : d # c /\ Pending(d)})
    /\ UNCHANGED <<current, stage, asked, put, blind>>

Edit(e, fields) ==
    /\ recipe' = Over(recipe, [f \in fields |-> e])
    /\ meant' = Over(meant, [f \in fields |-> e])
    /\ Touch({d \in UpdateCalls : Pending(d)})
    /\ UNCHANGED <<current, stage, asked, put, backend, blind>>

\* Success, a failure without effect and one that leaves it open: the others of
\* either kind are no different here.
Replies == {"ok", "client_error", "network_error"}

Next ==
    \/ \E c \in UpdateCalls : \E payload \in Payloads(c) : Invoke(c, payload)
    \/ FetchFails \/ FetchReturns
    \/ \E o \in Replies : ApplyReturns(o)
    \/ Restart
    \/ \E c \in UpdateCalls : ExecutePut(c)
    \/ \E e \in Edits, fields \in SUBSET Fields : Edit(e, fields)

Spec == Init /\ [][Next]_vars

-----------------------------------------------------------------------------
(* Correctness.                                                            *)

\* A write to a field that a caller or an editor named is undone only by a
\* race: some update sent the field as it was before it changed under that
\* update, or had read no recipe at all.  In particular an update does what it
\* was asked, and otherwise preserves what it read.
LostWritesRaced ==
    \A f \in Carried :
        recipe[f] # meant[f] =>
            \E c \in UpdateCalls : executed[c] > 0 /\ (c \in blind \/ f \in touched[c])

\* An update that got the recipe does what it was asked and nothing else to the
\* fields that the normaliser knows, unless others changed them while it was
\* under way; however late its PUT is executed, and whatever earlier updates did.
UpdatesDoAsAsked ==
    [][\A c \in UpdateCalls : executed'[c] # executed[c] =>
          /\ \A f \in DOMAIN asked[c] : recipe'[f] = asked[c][f]
          /\ c \notin blind => \A f \in Carried \ DOMAIN asked[c] :
                recipe'[f] = recipe[f] \/ f \in touched[c]]_vars

\* README.md: merging "prevents accidental clearing" of omitted fields.  A
\* field that the normaliser knows is cleared without being asked for only when
\* an update got an object that is no recipe and merged over it.
ClearedOnlyBlindly ==
    \A f \in Carried :
        recipe[f] = Cleared => \E c \in blind : executed[c] > 0

\* README.md: "MCP first reads the current recipe, merges your provided fields,
\* and sends a full update payload."  The normaliser does not know glassware.
FullPayload ==
    \A c \in UpdateCalls :
        put[c] # None /\ c \notin blind => Fields \subseteq DOMAIN put[c]

=============================================================================
