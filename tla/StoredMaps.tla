------------------------------ MODULE StoredMaps ------------------------------
(***************************************************************************)
(* What OAuthStorage (oauth_storage.py) promises the OAuth provider of     *)
(* each of its maps: an operation takes effect at one moment between its   *)
(* call and its return, or raises and has none; what has taken effect      *)
(* survives a crash.  It knows no files and no lock, and is the abstract   *)
(* specification that OAuthStorage is shown to implement.  OAuthGrants     *)
(* takes its writes as single steps on the strength of it.                 *)
(***************************************************************************)
CONSTANTS
    Ops,    \* the operations on the map, each made at most once
    Keys,   \* the ids of clients, flows, codes or refresh tokens
    None    \* no operation, no entry

VARIABLES
    map,      \* the value under each key, or None; a value is the save it is from
    call,     \* the kind and key of each operation, or None
    status,   \* "new", "called", "applied", "returned", "failed" or "lost"
    answer    \* what a lookup has found

vars == <<map, call, status, answer>>

Maps == [Keys -> Ops \cup {None}]
OpCalls == [kind : {"save", "delete", "lookup"}, key : Keys]

Init ==
    /\ map = [k \in Keys |-> None]
    /\ call = [o \in Ops |-> None]
    /\ status = [o \in Ops |-> "new"]
    /\ answer = [o \in Ops |-> None]

Without(m, keys) == [k \in Keys |-> IF k \in keys THEN None ELSE m[k]]

\* The map after operation o; a lookup removes entries that have expired.
After(m, o, c, expired) ==
    CASE c.kind = "save" -> [m EXCEPT ![c.key] = o]
      [] c.kind = "delete" -> Without(m, {c.key})
      [] c.kind = "lookup" -> Without(m, expired)

Found(m, c) == IF c.kind = "lookup" THEN m[c.key] ELSE None

Call(o, c) ==
    /\ status[o] = "new"
    /\ call' = [call EXCEPT ![o] = c]
    /\ status' = [status EXCEPT ![o] = "called"]
    /\ UNCHANGED <<map, answer>>

\* Any entry may have expired.
Apply(o) ==
    /\ status[o] = "called"
    /\ \E expired \in SUBSET Keys : map' = After(map, o, call[o], expired)
    /\ answer' = [answer EXCEPT ![o] = Found(map', call[o])]
    /\ status' = [status EXCEPT ![o] = "applied"]
    /\ UNCHANGED call

Return(o) ==
    /\ status[o] = "applied"
    /\ status' = [status EXCEPT ![o] = "returned"]
    /\ UNCHANGED <<map, call, answer>>

\* An operation that raises has changed nothing.
Fail(o) ==
    /\ status[o] = "called"
    /\ status' = [status EXCEPT ![o] = "failed"]
    /\ UNCHANGED <<map, call, answer>>

\* The operations under way are lost, whether they have taken effect or not.
Crash ==
    LET under == {o \in Ops : status[o] \in {"called", "applied"}}
    IN  /\ status' = [o \in Ops |-> IF o \in under THEN "lost" ELSE status[o]]
        /\ answer' = [o \in Ops |-> IF o \in under THEN None ELSE answer[o]]
        /\ UNCHANGED <<map, call>>

Next ==
    \/ \E o \in Ops, c \in OpCalls : Call(o, c)
    \/ \E o \in Ops : Apply(o) \/ Return(o) \/ Fail(o)
    \/ Crash

Spec == Init /\ [][Next]_vars

-----------------------------------------------------------------------------

\* No update is lost: an entry changes only when an operation takes effect that
\* was called for it, or a lookup that drops it as expired; it is then the entry
\* of that operation or none.
ChangesAreCalledFor ==
    [][\A k \in Keys : map'[k] # map[k] =>
          \E o \in Ops :
              /\ status[o] = "called" /\ status'[o] = "applied"
              /\ \/ call[o].kind = "save" /\ call[o].key = k /\ map'[k] = o
                 \/ call[o].kind = "delete" /\ call[o].key = k /\ map'[k] = None
                 \/ call[o].kind = "lookup" /\ map'[k] = None]_vars

=============================================================================
