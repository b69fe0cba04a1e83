----------------------------- MODULE OAuthStorage -----------------------------
(***************************************************************************)
(* OAuthStorage (oauth_storage.py): a map is kept in a JSON file, which an *)
(* operation reads whole, changes and writes whole, to a temporary file    *)
(* that is then renamed, all under one lock.  Any number of threads may    *)
(* call it, a write may fail, and the process may stop at any step; the    *)
(* files stay.                                                             *)
(*                                                                         *)
(* One of the four maps is modelled: they have files of their own and      *)
(* share the lock.  A value is the save that stored it, and which entries  *)
(* have expired is left open.  Not modelled: a power failure that loses    *)
(* what was written but is not yet on the disk.                            *)
(***************************************************************************)
CONSTANTS
    Ops,       \* the operations on the map, each made at most once
    Keys,      \* the keys of the map
    Missing,   \* a file that is not there
    Torn,      \* a file that is no JSON
    None       \* no operation, no entry

ASSUME NoneAssumption == None \notin Ops /\ Missing # Torn
ASSUME FilesAssumption == {Missing, Torn, None} \cap [Keys -> Ops \cup {None}] = {}

VARIABLES
    main,     \* the map's file
    tmp,      \* its temporary file
    lock,     \* the operation that holds the lock, or None
    call,     \* the kind and key of each operation, or None
    stage,    \* where each operation is
    data,     \* the map that each operation has in memory, or None
    answer    \* what each lookup has found

files == <<main, tmp>>
vars == <<files, lock, call, stage, data, answer>>

Maps == [Keys -> Ops \cup {None}]
OpCalls == [kind : {"save", "delete", "lookup"}, key : Keys]

Locked == {"changed", "opened", "filled", "done"}
Ended == {"returned", "failed", "lost"}

TypeOK ==
    /\ main \in Maps \cup {Missing, Torn}
    /\ tmp \in Maps \cup {Missing, Torn}
    /\ lock \in Ops \cup {None}
    /\ call \in [Ops -> OpCalls \cup {None}]
    /\ stage \in [Ops -> {"new", "called"} \cup Locked \cup Ended]
    /\ data \in [Ops -> Maps \cup {None}]
    /\ answer \in [Ops -> Ops \cup {None}]

Init ==
    /\ main = Missing
    /\ tmp = Missing
    /\ lock = None
    /\ call = [o \in Ops |-> None]
    /\ stage = [o \in Ops |-> "new"]
    /\ data = [o \in Ops |-> None]
    /\ answer = [o \in Ops |-> None]

-----------------------------------------------------------------------------
(* What an operation does to the map.                                      *)

\* _read_map(): a file that is not there is an empty map.
Contents(file) == IF file = Missing THEN [k \in Keys |-> None] ELSE file

Without(m, keys) == [k \in Keys |-> IF k \in keys THEN None ELSE m[k]]

\* A lookup drops the expired entries: get_flow() the one it was asked for, the
\* cleanups all of them, get_client() none.
Changed(m, o, c, expired) ==
    CASE c.kind = "save" -> [m EXCEPT ![c.key] = o]
      [] c.kind = "delete" -> Without(m, {c.key})
      [] c.kind = "lookup" -> Without(m, expired)

\* Mutant: a lookup tells whether there is an entry.
FoundFlag(m, c) == m[c.key] # None

Found(m, c) == IF c.kind = "lookup" THEN m[c.key] ELSE None

-----------------------------------------------------------------------------
(* The steps of an operation.                                              *)

Call(o, c) ==
    /\ stage[o] = "new"
    /\ call' = [call EXCEPT ![o] = c]
    /\ stage' = [stage EXCEPT ![o] = "called"]
    /\ UNCHANGED <<files, lock, data, answer>>

\* The file is read and the map changed.  A lookup that drops nothing has nothing
\* to write.
ReadAndChange(o) ==
    LET old == Contents(main)
    IN  \E expired \in SUBSET Keys :
            LET new == Changed(old, o, call[o], expired)
            IN  /\ data' = [data EXCEPT ![o] = new]
                /\ answer' = [answer EXCEPT ![o] = Found(new, call[o])]
                /\ stage' = [stage EXCEPT ![o] =
                        IF call[o].kind = "lookup" /\ new = old THEN "done" ELSE "changed"]

\* Mutant: the operation does not wait for the lock.
EnterUnlocked(o) ==
    /\ stage[o] = "called"
    /\ main # Torn
    /\ lock' = o
    /\ ReadAndChange(o)
    /\ UNCHANGED <<files, call>>

\* A file that is no JSON makes every operation raise; AlwaysReadable says that
\* there is none.
Enter(o) ==
    /\ stage[o] = "called"
    /\ lock = None
    /\ main # Torn
    /\ lock' = o
    /\ ReadAndChange(o)
    /\ UNCHANGED <<files, call>>

\* Mutant: the map's own file is opened.
OpenInPlace(o) ==
    /\ stage[o] = "changed"
    /\ stage' = [stage EXCEPT ![o] = "opened"]
    /\ main' = Torn
    /\ UNCHANGED <<tmp, lock, call, data, answer>>

\* open("w") empties what an earlier write may have left behind.
Open(o) ==
    /\ stage[o] = "changed"
    /\ stage' = [stage EXCEPT ![o] = "opened"]
    /\ tmp' = Torn
    /\ UNCHANGED <<main, lock, call, data, answer>>

\* All of the map has been written and the file is closed.
Fill(o) ==
    /\ stage[o] = "opened"
    /\ stage' = [stage EXCEPT ![o] = "filled"]
    /\ tmp' = data[o]
    /\ UNCHANGED <<main, lock, call, data, answer>>

Replace(o) ==
    /\ stage[o] = "filled"
    /\ stage' = [stage EXCEPT ![o] = "done"]
    /\ main' = tmp
    /\ tmp' = Missing
    /\ UNCHANGED <<lock, call, data, answer>>

\* The operation leaves the lock.
Leave(o, end) ==
    /\ lock' = None
    /\ stage' = [stage EXCEPT ![o] = end]
    /\ data' = [data EXCEPT ![o] = None]
    /\ UNCHANGED <<files, call>>

Return(o) ==
    /\ stage[o] = "done"
    /\ Leave(o, "returned")
    /\ UNCHANGED answer

\* Mutant: an exception leaves the lock held.
WriteFailsLocked(o) ==
    /\ stage[o] \in {"changed", "opened", "filled"}
    /\ stage' = [stage EXCEPT ![o] = "failed"]
    /\ data' = [data EXCEPT ![o] = None]
    /\ answer' = [answer EXCEPT ![o] = None]
    /\ UNCHANGED <<files, lock, call>>

\* Opening, writing or renaming raises (no space, no permission); what is in the
\* temporary file stays there.
WriteFails(o) ==
    /\ stage[o] \in {"changed", "opened", "filled"}
    /\ Leave(o, "failed")
    /\ answer' = [answer EXCEPT ![o] = None]

\* The process stops and is started again.
Crash ==
    LET under == {o \in Ops : stage[o] \in {"called"} \cup Locked}
    IN  /\ stage' = [o \in Ops |-> IF o \in under THEN "lost" ELSE stage[o]]
        /\ data' = [o \in Ops |-> None]
        /\ answer' = [o \in Ops |-> IF o \in under THEN None ELSE answer[o]]
        /\ lock' = None
        /\ UNCHANGED <<files, call>>

Step(o) == Enter(o) \/ Open(o) \/ Fill(o) \/ Replace(o) \/ Return(o) \/ WriteFails(o)

Next ==
    \/ \E o \in Ops, c \in OpCalls : Call(o, c)
    \/ \E o \in Ops : Step(o)
    \/ Crash

\* A thread in an operation goes on while it can.  The lock is fair to no thread
\* in particular.
Fairness == \A o \in Ops : WF_vars(Step(o))

Spec == Init /\ [][Next]_vars /\ Fairness

-----------------------------------------------------------------------------
(* Correctness.                                                            *)

\* No crash and no failed write leaves a file behind that a later operation could
\* not read: an unreadable file of clients or tokens would lock everybody out.
AlwaysReadable == main # Torn

\* Operations are atomic and durable (see StoredMaps): none overwrites what
\* another has stored since it read the file, one that raises has changed nothing, and
\* what has returned survives a crash.
Atomic == INSTANCE StoredMaps WITH
    map <- Contents(main),
    status <- [o \in Ops |->
        IF stage[o] = "done" THEN "applied"
        ELSE IF stage[o] \in Locked THEN "called" ELSE stage[o]],
    answer <- [o \in Ops |-> IF stage[o] \in {"done", "returned"} THEN answer[o] ELSE None]
ImplementsMaps == Atomic!Spec

\* The lock is held by an operation that is under way, and given up by one that
\* has ended for good: none keeps it after a failure, hands it on, or takes it
\* a second time.
LockIsGivenUp ==
    [][\A o \in Ops :
          /\ lock' = o => stage'[o] \in Locked
          /\ lock = o /\ lock' # o => lock' = None /\ stage'[o] \in Ended
          /\ stage[o] \in Ended => stage'[o] = stage[o]]_vars

\* Whatever fails, the lock is released: every operation ends.
OperationsEnd == \A o \in Ops : stage[o] = "called" ~> stage[o] \in Ended

=============================================================================
