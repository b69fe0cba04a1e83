-------------------------- MODULE OAuthStorageProofs --------------------------
(***************************************************************************)
(* OAuthStorage keeps its file readable and implements the atomic map of   *)
(* StoredMaps, for any number of operations and keys.  IInv says that the  *)
(* operations between their read and their rename are those that hold the  *)
(* lock, and that what such an operation has in memory is still made from  *)
(* what the file holds.                                                    *)
(***************************************************************************)
EXTENDS OAuthStorage, TLAPS

\* Only the holder of the lock has read the file; it has changed what it read.
Holding ==
    \A o \in Ops : stage[o] \in Locked =>
        /\ lock = o
        /\ call[o] \in OpCalls
        /\ data[o] \in Maps
        /\ answer[o] = Found(data[o], call[o])

Called == \A o \in Ops : stage[o] = "called" => call[o] \in OpCalls

\* Until it is renamed, the new map can be had from the old one by the operation.
Current ==
    \A o \in Ops : stage[o] \in Locked \ {"done"} =>
        \E expired \in SUBSET Keys :
            data[o] = Changed(Contents(main), o, call[o], expired)

\* What is about to be renamed is all there.
Whole == \A o \in Ops : stage[o] = "filled" => tmp = data[o]

IInv == TypeOK /\ AlwaysReadable /\ Holding /\ Called /\ Current /\ Whole

USE DEF files, Locked, Ended

-----------------------------------------------------------------------------
(* Maps.                                                                   *)

LEMMA ConstantsDiffer ==
    None \notin Ops /\ None \notin Maps /\ Torn \notin Maps /\ Missing \notin Maps
        /\ Missing # Torn
  BY NoneAssumption, FilesAssumption DEF Maps

LEMMA CallFields ==
    ASSUME NEW c \in OpCalls
    PROVE  c.kind \in {"save", "delete", "lookup"} /\ c.key \in Keys
  BY DEF OpCalls

LEMMA ContentsType ==
    ASSUME TypeOK, AlwaysReadable
    PROVE  Contents(main) \in Maps
  BY DEF TypeOK, AlwaysReadable, Contents, Maps

LEMMA ChangedType ==
    ASSUME NEW m \in Maps, NEW o \in Ops, NEW c \in OpCalls, NEW expired \in SUBSET Keys
    PROVE  /\ Changed(m, o, c, expired) \in Maps
           /\ Found(Changed(m, o, c, expired), c) \in Ops \cup {None}
<1>1. c.kind \in {"save", "delete", "lookup"} /\ c.key \in Keys
  BY CallFields
<1>2. [m EXCEPT ![c.key] = o] \in Maps
  BY DEF Maps
<1>3. Without(m, {c.key}) \in Maps /\ Without(m, expired) \in Maps
  BY DEF Maps, Without
<1>4. Changed(m, o, c, expired) \in Maps
  BY <1>1, <1>2, <1>3 DEF Changed
<1> QED
  BY <1>1, <1>4 DEF Found, Maps

-----------------------------------------------------------------------------

LEMMA InitInvariant == Init => IInv
  BY ConstantsDiffer DEF Init, IInv, TypeOK, AlwaysReadable, Holding, Called, Current, Whole

LEMMA CallStep ==
    ASSUME IInv, NEW o \in Ops, NEW c \in OpCalls, Call(o, c)
    PROVE  IInv'
<1> USE DEF Call
<1>1. TypeOK' /\ AlwaysReadable'
  BY DEF IInv, TypeOK, AlwaysReadable
<1>2. \A p \in Ops : p # o => stage'[p] = stage[p] /\ call'[p] = call[p]
  BY DEF IInv, TypeOK
<1>3. stage'[o] = "called" /\ call'[o] = c
  BY DEF IInv, TypeOK
<1>4. Holding' /\ Called'
  BY <1>2, <1>3 DEF IInv, Holding, Called
<1>5. Current' /\ Whole'
  BY <1>2, <1>3 DEF IInv, Current, Whole
<1> QED
  BY <1>1, <1>4, <1>5 DEF IInv

LEMMA EnterStep ==
    ASSUME IInv, NEW o \in Ops, Enter(o)
    PROVE  IInv'
<1> USE DEF Enter
<1>1. call[o] \in OpCalls /\ Contents(main) \in Maps
  BY ContentsType DEF IInv, Called
<1>2. \A p \in Ops : stage[p] \notin Locked
  BY ConstantsDiffer DEF IInv, Holding
<1>3. PICK expired \in SUBSET Keys :
          LET new == Changed(Contents(main), o, call[o], expired)
          IN  /\ data' = [data EXCEPT ![o] = new]
              /\ answer' = [answer EXCEPT ![o] = Found(new, call[o])]
              /\ stage' = [stage EXCEPT ![o] =
                    IF call[o].kind = "lookup" /\ new = Contents(main)
                      THEN "done" ELSE "changed"]
  BY DEF ReadAndChange
<1> DEFINE new == Changed(Contents(main), o, call[o], expired)
<1>4. new \in Maps /\ Found(new, call[o]) \in Ops \cup {None}
  BY <1>1, ChangedType
<1>5. /\ data' = [data EXCEPT ![o] = new]
      /\ answer' = [answer EXCEPT ![o] = Found(new, call[o])]
      /\ \/ stage' = [stage EXCEPT ![o] = "done"]
         \/ stage' = [stage EXCEPT ![o] = "changed"]
  BY <1>3
<1>6. Contents(main)' = Contents(main)
  BY DEF Contents
<1>7. new = Changed(Contents(main), o, call[o], expired)
  OBVIOUS
<1> HIDE DEF new
<1>8. TypeOK' /\ AlwaysReadable'
  BY <1>4, <1>5 DEF IInv, TypeOK, AlwaysReadable
<1>9. \A p \in Ops : p # o => stage'[p] = stage[p] /\ data'[p] = data[p] /\ answer'[p] = answer[p]
  BY <1>5 DEF IInv, TypeOK
<1>10. stage'[o] \in {"done", "changed"} /\ data'[o] = new /\ answer'[o] = Found(new, call[o])
  BY <1>5 DEF IInv, TypeOK
<1>11. Holding' /\ Called'
  BY <1>1, <1>2, <1>4, <1>9, <1>10 DEF IInv, Holding, Called
<1>12. Current'
  BY <1>2, <1>6, <1>7, <1>9, <1>10 DEF Current
<1>13. Whole'
  BY <1>2, <1>9, <1>10 DEF Whole
<1> QED
  BY <1>8, <1>11, <1>12, <1>13 DEF IInv

\* The steps of the holder that leave the map's file alone.
LEMMA OpenStep ==
    ASSUME IInv, NEW o \in Ops, Open(o)
    PROVE  IInv'
<1> USE DEF Open
<1>1. TypeOK' /\ AlwaysReadable'
  BY DEF IInv, TypeOK, AlwaysReadable
<1>2. \A p \in Ops : p # o => stage'[p] = stage[p] /\ stage[p] \notin Locked
  BY ConstantsDiffer DEF IInv, TypeOK, Holding
<1>3. stage'[o] = "opened"
  BY DEF IInv, TypeOK
<1>4. Holding' /\ Called'
  BY <1>2, <1>3 DEF IInv, Holding, Called
<1>5. Contents(main)' = Contents(main)
  BY DEF Contents
<1>6. Current' /\ Whole'
  BY <1>2, <1>3, <1>5 DEF IInv, Current, Whole
<1> QED
  BY <1>1, <1>4, <1>6 DEF IInv

LEMMA FillStep ==
    ASSUME IInv, NEW o \in Ops, Fill(o)
    PROVE  IInv'
<1> USE DEF Fill
<1>1. data[o] \in Maps
  BY DEF IInv, Holding
<1>2. TypeOK' /\ AlwaysReadable'
  BY <1>1 DEF IInv, TypeOK, AlwaysReadable
<1>3. \A p \in Ops : p # o => stage'[p] = stage[p] /\ stage[p] \notin Locked
  BY ConstantsDiffer DEF IInv, TypeOK, Holding
<1>4. stage'[o] = "filled"
  BY DEF IInv, TypeOK
<1>5. Holding' /\ Called'
  BY <1>3, <1>4 DEF IInv, Holding, Called
<1>6. Contents(main)' = Contents(main)
  BY DEF Contents
<1>7. Current' /\ Whole'
  BY <1>3, <1>4, <1>6 DEF IInv, Current, Whole
<1> QED
  BY <1>2, <1>5, <1>7 DEF IInv

\* The new map comes into force.
LEMMA ReplaceStep ==
    ASSUME IInv, NEW o \in Ops, Replace(o)
    PROVE  IInv' /\ Contents(main)' = data[o]
<1> USE DEF Replace
<1>1. tmp = data[o] /\ data[o] \in Maps
  BY DEF IInv, Whole, Holding
<1>2. main' = data[o] /\ main' # Missing /\ main' # Torn
  BY <1>1, ConstantsDiffer
<1>3. TypeOK' /\ AlwaysReadable'
  BY <1>1, <1>2 DEF IInv, TypeOK, AlwaysReadable
<1>4. \A p \in Ops : p # o => stage'[p] = stage[p] /\ stage[p] \notin Locked
  BY ConstantsDiffer DEF IInv, TypeOK, Holding
<1>5. stage'[o] = "done"
  BY DEF IInv, TypeOK
<1>6. Holding' /\ Called'
  BY <1>4, <1>5 DEF IInv, Holding, Called
<1>7. Current' /\ Whole'
  BY <1>4, <1>5 DEF Current, Whole
<1> QED
  BY <1>2, <1>3, <1>6, <1>7 DEF IInv, Contents

\* Leaving the lock, whether by a return or by an exception.
LEMMA LeaveStep ==
    ASSUME IInv, NEW o \in Ops, stage[o] \in Locked, NEW end \in {"returned", "failed"},
           Leave(o, end), answer' \in [Ops -> Ops \cup {None}]
    PROVE  IInv'
<1> USE DEF Leave
<1>1. TypeOK' /\ AlwaysReadable'
  BY DEF IInv, TypeOK, AlwaysReadable
<1>2. \A p \in Ops : p # o => stage'[p] = stage[p] /\ stage[p] \notin Locked
  BY ConstantsDiffer DEF IInv, TypeOK, Holding
<1>3. stage'[o] = end
  BY DEF IInv, TypeOK
<1>4. Holding' /\ Called' /\ Current' /\ Whole'
  BY <1>2, <1>3 DEF IInv, Holding, Called, Current, Whole
<1> QED
  BY <1>1, <1>4 DEF IInv

LEMMA CrashStep == IInv /\ Crash => IInv'
<1> SUFFICES ASSUME IInv, Crash PROVE IInv'
  OBVIOUS
<1> USE DEF Crash
<1>1. TypeOK' /\ AlwaysReadable'
  BY DEF IInv, TypeOK, AlwaysReadable
<1>2. \A p \in Ops : stage'[p] \notin Locked /\ stage'[p] # "called"
  BY DEF IInv, TypeOK
<1>3. Holding' /\ Called' /\ Current' /\ Whole'
  BY <1>2 DEF Holding, Called, Current, Whole
<1> QED
  BY <1>1, <1>3 DEF IInv

LEMMA NextInvariant == IInv /\ [Next]_vars => IInv'
<1> SUFFICES ASSUME IInv, [Next]_vars PROVE IInv'
  OBVIOUS
<1>1. ASSUME NEW o \in Ops, NEW c \in OpCalls, Call(o, c) PROVE IInv'
  BY <1>1, CallStep
<1>2. ASSUME NEW o \in Ops, Step(o) PROVE IInv'
  <2>1. CASE Enter(o)
    BY <2>1, EnterStep
  <2>2. CASE Open(o)
    BY <2>2, OpenStep
  <2>3. CASE Fill(o)
    BY <2>3, FillStep
  <2>4. CASE Replace(o)
    BY <2>4, ReplaceStep
  <2>5. CASE Return(o)
    BY <2>5, LeaveStep DEF Return, IInv, TypeOK
  <2>6. CASE WriteFails(o)
    BY <2>6, LeaveStep DEF WriteFails, IInv, TypeOK
  <2> QED
    BY <1>2, <2>1, <2>2, <2>3, <2>4, <2>5, <2>6 DEF Step
<1>3. CASE Crash
  BY <1>3, CrashStep
<1>4. CASE UNCHANGED vars
  <2>1. Contents(main)' = Contents(main)
    BY <1>4 DEF vars, Contents
  <2> QED
    BY <1>4, <2>1 DEF vars, IInv, TypeOK, AlwaysReadable, Holding, Called, Current, Whole
<1> QED
  BY <1>1, <1>2, <1>3, <1>4 DEF Next

-----------------------------------------------------------------------------

\* IInv holds in every reachable state.
THEOREM Invariance == Spec => []IInv
  BY InitInvariant, NextInvariant, PTL DEF Spec

\* The variables have their types.
THEOREM TypeCorrect == Spec => []TypeOK
<1>1. IInv => TypeOK
  BY DEF IInv
<1> QED
  BY <1>1, Invariance, PTL

\* No crash and no failed write makes the map's file unreadable.
THEOREM Readable == Spec => []AlwaysReadable
<1>1. IInv => AlwaysReadable
  BY DEF IInv
<1> QED
  BY <1>1, Invariance, PTL

-----------------------------------------------------------------------------
(* The lock.                                                               *)

\* What a step does to the lock, and to the operation o.
LockStep(o) ==
    /\ lock' = o => stage'[o] \in Locked
    /\ lock = o /\ lock' # o => lock' = None /\ stage'[o] \in Ended
    /\ stage[o] \in Ended => stage'[o] = stage[o]

\* Who holds the lock is under way, and not only the other way round.
Held == lock # None => stage[lock] \in Locked

\* An operation takes a free lock, or goes on under the lock that it holds.
LEMMA LockStepOf ==
    ASSUME IInv, Held, NEW p \in Ops, Step(p)
    PROVE  Held' /\ \A o \in Ops : LockStep(o)
<1> USE ConstantsDiffer
<1>1. \A o \in Ops : o # p => stage'[o] = stage[o]
  <2>1. CASE Enter(p)
    BY <2>1 DEF Enter, ReadAndChange, IInv, TypeOK
  <2>2. CASE Open(p) \/ Fill(p) \/ Replace(p)
    BY <2>2 DEF Open, Fill, Replace, IInv, TypeOK
  <2>3. CASE Return(p) \/ WriteFails(p)
    BY <2>3 DEF Return, WriteFails, Leave, IInv, TypeOK
  <2> QED
    BY <2>1, <2>2, <2>3 DEF Step
<1>2. CASE Enter(p)
  <2>1. lock = None /\ lock' = p /\ stage[p] = "called" /\ stage'[p] \in {"changed", "done"}
    BY <1>2 DEF Enter, ReadAndChange, IInv, TypeOK
  <2> QED
    BY <1>1, <2>1 DEF LockStep, Held
<1>3. CASE Open(p) \/ Fill(p) \/ Replace(p)
  <2>1. stage[p] \in Locked /\ stage'[p] \in Locked /\ lock' = lock
    BY <1>3 DEF Open, Fill, Replace, IInv, TypeOK
  <2>2. lock = p
    BY <2>1 DEF IInv, Holding
  <2> QED
    BY <1>1, <2>1, <2>2 DEF LockStep, Held
<1>4. CASE Return(p) \/ WriteFails(p)
  <2>1. stage[p] \in Locked /\ stage'[p] \in Ended /\ lock' = None
    BY <1>4 DEF Return, WriteFails, Leave, IInv, TypeOK
  <2>2. lock = p
    BY <2>1 DEF IInv, Holding
  <2> QED
    BY <1>1, <2>1, <2>2 DEF LockStep, Held
<1> QED
  BY <1>2, <1>3, <1>4 DEF Step

LEMMA LockStepOfAny ==
    ASSUME IInv, Held, [Next]_vars
    PROVE  Held' /\ \A o \in Ops : LockStep(o)
<1>1. ASSUME NEW p \in Ops, NEW c \in OpCalls, Call(p, c)
      PROVE  Held' /\ \A o \in Ops : LockStep(o)
  <2>1. lock' = lock /\ stage[p] = "new" /\ \A o \in Ops : o # p => stage'[o] = stage[o]
    BY <1>1 DEF Call, IInv, TypeOK
  <2>2. lock # p /\ (lock # None => lock \in Ops)
    BY <2>1, ConstantsDiffer DEF IInv, TypeOK, Held
  <2>3. stage'[p] = "called"
    BY <1>1 DEF Call, IInv, TypeOK
  <2> QED
    BY <2>1, <2>2, <2>3, ConstantsDiffer DEF LockStep, Held
<1>2. ASSUME NEW p \in Ops, Step(p) PROVE Held' /\ \A o \in Ops : LockStep(o)
  BY <1>2, LockStepOf
<1>3. CASE Crash
  <2>1. lock' = None /\ Held'
    BY <1>3 DEF Crash, Held
  <2>2. \A o \in Ops : stage'[o] = IF stage[o] \in {"called"} \cup Locked THEN "lost" ELSE stage[o]
    BY <1>3 DEF Crash
  <2> QED
    BY <2>1, <2>2, ConstantsDiffer DEF LockStep, Held
<1>4. CASE UNCHANGED vars
  BY <1>4, ConstantsDiffer DEF vars, LockStep, Held
<1> QED
  BY <1>1, <1>2, <1>3, <1>4 DEF Next

\* Whoever has the lock is under way, and gives it up when it ends, by a return, a
\* failure or a crash: nothing that can fail is done under the lock of another.
THEOREM LocksAreGivenUp == Spec => LockIsGivenUp
<1>1. Init => Held
  BY DEF Init, Held
<1>2. IInv /\ Held /\ [Next]_vars => Held'
  BY LockStepOfAny
<1>3. IInv /\ Held /\ [Next]_vars =>
          [\A o \in Ops :
              /\ lock' = o => stage'[o] \in Locked
              /\ lock = o /\ lock' # o => lock' = None /\ stage'[o] \in Ended
              /\ stage[o] \in Ended => stage'[o] = stage[o]]_vars
  BY LockStepOfAny DEF LockStep
<1> QED
  BY <1>1, <1>2, <1>3, Invariance, PTL DEF Spec, LockIsGivenUp

-----------------------------------------------------------------------------
(* The refinement: how a state of OAuthStorage is seen as one of StoredMaps *)
(* (see Atomic), and the step of StoredMaps that each action is.           *)

SeenMap == Contents(main)
SeenStatus ==
    [o \in Ops |->
        IF stage[o] = "done" THEN "applied"
        ELSE IF stage[o] \in Locked THEN "called" ELSE stage[o]]
SeenAnswer == [o \in Ops |-> IF stage[o] \in {"done", "returned"} THEN answer[o] ELSE None]

\* The step of one operation changes the status and the answer of no other.
LEMMA SeenStep ==
    ASSUME TypeOK, NEW o \in Ops, NEW s, NEW status, NEW found,
           stage' = [stage EXCEPT ![o] = s],
           status = IF s = "done" THEN "applied" ELSE IF s \in Locked THEN "called" ELSE s,
           found = IF s \in {"done", "returned"} THEN answer'[o] ELSE None,
           \A p \in Ops : p # o => answer'[p] = answer[p]
    PROVE  /\ SeenStatus' = [SeenStatus EXCEPT ![o] = status]
           /\ SeenAnswer' = [SeenAnswer EXCEPT ![o] = found]
  BY DEF TypeOK, SeenStatus, SeenAnswer

LEMMA SeenCall ==
    ASSUME IInv, NEW o \in Ops, NEW c \in OpCalls, Call(o, c)
    PROVE  Atomic!Call(o, c)
<1> USE DEF Call
<1>1. SeenStatus' = [SeenStatus EXCEPT ![o] = "called"]
  BY SeenStep DEF IInv, TypeOK
<1>2. SeenAnswer' = SeenAnswer
  BY DEF IInv, TypeOK, SeenAnswer
<1>3. SeenMap' = SeenMap /\ SeenStatus[o] = "new"
  BY DEF SeenMap, SeenStatus, Contents
<1> QED
  BY <1>1, <1>2, <1>3 DEF Atomic!Call, SeenMap, SeenStatus, SeenAnswer

\* The step by which the operation takes effect.
LEMMA SeenApply ==
    ASSUME IInv, NEW o \in Ops, stage[o] \in {"called"} \cup (Locked \ {"done"}),
           NEW expired \in SUBSET Keys,
           SeenMap' = Changed(SeenMap, o, call[o], expired),
           answer'[o] = Found(SeenMap', call[o]),
           \A p \in Ops : p # o => answer'[p] = answer[p],
           stage' = [stage EXCEPT ![o] = "done"],
           call' = call
    PROVE  Atomic!Apply(o)
<1>1. SeenStatus' = [SeenStatus EXCEPT ![o] = "applied"]
  BY SeenStep DEF IInv
<1>2. SeenAnswer' = [SeenAnswer EXCEPT ![o] = Found(SeenMap', call[o])]
  BY DEF IInv, TypeOK, SeenAnswer
<1>3. SeenStatus[o] = "called"
  BY DEF SeenStatus
<1>4. Atomic!Found(SeenMap', call[o]) = Found(SeenMap', call[o])
  BY DEF Atomic!Found, Found
<1>5. SeenMap' = Atomic!After(SeenMap, o, call[o], expired)
  BY DEF Atomic!After, Atomic!Without, Changed, Without
<1> QED
  BY <1>1, <1>2, <1>3, <1>4, <1>5 DEF Atomic!Apply, SeenMap, SeenStatus, SeenAnswer

\* A lookup that finds nothing to drop is over as it is made; the others are still
\* to be seen.
LEMMA SeenEnter ==
    ASSUME IInv, NEW o \in Ops, Enter(o)
    PROVE  Atomic!Apply(o) \/ UNCHANGED <<SeenMap, SeenStatus, SeenAnswer, call>>
<1> USE DEF Enter
<1>1. SeenMap' = SeenMap
  BY DEF SeenMap, Contents
<1>2. PICK expired \in SUBSET Keys :
          LET new == Changed(SeenMap, o, call[o], expired)
          IN  /\ answer' = [answer EXCEPT ![o] = Found(new, call[o])]
              /\ stage' = [stage EXCEPT ![o] =
                    IF call[o].kind = "lookup" /\ new = SeenMap THEN "done" ELSE "changed"]
  BY DEF ReadAndChange, SeenMap
<1>3. \A p \in Ops : p # o => answer'[p] = answer[p]
  BY <1>2 DEF IInv, TypeOK
<1> DEFINE new == Changed(SeenMap, o, call[o], expired)
<1>4. CASE call[o].kind = "lookup" /\ new = SeenMap
  <2>1. stage' = [stage EXCEPT ![o] = "done"]
    BY <1>2, <1>4
  <2>2. answer'[o] = Found(SeenMap', call[o])
    BY <1>1, <1>2, <1>4 DEF IInv, TypeOK
  <2> QED
    BY <1>1, <1>3, <1>4, <2>1, <2>2, SeenApply
<1>5. CASE ~(call[o].kind = "lookup" /\ new = SeenMap)
  <2>1. stage' = [stage EXCEPT ![o] = "changed"]
    BY <1>2, <1>5
  <2>2. SeenStatus' = SeenStatus /\ SeenAnswer' = SeenAnswer
    BY <1>3, <2>1 DEF IInv, TypeOK, SeenStatus, SeenAnswer
  <2> QED
    BY <1>1, <2>2
<1> QED
  BY <1>4, <1>5

\* Nothing is seen of the steps on the temporary file.
LEMMA SeenWrite ==
    ASSUME IInv, NEW o \in Ops, Open(o) \/ Fill(o)
    PROVE  UNCHANGED <<SeenMap, SeenStatus, SeenAnswer, call>>
<1>1. SeenMap' = SeenMap
  BY DEF Open, Fill, SeenMap, Contents
<1>2. SeenStatus' = SeenStatus /\ SeenAnswer' = SeenAnswer
  BY DEF Open, Fill, IInv, TypeOK, SeenStatus, SeenAnswer
<1> QED
  BY <1>1, <1>2 DEF Open, Fill

LEMMA SeenReplace ==
    ASSUME IInv, NEW o \in Ops, Replace(o)
    PROVE  Atomic!Apply(o)
<1>1. SeenMap' = data[o]
  BY ReplaceStep DEF SeenMap
<1>2. PICK expired \in SUBSET Keys : data[o] = Changed(SeenMap, o, call[o], expired)
  BY DEF Replace, IInv, Current, SeenMap
<1>3. answer[o] = Found(data[o], call[o])
  BY DEF Replace, IInv, Holding
<1> QED
  BY <1>1, <1>2, <1>3, SeenApply DEF Replace

LEMMA SeenLeave ==
    ASSUME IInv, NEW o \in Ops
    PROVE  /\ Return(o) => Atomic!Return(o)
           /\ WriteFails(o) => Atomic!Fail(o)
<1>1. ASSUME Return(o) PROVE Atomic!Return(o)
  <2>1. SeenMap' = SeenMap /\ SeenStatus[o] = "applied"
    BY <1>1 DEF Return, Leave, SeenMap, SeenStatus, Contents
  <2>2. SeenStatus' = [SeenStatus EXCEPT ![o] = "returned"]
    BY <1>1, SeenStep DEF Return, Leave, IInv
  <2>3. SeenAnswer' = SeenAnswer
    BY <1>1 DEF Return, Leave, IInv, TypeOK, SeenAnswer
  <2> QED
    BY <1>1, <2>1, <2>2, <2>3
       DEF Return, Leave, Atomic!Return, SeenMap, SeenStatus, SeenAnswer
<1>2. ASSUME WriteFails(o) PROVE Atomic!Fail(o)
  <2>1. SeenMap' = SeenMap /\ SeenStatus[o] = "called"
    BY <1>2 DEF WriteFails, Leave, SeenMap, SeenStatus, Contents
  <2>2. SeenStatus' = [SeenStatus EXCEPT ![o] = "failed"]
    BY <1>2 DEF WriteFails, Leave, IInv, TypeOK, SeenStatus
  <2>3. SeenAnswer' = SeenAnswer
    BY <1>2 DEF WriteFails, Leave, IInv, TypeOK, SeenAnswer
  <2> QED
    BY <1>2, <2>1, <2>2, <2>3
       DEF WriteFails, Leave, Atomic!Fail, SeenMap, SeenStatus, SeenAnswer
<1> QED
  BY <1>1, <1>2

LEMMA SeenCrash == IInv /\ Crash => Atomic!Crash
<1> SUFFICES ASSUME IInv, Crash PROVE Atomic!Crash
  OBVIOUS
<1> DEFINE under == {o \in Ops : SeenStatus[o] \in {"called", "applied"}}
<1>1. \A o \in Ops : o \in under <=> stage[o] \in {"called"} \cup Locked
  BY DEF IInv, TypeOK, SeenStatus
<1>2. SeenMap' = SeenMap /\ call' = call
  BY DEF Crash, SeenMap, Contents
<1>3. SeenStatus' = [o \in Ops |-> IF o \in under THEN "lost" ELSE SeenStatus[o]]
  BY <1>1 DEF Crash, IInv, TypeOK, SeenStatus
<1>4. SeenAnswer' = [o \in Ops |-> IF o \in under THEN None ELSE SeenAnswer[o]]
  BY <1>1 DEF Crash, IInv, TypeOK, SeenAnswer
<1> QED
  BY <1>2, <1>3, <1>4 DEF Atomic!Crash, SeenMap, SeenStatus, SeenAnswer

LEMMA SeenInit == Init => Atomic!Init
  BY DEF Init, Atomic!Init, Contents

LEMMA SeenNext == IInv /\ [Next]_vars => [Atomic!Next]_(Atomic!vars)
<1> SUFFICES ASSUME IInv, [Next]_vars PROVE [Atomic!Next]_(Atomic!vars)
  OBVIOUS
<1> DEFINE unseen == UNCHANGED <<SeenMap, SeenStatus, SeenAnswer, call>>
<1>1. unseen => UNCHANGED Atomic!vars
  BY DEF Atomic!vars, SeenMap, SeenStatus, SeenAnswer
<1>2. ASSUME NEW o \in Ops, NEW c \in OpCalls, Call(o, c) PROVE Atomic!Next
  BY <1>2, SeenCall DEF Atomic!Next, Atomic!OpCalls, OpCalls
<1>3. ASSUME NEW o \in Ops, Step(o) PROVE Atomic!Next \/ unseen
  BY <1>3, SeenEnter, SeenWrite, SeenReplace, SeenLeave DEF Step, Atomic!Next
<1>4. CASE Crash
  BY <1>4, SeenCrash DEF Atomic!Next
<1>5. ASSUME UNCHANGED vars PROVE unseen
  BY <1>5 DEF vars, SeenMap, SeenStatus, SeenAnswer, Contents
<1> QED
  BY <1>1, <1>2, <1>3, <1>4, <1>5 DEF Next

\* Every operation takes effect at one moment between its call and its return, or
\* raises and has none, and what has taken effect survives a crash.
THEOREM Refinement == Spec => ImplementsMaps
  BY Invariance, SeenInit, SeenNext, PTL DEF Spec, ImplementsMaps, Atomic!Spec

\* What a map has under a key changes only by an operation that was called for it:
\* no writer undoes what another has stored, whatever fails or crashes.
THEOREM NoLostUpdates == Spec => Atomic!ChangesAreCalledFor
<1> DEFINE CalledFor(k) ==
        \E o \in Ops :
            /\ SeenStatus[o] = "called" /\ SeenStatus'[o] = "applied"
            /\ \/ call[o].kind = "save" /\ call[o].key = k /\ SeenMap'[k] = o
               \/ call[o].kind = "delete" /\ call[o].key = k /\ SeenMap'[k] = None
               \/ call[o].kind = "lookup" /\ SeenMap'[k] = None
<1>1. ASSUME IInv, NEW o \in Ops, Atomic!Apply(o), NEW k \in Keys, SeenMap'[k] # SeenMap[k]
      PROVE  CalledFor(k)
  <2>1. /\ SeenStatus[o] = "called" /\ SeenStatus' = [SeenStatus EXCEPT ![o] = "applied"]
        /\ \E expired \in SUBSET Keys : SeenMap' = Atomic!After(SeenMap, o, call[o], expired)
    BY <1>1 DEF Atomic!Apply, SeenStatus, SeenMap
  <2>2. SeenMap \in Maps /\ call[o] \in OpCalls
    <3>1. stage[o] = "called" \/ stage[o] \in Locked
      BY <2>1 DEF SeenStatus
    <3> QED
      BY <1>1, <3>1, ContentsType DEF IInv, Called, Holding, SeenMap
  <2>3. SeenStatus'[o] = "applied"
    BY <2>1 DEF SeenStatus
  <2>4. PICK expired \in SUBSET Keys : SeenMap' = Atomic!After(SeenMap, o, call[o], expired)
    BY <2>1
  <2>5. CASE call[o].kind = "save"
    BY <1>1, <2>1, <2>2, <2>3, <2>4, <2>5 DEF Atomic!After, Maps
  <2>6. CASE call[o].kind = "delete"
    BY <1>1, <2>1, <2>2, <2>3, <2>4, <2>6 DEF Atomic!After, Atomic!Without
  <2>7. CASE call[o].kind = "lookup"
    BY <1>1, <2>1, <2>2, <2>3, <2>4, <2>7 DEF Atomic!After, Atomic!Without
  <2> QED
    BY <2>2, <2>5, <2>6, <2>7, CallFields
<1>2. ASSUME [Atomic!Next]_(Atomic!vars)
      PROVE  (\E o \in Ops : Atomic!Apply(o)) \/ SeenMap' = SeenMap
  BY <1>2 DEF Atomic!Next, Atomic!Call, Atomic!Return, Atomic!Fail, Atomic!Crash,
              Atomic!vars, SeenMap
<1>3. IInv /\ [Next]_vars =>
          [\A k \in Keys : Contents(main)'[k] # Contents(main)[k] =>
              \E o \in Ops :
                  /\ SeenStatus[o] = "called" /\ SeenStatus'[o] = "applied"
                  /\ \/ call[o].kind = "save" /\ call[o].key = k /\ Contents(main)'[k] = o
                     \/ call[o].kind = "delete" /\ call[o].key = k /\ Contents(main)'[k] = None
                     \/ call[o].kind = "lookup" /\ Contents(main)'[k] = None]_(Atomic!vars)
  BY <1>1, <1>2, SeenNext DEF SeenMap
<1> QED
  BY <1>3, Invariance, PTL DEF Spec, Atomic!ChangesAreCalledFor, SeenStatus

=============================================================================
