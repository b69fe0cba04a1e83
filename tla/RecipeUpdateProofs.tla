------------------------- MODULE RecipeUpdateProofs -------------------------
(***************************************************************************)
(* The safety of RecipeUpdate for any number of updates, editors and       *)
(* fields.  IInv says what a PUT that is still pending holds: what was     *)
(* asked for, and the present value of every other field it has read and   *)
(* that nobody has changed since.                                          *)
(***************************************************************************)
EXTENDS RecipeUpdate, TLAPS

\* The update in progress, and what has been sent for each.
InProgress ==
    /\ stage = "idle" <=> current = None
    /\ stage = "fetch" => asked[current] # None /\ put[current] = None
    /\ stage = "apply" => put[current] # None
    /\ \A c \in UpdateCalls :
          /\ asked[c] # None => asked[c] \in Payloads(c)
          /\ put[c] # None => asked[c] # None
          /\ put[c] = None => c \notin blind /\ executed[c] = 0

\* A body holds what was asked for, and every field of a recipe it was merged over.
Bodies ==
    \A c \in UpdateCalls : put[c] # None =>
        /\ \A f \in DOMAIN asked[c] : f \in DOMAIN put[c] /\ put[c][f] = asked[c][f]
        /\ c \notin blind => Carried \subseteq DOMAIN put[c]

\* What a pending body has read is still so, where nobody has changed it.
Fresh ==
    \A c \in UpdateCalls : Pending(c) /\ c \notin blind =>
        \A f \in Carried \ (DOMAIN asked[c] \cup touched[c]) : put[c][f] = recipe[f]

SomeBlind == \E c \in blind : executed[c] > 0

\* Cleared comes to a body only from a recipe that was cleared.
Clearings ==
    /\ ClearedOnlyBlindly
    /\ \A c \in UpdateCalls : put[c] # None =>
          \A f \in Carried \cap DOMAIN put[c] : put[c][f] = Cleared => SomeBlind

IInv == TypeOK /\ InProgress /\ Bodies /\ Fresh /\ Clearings /\ LostWritesRaced

USE DEF Contract!Outcomes, Contract!NoEffectOutcomes, Contract!UnclearOutcomes, Contract!Applies

-----------------------------------------------------------------------------
(* Objects.                                                                *)

LEMMA ObjectsAre ==
    ASSUME NEW o
    PROVE  o \in Objects <=> DOMAIN o \in SUBSET Fields /\ o \in [DOMAIN o -> Values]
<1>1. ASSUME o \in Objects PROVE DOMAIN o \in SUBSET Fields /\ o \in [DOMAIN o -> Values]
  <2>1. PICK S \in SUBSET Fields : o \in [S -> Values]
    BY <1>1 DEF Objects
  <2> QED
    BY <2>1
<1>2. ASSUME DOMAIN o \in SUBSET Fields, o \in [DOMAIN o -> Values] PROVE o \in Objects
  BY <1>2 DEF Objects
<1> QED
  BY <1>1, <1>2

\* dict.update() gives an object.
LEMMA OverType ==
    ASSUME NEW a \in Objects, NEW b \in Objects
    PROVE  Over(a, b) \in Objects
<1>1. DOMAIN a \subseteq Fields /\ DOMAIN b \subseteq Fields
      /\ a \in [DOMAIN a -> Values] /\ b \in [DOMAIN b -> Values]
  BY ObjectsAre
<1>2. Over(a, b) \in [DOMAIN a \cup DOMAIN b -> Values]
  BY <1>1 DEF Over
<1>3. DOMAIN a \cup DOMAIN b \in SUBSET Fields
  BY <1>1
<1> QED
  BY <1>2, <1>3 DEF Objects

LEMMA PayloadType ==
    ASSUME NEW c \in UpdateCalls, NEW p \in Payloads(c)
    PROVE  p \in Objects /\ \A f \in DOMAIN p : p[f] # Cleared
<1>1. PICK S \in SUBSET Fields : p \in [S -> {c, Empty}]
  BY DEF Payloads
<1>2. {c, Empty} \subseteq Values /\ Cleared \notin {c, Empty}
  BY ValuesAssumption DEF Values
<1>3. p \in [S -> Values]
  BY <1>1, <1>2
<1> QED
  BY <1>1, <1>2, <1>3 DEF Objects

\* A write by a full or partial object keeps the recipe total.
LEMMA WriteType ==
    ASSUME NEW r \in [Fields -> Values], NEW o \in Objects
    PROVE  Over(r, o) \in [Fields -> Values]
<1>1. DOMAIN o \subseteq Fields /\ o \in [DOMAIN o -> Values]
  BY ObjectsAre
<1> QED
  BY <1>1 DEF Over

LEMMA NormalizedRecipe ==
    ASSUME recipe \in [Fields -> Values]
    PROVE  /\ Normalized(recipe) \in Objects
           /\ DOMAIN Normalized(recipe) = Carried
           /\ \A f \in Carried : Normalized(recipe)[f] = recipe[f]
<1>1. Carried \in SUBSET Fields /\ Fields \cap Carried = Carried
  BY DEF Fields
<1>2. Normalized(recipe) = [f \in Carried |-> recipe[f]]
  BY <1>1 DEF Normalized
<1>3. Normalized(recipe) \in [Carried -> Values]
  BY <1>1, <1>2
<1> QED
  BY <1>1, <1>2, <1>3 DEF Objects

LEMMA NormalizedOther ==
    /\ Normalized(NoRecipe) \in Objects
    /\ \A f \in DOMAIN Normalized(NoRecipe) : Normalized(NoRecipe)[f] = Original
<1> DEFINE S == {"raw"} \cap Carried
<1>1. Normalized(NoRecipe) = [f \in S |-> Original]
  BY DEF Normalized, NoRecipe
<1>2. S \in SUBSET Fields /\ Original \in Values
  BY DEF Fields, Values
<1>3. Normalized(NoRecipe) \in [S -> Values]
  BY <1>1, <1>2
<1> QED
  BY <1>1, <1>2, <1>3 DEF Objects

-----------------------------------------------------------------------------

LEMMA InitInvariant == Init => IInv
<1> SUFFICES ASSUME Init PROVE IInv
  OBVIOUS
<1> USE DEF Init, Contract!Init
<1>1. TypeOK
  BY DEF TypeOK, Values
<1>2. InProgress /\ Bodies /\ Fresh
  BY DEF InProgress, Bodies, Fresh, Pending
<1>3. Clearings
  BY ValuesAssumption DEF Clearings, ClearedOnlyBlindly, Fields
<1>4. LostWritesRaced
  BY DEF LostWritesRaced, Fields
<1> QED
  BY <1>1, <1>2, <1>3, <1>4 DEF IInv

\* Steps that change neither the recipe, nor what is sent, nor what the backend
\* has done.
LEMMA QuietStep ==
    ASSUME IInv, UNCHANGED <<recipe, put, executed, blind, touched, meant>>,
           \A c \in UpdateCalls : put[c] # None => asked'[c] = asked[c]
    PROVE  Bodies' /\ Fresh' /\ Clearings' /\ LostWritesRaced'
  BY DEF IInv, Bodies, Fresh, Pending, Clearings, ClearedOnlyBlindly, SomeBlind, LostWritesRaced

LEMMA InvokeStep ==
    ASSUME IInv, NEW c \in UpdateCalls, NEW payload \in Payloads(c), Invoke(c, payload)
    PROVE  IInv'
<1> USE DEF Invoke, backend
<1>1. payload \in Objects /\ payload # None
  BY PayloadType, NoneAssumption
<1>2. TypeOK'
  BY <1>1 DEF IInv, TypeOK
<1>3. put[c] = None
  BY DEF IInv, InProgress
<1>4. InProgress'
  BY <1>1, <1>3, ValuesAssumption DEF IInv, TypeOK, InProgress, Payloads
<1> QED
  BY <1>2, <1>3, <1>4, QuietStep DEF IInv

\* The call in progress ends; its PUT, if any, stays with the backend.
LEMMA EndStep ==
    ASSUME IInv, Finish, UNCHANGED <<recipe, asked, put, executed, blind, touched, meant>>,
           outcome' \in [UpdateCalls -> {"none"} \cup Contract!Outcomes]
    PROVE  IInv'
<1>1. TypeOK'
  BY DEF IInv, TypeOK, Finish
<1>2. InProgress'
  BY DEF IInv, InProgress, Finish, Payloads
<1> QED
  BY <1>1, <1>2, QuietStep DEF IInv

\* The PUT is merged over a recipe, or over an object that is none.
LEMMA FetchStep == IInv /\ FetchReturns => IInv'
<1> SUFFICES ASSUME IInv, FetchReturns PROVE IInv'
  OBVIOUS
<1> USE DEF FetchReturns, backend
<1>1. current \in UpdateCalls /\ put[current] = None /\ executed[current] = 0
      /\ asked[current] \in Payloads(current) /\ current \notin blind
  BY DEF IInv, TypeOK, InProgress
<1>2. PICK object \in Extracted :
          /\ put' = [put EXCEPT ![current] = Merged(object, asked[current])]
          /\ blind' = IF object = recipe THEN blind ELSE blind \cup {current}
  OBVIOUS
<1> DEFINE body == Merged(object, asked[current])
<1>3. asked[current] \in Objects /\ \A f \in DOMAIN asked[current] : asked[current][f] # Cleared
  BY <1>1, PayloadType
<1>4. Normalized(object) \in Objects
  BY NormalizedRecipe, NormalizedOther DEF Extracted, IInv, TypeOK
<1>5. /\ body \in Objects /\ body # None
      /\ DOMAIN body = DOMAIN Normalized(object) \cup DOMAIN asked[current]
      /\ \A f \in DOMAIN asked[current] : body[f] = asked[current][f]
      /\ \A f \in DOMAIN body \ DOMAIN asked[current] : body[f] = Normalized(object)[f]
  <2> DEFINE read == Normalized(object)
  <2>1. body = Over(read, asked[current])
    BY DEF Merged
  <2>2. body \in Objects
    BY <1>3, <1>4, <2>1, OverType
  <2>3. body # None
    BY <2>2, NoneAssumption
  <2> HIDE DEF body, read
  <2>4. /\ DOMAIN body = DOMAIN read \cup DOMAIN asked[current]
        /\ \A f \in DOMAIN asked[current] : body[f] = asked[current][f]
        /\ \A f \in DOMAIN read \ DOMAIN asked[current] : body[f] = read[f]
    BY <2>1 DEF Over
  <2> QED
    BY <2>2, <2>3, <2>4 DEF read
<1>6. /\ put'[current] = body
      /\ \A c \in UpdateCalls : c # current =>
             put'[c] = put[c] /\ (c \in blind' <=> c \in blind)
  BY <1>1, <1>2 DEF IInv, TypeOK
<1> HIDE DEF body
<1>7. TypeOK'
  BY <1>1, <1>2, <1>5 DEF IInv, TypeOK, body
<1>8. InProgress'
  BY <1>1, <1>5, <1>6 DEF IInv, InProgress, Payloads
<1>9. current \notin blind' => object = recipe
  BY <1>2
<1>10. current \notin blind' => /\ Carried \subseteq DOMAIN body
                                /\ \A f \in Carried \ DOMAIN asked[current] : body[f] = recipe[f]
  BY <1>5, <1>9, NormalizedRecipe DEF IInv, TypeOK
<1>11. Bodies'
  BY <1>5, <1>6, <1>10 DEF IInv, Bodies
<1>12. Fresh'
  BY <1>6, <1>10 DEF IInv, Fresh, Pending
<1>13. SomeBlind' <=> SomeBlind
  BY <1>1, <1>2 DEF SomeBlind, IInv, TypeOK
<1>14. \A f \in Carried \cap DOMAIN body : body[f] = Cleared => SomeBlind
  <2> SUFFICES ASSUME NEW f \in Carried \cap DOMAIN body, body[f] = Cleared PROVE SomeBlind
    OBVIOUS
  <2>1. f \notin DOMAIN asked[current] /\ Normalized(object)[f] = Cleared /\ f \in DOMAIN Normalized(object)
    BY <1>3, <1>5
  <2>2. object = recipe
    BY <2>1, NormalizedOther, ValuesAssumption DEF Extracted
  <2> QED
    BY <2>1, <2>2, NormalizedRecipe DEF IInv, TypeOK, Clearings, ClearedOnlyBlindly, SomeBlind
<1>15. Clearings'
  BY <1>6, <1>13, <1>14 DEF IInv, Clearings, ClearedOnlyBlindly, SomeBlind
<1>16. LostWritesRaced'
  BY <1>1, <1>2 DEF IInv, LostWritesRaced
<1> QED
  BY <1>7, <1>8, <1>11, <1>12, <1>15, <1>16 DEF IInv

\* A write touches the pending PUTs that it leaves pending.
LEMMA FreshStep ==
    ASSUME IInv, NEW others \in SUBSET UpdateCalls, Touch(others),
           UNCHANGED <<asked, put, blind>>,
           \A c \in UpdateCalls : Pending(c)' => Pending(c) /\ c \in others
    PROVE  /\ Fresh'
           /\ \A c \in UpdateCalls : touched[c] \subseteq touched'[c]
           /\ touched' \in [UpdateCalls -> SUBSET Fields]
<1>1. touched' \in [UpdateCalls -> SUBSET Fields]
      /\ \A c \in UpdateCalls : touched[c] \subseteq touched'[c]
  BY DEF IInv, TypeOK, Touch
<1>2. ASSUME NEW c \in UpdateCalls, Pending(c)', c \notin blind',
             NEW f \in Carried \ (DOMAIN asked[c]' \cup touched'[c])
      PROVE  put'[c][f] = recipe'[f]
  <2>1. f \in Fields /\ c \in others /\ Pending(c)
    BY <1>2 DEF Fields
  <2>2. recipe'[f] = recipe[f]
    BY <1>2, <2>1 DEF Touch
  <2> QED
    BY <1>1, <1>2, <2>1, <2>2 DEF IInv, Fresh
<1> QED
  BY <1>1, <1>2 DEF Fresh

\* The recipe after a PUT: what the body holds, and some fields that it omits cleared.
LEMMA PutWrites ==
    ASSUME IInv, NEW c \in UpdateCalls, ExecutePut(c)
    PROVE  /\ recipe' \in [Fields -> Values]
           /\ \A f \in DOMAIN put[c] : recipe'[f] = put[c][f]
           /\ \A f \in Fields \ DOMAIN put[c] : recipe'[f] \in {recipe[f], Cleared}
<1> USE DEF ExecutePut
<1>1. put[c] \in Objects /\ DOMAIN put[c] \subseteq Fields
  BY ObjectsAre DEF IInv, TypeOK
<1>2. PICK lost \in SUBSET (Fields \ DOMAIN put[c]) :
          recipe' = Over(recipe, Over(put[c], [f \in lost |-> Cleared]))
  OBVIOUS
<1> DEFINE clearing == [f \in lost |-> Cleared]
<1>3. clearing \in Objects /\ DOMAIN clearing = lost
  <2>1. clearing \in [lost -> Values] /\ lost \in SUBSET Fields
    BY DEF Values
  <2> QED
    BY <2>1 DEF Objects
<1>4. recipe' \in [Fields -> Values]
  BY <1>1, <1>2, <1>3, OverType, WriteType DEF IInv, TypeOK
<1>5. /\ \A f \in DOMAIN put[c] : recipe'[f] = put[c][f]
      /\ \A f \in lost : recipe'[f] = Cleared
      /\ \A f \in Fields \ (DOMAIN put[c] \cup lost) : recipe'[f] = recipe[f]
  BY <1>1, <1>2 DEF Over, IInv, TypeOK
<1> QED
  BY <1>4, <1>5

LEMMA ExecuteStep ==
    ASSUME IInv, NEW c \in UpdateCalls, ExecutePut(c)
    PROVE  IInv'
<1> USE DEF ExecutePut, Contract!Execute
<1>1. put[c] \in Objects /\ asked[c] \in Payloads(c) /\ executed[c] = 0
  BY DEF IInv, TypeOK, InProgress
<1>2. asked[c] \in Objects /\ (\A f \in DOMAIN asked[c] : asked[c][f] # Cleared)
  BY <1>1, PayloadType
<1>3. meant' \in [Fields -> Values]
  BY <1>2, WriteType DEF IInv, TypeOK
<1>4. recipe' \in [Fields -> Values]
  BY PutWrites
<1>5. /\ \A f \in DOMAIN put[c] : recipe'[f] = put[c][f]
      /\ \A f \in Fields \ DOMAIN put[c] : recipe'[f] \in {recipe[f], Cleared}
  BY PutWrites
<1>6. /\ \A f \in DOMAIN asked[c] : meant'[f] = asked[c][f]
      /\ \A f \in Fields \ DOMAIN asked[c] : meant'[f] = meant[f]
  BY <1>2, ObjectsAre DEF Over, IInv, TypeOK
<1>7. /\ executed' \in [UpdateCalls -> Nat] /\ executed'[c] = 1
      /\ \A d \in UpdateCalls : d # c => executed'[d] = executed[d]
  BY <1>1 DEF IInv, TypeOK
<1>8. /\ Fresh'
      /\ \A d \in UpdateCalls : touched[d] \subseteq touched'[d]
      /\ touched' \in [UpdateCalls -> SUBSET Fields]
  <2>1. \A d \in UpdateCalls : Pending(d)' => Pending(d) /\ d # c
    BY <1>7 DEF Pending
  <2>2. {d \in UpdateCalls : d # c /\ Pending(d)} \in SUBSET UpdateCalls
    OBVIOUS
  <2> QED
    BY <2>1, <2>2, FreshStep
<1>9. TypeOK'
  BY <1>3, <1>4, <1>7, <1>8 DEF IInv, TypeOK
<1>10. InProgress' /\ Bodies'
  BY <1>7 DEF IInv, InProgress, Bodies, Payloads
<1>11. SomeBlind => SomeBlind'
  BY <1>7 DEF SomeBlind, IInv, TypeOK
<1>12. c \in blind => SomeBlind'
  BY <1>7 DEF SomeBlind
<1>13. \A f \in Carried : recipe'[f] = Cleared => SomeBlind'
  <2> SUFFICES ASSUME NEW f \in Carried, recipe'[f] = Cleared, c \notin blind PROVE SomeBlind'
    BY <1>12
  <2>1. f \in DOMAIN put[c]
    BY DEF IInv, Bodies
  <2> QED
    BY <1>5, <1>11, <2>1 DEF IInv, Clearings
<1>14. Clearings'
  BY <1>11, <1>13 DEF IInv, Clearings, ClearedOnlyBlindly, SomeBlind
<1>15. ASSUME NEW f \in Carried, recipe'[f] # meant'[f]
       PROVE  \E d \in UpdateCalls : executed'[d] > 0 /\ (d \in blind' \/ f \in touched'[d])
  <2>1. CASE c \in blind \/ f \in touched[c]
    BY <1>7, <1>8, <2>1
  <2>2. CASE ~(c \in blind \/ f \in touched[c])
    <3>1. f \notin DOMAIN asked[c]
      BY <1>5, <1>6, <1>15, <2>2 DEF IInv, Bodies
    <3>2. f \in DOMAIN put[c] /\ put[c][f] = recipe[f]
      BY <1>1, <2>2, <3>1 DEF IInv, Bodies, Fresh, Pending
    <3>3. recipe[f] # meant[f]
      BY <1>5, <1>6, <1>15, <3>1, <3>2 DEF Fields
    <3>4. PICK d \in UpdateCalls : executed[d] > 0 /\ (d \in blind \/ f \in touched[d])
      BY <3>3 DEF IInv, LostWritesRaced
    <3> QED
      BY <1>1, <1>7, <1>8, <3>4
  <2> QED
    BY <2>1, <2>2
<1>16. LostWritesRaced'
  BY <1>15 DEF LostWritesRaced
<1> QED
  BY <1>8, <1>9, <1>10, <1>14, <1>16 DEF IInv

LEMMA EditStep ==
    ASSUME IInv, NEW e \in Edits, NEW fields \in SUBSET Fields, Edit(e, fields)
    PROVE  IInv'
<1> USE DEF Edit, backend
<1> DEFINE write == [f \in fields |-> e]
<1>1. write \in Objects /\ DOMAIN write = fields
  <2>1. write \in [fields -> Values]
    BY DEF Values
  <2> QED
    BY <2>1 DEF Objects
<1>2. recipe' \in [Fields -> Values] /\ meant' \in [Fields -> Values]
  BY <1>1, WriteType DEF IInv, TypeOK
<1>3. \A f \in Fields :
          IF f \in fields THEN recipe'[f] = e /\ meant'[f] = e
          ELSE recipe'[f] = recipe[f] /\ meant'[f] = meant[f]
  BY DEF Over, IInv, TypeOK
<1>4. /\ Fresh'
      /\ \A d \in UpdateCalls : touched[d] \subseteq touched'[d]
      /\ touched' \in [UpdateCalls -> SUBSET Fields]
  <2>1. \A d \in UpdateCalls : Pending(d)' => Pending(d)
    BY DEF Pending
  <2>2. {d \in UpdateCalls : Pending(d)} \in SUBSET UpdateCalls
    OBVIOUS
  <2> QED
    BY <2>1, <2>2, FreshStep
<1>5. TypeOK'
  BY <1>2, <1>4 DEF IInv, TypeOK
<1>6. InProgress' /\ Bodies'
  BY DEF IInv, InProgress, Bodies, Payloads
<1>7. e # Cleared
  BY ValuesAssumption
<1>8. Clearings'
  BY <1>3, <1>7 DEF IInv, Clearings, ClearedOnlyBlindly, SomeBlind, Fields
<1>9. LostWritesRaced'
  BY <1>3, <1>4 DEF IInv, LostWritesRaced, Fields
<1> QED
  BY <1>4, <1>5, <1>6, <1>8, <1>9 DEF IInv

LEMMA NextInvariant == IInv /\ [Next]_vars => IInv'
<1> SUFFICES ASSUME IInv, [Next]_vars PROVE IInv'
  OBVIOUS
<1>1. ASSUME NEW c \in UpdateCalls, NEW payload \in Payloads(c), Invoke(c, payload) PROVE IInv'
  BY <1>1, InvokeStep
<1>2. CASE FetchFails
  BY <1>2, EndStep DEF FetchFails, backend, IInv, TypeOK
<1>3. CASE FetchReturns
  BY <1>3, FetchStep
<1>4. ASSUME NEW o \in Replies, ApplyReturns(o) PROVE IInv'
  <2>1. outcome' \in [UpdateCalls -> {"none"} \cup Contract!Outcomes]
    BY <1>4 DEF ApplyReturns, Contract!Return, Replies, IInv, TypeOK
  <2> QED
    BY <1>4, <2>1, EndStep DEF ApplyReturns, Contract!Return
<1>5. CASE Restart
  <2>1. outcome' \in [UpdateCalls -> {"none"} \cup Contract!Outcomes] /\ UNCHANGED executed
    BY <1>5 DEF Restart, Contract!Return, backend, IInv, TypeOK
  <2> QED
    BY <1>5, <2>1, EndStep DEF Restart
<1>6. ASSUME NEW c \in UpdateCalls, ExecutePut(c) PROVE IInv'
  BY <1>6, ExecuteStep
<1>7. ASSUME NEW e \in Edits, NEW fields \in SUBSET Fields, Edit(e, fields) PROVE IInv'
  BY <1>7, EditStep
<1>8. CASE UNCHANGED vars
  BY <1>8, QuietStep DEF vars, backend, IInv, TypeOK, InProgress, Payloads
<1> QED
  BY <1>1, <1>2, <1>3, <1>4, <1>5, <1>6, <1>7, <1>8 DEF Next

\* IInv holds in every reachable state.
THEOREM Invariance == Spec => []IInv
  BY InitInvariant, NextInvariant, PTL DEF Spec

\* The variables have their types: among others, a PUT has no key that the
\* backend's schema does not know.
THEOREM TypeCorrect == Spec => []TypeOK
<1>1. IInv => TypeOK
  BY DEF IInv
<1> QED
  BY <1>1, Invariance, PTL

\* A named write is undone only by an update it raced with, or by one that read
\* no recipe.
THEOREM LostWrites == Spec => []LostWritesRaced
<1>1. IInv => LostWritesRaced
  BY DEF IInv
<1> QED
  BY <1>1, Invariance, PTL

\* A field is cleared unasked only by an update that read no recipe.
THEOREM ClearedFields == Spec => []ClearedOnlyBlindly
<1>1. IInv => ClearedOnlyBlindly
  BY DEF IInv, Clearings
<1> QED
  BY <1>1, Invariance, PTL

\* An update that got the recipe does what it was asked, and to the fields that
\* the normaliser knows nothing else, but for those changed under it.
THEOREM UpdatesDo == Spec => UpdatesDoAsAsked
<1> DEFINE DoesAsAsked(c) ==
        /\ \A f \in DOMAIN asked[c] : recipe'[f] = asked[c][f]
        /\ c \notin blind => \A f \in Carried \ DOMAIN asked[c] :
              recipe'[f] = recipe[f] \/ f \in touched[c]
<1>1. ASSUME IInv, NEW c \in UpdateCalls, ExecutePut(c) PROVE DoesAsAsked(c)
  <2>1. Pending(c)
    BY <1>1 DEF ExecutePut, Contract!Execute, Pending, IInv, TypeOK
  <2>2. \A f \in DOMAIN put[c] : recipe'[f] = put[c][f]
    BY <1>1, PutWrites
  <2>3. \A f \in DOMAIN asked[c] : recipe'[f] = asked[c][f]
    BY <1>1, <2>1, <2>2 DEF IInv, Bodies, Pending
  <2>4. ASSUME c \notin blind, NEW f \in Carried \ DOMAIN asked[c], f \notin touched[c]
        PROVE  recipe'[f] = recipe[f]
    <3>1. f \in DOMAIN put[c]
      BY <1>1, <2>1, <2>4 DEF IInv, Bodies, Pending
    <3>2. put[c][f] = recipe[f]
      BY <1>1, <2>1, <2>4 DEF IInv, Fresh
    <3> QED
      BY <2>2, <3>1, <3>2
  <2> QED
    BY <2>3, <2>4
<1>2. ASSUME IInv, [Next]_vars, NEW c \in UpdateCalls, executed'[c] # executed[c]
      PROVE  ExecutePut(c)
  <2>1. ASSUME NEW d \in UpdateCalls, ExecutePut(d) PROVE d = c
    BY <1>2, <2>1 DEF ExecutePut, Contract!Execute, IInv, TypeOK
  <2>2. \/ \E d \in UpdateCalls : ExecutePut(d)
        \/ executed' = executed
    BY <1>2 DEF Next, Invoke, FetchFails, FetchReturns, ApplyReturns, Restart,
                Edit, Contract!Return, backend, vars
  <2> QED
    BY <1>2, <2>1, <2>2
<1>3. IInv /\ [Next]_vars =>
          [\A c \in UpdateCalls : executed'[c] # executed[c] => DoesAsAsked(c)]_vars
  BY <1>1, <1>2
<1> QED
  BY <1>3, Invariance, PTL DEF Spec, UpdatesDoAsAsked

=============================================================================
