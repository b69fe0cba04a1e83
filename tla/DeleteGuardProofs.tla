-------------------------- MODULE DeleteGuardProofs --------------------------
(***************************************************************************)
(* The safety of DeleteGuard for any number of calls and recipes, any page *)
(* size and any limit.  IInv says what a scan that is under way knows of   *)
(* the recipes before its offset, and what a finished one knows of all.    *)
(***************************************************************************)
EXTENDS DeleteGuard, FiniteSetTheorems, TLAPS

\* The call in progress, and what a call has before and after its scan.
InProgress ==
    /\ stage = "idle" <=> current = None
    /\ current # None => mode[current] # None
    /\ stage = "scan" => current \notin sent /\ report[current] = None
    /\ \A d \in Deletes : report[d] # None => mode[d] # None
    /\ \A d \in sent : report[d] # None /\ (mode[d] = "apply" => report[d].count = 0)

\* Nothing makes the order of d's pages unreliable so far.
Steady(d) == doubts[d] \cap {"removed", "window"} = {}

\* A scan knows what the places before its offset refer to.
Scanning ==
    stage = "scan" /\ Steady(current) =>
        /\ scanned = offset /\ offset <= Len(order)
        /\ matched = 0 => \A k \in 1..offset :
               Contains(order[k]) => order[k] \in newer[current]
        /\ "edited" \notin doubts[current] => matched = Cardinality(Hits(1, offset))

\* A scan that found nothing has missed only what is newer than its call.
Scanned ==
    \A d \in Deletes : report[d] # None /\ Reliable(d) /\ report[d].count = 0 =>
        \A k \in 1..Len(order) : Contains(order[k]) => order[k] \in newer[d]

IInv == TypeOK /\ InProgress /\ Scanning /\ Scanned /\ QuietScansCount

USE DEF Contract!Outcomes, Contract!NoEffectOutcomes, Contract!UnclearOutcomes,
        Contract!Applies, recipes, scan, backend, history

-----------------------------------------------------------------------------
(* Facts on data.                                                          *)

LEMMA NoneIsNothing == None \notin Deletes /\ None \notin Modes /\ None \notin Report
  BY NoneAssumption

LEMMA PageSizeIs == PageSize \in Nat \ {0} /\ PageSize <= MaxScan
  BY SizesAssumption DEF PageSize, Smaller

LEMMA HitsFinite ==
    ASSUME NEW lo \in Int, NEW hi \in Int
    PROVE  /\ IsFiniteSet(Hits(lo, hi)) /\ Cardinality(Hits(lo, hi)) \in Nat
           /\ Cardinality(Hits(lo, hi)) = 0 => \A k \in lo..hi : ~Contains(order[k])
<1>1. IsFiniteSet(lo..hi) /\ Hits(lo, hi) \in SUBSET (lo..hi)
  BY FS_Interval DEF Hits
<1>2. IsFiniteSet(Hits(lo, hi))
  BY <1>1, FS_Subset
<1>3. Cardinality(Hits(lo, hi)) \in Nat
  BY <1>2, FS_CardinalityType
<1>4. Cardinality(Hits(lo, hi)) = 0 => Hits(lo, hi) = {}
  BY <1>2, FS_EmptySet
<1> QED
  BY <1>2, <1>3, <1>4 DEF Hits

\* Counting up to m and then up to n counts all.
LEMMA HitsAdd ==
    ASSUME NEW m \in Nat, NEW n \in Nat, m <= n
    PROVE  Cardinality(Hits(1, n)) = Cardinality(Hits(1, m)) + Cardinality(Hits(m + 1, n))
<1>1. Hits(1, n) = Hits(1, m) \cup Hits(m + 1, n)
  BY DEF Hits
<1>2. Hits(1, m) \cap Hits(m + 1, n) = {}
  BY DEF Hits
<1>3. IsFiniteSet(Hits(1, m)) /\ IsFiniteSet(Hits(m + 1, n))
      /\ Cardinality(Hits(1, m)) \in Nat /\ Cardinality(Hits(m + 1, n)) \in Nat
  BY HitsFinite
<1> DEFINE A == Hits(1, m)
           B == Hits(m + 1, n)
<1> HIDE DEF A, B
<1>4. Cardinality(A \cup B) = Cardinality(A) + Cardinality(B) - Cardinality(A \cap B)
  BY <1>3, FS_Union DEF A, B
<1>5. Cardinality(A \cap B) = 0
  BY <1>2, FS_EmptySet DEF A, B
<1>6. Cardinality(A \cup B) = Cardinality(A) + Cardinality(B)
  BY <1>3, <1>4, <1>5 DEF A, B
<1> QED
  BY <1>1, <1>6 DEF A, B

-----------------------------------------------------------------------------

LEMMA InitInvariant == Init => IInv
<1> SUFFICES ASSUME Init PROVE IInv
  OBVIOUS
<1> USE DEF Init, Contract!Init
<1>1. TypeOK
  BY MentionsAssumption, SizesAssumption DEF TypeOK
<1>2. InProgress /\ Scanning /\ Scanned /\ QuietScansCount
  BY DEF InProgress, Scanning, Scanned, QuietScansCount
<1> QED
  BY <1>1, <1>2 DEF IInv

\* Steps that leave the recipes and all reports alone.
LEMMA QuietStep ==
    ASSUME IInv, UNCHANGED <<recipes, report, history>>
    PROVE  Scanned' /\ QuietScansCount'
<1>1. \A lo, hi : Hits(lo, hi)' = Hits(lo, hi)
  BY DEF Hits, Contains
<1> QED
  BY <1>1 DEF IInv, Scanned, QuietScansCount, Reliable, Contains, Hits

LEMMA InvokeStep ==
    ASSUME IInv, NEW d \in Deletes, NEW m \in Modes, Invoke(d, m)
    PROVE  IInv'
<1> USE DEF Invoke
<1>1. TypeOK'
  BY SizesAssumption DEF IInv, TypeOK
<1>2. report[d] = None /\ d \notin sent
  BY DEF IInv, InProgress
<1>3. InProgress'
  BY <1>2, NoneIsNothing DEF IInv, TypeOK, InProgress
<1>4. Scanning'
  <2>1. Hits(1, offset)' = {}
    BY DEF Hits
  <2>2. Cardinality({}) = 0
    BY FS_EmptySet
  <2>3. order' \in Seq(Recipes)
    BY <1>1 DEF TypeOK
  <2>4. Cardinality(Hits(1, offset)') = 0
    BY <2>1, <2>2
  <2>5. (matched = Cardinality(Hits(1, offset)))' /\ Len(order') \in Nat
    BY <2>3, <2>4
  <2> QED
    BY <2>5 DEF Scanning
<1> QED
  BY <1>1, <1>3, <1>4, QuietStep DEF IInv

\* The call in progress ends.
LEMMA EndStep ==
    ASSUME IInv, Finish, UNCHANGED <<recipes, mode, report, sent, executed, history>>,
           outcome' \in [Deletes -> {"none"} \cup Contract!Outcomes]
    PROVE  IInv'
<1>1. TypeOK'
  BY SizesAssumption DEF IInv, TypeOK, Finish
<1>2. InProgress' /\ Scanning'
  BY DEF IInv, InProgress, Scanning, Finish
<1> QED
  BY <1>1, <1>2, QuietStep DEF IInv

LEMMA PageStep ==
    ASSUME IInv, NEW o \in {0, offset}, NEW n \in 0..Len(order), PageReturns(o, n)
    PROVE  IInv'
<1> DEFINE room == MaxScan - scanned
           seen == scanned + n
           upto == o + Smaller(n, room)
           hits == Cardinality(Hits(o + 1, upto))
           count == matched + hits
           found == [count |-> count, scanned |-> Smaller(seen, MaxScan + 1),
                     limited |-> seen >= MaxScan]
           honest == o = offset /\ n = Smaller(PageSize, Len(order) - offset)
<1>1. /\ stage = "scan" /\ current \in Deletes /\ mode[current] # None
      /\ current \notin sent /\ report[current] = None
  BY NoneIsNothing DEF IInv, TypeOK, InProgress, PageReturns
<1>c. PICK c \in Deletes : c = current
  BY <1>1
<1>2. /\ Len(order) \in Nat /\ o \in Nat /\ n \in Nat /\ offset \in Nat /\ scanned \in Nat
      /\ matched \in Nat /\ room \in Nat /\ seen \in Nat /\ upto \in Nat
      /\ MaxScan \in Nat \ {0} /\ PageSize \in Nat \ {0}
  BY PageSizeIs, SizesAssumption DEF IInv, TypeOK, Smaller
<1>3. hits \in Nat /\ count \in Nat
      /\ (hits = 0 => \A k \in (o + 1)..upto : ~Contains(order[k]))
  <2> DEFINE first == o + 1
  <2>1. first \in Int /\ upto \in Int /\ matched \in Nat
    BY <1>2
  <2> HIDE DEF first, upto
  <2>2. Cardinality(Hits(first, upto)) \in Nat
        /\ (Cardinality(Hits(first, upto)) = 0 => \A k \in first..upto : ~Contains(order[k]))
    BY <2>1, HitsFinite
  <2> QED
    BY <2>1, <2>2 DEF first
<1>4. found \in Report /\ found # None
  <2> HIDE DEF seen, count
  <2>1. Smaller(seen, MaxScan + 1) \in Nat /\ count \in Nat /\ (seen >= MaxScan) \in BOOLEAN
    BY <1>2, <1>3 DEF Smaller
  <2>2. found \in Report
    BY <2>1 DEF Report
  <2> QED
    BY <2>2, NoneIsNothing
<1>5. /\ IF LastPage(n, seen) THEN Decide(found)
         ELSE /\ offset' = NextOffset(offset) /\ scanned' = seen /\ matched' = count
              /\ UNCHANGED <<current, stage, report, sent>>
      /\ doubts' = IF honest THEN doubts ELSE [doubts EXCEPT ![current] = @ \cup {"window"}]
      /\ UNCHANGED <<recipes, mode, backend, newer>>
  BY DEF PageReturns
<1>6. \A lo, hi : Hits(lo, hi)' = Hits(lo, hi)
  BY <1>5 DEF Hits, Contains
\* What this page adds to what the scan knows, if all is well.
<1>7. ASSUME honest, Steady(c), seen < MaxScan
      PROVE  /\ scanned = offset /\ upto = offset + n /\ seen = offset + n
             /\ offset + n <= Len(order)
             /\ count = 0 => \A k \in 1..(offset + n) :
                    Contains(order[k]) => order[k] \in newer[c]
             /\ "edited" \notin doubts[c] =>
                    count = Cardinality(Hits(1, offset + n))
             /\ n < PageSize => offset + n = Len(order)
  <2>1. scanned = offset /\ offset <= Len(order)
        /\ (matched = 0 => \A k \in 1..offset :
               Contains(order[k]) => order[k] \in newer[c])
        /\ ("edited" \notin doubts[c] => matched = Cardinality(Hits(1, offset)))
    BY <1>1, <1>c, <1>7 DEF IInv, Scanning
  <2>2. upto = offset + n /\ offset + n <= Len(order) /\ (n < PageSize => offset + n = Len(order))
    BY <1>2, <1>7, <2>1 DEF Smaller
  <2>3. count = 0 => matched = 0 /\ hits = 0
    BY <1>2, <1>3
  <2>4. \A k \in 1..(offset + n) : k \in 1..offset \/ k \in (o + 1)..upto
    BY <1>2, <1>7, <2>2
  <2>5. Cardinality(Hits(1, offset + n)) = Cardinality(Hits(1, offset)) + hits
    <3> DEFINE end == offset + n
    <3>1. end \in Nat /\ offset <= end
      BY <1>2
    <3> HIDE DEF end
    <3>2. Cardinality(Hits(1, end)) = Cardinality(Hits(1, offset)) + Cardinality(Hits(offset + 1, end))
      BY <1>2, <3>1, HitsAdd
    <3> QED
      BY <1>7, <2>2, <3>2 DEF end
  <2> QED
    BY <1>3, <2>1, <2>2, <2>3, <2>4, <2>5
<1>9. /\ doubts' \in [Deletes -> SUBSET {"edited", "removed", "window"}]
      /\ \A d \in Deletes : d # c => doubts'[d] = doubts[d]
      /\ honest => doubts' = doubts
      /\ ~honest => "window" \in doubts'[c]
  BY <1>1, <1>c, <1>5 DEF IInv, TypeOK
<1>8. doubts'[c] \cap {"removed", "window"} = {} => honest /\ Steady(c)
  BY <1>9 DEF Steady
<1> HIDE DEF room, seen, upto, hits, count, honest
<1>10. CASE ~LastPage(n, seen)
  <2>1. ~(n < PageSize) /\ seen < MaxScan
    BY <1>2, <1>10 DEF LastPage
  <2>2. TypeOK'
    BY <1>2, <1>3, <1>5, <1>9, <1>10, <2>1 DEF IInv, TypeOK, NextOffset
  <2>3. InProgress'
    BY <1>5, <1>10 DEF IInv, InProgress
  <2>4. honest => n <= PageSize
    BY <1>2 DEF honest, Smaller
  <2>5. ASSUME doubts'[c] \cap {"removed", "window"} = {}
        PROVE  /\ scanned' = offset' /\ offset' <= Len(order)
               /\ matched' = 0 => \A k \in 1..offset' :
                      Contains(order[k]) => order[k] \in newer[c]
               /\ "edited" \notin doubts'[c] => matched' = Cardinality(Hits(1, offset'))
    <3>1. honest /\ Steady(c)
      BY <1>8, <2>5
    <3>2. n = PageSize
      BY <1>2, <2>1, <2>4, <3>1
    <3>3. offset' = offset + n /\ scanned' = seen /\ matched' = count
      BY <1>5, <1>10, <3>2 DEF NextOffset
    <3> QED
      BY <1>7, <1>9, <2>1, <3>1, <3>3
  <2>6. /\ current' = c /\ order' = order /\ mentions' = mentions /\ newer' = newer
        /\ Hits(1, offset)' = Hits(1, offset')
    BY <1>5, <1>c, <1>10 DEF Hits, Contains
  <2>7. Scanning'
    BY <2>5, <2>6 DEF Scanning, Steady, Contains
  <2>8. Scanned' /\ QuietScansCount'
    <3>1. report' = report /\ \A d \in Deletes : report[d] # None => doubts'[d] = doubts[d]
      BY <1>1, <1>c, <1>5, <1>9, <1>10
    <3>2. Hits(1, Len(order))' = Hits(1, Len(order))
      BY <2>6 DEF Hits, Contains
    <3> QED
      BY <2>6, <3>1, <3>2 DEF IInv, Scanned, QuietScansCount, Reliable, Contains
  <2> QED
    BY <2>2, <2>3, <2>7, <2>8 DEF IInv
<1>11. CASE LastPage(n, seen)
  <2>1. Decide(found)
    BY <1>5, <1>11
  <2> HIDE DEF found
  <2>2. /\ report' \in [Deletes -> Report \cup {None}]
        /\ report'[c] = found
        /\ \A d \in Deletes : d # c => report'[d] = report[d]
    BY <1>c, <1>4, <2>1 DEF Decide, IInv, TypeOK
  <2>3. /\ found.count = count
        /\ found.scanned = Smaller(seen, MaxScan + 1)
        /\ found.limited <=> seen >= MaxScan
    BY DEF found
  <2>4. /\ offset' = 0 /\ scanned' = 0 /\ matched' = 0
        /\ \/ current' = None /\ stage' = "idle" /\ sent' = sent
           \/ /\ current' = c /\ stage' = "apply" /\ sent' = sent \cup {c}
              /\ (mode[c] = "apply" => ~(count > 0))
    BY <1>c, <2>1, <2>3 DEF Decide, Finish
  <2>5. TypeOK'
    BY <1>1, <1>c, <1>5, <1>9, <2>2, <2>4, SizesAssumption DEF IInv, TypeOK
  <2>6. InProgress'
    <3>1. ~(count > 0) => count = 0
      BY <1>3
    <3>2. mode' = mode /\ c # None /\ found # None
      BY <1>4, <1>5, NoneIsNothing
    <3>3. \A d \in sent' : report'[d] # None /\ (mode[d] = "apply" => report'[d].count = 0)
      <4> SUFFICES ASSUME NEW d \in sent'
                   PROVE  report'[d] # None /\ (mode[d] = "apply" => report'[d].count = 0)
        OBVIOUS
      <4>1. CASE d = c
        BY <1>1, <1>c, <2>2, <2>3, <2>4, <3>1, <3>2, <4>1
      <4>2. CASE d # c
        BY <2>2, <2>4, <4>2 DEF IInv, TypeOK, InProgress
      <4> QED
        BY <4>1, <4>2
    <3>4. \A d \in Deletes : report'[d] # None => mode[d] # None
      BY <1>1, <1>c, <2>2 DEF IInv, InProgress
    <3> QED
      BY <1>1, <1>c, <2>4, <3>2, <3>3, <3>4 DEF InProgress
  <2>7. Scanning'
    BY <2>4 DEF Scanning
  <2>8. ASSUME Reliable(c)'
        PROVE  /\ doubts' = doubts /\ seen = Len(order) /\ found.scanned = Len(order)
               /\ count = 0 => \A k \in 1..Len(order) :
                      Contains(order[k]) => order[k] \in newer[c]
               /\ "edited" \notin doubts[c] => count = Cardinality(Hits(1, Len(order)))
    <3>1. honest /\ Steady(c) /\ ~(seen >= MaxScan)
      BY <1>8, <2>2, <2>3, <2>8 DEF Reliable
    <3>2. seen < MaxScan /\ n < PageSize
      BY <1>2, <1>11, <3>1 DEF LastPage
    <3>3. offset + n = Len(order) /\ seen = offset + n
      BY <1>7, <3>1, <3>2
    <3>4. Smaller(seen, MaxScan + 1) = seen
      BY <1>2, <3>2 DEF Smaller
    <3> QED
      BY <1>7, <1>9, <2>3, <3>1, <3>2, <3>3, <3>4
  <2>9. /\ order' = order /\ mentions' = mentions /\ newer' = newer
        /\ Hits(1, Len(order))' = Hits(1, Len(order))
    BY <1>5 DEF Hits, Contains
  <2>10. Scanned' /\ QuietScansCount'
    <3>1. ASSUME NEW d \in Deletes, d # c, Reliable(d)'
          PROVE  Reliable(d) /\ report'[d] = report[d] /\ doubts'[d] = doubts[d]
      BY <1>9, <2>2, <3>1 DEF Reliable
    <3>2. Scanned'
      BY <2>2, <2>3, <2>8, <2>9, <3>1 DEF IInv, Scanned, Contains
    <3>3. QuietScansCount'
      BY <2>2, <2>3, <2>8, <2>9, <3>1 DEF IInv, QuietScansCount
    <3> QED
      BY <3>2, <3>3
  <2> QED
    BY <2>5, <2>6, <2>7, <2>10 DEF IInv
<1> QED
  BY <1>10, <1>11

\* An edit concerns every call that has begun.
LEMMA EditKeeps ==
    ASSUME IInv, NEW more \in SUBSET Recipes, NEW doubt \in SUBSET {"removed"},
           Edited(more, doubt)
    PROVE  /\ newer' \in [Deletes -> SUBSET Recipes]
           /\ doubts' \in [Deletes -> SUBSET {"edited", "removed", "window"}]
           /\ \A d \in Deletes :
                 /\ newer[d] \subseteq newer'[d] /\ doubts[d] \subseteq doubts'[d]
                 /\ mode[d] # None => more \subseteq newer'[d] /\ "edited" \in doubts'[d]
                 /\ d = current /\ stage = "scan" => doubt \subseteq doubts'[d]
           /\ InProgress'
           /\ QuietScansCount'
<1>1. /\ newer' \in [Deletes -> SUBSET Recipes]
      /\ doubts' \in [Deletes -> SUBSET {"edited", "removed", "window"}]
  BY DEF IInv, TypeOK, Edited
<1>2. \A d \in Deletes :
          /\ newer[d] \subseteq newer'[d] /\ doubts[d] \subseteq doubts'[d]
          /\ mode[d] # None => more \subseteq newer'[d] /\ "edited" \in doubts'[d]
          /\ d = current /\ stage = "scan" => doubt \subseteq doubts'[d]
  BY NoneIsNothing DEF Edited, IInv, InProgress
<1>3. InProgress'
  BY DEF IInv, InProgress, Edited
<1>4. QuietScansCount'
  BY <1>2 DEF IInv, InProgress, QuietScansCount, Edited
<1> QED
  BY <1>1, <1>2, <1>3, <1>4

\* The reports stay true of the recipes that were there before.
LEMMA EditStep ==
    ASSUME IInv, NEW more \in SUBSET Recipes, NEW doubt \in SUBSET {"removed"},
           Edited(more, doubt), order' \in Seq(Recipes), mentions' \in [Recipes -> Mentions],
           \A k \in 1..Len(order') : (Contains(order[k]))' =>
               order'[k] \in more \/ \E j \in 1..Len(order) :
                   order[j] = order'[k] /\ Contains(order[j]),
           doubt = {} => /\ Len(order) <= Len(order')
                         /\ \A k \in 1..Len(order) : (Contains(order[k]))' =>
                               order'[k] \in more \/ \E j \in 1..k :
                                   order[j] = order'[k] /\ Contains(order[j]),
           doubt = {} \/ doubt = {"removed"}
    PROVE  IInv'
<1> USE EditKeeps
<1>1. TypeOK'
  BY DEF IInv, TypeOK, Edited
<1>2. ASSUME NEW d \in Deletes, report'[d] # None, Reliable(d)', report'[d].count = 0,
             NEW k \in 1..Len(order'), Contains(order[k])'
      PROVE  order'[k] \in newer'[d]
  <2>1. report[d] # None /\ Reliable(d) /\ report[d].count = 0 /\ mode[d] # None
    BY <1>2 DEF Edited, Reliable, IInv, InProgress
  <2>2. CASE order'[k] \in more
    BY <2>1, <2>2
  <2>3. CASE \E j \in 1..Len(order) : order[j] = order'[k] /\ Contains(order[j])
    BY <2>1, <2>3 DEF IInv, Scanned
  <2> QED
    BY <1>2, <2>2, <2>3
<1>3. Scanned'
  BY <1>2 DEF Scanned
<1>4. ASSUME stage = "scan", Steady(current)'
      PROVE  /\ scanned = offset /\ offset <= Len(order')
             /\ matched = 0 => \A k \in 1..offset :
                    (Contains(order[k]))' => order'[k] \in newer'[current]
             /\ "edited" \in doubts'[current]
  <2>1. current \in Deletes /\ mode[current] # None /\ current' = current
    BY <1>4 DEF IInv, TypeOK, InProgress, Edited
  <2>2. Steady(current) /\ doubt = {}
    BY <1>4, <2>1 DEF Steady
  <2>3. /\ scanned = offset /\ offset <= Len(order)
        /\ matched = 0 => \A k \in 1..offset :
               Contains(order[k]) => order[k] \in newer[current]
    BY <1>4, <2>2 DEF IInv, Scanning
  <2>4. ASSUME matched = 0, NEW k \in 1..offset, Contains(order[k])'
        PROVE  order'[k] \in newer'[current]
    <3>1. k \in 1..Len(order) /\ offset \in Nat /\ Len(order) \in Nat
      BY <2>3 DEF IInv, TypeOK
    <3>2. CASE order'[k] \in more
      BY <2>1, <3>2
    <3>3. CASE \E j \in 1..k : order[j] = order'[k] /\ Contains(order[j])
      <4>1. PICK j \in 1..k : order[j] = order'[k] /\ Contains(order[j])
        BY <3>3
      <4>2. j \in 1..offset
        BY <3>1
      <4> QED
        BY <2>1, <2>3, <2>4, <4>1, <4>2
    <3> QED
      BY <2>2, <2>4, <3>1, <3>2, <3>3
  <2>5. Len(order') \in Nat /\ Len(order) \in Nat /\ offset \in Nat
    BY <1>1 DEF IInv, TypeOK
  <2>6. offset <= Len(order')
    BY <2>2, <2>3, <2>5
  <2>7. "edited" \in doubts'[current]
    BY <2>1
  <2> QED
    BY <2>3, <2>4, <2>6, <2>7
<1>5. stage' = stage /\ scanned' = scanned /\ offset' = offset /\ matched' = matched
      /\ current' = current
  BY DEF Edited
<1>6. Scanning'
  BY <1>4, <1>5 DEF Scanning
<1> QED
  BY <1>1, <1>3, <1>6 DEF IInv

LEMMA SequenceOf ==
    ASSUME NEW n \in Nat, NEW f \in [1..n -> Recipes]
    PROVE  f \in Seq(Recipes) /\ Len(f) = n
  OBVIOUS

LEMMA AddStep ==
    ASSUME IInv, NEW r \in Recipes, NEW m \in Mentions, NEW i \in 1..(Len(order) + 1),
           Add(r, i, m)
    PROVE  IInv'
<1> USE DEF Add, Contains
<1>1. Len(order) \in Nat /\ \A k \in 1..Len(order) : order[k] \in Recipes /\ order[k] # r
  BY DEF IInv, TypeOK, Stored
<1> DEFINE n == Len(order) + 1
<1>2. n \in Nat /\ order' \in [1..n -> Recipes]
  BY <1>1
<1>3. order' \in Seq(Recipes) /\ Len(order') = n
  BY <1>2, SequenceOf
<1>4. ASSUME NEW k \in 1..n
      PROVE  order'[k] = r \/ \E j \in 1..Len(order) : j <= k /\ order[j] = order'[k]
  <2>1. order'[k] = IF k < i THEN order[k] ELSE IF k = i THEN r ELSE order[k - 1]
    OBVIOUS
  <2>2. CASE k < i
    BY <1>1, <2>1, <2>2
  <2>3. CASE k > i
    <3>1. k - 1 \in 1..Len(order) /\ k - 1 <= k
      BY <1>1, <2>3
    <3> QED
      BY <1>1, <2>1, <2>3, <3>1
  <2> QED
    BY <1>1, <2>1, <2>2, <2>3
<1>5. mentions' \in [Recipes -> Mentions] /\ \A q \in Recipes : q # r => mentions'[q] = mentions[q]
  BY DEF IInv, TypeOK
<1>6. \A k \in 1..n : (Contains(order[k]))' =>
          order'[k] \in {r} \/ \E j \in 1..Len(order) :
              j <= k /\ order[j] = order'[k] /\ Contains(order[j])
  BY <1>1, <1>4, <1>5
<1>7. \A j, k : k \in 1..Len(order) /\ j \in 1..Len(order) /\ j <= k => j \in 1..k
  BY <1>1
<1>8. Len(order) <= n /\ 1..Len(order) \subseteq 1..n
  BY <1>1
<1> HIDE DEF n
<1> QED
  BY <1>3, <1>5, <1>6, <1>7, <1>8, EditStep

LEMMA RewriteStep ==
    ASSUME IInv, NEW r \in Recipes, NEW m \in Mentions, Rewrite(r, m)
    PROVE  IInv'
<1> USE DEF Rewrite, Contains
<1>1. Len(order) \in Nat /\ \A k \in 1..Len(order) : order[k] \in Recipes
  BY DEF IInv, TypeOK
<1>2. mentions' \in [Recipes -> Mentions] /\ \A q \in Recipes : q # r => mentions'[q] = mentions[q]
  BY DEF IInv, TypeOK
<1>3. \A k \in 1..Len(order) : (Contains(order[k]))' =>
          order'[k] \in {r} \/ \E j \in 1..k : order[j] = order'[k] /\ Contains(order[j])
  BY <1>1, <1>2
<1>4. order' = order /\ order \in Seq(Recipes) /\ Edited({r}, {}) /\ Len(order) <= Len(order)
  BY <1>1 DEF IInv, TypeOK
<1>5. \A k \in 1..Len(order') : (Contains(order[k]))' =>
          order'[k] \in {r} \/ \E j \in 1..Len(order) : order[j] = order'[k] /\ Contains(order[j])
  BY <1>1, <1>2
<1>6. order' \in Seq(Recipes) /\ Len(order) <= Len(order')
  BY <1>4
<1>7. {r} \in SUBSET Recipes /\ {} \in SUBSET {"removed"}
  OBVIOUS
<1> HIDE DEF Contains, Rewrite
<1> QED
  BY <1>2, <1>3, <1>4, <1>5, <1>6, <1>7, EditStep

LEMMA RemoveStep ==
    ASSUME IInv, NEW i \in 1..Len(order), Remove(i)
    PROVE  IInv'
<1> USE DEF Remove, Contains
<1>1. Len(order) \in Nat /\ \A k \in 1..Len(order) : order[k] \in Recipes
  BY DEF IInv, TypeOK
<1> DEFINE n == Len(order) - 1
<1>2. n \in Nat /\ order' \in [1..n -> Recipes]
  BY <1>1
<1>3. order' \in Seq(Recipes) /\ Len(order') = n
  BY <1>2, SequenceOf
<1>4. ASSUME NEW k \in 1..n PROVE \E j \in 1..Len(order) : order[j] = order'[k]
  <2>1. order'[k] = IF k < i THEN order[k] ELSE order[k + 1]
    OBVIOUS
  <2>2. k \in 1..Len(order) /\ k + 1 \in 1..Len(order)
    BY <1>1
  <2> QED
    BY <2>1, <2>2
<1>5. /\ mentions' \in [Recipes -> Mentions]
      /\ \A q \in Recipes : mentions'[q] = "listed" => mentions[q] = "listed"
  BY <1>1, MentionsAssumption DEF IInv, TypeOK
<1>6. \A k \in 1..n : (Contains(order[k]))' =>
          \E j \in 1..Len(order) : order[j] = order'[k] /\ Contains(order[j])
  BY <1>1, <1>4, <1>5
<1> HIDE DEF n
<1> QED
  BY <1>3, <1>5, <1>6, EditStep

LEMMA NextInvariant == IInv /\ [Next]_vars => IInv'
<1> SUFFICES ASSUME IInv, [Next]_vars PROVE IInv'
  OBVIOUS
<1>1. ASSUME NEW d \in Deletes, NEW m \in Modes, Invoke(d, m) PROVE IInv'
  BY <1>1, InvokeStep
<1>2. ASSUME NEW w \in Windows, PageReturns(w[1], w[2]) PROVE IInv'
  BY <1>2, PageStep DEF Windows
<1>3. CASE ScanFails
  BY <1>3, EndStep DEF ScanFails, IInv, TypeOK
<1>4. ASSUME NEW o \in {"ok", "client_error", "network_error"}, ApplyReturns(o) PROVE IInv'
  <2>1. outcome' \in [Deletes -> {"none"} \cup Contract!Outcomes]
    BY <1>4 DEF ApplyReturns, Contract!Return, IInv, TypeOK
  <2> QED
    BY <1>4, <2>1, EndStep DEF ApplyReturns, Contract!Return
<1>5. CASE Restart
  <2>1. outcome' \in [Deletes -> {"none"} \cup Contract!Outcomes] /\ UNCHANGED executed
    BY <1>5 DEF Restart, Contract!Return, IInv, TypeOK
  <2> QED
    BY <1>5, <2>1, EndStep DEF Restart
<1>6. ASSUME NEW d \in Deletes, Execute(d) PROVE IInv'
  <2>1. TypeOK'
    BY <1>6 DEF Execute, Contract!Execute, IInv, TypeOK
  <2>2. InProgress'
    BY <1>6 DEF Execute, IInv, InProgress
  <2>3. Scanning'
    BY <1>6 DEF Execute, IInv, Scanning, Steady, Contains, Hits
  <2> QED
    BY <1>6, <2>1, <2>2, <2>3, QuietStep DEF Execute, IInv
<1>7. ASSUME NEW r \in Recipes, NEW m \in Mentions, NEW i \in 1..(Len(order) + 1), Add(r, i, m)
      PROVE  IInv'
  BY <1>7, AddStep
<1>8. ASSUME NEW r \in Recipes, NEW m \in Mentions, Rewrite(r, m) PROVE IInv'
  BY <1>8, RewriteStep
<1>9. ASSUME NEW i \in 1..Len(order), Remove(i) PROVE IInv'
  BY <1>9, RemoveStep
<1>10. CASE UNCHANGED vars
  <2>1. TypeOK' /\ InProgress'
    BY <1>10 DEF vars, IInv, TypeOK, InProgress
  <2>2. Scanning'
    BY <1>10 DEF vars, IInv, Scanning, Steady, Contains, Hits
  <2> QED
    BY <1>10, <2>1, <2>2, QuietStep DEF vars, IInv
<1> QED
  BY <1>1, <1>2, <1>3, <1>4, <1>5, <1>6, <1>7, <1>8, <1>9, <1>10 DEF Next, Scan

-----------------------------------------------------------------------------

\* IInv holds in every reachable state.
THEOREM Invariance == Spec => []IInv
  BY InitInvariant, NextInvariant, PTL DEF Spec

\* The variables have their types: among others, a scan that goes on has not
\* counted more than max_scan recipes.
THEOREM TypeCorrect == Spec => []TypeOK
<1>1. IInv => TypeOK
  BY DEF IInv
<1> QED
  BY <1>1, Invariance, PTL

\* Whatever other editors do during the scan, a delete sent after a reliable one
\* without force is at odds only with recipes changed since its call began.
THEOREM UnforcedDeletes == Spec => []UnforcedDeletesWereUnused
<1>1. IInv => UnforcedDeletesWereUnused
  BY DEF IInv, TypeOK, InProgress, Scanned, UnforcedDeletesWereUnused, Stored
<1> QED
  BY <1>1, Invariance, PTL

\* The report of a reliable scan of recipes nobody edits is exact.
THEOREM QuietScans == Spec => []QuietScansCount
<1>1. IInv => QuietScansCount
  BY DEF IInv
<1> QED
  BY <1>1, Invariance, PTL

-----------------------------------------------------------------------------
(* The scan ends: what counts down is the distance to the limit.           *)

\* The next page starts no further than the recipes that have been counted.
Behind == offset <= scanned

\* A page that is not the last moves both by a page at least.
LEMMA PageAdvances ==
    ASSUME IInv, Behind, NEW o \in Nat, NEW n \in Nat, PageReturns(o, n)
    PROVE  /\ Behind'
           /\ stage' = "scan" => offset' >= offset + PageSize /\ offset' < MaxScan
<1>1. offset \in Nat /\ scanned \in Nat /\ offset <= scanned
  BY DEF IInv, TypeOK, Behind
<1>2. CASE LastPage(n, scanned + n)
  BY <1>2 DEF PageReturns, Decide, Finish, Behind
<1>3. CASE ~LastPage(n, scanned + n)
  <2>1. offset' = offset + PageSize /\ scanned' = scanned + n
    BY <1>3 DEF PageReturns, NextOffset
  <2>2. n >= PageSize /\ scanned + n < MaxScan
    BY <1>1, <1>3, PageSizeIs, SizesAssumption DEF LastPage
  <2> QED
    BY <1>1, <2>1, <2>2, PageSizeIs, SizesAssumption DEF Behind
<1> QED
  BY <1>2, <1>3

\* No other step moves a scan that goes on.
LEMMA AdvanceStep ==
    ASSUME IInv, Behind, [Next]_vars
    PROVE  /\ Behind'
           /\ stage = "scan" /\ stage' = "scan" /\ scan' # scan =>
                 offset' >= offset + PageSize /\ offset' < MaxScan
<1>1. ASSUME NEW d \in Deletes, NEW m \in Modes, Invoke(d, m)
      PROVE  Behind' /\ stage # "scan"
  BY <1>1 DEF Invoke, Behind
<1>2. ASSUME NEW w \in Windows, PageReturns(w[1], w[2])
      PROVE  /\ Behind'
             /\ stage' = "scan" => offset' >= offset + PageSize /\ offset' < MaxScan
  <2>1. w[1] \in Nat /\ w[2] \in Nat
    BY DEF Windows, IInv, TypeOK
  <2> QED
    BY <1>2, <2>1, PageAdvances
<1>3. ASSUME ScanFails \/ Restart \/ \E o \in {"ok", "client_error", "network_error"} : ApplyReturns(o)
      PROVE  Behind' /\ stage' # "scan"
  BY <1>3 DEF ScanFails, Restart, ApplyReturns, Finish, Behind
<1>4. ASSUME \/ \E d \in Deletes : Execute(d)
             \/ \E r \in Recipes, m \in Mentions :
                   \/ \E i \in 1..(Len(order) + 1) : Add(r, i, m)
                   \/ Rewrite(r, m)
             \/ \E i \in 1..Len(order) : Remove(i)
             \/ UNCHANGED vars
      PROVE  Behind' /\ scan' = scan
  BY <1>4 DEF Execute, Add, Rewrite, Remove, Edited, vars, Behind
<1> QED
  BY <1>1, <1>2, <1>3, <1>4 DEF Next, Scan

\* Every page but the first is asked for at least a page further on, and below
\* max_scan, whatever the backend has returned and whoever edits the recipes: so
\* a scan ends after max_scan / page size requests if each of them ends.
THEOREM ScansAdvance == Spec => ScanAdvances
<1>1. Init => Behind
  BY DEF Init, Behind
<1>2. IInv /\ Behind /\ [Next]_vars => Behind'
  BY AdvanceStep
<1>3. IInv /\ Behind /\ [Next]_vars =>
          [stage = "scan" /\ stage' = "scan" /\ scan' # scan =>
              offset' >= offset + PageSize /\ offset' < MaxScan]_vars
  BY AdvanceStep
<1> QED
  BY <1>1, <1>2, <1>3, Invariance, PTL DEF Spec, ScanAdvances

=============================================================================
