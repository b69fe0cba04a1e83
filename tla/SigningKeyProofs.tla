--------------------------- MODULE SigningKeyProofs ---------------------------
(***************************************************************************)
(* No restart of SigningKey invalidates a token, for any keys, resources,  *)
(* lifetimes and number of crashes.  IInv relates the three places a key   *)
(* is in: the memory of a server that is up, its file, and the tokens that *)
(* were signed with it; a start that has not written its key yet finds     *)
(* that none was.                                                          *)
(***************************************************************************)
EXTENDS SigningKey, TLAPS

\* What was signed can be verified with the key in the file.
Persisted == \A t \in tokens : t.key = keyFile

\* What the file holds at each step of the process.
OnDisk ==
    /\ process = "generated" => keyFile = Missing /\ key \in Keys
    /\ process = "opened" => keyFile = Torn /\ key \in Keys
    /\ process = "up" => keyFile = key /\ key \in Keys

IInv == TypeOK /\ Persisted /\ OnDisk

LEMMA TokenFields ==
    ASSUME NEW t \in Token
    PROVE  t.key \in Keys /\ t.audience \in Resources /\ t.expires \in Int
  BY DEF Token

\* Where there is no key in the file there is no token either.
LEMMA NoTokensYet == IInv /\ keyFile \in {Missing, Torn} => tokens = {}
<1> SUFFICES ASSUME IInv, keyFile \in {Missing, Torn}, NEW t \in tokens PROVE FALSE
  OBVIOUS
<1>1. t.key \in Keys
  BY TokenFields DEF IInv, TypeOK
<1> QED
  BY <1>1, KeysAssumption DEF IInv, Persisted

-----------------------------------------------------------------------------

LEMMA InitInvariant == Init => IInv
  BY DEF Init, IInv, TypeOK, Persisted, OnDisk

\* A step of the start.
LEMMA StartStep == IInv /\ Start => IInv'
<1> SUFFICES ASSUME IInv, Start PROVE IInv'
  OBVIOUS
<1> USE DEF IInv, TypeOK, Persisted, OnDisk
<1>1. CASE Load
  BY <1>1 DEF Load
<1>2. ASSUME NEW k \in Keys, Generate(k) PROVE IInv'
  BY <1>2 DEF Generate
<1>3. CASE Open
  <2>1. tokens = {}
    BY <1>3, NoTokensYet DEF Open
  <2> QED
    BY <1>3, <2>1 DEF Open
<1>4. CASE Write
  <2>1. tokens = {}
    BY <1>4, NoTokensYet DEF Write
  <2> QED
    BY <1>4, <2>1 DEF Write
<1> QED
  BY <1>1, <1>2, <1>3, <1>4 DEF Start

LEMMA SignStep ==
    ASSUME IInv, process = "up", NEW audience \in Resources, Sign(audience)
    PROVE  IInv'
<1> DEFINE t == [key |-> key, audience |-> audience, expires |-> now + TTL]
<1>1. t \in Token /\ t.key = keyFile
  BY TimeAssumption DEF IInv, TypeOK, OnDisk, Token
<1>2. tokens' = tokens \cup {t}
  BY DEF Sign
<1> HIDE DEF t
<1>3. TypeOK'
  BY <1>1, <1>2 DEF Sign, IInv, TypeOK
<1>4. Persisted' /\ OnDisk'
  BY <1>1, <1>2 DEF Sign, IInv, Persisted, OnDisk
<1> QED
  BY <1>3, <1>4 DEF IInv

LEMMA NextInvariant == IInv /\ [Next]_vars => IInv'
<1> SUFFICES ASSUME IInv, [Next]_vars PROVE IInv'
  OBVIOUS
<1>1. CASE Start
  BY <1>1, StartStep
<1>2. CASE StartFails \/ UNCHANGED vars
  BY <1>2 DEF StartFails, vars, IInv, TypeOK, Persisted, OnDisk
<1>3. CASE Crash
  BY <1>3 DEF Crash, IInv, TypeOK, Persisted, OnDisk
<1>4. CASE Repair
  <2>1. tokens = {}
    BY <1>4, NoTokensYet DEF Repair
  <2> QED
    BY <1>4, <2>1 DEF Repair, IInv, TypeOK, Persisted, OnDisk
<1>5. ASSUME NEW resource \in Resources, IssueForCode(resource) PROVE IInv'
  BY <1>5, SignStep DEF IssueForCode
<1>6. CASE IssueForRefresh
  BY <1>6, SignStep, OwnAssumption DEF IssueForRefresh
<1>7. CASE Tick
  BY <1>7 DEF Tick, IInv, TypeOK, Persisted, OnDisk
<1> QED
  BY <1>1, <1>2, <1>3, <1>4, <1>5, <1>6, <1>7 DEF Next

-----------------------------------------------------------------------------

\* IInv holds in every reachable state.
THEOREM Invariance == Spec => []IInv
  BY InitInvariant, NextInvariant, PTL DEF Spec

\* The variables have their types.
THEOREM TypeCorrect == Spec => []TypeOK
<1>1. IInv => TypeOK
  BY DEF IInv
<1> QED
  BY <1>1, Invariance, PTL

\* A server that is up accepts every unexpired token for it that it ever issued.
THEOREM TokensKept == Spec => []TokensSurviveRestarts
<1>1. IInv => TokensSurviveRestarts
  BY DEF IInv, Persisted, OnDisk, TokensSurviveRestarts, Verified
<1> QED
  BY <1>1, Invariance, PTL

\* A key file that keeps the server from starting may be deleted: no token was
\* signed.
THEOREM TornEarly == Spec => []TornOnlyBeforeFirstToken
<1>1. IInv => TornOnlyBeforeFirstToken
  BY NoTokensYet DEF TornOnlyBeforeFirstToken
<1> QED
  BY <1>1, Invariance, PTL

\* The first token fixes the key: no step after it writes the key file.
THEOREM KeyStays == Spec => KeyFixedByFirstToken
<1>1. IInv /\ [Next]_vars => [tokens # {} => keyFile \in Keys /\ keyFile' = keyFile]_vars
  <2> SUFFICES ASSUME IInv, Next, tokens # {}
               PROVE  keyFile \in Keys /\ keyFile' = keyFile
    OBVIOUS
  <2>1. keyFile \in Keys /\ keyFile \notin {Missing, Torn}
    BY NoTokensYet, KeysAssumption DEF IInv, TypeOK
  <2>2. process \notin {"generated", "opened"}
    BY <2>1 DEF IInv, OnDisk
  <2>3. CASE Start
    BY <2>1, <2>2, <2>3 DEF Start, Load, Generate, Open, Write
  <2>4. CASE Repair
    BY <2>1, <2>4 DEF Repair
  <2>5. CASE ~Start /\ ~Repair
    BY <2>1, <2>5
    DEF Next, StartFails, vars, Crash, IssueForCode, IssueForRefresh, Sign, Tick
  <2> QED
    BY <2>3, <2>4, <2>5
<1> QED
  BY <1>1, Invariance, PTL DEF Spec, KeyFixedByFirstToken

=============================================================================
