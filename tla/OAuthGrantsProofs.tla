-------------------------- MODULE OAuthGrantsProofs --------------------------
(***************************************************************************)
(* The safety of OAuthGrants for every number of clients, flows, codes and *)
(* tokens and every lifetime.  IInv is the inductive invariant: next to    *)
(* the properties themselves it ties every entry of the storage to the     *)
(* consent and the flow it comes from.                                     *)
(***************************************************************************)
EXTENDS OAuthGrants, TLAPS

Issue == [grant : CodeIds, client : Clients, scopes : SUBSET Scopes]

\* One handler is between its writes at a time.
OneHandler == closing = Absent \/ issuing = Absent

\* A credential is worth no more than the consent behind it.
Covered(credential, k) ==
    /\ granted[k] # Absent
    /\ credential.client = granted[k].client
    /\ credential.scopes \subseteq granted[k].scopes

Consents ==
    /\ \A k \in CodeIds : codes[k] # Absent => Covered(codes[k], k)
    /\ \A r \in TokenIds : refresh[r] # Absent => Covered(refresh[r], refresh[r].grant)
    /\ \A a \in access : Covered(a, a.grant)
    /\ issuing # Absent => Covered(issuing, issuing.grant)

\* A flow is stored with the time it was begun; a code was issued for a flow
\* that was begun early enough; a code that was delivered has closed its flow.
Origins ==
    /\ \A f \in FlowIds : flows[f] # Absent => flows[f].created = requested[f]
    /\ \A k \in CodeIds : granted[k] # Absent => requested[granted[k].flow] # Absent
    /\ \A k \in CodeIds : codes[k] # Absent =>
           /\ codes[k].flow = granted[k].flow
           /\ codes[k].expires <= requested[codes[k].flow] + FlowTTL + CodeTTL
    /\ \A k \in delivered : granted[k] # Absent /\ flows[granted[k].flow] = Absent
    /\ closing # Absent =>
           /\ granted[closing.code] # Absent
           /\ granted[closing.code].flow = closing.flow
           /\ flows[closing.flow] # Absent

\* SingleCredential, one conjunct for each pair of places.
Credentials ==
    /\ \A r, s \in TokenIds :
           refresh[r] # Absent /\ refresh[s] # Absent
               /\ refresh[r].grant = refresh[s].grant => r = s
    /\ \A r \in TokenIds : refresh[r] # Absent => codes[refresh[r].grant] = Absent
    /\ issuing # Absent => codes[issuing.grant] = Absent
    /\ \A r \in TokenIds :
           refresh[r] # Absent /\ issuing # Absent => refresh[r].grant # issuing.grant

IInv == TypeOK /\ OneHandler /\ Consents /\ Origins /\ Credentials /\ OneCodePerFlow

-----------------------------------------------------------------------------

\* No entry of a map is mistaken for a missing one.
LEMMA AbsentIsNoEntry ==
    /\ Absent \notin Nat /\ Absent \notin Client /\ Absent \notin Flow
    /\ Absent \notin Code /\ Absent \notin Token /\ Absent \notin Grant
    /\ Absent \notin [flow : FlowIds, code : CodeIds] /\ Absent \notin Issue
  BY AbsentAssumption DEF Issue

\* What the lookups of a token request leave in place.
LEMMA LookupsOnlyDelete ==
    ASSUME TypeOK
    PROVE  /\ \A K \in SUBSET CodeIds : KeepCodes(K) =>
                  /\ codes' \in [CodeIds -> Code \cup {Absent}]
                  /\ \A k \in CodeIds : codes'[k] = IF k \in K THEN codes[k] ELSE Absent
           /\ \A R \in SUBSET TokenIds : KeepTokens(R) =>
                  /\ refresh' \in [TokenIds -> Token \cup {Absent}]
                  /\ \A r \in TokenIds : refresh'[r] = IF r \in R THEN refresh[r] ELSE Absent
           /\ LiveCodes \subseteq CodeIds /\ LiveTokens \subseteq TokenIds
  BY DEF TypeOK, KeepCodes, KeepTokens, LiveCodes, LiveTokens

\* The initial states satisfy the invariant.
LEMMA InitInvariant == Init => IInv
<1> SUFFICES ASSUME Init PROVE IInv
  OBVIOUS
<1>1. TypeOK /\ OneHandler
  BY DEF Init, TypeOK, OneHandler
<1>2. Consents /\ Origins /\ Credentials /\ OneCodePerFlow
  BY DEF Init, Consents, Origins, Credentials, OneCodePerFlow
<1> QED
  BY <1>1, <1>2 DEF IInv

\* Every step keeps the types.
LEMMA TypingStep == TypeOK /\ [Next]_vars => TypeOK'
<1> SUFFICES ASSUME TypeOK, [Next]_vars PROVE TypeOK'
  OBVIOUS
<1> USE AbsentIsNoEntry, ScopesAssumption, TimeAssumption DEF TypeOK, stored, client
<1>1. ASSUME NEW c \in Clients, NEW S \in SUBSET Scopes, Register(c, S) PROVE TypeOK'
  BY <1>1 DEF Register, Client
<1>2. ASSUME NEW c \in Clients, NEW f \in FlowIds, NEW S \in SUBSET Scopes, Authorize(c, f, S)
      PROVE  TypeOK'
  <2> DEFINE flow == [client |-> c, scopes |-> IF S = {} THEN clients[c].scopes ELSE S,
                      created |-> now, authenticated |-> FALSE]
  <2>1. flow \in Flow
    BY <1>2 DEF Authorize, Client, Flow
  <2>2. flows' = [flows EXCEPT ![f] = flow] /\ requested' = [requested EXCEPT ![f] = now]
    BY <1>2 DEF Authorize
  <2>3. UNCHANGED <<now, clients, codes, refresh, closing, issuing, client, granted>>
    BY <1>2 DEF Authorize
  <2> HIDE DEF flow
  <2> QED
    BY <2>1, <2>2, <2>3
<1>3. ASSUME NEW f \in FlowIds, ExpireFlow(f) \/ Deny(f) PROVE TypeOK'
  BY <1>3 DEF ExpireFlow, Deny
<1>4. ASSUME NEW f \in FlowIds, Login(f) PROVE TypeOK'
  <2>1. flows[f] \in Flow
    BY <1>4 DEF Login, Live
  <2>2. [flows[f] EXCEPT !.authenticated = TRUE] \in Flow
    BY <2>1 DEF Flow
  <2> QED
    BY <1>4, <2>2 DEF Login
<1>5. ASSUME NEW f \in FlowIds, NEW k \in CodeIds, Approve(f, k) PROVE TypeOK'
  <2>1. flows[f] \in Flow
    BY <1>5 DEF Approve, Live
  <2> DEFINE code == [flow |-> f, client |-> flows[f].client, scopes |-> flows[f].scopes,
                      expires |-> now + CodeTTL]
             grant == [flow |-> f, client |-> flows[f].client, scopes |-> flows[f].scopes]
  <2>2. code \in Code /\ grant \in Grant
    BY <2>1 DEF Flow, Code, Grant
  <2>3. /\ codes' = [codes EXCEPT ![k] = code]
        /\ granted' = [granted EXCEPT ![k] = grant]
        /\ closing' = [flow |-> f, code |-> k]
        /\ UNCHANGED <<now, clients, flows, refresh, issuing, client, requested>>
    BY <1>5 DEF Approve
  <2> HIDE DEF code, grant
  <2> QED
    BY <2>2, <2>3
<1>6. CASE CloseFlow
  BY <1>6 DEF CloseFlow
<1>7. ASSUME NEW c \in Clients, NEW k \in CodeIds, ExchangeCode(c, k) PROVE TypeOK'
  <2>1. codes[k] \in Code
    BY <1>7 DEF ExchangeCode, LiveCodes
  <2> QED
    BY <1>7, <2>1, LookupsOnlyDelete DEF ExchangeCode, Code
<1>8. ASSUME NEW c \in Clients, NEW r \in TokenIds, NEW S \in SUBSET Scopes,
             ExchangeRefreshToken(c, r, S)
      PROVE  TypeOK'
  <2>1. refresh[r] \in Token
    BY <1>8 DEF ExchangeRefreshToken, LiveTokens
  <2> QED
    BY <1>8, <2>1, LookupsOnlyDelete DEF ExchangeRefreshToken, Token
<1>9. CASE RejectTokenRequest
  BY <1>9, LookupsOnlyDelete DEF RejectTokenRequest
<1>10. ASSUME NEW r \in TokenIds, IssueTokens(r) PROVE TypeOK'
  <2>1. issuing \in Issue
    BY <1>10 DEF IssueTokens, Issue
  <2>2. [grant |-> issuing.grant, client |-> issuing.client,
         scopes |-> issuing.scopes, expires |-> now + RefreshTTL] \in Token
    BY <2>1 DEF Issue, Token
  <2> QED
    BY <1>10, <2>1, <2>2 DEF IssueTokens, Issue
<1>11. CASE Crash \/ Tick \/ UNCHANGED vars
  BY <1>11 DEF Crash, Tick, vars
<1> QED
  BY <1>1, <1>2, <1>3, <1>4, <1>5, <1>6, <1>7, <1>8, <1>9, <1>10, <1>11 DEF Next
-----------------------------------------------------------------------------

\* The steps that touch neither credentials nor the history of consents.
FlowStep ==
    \/ \E c \in Clients, S \in SUBSET Scopes : Register(c, S)
    \/ \E c \in Clients, f \in FlowIds, S \in SUBSET Scopes : Authorize(c, f, S)
    \/ \E f \in FlowIds : ExpireFlow(f) \/ Login(f) \/ Deny(f)
    \/ CloseFlow
    \/ Tick
    \/ UNCHANGED vars

LEMMA FlowStepsAreQuiet ==
    FlowStep => UNCHANGED <<codes, refresh, access, issuing, granted>>
  BY DEF FlowStep, Register, Authorize, ExpireFlow, Login, Deny, CloseFlow, Tick,
         vars, stored, client

\* Every step is one of these, or one of the five that are about credentials.
LEMMA StepCases ==
    [Next]_vars =>
        \/ FlowStep
        \/ \E f \in FlowIds, k \in CodeIds : Approve(f, k)
        \/ \E c \in Clients, k \in CodeIds : ExchangeCode(c, k)
        \/ \E c \in Clients, r \in TokenIds, S \in SUBSET Scopes :
               ExchangeRefreshToken(c, r, S)
        \/ RejectTokenRequest
        \/ \E r \in TokenIds : IssueTokens(r)
        \/ Crash
  BY DEF Next, FlowStep

\* No credential is ever worth more than the consent behind it.
LEMMA ConsentsStep == TypeOK /\ Consents /\ Credentials /\ [Next]_vars => Consents'
<1> SUFFICES ASSUME TypeOK, Consents, Credentials, [Next]_vars PROVE Consents'
  OBVIOUS
<1> USE AbsentIsNoEntry DEF Consents
<1>1. CASE FlowStep
  BY <1>1, FlowStepsAreQuiet DEF Covered
<1>2. ASSUME NEW f \in FlowIds, NEW k \in CodeIds, Approve(f, k) PROVE Consents'
  <2> DEFINE code == [flow |-> f, client |-> flows[f].client, scopes |-> flows[f].scopes,
                      expires |-> now + CodeTTL]
             grant == [flow |-> f, client |-> flows[f].client, scopes |-> flows[f].scopes]
  <2>1. /\ codes' = [codes EXCEPT ![k] = code]
        /\ granted' = [granted EXCEPT ![k] = grant]
        /\ granted[k] = Absent
        /\ UNCHANGED <<refresh, access, issuing>>
    BY <1>2 DEF Approve, client
  <2>2. grant # Absent /\ code.client = grant.client /\ code.scopes = grant.scopes
    BY <1>2 DEF Approve, Live, TypeOK, Flow, Grant
  <2> HIDE DEF code, grant
  <2>3. \A j \in CodeIds : granted[j] # Absent => granted'[j] = granted[j]
    BY <2>1 DEF TypeOK
  <2>4. \A j \in CodeIds : codes'[j] # Absent => Covered(codes[j], j)' \/ j = k
    BY <2>1, <2>3 DEF TypeOK, Covered
  <2>5. Covered(codes[k], k)'
    BY <2>1, <2>2 DEF TypeOK, Covered
  <2>6. \A j \in CodeIds : codes'[j] # Absent => Covered(codes[j], j)'
    BY <2>4, <2>5
  <2>7. \A r \in TokenIds : refresh'[r] # Absent => Covered(refresh[r], refresh[r].grant)'
    BY <2>1, <2>3 DEF TypeOK, Covered, Token
  <2>8. (\A a \in access : Covered(a, a.grant))'
    BY <2>1, <2>3 DEF TypeOK, Covered
  <2>9. issuing' # Absent => Covered(issuing, issuing.grant)'
    BY <2>1, <2>3 DEF TypeOK, Covered
  <2> QED
    BY <2>6, <2>7, <2>8, <2>9
<1>3. ASSUME NEW c \in Clients, NEW k \in CodeIds, ExchangeCode(c, k) PROVE Consents'
  BY <1>3, LookupsOnlyDelete DEF ExchangeCode, Covered, LiveCodes, client
<1>4. ASSUME NEW c \in Clients, NEW r \in TokenIds, NEW S \in SUBSET Scopes,
             ExchangeRefreshToken(c, r, S)
      PROVE  Consents'
  <2>1. refresh[r] # Absent /\ r \in LiveTokens
    BY <1>4 DEF ExchangeRefreshToken, LiveTokens
  <2> QED
    BY <1>4, <2>1, LookupsOnlyDelete DEF ExchangeRefreshToken, Covered, client
<1>5. CASE RejectTokenRequest
  BY <1>5, LookupsOnlyDelete DEF RejectTokenRequest, Covered, client
<1>6. ASSUME NEW r \in TokenIds, IssueTokens(r) PROVE Consents'
  BY <1>6 DEF IssueTokens, Covered, TypeOK
<1>7. CASE Crash
  BY <1>7 DEF Crash, Covered, stored, client
<1> QED
  BY <1>1, <1>2, <1>3, <1>4, <1>5, <1>6, <1>7, StepCases

\* No step gives a grant a second credential.
LEMMA CredentialsStep ==
    TypeOK /\ OneHandler /\ Consents /\ Credentials /\ [Next]_vars
        => Credentials' /\ OneHandler'
<1> SUFFICES ASSUME TypeOK, OneHandler, Consents, Credentials, [Next]_vars
             PROVE  Credentials' /\ OneHandler'
  OBVIOUS
<1> USE AbsentIsNoEntry DEF Credentials, OneHandler
<1>1. CASE FlowStep
  <2>1. closing' = closing \/ closing' = Absent
    BY <1>1 DEF FlowStep, Register, Authorize, ExpireFlow, Login, Deny, CloseFlow, Tick, vars
  <2> QED
    BY <1>1, <2>1, FlowStepsAreQuiet
<1>2. ASSUME NEW f \in FlowIds, NEW k \in CodeIds, Approve(f, k)
      PROVE  Credentials' /\ OneHandler'
  <2>1. granted[k] = Absent /\ issuing = Absent
    BY <1>2 DEF Approve, Idle
  <2>2. \A r \in TokenIds : refresh[r] # Absent => refresh[r].grant # k
    BY <2>1 DEF Consents, Covered
  <2>3. UNCHANGED <<refresh, issuing>> /\ \A j \in CodeIds : j # k => codes'[j] = codes[j]
    BY <1>2 DEF Approve, TypeOK
  <2>4. \A r \in TokenIds : refresh[r] # Absent => refresh[r].grant \in CodeIds
    BY DEF TypeOK, Token
  <2> QED
    BY <2>1, <2>2, <2>3, <2>4
<1>3. ASSUME NEW c \in Clients, NEW k \in CodeIds, ExchangeCode(c, k)
      PROVE  Credentials' /\ OneHandler'
  <2>1. codes[k] # Absent /\ Idle /\ UNCHANGED <<refresh, closing>> /\ issuing'.grant = k
    BY <1>3 DEF ExchangeCode, LiveCodes
  <2>2. codes'[k] = Absent /\ \A j \in CodeIds : codes'[j] = codes[j] \/ codes'[j] = Absent
    BY <1>3, LookupsOnlyDelete DEF ExchangeCode
  <2>3. \A r \in TokenIds : refresh[r] # Absent => refresh[r].grant \in CodeIds
    BY DEF TypeOK, Token
  <2> QED
    BY <2>1, <2>2, <2>3 DEF Idle
<1>4. ASSUME NEW c \in Clients, NEW r \in TokenIds, NEW S \in SUBSET Scopes,
             ExchangeRefreshToken(c, r, S)
      PROVE  Credentials' /\ OneHandler'
  <2>1. /\ refresh[r] # Absent /\ Idle /\ UNCHANGED <<codes, closing>>
        /\ issuing'.grant = refresh[r].grant
    BY <1>4 DEF ExchangeRefreshToken, LiveTokens
  <2>2. /\ refresh'[r] = Absent
        /\ \A t \in TokenIds : refresh'[t] = refresh[t] \/ refresh'[t] = Absent
    BY <1>4, LookupsOnlyDelete DEF ExchangeRefreshToken
  <2> QED
    BY <2>1, <2>2 DEF Idle
<1>5. CASE RejectTokenRequest
  <2>1. /\ UNCHANGED <<issuing, closing>> /\ Idle
        /\ \A k \in CodeIds : codes'[k] = codes[k] \/ codes'[k] = Absent
        /\ \A r \in TokenIds : refresh'[r] = refresh[r] \/ refresh'[r] = Absent
    BY <1>5, LookupsOnlyDelete DEF RejectTokenRequest
  <2>2. \A r \in TokenIds : refresh[r] # Absent => refresh[r].grant \in CodeIds
    BY DEF TypeOK, Token
  <2> QED
    BY <2>1, <2>2 DEF Idle
<1>6. ASSUME NEW r \in TokenIds, IssueTokens(r) PROVE Credentials' /\ OneHandler'
  <2>1. /\ issuing # Absent /\ issuing' = Absent /\ UNCHANGED codes
        /\ refresh'[r].grant = issuing.grant
        /\ \A s \in TokenIds : s # r => refresh'[s] = refresh[s]
    BY <1>6 DEF IssueTokens, TypeOK
  <2> QED
    BY <2>1
<1>7. CASE Crash
  BY <1>7 DEF Crash, stored
<1> QED
  BY <1>1, <1>2, <1>3, <1>4, <1>5, <1>6, <1>7, StepCases
-----------------------------------------------------------------------------

\* Every step keeps flows, codes and deliveries tied to where they come from.
LEMMA OriginsStep == TypeOK /\ Consents /\ Origins /\ [Next]_vars => Origins'
<1> SUFFICES ASSUME TypeOK, Consents, Origins, [Next]_vars PROVE Origins'
  OBVIOUS
<1> USE AbsentIsNoEntry, TimeAssumption DEF Origins
<1>a. \A k \in CodeIds : granted[k] # Absent => granted[k].flow \in FlowIds
  BY DEF TypeOK, Grant
<1>b. \A k \in CodeIds : codes[k] # Absent => codes[k].flow \in FlowIds
  BY DEF TypeOK, Code
<1>c. closing # Absent => closing.flow \in FlowIds /\ closing.code \in CodeIds
  BY DEF TypeOK
<1>d. delivered \subseteq CodeIds
  BY DEF TypeOK
<1>1. ASSUME NEW c \in Clients, NEW f \in FlowIds, NEW S \in SUBSET Scopes, Authorize(c, f, S)
      PROVE  Origins'
  <2>1. /\ requested[f] = Absent /\ closing = Absent /\ requested'[f] = now
        /\ now # Absent /\ flows'[f].created = now
        /\ \A g \in FlowIds : g # f => flows'[g] = flows[g] /\ requested'[g] = requested[g]
        /\ UNCHANGED <<codes, granted, delivered, closing>>
    BY <1>1 DEF Authorize, Idle, TypeOK, client
  <2>2. \A k \in CodeIds : granted[k] # Absent => granted[k].flow # f
    BY <2>1
  <2>3. \A k \in CodeIds : codes[k] # Absent => codes[k].flow # f
    BY <2>2 DEF Consents, Covered
  <2> QED
    BY <1>a, <1>b, <1>d, <2>1, <2>2, <2>3
<1>2. ASSUME NEW f \in FlowIds, ExpireFlow(f) \/ Deny(f) PROVE Origins'
  BY <1>2, <1>a, <1>b, <1>d DEF ExpireFlow, Deny, Idle, TypeOK, client
<1>3. ASSUME NEW f \in FlowIds, Login(f) PROVE Origins'
  <2>1. /\ flows[f] \in Flow /\ flows'[f].created = flows[f].created
        /\ \A g \in FlowIds : g # f => flows'[g] = flows[g]
        /\ flows[f] # Absent /\ closing = Absent
        /\ UNCHANGED <<codes, granted, delivered, closing, requested>>
    BY <1>3 DEF Login, Live, Idle, TypeOK, Flow, client
  <2> QED
    BY <1>a, <1>b, <1>d, <2>1
<1>4. ASSUME NEW f \in FlowIds, NEW k \in CodeIds, Approve(f, k) PROVE Origins'
  <2>1. /\ codes'[k].flow = f /\ codes'[k].expires = now + CodeTTL
        /\ granted'[k].flow = f /\ granted[k] = Absent /\ granted'[k] # Absent
        /\ \A j \in CodeIds : j # k => codes'[j] = codes[j] /\ granted'[j] = granted[j]
        /\ closing' = [flow |-> f, code |-> k]
        /\ flows[f] # Absent /\ ~(flows[f].created + FlowTTL < now)
        /\ UNCHANGED <<flows, delivered, requested>>
    BY <1>4 DEF Approve, Live, FlowExpired, TypeOK, Flow, Grant, client
  <2>2. requested[f] \in Nat /\ requested[f] = flows[f].created /\ now \in Nat
    BY <2>1 DEF TypeOK, Flow
  <2>3. now + CodeTTL <= requested[f] + FlowTTL + CodeTTL /\ requested[f] # Absent
    BY <2>1, <2>2
  <2>4. k \notin delivered
    BY <2>1
  <2> QED
    BY <1>a, <1>b, <1>d, <2>1, <2>3, <2>4
<1>5. CASE CloseFlow
  <2>1. /\ closing # Absent /\ closing' = Absent /\ flows'[closing.flow] = Absent
        /\ \A g \in FlowIds : flows'[g] = flows[g] \/ flows'[g] = Absent
        /\ delivered' \subseteq delivered \cup {closing.code}
        /\ UNCHANGED <<codes, granted, requested>>
    BY <1>5, <1>c DEF CloseFlow, TypeOK
  <2> QED
    BY <1>a, <1>b, <1>c, <1>d, <2>1
<1>6. ASSUME NEW c \in Clients, NEW k \in CodeIds, ExchangeCode(c, k) PROVE Origins'
  BY <1>6, LookupsOnlyDelete DEF ExchangeCode, client
<1>7. ASSUME NEW c \in Clients, NEW r \in TokenIds, NEW S \in SUBSET Scopes,
             ExchangeRefreshToken(c, r, S)
      PROVE  Origins'
  BY <1>7 DEF ExchangeRefreshToken, client
<1>8. CASE RejectTokenRequest
  BY <1>8, LookupsOnlyDelete DEF RejectTokenRequest, client
<1>9. ASSUME NEW c \in Clients, NEW S \in SUBSET Scopes, Register(c, S) PROVE Origins'
  BY <1>9 DEF Register, client
<1>10. ASSUME NEW r \in TokenIds, IssueTokens(r) PROVE Origins'
  BY <1>10 DEF IssueTokens
<1>11. CASE Crash \/ Tick \/ UNCHANGED vars
  BY <1>11 DEF Crash, Tick, vars, stored, client
<1> QED
  BY <1>1, <1>2, <1>3, <1>4, <1>5, <1>6, <1>7, <1>8, <1>9, <1>10, <1>11 DEF Next

\* Every step that delivers a code delivers the first of its flow.
LEMMA DeliveryStep ==
    TypeOK /\ Origins /\ OneCodePerFlow /\ [Next]_vars => OneCodePerFlow'
<1> SUFFICES ASSUME TypeOK, Origins, OneCodePerFlow, [Next]_vars PROVE OneCodePerFlow'
  OBVIOUS
<1> USE AbsentIsNoEntry DEF OneCodePerFlow
<1>1. CASE CloseFlow
  <2>1. /\ closing # Absent /\ UNCHANGED granted
        /\ delivered' \subseteq delivered \cup {closing.code}
    BY <1>1 DEF CloseFlow
  <2>2. \A k \in delivered : granted[k].flow # granted[closing.code].flow
    BY <2>1 DEF Origins
  <2> QED
    BY <2>1, <2>2
<1>2. CASE ~CloseFlow
  <2>1. delivered' = delivered
    BY <1>2 DEF Next, Register, Authorize, ExpireFlow, Login, Deny, Approve, ExchangeCode,
       ExchangeRefreshToken, RejectTokenRequest, IssueTokens, Crash, Tick, vars, client
  <2>2. \A k \in CodeIds : granted[k] # Absent => granted'[k] = granted[k]
    <3>1. CASE UNCHANGED granted
      BY <3>1
    <3>2. ASSUME NEW f \in FlowIds, NEW k \in CodeIds, Approve(f, k)
          PROVE  \A j \in CodeIds : granted[j] # Absent => granted'[j] = granted[j]
      BY <3>2 DEF Approve, TypeOK
    <3> QED
      BY <1>2, <3>1, <3>2
      DEF Next, Register, Authorize, ExpireFlow, Login, Deny, ExchangeCode,
          ExchangeRefreshToken, RejectTokenRequest, IssueTokens, Crash, Tick, vars
  <2>3. \A k \in delivered : k \in CodeIds /\ granted[k] # Absent
    BY DEF TypeOK, Origins
  <2> QED
    BY <2>1, <2>2, <2>3
<1> QED
  BY <1>1, <1>2

-----------------------------------------------------------------------------

\* The invariant holds in every reachable state.
THEOREM Invariance == Spec => []IInv
<1>1. IInv /\ [Next]_vars => IInv'
  BY TypingStep, ConsentsStep, CredentialsStep, OriginsStep, DeliveryStep DEF IInv
<1> QED
  BY InitInvariant, <1>1, PTL DEF Spec

\* The maps on disk and what the clients hold keep their types.
THEOREM TypeCorrect == Spec => []TypeOK
<1>1. IInv => TypeOK
  BY DEF IInv
<1> QED
  BY Invariance, <1>1, PTL

\* However often requests are repeated, replies lost and the server restarted
\* between two writes, one credential at most stands for a grant.
THEOREM OneCredential == Spec => []SingleCredential
<1>1. IInv => SingleCredential
  BY DEF IInv, Credentials, SingleCredential
<1> QED
  BY Invariance, <1>1, PTL

\* A client gets one code at most for each authorization request.
THEOREM OneCode == Spec => []OneCodePerFlow
<1>1. IInv => OneCodePerFlow
  BY DEF IInv
<1> QED
  BY Invariance, <1>1, PTL

\* No code, refresh token or access token is worth more than the consent.
THEOREM ConsentBounds == Spec => []WithinConsent
<1>1. IInv => WithinConsent
  BY DEF IInv, Consents, Covered, WithinConsent
<1> QED
  BY Invariance, <1>1, PTL

\* No code is exchanged after the lifetimes of its flow and its own have passed.
THEOREM Timeliness == Spec => TimelyRedemption
<1> DEFINE Timely ==
        \A c \in Clients, k \in CodeIds :
            codes[k] # Absent /\ issuing' # Absent /\ issuing'.grant = k
                => now <= requested[codes[k].flow] + FlowTTL + CodeTTL
<1>1. IInv /\ [Next]_vars => [Timely]_vars
  <2> SUFFICES ASSUME IInv, [Next]_vars, NEW k \in CodeIds, codes[k] # Absent,
                      issuing' # Absent, issuing'.grant = k, vars' # vars
               PROVE  now <= requested[codes[k].flow] + FlowTTL + CodeTTL
    OBVIOUS
  <2>1. issuing = Absent \/ issuing.grant # k
    BY DEF IInv, Credentials
  <2>2. \A r \in TokenIds : refresh[r] # Absent => refresh[r].grant # k
    BY DEF IInv, Credentials
  <2>3. issuing' # issuing
    BY <2>1
  <2>4. ASSUME NEW c \in Clients, NEW r \in TokenIds, NEW S \in SUBSET Scopes,
               ExchangeRefreshToken(c, r, S)
        PROVE  FALSE
    BY <2>2, <2>4 DEF ExchangeRefreshToken, LiveTokens
  <2>5. ~FlowStep
    BY <2>3, FlowStepsAreQuiet
  <2>6. PICK c \in Clients, j \in CodeIds : ExchangeCode(c, j)
    BY <2>3, <2>4, <2>5, StepCases DEF Approve, RejectTokenRequest, IssueTokens, Crash
  <2>7. codes[k].expires >= now
    BY <2>6 DEF ExchangeCode, LiveCodes
  <2>8. /\ codes[k].expires <= requested[codes[k].flow] + FlowTTL + CodeTTL
        /\ codes[k].expires \in Int /\ now \in Nat /\ requested[codes[k].flow] \in Nat
    BY DEF IInv, TypeOK, Origins, Code, Covered, Consents
  <2> QED
    BY <2>7, <2>8, TimeAssumption
<1> QED
  BY <1>1, Invariance, PTL DEF Spec, TimelyRedemption
-----------------------------------------------------------------------------

\* The refinement.  Where a grant stands, read off the storage; the cases that
\* IInv leaves.
Spent(g) == issuing # Absent /\ issuing.grant = g
NoToken(g) == \A r \in TokenIds : refresh[r] # Absent => refresh[r].grant # g
Stands(g, p, a) == Phase[g] = p /\ Authority[g] = a

Views ==
    \A g \in CodeIds :
        /\ granted[g] = Absent =>
               codes[g] = Absent /\ ~Spent(g) /\ NoToken(g) /\ Stands(g, "none", {})
        /\ codes[g] # Absent =>
               ~Spent(g) /\ NoToken(g) /\ Stands(g, "code", codes[g].scopes)
        /\ Spent(g) =>
               codes[g] = Absent /\ NoToken(g) /\ Stands(g, "spent", issuing.scopes)
        /\ \A r \in TokenIds : refresh[r] # Absent /\ refresh[r].grant = g =>
               /\ codes[g] = Absent /\ ~Spent(g)
               /\ Stands(g, "refresh", refresh[r].scopes)
        /\ granted[g] # Absent /\ codes[g] = Absent /\ ~Spent(g) /\ NoToken(g) =>
               Stands(g, "ended", {})

LEMMA ViewsHold == IInv => Views
<1> SUFFICES ASSUME IInv, NEW g \in CodeIds
    PROVE  /\ granted[g] = Absent =>
                  codes[g] = Absent /\ ~Spent(g) /\ NoToken(g) /\ Stands(g, "none", {})
           /\ codes[g] # Absent =>
                  ~Spent(g) /\ NoToken(g) /\ Stands(g, "code", codes[g].scopes)
           /\ Spent(g) =>
                  codes[g] = Absent /\ NoToken(g) /\ Stands(g, "spent", issuing.scopes)
           /\ \A r \in TokenIds : refresh[r] # Absent /\ refresh[r].grant = g =>
                  /\ codes[g] = Absent /\ ~Spent(g)
                  /\ Stands(g, "refresh", refresh[r].scopes)
           /\ granted[g] # Absent /\ codes[g] = Absent /\ ~Spent(g) /\ NoToken(g) =>
                  Stands(g, "ended", {})
  BY DEF Views
<1> DEFINE tokens == {r \in TokenIds : refresh[r] # Absent /\ refresh[r].grant = g}
<1>1. /\ codes[g] # Absent => granted[g] # Absent /\ ~Spent(g) /\ NoToken(g)
      /\ Spent(g) => granted[g] # Absent /\ NoToken(g)
      /\ \A r \in tokens : granted[g] # Absent
  BY DEF IInv, Consents, Covered, Credentials, Spent, NoToken
<1>2. NoToken(g) => UNION {refresh[r].scopes : r \in tokens} = {}
  BY DEF NoToken
<1>3. ASSUME NEW r \in tokens PROVE UNION {refresh[s].scopes : s \in tokens} = refresh[r].scopes
  <2>1. tokens = {r}
    BY DEF IInv, Credentials
  <2> QED
    BY <2>1
<1>4. /\ Phase[g] = IF granted[g] = Absent THEN "none"
                    ELSE IF codes[g] # Absent THEN "code"
                    ELSE IF Spent(g) THEN "spent"
                    ELSE IF \E r \in TokenIds : refresh[r] # Absent /\ refresh[r].grant = g
                         THEN "refresh" ELSE "ended"
      /\ Authority[g] = IF codes[g] # Absent THEN codes[g].scopes
                        ELSE IF Spent(g) THEN issuing.scopes
                        ELSE UNION {refresh[r].scopes : r \in tokens}
  BY DEF Phase, Authority, Spent
<1> HIDE DEF tokens
<1>5. \A r \in TokenIds : r \in tokens <=> refresh[r] # Absent /\ refresh[r].grant = g
  BY DEF tokens
<1>6. NoToken(g) <=> \A r \in TokenIds : r \notin tokens
  BY <1>5 DEF NoToken
<1> QED
  BY <1>1, <1>2, <1>3, <1>4, <1>5, <1>6 DEF Stands
-----------------------------------------------------------------------------

\* What becomes of one grant in a step.
GrantStep(g) ==
    \/ Lifecycle!Consented(g) \/ Lifecycle!Redeemed(g) \/ Lifecycle!Renewed(g)
    \/ Lifecycle!Ended(g) \/ Lifecycle!Kept(g)

\* A grant whose entries do not change stays where it is.
LEMMA UntouchedGrant ==
    ASSUME Views, Views', NEW g \in CodeIds,
           codes'[g] = codes[g], granted'[g] = granted[g],
           Spent(g)' <=> Spent(g), Spent(g) => issuing' = issuing,
           \A r \in TokenIds : refresh[r] # Absent /\ refresh[r].grant = g
               => refresh'[r] = refresh[r],
           NoToken(g) => NoToken(g)'
    PROVE  GrantStep(g)
<1>1. CASE granted[g] = Absent
  BY <1>1 DEF Views, Stands, GrantStep, Lifecycle!Kept
<1>2. CASE codes[g] # Absent
  BY <1>2 DEF Views, Stands, GrantStep, Lifecycle!Kept
<1>3. CASE Spent(g)
  BY <1>3 DEF Views, Stands, GrantStep, Lifecycle!Kept
<1>4. CASE ~NoToken(g)
  <2>1. PICK r \in TokenIds : refresh[r] # Absent /\ refresh[r].grant = g
    BY <1>4 DEF NoToken
  <2>2. refresh'[r] = refresh[r]
    BY <2>1
  <2> QED
    BY <2>1, <2>2 DEF Views, Stands, GrantStep, Lifecycle!Kept
<1>5. CASE granted[g] # Absent /\ codes[g] = Absent /\ ~Spent(g) /\ NoToken(g)
  BY <1>5 DEF Views, Stands, GrantStep, Lifecycle!Kept
<1> QED
  BY <1>1, <1>2, <1>3, <1>4, <1>5

\* A grant that loses its code or its refresh token and is not being issued
\* another has ended; so has one a crash interrupts.
LEMMA LapsedGrant ==
    ASSUME Views, Views', NEW g \in CodeIds,
           granted[g] # Absent, granted'[g] = granted[g],
           codes[g] # Absent \/ Spent(g) \/ ~NoToken(g),
           codes'[g] = Absent, ~Spent(g)', NoToken(g)'
    PROVE  GrantStep(g)
<1>1. Stands(g, "ended", {})'
  BY DEF Views
<1>2. Phase[g] \in {"code", "spent", "refresh"}
  BY DEF Views, Stands, NoToken
<1> QED
  BY <1>1, <1>2 DEF Stands, GrantStep, Lifecycle!Ended

\* A grant whose credential is deleted to issue the next one.
LEMMA RedeemedGrant ==
    ASSUME Views, Views', NEW g \in CodeIds, Spent(g)',
           \/ codes[g] # Absent /\ issuing'.scopes \subseteq codes[g].scopes
           \/ \E r \in TokenIds : /\ refresh[r] # Absent /\ refresh[r].grant = g
                                  /\ issuing'.scopes \subseteq refresh[r].scopes
    PROVE  GrantStep(g)
<1>1. Stands(g, "spent", issuing.scopes)'
  BY DEF Views
<1>2. Phase[g] \in {"code", "refresh"} /\ issuing'.scopes \subseteq Authority[g]
  BY DEF Views, Stands
<1> QED
  BY <1>1, <1>2 DEF Stands, GrantStep, Lifecycle!Redeemed

LEMMA StepRefinesGrants ==
    ASSUME IInv, IInv', Views, Views', [Next]_vars, NEW g \in CodeIds
    PROVE  GrantStep(g)
<1> USE AbsentIsNoEntry
<1>0. TypeOK /\ TypeOK' /\ Credentials /\ Consents
  BY DEF IInv
<1>1. CASE FlowStep
  BY <1>1, FlowStepsAreQuiet, UntouchedGrant DEF Spent, NoToken
<1>2. ASSUME NEW f \in FlowIds, NEW k \in CodeIds, Approve(f, k) PROVE GrantStep(g)
  <2>1. /\ granted[k] = Absent /\ UNCHANGED <<refresh, issuing>>
        /\ codes'[k] # Absent
        /\ \A j \in CodeIds : j # k => codes'[j] = codes[j] /\ granted'[j] = granted[j]
    <3>1. /\ granted[k] = Absent /\ UNCHANGED <<refresh, issuing>>
          /\ \A j \in CodeIds : j # k => codes'[j] = codes[j] /\ granted'[j] = granted[j]
      BY <1>0, <1>2 DEF Approve, TypeOK
    <3>2. codes'[k].flow = f /\ codes'[k] \in Code \cup {Absent}
      BY <1>0, <1>2 DEF Approve, TypeOK
    <3>3. codes'[k] = [flow |-> f, client |-> flows[f].client, scopes |-> flows[f].scopes,
                       expires |-> now + CodeTTL]
      BY <1>0, <1>2 DEF Approve, TypeOK
    <3>4. flows[f] \in Flow
      BY <1>0, <1>2 DEF Approve, Live, TypeOK
    <3>5. codes'[k] \in Code
      BY <1>0, <3>3, <3>4, TimeAssumption DEF Code, Flow, TypeOK
    <3> QED
      BY <3>1, <3>5
  <2>2. CASE g = k
    BY <2>1, <2>2 DEF Views, Stands, GrantStep, Lifecycle!Consented
  <2>3. CASE g # k
    BY <2>1, <2>3, UntouchedGrant DEF Spent, NoToken
  <2> QED
    BY <2>2, <2>3
<1>3. ASSUME NEW c \in Clients, NEW k \in CodeIds, ExchangeCode(c, k) PROVE GrantStep(g)
  <2>1. /\ codes[k] # Absent /\ issuing = Absent /\ issuing' # Absent
        /\ issuing'.grant = k /\ issuing'.scopes = codes[k].scopes
        /\ UNCHANGED <<refresh, granted>>
    <3>1. [grant |-> k, client |-> c, scopes |-> codes[k].scopes] \in Issue
      BY <1>0, <1>3 DEF ExchangeCode, LiveCodes, TypeOK, Code, Issue
    <3> QED
      BY <1>3, <3>1 DEF ExchangeCode, LiveCodes, Idle
  <2>2. codes'[g] = codes[g] \/ codes'[g] = Absent
    BY <1>0, <1>3, LookupsOnlyDelete DEF ExchangeCode
  <2>3. CASE g = k
    BY <2>1, <2>3, RedeemedGrant DEF Spent
  <2>4. CASE g # k /\ codes'[g] = codes[g]
    BY <2>1, <2>4, UntouchedGrant DEF Spent, NoToken
  <2>5. CASE g # k /\ codes'[g] = Absent /\ codes[g] # Absent
    <3>1. granted[g] # Absent /\ NoToken(g)
      BY <2>5 DEF Views
    <3> QED
      BY <2>1, <2>5, <3>1, LapsedGrant DEF Spent, NoToken
  <2> QED
    BY <2>2, <2>3, <2>4, <2>5
<1>4. ASSUME NEW c \in Clients, NEW r \in TokenIds, NEW S \in SUBSET Scopes,
             ExchangeRefreshToken(c, r, S)
      PROVE  GrantStep(g)
  <2>1. /\ refresh[r] # Absent /\ issuing = Absent /\ issuing' # Absent
        /\ issuing'.grant = refresh[r].grant /\ issuing'.scopes \subseteq refresh[r].scopes
        /\ UNCHANGED <<codes, granted>>
    <3>1. [grant |-> refresh[r].grant, client |-> c,
           scopes |-> IF S = {} THEN refresh[r].scopes ELSE S] \in Issue
      BY <1>0, <1>4 DEF ExchangeRefreshToken, LiveTokens, TypeOK, Token, Issue
    <3> QED
      BY <1>4, <3>1 DEF ExchangeRefreshToken, LiveTokens, Idle
  <2>2. \A t \in TokenIds : refresh'[t] = refresh[t] \/ refresh'[t] = Absent
    BY <1>0, <1>4, LookupsOnlyDelete DEF ExchangeRefreshToken
  <2>3. CASE g = refresh[r].grant
    BY <2>1, <2>3, RedeemedGrant DEF Spent
  <2>4. CASE g # refresh[r].grant /\ \A t \in TokenIds :
                 refresh[t] # Absent /\ refresh[t].grant = g => refresh'[t] = refresh[t]
    BY <2>1, <2>2, <2>4, UntouchedGrant DEF Spent, NoToken
  <2>5. ASSUME g # refresh[r].grant, NEW t \in TokenIds, refresh[t] # Absent,
               refresh[t].grant = g, refresh'[t] # refresh[t]
        PROVE  GrantStep(g)
    <3>1. granted[g] # Absent /\ codes[g] = Absent /\ ~NoToken(g)
      BY <2>5 DEF Views, NoToken
    <3>2. NoToken(g)'
      BY <1>0, <2>2, <2>5 DEF NoToken, Credentials
    <3> QED
      BY <2>1, <2>5, <3>1, <3>2, LapsedGrant DEF Spent
  <2> QED
    BY <2>3, <2>4, <2>5
<1>5. CASE RejectTokenRequest
  <2>1. /\ UNCHANGED <<issuing, granted>> /\ issuing = Absent
        /\ codes'[g] = codes[g] \/ codes'[g] = Absent
        /\ \A t \in TokenIds : refresh'[t] = refresh[t] \/ refresh'[t] = Absent
    BY <1>0, <1>5, LookupsOnlyDelete DEF RejectTokenRequest, Idle
  <2>2. CASE codes'[g] = codes[g] /\ \A t \in TokenIds :
                 refresh[t] # Absent /\ refresh[t].grant = g => refresh'[t] = refresh[t]
    BY <2>1, <2>2, UntouchedGrant DEF Spent, NoToken
  <2>3. CASE codes'[g] = Absent /\ codes[g] # Absent
    <3>1. granted[g] # Absent /\ NoToken(g)
      BY <2>3 DEF Views
    <3> QED
      BY <2>1, <2>3, <3>1, LapsedGrant DEF Spent, NoToken
  <2>4. ASSUME NEW t \in TokenIds, refresh[t] # Absent,
               refresh[t].grant = g, refresh'[t] # refresh[t]
        PROVE  GrantStep(g)
    <3>1. granted[g] # Absent /\ codes[g] = Absent /\ ~NoToken(g)
      BY <2>4 DEF Views, NoToken
    <3>2. NoToken(g)'
      BY <1>0, <2>1, <2>4 DEF NoToken, Credentials
    <3> QED
      BY <2>1, <3>1, <3>2, LapsedGrant DEF Spent
  <2> QED
    BY <2>1, <2>2, <2>3, <2>4
<1>6. ASSUME NEW r \in TokenIds, IssueTokens(r) PROVE GrantStep(g)
  <2>1. /\ issuing # Absent /\ issuing' = Absent /\ UNCHANGED <<codes, granted>>
        /\ refresh[r] = Absent /\ refresh'[r].grant = issuing.grant
        /\ refresh'[r].scopes = issuing.scopes
        /\ \A s \in TokenIds : s # r => refresh'[s] = refresh[s]
    BY <1>0, <1>6 DEF IssueTokens, TypeOK
  <2>2. refresh'[r] # Absent
    <3>1. issuing \in Issue
      BY <1>0, <2>1 DEF TypeOK, Issue
    <3>2. [grant |-> issuing.grant, client |-> issuing.client,
           scopes |-> issuing.scopes, expires |-> now + RefreshTTL] \in Token
      BY <1>0, <3>1, TimeAssumption DEF Issue, Token, TypeOK
    <3> QED
      BY <1>0, <1>6, <3>2 DEF IssueTokens, TypeOK
  <2>3. CASE g = issuing.grant
    <3>1. Stands(g, "spent", issuing.scopes)
      BY <2>1, <2>3 DEF Views, Spent
    <3>2. Stands(g, "refresh", refresh[r].scopes)'
      BY <2>1, <2>2, <2>3 DEF Views
    <3> QED
      BY <2>1, <3>1, <3>2 DEF Stands, GrantStep, Lifecycle!Renewed
  <2>4. CASE g # issuing.grant
    BY <2>1, <2>4, UntouchedGrant DEF Spent, NoToken
  <2> QED
    BY <2>3, <2>4
<1>7. CASE Crash
  <2>1. issuing' = Absent /\ UNCHANGED <<codes, refresh, granted>>
    BY <1>7 DEF Crash, stored
  <2>2. CASE Spent(g)
    <3>1. granted[g] # Absent /\ codes[g] = Absent /\ NoToken(g)
      BY <2>2 DEF Views
    <3> QED
      BY <2>1, <2>2, <3>1, LapsedGrant DEF Spent, NoToken
  <2>3. CASE ~Spent(g)
    BY <2>1, <2>3, UntouchedGrant DEF Spent, NoToken
  <2> QED
    BY <2>2, <2>3
<1> QED
  BY <1>1, <1>2, <1>3, <1>4, <1>5, <1>6, <1>7, StepCases

\* The mapped variables keep their types.
MappedTypeOK ==
    /\ Phase \in [CodeIds -> Lifecycle!Phases]
    /\ Authority \in [CodeIds -> SUBSET Scopes]

LEMMA MappedTypes == IInv => MappedTypeOK
<1> SUFFICES ASSUME TypeOK PROVE MappedTypeOK
  BY DEF IInv
<1>1. Phase \in [CodeIds -> Lifecycle!Phases]
  BY DEF Phase, Lifecycle!Phases
<1>2. ASSUME NEW g \in CodeIds PROVE Authority[g] \in SUBSET Scopes
  <2>1. codes[g] # Absent => codes[g].scopes \in SUBSET Scopes
    BY DEF TypeOK, Code
  <2>2. issuing # Absent => issuing.scopes \in SUBSET Scopes
    BY DEF TypeOK
  <2>3. \A r \in TokenIds : refresh[r] # Absent => refresh[r].scopes \in SUBSET Scopes
    BY DEF TypeOK, Token
  <2> QED
    BY <2>1, <2>2, <2>3 DEF Authority
<1> QED
  BY <1>1, <1>2 DEF Authority, MappedTypeOK

\* The server's grants live as GrantLifecycle says.
THEOREM Refinement == Spec => ImplementsLifecycle
<1>1. Init => Lifecycle!Init
  BY DEF Init, Lifecycle!Init, Phase, Authority
<1>2. IInv /\ IInv' /\ Views /\ Views' /\ MappedTypeOK' /\ [Next]_vars
          => [Lifecycle!Next]_(Lifecycle!vars)
  <2> SUFFICES ASSUME IInv, IInv', Views, Views', MappedTypeOK', [Next]_vars
               PROVE  Lifecycle!Next
    BY DEF Lifecycle!vars
  <2>1. \A g \in CodeIds : GrantStep(g)
    BY StepRefinesGrants
  <2> QED
    BY <2>1 DEF Lifecycle!Next, GrantStep, MappedTypeOK
<1> QED
  BY <1>1, <1>2, ViewsHold, MappedTypes, Invariance, PTL DEF Spec, ImplementsLifecycle, Lifecycle!Spec

\* What GrantLifecycle lets happen to one grant.
LEMMA GrantOnlyShrinks ==
    ASSUME NEW g \in CodeIds, GrantStep(g), Phase[g] # "none"
    PROVE  /\ Phase'[g] # "none" /\ Authority'[g] \subseteq Authority[g]
           /\ Phase[g] = "ended" => Phase'[g] = "ended"
  BY DEF GrantStep, Lifecycle!Consented, Lifecycle!Redeemed, Lifecycle!Renewed,
         Lifecycle!Ended, Lifecycle!Kept

\* What the user consented to only shrinks, and a grant that has ended stays so,
\* through refreshes with fewer scopes, replays of used tokens and crashes.
THEOREM ConsentShrinks == Spec => Lifecycle!ConsentOnlyShrinks
<1>1. IInv /\ IInv' /\ Views /\ Views' /\ [Next]_vars
          => [\A g \in CodeIds : Phase[g] # "none" =>
                 /\ Phase'[g] # "none" /\ Authority'[g] \subseteq Authority[g]
                 /\ Phase[g] = "ended" => Phase'[g] = "ended"]_(Lifecycle!vars)
  <2> SUFFICES ASSUME IInv, IInv', Views, Views', [Next]_vars,
                      NEW g \in CodeIds, Phase[g] # "none"
               PROVE  /\ Phase'[g] # "none" /\ Authority'[g] \subseteq Authority[g]
                      /\ Phase[g] = "ended" => Phase'[g] = "ended"
    OBVIOUS
  <2>1. GrantStep(g)
    BY StepRefinesGrants
  <2> QED
    BY <2>1, GrantOnlyShrinks
<1> QED
  BY <1>1, ViewsHold, Invariance, PTL DEF Spec, Lifecycle!ConsentOnlyShrinks

=============================================================================
