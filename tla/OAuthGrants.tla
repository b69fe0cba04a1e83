----------------------------- MODULE OAuthGrants -----------------------------
(***************************************************************************)
(* The embedded OAuth server (oauth_app.py, oauth_provider.py) over its    *)
(* storage (oauth_storage.py): registration, authorization flows with      *)
(* login and consent, authorization codes and rotating refresh tokens.     *)
(*                                                                         *)
(* Handlers run on one event loop and wait for nothing once their form is  *)
(* read, so each runs alone; but what it stores takes several writes, and  *)
(* the process may crash between two of them and start again with what is  *)
(* on disk.  "closing" and "issuing" are where a handler is between its    *)
(* writes.  A reply may be lost, so a client may repeat any request it     *)
(* ever had the credential for, in any order.                              *)
(*                                                                         *)
(* Abstracted: redirect URIs, PKCE challenges, the state parameter and the *)
(* resource are carried along and compared, never changed, and a request   *)
(* that fails on them stores nothing; a registration the allowlist refuses *)
(* stores nothing; access tokens are the scopes they are signed for.       *)
(***************************************************************************)
EXTENDS Integers

CONSTANTS
    Clients,         \* the clients that may register
    Scopes,          \* the scopes they may ask for
    DefaultScopes,   \* DEFAULT_SCOPES
    FlowIds, CodeIds, TokenIds,   \* what secrets.token_urlsafe may return
    FlowTTL,         \* 1800 seconds
    CodeTTL,         \* OAUTH_AUTHORIZATION_CODE_TTL_SECONDS
    RefreshTTL,      \* OAUTH_REFRESH_TOKEN_TTL_SECONDS
    Horizon,         \* the clock stops here
    Absent           \* no entry in a map

ASSUME ScopesAssumption == DefaultScopes \subseteq Scopes /\ DefaultScopes # {}
ASSUME TimeAssumption ==
    FlowTTL \in Nat /\ CodeTTL \in Int /\ RefreshTTL \in Int /\ Horizon \in Nat

\* The entries of the maps in clients.json (the scopes a client registered),
\* flows.json, authorization_codes.json and refresh_tokens.json.  "flow" and
\* "grant" are history: the flow a code was issued for, the code that began it.
Client == [scopes : SUBSET Scopes]
Flow == [client : Clients, scopes : SUBSET Scopes, created : Nat, authenticated : BOOLEAN]
Code == [flow : FlowIds, client : Clients, scopes : SUBSET Scopes, expires : Int]
Token == [grant : CodeIds, client : Clients, scopes : SUBSET Scopes, expires : Int]
Grant == [flow : FlowIds, client : Clients, scopes : SUBSET Scopes]

ASSUME AbsentAssumption ==
    Absent \notin Nat \cup Client \cup Flow \cup Code \cup Token \cup Grant
                  \cup [flow : FlowIds, code : CodeIds]
                  \cup [grant : CodeIds, client : Clients, scopes : SUBSET Scopes]

VARIABLES
    now,        \* the clock
    clients,    \* clients.json
    flows,      \* flows.json
    codes,      \* authorization_codes.json
    refresh,    \* refresh_tokens.json
    closing,    \* a consent has stored its code and not yet deleted its flow
    issuing,    \* a token request has deleted its credential and not yet
                \* stored the refresh token that follows it
    delivered,  \* the codes that reached their client
    held,       \* the refresh tokens that reached their client
    access,     \* the access tokens that reached their client
    requested,  \* history: when each flow was begun
    granted     \* history: what each code was issued for

stored == <<clients, flows, codes, refresh>>
client == <<delivered, held, access>>
vars == <<now, stored, closing, issuing, client, requested, granted>>

TypeOK ==
    /\ now \in Nat
    /\ clients \in [Clients -> Client \cup {Absent}]
    /\ flows \in [FlowIds -> Flow \cup {Absent}]
    /\ codes \in [CodeIds -> Code \cup {Absent}]
    /\ refresh \in [TokenIds -> Token \cup {Absent}]
    /\ closing \in [flow : FlowIds, code : CodeIds] \cup {Absent}
    /\ issuing \in [grant : CodeIds, client : Clients, scopes : SUBSET Scopes]
                   \cup {Absent}
    /\ delivered \subseteq CodeIds
    /\ held \subseteq TokenIds
    /\ access \subseteq [grant : CodeIds, client : Clients, scopes : SUBSET Scopes]
    /\ requested \in [FlowIds -> Nat \cup {Absent}]
    /\ granted \in [CodeIds -> Grant \cup {Absent}]

Init ==
    /\ now = 0
    /\ clients = [c \in Clients |-> Absent]
    /\ flows = [f \in FlowIds |-> Absent]
    /\ codes = [k \in CodeIds |-> Absent]
    /\ refresh = [r \in TokenIds |-> Absent]
    /\ closing = Absent
    /\ issuing = Absent
    /\ delivered = {}
    /\ held = {}
    /\ access = {}
    /\ requested = [f \in FlowIds |-> Absent]
    /\ granted = [k \in CodeIds |-> Absent]

Idle == closing = Absent /\ issuing = Absent

-----------------------------------------------------------------------------
(* Clients and flows.                                                      *)

\* POST /register: a client that names no scopes gets the default ones.
Register(c, scopes) ==
    /\ Idle
    /\ clients[c] = Absent
    /\ clients' = [clients EXCEPT ![c] =
           [scopes |-> IF scopes = {} THEN DefaultScopes ELSE scopes]]
    /\ UNCHANGED <<now, flows, codes, refresh, closing, issuing, client, requested, granted>>

\* /authorize: the client may ask for some of its scopes, or else gets them all.
Authorize(c, f, scopes) ==
    /\ Idle
    /\ clients[c] # Absent
    /\ scopes \subseteq clients[c].scopes
    /\ requested[f] = Absent
    /\ flows' = [flows EXCEPT ![f] =
           [client |-> c, scopes |-> IF scopes = {} THEN clients[c].scopes ELSE scopes,
            created |-> now, authenticated |-> FALSE]]
    /\ requested' = [requested EXCEPT ![f] = now]
    /\ UNCHANGED <<now, clients, codes, refresh, closing, issuing, client, granted>>

FlowExpired(f) == flows[f].created + FlowTTL < now

\* The flow that get_flow() returns.
Live(f) == flows[f] # Absent /\ ~FlowExpired(f)

\* get_flow() deletes an expired flow, on behalf of any page.
ExpireFlow(f) ==
    /\ Idle
    /\ flows[f] # Absent
    /\ FlowExpired(f)
    /\ flows' = [flows EXCEPT ![f] = Absent]
    /\ UNCHANGED <<now, clients, codes, refresh, closing, issuing, client, requested, granted>>

\* Mutant: a login begins the flow's half hour anew.
LoginRenews(f) ==
    /\ Idle
    /\ Live(f)
    /\ flows' = [flows EXCEPT ![f].authenticated = TRUE, ![f].created = now]
    /\ UNCHANGED <<now, clients, codes, refresh, closing, issuing, client, requested, granted>>

\* POST /oauth/login with the right credentials; with others nothing is stored.
Login(f) ==
    /\ Idle
    /\ Live(f)
    /\ flows' = [flows EXCEPT ![f].authenticated = TRUE]
    /\ UNCHANGED <<now, clients, codes, refresh, closing, issuing, client, requested, granted>>

\* POST /oauth/consent, denied.
Deny(f) ==
    /\ Idle
    /\ Live(f)
    /\ flows[f].authenticated
    /\ flows' = [flows EXCEPT ![f] = Absent]
    /\ UNCHANGED <<now, clients, codes, refresh, closing, issuing, client, requested, granted>>

\* POST /oauth/consent, approved: the first write stores the code.
Approve(f, k) ==
    /\ Idle
    /\ Live(f)
    /\ flows[f].authenticated
    /\ granted[k] = Absent
    /\ codes' = [codes EXCEPT ![k] =
           [flow |-> f, client |-> flows[f].client, scopes |-> flows[f].scopes,
            expires |-> now + CodeTTL]]
    /\ granted' = [granted EXCEPT ![k] =
           [flow |-> f, client |-> flows[f].client, scopes |-> flows[f].scopes]]
    /\ closing' = [flow |-> f, code |-> k]
    /\ UNCHANGED <<now, clients, flows, refresh, issuing, client, requested>>

\* Mutant: the flow is left to expire.
CloseFlowLater ==
    /\ closing # Absent
    /\ closing' = Absent
    /\ \/ delivered' = delivered \cup {closing.code}
       \/ UNCHANGED delivered
    /\ UNCHANGED <<now, stored, issuing, held, access, requested, granted>>

\* The second deletes the flow; then the redirect carries the code to the
\* client, or is lost.
CloseFlow ==
    /\ closing # Absent
    /\ flows' = [flows EXCEPT ![closing.flow] = Absent]
    /\ closing' = Absent
    /\ \/ delivered' = delivered \cup {closing.code}
       \/ UNCHANGED delivered
    /\ UNCHANGED <<now, clients, codes, refresh, issuing, held, access, requested, granted>>

-----------------------------------------------------------------------------
(* POST /token.  Looking a credential up first deletes the expired ones.   *)

LiveCodes == {k \in CodeIds : codes[k] # Absent /\ codes[k].expires >= now}
LiveTokens == {r \in TokenIds : refresh[r] # Absent /\ refresh[r].expires >= now}

KeepCodes(K) == codes' = [k \in CodeIds |-> IF k \in K THEN codes[k] ELSE Absent]
KeepTokens(R) == refresh' = [r \in TokenIds |-> IF r \in R THEN refresh[r] ELSE Absent]

\* Mutant: the code stays behind until it expires.
ExchangeCodeKept(c, k) ==
    /\ Idle
    /\ k \in delivered \cap LiveCodes
    /\ codes[k].client = c
    /\ KeepCodes(LiveCodes)
    /\ issuing' = [grant |-> k, client |-> c, scopes |-> codes[k].scopes]
    /\ UNCHANGED <<now, clients, flows, refresh, closing, client, requested, granted>>

\* Mutant: the tokens get the scopes of the client, not those of the code.
ExchangeCodeRegistered(c, k) ==
    /\ Idle
    /\ k \in delivered \cap LiveCodes
    /\ codes[k].client = c
    /\ KeepCodes(LiveCodes \ {k})
    /\ issuing' = [grant |-> k, client |-> c, scopes |-> clients[c].scopes]
    /\ UNCHANGED <<now, clients, flows, refresh, closing, client, requested, granted>>

\* grant_type=authorization_code: the first write deletes the code.
ExchangeCode(c, k) ==
    /\ Idle
    /\ k \in delivered \cap LiveCodes
    /\ codes[k].client = c
    /\ KeepCodes(LiveCodes \ {k})
    /\ issuing' = [grant |-> k, client |-> c, scopes |-> codes[k].scopes]
    /\ UNCHANGED <<now, clients, flows, refresh, closing, client, requested, granted>>

\* Mutant: the refresh token is not rotated out.
ExchangeRefreshTokenKept(c, r, scopes) ==
    /\ Idle
    /\ r \in held \cap LiveTokens
    /\ refresh[r].client = c
    /\ scopes \subseteq refresh[r].scopes
    /\ KeepTokens(LiveTokens)
    /\ issuing' = [grant |-> refresh[r].grant, client |-> c,
                   scopes |-> IF scopes = {} THEN refresh[r].scopes ELSE scopes]
    /\ UNCHANGED <<now, clients, flows, codes, closing, client, requested, granted>>

\* grant_type=refresh_token: the first write deletes the token presented.
ExchangeRefreshToken(c, r, scopes) ==
    /\ Idle
    /\ r \in held \cap LiveTokens
    /\ refresh[r].client = c
    /\ scopes \subseteq refresh[r].scopes
    /\ KeepTokens(LiveTokens \ {r})
    /\ issuing' = [grant |-> refresh[r].grant, client |-> c,
                   scopes |-> IF scopes = {} THEN refresh[r].scopes ELSE scopes]
    /\ UNCHANGED <<now, clients, flows, codes, closing, client, requested, granted>>

\* A request whose credential is unknown, used, expired or another client's.
RejectTokenRequest ==
    /\ Idle
    /\ \/ KeepCodes(LiveCodes) /\ UNCHANGED refresh
       \/ KeepTokens(LiveTokens) /\ UNCHANGED codes
    /\ UNCHANGED <<now, clients, flows, closing, issuing, client, requested, granted>>

\* Mutant: the new token is stored without an expiry.
IssueTokensForever(r) ==
    /\ issuing # Absent
    /\ refresh[r] = Absent
    /\ refresh' = [refresh EXCEPT ![r] =
           [grant |-> issuing.grant, client |-> issuing.client, scopes |-> issuing.scopes]]
    /\ issuing' = Absent
    /\ UNCHANGED <<now, clients, flows, codes, closing, client, requested, granted>>

\* The second write stores the next refresh token; then an access token is
\* signed, and the reply carries both to the client, or is lost.
IssueTokens(r) ==
    /\ issuing # Absent
    /\ refresh[r] = Absent
    /\ r \notin held
    /\ refresh' = [refresh EXCEPT ![r] =
           [grant |-> issuing.grant, client |-> issuing.client,
            scopes |-> issuing.scopes, expires |-> now + RefreshTTL]]
    /\ \/ held' = held \cup {r} /\ access' = access \cup {issuing}
       \/ UNCHANGED <<held, access>>
    /\ issuing' = Absent
    /\ UNCHANGED <<now, clients, flows, codes, closing, delivered, requested, granted>>

-----------------------------------------------------------------------------

\* The process stops between two writes and starts again.
Crash ==
    /\ ~Idle
    /\ closing' = Absent
    /\ issuing' = Absent
    /\ UNCHANGED <<now, stored, client, requested, granted>>

Tick ==
    /\ now < Horizon
    /\ now' = now + 1
    /\ UNCHANGED <<stored, closing, issuing, client, requested, granted>>

Next ==
    \/ \E c \in Clients, S \in SUBSET Scopes : Register(c, S)
    \/ \E c \in Clients, f \in FlowIds, S \in SUBSET Scopes : Authorize(c, f, S)
    \/ \E f \in FlowIds : ExpireFlow(f) \/ Login(f) \/ Deny(f)
    \/ \E f \in FlowIds, k \in CodeIds : Approve(f, k)
    \/ CloseFlow
    \/ \E c \in Clients, k \in CodeIds : ExchangeCode(c, k)
    \/ \E c \in Clients, r \in TokenIds, S \in SUBSET Scopes :
           ExchangeRefreshToken(c, r, S)
    \/ RejectTokenRequest
    \/ \E r \in TokenIds : IssueTokens(r)
    \/ Crash
    \/ Tick

Spec == Init /\ [][Next]_vars

-----------------------------------------------------------------------------
(* Correctness.                                                            *)

\* At most one credential stands for a grant: its code, a refresh token, or
\* the one that is being issued, through replays, lost replies and crashes
\* between the two writes of a rotation (README.md, "Rotating refresh tokens").
SingleCredential ==
    \A k \in CodeIds :
        LET tokens == {r \in TokenIds : refresh[r] # Absent /\ refresh[r].grant = k}
            spent == issuing # Absent /\ issuing.grant = k
        IN  /\ \A r, s \in tokens : r = s
            /\ codes[k] # Absent => tokens = {} /\ ~spent
            /\ spent => tokens = {}

\* A client gets at most one code for an authorization request, although a
\* crash between the two writes of a consent lets the user approve it again.
OneCodePerFlow ==
    \A j, k \in delivered : granted[j].flow = granted[k].flow => j = k

\* Whatever a client holds or the storage keeps for it is worth no more than
\* the resource owner agreed to, and belongs to the client it was granted to.
WithinConsent ==
    LET Covered(credential, k) ==
            /\ granted[k] # Absent
            /\ credential.client = granted[k].client
            /\ credential.scopes \subseteq granted[k].scopes
    IN  /\ \A k \in CodeIds : codes[k] # Absent => Covered(codes[k], k)
        /\ \A r \in TokenIds : refresh[r] # Absent => Covered(refresh[r], refresh[r].grant)
        /\ \A a \in access : Covered(a, a.grant)

\* A code is exchanged no later than the lifetime of its flow and its own allow
\* after the client began the flow, however often its pages are visited.
TimelyRedemption ==
    [][\A c \in Clients, k \in CodeIds :
          codes[k] # Absent /\ issuing' # Absent /\ issuing'.grant = k
              => now <= requested[codes[k].flow] + FlowTTL + CodeTTL]_vars

\* The credential of each grant, and what it is worth.
Phase == [k \in CodeIds |->
    IF granted[k] = Absent THEN "none"
    ELSE IF codes[k] # Absent THEN "code"
    ELSE IF issuing # Absent /\ issuing.grant = k THEN "spent"
    ELSE IF \E r \in TokenIds : refresh[r] # Absent /\ refresh[r].grant = k THEN "refresh"
    ELSE "ended"]

Authority == [k \in CodeIds |->
    IF codes[k] # Absent THEN codes[k].scopes
    ELSE IF issuing # Absent /\ issuing.grant = k THEN issuing.scopes
    ELSE UNION {refresh[r].scopes :
                    r \in {s \in TokenIds : refresh[s] # Absent /\ refresh[s].grant = k}}]

Lifecycle == INSTANCE GrantLifecycle WITH
    Grants <- CodeIds, phase <- Phase, authority <- Authority

\* The server keeps the lifecycle that GrantLifecycle promises.
ImplementsLifecycle == Lifecycle!Spec

=============================================================================
