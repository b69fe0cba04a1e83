------------------------------ MODULE SigningKey ------------------------------
(***************************************************************************)
(* The signing key of the access tokens (oauth_tokens.py) and the bearer   *)
(* check in front of the MCP app (oauth_app.py, OAuthProtectedMCPApp).     *)
(* The key is made at the first start and kept in a file; access tokens    *)
(* are kept nowhere, so what is left of one after a restart is the key     *)
(* that verifies it.  The process may stop at any step, while it writes    *)
(* the key too, and docker-compose.yml starts it again.                    *)
(*                                                                         *)
(* Abstracted: RSA and JWT (a token is the claims the check looks at and   *)
(* the key that signed them), and the issuer, which is the same setting    *)
(* whenever a token is signed or checked.                                  *)
(***************************************************************************)
EXTENDS Integers

CONSTANTS
    Keys,        \* what generate_private_key() may return
    Resources,   \* the resources a client may ask for
    Own,         \* public_mcp_url
    TTL,         \* OAUTH_ACCESS_TOKEN_TTL_SECONDS
    Horizon,     \* the clock stops here
    Missing,     \* a key file that is not there
    Torn,        \* a key file that holds no key
    None         \* no key in memory

ASSUME KeysAssumption == {Missing, Torn, None} \cap Keys = {} /\ Missing # Torn
\* config.py accepts any integer as the lifetime; a token with a negative one is
\* never valid.
ASSUME TimeAssumption == TTL \in Int /\ Horizon \in Nat
ASSUME OwnAssumption == Own \in Resources

VARIABLES
    now,        \* the clock
    process,    \* "down", "generated" or "opened" at its first start, "up"
    keyFile,    \* the file at OAUTH_JWT_KEY_PATH
    key,        \* the private key in memory
    tokens      \* the access tokens that clients hold

vars == <<now, process, keyFile, key, tokens>>

Token == [key : Keys, audience : Resources, expires : Int]

TypeOK ==
    /\ now \in Nat
    /\ process \in {"down", "generated", "opened", "up"}
    /\ keyFile \in Keys \cup {Missing, Torn}
    /\ key \in Keys \cup {None}
    /\ tokens \subseteq Token

Init ==
    /\ now = 0
    /\ process = "down"
    /\ keyFile = Missing
    /\ key = None
    /\ tokens = {}

-----------------------------------------------------------------------------
(* The start: JWTSignerVerifier.__init__() and _load_or_create_private_key(). *)

\* Mutant: the file is taken for a key unread.
LoadUnread ==
    /\ process = "down"
    /\ keyFile # Missing
    /\ key' = keyFile
    /\ process' = "up"
    /\ UNCHANGED <<now, keyFile, tokens>>

\* Mutant: a key that was loaded is written out anew.
LoadAndRewrite ==
    /\ process = "down"
    /\ keyFile \in Keys
    /\ key' = keyFile
    /\ process' = "generated"
    /\ UNCHANGED <<now, keyFile, tokens>>

Load ==
    /\ process = "down"
    /\ keyFile \in Keys
    /\ key' = keyFile
    /\ process' = "up"
    /\ UNCHANGED <<now, keyFile, tokens>>

\* A start that raises before there is a key, as load_pem_private_key() does on a
\* torn file and mkdir() without the permission, has changed nothing.
StartFails ==
    /\ process = "down"
    /\ UNCHANGED vars

\* A generated key is no key that was ever used.
Fresh(k) == \A t \in tokens : t.key # k

\* Mutant: each start makes a key.
GenerateAlways(k) ==
    /\ process = "down"
    /\ Fresh(k)
    /\ key' = k
    /\ process' = "generated"
    /\ UNCHANGED <<now, keyFile, tokens>>

Generate(k) ==
    /\ process = "down"
    /\ keyFile = Missing
    /\ Fresh(k)
    /\ key' = k
    /\ process' = "generated"
    /\ UNCHANGED <<now, keyFile, tokens>>

\* write_bytes() opens the key file itself, which empties it ...
Open ==
    /\ process = "generated"
    /\ keyFile' = Torn
    /\ process' = "opened"
    /\ UNCHANGED <<now, key, tokens>>

\* ... and writes the key; then the constructor returns and the server serves.
Write ==
    /\ process = "opened"
    /\ keyFile' = key
    /\ process' = "up"
    /\ UNCHANGED <<now, key, tokens>>

\* The process stops: it is killed, or opening or writing the file raises.
Crash ==
    /\ process # "down"
    /\ process' = "down"
    /\ key' = None
    /\ UNCHANGED <<now, keyFile, tokens>>

\* Somebody deletes the file that keeps the server from starting.
Repair ==
    /\ process = "down"
    /\ keyFile = Torn
    /\ keyFile' = Missing
    /\ UNCHANGED <<now, process, key, tokens>>

-----------------------------------------------------------------------------
(* Access tokens.                                                          *)

\* sign_access_token(), whose caller hands the token to the client.
Sign(audience) ==
    /\ tokens' = tokens \cup {[key |-> key, audience |-> audience, expires |-> now + TTL]}
    /\ UNCHANGED <<now, process, keyFile, key>>

\* Mutant: requests are served before the key is written.
IssueForCodeEarly(resource) ==
    /\ process # "down"
    /\ Sign(resource)

\* exchange_authorization_code(): for the resource that the client asked for.
IssueForCode(resource) ==
    /\ process = "up"
    /\ Sign(resource)

\* exchange_refresh_token(): for this server, whatever the first token was for.
\* A refresh token came with the first access token.
IssueForRefresh ==
    /\ process = "up"
    /\ tokens # {}
    /\ Sign(Own)

\* verify_access_token(), as OAuthProtectedMCPApp calls it on every request.
Verified(t) == t.key = key /\ t.audience = Own /\ now < t.expires

Tick ==
    /\ now < Horizon
    /\ now' = now + 1
    /\ UNCHANGED <<process, keyFile, key, tokens>>

Start == Load \/ (\E k \in Keys : Generate(k)) \/ Open \/ Write

Next ==
    \/ Start
    \/ StartFails
    \/ Crash
    \/ Repair
    \/ \E resource \in Resources : IssueForCode(resource)
    \/ IssueForRefresh
    \/ Tick

\* The container is started again until it runs ("restart: unless-stopped"), and a
\* start that could work does at last.
Fairness == WF_vars(Start)

Spec == Init /\ [][Next]_vars /\ Fairness

-----------------------------------------------------------------------------
(* Correctness.                                                            *)

\* Whenever the server is up it accepts every token for it that it has issued and
\* that has not expired, however often it has been restarted since: the key is a
\* "persisted RSA key" (README.md).
TokensSurviveRestarts ==
    process = "up" =>
        \A t \in tokens : t.audience = Own /\ now < t.expires => Verified(t)

\* A crash can leave a key file behind that the server cannot start with, but
\* only before any token was signed: deleting it locks nobody out.
TornOnlyBeforeFirstToken == keyFile = Torn => tokens = {}

\* From the first token on the file holds a key, and always the same one: no later
\* start rewrites it, and there is no step at which a crash could lose it.
KeyFixedByFirstToken == [][tokens # {} => keyFile \in Keys /\ keyFile' = keyFile]_vars

\* Once a token was issued the server always comes up again by itself.
RestartsRecover == (tokens # {} /\ process = "down") ~> process = "up"

=============================================================================
