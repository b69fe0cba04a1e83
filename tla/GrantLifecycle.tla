---------------------------- MODULE GrantLifecycle ----------------------------
(***************************************************************************)
(* What the embedded OAuth server promises about a grant, the permission   *)
(* one consent gives to one client.  At every moment at most one           *)
(* credential stands for it, first an authorization code, then one refresh *)
(* token after another; what the credential is worth never grows; and a    *)
(* grant without a credential has ended for good.  OAuthGrants implements  *)
(* this.                                                                   *)
(***************************************************************************)

CONSTANTS
    Grants,   \* the grants there may ever be
    Scopes    \* what a grant may permit

VARIABLES
    phase,     \* which credential stands for each grant
    authority  \* the scopes that credential is worth

vars == <<phase, authority>>

\* "spent": a credential has been taken back and its successor not yet stored.
Phases == {"none", "code", "spent", "refresh", "ended"}

Init ==
    /\ phase = [g \in Grants |-> "none"]
    /\ authority = [g \in Grants |-> {}]

\* The resource owner consents.
Consented(g) ==
    /\ phase[g] = "none"
    /\ phase'[g] = "code"

\* A code or a refresh token is presented; some of its scopes may be given up.
Redeemed(g) ==
    /\ phase[g] \in {"code", "refresh"}
    /\ phase'[g] = "spent"
    /\ authority'[g] \subseteq authority[g]

\* A refresh token takes its place.
Renewed(g) ==
    /\ phase[g] = "spent"
    /\ phase'[g] = "refresh"
    /\ authority'[g] = authority[g]

\* The credential expires, or a crash loses it.
Ended(g) ==
    /\ phase[g] \notin {"none", "ended"}
    /\ phase'[g] = "ended"
    /\ authority'[g] = {}

Kept(g) ==
    /\ phase'[g] = phase[g]
    /\ authority'[g] = authority[g]

\* Grants do not depend on one another; a cleanup may end several at once.
Next ==
    /\ phase' \in [Grants -> Phases]
    /\ authority' \in [Grants -> SUBSET Scopes]
    /\ \A g \in Grants : Consented(g) \/ Redeemed(g) \/ Renewed(g) \/ Ended(g) \/ Kept(g)

Spec == Init /\ [][Next]_vars

-----------------------------------------------------------------------------

\* Consent is given once: what a grant is worth only shrinks, scopes that were
\* given up do not come back with a later refresh token, and a grant that has
\* ended is not revived by a replay or a restart.
ConsentOnlyShrinks ==
    [][\A g \in Grants : phase[g] # "none" =>
          /\ phase'[g] # "none" /\ authority'[g] \subseteq authority[g]
          /\ phase[g] = "ended" => phase'[g] = "ended"]_vars

=============================================================================
