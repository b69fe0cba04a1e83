---------------------------- MODULE MCOAuthGrants ----------------------------
(* OAuthGrants with the constants of the run oauth_grants.                 *)
EXTENDS OAuthGrants, TLC

Symmetry ==
    Permutations(Clients) \cup Permutations(FlowIds) \cup Permutations(CodeIds) \cup Permutations(TokenIds)

=============================================================================
