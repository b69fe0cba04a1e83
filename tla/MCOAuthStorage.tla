--------------------------- MODULE MCOAuthStorage ---------------------------
EXTENDS OAuthStorage

=============================================================================
