---------------------------- MODULE MCSigningKey ----------------------------
EXTENDS SigningKey

=============================================================================
