---------------------------- MODULE MCDeleteGuard ----------------------------
EXTENDS DeleteGuard

=============================================================================
