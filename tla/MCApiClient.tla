---------------------------- MODULE MCApiClient ----------------------------
(* ApiClient with the constants of the runs api_client and resend_retry.   *)
EXTENDS ApiClient

=============================================================================
