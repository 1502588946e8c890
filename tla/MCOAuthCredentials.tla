------------------------- MODULE MCOAuthCredentials -------------------------
(* One process that signs in and disconnects, and nothing fails.             *)
EXTENDS OAuthCredentials

MCBudgets == {[expiries |-> 0, logins |-> 1, disconnects |-> 1, faults |-> 0,
               cancels |-> 0, crashes |-> 0]}
=============================================================================
