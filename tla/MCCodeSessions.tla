--------------------------- MODULE MCCodeSessions ---------------------------
(* One message, a stop, and two faults of the process behind the session.    *)
EXTENDS CodeSessions, TLC

CONSTANTS c1, s1

MCOperationOf == c1 :> s1

MCScenarios == {[messages |-> 1, stops |-> 1, settings |-> 0, deletes |-> 0,
                 faults |-> 2, shutdowns |-> 0, restarts |-> 0]}
=============================================================================
