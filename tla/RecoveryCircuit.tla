-------------------------- MODULE RecoveryCircuit --------------------------
(***************************************************************************)
(* What ProviderAdmissionController promises its callers, with no queue,   *)
(* limiter, timer or task in sight: a circuit breaker over one provider.   *)
(*                                                                         *)
(* While the circuit is closed any execution may call upstream.  A failing *)
(* call opens the circuit; from then on a call may begin only as the one   *)
(* half-open probe, and only that probe's own outcome closes the circuit   *)
(* or sends it into its cooldown.  The next probe is granted only once     *)
(* the previous one has been settled or withdrawn.                         *)
(***************************************************************************)
CONSTANTS Executions, Nobody

VARIABLES
    circuit,   \* "closed", "recovering", "cooling" or "cooled"
    prober,    \* the execution that owns the half-open probe, or Nobody
    calls      \* the executions whose upstream call holds a concurrency slot

vars == <<circuit, prober, calls>>

Init == /\ circuit = "closed"
        /\ prober = Nobody
        /\ calls = {}

\* A call that is running fails and opens the circuit (or exhausts its
\* execution at once, which starts the cooldown).
Trip(e) == /\ circuit = "closed"
           /\ e \in calls
           /\ circuit' \in {"recovering", "cooling"}
           /\ prober' = Nobody
           /\ UNCHANGED calls

\* The right to probe is free and goes to e.
Grant(e) == /\ circuit \in {"recovering", "cooled"}
            /\ prober = Nobody
            /\ circuit' = "recovering"
            /\ prober' = e
            /\ UNCHANGED calls

Begin(e) == /\ e \notin calls
            /\ \/ circuit = "closed"
               \/ circuit = "recovering" /\ prober = e
            /\ calls' = calls \cup {e}
            /\ UNCHANGED <<circuit, prober>>

\* The probe's upstream call is answered: it heals the circuit, leaves it
\* recovering for the next probe, or exhausts the recovery.
Settle(e) == /\ circuit = "recovering"
             /\ prober = e
             /\ e \in calls
             /\ circuit' \in {"closed", "recovering", "cooling"}
             /\ prober' = Nobody
             /\ UNCHANGED calls

\* The probe is given up without an answer, before or after its call began.
Withdraw(e) == /\ circuit = "recovering"
               /\ prober = e
               /\ prober' = Nobody
               /\ UNCHANGED <<circuit, calls>>

Finish(e) == /\ e \in calls
             /\ calls' = calls \ {e}
             /\ UNCHANGED <<circuit, prober>>

Cool == /\ circuit = "cooling"
        /\ circuit' = "cooled"
        /\ UNCHANGED <<prober, calls>>

Next == \/ \E e \in Executions : \/ Trip(e) \/ Grant(e) \/ Begin(e)
                                 \/ Settle(e) \/ Withdraw(e) \/ Finish(e)
        \/ Cool

Spec == Init /\ [][Next]_vars
=============================================================================
