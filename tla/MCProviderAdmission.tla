------------------------ MODULE MCProviderAdmission ------------------------
(* Model values and symmetry for the TLC runs of ProviderAdmission.          *)
EXTENDS ProviderAdmission, TLC

\* Executions are interchangeable; only the safety runs use it.
ExecutionSymmetry == Permutations(Executions)
=============================================================================
