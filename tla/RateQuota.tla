----------------------------- MODULE RateQuota -----------------------------
(***************************************************************************)
(* What a sliding-window limiter promises, without a clock: a counter of   *)
(* recent acquisitions that an admission raises while it is below the      *)
(* limit, and that falls as time passes.  ProviderAdmission uses the       *)
(* limiter in this form.                                                   *)
(***************************************************************************)
EXTENDS Naturals

CONSTANT Limit

VARIABLE recent

Init == recent = 0

Admit == recent < Limit /\ recent' = recent + 1

Slide == recent > 0 /\ recent' \in 0 .. recent - 1

Spec == Init /\ [][Admit \/ Slide]_recent
=============================================================================
