---------------------------- MODULE MC_JobEngine ----------------------------
(* Two units: u1 requires u2; u1's OnFailure= names u2, u2's OnSuccess=   *)
(* names u1; only u1 may be isolated.                                      *)
EXTENDS JobEngine, TLC

CONSTANTS u1, u2

MC_Unit == {u1, u2}
MC_Requires == (u1 :> {u2}) @@ (u2 :> {})
MC_OnFailureUnits == (u1 :> {u2}) @@ (u2 :> {})
\* u2's OnFailure= names u1, which requires u2.
MC_OnFailureCycle == (u1 :> {}) @@ (u2 :> {u1})
MC_OnSuccessUnits == (u1 :> {}) @@ (u2 :> {u1})
MC_OnFailureJobMode == (u1 :> "fail") @@ (u2 :> "fail")
MC_AllowIsolate == (u1 :> TRUE) @@ (u2 :> FALSE)
=============================================================================
