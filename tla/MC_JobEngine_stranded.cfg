CONSTANTS
  u1 = u1
  u2 = u2
  Unit <- MC_Unit
  Requires <- MC_Requires
  OnFailureUnits <- MC_OnFailureUnits
  OnSuccessUnits <- MC_OnSuccessUnits
  OnFailureJobMode <- MC_OnFailureJobMode
  AllowIsolate <- MC_AllowIsolate
SPECIFICATION Spec
INVARIANT NoStrandedJobs
CHECK_DEADLOCK FALSE
