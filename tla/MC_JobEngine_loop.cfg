CONSTANTS
  u1 = u1
  u2 = u2
  Unit <- MC_Unit
  Requires <- MC_Requires
  OnFailureUnits <- MC_OnFailureCycle
  OnSuccessUnits <- MC_OnSuccessUnits
  OnFailureJobMode <- MC_OnFailureJobMode
  AllowIsolate <- MC_AllowIsolate
SPECIFICATION Spec
PROPERTY RunLoopTerminates
CHECK_DEADLOCK FALSE
