SPECIFICATION HalSpec
CONSTANTS
  Requests = {r1, r2}
  Features = {"python", "iqm", "ibm"}
  Invocations <- MCInvocations
INVARIANTS
  CutOffOnlyByPeer
  StopsOnlyForCause
  
  
  ExitStatusHonest
PROPERTIES
  ShutdownCompletes
  RequestsEnd
CHECK_DEADLOCK FALSE
