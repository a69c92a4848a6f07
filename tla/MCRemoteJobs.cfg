SPECIFICATION CloudSpec
CONSTANTS
  MaxRetries = 2
  MaxPolls = 2
  Pulses <- MCPulses
  DeviceQubits <- MCDeviceQubits
INVARIANTS
  SettledOnce
  AnswersForItsJob
  LeftBehindKnowingly
  StatusTellsWhetherRan
  
  
PROPERTIES
  CallsEnd
CHECK_DEADLOCK FALSE
