SPECIFICATION CalibrationSpec
CONSTANTS
  NumQubits = 2
  Readings <- MCReadings
  Nominal <- MCNominal
  Policies <- MCPolicies
  Cooldown = 1
  MaxTime = 2
  MaxCycles = 3
  MaxDrifts = 2

  
PROPERTIES
  NoDriftMissed
CHECK_DEADLOCK FALSE
