SPECIFICATION SchedulerSpec
CONSTANTS
  Ns = 8
  Period = 16
  MinSamples = 1
  MaxSamples = 4
  Jitter = 1
  Qubits = {0, 1}
  T2Limit <- NoT2Limit
  Sessions <- OutOfOrder
INVARIANTS
  NoQubitConflict
CHECK_DEADLOCK FALSE
