SPECIFICATION Spec
CONSTANTS
  Ns = 2
  Period = 3
  MinSamples = 1
  MaxSamples = 2
  Jitter = 1
  Qubits = {0, 1}
  Ids = {"x", "y", "z"}
  Starts = {0, 4, 5}
  Durations = {1, 4}
  QubitLists <- MCQubitLists
  Asked <- MCAsked
  Budgets <- MCBudgets
  Requests <- MCRequests
  MaxPulses = 3
  MaxConstraints = 1
  MaxDuration = 10
  MaxSteps = 3
INVARIANTS
  ConstraintsKept
  BudgetKept
  RulesAgree
CHECK_DEADLOCK FALSE
