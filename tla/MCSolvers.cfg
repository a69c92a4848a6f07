SPECIFICATION Spec
CONSTANTS
  Modulus = 1019
  PadeCoeffs <- MCPade
  Levels <- MCLevels
  Propagator <- MCPropagator
  InitialI <- MCInitialI
  InitialQ <- MCInitialQ
  GrapeCalls <- MCGrapeCalls
  OpenFidelity <- MCOpenFidelity
  OpenCalls <- MCOpenCalls
  LindbladCalls <- MCLindbladCalls
  FeedbackCalls <- MCFeedbackCalls
  MeasuredSteps <- MCMeasuredSteps
  SmeCalls <- MCSmeCalls
  Nominal = 6
  DtMin = 2
  Seeds = 4
  Hamiltonians <- MCHamiltonians
  Squarings = {0, 1, 2}
INVARIANTS
  PropagatorUnitary
  OptimaAreBest
  
  StatesKept
  FeedbackDescends
  EnsembleComplete
PROPERTIES
  SmeAnswered
CHECK_DEADLOCK FALSE
