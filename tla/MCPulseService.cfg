SPECIFICATION Spec
CONSTANTS
  qutip = qutip
  iqm = iqm
  small = small
  large = large
  Tasks = {t1}
  Names = {qutip, iqm}
  NoName = NoName
  Objects = {small, large}
  NoObject = NoObject
  NumQubits <- MCNumQubits
  MaxQubits = 20
  Requests <- MCRequests
  Batches <- MCBatches
INVARIANTS
  BatchAccounted
  RanAsAnswered
  ValidatedForExecutor
  HealthReportSound
PROPERTIES
  CallsAnswered
