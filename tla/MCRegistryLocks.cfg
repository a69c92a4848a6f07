\* The code really can stop, all threads waiting: see RegistryDeadlock.cfg.
SPECIFICATION Spec
CONSTANTS
  Threads = {t1, t2, t3}
  NoThread = NoThread
  Names = {qutip, iqm}
  NoName = NoName
  Objects = {b1, b2}
  NoObject = NoObject
INVARIANTS
  DefaultRegistered
  DefaultLookupFinds
  OnlyGetDefaultInverts
PROPERTIES
  ImplementsRegistry
SYMMETRY Symmetry
CHECK_DEADLOCK FALSE
