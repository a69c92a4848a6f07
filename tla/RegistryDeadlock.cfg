\* Two callers are enough: one in get_default, one in register.
SPECIFICATION Spec
CONSTANTS
  Threads = {t1, t2}
  NoThread = NoThread
  Names = {qutip, iqm}
  NoName = NoName
  Objects = {b1}
  NoObject = NoObject
INVARIANT NeverStuck
CHECK_DEADLOCK FALSE
