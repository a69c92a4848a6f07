--------------------------- MODULE MCRegistryLocks ---------------------------
(* RegistryLocks with three callers.  Callers are interchangeable, so are     *)
(* names and so are backend objects.                                          *)
EXTENDS RegistryLocks, TLC

Symmetry == Permutations(Threads) \cup Permutations(Names) \cup Permutations(Objects)
=============================================================================
