\* Every caller may have had its operations: that is no deadlock. A caller that waits
\* for ever breaks EveryCallReturns.
CONSTANTS
  Callers = {c1, c2}
  Names = {n1, n2}
  Modules = {m1, m2, m3}
  None = None
  OpBound = 2
SPECIFICATION Spec
INVARIANTS TypeOK ManagerInv RegisteredIsOpen OpenIsRegistered CleanupOnce CloseCleansUp
PROPERTIES StaleCallFails RegistrySpec EveryCallReturns
CHECK_DEADLOCK FALSE
