\* Two daemons of one path that crash at any step, a foreign socket, which may also
\* be what an earlier daemon left, and a foreign file.
SPECIFICATION Spec
CONSTANTS
  Daemons = {d1, d2}
  Foreign = {f1, f2}
  Regular = {f2}
  LockOf <- OneLock
  Nothing = Nothing
CHECK_DEADLOCK FALSE
INVARIANTS OneServer ServesItsPath RecoversFromCrash
PROPERTIES OthersKeepTheirNames
SYMMETRY Symmetry
