CONSTANTS
  Starter = {s1, s2}
  Stopper = {x1}
  Daemon = {d1, d2, d3}
  None = None
SPECIFICATION Spec
SYMMETRY KeySymmetry
INVARIANTS TypeOK LiveIsRegistered ToldItsOwn CleanupIsAlone
PROPERTIES OnlyNamedStops
