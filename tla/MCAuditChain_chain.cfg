SPECIFICATION Spec
CONSTANTS
  Event = {e1, e2, e3, n1}
  Anonymous = {n1}
  MaxRewinds = 2
SYMMETRY Identical
INVARIANTS
  AnchorIsAtMostOneBehind
  AckedIsAnchored
  NoEventTwice
  OpenOnlyOnItsChain
PROPERTIES
  LossStopsWriting
CHECK_DEADLOCK FALSE
