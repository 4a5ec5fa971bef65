SPECIFICATION Spec
CONSTANTS
  s1 = s1
  s2 = s2
  Session = {s1, s2}
  Limit = 1
  MaxPackets = 2
SYMMETRY Symmetry
INVARIANTS TypeOK NothingLeftBehind LoginOnce
PROPERTIES NoFalseTimeout SlowIsNoticed
CHECK_DEADLOCK FALSE
