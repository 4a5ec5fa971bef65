SPECIFICATION Spec
CONSTANTS
  s1 = s1
  s2 = s2
  t1 = t1
  t2 = t2
  Session = {s1, s2}
  IoThread = {t1, t2}
  kMaxClientCount = 1
  Encoders <- MCEncoders
  Streaming = {}
  MaxRestarts = 0
SYMMETRY Symmetry
INVARIANTS
  TypeOK
  ClientLimit
  OpenIsRead
  NoOrphan
CHECK_DEADLOCK FALSE
