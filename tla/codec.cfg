SPECIFICATION Spec
CONSTANTS
  s1 = s1
  t1 = t1
  t2 = t2
  Session = {s1}
  IoThread = {t1, t2}
  kMaxClientCount = 1
  Encoders <- MCEncoders
  Streaming = {"video"}
  MaxRestarts = 1
INVARIANT
  CodecIsThere
CHECK_DEADLOCK FALSE
