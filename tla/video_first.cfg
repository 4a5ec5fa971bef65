CONSTANTS
  Size = {small, large}
  NoSize = NoSize
  Torn = Torn
  Failures = {"capture"}
  MaxTicks = 2
  MaxPosted = 1
SPECIFICATION Spec
INVARIANT FirstFrameHasSize
