CONSTANTS
  Size = {small, large}
  NoSize = NoSize
  Torn = Torn
  Failures = {"capture", "share", "codec"}
  MaxTicks = 3
  MaxPosted = 1
SPECIFICATION Spec
SYMMETRY Symmetry
INVARIANTS TypeOK SizeIsLostByCapture SizeFollowed PictureFollowed CacheIsCurrent
PROPERTY NeverBackwards
