SPECIFICATION FairSpec
CONSTANT
  Size = {1, 2}
INVARIANTS TypeOK SlotsLieAsChecked SwitchIsTold
PROPERTIES SwitchFollows ResizeFollowed
