SPECIFICATION Spec
CONSTANTS
  Workers = {w1}
  Main = main
  Timer = timer
  NoOne = noone
  MaxChanges = 2
INVARIANTS
  NeverBlocks
  NoLostRedraw
PROPERTY
  EventuallyShown
