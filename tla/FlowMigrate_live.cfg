SPECIFICATION FairSpec
CONSTANTS
  w1 = w1
  w2 = w2
  l1 = l1
  l2 = l2
  Writers = {w1}
  Loops = {l1}
  MaxSockets = 2
  SwallowMax = 1
PROPERTIES
  CloseEndsAll
