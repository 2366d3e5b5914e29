SPECIFICATION Spec
CONSTANTS
  w1 = w1
  w2 = w2
  l1 = l1
  l2 = l2
  Writers = {w1}
  Loops = {l1, l2}
  MaxSockets = 3
  SwallowMax = 1
SYMMETRY Goroutines
INVARIANTS
  OneMigration
  TargetIsOpen
  NoSocketLost
  BudgetKept
PROPERTIES
  KeepsContract
