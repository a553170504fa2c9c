SPECIFICATION Spec
CONSTANTS
  Top = 2
  MaxPublishes = 2
  MaxGiveUps = 1
INVARIANTS TypeOK ShownIsTrue LeavesNothing StaysWatching
PROPERTY NeverGoesBack
CHECK_DEADLOCK FALSE
