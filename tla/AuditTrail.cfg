\* Overlapping transactions write to the trail while a client walks down it.
SPECIFICATION Spec
CONSTANTS
  Writers = {w1, w2}
  Rows = {account, order}
  Limits = {0, 2, 9}
  MaxPage = 3
  MaxEvents = 5
INVARIANTS TypeOK WalkMissesNothing
PROPERTIES TrailInCommitOrder
