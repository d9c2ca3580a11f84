SPECIFICATION FairSpec
CONSTANTS
  c1 = c1
  c2 = c2
  Comment = {c1, c2}
  MaxVersion = 3
  MaxActs = 3
INVARIANTS ReviewInStep
PROPERTIES RoundsEnd CommentsGetSaved
CHECK_DEADLOCK FALSE
