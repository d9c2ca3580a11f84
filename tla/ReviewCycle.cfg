CONSTANTS
  Client = {a1, a2}
  Waiter = {w1}
  Tab = {t1}
  CommentId = {c1}
  Slots = 1
  MaxActs = 5
SPECIFICATION FairSpec
INVARIANTS WaitersAreServed
PROPERTIES ImplementsReviewVerdict StopEnds FinishEndsWait
CHECK_DEADLOCK FALSE
