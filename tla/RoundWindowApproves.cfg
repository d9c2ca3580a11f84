CONSTANTS
  Client = {a1, a2}
  Waiter = {}
  Tab = {t1}
  CommentId = {c1}
  Slots = 4
  MaxActs = 6
SPECIFICATION Spec
INVARIANT ApprovalMeansResolved
CHECK_DEADLOCK FALSE
