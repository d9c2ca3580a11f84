CONSTANTS
  CommentId = {c1, c2}
  ReplyId = {}
  ReviewLevel = {c1}
  Preloaded = {}
  Mtime = {m1, m2, m3, m4}
  Enabled = {"add", "delete", "agentAdd", "signal", "finish", "fail", "clear", "remove", "cleanup", "restart"}
  MaxOps = 4
SPECIFICATION Spec
INVARIANTS UnsavedIsPending PendingIsScheduled
PROPERTIES ImplementsSharedReview
CHECK_DEADLOCK FALSE
