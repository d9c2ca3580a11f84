CONSTANTS
  CommentId = {c1, c2}
  ReplyId = {}
  ReviewLevel = {}
  Preloaded = {}
  Mtime = {m1, m2, m3, m4}
  Enabled = {"add", "agentAdd"}
  MaxOps = 2
SPECIFICATION Spec
PROPERTIES ReloadKeepsUnsaved
CHECK_DEADLOCK FALSE
