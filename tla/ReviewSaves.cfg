CONSTANTS
  CommentId = {c1, c2}
  ReplyId = {}
  ReviewLevel = {}
  Preloaded = {}
  Mtime = {m1, m2, m3, m4}
  Enabled = {"add", "delete", "finish", "agentAdd"}
  MaxOps = 4
SPECIFICATION FairSpec
INVARIANTS TypeOK SettledMeansEqual DeletedStaysDeleted
PROPERTIES TombstonesOutliveSaves CommentsGetSaved CommentsGetShown
CHECK_DEADLOCK FALSE
