CONSTANTS
  CommentId = {c1}
  ReplyId = {r1, r2}
  ReviewLevel = {}
  Preloaded = {c1}
  Mtime = {m1, m2, m3, m4}
  Enabled = {"resolve", "reply", "deleteReply", "agentReply", "finish"}
  MaxOps = 4
SPECIFICATION Spec
SYMMETRY ReplySymmetry
INVARIANTS AgentReplyKept
PROPERTIES ResolvedMarksOutliveSaves
CHECK_DEADLOCK FALSE
