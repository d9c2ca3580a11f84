SPECIFICATION MCSpec
CONSTANTS
  p1 = p1
  p2 = p2
  None = none
  Process = {p1, p2}
  Project = {p1, p2}
  Job = {p1, p2}
  Command = {p1, p2}
  Request = {p1, p2}
  Agent = {"A", "B"}
  Slug = {"s", "t"}
  Wording = {1}
  Trees = {{1, 2, 9}, {1, 2, 3}}
  Ignored = {9}
  SafeId = {"a", "b", "overview"}
  Answers <- Drafts
  Commit = {1, 2}
  File = {1, 2}
  MaxVersion = 2
  MaxRound = 3
  Acts <- MCActs
INVARIANTS ResultsAreRight NoWorkIsLost TrustIsKept WorkIsDone
PROPERTIES StepsTakeNothing OnlyWhatWasAsked
CHECK_DEADLOCK FALSE
