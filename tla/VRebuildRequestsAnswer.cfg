SPECIFICATION RankSpec
CONSTANTS
  jt1 = jt1  jt2 = jt2  ct1 = ct1  tag1 = tag1
  Postings = {1, 2}
  CVs = {1, 2}
  Inline = 2
  JobTexts = {jt1, jt2}
  CVTexts = {ct1}
  Blank = Blank
  Absent = Absent
  EmbedModels = {"embedder1"}
  Score <- MCScore
  MatchScore <- MCMatch
  SkillsOf <- MCSkills
  Limit = 1
  Threshold = 5
  ChunkSize = 1
  Askers = {}
  Rebuilders = {"rebuilder1", "rebuilder2"}
  MaxEdits = 0
  Free = Free
PROPERTY RebuildRequestsAnswer
CHECK_DEADLOCK FALSE
