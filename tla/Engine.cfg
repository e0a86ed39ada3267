SPECIFICATION EngineSpec
CONSTANTS
  \* the tailoring pipeline
  have = have  skill = skill  lack = lack  fake = fake
  Terms = {have, skill, lack, fake}
  Sections = {"work", "skills", "none"}
  Docs <- MCDocs
  Plans <- MCPlans
  Gaps <- MCGaps
  Answers <- MCAnswers
  Proposals <- MCProposals
  Skills = {"skills"}
  Preferred <- MCPreferred
  Rewriters = {"rewrite1"}
  MaxInFlight = 2
  RunTenant = RunTenant
  NoTenant = NoTenant
  NoVerdict = NoVerdict
  Gone = Gone
  \* the calls
  cacheKey = cacheKey
  Stages = {"stage1", "stage2"}
  KeyOf <- MCKeyOf
  Methods = {"chat_json", "provider", "json_mode", "stream"}
  MaxRetries = 1
  MaxTokens = 2
  TokenCap = 3
  Uncached = Uncached
  \* ranking
  jt1 = jt1  jt2 = jt2  ct1 = ct1  tag1 = tag1
  Postings = {1, 2}
  CVs = {1, 2}
  Inline = 2
  JobTexts = {jt1, jt2}
  CVTexts = {ct1}
  Blank = Blank
  Absent = Absent
  EmbedModels = {"embedder1"}
  Score <- MCScore
  MatchScore <- MCMatch
  SkillsOf <- MCSkills
  Limit = 1
  Threshold = 5
  ChunkSize = 1
  Askers = {"asker1"}
  Rebuilders = {"rebuilder1"}
  MaxEdits = 1
  Free = Free
  \* the optimization of a resume
  Resumes <- MCResumes
  KindOf <- MCKinds
  Polishes <- MCPolishes
  Accepts = {"accept1"}
  MaxTasks = 1
  \* the daily usage ledger
  Queued = {"run1", "run2"}
  Direct = {"direct1"}
  Cap = 1
  StreakLimit = 1
  MaxCalls = 2
  MaxDays = 1
  MaxRestarts = 1
INVARIANTS
  EngineTypeOK
  AdviceIsGrounded
  RefusedKeepsItsWords
  CallsAreMetered
  DeadlineEndsTheCall
  CallsAreAccounted
  
  BookingsHoldTheCap
PROPERTIES
  RankingsServeTheLibrary
CHECK_DEADLOCK FALSE
