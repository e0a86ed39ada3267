SPECIFICATION FairSpec
CONSTANTS
  editor = editor
  NoNode = NoNode
  Nodes = {l1, r1, r2}
  Local = {l1}
  Standing = {l1, r1}
  Roles = {editor}
  Quality = {editor}
  Threshold = 2
  Calls = {c1}
  CallRole <- OneRole
  MaxEdits = 2
  MaxProbes = 2
  MaxSeeds = 1
INVARIANT TypeOK
INVARIANT BreakerIsExact
INVARIANT FailoverIsExhaustive
PROPERTY NoNodeTwice
PROPERTY CallsEnd
CHECK_DEADLOCK FALSE
