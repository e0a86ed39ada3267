SPECIFICATION StoresSpec
CONSTANTS
  \* workbench sessions
  init1 = init1  init2 = init2  open1 = open1  open2 = open2
  analysis1 = analysis1  pre1 = pre1  stream1 = stream1  poll1 = poll1
  Inits = {init1, init2}
  Opens = {open1, open2}
  Analyses = {analysis1}
  Preanalyses = {pre1}
  Streams = {stream1}
  Polls = {poll1}
  SessionMixes <- MCSessionMixes
  QueueSize = 2
  HasResume = TRUE
  NoPage = NoPage
  \* import and preanalysis batches
  import1 = import1  import2 = import2  sweep1 = sweep1  sweep2 = sweep2
  InputRows = {1, 2, 3, 4}
  Blanks = {4}
  Posting <- MCPosting
  Key <- MCKey
  Feed <- MCFeed
  Imports = {import1, import2}
  Sweeps = {sweep1, sweep2}
  BatchMixes <- MCBatchMixes
  Delays = 1
  MaxKept = 1
  NoRow = NoRow
  \* delivery
  j1 = j1  j2 = j2  d1 = d1  d2 = d2  key1 = key1
  Postings = {j1, j2}
  Drafts = {d1, d2}
  BulkKeys = {key1}
  DeliveryMixes <- MCDeliveryMixes
  NoDraft = NoDraft
  NoSent = NoSent
  NoAnswer = NoAnswer
  \* master resumes
  a = a  b = b  aPadded = aPadded  dm1 = dm1  dm2 = dm2
  Contents = {a, b, aPadded}
  Trim <- MCTrim
  DiagModels = {dm1, dm2}
  FirstContent = a
  FirstModel = dm1
  ResumeMixes <- MCResumeMixes
  NoRun = NoRun
  NoneYet = NoneYet
  \* settings
  p1 = p1  p2 = p2  sm1 = sm1
  Providers = {p1, p2}
  Models = {sm1}
  EnvProvider = p1
  EnvModel = sm1
  PlatformMax = 2
  TableRows = {"r1"}
  MaxImportRows = 1
  MaxFaults = 1
  SettingsMixes <- MCSettingsMixes
  AutoSync = AutoSync
  Unset = Unset
INVARIANTS
  StoresTypeOK
  StreamsMissNothing
  BatchesAccount
  
  DraftsAgree
  ServedDiagnosisFits
  StoredSettingsAreValid
PROPERTIES
  ProductsSurvive
  PipelinesReport
  BatchesEnd
  VersionsStay
  
CHECK_DEADLOCK FALSE
