SPECIFICATION OptSpec
CONSTANTS
  Resumes <- MCResumes
  KindOf <- MCKinds
  Polishes <- MCPolishes
  Accepts = {"accept1"}
  MaxTasks = 1
INVARIANT EditsAreNotOverwritten
CHECK_DEADLOCK FALSE
