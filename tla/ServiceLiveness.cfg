SPECIFICATION FairSpec
CONSTANTS
  Handlers = {h1, h2}
  Workers = {w1}
  JobIdSpan = 2
  SessionIdSpan = 3
  Requests = {"SessionCreate", "SessionClose", "JobSubmit"}
  maximum_jobs_ = 1
  maximum_sessions = 2
  AllocationMayFail = TRUE
  NoHandler = NoHandler
PROPERTIES
  BlockedOnlyByOwnWork
  AdmittedWorkFinishes
  StopCompletes
