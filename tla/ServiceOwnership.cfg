SPECIFICATION Spec
CONSTANTS
  Handlers = {h1, h2}
  Workers = {w1, w2}
  JobIdSpan = 3
  SessionIdSpan = 2
  Requests = {"SessionCreate", "SessionClose", "JobSubmit", "JobCancel", "JobResult", "JobRelease"}
  maximum_jobs_ = 2
  maximum_sessions = 1
  AllocationMayFail = TRUE
  NoHandler = NoHandler
SYMMETRY Symmetry
INVARIANTS
  TypeOK
  NoWorkOutlivesItsSession
  NoRecordOutlivesItsSession
  OneOwner
  StopReachesEveryExecution
  WorkersLeaveSettledRecords
PROPERTIES
  CancellationDecides
  PublishedIsFinal
