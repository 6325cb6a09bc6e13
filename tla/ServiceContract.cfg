SPECIFICATION Spec
CONSTANTS
  Handlers = {h1, h2}
  Workers = {w1, w2}
  JobIdSpan = 3
  SessionIdSpan = 2
  Requests = {"SessionCreate", "SessionClose", "JobSubmit", "JobCancel", "JobStatus", "JobRelease"}
  maximum_jobs_ = 2
  maximum_sessions = 1
  AllocationMayFail = FALSE
  NoHandler = NoHandler
SYMMETRY Symmetry
PROPERTIES
  ImplementsContract
