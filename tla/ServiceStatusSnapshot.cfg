SPECIFICATION Spec
CONSTANTS
  Handlers = {h1, h2}
  Workers = {w1}
  JobIdSpan = 2
  SessionIdSpan = 2
  Requests = {"SessionCreate", "JobSubmit", "JobCancel", "JobStatus"}
  maximum_jobs_ = 1
  maximum_sessions = 1
  AllocationMayFail = TRUE
  NoHandler = NoHandler
SYMMETRY Symmetry
INVARIANTS
  CancelledStatusCarriesItsFailure
