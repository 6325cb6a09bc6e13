SPECIFICATION Spec
CONSTANTS
  Handlers = {h1, h2, h3}
  Workers = {w1}
  JobIdSpan = 2
  SessionIdSpan = 3
  Requests = {"SessionCreate", "SessionClose", "JobSubmit", "DaemonShutdown"}
  maximum_jobs_ = 1
  maximum_sessions = 2
  AllocationMayFail = TRUE
  NoHandler = NoHandler
SYMMETRY Symmetry
INVARIANTS
  CapacityRespected
  NeverTerminates
PROPERTIES
  FreshIdentity
