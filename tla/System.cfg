SPECIFICATION SystemFairSpec
CONSTANTS
  Connections = {c1}
  maximum_active_connections = 1
  Waiter = Waiter
  Main = Main
  Listener = Listener
  None = None
  Signals = {}
  Workers = {w1}
  JobIdSpan = 2
  maximum_jobs_ = 1
  AllocationMayFail = FALSE
  Requests = {"SessionCreate", "JobSubmit", "SessionClose", "DaemonShutdown"}
  SessionIdSpan = 2
  maximum_sessions = 1
PROPERTIES
  ServiceIsUsedAsSpecified
  ShutdownEndsTheProcess
