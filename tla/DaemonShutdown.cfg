SPECIFICATION FairSpec
CONSTANTS
  Connections = {c1, c2}
  maximum_active_connections = 2
  Waiter = Waiter
  Main = Main
  Listener = Listener
  None = None
  Signals = {}
INVARIANTS
  NobodyWaitsAfterStop
  NothingOutlivesTheServer
PROPERTIES
  AcceptedShutdownStops
  StopComesDown
