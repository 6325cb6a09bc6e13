SPECIFICATION Spec
SYMMETRY Symmetry
CONSTANTS
  Connections = {c1, c2, c3}
  maximum_active_connections = 1
  Waiter = Waiter
  Main = Main
  Listener = Listener
  None = None
  Signals = {"SIGTERM", "SIGUSR1"}
INVARIANTS
  TypeOK
  InventoryIsLive
  HandlersBounded
  FailureIsGenuine
  EarlySignalsAreAbsorbed
