SPECIFICATION MCSpec
CONSTANTS
  Workers = {w1, w2}
  Clients = {c1}
  Orders = {o1, o2}
  NoOrder = NoOrder
  SpuriousWakeups = TRUE
  Threads = {t1, t2}
  Handlers = {h1, h2}
  None = None
  MaxCallbacks = 1
  MaxStack = 1
  SignalsAnywhere = FALSE
  CallbacksUseApi = FALSE
INVARIANTS
  CallsAreOfHandlers
PROPERTIES
  EveryOrderRuns
  CallersReturn
  SignalReachesAll
  OperationsReturn
