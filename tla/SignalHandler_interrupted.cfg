SPECIFICATION Spec
CONSTANTS
  Threads = {t1}
  Handlers = {h1}
  None = None
  MaxCallbacks = 1
  MaxStack = 2
  SignalsAnywhere = TRUE
  CallbacksUseApi = FALSE
INVARIANTS
  NoSelfDeadlock
