SPECIFICATION MCSpec
CONSTANTS
  Workers = {w1, w2}
  Clients = {c1, c2}
  Orders = {o1, o2, o3}
  NoOrder = NoOrder
  SpuriousWakeups = TRUE
  Subscribers = {o1, o2, o3}
  MaxId = 4
  MaxDepth = 3
  DropsTwice = FALSE
  CarelessNesting = FALSE
SYMMETRY Symmetry
INVARIANTS
  OrdersConserved
  NoLostWakeup
  NoStrandedWaiter
  TimedWaitCorrect
  
PROPERTIES
  ImplementsService
  ImplementsMulticast
