SPECIFICATION Spec
CONSTANTS
  Workers = {w1}
  Clients = {c1}
  Orders = {o1}
  NoOrder = NoOrder
  SpuriousWakeups = TRUE
INVARIANTS
  WaitCorrect
