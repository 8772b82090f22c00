SPECIFICATION Spec
CONSTANTS
  lifespan = lifespan
  request = request
  th1 = th1
  th2 = th2
  l1 = l1
  l2 = l2
  NoOne = NoOne
  Tasks = {lifespan, request}
  Lifespan = {lifespan}
  Threads = {th1, th2}
  Leases = {l1, l2}
  Writers = {th1, l1}
  MaxNest = 2
INVARIANTS Exclusion ShutdownQuiescent
PROPERTIES WriterPriority ImplementsBarrier
