SPECIFICATION FairSpec
CONSTANTS
  q = q
  p = p
  a = a
  Jobs = {1, 2, 3}
  Queues = {q}
  Procs = {p}
  Admins = {a}
  QueueOf <- OneQueue
  Concurrency <- One
  MaxRetries <- NoRetry
  Timed = {1, 2, 3}
  Pollers = {1}
  Overwriters = {2}
  Known <- SomeKnown
  Controls = {"stop"}
  MaxStarts = 2
  MaxCrashes = 0
INVARIANTS NoLostJob
PROPERTIES LateHandlerExits EveryJobEnds
