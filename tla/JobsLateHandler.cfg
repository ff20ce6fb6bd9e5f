SPECIFICATION Spec
CONSTANTS
  q = q
  p = p
  Jobs = {1}
  Queues = {q}
  Procs = {p}
  Admins = {}
  QueueOf <- OneQueue
  Concurrency <- One
  MaxRetries <- Retry1
  Timed = {1}
  Pollers = {1}
  Overwriters = {}
  Known <- AllKnown
  Controls = {}
  MaxStarts = 2
  MaxCrashes = 0
PROPERTIES LateHandlerExits
