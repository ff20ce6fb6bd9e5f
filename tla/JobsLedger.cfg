SPECIFICATION Spec
CONSTRAINT InOrder
CONSTANTS
  q1 = q1
  q2 = q2
  p = p
  Jobs = {1, 2, 3}
  Queues = {q1, q2}
  Procs = {p}
  Admins = {}
  QueueOf <- TwoQueues
  Concurrency <- One
  MaxRetries <- FirstRetry
  Timed = {1, 2}
  Pollers = {1}
  Overwriters = {1, 2}
  Known <- SomeKnown
  Controls = {}
  MaxStarts = 3
  MaxCrashes = 1
PROPERTIES ImplementsLedger
