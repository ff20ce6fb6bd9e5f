SPECIFICATION FleetScenes
CONSTANTS
  q1 = q1
  q2 = q2
  p1 = p1
  p2 = p2
  a1 = a1
  a2 = a2
  Jobs = {1, 2, 3, 4, 5}
  Queues = {q1, q2}
  Procs = {p1, p2}
  Admins = {a1, a2}
  QueueOf <- FleetQueues
  Concurrency <- OneAndTwo
  MaxRetries <- FirstRetry
  Timed = {}
  Pollers = {}
  Overwriters = {}
  Known <- FirstKnown
  Controls = {"queue_pause"}
  MaxStarts = 3
  MaxCrashes = 1
INVARIANTS OneAttemptPerProcess FleetBounded PausedQueueDrains
