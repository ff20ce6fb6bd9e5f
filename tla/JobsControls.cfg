SPECIFICATION Spec
CONSTANTS
  q = q
  p = p
  a1 = a1
  a2 = a2
  Jobs = {1, 2}
  Queues = {q}
  Procs = {p}
  Admins = {a1, a2}
  QueueOf <- OneQueue
  Concurrency <- Two
  MaxRetries <- NoRetry
  Timed = {}
  Pollers = {1}
  Overwriters = {}
  Known <- AllKnown
  Controls = {"pause", "resume", "stop", "cleanup_recent", "cleanup_all",
              "queue_pause", "queue_resume"}
  MaxStarts = 2
  MaxCrashes = 0
INVARIANTS TypeOK
PROPERTIES StopKept
