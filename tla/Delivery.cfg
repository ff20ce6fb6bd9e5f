SPECIFICATION DeliverySpec
CONSTANTS
  a = a
  b = b
  p1 = p1
  p2 = p2
  q = q
  t1 = t1
  t2 = t2
  web = web
  Jobs = {1, 2, 3}
  Queues = {q}
  Procs = {p1, p2}
  Admins = {a, b}
  Web = web
  Tabs = {t1, t2}
  QueueOf <- OneQueue
  Rank <- One
  Concurrency <- One
  MaxRetries <- Retries
  Timed = {1}
  Pollers = {2}
  Overwriters = {}
  Known <- AllKnown
  Kind <- Kinds
  Controls = {"pause", "resume", "stop", "queue_pause", "queue_resume", "cleanup_recent", "cleanup_all"}
  MaxStarts = 2
  MaxCrashes = 1
  Scenes <- DeliveryScenes
INVARIANTS
  DeliveryTypeOK
  NoneForgotten
  CapacityBounded
  NoFalseSuccess
  MarkedOnce
CHECK_DEADLOCK FALSE
