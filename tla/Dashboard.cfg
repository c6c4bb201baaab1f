\* Two threads and two companies; a request of each kind that a worker changes.
SPECIFICATION MCSpec
CONSTANTS
  Threads = {t1, t2}
  Companies = {c1, c2}
  States = {interest, hold}
  Free = Free  NoState = NoState  NoEvent = NoEvent
  MaxEvents = 3  MaxTime = 2
  c1 = c1  interest = interest
  g1 = g1  s1 = s1  h1 = h1
  Requests = {g1, s1, h1}
  KindOf <- KindOfRequest
INVARIANTS
  OrderedIsReadable BackupRestores
PROPERTIES
   EveryRequestAnswered
CHECK_DEADLOCK FALSE
