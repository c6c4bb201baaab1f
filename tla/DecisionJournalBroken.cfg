\* Two request threads: is the journal always readable?
SPECIFICATION Spec
CONSTANTS
  Threads = {t1, t2}
  Companies = {c1, c2}
  States = {interest, hold}
  Free = Free  NoState = NoState  NoEvent = NoEvent
  MaxEvents = 3  MaxTime = 2
INVARIANT
  JournalReadable
CHECK_DEADLOCK FALSE
