CONSTANTS
  m1 = m1
  m2 = m2
  t1 = t1
  t2 = t2
  e1 = e1
  e2 = e2
  e3 = e3
  any_change = any_change
  s1 = s1
  s2 = s2
  rise = rise
  Methods = {m1, m2}
  Threads = {t1, t2}
  Events = {e1, e2, e3}
  Signals = {}
  Values = {TRUE, FALSE}
  InitialValue <- MCInitialValue
  Static <- MCStatic
  Announced <- MCAnnounced
  ManyWriters = {}
  Initialized = {m1, t1}
  Nobody = Nobody
  NoEvent = NoEvent
  MAX_DELAY = 2
SPECIFICATION Spec
INVARIANT NotificationsAgree
PROPERTY ImplementsScheduler
PROPERTY QueuedRuns
