\* Liveness: two workers, quiet hours and three tries, a crash, no lost job.
CONSTANTS
  e1 = e1  e2 = e2  t1 = t1  t2 = t2  a1 = a1  a2 = a2  a3 = a3  a4 = a4
  c1 = c1  c2 = c2  w1 = w1  w2 = w2
  None = None
  EventIds = {e1}
  Targets = {t1}
  AttemptIds = {a1, a2}
  Consumers = {c1}
  Workers = {w1, w2}
  MaxAttempts = 3
  Day = 3
  Quiet <- MixedQuiet
  BaseDelay = 1
  MaxDelay = 2
  Jitter = 1
  MaxCrashes = 1
  MaxLosses = 0
SPECIFICATION PromptSpec
PROPERTIES
  EventsAreProcessed
  RetriesEnd
