\* Two consumers at once, two targets, a crash: an event is fanned out once, and the
\* service implements DeliveryLifecycle.
CONSTANTS
  e1 = e1  e2 = e2  t1 = t1  t2 = t2  a1 = a1  a2 = a2  a3 = a3  a4 = a4
  c1 = c1  c2 = c2  w1 = w1  w2 = w2
  None = None
  EventIds = {e1}
  Targets = {t1, t2}
  AttemptIds = {a1, a2, a3, a4}
  Consumers = {c1, c2}
  Workers = {w1}
  MaxAttempts = 2
  Day = 2
  Quiet <- NoQuiet
  BaseDelay = 1
  MaxDelay = 1
  Jitter = 0
  MaxCrashes = 1
  MaxLosses = 0
SPECIFICATION Spec
SYMMETRY Symmetry
INVARIANTS
  FannedOutOnce
  AckedIsProcessed
PROPERTIES
  ImplementsLifecycle
