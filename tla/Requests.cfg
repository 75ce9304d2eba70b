\* Two handlers at once: creations that share a key, cancellations, one tick; the
\* service implements NotificationLifecycle.
CONSTANTS
  n1 = n1  n2 = n2  e1 = e1  e2 = e2  u1 = u1  u2 = u2  k1 = k1
  h1 = h1  h2 = h2  s1 = s1  s2 = s2  p1 = p1  p2 = p2
  None = None
  Ids = {n1, n2}
  EventIds = {e1, e2}
  Users = {u1}
  Admins = {}
  Keys = {k1}
  Handlers = {h1, h2}
  Schedulers = {s1}
  Publishers = {p1}
  SchedulerBatch = 2
  OutboxBatch = 2
  MaxTime = 1
  MaxFaults = 1
SPECIFICATION Spec
SYMMETRY Symmetry
INVARIANTS
  TypeOK
  OneRowPerKey
  IdempotentAnswers
  DuplicateHasRow
  NothingPremature
PROPERTIES
  ImplementsLifecycle
