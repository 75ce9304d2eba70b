\* Two schedulers and two publishers at once, one request at a time of two users,
\* one of them admin.
CONSTANTS
  n1 = n1  n2 = n2  e1 = e1  e2 = e2  u1 = u1  u2 = u2  k1 = k1
  h1 = h1  h2 = h2  s1 = s1  s2 = s2  p1 = p1  p2 = p2
  None = None
  Ids = {n1, n2}
  EventIds = {e1, e2}
  Users = {u1, u2}
  Admins = {u2}
  Keys = {}
  Handlers = {h1}
  Schedulers = {s1, s2}
  Publishers = {p1, p2}
  SchedulerBatch = 1
  OutboxBatch = 2
  MaxTime = 1
  MaxFaults = 2
SPECIFICATION Spec
SYMMETRY Symmetry
INVARIANTS
  OneEventEach
  PublishedIsStored
  DuplicatesNeedFaults
PROPERTIES
  History
