\* The publisher and the worker start, in any order.
CONSTANTS
  None = None
  Notifiers = {"publisher"}
  Deliverers = {"worker"}
  Worker = "worker"
SPECIFICATION Spec
INVARIANTS
  OutcomesAccepted
