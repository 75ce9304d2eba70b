\* One browser with two requests at a time, a few sessions, and a crash or a lost
\* answer.
CONSTANTS
  c1 = c1  c2 = c2
  None = None
  Calls = {c1, c2}
  MaxSessions = 4
  MaxFaults = 1
  LoginLimit = 2
SPECIFICATION Spec
SYMMETRY Symmetry
INVARIANTS
  RotationIsWhole
  SessionKept
  CounterExpires
PROPERTIES
  DeadAfterAnswer
