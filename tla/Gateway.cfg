\* Two requests at a time, two in all, each repeated as long as it fails. The
\* clients stop after the last request.
CONSTANTS
  t1 = t1  t2 = t2  t3 = t3
  None = None
  Users = {1}
  Topics = {t1, t2, t3}
  MaxSubs = 3
  Fields = {"channels"}
  Values = {"default"}
  Defaults <- MCDefaults
  Handlers = {h1, h2}
  Asks <- MCAsks
  Earlier <- MCEarlier
  Gateways = {g1, g2}
  MaxRequests = 2
  MaxFaults = 2
  PageSize = 1
  MaxPages = 2
  Retries = 1
SPECIFICATION GatewaySpec
INVARIANTS
  NoticesTrue
  NoticedOnce
  NoticedUnlessFaulty
  AnsweredIsOver
SYMMETRY Symmetry
CHECK_DEADLOCK FALSE
