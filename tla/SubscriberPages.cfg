\* Four users of one topic who come and go, one request at a time, while a
\* fan-out reads pages of one or two subscribers.
CONSTANTS
  h1 = h1  t1 = t1
  None = None
  Users = {1, 2, 3, 4}
  Topics = {t1}
  MaxSubs = 4
  Fields = {"channels"}
  Values = {"default"}
  Defaults <- MCDefaults
  Handlers = {h1}
  Asks <- MCAsks
  Earlier <- MCEarlier
  Limits = {1, 2}
SPECIFICATION PagesSpec
INVARIANTS
  SubscribersComplete
  NobodyTwice
