\* Requests of a user and of a stranger about one topic, two at a time, any
\* number one after the other.
CONSTANTS
  h1 = h1  h2 = h2  t1 = t1
  None = None
  Users = {1, 2}
  Topics = {t1}
  MaxSubs = 2
  Fields = {"channels", "timezone"}
  Values = {"default", "email", "Zurich"}
  Defaults <- MCDefaults
  Handlers = {h1, h2}
  Asks <- MCAsks
  Earlier <- MCEarlier
SPECIFICATION FairSpec
INVARIANTS
  TypeOK
  OneRowPerPair
  AnsweredTruly
PROPERTIES
  SwitchedAsAsked
  UndoneByOverlapOnly
  ImplementsLedger
  EveryRequestIsAnswered
