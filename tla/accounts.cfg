SPECIFICATION FairSpec
CONSTANTS
  Ids = {i1, i2, i3}
  Emails = {e1}
  Profiles = {v1, v2}
  Handlers = {h1, h2}
  Faulty = {h1}
  None = None
INVARIANTS EmailIsUnique ConfirmedByLink LinkIsUnderWay
PROPERTIES BookSpec ProfileSettles
CHECK_DEADLOCK FALSE
