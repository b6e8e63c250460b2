SPECIFICATION FairSpec
CONSTANTS
  Users = {u1}
  Secrets = {s1, s2}
  Handlers = {h1}
  Faulty = {}
  None = None
PROPERTY FirstFactorOnlyAuthenticates
CHECK_DEADLOCK FALSE
