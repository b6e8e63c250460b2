SPECIFICATION FairSpec
CONSTANTS
  Users = {u1}
  Secrets = {s1, s2}
  Handlers = {h1, h2, h3}
  Faulty = {h1}
  None = None
INVARIANTS SecondFactorByCode SessionsAreHonoured
PROPERTIES OnlyNewSecretLocksOut SessionsEnd
CHECK_DEADLOCK FALSE
