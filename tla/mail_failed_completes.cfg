SPECIFICATION Spec
CONSTANTS
  Mails = {m1, m2}
  Processes = {p1}
  MaxStalls = 1
  Faulty = {}
  Refused = {m1}
  None = None
INVARIANT CompletedWasSent
CHECK_DEADLOCK FALSE
