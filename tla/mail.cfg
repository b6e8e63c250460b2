SPECIFICATION FairSpec
CONSTANTS
  Mails = {m1, m2}
  Processes = {p1, p2}
  MaxStalls = 1
  Faulty = {p1}
  Refused = {m1}
  None = None
INVARIANTS SentOnceUnlessStalled CancelledIsNeverSent
PROPERTIES LostByFailureOnly AskedIsSent
CHECK_DEADLOCK FALSE
