SPECIFICATION FairSpec
CONSTANTS
  DefaultLimit = 2
  Absent = Absent
  Ids <- TheIds
  Of <- TheOf
  MaxEdits = 1
  Handlers = {"h1", "h2"}
  At <- TheAt
  Faulty = {"h2"}
  Processes = {"p1", "p2"}
  Clients = {c1}
  Known = {c1}
  Queries <- TheQueries
  Owners = {"a", "b"}
  Limits = {0}
  None = None
INVARIANTS CursorWalkIsExact OffsetWalkDrifts AnnouncedPagesSuffice AnnouncedHitsSuffice NoGap
PROPERTIES HitsAreAskedFor SentIsDelivered
CHECK_DEADLOCK FALSE
