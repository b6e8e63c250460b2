SPECIFICATION FairSpec
CONSTANTS
  Images = {j1}
  Audios = {j2}
  Bad = {j1}
  Processes = {p1, p2, p3}
  Faulty = {p1}
  Clients = {c1}
  Attempts = 2
  MaxStalls = 1
  None = None
INVARIANTS RunsAreBounded AnswersAreTrue
PROPERTIES ResultIsFinal PromiseSpec AddedEnds
CHECK_DEADLOCK FALSE
