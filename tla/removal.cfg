SPECIFICATION FairSpec
CONSTANTS
  Users = {u1, u2}
  Posts = {p1, p2, p3}
  Handlers = {h1, h2}
  Faulty = {h1}
  MaxUpsets = 2
  None = None
INVARIANTS OrphansAreLate
PROPERTIES PostsGoWithTheirAuthor RemovalCompletes
CHECK_DEADLOCK FALSE
