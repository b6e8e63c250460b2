SPECIFICATION FairSpec
CONSTANTS
  Users = {u1, u2}
  Files = {f1, f2}
  Handlers = {h1, h2, h3}
  Faulty = {h1}
  None = None
INVARIANTS AvatarNeverDangles
PROPERTIES DeletionCompletes UploadIsRecorded
CHECK_DEADLOCK FALSE
