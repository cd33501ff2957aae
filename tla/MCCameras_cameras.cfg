\* Two clients, two ids, every kind of write.
SPECIFICATION CameraSpec
CONSTANTS
  CamIDs = {c1, c2}
  Calls = {q1, q2}
  Bodies <- Writes
  NodeID <- Node
  Null = Null
SYMMETRY Symmetry
CHECK_DEADLOCK FALSE
INVARIANTS CredentialsFollowCamera SecondCheckAgrees
