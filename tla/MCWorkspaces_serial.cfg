SPECIFICATION Spec
CONSTANTS
  Users = {u1, u2}
  FreshIds = {}
  Requests = {r1}
  Nobody = nobody
  Roles = {"owner", "member"}
  Operations = {"bootstrap", "add", "remove", "leave", "delete"}
  PageSize = 6
  KetoFaults = TRUE
CHECK_DEADLOCK FALSE
SYMMETRY Symmetry
INVARIANT
  TypeOK
PROPERTY
  OkMeansGranted
