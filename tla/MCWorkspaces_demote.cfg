SPECIFICATION Spec
CONSTANTS
  Users = {u1, u2}
  FreshIds = {}
  Requests = {r1}
  Nobody = nobody
  Roles = {"owner", "member"}
  Operations = {"bootstrap", "add"}
  PageSize = 6
  KetoFaults = FALSE
CHECK_DEADLOCK FALSE
SYMMETRY Symmetry
PROPERTY
  OkMeansAgreed
