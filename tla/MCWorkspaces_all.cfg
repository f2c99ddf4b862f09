SPECIFICATION Spec
CONSTANTS
  Users = {u1, u2}
  FreshIds = {w1}
  Requests = {r1, r2}
  Nobody = nobody
  Roles = {"owner", "member"}
  Operations = {"create", "add", "remove", "leave", "delete"}
  PageSize = 6
  KetoFaults = FALSE
CHECK_DEADLOCK FALSE
SYMMETRY Symmetry
INVARIANT
  AccessNeedsRow
PROPERTY
  OwnerlessIsFrozen
