\* A removal and a transfer overlap.
SPECIFICATION Spec
CONSTANTS
  None = None
  w1 = w1
  Workspaces = {w1}
  u1 = u1
  u2 = u2
  u3 = u3
  Users = {u1, u2}
  i1 = i1
  i2 = i2
  Invitations = {i1}
  r1 = r1
  r2 = r2
  Requests = {r1, r2}
  Operations = {"remove", "transfer"}
  MaxRequests = 2
SYMMETRY Interchangeable
INVARIANT
  AlwaysAnOwner
CHECK_DEADLOCK FALSE
