\* Two requests at a time, of every kind.
SPECIFICATION Spec
CONSTANTS
  None = None
  w1 = w1
  Workspaces = {w1}
  u1 = u1
  u2 = u2
  u3 = u3
  Users = {u1, u2, u3}
  i1 = i1
  i2 = i2
  Invitations = {i1, i2}
  r1 = r1
  r2 = r2
  Requests = {r1, r2}
  Operations = {"remove", "leave", "transfer", "delete", "invite", "resend", "revoke", "redeem", "accept", "decline", "select", "create"}
  MaxRequests = 4
SYMMETRY Interchangeable
INVARIANTS
  TypeOK
  AtMostOneOwner
  OneOpenInvitation
PROPERTIES
  OwnerLostOnlyWhenOvertaken
  ClosedInvitationsStayClosed
CHECK_DEADLOCK FALSE
