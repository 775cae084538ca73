SPECIFICATION MCSpec
CONSTANTS
  t1 = t1
  t2 = t2
  u1 = u1
  Tenants = {t1, t2}
  Users = {u1, u2}
  Owner <- MCOwner
  Installs = {i1}
  Org = org
  Repos = {p1}
  Jobs = {j1, j2}
  None = none
  MaxPolls = 2
  MaxIntents = 2
  MaxInputs = 4
  v1 = v1
  v2 = v2
  v3 = v3
  a1 = a1
  a2 = a2
  Op <- MCOp
  ApiCalls = {a1, a2}
  Visible0 <- MCVisible
  Newcomers = {v4}
  PageSize = 2
  MaxAttempts = 2
  MaxListed = 4
  MaxTokens = 6
  MaxApiInputs = 2
  Logins = {l1, l2}
  ClerkUsers = {k1, k2}
  Accounts = {g1}
  Keys = {key1, key2}
  UserIds = {w1, w2}
  Nothing = nothing
  MaxSignInInputs = 3
INVARIANTS TypeOK  ApiTypeOK UnauthorizedOnlyByItsOwn ListsAreComplete SignInTypeOK PublishedKeysAreKnown
PROPERTIES RemovalsAreSticky OrphansOnlyWhenOvertaken PagesAnswer InstallsGetLinked CallsEnd  LoginsEnd
CHECK_DEADLOCK FALSE
