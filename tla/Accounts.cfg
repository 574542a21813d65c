SPECIFICATION Spec
CONSTANTS
  u1 = u1
  u2 = u2
  u3 = u3
  q1 = q1
  q2 = q2
  t1 = t1
  t2 = t2
  agent = agent
  Admin = Admin
  External = External
  None = None
  Users <- MCUsers
  FirstAdmins <- MCFirstAdmins
  CustomRoles <- MCCustomRoles
  Requests <- MCRequests
  Tokens <- MCTokens
  MaxRequests = 6
CHECK_DEADLOCK FALSE
SYMMETRY Same
INVARIANT EnabledAdminRemains
INVARIANT RolesOfAccountsExist
INVARIANT SessionsAreOfThePassword
PROPERTY OneColumnAtATime
