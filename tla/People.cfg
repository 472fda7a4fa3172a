\* Accounts, devices, and projects with their budgets, one part at a time.
SPECIFICATION PeopleSpec
CONSTANTS
  a1 = a1
  a2 = a2
  e1 = e1
  e2 = e2
  e3 = e3
  w1 = w1
  w2 = w2
  u1 = u1
  u2 = u2
  s1 = s1
  s2 = s2
  c1 = c1
  c2 = c2
  t1 = t1
  t2 = t2
  f1 = f1
  f2 = f2
  k1 = k1
  k2 = k2
  People = {a1, a2}
  Emails = {e1, e2, e3}
  Passwords = {w1, w2}
  Edits = {u1, u2}
  Setups = {s1, s2}
  Changes = {c1, c2}
  MaxVersion = 2
  Grants = {1, 2}
  MaxLinks = 2
  Installations = {"i"}
  Txs = {t1, t2}
  Refreshes = {f1, f2}
  MaxToken = 2
  Employees = {a1}
  Units = {"region", "department"}
  Projects = {"business", "departmental"}
  Keys = {k1, k2}
  Kind <- MCKind
  Owner <- MCOwner
  Requests = {"r1"}
  Applications = {"x"}
  Amounts = {0, 2}
  Limits = {0, 3}
  Months = {1, 2}
  Users = {"x", "y"}
  MaxEdits = 2
  MaxCalls = 2
SYMMETRY PeopleSymmetry
CHECK_DEADLOCK FALSE
INVARIANTS
  AdminRemains
  TokenProvesPassword
  CurrentLinkUsable
  RevocationComplete
  NoDeadlock
  RefreshOnce
  RequirementHolds
  LeaverHasNoKey
  ArchivedProjectSettled
  LateReplyNotShown
  OwnChangesShown
PROPERTIES
  ProjectAccountImplemented
