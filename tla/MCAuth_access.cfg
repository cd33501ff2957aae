\* Two concurrent requests, two tokens, a name that is created again, restarts.
SPECIFICATION Spec
CONSTANTS
  Ids = {i1, i2, i3}
  Names = {root, bob}
  Tokens = {t1, t2}
  Requests = {q1, q2}
  Perms = {view, manage}
  Roles = {admin}
  RoleSeeds <- Seeds
  Admin = admin
  Manage = manage
  View = view
  AdminName = root
  None = None
SYMMETRY Symmetry
CHECK_DEADLOCK FALSE
INVARIANT StoreMapsAgree
PROPERTY ImplementsAccess
