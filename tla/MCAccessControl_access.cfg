\* The constants are those of both regimes: each takes some away.
SPECIFICATION RegimeSpec
CONSTANTS
  Users = {u1, u2}
  Groups = {g1}
  Organizations = {o1}
  Clients = {c1}
  Roles = {administrator, viewer}
  Administrator = administrator
  Emails = {e1, e2}
  Configurations = {{}, {e1}}
  Names = {n1}
  Requests = {r1, r2}
  None = None
  ChangeBound = 2
  ReloadBound = 1
SYMMETRY Symmetry
INVARIANTS
  TokenRoles
  AdministratorsConfigured
  OneUserPerIdentity
PROPERTIES
  KeepsGrants
CHECK_DEADLOCK FALSE
