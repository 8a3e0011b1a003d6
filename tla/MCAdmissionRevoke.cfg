SPECIFICATION Spec
CONSTANTS
  d1 = d1  d2 = d2  u1 = u1  u2 = u2  g1 = g1  n1 = n1  n2 = n2
  v1 = v1  v2 = v2  c1 = c1  c2 = c2
  NoUser = NoUser  NoRow = NoRow  NoConn = NoConn  NoNick = NoNick  NoService = NoService
  User = {u1, u2}  KeyUser = {u1, u2}  Group = {g1}  Nick = {n1, n2}
  Device = {d1}  Service = {v1}  Ephemeral = {}  Conn = {c1}  Stream = {s1}  Op = {o1}
  Remote <- MCOneRemote  Rows <- MCRebound  Views <- MCViews  Lists <- MCRosterLists  Names = {d1, u1, u2}
  Verbs = {"roster_install", "pair", "repair", "peer_revoke", "peer_unrevoke"}
CHECK_DEADLOCK FALSE
INVARIANTS RevokedDeviceCut
