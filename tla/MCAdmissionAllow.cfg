SPECIFICATION Spec
CONSTANTS
  d1 = d1  d2 = d2  u1 = u1  u2 = u2  g1 = g1  n1 = n1  n2 = n2
  v1 = v1  v2 = v2  c1 = c1  c2 = c2
  NoUser = NoUser  NoRow = NoRow  NoConn = NoConn  NoNick = NoNick  NoService = NoService
  User = {u1, u2}  KeyUser = {u1, u2}  Group = {g1}  Nick = {n1, n2}
  Device = {d1, d2}  Service = {v1, v2}  Ephemeral = {v2}  Conn = {c1}  Stream = {s1}  Op = {}
  Remote <- MCOneRemote  Rows <- MCRows  Views = {}  Lists <- MCUserLists  Names = {d1, u1, n1}
  Verbs = {"allow_revoke", "allow_grant", "unregister", "peer_remove", "pair", "repair"}
CHECK_DEADLOCK FALSE
INVARIANTS AllowRevokeCut
