SPECIFICATION Spec
CONSTANTS
  p1 = p1  p2 = p2
  Prober = {p1, p2}  Watcher = {w1}  Session = {s1}  NoRow = NoRow  FewTickets = 4
  MaxTicket = 7  REACH_BROADCAST_DEPTH = 2  STREAM_BROADCAST_DEPTH = 1  MaxRequests = 2  MAX_INFLIGHT = 1
SYMMETRY Symmetry
CONSTRAINT Apart
CHECK_DEADLOCK FALSE
INVARIANTS NoFalseOffline PongKept  PermitsReturn UpgradeClean
