SPECIFICATION Spec
CONSTANTS
  Absent = Absent  NoName = NoName  NoClient = NoClient
  Name = {n1}  Principal = {p1}  Client = {c1, c2}  Lists = {{p1}}  MaxHeld = 1
  Verbs = {"register", "register_ephemeral", "unregister", "grant", "revoke"}
  Aborts = FALSE  Faults = TRUE
SYMMETRY Alike
CHECK_DEADLOCK FALSE
INVARIANTS LiveCurrent RevokeTakesEffect NoShadow RegisteredStays
