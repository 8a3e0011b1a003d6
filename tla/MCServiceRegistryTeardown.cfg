SPECIFICATION Spec
CONSTANTS
  Absent = Absent  NoName = NoName  NoClient = NoClient
  Name = {n1}  Principal = {p1}  Client = {c1, c2}  Lists = {{}}  MaxHeld = 2
  Verbs = {"register", "register_ephemeral", "unregister"}
  Aborts = TRUE  Faults = TRUE
SYMMETRY Alike
CHECK_DEADLOCK FALSE
INVARIANT EphemeralOwned
