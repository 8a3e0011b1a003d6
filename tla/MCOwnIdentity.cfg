SPECIFICATION Spec
CONSTANTS
  k1 = k1  k2 = k2  k3 = k3
  Key = {k1, k2, k3}  Mint = {k1}  Thread = {t1, t2}  None = None  Bad = Bad
  MaxFaults = 2  MaxCuts = 1  MaxBoots = 2
SYMMETRY Symmetry
INVARIANTS RestartPresentsTheSame SignsAsPresented
PROPERTY KeyIsKept
CHECK_DEADLOCK FALSE
CONSTRAINT Mishaps
