SPECIFICATION Spec
CONSTANTS
  s1 = s1  s2 = s2  NoSecret = NoSecret  NoRedeemer = NoRedeemer
  Secret = {s1, s2}  Uses <- MCUses  Redeemer = {r1, r2}
SYMMETRY Redeemers
INVARIANTS RedeemedAtMost UsesAccounted
