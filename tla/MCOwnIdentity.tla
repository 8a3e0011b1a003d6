---------------------------- MODULE MCOwnIdentity ----------------------------
(* Two threads and three keys: the one a boot mints, and two others.       *)
EXTENDS OwnIdentity, TLC

CONSTANTS k1, k2, k3

Symmetry == Permutations({k2, k3}) \cup Permutations(Thread)

\* At most two things go wrong.
Mishaps == faults + cuts <= 2
=============================================================================
