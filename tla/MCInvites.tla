----------------------------- MODULE MCInvites -----------------------------
(* Small instances of Invites for TLC. *)
EXTENDS Invites, TLC

CONSTANTS s1, s2

\* A two-use invite and a single-use one.
MCUses == [s \in Secret |-> IF s = s1 THEN 2 ELSE 1]

\* Redeemers are interchangeable.
Redeemers == Permutations(Redeemer)
=============================================================================
