------------------------------ MODULE MCPairing ------------------------------
(* Three nodes: an inviter a, and two devices b and c of one person that   *)
(* carry the same host name.                                               *)
EXTENDS Pairing

CONSTANTS a, b, c, p, host, desk, s1, o1, o2, o3, o4

MCPerson == [n \in Node |-> IF n = a THEN NoPerson ELSE p]
MCNick == [n \in Node |-> IF n = a THEN desk ELSE host]
\* Two uses by a; one by b, back to a; a's attestation offer; a self-enrolment by b.
MCBy == [o \in Offer |-> IF o \in {o2, o4} THEN b ELSE a]
MCKind == [o \in Offer |-> CASE o = o3 -> "attest" [] o = o4 -> "self" [] OTHER -> "pair"]
MCAlias == [o \in Offer |-> NoName]
MCMinted == [o \in Offer |-> CASE o = o1 -> 2 [] o = o3 -> 0 [] OTHER -> 1]
MCGrants == [o \in Offer |-> {s1}]
=============================================================================
