----------------------------- MODULE MCAdmission -----------------------------
(* Small instances of Admission for TLC. *)
EXTENDS Admission

CONSTANTS d1, d2, u1, u2, g1, n1, n2, v1, v2, c1, c2

MCOneRemote == [c \in Conn |-> d1]

Row(n, u) == [nick |-> n, user |-> u, paired |-> TRUE]

\* Two devices of one person under two nicknames.
MCRows == {Row(n1, u1), Row(n2, u1)}

\* Rosters: with d1 as u1's, without it, and revoking it.
Roster(u, g, gone) == [revoked |-> gone,
                       user    |-> [d \in Device |-> IF d = d1 THEN u ELSE NoUser],
                       groups  |-> [d \in Device |-> IF d = d1 THEN g ELSE {}]]
MCViews == {Roster(u2, {g1}, {}), Roster(NoUser, {}, {}), Roster(NoUser, {}, {d1})}

MCUserLists == {{u1}}
MCRosterLists == {{u1, g1}}

\* One device, bound to one person and then to another.
MCRebound == {Row(n1, u1), Row(n1, u2)}
==============================================================================
