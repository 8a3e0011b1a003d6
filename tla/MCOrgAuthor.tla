----------------------------- MODULE MCOrgAuthor -----------------------------
(* Two requests, two names that serve as user ids and as groups, two user  *)
(* keys, two devices and three root keys.  No definition tells one value   *)
(* of a set from another, and every checked property is an invariant, so   *)
(* the sets may be permuted.                                               *)
EXTENDS OrgAuthor, TLC

Symmetry ==
    Permutations(Clients) \cup Permutations(Names) \cup Permutations(Keys)
        \cup Permutations(Devices) \cup Permutations(Roots)
=============================================================================
