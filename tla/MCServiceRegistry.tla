------------------------- MODULE MCServiceRegistry -------------------------
(* Small instances of ServiceRegistry for TLC. *)
EXTENDS ServiceRegistry, TLC

\* Clients, names and principals are interchangeable.
Alike == Permutations(Client) \cup Permutations(Name)
=============================================================================
