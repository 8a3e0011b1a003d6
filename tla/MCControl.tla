----------------------------- MODULE MCControl -----------------------------
(* Two probers and a watcher of one peer, a session, and two requests, but  *)
(* not all at once: a second probe at work and the later tickets meet a     *)
(* client that has sent nothing.  Requests and rows only meet in the        *)
(* subscription, which reads the row and never writes it.                   *)
EXTENDS Control, TLC

CONSTANTS p1, p2,
          FewTickets  \* bound on tickets drawn next to a request

Symmetry == Permutations(Prober)

Apart ==
    \/ wire = <<>>
    \/ ticket <= FewTickets /\ \E p \in Prober : task[p] = Resting
=============================================================================
