--------------------------- MODULE RosterRegister ---------------------------
(***************************************************************************)
(* What a node promises about the roster it enforces, whatever channel     *)
(* delivered it: the roster is a register whose serial never goes back.    *)
(* A boot may leave the register empty (a roster the pinned root does not  *)
(* vouch for is refused), but what is restored later is never older than   *)
(* what was enforced before.  RosterInstall implements this module.        *)
(***************************************************************************)
EXTENDS Integers

CONSTANTS Docs,   \* the roster documents; each has a serial
          NoDoc   \* no roster installed

VARIABLES current, \* the enforced roster, or NoDoc
          floor    \* the highest serial ever enforced

regVars == <<current, floor>>

Init ==
    /\ current = NoDoc
    /\ floor = 0

(* A newer roster replaces the enforced one.                               *)
Adopt(d) ==
    /\ d.serial > floor
    /\ current' = d
    /\ floor' = d.serial

(* A boot refuses the installed roster: roster peers are refused.          *)
Drop ==
    /\ current' = NoDoc
    /\ UNCHANGED floor

(* A boot enforces the installed roster, never one older than before.      *)
Restore(d) ==
    /\ d.serial >= floor
    /\ current' = d
    /\ floor' = d.serial

Next == Drop \/ \E d \in Docs : Adopt(d) \/ Restore(d)

Spec == Init /\ [][Next]_regVars
=============================================================================
