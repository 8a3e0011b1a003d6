--------------------------- MODULE MCRosterInstall ---------------------------
(* A feed of two documents: the first root signs the first, the second     *)
(* rotates to the successor and lists this device.  A forged document      *)
(* claims the highest serial.                                              *)
EXTENDS RosterInstall

CONSTANTS r1, r2

Doc(n, s, c, p, l) ==
    [serial |-> n, signer |-> s, cross |-> c, succ |-> p, lists |-> l]

MCFeed == <<Doc(1, r1, NoRoot, NoRoot, FALSE), Doc(2, r2, r1, r2, TRUE)>>
MCForged == {Doc(2, NoRoot, NoRoot, NoRoot, TRUE)}
=============================================================================
