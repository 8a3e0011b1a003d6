------------------------------- MODULE MCDial -------------------------------
EXTENDS Dial
=============================================================================
