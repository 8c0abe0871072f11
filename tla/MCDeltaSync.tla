---------------------------- MODULE MCDeltaSync -----------------------------
(* DeltaSync with two numbers; a phone whose clock is right, slow or fast.  *)
EXTENDS DeltaSync

MCNumbers == 1..2
MCSkews == -1..1
=============================================================================
