---------------------------- MODULE MCSendQueue -----------------------------
(* Three sends, one handler, one message to answer. *)
EXTENDS SendQueue

CONSTANTS t1, t2, t3, ask, c1, c2, h1
=============================================================================
