------------------------------- MODULE MCQueue -------------------------------
(* Instances of Queue for TLC.                                             *)
EXTENDS Queue, TLC

CONSTANTS p1, p2, c1, c2
=============================================================================
