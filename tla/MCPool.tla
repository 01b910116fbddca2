-------------------------------- MODULE MCPool --------------------------------
EXTENDS Pool

CONSTANTS a, b, c, w1, w2

(* a publishes and shares a worker with nobody; b, which also subscribes,  *)
(* and c share the other.                                                  *)
MCHome(x) == IF x = a THEN w1 ELSE w2
=============================================================================
