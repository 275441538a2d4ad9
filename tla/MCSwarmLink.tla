----------------------------- MODULE MCSwarmLink ---------------------------
(* A small instance of SwarmLink: two incidents that want a unit each, and  *)
(* two units, any of which may be one that never moves.                     *)
EXTENDS SwarmLink

CONSTANTS i1, i2, u1, u2
=============================================================================
