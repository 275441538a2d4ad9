-------------------------- MODULE MCAgencyReplies --------------------------
(* A small instance of AgencyReplies: two agencies that hold the          *)
(* capability, one that does not, and the drone swarm.                     *)
EXTENDS AgencyReplies
=============================================================================
