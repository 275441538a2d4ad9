--------------------------- MODULE MCEventRouter ---------------------------
(* Small instances of EventRouter: the event classes of each run. *)
EXTENDS EventRouter

(* A citizen's report, something only the audit log wants, an officer's and *)
(* an agent's cancellation: one that re-plans and one that does not of each *)
(* pair the routing table tells apart.                                      *)
OneClass == {[kind |-> "incident.opened", actor |-> "agent"]}
TwoClasses == OneClass \cup {[kind |-> "assignment.cancelled", actor |-> "agent"]}
=============================================================================
