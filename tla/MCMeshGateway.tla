--------------------------- MODULE MCMeshGateway ---------------------------
(* A small instance of MeshGateway: two gateways, batches of one event and *)
(* offers of one message, so that a log of three takes several pulls.       *)
EXTENDS MeshGateway
=============================================================================
