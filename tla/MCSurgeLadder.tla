--------------------------- MODULE MCSurgeLadder ---------------------------
(* A small instance of SurgeLadder: one offer asked from level 2, one the  *)
(* declaration brings; a load under every line and one over all of them.    *)
EXTENDS SurgeLadder

LoadsThatOccur == {{}, 1..4}
=============================================================================
