----------------------------- MODULE MCDispatch -----------------------------
EXTENDS Dispatch, TLC

CONSTANTS u1, u2, flood, fire, pump, medic

(* The flood asks for a pump and a medic, the fire for a medic; one unit    *)
(* can do both.                                                             *)
TwoNeeds == flood :> {pump, medic} @@ fire :> {medic}
OneUnit == u1 :> {pump, medic}

(* Two units and two incidents that need one each: interchangeable.         *)
MedicEach == [i \in Incident |-> {medic}]
Medics == [u \in Unit |-> {medic}]
Alike == Permutations(Unit) \cup Permutations(Incident)

=============================================================================
