------------------------------ MODULE MCIntake ------------------------------
(* A small instance of Intake: two handlers, two residents, a crew and a    *)
(* sender who leaves no trace, one spot with two compatible categories, one *)
(* of life and death; reports that are clear, poor, urgent, instructions to *)
(* a model, or cannot be read.                                              *)
EXTENDS Intake, TLC

CONSTANTS a, b, c, road, pump, rescue, flooded, stranded

F(p, cat, crew, place, proof, boost, model, needs, clear) ==
  [phone |-> p, spot |-> road, cat |-> cat, crew |-> crew, place |-> place, proof |-> proof,
   urgent |-> boost, model |-> model, threat |-> FALSE, injected |-> FALSE, needs |-> needs, clear |-> clear]
One == (pump :> 1) @@ (rescue :> 0)
Two == (pump :> 2) @@ (rescue :> 0)
Saved == (pump :> 1) @@ (rescue :> 1)
MCForm ==
  {F(a, flooded, FALSE, 10000, 9500, 0, 1, Two, FALSE),   \* a photo, and words nobody can classify
   F(b, stranded, FALSE, 2100, 1500, 4, 0, Saved, TRUE),  \* an urgent report, hardly believed
   F(c, flooded, TRUE, 10000, 9500, 0, 0, One, TRUE),     \* a crew at the scene
   F(c, flooded, TRUE, 10000, 9500, 2, 0, One, TRUE),     \* and again, in other words
   [F(Nobody, flooded, FALSE, 10000, 9500, 0, 5, One, TRUE) EXCEPT !.injected = TRUE],
   [F(Nobody, stranded, FALSE, 10000, 5500, 0, 2, One, TRUE) EXCEPT !.threat = TRUE]}
MCCapability == {pump, rescue}
MCCategory == {flooded, stranded}
MCCompatible == MCCategory \X MCCategory
MCBase == (flooded :> 3) @@ (stranded :> 4)
=============================================================================
