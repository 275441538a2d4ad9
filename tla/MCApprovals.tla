---------------------------- MODULE MCApprovals ----------------------------
(* A small instance of Approvals: a severe incident and a minor one, and    *)
(* plans on both sides of every limit.                                      *)
EXTENDS Approvals

CONSTANTS flood, leak, u1, u2

Severities == [i \in Incident |-> IF i = flood THEN 5 ELSE 3]
Swap == [Still EXCEPT !.moves = {u1, u2}, !.pulls = {leak}]
Strand == [Still EXCEPT !.moves = {u2}, !.pulls = {leak}, !.strands = {leak}]
Pull == [Still EXCEPT !.moves = {u1}, !.pulls = {flood}]
Plans == {Still, Swap, Strand, Pull}
=============================================================================
