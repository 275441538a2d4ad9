-------------------------- MODULE ApprovalsProofs --------------------------
(***************************************************************************)
(* Theorems about Approvals, for any plans, incidents, officers, limits    *)
(* and number of runs and decisions.                                       *)
(*                                                                         *)
(* Every step moves one run at most.  Good says where a run may stand, by  *)
(* itself and beside the plan a solve would return now, and each node of   *)
(* the graph is shown to leave a run that is good; GateInv does the same   *)
(* for the decisions and the officers' requests about them.                *)
(***************************************************************************)
EXTENDS Approvals, SequenceTheorems, TLAPS

Answers == {"none", "yes", "no", "silence"}

(* A run that has ended is at the end and one that waits is at the approval.*)
(* Past the gate or the approval the proposal is within the delegation or   *)
(* an officer said yes; only a run that has ended has written.  What an     *)
(* approved run is about to write, and what it wrote, moves nobody the      *)
(* officer did not see, as long as nobody moves the world in between.       *)
Good(r, w, s) ==
  /\ r.status \in {"done", "failed"} <=> r.node = "end"
  /\ r.status = "waiting" => r.node = "human_approval"
  /\ r.node \in {"dispatch", "replan"} /\ NeedsOfficer(r.proposal) => r.answer = "yes"
  /\ r.wrote # NoPlan => r.node = "end" /\ r.outcome \notin {"held", "rejected", "failed", "unchanged"}
  /\ r.wrote # NoPlan /\ NeedsOfficer(r.proposal) => r.answer = "yes"
  /\ "late_move" \notin s /\ r.answer = "yes" /\ r.node = "replan" => w.moves \subseteq r.proposal.moves
  /\ "late_move" \notin s /\ r.answer = "yes" /\ r.wrote # NoPlan => r.wrote.moves \subseteq r.proposal.moves
RunsInv == \A n \in DOMAIN runs : Good(runs[n], world, scene)

(* What is still to be carried out by its proposer was within the           *)
(* delegation; a request that goes on to carry out has recorded its yes.    *)
Sound(x, s) ==
  /\ x.due => x.within /\ x.sure
  /\ "execute" \notin s /\ x.carried > 0 => x.approved \/ (x.within /\ x.sure)
GateInv ==
  /\ \A d \in DOMAIN decisions : Sound(decisions[d], scene)
  /\ \A o \in Officer : request[o].pc = "recorded" => decisions[request[o].of].approved

Inv == TypeOK /\ RunsInv /\ GateInv

----------------------------------------------------------------------------
(* A run that wrote nothing is told from one that wrote any plan.           *)
LEMMA NoPlanIsNone == NoPlan \notin Plan
<1>1. \A p \in PlanType : "moves" \in DOMAIN p
  BY DEF PlanType
<1>2. "moves" \notin DOMAIN NoPlan
  BY DEF NoPlan
<1>3. QED
  BY <1>1, <1>2, ApprovalsAssumption

(* What a node of the graph, an answer or a time-out does: one run moves to *)
(* a good place, and the world changes only by being answered.              *)
Moves(n) ==
  /\ \E r \in Run : Good(r, world', scene) /\ runs' = [runs EXCEPT ![n] = r]
  /\ world' \in {world, Still}
  /\ memory' \in [Incident -> Answers]
  /\ UNCHANGED <<scene, paused, decisions, request>>

(* A run under way may end, whatever for, and may go on to a node before    *)
(* the gate's answer counts.                                                *)
LEMMA EndIsGood ==
  ASSUME NEW r \in Run, NEW w, NEW s, Good(r, w, s), r.node # "end",
         NEW outcome \in Outcome, NEW v
  PROVE  /\ [r EXCEPT !.status = "done", !.node = "end", !.outcome = outcome] \in Run
         /\ Good([r EXCEPT !.status = "done", !.node = "end", !.outcome = outcome], v, s)
  BY DEF Good, Run, Outcome

LEMMA EarlyIsGood ==
  ASSUME NEW r \in Run, NEW w, NEW s, Good(r, w, s), r.status = "running", r.node # "end",
         NEW node \in {"sense", "optimise"}
  PROVE  [r EXCEPT !.node = node] \in Run /\ Good([r EXCEPT !.node = node], w, s)
  BY DEF Good, Run

LEMMA RunIsGood ==
  ASSUME TypeOK, RunsInv, NEW n \in DOMAIN runs
  PROVE  runs[n] \in Run /\ Good(runs[n], world, scene)
  BY ElementOfSeq, LenProperties DEF TypeOK, RunsInv

(* What makes a step one that Moves.                                        *)
LEMMA MovesTo ==
  ASSUME TypeOK, NEW n \in DOMAIN runs, NEW r \in Run, Good(r, world, scene),
         runs' = [runs EXCEPT ![n] = r],
         UNCHANGED <<scene, world, paused, memory, decisions, request>>
  PROVE  Moves(n)
  BY DEF Moves, TypeOK, Answers

LEMMA EndMoves ==
  ASSUME TypeOK, RunsInv, NEW n \in DOMAIN runs, runs[n].status = "running", runs[n].node # "end",
         NEW outcome \in Outcome, Ends(n, outcome),
         UNCHANGED <<scene, world, paused, memory, decisions, request>>
  PROVE  Moves(n)
<1> DEFINE r == [runs[n] EXCEPT !.status = "done", !.node = "end", !.outcome = outcome]
<1>1. r \in Run /\ Good(r, world, scene)
  BY RunIsGood, EndIsGood
<1>2. runs' = [runs EXCEPT ![n] = r]
  BY DEF Ends
<1> HIDE DEF r
<1>3. QED
  BY <1>1, <1>2, MovesTo

LEMMA EarlyMoves ==
  ASSUME TypeOK, RunsInv, NEW n \in DOMAIN runs, runs[n].status = "running", runs[n].node # "end",
         NEW node \in {"sense", "optimise"}, Goes(n, node),
         UNCHANGED <<scene, world, paused, memory, decisions, request>>
  PROVE  Moves(n)
<1> DEFINE r == [runs[n] EXCEPT !.node = node]
<1>1. r \in Run /\ Good(r, world, scene)
  BY RunIsGood, EarlyIsGood
<1>2. runs' = [runs EXCEPT ![n] = r]
  BY DEF Goes
<1> HIDE DEF r
<1>3. QED
  BY <1>1, <1>2, MovesTo

LEMMA GuardInMoves ==
  ASSUME TypeOK, RunsInv, NEW n \in DOMAIN runs, GuardIn(n)
  PROVE  Moves(n)
<1>1. runs[n].status = "running" /\ runs[n].node # "end"
  BY DEF GuardIn, At
<1>2. UNCHANGED <<scene, world, paused, memory, decisions, request>>
  BY DEF GuardIn
<1>3. Ends(n, "held") \/ Goes(n, "sense")
  BY DEF GuardIn
<1>4. QED
  BY <1>1, <1>2, <1>3, EndMoves, EarlyMoves DEF Outcome

LEMMA SenseMoves ==
  ASSUME TypeOK, RunsInv, NEW n \in DOMAIN runs, Sense(n)
  PROVE  Moves(n)
<1>1. runs[n].status = "running" /\ runs[n].node # "end"
  BY DEF Sense, At
<1>2. UNCHANGED <<scene, world, paused, memory, decisions, request>>
  BY DEF Sense
<1>3. Goes(n, "optimise")
  BY DEF Sense
<1>4. QED
  BY <1>1, <1>2, <1>3, EarlyMoves

LEMMA OptimiseMoves ==
  ASSUME TypeOK, RunsInv, NEW n \in DOMAIN runs, Optimise(n)
  PROVE  Moves(n)
<1>1. runs[n].status = "running" /\ runs[n].node = "optimise"
  BY DEF Optimise, At
<1>2. UNCHANGED <<scene, world, paused, memory, decisions, request>>
  BY DEF Optimise
<1>3. runs[n] \in Run /\ Good(runs[n], world, scene) /\ world \in Plan
  BY RunIsGood DEF TypeOK
<1>4. CASE runs' = [runs EXCEPT ![n] = [@ EXCEPT !.node = "policy_gate", !.proposal = world]]
  <2> DEFINE r == [runs[n] EXCEPT !.node = "policy_gate", !.proposal = world]
  <2>1. r \in Run
    BY <1>3 DEF Run
  <2>2. Good(r, world, scene)
    BY <1>1, <1>3 DEF Good, Run
  <2>3. runs' = [runs EXCEPT ![n] = r]
    BY <1>4
  <2> HIDE DEF r
  <2>4. QED
    BY <1>2, <2>1, <2>2, <2>3, MovesTo
<1>5. CASE /\ runs[n].attempts + 1 < MaxAttempts
           /\ runs' = [runs EXCEPT ![n] = [@ EXCEPT !.attempts = runs[n].attempts + 1]]
  <2> DEFINE r == [runs[n] EXCEPT !.attempts = runs[n].attempts + 1]
  <2>1. runs[n].attempts + 1 \in 0..MaxAttempts - 1
    BY <1>3, <1>5, ApprovalsAssumption DEF Run
  <2>2. r \in Run
    BY <1>3, <2>1 DEF Run
  <2>3. Good(r, world, scene)
    BY <1>1, <1>3 DEF Good, Run
  <2>4. runs' = [runs EXCEPT ![n] = r]
    BY <1>5
  <2> HIDE DEF r
  <2>5. QED
    BY <1>2, <2>2, <2>3, <2>4, MovesTo
<1>6. CASE Ends(n, "failed")
  BY <1>1, <1>2, <1>6, EndMoves DEF Outcome
<1>7. QED
  BY <1>4, <1>5, <1>6 DEF Optimise

(* Only what nobody has to see passes the gate by itself.                   *)
LEMMA PolicyGateMoves ==
  ASSUME TypeOK, RunsInv, NEW n \in DOMAIN runs, PolicyGate(n)
  PROVE  Moves(n)
<1>1. runs[n].status = "running" /\ runs[n].node = "policy_gate"
  BY DEF PolicyGate, At
<1>2. UNCHANGED <<scene, world, paused, memory, decisions, request>>
  BY DEF PolicyGate
<1>3. runs[n] \in Run /\ Good(runs[n], world, scene)
  BY RunIsGood
<1>4. CASE Ends(n, "held") \/ Ends(n, "unchanged")
  BY <1>1, <1>2, <1>4, EndMoves DEF Outcome
<1>5. CASE /\ NeedsOfficer(runs[n].proposal)
           /\ runs' = [runs EXCEPT ![n] = [@ EXCEPT !.status = "waiting", !.node = "human_approval"]]
  <2> DEFINE r == [runs[n] EXCEPT !.status = "waiting", !.node = "human_approval"]
  <2>1. r \in Run
    BY <1>3 DEF Run
  <2>2. Good(r, world, scene)
    BY <1>1, <1>3 DEF Good, Run
  <2>3. runs' = [runs EXCEPT ![n] = r]
    BY <1>5
  <2> HIDE DEF r
  <2>4. QED
    BY <1>2, <2>1, <2>2, <2>3, MovesTo
<1>6. CASE ~NeedsOfficer(runs[n].proposal) /\ Goes(n, "dispatch")
  <2> DEFINE r == [runs[n] EXCEPT !.node = "dispatch"]
  <2>1. r \in Run
    BY <1>3 DEF Run
  <2>2. Good(r, world, scene)
    BY <1>1, <1>3, <1>6 DEF Good, Run
  <2>3. runs' = [runs EXCEPT ![n] = r]
    BY <1>6 DEF Goes
  <2> HIDE DEF r
  <2>4. QED
    BY <1>2, <2>1, <2>2, <2>3, MovesTo
<1>7. QED
  BY <1>4, <1>5, <1>6 DEF PolicyGate

LEMMA ResumeMoves ==
  ASSUME TypeOK, RunsInv, NEW n \in DOMAIN runs, NEW a \in Answers, Resume(n, a)
  PROVE  Moves(n)
<1> DEFINE r == [runs[n] EXCEPT !.status = "running", !.answer = a]
<1>1. runs[n] \in Run /\ Good(runs[n], world, scene)
  BY RunIsGood
<1>2. runs[n].status = "waiting"
  BY DEF Resume
<1>3. r \in Run
  BY <1>1 DEF Run, Answers
<1>4. Good(r, world, scene)
  BY <1>1, <1>2 DEF Good, Run
<1>5. /\ runs' = [runs EXCEPT ![n] = r]
      /\ UNCHANGED <<scene, world, paused, memory, decisions, request>>
  BY DEF Resume
<1> HIDE DEF r
<1>6. QED
  BY <1>3, <1>4, <1>5, MovesTo

(* A yes, and nothing else, lets what needed an officer go on.              *)
LEMMA HumanApprovalMoves ==
  ASSUME TypeOK, RunsInv, NEW n \in DOMAIN runs, HumanApproval(n)
  PROVE  Moves(n)
<1>1. runs[n].status = "running" /\ runs[n].node = "human_approval"
  BY DEF HumanApproval, At
<1>2. UNCHANGED <<scene, world, paused, decisions, request>>
  BY DEF HumanApproval
<1>3. runs[n] \in Run /\ Good(runs[n], world, scene)
  BY RunIsGood
<1>4. memory' \in [Incident -> Answers]
  <2>1. runs[n].answer \in Answers /\ memory \in [Incident -> Answers]
    BY <1>3 DEF Run, Answers, TypeOK
  <2>2. QED
    BY <2>1 DEF HumanApproval
<1>5. CASE runs[n].answer = "yes" /\ Goes(n, "dispatch")
  <2> DEFINE r == [runs[n] EXCEPT !.node = "dispatch"]
  <2>1. r \in Run
    BY <1>3 DEF Run
  <2>2. Good(r, world, scene)
    BY <1>1, <1>3, <1>5 DEF Good, Run
  <2>3. runs' = [runs EXCEPT ![n] = r]
    BY <1>5 DEF Goes
  <2> HIDE DEF r
  <2>4. QED
    BY <1>2, <1>4, <2>1, <2>2, <2>3 DEF Moves
<1>6. CASE Ends(n, "rejected")
  <2> DEFINE r == [runs[n] EXCEPT !.status = "done", !.node = "end", !.outcome = "rejected"]
  <2>1. "rejected" \in Outcome
    BY DEF Outcome
  <2>2. r \in Run /\ Good(r, world, scene)
    BY <1>1, <1>3, <2>1, EndIsGood
  <2>3. runs' = [runs EXCEPT ![n] = r]
    BY <1>6 DEF Ends
  <2> HIDE DEF r
  <2>4. QED
    BY <1>2, <1>4, <2>2, <2>3 DEF Moves
<1>7. QED
  BY <1>5, <1>6 DEF HumanApproval

(* The second preview: an approved plan goes on only where it moves nobody  *)
(* who was not in the plan the officer saw.                                 *)
LEMMA DispatchMoves ==
  ASSUME TypeOK, RunsInv, NEW n \in DOMAIN runs, Dispatch(n)
  PROVE  Moves(n)
<1>1. runs[n].status = "running" /\ runs[n].node = "dispatch"
  BY DEF Dispatch, At
<1>2. UNCHANGED <<scene, world, paused, memory, decisions, request>>
  BY DEF Dispatch
<1>3. runs[n] \in Run /\ Good(runs[n], world, scene)
  BY RunIsGood
<1>4. CASE Ends(n, "held")
  BY <1>1, <1>2, <1>4, EndMoves DEF Outcome
<1>5. CASE /\ runs[n].answer = "yes" => world.moves \subseteq runs[n].proposal.moves
           /\ Goes(n, "replan")
  <2> DEFINE r == [runs[n] EXCEPT !.node = "replan"]
  <2>1. r \in Run
    BY <1>3 DEF Run
  <2>2. Good(r, world, scene)
    BY <1>1, <1>3, <1>5 DEF Good, Run
  <2>3. runs' = [runs EXCEPT ![n] = r]
    BY <1>5 DEF Goes
  <2> HIDE DEF r
  <2>4. QED
    BY <1>2, <2>1, <2>2, <2>3, MovesTo
<1>6. QED
  BY <1>4, <1>5 DEF Dispatch

(* The write: what is written is what a solve returns now.                  *)
Written == {"dispatched", "timeout", "none", "blocked"}
LEMMA WriteIsGood ==
  ASSUME NEW r \in Run, NEW w \in Plan, NEW s, Good(r, w, s), r.node = "replan",
         NEW status \in {"done", "failed"}, NEW outcome \in Written, NEW v
  PROVE  /\ [r EXCEPT !.status = status, !.node = "end", !.outcome = outcome, !.wrote = w] \in Run
         /\ Good([r EXCEPT !.status = status, !.node = "end", !.outcome = outcome, !.wrote = w], v, s)
<1> DEFINE q == [r EXCEPT !.status = status, !.node = "end", !.outcome = outcome, !.wrote = w]
<1>1. q \in Run
  BY DEF Run, Outcome, Written
<1>2. /\ q.status = status /\ q.node = "end" /\ q.outcome = outcome /\ q.wrote = w
      /\ q.proposal = r.proposal /\ q.answer = r.answer
  BY DEF Run
<1>3. Good(q, v, s)
  <2> HIDE DEF q
  <2>1. QED
    BY <1>2 DEF Good, Written
<1>4. QED
  BY <1>1, <1>3

LEMMA WriteMoves ==
  ASSUME TypeOK, RunsInv, NEW n \in DOMAIN runs, runs[n].node = "replan",
         NEW status \in {"done", "failed"}, NEW outcome \in Written,
         runs' = [runs EXCEPT ![n] = [@ EXCEPT !.status = status, !.node = "end",
                                               !.outcome = outcome, !.wrote = world]],
         world' = Still, UNCHANGED <<scene, paused, memory, decisions, request>>
  PROVE  Moves(n)
<1> DEFINE r == [runs[n] EXCEPT !.status = status, !.node = "end", !.outcome = outcome, !.wrote = world]
<1>1. runs[n] \in Run /\ Good(runs[n], world, scene) /\ world \in Plan
  BY RunIsGood DEF TypeOK
<1>2. r \in Run /\ Good(r, world', scene)
  BY <1>1, WriteIsGood
<1>3. runs' = [runs EXCEPT ![n] = r]
  OBVIOUS
<1>4. memory' \in [Incident -> Answers]
  BY DEF TypeOK, Answers
<1> HIDE DEF r
<1>5. QED
  BY <1>2, <1>3, <1>4 DEF Moves

LEMMA ReplanMoves ==
  ASSUME TypeOK, RunsInv, NEW n \in DOMAIN runs, Replan(n)
  PROVE  Moves(n)
<1>1. runs[n].status = "running" /\ runs[n].node = "replan"
  BY DEF Replan, At
<1>2. "dispatched" \in Written
  BY DEF Written
<1>3. QED
  BY <1>1, <1>2, WriteMoves DEF Replan

(* A run that broke off before its write has written nothing; one that      *)
(* broke off just after it wrote what an untimely end would have hidden.    *)
LEMMA BreaksMoves ==
  ASSUME TypeOK, RunsInv, NEW n \in DOMAIN runs, NEW outcome \in Written, Breaks(n, outcome)
  PROVE  Moves(n)
<1>1. runs[n].status = "running"
  BY DEF Breaks
<1>2. CASE /\ runs' = [runs EXCEPT ![n] = [@ EXCEPT !.status = "failed", !.node = "end",
                                                    !.outcome = outcome]]
           /\ UNCHANGED <<scene, world, paused, memory, decisions, request>>
  <2> DEFINE r == [runs[n] EXCEPT !.status = "failed", !.node = "end", !.outcome = outcome]
  <2>1. runs[n] \in Run /\ Good(runs[n], world, scene)
    BY RunIsGood
  <2>2. r \in Run
    BY <2>1 DEF Run, Outcome, Written
  <2>3. Good(r, world, scene)
    BY <1>1, <2>1 DEF Good, Run
  <2>4. runs' = [runs EXCEPT ![n] = r]
    BY <1>2
  <2> HIDE DEF r
  <2>5. QED
    BY <1>2, <2>2, <2>3, <2>4, MovesTo
<1>3. CASE /\ runs[n].node = "replan"
           /\ runs' = [runs EXCEPT ![n] = [@ EXCEPT !.status = "failed", !.node = "end",
                                                    !.outcome = outcome, !.wrote = world]]
           /\ world' = Still /\ UNCHANGED <<scene, paused, memory, decisions, request>>
  BY <1>3, WriteMoves
<1>4. QED
  BY <1>2, <1>3 DEF Breaks

LEMMA UntimelyMoves ==
  ASSUME TypeOK, RunsInv, NEW n \in DOMAIN runs, RunTimeout(n) \/ RunFails(n)
  PROVE  Moves(n)
<1>1. PICK outcome \in Written : Breaks(n, outcome)
  BY DEF RunTimeout, RunFails, Written
<1>2. QED
  BY <1>1, BreaksMoves

LEMMA AgesMoves ==
  ASSUME TypeOK, RunsInv, NEW n \in DOMAIN runs, Ages(n)
  PROVE  Moves(n)
<1> DEFINE r == [runs[n] EXCEPT !.recent = FALSE]
<1>1. runs[n] \in Run /\ Good(runs[n], world, scene)
  BY RunIsGood
<1>2. r \in Run
  BY <1>1 DEF Run
<1>3. Good(r, world, scene)
  BY <1>1 DEF Good, Run
<1>4. /\ runs' = [runs EXCEPT ![n] = r]
      /\ UNCHANGED <<scene, world, paused, memory, decisions, request>>
  BY DEF Ages
<1> HIDE DEF r
<1>5. QED
  BY <1>2, <1>3, <1>4, MovesTo

(* A run that is good beside the world is good beside an empty plan.        *)
LEMMA GoodBesideStill ==
  ASSUME NEW r, NEW w, NEW s, Good(r, w, s)
  PROVE  Good(r, Still, s)
  BY DEF Good, Still

LEMMA MovesKeeps ==
  ASSUME Inv, NEW n \in DOMAIN runs, Moves(n)
  PROVE  Inv'
<1>1. PICK r \in Run : Good(r, world', scene) /\ runs' = [runs EXCEPT ![n] = r]
  BY DEF Moves
<1>2. /\ world' \in {world, Still} /\ memory' \in [Incident -> Answers]
      /\ UNCHANGED <<scene, paused, decisions, request>>
  BY DEF Moves
<1>3. runs \in Seq(Run) /\ DOMAIN runs = 1..Len(runs)
  BY LenProperties DEF Inv, TypeOK
<1>4. runs' \in Seq(Run) /\ Len(runs') = Len(runs) /\ DOMAIN runs' = DOMAIN runs
  BY <1>1, <1>3, ExceptSeq, LenProperties
<1>5. TypeOK'
  BY <1>2, <1>4, ApprovalsAssumption DEF Inv, TypeOK, Answers
<1>6. RunsInv'
  <2>1. SUFFICES ASSUME NEW m \in DOMAIN runs PROVE Good(runs'[m], world', scene')
    BY <1>4 DEF RunsInv
  <2>2. CASE m = n
    BY <1>1, <1>2, <2>2, <1>3
  <2>3. CASE m # n
    <3>1. Good(runs[m], world, scene)
      BY DEF Inv, RunsInv
    <3>2. Good(runs[m], world', scene)
      BY <1>2, <3>1, GoodBesideStill
    <3>3. runs'[m] = runs[m] /\ scene' = scene
      BY <1>1, <1>2, <2>3
    <3>4. QED
      BY <3>2, <3>3
  <2>4. QED
    BY <2>2, <2>3
<1>7. GateInv'
  BY <1>2 DEF Inv, GateInv
<1>8. QED
  BY <1>5, <1>6, <1>7 DEF Inv

(* A new run has no answer and has written nothing; what falls out of the   *)
(* list is only forgotten.                                                  *)
LEMMA StartRunKeeps ==
  ASSUME Inv, StartRun
  PROVE  Inv'
<1> DEFINE old == [m \in DOMAIN runs |->
                     IF Stays(m, Len(runs) + 1) THEN runs[m] ELSE [runs[m] EXCEPT !.kept = FALSE]]
           new == [status |-> "running", node |-> "guard_in", attempts |-> 0, proposal |-> Still,
                   answer |-> "none", outcome |-> "none", wrote |-> NoPlan,
                   recent |-> TRUE, kept |-> TRUE]
<1>1. runs \in Seq(Run) /\ Len(runs) \in Nat /\ DOMAIN runs = 1..Len(runs)
  BY LenProperties DEF Inv, TypeOK
<1>2. \A m \in DOMAIN runs : old[m] \in Run /\ Good(old[m], world, scene)
  <2>1. TAKE m \in DOMAIN runs
  <2>2. runs[m] \in Run /\ Good(runs[m], world, scene)
    BY RunIsGood DEF Inv
  <2>3. [runs[m] EXCEPT !.kept = FALSE] \in Run
    BY <2>2 DEF Run
  <2>4. Good([runs[m] EXCEPT !.kept = FALSE], world, scene)
    BY <2>2 DEF Good, Run
  <2>5. old[m] \in {runs[m], [runs[m] EXCEPT !.kept = FALSE]}
    OBVIOUS
  <2> HIDE DEF old
  <2>6. QED
    BY <2>2, <2>3, <2>4, <2>5
<1>3. new \in Run
  BY ApprovalsAssumption DEF Run, Outcome
<1>4. Good(new, world, scene)
  BY DEF Good
<1>5. old \in Seq(Run) /\ Len(old) = Len(runs)
  <2>1. old \in [1..Len(runs) -> Run]
    BY <1>1, <1>2
  <2> HIDE DEF old
  <2>2. QED
    BY <1>1, <2>1
<1>6. /\ runs' = Append(old, new) /\ Len(runs) + 1 <= MaxRuns
      /\ UNCHANGED <<scene, world, paused, memory, decisions, request>>
  BY DEF StartRun
<1> HIDE DEF old, new
<1>7. /\ runs' \in Seq(Run) /\ Len(runs') = Len(runs) + 1
      /\ \A m \in 1..Len(runs) : runs'[m] = old[m]
      /\ runs'[Len(runs) + 1] = new
  BY <1>3, <1>5, <1>6, AppendProperties
<1>8. DOMAIN runs' = 1..(Len(runs) + 1)
  BY <1>7, LenProperties
<1>9. TypeOK'
  BY <1>6, <1>7 DEF Inv, TypeOK
<1>10. RunsInv'
  <2>1. SUFFICES ASSUME NEW m \in 1..(Len(runs) + 1) PROVE Good(runs'[m], world, scene)
    BY <1>6, <1>8 DEF RunsInv
  <2>2. CASE m \in 1..Len(runs)
    BY <1>1, <1>2, <1>7, <2>2
  <2>3. CASE m = Len(runs) + 1
    BY <1>4, <1>7, <2>3
  <2>4. QED
    BY <1>1, <2>2, <2>3
<1>11. GateInv'
  BY <1>6 DEF Inv, GateInv
<1>12. QED
  BY <1>9, <1>10, <1>11 DEF Inv

(* Others change the world only where no run stands between its check and   *)
(* its write.                                                               *)
LEMMA WorldMovesKeeps ==
  ASSUME Inv, WorldMoves
  PROVE  Inv'
<1>1. /\ world' \in Plan /\ UNCHANGED <<scene, paused, runs, memory, decisions, request>>
      /\ "late_move" \in scene \/ \A n \in DOMAIN runs : ~Committing(n)
  BY DEF WorldMoves
<1>2. TypeOK'
  BY <1>1 DEF Inv, TypeOK
<1>3. RunsInv'
  <2>1. SUFFICES ASSUME NEW n \in DOMAIN runs PROVE Good(runs[n], world', scene)
    BY <1>1 DEF RunsInv
  <2>2. runs[n] \in Run /\ Good(runs[n], world, scene)
    BY RunIsGood DEF Inv
  <2>3. "late_move" \in scene \/ ~(runs[n].node = "replan" /\ runs[n].answer = "yes")
    BY <1>1, <2>2 DEF Committing, Good, Run
  <2>4. QED
    BY <2>2, <2>3 DEF Good
<1>4. GateInv'
  BY <1>1 DEF Inv, GateInv
<1>5. QED
  BY <1>2, <1>3, <1>4 DEF Inv

(* Forgetting an answer, and the emergency stop, touch no run.              *)
LEMMA ForgetsKeeps ==
  ASSUME Inv, NEW i \in Incident, Forgets(i)
  PROVE  Inv'
<1>1. UNCHANGED <<scene, world, paused, runs, decisions, request>>
  BY DEF Forgets
<1>2. memory' \in [Incident -> Answers]
  <2>1. memory \in [Incident -> Answers]
    BY DEF Inv, TypeOK, Answers
  <2>2. QED
    BY <2>1 DEF Forgets, Answers
<1>3. TypeOK'
  BY <1>1, <1>2 DEF Inv, TypeOK, Answers
<1>4. RunsInv' /\ GateInv'
  BY <1>1 DEF Inv, RunsInv, GateInv
<1>5. QED
  BY <1>3, <1>4 DEF Inv

LEMMA PauseKeeps ==
  ASSUME Inv, Pause
  PROVE  Inv'
<1>1. UNCHANGED <<scene, world, runs, memory, decisions, request>> /\ paused' \in BOOLEAN
  BY DEF Pause
<1>2. TypeOK'
  BY <1>1 DEF Inv, TypeOK
<1>3. RunsInv' /\ GateInv'
  BY <1>1 DEF Inv, RunsInv, GateInv
<1>4. QED
  BY <1>2, <1>3 DEF Inv

----------------------------------------------------------------------------
LEMMA DecisionIsSound ==
  ASSUME Inv, NEW d \in DOMAIN decisions
  PROVE  decisions[d] \in Decision /\ Sound(decisions[d], scene)
<1>1. decisions \in Seq(Decision) /\ d \in 1..Len(decisions)
  BY LenProperties DEF Inv, TypeOK
<1>2. decisions[d] \in Decision
  BY <1>1, ElementOfSeq
<1>3. QED
  BY <1>2 DEF Inv, GateInv

(* What carrying out and recording do: one decision changes, soundly, and   *)
(* an approval is never taken back; a request that is to carry out next is  *)
(* about an approved decision.                                              *)
LEMMA DecisionMoves ==
  ASSUME Inv, NEW d \in DOMAIN decisions, NEW x \in Decision, Sound(x, scene),
         decisions[d].approved => x.approved,
         decisions' = [decisions EXCEPT ![d] = x],
         request' \in [Officer -> Request],
         \A o \in Officer : request'[o].pc # "idle" => request'[o].of \in DOMAIN decisions,
         \A o \in Officer : request'[o].pc = "recorded" =>
           IF request'[o].of = d THEN x.approved ELSE decisions[request'[o].of].approved,
         UNCHANGED <<scene, world, paused, runs, memory>>
  PROVE  Inv'
<1>1. decisions \in Seq(Decision) /\ DOMAIN decisions = 1..Len(decisions)
  BY LenProperties DEF Inv, TypeOK
<1>2. decisions' \in Seq(Decision) /\ Len(decisions') = Len(decisions) /\ DOMAIN decisions' = DOMAIN decisions
  BY <1>1, ExceptSeq, LenProperties
<1>3. TypeOK'
  BY <1>2 DEF Inv, TypeOK
<1>4. RunsInv'
  BY DEF Inv, RunsInv
<1>5. GateInv'
  <2>1. ASSUME NEW e \in DOMAIN decisions PROVE Sound(decisions'[e], scene)
    <3>1. Sound(decisions[e], scene)
      BY DecisionIsSound
    <3>2. decisions'[e] \in {decisions[e], x}
      BY <1>1
    <3>3. QED
      BY <3>1, <3>2
  <2>2. ASSUME NEW o \in Officer, request'[o].pc = "recorded"
        PROVE  decisions'[request'[o].of].approved
    <3>1. request'[o].of \in DOMAIN decisions
      BY <2>2
    <3>2. CASE request'[o].of = d
      BY <2>2, <3>2
    <3>3. CASE request'[o].of # d
      BY <2>2, <3>1, <3>3
    <3>4. QED
      BY <3>2, <3>3
  <2>3. QED
    BY <1>2, <2>1, <2>2 DEF GateInv
<1>6. QED
  BY <1>3, <1>4, <1>5 DEF Inv

LEMMA DecisionMovesAlone ==
  ASSUME Inv, NEW d \in DOMAIN decisions, NEW x \in Decision, Sound(x, scene),
         x.approved = decisions[d].approved,
         decisions' = [decisions EXCEPT ![d] = x],
         UNCHANGED <<scene, world, paused, runs, memory, request>>
  PROVE  Inv'
<1>1. request' \in [Officer -> Request]
  BY DEF Inv, TypeOK
<1>2. \A o \in Officer : request'[o].pc # "idle" => request'[o].of \in DOMAIN decisions
  BY DEF Inv, TypeOK
<1>3. \A o \in Officer : request'[o].pc = "recorded" => decisions[request'[o].of].approved
  BY DEF Inv, GateInv
<1>4. \A o \in Officer : request'[o].pc = "recorded" =>
        IF request'[o].of = d THEN x.approved ELSE decisions[request'[o].of].approved
  BY <1>3
<1>5. QED
  BY <1>1, <1>2, <1>4, DecisionMoves

(* The gate issues what is within the delegation and sure, and only that is *)
(* left for the proposer to carry out.                                      *)
LEMMA ProposeKeeps ==
  ASSUME Inv, NEW within \in BOOLEAN, NEW sure \in BOOLEAN, Propose(within, sure)
  PROVE  Inv'
<1> DEFINE issued == AutoIssued(within, sure)
           new == [within |-> within, sure |-> sure, issued |-> issued,
                   status |-> IF issued THEN "auto_issued" ELSE "awaiting_approval",
                   due |-> issued, approved |-> FALSE, carried |-> 0]
<1>1. issued \in BOOLEAN /\ (issued => within /\ sure)
  BY DEF AutoIssued, Inv, TypeOK
<1>2. /\ decisions' = Append(decisions, new) /\ Len(decisions) < MaxDecisions
      /\ UNCHANGED <<scene, world, paused, runs, memory, request>>
  BY DEF Propose
<1> HIDE DEF issued
<1>3. new \in Decision
  BY <1>1 DEF Decision
<1>4. Sound(new, scene)
  BY <1>1 DEF Sound
<1> HIDE DEF new
<1>5. decisions \in Seq(Decision) /\ Len(decisions) \in Nat /\ DOMAIN decisions = 1..Len(decisions)
  BY LenProperties DEF Inv, TypeOK
<1>6. /\ decisions' \in Seq(Decision) /\ Len(decisions') = Len(decisions) + 1
      /\ \A e \in 1..Len(decisions) : decisions'[e] = decisions[e]
      /\ decisions'[Len(decisions) + 1] = new
  BY <1>2, <1>3, <1>5, AppendProperties
<1>7. DOMAIN decisions' = 1..(Len(decisions) + 1)
  BY <1>6, LenProperties
<1>8. TypeOK'
  <2>1. Len(decisions') <= MaxDecisions
    BY <1>2, <1>5, <1>6, ApprovalsAssumption
  <2>2. DOMAIN decisions \subseteq DOMAIN decisions'
    BY <1>5, <1>7
  <2>3. QED
    BY <1>2, <1>6, <2>1, <2>2 DEF Inv, TypeOK
<1>9. RunsInv'
  BY <1>2 DEF Inv, RunsInv
<1>10. GateInv'
  <2>1. ASSUME NEW e \in 1..(Len(decisions) + 1) PROVE Sound(decisions'[e], scene)
    <3>1. CASE e = Len(decisions) + 1
      BY <1>4, <1>6, <3>1
    <3>2. CASE e \in DOMAIN decisions
      BY <1>5, <1>6, <3>2, DecisionIsSound
    <3>3. QED
      BY <1>5, <3>1, <3>2
  <2>2. ASSUME NEW o \in Officer, request[o].pc = "recorded"
        PROVE  decisions'[request[o].of].approved
    BY <1>5, <1>6, <2>2 DEF Inv, TypeOK, GateInv
  <2>3. QED
    BY <1>2, <1>7, <2>1, <2>2 DEF GateInv
<1>11. QED
  BY <1>8, <1>9, <1>10 DEF Inv

LEMMA CarryOutIssuedKeeps ==
  ASSUME Inv, NEW d \in DOMAIN decisions, CarryOutIssued(d)
  PROVE  Inv'
<1> DEFINE x == [decisions[d] EXCEPT !.due = FALSE, !.carried = 1]
<1>1. decisions[d] \in Decision /\ Sound(decisions[d], scene) /\ decisions[d].due
  BY DecisionIsSound DEF CarryOutIssued
<1>2. x \in Decision
  <2>1. [decisions[d] EXCEPT !.due = FALSE] \in Decision
    BY <1>1 DEF Decision
  <2>2. ASSUME NEW e \in Decision PROVE [e EXCEPT !.carried = 1] \in Decision
    BY DEF Decision
  <2>3. x = [[decisions[d] EXCEPT !.due = FALSE] EXCEPT !.carried = 1]
    BY <1>1 DEF Decision
  <2> HIDE DEF x
  <2>4. QED
    BY <2>1, <2>2, <2>3
<1>3. Sound(x, scene) /\ x.approved = decisions[d].approved
  BY <1>1 DEF Sound, Decision
<1>4. decisions' = [decisions EXCEPT ![d] = x] /\ UNCHANGED <<scene, world, paused, runs, memory, request>>
  BY DEF CarryOutIssued
<1> HIDE DEF x
<1>5. QED
  BY <1>2, <1>3, <1>4, DecisionMovesAlone

(* The execute endpoint is the one way round the gate; the invariant speaks *)
(* of behaviours in which nobody calls it.                                  *)
LEMMA ExecuteKeeps ==
  ASSUME Inv, NEW d \in DOMAIN decisions, Execute(d)
  PROVE  Inv'
<1> DEFINE x == [decisions[d] EXCEPT !.carried = 1]
<1>1. decisions[d] \in Decision /\ Sound(decisions[d], scene) /\ "execute" \in scene
  BY DecisionIsSound DEF Execute
<1>2. x \in Decision
  BY <1>1 DEF Decision
<1>3. Sound(x, scene) /\ x.approved = decisions[d].approved
  BY <1>1 DEF Sound, Decision
<1>4. decisions' = [decisions EXCEPT ![d] = x] /\ UNCHANGED <<scene, world, paused, runs, memory, request>>
  BY DEF Execute
<1> HIDE DEF x
<1>5. QED
  BY <1>2, <1>3, <1>4, DecisionMovesAlone

LEMMA DecideKeeps ==
  ASSUME Inv, NEW o \in Officer, NEW d \in DOMAIN decisions, NEW act \in {"approve", "reject"},
         Decide(o, d, act)
  PROVE  Inv'
<1> DEFINE r == [pc |-> "seen", of |-> d, act |-> act]
<1>1. request' = [request EXCEPT ![o] = r] /\ UNCHANGED <<scene, world, paused, runs, memory, decisions>>
  BY DEF Decide
<1>2. decisions \in Seq(Decision) /\ d \in 1..Len(decisions) /\ Len(decisions) \in Nat
  BY LenProperties DEF Inv, TypeOK
<1>3. d \in 0..MaxDecisions
  BY <1>2, ApprovalsAssumption DEF Inv, TypeOK
<1>4. r \in Request /\ r.pc = "seen" /\ r.of = d
  BY <1>3 DEF Request
<1> HIDE DEF r
<1>5. request' \in [Officer -> Request]
  BY <1>1, <1>4 DEF Inv, TypeOK
<1>6. \A p \in Officer : request'[p] \in {request[p], r}
  BY <1>1 DEF Inv, TypeOK
<1>7. TypeOK'
  BY <1>1, <1>4, <1>5, <1>6 DEF Inv, TypeOK
<1>8. RunsInv'
  BY <1>1 DEF Inv, RunsInv
<1>9. GateInv'
  BY <1>1, <1>4, <1>6 DEF Inv, GateInv
<1>10. QED
  BY <1>7, <1>8, <1>9 DEF Inv

(* Only a yes goes on to be carried out, and it is on record before it is.  *)
LEMMA RecordDecisionKeeps ==
  ASSUME Inv, NEW o \in Officer, RecordDecision(o)
  PROVE  Inv'
<1> DEFINE d == request[o].of
           yes == request[o].act = "approve"
           x == [decisions[d] EXCEPT !.status = IF yes THEN "approved" ELSE "rejected",
                                     !.approved = decisions[d].approved \/ yes]
           r == [request[o] EXCEPT !.pc = IF yes THEN "recorded" ELSE "idle"]
<1>1. request[o] \in Request /\ d \in DOMAIN decisions
  BY DEF RecordDecision, Inv, TypeOK
<1>2. decisions[d] \in Decision /\ Sound(decisions[d], scene)
  BY <1>1, DecisionIsSound
<1>3. /\ decisions' = [decisions EXCEPT ![d] = x] /\ request' = [request EXCEPT ![o] = r]
      /\ UNCHANGED <<scene, world, paused, runs, memory>>
  BY DEF RecordDecision
<1>4. x \in Decision
  BY <1>2 DEF Decision
<1>5. /\ Sound(x, scene) /\ (decisions[d].approved => x.approved) /\ (yes => x.approved)
  BY <1>2 DEF Sound, Decision
<1>6. r \in Request /\ r.of = d /\ (r.pc = "recorded" => yes)
  BY <1>1 DEF Request
<1> HIDE DEF x, r, yes, d
<1>7. request' \in [Officer -> Request]
  BY <1>3, <1>6 DEF Inv, TypeOK
<1>8. \A p \in Officer : request'[p] = IF p = o THEN r ELSE request[p]
  BY <1>3 DEF Inv, TypeOK
<1>9. \A p \in Officer : request'[p].pc # "idle" => request'[p].of \in DOMAIN decisions
  BY <1>1, <1>6, <1>8 DEF Inv, TypeOK
<1>10. ASSUME NEW p \in Officer, request'[p].pc = "recorded"
       PROVE  IF request'[p].of = d THEN x.approved ELSE decisions[request'[p].of].approved
  <2>1. CASE p = o
    BY <1>5, <1>6, <1>8, <1>10, <2>1
  <2>2. CASE p # o
    <3>1. request'[p] = request[p]
      BY <1>8, <2>2
    <3>2. decisions[request[p].of].approved
      BY <1>10, <3>1 DEF Inv, GateInv
    <3>3. QED
      BY <1>5, <3>1, <3>2
  <2>3. QED
    BY <2>1, <2>2
<1>11. QED
  BY <1>1, <1>3, <1>4, <1>5, <1>7, <1>9, <1>10, DecisionMoves

LEMMA ApplyDecisionKeeps ==
  ASSUME Inv, NEW o \in Officer, ApplyDecision(o)
  PROVE  Inv'
<1> DEFINE d == request[o].of
           x == [decisions[d] EXCEPT !.carried = 1]
           r == [request[o] EXCEPT !.pc = "idle"]
<1>1. request[o] \in Request /\ d \in DOMAIN decisions /\ decisions[d].approved
  BY DEF ApplyDecision, Inv, TypeOK, GateInv
<1>2. decisions[d] \in Decision /\ Sound(decisions[d], scene)
  BY <1>1, DecisionIsSound
<1>3. /\ decisions' = [decisions EXCEPT ![d] = x] /\ request' = [request EXCEPT ![o] = r]
      /\ UNCHANGED <<scene, world, paused, runs, memory>>
  BY DEF ApplyDecision
<1>4. x \in Decision
  BY <1>2 DEF Decision
<1>5. Sound(x, scene) /\ x.approved
  BY <1>1, <1>2 DEF Sound, Decision
<1>6. r \in Request /\ r.pc = "idle"
  BY <1>1 DEF Request
<1> HIDE DEF x, r, d
<1>7. request' \in [Officer -> Request]
  BY <1>3, <1>6 DEF Inv, TypeOK
<1>8. \A p \in Officer : request'[p].pc # "idle" => request'[p] = request[p]
  BY <1>3, <1>6 DEF Inv, TypeOK
<1>9. \A p \in Officer : request'[p].pc # "idle" => request'[p].of \in DOMAIN decisions
  BY <1>8 DEF Inv, TypeOK
<1>10. \A p \in Officer : request'[p].pc = "recorded" => decisions[request'[p].of].approved
  BY <1>8 DEF Inv, GateInv
<1>11. QED
  BY <1>1, <1>3, <1>4, <1>5, <1>7, <1>9, <1>10, DecisionMoves

----------------------------------------------------------------------------
LEMMA InitIsGood == Init => Inv
<1> SUFFICES ASSUME Init PROVE Inv
  OBVIOUS
<1>1. Len(runs) = 0 /\ DOMAIN runs = {} /\ Len(decisions) = 0 /\ DOMAIN decisions = {}
  BY EmptySeq DEF Init
<1>2. runs \in Seq(Run) /\ decisions \in Seq(Decision)
  BY EmptySeq DEF Init
<1>3. request \in [Officer -> Request]
  BY ApprovalsAssumption DEF Init, Request
<1>4. TypeOK
  <2>1. scene \in Scenarios /\ world \in Plan /\ paused \in BOOLEAN
    BY DEF Init
  <2>2. memory \in [Incident -> {"none", "yes", "no", "silence"}]
    BY DEF Init
  <2>3. Len(runs) <= MaxRuns /\ Len(decisions) <= MaxDecisions
    BY <1>1, ApprovalsAssumption
  <2>4. \A o \in Officer : request[o].pc = "idle"
    BY DEF Init
  <2>5. QED
    BY <1>2, <1>3, <2>1, <2>2, <2>3, <2>4 DEF TypeOK
<1>5. RunsInv
  BY <1>1 DEF RunsInv
<1>6. GateInv
  <2>1. \A o \in Officer : request[o].pc = "idle"
    BY DEF Init
  <2>2. QED
    BY <1>1, <2>1 DEF GateInv
<1>7. QED
  BY <1>4, <1>5, <1>6 DEF Inv

LEMMA RunStepKeeps ==
  ASSUME Inv, NEW n \in DOMAIN runs,
         Drive(n) \/ OfficerAnswers(n) \/ NobodyAnswers(n) \/ RunTimeout(n) \/ RunFails(n) \/ Ages(n)
  PROVE  Inv'
<1> USE DEF Inv
<1>1. CASE GuardIn(n)
  BY <1>1, GuardInMoves, MovesKeeps
<1>2. CASE Sense(n)
  BY <1>2, SenseMoves, MovesKeeps
<1>3. CASE Optimise(n)
  BY <1>3, OptimiseMoves, MovesKeeps
<1>4. CASE PolicyGate(n)
  BY <1>4, PolicyGateMoves, MovesKeeps
<1>5. CASE HumanApproval(n)
  BY <1>5, HumanApprovalMoves, MovesKeeps
<1>6. CASE Dispatch(n)
  BY <1>6, DispatchMoves, MovesKeeps
<1>7. CASE Replan(n)
  BY <1>7, ReplanMoves, MovesKeeps
<1>8. CASE OfficerAnswers(n) \/ NobodyAnswers(n)
  BY <1>8, ResumeMoves, MovesKeeps DEF OfficerAnswers, NobodyAnswers, Answers
<1>9. CASE RunTimeout(n) \/ RunFails(n)
  BY <1>9, UntimelyMoves, MovesKeeps
<1>10. CASE Ages(n)
  BY <1>10, AgesMoves, MovesKeeps
<1>11. QED
  BY <1>1, <1>2, <1>3, <1>4, <1>5, <1>6, <1>7, <1>8, <1>9, <1>10 DEF Drive

LEMMA NextKeeps == Inv /\ [Next]_vars => Inv'
<1> SUFFICES ASSUME Inv, [Next]_vars PROVE Inv'
  OBVIOUS
<1>1. CASE StartRun
  BY <1>1, StartRunKeeps
<1>2. CASE \E n \in DOMAIN runs :
             Drive(n) \/ OfficerAnswers(n) \/ NobodyAnswers(n) \/ RunTimeout(n) \/ RunFails(n) \/ Ages(n)
  BY <1>2, RunStepKeeps
<1>3. CASE \E i \in Incident : Forgets(i)
  BY <1>3, ForgetsKeeps
<1>4. CASE WorldMoves
  BY <1>4, WorldMovesKeeps
<1>5. CASE Pause
  BY <1>5, PauseKeeps
<1>6. CASE \E within, sure \in BOOLEAN : Propose(within, sure)
  BY <1>6, ProposeKeeps
<1>7. CASE \E d \in DOMAIN decisions :
             CarryOutIssued(d) \/ Execute(d)
               \/ \E o \in Officer, act \in {"approve", "reject"} : Decide(o, d, act)
  BY <1>7, CarryOutIssuedKeeps, ExecuteKeeps, DecideKeeps
<1>8. CASE \E o \in Officer : RecordDecision(o) \/ ApplyDecision(o)
  BY <1>8, RecordDecisionKeeps, ApplyDecisionKeeps
<1>9. CASE UNCHANGED vars
  <2>1. UNCHANGED <<scene, world, paused, runs, memory, decisions, request>>
    BY <1>9 DEF vars
  <2>2. TypeOK' /\ RunsInv'
    BY <2>1 DEF Inv, TypeOK, RunsInv
  <2>3. GateInv'
    BY <2>1 DEF Inv, GateInv
  <2>4. QED
    BY <2>2, <2>3 DEF Inv
<1>10. QED
  BY <1>1, <1>2, <1>3, <1>4, <1>5, <1>6, <1>7, <1>8, <1>9 DEF Next

LEMMA AlwaysInv == Spec => []Inv
<1>1. QED
  BY InitIsGood, NextKeeps, PTL DEF Spec

----------------------------------------------------------------------------
(* The runs, the gate's memory, the decisions and the officers' requests    *)
(* keep their shapes, and a request in flight is about a decision that is   *)
(* in the table.                                                            *)
THEOREM TypeCorrect == Spec => []TypeOK
<1>1. Inv => TypeOK
  BY DEF Inv
<1>2. QED
  BY <1>1, AlwaysInv, PTL

(* graph.py, policy_gate to dispatch: where the proposal needed an officer, *)
(* what a run wrote was said yes to, and a run that ended in any way but    *)
(* dispatching, or timing out in the write, has written nothing, however    *)
(* many runs overlap and whoever answers.                                   *)
THEOREM WrittenIsAuthorisedSafe == Spec => []WrittenIsAuthorised
<1>1. Inv => WrittenIsAuthorised
  BY DEF Inv, RunsInv, Good, WrittenIsAuthorised
<1>2. QED
  BY <1>1, AlwaysInv, PTL

(* graph.py, dispatch: an approved run moves nobody who was not in the plan *)
(* the officer saw, provided nobody moves the world between the second      *)
(* preview and the solve that is written.                                   *)
THEOREM ApprovedIsWrittenSafe == Spec => []ApprovedIsWritten
<1>1. Inv => ApprovedIsWritten
  BY DEF Inv, RunsInv, Good, ApprovedIsWritten
<1>2. QED
  BY <1>1, AlwaysInv, PTL

(* gate.propose, demo_decide and apply_decision: without the execute        *)
(* endpoint, nothing beyond the delegation is carried out before an officer *)
(* has approved it, whichever officers answer the same decision at once.    *)
THEOREM NothingActsAloneSafe == Spec => []NothingActsAlone
<1>1. Inv => NothingActsAlone
  BY DEF Inv, GateInv, Sound, ActedAlone, NothingActsAlone
<1>2. QED
  BY <1>1, AlwaysInv, PTL
=============================================================================
