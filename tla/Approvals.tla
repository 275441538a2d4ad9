----------------------------- MODULE Approvals -----------------------------
(***************************************************************************)
(* What automation may do without an officer, and how it asks one.         *)
(*                                                                         *)
(* The agent graph (app/agents/graph.py): a run guards its input, previews *)
(* a plan, validates it, passes the policy gate, waits for an officer when *)
(* the plan is beyond its delegation, checks for drift and writes.  Runs   *)
(* overlap: the router starts the next one while others wait, and an       *)
(* officer may start one by hand.                                          *)
(*                                                                         *)
(* The decision gate (app/agents/policy.py and gate.py): a proposed action *)
(* is issued or waits for approval; approvals come from the console        *)
(* (api/v1/demo.py demo_decide) and are carried out by copilot/execute.py. *)
(*                                                                         *)
(* Both ask autonomy.paused() first.  The world is represented by the plan *)
(* a solve would return now; what other actors do to it is one step.       *)
(***************************************************************************)
EXTENDS Integers, Sequences, FiniteSets

CONSTANTS
  Plan,           \* what a solve may return: records of PlanType
  Incident, Unit,
  Severity,       \* incident -> 1..5
  Threshold,      \* settings.agent_graph_approval_severity
  MaxAttempts,    \* graph.MAX_ATTEMPTS
  MaxPerMinute,   \* graph.MAX_RUNS_PER_MIN
  KeepRuns,       \* how many runs graph._ORDER lists
  MaxRuns,        \* bound: runs started
  Officer,        \* officers with a request in flight
  MaxDecisions,   \* bound: decisions proposed
  Scenarios       \* the sets of activities this instance looks at

Activities == {"cycle", "late_move", "solver_error", "run_timeout", "run_fails",
               "propose", "decide", "execute", "pause"}

STRAND_SEVERITY == 3
PlanType == [moves : SUBSET Unit, pulls : SUBSET Incident, strands : SUBSET Incident,
             large : BOOLEAN]
Still == [moves |-> {}, pulls |-> {}, strands |-> {}, large |-> FALSE]
NoPlan == [none |-> TRUE]

ASSUME ApprovalsAssumption ==
  /\ Plan \subseteq PlanType /\ Still \in Plan
  /\ \A p \in Plan : p.strands \subseteq p.pulls
  /\ Severity \in [Incident -> 1..5] /\ Threshold \in 1..5
  /\ MaxAttempts \in Nat \ {0} /\ MaxPerMinute \in Nat \ {0} /\ KeepRuns \in Nat \ {0}
  /\ MaxRuns \in Nat /\ MaxDecisions \in Nat
  /\ Scenarios \subseteq SUBSET Activities

Outcome == {"none", "held", "failed", "unchanged", "rejected", "dispatched", "timeout", "blocked"}
Run == [status : {"running", "waiting", "done", "failed"},
        node : {"guard_in", "sense", "optimise", "policy_gate", "human_approval", "dispatch", "replan", "end"},
        attempts : 0..MaxAttempts - 1, proposal : Plan,
        answer : {"none", "yes", "no", "silence"}, outcome : Outcome,
        wrote : Plan \cup {NoPlan},
        recent : BOOLEAN,   \* started within the last minute
        kept : BOOLEAN]     \* still in RUNS
Decision == [within : BOOLEAN, sure : BOOLEAN, issued : BOOLEAN,
             status : {"auto_issued", "awaiting_approval", "approved", "rejected"},
             due : BOOLEAN,       \* issued and still to be carried out by its proposer
             approved : BOOLEAN,  \* history: an officer has approved it
             carried : 0..1]      \* history: it was carried out
Request == [pc : {"idle", "seen", "recorded"}, of : 0..MaxDecisions, act : {"approve", "reject"}]

VARIABLES
  scene,      \* what happens in this behaviour; never changes
  world,      \* the plan a solve would return now
  paused,     \* autonomy.state.paused
  runs,       \* RUNS, by start
  memory,     \* the gate's latest memory about each incident, while it lasts
  decisions,  \* the decisions table
  request     \* the demo_decide request each officer has in flight

vars == <<scene, world, paused, runs, memory, decisions, request>>

Init ==
  /\ scene \in Scenarios
  /\ world \in Plan
  /\ paused = FALSE
  /\ runs = <<>>
  /\ memory = [i \in Incident |-> "none"]
  /\ decisions = <<>>
  /\ request = [o \in Officer |-> [pc |-> "idle", of |-> 0, act |-> "reject"]]

----------------------------------------------------------------------------
At(n, node) == runs[n].status = "running" /\ runs[n].node = node
Goes(n, node) == runs' = [runs EXCEPT ![n] = [@ EXCEPT !.node = node]]
Ends(n, outcome) ==
  runs' = [runs EXCEPT ![n] = [@ EXCEPT !.status = "done", !.node = "end", !.outcome = outcome]]

(* The plan pulls a unit off a severe incident, leaves one of severity 3 or *)
(* more with no unit, or check_plan asked for an officer.                   *)
NeedsOfficer(p) ==
  \/ \E i \in p.pulls : Severity[i] >= Threshold
  \/ \E i \in p.strands : Severity[i] >= STRAND_SEVERITY
  \/ p.large

BugStays(m, n) == m # n - KeepRuns

(* run_cycle: RUNS gets the run; the one that falls out of the list of the  *)
(* last KeepRuns is dropped, unless it waits for an officer.                *)
Stays(m, n) == m # n - KeepRuns \/ runs[m].status = "waiting"
StartRun ==
  LET n == Len(runs) + 1 IN
  /\ "cycle" \in scene /\ ~paused /\ n <= MaxRuns
  /\ runs' = Append(
       [m \in DOMAIN runs |->
          IF Stays(m, n) THEN runs[m] ELSE [runs[m] EXCEPT !.kept = FALSE]],
       [status |-> "running", node |-> "guard_in", attempts |-> 0, proposal |-> Still,
        answer |-> "none", outcome |-> "none", wrote |-> NoPlan,
        recent |-> TRUE, kept |-> TRUE])
  /\ UNCHANGED <<scene, world, paused, memory, decisions, request>>

(* guard_in: the kill switch, then the run storm.                           *)
GuardIn(n) ==
  LET others == {m \in DOMAIN runs : m # n /\ runs[m].kept /\ runs[m].recent} IN
  /\ At(n, "guard_in")
  /\ IF paused \/ Cardinality(others) >= MaxPerMinute THEN Ends(n, "held")
     ELSE Goes(n, "sense")
  /\ UNCHANGED <<scene, world, paused, memory, decisions, request>>

(* triage, command, sense, assess and the domain planners: they read.       *)
Sense(n) ==
  /\ At(n, "sense") /\ Goes(n, "optimise")
  /\ UNCHANGED <<scene, world, paused, memory, decisions, request>>

(* optimise and validate: a preview, tried again when the solver fails.     *)
Optimise(n) ==
  /\ At(n, "optimise")
  /\ \/ runs' = [runs EXCEPT ![n] = [@ EXCEPT !.node = "policy_gate", !.proposal = world]]
     \/ /\ "solver_error" \in scene
        /\ IF runs[n].attempts + 1 < MaxAttempts
           THEN runs' = [runs EXCEPT ![n] = [@ EXCEPT !.attempts = runs[n].attempts + 1]]
           ELSE Ends(n, "failed")
  /\ UNCHANGED <<scene, world, paused, memory, decisions, request>>

(* policy_gate.  An answer is remembered for half an hour; the time-out of  *)
(* an approval is remembered the way a rejection is.                        *)
Rejected(i) == memory[i] \in {"no", "silence"}

PolicyGate(n) ==
  LET p == runs[n].proposal IN
  /\ At(n, "policy_gate")
  /\ \/ paused /\ Ends(n, "held")
     \/ ~paused /\ p.moves = {} /\ Ends(n, "unchanged")
     \/ ~paused /\ p.moves # {} /\ (\E i \in p.pulls : Rejected(i)) /\ Ends(n, "held")
     \/ /\ ~paused /\ p.moves # {} /\ \A i \in p.pulls : ~Rejected(i)
        /\ IF NeedsOfficer(p)
           THEN runs' = [runs EXCEPT ![n] = [@ EXCEPT !.status = "waiting", !.node = "human_approval"]]
           ELSE Goes(n, "dispatch")
  /\ UNCHANGED <<scene, world, paused, memory, decisions, request>>

(* resume: whoever answers first finds the run waiting.                     *)
BugResume(n, a) ==
  /\ runs[n].kept /\ runs[n].status # "running"
  /\ runs' = [runs EXCEPT ![n] = [@ EXCEPT !.status = "running", !.node = "human_approval", !.answer = a]]
  /\ UNCHANGED <<scene, world, paused, memory, decisions, request>>

Resume(n, a) ==
  /\ runs[n].kept /\ runs[n].status = "waiting"
  /\ runs' = [runs EXCEPT ![n] = [@ EXCEPT !.status = "running", !.answer = a]]
  /\ UNCHANGED <<scene, world, paused, memory, decisions, request>>

OfficerAnswers(n) == Resume(n, "yes") \/ Resume(n, "no")
NobodyAnswers(n) == Resume(n, "silence")

(* human_approval, resumed: remember the answer, then dispatch or reject.   *)
HumanApproval(n) ==
  /\ At(n, "human_approval")
  /\ memory' = [i \in Incident |->
       IF i \in runs[n].proposal.pulls THEN runs[n].answer ELSE memory[i]]
  /\ IF runs[n].answer = "yes" THEN Goes(n, "dispatch") ELSE Ends(n, "rejected")
  /\ UNCHANGED <<scene, world, paused, decisions, request>>

(* dispatch, up to the write: an approved plan is previewed again, and not  *)
(* written if it would move a unit the officer did not see.                 *)
BugDispatch(n) ==
  /\ At(n, "dispatch")
  /\ IF paused THEN Ends(n, "held") ELSE Goes(n, "replan")
  /\ UNCHANGED <<scene, world, paused, memory, decisions, request>>

Dispatch(n) ==
  LET approved == runs[n].answer = "yes"
      drift == ~(world.moves \subseteq runs[n].proposal.moves) IN
  /\ At(n, "dispatch")
  /\ \/ (paused \/ (approved /\ drift)) /\ Ends(n, "held")
     \/ "solver_error" \in scene /\ ~paused /\ approved /\ Ends(n, "held")
     \/ ~paused /\ (approved => ~drift) /\ Goes(n, "replan")
  /\ UNCHANGED <<scene, world, paused, memory, decisions, request>>

(* dispatch, the write: replan() solves once more and writes what it finds. *)
Replan(n) ==
  /\ At(n, "replan")
  /\ runs' = [runs EXCEPT ![n] = [@ EXCEPT !.status = "done", !.node = "end",
                                            !.outcome = "dispatched", !.wrote = world]]
  /\ world' = Still
  /\ UNCHANGED <<scene, paused, memory, decisions, request>>

(* _drive: the run ends where it is, before the write or just after it.     *)
Breaks(n, outcome) ==
  /\ runs[n].status = "running"
  /\ \/ /\ runs' = [runs EXCEPT ![n] = [@ EXCEPT !.status = "failed", !.node = "end",
                                                   !.outcome = outcome]]
        /\ UNCHANGED world
     \/ /\ runs[n].node = "replan"
        /\ runs' = [runs EXCEPT ![n] = [@ EXCEPT !.status = "failed", !.node = "end",
                                                   !.outcome = outcome, !.wrote = world]]
        /\ world' = Still
  /\ UNCHANGED <<scene, paused, memory, decisions, request>>

(* RUN_TIMEOUT_S is over; a call raises, or a node oversteps its contract.  *)
RunTimeout(n) == "run_timeout" \in scene /\ Breaks(n, "timeout")
RunFails(n) == "run_fails" \in scene /\ \E outcome \in {"none", "blocked"} : Breaks(n, outcome)

(* A minute, or half an hour, passes.                                       *)
Ages(n) ==
  /\ runs[n].recent /\ runs' = [runs EXCEPT ![n] = [@ EXCEPT !.recent = FALSE]]
  /\ UNCHANGED <<scene, world, paused, memory, decisions, request>>
Forgets(i) ==
  /\ memory[i] # "none" /\ memory' = [memory EXCEPT ![i] = "none"]
  /\ UNCHANGED <<scene, world, paused, runs, decisions, request>>

(* Everyone else changes the world.  Without "late_move", not between what  *)
(* a run checked and what it writes: the preview of an approved plan, the   *)
(* proposal of one that needs nobody.                                       *)
Committing(n) ==
  /\ runs[n].status = "running"
  /\ IF runs[n].answer = "yes" THEN runs[n].node = "replan"
     ELSE runs[n].node \in {"policy_gate", "dispatch", "replan"}
WorldMoves ==
  /\ "cycle" \in scene
  /\ "late_move" \in scene \/ \A n \in DOMAIN runs : ~Committing(n)
  /\ world' \in Plan \ {world}
  /\ UNCHANGED <<scene, paused, runs, memory, decisions, request>>

Pause ==
  /\ "pause" \in scene /\ paused' = ~paused
  /\ UNCHANGED <<scene, world, runs, memory, decisions, request>>

----------------------------------------------------------------------------
(* policy.gate: delegation and confidence, both, and never while paused.    *)
BugAutoIssued(within, sure) == (within \/ sure) /\ ~paused
AutoIssued(within, sure) == within /\ sure /\ ~paused

(* gate.propose; `due` is what apply_actions carries out itself.            *)
Propose(within, sure) ==
  LET issued == AutoIssued(within, sure) IN
  /\ "propose" \in scene /\ Len(decisions) < MaxDecisions
  /\ decisions' = Append(decisions,
       [within |-> within, sure |-> sure, issued |-> issued,
        status |-> IF issued THEN "auto_issued" ELSE "awaiting_approval",
        due |-> issued, approved |-> FALSE, carried |-> 0])
  /\ UNCHANGED <<scene, world, paused, runs, memory, request>>

CarryOutIssued(d) ==
  /\ decisions[d].due
  /\ decisions' = [decisions EXCEPT ![d] = [@ EXCEPT !.due = FALSE, !.carried = 1]]
  /\ UNCHANGED <<scene, world, paused, runs, memory, request>>

(* demo_decide: read the status; write the new one; carry it out.           *)
Decide(o, d, act) ==
  /\ "decide" \in scene /\ request[o].pc = "idle"
  /\ decisions[d].status \in {"awaiting_approval", "auto_issued"}
  /\ request' = [request EXCEPT ![o] = [pc |-> "seen", of |-> d, act |-> act]]
  /\ UNCHANGED <<scene, world, paused, runs, memory, decisions>>

RecordDecision(o) ==
  LET d == request[o].of  yes == request[o].act = "approve" IN
  /\ request[o].pc = "seen"
  /\ decisions' = [decisions EXCEPT ![d] =
                     [@ EXCEPT !.status = IF yes THEN "approved" ELSE "rejected",
                               !.approved = decisions[d].approved \/ yes]]
  /\ request' = [request EXCEPT ![o] = [@ EXCEPT !.pc = IF yes THEN "recorded" ELSE "idle"]]
  /\ UNCHANGED <<scene, world, paused, runs, memory>>

ApplyDecision(o) ==
  /\ request[o].pc = "recorded"
  /\ decisions' = [decisions EXCEPT ![request[o].of] = [@ EXCEPT !.carried = 1]]
  /\ request' = [request EXCEPT ![o] = [@ EXCEPT !.pc = "idle"]]
  /\ UNCHANGED <<scene, world, paused, runs, memory>>

(* POST /copilot/decisions/{id}/execute: apply_decision again, whatever the *)
(* decision's status.                                                       *)
Execute(d) ==
  /\ "execute" \in scene
  /\ decisions' = [decisions EXCEPT ![d] = [@ EXCEPT !.carried = 1]]
  /\ UNCHANGED <<scene, world, paused, runs, memory, request>>

----------------------------------------------------------------------------
Drive(n) ==
  \/ GuardIn(n) \/ Sense(n) \/ Optimise(n) \/ PolicyGate(n)
  \/ HumanApproval(n) \/ Dispatch(n) \/ Replan(n)

Next ==
  \/ StartRun
  \/ \E n \in DOMAIN runs :
       Drive(n) \/ OfficerAnswers(n) \/ NobodyAnswers(n) \/ RunTimeout(n) \/ RunFails(n) \/ Ages(n)
  \/ \E i \in Incident : Forgets(i)
  \/ WorldMoves \/ Pause
  \/ \E within, sure \in BOOLEAN : Propose(within, sure)
  \/ \E d \in DOMAIN decisions :
       CarryOutIssued(d) \/ Execute(d) \/ \E o \in Officer, act \in {"approve", "reject"} : Decide(o, d, act)
  \/ \E o \in Officer : RecordDecision(o) \/ ApplyDecision(o)

Spec == Init /\ [][Next]_vars

(* A run is driven to its end, and each wait has a task that ends it.       *)
Fairness == \A n \in 1..MaxRuns :
  /\ WF_vars(n \in DOMAIN runs /\ Drive(n))
  /\ WF_vars(n \in DOMAIN runs /\ NobodyAnswers(n))
FairSpec == Spec /\ Fairness

----------------------------------------------------------------------------
TypeOK ==
  /\ scene \in Scenarios /\ world \in Plan /\ paused \in BOOLEAN
  /\ runs \in Seq(Run) /\ Len(runs) <= MaxRuns
  /\ memory \in [Incident -> {"none", "yes", "no", "silence"}]
  /\ decisions \in Seq(Decision) /\ Len(decisions) <= MaxDecisions
  /\ request \in [Officer -> Request]
  /\ \A o \in Officer : request[o].pc # "idle" => request[o].of \in DOMAIN decisions

(* Nothing beyond the delegation is written because nobody answered, or     *)
(* after a no: where the proposal needed an officer, one said yes, and a    *)
(* run that ended as held, rejected, given up or unchanged has written      *)
(* nothing, however answers, time-outs, pauses and other runs interleave    *)
(* (one that broke off may have written).                                   *)
WrittenIsAuthorised == \A n \in DOMAIN runs :
  /\ runs[n].wrote # NoPlan /\ NeedsOfficer(runs[n].proposal) => runs[n].answer = "yes"
  /\ runs[n].outcome \in {"held", "rejected", "failed", "unchanged"} => runs[n].wrote = NoPlan

(* "The plan it is about to write is the plan that was approved": nobody is *)
(* moved who was not in the plan the officer saw, as long as the world      *)
(* stands still between the second preview and the solve that is written.   *)
ApprovedIsWritten == \A n \in DOMAIN runs :
  "late_move" \notin scene /\ runs[n].answer = "yes" /\ runs[n].wrote # NoPlan
    => runs[n].wrote.moves \subseteq runs[n].proposal.moves

(* Nothing the gate held is carried out before an officer approved it,      *)
(* except by the execute endpoint, whose apply_decision reads the status of *)
(* the decision and does not look at it.                                    *)
ActedAlone(d) ==
  decisions[d].carried > 0 /\ ~decisions[d].approved /\ ~(decisions[d].within /\ decisions[d].sure)
NothingActsAlone == "execute" \notin scene => \A d \in DOMAIN decisions : ~ActedAlone(d)

(* A run ends or waits, and a run that waits and is known is answered, by   *)
(* the clock if by nobody else.                                             *)
RunsEnd == \A n \in 1..MaxRuns :
  /\ n \in DOMAIN runs ~> n \in DOMAIN runs /\ runs[n].status # "running"
  /\ (n \in DOMAIN runs /\ runs[n].status = "waiting" /\ runs[n].kept)
       ~> n \in DOMAIN runs /\ runs[n].status \in {"done", "failed"}
=============================================================================
