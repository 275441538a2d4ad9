----------------------------- MODULE SwarmLink -----------------------------
(***************************************************************************)
(* The link to the drone swarm (drone/swarm_link.py): situation reports are *)
(* read, a plan is reasoned out, recorded, applied command by command, and  *)
(* checked against what the swarm shows; a unit that never moved is dropped *)
(* and the incident planned again.  The worker, the tick of the run loop and*)
(* officers plan at the same time; every await is a step of its own.  The   *)
(* swarm is external: it takes commands, its units come or do not, and what *)
(* it shows arrives later, in snapshots.                                    *)
(***************************************************************************)
EXTENDS Naturals, Sequences, FiniteSets, FiniteSetsExt, SequencesExt

CONSTANTS
  Incident,   \* swarm incidents
  Unit,       \* ground units
  Want,       \* units an incident needs (reason works it out of a report)
  MaxPlans,   \* bound: plans remembered at a time (PLAN_MAX)
  MaxReports, \* bound: reports that change something, in a busy scene (1 in the others)
  MaxTasks,   \* bound: units an officer sends by hand
  Scenarios   \* sets of what may happen besides: see scene

None == "none"

ASSUME SwarmAssumption ==
  /\ IsFiniteSet(Incident) /\ IsFiniteSet(Unit) /\ None \notin Incident
  /\ Want \in Nat /\ MaxPlans \in Nat /\ MaxReports \in Nat /\ MaxTasks \in Nat
  /\ Scenarios \subseteq SUBSET {"busy", "lazy", "lost", "refused", "officer", "approvals", "drones", "resolved", "two"}

Hand == {"worker", "tick", "officer"}

VARIABLES
  scene,    \* rigid: lazy units, a link that is lost, refusals, officers, ...
  lazy,     \* rigid: the units that never move
  link,     \* up; dead (the socket closed, run() has not noticed); down
  order,    \* swarm: the incident a unit was last told to serve
  at,       \* swarm: the incident it is shown at
  eyes,     \* swarm: incidents with a drone on scene
  sortie,   \* swarm: incidents a drone was asked for
  resolved, \* swarm: incidents that are over
  view,     \* self.state: the last snapshot
  plans,    \* self.plans
  expect,   \* self.expect
  exclude,  \* self.exclude
  claimed,  \* self.claimed, while not lapsed
  work,     \* self.work
  hand,     \* what each task is doing
  left      \* [reports, tasks] still to come
swarm == <<order, at, eyes, sortie, resolved>>
desk == <<plans, expect, exclude, claimed>>
rigid == <<scene, lazy>>
vars == <<rigid, link, swarm, view, desk, work, hand, left>>

Plan == [inc : Incident \cup {None}, units : SUBSET Unit, eyes : BOOLEAN, auto : BOOLEAN,
         status : {"proposed", "applied", "partial", "failed", "rejected", "forgotten"}]
Forgotten == [inc |-> None, units |-> {}, eyes |-> FALSE, auto |-> FALSE, status |-> "forgotten"]
Expectation == [plan : 0..MaxPlans, units : SUBSET Unit, eyes : BOOLEAN,
                due : BOOLEAN, rechecked : BOOLEAN]
Nothing == [plan |-> 0, units |-> {}, eyes |-> FALSE, due |-> FALSE, rechecked |-> FALSE]
Expecting(i) == expect[i] # Nothing

(* A task: pc, the plan it applies, the actions still to send (units, and   *)
(* "eyes" for a drone), those accepted, and for the tick the incidents left *)
(* of its list with what was expected of them when the list was made.       *)
Idle == [pc |-> "idle", plan |-> 0, todo |-> {}, got |-> {}, list |-> <<>>]
Rest(h) == [Idle EXCEPT !.pc = IF h.list = <<>> THEN "idle" ELSE "next", !.list = h.list]

Init ==
  /\ scene \in Scenarios
  /\ lazy \in (IF "lazy" \in scene THEN SUBSET Unit ELSE {{}})
  /\ link = "up"
  /\ order = [u \in Unit |-> None] /\ at = [u \in Unit |-> None]
  /\ eyes = {} /\ sortie = {}
  /\ resolved = IF "two" \in scene THEN {} ELSE Incident \ {CHOOSE i \in Incident : TRUE}
  /\ view = [at |-> at, eyes |-> {}, resolved |-> resolved]
  /\ plans = [p \in 1..MaxPlans |-> Forgotten]
  /\ expect = [i \in Incident |-> Nothing]
  /\ exclude = [i \in Incident |-> {}]
  /\ claimed = [u \in Unit |-> None]
  /\ work = <<>>
  /\ hand = [h \in Hand |-> Idle]
  /\ left = [reports |-> IF "busy" \in scene THEN MaxReports ELSE 1, tasks |-> MaxTasks]

----------------------------------------------------------------------------
(* The swarm.                                                              *)

Comes(u) ==
  /\ u \notin lazy /\ order[u] # at[u]
  /\ at' = [at EXCEPT ![u] = order[u]]
  /\ UNCHANGED <<rigid, link, order, eyes, sortie, resolved, view, desk, work, hand, left>>

DroneComes(i) ==
  /\ i \in sortie \ eyes
  /\ eyes' = eyes \cup {i}
  /\ UNCHANGED <<rigid, link, order, at, sortie, resolved, view, desk, work, hand, left>>

Resolved(i) ==
  /\ "resolved" \in scene /\ i \notin resolved
  /\ resolved' = resolved \cup {i} /\ eyes' = eyes \ {i} /\ sortie' = sortie \ {i}
  /\ order' = [u \in Unit |-> IF order[u] = i THEN None ELSE order[u]]
  /\ at' = [u \in Unit |-> IF at[u] = i THEN None ELSE at[u]]
  /\ UNCHANGED <<rigid, link, view, desk, work, hand, left>>

(* What a command does to the swarm.                                        *)
Assigned(i, a) ==
  IF i \in resolved THEN UNCHANGED swarm
  ELSE IF a = "eyes"
  THEN sortie' = sortie \cup {i} /\ UNCHANGED <<order, at, eyes, resolved>>
  ELSE order' = [order EXCEPT ![a] = i] /\ UNCHANGED <<at, eyes, sortie, resolved>>
Unassigned(i, units) ==
  /\ order' = [u \in Unit |-> IF u \in units /\ order[u] = i THEN None ELSE order[u]]
  /\ UNCHANGED <<at, eyes, sortie, resolved>>

----------------------------------------------------------------------------
(* What the link sees.                                                     *)

Now == [at |-> at, eyes |-> eyes, resolved |-> resolved]

Missing(i, e, v) == {u \in e.units : v.at[u] # i}
Verified(i, e, v) == Missing(i, e, v) = {} /\ (e.eyes => i \in v.eyes)

(* _check_expectation *)
Checked(i, v) == IF Verified(i, expect[i], v) THEN [expect EXCEPT ![i] = Nothing] ELSE expect

Snapshot ==
  /\ link = "up" /\ view # Now
  /\ view' = Now
  /\ UNCHANGED <<rigid, link, swarm, desk, work, hand, left>>

(* A report comes with a snapshot.  One that changes something is queued for*)
(* the worker; an alert is too, is planned whatever the cooldown, and checks*)
(* nothing.                                                                 *)
Report(i, kind) ==
  /\ link = "up" /\ i \notin resolved
  /\ kind # "same" => left.reports > 0
  /\ view' = Now
  /\ expect' = IF kind = "alert" THEN expect ELSE Checked(i, Now)
  /\ IF kind = "same" THEN UNCHANGED <<work, left>>
     ELSE work' = Append(work, <<kind, i>>) /\ left' = [left EXCEPT !.reports = @ - 1]
  /\ UNCHANGED <<rigid, link, swarm, plans, exclude, claimed, hand>>

----------------------------------------------------------------------------
(* make_plan *)

Here(i) == {u \in Unit : view.at[u] = i}
BugClaims(i) == {u \in Unit : view.at[u] = None /\ u \notin exclude[i]}
BugMissing(i) == {u \in Unit : view.at[u] = None /\ claimed[u] \in {None, i}}
Free(i) == {u \in Unit : view.at[u] = None /\ u \notin exclude[i] /\ claimed[u] \in {None, i}}
Short(i) == IF Cardinality(Here(i)) >= Want THEN 0 ELSE Want - Cardinality(Here(i))
Picks(i) == kSubset(Min({Short(i), Cardinality(Free(i))}), Free(i))
Eyes(i) == "drones" \in scene /\ i \notin view.eyes

Actions(p) == p.units \cup (IF p.eyes THEN {"eyes"} ELSE {})

(* The numbers nobody refers to any more are used again.                    *)
Spare == {p \in 1..MaxPlans :
  /\ \A i \in Incident : expect[i].plan # p
  /\ \A h \in Hand : /\ hand[h].plan # p
                     /\ \A n \in DOMAIN hand[h].list : hand[h].list[n].exp.plan # p}

(* From one incident's report to a plan, without an await: the units are    *)
(* claimed before anybody else reasons.  A plan waits for an officer when   *)
(* the switch says so or the emergency stop is on.  rest is what the task   *)
(* goes on with when nothing is planned: the incident is over, has what it  *)
(* needs, or was looked at less than REPLAN_COOLDOWN_S ago.                 *)
NoPlan(h, i, force, rest) ==
  /\ i \in view.resolved \/ ~force \/ ({} \in Picks(i) /\ ~Eyes(i))
  /\ hand' = [hand EXCEPT ![h] = rest]
  /\ UNCHANGED <<plans, claimed>>
MakePlan(h, i, rest) ==
  /\ i \notin view.resolved /\ Spare # {}
  /\ \E S \in Picks(i), auto \in (IF "approvals" \in scene THEN BOOLEAN ELSE {TRUE}) :
    LET p == Min(Spare) IN
    /\ S # {} \/ Eyes(i)
    /\ plans' = [plans EXCEPT ![p] =
         [inc |-> i, units |-> S, eyes |-> Eyes(i), auto |-> auto, status |-> "proposed"]]
    /\ claimed' = [u \in Unit |-> IF u \in S THEN i ELSE claimed[u]]
    /\ hand' = [hand EXCEPT ![h] = [rest EXCEPT !.pc = "record", !.plan = p]]

WorkerTakes ==
  /\ hand["worker"] = Idle /\ work # <<>>
  /\ work' = Tail(work)
  /\ MakePlan("worker", Head(work)[2], Idle) \/ NoPlan("worker", Head(work)[2], Head(work)[1] = "alert", Idle)
  /\ UNCHANGED <<rigid, link, swarm, view, expect, exclude, left>>

(* ports.record is over.                                                    *)
Recorded(h) ==
  LET p == hand[h].plan IN
  /\ hand[h].pc = "record"
  /\ hand' = [hand EXCEPT ![h] =
       IF ~plans[p].auto \/ plans[p].status \in {"applied", "partial", "rejected"} THEN Rest(@)
       ELSE [@ EXCEPT !.pc = "apply", !.todo = Actions(plans[p]), !.got = {}]]
  /\ UNCHANGED <<rigid, link, swarm, view, desk, work, left>>

----------------------------------------------------------------------------
(* apply_plan *)

(* One command under the send lock.  Accepted, refused, or no answer in     *)
(* time, whether the swarm took it or not; down, the answer is an error at  *)
(* once; on a dead socket the error is one apply_plan does not catch.       *)
Send(h) ==
  /\ hand[h].pc = "apply" /\ hand[h].todo # {}
  /\ \E a \in hand[h].todo :
       \/ /\ link = "up" /\ Assigned(plans[hand[h].plan].inc, a)
          /\ \E got \in {{a}} \cup (IF "lost" \in scene THEN {{}} ELSE {}) :
               hand' = [hand EXCEPT ![h].todo = @ \ {a}, ![h].got = @ \cup got]
       \/ /\ (link = "up" /\ "refused" \in scene) \/ link = "down"
          /\ hand' = [hand EXCEPT ![h].todo = @ \ {a}]
          /\ UNCHANGED swarm
       \/ /\ link = "dead"
          /\ hand' = [hand EXCEPT ![h] = Idle]
          /\ UNCHANGED swarm
  /\ UNCHANGED <<rigid, link, view, desk, work, left>>

StatusFor(all, got) == IF got = all THEN "applied" ELSE IF got = {} THEN "failed" ELSE "partial"

Applied(h) ==
  LET p == hand[h].plan  got == hand[h].got  i == plans[p].inc IN
  /\ hand[h].pc = "apply" /\ hand[h].todo = {}
  /\ plans' = [plans EXCEPT ![p].status = StatusFor(Actions(plans[p]), got)]
  /\ expect' = IF got = {} THEN expect
               ELSE [expect EXCEPT ![i] =
                 [plan |-> p, units |-> got \cap Unit, eyes |-> "eyes" \in got,
                  due |-> FALSE, rechecked |-> FALSE]]
  /\ hand' = [hand EXCEPT ![h] = Rest(@)]
  /\ UNCHANGED <<rigid, link, swarm, view, exclude, claimed, work, left>>

----------------------------------------------------------------------------
(* _tick *)

TickBegins ==
  /\ link \in {"up", "dead"} /\ hand["tick"] = Idle
  /\ \E i \in Incident : Expecting(i)
  /\ \E s \in SetToSeqs({i \in Incident : Expecting(i)}) :
       hand' = [hand EXCEPT !["tick"].pc = "next",
         !["tick"].list = [n \in DOMAIN s |-> [inc |-> s[n], exp |-> expect[s[n]]]]]
  /\ UNCHANGED <<rigid, link, swarm, view, desk, work, left>>

Onward == LET l == Tail(hand["tick"].list) IN [Idle EXCEPT !.pc = IF l = <<>> THEN "idle" ELSE "next", !.list = l]

(* The first miss is noted in what the list held: what replaced it since is *)
(* left alone.                                                              *)
BugRecheck(x, e) == IF x.plan = e.plan THEN [x EXCEPT !.due = FALSE] ELSE x
Recheck(x, e) == IF x.plan = e.plan THEN [x EXCEPT !.rechecked = TRUE, !.due = FALSE] ELSE x

(* One incident of the list: verified, not due, over; or a first miss, that *)
(* asks for a fresh report; or a second one.                                *)
TickItem ==
  LET i == Head(hand["tick"].list).inc
      e == Head(hand["tick"].list).exp
      now == Checked(i, view)
      gone == Missing(i, e, view) IN
  /\ hand["tick"].pc = "next"
  /\ \/ /\ now[i] = Nothing \/ ~e.due
        /\ expect' = now
        /\ hand' = [hand EXCEPT !["tick"] = Onward]
        /\ UNCHANGED exclude
     \/ /\ now[i] # Nothing /\ e.due /\ i \in view.resolved
        /\ expect' = [now EXCEPT ![i] = Nothing]
        /\ hand' = [hand EXCEPT !["tick"] = Onward]
        /\ UNCHANGED exclude
     \/ /\ now[i] # Nothing /\ e.due /\ i \notin view.resolved /\ ~e.rechecked
        /\ expect' = [now EXCEPT ![i] = Recheck(@, e)]
        /\ hand' = [hand EXCEPT !["tick"].pc = "ask"]
        /\ UNCHANGED exclude
     \/ /\ now[i] # Nothing /\ e.due /\ i \notin view.resolved /\ e.rechecked
        /\ expect' = [now EXCEPT ![i] = Nothing]
        /\ exclude' = [exclude EXCEPT ![i] = @ \cup gone]
        /\ hand' = [hand EXCEPT !["tick"] = IF gone = {} THEN Onward ELSE [@ EXCEPT !.pc = "drop", !.todo = gone]]
  /\ UNCHANGED <<rigid, link, swarm, view, plans, claimed, work, left>>

(* request_situation: whatever comes of it.                                 *)
TickAsked ==
  /\ hand["tick"].pc = "ask"
  /\ hand' = [hand EXCEPT !["tick"] = Onward]
  /\ UNCHANGED <<rigid, link, swarm, view, desk, work, left>>

(* unassign, whatever comes of it, and a plan without the missing.          *)
TickDrops ==
  LET i == Head(hand["tick"].list).inc IN
  /\ hand["tick"].pc = "drop"
  /\ \/ link = "up" /\ Unassigned(i, hand["tick"].todo)
     \/ /\ link # "up" \/ {"lost", "refused"} \cap scene # {}
        /\ UNCHANGED swarm
  /\ MakePlan("tick", i, Onward) \/ NoPlan("tick", i, TRUE, Onward)
  /\ UNCHANGED <<rigid, link, view, expect, exclude, work, left>>

----------------------------------------------------------------------------
(* Officers, time, and the socket.                                         *)

Approves(p) ==
  /\ "approvals" \in scene /\ hand["officer"] = Idle /\ link # "down"
  /\ plans[p].status \in {"proposed", "failed"}
  /\ hand' = [hand EXCEPT !["officer"] =
       [@ EXCEPT !.pc = "apply", !.plan = p, !.todo = Actions(plans[p])]]
  /\ UNCHANGED <<rigid, link, swarm, view, desk, work, left>>

Rejects(p) ==
  /\ "approvals" \in scene /\ plans[p].status = "proposed"
  /\ plans' = [plans EXCEPT ![p].status = "rejected"]
  /\ UNCHANGED <<rigid, link, swarm, view, expect, exclude, claimed, work, hand, left>>

(* task("assign_unit") *)
SendsByHand(i, u) ==
  /\ "officer" \in scene /\ hand["officer"] = Idle /\ link = "up" /\ left.tasks > 0
  /\ Assigned(i, u)
  /\ expect' = [expect EXCEPT ![i] = [Nothing EXCEPT !.units = {u}]]
  /\ left' = [left EXCEPT !.tasks = @ - 1]
  /\ UNCHANGED <<rigid, link, view, plans, exclude, claimed, work, hand>>

(* due, RECHECK_S after it was set; and a claim, that outlasts the two      *)
(* checks of its unit (3 * RECHECK_S), the sending of its plan, the way of a*)
(* unit that comes and the next snapshot.                                   *)
Due(i) ==
  /\ Expecting(i) /\ ~expect[i].due
  /\ expect' = [expect EXCEPT ![i].due = TRUE]
  /\ UNCHANGED <<rigid, link, swarm, view, plans, exclude, claimed, work, hand, left>>
Lapses(u) ==
  /\ claimed[u] # None /\ u \notin expect[claimed[u]].units
  /\ view.at[u] = at[u] /\ (at[u] = order[u] \/ u \in lazy)
  /\ \A h \in Hand : hand[h].pc \in {"record", "apply"} => u \notin plans[hand[h].plan].units
  /\ hand["tick"].pc # "drop"
  /\ claimed' = [claimed EXCEPT ![u] = None]
  /\ UNCHANGED <<rigid, link, swarm, view, plans, expect, exclude, work, hand, left>>

Drops ==
  /\ "lost" \in scene /\ link = "up" /\ left.reports > 0
  /\ link' = "dead" /\ left' = [left EXCEPT !.reports = @ - 1]
  /\ UNCHANGED <<rigid, swarm, view, desk, work, hand>>
(* The run loop leaves its tick before it sees that the reader is done.     *)
Noticed ==
  /\ link = "dead" /\ hand["tick"] = Idle
  /\ link' = "down"
  /\ UNCHANGED <<rigid, swarm, view, desk, work, hand, left>>
(* Every open incident is reviewed on connect.                              *)
Reconnects ==
  /\ link = "down"
  /\ link' = "up" /\ view' = Now
  /\ \E s \in SetToSeqs(Incident \ resolved) : work' = work \o [n \in DOMAIN s |-> <<"reason", s[n]>>]
  /\ UNCHANGED <<rigid, swarm, desk, hand, left>>

Swarm == (\E u \in Unit : Comes(u)) \/ (\E i \in Incident : DroneComes(i)) \/ (\E i \in Incident : Resolved(i))
Reads == Snapshot \/ \E i \in Incident, kind \in {"same", "reason", "alert"} : Report(i, kind)
Plans(h) == Recorded(h) \/ Send(h) \/ Applied(h)
Ticks == TickBegins \/ TickItem \/ TickAsked \/ TickDrops
Officers ==
  \/ \E p \in DOMAIN plans : Approves(p) \/ Rejects(p)
  \/ \E i \in Incident, u \in Unit : SendsByHand(i, u)
Clock == (\E i \in Incident : Due(i)) \/ \E u \in Unit : Lapses(u)

Next ==
  \/ Swarm \/ Reads \/ WorkerTakes \/ (\E h \in Hand : Plans(h)) \/ Ticks
  \/ Officers \/ Clock \/ Drops \/ Noticed \/ Reconnects

Spec == Init /\ [][Next]_vars

(* The tasks go on; snapshots come ten times a second while the link is up, *)
(* time passes, a lost link is noticed and made again.  Nothing obliges a   *)
(* unit to come, an incident to end, an officer or a report.                *)
FairSpec ==
  /\ Spec
  /\ WF_vars(Snapshot) /\ WF_vars(WorkerTakes) /\ \A h \in Hand : WF_vars(Plans(h))
  /\ WF_vars(Ticks) /\ \A i \in Incident : WF_vars(Due(i))
  /\ WF_vars(Noticed) /\ WF_vars(Reconnects)

----------------------------------------------------------------------------
TypeOK ==
  /\ link \in {"up", "dead", "down"}
  /\ order \in [Unit -> Incident \cup {None}] /\ at \in [Unit -> Incident \cup {None}]
  /\ eyes \subseteq Incident /\ sortie \subseteq Incident /\ resolved \subseteq Incident
  /\ plans \in [1..MaxPlans -> Plan]
  /\ expect \in [Incident -> Expectation]
  /\ exclude \in [Incident -> SUBSET Unit] /\ claimed \in [Unit -> Incident \cup {None}]

(* "claim now so the next incident's plan does not take the same unit"      *)
(* (make_plan): automatic plans, however they overlap, never send a unit    *)
(* the swarm has been told to use at one incident to another one, answers   *)
(* that are lost and a link that drops included.                            *)
UnitsNotPoached == [][
  {"officer", "approvals"} \cap scene = {} =>
    \A u \in Unit \ lazy : order[u] = None \/ order'[u] \in {None, order[u]}]_vars

(* What a plan was accepted for is verified, given up or replaced: no       *)
(* expectation stays for ever, also when the link is lost in between.       *)
EveryExpectationSettles == \A i \in Incident, p \in 1..MaxPlans :
  (expect[i].plan = p) ~> (expect[i].plan # p)

(* When reports stop, so does planning: what is missing is excluded, and a  *)
(* plan that cannot be made is not tried for ever.                          *)
PlanningEnds == <>[](\A h \in Hand : hand[h] = Idle)

=============================================================================
