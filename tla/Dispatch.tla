------------------------------ MODULE Dispatch ------------------------------
(***************************************************************************)
(* Who is sent where: the re-planner (app/agents/replan.py) against        *)
(* everybody else who writes the same rows, officers (app/ops/operations,  *)
(* app/copilot/execute), crews (app/api/v1/personas, operations) and the   *)
(* demo's simulated fleet (app/demo/runner).                               *)
(*                                                                         *)
(* A re-plan is one READ COMMITTED transaction that reads the open needs   *)
(* and the fleet, then the officers' standing orders, solves for seconds,  *)
(* and writes by assignment id without looking again.  It is three steps   *)
(* here.  Everybody else's transaction is one step, the commit; but an     *)
(* officer's waits for a road before it writes, so a re-plan may have      *)
(* begun since it did.                                                     *)
(*                                                                         *)
(* An assignment is a job of its unit; assignments.id is its place in      *)
(* jobs[u].  created_at is the rank `born`: a plan stamps its jobs with    *)
(* the time it started reading, an officer's job has the time at which its *)
(* transaction started (the column's default).  Travel times, severities   *)
(* and the solver's objective are abstract: a solve may return any         *)
(* allocation its constraints allow.                                       *)
(***************************************************************************)
EXTENDS Integers, Sequences, FiniteSets, Functions

CONSTANTS
  Unit, Incident, Capability,
  Need,        \* incident_needs: the capabilities an incident asks for, one unit each
  Skill,       \* taxonomy.kind_can: the capabilities of a unit
  NoIncident,  \* assignments.incident_id is null: staged, or returning to base
  NoPlan,      \* no re-plan is running
  Overlap,     \* FALSE: nothing else commits while a re-plan is solving
  Ops,         \* what officers and crews do in this instance
  MaxJobs      \* bound: assignments ever written for a unit

AllOps == {"redirect", "cancel", "stage", "base", "hold", "pin", "preposition", "approve",
           "expire", "crew", "offline", "back", "task_complete",
           "task_patch"}

Place == Incident \cup {NoIncident}
Moving == {"proposed", "en_route"}
ActiveSt == Moving \cup {"on_site"}
JobSt == ActiveSt \cup {"complete", "cancelled"}
Job == [inc : Place, st : JobSt, born : Nat, task : {"none", "open", "closed"}]

ASSUME DispatchAssumption ==
  /\ Unit # {} /\ NoIncident \notin Incident
  /\ Need \in [Incident -> SUBSET Capability]
  /\ Skill \in [Unit -> SUBSET Capability]
  /\ Overlap \in BOOLEAN /\ Ops \subseteq AllOps /\ MaxJobs \in Nat

VARIABLES
  jobs,      \* assignments, with the field task of each
  res,       \* resources.status
  status,    \* incidents.status; "none": not reported yet
  pin, hold, forbid,   \* operator_overrides that are active and not expired
  plan,      \* the re-plan in flight: what it read and what it decided
  asked,     \* the units for which a cancel proposal waits for approval
  ordered    \* history: the job an officer's redirect pinned, until that pin ends; 0: none

orders == <<pin, hold, forbid>>
vars == <<jobs, res, status, orders, plan, asked, ordered>>

----------------------------------------------------------------------------
IsActive(j) == j.st \in ActiveSt
ActiveJobs(u) == {k \in DOMAIN jobs[u] : IsActive(jobs[u][k])}
LatestOf(u, S) == CHOOSE k \in S : \A l \in S : jobs[u][l].born <= jobs[u][k].born

(* ... where status = any(ACTIVE) order by created_at desc limit 1; 0: no row *)
Latest(u) == IF ActiveJobs(u) = {} THEN 0 ELSE LatestOf(u, ActiveJobs(u))
IncidentOf(u, k) == IF k = 0 THEN NoIncident ELSE jobs[u][k].inc

OpenNeeds == {n \in Incident \X Capability : status[n[1]] = "open" /\ n[2] \in Need[n[1]]}
Can(u, n) == n[2] \in Skill[u]

(* An officer's or a crew's transaction commits now, and the bound leaves   *)
(* room for a job of the re-plan in flight.                                 *)
MayCommit == Overlap \/ plan = NoPlan
Room(u) == Len(jobs[u]) + (IF plan = NoPlan THEN 0 ELSE 1) < MaxJobs

(* The ranks of a moment: after every job of the unit, the start of a plan  *)
(* after those the plan reads, and just before that start.                  *)
Now(u) == 3 * (Len(jobs[u]) + 1)
PlanStart(u) == 3 * Len(jobs[u]) + 2
JustBefore(start) == start - 1

(* When the officer's transaction that commits now began: since the re-plan *)
(* in flight did, or before it.  Orders for one unit are given one after     *)
(* the other, so it is before only if none was written since.               *)
Began(u) ==
  {Now(u)} \cup (IF plan # NoPlan /\ plan.now[u] = PlanStart(u)
                 THEN {JustBefore(plan.now[u])} ELSE {})

(* An incident an officer may send a unit to: open when it was looked up,   *)
(* and while the road was awaited a crew may have resolved it.              *)
Sendable(i) == status[i] = "open" \/ (Overlap /\ status[i] = "resolved")

(* status = 'cancelled', with close_tasks                                   *)
Closed(j) == IF j.task = "open" THEN "closed" ELSE j.task
StoodDown(j) == [j EXCEPT !.st = "cancelled", !.task = Closed(j)]

Init ==
  /\ jobs = [u \in Unit |-> <<>>]
  /\ res = [u \in Unit |-> "available"]
  /\ status = [i \in Incident |-> "none"]
  /\ pin = {} /\ hold = {} /\ forbid = {}
  /\ plan = NoPlan
  /\ asked = {}
  /\ ordered = [u \in Unit |-> 0]

(* Intake opens an incident. *)
Report(i) ==
  /\ MayCommit
  /\ status[i] = "none"
  /\ status' = [status EXCEPT ![i] = "open"]
  /\ UNCHANGED <<jobs, res, orders, plan, asked, ordered>>

----------------------------------------------------------------------------
(* The re-planner.                                                         *)

(* _open_demands, then _fleet: every unit that is not offline, with the job *)
(* it is on.  No demand at all ends the re-plan here.                       *)
PlanRead ==
  /\ plan = NoPlan
  /\ OpenNeeds # {}
  /\ \A u \in Unit : Len(jobs[u]) < MaxJobs
  /\ plan' = [phase |-> "read",
              needs |-> OpenNeeds,
              units |-> {u \in Unit : res[u] # "offline"},
              job   |-> [u \in Unit |-> Latest(u)],
              was   |-> [u \in Unit |-> IncidentOf(u, Latest(u))],
              site  |-> {u \in Unit : Latest(u) # 0 /\ jobs[u][Latest(u)].st = "on_site"},
              now   |-> [u \in Unit |-> PlanStart(u)],
              to    |-> [u \in Unit |-> NoIncident]]
  /\ UNCHANGED <<jobs, res, status, orders, asked, ordered>>

Committed == {u \in plan.units : plan.was[u] # NoIncident}

(* Only the pins keep a unit where it is. *)
BugLockedPinned == Committed \cap pin
(* Only what is on scene stays where it is. *)
BugLockedOnSite == Committed \cap plan.site

(* On scene and working, or pinned by a person. *)
Locked == Committed \cap (plan.site \cup pin)

(* overrides["hold"] - set(current_raw) *)
Held == {u \in hold : plan.was[u] = NoIncident}

(* map_commitments: committed units, in the order of their progress, each   *)
(* take a need of their own incident that they can serve and nobody took.   *)
Commitments ==
  {m \in UNION {[S -> plan.needs] : S \in SUBSET Committed} :
    /\ IsInjective(m)
    /\ \A u \in DOMAIN m : m[u][1] = plan.was[u] /\ Can(u, m[u])
    /\ \A u \in Committed \ DOMAIN m : \A n \in plan.needs :
         n[1] = plan.was[u] /\ Can(u, n) => n \in Range(m)}

(* The officers' vetoes are not priced into the matrix. *)
BugAllocateForbidden(units, needs) ==
  {a \in UNION {[S -> needs] : S \in SUBSET units} :
    IsInjective(a) /\ \A u \in DOMAIN a : Can(u, a[u])}

(* allocate(): a unit serves one need at most and a need has one unit at    *)
(* most, the unit can serve it, and the pair is not priced out of reach.    *)
Allocations(units, needs) ==
  {a \in UNION {[S -> needs] : S \in SUBSET units} :
    /\ IsInjective(a)
    /\ \A u \in DOMAIN a : Can(u, a[u]) /\ <<u, a[u][1]>> \notin forbid}

(* load_overrides and the solve. *)
PlanSolve ==
  /\ plan # NoPlan /\ plan.phase = "read"
  /\ \E m \in Commitments :
       LET served == {m[u] : u \in Locked \cap DOMAIN m}
           free == (plan.units \ Locked) \ Held
       IN  \E a \in Allocations(free, plan.needs \ served) :
             plan' = [plan EXCEPT
                        !.phase = "write",
                        !.units = free,
                        !.to = [u \in Unit |-> IF u \in DOMAIN a THEN a[u][1] ELSE NoIncident]]
  /\ UNCHANGED <<jobs, res, status, orders, asked, ordered>>

(* reassigned, assigned or released; a kept unit may get a new road only.   *)
Changed(u) == u \in plan.units /\ plan.to[u] # plan.was[u]

(* created_at is the time of the insert, not of the start of the re-plan. *)
BugWrittenStampedNow(u) ==
  IF ~Changed(u) \/ plan.to[u] = NoIncident THEN jobs[u]
  ELSE Append([k \in DOMAIN jobs[u] |-> IF k = plan.job[u] THEN StoodDown(jobs[u][k]) ELSE jobs[u][k]],
              [inc |-> plan.to[u], st |-> "proposed", born |-> Now(u), task |-> "open"])

Written(u) ==
  IF ~Changed(u) THEN jobs[u]
  ELSE LET rest == IF plan.was[u] = NoIncident THEN jobs[u]
                   ELSE [jobs[u] EXCEPT ![plan.job[u]] = StoodDown(@)]
       IN  IF plan.to[u] = NoIncident THEN rest
           ELSE Append(rest, [inc |-> plan.to[u], st |-> "proposed", born |-> plan.now[u],
                              task |-> "open"])

(* An assigned unit stays in the pool. *)
BugStatusReassigned(u) ==
  IF Changed(u) /\ plan.to[u] = NoIncident THEN "available" ELSE res[u]

(* A reassigned unit keeps its status: it is on the road either way.        *)
StatusAfter(u) ==
  IF ~Changed(u) THEN res[u]
  ELSE IF plan.to[u] = NoIncident THEN "available"
  ELSE IF plan.was[u] = NoIncident THEN "assigned"
  ELSE res[u]

PlanCommit ==
  /\ plan # NoPlan /\ plan.phase = "write"
  /\ jobs' = [u \in Unit |-> Written(u)]
  /\ res' = [u \in Unit |-> StatusAfter(u)]
  /\ plan' = NoPlan
  /\ UNCHANGED <<status, orders, asked, ordered>>

(* The transaction rolls back: an error, a timeout, or a preview.           *)
PlanAbort ==
  /\ plan # NoPlan
  /\ plan' = NoPlan
  /\ UNCHANGED <<jobs, res, status, orders, asked, ordered>>

----------------------------------------------------------------------------
(* Officers.                                                               *)

(* The redirect keeps a job the crew is already working on, as preposition does. *)
BugRedirectedKeepsOnSite(js, i, now) ==
  Append([k \in DOMAIN js |-> IF js[k].st \in Moving THEN StoodDown(js[k]) ELSE js[k]],
         [inc |-> i, st |-> "en_route", born |-> now, task |-> "open"])

(* The redirect without its close_tasks loop. *)
BugRedirectedOpenTasks(js, i, now) ==
  Append([k \in DOMAIN js |-> IF IsActive(js[k]) THEN [js[k] EXCEPT !.st = "cancelled"] ELSE js[k]],
         [inc |-> i, st |-> "en_route", born |-> now, task |-> "open"])

(* reallocate_unit: whatever it was doing, it is not doing it any more.     *)
Redirected(js, i, now) ==
  Append([k \in DOMAIN js |-> IF IsActive(js[k]) THEN StoodDown(js[k]) ELSE js[k]],
         [inc |-> i, st |-> "en_route", born |-> now, task |-> "open"])

(* preposition_equipment: jobs under way end, a job on scene does not, and  *)
(* no field task is closed.                                                 *)
Staged(js, now) ==
  Append([k \in DOMAIN js |-> IF js[k].st \in Moving THEN [js[k] EXCEPT !.st = "cancelled"] ELSE js[k]],
         [inc |-> NoIncident, st |-> "en_route", born |-> now, task |-> "open"])

Stopped(u) == [jobs[u] EXCEPT ![Latest(u)] = StoodDown(@)]

(* What to do instead of the cancelled job, with the incident of a redirect. *)
Insteads ==
  {<<k, NoIncident>> : k \in {"replan", "hold"} \cup ({"base"} \cap Ops)
                            \cup (IF "stage" \in Ops THEN {"stage", "stage_hold"} ELSE {})}
  \cup {<<"redirect", i>> : i \in {j \in Incident : Sendable(j)}}

(* execute_cancel: stop the job the unit is on now, forbid the pair, carry   *)
(* out the instruction.  Every unit has a base recorded.                    *)
CancelJob(u, instead) ==
  LET kind == instead[1]
      inc == IncidentOf(u, Latest(u))
  IN
  /\ Latest(u) # 0
  /\ kind \in {"replan", "hold"} \/ Room(u)
  /\ \E began \in Began(u) : jobs' = [jobs EXCEPT ![u] =
       CASE kind \in {"replan", "hold"} -> Stopped(u)
         [] kind = "redirect" -> Redirected(Stopped(u), instead[2], began)
         [] kind \in {"stage", "stage_hold"} -> Staged(Stopped(u), began)
         [] kind = "base" -> Append(Stopped(u), [inc |-> NoIncident, st |-> "en_route",
                                                 born |-> began, task |-> "none"])]
  /\ res' = [res EXCEPT ![u] = IF kind \in {"replan", "hold"} THEN "available" ELSE "en_route"]
  /\ forbid' = IF inc = NoIncident THEN forbid ELSE forbid \cup {<<u, inc>>}
  /\ hold' = IF kind \in {"hold", "stage_hold", "base"} THEN hold \cup {u} ELSE hold
  /\ pin' = IF kind = "redirect" THEN pin \cup {u} ELSE pin
  /\ ordered' = IF kind = "redirect" THEN [ordered EXCEPT ![u] = Len(jobs'[u])] ELSE ordered
  /\ UNCHANGED <<status, plan>>

(* The gate lets the cancel through at once ... *)
Cancel(u, instead) ==
  /\ MayCommit /\ "cancel" \in Ops
  /\ CancelJob(u, instead)
  /\ UNCHANGED asked

(* ... or holds it for an approval, which later runs with the same params.  *)
(* Bound: one proposal waits per unit.                                      *)
AskCancel(u) ==
  /\ MayCommit /\ "approve" \in Ops
  /\ Latest(u) # 0 /\ u \notin asked
  /\ asked' = asked \cup {u}
  /\ UNCHANGED <<jobs, res, status, orders, plan, ordered>>

ApproveCancel(u) ==
  /\ MayCommit
  /\ u \in asked
  /\ asked' = asked \ {u}
  /\ CancelJob(u, <<"replan", NoIncident>>)

Reallocate(u, i) ==
  /\ MayCommit /\ "redirect" \in Ops
  /\ Sendable(i) /\ Room(u)
  /\ \E began \in Began(u) : jobs' = [jobs EXCEPT ![u] = Redirected(@, i, began)]
  /\ res' = [res EXCEPT ![u] = "en_route"]
  /\ pin' = pin \cup {u}
  /\ ordered' = [ordered EXCEPT ![u] = Len(jobs'[u])]
  /\ UNCHANGED <<status, hold, forbid, plan, asked>>

Preposition(u) ==
  /\ MayCommit /\ "preposition" \in Ops
  /\ Room(u)
  /\ \E began \in Began(u) : jobs' = [jobs EXCEPT ![u] = Staged(@, began)]
  /\ res' = [res EXCEPT ![u] = "en_route"]
  /\ UNCHANGED <<status, orders, plan, asked, ordered>>

HoldUnit(u) ==
  /\ MayCommit /\ "hold" \in Ops
  /\ hold' = hold \cup {u}
  /\ UNCHANGED <<jobs, res, status, pin, forbid, plan, asked, ordered>>

PinUnit(u) ==
  /\ MayCommit /\ "pin" \in Ops
  /\ pin' = pin \cup {u}
  /\ UNCHANGED <<jobs, res, status, hold, forbid, plan, asked, ordered>>

(* An order runs out, or lift() withdraws it.                               *)
Expire(u, i) ==
  /\ MayCommit /\ "expire" \in Ops
  /\ \/ /\ u \in pin
        /\ pin' = pin \ {u} /\ ordered' = [ordered EXCEPT ![u] = 0]
        /\ UNCHANGED <<hold, forbid>>
     \/ /\ u \in hold
        /\ hold' = hold \ {u}
        /\ UNCHANGED <<pin, forbid, ordered>>
     \/ /\ <<u, i>> \in forbid
        /\ forbid' = forbid \ {<<u, i>>}
        /\ UNCHANGED <<pin, hold, ordered>>
  /\ UNCHANGED <<jobs, res, status, plan, asked>>

----------------------------------------------------------------------------
(* Crews: the demo's simulated ones, and the field app.                    *)

(* _move_units: a unit with a job under way moves, and its jobs are en route. *)
Drive(u) ==
  /\ MayCommit /\ "crew" \in Ops
  /\ \E k \in DOMAIN jobs[u] : jobs[u][k].st \in Moving
  /\ jobs' = [jobs EXCEPT ![u] = [k \in DOMAIN @ |->
                IF @[k].st = "proposed" THEN [@[k] EXCEPT !.st = "en_route"] ELSE @[k]]]
  /\ res' = [res EXCEPT ![u] = "en_route"]
  /\ UNCHANGED <<status, orders, plan, asked, ordered>>

Arrive(u, k) ==
  /\ MayCommit /\ "crew" \in Ops
  /\ jobs[u][k].st \in Moving /\ jobs[u][k].inc # NoIncident
  /\ jobs' = [jobs EXCEPT ![u][k].st = "on_site"]
  /\ res' = [res EXCEPT ![u] = "on_site"]
  /\ UNCHANGED <<status, orders, plan, asked, ordered>>

(* A staged unit at the end of its road is available; its task stays open.  *)
StagedArrive(u, k) ==
  /\ MayCommit /\ "crew" \in Ops
  /\ jobs[u][k].st \in Moving /\ jobs[u][k].inc = NoIncident
  /\ jobs' = [jobs EXCEPT ![u][k].st = "complete"]
  /\ res' = [res EXCEPT ![u] = "available"]
  /\ UNCHANGED <<status, orders, plan, asked, ordered>>

(* _work_and_resolve: the last job on scene is done; the incident is        *)
(* resolved unless another job there is active.                             *)
OnSite(u) == {k \in DOMAIN jobs[u] : jobs[u][k].st = "on_site"}
FinishWork(u) ==
  /\ MayCommit /\ "crew" \in Ops
  /\ OnSite(u) # {}
  /\ LET k == LatestOf(u, OnSite(u))
         i == jobs[u][k].inc
     IN  /\ jobs' = [jobs EXCEPT ![u][k].st = "complete"]
         /\ status' = IF \E v \in Unit : \E l \in ActiveJobs(v) :
                           jobs[v][l].inc = i /\ <<v, l>> # <<u, k>>
                      THEN status ELSE [status EXCEPT ![i] = "resolved"]
  /\ res' = [res EXCEPT ![u] = "available"]
  /\ UNCHANGED <<orders, plan, asked, ordered>>

(* Field reports.  Out of service: every job of the unit ends, its tasks do not. *)
Offline(u) ==
  /\ MayCommit /\ "offline" \in Ops
  /\ jobs' = [jobs EXCEPT ![u] = [k \in DOMAIN @ |->
                IF IsActive(@[k]) THEN [@[k] EXCEPT !.st = "complete"] ELSE @[k]]]
  /\ res' = [res EXCEPT ![u] = "offline"]
  /\ UNCHANGED <<status, orders, plan, asked, ordered>>

BackInService(u) ==
  /\ MayCommit /\ "back" \in Ops
  /\ res' = [res EXCEPT ![u] = "available"]
  /\ UNCHANGED <<jobs, status, orders, plan, asked, ordered>>

(* "Task closed, unit back in the pool": jobs en route or on scene. *)
TaskComplete(u) ==
  /\ MayCommit /\ "task_complete" \in Ops
  /\ jobs' = [jobs EXCEPT ![u] = [k \in DOMAIN @ |->
                IF @[k].st \in {"en_route", "on_site"} THEN [@[k] EXCEPT !.st = "complete"] ELSE @[k]]]
  /\ res' = [res EXCEPT ![u] = "available"]
  /\ UNCHANGED <<status, orders, plan, asked, ordered>>

(* PATCH /tasks: any status after any other, whatever became of the job.    *)
TaskPatch(u, k) ==
  /\ MayCommit /\ "task_patch" \in Ops
  /\ jobs[u][k].task # "none"
  /\ jobs' = [jobs EXCEPT ![u][k].task = IF @ = "open" THEN "closed" ELSE "open"]
  /\ UNCHANGED <<res, status, orders, plan, asked, ordered>>

----------------------------------------------------------------------------
Planner == PlanRead \/ PlanSolve \/ PlanCommit \/ PlanAbort

Officer(u) ==
  \/ \E instead \in Insteads : Cancel(u, instead)
  \/ AskCancel(u) \/ Preposition(u) \/ HoldUnit(u) \/ PinUnit(u)
  \/ ApproveCancel(u)
  \/ \E i \in Incident : Reallocate(u, i) \/ Expire(u, i)

Crew(u) ==
  \/ Drive(u) \/ FinishWork(u) \/ Offline(u) \/ BackInService(u) \/ TaskComplete(u)
  \/ \E k \in DOMAIN jobs[u] : Arrive(u, k) \/ StagedArrive(u, k) \/ TaskPatch(u, k)

Next == \/ Planner
        \/ \E i \in Incident : Report(i)
        \/ \E u \in Unit : Officer(u) \/ Crew(u)

Spec == Init /\ [][Next]_vars
----------------------------------------------------------------------------
PlanType == [phase : {"read", "write"}, needs : SUBSET (Incident \X Capability),
             units : SUBSET Unit, job : [Unit -> Nat], was : [Unit -> Place],
             site : SUBSET Unit, now : [Unit -> Nat], to : [Unit -> Place]]

TypeOK ==
  /\ jobs \in [Unit -> Seq(Job)] /\ \A u \in Unit : Len(jobs[u]) <= MaxJobs
  /\ res \in [Unit -> {"available", "assigned", "en_route", "on_site", "offline"}]
  /\ status \in [Incident -> {"none", "open", "resolved"}]
  /\ pin \subseteq Unit /\ hold \subseteq Unit /\ forbid \subseteq Unit \X Incident
  /\ plan = NoPlan \/ plan \in PlanType
  /\ asked \subseteq Unit /\ ordered \in [Unit -> Nat]

(* "A unit does one job at a time": no unit is sent to two places.          *)
OneJobPerUnit == \A u \in Unit : Cardinality(ActiveJobs(u)) <= 1

(* "No solve can move a crew that is already pumping out a basement."       *)
NotMovedMidJob ==
  [][PlanCommit => \A u \in Unit : \A k \in DOMAIN jobs[u] :
       jobs[u][k].st = "on_site" => jobs'[u][k].st = "on_site"]_vars

(* "No re-plan can quietly undo what an officer ordered": a pinned unit     *)
(* keeps its job, a held one without a job gets none, and nobody is sent    *)
(* where an officer forbade it, at the moment the plan is written.          *)
OrdersRespected ==
  [][PlanCommit => \A u \in Unit :
       /\ u \in pin /\ Latest(u) # 0 /\ jobs[u][Latest(u)].inc # NoIncident => jobs'[u] = jobs[u]
       /\ u \in hold /\ Latest(u) = 0 => jobs'[u] = jobs[u]
       /\ Len(jobs'[u]) > Len(jobs[u]) => <<u, jobs'[u][Len(jobs'[u])].inc>> \notin forbid]_vars

(* A unit shown as available has nothing to drive to. *)
AvailableIsFree ==
  \A u \in Unit : res[u] = "available" =>
    \A k \in ActiveJobs(u) : jobs[u][k].inc = NoIncident

(* close_tasks: a job the plan or an officer took away is off the phone.    *)
CancelledLeavesPhone ==
  \A u \in Unit : \A k \in DOMAIN jobs[u] :
    jobs[u][k].st = "cancelled" => jobs[u][k].task # "open"

(* However a re-plan overlaps it, an officer's redirect stands: no plan      *)
(* takes the job away while the pin written with it lasts.                  *)
RedirectStands ==
  [][PlanCommit => \A u \in Unit :
       ordered[u] # 0 /\ IsActive(jobs[u][ordered[u]]) => IsActive(jobs'[u][ordered[u]])]_vars

(* A re-plan began while the redirect was being written, and was still      *)
(* running when it committed: that plan has not seen the redirect, and      *)
(* stamps what it writes later than the redirect.                           *)
Raced(u) == jobs[u][ordered[u]].born # 3 * ordered[u]

(* While a crew is on its way to where an officer redirected it, that job is *)
(* the one every reader takes for its current one, even when a re-plan that  *)
(* had begun before the redirect has written it another job since.  Not so  *)
(* of a redirect that raced with the start of a re-plan: created_at is the  *)
(* start of its transaction, and the road is fetched before the writes.     *)
RedirectIsCurrent ==
  \A u \in Unit :
    ordered[u] # 0 /\ jobs[u][ordered[u]].st \in Moving /\ ~Raced(u) =>
      Latest(u) = ordered[u]

(* A cancel that waits for approval names a job in its text and the unit in  *)
(* its parameters; approving it cancels the named job only if the unit has   *)
(* stayed on it meanwhile.                                                   *)
ApprovalCancelsItsJob ==
  [][\A u \in asked \cap asked' : Latest(u)' = Latest(u)]_vars

----------------------------------------------------------------------------
(* Strengthenings: what makes the safety properties above inductive.        *)

(* No job is younger than its place among the rows; older, if it is a       *)
(* plan's, or the plan in flight at its commit began after its transaction. *)
RankInv ==
  /\ \A u \in Unit : \A k \in DOMAIN jobs[u] : jobs[u][k].born <= 3 * Len(jobs[u])
  /\ plan # NoPlan => \A u \in Unit :
       /\ Len(jobs[u]) < MaxJobs
       /\ plan.now[u] <= PlanStart(u)
       /\ plan.job[u] <= Len(jobs[u])

(* The job of a redirect has an incident and a pin, and a plan that read it *)
(* as the unit's job has locked the unit by the time it writes.             *)
RedirectInv ==
  \A u \in Unit : ordered[u] # 0 =>
    /\ u \in pin
    /\ ordered[u] \in DOMAIN jobs[u] /\ jobs[u][ordered[u]].inc # NoIncident
    /\ plan # NoPlan /\ plan.job[u] = ordered[u] =>
         /\ plan.was[u] # NoIncident
         /\ plan.phase = "write" => u \notin plan.units

(* While the crew is on its way there, every other active job is older, and *)
(* so will be the one of a plan that did not read it, unless they raced.    *)
CurrentInv ==
  \A u \in Unit : ordered[u] # 0 /\ jobs[u][ordered[u]].st \in Moving /\ ~Raced(u) =>
    /\ \A k \in ActiveJobs(u) : k # ordered[u] => jobs[u][k].born < jobs[u][ordered[u]].born
    /\ plan # NoPlan => \/ plan.job[u] = ordered[u]
                        \/ plan.now[u] < jobs[u][ordered[u]].born

(* Nothing commits during a solve: what the plan read is still so, and what *)
(* it is about to write obeys the orders.                                   *)
SnapshotInv ==
  plan # NoPlan => \A u \in Unit :
    /\ plan.job[u] = Latest(u) /\ plan.was[u] = IncidentOf(u, Latest(u))
    /\ u \in plan.site <=> Latest(u) # 0 /\ jobs[u][Latest(u)].st = "on_site"
    /\ plan.phase = "write" /\ u \in plan.units =>
         /\ plan.was[u] # NoIncident => u \notin plan.site \cup pin
         /\ plan.was[u] = NoIncident => u \notin hold
         /\ plan.to[u] # NoIncident => <<u, plan.to[u]>> \notin forbid

(* Without staging, every job has an incident, a unit has one active job at  *)
(* most, and a unit that has one is not in the pool.                        *)
SingleInv ==
  \A u \in Unit :
    /\ \A k \in DOMAIN jobs[u] : jobs[u][k].inc # NoIncident
    /\ \A k, l \in ActiveJobs(u) : k = l
    /\ ActiveJobs(u) # {} => res[u] # "available"

=============================================================================
