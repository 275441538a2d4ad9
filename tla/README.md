# DisruptionOps in TLA+

A verification development of the control plane of DisruptionOps / Indradhanu
(`src/backend/app`): the part of the system that decides *who is sent where and
when that decision is taken again*. TLA+ modules model it, TLC checks small
instances, TLAPS proves the central facts for every size of the system.

Paths below are relative to `src/backend/app` unless they start with `src/`.

## 1. Inventory

The system is one FastAPI process, run in N replicas against one Postgres, with
optional Redis; a demo runner lives in the same process.

| Component | State it keeps | Operations | Talks to |
|---|---|---|---|
| Event log `world/events.py` | table `events`, append only, ids from a sequence | `append` in the caller's transaction | everybody writes; router and mesh tail it |
| Event router `agents/event_router.py` | cursor, leader flag, pending requests (memory) | poll, route, take over, debounced re-plan | log, lease, agent graph, demo runner |
| Leader lease `core/lease.py` | one row of `service_leases`, with the stored cursor | `hold`, (`release` is never called) | router |
| Emergency stop `ops/autonomy.py` | paused flag (memory), `control_state` row | `pause`, `resume`, `load` | router, graph, demo runner |
| Re-planner `agents/replan.py` + `solver/allocation.py` | one transaction: needs, fleet, orders -> assignments | `replan`, `preview` | assignments, field tasks, resources |
| Operator verbs `ops/operations.py`, `copilot/execute.py` | assignments, `operator_overrides` | cancel, redirect, stage, hold, pin, lift | re-planner, decision gate |
| Crews `api/v1/personas.py`, `api/v1/operations.py` | assignment, resource and task status | offline, back, task complete, PATCH task | re-planner |
| Demo runner `demo/runner.py` | world lock, dirty flag, simulated fleet | start, tick, stop | everything above |
| Agent graph `agents/graph.py`, `guardrails.py`, `policy.py` | runs, checkpoints | guard, optimise, gate, human approval, dispatch | re-planner |
| Decision gate `agents/gate.py` | `decisions` | propose, approve | verbs |
| Ingest bus `core/ingest.py` | lanes, idempotency keys, tickets | submit, drain, stop | intake, IoT |
| Agency replies `ops/agency_replies.py` | `agency_requests` | schedule, claim, answer, follow up, record | fleet, demo |
| Surge ladder `surge/*.py` | level, counters, aid offers | evaluate, request aid, drills | fleet, agency requests |
| Mesh gateway `mesh/*.py` | outbox and its cursor, inbox | sync, lease, ack, ingest | log, ingest |
| Cache, rate limiter `core/cache.py`, `core/ratelimit.py` | entries with a lock each; windows | `get_or_set`, sweep, `allow` | all read paths |
| Incident intake `incidents/*.py` | reports, incidents, needs | `receive`, cluster, attach | log |
| Phone outbox `src/frontend/indradhanu/public/sw.js` | IndexedDB queue | queue, drain | ingest |
| Drone link `drone/*.py` | expectations, exclusions | tick, re-check, re-plan | external swarm |

The rest (navigation, hazard models, language-model clients, copilot dialogue,
CRUD endpoints, front end, training, hardware) is listed in PROJECT.json with
the reason it is left out: it computes or displays, and has no protocol.

What is hard here: several replicas and one leader chosen by a row that expires;
a log tailed by id while ids become visible in commit order (twice: the router and
the mesh outbox); three places that start a re-plan under two different locks; a
re-plan that reads, solves for seconds and writes without looking again, while
officers and crews write the same rows; an approval that meets its time-out and a
world that moved; a key claimed before the work it names is queued; answers that a
clock and an officer give at once; a level written back by an evaluation that read it
many calls ago; radio, where every message and every answer may be lost; plans made
from a snapshot of a swarm that goes on moving. PROJECT.json lists these hazards at
their lines, with the property that covers each.

What makes the parts correct: only the lease holder polls; no cursor runs ahead of
what was decided; a change is in the end in front of a re-plan; a paused loop begins
no write, and no stop, resume or debounce forgets a request; a unit has one job; nobody is moved off a scene by a plan;
an officer's order outlives every plan that overlaps it; nothing beyond the delegation
is written without a yes; what was accepted is processed, and one key once; a request
that is closed has passed its need on; an offer is asked once at a time; every
message is broadcast or expires, every packet becomes one report; every expectation
placed on the swarm is settled and no unit is planned for twice.

## 2. Modules

| Module | What it is |
|---|---|
| `ReactivePlanning` | abstract: every change is sooner or later in front of a re-plan, answers are never taken back |
| `EventRouter` | replicas, lease, poll loop, re-plan loop, stop, demo, log |
| `MCEventRouter` | the event classes of its runs |
| `EventRouterProofs` | its theorems |
| `Dispatch` | assignments, tasks, fleet status and standing orders under re-plans, officers, crews |
| `MCDispatch` | needs and skills of its runs, symmetry |
| `DispatchProofs` | its theorems |
| `IngestBus`, `MCIngestBus`, `IngestBusProofs` | the accept-then-work-off bus, its instance, its theorems |
| `Approvals`, `MCApprovals`, `ApprovalsProofs` | runs of the agent graph and gated decisions, their answers, its theorems |
| `AgencyReplies`, `MCAgencyReplies`, `AgencyRepliesProofs` | one shortfall asked around other agencies, its theorems |
| `SurgeLadder`, `MCSurgeLadder`, `SurgeLadderProofs` | levels, mutual aid, its theorems |
| `MeshGateway`, `MCMeshGateway` | outbox, gateways, inbound packets |
| `SwarmLink`, `MCSwarmLink` | plans for the drone swarm and what is expected of them |
| `LinkProofs` | the theorems of MeshGateway and of SwarmLink |
| `Intake`, `MCIntake`, `IntakeProofs` | from a report to an incident, by handlers that overlap, its theorems |

In the modules after Dispatch a rigid variable `scene` (in IngestBus `fault`), chosen
from the constant `Scenarios` by `Init`, says what may happen besides the ordinary work
in one behaviour: errors, officers, crashes, overlapping calls. One run then checks
several environments without their product. Definitions that begin with `Bug` change
one definition the way a slip in that code would; they are in no specification.

### EventRouter

One record per row of `events`; an id is an index of `log`, drawn by `Insert`
(`open`) and seen by others after `Finish` (`committed` or `aborted`). The lease
row is `holder`, `lapsed` (`expires_at < now()`) and `stored` (`meta.cursor`).
A replica's poll loop is `pc`: `hold` (about to call `lease.hold`), `takeover`,
`poll`. `Acquire` is the UPDATE-then-INSERT of `hold`, `Refused` its other answer,
`HoldFailed` its `except` branch that returns True. `TakeOver` resumes at the
stored cursor if it is close enough to the head, `Poll` reads at most `PollLimit`
rows, routes them and moves the cursor in one step (there is no await between the
rows). `TakeBatch`, `PlanCity`, `Dispatch`, `GraphEnds`, `PassDone`, `PassFailed` are the
re-plan loop: kill switch, hand-over to a running demo, graph with its two looks at the
kill switch and the ways it ends without a plan, `replan()` whose events are appended in
its own transaction, in the agent's name or in that of the officer who asked for it. `Pause`,
`Resume`, `DemoStart/Work/Tick/Stop`, `ManualReplan`, `DirectRequest` and `Crash` are
the others. `routed` and `answered` are history: what some poll decided about, what
some finished re-plan had before it.

`Disturbance` says what the environment of an instance does (crashes, database
errors, a slow leader, commits out of order, failing re-plans, stops, a demo,
requests from other handlers); the actions are the same in every instance.

`ImplementsReactivePlanning` is the refinement: `changes` are the committed events
the routing table sends to a re-plan, `replanned` the ones in `answered`.

Fairness (`Fairness`): the loops are asyncio tasks that sleep a bounded time and go
round whatever happened in the last turn (both catch every exception), a solve runs
under a statement timeout, and a dead process's lease lapses because the clock moves.
Each is a weak fairness condition on one loop; nothing is assumed about crashes,
commits, officers or the demo.

### Dispatch

An assignment is an element of `jobs[u]`, with its incident, status, the status of
its field task, and `born`, the rank of `created_at`. A plan stamps its jobs with the
moment it started reading (`PlanStart`). An officer's insert leaves `created_at` to the
column's default `now()`, which in Postgres is the start of the *transaction*, and that
transaction awaits a road before it writes: its rank (`Began`) is that of its commit or,
if the plan in flight began meanwhile, one before that plan's. Orders for one unit are
taken to be given one after the other, and a transaction to span the start of one plan
at most. `Latest(u)` is the query every reader uses (`order by created_at
desc limit 1`). A re-plan is `PlanRead` (open needs, fleet), `PlanSolve` (standing
orders, then any allocation the constraints allow), `PlanCommit` (cancel the old job,
insert the new one, set the status, by the ids read before); `PlanAbort` is a failed
transaction or a preview. `Overlap` says whether anybody commits in between; with it
FALSE the three steps are one. Officers' verbs and crews' reports are one step each,
at their commit. `plan` is what the re-plan remembers; `asked` the cancels waiting for approval;
`ordered` (history) the job an officer's redirect inserted together with a pin, for as
long as that pin lasts. The solver's objective, travel times and severity are left
out: a solve may return any allocation that serves a need once, uses a unit once, and
respects skill and veto, including the empty one; every property therefore holds
whatever the weights are.

### IngestBus

A ticket is the number of its submission (`sub`), whose `st` is the await it stands at:
claim the key, look at the depth, add to the stream, mark the ticket, or run inline for
a critical item, then the answer. `idem` and `idemShared` are the keys of a process and
of Redis, `queue` the asyncio queues, `stream`/`unread`/`pending` one Redis stream per
lane with its consumer group. A worker pops a batch (`flush`), hands it to the handlers
(`process`) and acknowledges (`ack`); `Takes` includes what `xautoclaim` takes over from
a dead or slow one. Every call to Redis may fail and sends the caller to the local path.
`StopBegins` / `CancelWorkers` are `stop()`, which waits for empty queues and then
cancels. Abstracted: batches are sets drained in lane order, keys never expire within a
behaviour.

### Approvals

A run is a record of `runs` with the node it is at, its proposal, the answer it got and
what it wrote; `world` is the plan a solve would return now, so a preview and a write
that differ are a world that moved. `StartRun` is the guard with the storm limit,
`PolicyGate` the comparison with the delegation, `OfficerAnswers` and `NobodyAnswers`
the two callers of `resume`, `Dispatch` the drift check, `Replan` the write, which solves
again. `Ages` lets a run leave the last minute. Decisions are the gate's: `Propose`,
`CarryOutIssued`, the three steps of `demo_decide` (read, update, carry out) and
`Execute`. `Breaks` is what ends a run where it is, a time-out (`RunTimeout`) or a call
that raises (`RunFails`): before the write, or just after it.

### AgencyReplies

`requests` are the rows of one shortfall. An actor's `hand` is the answer it is in the
middle of: claimed or recorded, then units staged (`answer`), the next agency picked,
inserted and scheduled, and the row written last; each is a database call of its own and
each may fail in a scene with `db_fails`. `waiting` are the requests for whose answer time
a waiter sleeps in memory; a waiter may wake for nothing (`WakesForNothing`), and a
`Restart` loses them with the answers under way. What an agency answers is open. `Staged` and
`Came` are, per request, its units in the fleet and those on its row.

### SurgeLadder

`load` is the set of levels whose pressure lines are crossed. `Begin` reads the row as
`evaluate()` does, `Evaluates` is its calls in order: due aid resolved one by one,
offers asked for (the agency request, then in a statement of its own the `surge_aid` row
that links it), the row written, the copy the solver reads. `Fails` is a call that raises
at any of these places, which ends what it was part of. The officers' endpoints work on
the same rows. `races` lets calls overlap. `demo` is a running demo, whose ticks evaluate.

### MeshGateway

Outbound: `cursor` and `outbox` under a pull's calls (cursor, rows, last id, one insert
per message, cursor, offer), the broadcast and the acknowledgement. Inbound: a gateway
posts what it heard; a packet is inserted (`Store`), handled (`Handle`) and noted
(`Note`), each in a statement of its own. `Lost` and `Drop` lose requests and answers. A post of
more than `MaxPost` packets (100 in the code) is refused as a whole, so a bridge that has
so many since its cursor posts no more (`TooLong`). `ServerStops` ends a post between any
two statements. A bridge that is restarted, and begins at 0 again, is not modelled.

### SwarmLink

`order`, `at`, `eyes`, `sortie` and `resolved` are the swarm, which is external; `view`
is the last snapshot of it. `hand` is what each of three tasks is doing: the worker,
the tick of the run loop, an officer's call. A plan goes from `MakePlan` (no await: the
units are claimed) over `Recorded` and one `Send` per command to `Applied`, which sets
the expectation; `TickItem` is one incident of the list `_tick` copied, with the
expectation it held then. `Due` and `Lapses` are the clock. A plan's number is used
again when nobody refers to it.

Assumed: a claim (75 s) outlasts the two checks of its unit, its plan's sending and the
next snapshot (`Lapses`).

### Intake

`reports` and `incidents` are the committed rows, an incident with its `incident_needs`;
`task` is what each handler is doing, between two awaits. `Receive` is the endpoints up
to the beginning of the transaction, then `Find`, `Weigh` (or `File`, which commits a
report that is held or quarantined), `Count` and `Commit`; an officer's `Classify` goes
over `Seek`, `Open` and `Lock` to the same `Count`. A transaction's own rows appear at
its commit, what it reads is what others committed (READ COMMITTED). `Score` is the trust
score with its six components in 1/10000, over forms that fix what is known of the place,
the photo, the words and the model's answer. `Nobody` is the sender who gives neither account
nor device: each of his rows counts as one person, and nothing of his history is known.
An open incident of the spot is a candidate if its category is compatible; which of them
a report matches is open where the scene is `ambiguous`. `free` is the connection pool: a handler
in its transaction holds one, `find_candidates` takes a second. `Verdict`, `Resolve` and
`Confirm` are what is found out about a report later.

## 3. Runs

| Run | Instance | What it shows |
|---|---|---|
| `router_fair` | 2 replicas, 1 city, 3 log rows, slow leader, no graph | under fairness, the refinement of `ReactivePlanning` |
| `router_takeover` | 2 replicas, crashes, failing plans and a demo, `PollLimit` 1 | lease, cursor and hand-over properties |
| `router_stop` | 1 replica, pause/resume, direct and manual re-plans, database errors, reordered commits | nothing in memory is forgotten except by a graph pass that ends without a plan; a paused loop begins no write |
| `dispatch_serial` | 2 units, 2 incidents, 2 jobs per unit | one job, status, phone, on-scene and order properties when nothing commits during a solve |
| `dispatch_overlap` | 1 unit, 2 incidents, 3 jobs | an officer's redirect survives any overlapping plan |
| `ingest_bus` | 2 processes, one of them a worker only, 4 items, both backends, 2 submissions, 1 Redis error | accepted items are kept and answered, one key is processed once |
| `approvals` | 2 runs, 4 plans on both sides of every limit, 1 decision, 2 officers | nothing is written or carried out beyond the delegation without a yes; runs end |
| `agencies` | 4 agencies, one of them the swarm, 2 tasks, 1 officer, chains of 2 | needs are passed on, not oversupplied, every request closes while no call fails and no restart comes |
| `surge_ladder` | 2 offers, 2 evaluations, 1 officer, 1 failing call, a demo | offers are asked once at a time, requests are answered, the ladder follows the load |
| `mesh` | 2 gateways, 2 events, 3 packets in posts of 2, 1 loss, server stops | outbox and inbox: nothing skipped, every message settles, what a bridge can still post becomes one report |
| `swarm` | 2 incidents, 2 units, 1 wanted each | no unit poached, expectations settle, planning ends |
| `intake` | 2 handlers, 3 devices and a sender with none, 1 spot, 2 compatible categories, one of them of life and death, 3 reports, 1 verdict, a pool of 3 | needs and counts follow the reports, nobody known confirms himself, every request is answered |

Bounds. Two replicas give every race of the lease, which is between a holder and one
contender. `OldEvents = 1` is a system that ran before; three rows are one to resume
from and two to be polled, routed, or lost across a take-over; `PollLimit` 1 or 2
makes a batch smaller than the backlog. Dispatch: two units compete for the last
need, a second incident is where a unit may be moved to; with two jobs per unit a plan
can write one after a cancel, with three a plan's job can land after a redirect that
replaced another; orders expire in the serial run only (the theorems have both). IngestBus: two submissions are an item and its re-send, or two items
that compete for a lane of one; the batch of two makes both fit one worker. Approvals:
two runs overlap at every pair of nodes, and `KeepRuns = MaxPerMinute = 1` makes the
second one meet both limits. AgencyReplies: a chain of two reaches the last agency, two
tasks and one officer meet on one request. SurgeLadder: `DescendAfter` is 2 in the
instance and 4 in the code (the counter is the same, the states fewer); one offer is
asked for from level 2 and one only at level 4. MeshGateway: batches and offers of one
make a log of two take several pulls, by two gateways; three packets against posts of two
make the list that is too long (`MaxFaultySent`: two where packets or the server fail). SwarmLink: two units for two
incidents that want one each, so each is the other's substitute and may be poached;
three plan numbers are one per task. Intake: three reports of
three devices overlap in pairs, and a third one meets what two left; `MaxIncidents`
follows from them. Busy scenes have two reports, the others one.

`MaxJobs`, `MaxSubmits`, `MaxRuns`, `MaxAid` and the like bound what happens in a
behaviour, so behaviours may end and deadlock is not checked there (`CHECK_DEADLOCK
FALSE`); the router runs do check it. Symmetry of units and incidents is used only in
Dispatch runs, which have no liveness property.

Fairness. Router: the loops are asyncio tasks that sleep a bounded time and go round
whatever happened (both catch every exception), and a dead process's lease lapses.
IngestBus: something is done while a request waits or a worker has something to do, and
Redis is asked again. Approvals: a run is driven on, and each wait has its time-out
task. AgencyReplies: a request with a waiter (`kick`) is claimed, in a scene with `demo`
the ticks claim any that is due, and an answer goes on; a due request with neither waits.
SurgeLadder: in a scene with `demo` the ticks keep evaluating whatever officers ask in
between (strong fairness on beginning an evaluation), calls end, clocks advance; without
one nothing need evaluate again, and nothing is promised.
MeshGateway: bridges poll and post for ever. SwarmLink: tasks go on, snapshots come, a
lost link is noticed and made again. Intake: handlers go on, and the pool has
one connection more than handlers. Nothing is assumed about crashes, failing calls,
officers, load, nodes, units or the swarm.

`TypeOK` of every module was checked in the instances above while they were written; it
is proved for EventRouter, Dispatch, IngestBus, Approvals, AgencyReplies, SurgeLadder,
MeshGateway and SwarmLink
(for Intake the rows and handlers only). Every
disjunct of every next-state relation fires in a passing run.

## 4. What disagrees with the documentation

These properties are stated in the modules and were refuted by TLC in an instance of
the kind named; no run keeps them, because the runs are few:

| Definition | Refuted with | What happens |
|---|---|---|
| `EventRouter!EveryEventRouted` | `reorder` | an event that commits after a larger id was polled is never read (`agents/event_router.py:182`) |
| `EventRouter!NoTwoPasses` | `demo` | a demo started during a router pass re-plans beside it (`:276`) |
| `EventRouter!PauseStopsEveryRouter` | 2 replicas, `pause` | the flag is of one process, another replica goes on (`ops/autonomy.py:92`) |
| `Dispatch!OneJobPerUnit` | `stage` | a staged unit is given a job beside the first (`agents/replan.py:660`; "A unit does one job at a time", `solver/allocation.py:268`) |
| `Dispatch!ApprovalCancelsItsJob` | `cancel`, `approve` | a cancel approved late cancels another job (`ops/operations.py:356`) |
| `Dispatch!AvailableIsFree` | `task_complete` | a job still `proposed` outlives "task complete" (`api/v1/personas.py:960`) |
| `IngestBus!ResendIsTaken` | a lane that is full | the key is claimed before the lane is looked at: a re-send within ten minutes is answered as the duplicate of a ticket never kept (`core/ingest.py:195`; "shed first (503 + Retry-After); a gateway re-sends", `:21`) |
| `SurgeLadder!AnsweredByOne` | `races`, `by_hand` | an officer's record and the ladder's own answer both stage units for one request (`ops/agency_replies.py:286`) |
| `SurgeLadder!CountsStartAnew` | `officer` | `/declare` leaves the counters of the level before (`api/v1/surge.py:64`): after a few calm checks below it, one calm check ends a declaration, where a level is "stepped down when the load has been below the line for several checks" (`surge/service.py:23`) |
| `MeshGateway!NothingPassedOver` | `any_time` | events that commit between the two reads of a sync, or late, never become messages (`mesh/service.py:414`) |
| `MeshGateway!TakenIsTurned` | `handler_fails`, `server_stops` | a packet is stored before it is handled, in its own statement; the server may stop in between, and what the handler raises is swallowed: relayed again it is a duplicate (`mesh/service.py:203`; "stored once however many gateways relay it, and turned into what it describes", `:4`) |
| `Intake!RowsFollowReports` | `overlap` | the reports are counted before the incident's row is waited for: a count is lost until the next report (`incidents/intake.py:252`; "from the reports themselves", `:245`) |
| `Intake!AnonymousHasCompany` | `anonymous`, 4 reports | of reports by `POST /reports` with neither account nor `device_id` (`api/v1/reports.py:163`) none is left out as the sender's own, and each counts as a person (`incidents/intake.py:567`): the fourth, with a photo, is confirmed by the other three ("Counting a reporter's own repeated reports as corroboration is precisely the hole a report flood walks through", `:562`) |
| `Intake!NobodyWaitsForever` | as many handlers as connections | each holds its transaction's connection and waits for one to look for candidates (`incidents/clustering.py:159`, called at `incidents/intake.py:554`) |
| `Intake!NoEmptyIncident` | `officers` | two officers classify one held report, the check is made before the transaction: one incident is left without a report (`incidents/intake.py:716`) |
| `Intake!LinkedWhileOpen` | `resolve` | a report is linked to an incident a crew closed after it was found; its severity is raised, nobody is sent |
| `Intake!WorseIsTold` | any | an incident that became worse or needs more wakes the router only if an officer classified the report: `report.linked` is not a route and `incident.severity_changed` (`agents/event_router.py:49`) is written nowhere |

Further observations, kept out of the properties:

Router and lease
- `core/lease.py:60` answers True on a database error, so one transient error on a
  standby makes it a second leader until its next turn. The code states why; the
  proofs name it as an assumption.
- On a fresh install the first leader that dies before its first renewal leaves no
  cursor, and the next one starts at the head (hence `OldEvents > 0` in the theorems).
- A query that fails during a take-over loses the stored cursor of that take-over
  (`QueryFailed`); the next turn goes on from the process's own cursor.
- The graph drops the requests of a pass it holds, rejects, gives up or fails
  (`GraphEnds`). Two of its reasons say that they come back: "coalesced into the next"
  (`agents/graph.py:322`, more than MAX_RUNS_PER_MIN runs in a minute) and "the next cycle
  re-asks" (`:671`, the world drifted after an approval). Nothing asks for the next cycle:
  it comes with the next event that is routed.
- A pass that was in `replan()` when the stop came still commits. A run an officer
  approved looks at the switch before its drift check, which previews a whole solve
  (`agents/graph.py:657`): a stop pressed meanwhile is written over.
- A re-plan an officer asks for writes its cancellations in his name (`actor` of
  `POST /replan`), and the router re-plans once more because of them.
- `request_replan` on a standby re-plans there; `POST /replan` takes no lock; `resume()`
  re-plans the officer's city only; stopping and starting a demo drops a request handed
  to it; a demo can be started while the automation is paused.

Dispatch
- A redirect's `created_at` is the start of its transaction, which awaits the blocked
  points and the road before it writes (`copilot/execute.py:103`). A re-plan that begins
  in between does not see the pin and stamps its job later: both jobs are active and the
  plan's is the one every reader takes for the current one. TLC refutes
  `RedirectIsCurrent` when `Raced` redirects are not left out. Two officers who redirect
  one free unit at once leave it with two jobs as well; that is outside the model.
- A crew that arrives while a re-plan is solving can be stood down by it
  (`NotMovedMidJob` with `Overlap = TRUE`), although `agents/replan.py` says of its lock
  that no solve can move a crew that is already working.
- `_preposition` (`copilot/execute.py:220`) leaves an on-scene job active beside the
  new one and closes no task; `offline`, `task_complete` and the demo's finished work
  leave tasks open; `PATCH /tasks` reopens a cancelled one.
- A hold on a unit that is on a job has no effect (`agents/replan.py:489`); a pin
  outlives its job and locks the next one.
- Two writers are outside the model: `agents/orchestrator.py:434` and the scripted
  breakdown of `demo/scenarios.py:273`.

Ingest bus
- `INGEST_WORKERS=0`, which `worker.py:5` describes, makes `submit` raise `KeyError`.
- The ticket's mark after `xadd` overwrites a fast worker's `done`; `ticket()` reads the
  local copy first; acknowledged entries are not deleted from the stream; a crash between
  claim and queue leaves the key claimed; `stop()` with a popped batch loses it.

Approvals
- `apply_decision` (`copilot/execute.py:428`) does not look at the decision's status, so
  `POST /copilot/decisions/{id}/execute` carries out what still waits for approval; its
  docstring says "Carry out a decision a person has approved." (`api/v1/copilot.py:222`).
- A run whose time is over, or in which a call raises, after the re-plan has committed
  (`agents/graph.py:677`, ended by `:918`) is listed as failed though its plan is in force.
- An approval that timed out is remembered as rejected and holds the incident's plans
  for half an hour; a run held by the storm limit counts toward it, and nothing asks for
  the "next" it is coalesced into; a waiting run that leaves `RUNS` is answered by nobody;
  `demo_decide` reads the status and then updates whatever it has become.

Agencies and surge
- "A request used to wait forever unless an officer clicked" (`ops/agency_replies.py:1`):
  it still does when a call fails before or after the claim, when an acknowledgement races
  the closing answer, and after a restart, which loses the waiters and the answers under
  way and re-arms none (`main.py:31`); only a demo's ticks look for due requests. A waiter
  adds 0.2 s to the time, so a database clock further behind than that makes it wake for
  nothing. TLC refutes `EveryRequestCloses` in each of these when `Undisturbed` does not
  leave it out.
- Answers that overlap may ask the same agency
  twice; a cancel racing an answer is overwritten; a hedge and the delayed original both
  come; the swarm's `record` ignores the status.
- An evaluation that began before an officer's declaration or step-down overwrites it.
- Without a demo nothing evaluates again on its own: `replan()` returns before
  `maybe_evaluate` when there is no open demand (`agents/replan.py:472`), which is when a
  ladder should come down, and aid asked for then waits. TLC refutes `AidIsAnswered` and
  `LadderFollowsLoad` without their condition on `demo`.
- Any of the staff can put level 4 in force with `POST /surge/demobilise?to=4`
  (`api/v1/surge.py:100`), without the declaration that asks the NDRF and the Army ("only
  after an officer approves (/surge/declare)", `surge/service.py:20`).
- A failure between the two inserts of an aid request (`surge/service.py:274`) leaves an
  agency request that is linked to no aid and answered by nobody; a failed climb is
  climbed again at the next check and asks what is not outstanding.
- Two evaluations at once may both ask one offer (`OneAskPerOffer` in `races`);
  stepping down leaves `agency_requests` of cancelled aid open; busy aid units at the
  stand-down are never returned; full shelters alone never reach level 3, although
  `src/backend/migrations/034*.sql` lists them.

Intake
- The Wilson bound of a reporter falls from 0.5 to 0.21 with the first confirmed report
  (`src/backend/migrations/015_reporter_key.sql:81`), although the comment says it "starts
  everybody near 0.5 and moves only as evidence accumulates": a first true report makes
  the next one be believed less.
- "A second independent report would confirm it" (`incidents/trust.py:219`): a report is
  never scored again; the second is confirmed, the first keeps its status.
- A crew's first report with a photo in a ward at full risk scores 0.699, below the bar,
  unless another device reported the place, where the endpoint's docstring says it "will
  usually clear the auto-confirm floor on its own" (`api/v1/personas.py:1073`). It is what
  `ConfirmedHasCompanySafe` proves of a reporter with five right reports or fewer.
- A held report keeps the severity it was read with as `unknown_report` (base 3) when an
  officer names its category. The model is asked about an unsure match within the
  transaction, while the reading of the severity was moved out of it for that reason
  (`incidents/intake.py:545`).

Mesh
- A bridge that has heard more than 100 packets since its cursor posts them all and gets
  422 for ever (`api/v1/mesh.py:48`, `src/backend/scripts/mesh_bridge.py:106`): the cursor
  moves with a 200 only. TLC refutes `HeardBecomesReport` without its `Stuck`.
- `pull` says a message is offered again until it is acknowledged or expires; it is
  offered five times. A message that cannot be built is skipped for good. Re-offering can
  put a dispatch after its cancel.

Drone link
- `_tick` works on the expectations it copied: with two incidents, the second miss of an
  old one pops a newer one of the same incident.
- The mode of a plan is fixed before `await ports.record`: a stop pressed meanwhile does
  not hold it. A reject during an application is overwritten by "applied"; two approvals
  at once send every command twice.
- On a socket that closed, the exception is not one `apply_plan` catches: the plan stays
  "proposed" with commands already accepted and nothing expected of them. A command that
  timed out may have been carried out.
- `assign_unit` by hand claims nothing, so an automatic plan may take the same unit.
- Two scans at once (`swarm_agency.scan_once`, from the run loop and from the graph) both
  ask for the same incident: the check and `self.sent` have an await between them. An
  event is marked `seen` before its answer is recorded.

## 5. Proofs

Induction is used by its other form throughout: of the counterexamples to a claim about
numbers or finite sets one is smallest, by the library's theorems that `<` on naturals and
the strict subsets of a finite set are well founded. In this form no operator is passed to
a theorem.

### EventRouterProofs

For any number of replicas, cities and events, in this order:

| Theorem | Says | Assumes |
|---|---|---|
| `TypeCorrect` | every variable keeps its type | nothing |
| `LeaseSafe` | `[]LeaseInv` | `PromptLease` |
| `OnlyHolderPollsSafe` | whoever polls is named by the lease row | `PromptLease` |
| `OneRePlannerSafe` | two routers never re-plan at once | `PromptLease`, `OnlyTheLog` |
| `CursorSafe` | `[]CursorInv` | `PromptLease`, `Resumable` |
| `EveryEventRoutedSafe` | what the leader's cursor has passed was decided about | the same |
| `StoredIsRoutedSafe` | so was what the stored cursor has passed | the same |
| `RefinesSafely` | every step is one of `ReactivePlanning` or changes nothing it speaks of | nothing |
| `HandedOverIsKeptSafe` | the demo's flag goes down with a re-plan that read everything | nothing |
| `PausedBeginsNoWriteSafe` | a paused replica's own loop begins no write | `GraphEnabled` |
| `NothingForgottenSafe` | a request in memory stays until a re-plan has it before it, or the graph gives up its pass | `Attentive` |

`OnlyHolderPolls` is not inductive: whether a replica may poll depends on what it
believed when it took the lease and on the row having been taken from nobody alive.
`LeaseInv` is the strengthening: a row lapses only when its holder is dead, a replica
that leads is the one the row names, one that is past `hold` leads, one that is down
does not. `IdleInv` adds that a replica that does not lead has nothing pending and
nothing in flight. `CursorInv` says where a cursor may stand: `Settled(n)` when every
id up to n is closed and every committed one among them was routed; the stored cursor,
the cursor of a leader, and the value a new leader has just read from the row are all
settled, and at most the newest id is still open. The proof has one step per action;
the work is in `Poll` (the batch is a prefix of the committed ids, so the new cursor is
settled again) and `TakeOver` (the row's value is close enough to be resumed from).

The assumptions are what the environment of an instance does (`Disturbance`), and each
is named because the code breaks the property without it: `PromptLease`, no database
error in `hold` and no leader slower than its lease; `OnlyTheLog`, re-plans are asked
for by the log and not by other handlers or a resume; `Resumable`, the log is not empty
at the first start, no more events come than the look-back reaches, and ids become
visible in order (section 4 has the counterexample without it).

The last four are about steps. `MemoryInv` is what they share and needs no assumption:
what was answered is committed, what a re-plan has before it are committed rows of its
own city, a demo runs in one city, a process that is down is not paused. From it
`RefinesSafely`: a step of the log either leaves the changes alone or makes one row that
was not committed a change, which nobody can have answered yet (`ChangeSteps`; the row
may be one an officer's re-plan writes as it ends), and what is answered grows by
committed rows a re-plan had read (`AnswerSteps`). With it the safety half of `ImplementsReactivePlanning` holds for every
instance; the other half is fairness.

`NothingForgotten` is proved from the six places a request can be in one replica
(`Holds`): a step that takes it out of one puts it in another, or in what was answered,
or is the end of a graph pass without a plan (`GivenUp`).
`Attentive` names the environment in which that is so: no crash, no re-plan that raises,
no demo (a request handed to one ends with it), and one city where officers stop and
resume, since a resume asks for the officer's city only; TLC shows the property broken
when any one of the four is left out, and `PausedBeginsNoWrite` without the graph, where
the loop looks at the flag once per batch and not before each city
(`agents/event_router.py:259`).

### DispatchProofs

For any fleet, incidents, needs and skills and any number of jobs:

| Theorem | Says | Assumes |
|---|---|---|
| `TypeCorrect` | types, and `RankInv` | nothing |
| `RedirectStandsSafe` | no plan takes away the job of a pinned redirect | nothing |
| `RedirectIsCurrentSafe` | while under way, it is the job every reader finds, unless a re-plan began while it was being written (`Raced`) | nothing |
| `OrdersRespectedSafe` | plans obey pins, holds and vetoes | `Alone` |
| `OneJobPerUnitSafe` | a unit has one active job at most | `Alone`, `NoStaging`, `NoPoolByHand` |
| `AvailableIsFreeSafe` | an available unit has none | the same |
| `CancelledLeavesPhoneSafe` | a cancelled job has no open task | `ClosingOps` |

The assumptions are on the constants: `Alone` is `Overlap = FALSE`, and the others leave
out the operations that are known to break the property: staging, a return to base and
pre-positioning give a unit a job without an incident, which a re-plan takes for no job; `back` and `task_complete` put a unit in the pool beside its job; staging cancels without closing tasks, and `PATCH /tasks`
opens any task. The first three theorems assume nothing: they hold however a solve is
overlapped and whatever officers and crews do.

The argument. A first layer says what any step does to the rows of a unit: it never
removes one, changes its incident or its rank, or takes up an ended one (`Grows`), and
it touches one unit and adds one row at most (`Touches`, `Moves`, `Adds`, `Redirects`);
each action is shown to have one of these shapes, and the invariants are proved from
the shapes. `RankInv` bounds ranks by the number of rows and says that the plan in
flight left itself room. For the redirect: the pin is written with the job, so a plan
that read the job as the unit's current one finds the pin when it loads the orders and
locks the unit (`RedirectInv`); a plan that read before the redirect writes against an
older job, with an older rank (`CurrentInv`, which like the property leaves out the
redirects that raced with the start of a plan). With nothing committing during a solve,
what the plan read is still so when it writes (`SnapshotInv`), which gives
`OrdersRespected` at once and, with `SingleInv` (every job has an incident, one is
active at most, a unit with one is not in the pool), the last ones.

TLC checked `RankInv`, `RedirectInv` and `CurrentInv` in the instance of
`dispatch_overlap`, and all five strengthenings in that of `dispatch_serial`, before
they were proved.

### IngestBusProofs

For any number of replicas, doors, items, lanes and submissions, both backends and every
fault:

| Theorem | Says | Assumes |
|---|---|---|
| `TypeCorrect` | types, and `GivenInv` | nothing |
| `AcceptedIsKeptSafe` | an accepted item is processed or somewhere it can be processed from | nothing |
| `OncePerKeySafe` | of the submissions of one key one is processed, once | `~trouble`, in the statement |

The argument is by shapes again. Each await of a submission, each step of a worker and
each fault is shown to be one of a few shapes (`RequestShape`, `SubmitShape`,
`ProcessShape`, `TakeShape`, `GivesBackShape` and others), which say what it
does to one submission, one hand and the queues, and the invariants are proved once per
shape. `GivenInv` says that what a worker reads from the streams is no longer unread and
what is pending was added; `KeptInv` follows an item from its answer to its queue, stream
or hand.

`OncePerKey` needs three strengthenings (`OInv`). `BackendInv`: in one process nothing
can be troubled and nothing is in a stream. `PlaceInv`: what is not processed yet is in
one place at most, a queue or one worker's hands, or a stream. `OwnerInv`: the key
belongs to one submission. The two backends differ in what "belongs" is, which is why
it has two forms: a process's dictionary names every submission it ever let in while it
lives (`OwnedHere`; two let in by one process cannot share a key), but the shared key
names only one that counts, that is, one past the claim, in a stream or processed
(`OwnedThere`), since a request that died after its claim still holds the key. `trouble`
is what the code does not defend against: a call to Redis that failed (the fall-back
lets the key in again) or a batch taken over while its worker was about to acknowledge.

### ApprovalsProofs

For any number of runs, decisions and officers, any plans, limits and scenes:

| Theorem | Says | Assumes |
|---|---|---|
| `TypeCorrect` | types | nothing |
| `WrittenIsAuthorisedSafe` | what a run wrote was within the delegation or approved | nothing |
| `ApprovedIsWrittenSafe` | an approved run moves nobody the officer did not see | no `late_move`, in the statement |
| `NothingActsAloneSafe` | what the gate held is not carried out before a yes | no `execute`, in the statement |

None of the three is inductive: each speaks of a run that has written, and says nothing
of one about to. `Good` says of a run at each node what has been established by then:
past the gate or the wait, the proposal is within the delegation or an officer said yes;
at the write, an approved proposal still covers what a solve would move (`CheckedDrift`
looked, and only a `late_move` could change it before the write); a run that has ended is
at the end, so no second answer or time-out drives it on. A run is one of a sequence and
a step changes one of them and perhaps the world (`Moves`), so it is enough that the
moved run is good and that the others do not depend on what changed: a world that moves
is the one case where they do. `Sound` is the same for decisions: one that its proposer
still has to carry out was within the delegation and sure.

### AgencyRepliesProofs

For any agencies, quantities, length of chain, numbers of tasks, officers and requests, and
any scenes:

| Theorem | Says | Assumes |
|---|---|---|
| `InvHolds` | `[]Inv`, the inductive invariant | nothing |
| `TypeCorrect` | types; an answer under way is about a row that exists | nothing |
| `NeedIsHeldSafe` | a closed request has passed its need on | nothing |
| `SuppliedOnceSafe` | no more is staged for a shortfall than was asked for | no hedges, no officers, one shortfall, in the statement |

The shares are sums over rows, so the module begins with what a sum is. The community
modules define it as a fold; `SumsByOne` gets the function behind the fold from its
definition, `SumTakesOut` (any member may be taken out first) and `SumOfLess` (fewer and
smaller terms have a smaller sum) are proved by a smallest counterexample.

`Held` is `NeedIsHeld` with the answers that are under way: what a hand has still to ask
for covers what its row lacks (`Short`), a follow-up it has made but not scheduled covers
it, and before the row is written the need is passed on. Rows only grow in what this
reads (`Grown`: nothing staged or escalated is taken back, a follow-up keeps its quantity),
so what was passed on stays so, whatever others do to the same row in between: this is
what writing the row last buys, and why failing calls do no harm.

`stand_down` trusts a sum of `cardinality(units)` (`ops/agency_replies.py:262`), which two
answers of one follow-up would count twice (`units = units || ...`, `:364`). `Child` says
that there are never two: a follow-up has one hand, its units are on the row at most once,
and they are in the fleet by then. It holds of tasks because the due time is the token
that is claimed. Of officers who race it holds by the bound in `Respond` only ("only about
their own"): in the code an officer may record a follow-up's answer while a task is
answering it. TLC found no state that breaks `NeedIsHeld` without the bound, in five
minutes; the proof does not speak of it.

`Token` is what `SuppliedOnce` rests on. Without hedges and officers the requests of a
shortfall form a chain, and the right to bring units is handed along it: either one row, the
newest, is due, or one hand is on it. What was staged before a request and its own
quantity together are at most the first quantity (`TokenRow`), and a follow-up asks for what
its request lacks.

An answer's own steps change one row and one hand (`Own`, and `OwnKeeps`); taking up a
request (`TakeKeeps`), inserting a follow-up and scheduling it are the steps that change
something else. TLC checked `Inv` in the instance of `agencies` before it was proved.

### SurgeLadderProofs

For any number of actors, agencies' offers, requests and evaluations, any load:

| Theorem | Says | Assumes |
|---|---|---|
| `TypeCorrect` | types | nothing |
| `OneAskPerOfferSafe` | an offer has one outstanding request at most | no `races`, in the statement |

Types hold for overlapping calls as well (`Sane` ties a call's place to what it holds).
Without overlap at most one call is in the middle of anything (`Serial`), and what it is
about to ask for, or has asked for and not yet linked, is outstanding nowhere (`Clear`).
Every step of a call is an instance of `CallKeeps`, every other change of the rows of
`RowsKeep`. A call that fails drops what it had in hand, which leaves less to show. With
`races` the property fails, and TLC shows it in seconds (section 4).

### LinkProofs: MeshGateway

For any number of gateways, events and packets, any batch, limit and number of losses:

| Theorem | Says | Assumes |
|---|---|---|
| `TypeCorrect` | types; at most `MaxAttempts` offers | nothing |
| `AckedWasAiredSafe` | an acknowledged message was broadcast | nothing |
| `OneReportSafe` | a packet becomes a report at most once | nothing |
| `NothingSkippedSafe` | the cursor leaves no event behind without its message | `Calm`, in the statement |

The two halves of the module touch disjoint variables (`Halves`), so each invariant has
the steps of one half to look at. `RowInv` (a message not handed out has no attempts)
and `FromInv` (a sync that reads has read a cursor) make the types inductive. A gateway
acknowledges only what its own broadcast took (`AiredInv`). `HandledInv` is why the
insert decides: a packet that is being handled was stored, its handler is the only one,
and nothing came of it yet. `SkipInv` says of every position, the cursor and the ones
two overlapping syncs still hold, that the events up to it have messages or are among
the rows in hand (`Covers`, `PullCovers`); the work is in `RowsReachLast`: a batch that
is not full reaches the last id that was read after it, since the log only grew at its
end.

### LinkProofs: SwarmLink

The second half instantiates SwarmLink (`Link`) with variables declared there: for any
units, wants, scenes and bounds, and a finite set of incidents none of which is called
`None` (`LinkAssumes`, all of it in `SwarmAssumption`).

| Theorem | Says | Assumes |
|---|---|---|
| `LinkTypeCorrect` | types | `LinkAssumes` |
| `UnitsNotPoachedSafe` | `Link!UnitsNotPoached`: automatic plans never move a unit under orders elsewhere | `LinkAssumes` |

The types need what ties a task to its plan (`TaskOK`): a plan that is being recorded or
applied is one that is in use, since its number is given to another only when nobody
holds it (`SpareIs`). `UnitsNotPoached` speaks of one step; what makes it true are two
facts that hold all the time, while no officer sends or approves. What a task has still
to send is claimed for its plan's incident, and under no order elsewhere (`Owned`). A
unit under orders is claimed for where it was sent, or is there and seen there
(`Placed`). So a unit that is free for an incident, which is seen nowhere and claimed by
nobody else, has no orders elsewhere (`PlannedKeeps`), the claim taken without an await
keeps the other task off it until the command is sent (`SendKeeps`), and a claim may
lapse only behind a unit that has been seen where it was sent (`ClockKeeps`: the one
step that needs the assumption of section 2 on how long a claim lasts). A claim alone is
not enough, and neither is the snapshot: either fact by itself is not inductive.

### IntakeProofs

For any handlers, reports, places, pool sizes and bounds, from `IntakeAssumption` only:

| Theorem | Says | Assumes |
|---|---|---|
| `RowsStayWhole` | `[]Inv`, the inductive invariant | nothing |
| `NeedsCoverReportsSafe` | an incident needs what each of its reports asks for | nothing |
| `IncidentsFollowReportsSafe` | count and severity are those of the reports | no `overlap`, no `officers`, in the statement |
| `ConfirmedHasCompanySafe` | nobody confirms a report by repeating it | a device or account that is known, in the statement |

The first is what the others rest on. `RowsInv` and `TaskInv`: a report is linked to an
incident of its own place, and what a handler holds (the incident it chose, the report it
classifies) still is in the tables with the form and the mark it read. `CountsInv`, for
the scenes without races: what a handler counted before it commits is what its commit
makes true, since no other handler is about to commit to that incident or has that report
in hand. Verdicts, closings and confirmations change no row in what these read
(`RowsKept`), so a step of a handler (`WellMoved`) and a commit are where the work is.

`ConfirmedHasCompany` is about arithmetic. `CompanyInv` says of every stored report, and
of every handler past the score, that a high mark was earned: somebody else reported the
place, or the device has more than five reports already. Wilson's bound of at most five
right reports is 0.5655 (`ShortHistory`, which needs that a whole square root exists),
and with a crew's credibility, the surest place, the best evidence and no corroboration
the score stays below 7120 of 10000 where the bar is 7200 (`AloneIsNotHigh`); a sixth
right report lifts it over the bar, so the number in the statement is the exact one. The
incident a report is matched with has no sender but himself, or company (`Others`); of
a sender of whom nothing is known this fails, and the statement leaves him out (section 4).
A report that is being filed counts against `MaxReports` (`Filing`), as in the model.

`RowsStayWhole` has the types of rows and handlers; of `TypeOK`, the connections of the
pool and the bound on the number of incidents are left to TLC.

TLC checked `OnceInv` (which is `OInv` without its parts named) and the `Inv` of Approvals,
SurgeLadder and Intake in the instances of their runs before they were proved.

Out of the prover's reach: liveness under fairness and `ENABLED` (so the temporal half
of `ImplementsReactivePlanning`).

## 6. What is only model-checked, and what is not modelled

Only TLC: every liveness property (`ImplementsReactivePlanning`, `AcceptedIsAnswered`,
`RunsEnd`, `EveryRequestCloses`, `AidIsAnswered`, `LadderFollowsLoad`,
`EveryMessageSettles`, `HeardBecomesReport`, `EveryExpectationSettles`, `PlanningEnds`,
`EveryReportIsAnswered`). The invariants and action properties are also proved.
The refinement is checked without the graph (`GraphEnabled = FALSE`): with it, a run
may wait for an officer or be held, and nothing is promised.

Left out of the modelled components: what "note" in PROJECT.json says of each.

Not modelled, and why. Two thirds of the implementation are queries, read models and
numbers: endpoints that select and shape rows (`api/v1/*`), the copilot's prompts and
tools, travel times, hazards and forecasts, training, the browser. They have no control
beyond one request, and a model of them would repeat them. The map therefore covers
the coordination code (router, lease, graph, gate, ingest, agencies, surge, mesh, link,
intake: most of their lines) and a small share of the whole.

## 7. Plan

Done: EventRouter, Dispatch, IngestBus, Approvals, AgencyReplies, SurgeLadder,
MeshGateway, SwarmLink, Intake, and the proofs above.

Left, in order of worth: the requests of `swarm_agency` composed with AgencyReplies; the phone
outbox in front of IngestBus; the demo's scripted incidents.
