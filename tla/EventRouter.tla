---------------------------- MODULE EventRouter ----------------------------
(***************************************************************************)
(* The event router of the backend (app/agents/event_router.py), the       *)
(* leader lease it runs under (app/core/lease.py), the emergency stop that *)
(* silences it (app/ops/autonomy.py) and the three places a re-plan starts *)
(* from: the router's own loop, the demo runner's tick and an officer's    *)
(* POST /replan.                                                           *)
(*                                                                         *)
(* Every replica tails the append-only events table by id.  Only the lease *)
(* holder polls; its cursor is stored in the lease row.  Routed events     *)
(* leave a request in the memory of the process, a debounced loop takes    *)
(* the requests and re-plans city by city.                                 *)
(*                                                                         *)
(* Time is abstract: expires_at < now() is the flag `lapsed`, raised by an *)
(* environment step.  An event id is drawn when its row is inserted and    *)
(* the row is seen by others when its transaction commits, so ids become   *)
(* visible in any order.                                                   *)
(***************************************************************************)
EXTENDS Integers, Sequences, FiniteSets

CONSTANTS
  Replica,        \* the backend processes
  City,           \* city ids
  EventClass,     \* the [kind, actor] classes of event the rest of the system writes
  NoHolder,       \* there is no service_leases row yet
  Dead,           \* the row names a process that no longer exists
  NoPass,         \* no re-plan is running
  OldEvents,      \* rows in the log, all polled, when the system comes up; 0: a fresh install
  MaxEvents,      \* bound: rows in the event log
  PollLimit,      \* rows one poll reads ("limit 500")
  Lookback,       \* how old a stored cursor may be (5000 ids)
  GraphEnabled,   \* settings.agent_graph_enabled: re-plans go through the graph
  Disturbance     \* what the environment may do in this instance

Disturbances == {"crash", "db_error", "slow_leader", "reorder", "plan_error",
                 "pause", "demo", "direct", "manual"}

(* Who runs a re-plan: the router's loop, the demo tick, an API request. *)
Planner == {"router", "demo", "officer"}

ReplanKinds == {"incident.opened", "road.blocked", "field.on_site", "override.hold"}
IgnoredKinds == {"plan.generated"}
OtherKinds == {"assignment.cancelled", "decision.proposed"}
PlannerKinds == {"plan.generated", "assignment.cancelled"}
Actors == {"person", "agent", "planner"}
Kind == ReplanKinds \cup IgnoredKinds \cup OtherKinds

Event == [kind : Kind, actor : Actors, city : City,
          st : {"open", "committed", "aborted"}]
PassType == [city : City, phase : {"think", "write"}, seen : SUBSET Nat]

ASSUME RouterAssumption ==
  /\ Replica # {} /\ City # {}
  /\ EventClass \subseteq [kind : Kind, actor : Actors]
  /\ NoHolder \notin Replica /\ Dead \notin Replica /\ NoHolder # Dead
  /\ NoPass \notin PassType
  /\ OldEvents \in Nat /\ MaxEvents \in Nat /\ OldEvents <= MaxEvents
  /\ PollLimit \in Nat \ {0} /\ Lookback \in Nat
  /\ GraphEnabled \in BOOLEAN
  /\ Disturbance \subseteq Disturbances

VARIABLES
  log,        \* the events table; an id is an index
  holder, lapsed, stored,   \* the lease row: holder, expires_at < now(), meta.cursor (0: none)
  pc,         \* the poll loop of each replica
  leader, cursor,           \* _State.leader, _State.cursor
  meta,       \* the cursor lease.hold returned to a process that just became leader
  pend,       \* _State.pending: the cities a re-plan is asked for
  todo,       \* by_city of the batch the re-plan loop is working through
  pass,       \* the re-plans in flight, per replica and planner
  demo, dirty,              \* demo runner: {state.city_id} while it runs, state.dirty
  paused, held,             \* autonomy.state: paused, held_replans (by city)
  control,    \* control_state['autonomy'].paused, what a restart reads
  routed,     \* history: the ids some poll decided about
  answered    \* history: the ids some finished re-plan had before it

leaseVars == <<holder, lapsed, stored>>
pollVars  == <<pc, leader, cursor, meta>>
demoVars  == <<demo, dirty>>
stopVars  == <<paused, held, control>>
history   == <<routed, answered>>
vars == <<log, leaseVars, pollVars, pend, todo, pass, demoVars, stopVars, history>>

----------------------------------------------------------------------------
Committed == {i \in DOMAIN log : log[i].st = "committed"}
Open == {i \in DOMAIN log : log[i].st = "open"}

(* select coalesce(max(id), 0) from events *)
Head0 == IF Committed = {} THEN 0
         ELSE CHOOSE i \in Committed : \A j \in Committed : j <= i

(* route(ev).replan is not None.  The planners' actor names all start with  *)
(* "agent:", so neither they nor another agent count as an officer.         *)
Route(e) ==
  /\ e.kind \notin IgnoredKinds
  /\ e.actor # "planner"
  /\ \/ e.kind \in ReplanKinds
     \/ e.kind = "assignment.cancelled" /\ e.actor = "person"

Worthy == {i \in Committed : Route(log[i])}
IdsOf(c) == {i \in Committed : log[i].city = c}

(* rows of: where id > cursor order by id limit PollLimit *)
Fresh(r) == {i \in Committed : i > cursor[r]}
Rows(r) == {i \in Fresh(r) : Cardinality({j \in Fresh(r) : j <= i}) <= PollLimit}

(* A row can be inserted: within the bound and, without "reorder", not while *)
(* another transaction holds a smaller id open.                             *)
Room == Len(log) < MaxEvents /\ ("reorder" \in Disturbance \/ Open = {})

NewPass(c, ph) == [city |-> c, phase |-> ph, seen |-> IdsOf(c)]

(* A fresh install, or a system that ran before: its lease row names a      *)
(* process that is gone and carries the cursor it had stored.               *)
Init ==
  /\ log \in [1..OldEvents -> {[kind |-> "decision.proposed", actor |-> "person", city |-> c,
                                st |-> "committed"] : c \in City}]
  /\ holder = IF OldEvents = 0 THEN NoHolder ELSE Dead
  /\ lapsed = FALSE /\ stored = OldEvents
  /\ pc = [r \in Replica |-> "down"]
  /\ leader = [r \in Replica |-> FALSE]
  /\ cursor = [r \in Replica |-> 0]
  /\ meta = [r \in Replica |-> 0]
  /\ pend = [r \in Replica |-> {}]
  /\ todo = [r \in Replica |-> {}]
  /\ pass = [r \in Replica |-> [k \in Planner |-> NoPass]]
  /\ demo = [r \in Replica |-> {}]
  /\ dirty = [r \in Replica |-> FALSE]
  /\ paused = [r \in Replica |-> FALSE]
  /\ held = [r \in Replica |-> {}]
  /\ control = FALSE
  /\ routed = {} /\ answered = {}

----------------------------------------------------------------------------
(* Writers of the event log (app/world/events.py append, in the caller's   *)
(* transaction).  Without "reorder" the transactions commit in id order.   *)
Insert(cls, c) ==
  /\ Room
  /\ log' = Append(log, [kind |-> cls.kind, actor |-> cls.actor, city |-> c, st |-> "open"])
  /\ UNCHANGED <<leaseVars, pollVars, pend, todo, pass, demoVars, stopVars, history>>

Finish(i, st) ==
  /\ i \in Open
  /\ log' = [log EXCEPT ![i].st = st]
  /\ UNCHANGED <<leaseVars, pollVars, pend, todo, pass, demoVars, stopVars, history>>

(* The lease runs out: at once if its process is gone, and under            *)
(* "slow_leader" also while a live holder is stuck between two renewals.    *)
Lapse ==
  /\ ~lapsed
  /\ \/ holder = Dead
     \/ holder \in Replica /\ "slow_leader" \in Disturbance
  /\ lapsed' = TRUE
  /\ UNCHANGED <<log, holder, stored, pollVars, pend, todo, pass, demoVars, stopVars, history>>

----------------------------------------------------------------------------
(* The poll loop.                                                          *)

(* Startup: autonomy.load, then the cursor at the head of the log. *)
Start(r) ==
  /\ pc[r] = "down"
  /\ pc' = [pc EXCEPT ![r] = "hold"]
  /\ cursor' = [cursor EXCEPT ![r] = Head0]
  /\ paused' = [paused EXCEPT ![r] = control]
  /\ UNCHANGED <<log, leaseVars, leader, meta, pend, todo, pass, demoVars, held, control, history>>

(* The UPDATE without "or expires_at < now()": nobody ever takes over. *)
BugAcquireOwnRowOnly(r) ==
  /\ pc[r] = "hold"
  /\ holder \in {r, NoHolder}
  /\ holder' = r /\ lapsed' = FALSE
  /\ stored' = IF leader[r] THEN cursor[r] ELSE stored
  /\ leader' = [leader EXCEPT ![r] = TRUE]
  /\ meta' = [meta EXCEPT ![r] = IF leader[r] THEN meta[r] ELSE stored]
  /\ pc' = [pc EXCEPT ![r] = IF leader[r] THEN "poll" ELSE "takeover"]
  /\ UNCHANGED <<log, cursor, pend, todo, pass, demoVars, stopVars, history>>

(* The UPDATE without its condition: every caller gets the lease. *)
BugAcquireAlways(r) ==
  /\ pc[r] = "hold"
  /\ holder' = r /\ lapsed' = FALSE
  /\ stored' = IF leader[r] THEN cursor[r] ELSE stored
  /\ leader' = [leader EXCEPT ![r] = TRUE]
  /\ meta' = [meta EXCEPT ![r] = IF leader[r] THEN meta[r] ELSE stored]
  /\ pc' = [pc EXCEPT ![r] = IF leader[r] THEN "poll" ELSE "takeover"]
  /\ UNCHANGED <<log, cursor, pend, todo, pass, demoVars, stopVars, history>>

(* lease.hold: the UPDATE renews or steals, the INSERT creates the row.     *)
(* A sitting leader passes its cursor; anybody else leaves meta alone.      *)
Acquire(r) ==
  /\ pc[r] = "hold"
  /\ holder \in {r, NoHolder} \/ lapsed
  /\ holder' = r /\ lapsed' = FALSE
  /\ stored' = IF leader[r] THEN cursor[r] ELSE stored
  /\ leader' = [leader EXCEPT ![r] = TRUE]
  /\ meta' = [meta EXCEPT ![r] = IF leader[r] THEN meta[r] ELSE stored]
  /\ pc' = [pc EXCEPT ![r] = IF leader[r] THEN "poll" ELSE "takeover"]
  /\ UNCHANGED <<log, cursor, pend, todo, pass, demoVars, stopVars, history>>

Refused(r) ==
  /\ pc[r] = "hold"
  /\ holder \notin {r, NoHolder} /\ ~lapsed
  /\ leader' = [leader EXCEPT ![r] = FALSE]
  /\ UNCHANGED <<log, leaseVars, pc, cursor, meta, pend, todo, pass, demoVars, stopVars, history>>

(* lease.hold caught an exception: "return True, {}". *)
HoldFailed(r) ==
  /\ "db_error" \in Disturbance
  /\ pc[r] = "hold"
  /\ leader' = [leader EXCEPT ![r] = TRUE]
  /\ meta' = [meta EXCEPT ![r] = IF leader[r] THEN meta[r] ELSE 0]
  /\ pc' = [pc EXCEPT ![r] = IF leader[r] THEN "poll" ELSE "takeover"]
  /\ UNCHANGED <<log, leaseVars, cursor, pend, todo, pass, demoVars, stopVars, history>>

(* The takeover forgets the stored cursor.                                  *)
BugResumeAtHead(r) == IF cursor[r] > Head0 THEN cursor[r] ELSE Head0

ResumeCursor(r) ==
  IF meta[r] # 0 /\ Head0 - meta[r] <= Lookback THEN meta[r]
  ELSE IF cursor[r] > Head0 THEN cursor[r] ELSE Head0

TakeOver(r) ==
  /\ pc[r] = "takeover"
  /\ pc' = [pc EXCEPT ![r] = "poll"]
  /\ cursor' = [cursor EXCEPT ![r] = ResumeCursor(r)]
  /\ meta' = [meta EXCEPT ![r] = 0]
  /\ UNCHANGED <<log, leaseVars, leader, pend, todo, pass, demoVars, stopVars, history>>

(* The select of TakeOver or of Poll raised: log it, sleep, go round. *)
QueryFailed(r) ==
  /\ "db_error" \in Disturbance
  /\ pc[r] \in {"takeover", "poll"}
  /\ pc' = [pc EXCEPT ![r] = "hold"]
  /\ meta' = [meta EXCEPT ![r] = 0]
  /\ UNCHANGED <<log, leaseVars, leader, cursor, pend, todo, pass, demoVars, stopVars, history>>

(* _poll_once: no await between the rows, so one step. *)
Poll(r) ==
  /\ pc[r] = "poll"
  /\ pc' = [pc EXCEPT ![r] = "hold"]
  /\ cursor' = [cursor EXCEPT ![r] =
                  IF Rows(r) = {} THEN @ ELSE CHOOSE i \in Rows(r) : \A j \in Rows(r) : j <= i]
  /\ routed' = routed \cup Rows(r)
  /\ LET asked == {log[i].city : i \in Rows(r) \cap Worthy}
     IN  IF paused[r]
         THEN held' = [held EXCEPT ![r] = @ \cup asked] /\ UNCHANGED pend
         ELSE pend' = [pend EXCEPT ![r] = @ \cup asked] /\ UNCHANGED held
  /\ UNCHANGED <<log, leaseVars, leader, meta, todo, pass, demoVars, paused, control, answered>>

----------------------------------------------------------------------------
(* The re-plan loop: wake, debounce, take the batch, one city at a time.    *)
TakeBatch(r) ==
  /\ pc[r] # "down"
  /\ pend[r] # {} /\ todo[r] = {} /\ pass[r]["router"] = NoPass
  /\ pend' = [pend EXCEPT ![r] = {}]
  /\ IF paused[r]
     THEN held' = [held EXCEPT ![r] = @ \cup pend[r]] /\ UNCHANGED todo
     ELSE todo' = [todo EXCEPT ![r] = pend[r]] /\ UNCHANGED held
  /\ UNCHANGED <<log, leaseVars, pollVars, pass, demoVars, paused, control, history>>

(* One city: hand it to a running demo, let the graph's guard_in refuse it  *)
(* while paused, or start the pass.                                         *)
PlanCity(r, c) ==
  /\ c \in todo[r] /\ pass[r]["router"] = NoPass
  /\ todo' = [todo EXCEPT ![r] = @ \ {c}]
  /\ \/ /\ demo[r] # {}
        /\ dirty' = [dirty EXCEPT ![r] = TRUE]
        /\ UNCHANGED <<pass, held>>
     \/ /\ demo[r] = {} /\ GraphEnabled /\ paused[r]
        /\ held' = [held EXCEPT ![r] = @ \cup {c}]
        /\ UNCHANGED <<pass, dirty>>
     \/ /\ demo[r] = {} /\ ~(GraphEnabled /\ paused[r])
        /\ pass' = [pass EXCEPT ![r]["router"] =
                      NewPass(c, IF GraphEnabled THEN "think" ELSE "write")]
        /\ UNCHANGED <<dirty, held>>
  /\ UNCHANGED <<log, leaseVars, pollVars, pend, demo, paused, control, history>>

(* Dispatch without its second look at the kill switch. *)
BugDispatchUnchecked(r) ==
  /\ pass[r]["router"] # NoPass /\ pass[r]["router"].phase = "think"
  /\ pass' = [pass EXCEPT ![r]["router"] = NewPass(@.city, "write")]
  /\ UNCHANGED <<log, leaseVars, pollVars, pend, todo, demoVars, stopVars, history>>

(* The graph reaches dispatch: refused when paused since, else re-solved.   *)
Dispatch(r) ==
  /\ pass[r]["router"] # NoPass /\ pass[r]["router"].phase = "think"
  /\ IF paused[r]
     THEN /\ held' = [held EXCEPT ![r] = @ \cup {pass[r]["router"].city}]
          /\ pass' = [pass EXCEPT ![r]["router"] = NoPass]
     ELSE /\ pass' = [pass EXCEPT ![r]["router"] = NewPass(@.city, "write")]
          /\ UNCHANGED held
  /\ UNCHANGED <<log, leaseVars, pollVars, pend, todo, demoVars, paused, control, history>>

(* The graph's pass ends without a plan: nothing changes, which its preview *)
(* saw with the world before it; or the pass is given up (too many runs in  *)
(* a minute, no valid plan, held by what an officer rejected, left waiting  *)
(* for an officer, a world that drifted, an error or a time-out the graph   *)
(* keeps to itself).  Only what a stop swallowed comes back, at resume.     *)
GraphEnds(r) ==
  LET p == pass[r]["router"]
  IN  /\ p # NoPass /\ p.phase = "think"
      /\ pass' = [pass EXCEPT ![r]["router"] = NoPass]
      /\ answered' \in {answered, answered \cup p.seen}
      /\ held' = IF paused[r] THEN [held EXCEPT ![r] = @ \cup {p.city}] ELSE held
      /\ UNCHANGED <<log, leaseVars, pollVars, pend, todo, demoVars, paused, control, routed>>

(* The tick lowers the flag after its solve, not before.                   *)
BugFlagLoweredLate(r, k, kind) ==
  /\ pass[r][k] # NoPass /\ pass[r][k].phase = "write"
  /\ answered' = answered \cup pass[r][k].seen
  /\ pass' = [pass EXCEPT ![r][k] = NoPass]
  /\ dirty' = [dirty EXCEPT ![r] = @ /\ k # "demo"]
  /\ UNCHANGED <<log, leaseVars, pollVars, pend, todo, demo, stopVars, routed>>

(* A row replan() writes: in the name of the agent or, for POST /replan, of *)
(* the officer.                                                             *)
PlanRow(k, kind, c) ==
  [kind |-> kind, actor |-> IF k = "officer" THEN "person" ELSE "planner",
   city |-> c, st |-> "committed"]

(* replan() commits, with its rows.  With no open need it returns before it *)
(* writes any.                                                              *)
PassDone(r, k, kind) ==
  /\ pass[r][k] # NoPass /\ pass[r][k].phase = "write"
  /\ answered' = answered \cup pass[r][k].seen
  /\ pass' = [pass EXCEPT ![r][k] = NoPass]
  /\ \/ log' = log
     \/ Room /\ log' = Append(log, PlanRow(k, kind, pass[r][k].city))
  /\ UNCHANGED <<leaseVars, pollVars, pend, todo, demoVars, stopVars, routed>>

(* The pass raised: last_error is set and nothing asks again. *)
PassFailed(r, k) ==
  /\ "plan_error" \in Disturbance
  /\ pass[r][k] # NoPass
  /\ pass' = [pass EXCEPT ![r][k] = NoPass]
  /\ UNCHANGED <<log, leaseVars, pollVars, pend, todo, demoVars, stopVars, history>>

----------------------------------------------------------------------------
(* request_replan from a request handler of this replica (_replan_soon      *)
(* after an officer's cancel, a drone alert): any replica, leader or not.   *)
DirectRequest(r, c) ==
  /\ "direct" \in Disturbance
  /\ pc[r] # "down" /\ c \notin pend[r]
  /\ pend' = [pend EXCEPT ![r] = @ \cup {c}]
  /\ UNCHANGED <<log, leaseVars, pollVars, todo, pass, demoVars, stopVars, history>>

(* POST /replan: straight into replan(), under neither lock. *)
ManualReplan(r, c) ==
  /\ "manual" \in Disturbance
  /\ pc[r] # "down" /\ pass[r]["officer"] = NoPass
  /\ pass' = [pass EXCEPT ![r]["officer"] = NewPass(c, "write")]
  /\ UNCHANGED <<log, leaseVars, pollVars, pend, todo, demoVars, stopVars, history>>

DemoStart(r, c) ==
  /\ "demo" \in Disturbance
  /\ pc[r] # "down" /\ demo[r] = {}
  /\ demo' = [demo EXCEPT ![r] = {c}]
  /\ dirty' = [dirty EXCEPT ![r] = FALSE]
  /\ UNCHANGED <<log, leaseVars, pollVars, pend, todo, pass, stopVars, history>>

(* The demo's own reports, hazard runs and crews also raise the flag. *)
DemoWork(r) ==
  /\ demo[r] # {} /\ ~dirty[r]
  /\ dirty' = [dirty EXCEPT ![r] = TRUE]
  /\ UNCHANGED <<log, leaseVars, pollVars, pend, todo, pass, demo, stopVars, history>>

(* A tick that re-plans: dirty is lowered before the solve. *)
DemoTick(r, c) ==
  /\ c \in demo[r] /\ dirty[r] /\ pass[r]["demo"] = NoPass
  /\ dirty' = [dirty EXCEPT ![r] = FALSE]
  /\ pass' = [pass EXCEPT ![r]["demo"] = NewPass(c, "write")]
  /\ UNCHANGED <<log, leaseVars, pollVars, pend, todo, demo, stopVars, history>>

(* runner.stop cancels the tick, and its transaction rolls back. *)
DemoStop(r) ==
  /\ demo[r] # {}
  /\ demo' = [demo EXCEPT ![r] = {}]
  /\ pass' = [pass EXCEPT ![r]["demo"] = NoPass]
  /\ UNCHANGED <<log, leaseVars, pollVars, pend, todo, dirty, stopVars, history>>

----------------------------------------------------------------------------
(* autonomy.pause: the flag, the demo runner, then the row (best effort).   *)
Pause(r) ==
  /\ "pause" \in Disturbance
  /\ pc[r] # "down" /\ ~paused[r]
  /\ paused' = [paused EXCEPT ![r] = TRUE]
  /\ held' = [held EXCEPT ![r] = {}]
  /\ demo' = [demo EXCEPT ![r] = {}]
  /\ pass' = [pass EXCEPT ![r]["demo"] = NoPass]
  /\ control' \in {TRUE} \cup (IF "db_error" \in Disturbance THEN {control} ELSE {})
  /\ UNCHANGED <<log, leaseVars, pollVars, pend, todo, dirty, history>>

(* Resuming lifts the flag and asks for nothing. *)
BugResumeSilently(r, c) ==
  /\ paused[r]
  /\ paused' = [paused EXCEPT ![r] = FALSE]
  /\ held' = [held EXCEPT ![r] = {}]
  /\ control' = FALSE
  /\ UNCHANGED <<log, leaseVars, pollVars, pend, todo, pass, demoVars, history>>

(* autonomy.resume(city): one re-plan, of the city the officer is in.       *)
Resume(r, c) ==
  /\ paused[r]
  /\ paused' = [paused EXCEPT ![r] = FALSE]
  /\ held' = [held EXCEPT ![r] = {}]
  /\ pend' = [pend EXCEPT ![r] = @ \cup {c}]
  /\ control' \in {FALSE} \cup (IF "db_error" \in Disturbance THEN {control} ELSE {})
  /\ UNCHANGED <<log, leaseVars, pollVars, todo, pass, demoVars, history>>

(* The process dies (or stops: the lease is not released either way).       *)
Crash(r) ==
  /\ "crash" \in Disturbance
  /\ pc[r] # "down"
  /\ pc' = [pc EXCEPT ![r] = "down"]
  /\ leader' = [leader EXCEPT ![r] = FALSE]
  /\ meta' = [meta EXCEPT ![r] = 0]
  /\ holder' = IF holder = r THEN Dead ELSE holder
  /\ pend' = [pend EXCEPT ![r] = {}]
  /\ todo' = [todo EXCEPT ![r] = {}]
  /\ pass' = [pass EXCEPT ![r] = [k \in Planner |-> NoPass]]
  /\ demo' = [demo EXCEPT ![r] = {}]
  /\ dirty' = [dirty EXCEPT ![r] = FALSE]
  /\ paused' = [paused EXCEPT ![r] = FALSE]
  /\ held' = [held EXCEPT ![r] = {}]
  /\ UNCHANGED <<log, lapsed, stored, cursor, control, history>>

----------------------------------------------------------------------------
Write == \/ \E cls \in EventClass, c \in City : Insert(cls, c)
         \/ \E i \in DOMAIN log, st \in {"committed", "aborted"} : Finish(i, st)

PollLoop(r) == Start(r) \/ Acquire(r) \/ Refused(r) \/ TakeOver(r) \/ Poll(r)

ReplanLoop(r) == \/ TakeBatch(r) \/ Dispatch(r) \/ GraphEnds(r)
                 \/ \E c \in City : PlanCity(r, c)
                 \/ \E k \in Planner, kind \in PlannerKinds : PassDone(r, k, kind)

Faulty(r) == \/ HoldFailed(r) \/ QueryFailed(r) \/ Crash(r)
             \/ \E k \in Planner : PassFailed(r, k)

Others(r) == \/ DemoWork(r) \/ DemoStop(r) \/ Pause(r)
             \/ \E c \in City : \/ DirectRequest(r, c) \/ ManualReplan(r, c)
                                \/ DemoStart(r, c) \/ DemoTick(r, c) \/ Resume(r, c)

Next == \/ Write \/ Lapse
        \/ \E r \in Replica : PollLoop(r) \/ ReplanLoop(r) \/ Faulty(r) \/ Others(r)

Spec == Init /\ [][Next]_vars

(* Both loops are asyncio tasks that sleep a bounded time and go round, a   *)
(* solve has a statement timeout, and the clock moves: weak fairness each.  *)
Fairness ==
  /\ WF_vars(holder = Dead /\ Lapse)
  /\ \A r \in Replica :
       /\ WF_vars(PollLoop(r))
       /\ WF_vars(TakeBatch(r)) /\ WF_vars(Dispatch(r))
       /\ \A c \in City : WF_vars(PlanCity(r, c))
       /\ \A k \in Planner : WF_vars(\E kind \in PlannerKinds : PassDone(r, k, kind))

FairSpec == Spec /\ Fairness
----------------------------------------------------------------------------
(* Properties.                                                             *)

TypeOK ==
  /\ log \in Seq(Event) /\ Len(log) <= MaxEvents
  /\ holder \in Replica \cup {NoHolder, Dead}
  /\ lapsed \in BOOLEAN /\ stored \in Nat
  /\ pc \in [Replica -> {"down", "hold", "takeover", "poll"}]
  /\ leader \in [Replica -> BOOLEAN]
  /\ cursor \in [Replica -> Nat] /\ meta \in [Replica -> Nat]
  /\ pend \in [Replica -> SUBSET City]
  /\ todo \in [Replica -> SUBSET City]
  /\ held \in [Replica -> SUBSET City]
  /\ pass \in [Replica -> [Planner -> PassType \cup {NoPass}]]
  /\ demo \in [Replica -> SUBSET City]
  /\ dirty \in [Replica -> BOOLEAN]
  /\ paused \in [Replica -> BOOLEAN] /\ control \in BOOLEAN
  /\ routed \subseteq Nat /\ answered \subseteq Nat

(* "Only the replica holding the event_router lease polls": a replica that  *)
(* is about to take over or to poll is the one named in the lease row.      *)
OnlyHolderPolls == \A r \in Replica : pc[r] \in {"takeover", "poll"} => holder = r

(* "For each new event decides": the cursor of a leader never passes a      *)
(* committed event nobody decided about.                                    *)
EveryEventRouted ==
  \A r \in Replica : leader[r] /\ pc[r] # "takeover" =>
    \A i \in Committed : OldEvents < i /\ i <= cursor[r] => i \in routed

(* The cursor in the lease row, from which the next leader resumes, never   *)
(* runs ahead of the events some leader decided about.                      *)
StoredIsRouted == \A i \in Committed : OldEvents < i /\ i <= stored => i \in routed

(* "N replicas, one re-planner": two replicas never re-plan at once. *)
OneRePlanner ==
  \A r, s \in Replica :
    pass[r]["router"] # NoPass /\ pass[s]["router"] # NoPass => r = s

(* "Two re-plans never write the same rows at once", in one process. *)
NoTwoPasses ==
  \A r \in Replica : \A k, l \in Planner :
    /\ pass[r][k] # NoPass /\ pass[r][k].phase = "write"
    /\ pass[r][l] # NoPass /\ pass[r][l].phase = "write"
    => k = l

(* Once an officer has paused the automation, no router starts a re-plan.   *)
PauseStopsEveryRouter ==
  [][control => \A r \in Replica :
       pass[r]["router"] = NoPass => pass'[r]["router"] = NoPass]_vars

(* While a replica is paused its own loop begins no write: neither a batch   *)
(* taken before the stop nor a graph run that was already thinking gets to  *)
(* replan().  A pass that was already in replan() when the stop came still  *)
(* commits, and a run an officer approved is not this loop's.               *)
PausedBeginsNoWrite ==
  [][\A r \in Replica : paused[r] =>
       ~ /\ pass'[r]["router"] # NoPass /\ pass'[r]["router"].phase = "write"
         /\ pass[r]["router"] # pass'[r]["router"]]_vars

(* "The request is handed to it": while a demo runs, the flag the router    *)
(* raised is lowered only by a re-plan of the demo's city that reads the    *)
(* world after the request, never by the end of an earlier one.             *)
HandedOverIsKept ==
  [][\A r \in Replica, c \in City :
       (dirty[r] /\ c \in demo[r] /\ ~dirty'[r] /\ demo'[r] = demo[r]) =>
         pass'[r]["demo"] # NoPass /\ IdsOf(c) \subseteq pass'[r]["demo"].seen]_vars

(* A leader still has event i ahead of its cursor, or nobody leads and the  *)
(* next leader resumes before i.                                            *)
StillToPoll(i) ==
  \/ (\A r \in Replica : ~leader[r]) /\ stored \in 1..(i - 1)
  \/ \E r \in Replica : leader[r]
       /\ (IF pc[r] = "takeover" THEN ResumeCursor(r) ELSE cursor[r]) < i

(* A request for the city of event i is in the memory of a replica, or a    *)
(* re-plan that read the world after i is running.                          *)
InHand(i) ==
  \E r \in Replica :
    \/ log[i].city \in pend[r] \cup todo[r]
    \/ paused[r] /\ log[i].city \in held[r]
    \/ dirty[r] /\ log[i].city \in demo[r]
    \/ \E k \in Planner :
         /\ pass[r][k] # NoPass
         /\ i \in pass[r][k].seen
    \/ /\ pass[r]["router"] # NoPass
       /\ pass[r]["router"].phase = "think" /\ pass[r]["router"].city = log[i].city

Changes == {i \in Worthy : i > OldEvents}

(* A change that deserves a re-plan is answered, in hand, or still ahead of *)
(* a poller: no step of the router drops it.                                *)
NothingDropped == \A i \in Changes : i \in answered \/ InHand(i) \/ StillToPoll(i)

(* The one way out that is not an answer: the graph's pass for the city of  *)
(* event i ends, with the automation on, before it dispatched.              *)
GivenUp(i) ==
  \E r \in Replica :
    /\ ~paused[r] /\ pass[r]["router"] # NoPass /\ pass'[r]["router"] = NoPass
    /\ pass[r]["router"].phase = "think" /\ pass[r]["router"].city = log[i].city

(* What a replica holds in memory it keeps until a re-plan has read the     *)
(* world after it: no debounce, stop, second look at the kill switch,       *)
(* resume or officer's re-plan in between forgets a request.  Only the      *)
(* graph does, when it ends a pass of its own without a plan.               *)
NothingForgotten ==
  [][\A i \in Changes : InHand(i) => i \in answered' \/ InHand(i)' \/ GivenUp(i)]_vars

(* Strengthenings: what makes the safety properties above inductive.        *)

(* The lease row and the processes agree on who leads.                      *)
LeaseInv ==
  /\ lapsed => holder = Dead
  /\ \A r \in Replica : leader[r] => holder = r
  /\ \A r \in Replica : pc[r] \in {"takeover", "poll"} => leader[r]
  /\ \A r \in Replica : pc[r] = "down" => ~leader[r]

(* Without officers' requests, only a leader has anything to re-plan.       *)
IdleInv ==
  /\ ~control /\ \A r \in Replica : ~paused[r]
  /\ \A r \in Replica : ~leader[r] =>
       pend[r] = {} /\ todo[r] = {} /\ pass[r]["router"] = NoPass

(* n is a cursor that may be handed on: every id up to it is closed, and    *)
(* somebody decided about each of them that was committed.                  *)
Settled(n) ==
  /\ n \in 1..Len(log)
  /\ \A i \in Open : n < i
  /\ \A i \in Committed : OldEvents < i /\ i <= n => i \in routed

CursorInv ==
  /\ \A i \in Open : i = Len(log)
  /\ Settled(stored)
  /\ \A r \in Replica : leader[r] /\ pc[r] # "takeover" => Settled(cursor[r])
  /\ \A r \in Replica : pc[r] = "takeover" => meta[r] = stored

(* The abstract specification: every change is answered by a re-plan. *)
Abstract == INSTANCE ReactivePlanning
              WITH Change <- 1..MaxEvents, changes <- Changes,
                   replanned <- answered \cap Changes
ImplementsReactivePlanning == Abstract!Spec

=============================================================================
