---------------------------- MODULE SurgeLadder ----------------------------
(***************************************************************************)
(* The escalation ladder of one region and the mutual aid it asks for      *)
(* (app/surge/service.py, demobilise and crews of app/surge/operations.py, *)
(* the endpoints of app/api/v1/surge.py).                                  *)
(*                                                                         *)
(* evaluate() reads the row of the region, looks at the load, answers the  *)
(* aid requests whose time has come, acts on a change of level and writes  *)
(* the row back last.  It runs after replans that had demands, from a      *)
(* demo's ticks and on request, with nothing to keep two of them apart,    *)
(* and officers declare, ask and step down through endpoints that write    *)
(* the same rows.                                                          *)
(*                                                                         *)
(* The load is represented by the levels whose pressure lines it is over.  *)
(***************************************************************************)
EXTENDS Integers, Sequences, FiniteSets

CONSTANTS
  Offer,         \* aid_offers of the region
  Min2, Min3,    \* the offers with min_level 2, with min_level 3; the rest have 4
  Loads,         \* the loads that occur: sets of levels under pressure
  DescendAfter,  \* service.DESCEND_AFTER
  Evaluator,     \* evaluations in flight
  Officer,       \* requests to the endpoints in flight
  MaxAid,        \* bound: aid requests made
  MaxRaceAid,    \* the same when calls overlap
  MaxFails,      \* bound: database calls that fail
  Scenarios      \* the sets of activities this instance looks at

Level == 0..4
Activities == {"demo", "races", "officer", "crews_rest", "by_hand", "fails"}

ASSUME SurgeAssumption ==
  /\ Min2 \subseteq Offer /\ Min3 \subseteq Offer /\ Loads \subseteq SUBSET (1..4)
  /\ Evaluator \cap Officer = {} /\ DescendAfter \in Nat \ {0} /\ MaxAid \in Nat /\ MaxRaceAid \in 0..MaxAid
  /\ MaxFails \in Nat
  /\ Scenarios \subseteq SUBSET Activities

Actor == Evaluator \cup Officer
ClimbAfter(to) == IF to = 1 THEN 1 ELSE IF to = 4 THEN 3 ELSE 2
Counters == [up : 0..3, calm : 0..DescendAfter]
Zero == [up |-> 0, calm |-> 0]
Aid == [offer : Offer, due : BOOLEAN,
        outcome : {"unlinked", "none", "arrived", "declined", "cancelled"},
        staged : BOOLEAN,      \* the units of the offer joined the fleet
        handoff : BOOLEAN,     \* units staged for the agency request did
        request : {"requested", "fulfilled", "declined"}]
Hand == [pc : {"idle", "resolve", "outcome", "close", "ask", "insert", "link", "stand_down",
               "write", "memory"},
         then : {"write", "idle"}, level : Level, counters : Counters, load : SUBSET (1..4),
         due : SUBSET (1..MaxAid), now : 0..MaxAid, ok : BOOLEAN,
         to : Level, want : SUBSET Offer]

VARIABLES
  scene,     \* what happens in this behaviour; never changes
  load,      \* the levels under pressure now
  level,     \* surge_state.level
  counters,  \* surge_state.counters
  memory,    \* service._LEVEL
  aid,       \* agency_requests of the ladder, each with its surge_aid once it is linked
  hand,      \* what each evaluation or endpoint is in the middle of
  failed     \* history: calls that failed

state == <<level, counters, memory>>
vars == <<scene, load, state, aid, hand, failed>>

Idle == [pc |-> "idle", then |-> "idle", level |-> 0, counters |-> Zero, load |-> {}, due |-> {},
         now |-> 0, ok |-> FALSE, to |-> 0, want |-> {}]

Init ==
  /\ scene \in Scenarios /\ load \in Loads
  /\ level = 0 /\ counters = Zero /\ memory = 0 /\ failed = 0
  /\ aid = <<>> /\ hand = [a \in Actor |-> Idle]

At(a, pc) == hand[a].pc = pc
AllIdle == \A a \in Actor : At(a, "idle")
Quiet == "races" \in scene \/ AllIdle
Begins(e) == e = CHOOSE v \in Evaluator : At(v, "idle")   \* idle ones are interchangeable
Room == IF "races" \in scene THEN MaxRaceAid ELSE MaxAid
Outstanding == {n \in DOMAIN aid : aid[n].outcome = "none"}

----------------------------------------------------------------------------
(* resolve_due_aid: the requests whose response time has passed.            *)
BugDue(l) == {n \in Outstanding : aid[n].due /\ l >= 2}
Due(l) == {n \in Outstanding : aid[n].due}

(* evaluate: read the row, the metrics and what is due ...                  *)
Begin(e) ==
  /\ At(e, "idle") /\ Quiet /\ Begins(e)
  /\ hand' = [hand EXCEPT ![e] = [Idle EXCEPT !.pc = "resolve", !.level = level, !.due = Due(level),
                                              !.counters = counters, !.load = load]]
  /\ UNCHANGED <<scene, load, state, aid, failed>>

(* ... answer the requests one by one: units staged, then the outcome, then *)
(* the agency request unless it was answered by hand ...                    *)
Resolve(e) ==
  /\ At(e, "resolve")
  /\ \E n \in hand[e].due, ok \in BOOLEAN :
       /\ hand' = [hand EXCEPT ![e] = [@ EXCEPT !.pc = "outcome", !.due = hand[e].due \ {n},
                                                 !.now = n, !.ok = ok]]
       /\ aid' = [aid EXCEPT ![n] = [@ EXCEPT !.staged = aid[n].staged \/ ok]]
  /\ UNCHANGED <<scene, load, state, failed>>

Outcome(e) ==
  LET n == hand[e].now  ok == hand[e].ok IN
  /\ At(e, "outcome")
  /\ aid' = [aid EXCEPT ![n] = [@ EXCEPT !.outcome = IF ok THEN "arrived" ELSE "declined"]]
  /\ hand' = [hand EXCEPT ![e] = [@ EXCEPT !.pc = "close"]]
  /\ UNCHANGED <<scene, load, state, failed>>

Close(e) ==
  LET n == hand[e].now  ok == hand[e].ok IN
  /\ At(e, "close")
  /\ aid' = [aid EXCEPT ![n] = [@ EXCEPT
       !.request = IF aid[n].request # "requested" THEN aid[n].request
                   ELSE IF ok THEN "fulfilled" ELSE "declined"]]
  /\ hand' = [hand EXCEPT ![e] = [@ EXCEPT !.pc = "resolve", !.now = 0, !.ok = FALSE]]
  /\ UNCHANGED <<scene, load, state, failed>>

(* The counters and the rung after this check, from what was read at its    *)
(* beginning.  The counters stop at the largest value they are compared to; *)
(* at level 3 pressure on 4 only asks for a declaration, in an event.       *)
Least(n, cap) == IF n > cap THEN cap ELSE n
Pressed(l, pressed) == l < 4 /\ l + 1 \in pressed
Counted(l, c, pressed) ==
  [c EXCEPT !.up = IF Pressed(l, pressed) THEN Least(@ + 1, 3) ELSE 0,
            !.calm = IF l \notin pressed /\ ~Pressed(l, pressed) THEN Least(@ + 1, DescendAfter) ELSE 0]

Rung(l, c, pressed) ==
  CASE Pressed(l, pressed) /\ c.up >= ClimbAfter(l + 1) /\ l # 3 -> l + 1
    [] ~Pressed(l, pressed) /\ l > 0 /\ c.calm >= DescendAfter -> l - 1
    [] OTHER -> l

BugNewCounters(l, c, pressed) ==
  IF Rung(l, Counted(l, c, pressed), pressed) # l THEN Zero ELSE c
NewCounters(l, c, pressed) ==
  LET new == Counted(l, c, pressed) IN IF Rung(l, new, pressed) # l THEN Zero ELSE new

(* With nothing left to answer the level is decided; climbing to 2 and 3    *)
(* asks for aid, every step down runs demobilise.                           *)
Decide(e) ==
  LET l == hand[e].level
      to == Rung(l, Counted(l, hand[e].counters, hand[e].load), hand[e].load)
  IN
  /\ At(e, "resolve") /\ hand[e].due = {}
  /\ hand' = [hand EXCEPT ![e] = [@ EXCEPT
       !.to = to, !.then = "write", !.level = 0, !.load = {},
       !.counters = NewCounters(l, hand[e].counters, hand[e].load),
       !.pc = CASE to > l /\ to \in {2, 3} -> "ask" [] to < l -> "stand_down" [] OTHER -> "write"]]
  /\ UNCHANGED <<scene, load, state, aid, failed>>

----------------------------------------------------------------------------
(* request_aid: the offers that cover what is short and have no request     *)
(* outstanding, then for each a request, and its surge_aid row.             *)
Askable(to) == IF to = 2 THEN Min2 ELSE IF to = 3 THEN Min2 \cup Min3 ELSE Offer
BugFree(o) == \A n \in Outstanding : aid[n].offer = o => aid[n].due
Free(o) == \A n \in Outstanding : aid[n].offer # o

Ask(a) ==
  /\ At(a, "ask")
  /\ \E want \in SUBSET {o \in Askable(hand[a].to) : Free(o)} :
       /\ Len(aid) + Cardinality(want) <= Room
       /\ hand' = [hand EXCEPT ![a] = [@ EXCEPT !.pc = "insert", !.want = want]]
  /\ UNCHANGED <<scene, load, state, aid, failed>>

New(o) == [offer |-> o, due |-> FALSE, outcome |-> "unlinked",
           staged |-> FALSE, handoff |-> FALSE, request |-> "requested"]

Insert(a) ==
  /\ At(a, "insert")
  /\ \E o \in hand[a].want :
       IF Len(aid) >= Room
       THEN /\ hand' = [hand EXCEPT ![a] = [@ EXCEPT !.want = hand[a].want \ {o}]]
            /\ UNCHANGED aid
       ELSE /\ hand' = [hand EXCEPT ![a] = [@ EXCEPT !.pc = "link", !.want = hand[a].want \ {o},
                                                     !.now = Len(aid) + 1]]
            /\ aid' = Append(aid, New(o))
  /\ UNCHANGED <<scene, load, state, failed>>

Link(a) ==
  /\ At(a, "link")
  /\ aid' = [aid EXCEPT ![hand[a].now] = [@ EXCEPT !.outcome = "none"]]
  /\ hand' = [hand EXCEPT ![a] = [@ EXCEPT !.pc = "insert", !.now = 0]]
  /\ UNCHANGED <<scene, load, state, failed>>

Inserted(a) ==
  /\ At(a, "insert") /\ hand[a].want = {}
  /\ hand' = [hand EXCEPT ![a] = IF hand[a].then = "write" THEN [@ EXCEPT !.pc = "write"] ELSE Idle]
  /\ UNCHANGED <<scene, load, state, aid, failed>>

(* operations.demobilise: below level 2 what is outstanding is cancelled.   *)
Cancelled(row) == IF row.outcome = "none" THEN [row EXCEPT !.outcome = "cancelled"] ELSE row

StandDown(a) ==
  /\ At(a, "stand_down")
  /\ aid' = IF hand[a].to >= 2 THEN aid ELSE [n \in DOMAIN aid |-> Cancelled(aid[n])]
  /\ hand' = [hand EXCEPT ![a] = IF hand[a].then = "write" THEN [@ EXCEPT !.pc = "write"] ELSE Idle]
  /\ UNCHANGED <<scene, load, state, failed>>

(* The row is written whatever it has become since it was read ...          *)
Write(e) ==
  /\ At(e, "write")
  /\ level' = hand[e].to /\ counters' = hand[e].counters
  /\ hand' = [hand EXCEPT ![e] = [Idle EXCEPT !.pc = "memory", !.to = hand[e].to]]
  /\ UNCHANGED <<scene, load, memory, aid, failed>>

(* ... then the copy in memory; operations.tick follows, whose crews() may  *)
(* call volunteers when three or more crews rest.                           *)
Remember(e) ==
  /\ At(e, "memory")
  /\ memory' = hand[e].to
  /\ \/ hand' = [hand EXCEPT ![e] = Idle]
     \/ /\ "crews_rest" \in scene /\ hand[e].to >= 1
        /\ hand' = [hand EXCEPT ![e] = [Idle EXCEPT !.pc = "ask", !.to = 2]]
  /\ UNCHANGED <<scene, load, level, counters, aid, failed>>

(* A call raises, and what it was part of is over: an evaluation that fails *)
(* as it climbs leaves the row as it was.  Of a step down it is swallowed.  *)
Fails(a) ==
  /\ "fails" \in scene /\ failed < MaxFails /\ ~At(a, "idle")
  /\ failed' = failed + 1
  /\ hand' = [hand EXCEPT ![a] = IF At(a, "stand_down") /\ hand[a].then = "write"
                                 THEN [@ EXCEPT !.pc = "write"] ELSE Idle]
  /\ UNCHANGED <<scene, load, state, aid>>

----------------------------------------------------------------------------
(* POST /aid, /declare, which leaves the counters, and /demobilise, which   *)
(* takes any level.                                                         *)
AskNow(o) ==
  /\ At(o, "idle") /\ "officer" \in scene /\ Quiet
  /\ hand' = [hand EXCEPT ![o] = [Idle EXCEPT !.pc = "ask", !.to = 2]]
  /\ UNCHANGED <<scene, load, state, aid, failed>>

Declare(o) ==
  /\ At(o, "idle") /\ "officer" \in scene /\ Quiet
  /\ level' = 4 /\ memory' = 4
  /\ hand' = [hand EXCEPT ![o] = [Idle EXCEPT !.pc = "ask", !.to = 4]]
  /\ UNCHANGED <<scene, load, counters, aid, failed>>

Demobilise(o) ==
  /\ At(o, "idle") /\ "officer" \in scene /\ Quiet
  /\ \E to \in Level :
       /\ level' = to /\ memory' = to
       /\ hand' = [hand EXCEPT ![o] = [Idle EXCEPT !.pc = "stand_down", !.to = to]]
  /\ counters' = Zero
  /\ UNCHANGED <<scene, load, aid, failed>>

(* agency_replies.record on a request the ladder made: an officer notes     *)
(* the agency's answer.  It closes the request, not the surge_aid row.      *)
RecordByHand ==
  /\ "by_hand" \in scene
  /\ \E n \in DOMAIN aid, ok \in BOOLEAN :
       /\ aid[n].request = "requested"
       /\ aid' = [aid EXCEPT ![n] = [@ EXCEPT !.request = IF ok THEN "fulfilled" ELSE "declined",
                                              !.handoff = ok]]
  /\ UNCHANGED <<scene, load, state, hand, failed>>

(* The load moves; response times pass.                                     *)
LoadMoves ==
  /\ load' \in Loads \ {load}
  /\ UNCHANGED <<scene, state, aid, hand, failed>>

TimePasses ==
  /\ \E n \in Outstanding : ~aid[n].due /\ aid' = [aid EXCEPT ![n] = [@ EXCEPT !.due = TRUE]]
  /\ UNCHANGED <<scene, load, state, hand, failed>>

Asks(a) == Ask(a) \/ Insert(a) \/ Link(a) \/ Inserted(a) \/ StandDown(a)
Evaluates(e) ==
  \/ Resolve(e) \/ Outcome(e) \/ Close(e) \/ Decide(e) \/ Asks(e)
  \/ Write(e) \/ Remember(e)

Next ==
  \/ \E e \in Evaluator : Begin(e) \/ Evaluates(e)
  \/ \E o \in Officer : AskNow(o) \/ Declare(o) \/ Demobilise(o) \/ Asks(o)
  \/ \E a \in Actor : Fails(a)
  \/ RecordByHand \/ LoadMoves \/ TimePasses

Spec == Init /\ [][Next]_vars

(* The ticks of a running demo keep evaluating, whatever officers ask in    *)
(* between; a call that began ends; clocks advance.  Without a demo nothing *)
(* need evaluate again: a replan that finds no open demand does not.        *)
(* Nothing obliges an officer or the load.                                  *)
FairSpec ==
  /\ Spec
  /\ SF_vars("demo" \in scene /\ \E e \in Evaluator : Begin(e))
  /\ \A e \in Evaluator : WF_vars(Evaluates(e))
  /\ \A o \in Officer : WF_vars(Asks(o))
  /\ WF_vars(TimePasses)

----------------------------------------------------------------------------
(* Every variable has its type.                                            *)
TypeOK ==
  /\ scene \in Scenarios /\ load \in Loads /\ level \in Level
  /\ counters \in Counters /\ memory \in Level /\ failed \in 0..MaxFails
  /\ aid \in Seq(Aid) /\ Len(aid) <= MaxAid /\ hand \in [Actor -> Hand]

(* "an offer already asked and not yet answered is not asked again"         *)
(* (service.py): through climbs that failed half way and are climbed again, *)
(* officers' and volunteers' calls, stand-downs and answers, as long as     *)
(* calls do not overlap.                                                    *)
OneAskPerOffer == "races" \notin scene =>
  \A m, n \in Outstanding : aid[m].offer = aid[n].offer => m = n

(* A rung is left after so many checks on it: they are counted anew on each. *)
(* Not so: a declaration leaves the counters as they are.                   *)
CountsStartAnew == [][level' # level => counters' = Zero]_vars

(* "so the two never answer the same request" (agency_replies.py): the      *)
(* units of one request join the fleet once.                               *)
AnsweredByOne == \A n \in DOMAIN aid : ~(aid[n].staged /\ aid[n].handoff)

(* Aid that was asked for, by whatever call and at whatever level, is       *)
(* answered or called off while a demo runs, calls that overlap or fail     *)
(* included: who answers late answers what an evaluation before left.       *)
AidIsAnswered == \A n \in 1..MaxAid :
  (n \in Outstanding /\ "demo" \in scene) ~> (n \in DOMAIN aid /\ aid[n].outcome # "none")

(* The ladder follows the load in the row and in the copy the solver reads, *)
(* although overlapping evaluations overwrite each other's counters and     *)
(* some fail: while a demo runs, when the load stays below every line it    *)
(* comes back to normal, and when it stays over every line it reaches level *)
(* 3 and stays there until an officer acts.                                 *)
LadderFollowsLoad ==
  "officer" \notin scene /\ "demo" \in scene =>
    /\ <>[](load = {}) => <>[](level = 0 /\ memory = 0)
    /\ <>[](load = 1..4) => <>[](level = 3 /\ memory = 3)
=============================================================================
