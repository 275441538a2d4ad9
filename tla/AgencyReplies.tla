--------------------------- MODULE AgencyReplies ---------------------------
(***************************************************************************)
(* Requests to other agencies and their answers (app/ops/agency_replies.py *)
(* and the endpoints of app/api/v1/reports.py).                            *)
(*                                                                         *)
(* A request gets a time at which the other agency answers, and a waiter,  *)
(* a task in memory that wakes at that time.  Whoever finds it due, a      *)
(* waiter or a demo's tick, claims it and answers: units join the fleet,   *)
(* the next agency is asked for what is missing, or the gap is escalated.  *)
(* An officer may record the real answer, acknowledge or cancel at any     *)
(* moment; a drone swarm answers over its own channel.  One answer is a    *)
(* dozen database calls with the row written last.                         *)
(*                                                                         *)
(* The requests of one shortfall are modelled: one capability, one place.  *)
(* Which agency is quickest is left open.                                  *)
(***************************************************************************)
EXTENDS Integers, Sequences, FiniteSets, Functions

CONSTANTS
  Agency,      \* the agencies that may be asked
  Holder,      \* those with units or a standing offer of the capability
  External,    \* agency_replies.EXTERNAL_AGENCIES, which answer for themselves
  Quantity,    \* the quantities a request may ask for
  MaxChain,    \* agency_replies.MAX_CHAIN
  MaxRoots,    \* bound: requests made by officers
  MaxAnswers,  \* bound: answers recorded before an officer stops
  Worker,      \* tasks in process_due
  Officer,     \* requests in flight to the respond endpoint, and the swarm's bridge
  Scenarios    \* the sets of activities this instance looks at

Activities == {"life_safety", "tasks_overlap", "officer", "officer_races", "swarm", "db_fails",
               "restart", "clock_lags", "demo"}
Nobody == "nobody"

ASSUME AgencyAssumption ==
  /\ Holder \subseteq Agency /\ External \subseteq Agency \ Holder /\ Nobody \notin Agency
  /\ Quantity \subseteq Nat \ {0} /\ MaxChain \in Nat \ {0} /\ MaxRoots \in Nat /\ MaxAnswers \in Nat
  /\ Worker \cap Officer = {}
  /\ Scenarios \subseteq SUBSET Activities

Actor == Worker \cup Officer
Open == {"requested", "acknowledged"}
Request == [to : Agency, qty : Nat \ {0},
            status : {"requested", "acknowledged", "fulfilled", "declined", "cancelled"},
            due : BOOLEAN,       \* reply_due_at is set
            kind : {"none", "accept", "delayed", "need_info", "decline", "stand_down"},
            heard : Nat,         \* answers of the agency among the replies
            units : Nat,         \* cardinality(units)
            parent : Nat,        \* followup_of; 0 for an officer's own request
            hedge : BOOLEAN,
            depth : 1..MaxChain, \* _chain_length
            staged : Nat,        \* AID- units of this request in the fleet
            escalated : Nat]     \* what of it went to the District EOC
Hand == [pc : {"idle", "seen", "record", "clear", "answer", "stand_down",
               "pick", "insert", "schedule", "write"},
         of : Nat, act : {"none", "accept", "decline", "acknowledge", "cancel"},
         was : {"none", "accept", "delayed", "need_info", "decline", "stand_down"},
         heard : Nat,            \* the row as it was read
         kind : {"none", "accept", "delayed", "need_info", "decline"},
         given : Nat, ask : Nat, next : Agency \cup {Nobody}, made : Nat]

VARIABLES
  scene,     \* what happens in this behaviour; never changes
  requests,  \* the agency_requests of this shortfall, by insertion
  hand,      \* the answer each task or handler is in the middle of
  waiting    \* the requests for whose answer time a waiter sleeps (_waiters)

vars == <<scene, requests, hand, waiting>>

Idle == [pc |-> "idle", of |-> 0, act |-> "none", was |-> "none", heard |-> 0, kind |-> "none",
         given |-> 0, ask |-> 0, next |-> Nobody, made |-> 0]

Init ==
  /\ scene \in Scenarios
  /\ requests = <<>> /\ hand = [a \in Actor |-> Idle] /\ waiting = {}

----------------------------------------------------------------------------
Larger(m, n) == IF m >= n THEN m ELSE n
(* Who may begin while others are busy, in this behaviour.                  *)
MayBegin(a) == \A b \in Actor : hand[b].pc = "idle"
  \/ (a \in Worker /\ b \in Worker /\ "tasks_overlap" \in scene)
  \/ ((a \in Worker) # (b \in Worker) /\ "officer_races" \in scene)
At(a, pc) == hand[a].pc = pc
Req(a) == requests[hand[a].of]
Goes(a, pc) == hand' = [hand EXCEPT ![a].pc = pc]
Children(n) == {m \in DOMAIN requests : requests[m].parent = n}

(* Per request: its units in the fleet, and the units on its row.           *)
Staged == [m \in DOMAIN requests |-> requests[m].staged]
Came == [m \in DOMAIN requests |-> requests[m].units]

(* schedule: an external agency is left to answer for itself.               *)
Scheduled(to) == to \notin External

(* schedule: the answer time, and a waiter for it (kick).                   *)
Wakes(n, due) == waiting' = IF due THEN waiting \cup {n} ELSE waiting

(* request_agency, mutual aid from the copilot: the row, and its answer     *)
(* time in a second call, which a restart or an error may keep from coming. *)
Due(to) == {Scheduled(to)} \cup (IF scene \cap {"db_fails", "restart"} = {} THEN {} ELSE {FALSE})
AskFirst(to, qty, due) ==
  /\ to \in External => "swarm" \in scene
  /\ due \in Due(to)
  /\ Cardinality({n \in DOMAIN requests : requests[n].parent = 0}) < MaxRoots
  /\ requests' = Append(requests,
       [to |-> to, qty |-> qty, status |-> "requested", due |-> due, kind |-> "none",
        heard |-> 0, units |-> 0, parent |-> 0, hedge |-> FALSE, depth |-> 1,
        staged |-> 0, escalated |-> 0])
  /\ Wakes(Len(requests) + 1, due)
  /\ UNCHANGED <<scene, hand>>

(* process_due: claim a request by taking its due time away.  A waiter that *)
(* wakes takes every request that is due, and so does a demo's tick.  Idle  *)
(* tasks are interchangeable: one of them begins.                           *)
Begins(w) == w = CHOOSE v \in Worker : At(v, "idle")

Claim(w, n) ==
  /\ MayBegin(w) /\ At(w, "idle") /\ Begins(w) /\ requests[n].due /\ requests[n].status \in Open
  /\ requests' = [requests EXCEPT ![n].due = FALSE]
  /\ hand' = [hand EXCEPT ![w] = [Idle EXCEPT !.pc = "answer", !.of = n,
                                              !.was = requests[n].kind, !.heard = requests[n].heard]]
  /\ waiting' = waiting \ {n}
  /\ UNCHANGED scene

(* _answer: which answers are drawn from, given the row as it was claimed.  *)
Kinds(a) ==
  LET r == Req(a)
      part == IF r.qty < 2 THEN {} ELSE {"accept_partial"}
  IN CASE r.to \notin Holder -> {"decline"}
       [] r.to \in Holder /\ hand[a].was = "delayed" -> {"accept_full", "decline"} \cup part
       [] OTHER -> {"accept_full", "decline", "delayed"} \cup part
                     \cup (IF hand[a].heard = 0 THEN {"need_info"} ELSE {})

(* What the hedge has brought already.                                      *)
Covered(n) == SumFunctionOnSet(Came, {m \in Children(n) : requests[m].status = "fulfilled"})

(* _apply up to the follow-up: AID- units are put into the fleet, under the *)
(* same names if it is done twice; `ask` is what another agency must bring. *)
BugMissing(a, kind, given) == IF kind \in {"accept", "need_info"} THEN 0 ELSE Req(a).qty
BugRemainder(a, kind, given) ==
  IF kind = "need_info" \/ (kind = "accept" /\ given = Req(a).qty) THEN 0 ELSE Req(a).qty
Missing(a, kind, given) ==
  CASE kind = "accept" -> IF Req(a).to \in External THEN 0 ELSE Req(a).qty - given
    [] kind = "delayed" -> IF "life_safety" \in scene THEN Req(a).qty ELSE 0
    [] kind = "need_info" -> 0
    [] OTHER -> Req(a).qty
Applies(a, kind, given) ==
  LET ask == Missing(a, kind, given)
      new == IF Req(a).to \in External THEN 0 ELSE given IN
  /\ hand' = [hand EXCEPT ![a].pc = IF ask > 0 THEN "pick" ELSE "write",
                          ![a].kind = kind, ![a].given = new, ![a].ask = ask]
  /\ requests' = [requests EXCEPT ![hand[a].of].staged = Larger(@, new)]
  /\ UNCHANGED <<scene, waiting>>

Answer(w) ==
  /\ At(w, "answer") /\ hand[w].act = "none"
  /\ IF hand[w].was = "delayed" /\ Req(w).to \in Holder /\ Covered(hand[w].of) >= Req(w).qty
     THEN Goes(w, "stand_down") /\ UNCHANGED <<scene, requests, waiting>>
     ELSE \E kind \in Kinds(w) :
            CASE kind = "accept_full" -> Applies(w, "accept", Req(w).qty)
              [] kind = "accept_partial" -> \E given \in 1..(Req(w).qty - 1) : Applies(w, "accept", given)
              [] OTHER -> Applies(w, kind, 0)

StandDown(w) ==
  /\ At(w, "stand_down")
  /\ requests' = [requests EXCEPT ![hand[w].of].status = "cancelled", ![hand[w].of].due = FALSE,
                                  ![hand[w].of].kind = "stand_down"]
  /\ hand' = [hand EXCEPT ![w] = Idle]
  /\ UNCHANGED <<scene, waiting>>

(* _follow_up: nobody is asked once the chain is long enough, or when every *)
(* agency that holds the capability has been asked about this shortfall.    *)
ChainEnds(n) == requests[n].depth >= MaxChain

Asked(n) == {requests[m].to : m \in {k \in DOMAIN requests : requests[k].status # "cancelled"}}

Pick(a) ==
  LET left == IF ChainEnds(hand[a].of) THEN {} ELSE Holder \ Asked(hand[a].of) IN
  /\ At(a, "pick")
  /\ \/ \E next \in left :
          /\ hand' = [hand EXCEPT ![a].pc = "insert", ![a].next = next]
          /\ UNCHANGED requests
     \/ /\ left = {}
        /\ Goes(a, "write")
        /\ requests' = [requests EXCEPT ![hand[a].of].escalated = Larger(@, hand[a].ask)]
  /\ UNCHANGED <<scene, waiting>>

Insert(a) ==
  /\ At(a, "insert")
  /\ requests' = Append(requests,
       [to |-> hand[a].next, qty |-> hand[a].ask, status |-> "requested", due |-> FALSE,
        kind |-> "none", heard |-> 0, units |-> 0, parent |-> hand[a].of,
        hedge |-> hand[a].kind = "delayed", depth |-> Req(a).depth + 1,
        staged |-> 0, escalated |-> 0])
  /\ hand' = [hand EXCEPT ![a].pc = "schedule", ![a].made = Len(requests) + 1]
  /\ UNCHANGED <<scene, waiting>>

Schedule(a) ==
  /\ At(a, "schedule")
  /\ requests' = [requests EXCEPT ![hand[a].made].due = Scheduled(requests[hand[a].made].to)]
  /\ Goes(a, "write")
  /\ Wakes(hand[a].made, Scheduled(requests[hand[a].made].to))
  /\ UNCHANGED scene

(* The row last, whatever it says by now, and a waiter if it is due again.  *)
StatusFor(kind) ==
  CASE kind = "accept" -> "fulfilled"
    [] kind = "decline" -> "declined"
    [] OTHER -> "acknowledged"
BugWrite(a) ==
  LET n == hand[a].of  kind == hand[a].kind IN
  /\ At(a, "write")
  /\ requests' = [requests EXCEPT ![n].status = StatusFor(kind), ![n].kind = kind,
                                  ![n].heard = hand[a].heard + 1,
                                  ![n].due = kind \in {"delayed", "need_info"},
                                  ![n].units = @ + hand[a].given]
  /\ hand' = [hand EXCEPT ![a] = Idle]
  /\ UNCHANGED <<scene, waiting>>

Write(a) ==
  LET n == hand[a].of  kind == hand[a].kind IN
  /\ At(a, "write")
  /\ requests' = [requests EXCEPT ![n].status = StatusFor(kind), ![n].kind = kind,
                                  ![n].heard = hand[a].heard + 1,
                                  ![n].due = kind \in {"delayed", "need_info"},
                                  ![n].units = @ + hand[a].given]
  /\ hand' = [hand EXCEPT ![a] = Idle]
  /\ Wakes(n, kind \in {"delayed", "need_info"})
  /\ UNCHANGED scene

(* A database call raises: the answer is abandoned with a line in the log.  *)
Fails(a) ==
  /\ "db_fails" \in scene /\ ~At(a, "idle")
  /\ hand' = [hand EXCEPT ![a] = Idle]
  /\ UNCHANGED <<scene, requests, waiting>>

(* A waiter wakes for nothing: its query raises, or the database's clock is *)
(* behind the waiter's by more than the 0.2 s it adds.  It does not return. *)
WakesForNothing(n) ==
  /\ scene \cap {"db_fails", "clock_lags"} # {} /\ n \in waiting
  /\ waiting' = waiting \ {n}
  /\ UNCHANGED <<scene, requests, hand>>

(* The process restarts: answers under way and waiters are gone, and the    *)
(* start arms none for the requests that are due.                           *)
Restart ==
  /\ "restart" \in scene
  /\ hand' = [a \in Actor |-> Idle] /\ waiting' = {}
  /\ UNCHANGED <<scene, requests>>

----------------------------------------------------------------------------
(* respond_to_agency_request: look at the status, then do what was asked.   *)
Respond(o, n, act) ==
  /\ "officer" \in scene /\ MayBegin(o) /\ At(o, "idle") /\ requests[n].status \in Open
  /\ requests[n].heard < MaxAnswers
  /\ act = "acknowledge" => requests[n].status = "requested"   \* an officer says so once
  /\ "officer_races" \in scene => requests[n].parent = 0       \* bound: only about their own
  /\ hand' = [hand EXCEPT ![o] = [Idle EXCEPT !.pc = "seen", !.of = n, !.act = act]]
  /\ UNCHANGED <<scene, requests, waiting>>

RespondUpdates(o) ==
  /\ At(o, "seen") /\ hand[o].act \in {"acknowledge", "cancel"}
  /\ requests' = [requests EXCEPT ![hand[o].of].status =
                    IF hand[o].act = "cancel" THEN "cancelled" ELSE "acknowledged"]
  /\ hand' = [hand EXCEPT ![o] = Idle]
  /\ UNCHANGED <<scene, waiting>>

(* record: read the row, take its due time away, apply.                     *)
Record(o) ==
  /\ At(o, "seen") /\ hand[o].act \in {"accept", "decline"}
  /\ hand' = [hand EXCEPT ![o].pc = "clear", ![o].was = Req(o).kind, ![o].heard = Req(o).heard]
  /\ UNCHANGED <<scene, requests, waiting>>

(* The swarm's bridge records its answer without looking at the status.     *)
SwarmRecords(o, n, act) ==
  /\ "swarm" \in scene /\ MayBegin(o) /\ At(o, "idle") /\ requests[n].to \in External
  /\ requests[n].heard < MaxAnswers
  /\ hand' = [hand EXCEPT ![o] = [Idle EXCEPT !.pc = "clear", !.of = n, !.act = act,
                                              !.was = requests[n].kind, !.heard = requests[n].heard]]
  /\ UNCHANGED <<scene, requests, waiting>>

ClearDue(o) ==
  /\ At(o, "clear")
  /\ requests' = [requests EXCEPT ![hand[o].of].due = FALSE]
  /\ Goes(o, "answer")
  /\ UNCHANGED <<scene, waiting>>

ApplyRecorded(o) ==
  /\ At(o, "answer") /\ hand[o].act # "none"
  /\ IF hand[o].act = "accept" /\ Req(o).to \in Holder \cup External
     THEN Applies(o, "accept", Req(o).qty)
     ELSE Applies(o, "decline", 0)

----------------------------------------------------------------------------
Step(a) ==
  \/ Answer(a) \/ StandDown(a) \/ Pick(a) \/ Insert(a) \/ Schedule(a) \/ Write(a)
  \/ RespondUpdates(a) \/ Record(a) \/ ClearDue(a) \/ ApplyRecorded(a)

Next ==
  \/ \E to \in Agency, qty \in Quantity, due \in BOOLEAN : AskFirst(to, qty, due)
  \/ \E a \in Actor : Step(a) \/ Fails(a)
  \/ Restart
  \/ \E n \in DOMAIN requests :
       \/ WakesForNothing(n)
       \/ \E w \in Worker : Claim(w, n)
       \/ \E o \in Officer :
            \/ \E act \in {"accept", "decline", "acknowledge", "cancel"} : Respond(o, n, act)
            \/ \E act \in {"accept", "decline"} : SwarmRecords(o, n, act)

Spec == Init /\ [][Next]_vars

(* A request with a waiter is claimed when it wakes, and where a demo runs  *)
(* its ticks claim every one that is due.  An answer under way is worked to *)
(* its end.  A due request with neither waits for good.                     *)
Fairness ==
  /\ WF_vars(\E w \in Worker, n \in DOMAIN requests :
               (n \in waiting \/ "demo" \in scene) /\ Claim(w, n))
  /\ \A a \in Actor : WF_vars(Step(a))
FairSpec == Spec /\ Fairness

----------------------------------------------------------------------------
TypeOK ==
  /\ scene \in Scenarios
  /\ requests \in Seq(Request)
  /\ hand \in [Actor -> Hand]
  /\ waiting \subseteq Nat
  /\ \A a \in Actor : hand[a].pc # "idle" => hand[a].of \in DOMAIN requests
  /\ \A a \in Actor : hand[a].pc = "schedule" => hand[a].made \in DOMAIN requests

(* A closed request has passed its need on: units in the fleet, another     *)
(* agency asked for the rest, or the gap escalated.  It holds whatever an   *)
(* officer, a second task and failing calls do in between, because the row  *)
(* is written last.                                                         *)
PassedOn(n, qty) ==
  \/ qty <= 0
  \/ \E m \in Children(n) : ~requests[m].hedge /\ requests[m].qty >= qty
  \/ requests[n].escalated >= qty
NeedIsHeld == \A n \in DOMAIN requests :
  /\ requests[n].status = "fulfilled" /\ requests[n].to \notin External
       => PassedOn(n, requests[n].qty - requests[n].staged)
  /\ requests[n].status = "declined" => PassedOn(n, requests[n].qty)
  /\ requests[n].status = "cancelled" /\ requests[n].kind = "stand_down"
       => SumFunctionOnSet(Staged, Children(n)) >= requests[n].qty

(* Where nobody records answers by hand and nothing is hedged, no more      *)
(* units come than were asked for, however the answers of a chain overlap.  *)
SuppliedOnce ==
  MaxRoots = 1 /\ requests # <<>> /\ scene \cap {"officer", "swarm", "life_safety"} = {} =>
    SumFunctionOnSet(Staged, DOMAIN requests) <= requests[1].qty

(* A request "used to wait forever unless an officer clicked": every one    *)
(* is closed.  It may still wait forever when a call fails, before the      *)
(* claim or after; when an officer's acknowledgement was under way as the   *)
(* answer closed it; when the process restarts, which loses the waiters and *)
(* the answers under way; and, where no demo runs, when the database's      *)
(* clock is behind the waiter's.                                            *)
Undisturbed ==
  /\ scene \cap {"db_fails", "officer_races", "restart"} = {}
  /\ "clock_lags" \in scene => "demo" \in scene
EveryRequestCloses == \A n \in 1..3 :
  (n \in DOMAIN requests /\ requests[n].to \notin External /\ Undisturbed)
    ~> n \in DOMAIN requests /\ requests[n].status \notin Open
=============================================================================
