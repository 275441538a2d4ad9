---------------------------- MODULE MeshGateway ----------------------------
(***************************************************************************)
(* The control room's side of the offline mesh (app/mesh/service.py) and   *)
(* the gateways that carry its packets (scripts/mesh_bridge.py).           *)
(*                                                                         *)
(* Outbound, a pull first turns the new events of the log into messages,   *)
(* from a cursor that two pulls may move at once, then hands out what is   *)
(* pending or was handed out 30 s ago.  Inbound, a packet is stored once   *)
(* and then handled.  A message is named by the event it came from, a      *)
(* packet by its id.                                                       *)
(***************************************************************************)
EXTENDS Integers, Sequences, FiniteSets

CONSTANTS
  Gateway,      \* the gateways that poll
  Packet,       \* the packets nodes send
  Batch,        \* sync_outbox(batch)
  Limit,        \* pull(limit)
  MaxAttempts,  \* offers of a message before it is let lie
  MaxPost,      \* the longest list POST /mesh/inbound takes
  MaxEvents,    \* bound: events of the log
  MaxFaultySent,  \* bound: packets sent where posts may fail
  MaxLost,      \* bound: pulls cut off, requests and answers lost
  Scenarios     \* the sets of activities this instance looks at

Activities == {"outbound", "inbound", "any_time", "build_fails", "drops", "refused", "nodes_ack", "handler_fails", "server_stops"}

ASSUME MeshAssumption ==
  /\ Batch \in Nat \ {0} /\ Limit \in Nat \ {0} /\ MaxAttempts \in Nat \ {0} /\ MaxPost \in Nat /\ MaxFaultySent \in Nat
  /\ MaxEvents \in Nat /\ MaxLost \in Nat
  /\ Scenarios \subseteq SUBSET Activities

Event == 1..MaxEvents
Unset == -1   \* mesh_state has no cursor yet
(* The fields of a row that is settled are of no account: they are reset.   *)
Row == [status : {"none", "pending", "sent", "acked", "expired"}, attempts : 0..MaxAttempts,
        stale : BOOLEAN,      \* handed out more than 30 s ago
        over : BOOLEAN]       \* past expires_at
Pull == [pc : {"idle", "first", "rows", "last", "build", "offer", "send"},
         from : Unset..MaxEvents, rows : SUBSET Event, last : 0..MaxEvents,
         held : SUBSET Event, sent : SUBSET Event]
Post == [pc : {"idle", "next", "handle", "note"}, batch : SUBSET Packet, left : SUBSET Packet, now : SUBSET Packet]

VARIABLES
  scene,     \* what happens in this behaviour; never changes
  lost,      \* how often something was lost on the way
  log,       \* events by id: "open" (not committed), "alert", "job", "other" or "gone"
  cursor,    \* mesh_state.outbox_cursor
  start,     \* history: the log's end when the cursor was first set
  outbox,    \* mesh_outbox
  pull,      \* each gateway's GET /mesh/outbox, broadcast and ack
  aired,     \* history: messages some phone broadcast
  sent,      \* packets nodes have sent
  heard,     \* packets each gateway heard and has not posted since its start
  message,   \* mesh_messages: "none", "stored" or its outcome "done"
  reports,   \* packets that became what they describe
  repeated,  \* history: packets that became it twice
  told,      \* history: packets some gateway was told are taken
  post       \* each gateway's POST /mesh/inbound

out == <<log, cursor, start, outbox, pull, aired>>
in == <<sent, heard, message, reports, repeated, told, post>>
vars == <<scene, lost, out, in>>

NoRow == [status |-> "none", attempts |-> 0, stale |-> FALSE, over |-> FALSE]
NoPull == [pc |-> "idle", from |-> Unset, rows |-> {}, last |-> 0, held |-> {}, sent |-> {}]
NoPost == [pc |-> "idle", batch |-> {}, left |-> {}, now |-> {}]

Init ==
  /\ scene \in Scenarios /\ lost = 0
  /\ log = <<>> /\ cursor = Unset /\ start = 0 /\ outbox = [e \in Event |-> NoRow]
  /\ pull = [g \in Gateway |-> NoPull] /\ aired = {}
  /\ sent = {} /\ heard = [g \in Gateway |-> {}] /\ message = [p \in Packet |-> "none"]
  /\ reports = {} /\ repeated = {} /\ told = {} /\ post = [g \in Gateway |-> NoPost]

----------------------------------------------------------------------------
(* The log.  An event inside a transaction has its id before others see it, *)
(* and the transaction may roll back.                                       *)
Committed == {e \in DOMAIN log : log[e] \in {"alert", "job", "other"}}
News == {e \in DOMAIN log : log[e] \in {"alert", "job"}}
Syncing == \E g \in Gateway : pull[g].pc \in {"first", "rows", "last"}

EventHappens ==
  /\ "outbound" \in scene /\ Len(log) < MaxEvents
  /\ \/ \E kind \in {"alert", "job", "other"} : log' = Append(log, kind)
     \/ "any_time" \in scene /\ log' = Append(log, "open")
  /\ "any_time" \in scene \/ ~Syncing
  /\ UNCHANGED <<scene, lost, cursor, start, outbox, pull, aired, in>>

Commit ==
  /\ \E e \in DOMAIN log, end \in {"alert", "gone"} : log[e] = "open" /\ log' = [log EXCEPT ![e] = end]
  /\ UNCHANGED <<scene, lost, cursor, start, outbox, pull, aired, in>>

(* sync_outbox, at the beginning of every pull: the cursor ...              *)
ReadCursor(g) ==
  /\ "outbound" \in scene /\ pull[g].pc = "idle"
  /\ pull' = [pull EXCEPT ![g] = [@ EXCEPT !.pc = IF cursor = Unset THEN "first" ELSE "rows", !.from = cursor]]
  /\ UNCHANGED <<scene, lost, log, cursor, start, outbox, aired, in>>

(* ... which the first run sets at the end of the log ...                   *)
Largest(s, least) == CHOOSE n \in s \cup {least} : \A k \in s \cup {least} : k <= n
FirstRun(g) ==
  /\ pull[g].pc = "first"
  /\ IF cursor = Unset THEN cursor' = Largest(Committed, 0) /\ start' = Largest(Committed, 0)
                       ELSE UNCHANGED <<cursor, start>>
  /\ pull' = [pull EXCEPT ![g] = [NoPull EXCEPT !.pc = "offer"]]
  /\ UNCHANGED <<scene, lost, log, outbox, aired, in>>

(* ... the first events past it that people offline need; the end of the    *)
(* next batch of events of any kind ...                                     *)
FirstOf(s, n) == {e \in s : Cardinality({f \in s : f < e}) < n}
Rows(from) == FirstOf({e \in News : e > from}, Batch)
BugLast(from) == Largest({e \in Committed : e > from}, from)
Last(from) == Largest(FirstOf({e \in Committed : e > from}, Batch), from)

ReadRows(g) ==
  /\ pull[g].pc = "rows"
  /\ pull' = [pull EXCEPT ![g] = [@ EXCEPT !.pc = "last", !.rows = Rows(pull[g].from)]]
  /\ UNCHANGED <<scene, lost, log, cursor, start, outbox, aired, in>>

ReadLast(g) ==
  /\ pull[g].pc = "last"
  /\ pull' = [pull EXCEPT ![g] = [@ EXCEPT !.pc = "build", !.from = Unset, !.last = Last(pull[g].from)]]
  /\ UNCHANGED <<scene, lost, log, cursor, start, outbox, aired, in>>

(* ... a message for each, unless it has one or building it fails ...       *)
(* _message_for gives nothing for an event whose subject is gone, and may   *)
(* raise.                                                                  *)
Unbuilt == "build_fails" \in scene

Made(e) == IF outbox[e].status # "none" THEN outbox ELSE [outbox EXCEPT ![e].status = "pending"]

Build(g) ==
  /\ pull[g].pc = "build"
  /\ \E e \in pull[g].rows :
       /\ \A f \in pull[g].rows : e <= f
       /\ \/ outbox' = Made(e)
          \/ Unbuilt /\ UNCHANGED outbox
       /\ pull' = [pull EXCEPT ![g] = [@ EXCEPT !.rows = pull[g].rows \ {e}]]
  /\ UNCHANGED <<scene, lost, log, cursor, start, aired, in>>

(* ... and the cursor moves, back too if another pull moved it further.     *)
MoveCursor(g) ==
  /\ pull[g].pc = "build" /\ pull[g].rows = {}
  /\ cursor' = pull[g].last
  /\ pull' = [pull EXCEPT ![g] = [NoPull EXCEPT !.pc = "offer"]]
  /\ UNCHANGED <<scene, lost, log, start, outbox, aired, in>>

(* pull: what has run out expires, and up to limit messages are handed out, *)
(* alerts before jobs.                                                      *)
Settled(status) == [NoRow EXCEPT !.status = status]
BugExpired(r) == IF r.status = "pending" /\ r.over THEN Settled("expired") ELSE r
Expired(r) == IF r.status \in {"pending", "sent"} /\ r.over THEN Settled("expired") ELSE r
Offerable(r) == r.status = "pending" \/ (r.status = "sent" /\ r.stale /\ r.attempts < MaxAttempts)
Handed(r) == [r EXCEPT !.status = "sent", !.stale = FALSE, !.attempts = @ + 1]
Offered(rows) ==
  LET able == {e \in Event : Offerable(rows[e])} IN
  {s \in SUBSET able :
     /\ Cardinality(s) = IF Cardinality(able) < Limit THEN Cardinality(able) ELSE Limit
     /\ \A e \in s, f \in able \ s : log[f] = "alert" => log[e] = "alert"}

Offer(g) ==
  /\ pull[g].pc = "offer"
  /\ LET rows == [e \in Event |-> Expired(outbox[e])] IN
     \E s \in Offered(rows) :
       /\ outbox' = [e \in Event |-> IF e \in s THEN Handed(rows[e]) ELSE rows[e]]
       /\ pull' = [pull EXCEPT ![g] = [NoPull EXCEPT !.pc = "send", !.held = s]]
  /\ UNCHANGED <<scene, lost, log, cursor, start, aired, in>>

(* The bridge: each message to the phone, which may refuse it; then one ack *)
(* for those it took.                                                      *)
BugTook(g, e, ok) == pull[g].sent \cup {e}
Took(g, e, ok) == IF ok THEN pull[g].sent \cup {e} ELSE pull[g].sent

Broadcast(g) ==
  /\ pull[g].pc = "send"
  /\ \E e \in pull[g].held, ok \in {TRUE, "refused" \notin scene} :
       /\ pull' = [pull EXCEPT ![g] = [@ EXCEPT !.held = pull[g].held \ {e}, !.sent = Took(g, e, ok)]]
       /\ aired' = IF ok THEN aired \cup {e} ELSE aired
  /\ UNCHANGED <<scene, lost, log, cursor, start, outbox, in>>

Acked(rows) == [e \in Event |-> IF e \in rows THEN Settled("acked") ELSE outbox[e]]
Ack(g) ==
  /\ pull[g].pc = "send" /\ pull[g].held = {}
  /\ outbox' = Acked(pull[g].sent)
  /\ pull' = [pull EXCEPT ![g] = NoPull]
  /\ UNCHANGED <<scene, lost, log, cursor, start, aired, in>>

(* A K packet from a node that heard the message.                           *)
AckHeard ==
  /\ "nodes_ack" \in scene
  /\ \E e \in aired : outbox[e].status # "acked" /\ outbox' = Acked({e})
  /\ UNCHANGED <<scene, lost, log, cursor, start, pull, aired, in>>

(* Signal, laptop or server fail: the pull is over wherever it was.         *)
Loses == "drops" \in scene /\ lost < MaxLost /\ lost' = lost + 1
Drop(g) ==
  /\ Loses /\ pull[g].pc # "idle"
  /\ pull' = [pull EXCEPT ![g] = NoPull]
  /\ UNCHANGED <<scene, log, cursor, start, outbox, aired, in>>

Queued(e) == outbox[e].status \in {"pending", "sent"}
HalfMinute ==
  /\ \E e \in Event : outbox[e].status = "sent" /\ ~outbox[e].stale /\ outbox' = [outbox EXCEPT ![e].stale = TRUE]
  /\ UNCHANGED <<scene, lost, log, cursor, start, pull, aired, in>>
TwoHours ==
  /\ \E e \in Event : Queued(e) /\ ~outbox[e].over /\ (outbox[e].status = "sent" => outbox[e].stale)
                     /\ outbox' = [outbox EXCEPT ![e].over = TRUE]
  /\ UNCHANGED <<scene, lost, log, cursor, start, pull, aired, in>>

----------------------------------------------------------------------------
(* Inbound.  A node sends a packet; any number of gateways hear it.         *)
Send ==
  /\ "inbound" \in scene /\ (scene = {"inbound"} \/ Cardinality(sent) < MaxFaultySent)
  /\ \E p \in Packet \ sent, s \in (SUBSET Gateway) \ {{}} :
       /\ sent' = sent \cup {p}
       /\ heard' = [g \in Gateway |-> IF g \in s THEN heard[g] \cup {p} ELSE heard[g]]
  /\ UNCHANGED <<scene, lost, out, message, reports, repeated, told, post>>

(* POST /mesh/inbound with everything heard, one packet after the other.  A *)
(* list that is too long is refused as a whole (422) and posted again, with *)
(* what was heard meanwhile, in the next round: nothing ever shortens it.   *)
TooLong(g) == Cardinality(heard[g]) > MaxPost

PostHeard(g) ==
  /\ post[g].pc = "idle" /\ heard[g] # {} /\ ~TooLong(g)
  /\ post' = [post EXCEPT ![g] = [NoPost EXCEPT !.pc = "next", !.batch = heard[g], !.left = heard[g]]]
  /\ UNCHANGED <<scene, lost, out, sent, heard, message, reports, repeated, told>>

(* _one: stored unless it is there already ...                              *)
BugFresh(p) == message[p] # "done"
Fresh(p) == message[p] = "none"

Store(g) ==
  /\ post[g].pc = "next"
  /\ \E p \in post[g].left :
       IF Fresh(p)
       THEN /\ message' = [message EXCEPT ![p] = "stored"]
            /\ post' = [post EXCEPT ![g] = [@ EXCEPT !.pc = "handle", !.left = post[g].left \ {p}, !.now = {p}]]
            /\ UNCHANGED told
       ELSE /\ post' = [post EXCEPT ![g] = [@ EXCEPT !.left = post[g].left \ {p}]]
            /\ told' = told \cup {p}
            /\ UNCHANGED message
  /\ UNCHANGED <<scene, lost, out, sent, heard, reports, repeated>>

(* ... then turned into a report, a road block, a status ...                *)
Handle(g) ==
  /\ post[g].pc = "handle"
  /\ repeated' = repeated \cup (post[g].now \cap reports)
  /\ reports' = reports \cup post[g].now
  /\ post' = [post EXCEPT ![g] = [@ EXCEPT !.pc = "note"]]
  /\ UNCHANGED <<scene, lost, out, sent, heard, message, told>>

(* ... and its outcome noted.                                               *)
Note(g) ==
  /\ post[g].pc = "note"
  /\ message' = [p \in Packet |-> IF p \in post[g].now THEN "done" ELSE message[p]]
  /\ told' = told \cup post[g].now
  /\ post' = [post EXCEPT ![g] = [@ EXCEPT !.pc = "next", !.now = {}]]
  /\ UNCHANGED <<scene, lost, out, sent, heard, reports, repeated>>

(* An exception answers this packet with an error and goes on to the next.  *)
HandlerFails(g) ==
  /\ "handler_fails" \in scene /\ post[g].pc \in {"handle", "note"}
  /\ post' = [post EXCEPT ![g] = [@ EXCEPT !.pc = "next", !.now = {}]]
  /\ UNCHANGED <<scene, lost, out, sent, heard, message, reports, repeated, told>>

(* The server stops in the middle of a post: the bridge gets no answer.     *)
ServerStops(g) ==
  /\ "server_stops" \in scene /\ post[g].pc # "idle"
  /\ post' = [post EXCEPT ![g] = NoPost]
  /\ UNCHANGED <<scene, lost, out, sent, heard, message, reports, repeated, told>>

(* The bridge moves past what it posted when the answer comes, errors in it *)
(* or not, and posts it all again when the answer is lost.                  *)
BugKept(g, answered) == heard[g] \ post[g].batch
Kept(g, answered) == IF answered THEN heard[g] \ post[g].batch ELSE heard[g]

Answered(g) ==
  /\ post[g].pc = "next" /\ post[g].left = {}
  /\ heard' = [heard EXCEPT ![g] = Kept(g, TRUE)]
  /\ post' = [post EXCEPT ![g] = NoPost]
  /\ UNCHANGED <<scene, lost, out, sent, message, reports, repeated, told>>

(* The request is lost on the way there, or its answer on the way back.     *)
Lost(g) ==
  /\ Loses /\ post[g].pc = "next"
  /\ post[g].left \in {{}, post[g].batch}
  /\ heard' = [heard EXCEPT ![g] = Kept(g, FALSE)]
  /\ post' = [post EXCEPT ![g] = NoPost]
  /\ UNCHANGED <<scene, out, sent, message, reports, repeated, told>>

----------------------------------------------------------------------------
Pulls(g) ==
  \/ ReadCursor(g) \/ FirstRun(g) \/ ReadRows(g) \/ ReadLast(g) \/ Build(g)
  \/ MoveCursor(g) \/ Offer(g) \/ Broadcast(g) \/ Ack(g)
Posts(g) == PostHeard(g) \/ Store(g) \/ Handle(g) \/ Note(g) \/ Answered(g)

Next ==
  \/ EventHappens \/ Commit \/ AckHeard \/ HalfMinute \/ TwoHours \/ Send
  \/ \E g \in Gateway : Pulls(g) \/ Drop(g) \/ Posts(g) \/ HandlerFails(g) \/ ServerStops(g) \/ Lost(g)

Spec == Init /\ [][Next]_vars

(* A gateway keeps polling and posting; clocks advance.  Nobody is obliged  *)
(* to send or to acknowledge.                                              *)
FairSpec ==
  /\ Spec
  /\ \A g \in Gateway : WF_vars(Pulls(g)) /\ WF_vars(Posts(g))
  /\ WF_vars(HalfMinute) /\ WF_vars(TwoHours)

----------------------------------------------------------------------------
(* Every variable has its type; no message is offered more often than       *)
(* MaxAttempts.                                                            *)
TypeOK ==
  /\ scene \in Scenarios /\ lost \in 0..MaxLost
  /\ log \in Seq({"open", "alert", "job", "other", "gone"}) /\ Len(log) <= MaxEvents
  /\ cursor \in Unset..MaxEvents /\ start \in 0..MaxEvents
  /\ outbox \in [Event -> Row] /\ pull \in [Gateway -> Pull] /\ aired \subseteq Event
  /\ sent \subseteq Packet /\ heard \in [Gateway -> SUBSET Packet]
  /\ message \in [Packet -> {"none", "stored", "done"}]
  /\ reports \subseteq Packet /\ repeated \subseteq Packet /\ told \subseteq Packet
  /\ post \in [Gateway -> Post]

(* "sync_outbox reads new events from a cursor and turns the ones a person  *)
(* offline needs into packets": whichever pulls overlap and move the cursor *)
(* forth and back, it never stands past an event that has no message.       *)
(* Events that become visible between the two reads of one sync, or after   *)
(* a later one, and messages that cannot be built are left out: see         *)
(* NothingPassedOver.                                                      *)
NothingSkipped ==
  {"any_time", "build_fails"} \cap scene = {} =>
    \A e \in News : start < e /\ e <= cursor => outbox[e].status # "none"

(* The same with events that commit at any time.                            *)
NothingPassedOver ==
  "build_fails" \notin scene =>
    \A e \in News : start < e /\ e <= cursor => outbox[e].status # "none"

(* A message is acknowledged only when a phone broadcast it: phones that    *)
(* refuse, answers that are lost and gateways that share a message do not   *)
(* close one nobody heard.                                                 *)
AckedWasAired == \A e \in Event : outbox[e].status = "acked" => e \in aired

(* Every message is acknowledged or expires, also one that was offered      *)
(* MaxAttempts times in vain.                                              *)
EveryMessageSettles == \A e \in Event :
  Queued(e) ~> (outbox[e].status \in {"acked", "expired"})

(* "stored once however many gateways relay it": a packet becomes what it   *)
(* describes at most once, whoever posts it at the same moment or again.    *)
OneReport == repeated = {}

(* A packet some gateway heard becomes what it describes, although requests *)
(* and answers are lost on the way, unless every gateway that still has it  *)
(* has more to post than one post may carry: such a bridge is stuck for     *)
(* good.  A handler that raises and a server that stops after it stored a   *)
(* packet are left out: see TakenIsTurned.  (Packets are alike: this is one.) *)
Stuck(p) ==
  /\ \E g \in Gateway : p \in heard[g]
  /\ \A g \in Gateway : p \in heard[g] => TooLong(g)
HeardBecomesReport ==
  LET p == CHOOSE q \in Packet : TRUE
  IN {"handler_fails", "server_stops"} \cap scene = {} =>
       ((p \in sent) ~> (p \in reports \/ Stuck(p)))

(* "Each is verified, stored once however many gateways relay it, and       *)
(* turned into what it describes": a packet a gateway was told is taken has *)
(* become it, or is being handled.                                         *)
TakenIsTurned ==
  \A p \in told : p \in reports \/ \E g \in Gateway : p \in post[g].now

----------------------------------------------------------------------------
(* Strengthenings: what makes the safety properties inductive.              *)

(* A message that was never handed out has no attempts; a sync that reads   *)
(* has read a cursor.                                                       *)
RowInv == \A e \in Event : outbox[e].status \in {"none", "pending"} => outbox[e].attempts = 0
FromInv == \A g \in Gateway : pull[g].pc \in {"rows", "last"} => pull[g].from # Unset

(* A gateway acknowledges what it broadcast.                                *)
AiredInv == \A g \in Gateway : pull[g].sent \subseteq aired

(* A packet is handled by one gateway, that stored it, and was not yet.     *)
Busy(g) == post[g].pc \in {"handle", "note"}
HandledInv ==
  /\ \A g \in Gateway : Busy(g) => \A p \in post[g].now : message[p] # "none"
  /\ \A g \in Gateway : post[g].pc = "handle" => post[g].now \cap reports = {}
  /\ \A g, h \in Gateway : g # h /\ Busy(g) /\ Busy(h) => post[g].now \cap post[h].now = {}
  /\ \A p \in reports : message[p] # "none"

(* Where the log grows at its end between syncs and messages can be built:  *)
(* every position a sync starts from or ends at is covered by messages, or  *)
(* by the rows it still holds.                                              *)
Calm == {"any_time", "build_fails"} \cap scene = {}
Covers(n, rows) == n <= Len(log) /\ \A e \in News : start < e /\ e <= n => outbox[e].status # "none" \/ e \in rows
PullCovers(q) ==
  /\ q.pc \in {"rows", "last"} => Covers(q.from, {})
  /\ q.pc = "last" => q.rows = Rows(q.from)
  /\ q.pc = "build" => Covers(q.last, q.rows)
Unskipped ==
  /\ \A e \in DOMAIN log : log[e] # "open"
  /\ cursor = Unset => \A g \in Gateway : pull[g].pc \notin {"rows", "last", "build"}
  /\ cursor # Unset => Covers(cursor, {})
  /\ \A g \in Gateway : PullCovers(pull[g])
SkipInv == Calm => Unskipped
=============================================================================
