----------------------------- MODULE IngestBus -----------------------------
(***************************************************************************)
(* The ingest bus (app/core/ingest.py) behind POST /ingest/telemetry and   *)
(* POST /ingest/reports (app/api/v1/ingest.py): a submission claims its    *)
(* idempotency key, is queued in the lane of its kind, and is answered 202 *)
(* with a ticket; workers drain the lanes in batches.                      *)
(*                                                                         *)
(* Two backends behind the same functions.  "memory": asyncio queues and   *)
(* dictionaries of one process.  "redis": one stream per lane with a       *)
(* consumer group, shared keys and tickets, and the process-local path as  *)
(* the fallback whenever a call to Redis fails (app/core/shared.py).       *)
(*                                                                         *)
(* A ticket is the number of its submission.  Everything queued is kept as *)
(* a set of tickets: the lanes are drained in priority order, and within a *)
(* lane the order is left open.  Keys and tickets live ten minutes, longer *)
(* than a behaviour of the model.                                          *)
(***************************************************************************)
EXTENDS Integers, Sequences, FiniteSets

CONSTANTS
  Replica,      \* the processes that run the bus (API replicas, app.worker)
  Door,         \* those that answer HTTP (app.worker does not)
  Item,         \* what a client may send, each with its own idempotency key
  LaneOf,       \* the lane of the item's kind
  Backends,     \* which backends this instance looks at
  Capacity,     \* settings.ingest_*_max, per lane
  BatchSize,    \* settings.ingest_batch_size
  MaxSubmits,   \* bound: submissions, re-sent ones included
  MaxErrors,    \* bound: calls to Redis that fail
  Scenarios     \* the sets of faults this instance looks at

Lane == {"critical", "standard", "bulk"}
Faults == {"redis_error", "batch_error", "slow_worker", "stop", "crash"}

ASSUME IngestAssumption ==
  /\ Door \subseteq Replica
  /\ LaneOf \in [Item -> Lane]
  /\ Backends \subseteq {"memory", "redis"}
  /\ Capacity \in [Lane -> Nat] /\ BatchSize \in Nat \ {0}
  /\ MaxSubmits \in Nat /\ MaxErrors \in Nat
  /\ Scenarios \subseteq SUBSET Faults

Ticket == 1..MaxSubmits
Worker == Replica \X {"local", "redis"}
Home(w) == w[1]

(* What a submission is doing: the awaits of submit(), then its answer.     *)
Waiting == {"claim", "depth", "add", "mark", "inline"}
Answered == {"accepted", "streamed", "written", "duplicate", "shed"}
Submission == [item : Item, at : Replica, st : Waiting \cup Answered \cup {"gone"},
               of : 0..MaxSubmits]
Shown == {"none", "queued", "done", "failed"}
Idle == [phase |-> "idle", items |-> {}, done |-> {}]
HandType == [phase : {"idle", "flush", "process", "ack"},
             items : SUBSET Ticket, done : SUBSET Ticket]

VARIABLES
  backend,          \* "redis" when REDIS_URL is set; never changes
  fault,            \* what may go wrong; never changes
  life,             \* each process: up, draining (stop() waits), down
  away,             \* shared.client() is None: Redis failed a moment ago
  errors,           \* failed calls so far (bound)
  sub,              \* the submissions, by ticket
  idem, idemShared, \* _idem of each process, ingest:i:* in Redis; 0: no entry
  queue,            \* the asyncio queues of each process
  stream,           \* entries of the Redis streams, until they are deleted
  unread,           \* those no worker was given yet
  pending,          \* those given to some worker and not acknowledged
  hand,             \* the batch each worker holds
  shown,            \* each ticket, in _tickets of the process that took it
  runs,             \* history: how often the handler was given the item
  trouble           \* history: whether Redis failed or a batch was taken over

setting == <<backend, fault>>
queues == <<queue, stream, unread, pending, hand>>
keys == <<idem, idemShared>>
vars == <<setting, life, away, errors, sub, keys, queues, shown, runs, trouble>>

----------------------------------------------------------------------------
LaneAt(n) == LaneOf[sub[n].item]
InLane(S, l) == {n \in S : LaneAt(n) = l}
Full(S, l) == Cardinality(InLane(S, l)) >= Capacity[l]
Rank(l) == CASE l = "critical" -> 1 [] l = "standard" -> 2 [] l = "bulk" -> 3

(* What a drain with room for so many takes: nothing is left in a lane      *)
(* above one that something was taken from.                                 *)
Drains(Q, room) ==
  {T \in SUBSET Q :
     /\ Cardinality(T) <= room
     /\ Cardinality(T) = room \/ T = Q
     /\ \A a \in T, b \in Q \ T : Rank(LaneAt(a)) <= Rank(LaneAt(b))}

Reach(r) == backend = "redis" /\ ~away[r]
Alive(r) == life[r] # "down"

Init ==
  /\ backend \in Backends /\ fault \in Scenarios
  /\ life = [r \in Replica |-> "up"]
  /\ away = [r \in Replica |-> FALSE]
  /\ errors = 0
  /\ sub = <<>>
  /\ idem = [r \in Replica |-> [i \in Item |-> 0]]
  /\ idemShared = [i \in Item |-> 0]
  /\ queue = [r \in Replica |-> {}]
  /\ stream = {} /\ unread = {}
  /\ pending = {}
  /\ hand = [w \in Worker |-> Idle]
  /\ shown = [n \in Ticket |-> "none"]
  /\ runs = [n \in Ticket |-> 0]
  /\ trouble = FALSE

----------------------------------------------------------------------------
(* _set_ticket, of a process that may or may not be the one that took it.   *)
SetTickets(r, S, status) ==
  shown' = [n \in Ticket |-> IF n \in S /\ sub[n].at = r THEN status ELSE shown[n]]

Answer(n, s) == [sub EXCEPT ![n].st = s]
Arrive(i, r, s, of) == Append(sub, [item |-> i, at |-> r, st |-> s, of |-> of])

(* A call to Redis failed: shared.mark_down.                                *)
CallFails(r) ==
  /\ "redis_error" \in fault /\ errors < MaxErrors
  /\ errors' = errors + 1 /\ trouble' = TRUE
  /\ away' = [away EXCEPT ![r] = TRUE]

CallWorks == UNCHANGED <<errors, trouble, away>>

(* The second half of submit(), the queue of this process.  A full lane     *)
(* sheds; the critical one never does, its item is written through.         *)
Verdict(r, l) ==
  IF ~Full(queue[r], l) THEN "accepted" ELSE IF l = "critical" THEN "inline" ELSE "shed"

ToQueue(n, r, l) ==
  IF Full(queue[r], l) THEN UNCHANGED <<queue, shown>>
  ELSE /\ queue' = [queue EXCEPT ![r] = @ \cup {n}]
       /\ shown' = [shown EXCEPT ![n] = "queued"]

Fallback(n) ==
  LET r == sub[n].at IN
  /\ ToQueue(n, r, LaneAt(n))
  /\ sub' = Answer(n, Verdict(r, LaneAt(n)))

(* POST /ingest/...: submit() up to its first await.  Without Redis that is *)
(* all of it, but for the write-through.                                    *)
Submit(r, i) ==
  LET n == Len(sub) + 1 IN
  /\ r \in Door /\ life[r] = "up" /\ n <= MaxSubmits
  /\ \/ /\ idem[r][i] # 0
        /\ sub' = Arrive(i, r, "duplicate", idem[r][i])
        /\ UNCHANGED <<idem, queue, shown>>
     \/ /\ idem[r][i] = 0 /\ ~Reach(r)
        /\ idem' = [idem EXCEPT ![r][i] = n]
        /\ ToQueue(n, r, LaneOf[i])
        /\ sub' = Arrive(i, r, Verdict(r, LaneOf[i]), n)
     \/ /\ idem[r][i] = 0 /\ Reach(r)
        /\ sub' = Arrive(i, r, "claim", n)
        /\ UNCHANGED <<idem, queue, shown>>
  /\ UNCHANGED <<setting, life, away, errors, idemShared, stream, unread, pending, hand, runs, trouble>>

(* SET without NX: the last one to ask has the key.                         *)
BugUnclaimed(i) == TRUE

Unclaimed(i) == idemShared[i] = 0

(* await r.set(key, nx): the key is new, or it is another ticket's, or the  *)
(* call fails, after or before Redis did it, and only this process knows.   *)
Claim(n) ==
  LET i == sub[n].item  r == sub[n].at IN
  /\ sub[n].st = "claim"
  /\ \/ /\ Unclaimed(i) /\ CallWorks
        /\ idemShared' = [idemShared EXCEPT ![i] = n]
        /\ idem' = [idem EXCEPT ![r][i] = n]
        /\ IF away[r] THEN Fallback(n)
           ELSE sub' = Answer(n, "depth") /\ UNCHANGED <<queue, shown>>
     \/ /\ ~Unclaimed(i) /\ CallWorks
        /\ sub' = [sub EXCEPT ![n] = [item |-> i, at |-> r, st |-> "duplicate", of |-> idemShared[i]]]
        /\ UNCHANGED <<keys, queue, shown>>
     \/ /\ CallFails(r)
        /\ idemShared' \in {idemShared, [idemShared EXCEPT ![i] = IF @ = 0 THEN n ELSE @]}
        /\ idem' = [idem EXCEPT ![r][i] = n]
        /\ Fallback(n)
  /\ UNCHANGED <<setting, life, stream, unread, pending, hand, runs>>

(* await r.xlen: a full stream sheds, or sends a report to the queue of the *)
(* process.                                                                 *)
Depth(n) ==
  LET r == sub[n].at  l == LaneAt(n) IN
  /\ sub[n].st = "depth"
  /\ \/ /\ Full(stream, l) /\ l # "critical" /\ CallWorks
        /\ sub' = Answer(n, "shed") /\ UNCHANGED <<queue, shown>>
     \/ /\ Full(stream, l) /\ l = "critical" /\ CallWorks
        /\ ToQueue(n, r, l) /\ sub' = Answer(n, Verdict(r, l))
     \/ /\ ~Full(stream, l) /\ CallWorks
        /\ sub' = Answer(n, "add") /\ UNCHANGED <<queue, shown>>
     \/ CallFails(r) /\ Fallback(n)
  /\ UNCHANGED <<setting, life, keys, stream, unread, pending, hand, runs>>

(* await r.xadd: when the reply is lost the entry may be in the stream and  *)
(* the item goes to the local queue all the same.                           *)
Add(n) ==
  /\ sub[n].st = "add"
  /\ \/ /\ stream' = stream \cup {n} /\ unread' = unread \cup {n} /\ CallWorks
        /\ sub' = Answer(n, "mark") /\ UNCHANGED <<queue, shown>>
     \/ /\ \/ stream' = stream \cup {n} /\ unread' = unread \cup {n}
           \/ UNCHANGED <<stream, unread>>
        /\ CallFails(sub[n].at) /\ Fallback(n)
  /\ UNCHANGED <<setting, life, keys, pending, hand, runs>>

(* The ticket is set to queued once the entry is in the stream.             *)
Mark(n) ==
  LET r == sub[n].at IN
  /\ sub[n].st = "mark"
  /\ sub' = Answer(n, "streamed")
  /\ shown' = [shown EXCEPT ![n] = "queued"]
  /\ CallWorks \/ (Reach(r) /\ CallFails(r))
  /\ UNCHANGED <<setting, life, keys, queues, runs>>

(* The write-through of a report whose lane is full: the handler runs       *)
(* inside the request.                                                      *)
Inline(n) ==
  /\ sub[n].st = "inline"
  /\ sub' = Answer(n, "written")
  /\ runs' = [runs EXCEPT ![n] = @ + 1]
  /\ shown' = [shown EXCEPT ![n] = "done"]
  /\ UNCHANGED <<setting, life, away, errors, keys, queues, trouble>>

----------------------------------------------------------------------------
(* _local_worker: pop a batch; a short one waits for flush_ms and is        *)
(* topped up, both in the worker's hands.                                   *)
Drain(r) ==
  LET w == <<r, "local">> IN
  /\ Alive(r) /\ hand[w].phase = "idle" /\ queue[r] # {}
  /\ \E T \in Drains(queue[r], BatchSize) :
       /\ queue' = [queue EXCEPT ![r] = @ \ T]
       /\ hand' = [hand EXCEPT ![w] =
            [phase |-> IF Cardinality(T) < BatchSize THEN "flush" ELSE "process",
             items |-> T, done |-> {}]]
  /\ UNCHANGED <<setting, life, away, errors, sub, keys, stream, unread, pending, shown, runs, trouble>>

(* batch = ... instead of batch += ...                                      *)
BugTopUp(r) ==
  LET w == <<r, "local">> IN
  /\ Alive(r) /\ hand[w].phase = "flush"
  /\ \E T \in Drains(queue[r], BatchSize - Cardinality(hand[w].items)) :
       /\ queue' = [queue EXCEPT ![r] = @ \ T]
       /\ hand' = [hand EXCEPT ![w] = [phase |-> "process", items |-> T, done |-> {}]]
  /\ UNCHANGED <<setting, life, away, errors, sub, keys, stream, unread, pending, shown, runs, trouble>>

TopUp(r) ==
  LET w == <<r, "local">>  held == hand[w].items IN
  /\ Alive(r) /\ hand[w].phase = "flush"
  /\ \E T \in Drains(queue[r], BatchSize - Cardinality(held)) :
       /\ queue' = [queue EXCEPT ![r] = @ \ T]
       /\ hand' = [hand EXCEPT ![w] = [phase |-> "process", items |-> held \cup T, done |-> {}]]
  /\ UNCHANGED <<setting, life, away, errors, sub, keys, stream, unread, pending, shown, runs, trouble>>

(* _redis_worker: xautoclaim what has been pending too long, then read the  *)
(* lanes in order.  An entry is idle when no worker has it in hand; with    *)
(* "slow_worker" a batch may outlast CLAIM_IDLE_MS.                         *)
InHand == UNION {hand[w].items \cup hand[w].done : w \in Replica \X {"redis"}}

(* A worker that only reads new entries.                                    *)
BugClaimable == {}

Claimable == IF "slow_worker" \in fault THEN pending ELSE pending \ InHand

Take(r) ==
  LET w == <<r, "redis">> IN
  /\ Alive(r) /\ Reach(r) /\ hand[w].phase = "idle"
  /\ \E old \in SUBSET Claimable :
     \E new \in Drains(unread, BatchSize - Cardinality(old)) :
       /\ Cardinality(old) <= BatchSize /\ old \cup new # {}
       /\ pending' = pending \cup new
       /\ hand' = [hand EXCEPT ![w] =
            [phase |-> "process", items |-> old \cup new, done |-> {}]]
       /\ unread' = unread \ new
       /\ trouble' = (trouble \/ old \cap InHand # {})
  /\ UNCHANGED <<setting, life, away, errors, sub, keys, queue, stream, shown, runs>>

(* _process, one kind of the batch: one handler call, then the tickets.  A  *)
(* handler that raises fails its whole group; the report handler answers    *)
(* for each report and never raises.                                        *)
Process(w) ==
  LET r == Home(w) IN
  /\ Alive(r) /\ hand[w].phase = "process"
  /\ \E l \in Lane :
       LET group == InLane(hand[w].items, l)
           left == hand[w].items \ group IN
       /\ group # {}
       /\ runs' = [n \in Ticket |-> IF n \in group THEN runs[n] + 1 ELSE runs[n]]
       /\ \E status \in {"done"} \cup IF "batch_error" \in fault /\ l # "critical"
                                     THEN {"failed"} ELSE {} :
            SetTickets(r, group, status)
       /\ CallWorks \/ (Reach(r) /\ CallFails(r))
       /\ hand' = [hand EXCEPT ![w] =
            IF left = {} /\ w[2] = "local" THEN Idle
            ELSE [phase |-> IF left = {} THEN "ack" ELSE "process",
                  items |-> left, done |-> hand[w].done \cup group]]
  /\ UNCHANGED <<setting, life, sub, keys, queue, stream, unread, pending>>

(* xack and xdel, whoever the entries were delivered to.                    *)
Ack(r) ==
  LET w == <<r, "redis">>  S == hand[w].done IN
  /\ Alive(r) /\ hand[w].phase = "ack"
  /\ stream' = stream \ S
  /\ pending' = pending \ S
  /\ hand' = [hand EXCEPT ![w] = Idle]
  /\ UNCHANGED <<setting, life, away, errors, sub, keys, queue, unread, shown, runs, trouble>>

(* A call fails in _redis_worker: what it read stays pending, in nobody's   *)
(* hands.  Of a batch already processed some entries may be acknowledged,   *)
(* and of those some not deleted: they stay in the stream for good.         *)
Dropped(r) ==
  LET w == <<r, "redis">> IN
  /\ Alive(r) /\ hand[w].phase \in {"process", "ack"}
  /\ hand[w].phase = "process" => hand[w].done = {}
  /\ CallFails(r)
  /\ \E acked \in SUBSET hand[w].done :
       /\ pending' = pending \ acked
       /\ \E gone \in SUBSET acked : stream' = stream \ gone
  /\ hand' = [hand EXCEPT ![w] = Idle]
  /\ UNCHANGED <<setting, life, sub, keys, queue, unread, shown, runs>>

(* _down_until passes.                                                      *)
Recover(r) ==
  /\ away[r] /\ away' = [away EXCEPT ![r] = FALSE]
  /\ UNCHANGED <<setting, life, errors, sub, keys, queues, shown, runs, trouble>>

----------------------------------------------------------------------------
(* The process ends: its memory with it.  A request it was serving is       *)
(* answered by nobody.                                                      *)
Ends(r) ==
  /\ life' = [life EXCEPT ![r] = "down"]
  /\ queue' = [queue EXCEPT ![r] = {}]
  /\ hand' = [w \in Worker |-> IF Home(w) = r THEN Idle ELSE hand[w]]
  /\ idem' = [idem EXCEPT ![r] = [i \in Item |-> 0]]
  /\ away' = [away EXCEPT ![r] = FALSE]
  /\ shown' = [n \in Ticket |-> IF n \in DOMAIN sub /\ sub[n].at = r THEN "none" ELSE shown[n]]
  /\ sub' = [n \in DOMAIN sub |->
        IF sub[n].at = r /\ sub[n].st \in Waiting THEN [sub[n] EXCEPT !.st = "gone"] ELSE sub[n]]
  /\ trouble' = (trouble \/ hand[<<r, "redis">>].done # {})
  /\ UNCHANGED <<setting, errors, idemShared, stream, unread, pending, runs>>

Crash(r) == "crash" \in fault /\ Alive(r) /\ Ends(r)

(* stop(): the server has finished its requests; wait until the queues are  *)
(* empty or drain_s is over, then cancel the workers.                       *)
StopBegins(r) ==
  /\ "stop" \in fault /\ life[r] = "up"
  /\ \A n \in DOMAIN sub : sub[n].at = r => sub[n].st \notin Waiting
  /\ life' = [life EXCEPT ![r] = "draining"]
  /\ UNCHANGED <<setting, away, errors, sub, keys, queues, shown, runs, trouble>>

CancelWorkers(r) == life[r] = "draining" /\ Ends(r)

----------------------------------------------------------------------------
Request(n) == Claim(n) \/ Depth(n) \/ Add(n) \/ Mark(n) \/ Inline(n)
LocalWorker(r) == Drain(r) \/ TopUp(r) \/ Process(<<r, "local">>)
RedisWorker(r) == Take(r) \/ Process(<<r, "redis">>) \/ Ack(r)

Next ==
  \/ \E r \in Replica, i \in Item : Submit(r, i)
  \/ \E n \in DOMAIN sub : Request(n)
  \/ \E r \in Replica :
       \/ LocalWorker(r) \/ RedisWorker(r) \/ Dropped(r) \/ Recover(r)
       \/ Crash(r) \/ StopBegins(r) \/ CancelWorkers(r)

Spec == Init /\ [][Next]_vars

(* While a request is waiting or a worker has something to do, some of it   *)
(* is done, and Redis is asked again after a while.  Crashes, stops and     *)
(* failing calls are owed to nobody.                                        *)
Progress ==
  \/ \E n \in DOMAIN sub : Request(n)
  \/ \E r \in Replica : LocalWorker(r) \/ RedisWorker(r) \/ Recover(r)

FairSpec == Spec /\ WF_vars(Progress)

----------------------------------------------------------------------------
TypeOK ==
  /\ backend \in Backends /\ fault \in Scenarios
  /\ life \in [Replica -> {"up", "draining", "down"}]
  /\ away \in [Replica -> BOOLEAN] /\ errors \in 0..MaxErrors
  /\ sub \in Seq(Submission) /\ Len(sub) <= MaxSubmits
  /\ idem \in [Replica -> [Item -> 0..MaxSubmits]]
  /\ idemShared \in [Item -> 0..MaxSubmits]
  /\ queue \in [Replica -> SUBSET DOMAIN sub]
  /\ stream \subseteq DOMAIN sub /\ unread \subseteq stream
  /\ pending \subseteq stream
  /\ hand \in [Worker -> HandType]
  /\ \A w \in Worker : hand[w].items \cup hand[w].done \subseteq DOMAIN sub
  /\ shown \in [Ticket -> Shown]
  /\ runs \in [Ticket -> Nat]
  /\ trouble \in BOOLEAN

Processed(n) == runs[n] > 0

(* "Accepted and durable for as long as the queue is" (api/v1/ingest.py):   *)
(* what was answered 202 out of the streams is processed or still there,    *)
(* whatever process dies; what went to the memory of a process is in its    *)
(* queue or in its worker's hands while that process lives.                 *)
AcceptedIsKept == \A n \in DOMAIN sub :
  /\ sub[n].st = "streamed" => Processed(n) \/ n \in unread \cup pending
  /\ sub[n].st = "accepted" =>
       \/ Processed(n) \/ ~Alive(sub[n].at)
       \/ n \in queue[sub[n].at] \cup hand[<<sub[n].at, "local">>].items

(* "A phone that retries on a bad network files one report, not five": of   *)
(* all submissions of one key one is processed, once.  In one process       *)
(* always; over the streams as long as no call to Redis fails and no batch  *)
(* is taken from a worker that was about to acknowledge it.                 *)
OncePerKey == \A m, n \in DOMAIN sub :
  /\ sub[m].item = sub[n].item
  /\ IF backend = "memory" THEN sub[m].at = sub[n].at ELSE ~trouble
  => /\ runs[n] <= 1
     /\ m # n => runs[m] = 0 \/ runs[n] = 0

(* "503 + Retry-After; a gateway re-sends": a re-sent item is not answered  *)
(* as a duplicate of the submission that was turned away.                   *)
ResendIsTaken == \A n \in DOMAIN sub :
  sub[n].st = "duplicate" => sub[sub[n].of].st # "shed"

(* Everything answered 202 is worked off: an item in the streams as long as *)
(* some process lives, an item in a process's queue as long as that one     *)
(* does, and then its ticket says so.                                       *)
Is(n, st) == n \in DOMAIN sub /\ sub[n].st = st

AcceptedIsAnswered == \A n \in Ticket :
  /\ Is(n, "streamed") ~> Processed(n) \/ \A r \in Replica : ~Alive(r)
  /\ Is(n, "accepted") ~> \/ n \in DOMAIN sub /\ shown[n] \in {"done", "failed"}
                          \/ n \in DOMAIN sub /\ ~Alive(sub[n].at)

(* Strengthenings: what makes the two safety properties inductive.          *)

HeldBy(r) == hand[<<r, "redis">>].items \cup hand[<<r, "redis">>].done

(* Only what was added to a stream is in one or in the hands of a worker    *)
(* that reads it, and what was given to a worker is not unread again.       *)
GivenInv ==
  /\ \A r \in Replica : unread \cap HeldBy(r) = {}
  /\ unread \cap pending = {}
  /\ \A n \in DOMAIN sub : sub[n].st \in {"claim", "depth", "add"} =>
       n \notin stream /\ \A r \in Replica : n \notin HeldBy(r)

(* An idle worker holds nothing, and what it is about to acknowledge was    *)
(* processed; what was added to a stream stays there until it is.           *)
KeptInv ==
  /\ \A w \in Worker : hand[w].phase = "idle" => hand[w].items = {} /\ hand[w].done = {}
  /\ \A w \in Worker : \A n \in hand[w].done : Processed(n)
  /\ \A n \in DOMAIN sub : sub[n].st = "mark" => Processed(n) \/ n \in unread \cup pending

(* Without Redis nothing is ever in it; with it, a process that stopped     *)
(* calling it saw a call fail.                                              *)
BackendInv ==
  /\ \A r \in Replica : away[r] => trouble
  /\ backend = "memory" =>
       /\ ~trouble /\ stream = {}
       /\ \A r \in Replica : hand[<<r, "redis">>] = Idle
       /\ \A n \in DOMAIN sub :
            sub[n].st \in {"inline", "accepted", "written", "duplicate", "shed", "gone"}

Untouched == {"claim", "depth", "add", "inline", "duplicate", "shed"}

(* Where a submission that was not processed yet can be: one place at most. *)
PlaceInv ==
  /\ \A n \in Ticket :
       /\ runs[n] <= 1
       /\ n \notin DOMAIN sub => runs[n] = 0
       /\ n \in DOMAIN sub => (sub[n].st \in Untouched => runs[n] = 0)
  /\ \A r \in Replica : \A n \in queue[r] \cup hand[<<r, "local">>].items :
       sub[n].at = r /\ sub[n].st = "accepted" /\ runs[n] = 0
  /\ \A r \in Replica : queue[r] \cap hand[<<r, "local">>].items = {}
  /\ \A n \in stream : sub[n].st \in {"mark", "streamed", "gone"}
  /\ \A n \in unread : runs[n] = 0
  /\ \A n \in pending : runs[n] = 0 \/ \E r \in Replica : n \in hand[<<r, "redis">>].done
  /\ \A r \in Replica : HeldBy(r) \subseteq pending
  /\ \A r \in Replica : \A n \in hand[<<r, "redis">>].items : runs[n] = 0
  /\ \A r, s \in Replica : r # s => HeldBy(r) \cap HeldBy(s) = {}

(* The submission a key belongs to is the only one that gets anywhere.      *)
OwnerInv ==
  IF backend = "memory"
  THEN \A m \in DOMAIN sub : sub[m].st # "duplicate" =>
         /\ Alive(sub[m].at) => idem[sub[m].at][sub[m].item] = m
         /\ \A n \in DOMAIN sub :
              sub[n].st # "duplicate" /\ sub[n].at = sub[m].at /\ sub[n].item = sub[m].item => m = n
  ELSE \A n \in DOMAIN sub :
         \/ sub[n].st \notin {"claim", "duplicate", "gone"} \/ n \in stream \/ runs[n] > 0
         => idemShared[sub[n].item] = n

OnceInv == BackendInv /\ (~trouble => PlaceInv /\ OwnerInv)

=============================================================================
