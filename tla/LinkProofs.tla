----------------------------- MODULE LinkProofs -----------------------------
(***************************************************************************)
(* Proofs about the two links to what is outside: MeshGateway, for any     *)
(* number of gateways, packets and events, and any batch and limit; and    *)
(* then SwarmLink, for any incidents and units.                            *)
(***************************************************************************)
EXTENDS MeshGateway, FiniteSetTheorems, SequenceTheorems, WellFoundedInduction, TLAPS

(* A nonempty set of numbers below a bound has a largest member.            *)
LEMMA LargestExists ==
  ASSUME NEW S, NEW n \in Nat, S \subseteq 0..n, S # {}
  PROVE  \E m \in S : \A j \in S : j <= m
<1> DEFINE T == {k \in Nat : n - k \in S}
<1>1. PICK s \in S : TRUE
  OBVIOUS
<1>2. T \subseteq Nat /\ n - s \in T
  BY <1>1
<1>3. PICK t \in T : \A u \in T : ~(<<u, t>> \in OpToRel(<, Nat))
  <2> HIDE DEF T
  <2>1. QED
    BY <1>2, NatLessThanWellFounded, WFMin
<1>4. t \in Nat /\ n - t \in S /\ \A u \in T : ~(u < t)
  BY <1>3, Zenon DEF OpToRel
<1>5. \A j \in S : j <= n - t
  <2>1. \A j \in S : n - j \in Nat /\ n - (n - j) = j
    OBVIOUS
  <2>2. \A j \in S : n - j \in T
    BY <2>1
  <2>3. \A j \in S : ~(n - j < t)
    BY <1>4, <2>2, Zenon
  <2>4. QED
    BY <1>4, <2>1, <2>3
<1>6. QED
  BY <1>4, <1>5

(* The two halves of the module do not touch each other's variables.        *)
Outbound ==
  \/ EventHappens \/ Commit \/ AckHeard \/ HalfMinute \/ TwoHours
  \/ \E g \in Gateway : Pulls(g) \/ Drop(g)
Inbound == Send \/ \E g \in Gateway : Posts(g) \/ HandlerFails(g) \/ ServerStops(g) \/ Lost(g)

LEMMA Halves ==
  ASSUME Next
  PROVE  Outbound \/ Inbound
BY DEF Next, Outbound, Inbound

LEMMA OutboundLeavesIn ==
  ASSUME Outbound
  PROVE  UNCHANGED <<scene, in>>
<1>1. CASE EventHappens \/ Commit \/ AckHeard \/ HalfMinute \/ TwoHours
  BY <1>1 DEF EventHappens, Commit, AckHeard, HalfMinute, TwoHours
<1>2. ASSUME NEW g \in Gateway, Pulls(g) \/ Drop(g)
      PROVE  UNCHANGED <<scene, in>>
  BY <1>2 DEF Pulls, Drop, ReadCursor, FirstRun, ReadRows, ReadLast, Build, MoveCursor, Offer, Broadcast, Ack
<1>3. QED
  BY <1>1, <1>2 DEF Outbound

LEMMA InboundLeavesOut ==
  ASSUME Inbound
  PROVE  UNCHANGED <<scene, out>>
<1>1. CASE Send
  BY <1>1 DEF Send
<1>2. ASSUME NEW g \in Gateway, Posts(g) \/ HandlerFails(g) \/ ServerStops(g) \/ Lost(g)
      PROVE  UNCHANGED <<scene, out>>
  BY <1>2 DEF Posts, HandlerFails, ServerStops, Lost, PostHeard, Store, Handle, Note, Answered
<1>3. QED
  BY <1>1, <1>2 DEF Inbound

----------------------------------------------------------------------------
(* Types.                                                                   *)

LogType == log \in Seq({"open", "alert", "job", "other", "gone"}) /\ Len(log) <= MaxEvents
OutType ==
  /\ LogType /\ cursor \in Unset..MaxEvents /\ start \in 0..MaxEvents
  /\ outbox \in [Event -> Row] /\ pull \in [Gateway -> Pull] /\ aired \subseteq Event
InType ==
  /\ sent \subseteq Packet /\ heard \in [Gateway -> SUBSET Packet]
  /\ message \in [Packet -> {"none", "stored", "done"}]
  /\ reports \subseteq Packet /\ repeated \subseteq Packet /\ told \subseteq Packet
  /\ post \in [Gateway -> Post]
OutInv == OutType /\ RowInv /\ FromInv

LEMMA LogFacts ==
  ASSUME LogType
  PROVE  /\ Len(log) \in Nat /\ DOMAIN log = 1..Len(log)
         /\ Committed \subseteq DOMAIN log /\ News \subseteq Committed
         /\ DOMAIN log \subseteq Event /\ MaxEvents \in Nat
<1>1. Len(log) \in Nat /\ DOMAIN log = 1..Len(log)
  BY LenProperties DEF LogType
<1>2. MaxEvents \in Nat
  BY MeshAssumption
<1>3. DOMAIN log \subseteq Event
  BY <1>1, <1>2 DEF LogType, Event
<1>4. QED
  BY <1>1, <1>2, <1>3 DEF Committed, News

(* The largest of a bounded set and a number is one of them.                *)
LEMMA LargestIs ==
  ASSUME NEW n \in Nat, NEW s, s \subseteq 0..n, NEW least \in 0..n
  PROVE  /\ Largest(s, least) \in s \cup {least} /\ Largest(s, least) \in 0..n
         /\ \A k \in s \cup {least} : k <= Largest(s, least)
<1>1. s \cup {least} \subseteq 0..n /\ s \cup {least} # {}
  OBVIOUS
<1>2. \E m \in s \cup {least} : \A k \in s \cup {least} : k <= m
  BY <1>1, LargestExists
<1>3. QED
  BY <1>1, <1>2 DEF Largest

LEMMA RowsAre ==
  ASSUME LogType, NEW from
  PROVE  Rows(from) \subseteq News /\ Rows(from) \subseteq Event
BY LogFacts DEF Rows, FirstOf

(* The end of a batch is a position of the log.                             *)
LEMMA LastIs ==
  ASSUME LogType, NEW from \in 0..MaxEvents
  PROVE  /\ Last(from) \in 0..MaxEvents
         /\ Last(from) = from \/ Last(from) \in FirstOf({e \in Committed : e > from}, Batch)
<1> DEFINE s == FirstOf({e \in Committed : e > from}, Batch)
<1>1. s \subseteq 0..MaxEvents /\ MaxEvents \in Nat
  BY LogFacts DEF FirstOf, Event
<1>2. Largest(s, from) \in s \cup {from} /\ Largest(s, from) \in 0..MaxEvents
  BY <1>1, LargestIs
<1>3. QED
  BY <1>2 DEF Last

----------------------------------------------------------------------------
LEMMA TypeStarts ==
  ASSUME Init
  PROVE  TypeOK /\ RowInv /\ FromInv
<1>1. log \in Seq({"open", "alert", "job", "other", "gone"}) /\ Len(log) = 0
  BY EmptySeq DEF Init
<1>2. NoRow \in Row /\ NoPull \in Pull /\ NoPost \in Post
  BY MeshAssumption DEF NoRow, Row, NoPull, Pull, NoPost, Post, Unset
<1>3. QED
  BY <1>1, <1>2, MeshAssumption DEF Init, TypeOK, RowInv, FromInv, Unset, NoRow, NoPull

LEMMA TypeIs ==
  TypeOK /\ RowInv /\ FromInv <=> scene \in Scenarios /\ lost \in 0..MaxLost /\ OutInv /\ InType
BY DEF TypeOK, OutInv, OutType, LogType, InType

(* A step of one gateway that replaces the record of its pull.              *)
LEMMA PullType ==
  ASSUME pull \in [Gateway -> Pull], FromInv, NEW g \in Gateway, NEW r \in Pull,
         r.pc \in {"rows", "last"} => r.from # Unset,
         pull' = [pull EXCEPT ![g] = r]
  PROVE  pull' \in [Gateway -> Pull] /\ FromInv'
BY DEF FromInv

LEMMA TypesFromParts ==
  ASSUME OutInv, UNCHANGED log, cursor' \in Unset..MaxEvents, start' \in 0..MaxEvents,
         outbox' \in [Event -> Row], RowInv', pull' \in [Gateway -> Pull], FromInv', aired' \subseteq Event
  PROVE  OutInv'
<1>1. LogType'
  BY DEF OutInv, OutType, LogType
<1>2. QED
  BY <1>1 DEF OutInv, OutType

LEMMA RowsKept ==
  ASSUME OutInv, UNCHANGED outbox
  PROVE  outbox' \in [Event -> Row] /\ RowInv'
<1>1. outbox' \in [Event -> Row]
  BY DEF OutInv, OutType
<1>2. RowInv'
  BY DEF OutInv, RowInv
<1>3. QED
  BY <1>1, <1>2

(* A step that replaces one row.                                            *)
LEMMA RowType ==
  ASSUME OutInv, NEW e \in Event, NEW r \in Row, r.status \in {"none", "pending"} => r.attempts = 0,
         outbox' = [outbox EXCEPT ![e] = r]
  PROVE  outbox' \in [Event -> Row] /\ RowInv'
<1>1. outbox' \in [Event -> Row]
  BY DEF OutInv, OutType
<1>2. RowInv'
  BY DEF OutInv, OutType, RowInv
<1>3. QED
  BY <1>1, <1>2

LEMMA SettledType ==
  ASSUME NEW status, status \in {"acked", "expired"}
  PROVE  Settled(status) \in Row /\ Settled(status).status = status
<1>1. NoRow \in Row
  BY MeshAssumption DEF NoRow, Row
<1>2. QED
  BY <1>1 DEF Settled, Row

LEMMA HandedType ==
  ASSUME NEW r \in Row, Offerable(r), r.status = "pending" => r.attempts = 0
  PROVE  Handed(r) \in Row /\ Handed(r).status = "sent"
<1>1. r.attempts + 1 \in 0..MaxAttempts
  BY MeshAssumption DEF Offerable, Row
<1>2. QED
  BY <1>1 DEF Handed, Row

LEMMA AckedType ==
  ASSUME OutInv, NEW rows, outbox' = Acked(rows)
  PROVE  outbox' \in [Event -> Row] /\ RowInv'
<1>1. Settled("acked") \in Row /\ Settled("acked").status = "acked"
  BY SettledType
<1>2. outbox' \in [Event -> Row]
  BY <1>1 DEF Acked, OutInv, OutType
<1>3. RowInv'
  BY <1>1 DEF Acked, OutInv, OutType, RowInv
<1>4. QED
  BY <1>2, <1>3

LEMMA OutboundKeepsTypes ==
  ASSUME OutInv, Outbound
  PROVE  OutInv'
<1> USE DEF OutInv
<1>1. CASE EventHappens \/ Commit
  <2>1. UNCHANGED <<cursor, start, outbox, pull, aired>>
    BY <1>1 DEF EventHappens, Commit
  <2>2. LogType'
    <3>1. CASE EventHappens
      <4>1. PICK kind \in {"open", "alert", "job", "other", "gone"} : log' = Append(log, kind)
        BY <3>1 DEF EventHappens
      <4>2. log' \in Seq({"open", "alert", "job", "other", "gone"}) /\ Len(log') = Len(log) + 1
        BY <4>1, AppendProperties DEF OutType, LogType
      <4>3. Len(log) < MaxEvents /\ Len(log) \in Nat /\ MaxEvents \in Nat
        BY <3>1, LogFacts DEF EventHappens, OutType
      <4>4. QED
        BY <4>2, <4>3 DEF LogType
    <3>2. CASE Commit
      <4>1. PICK e \in DOMAIN log, end \in {"open", "alert", "job", "other", "gone"} : log' = [log EXCEPT ![e] = end]
        BY <3>2 DEF Commit
      <4>2. e \in 1..Len(log)
        BY LogFacts DEF OutType
      <4>3. log' \in Seq({"open", "alert", "job", "other", "gone"}) /\ Len(log') = Len(log)
        BY <4>1, <4>2, ExceptSeq DEF OutType, LogType
      <4>4. QED
        BY <4>3 DEF OutType, LogType
    <3>3. QED
      BY <1>1, <3>1, <3>2
  <2>3. outbox' \in [Event -> Row] /\ RowInv'
    BY <2>1, RowsKept
  <2>4. FromInv'
    BY <2>1 DEF FromInv
  <2>5. QED
    BY <2>1, <2>2, <2>3, <2>4 DEF OutType
<1>2. CASE AckHeard \/ HalfMinute \/ TwoHours
  <2>1. UNCHANGED <<log, cursor, start, pull, aired>>
    BY <1>2 DEF AckHeard, HalfMinute, TwoHours
  <2>2. outbox' \in [Event -> Row] /\ RowInv'
    <3>1. CASE AckHeard
      <4>2. QED
        BY <3>1, AckedType DEF AckHeard
    <3>2. CASE HalfMinute
      <4>1. PICK e \in Event : outbox[e].status = "sent" /\ outbox' = [outbox EXCEPT ![e].stale = TRUE]
        BY <3>2 DEF HalfMinute
      <4> DEFINE r == [outbox[e] EXCEPT !.stale = TRUE]
      <4>2. r \in Row /\ r.status = "sent" /\ outbox' = [outbox EXCEPT ![e] = r]
        BY <4>1 DEF OutType, Row
      <4> HIDE DEF r
      <4>3. QED
        BY <4>2, RowType
    <3>3. CASE TwoHours
      <4>1. PICK e \in Event : outbox' = [outbox EXCEPT ![e].over = TRUE]
        BY <3>3 DEF TwoHours
      <4> DEFINE r == [outbox[e] EXCEPT !.over = TRUE]
      <4>2. r \in Row /\ r.status = outbox[e].status /\ r.attempts = outbox[e].attempts
        BY DEF OutType, Row
      <4>3. outbox' = [outbox EXCEPT ![e] = r]
        BY <4>1
      <4> HIDE DEF r
      <4>4. QED
        BY <4>2, <4>3, RowType DEF RowInv
    <3>4. QED
      BY <1>2, <3>1, <3>2, <3>3
  <2>3. QED
    BY <2>1, <2>2 DEF OutType, LogType, FromInv
<1>3. ASSUME NEW g \in Gateway, Pulls(g) \/ Drop(g)
      PROVE  OutInv'
  <2>1. pull[g] \in Pull /\ LogType
    BY DEF OutType
  <2>2. CASE ReadCursor(g)
    <3> DEFINE r == [pull[g] EXCEPT !.pc = IF cursor = Unset THEN "first" ELSE "rows", !.from = cursor]
    <3>1. r \in Pull /\ (r.pc \in {"rows", "last"} => r.from # Unset)
      BY <2>1 DEF OutType, Pull
    <3>2. pull' = [pull EXCEPT ![g] = r]
      BY <2>2 DEF ReadCursor
    <3> HIDE DEF r
    <3>3. pull' \in [Gateway -> Pull] /\ FromInv'
      BY <3>1, <3>2, PullType DEF OutType
    <3>4. UNCHANGED <<log, cursor, start, outbox, aired>>
      BY <2>2 DEF ReadCursor
    <3>5. QED
      BY <3>3, <3>4, RowsKept, TypesFromParts DEF OutType
  <2>3. CASE FirstRun(g)
    <3>1. Largest(Committed, 0) \in 0..MaxEvents
      <4>1. Committed \subseteq 0..MaxEvents /\ MaxEvents \in Nat
        BY <2>1, LogFacts DEF Event
      <4>2. 0 \in 0..MaxEvents
        BY <4>1
      <4> HIDE DEF Committed
      <4>3. QED
        BY <4>1, <4>2, LargestIs
    <3>2. cursor' \in Unset..MaxEvents /\ start' \in 0..MaxEvents
      BY <2>3, <3>1 DEF FirstRun, OutType, Unset
    <3> DEFINE r == [NoPull EXCEPT !.pc = "offer"]
    <3>3. r \in Pull /\ r.pc = "offer"
      BY MeshAssumption DEF NoPull, Pull, Unset
    <3>4. pull' = [pull EXCEPT ![g] = r]
      BY <2>3 DEF FirstRun
    <3> HIDE DEF r
    <3>5. pull' \in [Gateway -> Pull] /\ FromInv'
      BY <3>3, <3>4, PullType DEF OutType
    <3>6. UNCHANGED <<log, outbox, aired>>
      BY <2>3 DEF FirstRun
    <3>7. QED
      BY <3>2, <3>5, <3>6, RowsKept, TypesFromParts DEF OutType
  <2>4. CASE ReadRows(g)
    <3> DEFINE r == [pull[g] EXCEPT !.pc = "last", !.rows = Rows(pull[g].from)]
    <3>1. Rows(pull[g].from) \subseteq Event
      BY <2>1, RowsAre
    <3>2. r \in Pull /\ r.from # Unset
      BY <2>1, <2>4, <3>1 DEF Pull, ReadRows, FromInv
    <3>3. pull' = [pull EXCEPT ![g] = r]
      BY <2>4 DEF ReadRows
    <3> HIDE DEF r
    <3>4. pull' \in [Gateway -> Pull] /\ FromInv'
      BY <3>2, <3>3, PullType DEF OutType
    <3>5. UNCHANGED <<log, cursor, start, outbox, aired>>
      BY <2>4 DEF ReadRows
    <3>6. QED
      BY <3>4, <3>5, RowsKept, TypesFromParts DEF OutType
  <2>5. CASE ReadLast(g)
    <3> DEFINE last == Last(pull[g].from)
               r == [pull[g] EXCEPT !.pc = "build", !.from = Unset, !.last = last]
    <3>1. pull[g].from \in 0..MaxEvents
      BY <2>1, <2>5, MeshAssumption DEF Pull, ReadLast, FromInv, Unset
    <3>2. Last(pull[g].from) \in 0..MaxEvents
      BY <2>1, <3>1, LastIs
    <3>4. pull' = [pull EXCEPT ![g] = r]
      BY <2>5 DEF ReadLast
    <3>3. r \in Pull /\ r.pc = "build"
      <4> HIDE DEF last
      <4>1. Unset \in Unset..MaxEvents
        BY MeshAssumption DEF Unset
      <4>2. last \in 0..MaxEvents
        BY <3>2 DEF last
      <4>3. QED
        BY <2>1, <4>1, <4>2 DEF Pull
    <3> HIDE DEF r
    <3>5. pull' \in [Gateway -> Pull] /\ FromInv'
      BY <3>3, <3>4, PullType DEF OutType
    <3>6. UNCHANGED <<log, cursor, start, outbox, aired>>
      BY <2>5 DEF ReadLast
    <3>7. QED
      BY <3>5, <3>6, RowsKept, TypesFromParts DEF OutType
  <2>6. CASE Build(g)
    <3>1. PICK e \in pull[g].rows :
            /\ outbox' = Made(e) \/ UNCHANGED outbox
            /\ pull' = [pull EXCEPT ![g] = [pull[g] EXCEPT !.rows = pull[g].rows \ {e}]]
      BY <2>6 DEF Build
    <3>2. e \in Event
      BY <2>1 DEF Pull
    <3>3. outbox' \in [Event -> Row] /\ RowInv'
      <4>1. CASE outbox' = [outbox EXCEPT ![e].status = "pending"] /\ outbox[e].status = "none"
        <5> DEFINE r == [outbox[e] EXCEPT !.status = "pending"]
        <5>1. r \in Row /\ r.attempts = 0
          BY <3>2, <4>1 DEF OutType, Row, RowInv
        <5>2. outbox' = [outbox EXCEPT ![e] = r]
          BY <4>1
        <5> HIDE DEF r
        <5>3. QED
          BY <3>2, <5>1, <5>2, RowType
      <4>2. CASE UNCHANGED outbox
        BY <4>2, RowsKept
      <4>3. QED
        BY <3>1, <4>1, <4>2 DEF Made
    <3> DEFINE r == [pull[g] EXCEPT !.rows = pull[g].rows \ {e}]
    <3>4. r \in Pull /\ r.pc = "build"
      BY <2>1, <2>6 DEF Pull, Build
    <3>5. pull' = [pull EXCEPT ![g] = r]
      BY <3>1
    <3> HIDE DEF r
    <3>6. pull' \in [Gateway -> Pull] /\ FromInv'
      BY <3>4, <3>5, PullType DEF OutType
    <3>7. UNCHANGED <<log, cursor, start, aired>>
      BY <2>6 DEF Build
    <3>8. QED
      BY <3>3, <3>6, <3>7, TypesFromParts DEF OutType
  <2>7. CASE MoveCursor(g)
    <3> DEFINE r == [NoPull EXCEPT !.pc = "offer"]
    <3>1. r \in Pull /\ r.pc = "offer"
      BY MeshAssumption DEF NoPull, Pull, Unset
    <3>2. pull' = [pull EXCEPT ![g] = r] /\ cursor' = pull[g].last
      BY <2>7 DEF MoveCursor
    <3>3. cursor' \in Unset..MaxEvents
      BY <2>1, <3>2 DEF Pull, Unset
    <3> HIDE DEF r
    <3>4. pull' \in [Gateway -> Pull] /\ FromInv'
      BY <3>1, <3>2, PullType DEF OutType
    <3>5. UNCHANGED <<log, start, outbox, aired>>
      BY <2>7 DEF MoveCursor
    <3>6. QED
      BY <3>3, <3>4, <3>5, RowsKept, TypesFromParts DEF OutType
  <2>8. CASE Offer(g)
    <3> DEFINE rows == [e \in Event |-> Expired(outbox[e])]
    <3>1. PICK s \in Offered(rows) :
            /\ outbox' = [e \in Event |-> IF e \in s THEN Handed(rows[e]) ELSE rows[e]]
            /\ pull' = [pull EXCEPT ![g] = [NoPull EXCEPT !.pc = "send", !.held = s]]
      BY <2>8 DEF Offer
    <3>2. \A e \in Event : /\ rows[e] \in Row
                           /\ rows[e].status \in {"none", "pending"} => rows[e].attempts = 0
      <4>1. Settled("expired") \in Row /\ Settled("expired").status = "expired"
        BY SettledType
      <4>2. QED
        BY <4>1 DEF OutType, RowInv, Expired
    <3>3. s \subseteq Event /\ \A e \in s : Offerable(rows[e])
      BY DEF Offered
    <3>10. DOMAIN rows = Event
      OBVIOUS
    <3> HIDE DEF rows
    <3>4. \A e \in s : Handed(rows[e]) \in Row /\ Handed(rows[e]).status = "sent"
      BY <3>2, <3>3, HandedType
    <3>5. outbox' \in [Event -> Row] /\ RowInv'
      BY <3>1, <3>2, <3>4 DEF RowInv
    <3> DEFINE r == [NoPull EXCEPT !.pc = "send", !.held = s]
    <3>6. r \in Pull /\ r.pc = "send"
      <4>1. NoPull \in Pull
        BY MeshAssumption DEF NoPull, Pull, Unset
      <4>2. QED
        BY <3>3, <4>1 DEF Pull
    <3>7. pull' = [pull EXCEPT ![g] = r]
      BY <3>1
    <3> HIDE DEF r
    <3>8. pull' \in [Gateway -> Pull] /\ FromInv'
      BY <3>6, <3>7, PullType DEF OutType
    <3>9. UNCHANGED <<log, cursor, start, aired>>
      BY <2>8 DEF Offer
    <3>11. QED
      BY <3>5, <3>8, <3>9, TypesFromParts DEF OutType
  <2>9. CASE Broadcast(g)
    <3>1. PICK e \in pull[g].held, ok \in BOOLEAN :
            /\ pull' = [pull EXCEPT ![g] = [pull[g] EXCEPT !.held = pull[g].held \ {e}, !.sent = Took(g, e, ok)]]
            /\ aired' = IF ok THEN aired \cup {e} ELSE aired
      BY <2>9 DEF Broadcast
    <3>2. e \in Event /\ Took(g, e, ok) \subseteq Event
      BY <2>1 DEF Pull, Took
    <3> DEFINE r == [pull[g] EXCEPT !.held = pull[g].held \ {e}, !.sent = Took(g, e, ok)]
    <3>3. r \in Pull /\ r.pc = "send"
      BY <2>1, <2>9, <3>2 DEF Pull, Broadcast
    <3>4. pull' = [pull EXCEPT ![g] = r]
      BY <3>1
    <3> HIDE DEF r
    <3>5. pull' \in [Gateway -> Pull] /\ FromInv'
      BY <3>3, <3>4, PullType DEF OutType
    <3>6. aired' \subseteq Event
      BY <3>1, <3>2 DEF OutType
    <3>7. UNCHANGED <<log, cursor, start, outbox>>
      BY <2>9 DEF Broadcast
    <3>8. QED
      BY <3>5, <3>6, <3>7, RowsKept, TypesFromParts DEF OutType
  <2>10. CASE Ack(g) \/ Drop(g)
    <3>1. pull' = [pull EXCEPT ![g] = NoPull] /\ UNCHANGED <<log, cursor, start, aired>>
      BY <2>10 DEF Ack, Drop
    <3>2. NoPull \in Pull /\ NoPull.pc = "idle"
      BY MeshAssumption DEF NoPull, Pull, Unset
    <3>3. pull' \in [Gateway -> Pull] /\ FromInv'
      BY <3>1, <3>2, PullType DEF OutType
    <3>4. outbox' \in [Event -> Row] /\ RowInv'
      BY <2>10, RowsKept, AckedType DEF Ack, Drop
    <3>5. QED
      BY <3>1, <3>3, <3>4, TypesFromParts DEF OutType
  <2>11. QED
    BY <1>3, <2>2, <2>3, <2>4, <2>5, <2>6, <2>7, <2>8, <2>9, <2>10 DEF Pulls
<1>4. QED
  BY <1>1, <1>2, <1>3 DEF Outbound

LEMMA PostType ==
  ASSUME post \in [Gateway -> Post], NEW g \in Gateway, NEW r \in Post, post' = [post EXCEPT ![g] = r]
  PROVE  post' \in [Gateway -> Post]
OBVIOUS

LEMMA InboundKeepsTypes ==
  ASSUME InType, Inbound
  PROVE  InType'
<1> USE DEF InType
<1>1. CASE Send
  BY <1>1 DEF Send
<1>2. ASSUME NEW g \in Gateway, Posts(g) \/ HandlerFails(g) \/ ServerStops(g) \/ Lost(g)
      PROVE  InType'
  <2>1. post[g] \in Post /\ NoPost \in Post /\ heard[g] \subseteq Packet
    BY DEF NoPost, Post
  <2>2. CASE PostHeard(g)
    <3> DEFINE r == [NoPost EXCEPT !.pc = "next", !.batch = heard[g], !.left = heard[g]]
    <3>1. r \in Post
      BY <2>1 DEF Post
    <3>2. post' = [post EXCEPT ![g] = r] /\ UNCHANGED <<sent, heard, message, reports, repeated, told>>
      BY <2>2 DEF PostHeard
    <3> HIDE DEF r
    <3>3. QED
      BY <3>1, <3>2, PostType
  <2>3. CASE Store(g)
    <3>1. PICK p \in post[g].left :
            \/ /\ message' = [message EXCEPT ![p] = "stored"]
               /\ post' = [post EXCEPT ![g] = [post[g] EXCEPT !.pc = "handle", !.left = post[g].left \ {p}, !.now = {p}]]
               /\ UNCHANGED told
            \/ /\ post' = [post EXCEPT ![g] = [post[g] EXCEPT !.left = post[g].left \ {p}]]
               /\ told' = told \cup {p}
               /\ UNCHANGED message
      BY <2>3 DEF Store
    <3>2. p \in Packet
      BY <2>1 DEF Post
    <3> DEFINE r == [post[g] EXCEPT !.pc = "handle", !.left = post[g].left \ {p}, !.now = {p}]
               q == [post[g] EXCEPT !.left = post[g].left \ {p}]
    <3>3. r \in Post /\ q \in Post
      BY <2>1, <3>2 DEF Post
    <3>4. post' = [post EXCEPT ![g] = r] \/ post' = [post EXCEPT ![g] = q]
      BY <3>1
    <3> HIDE DEF r, q
    <3>5. post' \in [Gateway -> Post]
      BY <3>3, <3>4, PostType
    <3>6. message' \in [Packet -> {"none", "stored", "done"}] /\ told' \subseteq Packet
      BY <3>1, <3>2
    <3>7. UNCHANGED <<sent, heard, reports, repeated>>
      BY <2>3 DEF Store
    <3>8. QED
      BY <3>5, <3>6, <3>7
  <2>4. CASE Handle(g)
    <3> DEFINE r == [post[g] EXCEPT !.pc = "note"]
    <3>1. r \in Post
      BY <2>1 DEF Post
    <3>2. post' = [post EXCEPT ![g] = r] /\ UNCHANGED <<sent, heard, message, told>>
      BY <2>4 DEF Handle
    <3> HIDE DEF r
    <3>3. post' \in [Gateway -> Post]
      BY <3>1, <3>2, PostType
    <3>4. repeated' \subseteq Packet /\ reports' \subseteq Packet
      BY <2>1, <2>4 DEF Handle, Post
    <3>5. QED
      BY <3>2, <3>3, <3>4
  <2>5. CASE Note(g) \/ HandlerFails(g)
    <3> DEFINE r == [post[g] EXCEPT !.pc = "next", !.now = {}]
    <3>1. r \in Post
      BY <2>1 DEF Post
    <3>2. post' = [post EXCEPT ![g] = r] /\ UNCHANGED <<sent, heard, reports, repeated>>
      BY <2>5 DEF Note, HandlerFails
    <3> HIDE DEF r
    <3>3. post' \in [Gateway -> Post]
      BY <3>1, <3>2, PostType
    <3>4. message' \in [Packet -> {"none", "stored", "done"}] /\ told' \subseteq Packet
      BY <2>1, <2>5 DEF Note, HandlerFails, Post
    <3>5. QED
      BY <3>2, <3>3, <3>4
  <2>6. CASE Answered(g) \/ ServerStops(g) \/ Lost(g)
    <3>1. post' = [post EXCEPT ![g] = NoPost] /\ UNCHANGED <<sent, message, reports, repeated, told>>
      BY <2>6 DEF Answered, ServerStops, Lost
    <3>2. post' \in [Gateway -> Post]
      BY <2>1, <3>1, PostType
    <3>3. heard' \in [Gateway -> SUBSET Packet]
      BY <2>1, <2>6 DEF Answered, ServerStops, Lost, Kept
    <3>4. QED
      BY <3>1, <3>2, <3>3
  <2>7. QED
    BY <1>2, <2>2, <2>3, <2>4, <2>5, <2>6 DEF Posts
<1>3. QED
  BY <1>1, <1>2 DEF Inbound

LEMMA LostType ==
  ASSUME lost \in 0..MaxLost, Next
  PROVE  lost' \in 0..MaxLost
<1>1. MaxLost \in Nat
  BY MeshAssumption
<1>2. CASE EventHappens \/ Commit \/ AckHeard \/ HalfMinute \/ TwoHours \/ Send
  BY <1>2 DEF EventHappens, Commit, AckHeard, HalfMinute, TwoHours, Send
<1>3. ASSUME NEW g \in Gateway, Pulls(g) \/ Posts(g) \/ HandlerFails(g) \/ ServerStops(g)
      PROVE  lost' = lost
  <2>1. CASE Pulls(g)
    BY <2>1 DEF Pulls, ReadCursor, FirstRun, ReadRows, ReadLast, Build, MoveCursor, Offer, Broadcast, Ack
  <2>2. CASE Posts(g) \/ HandlerFails(g) \/ ServerStops(g)
    BY <2>2 DEF Posts, HandlerFails, ServerStops, PostHeard, Store, Handle, Note, Answered
  <2>3. QED
    BY <1>3, <2>1, <2>2
<1>4. ASSUME NEW g \in Gateway, Drop(g) \/ Lost(g)
      PROVE  lost < MaxLost /\ lost' = lost + 1
  BY <1>4 DEF Drop, Lost, Loses
<1>5. QED
  BY <1>1, <1>2, <1>3, <1>4 DEF Next

MeshInv == TypeOK /\ RowInv /\ FromInv

LEMMA MeshInvKept ==
  ASSUME MeshInv, [Next]_vars
  PROVE  MeshInv'
<1>1. CASE UNCHANGED vars
  BY <1>1 DEF vars, out, in, MeshInv, TypeOK, RowInv, FromInv
<1>2. CASE Next
  <2>1. scene \in Scenarios /\ lost \in 0..MaxLost /\ OutInv /\ InType
    BY TypeIs DEF MeshInv
  <2>2. lost' \in 0..MaxLost
    BY <1>2, <2>1, LostType
  <2>3. scene' = scene /\ OutInv' /\ InType'
    <3>1. CASE Outbound
      <4>1. UNCHANGED <<scene, in>>
        BY <3>1, OutboundLeavesIn
      <4>2. OutInv'
        BY <2>1, <3>1, OutboundKeepsTypes
      <4>3. InType'
        BY <2>1, <4>1 DEF in, InType
      <4>4. QED
        BY <4>1, <4>2, <4>3
    <3>2. CASE Inbound
      <4>1. UNCHANGED <<scene, out>>
        BY <3>2, InboundLeavesOut
      <4>2. InType'
        BY <2>1, <3>2, InboundKeepsTypes
      <4>3. OutInv'
        BY <2>1, <4>1 DEF out, OutInv, OutType, LogType, RowInv, FromInv
      <4>4. QED
        BY <4>1, <4>2, <4>3
    <3>3. QED
      BY <1>2, <3>1, <3>2, Halves
  <2>4. QED
    BY <2>1, <2>2, <2>3 DEF MeshInv, TypeOK, OutInv, OutType, LogType, InType
<1>3. QED
  BY <1>1, <1>2

LEMMA MeshInvAlways == Spec => []MeshInv
<1>1. Init => MeshInv
  BY TypeStarts DEF MeshInv
<1>2. MeshInv /\ [Next]_vars => MeshInv'
  BY MeshInvKept
<1>3. QED
  BY <1>1, <1>2, PTL DEF Spec

(* Every variable keeps its type, whatever runs; no message is offered more *)
(* often than MaxAttempts.                                                 *)
THEOREM TypeCorrect == Spec => []TypeOK
<1>1. MeshInv => TypeOK
  BY DEF MeshInv
<1>2. QED
  BY <1>1, MeshInvAlways, PTL

----------------------------------------------------------------------------
(* A message that is acknowledged was broadcast.                            *)

AckInv == AiredInv /\ AckedWasAired

LEMMA AckInvStep ==
  ASSUME MeshInv, AckInv, Outbound
  PROVE  AckInv'
<1> USE DEF AckInv
<1>1. outbox \in [Event -> Row] /\ pull \in [Gateway -> Pull]
  BY DEF MeshInv, TypeOK
<1>2. CASE EventHappens \/ Commit
  BY <1>2 DEF EventHappens, Commit, AiredInv, AckedWasAired
<1>3. CASE AckHeard \/ HalfMinute \/ TwoHours
  <2>1. UNCHANGED <<pull, aired>>
    BY <1>3 DEF AckHeard, HalfMinute, TwoHours
  <2>2. AckedWasAired'
    <3>1. CASE AckHeard
      BY <2>1, <3>1 DEF AckHeard, Acked, AckedWasAired
    <3>2. CASE HalfMinute \/ TwoHours
      <4>1. \A e \in Event : outbox'[e].status = outbox[e].status
        BY <1>1, <3>2 DEF HalfMinute, TwoHours, Row
      <4>2. QED
        BY <2>1, <4>1 DEF AckedWasAired
    <3>3. QED
      BY <1>3, <3>1, <3>2
  <2>3. QED
    BY <2>1, <2>2 DEF AiredInv
<1>4. ASSUME NEW g \in Gateway, Pulls(g) \/ Drop(g)
      PROVE  AckInv'
  <2>1. CASE ReadCursor(g) \/ FirstRun(g) \/ ReadRows(g) \/ ReadLast(g) \/ MoveCursor(g) \/ Drop(g)
    <3>1. UNCHANGED <<outbox, aired>>
      BY <2>1 DEF ReadCursor, FirstRun, ReadRows, ReadLast, MoveCursor, Drop
    <3>2. \A h \in Gateway : pull'[h].sent \subseteq pull[h].sent
      <4>1. CASE ReadCursor(g)
        BY <1>1, <4>1 DEF ReadCursor, Pull
      <4>2. CASE FirstRun(g) \/ MoveCursor(g) \/ Drop(g)
        BY <1>1, <4>2 DEF FirstRun, MoveCursor, Drop, NoPull
      <4>3. CASE ReadRows(g)
        BY <1>1, <4>3 DEF ReadRows, Pull
      <4>4. CASE ReadLast(g)
        BY <1>1, <4>4 DEF ReadLast, Pull
      <4>5. QED
        BY <2>1, <4>1, <4>2, <4>3, <4>4
    <3>3. QED
      BY <3>1, <3>2 DEF AiredInv, AckedWasAired
  <2>2. CASE Build(g)
    <3>1. PICK e \in pull[g].rows :
            /\ outbox' = Made(e) \/ UNCHANGED outbox
            /\ pull' = [pull EXCEPT ![g] = [pull[g] EXCEPT !.rows = pull[g].rows \ {e}]]
      BY <2>2 DEF Build
    <3>2. \A f \in Event : outbox'[f].status = "acked" => outbox[f].status = "acked"
      BY <1>1, <3>1 DEF Made, Row
    <3>3. \A h \in Gateway : pull'[h].sent = pull[h].sent
      BY <1>1, <3>1 DEF Pull
    <3>4. aired' = aired
      BY <2>2 DEF Build
    <3>5. QED
      BY <3>2, <3>3, <3>4 DEF AiredInv, AckedWasAired
  <2>3. CASE Offer(g)
    <3> DEFINE rows == [e \in Event |-> Expired(outbox[e])]
    <3>1. PICK s \in Offered(rows) :
            /\ outbox' = [e \in Event |-> IF e \in s THEN Handed(rows[e]) ELSE rows[e]]
            /\ pull' = [pull EXCEPT ![g] = [NoPull EXCEPT !.pc = "send", !.held = s]]
      BY <2>3 DEF Offer
    <3>2. \A e \in Event : rows[e] \in Row /\ (rows[e].status = "acked" => outbox[e].status = "acked")
      BY <1>1, SettledType DEF Expired
    <3> HIDE DEF rows
    <3>3. \A r \in Row : Handed(r).status = "sent"
      BY DEF Handed, Row
    <3>4. \A e \in Event : outbox'[e].status = "acked" => outbox[e].status = "acked"
      BY <3>1, <3>2, <3>3
    <3>5. \A h \in Gateway : pull'[h].sent \subseteq pull[h].sent
      BY <1>1, <3>1 DEF NoPull
    <3>6. aired' = aired
      BY <2>3 DEF Offer
    <3>7. QED
      BY <3>4, <3>5, <3>6 DEF AiredInv, AckedWasAired
  <2>4. CASE Broadcast(g)
    <3>1. PICK e \in pull[g].held, ok \in BOOLEAN :
            /\ pull' = [pull EXCEPT ![g] = [pull[g] EXCEPT !.held = pull[g].held \ {e}, !.sent = Took(g, e, ok)]]
            /\ aired' = IF ok THEN aired \cup {e} ELSE aired
      BY <2>4 DEF Broadcast
    <3>2. Took(g, e, ok) \subseteq aired' /\ aired \subseteq aired'
      BY <3>1 DEF Took, AiredInv
    <3>3. pull[g] \in Pull
      BY <1>1
    <3> DEFINE t == Took(g, e, ok)
               r == [pull[g] EXCEPT !.held = pull[g].held \ {e}, !.sent = t]
    <3>4. r.sent = t
      <4> HIDE DEF t
      <4>1. QED
        BY <3>3 DEF Pull
    <3>5. pull' = [pull EXCEPT ![g] = r]
      BY <3>1
    <3> HIDE DEF r, t
    <3>6. \A h \in Gateway : pull'[h].sent = IF h = g THEN t ELSE pull[h].sent
      BY <1>1, <3>4, <3>5
    <3>7. AiredInv'
      BY <3>2, <3>6 DEF AiredInv, t
    <3>8. outbox' = outbox
      BY <2>4 DEF Broadcast
    <3>9. QED
      BY <3>2, <3>7, <3>8 DEF AckedWasAired
  <2>5. CASE Ack(g)
    <3>1. outbox' = Acked(pull[g].sent) /\ pull' = [pull EXCEPT ![g] = NoPull] /\ aired' = aired
      BY <2>5 DEF Ack
    <3>2. AckedWasAired'
      BY <3>1 DEF Acked, AckedWasAired, AiredInv
    <3>3. AiredInv'
      BY <1>1, <3>1 DEF AiredInv, NoPull
    <3>4. QED
      BY <3>2, <3>3
  <2>6. QED
    BY <1>4, <2>1, <2>2, <2>3, <2>4, <2>5 DEF Pulls
<1>5. QED
  BY <1>2, <1>3, <1>4 DEF Outbound

(* Phones that refuse, answers that are lost and gateways that share a      *)
(* message do not close one that nobody broadcast: /mesh/outbox/ack and K   *)
(* packets acknowledge only what went out.                                  *)
THEOREM AckedWasAiredSafe == Spec => []AckedWasAired
<1>1. Init => AckInv
  BY DEF Init, AckInv, AiredInv, AckedWasAired, NoRow, NoPull
<1>2. MeshInv /\ AckInv /\ [Next]_vars => AckInv'
  <2>1. CASE UNCHANGED vars
    BY <2>1 DEF vars, out, AckInv, AiredInv, AckedWasAired
  <2>2. ASSUME MeshInv, AckInv, Inbound
        PROVE  AckInv'
    BY <2>2, InboundLeavesOut DEF out, AckInv, AiredInv, AckedWasAired
  <2>3. QED
    BY <2>1, <2>2, Halves, AckInvStep
<1>3. AckInv => AckedWasAired
  BY DEF AckInv
<1>4. QED
  BY <1>1, <1>2, <1>3, MeshInvAlways, PTL DEF Spec

----------------------------------------------------------------------------
(* A packet becomes what it describes at most once.                         *)

PostInv == HandledInv /\ OneReport

LEMMA PostInvStep ==
  ASSUME MeshInv, PostInv, Inbound
  PROVE  PostInv'
<1> USE DEF PostInv
<1>1. message \in [Packet -> {"none", "stored", "done"}] /\ post \in [Gateway -> Post] /\ reports \subseteq Packet
  BY DEF MeshInv, TypeOK
<1>2. CASE Send
  BY <1>2 DEF Send, HandledInv, Busy, OneReport
<1>3. ASSUME NEW g \in Gateway, Posts(g) \/ HandlerFails(g) \/ ServerStops(g) \/ Lost(g)
      PROVE  PostInv'
  <2>1. post[g].now \subseteq Packet
    BY <1>1 DEF Post
  <2>2. CASE PostHeard(g) \/ HandlerFails(g) \/ ServerStops(g) \/ Answered(g) \/ Lost(g)
    <3>1. UNCHANGED <<message, reports, repeated>>
      BY <2>2 DEF PostHeard, HandlerFails, ServerStops, Answered, Lost
    <3>2. ~Busy(g)' /\ \A h \in Gateway \ {g} : post'[h] = post[h]
      <4>1. CASE PostHeard(g)
        <5> DEFINE r == [NoPost EXCEPT !.pc = "next", !.batch = heard[g], !.left = heard[g]]
        <5>1. r.pc = "next" /\ post' = [post EXCEPT ![g] = r]
          BY <4>1 DEF PostHeard, NoPost
        <5> HIDE DEF r
        <5>2. QED
          BY <1>1, <5>1 DEF Busy
      <4>2. CASE HandlerFails(g)
        BY <1>1, <4>2 DEF HandlerFails, Busy, Post
      <4>3. CASE ServerStops(g) \/ Answered(g) \/ Lost(g)
        <5>1. post' = [post EXCEPT ![g] = NoPost] /\ NoPost.pc = "idle"
          BY <4>3 DEF Answered, ServerStops, Lost, NoPost
        <5>2. QED
          BY <1>1, <5>1 DEF Busy
      <4>4. QED
        BY <2>2, <4>1, <4>2, <4>3
    <3>3. QED
      BY <3>1, <3>2 DEF HandledInv, Busy, OneReport
  <2>3. CASE Store(g)
    <3>1. UNCHANGED <<reports, repeated>>
      BY <2>3 DEF Store
    <3>2. PICK p \in post[g].left :
            \/ /\ message[p] = "none" /\ message' = [message EXCEPT ![p] = "stored"]
               /\ post' = [post EXCEPT ![g] = [post[g] EXCEPT !.pc = "handle", !.left = post[g].left \ {p}, !.now = {p}]]
            \/ /\ post' = [post EXCEPT ![g] = [post[g] EXCEPT !.left = post[g].left \ {p}]]
               /\ UNCHANGED message
      BY <2>3 DEF Store, Fresh
    <3>3. p \in Packet /\ post[g].pc = "next" /\ post[g] \in Post
      BY <1>1, <2>3 DEF Post, Store
    <3>4. CASE message[p] = "none" /\ message' = [message EXCEPT ![p] = "stored"]
                 /\ post' = [post EXCEPT ![g] = [post[g] EXCEPT !.pc = "handle", !.left = post[g].left \ {p}, !.now = {p}]]
      <4> DEFINE r == [post[g] EXCEPT !.pc = "handle", !.left = post[g].left \ {p}, !.now = {p}]
      <4>1. r.now = {p}
        BY <3>3 DEF Post
      <4>2. post' = [post EXCEPT ![g] = r]
        BY <3>4
      <4> HIDE DEF r
      <4>3. post'[g].now = {p} /\ \A h \in Gateway \ {g} : post'[h] = post[h]
        BY <1>1, <4>1, <4>2
      <4>4. message'[p] # "none" /\ \A q \in Packet : message[q] # "none" => message'[q] # "none"
        BY <1>1, <3>3, <3>4
      <4>5. p \notin reports /\ \A h \in Gateway : Busy(h) => p \notin post[h].now
        BY <3>4 DEF HandledInv
      <4>6. \A h \in Gateway \ {g} : post[h].now \subseteq Packet
        BY <1>1 DEF Post
      <4>7. HandledInv'
        <5>1. \A h \in Gateway : Busy(h)' => \A q \in post'[h].now : message'[q] # "none"
          BY <4>3, <4>4, <4>6 DEF HandledInv, Busy
        <5>2. \A h \in Gateway : post'[h].pc = "handle" => post'[h].now \cap reports' = {}
          BY <3>1, <4>3, <4>5 DEF HandledInv
        <5>3. \A h, i \in Gateway : h # i /\ Busy(h)' /\ Busy(i)' => post'[h].now \cap post'[i].now = {}
          BY <4>3, <4>5 DEF HandledInv, Busy
        <5>4. \A q \in reports' : message'[q] # "none"
          BY <1>1, <3>1, <4>4 DEF HandledInv
        <5>5. QED
          BY <5>1, <5>2, <5>3, <5>4 DEF HandledInv, Busy
      <4>8. QED
        BY <3>1, <4>7 DEF OneReport
    <3>5. CASE post' = [post EXCEPT ![g] = [post[g] EXCEPT !.left = post[g].left \ {p}]] /\ UNCHANGED message
      <4>1. ~Busy(g)' /\ \A h \in Gateway \ {g} : post'[h] = post[h]
        BY <1>1, <3>3, <3>5 DEF Post, Busy
      <4>2. QED
        BY <3>1, <3>5, <4>1 DEF HandledInv, Busy, OneReport
    <3>6. QED
      BY <3>2, <3>4, <3>5
  <2>4. CASE Handle(g)
    <3>1. /\ post[g].pc = "handle" /\ message' = message
          /\ repeated' = repeated \cup (post[g].now \cap reports) /\ reports' = reports \cup post[g].now
      BY <2>4 DEF Handle
    <3>2. post'[g].pc = "note" /\ post'[g].now = post[g].now /\ \A h \in Gateway \ {g} : post'[h] = post[h]
      BY <1>1, <2>4 DEF Handle, Post
    <3>3. Busy(g)
      BY <3>1 DEF Busy
    <3>4. OneReport'
      BY <3>1 DEF HandledInv, OneReport
    <3>5. HandledInv'
      <4>1. \A h \in Gateway : Busy(h)' => Busy(h) /\ post'[h].now = post[h].now
        BY <3>2, <3>3 DEF Busy
      <4>2. \A h \in Gateway : post'[h].pc = "handle" => h # g /\ post[h].pc = "handle" /\ Busy(h)
        BY <3>2 DEF Busy
      <4>3. \A h \in Gateway : post'[h].pc = "handle" => post'[h].now \cap reports' = {}
        BY <3>1, <3>2, <3>3, <4>2 DEF HandledInv
      <4>4. \A q \in reports' : message'[q] # "none"
        BY <3>1, <3>3 DEF HandledInv
      <4>5. \A h \in Gateway : Busy(h)' => \A q \in post'[h].now : message'[q] # "none"
        BY <3>1, <4>1 DEF HandledInv
      <4>6. \A h, i \in Gateway : h # i /\ Busy(h)' /\ Busy(i)' => post'[h].now \cap post'[i].now = {}
        BY <4>1 DEF HandledInv
      <4>7. QED
        BY <4>3, <4>4, <4>5, <4>6 DEF HandledInv, Busy
    <3>6. QED
      BY <3>4, <3>5
  <2>5. CASE Note(g)
    <3>1. UNCHANGED <<reports, repeated>> /\ \A q \in Packet : message[q] # "none" => message'[q] # "none"
      BY <1>1, <2>5 DEF Note
    <3>2. ~Busy(g)' /\ \A h \in Gateway \ {g} : post'[h] = post[h]
      BY <1>1, <2>5 DEF Note, Busy, Post
    <3>3. \A h \in Gateway : post[h].now \subseteq Packet
      BY <1>1 DEF Post
    <3>4. QED
      BY <1>1, <3>1, <3>2, <3>3 DEF HandledInv, Busy, OneReport
  <2>6. QED
    BY <1>3, <2>2, <2>3, <2>4, <2>5 DEF Posts
<1>4. QED
  BY <1>2, <1>3 DEF Inbound

(* "Stored once however many gateways relay it": a packet becomes what it   *)
(* describes at most once, whoever posts it at the same moment or again.    *)
THEOREM OneReportSafe == Spec => []OneReport
<1>1. Init => PostInv
  BY DEF Init, PostInv, HandledInv, OneReport, Busy, NoPost
<1>2. MeshInv /\ PostInv /\ [Next]_vars => PostInv'
  <2>1. CASE UNCHANGED vars
    BY <2>1 DEF vars, in, PostInv, HandledInv, Busy, OneReport
  <2>2. ASSUME MeshInv, PostInv, Outbound
        PROVE  PostInv'
    BY <2>2, OutboundLeavesIn DEF in, PostInv, HandledInv, Busy, OneReport
  <2>3. QED
    BY <2>1, <2>2, Halves, PostInvStep
<1>3. PostInv => OneReport
  BY DEF PostInv
<1>4. QED
  BY <1>1, <1>2, <1>3, MeshInvAlways, PTL DEF Spec

----------------------------------------------------------------------------
(* The cursor skips nothing.                                                *)

(* What a sync read as its batch reaches up to the end it read.             *)
LEMMA RowsReachLast ==
  ASSUME LogType, NEW from \in 0..MaxEvents, NEW e \in News, from < e, e <= Last(from)
  PROVE  e \in Rows(from)
<1> DEFINE C == {c \in Committed : c > from}
           N == {c \in News : c > from}
           l == Last(from)
<1>1. l \in FirstOf(C, Batch)
  BY LastIs, LogFacts DEF Event
<1>2. IsFiniteSet({f \in C : f < l})
  <2>1. IsFiniteSet(1..MaxEvents)
    BY LogFacts, FS_Interval
  <2>2. {f \in C : f < l} \subseteq 1..MaxEvents
    BY LogFacts DEF Event
  <2>3. QED
    BY <2>1, <2>2, FS_Subset
<1>3. {f \in N : f < e} \subseteq {f \in C : f < l}
  <2>1. Last(from) \in 0..MaxEvents
    BY LastIs
  <2>2. News \subseteq Event /\ News \subseteq Committed /\ MaxEvents \in Nat
    BY LogFacts
  <2>3. \A f \in News : f < e => f < Last(from)
    BY <2>1, <2>2 DEF Event
  <2>4. QED
    BY <2>2, <2>3
<1>4. /\ IsFiniteSet({f \in N : f < e})
      /\ Cardinality({f \in N : f < e}) <= Cardinality({f \in C : f < l})
  BY <1>2, <1>3, FS_Subset
<1>5. Cardinality({f \in C : f < l}) \in Nat /\ Cardinality({f \in N : f < e}) \in Nat
  BY <1>2, <1>4, FS_CardinalityType
<1>6. Cardinality({f \in C : f < l}) < Batch
  BY <1>1 DEF FirstOf
<1>7. Cardinality({f \in N : f < e}) < Batch
  <2>1. Batch \in Nat
    BY MeshAssumption
  <2> HIDE DEF N, C, l
  <2>2. QED
    BY <2>1, <1>4, <1>5, <1>6
<1>8. e \in N
  OBVIOUS
<1>9. QED
  BY <1>7, <1>8 DEF Rows, FirstOf

(* What is covered stays covered while the log grows at its end and no      *)
(* message goes.                                                           *)
CoversThen(n, rows) ==
  n <= Len(log') /\ \A e \in News' : start' < e /\ e <= n => outbox'[e].status # "none" \/ e \in rows
Grows == Len(log) <= Len(log') /\ Len(log') \in Nat /\ News' \subseteq Nat /\ \A e \in News' : e <= Len(log) => e \in News
NoneGoes == \A e \in Event : outbox[e].status # "none" => outbox'[e].status # "none"

LEMMA StillCovers ==
  ASSUME LogType, NEW n \in Int, NEW rows, Covers(n, rows), Grows, NoneGoes, start' = start
  PROVE  CoversThen(n, rows)
<1>1. Len(log) \in Nat /\ News \subseteq Event
  BY LogFacts
<1>2. n <= Len(log) /\ n <= Len(log')
  BY <1>1 DEF Covers, Grows
<1>3. ASSUME NEW e \in News', start' < e, e <= n
      PROVE  outbox'[e].status # "none" \/ e \in rows
  <2>1. e \in News
    BY <1>1, <1>2, <1>3 DEF Grows
  <2>2. outbox[e].status # "none" \/ e \in rows
    BY <1>3, <2>1 DEF Covers
  <2>3. QED
    BY <1>1, <2>1, <2>2 DEF NoneGoes
<1>4. QED
  BY <1>2, <1>3 DEF CoversThen

LEMMA SameLogGrows ==
  ASSUME LogType, UNCHANGED log
  PROVE  Grows
<1>1. Len(log) \in Nat /\ News \subseteq Event
  BY LogFacts
<1>2. News' = News
  BY DEF News
<1>3. QED
  BY <1>1, <1>2 DEF Grows, Event

(* Unskipped after a step, in parts.                                        *)
RowsThen(from) == FirstOf({e \in News' : e > from}, Batch)
PullThen(q) ==
  /\ q.pc \in {"rows", "last"} => CoversThen(q.from, {})
  /\ q.pc = "last" => q.rows = RowsThen(q.from)
  /\ q.pc = "build" => CoversThen(q.last, q.rows)

LEMMA UnskippedFromParts ==
  ASSUME \A e \in DOMAIN log' : log'[e] # "open",
         cursor' = Unset => \A g \in Gateway : pull'[g].pc \notin {"rows", "last", "build"},
         cursor' # Unset => CoversThen(cursor', {}),
         \A g \in Gateway : PullThen(pull'[g])
  PROVE  Unskipped'
<1>1. \A g \in Gateway : PullCovers(pull[g])'
  BY DEF PullThen, PullCovers, CoversThen, Covers, RowsThen, Rows
<1>2. cursor' # Unset => Covers(cursor, {})'
  BY DEF CoversThen, Covers
<1>3. QED
  BY <1>1, <1>2 DEF Unskipped

LEMMA PullStill ==
  ASSUME LogType, UNCHANGED <<log, start>>, NoneGoes, NEW q \in Pull, PullCovers(q)
  PROVE  PullThen(q)
<1>1. Grows
  BY SameLogGrows
<1>2. q.from \in Int /\ q.last \in Int
  BY MeshAssumption DEF Pull, Unset
<1>3. RowsThen(q.from) = Rows(q.from)
  BY DEF RowsThen, Rows, News
<1>4. q.pc \in {"rows", "last"} => CoversThen(q.from, {})
  BY <1>1, <1>2, StillCovers DEF PullCovers
<1>5. q.pc = "build" => CoversThen(q.last, q.rows)
  BY <1>1, <1>2, StillCovers DEF PullCovers
<1>6. QED
  BY <1>3, <1>4, <1>5 DEF PullThen, PullCovers

(* A step that leaves log, start and cursor alone and loses no message.     *)
LEMMA PullMoves ==
  ASSUME LogType, cursor \in Unset..MaxEvents, pull \in [Gateway -> Pull], Unskipped,
         UNCHANGED <<log, start, cursor>>, NoneGoes,
         \A h \in Gateway : \/ pull'[h] = pull[h]
                            \/ /\ PullThen(pull'[h])
                               /\ cursor = Unset => pull'[h].pc \notin {"rows", "last", "build"}
  PROVE  Unskipped'
<1>1. \A e \in DOMAIN log' : log'[e] # "open"
  BY DEF Unskipped
<1>2. cursor' = Unset => \A h \in Gateway : pull'[h].pc \notin {"rows", "last", "build"}
  BY DEF Unskipped
<1>3. cursor' # Unset => CoversThen(cursor', {})
  <2>1. cursor \in Int
    BY MeshAssumption DEF Unset
  <2>2. Grows
    BY SameLogGrows
  <2>3. cursor # Unset => CoversThen(cursor, {})
    BY <2>1, <2>2, StillCovers DEF Unskipped
  <2>4. QED
    BY <2>3
<1>4. \A h \in Gateway : PullThen(pull'[h])
  <2>1. \A h \in Gateway : PullThen(pull[h])
    BY PullStill DEF Unskipped
  <2>2. QED
    BY <2>1
<1>5. QED
  BY <1>1, <1>2, <1>3, <1>4, UnskippedFromParts

LEMMA SkipInvStep ==
  ASSUME MeshInv, Calm, Unskipped, Outbound
  PROVE  Unskipped'
<1>1. /\ LogType /\ cursor \in Unset..MaxEvents /\ start \in 0..MaxEvents
      /\ outbox \in [Event -> Row] /\ pull \in [Gateway -> Pull] /\ FromInv
  BY DEF MeshInv, TypeOK, LogType
<1>2. CASE EventHappens
  <2>1. PICK kind \in {"alert", "job", "other"} : log' = Append(log, kind)
    BY <1>2 DEF EventHappens, Calm
  <2>2. ~Syncing /\ UNCHANGED <<cursor, start, outbox, pull>>
    BY <1>2 DEF EventHappens, Calm
  <2>3. /\ Len(log') = Len(log) + 1 /\ DOMAIN log' = 1..Len(log')
        /\ \A e \in 1..Len(log) : log'[e] = log[e]
        /\ log'[Len(log) + 1] = kind
    <3>1. log \in Seq({"open", "alert", "job", "other", "gone"}) /\ kind \in {"open", "alert", "job", "other", "gone"}
      BY <1>1 DEF LogType
    <3>2. QED
      BY <2>1, <3>1, AppendProperties, LenProperties
  <2>4. Len(log) \in Nat /\ DOMAIN log = 1..Len(log)
    BY <1>1, LogFacts
  <2>5. Grows
    BY <2>3, <2>4 DEF Grows, News
  <2>6. NoneGoes
    BY <2>2 DEF NoneGoes
  <2>7. \A e \in DOMAIN log' : log'[e] # "open"
    BY <2>1, <2>3, <2>4 DEF Unskipped
  <2>8. cursor' # Unset => CoversThen(cursor', {})
    <3>1. cursor \in Int
      BY <1>1, MeshAssumption DEF Unset
    <3>2. cursor # Unset => CoversThen(cursor, {})
      BY <1>1, <2>2, <2>5, <2>6, <3>1, StillCovers DEF Unskipped
    <3>3. QED
      BY <2>2, <3>2
  <2>9. \A g \in Gateway : PullThen(pull'[g])
    <3>1. SUFFICES ASSUME NEW g \in Gateway
                   PROVE  PullThen(pull[g])
      BY <2>2
    <3>2. pull[g].pc \notin {"rows", "last"}
      BY <2>2 DEF Syncing
    <3>3. pull[g].last \in Int
      BY <1>1, MeshAssumption DEF Pull
    <3>4. pull[g].pc = "build" => CoversThen(pull[g].last, pull[g].rows)
      BY <1>1, <2>2, <2>5, <2>6, <3>3, StillCovers DEF Unskipped, PullCovers
    <3>5. QED
      BY <3>2, <3>4 DEF PullThen
  <2>10. cursor' = Unset => \A g \in Gateway : pull'[g].pc \notin {"rows", "last", "build"}
    BY <2>2 DEF Unskipped
  <2>11. QED
    BY <2>7, <2>8, <2>9, <2>10, UnskippedFromParts
<1>3. CASE Commit
  BY <1>3 DEF Commit, Unskipped
<1>4. CASE AckHeard \/ HalfMinute \/ TwoHours
  <2>1. UNCHANGED <<log, start, cursor, pull>>
    BY <1>4 DEF AckHeard, HalfMinute, TwoHours
  <2>2. NoneGoes
    <3>1. CASE AckHeard
      BY <1>1, <3>1, SettledType DEF AckHeard, Acked, NoneGoes
    <3>2. CASE HalfMinute \/ TwoHours
      BY <1>1, <3>2 DEF HalfMinute, TwoHours, Row, NoneGoes
    <3>3. QED
      BY <1>4, <3>1, <3>2
  <2>3. QED
    BY <1>1, <2>1, <2>2, PullMoves
<1>5. ASSUME NEW g \in Gateway, Pulls(g) \/ Drop(g)
      PROVE  Unskipped'
  <2>1. pull[g] \in Pull /\ PullCovers(pull[g])
    BY <1>1 DEF Unskipped
  <2>2. CASE ReadCursor(g)
    <3>1. UNCHANGED <<log, start, cursor, outbox>>
      BY <2>2 DEF ReadCursor
    <3>2. pull'[g].pc = (IF cursor = Unset THEN "first" ELSE "rows") /\ pull'[g].from = cursor
      BY <1>1, <2>2 DEF ReadCursor, Pull
    <3>3. \A h \in Gateway \ {g} : pull'[h] = pull[h]
      BY <2>2 DEF ReadCursor
    <3>4. NoneGoes
      BY <3>1 DEF NoneGoes
    <3>5. cursor # Unset => CoversThen(cursor, {})
      <4>1. cursor \in Int /\ Grows
        BY <1>1, <3>1, SameLogGrows, MeshAssumption DEF Unset
      <4>2. QED
        BY <1>1, <3>1, <3>4, <4>1, StillCovers DEF Unskipped
    <3>6. PullThen(pull'[g])
      BY <3>2, <3>5 DEF PullThen
    <3>7. cursor = Unset => pull'[g].pc \notin {"rows", "last", "build"}
      BY <3>2
    <3>8. QED
      BY <1>1, <3>1, <3>3, <3>4, <3>6, <3>7, PullMoves
  <2>3. CASE FirstRun(g)
    <3>1. UNCHANGED <<log, outbox>> /\ pull[g].pc = "first"
      BY <2>3 DEF FirstRun
    <3>2. pull'[g].pc = "offer" /\ \A h \in Gateway \ {g} : pull'[h] = pull[h]
      BY <1>1, <2>3 DEF FirstRun, NoPull
    <3>3. PullThen(pull'[g]) /\ NoneGoes
      BY <3>1, <3>2 DEF PullThen, NoneGoes
    <3>4. CASE cursor # Unset
      <4>1. UNCHANGED <<cursor, start>>
        BY <2>3, <3>4 DEF FirstRun
      <4>2. QED
        BY <1>1, <3>1, <3>2, <3>3, <3>4, <4>1, PullMoves
    <3>5. CASE cursor = Unset
      <4>1. cursor' = Largest(Committed, 0) /\ start' = cursor'
        BY <2>3, <3>5 DEF FirstRun
      <4>2. Len(log) \in Nat /\ Committed \subseteq 0..Len(log) /\ 0 \in 0..Len(log)
        BY <1>1, LogFacts
      <4>3. cursor' \in 0..Len(log)
        <5> HIDE DEF Committed
        <5>1. QED
          BY <4>1, <4>2, LargestIs
      <4>4. CoversThen(cursor', {})
        <5>1. News' \subseteq Nat
          BY <1>1, <3>1, SameLogGrows DEF Grows
        <5>2. QED
          BY <3>1, <4>1, <4>2, <4>3, <5>1 DEF CoversThen
      <4>5. cursor' # Unset
        BY <4>2, <4>3 DEF Unset
      <4>6. \A h \in Gateway : PullThen(pull'[h])
        <5>1. \A h \in Gateway : pull'[h].pc \notin {"rows", "last", "build"}
          BY <3>2, <3>5 DEF Unskipped
        <5>2. QED
          BY <5>1 DEF PullThen
      <4>7. \A e \in DOMAIN log' : log'[e] # "open"
        BY <3>1 DEF Unskipped
      <4>8. QED
        BY <4>4, <4>5, <4>6, <4>7, UnskippedFromParts
    <3>6. QED
      BY <3>4, <3>5
  <2>4. CASE ReadRows(g)
    <3>1. UNCHANGED <<log, start, cursor, outbox>> /\ pull[g].pc = "rows"
      BY <2>4 DEF ReadRows
    <3>2. pull'[g].pc = "last" /\ pull'[g].from = pull[g].from /\ pull'[g].rows = Rows(pull[g].from)
      BY <1>1, <2>4 DEF ReadRows, Pull
    <3>3. \A h \in Gateway \ {g} : pull'[h] = pull[h]
      BY <2>4 DEF ReadRows
    <3>4. NoneGoes
      BY <3>1 DEF NoneGoes
    <3>5. PullThen(pull[g])
      BY <1>1, <2>1, <3>1, <3>4, PullStill
    <3>6. Rows(pull[g].from) = RowsThen(pull[g].from)
      BY <3>1 DEF RowsThen, Rows, News
    <3>7. PullThen(pull'[g])
      BY <3>1, <3>2, <3>5, <3>6 DEF PullThen
    <3>8. cursor # Unset
      BY <3>1 DEF Unskipped
    <3>9. QED
      BY <1>1, <3>1, <3>3, <3>4, <3>7, <3>8, PullMoves
  <2>5. CASE ReadLast(g)
    <3>1. UNCHANGED <<log, start, cursor, outbox>> /\ pull[g].pc = "last"
      BY <2>5 DEF ReadLast
    <3>2. pull'[g].pc = "build" /\ pull'[g].last = Last(pull[g].from) /\ pull'[g].rows = pull[g].rows
      BY <1>1, <2>5 DEF ReadLast, Pull
    <3>3. \A h \in Gateway \ {g} : pull'[h] = pull[h]
      BY <2>5 DEF ReadLast
    <3>4. NoneGoes
      BY <3>1 DEF NoneGoes
    <3>5. cursor # Unset
      BY <3>1 DEF Unskipped
    <3> DEFINE from == pull[g].from
               last == Last(from)
    <3>6. from \in 0..MaxEvents
      BY <1>1, <2>1, <3>1, MeshAssumption DEF Pull, FromInv, Unset
    <3>7. Covers(from, {}) /\ pull[g].rows = Rows(from)
      BY <2>1, <3>1 DEF PullCovers
    <3>8. last \in 0..MaxEvents /\ last <= Len(log)
      <4>1. last \in 0..MaxEvents /\ (last = from \/ last \in Committed)
        BY <1>1, <3>6, LastIs DEF FirstOf
      <4>2. DOMAIN log = 1..Len(log) /\ Len(log) \in Nat /\ Committed \subseteq DOMAIN log
        BY <1>1, LogFacts
      <4> HIDE DEF last
      <4>3. QED
        BY <3>7, <4>1, <4>2 DEF Covers
    <3>9. Covers(last, pull[g].rows)
      <4>1. SUFFICES ASSUME NEW e \in News, start < e, e <= last
                     PROVE  outbox[e].status # "none" \/ e \in pull[g].rows
        BY <3>8 DEF Covers
      <4>2. CASE e <= from
        BY <3>7, <4>1, <4>2 DEF Covers
      <4>3. CASE from < e
        <5>1. e \in Rows(from)
          BY <1>1, <3>6, <4>1, <4>3, RowsReachLast
        <5>2. QED
          BY <3>7, <5>1
      <4>4. e \in Int
        BY <1>1, LogFacts DEF Event
      <4>5. QED
        BY <3>6, <4>2, <4>3, <4>4
    <3>10. CoversThen(last, pull[g].rows)
      <4>1. last \in Int /\ Grows
        BY <1>1, <3>1, <3>8, SameLogGrows
      <4> HIDE DEF last
      <4>2. QED
        BY <1>1, <3>1, <3>4, <3>9, <4>1, StillCovers
    <3>11. PullThen(pull'[g])
      BY <3>2, <3>10 DEF PullThen
    <3>12. QED
      BY <1>1, <3>1, <3>3, <3>4, <3>5, <3>11, PullMoves
  <2>6. CASE Build(g)
    <3>1. PICK e \in pull[g].rows :
            /\ outbox' = Made(e)
            /\ pull' = [pull EXCEPT ![g] = [pull[g] EXCEPT !.rows = pull[g].rows \ {e}]]
      BY <2>6 DEF Build, Calm, Unbuilt
    <3>2. UNCHANGED <<log, start, cursor>> /\ pull[g].pc = "build"
      BY <2>6 DEF Build
    <3>3. e \in Event
      BY <2>1 DEF Pull
    <3>4. NoneGoes /\ outbox'[e].status # "none"
      BY <1>1, <3>1, <3>3 DEF Made, NoneGoes, Row
    <3>5. /\ pull'[g].pc = "build" /\ pull'[g].last = pull[g].last
          /\ pull'[g].rows = pull[g].rows \ {e} /\ \A h \in Gateway \ {g} : pull'[h] = pull[h]
      BY <1>1, <2>1, <3>1, <3>2 DEF Pull
    <3>6. cursor # Unset
      BY <3>2 DEF Unskipped
    <3>7. PullThen(pull[g])
      BY <1>1, <2>1, <3>2, <3>4, PullStill
    <3>8. PullThen(pull'[g])
      BY <3>2, <3>4, <3>5, <3>7 DEF PullThen, CoversThen
    <3>9. QED
      BY <1>1, <3>2, <3>4, <3>5, <3>6, <3>8, PullMoves
  <2>7. CASE MoveCursor(g)
    <3>1. /\ pull[g].pc = "build" /\ pull[g].rows = {} /\ cursor' = pull[g].last
          /\ UNCHANGED <<log, start, outbox>>
      BY <2>7 DEF MoveCursor
    <3>2. pull'[g].pc = "offer" /\ \A h \in Gateway \ {g} : pull'[h] = pull[h]
      BY <1>1, <2>7 DEF MoveCursor, NoPull
    <3>3. NoneGoes
      BY <3>1 DEF NoneGoes
    <3>4. \A h \in Gateway : PullThen(pull[h])
      BY <1>1, <3>1, <3>3, PullStill DEF Unskipped
    <3>5. CoversThen(cursor', {})
      BY <3>1, <3>4 DEF PullThen
    <3>6. cursor' # Unset
      BY <2>1, <3>1, MeshAssumption DEF Pull, Unset
    <3>7. \A h \in Gateway : PullThen(pull'[h])
      BY <3>2, <3>4 DEF PullThen
    <3>8. \A e \in DOMAIN log' : log'[e] # "open"
      BY <3>1 DEF Unskipped
    <3>9. QED
      BY <3>5, <3>6, <3>7, <3>8, UnskippedFromParts
  <2>8. CASE Offer(g)
    <3> DEFINE rows == [e \in Event |-> Expired(outbox[e])]
    <3>1. PICK s \in Offered(rows) :
            /\ outbox' = [e \in Event |-> IF e \in s THEN Handed(rows[e]) ELSE rows[e]]
            /\ pull' = [pull EXCEPT ![g] = [NoPull EXCEPT !.pc = "send", !.held = s]]
      BY <2>8 DEF Offer
    <3>2. \A e \in Event : rows[e] \in Row /\ (outbox[e].status # "none" => rows[e].status # "none")
      BY <1>1, SettledType DEF Expired
    <3> HIDE DEF rows
    <3>3. \A r \in Row : Handed(r).status = "sent"
      BY DEF Handed, Row
    <3>4. NoneGoes
      BY <3>1, <3>2, <3>3 DEF NoneGoes
    <3>5. pull'[g].pc = "send" /\ \A h \in Gateway \ {g} : pull'[h] = pull[h]
      BY <1>1, <3>1 DEF NoPull
    <3>6. PullThen(pull'[g]) /\ UNCHANGED <<log, start, cursor>>
      BY <2>8, <3>5 DEF PullThen, Offer
    <3>7. QED
      BY <1>1, <3>4, <3>5, <3>6, PullMoves
  <2>9. CASE Broadcast(g) \/ Ack(g) \/ Drop(g)
    <3>1. UNCHANGED <<log, start, cursor>>
      BY <2>9 DEF Broadcast, Ack, Drop
    <3>2. NoneGoes
      BY <2>9, SettledType DEF Broadcast, Ack, Drop, Acked, NoneGoes
    <3>3. pull'[g].pc \in {"send", "idle"} /\ \A h \in Gateway \ {g} : pull'[h] = pull[h]
      <4>1. CASE Broadcast(g)
        BY <1>1, <4>1 DEF Broadcast, Pull
      <4>2. CASE Ack(g) \/ Drop(g)
        BY <1>1, <4>2 DEF Ack, Drop, NoPull
      <4>3. QED
        BY <2>9, <4>1, <4>2
    <3>4. PullThen(pull'[g])
      BY <3>3 DEF PullThen
    <3>5. QED
      BY <1>1, <3>1, <3>2, <3>3, <3>4, PullMoves
  <2>10. QED
    BY <1>5, <2>2, <2>3, <2>4, <2>5, <2>6, <2>7, <2>8, <2>9 DEF Pulls
<1>6. QED
  BY <1>2, <1>3, <1>4, <1>5 DEF Outbound

(* Whichever pulls overlap and move the cursor forth and back, it never     *)
(* stands past an event that has no message, where events do not appear     *)
(* between the reads of a sync and messages can be built.                   *)
THEOREM NothingSkippedSafe == Spec => []NothingSkipped
<1>1. Init => SkipInv
  <2>1. ASSUME Init
        PROVE  Unskipped
    <3>1. log = <<>> /\ cursor = Unset /\ \A g \in Gateway : pull[g].pc = "idle"
      BY <2>1 DEF Init, NoPull
    <3>2. QED
      BY <3>1 DEF Unskipped, PullCovers
  <2>2. QED
    BY <2>1 DEF SkipInv
<1>2. MeshInv /\ SkipInv /\ [Next]_vars => SkipInv'
  <2>1. CASE UNCHANGED vars
    BY <2>1 DEF vars, out, SkipInv, Calm, Unskipped, PullCovers, Covers, Rows, News
  <2>2. ASSUME MeshInv, SkipInv, Inbound
        PROVE  SkipInv'
    <3>1. UNCHANGED <<scene, out>>
      BY <2>2, InboundLeavesOut
    <3>2. QED
      BY <2>2, <3>1 DEF out, SkipInv, Calm, Unskipped, PullCovers, Covers, Rows, News
  <2>3. ASSUME MeshInv, SkipInv, Outbound
        PROVE  SkipInv'
    <3>1. scene' = scene
      BY <2>3, OutboundLeavesIn
    <3>2. QED
      BY <2>3, <3>1, SkipInvStep DEF SkipInv, Calm
  <2>4. QED
    BY <2>1, <2>2, <2>3, Halves
<1>3. MeshInv /\ SkipInv => NothingSkipped
  <2>1. ASSUME MeshInv, SkipInv, Calm, NEW e \in News, start < e, e <= cursor
        PROVE  outbox[e].status # "none"
    <3>1. LogType /\ start \in 0..MaxEvents /\ cursor \in Unset..MaxEvents
      BY <2>1 DEF MeshInv, TypeOK, LogType
    <3>2. e \in 1..MaxEvents
      BY <3>1, LogFacts DEF Event
    <3>3. cursor # Unset
      BY <2>1, <3>2 DEF Unset
    <3>4. QED
      BY <2>1, <3>3 DEF SkipInv, Unskipped, Covers
  <2>2. QED
    BY <2>1 DEF NothingSkipped, Calm
<1>4. QED
  BY <1>1, <1>2, <1>3, MeshInvAlways, PTL DEF Spec

----------------------------------------------------------------------------
(* The link to the drone swarm: SwarmLink, for any incidents, units and     *)
(* bounds.  Its variables and constants are declared here under the names   *)
(* it gives them, but for the scene, a name of MeshGateway's.               *)
CONSTANTS Incident, Unit, Want, MaxPlans, MaxReports, MaxTasks, LinkScenarios
VARIABLES situation, lazy, link, order, at, eyes, sortie, resolved, view,
          plans, expect, exclude, claimed, work, hand, left
Link == INSTANCE SwarmLink WITH scene <- situation, Scenarios <- LinkScenarios

(* The types.  A task that records or applies has a plan that is in use,    *)
(* what it has still to send are actions of that plan, and a tick that is   *)
(* not idle has a list.                                                     *)
Place == Incident \cup {Link!None}
Item == [inc : Incident, exp : Link!Expectation]
Task == [pc : {"idle", "record", "apply", "next", "ask", "drop"}, plan : 0..MaxPlans,
         todo : SUBSET (Unit \cup {"eyes"}), got : SUBSET (Unit \cup {"eyes"}), list : Seq(Item)]
View == [at : [Unit -> Place], eyes : SUBSET Incident, resolved : SUBSET Incident]

PlansOK(pl) ==
  /\ pl \in [1..MaxPlans -> Link!Plan]
  /\ \A p \in 1..MaxPlans : pl[p].status # "forgotten" => pl[p].inc \in Incident
TaskOK(x, pl) ==
  /\ x \in Task
  /\ x.pc \in {"record", "apply"} => x.plan \in 1..MaxPlans /\ pl[x.plan].status # "forgotten"
  /\ x.pc = "apply" => x.todo \subseteq Link!Actions(pl[x.plan])
  /\ x.pc \in {"next", "ask", "drop"} => x.list # <<>>
SwarmOK ==
  /\ order \in [Unit -> Place] /\ at \in [Unit -> Place]
  /\ eyes \subseteq Incident /\ sortie \subseteq Incident /\ resolved \subseteq Incident
DeskOK ==
  /\ expect \in [Incident -> Link!Expectation] /\ exclude \in [Incident -> SUBSET Unit]
  /\ claimed \in [Unit -> Place] /\ PlansOK(plans)
HandsOK == hand \in [Link!Hand -> Task] /\ \A h \in Link!Hand : TaskOK(hand[h], plans)
LinkAssumes == IsFiniteSet(Incident) /\ Link!None \notin Incident /\ MaxPlans \in Nat
LinkTypes ==
  /\ LinkAssumes
  /\ SwarmOK /\ view \in View /\ link \in {"up", "dead", "down"}
  /\ work \in Seq({"reason", "alert"} \X Incident)
  /\ DeskOK /\ HandsOK

(* Why units are not poached.  What a task has still to send is claimed for *)
(* its plan's incident and under no order elsewhere (Owned).  A unit under  *)
(* orders is claimed for the incident it was sent to, or it is there and    *)
(* seen there (Placed): make_plan, that takes units it sees nowhere and that  *)
(* nobody else claims, takes none under orders elsewhere.                   *)
Sends(x, pl) == IF x.pc = "record" THEN pl[x.plan].units
                ELSE IF x.pc = "apply" THEN x.todo \cap pl[x.plan].units ELSE {}
Owned(x, pl, cl, or) == \A u \in Sends(x, pl) :
  /\ cl[u] = pl[x.plan].inc
  /\ u \notin lazy => or[u] \in {Link!None, pl[x.plan].inc}
Placed(or, where, seen, cl) == \A u \in Unit \ lazy :
  or[u] = Link!None \/ cl[u] = or[u] \/ (where[u] = or[u] /\ seen[u] = or[u])
UnitsKept ==
  /\ \A h \in Link!Hand : Owned(hand[h], plans, claimed, order)
  /\ Placed(order, at, view.at, claimed)
Alone == {"officer", "approvals"} \cap situation = {}

(* What UnitsNotPoached says of a step.                                     *)
NotMoved == \A u \in Unit \ lazy : order[u] = Link!None \/ order'[u] \in {Link!None, order[u]}

----------------------------------------------------------------------------
(* A task takes a step, and the others stay where they are.                 *)
LEMMA RestOK ==
  ASSUME MaxPlans \in Nat, NEW l \in Seq(Item), NEW x,
         x = [Link!Idle EXCEPT !.pc = IF l = <<>> THEN "idle" ELSE "next", !.list = l]
  PROVE  /\ x \in Task /\ x.pc \in {"idle", "next"} /\ x.list = l
         /\ \A pl : TaskOK(x, pl) /\ Sends(x, pl) = {}
<1>1. /\ x.pc = (IF l = <<>> THEN "idle" ELSE "next") /\ x.list = l
  BY DEF Link!Idle
<1>2. x.pc \in {"idle", "next"} /\ (x.pc = "next" => x.list # <<>>)
  BY <1>1
<1>3. x \in Task
  <2> DEFINE c == IF l = <<>> THEN "idle" ELSE "next"
  <2>1. c \in {"idle", "next"} /\ 0 \in 0..MaxPlans
    OBVIOUS
  <2> HIDE DEF c
  <2>2. [Link!Idle EXCEPT !.pc = c, !.list = l] \in Task
    BY <2>1 DEF Link!Idle, Task
  <2>3. QED
    BY <2>2, Zenon DEF c
<1>4. \A pl : TaskOK(x, pl) /\ Sends(x, pl) = {}
  BY <1>2, <1>3 DEF TaskOK, Sends
<1>5. QED
  BY <1>1, <1>2, <1>3, <1>4, Zenon

LEMMA IdleOK ==
  ASSUME MaxPlans \in Nat
  PROVE  /\ Link!Idle \in Task /\ Link!Idle.pc = "idle" /\ Link!Idle.list = <<>>
         /\ \A pl : TaskOK(Link!Idle, pl) /\ Sends(Link!Idle, pl) = {}
<1>1. Link!Idle.pc = "idle" /\ Link!Idle.list = <<>>
  BY DEF Link!Idle
<1>2. Link!Idle \in Task
  BY DEF Link!Idle, Task
<1>3. \A pl : TaskOK(Link!Idle, pl) /\ Sends(Link!Idle, pl) = {}
  BY <1>1, <1>2 DEF TaskOK, Sends
<1>4. QED
  BY <1>1, <1>2, <1>3, Zenon

(* Plans whose incident and actions are what they were.                     *)
SamePlans(pl, pl2) == \A p \in 1..MaxPlans :
  /\ pl2[p].inc = pl[p].inc /\ pl2[p].units = pl[p].units /\ pl2[p].eyes = pl[p].eyes
  /\ pl[p].status # "forgotten" => pl2[p].status # "forgotten"

LEMMA TaskStays ==
  ASSUME NEW x, NEW pl, TaskOK(x, pl), NEW pl2,
         x.plan \in 1..MaxPlans =>
           /\ pl2[x.plan].inc = pl[x.plan].inc /\ pl2[x.plan].units = pl[x.plan].units
           /\ pl2[x.plan].eyes = pl[x.plan].eyes
           /\ pl[x.plan].status # "forgotten" => pl2[x.plan].status # "forgotten"
  PROVE  /\ TaskOK(x, pl2) /\ Sends(x, pl2) = Sends(x, pl)
         /\ Sends(x, pl) # {} => pl2[x.plan].inc = pl[x.plan].inc
<1>1. x.pc \in {"record", "apply"} =>
        /\ x.plan \in 1..MaxPlans /\ pl[x.plan].status # "forgotten" /\ pl2[x.plan].status # "forgotten"
        /\ pl2[x.plan].inc = pl[x.plan].inc /\ pl2[x.plan].units = pl[x.plan].units
        /\ Link!Actions(pl2[x.plan]) = Link!Actions(pl[x.plan])
  BY Zenon DEF TaskOK, Link!Actions
<1>2. x.pc = "record" => x.pc \in {"record", "apply"}
  OBVIOUS
<1>3. x.pc = "apply" => x.pc \in {"record", "apply"}
  OBVIOUS
<1>4. QED
  BY <1>1, <1>2, <1>3, Zenon DEF TaskOK, Sends

LEMMA HandsSame ==
  ASSUME HandsOK, hand' = hand, plans' = plans
  PROVE  HandsOK'
  BY Zenon DEF HandsOK

LEMMA HandsMove ==
  ASSUME HandsOK, NEW h \in Link!Hand, NEW x, TaskOK(x, plans'), hand' = [hand EXCEPT ![h] = x],
         SamePlans(plans, plans')
  PROVE  /\ HandsOK' /\ hand'[h] = x /\ \A b \in Link!Hand : b # h => hand'[b] = hand[b]
<1>1. x \in Task /\ hand \in [Link!Hand -> Task]
  BY Zenon DEF TaskOK, HandsOK
<1>2. hand' \in [Link!Hand -> Task] /\ hand'[h] = x /\ \A b \in Link!Hand : b # h => hand'[b] = hand[b]
  BY <1>1, Zenon
<1>3. ASSUME NEW b \in Link!Hand
      PROVE  TaskOK(hand[b], plans')
  <2>1. TaskOK(hand[b], plans)
    BY Zenon DEF HandsOK
  <2>2. hand[b].plan \in 1..MaxPlans =>
          /\ plans'[hand[b].plan].inc = plans[hand[b].plan].inc
          /\ plans'[hand[b].plan].units = plans[hand[b].plan].units
          /\ plans'[hand[b].plan].eyes = plans[hand[b].plan].eyes
          /\ plans[hand[b].plan].status # "forgotten" => plans'[hand[b].plan].status # "forgotten"
    BY Zenon DEF SamePlans
  <2>3. QED
    BY <2>1, <2>2, TaskStays, Zenon
<1>4. \A b \in Link!Hand : TaskOK(hand'[b], plans')
  BY <1>2, <1>3, Zenon
<1>5. QED
  BY <1>2, <1>4, Zenon DEF HandsOK

LEMMA SpareIs ==
  ASSUME LinkTypes, Link!Spare # {}
  PROVE  /\ Link!Min(Link!Spare) \in 1..MaxPlans
         /\ \A h \in Link!Hand : hand[h].plan # Link!Min(Link!Spare)
<1> DEFINE S == Link!Spare
<1>1. S \subseteq 1..MaxPlans /\ \A p \in S, h \in Link!Hand : hand[h].plan # p
  BY Zenon DEF Link!Spare
<1>2. MaxPlans \in Nat /\ S \subseteq Nat
  BY <1>1 DEF LinkTypes, LinkAssumes
<1>3. PICK t \in S : \A u \in S : ~(<<u, t>> \in OpToRel(<, Nat))
  <2> HIDE DEF S
  <2>1. S # {}
    BY DEF S
  <2>2. QED
    BY <1>2, <2>1, NatLessThanWellFounded, WFMin
<1>4. \A u \in S : ~(u < t)
  BY <1>2, <1>3, Zenon DEF OpToRel
<1> HIDE DEF S
<1>5. \A u \in S : t <= u
  BY <1>2, <1>4
<1>6. Link!Min(S) \in S
  BY <1>3, <1>5, Zenon DEF Link!Min
<1>7. QED
  BY <1>1, <1>6, Zenon DEF S

(* make_plan: a number nobody uses, units that are free.                    *)
LEMMA PlanIsMade ==
  ASSUME LinkTypes, NEW h \in Link!Hand, NEW i \in Incident, NEW rest, \A pl : TaskOK(rest, pl),
         Link!MakePlan(h, i, rest)
  PROVE  \E S \in SUBSET Unit :
           /\ S \subseteq Link!Free(i)
           /\ claimed' = [u \in Unit |-> IF u \in S THEN i ELSE claimed[u]]
           /\ PlansOK(plans') /\ HandsOK'
           /\ Sends(hand'[h], plans') = S /\ plans'[hand'[h].plan].inc = i
           /\ \A b \in Link!Hand : b # h =>
                /\ hand'[b] = hand[b] /\ Sends(hand[b], plans') = Sends(hand[b], plans)
                /\ Sends(hand[b], plans) # {} => plans'[hand[b].plan].inc = plans[hand[b].plan].inc
<1> DEFINE p == Link!Min(Link!Spare)
<1>1. p \in 1..MaxPlans /\ \A b \in Link!Hand : hand[b].plan # p
  BY SpareIs DEF Link!MakePlan
<1>2. PICK S \in Link!Picks(i), auto \in BOOLEAN :
        /\ plans' = [plans EXCEPT ![p] =
             [inc |-> i, units |-> S, eyes |-> Link!Eyes(i), auto |-> auto, status |-> "proposed"]]
        /\ claimed' = [u \in Unit |-> IF u \in S THEN i ELSE claimed[u]]
        /\ hand' = [hand EXCEPT ![h] = [rest EXCEPT !.pc = "record", !.plan = p]]
  <2>1. (IF "approvals" \in situation THEN BOOLEAN ELSE {TRUE}) \subseteq BOOLEAN
    OBVIOUS
  <2>2. QED
    BY <2>1, Zenon DEF Link!MakePlan
<1>3. S \subseteq Link!Free(i) /\ S \subseteq Unit
  BY DEF Link!Picks, Link!kSubset, Link!Free
<1> DEFINE y == [inc |-> i, units |-> S, eyes |-> Link!Eyes(i), auto |-> auto, status |-> "proposed"]
           x == [rest EXCEPT !.pc = "record", !.plan = p]
<1>4. y \in Link!Plan
  <2>1. Link!Eyes(i) \in BOOLEAN
    BY DEF Link!Eyes
  <2> HIDE DEF p
  <2>2. QED
    BY <1>3, <2>1 DEF Link!Plan
<1>5. y.inc = i /\ y.units = S /\ y.status = "proposed"
  OBVIOUS
<1>6. rest \in Task
  BY Zenon DEF TaskOK
<1>7. x \in Task
  <2>1. p \in 0..MaxPlans
    BY <1>1 DEF LinkTypes, LinkAssumes
  <2> HIDE DEF p
  <2>2. QED
    BY <1>6, <2>1 DEF Task
<1>8. x.pc = "record" /\ x.plan = p
  BY <1>6 DEF Task
<1> HIDE DEF p, x, y
<1>9. PlansOK(plans) /\ hand \in [Link!Hand -> Task] /\ \A b \in Link!Hand : TaskOK(hand[b], plans)
  BY Zenon DEF LinkTypes, DeskOK, HandsOK
<1>10. /\ plans' = [plans EXCEPT ![p] = y] /\ hand' = [hand EXCEPT ![h] = x]
  BY <1>2, Zenon DEF x, y
<1>11. /\ plans' \in [1..MaxPlans -> Link!Plan] /\ plans'[p] = y
       /\ \A q \in 1..MaxPlans : q # p => plans'[q] = plans[q]
  BY <1>1, <1>4, <1>9, <1>10, Zenon DEF PlansOK
<1>12. PlansOK(plans')
  BY <1>5, <1>9, <1>11, Zenon DEF PlansOK
<1>13. /\ hand' \in [Link!Hand -> Task] /\ hand'[h] = x
       /\ \A b \in Link!Hand : b # h => hand'[b] = hand[b]
  BY <1>7, <1>9, <1>10, Zenon
<1>14. TaskOK(x, plans') /\ Sends(x, plans') = S /\ plans'[x.plan].inc = i
  BY <1>1, <1>5, <1>7, <1>8, <1>11 DEF TaskOK, Sends
<1>15. \A b \in Link!Hand :
         /\ TaskOK(hand[b], plans') /\ Sends(hand[b], plans') = Sends(hand[b], plans)
         /\ Sends(hand[b], plans) # {} => plans'[hand[b].plan].inc = plans[hand[b].plan].inc
  <2> TAKE b \in Link!Hand
  <2>1. hand[b].plan \in 1..MaxPlans => plans'[hand[b].plan] = plans[hand[b].plan]
    BY <1>1, <1>11, Zenon
  <2>2. TaskOK(hand[b], plans)
    BY <1>9, Zenon
  <2>3. QED
    BY <2>1, <2>2, TaskStays, Zenon
<1>16. HandsOK'
  <2>1. \A b \in Link!Hand : TaskOK(hand'[b], plans')
    BY <1>13, <1>14, <1>15, Zenon
  <2>2. QED
    BY <1>13, <2>1, Zenon DEF HandsOK
<1>17. QED
  BY <1>2, <1>3, <1>12, <1>13, <1>14, <1>15, <1>16, Zenon

----------------------------------------------------------------------------
(* The types.                                                               *)
LEMMA NothingOK ==
  ASSUME MaxPlans \in Nat
  PROVE  Link!Nothing \in Link!Expectation
  BY DEF Link!Nothing, Link!Expectation

LEMMA NowOK == SwarmOK => Link!Now \in View
  BY DEF SwarmOK, Link!Now, View

LEMMA CheckedOK ==
  ASSUME LinkTypes, NEW i \in Incident, NEW v
  PROVE  Link!Checked(i, v) \in [Incident -> Link!Expectation]
<1>1. expect \in [Incident -> Link!Expectation] /\ Link!Nothing \in Link!Expectation
  BY NothingOK DEF LinkTypes, DeskOK, LinkAssumes
<1>2. QED
  BY <1>1, Zenon DEF Link!Checked

LEMMA AssignedOK ==
  ASSUME SwarmOK, NEW i \in Incident, NEW a \in Unit \cup {"eyes"}, Link!Assigned(i, a)
  PROVE  SwarmOK'
<1>1. CASE UNCHANGED Link!swarm
  BY <1>1, Zenon DEF SwarmOK, Link!swarm
<1>2. CASE sortie' = sortie \cup {i} /\ UNCHANGED <<order, at, eyes, resolved>>
  BY <1>2 DEF SwarmOK
<1>3. CASE a # "eyes" /\ order' = [order EXCEPT ![a] = i] /\ UNCHANGED <<at, eyes, sortie, resolved>>
  <2>1. a \in Unit /\ i \in Place
    BY <1>3 DEF Place
  <2>2. QED
    BY <1>3, <2>1 DEF SwarmOK
<1>4. QED
  BY <1>1, <1>2, <1>3, Zenon DEF Link!Assigned

LEMMA InitLinkTypes == LinkAssumes /\ Link!Init => LinkTypes
<1> SUFFICES ASSUME LinkAssumes, Link!Init PROVE LinkTypes
  OBVIOUS
<1>1. MaxPlans \in Nat /\ Link!None \in Place /\ resolved \subseteq Incident
  BY DEF LinkAssumes, Place, Link!Init
<1>2. SwarmOK
  BY <1>1 DEF SwarmOK, Link!Init
<1>3. view \in View
  BY <1>1, <1>2 DEF View, SwarmOK, Link!Init
<1>4. PlansOK(plans)
  <2>1. Link!Forgotten \in Link!Plan
    BY DEF Link!Forgotten, Link!Plan
  <2>2. Link!Forgotten.status = "forgotten"
    BY DEF Link!Forgotten
  <2>3. plans = [p \in 1..MaxPlans |-> Link!Forgotten]
    BY DEF Link!Init
  <2>4. QED
    BY <2>1, <2>2, <2>3, Zenon DEF PlansOK
<1>5. DeskOK
  <2>1. expect \in [Incident -> Link!Expectation]
    BY <1>1, NothingOK, Zenon DEF Link!Init
  <2>2. exclude \in [Incident -> SUBSET Unit] /\ claimed \in [Unit -> Place]
    BY <1>1 DEF Link!Init
  <2>3. QED
    BY <1>4, <2>1, <2>2, Zenon DEF DeskOK
<1>6. HandsOK
  <2>1. hand = [h \in Link!Hand |-> Link!Idle]
    BY DEF Link!Init
  <2>2. QED
    BY <1>1, <2>1, IdleOK, Zenon DEF HandsOK
<1>7. link \in {"up", "dead", "down"} /\ work \in Seq({"reason", "alert"} \X Incident)
  BY EmptySeq DEF Link!Init
<1>8. QED
  BY <1>2, <1>3, <1>5, <1>6, <1>7 DEF LinkTypes

(* What the swarm does, and what is seen of it.                             *)
LEMMA SwarmTypes ==
  ASSUME LinkTypes, Link!Swarm \/ Link!Reads \/ Link!Drops \/ Link!Noticed \/ Link!Reconnects
  PROVE  LinkTypes'
<1>1. /\ SwarmOK /\ view \in View /\ DeskOK /\ HandsOK /\ LinkAssumes
      /\ link \in {"up", "dead", "down"} /\ work \in Seq({"reason", "alert"} \X Incident)
  BY Zenon DEF LinkTypes
<1>2. ASSUME UNCHANGED <<plans, exclude, claimed, hand>>, expect' \in [Incident -> Link!Expectation],
             SwarmOK', view' \in View, link' \in {"up", "dead", "down"},
             work' \in Seq({"reason", "alert"} \X Incident)
      PROVE  LinkTypes'
  <2>1. DeskOK' /\ HandsOK'
    BY <1>1, <1>2, HandsSame, Zenon DEF DeskOK
  <2>2. QED
    BY <1>1, <1>2, <2>1, Zenon DEF LinkTypes, LinkAssumes
<1>3. expect \in [Incident -> Link!Expectation] /\ Link!None \in Place
  BY <1>1 DEF DeskOK, Place
<1>4. ASSUME NEW u \in Unit, Link!Comes(u) PROVE LinkTypes'
  <2>1. at' = [at EXCEPT ![u] = order[u]] /\ UNCHANGED <<order, eyes, sortie, resolved>>
        /\ UNCHANGED <<link, view, work, plans, expect, exclude, claimed, hand>>
    BY <1>4 DEF Link!Comes, Link!desk
  <2>2. SwarmOK'
    BY <1>1, <2>1 DEF SwarmOK
  <2>3. QED
    BY <1>1, <1>2, <1>3, <2>1, <2>2, Zenon
<1>5. ASSUME NEW i \in Incident, Link!DroneComes(i) PROVE LinkTypes'
  <2>1. eyes' = eyes \cup {i} /\ UNCHANGED <<order, at, sortie, resolved>>
        /\ UNCHANGED <<link, view, work, plans, expect, exclude, claimed, hand>>
    BY <1>5 DEF Link!DroneComes, Link!desk
  <2>2. SwarmOK'
    BY <1>1, <2>1 DEF SwarmOK
  <2>3. QED
    BY <1>1, <1>2, <1>3, <2>1, <2>2, Zenon
<1>6. ASSUME NEW i \in Incident, Link!Resolved(i) PROVE LinkTypes'
  <2>1. /\ resolved' = resolved \cup {i} /\ eyes' = eyes \ {i} /\ sortie' = sortie \ {i}
        /\ order' = [u \in Unit |-> IF order[u] = i THEN Link!None ELSE order[u]]
        /\ at' = [u \in Unit |-> IF at[u] = i THEN Link!None ELSE at[u]]
        /\ UNCHANGED <<link, view, work, plans, expect, exclude, claimed, hand>>
    BY <1>6 DEF Link!Resolved, Link!desk
  <2>2. SwarmOK'
    BY <1>1, <1>3, <2>1 DEF SwarmOK
  <2>3. QED
    BY <1>1, <1>2, <1>3, <2>1, <2>2, Zenon
<1>7. CASE Link!Snapshot
  <2>1. view' = Link!Now /\ UNCHANGED <<order, at, eyes, sortie, resolved>>
        /\ UNCHANGED <<link, work, plans, expect, exclude, claimed, hand>>
    BY <1>7 DEF Link!Snapshot, Link!desk, Link!swarm
  <2>2. SwarmOK' /\ view' \in View
    BY <1>1, <2>1, NowOK, Zenon DEF SwarmOK
  <2>3. QED
    BY <1>1, <1>2, <1>3, <2>1, <2>2, Zenon
<1>8. ASSUME NEW i \in Incident, NEW kind \in {"same", "reason", "alert"}, Link!Report(i, kind)
      PROVE  LinkTypes'
  <2>1. /\ view' = Link!Now /\ UNCHANGED <<order, at, eyes, sortie, resolved>>
        /\ expect' = (IF kind = "alert" THEN expect ELSE Link!Checked(i, Link!Now))
        /\ UNCHANGED <<link, plans, exclude, claimed, hand>>
        /\ \/ work' = work
           \/ kind \in {"reason", "alert"} /\ work' = Append(work, <<kind, i>>)
    BY <1>8 DEF Link!Report, Link!swarm
  <2>2. SwarmOK' /\ view' \in View
    BY <1>1, <2>1, NowOK, Zenon DEF SwarmOK
  <2>3. expect' \in [Incident -> Link!Expectation]
    BY <1>3, <2>1, CheckedOK, Zenon
  <2>4. work' \in Seq({"reason", "alert"} \X Incident)
    <3>1. CASE work' = work
      BY <1>1, <3>1, Zenon
    <3>2. CASE kind \in {"reason", "alert"} /\ work' = Append(work, <<kind, i>>)
      <4>1. <<kind, i>> \in {"reason", "alert"} \X Incident
        BY <3>2
      <4>2. QED
        BY <1>1, <3>2, <4>1, AppendProperties, Zenon
    <3>3. QED
      BY <2>1, <3>1, <3>2, Zenon
  <2>5. QED
    BY <1>1, <1>2, <2>1, <2>2, <2>3, <2>4, Zenon
<1>9. CASE Link!Drops \/ Link!Noticed
  <2>1. /\ UNCHANGED <<order, at, eyes, sortie, resolved, view, work, plans, expect, exclude, claimed, hand>>
        /\ link' \in {"up", "dead", "down"}
    BY <1>9 DEF Link!Drops, Link!Noticed, Link!swarm, Link!desk
  <2>2. SwarmOK'
    BY <1>1, <2>1, Zenon DEF SwarmOK
  <2>3. QED
    BY <1>1, <1>2, <1>3, <2>1, <2>2, Zenon
<1>10. CASE Link!Reconnects
  <2> DEFINE S == Incident \ resolved  B == {"reason", "alert"} \X Incident
  <2>1. /\ UNCHANGED <<order, at, eyes, sortie, resolved, plans, expect, exclude, claimed, hand>>
        /\ link' = "up" /\ view' = Link!Now
    BY <1>10 DEF Link!Reconnects, Link!swarm, Link!desk
  <2>2. PICK s \in Link!SetToSeqs(S) : work' = work \o [n \in DOMAIN s |-> <<"reason", s[n]>>]
    BY <1>10, Zenon DEF Link!Reconnects
  <2>3. PICK k \in Nat : s \in [1..k -> S]
    <3>1. IsFiniteSet(S)
      BY <1>1, FS_Subset DEF LinkAssumes
    <3>2. Link!Cardinality(S) = Cardinality(S)
      BY Zenon DEF Link!Cardinality, Cardinality
    <3>3. Link!Cardinality(S) \in Nat
      BY <3>1, <3>2, FS_CardinalityType
    <3>4. QED
      BY <3>3, Zenon DEF Link!SetToSeqs
  <2>4. [n \in DOMAIN s |-> <<"reason", s[n]>>] \in [1..k -> B]
    BY <2>3
  <2>5. [n \in DOMAIN s |-> <<"reason", s[n]>>] \in Seq(B)
    <3> DEFINE news == [n \in DOMAIN s |-> <<"reason", s[n]>>]
    <3> HIDE DEF B, news
    <3>1. k \in Nat /\ news \in [1..k -> B]
      BY <2>3, <2>4 DEF news
    <3>2. news \in Seq(B)
      BY <3>1, SeqDef, Zenon
    <3>3. QED
      BY <3>2 DEF news
  <2>6. work' \in Seq(B)
    BY <1>1, <2>2, <2>5, ConcatProperties
  <2>7. SwarmOK' /\ view' \in View
    BY <1>1, <2>1, NowOK, Zenon DEF SwarmOK
  <2>8. link' \in {"up", "dead", "down"}
    BY <2>1
  <2>9. QED
    BY <1>1, <1>2, <1>3, <2>1, <2>6, <2>7, <2>8, Zenon
<1>11. QED
  BY <1>4, <1>5, <1>6, <1>7, <1>8, <1>9, <1>10, Zenon DEF Link!Swarm, Link!Reads

(* What a step of a task may leave to be sent: no more than before.         *)
LessSent == \A b \in Link!Hand :
  /\ Sends(hand'[b], plans') \subseteq Sends(hand[b], plans)
  /\ Sends(hand'[b], plans') # {} => plans'[hand'[b].plan].inc = plans[hand[b].plan].inc

LEMMA TypesAre ==
  ASSUME LinkTypes
  PROVE  /\ SwarmOK /\ PlansOK(plans) /\ HandsOK /\ MaxPlans \in Nat /\ Link!Nothing \in Link!Expectation
         /\ expect \in [Incident -> Link!Expectation] /\ exclude \in [Incident -> SUBSET Unit]
         /\ claimed \in [Unit -> Place] /\ work \in Seq({"reason", "alert"} \X Incident)
         /\ \A h \in Link!Hand : hand[h] \in Task /\ TaskOK(hand[h], plans)
<1>1. MaxPlans \in Nat /\ HandsOK
  BY Zenon DEF LinkTypes, LinkAssumes
<1>2. Link!Nothing \in Link!Expectation
  BY <1>1, NothingOK
<1>3. \A h \in Link!Hand : hand[h] \in Task /\ TaskOK(hand[h], plans)
  BY <1>1, Zenon DEF HandsOK, TaskOK
<1>4. QED
  BY <1>1, <1>2, <1>3, Zenon DEF LinkTypes, DeskOK

LEMMA TypesFrom ==
  ASSUME LinkTypes, HandsOK', PlansOK(plans'), claimed' \in [Unit -> Place],
         expect' \in [Incident -> Link!Expectation], exclude' \in [Incident -> SUBSET Unit],
         SwarmOK', work' \in Seq({"reason", "alert"} \X Incident), UNCHANGED <<link, view>>
  PROVE  LinkTypes'
<1>1. DeskOK' /\ view' \in View /\ link' \in {"up", "dead", "down"} /\ LinkAssumes'
  BY Zenon DEF DeskOK, LinkTypes, LinkAssumes
<1>2. QED
  BY <1>1, Zenon DEF LinkTypes

LEMMA SwarmSame ==
  ASSUME SwarmOK, UNCHANGED Link!swarm
  PROVE  SwarmOK'
  BY Zenon DEF SwarmOK, Link!swarm

LEMMA HandsLess ==
  ASSUME HandsOK, NEW h \in Link!Hand, NEW x, TaskOK(x, plans'), hand' = [hand EXCEPT ![h] = x],
         SamePlans(plans, plans'),
         Sends(x, plans') \subseteq Sends(hand[h], plans),
         Sends(x, plans') # {} => plans'[x.plan].inc = plans[hand[h].plan].inc
  PROVE  HandsOK' /\ LessSent
<1>1. HandsOK' /\ hand'[h] = x /\ \A b \in Link!Hand : b # h => hand'[b] = hand[b]
  BY HandsMove, Zenon
<1>2. ASSUME NEW b \in Link!Hand, b # h
      PROVE  /\ Sends(hand'[b], plans') \subseteq Sends(hand[b], plans)
             /\ Sends(hand'[b], plans') # {} => plans'[hand'[b].plan].inc = plans[hand[b].plan].inc
  <2>1. TaskOK(hand[b], plans) /\ hand'[b] = hand[b]
    BY <1>1, <1>2, Zenon DEF HandsOK
  <2>2. Sends(hand[b], plans') = Sends(hand[b], plans) /\
        (Sends(hand[b], plans) # {} => plans'[hand[b].plan].inc = plans[hand[b].plan].inc)
    <3>1. hand[b].plan \in 1..MaxPlans =>
            /\ plans'[hand[b].plan].inc = plans[hand[b].plan].inc
            /\ plans'[hand[b].plan].units = plans[hand[b].plan].units
            /\ plans'[hand[b].plan].eyes = plans[hand[b].plan].eyes
            /\ plans[hand[b].plan].status # "forgotten" => plans'[hand[b].plan].status # "forgotten"
      BY Zenon DEF SamePlans
    <3>2. QED
      BY <2>1, <3>1, TaskStays, Zenon
  <2>3. QED
    BY <2>1, <2>2, Zenon
<1>3. QED
  BY <1>1, <1>2, Zenon DEF LessSent

LEMMA SameSame == plans' = plans => SamePlans(plans, plans')
  BY Zenon DEF SamePlans

(* A task has planned: it is to send units that were free, and claimed them.*)
Planned == \E h \in Link!Hand, i \in Incident, S \in SUBSET Unit :
  /\ S \subseteq Link!Free(i)
  /\ claimed' = [u \in Unit |-> IF u \in S THEN i ELSE claimed[u]]
  /\ Sends(hand'[h], plans') = S
  /\ S # {} => plans'[hand'[h].plan].inc = i
  /\ \A b \in Link!Hand : b # h =>
       /\ hand'[b] = hand[b] /\ Sends(hand[b], plans') = Sends(hand[b], plans)
       /\ Sends(hand[b], plans) # {} => plans'[hand[b].plan].inc = plans[hand[b].plan].inc

(* make_plan, or none.                                                      *)
LEMMA PlannedOrNot ==
  ASSUME LinkTypes, NEW h \in Link!Hand, NEW i \in Incident, NEW rest, NEW force,
         \A pl : TaskOK(rest, pl) /\ Sends(rest, pl) = {},
         Link!MakePlan(h, i, rest) \/ Link!NoPlan(h, i, force, rest)
  PROVE  PlansOK(plans') /\ HandsOK' /\ claimed' \in [Unit -> Place] /\ Planned
<1>1. PlansOK(plans) /\ HandsOK /\ claimed \in [Unit -> Place]
  BY TypesAre, Zenon
<1>2. CASE Link!MakePlan(h, i, rest)
  <2>1. \A pl : TaskOK(rest, pl)
    OBVIOUS
  <2>2. PICK S \in SUBSET Unit :
           /\ S \subseteq Link!Free(i)
           /\ claimed' = [u \in Unit |-> IF u \in S THEN i ELSE claimed[u]]
           /\ PlansOK(plans') /\ HandsOK'
           /\ Sends(hand'[h], plans') = S /\ plans'[hand'[h].plan].inc = i
           /\ \A b \in Link!Hand : b # h =>
                /\ hand'[b] = hand[b] /\ Sends(hand[b], plans') = Sends(hand[b], plans)
                /\ Sends(hand[b], plans) # {} => plans'[hand[b].plan].inc = plans[hand[b].plan].inc
    BY <1>2, <2>1, PlanIsMade, Zenon
  <2>3. claimed' \in [Unit -> Place]
    BY <1>1, <2>2 DEF Place
  <2>4. Planned
    BY <2>2, Zenon DEF Planned
  <2>5. QED
    BY <2>2, <2>3, <2>4, Zenon
<1>3. CASE Link!NoPlan(h, i, force, rest)
  <2>1. hand' = [hand EXCEPT ![h] = rest] /\ plans' = plans /\ claimed' = claimed
    BY <1>3, Zenon DEF Link!NoPlan
  <2>2. HandsOK' /\ hand'[h] = rest /\ \A b \in Link!Hand : b # h => hand'[b] = hand[b]
    BY <1>1, <2>1, SameSame, HandsMove, Zenon
  <2>3. claimed' = [u \in Unit |-> IF u \in {} THEN i ELSE claimed[u]]
    BY <1>1, <2>1
  <2>4. Sends(hand'[h], plans') = {}
    BY <2>2, Zenon
  <2>5. {} \in SUBSET Unit /\ {} \subseteq Link!Free(i)
    OBVIOUS
  <2>6. \A b \in Link!Hand : b # h =>
          /\ hand'[b] = hand[b] /\ Sends(hand[b], plans') = Sends(hand[b], plans)
          /\ Sends(hand[b], plans) # {} => plans'[hand[b].plan].inc = plans[hand[b].plan].inc
    BY <2>1, <2>2, Zenon
  <2>7. Planned
    BY <2>3, <2>4, <2>5, <2>6, Zenon DEF Planned
  <2>8. QED
    BY <1>1, <2>1, <2>2, <2>7, Zenon
<1>4. QED
  BY <1>2, <1>3, Zenon

LEMMA RecordedTypes ==
  ASSUME LinkTypes, NEW h \in Link!Hand, Link!Recorded(h)
  PROVE  LinkTypes' /\ LessSent
<1> DEFINE t == hand[h]
<1>1. /\ SwarmOK /\ PlansOK(plans) /\ HandsOK /\ MaxPlans \in Nat /\ t \in Task /\ TaskOK(t, plans)
      /\ expect \in [Incident -> Link!Expectation] /\ exclude \in [Incident -> SUBSET Unit]
      /\ claimed \in [Unit -> Place] /\ work \in Seq({"reason", "alert"} \X Incident)
  BY TypesAre, Zenon
<1>2. /\ t.pc = "record" /\ UNCHANGED <<link, view, work, plans, expect, exclude, claimed>> /\ UNCHANGED Link!swarm
      /\ \/ hand' = [hand EXCEPT ![h] = Link!Rest(t)]
         \/ hand' = [hand EXCEPT ![h] = [t EXCEPT !.pc = "apply", !.todo = Link!Actions(plans[t.plan]), !.got = {}]]
  BY <1>1 DEF Link!Recorded, Link!desk, HandsOK
<1>3. t.plan \in 1..MaxPlans /\ plans[t.plan].status # "forgotten" /\ plans[t.plan] \in Link!Plan
  BY <1>1, <1>2, Zenon DEF TaskOK, PlansOK
<1>4. Link!Rest(t) = [Link!Idle EXCEPT !.pc = IF t.list = <<>> THEN "idle" ELSE "next", !.list = t.list]
  BY DEF Link!Rest
<1>5. t.list \in Seq(Item)
  BY <1>1 DEF Task
<1> DEFINE x == [t EXCEPT !.pc = "apply", !.todo = Link!Actions(plans[t.plan]), !.got = {}]
<1>6. x \in Task /\ x.pc = "apply" /\ x.plan = t.plan /\ x.todo = Link!Actions(plans[t.plan])
  <2>1. Link!Actions(plans[t.plan]) \in SUBSET (Unit \cup {"eyes"})
    BY <1>3 DEF Link!Actions, Link!Plan
  <2> HIDE DEF t
  <2>2. QED
    BY <1>1, <2>1 DEF Task
<1> HIDE DEF t, x
<1>7. TaskOK(x, plans) /\ Sends(x, plans) = plans[t.plan].units /\ Sends(t, plans) = plans[t.plan].units
  <2>1. TaskOK(x, plans)
    BY <1>3, <1>6 DEF TaskOK
  <2>2. Link!Actions(plans[t.plan]) \cap plans[t.plan].units = plans[t.plan].units
    BY DEF Link!Actions
  <2>3. QED
    BY <1>2, <1>6, <2>1, <2>2 DEF Sends
<1>8. HandsOK' /\ LessSent
  <2>1. SamePlans(plans, plans')
    BY <1>2, SameSame
  <2>2. CASE hand' = [hand EXCEPT ![h] = Link!Rest(t)]
    <3>1. TaskOK(Link!Rest(t), plans') /\ Sends(Link!Rest(t), plans') = {}
      BY <1>1, <1>4, <1>5, RestOK, Zenon
    <3>2. QED
      BY <1>1, <2>1, <2>2, <3>1, HandsLess, Zenon DEF t
  <2>3. CASE hand' = [hand EXCEPT ![h] = x]
    <3>1. TaskOK(x, plans') /\ Sends(x, plans') = Sends(t, plans) /\ plans'[x.plan].inc = plans[t.plan].inc
      BY <1>2, <1>6, <1>7, Zenon
    <3>2. QED
      BY <1>1, <2>1, <2>3, <3>1, HandsLess, Zenon DEF t
  <2>4. QED
    BY <1>2, <2>2, <2>3, Zenon DEF x
<1>9. SwarmOK'
  BY <1>1, <1>2, SwarmSame
<1>10. QED
  BY <1>1, <1>2, <1>8, <1>9, TypesFrom, Zenon

LEMMA SendTypes ==
  ASSUME LinkTypes, NEW h \in Link!Hand, Link!Send(h)
  PROVE  /\ LinkTypes' /\ LessSent
         /\ \/ UNCHANGED Link!swarm
            \/ \E a \in hand[h].todo :
                 /\ plans[hand[h].plan].inc \in Incident
                 /\ Link!Assigned(plans[hand[h].plan].inc, a)
                 /\ a # "eyes" => a \in Sends(hand[h], plans)
<1> DEFINE t == hand[h]
<1>1. /\ SwarmOK /\ PlansOK(plans) /\ HandsOK /\ MaxPlans \in Nat /\ t \in Task /\ TaskOK(t, plans)
      /\ expect \in [Incident -> Link!Expectation] /\ exclude \in [Incident -> SUBSET Unit]
      /\ claimed \in [Unit -> Place] /\ work \in Seq({"reason", "alert"} \X Incident)
  BY TypesAre, Zenon
<1>2. /\ t.pc = "apply" /\ UNCHANGED <<link, view, work, plans, expect, exclude, claimed>>
      /\ \E a \in t.todo, got \in SUBSET t.todo :
           /\ \/ Link!Assigned(plans[t.plan].inc, a)
              \/ UNCHANGED Link!swarm
           /\ \/ hand' = [hand EXCEPT ![h].todo = @ \ {a}, ![h].got = @ \cup got]
              \/ hand' = [hand EXCEPT ![h].todo = @ \ {a}]
              \/ hand' = [hand EXCEPT ![h] = Link!Idle]
  <2>1. t.pc = "apply" /\ UNCHANGED <<link, view, work, plans, expect, exclude, claimed>>
    BY DEF Link!Send, Link!desk
  <2>2. PICK a \in t.todo :
       \/ /\ Link!Assigned(plans[t.plan].inc, a)
          /\ \E got \in {{a}} \cup (IF "lost" \in situation THEN {{}} ELSE {}) :
               hand' = [hand EXCEPT ![h].todo = @ \ {a}, ![h].got = @ \cup got]
       \/ /\ hand' = [hand EXCEPT ![h].todo = @ \ {a}]
          /\ UNCHANGED Link!swarm
       \/ /\ hand' = [hand EXCEPT ![h] = Link!Idle]
          /\ UNCHANGED Link!swarm
    BY Zenon DEF Link!Send
  <2>3. {{a}} \cup (IF "lost" \in situation THEN {{}} ELSE {}) \subseteq SUBSET t.todo
    OBVIOUS
  <2>4. {} \in SUBSET t.todo
    OBVIOUS
  <2>5. QED
    BY <2>1, <2>2, <2>3, <2>4, Zenon
<1>3. PICK a \in t.todo, got \in SUBSET t.todo :
           /\ \/ Link!Assigned(plans[t.plan].inc, a)
              \/ UNCHANGED Link!swarm
           /\ \/ hand' = [hand EXCEPT ![h].todo = @ \ {a}, ![h].got = @ \cup got]
              \/ hand' = [hand EXCEPT ![h].todo = @ \ {a}]
              \/ hand' = [hand EXCEPT ![h] = Link!Idle]
  BY <1>2, Zenon
<1>4. /\ t.plan \in 1..MaxPlans /\ plans[t.plan].status # "forgotten" /\ plans[t.plan] \in Link!Plan
      /\ plans[t.plan].inc \in Incident /\ t.todo \subseteq Link!Actions(plans[t.plan])
  BY <1>1, <1>2, Zenon DEF TaskOK, PlansOK
<1>5. Link!Actions(plans[t.plan]) \subseteq plans[t.plan].units \cup {"eyes"}
  BY DEF Link!Actions
<1>6. a \in Unit \cup {"eyes"} /\ (a \in t.todo \cap plans[t.plan].units \/ a = "eyes")
  BY <1>1, <1>3, <1>4, <1>5 DEF Task
<1> DEFINE x == [t EXCEPT !.todo = @ \ {a}, !.got = @ \cup got]  y == [t EXCEPT !.todo = @ \ {a}]
<1>7. /\ x \in Task /\ x.pc = "apply" /\ x.plan = t.plan /\ x.todo = t.todo \ {a}
      /\ y \in Task /\ y.pc = "apply" /\ y.plan = t.plan /\ y.todo = t.todo \ {a}
  <2>1. got \subseteq Unit \cup {"eyes"}
    BY <1>1 DEF Task
  <2> HIDE DEF t
  <2>2. QED
    BY <1>1, <1>2, <2>1 DEF Task
<1>8. /\ hand' = [hand EXCEPT ![h].todo = @ \ {a}, ![h].got = @ \cup got] => hand' = [hand EXCEPT ![h] = x]
      /\ hand' = [hand EXCEPT ![h].todo = @ \ {a}] => hand' = [hand EXCEPT ![h] = y]
  BY <1>1 DEF HandsOK, Task
<1> HIDE DEF t, x, y
<1>9. SamePlans(plans, plans')
  BY <1>2, SameSame
<1>10. ASSUME NEW z, z \in Task /\ z.pc = "apply" /\ z.plan = t.plan /\ z.todo = t.todo \ {a},
              hand' = [hand EXCEPT ![h] = z]
       PROVE  HandsOK' /\ LessSent
  <2>1. TaskOK(z, plans) /\ Sends(z, plans) \subseteq Sends(t, plans)
    BY <1>2, <1>4, <1>10 DEF TaskOK, Sends
  <2>2. TaskOK(z, plans') /\ Sends(z, plans') \subseteq Sends(t, plans) /\ plans'[z.plan].inc = plans[t.plan].inc
    BY <1>2, <1>10, <2>1, Zenon
  <2>3. QED
    BY <1>1, <1>9, <1>10, <2>2, HandsLess, Zenon DEF t
<1>11. ASSUME hand' = [hand EXCEPT ![h] = Link!Idle]
       PROVE  HandsOK' /\ LessSent
  <2>1. TaskOK(Link!Idle, plans') /\ Sends(Link!Idle, plans') = {}
    BY <1>1, IdleOK, Zenon
  <2>2. QED
    BY <1>1, <1>9, <1>11, <2>1, HandsLess, Zenon DEF t
<1>12. HandsOK' /\ LessSent
  BY <1>3, <1>7, <1>8, <1>10, <1>11, Zenon
<1>13. SwarmOK'
  BY <1>1, <1>3, <1>4, <1>6, SwarmSame, AssignedOK, Zenon
<1>14. LinkTypes'
  BY <1>1, <1>2, <1>12, <1>13, TypesFrom, Zenon
<1>15. a # "eyes" => a \in Sends(t, plans)
  BY <1>2, <1>6 DEF Sends
<1>16. QED
  BY <1>3, <1>4, <1>12, <1>14, <1>15, Zenon DEF t

LEMMA AppliedTypes ==
  ASSUME LinkTypes, NEW h \in Link!Hand, Link!Applied(h)
  PROVE  LinkTypes' /\ LessSent
<1> DEFINE t == hand[h]  i == plans[t.plan].inc
           s == Link!StatusFor(Link!Actions(plans[t.plan]), t.got)
           e == [plan |-> t.plan, units |-> t.got \cap Unit, eyes |-> "eyes" \in t.got,
                 due |-> FALSE, rechecked |-> FALSE]
<1>1. /\ SwarmOK /\ PlansOK(plans) /\ HandsOK /\ MaxPlans \in Nat /\ t \in Task /\ TaskOK(t, plans)
      /\ expect \in [Incident -> Link!Expectation] /\ exclude \in [Incident -> SUBSET Unit]
      /\ claimed \in [Unit -> Place] /\ work \in Seq({"reason", "alert"} \X Incident)
  BY TypesAre, Zenon
<1>2. /\ t.pc = "apply" /\ UNCHANGED <<link, view, work, exclude, claimed>> /\ UNCHANGED Link!swarm
      /\ plans' = [plans EXCEPT ![t.plan].status = s]
      /\ expect' = (IF t.got = {} THEN expect ELSE [expect EXCEPT ![i] = e])
      /\ hand' = [hand EXCEPT ![h] = Link!Rest(@)]
  BY Zenon DEF Link!Applied
<1>3. /\ t.plan \in 1..MaxPlans /\ plans[t.plan].status # "forgotten" /\ plans[t.plan] \in Link!Plan
      /\ i \in Incident
  BY <1>1, <1>2, Zenon DEF TaskOK, PlansOK
<1>4. s \in {"applied", "partial", "failed"}
  BY DEF Link!StatusFor
<1>5. e \in Link!Expectation
  <2>1. t.plan \in 0..MaxPlans
    BY <1>1 DEF Task
  <2>2. t.got \cap Unit \in SUBSET Unit /\ ("eyes" \in t.got) \in BOOLEAN
    OBVIOUS
  <2> HIDE DEF t
  <2>3. QED
    BY <2>1, <2>2 DEF Link!Expectation
<1>6. t.list \in Seq(Item)
  BY <1>1 DEF Task
<1>7. Link!Rest(t) = [Link!Idle EXCEPT !.pc = IF t.list = <<>> THEN "idle" ELSE "next", !.list = t.list]
  BY DEF Link!Rest
<1>8. hand' = [hand EXCEPT ![h] = Link!Rest(t)]
  BY <1>2
<1> DEFINE y == [plans[t.plan] EXCEPT !.status = s]
<1>9. plans' = [plans EXCEPT ![t.plan] = y]
  BY <1>2
<1> HIDE DEF s, e, i, t
<1>10. /\ y \in Link!Plan /\ y.inc = plans[t.plan].inc /\ y.units = plans[t.plan].units
       /\ y.eyes = plans[t.plan].eyes /\ y.status # "forgotten"
  BY <1>3, <1>4 DEF Link!Plan
<1> HIDE DEF y
<1>11. PlansOK(plans') /\ SamePlans(plans, plans')
  <2>1. /\ plans' \in [1..MaxPlans -> Link!Plan] /\ plans'[t.plan] = y
        /\ \A q \in 1..MaxPlans : q # t.plan => plans'[q] = plans[q]
    BY <1>1, <1>3, <1>9, <1>10, Zenon DEF PlansOK
  <2>2. PlansOK(plans')
    BY <1>1, <1>3, <1>10, <2>1, Zenon DEF PlansOK, i
  <2>3. SamePlans(plans, plans')
    BY <1>10, <2>1, Zenon DEF SamePlans
  <2>4. QED
    BY <2>2, <2>3
<1>12. TaskOK(Link!Rest(t), plans') /\ Sends(Link!Rest(t), plans') = {}
  BY <1>1, <1>6, <1>7, RestOK, Zenon
<1>13. HandsOK' /\ LessSent
  BY <1>1, <1>8, <1>11, <1>12, HandsLess, Zenon DEF t
<1>14. expect' \in [Incident -> Link!Expectation]
  BY <1>1, <1>2, <1>3, <1>5, Zenon
<1>15. SwarmOK'
  BY <1>1, <1>2, SwarmSame
<1>16. QED
  BY <1>1, <1>2, <1>11, <1>13, <1>14, <1>15, TypesFrom, Zenon

(* The tick's list.                                                         *)
LEMMA TickTypes ==
  ASSUME LinkTypes, Link!TickBegins \/ Link!TickItem \/ Link!TickAsked
  PROVE  LinkTypes' /\ LessSent
<1> DEFINE t == hand["tick"]
<1>1. /\ SwarmOK /\ PlansOK(plans) /\ HandsOK /\ MaxPlans \in Nat /\ t \in Task /\ TaskOK(t, plans)
      /\ expect \in [Incident -> Link!Expectation] /\ exclude \in [Incident -> SUBSET Unit]
      /\ claimed \in [Unit -> Place] /\ work \in Seq({"reason", "alert"} \X Incident)
      /\ "tick" \in Link!Hand /\ Link!Nothing \in Link!Expectation
  <2>1. "tick" \in Link!Hand
    BY DEF Link!Hand
  <2>2. QED
    BY <2>1, TypesAre, Zenon
<1>2. /\ UNCHANGED <<link, view, work, plans, claimed>> /\ UNCHANGED Link!swarm
  BY DEF Link!TickBegins, Link!TickItem, Link!TickAsked, Link!desk
<1>3. SwarmOK' /\ SamePlans(plans, plans')
  BY <1>1, <1>2, SwarmSame, SameSame
<1>4. ASSUME NEW x, TaskOK(x, plans), Sends(x, plans) = {}, hand' = [hand EXCEPT !["tick"] = x],
             expect' \in [Incident -> Link!Expectation], exclude' \in [Incident -> SUBSET Unit]
      PROVE  LinkTypes' /\ LessSent
  <2>1. TaskOK(x, plans') /\ Sends(x, plans') = {}
    BY <1>2, <1>4, Zenon
  <2>2. HandsOK' /\ LessSent
    BY <1>1, <1>3, <1>4, <2>1, HandsLess, Zenon
  <2>3. QED
    BY <1>1, <1>2, <1>3, <1>4, <2>2, TypesFrom, Zenon
<1>5. ASSUME NEW p \in {"ask", "drop", "next"}, t.pc = "next"
      PROVE  \A x : x \in Task /\ x.pc = p /\ x.list = t.list => TaskOK(x, plans) /\ Sends(x, plans) = {}
  <2>1. t.list # <<>>
    BY <1>1, <1>5 DEF TaskOK
  <2>2. QED
    BY <2>1, <1>5 DEF TaskOK, Sends
<1>6. t.list # <<>> => TaskOK(Link!Onward, plans) /\ Sends(Link!Onward, plans) = {}
  <2> DEFINE l == Tail(t.list)
  <2>1. t.list # <<>> => l \in Seq(Item)
    <3>1. t.list \in Seq(Item)
      BY <1>1 DEF Task
    <3>2. QED
      BY <3>1, HeadTailProperties
  <2>2. Link!Onward = [Link!Idle EXCEPT !.pc = IF l = <<>> THEN "idle" ELSE "next", !.list = l]
    BY DEF Link!Onward
  <2> HIDE DEF l
  <2>3. MaxPlans \in Nat
    BY <1>1, Zenon
  <2>4. ASSUME l \in Seq(Item)
        PROVE  TaskOK(Link!Onward, plans) /\ Sends(Link!Onward, plans) = {}
    BY <2>2, <2>3, <2>4, RestOK, Zenon
  <2>5. QED
    BY <2>1, <2>4, Zenon
<1>7. CASE Link!TickBegins
  <2> DEFINE S == {i \in Incident : Link!Expecting(i)}
  <2>1. PICK s \in Link!SetToSeqs(S) :
          hand' = [hand EXCEPT !["tick"].pc = "next",
            !["tick"].list = [n \in DOMAIN s |-> [inc |-> s[n], exp |-> expect[s[n]]]]]
    BY <1>7, Zenon DEF Link!TickBegins
  <2>2. /\ t = Link!Idle /\ expect' = expect /\ exclude' = exclude /\ S # {}
    BY <1>7 DEF Link!TickBegins, Link!desk
  <2> DEFINE l == [n \in DOMAIN s |-> [inc |-> s[n], exp |-> expect[s[n]]]]
             x == [t EXCEPT !.pc = "next", !.list = l]
  <2>3. IsFiniteSet(S)
    BY FS_Subset DEF LinkTypes, LinkAssumes
  <2>4. Link!Cardinality(S) = Cardinality(S)
    BY Zenon DEF Link!Cardinality, Cardinality
  <2>5. Link!Cardinality(S) \in Nat /\ Link!Cardinality(S) # 0
    BY <2>2, <2>3, <2>4, FS_CardinalityType, FS_EmptySet
  <2>6. PICK k \in Nat \ {0} : s \in [1..k -> S]
    BY <2>5, Zenon DEF Link!SetToSeqs
  <2>7. l \in [1..k -> Item] /\ DOMAIN l = 1..k
    BY <1>1, <2>6 DEF Item
  <2>8. l \in Seq(Item) /\ l # <<>>
    <3> HIDE DEF l
    <3>1. l \in Seq(Item)
      <4>1. k \in Nat /\ l \in [1..k -> Item]
        BY <2>7
      <4>2. QED
        BY <4>1, SeqDef, Zenon
    <3>2. 1 \in DOMAIN l
      BY <2>7
    <3>3. QED
      BY <3>1, <3>2
  <2>9. hand' = [hand EXCEPT !["tick"] = x]
    BY <1>1, <2>1 DEF HandsOK, Task
  <2> HIDE DEF l, t
  <2>10. x \in Task /\ x.pc = "next" /\ x.list = l
    BY <1>1, <2>8 DEF Task
  <2> HIDE DEF x
  <2>11. TaskOK(x, plans) /\ Sends(x, plans) = {}
    BY <2>8, <2>10 DEF TaskOK, Sends
  <2>12. expect' \in [Incident -> Link!Expectation] /\ exclude' \in [Incident -> SUBSET Unit]
    BY <1>1, <2>2, Zenon
  <2>13. QED
    BY <1>4, <2>9, <2>11, <2>12, Zenon
<1>8. CASE Link!TickAsked
  <2>1. t.list # <<>>
    BY <1>1, <1>8 DEF TaskOK, Link!TickAsked
  <2>2. expect' \in [Incident -> Link!Expectation] /\ exclude' \in [Incident -> SUBSET Unit]
    BY <1>1, <1>8 DEF Link!TickAsked, Link!desk
  <2>3. hand' = [hand EXCEPT !["tick"] = Link!Onward]
    BY <1>8, Zenon DEF Link!TickAsked
  <2>4. QED
    BY <1>4, <1>6, <2>1, <2>2, <2>3, Zenon
<1>9. CASE Link!TickItem
  <2> DEFINE i == Head(t.list).inc  e == Head(t.list).exp  now == Link!Checked(i, view)
             gone == Link!Missing(i, e, view)
  <2>1. t.pc = "next" /\ t.list # <<>> /\ t.list \in Seq(Item)
    <3>1. t.pc = "next"
      BY <1>9, Zenon DEF Link!TickItem
    <3>2. QED
      BY <1>1, <3>1 DEF TaskOK, Task
  <2>2. i \in Incident /\ e \in Link!Expectation
    <3>1. Head(t.list) \in Item
      BY <2>1, HeadTailProperties
    <3>2. QED
      BY <3>1 DEF Item
  <2>3. now \in [Incident -> Link!Expectation]
    BY <2>2, CheckedOK, Zenon
  <2>4. gone \in SUBSET Unit
    BY <2>2 DEF Link!Missing, Link!Expectation
  <2>5. Link!Recheck(now[i], e) \in Link!Expectation
    <3>1. now[i] \in Link!Expectation
      BY <2>2, <2>3, Zenon
    <3> HIDE DEF now, i, e
    <3>2. QED
      BY <3>1 DEF Link!Recheck, Link!Expectation
  <2> DEFINE x == [t EXCEPT !.pc = "ask"]  y == [t EXCEPT !.pc = "drop", !.todo = gone]
  <2>6. /\ \/ expect' = now
           \/ expect' = [now EXCEPT ![i] = Link!Nothing]
           \/ expect' = [now EXCEPT ![i] = Link!Recheck(@, e)]
        /\ exclude' = exclude \/ exclude' = [exclude EXCEPT ![i] = @ \cup gone]
        /\ \/ hand' = [hand EXCEPT !["tick"] = Link!Onward]
           \/ hand' = [hand EXCEPT !["tick"].pc = "ask"]
           \/ hand' = [hand EXCEPT !["tick"] = IF gone = {} THEN Link!Onward ELSE [@ EXCEPT !.pc = "drop", !.todo = gone]]
    BY <1>9, Zenon DEF Link!TickItem
  <2>7. \/ hand' = [hand EXCEPT !["tick"] = Link!Onward]
        \/ hand' = [hand EXCEPT !["tick"] = x]
        \/ hand' = [hand EXCEPT !["tick"] = y]
    <3>1. hand' = [hand EXCEPT !["tick"].pc = "ask"] => hand' = [hand EXCEPT !["tick"] = x]
      BY <1>1 DEF HandsOK, Task
    <3>2. hand' = [hand EXCEPT !["tick"] = IF gone = {} THEN Link!Onward ELSE [@ EXCEPT !.pc = "drop", !.todo = gone]]
            => hand' = [hand EXCEPT !["tick"] = Link!Onward] \/ hand' = [hand EXCEPT !["tick"] = y]
      BY <1>1 DEF HandsOK
    <3>3. QED
      BY <2>6, <3>1, <3>2, Zenon
  <2>8. x \in Task /\ x.pc = "ask" /\ x.list = t.list /\ y \in Task /\ y.pc = "drop" /\ y.list = t.list
    <3> HIDE DEF t, gone
    <3>1. QED
      BY <1>1, <2>4 DEF Task
  <2> HIDE DEF t, i, e, now, gone, x, y
  <2>9. expect' \in [Incident -> Link!Expectation]
    <3>1. [now EXCEPT ![i] = Link!Nothing] \in [Incident -> Link!Expectation]
      BY <1>1, <2>2, <2>3, Zenon
    <3>2. [now EXCEPT ![i] = Link!Recheck(@, e)] \in [Incident -> Link!Expectation]
      BY <2>2, <2>3, <2>5
    <3>3. QED
      BY <2>3, <2>6, <3>1, <3>2, Zenon
  <2>10. exclude' \in [Incident -> SUBSET Unit]
    BY <1>1, <2>2, <2>4, <2>6
  <2>11. TaskOK(x, plans) /\ Sends(x, plans) = {} /\ TaskOK(y, plans) /\ Sends(y, plans) = {}
    BY <1>5, <2>1, <2>8
  <2>12. TaskOK(Link!Onward, plans) /\ Sends(Link!Onward, plans) = {}
    BY <1>6, <2>1
  <2>13. QED
    BY <1>4, <2>7, <2>9, <2>10, <2>11, <2>12, Zenon
<1>10. QED
  BY <1>7, <1>8, <1>9, Zenon

LEMMA TakesTypes ==
  ASSUME LinkTypes, Link!WorkerTakes
  PROVE  LinkTypes' /\ Planned
<1> DEFINE B == {"reason", "alert"} \X Incident  i == Head(work)[2]  force == Head(work)[1] = "alert"
<1>1. /\ SwarmOK /\ MaxPlans \in Nat /\ work \in Seq(B)
      /\ expect \in [Incident -> Link!Expectation] /\ exclude \in [Incident -> SUBSET Unit]
  BY TypesAre, Zenon
<1>2. /\ work # <<>> /\ work' = Tail(work) /\ UNCHANGED Link!swarm
      /\ UNCHANGED <<link, view, expect, exclude>>
      /\ Link!MakePlan("worker", i, Link!Idle) \/ Link!NoPlan("worker", i, force, Link!Idle)
  BY DEF Link!WorkerTakes
<1>3. work' \in Seq(B) /\ Head(work) \in B
  BY <1>1, <1>2, HeadTailProperties, Zenon
<1>4. i \in Incident /\ "worker" \in Link!Hand
  BY <1>3 DEF Link!Hand
<1>5. \A pl : TaskOK(Link!Idle, pl) /\ Sends(Link!Idle, pl) = {}
  BY <1>1, IdleOK, Zenon
<1> HIDE DEF i, force
<1>6. PlansOK(plans') /\ HandsOK' /\ claimed' \in [Unit -> Place] /\ Planned
  BY <1>2, <1>4, <1>5, PlannedOrNot, Zenon
<1>7. SwarmOK'
  BY <1>1, <1>2, SwarmSame
<1>8. QED
  BY <1>1, <1>2, <1>3, <1>6, <1>7, TypesFrom, Zenon

LEMMA DropsTypes ==
  ASSUME LinkTypes, Link!TickDrops
  PROVE  /\ LinkTypes' /\ Planned /\ at' = at
         /\ order' = order \/ \E i \in Incident : \E S : order' = [u \in Unit |-> IF u \in S /\ order[u] = i THEN Link!None ELSE order[u]]
<1> DEFINE t == hand["tick"]  i == Head(t.list).inc
<1>1. /\ SwarmOK /\ MaxPlans \in Nat /\ t \in Task /\ TaskOK(t, plans)
      /\ expect \in [Incident -> Link!Expectation] /\ exclude \in [Incident -> SUBSET Unit]
      /\ work \in Seq({"reason", "alert"} \X Incident) /\ "tick" \in Link!Hand
  <2>1. "tick" \in Link!Hand
    BY DEF Link!Hand
  <2>2. QED
    BY <2>1, TypesAre, Zenon
<1>2. /\ t.pc = "drop" /\ UNCHANGED <<link, view, expect, exclude, work>>
      /\ Link!Unassigned(i, t.todo) \/ UNCHANGED Link!swarm
      /\ Link!MakePlan("tick", i, Link!Onward) \/ Link!NoPlan("tick", i, TRUE, Link!Onward)
  BY DEF Link!TickDrops
<1>3. t.list \in Seq(Item) /\ t.list # <<>>
  BY <1>1, <1>2 DEF TaskOK, Task
<1>4. Tail(t.list) \in Seq(Item) /\ Head(t.list) \in Item
  BY <1>3, HeadTailProperties, Zenon
<1>5. i \in Incident
  BY <1>4 DEF Item
<1>6. \A pl : TaskOK(Link!Onward, pl) /\ Sends(Link!Onward, pl) = {}
  <2> DEFINE l == Tail(t.list)
  <2>1. Link!Onward = [Link!Idle EXCEPT !.pc = IF l = <<>> THEN "idle" ELSE "next", !.list = l]
    BY DEF Link!Onward
  <2>2. QED
    BY <1>1, <1>4, <2>1, RestOK, Zenon
<1> HIDE DEF t, i
<1>7. PlansOK(plans') /\ HandsOK' /\ claimed' \in [Unit -> Place] /\ Planned
  BY <1>1, <1>2, <1>5, <1>6, PlannedOrNot, Zenon
<1>8. CASE Link!Unassigned(i, t.todo)
  <2>1. /\ order' = [u \in Unit |-> IF u \in t.todo /\ order[u] = i THEN Link!None ELSE order[u]]
        /\ UNCHANGED <<at, eyes, sortie, resolved>>
    BY <1>8, Zenon DEF Link!Unassigned
  <2>2. SwarmOK'
    BY <1>1, <2>1 DEF SwarmOK, Place
  <2>3. LinkTypes'
    BY <1>1, <1>2, <1>7, <2>2, TypesFrom, Zenon
  <2>4. QED
    BY <1>5, <1>7, <2>1, <2>3, Zenon
<1>9. CASE UNCHANGED Link!swarm
  <2>1. SwarmOK' /\ order' = order /\ at' = at
    BY <1>1, <1>9, SwarmSame DEF Link!swarm
  <2>2. QED
    BY <1>1, <1>2, <1>7, <2>1, TypesFrom, Zenon
<1>10. QED
  BY <1>2, <1>8, <1>9, Zenon

LEMMA OfficerTypes ==
  ASSUME LinkTypes, Link!Officers
  PROVE  LinkTypes'
<1>1. /\ SwarmOK /\ PlansOK(plans) /\ HandsOK /\ MaxPlans \in Nat
      /\ expect \in [Incident -> Link!Expectation] /\ exclude \in [Incident -> SUBSET Unit]
      /\ claimed \in [Unit -> Place] /\ work \in Seq({"reason", "alert"} \X Incident)
      /\ Link!Nothing \in Link!Expectation
  BY TypesAre, Zenon
<1>2. DOMAIN plans = 1..MaxPlans /\ \A p \in 1..MaxPlans : plans[p] \in Link!Plan
  BY <1>1, Zenon DEF PlansOK
<1>3. ASSUME NEW p \in 1..MaxPlans, Link!Approves(p)
      PROVE  LinkTypes'
  <2> DEFINE t == hand["officer"]  x == [t EXCEPT !.pc = "apply", !.plan = p, !.todo = Link!Actions(plans[p])]
  <2>1. /\ UNCHANGED <<link, view, work, plans, expect, exclude, claimed>> /\ UNCHANGED Link!swarm
        /\ plans[p].status \in {"proposed", "failed"} /\ t = Link!Idle
        /\ hand' = [hand EXCEPT !["officer"] = x]
    BY <1>3 DEF Link!Approves, Link!desk
  <2>2. "officer" \in Link!Hand /\ t \in Task
    <3>1. "officer" \in Link!Hand
      BY DEF Link!Hand
    <3>2. QED
      BY <3>1, TypesAre, Zenon
  <2>3. x \in Task /\ x.pc = "apply" /\ x.plan = p /\ x.todo = Link!Actions(plans[p])
    <3>1. Link!Actions(plans[p]) \in SUBSET (Unit \cup {"eyes"})
      BY <1>2 DEF Link!Actions, Link!Plan
    <3>2. p \in 0..MaxPlans
      BY <1>1
    <3> HIDE DEF t
    <3>3. QED
      BY <2>2, <3>1, <3>2 DEF Task
  <2> HIDE DEF t, x
  <2>4. TaskOK(x, plans)
    BY <2>1, <2>3 DEF TaskOK
  <2>5. TaskOK(x, plans') /\ SamePlans(plans, plans')
    BY <2>1, <2>4, SameSame, Zenon
  <2>6. HandsOK'
    BY <1>1, <2>1, <2>2, <2>5, HandsMove, Zenon
  <2>7. SwarmOK'
    BY <1>1, <2>1, SwarmSame
  <2>8. QED
    BY <1>1, <2>1, <2>6, <2>7, TypesFrom, Zenon
<1>4. ASSUME NEW p \in 1..MaxPlans, Link!Rejects(p)
      PROVE  LinkTypes'
  <2> DEFINE y == [plans[p] EXCEPT !.status = "rejected"]
  <2>1. /\ UNCHANGED <<link, view, work, hand, expect, exclude, claimed>> /\ UNCHANGED Link!swarm
        /\ plans[p].status = "proposed" /\ plans' = [plans EXCEPT ![p] = y]
    BY <1>4 DEF Link!Rejects
  <2>2. y \in Link!Plan /\ y.inc = plans[p].inc /\ y.units = plans[p].units /\ y.eyes = plans[p].eyes /\ y.status = "rejected"
    BY <1>2 DEF Link!Plan
  <2> HIDE DEF y
  <2>3. /\ plans' \in [1..MaxPlans -> Link!Plan] /\ plans'[p] = y
        /\ \A q \in 1..MaxPlans : q # p => plans'[q] = plans[q]
    BY <1>1, <2>1, <2>2, Zenon DEF PlansOK
  <2>4. plans[p].status # "forgotten" /\ y.status # "forgotten"
    BY <2>1, <2>2
  <2>5. PlansOK(plans')
    BY <1>1, <2>2, <2>3, <2>4, Zenon DEF PlansOK
  <2>6. \A q \in 1..MaxPlans :
          /\ plans'[q].inc = plans[q].inc /\ plans'[q].units = plans[q].units /\ plans'[q].eyes = plans[q].eyes
          /\ plans[q].status # "forgotten" => plans'[q].status # "forgotten"
    BY <2>2, <2>3, <2>4, Zenon
  <2>7. ASSUME NEW b \in Link!Hand
        PROVE  TaskOK(hand[b], plans')
    <3>1. TaskOK(hand[b], plans)
      BY <1>1, Zenon DEF HandsOK
    <3>2. hand[b].plan \in 1..MaxPlans =>
            /\ plans'[hand[b].plan].inc = plans[hand[b].plan].inc
            /\ plans'[hand[b].plan].units = plans[hand[b].plan].units
            /\ plans'[hand[b].plan].eyes = plans[hand[b].plan].eyes
            /\ plans[hand[b].plan].status # "forgotten" => plans'[hand[b].plan].status # "forgotten"
      BY <2>6, Zenon
    <3>3. QED
      BY <3>1, <3>2, TaskStays, Zenon
  <2>8. HandsOK'
    BY <1>1, <2>1, <2>7, Zenon DEF HandsOK
  <2>9. SwarmOK'
    BY <1>1, <2>1, SwarmSame
  <2>10. QED
    BY <1>1, <2>1, <2>5, <2>8, <2>9, TypesFrom, Zenon
<1>5. ASSUME NEW i \in Incident, NEW u \in Unit, Link!SendsByHand(i, u)
      PROVE  LinkTypes'
  <2>1. /\ UNCHANGED <<link, view, work, hand, plans, exclude, claimed>> /\ Link!Assigned(i, u)
        /\ expect' = [expect EXCEPT ![i] = [Link!Nothing EXCEPT !.units = {u}]]
    BY <1>5, Zenon DEF Link!SendsByHand
  <2>2. [Link!Nothing EXCEPT !.units = {u}] \in Link!Expectation
    BY <1>1 DEF Link!Nothing, Link!Expectation
  <2>3. expect' \in [Incident -> Link!Expectation]
    BY <1>1, <2>1, <2>2, Zenon
  <2>4. SwarmOK' /\ HandsOK' /\ PlansOK(plans')
    BY <1>1, <2>1, AssignedOK, HandsSame, Zenon
  <2>5. QED
    BY <1>1, <2>1, <2>3, <2>4, TypesFrom, Zenon
<1>6. QED
  BY <1>2, <1>3, <1>4, <1>5, Zenon DEF Link!Officers

LEMMA ClockTypes ==
  ASSUME LinkTypes, Link!Clock
  PROVE  LinkTypes' /\ LessSent
<1>1. /\ SwarmOK /\ PlansOK(plans) /\ HandsOK /\ MaxPlans \in Nat
      /\ expect \in [Incident -> Link!Expectation] /\ exclude \in [Incident -> SUBSET Unit]
      /\ claimed \in [Unit -> Place] /\ work \in Seq({"reason", "alert"} \X Incident)
  BY TypesAre, Zenon
<1>2. UNCHANGED <<link, view, work, hand, plans, exclude>> /\ UNCHANGED Link!swarm
  BY DEF Link!Clock, Link!Due, Link!Lapses
<1>3. expect' \in [Incident -> Link!Expectation] /\ claimed' \in [Unit -> Place]
  <2>1. ASSUME NEW i \in Incident, Link!Due(i)
        PROVE  expect' \in [Incident -> Link!Expectation] /\ claimed' \in [Unit -> Place]
    <3>1. expect' = [expect EXCEPT ![i].due = TRUE] /\ claimed' = claimed
      BY <2>1, Zenon DEF Link!Due
    <3>2. [expect[i] EXCEPT !.due = TRUE] \in Link!Expectation
      BY <1>1 DEF Link!Expectation
    <3>3. expect' \in [Incident -> Link!Expectation]
      BY <1>1, <3>1, <3>2
    <3>4. QED
      BY <1>1, <3>1, <3>3, Zenon
  <2>2. ASSUME NEW u \in Unit, Link!Lapses(u)
        PROVE  expect' \in [Incident -> Link!Expectation] /\ claimed' \in [Unit -> Place]
    <3>1. claimed' = [claimed EXCEPT ![u] = Link!None] /\ expect' = expect
      BY <2>2, Zenon DEF Link!Lapses
    <3>2. Link!None \in Place
      BY DEF Place
    <3>3. QED
      BY <1>1, <3>1, <3>2, Zenon
  <2>3. QED
    BY <2>1, <2>2, Zenon DEF Link!Clock
<1>4. SwarmOK' /\ HandsOK' /\ PlansOK(plans')
  BY <1>1, <1>2, SwarmSame, HandsSame, Zenon
<1>5. LessSent
  BY <1>2, Zenon DEF LessSent
<1>6. QED
  BY <1>1, <1>2, <1>3, <1>4, <1>5, TypesFrom, Zenon

LEMMA LinkTypesStep == LinkTypes /\ [Link!Next]_Link!vars => LinkTypes'
<1> SUFFICES ASSUME LinkTypes, [Link!Next]_Link!vars PROVE LinkTypes'
  OBVIOUS
<1>1. CASE UNCHANGED Link!vars
  <2>1. /\ SwarmOK /\ PlansOK(plans) /\ HandsOK
        /\ expect \in [Incident -> Link!Expectation] /\ exclude \in [Incident -> SUBSET Unit]
        /\ claimed \in [Unit -> Place] /\ work \in Seq({"reason", "alert"} \X Incident)
    BY TypesAre, Zenon
  <2>2. UNCHANGED Link!swarm /\ UNCHANGED <<plans, expect, exclude, claimed, hand, work, link, view>>
    BY <1>1 DEF Link!vars, Link!desk
  <2>3. HandsOK' /\ SwarmOK' /\ PlansOK(plans')
    BY <2>1, <2>2, HandsSame, SwarmSame, Zenon
  <2>4. QED
    BY <2>1, <2>2, <2>3, TypesFrom, Zenon
<1>2. CASE \E h \in Link!Hand : Link!Plans(h)
  BY <1>2, RecordedTypes, SendTypes, AppliedTypes, Zenon DEF Link!Plans
<1>3. CASE Link!Ticks
  BY <1>3, TickTypes, DropsTypes, Zenon DEF Link!Ticks
<1>4. QED
  BY <1>1, <1>2, <1>3, SwarmTypes, TakesTypes, OfficerTypes, ClockTypes, Zenon DEF Link!Next

----------------------------------------------------------------------------
(* Units are not poached.                                                   *)
LEMMA SendsAre ==
  ASSUME LinkTypes, NEW h \in Link!Hand
  PROVE  /\ Sends(hand[h], plans) \subseteq Unit
         /\ \A u \in Sends(hand[h], plans) :
              /\ plans[hand[h].plan].inc \in Incident /\ u \in plans[hand[h].plan].units
              /\ hand[h].pc \in {"record", "apply"}
<1>1. TaskOK(hand[h], plans) /\ PlansOK(plans)
  BY TypesAre, Zenon
<1>2. CASE hand[h].pc \in {"record", "apply"}
  <2>1. /\ plans[hand[h].plan] \in Link!Plan /\ plans[hand[h].plan].inc \in Incident
    BY <1>1, <1>2, Zenon DEF TaskOK, PlansOK
  <2>2. QED
    BY <1>2, <2>1 DEF Sends, Link!Plan
<1>3. CASE hand[h].pc \notin {"record", "apply"}
  BY <1>3 DEF Sends
<1>4. QED
  BY <1>2, <1>3, Zenon

LEMMA OwnedStays ==
  ASSUME \A h \in Link!Hand : Owned(hand[h], plans, claimed, order), LessSent,
         claimed' = claimed, lazy' = lazy,
         \A h \in Link!Hand : \A u \in Sends(hand[h], plans) \ lazy : order'[u] \in {Link!None, order[u]}
  PROVE  (\A h \in Link!Hand : Owned(hand[h], plans, claimed, order))'
<1> SUFFICES ASSUME NEW h \in Link!Hand, NEW u \in Sends(hand'[h], plans')
             PROVE  /\ claimed'[u] = plans'[hand'[h].plan].inc
                    /\ u \notin lazy' => order'[u] \in {Link!None, plans'[hand'[h].plan].inc}
  BY Zenon DEF Owned
<1>1. u \in Sends(hand[h], plans) /\ plans'[hand'[h].plan].inc = plans[hand[h].plan].inc
  BY Zenon DEF LessSent
<1>2. claimed[u] = plans[hand[h].plan].inc /\ (u \notin lazy => order[u] \in {Link!None, plans[hand[h].plan].inc})
  BY <1>1, Zenon DEF Owned
<1>3. u \notin lazy => order'[u] \in {Link!None, order[u]}
  BY <1>1
<1>4. QED
  BY <1>1, <1>2, <1>3

LEMMA KeptStays ==
  ASSUME UnitsKept, claimed' = claimed, lazy' = lazy,
         \A u \in Unit \ lazy : order'[u] \in {Link!None, order[u]},
         \A u \in Unit \ lazy : order'[u] # Link!None /\ at[u] = order[u] /\ view.at[u] = order[u]
                                  => at'[u] = order[u] /\ view'.at[u] = order[u]
  PROVE  Placed(order, at, view.at, claimed)'
<1> SUFFICES ASSUME NEW u \in Unit \ lazy
             PROVE  \/ order'[u] = Link!None \/ claimed'[u] = order'[u]
                    \/ (at'[u] = order'[u] /\ view'.at[u] = order'[u])
  BY Zenon DEF Placed
<1>1. order[u] = Link!None \/ claimed[u] = order[u] \/ (at[u] = order[u] /\ view.at[u] = order[u])
  BY Zenon DEF UnitsKept, Placed
<1>2. order'[u] = Link!None \/ order'[u] = order[u]
  OBVIOUS
<1>3. QED
  BY <1>1, <1>2, Zenon

(* Steps that leave the claims alone, and give no orders.                   *)
LEMMA QuietKeeps ==
  ASSUME UnitsKept, LinkTypes, LessSent, claimed' = claimed, lazy' = lazy,
         \A u \in Unit \ lazy : order'[u] \in {Link!None, order[u]},
         \A u \in Unit \ lazy : order'[u] # Link!None /\ at[u] = order[u] /\ view.at[u] = order[u]
                                  => at'[u] = order[u] /\ view'.at[u] = order[u]
  PROVE  UnitsKept' /\ NotMoved
<1>1. \A h \in Link!Hand : Sends(hand[h], plans) \subseteq Unit
  BY SendsAre, Zenon
<1>2. \A h \in Link!Hand : \A u \in Sends(hand[h], plans) \ lazy : order'[u] \in {Link!None, order[u]}
  BY <1>1
<1>3. \A h \in Link!Hand : Owned(hand[h], plans, claimed, order)
  BY Zenon DEF UnitsKept
<1>4. (\A h \in Link!Hand : Owned(hand[h], plans, claimed, order))'
  BY <1>2, <1>3, OwnedStays
<1>5. Placed(order, at, view.at, claimed)'
  BY KeptStays
<1>6. QED
  BY <1>4, <1>5, Zenon DEF UnitsKept, NotMoved

LEMMA StillKeeps ==
  ASSUME UnitsKept, LinkTypes, LessSent, UNCHANGED <<claimed, lazy, order, at, view>>
  PROVE  UnitsKept' /\ NotMoved
<1>1. \A u \in Unit \ lazy : order'[u] \in {Link!None, order[u]}
  OBVIOUS
<1>2. \A u \in Unit \ lazy : order'[u] # Link!None /\ at[u] = order[u] /\ view.at[u] = order[u]
                                  => at'[u] = order[u] /\ view'.at[u] = order[u]
  OBVIOUS
<1>3. QED
  BY <1>1, <1>2, QuietKeeps, Zenon

LEMMA SwarmKeeps ==
  ASSUME UnitsKept, LinkTypes, Link!Swarm \/ Link!Reads \/ Link!Drops \/ Link!Noticed \/ Link!Reconnects
  PROVE  UnitsKept' /\ NotMoved
<1>1. order \in [Unit -> Place] /\ at \in [Unit -> Place]
  BY TypesAre, Zenon DEF SwarmOK
<1>2. /\ UNCHANGED <<plans, hand, claimed, lazy>>
  BY DEF Link!Swarm, Link!Comes, Link!DroneComes, Link!Resolved, Link!Reads, Link!Snapshot, Link!Report,
         Link!Drops, Link!Noticed, Link!Reconnects, Link!rigid, Link!desk
<1>3. LessSent
  BY <1>2, Zenon DEF LessSent
<1>4. ASSUME NEW v \in Unit, Link!Comes(v) PROVE UnitsKept' /\ NotMoved
  <2>1. order[v] # at[v] /\ at' = [at EXCEPT ![v] = order[v]] /\ order' = order /\ view' = view
    BY <1>4, Zenon DEF Link!Comes
  <2>2. \A u \in Unit \ lazy : order'[u] \in {Link!None, order[u]}
    BY <2>1
  <2>3. \A u \in Unit \ lazy : order'[u] # Link!None /\ at[u] = order[u] /\ view.at[u] = order[u]
                                  => at'[u] = order[u] /\ view'.at[u] = order[u]
    BY <1>1, <2>1
  <2>4. QED
    BY <1>2, <1>3, <2>2, <2>3, QuietKeeps, Zenon
<1>5. ASSUME NEW i \in Incident, Link!DroneComes(i) PROVE UnitsKept' /\ NotMoved
  <2>1. UNCHANGED <<order, at, view>>
    BY <1>5, Zenon DEF Link!DroneComes
  <2>2. QED
    BY <1>2, <1>3, <2>1, StillKeeps, Zenon
<1>6. ASSUME NEW i \in Incident, Link!Resolved(i) PROVE UnitsKept' /\ NotMoved
  <2>1. /\ order' = [u \in Unit |-> IF order[u] = i THEN Link!None ELSE order[u]]
        /\ at' = [u \in Unit |-> IF at[u] = i THEN Link!None ELSE at[u]] /\ view' = view
    BY <1>6, Zenon DEF Link!Resolved
  <2>2. \A u \in Unit \ lazy : order'[u] \in {Link!None, order[u]}
    BY <2>1
  <2>3. \A u \in Unit \ lazy : order'[u] # Link!None /\ at[u] = order[u] /\ view.at[u] = order[u]
                                  => at'[u] = order[u] /\ view'.at[u] = order[u]
    BY <2>1
  <2>4. QED
    BY <1>2, <1>3, <2>2, <2>3, QuietKeeps, Zenon
<1>7. CASE Link!Reads \/ Link!Reconnects
  <2>1. view' = Link!Now /\ UNCHANGED <<order, at>>
    BY <1>7 DEF Link!Reads, Link!Snapshot, Link!Report, Link!Reconnects, Link!swarm
  <2>2. view'.at = at
    BY <2>1 DEF Link!Now
  <2>3. \A u \in Unit \ lazy : order'[u] \in {Link!None, order[u]}
    BY <2>1
  <2>4. \A u \in Unit \ lazy : order'[u] # Link!None /\ at[u] = order[u] /\ view.at[u] = order[u]
                                  => at'[u] = order[u] /\ view'.at[u] = order[u]
    BY <2>1, <2>2
  <2>5. QED
    BY <1>2, <1>3, <2>3, <2>4, QuietKeeps, Zenon
<1>8. CASE Link!Drops \/ Link!Noticed
  <2>1. UNCHANGED <<order, at, view>>
    BY <1>8 DEF Link!Drops, Link!Noticed, Link!swarm
  <2>2. QED
    BY <1>2, <1>3, <2>1, StillKeeps, Zenon
<1>9. QED
  BY <1>4, <1>5, <1>6, <1>7, <1>8, Zenon DEF Link!Swarm

LEMMA SendKeeps ==
  ASSUME UnitsKept, LinkTypes, NEW h \in Link!Hand, Link!Send(h)
  PROVE  UnitsKept' /\ NotMoved
<1>1. order \in [Unit -> Place] /\ LessSent
  <2>1. order \in [Unit -> Place]
    BY TypesAre, Zenon DEF SwarmOK
  <2>2. QED
    BY <2>1, SendTypes, Zenon
<1>2. UNCHANGED <<claimed, lazy, view, plans>>
  BY DEF Link!Send, Link!rigid, Link!desk
<1>3. CASE UNCHANGED Link!swarm
  BY <1>1, <1>2, <1>3, StillKeeps, Zenon DEF Link!swarm
<1> DEFINE i == plans[hand[h].plan].inc
<1>4. ASSUME NEW a \in hand[h].todo, i \in Incident, Link!Assigned(i, a), a # "eyes" => a \in Sends(hand[h], plans)
      PROVE  UnitsKept' /\ NotMoved
  <2>1. CASE order' = order /\ at' = at
    BY <1>1, <1>2, <2>1, StillKeeps, Zenon
  <2>2. CASE order' = [order EXCEPT ![a] = i] /\ at' = at /\ a # "eyes"
    <3>1. a \in Sends(hand[h], plans) /\ a \in Unit
      BY <1>4, <2>2, SendsAre
    <3>2. claimed[a] = i /\ (a \notin lazy => order[a] \in {Link!None, i})
      BY <3>1, Zenon DEF UnitsKept, Owned
    <3>3. order'[a] = i /\ \A u \in Unit : u # a => order'[u] = order[u]
      BY <1>1, <2>2, <3>1
    <3>4. NotMoved
      BY <3>2, <3>3 DEF NotMoved
    <3>5. ASSUME NEW b \in Link!Hand, NEW u \in Sends(hand'[b], plans')
          PROVE  /\ claimed'[u] = plans'[hand'[b].plan].inc
                 /\ u \notin lazy' => order'[u] \in {Link!None, plans'[hand'[b].plan].inc}
      <4>1. u \in Sends(hand[b], plans) /\ plans'[hand'[b].plan].inc = plans[hand[b].plan].inc
        BY <1>1, <3>5, Zenon DEF LessSent
      <4>2. claimed[u] = plans[hand[b].plan].inc /\ (u \notin lazy => order[u] \in {Link!None, plans[hand[b].plan].inc})
        BY <4>1, Zenon DEF UnitsKept, Owned
      <4>3. u \in Unit
        BY <4>1, SendsAre
      <4>4. CASE u = a
        BY <1>2, <3>2, <3>3, <4>1, <4>2, <4>4
      <4>5. CASE u # a
        BY <1>2, <3>3, <4>1, <4>2, <4>3, <4>5
      <4>6. QED
        BY <4>4, <4>5
    <3>6. ASSUME NEW u \in Unit \ lazy
          PROVE  \/ order'[u] = Link!None \/ claimed'[u] = order'[u]
                 \/ (at'[u] = order'[u] /\ view'.at[u] = order'[u])
      <4>1. order[u] = Link!None \/ claimed[u] = order[u] \/ (at[u] = order[u] /\ view.at[u] = order[u])
        BY Zenon DEF UnitsKept, Placed
      <4>2. QED
        BY <1>2, <2>2, <3>2, <3>3, <4>1
    <3>7. (\A b \in Link!Hand : Owned(hand[b], plans, claimed, order))'
      BY <3>5, Zenon DEF Owned
    <3>8. Placed(order, at, view.at, claimed)'
      BY <1>2, <3>6, Zenon DEF Placed
    <3>9. QED
      BY <3>4, <3>7, <3>8, Zenon DEF UnitsKept
  <2>3. QED
    BY <1>4, <2>1, <2>2, Zenon DEF Link!Assigned, Link!swarm
<1>5. QED
  BY <1>3, <1>4, SendTypes, Zenon

(* A plan takes units that are free for its incident, and nobody else is to *)
(* send them.                                                               *)
LEMMA PlannedKeeps ==
  ASSUME UnitsKept, LinkTypes, Planned, UNCHANGED <<lazy, at, view>>,
         \A u \in Unit : order'[u] \in {Link!None, order[u]}
  PROVE  UnitsKept' /\ NotMoved
<1>1. claimed \in [Unit -> Place] /\ Link!None \notin Incident
  BY TypesAre DEF LinkTypes, LinkAssumes
<1>2. PICK h \in Link!Hand, i \in Incident, S \in SUBSET Unit :
        /\ S \subseteq Link!Free(i)
        /\ claimed' = [u \in Unit |-> IF u \in S THEN i ELSE claimed[u]]
        /\ Sends(hand'[h], plans') = S
        /\ S # {} => plans'[hand'[h].plan].inc = i
        /\ \A b \in Link!Hand : b # h =>
             /\ hand'[b] = hand[b] /\ Sends(hand[b], plans') = Sends(hand[b], plans)
             /\ Sends(hand[b], plans) # {} => plans'[hand[b].plan].inc = plans[hand[b].plan].inc
  BY Zenon DEF Planned
<1>3. \A u \in S : view.at[u] = Link!None /\ claimed[u] \in {Link!None, i}
  BY <1>2 DEF Link!Free
<1>4. \A u \in Unit \ lazy : order[u] = Link!None \/ claimed[u] = order[u] \/ (at[u] = order[u] /\ view.at[u] = order[u])
  BY Zenon DEF UnitsKept, Placed
<1>5. \A u \in S \ lazy : order[u] \in {Link!None, i}
  BY <1>3, <1>4
<1>6. \A u \in Unit : claimed'[u] = IF u \in S THEN i ELSE claimed[u]
  BY <1>2, Zenon
<1>7. ASSUME NEW b \in Link!Hand, NEW u \in Sends(hand'[b], plans')
      PROVE  /\ claimed'[u] = plans'[hand'[b].plan].inc
             /\ u \notin lazy' => order'[u] \in {Link!None, plans'[hand'[b].plan].inc}
  <2>1. CASE b = h
    <3>1. u \in S /\ plans'[hand'[b].plan].inc = i
      BY <1>2, <1>7, <2>1, Zenon
    <3>2. claimed'[u] = i /\ order'[u] \in {Link!None, order[u]}
      BY <1>6, <3>1
    <3>3. QED
      BY <1>5, <3>1, <3>2
  <2>2. CASE b # h
    <3>1. /\ u \in Sends(hand[b], plans) /\ plans'[hand'[b].plan].inc = plans[hand[b].plan].inc
      BY <1>2, <1>7, <2>2, Zenon
    <3>2. /\ claimed[u] = plans[hand[b].plan].inc
          /\ u \notin lazy => order[u] \in {Link!None, plans[hand[b].plan].inc}
      BY <3>1, Zenon DEF UnitsKept, Owned
    <3>3. u \in Unit /\ plans[hand[b].plan].inc \in Incident
      BY <3>1, SendsAre
    <3>4. claimed'[u] = claimed[u]
      BY <1>1, <1>3, <1>6, <3>2, <3>3
    <3>5. order'[u] \in {Link!None, order[u]}
      BY <3>3
    <3>6. QED
      BY <3>1, <3>2, <3>4, <3>5
  <2>3. QED
    BY <2>1, <2>2
<1>8. ASSUME NEW u \in Unit \ lazy
      PROVE  \/ order'[u] = Link!None \/ claimed'[u] = order'[u]
             \/ (at'[u] = order'[u] /\ view'.at[u] = order'[u])
  <2>1. order'[u] \in {Link!None, order[u]}
    OBVIOUS
  <2>2. CASE u \in S
    BY <1>5, <1>6, <2>1, <2>2
  <2>3. CASE u \notin S
    BY <1>4, <1>6, <2>1, <2>3
  <2>4. QED
    BY <2>2, <2>3
<1>9. (\A b \in Link!Hand : Owned(hand[b], plans, claimed, order))'
  BY <1>7, Zenon DEF Owned
<1>10. Placed(order, at, view.at, claimed)'
  BY <1>8, Zenon DEF Placed
<1>11. QED
  BY <1>9, <1>10 DEF UnitsKept, NotMoved

(* A claim lapses when its unit is seen where it was sent.                  *)
LEMMA ClockKeeps ==
  ASSUME UnitsKept, LinkTypes, Link!Clock
  PROVE  UnitsKept' /\ NotMoved
<1>1. claimed \in [Unit -> Place] /\ UNCHANGED <<order, at, view, lazy, hand, plans>>
  <2>1. UNCHANGED <<order, at, view, lazy, hand, plans>>
    BY DEF Link!Clock, Link!Due, Link!Lapses, Link!swarm, Link!rigid
  <2>2. QED
    BY <2>1, TypesAre, Zenon
<1>2. ASSUME NEW i \in Incident, Link!Due(i) PROVE UnitsKept' /\ NotMoved
  <2>1. claimed' = claimed
    BY <1>2, Zenon DEF Link!Due
  <2>2. QED
    BY <1>1, <2>1, ClockTypes, StillKeeps, Zenon
<1>3. ASSUME NEW v \in Unit, Link!Lapses(v) PROVE UnitsKept' /\ NotMoved
  <2>1. /\ claimed' = [claimed EXCEPT ![v] = Link!None]
        /\ view.at[v] = at[v] /\ (at[v] = order[v] \/ v \in lazy)
        /\ \A h \in Link!Hand : hand[h].pc \in {"record", "apply"} => v \notin plans[hand[h].plan].units
    BY <1>3, Zenon DEF Link!Lapses
  <2>2. \A u \in Unit : u # v => claimed'[u] = claimed[u]
    BY <1>1, <2>1
  <2>3. ASSUME NEW b \in Link!Hand, NEW u \in Sends(hand'[b], plans')
        PROVE  /\ claimed'[u] = plans'[hand'[b].plan].inc
               /\ u \notin lazy' => order'[u] \in {Link!None, plans'[hand'[b].plan].inc}
    <3>1. u \in Sends(hand[b], plans)
      BY <1>1, <2>3, Zenon
    <3>2. /\ claimed[u] = plans[hand[b].plan].inc
          /\ u \notin lazy => order[u] \in {Link!None, plans[hand[b].plan].inc}
      BY <3>1, Zenon DEF UnitsKept, Owned
    <3>3. u \in Unit /\ u \in plans[hand[b].plan].units /\ hand[b].pc \in {"record", "apply"}
      BY <3>1, SendsAre
    <3>4. u # v
      BY <2>1, <3>3
    <3>5. QED
      BY <1>1, <2>2, <3>2, <3>3, <3>4, Zenon
  <2>4. ASSUME NEW u \in Unit \ lazy
        PROVE  \/ order'[u] = Link!None \/ claimed'[u] = order'[u]
               \/ (at'[u] = order'[u] /\ view'.at[u] = order'[u])
    <3>1. order[u] = Link!None \/ claimed[u] = order[u] \/ (at[u] = order[u] /\ view.at[u] = order[u])
      BY Zenon DEF UnitsKept, Placed
    <3>2. QED
      BY <1>1, <2>1, <2>2, <3>1
  <2>5. (\A b \in Link!Hand : Owned(hand[b], plans, claimed, order))'
    BY <2>3, Zenon DEF Owned
  <2>6. Placed(order, at, view.at, claimed)'
    BY <1>1, <2>4, Zenon DEF Placed
  <2>7. QED
    BY <1>1, <2>5, <2>6, Zenon DEF UnitsKept, NotMoved
<1>4. QED
  BY <1>2, <1>3, Zenon DEF Link!Clock

(* One step of the link when neither officers nor approvals are there.      *)
LEMMA UnitsStep ==
  ASSUME LinkTypes, UnitsKept, Alone, [Link!Next]_Link!vars
  PROVE  UnitsKept' /\ NotMoved
<1>1. CASE UNCHANGED Link!vars
  <2>1. UNCHANGED <<order, at, view, lazy, hand, plans, claimed>>
    BY <1>1 DEF Link!vars, Link!rigid, Link!swarm, Link!desk
  <2>2. LessSent
    BY <2>1, Zenon DEF LessSent
  <2>3. QED
    BY <2>1, <2>2, StillKeeps, Zenon
<1>2. ASSUME NEW h \in Link!Hand, Link!Recorded(h) \/ Link!Applied(h)
      PROVE  UnitsKept' /\ NotMoved
  <2>1. UNCHANGED <<order, at, view, lazy, claimed>>
    BY <1>2 DEF Link!Recorded, Link!Applied, Link!rigid, Link!swarm, Link!desk
  <2>2. LessSent
    BY <1>2, RecordedTypes, AppliedTypes, Zenon
  <2>3. QED
    BY <2>1, <2>2, StillKeeps, Zenon
<1>3. CASE Link!TickBegins \/ Link!TickItem \/ Link!TickAsked
  <2>1. UNCHANGED <<order, at, view, lazy, claimed>>
    BY <1>3 DEF Link!TickBegins, Link!TickItem, Link!TickAsked, Link!rigid, Link!swarm, Link!desk
  <2>2. LessSent
    BY <1>3, TickTypes, Zenon
  <2>3. QED
    BY <2>1, <2>2, StillKeeps, Zenon
<1>4. CASE Link!WorkerTakes
  <2>1. UNCHANGED <<order, at, view, lazy>> /\ Planned
    <3>1. UNCHANGED <<order, at, view, lazy>>
      BY <1>4 DEF Link!WorkerTakes, Link!rigid, Link!swarm
    <3>2. QED
      BY <1>4, <3>1, TakesTypes, Zenon
  <2>2. \A u \in Unit : order'[u] \in {Link!None, order[u]}
    BY <2>1
  <2>3. QED
    BY <2>1, <2>2, PlannedKeeps, Zenon
<1>5. CASE Link!TickDrops
  <2>1. UNCHANGED <<view, lazy>>
    BY <1>5 DEF Link!TickDrops, Link!rigid
  <2>2. Planned /\ at' = at /\
        (order' = order \/ \E i \in Incident : \E S :
           order' = [u \in Unit |-> IF u \in S /\ order[u] = i THEN Link!None ELSE order[u]])
    BY <1>5, DropsTypes, Zenon
  <2>3. \A u \in Unit : order'[u] \in {Link!None, order[u]}
    BY <2>2
  <2>4. QED
    BY <2>1, <2>2, <2>3, PlannedKeeps, Zenon
<1>6. ~Link!Officers
  BY DEF Alone, Link!Officers, Link!Approves, Link!Rejects, Link!SendsByHand
<1>7. CASE Link!Swarm \/ Link!Reads \/ Link!Drops \/ Link!Noticed \/ Link!Reconnects
  BY <1>7, SwarmKeeps, Zenon
<1>8. QED
  BY <1>1, <1>2, <1>3, <1>4, <1>5, <1>6, <1>7, SendKeeps, ClockKeeps, Zenon
     DEF Link!Next, Link!Plans, Link!Ticks

LEMMA SceneStays ==
  ASSUME [Link!Next]_Link!vars
  PROVE  situation' = situation
BY DEF Link!Next, Link!Swarm, Link!Comes, Link!DroneComes, Link!Resolved, Link!Reads, Link!Snapshot,
       Link!Report, Link!WorkerTakes, Link!Plans, Link!Recorded, Link!Send, Link!Applied, Link!Ticks,
       Link!TickBegins, Link!TickItem, Link!TickAsked, Link!TickDrops, Link!Officers, Link!Approves,
       Link!Rejects, Link!SendsByHand, Link!Clock, Link!Due, Link!Lapses, Link!Drops, Link!Noticed,
       Link!Reconnects, Link!rigid, Link!vars

(* The types of the link to the drone swarm.                                *)
THEOREM LinkTypeCorrect ==
  ASSUME LinkAssumes
  PROVE  Link!Spec => []Link!TypeOK
<1>1. Link!Init => LinkTypes
  BY InitLinkTypes
<1>2. LinkTypes => Link!TypeOK
  BY DEF LinkTypes, SwarmOK, DeskOK, PlansOK, Place, Link!TypeOK
<1>3. QED
  BY <1>1, <1>2, LinkTypesStep, PTL DEF Link!Spec

(* "claim now so the next incident's plan does not take the same unit"      *)
(* (make_plan): automatic plans, however they overlap, never send a unit    *)
(* the swarm has been told to use at one incident to another one.           *)
THEOREM UnitsNotPoachedSafe ==
  ASSUME LinkAssumes
  PROVE  Link!Spec => Link!UnitsNotPoached
<1> DEFINE UnitsInv == Alone => UnitsKept
<1>1. Link!Init => LinkTypes
  BY InitLinkTypes
<1>2. Link!Init => UnitsInv
  <2> SUFFICES ASSUME Link!Init PROVE UnitsKept
    OBVIOUS
  <2>1. order = [u \in Unit |-> Link!None] /\ hand = [h \in Link!Hand |-> Link!Idle]
    BY DEF Link!Init
  <2>2. \A h \in Link!Hand : Sends(hand[h], plans) = {}
    BY <2>1, IdleOK, Zenon DEF LinkAssumes
  <2>3. \A h \in Link!Hand : Owned(hand[h], plans, claimed, order)
    BY <2>2 DEF Owned
  <2>4. Placed(order, at, view.at, claimed)
    BY <2>1 DEF Placed
  <2>5. QED
    BY <2>3, <2>4 DEF UnitsKept
<1>3. LinkTypes /\ UnitsInv /\ [Link!Next]_Link!vars => UnitsInv'
  BY UnitsStep, SceneStays DEF Alone
<1>4. LinkTypes /\ UnitsInv /\ [Link!Next]_Link!vars =>
        [{"officer", "approvals"} \cap situation = {} =>
           \A u \in Unit \ lazy : order[u] = Link!None \/ order'[u] \in {Link!None, order[u]}]_Link!vars
  <2>1. LinkTypes /\ UnitsInv /\ [Link!Next]_Link!vars => (Alone => NotMoved)
    BY UnitsStep
  <2>2. QED
    BY <2>1 DEF Alone, NotMoved
<1>5. QED
  BY <1>1, <1>2, <1>3, <1>4, LinkTypesStep, PTL DEF Link!Spec, Link!UnitsNotPoached
=============================================================================
