-------------------------- MODULE IngestBusProofs --------------------------
(***************************************************************************)
(* Proofs about IngestBus, for every number of processes, items,           *)
(* submissions and lane capacities, and every fault: what was accepted is  *)
(* kept, and of the submissions of one key one is processed.               *)
(***************************************************************************)
EXTENDS IngestBus, SequenceTheorems, TLAPS

(* The tickets given out, and what each stands for.                         *)
LEMMA SubFacts ==
  ASSUME TypeOK
  PROVE  /\ Len(sub) \in Nat /\ DOMAIN sub = 1..Len(sub)
         /\ DOMAIN sub \subseteq Ticket
         /\ \A n \in DOMAIN sub : sub[n] \in Submission
<1>1. sub \in Seq(Submission) /\ Len(sub) <= MaxSubmits /\ MaxSubmits \in Nat
  BY IngestAssumption DEF TypeOK
<1>2. Len(sub) \in Nat /\ DOMAIN sub = 1..Len(sub)
  BY <1>1, LenProperties
<1>3. \A n \in DOMAIN sub : sub[n] \in Submission
  BY <1>1, <1>2, ElementOfSeq
<1>4. QED
  BY <1>1, <1>2, <1>3 DEF Ticket

----------------------------------------------------------------------------
(* Shapes: what a step may do to the submissions and to their places.       *)

(* Submission n goes on to s; nothing else about the submissions changes.   *)
Updates(n, s) ==
  /\ sub' \in Seq(Submission) /\ Len(sub') = Len(sub) /\ DOMAIN sub' = DOMAIN sub
  /\ \A k \in DOMAIN sub : /\ sub'[k].item = sub[k].item /\ sub'[k].at = sub[k].at
                           /\ sub'[k].st = IF k = n THEN s ELSE sub[k].st

LEMMA Updated ==
  ASSUME TypeOK, NEW n \in DOMAIN sub, NEW s \in Waiting \cup Answered,
         NEW of \in 0..MaxSubmits,
         sub' = [sub EXCEPT ![n] = [item |-> sub[n].item, at |-> sub[n].at, st |-> s, of |-> of]]
  PROVE  Updates(n, s)
<1> DEFINE e == [item |-> sub[n].item, at |-> sub[n].at, st |-> s, of |-> of]
<1>1. n \in 1..Len(sub) /\ sub \in Seq(Submission) /\ sub[n] \in Submission
  BY SubFacts DEF TypeOK
<1>2. e \in Submission
  BY <1>1 DEF Submission
<1>3. e.item = sub[n].item /\ e.at = sub[n].at /\ e.st = s
  OBVIOUS
<1>4. sub' = [sub EXCEPT ![n] = e]
  OBVIOUS
<1> HIDE DEF e
<1>5. sub' \in Seq(Submission) /\ Len(sub') = Len(sub)
  BY <1>1, <1>2, <1>4, ExceptSeq
<1>6. DOMAIN sub' = DOMAIN sub
  BY <1>4
<1>7. \A k \in DOMAIN sub : sub'[k] = IF k = n THEN e ELSE sub[k]
  BY <1>4
<1>8. QED
  BY <1>3, <1>5, <1>6, <1>7 DEF Updates

LEMMA AnswerUpdates ==
  ASSUME TypeOK, NEW n \in DOMAIN sub, NEW s \in Waiting \cup Answered, sub' = Answer(n, s)
  PROVE  Updates(n, s)
<1> DEFINE e == [item |-> sub[n].item, at |-> sub[n].at, st |-> s, of |-> sub[n].of]
<1>1. sub[n] \in Submission
  BY SubFacts
<1>2. [sub[n] EXCEPT !.st = s] = e /\ sub[n].of \in 0..MaxSubmits
  BY <1>1 DEF Submission
<1>3. sub' = [sub EXCEPT ![n] = [sub[n] EXCEPT !.st = s]]
  BY DEF Answer
<1>4. sub' = [sub EXCEPT ![n] = e]
  BY <1>2, <1>3
<1>5. QED
  BY <1>2, <1>4, Updated

(* The states a request passes through, and what each change of state does  *)
(* to the keys, the queues and the streams.                                 *)
Follows(a, s) ==
  \/ a = "claim" /\ s \in {"depth", "accepted", "inline", "shed", "duplicate"}
  \/ a = "depth" /\ s \in {"shed", "accepted", "inline", "add"}
  \/ a = "add" /\ s \in {"mark", "accepted", "inline", "shed"}
  \/ a = "mark" /\ s = "streamed"
  \/ a = "inline" /\ s = "written"

Places(n, s) ==
  /\ queue' = IF s = "accepted" THEN [queue EXCEPT ![sub[n].at] = @ \cup {n}] ELSE queue
  /\ \/ s = "mark" /\ stream' = stream \cup {n} /\ unread' = unread \cup {n}
     \/ s # "mark" /\ stream' = stream /\ unread' = unread
     \/ /\ s # "mark" /\ sub[n].st = "add" /\ trouble'
        /\ stream' = stream \cup {n} /\ unread' = unread \cup {n}
  /\ runs' = IF s = "written" THEN [runs EXCEPT ![n] = @ + 1] ELSE runs
  /\ shown' \in [Ticket -> Shown]

Claims(n, s) ==
  LET i == sub[n].item  r == sub[n].at IN
  /\ \/ idem' = idem /\ idemShared' = idemShared
     \/ /\ sub[n].st = "claim" /\ s # "duplicate"
        /\ idem' = [idem EXCEPT ![r][i] = n]
        /\ idemShared' \in {idemShared, [idemShared EXCEPT ![i] = n]}
  /\ sub[n].st = "claim" /\ s # "duplicate" /\ ~trouble' =>
       idemShared[i] = 0 /\ idemShared' = [idemShared EXCEPT ![i] = n]

Fails(n, s) ==
  /\ errors' \in 0..MaxErrors /\ trouble' \in BOOLEAN /\ (trouble => trouble')
  /\ \/ away' = away
     \/ away' = [away EXCEPT ![sub[n].at] = TRUE] /\ trouble'
  /\ s = "written" => trouble' = trouble

RequestStep(n, s) ==
  /\ s \in Waiting \cup Answered /\ Follows(sub[n].st, s)
  /\ Updates(n, s) /\ Places(n, s) /\ Claims(n, s) /\ Fails(n, s)
  /\ UNCHANGED <<setting, life, pending, hand>>

LEMMA CallShape ==
  ASSUME TypeOK, NEW r \in Replica, CallWorks \/ CallFails(r)
  PROVE  /\ errors' \in 0..MaxErrors /\ trouble' \in BOOLEAN /\ (trouble => trouble')
         /\ \/ away' = away /\ trouble' = trouble
            \/ away' = [away EXCEPT ![r] = TRUE] /\ trouble'
<1>1. errors \in 0..MaxErrors /\ MaxErrors \in Nat /\ trouble \in BOOLEAN
  BY IngestAssumption DEF TypeOK
<1>2. CASE CallWorks
  BY <1>1, <1>2 DEF CallWorks
<1>3. CASE CallFails(r)
  <2>1. errors' \in 0..MaxErrors
    BY <1>1, <1>3 DEF CallFails
  <2>2. trouble' = TRUE /\ away' = [away EXCEPT ![r] = TRUE]
    BY <1>3 DEF CallFails
  <2>3. QED
    BY <2>1, <2>2, Zenon
<1>4. QED
  BY <1>2, <1>3

(* A request that falls back to the process-local queue: queued, written    *)
(* through, or shed.                                                        *)
LEMMA QueueShape ==
  ASSUME TypeOK, NEW n \in Ticket, NEW r \in Replica, NEW l \in Lane, ToQueue(n, r, l)
  PROVE  /\ Verdict(r, l) \in {"accepted", "inline", "shed"}
         /\ queue' = IF Verdict(r, l) = "accepted"
                     THEN [queue EXCEPT ![r] = @ \cup {n}] ELSE queue
         /\ shown' \in [Ticket -> Shown]
<1>1. shown \in [Ticket -> Shown] /\ "queued" \in Shown
  BY DEF TypeOK, Shown
<1>2. QED
  BY <1>1 DEF ToQueue, Verdict

LEMMA RequestShape ==
  ASSUME TypeOK, NEW n \in DOMAIN sub, Request(n)
  PROVE  \E s \in Waiting \cup Answered : RequestStep(n, s)
<1> DEFINE r == sub[n].at
           i == sub[n].item
           l == LaneAt(n)
<1> USE DEF setting, keys, queues, Waiting, Answered
<1>1. sub[n] \in Submission /\ n \in Ticket
  BY SubFacts
<1>2. r \in Replica /\ i \in Item
  BY <1>1 DEF Submission
<1>3. l \in Lane
  BY <1>2, IngestAssumption DEF LaneAt
<1>4. shown \in [Ticket -> Shown] /\ {"queued", "done"} \subseteq Shown
  BY DEF TypeOK, Shown
<1>5. [shown EXCEPT ![n] = "queued"] \in [Ticket -> Shown]
      /\ [shown EXCEPT ![n] = "done"] \in [Ticket -> Shown]
  BY <1>1, <1>4
<1>6. CASE Claim(n)
  <2>1. sub[n].st = "claim" /\ UNCHANGED <<setting, life, stream, unread, pending, hand, runs>>
    BY <1>6 DEF Claim
  <2>2. CASE /\ Unclaimed(i) /\ CallWorks
             /\ idemShared' = [idemShared EXCEPT ![i] = n]
             /\ idem' = [idem EXCEPT ![r][i] = n]
             /\ (IF away[r] THEN Fallback(n)
                 ELSE sub' = Answer(n, "depth") /\ UNCHANGED <<queue, shown>>)
    <3>1. Fails(n, "depth") /\ \A s : s # "written" => Fails(n, s)
      BY <2>2, CallShape, <1>2 DEF Fails
    <3>2. \A s : s # "duplicate" => Claims(n, s)
      BY <2>1, <2>2 DEF Claims, Unclaimed
    <3>3. CASE away[r]
      <4>1. ToQueue(n, r, l) /\ sub' = Answer(n, Verdict(r, l))
        BY <2>2, <3>3 DEF Fallback
      <4>2. Verdict(r, l) \in {"accepted", "inline", "shed"}
        BY <4>1, <1>1, <1>2, <1>3, QueueShape
      <4>3. Updates(n, Verdict(r, l))
        BY <4>1, <4>2, AnswerUpdates
      <4>4. Places(n, Verdict(r, l))
        BY <2>1, <4>1, <4>2, <1>1, <1>2, <1>3, QueueShape DEF Places
      <4>5. QED
        BY <2>1, <3>1, <3>2, <4>2, <4>3, <4>4 DEF RequestStep, Follows
    <3>4. CASE ~away[r]
      <4>1. Updates(n, "depth")
        BY <2>2, <3>4, AnswerUpdates
      <4>2. Places(n, "depth")
        BY <2>1, <2>2, <3>4, <1>4 DEF Places
      <4>3. QED
        BY <2>1, <3>1, <3>2, <4>1, <4>2 DEF RequestStep, Follows
    <3>5. QED
      BY <3>3, <3>4
  <2>3. CASE /\ ~Unclaimed(i) /\ CallWorks
             /\ sub' = [sub EXCEPT ![n] = [item |-> i, at |-> r, st |-> "duplicate", of |-> idemShared[i]]]
             /\ UNCHANGED <<keys, queue, shown>>
    <3> DEFINE e == [item |-> i, at |-> r, st |-> "duplicate", of |-> idemShared[i]]
    <3>1. idemShared[i] \in 0..MaxSubmits
      BY <1>2 DEF TypeOK
    <3>2. sub' = [sub EXCEPT ![n] = e]
      BY <2>3
    <3>3. Updates(n, "duplicate")
      BY <3>1, <3>2, Updated
    <3>4. Places(n, "duplicate") /\ Claims(n, "duplicate")
      BY <2>1, <2>3, <1>4 DEF Places, Claims
    <3>5. Fails(n, "duplicate")
      BY <2>3, CallShape, <1>2 DEF Fails
    <3>6. QED
      BY <2>1, <3>3, <3>4, <3>5 DEF RequestStep, Follows
  <2>4. CASE /\ CallFails(r)
             /\ idemShared' \in {idemShared, [idemShared EXCEPT ![i] = IF @ = 0 THEN n ELSE @]}
             /\ idem' = [idem EXCEPT ![r][i] = n]
             /\ Fallback(n)
    <3>1. ToQueue(n, r, l) /\ sub' = Answer(n, Verdict(r, l))
      BY <2>4 DEF Fallback
    <3>2. Verdict(r, l) \in {"accepted", "inline", "shed"}
      BY <3>1, <1>1, <1>2, <1>3, QueueShape
    <3>3. Updates(n, Verdict(r, l))
      BY <3>1, <3>2, AnswerUpdates
    <3>4. Places(n, Verdict(r, l))
      BY <2>1, <3>1, <3>2, <1>1, <1>2, <1>3, QueueShape DEF Places
    <3>5. Fails(n, Verdict(r, l)) /\ trouble'
      BY <2>4, <3>2, CallShape, <1>2 DEF Fails, CallFails
    <3>6. idemShared' \in {idemShared, [idemShared EXCEPT ![i] = n]}
      <4>1. idemShared \in [Item -> 0..MaxSubmits]
        BY DEF TypeOK
      <4>2. CASE idemShared[i] = 0
        BY <2>4, <4>1, <4>2, <1>2
      <4>3. CASE idemShared[i] # 0
        <5>1. [idemShared EXCEPT ![i] = IF @ = 0 THEN n ELSE @] = idemShared
          BY <4>1, <4>3, <1>2
        <5>2. QED
          BY <2>4, <5>1
      <4>4. QED
        BY <4>2, <4>3
    <3>7. Claims(n, Verdict(r, l))
      BY <2>1, <2>4, <3>2, <3>5, <3>6 DEF Claims
    <3>8. QED
      BY <2>1, <3>2, <3>3, <3>4, <3>5, <3>7 DEF RequestStep, Follows
  <2>5. QED
    BY <1>6, <2>2, <2>3, <2>4 DEF Claim
<1>7. CASE Depth(n)
  <2>1. sub[n].st = "depth" /\ UNCHANGED <<setting, life, keys, stream, unread, pending, hand, runs>>
    BY <1>7 DEF Depth
  <2>2. \A s : Claims(n, s)
    BY <2>1 DEF Claims
  <2>3. CallWorks \/ CallFails(r)
    BY <1>7 DEF Depth
  <2>4. \A s : s # "written" => Fails(n, s)
    BY <2>3, CallShape, <1>2 DEF Fails
  <2>5. CASE \E s \in {"shed", "add"} : sub' = Answer(n, s) /\ UNCHANGED <<queue, shown>>
    <3>1. PICK s \in {"shed", "add"} : sub' = Answer(n, s) /\ UNCHANGED <<queue, shown>>
      BY <2>5
    <3>2. Updates(n, s) /\ Places(n, s)
      BY <2>1, <3>1, <1>4, AnswerUpdates DEF Places
    <3>3. QED
      BY <2>1, <2>2, <2>4, <3>1, <3>2 DEF RequestStep, Follows
  <2>6. CASE ToQueue(n, r, l) /\ sub' = Answer(n, Verdict(r, l))
    <3>1. Verdict(r, l) \in {"accepted", "inline", "shed"}
      BY <2>6, <1>1, <1>2, <1>3, QueueShape
    <3>2. Updates(n, Verdict(r, l))
      BY <2>6, <3>1, AnswerUpdates
    <3>3. Places(n, Verdict(r, l))
      BY <2>1, <2>6, <3>1, <1>1, <1>2, <1>3, QueueShape DEF Places
    <3>4. QED
      BY <2>1, <2>2, <2>4, <3>1, <3>2, <3>3 DEF RequestStep, Follows
  <2>7. QED
    BY <1>7, <2>5, <2>6 DEF Depth, Fallback
<1>8. CASE Add(n)
  <2>1. sub[n].st = "add" /\ UNCHANGED <<setting, life, keys, pending, hand, runs>>
    BY <1>8 DEF Add
  <2>2. \A s : Claims(n, s)
    BY <2>1 DEF Claims
  <2>3. CASE /\ stream' = stream \cup {n} /\ unread' = unread \cup {n} /\ CallWorks
             /\ sub' = Answer(n, "mark") /\ UNCHANGED <<queue, shown>>
    <3>1. Updates(n, "mark") /\ Places(n, "mark")
      BY <2>1, <2>3, <1>4, AnswerUpdates DEF Places
    <3>2. Fails(n, "mark")
      BY <2>3, CallShape, <1>2 DEF Fails
    <3>3. QED
      BY <2>1, <2>2, <3>1, <3>2 DEF RequestStep, Follows
  <2>4. CASE /\ \/ stream' = stream \cup {n} /\ unread' = unread \cup {n}
                \/ UNCHANGED <<stream, unread>>
             /\ CallFails(r) /\ Fallback(n)
    <3>1. ToQueue(n, r, l) /\ sub' = Answer(n, Verdict(r, l))
      BY <2>4 DEF Fallback
    <3>2. Verdict(r, l) \in {"accepted", "inline", "shed"}
      BY <3>1, <1>1, <1>2, <1>3, QueueShape
    <3>3. Updates(n, Verdict(r, l))
      BY <3>1, <3>2, AnswerUpdates
    <3>4. Fails(n, Verdict(r, l)) /\ trouble'
      BY <2>4, <3>2, CallShape, <1>2 DEF Fails, CallFails
    <3>5. Places(n, Verdict(r, l))
      BY <2>1, <2>4, <3>1, <3>2, <3>4, <1>1, <1>2, <1>3, QueueShape DEF Places
    <3>6. QED
      BY <2>1, <2>2, <3>2, <3>3, <3>4, <3>5 DEF RequestStep, Follows
  <2>5. QED
    BY <1>8, <2>3, <2>4 DEF Add
<1>9. CASE Mark(n)
  <2>1. /\ sub[n].st = "mark" /\ sub' = Answer(n, "streamed")
        /\ shown' = [shown EXCEPT ![n] = "queued"]
        /\ UNCHANGED <<setting, life, keys, queues, runs>>
        /\ CallWorks \/ CallFails(r)
    BY <1>9 DEF Mark
  <2>2. Updates(n, "streamed") /\ Places(n, "streamed") /\ Claims(n, "streamed")
    BY <2>1, <1>5, AnswerUpdates DEF Places, Claims
  <2>3. Fails(n, "streamed")
    BY <2>1, CallShape, <1>2 DEF Fails
  <2>4. QED
    BY <2>1, <2>2, <2>3 DEF RequestStep, Follows
<1>10. CASE Inline(n)
  <2>1. /\ sub[n].st = "inline" /\ sub' = Answer(n, "written")
        /\ shown' = [shown EXCEPT ![n] = "done"]
        /\ runs' = [runs EXCEPT ![n] = @ + 1]
        /\ UNCHANGED <<setting, life, away, errors, keys, queues, trouble>>
    BY <1>10 DEF Inline
  <2>2. Updates(n, "written") /\ Places(n, "written") /\ Claims(n, "written")
    BY <2>1, <1>5, AnswerUpdates DEF Places, Claims
  <2>3. Fails(n, "written")
    BY <2>1 DEF Fails, TypeOK
  <2>4. QED
    BY <2>1, <2>2, <2>3 DEF RequestStep, Follows
<1>11. QED
  BY <1>6, <1>7, <1>8, <1>9, <1>10 DEF Request

(* A new submission of item i at process r, answered s or waiting in s.     *)
Arrives(r, i, s) ==
  LET n == Len(sub) + 1 IN
  /\ r \in Door /\ life[r] = "up" /\ n \in Ticket
  /\ sub' \in Seq(Submission) /\ Len(sub') = n /\ DOMAIN sub' = DOMAIN sub \cup {n}
  /\ \A k \in DOMAIN sub : sub'[k] = sub[k]
  /\ sub'[n].item = i /\ sub'[n].at = r /\ sub'[n].st = s
  /\ queue' = IF s = "accepted" THEN [queue EXCEPT ![r] = @ \cup {n}] ELSE queue
  /\ shown' \in [Ticket -> Shown]
  /\ \/ s = "duplicate" /\ idem[r][i] # 0 /\ idem' = idem
     \/ s = "claim" /\ idem[r][i] = 0 /\ Reach(r) /\ idem' = idem
     \/ /\ s \in {"accepted", "inline", "shed"} /\ idem[r][i] = 0 /\ ~Reach(r)
        /\ idem' = [idem EXCEPT ![r][i] = n]
  /\ UNCHANGED <<setting, life, away, errors, idemShared, stream, unread, pending,
                 hand, runs, trouble>>

LEMMA SubmitShape ==
  ASSUME TypeOK, NEW r \in Replica, NEW i \in Item, Submit(r, i)
  PROVE  \E s : Arrives(r, i, s)
<1> DEFINE n == Len(sub) + 1
<1>1. /\ r \in Door /\ life[r] = "up" /\ n <= MaxSubmits
      /\ UNCHANGED <<setting, life, away, errors, idemShared, stream, unread, pending,
                     hand, runs, trouble>>
  BY DEF Submit
<1>2. n \in Ticket /\ MaxSubmits \in Nat /\ Len(sub) \in Nat /\ DOMAIN sub = 1..Len(sub)
  BY <1>1, SubFacts, IngestAssumption DEF Ticket
<1>3. LaneOf[i] \in Lane
  BY IngestAssumption
<1>4. ASSUME NEW s \in Waiting \cup Answered, NEW of \in 0..MaxSubmits,
             sub' = Arrive(i, r, s, of)
      PROVE  /\ sub' \in Seq(Submission) /\ Len(sub') = n /\ DOMAIN sub' = DOMAIN sub \cup {n}
             /\ \A k \in DOMAIN sub : sub'[k] = sub[k]
             /\ sub'[n].item = i /\ sub'[n].at = r /\ sub'[n].st = s
  <2> DEFINE e == [item |-> i, at |-> r, st |-> s, of |-> of]
  <2>1. e \in Submission /\ e.item = i /\ e.at = r /\ e.st = s
    BY DEF Submission
  <2>2. sub' = Append(sub, e) /\ sub \in Seq(Submission)
    BY <1>4 DEF Arrive, TypeOK
  <2> HIDE DEF e
  <2>3. /\ sub' \in Seq(Submission) /\ Len(sub') = Len(sub) + 1
        /\ \A k \in 1..Len(sub) : sub'[k] = sub[k]
        /\ sub'[Len(sub) + 1] = e
    BY <2>1, <2>2, AppendProperties
  <2>4. DOMAIN sub' = 1..(Len(sub) + 1)
    BY <2>3, LenProperties
  <2>5. QED
    BY <1>2, <2>1, <2>3, <2>4
<1>5. CASE /\ idem[r][i] # 0
           /\ sub' = Arrive(i, r, "duplicate", idem[r][i])
           /\ UNCHANGED <<idem, queue, shown>>
  <2>1. idem[r][i] \in 0..MaxSubmits /\ shown \in [Ticket -> Shown]
    BY DEF TypeOK
  <2>2. Arrives(r, i, "duplicate")
    BY <1>1, <1>2, <1>4, <1>5, <2>1 DEF Arrives, Answered
  <2>3. QED
    BY <2>2
<1>6. CASE /\ idem[r][i] = 0 /\ ~Reach(r)
           /\ idem' = [idem EXCEPT ![r][i] = n]
           /\ ToQueue(n, r, LaneOf[i])
           /\ sub' = Arrive(i, r, Verdict(r, LaneOf[i]), n)
  <2> DEFINE v == Verdict(r, LaneOf[i])
  <2>1. /\ v \in {"accepted", "inline", "shed"}
        /\ queue' = IF v = "accepted" THEN [queue EXCEPT ![r] = @ \cup {n}] ELSE queue
        /\ shown' \in [Ticket -> Shown]
    BY <1>2, <1>3, <1>6, QueueShape
  <2>2. n \in 0..MaxSubmits /\ v \in Waiting \cup Answered
    BY <1>2, <2>1 DEF Ticket, Waiting, Answered
  <2>3. sub' = Arrive(i, r, v, n)
    BY <1>6
  <2> HIDE DEF v
  <2>4. Arrives(r, i, v)
    BY <1>1, <1>2, <1>4, <1>6, <2>1, <2>2, <2>3 DEF Arrives
  <2>5. QED
    BY <2>4
<1>7. CASE /\ idem[r][i] = 0 /\ Reach(r)
           /\ sub' = Arrive(i, r, "claim", n)
           /\ UNCHANGED <<idem, queue, shown>>
  <2>1. n \in 0..MaxSubmits /\ shown \in [Ticket -> Shown]
    BY <1>2 DEF Ticket, TypeOK
  <2>2. Arrives(r, i, "claim")
    BY <1>1, <1>2, <1>4, <1>7, <2>1 DEF Arrives, Waiting
  <2>3. QED
    BY <2>2
<1>8. QED
  BY <1>5, <1>6, <1>7 DEF Submit

(* The requests a process was serving when it ended are gone.               *)
LEMMA EndsShape ==
  ASSUME TypeOK, NEW r \in Replica, Ends(r)
  PROVE  /\ sub' \in Seq(Submission) /\ Len(sub') = Len(sub) /\ DOMAIN sub' = DOMAIN sub
         /\ \A n \in DOMAIN sub : /\ sub'[n].item = sub[n].item /\ sub'[n].at = sub[n].at
                                  /\ sub'[n].st = IF sub[n].at = r /\ sub[n].st \in Waiting
                                                  THEN "gone" ELSE sub[n].st
<1> DEFINE g(n) == IF sub[n].at = r /\ sub[n].st \in Waiting
                   THEN [sub[n] EXCEPT !.st = "gone"] ELSE sub[n]
<1>1. sub' = [n \in 1..Len(sub) |-> g(n)] /\ Len(sub) \in Nat
  BY SubFacts DEF Ends
<1>2. ASSUME NEW n \in 1..Len(sub)
      PROVE  /\ g(n) \in Submission /\ g(n).item = sub[n].item /\ g(n).at = sub[n].at
             /\ g(n).st = IF sub[n].at = r /\ sub[n].st \in Waiting THEN "gone" ELSE sub[n].st
  <2>1. sub[n] \in Submission
    BY SubFacts
  <2>2. QED
    BY <2>1 DEF Submission
<1>3. \A n \in 1..Len(sub) : sub'[n] = g(n)
  BY <1>1
<1> HIDE DEF g
<1>4. sub' \in [1..Len(sub) -> Submission]
  BY <1>1, <1>2
<1>5. sub' \in Seq(Submission) /\ Len(sub') = Len(sub)
  BY <1>1, <1>4, SeqDef, LenProperties
<1>6. QED
  BY <1>1, <1>2, <1>3, <1>5, SubFacts

----------------------------------------------------------------------------
(* Type correctness.                                                        *)

(* An idle hand, and one that holds known tickets.                          *)
HandOK(h) == h \in HandType /\ h.items \cup h.done \subseteq DOMAIN sub

LEMMA DrainsType ==
  ASSUME NEW Q, NEW room, NEW T \in Drains(Q, room)
  PROVE  T \subseteq Q
BY DEF Drains

(* An entry of _idem.                                                       *)
LEMMA IdemSet ==
  ASSUME TypeOK, NEW r \in Replica, NEW i \in Item, NEW n \in 0..MaxSubmits,
         idem' = [idem EXCEPT ![r][i] = n]
  PROVE  /\ idem' \in [Replica -> [Item -> 0..MaxSubmits]]
         /\ \A q \in Replica, j \in Item :
              idem'[q][j] = IF q = r /\ j = i THEN n ELSE idem[q][j]
<1> DEFINE row == [idem[r] EXCEPT ![i] = n]
<1>1. idem \in [Replica -> [Item -> 0..MaxSubmits]]
  BY DEF TypeOK
<1>2. row \in [Item -> 0..MaxSubmits] /\ \A j \in Item : row[j] = IF j = i THEN n ELSE idem[r][j]
  BY <1>1
<1>3. idem' = [idem EXCEPT ![r] = row]
  OBVIOUS
<1> HIDE DEF row
<1>4. QED
  BY <1>1, <1>2, <1>3

LEMMA InitType == Init => TypeOK
<1> SUFFICES ASSUME Init PROVE TypeOK
  OBVIOUS
<1>1. sub \in Seq(Submission) /\ Len(sub) = 0 /\ DOMAIN sub = {}
  BY EmptySeq DEF Init
<1>2. 0 \in 0..MaxSubmits /\ 0 \in 0..MaxErrors
  BY IngestAssumption
<1>3. Idle \in HandType /\ Idle.items = {} /\ Idle.done = {}
  BY DEF Idle, HandType
<1>4. hand \in [Worker -> HandType] /\ \A w \in Worker : hand[w].items \cup hand[w].done = {}
  BY <1>3 DEF Init
<1>5. /\ idem \in [Replica -> [Item -> 0..MaxSubmits]]
      /\ idemShared \in [Item -> 0..MaxSubmits]
      /\ shown \in [Ticket -> Shown] /\ runs \in [Ticket -> Nat]
  BY <1>2 DEF Init, Shown
<1>6. /\ backend \in Backends /\ fault \in Scenarios
      /\ life \in [Replica -> {"up", "draining", "down"}]
      /\ away \in [Replica -> BOOLEAN] /\ errors \in 0..MaxErrors /\ trouble \in BOOLEAN
  BY <1>2 DEF Init
<1>7. /\ queue \in [Replica -> SUBSET DOMAIN sub]
      /\ stream \subseteq DOMAIN sub /\ unread \subseteq stream /\ pending \subseteq stream
  BY <1>1 DEF Init
<1>8. Len(sub) <= MaxSubmits /\ \A w \in Worker : hand[w].items \cup hand[w].done \subseteq DOMAIN sub
  BY <1>1, <1>4, IngestAssumption
<1>9. QED
  BY <1>1, <1>4, <1>5, <1>6, <1>7, <1>8 DEF TypeOK

LEMMA RequestType ==
  ASSUME TypeOK, NEW n \in DOMAIN sub, NEW s, RequestStep(n, s)
  PROVE  TypeOK'
<1> USE DEF setting
<1>1. sub[n] \in Submission /\ n \in Ticket /\ DOMAIN sub \subseteq Ticket
  BY SubFacts
<1>2. sub[n].at \in Replica /\ sub[n].item \in Item /\ n \in 0..MaxSubmits
  BY <1>1, IngestAssumption DEF Submission, Ticket
<1>3. sub' \in Seq(Submission) /\ Len(sub') <= MaxSubmits /\ DOMAIN sub' = DOMAIN sub
  BY DEF RequestStep, Updates, TypeOK
<1>4. away' \in [Replica -> BOOLEAN] /\ errors' \in 0..MaxErrors /\ trouble' \in BOOLEAN
  BY <1>2 DEF RequestStep, Fails, TypeOK
<1>5. idem' \in [Replica -> [Item -> 0..MaxSubmits]] /\ idemShared' \in [Item -> 0..MaxSubmits]
  <2>1. CASE idem' = idem /\ idemShared' = idemShared
    BY <2>1 DEF TypeOK
  <2>2. CASE /\ idem' = [idem EXCEPT ![sub[n].at][sub[n].item] = n]
             /\ idemShared' \in {idemShared, [idemShared EXCEPT ![sub[n].item] = n]}
    <3>1. idemShared' \in [Item -> 0..MaxSubmits]
      BY <1>2, <2>2 DEF TypeOK
    <3>2. QED
      BY <1>2, <2>2, <3>1, IdemSet
  <2>3. QED
    BY <2>1, <2>2 DEF RequestStep, Claims
<1>6. queue' \in [Replica -> SUBSET DOMAIN sub]
  BY <1>2 DEF RequestStep, Places, TypeOK
<1>7. stream' \subseteq DOMAIN sub /\ unread' \subseteq stream' /\ pending' \subseteq stream'
  BY DEF RequestStep, Places, TypeOK
<1>8. runs' \in [Ticket -> Nat] /\ shown' \in [Ticket -> Shown]
  BY <1>1 DEF RequestStep, Places, TypeOK
<1>9. QED
  BY <1>3, <1>4, <1>5, <1>6, <1>7, <1>8 DEF RequestStep, TypeOK

LEMMA SubmitType ==
  ASSUME TypeOK, NEW r \in Replica, NEW i \in Item, NEW s, Arrives(r, i, s)
  PROVE  TypeOK'
<1> USE DEF setting
<1> DEFINE n == Len(sub) + 1
<1>1. /\ sub' \in Seq(Submission) /\ Len(sub') = n /\ DOMAIN sub' = DOMAIN sub \cup {n}
      /\ n \in Ticket /\ n <= MaxSubmits /\ n \in 0..MaxSubmits
  BY SubFacts, IngestAssumption DEF Arrives, Ticket
<1>2. queue' \in [Replica -> SUBSET DOMAIN sub']
  BY <1>1 DEF Arrives, TypeOK
<1>3. idem' \in [Replica -> [Item -> 0..MaxSubmits]]
  <2>1. CASE idem' = idem
    BY <2>1 DEF TypeOK
  <2>2. CASE idem' = [idem EXCEPT ![r][i] = n]
    BY <1>1, <2>2, IdemSet
  <2>3. QED
    BY <2>1, <2>2 DEF Arrives
<1>4. shown' \in [Ticket -> Shown]
  BY DEF Arrives
<1>5. UNCHANGED <<backend, fault, life, away, errors, idemShared, stream, unread, pending,
                  hand, runs, trouble>>
  BY DEF Arrives
<1> HIDE DEF n
<1>6. QED
  BY <1>1, <1>2, <1>3, <1>4, <1>5 DEF TypeOK

(* What a worker holds: a record of the right shape, of known tickets.      *)
LEMMA HandType1 ==
  ASSUME TypeOK, NEW w \in Worker, NEW h, HandOK(h), hand' = [hand EXCEPT ![w] = h],
         sub' = sub
  PROVE  /\ hand' \in [Worker -> HandType]
         /\ \A v \in Worker : hand'[v].items \cup hand'[v].done \subseteq DOMAIN sub'
BY DEF TypeOK, HandOK

LEMMA HandIs ==
  ASSUME TypeOK, NEW w \in Worker
  PROVE  /\ HandOK(hand[w])
         /\ hand[w] = [phase |-> hand[w].phase, items |-> hand[w].items, done |-> hand[w].done]
<1>1. hand[w] \in HandType /\ hand[w].items \cup hand[w].done \subseteq DOMAIN sub
  BY DEF TypeOK
<1>2. QED
  BY <1>1 DEF HandOK, HandType

(* Which batch each step leaves in the hands of the worker that takes it.   *)
NewHand(w, p, I, D) == hand' = [hand EXCEPT ![w] = [phase |-> p, items |-> I, done |-> D]]

LEMMA NewHandOK ==
  ASSUME TypeOK, NEW p \in {"idle", "flush", "process", "ack"},
         NEW I \in SUBSET DOMAIN sub, NEW D \in SUBSET DOMAIN sub
  PROVE  HandOK([phase |-> p, items |-> I, done |-> D])
BY SubFacts DEF HandOK, HandType

LEMMA LocalShape ==
  ASSUME TypeOK, NEW r \in Replica, Drain(r) \/ TopUp(r)
  PROVE  LET w == <<r, "local">> IN
         /\ w \in Worker /\ Alive(r)
         /\ \E T \in SUBSET queue[r], p \in {"flush", "process"} :
              /\ queue' = [queue EXCEPT ![r] = @ \ T]
              /\ \/ hand[w].phase = "idle" /\ NewHand(w, p, T, {})
                 \/ NewHand(w, p, hand[w].items \cup T, {})
         /\ UNCHANGED <<setting, life, away, errors, sub, keys, stream, unread, pending,
                        shown, runs, trouble>>
<1> DEFINE w == <<r, "local">>
<1>1. w \in Worker
  BY DEF Worker
<1>2. CASE Drain(r)
  <2>1. PICK T \in Drains(queue[r], BatchSize) :
          /\ queue' = [queue EXCEPT ![r] = @ \ T]
          /\ hand' = [hand EXCEPT ![w] =
               [phase |-> IF Cardinality(T) < BatchSize THEN "flush" ELSE "process",
                items |-> T, done |-> {}]]
    BY <1>2 DEF Drain
  <2>2. T \subseteq queue[r]
    BY DrainsType
  <2>3. \E p \in {"flush", "process"} : NewHand(w, p, T, {})
    BY <2>1 DEF NewHand
  <2>4. QED
    BY <1>1, <1>2, <2>1, <2>2, <2>3 DEF Drain
<1>3. CASE TopUp(r)
  <2>1. PICK T \in Drains(queue[r], BatchSize - Cardinality(hand[w].items)) :
          /\ queue' = [queue EXCEPT ![r] = @ \ T]
          /\ hand' = [hand EXCEPT ![w] = [phase |-> "process", items |-> hand[w].items \cup T,
                                          done |-> {}]]
    BY <1>3 DEF TopUp
  <2>2. T \subseteq queue[r]
    BY DrainsType
  <2>3. NewHand(w, "process", hand[w].items \cup T, {})
    BY <2>1 DEF NewHand
  <2>4. QED
    BY <1>1, <1>3, <2>1, <2>2, <2>3 DEF TopUp
<1>4. QED
  BY <1>2, <1>3

(* One kind of a batch is handled: its items are counted once more, and     *)
(* leave the worker's items for what it is done with.                       *)
Handles(w, group) ==
  /\ Alive(Home(w)) /\ group # {} /\ group \subseteq hand[w].items
  /\ runs' = [n \in Ticket |-> IF n \in group THEN runs[n] + 1 ELSE runs[n]]
  /\ shown' \in [Ticket -> Shown]
  /\ errors' \in 0..MaxErrors /\ trouble' \in BOOLEAN /\ (trouble => trouble')
  /\ \/ away' = away /\ trouble' = trouble
     \/ away' = [away EXCEPT ![Home(w)] = TRUE] /\ trouble' /\ backend = "redis"
  /\ \/ w[2] = "local" /\ hand[w].items = group /\ NewHand(w, "idle", {}, {})
     \/ \E p \in {"process", "ack"} : NewHand(w, p, hand[w].items \ group, hand[w].done \cup group)
  /\ UNCHANGED <<setting, life, sub, keys, queue, stream, unread, pending>>

LEMMA ProcessShape ==
  ASSUME TypeOK, NEW w \in Worker, Process(w)
  PROVE  \E group : Handles(w, group)
<1> DEFINE r == Home(w)
<1>1. r \in Replica
  BY DEF Home, Worker
<1>2. PICK l \in Lane :
        LET group == InLane(hand[w].items, l)
            left == hand[w].items \ group IN
        /\ group # {}
        /\ runs' = [n \in Ticket |-> IF n \in group THEN runs[n] + 1 ELSE runs[n]]
        /\ \E status \in {"done"} \cup IF "batch_error" \in fault /\ l # "critical"
                                      THEN {"failed"} ELSE {} :
             SetTickets(r, group, status)
        /\ CallWorks \/ (Reach(r) /\ CallFails(r))
        /\ hand' = [hand EXCEPT ![w] =
             IF left = {} /\ w[2] = "local" THEN Idle
             ELSE [phase |-> IF left = {} THEN "ack" ELSE "process",
                   items |-> left, done |-> hand[w].done \cup group]]
  BY DEF Process
<1> DEFINE group == InLane(hand[w].items, l)
           left == hand[w].items \ group
<1>3. Alive(r) /\ UNCHANGED <<setting, life, sub, keys, queue, stream, unread, pending>>
  BY DEF Process
<1>4. group \subseteq hand[w].items
  BY DEF InLane
<1>5. shown' \in [Ticket -> Shown]
  <2>1. PICK status \in {"done", "failed"} : SetTickets(r, group, status)
    BY <1>2
  <2>2. status \in Shown /\ shown \in [Ticket -> Shown]
    BY <2>1 DEF Shown, TypeOK
  <2>3. shown' = [n \in Ticket |-> IF n \in group /\ sub[n].at = r THEN status ELSE shown[n]]
    BY <2>1 DEF SetTickets
  <2> HIDE DEF group
  <2>4. QED
    BY <2>2, <2>3
<1>6. /\ errors' \in 0..MaxErrors /\ trouble' \in BOOLEAN /\ (trouble => trouble')
      /\ \/ away' = away /\ trouble' = trouble
         \/ away' = [away EXCEPT ![r] = TRUE] /\ trouble' /\ backend = "redis"
  <2>1. CASE CallWorks
    BY <1>1, <2>1, CallShape DEF CallWorks
  <2>2. CASE Reach(r) /\ CallFails(r)
    <3>1. backend = "redis" /\ away' = [away EXCEPT ![r] = TRUE] /\ trouble'
      BY <2>2 DEF Reach, CallFails
    <3>2. QED
      BY <1>1, <2>2, <3>1, CallShape
  <2>3. QED
    BY <1>2, <2>1, <2>2
<1>7. \/ w[2] = "local" /\ hand[w].items = group /\ NewHand(w, "idle", {}, {})
      \/ \E p \in {"process", "ack"} : NewHand(w, p, left, hand[w].done \cup group)
  <2>1. CASE left = {} /\ w[2] = "local"
    <3>1. hand' = [hand EXCEPT ![w] = Idle]
      BY <1>2, <2>1
    <3>2. hand[w].items = group
      BY <1>4, <2>1
    <3>3. QED
      BY <2>1, <3>1, <3>2 DEF NewHand, Idle
  <2>2. CASE ~(left = {} /\ w[2] = "local")
    <3> DEFINE p == IF left = {} THEN "ack" ELSE "process"
    <3>1. hand' = [hand EXCEPT ![w] = [phase |-> p, items |-> left, done |-> hand[w].done \cup group]]
      BY <1>2, <2>2
    <3>2. p \in {"process", "ack"}
      OBVIOUS
    <3> HIDE DEF p, left, group
    <3>3. QED
      BY <3>1, <3>2 DEF NewHand
  <2>3. QED
    BY <2>1, <2>2
<1>8. group # {} /\ runs' = [n \in Ticket |-> IF n \in group THEN runs[n] + 1 ELSE runs[n]]
  BY <1>2
<1>9. Handles(w, group)
  <2> HIDE DEF group
  <2>1. QED
    BY <1>3, <1>4, <1>5, <1>6, <1>7, <1>8 DEF Handles
<1>10. QED
  BY <1>9

Handed == /\ hand' \in [Worker -> HandType]
          /\ \A v \in Worker : hand'[v].items \cup hand'[v].done \subseteq DOMAIN sub'

LEMMA HandsType ==
  ASSUME TypeOK, NEW w \in Worker, NEW p, p \in {"idle", "flush", "process", "ack"},
         NEW I, I \subseteq DOMAIN sub, NEW D, D \subseteq DOMAIN sub,
         NewHand(w, p, I, D), sub' = sub
  PROVE  Handed
<1> DEFINE h == [phase |-> p, items |-> I, done |-> D]
<1>1. HandOK(h) /\ hand' = [hand EXCEPT ![w] = h]
  BY NewHandOK DEF NewHand
<1> HIDE DEF h
<1>2. QED
  BY <1>1, HandType1 DEF Handed

(* The workers' steps keep the types.                                       *)
LEMMA WorkerType ==
  ASSUME TypeOK, GivenInv, NEW r \in Replica,
         LocalWorker(r) \/ RedisWorker(r) \/ Dropped(r) \/ Recover(r)
  PROVE  TypeOK'
<1> USE DEF setting, keys
<1> DEFINE w == <<r, "local">>
           v == <<r, "redis">>
<1>1. w \in Worker /\ v \in Worker /\ Home(w) = r /\ Home(v) = r
  BY DEF Worker, Home
<1> HIDE DEF w, v
<1>2. /\ queue[r] \subseteq DOMAIN sub
      /\ \A u \in Worker : hand[u].items \subseteq DOMAIN sub /\ hand[u].done \subseteq DOMAIN sub
  BY DEF TypeOK, Handed
<1>3. CASE Drain(r) \/ TopUp(r)
  <2>1. PICK T \in SUBSET queue[r], p \in {"flush", "process"} :
          /\ queue' = [queue EXCEPT ![r] = @ \ T]
          /\ \/ hand[w].phase = "idle" /\ NewHand(w, p, T, {})
             \/ NewHand(w, p, hand[w].items \cup T, {})
    BY <1>3, LocalShape DEF w
  <2>2. UNCHANGED <<setting, life, away, errors, sub, keys, stream, unread, pending,
                    shown, runs, trouble>>
    BY <1>3, LocalShape
  <2>3. Handed
    <3>1. CASE NewHand(w, p, T, {})
      <4>1. T \subseteq DOMAIN sub /\ sub' = sub
        BY <1>2, <2>2
      <4>2. QED
        BY <1>1, <3>1, <4>1, HandsType
    <3>2. CASE NewHand(w, p, hand[w].items \cup T, {})
      <4> DEFINE I == hand[w].items \cup T
      <4>1. I \subseteq DOMAIN sub /\ sub' = sub
        BY <1>1, <1>2, <2>2
      <4> HIDE DEF I
      <4>2. NewHand(w, p, I, {})
        BY <3>2 DEF I
      <4>3. QED
        BY <1>1, <4>1, <4>2, HandsType
    <3>3. QED
      BY <2>1, <3>1, <3>2
  <2>4. queue' \in [Replica -> SUBSET DOMAIN sub]
    BY <2>1 DEF TypeOK, Handed
  <2>5. QED
    BY <2>2, <2>3, <2>4 DEF TypeOK, Handed
<1>4. ASSUME NEW u \in {w, v}, Process(u) PROVE TypeOK'
  <2>1. PICK group : Handles(u, group)
    BY <1>1, <1>4, ProcessShape
  <2>2. Handed
    <3>1. sub' = sub
      BY <2>1 DEF Handles
    <3>2. CASE NewHand(u, "idle", {}, {})
      BY <1>1, <3>1, <3>2, HandsType
    <3>3. CASE \E p \in {"process", "ack"} :
                 NewHand(u, p, hand[u].items \ group, hand[u].done \cup group)
      <4> DEFINE I == hand[u].items \ group
                 D == hand[u].done \cup group
      <4>1. I \subseteq DOMAIN sub /\ D \subseteq DOMAIN sub
        BY <1>1, <1>2, <2>1 DEF Handles
      <4>2. PICK p \in {"process", "ack"} : NewHand(u, p, I, D)
        BY <3>3
      <4> HIDE DEF I, D
      <4>3. QED
        BY <1>1, <3>1, <4>1, <4>2, HandsType
    <3>4. QED
      BY <2>1, <3>2, <3>3 DEF Handles
  <2>3. away' \in [Replica -> BOOLEAN]
    BY <1>1, <2>1 DEF Handles, TypeOK, Handed
  <2>4. runs' \in [Ticket -> Nat]
    BY <2>1 DEF Handles, TypeOK, Handed
  <2>5. QED
    BY <2>1, <2>2, <2>3, <2>4 DEF Handles, TypeOK, Handed
<1>5. CASE Take(r)
  <2>1. PICK old \in SUBSET Claimable : \E new \in Drains(unread, BatchSize - Cardinality(old)) :
          /\ pending' = pending \cup new
          /\ hand' = [hand EXCEPT ![v] = [phase |-> "process", items |-> old \cup new, done |-> {}]]
          /\ unread' = unread \ new
          /\ trouble' = (trouble \/ old \cap InHand # {})
    BY <1>5 DEF Take, v
  <2>2. PICK new \in Drains(unread, BatchSize - Cardinality(old)) :
          /\ pending' = pending \cup new
          /\ hand' = [hand EXCEPT ![v] = [phase |-> "process", items |-> old \cup new, done |-> {}]]
          /\ unread' = unread \ new
          /\ trouble' = (trouble \/ old \cap InHand # {})
    BY <2>1
  <2>3. new \subseteq unread /\ old \subseteq pending
    BY DrainsType DEF Claimable
  <2>4. UNCHANGED <<setting, life, away, errors, sub, keys, queue, stream, shown, runs>>
    BY <1>5 DEF Take
  <2>5. old \cup new \subseteq DOMAIN sub
    BY <2>3 DEF TypeOK, Handed
  <2>6. Handed
    <3> DEFINE I == old \cup new
    <3>1. NewHand(v, "process", I, {}) /\ sub' = sub
      BY <2>2, <2>4 DEF NewHand
    <3> HIDE DEF I
    <3>2. QED
      BY <1>1, <2>5, <3>1, HandsType DEF I
  <2>7. unread' \subseteq stream /\ pending' \subseteq stream
    BY <2>2, <2>3 DEF TypeOK, Handed
  <2>8. trouble' \in BOOLEAN
    BY <2>2
  <2>9. QED
    BY <2>4, <2>6, <2>7, <2>8 DEF TypeOK, Handed
<1>6. CASE Ack(r)
  <2>1. NewHand(v, "idle", {}, {}) /\ sub' = sub
    BY <1>6 DEF Ack, NewHand, Idle, v
  <2>2. Handed
    BY <1>1, <2>1, HandsType
  <2>3. stream' = stream \ hand[v].done /\ pending' = pending \ hand[v].done /\ unread' = unread
    BY <1>6 DEF Ack, v
  <2>4. unread \cap hand[v].done = {}
    BY DEF GivenInv, HeldBy, v
  <2>5. stream' \subseteq DOMAIN sub /\ unread' \subseteq stream' /\ pending' \subseteq stream'
    BY <2>3, <2>4 DEF TypeOK, Handed
  <2>6. UNCHANGED <<setting, life, away, errors, sub, keys, queue, shown, runs, trouble>>
    BY <1>6 DEF Ack
  <2>7. QED
    BY <2>2, <2>5, <2>6 DEF TypeOK, Handed
<1>7. CASE Dropped(r)
  <2>1. NewHand(v, "idle", {}, {}) /\ sub' = sub
    BY <1>7 DEF Dropped, NewHand, Idle, v
  <2>2. Handed
    BY <1>1, <2>1, HandsType
  <2>3. /\ errors' \in 0..MaxErrors /\ trouble' \in BOOLEAN /\ away' \in [Replica -> BOOLEAN]
    BY <1>7, CallShape DEF Dropped, TypeOK, Handed
  <2>4. \E acked \in SUBSET hand[v].done, gone \in SUBSET hand[v].done :
          gone \subseteq acked /\ pending' = pending \ acked /\ stream' = stream \ gone
    BY <1>7 DEF Dropped, v
  <2>5. unread \cap hand[v].done = {} /\ unread' = unread
    BY <1>7 DEF GivenInv, HeldBy, v, Dropped
  <2>6. stream' \subseteq DOMAIN sub /\ unread' \subseteq stream' /\ pending' \subseteq stream'
    BY <2>4, <2>5 DEF TypeOK, Handed
  <2>7. UNCHANGED <<setting, life, sub, keys, queue, shown, runs>>
    BY <1>7 DEF Dropped
  <2>8. QED
    BY <2>2, <2>3, <2>6, <2>7 DEF TypeOK, Handed
<1>8. CASE Recover(r)
  BY <1>8 DEF Recover, queues, TypeOK, Handed
<1>9. QED
  BY <1>3, <1>4, <1>5, <1>6, <1>7, <1>8 DEF LocalWorker, RedisWorker, w, v

LEMMA EndsType ==
  ASSUME TypeOK, NEW r \in Replica, Ends(r)
  PROVE  TypeOK'
<1> USE DEF setting
<1>1. sub' \in Seq(Submission) /\ Len(sub') = Len(sub) /\ DOMAIN sub' = DOMAIN sub
  BY EndsShape
<1>2. Idle \in HandType /\ Idle.items = {} /\ Idle.done = {}
  BY DEF Idle, HandType
<1>3. \A w \in Worker : hand'[w] = IF Home(w) = r THEN Idle ELSE hand[w]
  BY DEF Ends
<1>4. Handed
  <2>1. hand' = [w \in Worker |-> IF Home(w) = r THEN Idle ELSE hand[w]]
    BY DEF Ends
  <2>2. \A w \in Worker : hand[w] \in HandType /\ hand[w].items \cup hand[w].done \subseteq DOMAIN sub
    BY DEF TypeOK
  <2> HIDE DEF Idle
  <2>3. hand' \in [Worker -> HandType]
    BY <1>2, <2>1, <2>2
  <2>4. QED
    BY <1>1, <1>2, <1>3, <2>2, <2>3 DEF Handed
<1>5. shown' \in [Ticket -> Shown]
  <2>1. shown' = [n \in Ticket |->
                   IF n \in DOMAIN sub /\ sub[n].at = r THEN "none" ELSE shown[n]]
    BY DEF Ends
  <2>2. QED
    BY <2>1 DEF TypeOK, Shown
<1>6. /\ life' \in [Replica -> {"up", "draining", "down"}] /\ away' \in [Replica -> BOOLEAN]
      /\ queue' \in [Replica -> SUBSET DOMAIN sub]
  BY DEF Ends, TypeOK
<1>7. idem' \in [Replica -> [Item -> 0..MaxSubmits]]
  <2>1. [i \in Item |-> 0] \in [Item -> 0..MaxSubmits]
    BY IngestAssumption
  <2>2. idem' = [idem EXCEPT ![r] = [i \in Item |-> 0]]
    BY DEF Ends
  <2>3. QED
    BY <2>1, <2>2 DEF TypeOK
<1>8. trouble' \in BOOLEAN
  BY DEF Ends
<1>9. UNCHANGED <<backend, fault, errors, idemShared, stream, unread, pending, runs>>
  BY DEF Ends
<1>10. QED
  BY <1>1, <1>4, <1>5, <1>6, <1>7, <1>8, <1>9 DEF TypeOK, Handed

(* The whole of Next in the shapes above.                                   *)
LEMMA NextShapes ==
  ASSUME TypeOK, Next
  PROVE  \/ \E n \in DOMAIN sub, s \in Waiting \cup Answered : RequestStep(n, s)
         \/ \E r \in Replica, i \in Item : \E s : Arrives(r, i, s)
         \/ \E r \in Replica : \/ LocalWorker(r) \/ RedisWorker(r) \/ Dropped(r) \/ Recover(r)
         \/ \E r \in Replica : Ends(r) /\ Alive(r)
         \/ \E r \in Replica : StopBegins(r)
<1>1. ASSUME NEW n \in DOMAIN sub, Request(n)
      PROVE  \E m \in DOMAIN sub, s \in Waiting \cup Answered : RequestStep(m, s)
  BY <1>1, RequestShape
<1>2. ASSUME NEW r \in Replica, NEW i \in Item, Submit(r, i)
      PROVE  \E q \in Replica, j \in Item : \E s : Arrives(q, j, s)
  BY <1>2, SubmitShape
<1>3. ASSUME NEW r \in Replica, Crash(r) \/ CancelWorkers(r)
      PROVE  Ends(r) /\ Alive(r)
  BY <1>3 DEF Crash, CancelWorkers, Alive
<1>4. QED
  BY <1>1, <1>2, <1>3 DEF Next

LEMMA NextType == TypeOK /\ GivenInv /\ [Next]_vars => TypeOK'
<1> SUFFICES ASSUME TypeOK, GivenInv, [Next]_vars PROVE TypeOK'
  OBVIOUS
<1>1. CASE UNCHANGED vars
  BY <1>1 DEF vars, setting, keys, queues, TypeOK
<1>2. ASSUME NEW r \in Replica, StopBegins(r) PROVE TypeOK'
  <2>1. life' \in [Replica -> {"up", "draining", "down"}]
    BY <1>2 DEF StopBegins, TypeOK
  <2>2. UNCHANGED <<setting, away, errors, sub, keys, queues, shown, runs, trouble>>
    BY <1>2 DEF StopBegins
  <2>3. QED
    BY <2>1, <2>2 DEF setting, keys, queues, TypeOK
<1>3. CASE Next
  BY <1>2, <1>3, NextShapes, RequestType, SubmitType, WorkerType, EndsType
<1>4. QED
  BY <1>1, <1>3

----------------------------------------------------------------------------
(* What each step of the workers leaves in whose hands.                     *)
RedisHand(r) == hand[<<r, "redis">>]
LocalHand(r) == hand[<<r, "local">>]

LEMMA Hands ==
  ASSUME TypeOK
  PROVE  \A r \in Replica : /\ <<r, "redis">> \in Worker /\ <<r, "local">> \in Worker
                            /\ RedisHand(r).items \subseteq DOMAIN sub
                            /\ RedisHand(r).done \subseteq DOMAIN sub
                            /\ LocalHand(r).items \subseteq DOMAIN sub
BY DEF TypeOK, Worker, RedisHand, LocalHand

LEMMA NewHandIs ==
  ASSUME TypeOK, NEW w \in Worker, NEW p, NEW I, NEW D, NewHand(w, p, I, D)
  PROVE  /\ hand'[w].phase = p /\ hand'[w].items = I /\ hand'[w].done = D
         /\ \A v \in Worker : v # w => hand'[v] = hand[v]
BY DEF TypeOK, NewHand

LEMMA LocalLeavesRedis ==
  ASSUME TypeOK, NEW r \in Replica, NEW p, NEW I, NEW D, NewHand(<<r, "local">>, p, I, D)
  PROVE  \A q \in Replica : RedisHand(q)' = RedisHand(q)
<1>1. \A q \in Replica : <<q, "redis">> \in Worker /\ <<q, "redis">> # <<r, "local">>
  BY DEF Worker
<1>2. <<r, "local">> \in Worker
  BY DEF Worker
<1>3. QED
  BY <1>1, <1>2, NewHandIs DEF RedisHand

LEMMA RedisLeavesOthers ==
  ASSUME TypeOK, NEW r \in Replica, NEW p, NEW I, NEW D, NewHand(<<r, "redis">>, p, I, D)
  PROVE  /\ \A q \in Replica : LocalHand(q)' = LocalHand(q)
         /\ \A q \in Replica : q # r => RedisHand(q)' = RedisHand(q)
         /\ RedisHand(r)'.phase = p /\ RedisHand(r)'.items = I /\ RedisHand(r)'.done = D
<1>1. \A q \in Replica : <<q, "local">> \in Worker /\ <<q, "local">> # <<r, "redis">>
  BY DEF Worker
<1>2. \A q \in Replica : <<q, "redis">> \in Worker /\ (q # r => <<q, "redis">> # <<r, "redis">>)
  BY DEF Worker
<1>3. QED
  BY <1>1, <1>2, NewHandIs DEF RedisHand, LocalHand

Takes(r, old, new) ==
  /\ Alive(r) /\ Reach(r) /\ RedisHand(r).phase = "idle"
  /\ old \subseteq pending /\ new \subseteq unread
  /\ pending' = pending \cup new /\ unread' = unread \ new
  /\ NewHand(<<r, "redis">>, "process", old \cup new, {})
  /\ (trouble => trouble')
  /\ ~trouble' => \A q \in Replica : old \cap HeldBy(q) = {}
  /\ UNCHANGED <<setting, life, away, errors, sub, keys, queue, stream, shown, runs>>

LEMMA TakeShape ==
  ASSUME TypeOK, NEW r \in Replica, Take(r)
  PROVE  \E old, new : Takes(r, old, new)
<1> DEFINE v == <<r, "redis">>
<1>1. /\ Alive(r) /\ Reach(r) /\ RedisHand(r).phase = "idle"
      /\ UNCHANGED <<setting, life, away, errors, sub, keys, queue, stream, shown, runs>>
  BY DEF Take, RedisHand
<1>2. PICK old \in SUBSET Claimable : \E new \in Drains(unread, BatchSize - Cardinality(old)) :
        /\ pending' = pending \cup new
        /\ hand' = [hand EXCEPT ![v] = [phase |-> "process", items |-> old \cup new, done |-> {}]]
        /\ unread' = unread \ new
        /\ trouble' = (trouble \/ old \cap InHand # {})
  BY DEF Take
<1>3. PICK new \in Drains(unread, BatchSize - Cardinality(old)) :
        /\ pending' = pending \cup new
        /\ hand' = [hand EXCEPT ![v] = [phase |-> "process", items |-> old \cup new, done |-> {}]]
        /\ unread' = unread \ new
        /\ trouble' = (trouble \/ old \cap InHand # {})
  BY <1>2
<1>4. new \subseteq unread /\ old \subseteq pending
  BY DrainsType DEF Claimable
<1>5. \A q \in Replica : HeldBy(q) \subseteq InHand
  BY DEF HeldBy, InHand
<1>6. NewHand(v, "process", old \cup new, {})
  BY <1>3 DEF NewHand
<1>7. Takes(r, old, new)
  BY <1>1, <1>3, <1>4, <1>5, <1>6 DEF Takes
<1>8. QED
  BY <1>7

GivesBack(r, acked, gone) ==
  /\ Alive(r) /\ RedisHand(r).phase # "idle"
  /\ acked \subseteq RedisHand(r).done /\ gone \subseteq acked
  /\ pending' = pending \ acked /\ stream' = stream \ gone
  /\ NewHand(<<r, "redis">>, "idle", {}, {})
  /\ \/ trouble' /\ away' = [away EXCEPT ![r] = TRUE]
     \/ trouble' = trouble /\ away' = away /\ acked = RedisHand(r).done
  /\ UNCHANGED <<setting, life, sub, keys, queue, unread, shown, runs>>

LEMMA GivesBackShape ==
  ASSUME TypeOK, NEW r \in Replica, Ack(r) \/ Dropped(r)
  PROVE  \E acked, gone : GivesBack(r, acked, gone)
<1> DEFINE v == <<r, "redis">>
<1>1. CASE Ack(r)
  <2>1. NewHand(v, "idle", {}, {})
    BY <1>1 DEF Ack, NewHand, Idle
  <2>2. GivesBack(r, hand[v].done, hand[v].done)
    BY <1>1, <2>1 DEF Ack, GivesBack, RedisHand
  <2>3. QED
    BY <2>2
<1>2. CASE Dropped(r)
  <2>1. NewHand(v, "idle", {}, {})
    BY <1>2 DEF Dropped, NewHand, Idle
  <2>2. PICK acked \in SUBSET hand[v].done, gone \in SUBSET hand[v].done :
          gone \subseteq acked /\ pending' = pending \ acked /\ stream' = stream \ gone
    BY <1>2 DEF Dropped
  <2>3. trouble' /\ away' = [away EXCEPT ![r] = TRUE]
    BY <1>2 DEF Dropped, CallFails
  <2>4. /\ Alive(r) /\ RedisHand(r).phase # "idle"
        /\ UNCHANGED <<setting, life, sub, keys, queue, unread, shown, runs>>
    BY <1>2 DEF Dropped, RedisHand
  <2>5. acked \subseteq RedisHand(r).done /\ gone \subseteq acked
    BY <2>2 DEF RedisHand
  <2>6. GivesBack(r, acked, gone)
    BY <2>1, <2>2, <2>3, <2>4, <2>5 DEF GivesBack
  <2>7. QED
    BY <2>6
<1>3. QED
  BY <1>1, <1>2

LEMMA EndsHands ==
  ASSUME TypeOK, NEW r \in Replica, Ends(r)
  PROVE  /\ \A q \in Replica : q # r => RedisHand(q)' = RedisHand(q) /\ LocalHand(q)' = LocalHand(q)
         /\ RedisHand(r)' = Idle /\ LocalHand(r)' = Idle
<1>1. \A w \in Worker : hand'[w] = IF Home(w) = r THEN Idle ELSE hand[w]
  BY DEF Ends
<1>2. \A q \in Replica : /\ <<q, "redis">> \in Worker /\ Home(<<q, "redis">>) = q
                         /\ <<q, "local">> \in Worker /\ Home(<<q, "local">>) = q
  BY DEF Worker, Home
<1>3. QED
  BY <1>1, <1>2 DEF RedisHand, LocalHand

----------------------------------------------------------------------------
(* GivenInv.                                                                *)
Fresh == {"claim", "depth", "add"}

LEMMA HeldIs ==
  /\ \A q : HeldBy(q) = RedisHand(q).items \cup RedisHand(q).done
  /\ \A q : HeldBy(q)' = RedisHand(q)'.items \cup RedisHand(q)'.done
BY DEF HeldBy, RedisHand

LEMMA GivenInit == Init => GivenInv
<1> SUFFICES ASSUME Init PROVE GivenInv
  OBVIOUS
<1>1. DOMAIN sub = {} /\ unread = {}
  BY EmptySeq DEF Init
<1>2. QED
  BY <1>1 DEF GivenInv

LEMMA GivenRequest ==
  ASSUME TypeOK, GivenInv, NEW n \in DOMAIN sub, NEW s, RequestStep(n, s)
  PROVE  GivenInv'
<1>1. hand' = hand /\ pending' = pending /\ DOMAIN sub' = DOMAIN sub
  BY DEF RequestStep, Updates
<1>2. \A r \in Replica : HeldBy(r)' = HeldBy(r)
  BY <1>1 DEF HeldBy
<1>3. \A k \in DOMAIN sub : sub'[k].st \in Fresh => sub[k].st \in Fresh /\ (k = n => s \in Fresh)
  BY DEF RequestStep, Updates, Follows, Fresh
<1>4. \/ stream' = stream /\ unread' = unread
      \/ /\ stream' = stream \cup {n} /\ unread' = unread \cup {n}
         /\ sub[n].st = "add" /\ s \notin Fresh
  BY DEF RequestStep, Places, Follows, Fresh
<1>5. sub[n].st = "add" => /\ n \notin pending
                           /\ \A r \in Replica : n \notin HeldBy(r)
  BY DEF GivenInv, TypeOK
<1>6. QED
  BY <1>1, <1>2, <1>3, <1>4, <1>5 DEF GivenInv, Fresh

LEMMA GivenSubmit ==
  ASSUME TypeOK, GivenInv, NEW r \in Replica, NEW i \in Item, NEW s, Arrives(r, i, s)
  PROVE  GivenInv'
<1> DEFINE n == Len(sub) + 1
<1>1. /\ hand' = hand /\ pending' = pending /\ stream' = stream /\ unread' = unread
      /\ DOMAIN sub' = DOMAIN sub \cup {n} /\ \A k \in DOMAIN sub : sub'[k] = sub[k]
  BY DEF Arrives
<1>2. \A q \in Replica : HeldBy(q)' = HeldBy(q)
  BY <1>1 DEF HeldBy
<1>3. n \notin DOMAIN sub
  BY SubFacts
<1>4. n \notin stream /\ \A q \in Replica : n \notin HeldBy(q)
  BY <1>3, Hands DEF TypeOK, HeldBy, RedisHand
<1> HIDE DEF n
<1>5. QED
  BY <1>1, <1>2, <1>4 DEF GivenInv

LEMMA GivenWorker ==
  ASSUME TypeOK, GivenInv, NEW r \in Replica,
         LocalWorker(r) \/ RedisWorker(r) \/ Dropped(r) \/ Recover(r)
  PROVE  GivenInv'
<1>1. CASE Drain(r) \/ TopUp(r)
  <2>1. \A q \in Replica : RedisHand(q)' = RedisHand(q)
    BY <1>1, LocalShape, LocalLeavesRedis
  <2>2. UNCHANGED <<sub, stream, unread, pending>>
    BY <1>1, LocalShape
  <2>3. QED
    BY <2>1, <2>2, HeldIs DEF GivenInv
<1>2. CASE Process(<<r, "local">>)
  <2>1. PICK group : Handles(<<r, "local">>, group)
    BY <1>2, Hands, ProcessShape
  <2>2. \A q \in Replica : RedisHand(q)' = RedisHand(q)
    BY <2>1, LocalLeavesRedis DEF Handles
  <2>3. UNCHANGED <<sub, stream, unread, pending>>
    BY <2>1 DEF Handles
  <2>4. QED
    BY <2>2, <2>3, HeldIs DEF GivenInv
<1>3. CASE Process(<<r, "redis">>)
  <2>1. PICK group : Handles(<<r, "redis">>, group)
    BY <1>3, Hands, ProcessShape
  <2>2. PICK p : NewHand(<<r, "redis">>, p, RedisHand(r).items \ group, RedisHand(r).done \cup group)
    BY <2>1 DEF Handles, RedisHand
  <2>3. group \subseteq RedisHand(r).items
    BY <2>1 DEF Handles, RedisHand
  <2>4. \A q \in Replica : HeldBy(q)' \subseteq HeldBy(q)
    BY <2>2, <2>3, RedisLeavesOthers, HeldIs
  <2>5. UNCHANGED <<sub, stream, unread, pending>>
    BY <2>1 DEF Handles
  <2>6. QED
    BY <2>4, <2>5 DEF GivenInv
<1>4. CASE Take(r)
  <2>1. PICK old, new : Takes(r, old, new)
    BY <1>4, TakeShape
  <2> DEFINE I == old \cup new
  <2>2. NewHand(<<r, "redis">>, "process", I, {})
    BY <2>1 DEF Takes
  <2>3. /\ unread' = unread \ new /\ pending' = pending \cup new
        /\ old \subseteq pending /\ new \subseteq unread
        /\ UNCHANGED <<sub, stream>>
    BY <2>1 DEF Takes
  <2>4. I \subseteq stream /\ unread' \cap I = {} /\ unread' \cap pending' = {}
    BY <2>3 DEF GivenInv, TypeOK
  <2> HIDE DEF I
  <2>5. \A q \in Replica : HeldBy(q)' = IF q = r THEN I ELSE HeldBy(q)
    <3>1. RedisHand(r)'.items = I /\ RedisHand(r)'.done = {}
      BY <2>2, RedisLeavesOthers
    <3>2. \A q \in Replica : q # r => RedisHand(q)' = RedisHand(q)
      BY <2>2, RedisLeavesOthers
    <3>3. HeldBy(r)' = I
      BY <3>1, HeldIs
    <3>4. \A q \in Replica : q # r => HeldBy(q)' = HeldBy(q)
      BY <3>2, HeldIs
    <3>5. QED
      BY <3>3, <3>4
  <2>6. unread' \subseteq unread
    BY <2>3
  <2>7. \A q \in Replica : unread' \cap HeldBy(q)' = {}
    BY <2>4, <2>5, <2>6 DEF GivenInv
  <2>8. \A n \in DOMAIN sub : sub[n].st \in {"claim", "depth", "add"} =>
          n \notin stream /\ \A q \in Replica : n \notin HeldBy(q)'
    BY <2>4, <2>5 DEF GivenInv
  <2>9. QED
    BY <2>3, <2>4, <2>7, <2>8 DEF GivenInv
<1>5. CASE Ack(r) \/ Dropped(r)
  <2>1. PICK acked, gone : GivesBack(r, acked, gone)
    BY <1>5, GivesBackShape
  <2>2. \A q \in Replica : HeldBy(q)' \subseteq HeldBy(q)
    BY <2>1, RedisLeavesOthers, HeldIs DEF GivesBack
  <2>3. QED
    BY <2>1, <2>2 DEF GivesBack, GivenInv
<1>6. CASE Recover(r)
  BY <1>6 DEF Recover, queues, GivenInv, HeldBy
<1>7. QED
  BY <1>1, <1>2, <1>3, <1>4, <1>5, <1>6 DEF LocalWorker, RedisWorker

LEMMA GivenEnds ==
  ASSUME TypeOK, GivenInv, NEW r \in Replica, Ends(r)
  PROVE  GivenInv'
<1>1. \A q \in Replica : HeldBy(q)' \subseteq HeldBy(q)
  BY EndsHands, HeldIs DEF Idle
<1>2. UNCHANGED <<stream, unread, pending>>
  BY DEF Ends
<1>3. DOMAIN sub' = DOMAIN sub /\ \A n \in DOMAIN sub : sub'[n].st \in Fresh => sub[n].st \in Fresh
  BY EndsShape DEF Fresh
<1>4. QED
  BY <1>1, <1>2, <1>3 DEF GivenInv, Fresh

LEMMA GivenNext == TypeOK /\ GivenInv /\ [Next]_vars => GivenInv'
<1> SUFFICES ASSUME TypeOK, GivenInv, [Next]_vars PROVE GivenInv'
  OBVIOUS
<1>1. CASE UNCHANGED vars
  BY <1>1 DEF vars, queues, GivenInv, HeldBy
<1>2. ASSUME NEW r \in Replica, StopBegins(r) PROVE GivenInv'
  BY <1>2 DEF StopBegins, queues, GivenInv, HeldBy
<1>3. CASE Next
  BY <1>2, <1>3, NextShapes, GivenRequest, GivenSubmit, GivenWorker, GivenEnds
<1>4. QED
  BY <1>1, <1>3

(* Every variable keeps its type; an entry of a stream is unread, or        *)
(* pending, or about to be deleted, and never given out before it is there. *)
THEOREM TypeCorrect == Spec => [](TypeOK /\ GivenInv)
<1>1. Init => TypeOK /\ GivenInv
  BY InitType, GivenInit
<1>2. TypeOK /\ GivenInv /\ [Next]_vars => (TypeOK /\ GivenInv)'
  BY NextType, GivenNext
<1>3. QED
  BY <1>1, <1>2, PTL DEF Spec

----------------------------------------------------------------------------
(* What was accepted is kept.                                               *)

(* The two conjuncts of AcceptedIsKept, and what makes them inductive.      *)
InStreams == \A n \in DOMAIN sub :
  sub[n].st \in {"mark", "streamed"} => Processed(n) \/ n \in unread \cup pending
InProcess == \A n \in DOMAIN sub :
  sub[n].st = "accepted" =>
    \/ Processed(n) \/ ~Alive(sub[n].at)
    \/ n \in queue[sub[n].at] \cup LocalHand(sub[n].at).items
IdleHands == \A w \in Worker : hand[w].phase = "idle" => hand[w].items = {} /\ hand[w].done = {}
DoneHands == \A w \in Worker : \A n \in hand[w].done : Processed(n)
KInv == InStreams /\ InProcess /\ IdleHands /\ DoneHands

LEMMA KInvIs == KInv <=> AcceptedIsKept /\ KeptInv
BY DEF KInv, InStreams, InProcess, IdleHands, DoneHands, AcceptedIsKept, KeptInv, LocalHand

LEMMA RequestCounts ==
  ASSUME TypeOK, NEW n \in DOMAIN sub, NEW s, RequestStep(n, s)
  PROVE  \A k \in Ticket : /\ runs[k] <= runs'[k] /\ (Processed(k) => Processed(k)')
                           /\ runs'[k] = IF s = "written" /\ k = n THEN runs[k] + 1 ELSE runs[k]
BY SubFacts DEF RequestStep, Places, TypeOK, Processed

LEMMA HandleCounts ==
  ASSUME TypeOK, NEW w \in Worker, NEW group, Handles(w, group)
  PROVE  \A k \in Ticket : /\ Processed(k) => Processed(k)'
                           /\ k \in group => Processed(k)'
                           /\ runs'[k] = IF k \in group THEN runs[k] + 1 ELSE runs[k]
BY DEF Handles, TypeOK, Processed

LEMMA KeptRequest ==
  ASSUME TypeOK, KInv, NEW n \in DOMAIN sub, NEW s, RequestStep(n, s)
  PROVE  KInv'
<1>1. /\ DOMAIN sub' = DOMAIN sub
      /\ \A k \in DOMAIN sub : /\ sub'[k].at = sub[k].at
                               /\ sub'[k].st = IF k = n THEN s ELSE sub[k].st
      /\ hand' = hand /\ life' = life /\ pending' = pending
  BY DEF RequestStep, Updates
<1>2. \A k \in DOMAIN sub : k \in Ticket /\ (Processed(k) => Processed(k)')
  BY SubFacts, RequestCounts
<1>3. unread \subseteq unread' /\ (s = "mark" => n \in unread')
  BY DEF RequestStep, Places
<1>4. s = "streamed" => sub[n].st = "mark"
  BY DEF RequestStep, Follows
<1>5. InStreams'
  BY <1>1, <1>2, <1>3, <1>4 DEF KInv, InStreams
<1>6. \A k \in DOMAIN sub : sub[k].at \in Replica
  BY SubFacts DEF Submission
<1>7. queue' = IF s = "accepted" THEN [queue EXCEPT ![sub[n].at] = @ \cup {n}] ELSE queue
  BY DEF RequestStep, Places
<1>8. /\ \A r \in Replica : queue[r] \subseteq queue'[r]
      /\ s = "accepted" => n \in queue'[sub[n].at]
  BY <1>6, <1>7 DEF TypeOK
<1>9. InProcess'
  BY <1>1, <1>2, <1>6, <1>8 DEF KInv, InProcess, LocalHand, Alive
<1>10. IdleHands' /\ DoneHands'
  <2>1. \A w \in Worker : hand[w].done \subseteq Ticket
    BY SubFacts DEF TypeOK
  <2>2. QED
    BY <1>1, <2>1, RequestCounts DEF KInv, IdleHands, DoneHands
<1>11. QED
  BY <1>5, <1>9, <1>10 DEF KInv

LEMMA KeptSubmit ==
  ASSUME TypeOK, KInv, NEW r \in Replica, NEW i \in Item, NEW s, Arrives(r, i, s)
  PROVE  KInv'
<1> DEFINE n == Len(sub) + 1
<1>1. /\ DOMAIN sub' = DOMAIN sub \cup {n} /\ \A k \in DOMAIN sub : sub'[k] = sub[k]
      /\ sub'[n].at = r /\ sub'[n].st = s /\ s \in {"duplicate", "claim", "accepted", "inline", "shed"}
      /\ queue' = IF s = "accepted" THEN [queue EXCEPT ![r] = @ \cup {n}] ELSE queue
      /\ UNCHANGED <<life, unread, pending, hand, runs>>
  BY DEF Arrives
<1> HIDE DEF n
<1>2. /\ \A q \in Replica : queue[q] \subseteq queue'[q]
      /\ s = "accepted" => n \in queue'[r]
  BY <1>1 DEF TypeOK
<1>3. \A k \in DOMAIN sub : sub[k].at \in Replica
  BY SubFacts DEF Submission
<1>4. InStreams'
  BY <1>1 DEF KInv, InStreams, Processed
<1>5. InProcess'
  BY <1>1, <1>2, <1>3 DEF KInv, InProcess, Processed, Alive, LocalHand
<1>6. IdleHands' /\ DoneHands'
  BY <1>1 DEF KInv, IdleHands, DoneHands, Processed
<1>7. QED
  BY <1>4, <1>5, <1>6 DEF KInv

LEMMA KeptLocal ==
  ASSUME TypeOK, KInv, NEW r \in Replica, Drain(r) \/ TopUp(r)
  PROVE  KInv'
<1> DEFINE w == <<r, "local">>
<1>1. w \in Worker
  BY DEF Worker
<1>2. PICK T \in SUBSET queue[r], p \in {"flush", "process"} :
        /\ queue' = [queue EXCEPT ![r] = @ \ T]
        /\ \/ hand[w].phase = "idle" /\ NewHand(w, p, T, {})
           \/ NewHand(w, p, hand[w].items \cup T, {})
  BY LocalShape
<1>3. UNCHANGED <<life, sub, unread, pending, runs>>
  BY LocalShape
<1>4. /\ hand'[w].phase \in {"flush", "process"}
      /\ hand'[w].items = hand[w].items \cup T /\ hand'[w].done = {}
      /\ \A v \in Worker : v # w => hand'[v] = hand[v]
  <2>1. CASE hand[w].phase = "idle" /\ NewHand(w, p, T, {})
    <3>1. hand'[w].phase = p /\ hand'[w].items = T /\ hand'[w].done = {}
      BY <1>1, <2>1, NewHandIs
    <3>2. hand[w].items = {}
      BY <1>1, <2>1 DEF KInv, IdleHands
    <3>3. QED
      BY <1>1, <2>1, <3>1, <3>2, NewHandIs
  <2>2. CASE NewHand(w, p, hand[w].items \cup T, {})
    BY <1>1, <2>2, NewHandIs
  <2>3. QED
    BY <1>2, <2>1, <2>2
<1>5. \A q \in Replica : q # r => queue'[q] = queue[q] /\ LocalHand(q)' = LocalHand(q)
  <2>1. \A q \in Replica : <<q, "local">> \in Worker /\ (q # r => <<q, "local">> # w)
    BY DEF Worker
  <2>2. QED
    BY <1>2, <1>4, <2>1 DEF LocalHand, TypeOK
<1>6. queue[r] \cup LocalHand(r).items \subseteq queue'[r] \cup LocalHand(r)'.items
  BY <1>2, <1>4 DEF LocalHand, TypeOK
<1>7. \A k \in DOMAIN sub : sub[k].at \in Replica
  BY SubFacts DEF Submission
<1>8. InProcess'
  BY <1>3, <1>5, <1>6, <1>7 DEF KInv, InProcess, Processed, Alive
<1>9. InStreams'
  BY <1>3 DEF KInv, InStreams, Processed
<1>10. IdleHands' /\ DoneHands'
  <2> HIDE DEF w
  <2>1. QED
    BY <1>3, <1>4 DEF KInv, IdleHands, DoneHands, Processed
<1>11. QED
  BY <1>8, <1>9, <1>10 DEF KInv

(* What the handled group leaves in the worker's hands.                     *)
Leaves(w, group) ==
  /\ hand'[w].items = hand[w].items \ group
  /\ hand'[w].done \subseteq hand[w].done \cup group
  /\ hand'[w].phase = "idle" => hand'[w].items = {} /\ hand'[w].done = {}
  /\ \A v \in Worker : v # w => hand'[v] = hand[v]

LEMMA HandleLeaves ==
  ASSUME TypeOK, NEW w \in Worker, NEW group, Handles(w, group)
  PROVE  Leaves(w, group)
<1>1. CASE hand[w].items = group /\ NewHand(w, "idle", {}, {})
  <2>1. hand'[w].items = {} /\ hand'[w].done = {}
    BY <1>1, NewHandIs
  <2>2. \A v \in Worker : v # w => hand'[v] = hand[v]
    BY <1>1, NewHandIs
  <2>3. QED
    BY <1>1, <2>1, <2>2 DEF Leaves
<1>2. ASSUME NEW p, p # "idle",
             NewHand(w, p, hand[w].items \ group, hand[w].done \cup group)
      PROVE  Leaves(w, group)
  <2> DEFINE I == hand[w].items \ group
             D == hand[w].done \cup group
  <2>1. NewHand(w, p, I, D)
    BY <1>2
  <2> HIDE DEF I, D
  <2>2. hand'[w].phase = p /\ hand'[w].items = I /\ hand'[w].done = D
    BY <2>1, NewHandIs
  <2>3. \A v \in Worker : v # w => hand'[v] = hand[v]
    BY <2>1, NewHandIs
  <2>4. QED
    BY <1>2, <2>2, <2>3 DEF Leaves, I, D
<1>3. QED
  BY <1>1, <1>2 DEF Handles

LEMMA KeptProcess ==
  ASSUME TypeOK, KInv, NEW w \in Worker, NEW group, Handles(w, group)
  PROVE  KInv'
<1>1. /\ group \subseteq hand[w].items
      /\ UNCHANGED <<life, sub, queue, unread, pending>>
  BY DEF Handles
<1>2. \A k \in DOMAIN sub : k \in Ticket /\ sub[k].at \in Replica
  BY SubFacts DEF Submission
<1>3. \A v \in Worker : hand[v].items \subseteq DOMAIN sub /\ hand[v].done \subseteq DOMAIN sub
  BY DEF TypeOK
<1>4. Leaves(w, group)
  BY HandleLeaves
<1>5. \A r \in Replica : \A k \in LocalHand(r).items \ LocalHand(r)'.items : k \in group
  BY <1>4, Hands DEF LocalHand, Leaves
<1>6. InProcess'
  BY <1>1, <1>2, <1>5, HandleCounts DEF KInv, InProcess, Alive
<1>7. InStreams'
  BY <1>1, <1>2, HandleCounts DEF KInv, InStreams
<1>8. IdleHands'
  BY <1>4 DEF KInv, IdleHands, Leaves
<1>9. DoneHands'
  BY <1>1, <1>2, <1>3, <1>4, HandleCounts DEF KInv, DoneHands, Leaves
<1>10. QED
  BY <1>6, <1>7, <1>8, <1>9 DEF KInv

LEMMA KeptRedis ==
  ASSUME TypeOK, KInv, NEW r \in Replica, Take(r) \/ Ack(r) \/ Dropped(r)
  PROVE  KInv'
<1> DEFINE v == <<r, "redis">>
<1>1. v \in Worker
  BY DEF Worker
<1>2. \A k \in DOMAIN sub : k \in Ticket /\ sub[k].at \in Replica
  BY SubFacts DEF Submission
<1>3. ASSUME NEW p, NEW I, NewHand(v, p, I, {}), p = "idle" => I = {},
             UNCHANGED <<life, sub, queue, runs>>
      PROVE  InProcess' /\ IdleHands' /\ DoneHands'
  <2>1. hand'[v].phase = p /\ hand'[v].items = I /\ hand'[v].done = {}
    BY <1>1, <1>3, NewHandIs
  <2>2. \A u \in Worker : u # v => hand'[u] = hand[u]
    BY <1>1, <1>3, NewHandIs
  <2>3. \A q \in Replica : LocalHand(q)' = LocalHand(q)
    BY <1>3, RedisLeavesOthers
  <2>4. InProcess'
    BY <1>2, <1>3, <2>3 DEF KInv, InProcess, Processed, Alive
  <2> HIDE DEF v
  <2>5. IdleHands' /\ DoneHands'
    BY <1>3, <2>1, <2>2 DEF KInv, IdleHands, DoneHands, Processed
  <2>6. QED
    BY <2>4, <2>5
<1>4. CASE Take(r)
  <2>1. PICK old, new : Takes(r, old, new)
    BY <1>4, TakeShape
  <2> DEFINE I == old \cup new
  <2>2. NewHand(v, "process", I, {}) /\ UNCHANGED <<life, sub, queue, runs>>
    BY <2>1 DEF Takes
  <2>3. pending' = pending \cup new /\ unread' = unread \ new
    BY <2>1 DEF Takes
  <2>4. InStreams'
    BY <2>2, <2>3 DEF KInv, InStreams, Processed
  <2> HIDE DEF I, v
  <2>5. InProcess' /\ IdleHands' /\ DoneHands'
    BY <1>3, <2>2
  <2>6. QED
    BY <2>4, <2>5 DEF KInv
<1>5. CASE Ack(r) \/ Dropped(r)
  <2>1. PICK acked, gone : GivesBack(r, acked, gone)
    BY <1>5, GivesBackShape
  <2>2. NewHand(v, "idle", {}, {}) /\ UNCHANGED <<life, sub, queue, unread, runs>>
    BY <2>1 DEF GivesBack
  <2>3. pending' = pending \ acked /\ \A k \in acked : Processed(k)
    BY <1>1, <2>1 DEF GivesBack, KInv, DoneHands, RedisHand
  <2>4. InStreams'
    BY <2>2, <2>3 DEF KInv, InStreams, Processed
  <2> HIDE DEF v
  <2>5. InProcess' /\ IdleHands' /\ DoneHands'
    BY <1>3, <2>2
  <2>6. QED
    BY <2>4, <2>5 DEF KInv
<1>6. QED
  BY <1>4, <1>5

LEMMA KeptEnds ==
  ASSUME TypeOK, KInv, NEW r \in Replica, Ends(r)
  PROVE  KInv'
<1>1. /\ DOMAIN sub' = DOMAIN sub
      /\ \A n \in DOMAIN sub : /\ sub'[n].at = sub[n].at
                               /\ sub'[n].st \in {"mark", "streamed", "accepted"} =>
                                    sub'[n].st = sub[n].st
  BY EndsShape DEF Waiting
<1>2. /\ life' = [life EXCEPT ![r] = "down"] /\ queue' = [queue EXCEPT ![r] = {}]
      /\ UNCHANGED <<unread, pending, runs>>
  BY DEF Ends
<1>3. \A n \in DOMAIN sub : sub[n].at \in Replica
  BY SubFacts DEF Submission
<1>4. InStreams'
  BY <1>1, <1>2 DEF KInv, InStreams, Processed
<1>5. InProcess'
  <2>1. \A q \in Replica : q # r => /\ queue'[q] = queue[q] /\ LocalHand(q)' = LocalHand(q)
                                    /\ Alive(q)' = Alive(q)
    BY <1>2, EndsHands DEF TypeOK, Alive
  <2>2. ~Alive(r)'
    BY <1>2 DEF TypeOK, Alive
  <2>3. QED
    BY <1>1, <1>2, <1>3, <2>1, <2>2 DEF KInv, InProcess, Processed
<1>6. IdleHands' /\ DoneHands'
  <2>1. \A w \in Worker : hand'[w] = IF Home(w) = r THEN Idle ELSE hand[w]
    BY DEF Ends
  <2>2. QED
    BY <1>2, <2>1 DEF KInv, IdleHands, DoneHands, Idle, Processed
<1>7. QED
  BY <1>4, <1>5, <1>6 DEF KInv

LEMMA KeptNext == TypeOK /\ KInv /\ [Next]_vars => KInv'
<1> SUFFICES ASSUME TypeOK, KInv, [Next]_vars PROVE KInv'
  OBVIOUS
<1> USE DEF KInv, InStreams, InProcess, IdleHands, DoneHands, LocalHand, Processed, Alive
<1>1. CASE UNCHANGED vars
  BY <1>1 DEF vars, queues
<1>2. ASSUME NEW r \in Replica, StopBegins(r) PROVE KInv'
  <2>1. life' = [life EXCEPT ![r] = "draining"] /\ life[r] # "down" /\ UNCHANGED <<sub, queues, runs>>
    BY <1>2 DEF StopBegins
  <2>2. \A q \in Replica : life'[q] # "down" <=> life[q] # "down"
    BY <2>1 DEF TypeOK
  <2>3. \A n \in DOMAIN sub : sub[n].at \in Replica
    BY SubFacts DEF Submission
  <2>4. QED
    BY <2>1, <2>2, <2>3 DEF queues
<1>3. ASSUME NEW r \in Replica, Recover(r) PROVE KInv'
  BY <1>3 DEF Recover, queues
<1>4. ASSUME NEW r \in Replica, LocalWorker(r) \/ RedisWorker(r) \/ Dropped(r) PROVE KInv'
  <2>1. ASSUME NEW w \in {<<r, "local">>, <<r, "redis">>}, Process(w) PROVE KInv'
    BY <2>1, Hands, ProcessShape, KeptProcess
  <2>2. QED
    BY <1>4, <2>1, KeptLocal, KeptRedis DEF LocalWorker, RedisWorker
<1>5. CASE Next
  BY <1>2, <1>3, <1>4, <1>5, NextShapes, KeptRequest, KeptSubmit, KeptEnds
<1>6. QED
  BY <1>1, <1>5

LEMMA KeptAlways == Spec => [](TypeOK /\ GivenInv /\ KInv)
<1>1. Init => KInv
  <2> SUFFICES ASSUME Init PROVE KInv
    OBVIOUS
  <2>1. DOMAIN sub = {} /\ \A w \in Worker : hand[w] = Idle
    BY EmptySeq DEF Init
  <2>2. QED
    BY <2>1 DEF KInv, InStreams, InProcess, IdleHands, DoneHands, Idle
<1>2. TypeOK /\ KInv /\ [Next]_vars => KInv'
  BY KeptNext
<1>3. QED
  BY <1>1, <1>2, TypeCorrect, PTL DEF Spec

(* "Accepted and durable for as long as the queue is": whatever processes   *)
(* crash or stop and whatever calls to Redis fail, an item answered 202 is  *)
(* processed, or in a stream, or in the queue or the hands of its process,  *)
(* or that process is gone.                                                 *)
THEOREM AcceptedIsKeptSafe == Spec => []AcceptedIsKept
<1>1. KInv => AcceptedIsKept
  BY KInvIs
<1>2. QED
  BY <1>1, KeptAlways, PTL

----------------------------------------------------------------------------
(* Of all submissions of one key one is processed, once.                    *)

(* The parts of PlaceInv.                                                   *)
RunsPart == \A n \in Ticket :
  /\ runs[n] <= 1
  /\ n \notin DOMAIN sub => runs[n] = 0
  /\ n \in DOMAIN sub => (sub[n].st \in Untouched => runs[n] = 0)
LocalPart == \A r \in Replica : \A n \in queue[r] \cup LocalHand(r).items :
  sub[n].at = r /\ sub[n].st = "accepted" /\ runs[n] = 0
ApartPart == \A r \in Replica : queue[r] \cap LocalHand(r).items = {}
StreamPart ==
  /\ \A n \in stream : sub[n].st \in {"mark", "streamed", "gone"}
  /\ \A n \in unread : runs[n] = 0
  /\ \A n \in pending : runs[n] = 0 \/ \E r \in Replica : n \in RedisHand(r).done
HeldPart ==
  /\ \A r \in Replica : HeldBy(r) \subseteq pending
  /\ \A r \in Replica : \A n \in RedisHand(r).items : runs[n] = 0
  /\ \A r, s \in Replica : r # s => HeldBy(r) \cap HeldBy(s) = {}

PInv == RunsPart /\ LocalPart /\ ApartPart /\ StreamPart /\ HeldPart

LEMMA PlaceInvIs == (PInv <=> PlaceInv) /\ (PInv' <=> PlaceInv')
BY DEF PInv, PlaceInv, RunsPart, LocalPart, ApartPart, StreamPart, HeldPart, LocalHand, RedisHand

(* What is in the stream is known, and so is what a worker holds.           *)
LEMMA Known ==
  ASSUME TypeOK
  PROVE  /\ stream \subseteq DOMAIN sub /\ unread \subseteq stream /\ pending \subseteq stream
         /\ \A n \in DOMAIN sub : n \in Ticket /\ sub[n].at \in Replica /\ sub[n].item \in Item
         /\ \A r \in Replica : queue[r] \subseteq DOMAIN sub /\ LocalHand(r).items \subseteq DOMAIN sub
         /\ \A n \in Ticket : runs[n] \in Nat
<1>1. \A n \in DOMAIN sub : n \in Ticket /\ sub[n].at \in Replica /\ sub[n].item \in Item
  BY SubFacts DEF Submission
<1>2. QED
  BY <1>1, Hands DEF TypeOK

LEMMA PlaceRequest ==
  ASSUME TypeOK, PInv, NEW n \in DOMAIN sub, NEW s, RequestStep(n, s), ~trouble'
  PROVE  PInv'
<1> USE DEF PInv
<1>1. /\ DOMAIN sub' = DOMAIN sub
      /\ \A k \in DOMAIN sub : /\ sub'[k].at = sub[k].at
                               /\ sub'[k].st = IF k = n THEN s ELSE sub[k].st
      /\ hand' = hand /\ pending' = pending
  BY DEF RequestStep, Updates
<1>2. \A k \in Ticket : runs'[k] = IF s = "written" /\ k = n THEN runs[k] + 1 ELSE runs[k]
  BY RequestCounts
<1>3. Follows(sub[n].st, s)
  BY DEF RequestStep
<1>4. \/ s = "mark" /\ stream' = stream \cup {n} /\ unread' = unread \cup {n}
      \/ s # "mark" /\ stream' = stream /\ unread' = unread
  BY DEF RequestStep, Places
<1>5. /\ n \in Ticket /\ runs[n] \in Nat /\ sub[n].at \in Replica
      /\ s # "streamed" => runs[n] = 0 /\ sub[n].st \in Untouched
  BY <1>3, Known DEF RunsPart, Follows, Untouched
<1>6. RunsPart'
  BY <1>1, <1>2, <1>3, <1>5, Known DEF RunsPart, Follows, Untouched
<1>7. n \in stream => s = "streamed"
  BY <1>3 DEF StreamPart, Follows
<1>8. \A r \in Replica : n \notin queue[r] /\ n \notin LocalHand(r).items
  BY <1>3 DEF LocalPart, Follows
<1>9. \A r \in Replica : queue'[r] = IF s = "accepted" /\ r = sub[n].at THEN queue[r] \cup {n} ELSE queue[r]
  BY <1>5 DEF RequestStep, Places, TypeOK
<1>10. \A r \in Replica : LocalHand(r)' = LocalHand(r) /\ RedisHand(r)' = RedisHand(r) /\ HeldBy(r)' = HeldBy(r)
  BY <1>1 DEF LocalHand, RedisHand, HeldBy
<1>11. LocalPart'
  <2>1. SUFFICES ASSUME NEW r \in Replica, NEW k \in queue'[r] \cup LocalHand(r).items
                 PROVE  sub'[k].at = r /\ sub'[k].st = "accepted" /\ runs'[k] = 0
    BY <1>10 DEF LocalPart
  <2>2. CASE k \in queue[r] \cup LocalHand(r).items
    BY <1>1, <1>2, <1>8, <2>2, Known DEF LocalPart
  <2>3. CASE k = n /\ s = "accepted" /\ r = sub[n].at
    BY <1>1, <1>2, <1>5, <2>3
  <2>4. QED
    BY <1>9, <2>1, <2>2, <2>3
<1>12. ApartPart'
  BY <1>8, <1>9, <1>10 DEF ApartPart
<1>13. StreamPart'
  <2>1. \A k \in stream' : sub'[k].st \in {"mark", "streamed", "gone"}
    BY <1>1, <1>4, <1>7, Known DEF StreamPart
  <2>2. \A k \in unread' : runs'[k] = 0
    BY <1>2, <1>4, <1>5, <1>7, Known DEF StreamPart
  <2>3. \A k \in pending' : runs'[k] = 0 \/ \E r \in Replica : k \in RedisHand(r)'.done
    BY <1>1, <1>2, <1>7, <1>10, Known DEF StreamPart
  <2>4. QED
    BY <2>1, <2>2, <2>3 DEF StreamPart
<1>14. HeldPart'
  <2>1. \A r \in Replica : \A k \in RedisHand(r).items : runs'[k] = 0
    BY <1>2, <1>7, Known, HeldIs DEF HeldPart
  <2>2. QED
    BY <1>1, <1>10, <2>1 DEF HeldPart
<1>15. QED
  BY <1>6, <1>11, <1>12, <1>13, <1>14

LEMMA PlaceSubmit ==
  ASSUME TypeOK, PInv, NEW r \in Replica, NEW i \in Item, NEW s, Arrives(r, i, s)
  PROVE  PInv'
<1> USE DEF PInv
<1> DEFINE n == Len(sub) + 1
<1>1. /\ DOMAIN sub' = DOMAIN sub \cup {n} /\ \A k \in DOMAIN sub : sub'[k] = sub[k]
      /\ sub'[n].at = r /\ sub'[n].st = s /\ n \in Ticket
      /\ queue' = IF s = "accepted" THEN [queue EXCEPT ![r] = @ \cup {n}] ELSE queue
      /\ UNCHANGED <<stream, unread, pending, hand, runs>>
  BY DEF Arrives
<1>2. n \notin DOMAIN sub
  BY SubFacts
<1> HIDE DEF n
<1>3. runs[n] = 0
  BY <1>1, <1>2 DEF RunsPart
<1>4. \A q \in Replica : queue'[q] = IF s = "accepted" /\ q = r THEN queue[q] \cup {n} ELSE queue[q]
  BY <1>1 DEF TypeOK
<1>5. \A q \in Replica : LocalHand(q)' = LocalHand(q) /\ RedisHand(q)' = RedisHand(q) /\ HeldBy(q)' = HeldBy(q)
  BY <1>1 DEF LocalHand, RedisHand, HeldBy
<1>6. RunsPart'
  BY <1>1, <1>3 DEF RunsPart
<1>7. LocalPart'
  <2>1. SUFFICES ASSUME NEW q \in Replica, NEW k \in queue'[q] \cup LocalHand(q).items
                 PROVE  sub'[k].at = q /\ sub'[k].st = "accepted" /\ runs[k] = 0
    BY <1>1, <1>5 DEF LocalPart
  <2>2. CASE k \in queue[q] \cup LocalHand(q).items
    BY <1>1, <2>2, Known DEF LocalPart
  <2>3. CASE k = n /\ s = "accepted" /\ q = r
    BY <1>1, <1>3, <2>3
  <2>4. QED
    BY <1>4, <2>1, <2>2, <2>3
<1>8. ApartPart'
  BY <1>2, <1>4, <1>5, Known DEF ApartPart
<1>9. StreamPart'
  BY <1>1, <1>5, Known DEF StreamPart
<1>10. HeldPart'
  BY <1>1, <1>5 DEF HeldPart
<1>11. QED
  BY <1>6, <1>7, <1>8, <1>9, <1>10

LEMMA PlaceLocal ==
  ASSUME TypeOK, PInv, NEW r \in Replica, Drain(r) \/ TopUp(r)
  PROVE  PInv'
<1> USE DEF PInv
<1> DEFINE w == <<r, "local">>
<1>1. w \in Worker
  BY DEF Worker
<1>2. PICK T \in SUBSET queue[r], p \in {"flush", "process"} :
        /\ queue' = [queue EXCEPT ![r] = @ \ T]
        /\ \/ hand[w].phase = "idle" /\ NewHand(w, p, T, {})
           \/ NewHand(w, p, hand[w].items \cup T, {})
  BY LocalShape
<1>3. UNCHANGED <<sub, stream, unread, pending, runs>>
  BY LocalShape
<1>4. /\ hand'[w].items \subseteq hand[w].items \cup T
      /\ \A v \in Worker : v # w => hand'[v] = hand[v]
  <2>1. CASE NewHand(w, p, T, {})
    BY <1>1, <2>1, NewHandIs
  <2>2. CASE NewHand(w, p, hand[w].items \cup T, {})
    BY <1>1, <2>2, NewHandIs
  <2>3. QED
    BY <1>2, <2>1, <2>2
<1>5. \A q \in Replica : /\ RedisHand(q)' = RedisHand(q) /\ HeldBy(q)' = HeldBy(q)
                         /\ q # r => queue'[q] = queue[q] /\ LocalHand(q)' = LocalHand(q)
  <2>1. \A q \in Replica : /\ <<q, "local">> \in Worker /\ (q # r => <<q, "local">> # w)
                           /\ <<q, "redis">> \in Worker /\ <<q, "redis">> # w
    BY DEF Worker
  <2>2. \A q \in Replica : q # r => queue'[q] = queue[q]
    BY <1>2 DEF TypeOK
  <2> HIDE DEF w
  <2>3. QED
    BY <1>4, <2>1, <2>2 DEF LocalHand, RedisHand, HeldBy
<1>6. /\ queue'[r] = queue[r] \ T
      /\ LocalHand(r)'.items \subseteq LocalHand(r).items \cup T
  BY <1>2, <1>4 DEF LocalHand, TypeOK
<1>7. RunsPart' /\ StreamPart' /\ HeldPart'
  BY <1>3, <1>5 DEF RunsPart, StreamPart, HeldPart
<1>8. LocalPart'
  BY <1>3, <1>5, <1>6 DEF LocalPart
<1>9. ApartPart'
  <2>1. \A q \in Replica : q # r => queue'[q] \cap LocalHand(q)'.items = {}
    BY <1>5 DEF ApartPart
  <2>2. queue'[r] \cap LocalHand(r)'.items = {}
    BY <1>6 DEF ApartPart
  <2>3. QED
    BY <2>1, <2>2 DEF ApartPart
<1>10. QED
  BY <1>7, <1>8, <1>9

LEMMA PlaceLocalProcess ==
  ASSUME TypeOK, PInv, NEW r \in Replica, NEW group, Handles(<<r, "local">>, group)
  PROVE  PInv'
<1> USE DEF PInv
<1> DEFINE w == <<r, "local">>
<1>1. w \in Worker /\ Leaves(w, group)
  BY Hands, HandleLeaves
<1>2. /\ group \subseteq LocalHand(r).items
      /\ UNCHANGED <<sub, queue, stream, unread, pending>>
  BY DEF Handles, LocalHand
<1>3. /\ \A q \in Replica : RedisHand(q)' = RedisHand(q) /\ HeldBy(q)' = HeldBy(q)
      /\ \A q \in Replica : q # r => LocalHand(q)' = LocalHand(q)
      /\ LocalHand(r)'.items = LocalHand(r).items \ group
  <2>1. \A q \in Replica : /\ <<q, "local">> \in Worker /\ (q # r => <<q, "local">> # w)
                           /\ <<q, "redis">> \in Worker /\ <<q, "redis">> # w
    BY DEF Worker
  <2> HIDE DEF w
  <2>2. \A q \in Replica : RedisHand(q)' = RedisHand(q) /\ HeldBy(q)' = HeldBy(q)
    BY <1>1, <2>1 DEF Leaves, RedisHand, HeldBy
  <2>3. \A q \in Replica : q # r => LocalHand(q)' = LocalHand(q)
    BY <1>1, <2>1 DEF Leaves, LocalHand
  <2>4. LocalHand(r)'.items = LocalHand(r).items \ group
    BY <1>1 DEF Leaves, LocalHand, w
  <2>5. QED
    BY <2>2, <2>3, <2>4
<1>4. \A k \in group : /\ k \in DOMAIN sub /\ k \in Ticket /\ sub[k].at = r /\ sub[k].st = "accepted"
                       /\ runs[k] = 0
  BY <1>2, Known DEF LocalPart
<1>5. \A k \in Ticket : runs'[k] = IF k \in group THEN runs[k] + 1 ELSE runs[k]
  BY <1>1, HandleCounts
<1>6. RunsPart'
  BY <1>2, <1>4, <1>5 DEF RunsPart, Untouched
<1>7. LocalPart'
  <2>1. SUFFICES ASSUME NEW q \in Replica, NEW k \in queue[q] \cup LocalHand(q)'.items
                 PROVE  sub[k].at = q /\ sub[k].st = "accepted" /\ runs'[k] = 0
    BY <1>2 DEF LocalPart
  <2>2. k \in queue[q] \cup LocalHand(q).items /\ k \notin group
    BY <1>2, <1>3, <1>4 DEF LocalPart, ApartPart
  <2>3. QED
    BY <1>5, <2>2, Known DEF LocalPart
<1>8. ApartPart'
  BY <1>2, <1>3 DEF ApartPart
<1>9. group \cap stream = {}
  BY <1>4 DEF StreamPart
<1>10. StreamPart'
  BY <1>2, <1>3, <1>5, <1>9, Known DEF StreamPart
<1>11. HeldPart'
  <2>1. \A q \in Replica : \A k \in RedisHand(q).items : k \in Ticket /\ k \notin group
    BY <1>9, Known, HeldIs DEF HeldPart
  <2>2. QED
    BY <1>2, <1>3, <1>5, <2>1 DEF HeldPart
<1>12. QED
  BY <1>6, <1>7, <1>8, <1>10, <1>11

LEMMA PlaceRedisProcess ==
  ASSUME TypeOK, GivenInv, PInv, NEW r \in Replica, NEW group, Handles(<<r, "redis">>, group)
  PROVE  PInv'
<1> USE DEF PInv
<1>1. <<r, "redis">> \in Worker
  BY Hands
<1>2. /\ group \subseteq RedisHand(r).items
      /\ UNCHANGED <<sub, queue, stream, unread, pending>>
  BY DEF Handles, RedisHand
<1>3. PICK p : NewHand(<<r, "redis">>, p, RedisHand(r).items \ group, RedisHand(r).done \cup group)
  BY DEF Handles, RedisHand
<1>4. /\ \A q \in Replica : LocalHand(q)' = LocalHand(q)
      /\ \A q \in Replica : q # r => RedisHand(q)' = RedisHand(q)
      /\ RedisHand(r)'.items = RedisHand(r).items \ group
      /\ RedisHand(r)'.done = RedisHand(r).done \cup group
  BY <1>3, RedisLeavesOthers
<1>5. \A q \in Replica : HeldBy(q)' = HeldBy(q)
  BY <1>2, <1>4, HeldIs
<1>6. \A k \in group : /\ k \in pending /\ k \in stream /\ k \in DOMAIN sub /\ k \in Ticket
                       /\ k \notin unread /\ runs[k] = 0
                       /\ sub[k].st \in {"mark", "streamed", "gone"}
  BY <1>2, Known, HeldIs DEF HeldPart, StreamPart, GivenInv
<1>7. \A k \in Ticket : runs'[k] = IF k \in group THEN runs[k] + 1 ELSE runs[k]
  BY <1>1, HandleCounts
<1>8. RunsPart'
  BY <1>2, <1>6, <1>7 DEF RunsPart, Untouched
<1>9. LocalPart'
  <2>1. \A q \in Replica : \A k \in queue[q] \cup LocalHand(q).items : k \in Ticket /\ k \notin group
    BY <1>6, Known DEF LocalPart
  <2>2. QED
    BY <1>2, <1>4, <1>7, <2>1 DEF LocalPart
<1>10. ApartPart'
  BY <1>2, <1>4 DEF ApartPart
<1>11. StreamPart'
  <2>1. \A k \in unread : runs'[k] = 0
    BY <1>6, <1>7, Known DEF StreamPart
  <2>2. ASSUME NEW k \in pending PROVE runs'[k] = 0 \/ \E q \in Replica : k \in RedisHand(q)'.done
    <3>1. CASE k \in group
      BY <1>4, <3>1
    <3>2. CASE k \notin group
      BY <1>4, <1>7, <3>2, Known DEF StreamPart
    <3>3. QED
      BY <3>1, <3>2
  <2>3. QED
    BY <1>2, <2>1, <2>2 DEF StreamPart
<1>12. HeldPart'
  <2>1. ASSUME NEW q \in Replica, NEW k \in RedisHand(q)'.items PROVE runs'[k] = 0
    <3>1. k \in RedisHand(q).items /\ k \notin group
      BY <1>2, <1>4, HeldIs DEF HeldPart
    <3>2. k \in Ticket
      BY <3>1, Known, HeldIs DEF HeldPart
    <3>3. QED
      BY <1>7, <3>1, <3>2 DEF HeldPart
  <2>2. QED
    BY <1>2, <1>5, <2>1 DEF HeldPart
<1>13. QED
  BY <1>8, <1>9, <1>10, <1>11, <1>12

(* What is taken is in nobody's hands, so it was not processed.             *)
LEMMA PlaceTake ==
  ASSUME TypeOK, GivenInv, IdleHands, PInv, ~trouble', NEW r \in Replica, NEW old, NEW new,
         Takes(r, old, new)
  PROVE  PInv'
<1> USE DEF PInv
<1> DEFINE I == old \cup new
<1>1. /\ old \subseteq pending /\ new \subseteq unread /\ pending' = pending \cup new
      /\ unread' = unread \ new /\ UNCHANGED <<sub, queue, stream, runs>>
      /\ \A q \in Replica : old \cap HeldBy(q) = {}
      /\ RedisHand(r).phase = "idle"
  BY DEF Takes
<1>2. NewHand(<<r, "redis">>, "process", I, {})
  BY DEF Takes
<1>3. /\ \A k \in I : runs[k] = 0 /\ k \in pending'
      /\ \A q \in Replica : I \cap HeldBy(q) = {}
  <2>1. \A k \in old : runs[k] = 0
    BY <1>1, HeldIs DEF StreamPart
  <2>2. \A k \in new : runs[k] = 0
    BY <1>1 DEF StreamPart
  <2>3. \A q \in Replica : new \cap HeldBy(q) = {}
    BY <1>1 DEF GivenInv
  <2>4. QED
    BY <1>1, <2>1, <2>2, <2>3
<1> HIDE DEF I
<1>4. /\ \A q \in Replica : LocalHand(q)' = LocalHand(q)
      /\ \A q \in Replica : q # r => RedisHand(q)' = RedisHand(q)
      /\ RedisHand(r)'.items = I /\ RedisHand(r)'.done = {}
  BY <1>2, RedisLeavesOthers
<1>5. RedisHand(r).done = {}
  BY <1>1, Hands DEF IdleHands, RedisHand
<1>6. \A q \in Replica : HeldBy(q)' = IF q = r THEN I ELSE HeldBy(q)
  BY <1>4, HeldIs
<1>7. RunsPart' /\ LocalPart' /\ ApartPart'
  BY <1>1, <1>4 DEF RunsPart, LocalPart, ApartPart
<1>8. StreamPart'
  <2>1. ASSUME NEW k \in pending' PROVE runs[k] = 0 \/ \E q \in Replica : k \in RedisHand(q)'.done
    <3>1. CASE k \in new
      BY <1>1, <3>1 DEF StreamPart
    <3>2. CASE k \in pending
      BY <1>4, <1>5, <3>2 DEF StreamPart
    <3>3. QED
      BY <1>1, <3>1, <3>2
  <2>2. QED
    BY <1>1, <2>1 DEF StreamPart
<1>9. HeldPart'
  <2>1. \A q \in Replica : HeldBy(q)' \subseteq pending'
    BY <1>1, <1>3, <1>6 DEF HeldPart
  <2>2. \A q \in Replica : \A k \in RedisHand(q)'.items : runs[k] = 0
    BY <1>3, <1>4 DEF HeldPart
  <2>3. \A p, q \in Replica : p # q => HeldBy(p)' \cap HeldBy(q)' = {}
    BY <1>3, <1>6 DEF HeldPart
  <2>4. QED
    BY <1>1, <2>1, <2>2, <2>3 DEF HeldPart
<1>10. QED
  BY <1>7, <1>8, <1>9

(* What is acknowledged was all the worker had done.                        *)
LEMMA PlaceGivesBack ==
  ASSUME TypeOK, PInv, ~trouble', NEW r \in Replica, NEW acked, NEW gone, GivesBack(r, acked, gone)
  PROVE  PInv'
<1> USE DEF PInv
<1>1. /\ pending' = pending \ RedisHand(r).done /\ stream' \subseteq stream
      /\ UNCHANGED <<sub, queue, unread, runs>>
  BY DEF GivesBack
<1>2. NewHand(<<r, "redis">>, "idle", {}, {})
  BY DEF GivesBack
<1>3. /\ \A q \in Replica : LocalHand(q)' = LocalHand(q)
      /\ \A q \in Replica : q # r => RedisHand(q)' = RedisHand(q)
      /\ RedisHand(r)'.items = {} /\ RedisHand(r)'.done = {}
  BY <1>2, RedisLeavesOthers
<1>4. \A q \in Replica : HeldBy(q)' = IF q = r THEN {} ELSE HeldBy(q)
  BY <1>3, HeldIs
<1>5. RunsPart' /\ LocalPart' /\ ApartPart'
  BY <1>1, <1>3 DEF RunsPart, LocalPart, ApartPart
<1>6. StreamPart'
  <2>1. ASSUME NEW k \in pending' PROVE runs[k] = 0 \/ \E q \in Replica : k \in RedisHand(q)'.done
    BY <1>1, <1>3 DEF StreamPart
  <2>2. QED
    BY <1>1, <2>1 DEF StreamPart
<1>7. HeldPart'
  <2>1. \A q \in Replica : HeldBy(q)' \subseteq pending'
    <3>1. \A q \in Replica : q # r => HeldBy(q) \cap RedisHand(r).done = {}
      BY HeldIs DEF HeldPart
    <3>2. QED
      BY <1>1, <1>4, <3>1 DEF HeldPart
  <2>2. \A q \in Replica : \A k \in RedisHand(q)'.items : runs[k] = 0
    BY <1>3 DEF HeldPart
  <2>3. \A p, q \in Replica : p # q => HeldBy(p)' \cap HeldBy(q)' = {}
    BY <1>4 DEF HeldPart
  <2>4. QED
    BY <1>1, <2>1, <2>2, <2>3 DEF HeldPart
<1>8. QED
  BY <1>5, <1>6, <1>7

(* A process that ends gives up what it held, none of it processed.         *)
LEMMA PlaceEnds ==
  ASSUME TypeOK, PInv, ~trouble', NEW r \in Replica, Ends(r)
  PROVE  PInv'
<1> USE DEF PInv
<1>1. /\ DOMAIN sub' = DOMAIN sub
      /\ \A n \in DOMAIN sub : /\ sub'[n].at = sub[n].at
                               /\ sub'[n].st = IF sub[n].at = r /\ sub[n].st \in Waiting
                                               THEN "gone" ELSE sub[n].st
  BY EndsShape
<1>2. /\ UNCHANGED <<stream, unread, pending, runs>> /\ queue' = [queue EXCEPT ![r] = {}]
      /\ RedisHand(r).done = {}
  BY DEF Ends, RedisHand
<1>3. /\ \A q \in Replica : q # r => RedisHand(q)' = RedisHand(q) /\ LocalHand(q)' = LocalHand(q)
      /\ RedisHand(r)'.items = {} /\ RedisHand(r)'.done = {} /\ LocalHand(r)'.items = {}
  BY EndsHands DEF Idle
<1>4. \A q \in Replica : queue'[q] = IF q = r THEN {} ELSE queue[q]
  BY <1>2 DEF TypeOK
<1>5. \A q \in Replica : HeldBy(q)' = IF q = r THEN {} ELSE HeldBy(q)
  BY <1>3, HeldIs
<1>6. RunsPart'
  BY <1>1, <1>2 DEF RunsPart, Untouched
<1>7. LocalPart'
  <2>1. SUFFICES ASSUME NEW q \in Replica, NEW k \in queue'[q] \cup LocalHand(q)'.items
                 PROVE  sub'[k].at = q /\ sub'[k].st = "accepted" /\ runs[k] = 0
    BY <1>2 DEF LocalPart
  <2>2. q # r /\ k \in queue[q] \cup LocalHand(q).items
    BY <1>3, <1>4
  <2>3. sub[k].at = q /\ sub[k].st = "accepted" /\ runs[k] = 0 /\ k \in DOMAIN sub
    BY <2>2, Known DEF LocalPart
  <2>4. QED
    BY <1>1, <2>2, <2>3
<1>8. ApartPart'
  BY <1>3, <1>4 DEF ApartPart
<1>9. StreamPart'
  <2>1. \A k \in stream : sub'[k].st \in {"mark", "streamed", "gone"}
    BY <1>1, Known DEF StreamPart
  <2>2. \A k \in pending : runs[k] = 0 \/ \E q \in Replica : k \in RedisHand(q)'.done
    BY <1>2, <1>3 DEF StreamPart
  <2>3. QED
    BY <1>2, <2>1, <2>2 DEF StreamPart
<1>10. HeldPart'
  BY <1>2, <1>3, <1>5 DEF HeldPart
<1>11. QED
  BY <1>6, <1>7, <1>8, <1>9, <1>10

----------------------------------------------------------------------------
(* The submission a key belongs to: in the memory of its process, in Redis. *)
OwnedHere == \A m \in DOMAIN sub : sub[m].st # "duplicate" =>
  /\ Alive(sub[m].at) => idem[sub[m].at][sub[m].item] = m
  /\ \A n \in DOMAIN sub :
       sub[n].st # "duplicate" /\ sub[n].at = sub[m].at /\ sub[n].item = sub[m].item => m = n
Counts(n) == sub[n].st \notin {"claim", "duplicate", "gone"} \/ n \in stream \/ runs[n] > 0
OwnedThere == \A n \in DOMAIN sub : Counts(n) => idemShared[sub[n].item] = n

OInv == BackendInv /\ (~trouble => PInv /\ OwnerInv)

LEMMA OwnerInvIs ==
  /\ OwnerInv <=> IF backend = "memory" THEN OwnedHere ELSE OwnedThere
  /\ OwnerInv' <=> IF backend' = "memory" THEN OwnedHere' ELSE OwnedThere'
BY DEF OwnerInv, OwnedHere, OwnedThere, Counts

LEMMA OnceRequest ==
  ASSUME TypeOK, OInv, NEW n \in DOMAIN sub, NEW s, RequestStep(n, s)
  PROVE  OInv'
<1>1. /\ DOMAIN sub' = DOMAIN sub
      /\ \A k \in DOMAIN sub : /\ sub'[k].item = sub[k].item /\ sub'[k].at = sub[k].at
                               /\ sub'[k].st = IF k = n THEN s ELSE sub[k].st
      /\ backend' = backend /\ UNCHANGED <<life, pending, hand>>
  BY DEF RequestStep, Updates, setting
<1>2. Follows(sub[n].st, s) /\ Places(n, s) /\ Claims(n, s) /\ Fails(n, s)
  BY DEF RequestStep
<1>3. (trouble => trouble') /\ n \in Ticket /\ sub[n].at \in Replica /\ sub[n].item \in Item
  BY <1>2, Known DEF Fails
<1>4. backend = "memory" => sub[n].st = "inline" /\ s = "written"
  BY <1>2 DEF OInv, BackendInv, Follows
<1>5. BackendInv'
  <2>1. \A r \in Replica : away'[r] => trouble'
    BY <1>2, <1>3 DEF Fails, OInv, BackendInv, TypeOK
  <2>2. ASSUME backend = "memory"
        PROVE  /\ ~trouble' /\ stream' = {}
               /\ \A k \in DOMAIN sub :
                    sub'[k].st \in {"inline", "accepted", "written", "duplicate", "shed", "gone"}
    BY <1>1, <1>2, <1>4, <2>2 DEF Fails, Places, OInv, BackendInv
  <2>3. QED
    BY <1>1, <2>1, <2>2 DEF OInv, BackendInv
<1>6. ~trouble' => PInv'
  BY <1>3, PlaceRequest DEF OInv
<1>7. ASSUME ~trouble', backend = "memory" PROVE OwnedHere'
  <2>1. OwnedHere
    BY <1>3, <1>7, OwnerInvIs DEF OInv
  <2>2. idem' = idem
    BY <1>2, <1>4, <1>7 DEF Claims
  <2>3. \A k \in DOMAIN sub : sub'[k].st # "duplicate" => sub[k].st # "duplicate"
    BY <1>1, <1>4, <1>7
  <2>4. QED
    BY <1>1, <2>1, <2>2, <2>3 DEF OwnedHere, Alive
<1>8. ASSUME ~trouble', backend # "memory" PROVE OwnedThere'
  <2>1. OwnedThere /\ PInv
    BY <1>3, <1>8, OwnerInvIs DEF OInv
  <2>2. \A k \in DOMAIN sub : k \in stream' => k \in stream \/ (k = n /\ sub[n].st = "add")
    BY <1>2, <1>8 DEF Places, Follows
  <2>3. \A k \in DOMAIN sub : runs'[k] > 0 => runs[k] > 0 \/ (k = n /\ sub[n].st = "inline")
    BY <1>2, Known, RequestCounts DEF Follows
  <2>4. ASSUME NEW k \in DOMAIN sub, Counts(k)', ~(k = n /\ sub[n].st = "claim") PROVE Counts(k)
    BY <1>1, <1>2, <2>2, <2>3, <2>4 DEF Counts, Follows
  <2>5. CASE sub[n].st = "claim" /\ s # "duplicate"
    <3>1. idemShared[sub[n].item] = 0 /\ idemShared' = [idemShared EXCEPT ![sub[n].item] = n]
      BY <1>2, <1>8, <2>5 DEF Claims
    <3>2. ASSUME NEW k \in DOMAIN sub, Counts(k)' PROVE idemShared'[sub[k].item] = k
      <4>1. CASE k = n
        BY <1>3, <3>1, <4>1 DEF TypeOK
      <4>2. CASE k # n
        <5>1. idemShared[sub[k].item] = k /\ k # 0
          BY <2>1, <2>4, <3>2, <4>2, Known DEF OwnedThere, Ticket
        <5>2. QED
          BY <3>1, <5>1, Known DEF TypeOK
      <4>3. QED
        BY <4>1, <4>2
    <3>3. QED
      BY <1>1, <3>2 DEF OwnedThere
  <2>6. CASE ~(sub[n].st = "claim" /\ s # "duplicate")
    <3>1. idemShared' = idemShared
      BY <1>2, <2>6 DEF Claims
    <3>2. sub[n].st = "claim" => ~Counts(n)'
      <4>1. ASSUME sub[n].st = "claim" PROVE s = "duplicate" /\ n \notin stream' /\ runs'[n] = 0
        <5>1. s = "duplicate"
          BY <2>6, <4>1
        <5>2. n \notin stream /\ runs[n] = 0
          BY <1>3, <2>1, <4>1 DEF PInv, StreamPart, RunsPart, Untouched
        <5>3. QED
          BY <1>3, <2>2, <4>1, <5>1, <5>2, RequestCounts
      <4>2. QED
        BY <1>1, <4>1 DEF Counts
    <3>3. QED
      BY <1>1, <2>1, <2>4, <3>1, <3>2 DEF OwnedThere
  <2>7. QED
    BY <2>5, <2>6
<1>9. QED
  BY <1>1, <1>5, <1>6, <1>7, <1>8, OwnerInvIs DEF OInv

LEMMA OnceSubmit ==
  ASSUME TypeOK, OInv, NEW r \in Replica, NEW i \in Item, NEW s, Arrives(r, i, s)
  PROVE  OInv'
<1> DEFINE n == Len(sub) + 1
<1>1. /\ DOMAIN sub' = DOMAIN sub \cup {n} /\ \A k \in DOMAIN sub : sub'[k] = sub[k]
      /\ sub'[n].item = i /\ sub'[n].at = r /\ sub'[n].st = s /\ n \in Ticket
      /\ life[r] = "up"
      /\ backend' = backend
      /\ UNCHANGED <<life, away, idemShared, stream, unread, pending, hand, runs, trouble>>
  BY DEF Arrives, setting
<1>2. \/ s = "duplicate" /\ idem' = idem
      \/ s = "claim" /\ Reach(r) /\ idem' = idem
      \/ /\ s \in {"accepted", "inline", "shed"} /\ idem[r][i] = 0 /\ ~Reach(r)
         /\ idem' = [idem EXCEPT ![r][i] = n]
  BY DEF Arrives
<1>3. n \notin DOMAIN sub
  BY SubFacts
<1> HIDE DEF n
<1>4. BackendInv'
  BY <1>1, <1>2 DEF OInv, BackendInv, Reach
<1>5. ~trouble' => PInv'
  BY <1>1, PlaceSubmit DEF OInv
<1>6. ASSUME ~trouble', backend = "memory" PROVE OwnedHere'
  <2>1. OwnedHere
    BY <1>1, <1>6, OwnerInvIs DEF OInv
  <2>2. CASE s = "duplicate"
    BY <1>1, <1>2, <2>1, <2>2 DEF OwnedHere, Alive
  <2>3. CASE s # "duplicate"
    <3>1. idem[r][i] = 0 /\ idem' = [idem EXCEPT ![r][i] = n]
      BY <1>2, <1>6, <2>3 DEF Reach
    <3>2. \A q \in Replica, j \in Item :
            idem'[q][j] = IF q = r /\ j = i THEN n ELSE idem[q][j]
      BY <3>1 DEF TypeOK
    <3>3. Alive(r)
      BY <1>1 DEF Alive
    <3>4. ASSUME NEW k \in DOMAIN sub, sub[k].st # "duplicate" PROVE ~(sub[k].at = r /\ sub[k].item = i)
      <4>1. Alive(sub[k].at) => idem[sub[k].at][sub[k].item] = k
        BY <2>1, <3>4 DEF OwnedHere
      <4>2. k # 0
        BY Known DEF Ticket
      <4>3. QED
        BY <3>1, <3>3, <4>1, <4>2
    <3>5. ASSUME NEW k \in DOMAIN sub', sub'[k].st # "duplicate"
          PROVE  Alive(sub'[k].at) => idem'[sub'[k].at][sub'[k].item] = k
      <4>1. CASE k = n
        BY <1>1, <3>2, <4>1
      <4>2. CASE k \in DOMAIN sub
        BY <1>1, <2>1, <3>2, <3>4, <3>5, <4>2, Known DEF OwnedHere
      <4>3. QED
        BY <1>1, <4>1, <4>2
    <3>6. ASSUME NEW k \in DOMAIN sub', NEW m \in DOMAIN sub', sub'[k].st # "duplicate",
                 sub'[m].st # "duplicate", sub'[k].at = sub'[m].at, sub'[k].item = sub'[m].item
          PROVE  k = m
      <4>1. CASE k \in DOMAIN sub /\ m \in DOMAIN sub
        BY <1>1, <2>1, <3>6, <4>1 DEF OwnedHere
      <4>2. CASE k = n \/ m = n
        BY <1>1, <3>4, <3>6, <4>2
      <4>3. QED
        BY <1>1, <4>1, <4>2
    <3>7. Alive(r)' = Alive(r) /\ \A q : Alive(q)' = Alive(q)
      BY <1>1 DEF Alive
    <3>8. QED
      BY <3>5, <3>6, <3>7 DEF OwnedHere, Alive
  <2>4. QED
    BY <2>2, <2>3
<1>7. ASSUME ~trouble', backend # "memory" PROVE OwnedThere'
  <2>1. OwnedThere /\ PInv
    BY <1>1, <1>7, OwnerInvIs DEF OInv
  <2>2. Reach(r)
    BY <1>1, <1>7, IngestAssumption DEF OInv, BackendInv, Reach, TypeOK
  <2>3. s \in {"duplicate", "claim"}
    BY <1>2, <2>2
  <2>4. n \notin stream /\ runs[n] = 0
    BY <1>1, <1>3, <2>1, Known DEF PInv, RunsPart
  <2>5. ASSUME NEW k, k = n PROVE ~Counts(k)'
    BY <1>1, <2>3, <2>4, <2>5 DEF Counts
  <2>6. ASSUME NEW k \in DOMAIN sub, Counts(k)' PROVE idemShared'[sub'[k].item] = k
    BY <1>1, <2>1, <2>6 DEF OwnedThere, Counts
  <2>7. QED
    BY <1>1, <2>5, <2>6 DEF OwnedThere
<1>8. QED
  BY <1>1, <1>4, <1>5, <1>6, <1>7, OwnerInvIs DEF OInv

(* A worker's step touches no key and no submission, and processes only     *)
(* what was in its process's queue or in a stream.                          *)
LEMMA OnceUnmoved ==
  ASSUME TypeOK, OInv, BackendInv', ~trouble' => ~trouble /\ PInv',
         UNCHANGED <<backend, life, sub, idem, idemShared>>, stream' \subseteq stream,
         \A k \in DOMAIN sub : runs'[k] > 0 => runs[k] > 0 \/ k \in stream \/ sub[k].st = "accepted"
  PROVE  OInv'
<1>1. OwnedHere => OwnedHere'
  BY DEF OwnedHere, Alive
<1>2. \A k \in DOMAIN sub : Counts(k)' => Counts(k)
  BY DEF Counts
<1>3. OwnedThere => OwnedThere'
  BY <1>2 DEF OwnedThere
<1>4. QED
  BY <1>1, <1>3, OwnerInvIs DEF OInv

LEMMA OnceProcess ==
  ASSUME TypeOK, GivenInv, OInv, NEW w \in Worker, NEW group, Handles(w, group)
  PROVE  OInv'
<1>1. /\ group \subseteq hand[w].items
      /\ UNCHANGED <<backend, life, sub, idem, idemShared, queue, stream, unread, pending>>
      /\ (trouble => trouble')
      /\ \/ away' = away /\ trouble' = trouble
         \/ away' = [away EXCEPT ![Home(w)] = TRUE] /\ trouble' /\ backend = "redis"
  BY DEF Handles, setting, keys
<1>2. PICK r \in Replica : w = <<r, "local">> \/ w = <<r, "redis">>
  BY DEF Worker
<1>3. Leaves(w, group)
  BY HandleLeaves
<1>4. BackendInv'
  <2>1. \A q \in Replica : away'[q] => trouble'
    BY <1>1 DEF OInv, BackendInv, TypeOK
  <2>2. ASSUME backend = "memory" PROVE \A q \in Replica : RedisHand(q)' = Idle
    <3>1. \A q \in Replica : RedisHand(q) = Idle
      BY <2>2 DEF OInv, BackendInv, RedisHand
    <3>2. w # <<r, "redis">>
      BY <1>1, <3>1 DEF Handles, RedisHand, Idle
    <3>3. \A q \in Replica : <<q, "redis">> \in Worker /\ <<q, "redis">> # w
      BY <1>2, <3>2 DEF Worker
    <3>4. QED
      BY <1>3, <3>1, <3>3 DEF Leaves, RedisHand
  <2>3. backend = "memory" => ~trouble' /\ stream' = {}
    BY <1>1 DEF OInv, BackendInv
  <2>4. QED
    BY <1>1, <2>1, <2>2, <2>3 DEF OInv, BackendInv, RedisHand
<1>5. ~trouble' => ~trouble /\ PInv'
  BY <1>1, <1>2, PlaceLocalProcess, PlaceRedisProcess DEF OInv
<1>6. ASSUME ~trouble', NEW k \in DOMAIN sub, runs'[k] > 0
      PROVE  runs[k] > 0 \/ k \in stream \/ sub[k].st = "accepted"
  <2>1. PInv
    BY <1>1, <1>6 DEF OInv
  <2>2. CASE k \in group
    <3>1. k \in LocalHand(r).items \/ k \in RedisHand(r).items
      BY <1>1, <1>2, <2>2 DEF LocalHand, RedisHand
    <3>2. QED
      BY <2>1, <3>1, HeldIs, Known DEF PInv, LocalPart, HeldPart
  <2>3. CASE k \notin group
    BY <1>6, <2>3, HandleCounts, Known
  <2>4. QED
    BY <2>2, <2>3
<1>7. CASE trouble'
  BY <1>4, <1>7 DEF OInv
<1>8. CASE ~trouble'
  BY <1>1, <1>4, <1>5, <1>6, <1>8, OnceUnmoved
<1>9. QED
  BY <1>7, <1>8

LEMMA OnceWorker ==
  ASSUME TypeOK, GivenInv, KInv, OInv, NEW r \in Replica,
         LocalWorker(r) \/ RedisWorker(r) \/ Dropped(r) \/ Recover(r)
  PROVE  OInv'
<1>1. CASE Process(<<r, "local">>) \/ Process(<<r, "redis">>)
  BY <1>1, Hands, ProcessShape, OnceProcess
<1>2. CASE Drain(r) \/ TopUp(r)
  <2>1. UNCHANGED <<setting, life, away, sub, keys, stream, unread, pending, runs, trouble>>
    BY <1>2, LocalShape
  <2>2. \A q \in Replica : RedisHand(q)' = RedisHand(q)
    BY <1>2, LocalShape, LocalLeavesRedis
  <2>3. BackendInv'
    BY <2>1, <2>2 DEF OInv, BackendInv, RedisHand, setting
  <2>4. ~trouble' => ~trouble /\ PInv'
    BY <1>2, <2>1, PlaceLocal DEF OInv
  <2>5. QED
    BY <2>1, <2>3, <2>4, OnceUnmoved DEF setting, keys
<1>3. CASE Take(r)
  <2>1. PICK old, new : Takes(r, old, new)
    BY <1>3, TakeShape
  <2>2. /\ UNCHANGED <<setting, life, away, sub, keys, stream, runs>> /\ (trouble => trouble')
        /\ Reach(r)
    BY <2>1 DEF Takes
  <2>3. BackendInv'
    BY <2>2 DEF OInv, BackendInv, setting, Reach
  <2>4. ~trouble' => ~trouble /\ PInv'
    BY <2>1, <2>2, PlaceTake DEF OInv, KInv
  <2>5. QED
    BY <2>2, <2>3, <2>4, OnceUnmoved DEF setting, keys
<1>4. CASE Ack(r) \/ Dropped(r)
  <2>1. PICK acked, gone : GivesBack(r, acked, gone)
    BY <1>4, GivesBackShape
  <2>2. /\ UNCHANGED <<setting, life, sub, keys, unread, runs>> /\ stream' \subseteq stream
        /\ RedisHand(r).phase # "idle"
        /\ \/ trouble' /\ away' = [away EXCEPT ![r] = TRUE]
           \/ trouble' = trouble /\ away' = away
    BY <2>1 DEF GivesBack
  <2>3. backend # "memory"
    BY <2>2 DEF OInv, BackendInv, RedisHand, Idle
  <2>4. BackendInv'
    BY <2>2, <2>3 DEF OInv, BackendInv, setting, TypeOK
  <2>5. ~trouble' => ~trouble /\ PInv'
    BY <2>1, <2>2, PlaceGivesBack DEF OInv
  <2>6. QED
    BY <2>2, <2>4, <2>5, OnceUnmoved DEF setting, keys
<1>5. CASE Recover(r)
  <2>1. /\ UNCHANGED <<setting, life, sub, keys, queues, runs, trouble>>
        /\ away' = [away EXCEPT ![r] = FALSE]
    BY <1>5 DEF Recover
  <2>2. BackendInv'
    BY <2>1 DEF OInv, BackendInv, setting, queues, TypeOK
  <2>3. PInv => PInv'
    BY <2>1 DEF PInv, RunsPart, LocalPart, ApartPart, StreamPart, HeldPart, LocalHand, RedisHand,
                HeldBy, queues
  <2>4. QED
    BY <2>1, <2>2, <2>3, OnceUnmoved DEF setting, keys, queues, OInv
<1>6. QED
  BY <1>1, <1>2, <1>3, <1>4, <1>5 DEF LocalWorker, RedisWorker

LEMMA OnceEnds ==
  ASSUME TypeOK, OInv, NEW r \in Replica, Ends(r)
  PROVE  OInv'
<1>1. /\ DOMAIN sub' = DOMAIN sub
      /\ \A n \in DOMAIN sub : /\ sub'[n].item = sub[n].item /\ sub'[n].at = sub[n].at
                               /\ sub'[n].st = IF sub[n].at = r /\ sub[n].st \in Waiting
                                               THEN "gone" ELSE sub[n].st
  BY EndsShape
<1>2. /\ backend' = backend /\ UNCHANGED <<idemShared, stream, unread, pending, runs>>
      /\ life' = [life EXCEPT ![r] = "down"]
      /\ away' = [away EXCEPT ![r] = FALSE]
      /\ idem' = [idem EXCEPT ![r] = [i \in Item |-> 0]]
      /\ trouble' = (trouble \/ RedisHand(r).done # {})
  BY DEF Ends, setting, RedisHand
<1>3. BackendInv'
  <2>1. \A q \in Replica : away'[q] => trouble'
    BY <1>2 DEF OInv, BackendInv, TypeOK
  <2>2. ASSUME backend = "memory"
        PROVE  ~trouble' /\ \A q \in Replica : RedisHand(q)' = Idle
    <3>1. \A q \in Replica : RedisHand(q) = Idle
      BY <2>2 DEF OInv, BackendInv, RedisHand
    <3>2. ~trouble'
      <4>1. ~trouble
        BY <2>2 DEF OInv, BackendInv
      <4>2. RedisHand(r).done = {}
        BY <3>1 DEF Idle
      <4>3. QED
        BY <1>2, <4>1, <4>2
    <3>3. QED
      BY <3>1, <3>2, EndsHands
  <2>3. backend = "memory" => \A n \in DOMAIN sub :
          sub'[n].st \in {"inline", "accepted", "written", "duplicate", "shed", "gone"}
    BY <1>1 DEF OInv, BackendInv
  <2>4. QED
    BY <1>1, <1>2, <2>1, <2>2, <2>3 DEF OInv, BackendInv, RedisHand
<1>4. ~trouble' => ~trouble /\ PInv'
  BY <1>2, PlaceEnds DEF OInv
<1>5. ASSUME OwnedHere PROVE OwnedHere'
  <2>1. \A q \in Replica : /\ Alive(q)' => Alive(q) /\ q # r
                           /\ q # r => idem'[q] = idem[q]
    BY <1>2 DEF Alive, TypeOK
  <2>2. \A n \in DOMAIN sub : (sub'[n].st # "duplicate") <=> (sub[n].st # "duplicate")
    BY <1>1 DEF Waiting
  <2>3. QED
    BY <1>1, <1>5, <2>1, <2>2, Known DEF OwnedHere, Alive
<1>6. ASSUME OwnedThere PROVE OwnedThere'
  <2>1. \A n \in DOMAIN sub : Counts(n)' => Counts(n)
    BY <1>1, <1>2 DEF Counts
  <2>2. QED
    BY <1>1, <1>2, <1>6, <2>1 DEF OwnedThere
<1>7. QED
  BY <1>2, <1>3, <1>4, <1>5, <1>6, OwnerInvIs DEF OInv

LEMMA OnceNext == TypeOK /\ GivenInv /\ KInv /\ OInv /\ [Next]_vars => OInv'
<1> SUFFICES ASSUME TypeOK, GivenInv, KInv, OInv, [Next]_vars PROVE OInv'
  OBVIOUS
<1>1. ASSUME UNCHANGED <<backend, away, sub, keys, queues, runs, trouble>>,
             \A q \in Replica : Alive(q)' => Alive(q)
      PROVE  OInv'
  <2>1. BackendInv'
    BY <1>1 DEF OInv, BackendInv, queues
  <2>2. PInv => PInv'
    BY <1>1 DEF PInv, RunsPart, LocalPart, ApartPart, StreamPart, HeldPart, LocalHand, RedisHand,
                HeldBy, queues
  <2>3. OwnedHere => OwnedHere'
    BY <1>1, Known DEF OwnedHere, keys
  <2>4. OwnedThere => OwnedThere'
    BY <1>1 DEF OwnedThere, Counts, keys, queues
  <2>5. QED
    BY <1>1, <2>1, <2>2, <2>3, <2>4, OwnerInvIs DEF OInv
<1>2. CASE UNCHANGED vars
  BY <1>1, <1>2 DEF vars, setting, Alive
<1>3. ASSUME NEW r \in Replica, StopBegins(r) PROVE OInv'
  <2>1. /\ life' = [life EXCEPT ![r] = "draining"] /\ life[r] # "down"
        /\ UNCHANGED <<setting, away, sub, keys, queues, runs, trouble>>
    BY <1>3 DEF StopBegins
  <2>2. \A q \in Replica : Alive(q)' => Alive(q)
    BY <2>1 DEF TypeOK, Alive
  <2>3. QED
    BY <1>1, <2>1, <2>2 DEF setting
<1>4. CASE Next
  BY <1>3, <1>4, NextShapes, OnceRequest, OnceSubmit, OnceWorker, OnceEnds
<1>5. QED
  BY <1>2, <1>4

(* The submission a key belongs to is the only one that gets anywhere, and  *)
(* it is in one place until it is processed.                                *)
LEMMA OnceIs ==
  ASSUME TypeOK, OInv
  PROVE  OncePerKey
<1> SUFFICES ASSUME NEW m \in DOMAIN sub, NEW n \in DOMAIN sub, sub[m].item = sub[n].item,
                    IF backend = "memory" THEN sub[m].at = sub[n].at ELSE ~trouble
             PROVE  /\ runs[n] <= 1
                    /\ m # n => runs[m] = 0 \/ runs[n] = 0
  BY DEF OncePerKey
<1>1. ~trouble /\ PInv /\ OwnerInv
  BY DEF OInv, BackendInv
<1>2. /\ m \in Ticket /\ n \in Ticket /\ runs[m] \in Nat /\ runs[n] \in Nat /\ runs[n] <= 1
  BY <1>1, Known DEF PInv, RunsPart
<1>3. \A k \in {m, n} : runs[k] > 0 => sub[k].st # "duplicate"
  BY <1>1, <1>2 DEF PInv, RunsPart, Untouched
<1>4. CASE backend = "memory"
  <2>1. OwnedHere
    BY <1>1, <1>4, OwnerInvIs
  <2>2. QED
    BY <1>2, <1>3, <1>4, <2>1 DEF OwnedHere
<1>5. CASE backend # "memory"
  <2>1. OwnedThere
    BY <1>1, <1>5, OwnerInvIs
  <2>2. \A k \in {m, n} : runs[k] > 0 => idemShared[sub[k].item] = k
    BY <2>1 DEF OwnedThere, Counts
  <2>3. QED
    BY <1>2, <2>2
<1>6. QED
  BY <1>4, <1>5

(* "A phone that retries on a bad network files one report, not five": in   *)
(* one process always, over the streams as long as no call to Redis fails   *)
(* and no batch is taken from a worker about to acknowledge it, one         *)
(* submission of a key is processed, once, whatever crashes or stops.       *)
THEOREM OncePerKeySafe == Spec => []OncePerKey
<1>1. Init => OInv
  <2> SUFFICES ASSUME Init PROVE OInv
    OBVIOUS
  <2>1. DOMAIN sub = {} /\ \A w \in Worker : hand[w] = Idle
    BY EmptySeq DEF Init
  <2>2. \A r \in Replica : RedisHand(r) = Idle /\ LocalHand(r) = Idle
    BY <2>1 DEF Worker, RedisHand, LocalHand
  <2>3. BackendInv
    BY <2>1, <2>2 DEF Init, BackendInv, RedisHand
  <2>4. PInv
    <3>1. RunsPart
      BY <2>1 DEF Init, RunsPart
    <3>2. LocalPart /\ ApartPart /\ StreamPart
      BY <2>2 DEF Init, LocalPart, ApartPart, StreamPart, Idle
    <3>3. HeldPart
      BY <2>2, HeldIs DEF HeldPart, Idle
    <3>4. QED
      BY <3>1, <3>2, <3>3 DEF PInv
  <2>5. OwnerInv
    BY <2>1, OwnerInvIs DEF OwnedHere, OwnedThere
  <2>6. QED
    BY <2>3, <2>4, <2>5 DEF OInv
<1>2. TypeOK /\ GivenInv /\ KInv /\ OInv /\ [Next]_vars => OInv'
  BY OnceNext
<1>3. TypeOK /\ OInv => OncePerKey
  BY OnceIs
<1>4. QED
  BY <1>1, <1>2, <1>3, KeptAlways, PTL DEF Spec
=============================================================================
