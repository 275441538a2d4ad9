------------------------- MODULE SurgeLadderProofs -------------------------
(***************************************************************************)
(* Theorems about SurgeLadder, for any offers, loads, evaluations and      *)
(* officers in flight and number of aid requests.                          *)
(*                                                                         *)
(* A call works through its steps from what it read at its beginning, and  *)
(* writes the row last.  Sane says what a call holds at every step, calls  *)
(* that overlap or fail included; Serial says what it knows of the         *)
(* requests as long as calls do not overlap.  Every step of a call is an   *)
(* instance of CallKeeps, every other change of the requests of RowsKeep.  *)
(***************************************************************************)
EXTENDS SurgeLadder, SequenceTheorems, TLAPS

FreeIn(o, rows) == \A n \in DOMAIN rows : rows[n].outcome = "none" => rows[n].offer # o
Once(rows) == \A m, n \in DOMAIN rows :
  rows[m].outcome = "none" /\ rows[n].outcome = "none" /\ rows[m].offer = rows[n].offer => m = n

(* What a call is to answer is a request that was made; the row is written  *)
(* only by a call that decided, and a call that is over holds nothing.      *)
Sane(r, rows) ==
  /\ r.pc = "idle" => r.then = "idle"
  /\ r.pc = "write" => r.then = "write"
  /\ r.due \subseteq DOMAIN rows
  /\ r.pc \in {"outcome", "close", "link"} => r.now \in DOMAIN rows

(* What a call that nothing overlaps is about to ask for, or has asked for  *)
(* and not yet linked, is asked for by nobody.                              *)
Clear(r, rows) ==
  /\ r.pc \in {"insert", "link"} => \A o \in r.want : FreeIn(o, rows)
  /\ r.pc = "link" => FreeIn(rows[r.now].offer, rows) /\ rows[r.now].offer \notin r.want

(* The requests of TypeOK that a step of a call can touch.                  *)
Shapes ==
  /\ scene \in Scenarios /\ load \in Loads /\ level \in Level
  /\ counters \in Counters /\ memory \in Level
  /\ aid \in Seq(Aid) /\ Len(aid) <= MaxAid /\ hand \in [Actor -> Hand]

Serial ==
  /\ Once(aid)
  /\ \A a \in Actor : Clear(hand[a], aid)
  /\ \A a, b \in Actor : hand[a].pc # "idle" /\ hand[b].pc # "idle" => a = b

Inv ==
  /\ Shapes
  /\ \A a \in Actor : Sane(hand[a], aid)
  /\ "races" \notin scene => Serial

----------------------------------------------------------------------------
LEMMA IdleIsSane ==
  ASSUME NEW rows
  PROVE  Idle \in Hand /\ Sane(Idle, rows) /\ Clear(Idle, rows)
<1>1. MaxAid \in Nat
  BY SurgeAssumption
<1>2. Zero \in Counters
  BY SurgeAssumption DEF Zero, Counters
<1>3. Idle \in Hand
  BY <1>1, <1>2 DEF Idle, Hand, Level
<1>4. Sane(Idle, rows)
  BY DEF Idle, Sane
<1>5. Clear(Idle, rows)
  BY DEF Idle, Clear
<1>6. QED
  BY <1>3, <1>4, <1>5

(* What an endpoint, or a call that goes on after its write, asks for.      *)
LEMMA AskingIsSane ==
  ASSUME NEW to \in Level, NEW rows
  PROVE  /\ [Idle EXCEPT !.pc = "ask", !.to = to] \in Hand
         /\ Sane([Idle EXCEPT !.pc = "ask", !.to = to], rows)
         /\ Clear([Idle EXCEPT !.pc = "ask", !.to = to], rows)
<1> DEFINE r == [Idle EXCEPT !.pc = "ask", !.to = to]
<1>1. r \in Hand
  BY IdleIsSane DEF Hand
<1>2. r.pc = "ask" /\ r.then = "idle" /\ r.due = {}
  BY DEF Idle
<1> HIDE DEF r
<1>3. Sane(r, rows) /\ Clear(r, rows)
  BY <1>2 DEF Sane, Clear
<1>4. QED
  BY <1>1, <1>3 DEF r

(* One call takes a step; when calls do not overlap it is the only one      *)
(* under way.                                                               *)
Alone(a) == \A b \in Actor : b # a => hand[b].pc = "idle"

LEMMA BusyIsAlone ==
  ASSUME Inv, "races" \notin scene, NEW a \in Actor, hand[a].pc # "idle"
  PROVE  Alone(a)
  BY DEF Inv, Serial, Alone

LEMMA QuietIsAlone ==
  ASSUME "races" \notin scene, Quiet, NEW a \in Actor
  PROVE  Alone(a)
  BY DEF Quiet, AllIdle, At, Alone

LEMMA CallKeeps ==
  ASSUME Inv, NEW a \in Actor, NEW r \in Hand, hand' = [hand EXCEPT ![a] = r],
         UNCHANGED <<scene, load>>,
         level' \in Level, counters' \in Counters, memory' \in Level,
         aid' \in Seq(Aid), Len(aid') <= MaxAid, DOMAIN aid \subseteq DOMAIN aid',
         Sane(r, aid'),
         "races" \notin scene =>
           /\ Alone(a) /\ Once(aid')
           /\ Clear(r, aid')
  PROVE  Inv'
<1>1. hand \in [Actor -> Hand]
  BY DEF Inv, Shapes
<1>2. hand' \in [Actor -> Hand] /\ \A b \in Actor : hand'[b] = IF b = a THEN r ELSE hand[b]
  BY <1>1
<1>3. Shapes'
  BY <1>2 DEF Inv, Shapes
<1>4. ASSUME NEW b \in Actor PROVE Sane(hand'[b], aid')
  <2>1. CASE b = a
    BY <1>2, <2>1
  <2>2. CASE b # a
    <3>1. Sane(hand[b], aid) /\ hand'[b] = hand[b]
      BY <1>2, <2>2 DEF Inv
    <3>2. QED
      BY <3>1 DEF Sane
  <2>3. QED
    BY <2>1, <2>2
<1>5. ASSUME "races" \notin scene PROVE Serial'
  <2>1. Alone(a)
    BY <1>5
  <2>2. ASSUME NEW b \in Actor PROVE Clear(hand'[b], aid')
    <3>1. CASE b = a
      BY <1>2, <1>5, <3>1
    <3>2. CASE b # a
      <4>1. hand'[b] = hand[b] /\ hand[b].pc = "idle"
        BY <1>2, <2>1, <3>2 DEF Alone
      <4>2. hand[b].then = "idle"
        BY <4>1 DEF Inv, Sane
      <4>3. QED
        BY <4>1, <4>2 DEF Clear
    <3>3. QED
      BY <3>1, <3>2
  <2>3. \A b \in Actor : b # a => hand'[b].pc = "idle"
    BY <1>2, <2>1 DEF Alone
  <2>4. QED
    BY <1>5, <2>2, <2>3 DEF Serial
<1>6. QED
  BY <1>3, <1>4, <1>5 DEF Inv

(* The requests that are outstanding become fewer, and keep their offers.   *)
Fewer(new, old) ==
  /\ DOMAIN new = DOMAIN old
  /\ \A n \in DOMAIN old : /\ new[n].offer = old[n].offer
                           /\ new[n].outcome = "none" => old[n].outcome = "none"

LEMMA FewerStays ==
  ASSUME NEW old, NEW new, Fewer(new, old), Once(old)
  PROVE  Once(new)
  BY DEF Fewer, Once

LEMMA FewerIsFree ==
  ASSUME NEW old, NEW new, Fewer(new, old), NEW o, FreeIn(o, old)
  PROVE  FreeIn(o, new)
  BY DEF Fewer, FreeIn

LEMMA FewerIsClear ==
  ASSUME NEW old, NEW new, Fewer(new, old), NEW r, Clear(r, old), r.pc # "link"
  PROVE  Clear(r, new)
  BY FewerIsFree DEF Clear

(* The rows change in nothing that this reads.                              *)
Same(new, old) ==
  /\ DOMAIN new = DOMAIN old
  /\ \A n \in DOMAIN old : new[n].offer = old[n].offer /\ new[n].outcome = old[n].outcome

LEMMA SameIsClear ==
  ASSUME NEW old, NEW new, Same(new, old), NEW r, Sane(r, old), Clear(r, old)
  PROVE  Fewer(new, old) /\ Clear(r, new)
<1>1. Fewer(new, old)
  BY DEF Same, Fewer
<1>2. r.pc = "link" => new[r.now].offer = old[r.now].offer
  BY DEF Same, Sane
<1>3. QED
  BY <1>1, <1>2, FewerIsFree DEF Clear

(* One row of the requests changes.                                         *)
LEMMA RowChanges ==
  ASSUME NEW rows \in Seq(Aid), NEW n \in DOMAIN rows, NEW x \in Aid,
         x.offer = rows[n].offer, x.outcome = "none" => rows[n].outcome = "none"
  PROVE  /\ [rows EXCEPT ![n] = x] \in Seq(Aid)
         /\ Len([rows EXCEPT ![n] = x]) = Len(rows)
         /\ Fewer([rows EXCEPT ![n] = x], rows)
         /\ x.outcome = rows[n].outcome => Same([rows EXCEPT ![n] = x], rows)
<1> DEFINE new == [rows EXCEPT ![n] = x]
<1>1. rows \in Seq(Aid) /\ n \in 1..Len(rows) /\ DOMAIN rows = 1..Len(rows)
  BY LenProperties
<1>2. new \in Seq(Aid) /\ Len(new) = Len(rows)
  BY <1>1, ExceptSeq
<1>3. Fewer(new, rows)
  BY DEF Fewer
<1>4. x.outcome = rows[n].outcome => Same(new, rows)
  BY DEF Same
<1>5. QED
  BY <1>2, <1>3, <1>4

LEMMA RowIsAid ==
  ASSUME Shapes, NEW n \in DOMAIN aid
  PROVE  aid[n] \in Aid
<1>1. aid \in Seq(Aid) /\ n \in 1..Len(aid)
  BY LenProperties DEF Shapes
<1>2. QED
  BY <1>1, ElementOfSeq

(* Outside the calls: the rows change in nothing that this reads.           *)
LEMMA RowsKeep ==
  ASSUME Inv, UNCHANGED <<scene, state, hand>>, load' \in Loads,
         aid' \in Seq(Aid), Len(aid') <= MaxAid, Same(aid', aid)
  PROVE  Inv'
<1>1. UNCHANGED <<level, counters, memory>>
  BY DEF state
<1>2. Shapes'
  BY <1>1 DEF Inv, Shapes
<1>3. \A a \in Actor : Sane(hand[a], aid')
  BY DEF Inv, Sane, Same
<1>4. "races" \notin scene => Once(aid') /\ \A a \in Actor : Clear(hand[a], aid')
  <2>1. Fewer(aid', aid)
    BY DEF Same, Fewer
  <2>2. QED
    BY <2>1, FewerStays, SameIsClear DEF Inv, Serial
<1>5. "races" \notin scene => Serial'
  BY <1>1, <1>4 DEF Inv, Serial
<1>6. QED
  BY <1>1, <1>2, <1>3, <1>5 DEF Inv

----------------------------------------------------------------------------
(* The ladder itself: the counters and the level stay in their range.       *)
LEMMA CountedInRange ==
  ASSUME NEW l \in Level, NEW c \in Counters, NEW pressed
  PROVE  Counted(l, c, pressed) \in Counters
<1>1. c.up + 1 \in Nat /\ c.calm + 1 \in Nat /\ DescendAfter \in Nat \ {0}
  BY SurgeAssumption DEF Counters
<1>2. Least(c.up + 1, 3) \in 0..3 /\ Least(c.calm + 1, DescendAfter) \in 0..DescendAfter
  BY <1>1 DEF Least
<1>3. 0 \in 0..3 /\ 0 \in 0..DescendAfter
  BY <1>1
<1>4. QED
  BY <1>2, <1>3 DEF Counted, Counters

LEMMA RungInRange ==
  ASSUME NEW l \in Level, NEW c, NEW pressed
  PROVE  Rung(l, c, pressed) \in Level
<1>1. CASE Pressed(l, pressed) /\ c.up >= ClimbAfter(l + 1) /\ l # 3
  <2>1. Rung(l, c, pressed) = l + 1
    BY <1>1 DEF Rung
  <2>2. l < 4
    BY <1>1 DEF Pressed
  <2>3. QED
    BY <1>1, <2>1, <2>2 DEF Level
<1>2. CASE ~Pressed(l, pressed) /\ l > 0 /\ c.calm >= DescendAfter
  <2>1. Rung(l, c, pressed) = l - 1
    BY <1>2 DEF Rung
  <2>2. QED
    BY <1>2, <2>1 DEF Level
<1>3. CASE /\ ~(Pressed(l, pressed) /\ c.up >= ClimbAfter(l + 1) /\ l # 3)
           /\ ~(~Pressed(l, pressed) /\ l > 0 /\ c.calm >= DescendAfter)
  BY <1>3 DEF Rung
<1>4. QED
  BY <1>1, <1>2, <1>3

LEMMA NewCountersInRange ==
  ASSUME NEW l \in Level, NEW c \in Counters, NEW pressed
  PROVE  NewCounters(l, c, pressed) \in Counters
<1>1. Zero \in Counters
  BY SurgeAssumption DEF Zero, Counters
<1>2. Counted(l, c, pressed) \in Counters
  BY CountedInRange
<1>3. QED
  BY <1>1, <1>2 DEF NewCounters

----------------------------------------------------------------------------
LEMMA HandIsSound ==
  ASSUME Inv, NEW a \in Actor
  PROVE  /\ hand[a] \in Hand /\ Sane(hand[a], aid)
         /\ "races" \notin scene => Clear(hand[a], aid)
  BY DEF Inv, Shapes, Serial

(* A step that leaves the rows and the level alone.                         *)
LEMMA HandKeeps ==
  ASSUME Inv, NEW a \in Actor, NEW r \in Hand, hand' = [hand EXCEPT ![a] = r],
         UNCHANGED <<scene, load, state, aid>>, Sane(r, aid),
         "races" \notin scene => Alone(a) /\ Clear(r, aid)
  PROVE  Inv'
<1>1. UNCHANGED <<level, counters, memory, aid>>
  BY DEF state
<1>2. /\ level' \in Level /\ counters' \in Counters /\ memory' \in Level
      /\ aid' \in Seq(Aid) /\ Len(aid') <= MaxAid /\ DOMAIN aid \subseteq DOMAIN aid'
  BY <1>1 DEF Inv, Shapes
<1>3. "races" \notin scene => Once(aid')
  BY <1>1 DEF Inv, Serial
<1>4. Sane(r, aid') /\ ("races" \notin scene => Alone(a) /\ Clear(r, aid'))
  BY <1>1
<1>5. UNCHANGED <<scene, load>>
  OBVIOUS
<1>6. QED
  BY <1>2, <1>3, <1>4, <1>5, CallKeeps

(* A step of a call under way that leaves the level alone and, but for the  *)
(* requests it makes, only closes what is outstanding.                      *)
CallStep(a, r) ==
  /\ r \in Hand /\ hand' = [hand EXCEPT ![a] = r] /\ UNCHANGED <<scene, load, state>>
  /\ aid' \in Seq(Aid) /\ Len(aid') <= MaxAid /\ Fewer(aid', aid)
  /\ Sane(r, aid')
  /\ r.pc # "link" /\ ("races" \notin scene => Clear(r, aid))

LEMMA CallStepKeeps ==
  ASSUME Inv, NEW a \in Actor, hand[a].pc # "idle", NEW r, CallStep(a, r)
  PROVE  Inv'
<1>1. UNCHANGED <<scene, load, level, counters, memory>>
  BY DEF state, CallStep
<1>2. level' \in Level /\ counters' \in Counters /\ memory' \in Level
  BY <1>1 DEF Inv, Shapes
<1>3. /\ r \in Hand /\ hand' = [hand EXCEPT ![a] = r] /\ Fewer(aid', aid)
      /\ aid' \in Seq(Aid) /\ Len(aid') <= MaxAid /\ Sane(r, aid')
  BY DEF CallStep
<1>4. DOMAIN aid \subseteq DOMAIN aid'
  BY <1>3 DEF Fewer
<1>5. ASSUME "races" \notin scene
      PROVE  /\ Alone(a) /\ Once(aid')
             /\ Clear(r, aid')
  <2>1. Alone(a)
    BY <1>5, BusyIsAlone
  <2>2. Once(aid')
    BY <1>3, <1>5, FewerStays DEF Inv, Serial
  <2>3. Clear(r, aid) /\ r.pc # "link"
    BY <1>5 DEF CallStep
  <2>4. Clear(r, aid')
    BY <1>3, <2>3, FewerIsClear
  <2>5. QED
    BY <2>1, <2>2, <2>4
<1>6. QED
  BY <1>1, <1>2, <1>3, <1>4, <1>5, CallKeeps

LEMMA BeginKeeps ==
  ASSUME Inv, NEW e \in Evaluator, Begin(e)
  PROVE  Inv'
<1> DEFINE r == [Idle EXCEPT !.pc = "resolve", !.level = level, !.due = Due(level),
                             !.counters = counters, !.load = load]
<1>1. e \in Actor
  BY DEF Actor
<1>2. Due(level) \subseteq DOMAIN aid /\ DOMAIN aid \subseteq 1..MaxAid
  <2>1. DOMAIN aid = 1..Len(aid) /\ Len(aid) \in Nat /\ Len(aid) <= MaxAid /\ MaxAid \in Nat
    BY LenProperties, SurgeAssumption DEF Inv, Shapes
  <2>2. QED
    BY <2>1 DEF Due, Outstanding
<1>3. level \in Level /\ counters \in Counters /\ load \in SUBSET (1..4)
  BY SurgeAssumption DEF Inv, Shapes
<1>4. Idle \in Hand
  BY IdleIsSane
<1>5. r \in Hand
  <2>1. Due(level) \in SUBSET (1..MaxAid)
    BY <1>2
  <2> HIDE DEF Due
  <2>2. QED
    BY <1>3, <1>4, <2>1 DEF Hand
<1>6. /\ r.pc = "resolve" /\ r.level = level /\ r.due = Due(level) /\ r.then = "idle"
  BY DEF Idle
<1>7. hand' = [hand EXCEPT ![e] = r] /\ UNCHANGED <<scene, load, state, aid>> /\ Quiet
  BY DEF Begin
<1> HIDE DEF r
<1>8. Sane(r, aid) /\ Clear(r, aid)
  BY <1>2, <1>6 DEF Sane, Clear
<1>9. "races" \notin scene => Alone(e)
  BY <1>1, <1>7, QuietIsAlone
<1>10. QED
  BY <1>1, <1>5, <1>7, <1>8, <1>9, HandKeeps

(* Units are staged for a request that was made, and stay staged.           *)
LEMMA ResolveKeeps ==
  ASSUME Inv, NEW e \in Evaluator, Resolve(e)
  PROVE  Inv'
<1>1. e \in Actor
  BY DEF Actor
<1>2. hand[e] \in Hand /\ Sane(hand[e], aid) /\ hand[e].pc = "resolve"
  BY <1>1, HandIsSound DEF Resolve, At
<1>3. PICK n \in hand[e].due, ok \in BOOLEAN :
        /\ hand' = [hand EXCEPT ![e] = [@ EXCEPT !.pc = "outcome", !.due = hand[e].due \ {n},
                                                  !.now = n, !.ok = ok]]
        /\ aid' = [aid EXCEPT ![n] = [@ EXCEPT !.staged = aid[n].staged \/ ok]]
  BY DEF Resolve
<1>4. UNCHANGED <<scene, load, state>>
  BY DEF Resolve
<1> DEFINE r == [hand[e] EXCEPT !.pc = "outcome", !.due = hand[e].due \ {n}, !.now = n, !.ok = ok]
           x == [aid[n] EXCEPT !.staged = aid[n].staged \/ ok]
<1>5. n \in DOMAIN aid /\ aid[n] \in Aid /\ aid \in Seq(Aid) /\ Len(aid) <= MaxAid
  BY <1>2, RowIsAid DEF Sane, Inv, Shapes
<1>6. x \in Aid /\ x.offer = aid[n].offer /\ x.outcome = aid[n].outcome
  BY <1>5 DEF Aid
<1>7. r \in Hand
  <2>1. hand[e].due \in SUBSET (1..MaxAid) /\ MaxAid \in Nat
    BY <1>2, SurgeAssumption DEF Hand
  <2>2. hand[e].due \ {n} \in SUBSET (1..MaxAid) /\ n \in 0..MaxAid
    BY <2>1
  <2>3. QED
    BY <1>2, <2>2 DEF Hand
<1>8. /\ r.pc = "outcome" /\ r.due \subseteq hand[e].due /\ r.now = n /\ r.then = hand[e].then
  BY <1>2 DEF Hand
<1>9. hand' = [hand EXCEPT ![e] = r] /\ aid' = [aid EXCEPT ![n] = x]
  BY <1>3
<1> HIDE DEF r, x
<1>10. aid' \in Seq(Aid) /\ Len(aid') <= MaxAid /\ Fewer(aid', aid)
  BY <1>5, <1>6, <1>9, RowChanges
<1>11. CallStep(e, r)
  <2>1. Sane(r, aid')
    BY <1>2, <1>5, <1>8, <1>10 DEF Sane, Fewer
  <2>2. Clear(r, aid) /\ r.pc # "link"
    BY <1>8 DEF Clear
  <2>3. QED
    BY <1>4, <1>7, <1>9, <1>10, <2>1, <2>2 DEF CallStep
<1>12. QED
  BY <1>1, <1>2, <1>11, CallStepKeeps

LEMMA OutcomeKeeps ==
  ASSUME Inv, NEW e \in Evaluator, Outcome(e)
  PROVE  Inv'
<1> DEFINE n == hand[e].now
           ok == hand[e].ok
           r == [hand[e] EXCEPT !.pc = "close"]
           x == [aid[n] EXCEPT !.outcome = IF ok THEN "arrived" ELSE "declined"]
<1>1. e \in Actor
  BY DEF Actor
<1>2. hand[e] \in Hand /\ Sane(hand[e], aid) /\ hand[e].pc = "outcome"
  BY <1>1, HandIsSound DEF Outcome, At
<1>3. hand' = [hand EXCEPT ![e] = r] /\ aid' = [aid EXCEPT ![n] = x] /\ UNCHANGED <<scene, load, state>>
  BY DEF Outcome
<1>4. n \in DOMAIN aid /\ aid[n] \in Aid /\ aid \in Seq(Aid) /\ Len(aid) <= MaxAid
  BY <1>2, RowIsAid DEF Sane, Inv, Shapes
<1>5. x \in Aid /\ x.offer = aid[n].offer /\ x.outcome # "none"
  BY <1>4 DEF Aid
<1>6. r \in Hand
  BY <1>2 DEF Hand
<1>7. r.pc = "close" /\ r.due = hand[e].due /\ r.now = n /\ r.then = hand[e].then
  BY <1>2 DEF Hand
<1> HIDE DEF r, x, n, ok
<1>8. aid' \in Seq(Aid) /\ Len(aid') <= MaxAid /\ Fewer(aid', aid)
  BY <1>3, <1>4, <1>5, RowChanges
<1>9. CallStep(e, r)
  <2>1. Sane(r, aid')
    BY <1>2, <1>4, <1>7, <1>8 DEF Sane, Fewer
  <2>2. Clear(r, aid) /\ r.pc # "link"
    BY <1>7 DEF Clear
  <2>3. QED
    BY <1>3, <1>6, <1>8, <2>1, <2>2 DEF CallStep
<1>10. QED
  BY <1>1, <1>2, <1>9, CallStepKeeps

(* The agency request follows, unless an officer answered it.               *)
LEMMA CloseKeeps ==
  ASSUME Inv, NEW e \in Evaluator, Close(e)
  PROVE  Inv'
<1> DEFINE n == hand[e].now
           ok == hand[e].ok
           r == [hand[e] EXCEPT !.pc = "resolve", !.now = 0, !.ok = FALSE]
           x == [aid[n] EXCEPT
                   !.request = IF aid[n].request # "requested" THEN aid[n].request
                               ELSE IF ok THEN "fulfilled" ELSE "declined"]
<1>1. e \in Actor
  BY DEF Actor
<1>2. hand[e] \in Hand /\ Sane(hand[e], aid) /\ hand[e].pc = "close"
  BY <1>1, HandIsSound DEF Close, At
<1>3. hand' = [hand EXCEPT ![e] = r] /\ aid' = [aid EXCEPT ![n] = x] /\ UNCHANGED <<scene, load, state>>
  BY DEF Close
<1>4. n \in DOMAIN aid /\ aid[n] \in Aid /\ aid \in Seq(Aid) /\ Len(aid) <= MaxAid
  BY <1>2, RowIsAid DEF Sane, Inv, Shapes
<1>5. x \in Aid /\ x.offer = aid[n].offer /\ x.outcome = aid[n].outcome
  BY <1>4 DEF Aid
<1>6. r \in Hand
  <2>1. 0 \in 0..MaxAid
    BY SurgeAssumption
  <2>2. QED
    BY <1>2, <2>1 DEF Hand
<1>7. r.pc = "resolve" /\ r.due = hand[e].due /\ r.then = hand[e].then
  BY <1>2 DEF Hand
<1> HIDE DEF r, x, n, ok
<1>8. aid' \in Seq(Aid) /\ Len(aid') <= MaxAid /\ Fewer(aid', aid)
  BY <1>3, <1>4, <1>5, RowChanges
<1>9. CallStep(e, r)
  <2>1. Sane(r, aid')
    BY <1>2, <1>7, <1>8 DEF Sane, Fewer
  <2>2. Clear(r, aid) /\ r.pc # "link"
    BY <1>7 DEF Clear
  <2>3. QED
    BY <1>3, <1>6, <1>8, <2>1, <2>2 DEF CallStep
<1>10. QED
  BY <1>1, <1>2, <1>9, CallStepKeeps

LEMMA DecideKeeps ==
  ASSUME Inv, NEW e \in Evaluator, Decide(e)
  PROVE  Inv'
<1> DEFINE l == hand[e].level
           to == Rung(l, Counted(l, hand[e].counters, hand[e].load), hand[e].load)
           pc == CASE to > l /\ to \in {2, 3} -> "ask" [] to < l -> "stand_down" [] OTHER -> "write"
           c == NewCounters(l, hand[e].counters, hand[e].load)
           r == [hand[e] EXCEPT !.to = to, !.then = "write", !.level = 0, !.load = {},
                                !.counters = c, !.pc = pc]
<1>1. e \in Actor
  BY DEF Actor
<1>2. hand[e] \in Hand /\ Sane(hand[e], aid) /\ hand[e].pc = "resolve" /\ hand[e].due = {}
  BY <1>1, HandIsSound DEF Decide, At
<1>3. hand' = [hand EXCEPT ![e] = r] /\ UNCHANGED <<scene, load, state, aid>>
  BY DEF Decide
<1>4. l \in Level /\ hand[e].counters \in Counters
  BY <1>2 DEF Hand
<1>5. pc \in {"ask", "stand_down", "write"}
  OBVIOUS
<1>6. to \in Level
  BY <1>4, RungInRange
<1>7. c \in Counters
  BY <1>4, NewCountersInRange
<1> HIDE DEF to, pc, c
<1>8. r \in Hand
  <2>1. 0 \in Level /\ {} \in SUBSET (1..4)
    BY DEF Level
  <2>2. /\ pc \in {"idle", "resolve", "outcome", "close", "ask", "insert", "link", "stand_down",
                  "write", "memory"}
        /\ to \in Level
    BY <1>5, <1>6
  <2>3. QED
    BY <1>2, <1>7, <2>1, <2>2 DEF Hand
<1>9. r.pc = pc /\ r.then = "write" /\ r.to = to /\ r.due = {}
  BY <1>2 DEF Hand
<1> HIDE DEF r
<1>10. Sane(r, aid)
  BY <1>5, <1>9 DEF Sane
<1>11. ASSUME "races" \notin scene PROVE Alone(e) /\ Clear(r, aid)
  <2>1. Clear(r, aid)
    BY <1>5, <1>9 DEF Clear
  <2>2. QED
    BY <1>1, <1>2, <1>11, <2>1, BusyIsAlone
<1>12. QED
  BY <1>1, <1>3, <1>8, <1>10, <1>11, HandKeeps

----------------------------------------------------------------------------
(* What is to be asked for has nobody who was asked for it.                 *)
LEMMA AskKeeps ==
  ASSUME Inv, NEW a \in Actor, Ask(a)
  PROVE  Inv'
<1>1. hand[a] \in Hand /\ Sane(hand[a], aid) /\ hand[a].pc = "ask"
  BY HandIsSound DEF Ask, At
<1>2. PICK want \in SUBSET {o \in Askable(hand[a].to) : Free(o)} :
        hand' = [hand EXCEPT ![a] = [@ EXCEPT !.pc = "insert", !.want = want]]
  BY DEF Ask
<1>3. UNCHANGED <<scene, load, state, aid>>
  BY DEF Ask
<1> DEFINE r == [hand[a] EXCEPT !.pc = "insert", !.want = want]
<1>4. want \subseteq Offer /\ \A o \in want : FreeIn(o, aid)
  BY SurgeAssumption DEF Askable, Free, FreeIn, Outstanding
<1>5. r \in Hand
  BY <1>1, <1>4 DEF Hand
<1>6. r.pc = "insert" /\ r.want = want /\ r.due = hand[a].due /\ r.then = hand[a].then /\ r.to = hand[a].to
  BY <1>1 DEF Hand
<1>7. hand' = [hand EXCEPT ![a] = r]
  BY <1>2
<1> HIDE DEF r
<1>8. Sane(r, aid)
  BY <1>1, <1>6 DEF Sane
<1>9. ASSUME "races" \notin scene PROVE Alone(a) /\ Clear(r, aid)
  <2>1. Clear(r, aid)
    BY <1>4, <1>6 DEF Clear
  <2>2. QED
    BY <1>1, <1>9, <2>1, BusyIsAlone
<1>10. QED
  BY <1>3, <1>5, <1>7, <1>8, <1>9, HandKeeps

(* A new row is not linked, and keeps no offer.                             *)
LEMMA AppendKeepsOnce ==
  ASSUME NEW rows \in Seq(Aid), NEW o \in Offer, Once(rows)
  PROVE  /\ Once(Append(rows, New(o))) /\ Append(rows, New(o))[Len(rows) + 1].offer = o
         /\ \A p : FreeIn(p, rows) => FreeIn(p, Append(rows, New(o)))
<1> DEFINE new == Append(rows, New(o))
<1>1. New(o) \in Aid /\ New(o).offer = o /\ New(o).outcome # "none"
  BY DEF New, Aid
<1>2. /\ DOMAIN rows = 1..Len(rows) /\ Len(rows) \in Nat
      /\ DOMAIN new = 1..(Len(rows) + 1) /\ new[Len(rows) + 1] = New(o)
      /\ \A n \in 1..Len(rows) : new[n] = rows[n]
  BY <1>1, LenProperties, AppendProperties
<1> HIDE DEF new
<1>3. \A n \in DOMAIN new : n \in DOMAIN rows \/ n = Len(rows) + 1
  BY <1>2
<1>4. \A n \in DOMAIN new : new[n].outcome = "none" => n \in DOMAIN rows /\ new[n] = rows[n]
  BY <1>1, <1>2, <1>3
<1>5. Once(new) /\ \A p : FreeIn(p, rows) => FreeIn(p, new)
  BY <1>4 DEF Once, FreeIn
<1>6. QED
  BY <1>1, <1>2, <1>5 DEF new

LEMMA InsertKeeps ==
  ASSUME Inv, NEW a \in Actor, Insert(a)
  PROVE  Inv'
<1>1. hand[a] \in Hand /\ Sane(hand[a], aid) /\ hand[a].pc = "insert"
  BY HandIsSound DEF Insert, At
<1>2. PICK o \in hand[a].want :
        IF Len(aid) >= Room
        THEN /\ hand' = [hand EXCEPT ![a] = [@ EXCEPT !.want = hand[a].want \ {o}]]
             /\ UNCHANGED aid
        ELSE /\ hand' = [hand EXCEPT ![a] = [@ EXCEPT !.pc = "link", !.want = hand[a].want \ {o},
                                                      !.now = Len(aid) + 1]]
             /\ aid' = Append(aid, New(o))
  BY DEF Insert
<1>3. UNCHANGED <<scene, load, state>> /\ UNCHANGED <<scene, load, level, counters, memory>>
  BY DEF Insert, state
<1>4. level' \in Level /\ counters' \in Counters /\ memory' \in Level
  BY <1>3 DEF Inv, Shapes
<1>5. aid \in Seq(Aid) /\ Len(aid) <= MaxAid /\ Len(aid) \in Nat /\ DOMAIN aid = 1..Len(aid)
  BY LenProperties DEF Inv, Shapes
<1>6. ASSUME "races" \notin scene
      PROVE  Alone(a) /\ Once(aid) /\ \A p \in hand[a].want : FreeIn(p, aid)
  <2>1. Clear(hand[a], aid)
    BY <1>6, HandIsSound
  <2>2. QED
    BY <1>1, <1>6, <2>1, BusyIsAlone DEF Clear, Inv, Serial
<1>7. Room \in Nat /\ Room <= MaxAid
  BY SurgeAssumption DEF Room
<1>8. CASE Len(aid) >= Room
  <2> DEFINE r == [hand[a] EXCEPT !.want = hand[a].want \ {o}]
  <2>1. hand' = [hand EXCEPT ![a] = r] /\ aid' = aid
    BY <1>2, <1>8
  <2>2. r \in Hand
    BY <1>1 DEF Hand
  <2>3. r.pc = "insert" /\ r.want \subseteq hand[a].want /\ r.due = hand[a].due /\ r.then = hand[a].then
    BY <1>1 DEF Hand
  <2> HIDE DEF r
  <2>4. Sane(r, aid) /\ ("races" \notin scene => Clear(r, aid))
    BY <1>1, <1>6, <2>3 DEF Sane, Clear
  <2>5. QED
    BY <1>3, <1>6, <2>1, <2>2, <2>4, HandKeeps
<1>9. CASE ~(Len(aid) >= Room)
  <2> DEFINE r == [hand[a] EXCEPT !.pc = "link", !.want = hand[a].want \ {o}, !.now = Len(aid) + 1]
  <2>1. hand' = [hand EXCEPT ![a] = r] /\ aid' = Append(aid, New(o))
    BY <1>2, <1>9
  <2>2. o \in Offer /\ New(o) \in Aid
    BY <1>1 DEF Hand, New, Aid
  <2>3. Len(aid) + 1 <= MaxAid /\ Len(aid) + 1 \in 0..MaxAid
    BY <1>5, <1>7, <1>9, SurgeAssumption
  <2>4. r \in Hand
    BY <1>1, <2>3 DEF Hand
  <2>5. /\ r.pc = "link" /\ r.want = hand[a].want \ {o} /\ r.due = hand[a].due
        /\ r.now = Len(aid) + 1 /\ r.then = hand[a].then
    BY <1>1 DEF Hand
  <2> HIDE DEF r
  <2>6. aid' \in Seq(Aid) /\ Len(aid') = Len(aid) + 1 /\ DOMAIN aid' = 1..(Len(aid) + 1)
    BY <1>5, <2>1, <2>2, AppendProperties, LenProperties
  <2>7. Len(aid') <= MaxAid /\ DOMAIN aid \subseteq DOMAIN aid' /\ r.now \in DOMAIN aid'
    BY <1>5, <2>3, <2>5, <2>6
  <2>8. Sane(r, aid')
    BY <1>1, <2>5, <2>7 DEF Sane
  <2>9. ASSUME "races" \notin scene PROVE Alone(a) /\ Once(aid') /\ Clear(r, aid')
    <3>1. /\ Once(aid') /\ aid'[Len(aid) + 1].offer = o
          /\ \A p : FreeIn(p, aid) => FreeIn(p, aid')
      BY <1>5, <1>6, <2>1, <2>2, <2>9, AppendKeepsOnce
    <3>2. \A p \in hand[a].want : FreeIn(p, aid')
      BY <1>6, <2>9, <3>1
    <3>3. Clear(r, aid')
      BY <2>5, <3>1, <3>2 DEF Clear
    <3>4. QED
      BY <1>6, <2>9, <3>1, <3>3
  <2>10. UNCHANGED <<scene, load>>
    BY <1>3
  <2>11. QED
    BY <1>4, <2>1, <2>4, <2>6, <2>7, <2>8, <2>9, <2>10, CallKeeps
<1>10. QED
  BY <1>8, <1>9

(* Linked, the row is the only one outstanding for its offer, and the       *)
(* offers still to ask for are others.                                      *)
LEMMA LinkKeeps ==
  ASSUME Inv, NEW a \in Actor, Link(a)
  PROVE  Inv'
<1> DEFINE n == hand[a].now
           x == [aid[n] EXCEPT !.outcome = "none"]
           r == [hand[a] EXCEPT !.pc = "insert", !.now = 0]
<1>1. hand[a] \in Hand /\ Sane(hand[a], aid) /\ hand[a].pc = "link"
  BY HandIsSound DEF Link, At
<1>2. /\ hand' = [hand EXCEPT ![a] = r] /\ aid' = [aid EXCEPT ![n] = x]
      /\ UNCHANGED <<scene, load, state>>
  BY DEF Link
<1>3. n \in DOMAIN aid /\ aid[n] \in Aid /\ aid \in Seq(Aid) /\ Len(aid) <= MaxAid
  BY <1>1, RowIsAid DEF Sane, Inv, Shapes
<1>4. x \in Aid /\ x.offer = aid[n].offer
  BY <1>3 DEF Aid
<1>5. r \in Hand
  <2>1. 0 \in 0..MaxAid
    BY SurgeAssumption
  <2>2. QED
    BY <1>1, <2>1 DEF Hand
<1>6. r.pc = "insert" /\ r.want = hand[a].want /\ r.due = hand[a].due /\ r.then = hand[a].then
  BY <1>1 DEF Hand
<1> HIDE DEF r, x
<1>7. aid' \in Seq(Aid) /\ Len(aid') = Len(aid) /\ DOMAIN aid' = DOMAIN aid
  <2>1. n \in 1..Len(aid)
    BY <1>3, LenProperties
  <2>2. QED
    BY <1>2, <1>3, <1>4, <2>1, ExceptSeq
<1>8. \A m \in DOMAIN aid : aid'[m] = IF m = n THEN x ELSE aid[m]
  BY <1>2, <1>3
<1> HIDE DEF n
<1>9. Sane(r, aid')
  BY <1>1, <1>6, <1>7 DEF Sane
<1>10. ASSUME "races" \notin scene PROVE Alone(a) /\ Once(aid') /\ Clear(r, aid')
  <2>1. Once(aid) /\ Clear(hand[a], aid)
    BY <1>10, HandIsSound DEF Inv, Serial
  <2>2. FreeIn(aid[n].offer, aid) /\ aid[n].offer \notin hand[a].want
    BY <1>1, <2>1 DEF Clear, n
  <2>3. Once(aid')
    BY <1>4, <1>7, <1>8, <2>1, <2>2 DEF Once, FreeIn
  <2>4. \A p \in hand[a].want : FreeIn(p, aid')
    <3>1. \A p \in hand[a].want : FreeIn(p, aid) /\ p # aid[n].offer
      BY <1>1, <2>1, <2>2 DEF Clear
    <3>2. QED
      BY <1>4, <1>7, <1>8, <3>1 DEF FreeIn
  <2>5. Clear(r, aid')
    BY <1>6, <2>4 DEF Clear
  <2>6. QED
    BY <1>1, <1>10, <2>3, <2>5, BusyIsAlone
<1>11. level' \in Level /\ counters' \in Counters /\ memory' \in Level
  BY <1>2 DEF Inv, Shapes, state
<1>12. UNCHANGED <<scene, load>> /\ Len(aid') <= MaxAid /\ DOMAIN aid \subseteq DOMAIN aid'
  BY <1>2, <1>3, <1>7
<1>13. QED
  BY <1>2, <1>5, <1>7, <1>9, <1>10, <1>11, <1>12, CallKeeps

(* A call goes on to write what it decided, or is over.                     *)
LEMMA GoesOn ==
  ASSUME Inv, NEW a \in Actor
  PROVE  LET r == IF hand[a].then = "write" THEN [hand[a] EXCEPT !.pc = "write"] ELSE Idle IN
         /\ r \in Hand /\ Sane(r, aid)
         /\ "races" \notin scene => Clear(r, aid)
<1> DEFINE w == [hand[a] EXCEPT !.pc = "write"]
<1>1. hand[a] \in Hand /\ Sane(hand[a], aid)
  BY HandIsSound
<1>2. Idle \in Hand /\ Sane(Idle, aid) /\ Clear(Idle, aid)
  BY IdleIsSane
<1>3. w \in Hand
  BY <1>1 DEF Hand
<1>4. w.pc = "write" /\ w.then = hand[a].then /\ w.to = hand[a].to /\ w.due = hand[a].due
  BY <1>1 DEF Hand
<1> HIDE DEF w
<1>5. hand[a].then = "write" => Sane(w, aid)
  BY <1>1, <1>4 DEF Sane
<1>6. "races" \notin scene => Clear(w, aid)
  <2>1. "races" \notin scene => Clear(hand[a], aid)
    BY HandIsSound
  <2>2. QED
    BY <1>4, <2>1 DEF Clear
<1>7. QED
  BY <1>2, <1>3, <1>5, <1>6 DEF w

LEMMA InsertedKeeps ==
  ASSUME Inv, NEW a \in Actor, Inserted(a)
  PROVE  Inv'
<1> DEFINE r == IF hand[a].then = "write" THEN [hand[a] EXCEPT !.pc = "write"] ELSE Idle
<1>1. r \in Hand /\ Sane(r, aid) /\ ("races" \notin scene => Clear(r, aid))
  BY GoesOn
<1>2. hand[a].pc = "insert" /\ hand' = [hand EXCEPT ![a] = r] /\ UNCHANGED <<scene, load, state, aid>>
  BY DEF Inserted, At
<1> HIDE DEF r
<1>3. "races" \notin scene => Alone(a)
  BY <1>2, BusyIsAlone
<1>4. QED
  BY <1>1, <1>2, <1>3, HandKeeps

LEMMA StandDownKeeps ==
  ASSUME Inv, NEW a \in Actor, StandDown(a)
  PROVE  Inv'
<1> DEFINE r == IF hand[a].then = "write" THEN [hand[a] EXCEPT !.pc = "write"] ELSE Idle
<1>1. r \in Hand /\ Sane(r, aid) /\ ("races" \notin scene => Clear(r, aid))
  BY GoesOn
<1>2. hand[a].pc = "stand_down" /\ hand' = [hand EXCEPT ![a] = r] /\ UNCHANGED <<scene, load, state>>
  BY DEF StandDown, At
<1>10. r.pc # "link"
  <2>1. hand[a].then = "write" => [hand[a] EXCEPT !.pc = "write"].pc = "write"
    BY <1>2, HandIsSound DEF Hand
  <2>2. Idle.pc = "idle"
    BY DEF Idle
  <2>3. QED
    BY <2>1, <2>2
<1> HIDE DEF r
<1>3. aid \in Seq(Aid) /\ Len(aid) <= MaxAid /\ Len(aid) \in Nat /\ DOMAIN aid = 1..Len(aid)
  BY LenProperties DEF Inv, Shapes
<1>4. \A n \in DOMAIN aid :
        /\ Cancelled(aid[n]) \in Aid /\ Cancelled(aid[n]).offer = aid[n].offer
        /\ Cancelled(aid[n]).outcome # "none"
  <2>1. TAKE n \in DOMAIN aid
  <2>2. aid[n] \in Aid
    BY RowIsAid DEF Inv
  <2>3. QED
    BY <2>2 DEF Cancelled, Aid
<1>5. /\ [n \in DOMAIN aid |-> Cancelled(aid[n])] \in Seq(Aid)
      /\ Len([n \in DOMAIN aid |-> Cancelled(aid[n])]) = Len(aid)
      /\ Fewer([n \in DOMAIN aid |-> Cancelled(aid[n])], aid)
  <2> DEFINE new == [n \in DOMAIN aid |-> Cancelled(aid[n])]
  <2>1. new \in [1..Len(aid) -> Aid]
    BY <1>3, <1>4
  <2>2. Fewer(new, aid)
    BY <1>4 DEF Fewer
  <2> HIDE DEF new
  <2>3. new \in Seq(Aid) /\ Len(new) = Len(aid)
    BY <1>3, <2>1
  <2>4. QED
    BY <2>2, <2>3 DEF new
<1>6. aid' \in Seq(Aid) /\ Len(aid') <= MaxAid /\ Fewer(aid', aid)
  <2>1. Fewer(aid, aid)
    BY DEF Fewer
  <2>2. aid' = aid \/ aid' = [n \in DOMAIN aid |-> Cancelled(aid[n])]
    BY DEF StandDown
  <2>3. QED
    BY <1>3, <1>5, <2>1, <2>2
<1>7. Sane(r, aid')
  BY <1>1, <1>6 DEF Sane, Fewer
<1>8. CallStep(a, r)
  BY <1>1, <1>2, <1>6, <1>7, <1>10 DEF CallStep
<1>9. QED
  BY <1>2, <1>8, CallStepKeeps

(* The row is overwritten.                                                  *)
LEMMA WriteKeeps ==
  ASSUME Inv, NEW e \in Evaluator, Write(e)
  PROVE  Inv'
<1> DEFINE r == [Idle EXCEPT !.pc = "memory", !.to = hand[e].to]
<1>1. e \in Actor
  BY DEF Actor
<1>2. hand[e] \in Hand /\ Sane(hand[e], aid) /\ hand[e].pc = "write"
  BY <1>1, HandIsSound DEF Write, At
<1>3. /\ level' = hand[e].to /\ counters' = hand[e].counters
      /\ hand' = [hand EXCEPT ![e] = r]
      /\ UNCHANGED <<scene, load, memory, aid>>
  BY DEF Write
<1>4. hand[e].to \in Level /\ hand[e].counters \in Counters
  BY <1>2 DEF Hand
<1>5. r \in Hand
  BY <1>4, IdleIsSane DEF Hand
<1>6. r.pc = "memory" /\ r.then = "idle" /\ r.due = {}
  BY DEF Idle
<1> HIDE DEF r
<1>7. Sane(r, aid) /\ Clear(r, aid)
  BY <1>6 DEF Sane, Clear
<1>8. /\ level' \in Level /\ counters' \in Counters /\ memory' \in Level
      /\ aid' \in Seq(Aid) /\ Len(aid') <= MaxAid /\ aid' = aid
  BY <1>3, <1>4 DEF Inv, Shapes
<1>9. ASSUME "races" \notin scene PROVE Alone(e) /\ Once(aid)
  BY <1>1, <1>2, <1>9, BusyIsAlone DEF Inv, Serial
<1>10. UNCHANGED <<scene, load>> /\ DOMAIN aid \subseteq DOMAIN aid' /\ Sane(r, aid')
  BY <1>3, <1>7
<1>11. QED
  BY <1>1, <1>3, <1>5, <1>7, <1>8, <1>9, <1>10, CallKeeps

(* The copy in memory; a call that goes on asks as an officer would.        *)
LEMMA RememberKeeps ==
  ASSUME Inv, NEW e \in Evaluator, Remember(e)
  PROVE  Inv'
<1>1. e \in Actor
  BY DEF Actor
<1>2. hand[e] \in Hand /\ hand[e].pc = "memory"
  BY <1>1, HandIsSound DEF Remember, At
<1>3. /\ memory' = hand[e].to /\ UNCHANGED <<scene, load, level, counters, aid>>
      /\ \/ hand' = [hand EXCEPT ![e] = Idle]
         \/ hand' = [hand EXCEPT ![e] = [Idle EXCEPT !.pc = "ask", !.to = 2]]
  BY DEF Remember
<1>4. memory' \in Level
  BY <1>2, <1>3 DEF Hand
<1>5. /\ level' \in Level /\ counters' \in Counters
      /\ aid' \in Seq(Aid) /\ Len(aid') <= MaxAid /\ DOMAIN aid \subseteq DOMAIN aid'
  BY <1>3 DEF Inv, Shapes
<1>6. "races" \notin scene => Alone(e) /\ Once(aid')
  BY <1>1, <1>2, <1>3, BusyIsAlone DEF Inv, Serial
<1>7. Idle \in Hand /\ Sane(Idle, aid') /\ Clear(Idle, aid')
  BY IdleIsSane
<1>8. PICK r \in Hand : /\ hand' = [hand EXCEPT ![e] = r]
                        /\ Sane(r, aid') /\ Clear(r, aid')
  <2> DEFINE q == [Idle EXCEPT !.pc = "ask", !.to = 2]
  <2>1. 2 \in Level
    BY DEF Level
  <2>2. q \in Hand /\ Sane(q, aid') /\ Clear(q, aid')
    BY <2>1, AskingIsSane
  <2>3. hand' = [hand EXCEPT ![e] = Idle] \/ hand' = [hand EXCEPT ![e] = q]
    BY <1>3
  <2> HIDE DEF q
  <2>4. QED
    BY <1>7, <2>2, <2>3
<1>9. QED
  BY <1>1, <1>3, <1>4, <1>5, <1>6, <1>8, CallKeeps

(* A call that fails is over, but for a step down, which goes on to write.  *)
LEMMA FailsKeeps ==
  ASSUME Inv, NEW a \in Actor, Fails(a)
  PROVE  Inv'
<1> DEFINE w == [hand[a] EXCEPT !.pc = "write"]
<1>1. /\ hand[a] \in Hand /\ Sane(hand[a], aid) /\ hand[a].pc # "idle"
      /\ UNCHANGED <<scene, load, state, aid>>
  BY HandIsSound DEF Fails, At
<1>2. "races" \notin scene => Alone(a)
  BY <1>1, BusyIsAlone
<1>3. CASE hand[a].then = "write" /\ hand' = [hand EXCEPT ![a] = w]
  <2>1. w \in Hand
    BY <1>1 DEF Hand
  <2>2. w.pc = "write" /\ w.then = hand[a].then /\ w.due = hand[a].due
    BY <1>1 DEF Hand
  <2> HIDE DEF w
  <2>3. Sane(w, aid) /\ Clear(w, aid)
    BY <1>1, <1>3, <2>2 DEF Sane, Clear
  <2>4. QED
    BY <1>1, <1>2, <1>3, <2>1, <2>3, HandKeeps
<1>4. CASE hand' = [hand EXCEPT ![a] = Idle]
  <2>1. Idle \in Hand /\ Sane(Idle, aid) /\ Clear(Idle, aid)
    BY IdleIsSane
  <2>2. QED
    BY <1>1, <1>2, <1>4, <2>1, HandKeeps
<1>5. QED
  BY <1>3, <1>4 DEF Fails

----------------------------------------------------------------------------
(* An endpoint sets the row and the copy together.                          *)
LEMMA EndpointKeeps ==
  ASSUME Inv, NEW o \in Officer, hand[o].pc = "idle", Quiet, NEW r \in Hand,
         hand' = [hand EXCEPT ![o] = r], Sane(r, aid), Clear(r, aid),
         UNCHANGED <<scene, load, aid>>,
         level' \in Level, counters' \in Counters, memory' \in Level
  PROVE  Inv'
<1>1. o \in Actor
  BY DEF Actor
<1>2. aid' \in Seq(Aid) /\ Len(aid') <= MaxAid /\ DOMAIN aid \subseteq DOMAIN aid'
  BY DEF Inv, Shapes
<1>3. "races" \notin scene => Alone(o) /\ Once(aid')
  BY <1>1, QuietIsAlone DEF Inv, Serial
<1>4. Sane(r, aid') /\ Clear(r, aid')
  OBVIOUS
<1>5. QED
  BY <1>1, <1>2, <1>3, <1>4, CallKeeps

LEMMA AskNowKeeps ==
  ASSUME Inv, NEW o \in Officer, AskNow(o)
  PROVE  Inv'
<1> DEFINE r == [Idle EXCEPT !.pc = "ask", !.to = 2]
<1>1. r \in Hand /\ Sane(r, aid) /\ Clear(r, aid)
  BY AskingIsSane DEF Level
<1>2. /\ hand[o].pc = "idle" /\ Quiet /\ hand' = [hand EXCEPT ![o] = r]
      /\ UNCHANGED <<scene, load, aid, level, counters, memory>>
  BY DEF AskNow, At, state
<1> HIDE DEF r
<1>3. /\ level' \in Level /\ counters' \in Counters /\ memory' \in Level
  BY <1>2 DEF Inv, Shapes, Serial
<1>4. QED
  BY <1>1, <1>2, <1>3, EndpointKeeps

LEMMA DeclareKeeps ==
  ASSUME Inv, NEW o \in Officer, Declare(o)
  PROVE  Inv'
<1> DEFINE r == [Idle EXCEPT !.pc = "ask", !.to = 4]
<1>1. r \in Hand /\ Sane(r, aid) /\ Clear(r, aid)
  BY AskingIsSane DEF Level
<1>2. /\ hand[o].pc = "idle" /\ Quiet /\ hand' = [hand EXCEPT ![o] = r]
      /\ level' = 4 /\ memory' = 4 /\ UNCHANGED <<scene, load, counters, aid>>
  BY DEF Declare, At
<1> HIDE DEF r
<1>3. /\ level' \in Level /\ counters' \in Counters /\ memory' \in Level
  BY <1>2 DEF Inv, Shapes, Level
<1>4. UNCHANGED <<scene, load, aid>>
  BY <1>2
<1>5. QED
  BY <1>1, <1>2, <1>3, <1>4, EndpointKeeps

LEMMA DemobiliseKeeps ==
  ASSUME Inv, NEW o \in Officer, Demobilise(o)
  PROVE  Inv'
<1>1. PICK to \in Level :
        /\ level' = to /\ memory' = to
        /\ hand' = [hand EXCEPT ![o] = [Idle EXCEPT !.pc = "stand_down", !.to = to]]
  BY DEF Demobilise
<1> DEFINE r == [Idle EXCEPT !.pc = "stand_down", !.to = to]
<1>2. hand[o].pc = "idle" /\ Quiet /\ counters' = Zero /\ UNCHANGED <<scene, load, aid>>
  BY DEF Demobilise, At
<1>3. r \in Hand
  BY IdleIsSane DEF Hand
<1>4. r.pc = "stand_down" /\ r.then = "idle" /\ r.due = {}
  BY DEF Idle
<1>5. hand' = [hand EXCEPT ![o] = r]
  BY <1>1
<1> HIDE DEF r
<1>6. Sane(r, aid) /\ Clear(r, aid)
  BY <1>4 DEF Sane, Clear
<1>7. Zero \in Counters
  BY SurgeAssumption DEF Zero, Counters
<1>8. /\ level' \in Level /\ counters' \in Counters /\ memory' \in Level
  BY <1>1, <1>2, <1>7
<1>9. QED
  BY <1>2, <1>3, <1>5, <1>6, <1>8, EndpointKeeps

LEMMA RecordByHandKeeps ==
  ASSUME Inv, RecordByHand
  PROVE  Inv'
<1>1. PICK n \in DOMAIN aid, ok \in BOOLEAN :
        aid' = [aid EXCEPT ![n] = [@ EXCEPT !.request = IF ok THEN "fulfilled" ELSE "declined",
                                            !.handoff = ok]]
  BY DEF RecordByHand
<1> DEFINE x == [aid[n] EXCEPT !.request = IF ok THEN "fulfilled" ELSE "declined", !.handoff = ok]
<1>2. aid[n] \in Aid /\ aid \in Seq(Aid) /\ Len(aid) <= MaxAid /\ load \in Loads
  BY RowIsAid DEF Inv, Shapes
<1>3. x \in Aid /\ x.offer = aid[n].offer /\ x.outcome = aid[n].outcome
  BY <1>2 DEF Aid
<1>4. aid' = [aid EXCEPT ![n] = x] /\ UNCHANGED <<scene, load, state, hand>>
  BY <1>1 DEF RecordByHand
<1> HIDE DEF x
<1>5. aid' \in Seq(Aid) /\ Len(aid') <= MaxAid /\ Same(aid', aid)
  BY <1>2, <1>3, <1>4, RowChanges
<1>6. QED
  BY <1>2, <1>4, <1>5, RowsKeep

LEMMA TimePassesKeeps ==
  ASSUME Inv, TimePasses
  PROVE  Inv'
<1>1. PICK n \in Outstanding : aid' = [aid EXCEPT ![n] = [@ EXCEPT !.due = TRUE]]
  BY DEF TimePasses
<1> DEFINE x == [aid[n] EXCEPT !.due = TRUE]
<1>2. n \in DOMAIN aid
  BY DEF Outstanding
<1>3. aid[n] \in Aid /\ aid \in Seq(Aid) /\ Len(aid) <= MaxAid /\ load \in Loads
  BY <1>2, RowIsAid DEF Inv, Shapes
<1>4. x \in Aid /\ x.offer = aid[n].offer /\ x.outcome = aid[n].outcome
  BY <1>3 DEF Aid
<1>5. aid' = [aid EXCEPT ![n] = x] /\ UNCHANGED <<scene, load, state, hand>>
  BY <1>1 DEF TimePasses
<1> HIDE DEF x
<1>6. aid' \in Seq(Aid) /\ Len(aid') <= MaxAid /\ Same(aid', aid)
  BY <1>2, <1>3, <1>4, <1>5, RowChanges
<1>7. QED
  BY <1>3, <1>5, <1>6, RowsKeep

LEMMA LoadMovesKeeps ==
  ASSUME Inv, load' \in Loads, UNCHANGED <<scene, state, aid, hand>>
  PROVE  Inv'
<1>1. Same(aid', aid)
  BY DEF Same
<1>2. aid' \in Seq(Aid) /\ Len(aid') <= MaxAid
  BY DEF Inv, Shapes
<1>3. QED
  BY <1>1, <1>2, RowsKeep

----------------------------------------------------------------------------
LEMMA InitIsSound == Init => Inv
<1> SUFFICES ASSUME Init PROVE Inv
  OBVIOUS
<1>1. aid \in Seq(Aid) /\ Len(aid) = 0 /\ DOMAIN aid = {}
  BY EmptySeq DEF Init
<1>2. \A a \in Actor : hand[a] = Idle
  BY DEF Init
<1>3. \A a \in Actor : Idle \in Hand /\ Sane(Idle, aid) /\ Clear(Idle, aid)
  BY IdleIsSane
<1>4. hand \in [Actor -> Hand]
  BY <1>3 DEF Init
<1>5. Zero \in Counters /\ MaxAid \in Nat /\ 0 \in Level
  BY SurgeAssumption DEF Zero, Counters, Level
<1>6. Shapes
  <2>1. Len(aid) <= MaxAid
    BY <1>1, <1>5
  <2>2. /\ scene \in Scenarios /\ load \in Loads /\ level \in Level
        /\ counters \in Counters /\ memory \in Level
    BY <1>5 DEF Init
  <2>3. QED
    BY <1>1, <1>4, <2>1, <2>2 DEF Shapes
<1>7. Serial
  <2>1. \A a \in Actor : hand[a].pc = "idle"
    BY <1>2 DEF Idle
  <2>2. Once(aid)
    BY <1>1 DEF Once, Init
  <2>3. QED
    BY <1>2, <1>3, <2>1, <2>2 DEF Serial
<1>8. QED
  BY <1>2, <1>3, <1>6, <1>7 DEF Inv

LEMMA NextKeeps == Inv /\ [Next]_vars => Inv'
<1> SUFFICES ASSUME Inv, [Next]_vars PROVE Inv'
  OBVIOUS
<1>1. ASSUME NEW a \in Actor, Asks(a) PROVE Inv'
  BY <1>1, AskKeeps, InsertKeeps, LinkKeeps, InsertedKeeps, StandDownKeeps DEF Asks
<1>2. ASSUME NEW e \in Evaluator, Begin(e) \/ Evaluates(e) PROVE Inv'
  <2>1. CASE Asks(e)
    BY <1>1, <2>1 DEF Actor
  <2>2. CASE Begin(e) \/ Resolve(e) \/ Outcome(e) \/ Close(e) \/ Decide(e)
    BY <2>2, BeginKeeps, ResolveKeeps, OutcomeKeeps, CloseKeeps, DecideKeeps
  <2>3. CASE Write(e) \/ Remember(e)
    BY <2>3, WriteKeeps, RememberKeeps
  <2>4. QED
    BY <1>2, <2>1, <2>2, <2>3 DEF Evaluates
<1>3. ASSUME NEW o \in Officer, AskNow(o) \/ Declare(o) \/ Demobilise(o) \/ Asks(o) PROVE Inv'
  <2>1. CASE Asks(o)
    BY <1>1, <2>1 DEF Actor
  <2>2. CASE AskNow(o) \/ Declare(o) \/ Demobilise(o)
    BY <2>2, AskNowKeeps, DeclareKeeps, DemobiliseKeeps
  <2>3. QED
    BY <1>3, <2>1, <2>2
<1>4. CASE RecordByHand \/ TimePasses
  BY <1>4, RecordByHandKeeps, TimePassesKeeps
<1>5. CASE LoadMoves
  BY <1>5, LoadMovesKeeps DEF LoadMoves
<1>6. CASE UNCHANGED vars
  <2>1. UNCHANGED <<scene, state, aid, hand>> /\ load' \in Loads
    BY <1>6 DEF vars, Inv, Shapes
  <2>2. QED
    BY <2>1, LoadMovesKeeps
<1>7. ASSUME NEW a \in Actor, Fails(a) PROVE Inv'
  BY <1>7, FailsKeeps
<1>8. QED
  BY <1>2, <1>3, <1>4, <1>5, <1>6, <1>7 DEF Next

LEMMA AlwaysInv == Spec => []Inv
<1>1. QED
  BY InitIsSound, NextKeeps, PTL DEF Spec

----------------------------------------------------------------------------
(* The row, the copy in memory, the requests and what every call is in the  *)
(* middle of keep their shapes, overlapping calls included.                 *)
THEOREM TypeCorrect == Spec => []TypeOK
<1>1. Init => failed \in 0..MaxFails
  BY SurgeAssumption DEF Init
<1>2. failed \in 0..MaxFails /\ [Next]_vars => (failed \in 0..MaxFails)'
  <2> SUFFICES ASSUME failed \in 0..MaxFails, [Next]_vars PROVE failed' \in 0..MaxFails
    OBVIOUS
  <2>1. ASSUME NEW a \in Actor, Fails(a) PROVE failed' \in 0..MaxFails
    BY <2>1, SurgeAssumption DEF Fails
  <2>2. ASSUME NEW a, Asks(a) PROVE failed' = failed
    BY <2>2, Zenon DEF Asks, Ask, Insert, Link, Inserted, StandDown
  <2>3. ASSUME NEW e \in Evaluator, Begin(e) \/ Evaluates(e) PROVE failed' = failed
    BY <2>2, <2>3, Zenon DEF Begin, Evaluates, Resolve, Outcome, Close, Decide, Write, Remember
  <2>4. ASSUME NEW o \in Officer, AskNow(o) \/ Declare(o) \/ Demobilise(o) \/ Asks(o)
        PROVE  failed' = failed
    BY <2>2, <2>4, Zenon DEF AskNow, Declare, Demobilise
  <2>5. CASE RecordByHand \/ LoadMoves \/ TimePasses \/ UNCHANGED vars
    BY <2>5, Zenon DEF RecordByHand, LoadMoves, TimePasses, vars
  <2>6. QED
    BY <2>1, <2>3, <2>4, <2>5, Zenon DEF Next
<1>3. Inv /\ failed \in 0..MaxFails => TypeOK
  BY DEF Inv, Shapes, TypeOK
<1>4. QED
  BY <1>1, <1>2, <1>3, AlwaysInv, PTL DEF Spec

(* service.request_aid looks for what is outstanding before it asks: as     *)
(* long as calls do not overlap, no offer is asked for while a request for  *)
(* it is outstanding, whoever asks, at whatever level, whatever failed.     *)
THEOREM OneAskPerOfferSafe == Spec => []OneAskPerOffer
<1>1. Inv => OneAskPerOffer
  BY DEF Inv, Serial, Once, OneAskPerOffer, Outstanding
<1>2. QED
  BY <1>1, AlwaysInv, PTL
=============================================================================
