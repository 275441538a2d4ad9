-------------------------- MODULE EventRouterProofs --------------------------
(***************************************************************************)
(* Proofs about EventRouter, for every set of replicas and cities, every   *)
(* log bound and every poll limit: who leads, what the cursors have        *)
(* passed, what becomes of a request, and that ReactivePlanning's steps    *)
(* are the only ones.                                                      *)
(***************************************************************************)
EXTENDS EventRouter, FiniteSetTheorems, SequenceTheorems, WellFoundedInduction, TLAPS

(* A nonempty set of numbers below a bound has a largest member.            *)
LEMMA LargestExists ==
  ASSUME NEW S, NEW n \in Nat, S \subseteq 0..n, S # {}
  PROVE  \E m \in S : \A j \in S : j <= m
<1> DEFINE T == {k \in Nat : n - k \in S}
<1>1. PICK s \in S : TRUE
  OBVIOUS
<1>2. T \subseteq Nat /\ n - s \in T
  BY <1>1
<1>3. PICK t \in T : \A u \in T : ~(<<u, t>> \in OpToRel(<, Nat))
  <2> HIDE DEF T
  <2>1. QED
    BY <1>2, NatLessThanWellFounded, WFMin
<1>4. t \in Nat /\ n - t \in S /\ \A u \in T : ~(u < t)
  BY <1>3, Zenon DEF OpToRel
<1>5. \A j \in S : j <= n - t
  <2>1. \A j \in S : n - j \in Nat /\ n - (n - j) = j
    OBVIOUS
  <2>2. \A j \in S : n - j \in T
    BY <2>1
  <2>3. \A j \in S : ~(n - j < t)
    BY <1>4, <2>2, Zenon
  <2>4. QED
    BY <1>4, <2>1, <2>3
<1>6. QED
  BY <1>4, <1>5

(* The newest committed id, and 0 when there is none.                       *)
LEMMA Head0Nat ==
  ASSUME TypeOK
  PROVE  /\ Committed \subseteq 1..Len(log) /\ Len(log) \in Nat
         /\ Head0 \in 0..Len(log)
         /\ \A i \in Committed : i <= Head0
         /\ Committed # {} => Head0 \in Committed
<1>1. Committed \subseteq 1..Len(log) /\ Len(log) \in Nat
  BY LenProperties DEF Committed, TypeOK
<1>2. CASE Committed = {}
  BY <1>1, <1>2 DEF Head0
<1>3. CASE Committed # {}
  <2>1. \E m \in Committed : \A j \in Committed : j <= m
    <3>1. Committed \subseteq 0..Len(log)
      BY <1>1
    <3>2. QED
      BY <1>1, <1>3, <3>1, LargestExists
  <2>2. Head0 \in Committed /\ \A j \in Committed : j <= Head0
    BY <1>3, <2>1 DEF Head0
  <2>3. QED
    BY <1>1, <2>2
<1>4. QED
  BY <1>2, <1>3

LEMMA NewPassType ==
  ASSUME TypeOK, NEW c \in City, NEW ph \in {"think", "write"}
  PROVE  NewPass(c, ph) \in PassType
<1>1. IdsOf(c) \in SUBSET Nat
  BY Head0Nat DEF IdsOf
<1>2. QED
  BY <1>1 DEF NewPass, PassType

(* The largest row of a non-empty poll, and the cities a poll asks for.     *)
LEMMA RowsType ==
  ASSUME TypeOK, NEW r \in Replica
  PROVE  /\ Rows(r) \subseteq Committed
         /\ Rows(r) # {} =>
              \E m \in Rows(r) : \A j \in Rows(r) : j <= m
         /\ {log[i].city : i \in Rows(r) \cap Worthy} \subseteq City
<1>1. Rows(r) \subseteq Committed /\ Rows(r) \subseteq 0..Len(log) /\ Len(log) \in Nat
  BY Head0Nat DEF Rows, Fresh
<1>2. \A i \in Committed : log[i].city \in City
  <2>1. \A i \in Committed : log[i] \in Event
    BY Head0Nat, ElementOfSeq DEF TypeOK
  <2>2. QED
    BY <2>1 DEF Event
<1>3. Rows(r) # {} => \E m \in Rows(r) : \A j \in Rows(r) : j <= m
  BY <1>1, LargestExists
<1>4. QED
  BY <1>1, <1>2, <1>3

LEMMA InitType == Init => TypeOK
<1> SUFFICES ASSUME Init PROVE TypeOK
  OBVIOUS
<1>1. log \in Seq(Event) /\ Len(log) = OldEvents
  <2>1. log \in [1..OldEvents -> Event] /\ OldEvents \in Nat
    BY RouterAssumption DEF Init, Event, Kind, Actors, OtherKinds
  <2>2. QED
    BY <2>1, SeqDef, LenProperties
<1>2. pass \in [Replica -> [Planner -> PassType \cup {NoPass}]]
  BY DEF Init
<1>3. QED
  BY <1>1, <1>2, RouterAssumption DEF Init, TypeOK

LEMMA WriteType == TypeOK /\ (Write \/ Lapse) => TypeOK'
<1> SUFFICES ASSUME TypeOK, Write \/ Lapse PROVE TypeOK'
  OBVIOUS
<1> USE DEF leaseVars, pollVars, demoVars, stopVars, history
<1>1. ASSUME NEW cls \in EventClass, NEW c \in City, Insert(cls, c) PROVE TypeOK'
  <2> DEFINE e == [kind |-> cls.kind, actor |-> cls.actor, city |-> c, st |-> "open"]
  <2>1. e \in Event
    BY RouterAssumption DEF Event
  <2>2. log' = Append(log, e) /\ Len(log) < MaxEvents
    BY <1>1 DEF Insert, Room
  <2>3. log' \in Seq(Event) /\ Len(log') <= MaxEvents
    <3> HIDE DEF e
    <3>1. QED
      BY <2>1, <2>2, AppendProperties, RouterAssumption, LenProperties DEF TypeOK
  <2>4. QED
    BY <1>1, <2>3 DEF Insert, TypeOK
<1>2. ASSUME NEW i \in DOMAIN log, NEW st \in {"committed", "aborted"}, Finish(i, st)
      PROVE TypeOK'
  <2> DEFINE e == [log[i] EXCEPT !.st = st]
  <2>1. i \in 1..Len(log) /\ log[i] \in Event
    BY LenProperties, ElementOfSeq DEF TypeOK
  <2>2. e \in Event
    BY <2>1 DEF Event
  <2>3. log' = [log EXCEPT ![i] = e]
    BY <1>2 DEF Finish
  <2>4. log' \in Seq(Event) /\ Len(log') <= MaxEvents
    <3> HIDE DEF e
    <3>1. QED
      BY <2>1, <2>2, <2>3, ExceptSeq DEF TypeOK
  <2>5. QED
    BY <1>2, <2>4 DEF Finish, TypeOK
<1>3. CASE Lapse
  BY <1>3 DEF Lapse, TypeOK
<1>4. QED
  BY <1>1, <1>2, <1>3 DEF Write

(* Replacing one pass of one replica keeps the table of passes well typed.  *)
LEMMA PassExcept ==
  ASSUME pass \in [Replica -> [Planner -> PassType \cup {NoPass}]],
         NEW r \in Replica, NEW k \in Planner, NEW p \in PassType \cup {NoPass}
  PROVE  [pass EXCEPT ![r][k] = p] \in [Replica -> [Planner -> PassType \cup {NoPass}]]
OBVIOUS

(* The same for the sets of cities a replica holds.                         *)
LEMMA CitiesExcept ==
  ASSUME NEW f \in [Replica -> SUBSET City], NEW r \in Replica, NEW S \in SUBSET City
  PROVE  [f EXCEPT ![r] = S] \in [Replica -> SUBSET City]
OBVIOUS

LEMMA PollLoopType ==
  ASSUME TypeOK, NEW r \in Replica,
         PollLoop(r) \/ HoldFailed(r) \/ QueryFailed(r)
  PROVE  TypeOK'
<1> USE DEF leaseVars, pollVars, demoVars, stopVars, history
<1>1. Head0 \in Nat
  BY Head0Nat
<1>2. CASE Start(r)
  BY <1>1, <1>2 DEF Start, TypeOK
<1>3. CASE Acquire(r)
  BY <1>3 DEF Acquire, TypeOK
<1>4. CASE Refused(r)
  BY <1>4 DEF Refused, TypeOK
<1>5. CASE TakeOver(r)
  <2>1. ResumeCursor(r) \in Nat
    BY <1>1 DEF ResumeCursor, TypeOK
  <2>2. QED
    BY <1>5, <2>1 DEF TakeOver, TypeOK
<1>6. CASE Poll(r)
  <2> DEFINE asked == {log[i].city : i \in Rows(r) \cap Worthy}
             next == IF Rows(r) = {} THEN cursor[r]
                     ELSE CHOOSE i \in Rows(r) : \A j \in Rows(r) : j <= i
  <2>1. asked \subseteq City /\ Rows(r) \subseteq Nat
    BY RowsType, Head0Nat
  <2>2. next \in Nat
    BY RowsType, <2>1 DEF TypeOK
  <2>3. /\ pc' = [pc EXCEPT ![r] = "hold"]
        /\ cursor' = [cursor EXCEPT ![r] = next]
        /\ routed' = routed \cup Rows(r)
        /\ held' = held \/ held' = [held EXCEPT ![r] = held[r] \cup asked]
        /\ pend' = pend \/ pend' = [pend EXCEPT ![r] = pend[r] \cup asked]
        /\ UNCHANGED <<log, leaseVars, leader, meta, todo, pass, demoVars, paused,
                       control, answered>>
    BY <1>6 DEF Poll
  <2>4. QED
    <3> HIDE DEF asked, next
    <3>1. held[r] \cup asked \in SUBSET City /\ pend[r] \cup asked \in SUBSET City
      BY <2>1 DEF TypeOK
    <3>2. held' \in [Replica -> SUBSET City] /\ pend' \in [Replica -> SUBSET City]
      <4>1. held \in [Replica -> SUBSET City] /\ pend \in [Replica -> SUBSET City]
        BY DEF TypeOK
      <4>2. [held EXCEPT ![r] = held[r] \cup asked] \in [Replica -> SUBSET City]
        BY <3>1, <4>1, CitiesExcept
      <4>3. [pend EXCEPT ![r] = pend[r] \cup asked] \in [Replica -> SUBSET City]
        BY <3>1, <4>1, CitiesExcept
      <4>4. QED
        BY <2>3, <4>1, <4>2, <4>3, Zenon
    <3>3. /\ pc' \in [Replica -> {"down", "hold", "takeover", "poll"}]
          /\ cursor' \in [Replica -> Nat] /\ routed' \subseteq Nat
      BY <2>1, <2>2, <2>3 DEF TypeOK
    <3>4. QED
      BY <2>3, <3>2, <3>3 DEF TypeOK
<1>7. CASE HoldFailed(r)
  BY <1>7 DEF HoldFailed, TypeOK
<1>8. CASE QueryFailed(r)
  BY <1>8 DEF QueryFailed, TypeOK
<1>9. QED
  BY <1>2, <1>3, <1>4, <1>5, <1>6, <1>7, <1>8 DEF PollLoop

LEMMA ReplanLoopType ==
  ASSUME TypeOK, NEW r \in Replica,
         ReplanLoop(r) \/ \E k \in Planner : PassFailed(r, k)
  PROVE  TypeOK'
<1> USE DEF leaseVars, pollVars, demoVars, stopVars, history
<1> "router" \in Planner /\ "think" \in {"think", "write"} /\ "write" \in {"think", "write"}
  BY DEF Planner
<1>a. ASSUME NEW k \in Planner, pass[r][k] # NoPass
      PROVE  pass[r][k] \in PassType /\ pass[r][k].city \in City /\ pass[r][k].seen \subseteq Nat
  BY <1>a DEF TypeOK, PassType
<1>1. CASE TakeBatch(r)
  <2>1. pend' \in [Replica -> SUBSET City]
    BY <1>1, CitiesExcept DEF TakeBatch, TypeOK
  <2>2. todo' \in [Replica -> SUBSET City]
    <3>1. todo' = todo \/ todo' = [todo EXCEPT ![r] = pend[r]]
      BY <1>1 DEF TakeBatch
    <3>2. QED
      BY <3>1, CitiesExcept DEF TypeOK
  <2>3. held' \in [Replica -> SUBSET City]
    <3>1. held' = held \/ held' = [held EXCEPT ![r] = held[r] \cup pend[r]]
      BY <1>1 DEF TakeBatch
    <3>2. held[r] \cup pend[r] \in SUBSET City
      BY DEF TypeOK
    <3>3. QED
      BY <3>1, <3>2, CitiesExcept DEF TypeOK
  <2>4. QED
    BY <1>1, <2>1, <2>2, <2>3 DEF TakeBatch, TypeOK
<1>2. CASE Dispatch(r)
  <2> DEFINE c == pass[r]["router"].city
             p == IF paused[r] THEN NoPass ELSE NewPass(c, "write")
  <2>1. c \in City
    BY <1>2, <1>a DEF Dispatch
  <2>2. p \in PassType \cup {NoPass}
    BY <2>1, NewPassType
  <2>3. /\ pass' = [pass EXCEPT ![r]["router"] = p]
        /\ held' = held \/ held' = [held EXCEPT ![r] = held[r] \cup {c}]
        /\ UNCHANGED <<log, leaseVars, pollVars, pend, todo, demoVars, paused, control, history>>
    BY <1>2 DEF Dispatch
  <2>4. held[r] \cup {c} \in SUBSET City
    BY <2>1 DEF TypeOK
  <2>5. QED
    <3> HIDE DEF p, c
    <3>1. held' \in [Replica -> SUBSET City]
      BY <2>3, <2>4, CitiesExcept DEF TypeOK
    <3>2. pass' \in [Replica -> [Planner -> PassType \cup {NoPass}]]
      BY <2>2, <2>3, PassExcept DEF TypeOK
    <3>3. QED
      BY <2>1, <2>3, <3>1, <3>2 DEF TypeOK
<1>3. ASSUME NEW c \in City, PlanCity(r, c) PROVE TypeOK'
  <2> DEFINE p == NewPass(c, IF GraphEnabled THEN "think" ELSE "write")
  <2>1. p \in PassType
    BY NewPassType
  <2>2. /\ todo' = [todo EXCEPT ![r] = todo[r] \ {c}]
        /\ dirty' = dirty \/ dirty' = [dirty EXCEPT ![r] = TRUE]
        /\ held' = held \/ held' = [held EXCEPT ![r] = held[r] \cup {c}]
        /\ pass' = pass \/ pass' = [pass EXCEPT ![r]["router"] = p]
        /\ UNCHANGED <<log, leaseVars, pollVars, pend, demo, paused, control, history>>
    BY <1>3 DEF PlanCity
  <2> HIDE DEF p
  <2>3. pass' \in [Replica -> [Planner -> PassType \cup {NoPass}]]
    <3>1. [pass EXCEPT ![r]["router"] = p] \in [Replica -> [Planner -> PassType \cup {NoPass}]]
      BY <2>1, PassExcept DEF TypeOK
    <3>2. QED
      BY <2>2, <3>1 DEF TypeOK
  <2>4. todo[r] \ {c} \in SUBSET City /\ held[r] \cup {c} \in SUBSET City
    BY DEF TypeOK
  <2>5. todo' \in [Replica -> SUBSET City] /\ held' \in [Replica -> SUBSET City]
    <3>1. held \in [Replica -> SUBSET City] /\ todo \in [Replica -> SUBSET City]
      BY DEF TypeOK
    <3>2. [todo EXCEPT ![r] = todo[r] \ {c}] \in [Replica -> SUBSET City]
      BY <2>4, <3>1, CitiesExcept
    <3>3. [held EXCEPT ![r] = held[r] \cup {c}] \in [Replica -> SUBSET City]
      BY <2>4, <3>1, CitiesExcept
    <3>4. QED
      BY <2>2, <3>1, <3>2, <3>3, Zenon
  <2>6. dirty' \in [Replica -> BOOLEAN]
    BY <2>2 DEF TypeOK
  <2>7. QED
    BY <2>2, <2>3, <2>5, <2>6 DEF TypeOK
<1>4. ASSUME NEW k \in Planner, NEW kind \in PlannerKinds, PassDone(r, k, kind) PROVE TypeOK'
  <2> DEFINE e == PlanRow(k, kind, pass[r][k].city)
  <2>1. e \in Event /\ pass[r][k].seen \subseteq Nat
    BY <1>4, <1>a DEF PlanRow, PassDone, Event, Kind, PlannerKinds, IgnoredKinds, OtherKinds, Actors
  <2>2. /\ log' = log \/ (Room /\ log' = Append(log, e))
        /\ pass' = [pass EXCEPT ![r][k] = NoPass]
        /\ answered' = answered \cup pass[r][k].seen
        /\ UNCHANGED <<leaseVars, pollVars, pend, todo, demoVars, stopVars, routed>>
    BY <1>4 DEF PassDone
  <2> HIDE DEF e
  <2>3. log' \in Seq(Event) /\ Len(log') <= MaxEvents
    <3>1. CASE log' = log
      BY <3>1 DEF TypeOK
    <3>2. CASE Len(log) < MaxEvents /\ log' = Append(log, e)
      BY <2>1, <3>2, AppendProperties, LenProperties, RouterAssumption DEF TypeOK
    <3>3. QED
      BY <2>2, <3>1, <3>2 DEF Room
  <2>4. pass' \in [Replica -> [Planner -> PassType \cup {NoPass}]]
    BY <2>2, PassExcept DEF TypeOK
  <2>5. QED
    BY <2>1, <2>2, <2>3, <2>4 DEF TypeOK
<1>5. ASSUME NEW k \in Planner, PassFailed(r, k) PROVE TypeOK'
  <2>1. pass' \in [Replica -> [Planner -> PassType \cup {NoPass}]]
    BY <1>5, PassExcept DEF TypeOK, PassFailed
  <2>2. QED
    BY <1>5, <2>1 DEF PassFailed, TypeOK
<1>6. CASE GraphEnds(r)
  <2> DEFINE p == pass[r]["router"]
  <2>1. p.city \in City /\ p.seen \subseteq Nat
    BY <1>6, <1>a DEF GraphEnds
  <2>2. /\ pass' = [pass EXCEPT ![r]["router"] = NoPass]
        /\ held' = held \/ held' = [held EXCEPT ![r] = held[r] \cup {p.city}]
        /\ answered' = answered \/ answered' = answered \cup p.seen
        /\ UNCHANGED <<log, leaseVars, pollVars, pend, todo, demoVars, paused, control, routed>>
    BY <1>6 DEF GraphEnds
  <2> HIDE DEF p
  <2>3. held[r] \cup {p.city} \in SUBSET City
    BY <2>1 DEF TypeOK
  <2>4. held' \in [Replica -> SUBSET City]
    BY <2>2, <2>3, CitiesExcept DEF TypeOK
  <2>5. pass' \in [Replica -> [Planner -> PassType \cup {NoPass}]]
    BY <2>2, PassExcept DEF TypeOK
  <2>6. QED
    BY <2>1, <2>2, <2>4, <2>5 DEF TypeOK
<1>7. QED
  BY <1>1, <1>2, <1>3, <1>4, <1>5, <1>6 DEF ReplanLoop

LEMMA OthersType ==
  ASSUME TypeOK, NEW r \in Replica, Others(r) \/ Crash(r)
  PROVE  TypeOK'
<1> USE DEF leaseVars, pollVars, demoVars, stopVars, history
<1> "officer" \in Planner /\ "demo" \in Planner
  BY DEF Planner
<1>a. ASSUME NEW k \in Planner, NEW p \in PassType \cup {NoPass},
             pass' = [pass EXCEPT ![r][k] = p]
      PROVE  pass' \in [Replica -> [Planner -> PassType \cup {NoPass}]]
  BY <1>a, PassExcept DEF TypeOK
<1>b. \A c \in City : NewPass(c, "write") \in PassType
  BY NewPassType
<1>1. CASE DemoWork(r)
  BY <1>1 DEF DemoWork, TypeOK
<1>2. CASE DemoStop(r)
  BY <1>2, <1>a DEF DemoStop, TypeOK
<1>3. CASE Pause(r)
  BY <1>3, <1>a DEF Pause, TypeOK
<1>4. ASSUME NEW c \in City, DirectRequest(r, c) PROVE TypeOK'
  BY <1>4 DEF DirectRequest, TypeOK
<1>5. ASSUME NEW c \in City, ManualReplan(r, c) PROVE TypeOK'
  BY <1>5, <1>a, <1>b DEF ManualReplan, TypeOK
<1>6. ASSUME NEW c \in City, DemoStart(r, c) PROVE TypeOK'
  BY <1>6 DEF DemoStart, TypeOK
<1>7. ASSUME NEW c \in City, DemoTick(r, c) PROVE TypeOK'
  BY <1>7, <1>a, <1>b DEF DemoTick, TypeOK
<1>8. ASSUME NEW c \in City, Resume(r, c) PROVE TypeOK'
  BY <1>8 DEF Resume, TypeOK
<1>9. CASE Crash(r)
  <2>1. pass' \in [Replica -> [Planner -> PassType \cup {NoPass}]]
    BY <1>9 DEF Crash, TypeOK
  <2>2. QED
    BY <1>9, <2>1 DEF Crash, TypeOK
<1>10. QED
  BY <1>1, <1>2, <1>3, <1>4, <1>5, <1>6, <1>7, <1>8, <1>9 DEF Others

LEMMA StutterType == TypeOK /\ UNCHANGED vars => TypeOK'
BY DEF TypeOK, vars, leaseVars, pollVars, demoVars, stopVars, history

(* Every variable keeps its type: in particular the resume rule of a         *)
(* takeover never yields a cursor outside the ids, and the poll always has   *)
(* a last row to move to.                                                   *)
THEOREM TypeCorrect == Spec => []TypeOK
<1>1. TypeOK /\ [Next]_vars => TypeOK'
  <2> SUFFICES ASSUME TypeOK, Next PROVE TypeOK'
    BY StutterType
  <2>1. CASE Write \/ Lapse
    BY <2>1, WriteType
  <2>2. ASSUME NEW r \in Replica, PollLoop(r) \/ ReplanLoop(r) \/ Faulty(r) \/ Others(r)
        PROVE TypeOK'
    BY <2>2, PollLoopType, ReplanLoopType, OthersType DEF Faulty
  <2>3. QED
    BY <2>1, <2>2 DEF Next
<1>2. QED
  BY <1>1, InitType, PTL DEF Spec

----------------------------------------------------------------------------
(* Who leads.  Assumed: lease.hold meets no database error, which it would  *)
(* take for a missing table, and a live leader renews before its lease      *)
(* runs out.                                                                *)
PromptLease == "db_error" \notin Disturbance /\ "slow_leader" \notin Disturbance

LEMMA InitLease == Init => LeaseInv
BY DEF Init, LeaseInv

LEMMA PollLoopLease ==
  ASSUME TypeOK, LeaseInv, PromptLease, NEW r \in Replica,
         PollLoop(r) \/ HoldFailed(r) \/ QueryFailed(r)
  PROVE  LeaseInv'
<1> USE RouterAssumption DEF leaseVars, pollVars, demoVars, stopVars, history
<1>1. CASE Start(r)
  BY <1>1 DEF Start, TypeOK, LeaseInv
<1>2. CASE Acquire(r)
  <2>1. \A s \in Replica : s # r => ~leader[s]
    BY <1>2 DEF Acquire, TypeOK, LeaseInv
  <2>2. QED
    BY <1>2, <2>1 DEF Acquire, TypeOK, LeaseInv
<1>3. CASE Refused(r)
  BY <1>3 DEF Refused, TypeOK, LeaseInv
<1>4. CASE TakeOver(r)
  BY <1>4 DEF TakeOver, TypeOK, LeaseInv
<1>5. CASE Poll(r)
  BY <1>5 DEF Poll, TypeOK, LeaseInv
<1>6. QED
  BY <1>1, <1>2, <1>3, <1>4, <1>5 DEF PollLoop, HoldFailed, QueryFailed, PromptLease

(* The re-plan loop, the demo, officers and writers touch no lease.         *)
LEMMA OthersLease ==
  ASSUME NEW r \in Replica, ReplanLoop(r) \/ (\E k \in Planner : PassFailed(r, k)) \/ Others(r)
  PROVE  UNCHANGED <<leaseVars, pc, leader, cursor, meta, routed>>
BY DEF ReplanLoop, TakeBatch, Dispatch, GraphEnds, PlanCity, PassDone, PassFailed, Others, DemoWork,
       DemoStop, Pause, DirectRequest, ManualReplan, DemoStart, DemoTick, Resume,
       leaseVars, pollVars, demoVars, stopVars, history

LEMMA WriteOnly ==
  ASSUME Write
  PROVE  UNCHANGED <<leaseVars, pollVars, pend, todo, pass, demoVars, stopVars, history>>
<1>1. ASSUME NEW cls \in EventClass, NEW c \in City, Insert(cls, c)
      PROVE UNCHANGED <<leaseVars, pollVars, pend, todo, pass, demoVars, stopVars, history>>
  BY <1>1 DEF Insert
<1>2. ASSUME NEW i \in DOMAIN log, NEW st \in {"committed", "aborted"}, Finish(i, st)
      PROVE UNCHANGED <<leaseVars, pollVars, pend, todo, pass, demoVars, stopVars, history>>
  BY <1>2 DEF Finish
<1>3. QED
  BY <1>1, <1>2 DEF Write

LEMMA NextLease ==
  ASSUME TypeOK, LeaseInv, PromptLease, [Next]_vars
  PROVE  LeaseInv'
<1> USE DEF leaseVars, pollVars, demoVars, stopVars, history
<1>1. CASE Write
  BY <1>1, WriteOnly DEF LeaseInv
<1>2. CASE Lapse
  BY <1>2 DEF Lapse, LeaseInv, PromptLease
<1>3. ASSUME NEW r \in Replica, PollLoop(r) \/ HoldFailed(r) \/ QueryFailed(r)
      PROVE  LeaseInv'
  BY <1>3, PollLoopLease
<1>4. ASSUME NEW r \in Replica,
             ReplanLoop(r) \/ (\E k \in Planner : PassFailed(r, k)) \/ Others(r)
      PROVE  LeaseInv'
  BY <1>4, OthersLease DEF LeaseInv
<1>5. ASSUME NEW r \in Replica, Crash(r) PROVE LeaseInv'
  <2>1. /\ pc' = [pc EXCEPT ![r] = "down"] /\ leader' = [leader EXCEPT ![r] = FALSE]
        /\ holder' = IF holder = r THEN Dead ELSE holder
        /\ lapsed' = lapsed
    BY <1>5 DEF Crash
  <2>2. QED
    BY <2>1, RouterAssumption DEF LeaseInv, TypeOK
<1>6. CASE UNCHANGED vars
  BY <1>6 DEF vars, LeaseInv
<1>7. QED
  BY <1>1, <1>2, <1>3, <1>4, <1>5, <1>6 DEF Next, Faulty

THEOREM LeaseSafe == PromptLease /\ Spec => []LeaseInv
<1> SUFFICES ASSUME PromptLease PROVE Spec => []LeaseInv
  OBVIOUS
<1>1. TypeOK /\ LeaseInv /\ [Next]_vars => LeaseInv'
  BY NextLease
<1>2. QED
  BY <1>1, InitLease, TypeCorrect, PTL DEF Spec

(* "Only the replica holding the event_router lease polls", for any number  *)
(* of replicas, as long as the lease is prompt: see router_lease_error for  *)
(* what happens when it is not.                                             *)
THEOREM OnlyHolderPollsSafe == PromptLease /\ Spec => []OnlyHolderPolls
<1>1. LeaseInv => OnlyHolderPolls
  BY DEF LeaseInv, OnlyHolderPolls
<1>2. QED
  BY <1>1, LeaseSafe, PTL

----------------------------------------------------------------------------
(* Who re-plans.  Assumed besides: no officer asks a replica for a re-plan  *)
(* directly, which a standby would run as well (DirectRequest, Resume).     *)
OnlyTheLog == "direct" \notin Disturbance /\ "pause" \notin Disturbance

LEMMA InitIdle == Init => IdleInv
BY DEF Init, IdleInv, Planner

LEMMA NextIdle ==
  ASSUME TypeOK, LeaseInv, IdleInv, PromptLease, OnlyTheLog, [Next]_vars
  PROVE  IdleInv'
<1> USE DEF leaseVars, pollVars, demoVars, stopVars, history
<1>a. ASSUME UNCHANGED <<control, paused, leader, pend, todo, pass>> PROVE IdleInv'
  BY <1>a DEF IdleInv
<1>1. CASE Write \/ Lapse \/ UNCHANGED vars
  BY <1>1, <1>a, WriteOnly DEF Lapse, vars
<1>2. ASSUME NEW r \in Replica, PollLoop(r) \/ HoldFailed(r) \/ QueryFailed(r)
      PROVE  IdleInv'
  <2>1. CASE Start(r)
    BY <2>1 DEF Start, IdleInv, TypeOK
  <2>2. CASE Acquire(r)
    BY <2>2 DEF Acquire, IdleInv, TypeOK
  <2>3. CASE Refused(r)
    <3>1. ~leader[r]
      BY <2>3 DEF Refused, LeaseInv
    <3>2. QED
      BY <2>3, <3>1 DEF Refused, IdleInv, TypeOK
  <2>4. CASE TakeOver(r)
    BY <2>4, <1>a DEF TakeOver
  <2>5. CASE Poll(r)
    <3>1. leader[r]
      BY <2>5 DEF Poll, LeaseInv
    <3>2. \A s \in Replica : s # r => pend'[s] = pend[s]
      BY <2>5 DEF Poll, TypeOK
    <3>3. QED
      BY <2>5, <3>1, <3>2 DEF Poll, IdleInv
  <2>6. QED
    BY <1>2, <2>1, <2>2, <2>3, <2>4, <2>5 DEF PollLoop, HoldFailed, QueryFailed, PromptLease
<1>3. ASSUME NEW r \in Replica,
             ReplanLoop(r) \/ (\E k \in Planner : PassFailed(r, k)) \/ Others(r)
      PROVE  IdleInv'
  <2>1. CASE TakeBatch(r)
    BY <2>1 DEF TakeBatch, IdleInv, TypeOK
  <2>2. CASE Dispatch(r) \/ GraphEnds(r)
    <3>1. UNCHANGED <<control, paused, leader, pend, todo>> /\ pass[r]["router"] # NoPass
      BY <2>2 DEF Dispatch, GraphEnds
    <3>2. leader[r]
      BY <3>1 DEF IdleInv
    <3>3. \A s \in Replica : s # r => pass'[s] = pass[s]
      BY <2>2 DEF Dispatch, GraphEnds, TypeOK
    <3>4. QED
      BY <3>1, <3>2, <3>3 DEF IdleInv
  <2>3. ASSUME NEW c \in City, PlanCity(r, c) PROVE IdleInv'
    <3>1. leader[r]
      BY <2>3 DEF PlanCity, IdleInv
    <3>2. \A s \in Replica : s # r => todo'[s] = todo[s] /\ pass'[s] = pass[s]
      BY <2>3 DEF PlanCity, TypeOK
    <3>3. QED
      BY <2>3, <3>1, <3>2 DEF PlanCity, IdleInv
  <2>4. ASSUME NEW k \in Planner, NEW kind \in PlannerKinds, PassDone(r, k, kind) PROVE IdleInv'
    BY <2>4 DEF PassDone, IdleInv, TypeOK, Planner
  <2>5. ASSUME NEW k \in Planner, PassFailed(r, k) PROVE IdleInv'
    BY <2>5 DEF PassFailed, IdleInv, TypeOK, Planner
  <2>6. CASE Others(r)
    <3>1. ~paused[r] /\ "router" \in Planner
      BY DEF IdleInv, Planner
    <3>2. UNCHANGED <<control, paused, leader, pend, todo>>
      BY <2>6, <3>1 DEF Others, DemoWork, DemoStop, Pause, DirectRequest, ManualReplan,
                        DemoStart, DemoTick, Resume, OnlyTheLog
    <3>3. \A s \in Replica : pass'[s]["router"] = pass[s]["router"]
      <4>1. \/ pass' = pass
            \/ \E p : pass' = [pass EXCEPT ![r]["demo"] = p]
            \/ \E p : pass' = [pass EXCEPT ![r]["officer"] = p]
        BY <2>6, <3>1 DEF Others, DemoWork, DemoStop, Pause, DirectRequest, ManualReplan,
                          DemoStart, DemoTick, Resume, OnlyTheLog
      <4>2. ASSUME NEW p, NEW k \in Planner \ {"router"}, pass' = [pass EXCEPT ![r][k] = p]
            PROVE  \A s \in Replica : pass'[s]["router"] = pass[s]["router"]
        BY <4>2 DEF TypeOK
      <4>3. {"demo", "officer"} \subseteq Planner \ {"router"}
        BY DEF Planner
      <4>4. QED
        BY <4>1, <4>2, <4>3
    <3>4. QED
      BY <3>2, <3>3 DEF IdleInv
  <2>7. QED
    BY <1>3, <2>1, <2>2, <2>3, <2>4, <2>5, <2>6 DEF ReplanLoop
<1>4. ASSUME NEW r \in Replica, Crash(r) PROVE IdleInv'
  BY <1>4 DEF Crash, IdleInv, TypeOK, Planner
<1>5. QED
  BY <1>1, <1>2, <1>3, <1>4 DEF Next, Faulty

(* "N replicas, one re-planner": no two routers re-plan at once, for any     *)
(* number of replicas that crash and restart at any time.                   *)
THEOREM OneRePlannerSafe == PromptLease /\ OnlyTheLog /\ Spec => []OneRePlanner
<1> SUFFICES ASSUME PromptLease, OnlyTheLog PROVE Spec => []OneRePlanner
  OBVIOUS
<1>1. TypeOK /\ LeaseInv /\ IdleInv /\ [Next]_vars => IdleInv'
  BY NextIdle
<1>2. LeaseInv /\ IdleInv => OneRePlanner
  BY DEF LeaseInv, IdleInv, OneRePlanner
<1>3. QED
  BY <1>1, <1>2, InitIdle, TypeCorrect, LeaseSafe, PTL DEF Spec

----------------------------------------------------------------------------
(* What was decided.  Assumed besides: the system has run before, a cursor   *)
(* is never too old to resume from, and transactions commit in id order.    *)
Resumable == OldEvents > 0 /\ Lookback >= MaxEvents /\ "reorder" \notin Disturbance

LEMMA InitCursor == Resumable /\ Init => CursorInv
<1> SUFFICES ASSUME Resumable, Init PROVE CursorInv
  OBVIOUS
<1>1. log \in Seq(Event) /\ DOMAIN log = 1..OldEvents /\ Len(log) = OldEvents
  <2>1. log \in Seq(Event)
    BY InitType DEF TypeOK
  <2>2. DOMAIN log = 1..OldEvents /\ DOMAIN log = 1..Len(log) /\ Len(log) \in Nat
    BY <2>1, LenProperties DEF Init
  <2>3. QED
    BY <2>1, <2>2, RouterAssumption DEF Resumable
<1>2. Open = {}
  BY <1>1 DEF Init, Open
<1>3. Committed \subseteq 1..OldEvents
  BY <1>1 DEF Committed
<1>4. Settled(OldEvents)
  BY <1>1, <1>2, <1>3, RouterAssumption DEF Settled, Resumable
<1>5. QED
  BY <1>2, <1>4 DEF Init, CursorInv

(* The largest row of a poll settles everything up to it.                   *)
LEMMA PollSettles ==
  ASSUME TypeOK, CursorInv, NEW r \in Replica, Settled(cursor[r]),
         NEW m \in Rows(r), \A j \in Rows(r) : j <= m,
         NEW i \in Committed, OldEvents < i, i <= m
  PROVE  i \in routed \cup Rows(r)
<1>1. CASE i <= cursor[r]
  BY <1>1 DEF Settled
<1>2. CASE ~(i <= cursor[r])
  <2> DEFINE upto(n) == {j \in Fresh(r) : j <= n}
  <2>1. Fresh(r) \subseteq 1..Len(log) /\ Len(log) \in Nat
    BY Head0Nat DEF Fresh
  <2>2. m \in Fresh(r) /\ Cardinality(upto(m)) <= PollLimit
    BY DEF Rows
  <2>3. i \in Fresh(r)
    BY <1>2, Head0Nat DEF Fresh, TypeOK
  <2>4. upto(i) \subseteq upto(m)
    BY <2>1, <2>2, <2>3
  <2>5. IsFiniteSet(1..Len(log))
    BY <2>1, FS_Interval
  <2>6. IsFiniteSet(upto(m))
    BY <2>1, <2>5, FS_Subset
  <2>7. Cardinality(upto(i)) <= Cardinality(upto(m))
    BY <2>4, <2>6, FS_Subset
  <2>8. IsFiniteSet(upto(i))
    BY <2>4, <2>6, FS_Subset
  <2>9. Cardinality(upto(i)) \in Nat /\ Cardinality(upto(m)) \in Nat
    BY <2>6, <2>8, FS_CardinalityType
  <2>10. Cardinality(upto(i)) <= PollLimit
    BY <2>2, <2>7, <2>9, RouterAssumption
  <2>11. QED
    BY <2>3, <2>10 DEF Rows
<1>3. QED
  BY <1>1, <1>2

(* Writers keep every settled cursor settled: what they add or close lies   *)
(* after it.                                                                *)
LEMMA LogGrows ==
  ASSUME TypeOK, CursorInv, Resumable,
         \/ Write
         \/ \E r \in Replica, k \in Planner, kind \in PlannerKinds : PassDone(r, k, kind)
  PROVE  /\ \A n : Settled(n) => Settled(n)'
         /\ \A i \in Open' : i = Len(log')
<1>0. /\ Len(log) \in Nat /\ DOMAIN log = 1..Len(log)
      /\ Committed \subseteq 1..Len(log) /\ Open \subseteq 1..Len(log)
  BY Head0Nat, LenProperties DEF TypeOK, Open
<1>1. CASE log' = log /\ routed' = routed
  BY <1>1 DEF CursorInv, Settled, Open, Committed
<1>2. ASSUME NEW e, Open = {}, e.st \in {"open", "committed"}, log' = Append(log, e),
             routed' = routed
      PROVE  /\ \A n : Settled(n) => Settled(n)'
             /\ \A i \in Open' : i = Len(log')
  <2>1. /\ Len(log') = Len(log) + 1 /\ DOMAIN log' = 1..(Len(log) + 1)
        /\ \A i \in 1..Len(log) : log'[i] = log[i]
    BY <1>0, <1>2 DEF TypeOK
  <2>2. Open' \subseteq {Len(log) + 1} /\ Committed' \subseteq Committed \cup {Len(log) + 1}
    BY <1>0, <1>2, <2>1 DEF Open, Committed
  <2>3. QED
    BY <1>0, <1>2, <2>1, <2>2 DEF Settled
<1>3. ASSUME NEW i \in Open, NEW st \in {"committed", "aborted"}, Finish(i, st)
      PROVE  /\ \A n : Settled(n) => Settled(n)'
             /\ \A j \in Open' : j = Len(log')
  <2>1. log' = [log EXCEPT ![i].st = st] /\ routed' = routed
    BY <1>3 DEF Finish, history
  <2>2. /\ Len(log') = Len(log) /\ DOMAIN log' = DOMAIN log
        /\ \A j \in DOMAIN log : j # i => log'[j] = log[j]
    BY <1>0, <2>1 DEF TypeOK
  <2>3. log[i] \in Event
    BY <1>0, ElementOfSeq DEF TypeOK
  <2>4. log'[i].st = st
    BY <1>0, <2>1, <2>3 DEF Event
  <2>5. Open' \subseteq Open \ {i} /\ Committed' \subseteq Committed \cup {i}
    BY <1>0, <2>2, <2>4 DEF Open, Committed
  <2>6. QED
    BY <1>0, <2>1, <2>2, <2>5 DEF Settled, CursorInv
<1>4. QED
  <2>1. CASE Write
    <3>1. ASSUME NEW cls \in EventClass, NEW c \in City, Insert(cls, c)
          PROVE  \E e : /\ Open = {} /\ e.st \in {"open", "committed"}
                        /\ log' = Append(log, e) /\ routed' = routed
      BY <3>1 DEF Insert, Room, Resumable, history
    <3>2. ASSUME NEW i \in DOMAIN log, NEW st \in {"committed", "aborted"}, Finish(i, st)
          PROVE  i \in Open
      BY <3>2 DEF Finish
    <3>3. QED
      BY <2>1, <1>2, <1>3, <3>1, <3>2 DEF Write
  <2>2. ASSUME NEW r \in Replica, NEW k \in Planner, NEW kind \in PlannerKinds,
               PassDone(r, k, kind)
        PROVE  \/ log' = log /\ routed' = routed
               \/ \E e : /\ Open = {} /\ e.st \in {"open", "committed"}
                         /\ log' = Append(log, e) /\ routed' = routed
    <3> DEFINE e == PlanRow(k, kind, pass[r][k].city)
    <3>1. routed' = routed /\ (log' = log \/ (Open = {} /\ log' = Append(log, e)))
      BY <2>2 DEF PassDone, Room, Resumable
    <3>2. e.st \in {"open", "committed"}
      BY DEF PlanRow
    <3>3. QED
      BY <3>1, <3>2
  <2>3. QED
    BY <1>1, <1>2, <2>1, <2>2

LEMMA NextCursor ==
  ASSUME TypeOK, LeaseInv, CursorInv, PromptLease, Resumable, [Next]_vars
  PROVE  CursorInv'
<1> USE DEF leaseVars, pollVars, demoVars, stopVars, history
<1>a. ASSUME UNCHANGED log, routed \subseteq routed'
      PROVE  /\ \A n : Settled(n) => Settled(n)'
             /\ \A i \in Open' : i = Len(log')
  BY <1>a DEF Settled, Open, Committed, CursorInv
<1>1. ASSUME \/ Write
             \/ \E r \in Replica, k \in Planner, kind \in PlannerKinds : PassDone(r, k, kind)
      PROVE  CursorInv'
  <2>1. UNCHANGED <<stored, leader, pc, cursor, meta>>
    BY <1>1, WriteOnly DEF PassDone
  <2>2. QED
    BY <1>1, <2>1, LogGrows DEF CursorInv
<1>2. ASSUME UNCHANGED <<log, stored, leader, pc, cursor, meta, routed>> PROVE CursorInv'
  BY <1>2, <1>a DEF CursorInv
<1>3. CASE Lapse \/ UNCHANGED vars
  BY <1>3, <1>2 DEF Lapse, vars
<1>4. ASSUME NEW r \in Replica, PollLoop(r) \/ HoldFailed(r) \/ QueryFailed(r)
      PROVE  CursorInv'
  <2>1. CASE Start(r)
    <3>1. ~leader[r]
      BY <2>1 DEF Start, LeaseInv
    <3>2. UNCHANGED <<log, stored, leader, meta, routed>>
      BY <2>1 DEF Start
    <3>3. \A s \in Replica : s # r => pc'[s] = pc[s] /\ cursor'[s] = cursor[s]
      BY <2>1 DEF Start, TypeOK
    <3>4. pc'[r] = "hold"
      BY <2>1 DEF Start, TypeOK
    <3>5. QED
      BY <3>1, <3>2, <3>3, <3>4, <1>a DEF CursorInv
  <2>2. CASE Acquire(r)
    <3>1. \A s \in Replica : s # r => ~leader[s] /\ pc[s] \notin {"takeover", "poll"}
      BY <2>2, RouterAssumption DEF Acquire, LeaseInv, TypeOK
    <3>2. UNCHANGED <<log, routed, cursor>> /\ stored' = IF leader[r] THEN cursor[r] ELSE stored
      BY <2>2 DEF Acquire
    <3>3. \A s \in Replica : s # r => pc'[s] = pc[s] /\ leader'[s] = leader[s]
      BY <2>2 DEF Acquire, TypeOK
    <3>4. pc[r] = "hold" /\ (leader[r] => pc'[r] = "poll")
          /\ (~leader[r] => pc'[r] = "takeover" /\ meta'[r] = stored)
      BY <2>2 DEF Acquire, TypeOK
    <3>5. Settled(stored)'
      BY <3>2, <3>4, <1>a DEF CursorInv
    <3>6. QED
      BY <3>1, <3>2, <3>3, <3>4, <3>5, <1>a DEF CursorInv
  <2>3. CASE Refused(r)
    <3>1. UNCHANGED <<log, stored, pc, cursor, meta, routed>>
          /\ \A s \in Replica : leader'[s] => leader[s]
      BY <2>3 DEF Refused, TypeOK
    <3>2. QED
      BY <3>1, <1>a DEF CursorInv
  <2>4. CASE TakeOver(r)
    <3>1. ResumeCursor(r) = stored
      <4>1. meta[r] = stored /\ stored \in 1..Len(log) /\ stored # 0
        BY <2>4, Head0Nat DEF TakeOver, CursorInv, Settled
      <4>2. Head0 <= Lookback /\ Head0 \in Nat
        BY Head0Nat, RouterAssumption DEF Resumable, TypeOK
      <4>3. Head0 - stored <= Lookback
        BY <4>1, <4>2, Head0Nat, RouterAssumption
      <4>4. QED
        BY <4>1, <4>3 DEF ResumeCursor
    <3>2. /\ UNCHANGED <<log, stored, leader, routed>> /\ cursor'[r] = stored /\ pc'[r] = "poll"
          /\ \A s \in Replica : s # r =>
               pc'[s] = pc[s] /\ cursor'[s] = cursor[s] /\ meta'[s] = meta[s]
      BY <2>4, <3>1 DEF TakeOver, TypeOK
    <3>3. QED
      BY <3>2, <1>a DEF CursorInv
  <2>5. CASE Poll(r)
    <3>1. leader[r] /\ pc[r] = "poll"
      BY <2>5 DEF Poll, LeaseInv
    <3>2. Settled(cursor[r])
      BY <3>1 DEF CursorInv
    <3>3. /\ UNCHANGED <<log, stored, leader, meta>> /\ routed' = routed \cup Rows(r)
          /\ cursor'[r] = IF Rows(r) = {} THEN cursor[r]
                          ELSE CHOOSE i \in Rows(r) : \A j \in Rows(r) : j <= i
          /\ pc'[r] = "hold"
          /\ \A s \in Replica : s # r => pc'[s] = pc[s] /\ cursor'[s] = cursor[s]
      BY <2>5 DEF Poll, TypeOK
    <3>4. CASE Rows(r) = {}
      BY <3>2, <3>3, <3>4, <1>a DEF CursorInv
    <3>5. CASE Rows(r) # {}
      <4>1. PICK m \in Rows(r) : cursor'[r] = m /\ \A j \in Rows(r) : j <= m
        BY <3>3, <3>5, RowsType
      <4>2. m \in Committed /\ m \in 1..Len(log)
        BY <4>1, RowsType, Head0Nat
      <4>3. \A i \in Open : m < i
        <5>1. Open \cap Committed = {}
          BY DEF Open, Committed
        <5>2. QED
          BY <4>2, <5>1, Head0Nat DEF CursorInv
      <4>4. \A i \in Committed : OldEvents < i /\ i <= m => i \in routed \cup Rows(r)
        BY <3>2, <4>1, PollSettles
      <4>5. Settled(m)'
        BY <3>3, <4>2, <4>3, <4>4 DEF Settled, Open, Committed
      <4>6. QED
        BY <3>3, <4>1, <4>5, <1>a DEF CursorInv
    <3>6. QED
      BY <3>4, <3>5
  <2>6. QED
    BY <1>4, <2>1, <2>2, <2>3, <2>4, <2>5 DEF PollLoop, HoldFailed, QueryFailed, PromptLease
<1>5. ASSUME NEW r \in Replica,
             ReplanLoop(r) \/ (\E k \in Planner : PassFailed(r, k)) \/ Others(r)
      PROVE  CursorInv'
  <2>1. CASE log' = log
    BY <1>5, <2>1, <1>2, OthersLease
  <2>2. CASE log' # log
    <3>1. \E k \in Planner, kind \in PlannerKinds : PassDone(r, k, kind)
      BY <1>5, <2>2 DEF ReplanLoop, TakeBatch, Dispatch, GraphEnds, PlanCity, PassFailed, Others,
           DemoWork, DemoStop, Pause, DirectRequest, ManualReplan, DemoStart, DemoTick, Resume
    <3>2. QED
      BY <3>1, <1>1
  <2>3. QED
    BY <2>1, <2>2
<1>6. ASSUME NEW r \in Replica, Crash(r) PROVE CursorInv'
  <2>1. /\ UNCHANGED <<log, stored, cursor, routed>>
        /\ \A s \in Replica : leader'[s] => leader[s]
        /\ \A s \in Replica : s # r => pc'[s] = pc[s] /\ meta'[s] = meta[s]
        /\ pc'[r] = "down" /\ ~leader'[r]
    BY <1>6 DEF Crash, TypeOK
  <2>2. QED
    BY <2>1, <1>a DEF CursorInv
<1>7. QED
  BY <1>1, <1>3, <1>4, <1>5, <1>6 DEF Next, Faulty

THEOREM CursorSafe == PromptLease /\ Resumable /\ Spec => []CursorInv
<1> SUFFICES ASSUME PromptLease, Resumable PROVE Spec => []CursorInv
  OBVIOUS
<1>1. TypeOK /\ LeaseInv /\ CursorInv /\ [Next]_vars => CursorInv'
  BY NextCursor
<1>2. Init => CursorInv
  BY InitCursor
<1>3. QED
  BY <1>1, <1>2, TypeCorrect, LeaseSafe, PTL DEF Spec

(* A leader's cursor never passes a committed event nobody decided about,    *)
(* for any number of replicas, events and rows per poll, if ids commit in   *)
(* order.                                                                   *)
THEOREM EveryEventRoutedSafe == PromptLease /\ Resumable /\ Spec => []EveryEventRouted
<1>1. CursorInv => EveryEventRouted
  BY DEF CursorInv, Settled, EveryEventRouted
<1>2. QED
  BY <1>1, CursorSafe, PTL

(* The stored cursor a successor resumes from is never ahead of what some    *)
(* leader decided about, so a takeover loses nothing.                       *)
THEOREM StoredIsRoutedSafe == PromptLease /\ Resumable /\ Spec => []StoredIsRouted
<1>1. CursorInv => StoredIsRouted
  BY DEF CursorInv, Settled, StoredIsRouted
<1>2. QED
  BY <1>1, CursorSafe, PTL

----------------------------------------------------------------------------
(* What a replica remembers.  Nothing is assumed here: what was answered    *)
(* was in the log; a re-plan has before it the events of its own city; a    *)
(* demo runs in one city; a process that is down is not paused.             *)
MemoryInv ==
  /\ answered \subseteq Committed
  /\ \A r \in Replica, k \in Planner : pass[r][k] # NoPass =>
       pass[r][k].seen \subseteq IdsOf(pass[r][k].city)
  /\ \A r \in Replica : \A c, d \in demo[r] : c = d
  /\ \A r \in Replica : pc[r] = "down" => ~paused[r]

(* A step adds a row, closes one that is open, or leaves the log alone.     *)
LEMMA LogSteps ==
  ASSUME TypeOK, [Next]_vars
  PROVE  \/ log' = log
         \/ \E e \in Event : log' = Append(log, e) /\ Len(log) < MaxEvents
         \/ \E i \in Open, st \in {"committed", "aborted"} :
              log' = [log EXCEPT ![i].st = st] /\ answered' = answered
<1> USE DEF leaseVars, pollVars, demoVars, stopVars, history
<1>1. ASSUME NEW cls \in EventClass, NEW c \in City, Insert(cls, c)
      PROVE  \E e \in Event : log' = Append(log, e) /\ Len(log) < MaxEvents
  <2> DEFINE e == [kind |-> cls.kind, actor |-> cls.actor, city |-> c, st |-> "open"]
  <2>1. e \in Event
    BY RouterAssumption DEF Event
  <2>2. log' = Append(log, e) /\ Len(log) < MaxEvents
    BY <1>1 DEF Insert, Room
  <2>3. QED
    BY <2>1, <2>2
<1>2. ASSUME NEW i \in DOMAIN log, NEW st \in {"committed", "aborted"}, Finish(i, st)
      PROVE  \E j \in Open : log' = [log EXCEPT ![j].st = st] /\ answered' = answered
  BY <1>2 DEF Finish
<1>3. ASSUME NEW r \in Replica, NEW k \in Planner, NEW kind \in PlannerKinds, PassDone(r, k, kind)
      PROVE  \/ log' = log
             \/ \E e \in Event : log' = Append(log, e) /\ Len(log) < MaxEvents
  <2> DEFINE e == PlanRow(k, kind, pass[r][k].city)
  <2>1. pass[r][k] \in PassType
    BY <1>3 DEF PassDone, TypeOK
  <2>2. e \in Event
    BY <2>1 DEF PlanRow, PassType, Event, Kind, PlannerKinds, IgnoredKinds, OtherKinds, Actors
  <2>3. log' = log \/ (log' = Append(log, e) /\ Len(log) < MaxEvents)
    BY <1>3 DEF PassDone, Room
  <2>4. QED
    BY <2>2, <2>3
<1>4. ASSUME NEW r \in Replica,
             \/ PollLoop(r) \/ Faulty(r) \/ Others(r)
             \/ TakeBatch(r) \/ Dispatch(r) \/ GraphEnds(r) \/ \E c \in City : PlanCity(r, c)
      PROVE  log' = log
  BY <1>4 DEF PollLoop, Start, Acquire, Refused, TakeOver, Poll, Faulty, HoldFailed, QueryFailed,
       Crash, PassFailed, TakeBatch, Dispatch, GraphEnds, PlanCity, Others, DemoWork, DemoStop, Pause,
       DirectRequest, ManualReplan, DemoStart, DemoTick, Resume
<1>5. CASE Lapse \/ UNCHANGED vars
  BY <1>5 DEF Lapse, vars
<1>6. QED
  BY <1>1, <1>2, <1>3, <1>4, <1>5 DEF Next, Write, ReplanLoop

(* A row keeps what it says, and once committed it stays so.                *)
LEMMA LogKeeps ==
  ASSUME TypeOK, [Next]_vars
  PROVE  /\ \A i \in DOMAIN log : /\ i \in DOMAIN log'
                                  /\ log'[i].city = log[i].city
                                  /\ log'[i].kind = log[i].kind
                                  /\ log'[i].actor = log[i].actor
         /\ Committed \subseteq Committed'
         /\ \A c \in City : IdsOf(c) \subseteq IdsOf(c)'
<1>0. /\ Len(log) \in Nat /\ DOMAIN log = 1..Len(log)
      /\ \A i \in DOMAIN log : log[i] \in Event
  BY LenProperties, ElementOfSeq DEF TypeOK
<1>1. \A i \in DOMAIN log : /\ i \in DOMAIN log'
                            /\ log'[i].city = log[i].city
                            /\ log'[i].kind = log[i].kind
                            /\ log'[i].actor = log[i].actor
                            /\ log[i].st = "committed" => log'[i].st = "committed"
  <2>1. CASE log' = log
    BY <2>1
  <2>2. ASSUME NEW e \in Event, log' = Append(log, e)
        PROVE  \A i \in DOMAIN log : i \in DOMAIN log' /\ log'[i] = log[i]
    BY <1>0, <2>2, AppendProperties DEF TypeOK
  <2>3. ASSUME NEW j \in Open, NEW st, log' = [log EXCEPT ![j].st = st], NEW i \in DOMAIN log
        PROVE  /\ i \in DOMAIN log'
               /\ log'[i].city = log[i].city
               /\ log'[i].kind = log[i].kind
               /\ log'[i].actor = log[i].actor
               /\ log[i].st = "committed" => log'[i].st = "committed"
    <3>1. CASE i = j
      <4>1. log'[i] = [log[i] EXCEPT !.st = st] /\ log[i].st = "open" /\ i \in DOMAIN log'
        BY <2>3, <3>1 DEF Open
      <4>2. QED
        BY <1>0, <4>1 DEF Event
    <3>2. CASE i # j
      BY <2>3, <3>2
    <3>3. QED
      BY <3>1, <3>2
  <2>4. QED
    BY <2>1, <2>2, <2>3, LogSteps
<1>2. Committed \subseteq Committed'
  BY <1>1 DEF Committed
<1>3. \A c \in City : IdsOf(c) \subseteq IdsOf(c)'
  BY <1>1, <1>2 DEF IdsOf, Committed
<1>4. QED
  BY <1>1, <1>2, <1>3

(* A re-plan goes on as it is, ends, or begins again from the log as it is. *)
LEMMA PassSteps ==
  ASSUME TypeOK, [Next]_vars, NEW s \in Replica, NEW k \in Planner
  PROVE  \/ pass'[s][k] = pass[s][k]
         \/ pass'[s][k] = NoPass
         \/ \E c \in City, ph \in {"think", "write"} : pass'[s][k] = NewPass(c, ph)
<1> USE DEF leaseVars, pollVars, demoVars, stopVars, history
<1> DEFINE Shape == \/ pass'[s][k] = pass[s][k]
                    \/ pass'[s][k] = NoPass
                    \/ \E c \in City, ph \in {"think", "write"} : pass'[s][k] = NewPass(c, ph)
<1>a. ASSUME NEW r \in Replica, NEW l \in Planner, NEW p, pass' = [pass EXCEPT ![r][l] = p],
             p = NoPass \/ \E c \in City, ph \in {"think", "write"} : p = NewPass(c, ph)
      PROVE  Shape
  <2>1. pass'[s][k] = IF s = r /\ k = l THEN p ELSE pass[s][k]
    BY <1>a DEF TypeOK
  <2>2. QED
    BY <1>a, <2>1
<1>0. {"router", "demo", "officer"} = Planner
  BY DEF Planner
<1>1. CASE Write \/ Lapse \/ UNCHANGED vars
  BY <1>1, WriteOnly DEF Lapse, vars
<1>2. ASSUME NEW r \in Replica, PollLoop(r) \/ HoldFailed(r) \/ QueryFailed(r) PROVE Shape
  BY <1>2 DEF PollLoop, Start, Acquire, Refused, TakeOver, Poll, HoldFailed, QueryFailed
<1>3. ASSUME NEW r \in Replica, ReplanLoop(r) \/ \E l \in Planner : PassFailed(r, l) PROVE Shape
  <2>1. CASE TakeBatch(r)
    BY <2>1 DEF TakeBatch
  <2>2. CASE Dispatch(r)
    <3>1. pass[r]["router"].city \in City
      BY <1>0, <2>2 DEF Dispatch, TypeOK, PassType
    <3>2. \/ pass' = [pass EXCEPT ![r]["router"] = NoPass]
          \/ pass' = [pass EXCEPT ![r]["router"] = NewPass(pass[r]["router"].city, "write")]
      BY <2>2 DEF Dispatch
    <3>3. QED
      BY <1>0, <1>a, <3>1, <3>2
  <2>3. ASSUME NEW c \in City, PlanCity(r, c) PROVE Shape
    <3>1. \/ pass' = pass
          \/ pass' = [pass EXCEPT ![r]["router"] = NewPass(c, IF GraphEnabled THEN "think" ELSE "write")]
      BY <2>3 DEF PlanCity
    <3>2. QED
      BY <1>0, <1>a, <3>1
  <2>4. ASSUME NEW l \in Planner, NEW kind \in PlannerKinds, PassDone(r, l, kind) PROVE Shape
    BY <1>a, <2>4 DEF PassDone
  <2>5. ASSUME NEW l \in Planner, PassFailed(r, l) PROVE Shape
    BY <1>a, <2>5 DEF PassFailed
  <2>6. CASE GraphEnds(r)
    BY <1>0, <1>a, <2>6 DEF GraphEnds
  <2>7. QED
    BY <1>3, <2>1, <2>2, <2>3, <2>4, <2>5, <2>6 DEF ReplanLoop
<1>4. ASSUME NEW r \in Replica, Others(r) PROVE Shape
  <2>1. CASE DemoWork(r) \/ \E c \in City : DirectRequest(r, c) \/ DemoStart(r, c) \/ Resume(r, c)
    BY <2>1 DEF DemoWork, DirectRequest, DemoStart, Resume
  <2>2. CASE DemoStop(r) \/ Pause(r)
    BY <1>0, <1>a, <2>2 DEF DemoStop, Pause
  <2>3. ASSUME NEW c \in City, ManualReplan(r, c) \/ DemoTick(r, c) PROVE Shape
    BY <1>0, <1>a, <2>3 DEF ManualReplan, DemoTick
  <2>4. QED
    BY <1>4, <2>1, <2>2, <2>3 DEF Others
<1>5. ASSUME NEW r \in Replica, Crash(r) PROVE Shape
  BY <1>5 DEF Crash, TypeOK
<1>6. QED
  BY <1>1, <1>2, <1>3, <1>4, <1>5 DEF Next, Faulty

(* What is answered grows by what a re-plan that ends had before it.        *)
LEMMA AnswerSteps ==
  ASSUME TypeOK, [Next]_vars
  PROVE  \/ answered' = answered
         \/ \E r \in Replica, k \in Planner :
              pass[r][k] # NoPass /\ answered' = answered \cup pass[r][k].seen
<1> USE DEF leaseVars, pollVars, demoVars, stopVars, history
<1>1. CASE Write \/ Lapse \/ UNCHANGED vars
  BY <1>1, WriteOnly DEF Lapse, vars
<1>2. ASSUME NEW r \in Replica,
             \/ PollLoop(r) \/ Faulty(r) \/ Others(r)
             \/ TakeBatch(r) \/ Dispatch(r) \/ \E c \in City : PlanCity(r, c)
      PROVE  answered' = answered
  BY <1>2 DEF PollLoop, Start, Acquire, Refused, TakeOver, Poll, Faulty, HoldFailed, QueryFailed,
       Crash, PassFailed, TakeBatch, Dispatch, PlanCity, Others, DemoWork, DemoStop, Pause,
       DirectRequest, ManualReplan, DemoStart, DemoTick, Resume
<1>3. ASSUME NEW r \in Replica, NEW k \in Planner, NEW kind \in PlannerKinds, PassDone(r, k, kind)
      PROVE  pass[r][k] # NoPass /\ answered' = answered \cup pass[r][k].seen
  BY <1>3 DEF PassDone
<1>4. ASSUME NEW r \in Replica, GraphEnds(r)
      PROVE  \/ answered' = answered
             \/ \E k \in Planner : pass[r][k] # NoPass /\ answered' = answered \cup pass[r][k].seen
  BY <1>4 DEF GraphEnds, Planner
<1>5. QED
  BY <1>1, <1>2, <1>3, <1>4 DEF Next, ReplanLoop

LEMMA InitMemory == Init => MemoryInv
BY DEF Init, MemoryInv

LEMMA NextMemory ==
  ASSUME TypeOK, MemoryInv, [Next]_vars
  PROVE  MemoryInv'
<1> USE DEF leaseVars, pollVars, demoVars, stopVars, history
<1>1. (answered \subseteq Committed)'
  <2>1. answered \subseteq Committed'
    BY LogKeeps DEF MemoryInv
  <2>2. ASSUME NEW r \in Replica, NEW k \in Planner, pass[r][k] # NoPass
        PROVE  pass[r][k].seen \subseteq Committed'
    BY <2>2, LogKeeps DEF MemoryInv, IdsOf
  <2>3. QED
    BY <2>1, <2>2, AnswerSteps
<1>2. ASSUME NEW s \in Replica, NEW k \in Planner, pass'[s][k] # NoPass
      PROVE  (pass[s][k].seen \subseteq IdsOf(pass[s][k].city))'
  <2>1. CASE pass'[s][k] = pass[s][k]
    <3>1. pass[s][k] \in PassType
      BY <1>2, <2>1 DEF TypeOK
    <3>2. pass[s][k].city \in City
      BY <3>1 DEF PassType
    <3>3. pass[s][k].seen \subseteq IdsOf(pass[s][k].city)
      BY <1>2, <2>1 DEF MemoryInv
    <3>4. ASSUME NEW c \in City, pass[s][k].city = c PROVE pass[s][k].seen \subseteq IdsOf(c)'
      BY <3>3, <3>4, LogKeeps
    <3>5. QED
      BY <2>1, <3>2, <3>4 DEF IdsOf
  <2>2. ASSUME NEW c \in City, NEW ph \in {"think", "write"}, pass'[s][k] = NewPass(c, ph)
        PROVE  (pass[s][k].seen \subseteq IdsOf(pass[s][k].city))'
    <3>1. pass'[s][k].seen = IdsOf(c) /\ pass'[s][k].city = c
      BY <2>2 DEF NewPass
    <3>2. IdsOf(c) \subseteq IdsOf(c)'
      BY LogKeeps
    <3>3. QED
      BY <3>1, <3>2 DEF IdsOf
  <2>3. QED
    BY <1>2, <2>1, <2>2, PassSteps
<1>3. ASSUME NEW s \in Replica
      PROVE  /\ demo'[s] \subseteq demo[s] \/ \E c \in City : demo'[s] = {c}
             /\ pc'[s] = "down" => (pc[s] = "down" /\ paused'[s] = paused[s]) \/ ~paused'[s]
  <2> DEFINE Kept == /\ demo'[s] \subseteq demo[s] \/ \E c \in City : demo'[s] = {c}
                     /\ pc'[s] = "down" => (pc[s] = "down" /\ paused'[s] = paused[s]) \/ ~paused'[s]
  <2>1. CASE Write \/ Lapse \/ UNCHANGED vars
    BY <2>1, WriteOnly DEF Lapse, vars
  <2>2. ASSUME NEW r \in Replica, PollLoop(r) \/ HoldFailed(r) \/ QueryFailed(r) PROVE Kept
    BY <2>2 DEF PollLoop, Start, Acquire, Refused, TakeOver, Poll, HoldFailed, QueryFailed, TypeOK
  <2>3. ASSUME NEW r \in Replica, ReplanLoop(r) \/ \E k \in Planner : PassFailed(r, k) PROVE Kept
    <3>1. UNCHANGED <<demo, pc, paused>>
      BY <2>3 DEF ReplanLoop, TakeBatch, Dispatch, GraphEnds, PlanCity, PassDone, PassFailed
    <3>2. QED
      BY <3>1
  <2>4. ASSUME NEW r \in Replica, Others(r) PROVE Kept
    BY <2>4 DEF Others, DemoWork, DemoStop, Pause, DirectRequest, ManualReplan, DemoStart,
                DemoTick, Resume, TypeOK
  <2>5. ASSUME NEW r \in Replica, Crash(r) PROVE Kept
    BY <2>5 DEF Crash, TypeOK
  <2>6. QED
    BY <2>1, <2>2, <2>3, <2>4, <2>5 DEF Next, Faulty
<1>4. QED
  BY <1>1, <1>2, <1>3 DEF MemoryInv

LEMMA MemoryAlways == Spec => [](TypeOK /\ MemoryInv)
<1>1. TypeOK /\ MemoryInv /\ [Next]_vars => MemoryInv'
  BY NextMemory
<1>2. QED
  BY <1>1, InitMemory, TypeCorrect, PTL DEF Spec

----------------------------------------------------------------------------
(* Refinement: what the router does, seen as changes and answers.           *)

Promised == Abstract!Init /\ [][Abstract!Next]_(Abstract!vars)

(* A change appears when a row somebody else wrote commits, one at a time,  *)
(* or with the re-plan an officer asked for.                                *)
LEMMA ChangeSteps ==
  ASSUME TypeOK, [Next]_vars
  PROVE  \/ Changes' = Changes
         \/ \E i \in 1..MaxEvents \ Changes : i \notin Committed /\ Changes' = Changes \cup {i}
<1>0. /\ Len(log) \in Nat /\ DOMAIN log = 1..Len(log) /\ Len(log) <= MaxEvents /\ MaxEvents \in Nat
      /\ \A i \in DOMAIN log : log[i] \in Event
  BY RouterAssumption, LenProperties, ElementOfSeq DEF TypeOK
<1>1. CASE log' = log
  BY <1>1 DEF Changes, Worthy, Committed
<1>2. ASSUME NEW e \in Event, log' = Append(log, e), Len(log) < MaxEvents
      PROVE  \/ Changes' = Changes
             \/ \E i \in 1..MaxEvents \ Changes : i \notin Committed /\ Changes' = Changes \cup {i}
  <2> DEFINE i == Len(log) + 1
  <2>1. /\ DOMAIN log' = DOMAIN log \cup {i}
        /\ \A j \in DOMAIN log : log'[j] = log[j]
    BY <1>0, <1>2, AppendProperties DEF TypeOK
  <2>2. i \in 1..MaxEvents /\ i \notin DOMAIN log
    BY <1>0, <1>2
  <2> HIDE DEF i
  <2>3. Committed' \ {i} = Committed /\ i \notin Committed
    BY <2>1, <2>2 DEF Committed
  <2>4. Worthy' \ {i} = Worthy /\ i \notin Worthy
    BY <2>1, <2>2, <2>3 DEF Worthy, Committed
  <2>5. Changes' \ {i} = Changes /\ i \notin Changes
    BY <2>4 DEF Changes
  <2>6. QED
    BY <2>2, <2>3, <2>5
<1>3. ASSUME NEW i \in Open, NEW st \in {"committed", "aborted"},
             log' = [log EXCEPT ![i].st = st]
      PROVE  \/ Changes' = Changes
             \/ i \in 1..MaxEvents \ Changes /\ i \notin Committed /\ Changes' = Changes \cup {i}
  <2>1. /\ DOMAIN log' = DOMAIN log /\ \A j \in DOMAIN log : j # i => log'[j] = log[j]
        /\ i \in DOMAIN log /\ log[i].st = "open"
    BY <1>3 DEF Open
  <2>2. Committed \ {i} = Committed' \ {i} /\ i \notin Committed
    BY <2>1 DEF Committed
  <2>3. Worthy \ {i} = Worthy' \ {i} /\ i \notin Worthy
    BY <2>1, <2>2 DEF Worthy, Committed
  <2>4. Changes \ {i} = Changes' \ {i} /\ i \notin Changes
    BY <2>3 DEF Changes
  <2>5. i \in 1..MaxEvents
    BY <1>0, <2>1
  <2>6. Changes' = Changes \/ Changes' = Changes \cup {i}
    BY <2>4
  <2>7. QED
    BY <2>2, <2>4, <2>5, <2>6
<1>4. QED
  BY <1>1, <1>2, <1>3, LogSteps

LEMMA StepsAreAbstract ==
  ASSUME TypeOK, MemoryInv, [Next]_vars
  PROVE  [Abstract!Next]_(Abstract!vars)
<1>1. PICK S \in SUBSET Committed : answered' = answered \cup S
  <2>1. ASSUME NEW r \in Replica, NEW k \in Planner, pass[r][k] # NoPass
        PROVE  pass[r][k].seen \subseteq Committed
    BY <2>1 DEF MemoryInv, IdsOf
  <2>2. CASE answered' = answered
    <3>1. answered' = answered \cup {}
      BY <2>2
    <3>2. QED
      BY <3>1
  <2>3. ASSUME NEW r \in Replica, NEW k \in Planner, pass[r][k] # NoPass,
               answered' = answered \cup pass[r][k].seen
        PROVE  \E S \in SUBSET Committed : answered' = answered \cup S
    BY <2>1, <2>3
  <2>4. QED
    BY <2>2, <2>3, AnswerSteps
<1> DEFINE R == S \cap Changes
<1>2. R \in SUBSET Changes
  OBVIOUS
<1>3. CASE Changes' = Changes
  <2>1. (answered \cap Changes)' = (answered \cap Changes) \cup R
    BY <1>1, <1>3
  <2>2. Abstract!Replan(R)
    BY <1>2, <1>3, <2>1 DEF Abstract!Replan
  <2>3. QED
    BY <1>2, <2>2 DEF Abstract!Next
<1>4. ASSUME NEW i \in 1..MaxEvents \ Changes, i \notin Committed, Changes' = Changes \cup {i}
      PROVE  Abstract!Next
  <2>1. i \notin answered /\ i \notin S
    BY <1>1, <1>4 DEF MemoryInv
  <2>2. (answered \cap Changes)' = (answered \cap Changes) \cup R
    BY <1>1, <1>4, <2>1
  <2>3. Abstract!Replan(R)
    BY <1>2, <1>4, <2>2 DEF Abstract!Replan
  <2>4. QED
    BY <1>2, <2>3 DEF Abstract!Next
<1>5. QED
  BY <1>3, <1>4, ChangeSteps

(* The router and its log, with replicas, leases, crashes, stops and demos, *)
(* keep what ReactivePlanning promises of safety: a change appears once, an *)
(* answer is given only to a change that happened and is never taken back.  *)
(* That every change is answered is liveness and is checked by TLC.         *)
THEOREM RefinesSafely == Spec => Promised
<1>1. Init => Abstract!Init
  <2> SUFFICES ASSUME Init PROVE Changes = {} /\ answered \cap Changes = {}
    BY DEF Abstract!Init
  <2>1. DOMAIN log = 1..OldEvents
    BY DEF Init
  <2>2. Changes = {}
    BY <2>1, RouterAssumption DEF Changes, Worthy, Committed
  <2>3. QED
    BY <2>2
<1>2. TypeOK /\ MemoryInv /\ [Next]_vars => [Abstract!Next]_(Abstract!vars)
  BY StepsAreAbstract
<1>3. QED
  BY <1>1, <1>2, MemoryAlways, PTL DEF Spec, Promised

----------------------------------------------------------------------------
(* What a step may do to the requests in memory.                            *)

(* With the graph on, dispatch looks at the kill switch again: a replica    *)
(* that is paused lets no re-plan of its own loop begin to write.           *)
THEOREM PausedBeginsNoWriteSafe == GraphEnabled /\ Spec => PausedBeginsNoWrite
<1> SUFFICES ASSUME GraphEnabled PROVE Spec => PausedBeginsNoWrite
  OBVIOUS
<1> USE DEF leaseVars, pollVars, demoVars, stopVars, history
<1> DEFINE Begins(s) == /\ pass'[s]["router"] # NoPass /\ pass'[s]["router"].phase = "write"
                        /\ pass[s]["router"] # pass'[s]["router"]
<1>0. {"router", "demo", "officer"} = Planner
  BY DEF Planner
<1>a. ASSUME TypeOK, NEW r \in Replica, NEW l \in Planner, NEW p, NEW s \in Replica,
             pass' = [pass EXCEPT ![r][l] = p], l = "router" => p = NoPass \/ p.phase = "think"
      PROVE  ~Begins(s)
  <2>1. pass'[s]["router"] = IF s = r /\ l = "router" THEN p ELSE pass[s]["router"]
    BY <1>0, <1>a DEF TypeOK
  <2>2. QED
    BY <1>a, <2>1
<1>1. ASSUME TypeOK, Next, NEW s \in Replica, paused[s] PROVE ~Begins(s)
  <2>1. CASE Write \/ Lapse
    BY <2>1, WriteOnly DEF Lapse
  <2>2. ASSUME NEW r \in Replica, PollLoop(r) \/ HoldFailed(r) \/ QueryFailed(r) PROVE ~Begins(s)
    BY <2>2 DEF PollLoop, Start, Acquire, Refused, TakeOver, Poll, HoldFailed, QueryFailed
  <2>3. ASSUME NEW r \in Replica, ReplanLoop(r) \/ \E l \in Planner : PassFailed(r, l)
        PROVE  ~Begins(s)
    <3>1. CASE TakeBatch(r)
      BY <3>1 DEF TakeBatch
    <3>2. CASE Dispatch(r)
      <4>1. CASE r = s
        <5>1. pass' = [pass EXCEPT ![r]["router"] = NoPass]
          BY <1>1, <3>2, <4>1 DEF Dispatch
        <5>2. QED
          BY <1>0, <1>1, <1>a, <5>1
      <4>2. CASE r # s
        <5>1. pass'[s] = pass[s]
          BY <1>1, <3>2, <4>2 DEF Dispatch, TypeOK
        <5>2. QED
          BY <5>1
      <4>3. QED
        BY <4>1, <4>2
    <3>3. ASSUME NEW c \in City, PlanCity(r, c) PROVE ~Begins(s)
      <4>1. pass' = pass \/ pass' = [pass EXCEPT ![r]["router"] = NewPass(c, "think")]
        BY <3>3 DEF PlanCity
      <4>2. NewPass(c, "think").phase = "think"
        BY DEF NewPass
      <4>3. QED
        BY <1>0, <1>1, <1>a, <4>1, <4>2
    <3>4. ASSUME NEW l \in Planner, NEW kind \in PlannerKinds, PassDone(r, l, kind) PROVE ~Begins(s)
      BY <1>1, <1>a, <3>4 DEF PassDone
    <3>5. ASSUME NEW l \in Planner, PassFailed(r, l) PROVE ~Begins(s)
      BY <1>1, <1>a, <3>5 DEF PassFailed
    <3>6. CASE GraphEnds(r)
      BY <1>0, <1>1, <1>a, <3>6 DEF GraphEnds
    <3>7. QED
      BY <2>3, <3>1, <3>2, <3>3, <3>4, <3>5, <3>6 DEF ReplanLoop
  <2>4. ASSUME NEW r \in Replica, Others(r) PROVE ~Begins(s)
    <3>1. CASE DemoWork(r) \/ \E c \in City : DirectRequest(r, c) \/ DemoStart(r, c) \/ Resume(r, c)
      BY <3>1 DEF DemoWork, DirectRequest, DemoStart, Resume
    <3>2. CASE \/ DemoStop(r) \/ Pause(r)
               \/ \E c \in City : ManualReplan(r, c) \/ DemoTick(r, c)
      <4>1. \/ \E p : pass' = [pass EXCEPT ![r]["demo"] = p]
            \/ \E p : pass' = [pass EXCEPT ![r]["officer"] = p]
        BY <3>2 DEF DemoStop, Pause, ManualReplan, DemoTick
      <4>2. ASSUME NEW p, NEW l \in {"demo", "officer"}, pass' = [pass EXCEPT ![r][l] = p]
            PROVE  ~Begins(s)
        BY <1>0, <1>1, <1>a, <4>2
      <4>3. QED
        BY <4>1, <4>2
    <3>3. QED
      BY <2>4, <3>1, <3>2 DEF Others
  <2>5. ASSUME NEW r \in Replica, Crash(r) PROVE ~Begins(s)
    BY <1>0, <1>1, <2>5 DEF Crash, TypeOK
  <2>6. QED
    BY <1>1, <2>1, <2>2, <2>3, <2>4, <2>5 DEF Next, Faulty
<1>2. TypeOK /\ [Next]_vars => [\A r \in Replica : paused[r] => ~Begins(r)]_vars
  BY <1>1
<1>3. QED
  BY <1>2, TypeCorrect, PTL DEF Spec, PausedBeginsNoWrite

(* "The request is handed to it": the flag of a running demo goes down only *)
(* with a re-plan of its city that has every row before it.                 *)
THEOREM HandedOverIsKeptSafe == Spec => HandedOverIsKept
<1> USE DEF leaseVars, pollVars, demoVars, stopVars, history
<1>1. ASSUME TypeOK, MemoryInv, Next, NEW s \in Replica, NEW c \in City,
             dirty[s], c \in demo[s], ~dirty'[s], demo'[s] = demo[s]
      PROVE  pass'[s]["demo"] # NoPass /\ IdsOf(c) \subseteq pass'[s]["demo"].seen
  <2> DEFINE Kept == pass'[s]["demo"] # NoPass /\ IdsOf(c) \subseteq pass'[s]["demo"].seen
  <2>0. dirty' # dirty /\ demo[s] # {}
    BY <1>1
  <2>1. CASE Write \/ Lapse
    BY <2>0, <2>1, WriteOnly DEF Lapse
  <2>2. ASSUME NEW r \in Replica, NEW d \in City, DemoTick(r, d) PROVE Kept
    <3>1. /\ dirty' = [dirty EXCEPT ![r] = FALSE]
          /\ pass' = [pass EXCEPT ![r]["demo"] = NewPass(d, "write")]
          /\ d \in demo[r]
      BY <2>2 DEF DemoTick
    <3>2. s = r
      BY <1>1, <3>1 DEF TypeOK
    <3>3. d = c
      BY <1>1, <3>1, <3>2 DEF MemoryInv
    <3>4. pass'[s]["demo"] = NewPass(c, "write")
      BY <1>1, <3>1, <3>2, <3>3 DEF TypeOK, Planner
    <3>5. NewPass(c, "write") # NoPass
      BY <1>1, NewPassType, RouterAssumption
    <3>6. QED
      BY <3>4, <3>5 DEF NewPass
  <2>3. ASSUME NEW r \in Replica,
               \/ PollLoop(r) \/ HoldFailed(r) \/ QueryFailed(r)
               \/ (\E k \in Planner : PassFailed(r, k)) \/ TakeBatch(r) \/ Dispatch(r) \/ GraphEnds(r)
               \/ (\E k \in Planner, kind \in PlannerKinds : PassDone(r, k, kind))
               \/ DemoStop(r) \/ Pause(r)
               \/ \E d \in City : DirectRequest(r, d) \/ ManualReplan(r, d) \/ Resume(r, d)
        PROVE  FALSE
    <3>1. dirty' = dirty
      BY <2>3 DEF PollLoop, Start, Acquire, Refused, TakeOver, Poll, HoldFailed, QueryFailed,
           PassFailed, TakeBatch, Dispatch, GraphEnds, PassDone, DemoStop, Pause, DirectRequest,
           ManualReplan, Resume
    <3>2. QED
      BY <2>0, <3>1
  <2>4. ASSUME NEW r \in Replica, DemoWork(r) \/ (\E d \in City : PlanCity(r, d)) PROVE FALSE
    <3>1. dirty' = dirty \/ dirty' = [dirty EXCEPT ![r] = TRUE]
      BY <2>4 DEF DemoWork, PlanCity
    <3>2. QED
      BY <1>1, <3>1 DEF TypeOK
  <2>5. ASSUME NEW r \in Replica, NEW d \in City, DemoStart(r, d) PROVE FALSE
    <3>1. demo[r] = {} /\ dirty' = [dirty EXCEPT ![r] = FALSE]
      BY <2>5 DEF DemoStart
    <3>2. QED
      BY <1>1, <3>1 DEF TypeOK
  <2>6. ASSUME NEW r \in Replica, Crash(r) PROVE FALSE
    <3>1. demo' = [demo EXCEPT ![r] = {}] /\ dirty' = [dirty EXCEPT ![r] = FALSE]
      BY <2>6 DEF Crash
    <3>2. QED
      BY <1>1, <3>1 DEF TypeOK
  <2>7. QED
    BY <1>1, <2>1, <2>2, <2>3, <2>4, <2>5, <2>6 DEF Next, ReplanLoop, Faulty, Others
<1>2. TypeOK /\ MemoryInv /\ [Next]_vars =>
        [\A r \in Replica, c \in City :
           (dirty[r] /\ c \in demo[r] /\ ~dirty'[r] /\ demo'[r] = demo[r]) =>
             pass'[r]["demo"] # NoPass /\ IdsOf(c) \subseteq pass'[r]["demo"].seen]_vars
  BY <1>1
<1>3. QED
  BY <1>2, MemoryAlways, PTL DEF Spec, HandedOverIsKept

(* Nothing a replica holds is forgotten.  Assumed: the process lives, its   *)
(* re-plans do not raise, no demo is handed requests that end with it, and  *)
(* where officers stop the automation there is one city: resume asks for a  *)
(* re-plan of the city the officer is in and drops what was held for the    *)
(* others.                                                                  *)
Attentive ==
  /\ Disturbance \cap {"crash", "plan_error", "demo"} = {}
  /\ "pause" \in Disturbance => \A c, d \in City : c = d

(* Then no demo runs, and where officers do not stop it nothing is paused.  *)
QuietInv ==
  /\ \A r \in Replica : demo[r] = {} /\ pass[r]["demo"] = NoPass
  /\ "pause" \in Disturbance \/ (~control /\ \A r \in Replica : ~paused[r])

LEMMA NextQuiet ==
  ASSUME TypeOK, QuietInv, Attentive, [Next]_vars
  PROVE  QuietInv'
<1> USE DEF leaseVars, pollVars, demoVars, stopVars, history
<1>0. {"router", "demo", "officer"} = Planner
  BY DEF Planner
<1>a. ASSUME demo' = demo, "pause" \in Disturbance \/ UNCHANGED <<control, paused>>,
             \/ pass' = pass
             \/ \E r \in Replica : \E p : pass' = [pass EXCEPT ![r]["router"] = p]
             \/ \E r \in Replica : \E p : pass' = [pass EXCEPT ![r]["officer"] = p]
             \/ \E r \in Replica, k \in Planner : pass' = [pass EXCEPT ![r][k] = NoPass]
      PROVE  QuietInv'
  <2>1. ASSUME NEW r \in Replica, NEW k \in Planner, NEW p, pass' = [pass EXCEPT ![r][k] = p],
               k # "demo" \/ p = NoPass
        PROVE  \A s \in Replica : pass'[s]["demo"] = NoPass
    BY <1>0, <2>1 DEF TypeOK, QuietInv
  <2>2. \A s \in Replica : pass'[s]["demo"] = NoPass
    <3>1. CASE pass' = pass
      BY <3>1 DEF QuietInv
    <3>2. ASSUME NEW r \in Replica, NEW p, pass' = [pass EXCEPT ![r]["router"] = p]
          PROVE  \A s \in Replica : pass'[s]["demo"] = NoPass
      BY <1>0, <2>1, <3>2
    <3>3. ASSUME NEW r \in Replica, NEW p, pass' = [pass EXCEPT ![r]["officer"] = p]
          PROVE  \A s \in Replica : pass'[s]["demo"] = NoPass
      BY <1>0, <2>1, <3>3
    <3>4. ASSUME NEW r \in Replica, NEW k \in Planner, pass' = [pass EXCEPT ![r][k] = NoPass]
          PROVE  \A s \in Replica : pass'[s]["demo"] = NoPass
      BY <2>1, <3>4
    <3>5. QED
      BY <1>a, <3>1, <3>2, <3>3, <3>4
  <2>3. QED
    BY <1>a, <2>2 DEF QuietInv
<1>1. CASE Write \/ Lapse \/ UNCHANGED vars
  BY <1>1, <1>a, WriteOnly DEF Lapse, vars
<1>2. ASSUME NEW r \in Replica, PollLoop(r) \/ HoldFailed(r) \/ QueryFailed(r) PROVE QuietInv'
  <2>1. CASE Start(r)
    <3>1. UNCHANGED <<demo, pass, control>> /\ paused' = [paused EXCEPT ![r] = control]
      BY <2>1 DEF Start
    <3>2. QED
      BY <3>1 DEF TypeOK, QuietInv
  <2>2. CASE ~Start(r)
    <3>1. UNCHANGED <<demo, pass, control, paused>>
      BY <1>2, <2>2 DEF PollLoop, Acquire, Refused, TakeOver, Poll, HoldFailed, QueryFailed
    <3>2. QED
      BY <1>a, <3>1
  <2>3. QED
    BY <2>1, <2>2
<1>3. ASSUME NEW r \in Replica,
             TakeBatch(r) \/ Dispatch(r) \/ GraphEnds(r) \/ (\E c \in City : PlanCity(r, c))
      PROVE  QuietInv'
  <2>1. /\ UNCHANGED <<demo, control, paused>>
        /\ pass' = pass \/ \E p : pass' = [pass EXCEPT ![r]["router"] = p]
    BY <1>3 DEF TakeBatch, Dispatch, GraphEnds, PlanCity
  <2>2. QED
    BY <1>a, <2>1
<1>4. ASSUME NEW r \in Replica, NEW k \in Planner, NEW kind \in PlannerKinds, PassDone(r, k, kind)
      PROVE  QuietInv'
  <2>1. UNCHANGED <<demo, control, paused>> /\ pass' = [pass EXCEPT ![r][k] = NoPass]
    BY <1>4 DEF PassDone
  <2>2. QED
    BY <1>a, <2>1
<1>5. ASSUME NEW r \in Replica, Others(r) PROVE QuietInv'
  <2>1. CASE Pause(r)
    <3>1. /\ demo' = [demo EXCEPT ![r] = {}] /\ pass' = [pass EXCEPT ![r]["demo"] = NoPass]
          /\ "pause" \in Disturbance
      BY <2>1 DEF Pause
    <3>2. demo' = demo
      BY <3>1 DEF TypeOK, QuietInv
    <3>3. QED
      BY <1>0, <1>a, <3>1, <3>2
  <2>2. ASSUME NEW c \in City, ManualReplan(r, c) PROVE QuietInv'
    <3>1. UNCHANGED <<demo, control, paused>> /\ \E p : pass' = [pass EXCEPT ![r]["officer"] = p]
      BY <2>2 DEF ManualReplan
    <3>2. QED
      BY <1>a, <3>1
  <2>3. ASSUME NEW c \in City, DirectRequest(r, c) \/ Resume(r, c) PROVE QuietInv'
    <3>1. /\ UNCHANGED <<demo, pass>>
          /\ UNCHANGED <<control, paused>> \/ paused[r]
      BY <2>3 DEF DirectRequest, Resume
    <3>2. "pause" \in Disturbance \/ UNCHANGED <<control, paused>>
      BY <3>1 DEF QuietInv
    <3>3. QED
      BY <1>a, <3>1, <3>2
  <2>4. QED
    BY <1>5, <2>1, <2>2, <2>3 DEF Others, DemoWork, DemoStop, DemoStart, DemoTick, Attentive, QuietInv
<1>6. QED
  BY <1>1, <1>2, <1>3, <1>4, <1>5 DEF Next, ReplanLoop, Faulty, Crash, PassFailed, Attentive

(* What InHand says of one replica.                                         *)
Holds(r, i) ==
  \/ log[i].city \in pend[r] \cup todo[r]
  \/ paused[r] /\ log[i].city \in held[r]
  \/ dirty[r] /\ log[i].city \in demo[r]
  \/ \E k \in Planner :
       /\ pass[r][k] # NoPass
       /\ i \in pass[r][k].seen
  \/ /\ pass[r]["router"] # NoPass
     /\ pass[r]["router"].phase = "think" /\ pass[r]["router"].city = log[i].city

LEMMA InHandIs ==
  /\ \A i : InHand(i) <=> \E r \in Replica : Holds(r, i)
  /\ \A i : InHand(i)' <=> \E r \in Replica : Holds(r, i)'
BY DEF InHand, Holds

(* A replica whose requests and re-plans only grow holds what it held.      *)
LEMMA HoldsMore ==
  ASSUME NEW r \in Replica, NEW i, Holds(r, i), demo[r] = {}, log'[i].city = log[i].city,
         pend[r] \subseteq pend'[r], todo[r] \subseteq todo'[r],
         paused[r] => paused'[r] /\ held[r] \subseteq held'[r],
         \A k \in Planner : pass[r][k] # NoPass => pass'[r][k] = pass[r][k]
  PROVE  Holds(r, i)'
<1>1. "router" \in Planner
  BY DEF Planner
<1>2. QED
  BY <1>1 DEF Holds

(* An event that asks for a re-plan is among those of its city.             *)
LEMMA ChangeFacts ==
  ASSUME TypeOK, [Next]_vars, NEW i \in Changes
  PROVE  /\ log[i].city \in City /\ log'[i].city = log[i].city
         /\ i \in IdsOf(log[i].city)
<1>1. i \in DOMAIN log /\ i \in Committed
  BY DEF Changes, Worthy, Committed
<1>2. log[i] \in Event
  BY <1>1, LenProperties, ElementOfSeq DEF TypeOK
<1>3. QED
  BY <1>1, <1>2, LogKeeps DEF Event, IdsOf

LEMMA NothingLost ==
  ASSUME TypeOK, MemoryInv, QuietInv, Attentive, Next, NEW i \in Changes, NEW s \in Replica, Holds(s, i)
  PROVE  i \in answered' \/ Holds(s, i)' \/ GivenUp(i)
<1> USE DEF leaseVars, pollVars, demoVars, stopVars, history
<1> DEFINE c == log[i].city
           Kept == i \in answered' \/ Holds(s, i)' \/ GivenUp(i)
<1>0. /\ {"router", "demo", "officer"} = Planner
      /\ c \in City /\ log'[i].city = c /\ i \in IdsOf(c) /\ demo[s] = {}
  BY ChangeFacts DEF Planner, QuietInv
<1>a. ASSUME pend[s] \subseteq pend'[s], todo[s] \subseteq todo'[s],
             paused[s] => paused'[s] /\ held[s] \subseteq held'[s],
             \A k \in Planner : pass[s][k] # NoPass => pass'[s][k] = pass[s][k]
      PROVE  Kept
  BY <1>0, <1>a, HoldsMore
<1>1. CASE Write \/ Lapse
  BY <1>1, <1>a, WriteOnly DEF Lapse
<1>2. ASSUME NEW r \in Replica, PollLoop(r) \/ HoldFailed(r) \/ QueryFailed(r) PROVE Kept
  <2>1. CASE Start(r)
    <3>1. UNCHANGED <<pend, todo, held, pass>> /\ paused' = [paused EXCEPT ![r] = control] /\ pc[r] = "down"
      BY <2>1 DEF Start
    <3>2. paused[s] => paused'[s]
      BY <3>1 DEF TypeOK, MemoryInv
    <3>3. QED
      BY <1>a, <3>1, <3>2
  <2>2. CASE Poll(r)
    <3> DEFINE asked == {log[j].city : j \in Rows(r) \cap Worthy}
    <3>1. /\ UNCHANGED <<todo, paused, pass>>
          /\ pend' = pend \/ pend' = [pend EXCEPT ![r] = pend[r] \cup asked]
          /\ held' = held \/ held' = [held EXCEPT ![r] = held[r] \cup asked]
      BY <2>2 DEF Poll
    <3> HIDE DEF asked
    <3>2. pend[s] \subseteq pend'[s]
      BY <3>1 DEF TypeOK
    <3>3. held[s] \subseteq held'[s]
      BY <3>1 DEF TypeOK
    <3>4. QED
      BY <1>a, <3>1, <3>2, <3>3
  <2>3. CASE Acquire(r) \/ Refused(r) \/ TakeOver(r) \/ HoldFailed(r) \/ QueryFailed(r)
    <3>1. UNCHANGED <<pend, todo, held, paused, pass>>
      BY <2>3 DEF Acquire, Refused, TakeOver, HoldFailed, QueryFailed
    <3>2. QED
      BY <1>a, <3>1
  <2>4. QED
    BY <1>2, <2>1, <2>2, <2>3 DEF PollLoop
<1>3. ASSUME NEW r \in Replica, TakeBatch(r) PROVE Kept
  <2>1. /\ pend' = [pend EXCEPT ![r] = {}] /\ UNCHANGED <<log, paused, pass, dirty, demo>>
        /\ IF paused[r] THEN held' = [held EXCEPT ![r] = held[r] \cup pend[r]] /\ todo' = todo
                        ELSE todo' = [todo EXCEPT ![r] = pend[r]] /\ held' = held
        /\ todo[r] = {}
    BY <1>3 DEF TakeBatch
  <2>2. CASE r # s
    <3>1. pend'[s] = pend[s] /\ todo'[s] = todo[s] /\ held'[s] = held[s]
      BY <2>1, <2>2 DEF TypeOK
    <3>2. QED
      BY <1>a, <2>1, <3>1
  <2>3. CASE r = s
    <3>1. \/ c \in held'[s] /\ paused[s]
          \/ c \in todo'[s]
          \/ c \notin pend[s]
      BY <2>1, <2>3 DEF TypeOK
    <3>2. held[s] \subseteq held'[s] /\ todo[s] \subseteq todo'[s]
      BY <2>1, <2>3 DEF TypeOK
    <3>3. QED
      BY <2>1, <3>1, <3>2 DEF Holds
  <2>4. QED
    BY <2>2, <2>3
<1>4. ASSUME NEW r \in Replica, NEW d \in City, PlanCity(r, d) PROVE Kept
  <2> DEFINE p == NewPass(d, IF GraphEnabled THEN "think" ELSE "write")
  <2>1. /\ todo' = [todo EXCEPT ![r] = todo[r] \ {d}] /\ UNCHANGED <<log, pend, paused, demo, dirty>>
        /\ \/ /\ paused[r] /\ held' = [held EXCEPT ![r] = held[r] \cup {d}] /\ pass' = pass
           \/ /\ held' = held /\ pass' = [pass EXCEPT ![r]["router"] = p]
        /\ pass[r]["router"] = NoPass
    BY <1>4 DEF PlanCity, QuietInv
  <2>2. CASE r # s
    <3>1. todo'[s] = todo[s] /\ held'[s] = held[s] /\ pass'[s] = pass[s]
      BY <2>1, <2>2 DEF TypeOK
    <3>2. QED
      BY <1>a, <2>1, <3>1
  <2>3. CASE r = s
    <3>1. /\ \A k \in Planner : pass[s][k] # NoPass => pass'[s][k] = pass[s][k]
          /\ held[s] \subseteq held'[s] /\ todo[s] \ {d} \subseteq todo'[s]
      BY <1>0, <2>1, <2>3 DEF TypeOK
    <3>2. CASE c = d /\ c \in todo[s]
      <4>1. CASE paused[r] /\ held' = [held EXCEPT ![r] = held[r] \cup {d}]
        <5>1. c \in held'[s]
          BY <2>3, <3>2, <4>1 DEF TypeOK
        <5>2. QED
          BY <1>0, <2>1, <2>3, <4>1, <5>1 DEF Holds
      <4>2. CASE pass' = [pass EXCEPT ![r]["router"] = p]
        <5>1. pass'[s]["router"] = p
          BY <1>0, <2>3, <4>2 DEF TypeOK
        <5>2. p # NoPass
          BY NewPassType, RouterAssumption
        <5>3. i \in p.seen
          BY <1>0, <3>2 DEF NewPass
        <5>4. QED
          <6> HIDE DEF p
          <6>1. QED
            BY <1>0, <5>1, <5>2, <5>3 DEF Holds
      <4>3. QED
        BY <2>1, <4>1, <4>2
    <3>3. CASE ~(c = d /\ c \in todo[s])
      <4>1. c \in todo[s] => c \in todo'[s]
        BY <3>1, <3>3
      <4>2. QED
        BY <1>0, <2>1, <3>1, <4>1 DEF Holds
    <3>4. QED
      BY <3>2, <3>3
  <2>4. QED
    BY <2>2, <2>3
<1>5. ASSUME NEW r \in Replica, Dispatch(r) PROVE Kept
  <2> DEFINE d == pass[r]["router"].city
             p == NewPass(d, "write")
  <2>1. /\ UNCHANGED <<log, pend, todo, paused, demo, dirty>> /\ pass[r]["router"] # NoPass
        /\ \/ /\ paused[r] /\ held' = [held EXCEPT ![r] = held[r] \cup {d}]
              /\ pass' = [pass EXCEPT ![r]["router"] = NoPass]
           \/ held' = held /\ pass' = [pass EXCEPT ![r]["router"] = p]
    BY <1>5 DEF Dispatch
  <2>2. CASE r # s
    <3>1. held'[s] = held[s] /\ pass'[s] = pass[s]
      BY <2>1, <2>2 DEF TypeOK
    <3>2. QED
      BY <1>a, <2>1, <3>1
  <2>3. CASE r = s
    <3>1. /\ \A k \in Planner \ {"router"} : pass'[s][k] = pass[s][k]
          /\ held[s] \subseteq held'[s]
      BY <1>0, <2>1, <2>3 DEF TypeOK
    <3>2. d \in City
      BY <1>0, <2>1 DEF TypeOK, PassType
    <3>3. i \in pass[s]["router"].seen => d = c
      BY <1>0, <2>1, <2>3 DEF MemoryInv, IdsOf
    <3>4. CASE d = c
      <4>1. CASE paused[r] /\ held' = [held EXCEPT ![r] = held[r] \cup {d}]
        <5>1. c \in held'[s]
          BY <2>3, <3>4, <4>1 DEF TypeOK
        <5>2. QED
          BY <1>0, <2>1, <2>3, <4>1, <5>1 DEF Holds
      <4>2. CASE pass' = [pass EXCEPT ![r]["router"] = p]
        <5>1. pass'[s]["router"] = p
          BY <1>0, <2>3, <4>2 DEF TypeOK
        <5>2. p # NoPass
          BY <3>2, NewPassType, RouterAssumption
        <5>3. i \in p.seen
          BY <1>0, <3>4 DEF NewPass
        <5>4. QED
          <6> HIDE DEF p
          <6>1. QED
            BY <1>0, <5>1, <5>2, <5>3 DEF Holds
      <4>3. QED
        BY <2>1, <4>1, <4>2
    <3>5. CASE d # c
      <4>1. \/ c \in pend[s] \cup todo[s]
            \/ paused[s] /\ c \in held[s]
            \/ \E k \in Planner \ {"router"} : pass[s][k] # NoPass /\ i \in pass[s][k].seen
        BY <1>0, <2>3, <3>3, <3>5 DEF Holds
      <4>2. QED
        BY <1>0, <2>1, <3>1, <4>1 DEF Holds
    <3>6. QED
      BY <3>4, <3>5
  <2>4. QED
    BY <2>2, <2>3
<1>6. ASSUME NEW r \in Replica, NEW k \in Planner, NEW kind \in PlannerKinds, PassDone(r, k, kind)
      PROVE  Kept
  <2>1. /\ answered' = answered \cup pass[r][k].seen /\ pass' = [pass EXCEPT ![r][k] = NoPass]
        /\ UNCHANGED <<pend, todo, held, paused, demo, dirty>> /\ pass[r][k].phase = "write"
    BY <1>6 DEF PassDone
  <2>2. CASE r # s
    <3>1. pass'[s] = pass[s]
      BY <2>1, <2>2 DEF TypeOK
    <3>2. QED
      BY <1>a, <2>1, <3>1
  <2>3. CASE r = s
    <3>1. \A l \in Planner \ {k} : pass'[s][l] = pass[s][l]
      BY <2>1, <2>3 DEF TypeOK
    <3>2. QED
      BY <1>0, <2>1, <2>3, <3>1 DEF Holds
  <2>4. QED
    BY <2>2, <2>3
<1>7. ASSUME NEW r \in Replica, Others(r) PROVE Kept
  <2>1. CASE Pause(r)
    <3>1. /\ ~paused[r] /\ paused' = [paused EXCEPT ![r] = TRUE] /\ held' = [held EXCEPT ![r] = {}]
          /\ pass' = [pass EXCEPT ![r]["demo"] = NoPass] /\ UNCHANGED <<pend, todo>>
      BY <2>1 DEF Pause
    <3>2. paused[s] => paused'[s] /\ held'[s] = held[s]
      BY <3>1 DEF TypeOK
    <3>3. \A k \in Planner : pass'[s][k] = pass[s][k]
      BY <1>0, <3>1 DEF TypeOK, QuietInv
    <3>4. QED
      BY <1>a, <3>1, <3>2, <3>3
  <2>2. ASSUME NEW d \in City, ManualReplan(r, d) PROVE Kept
    <3>1. /\ \E p : pass' = [pass EXCEPT ![r]["officer"] = p]
          /\ pass[r]["officer"] = NoPass /\ UNCHANGED <<pend, todo, held, paused>>
      BY <2>2 DEF ManualReplan
    <3>2. \A k \in Planner : pass[s][k] # NoPass => pass'[s][k] = pass[s][k]
      BY <1>0, <3>1 DEF TypeOK
    <3>3. QED
      BY <1>a, <3>1, <3>2
  <2>3. ASSUME NEW d \in City, DirectRequest(r, d) PROVE Kept
    <3>1. pend' = [pend EXCEPT ![r] = pend[r] \cup {d}] /\ UNCHANGED <<todo, held, paused, pass>>
      BY <2>3 DEF DirectRequest
    <3>2. pend[s] \subseteq pend'[s]
      BY <3>1 DEF TypeOK
    <3>3. QED
      BY <1>a, <3>1, <3>2
  <2>4. ASSUME NEW d \in City, Resume(r, d) PROVE Kept
    <3>1. /\ paused' = [paused EXCEPT ![r] = FALSE] /\ held' = [held EXCEPT ![r] = {}]
          /\ pend' = [pend EXCEPT ![r] = pend[r] \cup {d}] /\ UNCHANGED <<todo, pass, demo, dirty>>
      BY <2>4 DEF Resume
    <3>2. CASE r # s
      <4>1. pend'[s] = pend[s] /\ held'[s] = held[s] /\ paused'[s] = paused[s]
        BY <3>1, <3>2 DEF TypeOK
      <4>2. QED
        BY <1>a, <3>1, <4>1
    <3>3. CASE r = s
      <4>1. pend'[s] = pend[s] \cup {d}
        BY <3>1, <3>3 DEF TypeOK
      <4>2. CASE "pause" \in Disturbance
        <5>1. d = c
          BY <1>0, <4>2 DEF Attentive
        <5>2. QED
          BY <1>0, <4>1, <5>1 DEF Holds
      <4>3. CASE ~paused[s]
        BY <1>0, <3>1, <4>1, <4>3 DEF Holds
      <4>4. QED
        BY <4>2, <4>3 DEF QuietInv
    <3>4. QED
      BY <3>2, <3>3
  <2>5. QED
    BY <1>7, <2>1, <2>2, <2>3, <2>4 DEF Others, DemoWork, DemoStop, DemoStart, DemoTick, Attentive, QuietInv
<1>8. ASSUME NEW r \in Replica, GraphEnds(r) PROVE Kept
  <2> DEFINE d == pass[r]["router"].city
  <2>1. /\ UNCHANGED <<log, pend, todo, paused, demo, dirty>> /\ pass[r]["router"] # NoPass
        /\ pass[r]["router"].phase = "think"
        /\ held' = IF paused[r] THEN [held EXCEPT ![r] = held[r] \cup {d}] ELSE held
        /\ pass' = [pass EXCEPT ![r]["router"] = NoPass]
    BY <1>8 DEF GraphEnds
  <2>2. CASE r # s
    <3>1. held'[s] = held[s] /\ pass'[s] = pass[s]
      BY <2>1, <2>2 DEF TypeOK
    <3>2. QED
      BY <1>a, <2>1, <3>1
  <2>3. CASE r = s
    <3>1. /\ \A k \in Planner \ {"router"} : pass'[s][k] = pass[s][k]
          /\ held[s] \subseteq held'[s]
          /\ pass'[s]["router"] = NoPass
      BY <1>0, <2>1, <2>3 DEF TypeOK
    <3>2. i \in pass[s]["router"].seen => d = c
      BY <1>0, <2>1, <2>3 DEF MemoryInv, IdsOf
    <3>3. CASE d = c
      <4>1. CASE paused[r]
        <5>1. c \in held'[s]
          BY <2>1, <2>3, <3>3, <4>1 DEF TypeOK
        <5>2. QED
          BY <1>0, <2>1, <2>3, <4>1, <5>1 DEF Holds
      <4>2. CASE ~paused[r]
        BY <2>1, <2>3, <3>1, <3>3, <4>2 DEF GivenUp
      <4>3. QED
        BY <4>1, <4>2
    <3>4. CASE d # c
      <4>1. \/ c \in pend[s] \cup todo[s]
            \/ paused[s] /\ c \in held[s]
            \/ \E k \in Planner \ {"router"} : pass[s][k] # NoPass /\ i \in pass[s][k].seen
        BY <1>0, <2>3, <3>2, <3>4 DEF Holds
      <4>2. QED
        BY <1>0, <2>1, <3>1, <4>1 DEF Holds
    <3>5. QED
      BY <3>3, <3>4
  <2>4. QED
    BY <2>2, <2>3
<1>9. QED
  BY <1>1, <1>2, <1>3, <1>4, <1>5, <1>6, <1>7, <1>8 DEF Next, ReplanLoop, Faulty, Crash, PassFailed, Attentive

(* event_router and autonomy: as long as the process lives and its re-plans *)
(* do not raise, no debounce, stop, resume or second look at the kill       *)
(* switch forgets a request before a re-plan has read the world after it:   *)
(* only the graph does, when it ends a pass without a plan.                 *)
THEOREM NothingForgottenSafe == Attentive /\ Spec => NothingForgotten
<1> SUFFICES ASSUME Attentive PROVE Spec => NothingForgotten
  OBVIOUS
<1>1. TypeOK /\ QuietInv /\ [Next]_vars => QuietInv'
  BY NextQuiet
<1>2. Init => QuietInv
  BY DEF Init, QuietInv, Planner
<1>3. TypeOK /\ MemoryInv /\ QuietInv /\ [Next]_vars =>
        [\A i \in Changes : InHand(i) => i \in answered' \/ InHand(i)' \/ GivenUp(i)]_vars
  BY NothingLost, InHandIs
<1>4. QED
  BY <1>1, <1>2, <1>3, MemoryAlways, PTL DEF Spec, NothingForgotten
=============================================================================
