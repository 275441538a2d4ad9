--------------------------- MODULE DispatchProofs ---------------------------
(***************************************************************************)
(* Proofs about Dispatch, for every fleet, every set of incidents, needs    *)
(* and skills, and any number of assignments.                              *)
(***************************************************************************)
EXTENDS Dispatch, FiniteSetTheorems, SequenceTheorems, WellFoundedInduction, TLAPS

(* A nonempty set of numbers below a bound has a largest member.            *)
LEMMA LargestExists ==
  ASSUME NEW S, NEW n \in Nat, S \subseteq 0..n, S # {}
  PROVE  \E m \in S : \A j \in S : j <= m
<1> DEFINE T == {k \in Nat : n - k \in S}
<1>1. PICK s \in S : TRUE
  OBVIOUS
<1>2. T \subseteq Nat /\ n - s \in T
  BY <1>1
<1>3. PICK t \in T : \A u \in T : ~(<<u, t>> \in OpToRel(<, Nat))
  <2> HIDE DEF T
  <2>1. QED
    BY <1>2, NatLessThanWellFounded, WFMin
<1>4. t \in Nat /\ n - t \in S /\ \A u \in T : ~(u < t)
  BY <1>3, Zenon DEF OpToRel
<1>5. \A j \in S : j <= n - t
  <2>1. \A j \in S : n - j \in Nat /\ n - (n - j) = j
    OBVIOUS
  <2>2. \A j \in S : n - j \in T
    BY <2>1
  <2>3. \A j \in S : ~(n - j < t)
    BY <1>4, <2>2, Zenon
  <2>4. QED
    BY <1>4, <2>1, <2>3
<1>6. QED
  BY <1>4, <1>5

(* What any step may do to the jobs of a unit: add one, end some, move some *)
(* along; never take a row away, give it another incident or another rank,  *)
(* or take up again a job that ended.                                       *)
Grows(js, js2) ==
  /\ Len(js) <= Len(js2)
  /\ \A k \in DOMAIN js :
       /\ js2[k].inc = js[k].inc /\ js2[k].born = js[k].born
       /\ IsActive(js2[k]) => IsActive(js[k])
       /\ js2[k].st \in Moving => js[k].st \in Moving

(* The same number of jobs, each where it was or further on.                *)
LEMMA MapJobs ==
  ASSUME NEW js \in Seq(Job), NEW f \in [DOMAIN js -> Job]
  PROVE  f \in Seq(Job) /\ Len(f) = Len(js) /\ DOMAIN f = DOMAIN js
<1>1. DOMAIN js = 1..Len(js) /\ Len(js) \in Nat
  BY LenProperties
<1>2. f \in Seq(Job)
  BY <1>1, SeqDef
<1>3. Len(f) = Len(js) /\ DOMAIN f = DOMAIN js
  BY <1>1, <1>2, LenProperties
<1>4. QED
  BY <1>2, <1>3

LEMMA EndedJob ==
  ASSUME NEW j \in Job
  PROVE  /\ StoodDown(j) \in Job
         /\ StoodDown(j).inc = j.inc /\ StoodDown(j).born = j.born
         /\ StoodDown(j).st = "cancelled" /\ StoodDown(j).task # "open"
         /\ ~IsActive(StoodDown(j)) /\ ~(StoodDown(j).st \in Moving)
BY DEF StoodDown, Closed, Job, JobSt, ActiveSt, Moving, IsActive

LEMMA SetJob ==
  ASSUME NEW js \in Seq(Job), NEW k \in DOMAIN js, NEW j \in Job,
         j.inc = js[k].inc, j.born = js[k].born,
         IsActive(j) => IsActive(js[k]), j.st \in Moving => js[k].st \in Moving
  PROVE  /\ [js EXCEPT ![k] = j] \in Seq(Job)
         /\ Len([js EXCEPT ![k] = j]) = Len(js)
         /\ Grows(js, [js EXCEPT ![k] = j])
<1>1. [js EXCEPT ![k] = j] \in [DOMAIN js -> Job]
  BY ElementOfSeq, LenProperties
<1>2. Len([js EXCEPT ![k] = j]) = Len(js) /\ [js EXCEPT ![k] = j] \in Seq(Job)
  BY <1>1, MapJobs
<1>3. Len(js) \in Nat
  BY LenProperties
<1>4. QED
  BY <1>2, <1>3 DEF Grows

LEMMA AddJob ==
  ASSUME NEW js \in Seq(Job), NEW f \in Seq(Job), NEW j \in Job,
         Grows(js, f), Len(f) = Len(js)
  PROVE  /\ Append(f, j) \in Seq(Job)
         /\ Len(Append(f, j)) = Len(js) + 1
         /\ Append(f, j)[Len(js) + 1] = j
         /\ \A k \in DOMAIN js : Append(f, j)[k] = f[k]
         /\ Grows(js, Append(f, j))
<1>1. /\ Append(f, j) \in Seq(Job) /\ Len(Append(f, j)) = Len(js) + 1
      /\ Append(f, j)[Len(js) + 1] = j
      /\ \A k \in 1..Len(f) : Append(f, j)[k] = f[k]
  BY AppendProperties
<1>2. Len(js) \in Nat /\ DOMAIN js = 1..Len(js)
  BY LenProperties
<1>3. \A k \in DOMAIN js : Append(f, j)[k] = f[k]
  BY <1>1, <1>2
<1>4. QED
  BY <1>1, <1>2, <1>3 DEF Grows

LEMMA GrowsRefl ==
  ASSUME NEW js \in Seq(Job)
  PROVE  Grows(js, js)
BY LenProperties DEF Grows

LEMMA GrowsTrans ==
  ASSUME NEW a \in Seq(Job), NEW b \in Seq(Job), NEW c \in Seq(Job),
         Grows(a, b), Grows(b, c)
  PROVE  Grows(a, c)
<1>1. Len(a) \in Nat /\ Len(b) \in Nat /\ Len(c) \in Nat /\ Len(a) <= Len(b) /\ Len(b) <= Len(c)
  BY LenProperties DEF Grows
<1>2. DOMAIN a \subseteq DOMAIN b
  BY <1>1, LenProperties
<1>3. QED
  BY <1>1, <1>2 DEF Grows

(* The redirect ends every active job and adds one.                         *)
LEMMA RedirectedJobs ==
  ASSUME NEW js \in Seq(Job), NEW i \in Incident, NEW now \in Nat
  PROVE  /\ Redirected(js, i, now) \in Seq(Job)
         /\ Len(Redirected(js, i, now)) = Len(js) + 1
         /\ Grows(js, Redirected(js, i, now))
         /\ \A k \in DOMAIN js : ~IsActive(Redirected(js, i, now)[k])
         /\ Redirected(js, i, now)[Len(js) + 1] =
              [inc |-> i, st |-> "en_route", born |-> now, task |-> "open"]
<1> DEFINE f == [k \in DOMAIN js |-> IF IsActive(js[k]) THEN StoodDown(js[k]) ELSE js[k]]
           j == [inc |-> i, st |-> "en_route", born |-> now, task |-> "open"]
<1>1. \A k \in DOMAIN js : js[k] \in Job
  BY ElementOfSeq, LenProperties
<1>2. f \in [DOMAIN js -> Job]
  BY <1>1, EndedJob
<1>3. f \in Seq(Job) /\ Len(f) = Len(js)
  BY <1>2, MapJobs
<1>4. Grows(js, f) /\ \A k \in DOMAIN js : ~IsActive(f[k])
  <2>1. \A k \in DOMAIN js : /\ f[k].inc = js[k].inc /\ f[k].born = js[k].born
                             /\ ~IsActive(f[k])
                             /\ f[k].st \in Moving => js[k].st \in Moving
    BY <1>1, EndedJob
  <2>2. Len(js) \in Nat
    BY LenProperties
  <2>3. QED
    BY <1>3, <2>1, <2>2 DEF Grows
<1>5. j \in Job
  BY DEF Job, Place, JobSt, ActiveSt, Moving
<1>6. Redirected(js, i, now) = Append(f, j)
  BY DEF Redirected
<1>7. QED
  <2> HIDE DEF f, j
  <2>1. Append(f, j)[Len(js) + 1] = j /\ \A k \in DOMAIN js : Append(f, j)[k] = f[k]
    BY <1>3, <1>4, <1>5, AddJob
  <2>2. Append(f, j) \in Seq(Job) /\ Len(Append(f, j)) = Len(js) + 1 /\ Grows(js, Append(f, j))
    BY <1>3, <1>4, <1>5, AddJob
  <2>3. QED
    BY <1>4, <1>6, <2>1, <2>2 DEF j

(* Staging ends the jobs under way and adds one without an incident.        *)
LEMMA StagedJobs ==
  ASSUME NEW js \in Seq(Job), NEW now \in Nat
  PROVE  /\ Staged(js, now) \in Seq(Job)
         /\ Len(Staged(js, now)) = Len(js) + 1
         /\ Grows(js, Staged(js, now))
         /\ \A k \in DOMAIN js : ~(Staged(js, now)[k].st \in Moving)
         /\ Staged(js, now)[Len(js) + 1].born = now
<1> DEFINE f == [k \in DOMAIN js |-> IF js[k].st \in Moving
                                     THEN [js[k] EXCEPT !.st = "cancelled"] ELSE js[k]]
           j == [inc |-> NoIncident, st |-> "en_route", born |-> now, task |-> "open"]
<1>1. \A k \in DOMAIN js : js[k] \in Job
  BY ElementOfSeq, LenProperties
<1>2. \A k \in DOMAIN js : /\ f[k] \in Job /\ f[k].inc = js[k].inc /\ f[k].born = js[k].born
                           /\ IsActive(f[k]) => IsActive(js[k])
                           /\ ~(f[k].st \in Moving)
  BY <1>1 DEF Job, JobSt, ActiveSt, Moving, IsActive
<1>3. f \in [DOMAIN js -> Job]
  BY <1>2
<1>4. f \in Seq(Job) /\ Len(f) = Len(js)
  BY <1>3, MapJobs
<1>5. j \in Job
  BY DEF Job, Place, JobSt, ActiveSt, Moving
<1>6. Staged(js, now) = Append(f, j)
  BY DEF Staged
<1>7. QED
  <2> HIDE DEF f
  <2>1. Grows(js, f)
    BY <1>2, <1>4, LenProperties DEF Grows
  <2> HIDE DEF j
  <2>2. Append(f, j)[Len(js) + 1] = j /\ \A k \in DOMAIN js : Append(f, j)[k] = f[k]
    BY <2>1, <1>4, <1>5, AddJob
  <2>3. Append(f, j) \in Seq(Job) /\ Len(Append(f, j)) = Len(js) + 1 /\ Grows(js, Append(f, j))
    BY <2>1, <1>4, <1>5, AddJob
  <2>4. QED
    BY <1>2, <1>6, <2>2, <2>3 DEF j
----------------------------------------------------------------------------
(* The row every reader takes for the newest of a set.                      *)
LEMMA NewestOf ==
  ASSUME TypeOK, RankInv, NEW u \in Unit, NEW S \in SUBSET (DOMAIN jobs[u]), S # {}
  PROVE  /\ LatestOf(u, S) \in S
         /\ \A l \in S : jobs[u][l].born <= jobs[u][LatestOf(u, S)].born
<1>1. /\ Len(jobs[u]) \in Nat /\ DOMAIN jobs[u] = 1..Len(jobs[u])
      /\ \A k \in DOMAIN jobs[u] : jobs[u][k] \in Job
  BY LenProperties, ElementOfSeq DEF TypeOK
<1> DEFINE B == {jobs[u][k].born : k \in S}
<1>2. B \subseteq 0..(3 * Len(jobs[u])) /\ B # {}
  <2>1. \A k \in S : jobs[u][k].born \in Nat /\ jobs[u][k].born <= 3 * Len(jobs[u])
    BY <1>1 DEF Job, RankInv
  <2>2. QED
    BY <1>1, <2>1
<1>3. PICK m \in B : \A j \in B : j <= m
  <2> HIDE DEF B
  <2>1. 3 * Len(jobs[u]) \in Nat
    BY <1>1
  <2>2. QED
    BY <1>2, <2>1, LargestExists
<1>4. \E k \in S : \A l \in S : jobs[u][l].born <= jobs[u][k].born
  BY <1>3
<1>5. QED
  BY <1>4 DEF LatestOf

LEMMA LatestJob ==
  ASSUME TypeOK, RankInv, NEW u \in Unit
  PROVE  /\ Latest(u) \in 0..Len(jobs[u]) /\ Len(jobs[u]) \in Nat
         /\ ActiveJobs(u) # {} => /\ Latest(u) \in ActiveJobs(u)
                                  /\ \A l \in ActiveJobs(u) : jobs[u][l].born <= jobs[u][Latest(u)].born
         /\ ActiveJobs(u) = {} => Latest(u) = 0
         /\ Latest(u) # 0 => Latest(u) \in DOMAIN jobs[u]
         /\ IncidentOf(u, Latest(u)) \in Place
<1>1. /\ Len(jobs[u]) \in Nat /\ DOMAIN jobs[u] = 1..Len(jobs[u])
      /\ \A k \in DOMAIN jobs[u] : jobs[u][k] \in Job
  BY LenProperties, ElementOfSeq DEF TypeOK
<1>2. ActiveJobs(u) \in SUBSET (DOMAIN jobs[u])
  BY DEF ActiveJobs
<1>3. ActiveJobs(u) # {} => /\ Latest(u) \in ActiveJobs(u)
                            /\ \A l \in ActiveJobs(u) : jobs[u][l].born <= jobs[u][Latest(u)].born
  BY <1>2, NewestOf DEF Latest
<1>4. ActiveJobs(u) = {} => Latest(u) = 0
  BY DEF Latest
<1>5. Latest(u) \in 0..Len(jobs[u]) /\ (Latest(u) # 0 => Latest(u) \in DOMAIN jobs[u])
  BY <1>1, <1>2, <1>3, <1>4
<1>6. IncidentOf(u, Latest(u)) \in Place
  BY <1>1, <1>5 DEF IncidentOf, Job, Place
<1>7. QED
  BY <1>1, <1>3, <1>4, <1>5, <1>6

----------------------------------------------------------------------------
(* The shape of each step.                                                  *)
Touches(u) ==
  /\ jobs' \in [Unit -> Seq(Job)]
  /\ \A v \in Unit \ {u} : jobs'[v] = jobs[v]
  /\ Grows(jobs[u], jobs'[u])

Moves(u) == Touches(u) /\ Len(jobs'[u]) = Len(jobs[u])

Adds(u) ==
  /\ Touches(u)
  /\ Room(u) /\ Len(jobs'[u]) = Len(jobs[u]) + 1
  /\ jobs'[u][Len(jobs[u]) + 1].born \in Began(u)

(* An officer's redirect: the new job is the only active one.               *)
Redirects(u) ==
  /\ Adds(u)
  /\ \A k \in DOMAIN jobs[u] : ~IsActive(jobs'[u][k])
  /\ jobs'[u][Len(jobs[u]) + 1].inc \in Incident
  /\ pin' = pin \cup {u} /\ ordered' = [ordered EXCEPT ![u] = Len(jobs'[u])]

LEMMA TouchOne ==
  ASSUME TypeOK, NEW u \in Unit, NEW js \in Seq(Job), Grows(jobs[u], js),
         jobs' = [jobs EXCEPT ![u] = js]
  PROVE  Touches(u) /\ jobs'[u] = js
BY DEF TypeOK, Touches

LEMMA UnitJobs ==
  ASSUME TypeOK, NEW u \in Unit
  PROVE  /\ jobs[u] \in Seq(Job) /\ Len(jobs[u]) \in Nat /\ Now(u) \in Nat
         /\ DOMAIN jobs[u] = 1..Len(jobs[u])
         /\ \A k \in DOMAIN jobs[u] : jobs[u][k] \in Job
BY LenProperties, ElementOfSeq DEF TypeOK, Now

(* An officer's transaction began no later than now.                        *)
LEMMA BeganWhen ==
  ASSUME TypeOK, NEW u \in Unit, NEW b \in Began(u)
  PROVE  b \in Nat /\ b <= 3 * Len(jobs[u]) + 3
<1>1. Len(jobs[u]) \in Nat /\ Now(u) = 3 * Len(jobs[u]) + 3
  BY UnitJobs DEF Now
<1>2. CASE b = Now(u)
  BY <1>1, <1>2
<1>3. CASE b # Now(u)
  <2>1. plan.now[u] = 3 * Len(jobs[u]) + 2 /\ b = plan.now[u] - 1
    BY <1>3 DEF Began, PlanStart, JustBefore
  <2>2. QED
    BY <1>1, <2>1
<1>4. QED
  BY <1>2, <1>3

LEMMA ReallocateShape ==
  ASSUME TypeOK, NEW u \in Unit, NEW i \in Incident, Reallocate(u, i)
  PROVE  Redirects(u)
<1>0. PICK b \in Began(u) : jobs' = [jobs EXCEPT ![u] = Redirected(jobs[u], i, b)]
  BY DEF Reallocate
<1> DEFINE js == Redirected(jobs[u], i, b)
<1>1. jobs' = [jobs EXCEPT ![u] = js]
  BY <1>0
<1>2. jobs[u] \in Seq(Job) /\ b \in Nat
  BY UnitJobs, BeganWhen
<1>3. /\ js \in Seq(Job) /\ Len(js) = Len(jobs[u]) + 1 /\ Grows(jobs[u], js)
      /\ \A k \in DOMAIN jobs[u] : ~IsActive(js[k])
      /\ js[Len(jobs[u]) + 1].inc = i /\ js[Len(jobs[u]) + 1].born = b
  <2>1. /\ js \in Seq(Job) /\ Len(js) = Len(jobs[u]) + 1 /\ Grows(jobs[u], js)
        /\ \A k \in DOMAIN jobs[u] : ~IsActive(js[k])
        /\ js[Len(jobs[u]) + 1] = [inc |-> i, st |-> "en_route", born |-> b, task |-> "open"]
    BY <1>2, RedirectedJobs
  <2> HIDE DEF js
  <2>2. QED
    BY <2>1
<1>4. Touches(u) /\ jobs'[u] = js
  <2> HIDE DEF js
  <2>1. QED
    BY <1>1, <1>3, TouchOne
<1>5. QED
  <2> HIDE DEF js
  <2>1. QED
    BY <1>3, <1>4 DEF Redirects, Adds, Reallocate

LEMMA PrepositionShape ==
  ASSUME TypeOK, NEW u \in Unit, Preposition(u)
  PROVE  Adds(u) /\ \A k \in DOMAIN jobs[u] : ~(jobs'[u][k].st \in Moving)
<1>0. PICK b \in Began(u) : jobs' = [jobs EXCEPT ![u] = Staged(jobs[u], b)]
  BY DEF Preposition
<1> DEFINE js == Staged(jobs[u], b)
<1>1. jobs' = [jobs EXCEPT ![u] = js]
  BY <1>0
<1>2. jobs[u] \in Seq(Job) /\ b \in Nat
  BY UnitJobs, BeganWhen
<1>3. /\ js \in Seq(Job) /\ Len(js) = Len(jobs[u]) + 1 /\ Grows(jobs[u], js)
      /\ \A k \in DOMAIN jobs[u] : ~(js[k].st \in Moving)
      /\ js[Len(jobs[u]) + 1].born = b
  BY <1>2, StagedJobs
<1> HIDE DEF js
<1>4. Touches(u) /\ jobs'[u] = js
  BY <1>1, <1>3, TouchOne
<1>5. QED
  BY <1>3, <1>4 DEF Adds, Preposition

(* A cancel ends the job the unit is on; then, whatever is to be done       *)
(* instead, that job is over.                                               *)
LEMMA StoppedJobs ==
  ASSUME TypeOK, RankInv, NEW u \in Unit, Latest(u) # 0
  PROVE  /\ Stopped(u) \in Seq(Job) /\ Len(Stopped(u)) = Len(jobs[u])
         /\ Grows(jobs[u], Stopped(u))
         /\ Latest(u) \in DOMAIN jobs[u] /\ ~IsActive(Stopped(u)[Latest(u)])
         /\ \A k \in DOMAIN jobs[u] : k # Latest(u) => Stopped(u)[k] = jobs[u][k]
<1>1. Latest(u) \in DOMAIN jobs[u]
  BY LatestJob
<1>2. jobs[u][Latest(u)] \in Job
  BY <1>1, UnitJobs
<1> DEFINE j == StoodDown(jobs[u][Latest(u)])
<1>3. /\ j \in Job /\ j.inc = jobs[u][Latest(u)].inc /\ j.born = jobs[u][Latest(u)].born
      /\ ~IsActive(j) /\ ~(j.st \in Moving)
  BY <1>2, EndedJob
<1>4. Stopped(u) = [jobs[u] EXCEPT ![Latest(u)] = j]
  BY DEF Stopped
<1> HIDE DEF j
<1>5. /\ Stopped(u) \in Seq(Job) /\ Len(Stopped(u)) = Len(jobs[u])
      /\ Grows(jobs[u], Stopped(u))
  BY <1>1, <1>3, <1>4, SetJob, UnitJobs
<1>6. QED
  BY <1>1, <1>3, <1>4, <1>5

Cancelled(u) ==
  /\ Adds(u) \/ Moves(u)
  /\ Latest(u) \in DOMAIN jobs[u] /\ ~IsActive(jobs'[u][Latest(u)])
  /\ pin' = pin /\ ordered' = ordered

LEMMA CancelShape ==
  ASSUME TypeOK, RankInv, NEW u \in Unit, NEW instead \in Insteads, CancelJob(u, instead)
  PROVE  IF instead[1] = "redirect" THEN Redirects(u) ELSE Cancelled(u)
<1> DEFINE st == Stopped(u)
           L == Len(jobs[u])
<1>1. Latest(u) # 0
  BY DEF CancelJob
<1>2. /\ st \in Seq(Job) /\ Len(st) = L /\ Grows(jobs[u], st)
      /\ Latest(u) \in DOMAIN jobs[u] /\ ~IsActive(st[Latest(u)])
  BY <1>1, StoppedJobs
<1>3. L \in Nat /\ DOMAIN jobs[u] = 1..L /\ DOMAIN st = 1..L /\ jobs[u] \in Seq(Job)
  BY <1>2, UnitJobs, LenProperties
<1>4. CASE instead[1] \in {"replan", "hold"}
  <2>1. jobs' = [jobs EXCEPT ![u] = st] /\ pin' = pin /\ ordered' = ordered
    BY <1>4 DEF CancelJob
  <2> HIDE DEF st
  <2>2. Touches(u) /\ jobs'[u] = st
    BY <1>2, <2>1, TouchOne
  <2>3. QED
    BY <1>4, <1>2, <2>1, <2>2 DEF Cancelled, Moves
<1>5. CASE instead[1] = "redirect"
  <2>0. PICK b \in Began(u) : jobs' = [jobs EXCEPT ![u] = Redirected(st, instead[2], b)]
    BY <1>5 DEF CancelJob
  <2> DEFINE js == Redirected(st, instead[2], b)
  <2>1. instead[2] \in Incident /\ b \in Nat
    BY <1>5, BeganWhen DEF Insteads
  <2>2. /\ jobs' = [jobs EXCEPT ![u] = js] /\ Room(u)
        /\ pin' = pin \cup {u} /\ ordered' = [ordered EXCEPT ![u] = Len(jobs'[u])]
    BY <1>5, <2>0 DEF CancelJob
  <2> HIDE DEF st
  <2>3. /\ js \in Seq(Job) /\ Len(js) = L + 1 /\ Grows(st, js)
        /\ \A k \in DOMAIN st : ~IsActive(js[k])
        /\ js[L + 1].inc = instead[2] /\ js[L + 1].born = b
    <3> DEFINE i == instead[2]
    <3>1. /\ js \in Seq(Job) /\ Len(js) = L + 1 /\ Grows(st, js)
          /\ \A k \in DOMAIN st : ~IsActive(js[k])
          /\ js[L + 1] = [inc |-> i, st |-> "en_route", born |-> b, task |-> "open"]
      <4>1. /\ js \in Seq(Job) /\ Len(js) = Len(st) + 1 /\ Grows(st, js)
            /\ \A k \in DOMAIN st : ~IsActive(js[k])
            /\ js[Len(st) + 1] = [inc |-> i, st |-> "en_route", born |-> b, task |-> "open"]
        BY <1>2, <1>3, <2>1, RedirectedJobs
      <4> HIDE DEF js, i, L
      <4>2. QED
        BY <1>2, <4>1
    <3> HIDE DEF js, i
    <3>2. js[L + 1].inc = i
      BY <3>1
    <3>3. QED
      BY <3>1, <3>2 DEF i
  <2> HIDE DEF js
  <2>4. Grows(jobs[u], js)
    BY <1>2, <1>3, <2>3, GrowsTrans
  <2>5. Touches(u) /\ jobs'[u] = js
    BY <2>2, <2>3, <2>4, TouchOne
  <2>6. QED
    BY <1>5, <1>3, <2>1, <2>2, <2>3, <2>5 DEF Redirects, Adds
<1>6. CASE instead[1] \in {"stage", "stage_hold"}
  <2>0. PICK b \in Began(u) : jobs' = [jobs EXCEPT ![u] = Staged(st, b)]
    BY <1>6 DEF CancelJob
  <2> DEFINE js == Staged(st, b)
  <2>1. /\ jobs' = [jobs EXCEPT ![u] = js] /\ Room(u) /\ pin' = pin /\ ordered' = ordered
        /\ b \in Nat
    BY <1>6, <2>0, BeganWhen DEF CancelJob
  <2> HIDE DEF st
  <2>2. /\ js \in Seq(Job) /\ Len(js) = L + 1 /\ Grows(st, js) /\ js[L + 1].born = b
    BY <1>2, <1>3, <2>1, StagedJobs
  <2> HIDE DEF js
  <2>3. Grows(jobs[u], js)
    BY <1>2, <1>3, <2>2, GrowsTrans
  <2>4. Touches(u) /\ jobs'[u] = js
    BY <2>1, <2>2, <2>3, TouchOne
  <2>5. ~IsActive(js[Latest(u)])
    BY <1>2, <1>3, <2>2 DEF Grows
  <2>6. QED
    BY <1>6, <1>2, <2>1, <2>2, <2>4, <2>5 DEF Cancelled, Adds
<1>7. CASE instead[1] = "base"
  <2>0. PICK b \in Began(u) :
          jobs' = [jobs EXCEPT ![u] = Append(st, [inc |-> NoIncident, st |-> "en_route",
                                                  born |-> b, task |-> "none"])]
    BY <1>7 DEF CancelJob
  <2> DEFINE j == [inc |-> NoIncident, st |-> "en_route", born |-> b, task |-> "none"]
             js == Append(st, j)
  <2>1. /\ jobs' = [jobs EXCEPT ![u] = js] /\ Room(u) /\ pin' = pin /\ ordered' = ordered
        /\ b \in Nat
    BY <1>7, <2>0, BeganWhen DEF CancelJob
  <2>2. j \in Job /\ j.born = b
    BY <2>1 DEF Job, Place, JobSt, ActiveSt, Moving
  <2> HIDE DEF st, j
  <2>3. /\ js \in Seq(Job) /\ Len(js) = L + 1 /\ js[L + 1] = j
        /\ \A k \in DOMAIN jobs[u] : js[k] = st[k]
        /\ Grows(jobs[u], js)
    <3>1. /\ Append(st, j) \in Seq(Job)
          /\ Len(Append(st, j)) = Len(jobs[u]) + 1
          /\ Append(st, j)[Len(jobs[u]) + 1] = j
          /\ \A k \in DOMAIN jobs[u] : Append(st, j)[k] = st[k]
          /\ Grows(jobs[u], Append(st, j))
      <4>1. /\ jobs[u] \in Seq(Job) /\ st \in Seq(Job) /\ j \in Job
            /\ Grows(jobs[u], st) /\ Len(st) = Len(jobs[u])
        BY <1>2, <1>3, <2>2
      <4> HIDE DEF L, js
      <4>2. QED
        BY <4>1, AddJob
    <3>2. QED
      BY <3>1
  <2> HIDE DEF js
  <2>4. Touches(u) /\ jobs'[u] = js
    BY <2>1, <2>3, TouchOne
  <2>5. QED
    BY <1>7, <1>2, <2>1, <2>2, <2>3, <2>4 DEF Cancelled, Adds
<1>8. QED
  BY <1>4, <1>5, <1>6, <1>7 DEF Insteads

(* A crew's report moves jobs along.                                        *)
LEMMA OneJobShape ==
  ASSUME TypeOK, NEW u \in Unit, NEW k \in DOMAIN jobs[u], NEW j \in Job,
         j.inc = jobs[u][k].inc, j.born = jobs[u][k].born,
         IsActive(j) => IsActive(jobs[u][k]), j.st \in Moving => jobs[u][k].st \in Moving,
         jobs' = [jobs EXCEPT ![u] = [jobs[u] EXCEPT ![k] = j]]
  PROVE  Moves(u)
<1> DEFINE js == [jobs[u] EXCEPT ![k] = j]
<1>1. js \in Seq(Job) /\ Len(js) = Len(jobs[u]) /\ Grows(jobs[u], js)
  BY UnitJobs, SetJob
<1> HIDE DEF js
<1>2. Touches(u) /\ jobs'[u] = js
  BY <1>1, TouchOne DEF js
<1>3. QED
  BY <1>1, <1>2 DEF Moves

LEMMA AllJobsShape ==
  ASSUME TypeOK, NEW u \in Unit, NEW f \in [DOMAIN jobs[u] -> Job],
         \A k \in DOMAIN jobs[u] :
           /\ f[k].inc = jobs[u][k].inc /\ f[k].born = jobs[u][k].born
           /\ IsActive(f[k]) => IsActive(jobs[u][k])
           /\ f[k].st \in Moving => jobs[u][k].st \in Moving,
         jobs' = [jobs EXCEPT ![u] = f]
  PROVE  Moves(u)
<1>1. f \in Seq(Job) /\ Len(f) = Len(jobs[u])
  BY UnitJobs, MapJobs
<1>2. Grows(jobs[u], f)
  BY <1>1, UnitJobs DEF Grows
<1>3. Touches(u) /\ jobs'[u] = f
  BY <1>1, <1>2, TouchOne
<1>4. QED
  BY <1>1, <1>3 DEF Moves

LEMMA CrewShape ==
  ASSUME TypeOK, RankInv, NEW u \in Unit, Crew(u)
  PROVE  (Moves(u) \/ jobs' = jobs) /\ UNCHANGED <<pin, hold, forbid, plan, asked, ordered>>
<1> USE DEF orders
<1>1. \A k \in DOMAIN jobs[u] : jobs[u][k] \in Job
  BY UnitJobs
<1>2. CASE Drive(u)
  <2> DEFINE f == [k \in DOMAIN jobs[u] |->
                IF jobs[u][k].st = "proposed" THEN [jobs[u][k] EXCEPT !.st = "en_route"] ELSE jobs[u][k]]
  <2>1. f \in [DOMAIN jobs[u] -> Job]
    BY <1>1 DEF Job, JobSt, ActiveSt, Moving
  <2>2. \A k \in DOMAIN jobs[u] :
           /\ f[k].inc = jobs[u][k].inc /\ f[k].born = jobs[u][k].born
           /\ IsActive(f[k]) => IsActive(jobs[u][k])
           /\ f[k].st \in Moving => jobs[u][k].st \in Moving
    BY <1>1 DEF Job, JobSt, ActiveSt, Moving, IsActive
  <2>3. jobs' = [jobs EXCEPT ![u] = f]
    BY <1>2 DEF Drive
  <2> HIDE DEF f
  <2>4. Moves(u)
    BY <2>1, <2>2, <2>3, AllJobsShape
  <2>5. QED
    BY <1>2, <2>4 DEF Drive
<1>3. CASE FinishWork(u)
  <2> DEFINE k == LatestOf(u, OnSite(u))
             j == [jobs[u][k] EXCEPT !.st = "complete"]
  <2>1. k \in OnSite(u)
    <3>1. OnSite(u) \in SUBSET (DOMAIN jobs[u]) /\ OnSite(u) # {}
      BY <1>3 DEF OnSite, FinishWork
    <3>2. QED
      BY <3>1, NewestOf
  <2>2. k \in DOMAIN jobs[u]
    BY <2>1 DEF OnSite
  <2>3. jobs' = [jobs EXCEPT ![u] = [jobs[u] EXCEPT ![k] = j]]
    BY <1>3, <2>2 DEF FinishWork, TypeOK
  <2> HIDE DEF k
  <2>4. /\ j \in Job /\ j.inc = jobs[u][k].inc /\ j.born = jobs[u][k].born
        /\ ~IsActive(j) /\ ~(j.st \in Moving)
    BY <1>1, <2>2 DEF Job, JobSt, ActiveSt, Moving, IsActive
  <2> HIDE DEF j
  <2>5. Moves(u)
    BY <2>2, <2>3, <2>4, OneJobShape
  <2>6. QED
    BY <1>3, <2>5 DEF FinishWork
<1>4. CASE Offline(u)
  <2> DEFINE f == [k \in DOMAIN jobs[u] |->
                IF IsActive(jobs[u][k]) THEN [jobs[u][k] EXCEPT !.st = "complete"] ELSE jobs[u][k]]
  <2>1. f \in [DOMAIN jobs[u] -> Job]
    BY <1>1 DEF Job, JobSt, ActiveSt, Moving
  <2>2. \A k \in DOMAIN jobs[u] :
           /\ f[k].inc = jobs[u][k].inc /\ f[k].born = jobs[u][k].born
           /\ IsActive(f[k]) => IsActive(jobs[u][k])
           /\ f[k].st \in Moving => jobs[u][k].st \in Moving
    BY <1>1 DEF Job, JobSt, ActiveSt, Moving, IsActive
  <2>3. jobs' = [jobs EXCEPT ![u] = f]
    BY <1>4 DEF Offline
  <2> HIDE DEF f
  <2>4. Moves(u)
    BY <2>1, <2>2, <2>3, AllJobsShape
  <2>5. QED
    BY <1>4, <2>4 DEF Offline
<1>5. CASE BackInService(u)
  BY <1>5 DEF BackInService
<1>6. CASE TaskComplete(u)
  <2> DEFINE f == [k \in DOMAIN jobs[u] |->
                IF jobs[u][k].st \in {"en_route", "on_site"}
                THEN [jobs[u][k] EXCEPT !.st = "complete"] ELSE jobs[u][k]]
  <2>1. f \in [DOMAIN jobs[u] -> Job]
    BY <1>1 DEF Job, JobSt, ActiveSt, Moving
  <2>2. \A k \in DOMAIN jobs[u] :
           /\ f[k].inc = jobs[u][k].inc /\ f[k].born = jobs[u][k].born
           /\ IsActive(f[k]) => IsActive(jobs[u][k])
           /\ f[k].st \in Moving => jobs[u][k].st \in Moving
    BY <1>1 DEF Job, JobSt, ActiveSt, Moving, IsActive
  <2>3. jobs' = [jobs EXCEPT ![u] = f]
    BY <1>6 DEF TaskComplete
  <2> HIDE DEF f
  <2>4. Moves(u)
    BY <2>1, <2>2, <2>3, AllJobsShape
  <2>5. QED
    BY <1>6, <2>4 DEF TaskComplete
<1>7. ASSUME NEW k \in DOMAIN jobs[u], Arrive(u, k)
      PROVE  (Moves(u) \/ jobs' = jobs) /\ UNCHANGED <<pin, hold, forbid, plan, asked, ordered>>
  <2> DEFINE j == [jobs[u][k] EXCEPT !.st = "on_site"]
  <2>1. jobs' = [jobs EXCEPT ![u] = [jobs[u] EXCEPT ![k] = j]]
    BY <1>7 DEF Arrive, TypeOK
  <2>2. /\ j \in Job /\ j.inc = jobs[u][k].inc /\ j.born = jobs[u][k].born
        /\ IsActive(jobs[u][k]) /\ ~(j.st \in Moving)
    BY <1>1, <1>7 DEF Arrive, Job, JobSt, ActiveSt, Moving, IsActive
  <2> HIDE DEF j
  <2>3. Moves(u)
    BY <2>1, <2>2, OneJobShape
  <2>4. QED
    BY <1>7, <2>3 DEF Arrive
<1>8. ASSUME NEW k \in DOMAIN jobs[u], StagedArrive(u, k)
      PROVE  (Moves(u) \/ jobs' = jobs) /\ UNCHANGED <<pin, hold, forbid, plan, asked, ordered>>
  <2> DEFINE j == [jobs[u][k] EXCEPT !.st = "complete"]
  <2>1. jobs' = [jobs EXCEPT ![u] = [jobs[u] EXCEPT ![k] = j]]
    BY <1>8 DEF StagedArrive, TypeOK
  <2>2. /\ j \in Job /\ j.inc = jobs[u][k].inc /\ j.born = jobs[u][k].born
        /\ ~IsActive(j) /\ ~(j.st \in Moving)
    BY <1>1, <1>8 DEF StagedArrive, Job, JobSt, ActiveSt, Moving, IsActive
  <2> HIDE DEF j
  <2>3. Moves(u)
    BY <2>1, <2>2, OneJobShape
  <2>4. QED
    BY <1>8, <2>3 DEF StagedArrive
<1>9. ASSUME NEW k \in DOMAIN jobs[u], TaskPatch(u, k)
      PROVE  (Moves(u) \/ jobs' = jobs) /\ UNCHANGED <<pin, hold, forbid, plan, asked, ordered>>
  <2> DEFINE j == [jobs[u][k] EXCEPT !.task = IF jobs[u][k].task = "open" THEN "closed" ELSE "open"]
  <2>1. jobs' = [jobs EXCEPT ![u] = [jobs[u] EXCEPT ![k] = j]]
    BY <1>9 DEF TaskPatch, TypeOK
  <2>2. /\ j \in Job /\ j.inc = jobs[u][k].inc /\ j.born = jobs[u][k].born
        /\ j.st = jobs[u][k].st
    BY <1>1 DEF Job
  <2>3. Moves(u)
    <3> HIDE DEF j
    <3>1. QED
      BY <2>1, <2>2, OneJobShape DEF IsActive
  <2>4. QED
    BY <1>9, <2>3 DEF TaskPatch
<1>10. QED
  BY <1>2, <1>3, <1>4, <1>5, <1>6, <1>7, <1>8, <1>9 DEF Crew

(* One row is added at most, and it is the newest or as old as a plan.      *)
LEMMA RankOfRows ==
  ASSUME NEW js \in Seq(Job), NEW js2 \in Seq(Job), Grows(js, js2),
         \A k \in DOMAIN js : js[k].born <= 3 * Len(js),
         \/ Len(js2) = Len(js)
         \/ Len(js2) = Len(js) + 1 /\ js2[Len(js) + 1].born <= 3 * Len(js) + 3
  PROVE  \A k \in DOMAIN js2 : js2[k].born <= 3 * Len(js2)
<1> SUFFICES ASSUME NEW k \in DOMAIN js2 PROVE js2[k].born <= 3 * Len(js2)
  OBVIOUS
<1> DEFINE n == Len(js)
           m == Len(js2)
<1>1. n \in Nat /\ m \in Nat /\ DOMAIN js = 1..n /\ DOMAIN js2 = 1..m
  BY LenProperties
<1>2. m = n \/ (m = n + 1 /\ js2[n + 1].born <= 3 * n + 3)
  OBVIOUS
<1>3. \A l \in 1..n : js[l].born \in Nat
  <2>1. \A l \in 1..n : js[l] \in Job
    BY <1>1, ElementOfSeq
  <2>2. QED
    BY <2>1 DEF Job
<1>4. \A l \in 1..n : js2[l].born = js[l].born /\ js[l].born <= 3 * n
  BY <1>1 DEF Grows
<1>5. k \in 1..m
  BY <1>1
<1> HIDE DEF n, m
<1>6. CASE k \in 1..n
  <2>1. PICK b \in Nat : b = js2[k].born
    BY <1>3, <1>4, <1>6
  <2>2. b <= 3 * n
    BY <1>4, <1>6, <2>1
  <2>3. b <= 3 * m
    BY <1>1, <1>2, <2>2
  <2>4. QED
    BY <2>1, <2>3 DEF m
<1>7. CASE k \notin 1..n
  <2>1. k = n + 1 /\ m = n + 1
    BY <1>1, <1>2, <1>5, <1>7
  <2>2. 3 * n + 3 = 3 * m
    BY <1>1, <2>1
  <2>3. js2[k].born <= 3 * m
    BY <1>1, <1>2, <2>1, <2>2
  <2>4. QED
    BY <2>3 DEF m
<1>8. QED
  BY <1>6, <1>7

(* What a plan writes for a unit: it ends the job it read, if that had an    *)
(* incident, and adds one with the rank of the moment it started.           *)
LEMMA WrittenJobs ==
  ASSUME TypeOK, RankInv, plan # NoPlan, NEW u \in Unit
  PROVE  /\ Written(u) \in Seq(Job) /\ Grows(jobs[u], Written(u))
         /\ ~Changed(u) => Written(u) = jobs[u]
         /\ \A k \in DOMAIN jobs[u] : Written(u)[k] # jobs[u][k] =>
              /\ k = plan.job[u] /\ plan.was[u] # NoIncident
              /\ Written(u)[k].st = "cancelled" /\ Written(u)[k].task # "open"
         /\ Changed(u) /\ plan.was[u] # NoIncident /\ plan.job[u] \in DOMAIN jobs[u] =>
              ~IsActive(Written(u)[plan.job[u]])
         /\ \/ Len(Written(u)) = Len(jobs[u])
            \/ /\ Len(Written(u)) = Len(jobs[u]) + 1
               /\ Changed(u) /\ plan.to[u] # NoIncident
               /\ Written(u)[Len(jobs[u]) + 1] =
                    [inc |-> plan.to[u], st |-> "proposed", born |-> plan.now[u], task |-> "open"]
<1> DEFINE L == Len(jobs[u])
           k0 == plan.job[u]
           rest == IF plan.was[u] = NoIncident THEN jobs[u]
                   ELSE [jobs[u] EXCEPT ![k0] = StoodDown(jobs[u][k0])]
           j == [inc |-> plan.to[u], st |-> "proposed", born |-> plan.now[u], task |-> "open"]
<1>1. plan \in PlanType
  BY DEF TypeOK
<1>2. /\ jobs[u] \in Seq(Job) /\ L \in Nat /\ DOMAIN jobs[u] = 1..L
      /\ \A k \in DOMAIN jobs[u] : jobs[u][k] \in Job
  BY UnitJobs
<1>3. j \in Job
  BY <1>1 DEF PlanType, Job, JobSt, ActiveSt, Moving
<1>4. /\ rest \in Seq(Job) /\ Len(rest) = L /\ Grows(jobs[u], rest)
      /\ \A k \in DOMAIN jobs[u] : rest[k] # jobs[u][k] =>
           /\ k = k0 /\ plan.was[u] # NoIncident
           /\ rest[k].st = "cancelled" /\ rest[k].task # "open"
      /\ plan.was[u] # NoIncident /\ k0 \in DOMAIN jobs[u] => ~IsActive(rest[k0])
  <2>1. CASE plan.was[u] = NoIncident \/ k0 \notin DOMAIN jobs[u]
    <3>1. rest = jobs[u]
      BY <1>2, <2>1
    <3>2. QED
      BY <1>2, <2>1, <3>1, GrowsRefl
  <2>2. CASE plan.was[u] # NoIncident /\ k0 \in DOMAIN jobs[u]
    <3> DEFINE d == StoodDown(jobs[u][k0])
    <3>1. /\ d \in Job /\ d.inc = jobs[u][k0].inc /\ d.born = jobs[u][k0].born
          /\ d.st = "cancelled" /\ d.task # "open"
          /\ ~IsActive(d) /\ ~(d.st \in Moving)
      BY <1>2, <2>2, EndedJob
    <3>2. rest = [jobs[u] EXCEPT ![k0] = d]
      BY <2>2
    <3> HIDE DEF d, rest, k0
    <3>3. rest \in Seq(Job) /\ Len(rest) = L /\ Grows(jobs[u], rest)
      BY <1>2, <2>2, <3>1, <3>2, SetJob
    <3>4. QED
      BY <1>2, <2>2, <3>1, <3>2, <3>3
  <2>3. QED
    BY <2>1, <2>2
<1>5. CASE ~Changed(u)
  BY <1>2, <1>5, GrowsRefl DEF Written
<1>6. CASE Changed(u) /\ plan.to[u] = NoIncident
  <2>1. Written(u) = rest
    BY <1>6 DEF Written
  <2> HIDE DEF rest
  <2>2. QED
    BY <1>4, <1>6, <2>1
<1>7. CASE Changed(u) /\ plan.to[u] # NoIncident
  <2>1. Written(u) = Append(rest, j)
    BY <1>7 DEF Written
  <2> HIDE DEF rest
  <2>2. /\ Append(rest, j) \in Seq(Job) /\ Len(Append(rest, j)) = L + 1
        /\ Append(rest, j)[L + 1] = j
        /\ \A k \in DOMAIN jobs[u] : Append(rest, j)[k] = rest[k]
        /\ Grows(jobs[u], Append(rest, j))
    <3> HIDE DEF j
    <3>1. QED
      BY <1>2, <1>3, <1>4, AddJob
  <2>3. QED
    BY <1>4, <1>7, <2>1, <2>2
<1>8. QED
  BY <1>5, <1>6, <1>7

(* Every action of an officer or a crew, by what it does to the jobs.       *)
LEMMA UnitShape ==
  ASSUME TypeOK, RankInv, NEW u \in Unit, Officer(u) \/ Crew(u)
  PROVE  /\ Redirects(u) \/ Adds(u) \/ Moves(u) \/ jobs' = jobs
         /\ plan' = plan
<1> USE DEF orders
<1>1. CASE Crew(u)
  BY <1>1, CrewShape
<1>2. ASSUME NEW instead \in Insteads, Cancel(u, instead)
      PROVE  (Redirects(u) \/ Adds(u) \/ Moves(u)) /\ plan' = plan
  BY <1>2, CancelShape DEF Cancel, Cancelled, CancelJob
<1>3. ASSUME ApproveCancel(u)
      PROVE  (Redirects(u) \/ Adds(u) \/ Moves(u)) /\ plan' = plan
  <2>1. <<"replan", NoIncident>> \in Insteads
    BY DEF Insteads
  <2>2. QED
    BY <1>3, <2>1, CancelShape DEF ApproveCancel, Cancelled, CancelJob
<1>4. CASE AskCancel(u) \/ HoldUnit(u) \/ PinUnit(u)
  BY <1>4 DEF AskCancel, HoldUnit, PinUnit
<1>5. CASE Preposition(u)
  BY <1>5, PrepositionShape DEF Preposition
<1>6. ASSUME NEW i \in Incident, Reallocate(u, i)
      PROVE  Redirects(u) /\ plan' = plan
  BY <1>6, ReallocateShape DEF Reallocate
<1>7. ASSUME NEW i \in Incident, Expire(u, i)
      PROVE  jobs' = jobs /\ plan' = plan
  BY <1>7 DEF Expire
<1>8. QED
  BY <1>1, <1>2, <1>3, <1>4, <1>5, <1>6, <1>7 DEF Officer

LEMMA RankStep ==
  ASSUME TypeOK, RankInv, NEW u \in Unit, plan' = plan,
         Adds(u) \/ Moves(u) \/ jobs' = jobs
  PROVE  /\ jobs' \in [Unit -> Seq(Job)] /\ \A v \in Unit : Len(jobs'[v]) <= MaxJobs
         /\ RankInv'
<1>1. CASE jobs' = jobs
  BY <1>1 DEF TypeOK, RankInv, PlanStart
<1>2. ASSUME Adds(u) \/ Moves(u)
      PROVE  /\ jobs' \in [Unit -> Seq(Job)] /\ \A v \in Unit : Len(jobs'[v]) <= MaxJobs
             /\ RankInv'
  <2>1. /\ jobs' \in [Unit -> Seq(Job)] /\ Grows(jobs[u], jobs'[u])
        /\ \A v \in Unit \ {u} : jobs'[v] = jobs[v]
    BY <1>2 DEF Adds, Moves, Touches
  <2>2. /\ Len(jobs[u]) \in Nat /\ MaxJobs \in Nat /\ DOMAIN jobs[u] = 1..Len(jobs[u])
        /\ DOMAIN jobs'[u] = 1..Len(jobs'[u]) /\ Len(jobs'[u]) \in Nat
    BY <2>1, UnitJobs, LenProperties, DispatchAssumption
  <2>3. \/ Len(jobs'[u]) = Len(jobs[u])
        \/ /\ Len(jobs'[u]) = Len(jobs[u]) + 1
           /\ Len(jobs[u]) + (IF plan = NoPlan THEN 0 ELSE 1) < MaxJobs
           /\ jobs'[u][Len(jobs[u]) + 1].born <= 3 * Len(jobs[u]) + 3
    BY <1>2, BeganWhen DEF Adds, Moves, Room
  <2>4. \A v \in Unit : Len(jobs'[v]) <= MaxJobs
    <3>1. \A v \in Unit : Len(jobs[v]) <= MaxJobs
      BY DEF TypeOK
    <3>2. Len(jobs'[u]) <= MaxJobs
      <4> DEFINE x == Len(jobs[u])
                 y == Len(jobs'[u])
      <4>1. /\ x \in Nat /\ y \in Nat /\ x <= MaxJobs /\ MaxJobs \in Nat
            /\ y = x \/ (y = x + 1 /\ x + (IF plan = NoPlan THEN 0 ELSE 1) < MaxJobs)
        <5>1. x \in Nat /\ y \in Nat /\ x <= MaxJobs /\ MaxJobs \in Nat
          BY <2>2, <3>1
        <5>2. y = x \/ (y = x + 1 /\ x + (IF plan = NoPlan THEN 0 ELSE 1) < MaxJobs)
          BY <2>3, Zenon
        <5>3. QED
          BY <5>1, <5>2
      <4> HIDE DEF x, y
      <4>2. y <= MaxJobs
        BY <4>1
      <4>3. QED
        BY <4>2 DEF y
    <3>3. QED
      BY <2>1, <3>1, <3>2
  <2>5. \A k \in DOMAIN jobs'[u] : jobs'[u][k].born <= 3 * Len(jobs'[u])
    <3>1. \A k \in DOMAIN jobs[u] : jobs[u][k].born <= 3 * Len(jobs[u])
      BY DEF RankInv
    <3>2. \/ Len(jobs'[u]) = Len(jobs[u])
          \/ Len(jobs'[u]) = Len(jobs[u]) + 1 /\ jobs'[u][Len(jobs[u]) + 1].born <= 3 * Len(jobs[u]) + 3
      BY <2>3
    <3>3. jobs[u] \in Seq(Job) /\ jobs'[u] \in Seq(Job)
      BY <2>1, UnitJobs
    <3>4. QED
      BY <2>1, <3>1, <3>2, <3>3, RankOfRows
  <2>6. ASSUME plan # NoPlan, NEW v \in Unit
        PROVE  /\ Len(jobs'[v]) < MaxJobs /\ plan.now[v] <= 3 * Len(jobs'[v]) + 2
               /\ plan.job[v] <= Len(jobs'[v])
    <3>1. /\ Len(jobs[v]) < MaxJobs /\ plan.now[v] <= 3 * Len(jobs[v]) + 2
          /\ plan.job[v] <= Len(jobs[v])
      BY <2>6 DEF RankInv, PlanStart
    <3>2. CASE v # u
      BY <2>1, <3>1, <3>2
    <3>3. CASE v = u
      <4>1. plan.now[u] \in Nat /\ plan.job[u] \in Nat
        BY <2>6 DEF TypeOK, PlanType
      <4>2. \/ Len(jobs'[u]) = Len(jobs[u])
            \/ Len(jobs'[u]) = Len(jobs[u]) + 1 /\ Len(jobs[u]) + 1 < MaxJobs
        BY <2>3, <2>6
      <4> DEFINE x == Len(jobs[u])
                 y == Len(jobs'[u])
      <4>3. /\ x \in Nat /\ y \in Nat /\ MaxJobs \in Nat /\ x < MaxJobs
            /\ y = x \/ (y = x + 1 /\ x + 1 < MaxJobs)
            /\ plan.now[u] <= 3 * x + 2 /\ plan.job[u] <= x
        BY <2>2, <3>1, <3>3, <4>2
      <4> HIDE DEF x, y
      <4>4. y < MaxJobs /\ plan.now[u] <= 3 * y + 2 /\ plan.job[u] <= y
        BY <4>1, <4>3
      <4>5. QED
        BY <3>3, <4>4 DEF y
    <3>4. QED
      BY <3>2, <3>3
  <2>7. RankInv'
    <3>1. \A v \in Unit : \A k \in DOMAIN jobs'[v] : jobs'[v][k].born <= 3 * Len(jobs'[v])
      BY <2>1, <2>5 DEF RankInv
    <3>2. QED
      BY <2>6, <3>1 DEF RankInv, PlanStart
  <2>8. QED
    BY <2>1, <2>4, <2>7
<1>3. QED
  BY <1>1, <1>2

LEMMA CancelJobType ==
  ASSUME TypeOK, RankInv, NEW u \in Unit, NEW instead \in Insteads, CancelJob(u, instead),
         jobs' \in [Unit -> Seq(Job)]
  PROVE  /\ res' \in [Unit -> {"available", "assigned", "en_route", "on_site", "offline"}]
         /\ status' = status /\ plan' = plan
         /\ pin' \subseteq Unit /\ hold' \subseteq Unit /\ forbid' \subseteq Unit \X Incident
         /\ ordered' \in [Unit -> Nat]
<1>1. IncidentOf(u, Latest(u)) \in Place
  BY LatestJob
<1>2. forbid' \subseteq Unit \X Incident
  BY <1>1 DEF CancelJob, TypeOK, Place
<1>3. Len(jobs'[u]) \in Nat
  BY LenProperties
<1>4. QED
  BY <1>2, <1>3 DEF CancelJob, TypeOK

LEMMA UnitType ==
  ASSUME TypeOK, RankInv, NEW u \in Unit, Officer(u) \/ Crew(u)
  PROVE  TypeOK' /\ RankInv'
<1> USE DEF orders
<1>1. /\ jobs' \in [Unit -> Seq(Job)] /\ \A v \in Unit : Len(jobs'[v]) <= MaxJobs
      /\ RankInv' /\ plan' = plan
  BY UnitShape, RankStep DEF Redirects
<1>2. Len(jobs'[u]) \in Nat
  BY <1>1, LenProperties
<1>3. ASSUME NEW instead \in Insteads, Cancel(u, instead) PROVE TypeOK'
  BY <1>1, <1>3, CancelJobType DEF Cancel, TypeOK
<1>4. ASSUME ApproveCancel(u) PROVE TypeOK'
  <2>1. <<"replan", NoIncident>> \in Insteads
    BY DEF Insteads
  <2>2. CancelJob(u, <<"replan", NoIncident>>) /\ asked' \subseteq asked
    BY <1>4 DEF ApproveCancel
  <2>3. QED
    BY <1>1, <2>1, <2>2, CancelJobType DEF TypeOK
<1>5. CASE AskCancel(u)
  BY <1>1, <1>5, LatestJob DEF AskCancel, TypeOK
<1>6. CASE HoldUnit(u) \/ PinUnit(u)
  BY <1>1, <1>6 DEF HoldUnit, PinUnit, TypeOK
<1>7. CASE Preposition(u)
  BY <1>1, <1>7 DEF Preposition, TypeOK
<1>8. ASSUME NEW i \in Incident, Reallocate(u, i) PROVE TypeOK'
  BY <1>1, <1>2, <1>8 DEF Reallocate, TypeOK
<1>9. ASSUME NEW i \in Incident, Expire(u, i) PROVE TypeOK'
  <2>1. /\ pin' \subseteq Unit /\ hold' \subseteq Unit /\ forbid' \subseteq Unit \X Incident
        /\ ordered' \in [Unit -> Nat]
    <3>1. /\ pin \subseteq Unit /\ hold \subseteq Unit /\ forbid \subseteq Unit \X Incident
          /\ ordered \in [Unit -> Nat]
      BY DEF TypeOK
    <3>2. /\ pin' \subseteq pin /\ hold' \subseteq hold /\ forbid' \subseteq forbid
          /\ ordered' = ordered \/ ordered' = [ordered EXCEPT ![u] = 0]
      BY <1>9 DEF Expire
    <3>3. QED
      BY <3>1, <3>2
  <2>2. res' = res /\ status' = status /\ asked' = asked
    BY <1>9 DEF Expire
  <2>3. QED
    BY <1>1, <2>1, <2>2 DEF TypeOK
<1>10. CASE Drive(u) \/ Offline(u) \/ BackInService(u) \/ TaskComplete(u)
  BY <1>1, <1>10 DEF Drive, Offline, BackInService, TaskComplete, TypeOK
<1>11. CASE FinishWork(u)
  <2>1. status' \in [Incident -> {"none", "open", "resolved"}]
    BY <1>11 DEF FinishWork, TypeOK
  <2>2. QED
    BY <1>1, <1>11, <2>1 DEF FinishWork, TypeOK
<1>12. ASSUME NEW k \in DOMAIN jobs[u], Arrive(u, k) \/ StagedArrive(u, k) \/ TaskPatch(u, k)
       PROVE  TypeOK'
  BY <1>1, <1>12 DEF Arrive, StagedArrive, TaskPatch, TypeOK
<1>13. QED
  BY <1>1, <1>3, <1>4, <1>5, <1>6, <1>7, <1>8, <1>9, <1>10, <1>11, <1>12 DEF Officer, Crew

LEMMA PlannerType ==
  ASSUME TypeOK, RankInv, Planner
  PROVE  TypeOK' /\ RankInv'
<1> USE DEF orders
<1>1. \A u \in Unit : Len(jobs[u]) \in Nat
  BY UnitJobs
<1>2. CASE PlanRead
  <2> DEFINE p == [phase |-> "read",
              needs |-> OpenNeeds,
              units |-> {u \in Unit : res[u] # "offline"},
              job   |-> [u \in Unit |-> Latest(u)],
              was   |-> [u \in Unit |-> IncidentOf(u, Latest(u))],
              site  |-> {u \in Unit : Latest(u) # 0 /\ jobs[u][Latest(u)].st = "on_site"},
              now   |-> [u \in Unit |-> PlanStart(u)],
              to    |-> [u \in Unit |-> NoIncident]]
  <2>1. plan' = p /\ \A u \in Unit : Len(jobs[u]) < MaxJobs
    BY <1>2 DEF PlanRead
  <2>2. \A u \in Unit : /\ Latest(u) \in Nat /\ Latest(u) <= Len(jobs[u])
                        /\ IncidentOf(u, Latest(u)) \in Place
    BY <1>1, LatestJob
  <2>3. OpenNeeds \in SUBSET (Incident \X Capability)
    BY DEF OpenNeeds
  <2>4. NoIncident \in Place
    BY DEF Place
  <2>5. p \in PlanType
    BY <1>1, <2>2, <2>3, <2>4 DEF PlanType, PlanStart
  <2>6. TypeOK'
    BY <1>2, <2>1, <2>5 DEF PlanRead, TypeOK
  <2>7. \A u \in Unit : plan'.now[u] = 3 * Len(jobs[u]) + 2 /\ plan'.job[u] = Latest(u)
    BY <2>1 DEF PlanStart
  <2>8. RankInv'
    <3>1. jobs' = jobs
      BY <1>2 DEF PlanRead
    <3>2. \A u \in Unit : plan'.now[u] <= 3 * Len(jobs[u]) + 2 /\ plan'.job[u] <= Len(jobs[u])
      BY <1>1, <2>2, <2>7
    <3>3. QED
      BY <2>1, <3>1, <3>2 DEF RankInv, PlanStart
  <2>9. QED
    BY <2>6, <2>8
<1>3. CASE PlanSolve
  <2>1. plan \in PlanType /\ plan # NoPlan
    BY <1>3 DEF PlanSolve, TypeOK
  <2>2. PICK m \in Commitments :
          LET served == {m[u] : u \in Locked \cap DOMAIN m}
              free == (plan.units \ Locked) \ Held
          IN  \E a \in Allocations(free, plan.needs \ served) :
                plan' = [plan EXCEPT
                           !.phase = "write",
                           !.units = free,
                           !.to = [u \in Unit |-> IF u \in DOMAIN a THEN a[u][1] ELSE NoIncident]]
    BY <1>3 DEF PlanSolve
  <2> DEFINE served == {m[u] : u \in Locked \cap DOMAIN m}
             free == (plan.units \ Locked) \ Held
  <2>3. PICK a \in Allocations(free, plan.needs \ served) :
                plan' = [plan EXCEPT
                           !.phase = "write",
                           !.units = free,
                           !.to = [u \in Unit |-> IF u \in DOMAIN a THEN a[u][1] ELSE NoIncident]]
    BY <2>2
  <2>4. \A u \in DOMAIN a : a[u] \in Incident \X Capability
    BY <2>1 DEF Allocations, PlanType
  <2>5. [u \in Unit |-> IF u \in DOMAIN a THEN a[u][1] ELSE NoIncident] \in [Unit -> Place]
    BY <2>4 DEF Place
  <2>6. plan' \in PlanType /\ plan'.now = plan.now /\ plan'.job = plan.job
    BY <2>1, <2>3, <2>5 DEF PlanType
  <2>7. TypeOK'
    BY <1>3, <2>6 DEF PlanSolve, TypeOK
  <2>8. RankInv'
    BY <1>3, <2>1, <2>6 DEF PlanSolve, RankInv, PlanStart
  <2>9. QED
    BY <2>7, <2>8
<1>4. CASE PlanCommit
  <2>1. /\ plan # NoPlan /\ plan' = NoPlan /\ plan \in PlanType
        /\ jobs' = [u \in Unit |-> Written(u)] /\ res' = [u \in Unit |-> StatusAfter(u)]
    BY <1>4 DEF PlanCommit, TypeOK
  <2>2. \A u \in Unit : /\ Written(u) \in Seq(Job) /\ Grows(jobs[u], Written(u))
                        /\ \/ Len(Written(u)) = Len(jobs[u])
                           \/ /\ Len(Written(u)) = Len(jobs[u]) + 1
                              /\ Written(u)[Len(jobs[u]) + 1].born = plan.now[u]
    <3> SUFFICES ASSUME NEW u \in Unit
                 PROVE  /\ Written(u) \in Seq(Job) /\ Grows(jobs[u], Written(u))
                        /\ \/ Len(Written(u)) = Len(jobs[u])
                           \/ /\ Len(Written(u)) = Len(jobs[u]) + 1
                              /\ Written(u)[Len(jobs[u]) + 1].born = plan.now[u]
      OBVIOUS
    <3>1. /\ Written(u) \in Seq(Job) /\ Grows(jobs[u], Written(u))
          /\ \/ Len(Written(u)) = Len(jobs[u])
             \/ /\ Len(Written(u)) = Len(jobs[u]) + 1
                /\ Written(u)[Len(jobs[u]) + 1] =
                    [inc |-> plan.to[u], st |-> "proposed", born |-> plan.now[u], task |-> "open"]
      BY <2>1, WrittenJobs
    <3>2. QED
      BY <3>1
  <2>3. jobs' \in [Unit -> Seq(Job)] /\ \A u \in Unit : jobs'[u] = Written(u)
    BY <2>1, <2>2
  <2>4. \A u \in Unit : Len(jobs'[u]) <= MaxJobs
    <3>1. \A u \in Unit : Len(jobs[u]) < MaxJobs
      BY <2>1 DEF RankInv
    <3>2. QED
      BY <1>1, <2>2, <2>3, <3>1, DispatchAssumption
  <2>5. RankInv'
    <3> SUFFICES ASSUME NEW u \in Unit
                 PROVE  \A k \in DOMAIN jobs'[u] : jobs'[u][k].born <= 3 * Len(jobs'[u])
      BY <2>1 DEF RankInv
    <3> DEFINE w == Written(u)
               n == plan.now[u]
    <3>1. jobs'[u] = w /\ w \in Seq(Job) /\ Grows(jobs[u], w) /\ jobs[u] \in Seq(Job)
      BY <2>2, <2>3, UnitJobs
    <3>2. /\ \A k \in DOMAIN jobs[u] : jobs[u][k].born <= 3 * Len(jobs[u])
          /\ n <= 3 * Len(jobs[u]) + 2 /\ n \in Nat
      BY <2>1 DEF RankInv, PlanType, PlanStart
    <3>3. \/ Len(w) = Len(jobs[u])
          \/ Len(w) = Len(jobs[u]) + 1 /\ w[Len(jobs[u]) + 1].born = n
      BY <2>2
    <3> HIDE DEF w, n
    <3>4. n <= 3 * Len(jobs[u]) + 3
      BY <1>1, <3>2
    <3>5. \A k \in DOMAIN w : w[k].born <= 3 * Len(w)
      BY <3>1, <3>2, <3>3, <3>4, RankOfRows
    <3>6. QED
      BY <3>1, <3>5
  <2>6. res' \in [Unit -> {"available", "assigned", "en_route", "on_site", "offline"}]
    BY <2>1 DEF StatusAfter, TypeOK
  <2>7. TypeOK'
    BY <1>4, <2>1, <2>3, <2>4, <2>6 DEF PlanCommit, TypeOK
  <2>8. QED
    BY <2>5, <2>7
<1>5. CASE PlanAbort
  BY <1>5 DEF PlanAbort, TypeOK, RankInv
<1>6. QED
  BY <1>2, <1>3, <1>4, <1>5 DEF Planner

LEMMA InitType == Init => TypeOK /\ RankInv
<1> SUFFICES ASSUME Init PROVE TypeOK /\ RankInv
  OBVIOUS
<1>1. <<>> \in Seq(Job) /\ Len(<<>>) = 0 /\ DOMAIN <<>> = {}
  BY EmptySeq
<1>2. QED
  BY <1>1, DispatchAssumption DEF Init, TypeOK, RankInv

LEMMA NextType == TypeOK /\ RankInv /\ [Next]_vars => (TypeOK /\ RankInv)'
<1> SUFFICES ASSUME TypeOK, RankInv, [Next]_vars PROVE TypeOK' /\ RankInv'
  OBVIOUS
<1> USE DEF orders
<1>1. CASE Planner
  BY <1>1, PlannerType
<1>2. ASSUME NEW i \in Incident, Report(i) PROVE TypeOK' /\ RankInv'
  BY <1>2 DEF Report, TypeOK, RankInv, PlanStart
<1>3. ASSUME NEW u \in Unit, Officer(u) \/ Crew(u) PROVE TypeOK' /\ RankInv'
  BY <1>3, UnitType
<1>4. CASE UNCHANGED vars
  BY <1>4 DEF vars, TypeOK, RankInv, PlanStart
<1>5. QED
  BY <1>1, <1>2, <1>3, <1>4 DEF Next

(* Every variable keeps its type, and no plan in flight runs out of room.   *)
THEOREM TypeCorrect == Spec => [](TypeOK /\ RankInv)
BY InitType, NextType, PTL DEF Spec
----------------------------------------------------------------------------
(* An officer's redirect, however many re-plans overlap it.                 *)

(* The officers' and crews' other steps: no redirect is entered, a pin that *)
(* backs one lasts, and a job is added only after the one under way ended.  *)
Keeps(u) ==
  /\ \A v \in Unit : \/ ordered'[v] = 0
                     \/ ordered'[v] = ordered[v] /\ (v \in pin => v \in pin')
  /\ \/ Moves(u) \/ jobs' = jobs
     \/ Adds(u) /\ \A k \in DOMAIN jobs[u] : ~(jobs'[u][k].st \in Moving)
     \/ Adds(u) /\ Latest(u) \in DOMAIN jobs[u] /\ ~IsActive(jobs'[u][Latest(u)])

LEMMA CancelledKeeps ==
  ASSUME NEW u \in Unit, Cancelled(u)
  PROVE  Keeps(u)
BY DEF Cancelled, Keeps

LEMMA UnitOrders ==
  ASSUME TypeOK, RankInv, NEW u \in Unit, Officer(u) \/ Crew(u)
  PROVE  (Redirects(u) \/ Keeps(u)) /\ plan' = plan
<1> USE DEF orders
<1>1. CASE Crew(u)
  BY <1>1, CrewShape DEF Keeps
<1>2. ASSUME NEW instead \in Insteads, Cancel(u, instead)
      PROVE  (Redirects(u) \/ Keeps(u)) /\ plan' = plan
  BY <1>2, CancelShape, CancelledKeeps DEF Cancel, CancelJob
<1>3. ASSUME ApproveCancel(u)
      PROVE  (Redirects(u) \/ Keeps(u)) /\ plan' = plan
  <2>1. <<"replan", NoIncident>> \in Insteads
    BY DEF Insteads
  <2>2. QED
    BY <1>3, <2>1, CancelShape, CancelledKeeps DEF ApproveCancel, CancelJob
<1>4. CASE AskCancel(u) \/ HoldUnit(u) \/ PinUnit(u)
  BY <1>4 DEF AskCancel, HoldUnit, PinUnit, Keeps
<1>5. CASE Preposition(u)
  BY <1>5, PrepositionShape DEF Preposition, Keeps
<1>6. ASSUME NEW i \in Incident, Reallocate(u, i)
      PROVE  Redirects(u) /\ plan' = plan
  BY <1>6, ReallocateShape DEF Reallocate
<1>7. ASSUME NEW i \in Incident, Expire(u, i)
      PROVE  Keeps(u) /\ plan' = plan
  <2>1. jobs' = jobs /\ plan' = plan
    BY <1>7 DEF Expire
  <2>2. \A v \in Unit : \/ ordered'[v] = 0
                        \/ ordered'[v] = ordered[v] /\ (v \in pin => v \in pin')
    BY <1>7 DEF Expire, TypeOK
  <2>3. QED
    BY <2>1, <2>2 DEF Keeps
<1>8. QED
  BY <1>1, <1>2, <1>3, <1>4, <1>5, <1>6, <1>7 DEF Officer

(* The newest job under way is the redirect's, if that one is under way.    *)
LEMMA CurrentIsLatest ==
  ASSUME TypeOK, RankInv, RedirectInv, CurrentInv, NEW u \in Unit,
         ordered[u] # 0, jobs[u][ordered[u]].st \in Moving, ~Raced(u)
  PROVE  Latest(u) = ordered[u]
<1>1. ordered[u] \in ActiveJobs(u)
  BY DEF RedirectInv, ActiveJobs, IsActive, ActiveSt
<1>2. /\ Latest(u) \in ActiveJobs(u)
      /\ jobs[u][ordered[u]].born <= jobs[u][Latest(u)].born
  BY <1>1, LatestJob
<1>3. \A k \in ActiveJobs(u) : jobs[u][k].born \in Nat
  BY UnitJobs DEF ActiveJobs, Job
<1>4. Latest(u) # ordered[u] => jobs[u][Latest(u)].born < jobs[u][ordered[u]].born
  BY <1>2 DEF CurrentInv
<1> DEFINE a == jobs[u][ordered[u]].born
           b == jobs[u][Latest(u)].born
<1>5. a \in Nat /\ b \in Nat /\ a <= b
  BY <1>1, <1>2, <1>3
<1>6. ~(b < a)
  <2> HIDE DEF a, b
  <2>1. QED
    BY <1>5
<1>7. QED
  BY <1>4, <1>6

(* An officer's or a crew's step.                                           *)
LEMMA UnitKeepsRedirect ==
  ASSUME TypeOK, RankInv, RedirectInv, CurrentInv, NEW u \in Unit, Officer(u) \/ Crew(u)
  PROVE  RedirectInv' /\ CurrentInv'
<1>1. (Redirects(u) \/ Keeps(u)) /\ plan' = plan
  BY UnitOrders
<1>2. jobs' \in [Unit -> Seq(Job)]
  BY UnitShape DEF Redirects, Adds, Moves, Touches, TypeOK
<1>3. \A v \in Unit : Len(jobs'[v]) \in Nat /\ DOMAIN jobs'[v] = 1..Len(jobs'[v])
  BY <1>2, LenProperties
<1>4. CASE Redirects(u)
  <2> DEFINE n == Len(jobs[u])
  <2>1. /\ n \in Nat /\ DOMAIN jobs[u] = 1..n /\ DOMAIN jobs'[u] = 1..(n + 1)
        /\ Len(jobs'[u]) = n + 1
    BY <1>3, <1>4, UnitJobs DEF Redirects, Adds
  <2>2. ordered' = [ordered EXCEPT ![u] = n + 1] /\ pin' = pin \cup {u}
    BY <1>4, <2>1 DEF Redirects
  <2>3. /\ ordered'[u] = n + 1 /\ u \in pin'
        /\ \A v \in Unit \ {u} : /\ ordered'[v] = ordered[v] /\ jobs'[v] = jobs[v]
                                 /\ v \in pin' <=> v \in pin
    BY <1>4, <2>2 DEF Redirects, Adds, Touches, TypeOK
  <2>4. jobs'[u][n + 1].inc # NoIncident
    BY <1>4, DispatchAssumption DEF Redirects
  <2>5. plan # NoPlan => plan.job[u] \in Nat /\ plan.job[u] <= n /\ plan.now[u] \in Nat /\ plan.now[u] <= 3 * n + 2
    BY DEF RankInv, TypeOK, PlanType, PlanStart
  <2> HIDE DEF n
  <2>6. RedirectInv'
    <3>1. n + 1 \in 1..(n + 1) /\ (plan # NoPlan => plan.job[u] # n + 1)
      BY <2>1, <2>5
    <3>2. QED
      BY <1>1, <2>1, <2>3, <2>4, <3>1 DEF RedirectInv
  <2>7. CurrentInv'
    <3>1. \A k \in 1..(n + 1) : IsActive(jobs'[u][k]) => k = n + 1
      <4>1. \A k \in 1..n : ~IsActive(jobs'[u][k])
        BY <1>4, <2>1 DEF Redirects
      <4>2. QED
        BY <2>1, <4>1
    <3>2. \A k \in ActiveJobs(u)' : k = n + 1
      BY <2>1, <3>1 DEF ActiveJobs
    <3>3. plan # NoPlan => plan.now[u] < 3 * (n + 1)
      BY <2>1, <2>5
    <3>4. \A v \in Unit \ {u} : ActiveJobs(v)' = ActiveJobs(v)
      BY <2>3 DEF ActiveJobs
    <3> SUFFICES ASSUME NEW v \in Unit, ordered'[v] # 0, jobs'[v][ordered'[v]].st \in Moving,
                        ~Raced(v)'
                 PROVE  /\ \A k \in ActiveJobs(v)' : k # ordered'[v] =>
                             jobs'[v][k].born < jobs'[v][ordered'[v]].born
                        /\ plan' # NoPlan => \/ plan'.job[v] = ordered'[v]
                                             \/ plan'.now[v] < jobs'[v][ordered'[v]].born
      BY DEF CurrentInv
    <3>5. CASE v = u
      <4>1. jobs'[u][n + 1].born = 3 * (n + 1)
        BY <2>3, <3>5 DEF Raced
      <4>2. QED
        BY <1>1, <2>3, <3>2, <3>3, <3>5, <4>1
    <3>6. CASE v # u
      <4>1. ~Raced(v)
        BY <2>3, <3>6 DEF Raced
      <4>2. QED
        BY <1>1, <2>3, <3>4, <3>6, <4>1 DEF CurrentInv
    <3>7. QED
      BY <3>5, <3>6
  <2>8. QED
    BY <2>6, <2>7
<1>5. CASE Keeps(u)
  <2>1. \A v \in Unit : Grows(jobs[v], jobs'[v])
    BY <1>5, UnitJobs, GrowsRefl DEF Keeps, Adds, Moves, Touches
  <2>2. \A v \in Unit : /\ DOMAIN jobs[v] = 1..Len(jobs[v]) /\ Len(jobs[v]) \in Nat
                        /\ Len(jobs[v]) <= Len(jobs'[v])
                        /\ DOMAIN jobs[v] \subseteq DOMAIN jobs'[v]
    BY <1>3, <2>1, UnitJobs DEF Grows
  <2>3. RedirectInv'
    <3> SUFFICES ASSUME NEW v \in Unit, ordered'[v] # 0
                 PROVE  /\ v \in pin'
                        /\ ordered'[v] \in DOMAIN jobs'[v] /\ jobs'[v][ordered'[v]].inc # NoIncident
                        /\ plan' # NoPlan /\ plan'.job[v] = ordered'[v] =>
                             /\ plan'.was[v] # NoIncident
                             /\ plan'.phase = "write" => v \notin plan'.units
      BY DEF RedirectInv
    <3>1. ordered'[v] = ordered[v] /\ (v \in pin => v \in pin')
      BY <1>5 DEF Keeps
    <3>2. QED
      BY <1>1, <2>1, <2>2, <3>1 DEF RedirectInv, Grows
  <2>4. CurrentInv'
    <3> SUFFICES ASSUME NEW v \in Unit, ordered'[v] # 0, jobs'[v][ordered'[v]].st \in Moving,
                        ~Raced(v)'
                 PROVE  /\ \A k \in ActiveJobs(v)' : k # ordered'[v] =>
                             jobs'[v][k].born < jobs'[v][ordered'[v]].born
                        /\ plan' # NoPlan => \/ plan'.job[v] = ordered'[v]
                                             \/ plan'.now[v] < jobs'[v][ordered'[v]].born
      BY DEF CurrentInv
    <3>1. /\ ordered'[v] = ordered[v] /\ ordered[v] \in DOMAIN jobs[v]
          /\ jobs[v][ordered[v]].st \in Moving
          /\ jobs'[v][ordered[v]].born = jobs[v][ordered[v]].born
          /\ ~Raced(v)
      <4>1. ordered'[v] = ordered[v]
        BY <1>5 DEF Keeps
      <4>2. ordered[v] \in DOMAIN jobs[v]
        BY <4>1 DEF RedirectInv
      <4>3. /\ jobs[v][ordered[v]].st \in Moving
            /\ jobs'[v][ordered[v]].born = jobs[v][ordered[v]].born
        BY <2>1, <4>1, <4>2 DEF Grows
      <4>4. QED
        BY <4>1, <4>2, <4>3 DEF Raced
    <3>2. Latest(v) = ordered[v]
      BY <3>1, CurrentIsLatest
    <3>3. ~Adds(u) \/ v # u
      <4> SUFFICES ASSUME Adds(u), v = u PROVE FALSE
        OBVIOUS
      <4>1. Len(jobs'[u]) = Len(jobs[u]) + 1
        BY DEF Adds
      <4>2. ~Moves(u) /\ jobs' # jobs
        BY <2>2, <4>1 DEF Moves
      <4>3. IsActive(jobs'[u][ordered[u]])
        BY <3>1 DEF IsActive, ActiveSt
      <4>4. QED
        BY <1>5, <3>1, <3>2, <4>2, <4>3 DEF Keeps
    <3>4. jobs'[v] = jobs[v] \/ Len(jobs'[v]) = Len(jobs[v])
      BY <1>5, <3>3 DEF Keeps, Adds, Moves, Touches
    <3>5. DOMAIN jobs'[v] = DOMAIN jobs[v]
      BY <1>3, <2>2, <3>4
    <3>6. \A k \in ActiveJobs(v)' : k \in ActiveJobs(v) /\ jobs'[v][k].born = jobs[v][k].born
      BY <2>1, <3>5 DEF ActiveJobs, Grows
    <3>7. QED
      BY <1>1, <3>1, <3>6 DEF CurrentInv
  <2>5. QED
    BY <2>3, <2>4
<1>6. QED
  BY <1>1, <1>4, <1>5

(* A step of the re-planner.                                                *)
LEMMA PlannerKeepsRedirect ==
  ASSUME TypeOK, RankInv, RedirectInv, CurrentInv, Planner
  PROVE  RedirectInv' /\ CurrentInv'
<1> USE DEF orders
<1>1. CASE PlanRead
  <2>1. /\ jobs' = jobs /\ pin' = pin /\ ordered' = ordered
        /\ plan'.phase = "read"
        /\ \A u \in Unit : plan'.job[u] = Latest(u) /\ plan'.was[u] = IncidentOf(u, Latest(u))
    BY <1>1 DEF PlanRead
  <2>2. RedirectInv'
    <3>1. \A u \in Unit : ordered[u] # 0 /\ plan'.job[u] = ordered[u] => plan'.was[u] # NoIncident
      BY <2>1 DEF RedirectInv, IncidentOf
    <3>2. QED
      BY <2>1, <3>1 DEF RedirectInv
  <2>3. CurrentInv'
    <3>1. \A u \in Unit : ordered[u] # 0 /\ jobs[u][ordered[u]].st \in Moving /\ ~Raced(u) =>
            plan'.job[u] = ordered[u]
      BY <2>1, CurrentIsLatest
    <3>2. \A u \in Unit : ActiveJobs(u)' = ActiveJobs(u)
      BY <2>1 DEF ActiveJobs
    <3>3. QED
      BY <2>1, <3>1, <3>2 DEF CurrentInv, Raced
  <2>4. QED
    BY <2>2, <2>3
<1>2. CASE PlanSolve
  <2>1. PICK m \in Commitments :
          LET served == {m[u] : u \in Locked \cap DOMAIN m}
              free == (plan.units \ Locked) \ Held
          IN  \E a \in Allocations(free, plan.needs \ served) :
                plan' = [plan EXCEPT
                           !.phase = "write",
                           !.units = free,
                           !.to = [u \in Unit |-> IF u \in DOMAIN a THEN a[u][1] ELSE NoIncident]]
    BY <1>2 DEF PlanSolve
  <2>2. plan \in PlanType
    BY <1>2 DEF PlanSolve, TypeOK
  <2>3. /\ plan'.job = plan.job /\ plan'.was = plan.was /\ plan'.now = plan.now
        /\ plan'.units = (plan.units \ Locked) \ Held
    BY <2>1, <2>2 DEF PlanType
  <2>4. plan # NoPlan /\ jobs' = jobs /\ pin' = pin /\ ordered' = ordered
    BY <1>2 DEF PlanSolve
  <2>5. RedirectInv'
    <3>1. \A u \in plan.units : u \in pin /\ plan.was[u] # NoIncident => u \notin plan'.units
      BY <2>3 DEF Locked, Committed
    <3>2. plan'.units \subseteq plan.units
      BY <2>3
    <3>3. QED
      BY <2>3, <2>4, <3>1, <3>2 DEF RedirectInv
  <2>6. CurrentInv'
    <3>1. \A u \in Unit : ActiveJobs(u)' = ActiveJobs(u)
      BY <2>4 DEF ActiveJobs
    <3>2. QED
      BY <2>3, <2>4, <3>1 DEF CurrentInv, Raced
  <2>7. QED
    BY <2>5, <2>6
<1>3. CASE PlanCommit
  <2>1. /\ plan # NoPlan /\ plan.phase = "write" /\ plan' = NoPlan
        /\ pin' = pin /\ ordered' = ordered
        /\ jobs' = [u \in Unit |-> Written(u)]
    BY <1>3 DEF PlanCommit
  <2>2. \A u \in Unit : /\ jobs'[u] = Written(u) /\ Grows(jobs[u], jobs'[u])
                        /\ jobs'[u] \in Seq(Job) /\ Len(jobs'[u]) \in Nat
                        /\ DOMAIN jobs'[u] = 1..Len(jobs'[u])
    BY <2>1, WrittenJobs, LenProperties
  <2>3. \A u \in Unit : /\ DOMAIN jobs[u] = 1..Len(jobs[u]) /\ Len(jobs[u]) \in Nat
                        /\ DOMAIN jobs[u] \subseteq DOMAIN jobs'[u]
    BY <2>2, UnitJobs DEF Grows
  <2>4. RedirectInv'
    BY <2>1, <2>2, <2>3 DEF RedirectInv, Grows
  <2>5. CurrentInv'
    <3> SUFFICES ASSUME NEW u \in Unit, ordered[u] # 0, jobs'[u][ordered[u]].st \in Moving,
                        ~Raced(u)', NEW k \in ActiveJobs(u)', k # ordered[u]
                 PROVE  jobs'[u][k].born < jobs'[u][ordered[u]].born
      BY <2>1 DEF CurrentInv
    <3>1. /\ ordered[u] \in DOMAIN jobs[u] /\ jobs[u][ordered[u]].st \in Moving
          /\ jobs'[u][ordered[u]].born = jobs[u][ordered[u]].born
          /\ ~Raced(u)
      BY <2>1, <2>2 DEF RedirectInv, Grows, Raced
    <3>2. k \in DOMAIN jobs'[u] /\ IsActive(jobs'[u][k])
      BY DEF ActiveJobs
    <3>3. CASE k \in DOMAIN jobs[u]
      <4>1. k \in ActiveJobs(u) /\ jobs'[u][k].born = jobs[u][k].born
        BY <2>2, <3>2, <3>3 DEF ActiveJobs, Grows
      <4>2. QED
        BY <3>1, <4>1 DEF CurrentInv
    <3>4. CASE k \notin DOMAIN jobs[u]
      <4> DEFINE n == Len(jobs[u])
                 w == Written(u)
      <4>1. \/ Len(w) = n
            \/ /\ Len(w) = n + 1 /\ Changed(u)
               /\ w[n + 1] = [inc |-> plan.to[u], st |-> "proposed", born |-> plan.now[u], task |-> "open"]
        BY <2>1, WrittenJobs
      <4>2. /\ n \in Nat /\ k \in 1..Len(w) /\ k \notin 1..n
        BY <2>2, <2>3, <3>2, <3>4
      <4>3. jobs'[u] = w
        BY <2>2
      <4> HIDE DEF n, w
      <4>4. k = n + 1 /\ Changed(u)
            /\ w[n + 1] = [inc |-> plan.to[u], st |-> "proposed", born |-> plan.now[u], task |-> "open"]
        BY <4>1, <4>2
      <4>5. jobs'[u][k].born = plan.now[u]
        BY <4>3, <4>4
      <4>6. plan.job[u] # ordered[u]
        BY <2>1, <4>4 DEF RedirectInv, Changed
      <4>7. plan.now[u] < jobs[u][ordered[u]].born
        BY <2>1, <3>1, <4>6 DEF CurrentInv
      <4>8. QED
        BY <3>1, <4>5, <4>7
    <3>5. QED
      BY <3>3, <3>4
  <2>6. QED
    BY <2>4, <2>5
<1>4. CASE PlanAbort
  <2>1. jobs' = jobs /\ pin' = pin /\ ordered' = ordered /\ plan' = NoPlan
    BY <1>4 DEF PlanAbort
  <2>2. \A u \in Unit : ActiveJobs(u)' = ActiveJobs(u)
    BY <2>1 DEF ActiveJobs
  <2>3. QED
    BY <2>1, <2>2 DEF RedirectInv, CurrentInv, Raced
<1>5. QED
  BY <1>1, <1>2, <1>3, <1>4 DEF Planner

LEMMA InitRedirect == Init => RedirectInv /\ CurrentInv
BY DEF Init, RedirectInv, CurrentInv

LEMMA NextRedirect ==
  TypeOK /\ RankInv /\ RedirectInv /\ CurrentInv /\ [Next]_vars => (RedirectInv /\ CurrentInv)'
<1> SUFFICES ASSUME TypeOK, RankInv, RedirectInv, CurrentInv, [Next]_vars
             PROVE  RedirectInv' /\ CurrentInv'
  OBVIOUS
<1> USE DEF orders
<1>1. CASE Planner
  BY <1>1, PlannerKeepsRedirect
<1>2. CASE UNCHANGED vars \/ \E i \in Incident : Report(i)
  <2>1. jobs' = jobs /\ pin' = pin /\ ordered' = ordered /\ plan' = plan
    BY <1>2 DEF vars, Report
  <2>2. \A u \in Unit : ActiveJobs(u)' = ActiveJobs(u)
    BY <2>1 DEF ActiveJobs
  <2>3. QED
    BY <2>1, <2>2 DEF RedirectInv, CurrentInv, Raced
<1>3. ASSUME NEW u \in Unit, Officer(u) \/ Crew(u) PROVE RedirectInv' /\ CurrentInv'
  BY <1>3, UnitKeepsRedirect
<1>4. QED
  BY <1>1, <1>2, <1>3 DEF Next

LEMMA RedirectAlways == Spec => [](TypeOK /\ RankInv /\ RedirectInv /\ CurrentInv)
BY InitType, NextType, InitRedirect, NextRedirect, PTL DEF Spec

(* However many re-plans overlap it, no plan takes away the job an officer's *)
(* redirect pinned.                                                         *)
THEOREM RedirectStandsSafe == Spec => RedirectStands
<1>1. TypeOK /\ RankInv /\ RedirectInv /\ CurrentInv /\ [Next]_vars =>
        [PlanCommit => \A u \in Unit :
           ordered[u] # 0 /\ IsActive(jobs[u][ordered[u]]) => IsActive(jobs'[u][ordered[u]])]_vars
  <2> SUFFICES ASSUME TypeOK, RankInv, RedirectInv, PlanCommit, NEW u \in Unit,
                      ordered[u] # 0, IsActive(jobs[u][ordered[u]])
               PROVE  IsActive(jobs'[u][ordered[u]])
    OBVIOUS
  <2>1. plan # NoPlan /\ plan.phase = "write" /\ jobs'[u] = Written(u)
    BY DEF PlanCommit
  <2>2. ordered[u] \in DOMAIN jobs[u]
    BY DEF RedirectInv
  <2>3. Written(u)[ordered[u]] # jobs[u][ordered[u]] => plan.job[u] = ordered[u] /\ Changed(u)
    BY <2>1, <2>2, WrittenJobs
  <2>4. Written(u)[ordered[u]] = jobs[u][ordered[u]]
    BY <2>1, <2>3 DEF RedirectInv, Changed
  <2>5. QED
    BY <2>1, <2>4
<1>2. QED
  BY <1>1, RedirectAlways, PTL DEF Spec, RedirectStands

(* While a crew drives to where an officer sent it, that is the job every    *)
(* reader takes for its current one, unless a re-plan began while the        *)
(* redirect was being written.                                              *)
THEOREM RedirectIsCurrentSafe == Spec => []RedirectIsCurrent
<1>1. TypeOK /\ RankInv /\ RedirectInv /\ CurrentInv => RedirectIsCurrent
  BY CurrentIsLatest DEF RedirectIsCurrent
<1>2. QED
  BY <1>1, RedirectAlways, PTL
----------------------------------------------------------------------------
(* A re-plan during whose solve nobody else commits.                        *)
Alone == Overlap = FALSE

LEMMA SnapshotSolved ==
  ASSUME TypeOK, SnapshotInv, PlanSolve
  PROVE  SnapshotInv'
<1> USE DEF orders
<1>1. /\ jobs' = jobs /\ pin' = pin /\ hold' = hold /\ forbid' = forbid
      /\ plan \in PlanType /\ plan # NoPlan
  BY DEF PlanSolve, TypeOK
<1>2. PICK m \in Commitments :
        LET served == {m[u] : u \in Locked \cap DOMAIN m}
            free == (plan.units \ Locked) \ Held
        IN  \E a \in Allocations(free, plan.needs \ served) :
              plan' = [plan EXCEPT
                         !.phase = "write",
                         !.units = free,
                         !.to = [u \in Unit |-> IF u \in DOMAIN a THEN a[u][1] ELSE NoIncident]]
  BY Zenon DEF PlanSolve
<1> DEFINE served == {m[u] : u \in Locked \cap DOMAIN m}
           free == (plan.units \ Locked) \ Held
<1>3. PICK a \in Allocations(free, plan.needs \ served) :
        plan' = [plan EXCEPT
                   !.phase = "write",
                   !.units = free,
                   !.to = [u \in Unit |-> IF u \in DOMAIN a THEN a[u][1] ELSE NoIncident]]
  BY <1>2
<1>4. /\ plan'.job = plan.job /\ plan'.was = plan.was /\ plan'.site = plan.site
      /\ plan'.units = free
      /\ \A u \in Unit : plan'.to[u] = IF u \in DOMAIN a THEN a[u][1] ELSE NoIncident
  BY <1>1, <1>3 DEF PlanType
<1>5. \A u \in DOMAIN a : <<u, a[u][1]>> \notin forbid
  BY DEF Allocations
<1>6. \A u \in Unit : Latest(u)' = Latest(u) /\ IncidentOf(u, Latest(u))' = IncidentOf(u, Latest(u))
  BY <1>1 DEF Latest, LatestOf, ActiveJobs, IncidentOf
<1>7. \A u \in plan'.units :
        /\ plan.was[u] # NoIncident => u \notin plan.site \cup pin
        /\ plan.was[u] = NoIncident => u \notin hold
        /\ plan'.to[u] # NoIncident => <<u, plan'.to[u]>> \notin forbid
  <2>1. \A u \in free : /\ plan.was[u] # NoIncident => u \notin plan.site \cup pin
                        /\ plan.was[u] = NoIncident => u \notin hold
    BY DEF Locked, Committed, Held
  <2>2. free \subseteq Unit
    BY <1>1 DEF PlanType
  <2>3. QED
    BY <1>4, <1>5, <2>1, <2>2
<1>8. QED
  BY <1>1, <1>4, <1>6, <1>7 DEF SnapshotInv

LEMMA NextSnapshot ==
  Alone /\ TypeOK /\ RankInv /\ SnapshotInv /\ [Next]_vars => SnapshotInv'
<1> SUFFICES ASSUME Alone, TypeOK, RankInv, SnapshotInv, [Next]_vars PROVE SnapshotInv'
  OBVIOUS
<1> USE DEF orders
<1>1. CASE PlanRead
  <2>1. /\ jobs' = jobs /\ plan'.phase = "read"
        /\ plan'.site = {u \in Unit : Latest(u) # 0 /\ jobs[u][Latest(u)].st = "on_site"}
        /\ \A u \in Unit : plan'.job[u] = Latest(u) /\ plan'.was[u] = IncidentOf(u, Latest(u))
    BY <1>1 DEF PlanRead
  <2>2. \A u \in Unit : Latest(u)' = Latest(u) /\ IncidentOf(u, Latest(u))' = IncidentOf(u, Latest(u))
    BY <2>1 DEF Latest, LatestOf, ActiveJobs, IncidentOf
  <2>3. QED
    BY <2>1, <2>2 DEF SnapshotInv
<1>2. CASE PlanSolve
  BY <1>2, SnapshotSolved
<1>3. CASE PlanCommit \/ PlanAbort
  BY <1>3 DEF PlanCommit, PlanAbort, SnapshotInv
<1>4. ASSUME NEW i \in Incident, Report(i) PROVE SnapshotInv'
  BY <1>4 DEF Report, MayCommit, Alone, SnapshotInv
<1>5. ASSUME NEW u \in Unit, Officer(u) \/ Crew(u) PROVE SnapshotInv'
  <2>1. plan' = plan
    BY <1>5, UnitOrders
  <2>2. MayCommit
    BY <1>5 DEF Officer, Crew, Cancel, AskCancel, Preposition, HoldUnit, PinUnit, ApproveCancel,
                Reallocate, Expire, Drive, FinishWork, Offline, BackInService, TaskComplete,
                Arrive, StagedArrive, TaskPatch
  <2>3. QED
    BY <2>1, <2>2 DEF MayCommit, Alone, SnapshotInv
<1>6. CASE UNCHANGED vars
  <2>1. /\ jobs' = jobs /\ pin' = pin /\ hold' = hold /\ forbid' = forbid /\ plan' = plan
    BY <1>6 DEF vars
  <2>2. \A u \in Unit : Latest(u)' = Latest(u) /\ IncidentOf(u, Latest(u))' = IncidentOf(u, Latest(u))
    BY <2>1 DEF Latest, LatestOf, ActiveJobs, IncidentOf
  <2>3. QED
    BY <2>1, <2>2 DEF SnapshotInv
<1>7. QED
  BY <1>1, <1>2, <1>3, <1>4, <1>5, <1>6 DEF Next, Planner

LEMMA SnapshotAlways ==
  ASSUME Alone
  PROVE  Spec => [](TypeOK /\ RankInv /\ SnapshotInv)
<1>1. Init => SnapshotInv
  BY DEF Init, SnapshotInv
<1>2. TypeOK /\ RankInv /\ SnapshotInv /\ [Next]_vars => SnapshotInv'
  BY NextSnapshot
<1>3. QED
  BY <1>1, <1>2, InitType, NextType, PTL DEF Spec

(* A plan that writes after a quiet solve leaves a pinned unit its job,      *)
(* gives a held one none, and sends nobody where an officer forbade it.     *)
THEOREM OrdersRespectedSafe == Alone /\ Spec => OrdersRespected
<1> SUFFICES ASSUME Alone PROVE Spec => OrdersRespected
  OBVIOUS
<1> DEFINE Obeys ==
      \A u \in Unit :
        /\ u \in pin /\ Latest(u) # 0 /\ jobs[u][Latest(u)].inc # NoIncident => jobs'[u] = jobs[u]
        /\ u \in hold /\ Latest(u) = 0 => jobs'[u] = jobs[u]
        /\ Len(jobs'[u]) > Len(jobs[u]) => <<u, jobs'[u][Len(jobs'[u])].inc>> \notin forbid
<1>1. TypeOK /\ RankInv /\ SnapshotInv /\ [Next]_vars => [PlanCommit => Obeys]_vars
  <2> SUFFICES ASSUME TypeOK, RankInv, SnapshotInv, PlanCommit, NEW u \in Unit
               PROVE  /\ u \in pin /\ Latest(u) # 0 /\ jobs[u][Latest(u)].inc # NoIncident =>
                           jobs'[u] = jobs[u]
                      /\ u \in hold /\ Latest(u) = 0 => jobs'[u] = jobs[u]
                      /\ Len(jobs'[u]) > Len(jobs[u]) =>
                           <<u, jobs'[u][Len(jobs'[u])].inc>> \notin forbid
    OBVIOUS
  <2>1. plan # NoPlan /\ plan.phase = "write" /\ jobs'[u] = Written(u)
    BY DEF PlanCommit
  <2>2. ~Changed(u) => jobs'[u] = jobs[u]
    BY <2>1, WrittenJobs
  <2>3. u \in pin /\ Latest(u) # 0 /\ jobs[u][Latest(u)].inc # NoIncident => ~Changed(u)
    BY <2>1 DEF SnapshotInv, IncidentOf, Changed
  <2>4. u \in hold /\ Latest(u) = 0 => ~Changed(u)
    BY <2>1 DEF SnapshotInv, IncidentOf, Changed
  <2>5. ASSUME Len(jobs'[u]) > Len(jobs[u])
        PROVE  <<u, jobs'[u][Len(jobs'[u])].inc>> \notin forbid
    <3> DEFINE n == Len(jobs[u])
               w == Written(u)
    <3>1. \/ Len(w) = n
          \/ /\ Len(w) = n + 1 /\ Changed(u) /\ plan.to[u] # NoIncident
             /\ w[n + 1] = [inc |-> plan.to[u], st |-> "proposed", born |-> plan.now[u], task |-> "open"]
      BY <2>1, WrittenJobs
    <3>2. jobs'[u] = w /\ n \in Nat /\ Len(w) > n
      BY <2>1, <2>5, UnitJobs
    <3> HIDE DEF n, w
    <3>3. /\ Len(w) = n + 1 /\ Changed(u) /\ plan.to[u] # NoIncident
          /\ w[n + 1] = [inc |-> plan.to[u], st |-> "proposed", born |-> plan.now[u], task |-> "open"]
      BY <3>1, <3>2
    <3>4. jobs'[u][Len(jobs'[u])].inc = plan.to[u]
      BY <3>2, <3>3
    <3>5. <<u, plan.to[u]>> \notin forbid
      BY <2>1, <3>3 DEF SnapshotInv, Changed
    <3>6. QED
      BY <3>4, <3>5
  <2>6. QED
    BY <2>2, <2>3, <2>4, <2>5
<1>2. QED
  BY <1>1, SnapshotAlways, PTL DEF Spec, OrdersRespected, Obeys
----------------------------------------------------------------------------
(* One job at a time.                                                       *)

(* Nothing is staged, and nobody returns a unit to the pool by hand.        *)
NoStaging == Ops \cap {"stage", "base", "preposition"} = {}
NoPoolByHand == Ops \cap {"back", "task_complete"} = {}

(* SingleInv of one unit, with its jobs and its status.                     *)
Single(js, r) ==
  /\ \A k \in DOMAIN js : js[k].inc # NoIncident
  /\ \A k, l \in DOMAIN js : IsActive(js[k]) /\ IsActive(js[l]) => k = l
  /\ \A k \in DOMAIN js : IsActive(js[k]) => r # "available"

LEMMA SingleEach == SingleInv <=> \A u \in Unit : Single(jobs[u], res[u])
BY DEF SingleInv, Single, ActiveJobs

LEMMA StillSingle ==
  ASSUME NEW js \in Seq(Job), NEW js2 \in Seq(Job), NEW r, NEW r2,
         Grows(js, js2), Len(js2) = Len(js), Single(js, r),
         r2 # "available" \/ r2 = r \/ \A k \in DOMAIN js : ~IsActive(js2[k])
  PROVE  Single(js2, r2)
<1>1. DOMAIN js2 = DOMAIN js
  BY LenProperties
<1>2. QED
  BY <1>1 DEF Single, Grows

LEMMA NewSingle ==
  ASSUME NEW js \in Seq(Job), NEW js2 \in Seq(Job), NEW r, NEW r2,
         Grows(js, js2), Len(js2) = Len(js) + 1, Single(js, r),
         \A k \in DOMAIN js : ~IsActive(js2[k]),
         js2[Len(js) + 1].inc # NoIncident, r2 # "available"
  PROVE  Single(js2, r2)
<1> DEFINE n == Len(js)
<1>1. n \in Nat /\ DOMAIN js = 1..n /\ DOMAIN js2 = 1..(n + 1)
  BY LenProperties
<1>2. js2[n + 1].inc # NoIncident
  OBVIOUS
<1> HIDE DEF n
<1>3. \A k \in DOMAIN js2 : k \in DOMAIN js \/ k = n + 1
  BY <1>1
<1>4. QED
  BY <1>2, <1>3 DEF Single, Grows

LEMMA RedirectsSingle ==
  ASSUME TypeOK, SingleInv, NEW u \in Unit, Redirects(u), res' = [res EXCEPT ![u] = "en_route"]
  PROVE  SingleInv'
<1>1. /\ jobs[u] \in Seq(Job) /\ jobs'[u] \in Seq(Job) /\ Grows(jobs[u], jobs'[u])
      /\ Len(jobs'[u]) = Len(jobs[u]) + 1
      /\ \A k \in DOMAIN jobs[u] : ~IsActive(jobs'[u][k])
      /\ jobs'[u][Len(jobs[u]) + 1].inc # NoIncident
      /\ \A v \in Unit \ {u} : jobs'[v] = jobs[v]
  BY UnitJobs, DispatchAssumption DEF Redirects, Adds, Touches
<1>2. res'[u] = "en_route" /\ \A v \in Unit \ {u} : res'[v] = res[v]
  BY DEF TypeOK
<1>3. \A v \in Unit : Single(jobs[v], res[v])
  BY SingleEach
<1>4. Single(jobs'[u], "en_route")
  BY <1>1, <1>3, NewSingle
<1>5. \A v \in Unit : Single(jobs'[v], res'[v])
  BY <1>1, <1>2, <1>3, <1>4
<1>6. QED
  BY <1>5 DEF SingleInv, Single, ActiveJobs

LEMMA MovesSingle ==
  ASSUME TypeOK, SingleInv, NEW u \in Unit, Moves(u) \/ jobs' = jobs,
         NEW r, res' = [res EXCEPT ![u] = r],
         r # "available" \/ r = res[u] \/ \A k \in DOMAIN jobs[u] : ~IsActive(jobs'[u][k])
  PROVE  SingleInv'
<1>1. /\ jobs[u] \in Seq(Job) /\ jobs'[u] \in Seq(Job) /\ Grows(jobs[u], jobs'[u])
      /\ Len(jobs'[u]) = Len(jobs[u])
      /\ \A v \in Unit \ {u} : jobs'[v] = jobs[v]
  BY UnitJobs, GrowsRefl DEF Moves, Touches
<1>2. res'[u] = r /\ \A v \in Unit \ {u} : res'[v] = res[v]
  BY DEF TypeOK
<1>3. \A v \in Unit : Single(jobs[v], res[v])
  BY SingleEach
<1>4. Single(jobs'[u], r)
  BY <1>1, <1>3, StillSingle
<1>5. \A v \in Unit : Single(jobs'[v], res'[v])
  BY <1>1, <1>2, <1>3, <1>4
<1>6. QED
  BY <1>5 DEF SingleInv, Single, ActiveJobs

LEMMA CancelSingle ==
  ASSUME NoStaging, TypeOK, RankInv, SingleInv, NEW u \in Unit, NEW instead \in Insteads,
         CancelJob(u, instead)
  PROVE  SingleInv'
<1>1. instead[1] = "redirect" => Redirects(u)
  BY CancelShape
<1>2. CASE instead[1] \in {"replan", "hold"}
  <2>1. jobs' = [jobs EXCEPT ![u] = Stopped(u)] /\ res' = [res EXCEPT ![u] = "available"]
        /\ Latest(u) # 0
    BY <1>2 DEF CancelJob
  <2>2. /\ Stopped(u) \in Seq(Job) /\ Len(Stopped(u)) = Len(jobs[u]) /\ Grows(jobs[u], Stopped(u))
        /\ Latest(u) \in DOMAIN jobs[u] /\ ~IsActive(Stopped(u)[Latest(u)])
        /\ \A k \in DOMAIN jobs[u] : k # Latest(u) => Stopped(u)[k] = jobs[u][k]
    BY <2>1, StoppedJobs
  <2>3. Touches(u) /\ jobs'[u] = Stopped(u)
    BY <2>1, <2>2, TouchOne
  <2>4. ActiveJobs(u) # {} /\ Latest(u) \in ActiveJobs(u)
    BY <2>1, LatestJob
  <2>5. \A k \in DOMAIN jobs[u] : IsActive(jobs[u][k]) => k = Latest(u)
    BY <2>4 DEF SingleInv, ActiveJobs
  <2>6. \A k \in DOMAIN jobs[u] : ~IsActive(jobs'[u][k])
    BY <2>2, <2>3, <2>5
  <2>7. Moves(u)
    BY <2>2, <2>3 DEF Moves
  <2>8. QED
    BY <2>1, <2>6, <2>7, MovesSingle
<1>3. CASE instead[1] = "redirect"
  <2>1. res' = [res EXCEPT ![u] = "en_route"]
    BY <1>3 DEF CancelJob
  <2>2. QED
    BY <1>1, <1>3, <2>1, RedirectsSingle
<1>4. QED
  BY <1>2, <1>3 DEF NoStaging, Insteads

LEMMA CrewSingle ==
  ASSUME NoStaging, NoPoolByHand, TypeOK, RankInv, SingleInv, NEW u \in Unit, Crew(u)
  PROVE  SingleInv'
<1>1. Moves(u) \/ jobs' = jobs
  BY CrewShape
<1>2. \A k, l \in DOMAIN jobs[u] : IsActive(jobs[u][k]) /\ IsActive(jobs[u][l]) => k = l
  BY DEF SingleInv, ActiveJobs
<1>3. CASE Drive(u)
  BY <1>1, <1>3, MovesSingle DEF Drive
<1>4. CASE FinishWork(u)
  <2> DEFINE k == LatestOf(u, OnSite(u))
  <2>1. k \in OnSite(u)
    <3>1. OnSite(u) \in SUBSET (DOMAIN jobs[u]) /\ OnSite(u) # {}
      BY <1>4 DEF OnSite, FinishWork
    <3>2. QED
      BY <3>1, NewestOf
  <2>2. jobs' = [jobs EXCEPT ![u][k].st = "complete"] /\ res' = [res EXCEPT ![u] = "available"]
    BY <1>4 DEF FinishWork
  <2> HIDE DEF k
  <2>3. k \in DOMAIN jobs[u] /\ IsActive(jobs[u][k]) /\ jobs[u][k] \in Job
    BY <2>1, UnitJobs DEF OnSite, IsActive, ActiveSt
  <2>4. /\ jobs'[u][k].st = "complete"
        /\ \A l \in DOMAIN jobs[u] : l # k => jobs'[u][l] = jobs[u][l]
    BY <2>2, <2>3 DEF TypeOK, Job
  <2>5. \A l \in DOMAIN jobs[u] : ~IsActive(jobs'[u][l])
    BY <1>2, <2>3, <2>4 DEF IsActive, ActiveSt, Moving
  <2>6. QED
    BY <1>1, <2>2, <2>5, MovesSingle
<1>5. CASE Offline(u)
  BY <1>1, <1>5, MovesSingle DEF Offline
<1>6. CASE BackInService(u) \/ TaskComplete(u)
  BY <1>6 DEF BackInService, TaskComplete, NoPoolByHand
<1>7. ASSUME NEW k \in DOMAIN jobs[u], Arrive(u, k) PROVE SingleInv'
  BY <1>1, <1>7, MovesSingle DEF Arrive
<1>8. ASSUME NEW k \in DOMAIN jobs[u], StagedArrive(u, k) PROVE SingleInv'
  BY <1>8 DEF StagedArrive, SingleInv
<1>9. ASSUME NEW k \in DOMAIN jobs[u], TaskPatch(u, k) PROVE SingleInv'
  <2>1. res' = [res EXCEPT ![u] = res[u]]
    BY <1>9 DEF TaskPatch, TypeOK
  <2>2. QED
    BY <1>1, <2>1, MovesSingle
<1>10. QED
  BY <1>3, <1>4, <1>5, <1>6, <1>7, <1>8, <1>9 DEF Crew

LEMMA OfficerSingle ==
  ASSUME NoStaging, TypeOK, RankInv, SingleInv, NEW u \in Unit, Officer(u)
  PROVE  SingleInv'
<1> USE DEF orders
<1>1. ASSUME jobs' = jobs, res' = res PROVE SingleInv'
  BY <1>1 DEF SingleInv, ActiveJobs
<1>2. ASSUME NEW instead \in Insteads, Cancel(u, instead) PROVE SingleInv'
  BY <1>2, CancelSingle DEF Cancel
<1>3. ASSUME ApproveCancel(u) PROVE SingleInv'
  <2>1. <<"replan", NoIncident>> \in Insteads
    BY DEF Insteads
  <2>2. QED
    BY <1>3, <2>1, CancelSingle DEF ApproveCancel
<1>4. CASE AskCancel(u) \/ HoldUnit(u) \/ PinUnit(u)
  BY <1>1, <1>4 DEF AskCancel, HoldUnit, PinUnit
<1>5. CASE Preposition(u)
  BY <1>5 DEF Preposition, NoStaging
<1>6. ASSUME NEW i \in Incident, Reallocate(u, i) PROVE SingleInv'
  BY <1>6, ReallocateShape, RedirectsSingle DEF Reallocate
<1>7. ASSUME NEW i \in Incident, Expire(u, i) PROVE SingleInv'
  BY <1>1, <1>7 DEF Expire
<1>8. QED
  BY <1>2, <1>3, <1>4, <1>5, <1>6, <1>7 DEF Officer

(* A plan that saw the fleet as it still is gives a job to a unit that has   *)
(* none, or ends the one it has.                                            *)
LEMMA CommitSingle ==
  ASSUME TypeOK, RankInv, SnapshotInv, SingleInv, PlanCommit
  PROVE  SingleInv'
<1>1. /\ plan # NoPlan /\ plan \in PlanType
      /\ jobs' = [u \in Unit |-> Written(u)] /\ res' = [u \in Unit |-> StatusAfter(u)]
  BY DEF PlanCommit, TypeOK
<1>2. ASSUME NEW u \in Unit PROVE Single(jobs'[u], res'[u])
  <2> DEFINE n == Len(jobs[u])
             w == Written(u)
  <2>1. /\ w \in Seq(Job) /\ Grows(jobs[u], w) /\ jobs[u] \in Seq(Job)
        /\ n \in Nat /\ DOMAIN jobs[u] = 1..n
        /\ jobs'[u] = w /\ res'[u] = StatusAfter(u)
    BY <1>1, WrittenJobs, UnitJobs
  <2>2. /\ Single(jobs[u], res[u])
        /\ plan.job[u] = Latest(u) /\ plan.was[u] = IncidentOf(u, Latest(u))
    BY <1>1, SingleEach DEF SnapshotInv
  <2>3. CASE ~Changed(u)
    BY <1>1, <2>1, <2>2, <2>3, WrittenJobs DEF StatusAfter
  <2>4. CASE Changed(u)
    <3>1. \A k \in DOMAIN jobs[u] : ~IsActive(w[k])
      <4>1. CASE Latest(u) = 0
        <5>1. ActiveJobs(u) = {}
          BY <4>1, LatestJob, <2>1 DEF ActiveJobs
        <5>2. QED
          BY <2>1, <5>1 DEF ActiveJobs, Grows
      <4>2. CASE Latest(u) # 0
        <5>1. Latest(u) \in DOMAIN jobs[u] /\ Latest(u) \in ActiveJobs(u)
          BY <4>2, LatestJob
        <5>2. plan.was[u] # NoIncident
          BY <2>2, <4>2, <5>1 DEF IncidentOf, Single
        <5>3. ~IsActive(w[Latest(u)])
          BY <1>1, <2>2, <2>4, <5>1, <5>2, WrittenJobs
        <5>4. \A k \in DOMAIN jobs[u] : IsActive(jobs[u][k]) => k = Latest(u)
          BY <2>2, <5>1 DEF Single, ActiveJobs
        <5>5. QED
          BY <2>1, <5>3, <5>4 DEF Grows
      <4>3. QED
        BY <4>1, <4>2
    <3>2. \/ Len(w) = n
          \/ /\ Len(w) = n + 1 /\ plan.to[u] # NoIncident
             /\ w[n + 1] = [inc |-> plan.to[u], st |-> "proposed", born |-> plan.now[u], task |-> "open"]
      BY <1>1, WrittenJobs
    <3>3. plan.to[u] # NoIncident => StatusAfter(u) # "available"
      <4>1. plan.was[u] # NoIncident => res[u] # "available"
        <5>1. plan.was[u] # NoIncident => Latest(u) # 0
          BY <2>2 DEF IncidentOf
        <5>2. Latest(u) # 0 => Latest(u) \in ActiveJobs(u)
          BY LatestJob
        <5>3. QED
          BY <2>2, <5>1, <5>2 DEF Single, ActiveJobs
      <4>2. QED
        BY <2>4, <4>1 DEF StatusAfter
    <3> HIDE DEF w
    <3>4. CASE Len(w) = n
      BY <2>1, <2>2, <3>1, <3>4, StillSingle
    <3>5. CASE Len(w) = n + 1 /\ plan.to[u] # NoIncident
               /\ w[n + 1] = [inc |-> plan.to[u], st |-> "proposed", born |-> plan.now[u], task |-> "open"]
      <4>1. w[n + 1].inc # NoIncident
        <5> HIDE DEF n
        <5>1. QED
          BY <3>5
      <4>2. QED
        BY <2>1, <2>2, <3>1, <3>3, <3>5, <4>1, NewSingle
    <3>6. QED
      BY <3>2, <3>4, <3>5
  <2>5. QED
    BY <2>3, <2>4
<1>3. QED
  BY <1>2 DEF SingleInv, Single, ActiveJobs

LEMMA NextSingle ==
  NoStaging /\ NoPoolByHand /\ TypeOK /\ RankInv /\ SnapshotInv /\ SingleInv /\ [Next]_vars
    => SingleInv'
<1> SUFFICES ASSUME NoStaging, NoPoolByHand, TypeOK, RankInv, SnapshotInv, SingleInv, [Next]_vars
             PROVE  SingleInv'
  OBVIOUS
<1>1. ASSUME jobs' = jobs, res' = res PROVE SingleInv'
  BY <1>1 DEF SingleInv, ActiveJobs
<1>2. CASE PlanRead \/ PlanSolve \/ PlanAbort
  BY <1>1, <1>2 DEF PlanRead, PlanSolve, PlanAbort
<1>3. CASE PlanCommit
  BY <1>3, CommitSingle
<1>4. CASE UNCHANGED vars \/ \E i \in Incident : Report(i)
  BY <1>1, <1>4 DEF vars, Report
<1>5. ASSUME NEW u \in Unit, Officer(u) \/ Crew(u) PROVE SingleInv'
  BY <1>5, OfficerSingle, CrewSingle
<1>6. QED
  BY <1>2, <1>3, <1>4, <1>5 DEF Next, Planner

LEMMA SingleAlways == Alone /\ NoStaging /\ NoPoolByHand /\ Spec => [](TypeOK /\ SingleInv)
<1> SUFFICES ASSUME Alone, NoStaging, NoPoolByHand PROVE Spec => [](TypeOK /\ SingleInv)
  OBVIOUS
<1>1. Init => SingleInv
  BY EmptySeq DEF Init, SingleInv, ActiveJobs
<1>2. TypeOK /\ RankInv /\ SnapshotInv /\ SingleInv /\ [Next]_vars => SingleInv'
  BY NextSingle
<1>3. QED
  BY <1>1, <1>2, SnapshotAlways, PTL DEF Spec

(* Where no unit is staged, sent to base or put back in the pool by hand,    *)
(* and no solve is overlapped, no unit ever has two jobs ...                *)
THEOREM OneJobPerUnitSafe == Alone /\ NoStaging /\ NoPoolByHand /\ Spec => []OneJobPerUnit
<1>1. TypeOK /\ SingleInv => OneJobPerUnit
  <2> SUFFICES ASSUME SingleInv, NEW u \in Unit PROVE Cardinality(ActiveJobs(u)) <= 1
    BY DEF OneJobPerUnit
  <2>1. CASE ActiveJobs(u) = {}
    BY <2>1, FS_EmptySet
  <2>2. CASE ActiveJobs(u) # {}
    <3>1. PICK k \in ActiveJobs(u) : TRUE
      BY <2>2
    <3>2. ActiveJobs(u) = {k}
      BY <3>1 DEF SingleInv
    <3>3. QED
      BY <3>2, FS_Singleton
  <2>3. QED
    BY <2>1, <2>2
<1>2. QED
  BY <1>1, SingleAlways, PTL

(* ... and one that is shown as available has nothing to drive to.          *)
THEOREM AvailableIsFreeSafe == Alone /\ NoStaging /\ NoPoolByHand /\ Spec => []AvailableIsFree
<1>1. TypeOK /\ SingleInv => AvailableIsFree
  BY DEF SingleInv, AvailableIsFree
<1>2. QED
  BY <1>1, SingleAlways, PTL
----------------------------------------------------------------------------
(* What was cancelled leaves the phone.                                     *)

(* Officers and crews use only the orders that close the tasks of what they *)
(* cancel: no staging, and no task is opened again by hand.                 *)
ClosingOps == Ops \cap {"stage", "preposition", "task_patch"} = {}

OffPhone(js) == \A k \in DOMAIN js : js[k].st = "cancelled" => js[k].task # "open"

LEMMA AppendOff ==
  ASSUME NEW js \in Seq(Job), OffPhone(js), NEW j \in Job, j.st # "cancelled"
  PROVE  OffPhone(Append(js, j))
<1>1. Len(js) \in Nat /\ DOMAIN js = 1..Len(js)
  BY LenProperties
<1>2. /\ DOMAIN Append(js, j) = 1..(Len(js) + 1)
      /\ Append(js, j)[Len(js) + 1] = j
      /\ \A k \in 1..Len(js) : Append(js, j)[k] = js[k]
  <2>1. Append(js, j) \in Seq(Job) /\ Len(Append(js, j)) = Len(js) + 1
    BY AppendProperties
  <2>2. QED
    BY <2>1, AppendProperties, LenProperties
<1>3. \A k \in 1..(Len(js) + 1) : k \in 1..Len(js) \/ k = Len(js) + 1
  BY <1>1
<1>4. QED
  BY <1>1, <1>2, <1>3 DEF OffPhone

LEMMA SetOff ==
  ASSUME NEW js \in Seq(Job), OffPhone(js), NEW k \in DOMAIN js, NEW j \in Job,
         j.st = "cancelled" => j.task # "open"
  PROVE  OffPhone([js EXCEPT ![k] = j])
BY DEF OffPhone

LEMMA RedirectedOff ==
  ASSUME NEW js \in Seq(Job), OffPhone(js), NEW i \in Incident, NEW now \in Nat
  PROVE  OffPhone(Redirected(js, i, now))
<1> DEFINE f == [k \in DOMAIN js |-> IF IsActive(js[k]) THEN StoodDown(js[k]) ELSE js[k]]
           j == [inc |-> i, st |-> "en_route", born |-> now, task |-> "open"]
<1>1. \A k \in DOMAIN js : js[k] \in Job
  BY ElementOfSeq, LenProperties
<1>2. f \in [DOMAIN js -> Job]
  BY <1>1, EndedJob
<1>3. f \in Seq(Job) /\ Len(f) = Len(js) /\ DOMAIN f = DOMAIN js
  BY <1>2, MapJobs
<1>4. OffPhone(f)
  BY <1>1, <1>3, EndedJob DEF OffPhone
<1>5. j \in Job /\ j.st # "cancelled"
  BY DEF Job, Place, JobSt, ActiveSt, Moving
<1>6. Redirected(js, i, now) = Append(f, j)
  BY DEF Redirected
<1> HIDE DEF f, j
<1>7. QED
  BY <1>3, <1>4, <1>5, <1>6, AppendOff

LEMMA OneOff ==
  ASSUME TypeOK, CancelledLeavesPhone, NEW u \in Unit, NEW js, OffPhone(js),
         jobs' = [jobs EXCEPT ![u] = js]
  PROVE  CancelledLeavesPhone'
<1>1. jobs'[u] = js /\ \A v \in Unit \ {u} : jobs'[v] = jobs[v]
  BY DEF TypeOK
<1>2. \A v \in Unit : OffPhone(jobs[v])
  BY DEF CancelledLeavesPhone, OffPhone
<1>3. \A v \in Unit : OffPhone(jobs'[v])
  BY <1>1, <1>2
<1>4. QED
  BY <1>3 DEF CancelledLeavesPhone, OffPhone

LEMMA CancelOff ==
  ASSUME ClosingOps, TypeOK, RankInv, CancelledLeavesPhone, NEW u \in Unit,
         NEW instead \in Insteads, CancelJob(u, instead)
  PROVE  CancelledLeavesPhone'
<1>1. Latest(u) # 0
  BY DEF CancelJob
<1>2. /\ Stopped(u) \in Seq(Job) /\ Latest(u) \in DOMAIN jobs[u]
      /\ jobs[u][Latest(u)] \in Job /\ jobs[u] \in Seq(Job)
  BY <1>1, StoppedJobs, UnitJobs
<1>3. OffPhone(jobs[u])
  BY DEF CancelledLeavesPhone, OffPhone
<1>4. OffPhone(Stopped(u))
  <2> DEFINE j == StoodDown(jobs[u][Latest(u)])
  <2>1. j \in Job /\ j.task # "open"
    BY <1>2, EndedJob
  <2>2. Stopped(u) = [jobs[u] EXCEPT ![Latest(u)] = j]
    BY DEF Stopped
  <2> HIDE DEF j
  <2>3. QED
    BY <1>2, <1>3, <2>1, <2>2, SetOff
<1>5. CASE instead[1] \in {"replan", "hold"}
  <2>1. jobs' = [jobs EXCEPT ![u] = Stopped(u)]
    BY <1>5 DEF CancelJob
  <2>2. QED
    BY <1>4, <2>1, OneOff
<1>6. CASE instead[1] = "redirect"
  <2>1. PICK b \in Began(u) : jobs' = [jobs EXCEPT ![u] = Redirected(Stopped(u), instead[2], b)]
    BY <1>6 DEF CancelJob
  <2>2. instead[2] \in Incident /\ b \in Nat
    BY <1>6, BeganWhen DEF Insteads
  <2>3. OffPhone(Redirected(Stopped(u), instead[2], b))
    BY <1>2, <1>4, <2>2, RedirectedOff
  <2>4. QED
    BY <2>1, <2>3, OneOff
<1>7. CASE instead[1] = "base"
  <2>0. PICK b \in Began(u) :
          jobs' = [jobs EXCEPT ![u] = Append(Stopped(u), [inc |-> NoIncident, st |-> "en_route",
                                                          born |-> b, task |-> "none"])]
    BY <1>7 DEF CancelJob
  <2> DEFINE j == [inc |-> NoIncident, st |-> "en_route", born |-> b, task |-> "none"]
  <2>1. jobs' = [jobs EXCEPT ![u] = Append(Stopped(u), j)] /\ b \in Nat
    BY <2>0, BeganWhen
  <2>2. j \in Job /\ j.st # "cancelled"
    BY <1>2, <2>1 DEF Job, Place, JobSt, ActiveSt, Moving
  <2> HIDE DEF j
  <2>3. OffPhone(Append(Stopped(u), j))
    BY <1>2, <1>4, <2>2, AppendOff
  <2>4. QED
    BY <2>1, <2>3, OneOff
<1>8. QED
  BY <1>5, <1>6, <1>7 DEF ClosingOps, Insteads

LEMMA CrewOff ==
  ASSUME ClosingOps, TypeOK, RankInv, CancelledLeavesPhone, NEW u \in Unit, Crew(u)
  PROVE  CancelledLeavesPhone'
<1>1. \A k \in DOMAIN jobs[u] : jobs[u][k] \in Job
  BY UnitJobs
<1>2. OffPhone(jobs[u])
  BY DEF CancelledLeavesPhone, OffPhone
<1>3. CASE Drive(u) \/ Offline(u) \/ TaskComplete(u)
  <2>1. PICK js : /\ jobs' = [jobs EXCEPT ![u] = js] /\ DOMAIN js = DOMAIN jobs[u]
                  /\ \A k \in DOMAIN js : js[k].st # "cancelled" \/ js[k] = jobs[u][k]
    <3>1. CASE Drive(u)
      <4> DEFINE js == [k \in DOMAIN jobs[u] |->
                    IF jobs[u][k].st = "proposed" THEN [jobs[u][k] EXCEPT !.st = "en_route"] ELSE jobs[u][k]]
      <4>1. jobs' = [jobs EXCEPT ![u] = js]
        BY <3>1 DEF Drive
      <4>2. \A k \in DOMAIN js : js[k].st # "cancelled" \/ js[k] = jobs[u][k]
        BY <1>1 DEF Job
      <4>3. QED
        BY <4>1, <4>2
    <3>2. CASE Offline(u)
      <4> DEFINE js == [k \in DOMAIN jobs[u] |->
                    IF IsActive(jobs[u][k]) THEN [jobs[u][k] EXCEPT !.st = "complete"] ELSE jobs[u][k]]
      <4>1. jobs' = [jobs EXCEPT ![u] = js]
        BY <3>2 DEF Offline
      <4>2. \A k \in DOMAIN js : js[k].st # "cancelled" \/ js[k] = jobs[u][k]
        BY <1>1 DEF Job
      <4>3. QED
        BY <4>1, <4>2
    <3>3. CASE TaskComplete(u)
      <4> DEFINE js == [k \in DOMAIN jobs[u] |->
                    IF jobs[u][k].st \in {"en_route", "on_site"}
                    THEN [jobs[u][k] EXCEPT !.st = "complete"] ELSE jobs[u][k]]
      <4>1. jobs' = [jobs EXCEPT ![u] = js]
        BY <3>3 DEF TaskComplete
      <4>2. \A k \in DOMAIN js : js[k].st # "cancelled" \/ js[k] = jobs[u][k]
        BY <1>1 DEF Job
      <4>3. QED
        BY <4>1, <4>2
    <3>4. QED
      BY <1>3, <3>1, <3>2, <3>3
  <2>2. OffPhone(js)
    BY <1>2, <2>1 DEF OffPhone
  <2>3. QED
    BY <2>1, <2>2, OneOff
<1>4. ASSUME NEW k \in DOMAIN jobs[u], NEW s \in {"on_site", "complete"},
             jobs' = [jobs EXCEPT ![u][k].st = s]
      PROVE  CancelledLeavesPhone'
  <2> DEFINE j == [jobs[u][k] EXCEPT !.st = s]
  <2>1. jobs' = [jobs EXCEPT ![u] = [jobs[u] EXCEPT ![k] = j]]
    BY <1>4 DEF TypeOK
  <2>2. j \in Job /\ j.st # "cancelled"
    BY <1>1 DEF Job, JobSt, ActiveSt, Moving
  <2> HIDE DEF j
  <2>3. OffPhone([jobs[u] EXCEPT ![k] = j])
    BY <1>2, <2>2, SetOff, UnitJobs
  <2>4. QED
    BY <2>1, <2>3, OneOff
<1>5. CASE FinishWork(u)
  <2> DEFINE k == LatestOf(u, OnSite(u))
  <2>1. k \in DOMAIN jobs[u]
    <3>1. OnSite(u) \in SUBSET (DOMAIN jobs[u]) /\ OnSite(u) # {}
      BY <1>5 DEF OnSite, FinishWork
    <3>2. QED
      BY <3>1, NewestOf
  <2>2. jobs' = [jobs EXCEPT ![u][k].st = "complete"]
    BY <1>5 DEF FinishWork
  <2> HIDE DEF k
  <2>3. QED
    BY <1>4, <2>1, <2>2
<1>6. ASSUME NEW k \in DOMAIN jobs[u], Arrive(u, k) \/ StagedArrive(u, k)
      PROVE  CancelledLeavesPhone'
  BY <1>4, <1>6 DEF Arrive, StagedArrive
<1>7. CASE BackInService(u)
  BY <1>7 DEF BackInService, CancelledLeavesPhone
<1>8. ASSUME NEW k \in DOMAIN jobs[u], TaskPatch(u, k) PROVE CancelledLeavesPhone'
  BY <1>8 DEF TaskPatch, ClosingOps
<1>9. QED
  BY <1>3, <1>5, <1>6, <1>7, <1>8 DEF Crew

LEMMA NextOff ==
  ClosingOps /\ TypeOK /\ RankInv /\ CancelledLeavesPhone /\ [Next]_vars => CancelledLeavesPhone'
<1> SUFFICES ASSUME ClosingOps, TypeOK, RankInv, CancelledLeavesPhone, [Next]_vars
             PROVE  CancelledLeavesPhone'
  OBVIOUS
<1>1. ASSUME jobs' = jobs PROVE CancelledLeavesPhone'
  BY <1>1 DEF CancelledLeavesPhone
<1>2. CASE PlanRead \/ PlanSolve \/ PlanAbort
  BY <1>1, <1>2 DEF PlanRead, PlanSolve, PlanAbort
<1>3. CASE PlanCommit
  <2> SUFFICES ASSUME NEW u \in Unit PROVE OffPhone(jobs'[u])
    BY DEF CancelledLeavesPhone, OffPhone
  <2> DEFINE w == Written(u)
             n == Len(jobs[u])
  <2>1. plan # NoPlan /\ jobs'[u] = w
    BY <1>3 DEF PlanCommit
  <2>2. /\ w \in Seq(Job) /\ DOMAIN w = 1..Len(w) /\ n \in Nat /\ DOMAIN jobs[u] = 1..n
        /\ \A k \in DOMAIN jobs[u] : w[k] # jobs[u][k] => w[k].task # "open"
        /\ \/ Len(w) = n
           \/ /\ Len(w) = n + 1
              /\ w[n + 1] = [inc |-> plan.to[u], st |-> "proposed", born |-> plan.now[u], task |-> "open"]
    BY <2>1, WrittenJobs, UnitJobs, LenProperties
  <2>3. OffPhone(jobs[u])
    BY DEF CancelledLeavesPhone, OffPhone
  <2> HIDE DEF w, n
  <2>4. \A k \in DOMAIN w : k \in DOMAIN jobs[u] \/ (k = n + 1 /\ w[k].st # "cancelled")
    <3>1. CASE Len(w) = n
      BY <2>2, <3>1
    <3>2. CASE /\ Len(w) = n + 1
               /\ w[n + 1] = [inc |-> plan.to[u], st |-> "proposed", born |-> plan.now[u], task |-> "open"]
      <4>1. w[n + 1].st # "cancelled"
        BY <3>2
      <4>2. \A k \in 1..(n + 1) : k \in 1..n \/ k = n + 1
        BY <2>2
      <4>3. QED
        BY <2>2, <3>2, <4>1, <4>2
    <3>3. QED
      BY <2>2, <3>1, <3>2
  <2>5. QED
    BY <2>1, <2>2, <2>3, <2>4 DEF OffPhone
<1>4. CASE UNCHANGED vars \/ \E i \in Incident : Report(i)
  BY <1>1, <1>4 DEF vars, Report
<1>5. ASSUME NEW u \in Unit, Crew(u) PROVE CancelledLeavesPhone'
  BY <1>5, CrewOff
<1>6. ASSUME NEW u \in Unit, NEW instead \in Insteads, Cancel(u, instead)
      PROVE  CancelledLeavesPhone'
  BY <1>6, CancelOff DEF Cancel
<1>7. ASSUME NEW u \in Unit, ApproveCancel(u)
      PROVE  CancelledLeavesPhone'
  <2>1. <<"replan", NoIncident>> \in Insteads
    BY DEF Insteads
  <2>2. QED
    BY <1>7, <2>1, CancelOff DEF ApproveCancel
<1>8. ASSUME NEW u \in Unit, NEW i \in Incident, Reallocate(u, i) PROVE CancelledLeavesPhone'
  <2>1. PICK b \in Began(u) : jobs' = [jobs EXCEPT ![u] = Redirected(jobs[u], i, b)]
    BY <1>8 DEF Reallocate
  <2>2. OffPhone(jobs[u])
    BY DEF CancelledLeavesPhone, OffPhone
  <2>3. OffPhone(Redirected(jobs[u], i, b))
    BY <2>2, RedirectedOff, UnitJobs, BeganWhen
  <2>4. QED
    BY <2>1, <2>3, OneOff
<1>9. ASSUME NEW u \in Unit,
             \/ AskCancel(u) \/ HoldUnit(u) \/ PinUnit(u)
             \/ \E i \in Incident : Expire(u, i)
      PROVE  CancelledLeavesPhone'
  BY <1>1, <1>9 DEF AskCancel, HoldUnit, PinUnit, Expire
<1>10. ASSUME NEW u \in Unit, Preposition(u) PROVE CancelledLeavesPhone'
  BY <1>10 DEF Preposition, ClosingOps
<1>11. QED
  BY <1>2, <1>3, <1>4, <1>5, <1>6, <1>7, <1>8, <1>9, <1>10 DEF Next, Planner, Officer

(* A job the plan or an officer's redirect or cancel took away leaves the    *)
(* crew's phone, whatever a solve overlaps.                                 *)
THEOREM CancelledLeavesPhoneSafe == ClosingOps /\ Spec => []CancelledLeavesPhone
<1> SUFFICES ASSUME ClosingOps PROVE Spec => []CancelledLeavesPhone
  OBVIOUS
<1>1. Init => CancelledLeavesPhone
  BY EmptySeq DEF Init, CancelledLeavesPhone
<1>2. TypeOK /\ RankInv /\ CancelledLeavesPhone /\ [Next]_vars => CancelledLeavesPhone'
  BY NextOff
<1>3. QED
  BY <1>1, <1>2, InitType, NextType, PTL DEF Spec
=============================================================================
