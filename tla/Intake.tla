------------------------------- MODULE Intake -------------------------------
(***************************************************************************)
(* From a report to an incident (incidents/intake.py).  Handlers of several *)
(* requests run at once.  Each files its report in one transaction: it      *)
(* looks for an incident the report may belong to, scores how much the      *)
(* report is to be believed, links it or opens an incident, counts the      *)
(* incident's reports again and commits; a report nobody can classify is    *)
(* held for an officer, one that is not believed is kept without effect.    *)
(* The transactions are READ COMMITTED: each query sees what is committed   *)
(* when it is made, the rows a transaction wrote are seen when it commits.  *)
(***************************************************************************)
EXTENDS Integers, Sequences, FiniteSets, FiniteSetsExt, Functions

CONSTANTS
  Task,         \* handlers at work at once
  Form,         \* the reports that may be filed
  Phone,        \* the devices and accounts they come from
  Nobody,       \* the sender of a report with neither
  Spot,         \* places: what compatible reports describe at one may be one incident
  Category,     \* incident categories
  LifeSafety,   \* those of life and death
  Compatible,   \* pairs of them that may describe one event (_category_compatible)
  Base,         \* base severity of a category
  Capability,   \* what incidents need
  PoolSizes,    \* connections the process has
  MaxReports,   \* bound: reports stored, and being filed
  MaxVerdicts,  \* bound: verdicts officers record
  Scenarios     \* sets of what may happen besides: see scene

ReportIn ==
  [phone : Phone \cup {Nobody}, spot : Spot, cat : Category, crew : BOOLEAN, place : 0..10000,
   proof : 1500..9500, urgent : 0..4, model : 0..5, threat : BOOLEAN, injected : BOOLEAN,
   clear : BOOLEAN, needs : [Capability -> Nat]]
ASSUME IntakeAssumption ==
  /\ IsFiniteSet(Task) /\ Nobody \notin Phone
  /\ LifeSafety \subseteq Category /\ Compatible \subseteq Category \X Category /\ Base \in [Category -> 1..5]
  /\ PoolSizes \subseteq Nat \ {0} /\ MaxReports \in Nat /\ MaxVerdicts \in Nat
  /\ Form # {}
  /\ Form \subseteq ReportIn
  /\ Scenarios \subseteq SUBSET {"overlap", "ambiguous", "anonymous", "resolve", "officers", "fails", "verdicts"}

(* place and proof are the location and evidence components of the trust    *)
(* score in 1/10000: what is known of the ward, what a photo showed.        *)
(* urgent is the boost of the words, model the severity a model answers (0: *)
(* none does), threat its life_threat, injected what reads like an order to *)
(* a model, needs what the category and the words ask for; a form that is   *)
(* not clear cannot be classified, cat is what an officer will make of it.  *)
VARIABLES
  scene,      \* rigid: what may happen in this behaviour
  size,       \* rigid: connections of the pool
  free,       \* connections nobody holds
  reports,    \* committed rows of citizen_reports
  incidents,  \* committed rows of incidents, with their incident_needs
  closing,    \* incidents a crew closed whose reports are not confirmed yet
  verdicts,   \* verdicts recorded
  task        \* what each handler is doing
rigid == <<scene, size>>
rows == <<reports, incidents>>
vars == <<rigid, free, rows, closing, verdicts, task>>

Status == {"pending", "quarantined", "needs_corroboration", "auto_confirmed"}
Mark == {"low", "mid", "high"}     \* a trust score: below QUARANTINE, between, from AUTO_CONFIRM on
MaxIncidents == MaxReports * Cardinality(Task)    \* officers who read one report at once
Report == [form : Form, mark : Mark, status : Status, inc : 0..MaxIncidents,
           outcome : {"none", "confirmed", "false"}]
Incident == [spot : Spot, cat : Category, open : BOOLEAN, count : 1..MaxReports, sev : 1..5,
             needs : [Capability -> Nat], told : BOOLEAN]

(* of: the stored report an officer classifies, 0 for a new one; pick: the  *)
(* incident it is matched with, 0 for none; sure: without asking the model. *)
Work == [pc : {"idle", "find", "weigh", "seek", "open", "lock", "count", "commit"}, form : Form,
         of : 0..MaxReports, pick : 0..MaxIncidents, sure : BOOLEAN, mark : Mark, status : Status,
         count : 0..MaxReports, sev : 0..5]
Idle == [pc |-> "idle", form |-> CHOOSE f \in Form : TRUE, of |-> 0, pick |-> 0, sure |-> TRUE,
         mark |-> "low", status |-> "pending", count |-> 0, sev |-> 0]

Init ==
  /\ scene \in Scenarios
  /\ size \in PoolSizes /\ free = size
  /\ reports = <<>> /\ incidents = <<>>
  /\ closing = {} /\ verdicts = 0
  /\ task = [t \in Task |-> Idle]

Ids == DOMAIN reports
Filing == {t \in Task : task[t].pc \in {"find", "weigh", "count", "commit"} /\ task[t].of = 0}
Linked(i) == {r \in Ids : reports[r].inc = i}
From(p) == {r \in Ids : p # Nobody /\ reports[r].form.phone = p}
(* coalesce(reporter_id, device_id, id): reports of nobody are from as many. *)
Senders(s) == {<<reports[r].form.phone, IF reports[r].form.phone = Nobody THEN r ELSE 0>> : r \in s}

----------------------------------------------------------------------------
(* How much to believe a report (incidents/trust.py, in 1/10000).           *)

Credibility(f) == IF f.crew THEN 9500 ELSE 6200

(* The view reporter_reliability: the lower bound of Wilson's interval.     *)
MaxRoot == 20000 + 10000 * MaxReports
Root(x) == CHOOSE n \in 0..MaxRoot : n * n <= x /\ x < (n + 1) * (n + 1)
LowerBound(good, bad) ==
  IF good + bad = 0 THEN 5000
  ELSE (10000 * (good * 10000 + 19208
                   - (196 * Root(((good * bad * 10000) \div (good + bad) + 9604) * 10000)) \div 100))
         \div ((good + bad) * 10000 + 38416)
Reliability == [good \in 0..MaxReports |-> [bad \in 0..MaxReports |-> LowerBound(good, bad)]]
Good(r) == reports[r].outcome = "confirmed"
             \/ (reports[r].outcome = "none" /\ reports[r].status = "auto_confirmed")
Bad(r) == reports[r].outcome = "false"
            \/ (reports[r].outcome = "none" /\ reports[r].status = "quarantined")
History(p) == Reliability[Cardinality({r \in From(p) : Good(r)})][Cardinality({r \in From(p) : Bad(r)})]

Corroboration(n) == IF n = 0 THEN 2500 ELSE (10000 * 9 * n) \div (10 + 9 * n)

(* Reports of the last minutes from the same device, and the same words.    *)
Recent(f) == Cardinality(From(f.phone))
Again(f) == Cardinality({r \in From(f.phone) : reports[r].form = f}) + (IF f.injected THEN 1 ELSE 0)
Anomaly(f) == Min({100, Min({50, 12 * Max({0, Recent(f) - 3})}) + Min({35, 15 * Again(f)})})

Score(f, n) ==
  ((22 * Credibility(f) + 18 * History(f.phone) + 18 * f.place + 22 * Corroboration(n) + 10 * f.proof)
     * (1000 - 7 * Anomaly(f))) \div 90000

MarkOf(score) == IF score >= 7200 THEN "high" ELSE IF score >= 3500 THEN "mid" ELSE "low"

Routed(mark, cat) ==
  IF mark = "low" THEN "quarantined"
  ELSE IF mark = "high" \/ cat \in LifeSafety THEN "auto_confirmed" ELSE "needs_corroboration"

(* Other people or devices that reported what the report is matched with;   *)
(* of a sender nothing is known of, nothing is his own.                     *)
BugOthers(i, p) == Senders(Linked(i))      \* one's own reports count
Others(i, p) == Senders({r \in Linked(i) : p = Nobody \/ reports[r].form.phone # p})

----------------------------------------------------------------------------
(* A report arrives.                                                        *)

(* citizen_report, field_report, submit_report: the words are read before   *)
(* the transaction takes its connection.                                    *)
Receive(t, forms) ==
  /\ task[t].pc = "idle" /\ free > 0
  /\ Len(reports) + Cardinality(Filing) < MaxReports
  /\ \E f \in forms : task' = [task EXCEPT ![t] = [Idle EXCEPT !.pc = "find", !.form = f]]
  /\ free' = free - 1
  /\ UNCHANGED <<rigid, rows, closing, verdicts>>
CitizenReports(t) == Receive(t, {f \in Form : ~ f.crew /\ f.phone # Nobody})
CrewReports(t) == Receive(t, {f \in Form : f.crew /\ f.phone # Nobody})
AnonymousReports(t) == "anonymous" \in scene /\ Receive(t, {f \in Form : f.phone = Nobody})

(* find_candidates sees the open incidents near by, best first; one of an   *)
(* incompatible category does not match, how well the others do depends on  *)
(* distance, age, category and words.  Where it is not ambiguous they are   *)
(* linked without asking.                                                   *)
Candidates(f) ==
  {i \in DOMAIN incidents :
     incidents[i].open /\ incidents[i].spot = f.spot /\ <<f.cat, incidents[i].cat>> \in Compatible}
Decisions(f) ==
  IF Candidates(f) = {} THEN {<<0, TRUE>>}
  ELSE (Candidates(f) \X {TRUE})
         \cup (IF "ambiguous" \in scene THEN {<<0, TRUE>>} \cup (Candidates(f) \X {FALSE}) ELSE {})

(* The query takes a second connection of the pool while the transaction    *)
(* holds one; it does not see what the transaction wrote.                   *)
Find(t) ==
  /\ task[t].pc = "find" /\ free > 0
  /\ \E d \in Decisions(task[t].form) :
       task' = [task EXCEPT ![t].pc = "weigh", ![t].pick = d[1], ![t].sure = d[2]]
  /\ UNCHANGED <<rigid, free, rows, closing, verdicts>>

(* Corroborations are counted, the score is made, the report is inserted:   *)
(* its trust is one of a single value.                                      *)
Corroborations(w) == IF w.pick = 0 THEN 0 ELSE Cardinality(Others(w.pick, w.form.phone))
Trust(w) ==
  {[mark |-> m, status |-> IF w.form.clear THEN Routed(m, w.form.cat) ELSE "pending"] :
     m \in {MarkOf(v) : v \in {Score(w.form, n) : n \in {Corroborations(w)}}}}
Kept(status) == status \in {"pending", "quarantined"}
BugReturned(n) == n                        \* no async with
Returned(n) == n + 1

(* Believed enough: it goes on to _attach.                                  *)
Weigh(t) ==
  /\ task[t].pc = "weigh"
  /\ \E d \in Trust(task[t]) :
       /\ ~ Kept(d.status)
       /\ task' = [task EXCEPT ![t] = [@ EXCEPT !.pc = "count", !.mark = d.mark, !.status = d.status]]
  /\ UNCHANGED <<rigid, free, rows, closing, verdicts>>

(* Held or quarantined: it is stored and moves nothing (nothing the rest of *)
(* the transaction reads depends on the others: it commits at once).        *)
File(t) ==
  /\ task[t].pc = "weigh"
  /\ \E d \in Trust(task[t]) :
       /\ Kept(d.status)
       /\ reports' = Append(reports, [form |-> task[t].form, mark |-> d.mark, status |-> d.status,
                                      inc |-> 0, outcome |-> "none"])
  /\ task' = [task EXCEPT ![t] = Idle] /\ free' = Returned(free)
  /\ UNCHANGED <<rigid, incidents, closing, verdicts>>

----------------------------------------------------------------------------
(* An officer classifies a held report (classify_held).                     *)

(* Only a report that is held; "officers" are two who read it at once.      *)
Held(r) == reports[r].status = "pending" /\ reports[r].inc = 0
Classify(t) ==
  /\ task[t].pc = "idle" /\ free > 0
  /\ \E r \in Ids :
       /\ Held(r)
       /\ "officers" \in scene \/ \A u \in Task : task[u].of # r
       /\ task' = [task EXCEPT ![t] = [Idle EXCEPT !.pc = "seek", !.form = reports[r].form, !.of = r,
                                                   !.mark = reports[r].mark]]
  /\ UNCHANGED <<rigid, free, rows, closing, verdicts>>

(* The incident is looked for before the transaction.                       *)
Seek(t) ==
  /\ task[t].pc = "seek" /\ free > 0
  /\ \E d \in Decisions(task[t].form) :
       task' = [task EXCEPT ![t].pc = "open", ![t].pick = d[1], ![t].sure = d[2]]
  /\ UNCHANGED <<rigid, free, rows, closing, verdicts>>

(* The transaction begins.                                                  *)
Open(t) ==
  /\ task[t].pc = "open" /\ free > 0
  /\ task' = [task EXCEPT ![t].pc = "lock"]
  /\ free' = free - 1
  /\ UNCHANGED <<rigid, rows, closing, verdicts>>

(* It updates the report, whose row stays locked until the commit: another  *)
(* officer's update waits, and then goes on.                                *)
Lock(t) ==
  LET w == task[t]
  IN /\ w.pc = "lock"
     /\ \A u \in Task \ {t} : task[u].of = w.of => task[u].pc \notin {"count", "commit"}
     /\ task' = [task EXCEPT ![t].pc = "count",
                             ![t].status = IF w.mark = "high" \/ w.form.cat \in LifeSafety
                                           THEN "auto_confirmed" ELSE "needs_corroboration"]
     /\ UNCHANGED <<rigid, free, rows, closing, verdicts>>

----------------------------------------------------------------------------
(* Both go through _attach.                                                 *)

(* How bad one report reads (severity.assess): urgent words raise the base  *)
(* of its category, 3 for one nobody can classify; a model moves that by    *)
(* two up and one below the base, a threat to life it sees raises that by   *)
(* one at least, and it is not asked about a crew's report.  Of a text that *)
(* gives orders only the classifier is asked, and may not raise it.         *)
Keyword(base, urgent) ==
  IF urgent >= 4 THEN 5 ELSE Min({5, base + (IF urgent >= 2 THEN urgent - 1 ELSE 0)})
Reading(f) ==
  LET base == IF f.clear THEN Base[f.cat] ELSE 3
      word == Keyword(base, f.urgent)
      floor == IF f.clear /\ f.cat \in LifeSafety THEN base ELSE base - 1
      answer == IF f.injected THEN Min({f.model, word}) ELSE f.model
      least == IF f.threat /\ ~ f.injected THEN Min({5, word + 1}) ELSE 1
  IN IF f.model = 0 \/ f.crew THEN word
     ELSE Max({least, Min({word, floor}), Min({5, word + 2, answer})})

(* An incident's aggregates from its reports (_recompute_incident): s are   *)
(* the others, committed when the query is made, f the transaction's own.   *)
Rule(cat, independent) == Min({5, Base[cat] + (IF independent >= 3 THEN 1 ELSE 0) + (IF independent >= 6 THEN 1 ELSE 0)})
Severity(cat, independent, read) ==
  LET rule == Rule(cat, independent)
      floor == IF independent >= 3 \/ cat \in LifeSafety THEN rule ELSE rule - 1
  IN IF read = {} THEN rule ELSE Max({1, Min({5, Max(read \cup {floor})})})
Assessed(s) == {Reading(reports[r].form) : r \in {q \in s : reports[q].mark # "low"}}
Independent(s, f) == Cardinality(Senders(s) \cup {<<f.phone, 0>>})
BugRecount(cat, s, f, mark) ==             \* people, not reports
  [count |-> Independent(s, f),
   sev |-> Severity(cat, Independent(s, f), Assessed(s) \cup (IF mark = "low" THEN {} ELSE {Reading(f)}))]
Recount(cat, s, f, mark) ==
  [count |-> Cardinality(s) + 1,
   sev |-> Severity(cat, Independent(s, f), Assessed(s) \cup (IF mark = "low" THEN {} ELSE {Reading(f)}))]

(* Two transactions count one incident's reports at once: neither sees the  *)
(* other's, and the one that commits last overwrites.                       *)
Apart(t, i) ==
  "overlap" \in scene \/ i = 0
    \/ \A u \in Task \ {t} : task[u].pc = "commit" => task[u].pick # i

(* An incident has the category of the report that opened it.               *)
CategoryOf(i, f) == IF i = 0 THEN f.cat ELSE incidents[i].cat

(* The model is asked about an unsure match, within the transaction.        *)
Adjudicated(w) == IF w.sure THEN {w.pick} ELSE {w.pick, 0}

(* The report is linked, or opens an incident, and the reports are counted. *)
Count(t) ==
  LET w == task[t]
  IN /\ w.pc = "count"
     /\ \E i \in Adjudicated(w) : \E s \in {IF i = 0 THEN {} ELSE Linked(i) \ {w.of}} :
          \E c \in {Recount(CategoryOf(i, w.form), s, w.form, w.mark)} :
            /\ Apart(t, i)
            /\ task' = [task EXCEPT ![t].pc = "commit", ![t].pick = i, ![t].sure = TRUE,
                                    ![t].count = c.count, ![t].sev = c.sev]
     /\ UNCHANGED <<rigid, free, rows, closing, verdicts>>

(* _write_needs: greatest of what is required and what this report asks.    *)
BugGrown(old, new) == new                  \* excluded.required
Grown(old, new) == [c \in Capability |-> Max({old[c], new[c]})]

(* incident.opened makes the router re-plan and an officer asks for it;     *)
(* report.linked does not, and incident.severity_changed is never written   *)
(* (told: the router knows of what was written).                            *)
Commit(t) ==
  LET w == task[t]
      i == IF w.pick = 0 THEN Len(incidents) + 1 ELSE w.pick
      old == incidents[w.pick]
  IN /\ w.pc = "commit"
     /\ reports' =
          IF w.of = 0
          THEN Append(reports, [form |-> w.form, mark |-> w.mark, status |-> w.status,
                                inc |-> i, outcome |-> "none"])
          ELSE [reports EXCEPT ![w.of] = [@ EXCEPT !.status = w.status, !.inc = i]]
     /\ incidents' =
          IF w.pick = 0
          THEN Append(incidents, [spot |-> w.form.spot, cat |-> w.form.cat, open |-> TRUE, count |-> w.count, sev |-> w.sev,
                                  needs |-> w.form.needs, told |-> TRUE])
          ELSE [incidents EXCEPT ![i] =
                  [old EXCEPT !.count = w.count, !.sev = w.sev, !.needs = Grown(old.needs, w.form.needs),
                              !.told = w.of # 0 \/ (old.told /\ w.sev <= old.sev
                                         /\ Grown(old.needs, w.form.needs) = old.needs)]]
     /\ task' = [task EXCEPT ![t] = Idle] /\ free' = Returned(free)
     /\ UNCHANGED <<rigid, closing, verdicts>>

(* Any call may fail: the transaction is rolled back, the sender told.      *)
Abort(t) ==
  /\ "fails" \in scene /\ task[t].pc # "idle"
  /\ task' = [task EXCEPT ![t] = Idle]
  /\ free' = IF task[t].pc \in {"seek", "open"} THEN free ELSE Returned(free)
  /\ UNCHANGED <<rigid, rows, closing, verdicts>>

----------------------------------------------------------------------------
(* What is found out about a report.                                        *)

(* record_verdict, for one report or for all of its incident.               *)
Verdict ==
  /\ "verdicts" \in scene /\ verdicts < MaxVerdicts /\ free > 0
  /\ \E r \in Ids, o \in {"confirmed", "false"}, whole \in BOOLEAN :
       LET s == IF whole /\ reports[r].inc # 0 THEN Linked(reports[r].inc) ELSE {r}
       IN reports' = [q \in Ids |-> IF q \in s THEN [reports[q] EXCEPT !.outcome = o] ELSE reports[q]]
  /\ verdicts' = verdicts + 1
  /\ UNCHANGED <<rigid, free, incidents, closing, task>>

(* A crew that worked the scene closes the incident (_work_and_resolve).    *)
Resolve(i) ==
  /\ "resolve" \in scene /\ i \in DOMAIN incidents /\ incidents[i].open /\ free > 0
  /\ incidents' = [incidents EXCEPT ![i] = [@ EXCEPT !.open = FALSE]]
  /\ closing' = closing \cup {i}
  /\ UNCHANGED <<rigid, free, reports, verdicts, task>>

(* Then its reports were real, those nobody judged (_confirm_reports); what *)
(* goes wrong here is swallowed.                                            *)
Confirm(i) ==
  /\ i \in closing /\ free > 0
  /\ \/ reports' = [r \in Ids |-> IF r \in Linked(i) /\ reports[r].outcome = "none"
                                  THEN [reports[r] EXCEPT !.outcome = "confirmed"] ELSE reports[r]]
     \/ reports' = reports
  /\ closing' = closing \ {i}
  /\ UNCHANGED <<rigid, free, incidents, verdicts, task>>

----------------------------------------------------------------------------
Handles(t) == Find(t) \/ Weigh(t) \/ File(t) \/ Seek(t) \/ Open(t) \/ Lock(t) \/ Count(t) \/ Commit(t)
Next ==
  \/ \E t \in Task : \/ CitizenReports(t) \/ CrewReports(t) \/ AnonymousReports(t)
                     \/ Classify(t) \/ Handles(t) \/ Abort(t)
  \/ \E i \in 1..MaxIncidents : Resolve(i) \/ Confirm(i)
  \/ Verdict
Spec == Init /\ [][Next]_vars
FairSpec == Spec /\ \A t \in Task : WF_vars(Handles(t))

TypeOK ==
  /\ scene \in Scenarios /\ size \in PoolSizes /\ free \in 0..size
  /\ reports \in Seq(Report) /\ Len(reports) + Cardinality(Filing) <= MaxReports
  /\ incidents \in Seq(Incident) /\ Len(incidents) <= MaxIncidents
  /\ closing \subseteq DOMAIN incidents /\ verdicts \in 0..MaxVerdicts
  /\ task \in [Task -> Work]

(* "Needs only grow from words; nothing a report says removes a need": an   *)
(* incident needs what each of its reports asks for, however handlers that  *)
(* link to it at once read and write its row.                               *)
NeedsCoverReports ==
  \A r \in Ids : reports[r].inc # 0 =>
    \A c \in Capability : incidents[reports[r].inc].needs[c] >= reports[r].form.needs[c]

FollowsReports(i) ==
  LET s == Linked(i)
  IN /\ incidents[i].count = Cardinality(s)
     /\ incidents[i].sev = Severity(incidents[i].cat, Cardinality(Senders(s)), Assessed(s))

(* "Report count, confidence and severity, from the reports themselves":    *)
(* where no two transactions count one incident's reports at once and no    *)
(* two officers read one held report, nothing else that overlaps makes them *)
(* differ from the reports.                                                 *)
IncidentsFollowReports ==
  {"overlap", "officers"} \cap scene = {} => \A i \in DOMAIN incidents : FollowsReports(i)

(* "Counting a reporter's own repeated reports as corroboration is          *)
(* precisely the hole": outside the categories of life and death a report   *)
(* of a known device or account is confirmed only when the same place was   *)
(* reported by another one (or by nobody in particular), or after six       *)
(* others of the same reporter that were right.                             *)
Company(f) == \E q \in Ids : reports[q].form.spot = f.spot /\ reports[q].form.phone # f.phone
ConfirmedHasCompany ==
  \A r \in Ids :
    LET f == reports[r].form
    IN /\ reports[r].status = "auto_confirmed" /\ f.cat \notin LifeSafety
       /\ f.phone # Nobody /\ Cardinality(From(f.phone)) <= 6
       => Company(f)

(* A request is answered, whatever overlaps or fails: the pool has a        *)
(* connection more than there are handlers, and each gives its own back.    *)
(* With fewer they wait for each other.  (Handlers are alike: this is one.) *)
EveryReportIsAnswered ==
  LET t == CHOOSE u \in Task : TRUE
  IN Cardinality(Task) < size => ((task[t].pc # "idle") ~> (task[t].pc = "idle"))

----------------------------------------------------------------------------
(* What the code does not keep (README, section 4).                         *)

(* The same without a pool that is large enough.                            *)
NobodyWaitsForever == \A t \in Task : (task[t].pc # "idle") ~> (task[t].pc = "idle")

(* The same where transactions overlap: one count of reports is lost.       *)
RowsFollowReports == \A i \in DOMAIN incidents : FollowsReports(i)

(* The same of reports with neither device nor account: each of them is     *)
(* taken for a person of its own.                                           *)
AnonymousHasCompany ==
  \A r \in Ids :
    LET f == reports[r].form
    IN reports[r].status = "auto_confirmed" /\ f.cat \notin LifeSafety /\ f.phone = Nobody => Company(f)

(* Every report an officer classifies stands behind one incident only.      *)
NoEmptyIncident == \A i \in DOMAIN incidents : Linked(i) # {}

(* The router hears of every incident that became worse or needs more.      *)
WorseIsTold == \A i \in DOMAIN incidents : incidents[i].open => incidents[i].told

(* Nobody is linked to an incident that is over.                            *)
LinkedWhileOpen ==
  [][\A i \in DOMAIN incidents : ~ incidents[i].open => incidents'[i].count = incidents[i].count]_vars
=============================================================================
