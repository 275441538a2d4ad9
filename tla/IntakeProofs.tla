---------------------------- MODULE IntakeProofs ----------------------------
(***************************************************************************)
(* Theorems about Intake, for any handlers, reports, places, pool sizes    *)
(* and bounds.                                                             *)
(*                                                                         *)
(* What is read off the rows (their forms, places and needs) only grows    *)
(* (RowsKept), a handler's step keeps what it holds pointing at them       *)
(* (WellMoved), and a commit writes what its handler counted (CountsInv).  *)
(* A mark is earned from the score: without company and with at most five  *)
(* earlier reports of one device it stays below the bar (AloneIsNotHigh).  *)
(***************************************************************************)
EXTENDS Intake, FiniteSetTheorems, SequenceTheorems, WellFoundedInduction, TLAPS

----------------------------------------------------------------------------
(* Arithmetic.                                                              *)

LEMMA SquaresGrow ==
  ASSUME NEW x \in Nat, NEW y \in Nat, x <= y
  PROVE  x * x <= y * y
<1>1. x * x <= x * y
  BY SMT
<1>2. x * y <= y * y
  BY SMT
<1>3. QED
  BY <1>1, <1>2, SMT

(* A number has a whole root: the smallest one whose successor's square is *)
(* above it.                                                              *)
LEMMA WholeRootExists ==
  ASSUME NEW m \in Nat, NEW x \in Nat, x < (m + 1) * (m + 1)
  PROVE  \E n \in 0..m : n * n <= x /\ x < (n + 1) * (n + 1)
<1> DEFINE T == {n \in Nat : x < (n + 1) * (n + 1)}
<1>1. T \subseteq Nat /\ m \in T
  BY Zenon
<1>2. PICK n \in T : \A u \in T : ~(<<u, n>> \in OpToRel(<, Nat))
  <2> HIDE DEF T
  <2>1. QED
    BY <1>1, NatLessThanWellFounded, WFMin
<1>3. n \in Nat /\ x < (n + 1) * (n + 1)
  BY <1>2, Zenon
<1>4. \A u \in Nat : u < n => ~(x < (u + 1) * (u + 1))
  BY <1>2, <1>3, Zenon DEF OpToRel
<1>5. n <= m
  BY <1>3, <1>4, SMT
<1>6. ASSUME n # 0 PROVE n * n <= x
  <2>1. n - 1 \in Nat /\ n - 1 < n
    BY <1>3, <1>6, SMT
  <2>2. ~(x < ((n - 1) + 1) * ((n - 1) + 1))
    BY <1>4, <2>1, Zenon
  <2>3. (n - 1) + 1 = n
    BY <1>3, SMT
  <2>4. QED
    BY <1>3, <2>2, <2>3, SMT
<1>7. n * n <= x
  BY <1>6, SMT
<1>8. QED
  BY <1>3, <1>5, <1>7, SMT
LEMMA DivisionBelow ==
  ASSUME NEW p \in Int, NEW d \in Nat \ {0}, NEW k \in Nat, p < (k + 1) * d
  PROVE  p \div d \in Int /\ p \div d <= k
<1> DEFINE q == p \div d
<1>1. q \in Int /\ d * q <= p
  BY SMT
<1> HIDE DEF q
<1>2. d * q < (k + 1) * d
  BY <1>1, SMT
<1>3. ASSUME q >= k + 1 PROVE FALSE
  <2>1. d * q >= d * (k + 1)
    BY <1>1, <1>3, SMT
  <2>2. QED
    BY <1>1, <1>2, <2>1, SMT
<1>4. q <= k
  BY <1>1, <1>3, SMT
<1>5. QED
  BY <1>1, <1>4 DEF q

----------------------------------------------------------------------------
(* How much a report is believed.                                           *)

LEMMA LesserOfTwo ==
  ASSUME NEW x \in Int, NEW y \in Int
  PROVE  Min({x, y}) = IF x <= y THEN x ELSE y
<1>1. \E m \in {x, y} : \A j \in {x, y} : m <= j
  OBVIOUS
<1>2. Min({x, y}) \in {x, y} /\ \A j \in {x, y} : Min({x, y}) <= j
  BY <1>1 DEF Min
<1>3. QED
  BY <1>2

LEMMA GreaterOfTwo ==
  ASSUME NEW x \in Int, NEW y \in Int
  PROVE  Max({x, y}) = IF x >= y THEN x ELSE y
<1>1. \E m \in {x, y} : \A j \in {x, y} : m >= j
  OBVIOUS
<1>2. Max({x, y}) \in {x, y} /\ \A j \in {x, y} : Max({x, y}) >= j
  BY <1>1 DEF Max
<1>3. QED
  BY <1>2

LEMMA RootIsRoot ==
  ASSUME MaxRoot \in Nat, NEW x \in Nat, x < (MaxRoot + 1) * (MaxRoot + 1)
  PROVE  Root(x) \in 0..MaxRoot /\ Root(x) * Root(x) <= x /\ x < (Root(x) + 1) * (Root(x) + 1)
<1>1. \E n \in 0..MaxRoot : n * n <= x /\ x < (n + 1) * (n + 1)
  BY WholeRootExists
<1>2. QED
  BY <1>1, Zenon DEF Root

(* The roots a history of up to five reports needs are in Root's range.     *)
LEMMA RootsInRange ==
  ASSUME NEW x \in Nat, x < 20001 * 20001
  PROVE  MaxRoot \in Nat /\ x < (MaxRoot + 1) * (MaxRoot + 1)
<1>1. MaxRoot \in Nat /\ 20000 <= MaxRoot
  <2>1. MaxReports \in Nat
    BY IntakeAssumption, SMT
  <2>2. QED
    BY <2>1, SMT DEF MaxRoot
<1>2. 20001 \in Nat /\ MaxRoot + 1 \in Nat /\ 20001 <= MaxRoot + 1
  BY <1>1, SMT
<1>3. 20001 * 20001 <= (MaxRoot + 1) * (MaxRoot + 1)
  BY <1>2, SquaresGrow, SMT
<1>4. QED
  BY <1>1, <1>3, SMT

(* The lower bound of a reporter who was right at most five times.          *)
RightFiveTimes == 5655
LEMMA ShortHistory ==
  ASSUME NEW g \in 0..5, NEW b \in 0..5
  PROVE  LowerBound(g, b) \in Int /\ LowerBound(g, b) <= RightFiveTimes
<1> DEFINE y == (g * b * 10000) \div (g + b)
           x == (y + 9604) * 10000
           n == Root(x)
           p == 10000 * (g * 10000 + 19208 - (196 * n) \div 100)
           d == (g + b) * 10000 + 38416
<1>1. LowerBound(g, b) = IF g + b = 0 THEN 5000 ELSE p \div d
  BY DEF LowerBound
<1>2. CASE g + b # 0
  <2>1. y \in Int /\ 0 <= y /\ y <= 25000
    <3> DEFINE num == g * b * 10000
               den == g + b
    <3>1. num \in Nat /\ den \in Nat \ {0} /\ num < 25001 * den
      <4>1. g * b <= 5 * b /\ g * b <= 5 * g /\ g * b \in Nat
        BY SMT
      <4>2. 2 * (g * b) <= 5 * (g + b)
        BY <4>1, SMT
      <4>3. num = 10000 * (g * b)
        BY SMT
      <4>4. g + b \in Nat \ {0}
        BY <1>2, SMT
      <4>5. QED
        BY <4>1, <4>2, <4>3, <4>4, SMT
    <3> HIDE DEF num, den
    <3>2. num \div den \in Int /\ num \div den <= 25000
      BY <3>1, DivisionBelow, SMT
    <3>3. 0 <= num \div den
      BY <3>1, SMT
    <3>4. QED
      BY <3>2, <3>3, SMT DEF num, den
  <2> HIDE DEF y
  <2>2. x \in Nat /\ x >= 9800 * 9800
    BY <2>1, SMT
  <2>3. x \in Nat /\ x < 20001 * 20001
    BY <2>1, SMT
  <2> HIDE DEF x
  <2>4. MaxRoot \in Nat /\ x < (MaxRoot + 1) * (MaxRoot + 1)
    BY <2>3, RootsInRange, SMT
  <2>5. n \in 0..MaxRoot /\ x < (n + 1) * (n + 1)
    BY <2>3, <2>4, RootIsRoot, SMT DEF n
  <2> HIDE DEF n
  <2>6. n \in Nat /\ n >= 9800
    <3>0. n \in Nat
      BY <2>4, <2>5, SMT
    <3>1. ASSUME n < 9800 PROVE FALSE
      <4>1. n + 1 \in Nat /\ n + 1 <= 9800
        BY <3>0, <3>1, SMT
      <4>2. (n + 1) * (n + 1) <= 9800 * 9800
        BY <4>1, SquaresGrow, SMT
      <4>3. QED
        BY <2>2, <2>5, <3>0, <4>1, <4>2, SMT
    <3>2. QED
      BY <3>0, <3>1, SMT
  <2>7. p \in Int /\ p <= 10000 * (10000 * g)
    BY <2>6, SMT
  <2>8. d \in Nat \ {0} /\ d >= g * 10000 + 38416
    BY SMT
  <2> HIDE DEF p, d
  <2>9. p < 5656 * d
    BY <2>7, <2>8, SMT
  <2>10. p \div d <= 5655 /\ p \div d \in Int
    BY <2>7, <2>8, <2>9, DivisionBelow, SMT
  <2>11. QED
    BY <1>1, <1>2, <2>10, SMT DEF RightFiveTimes
<1>3. CASE g + b = 0
  BY <1>1, <1>3, SMT DEF RightFiveTimes
<1>4. QED
  BY <1>2, <1>3, Zenon

----------------------------------------------------------------------------
(* What is true of the rows and of the handlers at every step.              *)

Readings == {Reading(f) : f \in Form}
Severities == {0} \cup {Severity(c[1], c[2], c[3]) : c \in Category \X Nat \X SUBSET Readings}
ReportRow == [form : Form, mark : Mark, status : Status, inc : Nat, outcome : {"none", "confirmed", "false"}]
IncidentRow == [spot : Spot, cat : Category, open : BOOLEAN, count : Nat, sev : Severities,
                needs : [Capability -> Nat], told : BOOLEAN]
Steps == {"idle", "find", "weigh", "seek", "open", "lock", "count", "commit"}
Handler == [pc : Steps, form : Form, of : Nat, pick : Nat, sure : BOOLEAN, mark : Mark, status : Status,
            count : Nat, sev : Severities]

(* The rows refer to rows that are there, and what is linked has one place; *)
(* a handler that classifies has the form and the mark of the stored report.*)
RowsInv ==
  /\ reports \in Seq(ReportRow) /\ incidents \in Seq(IncidentRow)
  /\ \A r \in Ids : reports[r].inc # 0 =>
       /\ reports[r].inc \in DOMAIN incidents
       /\ incidents[reports[r].inc].spot = reports[r].form.spot
Points(w) ==
  /\ w.pick # 0 => w.pick \in DOMAIN incidents /\ incidents[w.pick].spot = w.form.spot
  /\ w.pc \in {"find", "weigh"} => w.of = 0
  /\ w.pc \in {"seek", "open", "lock"} => w.of # 0
  /\ w.of # 0 => w.of \in Ids /\ reports[w.of].form = w.form /\ reports[w.of].mark = w.mark
TaskInv == task \in [Task -> Handler] /\ \A t \in Task : Points(task[t])

(* Where no two transactions count one incident's reports and no two        *)
(* officers read one report: what a handler counted is what its commit      *)
(* makes true, for nobody links to that incident before it does.            *)
Counted(w) == Recount(CategoryOf(w.pick, w.form), IF w.pick = 0 THEN {} ELSE Linked(w.pick), w.form, w.mark)
CountsInv ==
  /\ \A i \in DOMAIN incidents : FollowsReports(i)
  /\ \A t \in Task : task[t].of # 0 => reports[task[t].of].inc = 0
  /\ \A t \in Task : task[t].pc = "commit" => [count |-> task[t].count, sev |-> task[t].sev] = Counted(task[t])
  /\ \A t, u \in Task : t # u =>
       /\ task[t].of # 0 => task[u].of # task[t].of
       /\ task[t].pc = "commit" /\ task[u].pc = "commit" /\ task[t].pick # 0 => task[u].pick # task[t].pick
CountsApart == {"overlap", "officers"} \cap scene = {} => CountsInv

(* Of a known sender a mark is high for what others reported, or for a      *)
(* history; a report is confirmed for its mark, or for its category.        *)
Earned(f, mark, n) == f.phone # Nobody /\ mark = "high" /\ Cardinality(From(f.phone)) <= n => Company(f)
Meant(f, mark, status) == status = "auto_confirmed" /\ f.cat \notin LifeSafety => mark = "high"
CompanyInv ==
  /\ Len(reports) + Cardinality(Filing) <= MaxReports
  /\ \A r \in Ids : Earned(reports[r].form, reports[r].mark, 6)
                      /\ Meant(reports[r].form, reports[r].mark, reports[r].status)
  /\ \A t \in Task : task[t].pc \in {"count", "commit"} =>
       /\ task[t].of = 0 => Earned(task[t].form, task[t].mark, 5)
       /\ Meant(task[t].form, task[t].mark, task[t].status)

Inv == RowsInv /\ TaskInv /\ NeedsCoverReports /\ CountsApart /\ CompanyInv

----------------------------------------------------------------------------
(* Sets of reports are finite.                                              *)
LEMMA SetsOfReports ==
  ASSUME RowsInv
  PROVE  /\ Len(reports) \in Nat /\ Ids = 1..Len(reports)
         /\ IsFiniteSet(Ids) /\ Cardinality(Ids) = Len(reports)
         /\ \A s : s \subseteq Ids => IsFiniteSet(s) /\ Cardinality(s) \in 0..Len(reports)
<1>1. Len(reports) \in Nat /\ Ids = 1..Len(reports)
  BY LenProperties DEF RowsInv, Ids
<1>2. IsFiniteSet(Ids) /\ Cardinality(Ids) = Len(reports)
  <2>1. 1 \in Int /\ Len(reports) \in Int /\ ~ (1 > Len(reports) /\ Len(reports) # 0)
    BY <1>1
  <2>2. IsFiniteSet(1..Len(reports))
          /\ Cardinality(1..Len(reports)) = IF 1 > Len(reports) THEN 0 ELSE Len(reports) - 1 + 1
    BY <2>1, FS_Interval
  <2>3. QED
    BY <1>1, <2>2, SMT
<1>3. ASSUME NEW s, s \subseteq Ids PROVE IsFiniteSet(s) /\ Cardinality(s) \in 0..Len(reports)
  <2>1. s \in SUBSET Ids
    BY <1>3
  <2>2. IsFiniteSet(s) /\ Cardinality(s) <= Len(reports)
    BY <1>2, <2>1, FS_Subset
  <2>3. Cardinality(s) \in Nat
    BY <2>2, FS_CardinalityType
  <2>4. QED
    BY <1>1, <2>2, <2>3, SMT
<1>4. QED
  BY <1>1, <1>2, <1>3

LEMMA RowTypes ==
  ASSUME RowsInv, NEW r \in Ids
  PROVE  reports[r] \in ReportRow
BY ElementOfSeq, LenProperties, SetsOfReports DEF RowsInv

LEMMA SmallerSets ==
  ASSUME RowsInv, NEW s, NEW u, u \subseteq Ids, s \subseteq u
  PROVE  Cardinality(s) <= Cardinality(u)
<1>1. IsFiniteSet(u) /\ s \in SUBSET u
  BY SetsOfReports
<1>2. QED
  BY <1>1, FS_Subset

LEMMA AnomalyRange ==
  ASSUME RowsInv, NEW f
  PROVE  Anomaly(f) \in 0..100
<1> DEFINE r == Recent(f)
           n == Again(f)
<1>1. r \in Nat /\ n \in Nat
  <2>1. From(f.phone) \subseteq Ids /\ {q \in From(f.phone) : reports[q].form = f} \subseteq Ids
    BY DEF From
  <2>2. QED
    <3> DEFINE c == Cardinality({q \in From(f.phone) : reports[q].form = f})
    <3>1. r \in Nat /\ c \in Nat
      BY <2>1, SetsOfReports, SMT DEF Recent
    <3>2. n = c + (IF f.injected THEN 1 ELSE 0)
      BY DEF Again
    <3> HIDE DEF c, n
    <3>3. QED
      BY <3>1, <3>2, SMT
<1>2. Anomaly(f) = Min({100, Min({50, 12 * Max({0, r - 3})}) + Min({35, 15 * n})})
  BY DEF Anomaly
<1> HIDE DEF r, n
<1> DEFINE m == Max({0, r - 3})
           x == Min({50, 12 * m})
           y == Min({35, 15 * n})
<1>3. m \in Nat
  BY <1>1, GreaterOfTwo, SMT
<1> HIDE DEF m
<1>4. x \in Nat
  BY <1>3, LesserOfTwo, SMT
<1>5. y \in Nat
  BY <1>1, LesserOfTwo, SMT
<1> HIDE DEF x, y
<1>6. x + y \in Int
  BY <1>4, <1>5, SMT
<1>7. Min({100, x + y}) = IF 100 <= x + y THEN 100 ELSE x + y
  BY <1>6, LesserOfTwo, SMT
<1>8. Anomaly(f) = Min({100, x + y})
  BY <1>2 DEF x, y, m
<1>9. QED
  BY <1>4, <1>5, <1>7, <1>8, SMT

LEMMA FormTypes ==
  ASSUME NEW f \in Form
  PROVE  /\ f.spot \in Spot /\ f.cat \in Category /\ f.clear \in BOOLEAN
         /\ f.needs \in [Capability -> Nat]
<1>1. f \in ReportIn
  BY IntakeAssumption, Zenon
<1>2. f.spot \in Spot /\ f.cat \in Category
  BY <1>1, SMTT(30) DEF ReportIn
<1>3. f.clear \in BOOLEAN
  BY <1>1, SMTT(30) DEF ReportIn
<1>4. f.needs \in [Capability -> Nat]
  BY <1>1, SMTT(30) DEF ReportIn
<1>5. QED
  BY <1>2, <1>3, <1>4, Zenon

LEMMA FormScores ==
  ASSUME NEW f \in Form
  PROVE  f.place \in Int /\ f.place <= 10000 /\ f.proof \in Int /\ f.proof <= 9500
<1>1. f \in ReportIn
  BY IntakeAssumption, Zenon
<1> DEFINE l == f.place
           e == f.proof
<1>2. l \in 0..10000
  BY <1>1, SMTT(30) DEF ReportIn
<1>3. e \in 1500..9500
  BY <1>1, SMTT(30) DEF ReportIn
<1> HIDE DEF l, e
<1>4. l \in Int /\ l <= 10000
  BY <1>2, SMT
<1>5. e \in Int /\ e <= 9500
  BY <1>3, SMT
<1>6. QED
  BY <1>4, <1>5, SMT DEF l, e

(* Nobody else reported it, and this reporter was right five times at most: *)
(* the best place, photo and source do not make the mark high.              *)
LEMMA AloneIsNotHigh ==
  ASSUME RowsInv, Len(reports) <= MaxReports, NEW f \in Form, Cardinality(From(f.phone)) <= 5
  PROVE  MarkOf(Score(f, 0)) # "high"
<1> DEFINE g == Cardinality({r \in From(f.phone) : Good(r)})
           b == Cardinality({r \in From(f.phone) : Bad(r)})
           h == History(f.phone)
           a == Anomaly(f)
           c == Credibility(f)
           o == Corroboration(0)
           l == f.place
           e == f.proof
           x == 22 * c + 18 * h + 18 * l + 22 * o + 10 * e
<1>1. g \in 0..5 /\ g <= MaxReports
  <2>1. From(f.phone) \subseteq Ids /\ {r \in From(f.phone) : Good(r)} \subseteq From(f.phone)
    BY DEF From
  <2>2. g <= Cardinality(From(f.phone)) /\ Cardinality(From(f.phone)) \in 0..Len(reports) /\ g \in 0..Len(reports)
    BY <2>1, SmallerSets, SetsOfReports
  <2> HIDE DEF g
  <2>3. QED
    BY <2>2, SetsOfReports, IntakeAssumption, SMT
<1>2. b \in 0..5 /\ b <= MaxReports
  <2>1. From(f.phone) \subseteq Ids /\ {r \in From(f.phone) : Bad(r)} \subseteq From(f.phone)
    BY DEF From
  <2>2. b <= Cardinality(From(f.phone)) /\ Cardinality(From(f.phone)) \in 0..Len(reports) /\ b \in 0..Len(reports)
    BY <2>1, SmallerSets, SetsOfReports
  <2> HIDE DEF b
  <2>3. QED
    BY <2>2, SetsOfReports, IntakeAssumption, SMT
<1>3. h = Reliability[g][b]
  BY DEF History
<1> HIDE DEF g, b, h
<1>4. h \in Int /\ h <= 5655
  <2>1. g \in 0..MaxReports /\ b \in 0..MaxReports
    BY <1>1, <1>2, IntakeAssumption, SMT
  <2>2. Reliability[g][b] = LowerBound(g, b)
    BY <2>1, Zenon DEF Reliability
  <2>3. QED
    <3>1. g \in 0..5 /\ b \in 0..5
      BY <1>1, <1>2, Zenon
    <3>2. LowerBound(g, b) \in Int /\ LowerBound(g, b) <= RightFiveTimes
      BY <3>1, ShortHistory, Zenon
    <3>3. QED
      BY <1>3, <2>2, <3>2, SMT DEF RightFiveTimes
<1>5. l \in Int /\ l <= 10000 /\ e \in Int /\ e <= 9500
  BY FormScores, SMT
<1>6. c \in {9500, 6200} /\ o = 2500
  BY SMT DEF Credibility, Corroboration
<1>9. Score(f, 0) = (x * (1000 - 7 * a)) \div 90000
  BY SMT DEF Score, h
<1> HIDE DEF c, o, l, e
<1>7. x \in Int /\ x <= 640790
  BY <1>4, <1>5, <1>6, SMT
<1>8. a \in 0..100
  BY AnomalyRange
<1> HIDE DEF x, a
<1> DEFINE m == 1000 - 7 * a
<1>10. m \in 0..1000
  BY <1>8, SMT
<1> HIDE DEF m
<1>11. x * m \in Int /\ x * m < 7200 * 90000
  <2>1. x * m <= 640790 * m
    BY <1>7, <1>10, SMT
  <2>2. x * m \in Int /\ 640790 * m <= 640790 * 1000
    BY <1>7, <1>10, SMT
  <2>3. QED
    BY <2>1, <2>2, <1>10, SMT
<1> DEFINE p == x * m
<1>12. p \in Int /\ p < (7199 + 1) * 90000
  BY <1>11, SMT
<1> HIDE DEF p
<1>13. p \div 90000 \in Int /\ p \div 90000 <= 7199
  <2>1. 90000 \in Nat \ {0} /\ 7199 \in Nat
    BY SMT
  <2>2. QED
    BY <1>12, <2>1, DivisionBelow, SMT
<1>14. Score(f, 0) \in Int /\ Score(f, 0) <= 7199
  BY <1>9, <1>13, SMT DEF p, m
<1>15. QED
  BY <1>14, SMT DEF MarkOf

(* What the score finds: with somebody else behind what it was matched with *)
(* there is company, without the mark is not high.                          *)
LEMMA TrustIsEarned ==
  ASSUME RowsInv, Len(reports) <= MaxReports, NEW w \in Handler, Points(w), NEW d \in Trust(w)
  PROVE  /\ d.mark \in Mark /\ d.status \in Status
         /\ Earned(w.form, d.mark, 5) /\ Meant(w.form, d.mark, d.status)
<1> DEFINE f == w.form
           n == Corroborations(w)
           m == MarkOf(Score(f, n))
<1>1. f \in Form
  BY DEF Handler
<1>2. d = [mark |-> m, status |-> IF f.clear THEN Routed(m, f.cat) ELSE "pending"]
  BY Zenon DEF Trust
<1>3. m \in Mark
  BY SMT DEF MarkOf, Mark
<1>4. ASSUME f.phone # Nobody, m = "high", Cardinality(From(f.phone)) <= 5 PROVE Company(f)
  <2>1. CASE n = 0
    <3>1. m # "high"
      BY <1>1, <1>4, <2>1, AloneIsNotHigh, Zenon
    <3>2. QED
      BY <1>4, <3>1, Zenon
  <2>2. CASE n # 0
    <3>1. w.pick # 0 /\ n = Cardinality(Others(w.pick, f.phone))
      BY <2>2, Zenon DEF Corroborations
    <3>2. Others(w.pick, f.phone) # {}
      BY <2>2, <3>1, FS_EmptySet, Zenon
    <3>3. PICK q \in Linked(w.pick) : reports[q].form.phone # f.phone
      BY <1>4, <3>2, Zenon DEF Others, Senders
    <3>4. q \in Ids /\ reports[q].inc = w.pick
      BY <3>3, Zenon DEF Linked
    <3>5. reports[q].form.spot = f.spot
      BY <3>1, <3>4, Zenon DEF RowsInv, Points
    <3>6. QED
      BY <3>3, <3>4, <3>5, Zenon DEF Company
  <2>3. QED
    BY <2>1, <2>2, Zenon
<1> HIDE DEF m
<1>5. d.mark = m /\ d.status = IF f.clear THEN Routed(m, f.cat) ELSE "pending"
  BY <1>2, SMT
<1>6. d.status \in Status /\ Meant(f, d.mark, d.status)
  BY <1>5, SMT DEF Routed, Status, Meant
<1>7. Earned(f, d.mark, 5)
  BY <1>4, <1>5, Zenon DEF Earned
<1>8. QED
  BY <1>3, <1>5, <1>6, <1>7, Zenon

----------------------------------------------------------------------------
(* Steps that leave the rows what they are: a verdict is written, an        *)
(* incident is closed.                                                      *)
RowsKept ==
  /\ reports' \in Seq(ReportRow) /\ DOMAIN reports' = DOMAIN reports
  /\ \A r \in DOMAIN reports :
       /\ reports'[r].form = reports[r].form /\ reports'[r].mark = reports[r].mark
       /\ reports'[r].status = reports[r].status /\ reports'[r].inc = reports[r].inc
  /\ incidents' \in Seq(IncidentRow) /\ DOMAIN incidents' = DOMAIN incidents
  /\ \A i \in DOMAIN incidents :
       /\ incidents'[i].spot = incidents[i].spot /\ incidents'[i].cat = incidents[i].cat
       /\ incidents'[i].needs = incidents[i].needs
       /\ incidents'[i].count = incidents[i].count /\ incidents'[i].sev = incidents[i].sev

(* Then nothing that is read off them changes.                              *)
LEMMA KeptReads ==
  ASSUME RowsInv, RowsKept
  PROVE  /\ Ids' = Ids /\ Len(reports') = Len(reports)
         /\ \A i : (Linked(i))' = Linked(i)
         /\ \A p : (From(p))' = From(p)
         /\ \A s : s \subseteq Ids => (Senders(s))' = Senders(s) /\ (Assessed(s))' = Assessed(s)
         /\ \A f : (Company(f))' <=> Company(f)
<1>1. Ids' = Ids
  BY DEF RowsKept, Ids
<1>2. Len(reports') = Len(reports)
  <2>1. Len(reports) \in Nat /\ Len(reports') \in Nat
          /\ DOMAIN reports = 1..Len(reports) /\ DOMAIN reports' = 1..Len(reports')
    BY LenProperties DEF RowsKept, RowsInv
  <2>2. QED
    BY <2>1, SMT DEF RowsKept
<1>3. ASSUME NEW i PROVE (Linked(i))' = Linked(i)
  BY <1>1, Zenon DEF RowsKept, Linked, Ids
<1>4. ASSUME NEW p PROVE (From(p))' = From(p)
  BY <1>1, Zenon DEF RowsKept, From, Ids
<1>5. ASSUME NEW s, s \subseteq Ids PROVE (Senders(s))' = Senders(s)
  <2>1. \A r \in s : reports'[r].form = reports[r].form
    BY <1>5, Zenon DEF RowsKept, Ids
  <2>2. QED
    BY <2>1, Zenon DEF Senders
<1>6. ASSUME NEW s, s \subseteq Ids PROVE (Assessed(s))' = Assessed(s)
  <2>1. \A r \in s : reports'[r].form = reports[r].form /\ reports'[r].mark = reports[r].mark
    BY <1>6, Zenon DEF RowsKept, Ids
  <2>2. QED
    BY <2>1, Zenon DEF Assessed
<1>7. ASSUME NEW f PROVE (Company(f))' <=> Company(f)
  BY <1>1, Zenon DEF RowsKept, Company, Ids
<1>8. QED
  BY <1>1, <1>2, <1>3, <1>4, <1>5, <1>6, <1>7, Zenon

LEMMA KeptRows ==
  ASSUME RowsInv, RowsKept
  PROVE  RowsInv'
<1>1. ASSUME NEW r \in Ids, reports'[r].inc # 0
      PROVE  /\ reports'[r].inc \in DOMAIN incidents'
             /\ incidents'[reports'[r].inc].spot = reports'[r].form.spot
  <2>1. reports'[r].inc = reports[r].inc /\ reports'[r].form = reports[r].form
    BY DEF RowsKept, Ids
  <2>2. reports[r].inc \in DOMAIN incidents /\ incidents[reports[r].inc].spot = reports[r].form.spot
    BY <1>1, <2>1, Zenon DEF RowsInv
  <2>3. QED
    BY <2>1, <2>2, Zenon DEF RowsKept
<1>2. Ids' = Ids
  BY KeptReads
<1>3. QED
  BY <1>1, <1>2, Zenon DEF RowsInv, RowsKept

LEMMA KeptNeeds ==
  ASSUME RowsInv, RowsKept, NeedsCoverReports
  PROVE  NeedsCoverReports'
<1>1. ASSUME NEW r \in Ids, reports'[r].inc # 0, NEW c \in Capability
      PROVE  incidents'[reports'[r].inc].needs[c] >= reports'[r].form.needs[c]
  <2>1. reports'[r].inc = reports[r].inc /\ reports'[r].form = reports[r].form
    BY DEF RowsKept, Ids
  <2>2. reports[r].inc \in DOMAIN incidents
    BY <1>1, <2>1, Zenon DEF RowsInv
  <2>3. incidents[reports[r].inc].needs[c] >= reports[r].form.needs[c]
    BY <1>1, <2>1, Zenon DEF NeedsCoverReports
  <2>4. QED
    BY <2>1, <2>2, <2>3, Zenon DEF RowsKept
<1>2. Ids' = Ids
  BY KeptReads
<1>3. QED
  BY <1>1, <1>2, Zenon DEF NeedsCoverReports

LEMMA KeptCounts ==
  ASSUME RowsInv, RowsKept
  PROVE  /\ \A i \in DOMAIN incidents : (FollowsReports(i))' <=> FollowsReports(i)
         /\ \A w : (w.pick # 0 => w.pick \in DOMAIN incidents) => (Counted(w))' = Counted(w)
<1>1. ASSUME NEW i \in DOMAIN incidents PROVE (FollowsReports(i))' <=> FollowsReports(i)
  <2>1. Linked(i) \subseteq Ids
    BY DEF Linked
  <2>2. (Linked(i))' = Linked(i) /\ (Senders(Linked(i)))' = Senders(Linked(i))
          /\ (Assessed(Linked(i)))' = Assessed(Linked(i))
    BY <2>1, KeptReads, Zenon DEF Senders, Assessed
  <2>3. QED
    BY <2>2, Zenon DEF RowsKept, FollowsReports
<1>2. ASSUME NEW w, w.pick # 0 => w.pick \in DOMAIN incidents PROVE (Counted(w))' = Counted(w)
  <2> DEFINE s == IF w.pick = 0 THEN {} ELSE Linked(w.pick)
  <2>1. s \subseteq Ids
    BY Zenon DEF Linked
  <2>2. (Linked(w.pick))' = Linked(w.pick)
    BY KeptReads, Zenon
  <2>3. (Senders(s))' = Senders(s) /\ (Assessed(s))' = Assessed(s)
    <3>1. s' = s
      BY <2>2, Zenon
    <3>2. \A u : u \subseteq Ids => (Senders(u))' = Senders(u) /\ (Assessed(u))' = Assessed(u)
      BY KeptReads, Zenon
    <3>3. QED
      BY <2>1, <3>1, <3>2, Zenon DEF Senders, Assessed
  <2> DEFINE c == CategoryOf(w.pick, w.form)
  <2>4. Counted(w) = Recount(c, s, w.form, w.mark) /\ (Counted(w))' = (Recount(c, s, w.form, w.mark))'
    BY Zenon DEF Counted
  <2>5. s' = s /\ c' = c
    BY <1>2, <2>2, Zenon DEF CategoryOf, RowsKept
  <2> HIDE DEF s, c
  <2>6. QED
    BY <2>3, <2>4, <2>5, Zenon DEF Recount, Independent
<1>3. QED
  BY <1>1, <1>2, Zenon

----------------------------------------------------------------------------
(* One handler moves on and writes nothing yet.                             *)
Files(w) == w.pc \in {"find", "weigh", "count", "commit"} /\ w.of = 0
WellMoved(t, w) ==
  /\ w \in Handler /\ Points(w)
  /\ Files(w) => t \in Filing \/ Len(reports) + Cardinality(Filing) < MaxReports
  /\ w.of \notin {0, task[t].of} =>
       reports[w.of].inc = 0 /\ ("officers" \notin scene => \A u \in Task : task[u].of # w.of)
  /\ w.pc = "commit" =>
       /\ [count |-> w.count, sev |-> w.sev] =
             Recount(CategoryOf(w.pick, w.form), IF w.pick = 0 THEN {} ELSE Linked(w.pick) \ {w.of}, w.form, w.mark)
       /\ Apart(t, w.pick)
  /\ w.pc \in {"count", "commit"} =>
       /\ w.of = 0 => Earned(w.form, w.mark, 5)
       /\ Meant(w.form, w.mark, w.status)

LEMMA MovedTasks ==
  ASSUME Inv, RowsKept, NEW t \in Task, NEW w, WellMoved(t, w), task' = [task EXCEPT ![t] = w]
  PROVE  TaskInv'
<1>1. task' \in [Task -> Handler]
  BY Zenon DEF Inv, TaskInv, WellMoved
<1>2. ASSUME NEW u \in Task PROVE (Points(task[u]))'
  <2>1. task'[u] = IF u = t THEN w ELSE task[u]
    BY Zenon DEF Inv, TaskInv
  <2>2. Points(task'[u])
    BY <2>1, Zenon DEF Inv, TaskInv, WellMoved
  <2> DEFINE v == task'[u]
  <2>3. /\ v.pick # 0 => v.pick \in DOMAIN incidents' /\ incidents'[v.pick].spot = v.form.spot
        /\ v.of # 0 => v.of \in Ids' /\ reports'[v.of].form = v.form /\ reports'[v.of].mark = v.mark
    <3>1. /\ v.pick # 0 => v.pick \in DOMAIN incidents /\ incidents[v.pick].spot = v.form.spot
          /\ v.of # 0 => v.of \in Ids /\ reports[v.of].form = v.form /\ reports[v.of].mark = v.mark
      BY <2>2, Zenon DEF Points
    <3> HIDE DEF v
    <3>2. QED
      BY <3>1, Zenon DEF RowsKept, Ids
  <2>4. QED
    BY <2>2, <2>3, Zenon DEF Points
<1>3. QED
  BY <1>1, <1>2, Zenon DEF TaskInv

LEMMA MovedCounts ==
  ASSUME Inv, RowsKept, scene' = scene, {"overlap", "officers"} \cap scene = {},
         NEW t \in Task, NEW w, WellMoved(t, w), task' = [task EXCEPT ![t] = w]
  PROVE  CountsInv'
<1>1. CountsInv
  BY DEF Inv, CountsApart
<1>2. \A u \in Task : task'[u] = IF u = t THEN w ELSE task[u]
  BY Zenon DEF Inv, TaskInv
<1>3. "overlap" \notin scene /\ "officers" \notin scene
  BY Zenon
<1>4. \A i \in DOMAIN incidents' : (FollowsReports(i))'
  BY <1>1, KeptCounts, Zenon DEF CountsInv, RowsKept, Inv
<1>5. w.of # 0 => w.of \in Ids /\ reports[w.of].inc = 0 /\ \A u \in Task \ {t} : task[u].of # w.of
  BY <1>1, <1>3, Zenon DEF WellMoved, Points, CountsInv
<1>6. ASSUME NEW u \in Task, task'[u].of # 0 PROVE reports'[task'[u].of].inc = 0
  <2>1. reports[task'[u].of].inc = 0 /\ task'[u].of \in Ids
    BY <1>1, <1>2, <1>5, <1>6, Zenon DEF CountsInv, Inv, TaskInv, Points
  <2>2. QED
    BY <2>1, Zenon DEF RowsKept, Ids
<1>7. ASSUME NEW u \in Task, task'[u].pc = "commit"
      PROVE  [count |-> task'[u].count, sev |-> task'[u].sev] = (Counted(task[u]))'
  <2> DEFINE v == task'[u]
  <2>1. [count |-> v.count, sev |-> v.sev] = Counted(v)
    <3>1. CASE u = t
      <4>1. v = w
        BY <1>2, <3>1, Zenon
      <4>2. w.pick # 0 => Linked(w.pick) \ {w.of} = Linked(w.pick)
        <5>1. 0 \notin Ids
          BY SetsOfReports, SMT DEF Inv
        <5>2. ASSUME w.pick # 0 PROVE w.of \notin Linked(w.pick)
          BY <1>5, <5>1, <5>2, Zenon DEF Linked
        <5>3. QED
          BY <5>2, Zenon
      <4>3. [count |-> w.count, sev |-> w.sev] =
              Recount(CategoryOf(w.pick, w.form), IF w.pick = 0 THEN {} ELSE Linked(w.pick) \ {w.of},
                      w.form, w.mark)
        BY <1>7, <4>1, Zenon DEF WellMoved
      <4>4. QED
        BY <4>1, <4>2, <4>3, Zenon DEF Counted
    <3>2. CASE u # t
      BY <1>1, <1>2, <1>7, <3>2, Zenon DEF CountsInv
    <3>3. QED
      BY <3>1, <3>2
  <2>2. \A x : (x.pick # 0 => x.pick \in DOMAIN incidents) => (Counted(x))' = Counted(x)
    BY KeptCounts, Zenon DEF Inv
  <2>3. (Counted(task[u]))' = Counted(v)
    <3>1. v.pick # 0 => v.pick \in DOMAIN incidents
      BY <1>2, Zenon DEF Inv, TaskInv, Points, WellMoved
    <3>2. QED
      BY <2>2, <3>1, Zenon DEF Counted, CategoryOf
  <2>4. QED
    BY <2>1, <2>3, Zenon
<1>8. ASSUME NEW u \in Task, NEW v \in Task, u # v, task'[u].of # 0
      PROVE  task'[v].of # task'[u].of
  <2>1. CASE u = t
    BY <1>2, <1>5, <1>8, <2>1, Zenon
  <2>2. CASE v = t
    BY <1>2, <1>5, <1>8, <2>2, Zenon
  <2>3. CASE u # t /\ v # t
    <3>1. task'[u] = task[u] /\ task'[v] = task[v]
      BY <1>2, <2>3, Zenon
    <3>2. task[u].of # 0 => task[v].of # task[u].of
      BY <1>1, <1>8, Zenon DEF CountsInv
    <3>3. QED
      BY <1>8, <3>1, <3>2, Zenon
  <2>4. QED
    BY <2>1, <2>2, <2>3, Zenon
<1>9. ASSUME NEW u \in Task, NEW v \in Task, u # v,
             task'[u].pc = "commit", task'[v].pc = "commit", task'[u].pick # 0
      PROVE  task'[v].pick # task'[u].pick
  <2>1. w.pc = "commit" /\ w.pick # 0 => \A x \in Task \ {t} : task[x].pc = "commit" => task[x].pick # w.pick
    BY <1>3, Zenon DEF WellMoved, Apart
  <2>2. CASE u = t
    BY <1>2, <1>9, <2>1, <2>2, Zenon
  <2>3. CASE v = t
    BY <1>2, <1>9, <2>1, <2>3, Zenon
  <2>4. CASE u # t /\ v # t
    <3>1. task'[u] = task[u] /\ task'[v] = task[v]
      BY <1>2, <2>4, Zenon
    <3>2. task[u].pc = "commit" /\ task[v].pc = "commit" /\ task[u].pick # 0 => task[v].pick # task[u].pick
      BY <1>1, <1>9, Zenon DEF CountsInv
    <3>3. QED
      BY <1>9, <3>1, <3>2, Zenon
  <2>5. QED
    BY <2>2, <2>3, <2>4, Zenon
<1>10. QED
  BY <1>4, <1>6, <1>7, <1>8, <1>9, Zenon DEF CountsInv


LEMMA MovedCompany ==
  ASSUME Inv, RowsKept, NEW t \in Task, NEW w, WellMoved(t, w), task' = [task EXCEPT ![t] = w]
  PROVE  CompanyInv'
<1>1. \A u \in Task : task'[u] = IF u = t THEN w ELSE task[u]
  BY Zenon DEF Inv, TaskInv
<1>2. Ids' = Ids /\ Len(reports') = Len(reports)
  BY KeptReads DEF Inv
<1>3. \A f, m, n : Earned(f, m, n) => (Earned(f, m, n))'
  <2>1. \A f : (Company(f))' <=> Company(f)
    BY KeptReads, Zenon DEF Inv
  <2>2. \A p : (From(p))' = From(p)
    BY KeptReads, Zenon DEF Inv
  <2>3. QED
    BY <2>1, <2>2, Zenon DEF Earned
<1>4. Len(reports') + Cardinality(Filing') <= MaxReports
  <2>1. IsFiniteSet(Filing) /\ Cardinality(Filing) \in Nat
    BY IntakeAssumption, FS_Subset, FS_CardinalityType DEF Filing
  <2>2. Filing' \subseteq Filing \cup {t}
    BY <1>1, Zenon DEF Filing
  <2>3. Files(w) \/ Filing' \subseteq Filing
    BY <1>1, Zenon DEF Filing, Files
  <2>4. IsFiniteSet(Filing \cup {t})
          /\ Cardinality(Filing \cup {t}) = IF t \in Filing THEN Cardinality(Filing) ELSE Cardinality(Filing) + 1
    BY <2>1, FS_AddElement
  <2>5. Cardinality(Filing') <= Cardinality(Filing \cup {t}) /\ Cardinality(Filing') \in Nat
    BY <2>2, <2>4, FS_Subset, FS_CardinalityType
  <2>6. Filing' \subseteq Filing => Cardinality(Filing') <= Cardinality(Filing)
    BY <2>1, FS_Subset
  <2>7. Len(reports) \in Nat /\ Len(reports) + Cardinality(Filing) <= MaxReports
    BY SetsOfReports DEF Inv, CompanyInv
  <2>8. Files(w) => t \in Filing \/ Len(reports) + Cardinality(Filing) < MaxReports
    BY Zenon DEF WellMoved
  <2>9. QED
    BY <1>2, <2>1, <2>3, <2>4, <2>5, <2>6, <2>7, <2>8, IntakeAssumption, SMTT(30)
<1>5. ASSUME NEW r \in Ids
      PROVE  (Earned(reports[r].form, reports[r].mark, 6))'
               /\ Meant(reports'[r].form, reports'[r].mark, reports'[r].status)
  <2>1. Earned(reports[r].form, reports[r].mark, 6) /\ Meant(reports[r].form, reports[r].mark, reports[r].status)
    BY Zenon DEF Inv, CompanyInv
  <2>2. /\ reports'[r].form = reports[r].form /\ reports'[r].mark = reports[r].mark
        /\ reports'[r].status = reports[r].status
    BY DEF RowsKept, Ids
  <2>3. QED
    BY <1>3, <2>1, <2>2, Zenon DEF Earned
<1>6. ASSUME NEW u \in Task, task'[u].pc \in {"count", "commit"}
      PROVE  /\ task'[u].of = 0 => (Earned(task[u].form, task[u].mark, 5))'
             /\ Meant(task'[u].form, task'[u].mark, task'[u].status)
  <2>1. /\ task'[u].of = 0 => Earned(task'[u].form, task'[u].mark, 5)
        /\ Meant(task'[u].form, task'[u].mark, task'[u].status)
    <3>1. CASE u = t
      BY <1>1, <1>6, <3>1, Zenon DEF WellMoved
    <3>2. CASE u # t
      BY <1>1, <1>6, <3>2, Zenon DEF Inv, CompanyInv
    <3>3. QED
      BY <3>1, <3>2, Zenon
  <2>2. QED
    BY <1>3, <2>1, Zenon DEF Earned
<1>7. QED
  BY <1>2, <1>4, <1>5, <1>6, Zenon DEF CompanyInv, Meant

LEMMA Moved ==
  ASSUME Inv, RowsKept, scene' = scene, NEW t \in Task, NEW w, WellMoved(t, w), task' = [task EXCEPT ![t] = w]
  PROVE  Inv'
<1>1. RowsInv' /\ NeedsCoverReports'
  BY KeptRows, KeptNeeds DEF Inv
<1>2. TaskInv' /\ CompanyInv'
  BY MovedTasks, MovedCompany
<1>3. CountsApart'
  <2>1. CASE {"overlap", "officers"} \cap scene = {}
    <3>1. CountsInv'
      BY <2>1, MovedCounts
    <3>2. QED
      BY <3>1, Zenon DEF CountsApart
  <2>2. CASE {"overlap", "officers"} \cap scene # {}
    BY <2>2, Zenon DEF CountsApart
  <2>3. QED
    BY <2>1, <2>2, Zenon
<1>4. QED
  BY <1>1, <1>2, <1>3, Zenon DEF Inv

(* A verdict, a closed incident and its confirmed reports move no handler.  *)
LEMMA Unmoved ==
  ASSUME Inv, RowsKept, scene' = scene, task' = task
  PROVE  Inv'
<1>1. RowsInv' /\ NeedsCoverReports'
  BY KeptRows, KeptNeeds DEF Inv
<1>2. TaskInv'
  <2>1. ASSUME NEW u \in Task PROVE (Points(task[u]))'
    <3> DEFINE v == task[u]
    <3>1. Points(v)
      BY Zenon DEF Inv, TaskInv
    <3>2. /\ v.pick # 0 => v.pick \in DOMAIN incidents' /\ incidents'[v.pick].spot = v.form.spot
          /\ v.of # 0 => v.of \in Ids' /\ reports'[v.of].form = v.form /\ reports'[v.of].mark = v.mark
      <4>1. /\ v.pick # 0 => v.pick \in DOMAIN incidents /\ incidents[v.pick].spot = v.form.spot
            /\ v.of # 0 => v.of \in Ids /\ reports[v.of].form = v.form /\ reports[v.of].mark = v.mark
        BY <3>1, Zenon DEF Points
      <4> HIDE DEF v
      <4>2. QED
        BY <4>1, Zenon DEF RowsKept, Ids
    <3>3. QED
      BY <3>1, <3>2, Zenon DEF Points
  <2>2. QED
    BY <2>1, Zenon DEF Inv, TaskInv
<1>3. ASSUME {"overlap", "officers"} \cap scene = {} PROVE CountsInv'
  <2>1. CountsInv
    BY <1>3, Zenon DEF Inv, CountsApart
  <2>2. \A i \in DOMAIN incidents' : (FollowsReports(i))'
    BY <2>1, KeptCounts, Zenon DEF CountsInv, RowsKept, Inv
  <2>3. ASSUME NEW u \in Task, task[u].of # 0 PROVE reports'[task[u].of].inc = 0
    BY <2>1, <2>3, Zenon DEF CountsInv, Inv, TaskInv, Points, RowsKept, Ids
  <2>4. \A u \in Task : (Counted(task[u]))' = Counted(task[u])
    <3>1. \A w : (w.pick # 0 => w.pick \in DOMAIN incidents) => (Counted(w))' = Counted(w)
      BY KeptCounts, Zenon DEF Inv
    <3>2. \A u \in Task : task[u].pick # 0 => task[u].pick \in DOMAIN incidents
      BY Zenon DEF Inv, TaskInv, Points
    <3>3. QED
      BY <3>1, <3>2, Zenon DEF Counted, CategoryOf
  <2>5. QED
    BY <2>1, <2>2, <2>3, <2>4, Zenon DEF CountsInv
<1>4. CompanyInv'
  <2>1. Ids' = Ids /\ Len(reports') = Len(reports)
    BY KeptReads DEF Inv
  <2>2. Filing' = Filing
    BY Zenon DEF Filing
  <2>3. \A f, m, n : Earned(f, m, n) => (Earned(f, m, n))'
    <3>1. (\A f : (Company(f))' <=> Company(f)) /\ \A p : (From(p))' = From(p)
      BY KeptReads, Zenon DEF Inv
    <3>2. QED
      BY <3>1, Zenon DEF Earned
  <2>4. ASSUME NEW r \in Ids
        PROVE  (Earned(reports[r].form, reports[r].mark, 6))'
                 /\ Meant(reports'[r].form, reports'[r].mark, reports'[r].status)
    <3>1. Earned(reports[r].form, reports[r].mark, 6) /\ Meant(reports[r].form, reports[r].mark, reports[r].status)
      BY Zenon DEF Inv, CompanyInv
    <3>2. /\ reports'[r].form = reports[r].form /\ reports'[r].mark = reports[r].mark
          /\ reports'[r].status = reports[r].status
      BY DEF RowsKept, Ids
    <3>3. QED
      BY <2>3, <3>1, <3>2, Zenon DEF Earned
  <2>5. ASSUME NEW u \in Task, task[u].pc \in {"count", "commit"}
        PROVE  /\ task[u].of = 0 => (Earned(task[u].form, task[u].mark, 5))'
               /\ Meant(task[u].form, task[u].mark, task[u].status)
    BY <2>3, <2>5, Zenon DEF Inv, CompanyInv, Earned
  <2>6. Len(reports) + Cardinality(Filing) <= MaxReports
    BY DEF Inv, CompanyInv
  <2>7. QED
    BY <2>1, <2>2, <2>4, <2>5, <2>6, Zenon DEF CompanyInv, Meant
<1>5. QED
  BY <1>1, <1>2, <1>3, <1>4, Zenon DEF Inv, CountsApart

----------------------------------------------------------------------------
(* Each step of a handler, but the two that write.                          *)

LEMMA SameRows ==
  ASSUME RowsInv, UNCHANGED rows
  PROVE  RowsKept
BY Zenon DEF RowsInv, RowsKept, rows

LEMMA IdleFits ==
  /\ Idle \in Handler /\ Points(Idle)
  /\ Idle.pc = "idle" /\ Idle.of = 0 /\ Idle.pick = 0
<1>1. (CHOOSE f \in Form : TRUE) \in Form
  <2>1. Form # {}
    BY IntakeAssumption, SMT
  <2>2. QED
    BY <2>1, Zenon
<1>2. 0 \in Severities
  BY Zenon DEF Severities
<1>3. Idle \in Handler
  <2> DEFINE f == CHOOSE g \in Form : TRUE
  <2>1. f \in Form
    BY <1>1
  <2> HIDE DEF f
  <2>2. [pc |-> "idle", form |-> f, of |-> 0, pick |-> 0, sure |-> TRUE, mark |-> "low",
         status |-> "pending", count |-> 0, sev |-> 0] \in Handler
    BY <2>1, <1>2, SMT DEF Handler, Steps, Mark, Status
  <2>3. QED
    BY <2>2, Zenon DEF Idle, f
<1>4. Idle.pc = "idle" /\ Idle.of = 0 /\ Idle.pick = 0
  BY SMT DEF Idle
<1>5. QED
  BY <1>3, <1>4, SMT DEF Points

LEMMA DecisionsFit ==
  ASSUME RowsInv, NEW f, NEW d \in Decisions(f)
  PROVE  /\ d[1] \in Nat /\ d[2] \in BOOLEAN
         /\ d[1] # 0 => d[1] \in DOMAIN incidents /\ incidents[d[1]].spot = f.spot
<1>1. \A i \in Candidates(f) : i \in DOMAIN incidents /\ incidents[i].spot = f.spot
  BY Zenon DEF Candidates
<1>2. \A i \in DOMAIN incidents : i \in Nat
  BY LenProperties, SMT DEF RowsInv
<1>3. d = <<0, TRUE>> \/ d \in Candidates(f) \X {TRUE} \/ d \in Candidates(f) \X {FALSE}
  BY Zenon DEF Decisions
<1>4. CASE d = <<0, TRUE>>
  BY <1>4, SMT
<1>5. ASSUME NEW b \in BOOLEAN, d \in Candidates(f) \X {b} PROVE d[1] \in Candidates(f) /\ d[2] \in BOOLEAN
  <2> DEFINE c == Candidates(f)
  <2> HIDE DEF c
  <2>1. d \in c \X {b}
    BY <1>5 DEF c
  <2>2. d[1] \in c /\ d[2] \in {b}
    BY <2>1, Zenon
  <2>3. QED
    BY <1>5, <2>2, Zenon DEF c
<1>6. CASE d[1] \in Candidates(f) /\ d[2] \in BOOLEAN
  BY <1>1, <1>2, <1>6, Zenon
<1>7. QED
  BY <1>3, <1>4, <1>5, <1>6, Zenon

LEMMA SendersAreFinite ==
  ASSUME RowsInv, NEW s, s \subseteq Ids
  PROVE  IsFiniteSet(Senders(s))
<1> DEFINE g == [r \in s |-> <<reports[r].form.phone, IF reports[r].form.phone = Nobody THEN r ELSE 0>>]
<1>1. IsFiniteSet(s)
  BY SetsOfReports
<1>2. Senders(s) = {g[r] : r \in s}
  BY Zenon DEF Senders
<1>3. g \in Surjection(s, Senders(s))
  BY <1>2, Zenon DEF Surjection
<1>4. QED
  BY <1>1, <1>3, FS_Surjection

(* A report adds one sender if any: what its transaction counts for it (0   *)
(* for the row it has not inserted) is as many as the row will count for.   *)
LEMMA OneMoreSender ==
  ASSUME RowsInv, NEW l, l \subseteq Ids, NEW f, NEW k, k \notin l, IsFiniteSet(Senders(l))
  PROVE  Cardinality(Senders(l) \cup {<<f.phone, IF f.phone = Nobody THEN k ELSE 0>>}) = Independent(l, f)
<1> DEFINE s == Senders(l)
<1>1. CASE f.phone # Nobody
  BY <1>1, Zenon DEF Independent
<1>2. CASE f.phone = Nobody
  <2>1. <<f.phone, k>> \notin s
    <3>1. ASSUME NEW r \in l,
                 <<f.phone, k>> = <<reports[r].form.phone, IF reports[r].form.phone = Nobody THEN r ELSE 0>>
          PROVE  FALSE
      <4>1. reports[r].form.phone = f.phone /\ k = IF reports[r].form.phone = Nobody THEN r ELSE 0
        BY <3>1, SMT
      <4>2. QED
        BY <1>2, <4>1, Zenon
    <3>2. QED
      BY <3>1, Zenon DEF Senders
  <2>2. <<f.phone, 0>> \notin s
    <3>1. ASSUME NEW r \in l,
                 <<f.phone, 0>> = <<reports[r].form.phone, IF reports[r].form.phone = Nobody THEN r ELSE 0>>
          PROVE  FALSE
      <4>1. reports[r].form.phone = f.phone /\ 0 = IF reports[r].form.phone = Nobody THEN r ELSE 0
        BY <3>1, SMT
      <4>2. r # 0
        BY SetsOfReports, SMT
      <4>3. QED
        BY <1>2, <4>1, <4>2, Zenon
    <3>2. QED
      BY <3>1, Zenon DEF Senders
  <2> HIDE DEF s
  <2>3. \A x : x \notin s => Cardinality(s \cup {x}) = Cardinality(s) + 1
    BY FS_AddElement DEF s
  <2>4. Cardinality(s \cup {<<f.phone, k>>}) = Cardinality(s \cup {<<f.phone, 0>>})
    BY <2>1, <2>2, <2>3, Zenon
  <2>5. QED
    BY <1>2, <2>4, Zenon DEF Independent, s
<1>3. QED
  BY <1>1, <1>2, Zenon

(* Numbers of people are numbers, and what is counted is of its kind.       *)
LEMMA RecountFits ==
  ASSUME RowsInv, NEW cat \in Category, NEW s, s \subseteq Ids, NEW f \in Form, NEW mark
  PROVE  Recount(cat, s, f, mark).count \in Nat /\ Recount(cat, s, f, mark).sev \in Severities
<1>1. IsFiniteSet(s) /\ Cardinality(s) \in Nat
  BY SetsOfReports, FS_CardinalityType
<1>2. IsFiniteSet(Senders(s))
  BY SendersAreFinite, Zenon
<1> DEFINE n == Independent(s, f)
           read == Assessed(s) \cup (IF mark = "low" THEN {} ELSE {Reading(f)})
<1>3. n \in Nat
  BY <1>2, FS_AddElement, FS_CardinalityType DEF Independent
<1>4. read \in SUBSET Readings
  <2>1. \A r \in s : reports[r].form \in Form
    BY RowTypes, Zenon DEF ReportRow
  <2>2. Assessed(s) \subseteq Readings
    BY <2>1, Zenon DEF Assessed, Readings
  <2>3. QED
    BY <2>2, Zenon DEF Readings
<1>6. Severity(cat, n, read) \in Severities
  <2> HIDE DEF n, read
  <2> DEFINE c == <<cat, n, read>>
  <2>1. c \in Category \X Nat \X SUBSET Readings
    BY <1>3, <1>4, Zenon
  <2>2. c[1] = cat /\ c[2] = n /\ c[3] = read
    BY SMT
  <2> HIDE DEF c
  <2>3. Severity(c[1], c[2], c[3]) \in Severities
    BY <2>1, Zenon DEF Severities
  <2>4. QED
    BY <2>2, <2>3, Zenon
<1>7. Recount(cat, s, f, mark) = [count |-> Cardinality(s) + 1, sev |-> Severity(cat, n, read)]
  BY Zenon DEF Recount
<1> HIDE DEF n, read
<1>8. QED
  BY <1>1, <1>6, <1>7, SMT

MovesOn(t) == RowsKept /\ scene' = scene /\ \E w : WellMoved(t, w) /\ task' = [task EXCEPT ![t] = w]

LEMMA ReceiveMoves ==
  ASSUME Inv, NEW t \in Task, CitizenReports(t) \/ CrewReports(t) \/ AnonymousReports(t)
  PROVE  MovesOn(t)
<1>1. PICK f \in Form : task' = [task EXCEPT ![t] = [Idle EXCEPT !.pc = "find", !.form = f]]
  BY Zenon DEF CitizenReports, CrewReports, AnonymousReports, Receive
<1> DEFINE w == [Idle EXCEPT !.pc = "find", !.form = f]
<1>2. w \in Handler /\ w.pc = "find" /\ w.of = 0 /\ w.pick = 0
  <2>1. Idle \in Handler /\ Idle.of = 0 /\ Idle.pick = 0
    BY IdleFits
  <2>2. w \in Handler
    BY <2>1, Zenon DEF Handler, Steps
  <2>3. w.pc = "find" /\ w.of = Idle.of /\ w.pick = Idle.pick
    BY <2>1, SMT DEF Handler
  <2>4. QED
    BY <2>1, <2>2, <2>3, Zenon
<1> HIDE DEF w
<1>3. Points(w)
  BY <1>2, SMT DEF Points
<1>4. Len(reports) + Cardinality(Filing) < MaxReports /\ UNCHANGED <<rows, scene>>
  BY Zenon DEF CitizenReports, CrewReports, AnonymousReports, Receive, rigid
<1>5. WellMoved(t, w)
  BY <1>2, <1>3, <1>4, Zenon DEF WellMoved
<1>6. RowsKept
  BY <1>4, SameRows, Zenon DEF Inv
<1>7. task' = [task EXCEPT ![t] = w]
  BY <1>1 DEF w
<1>8. QED
  BY <1>4, <1>5, <1>6, <1>7, Zenon DEF MovesOn

(* The same incident is looked for in the transaction or before it.         *)
LEMMA SearchMoves ==
  ASSUME Inv, NEW t \in Task, Find(t) \/ Seek(t)
  PROVE  MovesOn(t)
<1> DEFINE v == task[t]
<1>1. v \in Handler /\ Points(v) /\ v.pc \in {"find", "seek"}
  BY Zenon DEF Inv, TaskInv, Find, Seek
<1>2. PICK next \in {"weigh", "open"}, d \in Decisions(v.form) :
        /\ v.pc = (IF next = "weigh" THEN "find" ELSE "seek")
        /\ task' = [task EXCEPT ![t].pc = next, ![t].pick = d[1], ![t].sure = d[2]]
  <2>1. CASE Find(t)
    <3>1. PICK d \in Decisions(v.form) :
            task' = [task EXCEPT ![t].pc = "weigh", ![t].pick = d[1], ![t].sure = d[2]]
      BY <2>1, Zenon DEF Find
    <3>2. v.pc = "find"
      BY <2>1, Zenon DEF Find
    <3>3. v.pc = (IF "weigh" = "weigh" THEN "find" ELSE "seek")
      BY <3>2, SMT
    <3>4. QED
      BY <3>1, <3>3, Zenon
  <2>2. CASE Seek(t)
    <3>1. PICK d \in Decisions(v.form) :
            task' = [task EXCEPT ![t].pc = "open", ![t].pick = d[1], ![t].sure = d[2]]
      BY <2>2, Zenon DEF Seek
    <3>2. v.pc = "seek"
      BY <2>2, Zenon DEF Seek
    <3>3. v.pc = (IF "open" = "weigh" THEN "find" ELSE "seek")
      BY <3>2, SMT
    <3>4. QED
      BY <3>1, <3>3, Zenon
  <2>3. QED
    BY <2>1, <2>2
<1>3. UNCHANGED <<rows, scene>>
  BY Zenon DEF Find, Seek, rigid
<1> DEFINE w == [v EXCEPT !.pc = next, !.pick = d[1], !.sure = d[2]]
<1>4. task' = [task EXCEPT ![t] = w]
  BY <1>2, Zenon DEF Inv, TaskInv
<1>5. /\ d[1] \in Nat /\ d[2] \in BOOLEAN
      /\ d[1] # 0 => d[1] \in DOMAIN incidents /\ incidents[d[1]].spot = v.form.spot
  BY DecisionsFit DEF Inv
<1> HIDE DEF v
<1>6. w \in Handler /\ w.pc = next /\ w.pick = d[1] /\ w.of = v.of /\ w.form = v.form /\ w.mark = v.mark
  <2> DEFINE i == d[1]
             s == d[2]
  <2> HIDE DEF i, s
  <2>1. w = [v EXCEPT !.pc = next, !.pick = i, !.sure = s]
    BY Zenon DEF i, s
  <2>2. i \in Nat /\ s \in BOOLEAN /\ next \in Steps
    BY <1>5, Zenon DEF i, s, Steps
  <2> HIDE DEF w
  <2>3. w \in Handler
    BY <1>1, <2>1, <2>2, Zenon DEF Handler
  <2>4. w.pc = next /\ w.pick = i /\ w.of = v.of /\ w.form = v.form /\ w.mark = v.mark
    BY <1>1, <2>1, SMT DEF Handler
  <2>5. QED
    BY <2>3, <2>4, Zenon DEF i
<1> HIDE DEF w
<1>7. Points(w) /\ w.pc \in {"weigh", "open"}
  BY <1>1, <1>2, <1>5, <1>6, SMT DEF Points
<1>8. Files(w) => t \in Filing
  <2>1. ASSUME Files(w) PROVE v.pc = "find" /\ v.of = 0
    BY <1>2, <1>6, <1>7, <2>1, SMT DEF Files
  <2>2. QED
    BY <2>1, Zenon DEF Filing, v
<1>9. WellMoved(t, w)
  BY <1>6, <1>7, <1>8, Zenon DEF WellMoved, v
<1>10. RowsKept
  BY <1>3, SameRows, Zenon DEF Inv
<1>11. QED
  BY <1>3, <1>4, <1>9, <1>10, Zenon DEF MovesOn

(* A report that is believed goes on with its mark.                         *)
LEMMA WeighMoves ==
  ASSUME Inv, NEW t \in Task, Weigh(t)
  PROVE  MovesOn(t)
<1> DEFINE v == task[t]
<1>1. v \in Handler /\ Points(v) /\ v.pc = "weigh" /\ v.of = 0
  BY Zenon DEF Inv, TaskInv, Weigh, Points
<1>2. PICK d \in Trust(v) : task' = [task EXCEPT ![t] = [@ EXCEPT !.pc = "count", !.mark = d.mark, !.status = d.status]]
  BY Zenon DEF Weigh
<1>3. UNCHANGED <<rows, scene>>
  BY Zenon DEF Weigh, rigid
<1> DEFINE w == [v EXCEPT !.pc = "count", !.mark = d.mark, !.status = d.status]
<1>4. task' = [task EXCEPT ![t] = w]
  BY <1>2, SMT DEF Inv, TaskInv
<1>5. Len(reports) <= MaxReports
  <2>1. IsFiniteSet(Filing) /\ Cardinality(Filing) \in Nat
    BY IntakeAssumption, FS_Subset, FS_CardinalityType DEF Filing
  <2>2. Len(reports) \in Nat /\ Len(reports) + Cardinality(Filing) <= MaxReports
    BY SetsOfReports DEF Inv, CompanyInv
  <2>3. QED
    BY <2>1, <2>2, IntakeAssumption, SMTT(30)
<1>6. /\ d.mark \in Mark /\ d.status \in Status
      /\ Earned(v.form, d.mark, 5) /\ Meant(v.form, d.mark, d.status)
  BY <1>1, <1>5, TrustIsEarned DEF Inv
<1>7. t \in Filing
  BY <1>1, Zenon DEF Filing
<1> HIDE DEF v
<1>8. /\ w \in Handler /\ w.pc = "count" /\ w.pick = v.pick /\ w.of = 0 /\ w.form = v.form
      /\ w.mark = d.mark /\ w.status = d.status
  <2>1. w \in Handler
    BY <1>1, <1>6, Zenon DEF Handler, Steps
  <2>2. /\ w.pc = "count" /\ w.pick = v.pick /\ w.of = v.of /\ w.form = v.form
        /\ w.mark = d.mark /\ w.status = d.status
    BY <1>1, SMT DEF Handler
  <2>3. QED
    BY <1>1, <2>1, <2>2, Zenon
<1> HIDE DEF w
<1>9. Points(w)
  BY <1>1, <1>8, SMT DEF Points
<1>10. WellMoved(t, w)
  BY <1>6, <1>7, <1>8, <1>9, Zenon DEF WellMoved
<1>11. RowsKept
  BY <1>3, SameRows, Zenon DEF Inv
<1>12. QED
  BY <1>3, <1>4, <1>10, <1>11, Zenon DEF MovesOn

(* A held report stands behind nothing yet.                                 *)
LEMMA ClassifyMoves ==
  ASSUME Inv, NEW t \in Task, Classify(t)
  PROVE  MovesOn(t)
<1>1. PICK r \in Ids :
        /\ Held(r)
        /\ "officers" \in scene \/ \A u \in Task : task[u].of # r
        /\ task' = [task EXCEPT ![t] = [Idle EXCEPT !.pc = "seek", !.form = reports[r].form, !.of = r,
                                                    !.mark = reports[r].mark]]
  BY Zenon DEF Classify
<1>2. UNCHANGED <<rows, scene>>
  BY Zenon DEF Classify, rigid
<1> DEFINE f == reports[r].form
           m == reports[r].mark
           w == [Idle EXCEPT !.pc = "seek", !.form = f, !.of = r, !.mark = m]
<1>3. f \in Form /\ m \in Mark /\ r \in Nat /\ r # 0
  <2>1. reports[r] \in ReportRow
    BY RowTypes DEF Inv
  <2>2. f \in Form /\ m \in Mark
    BY <2>1, SMT DEF ReportRow
  <2>3. QED
    BY <2>2, SetsOfReports, SMT DEF Inv
<1>4. w \in Handler /\ w.pc = "seek" /\ w.of = r /\ w.pick = 0 /\ w.form = f /\ w.mark = m
  <2>1. Idle \in Handler /\ Idle.pick = 0
    BY IdleFits
  <2> HIDE DEF f, m
  <2>2. w \in Handler
    BY <1>3, <2>1, Zenon DEF Handler, Steps
  <2>3. w.pc = "seek" /\ w.of = r /\ w.pick = Idle.pick /\ w.form = f /\ w.mark = m
    BY <2>1, SMT DEF Handler
  <2>4. QED
    BY <2>1, <2>2, <2>3, Zenon
<1>5. task' = [task EXCEPT ![t] = w]
  BY <1>1, Zenon
<1> HIDE DEF w
<1>6. Points(w)
  BY <1>3, <1>4, SMT DEF Points
<1>7. reports[r].inc = 0
  BY <1>1, Zenon DEF Held
<1>8. WellMoved(t, w)
  BY <1>1, <1>3, <1>4, <1>6, <1>7, Zenon DEF WellMoved, Files
<1>9. RowsKept
  BY <1>2, SameRows, Zenon DEF Inv
<1>10. QED
  BY <1>2, <1>5, <1>8, <1>9, Zenon DEF MovesOn

LEMMA OpenMoves ==
  ASSUME Inv, NEW t \in Task, Open(t)
  PROVE  MovesOn(t)
<1> DEFINE v == task[t]
           w == [v EXCEPT !.pc = "lock"]
<1>1. v \in Handler /\ Points(v) /\ v.pc = "open"
  BY Zenon DEF Inv, TaskInv, Open
<1>2. task' = [task EXCEPT ![t] = w] /\ UNCHANGED <<rows, scene>>
  BY Zenon DEF Open, rigid
<1> HIDE DEF v
<1>3. /\ w \in Handler /\ w.pc = "lock" /\ w.pick = v.pick /\ w.of = v.of /\ w.form = v.form
      /\ w.mark = v.mark
  <2>1. w \in Handler
    BY <1>1, Zenon DEF Handler, Steps
  <2>2. /\ w.pc = "lock" /\ w.pick = v.pick /\ w.of = v.of /\ w.form = v.form
        /\ w.mark = v.mark
    BY <1>1, SMT DEF Handler
  <2>3. QED
    BY <2>1, <2>2, Zenon
<1> HIDE DEF w
<1>4. Points(w) /\ w.of # 0
  BY <1>1, <1>3, SMT DEF Points
<1>5. WellMoved(t, w)
  BY <1>3, <1>4, Zenon DEF WellMoved, Files, v
<1>6. RowsKept
  BY <1>2, SameRows, Zenon DEF Inv
<1>7. QED
  BY <1>2, <1>5, <1>6, Zenon DEF MovesOn

(* An officer's yes confirms a report for its mark or for its category.     *)
LEMMA LockMoves ==
  ASSUME Inv, NEW t \in Task, Lock(t)
  PROVE  MovesOn(t)
<1> DEFINE v == task[t]
           s == IF v.mark = "high" \/ v.form.cat \in LifeSafety THEN "auto_confirmed" ELSE "needs_corroboration"
           w == [v EXCEPT !.pc = "count", !.status = s]
<1>1. v \in Handler /\ Points(v) /\ v.pc = "lock"
  BY Zenon DEF Inv, TaskInv, Lock
<1>2. task' = [task EXCEPT ![t] = w] /\ UNCHANGED <<rows, scene>>
  BY Zenon DEF Lock, rigid
<1>3. s \in Status /\ Meant(v.form, v.mark, s)
  BY SMT DEF Status, Meant
<1> HIDE DEF v, s
<1>4. /\ w \in Handler /\ w.pc = "count" /\ w.pick = v.pick /\ w.of = v.of /\ w.form = v.form
      /\ w.mark = v.mark /\ w.status = s
  <2>1. w \in Handler
    BY <1>1, <1>3, Zenon DEF Handler, Steps
  <2>2. /\ w.pc = "count" /\ w.pick = v.pick /\ w.of = v.of /\ w.form = v.form
        /\ w.mark = v.mark /\ w.status = s
    BY <1>1, SMT DEF Handler
  <2>3. QED
    BY <2>1, <2>2, Zenon
<1> HIDE DEF w
<1>5. Points(w) /\ w.of # 0
  BY <1>1, <1>4, SMT DEF Points
<1>6. WellMoved(t, w)
  BY <1>3, <1>4, <1>5, Zenon DEF WellMoved, Files, v
<1>7. RowsKept
  BY <1>2, SameRows, Zenon DEF Inv
<1>8. QED
  BY <1>2, <1>6, <1>7, Zenon DEF MovesOn

LEMMA CountMoves ==
  ASSUME Inv, NEW t \in Task, Count(t)
  PROVE  MovesOn(t)
<1> DEFINE v == task[t]
<1>1. v \in Handler /\ Points(v) /\ v.pc = "count"
  BY Zenon DEF Inv, TaskInv, Count
<1>2. PICK i \in Adjudicated(v) :
        \E s \in {IF i = 0 THEN {} ELSE Linked(i) \ {v.of}} :
          \E c \in {Recount(CategoryOf(i, v.form), s, v.form, v.mark)} :
            /\ Apart(t, i)
            /\ task' = [task EXCEPT ![t].pc = "commit", ![t].pick = i, ![t].sure = TRUE,
                                    ![t].count = c.count, ![t].sev = c.sev]
  BY Zenon DEF Count
<1> DEFINE s == IF i = 0 THEN {} ELSE Linked(i) \ {v.of}
           cat == CategoryOf(i, v.form)
           c == Recount(cat, s, v.form, v.mark)
           n == c.count
           x == c.sev
           w == [v EXCEPT !.pc = "commit", !.pick = i, !.sure = TRUE, !.count = n, !.sev = x]
<1>3. Apart(t, i) /\ task' = [task EXCEPT ![t] = w]
  BY <1>2, Zenon DEF Inv, TaskInv
<1>4. UNCHANGED <<rows, scene>>
  BY Zenon DEF Count, rigid
<1>5. n \in Nat /\ x \in Severities /\ c = [count |-> n, sev |-> x]
  <2>1. s \subseteq Ids /\ v.form \in Form
    BY <1>1, Zenon DEF Linked, Handler
  <2>2. n \in Nat /\ x \in Severities
    <3>1. cat \in Category
      <4>1. CASE i = 0
        BY <2>1, <4>1, FormTypes, Zenon DEF CategoryOf
      <4>2. CASE i # 0
        <5>1. i \in DOMAIN incidents
          BY <1>1, <1>2, <4>2, Zenon DEF Adjudicated, Points
        <5>2. DOMAIN incidents = 1..Len(incidents)
          BY LenProperties DEF Inv, RowsInv
        <5>3. incidents[i] \in IncidentRow
          BY <5>1, <5>2, ElementOfSeq DEF Inv, RowsInv
        <5>4. incidents[i].cat \in Category
          BY <5>3, Zenon DEF IncidentRow
        <5>5. QED
          BY <4>2, <5>4, Zenon DEF CategoryOf
      <4>3. QED
        BY <4>1, <4>2, Zenon
    <3> HIDE DEF s, v, cat
    <3>2. QED
      BY <2>1, <3>1, RecountFits DEF Inv
  <2>3. c = [count |-> c.count, sev |-> c.sev]
    BY SMT DEF Recount
  <2>4. QED
    BY <2>2, <2>3, Zenon
<1>6. i \in {0, v.pick} /\ i \in Nat
  BY <1>1, <1>2, SMT DEF Adjudicated, Handler
<1>7. /\ v.of = 0 => Earned(v.form, v.mark, 5)
      /\ Meant(v.form, v.mark, v.status)
  BY <1>1, Zenon DEF Inv, CompanyInv
<1>8. v.of = 0 => t \in Filing
  BY <1>1, Zenon DEF Filing
<1> HIDE DEF v, n, x
<1>9. /\ w \in Handler /\ w.pc = "commit" /\ w.pick = i /\ w.of = v.of /\ w.form = v.form
      /\ w.mark = v.mark /\ w.status = v.status /\ w.count = n /\ w.sev = x
  <2>1. w \in Handler
    BY <1>1, <1>5, <1>6, Zenon DEF Handler, Steps
  <2>2. /\ w.pc = "commit" /\ w.pick = i /\ w.of = v.of /\ w.form = v.form
        /\ w.mark = v.mark /\ w.status = v.status /\ w.count = n /\ w.sev = x
    BY <1>1, SMT DEF Handler
  <2>3. QED
    BY <2>1, <2>2, Zenon
<1> HIDE DEF w
<1>10. Points(w)
  BY <1>1, <1>6, <1>9, SMT DEF Points
<1>11. [count |-> w.count, sev |-> w.sev] =
         Recount(CategoryOf(w.pick, w.form), IF w.pick = 0 THEN {} ELSE Linked(w.pick) \ {w.of}, w.form, w.mark)
  BY <1>5, <1>9, Zenon
<1>12. WellMoved(t, w)
  BY <1>3, <1>7, <1>8, <1>9, <1>10, <1>11, Zenon DEF WellMoved, Files, v
<1>13. RowsKept
  BY <1>4, SameRows, Zenon DEF Inv
<1>14. QED
  BY <1>3, <1>4, <1>12, <1>13, Zenon DEF MovesOn

LEMMA AbortMoves ==
  ASSUME Inv, NEW t \in Task, Abort(t)
  PROVE  MovesOn(t)
<1>1. task' = [task EXCEPT ![t] = Idle] /\ UNCHANGED <<rows, scene>>
  BY Zenon DEF Abort, rigid
<1>2. WellMoved(t, Idle)
  BY IdleFits, Zenon DEF WellMoved, Files
<1>3. RowsKept
  BY <1>1, SameRows, Zenon DEF Inv
<1>4. QED
  BY <1>1, <1>2, <1>3, Zenon DEF MovesOn

----------------------------------------------------------------------------
(* What is found out changes outcomes, and closes incidents.                *)

LEMMA JudgedRows ==
  ASSUME RowsInv, UNCHANGED incidents, NEW s, NEW o \in {"confirmed", "false"},
         reports' = [q \in Ids |-> IF q \in s THEN [reports[q] EXCEPT !.outcome = o] ELSE reports[q]]
  PROVE  RowsKept
<1>1. ASSUME NEW q \in Ids
      PROVE  /\ reports'[q] \in ReportRow
             /\ reports'[q].form = reports[q].form /\ reports'[q].mark = reports[q].mark
             /\ reports'[q].status = reports[q].status /\ reports'[q].inc = reports[q].inc
  <2> DEFINE r == reports[q]
  <2>1. r \in ReportRow
    BY RowTypes
  <2>2. reports'[q] \in {r, [r EXCEPT !.outcome = o]}
    BY Zenon
  <2> HIDE DEF r
  <2>3. [r EXCEPT !.outcome = o] \in ReportRow
    BY <2>1, Zenon DEF ReportRow
  <2>4. /\ [r EXCEPT !.outcome = o].form = r.form /\ [r EXCEPT !.outcome = o].mark = r.mark
        /\ [r EXCEPT !.outcome = o].status = r.status /\ [r EXCEPT !.outcome = o].inc = r.inc
    BY <2>1, SMT DEF ReportRow
  <2>5. QED
    BY <2>1, <2>2, <2>3, <2>4, Zenon DEF r
<1>2. DOMAIN reports' = Ids /\ reports' = [q \in Ids |-> reports'[q]]
  BY Zenon
<1>3. reports' \in Seq(ReportRow)
  <2>1. Ids = 1..Len(reports) /\ Len(reports) \in Nat
    BY SetsOfReports
  <2>2. reports' \in [1..Len(reports) -> ReportRow]
    BY <1>1, <1>2, <2>1, Zenon
  <2>3. QED
    BY <2>1, <2>2, SMT
<1>4. QED
  BY <1>1, <1>2, <1>3, Zenon DEF RowsKept, Ids, RowsInv

LEMMA FindingsKeep ==
  ASSUME Inv, Verdict \/ (\E i \in 1..MaxIncidents : Resolve(i) \/ Confirm(i))
  PROVE  RowsKept /\ scene' = scene /\ task' = task
<1> USE DEF rigid
<1>1. CASE Verdict
  <2>1. PICK r \in Ids, o \in {"confirmed", "false"}, whole \in BOOLEAN :
          LET s == IF whole /\ reports[r].inc # 0 THEN Linked(reports[r].inc) ELSE {r}
          IN reports' = [q \in Ids |-> IF q \in s THEN [reports[q] EXCEPT !.outcome = o] ELSE reports[q]]
    BY <1>1, Zenon DEF Verdict
  <2>2. UNCHANGED <<incidents, scene, task>>
    BY <1>1, Zenon DEF Verdict
  <2>3. RowsKept
    BY <2>1, <2>2, JudgedRows DEF Inv
  <2>4. QED
    BY <2>2, <2>3
<1>2. ASSUME NEW i \in 1..MaxIncidents, Confirm(i) PROVE RowsKept /\ scene' = scene /\ task' = task
  <2>1. UNCHANGED <<incidents, scene, task>>
    BY <1>2, Zenon DEF Confirm
  <2>2. CASE reports' = [r \in Ids |-> IF r \in Linked(i) /\ reports[r].outcome = "none"
                                       THEN [reports[r] EXCEPT !.outcome = "confirmed"] ELSE reports[r]]
    <3> DEFINE s == {r \in Linked(i) : reports[r].outcome = "none"}
    <3>1. \A r \in Ids : r \in s <=> r \in Linked(i) /\ reports[r].outcome = "none"
      BY Zenon
    <3> HIDE DEF s
    <3>2. reports' = [q \in Ids |-> IF q \in s THEN [reports[q] EXCEPT !.outcome = "confirmed"] ELSE reports[q]]
      BY <2>2, <3>1, Zenon
    <3>3. QED
      BY <2>1, <3>2, JudgedRows DEF Inv
  <2>3. CASE reports' = reports
    BY <2>1, <2>3, SameRows, Zenon DEF Inv, rows
  <2>4. QED
    BY <1>2, <2>2, <2>3, Zenon DEF Confirm
<1>3. ASSUME NEW i \in 1..MaxIncidents, Resolve(i) PROVE RowsKept /\ scene' = scene /\ task' = task
  <2> DEFINE n == [incidents[i] EXCEPT !.open = FALSE]
  <2>1. incidents' = [incidents EXCEPT ![i] = n] /\ UNCHANGED <<reports, scene, task>> /\ i \in DOMAIN incidents
    BY <1>3, Zenon DEF Resolve
  <2>2. DOMAIN incidents = 1..Len(incidents) /\ incidents[i] \in IncidentRow
    BY <2>1, LenProperties, ElementOfSeq DEF Inv, RowsInv
  <2>3. n \in IncidentRow
    BY <2>2, Zenon DEF IncidentRow
  <2>4. /\ n.spot = incidents[i].spot /\ n.cat = incidents[i].cat /\ n.needs = incidents[i].needs
        /\ n.count = incidents[i].count /\ n.sev = incidents[i].sev
    BY <2>2, SMT DEF IncidentRow
  <2> HIDE DEF n
  <2>5. incidents' \in Seq(IncidentRow)
    BY <2>1, <2>2, <2>3, ExceptSeq DEF Inv, RowsInv
  <2>6. DOMAIN incidents' = DOMAIN incidents /\ \A j \in DOMAIN incidents : incidents'[j] = IF j = i THEN n ELSE incidents[j]
    BY <2>1, Zenon
  <2>7. QED
    BY <2>1, <2>4, <2>5, <2>6, Zenon DEF RowsKept, Inv, RowsInv
<1>4. QED
  BY <1>1, <1>2, <1>3, Zenon

----------------------------------------------------------------------------
(* A report is written: the new one of the handler, or the one an officer   *)
(* classified.                                                              *)
Written(k, w, mark, status, i) ==
  /\ reports' \in Seq(ReportRow) /\ DOMAIN reports' = DOMAIN reports \cup {k}
  /\ k = (IF w.of = 0 THEN Len(reports) + 1 ELSE w.of)
  /\ reports'[k].form = w.form /\ reports'[k].mark = mark
  /\ reports'[k].status = status /\ reports'[k].inc = i
  /\ \A r \in DOMAIN reports : r # k => reports'[r] = reports[r]

LEMMA NewReport ==
  ASSUME Inv, NEW t \in Task, task[t].of = 0, NEW mark \in Mark, NEW status \in Status, NEW i \in Nat,
         reports' = Append(reports, [form |-> task[t].form, mark |-> mark, status |-> status,
                                     inc |-> i, outcome |-> "none"])
  PROVE  Written(Len(reports) + 1, task[t], mark, status, i)
<1> DEFINE f == task[t].form
           new == [form |-> f, mark |-> mark, status |-> status, inc |-> i, outcome |-> "none"]
<1>1. f \in Form
  BY Zenon DEF Inv, TaskInv, Handler
<1>2. reports \in Seq(ReportRow) /\ Len(reports) \in Nat
  BY SetsOfReports DEF Inv, RowsInv
<1> HIDE DEF f
<1>3. new \in ReportRow
  BY <1>1, Zenon DEF ReportRow
<1>4. new.form = f /\ new.mark = mark /\ new.status = status /\ new.inc = i
  BY SMT
<1>5. reports' = Append(reports, new)
  BY Zenon DEF f
<1> HIDE DEF new
<1>6. /\ reports' \in Seq(ReportRow) /\ DOMAIN reports' = DOMAIN reports \cup {Len(reports) + 1}
      /\ reports'[Len(reports) + 1] = new
      /\ \A r \in DOMAIN reports : r # Len(reports) + 1 => reports'[r] = reports[r]
  BY <1>2, <1>3, <1>5, SMT
<1>7. QED
  BY <1>4, <1>6, Zenon DEF Written, f

LEMMA ClassifiedReport ==
  ASSUME Inv, NEW t \in Task, task[t].of # 0, NEW status \in Status, NEW i \in Nat,
         reports' = [reports EXCEPT ![task[t].of] = [@ EXCEPT !.status = status, !.inc = i]]
  PROVE  Written(task[t].of, task[t], task[t].mark, status, i)
<1> DEFINE w == task[t]
           k == w.of
           old == reports[k]
           new == [old EXCEPT !.status = status, !.inc = i]
<1>1. k \in Ids /\ old.form = w.form /\ old.mark = w.mark
  BY Zenon DEF Inv, TaskInv, Points
<1>2. old \in ReportRow
  BY <1>1, RowTypes DEF Inv
<1>3. reports' = [reports EXCEPT ![k] = new]
  BY Zenon
<1> HIDE DEF old, k
<1>4. new \in ReportRow
  BY <1>2, Zenon DEF ReportRow
<1>5. new.form = old.form /\ new.mark = old.mark /\ new.status = status /\ new.inc = i
  BY <1>2, SMT DEF ReportRow
<1> HIDE DEF new
<1>6. reports' \in Seq(ReportRow)
  <2>1. k \in 1..Len(reports) /\ reports \in Seq(ReportRow)
    BY <1>1, SetsOfReports DEF Inv, RowsInv
  <2>2. [reports EXCEPT ![k] = new] \in Seq(ReportRow)
    BY <1>4, <2>1, ExceptSeq, SMT
  <2>3. QED
    BY <1>3, <2>2, Zenon
<1>7. DOMAIN reports' = Ids /\ \A r \in Ids : reports'[r] = IF r = k THEN new ELSE reports[r]
  BY <1>3, Zenon DEF Ids
<1>8. DOMAIN reports' = DOMAIN reports \cup {k}
  BY <1>1, <1>7, Zenon DEF Ids
<1>9. QED
  BY <1>1, <1>5, <1>6, <1>7, <1>8, Zenon DEF Written, Ids, k

(* The stored reports are those there were and this one; of those of one    *)
(* device or one incident, at most this one is new.                         *)
LEMMA WrittenReads ==
  ASSUME Inv, NEW t \in Task, NEW k, NEW mark, NEW status, NEW i \in Nat,
         Written(k, task[t], mark, status, i), task[t].of # 0 => mark = task[t].mark
  PROVE  /\ Ids' = Ids \cup {k} /\ k # 0
         /\ task[t].of = 0 => k \notin Ids /\ Len(reports') = Len(reports) + 1
         /\ task[t].of # 0 => /\ k \in Ids /\ Len(reports') = Len(reports)
                              /\ reports[k].form = task[t].form /\ reports[k].mark = mark
         /\ \A r \in Ids : reports'[r].form = reports[r].form /\ reports'[r].mark = reports[r].mark
         /\ \A p : From(p) \subseteq (From(p))' /\ (From(p))' \subseteq From(p) \cup {k}
         /\ \A f : Company(f) => (Company(f))'
<1> DEFINE w == task[t]
<1>1. Ids' = Ids \cup {k}
  BY Zenon DEF Written, Ids
<1>2. /\ Len(reports) \in Nat /\ Ids = 1..Len(reports)
      /\ Len(reports') \in Nat /\ Ids' = 1..Len(reports')
  <2>1. reports' \in Seq(ReportRow)
    BY Zenon DEF Written
  <2>2. QED
    BY <2>1, LenProperties, SetsOfReports DEF Inv, Ids
<1>3. w.of # 0 => k = w.of /\ k \in Ids /\ reports[k].form = w.form /\ reports[k].mark = mark
  BY Zenon DEF Written, Inv, TaskInv, Points
<1>4. w.of = 0 => k = Len(reports) + 1
  BY Zenon DEF Written
<1> HIDE DEF w
<1>5. w.of = 0 => k \notin Ids /\ Len(reports') = Len(reports) + 1
  <2>1. ASSUME w.of = 0 PROVE k \notin Ids /\ Len(reports') = Len(reports) + 1
    <3>1. k = Len(reports) + 1 /\ k \in Nat
      BY <1>2, <1>4, <2>1, SMT
    <3>2. k \notin Ids
      BY <1>2, <3>1, SMT
    <3>3. k \in Ids' /\ (k + 1) \notin Ids'
      BY <1>1, <1>2, <3>1, SMT
    <3>4. k >= 1 /\ k <= Len(reports')
      BY <1>2, <3>1, <3>3, SMT
    <3>5. ~ (k + 1 <= Len(reports'))
      BY <1>2, <3>1, <3>3, SMT
    <3>6. QED
      BY <1>2, <3>1, <3>2, <3>4, <3>5, SMT
  <2>2. QED
    BY <2>1, Zenon
<1>6. w.of # 0 => Len(reports') = Len(reports)
  <2>1. ASSUME w.of # 0 PROVE Len(reports') = Len(reports)
    <3>1. Ids' = Ids
      BY <1>1, <1>3, <2>1, Zenon
    <3>2. QED
      BY <1>2, <3>1, SMT
  <2>2. QED
    BY <2>1, Zenon
<1>7. k # 0
  BY <1>2, <1>3, <1>4, SMT
<1>8. ASSUME NEW r \in Ids PROVE reports'[r].form = reports[r].form /\ reports'[r].mark = reports[r].mark
  <2>1. CASE r = k
    <3>1. w.of # 0
      BY <1>5, <2>1, Zenon
    <3>2. reports'[k].form = w.form /\ reports'[k].mark = mark
      BY Zenon DEF Written, w
    <3>3. QED
      BY <1>3, <2>1, <3>1, <3>2, Zenon
  <2>2. CASE r # k
    BY <2>2, Zenon DEF Written, Ids
  <2>3. QED
    BY <2>1, <2>2, Zenon
<1>9. ASSUME NEW p PROVE From(p) \subseteq (From(p))' /\ (From(p))' \subseteq From(p) \cup {k}
  <2>1. \A r \in Ids : reports'[r].form = reports[r].form
    BY <1>8, Zenon
  <2>2. QED
    BY <1>1, <2>1, Zenon DEF From
<1>10. ASSUME NEW f, Company(f) PROVE (Company(f))'
  <2>1. PICK q \in Ids : reports[q].form.spot = f.spot /\ reports[q].form.phone # f.phone
    BY <1>10, Zenon DEF Company
  <2>2. q \in Ids' /\ reports'[q].form = reports[q].form
    BY <1>1, <1>8, Zenon
  <2>3. QED
    BY <2>1, <2>2, Zenon DEF Company
<1>11. QED
  BY <1>1, <1>3, <1>5, <1>6, <1>7, <1>8, <1>9, <1>10, Zenon DEF w

LEMMA WrittenCompany ==
  ASSUME Inv, NEW t \in Task, NEW k, NEW mark, NEW status, NEW i \in Nat,
         Written(k, task[t], mark, status, i), task[t].of # 0 => mark = task[t].mark,
         task[t].of = 0 => t \in Filing /\ Earned(task[t].form, mark, 5),
         Meant(task[t].form, mark, status), task' = [task EXCEPT ![t] = Idle], RowsInv'
  PROVE  CompanyInv'
<1> DEFINE w == task[t]
<1>1. /\ Ids' = Ids \cup {k} /\ k # 0
      /\ w.of = 0 => k \notin Ids /\ Len(reports') = Len(reports) + 1
      /\ w.of # 0 => /\ k \in Ids /\ Len(reports') = Len(reports)
                     /\ reports[k].form = w.form /\ reports[k].mark = mark
      /\ \A r \in Ids : reports'[r].form = reports[r].form /\ reports'[r].mark = reports[r].mark
      /\ \A p : From(p) \subseteq (From(p))' /\ (From(p))' \subseteq From(p) \cup {k}
      /\ \A f : Company(f) => (Company(f))'
  BY WrittenReads, Zenon
<1>2. \A u \in Task : task'[u] = IF u = t THEN Idle ELSE task[u]
  BY Zenon DEF Inv, TaskInv
<1>3. \A p : /\ Cardinality(From(p)) \in Nat /\ (Cardinality(From(p)))' \in Nat
             /\ Cardinality(From(p)) <= (Cardinality(From(p)))'
  <2>1. ASSUME NEW p
        PROVE  /\ Cardinality(From(p)) \in Nat /\ (Cardinality(From(p)))' \in Nat
               /\ Cardinality(From(p)) <= (Cardinality(From(p)))'
    <3>1. IsFiniteSet(From(p))
      BY SetsOfReports DEF From, Inv
    <3>2. IsFiniteSet(From(p) \cup {k})
      BY <3>1, FS_AddElement
    <3>3. (From(p))' \in SUBSET (From(p) \cup {k}) /\ From(p) \in SUBSET (From(p))'
      BY <1>1, Zenon
    <3>4. IsFiniteSet((From(p))')
      BY <3>2, <3>3, FS_Subset
    <3>5. Cardinality(From(p)) <= Cardinality((From(p))') /\ Cardinality(From(p)) \in Nat
            /\ Cardinality((From(p))') \in Nat
      BY <3>1, <3>3, <3>4, FS_Subset, FS_CardinalityType
    <3>6. QED
      BY <3>5, Zenon
  <2>2. QED
    BY <2>1, Zenon
<1>4. \A f, m : \A n \in Nat : Earned(f, m, n) => (Earned(f, m, n))'
  <2>1. \A f : \A n \in Nat : (Cardinality(From(f.phone)))' <= n => Cardinality(From(f.phone)) <= n
    BY <1>3, SMT
  <2>2. QED
    BY <1>1, <2>1, Zenon DEF Earned
<1>5. Len(reports') + Cardinality(Filing') <= MaxReports
  <2>1. IsFiniteSet(Filing) /\ Cardinality(Filing) \in Nat
    BY IntakeAssumption, FS_Subset, FS_CardinalityType, SMTT(20) DEF Filing
  <2>2. Filing' \subseteq Filing \ {t}
    <3>1. Idle.pc = "idle"
      BY IdleFits
    <3>2. Idle.pc \notin {"find", "weigh", "count", "commit"}
      BY <3>1, SMT
    <3>3. QED
      BY <1>2, <3>2, Zenon DEF Filing
  <2>3. IsFiniteSet(Filing \ {t})
          /\ Cardinality(Filing \ {t}) = IF t \in Filing THEN Cardinality(Filing) - 1 ELSE Cardinality(Filing)
    BY <2>1, FS_RemoveElement
  <2>4. Cardinality(Filing') <= Cardinality(Filing \ {t}) /\ Cardinality(Filing') \in Nat
    BY <2>2, <2>3, FS_Subset, FS_CardinalityType
  <2>5. Len(reports) \in Nat /\ Len(reports) + Cardinality(Filing) <= MaxReports
    BY SetsOfReports DEF Inv, CompanyInv
  <2>6. w.of = 0 => t \in Filing
    BY Zenon
  <2> HIDE DEF w
  <2>7. QED
    BY <1>1, <2>1, <2>3, <2>4, <2>5, <2>6, IntakeAssumption, SMTT(30)
<1>6. ASSUME NEW r \in Ids'
      PROVE  (Earned(reports[r].form, reports[r].mark, 6))'
               /\ Meant(reports'[r].form, reports'[r].mark, reports'[r].status)
  <2>1. CASE r \in Ids /\ r # k
    <3>1. Earned(reports[r].form, reports[r].mark, 6) /\ Meant(reports[r].form, reports[r].mark, reports[r].status)
      BY <2>1, Zenon DEF Inv, CompanyInv
    <3>2. reports'[r] = reports[r]
      BY <2>1, Zenon DEF Written, Ids
    <3>3. 6 \in Nat
      OBVIOUS
    <3>4. QED
      BY <1>4, <3>1, <3>2, <3>3, Zenon DEF Earned
  <2>2. CASE r = k /\ w.of # 0
    <3>1. Earned(w.form, mark, 6) /\ r \in Ids
      BY <1>1, <2>2, Zenon DEF Inv, CompanyInv
    <3>2. reports'[r].form = w.form /\ reports'[r].mark = mark /\ reports'[r].status = status
      BY <2>2, Zenon DEF Written
    <3>3. 6 \in Nat
      OBVIOUS
    <3>4. QED
      BY <1>4, <3>1, <3>2, <3>3, Zenon DEF Earned
  <2>3. CASE r = k /\ w.of = 0
    <3>1. Earned(w.form, mark, 5) /\ k \notin Ids
      BY <1>1, <2>3, Zenon
    <3>2. PICK f : f = w.form
      OBVIOUS
    <3>3. reports'[r].form = f /\ reports'[r].mark = mark /\ reports'[r].status = status
      BY <2>3, <3>2, Zenon DEF Written
    <3>4. PICK p : p = f.phone
      OBVIOUS
    <3>5. (p # Nobody => (From(p))' = From(p) \cup {k}) /\ k \notin From(p)
      <4>1. p # Nobody => k \in (From(p))'
        BY <1>6, <2>3, <3>3, <3>4, Zenon DEF From
      <4>2. QED
        BY <1>1, <3>1, <4>1, ZenonT(60) DEF From
    <3>6. IsFiniteSet(From(p))
      BY SetsOfReports DEF From, Inv
    <3>7. Cardinality(From(p) \cup {k}) = Cardinality(From(p)) + 1
      BY <3>5, <3>6, FS_AddElement
    <3>8. p # Nobody => (Cardinality(From(p)))' = Cardinality(From(p)) + 1
      BY <3>5, <3>7, Zenon
    <3>9. p # Nobody /\ (Cardinality(From(p)))' <= 6 => Cardinality(From(p)) <= 5
      BY <1>3, <3>8, SMT
    <3>10. (Earned(f, mark, 6))'
      <4>1. p # Nobody /\ mark = "high" /\ Cardinality(From(p)) <= 5 => Company(f)
        BY <3>1, <3>2, <3>4, Zenon DEF Earned
      <4>2. Company(f) => (Company(f))'
        BY <1>1, Zenon
      <4>3. QED
        BY <3>4, <3>9, <4>1, <4>2, Zenon DEF Earned
    <3>11. Meant(f, mark, status)
      BY <3>2, Zenon
    <3>12. QED
      BY <3>3, <3>10, <3>11, Zenon DEF Earned
  <2>4. QED
    BY <1>1, <1>6, <2>1, <2>2, <2>3, Zenon
<1>7. ASSUME NEW u \in Task, task'[u].pc \in {"count", "commit"}
      PROVE  /\ task'[u].of = 0 => (Earned(task[u].form, task[u].mark, 5))'
             /\ Meant(task'[u].form, task'[u].mark, task'[u].status)
  <2>1. u # t
    <3>1. Idle.pc = "idle"
      BY IdleFits
    <3>2. Idle.pc \notin {"count", "commit"}
      BY <3>1, SMT
    <3>3. QED
      BY <1>2, <1>7, <3>2, Zenon
  <2>2. task'[u] = task[u]
    BY <1>2, <2>1, Zenon
  <2>3. /\ task[u].of = 0 => Earned(task[u].form, task[u].mark, 5)
        /\ Meant(task[u].form, task[u].mark, task[u].status)
    BY <1>7, <2>2, Zenon DEF Inv, CompanyInv
  <2>4. 5 \in Nat
    OBVIOUS
  <2>5. QED
    BY <1>4, <2>2, <2>3, <2>4, Zenon DEF Earned
<1>8. QED
  BY <1>5, <1>6, <1>7, Zenon DEF CompanyInv, Meant

LEMMA WrittenTasks ==
  ASSUME Inv, NEW t \in Task, NEW k, NEW mark, NEW status, NEW i \in Nat,
         Written(k, task[t], mark, status, i), task[t].of # 0 => mark = task[t].mark,
         \A j \in DOMAIN incidents : j \in DOMAIN incidents' /\ incidents'[j].spot = incidents[j].spot,
         task' = [task EXCEPT ![t] = Idle]
  PROVE  TaskInv'
<1>1. /\ Ids' = Ids \cup {k}
      /\ \A r \in Ids : reports'[r].form = reports[r].form /\ reports'[r].mark = reports[r].mark
  BY WrittenReads, Zenon
<1>2. task' \in [Task -> Handler]
  BY IdleFits, Zenon DEF Inv, TaskInv
<1>3. ASSUME NEW u \in Task PROVE (Points(task[u]))'
  <2> DEFINE v == task'[u]
  <2>1. Points(v)
    BY IdleFits, Zenon DEF Inv, TaskInv
  <2>2. /\ v.pick # 0 => v.pick \in DOMAIN incidents' /\ incidents'[v.pick].spot = v.form.spot
        /\ v.of # 0 => v.of \in Ids' /\ reports'[v.of].form = v.form /\ reports'[v.of].mark = v.mark
    <3>1. /\ v.pick # 0 => v.pick \in DOMAIN incidents /\ incidents[v.pick].spot = v.form.spot
          /\ v.of # 0 => v.of \in Ids /\ reports[v.of].form = v.form /\ reports[v.of].mark = v.mark
      BY <2>1, Zenon DEF Points
    <3> HIDE DEF v
    <3>2. QED
      BY <1>1, <3>1, Zenon
  <2>3. QED
    BY <2>1, <2>2, Zenon DEF Points
<1>4. QED
  BY <1>2, <1>3, Zenon DEF TaskInv

(* A report stands behind the one incident it is linked to.                 *)
LEMMA WrittenLinks ==
  ASSUME Inv, NEW t \in Task, NEW k, NEW mark, NEW status, NEW i \in Nat,
         Written(k, task[t], mark, status, i), task[t].of # 0 => mark = task[t].mark,
         task[t].of # 0 => reports[k].inc = 0
  PROVE  /\ \A j : j \notin {0, i} => (Linked(j))' = Linked(j)
         /\ i # 0 => (Linked(i))' = Linked(i) \cup {k} /\ k \notin Linked(i)
         /\ \A s : s \subseteq Ids => (Senders(s))' = Senders(s) /\ (Assessed(s))' = Assessed(s)
<1>1. /\ Ids' = Ids \cup {k}
      /\ task[t].of = 0 => k \notin Ids
      /\ \A r \in Ids : reports'[r].form = reports[r].form /\ reports'[r].mark = reports[r].mark
  BY WrittenReads, Zenon
<1>2. k \in Ids => reports[k].inc = 0
  BY <1>1, Zenon
<1>3. reports'[k].inc = i /\ \A r \in Ids : r # k => reports'[r] = reports[r]
  BY Zenon DEF Written, Ids
<1>4. ASSUME NEW j, j \notin {0, i} PROVE (Linked(j))' = Linked(j)
  <2>1. ASSUME NEW r \in Ids' PROVE reports'[r].inc = j <=> r \in Ids /\ reports[r].inc = j
    <3>1. CASE r = k
      BY <1>2, <1>3, <1>4, <3>1, Zenon
    <3>2. CASE r # k
      BY <1>1, <1>3, <2>1, <3>2, Zenon
    <3>3. QED
      BY <3>1, <3>2, Zenon
  <2>2. QED
    BY <1>1, <2>1, Zenon DEF Linked
<1>5. ASSUME i # 0 PROVE (Linked(i))' = Linked(i) \cup {k} /\ k \notin Linked(i)
  <2>1. ASSUME NEW r \in Ids' PROVE reports'[r].inc = i <=> r = k \/ (r \in Ids /\ reports[r].inc = i)
    <3>1. CASE r = k
      BY <1>3, <3>1, Zenon
    <3>2. CASE r # k
      BY <1>1, <1>3, <2>1, <3>2, Zenon
    <3>3. QED
      BY <3>1, <3>2, Zenon
  <2>2. k \notin Linked(i)
    BY <1>2, <1>5, Zenon DEF Linked
  <2>3. QED
    BY <1>1, <2>1, <2>2, Zenon DEF Linked
<1>6. ASSUME NEW s, s \subseteq Ids PROVE (Senders(s))' = Senders(s) /\ (Assessed(s))' = Assessed(s)
  <2>1. \A r \in s : reports'[r].form = reports[r].form /\ reports'[r].mark = reports[r].mark
    BY <1>1, <1>6, Zenon
  <2>2. QED
    BY <2>1, Zenon DEF Senders, Assessed
<1>7. QED
  BY <1>4, <1>5, <1>6, Zenon

LEMMA WrittenCounts ==
  ASSUME Inv, CountsInv, NEW t \in Task, NEW k, NEW mark, NEW status, NEW i \in Nat,
         Written(k, task[t], mark, status, i), task[t].of # 0 => mark = task[t].mark,
         DOMAIN incidents' \subseteq DOMAIN incidents \cup ({i} \ {0}),
         \A j \in DOMAIN incidents : j # i =>
           /\ incidents'[j].cat = incidents[j].cat
           /\ incidents'[j].count = incidents[j].count /\ incidents'[j].sev = incidents[j].sev,
         i # 0 => (FollowsReports(i))',
         \A u \in Task : u # t /\ task[u].pc = "commit" /\ i # 0 => task[u].pick # i,
         task' = [task EXCEPT ![t] = Idle]
  PROVE  CountsInv'
<1>1. \A u \in Task : task'[u] = IF u = t THEN Idle ELSE task[u]
  BY Zenon DEF Inv, TaskInv
<1>2. Idle.of = 0 /\ Idle.pick = 0 /\ Idle.pc # "commit"
  <2>1. Idle.pc = "idle" /\ Idle.of = 0 /\ Idle.pick = 0
    BY IdleFits
  <2>2. QED
    BY <2>1, SMT
<1>3. task[t].of # 0 => k = task[t].of /\ reports[k].inc = 0
  BY Zenon DEF Written, CountsInv
<1>4. /\ \A j : j \notin {0, i} => (Linked(j))' = Linked(j)
      /\ \A s : s \subseteq Ids => (Senders(s))' = Senders(s) /\ (Assessed(s))' = Assessed(s)
  <2>1. task[t].of # 0 => reports[k].inc = 0
    BY <1>3, Zenon
  <2>2. /\ \A j : j \notin {0, i} => (Linked(j))' = Linked(j)
        /\ i # 0 => (Linked(i))' = Linked(i) \cup {k} /\ k \notin Linked(i)
        /\ \A s : s \subseteq Ids => (Senders(s))' = Senders(s) /\ (Assessed(s))' = Assessed(s)
    BY <2>1, WrittenLinks
  <2>3. QED
    BY <2>2, Zenon
<1>5. 0 \notin DOMAIN incidents
  BY LenProperties, SMT DEF Inv, RowsInv
<1>6. ASSUME NEW j \in DOMAIN incidents' PROVE (FollowsReports(j))'
  <2>1. CASE j = i
    <3>1. i # 0
      BY <1>5, <1>6, <2>1, Zenon
    <3>2. (FollowsReports(i))'
      BY <3>1
    <3>3. QED
      BY <2>1, <3>2, Zenon DEF FollowsReports
  <2>2. CASE j # i
    <3>1. j \in DOMAIN incidents /\ j \notin {0, i}
      BY <1>5, <1>6, <2>2, Zenon
    <3>2. FollowsReports(j) /\ Linked(j) \subseteq Ids
      BY <3>1, Zenon DEF CountsInv, Linked
    <3>3. (Linked(j))' = Linked(j)
      BY <1>4, <3>1, Zenon
    <3>4. (Senders(Linked(j)))' = Senders(Linked(j)) /\ (Assessed(Linked(j)))' = Assessed(Linked(j))
      BY <1>4, <3>2, <3>3, Zenon DEF Senders, Assessed
    <3>5. QED
      BY <2>2, <3>1, <3>2, <3>3, <3>4, Zenon DEF FollowsReports
  <2>3. QED
    BY <2>1, <2>2, Zenon
<1>7. ASSUME NEW u \in Task, task'[u].of # 0 PROVE reports'[task'[u].of].inc = 0
  <2>1. u # t /\ task'[u] = task[u]
    BY <1>1, <1>2, <1>7, Zenon
  <2>2. reports[task[u].of].inc = 0 /\ task[u].of \in Ids
    BY <1>7, <2>1, Zenon DEF CountsInv, Inv, TaskInv, Points
  <2>3. task[u].of # k
    <3>1. CASE task[t].of = 0
      BY <2>2, <3>1, WrittenReads, Zenon
    <3>2. CASE task[t].of # 0
      BY <1>3, <2>1, <3>2, Zenon DEF CountsInv
    <3>3. QED
      BY <3>1, <3>2, Zenon
  <2>4. QED
    BY <2>1, <2>2, <2>3, Zenon DEF Written, Ids
<1>8. ASSUME NEW u \in Task, task'[u].pc = "commit"
      PROVE  [count |-> task'[u].count, sev |-> task'[u].sev] = (Counted(task[u]))'
  <2>1. u # t /\ task'[u] = task[u]
    BY <1>1, <1>2, <1>8, Zenon
  <2>2. PICK v : v = task[u]
    OBVIOUS
  <2>3. v.pick # i \/ v.pick = 0
    BY <1>8, <2>1, <2>2, Zenon
  <2>4. [count |-> v.count, sev |-> v.sev] = Counted(v)
    BY <1>8, <2>1, <2>2, Zenon DEF CountsInv
  <2>5. v.pick # 0 => (Linked(v.pick))' = Linked(v.pick)
    BY <1>4, <2>3, Zenon
  <2> DEFINE s == IF v.pick = 0 THEN {} ELSE Linked(v.pick)
  <2>6. s \subseteq Ids /\ s' = s
    BY <2>5, Zenon DEF Linked
  <2>7. (Senders(s))' = Senders(s) /\ (Assessed(s))' = Assessed(s)
    <3>1. \A x : x \subseteq Ids => (Senders(x))' = Senders(x) /\ (Assessed(x))' = Assessed(x)
      BY <1>4, Zenon
    <3>2. QED
      BY <2>6, <3>1, Zenon DEF Senders, Assessed
  <2> DEFINE c == CategoryOf(v.pick, v.form)
  <2>8. Counted(v) = Recount(c, s, v.form, v.mark) /\ (Counted(v))' = (Recount(c, s, v.form, v.mark))'
    BY Zenon DEF Counted
  <2>9. (Counted(v))' = Counted(v)
    <3>1. c' = c
      <4>1. v.pick # 0 => v.pick \in DOMAIN incidents
        BY <2>2, Zenon DEF Inv, TaskInv, Points
      <4>2. QED
        BY <2>3, <4>1, Zenon DEF CategoryOf
    <3> HIDE DEF s, c
    <3>2. QED
      BY <2>6, <2>7, <2>8, <3>1, Zenon DEF Recount, Independent
  <2>10. (Counted(task[u]))' = (Counted(v))'
    <3>1. task'[u] = v
      BY <2>1, <2>2, Zenon
    <3>2. QED
      BY <3>1, SMT DEF Counted, CategoryOf
  <2>11. QED
    BY <2>1, <2>2, <2>4, <2>9, <2>10, Zenon
<1>9. ASSUME NEW u \in Task, NEW v \in Task, u # v, task'[u].of # 0
      PROVE  task'[v].of # task'[u].of
  <2>1. u # t
    BY <1>1, <1>2, <1>9, Zenon
  <2>2. CASE v = t
    BY <1>1, <1>2, <1>9, <2>2, Zenon
  <2>3. CASE v # t
    <3>1. task'[u] = task[u] /\ task'[v] = task[v]
      BY <1>1, <2>1, <2>3, Zenon
    <3>2. task[u].of # 0 => task[v].of # task[u].of
      BY <1>9, Zenon DEF CountsInv
    <3>3. QED
      BY <1>9, <3>1, <3>2, Zenon
  <2>4. QED
    BY <2>2, <2>3, Zenon
<1>10. ASSUME NEW u \in Task, NEW v \in Task, u # v,
              task'[u].pc = "commit", task'[v].pc = "commit", task'[u].pick # 0
       PROVE  task'[v].pick # task'[u].pick
  <2>1. task'[u] = task[u] /\ task'[v] = task[v]
    BY <1>1, <1>2, <1>10, Zenon
  <2>2. task[u].pc = "commit" /\ task[v].pc = "commit" /\ task[u].pick # 0 => task[v].pick # task[u].pick
    BY <1>10, Zenon DEF CountsInv
  <2>3. QED
    BY <1>10, <2>1, <2>2, Zenon
<1>11. QED
  BY <1>6, <1>7, <1>8, <1>9, <1>10, Zenon DEF CountsInv

----------------------------------------------------------------------------
(* A report that is kept without effect.                                    *)
LEMMA FileKeeps ==
  ASSUME Inv, NEW t \in Task, File(t)
  PROVE  Inv'
<1> DEFINE w == task[t]
           k == Len(reports) + 1
<1>1. w \in Handler /\ Points(w) /\ w.pc = "weigh" /\ w.of = 0
  BY Zenon DEF Inv, TaskInv, File, Points
<1>2. PICK d \in Trust(w) :
        /\ Kept(d.status)
        /\ reports' = Append(reports, [form |-> w.form, mark |-> d.mark, status |-> d.status,
                                       inc |-> 0, outcome |-> "none"])
  BY Zenon DEF File
<1>3. task' = [task EXCEPT ![t] = Idle] /\ UNCHANGED <<scene, incidents>>
  BY Zenon DEF File, rigid
<1>4. Len(reports) <= MaxReports
  <2>1. IsFiniteSet(Filing) /\ Cardinality(Filing) \in Nat
    BY IntakeAssumption, FS_Subset, FS_CardinalityType DEF Filing
  <2>2. Len(reports) \in Nat /\ Len(reports) + Cardinality(Filing) <= MaxReports
    BY SetsOfReports DEF Inv, CompanyInv
  <2>3. QED
    BY <2>1, <2>2, IntakeAssumption, SMT
<1>5. /\ d.mark \in Mark /\ d.status \in Status
      /\ Earned(w.form, d.mark, 5) /\ Meant(w.form, d.mark, d.status)
  BY <1>1, <1>4, TrustIsEarned DEF Inv
<1>6. t \in Filing
  BY <1>1, Zenon DEF Filing
<1>7. 0 \in Nat
  OBVIOUS
<1>8. Written(k, w, d.mark, d.status, 0)
  BY <1>1, <1>2, <1>5, <1>7, NewReport
<1>9. PICK mark, status : mark = d.mark /\ status = d.status
  OBVIOUS
<1>10. Written(k, w, mark, status, 0)
  BY <1>8, <1>9, Zenon
<1>11. /\ Ids' = Ids \cup {k}
       /\ \A r \in Ids : reports'[r].form = reports[r].form /\ reports'[r].mark = reports[r].mark
  BY <1>1, <1>7, <1>10, WrittenReads, Zenon
<1>12. reports' \in Seq(ReportRow) /\ reports'[k].inc = 0 /\ \A r \in Ids : r # k => reports'[r] = reports[r]
  BY <1>10, Zenon DEF Written, Ids
<1>13. RowsInv'
  <2>1. ASSUME NEW r \in Ids', reports'[r].inc # 0
        PROVE  reports'[r].inc \in DOMAIN incidents /\ incidents[reports'[r].inc].spot = reports'[r].form.spot
    <3>1. r \in Ids /\ reports'[r] = reports[r]
      BY <1>11, <1>12, <2>1, Zenon
    <3>2. QED
      BY <2>1, <3>1, Zenon DEF Inv, RowsInv
  <2>2. QED
    BY <1>3, <1>12, <2>1, Zenon DEF RowsInv, Inv
<1>14. TaskInv'
  BY <1>1, <1>3, <1>7, <1>10, WrittenTasks, Zenon
<1>15. NeedsCoverReports'
  <2>1. ASSUME NEW r \in Ids', reports'[r].inc # 0, NEW c \in Capability
        PROVE  incidents[reports'[r].inc].needs[c] >= reports'[r].form.needs[c]
    <3>1. r \in Ids /\ reports'[r] = reports[r]
      BY <1>11, <1>12, <2>1, Zenon
    <3>2. QED
      BY <2>1, <3>1, Zenon DEF Inv, NeedsCoverReports
  <2>2. QED
    BY <1>3, <2>1, Zenon DEF NeedsCoverReports
<1>16. CompanyInv'
  BY <1>1, <1>3, <1>5, <1>6, <1>7, <1>9, <1>10, <1>13, WrittenCompany, Zenon
<1>17. ASSUME {"overlap", "officers"} \cap scene = {} PROVE CountsInv'
  <2>1. CountsInv
    BY <1>17, Zenon DEF Inv, CountsApart
  <2>2. DOMAIN incidents' \subseteq DOMAIN incidents \cup ({0} \ {0})
    BY <1>3, Zenon
  <2>3. QED
    BY <1>1, <1>3, <1>7, <1>10, <2>1, <2>2, WrittenCounts
<1>18. QED
  BY <1>3, <1>13, <1>14, <1>15, <1>16, <1>17, Zenon DEF Inv, CountsApart

----------------------------------------------------------------------------
(* A report that counts.                                                    *)

LEMMA NeedsGrow ==
  ASSUME NEW old \in [Capability -> Nat], NEW new \in [Capability -> Nat]
  PROVE  /\ Grown(old, new) \in [Capability -> Nat]
         /\ \A c \in Capability : Grown(old, new)[c] >= old[c] /\ Grown(old, new)[c] >= new[c]
<1>1. ASSUME NEW c \in Capability
      PROVE  Max({old[c], new[c]}) \in Nat /\ Max({old[c], new[c]}) >= old[c] /\ Max({old[c], new[c]}) >= new[c]
  <2> DEFINE x == old[c]
             y == new[c]
  <2>1. x \in Nat /\ y \in Nat
    OBVIOUS
  <2> HIDE DEF x, y
  <2>2. Max({x, y}) = IF x >= y THEN x ELSE y
    BY <2>1, GreaterOfTwo, SMT
  <2>3. Max({x, y}) \in Nat /\ Max({x, y}) >= x /\ Max({x, y}) >= y
    BY <2>1, <2>2, SMT
  <2>4. QED
    BY <2>3 DEF x, y
<1>2. Grown(old, new) = [c \in Capability |-> Max({old[c], new[c]})]
  BY Zenon DEF Grown
<1>3. QED
  BY <1>1, <1>2, Zenon

Stands(w) == IF w.pick = 0 THEN Len(incidents) + 1 ELSE w.pick
LEMMA CommitIncidents ==
  ASSUME Inv, NEW t \in Task, Commit(t)
  PROVE  LET w == task[t]
             i == Stands(w)
         IN  /\ i \in Nat \ {0} /\ incidents' \in Seq(IncidentRow)
             /\ DOMAIN incidents' = DOMAIN incidents \cup {i}
             /\ incidents'[i].spot = w.form.spot /\ incidents'[i].cat = CategoryOf(w.pick, w.form)
             /\ incidents'[i].count = w.count /\ incidents'[i].sev = w.sev
             /\ \A c \in Capability : incidents'[i].needs[c] >= w.form.needs[c]
             /\ w.pick = 0 => i \notin DOMAIN incidents
             /\ w.pick # 0 => /\ i = w.pick /\ i \in DOMAIN incidents
                              /\ incidents'[i].spot = incidents[i].spot
                              /\ \A c \in Capability : incidents'[i].needs[c] >= incidents[i].needs[c]
             /\ \A j \in DOMAIN incidents : j # i => incidents'[j] = incidents[j]
<1> DEFINE w == task[t]
           f == w.form
           n == w.count
           x == w.sev
           i == Stands(w)
<1>1. w \in Handler /\ Points(w)
  BY Zenon DEF Inv, TaskInv
<1>2. incidents \in Seq(IncidentRow) /\ Len(incidents) \in Nat /\ DOMAIN incidents = 1..Len(incidents)
  BY LenProperties DEF Inv, RowsInv
<1>3. f \in Form /\ n \in Nat /\ x \in Severities
  BY <1>1, Zenon DEF Handler
<1>4. f.spot \in Spot /\ f.cat \in Category /\ f.needs \in [Capability -> Nat]
  BY <1>3, FormTypes
<1>5. CASE w.pick = 0
  <2> DEFINE new == [spot |-> f.spot, cat |-> f.cat, open |-> TRUE, count |-> n, sev |-> x, needs |-> f.needs, told |-> TRUE]
  <2>1. incidents' = Append(incidents, new) /\ i = Len(incidents) + 1
    BY <1>5, Zenon DEF Commit, Stands
  <2> HIDE DEF f, n, x, i
  <2>2. new \in IncidentRow
    BY <1>3, <1>4, Zenon DEF IncidentRow
  <2>3. new.spot = f.spot /\ new.cat = f.cat /\ new.count = n /\ new.sev = x /\ new.needs = f.needs
    BY SMT
  <2> HIDE DEF new
  <2>4. /\ i \in Nat \ {0} /\ incidents' \in Seq(IncidentRow) /\ DOMAIN incidents' = DOMAIN incidents \cup {i}
        /\ i \notin DOMAIN incidents /\ incidents'[i] = new
        /\ \A j \in DOMAIN incidents : j # i => incidents'[j] = incidents[j]
    BY <1>2, <2>1, <2>2, SMT
  <2>5. \A c \in Capability : f.needs[c] >= f.needs[c]
    BY <1>4, SMT
  <2>6. QED
    BY <1>5, <2>3, <2>4, <2>5, Zenon DEF f, n, x, i, CategoryOf
<1>6. CASE w.pick # 0
  <2> DEFINE old == incidents[w.pick]
             g == Grown(old.needs, f.needs)
             told == w.of # 0 \/ (old.told /\ x <= old.sev /\ g = old.needs)
             new == [old EXCEPT !.count = n, !.sev = x, !.needs = g, !.told = told]
  <2>1. incidents' = [incidents EXCEPT ![i] = new] /\ i = w.pick
    BY <1>6, Zenon DEF Commit, Stands
  <2>2. i \in DOMAIN incidents /\ old \in IncidentRow /\ old.spot = f.spot
    BY <1>1, <1>2, <1>6, <2>1, ElementOfSeq, Zenon DEF Points
  <2>3. old.needs \in [Capability -> Nat]
    BY <2>2, Zenon DEF IncidentRow
  <2>4. g \in [Capability -> Nat] /\ \A c \in Capability : g[c] >= old.needs[c] /\ g[c] >= f.needs[c]
    BY <1>4, <2>3, NeedsGrow
  <2>5. told \in BOOLEAN
    BY Zenon
  <2>6. old = incidents[i]
    BY <2>1, Zenon
  <2> HIDE DEF f, n, x, i, old, g, told
  <2>7. new \in IncidentRow
    BY <1>3, <2>2, <2>4, <2>5, Zenon DEF IncidentRow
  <2>8. new.spot = old.spot /\ new.cat = old.cat /\ new.count = n /\ new.sev = x /\ new.needs = g
    BY <2>2, SMT DEF IncidentRow
  <2> HIDE DEF new
  <2>9. incidents' \in Seq(IncidentRow)
    BY <1>2, <2>1, <2>2, <2>7, ExceptSeq
  <2>10. /\ DOMAIN incidents' = DOMAIN incidents /\ incidents'[i] = new
         /\ \A j \in DOMAIN incidents : j # i => incidents'[j] = incidents[j]
    BY <2>1, <2>2, Zenon
  <2>11. i \in Nat \ {0}
    BY <1>2, <2>2, SMT
  <2>12. QED
    BY <1>6, <2>1, <2>2, <2>4, <2>6, <2>8, <2>9, <2>10, <2>11, Zenon DEF f, n, x, i, CategoryOf
<1>7. QED
  BY <1>5, <1>6, Zenon

LEMMA CommitKeeps ==
  ASSUME Inv, NEW t \in Task, Commit(t)
  PROVE  Inv'
<1> DEFINE w == task[t]
<1>1. w \in Handler /\ Points(w) /\ w.pc = "commit"
  BY Zenon DEF Inv, TaskInv, Commit
<1>2. PICK i, mark, status, f, cat :
        i = Stands(w) /\ mark = w.mark /\ status = w.status /\ f = w.form /\ cat = CategoryOf(w.pick, w.form)
  OBVIOUS
<1>3. /\ i \in Nat \ {0} /\ incidents' \in Seq(IncidentRow)
      /\ DOMAIN incidents' = DOMAIN incidents \cup {i}
      /\ incidents'[i].spot = f.spot /\ incidents'[i].cat = cat
      /\ incidents'[i].count = w.count /\ incidents'[i].sev = w.sev
      /\ \A c \in Capability : incidents'[i].needs[c] >= f.needs[c]
      /\ w.pick = 0 => i \notin DOMAIN incidents
      /\ w.pick # 0 => /\ i = w.pick /\ i \in DOMAIN incidents
                       /\ incidents'[i].spot = incidents[i].spot
                       /\ \A c \in Capability : incidents'[i].needs[c] >= incidents[i].needs[c]
      /\ \A j \in DOMAIN incidents : j # i => incidents'[j] = incidents[j]
  BY <1>2, CommitIncidents, Zenon
<1>4. i \in Nat /\ mark \in Mark /\ status \in Status
  BY <1>1, <1>2, <1>3, Zenon DEF Handler
<1>5. task' = [task EXCEPT ![t] = Idle] /\ scene' = scene
  BY Zenon DEF Commit, rigid
<1>6. PICK k : k = IF w.of = 0 THEN Len(reports) + 1 ELSE w.of
  OBVIOUS
<1>7. Written(k, w, mark, status, i)
  <2>1. CASE w.of = 0
    <3>1. reports' = Append(reports, [form |-> w.form, mark |-> mark, status |-> status,
                                      inc |-> i, outcome |-> "none"])
      BY <1>2, <2>1, Zenon DEF Commit, Stands
    <3>2. QED
      BY <1>4, <1>6, <2>1, <3>1, NewReport
  <2>2. CASE w.of # 0
    <3>1. reports' = [reports EXCEPT ![w.of] = [@ EXCEPT !.status = status, !.inc = i]]
      BY <1>2, <2>2, Zenon DEF Commit, Stands
    <3>2. Written(w.of, w, w.mark, status, i)
      BY <1>4, <2>2, <3>1, ClassifiedReport
    <3>3. QED
      BY <1>2, <1>6, <2>2, <3>2, Zenon
  <2>3. QED
    BY <2>1, <2>2, Zenon
<1>8. /\ Ids' = Ids \cup {k}
      /\ w.of = 0 => k \notin Ids
      /\ \A r \in Ids : reports'[r].form = reports[r].form /\ reports'[r].mark = reports[r].mark
  BY <1>2, <1>4, <1>7, WrittenReads, Zenon
<1>9. /\ reports' \in Seq(ReportRow) /\ reports'[k].inc = i /\ reports'[k].form = f
      /\ reports'[k].mark = mark
      /\ \A r \in Ids : r # k => reports'[r] = reports[r]
  BY <1>2, <1>7, Zenon DEF Written, Ids
<1>10. \A j \in DOMAIN incidents : j \in DOMAIN incidents' /\ incidents'[j].spot = incidents[j].spot
  <2>1. ASSUME NEW j \in DOMAIN incidents
        PROVE  j \in DOMAIN incidents' /\ incidents'[j].spot = incidents[j].spot
    BY <1>3, Zenon
  <2>2. QED
    BY <2>1, Zenon
<1>11. RowsInv'
  <2>1. ASSUME NEW r \in Ids', reports'[r].inc # 0
        PROVE  reports'[r].inc \in DOMAIN incidents' /\ incidents'[reports'[r].inc].spot = reports'[r].form.spot
    <3>1. CASE r = k
      BY <1>3, <1>9, <3>1, Zenon
    <3>2. CASE r # k
      <4>1. r \in Ids /\ reports'[r] = reports[r]
        BY <1>8, <1>9, <2>1, <3>2, Zenon
      <4>2. QED
        BY <1>10, <2>1, <4>1, Zenon DEF Inv, RowsInv
    <3>3. QED
      BY <3>1, <3>2, Zenon
  <2>2. QED
    BY <1>3, <1>9, <2>1, Zenon DEF RowsInv
<1>12. TaskInv'
  BY <1>2, <1>4, <1>5, <1>7, <1>10, WrittenTasks, Zenon
<1>13. NeedsCoverReports'
  <2>1. ASSUME NEW r \in Ids', reports'[r].inc # 0, NEW c \in Capability
        PROVE  incidents'[reports'[r].inc].needs[c] >= reports'[r].form.needs[c]
    <3>1. CASE r = k
      BY <1>3, <1>9, <3>1, Zenon
    <3>2. CASE r # k
      <4>1. r \in Ids /\ reports'[r] = reports[r]
        BY <1>8, <1>9, <2>1, <3>2, Zenon
      <4>2. PICK j : j = reports[r].inc
        OBVIOUS
      <4>3. j \in DOMAIN incidents /\ incidents[j].needs[c] >= reports[r].form.needs[c]
        BY <2>1, <4>1, <4>2, Zenon DEF Inv, RowsInv, NeedsCoverReports
      <4>4. CASE j # i
        BY <1>3, <4>1, <4>2, <4>3, <4>4, Zenon
      <4>5. CASE j = i
        <5>1. incidents'[i].needs[c] >= incidents[i].needs[c]
          BY <1>3, <4>3, <4>5, Zenon
        <5>2. /\ incidents'[i].needs[c] \in Nat /\ incidents[i].needs[c] \in Nat
              /\ reports[r].form.needs[c] \in Nat
          <6>1. incidents'[i] \in IncidentRow /\ incidents[i] \in IncidentRow /\ reports[r] \in ReportRow
            <7>1. DOMAIN incidents' = 1..Len(incidents') /\ DOMAIN incidents = 1..Len(incidents)
              BY <1>3, LenProperties DEF Inv, RowsInv
            <7>2. incidents'[i] \in IncidentRow
              BY <1>3, <7>1, ElementOfSeq
            <7>3. incidents[i] \in IncidentRow
              BY <4>3, <4>5, <7>1, ElementOfSeq DEF Inv, RowsInv
            <7>4. reports[r] \in ReportRow
              BY <4>1, RowTypes DEF Inv
            <7>5. QED
              BY <7>2, <7>3, <7>4
          <6>2. incidents'[i].needs \in [Capability -> Nat] /\ incidents[i].needs \in [Capability -> Nat]
                  /\ reports[r].form \in Form
            BY <6>1, Zenon DEF IncidentRow, ReportRow
          <6>3. reports[r].form.needs \in [Capability -> Nat]
            BY <6>2, FormTypes
          <6>4. QED
            BY <6>2, <6>3, Zenon
        <5> DEFINE x == incidents'[i].needs[c]
                   y == incidents[i].needs[c]
                   z == reports[r].form.needs[c]
        <5>3. x >= y /\ y >= z /\ x \in Nat /\ y \in Nat /\ z \in Nat
          BY <4>3, <4>5, <5>1, <5>2, Zenon
        <5> HIDE DEF x, y, z
        <5>4. x >= z
          BY <5>3, SMT
        <5>5. QED
          BY <4>1, <4>2, <4>5, <5>4, Zenon DEF x, z
      <4>6. QED
        BY <4>4, <4>5, Zenon
    <3>3. QED
      BY <3>1, <3>2, Zenon
  <2>2. QED
    BY <2>1, Zenon DEF NeedsCoverReports
<1>14. CompanyInv'
  <2>1. w.of = 0 => t \in Filing /\ Earned(w.form, mark, 5)
    <3>1. w.of = 0 => t \in Filing
      BY <1>1, Zenon DEF Filing
    <3>2. w.of = 0 => Earned(w.form, mark, 5)
      BY <1>1, <1>2, Zenon DEF Inv, CompanyInv
    <3>3. QED
      BY <3>1, <3>2, Zenon
  <2>2. Meant(w.form, mark, status)
    BY <1>1, <1>2, Zenon DEF Inv, CompanyInv
  <2>3. w.of # 0 => mark = w.mark
    BY <1>2, Zenon
  <2>4. QED
    BY <1>4, <1>5, <1>7, <1>11, <2>1, <2>2, <2>3, WrittenCompany
<1>15. ASSUME {"overlap", "officers"} \cap scene = {} PROVE CountsInv'
  <2>1. CountsInv
    BY <1>15, Zenon DEF Inv, CountsApart
  <2>2. w.of # 0 => mark = w.mark /\ k = w.of
    BY <1>2, <1>6, Zenon
  <2>3. \A u \in Task : u # t /\ task[u].pc = "commit" /\ i # 0 => task[u].pick # i
    <3>1. ASSUME NEW u \in Task, u # t, task[u].pc = "commit", task[u].pick = i PROVE FALSE
      <4>1. Points(task[u])
        BY Zenon DEF Inv, TaskInv
      <4>2. task[u].pick # 0 /\ i \in DOMAIN incidents
        BY <1>3, <3>1, <4>1, Zenon DEF Points
      <4>3. i = w.pick /\ w.pick # 0
        BY <1>3, <4>2, Zenon
      <4>4. w.pc = "commit" /\ task[u].pc = "commit" /\ task[u].pick # 0 => w.pick # task[u].pick
        BY <2>1, <3>1, Zenon DEF CountsInv
      <4>5. QED
        BY <1>1, <3>1, <4>2, <4>3, <4>4, Zenon
    <3>2. QED
      BY <3>1, Zenon
  <2>4. (FollowsReports(i))'
    <3> DEFINE s == IF w.pick = 0 THEN {} ELSE Linked(w.pick)
    <3>1. s = Linked(i) /\ Linked(i) \subseteq Ids
      <4>1. CASE w.pick # 0
        BY <1>3, <4>1, Zenon DEF Linked
      <4>2. CASE w.pick = 0
        <5>1. i \notin DOMAIN incidents
          BY <1>3, <4>2
        <5>2. \A r \in Ids : reports[r].inc # i
          BY <1>3, <5>1, Zenon DEF Inv, RowsInv
        <5>3. QED
          BY <4>2, <5>2, Zenon DEF Linked
      <4>3. QED
        BY <4>1, <4>2, Zenon
    <3>2. [count |-> w.count, sev |-> w.sev] = Recount(cat, Linked(i), f, mark)
      BY <1>1, <1>2, <2>1, <3>1, Zenon DEF CountsInv, Counted
    <3>3. w.of # 0 => reports[k].inc = 0
      BY <2>1, <2>2, Zenon DEF CountsInv
    <3>4. /\ i # 0 => (Linked(i))' = Linked(i) \cup {k} /\ k \notin Linked(i)
          /\ \A x : x \subseteq Ids => (Senders(x))' = Senders(x) /\ (Assessed(x))' = Assessed(x)
      BY <1>4, <1>7, <2>2, <3>3, WrittenLinks
    <3>5. PICK l : l = Linked(i)
      OBVIOUS
    <3>6. (Linked(i))' = l \cup {k} /\ k \notin l
      BY <1>3, <3>4, <3>5, Zenon
    <3>7. (Senders(l))' = Senders(l) /\ (Assessed(l))' = Assessed(l)
      BY <3>1, <3>4, <3>5, Zenon
    <3>8. IsFiniteSet(l)
      BY <3>1, <3>5, SetsOfReports DEF Inv
    <3>9. Cardinality(l \cup {k}) = Cardinality(l) + 1
      BY <3>6, <3>8, FS_AddElement
    <3>10. (Cardinality(Senders(l \cup {k})))' = Independent(l, f)
      <4> DEFINE new == <<f.phone, IF f.phone = Nobody THEN k ELSE 0>>
      <4>1. (Senders(l \cup {k}))' = Senders(l) \cup {new}
        BY <1>9, <3>7, Zenon DEF Senders
      <4>2. IsFiniteSet(Senders(l))
        BY <3>1, <3>5, SendersAreFinite DEF Inv
      <4>3. QED
        BY <3>1, <3>5, <3>6, <4>1, <4>2, OneMoreSender DEF Inv
    <3>11. (Assessed(l \cup {k}))' = Assessed(l) \cup (IF mark = "low" THEN {} ELSE {Reading(f)})
      <4>1. (Assessed(l \cup {k}))' = (Assessed(l))' \cup (IF mark = "low" THEN {} ELSE {Reading(f)})
        BY <1>9, Zenon DEF Assessed
      <4>2. QED
        BY <3>7, <4>1, Zenon
    <3>12. w.count = Cardinality(l) + 1
             /\ w.sev = Severity(cat, Independent(l, f),
                                 Assessed(l) \cup (IF mark = "low" THEN {} ELSE {Reading(f)}))
      <4> DEFINE v == Severity(cat, Independent(l, f),
                               Assessed(l) \cup (IF mark = "low" THEN {} ELSE {Reading(f)}))
      <4>1. [count |-> w.count, sev |-> w.sev] = [count |-> Cardinality(l) + 1, sev |-> v]
        BY <3>2, <3>5, Zenon DEF Recount
      <4> HIDE DEF v
      <4>2. w.count = Cardinality(l) + 1 /\ w.sev = v
        BY <4>1, SMT
      <4>3. QED
        BY <4>2 DEF v
    <3>13. QED
      BY <1>3, <3>6, <3>9, <3>10, <3>11, <3>12, Zenon DEF FollowsReports, Senders, Assessed
  <2>5. DOMAIN incidents' \subseteq DOMAIN incidents \cup ({i} \ {0})
    BY <1>3, Zenon
  <2>6. \A j \in DOMAIN incidents : j # i =>
          /\ incidents'[j].cat = incidents[j].cat
          /\ incidents'[j].count = incidents[j].count /\ incidents'[j].sev = incidents[j].sev
    BY <1>3, Zenon
  <2>7. QED
    BY <1>4, <1>5, <1>7, <2>1, <2>2, <2>3, <2>4, <2>5, <2>6, WrittenCounts
<1>16. QED
  BY <1>5, <1>11, <1>12, <1>13, <1>14, <1>15, Zenon DEF Inv, CountsApart

----------------------------------------------------------------------------
LEMMA InitInv == Init => Inv
<1> SUFFICES ASSUME Init PROVE Inv
  OBVIOUS
<1>1. reports = <<>> /\ incidents = <<>> /\ task = [t \in Task |-> Idle]
  BY Zenon DEF Init
<1>2. /\ <<>> \in Seq(ReportRow) /\ <<>> \in Seq(IncidentRow)
      /\ DOMAIN <<>> = {} /\ Len(<<>>) = 0
  BY SMT
<1>3. Ids = {} /\ DOMAIN incidents = {} /\ Len(reports) = 0
  BY <1>1, <1>2, Zenon DEF Ids
<1>4. \A t \in Task : task[t] = Idle
  BY <1>1, Zenon
<1>5. Idle.pc = "idle" /\ Idle.of = 0
  BY IdleFits
<1>6. Idle.pc \notin {"find", "weigh", "count", "commit"}
  BY <1>5, SMT
<1>7. RowsInv
  BY <1>1, <1>2, <1>3, Zenon DEF RowsInv
<1>8. TaskInv
  BY <1>1, <1>4, IdleFits, Zenon DEF TaskInv
<1>9. NeedsCoverReports
  BY <1>3, Zenon DEF NeedsCoverReports
<1>10. CountsApart
  BY <1>3, <1>4, <1>5, <1>6, Zenon DEF CountsApart, CountsInv
<1>11. CompanyInv
  <2>1. Filing = {}
    BY <1>4, <1>6, Zenon DEF Filing
  <2>2. Len(reports) + Cardinality(Filing) <= MaxReports
    BY <1>3, <2>1, FS_EmptySet, IntakeAssumption, SMT
  <2>3. QED
    BY <1>3, <1>4, <1>6, <2>2, Zenon DEF CompanyInv
<1>12. QED
  BY <1>7, <1>8, <1>9, <1>10, <1>11, Zenon DEF Inv

LEMMA UnchangedInv ==
  ASSUME Inv, UNCHANGED vars
  PROVE  Inv'
<1>1. UNCHANGED rows /\ scene' = scene /\ task' = task
  BY Zenon DEF vars, rigid
<1>2. RowsKept
  BY <1>1, SameRows DEF Inv
<1>3. QED
  BY <1>1, <1>2, Unmoved

LEMMA NextInv == Inv /\ [Next]_vars => Inv'
<1> SUFFICES ASSUME Inv, [Next]_vars PROVE Inv'
  OBVIOUS
<1>1. ASSUME NEW t \in Task, MovesOn(t) PROVE Inv'
  <2>1. RowsKept /\ scene' = scene /\ \E w : WellMoved(t, w) /\ task' = [task EXCEPT ![t] = w]
    BY <1>1, Zenon DEF MovesOn
  <2>2. PICK w : WellMoved(t, w) /\ task' = [task EXCEPT ![t] = w]
    BY <2>1, Zenon
  <2>3. QED
    BY <2>1, <2>2, Moved
<1>2. ASSUME NEW t \in Task, CitizenReports(t) \/ CrewReports(t) \/ AnonymousReports(t) PROVE Inv'
  BY <1>1, <1>2, ReceiveMoves
<1>3. ASSUME NEW t \in Task, Classify(t) PROVE Inv'
  BY <1>1, <1>3, ClassifyMoves
<1>4. ASSUME NEW t \in Task, Find(t) \/ Seek(t) PROVE Inv'
  BY <1>1, <1>4, SearchMoves
<1>5. ASSUME NEW t \in Task, Weigh(t) PROVE Inv'
  BY <1>1, <1>5, WeighMoves
<1>6. ASSUME NEW t \in Task, File(t) PROVE Inv'
  BY <1>6, FileKeeps
<1>7. ASSUME NEW t \in Task, Open(t) PROVE Inv'
  BY <1>1, <1>7, OpenMoves
<1>8. ASSUME NEW t \in Task, Lock(t) PROVE Inv'
  BY <1>1, <1>8, LockMoves
<1>9. ASSUME NEW t \in Task, Count(t) PROVE Inv'
  BY <1>1, <1>9, CountMoves
<1>10. ASSUME NEW t \in Task, Commit(t) PROVE Inv'
  BY <1>10, CommitKeeps
<1>11. ASSUME NEW t \in Task, Abort(t) PROVE Inv'
  BY <1>1, <1>11, AbortMoves
<1>12. CASE Verdict \/ \E i \in 1..MaxIncidents : Resolve(i) \/ Confirm(i)
  <2>1. RowsKept /\ scene' = scene /\ task' = task
    BY <1>12, FindingsKeep
  <2>2. QED
    BY <2>1, Unmoved
<1>13. CASE UNCHANGED vars
  BY <1>13, UnchangedInv
<1>14. QED
  BY <1>2, <1>3, <1>4, <1>5, <1>6, <1>7, <1>8, <1>9, <1>10, <1>11, <1>12, <1>13, Zenon DEF Next, Handles

(* What the rows and the handlers keep, whatever is filed, classified,      *)
(* found out or aborted in whatever order.                                  *)
THEOREM RowsStayWhole == Spec => []Inv
<1>1. Init => Inv
  BY InitInv
<1>2. Inv /\ [Next]_vars => Inv'
  BY NextInv
<1>3. QED
  BY <1>1, <1>2, PTL DEF Spec

(* An incident needs what each of its reports asks for (_write_needs), also *)
(* where transactions overlap and officers classify one report twice.       *)
THEOREM NeedsCoverReportsSafe == Spec => []NeedsCoverReports
<1>1. Inv => NeedsCoverReports
  BY DEF Inv
<1>2. QED
  BY <1>1, RowsStayWhole, PTL

(* The count and the severity of an incident are those of its reports       *)
(* (_recompute_incident) as long as no two transactions count one incident  *)
(* and no two officers read one report.                                     *)
THEOREM IncidentsFollowReportsSafe == Spec => []IncidentsFollowReports
<1>1. Inv => IncidentsFollowReports
  BY Zenon DEF Inv, CountsApart, CountsInv, IncidentsFollowReports
<1>2. QED
  BY <1>1, RowsStayWhole, PTL

(* A report of a known sender outside the categories of life and death is   *)
(* confirmed by another sender, or by a history of more than five           *)
(* (trust.score).                                                           *)
THEOREM ConfirmedHasCompanySafe == Spec => []ConfirmedHasCompany
<1>1. ASSUME Inv, NEW r \in Ids,
             reports[r].status = "auto_confirmed", reports[r].form.cat \notin LifeSafety,
             reports[r].form.phone # Nobody, Cardinality(From(reports[r].form.phone)) <= 6
      PROVE  Company(reports[r].form)
  BY <1>1, Zenon DEF Inv, CompanyInv, Earned, Meant
<1>2. Inv => ConfirmedHasCompany
  BY <1>1, Zenon DEF ConfirmedHasCompany, Company
<1>3. QED
  BY <1>2, RowsStayWhole, PTL

=============================================================================
