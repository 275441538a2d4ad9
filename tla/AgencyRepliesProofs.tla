------------------------- MODULE AgencyRepliesProofs -------------------------
(***************************************************************************)
(* Theorems about AgencyReplies, for any agencies, quantities, length of   *)
(* chain, tasks and officers, and any scene.                               *)
(*                                                                         *)
(* An answer works on one row, its own, and makes or schedules one more.   *)
(* Held says what each row, and each answer under way, knows of what was   *)
(* asked for; Child that a follow-up is answered by one hand at a time and *)
(* counted once; Token that without officers and hedges only the newest    *)
(* request can still bring anything.  They are stated of rows r, hands h   *)
(* and a scene s, and a step is shown to lead from one r and h to others.  *)
(***************************************************************************)
EXTENDS AgencyReplies, FiniteSetTheorems, SequenceTheorems, WellFoundedInduction, TLAPS

----------------------------------------------------------------------------
(* Sums over finite sets.                                                   *)

(* Of a collection of subsets of a finite set one contains no other.        *)
LEMMA SmallestSet ==
  ASSUME NEW T, IsFiniteSet(T), NEW B, B \subseteq SUBSET T, B # {}
  PROVE  \E U \in B : \A V \in B : V \subseteq U => V = U
<1>1. IsWellFoundedOn(StrictSubsetOrdering(T), SUBSET T)
  BY FS_StrictSubsetOrderingWellFounded, FS_FiniteSubsetsOfFinite, Zenon
<1>2. PICK U \in B : \A V \in B : ~(<<V, U>> \in StrictSubsetOrdering(T))
  BY <1>1, WFMin, Zenon
<1>3. \A V \in B : V \subseteq U => V = U
  BY <1>2 DEF StrictSubsetOrdering
<1>4. QED
  BY <1>3, Zenon

(* The fold behind a sum: a function on the subsets, one element at a time. *)
One(s) == CHOOSE x \in s : TRUE
Adds(f, T, it) ==
  it = [s \in SUBSET T |-> IF s = {} THEN 0 ELSE f[One(s)] + it[s \ {One(s)}]]

LEMMA SumIsFold ==
  ASSUME NEW f, NEW T
  PROVE  SumFunctionOnSet(f, T) = (CHOOSE it : Adds(f, T, it))[T]
BY Zenon DEF SumFunctionOnSet, FoldFunctionOnSet, MapThenFoldSet, Adds, One

LEMMA OneIsIn ==
  ASSUME NEW s, s # {}
  PROVE  One(s) \in s
BY Zenon DEF One

LEMMA AddsAt ==
  ASSUME NEW f, NEW T, NEW it, Adds(f, T, it), NEW s, s \subseteq T
  PROVE  it[s] = IF s = {} THEN 0 ELSE f[One(s)] + it[s \ {One(s)}]
<1>1. s \in SUBSET T
  BY Zenon
<1>2. [u \in SUBSET T |-> IF u = {} THEN 0 ELSE f[One(u)] + it[u \ {One(u)}]][s]
        = IF s = {} THEN 0 ELSE f[One(s)] + it[s \ {One(s)}]
  BY <1>1, Zenon
<1>3. QED
  BY <1>2, Zenon DEF Adds

(* There is one such function at most.                                      *)
LEMMA AddsOnce ==
  ASSUME NEW f, NEW T, IsFiniteSet(T), NEW X, T \subseteq X,
         NEW it, Adds(f, T, it), NEW jt, Adds(f, X, jt)
  PROVE  it[T] = jt[T]
<1> DEFINE B == {s \in SUBSET T : it[s] # jt[s]}
<1>1. SUFFICES ASSUME B # {} PROVE FALSE
  BY Zenon
<1>2. B \subseteq SUBSET T
  BY Zenon
<1>3. PICK U \in B : \A V \in B : V \subseteq U => V = U
  <2> HIDE DEF B
  <2>1. QED
    BY <1>1, <1>2, SmallestSet
<1>4. U \subseteq T /\ it[U] # jt[U]
  BY <1>3, Zenon
<1>5. it[U] = (IF U = {} THEN 0 ELSE f[One(U)] + it[U \ {One(U)}])
  BY <1>4, AddsAt
<1>6. jt[U] = (IF U = {} THEN 0 ELSE f[One(U)] + jt[U \ {One(U)}])
  <2>1. U \subseteq X
    BY <1>4, Zenon
  <2>2. QED
    BY <2>1, AddsAt
<1>7. U # {}
  BY <1>4, <1>5, <1>6, Zenon
<1>8. it[U \ {One(U)}] = jt[U \ {One(U)}]
  <2>1. One(U) \in U
    BY <1>7, OneIsIn, Zenon
  <2>2. ~(U \ {One(U)} \in B)
    BY <1>3, <2>1, Zenon
  <2>3. U \ {One(U)} \in SUBSET T
    BY <1>4, Zenon
  <2>4. QED
    BY <2>2, <2>3, Zenon
<1>9. QED
  BY <1>4, <1>5, <1>6, <1>7, <1>8, Zenon

(* For a finite set there is one, so a sum is the chosen element and the rest. *)
SumsUp(f, s) ==
  SumFunctionOnSet(f, s) =
    IF s = {} THEN 0 ELSE f[One(s)] + SumFunctionOnSet(f, s \ {One(s)})

LEMMA AddsExists ==
  ASSUME NEW f, NEW T, \A s \in SUBSET T : s # T => SumsUp(f, s)
  PROVE  \E it : Adds(f, T, it)
<1> DEFINE rest(s) == SumFunctionOnSet(f, s)
<1> DEFINE g == [s \in SUBSET T |-> IF s = {} THEN 0
                                    ELSE IF s = T THEN f[One(T)] + rest(T \ {One(T)}) ELSE rest(s)]
<1>1. ASSUME NEW s \in SUBSET T, s # {} PROVE g[s] = f[One(s)] + g[s \ {One(s)}]
  <2>1. One(s) \in s /\ s \ {One(s)} \in SUBSET T /\ s \ {One(s)} # T
    BY <1>1, OneIsIn, Zenon
  <2>2. SumsUp(f, s \ {One(s)})
    BY <2>1, Zenon
  <2>3. g[s \ {One(s)}] = rest(s \ {One(s)})
    <3>1. CASE s \ {One(s)} = {}
      <4>1. rest({}) = 0
        BY <2>2, <3>1, Zenon DEF SumsUp
      <4>2. g[{}] = 0
        BY Zenon
      <4>3. QED
        BY <3>1, <4>1, <4>2, Zenon
    <3>2. CASE s \ {One(s)} # {}
      BY <2>1, <3>2, Zenon
    <3>3. QED
      BY <3>1, <3>2, Zenon
  <2>4. CASE s = T
    <3>1. g[s] = f[One(T)] + rest(T \ {One(T)})
      BY <1>1, <2>4, Zenon
    <3>2. QED
      BY <2>3, <2>4, <3>1, Zenon
  <2>5. CASE s # T
    <3>1. g[s] = rest(s)
      BY <1>1, <2>5, Zenon
    <3>2. rest(s) = f[One(s)] + rest(s \ {One(s)})
      BY <1>1, <2>5, Zenon DEF SumsUp
    <3>3. QED
      BY <2>3, <3>1, <3>2, Zenon
  <2>6. QED
    BY <2>4, <2>5, Zenon
<1>2. g[{}] = 0 /\ {} \in SUBSET T
  BY Zenon
<1>3. g = [s \in DOMAIN g |-> g[s]] /\ DOMAIN g = SUBSET T
  BY Zenon
<1>4. Adds(f, T, g)
  <2> HIDE DEF g
  <2>1. \A s \in SUBSET T : g[s] = IF s = {} THEN 0 ELSE f[One(s)] + g[s \ {One(s)}]
    BY <1>1, <1>2, Zenon
  <2>2. [s \in SUBSET T |-> g[s]] = [s \in SUBSET T |-> IF s = {} THEN 0 ELSE f[One(s)] + g[s \ {One(s)}]]
    BY <2>1, Zenon
  <2>3. QED
    BY <1>3, <2>2, Zenon DEF Adds
<1>5. QED
  BY <1>4, Zenon

LEMMA SumsByOne ==
  ASSUME NEW f, NEW T, IsFiniteSet(T)
  PROVE  SumsUp(f, T)
<1> DEFINE B == {s \in SUBSET T : ~SumsUp(f, s)}
<1>1. SUFFICES ASSUME B # {} PROVE FALSE
  BY Zenon
<1>2. PICK U \in B : \A V \in B : V \subseteq U => V = U
  <2>1. B \subseteq SUBSET T
    BY Zenon
  <2> HIDE DEF B
  <2>2. QED
    BY <1>1, <2>1, SmallestSet
<1>3. U \subseteq T /\ ~SumsUp(f, U)
  BY <1>2, Zenon
<1>4. \A s \in SUBSET U : s # U => SumsUp(f, s)
  BY <1>2, <1>3, Zenon
<1>5. Adds(f, U, CHOOSE it : Adds(f, U, it))
  BY <1>4, AddsExists, Zenon
<1>6. PICK it : Adds(f, U, it) /\ SumFunctionOnSet(f, U) = it[U]
  BY <1>5, SumIsFold, Zenon
<1>7. it[U] = IF U = {} THEN 0 ELSE f[One(U)] + it[U \ {One(U)}]
  BY <1>6, AddsAt
<1>8. U # {}
  BY <1>3, <1>6, <1>7, Zenon DEF SumsUp
<1> DEFINE V == U \ {One(U)}
<1>9. V \subseteq U /\ V # U /\ \A s \in SUBSET V : s # V => SumsUp(f, s)
  BY <1>4, <1>8, OneIsIn, Zenon
<1>10. Adds(f, V, CHOOSE jt : Adds(f, V, jt))
  <2> HIDE DEF V
  <2>1. QED
    BY <1>9, AddsExists, Zenon
<1>11. PICK jt : Adds(f, V, jt) /\ SumFunctionOnSet(f, V) = jt[V]
  BY <1>10, SumIsFold, Zenon
<1>12. jt[V] = it[V]
  <2>1. IsFiniteSet(V)
    BY <1>3, <1>9, FS_Subset, Zenon
  <2> HIDE DEF V
  <2>2. QED
    BY <1>6, <1>9, <1>11, <2>1, AddsOnce
<1>13. QED
  BY <1>3, <1>6, <1>7, <1>8, <1>11, <1>12, Zenon DEF SumsUp

(* A sum of integers is one, and any of its terms may be taken out first.   *)
LEMMA SumTakesOut ==
  ASSUME NEW T, IsFiniteSet(T), NEW f, \A x \in T : f[x] \in Int
  PROVE  /\ SumFunctionOnSet(f, T) \in Int
         /\ \A x \in T : SumFunctionOnSet(f, T) = f[x] + SumFunctionOnSet(f, T \ {x})
<1> DEFINE sum(s) == SumFunctionOnSet(f, s)
<1> DEFINE good(s) == sum(s) \in Int /\ \A x \in s : sum(s) = f[x] + sum(s \ {x})
<1> DEFINE B == {s \in SUBSET T : ~good(s)}
<1>1. SUFFICES ASSUME B # {} PROVE FALSE
  BY Zenon
<1>2. PICK U \in B : \A V \in B : V \subseteq U => V = U
  <2>1. B \subseteq SUBSET T
    BY Zenon
  <2> HIDE DEF B
  <2>2. QED
    BY <1>1, <2>1, SmallestSet
<1>3. U \subseteq T /\ ~good(U)
  BY <1>2, Zenon
<1>4. \A s : s \subseteq U /\ s # U => good(s)
  BY <1>2, <1>3, Zenon
<1> HIDE DEF B
<1>5. \A s : s \subseteq U => sum(s) = IF s = {} THEN 0 ELSE f[One(s)] + sum(s \ {One(s)})
  BY <1>3, SumsByOne, FS_Subset DEF SumsUp
<1>6. U # {}
  <2>1. U = {} => sum(U) = 0
    BY <1>5, Zenon
  <2>2. 0 \in Int
    OBVIOUS
  <2>3. U = {} => good(U)
    BY <2>1, <2>2, Zenon
  <2>4. QED
    BY <1>3, <2>3, Zenon
<1> DEFINE c == One(U)
<1>7. c \in U /\ f[c] \in Int /\ sum(U) = f[c] + sum(U \ {c})
  BY <1>3, <1>5, <1>6, OneIsIn, Zenon
<1> HIDE DEF c
<1>8. sum(U) \in Int /\ sum(U \ {c}) \in Int
  <2>1. U \ {c} \subseteq U /\ U \ {c} # U
    BY <1>7, Zenon
  <2>2. sum(U \ {c}) \in Int
    BY <1>4, <2>1, Zenon
  <2> HIDE DEF sum
  <2>3. QED
    BY <1>7, <2>2
<1>9. ASSUME NEW x \in U, x # c PROVE sum(U) = f[x] + sum(U \ {x})
  <2> DEFINE W == U \ {c, x}
  <2>1. /\ U \ {c} \subseteq U /\ U \ {c} # U /\ x \in U \ {c} /\ (U \ {c}) \ {x} = W
        /\ U \ {x} \subseteq U /\ U \ {x} # U /\ c \in U \ {x} /\ (U \ {x}) \ {c} = W
        /\ W \subseteq U /\ W # U /\ f[x] \in Int
    BY <1>3, <1>7, <1>9, Zenon
  <2>2. sum(U \ {c}) = f[x] + sum(W) /\ sum(U \ {x}) = f[c] + sum(W) /\ sum(W) \in Int
    BY <1>4, <2>1, Zenon
  <2> HIDE DEF sum, W
  <2>3. QED
    BY <1>7, <2>1, <2>2
<1>10. good(U)
  BY <1>7, <1>8, <1>9, Zenon
<1>11. QED
  BY <1>3, <1>10, Zenon

LEMMA SumOfNone == \A f : SumFunctionOnSet(f, {}) = 0
BY SumsByOne, FS_EmptySet, Zenon DEF SumsUp

(* A sum of fewer and smaller terms is smaller.                             *)
LEMMA SumOfLess ==
  ASSUME NEW T, IsFiniteSet(T), NEW U, U \subseteq T, NEW f, NEW g,
         \A x \in T : g[x] \in Nat, \A x \in U : f[x] \in Nat /\ f[x] <= g[x]
  PROVE  /\ SumFunctionOnSet(f, U) \in Nat /\ SumFunctionOnSet(g, T) \in Nat
         /\ SumFunctionOnSet(f, U) <= SumFunctionOnSet(g, T)
<1> DEFINE F(s) == SumFunctionOnSet(f, s \cap U)
<1> DEFINE G(s) == SumFunctionOnSet(g, s)
<1> DEFINE good(s) == F(s) \in Nat /\ G(s) \in Nat /\ F(s) <= G(s)
<1> DEFINE B == {s \in SUBSET T : ~good(s)}
<1>1. SUFFICES ASSUME B # {} PROVE FALSE
  <2>1. B = {} => good(T)
    BY Zenon
  <2>2. T \cap U = U
    BY Zenon
  <2>3. good(T) => SumFunctionOnSet(f, U) \in Nat /\ SumFunctionOnSet(g, T) \in Nat
                     /\ SumFunctionOnSet(f, U) <= SumFunctionOnSet(g, T)
    BY <2>2, Zenon
  <2>4. QED
    BY <2>1, <2>3, Zenon
<1>2. PICK V \in B : \A s \in B : s \subseteq V => s = V
  <2>1. B \subseteq SUBSET T
    BY Zenon
  <2> HIDE DEF B
  <2>2. QED
    BY <1>1, <2>1, SmallestSet
<1>3. V \subseteq T /\ ~good(V) /\ \A s : s \subseteq V /\ s # V => good(s)
  BY <1>2, Zenon
<1> HIDE DEF B
<1>4. V # {}
  <2>1. F({}) = 0 /\ G({}) = 0
    <3>1. {} \cap U = {}
      BY Zenon
    <3>2. QED
      BY <3>1, SumOfNone, Zenon
  <2>2. 0 \in Nat /\ 0 <= 0
    OBVIOUS
  <2>3. good({})
    BY <2>1, <2>2, Zenon
  <2>4. QED
    BY <1>3, <2>3, Zenon
<1>5. PICK c \in V : TRUE
  BY <1>4, Zenon
<1> DEFINE W == V \ {c}
<1>6. good(W)
  BY <1>3, <1>5, Zenon
<1>7. G(V) = g[c] + G(W) /\ g[c] \in Nat
  <2>1. IsFiniteSet(V) /\ \A x \in V : g[x] \in Int
    BY <1>3, FS_Subset
  <2>2. \A x \in V : SumFunctionOnSet(g, V) = g[x] + SumFunctionOnSet(g, V \ {x})
    BY <2>1, SumTakesOut
  <2>3. QED
    BY <1>3, <2>2, Zenon
<1>8. CASE c \in U
  <2>1. F(V) = f[c] + F(W) /\ f[c] \in Nat /\ f[c] <= g[c]
    <3>1. IsFiniteSet(V \cap U) /\ \A x \in V \cap U : f[x] \in Int
      BY <1>3, FS_Subset
    <3>2. \A x \in V \cap U : SumFunctionOnSet(f, V \cap U) = f[x] + SumFunctionOnSet(f, (V \cap U) \ {x})
      BY <3>1, SumTakesOut
    <3>3. c \in V \cap U /\ (V \cap U) \ {c} = W \cap U
      BY <1>5, <1>8, Zenon
    <3>4. QED
      BY <1>8, <3>2, <3>3, Zenon
  <2>2. good(V)
    <3> HIDE DEF F, G
    <3>1. QED
      BY <1>6, <1>7, <2>1
  <2>3. QED
    BY <1>3, <2>2, Zenon
<1>9. CASE c \notin U
  <2>1. F(V) = F(W)
    <3>1. V \cap U = W \cap U
      BY <1>9, Zenon
    <3>2. QED
      BY <3>1, Zenon
  <2>2. good(V)
    <3> HIDE DEF F, G
    <3>1. QED
      BY <1>6, <1>7, <2>1
  <2>3. QED
    BY <1>3, <2>2, Zenon
<1>10. QED
  BY <1>8, <1>9, Zenon

----------------------------------------------------------------------------
(* Rows and hands.                                                          *)

StagedIn(r) == [m \in DOMAIN r |-> r[m].staged]
ChildrenIn(r, n) == {m \in DOMAIN r : r[m].parent = n}
SumIn(r, S) == SumFunctionOnSet(StagedIn(r), S)
Brought(r, n) == SumIn(r, ChildrenIn(r, n))
Passed(r, n, q) ==
  \/ q <= 0
  \/ \E m \in ChildrenIn(r, n) : ~r[m].hedge /\ r[m].qty >= q
  \/ r[n].escalated >= q

Working == {"pick", "insert", "schedule", "write"}

(* What a hand has got to; a task of process_due records nothing.           *)
Sane(x, r) ==
  /\ x.pc # "idle" => x.of \in DOMAIN r
  /\ x.pc = "schedule" => x.made \in DOMAIN r
  /\ x.pc = "insert" => x.next \in Holder /\ r[x.of].depth < MaxChain
  /\ x.pc \in {"pick", "insert"} => x.ask > 0
  /\ x.pc \in Working => x.kind # "none" /\ (x.kind # "accept" => x.given = 0)
Tasks(x) == x.act = "none" /\ x.pc \notin {"seen", "record", "clear"}
Types(r, h) ==
  /\ r \in Seq(Request) /\ h \in [Actor -> Hand]
  /\ \A a \in Actor : Sane(h[a], r)
  /\ \A w \in Worker : Tasks(h[w])

(* The need of a request is held, or in the hands of who is answering it.   *)
Short(x, q) ==
  CASE x.kind = "accept" /\ q.to \notin External -> q.qty - q.staged
    [] x.kind = "decline" -> q.qty
    [] OTHER -> 0
RowHeld(r, n) ==
  /\ r[n].status = "fulfilled" /\ r[n].to \notin External => Passed(r, n, r[n].qty - r[n].staged)
  /\ r[n].status = "declined" => Passed(r, n, r[n].qty)
  /\ r[n].kind = "stand_down" => Brought(r, n) >= r[n].qty
HandHeld(r, x) ==
  /\ x.pc \in {"pick", "insert", "schedule"} => x.ask >= Short(x, r[x.of])
  /\ x.pc = "schedule" /\ x.kind \in {"accept", "decline"} =>
       r[x.made].parent = x.of /\ ~r[x.made].hedge /\ r[x.made].qty >= x.ask
  /\ x.pc = "write" => Passed(r, x.of, Short(x, r[x.of]))
  /\ x.pc = "stand_down" => Brought(r, x.of) >= r[x.of].qty
Held(r, h) == (\A n \in DOMAIN r : RowHeld(r, n)) /\ \A a \in Actor : HandHeld(r, h[a])

(* A follow-up is answered by one hand at a time, and counted once.         *)
ChildRow(q) == q.parent # 0 =>
  /\ q.to \in Holder
  /\ q.units <= q.staged
  /\ q.units # 0 => q.status \notin Open
ChildHand(r, h, s, a) == h[a].pc # "idle" /\ r[h[a].of].parent # 0 =>
  /\ r[h[a].of].units = 0
  /\ h[a].pc \in Working => h[a].given <= r[h[a].of].staged
  /\ a \in Worker => ~r[h[a].of].due
  /\ \A b \in Actor \ {a} : h[b].pc # "idle" => h[b].of # h[a].of
  /\ a \in Officer => "officer_races" \notin s /\ \A b \in Actor \ {a} : h[b].pc = "idle"
MadeHand(r, h, a) == h[a].pc = "schedule" =>
  /\ r[h[a].made].parent # 0 /\ ~r[h[a].made].due
  /\ \A b \in Actor : h[b].pc # "idle" => h[b].of # h[a].made
  /\ \A b \in Actor \ {a} : h[b].pc = "schedule" => h[b].made # h[a].made
Child(r, h, s) ==
  /\ \A m \in DOMAIN r : ChildRow(r[m])
  /\ \A a \in Actor : ChildHand(r, h, s, a) /\ MadeHand(r, h, a)

(* Without officers and hedges the newest request is the only one that can  *)
(* still bring anything: its due time, or the one hand that is on it, is    *)
(* handed from request to request.                                          *)
Unhedged(s) == MaxRoots = 1 /\ s \cap {"officer", "swarm", "life_safety"} = {}
Waits(x) == x.pc = "write" /\ x.kind \in {"delayed", "need_info"}
Live(x) == x.pc \in {"answer", "pick", "insert", "schedule"} \/ Waits(x)
TokenRow(r, n) ==
  /\ r[n].parent = 0 <=> n = 1
  /\ r[n].staged <= r[n].qty
  /\ SumIn(r, 1..(n - 1)) + r[n].qty <= r[1].qty
  /\ r[n].due => n = Len(r) /\ r[n].staged = 0
TokenHand(r, x) ==
  /\ x.pc = "answer" \/ Waits(x) => x.of = Len(r) /\ r[x.of].staged = 0
  /\ x.pc \in {"pick", "insert"} => x.of = Len(r) /\ r[x.of].staged + x.ask <= r[x.of].qty
  /\ x.pc = "schedule" => x.made = Len(r) /\ r[x.made].staged = 0
  /\ x.pc \in {"pick", "insert", "schedule"} => x.kind \in {"accept", "decline"}
Token(r, h) ==
  /\ \A n \in DOMAIN r : TokenRow(r, n)
  /\ \A a \in Actor : TokenHand(r, h[a])
  /\ \A o \in Officer : h[o].pc = "idle"
  /\ \A a \in Actor : Live(h[a]) =>
       (\A n \in DOMAIN r : ~r[n].due) /\ \A b \in Actor \ {a} : ~Live(h[b])

Inv ==
  /\ scene \in Scenarios
  /\ Types(requests, hand) /\ Held(requests, hand) /\ Child(requests, hand, scene)
  /\ Unhedged(scene) => Token(requests, hand)

----------------------------------------------------------------------------
(* A row is replaced, or one is added.                                      *)
LEMMA Rows ==
  ASSUME NEW r \in Seq(Request)
  PROVE  /\ Len(r) \in Nat /\ DOMAIN r = 1..Len(r) /\ IsFiniteSet(DOMAIN r)
         /\ \A m \in DOMAIN r : r[m] \in Request /\ m \in Nat \ {0} /\ m <= Len(r)
<1>1. Len(r) \in Nat /\ DOMAIN r = 1..Len(r)
  BY LenProperties
<1>2. IsFiniteSet(1..Len(r))
  BY <1>1, FS_Interval
<1>3. \A m \in DOMAIN r : r[m] \in Request
  BY ElementOfSeq, <1>1
<1>4. QED
  BY <1>1, <1>2, <1>3

LEMMA RowPut ==
  ASSUME NEW r \in Seq(Request), NEW n \in DOMAIN r, NEW y \in Request,
         NEW r2, r2 = [r EXCEPT ![n] = y]
  PROVE  /\ r2 \in Seq(Request) /\ Len(r2) = Len(r) /\ DOMAIN r2 = DOMAIN r
         /\ r2[n] = y /\ \A m \in DOMAIN r : m # n => r2[m] = r[m]
<1>1. r2 \in Seq(Request) /\ Len(r2) = Len(r)
  BY Rows, ExceptSeq
<1>2. DOMAIN r2 = DOMAIN r /\ r2[n] = y /\ \A m \in DOMAIN r : m # n => r2[m] = r[m]
  BY Zenon
<1>3. QED
  BY <1>1, <1>2, Zenon

LEMMA RowAdd ==
  ASSUME NEW r \in Seq(Request), NEW y \in Request, NEW r2, r2 = Append(r, y)
  PROVE  /\ r2 \in Seq(Request) /\ Len(r2) = Len(r) + 1
         /\ DOMAIN r2 = DOMAIN r \cup {Len(r) + 1} /\ Len(r) + 1 \notin DOMAIN r
         /\ r2[Len(r) + 1] = y /\ \A m \in DOMAIN r : r2[m] = r[m]
<1>1. /\ r2 \in Seq(Request) /\ Len(r2) = Len(r) + 1
      /\ \A i \in 1..Len(r) : r2[i] = r[i]
      /\ r2[Len(r) + 1] = y
  BY AppendProperties
<1>2. DOMAIN r2 = 1..(Len(r) + 1) /\ DOMAIN r = 1..Len(r) /\ Len(r) \in Nat
  BY <1>1, Rows
<1>3. QED
  BY <1>1, <1>2

(* What no step changes of a row, and what only grows.                      *)
SameKey(q, y) ==
  /\ y.to = q.to /\ y.qty = q.qty /\ y.parent = q.parent /\ y.hedge = q.hedge /\ y.depth = q.depth
  /\ q.staged <= y.staged /\ q.escalated <= y.escalated
Grown(r, r2) == DOMAIN r \subseteq DOMAIN r2 /\ \A m \in DOMAIN r : SameKey(r[m], r2[m])

LEMMA Numbers ==
  ASSUME NEW q \in Request
  PROVE  /\ q.qty \in Nat \ {0} /\ q.staged \in Nat /\ q.escalated \in Nat /\ q.units \in Nat
         /\ q.parent \in Nat /\ q.heard \in Nat /\ q.depth \in 1..MaxChain /\ q.to \in Agency
         /\ q.hedge \in BOOLEAN /\ q.due \in BOOLEAN
  BY DEF Request

LEMMA KeyStays == ASSUME NEW q \in Request PROVE SameKey(q, q)
  BY Numbers DEF SameKey

LEMMA RowPutGrows ==
  ASSUME NEW r \in Seq(Request), NEW n \in DOMAIN r, NEW y \in Request, SameKey(r[n], y),
         NEW r2, r2 = [r EXCEPT ![n] = y]
  PROVE  Grown(r, r2)
<1>1. DOMAIN r2 = DOMAIN r /\ r2[n] = y /\ \A m \in DOMAIN r : m # n => r2[m] = r[m]
  BY RowPut, Zenon
<1>2. \A m \in DOMAIN r : SameKey(r[m], r[m])
  BY Rows, KeyStays, Zenon
<1>3. QED
  BY <1>1, <1>2, Zenon DEF Grown

LEMMA RowAddGrows ==
  ASSUME NEW r \in Seq(Request), NEW y \in Request, NEW r2, r2 = Append(r, y)
  PROVE  Grown(r, r2)
<1>1. DOMAIN r2 = DOMAIN r \cup {Len(r) + 1} /\ \A m \in DOMAIN r : r2[m] = r[m]
  BY RowAdd
<1>2. \A m \in DOMAIN r : SameKey(r[m], r[m])
  BY Rows, KeyStays, Zenon
<1>3. QED
  BY <1>1, <1>2, Zenon DEF Grown

(* What was passed on or brought stays so.                                  *)
LEMMA PassedStays ==
  ASSUME NEW r \in Seq(Request), NEW r2 \in Seq(Request), Grown(r, r2), NEW n \in DOMAIN r,
         NEW q \in Int, NEW q2 \in Int, q2 <= q, Passed(r, n, q)
  PROVE  Passed(r2, n, q2)
<1>1. /\ \A m \in DOMAIN r : /\ m \in DOMAIN r2 /\ SameKey(r[m], r2[m])
                             /\ r[m].qty \in Nat /\ r[m].escalated \in Nat /\ r2[m].escalated \in Nat
  BY Rows, Numbers DEF Grown
<1>2. CASE q <= 0
  BY <1>2 DEF Passed
<1>3. ASSUME NEW m \in ChildrenIn(r, n), ~r[m].hedge, r[m].qty >= q
      PROVE  Passed(r2, n, q2)
  <2>1. m \in DOMAIN r /\ r[m].parent = n
    BY DEF ChildrenIn
  <2>2. m \in ChildrenIn(r2, n) /\ ~r2[m].hedge /\ r2[m].qty >= q2
    BY <1>1, <1>3, <2>1 DEF ChildrenIn, SameKey
  <2>3. QED
    BY <2>2, Zenon DEF Passed
<1>4. CASE r[n].escalated >= q
  <2>1. r2[n].escalated >= q2
    BY <1>1, <1>4 DEF SameKey
  <2>2. QED
    BY <2>1 DEF Passed
<1>5. QED
  BY <1>2, <1>3, <1>4, Zenon DEF Passed

LEMMA BroughtGrows ==
  ASSUME NEW r \in Seq(Request), NEW r2 \in Seq(Request), Grown(r, r2), NEW n
  PROVE  Brought(r, n) \in Nat /\ Brought(r2, n) \in Nat /\ Brought(r, n) <= Brought(r2, n)
<1> DEFINE U == ChildrenIn(r, n)  T == ChildrenIn(r2, n)  f == StagedIn(r)  g == StagedIn(r2)
<1>1. \A m \in DOMAIN r : m \in DOMAIN r2 /\ SameKey(r[m], r2[m]) /\ r[m].staged \in Nat
  BY Rows, Numbers DEF Grown
<1>2. \A m \in DOMAIN r2 : r2[m].staged \in Nat
  BY Rows, Numbers
<1>3. U \subseteq T
  BY <1>1 DEF ChildrenIn, SameKey
<1>4. IsFiniteSet(T)
  <2>1. T \subseteq DOMAIN r2
    BY DEF ChildrenIn
  <2>2. QED
    BY <2>1, Rows, FS_Subset
<1>5. \A m \in T : g[m] \in Nat
  BY <1>2 DEF ChildrenIn, StagedIn
<1>6. \A m \in U : f[m] \in Nat /\ f[m] <= g[m]
  BY <1>1, <1>2 DEF ChildrenIn, StagedIn, SameKey
<1> HIDE DEF U, T, f, g
<1>7. /\ SumFunctionOnSet(f, U) \in Nat /\ SumFunctionOnSet(g, T) \in Nat
      /\ SumFunctionOnSet(f, U) <= SumFunctionOnSet(g, T)
  BY <1>3, <1>4, <1>5, <1>6, SumOfLess
<1>8. QED
  BY <1>7, Zenon DEF U, T, f, g, Brought, SumIn

(* A sum over rows of which nothing was staged in between.                  *)
LEMMA SumStays ==
  ASSUME NEW r \in Seq(Request), NEW r2 \in Seq(Request),
         NEW S, S \subseteq DOMAIN r, S \subseteq DOMAIN r2, \A m \in S : r2[m].staged = r[m].staged
  PROVE  SumIn(r2, S) = SumIn(r, S) /\ SumIn(r, S) \in Nat
<1> DEFINE f == StagedIn(r)  g == StagedIn(r2)
<1>1. \A m \in S : f[m] \in Nat /\ g[m] \in Nat /\ f[m] = g[m]
  <2>1. \A m \in S : r[m].staged \in Nat /\ r2[m].staged \in Nat
    BY Rows, Numbers
  <2>2. QED
    BY <2>1 DEF StagedIn
<1>2. IsFiniteSet(S) /\ S \subseteq S
  BY Rows, FS_Subset
<1> HIDE DEF f, g
<1>3. \A m \in S : f[m] <= g[m] /\ g[m] <= f[m]
  BY <1>1
<1>4. SumFunctionOnSet(f, S) <= SumFunctionOnSet(g, S) /\ SumFunctionOnSet(f, S) \in Nat
  BY <1>1, <1>2, <1>3, SumOfLess
<1>5. SumFunctionOnSet(g, S) <= SumFunctionOnSet(f, S) /\ SumFunctionOnSet(g, S) \in Nat
  BY <1>1, <1>2, <1>3, SumOfLess
<1>6. SumFunctionOnSet(f, S) = SumFunctionOnSet(g, S)
  BY <1>4, <1>5
<1>7. QED
  BY <1>4, <1>6, Zenon DEF f, g, SumIn

LEMMA NoPut ==
  ASSUME NEW r \in Seq(Request), NEW n \in DOMAIN r
  PROVE  [r EXCEPT ![n] = r[n]] = r
<1>1. r = [m \in DOMAIN r |-> r[m]]
  BY ElementOfSeq, LenProperties
<1>2. [r EXCEPT ![n] = r[n]] = [m \in DOMAIN r |-> r[m]]
  BY Zenon
<1>3. QED
  BY <1>1, <1>2, Zenon

LEMMA HandFields ==
  ASSUME NEW x \in Hand
  PROVE  x.of \in Nat /\ x.given \in Nat /\ x.ask \in Nat /\ x.made \in Nat /\ x.heard \in Nat
  BY DEF Hand

(* Where rows only grow, what was known of the others still is.             *)
LEMMA SaneStays ==
  ASSUME NEW r \in Seq(Request), NEW r2 \in Seq(Request), Grown(r, r2), NEW x, Sane(x, r)
  PROVE  Sane(x, r2)
  BY DEF Sane, Grown, SameKey

LEMMA TypesMove ==
  ASSUME NEW r, NEW h, Types(r, h), NEW r2 \in Seq(Request), Grown(r, r2),
         NEW h2 \in [Actor -> Hand],
         \A a \in Actor : h2[a] = h[a] \/ (Sane(h2[a], r2) /\ (a \in Worker => Tasks(h2[a])))
  PROVE  Types(r2, h2)
<1>1. r \in Seq(Request)
  BY DEF Types
<1>2. \A a \in Actor : Sane(h2[a], r2)
  BY <1>1, SaneStays, Zenon DEF Types
<1>3. \A w \in Worker : w \in Actor
  BY DEF Actor
<1>4. \A w \in Worker : Tasks(h2[w])
  BY <1>3, Zenon DEF Types
<1>5. QED
  BY <1>2, <1>4, Zenon DEF Types

LEMMA RowHeldStays ==
  ASSUME NEW r \in Seq(Request), NEW r2 \in Seq(Request), Grown(r, r2), NEW n \in DOMAIN r,
         r2[n].status = r[n].status, r2[n].kind = r[n].kind, RowHeld(r, n)
  PROVE  RowHeld(r2, n)
<1>1. SameKey(r[n], r2[n]) /\ r[n] \in Request /\ r2[n] \in Request
  BY Rows DEF Grown
<1> DEFINE q == r[n].qty - r[n].staged  q2 == r2[n].qty - r2[n].staged
<1>2. /\ q \in Int /\ q2 \in Int /\ q2 <= q
      /\ r[n].qty \in Int /\ r2[n].qty = r[n].qty /\ r[n].qty <= r[n].qty
  BY <1>1, Numbers DEF SameKey
<1> HIDE DEF q, q2
<1>3. Passed(r, n, q) => Passed(r2, n, q2)
  BY <1>2, PassedStays
<1>4. Passed(r, n, r[n].qty) => Passed(r2, n, r2[n].qty)
  <2>1. Passed(r, n, r[n].qty) => Passed(r2, n, r[n].qty)
    BY <1>2, PassedStays
  <2>2. QED
    BY <1>2, <2>1, Zenon
<1>5. Brought(r, n) >= r[n].qty => Brought(r2, n) >= r2[n].qty
  BY <1>2, BroughtGrows
<1>6. r2[n].to = r[n].to
  BY <1>1, Zenon DEF SameKey
<1>7. QED
  BY <1>3, <1>4, <1>5, <1>6, Zenon DEF RowHeld, q, q2

LEMMA ShortShrinks ==
  ASSUME NEW x, NEW q \in Request, NEW y \in Request, SameKey(q, y)
  PROVE  Short(x, q) \in Int /\ Short(x, y) \in Int /\ Short(x, y) <= Short(x, q)
<1>1. /\ q.qty \in Nat /\ q.staged \in Nat /\ y.staged \in Nat
      /\ y.qty = q.qty /\ y.to = q.to /\ q.staged <= y.staged
  BY Numbers DEF SameKey
<1>2. QED
  BY <1>1 DEF Short

LEMMA HandHeldStays ==
  ASSUME NEW r \in Seq(Request), NEW r2 \in Seq(Request), Grown(r, r2),
         NEW x \in Hand, Sane(x, r), HandHeld(r, x)
  PROVE  HandHeld(r2, x)
<1>1. SUFFICES ASSUME x.pc # "idle" PROVE HandHeld(r2, x)
  BY DEF HandHeld, Working
<1>2. x.of \in DOMAIN r
  BY <1>1 DEF Sane
<1>3. /\ r[x.of] \in Request /\ r2[x.of] \in Request /\ SameKey(r[x.of], r2[x.of])
  BY <1>2, Rows DEF Grown
<1> DEFINE k == Short(x, r[x.of])  k2 == Short(x, r2[x.of])
<1>4. k \in Int /\ k2 \in Int /\ k2 <= k
  BY <1>3, ShortShrinks
<1> HIDE DEF k, k2
<1>5. x.ask >= k => x.ask >= k2
  BY <1>4, HandFields
<1>6. Passed(r, x.of, k) => Passed(r2, x.of, k2)
  BY <1>2, <1>4, PassedStays
<1>7. Brought(r, x.of) >= r[x.of].qty => Brought(r2, x.of) >= r2[x.of].qty
  <2>1. r2[x.of].qty = r[x.of].qty /\ r[x.of].qty \in Nat
    BY <1>3, Numbers DEF SameKey
  <2>2. QED
    BY <2>1, BroughtGrows
<1>8. x.pc = "schedule" =>
        /\ r2[x.made].parent = r[x.made].parent /\ r2[x.made].hedge = r[x.made].hedge
        /\ r2[x.made].qty = r[x.made].qty
  BY DEF Sane, Grown, SameKey
<1>9. QED
  BY <1>5, <1>6, <1>7, <1>8, Zenon DEF HandHeld, k, k2

LEMMA HeldMove ==
  ASSUME NEW r, NEW h, Types(r, h), Held(r, h), NEW r2 \in Seq(Request), Grown(r, r2), NEW h2,
         \A n \in DOMAIN r2 : RowHeld(r2, n) \/ (n \in DOMAIN r /\ r2[n].status = r[n].status
                                                                /\ r2[n].kind = r[n].kind),
         \A a \in Actor : h2[a] = h[a] \/ HandHeld(r2, h2[a])
  PROVE  Held(r2, h2)
<1>1. r \in Seq(Request) /\ h \in [Actor -> Hand] /\ \A a \in Actor : Sane(h[a], r)
  BY DEF Types
<1>2. \A n \in DOMAIN r2 : RowHeld(r2, n)
  BY <1>1, RowHeldStays, Zenon DEF Held
<1>3. \A a \in Actor : HandHeld(r2, h[a])
  <2>1. \A a \in Actor : h[a] \in Hand
    BY <1>1, Zenon
  <2>2. QED
    BY <1>1, <2>1, HandHeldStays, Zenon DEF Held
<1>4. QED
  BY <1>2, <1>3, Zenon DEF Held

----------------------------------------------------------------------------
(* A hand's own row: p and q before the step, x and y after it.             *)
OwnRow(p, q, x, y) ==
  /\ p.pc # "idle" /\ x.pc # "schedule" /\ (x.pc = "idle" \/ x.of = p.of)
  /\ SameKey(q, y)
  /\ x.pc # "idle" => y.units = q.units /\ (y.due => q.due)
  /\ y.units # q.units => p.pc = "write" /\ y.units = q.units + p.given
  /\ y.units # q.units /\ p.given # 0 => y.status = "fulfilled"
  /\ x.pc \in Working => x.given <= y.staged \/ (x.given = p.given /\ p.pc \in Working)
  /\ y.staged # q.staged => p.pc = "answer"
  /\ y.due => q.due \/ Waits(p)

LEMMA ChildOwn ==
  ASSUME NEW r, NEW h, NEW s, Types(r, h), Child(r, h, s), NEW a \in Actor,
         NEW x \in Hand, NEW y \in Request, OwnRow(h[a], r[h[a].of], x, y),
         NEW r2, r2 = [r EXCEPT ![h[a].of] = y], NEW h2, h2 = [h EXCEPT ![a] = x]
  PROVE  Child(r2, h2, s)
<1> DEFINE n == h[a].of
<1>1. r \in Seq(Request) /\ h \in [Actor -> Hand] /\ n \in DOMAIN r /\ h[a].pc # "idle"
  BY DEF Types, Sane, OwnRow
<1>2. h2[a] = x /\ \A b \in Actor : b # a => h2[b] = h[b]
  BY <1>1, Zenon
<1>3. DOMAIN r2 = DOMAIN r /\ r2[n] = y /\ \A m \in DOMAIN r : m # n => r2[m] = r[m]
  BY <1>1, RowPut, Zenon
<1>4. r[n] \in Request /\ SameKey(r[n], y) /\ h[a] \in Hand
  BY <1>1, Rows DEF OwnRow
<1>5. \A m \in DOMAIN r : r2[m].parent = r[m].parent
  BY <1>3, <1>4 DEF SameKey
<1>6. ChildRow(y)
  <2>1. SUFFICES ASSUME r[n].parent # 0
                 PROVE  y.to \in Holder /\ y.units <= y.staged /\ (y.units # 0 => y.status \notin Open)
    BY <1>4 DEF ChildRow, SameKey
  <2>2. r[n].to \in Holder /\ r[n].units = 0
    BY <1>1, <2>1, Zenon DEF Child, ChildRow, ChildHand
  <2>3. h[a].pc = "write" => h[a].given <= r[n].staged
    BY <1>1, <2>1 DEF Child, ChildHand, Working
  <2>4. y.units = 0 \/ (y.units = h[a].given /\ h[a].pc = "write")
    BY <1>4, <2>2, HandFields DEF OwnRow
  <2>5. y.units <= y.staged
    BY <1>4, <2>3, <2>4, Numbers, HandFields DEF SameKey
  <2>6. y.units # 0 => y.status = "fulfilled"
    BY <2>2, <2>4, Zenon DEF OwnRow
  <2>7. QED
    BY <1>4, <2>2, <2>5, <2>6 DEF SameKey, Open
<1>7. \A m \in DOMAIN r2 : ChildRow(r2[m])
  BY <1>3, <1>6, Zenon DEF Child
<1>8. ASSUME NEW b \in Actor, b # a, h[b].pc # "idle", r[h[b].of].parent # 0
      PROVE  h[b].of # n /\ b \notin Officer /\ h[b].of \in DOMAIN r
  <2>1. h[b].of \in DOMAIN r
    BY <1>8 DEF Types, Sane
  <2>2. QED
    BY <1>1, <1>8, <2>1, Zenon DEF Child, ChildHand
<1>9. ASSUME NEW b \in Actor, h2[b].pc # "idle", r2[h2[b].of].parent # 0
      PROVE  /\ r2[h2[b].of].units = 0
             /\ h2[b].pc \in Working => h2[b].given <= r2[h2[b].of].staged
             /\ b \in Worker => ~r2[h2[b].of].due
             /\ \A c \in Actor \ {b} : h2[c].pc # "idle" => h2[c].of # h2[b].of
             /\ b \in Officer => "officer_races" \notin s /\ \A c \in Actor \ {b} : h2[c].pc = "idle"
  <2>1. CASE b = a
    <3>1. x.pc # "idle" /\ x.of = n /\ r[n].parent # 0 /\ y.units = r[n].units /\ (y.due => r[n].due)
      BY <1>2, <1>3, <1>4, <1>9, <2>1 DEF OwnRow, SameKey
    <3>2. /\ r[n].units = 0
          /\ h[a].pc \in Working => h[a].given <= r[n].staged
          /\ a \in Worker => ~r[n].due
          /\ \A c \in Actor \ {a} : h[c].pc # "idle" => h[c].of # n
          /\ a \in Officer => "officer_races" \notin s /\ \A c \in Actor \ {a} : h[c].pc = "idle"
      BY <1>1, <3>1, Zenon DEF Child, ChildHand
    <3>3. x.pc \in Working => x.given <= y.staged
      BY <1>4, <3>2, Numbers, HandFields DEF OwnRow, SameKey
    <3>4. \A c \in Actor \ {a} : h2[c] = h[c]
      BY <1>2, Zenon
    <3>5. h2[b] = x /\ r2[h2[b].of] = y
      BY <1>2, <1>3, <2>1, <3>1
    <3>6. y.units = 0 /\ (a \in Worker => ~y.due)
      BY <3>1, <3>2, Zenon
    <3>7. \A c \in Actor \ {a} : h2[c].pc # "idle" => h2[c].of # x.of
      BY <3>1, <3>2, <3>4, Zenon
    <3>8. a \in Officer => "officer_races" \notin s /\ \A c \in Actor \ {a} : h2[c].pc = "idle"
      BY <3>2, <3>4, Zenon
    <3>9. QED
      BY <2>1, <3>3, <3>5, <3>6, <3>7, <3>8, Zenon
  <2>2. CASE b # a
    <3>1. h2[b] = h[b] /\ h[b].pc # "idle"
      BY <1>2, <1>9, <2>2, Zenon
    <3>2. h[b].of \in DOMAIN r /\ r[h[b].of].parent # 0
      BY <1>5, <1>9, <3>1 DEF Types, Sane
    <3>3. h[b].of # n /\ b \notin Officer
      BY <1>8, <2>2, <3>1, <3>2, Zenon
    <3>4. r2[h[b].of] = r[h[b].of]
      BY <1>3, <3>2, <3>3, Zenon
    <3>5. /\ r[h[b].of].units = 0
          /\ h[b].pc \in Working => h[b].given <= r[h[b].of].staged
          /\ b \in Worker => ~r[h[b].of].due
          /\ \A c \in Actor \ {b} : h[c].pc # "idle" => h[c].of # h[b].of
      BY <3>1, <3>2, Zenon DEF Child, ChildHand
    <3>6. \A c \in Actor \ {b} : h2[c].pc # "idle" => h2[c].of # h[b].of
      <4>1. ASSUME NEW c \in Actor \ {b}, h2[c].pc # "idle" PROVE h2[c].of # h[b].of
        <5>1. CASE c = a
          BY <1>2, <3>3, <4>1, <5>1, Zenon DEF OwnRow
        <5>2. CASE c # a
          BY <1>2, <3>5, <4>1, <5>2, Zenon
        <5>3. QED
          BY <5>1, <5>2, Zenon
      <4>2. QED
        BY <4>1, Zenon
    <3>7. QED
      BY <3>1, <3>3, <3>4, <3>5, <3>6, Zenon
  <2>3. QED
    BY <2>1, <2>2, Zenon
<1>10. ASSUME NEW b \in Actor, h2[b].pc = "schedule"
       PROVE  /\ r2[h2[b].made].parent # 0 /\ ~r2[h2[b].made].due
              /\ \A c \in Actor : h2[c].pc # "idle" => h2[c].of # h2[b].made
              /\ \A c \in Actor \ {b} : h2[c].pc = "schedule" => h2[c].made # h2[b].made
  <2>1. b # a /\ h2[b] = h[b] /\ h[b].pc = "schedule"
    BY <1>2, <1>10, Zenon DEF OwnRow
  <2>2. /\ r[h[b].made].parent # 0 /\ ~r[h[b].made].due
        /\ \A c \in Actor : h[c].pc # "idle" => h[c].of # h[b].made
        /\ \A c \in Actor \ {b} : h[c].pc = "schedule" => h[c].made # h[b].made
    BY <2>1, Zenon DEF Child, MadeHand
  <2>3. h[b].made \in DOMAIN r /\ h[b].made # n
    BY <1>1, <2>1, <2>2, Zenon DEF Types, Sane
  <2>4. r2[h[b].made] = r[h[b].made]
    BY <1>3, <2>3, Zenon
  <2>5. \A c \in Actor : h2[c].pc # "idle" => h2[c].of # h[b].made
    <3>1. x.pc # "idle" => x.of # h[b].made
      BY <2>3, Zenon DEF OwnRow
    <3>2. QED
      BY <1>2, <2>2, <3>1, Zenon
  <2>6. \A c \in Actor \ {b} : h2[c].pc = "schedule" => h2[c].made # h[b].made
    <3>1. x.pc # "schedule"
      BY Zenon DEF OwnRow
    <3>2. QED
      BY <1>2, <2>2, <3>1, Zenon
  <2>7. QED
    BY <2>1, <2>2, <2>4, <2>5, <2>6, Zenon
<1>11. QED
  BY <1>7, <1>9, <1>10, Zenon DEF Child, ChildHand, MadeHand

(* What such a step must leave, for the newest request to stay the one.     *)
TokenMove(r2, p, q, x, y) ==
  /\ TokenHand(r2, x) /\ (Live(x) => Live(p))
  /\ y.staged <= y.qty /\ (y.due => p.of = Len(r2) /\ y.staged = 0)

LEMMA TokenOwn ==
  ASSUME NEW r, NEW h, Types(r, h), Token(r, h), NEW a \in Actor,
         NEW x \in Hand, NEW y \in Request, OwnRow(h[a], r[h[a].of], x, y),
         NEW r2, r2 = [r EXCEPT ![h[a].of] = y], NEW h2, h2 = [h EXCEPT ![a] = x],
         TokenMove(r2, h[a], r[h[a].of], x, y)
  PROVE  Token(r2, h2)
<1> DEFINE n == h[a].of  p == h[a]
<1>1. r \in Seq(Request) /\ h \in [Actor -> Hand] /\ n \in DOMAIN r /\ p.pc # "idle" /\ p \in Hand
  BY DEF Types, Sane, OwnRow
<1>2. h2[a] = x /\ \A b \in Actor : b # a => h2[b] = h[b]
  BY <1>1, Zenon
<1>3. /\ DOMAIN r2 = DOMAIN r /\ r2[n] = y /\ \A m \in DOMAIN r : m # n => r2[m] = r[m]
      /\ Len(r2) = Len(r) /\ r2 \in Seq(Request)
  BY <1>1, RowPut
<1>4. r[n] \in Request /\ SameKey(r[n], y)
  BY <1>1, Rows DEF OwnRow
<1>5. /\ Len(r) \in Nat /\ DOMAIN r = 1..Len(r)
      /\ \A m \in DOMAIN r : r[m] \in Request /\ r2[m] \in Request
  BY <1>1, <1>3, Rows
<1>6. y.staged # r[n].staged => n = Len(r)
  <2>1. p.pc = "answer" => n = Len(r)
    BY Zenon DEF Token, TokenHand
  <2>2. QED
    BY <2>1, Zenon DEF OwnRow
<1>7. ASSUME NEW m \in DOMAIN r PROVE SumIn(r2, 1..(m - 1)) = SumIn(r, 1..(m - 1))
  <2> DEFINE S == 1..(m - 1)
  <2>1. S \subseteq DOMAIN r /\ Len(r) \notin S
    BY <1>5
  <2> HIDE DEF S
  <2>2. \A k \in S : r2[k].staged = r[k].staged
    BY <1>3, <1>6, <2>1, Zenon
  <2>3. r \in Seq(Request) /\ r2 \in Seq(Request) /\ S \subseteq DOMAIN r2
    BY <1>1, <1>3, <2>1, Zenon
  <2>4. SumIn(r2, S) = SumIn(r, S)
    BY <2>1, <2>2, <2>3, SumStays, Zenon
  <2>5. QED
    BY <2>4, Zenon DEF S
<1>8. ASSUME NEW m \in DOMAIN r PROVE TokenRow(r2, m)
  <2>1. TokenRow(r, m)
    BY DEF Token
  <2>2. \A k \in DOMAIN r : r2[k].parent = r[k].parent /\ r2[k].qty = r[k].qty
    BY <1>3, <1>4, Zenon DEF SameKey
  <2>3. 1 \in DOMAIN r
    BY <1>5
  <2>4. r2[m].parent = 0 <=> m = 1
    BY <2>1, <2>2, Zenon DEF TokenRow
  <2>5. SumIn(r2, 1..(m - 1)) + r2[m].qty <= r2[1].qty
    <3>1. SumIn(r, 1..(m - 1)) + r[m].qty <= r[1].qty
      BY <2>1, Zenon DEF TokenRow
    <3>2. SumIn(r2, 1..(m - 1)) = SumIn(r, 1..(m - 1)) /\ r2[m].qty = r[m].qty /\ r2[1].qty = r[1].qty
      BY <1>7, <2>2, <2>3, Zenon
    <3>3. QED
      BY <3>1, <3>2, Zenon
  <2>6. r2[m].staged <= r2[m].qty /\ (r2[m].due => m = Len(r2) /\ r2[m].staged = 0)
    BY <1>3, <2>1, Zenon DEF TokenRow, TokenMove
  <2>7. QED
    BY <2>4, <2>5, <2>6, Zenon DEF TokenRow
<1>9. ASSUME NEW b \in Actor, b # a, Live(h[b])
      PROVE  ~Live(p) /\ \A m \in DOMAIN r : ~r[m].due
  BY <1>9, Zenon DEF Token
<1>10. ASSUME NEW b \in Actor PROVE TokenHand(r2, h2[b])
  <2>1. CASE b = a
    BY <1>2, <2>1, Zenon DEF TokenMove
  <2>2. CASE b # a
    <3>1. h2[b] = h[b] /\ TokenHand(r, h[b])
      BY <1>2, <2>2, Zenon DEF Token
    <3>2. ASSUME Live(h[b]) PROVE r2[Len(r)].staged = r[Len(r)].staged
      <4>1. ~Live(p)
        BY <1>9, <2>2, <3>2, Zenon
      <4>2. y.staged = r[n].staged
        BY <4>1, Zenon DEF OwnRow, Live
      <4>3. Len(r) \in DOMAIN r
        BY <1>1, <1>5
      <4>4. QED
        BY <1>3, <4>2, <4>3, Zenon
    <3>3. r2[Len(r)].qty = r[Len(r)].qty
      <4>1. Len(r) \in DOMAIN r
        BY <1>1, <1>5
      <4>2. QED
        BY <1>3, <1>4, <4>1, Zenon DEF SameKey
    <3>4. QED
      BY <1>3, <3>1, <3>2, <3>3, Zenon DEF TokenHand, Live, Waits
  <2>3. QED
    BY <2>1, <2>2, Zenon
<1>11. \A o \in Officer : h2[o].pc = "idle"
  <2>1. a \notin Officer /\ \A o \in Officer : o \in Actor
    BY <1>1, Zenon DEF Token, Actor
  <2>2. QED
    BY <1>2, <2>1, Zenon DEF Token
<1>12. ASSUME NEW b \in Actor, Live(h2[b])
       PROVE  (\A m \in DOMAIN r2 : ~r2[m].due) /\ \A c \in Actor \ {b} : ~Live(h2[c])
  <2>1. CASE b = a
    <3>1. Live(x) /\ Live(p)
      BY <1>2, <1>12, <2>1, Zenon DEF TokenMove
    <3>2. (\A m \in DOMAIN r : ~r[m].due) /\ \A c \in Actor \ {a} : ~Live(h[c])
      BY <3>1, Zenon DEF Token
    <3>3. ~y.due
      <4>1. x.pc # "idle"
        BY <3>1, Zenon DEF Live, Waits
      <4>2. QED
        BY <1>1, <3>2, <4>1, Zenon DEF OwnRow
    <3>4. QED
      BY <1>2, <1>3, <2>1, <3>2, <3>3, Zenon
  <2>2. CASE b # a
    <3>1. h2[b] = h[b] /\ Live(h[b])
      BY <1>2, <1>12, <2>2, Zenon
    <3>2. (\A m \in DOMAIN r : ~r[m].due) /\ \A c \in Actor \ {b} : ~Live(h[c])
      BY <3>1, Zenon DEF Token
    <3>3. ~Live(p) /\ ~Live(x)
      BY <2>2, <3>2, Zenon DEF TokenMove
    <3>4. ~y.due
      BY <1>1, <3>2, <3>3, Zenon DEF OwnRow, Live
    <3>5. QED
      BY <1>2, <1>3, <3>2, <3>3, <3>4, Zenon
  <2>3. QED
    BY <2>1, <2>2, Zenon
<1>13. QED
  BY <1>3, <1>8, <1>10, <1>11, <1>12, Zenon DEF Token

(* An answer takes a step on its own row.                                   *)
OwnLeaves(s, r2, a, p, q, x, y) ==
  /\ Sane(x, r2) /\ (a \in Worker => Tasks(x))
  /\ RowHeld(r2, p.of) \/ (y.status = q.status /\ y.kind = q.kind)
  /\ HandHeld(r2, x)
  /\ Unhedged(s) => TokenMove(r2, p, q, x, y)
Own(a) == \E x \in Hand, y \in Request :
  /\ hand' = [hand EXCEPT ![a] = x] /\ requests' = [requests EXCEPT ![hand[a].of] = y]
  /\ scene' = scene
  /\ OwnRow(hand[a], Req(a), x, y)
  /\ OwnLeaves(scene, [requests EXCEPT ![hand[a].of] = y], a, hand[a], Req(a), x, y)

LEMMA HandPut ==
  ASSUME NEW h \in [Actor -> Hand], NEW a \in Actor, NEW x \in Hand, NEW h2, h2 = [h EXCEPT ![a] = x]
  PROVE  h2 \in [Actor -> Hand] /\ h2[a] = x /\ \A b \in Actor : b # a => h2[b] = h[b]
  BY Zenon

(* What is known of a hand that is busy, and of its row.                    *)
LEMMA Here ==
  ASSUME Inv, NEW a \in Actor, hand[a].pc # "idle"
  PROVE  /\ requests \in Seq(Request) /\ hand \in [Actor -> Hand]
         /\ hand[a] \in Hand /\ hand[a].of \in DOMAIN requests /\ Req(a) \in Request
         /\ Sane(hand[a], requests) /\ (a \in Worker => Tasks(hand[a]))
         /\ RowHeld(requests, hand[a].of) /\ HandHeld(requests, hand[a])
         /\ Unhedged(scene) => /\ TokenHand(requests, hand[a]) /\ TokenRow(requests, hand[a].of)
                               /\ a \in Worker /\ (Live(hand[a]) => ~Req(a).due)
<1>1. requests \in Seq(Request) /\ hand \in [Actor -> Hand] /\ hand[a] \in Hand
      /\ Sane(hand[a], requests) /\ (a \in Worker => Tasks(hand[a]))
  BY Zenon DEF Inv, Types
<1>2. hand[a].of \in DOMAIN requests
  BY <1>1, Zenon DEF Sane
<1>3. Req(a) \in Request
  BY <1>1, <1>2, Rows, Zenon DEF Req
<1>4. RowHeld(requests, hand[a].of) /\ HandHeld(requests, hand[a])
  BY <1>2, Zenon DEF Inv, Held
<1>5. Unhedged(scene) => /\ TokenHand(requests, hand[a]) /\ TokenRow(requests, hand[a].of)
                         /\ a \in Worker /\ (Live(hand[a]) => ~Req(a).due)
  <2>1. a \notin Officer => a \in Worker
    BY Zenon DEF Actor
  <2>2. QED
    BY <1>2, <2>1, Zenon DEF Inv, Token, Req
<1>6. QED
  BY <1>1, <1>2, <1>3, <1>4, <1>5, Zenon

LEMMA OwnKeeps ==
  ASSUME Inv, NEW a \in Actor, Own(a)
  PROVE  Inv'
<1>1. PICK x \in Hand, y \in Request :
        /\ hand' = [hand EXCEPT ![a] = x] /\ requests' = [requests EXCEPT ![hand[a].of] = y]
        /\ scene' = scene
        /\ OwnRow(hand[a], Req(a), x, y)
        /\ OwnLeaves(scene, [requests EXCEPT ![hand[a].of] = y], a, hand[a], Req(a), x, y)
  BY Zenon DEF Own
<1>2. PICK r, h, s, r2, h2 :
        r = requests /\ h = hand /\ s = scene /\ r2 = requests' /\ h2 = hand'
  OBVIOUS
<1> DEFINE n == h[a].of
<1>3. /\ r2 = [r EXCEPT ![n] = y] /\ h2 = [h EXCEPT ![a] = x] /\ OwnRow(h[a], r[n], x, y)
      /\ OwnLeaves(s, r2, a, h[a], r[n], x, y)
      /\ Types(r, h) /\ Held(r, h) /\ Child(r, h, s) /\ (Unhedged(s) => Token(r, h)) /\ s \in Scenarios
  BY <1>1, <1>2, Zenon DEF Inv, Req
<1>4. h[a].pc # "idle"
  BY <1>3, Zenon DEF OwnRow
<1>5. r \in Seq(Request) /\ n \in DOMAIN r /\ h \in [Actor -> Hand]
  BY <1>3, <1>4, Zenon DEF Types, Sane
<1>6. Grown(r, r2)
  <2>1. SameKey(r[n], y)
    BY <1>3, Zenon DEF OwnRow
  <2>2. QED
    BY <1>3, <1>5, <2>1, RowPutGrows
<1>7. /\ r2 \in Seq(Request) /\ DOMAIN r2 = DOMAIN r
      /\ r2[n] = y /\ \A m \in DOMAIN r : m # n => r2[m] = r[m]
  BY <1>3, <1>5, RowPut
<1>8. h2 \in [Actor -> Hand] /\ h2[a] = x /\ \A b \in Actor : b # a => h2[b] = h[b]
  BY <1>3, <1>5, HandPut
<1>9. Types(r2, h2)
  <2>1. \A b \in Actor : h2[b] = h[b] \/ (Sane(h2[b], r2) /\ (b \in Worker => Tasks(h2[b])))
    BY <1>3, <1>8, Zenon DEF OwnLeaves
  <2>2. Types(r, h) /\ r2 \in Seq(Request) /\ Grown(r, r2) /\ h2 \in [Actor -> Hand]
    BY <1>3, <1>6, <1>7, <1>8, Zenon
  <2>3. QED
    BY <2>1, <2>2, TypesMove
<1>10. Held(r2, h2)
  <2>1. \A m \in DOMAIN r2 : RowHeld(r2, m) \/ (m \in DOMAIN r /\ r2[m].status = r[m].status
                                                                /\ r2[m].kind = r[m].kind)
    BY <1>3, <1>7, Zenon DEF OwnLeaves
  <2>2. \A b \in Actor : h2[b] = h[b] \/ HandHeld(r2, h2[b])
    BY <1>3, <1>8, Zenon DEF OwnLeaves
  <2>3. Types(r, h) /\ Held(r, h) /\ r2 \in Seq(Request) /\ Grown(r, r2)
    BY <1>3, <1>6, <1>7, Zenon
  <2>4. QED
    BY <2>1, <2>2, <2>3, HeldMove
<1>11. Child(r2, h2, s)
  BY <1>3, ChildOwn
<1>12. Unhedged(s) => Token(r2, h2)
  BY <1>3, TokenOwn DEF OwnLeaves
<1>13. QED
  BY <1>1, <1>2, <1>3, <1>9, <1>10, <1>11, <1>12, Zenon DEF Inv

----------------------------------------------------------------------------
(* The steps of a hand on its own row, one by one.                          *)
LEMMA IdleFits ==
  ASSUME NEW r
  PROVE  /\ Idle \in Hand /\ Idle.pc = "idle" /\ Sane(Idle, r) /\ Tasks(Idle) /\ HandHeld(r, Idle)
         /\ TokenHand(r, Idle) /\ ~Live(Idle)
<1>1. Idle \in Hand
  BY DEF Idle, Hand
<1>2. Idle.pc = "idle" /\ Idle.act = "none"
  BY DEF Idle
<1>3. QED
  BY <1>1, <1>2, Zenon DEF Sane, Tasks, HandHeld, TokenHand, Live, Waits, Working

(* The row stays as it is.                                                  *)
LEMMA OwnThinks ==
  ASSUME Inv, NEW a \in Actor, hand[a].pc # "idle", NEW x \in Hand,
         hand' = [hand EXCEPT ![a] = x], UNCHANGED <<scene, requests>>,
         x.pc # "schedule", x.pc = "idle" \/ x.of = hand[a].of,
         x.pc \in Working => x.given = hand[a].given /\ hand[a].pc \in Working,
         Sane(x, requests), a \in Worker => Tasks(x), HandHeld(requests, x),
         Unhedged(scene) => TokenHand(requests, x) /\ (Live(x) => Live(hand[a]))
  PROVE  Own(a)
<1> DEFINE p == hand[a]  q == Req(a)
<1>1. /\ requests \in Seq(Request) /\ p.of \in DOMAIN requests /\ q \in Request
      /\ (Unhedged(scene) => TokenRow(requests, p.of))
  BY Here, Zenon
<1>2. [requests EXCEPT ![p.of] = q] = requests
  BY <1>1, NoPut, Zenon DEF Req
<1>3. OwnRow(p, q, x, q)
  BY <1>1, KeyStays, Zenon DEF OwnRow
<1>4. OwnLeaves(scene, requests, a, p, q, x, q)
  BY <1>1, Zenon DEF OwnLeaves, TokenMove, TokenRow, Req
<1>5. QED
  BY <1>1, <1>2, <1>3, <1>4, Zenon DEF Own

LEMMA FailsOwn ==
  ASSUME Inv, NEW a \in Actor, Fails(a)
  PROVE  Own(a)
<1>1. hand[a].pc # "idle" /\ hand' = [hand EXCEPT ![a] = Idle] /\ UNCHANGED <<scene, requests>>
  BY DEF Fails, At
<1>2. QED
  BY <1>1, IdleFits, OwnThinks DEF Working

LEMMA RecordOwn ==
  ASSUME Inv, NEW a \in Actor, Record(a)
  PROVE  Own(a)
<1> DEFINE p == hand[a]  q == Req(a)
           x == [p EXCEPT !.pc = "clear", !.was = q.kind, !.heard = q.heard]
<1>1. p.pc = "seen" /\ p.act \in {"accept", "decline"} /\ UNCHANGED <<scene, requests>>
  BY DEF Record, At
<1>2. p \in Hand /\ q \in Request /\ p.of \in DOMAIN requests /\ (a \in Worker => Tasks(p))
      /\ (Unhedged(scene) => a \in Worker)
  BY <1>1, Here
<1>3. x \in Hand /\ x.pc = "clear" /\ x.of = p.of
  BY <1>2 DEF Hand, Request
<1>4. hand' = [hand EXCEPT ![a] = x]
  BY DEF Record
<1>5. a \notin Worker /\ ~Unhedged(scene)
  BY <1>1, <1>2, Zenon DEF Tasks
<1> HIDE DEF x
<1>6. Sane(x, requests) /\ HandHeld(requests, x)
  BY <1>2, <1>3 DEF Sane, HandHeld, Working
<1>7. QED
  BY <1>1, <1>3, <1>4, <1>5, <1>6, OwnThinks DEF Working

LEMMA PickNextOwn ==
  ASSUME Inv, NEW a \in Actor, hand[a].pc = "pick", NEW next \in Holder, ~ChainEnds(hand[a].of),
         hand' = [hand EXCEPT ![a].pc = "insert", ![a].next = next], UNCHANGED <<scene, requests>>
  PROVE  Own(a)
<1> DEFINE p == hand[a]  q == Req(a)
           x == [p EXCEPT !.pc = "insert", !.next = next]
<1>1. /\ p \in Hand /\ q \in Request /\ p.of \in DOMAIN requests /\ (a \in Worker => Tasks(p))
      /\ hand \in [Actor -> Hand] /\ Sane(p, requests) /\ HandHeld(requests, p)
      /\ (Unhedged(scene) => TokenHand(requests, p))
  BY Here
<1>2. /\ x.pc = "insert" /\ x.of = p.of /\ x.next = next /\ x.kind = p.kind /\ x.ask = p.ask
      /\ x.given = p.given /\ x.act = p.act
  BY <1>1 DEF Hand
<1>3. x \in Hand
  BY <1>1, AgencyAssumption DEF Hand
<1>4. hand' = [hand EXCEPT ![a] = x]
  OBVIOUS
<1> HIDE DEF x
<1>5. requests[p.of].depth < MaxChain
  <2>1. q.depth \in 1..MaxChain /\ MaxChain \in Nat
    BY <1>1, Numbers, AgencyAssumption
  <2>2. QED
    BY <2>1 DEF ChainEnds, Req
<1>6. Sane(x, requests) /\ (a \in Worker => Tasks(x))
  BY <1>1, <1>2, <1>5 DEF Sane, Tasks, Working
<1>7. HandHeld(requests, x)
  BY <1>1, <1>2 DEF HandHeld, Short
<1>8. Unhedged(scene) => TokenHand(requests, x) /\ Live(hand[a])
  BY <1>1, <1>2 DEF TokenHand, Live, Waits
<1>9. QED
  BY <1>1, <1>2, <1>3, <1>4, <1>6, <1>7, <1>8, OwnThinks DEF Working

(* Covered is less than was brought: follow-ups are counted once.           *)
LEMMA CoveredWasBrought ==
  ASSUME Inv, NEW n \in DOMAIN requests
  PROVE  Covered(n) \in Nat /\ Brought(requests, n) \in Nat /\ Covered(n) <= Brought(requests, n)
<1> DEFINE T == ChildrenIn(requests, n)
           U == {m \in Children(n) : requests[m].status = "fulfilled"}
           g == StagedIn(requests)
<1>1. /\ requests \in Seq(Request) /\ n # 0 /\ IsFiniteSet(DOMAIN requests)
      /\ \A m \in DOMAIN requests : requests[m] \in Request
  BY Rows, Zenon DEF Inv, Types
<1>2. T \subseteq DOMAIN requests /\ U \subseteq T
  BY DEF ChildrenIn, Children
<1>3. IsFiniteSet(T)
  BY <1>1, <1>2, FS_Subset, Zenon
<1>4. \A m \in T : g[m] \in Nat /\ g[m] = requests[m].staged
  <2>1. \A m \in T : requests[m].staged \in Nat
    BY <1>1, <1>2, Numbers, Zenon
  <2>2. QED
    BY <1>2, <2>1, Zenon DEF StagedIn
<1>5. \A m \in U : Came[m] \in Nat /\ Came[m] <= g[m]
  <2>1. ASSUME NEW m \in U PROVE Came[m] \in Nat /\ Came[m] <= g[m]
    <3>1. m \in DOMAIN requests /\ m \in T /\ requests[m].parent = n
      BY <1>2, Zenon DEF ChildrenIn
    <3>2. Came[m] = requests[m].units /\ requests[m].units \in Nat
      BY <1>1, <3>1, Numbers, Zenon DEF Came
    <3>3. requests[m].units <= requests[m].staged
      BY <1>1, <3>1, Zenon DEF Inv, Child, ChildRow
    <3>4. QED
      BY <1>4, <3>1, <3>2, <3>3, Zenon
  <2>2. QED
    BY <2>1, Zenon
<1> HIDE DEF T, U, g
<1>6. /\ SumFunctionOnSet(Came, U) \in Nat /\ SumFunctionOnSet(g, T) \in Nat
      /\ SumFunctionOnSet(Came, U) <= SumFunctionOnSet(g, T)
  BY <1>2, <1>3, <1>4, <1>5, SumOfLess
<1>7. Covered(n) = SumFunctionOnSet(Came, U)
  BY Zenon DEF Covered, U
<1>8. Brought(requests, n) = SumFunctionOnSet(g, T)
  BY Zenon DEF Brought, SumIn, g, T
<1>9. QED
  BY <1>6, <1>7, <1>8, Zenon

LEMMA CoveredOwn ==
  ASSUME Inv, NEW a \in Actor, hand[a].pc = "answer", Covered(hand[a].of) >= Req(a).qty,
         Goes(a, "stand_down"), UNCHANGED <<scene, requests>>
  PROVE  Own(a)
<1> DEFINE p == hand[a]  q == Req(a)  x == [p EXCEPT !.pc = "stand_down"]
<1>1. /\ p \in Hand /\ q \in Request /\ p.of \in DOMAIN requests /\ (a \in Worker => Tasks(p))
      /\ hand \in [Actor -> Hand]
  BY Here
<1>2. x.pc = "stand_down" /\ x.of = p.of /\ x.act = p.act
  BY <1>1 DEF Hand
<1>3. x \in Hand
  BY <1>1 DEF Hand
<1>4. hand' = [hand EXCEPT ![a] = x]
  BY DEF Goes
<1> HIDE DEF x
<1>5. Brought(requests, x.of) >= requests[x.of].qty
  <2>1. q.qty \in Nat
    BY <1>1, Numbers
  <2>2. QED
    BY <1>1, <1>2, <2>1, CoveredWasBrought DEF Req
<1>6. /\ Sane(x, requests) /\ (a \in Worker => Tasks(x)) /\ HandHeld(requests, x)
      /\ TokenHand(requests, x) /\ ~Live(x)
  BY <1>1, <1>2, <1>5 DEF Sane, Tasks, Working, HandHeld, TokenHand, Live, Waits
<1>7. QED
  BY <1>1, <1>2, <1>3, <1>4, <1>6, OwnThinks DEF Working

(* The answer is over, and the row says so.                                 *)
LEMMA OwnEnds ==
  ASSUME Inv, NEW a \in Actor, hand[a].pc # "idle", NEW y \in Request,
         hand' = [hand EXCEPT ![a] = Idle], requests' = [requests EXCEPT ![hand[a].of] = y],
         scene' = scene,
         SameKey(Req(a), y), y.staged = Req(a).staged,
         y.units # Req(a).units => hand[a].pc = "write" /\ y.units = Req(a).units + hand[a].given,
         y.units # Req(a).units /\ hand[a].given # 0 => y.status = "fulfilled",
         y.due => Req(a).due \/ Waits(hand[a]),
         \/ RowHeld([requests EXCEPT ![hand[a].of] = y], hand[a].of)
         \/ y.status = Req(a).status /\ y.kind = Req(a).kind
  PROVE  Own(a)
<1> DEFINE p == hand[a]  q == Req(a)  n == hand[a].of
           r2 == [requests EXCEPT ![hand[a].of] = y]
<1>1. /\ requests \in Seq(Request) /\ n \in DOMAIN requests
      /\ (Unhedged(scene) => TokenHand(requests, p) /\ TokenRow(requests, n))
  BY Here, Zenon
<1>2. OwnRow(p, q, Idle, y)
  BY IdleFits, Zenon DEF OwnRow, Working
<1>3. Unhedged(scene) => TokenMove(r2, p, q, Idle, y)
  <2>1. Len(r2) = Len(requests)
    BY <1>1, RowPut
  <2> HIDE DEF r2
  <2>2. SUFFICES ASSUME Unhedged(scene)
                 PROVE  y.staged <= y.qty /\ (y.due => n = Len(requests) /\ y.staged = 0)
    BY <2>1, IdleFits, Zenon DEF TokenMove
  <2>3. q.staged <= q.qty /\ (q.due => n = Len(requests) /\ q.staged = 0)
    BY <1>1, <2>2, Zenon DEF TokenRow, Req
  <2>4. Waits(p) => n = Len(requests) /\ q.staged = 0
    BY <1>1, <2>2, Zenon DEF TokenHand, Req
  <2>5. QED
    BY <2>3, <2>4, Zenon DEF SameKey
<1>4. OwnLeaves(scene, r2, a, p, q, Idle, y)
  <2>1. Sane(Idle, r2) /\ HandHeld(r2, Idle) /\ Tasks(Idle)
    BY IdleFits, Zenon
  <2>2. RowHeld(r2, n) \/ (y.status = q.status /\ y.kind = q.kind)
    BY Zenon
  <2> HIDE DEF r2
  <2>3. QED
    BY <1>3, <2>1, <2>2, Zenon DEF OwnLeaves
<1>5. Idle \in Hand
  BY IdleFits
<1>6. QED
  BY <1>2, <1>4, <1>5, Zenon DEF Own

LEMMA WriteOwn ==
  ASSUME Inv, NEW a \in Actor, Write(a)
  PROVE  Own(a)
<1> DEFINE p == hand[a]  q == Req(a)  n == hand[a].of  kind == hand[a].kind
           y == [q EXCEPT !.status = StatusFor(kind), !.kind = kind, !.heard = p.heard + 1,
                          !.due = kind \in {"delayed", "need_info"}, !.units = q.units + p.given]
           r2 == [requests EXCEPT ![n] = y]
<1>1. p.pc = "write" /\ hand' = [hand EXCEPT ![a] = Idle] /\ UNCHANGED scene
  BY DEF Write, At
<1>2. /\ p \in Hand /\ q \in Request /\ n \in DOMAIN requests /\ requests \in Seq(Request)
      /\ Sane(p, requests) /\ HandHeld(requests, p) /\ RowHeld(requests, n)
  BY <1>1, Here
<1>3. /\ kind \in {"accept", "delayed", "need_info", "decline"} /\ (kind # "accept" => p.given = 0)
      /\ p.given \in Nat /\ p.heard \in Nat
  BY <1>1, <1>2 DEF Sane, Working, Hand
<1>4. /\ y.status = StatusFor(kind) /\ y.kind = kind /\ y.due = (kind \in {"delayed", "need_info"})
      /\ y.units = q.units + p.given /\ y.staged = q.staged /\ y.escalated = q.escalated
      /\ y.to = q.to /\ y.qty = q.qty /\ y.parent = q.parent /\ y.hedge = q.hedge /\ y.depth = q.depth
  BY <1>2 DEF Request
<1>5. y \in Request
  <2>1. StatusFor(kind) \in {"requested", "acknowledged", "fulfilled", "declined", "cancelled"}
    BY <1>3 DEF StatusFor
  <2>2. q.units + p.given \in Nat /\ p.heard + 1 \in Nat /\ (kind \in {"delayed", "need_info"}) \in BOOLEAN
        /\ kind \in {"none", "accept", "delayed", "need_info", "decline", "stand_down"}
    BY <1>2, <1>3, Numbers
  <2> HIDE DEF kind, q, p
  <2>3. QED
    BY <1>2, <2>1, <2>2, Zenon DEF Request
<1>6. requests' = r2
  BY <1>2, Rows DEF Write, Req
<1>7. SameKey(q, y)
  BY <1>2, <1>4, Numbers DEF SameKey
<1> HIDE DEF y
<1>8. Grown(requests, r2) /\ r2 \in Seq(Request) /\ r2[n] = y
  <2>1. SameKey(requests[n], y)
    BY <1>7 DEF Req
  <2>2. QED
    BY <1>2, <1>5, <2>1, RowPut, RowPutGrows
<1>9. RowHeld(r2, n)
  <2>1. Passed(requests, n, Short(p, q))
    BY <1>1, <1>2, Zenon DEF HandHeld, Req
  <2>2. Short(p, q) \in Int
    BY <1>2, <1>5, <1>7, ShortShrinks
  <2> HIDE DEF r2
  <2>3. Passed(r2, n, Short(p, q))
    BY <1>2, <1>8, <2>1, <2>2, PassedStays
  <2>4. y.status = "fulfilled" /\ y.to \notin External => Short(p, q) = y.qty - y.staged
    BY <1>3, <1>4 DEF Short, StatusFor
  <2>5. y.status = "declined" => Short(p, q) = y.qty
    BY <1>3, <1>4 DEF Short, StatusFor
  <2>6. y.kind # "stand_down"
    BY <1>3, <1>4
  <2>7. QED
    BY <1>8, <2>3, <2>4, <2>5, <2>6, Zenon DEF RowHeld
<1>10. y.units # q.units /\ p.given # 0 => y.status = "fulfilled"
  BY <1>3, <1>4 DEF StatusFor
<1>11. y.due => Waits(p)
  BY <1>1, <1>3, <1>4 DEF Waits
<1>12. QED
  BY <1>1, <1>4, <1>5, <1>6, <1>7, <1>9, <1>10, <1>11, OwnEnds, Zenon

LEMMA StandDownOwn ==
  ASSUME Inv, NEW a \in Actor, StandDown(a)
  PROVE  Own(a)
<1> DEFINE p == hand[a]  q == Req(a)  n == hand[a].of
           y == [q EXCEPT !.status = "cancelled", !.due = FALSE, !.kind = "stand_down"]
           r2 == [requests EXCEPT ![n] = y]
<1>1. p.pc = "stand_down" /\ hand' = [hand EXCEPT ![a] = Idle] /\ UNCHANGED scene
  BY DEF StandDown, At
<1>2. /\ p \in Hand /\ q \in Request /\ n \in DOMAIN requests /\ requests \in Seq(Request)
      /\ HandHeld(requests, p)
  BY <1>1, Here
<1>3. /\ y.status = "cancelled" /\ y.kind = "stand_down" /\ y.due = FALSE
      /\ y.units = q.units /\ y.staged = q.staged /\ y.escalated = q.escalated
      /\ y.to = q.to /\ y.qty = q.qty /\ y.parent = q.parent /\ y.hedge = q.hedge /\ y.depth = q.depth
  BY <1>2 DEF Request
<1>4. y \in Request
  BY <1>2 DEF Request
<1>5. requests' = r2
  BY <1>2, Rows DEF StandDown, Req
<1>6. SameKey(q, y) /\ y.qty \in Nat
  BY <1>2, <1>3, Numbers DEF SameKey
<1> HIDE DEF y
<1>7. Grown(requests, r2) /\ r2 \in Seq(Request) /\ r2[n] = y
  <2>1. SameKey(requests[n], y)
    BY <1>6 DEF Req
  <2>2. QED
    BY <1>2, <1>4, <2>1, RowPut, RowPutGrows
<1>8. RowHeld(r2, n)
  <2>1. Brought(requests, n) >= y.qty
    BY <1>1, <1>2, <1>3, Zenon DEF HandHeld, Req
  <2> HIDE DEF r2
  <2>2. Brought(r2, n) >= y.qty
    BY <1>2, <1>6, <1>7, <2>1, BroughtGrows
  <2>3. y.status # "fulfilled" /\ y.status # "declined"
    BY <1>3
  <2>4. QED
    BY <1>7, <2>2, <2>3, Zenon DEF RowHeld
<1>9. QED
  BY <1>1, <1>3, <1>4, <1>5, <1>6, <1>8, OwnEnds, Zenon

LEMMA UpdatesOwn ==
  ASSUME Inv, NEW a \in Actor, RespondUpdates(a)
  PROVE  Own(a)
<1> DEFINE p == hand[a]  q == Req(a)  n == hand[a].of
           status == IF p.act = "cancel" THEN "cancelled" ELSE "acknowledged"
           y == [q EXCEPT !.status = status]
           r2 == [requests EXCEPT ![n] = y]
<1>1. p.pc = "seen" /\ hand' = [hand EXCEPT ![a] = Idle] /\ UNCHANGED scene
  BY DEF RespondUpdates, At
<1>2. /\ p \in Hand /\ q \in Request /\ n \in DOMAIN requests /\ requests \in Seq(Request)
      /\ RowHeld(requests, n)
  BY <1>1, Here
<1>3. /\ y.status = status /\ y.kind = q.kind /\ y.due = q.due
      /\ y.units = q.units /\ y.staged = q.staged /\ y.escalated = q.escalated
      /\ y.to = q.to /\ y.qty = q.qty /\ y.parent = q.parent /\ y.hedge = q.hedge /\ y.depth = q.depth
  BY <1>2 DEF Request
<1>4. status \in {"cancelled", "acknowledged"}
  OBVIOUS
<1>5. y \in Request
  BY <1>2, <1>4 DEF Request
<1>6. requests' = r2
  BY <1>2, Rows DEF RespondUpdates, Req
<1>7. SameKey(q, y) /\ y.qty \in Nat
  BY <1>2, <1>3, Numbers DEF SameKey
<1> HIDE DEF y, status
<1>8. Grown(requests, r2) /\ r2 \in Seq(Request) /\ r2[n] = y
  <2>1. SameKey(requests[n], y)
    BY <1>7 DEF Req
  <2>2. QED
    BY <1>2, <1>5, <2>1, RowPut, RowPutGrows
<1>9. RowHeld(r2, n)
  <2>1. y.kind = "stand_down" => Brought(requests, n) >= y.qty
    BY <1>2, <1>3, Zenon DEF RowHeld, Req
  <2> HIDE DEF r2
  <2>2. y.kind = "stand_down" => Brought(r2, n) >= y.qty
    BY <1>2, <1>7, <1>8, <2>1, BroughtGrows
  <2>3. y.status # "fulfilled" /\ y.status # "declined"
    BY <1>3, <1>4
  <2>4. QED
    BY <1>8, <2>2, <2>3, Zenon DEF RowHeld
<1>10. QED
  BY <1>1, <1>3, <1>5, <1>6, <1>7, <1>9, OwnEnds, Zenon

(* The answer goes on, and the row is changed.                              *)
LEMMA OwnGoesOn ==
  ASSUME Inv, NEW a \in Actor, hand[a].pc # "idle", NEW x \in Hand, NEW y \in Request,
         hand' = [hand EXCEPT ![a] = x], requests' = [requests EXCEPT ![hand[a].of] = y],
         scene' = scene,
         x.of = hand[a].of, x.pc # "schedule", SameKey(Req(a), y),
         y.units = Req(a).units, y.status = Req(a).status, y.kind = Req(a).kind,
         y.due => Req(a).due, y.staged # Req(a).staged => hand[a].pc = "answer",
         x.pc \in Working => x.given <= y.staged \/ (x.given = hand[a].given /\ hand[a].pc \in Working),
         Sane(x, requests), a \in Worker => Tasks(x),
         HandHeld([requests EXCEPT ![hand[a].of] = y], x),
         Unhedged(scene) =>
           /\ TokenHand([requests EXCEPT ![hand[a].of] = y], x) /\ (Live(x) => Live(hand[a]))
           /\ y.staged <= y.qty /\ (y.due => hand[a].of = Len(requests) /\ y.staged = 0)
  PROVE  Own(a)
<1> DEFINE p == hand[a]  q == Req(a)  n == hand[a].of
           r2 == [requests EXCEPT ![hand[a].of] = y]
<1>1. requests \in Seq(Request) /\ n \in DOMAIN requests
  BY Here, Zenon
<1>2. OwnRow(p, q, x, y)
  BY Zenon DEF OwnRow
<1>3. r2 \in Seq(Request) /\ Len(r2) = Len(requests) /\ Grown(requests, r2)
  <2>1. SameKey(requests[n], y)
    BY DEF Req
  <2>2. r2 \in Seq(Request) /\ Len(r2) = Len(requests)
    BY <1>1, RowPut
  <2>3. Grown(requests, r2)
    BY <1>1, <2>1, RowPutGrows, Zenon
  <2>4. QED
    BY <2>2, <2>3, Zenon
<1>4. OwnLeaves(scene, r2, a, p, q, x, y)
  <2>1. Sane(x, r2)
    <3> HIDE DEF r2
    <3>1. QED
      BY <1>1, <1>3, SaneStays
  <2>2. HandHeld(r2, x)
    BY Zenon
  <2>3. Unhedged(scene) => TokenMove(r2, p, q, x, y)
    BY <1>3, Zenon DEF TokenMove
  <2> HIDE DEF r2
  <2>4. QED
    BY <2>1, <2>2, <2>3, Zenon DEF OwnLeaves
<1>5. QED
  BY <1>2, <1>4, Zenon DEF Own

LEMMA ClearOwn ==
  ASSUME Inv, NEW a \in Actor, ClearDue(a)
  PROVE  Own(a)
<1> DEFINE p == hand[a]  q == Req(a)  n == hand[a].of
           x == [p EXCEPT !.pc = "answer"]  y == [q EXCEPT !.due = FALSE]
           r2 == [requests EXCEPT ![n] = y]
<1>1. p.pc = "clear" /\ UNCHANGED scene
  BY DEF ClearDue, At
<1>2. /\ p \in Hand /\ q \in Request /\ n \in DOMAIN requests /\ requests \in Seq(Request)
      /\ hand \in [Actor -> Hand] /\ (a \in Worker => Tasks(p)) /\ (Unhedged(scene) => a \in Worker)
  BY <1>1, Here
<1>3. a \notin Worker /\ ~Unhedged(scene)
  BY <1>1, <1>2, Zenon DEF Tasks
<1>4. x.pc = "answer" /\ x.of = n
  BY <1>2 DEF Hand
<1>5. x \in Hand
  BY <1>2 DEF Hand
<1>6. /\ y.status = q.status /\ y.kind = q.kind /\ y.due = FALSE
      /\ y.units = q.units /\ y.staged = q.staged /\ y.escalated = q.escalated
      /\ y.to = q.to /\ y.qty = q.qty /\ y.parent = q.parent /\ y.hedge = q.hedge /\ y.depth = q.depth
  BY <1>2 DEF Request
<1>7. y \in Request
  BY <1>2 DEF Request
<1>8. requests' = r2 /\ hand' = [hand EXCEPT ![a] = x]
  BY <1>2, Rows DEF ClearDue, Goes, Req
<1>9. SameKey(q, y)
  BY <1>2, <1>6, Numbers DEF SameKey
<1> HIDE DEF x, y
<1>10. Sane(x, requests) /\ HandHeld(r2, x)
  BY <1>2, <1>4 DEF Sane, HandHeld, Working
<1>11. x.pc \notin Working
  BY <1>4 DEF Working
<1>12. x.pc # "schedule"
  BY <1>4
<1>13. QED
  BY <1>1, <1>3, <1>4, <1>5, <1>6, <1>7, <1>8, <1>9, <1>10, <1>11, <1>12, OwnGoesOn, Zenon

LEMMA LargerIs ==
  ASSUME NEW m \in Nat, NEW n \in Nat
  PROVE  Larger(m, n) \in Nat /\ m <= Larger(m, n) /\ n <= Larger(m, n) /\ Larger(m, n) \in {m, n}
  BY DEF Larger

LEMMA EscalateOwn ==
  ASSUME Inv, NEW a \in Actor, hand[a].pc = "pick", Goes(a, "write"), scene' = scene,
         requests' = [requests EXCEPT ![hand[a].of].escalated = Larger(@, hand[a].ask)]
  PROVE  Own(a)
<1> DEFINE p == hand[a]  q == Req(a)  n == hand[a].of  more == Larger(q.escalated, p.ask)
           x == [p EXCEPT !.pc = "write"]  y == [q EXCEPT !.escalated = more]
           r2 == [requests EXCEPT ![n] = y]
<1>1. /\ p \in Hand /\ q \in Request /\ n \in DOMAIN requests /\ requests \in Seq(Request)
      /\ hand \in [Actor -> Hand] /\ (a \in Worker => Tasks(p))
      /\ Sane(p, requests) /\ HandHeld(requests, p)
      /\ (Unhedged(scene) => TokenHand(requests, p) /\ TokenRow(requests, n) /\ ~q.due)
  <2>1. Live(p)
    BY DEF Live
  <2>2. QED
    BY <2>1, Here
<1>2. more \in Nat /\ q.escalated <= more /\ p.ask <= more /\ p.ask \in Nat
  BY <1>1, LargerIs, Numbers, HandFields
<1>3. x.pc = "write" /\ x.of = n /\ x.kind = p.kind /\ x.given = p.given /\ x.ask = p.ask /\ x.act = p.act
  BY <1>1 DEF Hand
<1>4. x \in Hand
  BY <1>1 DEF Hand
<1>5. requests' = r2 /\ hand' = [hand EXCEPT ![a] = x]
  BY <1>1, Rows DEF Goes, Req
<1> HIDE DEF more
<1>6. /\ y.status = q.status /\ y.kind = q.kind /\ y.due = q.due
      /\ y.units = q.units /\ y.staged = q.staged /\ y.escalated = more
      /\ y.to = q.to /\ y.qty = q.qty /\ y.parent = q.parent /\ y.hedge = q.hedge /\ y.depth = q.depth
  BY <1>1 DEF Request
<1>7. y \in Request
  BY <1>1, <1>2 DEF Request
<1>8. SameKey(q, y)
  BY <1>1, <1>2, <1>6, Numbers DEF SameKey
<1> HIDE DEF x, y
<1>9. r2 \in Seq(Request) /\ Len(r2) = Len(requests) /\ r2[n] = y
  BY <1>1, <1>7, RowPut
<1>10. Sane(x, requests) /\ (a \in Worker => Tasks(x))
  BY <1>1, <1>3 DEF Sane, Tasks, Working
<1>11. HandHeld(r2, x)
  <2>1. Short(x, y) = Short(p, q) /\ Short(p, q) \in Int
    <3>1. Short(p, q) \in Int
      BY <1>1, KeyStays, ShortShrinks
    <3>2. QED
      BY <1>3, <1>6, <3>1 DEF Short
  <2>2. p.ask >= Short(p, q)
    BY <1>1 DEF HandHeld, Req
  <2>3. y.escalated >= Short(x, y)
    BY <1>2, <1>6, <2>1, <2>2
  <2>4. Passed(r2, n, Short(x, r2[n]))
    BY <1>9, <2>3, Zenon DEF Passed
  <2>5. QED
    BY <1>3, <2>4 DEF HandHeld
<1>12. Unhedged(scene) => /\ TokenHand(r2, x) /\ (Live(x) => Live(p))
                          /\ y.staged <= y.qty /\ (y.due => n = Len(requests) /\ y.staged = 0)
  <2>1. SUFFICES ASSUME Unhedged(scene)
                 PROVE  ~Live(x) /\ x.pc \notin {"answer", "pick", "insert", "schedule"} /\ ~Waits(x)
                        /\ y.staged <= y.qty /\ ~y.due
    BY Zenon DEF TokenHand
  <2>2. p.kind \in {"accept", "decline"} /\ q.staged <= q.qty /\ ~q.due
    BY <1>1, <2>1 DEF TokenHand, TokenRow, Req
  <2>3. QED
    BY <1>3, <1>6, <2>2 DEF Live, Waits
<1>13. x.pc \in Working => x.given = p.given /\ p.pc \in Working
  BY <1>3 DEF Working
<1>14. x.pc # "schedule"
  BY <1>3
<1>15. QED
  BY <1>3, <1>4, <1>5, <1>6, <1>7, <1>8, <1>10, <1>11, <1>12, <1>13, <1>14, OwnGoesOn, Zenon

(* An answer comes: units are put into the fleet, and what is still to be   *)
(* asked for is what is short.                                              *)
LEMMA AppliesOwn ==
  ASSUME Inv, NEW a \in Actor, hand[a].pc = "answer",
         NEW kind \in {"accept", "delayed", "need_info", "decline"}, NEW given \in Nat,
         kind = "accept" => given <= Req(a).qty, kind # "accept" => given = 0,
         Applies(a, kind, given)
  PROVE  Own(a)
<1> DEFINE p == hand[a]  q == Req(a)  n == hand[a].of
           ask == Missing(a, kind, given)
           new == IF q.to \in External THEN 0 ELSE given
           more == Larger(q.staged, new)
           x == [p EXCEPT !.pc = IF ask > 0 THEN "pick" ELSE "write",
                          !.kind = kind, !.given = new, !.ask = ask]
           y == [q EXCEPT !.staged = more]
           r2 == [requests EXCEPT ![n] = y]
<1>1. /\ p \in Hand /\ q \in Request /\ n \in DOMAIN requests /\ requests \in Seq(Request)
      /\ hand \in [Actor -> Hand] /\ (a \in Worker => Tasks(p))
      /\ (Unhedged(scene) => TokenHand(requests, p) /\ TokenRow(requests, n) /\ ~q.due)
  <2>1. Live(p)
    BY DEF Live
  <2>2. QED
    BY <2>1, Here
<1>2. q.qty \in Nat \ {0} /\ q.staged \in Nat /\ q.escalated \in Nat
  BY <1>1, Numbers
<1>3. new \in Nat /\ new <= given
  OBVIOUS
<1>4. /\ ask \in Nat
      /\ kind = "accept" /\ q.to \notin External => ask = q.qty - given
      /\ kind = "accept" /\ q.to \in External => ask = 0
      /\ kind = "decline" => ask = q.qty
      /\ kind = "need_info" => ask = 0
      /\ kind = "delayed" /\ "life_safety" \notin scene => ask = 0
  BY <1>2 DEF Missing
<1>5. scene' = scene /\ hand' = [hand EXCEPT ![a] = x] /\ requests' = r2
  BY <1>1, Rows DEF Applies, Req
<1> HIDE DEF ask, new
<1>6. more \in Nat /\ q.staged <= more /\ new <= more /\ more \in {q.staged, new}
  BY <1>2, <1>3, LargerIs
<1> HIDE DEF more
<1>7. /\ x.pc = (IF ask > 0 THEN "pick" ELSE "write") /\ x.kind = kind /\ x.given = new
      /\ x.ask = ask /\ x.of = n /\ x.act = p.act
  BY <1>1 DEF Hand
<1>8. x \in Hand
  <2>1. (IF ask > 0 THEN "pick" ELSE "write") \in {"pick", "write"}
    OBVIOUS
  <2>2. QED
    BY <1>1, <1>3, <1>4, <2>1 DEF Hand
<1>9. /\ y.status = q.status /\ y.kind = q.kind /\ y.due = q.due
      /\ y.units = q.units /\ y.staged = more /\ y.escalated = q.escalated
      /\ y.to = q.to /\ y.qty = q.qty /\ y.parent = q.parent /\ y.hedge = q.hedge /\ y.depth = q.depth
  BY <1>1 DEF Request
<1>10. y \in Request
  BY <1>1, <1>6 DEF Request
<1>11. SameKey(q, y)
  BY <1>2, <1>6, <1>9 DEF SameKey
<1> HIDE DEF x, y
<1>12. r2 \in Seq(Request) /\ Len(r2) = Len(requests) /\ r2[n] = y
  BY <1>1, <1>10, RowPut
<1>13. x.pc \in {"pick", "write"} /\ (x.pc = "pick" <=> ask > 0)
  BY <1>7
<1>14. Sane(x, requests) /\ (a \in Worker => Tasks(x))
  <2>1. x.kind # "none" /\ (x.kind # "accept" => x.given = 0)
    BY <1>3, <1>7
  <2>2. QED
    BY <1>1, <1>7, <1>13, <2>1 DEF Sane, Tasks, Working
<1>15. Short(x, y) \in Int /\ ask >= Short(x, y)
  BY <1>2, <1>3, <1>4, <1>6, <1>7, <1>9 DEF Short, new
<1>16. HandHeld(r2, x)
  <2>1. x.pc = "write" => Short(x, y) <= 0
    BY <1>4, <1>13, <1>15
  <2>2. x.pc = "write" => Passed(r2, x.of, Short(x, r2[x.of]))
    BY <1>7, <1>12, <2>1, Zenon DEF Passed
  <2>3. x.ask >= Short(x, r2[x.of])
    BY <1>7, <1>12, <1>15, Zenon
  <2>4. x.pc # "schedule" /\ x.pc # "stand_down"
    BY <1>13
  <2> HIDE DEF r2
  <2>5. QED
    BY <2>2, <2>3, <2>4, Zenon DEF HandHeld
<1>17. Unhedged(scene) => /\ TokenHand(r2, x) /\ (Live(x) => Live(p))
                          /\ y.staged <= y.qty /\ (y.due => n = Len(requests) /\ y.staged = 0)
  <2>1. SUFFICES ASSUME Unhedged(scene)
                 PROVE  TokenHand(r2, x) /\ y.staged <= y.qty /\ ~y.due
    BY Zenon DEF Live
  <2>2. n = Len(requests) /\ q.staged = 0 /\ ~q.due /\ "life_safety" \notin scene
    BY <1>1, <2>1 DEF TokenHand, Req, Unhedged
  <2>3. y.staged = new
    BY <1>3, <1>6, <1>9, <2>2
  <2>4. new <= q.qty
    BY <1>2, <1>3
  <2>5. x.pc = "pick" => x.kind \in {"accept", "decline"} /\ y.staged + x.ask <= y.qty
    BY <1>2, <1>3, <1>4, <1>7, <1>9, <1>13, <2>2, <2>3 DEF new
  <2>6. Waits(x) => y.staged = 0
    BY <1>3, <1>7, <2>3 DEF Waits
  <2>7. x.pc \notin {"answer", "insert", "schedule"}
    BY <1>13
  <2>8. TokenHand(r2, x)
    <3>1. x.of = Len(r2) /\ r2[x.of] = y
      BY <1>7, <1>12, <2>2, Zenon
    <3> HIDE DEF r2
    <3>2. QED
      BY <2>5, <2>6, <2>7, <3>1 DEF TokenHand
  <2>9. QED
    BY <1>9, <2>2, <2>3, <2>4, <2>8, Zenon
<1>18. x.given <= y.staged
  BY <1>6, <1>7, <1>9
<1>19. x.pc # "schedule"
  BY <1>13
<1>20. QED
  BY <1>5, <1>7, <1>8, <1>9, <1>10, <1>11, <1>14, <1>16, <1>17, <1>18, <1>19, OwnGoesOn, Zenon

LEMMA OwnSteps ==
  ASSUME Inv, NEW a \in Actor,
         \/ Answer(a) \/ StandDown(a) \/ Pick(a) \/ Write(a) \/ RespondUpdates(a) \/ Record(a)
         \/ ClearDue(a) \/ ApplyRecorded(a) \/ Fails(a)
  PROVE  Own(a)
<1>1. CASE Answer(a)
  <2>1. hand[a].pc = "answer"
    BY <1>1 DEF Answer, At
  <2>2. Req(a).qty \in Nat \ {0}
    BY <2>1, Here, Numbers
  <2>3. CASE hand[a].was = "delayed" /\ Req(a).to \in Holder /\ Covered(hand[a].of) >= Req(a).qty
    <3>1. Goes(a, "stand_down") /\ UNCHANGED <<scene, requests>>
      BY <1>1, <2>3, Zenon DEF Answer
    <3>2. QED
      BY <2>1, <2>3, <3>1, CoveredOwn
  <2>4. CASE ~(hand[a].was = "delayed" /\ Req(a).to \in Holder /\ Covered(hand[a].of) >= Req(a).qty)
    <3>1. PICK kind \in Kinds(a) :
            CASE kind = "accept_full" -> Applies(a, "accept", Req(a).qty)
              [] kind = "accept_partial" -> \E given \in 1..(Req(a).qty - 1) : Applies(a, "accept", given)
              [] OTHER -> Applies(a, kind, 0)
      BY <1>1, <2>4, Zenon DEF Answer
    <3>2. kind \in {"accept_full", "accept_partial", "decline", "delayed", "need_info"}
      BY DEF Kinds
    <3>3. CASE kind = "accept_full"
      <4>1. Applies(a, "accept", Req(a).qty)
        BY <3>1, <3>3
      <4>2. QED
        BY <2>1, <2>2, <4>1, AppliesOwn
    <3>4. CASE kind = "accept_partial"
      <4>1. PICK given \in 1..(Req(a).qty - 1) : Applies(a, "accept", given)
        BY <3>1, <3>4
      <4>2. given \in Nat /\ given <= Req(a).qty
        BY <2>2
      <4>3. QED
        BY <2>1, <4>1, <4>2, AppliesOwn
    <3>5. CASE kind \in {"decline", "delayed", "need_info"}
      <4>1. Applies(a, kind, 0)
        BY <3>1, <3>5
      <4>2. QED
        BY <2>1, <3>5, <4>1, AppliesOwn
    <3>6. QED
      BY <3>2, <3>3, <3>4, <3>5
  <2>5. QED
    BY <2>3, <2>4, Zenon
<1>2. CASE Pick(a)
  <2>1. hand[a].pc = "pick" /\ UNCHANGED scene
    BY <1>2 DEF Pick, At
  <2>2. CASE \E next \in (IF ChainEnds(hand[a].of) THEN {} ELSE Holder \ Asked(hand[a].of)) :
               /\ hand' = [hand EXCEPT ![a].pc = "insert", ![a].next = next]
               /\ UNCHANGED requests
    <3>1. PICK next \in (IF ChainEnds(hand[a].of) THEN {} ELSE Holder \ Asked(hand[a].of)) :
            /\ hand' = [hand EXCEPT ![a].pc = "insert", ![a].next = next]
            /\ UNCHANGED requests
      BY <2>2, Zenon
    <3>2. ~ChainEnds(hand[a].of) /\ next \in Holder
      BY Zenon
    <3>3. UNCHANGED <<scene, requests>>
      BY <2>1, <3>1, Zenon
    <3>4. QED
      BY <2>1, <3>1, <3>2, <3>3, PickNextOwn, Zenon
  <2>3. CASE Goes(a, "write") /\ requests' = [requests EXCEPT ![hand[a].of].escalated = Larger(@, hand[a].ask)]
    BY <2>1, <2>3, EscalateOwn
  <2>4. QED
    BY <1>2, <2>2, <2>3, Zenon DEF Pick
<1>3. CASE ApplyRecorded(a)
  <2>1. hand[a].pc = "answer"
    BY <1>3 DEF ApplyRecorded, At
  <2>2. Req(a).qty \in Nat \ {0}
    BY <2>1, Here, Numbers
  <2>3. Applies(a, "accept", Req(a).qty) \/ Applies(a, "decline", 0)
    BY <1>3, Zenon DEF ApplyRecorded
  <2>4. CASE Applies(a, "accept", Req(a).qty)
    BY <2>1, <2>2, <2>4, AppliesOwn
  <2>5. CASE Applies(a, "decline", 0)
    BY <2>1, <2>5, AppliesOwn
  <2>6. QED
    BY <2>3, <2>4, <2>5, Zenon
<1>4. QED
  BY <1>1, <1>2, <1>3, StandDownOwn, WriteOwn, UpdatesOwn, RecordOwn, ClearOwn, FailsOwn, Zenon

----------------------------------------------------------------------------
(* A hand takes up a request: q and y are its row before and after.         *)
Takes(s, a, q, x, y) ==
  /\ x.pc \in {"answer", "seen", "clear"}
  /\ SameKey(q, y) /\ y.staged = q.staged /\ y.units = q.units
  /\ y.status = q.status /\ y.kind = q.kind /\ (y.due => q.due)
  /\ a \in Worker => Tasks(x) /\ q.due /\ ~y.due
  /\ a \in Officer => ~Unhedged(s)
  /\ \/ q.to \in External
     \/ q.status \in Open /\ (a \in Officer /\ "officer_races" \in s => q.parent = 0)
May(h, s, a) == \A b \in Actor :
  \/ h[b].pc = "idle"
  \/ a \in Worker /\ b \in Worker
  \/ "officer_races" \in s

LEMMA ChildTakes ==
  ASSUME NEW r, NEW h, NEW s, Types(r, h), Child(r, h, s), NEW a \in Actor, NEW n \in DOMAIN r,
         NEW x \in Hand, NEW y \in Request, x.of = n, h[a].pc = "idle", May(h, s, a),
         Takes(s, a, r[n], x, y),
         NEW r2, r2 = [r EXCEPT ![n] = y], NEW h2, h2 = [h EXCEPT ![a] = x]
  PROVE  Child(r2, h2, s)
<1>1. r \in Seq(Request) /\ h \in [Actor -> Hand]
  BY DEF Types
<1>2. h2[a] = x /\ \A b \in Actor : b # a => h2[b] = h[b]
  BY <1>1, Zenon
<1>3. DOMAIN r2 = DOMAIN r /\ r2[n] = y /\ \A m \in DOMAIN r : m # n => r2[m] = r[m]
  BY <1>1, RowPut, Zenon
<1>4. y.parent = r[n].parent /\ y.to = r[n].to
  BY Zenon DEF Takes, SameKey
<1>5. \A m \in DOMAIN r : r2[m].parent = r[m].parent
  BY <1>3, <1>4, Zenon
<1>6. ChildRow(y)
  <2>1. ChildRow(r[n])
    BY Zenon DEF Child
  <2>2. QED
    BY <1>4, <2>1, Zenon DEF ChildRow, Takes
<1>7. \A m \in DOMAIN r2 : ChildRow(r2[m])
  BY <1>3, <1>6, Zenon DEF Child
<1>8. Worker \cap Officer = {} /\ Holder \cap External = {} /\ Actor = Worker \cup Officer
  BY AgencyAssumption DEF Actor
(* A follow-up that is taken up is in nobody's hands.                       *)
<1>9. ASSUME r[n].parent # 0
      PROVE  /\ r[n].units = 0 /\ (a \in Officer => "officer_races" \notin s)
             /\ \A b \in Actor : h[b].pc # "idle" => h[b].of # n /\ ~(h[b].pc = "schedule" /\ h[b].made = n)
             /\ a \in Officer => \A b \in Actor : h[b].pc = "idle"
  <2>1. r[n].to \in Holder /\ (r[n].units # 0 => r[n].status \notin Open)
    BY <1>9, Zenon DEF Child, ChildRow
  <2>2. r[n].status \in Open /\ (a \in Officer => "officer_races" \notin s)
    BY <1>8, <1>9, <2>1, Zenon DEF Takes
  <2>3. a \in Officer => \A b \in Actor : h[b].pc = "idle"
    BY <1>8, <2>2, Zenon DEF May
  <2>4. ASSUME NEW b \in Actor, h[b].pc # "idle", h[b].of = n PROVE FALSE
    <3>1. a \in Worker /\ r[n].due
      BY <1>8, <2>3, <2>4, Zenon DEF Takes
    <3>2. b \in Officer /\ "officer_races" \notin s
      BY <1>8, <1>9, <2>4, <3>1, Zenon DEF Child, ChildHand
    <3>3. QED
      BY <1>8, <2>4, <3>1, <3>2, Zenon DEF May
  <2>5. ASSUME NEW b \in Actor, h[b].pc = "schedule", h[b].made = n PROVE FALSE
    <3>1. ~r[n].due
      BY <2>5, Zenon DEF Child, MadeHand
    <3>2. a \in Officer
      BY <1>8, <3>1, Zenon DEF Takes
    <3>3. h[b].pc = "idle"
      BY <2>3, <3>2, Zenon
    <3>4. QED
      BY <2>5, <3>3
  <2>6. QED
    BY <2>1, <2>2, <2>3, <2>4, <2>5, Zenon
<1>10. x.pc \notin Working /\ x.pc # "idle" /\ x.pc # "schedule"
  BY DEF Takes, Working
<1>11. ASSUME NEW b \in Actor, h2[b].pc # "idle", r2[h2[b].of].parent # 0
       PROVE  /\ r2[h2[b].of].units = 0
              /\ h2[b].pc \in Working => h2[b].given <= r2[h2[b].of].staged
              /\ b \in Worker => ~r2[h2[b].of].due
              /\ \A c \in Actor \ {b} : h2[c].pc # "idle" => h2[c].of # h2[b].of
              /\ b \in Officer => "officer_races" \notin s /\ \A c \in Actor \ {b} : h2[c].pc = "idle"
  <2>1. CASE b = a
    <3>1. h2[b] = x /\ r2[h2[b].of] = y
      BY <1>2, <1>3, <2>1
    <3>2. r[n].parent # 0
      BY <1>4, <1>11, <3>1, Zenon
    <3>3. y.units = 0 /\ (a \in Worker => ~y.due) /\ (a \in Officer => "officer_races" \notin s)
      BY <1>9, <3>2, Zenon DEF Takes
    <3>4. \A c \in Actor \ {a} : h2[c] = h[c]
      BY <1>2, Zenon
    <3>5. /\ \A c \in Actor \ {a} : h2[c].pc # "idle" => h2[c].of # n
          /\ a \in Officer => \A c \in Actor \ {a} : h2[c].pc = "idle"
      BY <1>9, <3>2, <3>4, Zenon
    <3>6. QED
      BY <1>10, <2>1, <3>1, <3>3, <3>5, Zenon
  <2>2. CASE b # a
    <3>1. h2[b] = h[b] /\ h[b].pc # "idle"
      BY <1>2, <1>11, <2>2, Zenon
    <3>2. h[b].of \in DOMAIN r /\ r[h[b].of].parent # 0
      BY <1>5, <1>11, <3>1 DEF Types, Sane
    <3>3. h[b].of # n
      BY <1>9, <3>1, <3>2, Zenon
    <3>4. r2[h[b].of] = r[h[b].of]
      BY <1>3, <3>2, <3>3, Zenon
    <3>5. /\ r[h[b].of].units = 0
          /\ h[b].pc \in Working => h[b].given <= r[h[b].of].staged
          /\ b \in Worker => ~r[h[b].of].due
          /\ \A c \in Actor \ {b} : h[c].pc # "idle" => h[c].of # h[b].of
          /\ b \in Officer => "officer_races" \notin s /\ \A c \in Actor \ {b} : h[c].pc = "idle"
      BY <3>1, <3>2, Zenon DEF Child, ChildHand
    <3>6. b \notin Officer
      BY <1>8, <2>2, <3>1, <3>5, Zenon DEF May
    <3>7. \A c \in Actor \ {b} : h2[c].pc # "idle" => h2[c].of # h[b].of
      <4>1. ASSUME NEW c \in Actor \ {b}, h2[c].pc # "idle" PROVE h2[c].of # h[b].of
        <5>1. CASE c = a
          BY <1>2, <3>3, <5>1, Zenon
        <5>2. CASE c # a
          BY <1>2, <3>5, <4>1, <5>2, Zenon
        <5>3. QED
          BY <5>1, <5>2, Zenon
      <4>2. QED
        BY <4>1, Zenon
    <3>8. QED
      BY <3>1, <3>4, <3>5, <3>6, <3>7, Zenon
  <2>3. QED
    BY <2>1, <2>2, Zenon
<1>12. ASSUME NEW b \in Actor, h2[b].pc = "schedule"
       PROVE  /\ r2[h2[b].made].parent # 0 /\ ~r2[h2[b].made].due
              /\ \A c \in Actor : h2[c].pc # "idle" => h2[c].of # h2[b].made
              /\ \A c \in Actor \ {b} : h2[c].pc = "schedule" => h2[c].made # h2[b].made
  <2>1. b # a /\ h2[b] = h[b] /\ h[b].pc = "schedule"
    BY <1>2, <1>10, <1>12, Zenon
  <2>2. /\ r[h[b].made].parent # 0 /\ ~r[h[b].made].due
        /\ \A c \in Actor : h[c].pc # "idle" => h[c].of # h[b].made
        /\ \A c \in Actor \ {b} : h[c].pc = "schedule" => h[c].made # h[b].made
    BY <2>1, Zenon DEF Child, MadeHand
  <2>3. h[b].made \in DOMAIN r /\ h[b].pc # "idle"
    BY <2>1 DEF Types, Sane
  <2>4. h[b].made # n
    BY <1>9, <2>1, <2>2, <2>3, Zenon
  <2>5. r2[h[b].made] = r[h[b].made]
    BY <1>3, <2>3, <2>4, Zenon
  <2>6. \A c \in Actor : h2[c].pc # "idle" => h2[c].of # h[b].made
    BY <1>2, <2>2, <2>4, Zenon
  <2>7. \A c \in Actor \ {b} : h2[c].pc = "schedule" => h2[c].made # h[b].made
    BY <1>2, <1>10, <2>2, Zenon
  <2>8. QED
    BY <2>1, <2>2, <2>5, <2>6, <2>7, Zenon
<1>13. QED
  BY <1>7, <1>11, <1>12, Zenon DEF Child, ChildHand, MadeHand

LEMMA SumOfSame ==
  ASSUME NEW r \in Seq(Request), NEW r2 \in Seq(Request), DOMAIN r2 = DOMAIN r,
         \A k \in DOMAIN r : r2[k].staged = r[k].staged
  PROVE  \A m \in DOMAIN r : SumIn(r2, 1..(m - 1)) = SumIn(r, 1..(m - 1))
<1> TAKE m \in DOMAIN r
<1> DEFINE S == 1..(m - 1)
<1>1. S \subseteq DOMAIN r
  BY Rows
<1> HIDE DEF S
<1>2. \A k \in S : r2[k].staged = r[k].staged
  BY <1>1, Zenon
<1>3. S \subseteq DOMAIN r2
  BY <1>1, Zenon
<1>4. SumIn(r2, S) = SumIn(r, S)
  BY <1>1, <1>2, <1>3, SumStays, Zenon
<1>5. QED
  BY <1>4, Zenon DEF S

LEMMA TokenTakes ==
  ASSUME NEW r, NEW h, NEW s, Types(r, h), Token(r, h), NEW a \in Worker, NEW n \in DOMAIN r,
         NEW x \in Hand, NEW y \in Request, x.of = n, x.pc = "answer",
         Takes(s, a, r[n], x, y),
         NEW r2, r2 = [r EXCEPT ![n] = y], NEW h2, h2 = [h EXCEPT ![a] = x]
  PROVE  Token(r2, h2)
<1>1. r \in Seq(Request) /\ h \in [Actor -> Hand] /\ a \in Actor /\ a \notin Officer
  BY AgencyAssumption DEF Types, Actor
<1>2. h2[a] = x /\ \A b \in Actor : b # a => h2[b] = h[b]
  BY <1>1, Zenon
<1>3. /\ r2 \in Seq(Request) /\ Len(r2) = Len(r) /\ DOMAIN r2 = DOMAIN r
      /\ r2[n] = y /\ \A m \in DOMAIN r : m # n => r2[m] = r[m]
  BY <1>1, RowPut
<1>4. r[n].due /\ ~y.due /\ y.staged = r[n].staged /\ y.qty = r[n].qty /\ y.parent = r[n].parent
  BY Zenon DEF Takes, SameKey
<1>5. n = Len(r) /\ r[n].staged = 0
  BY <1>4, Zenon DEF Token, TokenRow
<1>6. \A m \in DOMAIN r : m # n => ~r[m].due
  BY <1>5, Zenon DEF Token, TokenRow
<1>7. \A m \in DOMAIN r2 : ~r2[m].due
  BY <1>3, <1>4, <1>6, Zenon
<1>8. \A b \in Actor : ~Live(h[b])
  BY <1>4, Zenon DEF Token
<1>9. /\ Len(r) \in Nat /\ DOMAIN r = 1..Len(r) /\ 1 \in DOMAIN r
      /\ \A m \in DOMAIN r : /\ r2[m].staged = r[m].staged /\ r2[m].qty = r[m].qty
                             /\ r2[m].parent = r[m].parent
  <2>1. Len(r) \in Nat /\ DOMAIN r = 1..Len(r)
    BY <1>1, Rows
  <2>2. 1 \in DOMAIN r
    BY <2>1
  <2>3. QED
    BY <1>3, <1>4, <2>1, <2>2, Zenon
<1>10. ASSUME NEW m \in DOMAIN r PROVE TokenRow(r2, m)
  <2>1. r \in Seq(Request) /\ r2 \in Seq(Request) /\ DOMAIN r2 = DOMAIN r
    BY <1>1, <1>3, Zenon
  <2>2. SumIn(r2, 1..(m - 1)) = SumIn(r, 1..(m - 1))
    <3>1. \A k \in DOMAIN r : r2[k].staged = r[k].staged
      BY <1>9, Zenon
    <3>2. QED
      BY <2>1, <3>1, SumOfSame, Zenon
  <2>3. TokenRow(r, m) /\ ~r2[m].due
    BY <1>3, <1>7, Zenon DEF Token
  <2>4. QED
    BY <1>3, <1>9, <2>2, <2>3, Zenon DEF TokenRow
<1>11. ASSUME NEW b \in Actor PROVE TokenHand(r2, h2[b])
  <2>1. CASE b = a
    <3>1. x.of = Len(r2) /\ r2[x.of].staged = 0 /\ ~Waits(x)
      BY <1>3, <1>4, <1>5 DEF Waits
    <3>2. QED
      BY <1>2, <2>1, <3>1 DEF TokenHand
  <2>2. CASE b # a
    <3>1. h2[b] = h[b] /\ ~Live(h[b])
      BY <1>2, <1>8, <2>2, Zenon
    <3>2. QED
      BY <3>1, Zenon DEF TokenHand, Live
  <2>3. QED
    BY <2>1, <2>2, Zenon
<1>12. \A o \in Officer : h2[o].pc = "idle"
  <2>1. \A o \in Officer : o \in Actor
    BY DEF Actor
  <2>2. QED
    BY <1>1, <1>2, <2>1, Zenon DEF Token
<1>13. ASSUME NEW b \in Actor, Live(h2[b]) PROVE \A c \in Actor \ {b} : ~Live(h2[c])
  BY <1>2, <1>8, <1>13, Zenon
<1>14. QED
  BY <1>3, <1>7, <1>10, <1>11, <1>12, <1>13, Zenon DEF Token

LEMMA TakeKeeps ==
  ASSUME Inv, NEW a \in Actor, NEW n \in DOMAIN requests, NEW x \in Hand, NEW y \in Request,
         x.of = n, hand[a].pc = "idle", MayBegin(a), Takes(scene, a, requests[n], x, y),
         a \in Worker => x.pc = "answer",
         hand' = [hand EXCEPT ![a] = x], requests' = [requests EXCEPT ![n] = y], scene' = scene
  PROVE  Inv'
<1>1. PICK r, h, s, r2, h2 :
        r = requests /\ h = hand /\ s = scene /\ r2 = requests' /\ h2 = hand'
  OBVIOUS
<1>2. /\ r2 = [r EXCEPT ![n] = y] /\ h2 = [h EXCEPT ![a] = x] /\ n \in DOMAIN r
      /\ Takes(s, a, r[n], x, y) /\ h[a].pc = "idle"
      /\ Types(r, h) /\ Held(r, h) /\ Child(r, h, s) /\ (Unhedged(s) => Token(r, h)) /\ s \in Scenarios
  BY <1>1, Zenon DEF Inv
<1>3. r \in Seq(Request) /\ h \in [Actor -> Hand] /\ SameKey(r[n], y)
  BY <1>2, Zenon DEF Types, Takes
<1>4. Grown(r, r2)
  BY <1>2, <1>3, RowPutGrows
<1>5. /\ r2 \in Seq(Request) /\ DOMAIN r2 = DOMAIN r
      /\ r2[n] = y /\ \A m \in DOMAIN r : m # n => r2[m] = r[m]
  BY <1>2, <1>3, RowPut
<1>6. h2 \in [Actor -> Hand] /\ h2[a] = x /\ \A b \in Actor : b # a => h2[b] = h[b]
  BY <1>2, <1>3, HandPut
<1>7. x.pc \in {"answer", "seen", "clear"} /\ (a \in Worker => Tasks(x))
  BY <1>2, Zenon DEF Takes
<1>8. Types(r2, h2)
  <2>1. Sane(x, r2)
    BY <1>2, <1>5, <1>7 DEF Sane, Working
  <2>2. \A b \in Actor : h2[b] = h[b] \/ (Sane(h2[b], r2) /\ (b \in Worker => Tasks(h2[b])))
    BY <1>6, <1>7, <2>1, Zenon
  <2>3. Types(r, h) /\ r2 \in Seq(Request) /\ Grown(r, r2) /\ h2 \in [Actor -> Hand]
    BY <1>2, <1>4, <1>5, <1>6, Zenon
  <2>4. QED
    BY <2>2, <2>3, TypesMove
<1>9. Held(r2, h2)
  <2>1. \A m \in DOMAIN r2 : RowHeld(r2, m) \/ (m \in DOMAIN r /\ r2[m].status = r[m].status
                                                                /\ r2[m].kind = r[m].kind)
    BY <1>2, <1>5, Zenon DEF Takes
  <2>2. HandHeld(r2, x)
    BY <1>7 DEF HandHeld
  <2>3. \A b \in Actor : h2[b] = h[b] \/ HandHeld(r2, h2[b])
    BY <1>6, <2>2, Zenon
  <2>4. Types(r, h) /\ Held(r, h) /\ r2 \in Seq(Request) /\ Grown(r, r2)
    BY <1>2, <1>4, <1>5, Zenon
  <2>5. QED
    BY <2>1, <2>3, <2>4, HeldMove
<1>10. Child(r2, h2, s)
  <2>1. May(h, s, a)
    BY <1>1 DEF MayBegin, May
  <2>2. QED
    BY <1>2, <2>1, ChildTakes
<1>11. ASSUME Unhedged(s) PROVE Token(r2, h2)
  <2>1. a \in Worker
    BY <1>2, <1>11, Zenon DEF Takes, Actor
  <2>2. x.pc = "answer" /\ Types(r, h) /\ Token(r, h) /\ n \in DOMAIN r /\ Takes(s, a, r[n], x, y)
    BY <1>2, <1>11, <2>1, Zenon
  <2>3. QED
    BY <1>2, <2>1, <2>2, TokenTakes
<1>12. QED
  BY <1>1, <1>2, <1>8, <1>9, <1>10, <1>11, Zenon DEF Inv

LEMMA ClaimKeeps ==
  ASSUME Inv, NEW w \in Worker, NEW n \in DOMAIN requests, Claim(w, n)
  PROVE  Inv'
<1> DEFINE q == requests[n]  y == [q EXCEPT !.due = FALSE]
           x == [Idle EXCEPT !.pc = "answer", !.of = n, !.was = q.kind, !.heard = q.heard]
<1>1. /\ MayBegin(w) /\ hand[w].pc = "idle" /\ q.due /\ q.status \in Open /\ scene' = scene
      /\ hand' = [hand EXCEPT ![w] = x]
  BY DEF Claim, At
<1>2. requests \in Seq(Request) /\ q \in Request /\ n \in Nat /\ w \in Actor /\ w \notin Officer
  BY Rows, AgencyAssumption DEF Inv, Types, Actor
<1>3. requests' = [requests EXCEPT ![n] = y]
  BY <1>2, Rows DEF Claim
<1>4. x \in Hand
  <2>1. /\ q.kind \in {"none", "accept", "delayed", "need_info", "decline", "stand_down"}
        /\ q.heard \in Nat
    BY <1>2 DEF Request
  <2>2. QED
    BY <1>2, <2>1 DEF Idle, Hand
<1>11. x.pc = "answer" /\ x.of = n /\ x.act = "none"
  BY DEF Idle
<1>5. /\ y.status = q.status /\ y.kind = q.kind /\ y.due = FALSE
      /\ y.units = q.units /\ y.staged = q.staged /\ y.escalated = q.escalated
      /\ y.to = q.to /\ y.qty = q.qty /\ y.parent = q.parent /\ y.hedge = q.hedge /\ y.depth = q.depth
  BY <1>2 DEF Request
<1>6. y \in Request
  BY <1>2 DEF Request
<1>7. SameKey(q, y)
  BY <1>2, <1>5, Numbers DEF SameKey
<1> HIDE DEF x, y
<1>8. Tasks(x)
  BY <1>11 DEF Tasks
<1>9. Takes(scene, w, q, x, y)
  BY <1>1, <1>2, <1>11, <1>5, <1>7, <1>8 DEF Takes
<1>10. QED
  BY <1>1, <1>2, <1>3, <1>4, <1>6, <1>9, <1>11, TakeKeeps

LEMMA RespondKeeps ==
  ASSUME Inv, NEW o \in Officer, NEW n \in DOMAIN requests,
         NEW act \in {"accept", "decline", "acknowledge", "cancel"}, Respond(o, n, act)
  PROVE  Inv'
<1> DEFINE q == requests[n]
           x == [Idle EXCEPT !.pc = "seen", !.of = n, !.act = act]
<1>1. /\ MayBegin(o) /\ hand[o].pc = "idle" /\ q.status \in Open /\ "officer" \in scene
      /\ ("officer_races" \in scene => q.parent = 0)
      /\ scene' = scene /\ requests' = requests /\ hand' = [hand EXCEPT ![o] = x]
  BY DEF Respond, At
<1>2. requests \in Seq(Request) /\ q \in Request /\ n \in Nat /\ o \in Actor /\ o \notin Worker
  BY Rows, AgencyAssumption DEF Inv, Types, Actor
<1>3. requests' = [requests EXCEPT ![n] = q]
  BY <1>1, <1>2, NoPut
<1>4. x \in Hand
  BY <1>2 DEF Idle, Hand
<1>11. x.pc = "seen" /\ x.of = n
  BY DEF Idle
<1>5. SameKey(q, q)
  BY <1>2, KeyStays
<1>6. ~Unhedged(scene)
  BY <1>1 DEF Unhedged
<1> HIDE DEF x
<1>7. Takes(scene, o, q, x, q)
  BY <1>1, <1>2, <1>5, <1>6, <1>11 DEF Takes
<1>8. QED
  BY <1>1, <1>2, <1>3, <1>4, <1>7, <1>11, TakeKeeps

LEMMA SwarmKeeps ==
  ASSUME Inv, NEW o \in Officer, NEW n \in DOMAIN requests,
         NEW act \in {"accept", "decline"}, SwarmRecords(o, n, act)
  PROVE  Inv'
<1> DEFINE q == requests[n]
           x == [Idle EXCEPT !.pc = "clear", !.of = n, !.act = act, !.was = q.kind, !.heard = q.heard]
<1>1. /\ MayBegin(o) /\ hand[o].pc = "idle" /\ q.to \in External /\ "swarm" \in scene
      /\ scene' = scene /\ requests' = requests /\ hand' = [hand EXCEPT ![o] = x]
  BY DEF SwarmRecords, At
<1>2. requests \in Seq(Request) /\ q \in Request /\ n \in Nat /\ o \in Actor /\ o \notin Worker
  BY Rows, AgencyAssumption DEF Inv, Types, Actor
<1>3. requests' = [requests EXCEPT ![n] = q]
  BY <1>1, <1>2, NoPut
<1>4. x \in Hand
  <2>1. /\ q.kind \in {"none", "accept", "delayed", "need_info", "decline", "stand_down"}
        /\ q.heard \in Nat
    BY <1>2 DEF Request
  <2>2. QED
    BY <1>2, <2>1 DEF Idle, Hand
<1>11. x.pc = "clear" /\ x.of = n
  BY DEF Idle
<1>5. SameKey(q, q)
  BY <1>2, KeyStays
<1>6. ~Unhedged(scene)
  BY <1>1 DEF Unhedged
<1> HIDE DEF x
<1>7. Takes(scene, o, q, x, q)
  BY <1>1, <1>2, <1>5, <1>6, <1>11 DEF Takes
<1>8. QED
  BY <1>1, <1>2, <1>3, <1>4, <1>7, <1>11, TakeKeeps

----------------------------------------------------------------------------
(* A request is added to those there were.                                  *)
LEMMA SumOfFirst ==
  ASSUME NEW r \in Seq(Request), NEW n \in DOMAIN r
  PROVE  /\ SumIn(r, 1..n) = r[n].staged + SumIn(r, 1..(n - 1))
         /\ SumIn(r, 1..(n - 1)) \in Nat
<1> DEFINE S == 1..n  W == 1..(n - 1)
<1>1. /\ Len(r) \in Nat /\ DOMAIN r = 1..Len(r) /\ n \in Nat \ {0} /\ n <= Len(r)
      /\ \A m \in DOMAIN r : r[m].staged \in Nat
  BY Rows, Numbers
<1>2. S \subseteq DOMAIN r /\ W \subseteq DOMAIN r /\ n \in S /\ S \ {n} = W
  BY <1>1
<1> HIDE DEF S, W
<1>3. IsFiniteSet(S) /\ \A m \in S : StagedIn(r)[m] \in Int
  <2>1. IsFiniteSet(S)
    BY <1>2, Rows, FS_Subset
  <2>2. \A m \in S : StagedIn(r)[m] \in Int
    BY <1>1, <1>2 DEF StagedIn
  <2>3. QED
    BY <2>1, <2>2
<1>4. \A x \in S : SumFunctionOnSet(StagedIn(r), S)
                     = StagedIn(r)[x] + SumFunctionOnSet(StagedIn(r), S \ {x})
  BY <1>3, SumTakesOut
<1>5. StagedIn(r)[n] = r[n].staged
  BY <1>2, Zenon DEF StagedIn
<1>6. SumIn(r, S) = r[n].staged + SumIn(r, W)
  BY <1>2, <1>4, <1>5, Zenon DEF SumIn
<1>7. SumIn(r, W) \in Nat
  BY <1>2, SumStays
<1>8. QED
  BY <1>6, <1>7, Zenon DEF S, W

LEMMA HeldAdd ==
  ASSUME NEW r, NEW h, Types(r, h), Held(r, h), NEW z \in Request,
         z.status = "requested", z.kind = "none", NEW r2, r2 = Append(r, z)
  PROVE  /\ \A n \in DOMAIN r2 : RowHeld(r2, n)
         /\ \A a \in Actor : HandHeld(r2, h[a])
<1>1. r \in Seq(Request)
  BY DEF Types
<1>2. /\ r2 \in Seq(Request) /\ DOMAIN r2 = DOMAIN r \cup {Len(r) + 1}
      /\ r2[Len(r) + 1] = z /\ \A m \in DOMAIN r : r2[m] = r[m]
  BY <1>1, RowAdd
<1>3. Grown(r, r2)
  BY <1>1, RowAddGrows
<1>4. RowHeld(r2, Len(r) + 1)
  BY <1>2 DEF RowHeld
<1>5. \A n \in DOMAIN r2 : RowHeld(r2, n) \/ (n \in DOMAIN r /\ r2[n].status = r[n].status
                                                                /\ r2[n].kind = r[n].kind)
  BY <1>2, <1>4, Zenon
<1>6. Held(r2, h)
  BY <1>2, <1>3, <1>5, HeldMove
<1>7. QED
  BY <1>6, Zenon DEF Held

LEMMA ChildAdd ==
  ASSUME NEW r, NEW h, NEW s, Types(r, h), Child(r, h, s), NEW z \in Request,
         z.parent # 0 => z.to \in Holder, z.units = 0, NEW r2, r2 = Append(r, z)
  PROVE  Child(r2, h, s)
<1>1. r \in Seq(Request)
  BY DEF Types
<1>2. /\ r2 \in Seq(Request) /\ DOMAIN r2 = DOMAIN r \cup {Len(r) + 1}
      /\ r2[Len(r) + 1] = z /\ \A m \in DOMAIN r : r2[m] = r[m]
  BY <1>1, RowAdd
<1>3. ChildRow(z)
  BY Numbers DEF ChildRow
<1>4. \A m \in DOMAIN r2 : ChildRow(r2[m])
  BY <1>2, <1>3, Zenon DEF Child
<1>5. \A a \in Actor : /\ h[a].pc # "idle" => r2[h[a].of] = r[h[a].of]
                       /\ h[a].pc = "schedule" => r2[h[a].made] = r[h[a].made]
  BY <1>2, Zenon DEF Types, Sane
<1>6. \A a \in Actor : ChildHand(r2, h, s, a)
  BY <1>5, Zenon DEF Child, ChildHand
<1>7. \A a \in Actor : MadeHand(r2, h, a)
  BY <1>5, Zenon DEF Child, MadeHand
<1>8. QED
  BY <1>4, <1>6, <1>7, Zenon DEF Child

(* The row of a request that is added, and of those there were.             *)
LEMMA TokenAdd ==
  ASSUME NEW r \in Seq(Request), \A n \in DOMAIN r : TokenRow(r, n) /\ ~r[n].due,
         NEW z \in Request, z.staged = 0,
         IF r = <<>> THEN z.parent = 0
         ELSE z.parent # 0 /\ r[Len(r)].staged + z.qty <= r[Len(r)].qty,
         NEW r2, r2 = Append(r, z)
  PROVE  \A n \in DOMAIN r2 : TokenRow(r2, n)
<1> DEFINE e == Len(r) + 1
<1>1. /\ r2 \in Seq(Request) /\ DOMAIN r2 = DOMAIN r \cup {e} /\ e \notin DOMAIN r /\ Len(r2) = e
      /\ r2[e] = z /\ \A m \in DOMAIN r : r2[m] = r[m]
  BY RowAdd
<1>2. /\ Len(r) \in Nat /\ DOMAIN r = 1..Len(r) /\ (r = <<>> <=> Len(r) = 0)
      /\ z.qty \in Nat /\ \A m \in DOMAIN r : r[m].qty \in Nat /\ r[m].staged \in Nat
  BY Rows, Numbers, EmptySeq
<1>3. ASSUME NEW n \in DOMAIN r2 PROVE SumIn(r2, 1..(n - 1)) = SumIn(r, 1..(n - 1))
  <2> DEFINE S == 1..(n - 1)
  <2>1. S \subseteq DOMAIN r
    BY <1>1, <1>2
  <2> HIDE DEF S
  <2>2. r2 \in Seq(Request) /\ S \subseteq DOMAIN r2
    BY <1>1, <2>1, Zenon
  <2>3. \A k \in S : r2[k].staged = r[k].staged
    BY <1>1, <2>1, Zenon
  <2>4. SumIn(r2, S) = SumIn(r, S)
    BY <2>1, <2>2, <2>3, SumStays, Zenon
  <2>5. QED
    BY <2>4, Zenon DEF S
<1>4. ASSUME NEW n \in DOMAIN r PROVE TokenRow(r2, n)
  <2>1. TokenRow(r, n) /\ ~r[n].due /\ r2[n] = r[n] /\ r2[1] = r[1]
    BY <1>1, <1>2
  <2>2. SumIn(r2, 1..(n - 1)) = SumIn(r, 1..(n - 1))
    BY <1>1, <1>3, Zenon
  <2>3. QED
    BY <2>1, <2>2, Zenon DEF TokenRow
<1>5. CASE r = <<>>
  <2>1. e = 1
    BY <1>2, <1>5
  <2>2. SumIn(r2, 1..(e - 1)) = 0
    <3>1. 1..(e - 1) = {}
      BY <2>1
    <3>2. QED
      BY <3>1, SumOfNone, Zenon DEF SumIn
  <2>3. TokenRow(r2, e)
    <3>1. z.parent = 0 /\ z.staged <= z.qty /\ r2[1] = z /\ 0 + z.qty <= z.qty
      BY <1>1, <1>2, <1>5, <2>1
    <3> HIDE DEF e
    <3>2. QED
      BY <1>1, <2>1, <2>2, <3>1, Zenon DEF TokenRow
  <2> HIDE DEF e
  <2>4. QED
    BY <1>1, <1>4, <2>3, Zenon
<1>6. CASE r # <<>>
  <2>1. 1 \in DOMAIN r /\ Len(r) \in DOMAIN r /\ e # 1
    BY <1>2, <1>6
  <2>2. /\ SumIn(r, 1..Len(r)) = r[Len(r)].staged + SumIn(r, 1..(Len(r) - 1))
        /\ SumIn(r, 1..(Len(r) - 1)) \in Nat
    BY <2>1, SumOfFirst
  <2>3. SumIn(r, 1..(Len(r) - 1)) + r[Len(r)].qty <= r[1].qty
    BY <2>1, Zenon DEF TokenRow
  <2>4. r[Len(r)].staged + z.qty <= r[Len(r)].qty /\ z.parent # 0
    BY <1>6
  <2>5. SumIn(r2, 1..(e - 1)) = SumIn(r, 1..Len(r))
    <3>1. SumIn(r2, 1..(e - 1)) = SumIn(r, 1..(e - 1))
      BY <1>1, <1>3, Zenon
    <3>2. e - 1 = Len(r)
      BY <1>2
    <3>3. QED
      BY <3>1, <3>2, Zenon
  <2>6. SumIn(r2, 1..(e - 1)) + z.qty <= r[1].qty
    <3> DEFINE u == SumIn(r2, 1..(e - 1))  v == SumIn(r, 1..Len(r))  t == SumIn(r, 1..(Len(r) - 1))
               g == r[Len(r)].staged  k == r[Len(r)].qty  i == r[1].qty  j == z.qty
    <3>1. u = v /\ v = g + t /\ t + k <= i /\ g + j <= k
          /\ t \in Nat /\ g \in Nat /\ k \in Nat /\ i \in Nat /\ j \in Nat
      BY <1>2, <2>1, <2>2, <2>3, <2>4, <2>5, Zenon
    <3> HIDE DEF u, v, t, g, k, i, j
    <3>2. u + j <= i
      BY <3>1
    <3>3. QED
      BY <3>2, Zenon DEF u, v, t, g, k, i, j
  <2>7. z.staged <= z.qty
    BY <1>2
  <2>8. TokenRow(r2, e)
    <3> HIDE DEF e
    <3>1. QED
      BY <1>1, <2>1, <2>4, <2>6, <2>7, Zenon DEF TokenRow
  <2> HIDE DEF e
  <2>9. QED
    BY <1>1, <1>4, <2>8, Zenon
<1>7. QED
  BY <1>5, <1>6, Zenon

(* The follow-up is made: nobody has it but the one who schedules it next.  *)
LEMMA ChildMade ==
  ASSUME NEW r, NEW h, NEW s, Types(r, h), Child(r, h, s), NEW a \in Actor, h[a].pc = "insert",
         NEW z \in Request, z.parent = h[a].of, z.to \in Holder, z.units = 0, ~z.due,
         NEW x \in Hand, x.pc = "schedule", x.of = h[a].of, x.given = h[a].given,
         x.made = Len(r) + 1,
         NEW r2, r2 = Append(r, z), NEW h2, h2 = [h EXCEPT ![a] = x]
  PROVE  Child(r2, h2, s)
<1> DEFINE e == Len(r) + 1
<1>1. r \in Seq(Request) /\ h \in [Actor -> Hand] /\ h[a].of \in DOMAIN r
  BY DEF Types, Sane
<1>2. h2[a] = x /\ \A b \in Actor : b # a => h2[b] = h[b]
  BY <1>1, Zenon
<1>3. /\ e \in DOMAIN r2 /\ e \notin DOMAIN r /\ r2[e] = z /\ \A m \in DOMAIN r : r2[m] = r[m]
  BY <1>1, RowAdd
<1>4. z.parent # 0
  BY <1>1, Rows
<1>5. Child(r2, h, s)
  BY ChildAdd
<1> HIDE DEF e
<1>6. \A b \in Actor : /\ h[b].pc # "idle" => h[b].of # e
                       /\ h[b].pc = "schedule" => h[b].made # e
  BY <1>3, Zenon DEF Types, Sane
<1>7. \A b \in Actor : /\ h2[b].of = h[b].of /\ h2[b].given = h[b].given
                       /\ (h2[b].pc = "idle" <=> h[b].pc = "idle")
                       /\ (h2[b].pc \in Working <=> h[b].pc \in Working)
  <2>1. /\ x.of = h[a].of /\ x.given = h[a].given
        /\ (x.pc = "idle" <=> h[a].pc = "idle")
        /\ (x.pc \in Working <=> h[a].pc \in Working)
    BY DEF Working
  <2>2. QED
    BY <1>2, <2>1, Zenon
<1>8. ASSUME NEW b \in Actor PROVE ChildHand(r2, h2, s, b)
  <2>1. ChildHand(r2, h, s, b)
    BY <1>5, Zenon DEF Child
  <2>2. QED
    BY <1>7, <2>1, ZenonT(60) DEF ChildHand
<1>9. ASSUME NEW b \in Actor, h2[b].pc = "schedule"
      PROVE  /\ r2[h2[b].made].parent # 0 /\ ~r2[h2[b].made].due
             /\ \A c \in Actor : h2[c].pc # "idle" => h2[c].of # h2[b].made
             /\ \A c \in Actor \ {b} : h2[c].pc = "schedule" => h2[c].made # h2[b].made
  <2>1. CASE b = a
    <3>1. h2[b].made = e
      BY <1>2, <2>1 DEF e
    <3>2. \A c \in Actor : h2[c].pc # "idle" => h2[c].of # e
      BY <1>6, <1>7, Zenon
    <3>3. \A c \in Actor \ {b} : h2[c].pc = "schedule" => h2[c].made # e
      BY <1>2, <1>6, <2>1, Zenon
    <3>4. QED
      BY <1>3, <1>4, <3>1, <3>2, <3>3, Zenon
  <2>2. CASE b # a
    <3>1. h2[b] = h[b] /\ h[b].pc = "schedule"
      BY <1>2, <1>9, <2>2, Zenon
    <3>2. /\ r2[h[b].made].parent # 0 /\ ~r2[h[b].made].due
          /\ \A c \in Actor : h[c].pc # "idle" => h[c].of # h[b].made
          /\ \A c \in Actor \ {b} : h[c].pc = "schedule" => h[c].made # h[b].made
      BY <1>5, <3>1, Zenon DEF Child, MadeHand
    <3>3. \A c \in Actor : h2[c].pc # "idle" => h2[c].of # h[b].made
      BY <1>7, <3>2, Zenon
    <3>4. h[b].made # e /\ x.made = e
      BY <1>6, <3>1 DEF e
    <3>5. \A c \in Actor \ {b} : h2[c].pc = "schedule" => h2[c].made # h[b].made
      BY <1>2, <3>2, <3>4, Zenon
    <3>6. QED
      BY <3>1, <3>2, <3>3, <3>5, Zenon
  <2>3. QED
    BY <2>1, <2>2, Zenon
<1>10. QED
  BY <1>5, <1>8, <1>9, Zenon DEF Child, MadeHand

LEMMA TokenMade ==
  ASSUME NEW r, NEW h, Types(r, h), Token(r, h), NEW a \in Actor, h[a].pc = "insert",
         NEW z \in Request, z.parent = h[a].of, z.staged = 0, z.qty = h[a].ask, ~z.due,
         NEW x \in Hand, x.pc = "schedule", x.made = Len(r) + 1, x.kind = h[a].kind,
         NEW r2, r2 = Append(r, z), NEW h2, h2 = [h EXCEPT ![a] = x]
  PROVE  Token(r2, h2)
<1>1. r \in Seq(Request) /\ h \in [Actor -> Hand] /\ h[a].of \in DOMAIN r
  BY DEF Types, Sane
<1>2. h2[a] = x /\ \A b \in Actor : b # a => h2[b] = h[b]
  BY <1>1, Zenon
<1>3. /\ DOMAIN r2 = DOMAIN r \cup {Len(r) + 1} /\ Len(r2) = Len(r) + 1
      /\ r2[Len(r) + 1] = z /\ \A m \in DOMAIN r : r2[m] = r[m]
  BY <1>1, RowAdd
<1>4. /\ h[a].of = Len(r) /\ r[Len(r)].staged + h[a].ask <= r[Len(r)].qty
      /\ h[a].kind \in {"accept", "decline"}
  <2>1. TokenHand(r, h[a]) /\ h[a].pc \in {"pick", "insert"}
    BY Zenon DEF Token
  <2>2. h[a].of = Len(r) /\ r[h[a].of].staged + h[a].ask <= r[h[a].of].qty
    BY <2>1, Zenon DEF TokenHand
  <2>3. h[a].kind \in {"accept", "decline"}
    BY <2>1 DEF TokenHand
  <2>4. QED
    BY <2>2, <2>3, Zenon
<1>5. Live(h[a]) /\ (x.pc # "idle" /\ TokenHand(r2, x))
  <2>1. Live(h[a])
    BY DEF Live
  <2>2. x.made = Len(r2) /\ r2[x.made].staged = 0
    BY <1>3
  <2>3. TokenHand(r2, x)
    BY <1>4, <2>2 DEF TokenHand, Waits
  <2>4. QED
    BY <2>1, <2>3
<1>6. (\A n \in DOMAIN r : ~r[n].due) /\ \A b \in Actor \ {a} : ~Live(h[b])
  BY <1>5, Zenon DEF Token
<1>7. \A n \in DOMAIN r : TokenRow(r, n) /\ ~r[n].due
  BY <1>6, Zenon DEF Token
<1>8. r # <<>> /\ z.parent # 0
  BY <1>1, Rows
<1>9. r[Len(r)].staged + z.qty <= r[Len(r)].qty
  BY <1>4, Zenon
<1>10. \A n \in DOMAIN r2 : TokenRow(r2, n)
  <2>1. IF r = <<>> THEN z.parent = 0
        ELSE z.parent # 0 /\ r[Len(r)].staged + z.qty <= r[Len(r)].qty
    BY <1>8, <1>9
  <2>2. QED
    BY <1>1, <1>7, <2>1, TokenAdd
<1>11. ASSUME NEW b \in Actor PROVE TokenHand(r2, h2[b])
  <2>1. CASE b = a
    BY <1>2, <1>5, <2>1, Zenon
  <2>2. CASE b # a
    <3>1. h2[b] = h[b] /\ ~Live(h[b])
      BY <1>2, <1>6, <2>2, Zenon
    <3>2. QED
      BY <3>1, Zenon DEF TokenHand, Live
  <2>3. QED
    BY <2>1, <2>2, Zenon
<1>12. \A o \in Officer : h2[o].pc = "idle"
  <2>1. h[a].pc # "idle"
    OBVIOUS
  <2>2. a \notin Officer /\ \A o \in Officer : o \in Actor
    BY <2>1, Zenon DEF Token, Actor
  <2>3. QED
    BY <1>2, <2>2, Zenon DEF Token
<1>13. ASSUME NEW b \in Actor, Live(h2[b])
       PROVE  (\A m \in DOMAIN r2 : ~r2[m].due) /\ \A c \in Actor \ {b} : ~Live(h2[c])
  <2>1. b = a
    BY <1>2, <1>6, <1>13, Zenon
  <2>2. \A m \in DOMAIN r2 : ~r2[m].due
    BY <1>3, <1>6, Zenon
  <2>3. QED
    BY <1>2, <1>6, <2>1, <2>2, Zenon
<1>14. QED
  BY <1>10, <1>11, <1>12, <1>13, Zenon DEF Token

LEMMA InsertKeeps ==
  ASSUME Inv, NEW a \in Actor, Insert(a)
  PROVE  Inv'
<1>1. PICK r, h, s, r2, h2 :
        r = requests /\ h = hand /\ s = scene /\ r2 = requests' /\ h2 = hand'
  OBVIOUS
<1> DEFINE p == h[a]
           z == [to |-> p.next, qty |-> p.ask, status |-> "requested", due |-> FALSE,
                 kind |-> "none", heard |-> 0, units |-> 0, parent |-> p.of,
                 hedge |-> p.kind = "delayed", depth |-> r[p.of].depth + 1,
                 staged |-> 0, escalated |-> 0]
           x == [p EXCEPT !.pc = "schedule", !.made = Len(r) + 1]
<1>2. /\ p.pc = "insert" /\ r2 = Append(r, z) /\ scene' = scene
      /\ s \in Scenarios /\ Types(r, h) /\ Held(r, h) /\ Child(r, h, s) /\ (Unhedged(s) => Token(r, h))
  BY <1>1 DEF Inv, Insert, At, Req
<1>3. /\ r \in Seq(Request) /\ h \in [Actor -> Hand] /\ p \in Hand /\ p.of \in DOMAIN r
      /\ p.next \in Holder /\ r[p.of].depth < MaxChain /\ p.ask > 0
      /\ p.kind # "none" /\ (p.kind # "accept" => p.given = 0) /\ (a \in Worker => Tasks(p))
  BY <1>2 DEF Types, Sane, Working
<1>4. h2 = [h EXCEPT ![a] = x]
  BY <1>1, <1>3 DEF Insert
<1>5. /\ r[p.of].depth \in 1..MaxChain /\ p.ask \in Nat /\ p.of \in Nat /\ Holder \subseteq Agency
      /\ Len(r) \in Nat /\ MaxChain \in Nat
  BY <1>3, Rows, Numbers, HandFields, AgencyAssumption
<1>6. z \in Request
  <2> DEFINE to == p.next  qty == p.ask  hedge == p.kind = "delayed"  parent == p.of
             depth == r[p.of].depth + 1
  <2>1. to \in Agency /\ qty \in Nat \ {0} /\ hedge \in BOOLEAN /\ parent \in Nat /\ depth \in 1..MaxChain
    BY <1>3, <1>5
  <2> HIDE DEF to, qty, hedge, parent, depth
  <2>2. [to |-> to, qty |-> qty, status |-> "requested", due |-> FALSE, kind |-> "none", heard |-> 0,
         units |-> 0, parent |-> parent, hedge |-> hedge, depth |-> depth,
         staged |-> 0, escalated |-> 0] \in Request
    BY <2>1 DEF Request
  <2>3. QED
    BY <2>2, Zenon DEF to, qty, hedge, parent, depth
<1>7. /\ z.to \in Holder /\ z.qty = p.ask /\ z.status = "requested" /\ z.kind = "none" /\ z.due = FALSE
      /\ z.units = 0 /\ z.parent = p.of /\ z.staged = 0 /\ (z.hedge <=> p.kind = "delayed")
  BY <1>3
<1>8. /\ x.pc = "schedule" /\ x.made = Len(r) + 1 /\ x.of = p.of /\ x.given = p.given
      /\ x.kind = p.kind /\ x.ask = p.ask /\ x.act = p.act
  BY <1>3 DEF Hand
<1>9. x \in Hand
  <2> DEFINE made == Len(r) + 1
  <2>1. made \in Nat /\ p \in Hand
    BY <1>3, <1>5
  <2> HIDE DEF made, p
  <2>2. [p EXCEPT !.pc = "schedule", !.made = made] \in Hand
    BY <2>1 DEF Hand
  <2>3. QED
    BY <2>2, Zenon DEF made, p
<1> HIDE DEF x, z
<1>10. /\ r2 \in Seq(Request) /\ DOMAIN r2 = DOMAIN r \cup {Len(r) + 1}
       /\ r2[Len(r) + 1] = z /\ \A m \in DOMAIN r : r2[m] = r[m]
  BY <1>2, <1>3, <1>6, RowAdd
<1>11. Grown(r, r2)
  BY <1>2, <1>3, <1>6, RowAddGrows
<1>12. h2 \in [Actor -> Hand] /\ h2[a] = x /\ \A b \in Actor : b # a => h2[b] = h[b]
  BY <1>3, <1>4, <1>9, HandPut
<1>13. Types(r2, h2)
  <2>1. Sane(x, r2)
    BY <1>3, <1>8, <1>10 DEF Sane, Working
  <2>2. a \in Worker => Tasks(x)
    BY <1>3, <1>8 DEF Tasks
  <2>3. \A b \in Actor : h2[b] = h[b] \/ (Sane(h2[b], r2) /\ (b \in Worker => Tasks(h2[b])))
    BY <1>12, <2>1, <2>2, Zenon
  <2>4. Types(r, h) /\ r2 \in Seq(Request) /\ Grown(r, r2) /\ h2 \in [Actor -> Hand]
    BY <1>2, <1>10, <1>11, <1>12, Zenon
  <2>5. QED
    BY <2>3, <2>4, TypesMove
<1>14. Held(r2, h2)
  <2>1. (\A n \in DOMAIN r2 : RowHeld(r2, n)) /\ \A b \in Actor : HandHeld(r2, h[b])
    BY <1>2, <1>6, <1>7, HeldAdd
  <2>2. p.ask >= Short(p, r2[p.of])
    BY <1>2, <2>1 DEF HandHeld
  <2>3. Short(x, r2[p.of]) = Short(p, r2[p.of])
    BY <1>8 DEF Short
  <2>4. r2[x.made] = z
    BY <1>8, <1>10
  <2>5. x.kind \in {"accept", "decline"} => ~z.hedge
    BY <1>7, <1>8
  <2>6. z.qty >= x.ask
    BY <1>5, <1>7, <1>8
  <2>7. HandHeld(r2, x)
    BY <1>7, <1>8, <2>2, <2>3, <2>4, <2>5, <2>6 DEF HandHeld
  <2>8. QED
    BY <1>12, <2>1, <2>7, Zenon DEF Held
<1>15. Child(r2, h2, s)
  BY <1>2, <1>4, <1>6, <1>7, <1>8, <1>9, ChildMade
<1>16. Unhedged(s) => Token(r2, h2)
  BY <1>2, <1>4, <1>6, <1>7, <1>8, <1>9, TokenMade
<1>17. QED
  BY <1>1, <1>2, <1>13, <1>14, <1>15, <1>16, Zenon DEF Inv

(* The answer time of the follow-up is set; only its own row changes.       *)
LEMMA ChildDue ==
  ASSUME NEW r, NEW h, NEW s, Types(r, h), Child(r, h, s), NEW a \in Actor, h[a].pc = "schedule",
         NEW y \in Request, y.parent = r[h[a].made].parent, y.to = r[h[a].made].to,
         y.units = r[h[a].made].units, y.staged = r[h[a].made].staged,
         y.status = r[h[a].made].status,
         NEW x \in Hand, x.pc = "write", x.of = h[a].of, x.given = h[a].given,
         NEW r2, r2 = [r EXCEPT ![h[a].made] = y], NEW h2, h2 = [h EXCEPT ![a] = x]
  PROVE  Child(r2, h2, s)
<1> DEFINE n == h[a].made
<1>1. r \in Seq(Request) /\ h \in [Actor -> Hand] /\ n \in DOMAIN r
  BY DEF Types, Sane
<1>2. h2[a] = x /\ \A b \in Actor : b # a => h2[b] = h[b]
  BY <1>1, Zenon
<1>3. DOMAIN r2 = DOMAIN r /\ r2[n] = y /\ \A m \in DOMAIN r : m # n => r2[m] = r[m]
  BY <1>1, RowPut, Zenon
<1>4. /\ \A c \in Actor : h[c].pc # "idle" => h[c].of # n
      /\ \A c \in Actor \ {a} : h[c].pc = "schedule" => h[c].made # n
  BY Zenon DEF Child, MadeHand
<1>5. ChildRow(y)
  <2>1. ChildRow(r[n])
    BY <1>1, Zenon DEF Child
  <2>2. QED
    BY <2>1, Zenon DEF ChildRow
<1>6. \A m \in DOMAIN r2 : ChildRow(r2[m])
  BY <1>3, <1>5, Zenon DEF Child
<1>7. \A b \in Actor : h[b].pc # "idle" => h[b].of \in DOMAIN r /\ r2[h[b].of] = r[h[b].of]
  BY <1>3, <1>4, Zenon DEF Types, Sane
<1>8. \A b \in Actor : /\ h2[b].of = h[b].of /\ h2[b].given = h[b].given
                       /\ (h2[b].pc = "idle" <=> h[b].pc = "idle")
                       /\ (h2[b].pc \in Working <=> h[b].pc \in Working)
  <2>1. /\ x.of = h[a].of /\ x.given = h[a].given
        /\ (x.pc = "idle" <=> h[a].pc = "idle")
        /\ (x.pc \in Working <=> h[a].pc \in Working)
    BY DEF Working
  <2>2. QED
    BY <1>2, <2>1, Zenon
<1> HIDE DEF n
<1>9. ASSUME NEW b \in Actor PROVE ChildHand(r2, h2, s, b)
  <2>1. ChildHand(r, h, s, b)
    BY Zenon DEF Child
  <2>2. CASE h2[b].pc = "idle"
    BY <2>2, Zenon DEF ChildHand
  <2>3. CASE h2[b].pc # "idle"
    <3>1. h[b].pc # "idle" /\ h2[b].of = h[b].of /\ r2[h[b].of] = r[h[b].of]
      BY <1>7, <1>8, <2>3, Zenon
    <3>2. r2[h2[b].of] = r[h[b].of]
      BY <3>1, Zenon
    <3>3. ASSUME r[h[b].of].parent # 0
          PROVE  /\ r[h[b].of].units = 0
                 /\ h2[b].pc \in Working => h2[b].given <= r[h[b].of].staged
                 /\ b \in Worker => ~r[h[b].of].due
                 /\ \A c \in Actor \ {b} : h2[c].pc # "idle" => h2[c].of # h[b].of
                 /\ b \in Officer => "officer_races" \notin s /\ \A c \in Actor \ {b} : h2[c].pc = "idle"
      <4>1. /\ r[h[b].of].units = 0
            /\ h[b].pc \in Working => h[b].given <= r[h[b].of].staged
            /\ b \in Worker => ~r[h[b].of].due
            /\ \A c \in Actor \ {b} : h[c].pc # "idle" => h[c].of # h[b].of
            /\ b \in Officer => "officer_races" \notin s /\ \A c \in Actor \ {b} : h[c].pc = "idle"
        BY <2>1, <3>1, <3>3, Zenon DEF ChildHand
      <4>2. h2[b].pc \in Working => h2[b].given <= r[h[b].of].staged
        BY <1>8, <4>1, Zenon
      <4>3. \A c \in Actor \ {b} : h2[c].pc # "idle" => h2[c].of # h[b].of
        BY <1>8, <4>1, Zenon
      <4>4. QED
        BY <1>8, <4>1, <4>2, <4>3, Zenon
    <3>4. QED
      BY <3>1, <3>2, <3>3, Zenon DEF ChildHand
  <2>4. QED
    BY <2>2, <2>3, Zenon
<1>10. ASSUME NEW b \in Actor, h2[b].pc = "schedule"
       PROVE  /\ r2[h2[b].made].parent # 0 /\ ~r2[h2[b].made].due
              /\ \A c \in Actor : h2[c].pc # "idle" => h2[c].of # h2[b].made
              /\ \A c \in Actor \ {b} : h2[c].pc = "schedule" => h2[c].made # h2[b].made
  <2>1. b # a /\ h2[b] = h[b] /\ h[b].pc = "schedule"
    <3>1. x.pc # "schedule"
      OBVIOUS
    <3>2. QED
      BY <1>2, <1>10, <3>1, Zenon
  <2>2. /\ r[h[b].made].parent # 0 /\ ~r[h[b].made].due
        /\ \A c \in Actor : h[c].pc # "idle" => h[c].of # h[b].made
        /\ \A c \in Actor \ {b} : h[c].pc = "schedule" => h[c].made # h[b].made
    BY <2>1, Zenon DEF Child, MadeHand
  <2>3. h[b].made \in DOMAIN r /\ h[b].made # n
    BY <1>4, <2>1, Zenon DEF Types, Sane
  <2>4. r2[h[b].made] = r[h[b].made]
    BY <1>3, <2>3, Zenon
  <2>5. \A c \in Actor : h2[c].pc # "idle" => h2[c].of # h[b].made
    BY <1>8, <2>2, Zenon
  <2>6. \A c \in Actor \ {b} : h2[c].pc = "schedule" => h2[c].made # h[b].made
    <3>1. x.pc # "schedule"
      OBVIOUS
    <3>2. QED
      BY <1>2, <2>2, <3>1, Zenon
  <2>7. QED
    BY <2>1, <2>2, <2>4, <2>5, <2>6, Zenon
<1>11. QED
  BY <1>6, <1>9, <1>10, Zenon DEF Child, MadeHand

LEMMA TokenDue ==
  ASSUME NEW r, NEW h, Types(r, h), Token(r, h), NEW a \in Actor, h[a].pc = "schedule",
         NEW y \in Request, SameKey(r[h[a].made], y), y.staged = r[h[a].made].staged,
         NEW x \in Hand, x.pc = "write", x.kind = h[a].kind,
         NEW r2, r2 = [r EXCEPT ![h[a].made] = y], NEW h2, h2 = [h EXCEPT ![a] = x]
  PROVE  Token(r2, h2)
<1> DEFINE n == h[a].made
<1>1. r \in Seq(Request) /\ h \in [Actor -> Hand] /\ n \in DOMAIN r
  BY DEF Types, Sane
<1>2. h2[a] = x /\ \A b \in Actor : b # a => h2[b] = h[b]
  BY <1>1, Zenon
<1>3. /\ r2 \in Seq(Request) /\ DOMAIN r2 = DOMAIN r /\ Len(r2) = Len(r)
      /\ r2[n] = y /\ \A m \in DOMAIN r : m # n => r2[m] = r[m]
  BY <1>1, RowPut
<1>4. n = Len(r) /\ r[n].staged = 0 /\ h[a].kind \in {"accept", "decline"}
  <2>1. TokenHand(r, h[a]) /\ h[a].pc \in {"pick", "insert", "schedule"}
    BY Zenon DEF Token
  <2>2. h[a].kind \in {"accept", "decline"}
    BY <2>1, Zenon DEF TokenHand
  <2>3. n = Len(r) /\ r[n].staged = 0
    BY <2>1, Zenon DEF TokenHand
  <2>4. QED
    BY <2>2, <2>3, Zenon
<1>5. Live(h[a]) /\ ~Live(x)
  BY <1>4 DEF Live, Waits
<1>6. (\A m \in DOMAIN r : ~r[m].due) /\ \A b \in Actor \ {a} : ~Live(h[b])
  BY <1>5, Zenon DEF Token
<1>7. \A b \in Actor : ~Live(h2[b])
  BY <1>2, <1>5, <1>6, Zenon
<1>8. \A b \in Actor : TokenHand(r2, h2[b])
  BY <1>7, Zenon DEF TokenHand, Live
<1>9. \A m \in DOMAIN r : r2[m].staged = r[m].staged /\ r2[m].qty = r[m].qty /\ r2[m].parent = r[m].parent
  <2>1. y.qty = r[n].qty /\ y.parent = r[n].parent
    BY Zenon DEF SameKey
  <2>2. QED
    BY <1>3, <2>1, Zenon
<1>10. \A m \in DOMAIN r : SumIn(r2, 1..(m - 1)) = SumIn(r, 1..(m - 1))
  <2>1. r \in Seq(Request) /\ r2 \in Seq(Request) /\ DOMAIN r2 = DOMAIN r
    BY <1>1, <1>3, Zenon
  <2>2. \A k \in DOMAIN r : r2[k].staged = r[k].staged
    BY <1>9, Zenon
  <2>3. QED
    BY <2>1, <2>2, SumOfSame, Zenon
<1>11. 1 \in DOMAIN r
  BY <1>1, Rows
<1> HIDE DEF n
<1>12. ASSUME NEW m \in DOMAIN r PROVE TokenRow(r2, m)
  <2>1. TokenRow(r, m)
    BY Zenon DEF Token
  <2>2. r2[m].due => m = Len(r2) /\ r2[m].staged = 0
    BY <1>3, <1>4, <1>6, <1>9, Zenon
  <2>3. SumIn(r2, 1..(m - 1)) + r2[m].qty <= r2[1].qty
    <3>1. SumIn(r, 1..(m - 1)) + r[m].qty <= r[1].qty
      BY <2>1, Zenon DEF TokenRow
    <3>2. SumIn(r2, 1..(m - 1)) = SumIn(r, 1..(m - 1)) /\ r2[m].qty = r[m].qty /\ r2[1].qty = r[1].qty
      BY <1>9, <1>10, <1>11, Zenon
    <3>3. QED
      BY <3>1, <3>2, Zenon
  <2>4. (r2[m].parent = 0 <=> m = 1) /\ r2[m].staged <= r2[m].qty
    BY <1>9, <2>1, Zenon DEF TokenRow
  <2>5. QED
    BY <2>2, <2>3, <2>4, Zenon DEF TokenRow
<1>13. \A o \in Officer : h2[o].pc = "idle"
  <2>1. h[a].pc # "idle"
    OBVIOUS
  <2>2. a \notin Officer /\ \A o \in Officer : o \in Actor
    BY <2>1, Zenon DEF Token, Actor
  <2>3. QED
    BY <1>2, <2>2, Zenon DEF Token
<1>14. QED
  BY <1>3, <1>7, <1>8, <1>12, <1>13, Zenon DEF Token

LEMMA ScheduleKeeps ==
  ASSUME Inv, NEW a \in Actor, Schedule(a)
  PROVE  Inv'
<1>1. PICK r, h, s, r2, h2 :
        r = requests /\ h = hand /\ s = scene /\ r2 = requests' /\ h2 = hand'
  OBVIOUS
<1> DEFINE p == h[a]  n == p.made  q == r[n]  y == [q EXCEPT !.due = Scheduled(q.to)]
           x == [p EXCEPT !.pc = "write"]
<1>2. /\ p.pc = "schedule" /\ scene' = scene
      /\ s \in Scenarios /\ Types(r, h) /\ Held(r, h) /\ Child(r, h, s) /\ (Unhedged(s) => Token(r, h))
  BY <1>1 DEF Inv, Schedule, At
<1>3. /\ r \in Seq(Request) /\ h \in [Actor -> Hand] /\ p \in Hand /\ p.of \in DOMAIN r
      /\ n \in DOMAIN r /\ p.kind # "none" /\ (p.kind # "accept" => p.given = 0)
      /\ (a \in Worker => Tasks(p))
  BY <1>2 DEF Types, Sane, Working
<1>4. q \in Request
  BY <1>3, Rows
<1>5. r2 = [r EXCEPT ![n] = y] /\ h2 = [h EXCEPT ![a] = x]
  <2>1. requests' = [requests EXCEPT ![hand[a].made] =
                       [requests[hand[a].made] EXCEPT !.due = Scheduled(requests[hand[a].made].to)]]
    BY <1>1, <1>3, <1>4 DEF Schedule
  <2>2. hand' = [hand EXCEPT ![a] = [hand[a] EXCEPT !.pc = "write"]]
    BY <1>1, <1>3 DEF Schedule, Goes
  <2>3. QED
    BY <1>1, <2>1, <2>2, Zenon
<1>6. /\ y.to = q.to /\ y.qty = q.qty /\ y.status = q.status /\ y.kind = q.kind /\ y.units = q.units
      /\ y.parent = q.parent /\ y.hedge = q.hedge /\ y.depth = q.depth /\ y.staged = q.staged
      /\ y.escalated = q.escalated
  BY <1>4 DEF Request
<1>7. y \in Request
  BY <1>4 DEF Request, Scheduled
<1>8. SameKey(q, y)
  BY <1>4, <1>6, Numbers DEF SameKey
<1>9. /\ x.pc = "write" /\ x.of = p.of /\ x.given = p.given /\ x.kind = p.kind /\ x.act = p.act
  BY <1>3 DEF Hand
<1>10. x \in Hand
  BY <1>3 DEF Hand
<1> HIDE DEF x, y
<1>11. /\ r2 \in Seq(Request) /\ DOMAIN r2 = DOMAIN r
       /\ r2[n] = y /\ \A m \in DOMAIN r : m # n => r2[m] = r[m]
  BY <1>3, <1>5, <1>7, RowPut
<1>12. Grown(r, r2)
  BY <1>3, <1>5, <1>7, <1>8, RowPutGrows
<1>13. h2 \in [Actor -> Hand] /\ h2[a] = x /\ \A b \in Actor : b # a => h2[b] = h[b]
  BY <1>3, <1>5, <1>10, HandPut
<1>14. Types(r2, h2)
  <2>1. Sane(x, r2)
    BY <1>3, <1>9, <1>11 DEF Sane, Working
  <2>2. a \in Worker => Tasks(x)
    BY <1>3, <1>9 DEF Tasks
  <2>3. \A b \in Actor : h2[b] = h[b] \/ (Sane(h2[b], r2) /\ (b \in Worker => Tasks(h2[b])))
    BY <1>13, <2>1, <2>2, Zenon
  <2>4. Types(r, h) /\ r2 \in Seq(Request) /\ Grown(r, r2) /\ h2 \in [Actor -> Hand]
    BY <1>2, <1>11, <1>12, <1>13, Zenon
  <2>5. QED
    BY <2>3, <2>4, TypesMove
(* What was to be passed on is asked for with the follow-up.                *)
<1>15. HandHeld(r2, x)
  <2>1. HandHeld(r2, p)
    <3>1. Sane(p, r) /\ HandHeld(r, p)
      BY <1>2, Zenon DEF Types, Held
    <3>2. QED
      BY <1>3, <1>11, <1>12, <3>1, HandHeldStays
  <2> DEFINE k == Short(x, r2[x.of])
  <2>2. k \in Int /\ k = Short(p, r2[p.of])
    <3>1. r2[p.of] \in Request
      BY <1>3, <1>11, Rows
    <3>2. Short(x, r2[x.of]) = Short(p, r2[p.of])
      BY <1>9 DEF Short
    <3>3. Short(p, r2[p.of]) \in Int
      BY <3>1, KeyStays, ShortShrinks
    <3>4. QED
      BY <3>2, <3>3
  <2>3. p.ask >= k /\ p.ask \in Nat
    BY <1>2, <1>3, <2>1, <2>2, HandFields DEF HandHeld
  <2>4. CASE p.kind \in {"accept", "decline"}
    <3>1. r2[n].parent = p.of /\ ~r2[n].hedge /\ r2[n].qty >= p.ask
      BY <1>2, <2>1, <2>4, Zenon DEF HandHeld
    <3>2. n \in ChildrenIn(r2, x.of) /\ r2[n].qty \in Nat
      BY <1>3, <1>9, <1>11, <3>1, Rows, Numbers DEF ChildrenIn
    <3>3. r2[n].qty >= k
      BY <2>2, <2>3, <3>1, <3>2
    <3>4. Passed(r2, x.of, k)
      BY <3>1, <3>2, <3>3, Zenon DEF Passed
    <3>5. QED
      BY <1>9, <3>4 DEF HandHeld
  <2>5. CASE p.kind \notin {"accept", "decline"}
    <3>1. k = 0
      BY <1>9, <2>5 DEF Short
    <3>2. Passed(r2, x.of, k)
      BY <3>1 DEF Passed
    <3>3. QED
      BY <1>9, <3>2 DEF HandHeld
  <2>6. QED
    BY <2>4, <2>5, Zenon
<1>16. Held(r2, h2)
  <2>1. \A m \in DOMAIN r2 : RowHeld(r2, m) \/ (m \in DOMAIN r /\ r2[m].status = r[m].status
                                                                /\ r2[m].kind = r[m].kind)
    BY <1>6, <1>11, Zenon
  <2>2. \A b \in Actor : h2[b] = h[b] \/ HandHeld(r2, h2[b])
    BY <1>13, <1>15, Zenon
  <2>3. Types(r, h) /\ Held(r, h) /\ r2 \in Seq(Request) /\ Grown(r, r2)
    BY <1>2, <1>11, <1>12, Zenon
  <2>4. QED
    BY <2>1, <2>2, <2>3, HeldMove
<1>17. Child(r2, h2, s)
  BY <1>2, <1>5, <1>6, <1>7, <1>9, <1>10, ChildDue
<1>18. Unhedged(s) => Token(r2, h2)
  BY <1>2, <1>5, <1>6, <1>7, <1>8, <1>9, <1>10, TokenDue
<1>19. QED
  BY <1>1, <1>2, <1>14, <1>16, <1>17, <1>18, Zenon DEF Inv

LEMMA AskKeeps ==
  ASSUME Inv, NEW to \in Agency, NEW qty \in Quantity, NEW due \in BOOLEAN, AskFirst(to, qty, due)
  PROVE  Inv'
<1>1. PICK r, h, s, r2, h2 :
        r = requests /\ h = hand /\ s = scene /\ r2 = requests' /\ h2 = hand'
  OBVIOUS
<1> DEFINE z == [to |-> to, qty |-> qty, status |-> "requested", due |-> due, kind |-> "none",
                 heard |-> 0, units |-> 0, parent |-> 0, hedge |-> FALSE, depth |-> 1,
                 staged |-> 0, escalated |-> 0]
<1>2. /\ r2 = Append(r, z) /\ h2 = h /\ scene' = scene
      /\ Cardinality({n \in DOMAIN r : r[n].parent = 0}) < MaxRoots
      /\ s \in Scenarios /\ Types(r, h) /\ Held(r, h) /\ Child(r, h, s) /\ (Unhedged(s) => Token(r, h))
  BY <1>1 DEF Inv, AskFirst
<1>3. r \in Seq(Request) /\ h \in [Actor -> Hand]
  BY <1>2 DEF Types
<1>4. z \in Request
  BY AgencyAssumption DEF Request
<1>5. /\ z.status = "requested" /\ z.kind = "none" /\ z.units = 0 /\ z.parent = 0 /\ z.staged = 0
  OBVIOUS
<1> HIDE DEF z
<1>6. /\ r2 \in Seq(Request) /\ DOMAIN r2 = DOMAIN r \cup {Len(r) + 1}
  BY <1>2, <1>3, <1>4, RowAdd
<1>7. Grown(r, r2)
  BY <1>2, <1>3, <1>4, RowAddGrows
<1>8. Types(r2, h2)
  <2>1. Types(r, h) /\ r2 \in Seq(Request) /\ Grown(r, r2) /\ h2 \in [Actor -> Hand]
    BY <1>2, <1>3, <1>6, <1>7, Zenon
  <2>2. \A b \in Actor : h2[b] = h[b] \/ (Sane(h2[b], r2) /\ (b \in Worker => Tasks(h2[b])))
    BY <1>2, Zenon
  <2>3. QED
    BY <2>1, <2>2, TypesMove
<1>9. Held(r2, h2)
  <2>1. (\A n \in DOMAIN r2 : RowHeld(r2, n)) /\ \A b \in Actor : HandHeld(r2, h[b])
    BY <1>2, <1>4, <1>5, HeldAdd
  <2>2. QED
    BY <1>2, <2>1, Zenon DEF Held
<1>10. Child(r2, h2, s)
  <2>1. Child(r2, h, s)
    BY <1>2, <1>4, <1>5, ChildAdd
  <2>2. QED
    BY <1>2, <2>1, Zenon
(* With one request of an officer's, that is the first of them all.         *)
<1>11. ASSUME Unhedged(s) PROVE Token(r2, h2)
  <2>1. MaxRoots = 1 /\ Token(r, h)
    BY <1>2, <1>11, Zenon DEF Unhedged
  <2> DEFINE roots == {n \in DOMAIN r : r[n].parent = 0}
  <2>2. roots = {}
    <3>1. IsFiniteSet(roots)
      BY <1>3, Rows, FS_Subset
    <3>2. Cardinality(roots) < 1
      BY <1>2, <2>1
    <3> HIDE DEF roots
    <3>3. Cardinality(roots) = 0
      BY <3>1, <3>2, FS_CardinalityType
    <3>4. QED
      BY <3>1, <3>3, FS_EmptySet
  <2>3. DOMAIN r = {} /\ r = <<>>
    <3>1. 1 \in DOMAIN r => r[1].parent = 0
      BY <2>1, Zenon DEF Token, TokenRow
    <3>2. 1 \notin DOMAIN r
      BY <2>2, <3>1, Zenon
    <3>3. Len(r) = 0
      BY <1>3, <3>2, Rows
    <3>4. QED
      BY <1>3, <3>3, Rows, EmptySeq
  <2>4. \A b \in Actor : h2[b].pc = "idle"
    BY <1>2, <2>3, Zenon DEF Types, Sane
  <2>5. \A b \in Actor : ~Live(h2[b])
    BY <2>4 DEF Live, Waits
  <2>6. \A n \in DOMAIN r2 : TokenRow(r2, n)
    <3>1. \A n \in DOMAIN r : TokenRow(r, n) /\ ~r[n].due
      BY <2>3, Zenon
    <3>2. IF r = <<>> THEN z.parent = 0
          ELSE z.parent # 0 /\ r[Len(r)].staged + z.qty <= r[Len(r)].qty
      BY <1>5, <2>3
    <3>3. QED
      BY <1>2, <1>3, <1>4, <1>5, <3>1, <3>2, TokenAdd
  <2>7. \A o \in Officer : o \in Actor
    BY DEF Actor
  <2>8. \A b \in Actor : TokenHand(r2, h2[b])
    BY <2>5, Zenon DEF TokenHand, Live
  <2>9. QED
    BY <2>4, <2>5, <2>6, <2>7, <2>8, Zenon DEF Token
<1>12. QED
  BY <1>1, <1>2, <1>8, <1>9, <1>10, <1>11, Zenon DEF Inv

----------------------------------------------------------------------------
LEMMA InitInv == Init => Inv
<1> SUFFICES ASSUME Init PROVE Inv
  OBVIOUS
<1>1. requests = <<>> /\ DOMAIN requests = {} /\ scene \in Scenarios
  BY DEF Init
<1>2. requests \in Seq(Request)
  BY <1>1, EmptySeq
<1>3. Idle \in Hand /\ Idle.pc = "idle" /\ Idle.act = "none"
  <2>1. Idle \in Hand
    BY DEF Idle, Hand
  <2>2. Idle.pc = "idle" /\ Idle.act = "none"
    BY DEF Idle
  <2>3. QED
    BY <2>1, <2>2, Zenon
<1>4. hand \in [Actor -> Hand] /\ \A a \in Actor : hand[a] = Idle
  BY <1>3, Zenon DEF Init
<1>5. \A a \in Actor : hand[a].pc = "idle" /\ hand[a].act = "none"
  BY <1>3, <1>4, Zenon
<1>6. (\A w \in Worker : w \in Actor) /\ \A o \in Officer : o \in Actor
  BY DEF Actor
<1>7. Types(requests, hand)
  <2>1. \A a \in Actor : Sane(hand[a], requests)
    BY <1>5 DEF Sane, Working
  <2>2. \A w \in Worker : Tasks(hand[w])
    BY <1>5, <1>6 DEF Tasks
  <2>3. QED
    BY <1>2, <1>4, <2>1, <2>2, Zenon DEF Types
<1>8. Held(requests, hand)
  <2>1. \A a \in Actor : HandHeld(requests, hand[a])
    BY <1>5 DEF HandHeld
  <2>2. QED
    BY <1>1, <2>1, Zenon DEF Held
<1>9. Child(requests, hand, scene)
  <2>1. \A a \in Actor : hand[a].pc # "schedule"
    BY <1>5
  <2>2. QED
    BY <1>1, <1>5, <2>1, Zenon DEF Child, ChildHand, MadeHand
<1>10. Token(requests, hand)
  <2>1. \A a \in Actor : ~Live(hand[a])
    BY <1>5 DEF Live, Waits
  <2>2. \A a \in Actor : TokenHand(requests, hand[a])
    BY <2>1, Zenon DEF TokenHand, Live
  <2>3. QED
    BY <1>1, <1>5, <1>6, <2>1, <2>2, Zenon DEF Token
<1>11. QED
  BY <1>1, <1>7, <1>8, <1>9, <1>10, Zenon DEF Inv

(* The process restarts: the rows stay, every hand is idle.                 *)
LEMMA RestartKeeps ==
  ASSUME Inv, Restart
  PROVE  Inv'
<1>1. PICK r, h, s, h2 : r = requests /\ h = hand /\ s = scene /\ h2 = hand'
  OBVIOUS
<1>2. /\ requests' = r /\ scene' = s /\ h2 = [a \in Actor |-> Idle]
      /\ s \in Scenarios /\ Types(r, h) /\ Held(r, h) /\ Child(r, h, s) /\ (Unhedged(s) => Token(r, h))
  BY <1>1, Zenon DEF Inv, Restart
<1>3. /\ h2 \in [Actor -> Hand] /\ \A a \in Actor : h2[a] = Idle
  BY <1>2, IdleFits, Zenon
<1>4. \A a \in Actor : /\ h2[a].pc = "idle" /\ Sane(h2[a], r) /\ Tasks(h2[a]) /\ HandHeld(r, h2[a])
                      /\ TokenHand(r, h2[a]) /\ ~Live(h2[a])
  BY <1>3, IdleFits, Zenon
<1>5. (\A w \in Worker : w \in Actor) /\ \A o \in Officer : o \in Actor
  BY DEF Actor
<1>6. Types(r, h2)
  BY <1>2, <1>3, <1>4, <1>5, Zenon DEF Types
<1>7. Held(r, h2)
  BY <1>2, <1>4, Zenon DEF Held
<1>8. Child(r, h2, s)
  <2>1. \A a \in Actor : h2[a].pc # "schedule"
    BY <1>4
  <2>2. QED
    BY <1>2, <1>4, <2>1, Zenon DEF Child, ChildHand, MadeHand
<1>9. ASSUME Unhedged(s) PROVE Token(r, h2)
  BY <1>2, <1>4, <1>5, <1>9, Zenon DEF Token
<1>10. QED
  BY <1>1, <1>2, <1>6, <1>7, <1>8, <1>9, Zenon DEF Inv

LEMMA NextKeeps == Inv /\ [Next]_vars => Inv'
<1> SUFFICES ASSUME Inv, [Next]_vars PROVE Inv'
  OBVIOUS
<1>1. CASE UNCHANGED vars
  BY <1>1, Zenon DEF vars, Inv
<1>2. ASSUME NEW to \in Agency, NEW qty \in Quantity, NEW due \in BOOLEAN, AskFirst(to, qty, due)
      PROVE  Inv'
  BY <1>2, AskKeeps
<1>3. ASSUME NEW a \in Actor, Step(a) \/ Fails(a) PROVE Inv'
  BY <1>3, OwnSteps, OwnKeeps, InsertKeeps, ScheduleKeeps, Zenon DEF Step
<1>4. ASSUME NEW n \in DOMAIN requests, NEW w \in Worker, Claim(w, n) PROVE Inv'
  BY <1>4, ClaimKeeps
<1>5. ASSUME NEW n \in DOMAIN requests, NEW o \in Officer,
             NEW act \in {"accept", "decline", "acknowledge", "cancel"}, Respond(o, n, act)
      PROVE  Inv'
  BY <1>5, RespondKeeps
<1>6. ASSUME NEW n \in DOMAIN requests, NEW o \in Officer, NEW act \in {"accept", "decline"},
             SwarmRecords(o, n, act)
      PROVE  Inv'
  BY <1>6, SwarmKeeps
<1>7. CASE Restart
  BY <1>7, RestartKeeps
<1>8. ASSUME NEW n \in DOMAIN requests, WakesForNothing(n) PROVE Inv'
  BY <1>8, Zenon DEF WakesForNothing, Inv
<1>9. QED
  BY <1>1, <1>2, <1>3, <1>4, <1>5, <1>6, <1>7, <1>8, Zenon DEF Next

(* The inductive invariant: whatever officers, tasks that overlap and calls *)
(* that fail do, a need that was answered is in the rows or in the hands of *)
(* who answers it, a follow-up is in one hand at a time, and unhedged only  *)
(* the newest request of a shortfall can still bring units.                 *)
THEOREM InvHolds == Spec => []Inv
<1>1. Init => Inv
  BY InitInv
<1>2. Inv /\ [Next]_vars => Inv'
  BY NextKeeps
<1>3. QED
  BY <1>1, <1>2, PTL DEF Spec

(* A waiter is for a row's number.                                          *)
LEMMA WaitingIs ==
  ASSUME Inv, [Next]_vars, waiting \subseteq Nat
  PROVE  waiting' \subseteq Nat
<1>1. CASE waiting' \subseteq waiting
  BY <1>1, Zenon
<1>2. ASSUME NEW n, n \in Nat, NEW due, Wakes(n, due) PROVE waiting' \subseteq Nat
  BY <1>2 DEF Wakes
<1>3. requests \in Seq(Request) /\ \A n \in DOMAIN requests : n \in Nat
  BY Rows DEF Inv, Types
<1>4. ASSUME NEW to \in Agency, NEW qty \in Quantity, NEW due \in BOOLEAN, AskFirst(to, qty, due)
      PROVE  waiting' \subseteq Nat
  <2>1. Wakes(Len(requests) + 1, due) /\ Len(requests) + 1 \in Nat
    BY <1>3, <1>4 DEF AskFirst
  <2>2. QED
    BY <1>2, <2>1, Zenon
<1>5. ASSUME NEW a \in Actor, Step(a) \/ Fails(a) PROVE waiting' \subseteq Nat
  <2>1. CASE Schedule(a)
    <3>1. hand[a].pc = "schedule" /\ Wakes(hand[a].made, Scheduled(requests[hand[a].made].to))
      BY <2>1, Zenon DEF Schedule, At
    <3>2. hand[a].made \in DOMAIN requests
      BY <3>1, Zenon DEF Inv, Types, Sane
    <3>3. QED
      BY <1>2, <1>3, <3>1, <3>2, Zenon
  <2>2. CASE Write(a)
    <3>1. hand[a].pc = "write" /\ Wakes(hand[a].of, hand[a].kind \in {"delayed", "need_info"})
      BY <2>2, Zenon DEF Write, At
    <3>2. hand[a].pc # "idle"
      BY <3>1
    <3>3. hand[a].of \in DOMAIN requests
      BY <3>2, Zenon DEF Inv, Types, Sane
    <3>4. QED
      BY <1>2, <1>3, <3>1, <3>3, Zenon
  <2>3. CASE Answer(a) \/ ApplyRecorded(a)
    <3>1. waiting' = waiting
      BY <2>3 DEF Answer, ApplyRecorded, Applies
    <3>2. QED
      BY <1>1, <3>1, Zenon
  <2>4. CASE StandDown(a) \/ Pick(a) \/ Insert(a) \/ RespondUpdates(a) \/ Record(a) \/ ClearDue(a) \/ Fails(a)
    <3>1. waiting' = waiting
      BY <2>4, Zenon DEF StandDown, Pick, Insert, RespondUpdates, Record, ClearDue, Fails
    <3>2. QED
      BY <1>1, <3>1, Zenon
  <2>5. QED
    BY <1>5, <2>1, <2>2, <2>3, <2>4, Zenon DEF Step
<1>6. ASSUME NEW n \in DOMAIN requests,
             \/ WakesForNothing(n)
             \/ \E w \in Worker : Claim(w, n)
             \/ \E o \in Officer :
                  \/ \E act \in {"accept", "decline", "acknowledge", "cancel"} : Respond(o, n, act)
                  \/ \E act \in {"accept", "decline"} : SwarmRecords(o, n, act)
      PROVE  waiting' \subseteq Nat
  <2>1. waiting' = waiting \ {n} \/ waiting' = waiting
    BY <1>6, Zenon DEF WakesForNothing, Claim, Respond, SwarmRecords
  <2>2. QED
    BY <1>1, <2>1, Zenon
<1>7. CASE Restart \/ UNCHANGED vars
  BY <1>1, <1>7 DEF Restart, vars
<1>8. QED
  BY <1>4, <1>5, <1>6, <1>7, Zenon DEF Next

(* Types, and which row a hand is about: the row of a follow-up that is     *)
(* being scheduled exists before its answer time is set.                    *)
THEOREM TypeCorrect == Spec => []TypeOK
<1>1. Init => waiting \subseteq Nat
  BY DEF Init
<1>2. waiting \subseteq Nat /\ Inv /\ [Next]_vars => (waiting \subseteq Nat)'
  BY WaitingIs
<1>3. Inv /\ waiting \subseteq Nat => TypeOK
  BY Zenon DEF Inv, Types, Sane, TypeOK
<1>4. QED
  BY <1>1, <1>2, <1>3, InvHolds, PTL DEF Spec

(* A closed request has passed its need on (_apply, _follow_up, _answer of  *)
(* agency_replies.py): for any agencies, quantities, chain and scenario.    *)
THEOREM NeedIsHeldSafe == Spec => []NeedIsHeld
<1>1. Inv => NeedIsHeld
  <2> SUFFICES ASSUME Inv, NEW n \in DOMAIN requests
               PROVE  /\ requests[n].status = "fulfilled" /\ requests[n].to \notin External
                           => PassedOn(n, requests[n].qty - requests[n].staged)
                      /\ requests[n].status = "declined" => PassedOn(n, requests[n].qty)
                      /\ requests[n].status = "cancelled" /\ requests[n].kind = "stand_down"
                           => SumFunctionOnSet(Staged, Children(n)) >= requests[n].qty
    BY Zenon DEF NeedIsHeld
  <2>1. RowHeld(requests, n)
    BY Zenon DEF Inv, Held
  <2>2. /\ \A q : Passed(requests, n, q) <=> PassedOn(n, q)
        /\ Brought(requests, n) = SumFunctionOnSet(Staged, Children(n))
    BY Zenon DEF Passed, PassedOn, Brought, SumIn, StagedIn, Staged, ChildrenIn, Children
  <2>3. QED
    BY <2>1, <2>2, Zenon DEF RowHeld
<1>2. QED
  BY <1>1, InvHolds, PTL

(* Unhedged and without officers' answers, no more units come than were     *)
(* asked for, however many tasks answer the chain of one shortfall at once. *)
THEOREM SuppliedOnceSafe == Spec => []SuppliedOnce
<1>1. Inv => SuppliedOnce
  <2> SUFFICES ASSUME Inv, MaxRoots = 1, requests # <<>>,
                      scene \cap {"officer", "swarm", "life_safety"} = {}
               PROVE  SumFunctionOnSet(Staged, DOMAIN requests) <= requests[1].qty
    BY Zenon DEF SuppliedOnce
  <2>1. requests \in Seq(Request) /\ Token(requests, hand)
    BY Zenon DEF Inv, Types, Unhedged
  <2> DEFINE k == Len(requests)
  <2>2. k \in DOMAIN requests /\ 1 \in DOMAIN requests /\ DOMAIN requests = 1..k
    BY <2>1, Rows, EmptySeq
  <2>3. SumFunctionOnSet(Staged, DOMAIN requests) = requests[k].staged + SumIn(requests, 1..(k - 1))
    <3>1. SumIn(requests, 1..k) = requests[k].staged + SumIn(requests, 1..(k - 1))
      BY <2>1, <2>2, SumOfFirst
    <3> HIDE DEF k
    <3>2. QED
      BY <2>2, <3>1, Zenon DEF SumIn, StagedIn, Staged
  <2>4. /\ SumIn(requests, 1..(k - 1)) + requests[k].qty <= requests[1].qty
        /\ requests[k].staged <= requests[k].qty
    BY <2>1, <2>2, Zenon DEF Token, TokenRow
  <2>5. /\ SumIn(requests, 1..(k - 1)) \in Nat /\ requests[k].staged \in Nat
        /\ requests[k].qty \in Nat /\ requests[1].qty \in Nat
    BY <2>1, <2>2, SumOfFirst, Rows, Numbers
  <2>6. QED
    BY <2>3, <2>4, <2>5
<1>2. QED
  BY <1>1, InvHolds, PTL
==============================================================================
